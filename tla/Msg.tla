--------------------------------- MODULE Msg ---------------------------------
(***************************************************************************)
(* Messages: send and recv of msg.c.  There is no mailbox; a message is    *)
(* copied from the sender's buffer to the receiver's when the second of    *)
(* the two makes its call and finds the first one blocked.                 *)
(*                                                                         *)
(* A pcb holds the address of the arguments of its last call.  k.call[s]   *)
(* says which call that was, k.arg[s] its first argument: the pid sent to, *)
(* or the variable from_pid points at; k.buf[s] is the length of the       *)
(* buffer, k.msg[s] the length of the string in a sender's.  "none": the   *)
(* process has run since, and what the address holds is anything.          *)
(***************************************************************************)
EXTENDS ProcTable

(* Pids that, taken for an address, find the word 0 in the kernel's image. *)
(* The image is linked at address 0 and begins with startup.S, whose bytes *)
(* 6 to 9 are the zeroes of movl $0,%edi: 6 is one of them.                *)
CONSTANT ZeroWords

ASSUME MsgAssumption == ZeroWords \subseteq Nat

(* copy: up to the shorter buffer's end or the end of the string.          *)
Least(a, b) == IF a <= b THEN a ELSE b
copy(srclen, string, dstlen) == Least(Least(srclen, string), dstlen)

(* validate_send and validate_recv.                                        *)
validate(k, p, pid, bufferOK) ==
    IF ~valid(k, pid) THEN BAD_PID
    ELSE IF k.pid[p] = pid THEN SRC_DST_SAME
    ELSE IF ~bufferOK THEN BAD_BUFFER_PARM
    ELSE 0

(* The first argument of s compared with the pid of a process that looks   *)
(* for its sender.  A receiver's is an address, which is no pid.           *)
SendsTo(k, s, pid, G) ==
    \/ k.call[s] = "send" /\ k.arg[s] = pid
    \/ k.call[s] = "none" /\ s \in G

(* The first argument of s dereferenced and found to be pid.               *)
ReceivesFrom(k, s, pid, G) ==
    \/ k.call[s] = "recv" /\ k.arg[s] = pid
    \/ k.call[s] = "none" /\ s \in G

Outcome(k, rc, from) == [mem |-> k, rc |-> rc, from |-> from]

(* Mutants: the destination that is itself sending is waited for, or is    *)
(* handed the message.                                                     *)
send_Waits(k, p, zero) ==
    LET dest   == Slot(k.arg[p])
    IN  IF k.state[dest] # "BLOCKED" \/ k.ret[dest] = SYS_SEND THEN Outcome(k, 0, k.arg[p])
        ELSE Outcome([k EXCEPT !.arg[dest] = k.pid[p]],
                     copy(k.buf[p], k.msg[p], k.buf[dest]), k.arg[p])

send_NeverRefuses(k, p, zero) ==
    LET dest   == Slot(k.arg[p])
    IN  IF k.state[dest] # "BLOCKED" THEN Outcome(k, 0, k.arg[p])
        ELSE Outcome(k, copy(k.buf[p], k.msg[p], k.buf[dest]), k.arg[p])

(* send: what it returns and what it writes.  A blocked destination is     *)
(* taken to be receiving; from any if the word its first argument points   *)
(* at is 0.  If that word is neither 0 nor the sender's pid, only a        *)
(* destination that is itself sending is refused.                          *)
send(k, p, zero) ==
    LET to     == k.arg[p]
        dest   == Slot(to)
        any    == IF k.call[dest] = "recv" THEN k.arg[dest] = 0
                  ELSE zero /\ k.arg[dest] \in ZeroWords
        ours   == k.call[dest] = "recv" /\ k.arg[dest] = k.pid[p]
        copied == copy(k.buf[p], k.msg[p], k.buf[dest])
    IN  IF k.state[dest] # "BLOCKED" THEN Outcome(k, 0, to)
        ELSE IF any THEN Outcome(IF k.call[dest] = "recv"
                                 THEN [k EXCEPT !.arg[dest] = k.pid[p]] ELSE k, copied, to)
        ELSE IF ~ours /\ k.ret[dest] = SYS_SEND THEN Outcome(k, WOULD_DEADLOCK, to)
        ELSE Outcome(k, copied, to)

(* The copy recv makes from s.  Through the arguments of a call that is    *)
(* over it would follow whatever lies there now.                           *)
Take(k, s, p, from) ==
    IF k.call[s] = "none" THEN Outcome(Fault(k, "wild"), 0, from)
    ELSE Outcome(k, copy(k.buf[s], k.msg[s], k.buf[p]), from)

(* recv from any process: the first pcb on blocked_q that names p.         *)
RecvAny(k, p, G) ==
    LET at   == Chain(k.next, k.que["blocked_q"])
        hits == {n \in 0 .. MAX_PROC :
                    at[n] \in Pcbs /\ at[n] # p /\ SendsTo(k, at[n], k.pid[p], G)}
        s    == at[CHOOSE i \in hits : \A j \in hits : i <= j]
    IN  IF hits # {} THEN Take([k EXCEPT !.arg[p] = k.pid[s]], s, p, k.pid[s])
        ELSE Outcome(IF at[MAX_PROC] # NULL THEN Fault(k, "loop") ELSE k, 0, 0)

(* Mutant: a sender that is already blocked is not looked for.             *)
RecvFrom_Waits(k, p, G) == Outcome(k, 0, k.arg[p])

(* recv from one process.  Whether that one is receiving is decided from   *)
(* its ret alone, in whatever state it is.                                 *)
RecvFrom(k, p, G) ==
    LET from == k.arg[p]
        s    == Slot(from)
    IN  IF k.ret[s] = SYS_RECV /\ ReceivesFrom(k, s, k.pid[p], G)
        THEN Outcome(k, WOULD_DEADLOCK, from)
        ELSE IF k.state[s] = "BLOCKED" /\ SendsTo(k, s, k.pid[p], G)
        THEN Take(k, s, p, from)
        ELSE Outcome(k, 0, from)

-----------------------------------------------------------------------------
(* The rest of the two handlers of dispatch(), which is the same for both: *)
(* o is what send or recv returned, other the process it named, block the  *)
(* code of the call.                                                       *)
(* Mutants: the partner is not taken off blocked_q, or only when it is     *)
(* ready already.                                                          *)
Both_NoRemove(k, p, other, n) ==
    ready(ready([k EXCEPT !.ret[p] = n, !.ret[other] = n], p), other)

Both_ReadyFirst(k, p, other, n) ==
    LET k1 == ready(ready([k EXCEPT !.ret[p] = n, !.ret[other] = n], p), other)
    IN  remove(k1, get_q(k1.state[other]), k.pid[other])

Both(k, p, other, n) ==
    LET k1 == ready([k EXCEPT !.ret[p] = n, !.ret[other] = n], p)
    IN  IF k.pid[other] = 0 THEN k1
        ELSE ready(remove(k1, get_q(k1.state[other]), k.pid[other]), other)

(* Mutant: the caller is put on blocked_q, but still runs.                 *)
Block_KeepsState(k, p, code) == append([k EXCEPT !.ret[p] = code], "blocked_q", p)

Block(k, p, code) ==
    append([k EXCEPT !.state[p] = "BLOCKED", !.ret[p] = code], "blocked_q", p)

Finish(o, p, code) ==
    IF o.rc > 0 THEN Both(o.mem, p, Slot(o.from), o.rc)
    ELSE IF o.rc < 0 THEN ready([o.mem EXCEPT !.ret[p] = o.rc], p)
    ELSE Block(o.mem, p, code)

SysSend(k, p, bufferOK, zero) ==
    LET rc == validate(k, p, k.arg[p], bufferOK)
    IN  Finish(IF rc < 0 THEN Outcome(k, rc, k.arg[p]) ELSE send(k, p, zero), p, SYS_SEND)

SysRecv(k, p, bufferOK, G) ==
    LET rc == validate(k, p, k.arg[p], bufferOK)
    IN  Finish(IF rc < 0 THEN Outcome(k, rc, k.arg[p])
               ELSE IF k.arg[p] = 0 THEN RecvAny(k, p, G)
               ELSE RecvFrom(k, p, G), p, SYS_RECV)
=============================================================================
