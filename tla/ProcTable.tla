------------------------------ MODULE ProcTable ------------------------------
(***************************************************************************)
(* The process table and the linked lists the kernel threads through it:   *)
(* proctab and its pcb's (xeroskernel.h), and the list operations of       *)
(* disp.c.                                                                 *)
(*                                                                         *)
(* The kernel's memory is one record k.  A pcb is the index of its slot in *)
(* proctab; a field of the pcb's is a function on Slots (k.next[s] is      *)
(* proctab[s].next); the four list heads that disp.c passes by address     *)
(* (pcb **q) are entries of the function k.que, named as in the source.    *)
(* The lists share the one next field of a pcb, as they do in the code, so *)
(* a pcb that is left on one list and appended to another joins the two.   *)
(*                                                                         *)
(* Every operation takes the memory and returns the memory it leaves.  The *)
(* kernel runs with interrupts disabled, so a handler is a composition of  *)
(* them inside one step.                                                   *)
(***************************************************************************)
EXTENDS Integers

CONSTANTS
    MAX_PROC,  \* pcb's in proctab; slot 0 is never used
    INT_MAX    \* bound of the pids: create() starts a slot's over before it

ASSUME ProcTableAssumption ==
    /\ MAX_PROC \in Nat /\ MAX_PROC >= 3
    /\ INT_MAX \in Nat /\ INT_MAX > 2 * MAX_PROC

Pids  == 0 .. INT_MAX - 1     \* 0: the slot has never been used

NULL  == -1
Slots == 0 .. MAX_PROC - 1
Pcbs  == Slots \ {0}          \* the slots a process can have
Ptr   == Pcbs \cup {NULL}

ROOT == 1         \* slot and pid of root, the first process created
IDLE == 2         \* slot and pid (idleproc_pid) of idleproc, the second

States == {"STOPPED", "READY", "RUNNING", "BLOCKED", "SLEEP"}
QNames == {"head", "running", "blocked_q", "dead_q"}

(* Request numbers double as the return value of a blocked process.        *)
SYS_SEND == 6
SYS_RECV == 7
BAD_PID         == -1
SRC_DST_SAME    == -2
BAD_BUFFER_PARM == -3
WOULD_DEADLOCK  == -4

-----------------------------------------------------------------------------
(* A failed kassert halts the machine ("kassert"), a walk over a cyclic    *)
(* list never ends ("loop"), a wild pointer is followed ("wild"), a list   *)
(* operation meets a pcb its list must not hold ("alias").  The kernel     *)
(* does nothing more after the first of these.                             *)
Faults == {"kassert", "loop", "wild", "alias"}

Fault(k, f) == IF k.fault = "none" THEN [k EXCEPT !.fault = f] ELSE k

-----------------------------------------------------------------------------
(* Walks along next.                                                       *)
Step(next, s) == IF s \in Pcbs THEN next[s] ELSE NULL

(* Chain(next, q)[n] is the pointer a walk from q holds after n steps.     *)
Chain(next, q) ==
    LET at[n \in 0 .. MAX_PROC] == IF n = 0 THEN q ELSE Step(next, at[n - 1])
    IN  at

Members(next, q) ==
    LET at == Chain(next, q) IN {s \in Pcbs : \E n \in 0 .. MAX_PROC : at[n] = s}

Endless(next, q) == Chain(next, q)[MAX_PROC] # NULL

LastOf(next, q) ==
    LET ends == {s \in Members(next, q) : next[s] = NULL}
    IN  IF ends = {} THEN NULL ELSE CHOOSE s \in ends : TRUE

-----------------------------------------------------------------------------
Slot(pid) == pid % MAX_PROC

(* The alignment assertion of ready() and next().                          *)
Aligned(k, p) == k.pid[p] = k.pid[Slot(k.pid[p])]

(* int valid(int pid) of msg.c: only the slot's state is looked at.        *)
valid(k, pid) == pid = 0 \/ k.state[Slot(pid)] # "STOPPED"

(* get_q: the list a pcb in this state should be on; none for sleepers.    *)
get_q(st) == CASE st = "READY"   -> "head"
              [] st = "RUNNING" -> "running"
              [] st = "STOPPED" -> "dead_q"
              [] st = "BLOCKED" -> "blocked_q"
              [] OTHER          -> "none"

(* remove: prev is never advanced, so *prev = queue moves the head of the  *)
(* list to each pcb the walk passes.                                       *)
remove(k, q, pid) ==
    IF q \notin QNames THEN Fault(k, "wild")
    ELSE LET from  == k.que[q]
             found == {s \in Members(k.next, from) : k.pid[s] = pid}
         IN IF from = NULL THEN k
            ELSE IF found # {}
                 THEN LET s == CHOOSE x \in found : TRUE
                      IN  [k EXCEPT !.que[q] = k.next[s], !.next[s] = NULL]
            ELSE IF Endless(k.next, from) THEN Fault(k, "loop")
            ELSE [k EXCEPT !.que[q] = LastOf(k.next, from)]

(* append: to the end of the list, or nowhere if p is already on it.       *)
append(k, q, p) ==
    LET next == [k.next EXCEPT ![p] = NULL]
        from == k.que[q]
    IN  IF from = NULL THEN [k EXCEPT !.next = next, !.que[q] = p]
        ELSE IF p \in Members(next, from) THEN [k EXCEPT !.next = next]
        ELSE IF Endless(next, from) THEN Fault(k, "loop")
        ELSE [k EXCEPT !.next = [next EXCEPT ![LastOf(next, from)] = p]]

(* Mutant: a new arrival overtakes everybody.                              *)
ready_AtHead(k, p) ==
    LET r == [k EXCEPT !.next[p] = k.que["head"], !.state[p] = "READY"]
    IN  IF p = 0 \/ ~Aligned(k, p) THEN Fault(k, "kassert")
        ELSE IF k.pid[p] = IDLE THEN [r EXCEPT !.next[p] = NULL]
        ELSE [r EXCEPT !.que["head"] = p, !.tail = IF @ = NULL THEN p ELSE @]

(* ready: to the tail of the ready queue, except the idle process.         *)
ready(k, p) ==
    LET r == [k EXCEPT !.next[p] = NULL, !.state[p] = "READY"]
    IN  IF p = 0 \/ ~Aligned(k, p) THEN Fault(k, "kassert")
        ELSE IF k.pid[p] = IDLE THEN r
        ELSE IF k.tail # NULL
             THEN [r EXCEPT !.next[k.tail] = p, !.tail = p]
             ELSE [r EXCEPT !.que["head"] = p, !.tail = p]

(* Mutants: tail, or the link of the pcb that leaves, is not reset.        *)
Pop_KeepsTail(k) ==
    LET p == k.que["head"]
    IN  [k EXCEPT !.que["head"] = k.next[p], !.next[p] = NULL]

Pop_KeepsNext(k) ==
    LET p == k.que["head"]
    IN  [k EXCEPT !.que["head"] = k.next[p], !.tail = IF k.next[p] = NULL THEN NULL ELSE @]

(* Pop: next()'s first step, the head of the ready queue leaves it.        *)
Pop(k) ==
    LET p == k.que["head"]
    IN  [k EXCEPT !.que["head"] = k.next[p], !.next[p] = NULL,
                  !.tail = IF k.next[p] = NULL THEN NULL ELSE @]

(* The process gets the CPU: its arguments are its own again, and what     *)
(* they hold from here to its next call is no longer known to the kernel.  *)
Run(k, p) ==
    [k EXCEPT !.state[p] = "RUNNING", !.que["running"] = p,
              !.call[p] = "none", !.arg[p] = 0, !.buf[p] = 0, !.msg[p] = 0]

(* Mutant: nothing is dispatched when the ready queue is empty.            *)
Dispatch_NoIdle(k) ==
    LET h == k.que["head"]
    IN  IF h = NULL THEN [k EXCEPT !.que["running"] = NULL]
        ELSE IF k.state[h] # "READY" THEN Fault(k, "kassert")
        ELSE Run(Pop(k), h)

(* p = next(); p->state = STATE_RUNNING; running = p                       *)
Dispatch(k) ==
    LET h == k.que["head"]
        r == k.que["running"]
    IN  IF h = NULL THEN Run(k, IDLE)
        ELSE IF ~Aligned(k, h) \/ k.state[h] # "READY" THEN Fault(k, "kassert")
        ELSE IF k.pid[h] = IDLE
             THEN LET s == Pop(k).que["head"]
                  IN  IF s = NULL THEN Run(Pop(k), h) ELSE Run(Pop(Pop(k)), s)
        ELSE IF k.pid[r] = IDLE THEN Run([Pop(k) EXCEPT !.state[r] = "READY"], h)
        ELSE Run(Pop(k), h)

(* notify_waiters: q, the first pcb on blocked_q found to wait on pid.     *)
(* ready(q) ends its next field, so the walk stops there; and it is linked *)
(* round only in a predecessor, which the head of the list does not have.  *)
(* G: the pcb's for which the value compared with pid is left over from    *)
(* something else, an argument of a finished call or the uninitialised     *)
(* destpid, and happens to equal pid.                                      *)
WaitsOn(k, s, pid, first, G) ==
    CASE k.ret[s] \notin {SYS_SEND, SYS_RECV} -> first /\ s \in G
      [] k.call[s] = "none" -> s \in G
      [] OTHER -> /\ k.call[s] = (IF k.ret[s] = SYS_SEND THEN "send" ELSE "recv")
                  /\ k.arg[s] = pid

notify_waiters(k, pid, G) ==
    LET at   == Chain(k.next, k.que["blocked_q"])
        hits == {n \in 0 .. MAX_PROC :
                    at[n] \in Pcbs /\ WaitsOn(k, at[n], pid, n = 0, G)}
        n    == CHOOSE i \in hits : \A j \in hits : i <= j
        q    == at[n]
        k1   == IF n = 0 THEN k ELSE [k EXCEPT !.next[at[n - 1]] = k.next[q]]
    IN  IF hits = {}
        THEN IF at[MAX_PROC] # NULL THEN Fault(k, "loop") ELSE k
        ELSE IF q = k.tail THEN Fault(k, "loop")
        ELSE ready([k1 EXCEPT !.ret[q] = BAD_PID], q)
=============================================================================
