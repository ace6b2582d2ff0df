-------------------------------- MODULE Kernel --------------------------------
(***************************************************************************)
(* The dispatcher of disp.c: one action per request that contextswitch()   *)
(* can return, each the whole case of dispatch()'s switch.  The kernel     *)
(* runs with interrupts off, so a case is one step; what interleaves is    *)
(* which request the process that has the CPU makes next, and when the     *)
(* timer interrupts it.                                                    *)
(*                                                                         *)
(* The processes are the environment: any process that has the CPU may     *)
(* make any of the Calls with any arguments.  The signal and device calls  *)
(* are not in this module.                                                 *)
(***************************************************************************)
EXTENDS SleepList, Msg

CONSTANTS
    Calls,         \* the requests the processes of a workload make
    MaxPid,        \* bound: no pid beyond it is given out or named
    BufLens,       \* lengths of message buffers
    MsgLens,       \* lengths of the strings in a sender's buffer
    BadBuffers,    \* whether a call may pass a buffer validate_buffer refuses
    Naps,          \* arguments of syssleep, in milliseconds
    EaxValues,     \* what eax may hold when the timer interrupts
    AllocMayFail   \* whether kmalloc may return NULL

ASSUME KernelAssumption ==
    /\ Calls \subseteq {"create", "yield", "stop", "getpid", "send", "recv", "sleep", "timer"}
    /\ MaxPid \in Nat
    /\ BufLens \subseteq Nat \ {0} /\ MsgLens \subseteq Nat
    /\ Naps \subseteq Nat /\ EaxValues \subseteq Int
    /\ BadBuffers \in BOOLEAN /\ AllocMayFail \in BOOLEAN

VARIABLE kern      \* the kernel's memory

KernelType ==
    [ next       : [Slots -> Ptr],
      state      : [Slots -> States],
      pid        : [Slots -> Pids],
      ret        : [Slots -> Int],
      call       : [Slots -> {"none", "send", "recv"}],
      arg        : [Slots -> Nat],
      buf        : [Slots -> Nat],
      msg        : [Slots -> Nat],
      sleepticks : [Slots -> Ticks],
      que        : [QNames -> Ptr],
      tail       : Ptr,
      headsleeper : Ptr,
      fault      : Faults \cup {"none"} ]

(* initproc() has created root and idleproc, and dispatch() has given the  *)
(* CPU to root.  idleproc_pid was still 0 when ready() was called for      *)
(* idleproc, so idleproc is on the ready queue.                            *)
Boot ==
    [ next       |-> [s \in Slots |-> NULL],
      state      |-> [s \in Slots |-> IF s = ROOT THEN "RUNNING"
                                      ELSE IF s = IDLE THEN "READY" ELSE "STOPPED"],
      pid        |-> [s \in Slots |-> IF s \in {ROOT, IDLE} THEN s ELSE 0],
      ret        |-> [s \in Slots |-> 0],
      call       |-> [s \in Slots |-> "none"],
      arg        |-> [s \in Slots |-> 0],
      buf        |-> [s \in Slots |-> 0],
      msg        |-> [s \in Slots |-> 0],
      sleepticks |-> [s \in Slots |-> 0],
      que        |-> [q \in QNames |-> IF q = "head" THEN IDLE
                                       ELSE IF q = "running" THEN ROOT ELSE NULL],
      tail       |-> IDLE,
      headsleeper |-> NULL,
      fault      |-> "none" ]

Init == kern = Boot

-----------------------------------------------------------------------------
Running == kern.que["running"]

(* What ret is compared with: the two request numbers and the error codes; *)
(* any other result counts as 0.                                           *)
Code(n) == IF n < 0 \/ n \in {SYS_SEND, SYS_RECV} THEN n ELSE 0

(* The kernel runs until it has served the request; after a fault it does  *)
(* not come back, and its memory is left as the request found it.          *)
Serve(k) == kern' = IF k.fault = "none" THEN k ELSE [kern EXCEPT !.fault = k.fault]

Request(call) == kern.fault = "none" /\ call \in Calls

(* idleproc only halts until the next interrupt.                           *)
UserRequest(call) == Request(call) /\ Running # IDLE

(* The arguments of the process's call, as contextswitch() records them.   *)
WithArgs(k, p, call, arg, buf, msg) ==
    [k EXCEPT !.call[p] = call, !.arg[p] = arg, !.buf[p] = buf, !.msg[p] = msg]

(* The slots whose pcb the walk of blocked_q, or a receive from it, may    *)
(* compare by a value left over from something else.                       *)
Vague(k) ==
    {s \in Members(k.next, k.que["blocked_q"]) :
        k.call[s] = "none" \/ k.ret[s] \notin {SYS_SEND, SYS_RECV}}
Stale(k) == {s \in Slots : k.call[s] = "none" /\ k.ret[s] = SYS_RECV}

-----------------------------------------------------------------------------
(* create(): takes the first stopped slot, or none.                        *)
FreeSlots(k) == {s \in Pcbs : k.state[s] = "STOPPED"}

(* The slot's pid goes up by the size of the table.                        *)
(* Mutant: pids are given out one after the other.                         *)
NewPid_Next(k, i) == IF k.pid[i] = 0 THEN i ELSE k.pid[i] + 1

NewPid(k, i) ==
    IF Slot(k.pid[i]) # i \/ k.pid[i] + MAX_PROC >= INT_MAX THEN i
    ELSE k.pid[i] + MAX_PROC

(* remove() is given the slot's index, which is also what dead_q is        *)
(* searched for when the loop found no slot and i is MAX_PROC.             *)
(* Mutant: the slot is left on dead_q.                                     *)
create_LeavesDeadQ(k, p, i, allocated) ==
    LET k1 == [k EXCEPT !.pid[i] = NewPid(k, i)]
    IN  IF ~allocated THEN [k1 EXCEPT !.ret[p] = -1]
        ELSE [ready(k1, i) EXCEPT !.ret[p] = Code(NewPid(k, i))]

create(k, p, i, allocated) ==
    LET k1 == [remove(k, "dead_q", i) EXCEPT !.pid[i] = NewPid(k, i)]
    IN  IF ~allocated THEN [k1 EXCEPT !.ret[p] = -1]
        ELSE [ready([k1 EXCEPT !.state[i] = "READY"], i)
                EXCEPT !.ret[p] = Code(NewPid(k, i))]

Create ==
    /\ UserRequest("create")
    /\ IF FreeSlots(kern) = {}
       THEN Serve([remove(kern, "dead_q", MAX_PROC) EXCEPT !.ret[Running] = -1])
       ELSE LET i == CHOOSE s \in FreeSlots(kern) : \A r \in FreeSlots(kern) : s <= r
            IN  /\ NewPid(kern, i) <= MaxPid
                /\ \E allocated \in {TRUE, ~AllocMayFail} :
                      Serve(create(kern, Running, i, allocated))

Yield ==
    /\ UserRequest("yield")
    /\ Serve(Dispatch(ready(kern, Running)))

(* Every exit of a process is this call: create() put it on the stack as   *)
(* the return address.  G: see notify_waiters.                             *)
Stopped(k, p) ==
    append([k EXCEPT !.state[p] = "STOPPED", !.next[p] = NULL], "dead_q", p)

StopWith(G) ==
    /\ UserRequest("stop")
    /\ Serve(Dispatch(notify_waiters(Stopped(kern, Running), kern.pid[Running], G)))

Stop == \E G \in SUBSET Vague(Stopped(kern, Running)) : StopWith(G)

GetPid ==
    /\ UserRequest("getpid")
    /\ Serve([kern EXCEPT !.ret[Running] = Code(kern.pid[Running])])

SendTo(d, buf, msg, bufferOK) ==
    /\ UserRequest("send")
    /\ \E zero \in BOOLEAN :
          Serve(Dispatch(SysSend(WithArgs(kern, Running, "send", d, buf, msg),
                                 Running, bufferOK, zero)))

Receive(f, buf, bufferOK) ==
    /\ UserRequest("recv")
    /\ \E G \in SUBSET ((IF f = 0 THEN Vague(kern) ELSE Stale(kern)) \ {Running}) :
          Serve(Dispatch(SysRecv(WithArgs(kern, Running, "recv", f, buf, 0),
                                 Running, bufferOK, G)))

Nap(ms) ==
    /\ UserRequest("sleep")
    /\ IF kern.next[Running] # NULL THEN Serve(Fault(kern, "kassert"))
       ELSE Serve(Dispatch(sleep(kern, Running, ms)))

(* The timer interrupts whoever has the CPU.  contextswitch() keeps the    *)
(* interrupted eax in ret.                                                 *)
TimerAt(eax) ==
    /\ Request("timer")
    /\ \E k1 \in {ready([kern EXCEPT !.ret[Running] = eax], Running)} :
       \E k2 \in {Dispatch(k1)} :
       \E k3 \in {tick(k2)} :
          Serve(k3)

Timer == \E eax \in EaxValues : TimerAt(eax)

Buffers == IF BadBuffers THEN BOOLEAN ELSE {TRUE}

Next ==
    \/ Create \/ Yield \/ Stop \/ GetPid \/ Timer
    \/ \E d \in 0 .. MaxPid, buf \in BufLens, msg \in MsgLens, ok \in Buffers :
          SendTo(d, buf, msg, ok)
    \/ \E f \in 0 .. MaxPid, buf \in BufLens, ok \in Buffers : Receive(f, buf, ok)
    \/ \E ms \in Naps : Nap(ms)

Spec == Init /\ [][Next]_kern

-----------------------------------------------------------------------------
(* Every field of the kernel's memory has the type of its declaration, and *)
(* some process other than slot 0's has the CPU: next() never returns NULL *)
(* (dispatch() would leave its loop).                                      *)
TypeOK == kern \in KernelType /\ Running \in Pcbs

(* No request makes the kernel stop: no kassert fails, no walk along a     *)
(* list is endless, no list holds a pcb of another state where the code    *)
(* relies on it.                                                           *)
NoFault == kern.fault = "none"

(* Every kassert() of the kernel holds, among them next()'s "we should be  *)
(* drawing only from READY Q" (disp.c:687).                                *)
AssertionsHold == kern.fault # "kassert"

(* The running process is the only one in STATE_RUNNING, whatever the      *)
(* lists look like.                                                        *)
OneRunning == \A s \in Slots : kern.state[s] = "RUNNING" <=> s = Running

(* The ready queue holds every process in STATE_READY, except idleproc,    *)
(* and nothing else, and tail is its last pcb: a process that is ready     *)
(* will be dispatched, and one that blocked, slept or died will not.       *)
InState(st) == {s \in Slots : kern.state[s] = st}
ReadyQueue  == Members(kern.next, kern.que["head"])

ReadyQueueSound ==
    /\ InState("READY") \ {IDLE} = ReadyQueue \ {IDLE}
    /\ ~Endless(kern.next, kern.que["head"])
    /\ kern.tail = LastOf(kern.next, kern.que["head"])

(* The list of sleepers holds every process in STATE_SLEEP and nothing     *)
(* else.                                                                   *)
SleepersListed == Members(kern.next, kern.headsleeper) = InState("SLEEP")

(* The pid of a process leads to its own slot, so that no two processes    *)
(* have the same: every lookup of the kernel is proctab[pid % MAX_PROC].   *)
PidNamesSlot ==
    \A s \in Slots : kern.pid[s] > 0 => Slot(kern.pid[s]) = s

(* dead_q holds stopped processes only: create() takes a slot off it       *)
(* before it reuses the slot (create.c:54).                                *)
DeadQueueDead ==
    \A s \in Members(kern.next, kern.que["dead_q"]) : kern.state[s] = "STOPPED"

(* blocked_q holds blocked processes only, each with the arguments and the *)
(* code of the call it is blocked in: recv and notify_waiters read them.   *)
BlockedQueueBlocked ==
    \A s \in Members(kern.next, kern.que["blocked_q"]) :
        /\ kern.state[s] = "BLOCKED"
        /\ <<kern.call[s], kern.ret[s]>> \in {<<"send", SYS_SEND>>, <<"recv", SYS_RECV>>}

-----------------------------------------------------------------------------
Blocked(s, call) == kern.state[s] = "BLOCKED" /\ kern.call[s] = call

(* No rendezvous is missed: a process blocked in a send and the process it *)
(* sends to, blocked in a receive from that sender, never wait for each    *)
(* other.                                                                  *)
NoMissedRendezvous ==
    \A s, r \in Slots :
        ~(/\ Blocked(s, "send") /\ kern.arg[s] = kern.pid[r]
          /\ Blocked(r, "recv") /\ kern.arg[r] = kern.pid[s])

(* A process that receives from any has no sender blocked on it.           *)
NoMissedSender ==
    \A s, r \in Slots :
        ~(/\ Blocked(s, "send") /\ kern.arg[s] = kern.pid[r]
          /\ Blocked(r, "recv") /\ kern.arg[r] = 0)

(* No processes block in sends that wait for each other in a cycle, of any *)
(* length: send() refuses with WOULD_DEADLOCK the call that would close it.*)
NoSendCycle ==
    \A S \in SUBSET {s \in Slots : Blocked(s, "send")} :
        S # {} => \E s \in S : \A r \in S : kern.pid[r] # kern.arg[s]

(* Who waits on a process that is gone has been told: no process is        *)
(* blocked on the pid of a process that has stopped (disp.c:25).           *)
WaitersReleased ==
    \A s, d \in Slots :
        kern.state[s] = "BLOCKED" /\ kern.state[d] = "STOPPED" /\ kern.pid[d] # 0
            => kern.arg[s] # kern.pid[d]

(* A process blocked in a send is released only by a receive of the        *)
(* process it sends to, and both calls return the same count; or by a send *)
(* to it, when msg.c:123 takes the pid it sends to for the address of the  *)
(* pid it would receive from, and finds a 0 there.                         *)
SendEndsAtItsReceiver ==
    [][\A s \in Slots :
         Blocked(s, "send") /\ kern'.state[s] # "BLOCKED" =>
            \/ kern.arg[s] \in ZeroWords
            \/ /\ kern.pid[Running] = kern.arg[s]
               /\ kern'.ret[s] > 0 /\ kern'.ret[s] = kern'.ret[Running]]_kern

(* A process blocked in a receive from one pid is not given the message of *)
(* another process.                                                        *)
ReceivesOnlyFromNamed ==
    [][\A r \in Slots :
         Blocked(r, "recv") /\ kern'.state[r] # "BLOCKED" =>
            kern.arg[r] \in {0, kern.pid[Running]}]_kern

=============================================================================
