------------------------------ MODULE SleepClock ------------------------------
(***************************************************************************)
(* The kernel of module Kernel with a clock beside it that the code does   *)
(* not have: for every sleeper the ticks left of what it asked for, so     *)
(* that the differences sleep.c stores can be compared with the time they  *)
(* stand for.                                                              *)
(***************************************************************************)
EXTENDS Kernel

VARIABLES
    left,    \* timer ticks until the sleeper should be awake
    early    \* ticks by which its wake has been brought forward

clockVars == <<kern, left, early>>

InitClock == Init /\ left = [s \in Slots |-> 0] /\ early = [s \in Slots |-> 0]

Asleep(k, s) == k.state[s] = "SLEEP"

(* The first sleeper's last tick elapses: the sleeper behind it is charged *)
(* for that tick too.                                                      *)
LastTickElapses(k) ==
    k.headsleeper # NULL /\ k.sleepticks[k.headsleeper] = 1

(* The clock is bounded: it stops one tick after 0, which NeverLate says   *)
(* no sleeper reaches.                                                     *)
Elapse(ticks) == IF ticks < 0 THEN ticks ELSE ticks - 1

NapClock(ms) ==
    /\ Nap(ms)
    /\ left' = [left EXCEPT ![Running] = milliseconds_to_ticks(ms)]
    /\ early' = [early EXCEPT ![Running] = 0]

TimerClock ==
    /\ Timer
    /\ left' = [s \in Slots |-> IF Asleep(kern', s) THEN Elapse(left[s]) ELSE 0]
    /\ early' = [s \in Slots |-> IF Asleep(kern', s)
                                 THEN early[s] + (IF LastTickElapses(kern) THEN 1 ELSE 0)
                                 ELSE 0]

NextClock ==
    \/ \E ms \in Naps : NapClock(ms)
    \/ TimerClock
    \/ Create /\ UNCHANGED <<left, early>>
    \/ Yield /\ UNCHANGED <<left, early>>
    \/ Stop /\ UNCHANGED <<left, early>>

(* The 8253 timer goes on interrupting, and every process runs with        *)
(* interrupts enabled (create.c:96).                                       *)
SpecClock == InitClock /\ [][NextClock]_clockVars /\ WF_clockVars(TimerClock)

-----------------------------------------------------------------------------
(* The walk of sleep() and the countdown of tick() agree on the time every *)
(* sleeper has left: the sum of the ticks up to and including its own is   *)
(* what it asked for less the time that has passed, and less one tick for  *)
(* each time a sleeper before it used up its last one.                     *)
TicksEncodeTimeLeft ==
    LET at  == Chain(kern.next, kern.headsleeper)
        acc == Accumulated(kern, at)
    IN  \A n \in 0 .. MAX_PROC : at[n] # NULL => acc[n] = left[at[n]] - early[at[n]]

(* tick() lets no process sleep more than one tick longer than it asked    *)
(* to.  It does let it sleep that one: what is left of a sleeper that      *)
(* becomes first in a call of tick() can reach 0 there, and is looked at   *)
(* on the next.                                                            *)
NeverLate ==
    [][\A s \in Slots : Asleep(kern, s) /\ left[s] <= 0 /\ TimerClock => ~Asleep(kern', s)]_clockVars

(* Every sleeper awakes.                                                   *)
SleeperWakes == \A s \in Slots \ {0, IDLE} : Asleep(kern, s) ~> ~Asleep(kern, s)

(* Every process on the ready queue gets the CPU.                          *)
ReadyRuns ==
    \A s \in Slots \ {0, IDLE} : kern.state[s] = "READY" ~> kern.state[s] = "RUNNING"
=============================================================================
