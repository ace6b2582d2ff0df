------------------------------ MODULE RoundRobin ------------------------------
(***************************************************************************)
(* What the dispatcher promises: one CPU, given to the processes that are  *)
(* ready in the order in which they became ready, and to the idle process  *)
(* when there is none.  How a process becomes ready or stops being so is   *)
(* left open.                                                              *)
(***************************************************************************)
EXTENDS Sequences, SequencesExt

CONSTANTS Procs, Idle, First

VARIABLES cpu, queue

Init == cpu = First /\ queue = << >>

(* The process that has the CPU keeps it; others may join the queue.       *)
Keep == cpu \in Procs /\ cpu' = cpu /\ IsPrefix(queue, queue')

(* It gives the CPU up to the first in the queue.                          *)
Switch == queue # << >> /\ cpu' = Head(queue) /\ IsPrefix(Tail(queue), queue')

(* Nobody is in the queue: the CPU goes to a process that has just become  *)
(* ready, or, when that of the one that had it has not, to Idle.           *)
Refill == queue = << >> /\ cpu' \in Procs
Rest   == queue = << >> /\ cpu' = Idle /\ cpu \notin ToSet(queue')

NobodyTwice == cpu \notin ToSet(queue) /\ ToSet(queue) \subseteq Procs /\ IsInjective(queue)

Next == (Keep \/ Switch \/ Refill \/ Rest) /\ NobodyTwice'

Spec == Init /\ [][Next]_<<cpu, queue>>
=============================================================================
