----------------------------- MODULE SignalService ----------------------------
(***************************************************************************)
(* What signals promise: per process a set of signals that are pending and *)
(* a stack of those being handled, each of a higher priority than the one  *)
(* it interrupts.  A signal stays pending while it is handled, so that one *)
(* that arrives again before its handler is done counts once.              *)
(***************************************************************************)
EXTENDS Integers, Sequences

CONSTANTS Procs, Signals

VARIABLES pending, handling

Init ==
    /\ pending = [p \in Procs |-> {}]
    /\ handling = [p \in Procs |-> <<>>]

Top(stack)    == IF stack = <<>> THEN -1 ELSE stack[Len(stack)]
Bottom(stack) == SubSeq(stack, 1, Len(stack) - 1)

(* And then the highest signal pending interrupts some q, or none does.    *)
Then(pend, stacks) ==
    /\ pending' = pend
    /\ \/ handling' = stacks
       \/ \E q \in Procs : \E n \in pend[q] :
             /\ n > Top(stacks[q]) /\ \A m \in pend[q] : m <= n
             /\ handling' = [stacks EXCEPT ![q] = Append(@, n)]

Post(p, n) == Then([pending EXCEPT ![p] = @ \cup {n}], handling)

(* The handler on top is done: its signal, and no other, is pending no     *)
(* more.                                                                   *)
Done(p) ==
    /\ handling[p] # <<>>
    /\ Then([pending EXCEPT ![p] = @ \ {Top(handling[p])}],
            [handling EXCEPT ![p] = Bottom(@)])

(* A new process takes over the slot, with what was pending there.         *)
Renew(p) == Then(pending, [handling EXCEPT ![p] = <<>>])

Next ==
    \/ Then(pending, handling)
    \/ \E p \in Procs : Done(p) \/ Renew(p) \/ \E n \in Signals : Post(p, n)

vars == <<pending, handling>>

Spec == Init /\ [][Next]_vars
=============================================================================
