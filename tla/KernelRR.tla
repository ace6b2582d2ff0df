------------------------------- MODULE KernelRR -------------------------------
(***************************************************************************)
(* The dispatcher implements RoundRobin: the queue is the ready queue      *)
(* without idleproc.                                                       *)
(***************************************************************************)
EXTENDS Kernel, Sequences

(* idleproc is on the ready queue from the boot until next() first comes   *)
(* to it, and at its head: ready() puts it there no more.                  *)
WithoutIdle(f) == IF Len(f) > 0 /\ f[1] = IDLE THEN Tail(f) ELSE f

ReadySeqOf(k) ==
    LET at == Chain(k.next, k.que["head"])
        n  == CHOOSE i \in 0 .. MAX_PROC :
                 /\ i = MAX_PROC \/ at[i] = NULL
                 /\ \A j \in 0 .. i - 1 : at[j] # NULL
    IN  WithoutIdle([i \in 1 .. n |-> at[i - 1]])

ReadySeq == ReadySeqOf(kern)

Scheduler == INSTANCE RoundRobin WITH
                Procs <- Slots \ {0, IDLE}, Idle <- IDLE, First <- ROOT,
                cpu <- Running, queue <- ReadySeq

(* next() gives the CPU to the processes in the order in which ready() and *)
(* tick() put them on the ready queue, and to idleproc only when there is  *)
(* none, also while idleproc itself still stands in that queue.            *)
FirstReadyFirstRun == Scheduler!Spec
=============================================================================
