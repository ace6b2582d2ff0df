------------------------------ MODULE SleepList ------------------------------
(***************************************************************************)
(* The list of sleepers of sleep.c.  Only the first sleeper holds the      *)
(* ticks it has left; every other one holds the ticks it has left once its *)
(* predecessor is awake.                                                   *)
(***************************************************************************)
EXTENDS ProcTable

CONSTANT UINT      \* one more than the largest unsigned int (2^32)

ASSUME SleepListAssumption == UINT \in Nat /\ UINT >= 1000

TIMEDIVISOR == 100

Ticks == 0 .. UINT - 1

milliseconds_to_ticks(ms) == ((TIMEDIVISOR * ms) % UINT) \div 1000

(* The difference of two tick counts.  sleep() stops its walk before the   *)
(* sum passes the count it inserts, so nothing wraps.                      *)
Minus(a, b) == IF a - b \in Ticks THEN a - b ELSE 0

(* accumulator after n further pcb's of the list at.                       *)
Accumulated(k, at) ==
    LET acc[n \in 0 .. MAX_PROC] ==
            IF at[n] = NULL THEN IF n = 0 THEN 0 ELSE acc[n - 1]
            ELSE k.sleepticks[at[n]] + (IF n = 0 THEN 0 ELSE acc[n - 1])
    IN  acc

(* p goes between two neighbours of the list.                              *)
(* Mutant: what followed is cut off.                                       *)
Between_CutsOff(next, prev, p, succ) == [next EXCEPT ![prev] = p]
Between(next, prev, p, succ) == [[next EXCEPT ![p] = succ] EXCEPT ![prev] = p]

(* The sleeper behind p, if any, waits d ticks less once p is awake.       *)
(* Mutant: it is forgotten.                                                *)
Shorten_Not(ticks, s, d) == ticks
Shorten(ticks, s, d) == IF s \in Pcbs THEN [ticks EXCEPT ![s] = Minus(@, d)] ELSE ticks

(* sleep: p goes in front of the first sleeper that wakes no earlier.      *)
sleep(k, p, ms) ==
    LET t    == milliseconds_to_ticks(ms)
        k1   == [k EXCEPT !.next[p] = NULL, !.state[p] = "SLEEP", !.sleepticks[p] = t]
        h    == k.headsleeper
        at   == Chain(k1.next, h)
        acc  == Accumulated(k1, at)
        n    == CHOOSE i \in 1 .. MAX_PROC :
                    /\ at[i] = NULL \/ acc[i] >= t
                    /\ \A j \in 1 .. i - 1 : at[j] # NULL /\ acc[j] < t
        prev == at[n - 1]
        succ == Step(k1.next, prev)
        rest == Minus(t, acc[n - 1])
    IN  IF h # NULL /\ k1.sleepticks[h] < t
        THEN IF \A i \in 1 .. MAX_PROC : at[i] # NULL /\ acc[i] < t THEN Fault(k, "loop")
             ELSE [k1 EXCEPT !.next = Between(@, prev, p, succ),
                             !.sleepticks = Shorten([@ EXCEPT ![p] = rest], succ, rest)]
        ELSE [k1 EXCEPT !.next[p] = h, !.headsleeper = p,
                        !.sleepticks = Shorten(@, h, t)]

(* tick: if the first sleeper is due (one tick left, or none), it and the  *)
(* sleepers with nothing left after it move to the ready queue in order;   *)
(* then the sleeper that is first now loses a tick, even if it became      *)
(* first only in this call.                                                *)
(* Mutants: only the first wakes; a sleeper with no ticks is not due.      *)
DueCount_First(k, at) == 1
DueCount(k, at) ==
    CHOOSE n \in 1 .. MAX_PROC :
        /\ \A i \in 1 .. n - 1 : at[i] # NULL /\ k.sleepticks[at[i]] = 0
        /\ n = MAX_PROC \/ at[n] = NULL \/ k.sleepticks[at[n]] # 0

wake(k) ==
    LET at    == Chain(k.next, k.headsleeper)
        due   == DueCount(k, at)
        woken == {at[i] : i \in 0 .. due - 1}
        last  == at[due - 1]
    IN  IF \E s \in woken : s \notin Pcbs \/ k.state[s] # "SLEEP" THEN Fault(k, "alias")
        ELSE [k EXCEPT
               !.state = [s \in Slots |-> IF s \in woken THEN "READY" ELSE @[s]],
               !.sleepticks[k.headsleeper] = 0,
               !.next = [s \in Slots |->
                           IF s = last THEN NULL
                           ELSE IF s = k.tail THEN k.headsleeper ELSE @[s]],
               !.que["head"] = IF k.tail = NULL THEN k.headsleeper ELSE @,
               !.tail = last,
               !.headsleeper = k.next[last]]

CountDown(k) ==
    LET h == k.headsleeper
    IN  IF h # NULL /\ k.sleepticks[h] > 0 THEN [k EXCEPT !.sleepticks[h] = @ - 1] ELSE k

tick_AtOne(k) ==
    IF k.headsleeper = NULL THEN k
    ELSE CountDown(IF k.sleepticks[k.headsleeper] = 1 THEN wake(k) ELSE k)

tick(k) ==
    IF k.headsleeper = NULL THEN k
    ELSE CountDown(IF k.sleepticks[k.headsleeper] <= 1 THEN wake(k) ELSE k)
=============================================================================
