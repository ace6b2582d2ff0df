---------------------------- MODULE MessageProofs ----------------------------
(***************************************************************************)
(* The rendezvous of msg.c: who waits for whom in a send or a receive.     *)
(* A process that is blocked is left alone, with its call, by every        *)
(* request but the one that completes the call (StillWaiting); so what      *)
(* there is to prove is about the processes that a send or a receive       *)
(* blocks or releases.                                                     *)
(***************************************************************************)
EXTENDS KernelLists

(* The same processes are blocked, in the same calls, but for those in X.  *)
StillWaiting(k, r, X) ==
  \A s \in Slots \ X :
     /\ r.state[s] = "BLOCKED" <=> k.state[s] = "BLOCKED"
     /\ k.state[s] = "BLOCKED" => /\ r.pid[s] = k.pid[s] /\ r.call[s] = k.call[s]
                                  /\ r.arg[s] = k.arg[s] /\ r.buf[s] = k.buf[s]
                                  /\ r.msg[s] = k.msg[s]

(* Over two steps.                                                         *)
LEMMA WaitingTwice ==
  ASSUME NEW k, NEW m, NEW r, NEW X, StillWaiting(k, m, X), StillWaiting(m, r, X)
  PROVE  StillWaiting(k, r, X)
BY DEF StillWaiting

(* An exception that is blocked neither before nor after is none.          *)
LEMMA WaitingAll ==
  ASSUME NEW k, NEW r, NEW p, StillWaiting(k, r, {p}),
         k.state[p] # "BLOCKED", r.state[p] # "BLOCKED"
  PROVE  StillWaiting(k, r, {})
BY DEF StillWaiting

(* Leaving out more processes asks for less.                               *)
LEMMA WaitingFewer ==
  ASSUME NEW k, NEW r, NEW X, StillWaiting(k, r, {})
  PROVE  StillWaiting(k, r, X)
BY DEF StillWaiting

(* What does not touch the states and the calls disturbs nobody.           *)
LEMMA SameWaiting ==
  ASSUME NEW k, NEW r, r.state = k.state, r.pid = k.pid, r.call = k.call, r.arg = k.arg,
         r.buf = k.buf, r.msg = k.msg
  PROVE  StillWaiting(k, r, {})
BY DEF StillWaiting

-----------------------------------------------------------------------------
(* The fields of the calls that the operations on the lists leave alone.   *)
Calling(k, r) ==
  /\ r.pid = k.pid /\ r.call = k.call /\ r.arg = k.arg /\ r.buf = k.buf /\ r.msg = k.msg
  /\ r.ret = k.ret

(* A fault is written into the memory and nothing else is.                 *)
LEMMA Fault_Calls ==
  ASSUME NEW k \in KernelType, NEW f \in Faults
  PROVE  /\ Calling(k, Fault(k, f)) /\ Fault(k, f).state = k.state
         /\ Fault(k, f).fault # "none"
BY DEF Fault, Faults, Calling, KernelType

(* ready() makes its process ready or halts the machine.                   *)
LEMMA ready_Calls ==
  ASSUME NEW k \in KernelType, NEW p \in Slots
  PROVE  LET r == ready(k, p)
         IN  /\ Calling(k, r)
             /\ \A s \in Slots : s # p => r.state[s] = k.state[s]
             /\ r.state[p] = "READY" \/ (r.state[p] = k.state[p] /\ r.fault # "none")
<1> DEFINE r == ready(k, p)
           m == [k EXCEPT !.next[p] = NULL, !.state[p] = "READY"]
<1>1. /\ Calling(k, m) /\ m.state[p] = "READY" /\ m \in KernelType
      /\ \A s \in Slots : s # p => m.state[s] = k.state[s]
  BY Constants DEF Calling, KernelType, States, Ptr
<1>2. \/ r = Fault(k, "kassert")
      \/ r = m
      \/ r = [m EXCEPT !.next[k.tail] = p, !.tail = p]
      \/ r = [m EXCEPT !.que["head"] = p, !.tail = p]
  BY DEF ready
<1> HIDE DEF r, m
<1>3. CASE r = Fault(k, "kassert")
  <2>1. Calling(k, r) /\ r.state = k.state /\ r.fault # "none"
    BY <1>3, Fault_Calls DEF Faults
  <2> QED BY <2>1 DEF r
<1>4. CASE r # Fault(k, "kassert")
  <2>1. /\ r.pid = m.pid /\ r.call = m.call /\ r.arg = m.arg /\ r.buf = m.buf /\ r.msg = m.msg
        /\ r.ret = m.ret /\ r.state = m.state
    <3>1. CASE r = m
      BY <3>1
    <3>2. CASE r = [m EXCEPT !.next[k.tail] = p, !.tail = p]
      BY <1>1, <3>2 DEF KernelType
    <3>3. CASE r = [m EXCEPT !.que["head"] = p, !.tail = p]
      BY <1>1, <3>3 DEF KernelType
    <3> QED BY <1>2, <1>4, <3>1, <3>2, <3>3
  <2>2. Calling(k, r)
    BY <1>1, <2>1 DEF Calling
  <2>3. r.state[p] = "READY" /\ \A s \in Slots : s # p => r.state[s] = k.state[s]
    BY <1>1, <2>1
  <2> QED BY <2>2, <2>3 DEF r
<1> QED BY <1>3, <1>4

(* ready() of a process that is not blocked disturbs nobody.               *)
LEMMA ready_Waiting ==
  ASSUME NEW k \in KernelType, NEW p \in Slots
  PROVE  /\ StillWaiting(k, ready(k, p), {p})
         /\ k.state[p] # "BLOCKED" => StillWaiting(k, ready(k, p), {})
<1> DEFINE r == ready(k, p)
<1>1. /\ Calling(k, r) /\ \A s \in Slots : s # p => r.state[s] = k.state[s]
      /\ r.state[p] \in {"READY", k.state[p]}
  BY ready_Calls
<1> HIDE DEF r
<1>2. StillWaiting(k, r, {p})
  BY <1>1 DEF StillWaiting, Calling
<1>3. k.state[p] # "BLOCKED" => StillWaiting(k, r, {})
  BY <1>1, <1>2, WaitingAll
<1> QED BY <1>2, <1>3 DEF r

(* remove() only unlinks.                                                  *)
LEMMA remove_Calls ==
  ASSUME NEW k \in KernelType, NEW q, NEW pid
  PROVE  LET r == remove(k, q, pid)
         IN  /\ Calling(k, r) /\ r.state = k.state
             /\ k.fault # "none" => r.fault # "none"
<1> DEFINE r == remove(k, q, pid)
           s == CHOOSE x \in {y \in Members(k.next, k.que[q]) : k.pid[y] = pid} : TRUE
<1>1. \/ r = Fault(k, "wild") \/ r = k \/ r = Fault(k, "loop")
      \/ r = [k EXCEPT !.que[q] = k.next[s], !.next[s] = NULL]
      \/ r = [k EXCEPT !.que[q] = LastOf(k.next, k.que[q])]
  BY DEF remove
<1> HIDE DEF r, s
<1>2. CASE r = Fault(k, "wild")
  BY <1>2, Fault_Calls DEF Faults, r
<1>3. CASE r = Fault(k, "loop")
  BY <1>3, Fault_Calls DEF Faults, r
<1>4. CASE r # Fault(k, "wild") /\ r # Fault(k, "loop")
  <2>1. r.fault = k.fault /\ Calling(k, r) /\ r.state = k.state
    BY <1>1, <1>4 DEF Calling, KernelType
  <2> QED BY <2>1 DEF r
<1> QED BY <1>2, <1>3, <1>4

(* append() only links.                                                    *)
LEMMA append_Calls ==
  ASSUME NEW k \in KernelType, NEW q, NEW p
  PROVE  LET r == append(k, q, p) IN Calling(k, r) /\ r.state = k.state
<1> DEFINE r == append(k, q, p)
           next == [k.next EXCEPT ![p] = NULL]
           from == k.que[q]
<1>1. \/ r = [k EXCEPT !.next = next, !.que[q] = p]
      \/ r = [k EXCEPT !.next = next] \/ r = Fault(k, "loop")
      \/ r = [k EXCEPT !.next = [next EXCEPT ![LastOf(next, from)] = p]]
  BY DEF append
<1> HIDE DEF r, next, from
<1>2. CASE r = Fault(k, "loop")
  BY <1>2, Fault_Calls DEF Faults, r
<1>3. CASE r # Fault(k, "loop")
  <2>1. Calling(k, r) /\ r.state = k.state
    BY <1>1, <1>3 DEF Calling, KernelType
  <2> QED BY <2>1 DEF r
<1> QED BY <1>2, <1>3

-----------------------------------------------------------------------------
(* The process that gets the CPU was ready, or is idleproc.                *)
LEMMA Run_Waiting ==
  ASSUME NEW k \in KernelType, NEW p \in Pcbs, k.state[p] # "BLOCKED"
  PROVE  StillWaiting(k, Run(k, p), {}) /\ Run(k, p).ret = k.ret
<1> DEFINE r == Run(k, p)
<1>1. p \in Slots
  BY DEF Pcbs
<1>2. /\ r.pid = k.pid /\ r.ret = k.ret /\ r.state[p] = "RUNNING"
      /\ \A s \in Slots : s # p => /\ r.state[s] = k.state[s] /\ r.call[s] = k.call[s]
                                   /\ r.arg[s] = k.arg[s] /\ r.buf[s] = k.buf[s]
                                   /\ r.msg[s] = k.msg[s]
  BY <1>1 DEF Run, KernelType
<1> HIDE DEF r
<1>3. StillWaiting(k, r, {p})
  BY <1>2 DEF StillWaiting
<1>4. StillWaiting(k, r, {})
  BY <1>2, <1>3, WaitingAll
<1> QED BY <1>2, <1>4 DEF r

(* next() leaves the states and the calls to dispatch().                   *)
LEMMA Pop_Waiting ==
  ASSUME NEW k \in KernelType
  PROVE  StillWaiting(k, Pop(k), {}) /\ Pop(k).ret = k.ret /\ Pop(k).state = k.state
<1> DEFINE r == Pop(k)
<1>1. Calling(k, r) /\ r.state = k.state
  BY DEF Pop, Calling, KernelType
<1> HIDE DEF r
<1>2. StillWaiting(k, r, {})
  BY <1>1, SameWaiting DEF Calling
<1> QED BY <1>1, <1>2 DEF Calling, r

(* The process next() returns is not blocked, so running it is no change   *)
(* for anybody who is.                                                     *)
LEMMA PopRun_Waiting ==
  ASSUME NEW k, NEW X, Sound(k, X), k.que["head"] # NULL
  PROVE  LET r == Run(Pop(k), k.que["head"]) IN StillWaiting(k, r, {}) /\ r.ret = k.ret
<1> DEFINE m == Pop(k)
           h == k.que["head"]
           r == Run(m, h)
<1>1. h \in Pcbs /\ k.state[h] = "READY" /\ k \in KernelType
  BY Pop_Lists DEF Sound
<1>2. m \in KernelType
  BY Pop_Facts
<1>3. StillWaiting(k, m, {}) /\ m.ret = k.ret /\ m.state = k.state
  BY <1>1, Pop_Waiting
<1> HIDE DEF m, h
<1>4. StillWaiting(m, r, {}) /\ r.ret = m.ret
  BY <1>1, <1>2, <1>3, Run_Waiting
<1> HIDE DEF r
<1>5. StillWaiting(k, r, {})
  BY <1>3, <1>4, WaitingTwice
<1> QED BY <1>3, <1>4, <1>5 DEF r, m, h

(* next() releases nobody who is blocked.                                  *)
LEMMA Dispatch_Waiting ==
  ASSUME NEW k, Sound(k, {}), Runners(k) = {}
  PROVE  StillWaiting(k, Dispatch(k), {}) /\ Dispatch(k).ret = k.ret
<1> DEFINE h == k.que["head"]
           q == k.que["running"]
<1>1. k \in KernelType /\ Facts(k, {}) /\ IDLE \in Pcbs /\ IDLE \in Slots /\ NULL \notin Slots
      /\ Pcbs \subseteq Slots /\ q \in Pcbs
  BY Constants DEF Sound, Facts
<1>2. k.state[IDLE] = "READY"
  BY <1>1 DEF Facts, Runners
<1>3. CASE h = NULL
  <2>1. Dispatch(k) = Run(k, IDLE)
    BY <1>3 DEF Dispatch
  <2> QED BY <1>1, <1>2, <2>1, Run_Waiting
<1>4. CASE h # NULL
  <2> DEFINE m == Pop(k)
  <2>1. h \in Pcbs /\ k.state[h] = "READY" /\ Aligned(k, h) /\ (k.pid[h] = IDLE => h = IDLE)
        /\ (k.pid[q] = IDLE => q = IDLE) /\ k.pid[IDLE] = IDLE
    BY <1>1, <1>4, Pop_Lists, SoundAligned DEF Facts
  <2>2. StillWaiting(k, Run(m, h), {}) /\ Run(m, h).ret = k.ret
    BY <1>4, PopRun_Waiting
  <2>3. StillWaiting(k, m, {}) /\ m.ret = k.ret /\ m.state = k.state /\ m \in KernelType
    BY <1>1, <2>1, Pop_Waiting, Pop_Keeps
  <2>4. CASE h = IDLE
    <3> DEFINE s == m.que["head"]
    <3>1. Dispatch(k) = IF s = NULL THEN Run(m, h) ELSE Run(Pop(m), s)
      BY <1>4, <2>1, <2>4 DEF Dispatch
    <3>2. Sound(m, {})
      BY <2>4, PopIdleSound
    <3> HIDE DEF m
    <3>3. s # NULL => StillWaiting(m, Run(Pop(m), s), {}) /\ Run(Pop(m), s).ret = m.ret
      BY <3>2, PopRun_Waiting
    <3>4. s # NULL => StillWaiting(k, Run(Pop(m), s), {}) /\ Run(Pop(m), s).ret = k.ret
      BY <2>3, <3>3, WaitingTwice
    <3> QED BY <2>2, <3>1, <3>4
  <2>5. CASE h # IDLE
    <3> DEFINE w == [m EXCEPT !.state[q] = "READY"]
    <3>1. Dispatch(k) = IF k.pid[q] = IDLE THEN Run(w, h) ELSE Run(m, h)
      BY <1>4, <2>1, <2>5 DEF Dispatch
    <3> HIDE DEF m
    <3>2. w \in KernelType /\ Calling(m, w) /\ w.state = [m.state EXCEPT ![q] = "READY"]
      BY <1>1, <2>3 DEF KernelType, States, Calling
    <3> HIDE DEF w
    <3>3. q = IDLE => StillWaiting(k, Run(w, h), {}) /\ Run(w, h).ret = k.ret
      <4> HAVE q = IDLE
      <4>1. w.state = k.state
        BY <1>1, <1>2, <2>3, <3>2 DEF KernelType
      <4>2. StillWaiting(m, w, {}) /\ w.ret = m.ret
        BY <2>3, <3>2, <4>1, SameWaiting DEF Calling
      <4>3. StillWaiting(w, Run(w, h), {}) /\ Run(w, h).ret = w.ret
        BY <2>1, <3>2, <4>1, Run_Waiting
      <4> QED BY <2>3, <4>2, <4>3, WaitingTwice
    <3> QED BY <2>1, <2>2, <3>1, <3>3
  <2> QED BY <2>4, <2>5
<1> QED BY <1>3, <1>4

-----------------------------------------------------------------------------
(* The other operations on the lists.                                      *)
LEMMA sleep_Waiting ==
  ASSUME NEW k \in KernelType, NEW p \in Slots, k.state[p] # "BLOCKED", NEW ms \in Nat
  PROVE  StillWaiting(k, sleep(k, p, ms), {})
<1> DEFINE t  == milliseconds_to_ticks(ms)
           k1 == [k EXCEPT !.next[p] = NULL, !.state[p] = "SLEEP", !.sleepticks[p] = t]
           r  == sleep(k, p, ms)
<1>1. \/ r = Fault(k, "loop")
      \/ \E x, y : r = [k1 EXCEPT !.next = x, !.sleepticks = y]
      \/ \E x, y : r = [k1 EXCEPT !.next = x, !.headsleeper = p, !.sleepticks = y]
  <2> DEFINE h    == k.headsleeper
             at   == Chain(k1.next, h)
             acc  == Accumulated(k1, at)
             n    == CHOOSE i \in 1 .. MAX_PROC :
                        /\ at[i] = NULL \/ acc[i] >= t
                        /\ \A j \in 1 .. i - 1 : at[j] # NULL /\ acc[j] < t
             prev == at[n - 1]
             succ == Step(k1.next, prev)
             rest == Minus(t, acc[n - 1])
             x1   == Between(k1.next, prev, p, succ)
             y1   == Shorten([k1.sleepticks EXCEPT ![p] = rest], succ, rest)
             x2   == [k1.next EXCEPT ![p] = h]
             y2   == Shorten(k1.sleepticks, h, t)
  <2>1. \/ r = Fault(k, "loop")
        \/ r = [k1 EXCEPT !.next = x1, !.sleepticks = y1]
        \/ r = [k1 EXCEPT !.next = x2, !.headsleeper = p, !.sleepticks = y2]
    BY DEF sleep
  <2> HIDE DEF x1, y1, x2, y2, r, k1
  <2> QED BY <2>1
<1>2. /\ Calling(k, k1) /\ k1.state[p] = "SLEEP" /\ \A s \in Slots : s # p => k1.state[s] = k.state[s]
      /\ k1 \in KernelType
  BY TicksOfMilliseconds, Constants DEF Calling, KernelType, States, Ptr
<1> HIDE DEF r, k1
<1>3. CASE r = Fault(k, "loop")
  <2>1. Calling(k, r) /\ r.state = k.state
    BY <1>3, Fault_Calls DEF Faults
  <2>2. StillWaiting(k, r, {})
    BY <2>1, SameWaiting DEF Calling
  <2> QED BY <2>2 DEF r
<1>4. CASE r # Fault(k, "loop")
  <2>1. Calling(k1, r) /\ r.state = k1.state
    <3>1. ASSUME NEW x, NEW y, r = [k1 EXCEPT !.next = x, !.sleepticks = y]
          PROVE  Calling(k1, r) /\ r.state = k1.state
      BY <1>2, <3>1 DEF Calling, KernelType
    <3>2. ASSUME NEW x, NEW y, r = [k1 EXCEPT !.next = x, !.headsleeper = p, !.sleepticks = y]
          PROVE  Calling(k1, r) /\ r.state = k1.state
      BY <1>2, <3>2 DEF Calling, KernelType
    <3> QED BY <1>1, <1>4, <3>1, <3>2
  <2>2. StillWaiting(k, r, {p}) /\ r.state[p] # "BLOCKED"
    BY <1>2, <2>1 DEF StillWaiting, Calling
  <2>3. StillWaiting(k, r, {})
    BY <2>2, WaitingAll
  <2> QED BY <2>3 DEF r
<1> QED BY <1>3, <1>4

(* tick() wakes nobody but sleepers.                                       *)
LEMMA wake_Waiting ==
  ASSUME NEW k \in KernelType
  PROVE  StillWaiting(k, wake(k), {})
<1> DEFINE at    == Chain(k.next, k.headsleeper)
           due   == DueCount(k, at)
           woken == {at[i] : i \in 0 .. due - 1}
           state == [s \in Slots |-> IF s \in woken THEN "READY" ELSE k.state[s]]
           r     == wake(k)
<1>1. \/ r = Fault(k, "alias")
      \/ (\A s \in woken : k.state[s] = "SLEEP") /\ r.state = state /\ Calling(k, r)
  <2> DEFINE last  == at[due - 1]
             ticks == [k.sleepticks EXCEPT ![k.headsleeper] = 0]
             next  == [s \in Slots |-> IF s = last THEN NULL
                                       ELSE IF s = k.tail THEN k.headsleeper ELSE k.next[s]]
             first == IF k.tail = NULL THEN k.headsleeper ELSE k.que["head"]
  <2>1. r = IF \E s \in woken : s \notin Pcbs \/ k.state[s] # "SLEEP" THEN Fault(k, "alias")
            ELSE [k EXCEPT !.state = state, !.sleepticks = ticks, !.next = next,
                           !.que["head"] = first, !.tail = last, !.headsleeper = k.next[last]]
    BY DEF wake
  <2> HIDE DEF r, woken, state, ticks, next, first, last
  <2>2. CASE \E s \in woken : s \notin Pcbs \/ k.state[s] # "SLEEP"
    BY <2>1, <2>2
  <2>3. CASE \A s \in woken : s \in Pcbs /\ k.state[s] = "SLEEP"
    <3>1. r = [k EXCEPT !.state = state, !.sleepticks = ticks, !.next = next,
                        !.que["head"] = first, !.tail = last, !.headsleeper = k.next[last]]
      BY <2>1, <2>3
    <3>2. r.state = state /\ Calling(k, r)
      BY <3>1 DEF Calling, KernelType
    <3> QED BY <2>3, <3>2
  <2> QED BY <2>2, <2>3
<1> HIDE DEF r, woken
<1>2. CASE r = Fault(k, "alias")
  <2>1. Calling(k, r) /\ r.state = k.state
    BY <1>2, Fault_Calls DEF Faults
  <2>2. StillWaiting(k, r, {})
    BY <2>1, SameWaiting DEF Calling
  <2> QED BY <2>2 DEF r
<1>3. CASE (\A s \in woken : k.state[s] = "SLEEP") /\ r.state = state /\ Calling(k, r)
  <2>1. \A s \in Slots : r.state[s] = k.state[s] \/ (k.state[s] = "SLEEP" /\ r.state[s] = "READY")
    BY <1>3
  <2>2. StillWaiting(k, r, {})
    BY <1>3, <2>1 DEF StillWaiting, Calling
  <2> QED BY <2>2 DEF r
<1> QED BY <1>1, <1>2, <1>3

(* tick() wakes sleepers and nobody else.                                  *)
LEMMA tick_Waiting ==
  ASSUME NEW k, Handed(k)
  PROVE  StillWaiting(k, tick(k), {})
<1>1. ASSUME NEW m \in KernelType PROVE StillWaiting(m, CountDown(m), {})
  <2> DEFINE r == CountDown(m)
  <2>1. Calling(m, r) /\ r.state = m.state
    BY DEF CountDown, Calling, KernelType
  <2> HIDE DEF r
  <2>2. StillWaiting(m, r, {})
    BY <2>1, SameWaiting DEF Calling
  <2> QED BY <2>2 DEF r
<1>2. k \in KernelType /\ StillWaiting(k, k, {})
  BY HandedIs DEF StillWaiting
<1>3. CASE k.headsleeper = NULL
  BY <1>2, <1>3 DEF tick
<1>4. CASE k.headsleeper # NULL
  <2>1. wake(k) \in KernelType
    BY <1>4, wake_Hands, HandedIs
  <2>2. StillWaiting(k, wake(k), {})
    BY <1>2, wake_Waiting
  <2>3. StillWaiting(k, CountDown(wake(k)), {})
    BY <1>1, <2>1, <2>2, WaitingTwice
  <2> QED BY <1>1, <1>2, <1>4, <2>3 DEF tick
<1> QED BY <1>3, <1>4

(* A result in ret.                                                        *)
LEMMA ret_Waiting ==
  ASSUME NEW k \in KernelType, NEW p, NEW n
  PROVE  StillWaiting(k, [k EXCEPT !.ret[p] = n], {})
<1> DEFINE r == [k EXCEPT !.ret[p] = n]
<1>1. r.state = k.state /\ r.pid = k.pid /\ r.call = k.call /\ r.arg = k.arg
      /\ r.buf = k.buf /\ r.msg = k.msg
  BY DEF KernelType
<1> HIDE DEF r
<1>2. StillWaiting(k, r, {})
  BY <1>1, SameWaiting
<1> QED BY <1>2 DEF r

-----------------------------------------------------------------------------
(* The requests that are no messages disturb nobody who is blocked.        *)

(* A stopped slot is reused, and nobody waits in it.                       *)
LEMMA create_Waiting ==
  ASSUME NEW k \in KernelType, NEW p \in Slots, NEW i \in FreeSlots(k), NewPid(k, i) \in Pids,
         NEW allocated
  PROVE  StillWaiting(k, create(k, p, i, allocated), {})
<1> DEFINE r   == remove(k, "dead_q", i)
           k1  == [r EXCEPT !.pid[i] = NewPid(k, i)]
           k2  == [k1 EXCEPT !.state[i] = "READY"]
           k3  == ready(k2, i)
           w   == create(k, p, i, allocated)
<1>1. i \in Slots /\ i \in Pcbs /\ k.state[i] = "STOPPED"
  BY Constants DEF FreeSlots
<1>2. r \in KernelType /\ Calling(k, r) /\ r.state = k.state
  BY <1>1, remove_Calls, remove_Keeps
<1>3. w = IF ~allocated THEN [k1 EXCEPT !.ret[p] = -1] ELSE [k3 EXCEPT !.ret[p] = Code(NewPid(k, i))]
  BY DEF create
<1> HIDE DEF r
<1>4. /\ k1 \in KernelType /\ k1.state = k.state /\ k1.call = k.call /\ k1.arg = k.arg
      /\ k1.buf = k.buf /\ k1.msg = k.msg /\ \A s \in Slots : s # i => k1.pid[s] = k.pid[s]
  BY <1>1, <1>2 DEF KernelType, Calling
<1> HIDE DEF k1
<1>5. StillWaiting(k, k1, {})
  <2>1. StillWaiting(k, k1, {i})
    BY <1>4 DEF StillWaiting
  <2> QED BY <1>1, <1>4, <2>1, WaitingAll
<1>6. k2 \in KernelType /\ Calling(k1, k2) /\ k2.state[i] = "READY"
      /\ \A s \in Slots : s # i => k2.state[s] = k1.state[s]
  BY <1>1, <1>4 DEF KernelType, States, Calling
<1> HIDE DEF k2
<1>7. StillWaiting(k1, k2, {})
  <2>1. StillWaiting(k1, k2, {i})
    BY <1>6 DEF StillWaiting, Calling
  <2> QED BY <1>1, <1>4, <1>6, <2>1, WaitingAll
<1>8. StillWaiting(k2, k3, {}) /\ k3 \in KernelType
  BY <1>1, <1>6, ready_Waiting, ready_Keeps
<1> HIDE DEF k3
<1>9. StillWaiting(k, k3, {})
  BY <1>5, <1>7, <1>8, WaitingTwice
<1>10. CASE ~allocated
  <2>1. w = [k1 EXCEPT !.ret[p] = -1]
    BY <1>3, <1>10
  <2>2. \A n : StillWaiting(k1, [k1 EXCEPT !.ret[p] = n], {})
    BY <1>4, ret_Waiting
  <2>3. StillWaiting(k1, w, {})
    BY <2>1, <2>2
  <2> QED BY <1>5, <2>3, WaitingTwice
<1>11. CASE allocated
  <2>1. w = [k3 EXCEPT !.ret[p] = Code(NewPid(k, i))]
    BY <1>3, <1>11
  <2>2. StillWaiting(k3, w, {})
    BY <1>8, <2>1, ret_Waiting
  <2> QED BY <1>9, <2>2, WaitingTwice
<1> QED BY <1>10, <1>11

(* create() takes a stopped slot and puts it among the ready ones.         *)
LEMMA Create_Waiting ==
  ASSUME Workload, Handed(kern), Handed(kern)', Create
  PROVE  StillWaiting(kern, kern', {})
<1>1. kern \in KernelType /\ Sound(kern, {}) /\ Running \in Slots
  BY HandedIs DEF Running
<1>2. CASE FreeSlots(kern) = {}
  <2> DEFINE m == remove(kern, "dead_q", MAX_PROC)
             r == [m EXCEPT !.ret[Running] = -1]
  <2>1. Serve(r)
    BY <1>2 DEF Create
  <2>2. m \in KernelType /\ Calling(kern, m) /\ m.state = kern.state
    BY <1>1, remove_Calls, remove_Keeps
  <2> HIDE DEF m
  <2>3. StillWaiting(kern, m, {})
    BY <2>2, SameWaiting DEF Calling
  <2>4. StillWaiting(m, r, {})
    BY <2>2, ret_Waiting
  <2> HIDE DEF r
  <2>5. StillWaiting(kern, r, {}) /\ kern' = r
    BY <2>1, <2>3, <2>4, WaitingTwice, Served
  <2> QED BY <2>5
<1>3. CASE FreeSlots(kern) # {}
  <2> DEFINE i == CHOOSE s \in FreeSlots(kern) : \A r \in FreeSlots(kern) : s <= r
  <2>1. NewPid(kern, i) <= MaxPid
        /\ \E allocated \in {TRUE, ~AllocMayFail} : Serve(create(kern, Running, i, allocated))
    BY <1>3 DEF Create
  <2>2. i \in FreeSlots(kern)
    <3>1. FreeSlots(kern) \subseteq Nat
      BY Constants DEF FreeSlots
    <3> QED BY <1>3, <3>1, HasMinimum
  <2> HIDE DEF i
  <2>3. PICK allocated \in {TRUE, ~AllocMayFail} : Serve(create(kern, Running, i, allocated))
    BY <2>1
  <2>4. i \in Pcbs /\ kern.state[i] = "STOPPED"
    BY <2>2 DEF FreeSlots
  <2>5. NewPid(kern, i) \in Pids
    BY <1>1, <2>1, <2>4, NextPid
  <2>6. StillWaiting(kern, create(kern, Running, i, allocated), {})
    BY <1>1, <2>2, <2>5, create_Waiting
  <2>7. kern' = create(kern, Running, i, allocated)
    BY <2>3, Served
  <2> QED BY <2>6, <2>7
<1> QED BY <1>2, <1>3

(* sysyield only queues the caller.                                        *)
LEMMA Yield_Waiting ==
  ASSUME Handed(kern), Handed(kern)', Yield
  PROVE  StillWaiting(kern, kern', {})
<1> DEFINE r == ready(kern, Running)
<1>1. Sound(kern, {}) /\ Loose(kern, Running) /\ Runners(kern) = {Running} /\ kern \in KernelType
      /\ Running \in Slots /\ kern.state[Running] = "RUNNING"
  BY HandedIs DEF Running
<1>2. Sound(r, {} \ {Running}) /\ r.state = [kern.state EXCEPT ![Running] = "READY"]
  BY <1>1, ready_Sound
<1>3. StillWaiting(kern, r, {})
  BY <1>1, ready_Waiting
<1>4. kern' = Dispatch(r)
  BY Served DEF Yield
<1> HIDE DEF r
<1>5. Sound(r, {}) /\ Runners(r) = {}
  <2>1. {} \ {Running} = {}
    OBVIOUS
  <2> QED BY <1>1, <1>2, <2>1 DEF Runners, KernelType
<1>6. StillWaiting(r, Dispatch(r), {})
  BY <1>5, Dispatch_Waiting
<1> QED BY <1>3, <1>4, <1>6, WaitingTwice

(* sysgetpid only sets the caller's result.                                *)
LEMMA GetPid_Waiting ==
  ASSUME Handed(kern), Handed(kern)', GetPid
  PROVE  StillWaiting(kern, kern', {})
<1>1. kern \in KernelType
  BY HandedIs
<1>2. kern' = [kern EXCEPT !.ret[Running] = Code(kern.pid[Running])]
  BY Served DEF GetPid
<1> QED BY <1>1, <1>2, ret_Waiting

(* syssleep takes the CPU from the caller alone.                           *)
LEMMA Nap_Waiting ==
  ASSUME Handed(kern), Handed(kern)', NEW ms \in Naps, Nap(ms)
  PROVE  StillWaiting(kern, kern', {})
<1> DEFINE r == sleep(kern, Running, ms)
<1>1. Sound(kern, {}) /\ Running \in Slots /\ Runners(kern) = {Running} /\ Running # IDLE
      /\ kern.next[Running] = NULL /\ ms \in Nat /\ kern \in KernelType
      /\ kern.state[Running] = "RUNNING"
  BY HandedIs, KernelAssumption DEF Handed, Running, Nap, UserRequest
<1>2. kern' = Dispatch(r)
  BY <1>1, Served DEF Nap
<1>3. Sound(r, {}) /\ Runners(r) = {}
  BY <1>1, sleep_Sound
<1>4. StillWaiting(kern, r, {})
  BY <1>1, sleep_Waiting
<1> HIDE DEF r
<1>5. StillWaiting(r, Dispatch(r), {})
  BY <1>3, Dispatch_Waiting
<1> QED BY <1>2, <1>4, <1>5, WaitingTwice

(* The timer wakes sleepers and queues the process it interrupted.         *)
LEMMA Timer_Waiting ==
  ASSUME Handed(kern), Handed(kern)', Timer
  PROVE  StillWaiting(kern, kern', {})
<1>1. PICK eax \in EaxValues : TimerAt(eax)
  BY DEF Timer
<1> DEFINE k0 == [kern EXCEPT !.ret[Running] = eax]
           k1 == ready(k0, Running)
           k2 == Dispatch(k1)
<1>2. kern' = tick(k2)
  BY <1>1, Served DEF TimerAt
<1>3. Sound(kern, {}) /\ Running \in Slots /\ kern.state[Running] = "RUNNING" /\ kern \in KernelType
      /\ Runners(kern) = {Running}
  BY HandedIs DEF Running
<1>4. Sound(k0, {}) /\ k0.state = kern.state /\ StillWaiting(kern, k0, {}) /\ k0 \in KernelType
  <2>1. eax \in Int /\ kern.state[Running] # "BLOCKED"
    BY <1>3, KernelAssumption
  <2>2. Sound(k0, {})
    BY <1>3, <2>1, SetRetSound
  <2> QED BY <1>3, <2>2, ret_Waiting DEF Sound, KernelType
<1> HIDE DEF k0
<1>5. Loose(k0, Running)
  BY <1>3, <1>4, RunnerIsLoose
<1>6. Sound(k1, {} \ {Running}) /\ k1.state = [k0.state EXCEPT ![Running] = "READY"]
      /\ StillWaiting(k0, k1, {})
  BY <1>3, <1>4, <1>5, ready_Sound, ready_Waiting
<1> HIDE DEF k1
<1>7. Sound(k1, {}) /\ Runners(k1) = {}
  <2>1. {} \ {Running} = {}
    OBVIOUS
  <2> QED BY <1>3, <1>4, <1>6, <2>1 DEF Runners, KernelType
<1>8. Handed(k2) /\ StillWaiting(k1, k2, {})
  BY <1>7, DispatchHands, Dispatch_Waiting
<1> HIDE DEF k2
<1>9. StillWaiting(k2, tick(k2), {})
  BY <1>8, tick_Waiting
<1>10. StillWaiting(kern, k2, {})
  BY <1>4, <1>6, <1>8, WaitingTwice
<1> QED BY <1>2, <1>9, <1>10, WaitingTwice

(* stop, in the workloads: nobody is blocked.                              *)
LEMMA Stop_Waiting ==
  ASSUME Workload, Handed(kern), Handed(kern)', Stop
  PROVE  StillWaiting(kern, kern', {})
<1> DEFINE m == [kern EXCEPT !.state[Running] = "STOPPED", !.next[Running] = NULL]
           k == Stopped(kern, Running)
<1>1. Sound(kern, {}) /\ Running \in Slots /\ Runners(kern) = {Running} /\ Running # IDLE
      /\ "stop" \in Calls /\ kern \in KernelType /\ kern.state[Running] = "RUNNING"
  BY HandedIs DEF Running, Stop, StopWith, UserRequest, Request
<1>2. Sound(k, {}) /\ Runners(k) = {}
  BY <1>1, Stopped_Sound
<1>3. PICK G : Serve(Dispatch(notify_waiters(k, kern.pid[Running], G)))
  BY DEF Stop, StopWith
<1>4. k = append(m, "dead_q", Running)
  BY DEF Stopped
<1>5. m \in KernelType /\ Calling(kern, m) /\ m.state[Running] = "STOPPED"
      /\ \A s \in Slots : s # Running => m.state[s] = kern.state[s]
  BY <1>1 DEF KernelType, Calling, States, Ptr
<1> HIDE DEF m
<1>6. StillWaiting(kern, m, {})
  <2>1. StillWaiting(kern, m, {Running})
    BY <1>5 DEF StillWaiting, Calling
  <2> QED BY <1>1, <1>5, <2>1, WaitingAll
<1>7. StillWaiting(m, k, {})
  <2>1. Calling(m, k) /\ k.state = m.state
    BY <1>4, <1>5, append_Calls
  <2> HIDE DEF k
  <2> QED BY <2>1, SameWaiting DEF Calling
<1> HIDE DEF k
<1>8. notify_waiters(k, kern.pid[Running], G) = k
  BY <1>1, <1>2, NobodyNotified
<1>9. kern' = Dispatch(k)
  BY <1>3, <1>8, Served
<1>10. StillWaiting(k, Dispatch(k), {})
  BY <1>2, Dispatch_Waiting
<1>11. StillWaiting(kern, k, {})
  BY <1>6, <1>7, WaitingTwice
<1> QED BY <1>9, <1>10, <1>11, WaitingTwice

-----------------------------------------------------------------------------
(* What the calls of the blocked processes have in common: the buffer has  *)
(* room, and a message that is sent is not empty and goes to a pid there   *)
(* can be.                                                                 *)
Called(k) ==
  \A s \in Slots : k.state[s] = "BLOCKED" =>
     /\ k.buf[s] > 0
     /\ k.call[s] = "send" => k.msg[s] > 0 /\ k.arg[s] \in 0 .. MaxPid

(* s is blocked in a call of this kind.                                    *)
Waits(k, s, call) == k.state[s] = "BLOCKED" /\ k.call[s] = call

(* Something is copied unless one of the three lengths is 0.               *)
LEMMA copyIsPositive ==
  ASSUME NEW a \in Nat, NEW b \in Nat, NEW c \in Nat, a > 0, b > 0, c > 0
  PROVE  copy(a, b, c) \in Int /\ copy(a, b, c) > 0
BY DEF copy, Least

(* What send() returns.  0, for which the caller blocks: its destination   *)
(* is not blocked.  A number of bytes: the destination was blocked in a    *)
(* receive, or in a send to a pid that points at a zero.                   *)
LEMMA send_Finds ==
  ASSUME NEW k, Sound(k, {}), Called(k), NEW p \in Slots, NEW zero \in BOOLEAN,
         k.buf[p] > 0, k.msg[p] > 0
  PROVE  LET o == send(k, p, zero)
             d == Slot(k.arg[p])
         IN  /\ o.from = k.arg[p] /\ o.mem.pid = k.pid
             /\ o.rc <= 0 => o.mem = k
             /\ o.rc = 0 => k.state[d] # "BLOCKED"
             /\ o.rc > 0 => /\ k.state[d] = "BLOCKED"
                            /\ (k.call[d] = "recv" \/ k.arg[d] \in ZeroWords)
                            /\ StillWaiting(k, o.mem, {d})
<1> DEFINE to     == k.arg[p]
           d      == Slot(to)
           any    == IF k.call[d] = "recv" THEN k.arg[d] = 0 ELSE zero /\ k.arg[d] \in ZeroWords
           ours   == k.call[d] = "recv" /\ k.arg[d] = k.pid[p]
           n      == copy(k.buf[p], k.msg[p], k.buf[d])
           told   == [k EXCEPT !.arg[d] = k.pid[p]]
           m      == IF k.call[d] = "recv" THEN told ELSE k
           o      == send(k, p, zero)
<1>1. to \in Nat /\ d \in Slots /\ k.buf[p] \in Nat /\ k.msg[p] \in Nat /\ k.buf[d] \in Nat
      /\ k \in KernelType
  BY SlotInSlots DEF Sound, KernelType
<1>2. o = IF k.state[d] # "BLOCKED" THEN Outcome(k, 0, to)
          ELSE IF any THEN Outcome(m, n, to)
          ELSE IF ~ours /\ k.ret[d] = SYS_SEND THEN Outcome(k, WOULD_DEADLOCK, to)
          ELSE Outcome(k, n, to)
  BY DEF send
<1>3. StillWaiting(k, m, {d}) /\ StillWaiting(k, k, {d}) /\ m.pid = k.pid
  <2>1. told.state = k.state /\ told.pid = k.pid /\ told.call = k.call /\ told.buf = k.buf
        /\ told.msg = k.msg /\ \A s \in Slots : s # d => told.arg[s] = k.arg[s]
    BY <1>1 DEF KernelType
  <2> HIDE DEF told, d
  <2>2. StillWaiting(k, told, {d}) /\ StillWaiting(k, k, {d})
    BY <2>1 DEF StillWaiting
  <2> QED BY <2>1, <2>2 DEF d
<1>4. k.state[d] = "BLOCKED" => n \in Int /\ n > 0
  BY <1>1, copyIsPositive DEF Called
<1>5. k.state[d] = "BLOCKED" /\ (any \/ ours \/ k.ret[d] # SYS_SEND)
      => k.call[d] = "recv" \/ k.arg[d] \in ZeroWords
  BY <1>1 DEF Sound, Facts, InCall
<1> HIDE DEF o, any, ours, n, m, d, to
<1>6. CASE k.state[d] # "BLOCKED"
  <2>1. o.mem = k /\ o.rc = 0 /\ o.from = to
    BY <1>2, <1>6 DEF Outcome
  <2> QED BY <1>6, <2>1 DEF o, d, to
<1>7. CASE k.state[d] = "BLOCKED" /\ any
  <2>1. o.mem = m /\ o.rc = n /\ o.from = to
    BY <1>2, <1>7 DEF Outcome
  <2> QED BY <1>3, <1>4, <1>5, <1>7, <2>1 DEF o, d, to
<1>8. CASE k.state[d] = "BLOCKED" /\ ~any /\ ~ours /\ k.ret[d] = SYS_SEND
  <2>1. o.mem = k /\ o.rc = WOULD_DEADLOCK /\ o.from = to
    BY <1>2, <1>8 DEF Outcome
  <2> QED BY <2>1 DEF WOULD_DEADLOCK, o, d, to
<1>9. CASE k.state[d] = "BLOCKED" /\ ~any /\ ~(~ours /\ k.ret[d] = SYS_SEND)
  <2>1. o.mem = k /\ o.rc = n /\ o.from = to
    BY <1>2, <1>9 DEF Outcome
  <2> QED BY <1>3, <1>4, <1>5, <1>9, <2>1 DEF o, d, to
<1> QED BY <1>6, <1>7, <1>8, <1>9

(* What recv() returns through the arguments of a sender.                  *)
LEMMA Take_Finds ==
  ASSUME NEW k, Sound(k, {}), Called(k), NEW p \in Slots, k.buf[p] > 0,
         NEW s \in Slots, k.state[s] = "BLOCKED", k.call[s] = "send",
         NEW m \in KernelType, m.call = k.call, m.buf = k.buf, m.msg = k.msg, NEW from
  PROVE  LET o == Take(m, s, p, from)
         IN  o.mem = m /\ o.from = from /\ o.rc > 0
<1> DEFINE n == copy(m.buf[s], m.msg[s], m.buf[p])
<1>1. Take(m, s, p, from) = Outcome(m, n, from)
  BY DEF Take
<1>2. k.buf[s] \in Nat /\ k.msg[s] \in Nat /\ k.buf[p] \in Nat /\ k.buf[s] > 0 /\ k.msg[s] > 0
  BY DEF Sound, KernelType, Called
<1>3. n > 0
  BY <1>2, copyIsPositive
<1> HIDE DEF n
<1> QED BY <1>1, <1>3 DEF Outcome

(* What recv() returns.  0, for which the caller blocks: it receives from  *)
(* any, or the process it named is not blocked in a send to it.  A number  *)
(* of bytes: the sender was blocked in a send to the caller.               *)
Finds(k, p, o) ==
  /\ o.mem.pid = k.pid
  /\ o.rc <= 0 => o.mem = k
  /\ o.rc = 0 => LET s == Slot(k.arg[p])
                 IN  k.arg[p] = 0 \/ ~(Waits(k, s, "send") /\ k.arg[s] = k.pid[p])
  /\ o.rc > 0 => LET s == Slot(o.from)
                 IN  Waits(k, s, "send") /\ k.arg[s] = k.pid[p] /\ StillWaiting(k, o.mem, {s})

(* A receive from any takes a sender on blocked_q that sends to the        *)
(* caller, if it takes one.                                                *)
LEMMA RecvAny_Finds ==
  ASSUME NEW k, Sound(k, {}), Called(k), NEW p \in Slots, k.buf[p] > 0, k.state[p] = "RUNNING",
         NEW G, k.arg[p] = 0
  PROVE  Finds(k, p, RecvAny(k, p, G))
<1> DEFINE at   == Chain(k.next, k.que["blocked_q"])
           hits == {n \in 0 .. MAX_PROC :
                       at[n] \in Pcbs /\ at[n] # p /\ SendsTo(k, at[n], k.pid[p], G)}
           n    == CHOOSE i \in hits : \A j \in hits : i <= j
           s    == at[n]
           told == [k EXCEPT !.arg[p] = k.pid[s]]
<1>1. PICK f, g, b, d : Lists(k, f, g, b, d)
  BY DEF Sound
<1>2. at[MAX_PROC] = NULL
  BY <1>1, Found DEF Endless
<1>3. CASE hits = {}
  <2>1. RecvAny(k, p, G) = Outcome(k, 0, 0)
    BY <1>2, <1>3 DEF RecvAny
  <2>2. Outcome(k, 0, 0).rc = 0 /\ Outcome(k, 0, 0).mem = k
    BY DEF Outcome
  <2> QED BY <2>1, <2>2 DEF Finds
<1>4. CASE hits # {}
  <2>1. n \in hits
    <3>1. hits \subseteq Nat
      OBVIOUS
    <3> HIDE DEF hits
    <3> QED BY <1>4, <3>1, HasMinimum
  <2>2. n \in 0 .. MAX_PROC /\ s \in Pcbs /\ SendsTo(k, s, k.pid[p], G)
    BY <2>1
  <2> HIDE DEF n
  <2>3. s \in Members(k.next, k.que["blocked_q"])
    BY <2>2 DEF Members
  <2> HIDE DEF at
  <2>4. k.state[s] = "BLOCKED" /\ s \in Slots
    <3>1. Members(k.next, k.que["blocked_q"]) = On(b) /\ \A r \in On(b) : k.state[r] = "BLOCKED"
      BY <1>1, Found DEF Lists, WaitersAre
    <3> HIDE DEF s
    <3> QED BY <2>2, <2>3, <3>1, Constants
  <2>5. k \in KernelType /\ k.pid[s] \in Nat /\ Slot(k.pid[s]) = s
    <3>1. k \in KernelType /\ Facts(k, {}) /\ k.pid[s] \in Nat
      BY <2>4, PidIsNat DEF Sound
    <3> QED BY <2>4, <3>1 DEF Facts
  <2>6. RecvAny(k, p, G) = Take(told, s, p, k.pid[s])
    BY <1>4 DEF RecvAny, n, at
  <2> HIDE DEF s, hits
  <2>7. k.call[s] = "send" /\ k.arg[s] = k.pid[p]
    <3>1. k.call[s] # "none"
      BY <2>4, BlockedInCall
    <3> QED BY <2>2, <3>1 DEF SendsTo
  <2>8. told \in KernelType /\ told.state = k.state /\ told.call = k.call /\ told.pid = k.pid
        /\ told.buf = k.buf /\ told.msg = k.msg /\ \A r \in Slots : r # p => told.arg[r] = k.arg[r]
    BY <2>5 DEF KernelType
  <2> HIDE DEF told
  <2>9. StillWaiting(k, told, {s})
    <3>1. StillWaiting(k, told, {p})
      BY <2>8 DEF StillWaiting
    <3>2. StillWaiting(k, told, {})
      BY <2>8, <3>1, WaitingAll
    <3> QED BY <3>2, WaitingFewer
  <2> DEFINE o == Take(told, s, p, k.pid[s])
  <2>10. o.mem = told /\ o.from = k.pid[s] /\ o.rc > 0
    BY <2>4, <2>7, <2>8, Take_Finds
  <2> HIDE DEF o
  <2>11. ~(o.rc <= 0) /\ ~(o.rc = 0)
    <3>1. o.rc \in Int
      <4>1. copy(told.buf[s], told.msg[s], told.buf[p]) \in Int
        BY <2>4, <2>8, copyIsInt
      <4>2. told.call[s] # "none"
        BY <2>7, <2>8
      <4> QED BY <4>1, <4>2 DEF o, Take, Outcome
    <3> QED BY <2>10, <3>1
  <2>12. Finds(k, p, o)
    BY <2>4, <2>5, <2>7, <2>8, <2>9, <2>10, <2>11 DEF Finds, Waits
  <2> QED BY <2>6, <2>12 DEF o
<1> QED BY <1>3, <1>4

(* A receive from one pid takes it if it is blocked in a send to the       *)
(* caller, and waits only if it is not.                                    *)
LEMMA RecvFrom_Finds ==
  ASSUME NEW k, Sound(k, {}), Called(k), NEW p \in Slots, k.buf[p] > 0, NEW G
  PROVE  Finds(k, p, RecvFrom(k, p, G))
<1> DEFINE from == k.arg[p]
           s    == Slot(from)
           o    == RecvFrom(k, p, G)
<1>1. from \in Nat /\ s \in Slots /\ k \in KernelType
  BY SlotInSlots DEF Sound, KernelType
<1>2. \/ o = Outcome(k, WOULD_DEADLOCK, from)
      \/ /\ k.state[s] = "BLOCKED" /\ SendsTo(k, s, k.pid[p], G)
         /\ o = Take(k, s, p, from)
      \/ /\ ~(k.state[s] = "BLOCKED" /\ SendsTo(k, s, k.pid[p], G))
         /\ o = Outcome(k, 0, from)
  BY DEF RecvFrom
<1> HIDE DEF o
<1>3. CASE o = Outcome(k, WOULD_DEADLOCK, from)
  <2>1. o.mem = k /\ o.rc = -4
    BY <1>3 DEF Outcome, WOULD_DEADLOCK
  <2>2. Finds(k, p, o)
    BY <2>1 DEF Finds
  <2> QED BY <2>2 DEF o
<1>4. CASE k.state[s] = "BLOCKED" /\ SendsTo(k, s, k.pid[p], G) /\ o = Take(k, s, p, from)
  <2>1. k.call[s] # "none"
    BY <1>1, <1>4, BlockedInCall
  <2>2. k.call[s] = "send" /\ k.arg[s] = k.pid[p]
    BY <1>4, <2>1 DEF SendsTo
  <2>3. o.mem = k /\ o.from = from /\ o.rc > 0
    BY <1>1, <1>4, <2>2, Take_Finds
  <2>4. ~(o.rc <= 0) /\ ~(o.rc = 0)
    <3>1. copy(k.buf[s], k.msg[s], k.buf[p]) \in Int
      BY <1>1, copyIsInt
    <3>2. o.rc \in Int
      BY <1>4, <2>1, <3>1 DEF Take, Outcome
    <3> QED BY <2>3, <3>2
  <2>5. StillWaiting(k, k, {s})
    BY DEF StillWaiting
  <2>6. Finds(k, p, o)
    BY <1>4, <2>2, <2>3, <2>4, <2>5 DEF Finds, Waits
  <2> QED BY <2>6 DEF o
<1>5. CASE ~(k.state[s] = "BLOCKED" /\ SendsTo(k, s, k.pid[p], G)) /\ o = Outcome(k, 0, from)
  <2>1. o.mem = k /\ o.rc = 0
    BY <1>5 DEF Outcome
  <2>2. ~(Waits(k, s, "send") /\ k.arg[s] = k.pid[p])
    BY <1>5 DEF Waits, SendsTo
  <2>3. Finds(k, p, o)
    BY <2>1, <2>2 DEF Finds
  <2> QED BY <2>3 DEF o
<1> QED BY <1>2, <1>3, <1>4, <1>5

-----------------------------------------------------------------------------
(* After a transfer the partner is no longer blocked, everybody else is as *)
(* before, and both return the count.                                      *)
LEMMA Both_Waiting ==
  ASSUME NEW k \in KernelType, NEW p \in Slots, k.state[p] # "BLOCKED",
         NEW other \in Slots, k.state[other] = "BLOCKED", k.pid[other] # 0, NEW n \in Int,
         Both(k, p, other, n).fault = "none"
  PROVE  LET r == Both(k, p, other, n)
         IN  /\ StillWaiting(k, r, {other}) /\ r.state[other] # "BLOCKED"
             /\ r.ret[p] = n /\ r.ret[other] = n
<1> DEFINE k0 == [k EXCEPT !.ret[p] = n, !.ret[other] = n]
           k1 == ready(k0, p)
           q  == get_q(k1.state[other])
           k2 == remove(k1, q, k.pid[other])
           k3 == ready(k2, other)
<1>1. Both(k, p, other, n) = k3
  BY DEF Both
<1>2. /\ k0 \in KernelType /\ k0.state = k.state /\ k0.pid = k.pid /\ k0.call = k.call
      /\ k0.arg = k.arg /\ k0.buf = k.buf /\ k0.msg = k.msg
      /\ k0.ret[p] = n /\ k0.ret[other] = n
  BY DEF KernelType
<1> HIDE DEF k0
<1>3. StillWaiting(k, k0, {})
  BY <1>2, SameWaiting
<1>4. k1 \in KernelType /\ StillWaiting(k0, k1, {}) /\ Calling(k0, k1)
  BY <1>2, ready_Keeps, ready_Calls, ready_Waiting
<1> HIDE DEF k1
<1>5. k2 \in KernelType /\ Calling(k1, k2) /\ k2.state = k1.state
  BY <1>4, remove_Keeps, remove_Calls
<1> HIDE DEF k2
<1>6. StillWaiting(k1, k2, {})
  BY <1>5, SameWaiting DEF Calling
<1>7. /\ StillWaiting(k2, k3, {other}) /\ Calling(k2, k3)
      /\ k3.state[other] = "READY" \/ k3.fault # "none"
  BY <1>5, ready_Calls, ready_Waiting
<1> HIDE DEF k3
<1>8. StillWaiting(k, k2, {})
  BY <1>3, <1>4, <1>6, WaitingTwice
<1>9. StillWaiting(k, k3, {other})
  BY <1>7, <1>8, WaitingFewer, WaitingTwice
<1>10. k3.ret[p] = n /\ k3.ret[other] = n
  BY <1>2, <1>4, <1>5, <1>7 DEF Calling
<1> QED BY <1>1, <1>7, <1>9, <1>10

(* What send() and recv() leave to the rest of their handlers: the memory  *)
(* as it was, or a partner that is blocked and may be released.            *)
Returned(k, o) ==
  LET s == Slot(o.from)
  IN  /\ o.rc \in Int /\ o.mem \in KernelType /\ o.mem.state = k.state /\ o.mem.pid = k.pid
      /\ o.rc <= 0 => o.mem = k
      /\ o.rc > 0 => s \in Slots /\ k.state[s] = "BLOCKED" /\ StillWaiting(k, o.mem, {s})

(* What becomes of it from the memory a, in which nobody waits that does   *)
(* not wait in k: p is refused, or waits, or it and its partner have both  *)
(* the number of bytes.                                                    *)
Ended(a, k, r, o, p) ==
  LET s == Slot(o.from)
  IN  /\ o.rc < 0 => StillWaiting(a, r, {})
      /\ o.rc = 0 => /\ StillWaiting(a, r, {p}) /\ r.state[p] = "BLOCKED"
                     /\ r.call[p] = k.call[p] /\ r.arg[p] = k.arg[p] /\ r.pid[p] = k.pid[p]
                     /\ r.buf[p] = k.buf[p] /\ r.msg[p] = k.msg[p]
      /\ o.rc > 0 => /\ StillWaiting(a, r, {s}) /\ r.state[s] # "BLOCKED"
                     /\ r.ret[p] = o.rc /\ r.ret[s] = o.rc

(* The end of a send or a receive, up to next().                           *)
LEMMA Finish_Waiting ==
  ASSUME NEW k \in KernelType, NEW p \in Slots, k.state[p] = "RUNNING", Facts(k, {}),
         NEW o, Returned(k, o), NEW code \in Int, Finish(o, p, code).fault = "none"
  PROVE  Ended(k, k, Finish(o, p, code), o, p)
<1> DEFINE r == Finish(o, p, code)
           s == Slot(o.from)
<1>1. /\ o.rc \in Int /\ o.mem \in KernelType /\ o.mem.state = k.state /\ o.mem.pid = k.pid
      /\ o.rc <= 0 => o.mem = k
      /\ o.rc > 0 => s \in Slots /\ k.state[s] = "BLOCKED" /\ StillWaiting(k, o.mem, {s})
  BY DEF Returned
<1>2. r.fault = "none"
  OBVIOUS
<1>3. CASE o.rc < 0
  <2> DEFINE m == [k EXCEPT !.ret[p] = o.rc]
  <2>1. r = ready(m, p)
    BY <1>3, <1>1 DEF Finish
  <2>2. m \in KernelType /\ m.state = k.state /\ StillWaiting(k, m, {})
    BY <1>1, ret_Waiting DEF KernelType
  <2> HIDE DEF m
  <2>3. StillWaiting(m, ready(m, p), {})
    BY <2>2, ready_Waiting
  <2>4. StillWaiting(k, r, {})
    BY <2>1, <2>2, <2>3, WaitingTwice
  <2> HIDE DEF r
  <2> QED BY <1>3, <1>1, <2>4 DEF r, Ended
<1>4. CASE o.rc = 0
  <2> DEFINE m == [k EXCEPT !.state[p] = "BLOCKED", !.ret[p] = code]
  <2>1. r = append(m, "blocked_q", p)
    <3>1. o.mem = k /\ ~(o.rc > 0) /\ ~(o.rc < 0)
      BY <1>4, <1>1
    <3>2. r = Block(k, p, code)
      BY <3>1 DEF Finish
    <3> QED BY <3>2 DEF Block
  <2>2. /\ m \in KernelType /\ m.pid = k.pid /\ m.call = k.call /\ m.arg = k.arg /\ m.buf = k.buf
        /\ m.msg = k.msg /\ m.state[p] = "BLOCKED" /\ \A t \in Slots : t # p => m.state[t] = k.state[t]
    BY DEF KernelType, States
  <2> HIDE DEF m, r
  <2>3. Calling(m, r) /\ r.state = m.state
    BY <2>1, <2>2, append_Calls
  <2>4. StillWaiting(k, r, {p})
    BY <2>2, <2>3 DEF StillWaiting, Calling
  <2> QED BY <1>4, <1>1, <2>2, <2>3, <2>4 DEF r, Calling, Ended
<1>5. CASE o.rc > 0
  <2> DEFINE m == o.mem
  <2>1. r = Both(m, p, s, o.rc)
    BY <1>5, <1>1 DEF Finish
  <2> HIDE DEF m
  <2>2. k.pid[s] # 0 /\ s \in Slots /\ k.state[s] = "BLOCKED" /\ StillWaiting(k, m, {s})
    BY <1>5, <1>1 DEF Facts, m
  <2>3. m \in KernelType /\ m.state = k.state /\ m.pid = k.pid /\ r.fault = "none" /\ o.rc \in Int
    BY <1>1, <1>2 DEF m
  <2> HIDE DEF r, s
  <2>4. /\ StillWaiting(m, r, {s}) /\ r.state[s] # "BLOCKED"
        /\ r.ret[p] = o.rc /\ r.ret[s] = o.rc
    BY <2>1, <2>2, <2>3, Both_Waiting
  <2>5. StillWaiting(k, r, {s})
    BY <2>2, <2>4, WaitingTwice
  <2> QED BY <1>5, <1>1, <2>4, <2>5 DEF r, s, Ended
<1> QED BY <1>3, <1>4, <1>5, <1>1

-----------------------------------------------------------------------------
(* The invariant.  NoMissed and NoCycle are NoMissedRendezvous and         *)
(* NoSendCycle of the memory k.                                            *)
(* Kernel's NoMissedRendezvous, of any memory.                             *)
NoMissed(k) ==
  \A s, r \in Slots :
     ~(Waits(k, s, "send") /\ k.arg[s] = k.pid[r] /\ Waits(k, r, "recv") /\ k.arg[r] = k.pid[s])

(* Kernel's NoSendCycle, of any memory.                                    *)
NoCycle(k) ==
  \A S \in SUBSET {s \in Slots : Waits(k, s, "send")} :
     S # {} => \E s \in S : \A r \in S : k.pid[r] # k.arg[s]

(* The invariant of the messages, on top of Handed.                        *)
Talking(k) == Called(k) /\ NoMissed(k) /\ NoCycle(k)

(* Nobody new is blocked.                                                  *)
LEMMA FewerTalk ==
  ASSUME NEW k, Talking(k), NEW r, NEW X, StillWaiting(k, r, X),
         \A s \in X : r.state[s] # "BLOCKED"
  PROVE  Talking(r)
<1>1. \A s \in Slots : r.state[s] = "BLOCKED" =>
         /\ k.state[s] = "BLOCKED" /\ r.pid[s] = k.pid[s] /\ r.call[s] = k.call[s]
         /\ r.arg[s] = k.arg[s] /\ r.buf[s] = k.buf[s] /\ r.msg[s] = k.msg[s]
  BY DEF StillWaiting
<1>2. Called(r)
  BY <1>1 DEF Talking, Called
<1>3. NoMissed(r)
  BY <1>1 DEF Talking, NoMissed, Waits
<1>4. NoCycle(r)
  <2>1. SUFFICES ASSUME NEW S \in SUBSET {s \in Slots : Waits(r, s, "send")}, S # {}
                 PROVE  \E s \in S : \A t \in S : r.pid[t] # r.arg[s]
    BY DEF NoCycle
  <2>2. S \in SUBSET {s \in Slots : Waits(k, s, "send")}
    BY <1>1 DEF Waits
  <2>3. PICK s \in S : \A t \in S : k.pid[t] # k.arg[s]
    BY <2>1, <2>2 DEF Talking, NoCycle
  <2>4. \A t \in S : r.pid[t] = k.pid[t] /\ r.arg[t] = k.arg[t]
    BY <1>1, <2>1 DEF Waits
  <2> QED BY <2>3, <2>4
<1> QED BY <1>2, <1>3, <1>4 DEF Talking

(* A send blocks only if its destination is not blocked: the caller cannot *)
(* close a cycle.  A receive blocks only if the process it names is not    *)
(* blocked in a send to the caller.                                        *)
LEMMA OneMoreTalks ==
  ASSUME NEW k \in KernelType, Talking(k), Facts(k, {}), NEW p \in Slots, k.state[p] = "RUNNING",
         NEW r, StillWaiting(k, r, {p}), r.state[p] = "BLOCKED", r.buf[p] > 0, r.pid[p] = k.pid[p],
         \/ /\ r.call[p] = "send" /\ r.msg[p] > 0 /\ r.arg[p] \in 0 .. MaxPid
            /\ r.arg[p] # r.pid[p] /\ k.state[Slot(r.arg[p])] # "BLOCKED"
         \/ /\ r.call[p] = "recv"
            /\ \A s \in Slots : Waits(k, s, "send") /\ k.arg[s] = k.pid[p] => r.arg[p] # k.pid[s]
  PROVE  Talking(r)
<1>1. \A s \in Slots : s # p /\ r.state[s] = "BLOCKED" =>
         /\ k.state[s] = "BLOCKED" /\ r.pid[s] = k.pid[s] /\ r.call[s] = k.call[s]
         /\ r.arg[s] = k.arg[s] /\ r.buf[s] = k.buf[s] /\ r.msg[s] = k.msg[s]
  BY DEF StillWaiting
<1>2. \A s \in Slots : k.state[s] = "BLOCKED" => k.pid[s] # 0 /\ Slot(k.pid[s]) = s
  <2>1. \A s \in Slots : k.pid[s] \in Nat
    BY PidIsNat
  <2> QED BY <2>1 DEF Facts
<1>3. Called(r)
  BY <1>1 DEF Talking, Called
<1>4. CASE r.call[p] = "recv" /\ \A s \in Slots : Waits(k, s, "send") /\ k.arg[s] = k.pid[p] => r.arg[p] # k.pid[s]
  <2>1. \A s \in Slots : Waits(r, s, "send") => s # p /\ Waits(k, s, "send")
    BY <1>1, <1>4 DEF Waits
  <2>2. NoMissed(r)
    <3>1. SUFFICES ASSUME NEW s \in Slots, NEW t \in Slots, Waits(r, s, "send"), r.arg[s] = r.pid[t],
                          Waits(r, t, "recv"), r.arg[t] = r.pid[s]
                   PROVE  FALSE
      BY DEF NoMissed
    <3>2. Waits(k, s, "send") /\ r.arg[s] = k.arg[s] /\ r.pid[s] = k.pid[s]
      BY <1>1, <2>1, <3>1 DEF Waits
    <3>3. CASE t = p
      BY <1>4, <3>1, <3>2, <3>3
    <3>4. CASE t # p
      BY <1>1, <3>1, <3>2, <3>4 DEF Talking, NoMissed, Waits
    <3> QED BY <3>3, <3>4
  <2>3. NoCycle(r)
    <3>1. SUFFICES ASSUME NEW S \in SUBSET {s \in Slots : Waits(r, s, "send")}, S # {}
                   PROVE  \E s \in S : \A t \in S : r.pid[t] # r.arg[s]
      BY DEF NoCycle
    <3>2. S \in SUBSET {s \in Slots : Waits(k, s, "send")}
      BY <2>1
    <3>3. PICK s \in S : \A t \in S : k.pid[t] # k.arg[s]
      BY <3>1, <3>2 DEF Talking, NoCycle
    <3>4. \A t \in S : r.pid[t] = k.pid[t] /\ r.arg[t] = k.arg[t]
      BY <1>1, <2>1, <3>1 DEF Waits
    <3> QED BY <3>3, <3>4
  <2> QED BY <1>3, <2>2, <2>3 DEF Talking
<1>5. CASE /\ r.call[p] = "send" /\ r.arg[p] # r.pid[p] /\ k.state[Slot(r.arg[p])] # "BLOCKED"
  <2>1. \A t \in Slots : r.state[t] = "BLOCKED" => r.pid[t] # r.arg[p]
    <3>1. ASSUME NEW t \in Slots, r.state[t] = "BLOCKED", r.pid[t] = r.arg[p] PROVE FALSE
      <4>1. t # p
        BY <1>5, <3>1
      <4>2. k.state[t] = "BLOCKED" /\ r.pid[t] = k.pid[t]
        BY <1>1, <3>1, <4>1
      <4>3. Slot(r.arg[p]) = t
        BY <1>2, <3>1, <4>2
      <4> QED BY <1>5, <4>2, <4>3
    <3> QED BY <3>1
  <2>2. NoMissed(r)
    <3>1. SUFFICES ASSUME NEW s \in Slots, NEW t \in Slots, Waits(r, s, "send"), r.arg[s] = r.pid[t],
                          Waits(r, t, "recv"), r.arg[t] = r.pid[s]
                   PROVE  FALSE
      BY DEF NoMissed
    <3>2. s # p
      BY <2>1, <3>1 DEF Waits
    <3>3. t # p
      BY <1>5, <3>1 DEF Waits
    <3> QED BY <1>1, <3>1, <3>2, <3>3 DEF Talking, NoMissed, Waits
  <2>3. NoCycle(r)
    <3>1. SUFFICES ASSUME NEW S \in SUBSET {s \in Slots : Waits(r, s, "send")}, S # {}
                   PROVE  \E s \in S : \A t \in S : r.pid[t] # r.arg[s]
      BY DEF NoCycle
    <3>2. CASE p \in S
      BY <2>1, <3>1, <3>2 DEF Waits
    <3>3. CASE p \notin S
      <4>1. S \in SUBSET {s \in Slots : Waits(k, s, "send")}
        BY <1>1, <3>1, <3>3 DEF Waits
      <4>2. PICK s \in S : \A t \in S : k.pid[t] # k.arg[s]
        BY <3>1, <4>1 DEF Talking, NoCycle
      <4>3. \A t \in S : r.pid[t] = k.pid[t] /\ r.arg[t] = k.arg[t]
        BY <1>1, <3>1, <3>3 DEF Waits
      <4> QED BY <4>2, <4>3
    <3> QED BY <3>2, <3>3
  <2> QED BY <1>3, <2>2, <2>3 DEF Talking
<1> QED BY <1>4, <1>5

-----------------------------------------------------------------------------
(* A send or a receive to the end: the caller is refused, or waits, or it  *)
(* and its partner have exchanged a message.                               *)
LEMMA MessageMoves ==
  ASSUME Handed(kern), NEW k, StillWaiting(kern, k, {}), Sound(k, {}),
         NEW p \in Slots, Runners(k) = {p},
         NEW o, Returned(k, o),
         NEW code \in Int, Sound(Finish(o, p, code), {}), Runners(Finish(o, p, code)) = {},
         kern' = Dispatch(Finish(o, p, code))
  PROVE  Ended(kern, k, kern', o, p)
<1> DEFINE r == Finish(o, p, code)
           s == Slot(o.from)
<1>1. k \in KernelType /\ Facts(k, {}) /\ k.state[p] = "RUNNING" /\ r.fault = "none"
  BY DEF Sound, Facts, Runners
<1>2. Ended(k, k, r, o, p)
  BY <1>1, Finish_Waiting
<1>3. o.rc \in Int /\ (o.rc > 0 => s \in Slots)
  BY DEF Returned
<1>4. /\ o.rc < 0 => StillWaiting(k, r, {})
      /\ o.rc = 0 => /\ StillWaiting(k, r, {p}) /\ r.state[p] = "BLOCKED"
                     /\ r.call[p] = k.call[p] /\ r.arg[p] = k.arg[p] /\ r.pid[p] = k.pid[p]
                     /\ r.buf[p] = k.buf[p] /\ r.msg[p] = k.msg[p]
      /\ o.rc > 0 => /\ StillWaiting(k, r, {s}) /\ r.state[s] # "BLOCKED"
                     /\ r.ret[p] = o.rc /\ r.ret[s] = o.rc
  BY <1>2 DEF Ended
<1>5. StillWaiting(r, kern', {}) /\ kern'.ret = r.ret
  BY Dispatch_Waiting
<1> HIDE DEF r
<1>6. CASE o.rc < 0
  <2>1. StillWaiting(kern, kern', {})
    BY <1>4, <1>5, <1>6, WaitingTwice
  <2> QED BY <1>6, <1>3, <2>1 DEF Ended
<1>7. CASE o.rc = 0
  <2>1. StillWaiting(kern, k, {p}) /\ StillWaiting(k, r, {p}) /\ StillWaiting(r, kern', {p})
    BY <1>4, <1>5, <1>7, WaitingFewer
  <2>2. StillWaiting(kern, kern', {p})
    BY <2>1, WaitingTwice
  <2>3. /\ kern'.state[p] = "BLOCKED" /\ kern'.call[p] = r.call[p] /\ kern'.arg[p] = r.arg[p]
        /\ kern'.pid[p] = r.pid[p] /\ kern'.buf[p] = r.buf[p] /\ kern'.msg[p] = r.msg[p]
    BY <1>4, <1>5, <1>7 DEF StillWaiting
  <2> QED BY <1>4, <1>7, <1>3, <2>2, <2>3 DEF Ended
<1>8. CASE o.rc > 0
  <2>1. s \in Slots
    BY <1>8, <1>3
  <2> HIDE DEF s
  <2>2. StillWaiting(kern, k, {s}) /\ StillWaiting(k, r, {s}) /\ StillWaiting(r, kern', {s})
    BY <1>4, <1>5, <1>8, WaitingFewer
  <2>3. StillWaiting(kern, kern', {s})
    BY <2>2, WaitingTwice
  <2>4. kern'.state[s] # "BLOCKED"
    BY <1>4, <1>5, <1>8, <2>1 DEF StillWaiting
  <2> QED BY <1>4, <1>5, <1>8, <1>3, <2>3, <2>4 DEF s, Ended
<1> QED BY <1>6, <1>7, <1>8, <1>3

(* The caller's arguments.                                                 *)
LEMMA WithArgs_Waiting ==
  ASSUME Handed(kern), NEW call \in {"none", "send", "recv"},
         NEW arg \in Nat, NEW buf \in Nat, NEW msg \in Nat
  PROVE  LET k == WithArgs(kern, Running, call, arg, buf, msg)
         IN  /\ StillWaiting(kern, k, {})
             /\ k.state = kern.state /\ k.pid = kern.pid
             /\ k.call[Running] = call /\ k.arg[Running] = arg
             /\ k.buf[Running] = buf /\ k.msg[Running] = msg
             /\ \A s \in Slots : s # Running => k.call[s] = kern.call[s] /\ k.arg[s] = kern.arg[s]
<1> DEFINE k == WithArgs(kern, Running, call, arg, buf, msg)
<1>1. kern \in KernelType /\ Running \in Slots /\ kern.state[Running] = "RUNNING"
  BY HandedIs DEF Running
<1>2. /\ k.state = kern.state /\ k.pid = kern.pid
      /\ k.call[Running] = call /\ k.arg[Running] = arg
      /\ k.buf[Running] = buf /\ k.msg[Running] = msg
      /\ \A s \in Slots : s # Running => /\ k.call[s] = kern.call[s] /\ k.arg[s] = kern.arg[s]
                                         /\ k.buf[s] = kern.buf[s] /\ k.msg[s] = kern.msg[s]
  BY <1>1 DEF WithArgs, KernelType
<1> HIDE DEF k
<1>3. StillWaiting(kern, k, {})
  <2>1. StillWaiting(kern, k, {Running})
    BY <1>2 DEF StillWaiting
  <2> QED BY <1>1, <1>2, <2>1, WaitingAll
<1> QED BY <1>2, <1>3 DEF k

-----------------------------------------------------------------------------
(* A call to oneself is refused.                                           *)
LEMMA NotToOneself ==
  ASSUME NEW k, NEW p, NEW pid, NEW ok, ~(validate(k, p, pid, ok) < 0)
  PROVE  k.pid[p] # pid
BY DEF validate, SRC_DST_SAME, BAD_PID, BAD_BUFFER_PARM

(* A send, whole: it blocks the caller only behind a process that can come *)
(* to receive, and releases a sender only through a pid that points at 0.  *)
LEMMA SendTalks ==
  ASSUME Workload, 0 \notin MsgLens, Handed(kern), Handed(kern)', Talking(kern),
         NEW d \in 0 .. MaxPid, NEW buf \in BufLens, NEW msg \in MsgLens, NEW ok,
         SendTo(d, buf, msg, ok)
  PROVE  /\ Talking(kern')
         /\ \A s \in Slots : Waits(kern, s, "send") /\ kern'.state[s] # "BLOCKED"
                             => kern.arg[s] \in ZeroWords
<1> DEFINE k == WithArgs(kern, Running, "send", d, buf, msg)
           p == Running
<1>1. PICK zero \in BOOLEAN : Serve(Dispatch(SysSend(k, p, ok, zero)))
  BY DEF SendTo
<1>2. p \in Slots /\ p # IDLE /\ "stop" \notin Calls /\ kern \in KernelType /\ Facts(kern, {})
      /\ kern.state[p] = "RUNNING"
  BY HandedIs DEF Running, SendTo, UserRequest, Request, Workload
<1>3. buf \in Nat /\ msg \in Nat /\ buf > 0 /\ msg > 0 /\ d \in Nat /\ MaxPid \in Nat
      /\ "send" \in {"none", "send", "recv"}
  BY KernelAssumption
<1>4. Sound(k, {}) /\ Runners(k) = {p}
  BY <1>3, WithArgsSound
<1>5. /\ StillWaiting(kern, k, {}) /\ k.state = kern.state /\ k.pid = kern.pid
      /\ k.call[p] = "send" /\ k.arg[p] = d /\ k.buf[p] = buf /\ k.msg[p] = msg
      /\ \A s \in Slots : s # p => k.call[s] = kern.call[s] /\ k.arg[s] = kern.arg[s]
  BY <1>3, WithArgs_Waiting
<1> HIDE DEF k, p
<1>6. Called(k)
  <2>1. Talking(k)
    BY <1>5, FewerTalk
  <2> QED BY <2>1 DEF Talking
<1> DEFINE rc == validate(k, p, k.arg[p], ok)
           o1 == send(k, p, zero)
           o  == IF rc < 0 THEN Outcome(k, rc, k.arg[p]) ELSE o1
           r  == Finish(o, p, SYS_SEND)
           s  == Slot(o.from)
<1>7. SysSend(k, p, ok, zero) = r
  BY DEF SysSend
<1>8. rc \in Int /\ Fine(k, o1) /\ SYS_SEND \in Int
  BY <1>2, <1>4, validateIsInt, send_Fine DEF SYS_SEND
<1>9. LET t == Slot(k.arg[p])
      IN  /\ o1.from = k.arg[p] /\ o1.mem.pid = k.pid
          /\ o1.rc <= 0 => o1.mem = k
          /\ o1.rc = 0 => k.state[t] # "BLOCKED"
          /\ o1.rc > 0 => /\ k.state[t] = "BLOCKED"
                          /\ (k.call[t] = "recv" \/ k.arg[t] \in ZeroWords)
                          /\ StillWaiting(k, o1.mem, {t})
  BY <1>2, <1>3, <1>4, <1>5, <1>6, send_Finds
<1> HIDE DEF o1
<1>10. Slot(k.arg[p]) \in Slots
  BY <1>3, <1>5, SlotInSlots
<1>11. ~(rc < 0) => k.pid[p] # k.arg[p]
  BY NotToOneself
<1> HIDE DEF rc
<1>12. /\ Fine(k, o) /\ o.mem.pid = k.pid
       /\ o.rc <= 0 => o.mem = k
       /\ o.rc = 0 => k.state[Slot(k.arg[p])] # "BLOCKED" /\ k.pid[p] # k.arg[p]
       /\ o.rc > 0 => /\ s \in Slots /\ k.state[s] = "BLOCKED" /\ StillWaiting(k, o.mem, {s})
                      /\ (k.call[s] = "recv" \/ k.arg[s] \in ZeroWords)
  <2>1. CASE rc < 0
    <3>1. o.mem = k /\ o.rc = rc /\ o.from = k.arg[p] /\ ~(rc > 0) /\ rc # 0
      BY <1>8, <2>1 DEF Outcome
    <3>2. Fine(k, o)
      BY <1>4, <1>8, <3>1 DEF Fine
    <3> QED BY <3>1, <3>2
  <2>2. CASE ~(rc < 0)
    <3>1. o = o1
      BY <2>2
    <3> QED BY <1>8, <1>9, <1>10, <1>11, <2>2, <3>1
  <2> QED BY <2>1, <2>2
<1> HIDE DEF o
<1>13. Sound(r, {}) /\ Runners(r) = {}
  <2>1. <<k.call[p], SYS_SEND>> \in {<<"send", SYS_SEND>>, <<"recv", SYS_RECV>>}
    BY <1>5
  <2> QED BY <1>2, <1>4, <1>12, <2>1, Finish_Sound
<1>14. kern' = Dispatch(r)
  BY <1>1, <1>7, Served
<1>15. Returned(k, o) /\ o.rc \in Int
  BY <1>12 DEF Fine, Sound, Returned
<1>16. Ended(kern, k, kern', o, p)
  <2>1. StillWaiting(kern, k, {}) /\ SYS_SEND \in Int
    BY <1>5, <1>8
  <2> QED BY <1>2, <1>4, <1>13, <1>14, <1>15, <2>1, MessageMoves
<1>17. /\ o.rc < 0 => StillWaiting(kern, kern', {})
       /\ o.rc = 0 => /\ StillWaiting(kern, kern', {p}) /\ kern'.state[p] = "BLOCKED"
                      /\ kern'.call[p] = k.call[p] /\ kern'.arg[p] = k.arg[p]
                      /\ kern'.pid[p] = k.pid[p] /\ kern'.buf[p] = k.buf[p]
                      /\ kern'.msg[p] = k.msg[p]
       /\ o.rc > 0 => /\ StillWaiting(kern, kern', {s}) /\ kern'.state[s] # "BLOCKED"
                      /\ kern'.ret[p] = o.rc /\ kern'.ret[s] = o.rc
  BY <1>16 DEF Ended
<1> HIDE DEF s
<1>18. CASE o.rc < 0
  <2>1. Talking(kern')
    BY <1>17, <1>18, FewerTalk
  <2> QED BY <1>17, <1>18, <2>1 DEF StillWaiting, Waits
<1>19. CASE o.rc = 0
  <2>1. Talking(kern')
    BY <1>2, <1>3, <1>5, <1>12, <1>17, <1>19, OneMoreTalks
  <2> QED BY <1>2, <1>17, <1>19, <2>1 DEF StillWaiting, Waits
<1>20. CASE o.rc > 0
  <2>1. Talking(kern')
    BY <1>17, <1>20, FewerTalk
  <2>2. s # p /\ s \in Slots /\ (kern.call[s] = "recv" \/ kern.arg[s] \in ZeroWords)
    BY <1>2, <1>5, <1>12, <1>20
  <2> QED BY <1>17, <1>20, <2>1, <2>2 DEF StillWaiting, Waits
<1> QED BY <1>15, <1>18, <1>19, <1>20

(* A receive, whole: the sender that it releases was sending to the caller, *)
(* and both get the number of bytes copied.                                *)
LEMMA ReceiveTalks ==
  ASSUME Workload, Handed(kern), Handed(kern)', Talking(kern),
         NEW f \in 0 .. MaxPid, NEW buf \in BufLens, NEW ok, Receive(f, buf, ok)
  PROVE  /\ Talking(kern')
         /\ \A s \in Slots : Waits(kern, s, "send") /\ kern'.state[s] # "BLOCKED" =>
               /\ kern.pid[Running] = kern.arg[s]
               /\ kern'.ret[s] > 0 /\ kern'.ret[s] = kern'.ret[Running]
<1> DEFINE k == WithArgs(kern, Running, "recv", f, buf, 0)
           p == Running
<1>1. PICK G : Serve(Dispatch(SysRecv(k, p, ok, G)))
  BY DEF Receive
<1>2. p \in Slots /\ p # IDLE /\ "stop" \notin Calls /\ kern \in KernelType /\ Facts(kern, {})
      /\ kern.state[p] = "RUNNING"
  BY HandedIs DEF Running, Receive, UserRequest, Request, Workload
<1>3. buf \in Nat /\ buf > 0 /\ f \in Nat /\ MaxPid \in Nat /\ 0 \in Nat
      /\ "recv" \in {"none", "send", "recv"}
  BY KernelAssumption
<1>4. Sound(k, {}) /\ Runners(k) = {p}
  BY <1>3, WithArgsSound
<1>5. /\ StillWaiting(kern, k, {}) /\ k.state = kern.state /\ k.pid = kern.pid
      /\ k.call[p] = "recv" /\ k.arg[p] = f /\ k.buf[p] = buf
      /\ \A s \in Slots : s # p => k.call[s] = kern.call[s] /\ k.arg[s] = kern.arg[s]
  BY <1>3, WithArgs_Waiting
<1> HIDE DEF k, p
<1>6. Called(k)
  <2>1. Talking(k)
    BY <1>5, FewerTalk
  <2> QED BY <2>1 DEF Talking
<1> DEFINE rc == validate(k, p, k.arg[p], ok)
           o1 == IF k.arg[p] = 0 THEN RecvAny(k, p, G) ELSE RecvFrom(k, p, G)
           o  == IF rc < 0 THEN Outcome(k, rc, k.arg[p]) ELSE o1
           r  == Finish(o, p, SYS_RECV)
           s  == Slot(o.from)
<1>7. SysRecv(k, p, ok, G) = r
  <2>1. o = IF rc < 0 THEN Outcome(k, rc, k.arg[p])
            ELSE IF k.arg[p] = 0 THEN RecvAny(k, p, G) ELSE RecvFrom(k, p, G)
    OBVIOUS
  <2> QED BY <2>1 DEF SysRecv
<1>8. rc \in Int /\ Fine(k, o1) /\ SYS_RECV \in Int
  BY <1>2, <1>4, validateIsInt, RecvAny_Fine, RecvFrom_Fine DEF SYS_RECV
<1>9. Finds(k, p, o1)
  BY <1>2, <1>3, <1>4, <1>5, <1>6, RecvAny_Finds, RecvFrom_Finds
<1> HIDE DEF o1, rc
<1>10. Fine(k, o) /\ Finds(k, p, o)
  <2>1. CASE rc < 0
    <3>1. o.mem = k /\ o.rc = rc /\ ~(rc > 0) /\ rc # 0
      BY <1>8, <2>1 DEF Outcome
    <3> QED BY <1>4, <1>8, <3>1 DEF Fine, Finds
  <2>2. CASE ~(rc < 0)
    BY <1>8, <1>9, <2>2
  <2> QED BY <2>1, <2>2
<1> HIDE DEF o
<1>11. /\ o.rc \in Int /\ o.mem \in KernelType /\ o.mem.state = k.state /\ o.mem.pid = k.pid
       /\ o.rc <= 0 => o.mem = k
       /\ o.rc > 0 => /\ s \in Slots /\ k.state[s] = "BLOCKED" /\ StillWaiting(k, o.mem, {s})
                      /\ k.call[s] = "send" /\ k.arg[s] = k.pid[p]
  BY <1>10 DEF Fine, Sound, Finds, Waits
<1>12. Sound(r, {}) /\ Runners(r) = {}
  <2>1. <<k.call[p], SYS_RECV>> \in {<<"send", SYS_SEND>>, <<"recv", SYS_RECV>>}
    BY <1>5
  <2> QED BY <1>2, <1>4, <1>10, <2>1, Finish_Sound
<1>13. kern' = Dispatch(r)
  BY <1>1, <1>7, Served
<1>14. Returned(k, o)
  BY <1>11 DEF Returned
<1>15. Ended(kern, k, kern', o, p)
  <2>1. StillWaiting(kern, k, {}) /\ SYS_RECV \in Int
    BY <1>5, <1>8
  <2> QED BY <1>2, <1>4, <1>12, <1>13, <1>14, <2>1, MessageMoves
<1>16. /\ o.rc < 0 => StillWaiting(kern, kern', {})
       /\ o.rc = 0 => /\ StillWaiting(kern, kern', {p}) /\ kern'.state[p] = "BLOCKED"
                      /\ kern'.call[p] = k.call[p] /\ kern'.arg[p] = k.arg[p]
                      /\ kern'.pid[p] = k.pid[p] /\ kern'.buf[p] = k.buf[p]
       /\ o.rc > 0 => /\ StillWaiting(kern, kern', {s}) /\ kern'.state[s] # "BLOCKED"
                      /\ kern'.ret[p] = o.rc /\ kern'.ret[s] = o.rc
  BY <1>15 DEF Ended
<1> HIDE DEF s
<1>17. CASE o.rc < 0
  <2>1. Talking(kern')
    BY <1>16, <1>17, FewerTalk
  <2> QED BY <1>16, <1>17, <2>1 DEF StillWaiting, Waits
<1>18. CASE o.rc = 0
  <2>1. \A t \in Slots : kern.state[t] = "BLOCKED" => kern.pid[t] # 0 /\ Slot(kern.pid[t]) = t
    <3>1. \A t \in Slots : kern.pid[t] \in Nat
      BY <1>2, PidIsNat
    <3> QED BY <1>2, <3>1 DEF Facts
  <2>2. \A t \in Slots : Waits(kern, t, "send") /\ kern.arg[t] = kern.pid[p] => f # kern.pid[t]
    <3>1. LET u == Slot(k.arg[p])
          IN  k.arg[p] = 0 \/ ~(Waits(k, u, "send") /\ k.arg[u] = k.pid[p])
      BY <1>10, <1>18 DEF Finds
    <3>2. \A t \in Slots : Waits(kern, t, "send") => /\ t # p /\ Waits(k, t, "send")
                                                     /\ k.arg[t] = kern.arg[t]
      BY <1>2, <1>5 DEF Waits
    <3> QED BY <1>5, <2>1, <3>1, <3>2 DEF Waits
  <2>3. Talking(kern')
    BY <1>2, <1>3, <1>5, <1>16, <1>18, <2>2, OneMoreTalks
  <2> QED BY <1>2, <1>16, <1>18, <2>3 DEF StillWaiting, Waits
<1>19. CASE o.rc > 0
  <2>1. Talking(kern')
    BY <1>16, <1>19, FewerTalk
  <2>2. s # p /\ s \in Slots /\ kern.arg[s] = kern.pid[p]
    BY <1>2, <1>5, <1>11, <1>19
  <2> QED BY <1>16, <1>19, <2>1, <2>2 DEF StillWaiting, Waits, p
<1> QED BY <1>11, <1>17, <1>18, <1>19

-----------------------------------------------------------------------------
(* Boot has nobody blocked.                                                *)
LEMMA BootTalks == Talking(Boot)
<1>1. \A s \in Slots : Boot.state[s] # "BLOCKED"
  BY DEF Boot
<1> HIDE DEF Boot
<1> QED BY <1>1 DEF Talking, Called, NoMissed, NoCycle, Waits

(* Every request but a send or a receive disturbs nobody who is blocked.   *)
LEMMA OthersAreQuiet ==
  ASSUME Workload, Handed(kern), Handed(kern)',
         Create \/ Yield \/ Stop \/ GetPid \/ Timer \/ (\E ms \in Naps : Nap(ms)) \/ UNCHANGED kern
  PROVE  StillWaiting(kern, kern', {})
<1>1. CASE Create
  BY <1>1, Create_Waiting
<1>2. CASE Yield
  BY <1>2, Yield_Waiting
<1>3. CASE Stop
  BY <1>3, Stop_Waiting
<1>4. CASE GetPid
  BY <1>4, GetPid_Waiting
<1>5. CASE Timer
  BY <1>5, Timer_Waiting
<1>6. CASE \E ms \in Naps : Nap(ms)
  BY <1>6, Nap_Waiting
<1>7. CASE UNCHANGED kern
  BY <1>7 DEF StillWaiting
<1> QED BY <1>1, <1>2, <1>3, <1>4, <1>5, <1>6, <1>7

(* What one step does to the processes that are blocked: who waits still   *)
(* waits for something that can come, and a sender is released either by   *)
(* the receive of the process it sends to, or because its destination is a *)
(* pid that points at a zero in memory.                                    *)
LEMMA NextTalks ==
  ASSUME Workload, 0 \notin MsgLens, Handed(kern), Handed(kern)', Talking(kern), [Next]_kern
  PROVE  /\ Talking(kern')
         /\ \A s \in Slots :
               Waits(kern, s, "send") /\ kern'.state[s] # "BLOCKED" =>
                  \/ kern.arg[s] \in ZeroWords
                  \/ /\ kern.pid[Running] = kern.arg[s]
                     /\ kern'.ret[s] > 0 /\ kern'.ret[s] = kern'.ret[Running]
<1>1. CASE Create \/ Yield \/ Stop \/ GetPid \/ Timer \/ (\E ms \in Naps : Nap(ms)) \/ UNCHANGED kern
  <2>1. StillWaiting(kern, kern', {})
    BY <1>1, OthersAreQuiet
  <2>2. Talking(kern')
    BY <2>1, FewerTalk
  <2> QED BY <2>1, <2>2 DEF StillWaiting, Waits
<1>2. ASSUME NEW d \in 0 .. MaxPid, NEW buf \in BufLens, NEW msg \in MsgLens, NEW ok \in Buffers,
             SendTo(d, buf, msg, ok)
      PROVE  /\ Talking(kern')
             /\ \A s \in Slots : Waits(kern, s, "send") /\ kern'.state[s] # "BLOCKED"
                                    => kern.arg[s] \in ZeroWords
  BY <1>2, SendTalks
<1>3. ASSUME NEW f \in 0 .. MaxPid, NEW buf \in BufLens, NEW ok \in Buffers, Receive(f, buf, ok)
      PROVE  /\ Talking(kern')
             /\ \A s \in Slots : Waits(kern, s, "send") /\ kern'.state[s] # "BLOCKED" =>
                   /\ kern.pid[Running] = kern.arg[s]
                   /\ kern'.ret[s] > 0 /\ kern'.ret[s] = kern'.ret[Running]
  BY <1>3, ReceiveTalks
<1> QED BY <1>1, <1>2, <1>3 DEF Next

(* Whoever is blocked in a send or a receive waits for something that can  *)
(* still come, whatever requests and interrupts came before (disp.c:139,   *)
(* disp.c:144).                                                            *)
THEOREM RendezvousHold ==
  ASSUME Workload, 0 \notin MsgLens
  PROVE  Spec => [](Handed(kern) /\ Talking(kern))
<1>1. Init => Handed(kern) /\ Talking(kern)
  BY BootHanded, BootTalks DEF Init
<1>2. (Handed(kern) /\ Talking(kern)) /\ [Next]_kern => (Handed(kern) /\ Talking(kern))'
  <2>1. SUFFICES ASSUME Handed(kern), Talking(kern), [Next]_kern
                 PROVE  Handed(kern)' /\ Talking(kern)'
    OBVIOUS
  <2>2. Handed(kern)'
    BY <2>1, NextHands
  <2>3. Talking(kern')
    BY <2>1, <2>2, NextTalks
  <2> QED BY <2>2, <2>3 DEF Talking, Called, NoMissed, NoCycle, Waits
<1> QED BY <1>1, <1>2, PTL DEF Spec

(* A sender and the receiver that named it never wait for each other: each *)
(* of send() and recv() looks whether the other is there before it blocks. *)
THEOREM NoRendezvousMissed ==
  ASSUME Workload, 0 \notin MsgLens PROVE Spec => []NoMissedRendezvous
<1>1. Talking(kern) => NoMissedRendezvous
  BY DEF Talking, NoMissed, Waits, NoMissedRendezvous, Blocked
<1> QED BY <1>1, RendezvousHold, PTL

(* Senders never wait for each other in a cycle, of two processes or of    *)
(* more: send() does not block on a destination that is blocked.           *)
THEOREM NoSendersInCycle ==
  ASSUME Workload, 0 \notin MsgLens PROVE Spec => []NoSendCycle
<1>1. Talking(kern) => NoSendCycle
  BY DEF Talking, NoCycle, Waits, NoSendCycle, Blocked
<1> QED BY <1>1, RendezvousHold, PTL

(* What SendEndsAtItsReceiver says of one sender.                          *)
Released(s) ==
  \/ kern.arg[s] \in ZeroWords
  \/ /\ kern.pid[Running] = kern.arg[s]
     /\ kern'.ret[s] > 0 /\ kern'.ret[s] = kern'.ret[Running]

(* A process blocked in a send goes on only when the process it sends to   *)
(* receives from it, and both calls return the number of bytes copied, or  *)
(* when send() takes the word at the address that the pid it sends to is   *)
(* for the pid of a receive, and that word is zero (msg.c:123).            *)
THEOREM SendersReleased ==
  ASSUME Workload, 0 \notin MsgLens PROVE Spec => SendEndsAtItsReceiver
<1> DEFINE Ends == \A s \in Slots : Blocked(s, "send") /\ kern'.state[s] # "BLOCKED" => Released(s)
<1>1. (Handed(kern) /\ Talking(kern)) /\ (Handed(kern) /\ Talking(kern))' /\ [Next]_kern
        => [Ends]_kern
  <2>1. SUFFICES ASSUME Handed(kern), Talking(kern), Handed(kern)', [Next]_kern,
                        NEW s \in Slots, Blocked(s, "send"), kern'.state[s] # "BLOCKED"
                 PROVE  Released(s)
    OBVIOUS
  <2>2. Waits(kern, s, "send")
    BY <2>1 DEF Blocked, Waits
  <2> QED BY <2>1, <2>2, NextTalks DEF Released
<1>2. Spec => [][Ends]_kern
  <2> HIDE DEF Ends
  <2> QED BY <1>1, RendezvousHold, PTL DEF Spec
<1> QED BY <1>2 DEF SendEndsAtItsReceiver, Released
==============================================================================
