----------------------------- MODULE SchedProofs -----------------------------
(***************************************************************************)
(* The time of the sleepers, and the order of those that are ready.        *)
(*                                                                         *)
(* The ticks of sleep.c are differences; the proofs of the first part say  *)
(* what they are differences of.  The second part is the dispatcher, which *)
(* implements RoundRobin: between two calls of next() the ready queue only *)
(* grows at its end (QueueKept); next() takes its first process            *)
(* (Dispatch_Order).                                                       *)
(***************************************************************************)
EXTENDS KernelLists, SleepClock, KernelRR

-----------------------------------------------------------------------------
(* The time of the sleepers.                                               *)

(* The sleepers, their order and their ticks are the same.                 *)
SleepSame(k, r) ==
  /\ r.headsleeper = k.headsleeper /\ r.sleepticks = k.sleepticks
  /\ \A s \in Slots : /\ r.state[s] = "SLEEP" <=> k.state[s] = "SLEEP"
                      /\ k.state[s] = "SLEEP" => r.next[s] = k.next[s]

(* Over two steps.                                                         *)
LEMMA SleepTwice ==
  ASSUME NEW k, NEW m, NEW r, SleepSame(k, m), SleepSame(m, r)
  PROVE  SleepSame(k, r)
BY DEF SleepSame

(* ready() of a process that is not asleep.                                *)
LEMMA ready_Sleep ==
  ASSUME NEW k, NEW X, Sound(k, X), NEW p, Loose(k, p)
  PROVE  SleepSame(k, ready(k, p))
<1> DEFINE r == ready(k, p)
<1>1. k \in KernelType /\ Facts(k, X) /\ p \in Pcbs /\ p \in Slots /\ k.state[p] \notin {"READY", "SLEEP"}
      /\ k.tail \in Ptr
  BY Constants DEF Sound, Loose, KernelType
<1>2. r = IF p = IDLE THEN [k EXCEPT !.next[p] = NULL, !.state[p] = "READY"]
          ELSE IF k.tail # NULL
          THEN [k EXCEPT !.next[p] = NULL, !.state[p] = "READY", !.next[k.tail] = p, !.tail = p]
          ELSE [k EXCEPT !.next[p] = NULL, !.state[p] = "READY", !.que["head"] = p, !.tail = p]
  BY <1>1, readyIs
<1>3. \A s \in Slots : s # p /\ k.state[s] # "READY" => r.next[s] = k.next[s]
  BY ready_Links
<1> HIDE DEF r
<1>4. r.headsleeper = k.headsleeper /\ r.sleepticks = k.sleepticks
      /\ r.state = [k.state EXCEPT ![p] = "READY"]
  BY <1>1, <1>2 DEF KernelType
<1>5. \A s \in Slots : r.state[s] = IF s = p THEN "READY" ELSE k.state[s]
  BY <1>1, <1>4 DEF KernelType
<1>6. SleepSame(k, r)
  BY <1>1, <1>3, <1>4, <1>5 DEF SleepSame
<1> QED BY <1>6 DEF r

(* The head of the ready queue is not asleep.                              *)
LEMMA Pop_Sleep ==
  ASSUME NEW k, NEW X, Sound(k, X), k.que["head"] # NULL
  PROVE  SleepSame(k, Pop(k))
<1> DEFINE r == Pop(k)
           h == k.que["head"]
<1>1. k \in KernelType /\ h \in Pcbs /\ h \in Slots /\ k.state[h] = "READY"
  BY Pop_Lists, Constants DEF Sound
<1>2. /\ r.headsleeper = k.headsleeper /\ r.sleepticks = k.sleepticks /\ r.state = k.state
      /\ r.next = [k.next EXCEPT ![h] = NULL]
  BY <1>1 DEF Pop, KernelType
<1>3. \A s \in Slots : s # h => r.next[s] = k.next[s]
  BY <1>1, <1>2 DEF KernelType
<1> HIDE DEF r, h
<1>4. SleepSame(k, r)
  BY <1>1, <1>2, <1>3 DEF SleepSame
<1> QED BY <1>4 DEF r

(* Nor is a process that gets the CPU.                                     *)
LEMMA Run_Sleep ==
  ASSUME NEW k \in KernelType, NEW p \in Pcbs, k.state[p] # "SLEEP"
  PROVE  SleepSame(k, Run(k, p))
<1> DEFINE r == Run(k, p)
<1>1. /\ r.headsleeper = k.headsleeper /\ r.sleepticks = k.sleepticks /\ r.next = k.next
      /\ r.state = [k.state EXCEPT ![p] = "RUNNING"]
  BY DEF Run, KernelType
<1>2. \A s \in Slots : r.state[s] = IF s = p THEN "RUNNING" ELSE k.state[s]
  BY <1>1 DEF KernelType
<1> HIDE DEF r
<1>3. SleepSame(k, r)
  BY <1>1, <1>2 DEF SleepSame
<1> QED BY <1>3 DEF r

(* The head of the ready queue gets the CPU.                               *)
LEMMA PopRun_Sleep ==
  ASSUME NEW k, NEW X, Sound(k, X), k.que["head"] # NULL
  PROVE  SleepSame(k, Run(Pop(k), k.que["head"]))
<1> DEFINE m == Pop(k)
           h == k.que["head"]
<1>1. k \in KernelType /\ h \in Pcbs /\ k.state[h] = "READY"
  BY Pop_Lists DEF Sound
<1>2. SleepSame(k, m) /\ m \in KernelType /\ m.state = k.state
  BY <1>1, Pop_Sleep, Pop_Fields
<1> HIDE DEF m
<1>3. SleepSame(m, Run(m, h))
  BY <1>1, <1>2, Run_Sleep
<1>4. SleepSame(k, Run(m, h))
  BY <1>2, <1>3, SleepTwice
<1> QED BY <1>4 DEF m

(* next() wakes nobody.                                                    *)
LEMMA Dispatch_Sleep ==
  ASSUME NEW k, Sound(k, {}), Runners(k) = {}
  PROVE  SleepSame(k, Dispatch(k))
<1> DEFINE h == k.que["head"]
           q == k.que["running"]
<1>1. k \in KernelType /\ Facts(k, {}) /\ IDLE \in Pcbs /\ IDLE \in Slots /\ NULL \notin Slots
      /\ Pcbs \subseteq Slots /\ q \in Pcbs
  BY Constants DEF Sound, Facts
<1>2. k.state[IDLE] = "READY"
  BY <1>1 DEF Facts, Runners
<1>3. CASE h = NULL
  <2>1. Dispatch(k) = Run(k, IDLE)
    BY <1>3 DEF Dispatch
  <2> QED BY <1>1, <1>2, <2>1, Run_Sleep
<1>4. CASE h # NULL
  <2> DEFINE m == Pop(k)
  <2>1. h \in Pcbs /\ k.state[h] = "READY" /\ Aligned(k, h) /\ (k.pid[h] = IDLE => h = IDLE)
        /\ (k.pid[q] = IDLE => q = IDLE) /\ k.pid[IDLE] = IDLE
    BY <1>1, <1>4, Pop_Lists, SoundAligned DEF Facts
  <2>2. SleepSame(k, Run(m, h))
    BY <1>4, PopRun_Sleep
  <2>3. SleepSame(k, m) /\ m.state = k.state /\ m \in KernelType
    BY <1>1, <1>4, <2>1, Pop_Sleep, Pop_Fields
  <2>4. CASE h = IDLE
    <3> DEFINE s == m.que["head"]
    <3>1. Dispatch(k) = IF s = NULL THEN Run(m, h) ELSE Run(Pop(m), s)
      BY <1>4, <2>1, <2>4 DEF Dispatch
    <3>2. Sound(m, {})
      BY <2>4, PopIdleSound
    <3> HIDE DEF m
    <3>3. s # NULL => SleepSame(m, Run(Pop(m), s))
      BY <3>2, PopRun_Sleep
    <3>4. s # NULL => SleepSame(k, Run(Pop(m), s))
      BY <2>3, <3>3, SleepTwice
    <3> QED BY <2>2, <3>1, <3>4
  <2>5. CASE h # IDLE
    <3> DEFINE w == [m EXCEPT !.state[q] = "READY"]
    <3>1. Dispatch(k) = IF k.pid[q] = IDLE THEN Run(w, h) ELSE Run(m, h)
      BY <1>4, <2>1, <2>5 DEF Dispatch
    <3> HIDE DEF m
    <3>2. q = IDLE => w = m
      BY <1>1, <1>2, <2>3 DEF KernelType
    <3> QED BY <2>1, <2>2, <3>1, <3>2
  <2> QED BY <2>4, <2>5
<1> QED BY <1>3, <1>4

(* A field that is not about sleepers is set.                              *)
LEMMA Set_Sleep ==
  ASSUME NEW k \in KernelType, NEW p, NEW n
  PROVE  SleepSame(k, [k EXCEPT !.ret[p] = n]) /\ SleepSame(k, [k EXCEPT !.pid[p] = n])
BY DEF SleepSame, KernelType

-----------------------------------------------------------------------------
(* The sleepers' ticks encode the counts of due: the first sleeper's ticks *)
(* are its count, every other one's the difference to the sleeper before.  *)
Encodes(k, due) ==
  /\ k.headsleeper # NULL => k.sleepticks[k.headsleeper] = due[k.headsleeper]
  /\ \A s \in Pcbs : k.state[s] = "SLEEP" /\ k.next[s] # NULL =>
        k.sleepticks[k.next[s]] = due[k.next[s]] - due[s]

(* An operation that leaves the sleepers alone leaves their time alone.    *)
LEMMA EncodesSame ==
  ASSUME NEW k, NEW r, SleepSame(k, r), NEW due, Encodes(k, due)
  PROVE  Encodes(r, due)
BY Constants DEF SleepSame, Encodes

(* Walking along the list of sleepers, at each pcb and the one behind it.  *)
LEMMA SleepersInOrder ==
  ASSUME NEW next, NEW h, NEW g, List(next, h, g), NEW at, at = Chain(next, h)
  PROVE  /\ \A n \in 0 .. MAX_PROC : at[n] # NULL => at[n] \in On(g)
         /\ at[0] = h
         /\ \A n \in 1 .. MAX_PROC : at[n] # NULL => at[n - 1] # NULL /\ at[n] = next[at[n - 1]]
<1>1. \A n \in 0 .. MAX_PROC : at[n] = IF n < Len(g) THEN g[n + 1] ELSE NULL
  BY ListChain
<1>2. Len(g) \in Nat /\ MAX_PROC \in Nat /\ On(g) \subseteq Pcbs /\ NULL \notin Pcbs
  BY ListFacts, Constants
<1>3. \A n \in 0 .. MAX_PROC : at[n] # NULL => at[n] \in On(g)
  <2> TAKE n \in 0 .. MAX_PROC
  <2>1. n < Len(g) => n + 1 \in 1 .. Len(g)
    BY <1>2
  <2> QED BY <1>1, <2>1 DEF On
<1>4. at[0] = h /\ \A n \in 1 .. MAX_PROC : at[n] = Step(next, at[n - 1])
  BY ChainIs
<1>5. \A n \in 1 .. MAX_PROC : at[n] # NULL => at[n - 1] # NULL /\ at[n] = next[at[n - 1]]
  BY <1>2, <1>4 DEF Step
<1> QED BY <1>3, <1>4, <1>5

(* The accumulator of sleep() is the count of the pcb it has come to.      *)
LEMMA AccumulatedIsDue ==
  ASSUME NEW k, NEW g, List(k.next, k.headsleeper, g), \A s \in On(g) : k.state[s] = "SLEEP",
         NEW due, Encodes(k, due), \A s \in On(g) : due[s] \in Int,
         NEW at, at = Chain(k.next, k.headsleeper), NEW acc, acc = Accumulated(k, at)
  PROVE  \A n \in 0 .. MAX_PROC : at[n] # NULL => acc[n] = due[at[n]]
<1> DEFINE Bad == {n \in 0 .. MAX_PROC : at[n] # NULL /\ acc[n] # due[at[n]]}
<1>1. SUFFICES ASSUME Bad # {} PROVE FALSE
  OBVIOUS
<1>2. PICK n \in Bad : \A i \in Bad : n <= i
  <2>1. Bad \subseteq Nat
    OBVIOUS
  <2> HIDE DEF Bad
  <2> QED BY <1>1, <2>1, HasMinimum
<1>3. /\ \A i \in 0 .. MAX_PROC : at[i] # NULL => at[i] \in On(g)
      /\ at[0] = k.headsleeper
      /\ \A i \in 1 .. MAX_PROC : at[i] # NULL => at[i - 1] # NULL /\ at[i] = k.next[at[i - 1]]
  BY SleepersInOrder
<1>4. \A i \in 0 .. MAX_PROC :
        acc[i] = IF at[i] = NULL THEN IF i = 0 THEN 0 ELSE acc[i - 1]
                 ELSE k.sleepticks[at[i]] + (IF i = 0 THEN 0 ELSE acc[i - 1])
  BY AccumulatedIs
<1>5. On(g) \subseteq Pcbs /\ MAX_PROC \in Nat
  BY ListFacts, Constants
<1>6. n \in 0 .. MAX_PROC /\ at[n] # NULL /\ acc[n] # due[at[n]] /\ due[at[n]] \in Int
  BY <1>2, <1>3
<1>7. CASE n = 0
  <2>1. k.sleepticks[at[0]] = due[at[0]]
    BY <1>3, <1>6, <1>7 DEF Encodes
  <2>2. acc[0] = k.sleepticks[at[0]] + 0
    BY <1>4, <1>6, <1>7
  <2> QED BY <1>6, <1>7, <2>1, <2>2
<1>8. CASE n # 0
  <2>1. n \in 1 .. MAX_PROC /\ n - 1 \in 0 .. MAX_PROC /\ ~(n <= n - 1)
    BY <1>5, <1>6, <1>8
  <2>2. at[n - 1] # NULL /\ at[n] = k.next[at[n - 1]] /\ at[n - 1] \in On(g)
    BY <1>3, <1>6, <2>1
  <2>3. acc[n - 1] = due[at[n - 1]] /\ due[at[n - 1]] \in Int
    BY <1>2, <2>1, <2>2
  <2>4. k.sleepticks[at[n]] = due[at[n]] - due[at[n - 1]]
    BY <1>5, <1>6, <2>2 DEF Encodes
  <2>5. acc[n] = k.sleepticks[at[n]] + acc[n - 1]
    BY <1>4, <1>6, <1>8
  <2> QED BY <1>6, <2>3, <2>4, <2>5
<1> QED BY <1>7, <1>8

(* No sleeper's count is negative: the ticks are not.                      *)
LEMMA DueIsNat ==
  ASSUME NEW k \in KernelType, NEW g, SleepersAre(k, g),
         NEW due, Encodes(k, due), \A s \in On(g) : due[s] \in Int
  PROVE  \A s \in On(g) : due[s] \in Nat
<1> DEFINE at  == Chain(k.next, k.headsleeper)
           acc == Accumulated(k, at)
<1>1. List(k.next, k.headsleeper, g) /\ \A s \in On(g) : k.state[s] = "SLEEP"
  <2>1. On(g) \subseteq Pcbs
    BY ListFacts DEF SleepersAre
  <2> QED BY <2>1 DEF SleepersAre
<1>2. \A n \in 0 .. MAX_PROC : at[n] # NULL => acc[n] = due[at[n]]
  <2>1. at = Chain(k.next, k.headsleeper) /\ acc = Accumulated(k, at)
    OBVIOUS
  <2> HIDE DEF at, acc
  <2> QED BY <1>1, <2>1, AccumulatedIsDue
<1>3. \A n \in 0 .. MAX_PROC : at[n] = IF n < Len(g) THEN g[n + 1] ELSE NULL
  BY <1>1, ListChain
<1>4. Len(g) \in Nat /\ Len(g) < MAX_PROC /\ On(g) \subseteq Pcbs /\ NULL \notin Pcbs /\ Pcbs \subseteq Slots
      /\ MAX_PROC \in Nat
  BY <1>1, ListFacts, ListIsShort, Constants
<1>5. \A n \in 0 .. MAX_PROC : acc[n] \in Nat
  <2>1. \A n \in 0 .. MAX_PROC : at[n] = NULL \/ at[n] \in Slots
    BY <1>1, <1>4, SleepersInOrder
  <2>2. k.sleepticks \in [Slots -> Ticks]
    BY DEF KernelType
  <2> QED BY <2>1, <2>2, AccumulatedIsNat
<1> HIDE DEF at, acc
<1>6. ASSUME NEW i \in 1 .. Len(g) PROVE due[g[i]] \in Nat
  <2>1. i - 1 \in 0 .. MAX_PROC /\ i - 1 < Len(g) /\ (i - 1) + 1 = i
    BY <1>4
  <2>2. at[i - 1] = g[i] /\ g[i] # NULL
    BY <1>3, <1>4, <2>1 DEF On
  <2> QED BY <1>2, <1>5, <2>1, <2>2
<1> QED BY <1>6 DEF On

-----------------------------------------------------------------------------
(* sleep() gives the caller the count it asked for, and leaves the others  *)
(* theirs: the count of the pcb behind the caller is not less.             *)
LEMMA InFront_Encodes ==
  ASSUME NEW k \in KernelType, NEW g, List(k.next, k.headsleeper, g),
         \A s \in Pcbs : s \in On(g) => k.state[s] = "SLEEP",
         NEW p \in Pcbs, p \notin On(g), \A s \in Pcbs : k.state[s] = "SLEEP" => s = p \/ s \in On(g),
         NEW due, Encodes(k, due), \A s \in On(g) : due[s] \in Int,
         NEW t \in Ticks, k.sleepticks[p] = t, due[p] = t,
         NEW h, h = k.headsleeper, h = NULL \/ ~(k.sleepticks[h] < t)
  PROVE  Encodes(InFront(k, p, h, t), due)
<1> DEFINE r == InFront(k, p, h, t)
<1>1. /\ r.headsleeper = p /\ r.state = k.state
      /\ r.sleepticks = Shorten(k.sleepticks, h, t)
      /\ r.next = [k.next EXCEPT ![p] = h]
  BY DEF InFront, KernelType
<1> HIDE DEF r
<1>2. /\ Pcbs \subseteq Slots /\ NULL \notin Pcbs /\ On(g) \subseteq Pcbs /\ (h # NULL => h \in On(g))
      /\ k.sleepticks \in [Slots -> Ticks] /\ k.next \in [Slots -> Ptr]
      /\ \A s \in Pcbs : s # p => r.next[s] = k.next[s]
  <2>1. /\ Pcbs \subseteq Slots /\ NULL \notin Pcbs /\ On(g) \subseteq Pcbs /\ (h # NULL => h \in On(g))
    BY ListFacts, Constants
  <2>2. k.sleepticks \in [Slots -> Ticks] /\ k.next \in [Slots -> Ptr]
    BY DEF KernelType
  <2> QED BY <1>1, <2>1, <2>2
<1>3. r.next[p] = h
  BY <1>1, <1>2
<1>4. \A s \in On(g) : k.next[s] # NULL => k.next[s] \in On(g) /\ k.next[s] # h
  BY ListNext
<1>5. \A s \in Pcbs : s # h => r.sleepticks[s] = k.sleepticks[s]
  BY <1>1, <1>2 DEF Shorten
<1>6. h # NULL => r.sleepticks[h] = due[h] - due[p]
  <2> HAVE h # NULL
  <2>1. k.sleepticks[h] = due[h] /\ k.sleepticks[h] \in Ticks /\ h \in Pcbs /\ h \in Slots
    BY <1>2 DEF Encodes
  <2>2. Minus(k.sleepticks[h], t) = k.sleepticks[h] - t
    BY <2>1, SleepListAssumption DEF Minus, Ticks
  <2> QED BY <1>1, <1>2, <2>1, <2>2 DEF Shorten
<1>7. h # p
  BY <1>2
<1>8. r.sleepticks[p] = due[p]
  BY <1>5, <1>7
<1>9. ASSUME NEW s \in Pcbs, r.state[s] = "SLEEP", r.next[s] # NULL
      PROVE  r.sleepticks[r.next[s]] = due[r.next[s]] - due[s]
  <2>1. CASE s = p
    BY <1>3, <1>6, <1>9, <2>1
  <2>2. CASE s # p
    <3>1. s \in On(g) /\ r.next[s] = k.next[s] /\ k.next[s] \in On(g) /\ k.next[s] # h
      BY <1>1, <1>2, <1>4, <1>9, <2>2
    <3>2. k.sleepticks[k.next[s]] = due[k.next[s]] - due[s]
      BY <1>1, <1>9, <3>1 DEF Encodes
    <3> QED BY <1>2, <1>5, <3>1, <3>2
  <2> QED BY <2>1, <2>2
<1>10. Encodes(r, due)
  BY <1>1, <1>8, <1>9 DEF Encodes
<1> QED BY <1>10 DEF r

(* The same behind a pcb of the list.                                      *)
LEMMA Behind_Encodes ==
  ASSUME NEW k \in KernelType, NEW g, List(k.next, k.headsleeper, g),
         \A s \in Pcbs : s \in On(g) => k.state[s] = "SLEEP",
         NEW p \in Pcbs, p \notin On(g), \A s \in Pcbs : k.state[s] = "SLEEP" => s = p \/ s \in On(g),
         NEW due, Encodes(k, due), \A s \in On(g) : due[s] \in Nat,
         NEW t \in Ticks, due[p] = t,
         NEW x \in On(g), due[x] <= t, k.next[x] # NULL => due[k.next[x]] >= t,
         NEW rest, rest = Minus(t, due[x])
  PROVE  Encodes(Behind(k, p, x, rest), due)
<1> DEFINE y == k.next[x]
           r == Behind(k, p, x, rest)
           m == [k.sleepticks EXCEPT ![p] = rest]
<1>1. /\ r.headsleeper = k.headsleeper /\ r.state = k.state
      /\ r.sleepticks = Shorten(m, y, rest)
      /\ r.next = [[k.next EXCEPT ![p] = y] EXCEPT ![x] = p]
  BY DEF Behind, Between, KernelType
<1>2. /\ Pcbs \subseteq Slots /\ NULL \notin Pcbs /\ On(g) \subseteq Pcbs
      /\ x \in Pcbs /\ x # p /\ due[x] \in Nat
      /\ k.sleepticks \in [Slots -> Ticks] /\ k.next \in [Slots -> Ptr]
      /\ (k.headsleeper # NULL => k.headsleeper \in On(g))
  BY ListFacts, Constants DEF KernelType
<1>3. /\ \A s \in On(g) : k.next[s] # NULL => k.next[s] \in On(g) /\ k.next[s] # k.headsleeper
      /\ \A s, z \in On(g) : k.next[s] = k.next[z] /\ k.next[s] # NULL => s = z
  BY ListNext
<1>4. rest = t - due[x] /\ rest \in Ticks
  BY <1>2, SleepListAssumption DEF Minus, Ticks
<1>5. y = NULL \/ (y \in On(g) /\ y \in Pcbs /\ y # p /\ y # k.headsleeper)
  BY <1>2, <1>3
<1>6. r.next[p] = y /\ r.next[x] = p /\ \A s \in Pcbs : s # p /\ s # x => r.next[s] = k.next[s]
  BY <1>1, <1>2
<1> HIDE DEF r
<1>7. r.sleepticks[p] = rest /\ \A s \in Pcbs : s # p /\ s # y => r.sleepticks[s] = k.sleepticks[s]
  BY <1>1, <1>2, <1>5 DEF Shorten
<1>8. y # NULL => r.sleepticks[y] = due[y] - due[p]
  <2> HAVE y # NULL
  <2>1. k.sleepticks[y] = due[y] - due[x] /\ due[y] >= t /\ due[y] \in Nat /\ k.sleepticks[y] \in Ticks
    BY <1>2, <1>5 DEF Encodes
  <2>2. Minus(k.sleepticks[y], rest) = due[y] - t
    BY <1>2, <1>4, <2>1, SleepListAssumption DEF Minus, Ticks
  <2>3. m[y] = k.sleepticks[y] /\ m \in [Slots -> Ticks]
    BY <1>2, <1>4, <1>5
  <2>4. r.sleepticks[y] = Minus(m[y], rest)
    BY <1>1, <1>2, <1>5, <2>3 DEF Shorten
  <2> QED BY <2>2, <2>3, <2>4
<1>9. k.headsleeper # NULL => r.sleepticks[r.headsleeper] = due[r.headsleeper]
  BY <1>1, <1>2, <1>5, <1>7 DEF Encodes
<1>10. ASSUME NEW s \in Pcbs, r.state[s] = "SLEEP", r.next[s] # NULL
       PROVE  r.sleepticks[r.next[s]] = due[r.next[s]] - due[s]
  <2>1. CASE s = p
    BY <1>6, <1>8, <1>10, <2>1
  <2>2. CASE s = x
    BY <1>4, <1>6, <1>7, <2>2
  <2>3. CASE s # p /\ s # x
    <3>1. s \in On(g) /\ r.next[s] = k.next[s] /\ k.next[s] \in On(g) /\ k.next[s] # y /\ k.next[s] # p
      BY <1>1, <1>2, <1>3, <1>6, <1>10, <2>3
    <3>2. k.sleepticks[k.next[s]] = due[k.next[s]] - due[s]
      BY <1>1, <1>10, <3>1 DEF Encodes
    <3> QED BY <1>2, <1>7, <3>1, <3>2
  <2> QED BY <2>1, <2>2, <2>3
<1> HIDE DEF y
<1>11. Encodes(r, due)
  BY <1>1, <1>9, <1>10 DEF Encodes
<1> QED BY <1>11 DEF r

(* sleep(): the caller's count is the time it asked for.                   *)
LEMMA sleep_Encodes ==
  ASSUME NEW k \in KernelType, NEW p \in Pcbs, NEW ms \in Nat, NEW g, SleepersAre(k, g), p \notin On(g),
         NEW due, Encodes(k, due), \A s \in On(g) : due[s] \in Int,
         NEW e, e[p] = milliseconds_to_ticks(ms), \A s \in On(g) : e[s] = due[s]
  PROVE  Encodes(sleep(k, p, ms), e)
<1> DEFINE t   == milliseconds_to_ticks(ms)
           k1  == Napping(k, p, t)
           h   == k.headsleeper
           at  == Chain(k1.next, h)
           acc == Accumulated(k1, at)
<1>1. List(k.next, h, g) /\ (\A s \in Pcbs : s \in On(g) <=> k.state[s] = "SLEEP")
      /\ On(g) \subseteq Pcbs /\ Pcbs \subseteq Slots /\ (h # NULL => h \in On(g))
  BY ListFacts, Constants DEF SleepersAre
<1>2. /\ t \in Ticks /\ k1 \in KernelType /\ List(k1.next, h, g)
      /\ \/ /\ h = NULL \/ ~(k1.sleepticks[h] < t)
            /\ sleep(k, p, ms) = InFront(k1, p, h, t)
         \/ /\ h # NULL /\ k1.sleepticks[h] < t
            /\ \E n \in 1 .. MAX_PROC :
                  /\ at[n] = NULL \/ acc[n] >= t
                  /\ \A j \in 1 .. n - 1 : at[j] # NULL /\ acc[j] < t
                  /\ at[n - 1] \in On(g)
                  /\ sleep(k, p, ms) = Behind(k1, p, at[n - 1], Minus(t, acc[n - 1]))
  <2>1. t = milliseconds_to_ticks(ms) /\ k1 = Napping(k, p, t) /\ h = k.headsleeper
        /\ at = Chain(k1.next, h) /\ acc = Accumulated(k1, at)
    OBVIOUS
  <2> HIDE DEF at, acc, k1, t, h
  <2> QED BY <1>1, <2>1, sleep_Shape
<1>3. /\ k1.headsleeper = h /\ k1.state = [k.state EXCEPT ![p] = "SLEEP"]
      /\ k1.next = [k.next EXCEPT ![p] = NULL] /\ k1.sleepticks = [k.sleepticks EXCEPT ![p] = t]
  BY DEF Napping, KernelType
<1>4. at = Chain(k1.next, h) /\ acc = Accumulated(k1, at) /\ h = k.headsleeper
  OBVIOUS
<1>5. e[p] = t
  OBVIOUS
<1> HIDE DEF at, acc, k1, t, h
<1>6. /\ k1.state[p] = "SLEEP" /\ k1.next[p] = NULL /\ k1.sleepticks[p] = t
      /\ \A s \in Slots : s # p => /\ k1.state[s] = k.state[s] /\ k1.next[s] = k.next[s]
                                  /\ k1.sleepticks[s] = k.sleepticks[s]
  BY <1>1, <1>3 DEF KernelType
<1>7. \A s \in On(g) : s # p /\ s \in Slots /\ e[s] = due[s] /\ e[s] \in Int
  BY <1>1, <1>6
<1>8. /\ \A s \in Pcbs : s \in On(g) => k1.state[s] = "SLEEP"
      /\ \A s \in Pcbs : k1.state[s] = "SLEEP" => s = p \/ s \in On(g)
  BY <1>1, <1>6
<1>9. \A s \in On(g) : k.next[s] # NULL => k.next[s] \in On(g)
  BY <1>1, ListNext
<1>10. Encodes(k1, e)
  <2>1. h # NULL => k1.sleepticks[h] = e[h]
    BY <1>1, <1>4, <1>6, <1>7 DEF Encodes
  <2>2. ASSUME NEW s \in Pcbs, k1.state[s] = "SLEEP", k1.next[s] # NULL
        PROVE  k1.sleepticks[k1.next[s]] = e[k1.next[s]] - e[s]
    <3>1. s \in On(g) /\ k1.next[s] = k.next[s] /\ k.next[s] \in On(g) /\ k.state[s] = "SLEEP"
      BY <1>1, <1>6, <1>8, <1>9, <2>2
    <3>2. k.sleepticks[k.next[s]] = due[k.next[s]] - due[s]
      BY <2>2, <3>1 DEF Encodes
    <3> QED BY <1>6, <1>7, <3>1, <3>2
  <2> QED BY <1>3, <2>1, <2>2 DEF Encodes
<1>11. \A s \in On(g) : e[s] \in Nat
  <2>1. \A s \in On(g) : due[s] \in Nat
    BY <1>1, DueIsNat
  <2> QED BY <1>7, <2>1
<1>12. \A n \in 0 .. MAX_PROC : at[n] # NULL => acc[n] = e[at[n]]
  <2>1. List(k1.next, k1.headsleeper, g) /\ at = Chain(k1.next, k1.headsleeper)
    BY <1>2, <1>3, <1>4
  <2>2. (\A s \in On(g) : k1.state[s] = "SLEEP") /\ \A s \in On(g) : e[s] \in Int
    BY <1>1, <1>7, <1>8
  <2>3. Encodes(k1, e) /\ acc = Accumulated(k1, at)
    BY <1>4, <1>10
  <2> QED BY <2>1, <2>2, <2>3, AccumulatedIsDue
<1>13. CASE (h = NULL \/ ~(k1.sleepticks[h] < t)) /\ sleep(k, p, ms) = InFront(k1, p, h, t)
  <2>1. Encodes(InFront(k1, p, h, t), e)
    BY <1>2, <1>3, <1>5, <1>6, <1>7, <1>8, <1>10, <1>13, InFront_Encodes
  <2> QED BY <1>13, <2>1
<1>14. ASSUME h # NULL, k1.sleepticks[h] < t,
              NEW n \in 1 .. MAX_PROC, at[n] = NULL \/ acc[n] >= t,
              \A j \in 1 .. n - 1 : at[j] # NULL /\ acc[j] < t, at[n - 1] \in On(g),
              sleep(k, p, ms) = Behind(k1, p, at[n - 1], Minus(t, acc[n - 1]))
       PROVE  Encodes(sleep(k, p, ms), e)
  <2> DEFINE x == at[n - 1]
  <2>1. n - 1 \in 0 .. MAX_PROC /\ n \in 0 .. MAX_PROC /\ NULL \notin Pcbs /\ (n - 1 # 0 => n - 1 \in 1 .. n - 1)
    <3>1. n \in 1 .. MAX_PROC
      OBVIOUS
    <3>2. MAX_PROC \in Nat /\ NULL \notin Pcbs
      BY Constants
    <3> QED BY <3>1, <3>2
  <2>2. x \in On(g) /\ acc[n - 1] = e[x] /\ e[x] \in Nat /\ t \in Nat
    BY <1>1, <1>2, <1>11, <1>12, <1>14, <2>1, SleepListAssumption DEF Ticks
  <2>3. at[0] = h /\ (at[n] = Step(k1.next, x))
    BY <1>2, <1>4, ChainIs
  <2>4. e[x] <= t
    <3>1. CASE n - 1 = 0
      BY <1>3, <1>10, <1>14, <2>2, <2>3, <3>1 DEF Encodes
    <3>2. CASE n - 1 # 0
      BY <1>14, <2>1, <2>2, <3>2
    <3> QED BY <3>1, <3>2
  <2>5. k1.next[x] # NULL => e[k1.next[x]] >= t
    <3>1. at[n] = k1.next[x]
      BY <1>1, <2>2, <2>3 DEF Step
    <3> QED BY <1>12, <1>14, <2>1, <3>1
  <2>6. List(k1.next, k1.headsleeper, g) /\ sleep(k, p, ms) = Behind(k1, p, x, Minus(t, e[x]))
    BY <1>2, <1>3, <1>14, <2>2
  <2> HIDE DEF x
  <2>7. Encodes(Behind(k1, p, x, Minus(t, e[x])), e)
    <3>1. /\ k1 \in KernelType /\ List(k1.next, k1.headsleeper, g) /\ p \notin On(g) /\ Encodes(k1, e)
          /\ t \in Ticks /\ e[p] = t /\ x \in On(g) /\ e[x] <= t
          /\ (k1.next[x] # NULL => e[k1.next[x]] >= t)
      BY <1>2, <1>5, <1>6, <1>10, <2>2, <2>4, <2>5, <2>6
    <3> QED BY <1>8, <1>11, <3>1, Behind_Encodes
  <2> QED BY <2>6, <2>7
<1> QED BY <1>2, <1>13, <1>14

-----------------------------------------------------------------------------
(* The sleepers that wake() wakes have the same count, and the one behind  *)
(* them has more.                                                          *)
LEMMA wake_Due ==
  ASSUME NEW k \in KernelType, NEW g, SleepersAre(k, g), k.headsleeper # NULL,
         NEW due, Encodes(k, due), \A s \in On(g) : due[s] \in Int,
         NEW n, n = DueCount(k, Chain(k.next, k.headsleeper))
  PROVE  /\ n \in 1 .. Len(g)
         /\ \A i \in 1 .. n : due[g[i]] = due[k.headsleeper]
         /\ k.next[g[n]] # NULL => k.sleepticks[k.next[g[n]]] # 0
<1> DEFINE at  == Chain(k.next, k.headsleeper)
           Bad == {i \in 1 .. n : due[g[i]] # due[k.headsleeper]}
<1>1. List(k.next, k.headsleeper, g) /\ \A s \in Pcbs : s \in On(g) <=> k.state[s] = "SLEEP"
  BY DEF SleepersAre
<1>2. at = Chain(k.next, k.headsleeper) /\ n = DueCount(k, at)
  OBVIOUS
<1> HIDE DEF at
<1>3. n \in 1 .. Len(g) /\ \A i \in 0 .. n - 1 : at[i] = g[i + 1]
  BY <1>1, <1>2, wake_Which
<1>4. /\ \A i \in 1 .. n - 1 : at[i] # NULL /\ k.sleepticks[at[i]] = 0
      /\ n = MAX_PROC \/ at[n] = NULL \/ k.sleepticks[at[n]] # 0
  BY <1>2, DueCountInRange
<1>5. Len(g) \in Nat /\ Len(g) < MAX_PROC /\ MAX_PROC \in Nat /\ On(g) \subseteq Pcbs
      /\ k.headsleeper = g[1] /\ n \in Nat
  <2>1. Len(g) \in Nat /\ Len(g) < MAX_PROC /\ MAX_PROC \in Nat /\ On(g) \subseteq Pcbs
    BY <1>1, ListFacts, ListIsShort, Constants
  <2>2. k.headsleeper = g[1]
    BY <1>1, ListFacts
  <2> QED BY <1>3, <2>1, <2>2
<1>6. \A i \in 1 .. Len(g) : k.next[g[i]] = IF i = Len(g) THEN NULL ELSE g[i + 1]
  BY <1>1 DEF List
<1>7. \A i \in 1 .. Len(g) : g[i] \in On(g) /\ g[i] \in Pcbs /\ g[i] # NULL /\ due[g[i]] \in Int
  BY <1>5, Constants DEF On
<1>8. Bad = {}
  <2>1. SUFFICES ASSUME Bad # {} PROVE FALSE
    OBVIOUS
  <2>2. PICK i \in Bad : \A j \in Bad : i <= j
    <3>1. Bad \subseteq Nat
      BY <1>5
    <3> HIDE DEF Bad
    <3> QED BY <2>1, <3>1, HasMinimum
  <2>3. i \in 1 .. n /\ due[g[i]] # due[k.headsleeper]
    BY <2>2
  <2>4. i # 1
    BY <1>5, <2>3
  <2> DEFINE j == i - 1
  <2>5. j \in 1 .. n /\ j \in 1 .. n - 1 /\ j \in 0 .. n - 1 /\ ~(i <= j) /\ j + 1 = i
    BY <1>5, <2>3, <2>4
  <2>6. due[g[j]] = due[k.headsleeper]
    BY <2>2, <2>5
  <2>7. j \in 1 .. Len(g) /\ i \in 1 .. Len(g) /\ j # Len(g)
    BY <1>3, <1>5, <2>3, <2>5
  <2>8. k.next[g[j]] = g[i] /\ k.sleepticks[g[i]] = 0
    BY <1>3, <1>4, <1>6, <2>5, <2>7
  <2> HIDE DEF j
  <2>9. k.sleepticks[g[i]] = due[g[i]] - due[g[j]]
    BY <1>1, <1>7, <2>7, <2>8 DEF Encodes
  <2>10. due[g[i]] \in Int /\ due[g[j]] \in Int
    BY <1>7, <2>7
  <2> QED BY <2>3, <2>6, <2>8, <2>9, <2>10
<1>9. k.next[g[n]] # NULL => k.sleepticks[k.next[g[n]]] # 0
  <2> HAVE k.next[g[n]] # NULL
  <2>1. n < Len(g) /\ k.next[g[n]] = g[n + 1] /\ n \in 0 .. MAX_PROC
    BY <1>3, <1>5, <1>6
  <2>2. at[n] = g[n + 1]
    BY <1>1, <1>2, <2>1, ListChain
  <2>3. n + 1 \in 1 .. Len(g)
    BY <1>5, <2>1
  <2> QED BY <1>4, <1>5, <1>7, <2>1, <2>2, <2>3
<1> QED BY <1>3, <1>8, <1>9

(* The first n sleepers of a list, and what is behind them.                *)
Front(g, n) == {g[i] : i \in 1 .. n}

(* next leads from the ones behind to ones behind.                         *)
LEMMA Remaining ==
  ASSUME NEW next, NEW q, NEW g, List(next, q, g), NEW n \in 1 .. Len(g)
  PROVE  /\ q \in Front(g, n) /\ g[n] \in Front(g, n)
         /\ next[g[n]] # NULL => next[g[n]] \in On(g) /\ next[g[n]] \notin Front(g, n)
         /\ \A s \in On(g) : s \notin Front(g, n) /\ next[s] # NULL =>
                              next[s] \in On(g) /\ next[s] \notin Front(g, n)
<1>1. Len(g) \in Nat /\ n \in Nat /\ q = g[1]
  BY ListFacts
<1>2. /\ \A i \in 1 .. Len(g) : next[g[i]] = IF i = Len(g) THEN NULL ELSE g[i + 1]
      /\ \A i, j \in 1 .. Len(g) : g[i] = g[j] => i = j
  BY DEF List
<1>3. ASSUME NEW i \in 1 .. Len(g), ~(i < n), next[g[i]] # NULL
      PROVE  next[g[i]] \in On(g) /\ next[g[i]] \notin Front(g, n)
  <2>1. i + 1 \in 1 .. Len(g) /\ next[g[i]] = g[i + 1] /\ i + 1 \notin 1 .. n
    BY <1>1, <1>2, <1>3
  <2>2. g[i + 1] \notin Front(g, n)
    <3>1. \A j \in 1 .. n : j \in 1 .. Len(g) /\ j # i + 1
      BY <1>1, <2>1
    <3> QED BY <1>2, <2>1, <3>1 DEF Front
  <2> QED BY <2>1, <2>2 DEF On
<1>4. ASSUME NEW s \in On(g), s \notin Front(g, n), next[s] # NULL
      PROVE  next[s] \in On(g) /\ next[s] \notin Front(g, n)
  <2>1. PICK i \in 1 .. Len(g) : s = g[i]
    BY DEF On
  <2>2. ~(i < n)
    <3>1. i < n => i \in 1 .. n
      BY <1>1
    <3> QED BY <1>4, <2>1, <3>1 DEF Front
  <2> QED BY <1>3, <1>4, <2>1, <2>2
<1>5. n \in 1 .. Len(g) /\ ~(n < n) /\ 1 \in 1 .. n /\ n \in 1 .. n
  BY <1>1
<1> QED BY <1>1, <1>3, <1>4, <1>5 DEF Front

(* The tail of the ready queue is not asleep.                              *)
LEMMA TailIsAwake ==
  ASSUME NEW k, Handed(k), NEW g, SleepersAre(k, g)
  PROVE  (k.tail = NULL \/ k.tail \in Slots) /\ k.tail \notin On(g)
<1>1. PICK f, e, b, d : Lists(k, f, e, b, d)
  BY DEF Handed, Sound
<1>2. \A s \in On(f) : s \in Pcbs /\ k.state[s] = "READY"
  BY <1>1, Disjoint, Constants
<1>3. List(k.next, k.que["head"], f) /\ k.tail = IF Len(f) = 0 THEN NULL ELSE Last(f)
  BY <1>1 DEF Lists, ReadyIs
<1>4. k.tail = NULL \/ (k.tail \in Pcbs /\ k.state[k.tail] = "READY")
  BY <1>2, <1>3, ListFacts
<1>5. \A s \in On(g) : s \in Pcbs /\ k.state[s] = "SLEEP"
  <2>1. On(g) \subseteq Pcbs
    BY ListFacts DEF SleepersAre
  <2> QED BY <2>1 DEF SleepersAre
<1> QED BY <1>4, <1>5, Constants

(* The sleepers that wake() leaves asleep have the counts they had less    *)
(* that of the first.                                                      *)
LEMMA wake_Encodes ==
  ASSUME NEW k, Handed(k), NEW g, SleepersAre(k, g), k.headsleeper # NULL,
         NEW due, Encodes(k, due), \A s \in On(g) : due[s] \in Int,
         NEW r, r = wake(k),
         NEW e, \A s \in On(g) : e[s] = due[s] - k.sleepticks[k.headsleeper]
  PROVE  /\ Encodes(r, e)
         /\ \A s \in Pcbs : r.state[s] = "SLEEP" => s \in On(g)
         /\ r.headsleeper # NULL => r.sleepticks[r.headsleeper] # 0 /\ r.state[r.headsleeper] = "SLEEP"
<1> DEFINE h == k.headsleeper
           n == DueCount(k, Chain(k.next, k.headsleeper))
           W == Front(g, n)
           x == k.next[g[n]]
           T == k.sleepticks[k.headsleeper]
<1>1. k \in KernelType
  BY HandedIs
<1>2. (k.tail = NULL \/ k.tail \in Slots) /\ k.tail \notin On(g)
  BY TailIsAwake
<1>3. List(k.next, h, g) /\ \A s \in Pcbs : s \in On(g) <=> k.state[s] = "SLEEP"
  BY DEF SleepersAre
<1>4. On(g) \subseteq Pcbs /\ h \in On(g) /\ Pcbs \subseteq Slots /\ NULL \notin Pcbs /\ Len(g) \in Nat
  BY <1>3, ListFacts, Constants
<1>5. n = DueCount(k, Chain(k.next, k.headsleeper)) /\ h = k.headsleeper
  OBVIOUS
<1> HIDE DEF n, h
<1>6. /\ n \in 1 .. Len(g)
      /\ \A i \in 1 .. n : due[g[i]] = due[k.headsleeper]
      /\ k.next[g[n]] # NULL => k.sleepticks[k.next[g[n]]] # 0
  BY <1>1, <1>5, wake_Due
<1>7. /\ r.headsleeper = x
      /\ \A s \in Slots : r.sleepticks[s] = IF s = h THEN 0 ELSE k.sleepticks[s]
      /\ \A s \in Slots : r.state[s] = IF s \in W THEN "READY" ELSE k.state[s]
      /\ \A s \in Slots : r.next[s] = IF s = g[n] THEN NULL
                                      ELSE IF s = k.tail THEN h ELSE k.next[s]
  BY <1>1, <1>2, <1>5, wake_Is DEF Front
<1>8. /\ h \in W /\ g[n] \in W
      /\ k.next[g[n]] # NULL => k.next[g[n]] \in On(g) /\ k.next[g[n]] \notin W
      /\ \A s \in On(g) : s \notin W /\ k.next[s] # NULL => k.next[s] \in On(g) /\ k.next[s] \notin W
  BY <1>3, <1>6, Remaining
<1>9. /\ g[n] \in On(g) /\ W \subseteq On(g) /\ due[g[n]] = T /\ \A s \in W : due[s] = T
  <2>1. due[h] = T
    BY <1>4, <1>5 DEF Encodes
  <2>2. \A i \in 1 .. n : i \in 1 .. Len(g)
    BY <1>4, <1>6
  <2>3. n \in 1 .. n
    BY <1>4, <1>6
  <2> QED BY <1>5, <1>6, <2>1, <2>2, <2>3 DEF On, Front
<1> HIDE DEF W, T
<1>10. \A s \in Pcbs : r.state[s] = "SLEEP" => s \in On(g) \ W
  BY <1>3, <1>4, <1>7
<1>11. \A s \in On(g) \ W : r.next[s] = k.next[s] /\ r.state[s] = "SLEEP" /\ r.sleepticks[s] = k.sleepticks[s]
  BY <1>2, <1>3, <1>4, <1>5, <1>7, <1>8
<1>12. T \in Int /\ \A s \in On(g) : e[s] = due[s] - T /\ due[s] \in Int
  BY <1>9 DEF T
<1>13. x # NULL => /\ x \in On(g) \ W /\ k.sleepticks[x] = due[x] - T /\ k.sleepticks[x] # 0
                   /\ k.state[g[n]] = "SLEEP" 
  <2> HAVE x # NULL
  <2>1. x \in On(g) \ W /\ k.sleepticks[x] # 0 /\ g[n] \in Pcbs /\ k.state[g[n]] = "SLEEP"
    BY <1>3, <1>4, <1>6, <1>8, <1>9
  <2>2. k.sleepticks[x] = due[x] - due[g[n]]
    BY <2>1 DEF Encodes
  <2> QED BY <1>9, <2>1, <2>2
<1>14. r.headsleeper # NULL => r.sleepticks[r.headsleeper] = e[r.headsleeper]
  BY <1>7, <1>11, <1>12, <1>13
<1>15. ASSUME NEW s \in Pcbs, r.state[s] = "SLEEP", r.next[s] # NULL
       PROVE  r.sleepticks[r.next[s]] = e[r.next[s]] - e[s]
  <2>1. s \in On(g) \ W /\ r.next[s] = k.next[s] /\ k.next[s] \in On(g) \ W /\ k.state[s] = "SLEEP"
    BY <1>3, <1>8, <1>10, <1>11, <1>15
  <2>2. k.sleepticks[k.next[s]] = due[k.next[s]] - due[s]
    BY <1>15, <2>1 DEF Encodes
  <2>3. r.sleepticks[k.next[s]] = k.sleepticks[k.next[s]]
    BY <1>11, <2>1
  <2>4. /\ e[k.next[s]] = due[k.next[s]] - T /\ e[s] = due[s] - T
        /\ due[k.next[s]] \in Int /\ due[s] \in Int
    BY <1>12, <2>1
  <2> QED BY <1>12, <2>1, <2>2, <2>3, <2>4
<1>16. Encodes(r, e)
  BY <1>14, <1>15 DEF Encodes
<1>17. r.headsleeper # NULL => r.sleepticks[r.headsleeper] # 0 /\ r.state[r.headsleeper] = "SLEEP"
  BY <1>7, <1>11, <1>13
<1> QED BY <1>10, <1>16, <1>17

(* The first sleeper loses a tick, and with it every sleeper.              *)
LEMMA CountDown_Encodes ==
  ASSUME NEW k \in KernelType, NEW due, Encodes(k, due),
         k.headsleeper # NULL => k.sleepticks[k.headsleeper] # 0 /\ k.state[k.headsleeper] = "SLEEP",
         \A s \in Pcbs : k.state[s] = "SLEEP" => due[s] \in Int,
         \A s \in Pcbs : k.state[s] = "SLEEP" /\ k.next[s] # NULL =>
                        k.next[s] # k.headsleeper /\ k.state[k.next[s]] = "SLEEP",
         NEW e, \A s \in Pcbs : k.state[s] = "SLEEP" => e[s] = due[s] - 1
  PROVE  Encodes(CountDown(k), e)
<1> DEFINE r == CountDown(k)
           h == k.headsleeper
<1>1. CASE h = NULL
  <2>1. r = k
    BY <1>1 DEF CountDown
  <2>2. ASSUME NEW s \in Pcbs, k.state[s] = "SLEEP", k.next[s] # NULL
        PROVE  k.sleepticks[k.next[s]] = e[k.next[s]] - e[s]
    <3>1. k.next[s] \in Pcbs /\ k.state[k.next[s]] = "SLEEP"
      BY <2>2, Constants DEF KernelType, Ptr
    <3>2. k.sleepticks[k.next[s]] = due[k.next[s]] - due[s]
      BY <2>2 DEF Encodes
    <3> QED BY <2>2, <3>1, <3>2
  <2>3. Encodes(k, e)
    BY <1>1, <2>2 DEF Encodes
  <2> QED BY <2>1, <2>3
<1>2. CASE h # NULL
  <2>1. h \in Slots /\ h \in Pcbs /\ k.sleepticks[h] > 0 /\ k.sleepticks[h] \in Int
    <3>1. h \in Pcbs /\ h \in Slots /\ k.sleepticks[h] # 0
      BY <1>2, Constants DEF KernelType, Ptr
    <3>2. k.sleepticks[h] \in 0 .. UINT - 1
      BY <3>1 DEF KernelType, Ticks
    <3> QED BY <3>1, <3>2, SleepListAssumption
  <2>2. r = [k EXCEPT !.sleepticks[h] = @ - 1]
    BY <1>2, <2>1 DEF CountDown
  <2> HIDE DEF r
  <2>3. /\ r.headsleeper = h /\ r.state = k.state /\ r.next = k.next
        /\ r.sleepticks = [k.sleepticks EXCEPT ![h] = @ - 1]
    BY <2>2 DEF KernelType
  <2>4. r.sleepticks[h] = k.sleepticks[h] - 1 /\ \A s \in Slots : s # h => r.sleepticks[s] = k.sleepticks[s]
    <3>1. k.sleepticks = [s \in Slots |-> k.sleepticks[s]]
      BY DEF KernelType
    <3> QED BY <2>1, <2>3, <3>1
  <2>5. r.sleepticks[h] = e[h]
    BY <1>2, <2>1, <2>4 DEF Encodes
  <2>6. ASSUME NEW s \in Pcbs, r.state[s] = "SLEEP", r.next[s] # NULL
        PROVE  r.sleepticks[r.next[s]] = e[r.next[s]] - e[s]
    <3>1. k.state[s] = "SLEEP" /\ r.next[s] = k.next[s] /\ k.next[s] # NULL /\ k.next[s] # h
      BY <1>2, <2>3, <2>6
    <3>2. k.next[s] \in Pcbs /\ k.next[s] \in Slots /\ k.state[k.next[s]] = "SLEEP"
      BY <3>1, Constants DEF KernelType, Ptr
    <3>3. k.sleepticks[k.next[s]] = due[k.next[s]] - due[s]
      BY <3>1 DEF Encodes
    <3>4. due[s] \in Int /\ due[k.next[s]] \in Int /\ e[s] = due[s] - 1 /\ e[k.next[s]] = due[k.next[s]] - 1
      BY <3>1, <3>2
    <3>5. r.sleepticks[k.next[s]] = k.sleepticks[k.next[s]]
      BY <2>4, <3>1, <3>2
    <3> QED BY <3>1, <3>3, <3>4, <3>5
  <2>7. Encodes(r, e)
    BY <2>3, <2>5, <2>6 DEF Encodes
  <2> QED BY <2>7 DEF r
<1> QED BY <1>1, <1>2

(* tick(): one tick has passed for every sleeper that stays asleep, and    *)
(* two if the first one's last tick has elapsed.                           *)
LEMMA tick_Encodes ==
  ASSUME NEW k, Handed(k), NEW g, SleepersAre(k, g),
         NEW due, Encodes(k, due), \A s \in On(g) : due[s] \in Int,
         NEW c, c = IF LastTickElapses(k) THEN 2 ELSE 1,
         NEW e, \A s \in Pcbs : tick(k).state[s] = "SLEEP" => e[s] = due[s] - c
  PROVE  /\ Encodes(tick(k), e)
         /\ \A s \in Pcbs : tick(k).state[s] = "SLEEP" => s \in On(g)
<1> DEFINE h == k.headsleeper
           T == k.sleepticks[h]
<1>1. k \in KernelType /\ List(k.next, h, g) /\ (\A s \in Pcbs : s \in On(g) <=> k.state[s] = "SLEEP")
      /\ On(g) \subseteq Pcbs /\ Pcbs \subseteq Slots /\ NULL \notin Pcbs
  <2>1. List(k.next, h, g) /\ \A s \in Pcbs : s \in On(g) <=> k.state[s] = "SLEEP"
    BY DEF SleepersAre
  <2> QED BY <2>1, HandedIs, ListFacts, Constants
<1>2. ASSUME NEW m, m \in KernelType
      PROVE  CountDown(m).state = m.state
  BY <1>2 DEF CountDown, KernelType
<1>3. CASE h = NULL
  <2>1. tick(k) = k /\ On(g) = {}
    BY <1>1, <1>3, ListFacts DEF tick
  <2>2. \A s \in Pcbs : k.state[s] # "SLEEP"
    BY <1>1, <2>1
  <2>3. Encodes(k, e)
    BY <1>3, <2>2 DEF Encodes
  <2> QED BY <2>1, <2>2, <2>3
<1>4. CASE h # NULL /\ T > 1
  <2>1. T \in Int /\ h \in On(g)
    BY <1>1, <1>4, ListFacts, SleepListAssumption DEF KernelType, Ticks
  <2>2. tick(k) = CountDown(k) /\ c = 1
    BY <1>4, <2>1 DEF tick, LastTickElapses
  <2>3. tick(k).state = k.state
    BY <1>1, <1>2, <2>2
  <2>4. \A s \in On(g) : k.next[s] # NULL => k.next[s] \in On(g) /\ k.next[s] # h
    BY <1>1, ListNext
  <2>5. /\ \A s \in Pcbs : k.state[s] = "SLEEP" => due[s] \in Int
        /\ \A s \in Pcbs : k.state[s] = "SLEEP" /\ k.next[s] # NULL =>
                           k.next[s] # k.headsleeper /\ k.state[k.next[s]] = "SLEEP"
    BY <1>1, <2>4
  <2>6. k.state[k.headsleeper] = "SLEEP" /\ k.sleepticks[k.headsleeper] # 0
    BY <1>1, <1>4, <2>1
  <2>7. \A s \in Pcbs : k.state[s] = "SLEEP" => e[s] = due[s] - 1
    BY <2>2, <2>3
  <2>8. Encodes(CountDown(k), e)
    BY <1>1, <2>5, <2>6, <2>7, CountDown_Encodes
  <2> QED BY <1>1, <2>2, <2>3, <2>8
<1>5. CASE h # NULL /\ ~(T > 1)
  <2> DEFINE r == wake(k)
             d == [s \in Slots |-> due[s] - T]
  <2>1. T \in {0, 1} /\ h \in On(g) /\ k.headsleeper # NULL
    <3>1. h \in On(g) /\ h \in Slots
      BY <1>1, <1>5, ListFacts
    <3>2. T \in 0 .. UINT - 1
      BY <1>1, <3>1 DEF KernelType, Ticks
    <3>3. T \in {0, 1}
      BY <1>5, <3>2, SleepListAssumption
    <3> QED BY <1>5, <3>1, <3>3
  <2>2. tick(k) = CountDown(r) /\ c = T + 1
    BY <1>5, <2>1 DEF tick, LastTickElapses
  <2>3. r \in KernelType /\ Handed(r)
    BY <2>1, wake_Hands, HandedIs
  <2>4. r = wake(k) /\ \A s \in On(g) : d[s] = due[s] - k.sleepticks[k.headsleeper]
    BY <1>1
  <2> HIDE DEF r, d
  <2>5. /\ Encodes(r, d)
        /\ \A s \in Pcbs : r.state[s] = "SLEEP" => s \in On(g)
        /\ r.headsleeper # NULL => r.sleepticks[r.headsleeper] # 0 /\ r.state[r.headsleeper] = "SLEEP"
    BY <2>1, <2>4, wake_Encodes
  <2>6. tick(k).state = r.state
    BY <1>2, <2>2, <2>3
  <2>7. \A s \in Pcbs : r.state[s] = "SLEEP" => d[s] \in Int
    <3>1. \A s \in On(g) : d[s] \in Int
      BY <2>1, <2>4
    <3> QED BY <2>5, <3>1
  <2>8. \A s \in Pcbs : r.state[s] = "SLEEP" /\ r.next[s] # NULL =>
                         r.next[s] # r.headsleeper /\ r.state[r.next[s]] = "SLEEP"
    <3>1. PICK b : SleepersAre(r, b)
      BY <2>3 DEF Handed, Sound, Lists
    <3>2. List(r.next, r.headsleeper, b) /\ \A s \in Pcbs : s \in On(b) <=> r.state[s] = "SLEEP"
      BY <3>1 DEF SleepersAre
    <3>3. /\ On(b) \subseteq Pcbs
          /\ \A s \in On(b) : r.next[s] # NULL => r.next[s] \in On(b) /\ r.next[s] # r.headsleeper
      BY <3>2, ListFacts, ListNext
    <3> QED BY <3>2, <3>3
  <2>9. \A s \in Pcbs : r.state[s] = "SLEEP" => e[s] = d[s] - 1
    <3>1. \A s \in On(g) : due[s] - (T + 1) = d[s] - 1
      BY <2>1, <2>4
    <3> QED BY <2>2, <2>5, <2>6, <3>1
  <2>10. Encodes(CountDown(r), e)
    BY <2>3, <2>5, <2>7, <2>8, <2>9, CountDown_Encodes
  <2> QED BY <2>2, <2>5, <2>6, <2>10
<1> QED BY <1>3, <1>4, <1>5

-----------------------------------------------------------------------------
(* The invariant of the clock: the lists are sound, and the ticks of the   *)
(* sleepers encode what they have left.                                    *)
Counts == [s \in Slots |-> left[s] - early[s]]

Timely ==
  /\ Handed(kern)
  /\ left \in [Slots -> Int] /\ early \in [Slots -> Nat]
  /\ Encodes(kern, Counts)

(* The list of sleepers of a kernel that has served its request.           *)
LEMMA HasSleepers ==
  ASSUME NEW k, Handed(k)
  PROVE  \E g : SleepersAre(k, g) /\ \A s \in On(g) : s \in Slots /\ s \in Pcbs /\ k.state[s] = "SLEEP"
<1>1. PICK g : SleepersAre(k, g)
  BY DEF Handed, Sound, Lists
<1>2. On(g) \subseteq Pcbs
  BY <1>1, ListFacts DEF SleepersAre
<1>3. \A s \in On(g) : s \in Slots /\ s \in Pcbs /\ k.state[s] = "SLEEP"
  BY <1>1, <1>2, Constants DEF SleepersAre
<1> QED BY <1>1, <1>3

(* No sleeper is late: it has at least as much left as it was brought      *)
(* forward.                                                                *)
InTime ==
  \A s \in Pcbs : Asleep(kern, s) => left[s] \in Nat /\ left[s] >= early[s]

(* The ticks of a sleeper are not negative, so the times are ordered.      *)
LEMMA SleepersHaveTime == Timely => InTime
<1> SUFFICES ASSUME Timely PROVE InTime
  OBVIOUS
<1>1. PICK g : SleepersAre(kern, g) /\ \A s \in On(g) : s \in Slots /\ s \in Pcbs /\ kern.state[s] = "SLEEP"
  BY HasSleepers DEF Timely
<1>2. \A s \in Slots : Counts[s] = left[s] - early[s] /\ Counts[s] \in Int
  BY DEF Timely, Counts
<1>3. kern \in KernelType /\ Encodes(kern, Counts) /\ \A s \in On(g) : Counts[s] \in Int
  BY <1>1, <1>2, HandedIs DEF Timely
<1>4. \A s \in On(g) : Counts[s] \in Nat
  BY <1>1, <1>3, DueIsNat
<1>5. ASSUME NEW s \in Pcbs, Asleep(kern, s)
      PROVE  left[s] \in Nat /\ left[s] >= early[s]
  <2>1. s \in On(g) /\ s \in Slots
    BY <1>1, <1>5, Constants DEF SleepersAre, Asleep
  <2>2. left[s] - early[s] \in Nat /\ left[s] \in Int /\ early[s] \in Nat
    BY <1>2, <1>4, <2>1 DEF Timely
  <2> QED BY <2>2
<1> QED BY <1>5 DEF InTime

(* The kernel starts without sleepers.                                     *)
LEMMA InitTimely == InitClock => Timely
<1> SUFFICES ASSUME InitClock PROVE Timely
  OBVIOUS
<1>1. kern = Boot /\ Handed(kern)
  BY BootHanded DEF InitClock, Init
<1>2. left \in [Slots -> Int] /\ early \in [Slots -> Nat]
  BY DEF InitClock
<1>3. kern.headsleeper = NULL /\ \A s \in Pcbs : kern.state[s] # "SLEEP"
  BY <1>1, Constants DEF Boot
<1>4. Encodes(kern, Counts)
  BY <1>3 DEF Encodes
<1> QED BY <1>1, <1>2, <1>4 DEF Timely

(* syssleep starts the caller's clock.                                     *)
LEMMA NapTimely ==
  ASSUME Timely, NEW ms \in Naps, NapClock(ms) PROVE Timely'
<1> DEFINE r == sleep(kern, Running, ms)
<1>1. /\ Handed(kern) /\ Handed(kern)' /\ Sound(kern, {}) /\ Running \in Slots /\ Running \in Pcbs
      /\ Runners(kern) = {Running} /\ Running # IDLE /\ kern.next[Running] = NULL /\ ms \in Nat
      /\ kern \in KernelType /\ kern.state[Running] = "RUNNING"
  BY NapHands, HandedIs, KernelAssumption DEF Handed, Running, Nap, NapClock, UserRequest, Timely
<1>2. kern' = Dispatch(r)
  BY <1>1, Served DEF Nap, NapClock
<1>3. PICK g : SleepersAre(kern, g) /\ \A s \in On(g) : s \in Slots /\ s \in Pcbs /\ kern.state[s] = "SLEEP"
  BY <1>1, HasSleepers
<1>4. milliseconds_to_ticks(ms) \in Nat
  BY <1>1, TicksOfMilliseconds, SleepListAssumption DEF Ticks
<1>5. left' \in [Slots -> Int] /\ early' \in [Slots -> Nat]
  <2>1. /\ left' = [left EXCEPT ![Running] = milliseconds_to_ticks(ms)]
        /\ early' = [early EXCEPT ![Running] = 0]
        /\ left \in [Slots -> Int] /\ early \in [Slots -> Nat]
    BY DEF Timely, NapClock
  <2>2. \A n \in Int : [left EXCEPT ![Running] = n] \in [Slots -> Int]
    BY <2>1
  <2>3. [early EXCEPT ![Running] = 0] \in [Slots -> Nat]
    BY <2>1
  <2> QED BY <1>4, <2>1, <2>2, <2>3
<1>6. /\ \A s \in Slots : s # Running => left'[s] = left[s] /\ early'[s] = early[s]
      /\ left'[Running] = milliseconds_to_ticks(ms) /\ early'[Running] = 0
  BY <1>1 DEF Timely, NapClock
<1>7. /\ \A s \in Slots : Counts[s] = left[s] - early[s] /\ Counts[s] \in Int
      /\ \A s \in Slots : Counts'[s] = left'[s] - early'[s]
  BY DEF Timely, Counts
<1>8. Counts'[Running] = milliseconds_to_ticks(ms) /\ \A s \in On(g) : Counts'[s] = Counts[s]
  BY <1>1, <1>3, <1>4, <1>6, <1>7
<1>9. Encodes(r, Counts')
  <2>1. Running \notin On(g) /\ Encodes(kern, Counts) /\ \A s \in On(g) : Counts[s] \in Int
    BY <1>1, <1>3, <1>7 DEF Timely
  <2> QED BY <1>1, <1>3, <1>8, <2>1, sleep_Encodes
<1>10. Sound(r, {}) /\ Runners(r) = {}
  BY <1>1, sleep_Sound
<1> HIDE DEF r
<1>11. SleepSame(r, Dispatch(r))
  BY <1>10, Dispatch_Sleep
<1>12. Encodes(kern', Counts')
  BY <1>2, <1>9, <1>11, EncodesSame
<1> QED BY <1>1, <1>5, <1>12 DEF Timely

(* The timer: a tick for every sleeper.                                    *)
LEMMA TimerTimely ==
  ASSUME Timely, TimerClock PROVE Timely'
<1>1. PICK eax \in EaxValues : TimerAt(eax)
  BY DEF TimerClock, Timer
<1> DEFINE k0 == [kern EXCEPT !.ret[Running] = eax]
           k1 == ready(k0, Running)
           k2 == Dispatch(k1)
<1>2. Handed(kern) /\ Handed(kern)'
  BY TimerHands DEF TimerClock, Timely
<1>3. kern' = tick(k2)
  BY <1>1, <1>2, Served DEF TimerAt
<1>4. Sound(kern, {}) /\ Running \in Slots /\ kern.state[Running] = "RUNNING" /\ kern \in KernelType
      /\ Runners(kern) = {Running}
  BY <1>2, HandedIs DEF Running
<1>5. Sound(k0, {}) /\ k0.state = kern.state /\ k0 \in KernelType /\ SleepSame(kern, k0)
  <2>1. eax \in Int /\ kern.state[Running] # "BLOCKED"
    BY <1>4, KernelAssumption
  <2>2. Sound(k0, {})
    BY <1>4, <2>1, SetRetSound
  <2> QED BY <1>4, <2>2, Set_Sleep DEF Sound, KernelType
<1> HIDE DEF k0
<1>6. Loose(k0, Running)
  BY <1>4, <1>5, RunnerIsLoose
<1>7. Sound(k1, {} \ {Running}) /\ k1.state = [k0.state EXCEPT ![Running] = "READY"] /\ SleepSame(k0, k1)
  BY <1>5, <1>6, ready_Sound, ready_Sleep
<1> HIDE DEF k1
<1>8. Sound(k1, {}) /\ Runners(k1) = {}
  <2>1. {} \ {Running} = {}
    OBVIOUS
  <2> QED BY <1>4, <1>5, <1>7, <2>1 DEF Runners, KernelType
<1>9. Handed(k2) /\ SleepSame(k1, k2)
  BY <1>8, DispatchHands, Dispatch_Sleep
<1> HIDE DEF k2
<1>10. SleepSame(kern, k2)
  BY <1>5, <1>7, <1>9, SleepTwice
<1>11. PICK g : SleepersAre(k2, g) /\ \A s \in On(g) : s \in Slots /\ s \in Pcbs /\ k2.state[s] = "SLEEP"
  BY <1>9, HasSleepers
<1> DEFINE c == IF LastTickElapses(kern) THEN 2 ELSE 1
<1>12. c = (IF LastTickElapses(k2) THEN 2 ELSE 1) /\ c \in {1, 2}
  BY <1>10 DEF LastTickElapses, SleepSame
<1>13. /\ \A s \in Slots : Counts[s] = left[s] - early[s] /\ Counts[s] \in Int
       /\ \A s \in Slots : Counts'[s] = left'[s] - early'[s]
  BY DEF Timely, Counts
<1>14. Encodes(k2, Counts) /\ \A s \in On(g) : Counts[s] \in Int
  BY <1>10, <1>11, <1>13, EncodesSame DEF Timely
<1>15. \A s \in On(g) : Counts[s] \in Nat
  BY <1>9, <1>11, <1>14, DueIsNat, HandedIs
<1>16. left' \in [Slots -> Int] /\ early' \in [Slots -> Nat]
  BY DEF Timely, TimerClock, Elapse
<1>17. \A s \in On(g) : Asleep(kern', s) => Counts'[s] = Counts[s] - c
  <2> TAKE s \in On(g)
  <2> HAVE Asleep(kern', s)
  <2>1. s \in Slots /\ left[s] \in Int /\ early[s] \in Nat /\ left[s] - early[s] \in Nat
    BY <1>11, <1>13, <1>15 DEF Timely
  <2>2. left'[s] = left[s] - 1
    BY <2>1 DEF TimerClock, Elapse
  <2>3. early'[s] = early[s] + (c - 1)
    BY <2>1 DEF TimerClock
  <2> QED BY <1>12, <1>13, <2>1, <2>2, <2>3
<1> HIDE DEF c
<1>18. \A s \in Pcbs : tick(k2).state[s] = "SLEEP" => s \in On(g)
  <2> DEFINE e == [s \in Slots |-> Counts[s] - c]
  <2>1. \A s \in Pcbs : tick(k2).state[s] = "SLEEP" => e[s] = Counts[s] - c
    BY Constants
  <2> HIDE DEF e
  <2> QED BY <1>9, <1>11, <1>12, <1>14, <2>1, tick_Encodes
<1>19. Encodes(tick(k2), Counts')
  <2>1. \A s \in Pcbs : tick(k2).state[s] = "SLEEP" => Counts'[s] = Counts[s] - c
    BY <1>3, <1>17, <1>18 DEF Asleep
  <2> QED BY <1>9, <1>11, <1>12, <1>14, <2>1, tick_Encodes
<1> QED BY <1>2, <1>3, <1>16, <1>19 DEF Timely

-----------------------------------------------------------------------------
(* The requests that do not sleep.                                         *)

(* A request that leaves the sleepers and the clock alone.                 *)
LEMMA SameTimely ==
  ASSUME Timely, Handed(kern)', SleepSame(kern, kern'), UNCHANGED <<left, early>>
  PROVE  Timely'
<1>1. left' = left /\ early' = early /\ Counts' = Counts
  BY DEF Counts
<1>2. Encodes(kern, Counts)
  BY DEF Timely
<1>3. Encodes(kern', Counts')
  BY <1>1, <1>2, EncodesSame
<1> QED BY <1>1, <1>3 DEF Timely

(* remove() from the queue of the dead leaves the sleepers and the ready   *)
(* queue's head alone.                                                     *)
LEMMA remove_Aside ==
  ASSUME NEW k \in KernelType, NEW pid
  PROVE  LET r == remove(k, "dead_q", pid)
         IN  /\ r.headsleeper = k.headsleeper /\ r.sleepticks = k.sleepticks
             /\ r.que["head"] = k.que["head"]
<1> DEFINE r == remove(k, "dead_q", pid)
           s == CHOOSE x \in {y \in Members(k.next, k.que["dead_q"]) : k.pid[y] = pid} : TRUE
           a == k.next[s]
           z == LastOf(k.next, k.que["dead_q"])
<1>1. \/ r = Fault(k, "wild") \/ r = k \/ r = Fault(k, "loop")
      \/ r = [k EXCEPT !.que["dead_q"] = a, !.next[s] = NULL]
      \/ r = [k EXCEPT !.que["dead_q"] = z]
  BY DEF remove
<1> HIDE DEF r, s, a, z
<1> DEFINE Aside(m) == /\ m.headsleeper = k.headsleeper /\ m.sleepticks = k.sleepticks
                       /\ m.que["head"] = k.que["head"]
<1>2. ASSUME NEW f PROVE Aside(Fault(k, f))
  BY DEF Fault, KernelType
<1>3. Aside(k)
  OBVIOUS
<1>4. "head" \in DOMAIN k.que /\ "head" # "dead_q"
  BY DEF KernelType, QNames
<1>5. Aside([k EXCEPT !.que["dead_q"] = a, !.next[s] = NULL])
  BY <1>4 DEF KernelType
<1>6. Aside([k EXCEPT !.que["dead_q"] = z])
  BY <1>4 DEF KernelType
<1> HIDE DEF Aside
<1>7. Aside(r)
  BY <1>1, <1>2, <1>3, <1>5, <1>6
<1> QED BY <1>7 DEF Aside, r

(* create() takes a stopped slot.                                          *)
LEMMA create_Sleep ==
  ASSUME Workload, NEW k, Handed(k), NEW i \in FreeSlots(k), NewPid(k, i) <= MaxPid, NEW allocated \in BOOLEAN,
         NEW p, p = k.que["running"]
  PROVE  SleepSame(k, create(k, p, i, allocated))
<1> DEFINE r  == remove(k, "dead_q", i)
           k1 == [r EXCEPT !.pid[i] = NewPid(k, i)]
           w  == create(k, p, i, allocated)
<1>1. k \in KernelType /\ \A s \in Slots : k.state[s] = "SLEEP" => k.state[s] # "STOPPED"
  BY HandedIs
<1>2. /\ r \in KernelType /\ r.state = k.state
      /\ Sound(k1, {}) /\ Loose(k1, i) /\ k1.state = k.state
      /\ (\A s \in Slots : k.state[s] # "STOPPED" => k1.next[s] = k.next[s])
      /\ w = IF ~allocated THEN [k1 EXCEPT !.ret[p] = -1]
             ELSE [ready(k1, i) EXCEPT !.ret[p] = Code(NewPid(k, i))]
  BY create_Is
<1>3. r.headsleeper = k.headsleeper /\ r.sleepticks = k.sleepticks
  BY <1>1, remove_Aside
<1> HIDE DEF r, w
<1>4. k1.headsleeper = k.headsleeper /\ k1.sleepticks = k.sleepticks
  BY <1>2, <1>3 DEF KernelType
<1> HIDE DEF k1
<1>5. SleepSame(k, k1)
  BY <1>1, <1>2, <1>4 DEF SleepSame
<1>6. SleepSame(k1, ready(k1, i)) /\ k1 \in KernelType
  BY <1>2, ready_Sleep DEF Sound
<1>7. ready(k1, i) \in KernelType
  <2>1. i \in Slots
    BY Constants DEF FreeSlots
  <2> QED BY <1>6, <2>1, ready_Keeps
<1>8. SleepSame(k, ready(k1, i))
  BY <1>5, <1>6, SleepTwice
<1>9. \A n : SleepSame(k1, [k1 EXCEPT !.ret[p] = n])
  BY <1>6, Set_Sleep
<1>10. \A n : SleepSame(ready(k1, i), [ready(k1, i) EXCEPT !.ret[p] = n])
  BY <1>7, Set_Sleep
<1>11. CASE ~allocated
  <2>1. SleepSame(k1, w)
    BY <1>2, <1>9, <1>11
  <2>2. SleepSame(k, w)
    BY <1>5, <2>1, SleepTwice
  <2> QED BY <2>2 DEF w
<1>12. CASE allocated
  <2>1. SleepSame(ready(k1, i), w)
    BY <1>2, <1>10, <1>12
  <2>2. SleepSame(k, w)
    BY <1>8, <2>1, SleepTwice
  <2> QED BY <2>2 DEF w
<1> QED BY <1>11, <1>12

(* SYS_CREATE, also with a full table.                                     *)
LEMMA Create_Sleep ==
  ASSUME Workload, Handed(kern), Handed(kern)', Create
  PROVE  SleepSame(kern, kern')
<1>1. kern \in KernelType /\ Sound(kern, {}) /\ Running \in Slots
  BY HandedIs DEF Running
<1>2. CASE FreeSlots(kern) = {}
  <2> DEFINE m == remove(kern, "dead_q", MAX_PROC)
             r == [m EXCEPT !.ret[Running] = -1]
  <2>1. Serve(r)
    BY <1>2 DEF Create
  <2>2. m = kern
    <3>1. kern.que["dead_q"] = NULL
      BY <1>1, <1>2, NobodyDead
    <3> QED BY <3>1 DEF remove, QNames
  <2>3. r = [kern EXCEPT !.ret[Running] = -1]
    BY <2>2
  <2> HIDE DEF m
  <2>4. SleepSame(kern, r)
    BY <1>1, <2>3, Set_Sleep
  <2> HIDE DEF r
  <2>5. kern' = r
    BY <2>1, Served
  <2> QED BY <2>4, <2>5
<1>3. CASE FreeSlots(kern) # {}
  <2> DEFINE i == CHOOSE s \in FreeSlots(kern) : \A r \in FreeSlots(kern) : s <= r
  <2>1. NewPid(kern, i) <= MaxPid
        /\ \E allocated \in {TRUE, ~AllocMayFail} : Serve(create(kern, Running, i, allocated))
    BY <1>3 DEF Create
  <2>2. i \in FreeSlots(kern)
    <3>1. FreeSlots(kern) \subseteq Nat
      BY Constants DEF FreeSlots
    <3> QED BY <1>3, <3>1, HasMinimum
  <2> HIDE DEF i
  <2>3. PICK allocated \in {TRUE, ~AllocMayFail} : Serve(create(kern, Running, i, allocated))
    BY <2>1
  <2>4. SleepSame(kern, create(kern, Running, i, allocated))
    <3>1. allocated \in BOOLEAN /\ Running = kern.que["running"]
      BY DEF Running
    <3> QED BY <2>1, <2>2, <3>1, create_Sleep
  <2>5. kern' = create(kern, Running, i, allocated)
    BY <2>3, Served
  <2> QED BY <2>4, <2>5
<1> QED BY <1>2, <1>3

(* sysyield only queues the caller.                                        *)
LEMMA Yield_Sleep ==
  ASSUME Handed(kern), Handed(kern)', Yield
  PROVE  SleepSame(kern, kern')
<1> DEFINE r == ready(kern, Running)
<1>1. Sound(kern, {}) /\ Loose(kern, Running) /\ Runners(kern) = {Running} /\ kern \in KernelType
      /\ Running \in Slots /\ kern.state[Running] = "RUNNING"
  BY HandedIs DEF Running
<1>2. Sound(r, {} \ {Running}) /\ r.state = [kern.state EXCEPT ![Running] = "READY"]
  BY <1>1, ready_Sound
<1>3. SleepSame(kern, r)
  BY <1>1, ready_Sleep
<1>4. kern' = Dispatch(r)
  BY Served DEF Yield
<1> HIDE DEF r
<1>5. Sound(r, {}) /\ Runners(r) = {}
  <2>1. {} \ {Running} = {}
    OBVIOUS
  <2> QED BY <1>1, <1>2, <2>1 DEF Runners, KernelType
<1>6. SleepSame(r, Dispatch(r))
  BY <1>5, Dispatch_Sleep
<1> QED BY <1>3, <1>4, <1>6, SleepTwice

(* sysstop moves the caller, who is awake, to the list of the dead.        *)
LEMMA Stopped_Sleep ==
  ASSUME NEW k, Sound(k, {}), NEW p \in Slots, k.state[p] = "RUNNING"
  PROVE  SleepSame(k, Stopped(k, p))
<1> DEFINE m == [k EXCEPT !.state[p] = "STOPPED", !.next[p] = NULL]
           r == Stopped(k, p)
<1>1. PICK f, g, b, d : Lists(k, f, g, b, d)
  BY DEF Sound
<1>2. /\ k \in KernelType /\ List(k.next, k.que["dead_q"], d) /\ On(d) \subseteq Pcbs /\ Pcbs \subseteq Slots
      /\ \A s \in On(d) : k.state[s] = "STOPPED"
  BY <1>1, ListFacts, Constants DEF Sound, Lists, DeadAre
<1>3. p \in Pcbs /\ p \notin On(d)
  BY <1>2, RunnerIsLoose DEF Loose
<1>4. /\ m \in KernelType /\ m.que = k.que /\ m.headsleeper = k.headsleeper
      /\ m.sleepticks = k.sleepticks /\ m.state[p] = "STOPPED"
      /\ \A s \in Slots : s # p => m.state[s] = k.state[s] /\ m.next[s] = k.next[s]
  <2>1. m \in KernelType
    BY <1>2 DEF KernelType, States, Ptr
  <2> QED BY <1>2, <2>1 DEF KernelType
<1>5. r = append(m, "dead_q", p)
  BY DEF Stopped
<1> HIDE DEF m, r
<1>6. List(m.next, m.que["dead_q"], d)
  BY <1>2, <1>3, <1>4, ListSame
<1>7. /\ r.state = m.state /\ r.headsleeper = m.headsleeper
      /\ \A s \in Slots : s \notin On(d) \cup {p} => r.next[s] = m.next[s]
  BY <1>3, <1>4, <1>5, <1>6, append_Is DEF LinksOnly, QNames
<1>8. r.sleepticks = m.sleepticks
  BY <1>4, <1>5 DEF append, Fault, KernelType
<1>9. SleepSame(k, r)
  BY <1>2, <1>4, <1>7, <1>8 DEF SleepSame
<1> QED BY <1>9 DEF r

(* Nobody is notified, and the next process gets the CPU.                  *)
LEMMA Stop_Sleep ==
  ASSUME Workload, Handed(kern), Handed(kern)', Stop
  PROVE  SleepSame(kern, kern')
<1> DEFINE k == Stopped(kern, Running)
<1>1. Sound(kern, {}) /\ Running \in Slots /\ Runners(kern) = {Running} /\ Running # IDLE
      /\ "stop" \in Calls /\ kern.state[Running] = "RUNNING"
  BY HandedIs DEF Running, Stop, StopWith, UserRequest, Request
<1>2. Sound(k, {}) /\ Runners(k) = {}
  BY <1>1, Stopped_Sound
<1>3. SleepSame(kern, k)
  BY <1>1, Stopped_Sleep
<1>4. PICK G : Serve(Dispatch(notify_waiters(k, kern.pid[Running], G)))
  BY DEF Stop, StopWith
<1> HIDE DEF k
<1>5. notify_waiters(k, kern.pid[Running], G) = k
  BY <1>1, <1>2, NobodyNotified
<1>6. kern' = Dispatch(k)
  BY <1>4, <1>5, Served
<1>7. SleepSame(k, Dispatch(k))
  BY <1>2, Dispatch_Sleep
<1> QED BY <1>3, <1>6, <1>7, SleepTwice

-----------------------------------------------------------------------------
(* The steps of the clock are steps of the kernel.                         *)
LEMMA ClockIsKernel ==
  ASSUME [NextClock]_clockVars PROVE [Next]_kern
<1>1. ASSUME NEW ms \in Naps, NapClock(ms) PROVE Next
  BY <1>1 DEF NapClock, Next
<1>2. TimerClock => Next
  BY DEF TimerClock, Next
<1>3. (Create \/ Yield \/ Stop) => Next
  BY DEF Next
<1>4. clockVars' = clockVars => kern' = kern
  BY DEF clockVars
<1> QED BY <1>1, <1>2, <1>3, <1>4 DEF NextClock

(* The invariant is inductive: one step per action.                        *)
LEMMA NextTimely ==
  ASSUME Workload, Timely, [NextClock]_clockVars PROVE Timely'
<1>1. Handed(kern) /\ Handed(kern)'
  BY NextHands, ClockIsKernel DEF Timely
<1>2. ASSUME NEW ms \in Naps, NapClock(ms) PROVE Timely'
  BY <1>2, NapTimely
<1>3. CASE TimerClock
  BY <1>3, TimerTimely
<1>4. CASE Create /\ UNCHANGED <<left, early>>
  BY <1>1, <1>4, Create_Sleep, SameTimely
<1>5. CASE Yield /\ UNCHANGED <<left, early>>
  BY <1>1, <1>5, Yield_Sleep, SameTimely
<1>6. CASE Stop /\ UNCHANGED <<left, early>>
  BY <1>1, <1>6, Stop_Sleep, SameTimely
<1>7. CASE UNCHANGED clockVars
  <2>1. kern' = kern /\ left' = left /\ early' = early
    BY <1>7 DEF clockVars
  <2>2. SleepSame(kern, kern')
    BY <2>1 DEF SleepSame
  <2> QED BY <1>1, <2>1, <2>2, SameTimely
<1> QED BY <1>2, <1>3, <1>4, <1>5, <1>6, <1>7 DEF NextClock

(* In the workloads, always: the lists are sound and the ticks of every    *)
(* sleeper are the difference of the time it has left and the time the     *)
(* sleeper before it has left.                                             *)
THEOREM ClockHolds ==
  ASSUME Workload PROVE SpecClock => []Timely
<1>1. InitClock => Timely
  BY InitTimely
<1>2. Timely /\ [NextClock]_clockVars => Timely'
  BY NextTimely
<1> QED BY <1>1, <1>2, PTL DEF SpecClock

(* In the workloads, always: adding up the ticks along the list, as        *)
(* sleep() does to find a place, gives the time every sleeper has left     *)
(* (sleep.c's delta list).                                                 *)
THEOREM TicksEncode ==
  ASSUME Workload PROVE SpecClock => []TicksEncodeTimeLeft
<1>1. ASSUME Timely PROVE TicksEncodeTimeLeft
  <2> DEFINE at  == Chain(kern.next, kern.headsleeper)
             acc == Accumulated(kern, at)
  <2>1. PICK g : SleepersAre(kern, g) /\ \A s \in On(g) : s \in Slots /\ s \in Pcbs /\ kern.state[s] = "SLEEP"
    BY <1>1, HasSleepers DEF Timely
  <2>2. \A s \in Slots : Counts[s] = left[s] - early[s] /\ Counts[s] \in Int
    BY <1>1 DEF Timely, Counts
  <2>3. List(kern.next, kern.headsleeper, g) /\ Encodes(kern, Counts) /\ \A s \in On(g) : Counts[s] \in Int
    BY <1>1, <2>1, <2>2 DEF Timely, SleepersAre
  <2>4. at = Chain(kern.next, kern.headsleeper) /\ acc = Accumulated(kern, at)
    OBVIOUS
  <2> HIDE DEF at, acc
  <2>5. \A n \in 0 .. MAX_PROC : at[n] # NULL => acc[n] = Counts[at[n]]
    BY <2>1, <2>3, <2>4, AccumulatedIsDue
  <2>6. \A n \in 0 .. MAX_PROC : at[n] # NULL => at[n] \in On(g)
    BY <2>3, <2>4, SleepersInOrder
  <2>7. \A n \in 0 .. MAX_PROC : at[n] # NULL => acc[n] = left[at[n]] - early[at[n]]
    BY <2>1, <2>2, <2>5, <2>6
  <2> QED BY <2>7 DEF TicksEncodeTimeLeft, at, acc
<1> QED BY <1>1, ClockHolds, PTL

(* In the workloads, no step of the timer leaves a process asleep whose    *)
(* time is over (sleep.c's tick()).                                        *)
THEOREM NobodyIsLate ==
  ASSUME Workload PROVE SpecClock => NeverLate
<1>1. ASSUME Timely, Timely', InTime, InTime'
      PROVE  [\A s \in Slots : Asleep(kern, s) /\ left[s] <= 0 /\ TimerClock => ~Asleep(kern', s)]_clockVars
  <2>1. ASSUME NEW s \in Slots, Asleep(kern, s), left[s] <= 0, TimerClock, Asleep(kern', s)
        PROVE  FALSE
    <3>1. s \in Pcbs
      <4>1. kern.state[0] = "STOPPED"
        BY <1>1, HandedIs DEF Timely, Facts
      <4> QED BY <2>1, <4>1 DEF Asleep, Pcbs
    <3>2. left'[s] = Elapse(left[s])
      BY <2>1 DEF TimerClock
    <3>3. left[s] \in Nat /\ left'[s] \in Nat
      BY <1>1, <2>1, <3>1 DEF InTime
    <3> QED BY <2>1, <3>2, <3>3 DEF Elapse
  <2> QED BY <2>1
<1>2. Timely => InTime
  BY SleepersHaveTime
<1> QED BY <1>1, <1>2, ClockHolds, PTL DEF NeverLate

-----------------------------------------------------------------------------
(* Division by the thousand of milliseconds_to_ticks rounds down.          *)
LEMMA Thousands ==
  ASSUME NEW n \in Nat
  PROVE  n \div 1000 \in Nat /\ (n \div 1000) * 1000 <= n /\ n < (n \div 1000) * 1000 + 1000
OBVIOUS

(* A number below the modulus is its own remainder; one that is not is     *)
(* less by the modulus at least.                                           *)
LEMMA Wrapped ==
  ASSUME NEW n \in Nat
  PROVE  /\ n % UINT \in Nat
         /\ n < UINT => n % UINT = n
         /\ n >= UINT => n % UINT <= n - UINT
<1>1. UINT \in Nat /\ UINT > 0
  BY SleepListAssumption
<1> DEFINE q == n \div UINT
           r == n % UINT
<1>2. q \in Int /\ r \in 0 .. UINT - 1 /\ n = UINT * q + r
  BY <1>1, Z3
<1> HIDE DEF q, r
<1>3. ASSUME q <= -1 PROVE FALSE
  <2>1. UINT * q <= -UINT
    BY <1>1, <1>2, <1>3, Z3
  <2> QED BY <1>1, <1>2, <2>1
<1>4. ASSUME q >= 1 PROVE UINT * q >= UINT
  BY <1>1, <1>2, <1>4, Z3
<1>5. n < UINT => q = 0
  BY <1>1, <1>2, <1>3, <1>4
<1>6. n >= UINT => q >= 1
  <2>1. q = 0 => UINT * q = 0
    BY <1>1
  <2> QED BY <1>1, <1>2, <1>3, <2>1
<1>7. q = 0 => UINT * q = 0
  BY <1>1
<1> QED BY <1>1, <1>2, <1>4, <1>5, <1>6, <1>7 DEF r

(* milliseconds_to_ticks(), for every nap and every width of an unsigned   *)
(* int.  As long as TIMEDIVISOR * milliseconds does not wrap, the ticks    *)
(* are the whole ticks of 1000 / TIMEDIVISOR milliseconds in the nap, and  *)
(* a longer nap never has fewer.  When it wraps the nap is cut short, by   *)
(* UINT / TIMEDIVISOR milliseconds at least (sleep.c).                     *)
THEOREM NapTicks ==
  ASSUME NEW ms \in Nat, NEW more \in Nat, ms <= more
  PROVE  LET ticks == milliseconds_to_ticks(ms)
             later == milliseconds_to_ticks(more)
         IN  /\ TIMEDIVISOR * ms < UINT =>
                  1000 * ticks <= TIMEDIVISOR * ms /\ TIMEDIVISOR * ms < 1000 * (ticks + 1)
             /\ TIMEDIVISOR * more < UINT => ticks <= later
             /\ TIMEDIVISOR * ms >= UINT => 1000 * ticks <= TIMEDIVISOR * ms - UINT
<1> DEFINE c == TIMEDIVISOR * ms
           d == TIMEDIVISOR * more
           m == c % UINT
           l == d % UINT
           t == m \div 1000
           u == l \div 1000
<1>1. c \in Nat /\ d \in Nat /\ c <= d
  BY DEF TIMEDIVISOR
<1>2. milliseconds_to_ticks(ms) = t /\ milliseconds_to_ticks(more) = u
  BY DEF milliseconds_to_ticks
<1> HIDE DEF c, d
<1>3. /\ m \in Nat /\ (c < UINT => m = c) /\ (c >= UINT => m <= c - UINT)
      /\ l \in Nat /\ (d < UINT => l = d)
  BY <1>1, Wrapped
<1> HIDE DEF m, l
<1>4. /\ t \in Nat /\ t * 1000 <= m /\ m < t * 1000 + 1000
      /\ u \in Nat /\ u * 1000 <= l /\ l < u * 1000 + 1000
  BY <1>3, Thousands
<1> HIDE DEF t, u
<1>5. c < UINT => 1000 * t <= c /\ c < 1000 * (t + 1)
  BY <1>1, <1>3, <1>4
<1>6. d < UINT => t <= u
  BY <1>1, <1>3, <1>4, SleepListAssumption
<1>7. c >= UINT => 1000 * t <= c - UINT
  BY <1>1, <1>3, <1>4, SleepListAssumption
<1> QED BY <1>2, <1>5, <1>6, <1>7 DEF c, d

-----------------------------------------------------------------------------
(* The order of the ready queue.                                           *)

(* ready() does not queue idleproc: it can only be the first pcb of the    *)
(* queue, where initproc() put it.                                         *)
IdleFirst(k) == \A s \in Slots : k.state[s] = "READY" => k.next[s] # IDLE

(* What leads from one pcb of the ready queue to the next stays: whoever   *)
(* is on it keeps its place, and others come behind.                       *)
QueueKept(k, r) ==
  /\ k.que["head"] # NULL => r.que["head"] = k.que["head"]
  /\ \A s \in Slots : k.state[s] = "READY" =>
        r.state[s] = "READY" /\ (k.next[s] # NULL => r.next[s] = k.next[s])
  /\ IdleFirst(k) => IdleFirst(r)

(* Over two steps.                                                         *)
LEMMA KeptTwice ==
  ASSUME NEW k, NEW m, NEW r, QueueKept(k, m), QueueKept(m, r)
  PROVE  QueueKept(k, r)
<1>1. k.que["head"] # NULL => r.que["head"] = k.que["head"]
  BY DEF QueueKept
<1>2. ASSUME NEW s \in Slots, k.state[s] = "READY"
      PROVE  r.state[s] = "READY" /\ (k.next[s] # NULL => r.next[s] = k.next[s])
  BY <1>2 DEF QueueKept
<1> QED BY <1>1, <1>2 DEF QueueKept

(* What does not touch the ready processes keeps the queue.                *)
LEMMA KeptAside ==
  ASSUME NEW k, NEW r, r.que["head"] = k.que["head"],
         \A s \in Slots : r.state[s] = "READY" <=> k.state[s] = "READY",
         \A s \in Slots : k.state[s] = "READY" => r.next[s] = k.next[s]
  PROVE  QueueKept(k, r)
BY DEF QueueKept, IdleFirst

(* v is u, with others behind.                                             *)
Ahead(u, v) == Len(u) <= Len(v) /\ \A i \in 1 .. Len(u) : v[i] = u[i]

(* The queue as a sequence is the list.                                    *)
LEMMA QueueIs ==
  ASSUME NEW k, NEW f, List(k.next, k.que["head"], f)
  PROVE  ReadySeqOf(k) = WithoutIdle(f) /\ f \in Seq(Pcbs)
<1> DEFINE at == Chain(k.next, k.que["head"])
           P(i) == (i = MAX_PROC \/ at[i] = NULL) /\ \A j \in 0 .. i - 1 : at[j] # NULL
           n  == CHOOSE i \in 0 .. MAX_PROC : P(i)
<1>1. \A i \in 0 .. MAX_PROC : at[i] = IF i < Len(f) THEN f[i + 1] ELSE NULL
  BY ListChain
<1>2. Len(f) \in Nat /\ Len(f) < MAX_PROC /\ On(f) \subseteq Pcbs /\ NULL \notin Pcbs /\ MAX_PROC \in Nat
      /\ f \in Seq(Pcbs)
  BY ListFacts, ListIsShort, Constants DEF List
<1>3. \A i \in 1 .. Len(f) : f[i] # NULL
  BY <1>2 DEF On
<1> HIDE DEF at
<1>4. Len(f) \in 0 .. MAX_PROC /\ P(Len(f))
  BY <1>1, <1>2, <1>3
<1>5. ASSUME NEW i \in 0 .. MAX_PROC, P(i) PROVE i = Len(f)
  <2>1. i < Len(f) => FALSE
    BY <1>1, <1>2, <1>3, <1>5
  <2>2. i > Len(f) => FALSE
    <3> HAVE i > Len(f)
    <3>1. Len(f) \in 0 .. i - 1
      BY <1>2
    <3> QED BY <1>1, <1>2, <1>5, <3>1
  <2> QED BY <1>2, <2>1, <2>2
<1>6. n = Len(f)
  <2>1. n \in 0 .. MAX_PROC /\ P(n)
    BY <1>4
  <2> HIDE DEF n, P
  <2> QED BY <1>5, <2>1
<1> HIDE DEF n
<1>7. [i \in 1 .. n |-> at[i - 1]] = f
  <2>1. \A i \in 1 .. n : at[i - 1] = f[i]
    BY <1>1, <1>2, <1>6
  <2> QED BY <1>2, <1>6, <2>1
<1> QED BY <1>2, <1>7 DEF ReadySeqOf, n, at

(* The processes on the queue keep their places.                           *)
LEMMA KeptAhead ==
  ASSUME NEW k, NEW X, Sound(k, X), NEW r, NEW Y, Sound(r, Y), QueueKept(k, r)
  PROVE  Ahead(ReadySeqOf(k), ReadySeqOf(r))
<1>1. PICK f : ReadyIs(k, f)
  BY DEF Sound, Lists
<1>2. PICK e : ReadyIs(r, e)
  BY DEF Sound, Lists
<1>3. /\ List(k.next, k.que["head"], f) /\ List(r.next, r.que["head"], e)
      /\ \A s \in On(f) : k.state[s] = "READY" /\ s \in Slots /\ s \in Pcbs
      /\ Len(f) \in Nat /\ Len(e) \in Nat /\ NULL \notin Pcbs
  <2>1. On(f) \subseteq Pcbs /\ Len(f) \in Nat /\ Len(e) \in Nat
    BY <1>1, <1>2, ListFacts DEF ReadyIs
  <2> QED BY <1>1, <1>2, <2>1, Constants DEF ReadyIs
<1> DEFINE Bad == {i \in 1 .. Len(f) : ~(i <= Len(e) /\ e[i] = f[i])}
<1>4. Bad = {}
  <2>1. SUFFICES ASSUME Bad # {} PROVE FALSE
    OBVIOUS
  <2>2. PICK i \in Bad : \A j \in Bad : i <= j
    <3>1. Bad \subseteq Nat
      OBVIOUS
    <3> HIDE DEF Bad
    <3> QED BY <2>1, <3>1, HasMinimum
  <2>3. i \in 1 .. Len(f) /\ ~(i <= Len(e) /\ e[i] = f[i]) /\ f[i] # NULL
    BY <1>3, <2>2 DEF On
  <2>4. CASE i = 1
    <3>1. k.que["head"] = f[1] /\ r.que["head"] = f[1]
      BY <1>3, <2>3, <2>4 DEF List, QueueKept
    <3>2. Len(e) # 0 /\ e[1] = f[1]
      BY <1>3, <2>3, <2>4, <3>1 DEF List
    <3> QED BY <1>3, <2>3, <2>4, <3>2
  <2>5. CASE i # 1
    <3>1. i - 1 \in 1 .. Len(f) /\ ~(i <= i - 1) /\ i - 1 # Len(f) /\ (i - 1) + 1 = i
      BY <1>3, <2>3, <2>5
    <3>2. i - 1 <= Len(e) /\ e[i - 1] = f[i - 1] /\ i - 1 \in 1 .. Len(e)
      BY <1>3, <2>2, <3>1
    <3>3. k.next[f[i - 1]] = f[i]
      BY <1>3, <3>1 DEF List
    <3>4. r.next[e[i - 1]] = f[i]
      BY <1>3, <2>3, <3>1, <3>2, <3>3 DEF On, QueueKept
    <3>5. r.next[e[i - 1]] = IF i - 1 = Len(e) THEN NULL ELSE e[(i - 1) + 1]
      BY <1>3, <3>2 DEF List
    <3> QED BY <1>3, <2>3, <3>1, <3>2, <3>4, <3>5
  <2> QED BY <2>4, <2>5
<1>5. \A i \in 1 .. Len(f) : i <= Len(e) /\ e[i] = f[i]
  BY <1>4
<1>6. Len(f) <= Len(e)
  <2>1. Len(f) # 0 => Len(f) \in 1 .. Len(f)
    BY <1>3
  <2> QED BY <1>3, <1>5, <2>1
<1>7. ReadySeqOf(k) = WithoutIdle(f) /\ ReadySeqOf(r) = WithoutIdle(e) /\ f \in Seq(Pcbs) /\ e \in Seq(Pcbs)
  BY <1>3, QueueIs
<1>8. Ahead(WithoutIdle(f), WithoutIdle(e))
  <2>1. CASE Len(f) = 0
    <3>1. Len(WithoutIdle(f)) = 0 /\ Len(WithoutIdle(e)) \in Nat
      BY <1>7, <2>1 DEF WithoutIdle
    <3> QED BY <3>1 DEF Ahead
  <2>2. CASE Len(f) # 0 /\ f[1] = IDLE
    <3>1. 1 \in 1 .. Len(f) /\ Len(e) > 0 /\ e[1] = IDLE
      BY <1>3, <1>5, <1>6, <2>2
    <3>2. WithoutIdle(f) = Tail(f) /\ WithoutIdle(e) = Tail(e)
      BY <1>3, <2>2, <3>1 DEF WithoutIdle
    <3>3. /\ Len(Tail(f)) = Len(f) - 1 /\ Len(Tail(e)) = Len(e) - 1
          /\ \A i \in 1 .. Len(f) - 1 : Tail(f)[i] = f[i + 1]
          /\ \A i \in 1 .. Len(e) - 1 : Tail(e)[i] = e[i + 1]
      BY <1>3, <1>7, <2>2, <3>1
    <3>4. \A i \in 1 .. Len(f) - 1 : Tail(e)[i] = Tail(f)[i]
      BY <1>3, <1>5, <1>6, <3>3
    <3> QED BY <1>3, <1>6, <3>2, <3>3, <3>4 DEF Ahead
  <2>3. CASE Len(f) # 0 /\ f[1] # IDLE
    <3>1. 1 \in 1 .. Len(f) /\ Len(e) > 0 /\ e[1] # IDLE
      BY <1>3, <1>5, <1>6, <2>3
    <3>2. WithoutIdle(f) = f /\ WithoutIdle(e) = e
      BY <1>3, <2>3, <3>1 DEF WithoutIdle
    <3> QED BY <1>5, <1>6, <3>2 DEF Ahead
  <2> QED BY <2>1, <2>2, <2>3
<1> QED BY <1>7, <1>8

-----------------------------------------------------------------------------
(* The operations on the lists.                                            *)

(* ready() puts its process behind the last one.                           *)
LEMMA ready_Queue ==
  ASSUME NEW k, NEW X, Sound(k, X), NEW p, Loose(k, p)
  PROVE  QueueKept(k, ready(k, p))
<1> DEFINE r == ready(k, p)
<1>1. k \in KernelType /\ Facts(k, X) /\ p \in Pcbs /\ p \in Slots /\ k.state[p] # "READY"
      /\ NULL \notin Slots /\ IDLE # NULL
  BY Constants DEF Sound, Loose
<1>2. PICK f : ReadyIs(k, f)
  BY DEF Sound, Lists
<1>3. /\ k.tail = NULL <=> k.que["head"] = NULL
      /\ k.tail # NULL => k.tail \in Slots /\ k.next[k.tail] = NULL /\ k.state[k.tail] = "READY"
  <2>1. List(k.next, k.que["head"], f) /\ k.tail = (IF Len(f) = 0 THEN NULL ELSE Last(f))
        /\ \A s \in On(f) : s \in Pcbs => k.state[s] = "READY"
    BY <1>2 DEF ReadyIs
  <2>2. /\ On(f) \subseteq Pcbs /\ Len(f) \in Nat /\ (k.que["head"] = NULL <=> Len(f) = 0)
        /\ Len(f) # 0 => Last(f) \in On(f) /\ k.next[Last(f)] = NULL
    BY <2>1, ListFacts
  <2>3. Len(f) # 0 => k.tail \in Pcbs /\ k.next[k.tail] = NULL /\ k.state[k.tail] = "READY"
    BY <2>1, <2>2
  <2> QED BY <2>1, <2>2, <2>3, Constants
<1>4. k.tail # p
  BY <1>1, <1>3
<1>5. /\ r.state = [k.state EXCEPT ![p] = "READY"]
      /\ r.next[p] = NULL
      /\ \A s \in Slots : s # p /\ (s # k.tail \/ p = IDLE) => r.next[s] = k.next[s]
      /\ p = IDLE => r.que["head"] = k.que["head"] /\ r.tail = k.tail
      /\ p # IDLE => /\ r.tail = p
                     /\ k.tail # NULL => r.que["head"] = k.que["head"] /\ r.next[k.tail] = p
                     /\ k.tail = NULL => r.que["head"] = p
  BY <1>1, <1>4, ready_Fields
<1> HIDE DEF r
<1>6. \A s \in Slots : r.state[s] = IF s = p THEN "READY" ELSE k.state[s]
  BY <1>1, <1>5 DEF KernelType
<1>7. k.que["head"] # NULL => r.que["head"] = k.que["head"]
  BY <1>3, <1>5
<1>8. ASSUME NEW s \in Slots, k.state[s] = "READY"
      PROVE  r.state[s] = "READY" /\ (k.next[s] # NULL => r.next[s] = k.next[s])
  BY <1>1, <1>3, <1>5, <1>6, <1>8
<1>9. IdleFirst(k) => IdleFirst(r)
  BY <1>1, <1>5, <1>6 DEF IdleFirst
<1>10. QueueKept(k, r)
  BY <1>7, <1>8, <1>9 DEF QueueKept
<1> QED BY <1>10 DEF r

(* append() to the list of blocked or stopped processes.                   *)
LEMMA append_Queue ==
  ASSUME NEW k \in KernelType, NEW q \in {"blocked_q", "dead_q"}, NEW b, List(k.next, k.que[q], b),
         \A s \in Pcbs : s \in On(b) => k.state[s] # "READY",
         NEW p \in Pcbs, p \notin On(b), k.state[p] # "READY"
  PROVE  QueueKept(k, append(k, q, p))
<1> DEFINE r == append(k, q, p)
           e == Append(b, p)
<1>1. q \in QNames /\ "head" \in QNames /\ q # "head"
  BY DEF QNames
<1>2. /\ LinksOnly(k, r, q) /\ On(e) = On(b) \cup {p}
      /\ \A s \in Slots : s \notin On(e) => r.next[s] = k.next[s]
  BY <1>1, append_Is
<1> HIDE DEF r, e
<1>3. On(b) \subseteq Pcbs
  BY ListFacts
<1>4. r.state = k.state /\ r.que["head"] = k.que["head"]
  BY <1>1, <1>2 DEF LinksOnly
<1>5. \A s \in Slots : k.state[s] = "READY" => r.next[s] = k.next[s]
  BY <1>2, <1>3
<1>6. QueueKept(k, r)
  BY <1>4, <1>5, KeptAside
<1> QED BY <1>6 DEF r

(* remove() of a blocked process.                                          *)
LEMMA remove_Queue ==
  ASSUME NEW k, NEW X, Sound(k, X), NEW p \in Pcbs, k.pid[p] # 0
  PROVE  QueueKept(k, remove(k, "blocked_q", k.pid[p]))
<1> DEFINE r == remove(k, "blocked_q", k.pid[p])
<1>1. k \in KernelType /\ Facts(k, X) /\ Pcbs \subseteq Slots /\ "blocked_q" \in QNames
  BY Constants DEF Sound, QNames
<1>2. PICK b : WaitersAre(k, b)
  BY DEF Sound, Lists
<1>3. List(k.next, k.que["blocked_q"], b) /\ On(b) \subseteq Pcbs /\ \A s \in On(b) : k.state[s] = "BLOCKED"
  BY <1>2, ListFacts DEF WaitersAre
<1>4. \A s \in On(b) : k.pid[s] = k.pid[p] <=> s = p
  <2>1. k.pid[p] \in Nat /\ \A s \in Slots : k.pid[s] > 0 => Slot(k.pid[s]) = s
    BY <1>1, PidIsNat DEF Facts
  <2> QED BY <1>1, <1>3, <2>1
<1>5. LinksOnly(k, r, "blocked_q") /\ \A s \in Pcbs : s \notin On(b) => r.next[s] = k.next[s]
  BY <1>1, <1>3, <1>4, remove_Is
<1> HIDE DEF r
<1>6. r.state = k.state /\ r.que["head"] = k.que["head"]
  BY <1>5 DEF LinksOnly, QNames
<1>7. \A s \in Slots : k.state[s] = "READY" => s \in Pcbs /\ s \notin On(b)
  BY <1>1, <1>3 DEF Facts, Pcbs
<1>8. QueueKept(k, r)
  BY <1>5, <1>6, <1>7, KeptAside
<1> QED BY <1>8 DEF r

(* Results and arguments are not on the lists.                             *)
LEMMA Set_Queue ==
  ASSUME NEW k \in KernelType, NEW p, NEW n
  PROVE  QueueKept(k, [k EXCEPT !.ret[p] = n]) /\ QueueKept(k, [k EXCEPT !.arg[p] = n])
BY DEF QueueKept, IdleFirst, KernelType

(* Nor are the arguments of a call.                                        *)
LEMMA WithArgs_Queue ==
  ASSUME NEW k \in KernelType, NEW p, NEW call, NEW arg, NEW buf, NEW msg
  PROVE  QueueKept(k, WithArgs(k, p, call, arg, buf, msg))
BY DEF WithArgs, QueueKept, IdleFirst, KernelType

(* The process that runs leaves the CPU for a list of waiting ones.        *)
LEMMA Leave_Queue ==
  ASSUME NEW k, Sound(k, {}), NEW p \in Slots, k.state[p] = "RUNNING",
         NEW q \in {"blocked_q", "dead_q"}, NEW m \in KernelType,
         m.que = k.que, m.state[p] \in {"BLOCKED", "STOPPED"},
         \A s \in Slots : s # p => m.state[s] = k.state[s] /\ m.next[s] = k.next[s]
  PROVE  QueueKept(k, append(m, q, p))
<1>1. PICK f, g, b, d : Lists(k, f, g, b, d)
  BY DEF Sound
<1> DEFINE c == IF q = "dead_q" THEN d ELSE b
<1>2. List(k.next, k.que[q], c) /\ \A s \in On(c) : k.state[s] # "READY" /\ k.state[s] # "RUNNING"
  BY <1>1 DEF Lists, WaitersAre, DeadAre
<1> HIDE DEF c
<1>3. /\ On(c) \subseteq Pcbs /\ Pcbs \subseteq Slots /\ p \in Pcbs /\ p \notin On(c) /\ k \in KernelType
  BY <1>2, ListFacts, Constants, RunnerIsLoose DEF Sound, Loose
<1>4. List(m.next, m.que[q], c)
  <2>1. \A s \in On(c) : m.next[s] = k.next[s]
    BY <1>3
  <2>2. List(m.next, k.que[q], c)
    BY <1>2, <2>1, ListSame
  <2> QED BY <2>2
<1>5. \A s \in Pcbs : s \in On(c) => m.state[s] # "READY"
  BY <1>2, <1>3
<1>6. QueueKept(m, append(m, q, p))
  BY <1>3, <1>4, <1>5, append_Queue
<1>7. QueueKept(k, m)
  <2>1. \A s \in Slots : m.state[s] = "READY" <=> k.state[s] = "READY"
    OBVIOUS
  <2>2. \A s \in Slots : k.state[s] = "READY" => m.next[s] = k.next[s]
    OBVIOUS
  <2> QED BY <2>1, <2>2, KeptAside
<1> QED BY <1>6, <1>7, KeptTwice

(* sleep() links the caller in among the sleepers.                         *)
LEMMA sleep_Queue ==
  ASSUME NEW k, Sound(k, {}), NEW p \in Slots, k.state[p] = "RUNNING", NEW ms \in Nat
  PROVE  QueueKept(k, sleep(k, p, ms))
<1> DEFINE r == sleep(k, p, ms)
<1>1. PICK g : SleepersAre(k, g)
  BY DEF Sound, Lists
<1>2. List(k.next, k.headsleeper, g) /\ \A s \in Pcbs : s \in On(g) <=> k.state[s] = "SLEEP"
  BY <1>1 DEF SleepersAre
<1>3. p \in Pcbs /\ k \in KernelType /\ On(g) \subseteq Pcbs
  BY <1>2, RunnerIsLoose, ListFacts DEF Sound, Loose
<1>4. p \notin On(g)
  BY <1>2, <1>3
<1>5. /\ r.que = k.que /\ r.state[p] = "SLEEP" /\ \A s \in Slots : s # p => r.state[s] = k.state[s]
      /\ \E e : /\ On(e) = On(g) \cup {p}
                /\ \A s \in Slots : s \notin On(e) => r.next[s] = k.next[s]
  BY <1>2, <1>3, <1>4, sleep_Is
<1> HIDE DEF r
<1>6. \A s \in Slots : r.state[s] = "READY" <=> k.state[s] = "READY"
  BY <1>5
<1>7. \A s \in Slots : k.state[s] = "READY" => s \notin On(g) \cup {p}
  BY <1>2, <1>3
<1>8. \A s \in Slots : k.state[s] = "READY" => r.next[s] = k.next[s]
  BY <1>5, <1>7
<1>9. QueueKept(k, r)
  BY <1>5, <1>6, <1>8, KeptAside
<1> QED BY <1>9 DEF r

(* wake() puts the sleepers that are due behind the last one.              *)
LEMMA wake_Queue ==
  ASSUME NEW k, Handed(k), k.headsleeper # NULL
  PROVE  QueueKept(k, wake(k))
<1> DEFINE r == wake(k)
           h == k.headsleeper
           n == DueCount(k, Chain(k.next, k.headsleeper))
<1>1. PICK f, g, b, d : Lists(k, f, g, b, d)
  BY DEF Handed, Sound
<1>2. /\ k \in KernelType /\ k.state[IDLE] # "SLEEP" /\ IDLE \in Pcbs /\ IDLE # NULL /\ Pcbs \subseteq Slots
      /\ NULL \notin Slots
  BY HandedIs, Constants DEF Facts
<1>3. /\ SleepersAre(k, g) /\ List(k.next, h, g) /\ On(g) \subseteq Pcbs /\ h \in On(g)
      /\ \A s \in Pcbs : s \in On(g) <=> k.state[s] = "SLEEP"
      /\ \A s \in On(g) : k.next[s] # NULL => k.next[s] \in On(g)
  <2>1. SleepersAre(k, g) /\ List(k.next, h, g) /\ \A s \in Pcbs : s \in On(g) <=> k.state[s] = "SLEEP"
    BY <1>1 DEF Lists, SleepersAre
  <2> QED BY <2>1, ListFacts, ListNext
<1>4. /\ List(k.next, k.que["head"], f) /\ k.tail = (IF Len(f) = 0 THEN NULL ELSE Last(f))
      /\ \A s \in On(f) : k.state[s] = "READY"
  <2>1. List(k.next, k.que["head"], f) /\ k.tail = (IF Len(f) = 0 THEN NULL ELSE Last(f))
    BY <1>1 DEF Lists, ReadyIs
  <2>2. \A s \in On(f) : k.state[s] = "READY"
    BY <1>1, <1>2, Disjoint
  <2> QED BY <2>1, <2>2
<1>5. /\ k.tail = NULL <=> k.que["head"] = NULL
      /\ k.tail # NULL => k.tail \in Slots /\ k.next[k.tail] = NULL
  <2>1. /\ On(f) \subseteq Pcbs /\ Len(f) \in Nat /\ (k.que["head"] = NULL <=> Len(f) = 0)
        /\ Len(f) # 0 => Last(f) \in On(f) /\ k.next[Last(f)] = NULL
    BY <1>4, ListFacts
  <2>2. Len(f) # 0 => k.tail \in Pcbs /\ k.next[k.tail] = NULL
    BY <1>4, <2>1
  <2> QED BY <1>2, <1>4, <2>1, <2>2
<1>6. n = DueCount(k, Chain(k.next, k.headsleeper)) /\ h = k.headsleeper /\ (k.tail = NULL \/ k.tail \in Slots)
  BY <1>5
<1> HIDE DEF h, n
<1>7. /\ n \in 1 .. Len(g)
      /\ \A s \in Slots : r.state[s] = IF s \in {g[i] : i \in 1 .. n} THEN "READY" ELSE k.state[s]
      /\ \A s \in Slots : r.next[s] = IF s = g[n] THEN NULL ELSE IF s = k.tail THEN h ELSE k.next[s]
      /\ r.que["head"] = IF k.tail = NULL THEN h ELSE k.que["head"]
  BY <1>2, <1>3, <1>6, wake_Is
<1> DEFINE W == {g[i] : i \in 1 .. n}
<1>8. W \subseteq On(g) /\ g[n] \in On(g)
  <2>1. Len(g) \in Nat
    BY <1>3, ListFacts
  <2> QED BY <1>7, <2>1 DEF On
<1>9. \A s \in Slots : r.state[s] = IF s \in W THEN "READY" ELSE k.state[s]
  BY <1>7
<1> HIDE DEF W, r
<1>10. k.que["head"] # NULL => r.que["head"] = k.que["head"]
  BY <1>5, <1>7
<1>11. ASSUME NEW s \in Slots, k.state[s] = "READY"
       PROVE  r.state[s] = "READY" /\ (k.next[s] # NULL => r.next[s] = k.next[s])
  <2>1. s # g[n]
    BY <1>2, <1>3, <1>8, <1>11
  <2>2. r.next[s] = IF s = g[n] THEN NULL ELSE IF s = k.tail THEN h ELSE k.next[s]
    BY <1>7
  <2>3. r.state[s] = "READY"
    BY <1>9, <1>11
  <2>4. CASE s = k.tail
    <3>1. k.tail # NULL
      BY <1>2, <2>4
    <3>2. k.next[s] = NULL
      BY <1>5, <2>4, <3>1
    <3> QED BY <2>3, <3>2
  <2>5. CASE s # k.tail
    BY <2>1, <2>2, <2>3, <2>5
  <2> QED BY <2>4, <2>5
<1>12. ASSUME IdleFirst(k), NEW s \in Slots, r.state[s] = "READY"
       PROVE  r.next[s] # IDLE
  <2>1. s \in W => k.next[s] # IDLE
    BY <1>2, <1>3, <1>8
  <2>2. k.next[s] # IDLE
    BY <1>9, <1>12, <2>1 DEF IdleFirst
  <2>3. h # IDLE
    BY <1>2, <1>3
  <2> QED BY <1>2, <1>7, <2>2, <2>3
<1>13. QueueKept(k, r)
  BY <1>10, <1>11, <1>12 DEF QueueKept, IdleFirst
<1> QED BY <1>13 DEF r

(* The tick after next() in the timer's case.                              *)
LEMMA tick_Queue ==
  ASSUME NEW k, Handed(k)
  PROVE  QueueKept(k, tick(k))
<1>1. ASSUME NEW m \in KernelType PROVE QueueKept(m, CountDown(m))
  <2> DEFINE r == CountDown(m)
  <2>1. r.state = m.state /\ r.que = m.que /\ r.next = m.next
    BY DEF CountDown, KernelType
  <2> HIDE DEF r
  <2>2. QueueKept(m, r)
    BY <2>1, KeptAside
  <2> QED BY <2>2 DEF r
<1>2. k \in KernelType /\ QueueKept(k, k)
  BY HandedIs DEF QueueKept
<1>3. CASE k.headsleeper = NULL
  BY <1>2, <1>3 DEF tick
<1>4. CASE k.headsleeper # NULL
  <2>1. wake(k) \in KernelType
    BY <1>4, wake_Hands, HandedIs
  <2>2. QueueKept(k, wake(k))
    BY <1>4, wake_Queue
  <2>3. QueueKept(k, CountDown(wake(k)))
    BY <1>1, <2>1, <2>2, KeptTwice
  <2> QED BY <1>1, <1>2, <1>4, <2>3 DEF tick
<1> QED BY <1>3, <1>4

-----------------------------------------------------------------------------
(* next() takes the first of the ready queue.                              *)
LEMMA Run_Order ==
  ASSUME NEW k \in KernelType, NEW h \in Pcbs, IdleFirst(k), h = IDLE \/ k.next[h] # IDLE
  PROVE  /\ Run(k, h).que["running"] = h /\ Run(k, h).que["head"] = k.que["head"]
         /\ Run(k, h).next = k.next /\ IdleFirst(Run(k, h))
<1> DEFINE r == Run(k, h)
<1>1. /\ r.que["running"] = h /\ r.que["head"] = k.que["head"] /\ r.next = k.next
      /\ r.state = [k.state EXCEPT ![h] = "RUNNING"]
  BY Run_Fields
<1> HIDE DEF r
<1>2. \A s \in Slots : r.state[s] = "READY" => k.state[s] = "READY"
  BY <1>1 DEF KernelType
<1>3. IdleFirst(r)
  BY <1>1, <1>2 DEF IdleFirst
<1> QED BY <1>1, <1>3 DEF r

(* Pop.                                                                    *)
LEMMA Pop_Order ==
  ASSUME NEW k \in KernelType, NEW f, List(k.next, k.que["head"], f), Len(f) # 0, IdleFirst(k)
  PROVE  /\ k.que["head"] = f[1] /\ f[1] \in Pcbs
         /\ Pop(k) \in KernelType /\ Pop(k).state = k.state /\ IdleFirst(Pop(k))
         /\ Pop(k).next[f[1]] = NULL
         /\ List(Pop(k).next, Pop(k).que["head"], Tail(f))
<1> DEFINE r == Pop(k)
           h == k.que["head"]
<1>1. h = f[1] /\ h \in Pcbs /\ h \in Slots /\ NULL # IDLE
  <2>1. On(f) \subseteq Pcbs /\ h \in On(f) /\ h = f[1]
    BY ListFacts
  <2> QED BY <2>1, Constants
<1>2. /\ r \in KernelType /\ r.state = k.state /\ r.que["head"] = k.next[h]
      /\ r.next = [k.next EXCEPT ![h] = NULL]
  BY <1>1, Pop_Fields
<1> HIDE DEF r
<1>3. \A s \in Slots : r.next[s] = IF s = h THEN NULL ELSE k.next[s]
  BY <1>1, <1>2 DEF KernelType
<1>4. IdleFirst(r)
  BY <1>1, <1>2, <1>3 DEF IdleFirst
<1>5. List(k.next, k.next[h], Tail(f)) /\ On(Tail(f)) = On(f) \ {h}
  BY ListPop
<1>6. \A s \in On(Tail(f)) : r.next[s] = k.next[s]
  <2>1. On(f) \subseteq Pcbs
    BY ListFacts
  <2> QED BY <1>3, <1>5, <2>1, Constants
<1>7. List(r.next, k.next[h], Tail(f))
  BY <1>5, <1>6, ListSame
<1> QED BY <1>1, <1>2, <1>3, <1>4, <1>7 DEF r

(* idleproc stands at the head or nowhere.                                 *)
LEMMA IdleNotBehind ==
  ASSUME NEW k, NEW f, List(k.next, k.que["head"], f), IdleFirst(k),
         \A s \in On(f) : k.state[s] = "READY"
  PROVE  \A i \in 1 .. Len(f) : i # 1 => f[i] # IDLE
<1>1. Len(f) \in Nat /\ On(f) \subseteq Pcbs /\ Pcbs \subseteq Slots
  BY ListFacts, Constants
<1>2. ASSUME NEW i \in 1 .. Len(f), i # 1 PROVE f[i] # IDLE
  <2>1. i - 1 \in 1 .. Len(f) /\ i - 1 # Len(f) /\ (i - 1) + 1 = i
    BY <1>1, <1>2
  <2>2. k.next[f[i - 1]] = f[i]
    BY <2>1 DEF List
  <2>3. f[i - 1] \in On(f)
    BY <2>1 DEF On
  <2> QED BY <1>1, <2>2, <2>3 DEF IdleFirst
<1> QED BY <1>2

(* next() and idleproc: what Dispatch does, seen from the queue.           *)
LEMMA Dispatch_Is ==
  ASSUME NEW k, Sound(k, {}), Runners(k) = {}, NEW h, h = k.que["head"], NEW m, m = Pop(k)
  PROVE  /\ h = NULL => Dispatch(k) = Run(k, IDLE)
         /\ h # NULL /\ h # IDLE => Dispatch(k) = Run(m, h)
         /\ h = IDLE => Dispatch(k) = IF m.que["head"] = NULL THEN Run(m, h)
                                      ELSE Run(Pop(m), m.que["head"])
         /\ h # NULL => h \in Pcbs
<1> DEFINE q == k.que["running"]
<1>1. k \in KernelType /\ Facts(k, {}) /\ IDLE \in Pcbs /\ IDLE \in Slots /\ NULL \notin Slots
      /\ Pcbs \subseteq Slots /\ q \in Pcbs
  BY Constants DEF Sound, Facts
<1>2. k.state[IDLE] = "READY"
  BY <1>1 DEF Facts, Runners
<1>3. h = NULL => Dispatch(k) = Run(k, IDLE)
  BY DEF Dispatch
<1>4. ASSUME h # NULL
      PROVE  /\ h \in Pcbs /\ k.state[h] = "READY" /\ Aligned(k, h) /\ (k.pid[h] = IDLE => h = IDLE)
             /\ (k.pid[q] = IDLE => q = IDLE) /\ k.pid[IDLE] = IDLE
  <2>1. h \in Pcbs /\ k.state[h] = "READY"
    BY <1>4, Pop_Lists
  <2> QED BY <1>1, <2>1, SoundAligned DEF Facts
<1>5. h = IDLE => Dispatch(k) = IF m.que["head"] = NULL THEN Run(m, h)
                                ELSE Run(Pop(m), m.que["head"])
  BY <1>1, <1>4 DEF Dispatch
<1>6. ASSUME h # NULL, h # IDLE PROVE Dispatch(k) = Run(m, h)
  <2> DEFINE w == [m EXCEPT !.state[q] = "READY"]
  <2>1. Dispatch(k) = IF k.pid[q] = IDLE THEN Run(w, h) ELSE Run(m, h)
    BY <1>4, <1>6 DEF Dispatch
  <2>2. m.state = k.state /\ m \in KernelType
    BY <1>1, <1>4, <1>6, Pop_Fields
  <2>3. q = IDLE => w = m
    BY <1>1, <1>2, <2>2 DEF KernelType
  <2> QED BY <1>4, <1>6, <2>1, <2>3
<1> QED BY <1>3, <1>4, <1>5, <1>6

(* After next() the CPU has the first process of the queue, or idleproc    *)
(* when there is none, and the others are still there.                     *)
Given(e, r) ==
  /\ IdleFirst(r)
  /\ Len(e) = 0 => r.que["running"] = IDLE /\ ReadySeqOf(r) = <<>>
  /\ Len(e) # 0 => r.que["running"] = Head(e) /\ ReadySeqOf(r) = Tail(e)

(* The first of the queue gets the CPU.                                    *)
LEMMA Given_Front ==
  ASSUME NEW k \in KernelType, IdleFirst(k), NEW f, List(k.next, k.que["head"], f),
         Len(f) # 0, f[1] # IDLE, \A s \in On(f) : k.state[s] = "READY"
  PROVE  Given(f, Run(Pop(k), f[1]))
<1> DEFINE m == Pop(k)
           h == f[1]
           r == Run(m, h)
           e == Tail(f)
<1>1. /\ h \in Pcbs /\ m \in KernelType /\ IdleFirst(m) /\ m.next[h] = NULL
      /\ List(m.next, m.que["head"], e)
  BY Pop_Order
<1>2. \A i \in 1 .. Len(f) : i # 1 => f[i] # IDLE
  BY IdleNotBehind
<1> HIDE DEF m, h
<1>3. NULL # IDLE
  BY Constants
<1>4. r.que["running"] = h /\ r.que["head"] = m.que["head"] /\ r.next = m.next /\ IdleFirst(r)
  BY <1>1, <1>3, Run_Order
<1> HIDE DEF r
<1>5. ReadySeqOf(r) = WithoutIdle(e)
  BY <1>1, <1>4, QueueIs
<1>6. f \in Seq(Pcbs) /\ Len(f) \in Nat /\ Len(f) > 0
  <2>1. f \in Seq(Pcbs) /\ Len(f) \in Nat
    BY DEF List
  <2> QED BY <2>1
<1>7. Len(e) > 0 => e[1] = f[2] /\ 2 \in 1 .. Len(f)
  BY <1>6
<1>8. WithoutIdle(e) = e
  BY <1>2, <1>7 DEF WithoutIdle
<1>9. Head(f) = h
  BY <1>6 DEF h
<1> QED BY <1>4, <1>5, <1>6, <1>8, <1>9 DEF Given, r, m, h

(* next() gives the CPU to the first of the queue, to idleproc when there  *)
(* is none, also when it first takes idleproc off the queue.               *)
LEMMA Dispatch_Order ==
  ASSUME NEW k, Sound(k, {}), Runners(k) = {}, IdleFirst(k)
  PROVE  Given(ReadySeqOf(k), Dispatch(k))
<1> DEFINE h == k.que["head"]
           m == Pop(k)
           r == Dispatch(k)
<1>1. PICK f : ReadyIs(k, f)
  BY DEF Sound, Lists
<1>2. /\ List(k.next, h, f) /\ k \in KernelType /\ IDLE \in Pcbs /\ IDLE # NULL
      /\ \A s \in On(f) : k.state[s] = "READY"
  <2>1. List(k.next, h, f) /\ On(f) \subseteq Pcbs
    BY <1>1, ListFacts DEF ReadyIs
  <2> QED BY <1>1, <2>1, Constants DEF ReadyIs, Sound
<1>3. ReadySeqOf(k) = WithoutIdle(f)
  BY <1>2, QueueIs
<1>4. /\ h = NULL => r = Run(k, IDLE)
      /\ h # NULL /\ h # IDLE => r = Run(m, h)
      /\ h = IDLE => r = IF m.que["head"] = NULL THEN Run(m, h)
                                      ELSE Run(Pop(m), m.que["head"])
  BY Dispatch_Is
<1> HIDE DEF r
<1>5. /\ Len(f) \in Nat /\ f \in Seq(Pcbs) /\ (h = NULL <=> Len(f) = 0) /\ (Len(f) # 0 => h = f[1])
  <2>1. f \in Seq(Pcbs)
    BY <1>2 DEF List
  <2> QED BY <1>2, <2>1, ListFacts
<1>6. ASSUME NEW w \in KernelType, IdleFirst(w), w.que["head"] = NULL
      PROVE  Given(<<>>, Run(w, IDLE))
  <2> DEFINE v == Run(w, IDLE)
  <2>1. v.que["running"] = IDLE /\ v.que["head"] = NULL /\ IdleFirst(v)
    BY <1>2, <1>6, Run_Order
  <2> HIDE DEF v
  <2>2. List(v.next, v.que["head"], <<>>)
    BY <2>1, EmptyList
  <2>3. ReadySeqOf(v) = WithoutIdle(<<>>)
    BY <2>2, QueueIs
  <2>4. WithoutIdle(<<>>) = <<>>
    BY DEF WithoutIdle
  <2> QED BY <2>1, <2>3, <2>4 DEF Given, v
<1>7. CASE h = NULL
  <2>1. f = <<>> /\ WithoutIdle(f) = <<>>
    BY <1>5, <1>7 DEF WithoutIdle
  <2>2. Given(<<>>, Run(k, IDLE))
    BY <1>2, <1>6, <1>7
  <2> QED BY <1>3, <1>4, <1>7, <2>1, <2>2 DEF r
<1>8. CASE h # NULL /\ h # IDLE
  <2>1. Len(f) # 0 /\ f[1] # IDLE /\ h = f[1]
    BY <1>5, <1>8
  <2>2. WithoutIdle(f) = f
    BY <2>1 DEF WithoutIdle
  <2>3. Given(f, Run(Pop(k), f[1]))
    BY <1>2, <2>1, Given_Front
  <2> QED BY <1>3, <1>4, <1>8, <2>1, <2>2, <2>3 DEF r
<1>9. CASE h = IDLE
  <2>1. Len(f) # 0 /\ f[1] = IDLE /\ Len(f) > 0
    BY <1>2, <1>5, <1>9
  <2> DEFINE e == Tail(f)
  <2>2. WithoutIdle(f) = e /\ Len(e) \in Nat /\ e \in Seq(Pcbs) /\ \A i \in 1 .. Len(e) : e[i] = f[i + 1]
    BY <1>5, <2>1 DEF WithoutIdle
  <2>3. m \in KernelType /\ m.state = k.state /\ IdleFirst(m) /\ List(m.next, m.que["head"], e)
    BY <1>2, <2>1, Pop_Order
  <2>4. \A i \in 1 .. Len(f) : i # 1 => f[i] # IDLE
    BY <1>2, IdleNotBehind
  <2>5. On(e) \subseteq On(f)
    BY <1>2, <2>1, ListPop
  <2>6. e[1] # IDLE \/ Len(e) = 0
    <3>1. Len(f) = Len(e) + 1
      BY <1>5, <2>1
    <3>2. Len(e) # 0 => 1 \in 1 .. Len(e) /\ 2 \in 1 .. Len(f)
      BY <2>2, <3>1
    <3> QED BY <2>2, <2>4, <3>2
  <2> HIDE DEF m, e
  <2> DEFINE q == m.que["head"]
  <2>7. /\ q = NULL <=> Len(e) = 0
        /\ Len(e) # 0 => q = e[1]
    <3>1. List(m.next, q, e)
      BY <2>3
    <3> HIDE DEF q
    <3> QED BY <3>1, ListFacts
  <2>8. CASE Len(e) = 0
    <3>1. e = <<>>
      BY <2>2, <2>8
    <3>2. Given(<<>>, Run(m, IDLE))
      BY <1>6, <2>3, <2>7, <2>8
    <3> QED BY <1>3, <1>4, <1>9, <2>2, <2>7, <2>8, <3>1, <3>2 DEF r
  <2>9. CASE Len(e) # 0
    <3>1. e[1] # IDLE /\ \A s \in On(e) : m.state[s] = "READY"
      BY <1>2, <2>3, <2>5, <2>6, <2>9
    <3>2. Given(e, Run(Pop(m), e[1]))
      BY <2>3, <2>9, <3>1, Given_Front
    <3> QED BY <1>3, <1>4, <1>9, <2>2, <2>7, <2>9, <3>2 DEF r
  <2> QED BY <2>8, <2>9
<1>10. h = NULL \/ (h # NULL /\ h # IDLE) \/ h = IDLE
  OBVIOUS
<1> QED BY <1>7, <1>8, <1>9, <1>10

-----------------------------------------------------------------------------
(* The handlers up to next().                                              *)

(* create() takes a stopped slot, and queues it.                           *)
LEMMA create_Queue ==
  ASSUME Workload, NEW k, Handed(k), NEW i \in FreeSlots(k), NewPid(k, i) <= MaxPid, NEW allocated \in BOOLEAN,
         NEW p, p = k.que["running"]
  PROVE  /\ QueueKept(k, create(k, p, i, allocated))
         /\ create(k, p, i, allocated).que["running"] = p
<1> DEFINE r  == remove(k, "dead_q", i)
           k1 == [r EXCEPT !.pid[i] = NewPid(k, i)]
           k3 == ready(k1, i)
           w  == create(k, p, i, allocated)
<1>1. k \in KernelType /\ \A s \in Slots : k.state[s] = "READY" => k.state[s] # "STOPPED"
  BY HandedIs
<1>2. /\ r \in KernelType /\ r.state = k.state
      /\ Sound(k1, {}) /\ Loose(k1, i) /\ k1.state = k.state /\ k1.que["running"] = p
      /\ (\A s \in Slots : k.state[s] # "STOPPED" => k1.next[s] = k.next[s])
      /\ w = IF ~allocated THEN [k1 EXCEPT !.ret[p] = -1]
             ELSE [k3 EXCEPT !.ret[p] = Code(NewPid(k, i))]
  BY create_Is
<1>3. r.que["head"] = k.que["head"]
  BY <1>1, remove_Aside
<1> HIDE DEF r, w
<1>4. k1.que["head"] = k.que["head"]
  BY <1>2, <1>3 DEF KernelType
<1> HIDE DEF k1
<1>5. QueueKept(k, k1)
  <2>1. \A s \in Slots : k.state[s] = "READY" => k1.next[s] = k.next[s]
    BY <1>1, <1>2
  <2>2. \A s \in Slots : k1.state[s] = "READY" <=> k.state[s] = "READY"
    BY <1>2
  <2> QED BY <1>4, <2>1, <2>2, KeptAside
<1>6. QueueKept(k1, k3) /\ k1 \in KernelType
  BY <1>2, ready_Queue DEF Sound
<1>7. k3 \in KernelType /\ k3.que["running"] = p
  <2>1. Sound(k3, {} \ {i}) /\ k3.que["running"] = k1.que["running"]
    BY <1>2, ready_Sound
  <2> QED BY <1>2, <2>1 DEF Sound
<1> HIDE DEF k3
<1>8. QueueKept(k, k3)
  BY <1>5, <1>6, KeptTwice
<1>9. \A n : QueueKept(k1, [k1 EXCEPT !.ret[p] = n]) /\ [k1 EXCEPT !.ret[p] = n].que = k1.que
  BY <1>6, Set_Queue DEF KernelType
<1>10. \A n : QueueKept(k3, [k3 EXCEPT !.ret[p] = n]) /\ [k3 EXCEPT !.ret[p] = n].que = k3.que
  BY <1>7, Set_Queue DEF KernelType
<1>11. CASE ~allocated
  <2>1. QueueKept(k1, w) /\ w.que["running"] = p
    BY <1>2, <1>9, <1>11
  <2>2. QueueKept(k, w)
    BY <1>5, <2>1, KeptTwice
  <2> QED BY <2>1, <2>2 DEF w
<1>12. CASE allocated
  <2>1. QueueKept(k3, w) /\ w.que["running"] = p
    BY <1>2, <1>7, <1>10, <1>12
  <2>2. QueueKept(k, w)
    BY <1>8, <2>1, KeptTwice
  <2> QED BY <2>1, <2>2 DEF w
<1> QED BY <1>11, <1>12

(* Both partners of a transfer are queued.                                 *)
LEMMA Both_Queue ==
  ASSUME NEW k, Sound(k, {}), NEW p \in Slots, Runners(k) = {p},
         NEW other \in Slots, k.state[other] = "BLOCKED", NEW n \in Int
  PROVE  QueueKept(k, Both(k, p, other, n))
<1> DEFINE k0 == [k EXCEPT !.ret[p] = n, !.ret[other] = n]
           k1 == ready(k0, p)
           k2 == remove(k1, "blocked_q", k.pid[other])
           k3 == ready(k2, other)
<1>1. k \in KernelType /\ Facts(k, {}) /\ k.state[p] = "RUNNING" /\ other # p /\ other \in Pcbs
      /\ k.pid[other] # 0 /\ p \in Pcbs
  <2>1. k \in KernelType /\ Facts(k, {}) /\ k.state[p] = "RUNNING" /\ other # p
    BY DEF Sound, Runners
  <2>2. other # 0 /\ k.pid[other] # 0 /\ p # 0
    BY <2>1 DEF Facts
  <2> QED BY <2>1, <2>2 DEF Pcbs
<1>2. Sound(k0, {other}) /\ k0.state = k.state /\ k0.pid = k.pid /\ QueueKept(k, k0)
  <2> DEFINE m == [k EXCEPT !.ret[p] = n]
  <2>1. Sound(m, {}) /\ m.state = k.state
    <3>1. Sound(m, {})
      BY <1>1, SetRetSound
    <3> QED BY <1>1, <3>1 DEF KernelType
  <2>2. k0 = [m EXCEPT !.ret[other] = n]
    BY <1>1 DEF KernelType
  <2> HIDE DEF m, k0
  <2>3. Sound(k0, {} \cup {other})
    BY <2>1, <2>2, SetRetSound
  <2>4. {} \cup {other} = {other}
    OBVIOUS
  <2>5. k0.state = k.state /\ k0.pid = k.pid /\ k0.que = k.que /\ k0.next = k.next
    BY <1>1 DEF KernelType, k0
  <2>6. QueueKept(k, k0)
    BY <2>5, KeptAside
  <2> QED BY <2>3, <2>4, <2>5, <2>6
<1> HIDE DEF k0
<1>3. /\ Sound(k1, {other} \ {p}) /\ k1.pid = k.pid /\ k1.state = [k.state EXCEPT ![p] = "READY"]
      /\ QueueKept(k0, k1)
  <2>1. Loose(k0, p)
    BY <1>1, <1>2, RunnerIsLoose
  <2>2. Sound(k0, {other})
    BY <1>2
  <2>3. /\ Sound(k1, {other} \ {p}) /\ k1.pid = k0.pid
        /\ k1.state = [k0.state EXCEPT ![p] = "READY"]
    BY <2>1, <2>2, ready_Sound
  <2>4. QueueKept(k0, k1)
    BY <2>1, <2>2, ready_Queue
  <2> QED BY <1>2, <2>3, <2>4
<1> HIDE DEF k1
<1>4. {other} \ {p} = {other} /\ k1.state[other] = "BLOCKED"
  BY <1>1, <1>3 DEF KernelType
<1>5. /\ Sound(k2, {other}) /\ k2.state = k1.state /\ k2.pid = k.pid
      /\ other \notin Members(k2.next, k2.que["blocked_q"])
      /\ QueueKept(k1, k2)
  <2>1. Sound(k1, {other}) /\ other \in Pcbs /\ k1.pid[other] # 0 /\ k1.pid = k.pid
    BY <1>1, <1>3, <1>4
  <2> DEFINE r == remove(k1, "blocked_q", k1.pid[other])
  <2>2. /\ Sound(r, {other}) /\ r.state = k1.state /\ r.pid = k1.pid
        /\ other \notin Members(r.next, r.que["blocked_q"])
    BY <2>1, remove_Sound
  <2>3. QueueKept(k1, r)
    BY <2>1, remove_Queue
  <2>4. r = k2
    BY <2>1
  <2> HIDE DEF r, k2
  <2> QED BY <2>1, <2>2, <2>3, <2>4
<1>6. Both(k, p, other, n) = k3
  <2>1. get_q(k1.state[other]) = "blocked_q"
    BY <1>4 DEF get_q
  <2> QED BY <1>1, <2>1 DEF Both, k0, k1
<1> HIDE DEF k2
<1>7. Loose(k2, other)
  <2>1. PICK f, g, b, d : Lists(k2, f, g, b, d)
    BY <1>5 DEF Sound
  <2>2. \A s \in On(d) : k2.state[s] = "STOPPED"
    BY <2>1 DEF Lists, DeadAre
  <2>3. other \notin Members(k2.next, k2.que["dead_q"])
    BY <1>4, <1>5, <2>1, <2>2, Found
  <2> QED BY <1>1, <1>4, <1>5, <2>3 DEF Loose
<1>8. QueueKept(k2, k3)
  BY <1>5, <1>7, ready_Queue
<1> HIDE DEF k3
<1>9. QueueKept(k, k1) /\ QueueKept(k1, k3)
  BY <1>2, <1>3, <1>5, <1>8, KeptTwice
<1> QED BY <1>6, <1>9, KeptTwice

(* A fault, and what send() and recv() write, is not on the lists.         *)
LEMMA Fault_Queue ==
  ASSUME NEW k, NEW m \in KernelType, QueueKept(k, m), NEW why
  PROVE  QueueKept(k, Fault(m, why))
<1> DEFINE r == Fault(m, why)
<1>1. r.que = m.que /\ r.state = m.state /\ r.next = m.next
  BY DEF Fault, KernelType
<1> HIDE DEF r
<1>2. QueueKept(m, r)
  BY <1>1, KeptAside
<1>3. QueueKept(k, r)
  BY <1>2, KeptTwice
<1> QED BY <1>3 DEF r

(* send() up to the caller's own fate.                                     *)
LEMMA send_Queue ==
  ASSUME NEW k \in KernelType, NEW p, NEW zero
  PROVE  QueueKept(k, send(k, p, zero).mem)
<1> DEFINE to     == k.arg[p]
           dest   == Slot(to)
           copied == copy(k.buf[p], k.msg[p], k.buf[dest])
           told   == [k EXCEPT !.arg[dest] = k.pid[p]]
<1>1. \/ send(k, p, zero) = Outcome(k, 0, to)
      \/ send(k, p, zero) = Outcome(k, WOULD_DEADLOCK, to)
      \/ send(k, p, zero) \in {Outcome(told, copied, to), Outcome(k, copied, to)}
  BY DEF send
<1>2. QueueKept(k, told)
  BY Set_Queue
<1>3. QueueKept(k, k)
  BY DEF QueueKept
<1> HIDE DEF told, copied, to
<1>4. send(k, p, zero).mem \in {k, told}
  BY <1>1 DEF Outcome
<1> QED BY <1>2, <1>4, <1>3

(* The copy of a receive.                                                  *)
LEMMA Take_Queue ==
  ASSUME NEW k, NEW m \in KernelType, QueueKept(k, m), NEW s, NEW p, NEW from
  PROVE  QueueKept(k, Take(m, s, p, from).mem)
<1>1. Take(m, s, p, from).mem \in {m, Fault(m, "wild")}
  BY DEF Take, Outcome
<1>2. QueueKept(k, Fault(m, "wild"))
  BY Fault_Queue
<1> QED BY <1>1, <1>2

(* recv() from any process: the walk of blocked_q changes nothing.         *)
LEMMA RecvAny_Queue ==
  ASSUME NEW k \in KernelType, NEW p \in Slots, NEW G
  PROVE  QueueKept(k, RecvAny(k, p, G).mem)
<1> DEFINE at   == Chain(k.next, k.que["blocked_q"])
           hits == {n \in 0 .. MAX_PROC :
                       at[n] \in Pcbs /\ at[n] # p /\ SendsTo(k, at[n], k.pid[p], G)}
           n    == CHOOSE i \in hits : \A j \in hits : i <= j
           s    == at[n]
           told == [k EXCEPT !.arg[p] = k.pid[s]]
           why  == IF at[MAX_PROC] # NULL THEN Fault(k, "loop") ELSE k
<1>1. QueueKept(k, k) /\ QueueKept(k, Fault(k, "loop"))
  BY Fault_Queue DEF QueueKept
<1>2. CASE hits = {}
  <2>1. RecvAny(k, p, G) = Outcome(why, 0, 0)
    BY <1>2 DEF RecvAny
  <2>2. RecvAny(k, p, G).mem \in {k, Fault(k, "loop")}
    BY <2>1 DEF Outcome
  <2> QED BY <1>1, <2>2
<1>3. CASE hits # {}
  <2>1. n \in hits
    <3>1. hits \subseteq Nat
      OBVIOUS
    <3> HIDE DEF hits
    <3> QED BY <1>3, <3>1, HasMinimum
  <2>2. s \in Slots
    <3>1. at[n] \in Pcbs
      BY <2>1
    <3> QED BY <3>1, Constants
  <2>3. RecvAny(k, p, G) = Take(told, s, p, k.pid[s])
    BY <1>3 DEF RecvAny
  <2> HIDE DEF n, hits, at
  <2>4. k.pid[s] \in Nat
    BY <2>2, PidIsNat
  <2> HIDE DEF s
  <2>5. told \in KernelType /\ QueueKept(k, told)
    BY <2>4, Set_Queue DEF KernelType
  <2> HIDE DEF told
  <2> QED BY <2>3, <2>5, Take_Queue
<1> QED BY <1>2, <1>3

(* recv() from one process.                                                *)
LEMMA RecvFrom_Queue ==
  ASSUME NEW k \in KernelType, NEW p, NEW G
  PROVE  QueueKept(k, RecvFrom(k, p, G).mem)
<1> DEFINE from == k.arg[p]
           s    == Slot(from)
<1>1. \/ RecvFrom(k, p, G) \in {Outcome(k, WOULD_DEADLOCK, from), Outcome(k, 0, from)}
      \/ RecvFrom(k, p, G) = Take(k, s, p, from)
  BY DEF RecvFrom
<1>2. QueueKept(k, k)
  BY DEF QueueKept
<1>3. QueueKept(k, Take(k, s, p, from).mem)
  BY <1>2, Take_Queue
<1>4. RecvFrom(k, p, G).mem = k \/ RecvFrom(k, p, G) = Take(k, s, p, from)
  BY <1>1 DEF Outcome
<1> QED BY <1>2, <1>3, <1>4

(* The rest of the two handlers.                                           *)
LEMMA Finish_Queue ==
  ASSUME NEW k, NEW p \in Slots, p # IDLE, Runners(k) = {p}, NEW o, Fine(k, o), NEW code \in Int
  PROVE  QueueKept(o.mem, Finish(o, p, code))
<1> DEFINE m == o.mem
<1>1. Sound(m, {}) /\ m.state = k.state /\ m.call = k.call /\ o.rc \in Int
      /\ (o.rc > 0 => Slot(o.from) \in Slots /\ k.state[Slot(o.from)] = "BLOCKED")
  BY DEF Fine
<1> HIDE DEF m
<1>2. Runners(m) = {p} /\ m.state[p] = "RUNNING" /\ m \in KernelType
  BY <1>1 DEF Runners, Sound
<1>3. CASE o.rc > 0
  <2>1. Finish(o, p, code) = Both(m, p, Slot(o.from), o.rc)
    BY <1>3 DEF Finish, m
  <2>2. Slot(o.from) \in Slots /\ m.state[Slot(o.from)] = "BLOCKED"
    BY <1>1, <1>3
  <2>3. QueueKept(m, Both(m, p, Slot(o.from), o.rc))
    BY <1>1, <1>2, <2>2, Both_Queue
  <2> QED BY <2>1, <2>3 DEF m
<1>4. CASE o.rc < 0
  <2> DEFINE w == [m EXCEPT !.ret[p] = o.rc]
             r == ready(w, p)
  <2>1. Sound(w, {}) /\ w.state = m.state /\ QueueKept(m, w)
    <3>1. Sound(w, {})
      BY <1>1, <1>2, SetRetSound
    <3> QED BY <1>2, <3>1, Set_Queue DEF KernelType
  <2>2. Finish(o, p, code) = r
    BY <1>1, <1>4 DEF Finish, w, m
  <2> HIDE DEF w
  <2>3. Loose(w, p)
    BY <1>2, <2>1, RunnerIsLoose
  <2>4. QueueKept(w, r)
    BY <2>1, <2>3, ready_Queue
  <2>5. QueueKept(m, r)
    BY <2>1, <2>4, KeptTwice
  <2> QED BY <2>2, <2>5 DEF m
<1>5. CASE o.rc = 0
  <2> DEFINE w == [m EXCEPT !.state[p] = "BLOCKED", !.ret[p] = code]
             q == "blocked_q"
  <2>1. Finish(o, p, code) = append(w, q, p)
    BY <1>5 DEF Finish, Block, m
  <2>2. /\ w \in KernelType /\ w.que = m.que /\ w.state[p] \in {"BLOCKED", "STOPPED"}
        /\ \A s \in Slots : s # p => w.state[s] = m.state[s] /\ w.next[s] = m.next[s]
    <3>1. w \in KernelType
      BY <1>2 DEF KernelType, States
    <3> QED BY <1>2, <3>1 DEF KernelType
  <2>3. q \in {"blocked_q", "dead_q"}
    OBVIOUS
  <2> HIDE DEF w, q
  <2>4. QueueKept(m, append(w, q, p))
    BY <1>1, <1>2, <2>2, <2>3, Leave_Queue
  <2> QED BY <2>1, <2>4 DEF m
<1> QED BY <1>1, <1>3, <1>4, <1>5

-----------------------------------------------------------------------------
(* The processes in the queue.                                             *)
LEMMA QueueHolds ==
  ASSUME NEW k, Sound(k, {}), IdleFirst(k)
  PROVE  /\ ReadySeqOf(k) \in Seq(Slots \ {0, IDLE})
         /\ \A i \in 1 .. Len(ReadySeqOf(k)) : k.state[ReadySeqOf(k)[i]] = "READY"
         /\ \A i, j \in 1 .. Len(ReadySeqOf(k)) : ReadySeqOf(k)[i] = ReadySeqOf(k)[j] => i = j
<1>1. PICK f : ReadyIs(k, f)
  BY DEF Sound, Lists
<1>2. IDLE \in Pcbs /\ Pcbs = Slots \ {0}
  BY Constants DEF Pcbs
<1>3. /\ List(k.next, k.que["head"], f) /\ f \in Seq(Pcbs) /\ Len(f) \in Nat
      /\ \A s \in On(f) : k.state[s] = "READY"
  <2>1. List(k.next, k.que["head"], f) /\ On(f) \subseteq Pcbs
    BY <1>1, ListFacts DEF ReadyIs
  <2> QED BY <1>1, <2>1 DEF ReadyIs, List
<1>4. ReadySeqOf(k) = WithoutIdle(f)
  BY <1>3, QueueIs
<1>5. \A i \in 1 .. Len(f) : i # 1 => f[i] # IDLE
  BY <1>3, IdleNotBehind
<1>6. /\ \A i \in 1 .. Len(f) : f[i] \in Pcbs /\ k.state[f[i]] = "READY"
      /\ \A i, j \in 1 .. Len(f) : f[i] = f[j] => i = j
  <2>1. \A i \in 1 .. Len(f) : f[i] \in Pcbs /\ f[i] \in On(f)
    BY <1>3 DEF On
  <2>2. \A i, j \in 1 .. Len(f) : f[i] = f[j] => i = j
    BY <1>3 DEF List
  <2> QED BY <1>2, <1>3, <2>1, <2>2
<1>7. CASE Len(f) > 0 /\ f[1] = IDLE
  <2> DEFINE e == Tail(f)
  <2>1. e \in Seq(Pcbs) /\ Len(f) = Len(e) + 1 /\ Len(e) \in Nat /\ \A i \in 1 .. Len(e) : e[i] = f[i + 1]
    BY <1>3, <1>7
  <2>2. ReadySeqOf(k) = e
    BY <1>4, <1>7 DEF WithoutIdle
  <2> HIDE DEF e
  <2>3. \A i \in 1 .. Len(e) : i + 1 \in 1 .. Len(f) /\ i + 1 # 1
    BY <2>1
  <2>4. \A i \in 1 .. Len(e) : e[i] \in Pcbs /\ k.state[e[i]] = "READY" /\ e[i] # IDLE
    BY <1>5, <1>6, <2>1, <2>3
  <2>5. \A i, j \in 1 .. Len(e) : e[i] = e[j] => i = j
    <3> TAKE i, j \in 1 .. Len(e)
    <3> HAVE e[i] = e[j]
    <3>1. f[i + 1] = f[j + 1]
      BY <2>1
    <3>2. i + 1 = j + 1
      BY <1>6, <2>3, <3>1
    <3> QED BY <2>1, <3>2
  <2>6. e \in Seq(Slots \ {0, IDLE})
    <3>1. \A i \in 1 .. Len(e) : e[i] \in Slots \ {0, IDLE}
      BY <1>2, <2>4
    <3> QED BY <2>1, <3>1
  <2> QED BY <2>2, <2>4, <2>5, <2>6
<1>8. CASE ~(Len(f) > 0 /\ f[1] = IDLE)
  <2>1. ReadySeqOf(k) = f
    BY <1>4, <1>8 DEF WithoutIdle
  <2>2. \A i \in 1 .. Len(f) : f[i] # IDLE
    BY <1>3, <1>5, <1>8
  <2>3. f \in Seq(Slots \ {0, IDLE})
    <3>1. \A i \in 1 .. Len(f) : f[i] \in Slots \ {0, IDLE}
      BY <1>2, <1>6, <2>2
    <3> QED BY <1>3, <3>1
  <2> QED BY <1>6, <2>1, <2>3
<1> QED BY <1>7, <1>8

(* A ready process other than idleproc is in the queue.                    *)
LEMMA ReadyIsQueued ==
  ASSUME NEW k, Sound(k, {}), NEW s \in Pcbs, s # IDLE, k.state[s] = "READY"
  PROVE  ReadySeqOf(k) # <<>>
<1>1. PICK f : ReadyIs(k, f)
  BY DEF Sound, Lists
<1>2. List(k.next, k.que["head"], f) /\ s \in On(f)
  BY <1>1 DEF ReadyIs
<1>3. ReadySeqOf(k) = WithoutIdle(f) /\ f \in Seq(Pcbs)
  BY <1>2, QueueIs
<1>4. PICK i \in 1 .. Len(f) : f[i] = s
  BY <1>2 DEF On
<1>5. CASE Len(f) > 0 /\ f[1] = IDLE
  <2>1. i # 1
    BY <1>4, <1>5
  <2>2. Len(Tail(f)) = Len(f) - 1 /\ Len(f) \in Nat
    BY <1>3, <1>5
  <2>3. Len(Tail(f)) # 0
    BY <1>4, <2>1, <2>2
  <2> DEFINE e == Tail(f)
  <2>4. Len(e) # 0 /\ ReadySeqOf(k) = e
    BY <1>3, <1>5, <2>3 DEF WithoutIdle
  <2> HIDE DEF e
  <2>5. e # <<>>
    BY <2>4
  <2> QED BY <2>4, <2>5
<1>6. CASE ~(Len(f) > 0 /\ f[1] = IDLE)
  <2>1. f # <<>>
    BY <1>3, <1>4
  <2> QED BY <1>3, <1>6, <2>1 DEF WithoutIdle
<1> QED BY <1>5, <1>6

-----------------------------------------------------------------------------
(* The refinement.                                                         *)
Queued(k) == Handed(k) /\ IdleFirst(k)

(* In the words of the community modules.                                  *)
LEMMA Prefix ==
  ASSUME NEW S, NEW u \in Seq(S), NEW v \in Seq(S), Ahead(u, v)
  PROVE  Scheduler!IsPrefix(u, v)
<1>1. Len(u) \in Nat /\ Len(v) \in Nat /\ Len(u) <= Len(v) /\ \A i \in 1 .. Len(u) : v[i] = u[i]
  BY DEF Ahead
<1>2. SubSeq(u, 1, Len(u)) = SubSeq(v, 1, Len(u))
  BY <1>1
<1> QED BY <1>1, <1>2 DEF Scheduler!IsPrefix

(* Nobody is in the queue twice, or has the CPU and is in the queue.       *)
LEMMA QueuedOnce ==
  ASSUME Queued(kern) PROVE Scheduler!NobodyTwice
<1> DEFINE q == ReadySeqOf(kern)
<1>1. /\ q \in Seq(Slots \ {0, IDLE})
      /\ \A i \in 1 .. Len(q) : q[i] # kern.que["running"]
      /\ \A i, j \in 1 .. Len(q) : q[i] = q[j] => i = j
  <2>1. Sound(kern, {}) /\ IdleFirst(kern) /\ kern.state[kern.que["running"]] = "RUNNING"
    BY HandedIs DEF Queued
  <2>2. /\ q \in Seq(Slots \ {0, IDLE})
        /\ \A i \in 1 .. Len(q) : kern.state[q[i]] = "READY"
        /\ \A i, j \in 1 .. Len(q) : q[i] = q[j] => i = j
    BY <2>1, QueueHolds
  <2> QED BY <2>1, <2>2
<1>2. ReadySeq = q
  BY DEF ReadySeq
<1> HIDE DEF q
<1>3. DOMAIN q = 1 .. Len(q) /\ \A i \in 1 .. Len(q) : q[i] \in Slots \ {0, IDLE}
  BY <1>1
<1> QED BY <1>1, <1>2, <1>3 DEF Scheduler!NobodyTwice, Scheduler!ToSet, Scheduler!IsInjective, Running

(* The process that has the CPU keeps it.                                  *)
LEMMA KeepStep ==
  ASSUME Queued(kern), Queued(kern)', QueueKept(kern, kern'), Running' = Running, Running # IDLE
  PROVE  Scheduler!Keep
<1>1. ReadySeqOf(kern) \in Seq(Slots \ {0, IDLE}) /\ ReadySeqOf(kern') \in Seq(Slots \ {0, IDLE})
  BY QueueHolds DEF Queued, Handed
<1>2. Ahead(ReadySeqOf(kern), ReadySeqOf(kern'))
  BY KeptAhead DEF Queued, Handed
<1>3. Scheduler!IsPrefix(ReadySeqOf(kern), ReadySeqOf(kern'))
  BY <1>1, <1>2, Prefix
<1>4. Running \in Slots \ {0, IDLE}
  BY HandedIs DEF Queued, Running, Pcbs
<1>5. ReadySeq = ReadySeqOf(kern) /\ ReadySeq' = ReadySeqOf(kern')
  BY DEF ReadySeq
<1> QED BY <1>3, <1>4, <1>5 DEF Scheduler!Keep

(* The process that has the CPU gives it up: m is the memory when next()   *)
(* is called.                                                              *)
LEMMA DispatchStep ==
  ASSUME Queued(kern), Queued(kern)', NEW m, Sound(m, {}), Runners(m) = {}, QueueKept(kern, m),
         QueueKept(Dispatch(m), kern'), Running' = Dispatch(m).que["running"],
         kern' = Dispatch(m) \/ m.state[Running] = "READY"
  PROVE  Scheduler!Switch \/ Scheduler!Refill \/ Scheduler!Rest
<1> DEFINE r == Dispatch(m)
           S == Slots \ {0, IDLE}
           q == ReadySeqOf(kern)
           e == ReadySeqOf(m)
           t == ReadySeqOf(r)
           w == ReadySeqOf(kern')
<1>1. IdleFirst(m)
  BY DEF Queued, QueueKept
<1>2. Given(e, r)
  BY <1>1, Dispatch_Order
<1>3. Handed(r) /\ IdleFirst(r)
  BY <1>2, DispatchHands DEF Given
<1>4. Ahead(q, e) /\ Ahead(t, w)
  BY <1>3, KeptAhead DEF Queued, Handed
<1>5. q \in Seq(S) /\ e \in Seq(S) /\ t \in Seq(S) /\ w \in Seq(S)
  BY <1>1, <1>3, QueueHolds DEF Queued, Handed
<1>6. ReadySeq = q /\ ReadySeq' = w /\ (kern' = r => w = t)
  BY DEF ReadySeq
<1>7. Running \in Pcbs /\ Pcbs = Slots \ {0} /\ (m.state[Running] = "READY" => Running = IDLE \/ e # <<>>)
  <2>1. Running \in Pcbs
    BY HandedIs DEF Queued, Running
  <2> QED BY <2>1, ReadyIsQueued DEF Pcbs
<1>8. S = Slots \ {0, IDLE} /\ Running' = r.que["running"] /\ (kern' = r \/ m.state[Running] = "READY")
  OBVIOUS
<1> HIDE DEF r, q, e, t, w, S
<1>9. CASE q # <<>>
  <2>1. Len(q) \in Nat /\ Len(q) > 0 /\ Len(e) \in Nat /\ Len(e) >= Len(q) /\ e[1] = q[1]
    BY <1>4, <1>5, <1>9 DEF Ahead
  <2>2. Running' = Head(q) /\ t = Tail(e)
    BY <1>2, <1>5, <1>8, <2>1 DEF Given, t
  <2>3. Ahead(Tail(q), t)
    <3>1. /\ Len(Tail(q)) = Len(q) - 1 /\ Len(Tail(e)) = Len(e) - 1
          /\ \A i \in 1 .. Len(q) - 1 : Tail(q)[i] = q[i + 1]
          /\ \A i \in 1 .. Len(e) - 1 : Tail(e)[i] = e[i + 1]
      BY <1>5, <2>1
    <3>2. \A i \in 1 .. Len(q) - 1 : i + 1 \in 1 .. Len(q) /\ i \in 1 .. Len(e) - 1
      BY <2>1
    <3>3. \A i \in 1 .. Len(q) - 1 : Tail(e)[i] = Tail(q)[i]
      BY <1>4, <3>1, <3>2 DEF Ahead
    <3> QED BY <2>1, <2>2, <3>1, <3>3 DEF Ahead
  <2>4. Tail(q) \in Seq(S) /\ Len(Tail(q)) \in Nat /\ Len(t) \in Nat /\ Len(w) \in Nat
    BY <1>5, <1>9
  <2>5. Ahead(Tail(q), w)
    BY <1>4, <2>3, <2>4 DEF Ahead
  <2>6. Scheduler!IsPrefix(Tail(q), w)
    BY <1>5, <2>4, <2>5, Prefix
  <2> QED BY <1>6, <1>9, <2>2, <2>6 DEF Scheduler!Switch
<1>10. CASE q = <<>> /\ e # <<>>
  <2>1. Len(e) # 0 /\ Head(e) \in S
    BY <1>5, <1>10
  <2>2. Running' \in Slots \ {0, IDLE}
    BY <1>2, <1>8, <2>1 DEF Given
  <2> QED BY <1>6, <1>10, <2>2 DEF Scheduler!Refill
<1>11. CASE q = <<>> /\ e = <<>>
  <2>1. Running' = IDLE /\ t = <<>>
    BY <1>2, <1>8, <1>11 DEF Given, t
  <2>2. \A i \in DOMAIN w : w[i] # Running
    <3>1. CASE kern' = r
      BY <1>6, <2>1, <3>1
    <3>2. CASE m.state[Running] = "READY"
      BY <1>5, <1>7, <1>8, <1>11, <3>2
    <3> QED BY <1>8, <3>1, <3>2
  <2>3. Running \notin Scheduler!ToSet(w)
    BY <2>2 DEF Scheduler!ToSet
  <2> QED BY <1>6, <1>11, <2>1, <2>3 DEF Scheduler!Rest
<1> QED BY <1>9, <1>10, <1>11

(* The timer's tick does not take the CPU from whom next() gave it to.     *)
LEMMA tick_Running ==
  ASSUME NEW k, Handed(k)
  PROVE  tick(k).que["running"] = k.que["running"]
<1>1. k \in KernelType /\ "running" \in QNames /\ "running" # "head"
  BY HandedIs DEF QNames
<1>2. ASSUME NEW m \in KernelType PROVE CountDown(m).que = m.que
  BY DEF CountDown, KernelType
<1>3. ASSUME k.headsleeper # NULL
      PROVE  wake(k) \in KernelType /\ wake(k).que["running"] = k.que["running"]
  <2>1. PICK f, g, b, d : Lists(k, f, g, b, d)
    BY DEF Handed, Sound
  <2>2. SleepersAre(k, g) /\ (k.tail = NULL \/ k.tail \in Slots)
    BY <1>1, <2>1, Constants DEF Lists, KernelType, Ptr
  <2>3. \A q \in QNames : q # "head" => wake(k).que[q] = k.que[q]
    BY <1>1, <1>3, <2>2, wake_Fields
  <2>4. wake(k) \in KernelType
    BY <1>3, wake_Hands, HandedIs
  <2> QED BY <1>1, <2>3, <2>4
<1> QED BY <1>1, <1>2, <1>3 DEF tick

(* A request in which the caller gives the CPU up.                         *)
LEMMA GiveUpStep ==
  ASSUME Queued(kern), Handed(kern)', NEW m, Sound(m, {}), Runners(m) = {}, QueueKept(kern, m),
         kern' = Dispatch(m)
  PROVE  Queued(kern)' /\ (Scheduler!Switch \/ Scheduler!Refill \/ Scheduler!Rest)
<1>1. IdleFirst(m)
  BY DEF Queued, QueueKept
<1>2. Given(ReadySeqOf(m), Dispatch(m))
  BY <1>1, Dispatch_Order
<1>3. Queued(kern)'
  BY <1>2 DEF Given, Queued
<1>4. QueueKept(Dispatch(m), kern')
  BY DEF QueueKept
<1>5. Running' = Dispatch(m).que["running"]
  BY DEF Running
<1> QED BY <1>3, <1>4, <1>5, DispatchStep

(* sysyield queues the caller.                                             *)
LEMMA YieldStep ==
  ASSUME Queued(kern), Handed(kern)', Yield
  PROVE  Queued(kern)' /\ (Scheduler!Switch \/ Scheduler!Refill \/ Scheduler!Rest)
<1> DEFINE m == ready(kern, Running)
<1>1. Sound(kern, {}) /\ Loose(kern, Running) /\ Runners(kern) = {Running} /\ kern \in KernelType
      /\ Handed(kern)
  BY HandedIs DEF Running, Queued
<1>2. Sound(m, {} \ {Running}) /\ m.state = [kern.state EXCEPT ![Running] = "READY"]
  BY <1>1, ready_Sound
<1>3. QueueKept(kern, m)
  BY <1>1, ready_Queue
<1>4. kern' = Dispatch(m)
  BY <1>1, Served DEF Yield
<1> HIDE DEF m
<1>5. Sound(m, {}) /\ Runners(m) = {}
  <2>1. {} \ {Running} = {}
    OBVIOUS
  <2> QED BY <1>1, <1>2, <2>1 DEF Runners, KernelType
<1> QED BY <1>3, <1>4, <1>5, GiveUpStep

(* The timer: tick() may queue sleepers behind whoever is queued, after    *)
(* next() has chosen.                                                      *)
LEMMA TimerStep ==
  ASSUME Queued(kern), Handed(kern)', Timer
  PROVE  Queued(kern)' /\ (Scheduler!Switch \/ Scheduler!Refill \/ Scheduler!Rest)
<1>1. PICK eax \in EaxValues : TimerAt(eax)
  BY DEF Timer
<1> DEFINE k0 == [kern EXCEPT !.ret[Running] = eax]
           m  == ready(k0, Running)
           r  == Dispatch(m)
<1>2. kern' = tick(r)
  BY <1>1, Served DEF TimerAt, Queued
<1>3. Sound(kern, {}) /\ Running \in Slots /\ kern.state[Running] = "RUNNING" /\ kern \in KernelType
      /\ Runners(kern) = {Running}
  BY HandedIs DEF Running, Queued
<1>4. Sound(k0, {}) /\ k0.state = kern.state /\ QueueKept(kern, k0)
  <2>1. eax \in Int /\ kern.state[Running] # "BLOCKED"
    BY <1>3, KernelAssumption
  <2>2. k0.state = kern.state /\ QueueKept(kern, k0)
    BY <1>3, Set_Queue DEF KernelType
  <2> QED BY <1>3, <2>1, <2>2, SetRetSound
<1>5. Loose(k0, Running)
  BY <1>3, <1>4, RunnerIsLoose
<1> HIDE DEF k0
<1>6. Sound(m, {} \ {Running}) /\ m.state = [k0.state EXCEPT ![Running] = "READY"] /\ QueueKept(k0, m)
  BY <1>4, <1>5, ready_Sound, ready_Queue
<1> HIDE DEF m
<1>7. Sound(m, {}) /\ Runners(m) = {} /\ m.state[Running] = "READY"
  <2>1. {} \ {Running} = {}
    OBVIOUS
  <2> QED BY <1>3, <1>4, <1>6, <2>1 DEF Runners, KernelType
<1>8. QueueKept(kern, m) /\ IdleFirst(m)
  <2>1. QueueKept(kern, m)
    BY <1>4, <1>6, KeptTwice
  <2> QED BY <2>1 DEF Queued, QueueKept
<1>9. Given(ReadySeqOf(m), r) /\ Handed(r)
  BY <1>7, <1>8, Dispatch_Order, DispatchHands
<1>10. QueueKept(r, kern')
  BY <1>2, <1>9, tick_Queue
<1>11. Queued(kern)'
  BY <1>9, <1>10 DEF Given, QueueKept, Queued
<1>12. Running' = r.que["running"]
  <2>1. tick(r).que["running"] = r.que["running"]
    BY <1>9, tick_Running
  <2> QED BY <1>2, <2>1 DEF Running
<1> QED BY <1>7, <1>8, <1>10, <1>11, <1>12, DispatchStep

(* sysstop puts the caller on dead_q.                                      *)
LEMMA StopStep ==
  ASSUME Workload, Queued(kern), Handed(kern)', Stop
  PROVE  Queued(kern)' /\ (Scheduler!Switch \/ Scheduler!Refill \/ Scheduler!Rest)
<1> DEFINE m == [kern EXCEPT !.state[Running] = "STOPPED", !.next[Running] = NULL]
           k == Stopped(kern, Running)
           q == "dead_q"
<1>1. Sound(kern, {}) /\ Running \in Slots /\ Runners(kern) = {Running} /\ Running # IDLE
      /\ "stop" \in Calls /\ kern \in KernelType /\ kern.state[Running] = "RUNNING" /\ Handed(kern)
  BY HandedIs DEF Queued, Running, Stop, StopWith, UserRequest, Request
<1>2. Sound(k, {}) /\ Runners(k) = {}
  BY <1>1, Stopped_Sound
<1>3. PICK G : Serve(Dispatch(notify_waiters(k, kern.pid[Running], G)))
  BY DEF Stop, StopWith
<1>4. k = append(m, q, Running)
  BY DEF Stopped
<1>5. /\ m \in KernelType /\ m.que = kern.que /\ m.state[Running] \in {"BLOCKED", "STOPPED"}
      /\ \A s \in Slots : s # Running => m.state[s] = kern.state[s] /\ m.next[s] = kern.next[s]
  <2>1. m \in KernelType
    BY <1>1 DEF KernelType, States, Ptr
  <2> QED BY <1>1, <2>1 DEF KernelType
<1>6. q \in {"blocked_q", "dead_q"}
  OBVIOUS
<1> HIDE DEF k, m, q
<1>7. QueueKept(kern, k)
  BY <1>1, <1>4, <1>5, <1>6, Leave_Queue
<1>8. notify_waiters(k, kern.pid[Running], G) = k
  BY <1>1, <1>2, NobodyNotified
<1>9. kern' = Dispatch(k)
  BY <1>1, <1>3, <1>8, Served
<1> QED BY <1>2, <1>7, <1>9, GiveUpStep

(* syssleep puts the caller on the list of sleepers.                       *)
LEMMA NapStep ==
  ASSUME Queued(kern), Handed(kern)', NEW ms \in Naps, Nap(ms)
  PROVE  Queued(kern)' /\ (Scheduler!Switch \/ Scheduler!Refill \/ Scheduler!Rest)
<1> DEFINE m == sleep(kern, Running, ms)
<1>1. Sound(kern, {}) /\ Running \in Slots /\ Runners(kern) = {Running} /\ Running # IDLE
      /\ kern.state[Running] = "RUNNING" /\ kern.next[Running] = NULL /\ ms \in Nat /\ Handed(kern)
  BY HandedIs, KernelAssumption DEF Queued, Handed, Running, Nap, UserRequest
<1>2. kern' = Dispatch(m)
  <2>1. Serve(Dispatch(m))
    BY <1>1 DEF Nap
  <2> QED BY <1>1, <2>1, Served
<1>3. Sound(m, {}) /\ Runners(m) = {} /\ QueueKept(kern, m)
  BY <1>1, sleep_Sound, sleep_Queue
<1> HIDE DEF m
<1> QED BY <1>2, <1>3, GiveUpStep

(* The messages: whether the caller blocks, meets a waiting process or is  *)
(* refused, next() follows.                                                *)
LEMMA FinishStep ==
  ASSUME "stop" \notin Calls, Queued(kern), Handed(kern)', Running # IDLE,
         NEW k, Runners(k) = {Running}, QueueKept(kern, k), NEW o, Fine(k, o), QueueKept(k, o.mem),
         NEW code, <<k.call[Running], code>> \in {<<"send", SYS_SEND>>, <<"recv", SYS_RECV>>},
         Serve(Dispatch(Finish(o, Running, code)))
  PROVE  Queued(kern)' /\ (Scheduler!Switch \/ Scheduler!Refill \/ Scheduler!Rest)
<1> DEFINE m == Finish(o, Running, code)
<1>1. Running \in Slots /\ code \in Int /\ Handed(kern)
  BY HandedIs DEF Queued, Running, SYS_SEND, SYS_RECV
<1>2. Sound(m, {}) /\ Runners(m) = {}
  BY <1>1, Finish_Sound
<1>3. QueueKept(o.mem, m)
  BY <1>1, Finish_Queue
<1>4. kern' = Dispatch(m)
  BY <1>1, Served
<1> HIDE DEF m
<1>5. QueueKept(kern, m)
  <2>1. QueueKept(k, m)
    BY <1>3, KeptTwice
  <2> QED BY <2>1, KeptTwice
<1> QED BY <1>2, <1>4, <1>5, GiveUpStep

(* SYS_SEND.                                                               *)
LEMMA SendStep ==
  ASSUME Workload, NEW d \in Nat, NEW buf \in BufLens, NEW msg \in MsgLens, NEW ok,
         Queued(kern), Handed(kern)', SendTo(d, buf, msg, ok)
  PROVE  Queued(kern)' /\ (Scheduler!Switch \/ Scheduler!Refill \/ Scheduler!Rest)
<1> DEFINE k == WithArgs(kern, Running, "send", d, buf, msg)
<1>1. PICK zero \in BOOLEAN : Serve(Dispatch(SysSend(k, Running, ok, zero)))
  BY DEF SendTo
<1>2. Running \in Slots /\ Running # IDLE /\ "stop" \notin Calls /\ Handed(kern) /\ kern \in KernelType
  BY HandedIs DEF Queued, Running, SendTo, UserRequest, Request, Workload
<1>3. buf \in Nat /\ msg \in Nat /\ "send" \in {"none", "send", "recv"}
  BY KernelAssumption
<1>4. Sound(k, {}) /\ Runners(k) = {Running} /\ k.call[Running] = "send"
  BY <1>2, <1>3, WithArgsSound
<1>5. QueueKept(kern, k)
  BY <1>2, WithArgs_Queue
<1> HIDE DEF k
<1>6. k \in KernelType
  BY <1>4 DEF Sound
<1> DEFINE rc == validate(k, Running, k.arg[Running], ok)
           o  == IF rc < 0 THEN Outcome(k, rc, k.arg[Running]) ELSE send(k, Running, zero)
<1>7. Fine(k, o)
  <2>1. rc \in Int /\ Fine(k, send(k, Running, zero))
    BY <1>2, <1>4, validateIsInt, send_Fine
  <2> HIDE DEF rc
  <2>2. ASSUME rc < 0 PROVE Fine(k, Outcome(k, rc, k.arg[Running]))
    <3>1. ~(rc > 0)
      BY <2>1, <2>2
    <3> QED BY <1>4, <2>1, <3>1, FineIs
  <2> QED BY <2>1, <2>2
<1>8. QueueKept(k, o.mem)
  <2>1. QueueKept(k, send(k, Running, zero).mem) /\ QueueKept(k, k)
    BY <1>6, send_Queue DEF QueueKept
  <2> HIDE DEF rc
  <2> QED BY <2>1 DEF Outcome
<1>9. SysSend(k, Running, ok, zero) = Finish(o, Running, SYS_SEND)
  BY DEF SysSend
<1> HIDE DEF o
<1>10. Serve(Dispatch(Finish(o, Running, SYS_SEND)))
       /\ <<k.call[Running], SYS_SEND>> \in {<<"send", SYS_SEND>>, <<"recv", SYS_RECV>>}
  BY <1>1, <1>4, <1>9
<1> QED BY <1>2, <1>4, <1>5, <1>7, <1>8, <1>10, FinishStep

(* SYS_RECV.                                                               *)
LEMMA ReceiveStep ==
  ASSUME Workload, NEW f \in Nat, NEW buf \in BufLens, NEW ok,
         Queued(kern), Handed(kern)', Receive(f, buf, ok)
  PROVE  Queued(kern)' /\ (Scheduler!Switch \/ Scheduler!Refill \/ Scheduler!Rest)
<1> DEFINE k == WithArgs(kern, Running, "recv", f, buf, 0)
<1>1. PICK G : Serve(Dispatch(SysRecv(k, Running, ok, G)))
  BY DEF Receive
<1>2. Running \in Slots /\ Running # IDLE /\ "stop" \notin Calls /\ Handed(kern) /\ kern \in KernelType
  BY HandedIs DEF Queued, Running, Receive, UserRequest, Request, Workload
<1>3. buf \in Nat /\ 0 \in Nat /\ "recv" \in {"none", "send", "recv"}
  BY KernelAssumption
<1>4. Sound(k, {}) /\ Runners(k) = {Running} /\ k.call[Running] = "recv"
  BY <1>2, <1>3, WithArgsSound
<1>5. QueueKept(kern, k)
  BY <1>2, WithArgs_Queue
<1> HIDE DEF k
<1>6. k \in KernelType
  BY <1>4 DEF Sound
<1> DEFINE rc == validate(k, Running, k.arg[Running], ok)
           o  == IF rc < 0 THEN Outcome(k, rc, k.arg[Running])
                 ELSE IF k.arg[Running] = 0 THEN RecvAny(k, Running, G)
                 ELSE RecvFrom(k, Running, G)
<1>7. Fine(k, o)
  <2>1. rc \in Int /\ Fine(k, RecvAny(k, Running, G)) /\ Fine(k, RecvFrom(k, Running, G))
    BY <1>2, <1>4, validateIsInt, RecvAny_Fine, RecvFrom_Fine
  <2> HIDE DEF rc
  <2>2. ASSUME rc < 0 PROVE Fine(k, Outcome(k, rc, k.arg[Running]))
    <3>1. ~(rc > 0)
      BY <2>1, <2>2
    <3> QED BY <1>4, <2>1, <3>1, FineIs
  <2> QED BY <2>1, <2>2
<1>8. QueueKept(k, o.mem)
  <2>1. /\ QueueKept(k, RecvAny(k, Running, G).mem) /\ QueueKept(k, RecvFrom(k, Running, G).mem)
        /\ QueueKept(k, k)
    BY <1>2, <1>6, RecvAny_Queue, RecvFrom_Queue DEF QueueKept
  <2> HIDE DEF rc
  <2> QED BY <2>1 DEF Outcome
<1>9. SysRecv(k, Running, ok, G) = Finish(o, Running, SYS_RECV)
  BY DEF SysRecv
<1> HIDE DEF o
<1>10. Serve(Dispatch(Finish(o, Running, SYS_RECV)))
       /\ <<k.call[Running], SYS_RECV>> \in {<<"send", SYS_SEND>>, <<"recv", SYS_RECV>>}
  BY <1>1, <1>4, <1>9
<1> QED BY <1>2, <1>4, <1>5, <1>7, <1>8, <1>10, FinishStep

(* getpid returns to its caller.                                           *)
LEMMA GetPidStep ==
  ASSUME Queued(kern), Handed(kern)', GetPid
  PROVE  Queued(kern)' /\ Scheduler!Keep
<1> DEFINE n == Code(kern.pid[Running])
           r == [kern EXCEPT !.ret[Running] = n]
<1>1. kern \in KernelType /\ Handed(kern) /\ Running # IDLE
  BY HandedIs DEF Queued, GetPid, UserRequest
<1>2. QueueKept(kern, r) /\ r.que = kern.que
  BY <1>1, Set_Queue DEF KernelType
<1>3. kern' = r
  BY <1>1, Served DEF GetPid
<1> HIDE DEF r
<1>4. QueueKept(kern, kern') /\ Running' = Running
  BY <1>2, <1>3 DEF Running
<1>5. Queued(kern)'
  BY <1>4 DEF Queued, QueueKept
<1> QED BY <1>1, <1>4, <1>5, KeepStep

(* create queues the new process, and returns to its caller.               *)
LEMMA CreateStep ==
  ASSUME Workload, Queued(kern), Handed(kern)', Create
  PROVE  Queued(kern)' /\ Scheduler!Keep
<1>1. kern \in KernelType /\ Sound(kern, {}) /\ Running \in Slots /\ Handed(kern) /\ Running # IDLE
  BY HandedIs DEF Queued, Running, Create, UserRequest
<1>2. QueueKept(kern, kern') /\ Running' = Running
  <2>1. CASE FreeSlots(kern) = {}
    <3> DEFINE m == remove(kern, "dead_q", MAX_PROC)
               r == [m EXCEPT !.ret[Running] = -1]
    <3>1. Serve(r)
      BY <2>1 DEF Create
    <3>2. m = kern
      <4>1. kern.que["dead_q"] = NULL
        BY <1>1, <2>1, NobodyDead
      <4> QED BY <4>1 DEF remove, QNames
    <3>3. r = [kern EXCEPT !.ret[Running] = -1]
      BY <3>2
    <3> HIDE DEF m
    <3>4. QueueKept(kern, r) /\ r.que = kern.que
      BY <1>1, <3>3, Set_Queue DEF KernelType
    <3> HIDE DEF r
    <3>5. kern' = r
      BY <1>1, <3>1, Served
    <3> QED BY <3>4, <3>5 DEF Running
  <2>2. CASE FreeSlots(kern) # {}
    <3> DEFINE i == CHOOSE s \in FreeSlots(kern) : \A r \in FreeSlots(kern) : s <= r
    <3>1. NewPid(kern, i) <= MaxPid
          /\ \E allocated \in {TRUE, ~AllocMayFail} : Serve(create(kern, Running, i, allocated))
      BY <2>2 DEF Create
    <3>2. i \in FreeSlots(kern)
      <4>1. FreeSlots(kern) \subseteq Nat
        BY Constants DEF FreeSlots
      <4> QED BY <2>2, <4>1, HasMinimum
    <3> HIDE DEF i
    <3>3. PICK allocated \in {TRUE, ~AllocMayFail} : Serve(create(kern, Running, i, allocated))
      BY <3>1
    <3> DEFINE r == create(kern, Running, i, allocated)
    <3>4. QueueKept(kern, r) /\ r.que["running"] = Running
      <4>1. allocated \in BOOLEAN /\ Running = kern.que["running"]
        BY DEF Running
      <4> QED BY <1>1, <3>1, <3>2, <4>1, create_Queue
    <3> HIDE DEF r
    <3>5. kern' = r
      BY <1>1, <3>3, Served DEF r
    <3> QED BY <3>4, <3>5 DEF Running
  <2> QED BY <2>1, <2>2
<1>3. Queued(kern)'
  BY <1>2 DEF Queued, QueueKept
<1> QED BY <1>1, <1>2, <1>3, KeepStep

-----------------------------------------------------------------------------
(* initproc() leaves root running and idleproc alone in the queue.         *)
LEMMA InitQueued ==
  ASSUME Init PROVE Queued(kern) /\ Scheduler!Init
<1> DEFINE f == <<IDLE>>
<1>1. IDLE \in Pcbs /\ ROOT \in Pcbs /\ NULL \notin Slots /\ IDLE \in Slots /\ ROOT \in Slots
  BY Constants DEF Pcbs
<1>2. /\ \A s \in Slots : kern.next[s] = NULL
      /\ kern.que["head"] = IDLE /\ kern.que["running"] = ROOT
  BY DEF Init, Boot, QNames
<1>3. Queued(kern)
  <2>1. IdleFirst(kern)
    BY <1>1, <1>2 DEF IdleFirst
  <2> QED BY <2>1, BootHanded DEF Init, Queued
<1>4. List(kern.next, IDLE, f)
  <2>1. f \in Seq(Pcbs) /\ Len(f) = 1 /\ f[1] = IDLE
    BY <1>1
  <2>2. \A i \in 1 .. Len(f) : i = 1
    BY <2>1
  <2> HIDE DEF f
  <2> QED BY <1>1, <1>2, <2>1, <2>2 DEF List
<1>5. ReadySeqOf(kern) = WithoutIdle(f)
  BY <1>2, <1>4, QueueIs
<1>6. WithoutIdle(f) = <<>>
  BY DEF WithoutIdle
<1> QED BY <1>2, <1>3, <1>5, <1>6 DEF Scheduler!Init, ReadySeq, Running

(* Every request, and the timer's interrupt, is a step of RoundRobin.      *)
LEMMA NextStep ==
  ASSUME Workload, Queued(kern), Next
  PROVE  Queued(kern)' /\ Scheduler!Next
<1> DEFINE GivesUp == Scheduler!Switch \/ Scheduler!Refill \/ Scheduler!Rest
<1>1. Handed(kern)'
  BY NextHands DEF Queued
<1>2. Queued(kern)' /\ (Scheduler!Keep \/ GivesUp)
  <2>1. CASE Create
    BY <1>1, <2>1, CreateStep
  <2>2. CASE Yield
    BY <1>1, <2>2, YieldStep
  <2>3. CASE Stop
    BY <1>1, <2>3, StopStep
  <2>4. CASE GetPid
    BY <1>1, <2>4, GetPidStep
  <2>5. CASE Timer
    BY <1>1, <2>5, TimerStep
  <2>6. ASSUME NEW d \in 0 .. MaxPid, NEW buf \in BufLens, NEW msg \in MsgLens, NEW ok \in Buffers,
               SendTo(d, buf, msg, ok)
        PROVE  Queued(kern)' /\ GivesUp
    BY <1>1, <2>6, SendStep
  <2>7. ASSUME NEW f \in 0 .. MaxPid, NEW buf \in BufLens, NEW ok \in Buffers,
               Receive(f, buf, ok)
        PROVE  Queued(kern)' /\ GivesUp
    BY <1>1, <2>7, ReceiveStep
  <2>8. ASSUME NEW ms \in Naps, Nap(ms)
        PROVE  Queued(kern)' /\ GivesUp
    BY <1>1, <2>8, NapStep
  <2> HIDE DEF GivesUp
  <2> QED BY <2>1, <2>2, <2>3, <2>4, <2>5, <2>6, <2>7, <2>8 DEF Next
<1>3. Scheduler!NobodyTwice'
  BY <1>2, QueuedOnce, PTL
<1> QED BY <1>2, <1>3 DEF Scheduler!Next

(* In the workloads, always: the lists are sound, and idleproc stands      *)
(* nowhere in the ready queue but at its head.                             *)
THEOREM QueueHoldsAlways ==
  ASSUME Workload PROVE Spec => []Queued(kern)
<1>1. Init => Queued(kern)
  BY InitQueued
<1>2. Queued(kern) /\ [Next]_kern => Queued(kern)'
  <2> SUFFICES ASSUME Queued(kern), [Next]_kern PROVE Queued(kern)'
    OBVIOUS
  <2>1. CASE Next
    BY <2>1, NextStep
  <2>2. CASE UNCHANGED kern
    <3>1. kern' = kern
      BY <2>2
    <3> QED BY <3>1
  <2> QED BY <2>1, <2>2
<1> QED BY <1>1, <1>2, PTL DEF Spec

(* In the workloads the dispatcher implements RoundRobin: what ready(),    *)
(* next(), remove() and tick() do to the ready queue and to running is     *)
(* first come, first served, for any number of processes.                  *)
THEOREM FirstReadyRunsFirst ==
  ASSUME Workload PROVE Spec => FirstReadyFirstRun
<1>1. Init => Scheduler!Init
  BY InitQueued
<1>2. Queued(kern) /\ [Next]_kern => [Scheduler!Next]_<<Running, ReadySeq>>
  <2> SUFFICES ASSUME Queued(kern), [Next]_kern
               PROVE  [Scheduler!Next]_<<Running, ReadySeq>>
    OBVIOUS
  <2>1. CASE Next
    BY <2>1, NextStep
  <2>2. CASE UNCHANGED kern
    <3>1. kern' = kern
      BY <2>2
    <3>2. Running' = Running /\ ReadySeq' = ReadySeq
      BY <3>1 DEF Running, ReadySeq
    <3> QED BY <3>2
  <2> QED BY <2>1, <2>2
<1>3. Spec => []Queued(kern)
  BY QueueHoldsAlways
<1> QED BY <1>1, <1>2, <1>3, PTL DEF Spec, FirstReadyFirstRun, Scheduler!Spec
==============================================================================
