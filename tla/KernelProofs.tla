---------------------------- MODULE KernelProofs ----------------------------
(***************************************************************************)
(* What holds of module Kernel for every size of the process table, every  *)
(* bound of the pids and every workload.  The invariant Inv is inductive;  *)
(* each operation of the memory has a lemma that says what it leaves       *)
(* alone, in terms of the relations Same, Fewer, Undisturbed and Gave      *)
(* between the memory before and after, and each action one that combines  *)
(* them.                                                                   *)
(*                                                                         *)
(* The second part is about where the pointers of the lists can lead.  A   *)
(* list may be a cycle, two lists may share a tail (append() and remove()  *)
(* assume neither), so what a walk meets is not known; but it never leaves *)
(* the region of the slots that processes were created in.  Linked says    *)
(* so, and every operation of the memory has a lemma that it keeps it.  A  *)
(* fact about all of a walk is proved of the least number of steps for     *)
(* which it would fail.                                                    *)
(*                                                                         *)
(* The third part is about lists that are lists: which sequence of pcb's   *)
(* one is, what the walks of module ProcTable find on it, and what taking  *)
(* a pcb off, putting one on or moving a part to another list makes of it. *)
(***************************************************************************)
EXTENDS Kernel, TLAPS, WellFoundedInduction, FiniteSetTheorems, SequenceTheorems

(* What most list operations leave alone.                                  *)
Same(k, r) ==
  /\ r.fault = k.fault /\ r.state = k.state /\ r.pid = k.pid
  /\ r.que["running"] = k.que["running"]

Runners(k) == {s \in Slots : k.state[s] = "RUNNING"}

(* A non-empty set of numbers has a smallest: the first hit of a walk.     *)
LEMMA HasMinimum ==
  ASSUME NEW T, T \subseteq Nat, T # {}
  PROVE  \E x \in T : \A y \in T : x <= y
<1> DEFINE R == OpToRel(<, Nat)
<1>1. IsWellFoundedOn(R, Nat)
  BY NatLessThanWellFounded
<1>2. PICK x \in T : \A y \in T : ~(<<y, x>> \in R)
  <2> HIDE DEF R
  <2> QED BY <1>1, WFMin
<1>3. \A y \in T : ~(y < x)
  <2> TAKE y \in T
  <2>1. ~(<<y, x>> \in R)
    BY <1>2
  <2>2. y \in Nat /\ x \in Nat
    OBVIOUS
  <2> QED BY <2>1, <2>2 DEF OpToRel
<1>4. \A y \in T : x <= y
  <2> HIDE DEF R
  <2> TAKE y \in T
  <2>1. ~(y < x) /\ y \in Nat /\ x \in Nat
    BY <1>3
  <2> QED BY <2>1
<1> QED BY <1>4

(* pid % MAX_PROC is an index into proctab.                                *)
LEMMA SlotInSlots ==
  ASSUME NEW pid \in Nat PROVE Slot(pid) \in Slots
BY ProcTableAssumption DEF Slot, Slots

(* The first pid of a slot, its index, leads to it.                        *)
LEMMA SlotOfSlot ==
  ASSUME NEW s \in Slots PROVE Slot(s) = s
BY ProcTableAssumption DEF Slot, Slots

(* Division with remainder by the size of the table.                       *)
LEMMA DivMod ==
  ASSUME NEW a \in Int
  PROVE  /\ a \div MAX_PROC \in Int /\ a % MAX_PROC \in 0 .. MAX_PROC - 1
         /\ a = MAX_PROC * (a \div MAX_PROC) + (a % MAX_PROC)
BY ProcTableAssumption

(* The remainder is determined by the number.                              *)
LEMMA OneRemainder ==
  ASSUME NEW a \in Int, NEW b \in Int, NEW r \in 0 .. MAX_PROC - 1, NEW s \in 0 .. MAX_PROC - 1,
         MAX_PROC * a + r = MAX_PROC * b + s
  PROVE  r = s
<1>1. MAX_PROC * (a - b) = s - r /\ MAX_PROC * (b - a) = r - s
  BY ProcTableAssumption
<1>2. \A x \in Int : x >= 1 => MAX_PROC * x >= MAX_PROC
  BY ProcTableAssumption
<1>3. a = b => MAX_PROC * a = MAX_PROC * b
  OBVIOUS
<1>4. a - b >= 1 \/ b - a >= 1 \/ a = b
  OBVIOUS
<1> QED BY <1>1, <1>2, <1>3, <1>4, ProcTableAssumption

(* The pid create() gives out next has the same slot (create.c:67).        *)
LEMMA NextPidSameSlot ==
  ASSUME NEW pid \in Nat PROVE Slot(pid + MAX_PROC) = Slot(pid)
<1> DEFINE q == pid \div MAX_PROC
           r == pid % MAX_PROC
           Q == (pid + MAX_PROC) \div MAX_PROC
           R == (pid + MAX_PROC) % MAX_PROC
<1>1. MAX_PROC \in Int /\ pid \in Int /\ pid + MAX_PROC \in Int
  BY ProcTableAssumption
<1>2. q \in Int /\ r \in 0 .. MAX_PROC - 1 /\ pid = MAX_PROC * q + r
  BY <1>1, DivMod
<1>3. Q \in Int /\ R \in 0 .. MAX_PROC - 1 /\ pid + MAX_PROC = MAX_PROC * Q + R
  BY <1>1, DivMod
<1>4. Slot(pid + MAX_PROC) = R /\ Slot(pid) = r
  BY DEF Slot
<1> HIDE DEF q, r, Q, R
<1>5. q + 1 \in Int /\ MAX_PROC * (q + 1) = MAX_PROC * q + MAX_PROC
  BY <1>1, <1>2
<1>6. MAX_PROC * (q + 1) + r = MAX_PROC * Q + R
  <2> DEFINE a == MAX_PROC * q
             b == MAX_PROC * Q
  <2>1. a \in Int /\ b \in Int /\ r \in Int /\ R \in Int
    BY <1>1, <1>2, <1>3
  <2>2. pid = a + r /\ pid + MAX_PROC = b + R
    BY <1>2, <1>3
  <2>3. MAX_PROC * (q + 1) = a + MAX_PROC
    BY <1>5
  <2> HIDE DEF a, b
  <2>4. (a + MAX_PROC) + r = b + R
    BY <1>1, <2>1, <2>2
  <2> QED BY <2>3, <2>4 DEF b
<1>7. r = R
  BY <1>2, <1>3, <1>5, <1>6, OneRemainder
<1> QED BY <1>4, <1>7

(* Root and idleproc have slots; the null pointer is none.                 *)
LEMMA Constants ==
  /\ MAX_PROC \in Nat /\ MAX_PROC >= 3
  /\ ROOT \in Pcbs /\ IDLE \in Pcbs /\ Pcbs \subseteq Slots /\ NULL \notin Slots
  /\ Slots \subseteq Nat
BY ProcTableAssumption DEF ROOT, IDLE, Pcbs, Slots, NULL

(* Pids are numbers below INT_MAX.                                         *)
LEMMA PidIsNat ==
  ASSUME NEW k \in KernelType, NEW s \in Slots PROVE k.pid[s] \in Pids /\ k.pid[s] \in Nat
BY ProcTableAssumption DEF KernelType, Pids

(* A walk along next meets pcb's only.                                     *)
LEMMA MembersArePcbs ==
  ASSUME NEW next, NEW q PROVE Members(next, q) \subseteq Pcbs
BY DEF Members

(* The end of a list is a pcb, or there is none.                           *)
LEMMA LastOfIsPtr ==
  ASSUME NEW next, NEW q PROVE LastOf(next, q) \in Ptr
BY MembersArePcbs DEF LastOf, Ptr

(* A fault changes nothing but the record of it.                           *)
LEMMA FaultKeeps ==
  ASSUME NEW k \in KernelType, NEW f \in Faults
  PROVE  Fault(k, f) \in KernelType /\ Fault(k, f).fault # "none"
BY DEF Fault, Faults, KernelType

(* remove() changes links and a list head, but no state and no pid;        *)
(* running only if that is the list it was given.                          *)
LEMMA remove_Keeps ==
  ASSUME NEW k \in KernelType, NEW q, NEW pid
  PROVE  LET r == remove(k, q, pid)
         IN  /\ r \in KernelType
             /\ r.fault = "none" => k.fault = "none" /\ r.pid = k.pid
             /\ r.fault = "none" /\ q # "running" => Same(k, r)
<1> DEFINE from  == k.que[q]
           found == {s \in Members(k.next, from) : k.pid[s] = pid}
           s     == CHOOSE x \in found : TRUE
<1>1. CASE q \notin QNames
  BY <1>1, FaultKeeps DEF remove, Faults
<1>2. CASE q \in QNames /\ from # NULL /\ found # {}
  <2>1. s \in Pcbs
    BY <1>2, MembersArePcbs
  <2>2. remove(k, q, pid) = [k EXCEPT !.que[q] = k.next[s], !.next[s] = NULL]
    BY <1>2 DEF remove
  <2>3. k.next[s] \in Ptr /\ NULL \in Ptr /\ s \in Slots
    BY <2>1 DEF KernelType, Ptr, Pcbs
  <2> HIDE DEF s, found, from
  <2>4. [k EXCEPT !.que[q] = k.next[s], !.next[s] = NULL] \in KernelType
    BY <1>2, <2>3 DEF KernelType
  <2>5. /\ q # "running" => Same(k, remove(k, q, pid))
        /\ remove(k, q, pid).fault = k.fault /\ remove(k, q, pid).pid = k.pid
    BY <1>2, <2>2 DEF KernelType, QNames, Same
  <2> QED BY <2>2, <2>4, <2>5
<1>3. CASE q \in QNames /\ (from = NULL \/ found = {})
  <2> DEFINE l == LastOf(k.next, from)
  <2>1. l \in Ptr
    BY LastOfIsPtr
  <2>2. remove(k, q, pid) \in {k, Fault(k, "loop"), [k EXCEPT !.que[q] = l]}
    BY <1>3 DEF remove
  <2> HIDE DEF l
  <2>3. [k EXCEPT !.que[q] = l] \in KernelType
    BY <1>3, <2>1 DEF KernelType
  <2>4. /\ q # "running" => Same(k, [k EXCEPT !.que[q] = l])
        /\ [k EXCEPT !.que[q] = l].fault = k.fault /\ [k EXCEPT !.que[q] = l].pid = k.pid
        /\ Same(k, k)
    BY <1>3 DEF KernelType, QNames, Same
  <2> QED BY <2>2, <2>3, <2>4, FaultKeeps DEF Faults
<1> QED BY <1>1, <1>2, <1>3

(* append() changes links and a list head only.                            *)
LEMMA append_Keeps ==
  ASSUME NEW k \in KernelType, NEW q \in QNames \ {"running"}, NEW p \in Pcbs
  PROVE  LET r == append(k, q, p)
         IN  /\ r \in KernelType
             /\ r.fault = "none" => Same(k, r)
<1> DEFINE next == [k.next EXCEPT ![p] = NULL]
           from == k.que[q]
           last == LastOf(next, from)
<1>1. next \in [Slots -> Ptr] /\ [next EXCEPT ![last] = p] \in [Slots -> Ptr]
  BY DEF KernelType, Ptr
<1>2. append(k, q, p) \in { [k EXCEPT !.next = next, !.que[q] = p],
                            [k EXCEPT !.next = next],
                            Fault(k, "loop"),
                            [k EXCEPT !.next = [next EXCEPT ![last] = p]] }
  BY DEF append
<1> HIDE DEF next, last
<1>3. /\ [k EXCEPT !.next = next, !.que[q] = p] \in KernelType
      /\ [k EXCEPT !.next = next] \in KernelType
      /\ [k EXCEPT !.next = [next EXCEPT ![last] = p]] \in KernelType
  BY <1>1 DEF KernelType, Ptr
<1>4. /\ Same(k, [k EXCEPT !.next = next, !.que[q] = p])
      /\ Same(k, [k EXCEPT !.next = next])
      /\ Same(k, [k EXCEPT !.next = [next EXCEPT ![last] = p]])
  BY DEF KernelType, QNames, Same
<1> QED BY <1>2, <1>3, <1>4, FaultKeeps DEF Faults

(* ready() takes a process out of STATE_RUNNING and leaves the others.     *)
LEMMA ready_Keeps ==
  ASSUME NEW k \in KernelType, NEW p \in Slots
  PROVE  LET r == ready(k, p)
         IN  /\ r \in KernelType
             /\ r.fault = "none" =>
                  /\ r.fault = k.fault /\ r.que["running"] = k.que["running"]
                  /\ r.pid = k.pid
                  /\ r.state = [k.state EXCEPT ![p] = "READY"]
<1> DEFINE r == [k EXCEPT !.next[p] = NULL, !.state[p] = "READY"]
<1>1. r \in KernelType
  BY DEF KernelType, States, Ptr
<1>2. CASE p = 0 \/ ~Aligned(k, p)
  BY <1>2, FaultKeeps DEF ready, Faults
<1>3. CASE ~(p = 0 \/ ~Aligned(k, p))
  <2>1. ready(k, p) \in {r, [r EXCEPT !.next[k.tail] = p, !.tail = p],
                         [r EXCEPT !.que["head"] = p, !.tail = p]}
    BY <1>3 DEF ready
  <2>2. p \in Ptr
    BY <1>3 DEF Pcbs, Ptr
  <2>3. /\ r.state = [k.state EXCEPT ![p] = "READY"] /\ r.fault = k.fault /\ r.que = k.que
        /\ r.pid = k.pid
    BY DEF KernelType
  <2> HIDE DEF r
  <2>4. /\ [r EXCEPT !.next[k.tail] = p, !.tail = p] \in KernelType
        /\ [r EXCEPT !.que["head"] = p, !.tail = p] \in KernelType
    BY <1>1, <2>2 DEF KernelType, QNames
  <2>5. /\ Same(r, [r EXCEPT !.next[k.tail] = p, !.tail = p])
        /\ Same(r, [r EXCEPT !.que["head"] = p, !.tail = p])
        /\ Same(r, r)
    BY <1>1 DEF KernelType, QNames, Same
  <2> QED BY <1>1, <2>1, <2>3, <2>4, <2>5 DEF Same
<1> QED BY <1>2, <1>3

-----------------------------------------------------------------------------
(* Exactly one process runs, and running names it.                         *)
OneRuns(k) ==
  /\ k.que["running"] \in Pcbs
  /\ \A s \in Slots : k.state[s] = "RUNNING" <=> s = k.que["running"]

(* Giving the CPU to p makes it the one running process, if there was      *)
(* none.                                                                   *)
LEMMA Run_Gives ==
  ASSUME NEW k \in KernelType, NEW p \in Pcbs
  PROVE  /\ Run(k, p) \in KernelType
         /\ Run(k, p).fault = k.fault /\ Run(k, p).pid = k.pid
         /\ Runners(k) = {} => OneRuns(Run(k, p))
<1>1. Run(k, p) \in KernelType
  <2>1. p \in Ptr /\ 0 \in Nat /\ 0 \in Int
    BY DEF Ptr
  <2> QED BY <2>1 DEF Run, KernelType, States
<1>2. Run(k, p).que["running"] = p
  BY DEF Run, KernelType, QNames
<1>3. /\ Run(k, p).state = [k.state EXCEPT ![p] = "RUNNING"]
      /\ Run(k, p).fault = k.fault /\ Run(k, p).pid = k.pid
  BY DEF Run, KernelType
<1>4. Runners(k) = {} => \A s \in Slots : [k.state EXCEPT ![p] = "RUNNING"][s] = "RUNNING" <=> s = p
  BY Constants DEF KernelType, Runners
<1> QED BY <1>1, <1>2, <1>3, <1>4 DEF OneRuns

(* Taking the head off the ready queue changes no state.                   *)
LEMMA Pop_Keeps ==
  ASSUME NEW k \in KernelType, k.que["head"] \in Pcbs
  PROVE  Pop(k) \in KernelType /\ Same(k, Pop(k))
<1> DEFINE p == k.que["head"]
<1>1. k.next[p] \in Ptr /\ k.tail \in Ptr /\ NULL \in Ptr
  BY Constants DEF KernelType, Ptr
<1>2. Pop(k) \in KernelType
  BY <1>1 DEF Pop, KernelType, QNames
<1>3. Same(k, Pop(k))
  BY DEF Pop, KernelType, QNames, Same
<1> QED BY <1>2, <1>3

(* next() is called when nobody is in STATE_RUNNING; then one process is.  *)
LEMMA Dispatch_Gives ==
  ASSUME NEW k \in KernelType, k.fault = "none" => Runners(k) = {}
  PROVE  /\ Dispatch(k) \in KernelType
         /\ Dispatch(k).fault = "none" =>
              k.fault = "none" /\ OneRuns(Dispatch(k)) /\ Dispatch(k).pid = k.pid
<1> DEFINE h == k.que["head"]
           r == k.que["running"]
           idles == [Pop(k) EXCEPT !.state[r] = "READY"]
<1>1. h = NULL \/ h \in Pcbs
  BY DEF KernelType, QNames, Ptr
<1>2. CASE h # NULL /\ (~Aligned(k, h) \/ k.state[h] # "READY")
  BY <1>2, FaultKeeps DEF Dispatch, Faults
<1>3. CASE h = NULL
  BY <1>3, Run_Gives, Constants DEF Dispatch
<1>4. CASE h \in Pcbs
  <2>1. /\ Pop(k) \in KernelType /\ Runners(Pop(k)) = Runners(k)
        /\ Pop(k).fault = k.fault /\ Pop(k).pid = k.pid
    BY <1>4, Pop_Keeps DEF Same, Runners
  <2> DEFINE s == Pop(k).que["head"]
  <2>2. s = NULL \/ s \in Pcbs
    BY <2>1 DEF KernelType, QNames, Ptr
  <2>3. s # NULL => /\ Pop(Pop(k)) \in KernelType
                     /\ Runners(Pop(Pop(k))) = Runners(k)
                     /\ Pop(Pop(k)).fault = k.fault /\ Pop(Pop(k)).pid = k.pid
    BY <2>1, <2>2, Pop_Keeps DEF Same, Runners
  <2>4. idles \in KernelType /\ idles.fault = k.fault /\ idles.pid = k.pid
    BY <2>1 DEF KernelType, States
  <2>5. Runners(k) = {} => Runners(idles) = {}
    BY <2>1 DEF KernelType, Runners
  <2>6. Dispatch(k) \in {Fault(k, "kassert"), Run(Pop(k), h), Run(idles, h)}
          \cup (IF s = NULL THEN {} ELSE {Run(Pop(Pop(k)), s)})
    BY <1>4, Constants DEF Dispatch, Pcbs
  <2> HIDE DEF s, h, r, idles
  <2> QED BY <1>4, <2>1, <2>2, <2>3, <2>4, <2>5, <2>6, Run_Gives, FaultKeeps DEF Faults
<1> QED BY <1>1, <1>2, <1>3, <1>4

-----------------------------------------------------------------------------
(* The process that had the CPU keeps it.                                  *)
Undisturbed(k, r) ==
  r.fault = "none" =>
    /\ k.fault = "none" /\ r.que["running"] = k.que["running"] /\ r.pid = k.pid
    /\ Runners(r) = Runners(k)

(* The process that had the CPU may lose it, but nobody gains it.          *)
Fewer(k, r) ==
  r.fault = "none" =>
    /\ k.fault = "none" /\ r.que["running"] = k.que["running"] /\ r.pid = k.pid
    /\ Runners(r) \subseteq Runners(k)

(* ready(), seen as an operation that makes nobody run.                    *)
LEMMA ready_Fewer ==
  ASSUME NEW k \in KernelType, NEW p \in Slots
  PROVE  LET r == ready(k, p)
         IN  /\ r \in KernelType /\ Fewer(k, r)
             /\ r.fault = "none" => Runners(r) = Runners(k) \ {p}
<1> DEFINE r == ready(k, p)
<1>1. r \in KernelType
  BY ready_Keeps
<1>2. ASSUME r.fault = "none"
      PROVE  /\ k.fault = "none" /\ r.que["running"] = k.que["running"] /\ r.pid = k.pid
             /\ Runners(r) = Runners(k) \ {p}
  <2>1. /\ k.fault = "none" /\ r.que["running"] = k.que["running"] /\ r.pid = k.pid
        /\ r.state = [k.state EXCEPT ![p] = "READY"]
    BY <1>2, ready_Keeps
  <2>2. k.state \in [Slots -> States]
    BY DEF KernelType
  <2> HIDE DEF r
  <2> QED BY <2>1, <2>2 DEF Runners
<1> QED BY <1>1, <1>2 DEF Fewer

(* The waiters of a dead process become ready; none of them runs.          *)
LEMMA notify_waiters_Keeps ==
  ASSUME NEW k \in KernelType, NEW pid, NEW G
  PROVE  LET r == notify_waiters(k, pid, G) IN r \in KernelType /\ Fewer(k, r)
<1> DEFINE at   == Chain(k.next, k.que["blocked_q"])
           hits == {n \in 0 .. MAX_PROC :
                       at[n] \in Pcbs /\ WaitsOn(k, at[n], pid, n = 0, G)}
           n    == CHOOSE i \in hits : \A j \in hits : i <= j
           q    == at[n]
           k1   == IF n = 0 THEN k ELSE [k EXCEPT !.next[at[n - 1]] = k.next[q]]
           k2   == [k1 EXCEPT !.ret[q] = BAD_PID]
<1>1. CASE hits = {}
  BY <1>1, FaultKeeps DEF notify_waiters, Faults, Fewer
<1>2. CASE hits # {}
  <2>1. n \in hits
    <3>1. hits \subseteq Nat
      OBVIOUS
    <3> HIDE DEF hits
    <3> QED BY <1>2, <3>1, HasMinimum
  <2>2. q \in Pcbs
    BY <2>1
  <2>3. notify_waiters(k, pid, G) \in {Fault(k, "loop"), ready(k2, q)}
    BY <1>2 DEF notify_waiters
  <2> HIDE DEF n, q, hits, at
  <2> DEFINE around == [k EXCEPT !.next[at[n - 1]] = k.next[q]]
  <2>4. k.next[q] \in Ptr
    BY <2>2 DEF KernelType, Pcbs
  <2>5. around \in KernelType
    BY <2>4 DEF KernelType
  <2>6. /\ around.state = k.state /\ around.que = k.que /\ around.fault = k.fault
        /\ around.pid = k.pid
    BY DEF KernelType
  <2> HIDE DEF around
  <2>7. /\ k1 \in KernelType /\ k1.state = k.state /\ k1.que = k.que /\ k1.fault = k.fault
        /\ k1.pid = k.pid
    BY <2>5, <2>6 DEF around
  <2> HIDE DEF k1
  <2>8. k2 \in KernelType
    <3>1. BAD_PID \in Int
      BY DEF BAD_PID
    <3> QED BY <2>7, <3>1 DEF KernelType
  <2>9. k2.state = k.state /\ k2.que = k.que /\ k2.fault = k.fault /\ k2.pid = k.pid
    BY <2>7 DEF KernelType
  <2> HIDE DEF k2
  <2>10. Fewer(k, ready(k2, q)) /\ ready(k2, q) \in KernelType
    BY <2>2, <2>8, <2>9, ready_Fewer, Constants DEF Fewer, Runners
  <2> QED BY <2>3, <2>10, FaultKeeps DEF Faults, Fewer
<1> QED BY <1>1, <1>2

-----------------------------------------------------------------------------
(* Differences of tick counts are tick counts.                             *)
LEMMA MinusIsTicks ==
  ASSUME NEW a, NEW b PROVE Minus(a, b) \in Ticks
BY SleepListAssumption DEF Minus, Ticks

(* The conversion yields an unsigned int, also when it wraps.              *)
LEMMA TicksOfMilliseconds ==
  ASSUME NEW ms \in Nat PROVE milliseconds_to_ticks(ms) \in Ticks
<1> DEFINE c == TIMEDIVISOR * ms
<1>1. c \in Nat
  BY DEF TIMEDIVISOR
<1> HIDE DEF c
<1>2. c % UINT \in 0 .. UINT - 1
  BY <1>1, SleepListAssumption
<1> DEFINE m == c % UINT
<1> HIDE DEF m
<1>3. m \in 0 .. UINT - 1 => m \div 1000 \in 0 .. UINT - 1
  BY SleepListAssumption
<1> QED BY <1>2, <1>3 DEF milliseconds_to_ticks, Ticks, c, m

(* Charging the next sleeper leaves tick counts.                           *)
LEMMA ShortenKeeps ==
  ASSUME NEW ticks \in [Slots -> Ticks], NEW s, NEW d
  PROVE  Shorten(ticks, s, d) \in [Slots -> Ticks]
BY MinusIsTicks DEF Shorten

(* sleep() takes the caller out of STATE_RUNNING and leaves the others.    *)
LEMMA sleep_Keeps ==
  ASSUME NEW k \in KernelType, NEW p \in Pcbs, NEW ms \in Nat
  PROVE  LET r == sleep(k, p, ms)
         IN  /\ r \in KernelType
             /\ r.fault = "none" =>
                  /\ k.fault = "none" /\ r.que["running"] = k.que["running"]
                  /\ r.pid = k.pid
                  /\ r.state = [k.state EXCEPT ![p] = "SLEEP"]
<1> DEFINE t    == milliseconds_to_ticks(ms)
           k1   == [k EXCEPT !.next[p] = NULL, !.state[p] = "SLEEP", !.sleepticks[p] = t]
           h    == k.headsleeper
           at   == Chain(k1.next, h)
           acc  == Accumulated(k1, at)
           n    == CHOOSE i \in 1 .. MAX_PROC :
                       /\ at[i] = NULL \/ acc[i] >= t
                       /\ \A j \in 1 .. i - 1 : at[j] # NULL /\ acc[j] < t
           prev == at[n - 1]
           succ == Step(k1.next, prev)
           rest == Minus(t, acc[n - 1])
           further == [k1 EXCEPT !.next = Between(@, prev, p, succ),
                                 !.sleepticks = Shorten([@ EXCEPT ![p] = rest], succ, rest)]
           first   == [k1 EXCEPT !.next[p] = h, !.headsleeper = p,
                                 !.sleepticks = Shorten(@, h, t)]
<1>1. sleep(k, p, ms) \in {Fault(k, "loop"), further, first}
  BY DEF sleep
<1>2. t \in Ticks /\ rest \in Ticks
  BY TicksOfMilliseconds, MinusIsTicks
<1>3. k1 \in KernelType
  BY <1>2 DEF KernelType, States, Ptr
<1>4. /\ k1.state = [k.state EXCEPT ![p] = "SLEEP"] /\ k1.fault = k.fault /\ k1.que = k.que
      /\ k1.pid = k.pid
  BY DEF KernelType
<1>5. h \in Ptr /\ p \in Ptr
  BY DEF KernelType, Ptr
<1> HIDE DEF t, k1, h, at, acc, n, prev, rest
<1>6. succ \in Ptr
  BY <1>3, Constants DEF Step, KernelType, Ptr
<1>7. /\ Between(k1.next, prev, p, succ) \in [Slots -> Ptr]
      /\ Shorten([k1.sleepticks EXCEPT ![p] = rest], succ, rest) \in [Slots -> Ticks]
      /\ Shorten(k1.sleepticks, h, t) \in [Slots -> Ticks]
  <2> HIDE DEF succ
  <2>1. [k1.sleepticks EXCEPT ![p] = rest] \in [Slots -> Ticks] /\ k1.sleepticks \in [Slots -> Ticks]
    BY <1>2, <1>3 DEF KernelType
  <2>2. Between(k1.next, prev, p, succ) \in [Slots -> Ptr]
    BY <1>3, <1>5, <1>6 DEF KernelType, Between
  <2> QED BY <2>1, <2>2, ShortenKeeps
<1>8. further \in KernelType /\ first \in KernelType
  <2> HIDE DEF succ
  <2> QED BY <1>3, <1>5, <1>7 DEF KernelType, Ptr
<1>9. /\ further.state = k1.state /\ further.fault = k1.fault /\ further.que = k1.que
      /\ further.pid = k1.pid
      /\ first.state = k1.state /\ first.fault = k1.fault /\ first.que = k1.que
      /\ first.pid = k1.pid
  BY <1>3 DEF KernelType
<1> QED BY <1>1, <1>4, <1>8, <1>9, FaultKeeps DEF Faults

(* sleep(), seen as an operation that makes nobody run.                    *)
LEMMA sleep_Fewer ==
  ASSUME NEW k \in KernelType, NEW p \in Pcbs, NEW ms \in Nat
  PROVE  LET r == sleep(k, p, ms)
         IN  /\ r \in KernelType /\ Fewer(k, r)
             /\ r.fault = "none" => Runners(r) = Runners(k) \ {p}
<1> DEFINE r == sleep(k, p, ms)
<1>1. r \in KernelType
  BY sleep_Keeps
<1>2. ASSUME r.fault = "none"
      PROVE  /\ k.fault = "none" /\ r.que["running"] = k.que["running"] /\ r.pid = k.pid
             /\ Runners(r) = Runners(k) \ {p}
  <2>1. /\ k.fault = "none" /\ r.que["running"] = k.que["running"] /\ r.pid = k.pid
        /\ r.state = [k.state EXCEPT ![p] = "SLEEP"]
    BY <1>2, sleep_Keeps
  <2>2. k.state \in [Slots -> States]
    BY DEF KernelType
  <2> HIDE DEF r
  <2> QED BY <2>1, <2>2 DEF Runners
<1> QED BY <1>1, <1>2 DEF Fewer

(* tick() wakes at least one sleeper, and no more than there are on the    *)
(* list: those behind it with no ticks left.                               *)
LEMMA DueCountInRange ==
  ASSUME NEW k \in KernelType, NEW at, NEW d, d = DueCount(k, at)
  PROVE  /\ d \in 1 .. MAX_PROC
         /\ \A i \in 1 .. d - 1 : at[i] # NULL /\ k.sleepticks[at[i]] = 0
         /\ d = MAX_PROC \/ at[d] = NULL \/ k.sleepticks[at[d]] # 0
<1> DEFINE stops == {n \in 1 .. MAX_PROC :
                        n = MAX_PROC \/ at[n] = NULL \/ k.sleepticks[at[n]] # 0}
           Due(n) == /\ \A i \in 1 .. n - 1 : at[i] # NULL /\ k.sleepticks[at[i]] = 0
                     /\ n = MAX_PROC \/ at[n] = NULL \/ k.sleepticks[at[n]] # 0
<1>1. PICK n \in stops : \A i \in stops : n <= i
  <2>1. MAX_PROC \in stops /\ stops \subseteq Nat
    BY ProcTableAssumption
  <2> HIDE DEF stops
  <2> QED BY <2>1, HasMinimum
<1>2. Due(n)
  <2>1. \A i \in 1 .. n - 1 : i \in 1 .. MAX_PROC /\ ~(n <= i)
    BY ProcTableAssumption
  <2>2. \A i \in 1 .. n - 1 : i \notin stops
    BY <1>1, <2>1
  <2> QED BY <2>1, <2>2
<1>3. \E i \in 1 .. MAX_PROC : Due(i)
  BY <1>2
<1> QED BY <1>3 DEF DueCount

(* Waking sleepers disturbs no running process: they were asleep.          *)
LEMMA wake_Keeps ==
  ASSUME NEW k \in KernelType, k.headsleeper \in Pcbs
  PROVE  wake(k) \in KernelType /\ Undisturbed(k, wake(k))
<1> DEFINE at    == Chain(k.next, k.headsleeper)
           due   == DueCount(k, at)
           woken == {at[i] : i \in 0 .. due - 1}
           last  == at[due - 1]
           state == [s \in Slots |-> IF s \in woken THEN "READY" ELSE k.state[s]]
           ticks == [k.sleepticks EXCEPT ![k.headsleeper] = 0]
           next  == [s \in Slots |-> IF s = last THEN NULL
                                     ELSE IF s = k.tail THEN k.headsleeper ELSE k.next[s]]
           first == IF k.tail = NULL THEN k.headsleeper ELSE k.que["head"]
           r     == [k EXCEPT !.state = state, !.sleepticks = ticks, !.next = next,
                              !.que["head"] = first, !.tail = last,
                              !.headsleeper = k.next[last]]
<1>1. CASE \E s \in woken : s \notin Pcbs \/ k.state[s] # "SLEEP"
  BY <1>1, FaultKeeps DEF wake, Faults, Undisturbed
<1>2. CASE \A s \in woken : s \in Pcbs /\ k.state[s] = "SLEEP"
  <2>1. wake(k) = r
    BY <1>2 DEF wake
  <2>2. last \in woken
    BY DueCountInRange, ProcTableAssumption
  <2>3. last \in Pcbs
    BY <1>2, <2>2
  <2> HIDE DEF last, due, at
  <2>8. \A s \in Slots : state[s] = "RUNNING" <=> k.state[s] = "RUNNING"
    BY <1>2
  <2> HIDE DEF woken
  <2>4. state \in [Slots -> States]
    BY DEF KernelType, States
  <2>5. ticks \in [Slots -> Ticks]
    <3>1. 0 \in Ticks
      BY SleepListAssumption DEF Ticks
    <3> QED BY <3>1 DEF KernelType
  <2>6. next \in [Slots -> Ptr]
    BY DEF KernelType, Ptr
  <2>7. first \in Ptr /\ k.next[last] \in Ptr
    BY <2>3, Constants DEF KernelType, QNames, Ptr
  <2> HIDE DEF state, ticks, next, first
  <2>9. r \in KernelType
    BY <2>3, <2>4, <2>5, <2>6, <2>7 DEF KernelType, Ptr
  <2>10. /\ r.state = state /\ r.fault = k.fault /\ r.pid = k.pid
         /\ r.que["running"] = k.que["running"]
    BY DEF KernelType, QNames
  <2> QED BY <2>1, <2>8, <2>9, <2>10 DEF Undisturbed, Runners
<1> QED BY <1>1, <1>2

(* The countdown changes tick counts only.                                 *)
LEMMA CountDown_Keeps ==
  ASSUME NEW k \in KernelType
  PROVE  CountDown(k) \in KernelType /\ Undisturbed(k, CountDown(k))
<1> DEFINE h == k.headsleeper
           r == [k EXCEPT !.sleepticks[h] = @ - 1]
<1>1. CASE ~(h # NULL /\ k.sleepticks[h] > 0)
  BY <1>1 DEF CountDown, Undisturbed
<1>2. CASE h # NULL /\ k.sleepticks[h] > 0
  <2>1. h \in Slots
    BY <1>2 DEF KernelType, Ptr, Pcbs
  <2>2. k.sleepticks[h] \in Ticks
    BY <2>1 DEF KernelType
  <2>3. k.sleepticks[h] - 1 \in Ticks
    BY <1>2, <2>2, SleepListAssumption DEF Ticks
  <2>4. r \in KernelType
    BY <2>3 DEF KernelType
  <2>5. r.state = k.state /\ r.que = k.que /\ r.fault = k.fault /\ r.pid = k.pid
    BY DEF KernelType
  <2>6. CountDown(k) = r
    BY <1>2 DEF CountDown
  <2> QED BY <2>4, <2>5, <2>6 DEF Undisturbed, Runners
<1> QED BY <1>1, <1>2

(* tick() runs after next() (disp.c:399-402) and does not disturb the      *)
(* process it chose.                                                       *)
LEMMA tick_Keeps ==
  ASSUME NEW k \in KernelType
  PROVE  tick(k) \in KernelType /\ Undisturbed(k, tick(k))
<1>1. CASE k.headsleeper = NULL
  BY <1>1 DEF tick, Undisturbed
<1>2. CASE k.headsleeper # NULL
  <2>1. k.headsleeper \in Pcbs
    BY <1>2 DEF KernelType, Ptr
  <2>2. tick(k) \in {CountDown(wake(k)), CountDown(k)}
    BY <1>2 DEF tick
  <2>3. CountDown(wake(k)) \in KernelType /\ Undisturbed(k, CountDown(wake(k)))
    BY <2>1, wake_Keeps, CountDown_Keeps DEF Undisturbed
  <2> QED BY <2>2, <2>3, CountDown_Keeps
<1> QED BY <1>1, <1>2

-----------------------------------------------------------------------------
(* What send and recv return.                                              *)
OutcomeOf(k, o) ==
  /\ o.mem \in KernelType /\ o.rc \in Int /\ o.from \in Nat
  /\ Undisturbed(k, o.mem)

(* What send() and recv() return besides the memory.                       *)
LEMMA OutcomeIs ==
  ASSUME NEW k \in KernelType, NEW m \in KernelType, NEW rc \in Int, NEW from \in Nat,
         Undisturbed(k, m)
  PROVE  OutcomeOf(k, Outcome(m, rc, from))
BY DEF OutcomeOf, Outcome

(* The number of bytes copied is no error code.                            *)
LEMMA copyIsNat ==
  ASSUME NEW a \in Nat, NEW b \in Nat, NEW c \in Nat PROVE copy(a, b, c) \in Nat /\ copy(a, b, c) \in Int
BY DEF copy, Least

(* A message, or its length, is recorded in an argument.                   *)
LEMMA SetArg ==
  ASSUME NEW k \in KernelType, NEW s, NEW pid \in Nat
  PROVE  [k EXCEPT !.arg[s] = pid] \in KernelType /\ Undisturbed(k, [k EXCEPT !.arg[s] = pid])
<1>1. [k EXCEPT !.arg[s] = pid] \in KernelType
  BY DEF KernelType
<1>2. /\ [k EXCEPT !.arg[s] = pid].state = k.state
      /\ [k EXCEPT !.arg[s] = pid].que = k.que
      /\ [k EXCEPT !.arg[s] = pid].fault = k.fault
      /\ [k EXCEPT !.arg[s] = pid].pid = k.pid
  BY DEF KernelType
<1> QED BY <1>1, <1>2 DEF Undisturbed, Runners

(* send() writes the receiver's pid argument and nothing else.             *)
LEMMA send_Keeps ==
  ASSUME NEW k \in KernelType, NEW p \in Pcbs, NEW zero \in BOOLEAN
  PROVE  OutcomeOf(k, send(k, p, zero))
<1> DEFINE to     == k.arg[p]
           dest   == Slot(to)
           copied == copy(k.buf[p], k.msg[p], k.buf[dest])
           told   == [k EXCEPT !.arg[dest] = k.pid[p]]
<1>1. to \in Nat /\ dest \in Slots
  BY SlotInSlots, Constants DEF KernelType
<1>2. copied \in Int
  <2>1. k.buf[p] \in Nat /\ k.msg[p] \in Nat /\ k.buf[dest] \in Nat
    BY <1>1, Constants DEF KernelType
  <2> QED BY <2>1, copyIsNat
<1>3. told \in KernelType /\ Undisturbed(k, told)
  BY SetArg, PidIsNat, Constants
<1>4. k \in KernelType /\ Undisturbed(k, k)
  BY DEF Undisturbed
<1>5. send(k, p, zero) \in {Outcome(k, 0, to), Outcome(told, copied, to), Outcome(k, copied, to),
                            Outcome(k, WOULD_DEADLOCK, to)}
  BY DEF send
<1>6. WOULD_DEADLOCK \in Int /\ 0 \in Int
  BY DEF WOULD_DEADLOCK
<1> HIDE DEF to, dest, copied, told
<1> QED BY <1>1, <1>2, <1>3, <1>4, <1>5, <1>6, OutcomeIs

(* The copy itself changes nothing the kernel keeps.                       *)
LEMMA Take_Keeps ==
  ASSUME NEW k \in KernelType, NEW m \in KernelType, NEW s \in Slots, NEW p \in Pcbs,
         NEW from \in Nat, Undisturbed(k, m)
  PROVE  OutcomeOf(k, Take(m, s, p, from))
<1>1. m.buf[s] \in Nat /\ m.msg[s] \in Nat /\ m.buf[p] \in Nat
  BY Constants DEF KernelType
<1>2. copy(m.buf[s], m.msg[s], m.buf[p]) \in Int
  BY <1>1, copyIsNat
<1>3. Fault(m, "wild") \in KernelType /\ Undisturbed(k, Fault(m, "wild"))
  BY FaultKeeps DEF Faults, Undisturbed
<1> QED BY <1>2, <1>3, OutcomeIs DEF Take

(* recv() from any writes the caller's pid argument and nothing else.      *)
LEMMA RecvAny_Keeps ==
  ASSUME NEW k \in KernelType, NEW p \in Pcbs, NEW G
  PROVE  OutcomeOf(k, RecvAny(k, p, G))
<1> DEFINE at   == Chain(k.next, k.que["blocked_q"])
           hits == {n \in 0 .. MAX_PROC :
                       at[n] \in Pcbs /\ at[n] # p /\ SendsTo(k, at[n], k.pid[p], G)}
           n    == CHOOSE i \in hits : \A j \in hits : i <= j
           s    == at[n]
           told == [k EXCEPT !.arg[p] = k.pid[s]]
<1>1. CASE hits = {}
  <2>1. Fault(k, "loop") \in KernelType /\ Undisturbed(k, Fault(k, "loop"))
    BY FaultKeeps DEF Faults, Undisturbed
  <2>2. Undisturbed(k, k)
    BY DEF Undisturbed
  <2>3. RecvAny(k, p, G) \in {Outcome(Fault(k, "loop"), 0, 0), Outcome(k, 0, 0)}
    BY <1>1 DEF RecvAny
  <2> QED BY <2>1, <2>2, <2>3, OutcomeIs
<1>2. CASE hits # {}
  <2>1. n \in hits
    <3>1. hits \subseteq Nat
      OBVIOUS
    <3> HIDE DEF hits
    <3> QED BY <1>2, <3>1, HasMinimum
  <2>2. s \in Pcbs
    BY <2>1
  <2>3. RecvAny(k, p, G) = Take(told, s, p, k.pid[s])
    BY <1>2 DEF RecvAny
  <2> HIDE DEF s, n, hits, at
  <2>4. k.pid[s] \in Nat
    BY <2>2, Constants, PidIsNat
  <2> QED BY <2>2, <2>3, <2>4, SetArg, Take_Keeps, Constants
<1> QED BY <1>1, <1>2

(* recv() from one process changes nothing.                                *)
LEMMA RecvFrom_Keeps ==
  ASSUME NEW k \in KernelType, NEW p \in Pcbs, NEW G
  PROVE  OutcomeOf(k, RecvFrom(k, p, G))
<1> DEFINE from == k.arg[p]
           s    == Slot(from)
<1>1. from \in Nat /\ s \in Slots
  BY SlotInSlots, Constants DEF KernelType
<1>2. Undisturbed(k, k)
  BY DEF Undisturbed
<1>3. RecvFrom(k, p, G) \in {Outcome(k, WOULD_DEADLOCK, from), Take(k, s, p, from),
                             Outcome(k, 0, from)}
  BY DEF RecvFrom
<1>4. WOULD_DEADLOCK \in Int /\ 0 \in Int
  BY DEF WOULD_DEADLOCK
<1> HIDE DEF from, s
<1> QED BY <1>1, <1>2, <1>3, <1>4, OutcomeIs, Take_Keeps, Constants

-----------------------------------------------------------------------------
(* The caller p, if it alone has the CPU, has lost it.                     *)
Gave(k, p, r) ==
  /\ r \in KernelType
  /\ r.fault = "none" => k.fault = "none" /\ r.pid = k.pid
  /\ r.fault = "none" /\ Runners(k) \subseteq {p} =>
       r.que["running"] = k.que["running"] /\ Runners(r) = {}

(* A result is recorded in ret.                                            *)
LEMMA SetRet ==
  ASSUME NEW k \in KernelType, NEW p, NEW n \in Int
  PROVE  [k EXCEPT !.ret[p] = n] \in KernelType /\ Undisturbed(k, [k EXCEPT !.ret[p] = n])
<1>1. [k EXCEPT !.ret[p] = n] \in KernelType
  BY DEF KernelType
<1>2. /\ [k EXCEPT !.ret[p] = n].state = k.state
      /\ [k EXCEPT !.ret[p] = n].que = k.que
      /\ [k EXCEPT !.ret[p] = n].fault = k.fault
      /\ [k EXCEPT !.ret[p] = n].pid = k.pid
  BY DEF KernelType
<1> QED BY <1>1, <1>2 DEF Undisturbed, Runners

(* A caller made ready has given the CPU up.                               *)
LEMMA ready_Gives ==
  ASSUME NEW k \in KernelType, NEW p \in Pcbs
  PROVE  Gave(k, p, ready(k, p))
BY ready_Fewer, Constants DEF Gave, Fewer

(* What is written first does not matter for who gives the CPU up.         *)
LEMMA GaveAfter ==
  ASSUME NEW k, NEW m, NEW p, NEW r, Undisturbed(k, m), Gave(m, p, r)
  PROVE  Gave(k, p, r)
BY DEF Gave, Undisturbed

(* After a transfer the caller is ready, and so is its partner.            *)
LEMMA Both_Gives ==
  ASSUME NEW k \in KernelType, NEW p \in Pcbs, NEW other \in Slots, NEW n \in Int
  PROVE  Gave(k, p, Both(k, p, other, n))
<1> DEFINE k0 == [k EXCEPT !.ret[p] = n, !.ret[other] = n]
           k1 == ready(k0, p)
           q  == get_q(k1.state[other])
           k2 == remove(k1, q, k.pid[other])
<1>1. k0 \in KernelType /\ Undisturbed(k, k0)
  <2>1. k0 \in KernelType
    BY DEF KernelType
  <2>2. k0.state = k.state /\ k0.que = k.que /\ k0.fault = k.fault /\ k0.pid = k.pid
    BY DEF KernelType
  <2> QED BY <2>1, <2>2 DEF Undisturbed, Runners
<1>2. Gave(k, p, k1)
  BY <1>1, ready_Gives, GaveAfter
<1>3. CASE k.pid[other] = 0
  BY <1>2, <1>3 DEF Both
<1>4. CASE k.pid[other] # 0
  <2>1. Both(k, p, other, n) = ready(k2, other)
    BY <1>4 DEF Both
  <2>2. k1.state[other] # "RUNNING" => q # "running"
    BY DEF get_q
  <2> HIDE DEF k1, q
  <2>3. /\ k2 \in KernelType /\ (k2.fault = "none" => k1.fault = "none" /\ k2.pid = k1.pid)
        /\ k2.fault = "none" /\ q # "running" => Same(k1, k2)
    BY <1>2, remove_Keeps DEF Gave
  <2> HIDE DEF k2
  <2>4. Gave(k, p, ready(k2, other))
    <3>1. k2.fault = "none" /\ Runners(k) \subseteq {p} =>
            Runners(k2) = {} /\ k2.que["running"] = k.que["running"]
      BY <1>2, <2>2, <2>3 DEF Gave, Runners, Same
    <3> QED BY <1>2, <2>3, <3>1, ready_Fewer DEF Gave, Fewer
  <2> QED BY <2>1, <2>4
<1> QED BY <1>3, <1>4

(* A caller that blocks has given the CPU up.                              *)
LEMMA Block_Gives ==
  ASSUME NEW k \in KernelType, NEW p \in Pcbs, NEW code \in Int
  PROVE  Gave(k, p, Block(k, p, code))
<1> DEFINE b == [k EXCEPT !.state[p] = "BLOCKED", !.ret[p] = code]
<1>1. b \in KernelType
  BY DEF KernelType, States
<1>2. /\ b.state = [k.state EXCEPT ![p] = "BLOCKED"] /\ b.que = k.que /\ b.fault = k.fault
      /\ b.pid = k.pid
  BY DEF KernelType
<1>3. k.state \in [Slots -> States]
  BY DEF KernelType
<1> HIDE DEF b
<1>4. Runners(k) \subseteq {p} => Runners(b) = {}
  BY <1>2, <1>3 DEF Runners
<1>5. LET r == append(b, "blocked_q", p)
      IN  r \in KernelType /\ (r.fault = "none" => Same(b, r))
  BY <1>1, append_Keeps DEF QNames
<1>6. Block(k, p, code) = append(b, "blocked_q", p)
  BY DEF Block, b
<1> QED BY <1>2, <1>4, <1>5, <1>6 DEF Gave, Same, Runners

(* However a send or a receive ends, the caller has given the CPU up.      *)
LEMMA Finish_Gives ==
  ASSUME NEW k \in KernelType, NEW p \in Pcbs, NEW o, NEW code \in Int, OutcomeOf(k, o)
  PROVE  Gave(k, p, Finish(o, p, code))
<1> DEFINE m == [o.mem EXCEPT !.ret[p] = o.rc]
<1>1. /\ o.mem \in KernelType /\ o.rc \in Int /\ Slot(o.from) \in Slots
      /\ Undisturbed(k, o.mem)
  BY SlotInSlots DEF OutcomeOf
<1>2. Gave(o.mem, p, Both(o.mem, p, Slot(o.from), o.rc))
  BY <1>1, Both_Gives
<1>3. Gave(o.mem, p, ready(m, p))
  <2>1. m \in KernelType /\ Undisturbed(o.mem, m)
    BY <1>1, SetRet
  <2> HIDE DEF m
  <2> QED BY <2>1, ready_Gives, GaveAfter
<1>4. Gave(o.mem, p, Block(o.mem, p, code))
  BY <1>1, Block_Gives
<1>5. Finish(o, p, code) \in {Both(o.mem, p, Slot(o.from), o.rc), ready(m, p),
                              Block(o.mem, p, code)}
  BY DEF Finish
<1> HIDE DEF m
<1> QED BY <1>1, <1>2, <1>3, <1>4, <1>5, GaveAfter

(* Validation yields 0 or an error code.                                   *)
LEMMA validateIsInt ==
  ASSUME NEW k, NEW p, NEW pid, NEW ok PROVE validate(k, p, pid, ok) \in Int
BY DEF validate, BAD_PID, SRC_DST_SAME, BAD_BUFFER_PARM

(* The case SYS_SEND up to next(): the caller has given the CPU up.        *)
LEMMA SysSend_Gives ==
  ASSUME NEW k \in KernelType, NEW p \in Pcbs, NEW ok, NEW zero \in BOOLEAN
  PROVE  Gave(k, p, SysSend(k, p, ok, zero))
<1> DEFINE rc == validate(k, p, k.arg[p], ok)
           o  == IF rc < 0 THEN Outcome(k, rc, k.arg[p]) ELSE send(k, p, zero)
<1>1. OutcomeOf(k, o)
  <2>1. rc \in Int /\ k.arg[p] \in Nat /\ Undisturbed(k, k)
    BY validateIsInt, Constants DEF KernelType, Undisturbed
  <2> HIDE DEF rc
  <2> QED BY <2>1, OutcomeIs, send_Keeps
<1>2. SYS_SEND \in Int
  BY DEF SYS_SEND
<1>3. SysSend(k, p, ok, zero) = Finish(o, p, SYS_SEND)
  BY DEF SysSend
<1> HIDE DEF o
<1> QED BY <1>1, <1>2, <1>3, Finish_Gives

(* The case SYS_RECV up to next(): the caller has given the CPU up.        *)
LEMMA SysRecv_Gives ==
  ASSUME NEW k \in KernelType, NEW p \in Pcbs, NEW ok, NEW G
  PROVE  Gave(k, p, SysRecv(k, p, ok, G))
<1> DEFINE rc == validate(k, p, k.arg[p], ok)
           o  == IF rc < 0 THEN Outcome(k, rc, k.arg[p])
                 ELSE IF k.arg[p] = 0 THEN RecvAny(k, p, G)
                 ELSE RecvFrom(k, p, G)
<1>1. OutcomeOf(k, o)
  <2>1. rc \in Int /\ k.arg[p] \in Nat /\ Undisturbed(k, k)
    BY validateIsInt, Constants DEF KernelType, Undisturbed
  <2> HIDE DEF rc
  <2> QED BY <2>1, OutcomeIs, RecvAny_Keeps, RecvFrom_Keeps
<1>2. SYS_RECV \in Int
  BY DEF SYS_RECV
<1>3. SysRecv(k, p, ok, G) = Finish(o, p, SYS_RECV)
  BY DEF SysRecv
<1> HIDE DEF o
<1> QED BY <1>1, <1>2, <1>3, Finish_Gives

-----------------------------------------------------------------------------
(* The inductive invariant: the fields have their types, one process runs. *)
Inv == TypeOK /\ OneRunning /\ PidNamesSlot

PidsNameSlots(k) == \A s \in Slots : k.pid[s] > 0 => Slot(k.pid[s]) = s

(* The invariant as a statement about the kernel's memory.                 *)
LEMMA InvIs == Inv <=> kern \in KernelType /\ OneRuns(kern) /\ PidsNameSlots(kern)
BY DEF Inv, TypeOK, OneRunning, OneRuns, Running, PidNamesSlot, PidsNameSlots

(* What initproc() leaves satisfies the invariant.                         *)
LEMMA InitInv == Init => Inv
<1> SUFFICES ASSUME Init PROVE Inv
  OBVIOUS
<1>1. Boot \in KernelType
  <2>1. 0 \in Pids /\ ROOT \in Pids /\ IDLE \in Pids /\ 0 \in Ticks
    BY ProcTableAssumption, SleepListAssumption DEF Pids, ROOT, IDLE, Ticks
  <2> QED BY <2>1, Constants DEF Boot, KernelType, Ptr, States, QNames, Faults
<1>2. OneRuns(Boot)
  <2>1. Boot.que["running"] = ROOT
    BY DEF Boot, QNames
  <2>2. \A s \in Slots : Boot.state[s] = "RUNNING" <=> s = ROOT
    BY DEF Boot
  <2> QED BY <2>1, <2>2, Constants DEF OneRuns
<1>3. PidsNameSlots(Boot)
  <2>1. \A s \in Slots : Boot.pid[s] \in {0, s}
    BY DEF Boot
  <2> QED BY <2>1, SlotOfSlot DEF PidsNameSlots
<1> QED BY <1>1, <1>2, <1>3, InvIs DEF Init

(* It is enough that the memory a handler leaves is as it should be.       *)
LEMMA ServeKeeps ==
  ASSUME Inv, NEW k \in KernelType, k.fault = "none" => OneRuns(k) /\ PidsNameSlots(k), Serve(k)
  PROVE  Inv'
<1>1. CASE k.fault = "none"
  <2>1. kern' \in KernelType /\ OneRuns(kern') /\ PidsNameSlots(kern')
    BY <1>1 DEF Serve
  <2> QED
    BY <2>1 DEF Inv, TypeOK, OneRunning, OneRuns, Running, PidNamesSlot, PidsNameSlots
<1>2. CASE k.fault # "none"
  <2>1. kern' = [kern EXCEPT !.fault = k.fault]
    BY <1>2 DEF Serve
  <2>2. kern \in KernelType /\ OneRuns(kern) /\ PidsNameSlots(kern)
    BY InvIs
  <2>3. kern' \in KernelType
    BY <2>1, <2>2 DEF KernelType
  <2>4. kern'.state = kern.state /\ kern'.que = kern.que /\ kern'.pid = kern.pid
    BY <2>1, <2>2 DEF KernelType
  <2>5. OneRuns(kern') /\ PidsNameSlots(kern')
    BY <2>2, <2>4 DEF OneRuns, PidsNameSlots
  <2> QED
    BY <2>3, <2>5 DEF Inv, TypeOK, OneRunning, OneRuns, Running, PidNamesSlot, PidsNameSlots
<1> QED BY <1>1, <1>2

(* What the handlers use of the invariant: running is a process.           *)
LEMMA RunningIsPcb ==
  ASSUME Inv PROVE kern \in KernelType /\ OneRuns(kern) /\ Running \in Pcbs /\ Running \in Slots
BY Constants DEF Inv, TypeOK, OneRunning, OneRuns, Running

(* A request in which the caller gives the CPU up.                         *)
LEMMA DispatchKeeps ==
  ASSUME Inv, NEW r, Gave(kern, Running, r)
  PROVE  /\ Dispatch(r) \in KernelType
         /\ Dispatch(r).fault = "none" => OneRuns(Dispatch(r)) /\ PidsNameSlots(Dispatch(r))
<1>1. Runners(kern) \subseteq {Running}
  BY DEF Inv, OneRunning, Runners
<1>2. r \in KernelType /\ (r.fault = "none" => Runners(r) = {} /\ r.pid = kern.pid)
  BY <1>1 DEF Gave
<1>3. PidsNameSlots(kern)
  BY InvIs
<1>4. /\ Dispatch(r) \in KernelType
      /\ Dispatch(r).fault = "none" =>
           r.fault = "none" /\ OneRuns(Dispatch(r)) /\ Dispatch(r).pid = r.pid
  BY <1>2, Dispatch_Gives
<1> QED BY <1>2, <1>3, <1>4 DEF PidsNameSlots

(* A request that leaves the caller running.                               *)
LEMMA UndisturbedKeeps ==
  ASSUME NEW k \in KernelType, OneRuns(k), NEW r, Undisturbed(k, r), r.fault = "none"
  PROVE  OneRuns(r) /\ (PidsNameSlots(k) => PidsNameSlots(r))
<1>1. OneRuns(r)
  BY Constants DEF Undisturbed, OneRuns, Runners
<1>2. r.pid = k.pid
  BY DEF Undisturbed
<1> QED BY <1>1, <1>2 DEF PidsNameSlots

(* A result is an int.                                                     *)
LEMMA CodeIsInt ==
  ASSUME NEW n \in Int PROVE Code(n) \in Int
BY DEF Code

(* A pid that grows by the size of the table keeps its slot.               *)
LEMMA NewPidNamesSlot ==
  ASSUME NEW k \in KernelType, PidsNameSlots(k), NEW i \in Pcbs
  PROVE  /\ NewPid(k, i) \in Pids /\ NewPid(k, i) \in Nat
         /\ NewPid(k, i) > 0 => Slot(NewPid(k, i)) = i
<1> DEFINE pid == k.pid[i]
<1>1. pid \in Nat /\ i \in Slots
  BY PidIsNat, Constants
<1>2. CASE NewPid(k, i) = i
  BY <1>1, <1>2, SlotOfSlot, Constants, ProcTableAssumption DEF Slots, Pids
<1>3. CASE NewPid(k, i) # i
  <2>1. Slot(pid) = i /\ NewPid(k, i) = pid + MAX_PROC /\ ~(pid + MAX_PROC >= INT_MAX)
    BY <1>1, <1>3 DEF NewPid
  <2> HIDE DEF pid
  <2>2. pid + MAX_PROC \in Pids
    BY <1>1, <2>1, ProcTableAssumption DEF Pids
  <2>3. Slot(pid + MAX_PROC) = i
    BY <1>1, <2>1, NextPidSameSlot
  <2> QED BY <1>1, <2>1, <2>2, <2>3, ProcTableAssumption
<1> QED BY <1>2, <1>3

(* create() on a free slot: the new process is ready, not running, and its *)
(* pid leads to its slot, also when the allocation fails.                  *)
LEMMA create_Keeps ==
  ASSUME NEW k \in KernelType, NEW p \in Pcbs, NEW i \in FreeSlots(k), NEW allocated \in BOOLEAN,
         OneRuns(k), PidsNameSlots(k)
  PROVE  LET r == create(k, p, i, allocated)
         IN  r \in KernelType /\ (r.fault = "none" => OneRuns(r) /\ PidsNameSlots(r))
<1> DEFINE pid == NewPid(k, i)
           r   == remove(k, "dead_q", i)
           k1  == [r EXCEPT !.pid[i] = pid]
           k2  == [k1 EXCEPT !.state[i] = "READY"]
           k3  == ready(k2, i)
<1>1. i \in Pcbs /\ i \in Slots /\ k.state[i] = "STOPPED"
  BY Constants DEF FreeSlots
<1>2. pid \in Pids /\ pid \in Nat /\ Code(pid) \in Int /\ -1 \in Int /\ (pid > 0 => Slot(pid) = i)
  BY <1>1, NewPidNamesSlot, CodeIsInt
<1>3. create(k, p, i, allocated) =
        IF ~allocated THEN [k1 EXCEPT !.ret[p] = -1] ELSE [k3 EXCEPT !.ret[p] = Code(pid)]
  BY DEF create
<1> HIDE DEF pid
<1>4. r \in KernelType /\ (r.fault = "none" => Same(k, r))
  BY remove_Keeps
<1> HIDE DEF r
<1>5. /\ k1 \in KernelType
      /\ k1.fault = "none" => OneRuns(k1) /\ PidsNameSlots(k1) /\ k1.state = k.state
  <2>1. k1 \in KernelType
    BY <1>2, <1>4 DEF KernelType
  <2>2. /\ k1.pid = [r.pid EXCEPT ![i] = pid] /\ k1.state = r.state /\ k1.que = r.que
        /\ k1.fault = r.fault
    BY <1>4 DEF KernelType
  <2>3. k.pid \in [Slots -> Pids]
    BY DEF KernelType
  <2> HIDE DEF k1
  <2>4. k1.fault = "none" => PidsNameSlots(k1)
    BY <1>2, <1>4, <2>2, <2>3 DEF PidsNameSlots, Same
  <2>5. k1.fault = "none" => OneRuns(k1)
    BY <1>4, <2>2 DEF OneRuns, Same
  <2> QED BY <1>4, <2>1, <2>2, <2>4, <2>5 DEF Same
<1> HIDE DEF k1
<1>6. k2 \in KernelType /\ (k2.fault = "none" => OneRuns(k2) /\ PidsNameSlots(k2) /\ i \notin Runners(k2))
  <2>1. k2 \in KernelType
    BY <1>5 DEF KernelType, States
  <2>2. /\ k2.state = [k1.state EXCEPT ![i] = "READY"] /\ k2.que = k1.que
        /\ k2.fault = k1.fault /\ k2.pid = k1.pid
    BY <1>5 DEF KernelType
  <2>3. k1.state \in [Slots -> States]
    BY <1>5 DEF KernelType
  <2> HIDE DEF k2
  <2>4. k2.fault = "none" => k1.que["running"] # i
    BY <1>1, <1>5, <2>2 DEF OneRuns
  <2> QED BY <1>1, <1>5, <2>1, <2>2, <2>3, <2>4 DEF OneRuns, PidsNameSlots, Runners
<1> HIDE DEF k2
<1>7. k3 \in KernelType /\ (k3.fault = "none" => OneRuns(k3) /\ PidsNameSlots(k3))
  <2>1. k3 \in KernelType /\ Fewer(k2, k3) /\ (k3.fault = "none" => Runners(k3) = Runners(k2) \ {i})
    BY <1>1, <1>6, ready_Fewer
  <2> HIDE DEF k3
  <2>2. k3.fault = "none" => k2.fault = "none" /\ Undisturbed(k2, k3)
    BY <1>6, <2>1 DEF Fewer, Undisturbed
  <2> QED BY <1>6, <2>1, <2>2, UndisturbedKeeps
<1> HIDE DEF k3
<1>8. \A m, n : m \in KernelType /\ (m.fault = "none" => OneRuns(m) /\ PidsNameSlots(m)) /\ n \in Int =>
        LET w == [m EXCEPT !.ret[p] = n]
        IN  w \in KernelType /\ (w.fault = "none" => OneRuns(w) /\ PidsNameSlots(w))
  <2> TAKE m, n
  <2> DEFINE w == [m EXCEPT !.ret[p] = n]
  <2> HAVE m \in KernelType /\ (m.fault = "none" => OneRuns(m) /\ PidsNameSlots(m)) /\ n \in Int
  <2>1. w \in KernelType /\ Undisturbed(m, w)
    BY SetRet
  <2> HIDE DEF w
  <2>2. w.fault = "none" => m.fault = "none"
    BY <2>1 DEF Undisturbed
  <2> QED BY <2>1, <2>2, UndisturbedKeeps DEF w
<1> QED BY <1>2, <1>3, <1>5, <1>7, <1>8

(* SYS_CREATE keeps the invariant, also with a full table.                 *)
LEMMA CreateKeeps == Inv /\ Create => Inv'
<1> SUFFICES ASSUME Inv, Create PROVE Inv'
  OBVIOUS
<1>1. kern \in KernelType /\ OneRuns(kern) /\ PidsNameSlots(kern) /\ Running \in Pcbs
  BY RunningIsPcb, InvIs
<1>2. CASE FreeSlots(kern) = {}
  <2> DEFINE r == remove(kern, "dead_q", MAX_PROC)
             k == [r EXCEPT !.ret[Running] = -1]
  <2>1. r \in KernelType /\ Undisturbed(kern, r)
    BY <1>1, remove_Keeps DEF Same, Undisturbed, Runners
  <2>2. Serve(k)
    BY <1>2 DEF Create
  <2> HIDE DEF r
  <2>3. k \in KernelType /\ Undisturbed(kern, k)
    <3>1. -1 \in Int
      OBVIOUS
    <3>2. k \in KernelType /\ Undisturbed(r, k)
      BY <2>1, <3>1, SetRet
    <3> HIDE DEF k
    <3> QED BY <2>1, <3>2 DEF Undisturbed
  <2> HIDE DEF k
  <2> QED BY <1>1, <2>2, <2>3, UndisturbedKeeps, ServeKeeps
<1>3. CASE FreeSlots(kern) # {}
  <2> DEFINE i == CHOOSE s \in FreeSlots(kern) : \A r \in FreeSlots(kern) : s <= r
  <2>1. PICK allocated \in {TRUE, ~AllocMayFail} : Serve(create(kern, Running, i, allocated))
    BY <1>3 DEF Create
  <2>2. i \in FreeSlots(kern)
    <3>1. FreeSlots(kern) \subseteq Nat
      BY Constants DEF FreeSlots
    <3> QED BY <1>3, <3>1, HasMinimum
  <2>3. allocated \in BOOLEAN
    OBVIOUS
  <2> HIDE DEF i
  <2> QED BY <1>1, <2>1, <2>2, <2>3, create_Keeps, ServeKeeps
<1> QED BY <1>2, <1>3

(* SYS_YIELD keeps the invariant.                                          *)
LEMMA YieldKeeps == Inv /\ Yield => Inv'
<1> SUFFICES ASSUME Inv, Yield PROVE Inv'
  OBVIOUS
<1>1. Gave(kern, Running, ready(kern, Running))
  BY RunningIsPcb, ready_Gives
<1>2. Serve(Dispatch(ready(kern, Running)))
  BY DEF Yield
<1> QED BY <1>1, <1>2, DispatchKeeps, ServeKeeps

(* SYS_STOP keeps the invariant: the caller is stopped before next().      *)
LEMMA StopWithKeeps ==
    ASSUME NEW G, Inv, StopWith(G)
    PROVE  Inv'
<1> DEFINE p  == Running
           k0 == [kern EXCEPT !.state[p] = "STOPPED", !.next[p] = NULL]
           k1 == append(k0, "dead_q", p)
<1>1. Serve(Dispatch(notify_waiters(k1, kern.pid[p], G)))
  BY DEF StopWith, Stopped
<1>2. kern \in KernelType /\ p \in Pcbs /\ p \in Slots
  BY RunningIsPcb
<1>3. k0 \in KernelType
  BY <1>2 DEF KernelType, States, Ptr
<1>4. /\ k0.state = [kern.state EXCEPT ![p] = "STOPPED"] /\ k0.que = kern.que
      /\ k0.fault = kern.fault /\ k0.pid = kern.pid
  BY <1>2 DEF KernelType
<1>5. Runners(kern) \subseteq {p} => Runners(k0) = {}
  BY <1>2, <1>4 DEF Runners, KernelType
<1> HIDE DEF k0
<1>6. k1 \in KernelType /\ (k1.fault = "none" => Same(k0, k1))
  BY <1>2, <1>3, append_Keeps DEF QNames
<1> HIDE DEF k1
<1> DEFINE k2 == notify_waiters(k1, kern.pid[p], G)
<1>7. k2 \in KernelType /\ Fewer(k1, k2)
  BY <1>6, notify_waiters_Keeps
<1> HIDE DEF k2
<1>8. Gave(kern, p, k2)
  BY <1>4, <1>5, <1>6, <1>7 DEF Gave, Fewer, Same, Runners
<1>9. Serve(Dispatch(k2))
  BY <1>1 DEF k2
<1> QED BY <1>8, <1>9, DispatchKeeps, ServeKeeps

(* SYS_STOP, whatever the words left over happen to equal.                 *)
LEMMA StopKeeps == Inv /\ Stop => Inv'
BY StopWithKeeps DEF Stop

(* SYS_GETPID keeps the invariant.                                         *)
LEMMA GetPidKeeps == Inv /\ GetPid => Inv'
<1> SUFFICES ASSUME Inv, GetPid PROVE Inv'
  OBVIOUS
<1> DEFINE k == [kern EXCEPT !.ret[Running] = Code(kern.pid[Running])]
<1>1. Serve(k)
  BY DEF GetPid
<1>2. kern.pid[Running] \in Int
  BY RunningIsPcb, PidIsNat
<1>3. k \in KernelType /\ Undisturbed(kern, k)
  BY <1>2, RunningIsPcb, CodeIsInt, SetRet
<1> HIDE DEF k
<1> QED BY <1>1, <1>3, RunningIsPcb, InvIs, UndisturbedKeeps, ServeKeeps

(* Recording the arguments of a call disturbs nobody.                      *)
LEMMA WithArgs_Keeps ==
  ASSUME NEW k \in KernelType, NEW p, NEW call \in {"none", "send", "recv"},
         NEW arg \in Nat, NEW buf \in Nat, NEW msg \in Nat
  PROVE  LET r == WithArgs(k, p, call, arg, buf, msg)
         IN  r \in KernelType /\ Undisturbed(k, r)
<1> DEFINE r == WithArgs(k, p, call, arg, buf, msg)
<1>1. r \in KernelType
  BY DEF WithArgs, KernelType
<1>2. r.state = k.state /\ r.que = k.que /\ r.fault = k.fault /\ r.pid = k.pid
  BY DEF WithArgs, KernelType
<1> QED BY <1>1, <1>2 DEF Undisturbed, Runners

(* SYS_SEND keeps the invariant.                                           *)
LEMMA SendKeeps ==
  ASSUME NEW d \in Nat, NEW buf \in BufLens, NEW msg \in MsgLens, NEW ok, Inv, SendTo(d, buf, msg, ok)
  PROVE  Inv'
<1> DEFINE k == WithArgs(kern, Running, "send", d, buf, msg)
<1>1. PICK zero \in BOOLEAN : Serve(Dispatch(SysSend(k, Running, ok, zero)))
  BY DEF SendTo
<1>2. buf \in Nat /\ msg \in Nat
  BY KernelAssumption
<1>3. k \in KernelType /\ Undisturbed(kern, k)
  BY <1>2, RunningIsPcb, WithArgs_Keeps
<1> HIDE DEF k
<1>4. Gave(kern, Running, SysSend(k, Running, ok, zero))
  BY <1>3, RunningIsPcb, SysSend_Gives, GaveAfter
<1> QED BY <1>1, <1>4, DispatchKeeps, ServeKeeps

(* SYS_RECV keeps the invariant.                                           *)
LEMMA ReceiveKeeps ==
  ASSUME NEW f \in Nat, NEW buf \in BufLens, NEW ok, Inv, Receive(f, buf, ok)
  PROVE  Inv'
<1> DEFINE k == WithArgs(kern, Running, "recv", f, buf, 0)
<1>1. PICK G : Serve(Dispatch(SysRecv(k, Running, ok, G)))
  BY DEF Receive
<1>2. buf \in Nat /\ 0 \in Nat
  BY KernelAssumption
<1>3. k \in KernelType /\ Undisturbed(kern, k)
  BY <1>2, RunningIsPcb, WithArgs_Keeps
<1> HIDE DEF k
<1>4. Gave(kern, Running, SysRecv(k, Running, ok, G))
  BY <1>3, RunningIsPcb, SysRecv_Gives, GaveAfter
<1> QED BY <1>1, <1>4, DispatchKeeps, ServeKeeps

(* SYS_SLEEP keeps the invariant.                                          *)
LEMMA NapKeeps ==
  ASSUME NEW ms \in Nat, Inv, Nap(ms)
  PROVE  Inv'
<1>1. CASE kern.next[Running] # NULL
  <2>1. Serve(Fault(kern, "kassert"))
    BY <1>1 DEF Nap
  <2>2. Fault(kern, "kassert") \in KernelType /\ Fault(kern, "kassert").fault # "none"
    BY RunningIsPcb, FaultKeeps DEF Faults
  <2> QED BY <2>1, <2>2, ServeKeeps
<1>2. CASE kern.next[Running] = NULL
  <2> DEFINE k == sleep(kern, Running, ms)
  <2>1. Serve(Dispatch(k))
    BY <1>2 DEF Nap
  <2>2. k \in KernelType /\ Fewer(kern, k) /\ (k.fault = "none" => Runners(k) = Runners(kern) \ {Running})
    BY RunningIsPcb, sleep_Fewer
  <2> HIDE DEF k
  <2>3. Gave(kern, Running, k)
    BY <2>2 DEF Gave, Fewer
  <2> QED BY <2>1, <2>3, DispatchKeeps, ServeKeeps
<1> QED BY <1>1, <1>2

(* SYS_TIMER keeps the invariant: ready(), next() and then tick().         *)
LEMMA TimerAtKeeps ==
    ASSUME NEW eax \in Int, Inv, TimerAt(eax)
    PROVE  Inv'
<1>1. Serve(tick(Dispatch(ready([kern EXCEPT !.ret[Running] = eax], Running))))
  BY DEF TimerAt
<1> DEFINE k0 == [kern EXCEPT !.ret[Running] = eax]
           k1 == ready(k0, Running)
           k2 == Dispatch(k1)
<1>2. k0 \in KernelType /\ Undisturbed(kern, k0)
  BY RunningIsPcb, SetRet
<1> HIDE DEF k0
<1>3. Gave(kern, Running, k1)
  BY <1>2, RunningIsPcb, ready_Gives, GaveAfter
<1> HIDE DEF k1
<1>4. k2 \in KernelType /\ (k2.fault = "none" => OneRuns(k2) /\ PidsNameSlots(k2))
  BY <1>3, DispatchKeeps
<1> HIDE DEF k2
<1>5. tick(k2) \in KernelType /\ Undisturbed(k2, tick(k2))
  BY <1>4, tick_Keeps
<1>6. tick(k2).fault = "none" => OneRuns(tick(k2)) /\ PidsNameSlots(tick(k2))
  BY <1>4, <1>5, UndisturbedKeeps DEF Undisturbed
<1>7. Serve(tick(k2))
  BY <1>1 DEF k0, k1, k2
<1> QED BY <1>5, <1>6, <1>7, ServeKeeps

(* The timer, with what eax may hold in this workload.                     *)
LEMMA TimerKeeps == Inv /\ Timer => Inv'
BY TimerAtKeeps, KernelAssumption DEF Timer

(* The invariant is inductive: one step per action.                        *)
LEMMA NextKeepsInv == Inv /\ [Next]_kern => Inv'
<1> SUFFICES ASSUME Inv, [Next]_kern PROVE Inv'
  OBVIOUS
<1>1. CASE Create
  BY <1>1, CreateKeeps
<1>2. CASE Yield
  BY <1>2, YieldKeeps
<1>3. CASE Stop
  BY <1>3, StopKeeps
<1>4. CASE GetPid
  BY <1>4, GetPidKeeps
<1>5. CASE Timer
  BY <1>5, TimerKeeps
<1>6. ASSUME NEW d \in 0 .. MaxPid, NEW buf \in BufLens, NEW msg \in MsgLens, NEW ok \in Buffers,
             SendTo(d, buf, msg, ok)
      PROVE  Inv'
  BY <1>6, SendKeeps
<1>7. ASSUME NEW f \in 0 .. MaxPid, NEW buf \in BufLens, NEW ok \in Buffers,
             Receive(f, buf, ok)
      PROVE  Inv'
  BY <1>7, ReceiveKeeps
<1>8. ASSUME NEW ms \in Naps, Nap(ms)
      PROVE  Inv'
  BY <1>8, NapKeeps, KernelAssumption
<1>9. CASE UNCHANGED kern
  BY <1>9 DEF Inv, TypeOK, OneRunning, Running, PidNamesSlot
<1> QED BY <1>1, <1>2, <1>3, <1>4, <1>5, <1>6, <1>7, <1>8, <1>9 DEF Next

(* Inv holds in every reachable state.                                     *)
THEOREM InvHolds == Spec => []Inv
BY InitInv, NextKeepsInv, PTL DEF Spec

(* In every reachable state every field of the kernel's memory has its     *)
(* type, pids staying below INT_MAX however often create() reuses a slot,  *)
(* and some process has the CPU.                                           *)
THEOREM TypeCorrect == Spec => []TypeOK
<1>1. Inv => TypeOK
  BY DEF Inv
<1> QED BY <1>1, InvHolds, PTL

(* Exactly one process is in STATE_RUNNING, the one running points at:     *)
(* every handler of dispatch() that gives the CPU away changes the state   *)
(* of the caller before next() is called.                                  *)
THEOREM OneProcessRuns == Spec => []OneRunning
<1>1. Inv => OneRunning
  BY DEF Inv
<1> QED BY <1>1, InvHolds, PTL

(* The pid of a process leads back to its slot, whatever the size of the   *)
(* table and however often create() has reused the slot.                   *)
THEOREM PidsLeadBack == Spec => []PidNamesSlot
<1>1. Inv => PidNamesSlot
  BY DEF Inv
<1> QED BY <1>1, InvHolds, PTL

(* So no two slots are ever given the same pid.                            *)
THEOREM PidsDistinct ==
  Spec => [](\A s, t \in Slots : kern.pid[s] > 0 /\ kern.pid[s] = kern.pid[t] => s = t)
<1>1. Inv => \A s, t \in Slots : kern.pid[s] > 0 /\ kern.pid[s] = kern.pid[t] => s = t
  BY DEF Inv, PidNamesSlot
<1> QED BY <1>1, InvHolds, PTL

-----------------------------------------------------------------------------
(* The walk of n steps, as a function of its own.                          *)
Walk(next, q, m, g) == g = [n \in 0 .. m |-> IF n = 0 THEN q ELSE Step(next, g[n - 1])]

(* There is a walk of every length: the shortest that did not exist would  *)
(* be one step longer than one that does.                                  *)
LEMMA WalkExists ==
  ASSUME NEW next, NEW q, NEW m \in Nat PROVE \E g : Walk(next, q, m, g)
<1> DEFINE Bad == {n \in Nat : ~ \E g : Walk(next, q, n, g)}
<1>1. SUFFICES Bad = {}
  OBVIOUS
<1>2. SUFFICES ASSUME Bad # {} PROVE FALSE
  OBVIOUS
<1>3. PICK n \in Bad : \A i \in Bad : n <= i
  <2>1. Bad \subseteq Nat
    OBVIOUS
  <2> HIDE DEF Bad
  <2> QED BY <1>2, <2>1, HasMinimum
<1>4. n # 0
  <2>1. Walk(next, q, 0, [i \in 0 .. 0 |-> q])
    BY DEF Walk
  <2> QED BY <2>1
<1>5. n \in Nat /\ n - 1 \in Nat /\ n - 1 \notin Bad
  BY <1>3, <1>4
<1>6. PICK g : Walk(next, q, n - 1, g)
  BY <1>5
<1> DEFINE h == [i \in 0 .. n |-> IF i = 0 THEN q ELSE Step(next, g[i - 1])]
<1>7. \A i \in 0 .. n - 1 : h[i] = g[i]
  BY <1>5, <1>6 DEF Walk
<1>8. Walk(next, q, n, h)
  <2>1. \A i \in 0 .. n : i # 0 => i - 1 \in 0 .. n - 1
    BY <1>5
  <2>2. \A i \in 0 .. n : i # 0 => h[i - 1] = g[i - 1]
    BY <1>7, <2>1
  <2> QED BY <2>2 DEF Walk
<1> QED BY <1>3, <1>8

(* Chain follows the pointers of next from q: a null pointer leads         *)
(* nowhere.                                                                *)
LEMMA ChainIs ==
  ASSUME NEW next, NEW q
  PROVE  /\ Chain(next, q)[0] = q
         /\ \A n \in 1 .. MAX_PROC : Chain(next, q)[n] = Step(next, Chain(next, q)[n - 1])
<1>1. MAX_PROC \in Nat
  BY Constants
<1>2. \E g : Walk(next, q, MAX_PROC, g)
  BY <1>1, WalkExists
<1>3. Walk(next, q, MAX_PROC, Chain(next, q))
  BY <1>2 DEF Chain, Walk
<1> DEFINE C == Chain(next, q)
<1> HIDE DEF C
<1>4. C = [n \in 0 .. MAX_PROC |-> IF n = 0 THEN q ELSE Step(next, C[n - 1])]
  BY <1>3, Zenon DEF Walk, C
<1>5. \A n \in 0 .. MAX_PROC : C[n] = IF n = 0 THEN q ELSE Step(next, C[n - 1])
  BY <1>4, Zenon
<1>6. 0 \in 0 .. MAX_PROC /\ \A n \in 1 .. MAX_PROC : n \in 0 .. MAX_PROC /\ n # 0
  BY <1>1
<1> QED BY <1>5, <1>6, Zenon DEF C

-----------------------------------------------------------------------------
(* The pcb's of L, and the null pointer.                                   *)
Links(L) == L \cup {NULL}

(* The slots a process has been created in, of which idleproc's is one.    *)
Region(L) == L \subseteq Pcbs /\ IDLE \in L

(* Every pointer of the kernel leads into L, and a slot outside is unused. *)
Linked(k, L) ==
  /\ \A s \in Slots : k.next[s] \in Links(L) /\ (s \notin L => k.state[s] = "STOPPED")
  /\ \A q \in QNames : k.que[q] \in Links(L)
  /\ k.tail \in Links(L) /\ k.headsleeper \in Links(L)

(* Nobody starts to wait but the processes of P.                           *)
Calm(k, r, P) ==
  \A s \in Slots \ P : r.state[s] \in {"BLOCKED", "SLEEP"} => r.state[s] = k.state[s]

Within(k, r, L, P) == Linked(r, L) /\ Calm(k, r, P)

(* A walk that starts in L stays in it: the first pcb outside L would have *)
(* been reached from one inside.                                           *)
LEMMA ChainWithin ==
  ASSUME NEW k, NEW L, Region(L), Linked(k, L), NEW q \in Links(L)
  PROVE  \A n \in 0 .. MAX_PROC : Chain(k.next, q)[n] \in Links(L)
<1> DEFINE C == Chain(k.next, q)
           Out == {n \in 0 .. MAX_PROC : C[n] \notin Links(L)}
<1>1. C[0] = q /\ \A n \in 1 .. MAX_PROC : C[n] = Step(k.next, C[n - 1])
  BY ChainIs
<1> HIDE DEF C
<1>2. SUFFICES ASSUME Out # {} PROVE FALSE
  BY DEF C
<1>3. PICK n \in Out : \A i \in Out : n <= i
  <2>1. Out \subseteq Nat
    OBVIOUS
  <2> HIDE DEF Out
  <2> QED BY <1>2, <2>1, HasMinimum
<1>4. n # 0 /\ n \in 1 .. MAX_PROC
  BY <1>1, <1>3, Constants
<1>5. C[n - 1] \in Links(L)
  <2>1. n - 1 \in 0 .. MAX_PROC /\ ~(n <= n - 1)
    BY <1>4, Constants
  <2> QED BY <1>3, <2>1
<1>6. Step(k.next, C[n - 1]) \in Links(L)
  BY <1>5, Constants DEF Step, Links, Linked, Region
<1> QED BY <1>1, <1>3, <1>4, <1>6

(* What a walk meets lies in the region it starts in.                      *)
LEMMA MembersWithin ==
  ASSUME NEW k, NEW L, Region(L), Linked(k, L), NEW q \in Links(L)
  PROVE  Members(k.next, q) \subseteq L /\ LastOf(k.next, q) \in Links(L)
<1>1. Members(k.next, q) \subseteq L
  <2>1. \A n \in 0 .. MAX_PROC : Chain(k.next, q)[n] \in L \cup {NULL}
    BY ChainWithin DEF Links
  <2>2. NULL \notin Pcbs
    BY Constants
  <2> QED BY <2>1, <2>2 DEF Members
<1> QED BY <1>1 DEF LastOf, Links

(* One operation after another.                                            *)
LEMMA WithinAfter ==
  ASSUME NEW k, NEW m, NEW r, NEW L, NEW P, Calm(k, m, P), Within(m, r, L, P)
  PROVE  Within(k, r, L, P)
BY DEF Within, Calm

(* A fault leaves the pointers as they were.                               *)
LEMMA FaultWithin ==
  ASSUME NEW k \in KernelType, NEW L, NEW P, NEW f \in Faults, Linked(k, L)
  PROVE  Within(k, Fault(k, f), L, P)
<1>1. /\ Fault(k, f).next = k.next /\ Fault(k, f).state = k.state /\ Fault(k, f).que = k.que
      /\ Fault(k, f).tail = k.tail /\ Fault(k, f).headsleeper = k.headsleeper
  BY DEF Fault, KernelType
<1> QED BY <1>1 DEF Within, Linked, Calm

(* remove() links the pcb before the one it unlinks to the one after it.   *)
LEMMA remove_Within ==
  ASSUME NEW k \in KernelType, NEW L, NEW P, Region(L), Linked(k, L), NEW q, NEW pid
  PROVE  Within(k, remove(k, q, pid), L, P)
<1> DEFINE from  == k.que[q]
           found == {s \in Members(k.next, from) : k.pid[s] = pid}
           s     == CHOOSE x \in found : TRUE
<1>1. CASE q \notin QNames
  BY <1>1, FaultWithin DEF remove, Faults
<1>2. CASE q \in QNames /\ from # NULL /\ found # {}
  <2> DEFINE r == [k EXCEPT !.que[q] = k.next[s], !.next[s] = NULL]
  <2>1. s \in Pcbs
    BY <1>2, MembersArePcbs
  <2>2. remove(k, q, pid) = r
    BY <1>2 DEF remove
  <2>3. k.next[s] \in Links(L) /\ NULL \in Links(L)
    BY <2>1, Constants DEF Linked, Links
  <2> HIDE DEF s, found, from
  <2>4. /\ r.que = [k.que EXCEPT ![q] = k.next[s]] /\ r.next = [k.next EXCEPT ![s] = NULL]
        /\ r.state = k.state /\ r.tail = k.tail /\ r.headsleeper = k.headsleeper
    BY DEF KernelType
  <2>5. k.que \in [QNames -> Ptr] /\ k.next \in [Slots -> Ptr]
    BY DEF KernelType
  <2> HIDE DEF r
  <2> QED BY <2>2, <2>3, <2>4, <2>5 DEF Within, Linked, Calm
<1>3. CASE q \in QNames /\ (from = NULL \/ found = {})
  <2> DEFINE l == LastOf(k.next, from)
             r == [k EXCEPT !.que[q] = l]
  <2>1. l \in Links(L)
    BY <1>3, MembersWithin DEF Linked
  <2>2. remove(k, q, pid) \in {k, Fault(k, "loop"), r}
    BY <1>3 DEF remove
  <2> HIDE DEF l
  <2>3. /\ r.que = [k.que EXCEPT ![q] = l] /\ r.next = k.next
        /\ r.state = k.state /\ r.tail = k.tail /\ r.headsleeper = k.headsleeper
    BY DEF KernelType
  <2>4. k.que \in [QNames -> Ptr]
    BY DEF KernelType
  <2> HIDE DEF r
  <2>5. Within(k, r, L, P) /\ Within(k, k, L, P)
    BY <2>1, <2>3, <2>4 DEF Within, Linked, Calm
  <2> QED BY <2>2, <2>5, FaultWithin DEF Faults
<1> QED BY <1>1, <1>2, <1>3

(* append() links the tail of a list to p.                                 *)
LEMMA append_Within ==
  ASSUME NEW k \in KernelType, NEW L, NEW P, Region(L), Linked(k, L),
         NEW q \in QNames, NEW p \in L
  PROVE  Within(k, append(k, q, p), L, P)
<1> DEFINE next == [k.next EXCEPT ![p] = NULL]
           from == k.que[q]
           last == LastOf(next, from)
           r1 == [k EXCEPT !.next = next, !.que[q] = p]
           r2 == [k EXCEPT !.next = next]
           r3 == [k EXCEPT !.next = [next EXCEPT ![last] = p]]
<1>1. append(k, q, p) \in {r1, r2, Fault(k, "loop"), r3}
  BY DEF append
<1>2. \A s \in Slots : next[s] \in Links(L) /\ [next EXCEPT ![last] = p][s] \in Links(L)
  BY DEF KernelType, Linked, Links
<1> HIDE DEF next, last
<1>3. /\ r1.que = [k.que EXCEPT ![q] = p] /\ r1.next = next
      /\ r1.state = k.state /\ r1.tail = k.tail /\ r1.headsleeper = k.headsleeper
      /\ r2.que = k.que /\ r2.next = next
      /\ r2.state = k.state /\ r2.tail = k.tail /\ r2.headsleeper = k.headsleeper
      /\ r3.que = k.que /\ r3.next = [next EXCEPT ![last] = p]
      /\ r3.state = k.state /\ r3.tail = k.tail /\ r3.headsleeper = k.headsleeper
      /\ k.que \in [QNames -> Ptr] /\ p \in Links(L)
  BY DEF KernelType, Links
<1> HIDE DEF r1, r2, r3
<1>4. Within(k, r1, L, P) /\ Within(k, r2, L, P) /\ Within(k, r3, L, P)
  BY <1>2, <1>3 DEF Within, Linked, Calm
<1> QED BY <1>1, <1>4, FaultWithin DEF Faults

(* ready() puts p at the end of the ready queue.                           *)
LEMMA ready_Within ==
  ASSUME NEW k \in KernelType, NEW L, NEW P, Region(L), Linked(k, L), NEW p \in L \cup {0}
  PROVE  Within(k, ready(k, p), L, P)
<1> DEFINE r  == [k EXCEPT !.next[p] = NULL, !.state[p] = "READY"]
           r1 == [r EXCEPT !.next[k.tail] = p, !.tail = p]
           r2 == [r EXCEPT !.que["head"] = p, !.tail = p]
<1>1. CASE p = 0 \/ ~Aligned(k, p)
  BY <1>1, FaultWithin DEF ready, Faults
<1>2. CASE p # 0 /\ Aligned(k, p)
  <2>1. ready(k, p) \in {r, r1, r2}
    BY <1>2 DEF ready
  <2>2. p \in L /\ p \in Links(L) /\ NULL \in Links(L)
    BY <1>2 DEF Links
  <2> DEFINE next  == [k.next EXCEPT ![p] = NULL]
             state == [k.state EXCEPT ![p] = "READY"]
  <2>3. /\ r.que = k.que /\ r.next = next
        /\ r.state = state /\ r.tail = k.tail /\ r.headsleeper = k.headsleeper
        /\ r1.que = k.que /\ r1.next = [next EXCEPT ![k.tail] = p]
        /\ r1.state = state /\ r1.tail = p /\ r1.headsleeper = k.headsleeper
        /\ r2.que = [k.que EXCEPT !["head"] = p] /\ r2.next = next
        /\ r2.state = state /\ r2.tail = p /\ r2.headsleeper = k.headsleeper
    BY DEF KernelType
  <2>4. k.que \in [QNames -> Ptr]
    BY DEF KernelType
  <2>5. /\ \A s \in Slots : next[s] \in Links(L) /\ [next EXCEPT ![k.tail] = p][s] \in Links(L)
        /\ \A s \in Slots : s \notin L => state[s] = "STOPPED"
        /\ \A s \in Slots : state[s] \in {"BLOCKED", "SLEEP"} => state[s] = k.state[s]
    BY <2>2 DEF KernelType, Linked
  <2> HIDE DEF r, r1, r2, next, state
  <2>6. Within(k, r, L, P) /\ Within(k, r1, L, P) /\ Within(k, r2, L, P)
    BY <2>2, <2>3, <2>4, <2>5 DEF Within, Linked, Calm
  <2> QED BY <2>1, <2>6
<1> QED BY <1>1, <1>2

(* process_next() makes p the running process.                             *)
LEMMA Run_Within ==
  ASSUME NEW k \in KernelType, NEW L, NEW P, Region(L), Linked(k, L), NEW p \in L
  PROVE  Within(k, Run(k, p), L, P)
<1> DEFINE r == Run(k, p)
           state == [k.state EXCEPT ![p] = "RUNNING"]
<1>1. /\ r.next = k.next /\ r.state = state
      /\ r.que = [k.que EXCEPT !["running"] = p]
      /\ r.tail = k.tail /\ r.headsleeper = k.headsleeper
      /\ k.que \in [QNames -> Ptr] /\ p \in Links(L)
  BY DEF Run, KernelType, Links
<1>2. /\ \A s \in Slots : s \notin L => state[s] = "STOPPED"
      /\ \A s \in Slots : state[s] \in {"BLOCKED", "SLEEP"} => state[s] = k.state[s]
  BY DEF KernelType, Linked
<1> HIDE DEF r, state
<1> QED BY <1>1, <1>2 DEF Within, Linked, Calm, r

(* process_next() takes the head of the ready queue off.                   *)
LEMMA Pop_Within ==
  ASSUME NEW k \in KernelType, NEW L, NEW P, Region(L), Linked(k, L), k.que["head"] \in Pcbs
  PROVE  Within(k, Pop(k), L, P)
<1> DEFINE p == k.que["head"]
           r == Pop(k)
<1>1. /\ r.next = [k.next EXCEPT ![p] = NULL] /\ r.state = k.state
      /\ r.que = [k.que EXCEPT !["head"] = k.next[p]]
      /\ r.tail = IF k.next[p] = NULL THEN NULL ELSE k.tail
      /\ r.headsleeper = k.headsleeper
      /\ k.que \in [QNames -> Ptr] /\ k.next \in [Slots -> Ptr]
  BY DEF Pop, KernelType
<1>2. k.next[p] \in Links(L) /\ NULL \in Links(L)
  BY Constants DEF Linked, Links
<1> HIDE DEF p, r
<1> QED BY <1>1, <1>2 DEF Within, Linked, Calm, r

(* next() puts processes on running that were on the ready queue, or       *)
(* idleproc.                                                               *)
LEMMA Dispatch_Within ==
  ASSUME NEW k \in KernelType, NEW L, NEW P, Region(L), Linked(k, L)
  PROVE  Within(k, Dispatch(k), L, P)
<1> DEFINE h == k.que["head"]
           r == k.que["running"]
           k1 == Pop(k)
           idles == [k1 EXCEPT !.state[r] = "READY"]
<1>1. h \in Links(L) /\ r \in Links(L)
  BY DEF Linked, QNames
<1>2. CASE h # NULL /\ (~Aligned(k, h) \/ k.state[h] # "READY")
  BY <1>2, FaultWithin DEF Dispatch, Faults
<1>3. CASE h = NULL
  BY <1>3, Run_Within DEF Dispatch, Region
<1>4. CASE h # NULL /\ ~(~Aligned(k, h) \/ k.state[h] # "READY")
  <2>1. h \in L /\ h \in Pcbs
    BY <1>1, <1>4 DEF Links, Region
  <2>2. k1 \in KernelType /\ Within(k, k1, L, P) /\ k1.que \in [QNames -> Ptr]
    BY <2>1, Pop_Keeps, Pop_Within DEF KernelType
  <2> DEFINE s == k1.que["head"]
  <2>3. Dispatch(k) \in {Run(k1, h)} \cup (IF s = NULL THEN {} ELSE {Run(Pop(k1), s)})
          \cup (IF k.pid[r] = IDLE THEN {Run(idles, h)} ELSE {})
    BY <1>4, <2>1 DEF Dispatch
  <2>4. s \in Links(L)
    BY <2>2 DEF Within, Linked, QNames
  <2>5. Within(k1, Run(k1, h), L, P)
    BY <2>1, <2>2, Run_Within DEF Within
  <2>6. s # NULL => Within(k1, Run(Pop(k1), s), L, P)
    <3> HAVE s # NULL
    <3>1. s \in L /\ s \in Pcbs
      BY <2>4 DEF Links, Region
    <3>2. Pop(k1) \in KernelType /\ Within(k1, Pop(k1), L, P)
      BY <2>2, <3>1, Pop_Keeps, Pop_Within DEF Within
    <3>3. Within(Pop(k1), Run(Pop(k1), s), L, P)
      BY <3>1, <3>2, Run_Within DEF Within
    <3> QED BY <3>2, <3>3, WithinAfter DEF Within
  <2>7. Within(k1, Run(idles, h), L, P)
    <3>1. idles \in KernelType /\ Within(k1, idles, L, P)
      <4>1. /\ idles.next = k1.next /\ idles.que = k1.que
            /\ idles.tail = k1.tail /\ idles.headsleeper = k1.headsleeper
            /\ idles.state = [k1.state EXCEPT ![r] = "READY"]
            /\ k1.state \in [Slots -> States]
        BY <2>2 DEF KernelType
      <4>2. idles \in KernelType
        BY <2>2 DEF KernelType, States
      <4>3. r \notin Slots \/ r \in L
        BY <1>1, Constants DEF Links
      <4> HIDE DEF idles, k1, r
      <4> QED BY <2>2, <4>1, <4>2, <4>3 DEF Within, Linked, Calm
    <3> HIDE DEF idles
    <3>2. Within(idles, Run(idles, h), L, P)
      BY <2>1, <3>1, Run_Within DEF Within
    <3> QED BY <3>1, <3>2, WithinAfter DEF Within
  <2> HIDE DEF s, k1, h, r, idles
  <2> QED BY <2>2, <2>3, <2>5, <2>6, <2>7, WithinAfter DEF Within
<1> QED BY <1>2, <1>3, <1>4

(* The waiter that is made ready was on blocked_q.                         *)
LEMMA notify_waiters_Within ==
  ASSUME NEW k \in KernelType, NEW L, NEW P, Region(L), Linked(k, L), NEW pid, NEW G
  PROVE  Within(k, notify_waiters(k, pid, G), L, P)
<1> DEFINE at   == Chain(k.next, k.que["blocked_q"])
           hits == {n \in 0 .. MAX_PROC :
                       at[n] \in Pcbs /\ WaitsOn(k, at[n], pid, n = 0, G)}
           n    == CHOOSE i \in hits : \A j \in hits : i <= j
           q    == at[n]
           k1   == IF n = 0 THEN k ELSE [k EXCEPT !.next[at[n - 1]] = k.next[q]]
           k2   == [k1 EXCEPT !.ret[q] = BAD_PID]
<1>1. CASE hits = {}
  <2>1. Within(k, k, L, P)
    BY DEF Within, Calm
  <2> QED BY <1>1, <2>1, FaultWithin DEF notify_waiters, Faults
<1>2. CASE hits # {}
  <2>1. n \in hits
    <3>1. hits \subseteq Nat
      OBVIOUS
    <3> HIDE DEF hits
    <3> QED BY <1>2, <3>1, HasMinimum
  <2>2. q \in Pcbs /\ n \in 0 .. MAX_PROC
    BY <2>1
  <2>3. k.que["blocked_q"] \in Links(L)
    BY DEF Linked, QNames
  <2>4. q \in L
    <3>1. q \in Links(L)
      BY <2>2, <2>3, ChainWithin
    <3> QED BY <2>2, <3>1, Constants DEF Links
  <2>5. notify_waiters(k, pid, G) \in {Fault(k, "loop"), ready(k2, q)}
    BY <1>2 DEF notify_waiters
  <2> HIDE DEF n, q, hits, at
  <2> DEFINE next == [k.next EXCEPT ![at[n - 1]] = k.next[q]]
             around == [k EXCEPT !.next = next]
  <2>6. k.next[q] \in Links(L) /\ next \in [Slots -> Ptr]
    BY <2>2 DEF KernelType, Linked, Pcbs
  <2>7. \A s \in Slots : next[s] \in Links(L)
    BY <2>6 DEF KernelType, Linked
  <2> HIDE DEF next
  <2>8. around \in KernelType /\ Within(k, around, L, P)
    <3>1. around \in KernelType
      BY <2>6 DEF KernelType
    <3>2. /\ around.next = next /\ around.que = k.que /\ around.state = k.state
          /\ around.tail = k.tail /\ around.headsleeper = k.headsleeper
      BY DEF KernelType
    <3> HIDE DEF around
    <3> QED BY <2>7, <3>1, <3>2 DEF Within, Linked, Calm
  <2>9. k1 \in KernelType /\ Within(k, k1, L, P)
    BY <2>8 DEF next, Within, Calm
  <2> HIDE DEF k1
  <2>10. k2 \in KernelType /\ Within(k, k2, L, P)
    <3>1. BAD_PID \in Int
      BY DEF BAD_PID
    <3>2. k2 \in KernelType
      BY <2>9, <3>1 DEF KernelType
    <3>3. /\ k2.next = k1.next /\ k2.que = k1.que /\ k2.state = k1.state
          /\ k2.tail = k1.tail /\ k2.headsleeper = k1.headsleeper
      BY <2>9 DEF KernelType
    <3> HIDE DEF k2
    <3> QED BY <2>9, <3>2, <3>3 DEF Within, Linked, Calm
  <2> HIDE DEF k2
  <2>11. Within(k2, ready(k2, q), L, P)
    BY <2>4, <2>10, ready_Within DEF Within
  <2> QED BY <2>5, <2>10, <2>11, WithinAfter, FaultWithin DEF Faults, Within
<1> QED BY <1>1, <1>2

-----------------------------------------------------------------------------
(* What is written besides the pointers and the states does not matter.    *)
SameLinks(k, r) ==
  /\ r.next = k.next /\ r.state = k.state /\ r.que = k.que
  /\ r.tail = k.tail /\ r.headsleeper = k.headsleeper

(* What changes neither a pointer nor a state leads nowhere new.           *)
LEMMA SameLinksWithin ==
  ASSUME NEW k, NEW r, NEW L, NEW P, Linked(k, L), SameLinks(k, r)
  PROVE  Within(k, r, L, P)
BY DEF SameLinks, Within, Linked, Calm

(* sleep() puts its caller, and nobody else, to sleep.                     *)
LEMMA sleep_Within ==
  ASSUME NEW k \in KernelType, NEW L, Region(L), Linked(k, L), NEW p \in L, NEW ms \in Nat
  PROVE  Within(k, sleep(k, p, ms), L, {p})
<1> DEFINE t    == milliseconds_to_ticks(ms)
           k1   == [k EXCEPT !.next[p] = NULL, !.state[p] = "SLEEP", !.sleepticks[p] = t]
           h    == k.headsleeper
           at   == Chain(k1.next, h)
           acc  == Accumulated(k1, at)
           n    == CHOOSE i \in 1 .. MAX_PROC :
                       /\ at[i] = NULL \/ acc[i] >= t
                       /\ \A j \in 1 .. i - 1 : at[j] # NULL /\ acc[j] < t
           prev == at[n - 1]
           succ == Step(k1.next, prev)
           rest == Minus(t, acc[n - 1])
           further == [k1 EXCEPT !.next = Between(@, prev, p, succ),
                                 !.sleepticks = Shorten([@ EXCEPT ![p] = rest], succ, rest)]
           first   == [k1 EXCEPT !.next[p] = h, !.headsleeper = p,
                                 !.sleepticks = Shorten(@, h, t)]
<1>1. sleep(k, p, ms) \in {Fault(k, "loop"), further, first}
  BY DEF sleep
<1>2. /\ k1.next = [k.next EXCEPT ![p] = NULL] /\ k1.state = [k.state EXCEPT ![p] = "SLEEP"]
      /\ k1.que = k.que /\ k1.tail = k.tail /\ k1.headsleeper = k.headsleeper
      /\ further.next = Between(k1.next, prev, p, succ) /\ further.state = k1.state
      /\ further.que = k1.que /\ further.tail = k1.tail /\ further.headsleeper = k1.headsleeper
      /\ first.next = [k1.next EXCEPT ![p] = h] /\ first.state = k1.state
      /\ first.que = k1.que /\ first.tail = k1.tail /\ first.headsleeper = p
  BY DEF KernelType
<1>3. p \in Links(L) /\ NULL \in Links(L) /\ h \in Links(L) /\ p \in Slots
  BY Constants DEF Links, Region, Linked
<1>4. k.next \in [Slots -> Ptr] /\ k.state \in [Slots -> States]
  BY DEF KernelType
<1> HIDE DEF t, k1, h, at, acc, n, prev, rest, further, first
<1>5. k1.next \in [Slots -> Ptr] /\ \A s \in Slots : k1.next[s] \in Links(L)
  BY <1>2, <1>3, <1>4 DEF Linked, Ptr
<1>6. succ \in Links(L)
  BY <1>3, <1>5, Constants DEF Step
<1> HIDE DEF succ
<1>7. \A s \in Slots : Between(k1.next, prev, p, succ)[s] \in Links(L)
                       /\ [k1.next EXCEPT ![p] = h][s] \in Links(L)
  BY <1>3, <1>5, <1>6 DEF Between
<1>8. /\ \A s \in Slots : s \notin L => k1.state[s] = "STOPPED"
      /\ \A s \in Slots \ {p} : k1.state[s] = k.state[s]
  BY <1>2, <1>4 DEF Linked
<1>9. Within(k, further, L, {p}) /\ Within(k, first, L, {p})
  BY <1>2, <1>3, <1>7, <1>8 DEF Within, Linked, Calm
<1> QED BY <1>1, <1>9, FaultWithin DEF Faults

(* Those that wake() makes ready were asleep.                              *)
LEMMA wake_Within ==
  ASSUME NEW k \in KernelType, NEW L, NEW P, Region(L), Linked(k, L)
  PROVE  Within(k, wake(k), L, P)
<1> DEFINE at    == Chain(k.next, k.headsleeper)
           due   == DueCount(k, at)
           woken == {at[i] : i \in 0 .. due - 1}
           last  == at[due - 1]
           state == [s \in Slots |-> IF s \in woken THEN "READY" ELSE k.state[s]]
           ticks == [k.sleepticks EXCEPT ![k.headsleeper] = 0]
           next  == [s \in Slots |-> IF s = last THEN NULL
                                     ELSE IF s = k.tail THEN k.headsleeper ELSE k.next[s]]
           first == IF k.tail = NULL THEN k.headsleeper ELSE k.que["head"]
           r     == [k EXCEPT !.state = state, !.sleepticks = ticks, !.next = next,
                              !.que["head"] = first, !.tail = last,
                              !.headsleeper = k.next[last]]
<1>1. CASE \E s \in woken : s \notin Pcbs \/ k.state[s] # "SLEEP"
  BY <1>1, FaultWithin DEF wake, Faults
<1>2. CASE \A s \in woken : s \in Pcbs /\ k.state[s] = "SLEEP"
  <2>1. wake(k) = r
    BY <1>2 DEF wake
  <2>2. last \in woken
    BY DueCountInRange, ProcTableAssumption
  <2>3. \A s \in woken : s \in L
    BY <1>2, Constants DEF Linked
  <2>4. last \in L /\ last \in Slots
    BY <1>2, <2>2, <2>3, Constants
  <2> HIDE DEF last, due, at
  <2>5. \A s \in Slots : s \notin L => state[s] = "STOPPED"
    BY <2>3 DEF Linked
  <2>6. \A s \in Slots : state[s] \in {"BLOCKED", "SLEEP"} => state[s] = k.state[s]
    OBVIOUS
  <2> HIDE DEF woken
  <2>7. \A s \in Slots : next[s] \in Links(L)
    BY DEF Linked, Links
  <2>8. first \in Links(L) /\ k.next[last] \in Links(L) /\ last \in Links(L)
    BY <2>4 DEF Linked, Links, QNames
  <2>9. /\ r.state = state /\ r.next = next /\ r.que = [k.que EXCEPT !["head"] = first]
        /\ r.tail = last /\ r.headsleeper = k.next[last] /\ k.que \in [QNames -> Ptr]
    BY DEF KernelType
  <2> HIDE DEF state, ticks, next, first, r
  <2> QED BY <2>1, <2>5, <2>6, <2>7, <2>8, <2>9 DEF Within, Linked, Calm
<1> QED BY <1>1, <1>2

(* tick() takes a decrement off the head of the sleepers, or wakes it.     *)
LEMMA tick_Within ==
  ASSUME NEW k \in KernelType, NEW L, NEW P, Region(L), Linked(k, L)
  PROVE  Within(k, tick(k), L, P)
<1>1. \A m : m \in KernelType /\ Linked(m, L) => Within(m, CountDown(m), L, P)
  <2> TAKE m
  <2> HAVE m \in KernelType /\ Linked(m, L)
  <2>1. SameLinks(m, CountDown(m))
    BY DEF CountDown, KernelType, SameLinks
  <2> QED BY <2>1, SameLinksWithin
<1>2. CASE k.headsleeper = NULL
  BY <1>2 DEF tick, Within, Calm
<1>3. CASE k.headsleeper # NULL
  <2>1. k.headsleeper \in Pcbs
    BY <1>3 DEF KernelType, Ptr
  <2>2. wake(k) \in KernelType /\ Within(k, wake(k), L, P)
    BY <2>1, wake_Keeps, wake_Within
  <2>3. tick(k) \in {CountDown(wake(k)), CountDown(k)}
    BY <1>3 DEF tick
  <2> QED BY <1>1, <2>2, <2>3, WithinAfter DEF Within
<1> QED BY <1>2, <1>3

-----------------------------------------------------------------------------
(* What send and recv leave of the memory, and whom they name: a process,  *)
(* or slot 0, which is none.                                               *)
Names(o, L) == o.rc > 0 => Slot(o.from) \in L \cup {0}

(* The slot of a pid that a pcb holds is that pcb's, or none.              *)
LEMMA SlotOfPid ==
  ASSUME NEW k \in KernelType, PidsNameSlots(k), NEW s \in Slots
  PROVE  Slot(k.pid[s]) \in {s, 0}
<1>1. k.pid[s] \in Nat
  BY PidIsNat
<1>2. CASE k.pid[s] = 0
  <2>1. Slot(0) = 0
    BY Constants, SlotOfSlot DEF Slots
  <2> QED BY <1>2, <2>1
<1>3. CASE k.pid[s] > 0
  BY <1>3 DEF PidsNameSlots
<1> QED BY <1>1, <1>2, <1>3

(* send() copies to a process that is blocked.                             *)
LEMMA send_Names ==
  ASSUME NEW k \in KernelType, NEW L, Region(L), Linked(k, L), NEW p \in Pcbs, NEW zero \in BOOLEAN
  PROVE  SameLinks(k, send(k, p, zero).mem) /\ Names(send(k, p, zero), L)
<1> DEFINE to     == k.arg[p]
           dest   == Slot(to)
           copied == copy(k.buf[p], k.msg[p], k.buf[dest])
           told   == [k EXCEPT !.arg[dest] = k.pid[p]]
<1>1. dest \in Slots
  BY SlotInSlots, Constants DEF KernelType
<1>2. k.state[dest] = "BLOCKED" => dest \in L
  BY <1>1 DEF Linked
<1>3. SameLinks(k, told) /\ SameLinks(k, k)
  BY DEF SameLinks, KernelType
<1>4. \/ send(k, p, zero) \in {Outcome(k, 0, to), Outcome(k, WOULD_DEADLOCK, to)}
      \/ /\ k.state[dest] = "BLOCKED"
         /\ send(k, p, zero) \in {Outcome(told, copied, to), Outcome(k, copied, to)}
  BY DEF send
<1>5. ~(WOULD_DEADLOCK > 0)
  BY DEF WOULD_DEADLOCK
<1> HIDE DEF told, copied
<1> QED BY <1>2, <1>3, <1>4, <1>5 DEF Outcome, Names

(* What recv() copies out of a sender leads nowhere new.                   *)
LEMMA Take_Names ==
  ASSUME NEW k \in KernelType, NEW s, NEW p, NEW from
  PROVE  SameLinks(k, Take(k, s, p, from).mem) /\ Take(k, s, p, from).from = from
BY DEF Take, Outcome, SameLinks, Fault, KernelType

(* recv() copies from a process that is on blocked_q, or blocked.          *)
LEMMA RecvAny_Names ==
  ASSUME NEW k \in KernelType, NEW L, Region(L), Linked(k, L), PidsNameSlots(k),
         NEW p \in Pcbs, NEW G
  PROVE  SameLinks(k, RecvAny(k, p, G).mem) /\ Names(RecvAny(k, p, G), L)
<1> DEFINE at   == Chain(k.next, k.que["blocked_q"])
           hits == {n \in 0 .. MAX_PROC :
                       at[n] \in Pcbs /\ at[n] # p /\ SendsTo(k, at[n], k.pid[p], G)}
           n    == CHOOSE i \in hits : \A j \in hits : i <= j
           s    == at[n]
           told == [k EXCEPT !.arg[p] = k.pid[s]]
<1>1. CASE hits = {}
  <2>1. SameLinks(k, Fault(k, "loop")) /\ SameLinks(k, k)
    BY DEF SameLinks, Fault, KernelType
  <2>2. RecvAny(k, p, G) \in {Outcome(Fault(k, "loop"), 0, 0), Outcome(k, 0, 0)}
    BY <1>1 DEF RecvAny
  <2> QED BY <2>1, <2>2 DEF Outcome, Names
<1>2. CASE hits # {}
  <2>1. n \in hits
    <3>1. hits \subseteq Nat
      OBVIOUS
    <3> HIDE DEF hits
    <3> QED BY <1>2, <3>1, HasMinimum
  <2>2. s \in Pcbs /\ n \in 0 .. MAX_PROC
    BY <2>1
  <2>3. k.que["blocked_q"] \in Links(L)
    BY DEF Linked, QNames
  <2>4. s \in L
    <3>1. s \in Links(L)
      BY <2>2, <2>3, ChainWithin
    <3> QED BY <2>2, <3>1, Constants DEF Links
  <2>5. RecvAny(k, p, G) = Take(told, s, p, k.pid[s])
    BY <1>2 DEF RecvAny
  <2> HIDE DEF s, n, hits, at
  <2>6. told \in KernelType /\ SameLinks(k, told)
    <3>1. k.pid[s] \in Nat
      BY <2>2, Constants, PidIsNat
    <3> QED BY <3>1 DEF KernelType, SameLinks
  <2> HIDE DEF told
  <2>7. SameLinks(told, Take(told, s, p, k.pid[s]).mem) /\ Take(told, s, p, k.pid[s]).from = k.pid[s]
    BY <2>6, Take_Names
  <2>8. Slot(k.pid[s]) \in {s, 0}
    BY <2>2, SlotOfPid, Constants
  <2> QED BY <2>4, <2>5, <2>6, <2>7, <2>8 DEF SameLinks, Names
<1> QED BY <1>1, <1>2

(* recv() from one process: the partner it names is in the region.         *)
LEMMA RecvFrom_Names ==
  ASSUME NEW k \in KernelType, NEW L, Region(L), Linked(k, L), NEW p \in Pcbs, NEW G
  PROVE  SameLinks(k, RecvFrom(k, p, G).mem) /\ Names(RecvFrom(k, p, G), L)
<1> DEFINE from == k.arg[p]
           s    == Slot(from)
<1>1. s \in Slots
  BY SlotInSlots, Constants DEF KernelType
<1>2. k.state[s] = "BLOCKED" => s \in L
  BY <1>1 DEF Linked
<1>3. \/ RecvFrom(k, p, G) \in {Outcome(k, WOULD_DEADLOCK, from), Outcome(k, 0, from)}
      \/ k.state[s] = "BLOCKED" /\ RecvFrom(k, p, G) = Take(k, s, p, from)
  BY DEF RecvFrom
<1>4. ~(WOULD_DEADLOCK > 0) /\ SameLinks(k, k)
  BY DEF WOULD_DEADLOCK, SameLinks
<1>5. SameLinks(k, Take(k, s, p, from).mem) /\ Take(k, s, p, from).from = from
  BY Take_Names
<1> QED BY <1>2, <1>3, <1>4, <1>5 DEF Outcome, Names

(* The end of a rendezvous makes both processes ready.                     *)
LEMMA Both_Within ==
  ASSUME NEW k \in KernelType, NEW L, NEW P, Region(L), Linked(k, L),
         NEW p \in L, NEW other \in L \cup {0}, NEW n \in Int
  PROVE  Within(k, Both(k, p, other, n), L, P)
<1> DEFINE k0 == [k EXCEPT !.ret[p] = n, !.ret[other] = n]
           k1 == ready(k0, p)
           q  == get_q(k1.state[other])
           k2 == remove(k1, q, k.pid[other])
<1>1. p \in Slots /\ other \in Slots
  BY Constants DEF Region, Slots
<1>2. k0 \in KernelType /\ SameLinks(k, k0)
  BY DEF KernelType, SameLinks
<1> HIDE DEF k0
<1>3. Within(k, k0, L, P)
  BY <1>2, SameLinksWithin
<1>4. k1 \in KernelType /\ Within(k, k1, L, P)
  <2>1. k1 \in KernelType
    BY <1>1, <1>2, ready_Keeps
  <2>2. Within(k0, k1, L, P)
    BY <1>2, <1>3, ready_Within DEF Within
  <2> QED BY <1>3, <2>1, <2>2, WithinAfter DEF Within
<1> HIDE DEF k1, q
<1>5. k2 \in KernelType /\ Within(k, k2, L, P)
  <2>1. k2 \in KernelType
    BY <1>4, remove_Keeps
  <2>2. Within(k1, k2, L, P)
    BY <1>4, remove_Within DEF Within
  <2> QED BY <1>4, <2>1, <2>2, WithinAfter DEF Within
<1> HIDE DEF k2
<1>6. Within(k, ready(k2, other), L, P)
  <2>1. Within(k2, ready(k2, other), L, P)
    BY <1>5, ready_Within DEF Within
  <2> QED BY <1>5, <2>1, WithinAfter DEF Within
<1>7. Both(k, p, other, n) \in {k1, ready(k2, other)}
  BY DEF Both, k0, k1, q, k2
<1> QED BY <1>4, <1>6, <1>7

(* Block() makes its caller, and nobody else, wait.                        *)
LEMMA Block_Within ==
  ASSUME NEW k \in KernelType, NEW L, Region(L), Linked(k, L), NEW p \in L, NEW code \in Int
  PROVE  Within(k, Block(k, p, code), L, {p})
<1> DEFINE b == [k EXCEPT !.state[p] = "BLOCKED", !.ret[p] = code]
<1>1. b \in KernelType
  BY DEF KernelType, States
<1>2. /\ b.state = [k.state EXCEPT ![p] = "BLOCKED"] /\ b.que = k.que /\ b.next = k.next
      /\ b.tail = k.tail /\ b.headsleeper = k.headsleeper /\ k.state \in [Slots -> States]
  BY DEF KernelType
<1>3. Block(k, p, code) = append(b, "blocked_q", p)
  BY DEF Block
<1> HIDE DEF b
<1>4. Within(k, b, L, {p})
  BY <1>2 DEF Within, Linked, Calm
<1>5. Within(b, append(b, "blocked_q", p), L, {p})
  BY <1>1, <1>4, append_Within DEF Within, QNames
<1> QED BY <1>3, <1>4, <1>5, WithinAfter DEF Within

(* dispatch() blocks the process that has no partner yet, or readies both. *)
LEMMA Finish_Within ==
  ASSUME NEW k \in KernelType, NEW L, Region(L), Linked(k, L), NEW p \in L, NEW o,
         NEW code \in Int, OutcomeOf(k, o), SameLinks(k, o.mem), Names(o, L)
  PROVE  Within(k, Finish(o, p, code), L, {p})
<1> DEFINE m == [o.mem EXCEPT !.ret[p] = o.rc]
<1>1. o.mem \in KernelType /\ o.rc \in Int /\ Within(k, o.mem, L, {p})
  BY SameLinksWithin DEF OutcomeOf
<1>2. m \in KernelType /\ Within(o.mem, m, L, {p})
  <2>1. m \in KernelType
    BY <1>1, SetRet
  <2>2. SameLinks(o.mem, m)
    BY <1>1 DEF SameLinks, KernelType
  <2> QED BY <1>1, <2>1, <2>2, SameLinksWithin DEF Within
<1>3. Within(o.mem, ready(m, p), L, {p})
  <2> HIDE DEF m
  <2>1. Within(m, ready(m, p), L, {p})
    BY <1>2, ready_Within DEF Within
  <2> QED BY <1>2, <2>1, WithinAfter DEF Within
<1>4. Within(o.mem, Block(o.mem, p, code), L, {p})
  BY <1>1, Block_Within DEF Within
<1>5. o.rc > 0 => Within(o.mem, Both(o.mem, p, Slot(o.from), o.rc), L, {p})
  BY <1>1, Both_Within DEF Within, Names
<1>6. Finish(o, p, code) = IF o.rc > 0 THEN Both(o.mem, p, Slot(o.from), o.rc)
                           ELSE IF o.rc < 0 THEN ready(m, p) ELSE Block(o.mem, p, code)
  BY DEF Finish
<1> HIDE DEF m
<1>7. Within(o.mem, Finish(o, p, code), L, {p})
  BY <1>3, <1>4, <1>5, <1>6
<1> QED BY <1>1, <1>7, WithinAfter DEF Within

(* The case SYS_SEND up to next().                                         *)
LEMMA SysSend_Within ==
  ASSUME NEW k \in KernelType, NEW L, Region(L), Linked(k, L), NEW p \in L,
         NEW ok, NEW zero \in BOOLEAN
  PROVE  Within(k, SysSend(k, p, ok, zero), L, {p})
<1> DEFINE rc == validate(k, p, k.arg[p], ok)
           o  == IF rc < 0 THEN Outcome(k, rc, k.arg[p]) ELSE send(k, p, zero)
<1>1. p \in Pcbs
  BY DEF Region
<1>2. OutcomeOf(k, o) /\ SameLinks(k, o.mem) /\ Names(o, L)
  <2>1. rc \in Int /\ k.arg[p] \in Nat /\ Undisturbed(k, k) /\ SameLinks(k, k)
    BY <1>1, validateIsInt, Constants DEF KernelType, Undisturbed, SameLinks
  <2> HIDE DEF rc
  <2>2. rc < 0 => LET m == Outcome(k, rc, k.arg[p])
                  IN  OutcomeOf(k, m) /\ SameLinks(k, m.mem) /\ Names(m, L)
    BY <2>1 DEF OutcomeOf, Outcome, Names
  <2> QED BY <1>1, <2>2, send_Keeps, send_Names
<1>3. SYS_SEND \in Int
  BY DEF SYS_SEND
<1>4. SysSend(k, p, ok, zero) = Finish(o, p, SYS_SEND)
  BY DEF SysSend
<1> HIDE DEF o
<1> QED BY <1>2, <1>3, <1>4, Finish_Within

(* The case SYS_RECV up to next().                                         *)
LEMMA SysRecv_Within ==
  ASSUME NEW k \in KernelType, NEW L, Region(L), Linked(k, L), PidsNameSlots(k), NEW p \in L,
         NEW ok, NEW G
  PROVE  Within(k, SysRecv(k, p, ok, G), L, {p})
<1> DEFINE rc == validate(k, p, k.arg[p], ok)
           o  == IF rc < 0 THEN Outcome(k, rc, k.arg[p])
                 ELSE IF k.arg[p] = 0 THEN RecvAny(k, p, G)
                 ELSE RecvFrom(k, p, G)
<1>1. p \in Pcbs
  BY DEF Region
<1>2. OutcomeOf(k, o) /\ SameLinks(k, o.mem) /\ Names(o, L)
  <2>1. rc \in Int /\ k.arg[p] \in Nat /\ Undisturbed(k, k) /\ SameLinks(k, k)
    BY <1>1, validateIsInt, Constants DEF KernelType, Undisturbed, SameLinks
  <2> HIDE DEF rc
  <2>2. rc < 0 => LET m == Outcome(k, rc, k.arg[p])
                  IN  OutcomeOf(k, m) /\ SameLinks(k, m.mem) /\ Names(m, L)
    BY <2>1 DEF OutcomeOf, Outcome, Names
  <2> QED BY <1>1, <2>2, RecvAny_Keeps, RecvAny_Names, RecvFrom_Keeps, RecvFrom_Names
<1>3. SYS_RECV \in Int
  BY DEF SYS_RECV
<1>4. SysRecv(k, p, ok, G) = Finish(o, p, SYS_RECV)
  BY DEF SysRecv
<1> HIDE DEF o
<1> QED BY <1>2, <1>3, <1>4, Finish_Within

-----------------------------------------------------------------------------
(* When the kernel stops, its memory stays as the request found it.        *)
LeftAlone == kern'.fault # "none" => SameLinks(kern, kern') /\ kern'.pid = kern.pid

(* A request that creates no process.                                      *)
Plain(L) == Within(kern, kern', L, {Running}) /\ kern'.pid = kern.pid /\ LeftAlone

(* A request that creates no process stays in the region.                  *)
LEMMA ServeWithin ==
  ASSUME Inv, NEW k \in KernelType, NEW L, Linked(kern, L), Within(kern, k, L, {Running}),
         k.fault = "none" => k.pid = kern.pid, Serve(k)
  PROVE  Plain(L)
<1>1. CASE k.fault = "none"
  BY <1>1 DEF Serve, Plain, LeftAlone
<1>2. CASE k.fault # "none"
  <2>1. kern' = [kern EXCEPT !.fault = k.fault] /\ kern \in KernelType
    BY <1>2, InvIs DEF Serve
  <2>2. SameLinks(kern, kern') /\ kern'.pid = kern.pid
    BY <2>1 DEF SameLinks, KernelType
  <2> QED BY <2>2, SameLinksWithin DEF Plain, LeftAlone
<1> QED BY <1>1, <1>2

(* One in which the caller gives the CPU up.                               *)
LEMMA DispatchWithin ==
  ASSUME Inv, NEW r, NEW L, Region(L), Linked(kern, L), Gave(kern, Running, r),
         Within(kern, r, L, {Running})
  PROVE  LET k == Dispatch(r)
         IN  /\ k \in KernelType /\ Within(kern, k, L, {Running})
             /\ k.fault = "none" => k.pid = kern.pid
<1>1. Runners(kern) \subseteq {Running}
  BY DEF Inv, OneRunning, Runners
<1>2. r \in KernelType /\ (r.fault = "none" => Runners(r) = {} /\ r.pid = kern.pid)
  BY <1>1 DEF Gave
<1>3. /\ Dispatch(r) \in KernelType
      /\ Dispatch(r).fault = "none" => r.fault = "none" /\ Dispatch(r).pid = r.pid
  BY <1>2, Dispatch_Gives
<1>4. Within(r, Dispatch(r), L, {Running})
  BY <1>2, Dispatch_Within DEF Within
<1> QED BY <1>2, <1>3, <1>4, WithinAfter DEF Within

(* The process that runs is in L.                                          *)
LEMMA RunningWithin ==
  ASSUME Inv, NEW L, Linked(kern, L) PROVE Running \in L
BY RunningIsPcb, Constants DEF Linked, OneRuns, Running

(* SYS_YIELD.                                                              *)
LEMMA YieldWithin ==
  ASSUME Inv, NEW L, Region(L), Linked(kern, L), Yield PROVE Plain(L)
<1>1. Gave(kern, Running, ready(kern, Running))
  BY RunningIsPcb, ready_Gives
<1>2. Within(kern, ready(kern, Running), L, {Running})
  BY RunningIsPcb, RunningWithin, ready_Within
<1>3. Serve(Dispatch(ready(kern, Running)))
  BY DEF Yield
<1> QED BY <1>1, <1>2, <1>3, DispatchWithin, ServeWithin

(* SYS_GETPID.                                                             *)
LEMMA GetPidWithin ==
  ASSUME Inv, NEW L, Region(L), Linked(kern, L), GetPid PROVE Plain(L)
<1> DEFINE k == [kern EXCEPT !.ret[Running] = Code(kern.pid[Running])]
<1>1. Serve(k)
  BY DEF GetPid
<1>2. kern.pid[Running] \in Int
  BY RunningIsPcb, PidIsNat
<1>3. k \in KernelType /\ Undisturbed(kern, k)
  BY <1>2, RunningIsPcb, CodeIsInt, SetRet
<1>4. SameLinks(kern, k)
  BY RunningIsPcb DEF SameLinks, KernelType
<1> HIDE DEF k
<1> QED BY <1>1, <1>3, <1>4, SameLinksWithin, ServeWithin DEF Undisturbed

(* SYS_STOP: those who waited for the process are made ready.              *)
LEMMA StopWithin ==
  ASSUME Inv, NEW L, Region(L), Linked(kern, L), NEW G, StopWith(G) PROVE Plain(L)
<1> DEFINE p  == Running
           k0 == [kern EXCEPT !.state[p] = "STOPPED", !.next[p] = NULL]
           k1 == append(k0, "dead_q", p)
           k2 == notify_waiters(k1, kern.pid[p], G)
<1>1. Serve(Dispatch(k2))
  BY DEF StopWith, Stopped
<1>2. kern \in KernelType /\ p \in Pcbs /\ p \in Slots /\ p \in L
  BY RunningIsPcb, RunningWithin
<1>3. k0 \in KernelType
  BY <1>2 DEF KernelType, States, Ptr
<1>4. /\ k0.state = [kern.state EXCEPT ![p] = "STOPPED"] /\ k0.que = kern.que
      /\ k0.next = [kern.next EXCEPT ![p] = NULL]
      /\ k0.tail = kern.tail /\ k0.headsleeper = kern.headsleeper
      /\ k0.fault = kern.fault /\ k0.pid = kern.pid
      /\ kern.next \in [Slots -> Ptr] /\ kern.state \in [Slots -> States]
  BY <1>2 DEF KernelType
<1>5. Runners(kern) \subseteq {p} => Runners(k0) = {}
  BY <1>2, <1>4 DEF Runners
<1> HIDE DEF k0
<1>6. Within(kern, k0, L, {p})
  BY <1>4 DEF Within, Linked, Calm, Links
<1>7. k1 \in KernelType /\ (k1.fault = "none" => Same(k0, k1))
  BY <1>2, <1>3, append_Keeps DEF QNames
<1>8. Within(kern, k1, L, {p})
  <2>1. Within(k0, k1, L, {p})
    BY <1>2, <1>3, <1>6, append_Within DEF Within, QNames
  <2> QED BY <1>6, <2>1, WithinAfter DEF Within
<1> HIDE DEF k1
<1>9. k2 \in KernelType /\ Fewer(k1, k2)
  BY <1>7, notify_waiters_Keeps
<1>10. Within(kern, k2, L, {p})
  <2>1. Within(k1, k2, L, {p})
    BY <1>7, <1>8, notify_waiters_Within DEF Within
  <2> QED BY <1>8, <2>1, WithinAfter DEF Within
<1> HIDE DEF k2
<1>11. Gave(kern, p, k2)
  BY <1>4, <1>5, <1>7, <1>9 DEF Gave, Fewer, Same, Runners
<1> QED BY <1>1, <1>10, <1>11, DispatchWithin, ServeWithin

(* Recording the arguments of a call changes no pointer.                   *)
LEMMA WithArgsLinks ==
  ASSUME Inv, NEW L, Linked(kern, L), NEW call \in {"none", "send", "recv"},
         NEW arg \in Nat, NEW buf \in Nat, NEW msg \in Nat
  PROVE  LET k == WithArgs(kern, Running, call, arg, buf, msg)
         IN  /\ k \in KernelType /\ Undisturbed(kern, k) /\ PidsNameSlots(k)
             /\ Within(kern, k, L, {Running})
<1> DEFINE k == WithArgs(kern, Running, call, arg, buf, msg)
<1>1. kern \in KernelType /\ PidsNameSlots(kern)
  BY InvIs
<1>2. k \in KernelType /\ Undisturbed(kern, k)
  BY <1>1, WithArgs_Keeps
<1>3. SameLinks(kern, k) /\ k.pid = kern.pid
  BY <1>1 DEF WithArgs, SameLinks, KernelType
<1> HIDE DEF k
<1>4. PidsNameSlots(k)
  BY <1>1, <1>3 DEF PidsNameSlots
<1> QED BY <1>2, <1>3, <1>4, SameLinksWithin DEF k

(* SYS_SEND.                                                               *)
LEMMA SendWithin ==
  ASSUME Inv, NEW L, Region(L), Linked(kern, L),
         NEW d \in Nat, NEW buf \in BufLens, NEW msg \in MsgLens, NEW ok, SendTo(d, buf, msg, ok)
  PROVE  Plain(L)
<1> DEFINE k == WithArgs(kern, Running, "send", d, buf, msg)
<1>1. PICK zero \in BOOLEAN : Serve(Dispatch(SysSend(k, Running, ok, zero)))
  BY DEF SendTo
<1>2. buf \in Nat /\ msg \in Nat
  BY KernelAssumption
<1>3. k \in KernelType /\ Undisturbed(kern, k) /\ Within(kern, k, L, {Running})
  BY <1>2, WithArgsLinks
<1> HIDE DEF k
<1>4. Gave(kern, Running, SysSend(k, Running, ok, zero))
  BY <1>3, RunningIsPcb, SysSend_Gives, GaveAfter
<1>5. Within(kern, SysSend(k, Running, ok, zero), L, {Running})
  BY <1>3, RunningWithin, SysSend_Within, WithinAfter DEF Within
<1> QED BY <1>1, <1>4, <1>5, DispatchWithin, ServeWithin

(* SYS_RECV.                                                               *)
LEMMA ReceiveWithin ==
  ASSUME Inv, NEW L, Region(L), Linked(kern, L), NEW f \in Nat, NEW buf \in Nat, NEW ok, NEW G,
         Serve(Dispatch(SysRecv(WithArgs(kern, Running, "recv", f, buf, 0), Running, ok, G)))
  PROVE  Plain(L)
<1> DEFINE k == WithArgs(kern, Running, "recv", f, buf, 0)
<1>1. k \in KernelType /\ Undisturbed(kern, k) /\ PidsNameSlots(k) /\ Within(kern, k, L, {Running})
  BY WithArgsLinks
<1> HIDE DEF k
<1>2. Gave(kern, Running, SysRecv(k, Running, ok, G))
  BY <1>1, RunningIsPcb, SysRecv_Gives, GaveAfter
<1>3. Within(kern, SysRecv(k, Running, ok, G), L, {Running})
  BY <1>1, RunningWithin, SysRecv_Within, WithinAfter DEF Within
<1> QED BY <1>2, <1>3, DispatchWithin, ServeWithin DEF k

(* SYS_SLEEP.                                                              *)
LEMMA NapWithin ==
  ASSUME Inv, NEW L, Region(L), Linked(kern, L), NEW ms \in Nat, Nap(ms)
  PROVE  Plain(L)
<1>1. CASE kern.next[Running] # NULL
  <2>1. Serve(Fault(kern, "kassert"))
    BY <1>1 DEF Nap
  <2>2. Fault(kern, "kassert") \in KernelType /\ Fault(kern, "kassert").fault # "none"
    BY RunningIsPcb, FaultKeeps DEF Faults
  <2> QED BY <2>1, <2>2, RunningIsPcb, FaultWithin, ServeWithin DEF Faults
<1>2. CASE kern.next[Running] = NULL
  <2> DEFINE k == sleep(kern, Running, ms)
  <2>1. Serve(Dispatch(k))
    BY <1>2 DEF Nap
  <2>2. k \in KernelType /\ Fewer(kern, k) /\ (k.fault = "none" => Runners(k) = Runners(kern) \ {Running})
    BY RunningIsPcb, sleep_Fewer
  <2>3. Within(kern, k, L, {Running})
    BY RunningIsPcb, RunningWithin, sleep_Within
  <2> HIDE DEF k
  <2>4. Gave(kern, Running, k)
    BY <2>2 DEF Gave, Fewer
  <2> QED BY <2>1, <2>3, <2>4, DispatchWithin, ServeWithin
<1> QED BY <1>1, <1>2

(* TIMER_INT: the sleepers' clock ticks, and the next process runs.        *)
LEMMA TimerWithin ==
  ASSUME Inv, NEW L, Region(L), Linked(kern, L), NEW eax \in Int, TimerAt(eax)
  PROVE  Plain(L)
<1> DEFINE k0 == [kern EXCEPT !.ret[Running] = eax]
           k1 == ready(k0, Running)
           k2 == Dispatch(k1)
<1>1. Serve(tick(k2))
  BY DEF TimerAt
<1>2. k0 \in KernelType /\ Undisturbed(kern, k0)
  BY RunningIsPcb, SetRet
<1>3. SameLinks(kern, k0)
  BY RunningIsPcb DEF SameLinks, KernelType
<1> HIDE DEF k0
<1>4. Within(kern, k0, L, {Running})
  BY <1>3, SameLinksWithin
<1>5. Gave(kern, Running, k1)
  BY <1>2, RunningIsPcb, ready_Gives, GaveAfter
<1>6. Within(kern, k1, L, {Running})
  BY <1>2, <1>4, RunningWithin, ready_Within, WithinAfter DEF Within
<1> HIDE DEF k1
<1>7. k2 \in KernelType /\ Within(kern, k2, L, {Running}) /\ (k2.fault = "none" => k2.pid = kern.pid)
  BY <1>5, <1>6, DispatchWithin
<1> HIDE DEF k2
<1>8. tick(k2) \in KernelType /\ Undisturbed(k2, tick(k2))
  BY <1>7, tick_Keeps
<1>9. Within(kern, tick(k2), L, {Running})
  BY <1>7, tick_Within, WithinAfter DEF Within
<1> QED BY <1>1, <1>7, <1>8, <1>9, ServeWithin DEF Undisturbed

(* The slots a step has created a process in.                              *)
Born == {s \in Slots : kern'.pid[s] # kern.pid[s] /\ kern'.state[s] = "READY"}

(* The pid of a new process is not the last one of its slot.               *)
LEMMA NewPidDiffers ==
  ASSUME NEW k \in KernelType, NEW i \in Pcbs PROVE NewPid(k, i) # k.pid[i]
<1>1. k.pid[i] \in Nat /\ i \in Nat /\ i < MAX_PROC /\ i \in Slots
  BY PidIsNat, Constants DEF Slots, Pcbs
<1>2. Slot(i) = i
  BY <1>1, SlotOfSlot
<1> DEFINE pid == k.pid[i]
           slot == Slot(pid)
<1>3. NewPid(k, i) = IF slot # i \/ pid + MAX_PROC >= INT_MAX THEN i ELSE pid + MAX_PROC
  BY DEF NewPid
<1>4. pid = i => slot = i
  BY <1>2
<1> HIDE DEF pid, slot
<1> QED BY <1>1, <1>3, <1>4, ProcTableAssumption DEF pid

(* What holds after any request: the new process, if there is one, is in a *)
(* slot of its own, and the rest is as after a request that creates none.  *)
Grown(L) ==
  /\ Linked(kern', L \cup Born) /\ Calm(kern, kern', {Running}) /\ LeftAlone
  /\ Region(L \cup Born) /\ \A s, t \in Born : s = t

(* A request that creates no process grows nothing.                        *)
LEMMA PlainGrows ==
  ASSUME NEW L, Region(L), Plain(L) PROVE Grown(L)
<1>1. Born = {}
  BY DEF Plain, Born
<1> QED BY <1>1 DEF Plain, Within, Grown

(* create() readies a process in a slot that was not in use, or fails      *)
(* after it took the slot off the dead queue.                              *)
LEMMA create_Within ==
  ASSUME NEW k \in KernelType, NEW L, NEW P, Region(L), Linked(k, L), OneRuns(k), PidsNameSlots(k),
         NEW p \in Pcbs, NEW i \in FreeSlots(k), NEW allocated \in BOOLEAN
  PROVE  LET r == create(k, p, i, allocated)
         IN  /\ allocated => Within(k, r, L \cup {i}, P)
             /\ ~allocated => Within(k, r, L, P)
             /\ r.fault = "none" =>
                  /\ r.pid = [k.pid EXCEPT ![i] = NewPid(k, i)]
                  /\ r.state[i] = IF allocated THEN "READY" ELSE "STOPPED"
<1> DEFINE pid == NewPid(k, i)
           r   == remove(k, "dead_q", i)
           k1  == [r EXCEPT !.pid[i] = pid]
           k2  == [k1 EXCEPT !.state[i] = "READY"]
           k3  == ready(k2, i)
           M   == L \cup {i}
           w1  == [k1 EXCEPT !.ret[p] = -1]
           w3  == [k3 EXCEPT !.ret[p] = Code(pid)]
<1>1. i \in Pcbs /\ i \in Slots /\ k.state[i] = "STOPPED"
  BY Constants DEF FreeSlots
<1>2. pid \in Pids /\ pid \in Nat /\ Code(pid) \in Int /\ -1 \in Int
  BY <1>1, NewPidNamesSlot, CodeIsInt
<1>3. create(k, p, i, allocated) = IF ~allocated THEN w1 ELSE w3
  BY DEF create
<1> HIDE DEF pid
<1>4. r \in KernelType /\ (r.fault = "none" => Same(k, r)) /\ Within(k, r, L, P)
  BY remove_Keeps, remove_Within
<1> HIDE DEF r
<1>5. /\ k1 \in KernelType /\ SameLinks(r, k1) /\ k1.fault = r.fault
      /\ k1.pid = [r.pid EXCEPT ![i] = pid]
  BY <1>2, <1>4 DEF KernelType, SameLinks
<1>6. Within(k, k1, L, P)
  BY <1>4, <1>5, SameLinksWithin, WithinAfter DEF Within
<1> HIDE DEF k1
<1>7. /\ w1.pid = k1.pid /\ w1.fault = k1.fault /\ SameLinks(k1, w1)
  BY <1>5 DEF KernelType, SameLinks
<1>8. CASE ~allocated
  <2>1. Within(k, w1, L, P)
    BY <1>6, <1>7, SameLinksWithin, WithinAfter DEF Within
  <2>2. w1.fault = "none" => w1.pid = [k.pid EXCEPT ![i] = pid] /\ w1.state[i] = "STOPPED"
    BY <1>1, <1>4, <1>5, <1>7 DEF Same, SameLinks
  <2> HIDE DEF w1
  <2> QED BY <1>3, <1>8, <2>1, <2>2 DEF pid
<1>9. CASE allocated
  <2>1. Region(M) /\ Linked(k1, M)
    BY <1>1, <1>6 DEF Region, Within, Linked, Links
  <2>2. /\ k2.next = k1.next /\ k2.que = k1.que /\ k2.tail = k1.tail
        /\ k2.headsleeper = k1.headsleeper
        /\ k2.state = [k1.state EXCEPT ![i] = "READY"] /\ k1.state \in [Slots -> States]
        /\ k2.pid = k1.pid /\ k2.fault = k1.fault
    BY <1>5 DEF KernelType
  <2>3. k2 \in KernelType
    BY <1>5 DEF KernelType, States
  <2> HIDE DEF k2, M
  <2>4. Within(k, k2, M, P)
    <3>1. \A s \in Slots : s \notin M => k2.state[s] = "STOPPED"
      BY <1>1, <2>1, <2>2 DEF M, Linked
    <3>2. Linked(k2, M)
      BY <2>1, <2>2, <3>1 DEF Linked
    <3>3. Calm(k1, k2, P)
      BY <2>2 DEF Calm
    <3> QED BY <1>6, <3>2, <3>3 DEF Within, Calm
  <2>5. /\ k3 \in KernelType /\ Within(k, k3, M, P)
        /\ k3.fault = "none" => /\ k2.fault = "none" /\ k3.pid = k2.pid
                                /\ k3.state = [k2.state EXCEPT ![i] = "READY"]
    <3>1. i \in M
      BY DEF M
    <3>2. Within(k2, k3, M, P)
      BY <2>1, <2>3, <2>4, <3>1, ready_Within DEF Within
    <3> QED BY <1>1, <2>3, <2>4, <3>2, ready_Keeps, WithinAfter DEF Within
  <2> HIDE DEF k3
  <2>6. /\ w3.pid = k3.pid /\ w3.fault = k3.fault /\ SameLinks(k3, w3)
    BY <2>5 DEF KernelType, SameLinks
  <2>7. Within(k, w3, M, P)
    BY <2>5, <2>6, SameLinksWithin, WithinAfter DEF Within
  <2>8. w3.fault = "none" => w3.pid = [k.pid EXCEPT ![i] = pid] /\ w3.state[i] = "READY"
    <3>1. k2.state \in [Slots -> States]
      BY <2>3 DEF KernelType
    <3> QED BY <1>1, <1>4, <1>5, <2>2, <2>5, <2>6, <3>1 DEF Same, SameLinks
  <2> HIDE DEF w3
  <2> QED BY <1>3, <1>9, <2>7, <2>8 DEF pid, M
<1> QED BY <1>8, <1>9

(* SYS_CREATE.                                                             *)
LEMMA CreateGrows ==
  ASSUME Inv, NEW L, Region(L), Linked(kern, L), Create PROVE Grown(L)
<1>1. kern \in KernelType /\ OneRuns(kern) /\ PidsNameSlots(kern) /\ Running \in Pcbs
  BY RunningIsPcb, InvIs
<1>2. CASE FreeSlots(kern) = {}
  <2> DEFINE r == remove(kern, "dead_q", MAX_PROC)
             k == [r EXCEPT !.ret[Running] = -1]
  <2>1. Serve(k)
    BY <1>2 DEF Create
  <2>2. r \in KernelType /\ Within(kern, r, L, {Running}) /\ (r.fault = "none" => r.pid = kern.pid)
    BY <1>1, remove_Keeps, remove_Within
  <2> HIDE DEF r
  <2>3. k \in KernelType /\ SameLinks(r, k) /\ k.fault = r.fault /\ k.pid = r.pid
    <3>1. -1 \in Int
      OBVIOUS
    <3> QED BY <2>2, <3>1 DEF KernelType, SameLinks
  <2> HIDE DEF k
  <2>4. Within(kern, k, L, {Running})
    BY <2>2, <2>3, SameLinksWithin, WithinAfter DEF Within
  <2> QED BY <2>1, <2>2, <2>3, <2>4, ServeWithin, PlainGrows
<1>3. CASE FreeSlots(kern) # {}
  <2> DEFINE i == CHOOSE s \in FreeSlots(kern) : \A r \in FreeSlots(kern) : s <= r
  <2>1. PICK allocated \in {TRUE, ~AllocMayFail} : Serve(create(kern, Running, i, allocated))
    BY <1>3 DEF Create
  <2>2. i \in FreeSlots(kern)
    <3>1. FreeSlots(kern) \subseteq Nat
      BY Constants DEF FreeSlots
    <3> QED BY <1>3, <3>1, HasMinimum
  <2>3. allocated \in BOOLEAN
    OBVIOUS
  <2> HIDE DEF i
  <2> DEFINE k == create(kern, Running, i, allocated)
             M == IF allocated THEN L \cup {i} ELSE L
  <2>4. /\ k \in KernelType /\ Within(kern, k, M, {Running})
        /\ k.fault = "none" =>
             /\ k.pid = [kern.pid EXCEPT ![i] = NewPid(kern, i)]
             /\ k.state[i] = IF allocated THEN "READY" ELSE "STOPPED"
    <3>1. k \in KernelType
      BY <1>1, <2>2, <2>3, create_Keeps
    <3>2. /\ allocated => Within(kern, k, L \cup {i}, {Running})
          /\ ~allocated => Within(kern, k, L, {Running})
          /\ k.fault = "none" =>
               /\ k.pid = [kern.pid EXCEPT ![i] = NewPid(kern, i)]
               /\ k.state[i] = IF allocated THEN "READY" ELSE "STOPPED"
      BY <1>1, <2>2, <2>3, create_Within
    <3> QED BY <3>1, <3>2
  <2> HIDE DEF k
  <2>5. CASE k.fault # "none"
    <3>1. kern' = [kern EXCEPT !.fault = k.fault]
      BY <2>1, <2>5 DEF Serve, k
    <3>2. SameLinks(kern, kern') /\ kern'.pid = kern.pid
      BY <1>1, <3>1 DEF SameLinks, KernelType
    <3> QED BY <3>2, SameLinksWithin, PlainGrows DEF Plain, LeftAlone
  <2>6. CASE k.fault = "none"
    <3>1. kern' = k
      BY <2>1, <2>6 DEF Serve, k
    <3>2. i \in Pcbs /\ i \in Slots /\ kern.pid \in [Slots -> Pids]
      BY <1>1, <2>2, Constants DEF FreeSlots, KernelType
    <3>3. NewPid(kern, i) # kern.pid[i]
      BY <1>1, <3>2, NewPidDiffers
    <3>4. Born = IF allocated THEN {i} ELSE {}
      BY <2>4, <2>6, <3>1, <3>2, <3>3 DEF Born
    <3>5. M = L \cup Born /\ Region(M) /\ \A s, t \in Born : s = t
      BY <3>2, <3>4 DEF Region
    <3> HIDE DEF M
    <3>6. Linked(kern', M) /\ Calm(kern, kern', {Running}) /\ LeftAlone
      BY <2>4, <2>6, <3>1 DEF Within, LeftAlone
    <3> QED BY <3>5, <3>6 DEF Grown
  <2> QED BY <2>5, <2>6
<1> QED BY <1>2, <1>3

(* Every step of the kernel without signals.                               *)
LEMMA NextGrows ==
  ASSUME Inv, NEW L, Region(L), Linked(kern, L), Next PROVE Grown(L)
<1>1. CASE Create
  BY <1>1, CreateGrows
<1>2. CASE Yield
  BY <1>2, YieldWithin, PlainGrows
<1>3. CASE Stop
  BY <1>3, StopWithin, PlainGrows DEF Stop
<1>4. CASE GetPid
  BY <1>4, GetPidWithin, PlainGrows
<1>5. CASE Timer
  BY <1>5, TimerWithin, PlainGrows, KernelAssumption DEF Timer
<1>6. ASSUME NEW d \in 0 .. MaxPid, NEW buf \in BufLens, NEW msg \in MsgLens, NEW ok \in Buffers,
             SendTo(d, buf, msg, ok)
      PROVE  Grown(L)
  BY <1>6, SendWithin, PlainGrows
<1>7. ASSUME NEW f \in 0 .. MaxPid, NEW buf \in BufLens, NEW ok \in Buffers, Receive(f, buf, ok)
      PROVE  Grown(L)
  <2>1. buf \in Nat
    BY KernelAssumption
  <2> QED BY <1>7, <2>1, ReceiveWithin, PlainGrows DEF Receive
<1>8. ASSUME NEW ms \in Naps, Nap(ms)
      PROVE  Grown(L)
  BY <1>8, NapWithin, PlainGrows, KernelAssumption
<1> QED BY <1>1, <1>2, <1>3, <1>4, <1>5, <1>6, <1>7, <1>8 DEF Next

-----------------------------------------------------------------------------
(* The list whose first pcb is q is the sequence f.                        *)
List(next, q, f) ==
  /\ f \in Seq(Pcbs)
  /\ \A i, j \in 1 .. Len(f) : f[i] = f[j] => i = j
  /\ q = IF Len(f) = 0 THEN NULL ELSE f[1]
  /\ \A i \in 1 .. Len(f) : next[f[i]] = IF i = Len(f) THEN NULL ELSE f[i + 1]

On(f)   == {f[i] : i \in 1 .. Len(f)}
Last(f) == f[Len(f)]

(* The members and the ends of a list.                                     *)
LEMMA ListFacts ==
  ASSUME NEW next, NEW q, NEW f, List(next, q, f)
  PROVE  /\ On(f) \subseteq Pcbs /\ Len(f) \in Nat
         /\ (Len(f) = 0 <=> f = <<>>) /\ (On(f) = {} <=> Len(f) = 0)
         /\ (q = NULL <=> Len(f) = 0)
         /\ Len(f) # 0 => /\ q \in On(f) /\ q = f[1] /\ Last(f) \in On(f)
                          /\ next[Last(f)] = NULL
                          /\ \A s \in On(f) : next[s] = NULL => s = Last(f)
<1>1. f \in Seq(Pcbs) /\ Len(f) \in Nat /\ \A i \in 1 .. Len(f) : f[i] \in Pcbs
  BY DEF List
<1>2. NULL \notin Pcbs
  BY Constants
<1>3. (Len(f) = 0 <=> f = <<>>) /\ (On(f) = {} <=> Len(f) = 0) /\ On(f) \subseteq Pcbs
  <2>1. Len(f) = 0 <=> f = <<>>
    BY <1>1
  <2>2. Len(f) # 0 => 1 \in 1 .. Len(f)
    BY <1>1
  <2>3. On(f) = {} <=> Len(f) = 0
    BY <1>1, <2>2 DEF On
  <2>4. On(f) \subseteq Pcbs
    BY <1>1 DEF On
  <2> QED BY <2>1, <2>3, <2>4
<1>4. ASSUME Len(f) # 0
      PROVE  /\ q \in On(f) /\ q = f[1] /\ Last(f) \in On(f) /\ next[Last(f)] = NULL
             /\ \A s \in On(f) : next[s] = NULL => s = Last(f)
  <2>1. 1 \in 1 .. Len(f) /\ Len(f) \in 1 .. Len(f) /\ q = f[1]
    BY <1>1, <1>4 DEF List
  <2>2. ASSUME NEW s \in On(f), next[s] = NULL PROVE s = Last(f)
    <3>1. PICK i \in 1 .. Len(f) : s = f[i]
      BY DEF On
    <3>2. i # Len(f) => i + 1 \in 1 .. Len(f) /\ next[s] = f[i + 1]
      BY <1>1, <3>1 DEF List
    <3> QED BY <1>1, <1>2, <2>2, <3>1, <3>2 DEF Last
  <2> QED BY <2>1, <2>2 DEF On, Last, List
<1> QED BY <1>1, <1>2, <1>3, <1>4 DEF List, On

(* A list is shorter than the process table.                               *)
LEMMA ListIsShort ==
  ASSUME NEW next, NEW q, NEW f, List(next, q, f)
  PROVE  Len(f) < MAX_PROC
<1> SUFFICES ASSUME Len(f) >= MAX_PROC PROVE FALSE
  BY ListFacts, Constants
<1>1. MAX_PROC \in Nat /\ MAX_PROC >= 3 /\ Len(f) \in Nat
  BY ListFacts, Constants
<1>2. Pcbs = 1 .. MAX_PROC - 1
  BY <1>1 DEF Pcbs, Slots
<1>3. IsFiniteSet(Pcbs) /\ Cardinality(Pcbs) = MAX_PROC - 1
  BY <1>1, <1>2, FS_Interval
<1>4. IsFiniteSet(1 .. Len(f)) /\ Cardinality(1 .. Len(f)) = Len(f)
  <2>1. Len(f) \in Int /\ 1 \in Int /\ ~(1 > Len(f)) /\ Len(f) - 1 + 1 = Len(f)
    BY <1>1
  <2> QED BY <2>1, FS_Interval
<1>5. f \in [1 .. Len(f) -> Pcbs]
  BY LenProperties DEF List
<1>6. \E i, j \in 1 .. Len(f) : i # j /\ f[i] = f[j]
  BY <1>1, <1>3, <1>4, <1>5, FS_PigeonHole
<1> QED BY <1>6 DEF List

(* A walk along a list meets its pcb's in order, and then the end.         *)
LEMMA ListChain ==
  ASSUME NEW next, NEW q, NEW f, List(next, q, f)
  PROVE  \A n \in 0 .. MAX_PROC :
           Chain(next, q)[n] = IF n < Len(f) THEN f[n + 1] ELSE NULL
<1> DEFINE C == Chain(next, q)
           At(n) == IF n < Len(f) THEN f[n + 1] ELSE NULL
           Bad == {n \in 0 .. MAX_PROC : C[n] # At(n)}
<1>1. C[0] = q /\ \A n \in 1 .. MAX_PROC : C[n] = Step(next, C[n - 1])
  BY ChainIs
<1> HIDE DEF C
<1>2. SUFFICES ASSUME Bad # {} PROVE FALSE
  BY DEF C
<1>3. PICK n \in Bad : \A i \in Bad : n <= i
  <2>1. Bad \subseteq Nat
    OBVIOUS
  <2> HIDE DEF Bad
  <2> QED BY <1>2, <2>1, HasMinimum
<1>4. Len(f) \in Nat /\ NULL \notin Pcbs /\ MAX_PROC \in Nat
  BY ListFacts, Constants
<1>5. n # 0 /\ n \in 1 .. MAX_PROC
  <2>1. At(0) = q
    BY <1>4 DEF List
  <2> QED BY <1>1, <1>3, <1>4, <2>1
<1>6. C[n - 1] = At(n - 1)
  <2>1. n - 1 \in 0 .. MAX_PROC /\ ~(n <= n - 1)
    BY <1>4, <1>5
  <2> QED BY <1>3, <2>1
<1>7. Step(next, At(n - 1)) = At(n)
  <2>1. CASE n - 1 < Len(f)
    <3>1. n \in 1 .. Len(f) /\ At(n - 1) = f[n] /\ f[n] \in Pcbs
      BY <1>4, <1>5, <2>1 DEF List
    <3>2. next[f[n]] = IF n = Len(f) THEN NULL ELSE f[n + 1]
      BY <3>1 DEF List
    <3> QED BY <1>4, <1>5, <3>1, <3>2 DEF Step
  <2>2. CASE ~(n - 1 < Len(f))
    BY <1>4, <1>5, <2>2 DEF Step
  <2> QED BY <2>1, <2>2
<1> QED BY <1>1, <1>3, <1>5, <1>6, <1>7

(* What Members, Endless and LastOf say of a list.                         *)
LEMMA ListIs ==
  ASSUME NEW next, NEW q, NEW f, List(next, q, f)
  PROVE  /\ Members(next, q) = On(f) /\ ~Endless(next, q)
         /\ LastOf(next, q) = IF Len(f) = 0 THEN NULL ELSE Last(f)
<1>1. Len(f) \in Nat /\ Len(f) < MAX_PROC /\ MAX_PROC \in Nat /\ NULL \notin Pcbs
      /\ \A i \in 1 .. Len(f) : f[i] \in Pcbs
  <2>1. Len(f) \in Nat /\ Len(f) < MAX_PROC
    BY ListFacts, ListIsShort
  <2>2. MAX_PROC \in Nat /\ NULL \notin Pcbs
    BY Constants
  <2> QED BY <2>1, <2>2 DEF List
<1> DEFINE C == Chain(next, q)
<1>2. \A n \in 0 .. MAX_PROC : C[n] = IF n < Len(f) THEN f[n + 1] ELSE NULL
  BY ListChain
<1> HIDE DEF C
<1>3. ~Endless(next, q)
  BY <1>1, <1>2 DEF Endless, C
<1>4. Members(next, q) = On(f)
  <2>1. ASSUME NEW s \in Pcbs, NEW n \in 0 .. MAX_PROC, C[n] = s PROVE s \in On(f)
    <3>1. n < Len(f) /\ s = f[n + 1] /\ n + 1 \in 1 .. Len(f)
      BY <1>1, <1>2, <2>1
    <3> QED BY <3>1 DEF On
  <2>2. ASSUME NEW i \in 1 .. Len(f) PROVE f[i] \in Pcbs /\ \E n \in 0 .. MAX_PROC : C[n] = f[i]
    <3>1. i - 1 \in 0 .. MAX_PROC /\ i - 1 < Len(f) /\ (i - 1) + 1 = i
      BY <1>1
    <3>2. C[i - 1] = f[i]
      BY <1>2, <3>1
    <3> QED BY <1>1, <3>1, <3>2
  <2>3. Members(next, q) = {s \in Pcbs : \E n \in 0 .. MAX_PROC : C[n] = s}
    BY DEF Members, C
  <2>4. Members(next, q) \subseteq On(f)
    BY <2>1, <2>3
  <2>5. On(f) \subseteq Members(next, q)
    BY <2>2, <2>3 DEF On
  <2> QED BY <2>4, <2>5
<1>5. LastOf(next, q) = IF Len(f) = 0 THEN NULL ELSE Last(f)
  <2> DEFINE ends == {s \in On(f) : next[s] = NULL}
  <2>1. LastOf(next, q) = IF ends = {} THEN NULL ELSE CHOOSE s \in ends : TRUE
    BY <1>4 DEF LastOf
  <2>2. CASE Len(f) = 0
    BY <2>1, <2>2, ListFacts
  <2>3. CASE Len(f) # 0
    <3>1. ends = {Last(f)}
      BY <2>3, ListFacts
    <3> HIDE DEF ends
    <3> QED BY <2>1, <2>3, <3>1
  <2> QED BY <2>2, <2>3
<1> QED BY <1>3, <1>4, <1>5

(* The links of a list lead from pcb to pcb of it, and no two lead to the  *)
(* same one, nor any to the first.                                         *)
LEMMA ListNext ==
  ASSUME NEW next, NEW q, NEW f, List(next, q, f)
  PROVE  /\ \A s \in On(f) : next[s] # NULL => next[s] \in On(f) /\ next[s] # q
         /\ \A s, t \in On(f) : next[s] = next[t] /\ next[s] # NULL => s = t
<1> DEFINE n == Len(f)
<1>1. n \in Nat /\ NULL \notin Pcbs
  BY ListFacts, Constants
<1>2. /\ \A i \in 1 .. n : f[i] \in Pcbs
      /\ \A i, j \in 1 .. n : f[i] = f[j] => i = j
      /\ n # 0 => q = f[1]
      /\ \A i \in 1 .. n : next[f[i]] = IF i = n THEN NULL ELSE f[i + 1]
  BY <1>1 DEF List
<1> HIDE DEF n
<1>3. ASSUME NEW i \in 1 .. n, next[f[i]] # NULL
      PROVE  i + 1 \in 1 .. n /\ next[f[i]] = f[i + 1] /\ i + 1 # 1 /\ 1 \in 1 .. n
  BY <1>1, <1>2, <1>3
<1>4. \A s \in On(f) : \E i \in 1 .. n : s = f[i]
  BY DEF On, n
<1>5. \A i \in 1 .. n : f[i] \in On(f)
  BY DEF On, n
<1>6. ASSUME NEW s \in On(f), next[s] # NULL
      PROVE  next[s] \in On(f) /\ next[s] # q
  <2>1. PICK i \in 1 .. n : s = f[i]
    BY <1>4
  <2>2. i + 1 \in 1 .. n /\ next[s] = f[i + 1] /\ i + 1 # 1 /\ 1 \in 1 .. n
    BY <1>3, <1>6, <2>1
  <2> QED BY <1>1, <1>2, <1>5, <2>2
<1>7. ASSUME NEW s \in On(f), NEW t \in On(f), next[s] = next[t], next[s] # NULL
      PROVE  s = t
  <2>1. PICK i \in 1 .. n : s = f[i]
    BY <1>4
  <2>2. PICK j \in 1 .. n : t = f[j]
    BY <1>4
  <2>3. i + 1 \in 1 .. n /\ next[s] = f[i + 1] /\ j + 1 \in 1 .. n /\ next[t] = f[j + 1]
    BY <1>3, <1>7, <2>1, <2>2
  <2>4. i + 1 = j + 1
    BY <1>2, <1>7, <2>3
  <2>5. i = j
    BY <2>4
  <2> QED BY <2>1, <2>2, <2>5
<1> QED BY <1>6, <1>7

(* The links of other pcb's may change.                                    *)
LEMMA ListSame ==
  ASSUME NEW next, NEW q, NEW f, List(next, q, f), NEW r, \A s \in On(f) : r[s] = next[s]
  PROVE  List(r, q, f)
BY DEF List, On

(* The empty list.                                                         *)
LEMMA EmptyList ==
  ASSUME NEW next
  PROVE  List(next, NULL, <<>>) /\ On(<<>>) = {}
BY DEF List, On

(* A list as a function of 1 .. n, without the sequence.                   *)
Chained(next, q, f, n) ==
  /\ n \in Nat
  /\ \A i \in 1 .. n : f[i] \in Pcbs
  /\ \A i, j \in 1 .. n : f[i] = f[j] => i = j
  /\ q = IF n = 0 THEN NULL ELSE f[1]
  /\ \A i \in 1 .. n : next[f[i]] = IF i = n THEN NULL ELSE f[i + 1]

(* A list is a sequence that is one.                                       *)
LEMMA ListChained ==
  ASSUME NEW next, NEW q, NEW f
  PROVE  List(next, q, f) <=> f \in Seq(Pcbs) /\ Chained(next, q, f, Len(f))
BY DEF List, Chained

(* A pcb is put behind the last one of a list.                             *)
LEMMA ChainedAppend ==
  ASSUME NEW next, NEW q, NEW f, NEW n, Chained(next, q, f, n),
         NEW p \in Pcbs, \A i \in 1 .. n : f[i] # p,
         NEW r, r[p] = NULL, n # 0 => r[f[n]] = p, \A i \in 1 .. n - 1 : r[f[i]] = next[f[i]],
         NEW g, g[n + 1] = p, \A i \in 1 .. n : g[i] = f[i]
  PROVE  Chained(r, IF n = 0 THEN p ELSE q, g, n + 1)
<1>1. n \in Nat /\ \A i \in 1 .. n + 1 : i \in 1 .. n \/ i = n + 1
  BY DEF Chained
<1>2. \A i, j \in 1 .. n + 1 : g[i] = g[j] => i = j
  BY <1>1 DEF Chained
<1>3. (IF n = 0 THEN p ELSE q) = g[1]
  BY <1>1 DEF Chained
<1>4. ASSUME NEW i \in 1 .. n + 1 PROVE r[g[i]] = IF i = n + 1 THEN NULL ELSE g[i + 1]
  <2>1. CASE i = n + 1
    BY <2>1
  <2>2. CASE i \in 1 .. n /\ i # n
    <3>1. i \in 1 .. n - 1 /\ i + 1 \in 1 .. n
      BY <1>1, <2>2
    <3> QED BY <1>1, <2>2, <3>1 DEF Chained
  <2>3. CASE i \in 1 .. n /\ i = n
    BY <1>1, <2>3
  <2> QED BY <1>1, <2>1, <2>2, <2>3
<1>5. \A i \in 1 .. n + 1 : g[i] \in Pcbs
  BY <1>1 DEF Chained
<1> QED BY <1>1, <1>2, <1>3, <1>4, <1>5 DEF Chained

(* The same of lists.                                                      *)
LEMMA ListAppend ==
  ASSUME NEW next, NEW q, NEW f, List(next, q, f), NEW p \in Pcbs, p \notin On(f),
         NEW r, r[p] = NULL, Len(f) # 0 => r[Last(f)] = p,
         \A s \in On(f) : s # Last(f) => r[s] = next[s]
  PROVE  /\ List(r, IF Len(f) = 0 THEN p ELSE q, Append(f, p))
         /\ On(Append(f, p)) = On(f) \cup {p} /\ Last(Append(f, p)) = p
         /\ Len(Append(f, p)) = Len(f) + 1
<1> DEFINE g == Append(f, p)
           n == Len(f)
<1>1. f \in Seq(Pcbs) /\ Chained(next, q, f, n) /\ n \in Nat
  BY ListChained DEF Chained
<1>2. g \in Seq(Pcbs) /\ Len(g) = n + 1 /\ g[n + 1] = p /\ \A i \in 1 .. n : g[i] = f[i]
  BY <1>1
<1>3. On(f) = {f[i] : i \in 1 .. n} /\ On(g) = {g[i] : i \in 1 .. n + 1}
      /\ Last(f) = f[n] /\ Last(g) = p
  BY <1>2 DEF On, Last
<1> HIDE DEF g, n
<1>4. Chained(r, IF n = 0 THEN p ELSE q, g, n + 1)
  <2>1. \A i \in 1 .. n : f[i] \in On(f) /\ f[i] # p
    BY <1>3
  <2>2. \A i \in 1 .. n - 1 : f[i] # f[n]
    <3>1. \A i \in 1 .. n - 1 : i \in 1 .. n /\ n \in 1 .. n /\ i # n
      BY <1>1
    <3> QED BY <1>1, <3>1 DEF Chained
  <2>3. \A i \in 1 .. n - 1 : r[f[i]] = next[f[i]]
    <3>1. \A i \in 1 .. n - 1 : i \in 1 .. n
      BY <1>1
    <3> QED BY <1>3, <2>1, <2>2, <3>1
  <2>4. n # 0 => r[f[n]] = p
    BY <1>3 DEF n
  <2> QED BY <1>1, <1>2, <2>1, <2>3, <2>4, ChainedAppend
<1>5. On(g) = On(f) \cup {p}
  <2>1. \A i \in 1 .. n + 1 : i \in 1 .. n \/ i = n + 1
    BY <1>1
  <2>2. \A i \in 1 .. n : i \in 1 .. n + 1
    BY <1>1
  <2>3. n + 1 \in 1 .. n + 1
    BY <1>1
  <2> QED BY <1>2, <1>3, <2>1, <2>2, <2>3
<1>6. List(r, IF n = 0 THEN p ELSE q, g)
  BY <1>2, <1>4, ListChained
<1> QED BY <1>2, <1>3, <1>5, <1>6 DEF g, n

(* A pcb is put before the first one of a list.                            *)
LEMMA ChainedPush ==
  ASSUME NEW next, NEW q, NEW f, NEW n, Chained(next, q, f, n),
         NEW p \in Pcbs, \A i \in 1 .. n : f[i] # p,
         NEW r, r[p] = q, \A i \in 1 .. n : r[f[i]] = next[f[i]],
         NEW g, g[1] = p, \A i \in 1 .. n : g[i + 1] = f[i]
  PROVE  Chained(r, p, g, n + 1)
<1>1. n \in Nat /\ \A i \in 1 .. n + 1 : i = 1 \/ (i - 1 \in 1 .. n /\ (i - 1) + 1 = i)
  BY DEF Chained
<1>2. \A i \in 1 .. n + 1 : i # 1 => g[i] = f[i - 1] /\ f[i - 1] # p
  BY <1>1
<1>3. \A i, j \in 1 .. n + 1 : g[i] = g[j] => i = j
  <2> SUFFICES ASSUME NEW i \in 1 .. n + 1, NEW j \in 1 .. n + 1, g[i] = g[j] PROVE i = j
    OBVIOUS
  <2>1. CASE i = 1 \/ j = 1
    BY <1>2, <2>1
  <2>2. CASE i # 1 /\ j # 1
    <3>1. i - 1 \in 1 .. n /\ j - 1 \in 1 .. n /\ f[i - 1] = f[j - 1]
      BY <1>1, <1>2, <2>2
    <3>2. i - 1 = j - 1
      BY <3>1 DEF Chained
    <3> QED BY <1>1, <3>2
  <2> QED BY <2>1, <2>2
<1>4. ASSUME NEW i \in 1 .. n + 1 PROVE r[g[i]] = IF i = n + 1 THEN NULL ELSE g[i + 1]
  <2>1. CASE i = 1
    <3>1. n # 0 => 1 \in 1 .. n /\ g[2] = f[1]
      <4>1. n # 0 => 1 \in 1 .. n /\ 1 + 1 = 2
        BY <1>1
      <4> QED BY <4>1
    <3> QED BY <1>1, <2>1, <3>1 DEF Chained
  <2>2. CASE i # 1
    <3>1. i - 1 \in 1 .. n /\ (i - 1) + 1 = i
      BY <1>1, <2>2
    <3>2. r[g[i]] = IF i - 1 = n THEN NULL ELSE f[i]
      BY <1>2, <2>2, <3>1 DEF Chained
    <3>3. i - 1 # n => i \in 1 .. n
      BY <1>1, <3>1
    <3> QED BY <1>1, <3>1, <3>2, <3>3
  <2> QED BY <2>1, <2>2
<1>5. \A i \in 1 .. n + 1 : g[i] \in Pcbs
  BY <1>1, <1>2 DEF Chained
<1> QED BY <1>1, <1>3, <1>4, <1>5 DEF Chained

(* The same of lists.                                                      *)
LEMMA ListPush ==
  ASSUME NEW next, NEW q, NEW f, List(next, q, f), NEW p \in Pcbs, p \notin On(f),
         NEW r, r[p] = q, \A s \in On(f) : r[s] = next[s]
  PROVE  \E g : List(r, p, g) /\ On(g) = On(f) \cup {p}
<1> DEFINE g == [i \in 1 .. Len(f) + 1 |-> IF i = 1 THEN p ELSE f[i - 1]]
           n == Len(f)
<1>1. f \in Seq(Pcbs) /\ Chained(next, q, f, n) /\ n \in Nat
  BY ListChained DEF Chained
<1>2. \A i \in 1 .. n + 1 : (IF i = 1 THEN p ELSE f[i - 1]) \in Pcbs
  <2>1. \A i \in 1 .. n + 1 : i # 1 => i - 1 \in 1 .. n
    BY <1>1
  <2> HIDE DEF n
  <2> QED BY <1>1, <2>1 DEF Chained
<1>3. g \in Seq(Pcbs) /\ Len(g) = n + 1 /\ g[1] = p
  BY <1>1, <1>2
<1>4. \A i \in 1 .. n : g[i + 1] = f[i]
  BY <1>1
<1>5. On(f) = {f[i] : i \in 1 .. n} /\ On(g) = {g[i] : i \in 1 .. n + 1}
  BY <1>3 DEF On
<1> HIDE DEF g, n
<1>6. Chained(r, p, g, n + 1)
  <2>1. \A i \in 1 .. n : f[i] \in On(f) /\ f[i] # p
    BY <1>5
  <2>2. \A i \in 1 .. n : r[f[i]] = next[f[i]]
    BY <2>1
  <2>3. Chained(next, q, f, n) /\ g[1] = p /\ \A i \in 1 .. n : f[i] # p
    BY <1>1, <1>3, <2>1
  <2> QED BY <1>4, <2>2, <2>3, ChainedPush
<1>7. On(g) = On(f) \cup {p}
  <2>1. \A i \in 1 .. n + 1 : i # 1 => i - 1 \in 1 .. n /\ (i - 1) + 1 = i
    BY <1>1
  <2>2. \A i \in 1 .. n + 1 : i # 1 => g[i] \in On(f)
    BY <1>4, <1>5, <2>1
  <2>3. \A i \in 1 .. n : i + 1 \in 1 .. n + 1
    BY <1>1
  <2>4. \A i \in 1 .. n : f[i] \in On(g)
    BY <1>4, <1>5, <2>3
  <2>5. 1 \in 1 .. n + 1
    BY <1>1
  <2> QED BY <1>3, <1>5, <2>2, <2>4, <2>5
<1> QED BY <1>3, <1>6, <1>7, ListChained

(* What is left behind a pcb of a list.                                    *)
LEMMA ChainedBehind ==
  ASSUME NEW next, NEW q, NEW f, NEW n, Chained(next, q, f, n), NEW d \in 1 .. n,
         NEW g, \A i \in 1 .. n - d : g[i] = f[i + d]
  PROVE  Chained(next, next[f[d]], g, n - d)
<1>1. n \in Nat /\ d \in Nat /\ n - d \in Nat /\ \A i \in 1 .. n - d : i + d \in 1 .. n
  BY DEF Chained
<1>2. \A i, j \in 1 .. n - d : g[i] = g[j] => i = j
  <2> SUFFICES ASSUME NEW i \in 1 .. n - d, NEW j \in 1 .. n - d, g[i] = g[j] PROVE i = j
    OBVIOUS
  <2>1. i + d = j + d
    BY <1>1 DEF Chained
  <2> QED BY <1>1, <2>1
<1>3. next[f[d]] = IF n - d = 0 THEN NULL ELSE g[1]
  <2>1. n - d # 0 => 1 \in 1 .. n - d /\ g[1] = f[d + 1]
    <3>1. n - d # 0 => 1 \in 1 .. n - d /\ 1 + d = d + 1
      BY <1>1
    <3> QED BY <3>1
  <2>2. next[f[d]] = IF d = n THEN NULL ELSE f[d + 1]
    BY DEF Chained
  <2> QED BY <1>1, <2>1, <2>2
<1>4. ASSUME NEW i \in 1 .. n - d PROVE next[g[i]] = IF i = n - d THEN NULL ELSE g[i + 1]
  <2>1. next[g[i]] = IF i + d = n THEN NULL ELSE f[i + d + 1]
    BY <1>1 DEF Chained
  <2>2. i # n - d => i + 1 \in 1 .. n - d /\ (i + 1) + d = i + d + 1
    BY <1>1
  <2>3. i # n - d => g[i + 1] = f[i + d + 1]
    BY <2>2
  <2> QED BY <1>1, <2>1, <2>3
<1>5. \A i \in 1 .. n - d : g[i] \in Pcbs
  BY <1>1 DEF Chained
<1> QED BY <1>1, <1>2, <1>3, <1>4, <1>5 DEF Chained

(* The same of lists.                                                      *)
LEMMA ListBehind ==
  ASSUME NEW next, NEW q, NEW f, List(next, q, f), NEW d \in 1 .. Len(f)
  PROVE  /\ List(next, next[f[d]], SubSeq(f, d + 1, Len(f)))
         /\ On(SubSeq(f, d + 1, Len(f))) = On(f) \ {f[i] : i \in 1 .. d}
<1> DEFINE g == SubSeq(f, d + 1, Len(f))
           n == Len(f)
<1>1. f \in Seq(Pcbs) /\ Chained(next, q, f, n) /\ n \in Nat
  BY ListChained DEF Chained
<1>2. g \in Seq(Pcbs) /\ Len(g) = n - d /\ \A i \in 1 .. n - d : g[i] = f[i + d]
  BY <1>1
<1>3. On(f) = {f[i] : i \in 1 .. n} /\ On(g) = {g[i] : i \in 1 .. n - d} /\ d \in 1 .. n
  BY <1>2 DEF On
<1> HIDE DEF g, n
<1>4. Chained(next, next[f[d]], g, n - d)
  BY <1>1, <1>2, <1>3, ChainedBehind
<1>5. ASSUME NEW i \in 1 .. n - d PROVE g[i] \in On(f) \ {f[j] : j \in 1 .. d}
  <2>1. i + d \in 1 .. n /\ \A j \in 1 .. d : j \in 1 .. n /\ j # i + d
    BY <1>1, <1>3
  <2>2. \A j \in 1 .. d : f[i + d] # f[j]
    BY <1>1, <2>1 DEF Chained
  <2> QED BY <1>2, <1>3, <2>1, <2>2
<1>6. ASSUME NEW i \in 1 .. n, f[i] \notin {f[j] : j \in 1 .. d} PROVE f[i] \in On(g)
  <2>1. i \notin 1 .. d
    BY <1>6
  <2>2. i - d \in 1 .. n - d /\ (i - d) + d = i
    BY <1>1, <1>3, <2>1
  <2>3. g[i - d] = f[i]
    BY <1>2, <2>2
  <2> QED BY <1>3, <2>2, <2>3
<1>7. On(g) = On(f) \ {f[j] : j \in 1 .. d}
  BY <1>3, <1>5, <1>6
<1>8. List(next, next[f[d]], g)
  BY <1>2, <1>4, ListChained
<1> QED BY <1>7, <1>8 DEF g, n

(* The list without its first pcb.                                         *)
LEMMA ListPop ==
  ASSUME NEW next, NEW q, NEW f, List(next, q, f), Len(f) # 0
  PROVE  List(next, next[q], Tail(f)) /\ On(Tail(f)) = On(f) \ {q}
<1>1. f \in Seq(Pcbs) /\ Len(f) \in Nat /\ q = f[1] /\ 1 \in 1 .. Len(f) /\ f # <<>>
  BY ListFacts DEF List
<1>2. SubSeq(f, 1 + 1, Len(f)) = Tail(f)
  BY <1>1 
<1>3. {f[i] : i \in 1 .. 1} = {q}
  BY <1>1
<1>4. /\ List(next, next[f[1]], SubSeq(f, 1 + 1, Len(f)))
      /\ On(SubSeq(f, 1 + 1, Len(f))) = On(f) \ {f[i] : i \in 1 .. 1}
  BY <1>1, ListBehind
<1> QED BY <1>1, <1>2, <1>3, <1>4

(* A pcb is put behind some pcb of a list.                                 *)
LEMMA ChainedInsert ==
  ASSUME NEW next, NEW q, NEW f, NEW n, Chained(next, q, f, n), NEW d \in 1 .. n,
         NEW p \in Pcbs, \A i \in 1 .. n : f[i] # p,
         NEW r, r[p] = next[f[d]], r[f[d]] = p,
         \A i \in 1 .. n : i # d => r[f[i]] = next[f[i]],
         NEW g, g[d + 1] = p, \A i \in 1 .. d : g[i] = f[i],
         \A i \in d + 1 .. n : g[i + 1] = f[i]
  PROVE  Chained(r, q, g, n + 1)
<1>1. n \in Nat /\ d \in Nat /\ d >= 1 /\ d <= n
  BY DEF Chained
<1> DEFINE Old(i) == i \in d + 2 .. n + 1 /\ i - 1 \in 1 .. n /\ g[i] = f[i - 1]
<1>2. \A i \in 1 .. n + 1 : i \in 1 .. d \/ i = d + 1 \/ Old(i)
  <2> TAKE i \in 1 .. n + 1
  <2>1. CASE i \in d + 2 .. n + 1
    <3>1. i - 1 \in d + 1 .. n /\ i - 1 \in 1 .. n /\ (i - 1) + 1 = i
      BY <1>1, <2>1
    <3> QED BY <2>1, <3>1
  <2>2. i \in 1 .. d \/ i = d + 1 \/ i \in d + 2 .. n + 1
    BY <1>1
  <2> QED BY <2>1, <2>2
<1>3. \A i \in 1 .. d : i \in 1 .. n
  BY <1>1
<1>4. \A i, j \in 1 .. n + 1 : g[i] = g[j] => i = j
  <2> SUFFICES ASSUME NEW i \in 1 .. n + 1, NEW j \in 1 .. n + 1, g[i] = g[j] PROVE i = j
    OBVIOUS
  <2>1. CASE i = d + 1 \/ j = d + 1
    BY <1>2, <1>3, <2>1
  <2>2. CASE Old(i) /\ Old(j)
    <3>1. i - 1 \in 1 .. n /\ j - 1 \in 1 .. n /\ f[i - 1] = f[j - 1]
      BY <2>2
    <3>2. i - 1 = j - 1
      BY <3>1 DEF Chained
    <3> QED BY <1>1, <3>2
  <2>3. CASE i \in 1 .. d /\ j \in 1 .. d
    BY <1>3, <2>3 DEF Chained
  <2>4. ASSUME NEW k \in 1 .. d, NEW l \in 1 .. n + 1, Old(l) PROVE g[k] # g[l]
    <3>1. k # l - 1
      BY <1>1, <2>4
    <3> QED BY <1>3, <2>4, <3>1 DEF Chained
  <2> QED BY <1>2, <2>1, <2>2, <2>3, <2>4
<1>5. q = IF n + 1 = 0 THEN NULL ELSE g[1]
  BY <1>1 DEF Chained
<1>6. ASSUME NEW i \in 1 .. n + 1 PROVE r[g[i]] = IF i = n + 1 THEN NULL ELSE g[i + 1]
  <2>1. CASE i = d + 1
    <3>1. r[g[i]] = IF d = n THEN NULL ELSE f[d + 1]
      BY <2>1 DEF Chained
    <3>2. d # n => d + 1 \in d + 1 .. n
      BY <1>1
    <3> QED BY <1>1, <2>1, <3>1, <3>2
  <2>2. CASE i = d
    BY <1>1, <2>2
  <2>3. CASE i \in 1 .. d /\ i # d
    <3>1. i + 1 \in 1 .. d /\ i \in 1 .. n /\ i # n /\ i # n + 1
      BY <1>1, <2>3
    <3> QED BY <2>3, <3>1 DEF Chained
  <2>4. CASE Old(i)
    <3>1. i - 1 \in 1 .. n /\ i - 1 # d /\ (i - 1) + 1 = i /\ g[i] = f[i - 1]
      BY <1>1, <2>4
    <3>2. r[g[i]] = IF i - 1 = n THEN NULL ELSE f[i]
      BY <3>1 DEF Chained
    <3>3. i - 1 # n => i \in d + 1 .. n
      BY <1>1, <2>4
    <3> QED BY <1>1, <3>1, <3>2, <3>3
  <2> QED BY <1>2, <2>1, <2>2, <2>3, <2>4
<1>7. \A i \in 1 .. n + 1 : g[i] \in Pcbs
  BY <1>2, <1>3 DEF Chained
<1> QED BY <1>1, <1>4, <1>5, <1>6, <1>7 DEF Chained

(* The same of lists.                                                      *)
LEMMA ListInsert ==
  ASSUME NEW next, NEW q, NEW f, List(next, q, f), NEW x \in On(f), NEW p \in Pcbs, p \notin On(f),
         NEW r, r[p] = next[x], r[x] = p, \A s \in On(f) : s # x => r[s] = next[s]
  PROVE  \E g : List(r, q, g) /\ On(g) = On(f) \cup {p}
<1> DEFINE n == Len(f)
<1>1. f \in Seq(Pcbs) /\ Chained(next, q, f, n) /\ n \in Nat /\ On(f) = {f[i] : i \in 1 .. n}
  BY ListChained DEF Chained, On
<1> HIDE DEF n
<1>2. PICK d \in 1 .. n : x = f[d]
  BY <1>1
<1> DEFINE g == [i \in 1 .. n + 1 |-> IF i <= d THEN f[i] ELSE IF i = d + 1 THEN p ELSE f[i - 1]]
<1>3. d \in Nat /\ d >= 1 /\ d <= n
  BY <1>1
<1>4. \A i \in 1 .. n + 1 : (IF i <= d THEN f[i] ELSE IF i = d + 1 THEN p ELSE f[i - 1]) \in Pcbs
  <2>1. \A i \in 1 .. n + 1 : (i <= d => i \in 1 .. n) /\ (i > d + 1 => i - 1 \in 1 .. n)
    BY <1>1, <1>3
  <2>2. \A i \in 1 .. n + 1 : i <= d \/ i = d + 1 \/ i > d + 1
    BY <1>1, <1>3
  <2> QED BY <1>1, <2>1, <2>2 DEF Chained
<1>5. g \in Seq(Pcbs) /\ Len(g) = n + 1
  BY <1>1, <1>4
<1>6. g[d + 1] = p /\ (\A i \in 1 .. d : g[i] = f[i]) /\ \A i \in d + 1 .. n : g[i + 1] = f[i]
  BY <1>1, <1>3
<1>7. On(g) = {g[i] : i \in 1 .. n + 1}
  BY <1>5 DEF On
<1> HIDE DEF g
<1>8. Chained(r, q, g, n + 1)
  <2>1. \A i \in 1 .. n : f[i] \in On(f) /\ f[i] # p
    BY <1>1
  <2>2. \A i \in 1 .. n : i # d => f[i] # x
    BY <1>1, <1>2 DEF Chained
  <2>3. \A i \in 1 .. n : i # d => r[f[i]] = next[f[i]]
    BY <2>1, <2>2
  <2>4. r[p] = next[f[d]] /\ r[f[d]] = p /\ Chained(next, q, f, n) /\ \A i \in 1 .. n : f[i] # p
    BY <1>1, <1>2, <2>1
  <2> QED BY <1>6, <2>3, <2>4, ChainedInsert
<1>9. On(g) = On(f) \cup {p}
  <2>1. \A i \in 1 .. n : \/ i \in 1 .. d /\ i \in 1 .. n + 1
                          \/ i \in d + 1 .. n /\ i + 1 \in 1 .. n + 1
    BY <1>1, <1>3
  <2>2. On(f) \subseteq On(g)
    BY <1>1, <1>6, <1>7, <2>1
  <2>3. \A i \in 1 .. n + 1 : \/ i \in 1 .. d /\ i \in 1 .. n
                              \/ i = d + 1
                              \/ i - 1 \in d + 1 .. n /\ i - 1 \in 1 .. n /\ (i - 1) + 1 = i
    BY <1>1, <1>3
  <2>4. On(g) \subseteq On(f) \cup {p}
    <3>1. \A i \in 1 .. n + 1 : i - 1 \in d + 1 .. n /\ (i - 1) + 1 = i => g[i] = f[i - 1]
      BY <1>6
    <3>2. \A i \in 1 .. n + 1 : g[i] \in On(f) \cup {p}
      BY <1>1, <1>6, <2>3, <3>1
    <3> QED BY <1>7, <3>2
  <2>5. d + 1 \in 1 .. n + 1
    BY <1>1, <1>3
  <2> QED BY <1>6, <1>7, <2>2, <2>4, <2>5
<1> QED BY <1>5, <1>8, <1>9, ListChained

(* The first d pcb's of one list are moved behind another.                 *)
LEMMA ChainedMove ==
  ASSUME NEW next, NEW q, NEW f, NEW n, Chained(next, q, f, n),
         NEW h, NEW g, NEW m, Chained(next, h, g, m), NEW d \in 1 .. m,
         \A i \in 1 .. n : \A j \in 1 .. m : f[i] # g[j],
         NEW r, r[g[d]] = NULL, n # 0 => r[f[n]] = h,
         \A i \in 1 .. n - 1 : r[f[i]] = next[f[i]],
         \A i \in 1 .. d - 1 : r[g[i]] = next[g[i]],
         NEW e, \A i \in 1 .. n : e[i] = f[i], \A i \in 1 .. d : e[n + i] = g[i]
  PROVE  Chained(r, IF n = 0 THEN h ELSE q, e, n + d)
<1>1. n \in Nat /\ m \in Nat /\ d \in Nat /\ d >= 1 /\ d <= m
  BY DEF Chained
<1> DEFINE New(i) == i \in n + 1 .. n + d /\ i - n \in 1 .. d /\ i - n \in 1 .. m /\ e[i] = g[i - n]
<1>2. \A i \in 1 .. n + d : i \in 1 .. n \/ New(i)
  <2> TAKE i \in 1 .. n + d
  <2>1. CASE i \notin 1 .. n
    <3>1. i - n \in 1 .. d /\ i - n \in 1 .. m /\ n + (i - n) = i /\ i \in n + 1 .. n + d
      BY <1>1, <2>1
    <3> QED BY <3>1
  <2> QED BY <2>1
<1>3. \A i, j \in 1 .. n + d : e[i] = e[j] => i = j
  <2> SUFFICES ASSUME NEW i \in 1 .. n + d, NEW j \in 1 .. n + d, e[i] = e[j] PROVE i = j
    OBVIOUS
  <2>1. CASE i \in 1 .. n /\ j \in 1 .. n
    BY <2>1 DEF Chained
  <2>2. CASE New(i) /\ New(j)
    <3>1. i - n \in 1 .. m /\ j - n \in 1 .. m /\ g[i - n] = g[j - n]
      BY <2>2
    <3>2. i - n = j - n
      BY <3>1 DEF Chained
    <3> QED BY <1>1, <3>2
  <2>3. \A k \in 1 .. n, l \in 1 .. n + d : New(l) => e[k] # e[l]
    OBVIOUS
  <2> QED BY <1>2, <2>1, <2>2, <2>3
<1>4. n + d # 0 /\ e[1] = IF n = 0 THEN h ELSE q
  <2>1. CASE n = 0
    <3>1. e[n + 1] = g[1] /\ n + 1 = 1 /\ m # 0
      BY <1>1, <2>1
    <3> QED BY <1>1, <2>1, <3>1 DEF Chained
  <2>2. CASE n # 0
    BY <1>1, <2>2 DEF Chained
  <2> QED BY <2>1, <2>2
<1>5. ASSUME NEW i \in 1 .. n + d PROVE r[e[i]] = IF i = n + d THEN NULL ELSE e[i + 1]
  <2>1. CASE i \in 1 .. n /\ i # n
    <3>1. i \in 1 .. n - 1 /\ i + 1 \in 1 .. n /\ i # n + d
      BY <1>1, <2>1
    <3> QED BY <2>1, <3>1 DEF Chained
  <2>2. CASE i \in 1 .. n /\ i = n
    <3>1. e[n + 1] = g[1] /\ n # n + d /\ m # 0 /\ n # 0
      BY <1>1, <2>2
    <3> QED BY <2>2, <3>1 DEF Chained
  <2>3. CASE New(i) /\ i = n + d
    <3>1. i - n = d
      BY <1>1, <2>3
    <3> QED BY <2>3, <3>1
  <2>4. CASE New(i) /\ i # n + d
    <3>1. i - n \in 1 .. d - 1 /\ i - n \in 1 .. m /\ i - n # m /\ (i - n) + 1 \in 1 .. d
          /\ n + ((i - n) + 1) = i + 1
      BY <1>1, <2>4
    <3>2. r[e[i]] = next[g[i - n]]
      BY <2>4, <3>1
    <3>3. next[g[i - n]] = g[(i - n) + 1]
      BY <3>1 DEF Chained
    <3>4. e[n + ((i - n) + 1)] = g[(i - n) + 1]
      BY <3>1
    <3> QED BY <2>4, <3>1, <3>2, <3>3, <3>4
  <2> QED BY <1>2, <2>1, <2>2, <2>3, <2>4
<1>6. \A i \in 1 .. n + d : e[i] \in Pcbs
  BY <1>2 DEF Chained
<1> QED BY <1>1, <1>3, <1>4, <1>5, <1>6 DEF Chained

(* The same of lists: the first d pcb's of one go behind another.          *)
LEMMA ListMove ==
  ASSUME NEW next, NEW q, NEW f, List(next, q, f), NEW h, NEW g, List(next, h, g),
         On(f) \cap On(g) = {}, NEW d \in 1 .. Len(g),
         NEW r, r[g[d]] = NULL, Len(f) # 0 => r[Last(f)] = h,
         \A s \in On(f) : s # Last(f) => r[s] = next[s],
         \A s \in On(g) : s # g[d] => r[s] = next[s]
  PROVE  LET e == f \o SubSeq(g, 1, d)
             b == SubSeq(g, d + 1, Len(g))
         IN  /\ List(r, IF Len(f) = 0 THEN h ELSE q, e) /\ List(r, next[g[d]], b)
             /\ On(e) = On(f) \cup {g[i] : i \in 1 .. d}
             /\ On(b) = On(g) \ {g[i] : i \in 1 .. d}
             /\ Len(e) # 0 /\ Last(e) = g[d]
<1> DEFINE n == Len(f)
           m == Len(g)
           e == f \o SubSeq(g, 1, d)
           b == SubSeq(g, d + 1, Len(g))
           W == {g[i] : i \in 1 .. d}
<1>1. /\ f \in Seq(Pcbs) /\ Chained(next, q, f, n) /\ n \in Nat /\ On(f) = {f[i] : i \in 1 .. n}
      /\ g \in Seq(Pcbs) /\ Chained(next, h, g, m) /\ m \in Nat /\ On(g) = {g[i] : i \in 1 .. m}
  BY ListChained DEF Chained, On
<1>2. d \in Nat /\ d >= 1 /\ d <= m
  BY <1>1
<1>3. e \in Seq(Pcbs) /\ Len(e) = n + d
      /\ (\A i \in 1 .. n : e[i] = f[i]) /\ \A i \in 1 .. d : e[n + i] = g[i]
  BY <1>1, <1>2
<1>4. On(e) = {e[i] : i \in 1 .. n + d} /\ Last(e) = e[n + d] /\ Last(f) = f[n]
  BY <1>3 DEF On, Last
<1>5. List(next, next[g[d]], b) /\ On(b) = On(g) \ W
  BY ListBehind
<1> HIDE DEF n, m, e, b, W
<1>6. Chained(r, IF n = 0 THEN h ELSE q, e, n + d)
  <2>1. \A i \in 1 .. n : \A j \in 1 .. m : f[i] # g[j]
    BY <1>1
  <2>2. \A i \in 1 .. n - 1 : r[f[i]] = next[f[i]]
    <3>1. \A i \in 1 .. n - 1 : i \in 1 .. n /\ n \in 1 .. n /\ i # n
      BY <1>1
    <3>2. \A i \in 1 .. n - 1 : f[i] # Last(f) /\ f[i] \in On(f)
      BY <1>1, <1>4, <3>1 DEF Chained
    <3> QED BY <3>2
  <2>3. \A i \in 1 .. d - 1 : r[g[i]] = next[g[i]]
    <3>1. \A i \in 1 .. d - 1 : i \in 1 .. m /\ d \in 1 .. m /\ i # d
      BY <1>1, <1>2
    <3>2. \A i \in 1 .. d - 1 : g[i] # g[d] /\ g[i] \in On(g)
      BY <1>1, <3>1 DEF Chained
    <3> QED BY <3>2
  <2>4. Chained(next, q, f, n) /\ Chained(next, h, g, m) /\ d \in 1 .. m
        /\ (n # 0 => r[f[n]] = h) /\ (\A i \in 1 .. n : e[i] = f[i])
        /\ \A i \in 1 .. d : e[n + i] = g[i]
    BY <1>1, <1>3, <1>4 DEF n, m
  <2> QED BY <2>1, <2>2, <2>3, <2>4, ChainedMove
<1>7. On(e) = On(f) \cup W
  <2>1. \A i \in 1 .. n + d : i \in 1 .. n \/ (i - n \in 1 .. d /\ n + (i - n) = i)
    BY <1>1, <1>2
  <2>2. \A i \in 1 .. n + d : i - n \in 1 .. d /\ n + (i - n) = i => e[i] = g[i - n]
    BY <1>3
  <2>3. \A i \in 1 .. n + d : e[i] \in On(f) \cup W
    BY <1>1, <1>3, <2>1, <2>2 DEF W
  <2>4. \A i \in 1 .. n : i \in 1 .. n + d
    BY <1>1, <1>2
  <2>5. \A i \in 1 .. d : n + i \in 1 .. n + d
    BY <1>1, <1>2
  <2>6. On(f) \subseteq On(e)
    BY <1>1, <1>3, <1>4, <2>4
  <2>7. W \subseteq On(e)
    BY <1>3, <1>4, <2>5 DEF W
  <2> QED BY <1>4, <2>3, <2>6, <2>7
<1>8. List(r, next[g[d]], b)
  <2>1. d \in 1 .. d
    BY <1>2
  <2>2. \A s \in On(b) : s # g[d] /\ s \in On(g)
    BY <1>5, <2>1 DEF W
  <2> QED BY <1>5, <2>2, ListSame
<1>9. Len(e) # 0 /\ Last(e) = g[d]
  <2>1. d \in 1 .. d
    BY <1>2
  <2> QED BY <1>1, <1>2, <1>3, <1>4, <2>1
<1>10. List(r, IF n = 0 THEN h ELSE q, e)
  BY <1>3, <1>6, ListChained
<1> QED BY <1>5, <1>7, <1>8, <1>9, <1>10 DEF n, m, e, b, W
=============================================================================
