----------------------------- MODULE ReadProofs -----------------------------
(***************************************************************************)
(* What a read returns, and where it is written: ReadsWhatWasTyped and     *)
(* ReaderHasRoom, of the programs of user.c, for every size of the         *)
(* buffers, of the table and of the loops.                                 *)
(*                                                                         *)
(* next() does not look at the state of the process behind idleproc, so no *)
(* invariant of the kernel's own says that a process blocked in a read     *)
(* stays there: it takes what the programs do.  With the programs of the   *)
(* default build idleproc blocks in nothing, and is at the head of the     *)
(* ready queue only until root first gives the CPU up (Idles).  With       *)
(* root's tests of the reads idleproc receives, but no third process is    *)
(* there to be behind it (Pair).  With its other tests nobody is in a read *)
(* at all.  The rest is the keyboard: what the driver has for a reader are *)
(* characters, one for every key struck since the read began, and a key    *)
(* adds one or hands all of them over (Fed, Whole).                        *)
(***************************************************************************)
EXTENDS UserProofs

-----------------------------------------------------------------------------
(* Who waits in a read goes on waiting: what only a key or a signal may    *)
(* change.                                                                 *)
Keeps(k, r) == \A s \in Slots : Reads(k, s) => Reads(r, s)

(* Only root ever waits in one.                                            *)
RootReads(k) == \A s \in Slots : Reads(k, s) => s = ROOT

(* Over two steps.                                                         *)
LEMMA KeepsTwice ==
  ASSUME NEW k, NEW m, NEW r, Keeps(k, m), Keeps(m, r) PROVE Keeps(k, r)
BY DEF Keeps

(* Links do not matter.                                                    *)
LEMMA SameKeeps == ASSUME NEW k, NEW r, Calls3(k, r) PROVE Keeps(k, r)
BY DEF Keeps, Reads, Calls3

(* Nor what is written of a process that waits in none.                    *)
LEMMA OneKeeps ==
  ASSUME NEW k, NEW r, NEW p, ~Reads(k, p),
         \A s \in Slots \ {p} : r.state[s] = k.state[s] /\ r.ret[s] = k.ret[s]
  PROVE  Keeps(k, r)
BY DEF Keeps, Reads

(* ready() and the running process.                                        *)
LEMMA ready_Reads ==
  ASSUME NEW k \in KernelType, NEW p, ~Reads(k, p) PROVE Keeps(k, ready(k, p))
<1> DEFINE r == ready(k, p)
<1>1. r.ret = k.ret /\ r.state \in {k.state, [k.state EXCEPT ![p] = "READY"]}
  BY ready_Calls
<1>2. k.state \in [Slots -> States]
  BY DEF KernelType
<1> HIDE DEF r
<1>3. \A s \in Slots \ {p} : r.state[s] = k.state[s] /\ r.ret[s] = k.ret[s]
  BY <1>1, <1>2
<1>4. Keeps(k, r)
  BY <1>3, OneKeeps
<1> QED BY <1>4 DEF r

(* Nor does what runs: it waits in none.                                   *)
LEMMA Run_Reads ==
  ASSUME NEW k \in KernelType, NEW p, ~Reads(k, p) PROVE Keeps(k, Run(k, p))
<1>1. \A s \in Slots \ {p} : Run(k, p).state[s] = k.state[s] /\ Run(k, p).ret[s] = k.ret[s]
  BY DEF Run, KernelType
<1> QED BY <1>1, OneKeeps

(* The idle process's pid is no other's.                                   *)
LEMMA OnlyIdle ==
  ASSUME NEW k, PidsNameSlots(k), NEW s \in Slots, k.pid[s] = IDLE PROVE s = IDLE
<1>1. Slot(IDLE) = IDLE
  BY Constants, SlotOfSlot
<1> QED BY <1>1 DEF PidsNameSlots, IDLE

(* dispatch() makes the first of the ready queue run, and checks that it   *)
(* is ready; only of the process behind idleproc it does not.              *)
LEMMA Dispatch_Reads ==
  ASSUME NEW k \in KernelType, PidsNameSlots(k), RootReads(k), k.que["head"] # IDLE
  PROVE  Keeps(k, Dispatch(k))
<1> DEFINE h     == k.que["head"]
           r     == k.que["running"]
           m     == Pop(k)
           idles == [m EXCEPT !.state[r] = "READY"]
<1>1. (h = NULL \/ h \in Pcbs) /\ r \in Ptr /\ Pcbs \subseteq Slots /\ IDLE \in Slots /\ IDLE # ROOT
  BY Constants DEF KernelType, QNames, Ptr, IDLE, ROOT
<1>2. CASE h = NULL
  BY <1>1, <1>2, Run_Reads DEF Dispatch, RootReads
<1>3. CASE h # NULL /\ (~Aligned(k, h) \/ k.state[h] # "READY")
  BY <1>3, Fault_Calls, SameKeeps DEF Dispatch
<1>4. CASE h # NULL /\ ~(~Aligned(k, h) \/ k.state[h] # "READY")
  <2>1. k.pid[h] # IDLE /\ h \in Pcbs
    BY <1>1, <1>4, OnlyIdle
  <2>2. Dispatch(k) = IF k.pid[r] = IDLE THEN Run(idles, h) ELSE Run(m, h)
    BY <1>4, <2>1 DEF Dispatch
  <2>3. m \in KernelType /\ Calls3(k, m)
    BY <2>1, Pop_Keeps, Pop_Calls
  <2> HIDE DEF m
  <2>4. ~Reads(m, h) /\ Keeps(k, m)
    BY <1>4, <2>3, SameKeeps DEF Reads, Calls3
  <2>5. ASSUME k.pid[r] = IDLE PROVE idles \in KernelType /\ ~Reads(idles, h) /\ Keeps(m, idles)
    <3>1. idles \in KernelType /\ idles.state = [m.state EXCEPT ![r] = "READY"] /\ idles.ret = m.ret
      BY <2>3 DEF KernelType, States
    <3> HIDE DEF idles
    <3>2. CASE r \in Slots
      <4>1. r = IDLE
        BY <2>5, <3>2, OnlyIdle
      <4>2. ~Reads(m, r)
        BY <1>1, <2>3, <4>1 DEF RootReads, Reads, Calls3
      <4>3. \A s \in Slots \ {r} : idles.state[s] = m.state[s] /\ idles.ret[s] = m.ret[s]
        BY <2>3, <3>1 DEF KernelType
      <4>4. Keeps(m, idles)
        BY <4>2, <4>3, OneKeeps
      <4>5. ~Reads(idles, h)
        BY <1>1, <2>1, <2>3, <2>4, <3>1 DEF Reads, KernelType
      <4> QED BY <3>1, <4>4, <4>5
    <3>3. CASE r \notin Slots
      <4>1. idles.state = m.state
        BY <2>3, <3>1, <3>3 DEF KernelType
      <4> QED BY <2>4, <3>1, <4>1 DEF Reads, Keeps
    <3> QED BY <3>2, <3>3
  <2>6. CASE k.pid[r] = IDLE
    <3> HIDE DEF idles
    <3>1. Keeps(idles, Run(idles, h))
      BY <2>5, <2>6, Run_Reads
    <3> QED BY <2>2, <2>4, <2>5, <2>6, <3>1, KeepsTwice
  <2>7. CASE k.pid[r] # IDLE
    <3>1. Keeps(m, Run(m, h))
      BY <2>3, <2>4, Run_Reads
    <3> QED BY <2>2, <2>4, <2>7, <3>1, KeepsTwice
  <2> QED BY <2>6, <2>7
<1> QED BY <1>2, <1>3, <1>4

(* notify_waiters() releases who waits in a send or a receive.             *)
LEMMA notify_waiters_Reads ==
  ASSUME NEW k \in KernelType, NEW pid PROVE Keeps(k, notify_waiters(k, pid, {}))
<1> DEFINE at   == Chain(k.next, k.que["blocked_q"])
           hits == {n \in 0 .. MAX_PROC :
                      at[n] \in Pcbs /\ WaitsOn(k, at[n], pid, n = 0, {})}
           n    == CHOOSE i \in hits : \A j \in hits : i <= j
           q    == at[n]
           k1   == IF n = 0 THEN k ELSE [k EXCEPT !.next[at[n - 1]] = k.next[q]]
           k2   == [k1 EXCEPT !.ret[q] = BAD_PID]
<1>1. /\ hits = {} => notify_waiters(k, pid, {}) \in {k, Fault(k, "loop")}
      /\ hits # {} => notify_waiters(k, pid, {}) \in {Fault(k, "loop"), ready(k2, q)}
  <2>1. CASE hits = {}
    BY <2>1 DEF notify_waiters
  <2>2. CASE hits # {}
    BY <2>2 DEF notify_waiters
  <2> QED BY <2>1, <2>2
<1>2. Keeps(k, k) /\ Keeps(k, Fault(k, "loop"))
  BY Fault_Calls, SameKeeps DEF Keeps
<1>3. ASSUME hits # {} PROVE Keeps(k, ready(k2, q))
  <2>1. n \in hits
    <3>1. hits \subseteq Nat
      OBVIOUS
    <3> HIDE DEF hits
    <3> QED BY <1>3, <3>1, HasMinimum
  <2>2. q \in Pcbs /\ q \in Slots /\ k.next[q] \in Ptr
    BY <2>1, Constants DEF KernelType
  <2>3. ~Reads(k, q)
    <3>1. WaitsOn(k, q, pid, n = 0, {})
      BY <2>1
    <3> HIDE DEF at, hits, n, q
    <3> QED BY <3>1 DEF WaitsOn, Reads, SYS_READ, SYS_SEND, SYS_RECV
  <2>4. k1 \in KernelType /\ Calls3(k, k1)
    <3> HIDE DEF at, n, q
    <3> QED BY <2>2 DEF KernelType, Calls3
  <2> HIDE DEF k1, q
  <2>5. k2 \in KernelType /\ k2.state = k1.state /\ k2.ret = [k1.ret EXCEPT ![q] = BAD_PID]
    <3>1. BAD_PID \in Int
      BY DEF BAD_PID
    <3> QED BY <2>2, <2>4, <3>1 DEF KernelType
  <2> HIDE DEF k2
  <2>6. Keeps(k, k2) /\ ~Reads(k2, q)
    <3>1. \A s \in Slots \ {q} : k2.state[s] = k.state[s] /\ k2.ret[s] = k.ret[s]
      BY <2>4, <2>5 DEF KernelType, Calls3
    <3>2. k2.ret[q] # SYS_READ
      BY <2>2, <2>4, <2>5 DEF KernelType, BAD_PID, SYS_READ
    <3>3. Keeps(k, k2)
      BY <2>3, <3>1, OneKeeps
    <3> QED BY <3>2, <3>3 DEF Reads
  <2> QED BY <2>5, <2>6, ready_Reads, KeepsTwice
<1> HIDE DEF hits, k2, q
<1> QED BY <1>1, <1>2, <1>3

(* sleep() and the running process.                                        *)
LEMMA sleep_Reads ==
  ASSUME NEW k \in KernelType, NEW p \in Pcbs, NEW ms \in Nat, ~Reads(k, p)
  PROVE  LET r == sleep(k, p, ms) IN r.fault = "none" => Keeps(k, r)
<1> DEFINE r == sleep(k, p, ms)
<1>1. r.fault = "none" => r.state = [k.state EXCEPT ![p] = "SLEEP"]
  BY sleep_Keeps
<1>2. r.ret = k.ret
  <2> DEFINE t    == milliseconds_to_ticks(ms)
             k1   == [k EXCEPT !.next[p] = NULL, !.state[p] = "SLEEP", !.sleepticks[p] = t]
             h    == k.headsleeper
             at   == Chain(k1.next, h)
             acc  == Accumulated(k1, at)
             n    == CHOOSE i \in 1 .. MAX_PROC :
                         /\ at[i] = NULL \/ acc[i] >= t
                         /\ \A j \in 1 .. i - 1 : at[j] # NULL /\ acc[j] < t
             prev == at[n - 1]
             succ == Step(k1.next, prev)
             rest == Minus(t, acc[n - 1])
             further == [k1 EXCEPT !.next = Between(@, prev, p, succ),
                                   !.sleepticks = Shorten([@ EXCEPT ![p] = rest], succ, rest)]
             first   == [k1 EXCEPT !.next[p] = h, !.headsleeper = p,
                                   !.sleepticks = Shorten(@, h, t)]
  <2>1. r \in {Fault(k, "loop"), further, first}
    BY DEF sleep
  <2> HIDE DEF t, h, at, acc, n, prev, succ, rest, r
  <2>2. further.ret = k.ret /\ first.ret = k.ret
    BY DEF KernelType
  <2> HIDE DEF further, first
  <2> QED BY <2>1, <2>2, Fault_Calls DEF Calls3
<1> HIDE DEF r
<1>3. r.fault = "none" => \A s \in Slots \ {p} : r.state[s] = k.state[s] /\ r.ret[s] = k.ret[s]
  BY <1>1, <1>2 DEF KernelType
<1>4. r.fault = "none" => Keeps(k, r)
  BY <1>3, OneKeeps
<1> QED BY <1>4 DEF r

(* tick() wakes who sleeps.                                                *)
LEMMA tick_Reads ==
  ASSUME NEW k \in KernelType PROVE Keeps(k, tick(k))
<1>1. Keeps(k, wake(k))
  <2> DEFINE w == wake(k)
             at    == Chain(k.next, k.headsleeper)
             woken == {at[i] : i \in 0 .. DueCount(k, at) - 1}
  <2>1. \/ w = Fault(k, "alias")
        \/ /\ \A s \in woken : k.state[s] = "SLEEP"
           /\ w.ret = k.ret
           /\ w.state = [s \in Slots |-> IF s \in woken THEN "READY" ELSE k.state[s]]
    <3>1. CASE \E s \in woken : s \notin Pcbs \/ k.state[s] # "SLEEP"
      BY <3>1 DEF wake
    <3>2. CASE ~\E s \in woken : s \notin Pcbs \/ k.state[s] # "SLEEP"
      BY <3>2 DEF wake, KernelType
    <3> QED BY <3>1, <3>2
  <2> HIDE DEF w, woken
  <2>2. Keeps(k, w)
    BY <2>1, Fault_Calls, SameKeeps DEF Keeps, Reads
  <2> QED BY <2>2 DEF w
<1>2. ASSUME NEW m \in KernelType PROVE Keeps(m, CountDown(m))
  BY SameKeeps DEF CountDown, KernelType, Calls3
<1>3. CASE k.headsleeper = NULL
  BY <1>3 DEF tick, Keeps
<1>4. CASE k.headsleeper # NULL
  <2> DEFINE m == IF k.sleepticks[k.headsleeper] <= 1 THEN wake(k) ELSE k
  <2>1. m \in KernelType
    BY <1>4, wake_Keeps DEF KernelType, Ptr
  <2>2. Keeps(k, m)
    BY <1>1 DEF Keeps
  <2>3. tick(k) = CountDown(m)
    BY <1>4 DEF tick
  <2> HIDE DEF m
  <2> QED BY <1>2, <2>1, <2>2, <2>3, KeepsTwice
<1> QED BY <1>3, <1>4

(* create() takes a slot that is stopped.                                  *)
LEMMA create_Reads ==
  ASSUME NEW k \in KernelType, PidsNameSlots(k), NEW p \in Pcbs, ~Reads(k, p),
         NEW i \in Pcbs, ~Reads(k, i), NEW allocated \in BOOLEAN
  PROVE  Keeps(k, create(k, p, i, allocated))
<1> DEFINE m   == remove(k, "dead_q", i)
           pid == NewPid(k, i)
           k1  == [m EXCEPT !.pid[i] = pid]
           k2  == [k1 EXCEPT !.state[i] = "READY"]
           k3  == ready(k2, i)
           a   == [k1 EXCEPT !.ret[p] = -1]
           b   == [k3 EXCEPT !.ret[p] = Code(pid)]
<1>1. create(k, p, i, allocated) \in {a, b}
  BY DEF create
<1>2. m \in KernelType /\ Calls3(k, m) /\ pid \in Pids /\ p \in Slots /\ i \in Slots
  BY NewPidNamesSlot, remove_Keeps, remove_Calls, Constants
<1> HIDE DEF m, pid
<1>3. k1 \in KernelType /\ Calls3(k, k1)
  BY <1>2 DEF KernelType, Calls3
<1> HIDE DEF k1
<1>4. k2 \in KernelType /\ k2.state = [k.state EXCEPT ![i] = "READY"] /\ k2.ret = k.ret
  BY <1>2, <1>3 DEF KernelType, States, Calls3
<1> HIDE DEF k2
<1>5. /\ k3 \in KernelType /\ k3.ret = k.ret
      /\ k3.state \in {k2.state, [k2.state EXCEPT ![i] = "READY"]}
  BY <1>2, <1>4, ready_Keeps, ready_Calls
<1> HIDE DEF k3
<1>6. a.state = k.state /\ a.ret = [k.ret EXCEPT ![p] = -1]
  BY <1>3 DEF KernelType, Calls3
<1>7. b.state = k3.state /\ b.ret = [k3.ret EXCEPT ![p] = Code(pid)]
  BY <1>5 DEF KernelType
<1> HIDE DEF a, b
<1>8. k.state \in [Slots -> States] /\ k.ret \in [Slots -> Int]
  BY DEF KernelType
<1>9. \A s \in Slots : Reads(k, s) => s # p /\ s # i
  OBVIOUS
<1>10. Keeps(k, a) /\ Keeps(k, b)
  BY <1>4, <1>5, <1>6, <1>7, <1>8, <1>9 DEF Keeps, Reads
<1> QED BY <1>1, <1>10

(* A process that blocks did not wait before.                              *)
LEMMA Block_Reads ==
  ASSUME NEW k \in KernelType, NEW p \in Pcbs, ~Reads(k, p), NEW code \in Int
  PROVE  Keeps(k, Block(k, p, code))
<1> DEFINE r == Block(k, p, code)
<1>1. r.state = [k.state EXCEPT ![p] = "BLOCKED"] /\ r.ret = [k.ret EXCEPT ![p] = code]
  BY Block_Quiet
<1> HIDE DEF r
<1>2. \A s \in Slots \ {p} : r.state[s] = k.state[s] /\ r.ret[s] = k.ret[s]
  BY <1>1 DEF KernelType
<1>3. Keeps(k, r)
  BY <1>2, OneKeeps
<1> QED BY <1>3 DEF r

-----------------------------------------------------------------------------
(* Where idleproc blocks in nothing it is behind nobody on any list, and   *)
(* once it has left the ready queue, on which the boot put it, it is never *)
(* on one again.                                                           *)
Unlinked(k) ==
  /\ \A s \in Slots : k.next[s] # IDLE
  /\ k.que["blocked_q"] # IDLE /\ k.que["dead_q"] # IDLE /\ k.headsleeper # IDLE
  /\ k.pid[IDLE] = IDLE /\ k.state[IDLE] \in {"READY", "RUNNING"}

Freed(k, r) ==
  Unlinked(k) => Unlinked(r) /\ (r.que["head"] = IDLE => k.que["head"] = IDLE)

(* Over two steps.                                                         *)
LEMMA FreedTwice ==
  ASSUME NEW k, NEW m, NEW r, Freed(k, m), Freed(m, r) PROVE Freed(k, r)
BY DEF Freed

(* The fields that decide it.                                              *)
LEMMA SameFreed ==
  ASSUME NEW k, NEW r, r.next = k.next, r.que = k.que, r.headsleeper = k.headsleeper,
         r.pid = k.pid, r.state = k.state
  PROVE  Freed(k, r)
BY DEF Freed, Unlinked

(* A fault changes nothing else.                                           *)
LEMMA Fault_Freed ==
  ASSUME NEW k \in KernelType, NEW f PROVE Freed(k, Fault(k, f))
<1>1. /\ Fault(k, f).next = k.next /\ Fault(k, f).state = k.state /\ Fault(k, f).que = k.que
      /\ Fault(k, f).headsleeper = k.headsleeper /\ Fault(k, f).pid = k.pid
  BY DEF Fault, KernelType
<1> QED BY <1>1, SameFreed

(* A walk does not meet it.                                                *)
LEMMA NotMet ==
  ASSUME NEW k \in KernelType, Unlinked(k), NEW q, q # IDLE
  PROVE  /\ \A n \in 0 .. MAX_PROC : Chain(k.next, q)[n] # IDLE
         /\ IDLE \notin Members(k.next, q) /\ LastOf(k.next, q) # IDLE
<1> DEFINE C == Chain(k.next, q)
<1>1. C[0] = q /\ \A n \in 1 .. MAX_PROC : C[n] = Step(k.next, C[n - 1])
  BY ChainIs
<1>2. \A s : Step(k.next, s) # IDLE
  BY Constants DEF Step, Unlinked, NULL, IDLE
<1> HIDE DEF C
<1>3. \A n \in 0 .. MAX_PROC : C[n] # IDLE
  <2> TAKE n \in 0 .. MAX_PROC
  <2>1. n = 0 \/ n \in 1 .. MAX_PROC
    BY Constants
  <2> QED BY <1>1, <1>2, <2>1
<1>4. IDLE \notin Members(k.next, q)
  BY <1>3 DEF Members, C
<1>5. LastOf(k.next, q) # IDLE
  BY <1>4 DEF LastOf, NULL, IDLE
<1> QED BY <1>3, <1>4, <1>5 DEF C

(* remove() and append().                                                  *)
LEMMA remove_Freed ==
  ASSUME NEW k \in KernelType, NEW q \in {"blocked_q", "dead_q"}, NEW pid
  PROVE  Freed(k, remove(k, q, pid))
<1> SUFFICES ASSUME Unlinked(k)
             PROVE  Freed(k, remove(k, q, pid))
  BY DEF Freed
<1> DEFINE from  == k.que[q]
           found == {s \in Members(k.next, from) : k.pid[s] = pid}
           s     == CHOOSE x \in found : TRUE
           e     == [k EXCEPT !.que[q] = k.next[s], !.next[s] = NULL]
           l     == LastOf(k.next, from)
           d     == [k EXCEPT !.que[q] = l]
<1>1. \/ remove(k, q, pid) \in {k, Fault(k, "loop"), d}
      \/ found # {} /\ remove(k, q, pid) = e
  BY DEF remove, QNames
<1>2. from # IDLE /\ l # IDLE
  <2>1. from # IDLE
    BY DEF Unlinked
  <2> HIDE DEF from
  <2> QED BY <2>1, NotMet
<1>3. found # {} => s \in Slots
  BY MembersArePcbs, Constants
<1> HIDE DEF s, l, from, found
<1>4. found # {} =>
        /\ e.next = [k.next EXCEPT ![s] = NULL] /\ e.que = [k.que EXCEPT ![q] = k.next[s]]
        /\ e.headsleeper = k.headsleeper /\ e.pid = k.pid /\ e.state = k.state
  BY DEF KernelType
<1>5. /\ d.next = k.next /\ d.que = [k.que EXCEPT ![q] = l]
      /\ d.headsleeper = k.headsleeper /\ d.pid = k.pid /\ d.state = k.state
  BY DEF KernelType
<1> HIDE DEF e, d
<1>6. k.que \in [QNames -> Ptr] /\ k.next \in [Slots -> Ptr] /\ NULL # IDLE
  BY DEF KernelType, NULL, IDLE
<1>7. found # {} => Freed(k, e)
  BY <1>3, <1>4, <1>6 DEF Freed, Unlinked, QNames
<1>8. Freed(k, d)
  BY <1>2, <1>5, <1>6 DEF Freed, Unlinked, QNames
<1> QED BY <1>1, <1>7, <1>8, Fault_Freed DEF Freed

(* append() links the pcb at the end of its list.                          *)
LEMMA append_Freed ==
  ASSUME NEW k \in KernelType, NEW q \in {"blocked_q", "dead_q"}, NEW p, p # IDLE
  PROVE  Freed(k, append(k, q, p))
<1> DEFINE next == [k.next EXCEPT ![p] = NULL]
           last == LastOf(next, k.que[q])
           a    == [k EXCEPT !.next = next, !.que[q] = p]
           b    == [k EXCEPT !.next = next]
           c    == [k EXCEPT !.next = [next EXCEPT ![last] = p]]
<1>1. append(k, q, p) \in {a, b, c, Fault(k, "loop")}
  BY DEF append
<1>2. /\ k.que \in [QNames -> Ptr] /\ next \in [Slots -> Ptr] /\ NULL # IDLE
      /\ \A s \in Slots : k.next[s] # IDLE => next[s] # IDLE
  <2>1. NULL # IDLE /\ NULL \in Ptr
    BY DEF NULL, IDLE, Ptr
  <2>2. k.que \in [QNames -> Ptr] /\ k.next \in [Slots -> Ptr]
    BY DEF KernelType
  <2> QED BY <2>1, <2>2
<1> HIDE DEF next, last
<1>3. /\ \A x \in {a, b, c} : /\ x.headsleeper = k.headsleeper /\ x.pid = k.pid
                              /\ x.state = k.state
      /\ a.next = next /\ a.que = [k.que EXCEPT ![q] = p]
      /\ b.next = next /\ b.que = k.que
      /\ c.next = [next EXCEPT ![last] = p] /\ c.que = k.que
  BY DEF KernelType
<1> HIDE DEF a, b, c
<1>4. Freed(k, a) /\ Freed(k, b) /\ Freed(k, c)
  BY <1>2, <1>3 DEF Freed, Unlinked, QNames
<1> QED BY <1>1, <1>4, Fault_Freed

(* ready() puts anybody else on the ready queue, but not idleproc.         *)
LEMMA ready_Freed ==
  ASSUME NEW k \in KernelType, NEW p \in Slots PROVE Freed(k, ready(k, p))
<1> SUFFICES ASSUME Unlinked(k) PROVE Freed(k, ready(k, p))
  BY DEF Freed
<1> DEFINE r == [k EXCEPT !.next[p] = NULL, !.state[p] = "READY"]
           a == [r EXCEPT !.next[k.tail] = p, !.tail = p]
           b == [r EXCEPT !.que["head"] = p, !.tail = p]
<1>1. \/ ready(k, p) \in {Fault(k, "kassert"), r}
      \/ p # IDLE /\ ready(k, p) \in {a, b}
  BY DEF ready, Unlinked
<1> DEFINE next == [k.next EXCEPT ![p] = NULL]
           state == [k.state EXCEPT ![p] = "READY"]
<1>2. /\ \A x \in {r, a, b} : /\ x.headsleeper = k.headsleeper /\ x.pid = k.pid
                              /\ x.state = state
      /\ r.next = next /\ r.que = k.que
      /\ a.next = [next EXCEPT ![k.tail] = p] /\ a.que = k.que
      /\ b.next = next /\ b.que = [k.que EXCEPT !["head"] = p]
  BY DEF KernelType
<1>3. /\ k.que \in [QNames -> Ptr] /\ next \in [Slots -> Ptr]
      /\ \A s \in Slots : next[s] # IDLE
      /\ state[IDLE] \in {"READY", "RUNNING"}
  BY DEF KernelType, NULL, IDLE, Ptr, Unlinked
<1> HIDE DEF r, a, b, next, state
<1>4. Freed(k, r)
  BY <1>2, <1>3 DEF Freed, Unlinked
<1>5. p # IDLE => Freed(k, a) /\ Freed(k, b)
  BY <1>2, <1>3 DEF Freed, Unlinked, QNames
<1> QED BY <1>1, <1>4, <1>5, Fault_Freed

(* dispatch() takes it off, if it was there.                               *)
LEMMA Run_Freed ==
  ASSUME NEW k \in KernelType, NEW p PROVE Freed(k, Run(k, p))
<1> DEFINE r == Run(k, p)
<1>1. /\ r.next = k.next /\ r.state = [k.state EXCEPT ![p] = "RUNNING"] /\ r.pid = k.pid
      /\ r.que = [k.que EXCEPT !["running"] = p] /\ r.headsleeper = k.headsleeper
      /\ k.que \in [QNames -> Ptr] /\ k.state \in [Slots -> States] /\ IDLE \in Slots
  BY Constants DEF Run, KernelType
<1> HIDE DEF r
<1>2. Freed(k, r)
  BY <1>1 DEF Freed, Unlinked, QNames
<1> QED BY <1>2 DEF r

(* next() takes the head off the ready queue.                              *)
LEMMA Pop_Freed ==
  ASSUME NEW k \in KernelType, Unlinked(k), k.que["head"] \in Pcbs
  PROVE  Unlinked(Pop(k)) /\ Pop(k).que["head"] # IDLE
<1> DEFINE r == Pop(k)
           p == k.que["head"]
<1>1. /\ r.next = [k.next EXCEPT ![p] = NULL] /\ r.state = k.state /\ r.pid = k.pid
      /\ r.que = [k.que EXCEPT !["head"] = k.next[p]] /\ r.headsleeper = k.headsleeper
      /\ k.que \in [QNames -> Ptr] /\ k.next \in [Slots -> Ptr] /\ IDLE \in Slots
  BY Constants DEF Pop, KernelType
<1>2. p \in Slots /\ NULL # IDLE
  BY Constants DEF NULL, IDLE
<1> HIDE DEF r, p
<1>3. Unlinked(r) /\ r.que["head"] # IDLE
  BY <1>1, <1>2 DEF Unlinked, QNames
<1> QED BY <1>3 DEF r

(* dispatch() makes idleproc run, or puts nothing before it.               *)
LEMMA Dispatch_Freed ==
  ASSUME NEW k \in KernelType, Unlinked(k), Dispatch(k).fault = "none"
  PROVE  Unlinked(Dispatch(k)) /\ Dispatch(k).que["head"] # IDLE
<1> DEFINE h     == k.que["head"]
           r     == k.que["running"]
           m     == Pop(k)
           s     == m.que["head"]
           idles == [m EXCEPT !.state[r] = "READY"]
           Off(x) == x \in KernelType /\ Unlinked(x) /\ x.que["head"] # IDLE
<1>1. h = NULL \/ h \in Pcbs
  BY DEF KernelType, QNames, Ptr
<1>2. \/ h = NULL /\ Dispatch(k) = Run(k, IDLE)
      \/ Dispatch(k) = Fault(k, "kassert")
      \/ h \in Pcbs /\ Dispatch(k) \in {Run(m, h), Run(idles, h)}
      \/ h \in Pcbs /\ s # NULL /\ Dispatch(k) = Run(Pop(m), s)
  BY <1>1, Zenon DEF Dispatch
<1>3. ASSUME NEW x, NEW p, Off(x) PROVE Unlinked(Run(x, p)) /\ Run(x, p).que["head"] # IDLE
  BY <1>3, Run_Freed DEF Freed
<1>4. h = NULL => Off(k)
  BY DEF NULL, IDLE
<1>5. h \in Pcbs => Off(m)
  BY Pop_Keeps, Pop_Freed
<1>6. ASSUME Off(m) PROVE Off(idles)
  <2> HIDE DEF m
  <2> DEFINE x == [m EXCEPT !.state[r] = "READY"]
  <2>1. /\ x.next = m.next /\ x.state = [m.state EXCEPT ![r] = "READY"] /\ x.pid = m.pid
        /\ x.que = m.que /\ x.headsleeper = m.headsleeper /\ x \in KernelType
        /\ m.state \in [Slots -> States] /\ IDLE \in Slots
    BY <1>6, Constants DEF KernelType, States
  <2> HIDE DEF x
  <2>2. Off(x)
    BY <1>6, <2>1 DEF Unlinked
  <2> QED BY <2>2 DEF x
<1>7. ASSUME Off(m), s # NULL PROVE Off(Pop(m))
  <2>1. s \in Pcbs
    BY <1>7 DEF KernelType, QNames, Ptr
  <2> QED BY <1>7, <2>1, Pop_Keeps, Pop_Freed
<1>8. ASSUME Dispatch(k) = Fault(k, "kassert") PROVE FALSE
  BY <1>8 DEF Fault, KernelType
<1> HIDE DEF h, m, s, idles, Off
<1> QED BY <1>2, <1>3, <1>4, <1>5, <1>6, <1>7, <1>8
(* What is written of another process does not matter.                     *)
LEMMA FieldsFreed ==
  ASSUME NEW k, NEW r, r.next = k.next, r.que = k.que, r.headsleeper = k.headsleeper,
         r.pid[IDLE] = k.pid[IDLE], r.state[IDLE] = k.state[IDLE]
  PROVE  Freed(k, r)
BY DEF Freed, Unlinked

(* notify_waiters() makes ready a process it met.                          *)
LEMMA notify_waiters_Freed ==
  ASSUME NEW k \in KernelType, NEW pid PROVE Freed(k, notify_waiters(k, pid, {}))
<1> SUFFICES ASSUME Unlinked(k) PROVE Freed(k, notify_waiters(k, pid, {}))
  BY DEF Freed
<1> DEFINE at   == Chain(k.next, k.que["blocked_q"])
           hits == {n \in 0 .. MAX_PROC :
                      at[n] \in Pcbs /\ WaitsOn(k, at[n], pid, n = 0, {})}
           n    == CHOOSE i \in hits : \A j \in hits : i <= j
           q    == at[n]
           k1   == IF n = 0 THEN k ELSE [k EXCEPT !.next[at[n - 1]] = k.next[q]]
           k2   == [k1 EXCEPT !.ret[q] = BAD_PID]
<1>1. /\ hits = {} => notify_waiters(k, pid, {}) \in {k, Fault(k, "loop")}
      /\ hits # {} => notify_waiters(k, pid, {}) \in {Fault(k, "loop"), ready(k2, q)}
  <2>1. CASE hits = {}
    BY <2>1 DEF notify_waiters
  <2>2. CASE hits # {}
    BY <2>2 DEF notify_waiters
  <2> QED BY <2>1, <2>2
<1>2. Freed(k, k) /\ Freed(k, Fault(k, "loop"))
  BY Fault_Freed DEF Freed
<1>3. ASSUME hits # {} PROVE Freed(k, ready(k2, q))
  <2>1. n \in hits
    <3>1. hits \subseteq Nat
      OBVIOUS
    <3> HIDE DEF hits
    <3> QED BY <1>3, <3>1, HasMinimum
  <2>2. q \in Pcbs /\ q \in Slots /\ k.next[q] \in Ptr /\ k.next[q] # IDLE
    BY <2>1, Constants DEF KernelType, Unlinked
  <2>3. k1 \in KernelType /\ Freed(k, k1)
    <3> DEFINE e == [k EXCEPT !.next[at[n - 1]] = k.next[q]]
    <3>1. k1 \in {k, e}
      OBVIOUS
    <3> HIDE DEF at, n, q, k1
    <3>2. e \in KernelType
      BY <2>2 DEF KernelType
    <3>3. /\ e.next = [k.next EXCEPT ![at[n - 1]] = k.next[q]] /\ e.que = k.que
          /\ e.headsleeper = k.headsleeper /\ e.pid = k.pid /\ e.state = k.state
          /\ k.next \in [Slots -> Ptr]
      BY DEF KernelType
    <3> HIDE DEF e
    <3>4. Freed(k, e)
      BY <2>2, <3>3 DEF Freed, Unlinked
    <3> QED BY <1>2, <3>1, <3>2, <3>4
  <2> HIDE DEF k1, q
  <2>4. k2 \in KernelType /\ Freed(k1, k2)
    <3>1. BAD_PID \in Int
      BY DEF BAD_PID
    <3>2. /\ k2 \in KernelType /\ k2.next = k1.next /\ k2.que = k1.que
          /\ k2.headsleeper = k1.headsleeper /\ k2.pid = k1.pid /\ k2.state = k1.state
      BY <2>2, <2>3, <3>1 DEF KernelType
    <3> QED BY <3>2, SameFreed
  <2> HIDE DEF k2
  <2>5. Freed(k2, ready(k2, q))
    BY <2>2, <2>4, ready_Freed
  <2> QED BY <2>3, <2>4, <2>5, FreedTwice
<1> HIDE DEF hits, k2, q
<1> QED BY <1>1, <1>2, <1>3

(* sleep() puts somebody else among the sleepers.                          *)
LEMMA sleep_Freed ==
  ASSUME NEW k \in KernelType, NEW p \in Slots, p # IDLE, NEW ms
  PROVE  Freed(k, sleep(k, p, ms))
<1> SUFFICES ASSUME Unlinked(k) PROVE Freed(k, sleep(k, p, ms))
  BY DEF Freed
<1> DEFINE t    == milliseconds_to_ticks(ms)
           k1   == [k EXCEPT !.next[p] = NULL, !.state[p] = "SLEEP", !.sleepticks[p] = t]
           h    == k.headsleeper
           at   == Chain(k1.next, h)
           acc  == Accumulated(k1, at)
           n    == CHOOSE i \in 1 .. MAX_PROC :
                       /\ at[i] = NULL \/ acc[i] >= t
                       /\ \A j \in 1 .. i - 1 : at[j] # NULL /\ acc[j] < t
           prev == at[n - 1]
           succ == Step(k1.next, prev)
           rest == Minus(t, acc[n - 1])
           further == [k1 EXCEPT !.next = Between(@, prev, p, succ),
                                 !.sleepticks = Shorten([@ EXCEPT ![p] = rest], succ, rest)]
           first   == [k1 EXCEPT !.next[p] = h, !.headsleeper = p,
                                 !.sleepticks = Shorten(@, h, t)]
<1>1. sleep(k, p, ms) \in {Fault(k, "loop"), further, first}
  BY DEF sleep
<1>2. h # IDLE /\ NULL # IDLE /\ IDLE \in Slots
  BY Constants DEF Unlinked, NULL, IDLE
<1>3. /\ k1.next = [k.next EXCEPT ![p] = NULL] /\ k1.que = k.que
      /\ k1.headsleeper = k.headsleeper /\ k1.pid = k.pid
      /\ k1.state = [k.state EXCEPT ![p] = "SLEEP"]
      /\ k.next \in [Slots -> Ptr] /\ k.state \in [Slots -> States]
  BY DEF KernelType
<1> HIDE DEF t, h, at, acc, n, prev, rest
<1>4. succ # IDLE
  <2> HIDE DEF k1
  <2> QED BY <1>2, <1>3, Constants DEF Step, Unlinked
<1> HIDE DEF succ
<1>5. /\ further.next = [[k1.next EXCEPT ![p] = succ] EXCEPT ![prev] = p]
      /\ further.que = k.que /\ further.headsleeper = k.headsleeper /\ further.pid = k.pid
      /\ further.state = k1.state
  BY DEF KernelType, Between
<1>6. /\ first.next = [k1.next EXCEPT ![p] = h] /\ first.que = k.que /\ first.headsleeper = p
      /\ first.pid = k.pid /\ first.state = k1.state
  BY DEF KernelType
<1> HIDE DEF k1, further, first
<1>7. Freed(k, further)
  BY <1>2, <1>3, <1>4, <1>5 DEF Freed, Unlinked
<1>8. Freed(k, first)
  BY <1>2, <1>3, <1>6 DEF Freed, Unlinked
<1> QED BY <1>1, <1>7, <1>8, Fault_Freed

(* tick() wakes others.                                                    *)
LEMMA tick_Freed ==
  ASSUME NEW k \in KernelType PROVE Freed(k, tick(k))
<1>1. ASSUME k.headsleeper # NULL PROVE Freed(k, wake(k))
  <2> SUFFICES ASSUME Unlinked(k) PROVE Freed(k, wake(k))
    BY DEF Freed
  <2> DEFINE w     == wake(k)
             at    == Chain(k.next, k.headsleeper)
             due   == DueCount(k, at)
             woken == {at[i] : i \in 0 .. due - 1}
             last  == at[due - 1]
             state == [s \in Slots |-> IF s \in woken THEN "READY" ELSE k.state[s]]
             next  == [s \in Slots |-> IF s = last THEN NULL
                                       ELSE IF s = k.tail THEN k.headsleeper ELSE k.next[s]]
  <2>1. last \in woken
    <3>1. due \in 1 .. MAX_PROC
      BY DueCountInRange
    <3> HIDE DEF due, at
    <3> QED BY <3>1
  <2>2. \/ w = Fault(k, "alias")
        \/ /\ \A s \in woken : s \in Pcbs /\ k.state[s] = "SLEEP"
           /\ w.state = state /\ w.next = next /\ w.headsleeper = k.next[last] /\ w.pid = k.pid
           /\ w.que = [k.que EXCEPT !["head"] = IF k.tail = NULL THEN k.headsleeper ELSE @]
    <3>1. CASE \E s \in woken : s \notin Pcbs \/ k.state[s] # "SLEEP"
      BY <3>1 DEF wake
    <3>2. CASE ~\E s \in woken : s \notin Pcbs \/ k.state[s] # "SLEEP"
      BY <3>2 DEF wake, KernelType
    <3> QED BY <3>1, <3>2
  <2> HIDE DEF w, woken, last
  <2>3. ASSUME /\ \A s \in woken : s \in Pcbs /\ k.state[s] = "SLEEP"
               /\ w.state = state /\ w.next = next /\ w.headsleeper = k.next[last] /\ w.pid = k.pid
               /\ w.que = [k.que EXCEPT !["head"] = IF k.tail = NULL THEN k.headsleeper ELSE @]
        PROVE Freed(k, w)
    <3>1. IDLE \notin woken /\ IDLE \in Slots /\ NULL # IDLE /\ last \in Slots
      BY <2>1, <2>3, Constants DEF Unlinked, NULL, IDLE
    <3>2. \A s \in Slots : next[s] # IDLE
      BY <3>1 DEF Unlinked
    <3>3. state[IDLE] = k.state[IDLE] /\ k.next[last] # IDLE
      BY <3>1 DEF Unlinked
    <3> HIDE DEF state, next
    <3> QED BY <2>3, <3>1, <3>2, <3>3 DEF Freed, Unlinked, KernelType, QNames
  <2>4. Freed(k, w)
    BY <2>2, <2>3, Fault_Freed
  <2> QED BY <2>4 DEF w
<1>2. ASSUME NEW m \in KernelType PROVE Freed(m, CountDown(m))
  BY SameFreed DEF CountDown, KernelType, Freed
<1>3. CASE k.headsleeper = NULL
  BY <1>3 DEF tick, Freed
<1>4. CASE k.headsleeper # NULL
  <2> DEFINE m == IF k.sleepticks[k.headsleeper] <= 1 THEN wake(k) ELSE k
  <2>1. m \in KernelType
    BY <1>4, wake_Keeps DEF KernelType, Ptr
  <2>2. Freed(k, m)
    BY <1>1, <1>4 DEF Freed
  <2>3. tick(k) = CountDown(m)
    BY <1>4 DEF tick
  <2> HIDE DEF m
  <2> QED BY <1>2, <2>1, <2>2, <2>3, FreedTwice
<1> QED BY <1>3, <1>4
(* create() takes a slot that is stopped, which is not its.                *)
LEMMA create_Freed ==
  ASSUME NEW k \in KernelType, PidsNameSlots(k), NEW p \in Pcbs, NEW i \in Pcbs, i # IDLE,
         NEW allocated \in BOOLEAN
  PROVE  Freed(k, create(k, p, i, allocated))
<1> DEFINE m   == remove(k, "dead_q", i)
           pid == NewPid(k, i)
           k1  == [m EXCEPT !.pid[i] = pid]
           k2  == [k1 EXCEPT !.state[i] = "READY"]
           k3  == ready(k2, i)
           a   == [k1 EXCEPT !.ret[p] = -1]
           b   == [k3 EXCEPT !.ret[p] = Code(pid)]
<1>1. create(k, p, i, allocated) \in {a, b}
  BY DEF create
<1>2. m \in KernelType /\ Freed(k, m) /\ pid \in Pids /\ p \in Slots /\ i \in Slots
  BY NewPidNamesSlot, remove_Keeps, remove_Freed, Constants
<1> HIDE DEF m, pid
<1>3. k1 \in KernelType /\ Freed(m, k1)
  <2>1. k1 \in KernelType
    BY <1>2 DEF KernelType
  <2>2. /\ k1.next = m.next /\ k1.que = m.que /\ k1.headsleeper = m.headsleeper
        /\ k1.pid[IDLE] = m.pid[IDLE] /\ k1.state[IDLE] = m.state[IDLE]
    BY <1>2 DEF KernelType
  <2> HIDE DEF k1
  <2> QED BY <2>1, <2>2, FieldsFreed
<1> HIDE DEF k1
<1>4. k2 \in KernelType /\ Freed(k1, k2)
  <2>1. k2 \in KernelType
    BY <1>2, <1>3 DEF KernelType, States
  <2>2. /\ k2.next = k1.next /\ k2.que = k1.que /\ k2.headsleeper = k1.headsleeper
        /\ k2.pid[IDLE] = k1.pid[IDLE] /\ k2.state[IDLE] = k1.state[IDLE]
    BY <1>3 DEF KernelType
  <2> HIDE DEF k2
  <2> QED BY <2>1, <2>2, FieldsFreed
<1> HIDE DEF k2
<1>5. k3 \in KernelType /\ Freed(k2, k3)
  BY <1>2, <1>4, ready_Keeps, ready_Freed
<1> HIDE DEF k3
<1>6. Freed(k1, a) /\ Freed(k3, b)
  <2>1. /\ a.next = k1.next /\ a.que = k1.que /\ a.headsleeper = k1.headsleeper
        /\ a.pid = k1.pid /\ a.state = k1.state
    BY <1>3 DEF KernelType
  <2>2. /\ b.next = k3.next /\ b.que = k3.que /\ b.headsleeper = k3.headsleeper
        /\ b.pid = k3.pid /\ b.state = k3.state
    BY <1>5 DEF KernelType
  <2> HIDE DEF a, b
  <2> QED BY <2>1, <2>2, SameFreed
<1> HIDE DEF a, b
<1>7. Freed(k, k1)
  BY <1>2, <1>3, FreedTwice
<1>8. Freed(k, a)
  BY <1>6, <1>7, FreedTwice
<1>9. Freed(k, b)
  BY <1>4, <1>5, <1>6, <1>7 DEF Freed
<1> QED BY <1>1, <1>8, <1>9

(* A process that blocks, and one that stops.                              *)
LEMMA Block_Freed ==
  ASSUME NEW k \in KernelType, NEW p \in Pcbs, p # IDLE, NEW code \in Int
  PROVE  Freed(k, Block(k, p, code))
<1> DEFINE m == [k EXCEPT !.state[p] = "BLOCKED", !.ret[p] = code]
<1>1. m \in KernelType
  BY DEF KernelType, States
<1>2. /\ m.next = k.next /\ m.que = k.que /\ m.headsleeper = k.headsleeper
      /\ m.pid[IDLE] = k.pid[IDLE] /\ m.state[IDLE] = k.state[IDLE]
  BY DEF KernelType
<1>3. Block(k, p, code) = append(m, "blocked_q", p)
  BY DEF Block
<1> HIDE DEF m
<1> QED BY <1>1, <1>2, <1>3, FieldsFreed, append_Freed, FreedTwice

(* SYS_STOP puts the process that runs on dead_q.                          *)
LEMMA Stopped_Freed ==
  ASSUME NEW k \in KernelType, NEW p \in Pcbs, p # IDLE PROVE Freed(k, Stopped(k, p))
<1> DEFINE m == [k EXCEPT !.state[p] = "STOPPED", !.next[p] = NULL]
<1>1. m \in KernelType
  BY DEF KernelType, States, Ptr
<1>2. /\ m.next = [k.next EXCEPT ![p] = NULL] /\ m.que = k.que /\ m.headsleeper = k.headsleeper
      /\ m.pid = k.pid /\ m.state[IDLE] = k.state[IDLE] /\ NULL # IDLE
      /\ k.next \in [Slots -> Ptr]
  BY DEF KernelType, NULL, IDLE
<1>3. Stopped(k, p) = append(m, "dead_q", p)
  BY DEF Stopped
<1> HIDE DEF m
<1>4. Freed(k, m)
  BY <1>2 DEF Freed, Unlinked
<1> QED BY <1>1, <1>3, <1>4, append_Freed, FreedTwice

(* signal() makes its target ready.                                        *)
LEMMA signal_Freed ==
  ASSUME NEW k \in KernelType, NEW t \in Slots, NEW n PROVE Freed(k, signal(k, t, n))
<1> DEFINE w == ready(k, t)
           a == [w EXCEPT !.ret[t] = IF @ = SYS_SIGWAIT THEN n ELSE EINTR]
           b == [w EXCEPT !.ret[t] = k.sleepticks[t]]
<1>1. signal(k, t, n) \in {k, a, b}
  BY DEF signal
<1>2. Freed(k, w) /\ w \in KernelType
  BY ready_Freed, ready_Keeps
<1> HIDE DEF w
<1>3. Freed(w, a) /\ Freed(w, b)
  <2>1. \A x \in {a, b} : /\ x.next = w.next /\ x.que = w.que /\ x.headsleeper = w.headsleeper
                          /\ x.pid = w.pid /\ x.state = w.state
    BY <1>2 DEF KernelType
  <2> HIDE DEF a, b
  <2> QED BY <2>1, SameFreed
<1> HIDE DEF a, b
<1>4. Freed(k, a) /\ Freed(k, b) /\ Freed(k, k)
  BY <1>2, <1>3 DEF Freed
<1> QED BY <1>1, <1>4

(* The driver's notify() makes root ready.                                 *)
LEMMA notify_Freed ==
  ASSUME NEW k \in KernelType, NEW d, d.reader \in Slots, d.applbufidx \in Int
  PROVE  Freed(k, notify(k, d)[1])
<1> DEFINE m == remove(k, "blocked_q", k.pid[d.reader])
           r == [m EXCEPT !.ret[d.reader] = d.applbufidx]
<1>1. m \in KernelType /\ Freed(k, m)
  BY remove_Keeps, remove_Freed
<1>2. notify(k, d)[1] = ready(r, d.reader)
  BY DEF notify
<1> HIDE DEF m
<1>3. r \in KernelType /\ Freed(m, r)
  <2>1. /\ r \in KernelType /\ r.next = m.next /\ r.que = m.que
        /\ r.headsleeper = m.headsleeper /\ r.pid = m.pid /\ r.state = m.state
    BY <1>1 DEF KernelType
  <2> HIDE DEF r
  <2> QED BY <2>1, SameFreed
<1> HIDE DEF r
<1>4. Freed(r, ready(r, d.reader))
  BY <1>3, ready_Freed
<1>5. Freed(k, r)
  BY <1>1, <1>3, FreedTwice
<1> QED BY <1>2, <1>4, <1>5, FreedTwice

-----------------------------------------------------------------------------
(* While idleproc blocks in nothing: it is first of the ready queue at     *)
(* most until root gives the CPU up for the first time, and whoever has    *)
(* the CPU after that leaves root in the read it waits in.                 *)
Idles == Unlinked(kern) /\ (Running = ROOT \/ kern.que["head"] # IDLE)

Freely == Idles => Idles' /\ (Running # ROOT => Keeps(kern, kern'))

Leaves(k) ==
  k.fault = "none" /\ Idles =>
    /\ Unlinked(k) /\ (k.que["running"] = ROOT \/ k.que["head"] # IDLE)
    /\ Running # ROOT => Keeps(kern, k)

(* What is kept of the memory when the request ends in no fault.           *)
LEMMA ServeFreely == ASSUME Inv, NEW k, Serve(k), Leaves(k) PROVE Freely
<1>1. CASE k.fault = "none"
  BY <1>1 DEF Serve, Leaves, Freely, Idles, Running
<1>2. CASE k.fault # "none"
  <2>1. /\ kern'.next = kern.next /\ kern'.que = kern.que /\ kern'.headsleeper = kern.headsleeper
        /\ kern'.pid = kern.pid /\ kern'.state = kern.state /\ kern'.ret = kern.ret
    BY <1>2, RunningIs DEF Serve, KernelType
  <2>2. Keeps(kern, kern')
    BY <2>1 DEF Keeps, Reads
  <2> QED BY <2>1, <2>2 DEF Freely, Idles, Running, Unlinked
<1> QED BY <1>1, <1>2

(* A request after which the caller goes on.                               *)
LEMMA StayLeaves ==
  ASSUME NEW k, Freed(kern, k), k.fault = "none" => k.que["running"] = Running,
         k.fault = "none" /\ Running # ROOT => Keeps(kern, k)
  PROVE  Leaves(k)
BY DEF Leaves, Idles, Freed

(* One after which next() decides.                                         *)
LEMMA DispatchLeaves ==
  ASSUME Inv, RootReads(kern), NEW m, Gave(kern, Running, m), Freed(kern, m),
         m.fault = "none" /\ Running # ROOT => Quiet(kern, m) /\ Keeps(kern, m)
  PROVE  Leaves(Dispatch(m))
<1> SUFFICES ASSUME Dispatch(m).fault = "none", Idles
             PROVE  /\ Unlinked(Dispatch(m)) /\ Dispatch(m).que["head"] # IDLE
                    /\ Running # ROOT => Keeps(kern, Dispatch(m))
  BY DEF Leaves
<1>1. m \in KernelType /\ m.fault = "none" /\ PidsNameSlots(m)
  <2>1. m \in KernelType /\ (m.fault = "none" => Runners(m) = {})
    <3>1. Runners(kern) \subseteq {Running}
      BY RunningIsPcb DEF OneRuns, Runners, Running
    <3> QED BY <3>1 DEF Gave
  <2>2. m.fault = "none"
    BY <2>1, Dispatch_Gives
  <2>3. m.pid = kern.pid
    BY <2>2 DEF Gave
  <2>4. PidsNameSlots(kern)
    BY InvIs
  <2> QED BY <2>1, <2>2, <2>3, <2>4 DEF PidsNameSlots
<1>2. Unlinked(m)
  BY DEF Idles, Freed
<1>3. Unlinked(Dispatch(m)) /\ Dispatch(m).que["head"] # IDLE
  BY <1>1, <1>2, Dispatch_Freed
<1>4. ASSUME Running # ROOT PROVE Keeps(kern, Dispatch(m))
  <2>1. m.que["head"] # IDLE
    BY <1>4 DEF Idles, Freed
  <2>2. RootReads(m)
    BY <1>1, <1>4 DEF RootReads, Quiet, Reads
  <2>3. Keeps(m, Dispatch(m))
    BY <1>1, <2>1, <2>2, Dispatch_Reads
  <2> QED BY <1>1, <1>4, <2>3, KeepsTwice
<1> QED BY <1>3, <1>4

(* SYS_YIELD.                                                              *)
LEMMA YieldFreely == ASSUME Inv, RootReads(kern), Yield PROVE Freely
<1> DEFINE m == ready(kern, Running)
<1>1. Gave(kern, Running, m) /\ Freed(kern, m) /\ Quiet(kern, m)
  BY RunningIs, ready_Gives, ready_Freed, ready_Calls
<1>2. Keeps(kern, m)
  <2>1. ~Reads(kern, Running)
    BY RunningIs DEF Reads
  <2> QED BY <2>1, RunningIs, ready_Reads
<1>3. Serve(Dispatch(m))
  BY DEF Yield
<1> HIDE DEF m
<1> QED BY <1>1, <1>2, <1>3, DispatchLeaves, ServeFreely

(* SYS_STOP.                                                               *)
LEMMA StopFreely == ASSUME Inv, RootReads(kern), StopWith({}) PROVE Freely
<1> DEFINE k1 == [kern EXCEPT !.state[Running] = "STOPPED", !.next[Running] = NULL]
           k2 == append(k1, "dead_q", Running)
           k3 == notify_waiters(k2, kern.pid[Running], {})
<1>1. /\ kern \in KernelType /\ Running \in Pcbs /\ Running # IDLE
      /\ ~Reads(kern, Running)
  BY RunningIs DEF StopWith, UserRequest, Reads
<1>2. k1 \in KernelType
  BY <1>1 DEF KernelType, States, Ptr
<1>3. /\ k1.state = [kern.state EXCEPT ![Running] = "STOPPED"] /\ k1.que = kern.que
      /\ k1.fault = kern.fault /\ k1.pid = kern.pid /\ k1.ret = kern.ret /\ k1.call = kern.call
  BY <1>1 DEF KernelType
<1>4. Runners(kern) \subseteq {Running} => Runners(k1) = {}
  BY <1>1, <1>3 DEF Runners, KernelType
<1>5. Quiet(kern, k1) /\ Keeps(kern, k1)
  BY <1>1, <1>3 DEF Quiet, Keeps, Reads, KernelType
<1>6. k2 = Stopped(kern, Running)
  BY DEF Stopped
<1> HIDE DEF k1
<1>7. k2 \in KernelType /\ (k2.fault = "none" => Same(k1, k2)) /\ Calls3(k1, k2)
  BY <1>1, <1>2, append_Keeps, append_Calls DEF QNames
<1>8. Freed(kern, k2)
  BY <1>1, <1>6, Stopped_Freed
<1> HIDE DEF k2
<1>9. /\ k3 \in KernelType /\ Fewer(k2, k3) /\ Quiet(k2, k3) /\ Keeps(k2, k3) /\ Freed(k2, k3)
  BY <1>7, notify_waiters_Keeps, notify_waiters_Quiet, notify_waiters_Reads, notify_waiters_Freed
<1> HIDE DEF k3
<1>10. Gave(kern, Running, k3)
  BY <1>3, <1>4, <1>7, <1>9 DEF Gave, Fewer, Same, Runners
<1>11. Quiet(kern, k3) /\ Keeps(kern, k3) /\ Freed(kern, k3)
  BY <1>5, <1>7, <1>8, <1>9, SameQuiet, SameKeeps, QuietTwice, KeepsTwice, FreedTwice
<1>12. Serve(Dispatch(k3))
  BY <1>6 DEF StopWith, k3
<1> QED BY <1>10, <1>11, <1>12, DispatchLeaves, ServeFreely

(* SYS_SLEEP.                                                              *)
LEMMA NapFreely == ASSUME Inv, RootReads(kern), NEW ms \in Nat, Nap(ms) PROVE Freely
<1>1. /\ kern \in KernelType /\ Running \in Pcbs /\ Running \in Slots /\ Running # IDLE
      /\ ~Reads(kern, Running)
  BY RunningIs DEF Nap, UserRequest, Reads
<1>2. CASE kern.next[Running] # NULL
  <2> DEFINE f == Fault(kern, "kassert")
  <2>1. Serve(f) /\ f.fault # "none"
    BY <1>1, <1>2 DEF Nap, Fault, KernelType
  <2> HIDE DEF f
  <2> QED BY <2>1, ServeFreely DEF Leaves
<1>3. CASE kern.next[Running] = NULL
  <2> DEFINE m == sleep(kern, Running, ms)
  <2>1. /\ m \in KernelType /\ Fewer(kern, m)
        /\ m.fault = "none" => Runners(m) = Runners(kern) \ {Running}
    BY <1>1, sleep_Fewer
  <2>2. Quiet(kern, m) /\ Freed(kern, m) /\ (m.fault = "none" => Keeps(kern, m))
    BY <1>1, sleep_Quiet, sleep_Freed, sleep_Reads
  <2>3. Serve(Dispatch(m))
    BY <1>3 DEF Nap
  <2> HIDE DEF m
  <2>4. Gave(kern, Running, m)
    BY <2>1 DEF Gave, Fewer
  <2> QED BY <2>2, <2>3, <2>4, DispatchLeaves, ServeFreely
<1> QED BY <1>2, <1>3

(* SYS_TIMER.                                                              *)
LEMMA TimerFreely == ASSUME Inv, RootReads(kern), NEW eax \in Int, TimerAt(eax) PROVE Freely
<1> DEFINE k0 == [kern EXCEPT !.ret[Running] = eax]
           k1 == ready(k0, Running)
           k2 == Dispatch(k1)
           k3 == tick(k2)
<1>1. /\ kern \in KernelType /\ Running \in Pcbs /\ Running \in Slots
      /\ kern.state[Running] = "RUNNING"
  BY RunningIs
<1>2. k0 \in KernelType /\ Undisturbed(kern, k0)
  BY <1>1, SetRet
<1>3. /\ k0.state = kern.state /\ k0.call = kern.call /\ k0.ret = [kern.ret EXCEPT ![Running] = eax]
      /\ k0.next = kern.next /\ k0.que = kern.que /\ k0.headsleeper = kern.headsleeper
      /\ k0.pid = kern.pid
  BY <1>1 DEF KernelType
<1>4. Serve(k3)
  BY DEF TimerAt
<1> HIDE DEF k0
<1>5. /\ Quiet(kern, k0) /\ Keeps(kern, k0) /\ Freed(kern, k0)
      /\ ~Reads(kern, Running) /\ ~Reads(k0, Running)
  BY <1>1, <1>3, SameFreed DEF Quiet, Keeps, Reads, KernelType
<1>6. Gave(kern, Running, k1)
  BY <1>1, <1>2, ready_Gives, GaveAfter
<1>7. Quiet(k0, k1) /\ Keeps(k0, k1) /\ Freed(k0, k1)
  BY <1>1, <1>2, <1>5, ready_Calls, ready_Reads, ready_Freed
<1> HIDE DEF k1
<1>8. Quiet(kern, k1) /\ Keeps(kern, k1) /\ Freed(kern, k1)
  BY <1>5, <1>7, QuietTwice, KeepsTwice, FreedTwice
<1>9. Leaves(k2) /\ k2 \in KernelType
  BY <1>6, <1>8, DispatchLeaves, DispatchKeeps
<1> HIDE DEF k2
<1>10. Undisturbed(k2, k3) /\ Freed(k2, k3) /\ Keeps(k2, k3)
  BY <1>9, tick_Keeps, tick_Freed, tick_Reads
<1> HIDE DEF k3
<1>11. Leaves(k3)
  BY <1>9, <1>10, KeepsTwice DEF Leaves, Undisturbed, Freed
<1> QED BY <1>4, <1>11, ServeFreely

(* Who has the CPU keeps it in a create and in a signal.                   *)
LEMMA create_Runs ==
  ASSUME NEW k \in KernelType, PidsNameSlots(k), NEW p \in Pcbs, NEW i \in Pcbs,
         NEW allocated \in BOOLEAN
  PROVE  LET r == create(k, p, i, allocated)
         IN  r.fault = "none" => r.que["running"] = k.que["running"]
<1> DEFINE m   == remove(k, "dead_q", i)
           pid == NewPid(k, i)
           k1  == [m EXCEPT !.pid[i] = pid]
           k2  == [k1 EXCEPT !.state[i] = "READY"]
           k3  == ready(k2, i)
           a   == [k1 EXCEPT !.ret[p] = -1]
           b   == [k3 EXCEPT !.ret[p] = Code(pid)]
<1>1. create(k, p, i, allocated) \in {a, b}
  BY DEF create
<1>2. /\ m \in KernelType /\ pid \in Pids /\ i \in Slots
      /\ m.fault = "none" => m.que["running"] = k.que["running"]
  <2>1. m \in KernelType /\ (m.fault = "none" => m.que["running"] = k.que["running"])
    <3>1. m \in KernelType /\ (m.fault = "none" => Same(k, m))
      BY remove_Keeps
    <3> QED BY <3>1 DEF Same
  <2>2. pid \in Pids /\ i \in Slots
    BY NewPidNamesSlot, Constants
  <2> QED BY <2>1, <2>2
<1> HIDE DEF m, pid
<1>3. k1 \in KernelType /\ k1.que = m.que /\ k1.fault = m.fault
  BY <1>2 DEF KernelType
<1> HIDE DEF k1
<1>4. k2 \in KernelType /\ k2.que = k1.que /\ k2.fault = k1.fault
  BY <1>2, <1>3 DEF KernelType, States
<1> HIDE DEF k2
<1>5. /\ k3 \in KernelType
      /\ k3.fault = "none" => k2.fault = "none" /\ k3.que["running"] = k2.que["running"]
  BY <1>2, <1>4, ready_Keeps
<1> HIDE DEF k3
<1>6. a.que = k1.que /\ a.fault = k1.fault /\ b.que = k3.que /\ b.fault = k3.fault
  BY <1>3, <1>5 DEF KernelType
<1> HIDE DEF a, b
<1> QED BY <1>1, <1>2, <1>3, <1>4, <1>5, <1>6

(* signal() leaves the process that runs running.                          *)
LEMMA signal_Runs ==
  ASSUME NEW k \in KernelType, NEW t \in Slots, NEW n
  PROVE  LET r == signal(k, t, n)
         IN  r.fault = "none" => r.que["running"] = k.que["running"]
<1> DEFINE w == ready(k, t)
           a == [w EXCEPT !.ret[t] = IF @ = SYS_SIGWAIT THEN n ELSE EINTR]
           b == [w EXCEPT !.ret[t] = k.sleepticks[t]]
<1>1. signal(k, t, n) \in {k, a, b}
  BY DEF signal
<1>2. w \in KernelType /\ (w.fault = "none" => w.que["running"] = k.que["running"])
  BY ready_Keeps
<1> HIDE DEF w
<1>3. a.que = w.que /\ a.fault = w.fault /\ b.que = w.que /\ b.fault = w.fault
  BY <1>2 DEF KernelType
<1> HIDE DEF a, b
<1> QED BY <1>1, <1>2, <1>3

(* SYS_CREATE: the slot is not idleproc's, which is not stopped.           *)
LEMMA CreateFreely == ASSUME Inv, RootReads(kern), Create PROVE Freely
<1> SUFFICES ASSUME Idles PROVE Freely
  BY DEF Freely
<1>1. /\ kern \in KernelType /\ Running \in Pcbs /\ Running \in Slots
      /\ kern.state[Running] = "RUNNING" /\ ~Reads(kern, Running) /\ PidsNameSlots(kern)
      /\ OneRuns(kern)
  BY RunningIs, InvIs DEF Reads
<1>2. CASE FreeSlots(kern) = {}
  <2> DEFINE m == remove(kern, "dead_q", MAX_PROC)
             k == [m EXCEPT !.ret[Running] = -1]
  <2>1. /\ m \in KernelType /\ Calls3(kern, m) /\ Freed(kern, m)
        /\ m.fault = "none" => m.que["running"] = Running
    BY <1>1, remove_Keeps, remove_Calls, remove_Freed DEF Same, Running
  <2>2. Serve(k)
    BY <1>2 DEF Create
  <2> HIDE DEF m
  <2>3. /\ k.state = m.state /\ k.ret = [m.ret EXCEPT ![Running] = -1] /\ k.next = m.next
        /\ k.que = m.que /\ k.headsleeper = m.headsleeper /\ k.pid = m.pid /\ k.fault = m.fault
    BY <2>1 DEF KernelType
  <2> HIDE DEF k
  <2>4. Keeps(kern, k)
    BY <1>1, <2>1, <2>3 DEF Keeps, Reads, Calls3, KernelType
  <2>5. Freed(kern, k)
    BY <2>1, <2>3, SameFreed, FreedTwice
  <2> QED BY <2>1, <2>2, <2>3, <2>4, <2>5, StayLeaves, ServeFreely
<1>3. CASE FreeSlots(kern) # {}
  <2> DEFINE i == CHOOSE s \in FreeSlots(kern) : \A r \in FreeSlots(kern) : s <= r
  <2>1. FreeSlots(kern) \subseteq Pcbs /\ FreeSlots(kern) \subseteq Nat
    BY Constants DEF FreeSlots
  <2>2. i \in FreeSlots(kern)
    BY <1>3, <2>1, HasMinimum
  <2>3. PICK allocated \in {TRUE, ~AllocMayFail} : Serve(create(kern, Running, i, allocated))
    BY <1>3 DEF Create
  <2> HIDE DEF i
  <2>4. allocated \in BOOLEAN
    BY KernelAssumption
  <2>5. i \in Pcbs /\ i # IDLE /\ ~Reads(kern, i)
    BY <2>1, <2>2 DEF FreeSlots, Idles, Unlinked, Reads
  <2> DEFINE k == create(kern, Running, i, allocated)
  <2>6. Freed(kern, k) /\ Keeps(kern, k)
    BY <1>1, <2>4, <2>5, create_Freed, create_Reads
  <2>7. k.fault = "none" => k.que["running"] = Running
    BY <1>1, <2>4, <2>5, create_Runs DEF Running
  <2>8. Serve(k)
    BY <2>3
  <2> HIDE DEF k
  <2> QED BY <2>6, <2>7, <2>8, StayLeaves, ServeFreely
<1> QED BY <1>2, <1>3

(* A request that only returns.                                            *)
LEMMA ReturnsKeeps ==
  ASSUME Inv, NEW n
  PROVE  Keeps(kern, Returns(n)) /\ Freed(kern, Returns(n)) /\ Returns(n).que = kern.que
<1> DEFINE k == Returns(n)
<1>1. /\ kern \in KernelType /\ Running \in Slots /\ ~Reads(kern, Running)
  BY RunningIs DEF Reads
<1>2. /\ k.state = kern.state /\ k.ret = [kern.ret EXCEPT ![Running] = n] /\ k.next = kern.next
      /\ k.que = kern.que /\ k.headsleeper = kern.headsleeper /\ k.pid = kern.pid
  BY <1>1 DEF Returns, KernelType
<1> HIDE DEF k
<1>3. Keeps(kern, k)
  BY <1>1, <1>2 DEF Keeps, Reads, KernelType
<1>4. Freed(kern, k) /\ k.que = kern.que
  BY <1>2, SameFreed
<1> QED BY <1>3, <1>4 DEF k

(* A request that returns at once.                                         *)
LEMMA ReturnsFreely == ASSUME Inv, NEW n, Serve(Returns(n)) PROVE Freely
<1> DEFINE k == Returns(n)
<1>1. Keeps(kern, k) /\ Freed(kern, k) /\ k.que["running"] = Running
  BY ReturnsKeeps DEF Running
<1>2. Serve(k)
  OBVIOUS
<1> HIDE DEF k
<1> QED BY <1>1, <1>2, StayLeaves, ServeFreely

(* SYS_SIGWAIT: the caller is not idleproc.                                *)
LEMMA SigWaitFreely == ASSUME Inv, RootReads(kern), SigWait PROVE Freely
<1>1. CASE sig.allow[Running] = {}
  BY <1>1, ReturnsFreely DEF SigWait, ServeSig, Returns
<1>2. CASE sig.allow[Running] # {}
  <2> DEFINE b == Block(kern, Running, SYS_SIGWAIT)
  <2>1. Serve(Dispatch(b))
    BY <1>2 DEF SigWait, ServeSig
  <2>2. SYS_SIGWAIT \in Int /\ SYS_SIGWAIT # SYS_READ
    BY DEF SYS_SIGWAIT, SYS_READ
  <2>3. /\ kern \in KernelType /\ Running \in Pcbs /\ Running # IDLE /\ ~Reads(kern, Running)
    BY RunningIs DEF SigWait, SigRequest, Reads
  <2>4. Gave(kern, Running, b) /\ Quiet(kern, b) /\ Keeps(kern, b) /\ Freed(kern, b)
    BY <2>2, <2>3, Block_Gives, Block_Quiet, Block_Reads, Block_Freed
  <2> HIDE DEF b
  <2> QED BY <2>1, <2>4, DispatchLeaves, ServeFreely
<1> QED BY <1>1, <1>2

(* SYS_SIGHANDLER and SYS_SIGRETURN.                                       *)
LEMMA SigHandlerFreely == ASSUME Inv, NEW n, NEW h, SigHandler(n, h) PROVE Freely
BY ReturnsFreely DEF SigHandler, ServeSig, Returns

(* The end of a handler.                                                   *)
LEMMA SigReturnFreely == ASSUME Inv, SigReturn PROVE Freely
BY ReturnsFreely DEF SigReturn, ServeSig, Returns

(* SYS_SIGKILL lets a target that waits in a read go on, without a result. *)
Lets(k, r) ==
  \A s \in Slots : Reads(k, s) => Reads(r, s) \/ (r.state[s] # "BLOCKED" /\ r.ret[s] = EINTR)

(* signal() ends the read of the process it is for, with EINTR.            *)
LEMMA signal_Lets ==
  ASSUME NEW k \in KernelType, NEW t \in Slots, NEW n, signal(k, t, n).fault = "none"
  PROVE  Lets(k, signal(k, t, n))
<1> DEFINE w == ready(k, t)
           a == [w EXCEPT !.ret[t] = IF @ = SYS_SIGWAIT THEN n ELSE EINTR]
           b == [w EXCEPT !.ret[t] = k.sleepticks[t]]
           r == signal(k, t, n)
<1>1. \/ k.state[t] = "BLOCKED" /\ r = a
      \/ k.state[t] # "BLOCKED" /\ r \in {k, b}
  BY DEF signal
<1>2. /\ w \in KernelType /\ w.ret = k.ret
      /\ w.fault = "none" => w.state = [k.state EXCEPT ![t] = "READY"]
  BY ready_Keeps, ready_Calls
<1> HIDE DEF w
<1>3. /\ a.state = w.state /\ a.fault = w.fault
      /\ a.ret = [w.ret EXCEPT ![t] = IF @ = SYS_SIGWAIT THEN n ELSE EINTR]
      /\ b.state = w.state /\ b.fault = w.fault /\ b.ret = [w.ret EXCEPT ![t] = k.sleepticks[t]]
  BY <1>2 DEF KernelType
<1> HIDE DEF a, b, r
<1>4. r.fault = "none"
  BY DEF r
<1> k.state \in [Slots -> States] /\ k.ret \in [Slots -> Int] /\ t \in Slots
  BY DEF KernelType
<1> SUFFICES Lets(k, r)
  BY DEF r
<1>5. CASE k.state[t] = "BLOCKED" /\ r = a
  <2>1. r.state = [k.state EXCEPT ![t] = "READY"]
    BY <1>2, <1>3, <1>4, <1>5
  <2>2. r.ret = [k.ret EXCEPT ![t] = IF k.ret[t] = SYS_SIGWAIT THEN n ELSE EINTR]
    BY <1>2, <1>3, <1>5
  <2>3. SYS_READ # SYS_SIGWAIT
    BY DEF SYS_READ, SYS_SIGWAIT
  <2> HIDE DEF SYS_READ, SYS_SIGWAIT
  <2> QED BY <2>1, <2>2, <2>3 DEF Lets, Reads
<1>6. CASE k.state[t] # "BLOCKED" /\ r = b
  <2>1. /\ r.state = [k.state EXCEPT ![t] = "READY"]
        /\ r.ret = [k.ret EXCEPT ![t] = k.sleepticks[t]]
    BY <1>2, <1>3, <1>4, <1>6
  <2> QED BY <1>6, <2>1 DEF Lets, Reads
<1>7. CASE r = k
  BY <1>7 DEF Lets
<1> QED BY <1>1, <1>5, <1>6, <1>7

(* SYS_SIGKILL.                                                            *)
LEMMA SigKillFreely ==
  ASSUME Inv, SigTypeOK, NEW pid \in Nat, NEW n, SigKill(pid, n)
  PROVE  (Idles => Idles') /\ Lets(kern, kern')
<1>1. kern \in KernelType /\ Running \in Slots /\ ~Reads(kern, Running)
  BY RunningIs DEF Reads
<1>2. CASE ~validsignal(sig, pid, n)
  <2>1. Serve(Returns(INVALID_SIGNAL))
    BY <1>2 DEF SigKill, ServeSig, Returns
  <2> DEFINE k == Returns(INVALID_SIGNAL)
  <2>2. Freely /\ Serve(k)
    BY <2>1, ReturnsFreely
  <2>3. Keeps(kern, k)
    BY ReturnsKeeps
  <2> HIDE DEF k
  <2>4. Keeps(kern, kern')
    <3>1. CASE k.fault = "none"
      BY <2>2, <2>3, <3>1 DEF Serve
    <3>2. CASE k.fault # "none"
      <4>1. kern'.state = kern.state /\ kern'.ret = kern.ret
        BY <1>1, <2>2, <3>2 DEF Serve, KernelType
      <4> QED BY <4>1 DEF Keeps, Reads
    <3> QED BY <3>1, <3>2
  <2> QED BY <2>2, <2>4 DEF Freely, Keeps, Lets
<1>3. CASE validsignal(sig, pid, n)
  <2> DEFINE t == Slot(pid)
             m == signal(kern, t, n)
             k == [m EXCEPT !.ret[Running] = 0]
  <2>1. Serve(k) /\ t \in Slots
    BY <1>3, SlotInSlots DEF SigKill, ServeSig
  <2> HIDE DEF t
  <2>2. /\ Freed(kern, m) /\ (m.fault = "none" => Lets(kern, m))
        /\ m.fault = "none" => m.que["running"] = Running
    <3>1. Freed(kern, m)
      BY <1>1, <2>1, signal_Freed
    <3>2. m.fault = "none" => Lets(kern, m)
      BY <1>1, <2>1, signal_Lets
    <3>3. m.fault = "none" => m.que["running"] = Running
      BY <1>1, <2>1, signal_Runs DEF Running
    <3> QED BY <3>1, <3>2, <3>3
  <2>3. k.fault = m.fault /\ k.que = m.que /\ k.next = m.next /\ k.headsleeper = m.headsleeper
        /\ k.state = m.state /\ k.pid = m.pid /\ \A s \in Slots \ {Running} : k.ret[s] = m.ret[s]
    <3>1. m \in KernelType
      <4>1. n \in sig.allow[t] /\ sig \in SigType
        BY <1>3 DEF validsignal, SigTypeOK, t
      <4>2. n \in SigNos
        BY <2>1, <4>1, SigFields
      <4>3. n \in Int
        BY <4>2, SignalsAssumption DEF Bits
      <4> QED BY <1>1, <2>1, <4>3, signal_Quiet DEF m
    <3> HIDE DEF m
    <3> QED BY <3>1 DEF KernelType
  <2> HIDE DEF m, k
  <2>4. Freed(kern, k)
    BY <2>2, <2>3, SameFreed, FreedTwice
  <2>5. m.fault = "none" => Lets(kern, k)
    BY <1>1, <2>2, <2>3 DEF Lets, Reads
  <2>6. CASE k.fault = "none"
    <3>1. kern' = k
      BY <2>1, <2>6 DEF Serve
    <3> QED BY <2>2, <2>3, <2>4, <2>5, <2>6, <3>1 DEF Idles, Freed, Running
  <2>7. CASE k.fault # "none"
    <3>1. /\ kern'.next = kern.next /\ kern'.que = kern.que /\ kern'.headsleeper = kern.headsleeper
          /\ kern'.pid = kern.pid /\ kern'.state = kern.state /\ kern'.ret = kern.ret
      BY <1>1, <2>1, <2>7 DEF Serve, KernelType
    <3> QED BY <3>1 DEF Lets, Reads, Idles, Running, Unlinked
  <2> QED BY <2>6, <2>7
<1> QED BY <1>2, <1>3

(* The device requests: only root's read does not return at once.          *)
LEMMA DevReturnsFreely == ASSUME Inv, NEW n, NEW d, ServeDev(Returns(n), d) PROVE Freely
BY ReturnsFreely DEF ServeDev, ServeSig

(* SYS_READ: the caller blocks, and is root.                               *)
LEMMA ReadFreely ==
  ASSUME Inv, RootReads(kern), Running = ROOT, NEW f, NEW n, Read(f, n) PROVE Freely
<1>1. CASE ~validate_fd(dev, Running, f)
  <2>1. ServeDev(Returns(-1), dev)
    BY <1>1 DEF Read
  <2> QED BY <2>1, DevReturnsFreely
<1>2. CASE validate_fd(dev, Running, f) /\ dev.eof_received
  <2>1. ServeDev(Returns(0), kbd_read(dev, Running, n))
    BY <1>2 DEF Read
  <2> QED BY <2>1, DevReturnsFreely
<1>3. CASE validate_fd(dev, Running, f) /\ ~dev.eof_received
  <2> DEFINE b == Block(kern, Running, SYS_READ)
  <2>1. Serve(Dispatch(b))
    BY <1>3 DEF Read, ServeDev, ServeSig
  <2>2. SYS_READ \in Int /\ ROOT # IDLE
    BY DEF SYS_READ, ROOT, IDLE
  <2>3. /\ kern \in KernelType /\ Running \in Pcbs /\ Running # IDLE
    BY <2>2, RunningIs
  <2>4. Gave(kern, Running, b) /\ Freed(kern, b)
    BY <2>2, <2>3, Block_Gives, Block_Freed
  <2> HIDE DEF b
  <2> QED BY <2>1, <2>4, DispatchLeaves, ServeFreely
<1> QED BY <1>1, <1>2, <1>3

(* What a step does to idleproc and to the reader, if they are like that.  *)
Spares == Idles => Idles' /\ (Running # ROOT => Lets(kern, kern'))

(* The weaker of the two.                                                  *)
LEMMA FreelySpares == ASSUME Freely PROVE Spares
BY DEF Freely, Spares, Keeps, Lets

(* Who waits in a read is root, as the driver has it.                      *)
LEMMA ReadersAreRoot == ASSUME Served(kern, dev) PROVE RootReads(kern)
BY DEF Served, Attended, RootReads

(* The calls of the programs to the devices.                               *)
LEMMA DeviceCallsSpare ==
  ASSUME UserInv, UserBounds,
         UserOpens \/ UserReads \/ UserCloses \/ UserWrites \/ UserIoctls
  PROVE  Spares
<1>1. Inv /\ RootReads(kern) /\ ProgramsInv /\ MaxBuf >= 1
  BY ReadersAreRoot DEF UserInv, UserBounds, SigInv
<1>2. CASE UserOpens
  <2>1. \E n, d : ServeDev(Returns(n), d)
    BY <1>2 DEF UserOpens, Open
  <2> QED BY <1>1, <2>1, DevReturnsFreely, FreelySpares
<1>3. CASE UserReads
  <2>1. Read(Descriptor, Instr.n) /\ Running = ROOT
    BY <1>1, <1>3, AtCall, CallFields DEF UserReads
  <2> QED BY <1>1, <2>1, ReadFreely, FreelySpares
<1>4. CASE UserCloses
  <2>1. \E n, d : ServeDev(Returns(n), d)
    BY <1>4 DEF UserCloses, Close
  <2> QED BY <1>1, <2>1, DevReturnsFreely, FreelySpares
<1>5. CASE UserWrites
  <2>1. \E n, d : ServeDev(Returns(n), d)
    BY <1>5 DEF UserWrites, Write
  <2> QED BY <1>1, <2>1, DevReturnsFreely, FreelySpares
<1>6. CASE UserIoctls
  <2>1. \E n, d : ServeDev(Returns(n), d)
    BY <1>6 DEF UserIoctls, Ioctl
  <2> QED BY <1>1, <2>1, DevReturnsFreely, FreelySpares
<1> QED BY <1>2, <1>3, <1>4, <1>5, <1>6

(* The calls of the programs to the kernel.                                *)
LEMMA KernelCallsSpare ==
  ASSUME UserInv, UserBounds,
         UserHandles \/ UserKills \/ UserWaits \/ UserSleeps \/ UserYields \/ UserCreates
  PROVE  Spares
<1>1. Inv /\ RootReads(kern) /\ ProgramsInv /\ MaxBuf >= 1 /\ SigTypeOK
  BY ReadersAreRoot DEF UserInv, UserBounds, SigInv
<1>2. CASE UserHandles
  BY <1>1, <1>2, SigHandlerFreely, FreelySpares DEF UserHandles
<1>3. CASE UserKills
  <2>1. SigKill(PidOf(Instr.program), Instr.n) /\ PidOf(Instr.program) \in Nat
    BY <1>1, <1>3, PidOfIs DEF UserKills
  <2> QED BY <1>1, <2>1, SigKillFreely DEF Spares
<1>4. CASE UserWaits
  BY <1>1, <1>4, SigWaitFreely, FreelySpares DEF UserWaits
<1>5. CASE UserSleeps
  <2>1. Nap(Instr.ms) /\ Instr.ms \in Nat
    BY <1>1, <1>5, AtCall, CallFields DEF UserSleeps, Also
  <2> QED BY <1>1, <2>1, NapFreely, FreelySpares
<1>6. CASE UserYields
  BY <1>1, <1>6, YieldFreely, FreelySpares DEF UserYields, Also
<1>7. CASE UserCreates
  BY <1>1, <1>7, CreateFreely, FreelySpares DEF UserCreates, Also
<1> QED BY <1>2, <1>3, <1>4, <1>5, <1>6, <1>7

(* The end of a program or of a handler, the timer and a result taken.     *)
LEMMA OthersSpare ==
  ASSUME UserInv, UserBounds, UserStops \/ UserHandled \/ TimerInterrupt \/ UserTakes
  PROVE  Spares
<1>1. Inv /\ RootReads(kern)
  BY ReadersAreRoot DEF UserInv, UserBounds, SigInv
<1>2. CASE UserStops
  BY <1>1, <1>2, StopFreely, FreelySpares DEF UserStops, Also
<1>3. CASE UserHandled
  BY <1>1, <1>3, SigReturnFreely, FreelySpares DEF UserHandled
<1>4. CASE TimerInterrupt
  <2>1. TimerAt(kern.ret[Running]) /\ kern.ret[Running] \in Int
    BY <1>1, <1>4, RunningIs DEF TimerInterrupt, Also, KernelType
  <2> QED BY <1>1, <2>1, TimerFreely, FreelySpares
<1>5. CASE UserTakes
  BY <1>5 DEF UserTakes, Spares, Idles, Running, Lets
<1> QED BY <1>2, <1>3, <1>4, <1>5

-----------------------------------------------------------------------------
(* The keyboard.  What a reader waits for are characters: a line ends with *)
(* the key that ends it.                                                   *)
Chars(d) == \A i \in DOMAIN d.kbdbuffer : d.kbdbuffer[i] = "char"

(* What a key may write behind the reader's buffer: the second null of the *)
(* key that ends the file, if the last place is all that is left.          *)
Slip(d, e) ==
  e.overrun # 0 => e.overrun = 1 /\ e.eof_received /\ Held(d) + 1 = d.applbufsize

(* A key for a reader is one more character if it is struck, and none if   *)
(* not, and there is room for another; or the reader gets all there were.  *)
Stored(d, e, n) ==
  /\ e \in DevType /\ e.appl /\ e.overrun = 0
  /\ Held(e) = Held(d) + n /\ Chars(e) /\ Len(e.kbdbuffer) < KBDBUFSZ

Told(d, e) == e \in DevType /\ e.reader = d.reader /\ e.applbufidx = Held(d) /\ Slip(d, e)

GivesAll(k, d, r, n) ==
  \/ \E e : r = <<k, e>> /\ Stored(d, e, n)
  \/ \E e : r = notify(k, e) /\ Told(d, e)

(* Without the end of a line, and with room, the whole of the driver's     *)
(* buffer is copied.                                                       *)
LEMMA CopiedAll ==
  ASSUME NEW d, \A m \in 1 .. KBDBUFSZ - 1 : ~Ends(d, m) PROVE Copied(d) = KBDBUFSZ
<1> DEFINE P(n) == /\ n = KBDBUFSZ \/ Ends(d, n)
                   /\ \A m \in 1 .. n - 1 : ~Ends(d, m)
<1>1. P(KBDBUFSZ) /\ KBDBUFSZ \in 1 .. KBDBUFSZ
  BY DevicesAssumption
<1>2. Copied(d) = CHOOSE n \in 1 .. KBDBUFSZ : P(n)
  BY DEF Copied
<1>3. \A n \in 1 .. KBDBUFSZ : P(n) => n = KBDBUFSZ
  BY DevicesAssumption
<1> HIDE DEF P
<1> QED BY <1>1, <1>2, <1>3

(* A full buffer is handed over whole, or kept.                            *)
LEMMA DrainGives ==
  ASSUME NEW k, NEW d, DevOK(d), Chars(d), Len(d.kbdbuffer) = KBDBUFSZ,
         d.applbufidx + KBDBUFSZ <= d.applbufsize - 1
  PROVE  \E e : /\ Drain(k, d) = <<k, e>> /\ Held(e) = Held(d) /\ Chars(e)
               /\ e \in DevType /\ e.appl = d.appl /\ e.overrun = d.overrun
               /\ Len(e.kbdbuffer) < KBDBUFSZ
<1>1. d \in DevType /\ d.kbdbuffer \in Seq({"char", "newline"}) /\ d.applbufidx \in Nat
      /\ d.applbufsize \in Nat
  BY DevFields DEF DevOK
<1>2. Copied(d) = KBDBUFSZ
  <2> SUFFICES ASSUME NEW m \in 1 .. KBDBUFSZ - 1 PROVE ~Ends(d, m)
    BY CopiedAll
  <2>1. m \in DOMAIN d.kbdbuffer
    BY <1>1, DevicesAssumption
  <2>2. d.kbdbuffer[m] # "newline"
    BY <2>1 DEF Chars
  <2>3. ~(d.applbufidx + m >= d.applbufsize - 1)
    BY <1>1, DevicesAssumption
  <2> QED BY <2>2, <2>3 DEF Ends
<1> DEFINE n    == Copied(d)
           over == Behind(d, d.applbufidx + n - 1)
           full == [d EXCEPT !.applbufidx = @ + n, !.overrun = over]
           none == [full EXCEPT !.kbdbuffer = <<>>]
           x    == d.applbufidx + n
<1>3. Drain(k, d) = <<k, none>>
  <2>1. n = KBDBUFSZ => Drain(k, d) = <<k, none>>
    BY DEF Drain
  <2> HIDE DEF none, n
  <2> QED BY <1>2, <2>1 DEF n
<1>4. n = KBDBUFSZ
  BY <1>2
<1> HIDE DEF n
<1>5. x \in Nat /\ x < d.applbufsize /\ d.overrun \in Nat
  <2>1. d.overrun \in Nat
    BY <1>1, DevFields
  <2>2. x = d.applbufidx + KBDBUFSZ
    BY <1>4
  <2> QED BY <1>1, <2>1, <2>2, DevicesAssumption
<1>6. over = d.overrun
  BY <1>1, <1>4, <1>5, DevicesAssumption DEF Behind
<1> HIDE DEF over
<1>7. /\ none.applbufidx = x /\ none.kbdbuffer = <<>> /\ Len(<<>>) = 0
      /\ none \in DevType /\ none.appl = d.appl /\ none.overrun = over
  <2>1. <<>> \in Seq({"char", "newline"}) /\ Len(<<>>) = 0
    OBVIOUS
  <2> QED BY <1>1, <1>5, <1>6, <2>1 DEF DevType
<1> HIDE DEF none
<1>8. Held(none) = Held(d) /\ Chars(none)
  BY <1>1, <1>5, <1>7, <1>4 DEF Held, Chars
<1> QED BY <1>3, <1>6, <1>7, <1>8, DevicesAssumption

(* A character is kept; the last that there is room for fills the buffer.  *)
LEMMA KeepGives ==
  ASSUME NEW k, NEW d, DevOK(d), Chars(d), d.appl, d.overrun = 0, Len(d.kbdbuffer) < KBDBUFSZ,
         NEW key \in Keys, NEW up, ~Completes(d, key, up)
  PROVE  GivesAll(k, d, Keep(k, d, key, up), Strokes(key, up))
<1> DEFINE s == Store(d, key, up)
           t == Append(d.kbdbuffer, "char")
<1>1. d \in DevType /\ d.kbdbuffer \in Seq({"char", "newline"}) /\ d.applbufidx \in Nat
      /\ d.applbufsize \in Nat /\ Len(d.kbdbuffer) \in Nat /\ Len(d.kbdbuffer) <= KBDBUFSZ
  BY DevFields DEF DevOK
<1>2. d.applbufidx + Len(d.kbdbuffer) + 1 < d.applbufsize /\ kbtoa(d.state, key, up) # "newline"
  BY <1>1 DEF Completes
<1>3. /\ DevOK(s) /\ s \in DevType /\ Chars(s) /\ SameReader(d, s)
      /\ s.applbufidx = d.applbufidx /\ s.overrun = 0
      /\ Held(s) = Held(d) + 1 /\ Len(s.kbdbuffer) = Len(d.kbdbuffer) + 1
  <2>1. DevOK(s) /\ SameReader(d, s)
    BY StoreIs
  <2>2. s = [d EXCEPT !.kbdbuffer = t]
    BY <1>2 DEF Store, Byte
  <2>3. Len(t) = Len(d.kbdbuffer) + 1 /\ \A i \in DOMAIN t : t[i] = "char"
    BY <1>1 DEF Chars
  <2> HIDE DEF s, t
  <2>4. s.kbdbuffer = t /\ s.applbufidx = d.applbufidx /\ s.overrun = d.overrun
    BY <1>1, <2>2 DEF DevType
  <2>5. Chars(s)
    BY <2>3, <2>4 DEF Chars
  <2>6. Held(s) = Held(d) + 1
    BY <1>1, <2>3, <2>4 DEF Held
  <2> QED BY <2>1, <2>3, <2>4, <2>5, <2>6 DEF DevOK
<1>4. CASE up \/ is_control_code(key, up)
  <2>1. Keep(k, d, key, up) = <<k, d>> /\ Strokes(key, up) = 0
    BY <1>4 DEF Keep, Strokes, is_control_code
  <2>2. Held(d) + 0 = Held(d)
    BY <1>1 DEF Held
  <2> QED BY <1>1, <2>1, <2>2 DEF GivesAll, Stored
<1>5. ~(up \/ is_control_code(key, up)) => Strokes(key, up) = 1
  BY DEF Strokes, is_control_code
<1>6. CASE ~(up \/ is_control_code(key, up)) /\ ~(Len(s.kbdbuffer) >= KBDBUFSZ /\ s.appl)
  <2>1. Keep(k, d, key, up) = <<k, s>>
    BY <1>6 DEF Keep
  <2> HIDE DEF s
  <2>2. s.appl /\ Len(s.kbdbuffer) < KBDBUFSZ
    BY <1>1, <1>3, <1>6, DevicesAssumption DEF SameReader
  <2> QED BY <1>5, <1>3, <1>6, <2>1, <2>2 DEF GivesAll, Stored
<1>7. CASE ~(up \/ is_control_code(key, up)) /\ Len(s.kbdbuffer) >= KBDBUFSZ /\ s.appl
  <2>1. Keep(k, d, key, up) = Drain(k, s)
    BY <1>7 DEF Keep
  <2> HIDE DEF s
  <2>2. Len(s.kbdbuffer) = KBDBUFSZ
    <3>1. Len(s.kbdbuffer) \in Nat /\ Len(s.kbdbuffer) <= KBDBUFSZ
      BY <1>3, DevFields DEF DevOK
    <3> QED BY <1>7, <3>1, DevicesAssumption
  <2>3. s.applbufidx + KBDBUFSZ <= s.applbufsize - 1
    BY <1>1, <1>2, <1>3, <2>2, DevicesAssumption DEF SameReader
  <2>4. PICK e : /\ Drain(k, s) = <<k, e>> /\ Held(e) = Held(s) /\ Chars(e)
                 /\ e \in DevType /\ e.appl = s.appl /\ e.overrun = s.overrun
                 /\ Len(e.kbdbuffer) < KBDBUFSZ
    BY <1>3, <2>2, <2>3, DrainGives
  <2> QED BY <1>5, <1>3, <1>7, <2>1, <2>4 DEF GivesAll, Stored, SameReader
<1> QED BY <1>4, <1>6, <1>7

(* Of what the key that ends the file writes one byte may be behind.       *)
LEMMA OneBehind ==
  ASSUME NEW held \in Nat, NEW size \in Nat, held < size,
         NEW last \in {held, held + 1},
         NEW over, over = IF last < size THEN 0 ELSE last + 1 - size
  PROVE  /\ over \in Nat
         /\ over # 0 => over = 1 /\ last = held + 1 /\ held + 1 = size
OBVIOUS

(* A key.                                                                  *)
LEMMA KeyGives ==
  ASSUME NEW k, NEW d, DevOK(d), Chars(d), d.appl, d.overrun = 0, Len(d.kbdbuffer) < KBDBUFSZ,
         Held(d) < d.applbufsize, Waiting(k, d), NEW key \in Keys, NEW up
  PROVE  GivesAll(k, d, process_key(k, d, key, up), Strokes(key, up))
<1> DEFINE st == NextState(d.state, key, up)
           e == [d EXCEPT !.state = st]
           f == Flush(e, key, up)
<1>1. d \in DevType /\ d.kbdbuffer \in Seq({"char", "newline"}) /\ d.applbufidx \in Nat
      /\ Len(d.kbdbuffer) \in Nat /\ Len(d.kbdbuffer) <= KBDBUFSZ /\ d.state \in SUBSET Flags
  BY DevFields DEF DevOK
<1>2. st \in SUBSET Flags
  BY <1>1 DEF NextState, Flag, Flags, Modifiers
<1> HIDE DEF st
<1>3. /\ e \in DevType /\ e.fd = d.fd /\ SameReader(d, e) /\ e.kbdbuffer = d.kbdbuffer
      /\ e.applbufidx = d.applbufidx /\ e.overrun = 0 /\ e.applbufsize = d.applbufsize
  BY <1>1, <1>2 DEF DevType, SameReader
<1>4. process_key(k, d, key, up) =
        IF Completes(e, key, up)
        THEN IF Waiting(k, f) THEN notify(k, f) ELSE Keep(k, f, key, up)
        ELSE Keep(k, e, key, up)
  BY <1>3 DEF process_key, st, SameReader
<1> HIDE DEF e
<1>5. DevOK(e) /\ Held(e) = Held(d) /\ Chars(e)
  BY <1>1, <1>3, DevOKFields DEF SameReader, Held, Chars
<1>6. CASE Completes(e, key, up)
  <2> DEFINE eof  == e.eof_received \/ EndsFile(e, key, up)
             last == IF EndsFile(e, key, up) THEN Held(e) + 1 ELSE Held(e)
             over == Behind(e, last)
  <2>1. f = [e EXCEPT !.eof_received = eof, !.applbufidx = Held(e), !.kbdbuffer = <<>>,
                      !.overrun = over]
    BY DEF Flush, Held
  <2>2. /\ Held(e) \in Nat /\ e.applbufsize \in Nat /\ Held(e) < e.applbufsize
        /\ eof \in BOOLEAN /\ e.overrun = 0
    <3>1. eof \in BOOLEAN
      BY <1>3, DevFields
    <3> HIDE DEF eof
    <3> QED BY <1>1, <1>3, <1>5, <3>1, DevFields DEF Held
  <2>3. /\ over \in Nat
        /\ over # 0 => over = 1 /\ EndsFile(e, key, up) /\ Held(e) + 1 = e.applbufsize
    <3> DEFINE held == Held(e)
               size == e.applbufsize
    <3>1. over = IF last < size THEN 0 ELSE last + 1 - size
      BY <2>2 DEF Behind
    <3>2. last \in {held, held + 1} /\ (~EndsFile(e, key, up) => last = held)
      OBVIOUS
    <3>3. held \in Nat /\ size \in Nat /\ held < size
      BY <2>2
    <3> HIDE DEF over, last, eof, held, size
    <3>4. over \in Nat /\ (over # 0 => over = 1 /\ last = held + 1 /\ held + 1 = size)
      BY <3>1, <3>2, <3>3, OneBehind
    <3>5. over # 0 => EndsFile(e, key, up)
      BY <3>2, <3>3, <3>4
    <3> QED BY <3>4, <3>5 DEF held, size
  <2> HIDE DEF over
  <2>4. f \in DevType /\ Slip(d, f)
    <3>1. <<>> \in Seq({"char", "newline"})
      OBVIOUS
    <3>2. f \in DevType /\ f.overrun = over /\ f.eof_received = eof
      <4> HIDE DEF f, eof
      <4> QED BY <1>3, <2>1, <2>2, <2>3, <3>1 DEF DevType
    <3> HIDE DEF f
    <3> QED BY <1>3, <1>5, <2>3, <3>2 DEF Slip
  <2>5. f.reader = e.reader /\ f.applbufidx = Held(e)
    <3> HIDE DEF f, eof
    <3> QED BY <1>3, <2>1 DEF DevType
  <2>6. Waiting(k, f) /\ f.reader = d.reader
    BY <1>3, <2>5 DEF Waiting, SameReader
  <2>7. process_key(k, d, key, up) = notify(k, f)
    BY <1>4, <1>6, <2>6
  <2> HIDE DEF f
  <2> QED BY <1>5, <2>5, <2>6, <2>7, <2>4 DEF GivesAll, Told
<1>7. CASE ~Completes(e, key, up)
  <2>1. GivesAll(k, e, Keep(k, e, key, up), Strokes(key, up))
    BY <1>3, <1>5, <1>7, KeepGives DEF SameReader
  <2> QED BY <1>3, <1>4, <1>5, <1>7, <2>1 DEF GivesAll, Stored, Told, SameReader, Slip
<1> QED BY <1>6, <1>7

(* notify() makes root ready, with what was copied for it.                 *)
LEMMA notify_Is ==
  ASSUME NEW k \in KernelType, NEW e, e.reader = ROOT, e.applbufidx \in Int,
         notify(k, e)[1].fault = "none"
  PROVE  LET r == notify(k, e)[1]
         IN  /\ r.state = [k.state EXCEPT ![ROOT] = "READY"]
             /\ r.ret = [k.ret EXCEPT ![ROOT] = e.applbufidx]
             /\ r.call = k.call /\ r.que["running"] = k.que["running"]
<1> DEFINE m == remove(k, "blocked_q", k.pid[ROOT])
           w == [m EXCEPT !.ret[ROOT] = e.applbufidx]
           r == ready(w, ROOT)
<1>1. notify(k, e)[1] = r
  BY DEF notify
<1>2. ROOT \in Slots
  BY Constants
<1>3. /\ m \in KernelType /\ Calls3(k, m)
      /\ m.fault = "none" => m.que["running"] = k.que["running"]
  <2>1. m \in KernelType /\ (m.fault = "none" => Same(k, m))
    BY remove_Keeps
  <2>2. Calls3(k, m)
    BY remove_Calls
  <2> HIDE DEF m
  <2> QED BY <2>1, <2>2 DEF Same
<1> HIDE DEF m
<1>4. /\ w \in KernelType /\ w.state = m.state /\ w.call = m.call /\ w.fault = m.fault
      /\ w.que = m.que /\ w.ret = [m.ret EXCEPT ![ROOT] = e.applbufidx]
  BY <1>2, <1>3 DEF KernelType
<1> HIDE DEF w
<1>5. /\ r.ret = w.ret /\ r.call = w.call
      /\ r.fault = "none" => /\ w.fault = "none" /\ r.que["running"] = w.que["running"]
                             /\ r.state = [w.state EXCEPT ![ROOT] = "READY"]
  BY <1>2, <1>4, ready_Keeps, ready_Calls
<1>6. r.fault = "none"
  BY <1>1
<1> HIDE DEF r
<1> QED BY <1>1, <1>3, <1>4, <1>5, <1>6 DEF Calls3

(* While a reader waits the driver has all that was struck for it, with    *)
(* room for another, and has written nothing behind its buffer.            *)
Whole(d) ==
  /\ Chars(d) /\ Len(d.kbdbuffer) < KBDBUFSZ
  /\ d.overrun = 0 /\ Held(d) = d.struck

ReadersWhole == (\E s \in Slots : Reads(kern, s)) => Whole(dev)

(* The reader, if there is one, waits on or has all there were.            *)
Fed ==
  \A s \in Slots : Reads(kern, s) =>
    /\ \/ Reads(kern', s) /\ Whole(dev')
       \/ kern'.state[s] # "BLOCKED" /\ kern'.ret[s] = Held(dev)
    /\ Slip(dev, dev')

(* The history counts the key.                                             *)
LEMMA CountedIs ==
  ASSUME NEW d \in DevType, NEW key, NEW up, dev \in DevType
  PROVE  LET e == Counted(d, key, up)
         IN  /\ e.kbdbuffer = d.kbdbuffer /\ e.applbufidx = d.applbufidx
             /\ e.overrun = d.overrun /\ e.eof_received = d.eof_received /\ e.fd = d.fd
             /\ d.appl => e.struck = dev.struck + Strokes(key, up)
<1> DEFINE n == IF d.appl THEN dev.struck + Strokes(key, up) ELSE 0
           e == [d EXCEPT !.struck = n]
<1>1. Counted(d, key, up) = e
  BY DEF Counted
<1>2. d.appl => n = dev.struck + Strokes(key, up)
  OBVIOUS
<1> HIDE DEF n
<1>3. /\ e.kbdbuffer = d.kbdbuffer /\ e.applbufidx = d.applbufidx /\ e.struck = n
      /\ e.overrun = d.overrun /\ e.eof_received = d.eof_received /\ e.fd = d.fd
  BY DEF DevType
<1> QED BY <1>1, <1>2, <1>3

(* The interrupt of the keyboard.                                          *)
LEMMA KeyboardFeeds ==
  ASSUME Inv, Served(kern, dev), ReadersWhole, NEW key \in Keys, NEW up, Keyboard(key, up)
  PROVE  /\ Fed /\ Quiet(kern, kern') /\ (Idles => Idles')
         /\ \/ kern' = kern \/ \E f : kern' = [kern EXCEPT !.fault = f]
            \/ /\ kern'.fault = "none" /\ kern.state[ROOT] = "BLOCKED"
               /\ \E e : kern' = notify(kern, e)[1] /\ e.reader = ROOT /\ e.applbufidx \in Int
<1> DEFINE r == process_key(kern, dev, key, up)
           n == Strokes(key, up)
<1>1. /\ kern \in KernelType /\ DevOK(dev) /\ ServeDev(r[1], Counted(r[2], key, up))
      /\ Held(dev) \in Nat /\ dev.struck \in Nat /\ dev \in DevType /\ n \in Nat
  <2>1. kern \in KernelType /\ DevOK(dev) /\ ServeDev(r[1], Counted(r[2], key, up))
    BY RunningIs DEF Served, Keyboard
  <2> HIDE DEF r
  <2>2. dev.applbufidx \in Nat /\ Len(dev.kbdbuffer) \in Nat /\ dev.struck \in Nat
    BY <2>1, DevFields DEF DevOK
  <2> QED BY <2>1, <2>2 DEF Held, DevOK, Strokes
<1>2. Adds(kern, dev, r, dev.appl /\ Held(dev) < dev.applbufsize)
  BY <1>1, KeyAdds
<1>3. ASSUME NEW s \in Slots, Reads(kern, s)
      PROVE  s = ROOT /\ dev.reader = ROOT /\ Whole(dev) /\ GivesAll(kern, dev, r, n)
  <2>1. /\ s = ROOT /\ dev.reader = s /\ dev.appl /\ Whole(dev)
        /\ Held(dev) < dev.applbufsize
    BY <1>3 DEF Served, Attended, ReadersWhole, Held
  <2>2. Waiting(kern, dev)
    BY <1>3, <2>1 DEF Waiting, Reads, ROOT, NULL
  <2> QED BY <1>1, <2>1, <2>2, KeyGives DEF Whole
<1> HIDE DEF r, n
<1>4. CASE r[1].fault # "none"
  <2>1. dev' = dev /\ kern' = [kern EXCEPT !.fault = r[1].fault]
    BY <1>1, <1>4 DEF ServeDev, ServeSig, Serve
  <2>2. /\ kern'.next = kern.next /\ kern'.que = kern.que /\ kern'.headsleeper = kern.headsleeper
        /\ kern'.pid = kern.pid /\ kern'.state = kern.state /\ kern'.ret = kern.ret
        /\ kern'.call = kern.call
    BY <1>1, <2>1 DEF KernelType
  <2>3. Fed
    BY <2>1, <2>2 DEF Fed, ReadersWhole, Reads, Whole, Slip
  <2>4. Quiet(kern, kern') /\ (Idles => Idles')
    BY <2>2 DEF Quiet, Idles, Running, Unlinked
  <2> QED BY <2>1, <2>3, <2>4
<1>5. CASE r[1].fault = "none" /\ \E e : r = <<kern, e>>
  <2>1. PICK e : r = <<kern, e>>
    BY <1>5
  <2>2. kern' = kern /\ dev' = Counted(e, key, up)
    BY <1>1, <1>5, <2>1 DEF ServeDev, ServeSig, Serve
  <2>3. Fed
    <3> SUFFICES ASSUME NEW s \in Slots, Reads(kern, s) PROVE Whole(dev') /\ Slip(dev, dev')
      BY <2>2 DEF Fed
    <3>1. GivesAll(kern, dev, r, n) /\ Whole(dev)
      BY <1>3
    <3>2. ASSUME NEW x, r = <<kern, x>>, Stored(dev, x, n) PROVE Whole(dev') /\ Slip(dev, dev')
      <4>1. x \in DevType /\ x = e
        BY <2>1, <3>2 DEF Stored
      <4>2. /\ dev'.kbdbuffer = x.kbdbuffer /\ dev'.applbufidx = x.applbufidx
            /\ dev'.overrun = 0 /\ dev'.struck = dev.struck + n
        BY <1>1, <2>2, <3>2, <4>1, CountedIs DEF Stored, n
      <4> QED BY <3>1, <3>2, <4>2 DEF Stored, Whole, Chars, Held, Slip
    <3>3. ASSUME NEW x, r = notify(kern, x), Told(dev, x) PROVE FALSE
      <4>1. x.reader = ROOT /\ x.applbufidx \in Int
        BY <1>1, <1>3, <3>3 DEF Told
      <4> DEFINE m == notify(kern, x)[1]
      <4>2. m.fault = "none" /\ m = kern
        BY <1>5, <2>1, <3>3
      <4>3. m.state = [kern.state EXCEPT ![ROOT] = "READY"]
        BY <1>1, <4>1, <4>2, notify_Is
      <4> HIDE DEF m
      <4>4. kern.state[ROOT] = "READY"
        BY <1>1, <4>2, <4>3, Constants DEF KernelType
      <4> QED BY <1>3, <4>4 DEF Reads
    <3> QED BY <3>1, <3>2, <3>3 DEF GivesAll
  <2>4. Quiet(kern, kern') /\ (Idles => Idles')
    BY <2>2 DEF Quiet, Idles, Running, Unlinked
  <2> QED BY <2>2, <2>3, <2>4
<1>6. CASE r[1].fault = "none" /\ \E e : r = notify(kern, e) /\ DevOK(e) /\ Waiting(kern, e)
  <2>1. PICK e : r = notify(kern, e) /\ DevOK(e) /\ Waiting(kern, e)
    BY <1>6
  <2>2. e.reader = ROOT /\ kern.state[ROOT] = "BLOCKED" /\ e.applbufidx \in Int
    BY <2>1, DevFields DEF DevOK, Waiting
  <2> DEFINE k == notify(kern, e)[1]
  <2>3. kern' = k /\ k.fault = "none"
    BY <1>1, <1>6, <2>1 DEF ServeDev, ServeSig, Serve
  <2>4. /\ k.state = [kern.state EXCEPT ![ROOT] = "READY"]
        /\ k.ret = [kern.ret EXCEPT ![ROOT] = e.applbufidx]
        /\ k.call = kern.call /\ k.que["running"] = Running
    BY <1>1, <2>2, <2>3, notify_Is DEF Running
  <2>5. Freed(kern, k)
    BY <1>1, <2>2, Constants, notify_Freed
  <2>6. k = notify(kern, e)[1]
    OBVIOUS
  <2> HIDE DEF k
  <2>7. /\ kern.state \in [Slots -> States] /\ kern.ret \in [Slots -> Int]
        /\ kern.que \in [QNames -> Ptr]
    BY <1>1 DEF KernelType
  <2>8. Fed
    <3> SUFFICES ASSUME NEW s \in Slots, Reads(kern, s)
                 PROVE  kern'.state[s] # "BLOCKED" /\ kern'.ret[s] = Held(dev) /\ Slip(dev, dev')
      BY DEF Fed
    <3>1. GivesAll(kern, dev, r, n) /\ s = ROOT /\ dev.reader = ROOT
      BY <1>3
    <3>2. ASSUME NEW x, r = <<kern, x>> PROVE FALSE
      <4>1. k = kern
        BY <2>1, <2>6, <3>2
      <4> QED BY <2>4, <2>7, <3>1, <4>1 DEF Reads
    <3>3. ASSUME NEW x, r = notify(kern, x), Told(dev, x)
          PROVE  kern'.state[s] # "BLOCKED" /\ kern'.ret[s] = Held(dev) /\ Slip(dev, dev')
      <4>1. x.reader = ROOT /\ x.applbufidx = Held(dev) /\ x.applbufidx \in Int /\ x \in DevType
        BY <1>1, <3>1, <3>3 DEF Told
      <4>2. k = notify(kern, x)[1]
        BY <2>1, <2>6, <3>3
      <4>3. k.ret = [kern.ret EXCEPT ![ROOT] = x.applbufidx]
        BY <1>1, <2>3, <4>1, <4>2, notify_Is
      <4> DEFINE y == notify(kern, x)[2]
      <4>4. y \in DevType /\ y.overrun = x.overrun /\ y.eof_received = x.eof_received
        BY <4>1 DEF notify, DevType, Ptr
      <4>5. dev' = Counted(y, key, up)
        BY <1>1, <1>6, <3>3 DEF ServeDev
      <4> HIDE DEF y
      <4>6. dev'.overrun = x.overrun /\ dev'.eof_received = x.eof_received
        BY <1>1, <4>4, <4>5, CountedIs
      <4>7. Slip(dev, dev')
        BY <3>3, <4>6 DEF Told, Slip
      <4> QED BY <2>3, <2>4, <2>7, <3>1, <4>1, <4>3, <4>7
    <3> QED BY <3>1, <3>2, <3>3 DEF GivesAll
  <2>9. Quiet(kern, kern')
    BY <2>3, <2>4, <2>7 DEF Quiet
  <2>10. Idles => Idles'
    BY <2>3, <2>4, <2>5 DEF Idles, Freed, Running
  <2> QED BY <2>2, <2>3, <2>6, <2>8, <2>9, <2>10
<1> QED BY <1>2, <1>4, <1>5, <1>6 DEF Adds

-----------------------------------------------------------------------------
(* Root's tests of the reads: nobody is there but root and idleproc, and   *)
(* idleproc blocks in a receive as soon as it runs.  Until it has, only    *)
(* root is ever on blocked_q; and it does not run while it is on the ready *)
(* queue, so that nobody is behind it when it does.                        *)
Twosome(k) == k.pid[ROOT] = ROOT /\ k.pid[IDLE] = IDLE /\ k.headsleeper = NULL

Vacant(k, received) ==
  \/ received
  \/ k.que["blocked_q"] = NULL
  \/ k.que["blocked_q"] = ROOT /\ k.state[ROOT] = "BLOCKED" /\ k.next[ROOT] = NULL

Empty(k)   == k.que["head"] = NULL /\ k.tail = NULL
Lone(k, p) == k.que["head"] = p /\ k.tail = p /\ k.next[p] = NULL
BothQueued(k) ==
  k.que["head"] = IDLE /\ k.next[IDLE] = ROOT /\ k.tail = ROOT /\ k.next[ROOT] = NULL

Pair(k, received) ==
  /\ Twosome(k) /\ Vacant(k, received) /\ k.que["running"] \in {ROOT, IDLE}
  /\ \/ Empty(k)
     \/ Lone(k, ROOT) /\ k.state[ROOT] = "READY"
     \/ Lone(k, IDLE) /\ k.que["running"] = ROOT /\ ~received

(* Before next() has chosen.                                               *)
Before(k, received) ==
  /\ Twosome(k) /\ Vacant(k, received)
  /\ Empty(k) \/ Lone(k, IDLE) \/ ((Lone(k, ROOT) \/ BothQueued(k)) /\ k.state[ROOT] = "READY")

(* The two are two.                                                        *)
LEMMA TheTwo ==
  /\ ROOT \in Pcbs /\ IDLE \in Pcbs /\ ROOT \in Slots /\ IDLE \in Slots
  /\ ROOT # IDLE /\ ROOT # NULL /\ IDLE # NULL /\ ROOT # 0 /\ IDLE # 0 /\ NULL \in Ptr
BY Constants DEF Ptr, ROOT, IDLE, NULL, Pcbs, Slots

(* What they depend on.                                                    *)
LEMMA SamePair ==
  ASSUME NEW k, NEW r, NEW received,
         r.next = k.next, r.que = k.que, r.tail = k.tail, r.headsleeper = k.headsleeper,
         r.pid = k.pid, r.state = k.state
  PROVE  Pair(k, received) => Pair(r, received)
BY DEF Pair, Twosome, Vacant, Empty, Lone

(* After next() the ready queue is empty.                                  *)
LEMMA RunPair ==
  ASSUME NEW k \in KernelType, NEW p \in {ROOT, IDLE}, Twosome(k), Empty(k), NEW received,
         Vacant(k, received), p = ROOT => received \/ k.que["blocked_q"] = NULL
  PROVE  Pair(Run(k, p), received)
<1> DEFINE r == Run(k, p)
<1>1. /\ r.next = k.next /\ r.tail = k.tail /\ r.headsleeper = k.headsleeper /\ r.pid = k.pid
      /\ r.state = [k.state EXCEPT ![p] = "RUNNING"]
      /\ r.que = [k.que EXCEPT !["running"] = p]
      /\ k.state \in [Slots -> States] /\ k.que \in [QNames -> Ptr]
  BY DEF Run, KernelType
<1> HIDE DEF r
<1>2. r.que["running"] = p /\ r.que["head"] = k.que["head"] /\ r.que["blocked_q"] = k.que["blocked_q"]
  BY <1>1 DEF QNames
<1>3. p = IDLE => r.state[ROOT] = k.state[ROOT]
  BY <1>1, TheTwo
<1>4. Vacant(r, received)
  BY <1>1, <1>2, <1>3, TheTwo DEF Vacant
<1>5. Twosome(r) /\ Empty(r)
  BY <1>1, <1>2 DEF Twosome, Empty
<1>6. Pair(r, received)
  BY <1>2, <1>4, <1>5 DEF Pair
<1> QED BY <1>6 DEF r

(* What is left when the head of the ready queue is taken off.             *)
LEMMA PopIs ==
  ASSUME NEW k \in KernelType, k.que["head"] \in Pcbs
  PROVE  LET m == Pop(k)
             h == k.que["head"]
         IN  /\ m \in KernelType /\ m.pid = k.pid /\ m.headsleeper = k.headsleeper
             /\ m.state = k.state /\ m.fault = k.fault /\ m.next = [k.next EXCEPT ![h] = NULL]
             /\ m.que["head"] = k.next[h] /\ m.que["blocked_q"] = k.que["blocked_q"]
             /\ m.que["running"] = k.que["running"]
             /\ m.tail = IF k.next[h] = NULL THEN NULL ELSE k.tail
<1>1. Pop(k) \in KernelType
  BY Pop_Keeps
<1> QED BY <1>1 DEF Pop, KernelType, QNames

(* next() chooses between the two.                                         *)
LEMMA DispatchPair ==
  ASSUME NEW k \in KernelType, NEW received, Before(k, received), Dispatch(k).fault = "none"
  PROVE  Pair(Dispatch(k), received)
<1> DEFINE h == k.que["head"]
           r == k.que["running"]
           m == Pop(k)
           i == [m EXCEPT !.state[r] = "READY"]
<1>1. /\ Twosome(k) /\ Vacant(k, received) /\ k.next \in [Slots -> Ptr]
      /\ k.state \in [Slots -> States] /\ Dispatch(k) # Fault(k, "kassert")
  BY DEF Before, KernelType, Fault
<1>2. CASE Empty(k)
  <2>1. Dispatch(k) = Run(k, IDLE)
    BY <1>2 DEF Dispatch, Empty
  <2> QED BY <1>1, <1>2, <2>1, TheTwo, RunPair
<1>3. CASE h \in Pcbs
  <2>1. /\ m \in KernelType /\ m.pid = k.pid /\ m.headsleeper = k.headsleeper
        /\ m.state = k.state /\ m.next = [k.next EXCEPT ![h] = NULL]
        /\ m.que["head"] = k.next[h] /\ m.que["blocked_q"] = k.que["blocked_q"]
        /\ m.que["running"] = r /\ m.tail = IF k.next[h] = NULL THEN NULL ELSE k.tail
    BY <1>3, PopIs
  <2>2. Dispatch(k) =
          IF k.pid[h] = IDLE
          THEN IF m.que["head"] = NULL THEN Run(m, h) ELSE Run(Pop(m), m.que["head"])
          ELSE IF k.pid[r] = IDLE THEN Run(i, h) ELSE Run(m, h)
    <3>1. h # NULL
      BY <1>3, Constants DEF Pcbs
    <3>2. ~(~Aligned(k, h) \/ k.state[h] # "READY")
      BY <1>1, <3>1 DEF Dispatch
    <3> HIDE DEF i
    <3>3. i = [Pop(k) EXCEPT !.state[r] = "READY"] /\ m = Pop(k)
      BY DEF i
    <3> HIDE DEF m
    <3>4. Dispatch(k) =
            IF k.pid[h] = IDLE
            THEN LET s == Pop(k).que["head"]
                 IN  IF s = NULL THEN Run(Pop(k), h) ELSE Run(Pop(Pop(k)), s)
            ELSE IF k.pid[r] = IDLE THEN Run([Pop(k) EXCEPT !.state[r] = "READY"], h)
            ELSE Run(Pop(k), h)
      BY <3>1, <3>2, Zenon DEF Dispatch
    <3> QED BY <3>3, <3>4
  <2>3. Twosome(m) /\ (k.next[h] = NULL => Empty(m))
    BY <1>1, <2>1 DEF Twosome, Empty
  <2> HIDE DEF m
  <2>4. CASE Lone(k, IDLE)
    <3>1. Dispatch(k) = Run(m, IDLE) /\ Empty(m)
      BY <1>1, <2>1, <2>2, <2>3, <2>4 DEF Lone, Twosome
    <3>2. Vacant(m, received)
      BY <1>1, <2>1, <2>4, TheTwo DEF Vacant, Lone
    <3> QED BY <2>1, <2>3, <3>1, <3>2, TheTwo, RunPair
  <2>5. CASE Lone(k, ROOT) /\ k.state[ROOT] = "READY"
    <3>1. h = ROOT /\ k.next[h] = NULL /\ k.pid[h] # IDLE
      BY <1>1, <2>5, TheTwo DEF Lone, Twosome
    <3>2. Dispatch(k) \in {Run(i, ROOT), Run(m, ROOT)}
      BY <2>2, <3>1
    <3>3. received \/ k.que["blocked_q"] = NULL
      BY <1>1, <2>5 DEF Vacant
    <3>4. /\ i \in KernelType /\ i.pid = m.pid /\ i.headsleeper = m.headsleeper
          /\ i.next = m.next /\ i.que = m.que /\ i.tail = m.tail
      BY <2>1 DEF KernelType, States
    <3> HIDE DEF i
    <3>5. Twosome(i) /\ Empty(m) /\ Empty(i) /\ i.que["blocked_q"] = k.que["blocked_q"]
      BY <2>1, <2>3, <3>1, <3>4 DEF Twosome, Empty
    <3>6. Vacant(m, received) /\ Vacant(i, received)
      BY <2>1, <3>3, <3>5 DEF Vacant
    <3>7. Pair(Run(i, ROOT), received)
      BY <2>1, <3>3, <3>4, <3>5, <3>6, RunPair
    <3>8. Pair(Run(m, ROOT), received)
      BY <2>1, <2>3, <3>3, <3>5, <3>6, RunPair
    <3> QED BY <3>2, <3>7, <3>8
  <2>6. CASE BothQueued(k) /\ k.state[ROOT] = "READY"
    <3> DEFINE n == Pop(m)
    <3>1. h = IDLE /\ k.next[h] = ROOT /\ k.tail = ROOT /\ m.que["head"] = ROOT /\ m.next[ROOT] = NULL
      BY <1>1, <2>1, <2>6, TheTwo DEF BothQueued
    <3>2. Dispatch(k) = Run(n, ROOT)
      BY <1>1, <2>2, <3>1, TheTwo DEF Twosome
    <3>3. /\ n \in KernelType /\ n.pid = m.pid /\ n.headsleeper = m.headsleeper
          /\ n.que["head"] = NULL /\ n.que["blocked_q"] = m.que["blocked_q"] /\ n.tail = NULL
      BY <2>1, <3>1, TheTwo, PopIs
    <3> HIDE DEF n
    <3>4. received \/ k.que["blocked_q"] = NULL
      BY <1>1, <2>6 DEF Vacant
    <3>5. Twosome(n) /\ Empty(n) /\ Vacant(n, received)
      BY <2>1, <2>3, <3>3, <3>4 DEF Twosome, Empty, Vacant
    <3> QED BY <2>1, <3>2, <3>3, <3>4, <3>5, RunPair
  <2>7. ~Empty(k)
    BY <1>3, Constants DEF Empty, Pcbs
  <2> QED BY <2>4, <2>5, <2>6, <2>7 DEF Before
<1> QED BY <1>2, <1>3, TheTwo DEF Before, Lone, BothQueued

(* ready() of one of the two.                                              *)
LEMMA readyIs ==
  ASSUME NEW k \in KernelType, NEW p \in Pcbs, ready(k, p).fault = "none"
  PROVE  LET r == ready(k, p)
         IN  /\ r.pid = k.pid /\ r.headsleeper = k.headsleeper
             /\ r.state = [k.state EXCEPT ![p] = "READY"]
             /\ r.que["blocked_q"] = k.que["blocked_q"] /\ r.que["running"] = k.que["running"]
             /\ k.pid[p] = IDLE =>
                  /\ r.que["head"] = k.que["head"] /\ r.tail = k.tail
                  /\ r.next = [k.next EXCEPT ![p] = NULL]
             /\ k.pid[p] # IDLE =>
                  /\ r.tail = p
                  /\ r.que["head"] = IF k.tail = NULL THEN p ELSE k.que["head"]
                  /\ r.next = IF k.tail = NULL THEN [k.next EXCEPT ![p] = NULL]
                              ELSE [[k.next EXCEPT ![p] = NULL] EXCEPT ![k.tail] = p]
<1> DEFINE w == [k EXCEPT !.next[p] = NULL, !.state[p] = "READY"]
           a == [w EXCEPT !.next[k.tail] = p, !.tail = p]
           b == [w EXCEPT !.que["head"] = p, !.tail = p]
<1>1. ~(p = 0 \/ ~Aligned(k, p))
  <2>1. Fault(k, "kassert").fault # "none"
    BY DEF Fault, KernelType
  <2> QED BY <2>1 DEF ready
<1>2. ready(k, p) = IF k.pid[p] = IDLE THEN w ELSE IF k.tail # NULL THEN a ELSE b
  BY <1>1 DEF ready
<1>3. /\ w.pid = k.pid /\ w.headsleeper = k.headsleeper /\ w.que = k.que /\ w.tail = k.tail
      /\ w.state = [k.state EXCEPT ![p] = "READY"] /\ w.next = [k.next EXCEPT ![p] = NULL]
      /\ w \in KernelType
  BY DEF KernelType, States, Ptr
<1> HIDE DEF w
<1>4. /\ a.pid = w.pid /\ a.headsleeper = w.headsleeper /\ a.que = w.que /\ a.tail = p
      /\ a.state = w.state /\ a.next = [w.next EXCEPT ![k.tail] = p]
  BY <1>3 DEF KernelType
<1>5. /\ b.pid = w.pid /\ b.headsleeper = w.headsleeper /\ b.tail = p
      /\ b.que["head"] = p /\ b.que["blocked_q"] = w.que["blocked_q"]
      /\ b.que["running"] = w.que["running"]
      /\ b.state = w.state /\ b.next = w.next
  BY <1>3 DEF KernelType, QNames
<1> HIDE DEF a, b
<1> QED BY <1>2, <1>3, <1>4, <1>5

(* ready(root) while it is on no list.                                     *)
LEMMA ready_Root ==
  ASSUME NEW k \in KernelType, NEW received, Twosome(k), received \/ k.que["blocked_q"] = NULL,
         Empty(k) \/ Lone(k, IDLE), ready(k, ROOT).fault = "none"
  PROVE  /\ Before(ready(k, ROOT), received)
         /\ Empty(k) => Lone(ready(k, ROOT), ROOT) /\ ready(k, ROOT).state[ROOT] = "READY"
<1> DEFINE r == ready(k, ROOT)
<1>1. k.pid[ROOT] # IDLE
  BY TheTwo DEF Twosome
<1>2. /\ r.pid = k.pid /\ r.headsleeper = k.headsleeper
      /\ r.state = [k.state EXCEPT ![ROOT] = "READY"]
      /\ r.que["blocked_q"] = k.que["blocked_q"] /\ r.tail = ROOT
      /\ r.que["head"] = IF k.tail = NULL THEN ROOT ELSE k.que["head"]
      /\ r.next = IF k.tail = NULL THEN [k.next EXCEPT ![ROOT] = NULL]
                  ELSE [[k.next EXCEPT ![ROOT] = NULL] EXCEPT ![k.tail] = ROOT]
  BY <1>1, TheTwo, readyIs
<1> HIDE DEF r
<1>3. k.state \in [Slots -> States] /\ k.next \in [Slots -> Ptr]
  BY DEF KernelType
<1>4. r.state[ROOT] = "READY" /\ Twosome(r) /\ Vacant(r, received)
  BY <1>2, <1>3, TheTwo DEF Twosome, Vacant
<1>5. Empty(k) => Lone(r, ROOT)
  BY <1>2, <1>3, TheTwo DEF Lone, Empty
<1>6. Lone(k, IDLE) => BothQueued(r)
  BY <1>2, <1>3, TheTwo DEF Lone, BothQueued
<1>7. Before(r, received) /\ (Empty(k) => Lone(r, ROOT) /\ r.state[ROOT] = "READY")
  BY <1>4, <1>5, <1>6 DEF Before
<1> QED BY <1>7 DEF r

(* ready(idleproc) does not queue it.                                      *)
LEMMA ready_Idle ==
  ASSUME NEW k \in KernelType, NEW received, Pair(k, received), ~Lone(k, IDLE),
         ready(k, IDLE).fault = "none"
  PROVE  Before(ready(k, IDLE), received) /\ ready(k, IDLE).que["head"] # IDLE
<1> DEFINE r == ready(k, IDLE)
<1>1. Twosome(k) /\ Vacant(k, received) /\ k.next \in [Slots -> Ptr] /\ k.state \in [Slots -> States]
  BY DEF Pair, KernelType
<1>2. /\ r.pid = k.pid /\ r.headsleeper = k.headsleeper
      /\ r.state = [k.state EXCEPT ![IDLE] = "READY"]
      /\ r.que["blocked_q"] = k.que["blocked_q"] /\ r.tail = k.tail
      /\ r.que["head"] = k.que["head"] /\ r.next = [k.next EXCEPT ![IDLE] = NULL]
  BY <1>1, TheTwo, readyIs DEF Twosome
<1> HIDE DEF r
<1>3. r.state[ROOT] = k.state[ROOT] /\ r.next[ROOT] = k.next[ROOT]
  BY <1>1, <1>2, TheTwo
<1>4. Twosome(r) /\ Vacant(r, received)
  BY <1>1, <1>2, <1>3 DEF Twosome, Vacant
<1>5. Empty(k) \/ (Lone(k, ROOT) /\ k.state[ROOT] = "READY")
  BY DEF Pair
<1>6. Empty(r) \/ (Lone(r, ROOT) /\ r.state[ROOT] = "READY")
  BY <1>2, <1>3, <1>5 DEF Empty, Lone
<1>7. Before(r, received) /\ r.que["head"] # IDLE
  BY <1>4, <1>6, TheTwo DEF Before, Empty, Lone
<1> QED BY <1>7 DEF r

(* append() to blocked_q.                                                  *)
LEMMA BlockIs ==
  ASSUME NEW k \in KernelType, NEW p \in Pcbs, NEW code, Block(k, p, code).fault = "none"
  PROVE  LET r    == Block(k, p, code)
             next == [k.next EXCEPT ![p] = NULL]
         IN  /\ r.pid = k.pid /\ r.headsleeper = k.headsleeper /\ r.tail = k.tail
             /\ r.state = [k.state EXCEPT ![p] = "BLOCKED"]
             /\ r.que["head"] = k.que["head"] /\ r.que["running"] = k.que["running"]
             /\ k.que["blocked_q"] = NULL => r.next = next /\ r.que["blocked_q"] = p
<1> DEFINE b    == [k EXCEPT !.state[p] = "BLOCKED", !.ret[p] = code]
           next == [b.next EXCEPT ![p] = NULL]
           last == LastOf(next, b.que["blocked_q"])
           x    == [b EXCEPT !.next = next, !.que["blocked_q"] = p]
           y    == [b EXCEPT !.next = next]
           z    == [b EXCEPT !.next = [next EXCEPT ![last] = p]]
<1>1. /\ b.pid = k.pid /\ b.headsleeper = k.headsleeper /\ b.tail = k.tail /\ b.que = k.que
      /\ b.next = k.next /\ b.state = [k.state EXCEPT ![p] = "BLOCKED"]
      /\ k.que \in [QNames -> Ptr] /\ DOMAIN b = DOMAIN k /\ b.fault = k.fault
  BY DEF KernelType
<1>2. Block(k, p, code) = append(b, "blocked_q", p)
  BY DEF Block
<1> HIDE DEF b
<1>3. append(b, "blocked_q", p) \in
        IF b.que["blocked_q"] = NULL THEN {x} ELSE {y, z, Fault(b, "loop")}
  BY DEF append
<1> HIDE DEF next, last
<1>4. Fault(b, "loop").fault # "none"
  BY <1>1 DEF Fault, KernelType
<1>5. /\ \A e \in {x, y, z} : /\ e.pid = b.pid /\ e.headsleeper = b.headsleeper
                              /\ e.tail = b.tail /\ e.state = b.state
      /\ x.next = next /\ y.next = next /\ z.next = [next EXCEPT ![last] = p]
      /\ y.que = b.que /\ z.que = b.que /\ x.que = [b.que EXCEPT !["blocked_q"] = p]
  BY <1>1 DEF KernelType
<1>6. /\ x.que["blocked_q"] = p /\ x.que["head"] = b.que["head"]
      /\ x.que["running"] = b.que["running"]
  BY <1>1, <1>5 DEF QNames
<1> HIDE DEF x, y, z
<1>7. next = [k.next EXCEPT ![p] = NULL]
  BY <1>1 DEF next
<1> DEFINE r == Block(k, p, code)
<1>8. r \in IF k.que["blocked_q"] = NULL THEN {x} ELSE {y, z}
  BY <1>1, <1>2, <1>3, <1>4
<1> HIDE DEF r
<1>9. /\ r.pid = k.pid /\ r.headsleeper = k.headsleeper /\ r.tail = k.tail
      /\ r.state = [k.state EXCEPT ![p] = "BLOCKED"]
      /\ r.que["head"] = k.que["head"] /\ r.que["running"] = k.que["running"]
  BY <1>1, <1>5, <1>6, <1>8
<1>10. k.que["blocked_q"] = NULL => r.next = next /\ r.que["blocked_q"] = p
  BY <1>5, <1>6, <1>8
<1> QED BY <1>7, <1>9, <1>10 DEF r

(* Root blocks; until idleproc has, nobody is on blocked_q before it.      *)
LEMMA Block_Root ==
  ASSUME NEW k \in KernelType, NEW received, Pair(k, received), k.state[ROOT] = "RUNNING",
         NEW code, Block(k, ROOT, code).fault = "none"
  PROVE  Before(Block(k, ROOT, code), received)
<1> DEFINE r == Block(k, ROOT, code)
<1>1. /\ Twosome(k) /\ Vacant(k, received) /\ k.next \in [Slots -> Ptr]
      /\ k.state \in [Slots -> States]
      /\ Empty(k) \/ (Lone(k, IDLE) /\ ~received)
      /\ received \/ k.que["blocked_q"] = NULL
  BY DEF Pair, KernelType, Vacant
<1>2. /\ r.pid = k.pid /\ r.headsleeper = k.headsleeper /\ r.tail = k.tail
      /\ r.state = [k.state EXCEPT ![ROOT] = "BLOCKED"]
      /\ r.que["head"] = k.que["head"]
      /\ k.que["blocked_q"] = NULL =>
           r.next = [k.next EXCEPT ![ROOT] = NULL] /\ r.que["blocked_q"] = ROOT
  BY TheTwo, BlockIs
<1> HIDE DEF r
<1>3. Twosome(r)
  BY <1>1, <1>2 DEF Twosome
<1>4. Vacant(r, received)
  BY <1>1, <1>2, TheTwo DEF Vacant
<1>5. Empty(r) \/ Lone(r, IDLE)
  BY <1>1, <1>2, TheTwo DEF Empty, Lone
<1>6. Before(r, received)
  BY <1>3, <1>4, <1>5 DEF Before
<1> QED BY <1>6 DEF r

(* idleproc blocks, and has then.                                          *)
LEMMA Block_Idle ==
  ASSUME NEW k \in KernelType, Pair(k, FALSE), k.que["running"] = IDLE,
         NEW code, Block(k, IDLE, code).fault = "none"
  PROVE  Before(Block(k, IDLE, code), TRUE) /\ Block(k, IDLE, code).que["head"] # IDLE
<1> DEFINE r == Block(k, IDLE, code)
<1>1. /\ Twosome(k) /\ Vacant(k, FALSE) /\ k.next \in [Slots -> Ptr]
      /\ k.state \in [Slots -> States]
      /\ Empty(k) \/ (Lone(k, ROOT) /\ k.state[ROOT] = "READY" /\ k.que["blocked_q"] = NULL)
  BY TheTwo DEF Pair, KernelType, Vacant
<1>2. /\ r.pid = k.pid /\ r.headsleeper = k.headsleeper /\ r.tail = k.tail
      /\ r.state = [k.state EXCEPT ![IDLE] = "BLOCKED"]
      /\ r.que["head"] = k.que["head"]
      /\ k.que["blocked_q"] = NULL => r.next = [k.next EXCEPT ![IDLE] = NULL]
  BY TheTwo, BlockIs
<1> HIDE DEF r
<1>3. Twosome(r) /\ Vacant(r, TRUE)
  BY <1>1, <1>2 DEF Twosome, Vacant
<1>4. Empty(r) \/ (Lone(r, ROOT) /\ r.state[ROOT] = "READY")
  BY <1>1, <1>2, TheTwo DEF Empty, Lone
<1>5. Before(r, TRUE) /\ r.que["head"] # IDLE
  BY <1>3, <1>4, TheTwo DEF Before, Empty, Lone
<1> QED BY <1>5 DEF r

(* remove() takes the only one off blocked_q.                              *)
LEMMA removeIs ==
  ASSUME NEW k \in KernelType, PidsNameSlots(k), Twosome(k),
         remove(k, "blocked_q", ROOT).fault = "none"
  PROVE  LET m == remove(k, "blocked_q", ROOT)
         IN  /\ m.pid = k.pid /\ m.headsleeper = k.headsleeper /\ m.tail = k.tail
             /\ m.state = k.state /\ m.que["head"] = k.que["head"]
             /\ m.que["running"] = k.que["running"]
             /\ Vacant(k, FALSE) => m.que["blocked_q"] = NULL
<1> DEFINE from  == k.que["blocked_q"]
           found == {s \in Members(k.next, from) : k.pid[s] = ROOT}
           s     == CHOOSE x \in found : TRUE
           e     == [k EXCEPT !.que["blocked_q"] = k.next[s], !.next[s] = NULL]
           l     == [k EXCEPT !.que["blocked_q"] = LastOf(k.next, from)]
           m     == remove(k, "blocked_q", ROOT)
<1>1. Fault(k, "loop").fault # "none" /\ "blocked_q" \in QNames
  BY DEF Fault, KernelType, QNames
<1>2. /\ m \in {k, e, l}
      /\ from = NULL => m = k
      /\ from # NULL /\ found # {} => m = e
  BY <1>1 DEF remove
<1>3. Vacant(k, FALSE) => from = NULL \/ (from # NULL /\ found # {} /\ s = ROOT /\ k.next[s] = NULL)
  <2>1. \A x \in found : x = ROOT
    <3> SUFFICES ASSUME NEW x \in found PROVE x = ROOT
      OBVIOUS
    <3>1. x \in Pcbs /\ k.pid[x] = ROOT
      BY DEF Members
    <3>2. Slot(ROOT) = ROOT /\ x \in Slots
      BY <3>1, Constants, SlotOfSlot
    <3>3. k.pid[x] > 0
      BY <3>1 DEF ROOT
    <3>4. Slot(k.pid[x]) = x
      BY <3>2, <3>3 DEF PidsNameSlots
    <3> QED BY <3>1, <3>2, <3>4
  <2>2. from = ROOT => ROOT \in found
    <3> SUFFICES ASSUME from = ROOT PROVE ROOT \in found
      OBVIOUS
    <3>1. Chain(k.next, from)[0] = ROOT
      BY ChainIs
    <3>2. 0 \in 0 .. MAX_PROC
      BY Constants
    <3>3. ROOT \in Members(k.next, from)
      BY <3>1, <3>2, TheTwo DEF Members
    <3> QED BY <3>3 DEF Twosome
  <2>3. from = ROOT => found # {} /\ s = ROOT
    BY <2>1, <2>2
  <2> HIDE DEF found, s
  <2> QED BY <2>3, TheTwo DEF Vacant
<1> HIDE DEF s, found
<1>4. /\ \A x \in {k, e, l} : /\ x.pid = k.pid /\ x.headsleeper = k.headsleeper /\ x.tail = k.tail
                              /\ x.state = k.state /\ x.que["head"] = k.que["head"]
                              /\ x.que["running"] = k.que["running"]
      /\ e.que["blocked_q"] = k.next[s]
  BY DEF KernelType, QNames
<1> HIDE DEF e, l, m
<1>5. /\ m.pid = k.pid /\ m.headsleeper = k.headsleeper /\ m.tail = k.tail
      /\ m.state = k.state /\ m.que["head"] = k.que["head"] /\ m.que["running"] = k.que["running"]
  BY <1>2, <1>4
<1>6. Vacant(k, FALSE) => m.que["blocked_q"] = NULL
  BY <1>2, <1>3, <1>4
<1> QED BY <1>5, <1>6 DEF m

(* A key makes root ready again.                                           *)
LEMMA notifyPair ==
  ASSUME NEW k \in KernelType, OneRuns(k), PidsNameSlots(k), NEW received, Pair(k, received),
         k.state[ROOT] = "BLOCKED", NEW d, d.reader = ROOT, d.applbufidx \in Int,
         notify(k, d)[1].fault = "none"
  PROVE  Pair(notify(k, d)[1], received)
<1> DEFINE m == remove(k, "blocked_q", ROOT)
           w == [m EXCEPT !.ret[ROOT] = d.applbufidx]
           r == ready(w, ROOT)
<1>1. /\ Twosome(k) /\ Vacant(k, received) /\ k.que["running"] \in {ROOT, IDLE}
      /\ k.pid[ROOT] = ROOT
  BY DEF Pair, Twosome
<1>2. notify(k, d)[1] = r
  BY <1>1 DEF notify
<1>3. Empty(k) /\ k.que["running"] = IDLE
  <2>1. k.que["running"] # ROOT
    BY TheTwo DEF OneRuns
  <2> QED BY <1>1, <2>1 DEF Pair
<1>4. m \in KernelType
  BY remove_Keeps
<1>5. /\ w \in KernelType /\ w.fault = m.fault /\ w.pid = m.pid /\ w.headsleeper = m.headsleeper
      /\ w.tail = m.tail /\ w.que = m.que
  <2> HIDE DEF m
  <2> QED BY <1>4 DEF KernelType
<1> HIDE DEF w
<1>6. r.fault = "none" /\ w.fault = "none" /\ r.que["running"] = w.que["running"]
  <2>1. r.fault = "none"
    BY <1>2
  <2>2. w \in KernelType /\ ROOT \in Slots
    BY <1>5, TheTwo
  <2> QED BY <2>1, <2>2, ready_Keeps
<1>7. /\ m.pid = k.pid /\ m.headsleeper = k.headsleeper /\ m.tail = k.tail
      /\ m.que["head"] = k.que["head"] /\ m.que["running"] = k.que["running"]
      /\ Vacant(k, FALSE) => m.que["blocked_q"] = NULL
  BY <1>1, <1>5, <1>6, removeIs
<1> HIDE DEF m
<1>8. Twosome(w) /\ Empty(w) /\ (received \/ w.que["blocked_q"] = NULL)
  BY <1>1, <1>3, <1>5, <1>7 DEF Twosome, Empty, Vacant
<1>9. Before(r, received) /\ Lone(r, ROOT) /\ r.state[ROOT] = "READY"
  BY <1>5, <1>6, <1>8, ready_Root
<1> HIDE DEF r
<1>10. Pair(r, received)
  BY <1>3, <1>5, <1>6, <1>7, <1>9 DEF Pair, Before
<1> QED BY <1>2, <1>10

-----------------------------------------------------------------------------
(* What a step makes of the two, and of the reader.                        *)
Pairs(a, b) == Pair(kern, a) => Pair(kern', b) /\ (Running # ROOT => Keeps(kern, kern'))

(* That idleproc has received says less, once it runs.                     *)
LEMMA PairAges ==
  ASSUME NEW k, NEW a, NEW b, a = b \/ (a = FALSE /\ b = TRUE /\ k.que["running"] = IDLE),
         Pair(k, a)
  PROVE  Pair(k, b)
BY TheTwo DEF Pair, Vacant

(* What is kept of the memory when the request ends in no fault.           *)
LEMMA ServePairs ==
  ASSUME Inv, NEW k, Serve(k), NEW a, NEW b, a = b \/ (a = FALSE /\ b = TRUE /\ Running = IDLE),
         k.fault = "none" /\ Pair(kern, a) => Pair(k, b) /\ (Running # ROOT => Keeps(kern, k))
  PROVE  Pairs(a, b)
<1>1. CASE k.fault = "none"
  BY <1>1 DEF Serve, Pairs
<1>2. CASE k.fault # "none"
  <2>1. /\ kern'.next = kern.next /\ kern'.que = kern.que /\ kern'.headsleeper = kern.headsleeper
        /\ kern'.pid = kern.pid /\ kern'.state = kern.state /\ kern'.ret = kern.ret
        /\ kern'.tail = kern.tail
    BY <1>2, RunningIs DEF Serve, KernelType
  <2>2. Keeps(kern, kern')
    BY <2>1 DEF Keeps, Reads
  <2>3. Pair(kern, a) => Pair(kern, b)
    BY PairAges DEF Running
  <2>4. Pair(kern, b) => Pair(kern', b)
    BY <2>1, SamePair
  <2> QED BY <2>2, <2>3, <2>4 DEF Pairs
<1> QED BY <1>1, <1>2

(* A request after which next() decides.                                   *)
LEMMA DispatchPairs ==
  ASSUME Inv, RootReads(kern), NEW m, Gave(kern, Running, m), NEW b, m.fault = "none" => Before(m, b),
         Running # ROOT /\ m.fault = "none" =>
            Quiet(kern, m) /\ Keeps(kern, m) /\ m.que["head"] # IDLE,
         Dispatch(m).fault = "none"
  PROVE  Pair(Dispatch(m), b) /\ (Running # ROOT => Keeps(kern, Dispatch(m)))
<1>1. m \in KernelType /\ m.fault = "none" /\ PidsNameSlots(m)
  <2>1. m \in KernelType /\ (m.fault = "none" => Runners(m) = {})
    <3>1. Runners(kern) \subseteq {Running}
      BY RunningIsPcb DEF OneRuns, Runners, Running
    <3> QED BY <3>1 DEF Gave
  <2>2. m.fault = "none"
    BY <2>1, Dispatch_Gives
  <2>3. m.pid = kern.pid
    BY <2>2 DEF Gave
  <2>4. PidsNameSlots(kern)
    BY InvIs
  <2> QED BY <2>1, <2>2, <2>3, <2>4 DEF PidsNameSlots
<1>2. Pair(Dispatch(m), b)
  BY <1>1, DispatchPair
<1>3. ASSUME Running # ROOT PROVE Keeps(kern, Dispatch(m))
  <2>1. RootReads(m)
    BY <1>1, <1>3 DEF RootReads, Quiet, Reads
  <2>2. Keeps(m, Dispatch(m))
    BY <1>1, <1>3, <2>1, Dispatch_Reads
  <2> QED BY <1>1, <1>3, <2>2, KeepsTwice
<1> QED BY <1>2, <1>3

(* The caller is made ready.                                               *)
LEMMA readyPairs ==
  ASSUME Inv, NEW k \in KernelType, NEW a, Pair(k, a), k.que["running"] = Running,
         k.state[Running] = "RUNNING", ready(k, Running).fault = "none"
  PROVE  /\ Before(ready(k, Running), a)
         /\ Running # ROOT => ready(k, Running).que["head"] # IDLE
<1>1. Running \in {ROOT, IDLE} /\ Twosome(k) /\ Vacant(k, a)
  BY DEF Pair
<1>2. CASE Running = ROOT
  <2>1. Empty(k) \/ Lone(k, IDLE)
    BY <1>2 DEF Pair
  <2>2. a \/ k.que["blocked_q"] = NULL
    BY <1>1, <1>2 DEF Vacant
  <2> QED BY <1>1, <1>2, <2>1, <2>2, ready_Root
<1>3. CASE Running = IDLE
  <2>1. ~Lone(k, IDLE)
    BY <1>3, TheTwo DEF Pair, Empty, Lone
  <2>2. ready(k, IDLE).fault = "none"
    BY <1>3
  <2> QED BY <1>3, <2>1, <2>2, ready_Idle
<1> QED BY <1>1, <1>2, <1>3

(* SYS_YIELD.                                                              *)
LEMMA YieldPairs == ASSUME Inv, RootReads(kern), Yield, NEW a PROVE Pairs(a, a)
<1> DEFINE m == ready(kern, Running)
<1>1. Gave(kern, Running, m) /\ Quiet(kern, m)
  BY RunningIs, ready_Gives, ready_Calls
<1>2. Keeps(kern, m)
  <2>1. ~Reads(kern, Running)
    BY RunningIs DEF Reads
  <2> QED BY <2>1, RunningIs, ready_Reads
<1>3. Serve(Dispatch(m))
  BY DEF Yield
<1>4. m.fault = "none" /\ Pair(kern, a) => Before(m, a) /\ (Running # ROOT => m.que["head"] # IDLE)
  BY RunningIs, readyPairs DEF Running
<1> HIDE DEF m
<1>5. Dispatch(m).fault = "none" /\ Pair(kern, a) =>
        Pair(Dispatch(m), a) /\ (Running # ROOT => Keeps(kern, Dispatch(m)))
  BY <1>1, <1>2, <1>4, DispatchPairs
<1> QED BY <1>3, <1>5, ServePairs

(* A request that returns at once.                                         *)
LEMMA ReturnsPairs == ASSUME Inv, NEW n, Serve(Returns(n)), NEW a PROVE Pairs(a, a)
<1> DEFINE k == Returns(n)
<1>1. /\ k.next = kern.next /\ k.que = kern.que /\ k.headsleeper = kern.headsleeper
      /\ k.pid = kern.pid /\ k.state = kern.state /\ k.tail = kern.tail
  BY RunningIs DEF Returns, KernelType
<1>2. Keeps(kern, k)
  BY ReturnsKeeps
<1> HIDE DEF k
<1>3. Pair(kern, a) => Pair(k, a)
  BY <1>1, SamePair
<1>4. Serve(k)
  BY DEF k
<1> QED BY <1>2, <1>3, <1>4, ServePairs

(* The timer.                                                              *)
LEMMA TimerPairs ==
  ASSUME Inv, RootReads(kern), NEW eax \in Int, TimerAt(eax), NEW a PROVE Pairs(a, a)
<1> DEFINE k0 == [kern EXCEPT !.ret[Running] = eax]
           k1 == ready(k0, Running)
           k2 == Dispatch(k1)
           k3 == tick(k2)
<1>1. /\ kern \in KernelType /\ Running \in Pcbs /\ Running \in Slots
      /\ kern.state[Running] = "RUNNING"
  BY RunningIs
<1>2. k0 \in KernelType /\ Undisturbed(kern, k0)
  BY <1>1, SetRet
<1>3. /\ k0.state = kern.state /\ k0.call = kern.call /\ k0.ret = [kern.ret EXCEPT ![Running] = eax]
      /\ k0.next = kern.next /\ k0.que = kern.que /\ k0.headsleeper = kern.headsleeper
      /\ k0.pid = kern.pid /\ k0.tail = kern.tail
  BY <1>1 DEF KernelType
<1>4. Serve(k3)
  BY DEF TimerAt
<1> HIDE DEF k0
<1>5. /\ Quiet(kern, k0) /\ Keeps(kern, k0)
      /\ ~Reads(kern, Running) /\ ~Reads(k0, Running)
      /\ Pair(kern, a) => Pair(k0, a)
  BY <1>1, <1>3, SamePair DEF Quiet, Keeps, Reads, KernelType
<1>6. Gave(kern, Running, k1)
  BY <1>1, <1>2, ready_Gives, GaveAfter
<1>7. Quiet(k0, k1) /\ Keeps(k0, k1)
  BY <1>1, <1>2, <1>5, ready_Calls, ready_Reads
<1>8. k1.fault = "none" /\ Pair(kern, a) => Before(k1, a) /\ (Running # ROOT => k1.que["head"] # IDLE)
  BY <1>1, <1>2, <1>3, <1>5, readyPairs DEF Running
<1> HIDE DEF k1
<1>9. Quiet(kern, k1) /\ Keeps(kern, k1)
  BY <1>5, <1>7, QuietTwice, KeepsTwice
<1>10. k2.fault = "none" /\ Pair(kern, a) =>
         Pair(k2, a) /\ (Running # ROOT => Keeps(kern, k2))
  BY <1>6, <1>8, <1>9, DispatchPairs
<1>11. k2 \in KernelType
  BY <1>6, DispatchKeeps
<1> HIDE DEF k2
<1>12. k3.fault = "none" => k2.fault = "none"
  BY <1>11, tick_Keeps DEF Undisturbed
<1>13. Pair(k2, a) => k3 = k2
  BY DEF tick, Pair, Twosome
<1> HIDE DEF k3
<1>14. k3.fault = "none" /\ Pair(kern, a) => Pair(k3, a) /\ (Running # ROOT => Keeps(kern, k3))
  BY <1>10, <1>12, <1>13
<1> QED BY <1>4, <1>14, ServePairs

(* SYS_READ, of root.                                                      *)
LEMMA ReadPairs ==
  ASSUME Inv, RootReads(kern), Running = ROOT, NEW f, NEW n, Read(f, n), NEW a PROVE Pairs(a, a)
<1>1. CASE ~validate_fd(dev, Running, f)
  BY <1>1, ReturnsPairs DEF Read, ServeDev, ServeSig
<1>2. CASE validate_fd(dev, Running, f) /\ dev.eof_received
  BY <1>2, ReturnsPairs DEF Read, ServeDev, ServeSig
<1>3. CASE validate_fd(dev, Running, f) /\ ~dev.eof_received
  <2> DEFINE b == Block(kern, Running, SYS_READ)
  <2>1. Serve(Dispatch(b))
    BY <1>3 DEF Read, ServeDev, ServeSig
  <2>2. SYS_READ \in Int
    BY DEF SYS_READ
  <2>3. Gave(kern, Running, b)
    BY <2>2, RunningIs, Block_Gives
  <2>4. b.fault = "none" /\ Pair(kern, a) => Before(b, a)
    BY RunningIs, Block_Root
  <2> HIDE DEF b
  <2>5. Dispatch(b).fault = "none" /\ Pair(kern, a) => Pair(Dispatch(b), a)
    BY <2>3, <2>4, DispatchPairs
  <2> QED BY <2>1, <2>5, ServePairs
<1> QED BY <1>1, <1>2, <1>3

(* idleproc's receive: it finds no sender, and blocks.                     *)
LEMMA RecvBlocks ==
  ASSUME NEW k \in KernelType, NEW p \in Pcbs, \A s \in Slots : k.call[s] # "send",
         k.arg[p] = 0, k.pid[p] # 0, SysRecv(k, p, TRUE, {}).fault = "none"
  PROVE  SysRecv(k, p, TRUE, {}) = Block(k, p, SYS_RECV)
<1> DEFINE at   == Chain(k.next, k.que["blocked_q"])
           hits == {n \in 0 .. MAX_PROC :
                      at[n] \in Pcbs /\ at[n] # p /\ SendsTo(k, at[n], k.pid[p], {})}
           m    == IF at[MAX_PROC] # NULL THEN Fault(k, "loop") ELSE k
           rc   == validate(k, p, 0, TRUE)
<1>1. hits = {}
  BY Constants DEF SendsTo
<1>2. RecvAny(k, p, {}) = Outcome(m, 0, 0)
  BY <1>1 DEF RecvAny
<1>3. rc = 0
  BY DEF validate, valid
<1>4. SysRecv(k, p, TRUE, {}) = Block(m, p, SYS_RECV)
  <2> DEFINE o == Outcome(m, 0, 0)
  <2>1. o.mem = m /\ o.rc = 0
    BY DEF Outcome
  <2> HIDE DEF m, hits
  <2>2. validate(k, p, k.arg[p], TRUE) = 0
    BY DEF validate, valid
  <2> HIDE DEF o, rc
  <2>4. ~(0 < 0) /\ ~(o.rc > 0) /\ ~(o.rc < 0)
    BY <2>1
  <2>3. SysRecv(k, p, TRUE, {}) = Finish(o, p, SYS_RECV)
    BY <1>2, <2>2, <2>4, Zenon DEF SysRecv, o
  <2> QED BY <2>1, <2>3, <2>4, Zenon DEF Finish
<1>5. CASE at[MAX_PROC] # NULL
  <2> DEFINE f == Fault(k, "loop")
  <2>1. f \in KernelType /\ f.fault # "none"
    BY FaultKeeps DEF Faults, Fault, KernelType
  <2>2. SysRecv(k, p, TRUE, {}) = Block(f, p, SYS_RECV)
    BY <1>4, <1>5
  <2> HIDE DEF f
  <2>3. SYS_RECV \in Int
    BY DEF SYS_RECV
  <2>4. Gave(f, p, Block(f, p, SYS_RECV))
    BY <2>1, <2>3, Block_Gives
  <2> QED BY <2>1, <2>2, <2>4 DEF Gave
<1>6. CASE ~(at[MAX_PROC] # NULL)
  BY <1>4, <1>6
<1> QED BY <1>5, <1>6

(* SYS_RECV, of idleproc.                                                  *)
LEMMA RecvPairs ==
  ASSUME Inv, RootReads(kern), Running = IDLE, \A s \in Slots : kern.call[s] # "send",
         NEW buf \in Nat, RecvOfAny(buf, TRUE)
  PROVE  Pairs(FALSE, TRUE)
<1> DEFINE w == WithArgs(kern, Running, "recv", 0, buf, 0)
           r == SysRecv(w, Running, TRUE, {})
<1>1. /\ kern \in KernelType /\ Running \in Pcbs /\ Running \in Slots
      /\ kern.state[Running] = "RUNNING"
  BY RunningIs
<1>2. w \in KernelType /\ Undisturbed(kern, w)
  BY <1>1, WithArgs_Keeps
<1>3. /\ w.state = kern.state /\ w.ret = kern.ret /\ w.arg[Running] = 0
      /\ w.call = [kern.call EXCEPT ![Running] = "recv"]
      /\ w.next = kern.next /\ w.que = kern.que /\ w.headsleeper = kern.headsleeper
      /\ w.pid = kern.pid /\ w.tail = kern.tail
  BY <1>1 DEF WithArgs, KernelType
<1>4. Serve(Dispatch(r))
  BY DEF RecvOfAny
<1> HIDE DEF w
<1>5. Gave(kern, Running, r) /\ r \in KernelType
  <2>1. Gave(w, Running, r)
    BY <1>1, <1>2, SysRecv_Gives
  <2>2. Gave(kern, Running, r)
    BY <1>2, <2>1, GaveAfter
  <2> QED BY <2>2 DEF Gave
<1>6. \A s \in Slots : w.call[s] # "send"
  BY <1>1, <1>3 DEF KernelType
<1>7. Quiet(kern, r)
  <2>1. Quiet(kern, w)
    BY <1>3, <1>6 DEF Quiet
  <2>2. Quiet(w, r)
    BY <1>1, <1>2, <1>3, <1>6, SysRecv_Quiet
  <2> QED BY <2>1, <2>2, QuietTwice
<1>8. ASSUME r.fault = "none", Pair(kern, FALSE)
      PROVE  Before(r, TRUE) /\ r.que["head"] # IDLE /\ Keeps(kern, r)
  <2>1. Pair(w, FALSE) /\ w.que["running"] = IDLE /\ w.pid[IDLE] # 0
    <3>1. Pair(w, FALSE)
      BY <1>3, <1>8, SamePair
    <3>2. w.pid[IDLE] = IDLE
      BY <3>1 DEF Pair, Twosome
    <3> QED BY <1>3, <3>1, <3>2, TheTwo DEF Running
  <2>2. r = Block(w, IDLE, SYS_RECV)
    BY <1>1, <1>2, <1>3, <1>6, <1>8, <2>1, RecvBlocks
  <2>3. Keeps(kern, w) /\ ~Reads(w, IDLE) /\ SYS_RECV \in Int
    BY <1>1, <1>3 DEF Keeps, Reads, SYS_RECV
  <2>4. Keeps(w, Block(w, IDLE, SYS_RECV))
    BY <1>2, <2>3, TheTwo, Block_Reads
  <2>5. Block(w, IDLE, SYS_RECV).fault = "none"
    BY <1>8, <2>2
  <2>6. Before(Block(w, IDLE, SYS_RECV), TRUE) /\ Block(w, IDLE, SYS_RECV).que["head"] # IDLE
    BY <1>2, <2>1, <2>5, Block_Idle
  <2>7. Keeps(kern, Block(w, IDLE, SYS_RECV))
    BY <2>3, <2>4, KeepsTwice
  <2> HIDE DEF r
  <2> QED BY <2>2, <2>6, <2>7
<1> HIDE DEF r
<1>9. Dispatch(r).fault = "none" /\ Pair(kern, FALSE) =>
        Pair(Dispatch(r), TRUE) /\ (Running # ROOT => Keeps(kern, Dispatch(r)))
  <2>1. SUFFICES ASSUME Dispatch(r).fault = "none", Pair(kern, FALSE)
                 PROVE  Pair(Dispatch(r), TRUE) /\ (Running # ROOT => Keeps(kern, Dispatch(r)))
    OBVIOUS
  <2> QED BY <1>5, <1>7, <1>8, <2>1, DispatchPairs
<1> QED BY <1>4, <1>9, ServePairs

(* A key.                                                                  *)
LEMMA KeyboardPairs ==
  ASSUME Inv, Served(kern, dev), ReadersWhole, NEW key \in Keys, NEW up, Keyboard(key, up), NEW a
  PROVE  Pair(kern, a) => Pair(kern', a)
<1>1. CASE kern' = kern
  BY <1>1
<1>2. CASE \E f : kern' = [kern EXCEPT !.fault = f]
  <2>1. /\ kern'.next = kern.next /\ kern'.que = kern.que /\ kern'.headsleeper = kern.headsleeper
        /\ kern'.pid = kern.pid /\ kern'.state = kern.state /\ kern'.tail = kern.tail
    BY <1>2, RunningIs DEF KernelType
  <2> QED BY <2>1, SamePair
<1>3. CASE /\ kern'.fault = "none" /\ kern.state[ROOT] = "BLOCKED"
           /\ \E e : kern' = notify(kern, e)[1] /\ e.reader = ROOT /\ e.applbufidx \in Int
  <2>1. PICK e : kern' = notify(kern, e)[1] /\ e.reader = ROOT /\ e.applbufidx \in Int
    BY <1>3
  <2>2. OneRuns(kern) /\ PidsNameSlots(kern) /\ kern \in KernelType
    BY InvIs
  <2> DEFINE n == notify(kern, e)[1]
  <2>3. n.fault = "none" /\ kern' = n
    BY <1>3, <2>1
  <2>4. Pair(kern, a) => Pair(n, a)
    <3> SUFFICES ASSUME Pair(kern, a) PROVE Pair(n, a)
      OBVIOUS
    <3> QED BY <1>3, <2>1, <2>2, <2>3, notifyPair
  <2> HIDE DEF n
  <2> QED BY <2>3, <2>4
<1> QED BY <1>1, <1>2, <1>3, KeyboardFeeds

-----------------------------------------------------------------------------
(* A key opens and closes nothing.                                         *)
SameFd(d, e) == "fd" \in DOMAIN e /\ e.fd = d.fd

(* A full buffer.                                                          *)
LEMMA DrainFd ==
  ASSUME NEW k, NEW d, "fd" \in DOMAIN d PROVE SameFd(d, Drain(k, d)[2])
<1> DEFINE n    == Copied(d)
           idx  == d.applbufidx + n
           over == Behind(d, d.applbufidx + n - 1)
           full == [d EXCEPT !.applbufidx = idx, !.overrun = over]
           none == [full EXCEPT !.kbdbuffer = <<>>]
<1> DEFINE rest(b) == [full EXCEPT !.kbdbuffer = b]
           told(e) == [e EXCEPT !.appl = FALSE, !.applbufsize = 0, !.applbufidx = 0, !.reader = NULL]
<1>1. PICK b : b = [i \in 1 .. n |-> IF i + n <= KBDBUFSZ THEN d.kbdbuffer[i + n]
                                      ELSE d.kbdbuffer[i]]
  OBVIOUS
<1>2. Drain(k, d)[2] \in {none, told(rest(b)), rest(b)}
  BY <1>1 DEF Drain, notify
<1>3. SameFd(d, none) /\ SameFd(d, rest(b)) /\ SameFd(d, told(rest(b)))
  <2> HIDE DEF n, idx, over
  <2>1. DOMAIN full = DOMAIN d /\ full.fd = d.fd
    OBVIOUS
  <2> HIDE DEF full
  <2>2. DOMAIN none = DOMAIN d /\ none.fd = d.fd /\ DOMAIN rest(b) = DOMAIN d /\ rest(b).fd = d.fd
    BY <2>1
  <2> HIDE DEF none, rest
  <2>3. DOMAIN told(rest(b)) = DOMAIN d /\ told(rest(b)).fd = d.fd
    BY <2>2
  <2> HIDE DEF told
  <2> QED BY <2>2, <2>3 DEF SameFd
<1> HIDE DEF none, rest, told
<1> QED BY <1>2, <1>3

(* A character that is kept.                                               *)
LEMMA KeepFd ==
  ASSUME NEW k, NEW d, "fd" \in DOMAIN d, NEW key, NEW up PROVE SameFd(d, Keep(k, d, key, up)[2])
<1> DEFINE s == Store(d, key, up)
<1>1. SameFd(d, d) /\ SameFd(d, s)
  BY DEF SameFd, Store
<1>2. Keep(k, d, key, up)[2] \in {d, s, Drain(k, s)[2]}
  <2> HIDE DEF s
  <2>1. CASE up \/ is_control_code(key, up)
    BY <2>1 DEF Keep
  <2>2. CASE ~(up \/ is_control_code(key, up)) /\ Len(s.kbdbuffer) >= KBDBUFSZ /\ s.appl
    BY <2>2 DEF Keep, s
  <2>3. CASE ~(up \/ is_control_code(key, up)) /\ ~(Len(s.kbdbuffer) >= KBDBUFSZ /\ s.appl)
    BY <2>3 DEF Keep, s
  <2> QED BY <2>1, <2>2, <2>3
<1> HIDE DEF s
<1>3. SameFd(s, Drain(k, s)[2])
  BY <1>1, DrainFd DEF SameFd
<1> QED BY <1>1, <1>2, <1>3 DEF SameFd

(* Any key.                                                                *)
LEMMA KeyFd ==
  ASSUME NEW k, NEW d \in DevType, NEW key, NEW up
  PROVE  SameFd(d, process_key(k, d, key, up)[2])
<1> DEFINE st == NextState(d.state, key, up)
           e == [d EXCEPT !.state = st]
           f == Flush(e, key, up)
           x == Append([i \in DOMAIN e.kbdbuffer |-> "char"], "char")
           a == [e EXCEPT !.kbdbuffer = x]
           told(g) == [g EXCEPT !.appl = FALSE, !.applbufsize = 0, !.applbufidx = 0, !.reader = NULL]
           r == process_key(k, d, key, up)
<1>1. r[2] \in {a, e, told(f), Keep(k, f, key, up)[2], Keep(k, e, key, up)[2]}
  <2>1. r = IF ~e.appl
            THEN <<k, IF Len(e.kbdbuffer) < KBDBUFSZ THEN a ELSE e>>
            ELSE IF Completes(e, key, up)
                 THEN IF Waiting(k, f) THEN notify(k, f) ELSE Keep(k, f, key, up)
            ELSE Keep(k, e, key, up)
    BY DEF process_key
  <2>2. notify(k, f)[2] = told(f)
    BY DEF notify
  <2> HIDE DEF e, f, a, told, r
  <2> QED BY <2>1, <2>2
<1>2. SameFd(d, e)
  <2> HIDE DEF st
  <2> QED BY DEF SameFd, DevType
<1> HIDE DEF e
<1>3. SameFd(d, a) /\ SameFd(d, f)
  <2> HIDE DEF x
  <2> QED BY <1>2 DEF SameFd, Flush
<1> HIDE DEF a, f
<1>4. SameFd(d, told(f))
  BY <1>3 DEF SameFd
<1> HIDE DEF told
<1>5. SameFd(d, Keep(k, f, key, up)[2]) /\ SameFd(d, Keep(k, e, key, up)[2])
  BY <1>2, <1>3, KeepFd DEF SameFd
<1> HIDE DEF r
<1>6. SameFd(d, r[2])
  BY <1>1, <1>2, <1>3, <1>4, <1>5 DEF SameFd
<1> QED BY <1>6 DEF r

-----------------------------------------------------------------------------
(* The programs at their calls.  A step moves the process that runs, in    *)
(* its program; syscreate starts one where none was.                       *)
Moves ==
  /\ \A s \in Slots \ {Running} : proc'[s] = proc[s]
  /\ proc'[Running].program = proc[Running].program
  /\ proc'[Running].at \in {proc[Running].at, proc[Running].at + 1}

(* Going on, and waiting for the result.                                   *)
LEMMA AdvanceIs ==
  ASSUME Inv, ProgramsInv, Advance
  PROVE  /\ Moves /\ proc'[Running].at = proc[Running].at + 1
         /\ proc'[Running].called = proc[Running].called
<1>1. Running \in Slots /\ proc \in [Slots -> Proc] /\ proc[Running] \in Proc
  BY RunningIs DEF ProgramsInv
<1>2. proc' = [proc EXCEPT ![Running].at = proc[Running].at + 1]
  BY DEF Advance
<1> QED BY <1>1, <1>2 DEF Moves, Proc

(* Waiting for the result leaves the process where it is.                  *)
LEMMA AwaitIs ==
  ASSUME Inv, ProgramsInv, Await
  PROVE  Moves /\ proc'[Running].at = proc[Running].at
<1>1. Running \in Slots /\ proc \in [Slots -> Proc] /\ proc[Running] \in Proc
  BY RunningIs DEF ProgramsInv
<1>2. proc' = [proc EXCEPT ![Running].called = TRUE]
  BY DEF Await
<1> QED BY <1>1, <1>2 DEF Moves, Proc

(* Taking the result.                                                      *)
LEMMA TakesIs ==
  ASSUME Inv, ProgramsInv, UserTakes
  PROVE  Moves /\ proc'[Running].called = FALSE /\ UNCHANGED <<kern, sig, dev>>
<1>1. Running \in Slots /\ proc \in [Slots -> Proc] /\ proc[Running] \in Proc
  BY RunningIs DEF ProgramsInv
<1> DEFINE p == proc[Running]
           back == [p EXCEPT !.called = FALSE]
           next == [p EXCEPT !.called = FALSE, !.at = @ + 1]
           kept == [next EXCEPT !.fd = kern.ret[Running]]
<1>2. proc' = [proc EXCEPT ![Running] =
                  IF Instr.op = "open" THEN kept
                  ELSE IF Again(Instr.again, kern.ret[Running]) THEN back ELSE next]
  BY DEF UserTakes, Me
<1>3. PICK q \in {kept, back, next} : proc' = [proc EXCEPT ![Running] = q]
  BY <1>2
<1>4. p \in Proc
  BY <1>1
<1>5. \A x \in {kept, back, next} :
        x.program = p.program /\ x.at \in {p.at, p.at + 1} /\ x.called = FALSE
  <2> HIDE DEF p
  <2> QED BY <1>4 DEF Proc
<1>6. proc'[Running] = q /\ \A s \in Slots \ {Running} : proc'[s] = proc[s]
  BY <1>1, <1>3
<1> HIDE DEF kept, back, next
<1> QED BY <1>5, <1>6 DEF Moves, UserTakes

(* All the steps but syscreate.                                            *)
LEMMA StepsMove ==
  ASSUME UserInv, [NextUser]_userVars, ~UserCreates
  PROVE  Moves \/ UNCHANGED proc
<1>1. Inv /\ ProgramsInv
  BY DEF UserInv, SigInv
<1>2. \/ Advance \/ Await \/ UserTakes \/ UNCHANGED proc
  BY DEF NextUser, UserStep, UserOpens, UserReads, UserCloses, UserWrites, UserIoctls,
         UserHandles, UserKills, UserWaits, UserSleeps, UserYields, UserStops, IdleReceives,
         UserHandled, TimerInterrupt, KeyInterrupt, userVars
<1> QED BY <1>1, <1>2, AdvanceIs, AwaitIs, TakesIs

(* No process changes its program; one that had stopped may be another.    *)
LEMMA ProgramsStay ==
  ASSUME UserInv, UserBounds, [NextUser]_userVars, NEW s \in Slots
  PROVE  \/ proc'[s].program = proc[s].program
         \/ UserCreates /\ kern.state[s] = "STOPPED" /\ proc'[s].program \in Children
<1>1. Inv /\ ProgramsInv /\ MaxBuf >= 1
  BY DEF UserInv, SigInv, UserBounds
<1>2. CASE ~UserCreates
  BY <1>2, StepsMove DEF Moves
<1>3. CASE UserCreates
  <2>1. /\ Instr.program \in Children
        /\ proc' = [t \in Slots |->
                  IF kern.state[t] = "STOPPED" /\ kern'.state[t] = "READY"
                  THEN Started(Instr.program)
                  ELSE IF t = Running THEN [proc[t] EXCEPT !.at = @ + 1] ELSE proc[t]]
    BY <1>1, <1>3, AtCall, CallFields DEF UserCreates
  <2>2. proc[s] \in Proc
    BY <1>1 DEF ProgramsInv
  <2>3. [proc[s] EXCEPT !.at = @ + 1].program = proc[s].program
    BY <2>2 DEF Proc
  <2>4. Started(Instr.program).program = Instr.program
    BY DEF Started
  <2> QED BY <1>3, <2>1, <2>3, <2>4
<1> QED BY <1>2, <1>3

(* The code a process is at.                                               *)
LEMMA AtIs ==
  ASSUME Inv, ProgramsInv, MaxBuf >= 1, NEW op, At(op)
  PROVE  /\ Me.at \in 1 .. Len(Code_of(Me.program)) /\ Me.called = FALSE
         /\ Code_of(Me.program)[Me.at].op = op /\ Instr = Code_of(Me.program)[Me.at]
<1>1. Running \in Slots /\ Me \in Proc
  BY RunningIs DEF ProgramsInv, Me
<1> DEFINE code == Code_of(Me.program)
<1>2. code \in Seq(Instrs)
  BY CodeIs
<1>3. /\ Me.at \in Nat \ {0} /\ ~(Me.at > Len(code)) /\ Instr = code[Me.at] /\ Instr.op = op
      /\ Me.called = FALSE
  BY <1>1 DEF At, Ended, Instr, Proc
<1> HIDE DEF code
<1>4. Me.at \in 1 .. Len(code)
  BY <1>2, <1>3
<1> QED BY <1>3, <1>4 DEF code

-----------------------------------------------------------------------------
(* A step that begins no read, and leaves what the driver holds.           *)
SameBuffer(d, e) ==
  /\ e.applbufidx = d.applbufidx /\ e.kbdbuffer = d.kbdbuffer
  /\ e.overrun = d.overrun /\ e.struck = d.struck

Steady == Quiet(kern, kern') /\ SameBuffer(dev, dev')

(* Root has nothing open.                                                  *)
Shut(d) == \A f \in Files : d.fd[ROOT][f] = CLOSED

(* A device request that returns at once.                                  *)
LEMMA DevReturnsIs ==
  ASSUME Inv, kern.fault = "none", NEW n \in Int, NEW d, ServeDev(Returns(n), d)
  PROVE  dev' = d /\ Quiet(kern, kern')
<1>1. Returns(n).fault = "none"
  BY RunningIs DEF Returns, KernelType
<1>2. Serve(Returns(n)) /\ dev' = d
  BY <1>1 DEF ServeDev, ServeSig
<1> QED BY <1>2, ReturnsQuiet, ServeQuiet

(* Opening, closing and the key that ends the file.                        *)
LEMMA OpenIs ==
  ASSUME Inv, Served(kern, dev), MAX_DEVICE < 99, Running = ROOT, kern.fault = "none",
         NEW devno \in {KEYBOARD_NOECHO, KEYBOARD_ECHO, 99}, Open(devno)
  PROVE  Steady /\ (devno = 99 => dev' = dev)
<1> DEFINE i == FirstClosed(dev, ROOT)
           e == [dev EXCEPT !.fd[ROOT][i] = devno]
           o == kbd_open(e, ROOT)
           r == di_open(dev, ROOT, devno)
<1>1. r \in {<<dev, -1>>, <<o, i>>} /\ (devno = 99 => r = <<dev, -1>>)
  BY DevicesAssumption DEF di_open
<1>2. SameBuffer(dev, dev) /\ SameBuffer(dev, o)
  <2>1. dev \in DevType
    BY DEF Served, DevOK
  <2>2. SameBuffer(dev, e) /\ DOMAIN e = DOMAIN dev
    BY <2>1 DEF SameBuffer, DevType
  <2>3. {"applbufidx", "kbdbuffer", "overrun", "struck"} \subseteq DOMAIN dev
    BY <2>1 DEF DevType
  <2> HIDE DEF e
  <2> QED BY <2>2, <2>3 DEF SameBuffer, kbd_open
<1> HIDE DEF o, i
<1>3. r[2] \in Int
  BY di_open_Keeps DEF Served
<1>4. ServeDev(Returns(r[2]), r[1])
  BY DEF Open
<1> HIDE DEF r
<1>5. dev' = r[1] /\ Quiet(kern, kern')
  BY <1>3, <1>4, DevReturnsIs
<1> QED BY <1>1, <1>2, <1>5 DEF Steady

(* Closing: root had one keyboard open at most, at descriptor 0.           *)
LEMMA CloseIs ==
  ASSUME Inv, Served(kern, dev), kern.fault = "none", NEW f, Close(f)
  PROVE  /\ Steady /\ (Shut(dev) => Shut(dev')) /\ (Running # ROOT => dev' = dev)
         /\ Running = ROOT /\ f = 0 => Shut(dev')
<1> DEFINE e == [dev EXCEPT !.fd[Running][f] = CLOSED]
           c == kbd_close(e)
           r == di_close(dev, Running, f)
<1>1. /\ validate_fd(dev, Running, f) => r = <<c, 0>> /\ f \in Files /\ Running = ROOT /\ f = 0
      /\ ~validate_fd(dev, Running, f) => r = <<dev, -1>>
  <2>1. validate_fd(dev, Running, f) => f \in Files /\ Running = ROOT /\ f = 0
    BY RunningIs DEF validate_fd, Served, DevOK, Opened
  <2>2. /\ validate_fd(dev, Running, f) => r = <<c, 0>>
        /\ ~validate_fd(dev, Running, f) => r = <<dev, -1>>
    BY DEF di_close
  <2> QED BY <2>1, <2>2
<1>2. dev \in DevType /\ dev.fd \in [Slots -> [Files -> Int]] /\ Opened(dev) /\ ROOT \in Slots
  BY DevFields, TheTwo DEF Served, DevOK
<1>3. ASSUME validate_fd(dev, Running, f) PROVE SameBuffer(dev, c) /\ Shut(c)
  <2>1. Running = ROOT /\ f = 0 /\ f \in Files
    BY <1>1, <1>3
  <2>2. /\ DOMAIN e = DOMAIN dev /\ SameBuffer(dev, e)
        /\ e.fd = [dev.fd EXCEPT ![ROOT] = [@ EXCEPT ![0] = CLOSED]]
    BY <1>2, <2>1 DEF SameBuffer, DevType
  <2>3. {"applbufidx", "kbdbuffer", "overrun", "struck", "fd"} \subseteq DOMAIN dev
    BY <1>2 DEF DevType
  <2>4. Shut(e)
    BY <1>2, <2>1, <2>2 DEF Shut, Opened
  <2> HIDE DEF e
  <2>5. SameBuffer(dev, c) /\ c.fd = e.fd
    BY <2>2, <2>3 DEF SameBuffer, kbd_close
  <2> QED BY <2>4, <2>5 DEF Shut
<1> HIDE DEF c
<1>4. r[2] \in Int
  BY RunningIs, di_close_Keeps DEF Served
<1>5. ServeDev(Returns(r[2]), r[1])
  BY DEF Close
<1> HIDE DEF r
<1>6. dev' = r[1] /\ Quiet(kern, kern')
  BY <1>4, <1>5, DevReturnsIs
<1>7. CASE validate_fd(dev, Running, f)
  BY <1>1, <1>3, <1>6, <1>7 DEF Steady
<1>8. CASE ~validate_fd(dev, Running, f)
  <2>1. dev' = dev
    BY <1>1, <1>6, <1>8
  <2>2. Running = ROOT /\ f = 0 => Shut(dev)
    <3>1. 0 \in Files
      BY DevicesAssumption DEF Files
    <3> QED BY <1>2, <1>8, <3>1 DEF Shut, Opened, validate_fd
  <2> QED BY <1>6, <2>1, <2>2 DEF Steady, SameBuffer
<1> QED BY <1>7, <1>8

(* Another key ends the file from now on.                                  *)
LEMMA IoctlIs ==
  ASSUME Inv, Served(kern, dev), kern.fault = "none", NEW f, NEW command, NEW a \in Keys,
         Ioctl(f, command, a)
  PROVE  Steady /\ dev'.fd = dev.fd
<1> DEFINE e == [dev EXCEPT !.EOF_endbyte = a]
<1>1. PICK r \in di_ioctl(dev, Running, f, command, a) : ServeDev(Returns(r[2]), r[1])
  BY DEF Ioctl
<1>2. r[1] \in {dev, e} /\ r[2] \in {1, -1}
  BY DEF di_ioctl, kbd_ioctl
<1>3. SameBuffer(dev, e) /\ e.fd = dev.fd /\ SameBuffer(dev, dev)
  <2>1. dev \in DevType
    BY DEF Served, DevOK
  <2> QED BY <2>1 DEF SameBuffer, DevType
<1> HIDE DEF e
<1>4. dev' = r[1] /\ Quiet(kern, kern')
  BY <1>1, <1>2, DevReturnsIs
<1> QED BY <1>2, <1>3, <1>4 DEF Steady

(* The keyboard is not written to.                                         *)
LEMMA WriteIs ==
  ASSUME Inv, kern.fault = "none", NEW f, Write(f) PROVE Steady /\ dev' = dev
<1>1. di_write(dev, Running, f) \in Int
  BY DEF di_write, UNSUPPORTED_DEV_OP
<1>2. ServeDev(Returns(di_write(dev, Running, f)), dev)
  BY DEF Write
<1>3. dev' = dev /\ Quiet(kern, kern')
  BY <1>1, <1>2, DevReturnsIs
<1> QED BY <1>3 DEF Steady, SameBuffer

(* A read that does not return at once drops what the driver had, and has  *)
(* a buffer of its own.                                                    *)
Begun(d) == d.kbdbuffer = <<>> /\ d.applbufidx = 0 /\ d.overrun = 0 /\ d.struck = 0

LEMMA ReadIs ==
  ASSUME Inv, Served(kern, dev), kern.fault = "none", NEW f, NEW n, Read(f, n)
  PROVE  /\ Steady \/ (Begun(dev') /\ validate_fd(dev, Running, f))
         /\ dev'.fd = dev.fd
<1>0. dev \in DevType
  BY DEF Served, DevOK
<1>1. CASE ~validate_fd(dev, Running, f) \/ dev.eof_received
  <2>1. PICK m \in {0, -1} : ServeDev(Returns(m), dev)
    BY <1>1 DEF Read, kbd_read
  <2>2. dev' = dev /\ Quiet(kern, kern')
    BY <2>1, DevReturnsIs
  <2> QED BY <2>2 DEF Steady, SameBuffer
<1>2. CASE validate_fd(dev, Running, f) /\ ~dev.eof_received
  <2> DEFINE k == Dispatch(Block(kern, Running, SYS_READ))
             d == kbd_read(dev, Running, n)
  <2>1. ServeDev(k, d)
    BY <1>2 DEF Read
  <2>2. Begun(d) /\ d.fd = dev.fd
    BY <1>0, <1>2 DEF kbd_read, DevType, Begun
  <2> HIDE DEF k, d
  <2>3. CASE k.fault = "none"
    BY <1>2, <2>1, <2>2, <2>3 DEF ServeDev
  <2>4. CASE k.fault # "none"
    <3>1. dev' = dev /\ kern' = [kern EXCEPT !.fault = k.fault]
      BY <2>1, <2>4 DEF ServeDev, ServeSig, Serve
    <3>2. Quiet(kern, kern')
      BY <3>1, RunningIs DEF KernelType, Quiet
    <3> QED BY <3>1, <3>2 DEF Steady, SameBuffer
  <2> QED BY <2>3, <2>4
<1> QED BY <1>1, <1>2

-----------------------------------------------------------------------------
(* Which steps those are: all but root's reads and the keys.               *)
Typing == \E e \in KeyEvents : KeyInterrupt(e[1], e[2])

(* A read and a key are the only steps that are not calm.                  *)
LEMMA SteadySteps ==
  ASSUME UserInv, UserBounds, NextUser PROVE Steady \/ UserReads \/ Typing
<1>1. /\ SigInv /\ Inv /\ Served(kern, dev) /\ ProgramsInv /\ MaxBuf >= 1 /\ MAX_DEVICE < 99
      /\ UserSignals \subseteq SigNos
  BY DEF UserInv, UserBounds, SigInv
<1>2. CASE UserOpens
  <2>1. /\ Open(Instr.dev) /\ Running = ROOT /\ kern.fault = "none"
        /\ Instr.dev \in {KEYBOARD_NOECHO, KEYBOARD_ECHO, 99}
    BY <1>1, <1>2, AtCall, CallFields DEF UserOpens, At
  <2> QED BY <1>1, <2>1, OpenIs
<1>3. CASE UserCloses
  BY <1>1, <1>3, CloseIs DEF UserCloses, At
<1>4. CASE UserWrites
  BY <1>1, <1>4, WriteIs DEF UserWrites, At
<1>5. CASE UserIoctls
  <2>1. Ioctl(Descriptor, Instr.command, Instr.a) /\ Instr.a \in Keys /\ kern.fault = "none"
    BY <1>1, <1>5, AtCall, CallFields DEF UserIoctls, At
  <2> QED BY <1>1, <2>1, IoctlIs
<1>6. ASSUME Quiet(kern, kern'), UNCHANGED dev PROVE Steady
  BY <1>6 DEF Steady, SameBuffer
<1>7. CASE UserHandles
  <2>1. /\ SigHandler(Instr.n, Instr.h) /\ UNCHANGED dev
        /\ Instr.n \in SigNos /\ Instr.h \in Nat
    BY <1>1, <1>7, AtCall, CallFields DEF UserHandles
  <2> QED BY <1>1, <1>6, <2>1, SigHandlerStepped
<1>8. CASE UserKills
  <2>1. /\ SigKill(PidOf(Instr.program), Instr.n) /\ UNCHANGED dev
        /\ PidOf(Instr.program) \in Nat
    BY <1>1, <1>8, PidOfIs DEF UserKills
  <2> QED BY <1>1, <1>6, <2>1, SigKillStepped
<1>9. CASE UserWaits
  BY <1>1, <1>6, <1>9, SigWaitStepped DEF UserWaits
<1>10. CASE UserSleeps
  <2>1. Also(Nap(Instr.ms)) /\ UNCHANGED dev /\ Instr.ms \in Nat
    BY <1>1, <1>10, AtCall, CallFields DEF UserSleeps
  <2> QED BY <1>1, <1>6, <2>1, NapStepped
<1>11. CASE UserYields
  BY <1>1, <1>6, <1>11, YieldStepped DEF UserYields
<1>12. CASE UserCreates
  BY <1>1, <1>6, <1>12, CreateStepped DEF UserCreates
<1>13. CASE UserStops
  BY <1>1, <1>6, <1>13, StopStepped DEF UserStops
<1>14. CASE IdleReceives
  <2>1. Also(RecvOfAny(MaxBuf, TRUE)) /\ UNCHANGED dev /\ MaxBuf \in Nat
    BY <1>14, UserAssumption DEF IdleReceives, RecvOfAny
  <2>2. \A s \in Slots : kern.call[s] # "send"
    BY <1>1 DEF Served
  <2> QED BY <1>1, <1>6, <2>1, <2>2, RecvStepped
<1>15. CASE UserTakes
  BY <1>15 DEF UserTakes, Steady, Quiet, SameBuffer
<1>16. CASE UserHandled
  BY <1>1, <1>6, <1>16, SigReturnStepped DEF UserHandled
<1>17. CASE TimerInterrupt
  <2>1. Also(TimerAt(kern.ret[Running])) /\ UNCHANGED dev
    BY <1>17 DEF TimerInterrupt
  <2>2. kern.ret[Running] \in Int
    BY <1>1, RunningIs DEF KernelType
  <2> QED BY <1>1, <1>6, <2>1, <2>2, TimerStepped
<1> QED BY <1>2, <1>3, <1>4, <1>5, <1>7, <1>8, <1>9, <1>10, <1>11, <1>12, <1>13, <1>14,
           <1>15, <1>16, <1>17 DEF NextUser, UserStep, Typing

(* Only root reads, and nobody is in a read when it begins one.            *)
LEMMA UserReadsIs ==
  ASSUME UserInv, UserBounds, UserReads
  PROVE  /\ Running = ROOT /\ \A s \in Slots : ~Reads(kern, s)
         /\ Steady \/ (Begun(dev') /\ validate_fd(dev, ROOT, Descriptor))
         /\ dev'.fd = dev.fd
<1>1. Inv /\ Served(kern, dev) /\ ProgramsInv /\ MaxBuf >= 1
  BY DEF UserInv, UserBounds, SigInv
<1>2. Read(Descriptor, Instr.n) /\ Running = ROOT /\ kern.fault = "none"
  BY <1>1, AtCall, CallFields DEF UserReads, At
<1> QED BY <1>1, <1>2, NobodyReads, ReadIs

(* A key.                                                                  *)
LEMMA TypingIs ==
  ASSUME UserInv, ReadersWhole, Typing
  PROVE  /\ Fed /\ Quiet(kern, kern') /\ (Idles => Idles') /\ dev'.fd = dev.fd
         /\ \A a : Pair(kern, a) => Pair(kern', a)
<1>1. PICK e \in KeyEvents : Keyboard(e[1], e[2]) /\ e[1] \in Keys
  BY DevicesAssumption DEF Typing, KeyInterrupt
<1>2. Inv /\ Served(kern, dev) /\ dev \in DevType
  BY DEF UserInv, SigInv, Served, DevOK
<1>3. Fed /\ Quiet(kern, kern') /\ (Idles => Idles')
  BY <1>1, <1>2, KeyboardFeeds
<1>4. \A a : Pair(kern, a) => Pair(kern', a)
  <2> TAKE a
  <2> QED BY <1>1, <1>2, KeyboardPairs
<1>5. dev'.fd = dev.fd
  <2> DEFINE r == process_key(kern, dev, e[1], e[2])
  <2>1. dev' \in {Counted(r[2], e[1], e[2]), dev}
    BY <1>1 DEF Keyboard, ServeDev
  <2>2. SameFd(dev, r[2])
    BY <1>2, KeyFd
  <2> HIDE DEF r
  <2> QED BY <2>1, <2>2 DEF SameFd, Counted
<1> QED BY <1>3, <1>4, <1>5

(* The driver has all that was struck for a reader.                        *)
LEMMA WholeStays ==
  ASSUME UserInv, UserBounds, ReadersWhole, NextUser PROVE ReadersWhole'
<1>1. CASE Steady
  <2>1. (\E s \in Slots : Reads(kern', s)) => \E s \in Slots : Reads(kern, s)
    BY <1>1 DEF Steady, Quiet, Reads
  <2> QED BY <1>1, <2>1 DEF ReadersWhole, Steady, SameBuffer, Whole, Chars, Held
<1>2. CASE UserReads
  <2>1. Steady \/ Begun(dev')
    BY <1>2, UserReadsIs
  <2>2. Begun(dev') => Whole(dev')
    BY DevicesAssumption DEF Begun, Whole, Chars, Held
  <2> QED BY <1>1, <2>1, <2>2 DEF ReadersWhole
<1>3. CASE Typing
  <2>1. Fed /\ Quiet(kern, kern')
    BY <1>3, TypingIs
  <2>2. \A s \in Slots : Reads(kern', s) => Whole(dev')
    BY <2>1 DEF Fed, Quiet, Reads
  <2> QED BY <2>2 DEF ReadersWhole
<1> QED BY <1>1, <1>2, <1>3, SteadySteps

-----------------------------------------------------------------------------
(* Root as a program of its own has idleproc halt only, and so idleproc    *)
(* blocks in nothing.                                                      *)
Main == proc[ROOT].program

Idling == Idles /\ proc[IDLE].program = "idleproc"

(* Every step leaves it so, and idleproc leaves the reader alone.          *)
LEMMA IdlingStays ==
  ASSUME UserInv, UserBounds, ReadersWhole, Idling, NextUser
  PROVE  Idling' /\ (Running # ROOT /\ ~Typing => Lets(kern, kern'))
<1>1. Inv /\ ProgramsInv /\ MaxBuf >= 1
  BY DEF UserInv, UserBounds, SigInv
<1>2. ~IdleReceives
  <2>1. SUFFICES ASSUME IdleReceives PROVE FALSE
    OBVIOUS
  <2>2. At("recv") /\ Running = IDLE
    BY <2>1 DEF IdleReceives
  <2>3. Code_of(Me.program) = <<halts>>
    BY <2>2 DEF Idling, Me, Code_of, idleproc
  <2>4. /\ Me.at \in 1 .. Len(Code_of(Me.program)) /\ Code_of(Me.program)[Me.at].op = "recv"
    BY <1>1, <2>2, AtIs
  <2> QED BY <2>3, <2>4 DEF halts
<1>3. proc'[IDLE].program = "idleproc"
  <2>1. kern.state[IDLE] # "STOPPED" /\ IDLE \in Slots
    BY TheTwo DEF Idling, Idles, Unlinked
  <2> QED BY <2>1, ProgramsStay DEF Idling
<1>4. CASE Typing
  BY <1>3, <1>4, TypingIs DEF Idling
<1>5. CASE ~Typing
  <2>1. Spares
    BY <1>2, <1>5, DeviceCallsSpare, KernelCallsSpare, OthersSpare DEF NextUser, UserStep, Typing
  <2> QED BY <1>3, <2>1 DEF Spares, Idling
<1> QED BY <1>4, <1>5

-----------------------------------------------------------------------------
(* The tests of the reads, call by call.                                   *)
ReadTestOps == {"open", "read", "ioctl"}

OpsIn(t, ops) == \A j \in 1 .. Len(t) : t[j].op \in ops

(* Two pieces of a program, one after the other.                           *)
LEMMA JoinedIs ==
  ASSUME NEW S, NEW x \in Seq(S), NEW y \in Seq(S)
  PROVE  /\ x \o y \in Seq(S) /\ Len(x \o y) = Len(x) + Len(y)
         /\ \A j \in 1 .. Len(x) + Len(y) :
              (x \o y)[j] = IF j <= Len(x) THEN x[j] ELSE y[j - Len(x)]
OBVIOUS

(* What calls they are made of.                                            *)
LEMMA JoinedOps ==
  ASSUME NEW S, NEW x \in Seq(S), NEW y \in Seq(S), NEW ops, OpsIn(x, ops), OpsIn(y, ops)
  PROVE  x \o y \in Seq(S) /\ Len(x \o y) = Len(x) + Len(y) /\ OpsIn(x \o y, ops)
<1>1. /\ x \o y \in Seq(S) /\ Len(x \o y) = Len(x) + Len(y)
      /\ \A j \in 1 .. Len(x) + Len(y) :
           (x \o y)[j] = IF j <= Len(x) THEN x[j] ELSE y[j - Len(x)]
  BY JoinedIs
<1>2. \A j \in 1 .. Len(x) + Len(y) : j <= Len(x) \/ j - Len(x) \in 1 .. Len(y)
  OBVIOUS
<1> QED BY <1>1, <1>2 DEF OpsIn

(* The tests open, read and set the key that ends the file, then yield.    *)
LEMMA ReadTestsCode ==
  ASSUME MaxBuf >= 1
  PROVE  /\ Len(read_tests) = 13 /\ read_tests[13].op = "yield"
         /\ \A j \in 1 .. 12 : read_tests[j].op \in ReadTestOps
<1> DEFINE x == sysread_overflow
           y == sysread_underflow
           z == <<open(KEYBOARD_ECHO), readWhile(128, "positive"),
                  open(KEYBOARD_ECHO), ioctl("w"), readWhile(10, "nonzero"), yields>>
<1>1. /\ \A devno \in Int : open(devno).op = "open"
      /\ \A n \in Int : read(n).op = "read" /\ readWhile(n, "positive").op = "read"
                        /\ readWhile(n, "nonzero").op = "read"
      /\ ioctl("w").op = "ioctl" /\ yields.op = "yield"
  BY DEF open, read, readWhile, ioctl, yields
<1>2. /\ open(KEYBOARD_ECHO) \in Instrs /\ yields \in Instrs /\ ioctl("w") \in Instrs
      /\ \A n \in Nat \ {0}, test \in Tests : readWhile(n, test) \in Instrs
      /\ \A n \in Nat \ {0} : read(n) \in Instrs
  <2>1. "w" \in Keys
    BY DEF Keys, Letters
  <2> QED BY <2>1, DeviceCalls, OtherCalls, OthersToo
<1>3. /\ x \in Seq(Instrs) /\ Len(x) = 3 /\ OpsIn(x, ReadTestOps)
      /\ y \in Seq(Instrs) /\ Len(y) = 4 /\ OpsIn(y, ReadTestOps)
  <2>1. KEYBOARD_ECHO \in Int
    BY DEF KEYBOARD_ECHO
  <2> QED BY <1>1, <1>2, <2>1 DEF sysread_overflow, sysread_underflow, OpsIn, ReadTestOps
<1>4. /\ z \in Seq(Instrs) /\ Len(z) = 6 /\ z[6].op = "yield"
      /\ \A j \in 1 .. 5 : z[j].op \in ReadTestOps
  <2>1. KEYBOARD_ECHO \in Int
    BY DEF KEYBOARD_ECHO
  <2>2. {"positive", "nonzero"} \subseteq Tests
    BY DEF Tests
  <2> QED BY <1>1, <1>2, <2>1, <2>2 DEF ReadTestOps
<1> DEFINE w == x \o y
<1>5. w \in Seq(Instrs) /\ Len(w) = 7 /\ OpsIn(w, ReadTestOps)
  <2> HIDE DEF x, y
  <2>1. x \o y \in Seq(Instrs) /\ Len(x \o y) = Len(x) + Len(y) /\ OpsIn(x \o y, ReadTestOps)
    BY <1>3, JoinedOps
  <2> QED BY <1>3, <2>1
<1>6. read_tests = w \o z
  BY DEF read_tests
<1> HIDE DEF x, y, z, w
<1> DEFINE v == w \o z
<1>7. /\ v \in Seq(Instrs) /\ Len(v) = 13
      /\ \A j \in 1 .. 13 : v[j] = IF j <= 7 THEN w[j] ELSE z[j - 7]
  <2>1. /\ w \o z \in Seq(Instrs) /\ Len(w \o z) = Len(w) + Len(z)
        /\ \A j \in 1 .. Len(w) + Len(z) :
             (w \o z)[j] = IF j <= Len(w) THEN w[j] ELSE z[j - Len(w)]
    BY <1>4, <1>5, JoinedIs
  <2>2. 7 + 6 = 13
    OBVIOUS
  <2> QED BY <1>4, <1>5, <2>1, <2>2
<1> HIDE DEF v
<1>8. \A j \in 8 .. 12 : j - 7 \in 1 .. 5
  OBVIOUS
<1>9. \A j \in 1 .. 12 : j <= 7 \/ j \in 8 .. 12
  OBVIOUS
<1>10. \A j \in 1 .. 12 : v[j].op \in ReadTestOps
  <2> TAKE j \in 1 .. 12
  <2>1. CASE j <= 7
    BY <1>5, <1>7, <2>1 DEF OpsIn
  <2>2. CASE j \in 8 .. 12
    BY <1>4, <1>7, <1>8, <2>2
  <2> QED BY <1>9, <2>1, <2>2
<1>11. v[13] = z[6]
  <2>1. 13 \in 1 .. 13 /\ ~(13 <= 7) /\ 13 - 7 = 6
    OBVIOUS
  <2> QED BY <1>7, <2>1
<1> QED BY <1>4, <1>6, <1>7, <1>10, <1>11 DEF v

(* So far they, and idleproc beneath them, come.                           *)
Pairing ==
  /\ Pair(kern, proc[IDLE].at > 1) /\ proc[IDLE].program = "idleproc_tests"
  /\ proc[ROOT].at <= 13 /\ (proc[ROOT].called => proc[ROOT].at <= 12)

(* The two make no other calls.                                            *)
LEMMA PairingCalls ==
  ASSUME Inv, ProgramsInv, MaxBuf >= 1, Main = "read_tests", Pairing, NEW op, At(op)
  PROVE  \/ Running = ROOT /\ op \in ReadTestOps /\ proc[ROOT].at <= 12
         \/ Running = ROOT /\ op = "yield"
         \/ Running = IDLE /\ op = "recv" /\ proc[IDLE].at = 1
         \/ Running = IDLE /\ op = "hlt"
<1>1. /\ Me.at \in 1 .. Len(Code_of(Me.program)) /\ Code_of(Me.program)[Me.at].op = op
  BY AtIs
<1>2. Running \in {ROOT, IDLE}
  BY DEF Pairing, Pair, Running
<1>3. CASE Running = ROOT
  <2>1. Code_of(Me.program) = read_tests /\ Me = proc[ROOT]
    BY <1>3 DEF Main, Me, Code_of
  <2>2. Me.at \in 1 .. 13 /\ read_tests[Me.at].op = op
    BY <1>1, <2>1, ReadTestsCode
  <2>3. Me.at \in 1 .. 12 \/ Me.at = 13
    BY <2>2
  <2> QED BY <1>3, <2>1, <2>2, <2>3, ReadTestsCode
<1>4. CASE Running = IDLE
  <2>1. Code_of(Me.program) = <<recvany, halts>> /\ Me = proc[IDLE]
    BY <1>4 DEF Pairing, Me, Code_of, idleproc_tests
  <2>2. Me.at \in 1 .. 2 /\ <<recvany, halts>>[Me.at].op = op
    BY <1>1, <2>1
  <2>3. recvany.op = "recv" /\ halts.op = "hlt"
    BY DEF recvany, halts
  <2> QED BY <1>4, <2>1, <2>2, <2>3
<1> QED BY <1>2, <1>3, <1>4

(* What a call makes of it that moves only the process that runs.          *)
LEMMA PairingMoves ==
  ASSUME Pairing, Running \in {ROOT, IDLE}, Moves,
         proc[IDLE].at \in Nat, proc[ROOT].at \in Nat,
         Pairs(proc[IDLE].at > 1, proc'[IDLE].at > 1),
         Running = ROOT => proc[ROOT].at <= 12 /\ (proc'[ROOT].called => proc'[ROOT].at <= 12)
  PROVE  Pairing' /\ (Running # ROOT => Keeps(kern, kern'))
<1>1. proc'[IDLE].program = "idleproc_tests"
  BY TheTwo DEF Moves, Pairing
<1>2. proc'[ROOT].at <= 13 /\ (proc'[ROOT].called => proc'[ROOT].at <= 12)
  BY TheTwo DEF Moves, Pairing
<1>3. Pair(kern', proc'[IDLE].at > 1) /\ (Running # ROOT => Keeps(kern, kern'))
  BY DEF Pairs, Pairing
<1> QED BY <1>1, <1>2, <1>3 DEF Pairing

(* Or none.                                                                *)
LEMMA PairingStands ==
  ASSUME Pairing, UNCHANGED proc, Pairs(proc[IDLE].at > 1, proc[IDLE].at > 1)
  PROVE  Pairing' /\ (Running # ROOT => Keeps(kern, kern'))
BY DEF Pairs, Pairing

(* Every step of theirs leaves it so, and idleproc leaves the reader alone. *)
LEMMA PairingStays ==
  ASSUME UserInv, UserBounds, ReadersWhole, Main = "read_tests", Pairing, NextUser
  PROVE  Pairing' /\ (Running # ROOT /\ ~Typing => Keeps(kern, kern'))
<1>1. /\ Inv /\ ProgramsInv /\ MaxBuf >= 1 /\ Served(kern, dev) /\ RootReads(kern)
      /\ Running \in {ROOT, IDLE} /\ Running \in Slots
      /\ proc[IDLE].at \in Nat /\ proc[ROOT].at \in Nat /\ proc[Running].called \in BOOLEAN
  <2>1. Inv /\ ProgramsInv /\ MaxBuf >= 1 /\ Served(kern, dev) /\ RootReads(kern)
    BY ReadersAreRoot DEF UserInv, UserBounds, SigInv
  <2>2. Running \in {ROOT, IDLE}
    BY DEF Pairing, Pair, Running
  <2> QED BY <2>1, <2>2, TheTwo DEF ProgramsInv, Proc
<1> DEFINE a == proc[IDLE].at > 1
<1>2. ASSUME NEW op \in ReadTestOps, At(op), Advance \/ Await, Pairs(a, a)
      PROVE  Pairing' /\ (Running # ROOT => Keeps(kern, kern'))
  <2>1. Running = ROOT /\ proc[ROOT].at <= 12
    BY <1>1, <1>2, PairingCalls DEF ReadTestOps
  <2>2. Me.called = FALSE /\ Me = proc[ROOT]
    BY <1>1, <1>2, <2>1, AtIs DEF Me
  <2>3. Moves /\ (proc'[ROOT].called => proc'[ROOT].at <= 12)
    BY <1>1, <1>2, <2>1, <2>2, AdvanceIs, AwaitIs
  <2>4. proc'[IDLE] = proc[IDLE]
    BY <2>1, <2>3, TheTwo DEF Moves
  <2> QED BY <1>1, <1>2, <2>1, <2>3, <2>4, PairingMoves
<1>3. ASSUME NEW n, NEW d, ServeDev(Returns(n), d) PROVE Pairs(a, a)
  BY <1>1, <1>3, ReturnsPairs DEF ServeDev, ServeSig
<1>4. CASE UserOpens \/ UserIoctls
  <2>1. \E n, d : ServeDev(Returns(n), d)
    BY <1>4 DEF UserOpens, Open, UserIoctls, Ioctl
  <2>2. \E op \in ReadTestOps : At(op)
    BY <1>4 DEF UserOpens, UserIoctls, ReadTestOps
  <2>3. Advance \/ Await
    BY <1>4 DEF UserOpens, UserIoctls
  <2> QED BY <1>2, <1>3, <2>1, <2>2, <2>3
<1>5. CASE UserReads
  <2>1. Read(Descriptor, Instr.n) /\ Running = ROOT
    BY <1>1, <1>5, AtCall, CallFields DEF UserReads
  <2>2. Pairs(a, a)
    BY <1>1, <2>1, ReadPairs
  <2>3. At("read") /\ "read" \in ReadTestOps /\ (Advance \/ Await)
    BY <1>5 DEF UserReads, ReadTestOps
  <2> QED BY <1>2, <2>2, <2>3
<1>6. CASE UserYields
  <2>1. Pairs(a, a) /\ UNCHANGED proc
    BY <1>1, <1>6, YieldPairs DEF UserYields, Also
  <2> QED BY <2>1, PairingStands
<1>7. CASE IdleReceives
  <2>1. /\ RecvOfAny(MaxBuf, TRUE) /\ MaxBuf \in Nat /\ Running = IDLE /\ At("recv") /\ Advance
    BY <1>7, UserAssumption DEF IdleReceives, RecvOfAny, Also
  <2>2. \A s \in Slots : kern.call[s] # "send"
    BY <1>1 DEF Served
  <2>3. Pairs(FALSE, TRUE)
    BY <1>1, <2>1, <2>2, RecvPairs
  <2>4. proc[IDLE].at = 1 /\ Moves /\ proc'[IDLE].at = 2
    <3>1. proc[IDLE].at = 1
      BY <1>1, <2>1, TheTwo, PairingCalls
    <3> QED BY <1>1, <2>1, <3>1, AdvanceIs
  <2>5. a = FALSE /\ (proc'[IDLE].at > 1) = TRUE
    BY <2>4
  <2> QED BY <1>1, <2>1, <2>3, <2>4, <2>5, TheTwo, PairingMoves
<1>8. CASE UserTakes
  <2>1. Moves /\ proc'[Running].called = FALSE /\ UNCHANGED kern /\ Me.called /\ Me = proc[Running]
    BY <1>1, <1>8, TakesIs DEF UserTakes, Me
  <2>2. Pairs(a, proc'[IDLE].at > 1)
    <3>1. Keeps(kern, kern')
      BY <2>1 DEF Keeps
    <3>2. \/ (proc'[IDLE].at > 1) = a
          \/ a = FALSE /\ (proc'[IDLE].at > 1) = TRUE /\ kern.que["running"] = IDLE
      BY <1>1, <2>1, TheTwo DEF Moves, Running
    <3> HIDE DEF a
    <3>3. Pair(kern, a) => Pair(kern, proc'[IDLE].at > 1)
      BY <3>2, PairAges
    <3> QED BY <2>1, <3>1, <3>3 DEF Pairs
  <2>3. Running = ROOT => proc[ROOT].at <= 12
    BY <2>1 DEF Pairing
  <2> QED BY <1>1, <2>1, <2>2, <2>3, PairingMoves
<1>9. CASE UserHandled
  <2>1. Pairs(a, a) /\ UNCHANGED proc
    BY <1>1, <1>9, ReturnsPairs DEF UserHandled, SigReturn, ServeSig, Returns
  <2> QED BY <2>1, PairingStands
<1>10. CASE TimerInterrupt
  <2>1. TimerAt(kern.ret[Running]) /\ kern.ret[Running] \in Int /\ UNCHANGED proc
    BY <1>1, <1>10, RunningIs DEF TimerInterrupt, Also, KernelType
  <2>2. Pairs(a, a)
    BY <1>1, <2>1, TimerPairs
  <2> QED BY <2>1, <2>2, PairingStands
<1>11. CASE Typing
  <2>1. UNCHANGED proc /\ (Pair(kern, a) => Pair(kern', a))
    BY <1>11, TypingIs DEF Typing, KeyInterrupt
  <2> QED BY <1>11, <2>1 DEF Pairing
<1>12. ~UserStops
  <2> SUFFICES ASSUME UserStops PROVE FALSE
    OBVIOUS
  <2>1. Running # IDLE /\ ~Me.called /\ Me.at > Len(Code_of(Me.program))
    BY DEF UserStops, Also, StopWith, UserRequest, Ended
  <2>2. Code_of(Me.program) = read_tests /\ Me.at <= 13 /\ Me.at \in Nat
    BY <1>1, <2>1 DEF Main, Me, Code_of, Pairing
  <2>3. Len(read_tests) = 13
    BY <1>1, ReadTestsCode
  <2> QED BY <2>1, <2>2, <2>3
<1>13. ASSUME NEW op \in {"close", "write", "sighandler", "sigkill", "sigwait", "sleep", "create"},
              At(op)
       PROVE  FALSE
  BY <1>1, <1>13, PairingCalls DEF ReadTestOps
<1>14. ~(UserCloses \/ UserWrites \/ UserHandles \/ UserKills \/ UserWaits \/ UserSleeps \/ UserCreates)
  BY <1>13 DEF UserCloses, UserWrites, UserHandles, UserKills, UserWaits, UserSleeps, UserCreates
<1> QED BY <1>4, <1>5, <1>6, <1>7, <1>8, <1>9, <1>10, <1>11, <1>12, <1>14
        DEF NextUser, UserStep, Typing

-----------------------------------------------------------------------------
(* Root's tests of the devices, call by call: they read after they have    *)
(* closed what they had opened.                                            *)
OnceShut(i) == i.op # "read" /\ (i.op = "open" => ~i.kept /\ i.dev = 99)

CautiousAt(j, i) ==
  \/ j < 3 /\ i.op = "open" /\ ~i.kept
  \/ j = 3 /\ i.op = "close" /\ i.fd = 0
  \/ j > 3 /\ (OnceShut(i) \/ (i.op = "read" /\ i.again = "once"))

Cautious(t) == \A j \in 1 .. Len(t) : CautiousAt(j, t[j])

(* What follows opens nothing and reads nothing.                           *)
LEMMA JoinedCautious ==
  ASSUME NEW x \in Seq(Instrs), NEW y \in Seq(Instrs), Cautious(x), Len(x) >= 3,
         \A j \in 1 .. Len(y) : OnceShut(y[j])
  PROVE  x \o y \in Seq(Instrs) /\ Cautious(x \o y) /\ Len(x \o y) >= 3
<1> DEFINE v == x \o y
<1>1. /\ v \in Seq(Instrs) /\ Len(v) = Len(x) + Len(y)
      /\ \A j \in 1 .. Len(x) + Len(y) :
           v[j] = IF j <= Len(x) THEN x[j] ELSE y[j - Len(x)]
  BY JoinedIs
<1> HIDE DEF v
<1>2. Len(v) >= 3
  BY <1>1
<1>3. \A j \in 1 .. Len(v) : \/ j \in 1 .. Len(x) /\ v[j] = x[j]
                             \/ j > 3 /\ j - Len(x) \in 1 .. Len(y) /\ v[j] = y[j - Len(x)]
  BY <1>1
<1>4. Cautious(v)
  <2> SUFFICES ASSUME NEW j \in 1 .. Len(v) PROVE CautiousAt(j, v[j])
    BY DEF Cautious
  <2>1. CASE j \in 1 .. Len(x) /\ v[j] = x[j]
    BY <2>1 DEF Cautious
  <2>2. CASE j > 3 /\ j - Len(x) \in 1 .. Len(y) /\ v[j] = y[j - Len(x)]
    <3>1. OnceShut(v[j])
      BY <2>2
    <3> QED BY <2>2, <3>1 DEF CautiousAt
  <2> QED BY <1>3, <2>1, <2>2
<1> QED BY <1>1, <1>2, <1>4 DEF v

(* The tests of the devices are like that.                                 *)
LEMMA DeviceTestsCode ==
  ASSUME MaxBuf >= 1 PROVE Cautious(device_tests) /\ device_tests \in Seq(Instrs)
<1>1. /\ tryopen(KEYBOARD_NOECHO) \in Instrs /\ tryopen(KEYBOARD_ECHO) \in Instrs
      /\ tryopen(99) \in Instrs
  BY DeviceCalls
<1>2. \A f \in Int : /\ readAt(f) \in Instrs /\ closeAt(f) \in Instrs
                     /\ write(f) \in Instrs /\ ioctlAt(f) \in Instrs
  BY DeviceCalls, OthersToo
<1>3. /\ \A devno : tryopen(devno).op = "open" /\ ~tryopen(devno).kept
      /\ OnceShut(tryopen(99))
      /\ \A f : readAt(f).op = "read" /\ readAt(f).again = "once"
      /\ \A f : closeAt(f).op = "close" /\ closeAt(f).fd = f /\ OnceShut(closeAt(f))
      /\ \A f : OnceShut(write(f)) /\ OnceShut(ioctlAt(f))
  BY DEF tryopen, readAt, closeAt, write, ioctlAt, OnceShut
<1>4. spawn("waiter") \in Instrs /\ nap(9000) \in Instrs /\ kill("waiter", 7) \in Instrs
  BY OtherCalls, OthersToo DEF Children
<1>5. OnceShut(spawn("waiter")) /\ OnceShut(nap(9000)) /\ OnceShut(kill("waiter", 7))
  BY DEF spawn, nap, kill, OnceShut
<1>6. /\ verify_dev_arg_passing \in Seq(Instrs) /\ Len(verify_dev_arg_passing) >= 3
      /\ Cautious(verify_dev_arg_passing)
  <2> DEFINE v == verify_dev_arg_passing
  <2>1. KEYBOARD_NOECHO = 0 /\ KEYBOARD_ECHO = 1
    BY DEF KEYBOARD_NOECHO, KEYBOARD_ECHO
  <2>2. v \in Seq(Instrs) /\ Len(v) = 10
    BY <1>1, <1>2, <2>1 DEF verify_dev_arg_passing
  <2>3. /\ v[1] = tryopen(0) /\ v[2] = tryopen(1) /\ v[3] = closeAt(0) /\ v[4] = closeAt(1)
        /\ v[5] = readAt(0) /\ v[6] = readAt(1) /\ v[7] = write(0) /\ v[8] = write(1)
        /\ v[9] = ioctlAt(0) /\ v[10] = ioctlAt(1)
    BY <2>1 DEF verify_dev_arg_passing
  <2> HIDE DEF v
  <2>4. \A j \in 1 .. 10 : j \in {1, 2} \/ j = 3 \/ j \in {4, 5, 6, 7, 8, 9, 10}
    OBVIOUS
  <2>6. CautiousAt(1, v[1]) /\ CautiousAt(2, v[2]) /\ CautiousAt(3, v[3])
    BY <1>3, <2>3 DEF CautiousAt
  <2>7. \A j \in {4, 5, 6, 7, 8, 9, 10} : CautiousAt(j, v[j])
    <3>1. \A j \in {4, 5, 6, 7, 8, 9, 10} : j > 3
      OBVIOUS
    <3>2. \A j \in {4, 5, 6, 7, 8, 9, 10} :
            OnceShut(v[j]) \/ (v[j].op = "read" /\ v[j].again = "once")
      BY <1>3, <2>3
    <3> QED BY <3>1, <3>2 DEF CautiousAt
  <2>5. Cautious(v)
    BY <2>2, <2>4, <2>6, <2>7 DEF Cautious
  <2> QED BY <2>2, <2>5 DEF v
<1>7. sigwaittest \in Seq(Instrs) /\ \A j \in 1 .. Len(sigwaittest) : OnceShut(sigwaittest[j])
  BY <1>4, <1>5 DEF sigwaittest
<1>8. /\ sysopen_invalid \in Seq(Instrs) /\ syswrite_invalid \in Seq(Instrs)
      /\ sysioctl_invalid \in Seq(Instrs)
      /\ \A j \in 1 .. Len(sysopen_invalid) : OnceShut(sysopen_invalid[j])
      /\ \A j \in 1 .. Len(syswrite_invalid) : OnceShut(syswrite_invalid[j])
      /\ \A j \in 1 .. Len(sysioctl_invalid) : OnceShut(sysioctl_invalid[j])
  <2>1. KEYBOARD_ECHO \in Int
    BY DEF KEYBOARD_ECHO
  <2> QED BY <1>1, <1>2, <1>3, <2>1 DEF sysopen_invalid, syswrite_invalid, sysioctl_invalid
<1> DEFINE v  == verify_dev_arg_passing
           v1 == v \o sigwaittest
           v2 == v1 \o sysopen_invalid
           v3 == v2 \o syswrite_invalid
           v4 == v3 \o sysioctl_invalid
<1>9. device_tests = v4
  BY DEF device_tests
<1> HIDE DEF v
<1>10. v1 \in Seq(Instrs) /\ Cautious(v1) /\ Len(v1) >= 3
  BY <1>6, <1>7, JoinedCautious DEF v
<1> HIDE DEF v1
<1>11. v2 \in Seq(Instrs) /\ Cautious(v2) /\ Len(v2) >= 3
  BY <1>8, <1>10, JoinedCautious
<1> HIDE DEF v2
<1>12. v3 \in Seq(Instrs) /\ Cautious(v3) /\ Len(v3) >= 3
  BY <1>8, <1>11, JoinedCautious
<1> HIDE DEF v3
<1>13. v4 \in Seq(Instrs) /\ Cautious(v4) /\ Len(v4) >= 3
  BY <1>8, <1>12, JoinedCautious
<1> QED BY <1>9, <1>13

(* What they keep to.                                                      *)
Careful == ~proc[ROOT].called /\ (proc[ROOT].at > 3 => Shut(dev))

(* The call they are at.                                                   *)
LEMMA CarefulCalls ==
  ASSUME Inv, ProgramsInv, MaxBuf >= 1, Main = "device_tests", Running = ROOT, NEW op, At(op)
  PROVE  CautiousAt(proc[ROOT].at, Instr) /\ Instr.op = op
<1>1. /\ Me.at \in 1 .. Len(Code_of(Me.program)) /\ Code_of(Me.program)[Me.at].op = op
      /\ Instr = Code_of(Me.program)[Me.at]
  BY AtIs
<1>2. Me = proc[ROOT] /\ Code_of(Me.program) = device_tests
  BY DEF Me, Main, Code_of
<1> QED BY <1>1, <1>2, DeviceTestsCode DEF Cautious

(* A call but for close goes on without opening anything.                  *)
LEMMA CarefulGoes ==
  ASSUME Inv, ProgramsInv, MaxBuf >= 1, Main = "device_tests", Careful, NEW op, op # "close",
         At(op), Moves, proc'[Running].called = proc[Running].called, dev'.fd = dev.fd
  PROVE  Careful'
<1>1. proc[ROOT].at \in Nat /\ Running \in Slots
  BY RunningIs, TheTwo DEF ProgramsInv, Proc
<1>2. CASE Running = ROOT
  <2>1. proc[ROOT].at # 3
    <3>1. CautiousAt(proc[ROOT].at, Instr) /\ Instr.op = op
      BY <1>2, CarefulCalls
    <3> QED BY <3>1 DEF CautiousAt
  <2>2. proc'[ROOT].at \in {proc[ROOT].at, proc[ROOT].at + 1} /\ ~proc'[ROOT].called
    BY <1>2 DEF Moves, Careful
  <2> QED BY <1>1, <2>1, <2>2 DEF Careful, Shut
<1>3. CASE Running # ROOT
  <2>1. proc'[ROOT] = proc[ROOT]
    BY <1>3, TheTwo DEF Moves
  <2> QED BY <2>1 DEF Careful, Shut
<1> QED BY <1>2, <1>3

(* A step that changes neither.                                            *)
LEMMA CarefulStands ==
  ASSUME Careful, proc'[ROOT] = proc[ROOT], dev'.fd = dev.fd PROVE Careful'
BY DEF Careful, Shut

(* Opening.                                                                *)
LEMMA CarefulOpens ==
  ASSUME UserInv, UserBounds, Main = "device_tests", Careful, UserOpens PROVE Careful'
<1>1. /\ Inv /\ ProgramsInv /\ MaxBuf >= 1 /\ Served(kern, dev) /\ MAX_DEVICE < 99
      /\ proc[ROOT].at \in Nat
  BY TheTwo DEF UserInv, UserBounds, SigInv, ProgramsInv, Proc
<1>2. /\ At("open") /\ Running = ROOT /\ kern.fault = "none" /\ Open(Instr.dev)
      /\ Instr.dev \in {KEYBOARD_NOECHO, KEYBOARD_ECHO, 99}
  BY <1>1, AtCall, CallFields DEF UserOpens, At
<1>3. CautiousAt(proc[ROOT].at, Instr) /\ Instr.op = "open"
  BY <1>1, <1>2, CarefulCalls
<1>4. ~Instr.kept /\ (proc[ROOT].at < 3 \/ (proc[ROOT].at > 3 /\ Instr.dev = 99))
  BY <1>3 DEF CautiousAt, OnceShut
<1>5. Advance
  BY <1>4 DEF UserOpens
<1>6. proc'[ROOT].at = proc[ROOT].at + 1 /\ proc'[ROOT].called = proc[ROOT].called
  BY <1>1, <1>2, <1>5, AdvanceIs
<1>7. CASE proc[ROOT].at < 3
  BY <1>1, <1>6, <1>7 DEF Careful
<1>8. CASE proc[ROOT].at > 3 /\ Instr.dev = 99
  <2>1. dev' = dev
    BY <1>1, <1>2, <1>8, OpenIs
  <2> QED BY <1>1, <1>6, <1>8, <2>1 DEF Careful
<1> QED BY <1>4, <1>7, <1>8

(* Reading: nothing is open, and the read returns at once.                 *)
LEMMA CarefulReads ==
  ASSUME UserInv, UserBounds, Main = "device_tests", Careful, UserReads PROVE Careful' /\ Steady
<1>1. Inv /\ ProgramsInv /\ MaxBuf >= 1 /\ proc[ROOT].at \in Nat
  BY TheTwo DEF UserInv, UserBounds, SigInv, ProgramsInv, Proc
<1>2. /\ At("read") /\ Running = ROOT /\ dev'.fd = dev.fd
      /\ Steady \/ validate_fd(dev, ROOT, Descriptor)
  BY UserReadsIs DEF UserReads
<1>3. CautiousAt(proc[ROOT].at, Instr) /\ Instr.op = "read"
  BY <1>1, <1>2, CarefulCalls
<1>4. proc[ROOT].at > 3 /\ Instr.again = "once"
  BY <1>3 DEF CautiousAt, OnceShut
<1>5. Moves /\ proc'[Running].called = proc[Running].called
  BY <1>1, <1>4, AdvanceIs DEF UserReads
<1>6. ~validate_fd(dev, ROOT, Descriptor)
  BY <1>4 DEF Careful, Shut, validate_fd
<1>7. Careful'
  <2>1. "read" # "close"
    OBVIOUS
  <2> QED BY <1>1, <1>2, <1>5, <2>1, CarefulGoes
<1> QED BY <1>2, <1>6, <1>7

(* Closing.                                                                *)
LEMMA CarefulCloses ==
  ASSUME UserInv, UserBounds, Main = "device_tests", Careful, UserCloses PROVE Careful'
<1>1. /\ Inv /\ ProgramsInv /\ MaxBuf >= 1 /\ Served(kern, dev) /\ proc[ROOT].at \in Nat
  BY TheTwo DEF UserInv, UserBounds, SigInv, ProgramsInv, Proc
<1>2. At("close") /\ kern.fault = "none" /\ Close(Descriptor) /\ Advance
  BY DEF UserCloses, At
<1>3. Moves /\ proc'[Running].called = proc[Running].called
  BY <1>1, <1>2, AdvanceIs
<1>4. /\ Shut(dev) => Shut(dev')
      /\ Running # ROOT => dev' = dev
      /\ Running = ROOT /\ Descriptor = 0 => Shut(dev')
  BY <1>1, <1>2, CloseIs
<1>5. CASE Running # ROOT
  <2>1. proc'[ROOT] = proc[ROOT] /\ dev'.fd = dev.fd
    BY <1>3, <1>4, <1>5, TheTwo DEF Moves
  <2> QED BY <2>1, CarefulStands
<1>6. CASE Running = ROOT
  <2>1. CautiousAt(proc[ROOT].at, Instr) /\ Instr.op = "close"
    BY <1>1, <1>2, <1>6, CarefulCalls
  <2>2. (proc[ROOT].at = 3 /\ Instr.fd = 0) \/ proc[ROOT].at > 3
    BY <2>1 DEF CautiousAt
  <2>3. Instr.fd = 0 => Descriptor = 0
    BY DEF Descriptor, CLOSED
  <2>4. Shut(dev')
    BY <1>4, <1>6, <2>2, <2>3 DEF Careful
  <2>5. ~proc'[ROOT].called
    BY <1>3, <1>6 DEF Careful
  <2> QED BY <2>4, <2>5 DEF Careful
<1> QED BY <1>5, <1>6

(* Any step.                                                               *)
LEMMA CarefulStays ==
  ASSUME UserInv, UserBounds, ReadersWhole, Main = "device_tests", Careful, NextUser,
         Main' = "device_tests"
  PROVE  Careful'
<1>1. /\ Inv /\ ProgramsInv /\ MaxBuf >= 1 /\ Served(kern, dev) /\ proc[ROOT].at \in Nat
      /\ proc[ROOT] \in Proc
  BY TheTwo DEF UserInv, UserBounds, SigInv, ProgramsInv, Proc
<1>2. ASSUME NEW op, op # "close", At(op), Advance, dev'.fd = dev.fd PROVE Careful'
  <2>1. Moves /\ proc'[Running].called = proc[Running].called
    BY <1>1, <1>2, AdvanceIs
  <2> QED BY <1>1, <1>2, <2>1, CarefulGoes
<1>3. ASSUME UNCHANGED proc, dev'.fd = dev.fd PROVE Careful'
  BY <1>3, CarefulStands
<1>4. CASE UserWrites
  BY <1>1, <1>2, <1>4, WriteIs DEF UserWrites, At
<1>5. CASE UserIoctls
  <2>1. /\ Ioctl(Descriptor, Instr.command, Instr.a) /\ Instr.a \in Keys /\ kern.fault = "none"
        /\ At("ioctl") /\ Advance
    BY <1>1, <1>5, AtCall, CallFields DEF UserIoctls, At
  <2>2. dev'.fd = dev.fd
    BY <1>1, <2>1, IoctlIs
  <2> QED BY <1>2, <2>1, <2>2
<1>6. CASE UserHandles \/ UserKills \/ UserWaits \/ UserSleeps \/ IdleReceives
  <2>1. \E op : op # "close" /\ At(op)
    BY <1>6 DEF UserHandles, UserKills, UserWaits, UserSleeps, IdleReceives
  <2>2. Advance /\ dev'.fd = dev.fd
    BY <1>6 DEF UserHandles, UserKills, UserWaits, UserSleeps, IdleReceives
  <2> QED BY <1>2, <2>1, <2>2
<1>7. CASE UserYields \/ UserStops \/ UserHandled \/ TimerInterrupt
  <2>1. UNCHANGED proc /\ dev'.fd = dev.fd
    BY <1>7 DEF UserYields, UserStops, UserHandled, TimerInterrupt
  <2> QED BY <1>3, <2>1
<1>8. CASE Typing
  <2>1. UNCHANGED proc /\ dev'.fd = dev.fd
    BY <1>8, TypingIs DEF Typing, KeyInterrupt
  <2> QED BY <1>3, <2>1
<1>9. CASE UserTakes
  <2>1. Moves /\ UNCHANGED dev /\ Me.called
    BY <1>1, <1>9, TakesIs DEF UserTakes
  <2>2. Running # ROOT
    BY <2>1 DEF Me, Careful
  <2>3. proc'[ROOT] = proc[ROOT] /\ dev'.fd = dev.fd
    BY <2>1, <2>2, TheTwo DEF Moves
  <2> QED BY <2>3, CarefulStands
<1>10. CASE UserCreates
  <2>1. /\ At("create") /\ UNCHANGED dev /\ Instr.program \in Children
        /\ proc' = [s \in Slots |->
                  IF kern.state[s] = "STOPPED" /\ kern'.state[s] = "READY"
                  THEN Started(Instr.program)
                  ELSE IF s = Running THEN [proc[s] EXCEPT !.at = @ + 1] ELSE proc[s]]
    BY <1>1, <1>10, AtCall, CallFields DEF UserCreates
  <2>2. ~(kern.state[ROOT] = "STOPPED" /\ kern'.state[ROOT] = "READY")
    BY <2>1, TheTwo DEF Main, Started, Children
  <2>3. proc'[ROOT] = IF ROOT = Running THEN [proc[ROOT] EXCEPT !.at = @ + 1] ELSE proc[ROOT]
    BY <2>1, <2>2, TheTwo
  <2>4. CASE Running = ROOT
    <3>1. CautiousAt(proc[ROOT].at, Instr) /\ Instr.op = "create"
      BY <1>1, <2>1, <2>4, CarefulCalls
    <3>2. proc[ROOT].at # 3
      BY <3>1 DEF CautiousAt
    <3>3. proc'[ROOT].at = proc[ROOT].at + 1 /\ proc'[ROOT].called = proc[ROOT].called
      BY <1>1, <2>3, <2>4 DEF Proc
    <3> QED BY <1>1, <2>1, <3>2, <3>3 DEF Careful, Shut
  <2>5. CASE Running # ROOT
    BY <2>1, <2>3, <2>5, CarefulStands
  <2> QED BY <2>4, <2>5
<1> QED BY <1>4, <1>5, <1>6, <1>7, <1>8, <1>9, <1>10, CarefulOpens, CarefulReads, CarefulCloses
        DEF NextUser, UserStep, Typing

(* With the other programs nobody is ever in a read.                       *)
Readers == {"assign3_test_seq", "signal_reader", "read_tests"}

Unread(k) == \A s \in Slots : ~Reads(k, s)

(* A read of the other programs does not block, or they have none.         *)
LEMMA UnreadStays ==
  ASSUME UserInv, UserBounds, ReadersWhole, Main \notin Readers, Unread(kern),
         Main = "device_tests" => Careful, NextUser
  PROVE  Unread(kern')
<1>1. Inv /\ ProgramsInv /\ MaxBuf >= 1
  BY DEF UserInv, UserBounds, SigInv
<1>2. Quiet(kern, kern') => Unread(kern')
  BY DEF Unread, Quiet, Reads
<1>3. CASE UserReads
  <2>1. Main = "device_tests"
    <3>1. Running = ROOT /\ At("read")
      BY <1>3, UserReadsIs DEF UserReads
    <3>2. /\ Me.at \in 1 .. Len(Code_of(Main)) /\ Instr = Code_of(Main)[Me.at]
          /\ Instr \in Instrs /\ Instr.op = "read"
      BY <1>1, <3>1, AtIs, AtCall DEF Me, Main
    <3>3. Instr \notin Others
      BY <3>2, CallFields
    <3>4. Code_of(Main) \notin Seq(Others)
      BY <3>2, <3>3
    <3>5. Main \in RootPrograms /\ Main # "signal_tests"
      BY <1>1, <3>4, CodeIs, SignalTestsProgram DEF Code_of
    <3> QED BY <3>5 DEF RootPrograms, Readers
  <2> QED BY <1>2, <1>3, <2>1, CarefulReads DEF Steady
<1>4. CASE Steady
  BY <1>2, <1>4 DEF Steady
<1>5. CASE Typing
  BY <1>2, <1>5, TypingIs
<1> QED BY <1>3, <1>4, <1>5, SteadySteps

-----------------------------------------------------------------------------
(* Together, and with what the invariant above says, they are inductive.   *)
ReadsInv ==
  /\ UserInv /\ ReadersWhole
  /\ Main \in {"assign3_test_seq", "signal_reader"} => Idling
  /\ Main = "read_tests" => Pairing
  /\ Main \notin Readers => Unread(kern)
  /\ Main = "device_tests" => Careful

(* Every step keeps it.                                                    *)
LEMMA NextKeepsReadsInv ==
  ASSUME UserBounds PROVE ReadsInv /\ [NextUser]_userVars => ReadsInv'
<1> SUFFICES ASSUME ReadsInv, [NextUser]_userVars PROVE ReadsInv'
  OBVIOUS
<1>1. UserInv /\ ReadersWhole /\ Inv
  BY DEF ReadsInv, UserInv, SigInv
<1>2. UserInv'
  BY <1>1, NextKeepsUserInv
<1>3. CASE UNCHANGED userVars
  <2>1. UNCHANGED kern /\ UNCHANGED dev /\ UNCHANGED proc
    BY <1>3 DEF userVars
  <2> QED BY <1>2, <2>1 DEF ReadsInv, ReadersWhole, Idling, Idles, Running, Pairing, Careful, Main
<1>4. CASE NextUser
  <2>1. ReadersWhole'
    BY <1>1, <1>4, WholeStays
  <2>2. CASE Main' = Main
    <3>1. Main' \in {"assign3_test_seq", "signal_reader"} => Idling'
      BY <1>1, <1>4, <2>2, IdlingStays DEF ReadsInv
    <3>2. Main' = "read_tests" => Pairing'
      BY <1>1, <1>4, <2>2, PairingStays DEF ReadsInv
    <3>3. Main' \notin Readers => Unread(kern')
      BY <1>1, <1>4, <2>2, UnreadStays DEF ReadsInv
    <3>4. Main' = "device_tests" => Careful'
      BY <1>1, <1>4, <2>2, CarefulStays DEF ReadsInv
    <3> QED BY <1>2, <2>1, <3>1, <3>2, <3>3, <3>4 DEF ReadsInv
  <2>3. CASE Main' # Main
    <3>1. UserCreates /\ kern.state[ROOT] = "STOPPED" /\ Main' \in Children
      BY <1>1, <1>4, <2>3, TheTwo, ProgramsStay DEF Main
    <3>2. Unread(kern)
      BY <1>1, <3>1, ReadersAreRoot DEF UserInv, RootReads, Unread, Reads
    <3>3. Quiet(kern, kern')
      BY <1>1, <3>1, CreateStepped DEF UserInv, UserCreates
    <3>4. Unread(kern')
      BY <3>2, <3>3 DEF Unread, Quiet, Reads
    <3>5. Main' \notin {"assign3_test_seq", "signal_reader", "read_tests", "device_tests"}
      BY <3>1 DEF Children
    <3> QED BY <1>2, <2>1, <3>4, <3>5 DEF ReadsInv
  <2> QED BY <2>2, <2>3
<1> QED BY <1>3, <1>4

(* The boot: root runs, idleproc is first of the ready queue.              *)
LEMMA InitReadsInv == InitUser => ReadsInv
<1> SUFFICES ASSUME InitUser PROVE ReadsInv
  OBVIOUS
<1>1. UserInv
  BY InitUserInv
<1>2. kern = Boot /\ kern \in KernelType /\ dev = BootDev
  BY <1>1, InvIs DEF InitUser, InitDev, InitSig, Init, UserInv, SigInv
<1>3. /\ kern.pid[ROOT] = ROOT /\ kern.pid[IDLE] = IDLE /\ kern.headsleeper = NULL
      /\ kern.que["running"] = ROOT /\ kern.que["head"] = IDLE /\ kern.tail = IDLE
      /\ kern.que["blocked_q"] = NULL /\ kern.next[IDLE] = NULL
      /\ kern.state[IDLE] = "READY" /\ kern.que["dead_q"] # IDLE
      /\ \A s \in Slots : kern.next[s] # IDLE /\ kern.state[s] # "BLOCKED"
  BY <1>2, Constants, TheTwo DEF Boot, ROOT, IDLE, NULL, Slots, Pcbs, QNames
<1>4. PICK main \in Mains :
        proc = [s \in Slots |->
                  IF s = ROOT THEN Started(main)
                  ELSE IF s = IDLE
                       THEN Started(IF main \in {"assign3_test_seq", "signal_reader"}
                                    THEN "idleproc" ELSE "idleproc_tests")
                  ELSE Started("none")]
  BY DEF InitUser, InitProc
<1>5. /\ proc[ROOT] = Started(main)
      /\ proc[IDLE] = Started(IF main \in {"assign3_test_seq", "signal_reader"}
                              THEN "idleproc" ELSE "idleproc_tests")
  BY <1>4, TheTwo
<1>6. \A program : /\ Started(program).program = program /\ Started(program).at = 1
                   /\ Started(program).called = FALSE
  BY DEF Started
<1>7. Unread(kern)
  BY <1>3 DEF Unread, Reads
<1>8. ReadersWhole
  BY <1>7 DEF ReadersWhole, Unread
<1>9. Main \in {"assign3_test_seq", "signal_reader"} => Idling
  <2>1. Idles
    BY <1>3, TheTwo DEF Idles, Unlinked, Running
  <2> QED BY <1>5, <1>6, <2>1 DEF Main, Idling
<1>10. Main = "read_tests" => Pairing
  <2>1. Pair(kern, FALSE)
    BY <1>3 DEF Pair, Twosome, Vacant, Lone
  <2>2. (proc[IDLE].at > 1) = FALSE /\ proc[ROOT].at = 1 /\ ~proc[ROOT].called
    BY <1>5, <1>6
  <2>3. Main = "read_tests" => proc[IDLE].program = "idleproc_tests"
    BY <1>5, <1>6 DEF Main
  <2>4. Pair(kern, proc[IDLE].at > 1)
    BY <2>1, <2>2, Zenon
  <2>5. proc[ROOT].at <= 13 /\ (proc[ROOT].called => proc[ROOT].at <= 12)
    BY <2>2
  <2> QED BY <2>3, <2>4, <2>5, Zenon DEF Pairing
<1>11. Careful
  BY <1>5, <1>6 DEF Careful
<1> QED BY <1>1, <1>7, <1>8, <1>9, <1>10, <1>11 DEF ReadsInv

(* What a step does to the reader, in the words of the properties.         *)
LEMMA ReadStep ==
  ASSUME UserBounds, ReadsInv, NextUser, NEW p \in Slots, Reads(kern, p)
  PROVE  /\ kern'.state[p] # "BLOCKED" => kern'.ret[p] \in {Held(dev), EINTR}
         /\ Slip(dev, dev')
<1>1. UserInv /\ ReadersWhole /\ Inv /\ Served(kern, dev)
  BY DEF ReadsInv, UserInv, SigInv
<1>2. Running # ROOT
  BY <1>1, NobodyReads
<1>3. CASE Typing
  BY <1>1, <1>3, TypingIs DEF Fed, Reads
<1>4. CASE ~Typing
  <2>1. Lets(kern, kern')
    <3>1. CASE Main \in {"assign3_test_seq", "signal_reader"}
      BY <1>1, <1>2, <1>4, <3>1, IdlingStays DEF ReadsInv
    <3>2. CASE Main = "read_tests"
      BY <1>1, <1>2, <1>4, <3>2, PairingStays DEF ReadsInv, Keeps, Lets
    <3>3. Main \in Readers
      BY DEF ReadsInv, Unread
    <3> QED BY <3>1, <3>2, <3>3 DEF Readers
  <2>2. Steady
    BY <1>1, <1>2, <1>4, SteadySteps, UserReadsIs
  <2>3. Slip(dev, dev')
    BY <1>1, <2>2 DEF Steady, SameBuffer, ReadersWhole, Whole, Slip
  <2> QED BY <2>1, <2>3 DEF Lets, Reads
<1> QED BY <1>3, <1>4

(* Of the programs of user.c: while a reader waits there is room in its    *)
(* buffer for what the driver has and for the null behind it, and nothing  *)
(* is written behind the buffer, but for the one null that control-d puts  *)
(* behind it when the last place is all that is left (kbd.c:233).          *)
THEOREM ReadersHaveRoom == ASSUME UserBounds PROVE SpecUser => ReaderHasRoom
<1> DEFINE Room(p) ==
             /\ Typed < dev.applbufsize /\ dev.overrun = 0
             /\ dev'.overrun # 0 => /\ dev'.overrun = 1 /\ dev'.eof_received
                                    /\ Typed + 1 = dev.applbufsize
<1>1. InitUser => ReadsInv
  BY InitReadsInv
<1>2. ReadsInv /\ [NextUser]_userVars => ReadsInv'
  BY NextKeepsReadsInv
<1>3. ReadsInv /\ [NextUser]_userVars => [\A p \in Slots : InRead(p) => Room(p)]_devVars
  <2> SUFFICES ASSUME ReadsInv, [NextUser]_userVars, ~UNCHANGED devVars,
                      NEW p \in Slots, InRead(p)
               PROVE  Room(p)
    OBVIOUS
  <2>1. NextUser
    BY DEF userVars, devVars
  <2>2. Reads(kern, p) /\ Typed = Held(dev)
    BY DEF InRead, Reads, Typed, Held
  <2>3. Typed < dev.applbufsize /\ dev.overrun = 0
    BY <2>2 DEF ReadsInv, UserInv, Served, Attended, ReadersWhole, Whole, Held
  <2> QED BY <2>1, <2>2, <2>3, ReadStep DEF Slip
<1> QED BY <1>1, <1>2, <1>3, PTL DEF SpecUser, ReaderHasRoom

(* Of the programs of user.c: while root waits in a read the driver has a  *)
(* byte for every key that was struck since the read began, and no other;  *)
(* and when the read ends it returns as many, or a signal ended it (kbd.c, *)
(* process_key; signal.c).  The key that ends it is not among them, nor is *)
(* what was typed before.  It needs that no other way out of a read is     *)
(* open: next() does not look at the state of the process behind idleproc  *)
(* (disp.c), and an idleproc that came from blocked_q with its link would  *)
(* have a reader behind it.                                                *)
THEOREM ReadsAll == ASSUME UserBounds PROVE SpecUser => ReadsWhatWasTyped
<1> DEFINE All(p) == /\ Typed = dev.struck
                     /\ kern'.state[p] # "BLOCKED" => kern'.ret[p] \in {dev.struck, EINTR}
<1>1. InitUser => ReadsInv
  BY InitReadsInv
<1>2. ReadsInv /\ [NextUser]_userVars => ReadsInv'
  BY NextKeepsReadsInv
<1>3. ReadsInv /\ [NextUser]_userVars => [\A p \in Slots : InRead(p) => All(p)]_devVars
  <2> SUFFICES ASSUME ReadsInv, [NextUser]_userVars, ~UNCHANGED devVars,
                      NEW p \in Slots, InRead(p)
               PROVE  All(p)
    OBVIOUS
  <2>1. NextUser
    BY DEF userVars, devVars
  <2>2. Reads(kern, p) /\ Typed = Held(dev)
    BY DEF InRead, Reads, Typed, Held
  <2>3. Held(dev) = dev.struck
    BY <2>2 DEF ReadsInv, ReadersWhole, Whole
  <2> QED BY <2>1, <2>2, <2>3, ReadStep
<1> QED BY <1>1, <1>2, <1>3, PTL DEF SpecUser, ReadsWhatWasTyped
=============================================================================
