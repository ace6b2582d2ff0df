----------------------------- MODULE UserProofs -----------------------------
(***************************************************************************)
(* What holds of the programs of user.c and of the keyboard they read, for *)
(* every size of the buffers: signals are not lost, no process has two     *)
(* keyboards, and who waits in a read is registered and has room.  What    *)
(* there is to prove of the kernel beneath is that no request but a read   *)
(* leaves a process blocked in one (Quiet).                                *)
(***************************************************************************)
EXTENDS UserPrograms, SignalsProofs

-----------------------------------------------------------------------------
(* Nobody new is blocked in a read, and nobody new has sent.               *)
Quiet(k, r) ==
  \A s \in Slots :
    /\ r.state[s] = "BLOCKED" /\ r.ret[s] = SYS_READ =>
         k.state[s] = "BLOCKED" /\ k.ret[s] = SYS_READ
    /\ r.call[s] = "send" => k.call[s] = "send"

(* Over two steps.                                                         *)
LEMMA QuietTwice ==
  ASSUME NEW k, NEW m, NEW r, Quiet(k, m), Quiet(m, r) PROVE Quiet(k, r)
BY DEF Quiet

(* The fields that decide it.                                              *)
Calls3(k, r) == r.state = k.state /\ r.ret = k.ret /\ r.call = k.call

(* Whatever changes none of these fields is quiet.                         *)
LEMMA SameQuiet == ASSUME NEW k, NEW r, Calls3(k, r) PROVE Quiet(k, r)
BY DEF Quiet, Calls3

(* A fault changes nothing else.                                           *)
LEMMA Fault_Calls ==
  ASSUME NEW k \in KernelType, NEW f PROVE Calls3(k, Fault(k, f))
BY DEF Fault, Calls3, KernelType

(* remove() and append() only link.                                        *)
LEMMA remove_Calls ==
  ASSUME NEW k \in KernelType, NEW q, NEW pid PROVE Calls3(k, remove(k, q, pid))
<1> DEFINE found == {s \in Members(k.next, k.que[q]) : k.pid[s] = pid}
           s     == CHOOSE x \in found : TRUE
           e     == [k EXCEPT !.que[q] = k.next[s], !.next[s] = NULL]
           l     == [k EXCEPT !.que[q] = LastOf(k.next, k.que[q])]
<1>1. remove(k, q, pid) \in {Fault(k, "wild"), Fault(k, "loop"), k, e, l}
  BY DEF remove
<1> HIDE DEF s
<1>2. Calls3(k, e) /\ Calls3(k, l) /\ Calls3(k, k)
  BY DEF Calls3, KernelType
<1> HIDE DEF e, l
<1> QED BY <1>1, <1>2, Fault_Calls

(* append() links the pcb at the end of its list.                          *)
LEMMA append_Calls ==
  ASSUME NEW k \in KernelType, NEW q, NEW p PROVE Calls3(k, append(k, q, p))
<1> DEFINE next == [k.next EXCEPT ![p] = NULL]
           last == LastOf(next, k.que[q])
           a    == [k EXCEPT !.next = next, !.que[q] = p]
           b    == [k EXCEPT !.next = next]
           c    == [k EXCEPT !.next = [next EXCEPT ![last] = p]]
<1>1. append(k, q, p) \in {a, b, c, Fault(k, "loop")}
  BY DEF append
<1> HIDE DEF next, last
<1>2. Calls3(k, a) /\ Calls3(k, b) /\ Calls3(k, c)
  BY DEF Calls3, KernelType
<1> HIDE DEF a, b, c
<1> QED BY <1>1, <1>2, Fault_Calls

(* ready() blocks nobody.                                                  *)
LEMMA ready_Calls ==
  ASSUME NEW k \in KernelType, NEW p
  PROVE  LET r == ready(k, p)
         IN  /\ r.ret = k.ret /\ r.call = k.call
             /\ r.state \in {k.state, [k.state EXCEPT ![p] = "READY"]}
             /\ Quiet(k, r)
<1> DEFINE r == [k EXCEPT !.next[p] = NULL, !.state[p] = "READY"]
           a == [r EXCEPT !.next[k.tail] = p, !.tail = p]
           b == [r EXCEPT !.que["head"] = p, !.tail = p]
           f == Fault(k, "kassert")
<1>1. ready(k, p) \in {f, r, a, b}
  BY DEF ready
<1>2. \A x \in {r, a, b} :
        x.ret = k.ret /\ x.call = k.call /\ x.state = [k.state EXCEPT ![p] = "READY"]
  BY DEF KernelType
<1>3. Calls3(k, f)
  BY Fault_Calls
<1> HIDE DEF r, a, b, f
<1>4. k.state \in [Slots -> States]
  BY DEF KernelType
<1>5. \A x \in {r, a, b} : Quiet(k, x)
  BY <1>2, <1>4 DEF Quiet
<1> QED BY <1>1, <1>2, <1>3, <1>5, SameQuiet DEF Calls3

(* next() neither.                                                         *)
LEMMA Run_Quiet ==
  ASSUME NEW k \in KernelType, NEW p PROVE Quiet(k, Run(k, p))
<1> DEFINE r == Run(k, p)
<1>1. /\ r.ret = k.ret /\ r.state = [k.state EXCEPT ![p] = "RUNNING"]
      /\ r.call = [k.call EXCEPT ![p] = "none"]
      /\ k.state \in [Slots -> States] /\ k.call \in [Slots -> {"none", "send", "recv"}]
  BY DEF Run, KernelType
<1> HIDE DEF r
<1>2. Quiet(k, r)
  BY <1>1 DEF Quiet
<1> QED BY <1>2 DEF r

(* next() takes the head off the ready queue.                              *)
LEMMA Pop_Calls ==
  ASSUME NEW k \in KernelType PROVE Calls3(k, Pop(k))
BY DEF Pop, Calls3, KernelType

(* dispatch() then makes a ready process run: it was ready before.         *)
LEMMA Dispatch_Quiet ==
  ASSUME NEW k \in KernelType PROVE Quiet(k, Dispatch(k))
<1> DEFINE h     == k.que["head"]
           r     == k.que["running"]
           s     == Pop(k).que["head"]
           idles == [Pop(k) EXCEPT !.state[r] = "READY"]
<1>1. h = NULL \/ h \in Pcbs
  BY DEF KernelType, QNames, Ptr
<1>2. \/ Dispatch(k) \in {Run(k, IDLE), Fault(k, "kassert")}
      \/ h \in Pcbs /\ Dispatch(k) \in {Run(Pop(k), h), Run(idles, h)}
      \/ h \in Pcbs /\ s # NULL /\ Dispatch(k) = Run(Pop(Pop(k)), s)
  BY <1>1, Zenon DEF Dispatch
<1>3. Quiet(k, Run(k, IDLE)) /\ Quiet(k, Fault(k, "kassert"))
  BY Run_Quiet, Fault_Calls, SameQuiet
<1>4. ASSUME h \in Pcbs PROVE Quiet(k, Run(Pop(k), h))
  <2>1. Pop(k) \in KernelType /\ Quiet(k, Pop(k))
    BY <1>4, Pop_Keeps, Pop_Calls, SameQuiet
  <2> QED BY <2>1, Run_Quiet, QuietTwice
<1>5. ASSUME h \in Pcbs PROVE Quiet(k, Run(idles, h))
  <2>1. Pop(k) \in KernelType /\ Quiet(k, Pop(k))
    BY <1>5, Pop_Keeps, Pop_Calls, SameQuiet
  <2> DEFINE m == Pop(k)
  <2> HIDE DEF m
  <2>2. m \in KernelType /\ Quiet(k, m)
    BY <2>1 DEF m
  <2> DEFINE w == [m EXCEPT !.state[r] = "READY"]
  <2>3. w \in KernelType /\ Quiet(m, w)
    <3>1. w.state = [m.state EXCEPT ![r] = "READY"] /\ w \in KernelType
      BY <2>2 DEF KernelType, States
    <3>2. w.call = m.call /\ w.ret = m.ret
      BY <2>2 DEF KernelType
    <3>3. \A p \in Slots : w.state[p] \in {m.state[p], "READY"}
      BY <2>2, <3>1 DEF KernelType
    <3> QED BY <3>1, <3>2, <3>3 DEF Quiet
  <2> HIDE DEF w
  <2>4. Quiet(k, Run(w, h))
    BY <2>2, <2>3, Run_Quiet, QuietTwice
  <2> QED BY <2>4 DEF w, m
<1>6. ASSUME h \in Pcbs, s # NULL PROVE Quiet(k, Run(Pop(Pop(k)), s))
  <2>1. Pop(k) \in KernelType /\ Quiet(k, Pop(k))
    BY <1>6, Pop_Keeps, Pop_Calls, SameQuiet
  <2>2. s \in Pcbs
    BY <1>6, <2>1 DEF KernelType, QNames, Ptr
  <2>3. Pop(Pop(k)) \in KernelType /\ Quiet(Pop(k), Pop(Pop(k)))
    BY <2>1, <2>2, Pop_Keeps, Pop_Calls, SameQuiet
  <2>4. Quiet(k, Pop(Pop(k))) /\ Quiet(Pop(Pop(k)), Run(Pop(Pop(k)), s))
    BY <2>1, <2>3, Run_Quiet, QuietTwice
  <2> QED BY <2>4, QuietTwice
<1> HIDE DEF s, idles, h
<1> QED BY <1>2, <1>3, <1>4, <1>5, <1>6

(* Nor does notify_waiters() block anybody.                                *)
LEMMA notify_waiters_Quiet ==
  ASSUME NEW k \in KernelType, NEW pid, NEW G PROVE Quiet(k, notify_waiters(k, pid, G))
<1> DEFINE at   == Chain(k.next, k.que["blocked_q"])
           hits == {n \in 0 .. MAX_PROC :
                      at[n] \in Pcbs /\ WaitsOn(k, at[n], pid, n = 0, G)}
           n    == CHOOSE i \in hits : \A j \in hits : i <= j
           q    == at[n]
           k1   == IF n = 0 THEN k ELSE [k EXCEPT !.next[at[n - 1]] = k.next[q]]
           k2   == [k1 EXCEPT !.ret[q] = BAD_PID]
<1>1. /\ hits = {} => notify_waiters(k, pid, G) \in {k, Fault(k, "loop")}
      /\ hits # {} => notify_waiters(k, pid, G) \in {Fault(k, "loop"), ready(k2, q)}
  <2>1. CASE hits = {}
    BY <2>1 DEF notify_waiters
  <2>2. CASE hits # {}
    BY <2>2 DEF notify_waiters
  <2> QED BY <2>1, <2>2
<1>2. Quiet(k, k) /\ Quiet(k, Fault(k, "loop"))
  BY Fault_Calls, SameQuiet DEF Quiet
<1>3. ASSUME hits # {} PROVE Quiet(k, ready(k2, q))
  <2>1. n \in hits
    <3>1. hits \subseteq Nat
      OBVIOUS
    <3> HIDE DEF hits
    <3> QED BY <1>3, <3>1, HasMinimum
  <2>2. q \in Pcbs /\ q \in Slots /\ k.next[q] \in Ptr
    BY <2>1, Constants DEF KernelType
  <2>3. BAD_PID \in Int
    BY DEF BAD_PID
  <2>4. k1 \in KernelType /\ Calls3(k, k1)
    <3> HIDE DEF at, n, q
    <3> QED BY <2>2 DEF KernelType, Calls3
  <2> HIDE DEF k1, q
  <2>5. k2 \in KernelType /\ k2.state = k1.state /\ k2.call = k1.call
        /\ k2.ret = [k1.ret EXCEPT ![q] = BAD_PID]
    BY <2>2, <2>3, <2>4 DEF KernelType
  <2> HIDE DEF k2
  <2>6. ready(k2, q).ret = k2.ret /\ ready(k2, q).call = k2.call /\ Quiet(k2, ready(k2, q))
    BY <2>5, ready_Calls
  <2>7. k.ret \in [Slots -> Int] /\ BAD_PID # SYS_READ
    BY DEF KernelType, BAD_PID, SYS_READ
  <2>8. Quiet(k, k2)
    BY <2>2, <2>4, <2>5, <2>7 DEF Quiet, Calls3
  <2> QED BY <2>6, <2>8, QuietTwice
<1> HIDE DEF hits, k2, q
<1> QED BY <1>1, <1>2, <1>3

(* sleep(): the process sleeps, nobody else changes.                       *)
LEMMA sleep_Quiet ==
  ASSUME NEW k \in KernelType, NEW p, NEW ms PROVE Quiet(k, sleep(k, p, ms))
<1> DEFINE t    == milliseconds_to_ticks(ms)
           k1   == [k EXCEPT !.next[p] = NULL, !.state[p] = "SLEEP", !.sleepticks[p] = t]
           h    == k.headsleeper
           at   == Chain(k1.next, h)
           acc  == Accumulated(k1, at)
           n    == CHOOSE i \in 1 .. MAX_PROC :
                       /\ at[i] = NULL \/ acc[i] >= t
                       /\ \A j \in 1 .. i - 1 : at[j] # NULL /\ acc[j] < t
           prev == at[n - 1]
           succ == Step(k1.next, prev)
           rest == Minus(t, acc[n - 1])
           further == [k1 EXCEPT !.next = Between(@, prev, p, succ),
                                 !.sleepticks = Shorten([@ EXCEPT ![p] = rest], succ, rest)]
           first   == [k1 EXCEPT !.next[p] = h, !.headsleeper = p,
                                 !.sleepticks = Shorten(@, h, t)]
<1>1. sleep(k, p, ms) \in {Fault(k, "loop"), further, first}
  BY DEF sleep
<1> HIDE DEF t, h, at, acc, n, prev, succ, rest
<1>2. Calls3(k1, further) /\ Calls3(k1, first)
  BY DEF KernelType, Calls3
<1>3. k1.ret = k.ret /\ k1.call = k.call /\ k1.state = [k.state EXCEPT ![p] = "SLEEP"]
  BY DEF KernelType
<1> HIDE DEF k1, further, first
<1>4. k.state \in [Slots -> States]
  BY DEF KernelType
<1>5. \A x \in {further, first} : Quiet(k, x)
  BY <1>2, <1>3, <1>4 DEF Quiet, Calls3
<1> QED BY <1>1, <1>5, Fault_Calls, SameQuiet

(* tick() wakes sleepers.                                                  *)
LEMMA tick_Quiet ==
  ASSUME NEW k \in KernelType PROVE Quiet(k, tick(k))
<1>1. Quiet(k, wake(k))
  <2> DEFINE w == wake(k)
             at    == Chain(k.next, k.headsleeper)
             woken == {at[i] : i \in 0 .. DueCount(k, at) - 1}
  <2>1. \/ w = Fault(k, "alias")
        \/ /\ w.ret = k.ret /\ w.call = k.call
           /\ w.state = [s \in Slots |-> IF s \in woken THEN "READY" ELSE k.state[s]]
    BY DEF wake, KernelType
  <2>2. CASE w = Fault(k, "alias")
    BY <2>2, Fault_Calls, SameQuiet
  <2>3. CASE /\ w.ret = k.ret /\ w.call = k.call
             /\ w.state = [s \in Slots |-> IF s \in woken THEN "READY" ELSE k.state[s]]
    <3> HIDE DEF w, woken
    <3>1. Quiet(k, w)
      BY <2>3 DEF Quiet
    <3> QED BY <3>1 DEF w
  <2> QED BY <2>1, <2>2, <2>3
<1>2. ASSUME NEW m \in KernelType PROVE Quiet(m, CountDown(m))
  BY SameQuiet DEF CountDown, KernelType, Calls3
<1>3. CASE k.headsleeper = NULL
  BY <1>3 DEF tick, Quiet
<1>4. CASE k.headsleeper # NULL
  <2> DEFINE m == IF k.sleepticks[k.headsleeper] <= 1 THEN wake(k) ELSE k
  <2>1. m \in KernelType
    BY <1>4, wake_Keeps DEF KernelType, Ptr
  <2>2. Quiet(k, m)
    BY <1>1 DEF Quiet
  <2>3. tick(k) = CountDown(m)
    BY <1>4 DEF tick
  <2> HIDE DEF m
  <2> QED BY <1>2, <2>1, <2>2, <2>3, QuietTwice
<1> QED BY <1>3, <1>4

(* create() writes the caller's result, and makes the slot ready.          *)
LEMMA create_Quiet ==
  ASSUME NEW k \in KernelType, PidsNameSlots(k), NEW p \in Pcbs, k.state[p] # "BLOCKED",
         NEW i \in Pcbs, NEW allocated \in BOOLEAN
  PROVE  Quiet(k, create(k, p, i, allocated))
<1> DEFINE m   == remove(k, "dead_q", i)
           pid == NewPid(k, i)
           k1  == [m EXCEPT !.pid[i] = pid]
           k2  == [k1 EXCEPT !.state[i] = "READY"]
           k3  == ready(k2, i)
           a   == [k1 EXCEPT !.ret[p] = -1]
           b   == [k3 EXCEPT !.ret[p] = Code(pid)]
<1>1. create(k, p, i, allocated) \in {a, b}
  BY DEF create
<1>2. m \in KernelType /\ Calls3(k, m) /\ pid \in Pids /\ p \in Slots /\ i \in Slots
  BY NewPidNamesSlot, remove_Keeps, remove_Calls, Constants
<1> HIDE DEF m, pid
<1>3. k1 \in KernelType /\ Calls3(m, k1)
  BY <1>2 DEF KernelType, Calls3
<1> HIDE DEF k1
<1>4. k2 \in KernelType /\ k2.state = [k1.state EXCEPT ![i] = "READY"] /\ k2.ret = k1.ret /\ k2.call = k1.call
  BY <1>2, <1>3 DEF KernelType, States
<1> HIDE DEF k2
<1>5. /\ k3 \in KernelType /\ k3.ret = k2.ret /\ k3.call = k2.call
      /\ k3.state \in {k2.state, [k2.state EXCEPT ![i] = "READY"]}
  BY <1>2, <1>4, ready_Keeps, ready_Calls
<1> HIDE DEF k3
<1>6. a.state = k1.state /\ a.call = k1.call /\ a.ret = [k1.ret EXCEPT ![p] = -1]
  BY <1>3 DEF KernelType
<1>7. b.state = k3.state /\ b.call = k3.call /\ b.ret = [k3.ret EXCEPT ![p] = Code(pid)]
  BY <1>5 DEF KernelType
<1> HIDE DEF a, b
<1>8. k.state \in [Slots -> States] /\ k.ret \in [Slots -> Int]
  BY DEF KernelType
<1>9. Quiet(k, a)
  BY <1>2, <1>3, <1>6, <1>8 DEF Quiet, Calls3
<1>10. Quiet(k, b)
  BY <1>2, <1>3, <1>4, <1>5, <1>7, <1>8 DEF Quiet, Calls3
<1> QED BY <1>1, <1>9, <1>10

(* append() blocks the process with the code of its call.                  *)
LEMMA Block_Quiet ==
  ASSUME NEW k \in KernelType, NEW p \in Pcbs, NEW code \in Int
  PROVE  LET r == Block(k, p, code)
         IN  /\ r.state = [k.state EXCEPT ![p] = "BLOCKED"] /\ r.ret = [k.ret EXCEPT ![p] = code]
             /\ r.call = k.call /\ (code # SYS_READ => Quiet(k, r))
<1> DEFINE m == [k EXCEPT !.state[p] = "BLOCKED", !.ret[p] = code]
           r == append(m, "blocked_q", p)
<1>1. /\ m \in KernelType /\ m.state = [k.state EXCEPT ![p] = "BLOCKED"]
      /\ m.ret = [k.ret EXCEPT ![p] = code] /\ m.call = k.call
  BY DEF KernelType, States
<1> HIDE DEF m
<1>2. Calls3(m, r) /\ Block(k, p, code) = r
  BY <1>1, append_Calls DEF Block, m
<1> HIDE DEF r
<1>3. k.state \in [Slots -> States] /\ k.ret \in [Slots -> Int]
  BY DEF KernelType
<1>4. ASSUME code # SYS_READ PROVE Quiet(k, r)
  BY <1>1, <1>2, <1>3, <1>4 DEF Quiet, Calls3
<1> QED BY <1>1, <1>2, <1>4 DEF Calls3

(* recv from any, when nobody has sent, refuses the buffer or blocks.      *)
LEMMA SysRecv_Quiet ==
  ASSUME NEW k \in KernelType, NEW p \in Pcbs, \A s \in Slots : k.call[s] # "send",
         k.arg[p] = 0, k.state[p] # "BLOCKED", NEW ok
  PROVE  Quiet(k, SysRecv(k, p, ok, {}))
<1> DEFINE at   == Chain(k.next, k.que["blocked_q"])
           hits == {n \in 0 .. MAX_PROC :
                      at[n] \in Pcbs /\ at[n] # p /\ SendsTo(k, at[n], k.pid[p], {})}
           rc   == validate(k, p, 0, ok)
           m    == IF at[MAX_PROC] # NULL THEN Fault(k, "loop") ELSE k
<1>1. hits = {}
  BY Constants DEF SendsTo
<1>2. RecvAny(k, p, {}) = Outcome(m, 0, 0)
  BY <1>1 DEF RecvAny
<1>3. SysRecv(k, p, ok, {}) \in {ready([k EXCEPT !.ret[p] = rc], p), Block(m, p, SYS_RECV)}
  <2>1. rc \in Int /\ ~(rc > 0)
    BY DEF validate, BAD_PID, SRC_DST_SAME, BAD_BUFFER_PARM
  <2> HIDE DEF m, rc, hits
  <2>2. CASE rc < 0
    BY <2>1, <2>2 DEF SysRecv, Finish, Outcome, rc
  <2>3. CASE ~(rc < 0)
    BY <2>1, <2>3, <1>2 DEF SysRecv, Finish, Outcome, rc
  <2> QED BY <2>2, <2>3
<1>4. Quiet(k, Block(m, p, SYS_RECV))
  <2>1. m \in KernelType /\ Quiet(k, m)
    BY Fault_Calls, SameQuiet, FaultKeeps DEF Faults, Quiet
  <2>2. SYS_RECV \in Int /\ SYS_RECV # SYS_READ
    BY DEF SYS_RECV, SYS_READ
  <2> HIDE DEF m
  <2> QED BY <2>1, <2>2, Block_Quiet, QuietTwice
<1>5. Quiet(k, ready([k EXCEPT !.ret[p] = rc], p))
  <2> DEFINE w == [k EXCEPT !.ret[p] = rc]
  <2>1. rc \in Int
    BY validateIsInt
  <2> HIDE DEF rc
  <2>2. w \in KernelType /\ w.state = k.state /\ w.call = k.call /\ w.ret = [k.ret EXCEPT ![p] = rc]
    BY <2>1 DEF KernelType
  <2> HIDE DEF w
  <2>3. Quiet(k, w)
    BY <2>2 DEF Quiet, KernelType
  <2>4. Quiet(w, ready(w, p))
    BY <2>2, ready_Calls
  <2>5. Quiet(k, ready(w, p))
    BY <2>3, <2>4, QuietTwice
  <2> QED BY <2>5 DEF w
<1> QED BY <1>3, <1>4, <1>5

(* signal() makes a process ready.                                         *)
LEMMA signal_Quiet ==
  ASSUME NEW k \in KernelType, NEW t \in Slots, NEW n \in Int
  PROVE  /\ signal(k, t, n) \in KernelType
         /\ signal(k, t, n).fault = "none" => Quiet(k, signal(k, t, n))
<1> DEFINE w == ready(k, t)
           r == signal(k, t, n)
<1>1. CASE k.state[t] \notin {"BLOCKED", "SLEEP"}
  BY <1>1 DEF signal, Quiet
<1>2. CASE k.state[t] \in {"BLOCKED", "SLEEP"}
  <2>1. /\ w \in KernelType /\ w.ret = k.ret /\ w.call = k.call
        /\ w.fault = "none" => w.state = [k.state EXCEPT ![t] = "READY"]
    BY ready_Keeps, ready_Calls
  <2> HIDE DEF w
  <2>2. PICK x \in Int : r = [w EXCEPT !.ret[t] = x]
    <3>1. k.sleepticks[t] \in Int /\ EINTR \in Int
      <4>1. k.sleepticks[t] \in Ticks
        BY DEF KernelType
      <4> QED BY <4>1, SleepListAssumption DEF Ticks, EINTR
    <3>2. k.state[t] = "BLOCKED" => r \in {[w EXCEPT !.ret[t] = n], [w EXCEPT !.ret[t] = EINTR]}
      BY DEF signal, w
    <3>3. k.state[t] = "SLEEP" => r = [w EXCEPT !.ret[t] = k.sleepticks[t]]
      BY DEF signal, w
    <3> QED BY <1>2, <3>1, <3>2, <3>3
  <2> HIDE DEF r
  <2>3. /\ r \in KernelType /\ r.state = w.state /\ r.call = w.call /\ r.fault = w.fault
        /\ r.ret = [w.ret EXCEPT ![t] = x]
    BY <2>1, <2>2 DEF KernelType
  <2>4. k.state \in [Slots -> States] /\ k.ret \in [Slots -> Int]
    BY DEF KernelType
  <2>5. r.fault = "none" => Quiet(k, r)
    BY <2>1, <2>3, <2>4 DEF Quiet
  <2> QED BY <2>3, <2>5 DEF r
<1> QED BY <1>1, <1>2

-----------------------------------------------------------------------------
(* What serving a request leaves.                                          *)
LEMMA ServeQuiet ==
  ASSUME Inv, NEW k, Serve(k), k.fault = "none" => Quiet(kern, k)
  PROVE  Quiet(kern, kern')
<1>1. CASE k.fault = "none"
  BY <1>1 DEF Serve
<1>2. CASE k.fault # "none"
  BY <1>2, InvIs DEF Serve, KernelType, Quiet
<1> QED BY <1>1, <1>2

(* Only the running process runs.                                          *)
LEMMA RunningIs ==
  ASSUME Inv
  PROVE  /\ kern \in KernelType /\ Running \in Pcbs /\ Running \in Slots
         /\ kern.state[Running] = "RUNNING"
BY RunningIsPcb DEF OneRuns, Running

(* SYS_YIELD: the caller goes behind the others.                           *)
LEMMA YieldQuiet == ASSUME Inv, Yield PROVE Quiet(kern, kern')
<1> DEFINE m == ready(kern, Running)
<1>1. m \in KernelType /\ Quiet(kern, m)
  BY RunningIs, ready_Keeps, ready_Calls
<1>2. Serve(Dispatch(m))
  BY DEF Yield
<1> HIDE DEF m
<1> QED BY <1>1, <1>2, Dispatch_Quiet, QuietTwice, ServeQuiet

(* SYS_STOP: those it releases were in a send or a receive.                *)
LEMMA StopQuiet == ASSUME Inv, NEW G, StopWith(G) PROVE Quiet(kern, kern')
<1> DEFINE k1 == [kern EXCEPT !.state[Running] = "STOPPED", !.next[Running] = NULL]
           k2 == append(k1, "dead_q", Running)
           k3 == notify_waiters(k2, kern.pid[Running], G)
<1>1. kern \in KernelType /\ Running \in Pcbs
  BY RunningIs
<1>2. k1 \in KernelType /\ Quiet(kern, k1)
  BY <1>1 DEF KernelType, States, Ptr, Quiet
<1>3. Serve(Dispatch(k3))
  BY DEF StopWith, Stopped
<1> HIDE DEF k1
<1>4. k2 \in KernelType /\ Quiet(k1, k2)
  BY <1>1, <1>2, append_Keeps, append_Calls, SameQuiet DEF QNames
<1> HIDE DEF k2
<1>5. k3 \in KernelType /\ Quiet(k2, k3)
  BY <1>4, notify_waiters_Keeps, notify_waiters_Quiet
<1> HIDE DEF k3
<1>6. Quiet(kern, Dispatch(k3))
  BY <1>2, <1>4, <1>5, Dispatch_Quiet, QuietTwice
<1> QED BY <1>3, <1>6, ServeQuiet

(* SYS_SLEEP: the caller sleeps or goes on.                                *)
LEMMA NapQuiet == ASSUME Inv, NEW ms \in Nat, Nap(ms) PROVE Quiet(kern, kern')
<1> DEFINE m == sleep(kern, Running, ms)
<1>1. m \in KernelType /\ Quiet(kern, m) /\ Quiet(kern, Fault(kern, "kassert"))
  BY RunningIs, sleep_Keeps, sleep_Quiet, Fault_Calls, SameQuiet
<1>2. Serve(Fault(kern, "kassert")) \/ Serve(Dispatch(m))
  BY DEF Nap
<1> HIDE DEF m
<1> QED BY <1>1, <1>2, Dispatch_Quiet, QuietTwice, ServeQuiet

(* SYS_TIMER: tick() wakes sleepers, and the caller's ret becomes its eax; *)
(* as it is ready then, no read is begun.                                  *)
LEMMA TimerQuiet == ASSUME Inv, NEW eax \in Int, TimerAt(eax) PROVE Quiet(kern, kern')
<1> DEFINE k0 == [kern EXCEPT !.ret[Running] = eax]
           k1 == ready(k0, Running)
           k2 == Dispatch(k1)
           k3 == tick(k2)
<1>1. kern \in KernelType /\ Running \in Pcbs /\ Running \in Slots /\ kern.state[Running] = "RUNNING"
  BY RunningIs
<1>2. k0 \in KernelType /\ Quiet(kern, k0)
  <2>1. k0.state = kern.state /\ k0.call = kern.call /\ k0.ret = [kern.ret EXCEPT ![Running] = eax]
    BY <1>1 DEF KernelType
  <2>2. k0 \in KernelType
    BY <1>1, SetRet
  <2> HIDE DEF k0
  <2> QED BY <1>1, <2>1, <2>2 DEF Quiet, KernelType
<1>3. Serve(k3)
  BY DEF TimerAt
<1> HIDE DEF k0
<1>4. k1 \in KernelType /\ Quiet(k0, k1)
  BY <1>1, <1>2, ready_Keeps, ready_Calls
<1>5. Gave(kern, Running, k1)
  BY <1>1, <1>2, SetRet, ready_Gives, GaveAfter DEF k0
<1> HIDE DEF k1
<1>6. k2 \in KernelType /\ Quiet(k1, k2)
  BY <1>4, <1>5, DispatchKeeps, Dispatch_Quiet
<1> HIDE DEF k2
<1>7. Quiet(k2, k3)
  BY <1>6, tick_Quiet
<1>8. Quiet(kern, k3)
  BY <1>2, <1>4, <1>6, <1>7, QuietTwice
<1> QED BY <1>3, <1>8, ServeQuiet

(* SYS_CREATE: the new process is ready and has made no call.              *)
LEMMA CreateQuiet == ASSUME Inv, Create PROVE Quiet(kern, kern')
<1>1. /\ kern \in KernelType /\ Running \in Pcbs /\ Running \in Slots
      /\ kern.state[Running] = "RUNNING" /\ PidsNameSlots(kern)
  BY RunningIs, InvIs
<1>2. CASE FreeSlots(kern) = {}
  <2> DEFINE m == remove(kern, "dead_q", MAX_PROC)
             k == [m EXCEPT !.ret[Running] = -1]
  <2>1. m \in KernelType /\ Calls3(kern, m)
    BY <1>1, remove_Keeps, remove_Calls
  <2>2. Serve(k)
    BY <1>2 DEF Create
  <2> HIDE DEF m
  <2>3. k.state = m.state /\ k.call = m.call /\ k.ret = [m.ret EXCEPT ![Running] = -1]
    BY <2>1 DEF KernelType
  <2> HIDE DEF k
  <2>4. Quiet(kern, k)
    BY <1>1, <2>1, <2>3 DEF Quiet, Calls3, KernelType
  <2> QED BY <2>2, <2>4, ServeQuiet
<1>3. CASE FreeSlots(kern) # {}
  <2> DEFINE i == CHOOSE s \in FreeSlots(kern) : \A r \in FreeSlots(kern) : s <= r
  <2>1. FreeSlots(kern) \subseteq Pcbs /\ FreeSlots(kern) \subseteq Nat
    BY Constants DEF FreeSlots
  <2>2. i \in Pcbs
    BY <1>3, <2>1, HasMinimum
  <2>3. PICK allocated \in {TRUE, ~AllocMayFail} : Serve(create(kern, Running, i, allocated))
    BY <1>3 DEF Create
  <2> HIDE DEF i
  <2>4. allocated \in BOOLEAN
    BY KernelAssumption
  <2>5. Quiet(kern, create(kern, Running, i, allocated))
    BY <1>1, <2>2, <2>4, create_Quiet
  <2> QED BY <2>3, <2>5, ServeQuiet
<1> QED BY <1>2, <1>3

-----------------------------------------------------------------------------
(* A step of the kernel with signals, whatever it is.                      *)
Stepped == Inv' /\ Grown(Nest(sig)) /\ \E s : SigStep(s)

(* Such a step keeps the inductive invariant of module Signals.            *)
LEMMA SteppedKeeps ==
  ASSUME SigInv, NoLostWakeup, Stepped PROVE SigInv' /\ NoLostWakeup'
BY StepKeepsSigInv DEF Stepped

(* The requests of the kernel's own.                                       *)
LEMMA PlainSteps ==
  ASSUME SigInv, Inv', Grown(Nest(sig)), Delivers(Renewed) PROVE Stepped
BY AlsoSteps DEF Stepped

(* SYS_YIELD, with the delivery that follows.                              *)
LEMMA YieldStepped == ASSUME SigInv, Also(Yield) PROVE Stepped /\ Quiet(kern, kern')
<1>1. Inv /\ Region(Nest(sig)) /\ Linked(kern, Nest(sig)) /\ Yield /\ Delivers(Renewed)
  BY DEF SigInv, Also, Delivers
<1>2. Inv' /\ Grown(Nest(sig)) /\ Quiet(kern, kern')
  BY <1>1, YieldKeeps, YieldWithin, PlainGrows, YieldQuiet
<1> QED BY <1>1, <1>2, PlainSteps

(* SYS_STOP, with the delivery that follows.                               *)
LEMMA StopStepped == ASSUME SigInv, NEW G, Also(StopWith(G)) PROVE Stepped /\ Quiet(kern, kern')
<1>1. Inv /\ Region(Nest(sig)) /\ Linked(kern, Nest(sig)) /\ StopWith(G) /\ Delivers(Renewed)
  BY DEF SigInv, Also, Delivers
<1>2. Inv' /\ Grown(Nest(sig)) /\ Quiet(kern, kern')
  BY <1>1, StopWithKeeps, StopWithin, PlainGrows, StopQuiet
<1> QED BY <1>1, <1>2, PlainSteps

(* SYS_SLEEP, with the delivery that follows.                              *)
LEMMA NapStepped == ASSUME SigInv, NEW ms \in Nat, Also(Nap(ms)) PROVE Stepped /\ Quiet(kern, kern')
<1>1. Inv /\ Region(Nest(sig)) /\ Linked(kern, Nest(sig)) /\ Nap(ms) /\ Delivers(Renewed)
  BY DEF SigInv, Also, Delivers
<1>2. Inv' /\ Grown(Nest(sig)) /\ Quiet(kern, kern')
  BY <1>1, NapKeeps, NapWithin, PlainGrows, NapQuiet
<1> QED BY <1>1, <1>2, PlainSteps

(* SYS_TIMER, with the delivery that follows.                              *)
LEMMA TimerStepped ==
  ASSUME SigInv, NEW eax \in Int, Also(TimerAt(eax)) PROVE Stepped /\ Quiet(kern, kern')
<1>1. Inv /\ Region(Nest(sig)) /\ Linked(kern, Nest(sig)) /\ TimerAt(eax) /\ Delivers(Renewed)
  BY DEF SigInv, Also, Delivers
<1>2. Inv' /\ Grown(Nest(sig)) /\ Quiet(kern, kern')
  BY <1>1, TimerAtKeeps, TimerWithin, PlainGrows, TimerQuiet
<1> QED BY <1>1, <1>2, PlainSteps

(* SYS_CREATE, with the new mask and stack.                                *)
LEMMA CreateStepped == ASSUME SigInv, Also(Create) PROVE Stepped /\ Quiet(kern, kern')
<1>1. Inv /\ Region(Nest(sig)) /\ Linked(kern, Nest(sig)) /\ Create /\ Delivers(Renewed)
  BY DEF SigInv, Also, Delivers
<1>2. Inv' /\ Grown(Nest(sig)) /\ Quiet(kern, kern')
  BY <1>1, CreateKeeps, CreateGrows, CreateQuiet
<1> QED BY <1>1, <1>2, PlainSteps

(* idleproc's receive.                                                     *)
RecvOfAny(buf, ok) ==
  Serve(Dispatch(SysRecv(WithArgs(kern, Running, "recv", 0, buf, 0), Running, ok, {})))

(* While nobody is in a send it finds no sender, and blocks.               *)
LEMMA RecvStepped ==
  ASSUME SigInv, \A s \in Slots : kern.call[s] # "send", NEW buf \in Nat, NEW ok, Also(RecvOfAny(buf, ok))
  PROVE  Stepped /\ Quiet(kern, kern')
<1>1. /\ Inv /\ Region(Nest(sig)) /\ Linked(kern, Nest(sig)) /\ RecvOfAny(buf, ok)
      /\ Delivers(Renewed)
  BY DEF SigInv, Also, Delivers
<1>2. /\ kern \in KernelType /\ Running \in Pcbs /\ Running \in Slots
      /\ kern.state[Running] = "RUNNING"
  BY <1>1, RunningIs
<1> DEFINE w == WithArgs(kern, Running, "recv", 0, buf, 0)
           r == SysRecv(w, Running, ok, {})
<1>3. w \in KernelType /\ Undisturbed(kern, w)
  BY <1>1, <1>2, WithArgs_Keeps
<1>4. /\ w.state = kern.state /\ w.ret = kern.ret /\ w.arg[Running] = 0
      /\ w.call = [kern.call EXCEPT ![Running] = "recv"]
  BY <1>2 DEF WithArgs, KernelType
<1>5. Serve(Dispatch(r))
  BY <1>1 DEF RecvOfAny
<1> HIDE DEF w
<1>6. Gave(kern, Running, r) /\ r \in KernelType
  <2>1. Gave(w, Running, r)
    BY <1>2, <1>3, SysRecv_Gives
  <2>2. Gave(kern, Running, r)
    BY <1>3, <2>1, GaveAfter
  <2> QED BY <2>2 DEF Gave
<1>7. Quiet(kern, w) /\ Quiet(w, r)
  <2>1. \A s \in Slots : w.call[s] # "send"
    BY <1>2, <1>4 DEF KernelType
  <2>2. Quiet(kern, w)
    BY <1>4, <2>1 DEF Quiet
  <2> QED BY <1>2, <1>3, <1>4, <2>1, <2>2, SysRecv_Quiet
<1> HIDE DEF r
<1>8. Quiet(kern, kern')
  BY <1>1, <1>5, <1>6, <1>7, Dispatch_Quiet, QuietTwice, ServeQuiet
<1>9. Inv'
  BY <1>1, <1>5, <1>6, DispatchKeeps, ServeKeeps
<1>10. Grown(Nest(sig))
  BY <1>1, ReceiveWithin, PlainGrows DEF RecvOfAny
<1> QED BY <1>1, <1>8, <1>9, <1>10, PlainSteps

(* The signal requests.                                                    *)
LEMMA ReturnsQuiet ==
  ASSUME Inv, NEW n \in Int
  PROVE  Returns(n) \in KernelType /\ Quiet(kern, Returns(n))
<1> DEFINE k == Returns(n)
<1>1. k \in KernelType
  BY RunningIs, SetRet DEF Returns
<1>2. k.state = kern.state /\ k.call = kern.call /\ k.ret = [kern.ret EXCEPT ![Running] = n]
  BY RunningIs DEF Returns, KernelType
<1> HIDE DEF k
<1>3. Quiet(kern, k)
  BY <1>2, RunningIs DEF Quiet, KernelType
<1> QED BY <1>1, <1>3 DEF k

(* SYS_SIGHANDLER only returns.                                            *)
LEMMA SigHandlerStepped ==
  ASSUME SigInv, NEW n \in SigNos, NEW h \in Nat, SigHandler(n, h)
  PROVE  Stepped /\ Quiet(kern, kern')
<1>1. Inv /\ Serve(Returns(0))
  BY DEF SigInv, SigHandler, ServeSig, Returns
<1> QED BY <1>1, SigHandlerSteps, ReturnsQuiet, ServeQuiet DEF Stepped

(* SYS_SIGKILL: a target that waits in a read is released from it.         *)
LEMMA SigKillStepped ==
  ASSUME SigInv, NEW pid \in Nat, NEW n, SigKill(pid, n)
  PROVE  Stepped /\ Quiet(kern, kern')
<1>1. Inv /\ kern \in KernelType
  BY InvIs DEF SigInv
<1>2. CASE ~validsignal(sig, pid, n)
  <2>1. Serve(Returns(INVALID_SIGNAL)) /\ INVALID_SIGNAL \in Int
    BY <1>2 DEF SigKill, ServeSig, Returns, INVALID_SIGNAL
  <2> QED BY <1>1, <2>1, SigKillSteps, ReturnsQuiet, ServeQuiet DEF Stepped
<1>3. CASE validsignal(sig, pid, n)
  <2> DEFINE t == Slot(pid)
             m == signal(kern, t, n)
             k == [m EXCEPT !.ret[Running] = 0]
  <2>1. Serve(k)
    BY <1>3 DEF SigKill, ServeSig
  <2>2. t \in Slots
    BY SlotInSlots
  <2>3. n \in SigNos /\ n \in Int
    <3>1. n \in sig.allow[t] /\ sig \in SigType
      BY <1>3 DEF validsignal, SigInv, SigTypeOK
    <3>2. sig.allow[t] \subseteq SigNos /\ SigNos \subseteq Nat
      BY <2>2, <3>1, SigFields
    <3> HIDE DEF t, m, k
    <3>3. n \in SigNos
      BY <3>1, <3>2
    <3>4. n \in Nat
      BY <3>2, <3>3
    <3> QED BY <3>3, <3>4
  <2>4. m \in KernelType /\ (m.fault = "none" => Quiet(kern, m))
    BY <1>1, <2>2, <2>3, signal_Quiet
  <2> HIDE DEF m
  <2>5. /\ k.fault = m.fault /\ k.state = m.state /\ k.call = m.call
        /\ k.ret = [m.ret EXCEPT ![Running] = 0]
    BY <2>4 DEF KernelType
  <2>6. m.ret \in [Slots -> Int]
    BY <2>4 DEF KernelType
  <2> HIDE DEF k
  <2>7. m.fault = "none" => Quiet(kern, k)
    BY <1>1, <2>4, <2>5, <2>6 DEF Quiet, SYS_READ
  <2> QED BY <1>1, <2>1, <2>5, <2>7, SigKillSteps, ServeQuiet DEF Stepped
<1> QED BY <1>2, <1>3

(* SYS_SIGWAIT: the caller blocks, in no read.                             *)
LEMMA SigWaitStepped == ASSUME SigInv, SigWait PROVE Stepped /\ Quiet(kern, kern')
<1>1. Inv /\ kern \in KernelType /\ Running \in Pcbs
  BY RunningIs DEF SigInv
<1>2. CASE sig.allow[Running] = {}
  <2>1. Serve(Returns(SIGNAL_INVALID)) /\ SIGNAL_INVALID \in Int
    BY <1>2 DEF SigWait, ServeSig, Returns, SIGNAL_INVALID
  <2> QED BY <1>1, <2>1, SigWaitSteps, ReturnsQuiet, ServeQuiet DEF Stepped
<1>3. CASE sig.allow[Running] # {}
  <2> DEFINE b == Block(kern, Running, SYS_SIGWAIT)
  <2>1. Serve(Dispatch(b))
    BY <1>3 DEF SigWait, ServeSig
  <2>2. SYS_SIGWAIT \in Int /\ SYS_SIGWAIT # SYS_READ
    BY DEF SYS_SIGWAIT, SYS_READ
  <2>3. b \in KernelType /\ Quiet(kern, b)
    BY <1>1, <2>2, Block_Gives, Block_Quiet DEF Gave
  <2> HIDE DEF b
  <2> QED BY <1>1, <2>1, <2>3, SigWaitSteps, Dispatch_Quiet, QuietTwice, ServeQuiet DEF Stepped
<1> QED BY <1>2, <1>3

(* SYS_SIGRETURN only returns, with the result of the call interrupted.    *)
LEMMA SigReturnStepped == ASSUME SigInv, SigReturn PROVE Stepped /\ Quiet(kern, kern')
<1>1. Inv /\ sig.frames[Running] # <<>>
  BY DEF SigInv, SigReturn
<1>2. PICK n \in pr_mask_to_signum(sig.priority[Running]) :
        Serve(Returns(Result(sig, Running, n)))
  BY DEF SigReturn, ServeSig, Returns
<1>3. Result(sig, Running, n) \in Int
  BY <1>1, SigReturnResult
<1> QED BY <1>1, <1>2, <1>3, SigReturnSteps, ReturnsQuiet, ServeQuiet DEF Stepped

-----------------------------------------------------------------------------
(* What holds of the devices.  Only root opens one, and one only; while it *)
(* is open the keyboard's interrupt is not masked.                         *)
Opened(d) ==
  \A s \in Slots : \A f \in Files :
    d.fd[s][f] # CLOSED =>
      s = ROOT /\ f = 0 /\ d.fd[s][f] \in {KEYBOARD_NOECHO, KEYBOARD_ECHO} /\ d.enabled

DevOK(d) ==
  /\ d \in DevType /\ Len(d.kbdbuffer) <= KBDBUFSZ
  /\ d.reader \in {NULL, ROOT} /\ Opened(d)

(* Who waits in a read is root; it is registered, and has room.            *)
Reads(k, s) == k.state[s] = "BLOCKED" /\ k.ret[s] = SYS_READ

Attended(k, d) ==
  \A s \in Slots : Reads(k, s) =>
    /\ s = ROOT /\ d.reader = s /\ d.appl /\ d.enabled
    /\ d.applbufidx + Len(d.kbdbuffer) < d.applbufsize

Served(k, d) == DevOK(d) /\ Attended(k, d) /\ \A s \in Slots : k.call[s] # "send"

(* The driver's variables have their types.                                *)
LEMMA DevFields ==
  ASSUME NEW d \in DevType
  PROVE  /\ d.fd \in [Slots -> [Files -> Int]] /\ d.enabled \in BOOLEAN /\ d.appl \in BOOLEAN
         /\ d.state \in SUBSET Flags /\ d.reader \in Ptr
         /\ d.applbufsize \in Nat /\ d.applbufidx \in Nat
         /\ d.kbdbuffer \in Seq({"char", "newline"}) /\ Len(d.kbdbuffer) \in Nat
         /\ d.eof_received \in BOOLEAN /\ d.EOF_endbyte \in Keys
         /\ d.overrun \in Nat /\ d.struck \in Nat
<1>1. d.kbdbuffer \in Seq({"char", "newline"})
  BY DEF DevType
<1>2. Len(d.kbdbuffer) \in Nat
  BY <1>1
<1> QED BY <1>1, <1>2 DEF DevType

(* What keeps the kernel quiet leaves the readers attended.                *)
LEMMA QuietServed ==
  ASSUME NEW k, NEW r, NEW d, Served(k, d), Quiet(k, r) PROVE Served(r, d)
BY DEF Served, Attended, Reads, Quiet

(* While root runs nobody reads.                                           *)
LEMMA NobodyReads ==
  ASSUME Inv, Served(kern, dev), Running = ROOT PROVE \A s \in Slots : ~Reads(kern, s)
BY RunningIs DEF Served, Attended, Reads

(* So a request of root's that begins no read leaves nobody to attend to.  *)
LEMMA RootServed ==
  ASSUME Inv, Served(kern, dev), Running = ROOT, NEW k, Quiet(kern, k), NEW d, DevOK(d)
  PROVE  Served(k, d)
BY NobodyReads DEF Served, Attended, Reads, Quiet

(* The end of a device request.                                            *)
LEMMA DevServes ==
  ASSUME Inv, NEW k, NEW d, ServeDev(k, d), Served(kern, dev),
         k.fault = "none" => Served(k, d)
  PROVE  Served(kern', dev')
<1>1. CASE k.fault = "none"
  BY <1>1 DEF ServeDev, ServeSig, Serve
<1>2. CASE k.fault # "none"
  <2>1. dev' = dev /\ kern' = [kern EXCEPT !.fault = k.fault]
    BY <1>2 DEF ServeDev, ServeSig, Serve
  <2>2. Quiet(kern, kern')
    BY <2>1, InvIs DEF KernelType, Quiet
  <2> QED BY <2>1, <2>2, QuietServed
<1> QED BY <1>1, <1>2

(* A device request that returns at once.                                  *)
LEMMA ReturnsStepped ==
  ASSUME SigInv, NEW n \in Int, NEW d, ServeDev(Returns(n), d) PROVE Stepped
<1>1. Inv /\ sig \in SigType /\ Region(Nest(sig)) /\ Linked(kern, Nest(sig))
  BY DEF SigInv, SigTypeOK
<1>2. ServeSig([kern EXCEPT !.ret[Running] = n], sig)
  BY DEF ServeDev, Returns
<1>3. Inv' /\ Grown(Nest(sig)) /\ Born = {} /\ Delivers(sig) /\ kern'.state = kern.state
  BY <1>1, <1>2, SigReturns
<1>4. SigStep(sig)
  BY <1>1, <1>3, RunningSteps
<1> QED BY <1>3, <1>4 DEF Stepped

(* di_open(): a device that is not there, or another keyboard.             *)
LEMMA di_open_Keeps ==
  ASSUME MAX_DEVICE < 99, NEW d, DevOK(d), NEW devno \in {KEYBOARD_NOECHO, KEYBOARD_ECHO, 99}
  PROVE  DevOK(di_open(d, ROOT, devno)[1]) /\ di_open(d, ROOT, devno)[2] \in Int
<1> DEFINE i == FirstClosed(d, ROOT)
           e == [d EXCEPT !.fd[ROOT][i] = devno]
           o == kbd_open(e, ROOT)
<1>1. d \in DevType /\ Opened(d) /\ ROOT \in Slots /\ 0 \in Files /\ MAXFILES \in Nat /\ MAXFILES > 0
  BY Constants, DevicesAssumption DEF DevOK, Files
<1>2. CASE d.fd[ROOT][0] # CLOSED
  <2>1. \A j \in 1 .. MAXFILES - 1 : d.fd[ROOT][j] = CLOSED
    BY <1>1 DEF Opened, Files
  <2>2. i \in 0 .. MAXFILES /\ i # 0
    <3> DEFINE P(x) == /\ \A j \in 0 .. x - 1 : d.fd[ROOT][j] # CLOSED
                       /\ x = MAXFILES \/ d.fd[ROOT][x] = CLOSED
    <3>1. 1 \in 0 .. MAXFILES /\ P(1)
      BY <1>1, <1>2, <2>1
    <3>2. i = CHOOSE x \in 0 .. MAXFILES : P(x)
      BY DEF FirstClosed
    <3>3. ~P(0)
      BY <1>1, <1>2
    <3> HIDE DEF P, i
    <3> QED BY <3>1, <3>2, <3>3
  <2>3. devno > MAX_DEVICE \/ Clash(devno, d.fd[ROOT][0])
    BY <1>1, <1>2, DevicesAssumption DEF Opened, Clash, KEYBOARD_NOECHO, KEYBOARD_ECHO
  <2>4. 0 \in 0 .. i - 1
    BY <2>2
  <2> HIDE DEF i
  <2>5. di_open(d, ROOT, devno) = <<d, -1>>
    BY <2>3, <2>4 DEF di_open, i
  <2> QED BY <2>5
<1>3. CASE d.fd[ROOT][0] = CLOSED
  <2>1. i = 0
    <3> DEFINE P(x) == /\ \A j \in 0 .. x - 1 : d.fd[ROOT][j] # CLOSED
                       /\ x = MAXFILES \/ d.fd[ROOT][x] = CLOSED
    <3>1. 0 \in 0 .. MAXFILES /\ P(0)
      BY <1>1, <1>3
    <3>2. i = CHOOSE x \in 0 .. MAXFILES : P(x)
      BY DEF FirstClosed
    <3>3. \A x \in 1 .. MAXFILES : ~P(x)
      BY <1>1, <1>3
    <3> HIDE DEF P, i
    <3> QED BY <3>1, <3>2, <3>3, <1>1
  <2> HIDE DEF i
  <2>2. di_open(d, ROOT, devno) \in {<<d, -1>>, <<o, i>>} /\ (devno > MAX_DEVICE => di_open(d, ROOT, devno) = <<d, -1>>)
    BY DEF di_open, i
  <2>3. ASSUME ~(devno > MAX_DEVICE) PROVE DevOK(o)
    <3>1. devno \in {KEYBOARD_NOECHO, KEYBOARD_ECHO} /\ devno \in Int
      BY <2>3, DevicesAssumption DEF KEYBOARD_NOECHO, KEYBOARD_ECHO
    <3>2. /\ d.fd \in [Slots -> [Files -> Int]] /\ d.fd[ROOT] \in [Files -> Int]
      BY <1>1, DevFields
    <3>3. e \in DevType /\ e.fd = [d.fd EXCEPT ![ROOT] = [@ EXCEPT ![i] = devno]]
          /\ e.kbdbuffer = d.kbdbuffer
      BY <1>1, <2>1, <3>1, <3>2 DEF DevType
    <3> HIDE DEF e
    <3>4. o \in DevType /\ o.fd = e.fd /\ o.kbdbuffer = e.kbdbuffer /\ o.enabled /\ o.reader = ROOT
      BY <1>1, <3>3, Constants DEF DevType, kbd_open, Ptr
    <3> HIDE DEF o
    <3>5. Opened(o)
      BY <1>1, <2>1, <3>1, <3>2, <3>3, <3>4 DEF Opened
    <3> QED BY <3>3, <3>4, <3>5 DEF DevOK
  <2> HIDE DEF o
  <2> QED BY <2>1, <2>2, <2>3
<1> QED BY <1>2, <1>3

(* di_close(): of what is open, only root's keyboard.                      *)
LEMMA di_close_Keeps ==
  ASSUME NEW d, DevOK(d), NEW p \in Slots, NEW f
  PROVE  LET r == di_close(d, p, f)
         IN  r[2] \in Int /\ (r[1] = d \/ (p = ROOT /\ DevOK(r[1])))
<1> DEFINE e == [d EXCEPT !.fd[p][f] = CLOSED]
           c == kbd_close(e)
<1>1. CASE ~validate_fd(d, p, f)
  BY <1>1 DEF di_close
<1>2. CASE validate_fd(d, p, f)
  <2>1. d \in DevType /\ Opened(d) /\ p = ROOT /\ f = 0 /\ f \in Files
    BY <1>2 DEF validate_fd, DevOK, Opened
  <2>2. d.fd \in [Slots -> [Files -> Int]] /\ d.fd[p] \in [Files -> Int] /\ CLOSED \in Int
    BY <2>1, DevFields DEF CLOSED
  <2>3. /\ e \in DevType /\ e.fd = [d.fd EXCEPT ![p] = [@ EXCEPT ![f] = CLOSED]]
        /\ e.kbdbuffer = d.kbdbuffer
    BY <2>1, <2>2 DEF DevType
  <2> HIDE DEF e
  <2>4. c \in DevType /\ c.fd = e.fd /\ c.kbdbuffer = e.kbdbuffer /\ c.reader = NULL
    BY <2>3 DEF DevType, kbd_close, Ptr
  <2> HIDE DEF c
  <2>5. Opened(c)
    <3>1. \A s \in Slots : \A g \in Files : c.fd[s][g] = CLOSED
      BY <2>1, <2>2, <2>3, <2>4 DEF Opened
    <3> QED BY <3>1 DEF Opened
  <2>6. DevOK(c)
    BY <2>3, <2>4, <2>5 DEF DevOK
  <2>7. di_close(d, p, f) = <<c, 0>>
    BY <1>2 DEF di_close, c, e
  <2> QED BY <2>1, <2>6, <2>7
<1> QED BY <1>1, <1>2

(* kbd_read() registers the reader, with an empty buffer.                  *)
LEMMA kbd_read_Keeps ==
  ASSUME NEW d, DevOK(d), ~d.eof_received, NEW n \in Nat \ {0}
  PROVE  LET r == kbd_read(d, ROOT, n)
         IN  /\ DevOK(r) /\ r.reader = ROOT /\ r.appl /\ r.enabled = d.enabled
             /\ r.applbufidx + Len(r.kbdbuffer) < r.applbufsize
<1> DEFINE r == kbd_read(d, ROOT, n)
<1>1. d \in DevType /\ Opened(d) /\ <<>> \in Seq({"char", "newline"}) /\ Len(<<>>) = 0
  BY DEF DevOK
<1>2. /\ r \in DevType /\ r.reader = ROOT /\ r.appl /\ r.enabled = d.enabled /\ r.fd = d.fd
      /\ r.applbufidx = 0 /\ r.kbdbuffer = <<>> /\ r.applbufsize = n
  BY <1>1, Constants DEF kbd_read, DevType, Ptr
<1> HIDE DEF r
<1>3. Opened(r)
  BY <1>1, <1>2 DEF Opened
<1> QED BY <1>1, <1>2, <1>3, DevicesAssumption DEF DevOK, r

(* kbd_ioctl() installs a key.                                             *)
LEMMA di_ioctl_Keeps ==
  ASSUME NEW k, NEW d, Served(k, d), NEW p, NEW f, NEW command, NEW a \in Keys,
         NEW r \in di_ioctl(d, p, f, command, a)
  PROVE  r[2] \in Int /\ Served(k, r[1])
<1> DEFINE e == [d EXCEPT !.EOF_endbyte = a]
<1>1. r \in {<<d, 1>>, <<d, -1>>, <<e, 1>>}
  BY DEF di_ioctl, kbd_ioctl
<1>2. Served(k, e)
  <2>1. /\ e \in DevType /\ e.fd = d.fd /\ e.enabled = d.enabled /\ e.reader = d.reader
        /\ e.appl = d.appl /\ e.kbdbuffer = d.kbdbuffer /\ e.applbufidx = d.applbufidx
        /\ e.applbufsize = d.applbufsize
    BY DEF DevType, Served, DevOK
  <2> HIDE DEF e
  <2> QED BY <2>1 DEF Served, DevOK, Opened, Attended
<1> HIDE DEF e
<1> QED BY <1>1, <1>2

-----------------------------------------------------------------------------
(* The device requests.                                                    *)
LEMMA OpenSteps ==
  ASSUME SigInv, Served(kern, dev), MAX_DEVICE < 99, Running = ROOT,
         NEW devno \in {KEYBOARD_NOECHO, KEYBOARD_ECHO, 99}, Open(devno)
  PROVE  Stepped /\ Served(kern', dev')
<1> DEFINE d == di_open(dev, ROOT, devno)[1]
           n == di_open(dev, ROOT, devno)[2]
<1>1. ServeDev(Returns(n), d) /\ Inv
  <2>1. LET o == di_open(dev, Running, devno) IN ServeDev(Returns(o[2]), o[1])
    BY DEF Open
  <2>2. Inv /\ Running = ROOT
    BY DEF SigInv
  <2> QED BY <2>1, <2>2
<1>2. DevOK(d) /\ n \in Int
  BY di_open_Keeps DEF Served
<1> HIDE DEF d, n
<1>3. Stepped
  BY <1>1, <1>2, ReturnsStepped
<1>4. Served(Returns(n), d)
  BY <1>1, <1>2, ReturnsQuiet, RootServed
<1> QED BY <1>1, <1>3, <1>4, DevServes

(* SYS_CLOSE: only root has something to close.                            *)
LEMMA CloseSteps ==
  ASSUME SigInv, Served(kern, dev), NEW f, Close(f)
  PROVE  Stepped /\ Served(kern', dev')
<1> DEFINE d == di_close(dev, Running, f)[1]
           n == di_close(dev, Running, f)[2]
<1>1. ServeDev(Returns(n), d) /\ Inv
  BY DEF Close, SigInv
<1>2. n \in Int /\ (d = dev \/ (Running = ROOT /\ DevOK(d)))
  BY <1>1, RunningIs, di_close_Keeps DEF Served
<1> HIDE DEF d, n
<1>3. Stepped
  BY <1>1, <1>2, ReturnsStepped
<1>4. Quiet(kern, Returns(n))
  BY <1>1, <1>2, ReturnsQuiet
<1>5. Served(Returns(n), d)
  BY <1>1, <1>2, <1>4, QuietServed, RootServed
<1> QED BY <1>1, <1>3, <1>5, DevServes

(* SYS_WRITE: the keyboard is not written to.                              *)
LEMMA WriteSteps ==
  ASSUME SigInv, Served(kern, dev), NEW f, Write(f)
  PROVE  Stepped /\ Served(kern', dev')
<1> DEFINE n == di_write(dev, Running, f)
<1>1. ServeDev(Returns(n), dev) /\ Inv
  BY DEF Write, SigInv
<1>2. n \in Int
  BY DEF di_write, UNSUPPORTED_DEV_OP
<1> HIDE DEF n
<1>3. Stepped
  BY <1>1, <1>2, ReturnsStepped
<1>4. Served(Returns(n), dev)
  BY <1>1, <1>2, ReturnsQuiet, QuietServed
<1> QED BY <1>1, <1>3, <1>4, DevServes

(* SYS_IOCTL: the key that ends the file is another one from now on.       *)
LEMMA IoctlSteps ==
  ASSUME SigInv, Served(kern, dev), NEW f, NEW command, NEW a \in Keys, Ioctl(f, command, a)
  PROVE  Stepped /\ Served(kern', dev')
<1>1. PICK r \in di_ioctl(dev, Running, f, command, a) : ServeDev(Returns(r[2]), r[1])
  BY DEF Ioctl
<1>2. r[2] \in Int /\ Served(kern, r[1]) /\ Inv
  BY di_ioctl_Keeps DEF SigInv
<1>3. Stepped
  BY <1>1, <1>2, ReturnsStepped
<1>4. Served(Returns(r[2]), r[1])
  BY <1>2, ReturnsQuiet, QuietServed
<1> QED BY <1>1, <1>2, <1>3, <1>4, DevServes

(* A step that asks nothing of the signals.                                *)
LEMMA SameSigStepped ==
  ASSUME SigInv, NEW k \in KernelType, Within(kern, k, Nest(sig), {Running}),
         k.fault = "none" => OneRuns(k) /\ PidsNameSlots(k) /\ k.pid = kern.pid,
         ServeSig(k, sig)
  PROVE  Stepped
<1>1. Inv /\ sig \in SigType /\ Region(Nest(sig)) /\ Linked(kern, Nest(sig))
  BY DEF SigInv, SigTypeOK
<1>2. Inv' /\ Grown(Nest(sig)) /\ Born = {} /\ Delivers(sig)
  BY <1>1, SigServe
<1>3. SigStep(sig)
  BY <1>1, <1>2 DEF SigStep
<1> QED BY <1>2, <1>3 DEF Stepped

(* SYS_READ: a process that is not root has nothing open.                  *)
LEMMA ReadSteps ==
  ASSUME SigInv, Served(kern, dev), NEW f, NEW n \in Nat \ {0}, Read(f, n)
  PROVE  Stepped /\ Served(kern', dev')
<1>1. Inv /\ sig \in SigType /\ Region(Nest(sig)) /\ Linked(kern, Nest(sig)) /\ DevOK(dev)
  BY DEF SigInv, SigTypeOK, Served
<1>2. kern \in KernelType /\ Running \in Pcbs /\ Running \in Slots
  BY <1>1, RunningIs
<1>3. CASE ~validate_fd(dev, Running, f)
  <2>1. ServeDev(Returns(-1), dev) /\ -1 \in Int
    BY <1>3 DEF Read
  <2> QED BY <1>1, <2>1, ReturnsStepped, ReturnsQuiet, QuietServed, DevServes
<1>4. CASE validate_fd(dev, Running, f) /\ dev.eof_received
  <2>1. ServeDev(Returns(0), dev) /\ 0 \in Int
    BY <1>4 DEF Read, kbd_read
  <2> QED BY <1>1, <2>1, ReturnsStepped, ReturnsQuiet, QuietServed, DevServes
<1>5. CASE validate_fd(dev, Running, f) /\ ~dev.eof_received
  <2> DEFINE b == Block(kern, Running, SYS_READ)
             k == Dispatch(b)
             d == kbd_read(dev, Running, n)
  <2>1. ServeDev(k, d)
    BY <1>5 DEF Read
  <2>2. ServeSig(k, sig)
    BY <2>1 DEF ServeDev
  <2>3. Running = ROOT /\ dev.enabled
    BY <1>1, <1>2, <1>5 DEF validate_fd, DevOK, Opened
  <2>4. /\ DevOK(d) /\ d.reader = ROOT /\ d.appl /\ d.enabled
        /\ d.applbufidx + Len(d.kbdbuffer) < d.applbufsize
    BY <1>1, <1>5, <2>3, kbd_read_Keeps
  <2> HIDE DEF d
  <2>5. SYS_READ \in Int
    BY DEF SYS_READ
  <2>6. Gave(kern, Running, b) /\ Within(kern, b, Nest(sig), {Running})
    BY <1>1, <1>2, <2>5, RunningWithin, Block_Gives, Block_Within
  <2>7. /\ b.state = [kern.state EXCEPT ![Running] = "BLOCKED"] /\ b.call = kern.call
        /\ b.ret = [kern.ret EXCEPT ![Running] = SYS_READ] /\ b \in KernelType
    <3>1. b \in KernelType
      BY <2>6 DEF Gave
    <3> QED BY <1>2, <2>5, <3>1, Block_Quiet
  <2> HIDE DEF b
  <2>8. Served(b, d)
    <3>1. \A s \in Slots : Reads(b, s) => s = ROOT
      BY <1>1, <1>2, <2>3, <2>7, NobodyReads DEF Reads, KernelType
    <3> QED BY <2>4, <2>7, <3>1 DEF Served, Attended
  <2>9. Served(k, d)
    BY <2>7, <2>8, Dispatch_Quiet, QuietServed
  <2>10. /\ k \in KernelType /\ Within(kern, k, Nest(sig), {Running})
         /\ k.fault = "none" => OneRuns(k) /\ PidsNameSlots(k) /\ k.pid = kern.pid
    BY <1>1, <2>6, DispatchKeeps, DispatchWithin
  <2> HIDE DEF k
  <2>11. Stepped
    BY <2>2, <2>10, SameSigStepped
  <2> QED BY <1>1, <2>1, <2>9, <2>11, DevServes
<1> QED BY <1>3, <1>4, <1>5

-----------------------------------------------------------------------------
(* The keyboard.  What the driver holds for the reader, and what a key     *)
(* leaves of who it is for.                                                *)
Held(d) == d.applbufidx + Len(d.kbdbuffer)

SameReader(d, e) ==
  /\ e.reader = d.reader /\ e.enabled = d.enabled /\ e.appl = d.appl
  /\ e.applbufsize = d.applbufsize

(* A key adds one character at most, or makes the driver hand over what it *)
(* holds.                                                                  *)
Adds(k, d, r, room) ==
  \/ \E e : /\ r = <<k, e>> /\ DevOK(e) /\ SameReader(d, e)
            /\ Waiting(k, d) /\ room => Held(e) < e.applbufsize
  \/ \E e : r = notify(k, e) /\ DevOK(e) /\ Waiting(k, e)

(* Of what DevOK says only these fields matter.                            *)
LEMMA DevOKFields ==
  ASSUME NEW d, DevOK(d), NEW e \in DevType, e.fd = d.fd, e.enabled = d.enabled,
         e.reader = d.reader, Len(e.kbdbuffer) <= KBDBUFSZ
  PROVE  DevOK(e)
BY DEF DevOK, Opened

(* Drain() stops at the first place where it must.                         *)
LEMMA CopiedIs ==
  ASSUME NEW d PROVE Copied(d) \in 1 .. KBDBUFSZ
<1> DEFINE P(n) == n = KBDBUFSZ \/ Ends(d, n)
           T == {n \in 1 .. KBDBUFSZ : P(n)}
<1>1. KBDBUFSZ \in T
  BY DevicesAssumption
<1>2. PICK n \in T : \A m \in T : n <= m
  <2>1. T \subseteq Nat /\ T # {}
    BY <1>1
  <2> HIDE DEF T
  <2> QED BY <2>1, HasMinimum
<1>3. \A m \in 1 .. n - 1 : ~Ends(d, m)
  <2> SUFFICES ASSUME NEW m \in 1 .. n - 1, Ends(d, m) PROVE FALSE
    OBVIOUS
  <2>1. m \in T
    BY DevicesAssumption
  <2> QED BY <1>2, <2>1
<1>4. Copied(d) = CHOOSE x \in 1 .. KBDBUFSZ : P(x) /\ \A m \in 1 .. x - 1 : ~Ends(d, m)
  BY DEF Copied
<1>5. n \in 1 .. KBDBUFSZ /\ P(n)
  BY <1>2
<1> HIDE DEF P, T
<1> QED BY <1>3, <1>4, <1>5

(* What is written behind the reader's buffer is a number of bytes.        *)
LEMMA BehindIs ==
  ASSUME NEW d \in DevType, NEW i \in Int PROVE Behind(d, i) \in Nat
<1>1. d.overrun \in Nat /\ d.applbufsize \in Nat
  BY DevFields
<1>2. Behind(d, i) = IF i < d.applbufsize + d.overrun THEN d.overrun ELSE i + 1 - d.applbufsize
  BY DEF Behind
<1> QED BY <1>1, <1>2

(* The driver's buffer is copied to the reader's, which is handed over if  *)
(* that ends it: else it has room for what is left.                        *)
LEMMA DrainAdds ==
  ASSUME NEW k, NEW d, DevOK(d), Len(d.kbdbuffer) = KBDBUFSZ
  PROVE  Adds(k, d, Drain(k, d), Held(d) < d.applbufsize)
<1> DEFINE n    == Copied(d)
           over == Behind(d, d.applbufidx + n - 1)
           full == [d EXCEPT !.applbufidx = @ + n, !.overrun = over]
           left == [i \in 1 .. n |-> IF i + n <= KBDBUFSZ THEN d.kbdbuffer[i + n] ELSE d.kbdbuffer[i]]
           rest == [full EXCEPT !.kbdbuffer = left]
           none == [full EXCEPT !.kbdbuffer = <<>>]
<1>1. n \in 1 .. KBDBUFSZ /\ n \in Nat
  BY CopiedIs
<1>2. Drain(k, d) = IF n = KBDBUFSZ THEN <<k, none>>
                    ELSE IF Waiting(k, rest) THEN notify(k, rest) ELSE <<k, rest>>
  BY DEF Drain
<1> HIDE DEF n
<1>3. d \in DevType /\ d.kbdbuffer \in Seq({"char", "newline"}) /\ d.applbufidx \in Nat
  BY DevFields DEF DevOK
<1>4. left \in Seq({"char", "newline"}) /\ Len(left) = n
  <2>1. \A i \in 1 .. KBDBUFSZ : d.kbdbuffer[i] \in {"char", "newline"}
    BY <1>3
  <2>2. \A i \in 1 .. n : left[i] \in {"char", "newline"}
    BY <1>1, <2>1, DevicesAssumption
  <2> QED BY <1>1, <2>2
<1> HIDE DEF left
<1>5. full \in DevType /\ full.fd = d.fd /\ SameReader(d, full) /\ full.applbufidx = d.applbufidx + n
  <2> DEFINE x == d.applbufidx + n
  <2>1. x \in Nat /\ over \in Nat
    <3> DEFINE i == d.applbufidx + n - 1
    <3>1. x \in Nat /\ i \in Int
      BY <1>1, <1>3
    <3>2. over = Behind(d, i)
      OBVIOUS
    <3> HIDE DEF x, i, over
    <3>3. over \in Nat
      BY <1>3, <3>1, <3>2, BehindIs
    <3> QED BY <3>1, <3>3
  <2>2. full = [d EXCEPT !.applbufidx = x, !.overrun = over]
    OBVIOUS
  <2> HIDE DEF full, x, over
  <2>3. full \in DevType /\ full.fd = d.fd /\ SameReader(d, full) /\ full.applbufidx = x
    BY <1>3, <2>1, <2>2 DEF DevType, SameReader
  <2> QED BY <2>3 DEF x
<1> HIDE DEF full
<1>6. /\ rest \in DevType /\ rest.fd = d.fd /\ SameReader(d, rest) /\ rest.kbdbuffer = left
  BY <1>4, <1>5 DEF DevType, SameReader
<1>7. /\ none \in DevType /\ none.fd = d.fd /\ SameReader(d, none) /\ none.kbdbuffer = <<>>
      /\ none.applbufidx = d.applbufidx + n
  <2>1. <<>> \in Seq({"char", "newline"})
    OBVIOUS
  <2> QED BY <1>5, <2>1 DEF DevType, SameReader
<1> HIDE DEF rest, none
<1>8. DevOK(rest) /\ DevOK(none)
  <2>1. Len(<<>>) = 0
    OBVIOUS
  <2> QED BY <1>1, <1>4, <1>6, <1>7, <2>1, DevicesAssumption, DevOKFields DEF SameReader
<1>9. CASE n = KBDBUFSZ
  <2>1. Held(none) = Held(d)
    BY <1>3, <1>7, <1>9, DevicesAssumption DEF Held
  <2>2. Drain(k, d) = <<k, none>>
    BY <1>2, <1>9
  <2>3. none.applbufsize = d.applbufsize
    BY <1>7 DEF SameReader
  <2> QED BY <1>7, <1>8, <2>1, <2>2, <2>3 DEF Adds
<1>10. CASE n # KBDBUFSZ /\ Waiting(k, rest)
  BY <1>2, <1>8, <1>10 DEF Adds
<1>11. CASE n # KBDBUFSZ /\ ~Waiting(k, rest)
  <2>1. ~Waiting(k, d)
    BY <1>6, <1>11 DEF Waiting, SameReader
  <2> QED BY <1>2, <1>6, <1>8, <1>11, <2>1 DEF Adds
<1> QED BY <1>9, <1>10, <1>11

(* The byte of a key is a character.                                       *)
LEMMA StoreIs ==
  ASSUME NEW d, DevOK(d), NEW key, NEW up
  PROVE  LET s == Store(d, key, up)
         IN  DevOK(s) /\ SameReader(d, s) /\ Held(s) <= Held(d) + 1
<1> DEFINE b == Byte(d, key, up)
           s == Store(d, key, up)
           t == Append(d.kbdbuffer, b)
<1>1. d \in DevType /\ d.kbdbuffer \in Seq({"char", "newline"}) /\ d.applbufidx \in Nat
      /\ Len(d.kbdbuffer) \in Nat
  BY DevFields DEF DevOK
<1>2. CASE Len(d.kbdbuffer) < KBDBUFSZ
  <2>1. b \in {"char", "newline"}
    BY DEF Byte
  <2> HIDE DEF b
  <2>2. t \in Seq({"char", "newline"}) /\ Len(t) = Len(d.kbdbuffer) + 1
    BY <1>1, <2>1
  <2>3. s = [d EXCEPT !.kbdbuffer = t]
    BY <1>2 DEF Store, b
  <2> HIDE DEF s, t
  <2>4. s \in DevType /\ s.kbdbuffer = t /\ s.fd = d.fd /\ s.applbufidx = d.applbufidx /\ SameReader(d, s)
    BY <1>1, <2>2, <2>3 DEF DevType, SameReader
  <2>5. DevOK(s)
    BY <1>1, <1>2, <2>2, <2>4, DevicesAssumption, DevOKFields DEF SameReader
  <2> QED BY <1>1, <2>2, <2>4, <2>5 DEF Held, s
<1>3. CASE ~(Len(d.kbdbuffer) < KBDBUFSZ)
  <2>1. s = d
    BY <1>3 DEF Store
  <2> HIDE DEF s
  <2> QED BY <1>1, <2>1 DEF Held, SameReader, s
<1> QED BY <1>2, <1>3

(* A key that is kept: stored, and copied if the driver's buffer is full   *)
(* or the line ends.                                                       *)
LEMMA KeepAdds ==
  ASSUME NEW k, NEW d, DevOK(d), NEW key, NEW up
  PROVE  Adds(k, d, Keep(k, d, key, up), Held(d) + 1 < d.applbufsize)
<1> DEFINE s == Store(d, key, up)
<1>1. DevOK(s) /\ SameReader(d, s) /\ Held(s) <= Held(d) + 1
  BY StoreIs
<1>2. /\ Held(d) \in Nat /\ d.applbufsize \in Nat /\ Held(s) \in Nat
      /\ Len(s.kbdbuffer) \in Nat /\ Len(s.kbdbuffer) <= KBDBUFSZ
  BY <1>1, DevFields DEF DevOK, Held
<1>3. Held(d) + 1 < d.applbufsize => Held(d) < d.applbufsize /\ Held(s) < s.applbufsize
  BY <1>1, <1>2 DEF SameReader
<1>4. Waiting(k, s) = Waiting(k, d)
  BY <1>1 DEF Waiting, SameReader
<1>5. CASE up \/ is_control_code(key, up)
  <2>1. Keep(k, d, key, up) = <<k, d>>
    BY <1>5 DEF Keep
  <2> QED BY <1>3, <2>1 DEF Adds, SameReader
<1>6. CASE ~(up \/ is_control_code(key, up)) /\ ~(Len(s.kbdbuffer) >= KBDBUFSZ /\ s.appl)
  <2>1. Keep(k, d, key, up) = <<k, s>>
    BY <1>6 DEF Keep
  <2> HIDE DEF s
  <2> QED BY <1>1, <1>3, <2>1 DEF Adds
<1>7. CASE ~(up \/ is_control_code(key, up)) /\ Len(s.kbdbuffer) >= KBDBUFSZ /\ s.appl
  <2>1. Keep(k, d, key, up) = Drain(k, s)
    BY <1>7 DEF Keep
  <2> HIDE DEF s
  <2>2. Len(s.kbdbuffer) = KBDBUFSZ
    BY <1>2, <1>7, DevicesAssumption
  <2>3. Adds(k, s, Drain(k, s), Held(s) < s.applbufsize)
    BY <1>1, <2>2, DrainAdds
  <2> QED BY <1>1, <1>3, <1>4, <2>1, <2>3 DEF Adds, SameReader
<1> QED BY <1>5, <1>6, <1>7

(* process_key(): with nobody to read for, or for the reader.              *)
LEMMA KeyAdds ==
  ASSUME NEW k, NEW d, DevOK(d), NEW key \in Keys, NEW up
  PROVE  Adds(k, d, process_key(k, d, key, up), d.appl /\ Held(d) < d.applbufsize)
<1> DEFINE st == NextState(d.state, key, up)
           e == [d EXCEPT !.state = st]
           chars == Append([i \in DOMAIN d.kbdbuffer |-> "char"], "char")
           g == [e EXCEPT !.kbdbuffer = chars]
           f == Flush(e, key, up)
           room == d.appl /\ Held(d) < d.applbufsize
<1>1. d \in DevType /\ d.kbdbuffer \in Seq({"char", "newline"}) /\ d.applbufidx \in Nat
      /\ Len(d.kbdbuffer) \in Nat /\ Len(d.kbdbuffer) <= KBDBUFSZ /\ d.applbufsize \in Nat
      /\ d.state \in SUBSET Flags
  BY DevFields DEF DevOK
<1>2. st \in SUBSET Flags
  BY <1>1 DEF NextState, Flag, Flags, Modifiers
<1> HIDE DEF st
<1>3. /\ e \in DevType /\ e.fd = d.fd /\ SameReader(d, e) /\ e.kbdbuffer = d.kbdbuffer
      /\ e.applbufidx = d.applbufidx /\ e.eof_received = d.eof_received
  BY <1>1, <1>2 DEF DevType, SameReader
<1>4. process_key(k, d, key, up) =
        IF ~e.appl THEN <<k, IF Len(e.kbdbuffer) < KBDBUFSZ THEN g ELSE e>>
        ELSE IF Completes(e, key, up)
             THEN IF Waiting(k, f) THEN notify(k, f) ELSE Keep(k, f, key, up)
        ELSE Keep(k, e, key, up)
  BY <1>3 DEF process_key, st
<1> HIDE DEF e
<1>5. DevOK(e) /\ Held(e) = Held(d) /\ Waiting(k, e) = Waiting(k, d)
  BY <1>1, <1>3, DevOKFields DEF SameReader, Held, Waiting
<1>6. CASE ~e.appl /\ ~(Len(e.kbdbuffer) < KBDBUFSZ)
  BY <1>3, <1>4, <1>5, <1>6 DEF Adds, SameReader
<1>7. CASE ~e.appl /\ Len(e.kbdbuffer) < KBDBUFSZ
  <2>1. chars \in Seq({"char", "newline"}) /\ Len(chars) = Len(d.kbdbuffer) + 1
    <3> DEFINE c == [i \in DOMAIN d.kbdbuffer |-> "char"]
    <3>1. c \in Seq({"char", "newline"}) /\ Len(c) = Len(d.kbdbuffer)
      BY <1>1
    <3> HIDE DEF c
    <3>2. Append(c, "char") \in Seq({"char", "newline"}) /\ Len(Append(c, "char")) = Len(c) + 1
      BY <3>1
    <3> QED BY <3>1, <3>2 DEF c
  <2> HIDE DEF chars
  <2>2. g \in DevType /\ g.fd = e.fd /\ SameReader(e, g) /\ g.kbdbuffer = chars
    BY <1>3, <2>1 DEF DevType, SameReader
  <2>3. process_key(k, d, key, up) = <<k, g>>
    BY <1>4, <1>7
  <2> HIDE DEF g
  <2>4. DevOK(g)
    BY <1>1, <1>3, <1>5, <1>7, <2>1, <2>2, DevicesAssumption, DevOKFields DEF SameReader
  <2> QED BY <1>3, <1>7, <2>2, <2>3, <2>4 DEF Adds, SameReader
<1>8. CASE e.appl /\ Completes(e, key, up)
  <2> DEFINE x == e.applbufidx + Len(e.kbdbuffer)
             eof == e.eof_received \/ EndsFile(e, key, up)
             over == Behind(e, IF EndsFile(e, key, up) THEN x + 1 ELSE x)
  <2>1. x \in Nat /\ eof \in BOOLEAN /\ over \in Nat
    <3>1. x \in Nat /\ eof \in BOOLEAN
      BY <1>1, <1>3
    <3> HIDE DEF x
    <3> QED BY <1>3, <3>1, BehindIs
  <2>2. f = [e EXCEPT !.eof_received = eof, !.applbufidx = x, !.kbdbuffer = <<>>,
                      !.overrun = over]
    BY DEF Flush
  <2> HIDE DEF x, eof, f, over
  <2>3. <<>> \in Seq({"char", "newline"}) /\ Len(<<>>) = 0
    OBVIOUS
  <2>4. f \in DevType /\ f.fd = e.fd /\ SameReader(e, f) /\ f.kbdbuffer = <<>>
    BY <1>3, <2>1, <2>2, <2>3 DEF DevType, SameReader
  <2>5. DevOK(f)
    BY <1>5, <2>3, <2>4, DevicesAssumption, DevOKFields DEF SameReader
  <2>6. CASE Waiting(k, f)
    BY <1>4, <1>8, <2>5, <2>6 DEF Adds
  <2>7. CASE ~Waiting(k, f)
    <3>1. Adds(k, f, process_key(k, d, key, up), Held(f) + 1 < f.applbufsize)
      BY <1>4, <1>8, <2>5, <2>7, KeepAdds
    <3>2. ~Waiting(k, d) /\ SameReader(d, f)
      BY <1>3, <1>5, <2>4, <2>7 DEF Waiting, SameReader
    <3> QED BY <3>1, <3>2 DEF Adds, SameReader
  <2> QED BY <2>6, <2>7
<1>9. CASE e.appl /\ ~Completes(e, key, up)
  <2>1. Adds(k, e, process_key(k, d, key, up), Held(e) + 1 < e.applbufsize)
    BY <1>4, <1>5, <1>9, KeepAdds
  <2>2. Held(e) + 1 < e.applbufsize
    BY <1>1, <1>3, <1>9 DEF Completes, Held, SameReader
  <2> QED BY <1>3, <1>5, <2>1, <2>2 DEF Adds, SameReader
<1> QED BY <1>6, <1>7, <1>8, <1>9

(* notify(): the reader is made ready, and forgotten.                      *)
LEMMA notify_Serves ==
  ASSUME SigInv, Served(kern, dev), NEW e, DevOK(e), Waiting(kern, e)
  PROVE  LET k == notify(kern, e)[1]
         IN  /\ k \in KernelType /\ Within(kern, k, Nest(sig), {Running})
             /\ k.fault = "none" => /\ OneRuns(k) /\ PidsNameSlots(k) /\ k.pid = kern.pid
                                    /\ Served(k, notify(kern, e)[2])
<1> DEFINE m == remove(kern, "blocked_q", kern.pid[ROOT])
           w == [m EXCEPT !.ret[ROOT] = e.applbufidx]
           k == ready(w, ROOT)
           d == [e EXCEPT !.appl = FALSE, !.applbufsize = 0, !.applbufidx = 0, !.reader = NULL]
<1>1. /\ Inv /\ Region(Nest(sig)) /\ Linked(kern, Nest(sig)) /\ kern \in KernelType
      /\ OneRuns(kern) /\ PidsNameSlots(kern)
  BY InvIs DEF SigInv
<1>2. e.reader = ROOT /\ kern.state[ROOT] = "BLOCKED" /\ e \in DevType /\ ROOT \in Slots /\ ROOT \in Pcbs
  BY Constants DEF Waiting, DevOK
<1>3. notify(kern, e) = <<k, d>>
  BY <1>2 DEF notify
<1>4. e.applbufidx \in Int /\ Len(e.kbdbuffer) <= KBDBUFSZ
  BY <1>2, DevFields DEF DevOK
<1>5. /\ m \in KernelType /\ Calls3(kern, m) /\ Within(kern, m, Nest(sig), {Running})
      /\ Undisturbed(kern, m)
  <2>1. m \in KernelType /\ Calls3(kern, m) /\ Within(kern, m, Nest(sig), {Running})
    BY <1>1, remove_Keeps, remove_Calls, remove_Within
  <2>2. m.fault = "none" => kern.fault = "none" /\ Same(kern, m)
    BY <1>1, remove_Keeps
  <2> HIDE DEF m
  <2> QED BY <2>1, <2>2 DEF Undisturbed, Same, Runners
<1> HIDE DEF m
<1>6. /\ w \in KernelType /\ w.state = m.state /\ w.call = m.call /\ w.pid = m.pid
      /\ w.fault = m.fault /\ SameLinks(m, w) /\ w.ret = [m.ret EXCEPT ![ROOT] = e.applbufidx]
  BY <1>4, <1>5 DEF KernelType, SameLinks
<1> HIDE DEF w
<1>7. /\ k \in KernelType /\ Within(w, k, Nest(sig), {Running}) /\ Fewer(w, k)
      /\ k.fault = "none" => /\ Runners(k) = Runners(w) \ {ROOT} /\ w.fault = "none"
                             /\ k.state = [w.state EXCEPT ![ROOT] = "READY"]
  <2>1. Linked(w, Nest(sig))
    BY <1>5, <1>6, SameLinksWithin DEF Within
  <2>2. ROOT \in Nest(sig)
    BY <1>1, <1>2 DEF Linked
  <2>3. k \in KernelType /\ Within(w, k, Nest(sig), {Running})
    BY <1>1, <1>2, <1>6, <2>1, <2>2, ready_Within, ready_Keeps
  <2>4. k.fault = "none" => w.fault = "none" /\ k.state = [w.state EXCEPT ![ROOT] = "READY"]
    BY <1>2, <1>6, ready_Keeps
  <2>5. Fewer(w, k) /\ (k.fault = "none" => Runners(k) = Runners(w) \ {ROOT})
    BY <1>2, <1>6, ready_Fewer
  <2> QED BY <2>3, <2>4, <2>5
<1>8. k.ret = w.ret /\ k.call = w.call
  BY <1>6, ready_Calls
<1> HIDE DEF k
<1>9. Within(kern, k, Nest(sig), {Running})
  <2>1. Within(m, w, Nest(sig), {Running})
    BY <1>5, <1>6, SameLinksWithin DEF Within
  <2>2. Within(kern, w, Nest(sig), {Running})
    BY <1>5, <2>1, WithinAfter DEF Within
  <2> QED BY <1>7, <2>2, WithinAfter DEF Within
<1>10. ASSUME k.fault = "none"
       PROVE  OneRuns(k) /\ PidsNameSlots(k) /\ k.pid = kern.pid /\ Served(k, d)
  <2>1. Undisturbed(kern, k)
    BY <1>2, <1>5, <1>6, <1>7, <1>10 DEF Undisturbed, Fewer, Runners, SameLinks, Calls3
  <2>2. OneRuns(k) /\ PidsNameSlots(k) /\ k.pid = kern.pid
    BY <1>1, <1>10, <2>1, UndisturbedKeeps DEF Undisturbed
  <2>3. d \in DevType /\ d.fd = e.fd /\ d.enabled = e.enabled /\ d.reader = NULL
        /\ d.kbdbuffer = e.kbdbuffer
    BY <1>2 DEF DevType, Ptr
  <2> HIDE DEF d
  <2>4. DevOK(d)
    BY <1>4, <2>3 DEF DevOK, Opened
  <2>5. \A s \in Slots : ~Reads(k, s) /\ k.call[s] # "send"
    <3> TAKE s \in Slots
    <3>1. k.call[s] # "send"
      BY <1>5, <1>6, <1>8 DEF Served, Calls3
    <3>2. CASE s = ROOT
      BY <1>5, <1>6, <1>7, <1>10, <3>1, <3>2 DEF Reads, KernelType
    <3>3. CASE s # ROOT
      <4>1. ~Reads(kern, s)
        BY <3>3 DEF Served, Attended
      <4>2. k.state[s] = kern.state[s] /\ k.ret[s] = kern.ret[s]
        BY <1>1, <1>5, <1>6, <1>7, <1>8, <1>10, <3>3 DEF Calls3, KernelType
      <4> QED BY <3>1, <4>1, <4>2 DEF Reads
    <3> QED BY <3>2, <3>3
  <2> QED BY <2>2, <2>4, <2>5 DEF Served, Attended
<1> HIDE DEF d
<1> QED BY <1>3, <1>7, <1>9, <1>10

(* The history of the strokes is nothing the readers depend on.            *)
LEMMA CountedServes ==
  ASSUME NEW k, NEW d, Served(k, d), NEW key, NEW up, dev \in DevType
  PROVE  Served(k, Counted(d, key, up))
<1> DEFINE n == IF d.appl THEN dev.struck + Strokes(key, up) ELSE 0
           e == [d EXCEPT !.struck = n]
<1>1. n \in Nat /\ d \in DevType
  BY DevFields DEF Strokes, Served, DevOK
<1>2. Counted(d, key, up) = e
  BY DEF Counted
<1> HIDE DEF n
<1>3. /\ e \in DevType /\ e.fd = d.fd /\ e.enabled = d.enabled /\ e.reader = d.reader
      /\ e.appl = d.appl /\ e.kbdbuffer = d.kbdbuffer /\ e.applbufidx = d.applbufidx
      /\ e.applbufsize = d.applbufsize
  BY <1>1 DEF DevType
<1> HIDE DEF e
<1> QED BY <1>2, <1>3 DEF Served, DevOK, Opened, Attended

(* SYS_KEYBOARD.                                                           *)
LEMMA KeyboardSteps ==
  ASSUME SigInv, Served(kern, dev), NEW key \in Keys, NEW up, Keyboard(key, up)
  PROVE  Stepped /\ Served(kern', dev')
<1> DEFINE r == process_key(kern, dev, key, up)
           room == dev.appl /\ Held(dev) < dev.applbufsize
<1>1. ServeDev(r[1], Counted(r[2], key, up))
  BY DEF Keyboard
<1>2. /\ Inv /\ kern \in KernelType /\ OneRuns(kern) /\ PidsNameSlots(kern)
      /\ Linked(kern, Nest(sig)) /\ DevOK(dev) /\ dev \in DevType
  BY InvIs DEF SigInv, Served, DevOK
<1>3. Adds(kern, dev, r, room)
  BY <1>2, KeyAdds
<1> HIDE DEF r
<1>4. ASSUME NEW e, r = <<kern, e>>, DevOK(e), SameReader(dev, e),
             Waiting(kern, dev) /\ room => Held(e) < e.applbufsize
      PROVE  Stepped /\ Served(kern', dev')
  <2>1. ServeDev(kern, Counted(e, key, up)) /\ ServeSig(kern, sig)
    BY <1>1, <1>4 DEF ServeDev
  <2>2. Within(kern, kern, Nest(sig), {Running})
    BY <1>2, SameLinksWithin DEF SameLinks
  <2>3. Stepped
    BY <1>2, <2>1, <2>2, SameSigStepped
  <2>4. Attended(kern, e)
    <3> SUFFICES ASSUME NEW s \in Slots, Reads(kern, s)
                 PROVE  /\ s = ROOT /\ e.reader = s /\ e.appl /\ e.enabled
                        /\ e.applbufidx + Len(e.kbdbuffer) < e.applbufsize
      BY DEF Attended
    <3>1. /\ s = ROOT /\ dev.reader = s /\ dev.appl /\ dev.enabled
          /\ Held(dev) < dev.applbufsize
      BY DEF Served, Attended, Held
    <3>2. Waiting(kern, dev)
      BY <3>1, Constants DEF Waiting, Reads
    <3> QED BY <1>4, <3>1, <3>2 DEF SameReader, Held
  <2>5. Served(kern, Counted(e, key, up))
    BY <1>2, <1>4, <2>4, CountedServes DEF Served
  <2> QED BY <1>2, <2>1, <2>3, <2>5, DevServes
<1>5. ASSUME NEW e, r = notify(kern, e), DevOK(e), Waiting(kern, e)
      PROVE  Stepped /\ Served(kern', dev')
  <2> DEFINE k == r[1]
             d == r[2]
  <2>1. ServeDev(k, Counted(d, key, up)) /\ ServeSig(k, sig)
    BY <1>1 DEF ServeDev
  <2>2. /\ k \in KernelType /\ Within(kern, k, Nest(sig), {Running})
        /\ k.fault = "none" => OneRuns(k) /\ PidsNameSlots(k) /\ k.pid = kern.pid /\ Served(k, d)
    BY <1>5, notify_Serves
  <2> HIDE DEF k, d
  <2>3. k.fault = "none" => Served(k, Counted(d, key, up))
    BY <1>2, <2>2, CountedServes
  <2> QED BY <1>2, <2>1, <2>2, <2>3, SameSigStepped, DevServes
<1> QED BY <1>3, <1>4, <1>5 DEF Adds

-----------------------------------------------------------------------------
(* The programs.  What is asked of them is little: who opens a keyboard    *)
(* asks for one of those there are or for a device there is not, who reads *)
(* has a buffer, and root's programs are not started again.                *)
RootPrograms ==
  {"assign3_test_seq", "signal_reader", "signal_tests", "device_tests", "read_tests"}

Children ==
  {"sleep_sig20_sig18", "sleep5_sig18", "sleep5_sig20", "idlechild", "waiter", "signaltarget"}

UserSignals == {1, 3, 5, 7, 18, 20, 30}

Tests == {"once", "nonzero", "positive"}

Others ==
  [op : {"close"}, fd : Int] \cup [op : {"write"}, fd : Int]
  \cup [op : {"ioctl"}, fd : Int, command : {49, "invalid"}, a : Keys]
  \cup [op : {"sighandler"}, n : UserSignals, h : Nat]
  \cup [op : {"create"}, program : Children] \cup [op : {"sleep"}, ms : Nat]
  \cup [op : {"sigkill"}, program : Children \cup {"root"}, n : Int]
  \cup [op : {"sigwait", "yield", "recv", "hlt"}]

Instrs ==
  Others \cup [op : {"open"}, dev : {KEYBOARD_NOECHO, KEYBOARD_ECHO, 99}, kept : BOOLEAN]
  \cup [op : {"read"}, fd : Int, n : Nat \ {0}, again : Tests]

(* The calls to the devices that the programs make.                        *)
LEMMA DeviceCalls ==
  ASSUME MaxBuf >= 1
  PROVE  /\ \A devno \in {KEYBOARD_NOECHO, KEYBOARD_ECHO, 99} :
              open(devno) \in Instrs /\ tryopen(devno) \in Instrs
         /\ \A f \in Int : readAt(f) \in Instrs
         /\ \A n \in Nat \ {0}, test \in Tests : readWhile(n, test) \in Instrs
         /\ \A n \in Nat \ {0} : read(n) \in Instrs
         /\ \A f \in Int : closeAt(f) \in Others /\ write(f) \in Others /\ ioctlAt(f) \in Others
         /\ close \in Others
         /\ \A key \in Keys : ioctl(key) \in Others
<1>1. MaxBuf \in Nat \ {0} /\ \A n \in Nat \ {0} : Atmost(n, MaxBuf) \in Nat \ {0}
  BY UserAssumption DEF Atmost
<1>2. \A devno \in {KEYBOARD_NOECHO, KEYBOARD_ECHO, 99} :
        open(devno) \in Instrs /\ tryopen(devno) \in Instrs
  BY DEF open, tryopen, Instrs
<1>3. CLOSED \in Int /\ "d" \in Keys
  BY DEF CLOSED, Keys, Letters
<1>4. \A f \in Int : readAt(f) \in Instrs
  BY <1>1 DEF readAt, Instrs, Tests
<1>5. \A n \in Nat \ {0}, test \in Tests : readWhile(n, test) \in Instrs
  BY <1>1, <1>3 DEF readWhile, Instrs
<1>6. \A n \in Nat \ {0} : read(n) \in Instrs
  BY <1>5 DEF read, Tests
<1>7. \A f \in Int : closeAt(f) \in Others /\ write(f) \in Others /\ ioctlAt(f) \in Others
  BY <1>3 DEF closeAt, write, ioctlAt, Others
<1>8. close \in Others
  BY <1>3, <1>7 DEF close
<1>9. \A key \in Keys : ioctl(key) \in Others
  BY <1>3 DEF ioctl, Others
<1> QED BY <1>2, <1>4, <1>5, <1>6, <1>7, <1>8, <1>9

(* The calls to the kernel that the programs make.                         *)
LEMMA OtherCalls ==
  /\ \A n \in UserSignals, h \in Nat : handler(n, h) \in Others
  /\ \A program \in Children : spawn(program) \in Others
  /\ \A ms \in Nat : nap(ms) \in Others
  /\ \A program \in Children \cup {"root"}, n \in Int : kill(program, n) \in Others
  /\ sigwait \in Others /\ yields \in Others /\ recvany \in Others /\ halts \in Others
<1>1. \A ms \in Nat : Atmost(ms, MaxNap) \in Nat
  BY UserAssumption DEF Atmost
<1>2. \A n \in UserSignals, h \in Nat : handler(n, h) \in Others
  BY DEF handler, Others
<1>3. \A program \in Children : spawn(program) \in Others
  BY DEF spawn, Others
<1>4. \A ms \in Nat : nap(ms) \in Others
  BY <1>1 DEF nap, Others
<1>5. \A program \in Children \cup {"root"}, n \in Int : kill(program, n) \in Others
  BY DEF kill, Others
<1>6. sigwait \in Others /\ yields \in Others /\ recvany \in Others /\ halts \in Others
  BY DEF sigwait, yields, recvany, halts, Others
<1> QED BY <1>2, <1>3, <1>4, <1>5, <1>6

(* Those are calls of any program.                                         *)
LEMMA OthersToo == Others \subseteq Instrs
BY DEF Instrs

(* Programs are put together from pieces.                                  *)
LEMMA Joined == ASSUME NEW S, NEW s \in Seq(S), NEW t \in Seq(S) PROVE s \o t \in Seq(S)
OBVIOUS

(* A counted loop.                                                         *)
LEMMA Repeated == ASSUME NEW S, NEW n \in Nat, NEW i \in S PROVE Times(n, i) \in Seq(S)
<1>1. Atmost(n, MaxTimes) \in Nat
  BY UserAssumption DEF Atmost
<1> QED BY <1>1 DEF Times

(* The shortest pieces.                                                    *)
LEMMA Tuples == ASSUME NEW S, NEW a \in S PROVE <<>> \in Seq(S) /\ <<a>> \in Seq(S)
OBVIOUS

(* What is not root's.                                                     *)
LEMMA ChildPrograms ==
  /\ sleep_sig20_sig18 \in Seq(Others) /\ sleep5_sig18 \in Seq(Others)
  /\ sleep5_sig20 \in Seq(Others) /\ idlechild \in Seq(Others) /\ waiter \in Seq(Others)
  /\ signaltarget \in Seq(Others) /\ idleproc \in Seq(Others) /\ idleproc_tests \in Seq(Others)
<1>1. \A ms \in Nat : nap(ms) \in Others
  BY OtherCalls
<1>2. kill("root", 20) \in Others /\ kill("root", 18) \in Others
  BY OtherCalls
<1>3. /\ handler(1, 1) \in Others /\ handler(3, 3) \in Others
      /\ handler(5, 5) \in Others /\ handler(7, 7) \in Others
  BY OtherCalls DEF UserSignals
<1>4. sigwait \in Others /\ yields \in Others /\ recvany \in Others /\ halts \in Others
  BY OtherCalls
<1>5. /\ sleep_sig20_sig18 \in Seq(Others) /\ sleep5_sig18 \in Seq(Others)
      /\ sleep5_sig20 \in Seq(Others)
  BY <1>1, <1>2 DEF sleep_sig20_sig18, sleep5_sig18, sleep5_sig20
<1>6. idlechild \in Seq(Others) /\ waiter \in Seq(Others) /\ signaltarget \in Seq(Others)
  BY <1>3, <1>4 DEF idlechild, waiter, signaltarget
<1> QED BY <1>4, <1>5, <1>6 DEF idleproc, idleproc_tests

(* What is root's.                                                         *)
LEMMA Assign3Program ==
  ASSUME MaxBuf >= 1 PROVE assign3_test_seq \in Seq(Instrs) /\ signal_reader \in Seq(Instrs)
<1>1. /\ open(KEYBOARD_NOECHO) \in Instrs /\ open(KEYBOARD_ECHO) \in Instrs
      /\ tryopen(KEYBOARD_NOECHO) \in Instrs /\ tryopen(KEYBOARD_ECHO) \in Instrs
  BY DeviceCalls
<1>2. \A n \in Nat \ {0} : read(n) \in Instrs
  BY DeviceCalls
<1>3. readWhile(10, "nonzero") \in Instrs /\ readWhile(80, "positive") \in Instrs
  BY DeviceCalls DEF Tests
<1>4. close \in Instrs /\ yields \in Instrs
  BY DeviceCalls, OtherCalls, OthersToo
<1>5. handler(18, 18) \in Instrs /\ handler(18, 2) \in Instrs /\ handler(20, 18) \in Instrs
  BY OtherCalls, OthersToo DEF UserSignals
<1>6. /\ spawn("sleep_sig20_sig18") \in Instrs /\ spawn("sleep5_sig18") \in Instrs
      /\ spawn("sleep5_sig20") \in Instrs
  BY OtherCalls, OthersToo DEF Children
<1>7. <<open(KEYBOARD_ECHO)>> \in Seq(Instrs) /\ Times(10, read(2)) \in Seq(Instrs)
      /\ Times(5, read(10)) \in Seq(Instrs)
  BY <1>1, <1>2, Repeated, Tuples
<1>8. <<tryopen(KEYBOARD_NOECHO), tryopen(KEYBOARD_ECHO), close, open(KEYBOARD_NOECHO)>>
        \in Seq(Instrs)
  BY <1>1, <1>4
<1> DEFINE rest == <<readWhile(10, "nonzero"), close, open(KEYBOARD_ECHO),
         handler(18, 18), spawn("sleep_sig20_sig18"), read(40),
         spawn("sleep5_sig18"), handler(18, 2), read(40),
         handler(20, 18), spawn("sleep5_sig20"), read(40),
         readWhile(80, "positive"), read(40), close, yields>>
<1>9. rest \in Seq(Instrs)
  BY <1>1, <1>2, <1>3, <1>4, <1>5, <1>6
<1> HIDE DEF rest
<1>10. assign3_test_seq \in Seq(Instrs)
  BY <1>7, <1>8, <1>9, Joined DEF assign3_test_seq, rest
<1>11. signal_reader \in Seq(Instrs)
  BY <1>1, <1>2, <1>4, <1>5, <1>6 DEF signal_reader
<1> QED BY <1>10, <1>11

(* Root's tests of the devices.                                            *)
LEMMA DeviceTestsProgram == ASSUME MaxBuf >= 1 PROVE device_tests \in Seq(Instrs)
<1>1. /\ tryopen(KEYBOARD_NOECHO) \in Instrs /\ tryopen(KEYBOARD_ECHO) \in Instrs
      /\ tryopen(99) \in Instrs
  BY DeviceCalls
<1>2. KEYBOARD_NOECHO \in Int /\ KEYBOARD_ECHO \in Int /\ 99 \in Int
  BY DEF KEYBOARD_NOECHO, KEYBOARD_ECHO
<1>3. /\ readAt(KEYBOARD_NOECHO) \in Instrs /\ readAt(KEYBOARD_ECHO) \in Instrs
      /\ closeAt(KEYBOARD_NOECHO) \in Instrs /\ closeAt(KEYBOARD_ECHO) \in Instrs
      /\ write(KEYBOARD_NOECHO) \in Instrs /\ write(KEYBOARD_ECHO) \in Instrs
      /\ ioctlAt(KEYBOARD_NOECHO) \in Instrs /\ ioctlAt(KEYBOARD_ECHO) \in Instrs
      /\ ioctlAt(99) \in Instrs
  BY <1>2, DeviceCalls, OthersToo
<1>4. spawn("waiter") \in Instrs /\ nap(9000) \in Instrs /\ kill("waiter", 7) \in Instrs
  BY OtherCalls, OthersToo DEF Children
<1>5. verify_dev_arg_passing \in Seq(Instrs)
  BY <1>1, <1>3 DEF verify_dev_arg_passing
<1>6. sigwaittest \in Seq(Instrs)
  BY <1>4 DEF sigwaittest
<1>7. /\ sysopen_invalid \in Seq(Instrs) /\ syswrite_invalid \in Seq(Instrs)
      /\ sysioctl_invalid \in Seq(Instrs)
  BY <1>1, <1>3, Tuples DEF sysopen_invalid, syswrite_invalid, sysioctl_invalid
<1> QED BY <1>5, <1>6, <1>7, Joined DEF device_tests

(* Root's tests of the signals use no device.                              *)
LEMMA SignalTestsProgram == signal_tests \in Seq(Others)
<1>1. /\ handler(30, 1) \in Others /\ handler(30, 2) \in Others
  BY OtherCalls DEF UserSignals
<1>2. spawn("idlechild") \in Others /\ spawn("signaltarget") \in Others
  BY OtherCalls DEF Children
<1>3. \A n \in Int : kill("idlechild", n) \in Others /\ kill("signaltarget", n) \in Others
  BY OtherCalls DEF Children
<1>4. yields \in Others
  BY OtherCalls
<1>5. [i \in 1 .. 8 |-> kill("signaltarget", i - 1)] \in Seq(Others)
  BY <1>3
<1>6. syssigkilltest \in Seq(Others)
  BY <1>2, <1>5, Tuples, Joined DEF syssigkilltest
<1> DEFINE start == <<handler(30, 1), handler(30, 2), spawn("idlechild"),
      kill("idlechild", 1), kill("idlechild", 5), kill("idlechild", 7)>>
<1>7. start \in Seq(Others)
  BY <1>1, <1>2, <1>3
<1>8. <<yields>> \in Seq(Others)
  BY <1>4, Tuples
<1> HIDE DEF start
<1> QED BY <1>6, <1>7, <1>8, Joined DEF signal_tests, start

(* Root's tests of the reads.                                              *)
LEMMA ReadTestsProgram == ASSUME MaxBuf >= 1 PROVE read_tests \in Seq(Instrs)
<1>1. open(KEYBOARD_ECHO) \in Instrs /\ \A n \in Nat \ {0} : read(n) \in Instrs
  BY DeviceCalls
<1>2. readWhile(128, "positive") \in Instrs /\ readWhile(10, "nonzero") \in Instrs
  BY DeviceCalls DEF Tests
<1>3. "w" \in Keys
  BY DEF Keys, Letters
<1>4. ioctl("w") \in Instrs /\ yields \in Instrs
  BY <1>3, DeviceCalls, OtherCalls, OthersToo
<1>5. sysread_overflow \in Seq(Instrs) /\ sysread_underflow \in Seq(Instrs)
  BY <1>1 DEF sysread_overflow, sysread_underflow
<1> DEFINE rest == <<open(KEYBOARD_ECHO), readWhile(128, "positive"),
         open(KEYBOARD_ECHO), ioctl("w"), readWhile(10, "nonzero"), yields>>
<1>6. rest \in Seq(Instrs)
  BY <1>1, <1>2, <1>4
<1> HIDE DEF rest
<1> QED BY <1>5, <1>6, Joined DEF read_tests, rest

(* Every process runs a program whose calls are those listed; one that is  *)
(* not root's opens nothing and reads nothing.                             *)
LEMMA CodeIs ==
  ASSUME MaxBuf >= 1, NEW program
  PROVE  /\ Code_of(program) \in Seq(Instrs)
         /\ program \notin RootPrograms => Code_of(program) \in Seq(Others)
<1>1. \A t \in Seq(Others) : t \in Seq(Instrs)
  BY OthersToo
<1>2. <<>> \in Seq(Others)
  OBVIOUS
<1>3. program \notin RootPrograms => Code_of(program) \in Seq(Others)
  BY <1>2, ChildPrograms DEF Code_of, RootPrograms
<1>4. program \in RootPrograms => Code_of(program) \in Seq(Instrs)
  BY <1>1, Assign3Program, DeviceTestsProgram, SignalTestsProgram, ReadTestsProgram
     DEF Code_of, RootPrograms
<1> QED BY <1>1, <1>3, <1>4

-----------------------------------------------------------------------------
(* The processes.                                                          *)
Programs == RootPrograms \cup Children \cup {"idleproc", "idleproc_tests", "none"}

Proc == [program : Programs, at : Nat \ {0}, called : BOOLEAN, fd : Int]

(* Every process is somewhere in its program, and root's programs are its. *)
ProgramsInv ==
  /\ proc \in [Slots -> Proc]
  /\ \A s \in Slots : proc[s].program \in RootPrograms => s = ROOT

(* What the fields of a call are.                                          *)
LEMMA CallFields ==
  ASSUME NEW i \in Instrs
  PROVE  /\ i.op = "open" => i \notin Others /\ i.dev \in {KEYBOARD_NOECHO, KEYBOARD_ECHO, 99}
         /\ i.op = "read" => i \notin Others /\ i.n \in Nat \ {0}
         /\ i.op = "ioctl" => i.a \in Keys
         /\ i.op = "sighandler" => i.n \in UserSignals /\ i.h \in Nat
         /\ i.op = "create" => i.program \in Children
         /\ i.op = "sleep" => i.ms \in Nat
BY DEF Instrs, Others

(* The call a process is at.                                               *)
LEMMA AtCall ==
  ASSUME Inv, ProgramsInv, MaxBuf >= 1, NEW op, At(op)
  PROVE  Instr \in Instrs /\ Instr.op = op /\ (Instr \notin Others => Running = ROOT)
<1>1. Running \in Slots /\ Me \in Proc
  BY RunningIs DEF ProgramsInv, Me
<1> DEFINE code == Code_of(Me.program)
<1>2. code \in Seq(Instrs) /\ (Me.program \notin RootPrograms => code \in Seq(Others))
  BY CodeIs
<1>3. Me.at \in Nat \ {0} /\ ~(Me.at > Len(code)) /\ Instr = code[Me.at] /\ Instr.op = op
  BY <1>1 DEF At, Ended, Instr, Proc
<1> HIDE DEF code
<1>4. Me.at \in 1 .. Len(code)
  BY <1>2, <1>3
<1>5. Instr \in Instrs /\ (Me.program \notin RootPrograms => Instr \in Others)
  BY <1>2, <1>3, <1>4
<1>6. Me.program \in RootPrograms => Running = ROOT
  BY <1>1 DEF ProgramsInv, Me
<1> QED BY <1>3, <1>5, <1>6

(* What a process may become: it stays in its program.                     *)
LEMMA ProcMoves ==
  ASSUME NEW p \in Proc, NEW n \in Int,
         NEW q, \/ q = [p EXCEPT !.at = p.at + 1]
                \/ q = [p EXCEPT !.called = TRUE]
                \/ q = [p EXCEPT !.called = FALSE]
                \/ q = [p EXCEPT !.fd = n]
  PROVE  q \in Proc /\ q.program = p.program /\ q.at \in {p.at, p.at + 1}
<1>1. CASE q = [p EXCEPT !.at = p.at + 1]
  BY <1>1 DEF Proc
<1>2. CASE q = [p EXCEPT !.called = TRUE]
  BY <1>2 DEF Proc
<1>3. CASE q = [p EXCEPT !.called = FALSE]
  BY <1>3 DEF Proc
<1>4. CASE q = [p EXCEPT !.fd = n]
  BY <1>4 DEF Proc
<1> QED BY <1>1, <1>2, <1>3, <1>4

(* Going on keeps every process in its program.                            *)
LEMMA AdvanceKeeps == ASSUME Inv, ProgramsInv, Advance \/ Await PROVE ProgramsInv'
<1>1. Running \in Slots /\ proc \in [Slots -> Proc]
  BY RunningIs DEF ProgramsInv
<1> DEFINE p == proc[Running]
<1>2. p \in Proc
  BY <1>1
<1>3. PICK q : /\ proc' = [proc EXCEPT ![Running] = q]
               /\ \/ q = [p EXCEPT !.at = p.at + 1] \/ q = [p EXCEPT !.called = TRUE]
  BY DEF Advance, Await
<1>4. q \in Proc /\ q.program = p.program
  <2> HIDE DEF p
  <2> QED BY <1>2, <1>3, ProcMoves
<1> QED BY <1>1, <1>3, <1>4 DEF ProgramsInv

-----------------------------------------------------------------------------
(* The steps of the programs.                                              *)
UserInv == SigInv /\ NoLostWakeup /\ Served(kern, dev) /\ ProgramsInv

(* The bounds: a device number of 99 is none, a buffer is not empty, and   *)
(* the signals that user.c uses are among those modelled.                  *)
UserBounds == MAX_DEVICE < 99 /\ MaxBuf >= 1 /\ UserSignals \subseteq SigNos

(* What a step of a program has to do.                                     *)
Goes == Stepped /\ Served(kern', dev') /\ ProgramsInv'

(* A quiet step leaves the devices served.                                 *)
LEMMA QuietGoes ==
  ASSUME Served(kern, dev), Quiet(kern, kern'), UNCHANGED dev PROVE Served(kern', dev')
BY QuietServed

(* The calls of the programs to the devices.                               *)
LEMMA DeviceCallsGo ==
  ASSUME UserInv, UserBounds,
         UserOpens \/ UserReads \/ UserCloses \/ UserWrites \/ UserIoctls
  PROVE  Goes
<1>1. SigInv /\ Inv /\ Served(kern, dev) /\ ProgramsInv /\ MaxBuf >= 1 /\ MAX_DEVICE < 99
  BY DEF UserInv, UserBounds, SigInv
<1>2. CASE UserOpens
  <2>1. /\ Open(Instr.dev) /\ (Advance \/ Await) /\ Running = ROOT
        /\ Instr.dev \in {KEYBOARD_NOECHO, KEYBOARD_ECHO, 99}
    BY <1>1, <1>2, AtCall, CallFields DEF UserOpens
  <2> QED BY <1>1, <2>1, OpenSteps, AdvanceKeeps DEF Goes
<1>3. CASE UserReads
  <2>1. Read(Descriptor, Instr.n) /\ (Advance \/ Await) /\ Instr.n \in Nat \ {0}
    BY <1>1, <1>3, AtCall, CallFields DEF UserReads
  <2> QED BY <1>1, <2>1, ReadSteps, AdvanceKeeps DEF Goes
<1>4. CASE UserCloses
  BY <1>1, <1>4, CloseSteps, AdvanceKeeps DEF Goes, UserCloses
<1>5. CASE UserWrites
  BY <1>1, <1>5, WriteSteps, AdvanceKeeps DEF Goes, UserWrites
<1>6. CASE UserIoctls
  <2>1. Ioctl(Descriptor, Instr.command, Instr.a) /\ Advance /\ Instr.a \in Keys
    BY <1>1, <1>6, AtCall, CallFields DEF UserIoctls
  <2> QED BY <1>1, <2>1, IoctlSteps, AdvanceKeeps DEF Goes
<1> QED BY <1>2, <1>3, <1>4, <1>5, <1>6

(* What a program takes for a pid is a number.                             *)
LEMMA PidOfIs == ASSUME Inv, NEW program PROVE PidOf(program) \in Nat
<1> DEFINE runs == {s \in Slots : proc[s].program = program}
           x    == CHOOSE s \in runs : TRUE
<1>1. runs # {} => x \in Slots
  OBVIOUS
<1>2. kern.pid \in [Slots -> Nat]
  BY InvIs, ProcTableAssumption DEF KernelType, Pids
<1>3. PidOf(program) =
        IF program = "root" THEN ROOT ELSE IF runs = {} THEN 0 ELSE kern.pid[x]
  BY DEF PidOf
<1> HIDE DEF x, runs
<1> QED BY <1>1, <1>2, <1>3 DEF ROOT

(* The calls of the programs to the kernel but for syscreate.              *)
LEMMA KernelCallsGo ==
  ASSUME UserInv, UserBounds,
         UserHandles \/ UserKills \/ UserWaits \/ UserSleeps \/ UserYields
  PROVE  Goes
<1>1. SigInv /\ Inv /\ Served(kern, dev) /\ ProgramsInv /\ MaxBuf >= 1 /\ UserSignals \subseteq SigNos
  BY DEF UserInv, UserBounds, SigInv
<1>2. CASE UserHandles
  <2>1. /\ SigHandler(Instr.n, Instr.h) /\ UNCHANGED dev /\ Advance
        /\ Instr.n \in SigNos /\ Instr.h \in Nat
    BY <1>1, <1>2, AtCall, CallFields DEF UserHandles
  <2> QED BY <1>1, <2>1, SigHandlerStepped, QuietGoes, AdvanceKeeps DEF Goes
<1>3. CASE UserKills
  <2>1. /\ SigKill(PidOf(Instr.program), Instr.n) /\ UNCHANGED dev /\ Advance
        /\ PidOf(Instr.program) \in Nat
    BY <1>1, <1>3, PidOfIs DEF UserKills
  <2> QED BY <1>1, <2>1, SigKillStepped, QuietGoes, AdvanceKeeps DEF Goes
<1>4. CASE UserWaits
  BY <1>1, <1>4, SigWaitStepped, QuietGoes, AdvanceKeeps DEF Goes, UserWaits
<1>5. CASE UserSleeps
  <2>1. Also(Nap(Instr.ms)) /\ UNCHANGED dev /\ Advance /\ Instr.ms \in Nat
    BY <1>1, <1>5, AtCall, CallFields DEF UserSleeps
  <2> QED BY <1>1, <2>1, NapStepped, QuietGoes, AdvanceKeeps DEF Goes
<1>6. CASE UserYields
  <2>1. Also(Yield) /\ UNCHANGED <<dev, proc>>
    BY <1>6 DEF UserYields
  <2>2. ProgramsInv'
    BY <1>1, <2>1 DEF ProgramsInv
  <2> QED BY <1>1, <2>1, <2>2, YieldStepped, QuietGoes DEF Goes
<1> QED BY <1>2, <1>3, <1>4, <1>5, <1>6

(* syscreate: what is started is none of root's programs.                  *)
LEMMA CreateGoes == ASSUME UserInv, UserBounds, UserCreates PROVE Goes
<1>1. SigInv /\ Inv /\ Served(kern, dev) /\ ProgramsInv /\ MaxBuf >= 1
  BY DEF UserInv, UserBounds, SigInv
<1>2. /\ Also(Create) /\ UNCHANGED dev /\ Instr.program \in Children
      /\ proc' = [s \in Slots |->
                  IF kern.state[s] = "STOPPED" /\ kern'.state[s] = "READY"
                  THEN Started(Instr.program)
                  ELSE IF s = Running THEN [proc[s] EXCEPT !.at = @ + 1] ELSE proc[s]]
  BY <1>1, AtCall, CallFields DEF UserCreates
<1>3. Started(Instr.program) \in Proc /\ Started(Instr.program).program \notin RootPrograms
  BY <1>2 DEF Started, Proc, Programs, Children, RootPrograms
<1>4. \A s \in Slots : proc[s] \in Proc /\ (proc[s].program \in RootPrograms => s = ROOT)
  BY <1>1 DEF ProgramsInv
<1>5. \A s \in Slots : /\ [proc[s] EXCEPT !.at = @ + 1] \in Proc
                       /\ [proc[s] EXCEPT !.at = @ + 1].program = proc[s].program
  BY <1>4 DEF Proc
<1>6. ProgramsInv'
  BY <1>2, <1>3, <1>4, <1>5 DEF ProgramsInv
<1> QED BY <1>1, <1>2, <1>6, CreateStepped, QuietGoes DEF Goes

(* sysstop, idleproc's receive, the end of a handler and the timer.        *)
LEMMA OthersGo ==
  ASSUME UserInv, UserBounds,
         UserStops \/ IdleReceives \/ UserHandled \/ TimerInterrupt
  PROVE  Goes
<1>1. SigInv /\ Inv /\ Served(kern, dev) /\ ProgramsInv
  BY DEF UserInv, UserBounds, SigInv
<1>2. CASE UserStops
  <2>1. Also(StopWith({})) /\ UNCHANGED <<dev, proc>>
    BY <1>2 DEF UserStops
  <2>2. ProgramsInv'
    BY <1>1, <2>1 DEF ProgramsInv
  <2> QED BY <1>1, <2>1, <2>2, StopStepped, QuietGoes DEF Goes
<1>3. CASE IdleReceives
  <2>1. Also(RecvOfAny(MaxBuf, TRUE)) /\ UNCHANGED dev /\ Advance /\ MaxBuf \in Nat
    BY <1>3, UserAssumption DEF IdleReceives, RecvOfAny
  <2>2. \A s \in Slots : kern.call[s] # "send"
    BY <1>1 DEF Served
  <2> QED BY <1>1, <2>1, <2>2, RecvStepped, QuietGoes, AdvanceKeeps DEF Goes
<1>4. CASE UserHandled
  <2>1. SigReturn /\ UNCHANGED <<dev, proc>>
    BY <1>4 DEF UserHandled
  <2>2. ProgramsInv'
    BY <1>1, <2>1 DEF ProgramsInv
  <2> QED BY <1>1, <2>1, <2>2, SigReturnStepped, QuietGoes DEF Goes
<1>5. CASE TimerInterrupt
  <2>1. Also(TimerAt(kern.ret[Running])) /\ UNCHANGED <<dev, proc>>
    BY <1>5 DEF TimerInterrupt
  <2>2. kern.ret[Running] \in Int
    BY <1>1, RunningIs DEF KernelType
  <2>3. ProgramsInv'
    BY <1>1, <2>1 DEF ProgramsInv
  <2> QED BY <1>1, <2>1, <2>2, <2>3, TimerStepped, QuietGoes DEF Goes
<1> QED BY <1>2, <1>3, <1>4, <1>5

(* Between two calls of its own a program changes only where it is.        *)
LEMMA StutterUser ==
  ASSUME UserInv, UNCHANGED <<kern, sig, dev>>, ProgramsInv' PROVE UserInv'
<1>1. SigInv /\ NoLostWakeup /\ UNCHANGED sigVars
  BY DEF UserInv, sigVars
<1>2. SigInv' /\ NoLostWakeup'
  BY <1>1, NextKeepsSigInv
<1> QED BY <1>2 DEF UserInv

(* The result of a call is taken, and the program goes on or calls again.  *)
LEMMA TakesKeeps == ASSUME UserInv, UserTakes PROVE UserInv'
<1>1. UNCHANGED <<kern, sig, dev>> /\ ProgramsInv /\ Inv
  BY DEF UserTakes, UserInv, SigInv
<1>2. Running \in Slots /\ proc \in [Slots -> Proc] /\ kern.ret[Running] \in Int
  BY <1>1, RunningIs DEF ProgramsInv, KernelType
<1> DEFINE p == proc[Running]
           back == [p EXCEPT !.called = FALSE]
           next == [p EXCEPT !.called = FALSE, !.at = @ + 1]
           kept == [next EXCEPT !.fd = kern.ret[Running]]
<1>3. proc' = [proc EXCEPT ![Running] =
                  IF Instr.op = "open" THEN kept
                  ELSE IF Again(Instr.again, kern.ret[Running]) THEN back ELSE next]
  BY DEF UserTakes, Me
<1>4. p \in Proc
  BY <1>2
<1> HIDE DEF p
<1>5. next = [back EXCEPT !.at = back.at + 1]
  BY <1>4 DEF Proc
<1>6. back \in Proc /\ back.program = p.program
  BY <1>2, <1>4, ProcMoves
<1> HIDE DEF next, back
<1>7. next \in Proc /\ next.program = p.program
  BY <1>2, <1>5, <1>6, ProcMoves
<1>9. kept \in Proc /\ kept.program = p.program
  BY <1>2, <1>7, ProcMoves
<1> HIDE DEF kept
<1>8. ProgramsInv'
  BY <1>1, <1>2, <1>3, <1>6, <1>7, <1>9 DEF ProgramsInv, p
<1> QED BY <1>1, <1>8, StutterUser

(* A key: what it may be is assumed of KeyEvents.                          *)
LEMMA KeyGoes ==
  ASSUME UserInv, UserBounds, NEW e \in KeyEvents, KeyInterrupt(e[1], e[2]) PROVE Goes
<1>1. SigInv /\ Served(kern, dev) /\ ProgramsInv
  BY DEF UserInv
<1>2. e[1] \in Keys
  BY DevicesAssumption
<1>3. Keyboard(e[1], e[2]) /\ UNCHANGED proc
  BY DEF KeyInterrupt
<1>4. ProgramsInv'
  BY <1>1, <1>3 DEF ProgramsInv
<1> QED BY <1>1, <1>2, <1>3, <1>4, KeyboardSteps DEF Goes

(* Such steps keep the invariant.                                          *)
LEMMA GoesKeeps == ASSUME UserInv, Goes PROVE UserInv'
BY SteppedKeeps DEF UserInv, Goes

(* The boot: nobody waits, and nothing is open.                            *)
LEMMA InitUserInv == InitUser => UserInv
<1> SUFFICES ASSUME InitUser PROVE UserInv
  OBVIOUS
<1>1. InitSig /\ dev = BootDev /\ kern = Boot
  BY DEF InitUser, InitDev, InitSig, Init
<1>2. SigInv /\ NoLostWakeup
  BY <1>1, InitSigInv
<1>3. Served(kern, dev)
  <2>1. BootDev \in DevType
    BY DEF BootDev, DevType, Ptr, CLOSED, Keys, Letters
  <2>2. DevOK(BootDev)
    <3>1. \A s \in Slots : \A f \in Files : BootDev.fd[s][f] = CLOSED
      BY DEF BootDev
    <3>2. BootDev.reader = NULL /\ BootDev.kbdbuffer = <<>> /\ Len(<<>>) = 0
      BY DEF BootDev
    <3> QED BY <2>1, <3>1, <3>2, DevicesAssumption DEF DevOK, Opened
  <2>3. \A s \in Slots : Boot.state[s] # "BLOCKED" /\ Boot.call[s] # "send"
    BY DEF Boot
  <2> QED BY <1>1, <2>2, <2>3 DEF Served, Attended, Reads
<1>4. ProgramsInv
  <2>1. PICK main \in Mains :
          proc = [s \in Slots |->
                    IF s = ROOT THEN Started(main)
                    ELSE IF s = IDLE
                         THEN Started(IF main \in {"assign3_test_seq", "signal_reader"}
                                      THEN "idleproc" ELSE "idleproc_tests")
                    ELSE Started("none")]
    BY DEF InitUser, InitProc
  <2>2. main \in RootPrograms
    BY UserAssumption DEF RootPrograms
  <2>3. \A program \in Programs : Started(program) \in Proc /\ Started(program).program = program
    BY DEF Started, Proc
  <2>4. /\ main \in Programs /\ {"idleproc", "idleproc_tests", "none"} \subseteq Programs
        /\ {"idleproc", "idleproc_tests", "none"} \cap RootPrograms = {}
    BY <2>2 DEF Programs, RootPrograms
  <2> DEFINE name(s) ==
        IF s = ROOT THEN main
        ELSE IF s = IDLE
             THEN IF main \in {"assign3_test_seq", "signal_reader"}
                  THEN "idleproc" ELSE "idleproc_tests"
             ELSE "none"
  <2>5. \A s \in Slots : name(s) \in Programs /\ (name(s) \in RootPrograms => s = ROOT)
    BY <2>4
  <2>6. proc = [s \in Slots |-> Started(name(s))]
    BY <2>1
  <2> HIDE DEF name
  <2> QED BY <2>3, <2>5, <2>6 DEF ProgramsInv
<1> QED BY <1>2, <1>3, <1>4 DEF UserInv

(* Every step keeps it.                                                    *)
LEMMA NextKeepsUserInv ==
  ASSUME UserBounds PROVE UserInv /\ [NextUser]_userVars => UserInv'
<1> SUFFICES ASSUME UserInv, [NextUser]_userVars PROVE UserInv'
  OBVIOUS
<1>1. CASE UserStep
  BY <1>1, DeviceCallsGo, KernelCallsGo, CreateGoes, OthersGo, GoesKeeps, TakesKeeps DEF UserStep
<1>2. CASE TimerInterrupt
  BY <1>2, OthersGo, GoesKeeps
<1>3. CASE \E e \in KeyEvents : KeyInterrupt(e[1], e[2])
  BY <1>3, KeyGoes, GoesKeeps
<1>4. CASE UNCHANGED userVars
  <2>1. UNCHANGED <<kern, sig, dev>> /\ UNCHANGED proc
    BY <1>4 DEF userVars
  <2>2. ProgramsInv'
    BY <2>1 DEF UserInv, ProgramsInv
  <2> QED BY <2>1, <2>2, StutterUser
<1> QED BY <1>1, <1>2, <1>3, <1>4 DEF NextUser

-----------------------------------------------------------------------------
(* The inductive invariant holds of the programs of user.c, whatever the   *)
(* sizes of the buffers, of the table and of the loops: that of the kernel *)
(* with signals; who is blocked in a read is root, registered with the     *)
(* driver and with room in its buffer, and only root has a descriptor, one *)
(* at most, its keyboard unmasked; nobody is in a send.                    *)
THEOREM UserInvHolds == ASSUME UserBounds PROVE SpecUser => []UserInv
BY InitUserInv, NextKeepsUserInv, PTL DEF SpecUser

(* The driver's variables and the descriptors keep their types, and what   *)
(* is typed never runs over the end of the driver's buffer: it is copied   *)
(* on, or handed over, before it is full again (kbd.c, process_key).       *)
THEOREM DriverBufferFits ==
  ASSUME UserBounds PROVE SpecUser => [](DevTypeOK /\ Len(dev.kbdbuffer) <= KBDBUFSZ)
<1>1. UserInv => DevTypeOK /\ Len(dev.kbdbuffer) <= KBDBUFSZ
  BY DEF UserInv, Served, DevOK, DevTypeOK
<1> QED BY <1>1, UserInvHolds, PTL

(* A process that is blocked in a read is never forgotten: it is the one   *)
(* registered with the driver, with its buffer, and the keyboard's         *)
(* interrupt is not masked (kbd.c, kbd_read and kbd_close).                *)
THEOREM ReadersRemembered == ASSUME UserBounds PROVE SpecUser => []NoReaderForgotten
<1>1. UserInv => NoReaderForgotten
  BY DEF UserInv, Served, Attended, Reads, NoReaderForgotten, InRead
<1> QED BY <1>1, UserInvHolds, PTL

(* No process has two keyboards open (di_calls.c, di_open; user.c:581).    *)
THEOREM OneKeyboardEach == ASSUME UserBounds PROVE SpecUser => []OneKeyboard
<1>1. UserInv => OneKeyboard
  BY DEF UserInv, Served, DevOK, Opened, OneKeyboard
<1> QED BY <1>1, UserInvHolds, PTL

(* The programs lose no wakeup either: with the keyboard's interrupt, its  *)
(* reads and the signals that end them, a process that has a signal to     *)
(* handle is not left waiting (signal.c, disp.c:269).                      *)
THEOREM UserWakeups == ASSUME UserBounds PROVE SpecUser => []NoLostWakeup
<1>1. UserInv => NoLostWakeup
  BY DEF UserInv
<1> QED BY <1>1, UserInvHolds, PTL
==============================================================================
