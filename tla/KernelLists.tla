----------------------------- MODULE KernelLists -----------------------------
(***************************************************************************)
(* The four lists of the kernel are what their names say, after every      *)
(* request: the ready queue, the list of sleepers, blocked_q and dead_q    *)
(* are four lists in the sense of module KernelProofs, no two share a pcb,  *)
(* and each holds pcb's of its own state only.  From this follows that no  *)
(* request makes the kernel stop.                                          *)
(***************************************************************************)
EXTENDS KernelProofs

ReadyIs(k, f) ==
  /\ List(k.next, k.que["head"], f)
  /\ \A s \in Pcbs \ {IDLE} : s \in On(f) <=> k.state[s] = "READY"
  /\ IDLE \in On(f) => k.state[IDLE] = "READY"
  /\ k.tail = IF Len(f) = 0 THEN NULL ELSE Last(f)

SleepersAre(k, g) ==
  /\ List(k.next, k.headsleeper, g)
  /\ \A s \in Pcbs : s \in On(g) <=> k.state[s] = "SLEEP"

(* A pcb may lose its place on blocked_q, when remove() takes another one  *)
(* off, and on dead_q.                                                     *)
WaitersAre(k, b) ==
  /\ List(k.next, k.que["blocked_q"], b)
  /\ \A s \in On(b) : k.state[s] = "BLOCKED"
  /\ "stop" \in Calls => k.que["blocked_q"] = NULL

DeadAre(k, d) ==
  /\ List(k.next, k.que["dead_q"], d)
  /\ \A s \in On(d) : k.state[s] = "STOPPED" /\ k.pid[s] # 0
  /\ "stop" \notin Calls => k.que["dead_q"] = NULL

Lists(k, f, g, b, d) ==
  ReadyIs(k, f) /\ SleepersAre(k, g) /\ WaitersAre(k, b) /\ DeadAre(k, d)

(* The rest of what the lists rely on: idleproc never leaves its slot,     *)
(* slot 0 is never used, a slot without a pid has no process, and every    *)
(* blocked process, but for those in X, has the code of its call.          *)
InCall(k, s) == <<k.call[s], k.ret[s]>> \in {<<"send", SYS_SEND>>, <<"recv", SYS_RECV>>}

Facts(k, X) ==
  /\ k.fault = "none"
  /\ k.que["running"] \in Pcbs
  /\ k.pid[0] = 0 /\ k.state[0] = "STOPPED"
  /\ k.pid[IDLE] = IDLE /\ k.state[IDLE] \in {"READY", "RUNNING"}
  /\ \A s \in Slots : k.pid[s] = 0 => k.state[s] = "STOPPED"
  /\ \A s \in Slots : k.pid[s] > 0 => Slot(k.pid[s]) = s
  /\ \A s \in Slots \ X : k.state[s] = "BLOCKED" => InCall(k, s)
  /\ "stop" \in Calls => \A s \in Slots : k.pid[s] < 2 * MAX_PROC

Sound(k, X) ==
  /\ k \in KernelType
  /\ Facts(k, X)
  /\ \E f, g, b, d : Lists(k, f, g, b, d)

(* A pcb that is on no list.                                               *)
Loose(k, p) ==
  /\ p \in Pcbs /\ k.pid[p] # 0
  /\ k.state[p] \notin {"READY", "SLEEP"}
  /\ p \notin Members(k.next, k.que["blocked_q"])
  /\ p \notin Members(k.next, k.que["dead_q"])

(* No pcb is on two lists.                                                 *)
LEMMA Disjoint ==
  ASSUME NEW k, NEW f, NEW g, NEW b, NEW d, Lists(k, f, g, b, d), IDLE \in Pcbs
  PROVE  /\ \A s \in On(f) : s \in Pcbs /\ k.state[s] = "READY" /\ s \notin On(g) \cup On(b) \cup On(d)
         /\ \A s \in On(g) : s \in Pcbs /\ k.state[s] = "SLEEP" /\ s \notin On(f) \cup On(b) \cup On(d)
         /\ \A s \in On(b) : s \in Pcbs /\ k.state[s] = "BLOCKED" /\ s \notin On(f) \cup On(g) \cup On(d)
         /\ \A s \in On(d) : s \in Pcbs /\ k.state[s] = "STOPPED" /\ s \notin On(f) \cup On(g) \cup On(b)
<1>1. On(f) \subseteq Pcbs /\ On(g) \subseteq Pcbs /\ On(b) \subseteq Pcbs /\ On(d) \subseteq Pcbs
  BY ListFacts DEF Lists, ReadyIs, SleepersAre, WaitersAre, DeadAre
<1>2. \A s \in On(f) : k.state[s] = "READY"
  BY <1>1 DEF Lists, ReadyIs
<1>3. \A s \in On(g) : k.state[s] = "SLEEP"
  BY <1>1 DEF Lists, SleepersAre
<1>4. \A s \in On(b) : k.state[s] = "BLOCKED"
  BY <1>1 DEF Lists, WaitersAre
<1>5. \A s \in On(d) : k.state[s] = "STOPPED"
  BY <1>1 DEF Lists, DeadAre
<1> QED BY <1>1, <1>2, <1>3, <1>4, <1>5

(* A list keeps as long as its links, its head and the states of its pcb's *)
(* do.                                                                     *)
LEMMA SleepersKeep ==
  ASSUME NEW k, NEW g, SleepersAre(k, g), NEW r, r.headsleeper = k.headsleeper,
         \A s \in On(g) : r.next[s] = k.next[s],
         \A s \in Pcbs : r.state[s] = "SLEEP" <=> k.state[s] = "SLEEP"
  PROVE  SleepersAre(r, g)
BY ListSame DEF SleepersAre

(* The list of the blocked.                                                *)
LEMMA WaitersKeep ==
  ASSUME NEW k, NEW b, WaitersAre(k, b), NEW r, r.que["blocked_q"] = k.que["blocked_q"],
         \A s \in On(b) : r.next[s] = k.next[s] /\ r.state[s] = k.state[s]
  PROVE  WaitersAre(r, b)
BY ListSame DEF WaitersAre

(* The list of the stopped.                                                *)
LEMMA DeadKeep ==
  ASSUME NEW k, NEW d, DeadAre(k, d), NEW r, r.que["dead_q"] = k.que["dead_q"],
         \A s \in On(d) : r.next[s] = k.next[s] /\ r.state[s] = k.state[s] /\ r.pid[s] = k.pid[s]
  PROVE  DeadAre(r, d)
BY ListSame DEF DeadAre

(* The ready queue.                                                        *)
LEMMA ReadyKeeps ==
  ASSUME NEW k, NEW f, ReadyIs(k, f), NEW r, r.que["head"] = k.que["head"], r.tail = k.tail,
         \A s \in On(f) : r.next[s] = k.next[s],
         \A s \in Pcbs \ {IDLE} : r.state[s] = "READY" <=> k.state[s] = "READY",
         IDLE \in On(f) => r.state[IDLE] = "READY"
  PROVE  ReadyIs(r, f)
BY ListSame DEF ReadyIs

(* What the walks of the kernel find on the lists.                         *)
LEMMA Found ==
  ASSUME NEW k, NEW f, NEW g, NEW b, NEW d, Lists(k, f, g, b, d)
  PROVE  /\ Members(k.next, k.que["head"]) = On(f) /\ ~Endless(k.next, k.que["head"])
         /\ LastOf(k.next, k.que["head"]) = k.tail
         /\ Members(k.next, k.headsleeper) = On(g) /\ ~Endless(k.next, k.headsleeper)
         /\ Members(k.next, k.que["blocked_q"]) = On(b) /\ ~Endless(k.next, k.que["blocked_q"])
         /\ Members(k.next, k.que["dead_q"]) = On(d) /\ ~Endless(k.next, k.que["dead_q"])
<1>1. List(k.next, k.que["head"], f) /\ k.tail = IF Len(f) = 0 THEN NULL ELSE Last(f)
  BY DEF Lists, ReadyIs
<1>2. List(k.next, k.headsleeper, g) /\ List(k.next, k.que["blocked_q"], b)
      /\ List(k.next, k.que["dead_q"], d)
  BY DEF Lists, SleepersAre, WaitersAre, DeadAre
<1> QED BY <1>1, <1>2, ListIs

(* A pcb with a pid is aligned.                                            *)
LEMMA SoundAligned ==
  ASSUME NEW k \in KernelType, NEW X, Facts(k, X), NEW p \in Slots
  PROVE  Aligned(k, p) /\ (k.pid[p] = IDLE => p = IDLE)
<1>1. k.pid[p] \in Nat
  BY PidIsNat
<1>2. CASE k.pid[p] = 0
  <2>1. Slot(0) = 0 /\ IDLE # 0
    BY SlotOfSlot, Constants DEF Slots, Pcbs
  <2> QED BY <1>2, <2>1 DEF Facts, Aligned
<1>3. CASE k.pid[p] # 0
  <2>1. Slot(k.pid[p]) = p
    BY <1>1, <1>3 DEF Facts
  <2>2. Slot(IDLE) = IDLE
    BY SlotOfSlot, Constants
  <2> QED BY <2>1, <2>2 DEF Aligned
<1> QED BY <1>2, <1>3

(* ready() puts a pcb that is on no list at the end of the ready queue,    *)
(* and idleproc on none.                                                   *)
LEMMA readyIs ==
  ASSUME NEW k \in KernelType, NEW X, Facts(k, X), NEW p \in Pcbs, k.tail \in Ptr
  PROVE  LET r == ready(k, p)
         IN  /\ r = IF p = IDLE THEN [k EXCEPT !.next[p] = NULL, !.state[p] = "READY"]
                    ELSE IF k.tail # NULL
                    THEN [k EXCEPT !.next[p] = NULL, !.state[p] = "READY", !.next[k.tail] = p, !.tail = p]
                    ELSE [k EXCEPT !.next[p] = NULL, !.state[p] = "READY", !.que["head"] = p, !.tail = p]
<1>1. Aligned(k, p) /\ (k.pid[p] = IDLE <=> p = IDLE) /\ p # 0
  BY SoundAligned, Constants DEF Facts, Pcbs
<1> QED BY <1>1 DEF ready

(* The fields of the pcb's after ready().                                  *)
LEMMA ready_Fields ==
  ASSUME NEW k \in KernelType, NEW X, Facts(k, X), NEW p \in Pcbs, k.tail # p
  PROVE  LET r == ready(k, p)
         IN  /\ r \in KernelType
             /\ r.fault = k.fault /\ r.pid = k.pid /\ r.call = k.call /\ r.ret = k.ret
             /\ r.arg = k.arg /\ r.buf = k.buf /\ r.msg = k.msg
             /\ r.headsleeper = k.headsleeper /\ r.sleepticks = k.sleepticks
             /\ r.que["running"] = k.que["running"]
             /\ r.que["blocked_q"] = k.que["blocked_q"] /\ r.que["dead_q"] = k.que["dead_q"]
             /\ r.state = [k.state EXCEPT ![p] = "READY"]
             /\ r.next[p] = NULL
             /\ \A s \in Slots : s # p /\ (s # k.tail \/ p = IDLE) => r.next[s] = k.next[s]
             /\ p = IDLE => r.que["head"] = k.que["head"] /\ r.tail = k.tail
             /\ p # IDLE => /\ r.tail = p
                            /\ k.tail # NULL => r.que["head"] = k.que["head"] /\ r.next[k.tail] = p
                            /\ k.tail = NULL => r.que["head"] = p
<1> DEFINE r == ready(k, p)
<1>1. k.tail \in Ptr /\ (k.tail = NULL \/ k.tail \in Slots) /\ p \in Slots /\ NULL \notin Slots
  BY Constants DEF KernelType, Ptr
<1>2. r = IF p = IDLE THEN [k EXCEPT !.next[p] = NULL, !.state[p] = "READY"]
          ELSE IF k.tail # NULL
          THEN [k EXCEPT !.next[p] = NULL, !.state[p] = "READY", !.next[k.tail] = p, !.tail = p]
          ELSE [k EXCEPT !.next[p] = NULL, !.state[p] = "READY", !.que["head"] = p, !.tail = p]
  BY <1>1, readyIs
<1>3. r \in KernelType
  BY <1>1, ready_Keeps
<1> HIDE DEF r
<1>4. CASE p = IDLE
  <2>1. r = [k EXCEPT !.next[p] = NULL, !.state[p] = "READY"]
    BY <1>2, <1>4
  <2> QED BY <1>1, <1>3, <1>4, <2>1 DEF KernelType, r
<1>5. CASE p # IDLE /\ k.tail # NULL
  <2>1. r = [k EXCEPT !.next[p] = NULL, !.state[p] = "READY", !.next[k.tail] = p, !.tail = p]
    BY <1>2, <1>5
  <2> QED BY <1>1, <1>3, <1>5, <2>1 DEF KernelType, r
<1>6. CASE p # IDLE /\ k.tail = NULL
  <2>1. r = [k EXCEPT !.next[p] = NULL, !.state[p] = "READY", !.que["head"] = p, !.tail = p]
    BY <1>2, <1>6
  <2> QED BY <1>1, <1>3, <1>6, <2>1 DEF KernelType, QNames, r
<1> QED BY <1>4, <1>5, <1>6

(* The lists are still sound, and the pcb is no longer an exception among  *)
(* the blocked.                                                            *)
LEMMA ready_Sound ==
  ASSUME NEW k, NEW X, Sound(k, X), NEW p, Loose(k, p)
  PROVE  LET r == ready(k, p)
         IN  /\ Sound(r, X \ {p})
             /\ r.que["running"] = k.que["running"] /\ r.pid = k.pid
             /\ r.state = [k.state EXCEPT ![p] = "READY"]
<1> DEFINE r == ready(k, p)
<1>1. k \in KernelType /\ Facts(k, X) /\ p \in Pcbs /\ p \in Slots /\ IDLE \in Pcbs
  BY Constants DEF Sound, Loose
<1>2. PICK f, g, b, d : Lists(k, f, g, b, d)
  BY DEF Sound
<1>3. /\ \A s \in On(f) : s \in Pcbs /\ k.state[s] = "READY" /\ s \notin On(g) \cup On(b) \cup On(d)
      /\ \A s \in On(g) : s \in Pcbs /\ k.state[s] = "SLEEP" /\ s \notin On(f) \cup On(b) \cup On(d)
      /\ \A s \in On(b) : s \in Pcbs /\ k.state[s] = "BLOCKED" /\ s \notin On(f) \cup On(g) \cup On(d)
      /\ \A s \in On(d) : s \in Pcbs /\ k.state[s] = "STOPPED" /\ s \notin On(f) \cup On(g) \cup On(b)
  BY <1>1, <1>2, Disjoint
<1>4. p \notin On(f) \cup On(g) \cup On(b) \cup On(d)
  BY <1>2, <1>3, Found DEF Loose
<1>5. k.tail = (IF Len(f) = 0 THEN NULL ELSE Last(f)) /\ (Len(f) # 0 => Last(f) \in On(f))
      /\ List(k.next, k.que["head"], f)
  BY <1>2, ListFacts DEF Lists, ReadyIs
<1>6. k.tail # p
  BY <1>1, <1>4, <1>5, Constants
<1>7. /\ r \in KernelType
      /\ r.fault = k.fault /\ r.pid = k.pid /\ r.call = k.call /\ r.ret = k.ret
      /\ r.headsleeper = k.headsleeper
      /\ r.que["running"] = k.que["running"]
      /\ r.que["blocked_q"] = k.que["blocked_q"] /\ r.que["dead_q"] = k.que["dead_q"]
      /\ r.state = [k.state EXCEPT ![p] = "READY"]
      /\ r.next[p] = NULL
  BY <1>1, <1>6, ready_Fields
<1>8. /\ \A s \in Slots : s # p /\ (s # k.tail \/ p = IDLE) => r.next[s] = k.next[s]
      /\ p = IDLE => r.que["head"] = k.que["head"] /\ r.tail = k.tail
      /\ p # IDLE => /\ r.tail = p
                     /\ k.tail # NULL => r.que["head"] = k.que["head"] /\ r.next[k.tail] = p
                     /\ k.tail = NULL => r.que["head"] = p
  BY <1>1, <1>6, ready_Fields
<1>9. k.state \in [Slots -> States] /\ Pcbs \subseteq Slots /\ NULL \notin Slots
  BY <1>1, Constants DEF KernelType
<1> HIDE DEF r
<1>10. /\ r.state[p] = "READY"
       /\ \A s \in Slots : s # p => r.state[s] = k.state[s]
  BY <1>1, <1>7, <1>9
<1>11. \A s \in Pcbs : s \notin On(f) /\ s # p => r.next[s] = k.next[s]
  BY <1>5, <1>8, <1>9
<1>12. SleepersAre(r, g)
  <2>1. \A s \in Pcbs : r.state[s] = "SLEEP" <=> k.state[s] = "SLEEP"
    BY <1>9, <1>10 DEF Loose
  <2>2. SleepersAre(k, g) /\ \A s \in On(g) : r.next[s] = k.next[s]
    BY <1>2, <1>3, <1>4, <1>11 DEF Lists
  <2>3. r.headsleeper = k.headsleeper
    BY <1>7
  <2> QED BY <2>1, <2>2, <2>3, SleepersKeep
<1>13. WaitersAre(r, b)
  BY <1>2, <1>3, <1>4, <1>7, <1>9, <1>10, <1>11, WaitersKeep DEF Lists
<1>14. DeadAre(r, d)
  BY <1>2, <1>3, <1>4, <1>7, <1>9, <1>10, <1>11, DeadKeep DEF Lists
<1>15. \E e : ReadyIs(r, e)
  <2>1. CASE p = IDLE
    <3>1. ReadyIs(r, f)
      BY <1>2, <1>3, <1>4, <1>8, <1>9, <1>10, <2>1, ReadyKeeps DEF Lists
    <3> QED BY <3>1
  <2>2. CASE p # IDLE
    <3> DEFINE e == Append(f, p)
    <3>1. /\ List(r.next, IF Len(f) = 0 THEN p ELSE k.que["head"], e)
          /\ On(e) = On(f) \cup {p} /\ Last(e) = p /\ Len(e) = Len(f) + 1
      <4>1. Len(f) # 0 => r.next[Last(f)] = p
        BY <1>3, <1>5, <1>8, <1>9, <2>2
      <4>2. \A s \in On(f) : s # Last(f) => r.next[s] = k.next[s]
        <5>1. \A s \in On(f) : s # Last(f) => s # k.tail
          BY <1>3, <1>5, <1>9
        <5> QED BY <1>3, <1>4, <1>8, <1>9, <5>1
      <4>3. List(k.next, k.que["head"], f) /\ p \notin On(f) /\ r.next[p] = NULL
        BY <1>4, <1>5, <1>7
      <4> QED BY <1>1, <4>1, <4>2, <4>3, ListAppend
    <3>2. Len(f) \in Nat
      BY <1>5, ListFacts
    <3> HIDE DEF e
    <3>3. r.que["head"] = IF Len(f) = 0 THEN p ELSE k.que["head"]
      BY <1>3, <1>5, <1>8, <1>9, <2>2
    <3>4. r.tail = IF Len(e) = 0 THEN NULL ELSE Last(e)
      BY <1>8, <2>2, <3>1, <3>2
    <3>5. \A s \in Pcbs \ {IDLE} : s \in On(e) <=> r.state[s] = "READY"
      BY <1>2, <1>9, <1>10, <3>1 DEF Lists, ReadyIs
    <3>6. IDLE \in On(e) => r.state[IDLE] = "READY"
      BY <1>1, <1>3, <1>9, <1>10, <2>2, <3>1
    <3>7. ReadyIs(r, e)
      BY <3>1, <3>3, <3>4, <3>5, <3>6 DEF ReadyIs
    <3> QED BY <3>7
  <2> QED BY <2>1, <2>2
<1>16. Facts(r, X \ {p})
  <2>1. \A s \in Slots : r.pid[s] = 0 => r.state[s] = "STOPPED"
    BY <1>1, <1>7, <1>10 DEF Facts, Loose
  <2>2. r.state[0] = "STOPPED" /\ r.state[IDLE] \in {"READY", "RUNNING"}
    <3>1. 0 \in Slots /\ 0 # p /\ IDLE \in Slots
      BY <1>1, Constants DEF Slots, Pcbs
    <3> QED BY <1>1, <1>10, <3>1 DEF Facts
  <2>3. \A s \in Slots \ (X \ {p}) : r.state[s] = "BLOCKED" => InCall(r, s)
    BY <1>1, <1>7, <1>10 DEF Facts, InCall
  <2> QED BY <1>1, <1>7, <2>1, <2>2, <2>3 DEF Facts
<1> QED BY <1>7, <1>12, <1>13, <1>14, <1>15, <1>16 DEF Sound, Lists, r

(* The only links that it changes are those of the pcb and of the ready    *)
(* queue.                                                                  *)
LEMMA ready_Links ==
  ASSUME NEW k, NEW X, Sound(k, X), NEW p, Loose(k, p)
  PROVE  \A s \in Slots : s # p /\ k.state[s] # "READY" => ready(k, p).next[s] = k.next[s]
<1>1. k \in KernelType /\ Facts(k, X) /\ p \in Pcbs /\ IDLE \in Pcbs /\ NULL \notin Slots
  BY Constants DEF Sound, Loose
<1>2. PICK f, g, b, d : Lists(k, f, g, b, d)
  BY DEF Sound
<1>3. k.tail = NULL \/ k.tail \in On(f)
  BY <1>2, ListFacts DEF Lists, ReadyIs
<1>4. k.tail = NULL \/ k.state[k.tail] = "READY"
  BY <1>1, <1>2, <1>3, Disjoint
<1>5. k.tail # p
  <2>1. NULL \notin Pcbs /\ k.state[p] # "READY"
    BY Constants DEF Loose
  <2> QED BY <1>1, <1>4, <2>1
<1>6. \A s \in Slots : s # p /\ (s # k.tail \/ p = IDLE) => ready(k, p).next[s] = k.next[s]
  BY <1>1, <1>5, ready_Fields
<1> QED BY <1>1, <1>4, <1>6

-----------------------------------------------------------------------------
(* The head of the ready queue leaves it: the fields of the pcb's.         *)
LEMMA Pop_Fields ==
  ASSUME NEW k \in KernelType, k.que["head"] \in Pcbs
  PROVE  LET r == Pop(k)
             h == k.que["head"]
         IN  /\ r \in KernelType
             /\ r.fault = k.fault /\ r.pid = k.pid /\ r.call = k.call /\ r.ret = k.ret
             /\ r.headsleeper = k.headsleeper /\ r.state = k.state
             /\ r.que["running"] = k.que["running"]
             /\ r.que["blocked_q"] = k.que["blocked_q"] /\ r.que["dead_q"] = k.que["dead_q"]
             /\ r.que["head"] = k.next[h]
             /\ r.tail = IF k.next[h] = NULL THEN NULL ELSE k.tail
             /\ r.next = [k.next EXCEPT ![h] = NULL]
<1>1. Pop(k) \in KernelType
  BY Pop_Keeps
<1> QED BY <1>1 DEF Pop, KernelType, QNames

(* It is the first ready process; the lists are those it leaves.           *)
LEMMA Pop_Lists ==
  ASSUME NEW k, NEW X, Sound(k, X), k.que["head"] # NULL
  PROVE  LET r == Pop(k)
             h == k.que["head"]
         IN  /\ h \in Pcbs /\ k.state[h] = "READY"
             /\ \E f : /\ List(r.next, r.que["head"], f)
                       /\ h \notin On(f)
                       /\ \A s \in Pcbs \ {IDLE, h} : s \in On(f) <=> k.state[s] = "READY"
                       /\ IDLE \in On(f) => k.state[IDLE] = "READY"
                       /\ r.tail = IF Len(f) = 0 THEN NULL ELSE Last(f)
             /\ (\E g : SleepersAre(r, g)) /\ (\E b : WaitersAre(r, b)) /\ (\E d : DeadAre(r, d))
<1> DEFINE r == Pop(k)
           h == k.que["head"]
<1>1. k \in KernelType /\ IDLE \in Pcbs /\ k.next \in [Slots -> Ptr] /\ Pcbs \subseteq Slots
      /\ NULL \notin Pcbs
  BY Constants DEF Sound, KernelType
<1>2. PICK f, g, b, d : Lists(k, f, g, b, d)
  BY DEF Sound
<1>3. /\ \A s \in On(f) : s \in Pcbs /\ k.state[s] = "READY" /\ s \notin On(g) \cup On(b) \cup On(d)
      /\ \A s \in On(g) : s \in Pcbs /\ k.state[s] = "SLEEP" /\ s \notin On(f) \cup On(b) \cup On(d)
      /\ \A s \in On(b) : s \in Pcbs /\ k.state[s] = "BLOCKED" /\ s \notin On(f) \cup On(g) \cup On(d)
      /\ \A s \in On(d) : s \in Pcbs /\ k.state[s] = "STOPPED" /\ s \notin On(f) \cup On(g) \cup On(b)
  BY <1>1, <1>2, Disjoint
<1>4. List(k.next, h, f) /\ k.tail = (IF Len(f) = 0 THEN NULL ELSE Last(f))
      /\ \A s \in Pcbs \ {IDLE} : s \in On(f) <=> k.state[s] = "READY"
  BY <1>2 DEF Lists, ReadyIs
<1>5. Len(f) # 0 /\ h \in On(f)
  BY <1>4, ListFacts
<1>6. h \in Pcbs /\ k.state[h] = "READY"
  BY <1>3, <1>5
<1>7. /\ r.headsleeper = k.headsleeper /\ r.state = k.state /\ r.pid = k.pid
      /\ r.que["blocked_q"] = k.que["blocked_q"] /\ r.que["dead_q"] = k.que["dead_q"]
      /\ r.que["head"] = k.next[h]
      /\ r.tail = IF k.next[h] = NULL THEN NULL ELSE k.tail
      /\ r.next = [k.next EXCEPT ![h] = NULL]
  BY <1>1, <1>6, Pop_Fields
<1> HIDE DEF r
<1>8. \A s \in Pcbs : s # h => r.next[s] = k.next[s]
  BY <1>1, <1>7
<1>9. SleepersAre(r, g)
  <2>1. SleepersAre(k, g) /\ \A s \in On(g) : r.next[s] = k.next[s]
    BY <1>2, <1>3, <1>5, <1>8 DEF Lists
  <2>2. r.headsleeper = k.headsleeper /\ \A s \in Pcbs : r.state[s] = "SLEEP" <=> k.state[s] = "SLEEP"
    BY <1>7
  <2> QED BY <2>1, <2>2, SleepersKeep
<1>10. WaitersAre(r, b)
  BY <1>2, <1>3, <1>5, <1>7, <1>8, WaitersKeep DEF Lists
<1>11. DeadAre(r, d)
  BY <1>2, <1>3, <1>5, <1>7, <1>8, DeadKeep DEF Lists
<1>12. List(k.next, k.next[h], Tail(f)) /\ On(Tail(f)) = On(f) \ {h}
  BY <1>4, <1>5, ListPop
<1>13. List(r.next, k.next[h], Tail(f))
  BY <1>3, <1>8, <1>12, ListSame
<1>14. r.tail = IF Len(Tail(f)) = 0 THEN NULL ELSE Last(Tail(f))
  <2>1. k.next[h] = NULL <=> Len(Tail(f)) = 0
    BY <1>12, ListFacts
  <2>2. Len(Tail(f)) # 0 => Last(Tail(f)) = Last(f)
    <3>1. f \in Seq(Pcbs) /\ f # <<>>
      BY <1>4, <1>5 DEF List
    <3>2. Len(Tail(f)) = Len(f) - 1 /\ Len(f) \in Nat
      BY <3>1
    <3>3. Len(Tail(f)) # 0 => Tail(f)[Len(f) - 1] = f[(Len(f) - 1) + 1] /\ (Len(f) - 1) + 1 = Len(f)
      BY <3>1, <3>2
    <3> QED BY <3>2, <3>3 DEF Last
  <2> QED BY <1>4, <1>5, <1>7, <2>1, <2>2
<1> DEFINE e == Tail(f)
<1> HIDE DEF e
<1>15. /\ List(r.next, r.que["head"], e)
       /\ h \notin On(e)
       /\ \A s \in Pcbs \ {IDLE, h} : s \in On(e) <=> k.state[s] = "READY"
       /\ IDLE \in On(e) => k.state[IDLE] = "READY"
       /\ r.tail = IF Len(e) = 0 THEN NULL ELSE Last(e)
  BY <1>3, <1>4, <1>7, <1>12, <1>13, <1>14 DEF e
<1> QED BY <1>6, <1>9, <1>10, <1>11, <1>15 DEF r

(* The process gets the CPU: the fields of the pcb's.                      *)
LEMMA Run_Fields ==
  ASSUME NEW k \in KernelType, NEW p \in Pcbs
  PROVE  LET r == Run(k, p)
         IN  /\ r \in KernelType
             /\ r.fault = k.fault /\ r.pid = k.pid /\ r.ret = k.ret
             /\ r.call = [k.call EXCEPT ![p] = "none"]
             /\ r.headsleeper = k.headsleeper
             /\ r.state = [k.state EXCEPT ![p] = "RUNNING"]
             /\ r.que["running"] = p /\ r.que["head"] = k.que["head"]
             /\ r.que["blocked_q"] = k.que["blocked_q"] /\ r.que["dead_q"] = k.que["dead_q"]
             /\ r.tail = k.tail /\ r.next = k.next
<1>1. Run(k, p) \in KernelType
  BY Run_Gives
<1> QED BY <1>1 DEF Run, KernelType, QNames

(* The kernel when a request has been served: one process has the CPU, and *)
(* its link is empty, as sleep() asserts; idleproc never calls it.         *)
Handed(r) ==
  /\ Sound(r, {}) /\ OneRuns(r)
  /\ r.que["running"] # IDLE => r.next[r.que["running"]] = NULL

(* A ready process that has been taken off the ready queue gets the CPU.   *)
LEMMA RunHands ==
  ASSUME NEW k \in KernelType, Facts(k, {}), Runners(k) = {},
         NEW p \in Pcbs, k.state[p] = "READY", p = IDLE \/ k.next[p] = NULL,
         NEW f, List(k.next, k.que["head"], f), p \notin On(f),
         \A s \in Pcbs \ {IDLE, p} : s \in On(f) <=> k.state[s] = "READY",
         IDLE \in On(f) => k.state[IDLE] = "READY",
         k.tail = IF Len(f) = 0 THEN NULL ELSE Last(f),
         NEW g, SleepersAre(k, g), NEW b, WaitersAre(k, b), NEW d, DeadAre(k, d)
  PROVE  Handed(Run(k, p))
<1> DEFINE r == Run(k, p)
<1>1. /\ r \in KernelType
      /\ r.fault = k.fault /\ r.pid = k.pid /\ r.ret = k.ret
      /\ r.call = [k.call EXCEPT ![p] = "none"]
      /\ r.headsleeper = k.headsleeper
      /\ r.state = [k.state EXCEPT ![p] = "RUNNING"]
      /\ r.que["running"] = p /\ r.que["head"] = k.que["head"]
      /\ r.que["blocked_q"] = k.que["blocked_q"] /\ r.que["dead_q"] = k.que["dead_q"]
      /\ r.tail = k.tail /\ r.next = k.next
  BY Run_Fields
<1>2. OneRuns(r)
  BY Run_Gives
<1>3. k.state \in [Slots -> States] /\ k.call \in [Slots -> {"none", "send", "recv"}]
      /\ p \in Slots /\ Pcbs \subseteq Slots /\ IDLE \in Pcbs /\ IDLE \in Slots /\ 0 \notin Pcbs /\ 0 \in Slots
  <2>1. k.state \in [Slots -> States] /\ k.call \in [Slots -> {"none", "send", "recv"}]
    BY DEF KernelType
  <2>2. 0 \in Slots /\ 0 \notin Pcbs
    BY Constants DEF Slots, Pcbs
  <2> QED BY <2>1, <2>2, Constants
<1> HIDE DEF r
<1>4. r.state[p] = "RUNNING" /\ \A s \in Slots : s # p => r.state[s] = k.state[s] /\ r.call[s] = k.call[s]
  BY <1>1, <1>3
<1>5. Facts(r, {})
  <2>1. \A s \in Slots : r.pid[s] = 0 => r.state[s] = "STOPPED"
    BY <1>1, <1>3, <1>4 DEF Facts
  <2>2. r.state[0] = "STOPPED" /\ r.state[IDLE] \in {"READY", "RUNNING"}
    BY <1>3, <1>4 DEF Facts
  <2>3. \A s \in Slots \ {} : r.state[s] = "BLOCKED" => InCall(r, s)
    BY <1>1, <1>3, <1>4 DEF Facts, InCall
  <2>4. r.que["running"] \in Pcbs
    BY <1>1
  <2> QED BY <1>1, <2>1, <2>2, <2>3, <2>4 DEF Facts
<1>6. SleepersAre(r, g)
  <2>1. \A s \in Pcbs : r.state[s] = "SLEEP" <=> k.state[s] = "SLEEP"
    BY <1>3, <1>4
  <2>2. r.headsleeper = k.headsleeper /\ \A s \in On(g) : r.next[s] = k.next[s]
    BY <1>1
  <2> QED BY <2>1, <2>2, SleepersKeep
<1>7. WaitersAre(r, b)
  <2>1. \A s \in On(b) : s \in Slots /\ s # p
    BY <1>3, ListFacts DEF WaitersAre
  <2>2. \A s \in On(b) : r.next[s] = k.next[s] /\ r.state[s] = k.state[s]
    BY <1>1, <1>4, <2>1
  <2>3. r.que["blocked_q"] = k.que["blocked_q"]
    BY <1>1
  <2> QED BY <2>2, <2>3, WaitersKeep
<1>8. DeadAre(r, d)
  <2>1. \A s \in On(d) : s \in Slots /\ s # p
    BY <1>3, ListFacts DEF DeadAre
  <2>2. \A s \in On(d) : r.next[s] = k.next[s] /\ r.state[s] = k.state[s] /\ r.pid[s] = k.pid[s]
    BY <1>1, <1>4, <2>1
  <2>3. r.que["dead_q"] = k.que["dead_q"]
    BY <1>1
  <2> QED BY <2>2, <2>3, DeadKeep
<1>9. ReadyIs(r, f)
  <2>1. List(r.next, r.que["head"], f) /\ r.tail = IF Len(f) = 0 THEN NULL ELSE Last(f)
    BY <1>1
  <2>2. \A s \in Pcbs \ {IDLE} : s \in On(f) <=> r.state[s] = "READY"
    BY <1>3, <1>4
  <2>3. IDLE \in On(f) => r.state[IDLE] = "READY"
    BY <1>3, <1>4
  <2> QED BY <2>1, <2>2, <2>3 DEF ReadyIs
<1>10. Sound(r, {})
  BY <1>1, <1>5, <1>6, <1>7, <1>8, <1>9 DEF Sound, Lists
<1> QED BY <1>1, <1>2, <1>10 DEF Handed, r

(* Taking the head off the queue changes none of the other facts.          *)
LEMMA Pop_Facts ==
  ASSUME NEW k, NEW X, Sound(k, X), k.que["head"] # NULL
  PROVE  Pop(k) \in KernelType /\ Facts(Pop(k), X) /\ Runners(Pop(k)) = Runners(k)
<1>1. k \in KernelType /\ Facts(k, X) /\ k.que["head"] \in Pcbs
  BY Pop_Lists DEF Sound
<1> DEFINE r == Pop(k)
<1>2. /\ r \in KernelType
      /\ r.fault = k.fault /\ r.pid = k.pid /\ r.call = k.call /\ r.ret = k.ret
      /\ r.state = k.state /\ r.que["running"] = k.que["running"]
  BY <1>1, Pop_Fields
<1> HIDE DEF r
<1>3. Facts(r, X) /\ Runners(r) = Runners(k)
  BY <1>1, <1>2 DEF Facts, InCall, Runners
<1> QED BY <1>2, <1>3 DEF r

(* The first process of the ready queue gets the CPU.                      *)
LEMMA PopRunHands ==
  ASSUME NEW k, Sound(k, {}), k.que["head"] # NULL, Runners(k) = {}
  PROVE  Handed(Run(Pop(k), k.que["head"]))
<1> DEFINE r == Pop(k)
           h == k.que["head"]
<1>1. h \in Pcbs /\ k.state[h] = "READY" /\ k \in KernelType
  BY Pop_Lists DEF Sound
<1>2. PICK f : /\ List(r.next, r.que["head"], f)
               /\ h \notin On(f)
               /\ \A s \in Pcbs \ {IDLE, h} : s \in On(f) <=> k.state[s] = "READY"
               /\ IDLE \in On(f) => k.state[IDLE] = "READY"
               /\ r.tail = IF Len(f) = 0 THEN NULL ELSE Last(f)
  BY Pop_Lists
<1>3. PICK g, b, d : SleepersAre(r, g) /\ WaitersAre(r, b) /\ DeadAre(r, d)
  BY Pop_Lists
<1>4. r.state = k.state /\ r.next[h] = NULL
  <2>1. r.state = k.state /\ r.next = [k.next EXCEPT ![h] = NULL]
    BY <1>1, Pop_Fields
  <2> QED BY <1>1, <2>1, Constants DEF KernelType
<1>5. r \in KernelType /\ Facts(r, {}) /\ Runners(r) = {}
  BY Pop_Facts
<1> HIDE DEF r, h
<1>6. /\ r.state[h] = "READY" /\ (h = IDLE \/ r.next[h] = NULL)
      /\ \A s \in Pcbs \ {IDLE, h} : s \in On(f) <=> r.state[s] = "READY"
      /\ IDLE \in On(f) => r.state[IDLE] = "READY"
  BY <1>1, <1>2, <1>4
<1>7. Handed(Run(r, h))
  BY <1>1, <1>2, <1>3, <1>5, <1>6, RunHands
<1> QED BY <1>7 DEF r, h

(* idleproc is taken off the ready queue and is ready still.               *)
LEMMA PopIdleSound ==
  ASSUME NEW k, Sound(k, {}), k.que["head"] = IDLE
  PROVE  Sound(Pop(k), {})
<1> DEFINE r == Pop(k)
<1>1. IDLE \in Pcbs /\ IDLE # NULL /\ k \in KernelType
  BY Constants DEF Sound
<1>2. PICK f : /\ List(r.next, r.que["head"], f)
               /\ IDLE \notin On(f)
               /\ \A s \in Pcbs \ {IDLE, IDLE} : s \in On(f) <=> k.state[s] = "READY"
               /\ r.tail = IF Len(f) = 0 THEN NULL ELSE Last(f)
  BY <1>1, Pop_Lists
<1>3. (\E g : SleepersAre(r, g)) /\ (\E b : WaitersAre(r, b)) /\ (\E d : DeadAre(r, d))
  BY <1>1, Pop_Lists
<1>4. r.state = k.state
  BY <1>1, Pop_Fields
<1>5. r \in KernelType /\ Facts(r, {})
  BY <1>1, Pop_Facts
<1> HIDE DEF r
<1>6. ReadyIs(r, f)
  BY <1>2, <1>4 DEF ReadyIs
<1> QED BY <1>3, <1>5, <1>6 DEF Sound, Lists, r

(* next() finds the lists as they should be, and leaves them so.           *)
LEMMA DispatchHands ==
  ASSUME NEW k, Sound(k, {}), Runners(k) = {}
  PROVE  Handed(Dispatch(k))
<1> DEFINE h == k.que["head"]
           q == k.que["running"]
<1>1. k \in KernelType /\ Facts(k, {}) /\ IDLE \in Pcbs /\ IDLE \in Slots /\ NULL \notin Slots
      /\ Pcbs \subseteq Slots /\ q \in Pcbs
  BY Constants DEF Sound, Facts
<1>2. k.state[IDLE] = "READY"
  BY <1>1 DEF Facts, Runners
<1>3. CASE h = NULL
  <2>1. PICK f, g, b, d : Lists(k, f, g, b, d)
    BY DEF Sound
  <2>2. On(f) = {} /\ List(k.next, h, f)
    BY <1>3, <2>1, ListFacts DEF Lists, ReadyIs
  <2>3. IDLE \notin On(f) /\ \A s \in Pcbs \ {IDLE, IDLE} : s \in On(f) <=> k.state[s] = "READY"
    BY <2>1, <2>2 DEF Lists, ReadyIs
  <2>4. k.tail = (IF Len(f) = 0 THEN NULL ELSE Last(f)) /\ SleepersAre(k, g) /\ WaitersAre(k, b)
        /\ DeadAre(k, d) /\ (IDLE \in On(f) => k.state[IDLE] = "READY")
    BY <2>1 DEF Lists, ReadyIs
  <2>5. Handed(Run(k, IDLE))
    BY <1>1, <1>2, <2>2, <2>3, <2>4, RunHands
  <2> QED BY <1>3, <2>5 DEF Dispatch
<1>4. CASE h # NULL
  <2>1. h \in Pcbs /\ k.state[h] = "READY" /\ Aligned(k, h) /\ (k.pid[h] = IDLE => h = IDLE)
        /\ (k.pid[q] = IDLE => q = IDLE) /\ k.pid[IDLE] = IDLE
    BY <1>1, <1>4, Pop_Lists, SoundAligned DEF Facts
  <2>2. Handed(Run(Pop(k), h))
    BY <1>4, PopRunHands
  <2>3. CASE h = IDLE
    <3> DEFINE r == Pop(k)
               s == r.que["head"]
    <3>1. Dispatch(k) = IF s = NULL THEN Run(r, h) ELSE Run(Pop(r), s)
      BY <1>4, <2>1, <2>3 DEF Dispatch
    <3>2. Sound(r, {}) /\ Runners(r) = {}
      BY <1>4, <2>3, PopIdleSound, Pop_Facts
    <3>3. s # NULL => Handed(Run(Pop(r), s))
      BY <3>2, PopRunHands
    <3> QED BY <2>2, <3>1, <3>3
  <2>4. CASE h # IDLE
    <3>1. Dispatch(k) = IF k.pid[q] = IDLE THEN Run([Pop(k) EXCEPT !.state[q] = "READY"], h)
                        ELSE Run(Pop(k), h)
      BY <1>4, <2>1, <2>4 DEF Dispatch
    <3>2. q = IDLE => [Pop(k) EXCEPT !.state[q] = "READY"] = Pop(k)
      <4>1. Pop(k) \in KernelType /\ Pop(k).state = k.state
        BY <1>1, <2>1, Pop_Fields
      <4>2. Pop(k).state[IDLE] = "READY"
        BY <1>2, <4>1
      <4> DEFINE r == Pop(k)
      <4> HIDE DEF r
      <4>3. r \in KernelType /\ r.state[IDLE] = "READY" => [r EXCEPT !.state[IDLE] = "READY"] = r
        <5> HAVE r \in KernelType /\ r.state[IDLE] = "READY"
        <5>1. [r.state EXCEPT ![IDLE] = "READY"] = r.state
          BY DEF KernelType
        <5>2. [r EXCEPT !.state[IDLE] = "READY"] = [r EXCEPT !.state = [r.state EXCEPT ![IDLE] = "READY"]]
          OBVIOUS
        <5>3. [r EXCEPT !.state = r.state] = r
          BY DEF KernelType
        <5> QED BY <5>1, <5>2, <5>3
      <4> QED BY <4>1, <4>2, <4>3 DEF r
    <3> QED BY <2>1, <2>2, <3>1, <3>2
  <2> QED BY <2>3, <2>4
<1> QED BY <1>3, <1>4

-----------------------------------------------------------------------------
(* What is not about the lists may change.                                 *)
LEMMA SameLists ==
  ASSUME NEW k, NEW X, Sound(k, X), NEW r \in KernelType, NEW Y,
         r.fault = k.fault, r.state = k.state, r.pid = k.pid, r.que = k.que, r.next = k.next,
         r.tail = k.tail, r.headsleeper = k.headsleeper,
         \A s \in Slots \ Y : k.state[s] = "BLOCKED" => InCall(r, s)
  PROVE  Sound(r, Y)
<1>1. Facts(r, Y)
  BY DEF Facts, Sound
<1>2. PICK f, g, b, d : Lists(k, f, g, b, d)
  BY DEF Sound
<1>3. Lists(r, f, g, b, d)
  BY <1>2 DEF Lists, ReadyIs, SleepersAre, WaitersAre, DeadAre
<1> QED BY <1>1, <1>3 DEF Sound

(* A running process is on no list.                                        *)
LEMMA RunnerIsLoose ==
  ASSUME NEW k, NEW X, Sound(k, X), NEW p \in Slots, k.state[p] = "RUNNING"
  PROVE  Loose(k, p)
<1>1. PICK f, g, b, d : Lists(k, f, g, b, d)
  BY DEF Sound
<1>2. IDLE \in Pcbs /\ p \in Pcbs /\ k.pid[p] # 0
  BY Constants DEF Sound, Facts, Pcbs
<1>3. (\A s \in On(b) : k.state[s] = "BLOCKED") /\ (\A s \in On(d) : k.state[s] = "STOPPED")
  BY <1>1, <1>2, Disjoint
<1>4. Members(k.next, k.que["blocked_q"]) = On(b) /\ Members(k.next, k.que["dead_q"]) = On(d)
  BY <1>1, Found
<1> QED BY <1>2, <1>3, <1>4 DEF Loose

(* A result in ret: of a process that is not blocked, or that is about to  *)
(* be made ready.                                                          *)
LEMMA SetRetSound ==
  ASSUME NEW k, NEW X, Sound(k, X), NEW p \in Slots, NEW n \in Int
  PROVE  /\ Sound([k EXCEPT !.ret[p] = n], X \cup {p})
         /\ k.state[p] # "BLOCKED" => Sound([k EXCEPT !.ret[p] = n], X)
<1> DEFINE r == [k EXCEPT !.ret[p] = n]
<1>1. k \in KernelType /\ r \in KernelType
  BY SetRet DEF Sound
<1>2. /\ r.fault = k.fault /\ r.state = k.state /\ r.pid = k.pid /\ r.que = k.que /\ r.next = k.next
      /\ r.tail = k.tail /\ r.headsleeper = k.headsleeper
      /\ \A s \in Slots : s # p => r.ret[s] = k.ret[s] /\ r.call[s] = k.call[s]
  BY <1>1 DEF KernelType
<1> HIDE DEF r
<1>3. \A s \in Slots \ X : s # p /\ k.state[s] = "BLOCKED" => InCall(r, s)
  BY <1>2 DEF Sound, Facts, InCall
<1>4. Sound(r, X \cup {p})
  <2>1. \A s \in Slots \ (X \cup {p}) : k.state[s] = "BLOCKED" => InCall(r, s)
    BY <1>3
  <2> QED BY <1>1, <1>2, <2>1, SameLists
<1>5. ASSUME k.state[p] # "BLOCKED" PROVE Sound(r, X)
  <2>1. \A s \in Slots \ X : k.state[s] = "BLOCKED" => InCall(r, s)
    BY <1>3, <1>5
  <2> QED BY <1>1, <1>2, <2>1, SameLists
<1> QED BY <1>4, <1>5 DEF r

(* Only links and the head of one list change.                             *)
LinksOnly(k, r, q) ==
  /\ r.fault = k.fault /\ r.pid = k.pid /\ r.state = k.state /\ r.ret = k.ret
  /\ r.call = k.call /\ r.tail = k.tail /\ r.headsleeper = k.headsleeper
  /\ \A n \in QNames : n # q => r.que[n] = k.que[n]

(* append() puts a pcb behind the last one of the list.                    *)
LEMMA append_Is ==
  ASSUME NEW k \in KernelType, NEW q \in QNames, NEW p \in Pcbs, NEW b, List(k.next, k.que[q], b),
         p \notin On(b)
  PROVE  LET r == append(k, q, p)
             e == Append(b, p)
         IN  /\ LinksOnly(k, r, q)
             /\ r.next \in [Slots -> Ptr]
             /\ List(r.next, r.que[q], e) /\ On(e) = On(b) \cup {p}
             /\ \A s \in Slots : s \notin On(e) => r.next[s] = k.next[s]
<1> DEFINE next == [k.next EXCEPT ![p] = NULL]
           from == k.que[q]
           last == Last(b)
           r    == append(k, q, p)
           e    == Append(b, p)
<1>1. k.next \in [Slots -> Ptr] /\ next \in [Slots -> Ptr] /\ NULL \in Ptr /\ p \in Ptr /\ p \in Slots
      /\ Pcbs \subseteq Slots /\ k.que \in [QNames -> Ptr]
  BY Constants DEF KernelType, Ptr
<1>2. List(next, from, b)
  <2>1. \A s \in On(b) : next[s] = k.next[s]
    BY <1>1, ListFacts
  <2> QED BY <2>1, ListSame
<1>3. /\ Members(next, from) = On(b) /\ ~Endless(next, from)
      /\ LastOf(next, from) = IF Len(b) = 0 THEN NULL ELSE last
      /\ from = NULL <=> Len(b) = 0
      /\ Len(b) # 0 => last \in On(b)
      /\ On(b) \subseteq Pcbs
  BY <1>2, ListIs, ListFacts
<1>4. r = IF from = NULL THEN [k EXCEPT !.next = next, !.que[q] = p]
          ELSE [k EXCEPT !.next = [next EXCEPT ![last] = p]]
  BY <1>3 DEF append
<1> HIDE DEF r, next
<1>5. /\ LinksOnly(k, r, q)
      /\ r.next = IF from = NULL THEN next ELSE [next EXCEPT ![last] = p]
      /\ r.que[q] = IF from = NULL THEN p ELSE from
  <2>1. CASE from = NULL
    <3>1. r = [k EXCEPT !.next = next, !.que[q] = p]
      BY <1>4, <2>1
    <3> QED BY <1>1, <2>1, <3>1 DEF KernelType, LinksOnly
  <2>2. CASE from # NULL
    <3>1. r = [k EXCEPT !.next = [next EXCEPT ![last] = p]]
      BY <1>4, <2>2
    <3> QED BY <2>2, <3>1 DEF KernelType, LinksOnly
  <2> QED BY <2>1, <2>2
<1>6. next[p] = NULL /\ \A s \in Slots : s # p => next[s] = k.next[s]
  BY <1>1 DEF next
<1>7. r.next \in [Slots -> Ptr] /\ r.next[p] = NULL /\ (Len(b) # 0 => r.next[last] = p)
      /\ \A s \in Slots : s # p /\ (Len(b) = 0 \/ s # last) => r.next[s] = k.next[s]
  BY <1>1, <1>3, <1>5, <1>6
<1>8. /\ List(r.next, IF Len(b) = 0 THEN p ELSE from, e) /\ On(e) = On(b) \cup {p}
  <2>1. \A s \in On(b) : s # Last(b) => r.next[s] = k.next[s]
    BY <1>1, <1>3, <1>7
  <2>2. Len(b) # 0 => r.next[Last(b)] = p
    BY <1>7
  <2>3. r.next[p] = NULL /\ List(k.next, from, b)
    BY <1>7
  <2> QED BY <2>1, <2>2, <2>3, ListAppend
<1> HIDE DEF e
<1>9. List(r.next, r.que[q], e)
  BY <1>3, <1>5, <1>8
<1>10. \A s \in Slots : s \notin On(e) => r.next[s] = k.next[s]
  BY <1>3, <1>7, <1>8
<1> QED BY <1>5, <1>7, <1>8, <1>9, <1>10 DEF r, e

(* A running process leaves the CPU for the end of blocked_q or of dead_q. *)
LEMMA LeaveSound ==
  ASSUME NEW k, Sound(k, {}), NEW p \in Slots, p # IDLE, Runners(k) = {p},
         NEW q, NEW m \in KernelType,
         m.fault = k.fault, m.pid = k.pid, m.que = k.que, m.tail = k.tail,
         m.headsleeper = k.headsleeper,
         \A s \in Slots : s # p => /\ m.state[s] = k.state[s] /\ m.ret[s] = k.ret[s]
                                  /\ m.call[s] = k.call[s] /\ m.next[s] = k.next[s],
         \/ q = "blocked_q" /\ "stop" \notin Calls /\ m.state[p] = "BLOCKED" /\ InCall(m, p)
         \/ q = "dead_q" /\ "stop" \in Calls /\ m.state[p] = "STOPPED"
  PROVE  LET r == append(m, q, p)
         IN  Sound(r, {}) /\ Runners(r) = {}
<1> DEFINE r == append(m, q, p)
<1>1. k \in KernelType /\ Facts(k, {}) /\ k.state[p] = "RUNNING" /\ p \in Pcbs /\ IDLE \in Pcbs
      /\ Pcbs \subseteq Slots /\ 0 \notin Pcbs
  BY RunnerIsLoose, Constants DEF Sound, Runners, Loose, Pcbs
<1>2. PICK f, g, b, d : Lists(k, f, g, b, d)
  BY DEF Sound
<1>3. /\ \A s \in On(f) : s \in Pcbs /\ k.state[s] = "READY" /\ s \notin On(g) \cup On(b) \cup On(d)
      /\ \A s \in On(g) : s \in Pcbs /\ k.state[s] = "SLEEP" /\ s \notin On(f) \cup On(b) \cup On(d)
      /\ \A s \in On(b) : s \in Pcbs /\ k.state[s] = "BLOCKED" /\ s \notin On(f) \cup On(g) \cup On(d)
      /\ \A s \in On(d) : s \in Pcbs /\ k.state[s] = "STOPPED" /\ s \notin On(f) \cup On(g) \cup On(b)
  BY <1>1, <1>2, Disjoint
<1>4. p \notin On(f) \cup On(g) \cup On(b) \cup On(d)
  BY <1>1, <1>3
<1>5. q \in QNames /\ q # "running" /\ q # "head"
  BY DEF QNames
<1>6. /\ r \in KernelType /\ LinksOnly(m, r, q)
      /\ \E e : /\ List(r.next, r.que[q], e)
                /\ On(e) = (IF q = "dead_q" THEN On(d) ELSE On(b)) \cup {p}
                /\ \A s \in Slots : s \notin On(e) => r.next[s] = m.next[s]
  <2> DEFINE c == IF q = "dead_q" THEN d ELSE b
  <2>1. r \in KernelType
    BY <1>1, <1>5, append_Keeps
  <2>2. List(k.next, k.que[q], c) /\ p \notin On(c) /\ On(c) \subseteq Pcbs
    BY <1>2, <1>3, <1>4 DEF Lists, WaitersAre, DeadAre
  <2> HIDE DEF c
  <2>3. List(m.next, m.que[q], c)
    <3>1. \A s \in On(c) : m.next[s] = k.next[s]
      BY <1>1, <2>2
    <3>2. List(m.next, k.que[q], c)
      BY <2>2, <3>1, ListSame
    <3> QED BY <3>2
  <2> DEFINE e == Append(c, p)
  <2>4. LinksOnly(m, r, q) /\ List(r.next, r.que[q], e) /\ On(e) = On(c) \cup {p}
        /\ \A s \in Slots : s \notin On(e) => r.next[s] = m.next[s]
    BY <1>1, <1>5, <2>2, <2>3, append_Is
  <2>5. On(c) = IF q = "dead_q" THEN On(d) ELSE On(b)
    BY DEF c
  <2> HIDE DEF e, r
  <2> QED BY <2>1, <2>4, <2>5
<1> HIDE DEF r
<1>7. PICK e : /\ List(r.next, r.que[q], e)
               /\ On(e) = (IF q = "dead_q" THEN On(d) ELSE On(b)) \cup {p}
               /\ \A s \in Slots : s \notin On(e) => r.next[s] = m.next[s]
  BY <1>6
<1>8. /\ r.fault = k.fault /\ r.pid = k.pid /\ r.state = m.state /\ r.ret = m.ret /\ r.call = m.call
      /\ r.tail = k.tail /\ r.headsleeper = k.headsleeper
      /\ r.que["running"] = k.que["running"] /\ r.que["head"] = k.que["head"]
      /\ q = "blocked_q" => r.que["dead_q"] = k.que["dead_q"]
      /\ q = "dead_q" => r.que["blocked_q"] = k.que["blocked_q"]
  BY <1>5, <1>6 DEF LinksOnly, QNames
<1>9. /\ \A s \in Pcbs : s \notin On(e) => r.next[s] = k.next[s]
      /\ \A s \in Slots : s # p => r.state[s] = k.state[s]
      /\ r.state[p] = m.state[p] /\ m.state[p] \notin {"READY", "SLEEP", "RUNNING"}
      /\ p \in On(e) /\ \A s \in On(f) \cup On(g) : s \notin On(e)
  BY <1>1, <1>3, <1>4, <1>7, <1>8
<1>10. SleepersAre(r, g)
  <2>1. \A s \in Pcbs : r.state[s] = "SLEEP" <=> k.state[s] = "SLEEP"
    BY <1>1, <1>9
  <2>2. SleepersAre(k, g) /\ \A s \in On(g) : r.next[s] = k.next[s]
    BY <1>2, <1>3, <1>9 DEF Lists
  <2>3. r.headsleeper = k.headsleeper
    BY <1>8
  <2> QED BY <2>1, <2>2, <2>3, SleepersKeep
<1>11. ReadyIs(r, f)
  <2>1. \A s \in Pcbs \ {IDLE} : r.state[s] = "READY" <=> k.state[s] = "READY"
    BY <1>1, <1>9
  <2>2. IDLE \in On(f) => r.state[IDLE] = "READY"
    BY <1>1, <1>3, <1>9
  <2>3. \A s \in On(f) : r.next[s] = k.next[s]
    BY <1>3, <1>9
  <2>4. ReadyIs(k, f) /\ r.que["head"] = k.que["head"] /\ r.tail = k.tail
    BY <1>2, <1>8 DEF Lists
  <2> QED BY <2>1, <2>2, <2>3, <2>4, ReadyKeeps
<1>12. k.pid[p] # 0
  BY <1>1 DEF Facts
<1>13. (\E x : WaitersAre(r, x)) /\ (\E x : DeadAre(r, x))
  <2>1. CASE q = "blocked_q"
    <3>1. \A s \in On(e) : r.state[s] = "BLOCKED"
      BY <1>1, <1>3, <1>7, <1>9, <2>1
    <3>2. WaitersAre(r, e)
      BY <1>7, <2>1, <3>1 DEF WaitersAre
    <3>3. DeadAre(r, d)
      <4>1. DeadAre(k, d) /\ r.que["dead_q"] = k.que["dead_q"]
        BY <1>2, <1>8, <2>1 DEF Lists
      <4>2. \A s \in On(d) : r.next[s] = k.next[s] /\ r.state[s] = k.state[s] /\ r.pid[s] = k.pid[s]
        BY <1>1, <1>3, <1>4, <1>7, <1>8, <1>9, <2>1
      <4> QED BY <4>1, <4>2, DeadKeep
    <3> QED BY <3>2, <3>3
  <2>2. CASE q = "dead_q"
    <3>1. \A s \in On(e) : r.state[s] = "STOPPED" /\ r.pid[s] # 0
      <4>1. \A s \in On(d) : k.pid[s] # 0
        BY <1>2 DEF Lists, DeadAre
      <4> QED BY <1>1, <1>3, <1>7, <1>8, <1>9, <1>12, <2>2, <4>1
    <3>2. DeadAre(r, e)
      BY <1>7, <2>2, <3>1 DEF DeadAre
    <3>3. WaitersAre(r, b)
      <4>1. WaitersAre(k, b) /\ r.que["blocked_q"] = k.que["blocked_q"]
        BY <1>2, <1>8, <2>2 DEF Lists
      <4>2. \A s \in On(b) : r.next[s] = k.next[s] /\ r.state[s] = k.state[s]
        BY <1>1, <1>3, <1>4, <1>7, <1>9, <2>2
      <4> QED BY <4>1, <4>2, WaitersKeep
    <3> QED BY <3>2, <3>3
  <2> QED BY <2>1, <2>2
<1>14. Facts(r, {})
  <2>1. \A s \in Slots : r.pid[s] = 0 => r.state[s] = "STOPPED"
    BY <1>1, <1>8, <1>9, <1>12 DEF Facts
  <2>2. r.state[0] = "STOPPED" /\ r.state[IDLE] \in {"READY", "RUNNING"}
    <3>1. 0 \in Slots /\ 0 # p
      BY <1>1, Constants DEF Slots
    <3> QED BY <1>1, <1>9, <3>1 DEF Facts
  <2>3. \A s \in Slots : r.state[s] = "BLOCKED" => InCall(r, s)
    <3>1. r.state[p] = "BLOCKED" => InCall(r, p)
      BY <1>8, <1>9 DEF InCall
    <3>2. \A s \in Slots : s # p => (r.state[s] = "BLOCKED" => InCall(r, s))
      BY <1>1, <1>8, <1>9 DEF Facts, InCall
    <3> QED BY <3>1, <3>2
  <2> QED BY <1>1, <1>8, <2>1, <2>2, <2>3 DEF Facts
<1>15. Runners(r) = {}
  <2>1. \A s \in Slots : s # p => k.state[s] # "RUNNING"
    BY DEF Runners
  <2> QED BY <1>9, <2>1 DEF Runners
<1>16. Sound(r, {})
  BY <1>6, <1>10, <1>11, <1>13, <1>14 DEF Sound, Lists
<1> QED BY <1>8, <1>15, <1>16 DEF r

(* The caller blocks: it goes to the end of blocked_q, and nobody runs.    *)
LEMMA Block_Sound ==
  ASSUME NEW k, Sound(k, {}), NEW p \in Slots, p # IDLE, Runners(k) = {p},
         NEW code, <<k.call[p], code>> \in {<<"send", SYS_SEND>>, <<"recv", SYS_RECV>>},
         "stop" \notin Calls
  PROVE  Sound(Block(k, p, code), {}) /\ Runners(Block(k, p, code)) = {}
<1> DEFINE m == [k EXCEPT !.state[p] = "BLOCKED", !.ret[p] = code]
<1>1. k \in KernelType /\ code \in Int
  BY DEF SYS_SEND, SYS_RECV, Sound
<1>2. /\ m \in KernelType /\ m.fault = k.fault /\ m.pid = k.pid /\ m.que = k.que /\ m.next = k.next
      /\ m.tail = k.tail /\ m.headsleeper = k.headsleeper /\ m.call = k.call
      /\ m.state[p] = "BLOCKED" /\ m.ret[p] = code
      /\ \A s \in Slots : s # p => m.state[s] = k.state[s] /\ m.ret[s] = k.ret[s]
  <2>1. m \in KernelType
    BY <1>1 DEF KernelType, States
  <2> QED BY <1>1, <2>1 DEF KernelType
<1>3. Block(k, p, code) = append(m, "blocked_q", p)
  BY DEF Block
<1> HIDE DEF m
<1>4. InCall(m, p)
  BY <1>2 DEF InCall
<1>5. \A s \in Slots : s # p => /\ m.state[s] = k.state[s] /\ m.ret[s] = k.ret[s]
                               /\ m.call[s] = k.call[s] /\ m.next[s] = k.next[s]
  BY <1>2
<1> DEFINE q == "blocked_q"
<1>6. q = "blocked_q" /\ "stop" \notin Calls /\ m.state[p] = "BLOCKED" /\ InCall(m, p)
  BY <1>2, <1>4
<1> HIDE DEF q
<1>7. Sound(append(m, q, p), {}) /\ Runners(append(m, q, p)) = {}
  BY <1>2, <1>5, <1>6, LeaveSound
<1> QED BY <1>3, <1>7 DEF q

(* The caller stops: it goes to the end of dead_q, and nobody runs.        *)
LEMMA Stopped_Sound ==
  ASSUME NEW k, Sound(k, {}), NEW p \in Slots, p # IDLE, Runners(k) = {p}, "stop" \in Calls
  PROVE  Sound(Stopped(k, p), {}) /\ Runners(Stopped(k, p)) = {}
<1> DEFINE m == [k EXCEPT !.state[p] = "STOPPED", !.next[p] = NULL]
<1>1. k \in KernelType
  BY DEF Sound
<1>2. /\ m \in KernelType /\ m.fault = k.fault /\ m.pid = k.pid /\ m.que = k.que
      /\ m.tail = k.tail /\ m.headsleeper = k.headsleeper /\ m.call = k.call /\ m.ret = k.ret
      /\ m.state[p] = "STOPPED"
      /\ \A s \in Slots : s # p => m.state[s] = k.state[s] /\ m.next[s] = k.next[s]
  <2>1. m \in KernelType
    BY <1>1 DEF KernelType, States, Ptr
  <2> QED BY <1>1, <2>1 DEF KernelType
<1>3. Stopped(k, p) = append(m, "dead_q", p)
  BY DEF Stopped
<1> HIDE DEF m
<1>4. \A s \in Slots : s # p => /\ m.state[s] = k.state[s] /\ m.ret[s] = k.ret[s]
                               /\ m.call[s] = k.call[s] /\ m.next[s] = k.next[s]
  BY <1>2
<1> DEFINE q == "dead_q"
<1>5. q = "dead_q" /\ "stop" \in Calls /\ m.state[p] = "STOPPED"
  BY <1>2
<1> HIDE DEF q
<1>6. Sound(append(m, q, p), {}) /\ Runners(append(m, q, p)) = {}
  BY <1>2, <1>4, <1>5, LeaveSound
<1> QED BY <1>3, <1>6 DEF q

(* remove() takes a pcb off the list, if it is there, and the pcb's before *)
(* it too; if it is not there, only the last pcb is left.                  *)
LEMMA remove_Is ==
  ASSUME NEW k \in KernelType, NEW q \in QNames, NEW b, List(k.next, k.que[q], b),
         NEW p \in Pcbs, NEW v, \A s \in On(b) : k.pid[s] = v <=> s = p
  PROVE  LET r == remove(k, q, v)
         IN  \E e : /\ List(r.next, r.que[q], e) /\ On(e) \subseteq On(b) /\ p \notin On(e)
                    /\ LinksOnly(k, r, q)
                    /\ \A s \in Pcbs : s \notin On(b) => r.next[s] = k.next[s]
                    /\ k.que[q] = NULL => r.que[q] = NULL
<1> DEFINE from  == k.que[q]
           found == {s \in Members(k.next, from) : k.pid[s] = v}
           r     == remove(k, q, v)
<1>1. NULL \notin Pcbs /\ Pcbs \subseteq Slots /\ k.next \in [Slots -> Ptr]
  BY Constants DEF KernelType
<1>3. On(b) \subseteq Pcbs
  BY ListFacts
<1>4. List(k.next, from, b) /\ Members(k.next, from) = On(b) /\ ~Endless(k.next, from)
      /\ LastOf(k.next, from) = (IF Len(b) = 0 THEN NULL ELSE Last(b))
      /\ (from = NULL <=> Len(b) = 0)
  BY ListIs, ListFacts
<1>5. found = {s \in On(b) : s = p}
  BY <1>4
<1>6. \E e : /\ List(r.next, r.que[q], e) /\ On(e) \subseteq On(b) /\ p \notin On(e)
             /\ LinksOnly(k, r, q)
             /\ \A s \in Pcbs : s \notin On(b) => r.next[s] = k.next[s]
             /\ from = NULL => r.que[q] = NULL
  <2>1. CASE from = NULL
    <3>1. r = k
      BY <1>1, <2>1 DEF remove
    <3>2. On(b) = {}
      BY <1>4, <2>1, ListFacts
    <3>3. LinksOnly(k, k, q)
      BY DEF LinksOnly
    <3> HIDE DEF r
    <3> QED BY <1>4, <2>1, <3>1, <3>2, <3>3
  <2>2. CASE from # NULL /\ p \in On(b)
    <3>1. found = {p}
      BY <1>5, <2>2
    <3>2. (CHOOSE x \in found : TRUE) = p
      BY <3>1
    <3> HIDE DEF found
    <3>3. r = [k EXCEPT !.que[q] = k.next[p], !.next[p] = NULL]
      BY <1>1, <2>2, <3>1, <3>2 DEF remove, found
    <3> HIDE DEF r
    <3>4. /\ LinksOnly(k, r, q)
          /\ r.que[q] = k.next[p]
          /\ \A s \in Pcbs : s # p => r.next[s] = k.next[s]
      BY <1>1, <3>3 DEF KernelType, LinksOnly
    <3>5. PICK i \in 1 .. Len(b) : b[i] = p
      BY <2>2 DEF On
    <3> DEFINE e == SubSeq(b, i + 1, Len(b))
    <3>6. List(k.next, k.next[p], e) /\ On(e) = On(b) \ {b[j] : j \in 1 .. i}
      BY <1>4, <3>5, ListBehind
    <3> HIDE DEF e
    <3>7. p \notin On(e) /\ On(e) \subseteq On(b)
      <4>1. i \in 1 .. i
        <5>1. Len(b) \in Nat
          BY <1>4, ListFacts
        <5> QED BY <5>1
      <4> QED BY <3>5, <3>6, <4>1
    <3>8. List(r.next, r.que[q], e)
      <4>1. \A s \in On(e) : r.next[s] = k.next[s]
        BY <1>3, <3>4, <3>7
      <4> QED BY <3>4, <3>6, <4>1, ListSame
    <3> QED BY <2>2, <3>4, <3>7, <3>8
  <2>3. CASE from # NULL /\ p \notin On(b)
    <3> DEFINE l == Last(b)
               e == <<l>>
    <3>1. found = {} /\ Len(b) # 0 /\ l \in On(b) /\ k.next[l] = NULL
      BY <1>4, <1>5, <2>3, ListFacts
    <3>2. r = [k EXCEPT !.que[q] = l]
      BY <1>1, <1>4, <2>3, <3>1 DEF remove
    <3>3. l \in Pcbs /\ l # p
      BY <1>3, <2>3, <3>1
    <3> HIDE DEF r, l
    <3>4. /\ LinksOnly(k, r, q)
          /\ r.que[q] = l /\ r.next = k.next
      BY <1>1, <3>2 DEF KernelType, LinksOnly
    <3>5. List(k.next, l, e) /\ On(e) = {l}
      <4>1. e \in Seq(Pcbs) /\ Len(e) = 1 /\ e[1] = l
        BY <3>3
      <4>2. \A i \in 1 .. Len(e) : i = 1
        BY <4>1
      <4> HIDE DEF e
      <4>3. List(k.next, l, e)
        BY <3>1, <4>1, <4>2 DEF List
      <4>4. On(e) = {e[i] : i \in 1 .. 1}
        BY <4>1 DEF On
      <4> QED BY <4>1, <4>3, <4>4
    <3> HIDE DEF e
    <3> QED BY <2>3, <3>1, <3>3, <3>4, <3>5
  <2> QED BY <2>1, <2>2, <2>3
<1> QED BY <1>6

(* On blocked_q a pid finds its own pcb.                                   *)
LEMMA remove_Sound ==
  ASSUME NEW k, NEW X, Sound(k, X), NEW p \in Pcbs, k.pid[p] # 0
  PROVE  LET r == remove(k, "blocked_q", k.pid[p])
         IN  /\ Sound(r, X) /\ r.state = k.state /\ r.pid = k.pid
             /\ p \notin Members(r.next, r.que["blocked_q"])
<1> DEFINE from  == k.que["blocked_q"]
           r     == remove(k, "blocked_q", k.pid[p])
<1>1. k \in KernelType /\ Facts(k, X) /\ IDLE \in Pcbs /\ Pcbs \subseteq Slots /\ NULL \notin Pcbs
      /\ k.next \in [Slots -> Ptr] /\ "blocked_q" \in QNames
  BY Constants DEF Sound, KernelType, QNames
<1>2. PICK f, g, b, d : Lists(k, f, g, b, d)
  BY DEF Sound
<1>3. /\ \A s \in On(f) : s \in Pcbs /\ k.state[s] = "READY" /\ s \notin On(g) \cup On(b) \cup On(d)
      /\ \A s \in On(g) : s \in Pcbs /\ k.state[s] = "SLEEP" /\ s \notin On(f) \cup On(b) \cup On(d)
      /\ \A s \in On(b) : s \in Pcbs /\ k.state[s] = "BLOCKED" /\ s \notin On(f) \cup On(g) \cup On(d)
      /\ \A s \in On(d) : s \in Pcbs /\ k.state[s] = "STOPPED" /\ s \notin On(f) \cup On(g) \cup On(b)
  BY <1>1, <1>2, Disjoint
<1>4. List(k.next, from, b) /\ WaitersAre(k, b)
  BY <1>2 DEF Lists, WaitersAre
<1>5. \A s \in On(b) : k.pid[s] = k.pid[p] <=> s = p
  <2>1. \A s \in Slots : k.pid[s] = k.pid[p] => s = p
    <3>1. k.pid[p] \in Nat
      BY <1>1, PidIsNat
    <3> QED BY <1>1, <3>1 DEF Facts
  <2> QED BY <1>1, <1>3, <2>1
<1>6. \E e : /\ List(r.next, r.que["blocked_q"], e) /\ On(e) \subseteq On(b) /\ p \notin On(e)
             /\ LinksOnly(k, r, "blocked_q")
             /\ \A s \in Pcbs : s \notin On(b) => r.next[s] = k.next[s]
             /\ from = NULL => r.que["blocked_q"] = NULL
  BY <1>1, <1>4, <1>5, remove_Is
<1>7. PICK e : /\ List(r.next, r.que["blocked_q"], e) /\ On(e) \subseteq On(b) /\ p \notin On(e)
               /\ LinksOnly(k, r, "blocked_q")
               /\ \A s \in Pcbs : s \notin On(b) => r.next[s] = k.next[s]
               /\ from = NULL => r.que["blocked_q"] = NULL
  BY <1>6
<1>8. r \in KernelType
  BY <1>1, remove_Keeps
<1> HIDE DEF r
<1>9. /\ r.fault = k.fault /\ r.pid = k.pid /\ r.state = k.state /\ r.ret = k.ret /\ r.call = k.call
      /\ r.tail = k.tail /\ r.headsleeper = k.headsleeper
      /\ r.que["running"] = k.que["running"] /\ r.que["head"] = k.que["head"]
      /\ r.que["dead_q"] = k.que["dead_q"]
  BY <1>7 DEF QNames, LinksOnly
<1>10. SleepersAre(r, g)
  <2>1. SleepersAre(k, g) /\ \A s \in On(g) : r.next[s] = k.next[s]
    BY <1>2, <1>3, <1>7 DEF Lists
  <2>2. r.headsleeper = k.headsleeper /\ \A s \in Pcbs : r.state[s] = "SLEEP" <=> k.state[s] = "SLEEP"
    BY <1>9
  <2> QED BY <2>1, <2>2, SleepersKeep
<1>11. DeadAre(r, d)
  <2>1. DeadAre(k, d) /\ r.que["dead_q"] = k.que["dead_q"]
    BY <1>2, <1>9 DEF Lists
  <2>2. \A s \in On(d) : r.next[s] = k.next[s] /\ r.state[s] = k.state[s] /\ r.pid[s] = k.pid[s]
    BY <1>3, <1>7, <1>9
  <2> QED BY <2>1, <2>2, DeadKeep
<1>12. ReadyIs(r, f)
  <2>1. \A s \in On(f) : r.next[s] = k.next[s]
    BY <1>3, <1>7
  <2>2. ReadyIs(k, f) /\ r.que["head"] = k.que["head"] /\ r.tail = k.tail
    BY <1>2, <1>9 DEF Lists
  <2>3. \A s \in Pcbs \ {IDLE} : r.state[s] = "READY" <=> k.state[s] = "READY"
    BY <1>9
  <2>4. IDLE \in On(f) => r.state[IDLE] = "READY"
    BY <1>3, <1>9
  <2> QED BY <2>1, <2>2, <2>3, <2>4, ReadyKeeps
<1>13. WaitersAre(r, e)
  BY <1>4, <1>7, <1>9 DEF WaitersAre
<1>14. Facts(r, X)
  BY <1>1, <1>9 DEF Facts, InCall
<1>15. p \notin Members(r.next, r.que["blocked_q"])
  BY <1>7, ListIs
<1> QED BY <1>8, <1>9, <1>10, <1>11, <1>12, <1>13, <1>14, <1>15 DEF Sound, Lists, r

(* After a transfer the caller and its partner, which was blocked, are at  *)
(* the end of the ready queue.                                             *)
LEMMA Both_Sound ==
  ASSUME NEW k, Sound(k, {}), NEW p \in Slots, Runners(k) = {p},
         NEW other \in Slots, k.state[other] = "BLOCKED", NEW n \in Int
  PROVE  Sound(Both(k, p, other, n), {}) /\ Runners(Both(k, p, other, n)) = {}
<1> DEFINE k0 == [k EXCEPT !.ret[p] = n, !.ret[other] = n]
           k1 == ready(k0, p)
           k2 == remove(k1, "blocked_q", k.pid[other])
           k3 == ready(k2, other)
<1>1. k \in KernelType /\ Facts(k, {}) /\ k.state[p] = "RUNNING" /\ other # p /\ other \in Pcbs
      /\ k.pid[other] # 0 /\ p \in Pcbs
  <2>1. k \in KernelType /\ Facts(k, {}) /\ k.state[p] = "RUNNING" /\ other # p
    BY DEF Sound, Runners
  <2>2. other # 0 /\ k.pid[other] # 0 /\ p # 0
    BY <2>1 DEF Facts
  <2> QED BY <2>1, <2>2 DEF Pcbs
<1>2. Sound(k0, {other}) /\ k0.state = k.state /\ k0.pid = k.pid
  <2> DEFINE m == [k EXCEPT !.ret[p] = n]
  <2>1. Sound(m, {}) /\ m.state = k.state
    <3>1. Sound(m, {})
      BY <1>1, SetRetSound
    <3> QED BY <1>1, <3>1 DEF KernelType
  <2>2. k0 = [m EXCEPT !.ret[other] = n]
    BY <1>1 DEF KernelType
  <2> HIDE DEF m, k0
  <2>3. Sound(k0, {} \cup {other})
    BY <2>1, <2>2, SetRetSound
  <2>4. {} \cup {other} = {other}
    OBVIOUS
  <2>5. k0.state = k.state /\ k0.pid = k.pid
    BY <1>1 DEF KernelType, k0
  <2> QED BY <2>3, <2>4, <2>5
<1> HIDE DEF k0
<1>3. /\ Sound(k1, {other} \ {p}) /\ k1.pid = k.pid /\ k1.state = [k.state EXCEPT ![p] = "READY"]
  <2>1. Loose(k0, p)
    BY <1>1, <1>2, RunnerIsLoose
  <2>2. Sound(k0, {other})
    BY <1>2
  <2>3. /\ Sound(k1, {other} \ {p}) /\ k1.pid = k0.pid
        /\ k1.state = [k0.state EXCEPT ![p] = "READY"]
    BY <2>1, <2>2, ready_Sound
  <2> QED BY <1>2, <2>3
<1> HIDE DEF k1
<1>4. {other} \ {p} = {other} /\ k1.state[other] = "BLOCKED"
  BY <1>1, <1>3 DEF KernelType
<1>5. /\ Sound(k2, {other}) /\ k2.state = k1.state /\ k2.pid = k.pid
      /\ other \notin Members(k2.next, k2.que["blocked_q"])
  <2>1. Sound(k1, {other}) /\ other \in Pcbs /\ k1.pid[other] # 0 /\ k1.pid = k.pid
    BY <1>1, <1>3, <1>4
  <2> DEFINE r == remove(k1, "blocked_q", k1.pid[other])
  <2>2. /\ Sound(r, {other}) /\ r.state = k1.state /\ r.pid = k1.pid
        /\ other \notin Members(r.next, r.que["blocked_q"])
    BY <2>1, remove_Sound
  <2>3. r = k2
    BY <2>1
  <2> HIDE DEF r, k2
  <2> QED BY <2>1, <2>2, <2>3
<1>6. Both(k, p, other, n) = k3
  <2>1. get_q(k1.state[other]) = "blocked_q"
    BY <1>4 DEF get_q
  <2> QED BY <1>1, <2>1 DEF Both, k0, k1
<1> HIDE DEF k2
<1>7. Loose(k2, other)
  <2>1. PICK f, g, b, d : Lists(k2, f, g, b, d)
    BY <1>5 DEF Sound
  <2>2. \A s \in On(d) : k2.state[s] = "STOPPED"
    BY <2>1 DEF Lists, DeadAre
  <2>3. other \notin Members(k2.next, k2.que["dead_q"])
    BY <1>4, <1>5, <2>1, <2>2, Found
  <2> QED BY <1>1, <1>4, <1>5, <2>3 DEF Loose
<1>8. Sound(k3, {other} \ {other}) /\ k3.state = [k2.state EXCEPT ![other] = "READY"]
  BY <1>5, <1>7, ready_Sound
<1> HIDE DEF k3
<1>9. Sound(k3, {})
  <2>1. {other} \ {other} = {}
    OBVIOUS
  <2> QED BY <1>8, <2>1
<1>10. Runners(k3) = {}
  <2>1. \A s \in Slots : s # p => k.state[s] # "RUNNING"
    BY DEF Runners
  <2> QED BY <1>1, <1>3, <1>5, <1>8, <2>1 DEF Runners, KernelType
<1> QED BY <1>6, <1>9, <1>10

(* What send() and recv() return: the lists are as they were, and a        *)
(* partner to copy with is blocked.                                        *)
Fine(k, o) ==
  /\ Sound(o.mem, {}) /\ o.mem.state = k.state /\ o.mem.call = k.call
  /\ o.rc \in Int
  /\ o.rc > 0 => Slot(o.from) \in Slots /\ k.state[Slot(o.from)] = "BLOCKED"

(* What send and recv return to their callers is fine if it says so of the *)
(* memory and of the process the message was exchanged with.               *)
LEMMA FineIs ==
  ASSUME NEW k, NEW m, NEW rc \in Int, NEW from,
         Sound(m, {}), m.state = k.state, m.call = k.call,
         rc > 0 => Slot(from) \in Slots /\ k.state[Slot(from)] = "BLOCKED"
  PROVE  Fine(k, Outcome(m, rc, from))
BY DEF Fine, Outcome

(* The pid argument of a call may be written.                              *)
LEMMA SetArgSound ==
  ASSUME NEW k, Sound(k, {}), NEW p, NEW n \in Nat
  PROVE  LET r == [k EXCEPT !.arg[p] = n]
         IN  Sound(r, {}) /\ r.state = k.state /\ r.call = k.call
<1> DEFINE r == [k EXCEPT !.arg[p] = n]
<1>1. k \in KernelType /\ Facts(k, {})
  BY DEF Sound
<1>2. /\ r \in KernelType
      /\ r.fault = k.fault /\ r.state = k.state /\ r.pid = k.pid /\ r.que = k.que /\ r.next = k.next
      /\ r.tail = k.tail /\ r.headsleeper = k.headsleeper /\ r.ret = k.ret /\ r.call = k.call
  BY <1>1 DEF KernelType
<1> HIDE DEF r
<1>3. \A s \in Slots \ {} : k.state[s] = "BLOCKED" => InCall(r, s)
  BY <1>1, <1>2 DEF Facts, InCall
<1>4. Sound(r, {})
  BY <1>2, <1>3, SameLists
<1> QED BY <1>2, <1>4 DEF r

(* A blocked process is in a call.                                         *)
LEMMA BlockedInCall ==
  ASSUME NEW k, Sound(k, {}), NEW s \in Slots, k.state[s] = "BLOCKED"
  PROVE  k.call[s] # "none"
BY DEF Sound, Facts, InCall

(* Numbers of bytes.                                                       *)
LEMMA copyIsInt ==
  ASSUME NEW k \in KernelType, NEW s \in Slots, NEW t \in Slots, NEW u \in Slots
  PROVE  copy(k.buf[s], k.msg[t], k.buf[u]) \in Int
<1>1. k.buf[s] \in Nat /\ k.msg[t] \in Nat /\ k.buf[u] \in Nat
  BY DEF KernelType
<1> QED BY <1>1, copyIsNat

(* send() finds its destination blocked before it copies.                  *)
LEMMA send_Fine ==
  ASSUME NEW k, Sound(k, {}), NEW p \in Slots, NEW zero \in BOOLEAN
  PROVE  Fine(k, send(k, p, zero))
<1> DEFINE to     == k.arg[p]
           dest   == Slot(to)
           copied == copy(k.buf[p], k.msg[p], k.buf[dest])
           told   == [k EXCEPT !.arg[dest] = k.pid[p]]
<1>1. k \in KernelType /\ to \in Nat /\ dest \in Slots /\ k.pid[p] \in Nat
  BY SlotInSlots, PidIsNat DEF Sound, KernelType
<1>2. copied \in Int
  BY <1>1, copyIsInt
<1>3. Sound(told, {}) /\ told.state = k.state /\ told.call = k.call
  BY <1>1, SetArgSound
<1>4. \/ send(k, p, zero) = Outcome(k, 0, to)
      \/ send(k, p, zero) = Outcome(k, WOULD_DEADLOCK, to)
      \/ k.state[dest] = "BLOCKED" /\ send(k, p, zero) \in {Outcome(told, copied, to), Outcome(k, copied, to)}
  BY DEF send
<1> HIDE DEF told, copied
<1>5. Fine(k, Outcome(k, 0, to)) /\ Fine(k, Outcome(k, WOULD_DEADLOCK, to))
  BY FineIs DEF WOULD_DEADLOCK
<1>6. k.state[dest] = "BLOCKED" => Fine(k, Outcome(told, copied, to)) /\ Fine(k, Outcome(k, copied, to))
  BY <1>1, <1>2, <1>3, FineIs
<1> QED BY <1>4, <1>5, <1>6

(* recv() copies from a process that is blocked in a call.                 *)
LEMMA Take_Fine ==
  ASSUME NEW k, NEW m, Sound(m, {}), m.state = k.state, m.call = k.call,
         NEW p \in Slots, NEW s \in Slots, k.state[s] = "BLOCKED", NEW from, Slot(from) = s
  PROVE  Fine(k, Take(m, s, p, from))
<1>1. m.call[s] # "none"
  BY BlockedInCall
<1>2. copy(m.buf[s], m.msg[s], m.buf[p]) \in Int
  BY copyIsInt DEF Sound
<1>3. Take(m, s, p, from) = Outcome(m, copy(m.buf[s], m.msg[s], m.buf[p]), from)
  BY <1>1 DEF Take
<1> QED BY <1>2, <1>3, FineIs

(* recv() from any takes from a process that is blocked, if from one.      *)
LEMMA RecvAny_Fine ==
  ASSUME NEW k, Sound(k, {}), NEW p \in Slots, NEW G
  PROVE  Fine(k, RecvAny(k, p, G))
<1> DEFINE at   == Chain(k.next, k.que["blocked_q"])
           hits == {n \in 0 .. MAX_PROC :
                       at[n] \in Pcbs /\ at[n] # p /\ SendsTo(k, at[n], k.pid[p], G)}
           n    == CHOOSE i \in hits : \A j \in hits : i <= j
           s    == at[n]
           told == [k EXCEPT !.arg[p] = k.pid[s]]
<1>1. PICK f, g, b, d : Lists(k, f, g, b, d)
  BY DEF Sound
<1>2. at[MAX_PROC] = NULL
  BY <1>1, Found DEF Endless
<1>3. CASE hits = {}
  <2>1. RecvAny(k, p, G) = Outcome(k, 0, 0)
    BY <1>2, <1>3 DEF RecvAny
  <2> QED BY <2>1, FineIs
<1>4. CASE hits # {}
  <2>1. n \in hits
    <3>1. hits \subseteq Nat
      OBVIOUS
    <3> HIDE DEF hits
    <3> QED BY <1>4, <3>1, HasMinimum
  <2>2. n \in 0 .. MAX_PROC /\ s \in Pcbs
    BY <2>1
  <2> HIDE DEF n
  <2>3. s \in Members(k.next, k.que["blocked_q"])
    BY <2>2 DEF Members
  <2> HIDE DEF at
  <2>4. k.state[s] = "BLOCKED" /\ s \in Slots
    <3>1. Members(k.next, k.que["blocked_q"]) = On(b) /\ \A r \in On(b) : k.state[r] = "BLOCKED"
      BY <1>1, Found DEF Lists, WaitersAre
    <3> HIDE DEF s
    <3> QED BY <2>2, <2>3, <3>1, Constants
  <2>5. k \in KernelType /\ k.pid[s] \in Nat /\ Slot(k.pid[s]) = s
    <3>1. k \in KernelType /\ Facts(k, {}) /\ k.pid[s] \in Nat
      BY <2>4, PidIsNat DEF Sound
    <3> QED BY <2>4, <3>1 DEF Facts
  <2>6. RecvAny(k, p, G) = Take(told, s, p, k.pid[s])
    BY <1>4 DEF RecvAny, n, at
  <2> HIDE DEF s, hits
  <2>7. Sound(told, {}) /\ told.state = k.state /\ told.call = k.call
    BY <2>5, SetArgSound
  <2> HIDE DEF told
  <2> QED BY <2>4, <2>5, <2>6, <2>7, Take_Fine
<1> QED BY <1>3, <1>4

(* recv() from a pid takes from a process that is blocked.                 *)
LEMMA RecvFrom_Fine ==
  ASSUME NEW k, Sound(k, {}), NEW p \in Slots, NEW G
  PROVE  Fine(k, RecvFrom(k, p, G))
<1> DEFINE from == k.arg[p]
           s    == Slot(from)
<1>1. from \in Nat /\ s \in Slots
  BY SlotInSlots DEF Sound, KernelType
<1>2. \/ RecvFrom(k, p, G) \in {Outcome(k, WOULD_DEADLOCK, from), Outcome(k, 0, from)}
      \/ k.state[s] = "BLOCKED" /\ RecvFrom(k, p, G) = Take(k, s, p, from)
  BY DEF RecvFrom
<1>3. Fine(k, Outcome(k, WOULD_DEADLOCK, from)) /\ Fine(k, Outcome(k, 0, from))
  BY FineIs DEF WOULD_DEADLOCK
<1>4. k.state[s] = "BLOCKED" => Fine(k, Take(k, s, p, from))
  BY <1>1, Take_Fine
<1> QED BY <1>2, <1>3, <1>4

(* The rest of the two handlers, whatever send() or recv() returned.       *)
LEMMA Finish_Sound ==
  ASSUME NEW k, NEW p \in Slots, p # IDLE, Runners(k) = {p}, NEW o, Fine(k, o),
         NEW code, <<k.call[p], code>> \in {<<"send", SYS_SEND>>, <<"recv", SYS_RECV>>},
         "stop" \notin Calls
  PROVE  Sound(Finish(o, p, code), {}) /\ Runners(Finish(o, p, code)) = {}
<1> DEFINE m == o.mem
<1>1. Sound(m, {}) /\ m.state = k.state /\ m.call = k.call /\ o.rc \in Int
      /\ (o.rc > 0 => Slot(o.from) \in Slots /\ k.state[Slot(o.from)] = "BLOCKED")
  BY DEF Fine
<1> HIDE DEF m
<1>2. Runners(m) = {p} /\ m.state[p] = "RUNNING"
  BY <1>1 DEF Runners
<1>3. CASE o.rc > 0
  BY <1>1, <1>2, <1>3, Both_Sound DEF Finish, m
<1>4. CASE o.rc < 0
  <2> DEFINE w == [m EXCEPT !.ret[p] = o.rc]
             r == ready(w, p)
  <2>1. Sound(w, {}) /\ w.state = m.state
    <3>1. Sound(w, {})
      BY <1>1, <1>2, SetRetSound
    <3> QED BY <1>1, <3>1 DEF Sound, KernelType
  <2> HIDE DEF w
  <2>2. Loose(w, p)
    BY <1>2, <2>1, RunnerIsLoose
  <2>3. Sound(r, {} \ {p}) /\ r.state = [w.state EXCEPT ![p] = "READY"]
    BY <2>1, <2>2, ready_Sound
  <2>4. {} \ {p} = {}
    OBVIOUS
  <2>5. Finish(o, p, code) = r
    BY <1>1, <1>4 DEF Finish, w, m
  <2> HIDE DEF r
  <2>6. Runners(r) = {}
    <3>1. m.state \in [Slots -> States]
      BY <1>1 DEF Sound, KernelType
    <3> QED BY <1>2, <2>1, <2>3, <3>1 DEF Runners
  <2> QED BY <2>3, <2>4, <2>5, <2>6
<1>5. CASE o.rc = 0
  <2>1. <<m.call[p], code>> \in {<<"send", SYS_SEND>>, <<"recv", SYS_RECV>>}
    BY <1>1
  <2>2. Finish(o, p, code) = Block(m, p, code)
    BY <1>5 DEF Finish, m
  <2> QED BY <1>1, <1>2, <2>1, <2>2, Block_Sound
<1> QED BY <1>1, <1>3, <1>4, <1>5

-----------------------------------------------------------------------------
(* The workloads the theorems are about: those in which no process stops,  *)
(* and those without messages in which no slot is reused twice.  In others *)
(* the lists need not be sound: notify_waiters() leaves on blocked_q the   *)
(* processes it makes ready, and create() looks for a slot on dead_q by    *)
(* the slot's index, which is the first pid of the slot but no later one.  *)
Workload ==
  "stop" \in Calls =>
    /\ "send" \notin Calls /\ "recv" \notin Calls
    /\ MaxPid < 2 * MAX_PROC /\ INT_MAX > 3 * MAX_PROC

(* The process that has the CPU, in a kernel that has served its request.  *)
LEMMA HandedIs ==
  ASSUME NEW k, Handed(k)
  PROVE  LET p == k.que["running"]
         IN  /\ k \in KernelType /\ Sound(k, {}) /\ Facts(k, {}) /\ OneRuns(k)
             /\ p \in Slots /\ p \in Pcbs /\ k.state[p] = "RUNNING" /\ Runners(k) = {p}
             /\ Loose(k, p)
<1> DEFINE p == k.que["running"]
<1>1. k \in KernelType /\ Sound(k, {}) /\ Facts(k, {}) /\ OneRuns(k)
  BY DEF Handed, Sound
<1>2. p \in Pcbs /\ p \in Slots /\ \A s \in Slots : k.state[s] = "RUNNING" <=> s = p
  BY <1>1, Constants DEF OneRuns
<1> HIDE DEF p
<1>3. k.state[p] = "RUNNING" /\ Runners(k) = {p}
  BY <1>2 DEF Runners
<1>4. Loose(k, p)
  BY <1>1, <1>2, <1>3, RunnerIsLoose
<1> QED BY <1>1, <1>2, <1>3, <1>4 DEF p

(* A request is served: the kernel's memory is what the handler leaves.    *)
LEMMA ServeHands ==
  ASSUME NEW k, Handed(k), Serve(k) PROVE Handed(kern)'
<1>1. k.fault = "none"
  BY DEF Handed, Sound, Facts
<1>2. kern' = k
  BY <1>1 DEF Serve
<1> QED BY <1>2

(* A request in which the caller gives the CPU up.                         *)
LEMMA ServeDispatch ==
  ASSUME NEW k, Sound(k, {}), Runners(k) = {}, Serve(Dispatch(k)) PROVE Handed(kern)'
<1>1. Handed(Dispatch(k))
  BY DispatchHands
<1> QED BY <1>1, ServeHands

(* A request that is handed on was served without a fault.                 *)
LEMMA Served ==
  ASSUME Handed(kern), Handed(kern)', NEW k, Serve(k)
  PROVE  kern' = k
<1>1. kern \in KernelType /\ (kern.fault = "none")'
  BY HandedIs DEF Handed, Sound, Facts
<1>2. CASE k.fault = "none"
  BY <1>2 DEF Serve
<1>3. CASE k.fault # "none"
  <2>1. kern' = [kern EXCEPT !.fault = k.fault]
    BY <1>3 DEF Serve
  <2>2. kern'.fault = k.fault
    BY <1>1, <2>1 DEF KernelType
  <2> QED BY <1>1, <1>3, <2>2
<1> QED BY <1>2, <1>3

(* What initproc() leaves: idleproc alone on the ready queue, and nothing  *)
(* on the other lists.                                                     *)
LEMMA BootHanded == Handed(Boot)
<1> DEFINE k == Boot
           f == <<IDLE>>
<1>1. Boot \in KernelType /\ OneRuns(Boot)
  <2>1. Init => Inv
    BY InitInv
  <2>2. 0 \in Pids /\ ROOT \in Pids /\ IDLE \in Pids /\ 0 \in Ticks
    BY ProcTableAssumption, SleepListAssumption DEF Pids, ROOT, IDLE, Ticks
  <2>3. Boot \in KernelType
    BY <2>2, Constants DEF Boot, KernelType, Ptr, States, QNames, Faults
  <2>4. Boot.que["running"] = ROOT
    BY DEF Boot, QNames
  <2>5. \A s \in Slots : Boot.state[s] = "RUNNING" <=> s = ROOT
    BY DEF Boot
  <2> QED BY <2>3, <2>4, <2>5, Constants DEF OneRuns
<1>2. IDLE \in Pcbs /\ ROOT \in Pcbs /\ Pcbs \subseteq Slots /\ 0 \in Slots /\ 0 # IDLE /\ 0 # ROOT
      /\ IDLE # ROOT /\ NULL \notin Slots
  BY Constants DEF Slots, IDLE, ROOT
<1>3. /\ k.fault = "none" /\ k.que["running"] = ROOT /\ k.que["head"] = IDLE
      /\ k.que["blocked_q"] = NULL /\ k.que["dead_q"] = NULL
      /\ k.headsleeper = NULL /\ k.tail = IDLE
      /\ \A s \in Slots : k.next[s] = NULL
      /\ \A s \in Slots : k.pid[s] = IF s \in {ROOT, IDLE} THEN s ELSE 0
      /\ \A s \in Slots : k.state[s] = IF s = ROOT THEN "RUNNING" ELSE IF s = IDLE THEN "READY" ELSE "STOPPED"
  BY DEF Boot, QNames
<1> HIDE DEF k
<1>4. List(k.next, IDLE, f) /\ On(f) = {IDLE} /\ Len(f) = 1 /\ Last(f) = IDLE
  <2>1. f \in Seq(Pcbs) /\ Len(f) = 1 /\ f[1] = IDLE
    BY <1>2
  <2>2. \A i \in 1 .. Len(f) : i = 1
    BY <2>1
  <2> HIDE DEF f
  <2>3. List(k.next, IDLE, f)
    BY <1>2, <1>3, <2>1, <2>2 DEF List
  <2>4. On(f) = {f[i] : i \in 1 .. 1} /\ Last(f) = f[1]
    BY <2>1 DEF On, Last
  <2> QED BY <2>1, <2>3, <2>4
<1> HIDE DEF f
<1>5. ReadyIs(k, f)
  BY <1>2, <1>3, <1>4 DEF ReadyIs
<1>6. SleepersAre(k, <<>>) /\ WaitersAre(k, <<>>) /\ DeadAre(k, <<>>)
  <2>1. List(k.next, NULL, <<>>) /\ On(<<>>) = {}
    BY EmptyList
  <2> QED BY <1>2, <1>3, <2>1 DEF SleepersAre, WaitersAre, DeadAre
<1>7. Facts(k, {})
  <2>1. \A s \in Slots : k.pid[s] > 0 => Slot(k.pid[s]) = s
    BY <1>3, SlotOfSlot
  <2>2. \A s \in Slots : k.pid[s] < 2 * MAX_PROC
    <3>1. \A s \in Slots : s \in Nat /\ s < MAX_PROC
      BY Constants DEF Slots
    <3>2. \A s \in Slots : k.pid[s] = s \/ k.pid[s] = 0
      BY <1>3
    <3> QED BY <3>1, <3>2, Constants
  <2> QED BY <1>2, <1>3, <2>1, <2>2 DEF Facts
<1>8. Handed(k)
  <2>1. Sound(k, {})
    BY <1>1, <1>5, <1>6, <1>7 DEF Sound, Lists, k
  <2> QED BY <1>1, <1>2, <1>3, <2>1 DEF Handed, k
<1> QED BY <1>8 DEF k

(* SYS_YIELD.                                                              *)
LEMMA YieldHands ==
  ASSUME Handed(kern), Yield PROVE Handed(kern)'
<1> DEFINE r == ready(kern, Running)
<1>1. Sound(kern, {}) /\ Loose(kern, Running) /\ Runners(kern) = {Running} /\ kern \in KernelType
  BY HandedIs DEF Running
<1>2. Sound(r, {} \ {Running}) /\ r.state = [kern.state EXCEPT ![Running] = "READY"]
  BY <1>1, ready_Sound
<1>3. Serve(Dispatch(r))
  BY DEF Yield
<1> HIDE DEF r
<1>4. Sound(r, {}) /\ Runners(r) = {}
  <2>1. {} \ {Running} = {}
    OBVIOUS
  <2> QED BY <1>1, <1>2, <2>1 DEF Runners, KernelType
<1> QED BY <1>3, <1>4, ServeDispatch

(* SYS_GETPID.                                                             *)
LEMMA GetPidHands ==
  ASSUME Handed(kern), GetPid PROVE Handed(kern)'
<1> DEFINE n == Code(kern.pid[Running])
           r == [kern EXCEPT !.ret[Running] = n]
<1>1. Sound(kern, {}) /\ kern.state[Running] = "RUNNING" /\ kern \in KernelType
      /\ Running \in Slots /\ OneRuns(kern)
  BY HandedIs DEF Running
<1>2. n \in Int
  BY <1>1, PidIsNat, CodeIsInt
<1> HIDE DEF n
<1>3. Sound(r, {})
  BY <1>1, <1>2, SetRetSound
<1>4. r.que = kern.que /\ r.state = kern.state /\ r.next = kern.next
  BY <1>1 DEF KernelType
<1>5. Serve(r)
  BY DEF GetPid, n
<1> HIDE DEF r
<1>6. Handed(r)
  BY <1>1, <1>3, <1>4 DEF Handed, OneRuns
<1> QED BY <1>5, <1>6, ServeHands

(* The arguments of the caller's request are recorded.                     *)
LEMMA WithArgsSound ==
  ASSUME Handed(kern), NEW call \in {"none", "send", "recv"},
         NEW arg \in Nat, NEW buf \in Nat, NEW msg \in Nat
  PROVE  LET k == WithArgs(kern, Running, call, arg, buf, msg)
         IN  Sound(k, {}) /\ Runners(k) = {Running} /\ k.call[Running] = call
<1> DEFINE k == WithArgs(kern, Running, call, arg, buf, msg)
<1>1. Sound(kern, {}) /\ kern.state[Running] = "RUNNING" /\ kern \in KernelType
      /\ Running \in Slots /\ Runners(kern) = {Running} /\ Facts(kern, {})
  BY HandedIs DEF Running
<1>2. k \in KernelType
  BY <1>1, WithArgs_Keeps
<1>3. /\ k.fault = kern.fault /\ k.state = kern.state /\ k.pid = kern.pid /\ k.que = kern.que
      /\ k.next = kern.next /\ k.tail = kern.tail /\ k.headsleeper = kern.headsleeper
      /\ k.ret = kern.ret /\ k.call = [kern.call EXCEPT ![Running] = call]
  BY <1>1 DEF WithArgs, KernelType
<1> HIDE DEF k
<1>4. k.call[Running] = call /\ \A s \in Slots : s # Running => k.call[s] = kern.call[s]
  BY <1>1, <1>3 DEF KernelType
<1>5. \A s \in Slots \ {} : kern.state[s] = "BLOCKED" => InCall(k, s)
  BY <1>1, <1>3, <1>4 DEF Facts, InCall
<1>6. Sound(k, {})
  BY <1>1, <1>2, <1>3, <1>5, SameLists
<1> QED BY <1>1, <1>3, <1>4, <1>6 DEF Runners, k

(* SYS_SEND.                                                               *)
LEMMA SendHands ==
  ASSUME Workload, NEW d \in Nat, NEW buf \in BufLens, NEW msg \in MsgLens, NEW ok,
         Handed(kern), SendTo(d, buf, msg, ok)
  PROVE  Handed(kern)'
<1> DEFINE k == WithArgs(kern, Running, "send", d, buf, msg)
<1>1. PICK zero \in BOOLEAN : Serve(Dispatch(SysSend(k, Running, ok, zero)))
  BY DEF SendTo
<1>2. Running \in Slots /\ Running # IDLE /\ "stop" \notin Calls
  BY HandedIs DEF Running, SendTo, UserRequest, Request, Workload
<1>3. buf \in Nat /\ msg \in Nat /\ "send" \in {"none", "send", "recv"}
  BY KernelAssumption
<1>4. Sound(k, {}) /\ Runners(k) = {Running} /\ k.call[Running] = "send"
  BY <1>3, WithArgsSound
<1> HIDE DEF k
<1> DEFINE rc == validate(k, Running, k.arg[Running], ok)
           o  == IF rc < 0 THEN Outcome(k, rc, k.arg[Running]) ELSE send(k, Running, zero)
<1>5. Fine(k, o)
  <2>1. rc \in Int /\ Fine(k, send(k, Running, zero))
    BY <1>2, <1>4, validateIsInt, send_Fine
  <2> HIDE DEF rc
  <2>2. ASSUME rc < 0 PROVE Fine(k, Outcome(k, rc, k.arg[Running]))
    <3>1. ~(rc > 0)
      BY <2>1, <2>2
    <3> QED BY <1>4, <2>1, <3>1, FineIs
  <2> QED BY <2>1, <2>2
<1> DEFINE r == Finish(o, Running, SYS_SEND)
<1>6. SysSend(k, Running, ok, zero) = r
  BY DEF SysSend
<1> HIDE DEF o
<1>7. Sound(r, {}) /\ Runners(r) = {}
  <2>1. <<k.call[Running], SYS_SEND>> \in {<<"send", SYS_SEND>>, <<"recv", SYS_RECV>>}
    BY <1>4
  <2> QED BY <1>2, <1>4, <1>5, <2>1, Finish_Sound
<1> QED BY <1>1, <1>6, <1>7, ServeDispatch

(* SYS_RECV.                                                               *)
LEMMA ReceiveHands ==
  ASSUME Workload, NEW f \in Nat, NEW buf \in BufLens, NEW ok,
         Handed(kern), Receive(f, buf, ok)
  PROVE  Handed(kern)'
<1> DEFINE k == WithArgs(kern, Running, "recv", f, buf, 0)
<1>1. PICK G : Serve(Dispatch(SysRecv(k, Running, ok, G)))
  BY DEF Receive
<1>2. Running \in Slots /\ Running # IDLE /\ "stop" \notin Calls
  BY HandedIs DEF Running, Receive, UserRequest, Request, Workload
<1>3. buf \in Nat /\ 0 \in Nat /\ "recv" \in {"none", "send", "recv"}
  BY KernelAssumption
<1>4. Sound(k, {}) /\ Runners(k) = {Running} /\ k.call[Running] = "recv"
  BY <1>3, WithArgsSound
<1> HIDE DEF k
<1> DEFINE rc == validate(k, Running, k.arg[Running], ok)
           o  == IF rc < 0 THEN Outcome(k, rc, k.arg[Running])
                 ELSE IF k.arg[Running] = 0 THEN RecvAny(k, Running, G)
                 ELSE RecvFrom(k, Running, G)
<1>5. Fine(k, o)
  <2>1. rc \in Int /\ Fine(k, RecvAny(k, Running, G)) /\ Fine(k, RecvFrom(k, Running, G))
    BY <1>2, <1>4, validateIsInt, RecvAny_Fine, RecvFrom_Fine
  <2> HIDE DEF rc
  <2>2. ASSUME rc < 0 PROVE Fine(k, Outcome(k, rc, k.arg[Running]))
    <3>1. ~(rc > 0)
      BY <2>1, <2>2
    <3> QED BY <1>4, <2>1, <3>1, FineIs
  <2> QED BY <2>1, <2>2
<1> DEFINE r == Finish(o, Running, SYS_RECV)
<1>6. SysRecv(k, Running, ok, G) = r
  BY DEF SysRecv
<1> HIDE DEF o
<1>7. Sound(r, {}) /\ Runners(r) = {}
  <2>1. <<k.call[Running], SYS_RECV>> \in {<<"send", SYS_SEND>>, <<"recv", SYS_RECV>>}
    BY <1>4
  <2> QED BY <1>2, <1>4, <1>5, <2>1, Finish_Sound
<1> QED BY <1>1, <1>6, <1>7, ServeDispatch

(* remove() on dead_q, given the index of a slot: it finds the slot by its *)
(* first pid.                                                              *)
LEMMA remove_Dead ==
  ASSUME NEW k, Sound(k, {}), NEW i \in Pcbs, k.state[i] = "STOPPED",
         \A d : DeadAre(k, d) /\ i \in On(d) => k.pid[i] = i
  PROVE  LET r == remove(k, "dead_q", i)
         IN  /\ Sound(r, {}) /\ r.state = k.state /\ r.pid = k.pid /\ r.que["running"] = k.que["running"]
             /\ i \notin Members(r.next, r.que["dead_q"])
             /\ \A s \in Slots : k.state[s] # "STOPPED" => r.next[s] = k.next[s]
<1> DEFINE from  == k.que["dead_q"]
           r     == remove(k, "dead_q", i)
<1>1. k \in KernelType /\ Facts(k, {}) /\ IDLE \in Pcbs /\ Pcbs \subseteq Slots /\ "dead_q" \in QNames
  BY Constants DEF Sound, QNames
<1>2. PICK f, g, b, d : Lists(k, f, g, b, d)
  BY DEF Sound
<1>3. /\ \A s \in On(f) : s \in Pcbs /\ k.state[s] = "READY" /\ s \notin On(g) \cup On(b) \cup On(d)
      /\ \A s \in On(g) : s \in Pcbs /\ k.state[s] = "SLEEP" /\ s \notin On(f) \cup On(b) \cup On(d)
      /\ \A s \in On(b) : s \in Pcbs /\ k.state[s] = "BLOCKED" /\ s \notin On(f) \cup On(g) \cup On(d)
      /\ \A s \in On(d) : s \in Pcbs /\ k.state[s] = "STOPPED" /\ s \notin On(f) \cup On(g) \cup On(b)
  BY <1>1, <1>2, Disjoint
<1>4. List(k.next, from, d) /\ DeadAre(k, d)
  BY <1>2 DEF Lists, DeadAre
<1>5. \A s \in On(d) : k.pid[s] = i <=> s = i
  <2>1. \A s \in Slots : k.pid[s] = i => s = i
    <3>1. i \in Nat /\ i > 0 /\ Slot(i) = i
      BY <1>1, SlotOfSlot, Constants DEF Slots, Pcbs
    <3> QED BY <1>1, <3>1 DEF Facts
  <2> QED BY <1>1, <1>3, <1>4, <2>1
<1>6. \E e : /\ List(r.next, r.que["dead_q"], e) /\ On(e) \subseteq On(d) /\ i \notin On(e)
             /\ LinksOnly(k, r, "dead_q")
             /\ \A s \in Pcbs : s \notin On(d) => r.next[s] = k.next[s]
             /\ from = NULL => r.que["dead_q"] = NULL
  BY <1>1, <1>4, <1>5, remove_Is
<1>7. PICK e : /\ List(r.next, r.que["dead_q"], e) /\ On(e) \subseteq On(d) /\ i \notin On(e)
               /\ LinksOnly(k, r, "dead_q")
               /\ \A s \in Pcbs : s \notin On(d) => r.next[s] = k.next[s]
               /\ from = NULL => r.que["dead_q"] = NULL
  BY <1>6
<1>8. r \in KernelType
  BY <1>1, remove_Keeps
<1> HIDE DEF r
<1>9. /\ r.fault = k.fault /\ r.pid = k.pid /\ r.state = k.state /\ r.ret = k.ret /\ r.call = k.call
      /\ r.tail = k.tail /\ r.headsleeper = k.headsleeper
      /\ r.que["running"] = k.que["running"] /\ r.que["head"] = k.que["head"]
      /\ r.que["blocked_q"] = k.que["blocked_q"]
  BY <1>7 DEF QNames, LinksOnly
<1>10. SleepersAre(r, g)
  <2>1. SleepersAre(k, g) /\ \A s \in On(g) : r.next[s] = k.next[s]
    BY <1>2, <1>3, <1>7 DEF Lists
  <2>2. r.headsleeper = k.headsleeper /\ \A s \in Pcbs : r.state[s] = "SLEEP" <=> k.state[s] = "SLEEP"
    BY <1>9
  <2> QED BY <2>1, <2>2, SleepersKeep
<1>11. WaitersAre(r, b)
  <2>1. WaitersAre(k, b) /\ r.que["blocked_q"] = k.que["blocked_q"]
    BY <1>2, <1>9 DEF Lists
  <2>2. \A s \in On(b) : r.next[s] = k.next[s] /\ r.state[s] = k.state[s]
    BY <1>3, <1>7, <1>9
  <2> QED BY <2>1, <2>2, WaitersKeep
<1>12. ReadyIs(r, f)
  <2>1. \A s \in On(f) : r.next[s] = k.next[s]
    BY <1>3, <1>7
  <2>2. ReadyIs(k, f) /\ r.que["head"] = k.que["head"] /\ r.tail = k.tail
    BY <1>2, <1>9 DEF Lists
  <2>3. \A s \in Pcbs \ {IDLE} : r.state[s] = "READY" <=> k.state[s] = "READY"
    BY <1>9
  <2>4. IDLE \in On(f) => r.state[IDLE] = "READY"
    BY <1>3, <1>9
  <2> QED BY <2>1, <2>2, <2>3, <2>4, ReadyKeeps
<1>13. DeadAre(r, e)
  BY <1>4, <1>7, <1>9 DEF DeadAre
<1>14. Facts(r, {})
  BY <1>1, <1>9 DEF Facts, InCall
<1>15. i \notin Members(r.next, r.que["dead_q"])
  BY <1>7, ListIs
<1>16. \A s \in Slots : k.state[s] # "STOPPED" => r.next[s] = k.next[s]
  <2>1. \A s \in Slots : k.state[s] # "STOPPED" => s \in Pcbs /\ s \notin On(d)
    BY <1>1, <1>3 DEF Facts, Pcbs
  <2> QED BY <1>7, <2>1
<1> QED BY <1>8, <1>9, <1>10, <1>11, <1>12, <1>13, <1>14, <1>15, <1>16 DEF Sound, Lists, r

(* A stopped slot that is on no list gets its next pid.                    *)
LEMMA SetPidSound ==
  ASSUME NEW k, Sound(k, {}), NEW i \in Pcbs, k.state[i] = "STOPPED",
         i \notin Members(k.next, k.que["dead_q"]),
         NEW pid \in Pids, pid > 0, Slot(pid) = i, "stop" \in Calls => pid < 2 * MAX_PROC
  PROVE  LET r == [k EXCEPT !.pid[i] = pid] IN Sound(r, {}) /\ Loose(r, i)
<1> DEFINE r == [k EXCEPT !.pid[i] = pid]
<1>1. k \in KernelType /\ Facts(k, {}) /\ IDLE \in Pcbs /\ Pcbs \subseteq Slots /\ i \in Slots
  BY Constants DEF Sound
<1>2. /\ r \in KernelType
      /\ r.fault = k.fault /\ r.state = k.state /\ r.que = k.que /\ r.next = k.next
      /\ r.tail = k.tail /\ r.headsleeper = k.headsleeper /\ r.ret = k.ret /\ r.call = k.call
      /\ r.pid[i] = pid /\ \A s \in Slots : s # i => r.pid[s] = k.pid[s]
  BY <1>1 DEF KernelType
<1> HIDE DEF r
<1>3. PICK f, g, b, d : Lists(k, f, g, b, d)
  BY DEF Sound
<1>4. i \notin On(d) /\ On(d) \subseteq Pcbs /\ \A s \in On(b) : k.state[s] = "BLOCKED"
  BY <1>3, Found, ListFacts DEF Lists, DeadAre, WaitersAre
<1>5. DeadAre(r, d)
  <2>1. DeadAre(k, d) /\ r.que["dead_q"] = k.que["dead_q"]
    BY <1>2, <1>3 DEF Lists
  <2>2. \A s \in On(d) : r.next[s] = k.next[s] /\ r.state[s] = k.state[s] /\ r.pid[s] = k.pid[s]
    BY <1>1, <1>2, <1>4
  <2> QED BY <2>1, <2>2, DeadKeep
<1>6. ReadyIs(r, f) /\ SleepersAre(r, g) /\ WaitersAre(r, b)
  BY <1>2, <1>3 DEF Lists, ReadyIs, SleepersAre, WaitersAre
<1>7. Facts(r, {})
  <2>1. i # IDLE /\ i # 0 /\ 0 \in Slots
    BY <1>1, Constants DEF Facts, Pcbs, Slots
  <2>2. \A s \in Slots : r.pid[s] > 0 => Slot(r.pid[s]) = s
    BY <1>1, <1>2 DEF Facts
  <2>3. \A s \in Slots : r.pid[s] = 0 => r.state[s] = "STOPPED"
    BY <1>1, <1>2 DEF Facts
  <2>4. "stop" \in Calls => \A s \in Slots : r.pid[s] < 2 * MAX_PROC
    BY <1>1, <1>2 DEF Facts
  <2>5. r.pid[0] = 0 /\ r.pid[IDLE] = IDLE
    BY <1>1, <1>2, <2>1 DEF Facts
  <2> QED BY <1>1, <1>2, <2>2, <2>3, <2>4, <2>5 DEF Facts, InCall
<1>8. Sound(r, {})
  BY <1>2, <1>3, <1>5, <1>6, <1>7 DEF Sound, Lists
<1>9. Loose(r, i)
  <2>1. i \notin Members(r.next, r.que["blocked_q"])
    BY <1>2, <1>3, <1>4, Found
  <2> QED BY <1>2, <2>1 DEF Loose, Pids
<1> QED BY <1>8, <1>9 DEF r

(* The pid of the new process; and if its slot is on dead_q, in a workload *)
(* of the theorems, it has its first pid.                                  *)
LEMMA NextPid ==
  ASSUME Workload, NEW k, Sound(k, {}), NEW i \in Pcbs, k.state[i] = "STOPPED", NewPid(k, i) <= MaxPid
  PROVE  /\ NewPid(k, i) \in Pids /\ NewPid(k, i) > 0 /\ Slot(NewPid(k, i)) = i
         /\ "stop" \in Calls => NewPid(k, i) < 2 * MAX_PROC
         /\ \A d : DeadAre(k, d) /\ i \in On(d) => k.pid[i] = i
<1> DEFINE pid == NewPid(k, i)
           old == k.pid[i]
<1>1. k \in KernelType /\ Facts(k, {}) /\ PidsNameSlots(k) /\ i \in Slots /\ i \in Nat /\ i > 0
      /\ MAX_PROC \in Nat /\ MAX_PROC >= 3 /\ INT_MAX \in Nat
  <2>1. k \in KernelType /\ Facts(k, {}) /\ i \in Slots /\ i # 0
    BY Constants DEF Sound, Pcbs
  <2>2. i \in Nat /\ i > 0
    BY <2>1, Constants
  <2> QED BY <2>1, <2>2, Constants, ProcTableAssumption DEF Facts, PidsNameSlots
<1>2. pid \in Pids /\ pid \in Nat /\ (pid > 0 => Slot(pid) = i) /\ old \in Nat
  BY <1>1, NewPidNamesSlot, PidIsNat
<1>3. pid = i \/ pid = old + MAX_PROC
  BY DEF NewPid
<1>4. pid > 0
  BY <1>1, <1>2, <1>3
<1>5. "stop" \in Calls => pid < 2 * MAX_PROC
  <2>1. "stop" \in Calls => MaxPid < 2 * MAX_PROC
    BY DEF Workload
  <2>2. pid <= MaxPid /\ MaxPid \in Nat
    BY KernelAssumption
  <2> HIDE DEF pid
  <2> QED BY <1>1, <1>2, <2>1, <2>2
<1>6. ASSUME NEW d, DeadAre(k, d), i \in On(d) PROVE old = i
  <2>1. "stop" \in Calls
    <3>1. List(k.next, k.que["dead_q"], d)
      BY <1>6 DEF DeadAre
    <3>2. k.que["dead_q"] # NULL
      BY <1>6, <3>1, ListFacts
    <3> QED BY <1>6, <3>2 DEF DeadAre
  <2>2. old # 0 /\ old < 2 * MAX_PROC /\ INT_MAX > 3 * MAX_PROC
    BY <1>1, <1>6, <2>1 DEF DeadAre, Facts, Workload
  <2>3. Slot(old) = i
    BY <1>1, <1>2, <2>2 DEF Facts
  <2>4. pid = old + MAX_PROC
    <3>1. ~(old + MAX_PROC >= INT_MAX)
      BY <1>1, <1>2, <2>2
    <3> QED BY <2>3, <3>1 DEF NewPid
  <2> HIDE DEF pid, old
  <2>5. old < MAX_PROC
    BY <1>1, <1>2, <1>5, <2>1, <2>4
  <2>6. old \in Slots
    BY <1>1, <1>2, <2>5 DEF Slots
  <2> QED BY <2>3, <2>6, SlotOfSlot
<1> QED BY <1>2, <1>4, <1>5, <1>6

(* create() in two steps: the slot gets its new pid, and is made ready.     *)
LEMMA create_Is ==
  ASSUME Workload, NEW k, Handed(k), NEW i \in FreeSlots(k), NewPid(k, i) <= MaxPid, NEW allocated \in BOOLEAN
  PROVE  LET p  == k.que["running"]
             r  == remove(k, "dead_q", i)
             k1 == [r EXCEPT !.pid[i] = NewPid(k, i)]
         IN  /\ r \in KernelType /\ r.state = k.state
             /\ Sound(k1, {}) /\ Loose(k1, i) /\ k1.state = k.state /\ k1.que["running"] = p
             /\ (\A s \in Slots : k.state[s] # "STOPPED" => k1.next[s] = k.next[s])
             /\ create(k, p, i, allocated) =
                   IF ~allocated THEN [k1 EXCEPT !.ret[p] = -1]
                   ELSE [ready(k1, i) EXCEPT !.ret[p] = Code(NewPid(k, i))]
<1> DEFINE p   == k.que["running"]
           pid == NewPid(k, i)
           r   == remove(k, "dead_q", i)
           k1  == [r EXCEPT !.pid[i] = pid]
           k2  == [k1 EXCEPT !.state[i] = "READY"]
           k3  == ready(k2, i)
<1>1. /\ k \in KernelType /\ Sound(k, {}) /\ Facts(k, {}) /\ OneRuns(k)
      /\ p \in Slots /\ p \in Pcbs /\ k.state[p] = "RUNNING" /\ (p # IDLE => k.next[p] = NULL)
      /\ i \in Pcbs /\ i \in Slots /\ k.state[i] = "STOPPED"
  BY HandedIs, Constants DEF Handed, FreeSlots
<1>2. /\ pid \in Pids /\ pid \in Int /\ pid > 0 /\ Slot(pid) = i
      /\ "stop" \in Calls => pid < 2 * MAX_PROC
      /\ \A d : DeadAre(k, d) /\ i \in On(d) => k.pid[i] = i
  BY <1>1, NextPid DEF Pids
<1>3. create(k, p, i, allocated) =
        IF ~allocated THEN [k1 EXCEPT !.ret[p] = -1] ELSE [k3 EXCEPT !.ret[p] = Code(pid)]
  BY DEF create
<1> HIDE DEF p, pid
<1>4. /\ Sound(r, {}) /\ r.state = k.state /\ r.que["running"] = p
      /\ i \notin Members(r.next, r.que["dead_q"])
      /\ \A s \in Slots : k.state[s] # "STOPPED" => r.next[s] = k.next[s]
  BY <1>1, <1>2, remove_Dead DEF p
<1> HIDE DEF r
<1>5. Sound(k1, {}) /\ Loose(k1, i)
  BY <1>1, <1>2, <1>4, SetPidSound
<1>6. k1 \in KernelType /\ k1.state = k.state /\ k1.que["running"] = p /\ k1.next = r.next
  BY <1>4, <1>5 DEF Sound, KernelType
<1> HIDE DEF k1
<1>7. k3 = ready(k1, i)
  <2>1. /\ k2 = [k1 EXCEPT !.state[i] = "READY"] /\ k2.tail = k1.tail /\ k2.pid = k1.pid
        /\ k2.next = k1.next
    BY <1>6 DEF KernelType
  <2>2. [k2 EXCEPT !.next[i] = NULL, !.state[i] = "READY"] = [k1 EXCEPT !.next[i] = NULL, !.state[i] = "READY"]
    BY <1>6 DEF KernelType
  <2>3. Aligned(k2, i) <=> Aligned(k1, i)
    BY <2>1 DEF Aligned
  <2>4. Aligned(k1, i) /\ i # 0
    BY <1>1, <1>5, SoundAligned DEF Sound, Pcbs
  <2> DEFINE R(k0) == [k0 EXCEPT !.next[i] = NULL, !.state[i] = "READY"]
             Q(m, k0) == IF k0.pid[i] = IDLE THEN m
                         ELSE IF k0.tail # NULL
                         THEN [m EXCEPT !.next[k0.tail] = i, !.tail = i]
                         ELSE [m EXCEPT !.que["head"] = i, !.tail = i]
  <2>5. \A k0 : Aligned(k0, i) => ready(k0, i) = Q(R(k0), k0)
    BY <2>4 DEF ready
  <2>6. ready(k2, i) = Q(R(k2), k2) /\ ready(k1, i) = Q(R(k1), k1)
    BY <2>3, <2>4, <2>5
  <2> HIDE DEF k2
  <2>7. R(k2) = R(k1)
    BY <2>2
  <2> HIDE DEF R
  <2>8. Q(R(k2), k2) = Q(R(k1), k1)
    BY <2>1, <2>7
  <2> QED BY <2>6, <2>8
<1>8. (\A s \in Slots : k.state[s] # "STOPPED" => k1.next[s] = k.next[s]) /\ r \in KernelType
  BY <1>4, <1>6 DEF Sound
<1> QED BY <1>3, <1>4, <1>5, <1>6, <1>7, <1>8 DEF p, pid, r, k1

(* A new process, or none if the stack could not be allocated.             *)
LEMMA createSound ==
  ASSUME Workload, NEW k, Handed(k), NEW i \in FreeSlots(k), NewPid(k, i) <= MaxPid, NEW allocated \in BOOLEAN
  PROVE  Handed(create(k, k.que["running"], i, allocated))
<1> DEFINE p   == k.que["running"]
           pid == NewPid(k, i)
           k1  == [remove(k, "dead_q", i) EXCEPT !.pid[i] = pid]
           k3  == ready(k1, i)
<1>1. /\ k \in KernelType /\ Sound(k, {}) /\ Facts(k, {}) /\ OneRuns(k)
      /\ p \in Slots /\ p \in Pcbs /\ k.state[p] = "RUNNING" /\ (p # IDLE => k.next[p] = NULL)
      /\ i \in Pcbs /\ i \in Slots /\ k.state[i] = "STOPPED"
  BY HandedIs, Constants DEF Handed, FreeSlots
<1>2. pid \in Pids /\ pid \in Int
  BY <1>1, NextPid DEF Pids
<1>3. create(k, p, i, allocated) =
        IF ~allocated THEN [k1 EXCEPT !.ret[p] = -1] ELSE [k3 EXCEPT !.ret[p] = Code(pid)]
  BY create_Is
<1>4. Sound(k1, {}) /\ Loose(k1, i) /\ k1.state = k.state /\ k1.que["running"] = p
  BY create_Is
<1>5. \A s \in Slots : k.state[s] # "STOPPED" => k1.next[s] = k.next[s]
  BY create_Is
<1>6. k1 \in KernelType
  BY <1>4 DEF Sound
<1> HIDE DEF p, pid, k1
<1>7. k3 = ready(k1, i)
  OBVIOUS
<1> HIDE DEF k3
<1>8. /\ Sound(k3, {}) /\ k3.state = [k1.state EXCEPT ![i] = "READY"] /\ k3.que["running"] = p
      /\ \A s \in Slots : s # i /\ k.state[s] # "READY" => k3.next[s] = k1.next[s]
  <2> DEFINE m == ready(k1, i)
  <2>1. Sound(m, {} \ {i}) /\ m.que["running"] = k1.que["running"]
        /\ m.state = [k1.state EXCEPT ![i] = "READY"]
    BY <1>4, ready_Sound
  <2>2. \A s \in Slots : s # i /\ k1.state[s] # "READY" => m.next[s] = k1.next[s]
    BY <1>4, ready_Links
  <2>3. {} \ {i} = {}
    OBVIOUS
  <2> HIDE DEF m
  <2> QED BY <1>4, <1>6, <1>7, <2>1, <2>2, <2>3 DEF m
<1>9. \A m, n : /\ Sound(m, {}) /\ n \in Int /\ m.que["running"] = p
                /\ \A s \in Slots : m.state[s] = "RUNNING" <=> s = p
                /\ p # IDLE => m.next[p] = NULL
                => Handed([m EXCEPT !.ret[p] = n])
  <2> TAKE m, n
  <2> HAVE /\ Sound(m, {}) /\ n \in Int /\ m.que["running"] = p
           /\ \A s \in Slots : m.state[s] = "RUNNING" <=> s = p
           /\ p # IDLE => m.next[p] = NULL
  <2> DEFINE w == [m EXCEPT !.ret[p] = n]
  <2>1. Sound(w, {})
    BY <1>1, SetRetSound
  <2>2. w.que = m.que /\ w.state = m.state /\ w.next = m.next
    BY DEF Sound, KernelType
  <2> HIDE DEF w
  <2>3. Handed(w)
    BY <1>1, <2>1, <2>2 DEF Handed, OneRuns
  <2> QED BY <2>3 DEF w
<1>10. (\A s \in Slots : k.state[s] = "RUNNING" <=> s = p) /\ p # i /\ (p # IDLE => k1.next[p] = NULL)
  BY <1>1, <1>4, <1>5 DEF OneRuns, p
<1>11. Handed([k1 EXCEPT !.ret[p] = -1])
  BY <1>4, <1>9, <1>10
<1>12. Handed([k3 EXCEPT !.ret[p] = Code(pid)])
  <2>1. \A s \in Slots : k3.state[s] = "RUNNING" <=> s = p
    BY <1>1, <1>4, <1>8, <1>10 DEF KernelType
  <2>2. p # IDLE => k3.next[p] = NULL
    BY <1>1, <1>8, <1>10
  <2>3. Code(pid) \in Int
    BY <1>2, CodeIsInt
  <2> QED BY <1>8, <1>9, <2>1, <2>2, <2>3
<1> QED BY <1>3, <1>11, <1>12 DEF p

(* With a full table there is nobody on dead_q.                            *)
LEMMA NobodyDead ==
  ASSUME NEW k, Sound(k, {}), FreeSlots(k) = {}
  PROVE  k.que["dead_q"] = NULL
<1>1. PICK f, g, b, d : Lists(k, f, g, b, d)
  BY DEF Sound
<1>2. List(k.next, k.que["dead_q"], d) /\ \A s \in On(d) : k.state[s] = "STOPPED"
  BY <1>1 DEF Lists, DeadAre
<1>3. On(d) = {}
  BY <1>2, ListFacts DEF FreeSlots
<1> QED BY <1>2, <1>3, ListFacts

(* SYS_CREATE, also with a full table.                                     *)
LEMMA CreateHands ==
  ASSUME Workload, Handed(kern), Create PROVE Handed(kern)'
<1>1. /\ kern \in KernelType /\ Sound(kern, {}) /\ Facts(kern, {}) /\ OneRuns(kern)
      /\ Running \in Slots /\ kern.state[Running] = "RUNNING"
  BY HandedIs DEF Running
<1>2. CASE FreeSlots(kern) = {}
  <2>1. kern.que["dead_q"] = NULL
    BY <1>1, <1>2, NobodyDead
  <2>2. remove(kern, "dead_q", MAX_PROC) = kern
    BY <2>1 DEF remove, QNames
  <2> DEFINE r == [kern EXCEPT !.ret[Running] = -1]
  <2>3. Serve(r)
    BY <1>2, <2>2 DEF Create
  <2>4. Sound(r, {})
    <3>1. -1 \in Int /\ kern.state[Running] # "BLOCKED"
      BY <1>1
    <3> QED BY <1>1, <3>1, SetRetSound
  <2>5. r.que = kern.que /\ r.state = kern.state /\ r.next = kern.next
    BY <1>1 DEF KernelType
  <2> HIDE DEF r
  <2>6. Handed(r)
    BY <1>1, <2>4, <2>5 DEF Handed, OneRuns
  <2> QED BY <2>3, <2>6, ServeHands
<1>3. CASE FreeSlots(kern) # {}
  <2> DEFINE i == CHOOSE s \in FreeSlots(kern) : \A r \in FreeSlots(kern) : s <= r
  <2>1. NewPid(kern, i) <= MaxPid
        /\ \E allocated \in {TRUE, ~AllocMayFail} : Serve(create(kern, Running, i, allocated))
    BY <1>3 DEF Create
  <2>2. i \in FreeSlots(kern)
    <3>1. FreeSlots(kern) \subseteq Nat
      BY Constants DEF FreeSlots
    <3> QED BY <1>3, <3>1, HasMinimum
  <2> HIDE DEF i
  <2>3. PICK allocated \in {TRUE, ~AllocMayFail} : Serve(create(kern, Running, i, allocated))
    BY <2>1
  <2>4. allocated \in BOOLEAN
    OBVIOUS
  <2>5. Handed(create(kern, Running, i, allocated))
    BY <2>1, <2>2, <2>4, createSound DEF Running
  <2> QED BY <2>3, <2>5, ServeHands
<1> QED BY <1>2, <1>3

(* With nobody on blocked_q notify_waiters() finds nothing.                *)
LEMMA NobodyNotified ==
  ASSUME "stop" \in Calls, NEW k, NEW X, Sound(k, X), NEW pid, NEW G
  PROVE  notify_waiters(k, pid, G) = k
<1>1. PICK f, g, b, d : Lists(k, f, g, b, d)
  BY DEF Sound
<1>2. List(k.next, k.que["blocked_q"], b) /\ k.que["blocked_q"] = NULL
  BY <1>1 DEF Lists, WaitersAre
<1>3. Members(k.next, k.que["blocked_q"]) = {} /\ ~Endless(k.next, k.que["blocked_q"])
  BY <1>2, ListIs, ListFacts
<1> DEFINE at   == Chain(k.next, k.que["blocked_q"])
           hits == {n \in 0 .. MAX_PROC : at[n] \in Pcbs /\ WaitsOn(k, at[n], pid, n = 0, G)}
<1>4. \A n \in 0 .. MAX_PROC : at[n] \notin Pcbs
  BY <1>3 DEF Members
<1>5. at[MAX_PROC] = NULL
  BY <1>3 DEF Endless
<1>6. hits = {}
  BY <1>4
<1> QED BY <1>5, <1>6 DEF notify_waiters

(* SYS_STOP: nobody is on blocked_q, and notify_waiters() finds nothing.   *)
LEMMA StopHands ==
  ASSUME Workload, Handed(kern), Stop PROVE Handed(kern)'
<1> DEFINE k == Stopped(kern, Running)
<1>1. Sound(kern, {}) /\ Running \in Slots /\ Runners(kern) = {Running} /\ Running # IDLE
      /\ "stop" \in Calls
  BY HandedIs DEF Running, Stop, StopWith, UserRequest, Request
<1>2. Sound(k, {}) /\ Runners(k) = {}
  BY <1>1, Stopped_Sound
<1>3. PICK G : Serve(Dispatch(notify_waiters(k, kern.pid[Running], G)))
  BY DEF Stop, StopWith
<1> HIDE DEF k
<1>4. notify_waiters(k, kern.pid[Running], G) = k
  BY <1>1, <1>2, NobodyNotified
<1> QED BY <1>2, <1>3, <1>4, ServeDispatch

-----------------------------------------------------------------------------
(* The walk of sleep() ends on the list of sleepers, at a pcb, and the     *)
(* caller is linked in behind it, or in front of all.                      *)
LEMMA sleep_Walk ==
  ASSUME NEW next, NEW h, NEW g, List(next, h, g), h # NULL, NEW acc, NEW t, NEW at, at = Chain(next, h)
  PROVE  /\ ~ \A i \in 1 .. MAX_PROC : at[i] # NULL /\ acc[i] < t
         /\ \A n \in 1 .. MAX_PROC : (\A j \in 1 .. n - 1 : at[j] # NULL /\ acc[j] < t) => at[n - 1] \in On(g)
<1>1. Len(g) \in 1 .. MAX_PROC /\ Len(g) \in Nat /\ MAX_PROC \in Nat
  BY ListFacts, ListIsShort, Constants
<1>2. \A i \in 0 .. MAX_PROC : at[i] = IF i < Len(g) THEN g[i + 1] ELSE NULL
  BY ListChain
<1>3. at[Len(g)] = NULL
  BY <1>1, <1>2
<1>4. ASSUME NEW n \in 1 .. MAX_PROC, \A j \in 1 .. n - 1 : at[j] # NULL /\ acc[j] < t
      PROVE  at[n - 1] \in On(g)
  <2>2. n - 1 \in 0 .. MAX_PROC /\ (n - 1) + 1 = n /\ n \in Nat
    BY <1>1, <1>4
  <2>3. at[n - 1] # NULL
    <3>1. CASE n = 1
      <4>1. 0 \in 0 .. MAX_PROC /\ n - 1 = 0 /\ 0 < Len(g) /\ 0 + 1 = 1
        BY <1>1, <3>1
      <4>2. at[0] = g[1]
        BY <1>2, <4>1
      <4>3. h = g[1]
        BY ListFacts
      <4> QED BY <4>1, <4>2, <4>3
    <3>2. CASE n # 1
      <4>1. n - 1 \in 1 .. n - 1
        BY <1>1, <1>4, <3>2
      <4> QED BY <1>4, <4>1
    <3> QED BY <3>1, <3>2
  <2>4. n - 1 < Len(g)
    BY <1>2, <2>2, <2>3
  <2>5. at[n - 1] = g[n] /\ n \in 1 .. Len(g)
    BY <1>1, <1>2, <1>4, <2>2, <2>4
  <2> QED BY <2>5 DEF On
<1> QED BY <1>1, <1>3, <1>4

(* The sums of the walk, as a function of its own: they exist, and they    *)
(* are numbers.                                                            *)
Sums(k, at, m, g) ==
  g = [n \in 0 .. m |->
         IF at[n] = NULL THEN IF n = 0 THEN 0 ELSE g[n - 1]
         ELSE k.sleepticks[at[n]] + (IF n = 0 THEN 0 ELSE g[n - 1])]

(* There are sums of every length, as for WalkExists.                      *)
LEMMA SumsExist ==
  ASSUME NEW k, NEW at, NEW m \in Nat PROVE \E g : Sums(k, at, m, g)
<1> DEFINE Bad == {n \in Nat : ~ \E g : Sums(k, at, n, g)}
           Sum(g, n) == IF at[n] = NULL THEN IF n = 0 THEN 0 ELSE g[n - 1]
                        ELSE k.sleepticks[at[n]] + (IF n = 0 THEN 0 ELSE g[n - 1])
<1>1. SUFFICES Bad = {}
  OBVIOUS
<1>2. SUFFICES ASSUME Bad # {} PROVE FALSE
  OBVIOUS
<1>3. PICK n \in Bad : \A i \in Bad : n <= i
  <2>1. Bad \subseteq Nat
    OBVIOUS
  <2> HIDE DEF Bad
  <2> QED BY <1>2, <2>1, HasMinimum
<1>4. n # 0
  <2> DEFINE c == IF at[0] = NULL THEN 0 ELSE k.sleepticks[at[0]] + 0
             f == [i \in 0 .. 0 |-> c]
  <2>1. \A i \in 0 .. 0 : i = 0 /\ Sum(f, i) = c
    OBVIOUS
  <2>2. f = [i \in 0 .. 0 |-> Sum(f, i)]
    BY <2>1
  <2>3. Sums(k, at, 0, f)
    BY <2>2 DEF Sums
  <2> QED BY <2>3
<1>5. n \in Nat /\ n - 1 \in Nat /\ n - 1 \notin Bad
  BY <1>3, <1>4
<1>6. PICK g : Sums(k, at, n - 1, g)
  BY <1>5
<1> DEFINE h == [i \in 0 .. n |-> Sum(g, i)]
<1>7. \A i \in 0 .. n - 1 : h[i] = g[i]
  BY <1>5, <1>6 DEF Sums
<1>8. Sums(k, at, n, h)
  <2>1. \A i \in 0 .. n : i # 0 => i - 1 \in 0 .. n - 1
    BY <1>5
  <2>2. \A i \in 0 .. n : i # 0 => h[i - 1] = g[i - 1]
    BY <1>7, <2>1
  <2> DEFINE e == h
  <2>3. \A i \in 0 .. n : Sum(e, i) = Sum(g, i)
    <3> TAKE i \in 0 .. n
    <3>1. i # 0 => e[i - 1] = g[i - 1]
      BY <2>2
    <3> HIDE DEF e
    <3> QED BY <3>1
  <2>4. h = [i \in 0 .. n |-> Sum(h, i)]
    BY <2>3
  <2> QED BY <2>4 DEF Sums
<1> QED BY <1>3, <1>8

(* The ticks that sleep() compares, by their recursion.                    *)
LEMMA AccumulatedIs ==
  ASSUME NEW k, NEW at, NEW acc, acc = Accumulated(k, at)
  PROVE  \A n \in 0 .. MAX_PROC :
           acc[n] = IF at[n] = NULL THEN IF n = 0 THEN 0 ELSE acc[n - 1]
                    ELSE k.sleepticks[at[n]] + (IF n = 0 THEN 0 ELSE acc[n - 1])
<1>1. \E g : Sums(k, at, MAX_PROC, g)
  BY Constants, SumsExist
<1>2. Sums(k, at, MAX_PROC, acc)
  BY <1>1 DEF Accumulated, Sums
<1> QED BY <1>2 DEF Sums

(* They are numbers.                                                       *)
LEMMA AccumulatedIsNat ==
  ASSUME NEW k, k.sleepticks \in [Slots -> Ticks],
         NEW at, \A n \in 0 .. MAX_PROC : at[n] = NULL \/ at[n] \in Slots
  PROVE  \A n \in 0 .. MAX_PROC : Accumulated(k, at)[n] \in Nat
<1> DEFINE acc == Accumulated(k, at)
           Bad == {n \in 0 .. MAX_PROC : acc[n] \notin Nat}
<1>1. MAX_PROC \in Nat
  BY Constants
<1>2. acc = Accumulated(k, at)
  OBVIOUS
<1> HIDE DEF acc
<1>3. \A n \in 0 .. MAX_PROC :
        acc[n] = IF at[n] = NULL THEN IF n = 0 THEN 0 ELSE acc[n - 1]
                 ELSE k.sleepticks[at[n]] + (IF n = 0 THEN 0 ELSE acc[n - 1])
  BY <1>2, AccumulatedIs
<1>4. SUFFICES ASSUME Bad # {} PROVE FALSE
  BY DEF acc
<1>5. PICK n \in Bad : \A i \in Bad : n <= i
  <2>1. Bad \subseteq Nat
    OBVIOUS
  <2> HIDE DEF Bad
  <2> QED BY <1>4, <2>1, HasMinimum
<1>6. n \in 0 .. MAX_PROC /\ acc[n] \notin Nat /\ (n # 0 => acc[n - 1] \in Nat)
  <2>1. n \in 0 .. MAX_PROC /\ n \in Nat
    BY <1>1, <1>5
  <2>2. n # 0 => n - 1 \in 0 .. MAX_PROC /\ ~(n <= n - 1)
    BY <1>1, <2>1
  <2> QED BY <1>5, <2>1, <2>2
<1>7. at[n] = NULL \/ k.sleepticks[at[n]] \in Nat
  <2>1. Ticks \subseteq Nat
    BY SleepListAssumption DEF Ticks
  <2> QED BY <1>6, <2>1
<1> QED BY <1>3, <1>6, <1>7

(* What sleep() stores: the caller in front of the list, or behind the pcb *)
(* prev with rest ticks.                                                   *)
Napping(k, p, t) == [k EXCEPT !.next[p] = NULL, !.state[p] = "SLEEP", !.sleepticks[p] = t]

InFront(k, p, h, t) ==
    [k EXCEPT !.next[p] = h, !.headsleeper = p, !.sleepticks = Shorten(@, h, t)]

Behind(k, p, prev, rest) ==
    [k EXCEPT !.next = Between(@, prev, p, k.next[prev]),
              !.sleepticks = Shorten([@ EXCEPT ![p] = rest], k.next[prev], rest)]

(* Where sleep() links the caller in: in front of the list, or behind the  *)
(* pcb where the walk has stopped.                                         *)
LEMMA sleep_Shape ==
  ASSUME NEW k \in KernelType, NEW p \in Pcbs, NEW ms \in Nat,
         NEW g, List(k.next, k.headsleeper, g), p \notin On(g),
         NEW t, t = milliseconds_to_ticks(ms),
         NEW k1, k1 = Napping(k, p, t),
         NEW h, h = k.headsleeper, NEW at, at = Chain(k1.next, h), NEW acc, acc = Accumulated(k1, at)
  PROVE      /\ t \in Ticks /\ k1 \in KernelType /\ List(k1.next, h, g)
             /\ \/ /\ h = NULL \/ ~(k1.sleepticks[h] < t)
                   /\ sleep(k, p, ms) = InFront(k1, p, h, t)
                \/ /\ h # NULL /\ k1.sleepticks[h] < t
                   /\ \E n \in 1 .. MAX_PROC :
                         /\ at[n] = NULL \/ acc[n] >= t
                         /\ \A j \in 1 .. n - 1 : at[j] # NULL /\ acc[j] < t
                         /\ at[n - 1] \in On(g)
                         /\ sleep(k, p, ms) = Behind(k1, p, at[n - 1], Minus(t, acc[n - 1]))
<1> DEFINE n    == CHOOSE i \in 1 .. MAX_PROC :
                       /\ at[i] = NULL \/ acc[i] >= t
                       /\ \A j \in 1 .. i - 1 : at[j] # NULL /\ acc[j] < t
           prev == at[n - 1]
           succ == Step(k1.next, prev)
           rest == Minus(t, acc[n - 1])
           further == [k1 EXCEPT !.next = Between(@, prev, p, succ),
                                 !.sleepticks = Shorten([@ EXCEPT ![p] = rest], succ, rest)]
           first   == [k1 EXCEPT !.next[p] = h, !.headsleeper = p,
                                 !.sleepticks = Shorten(@, h, t)]
           r == sleep(k, p, ms)
<1>1. r = IF h # NULL /\ k1.sleepticks[h] < t
          THEN IF \A i \in 1 .. MAX_PROC : at[i] # NULL /\ acc[i] < t THEN Fault(k, "loop")
               ELSE further
          ELSE first
  BY DEF sleep, Napping
<1> HIDE DEF r
<1>2. t \in Ticks /\ k1 \in KernelType
  BY TicksOfMilliseconds DEF KernelType, States, Ptr, Napping
<1>3. /\ k1.fault = k.fault /\ k1.pid = k.pid /\ k1.que = k.que /\ k1.tail = k.tail
      /\ k1.ret = k.ret /\ k1.call = k.call /\ k1.headsleeper = h
      /\ k1.state = [k.state EXCEPT ![p] = "SLEEP"]
      /\ k1.next = [k.next EXCEPT ![p] = NULL]
  BY DEF KernelType, Napping
<1>4. p \in Slots /\ Pcbs \subseteq Slots /\ On(g) \subseteq Pcbs /\ k1.next \in [Slots -> Ptr]
      /\ \A s \in Slots : s # p => k1.next[s] = k.next[s]
  <2>1. k1.next \in [Slots -> Ptr] /\ k.next \in [Slots -> Ptr]
    BY <1>2 DEF KernelType
  <2>2. On(g) \subseteq Pcbs
    BY ListFacts
  <2> QED BY <1>3, <2>1, <2>2, Constants
<1>5. List(k1.next, h, g)
  <2>1. (\A s \in On(g) : k1.next[s] = k.next[s]) /\ List(k.next, k.headsleeper, g)
    BY <1>4
  <2>2. List(k1.next, k.headsleeper, g)
    BY <2>1, ListSame
  <2> QED BY <2>2
<1>7. CASE h # NULL /\ k1.sleepticks[h] < t
  <2>1. /\ ~ \A i \in 1 .. MAX_PROC : at[i] # NULL /\ acc[i] < t
        /\ \A i \in 1 .. MAX_PROC : (\A j \in 1 .. i - 1 : at[j] # NULL /\ acc[j] < t) => at[i - 1] \in On(g)
    <3>1. at = Chain(k1.next, h)
      OBVIOUS
    <3> QED BY <1>5, <1>7, <3>1, sleep_Walk
  <2>2. \A i \in 1 .. MAX_PROC : acc[i] \in Nat
    <3>1. \A i \in 0 .. MAX_PROC : at[i] = NULL \/ at[i] \in Slots
      <4>1. \A i \in 0 .. MAX_PROC : at[i] = IF i < Len(g) THEN g[i + 1] ELSE NULL
        BY <1>5, ListChain
      <4>2. Len(g) \in Nat /\ \A i \in 1 .. Len(g) : g[i] \in Slots
        BY <1>4, <1>5, ListFacts DEF On
      <4>3. \A i \in 0 .. MAX_PROC : i < Len(g) => i + 1 \in 1 .. Len(g)
        BY <4>2, Constants
      <4> QED BY <4>1, <4>2, <4>3
    <3>2. k1.sleepticks \in [Slots -> Ticks]
      BY <1>2 DEF KernelType
    <3>3. \A i \in 0 .. MAX_PROC : acc[i] \in Nat
      BY <3>1, <3>2, AccumulatedIsNat
    <3> QED BY <3>3, Constants
  <2>3. t \in Nat /\ MAX_PROC \in Nat
    BY <1>2, Constants, SleepListAssumption DEF Ticks
  <2>4. \E i \in 1 .. MAX_PROC : /\ at[i] = NULL \/ acc[i] >= t
                                 /\ \A j \in 1 .. i - 1 : at[j] # NULL /\ acc[j] < t
    <3> DEFINE stops == {i \in 1 .. MAX_PROC : at[i] = NULL \/ acc[i] >= t}
    <3>1. stops # {} /\ stops \subseteq Nat
      BY <2>1, <2>2, <2>3
    <3>2. \A i \in 1 .. MAX_PROC : i \notin stops => at[i] # NULL /\ acc[i] < t
      BY <2>2, <2>3
    <3>3. \A i \in stops : i \in 1 .. MAX_PROC /\ (at[i] = NULL \/ acc[i] >= t)
      OBVIOUS
    <3> HIDE DEF stops
    <3>4. PICK i \in stops : \A j \in stops : i <= j
      BY <3>1, HasMinimum
    <3>5. \A j \in 1 .. i - 1 : j \in 1 .. MAX_PROC /\ ~(i <= j)
      BY <2>3, <3>3, <3>4
    <3> QED BY <3>2, <3>3, <3>4, <3>5
  <2>5. n \in 1 .. MAX_PROC /\ prev \in On(g) /\ (at[n] = NULL \/ acc[n] >= t)
        /\ \A j \in 1 .. n - 1 : at[j] # NULL /\ acc[j] < t
    BY <2>1, <2>4
  <2>6. r = further
    BY <1>1, <1>7, <2>1
  <2>7. succ = k1.next[prev]
    BY <1>4, <2>5 DEF Step
  <2> HIDE DEF n
  <2>8. /\ n \in 1 .. MAX_PROC /\ (at[n] = NULL \/ acc[n] >= t)
        /\ (\A j \in 1 .. n - 1 : at[j] # NULL /\ acc[j] < t) /\ at[n - 1] \in On(g)
        /\ r = Behind(k1, p, at[n - 1], Minus(t, acc[n - 1]))
    BY <2>5, <2>6, <2>7 DEF Behind
  <2> QED BY <1>2, <1>5, <1>7, <2>8 DEF r
<1>8. CASE ~(h # NULL /\ k1.sleepticks[h] < t)
  BY <1>1, <1>2, <1>5, <1>8 DEF r, InFront
<1> QED BY <1>7, <1>8

(* sleep() links the caller into the list of sleepers.                     *)
LEMMA sleep_Is ==
  ASSUME NEW k \in KernelType, NEW p \in Pcbs, NEW ms \in Nat,
         NEW g, List(k.next, k.headsleeper, g), p \notin On(g)
  PROVE  LET r == sleep(k, p, ms)
         IN  /\ r.fault = k.fault /\ r.pid = k.pid /\ r.que = k.que /\ r.tail = k.tail
             /\ r.ret = k.ret /\ r.call = k.call
             /\ r.state[p] = "SLEEP" /\ \A s \in Slots : s # p => r.state[s] = k.state[s]
             /\ \E e : /\ List(r.next, r.headsleeper, e) /\ On(e) = On(g) \cup {p}
                       /\ \A s \in Slots : s \notin On(e) => r.next[s] = k.next[s]
<1> DEFINE t    == milliseconds_to_ticks(ms)
           k1   == Napping(k, p, t)
           h    == k.headsleeper
           at   == Chain(k1.next, h)
           acc  == Accumulated(k1, at)
           r == sleep(k, p, ms)
<1>1. \/ r = InFront(k1, p, h, t)
      \/ \E n \in 1 .. MAX_PROC : /\ at[n - 1] \in On(g)
                                 /\ r = Behind(k1, p, at[n - 1], Minus(t, acc[n - 1]))
  <2>1. /\ t = milliseconds_to_ticks(ms) /\ h = k.headsleeper /\ k1 = Napping(k, p, t)
        /\ at = Chain(k1.next, h) /\ acc = Accumulated(k1, at) /\ r = sleep(k, p, ms)
    OBVIOUS
  <2>2. List(k.next, k.headsleeper, g) /\ p \notin On(g)
    OBVIOUS
  <2> HIDE DEF r, at, acc, k1, t, h
  <2> QED BY <2>1, <2>2, sleep_Shape
<1> HIDE DEF r, at, acc
<1>2. t \in Ticks /\ k1 \in KernelType
  BY TicksOfMilliseconds DEF KernelType, States, Ptr, Napping
<1>3. /\ k1.fault = k.fault /\ k1.pid = k.pid /\ k1.que = k.que /\ k1.tail = k.tail
      /\ k1.ret = k.ret /\ k1.call = k.call /\ k1.headsleeper = h
      /\ k1.state = [k.state EXCEPT ![p] = "SLEEP"]
      /\ k1.next = [k.next EXCEPT ![p] = NULL]
  BY DEF KernelType, Napping
<1> HIDE DEF t, k1
<1>4. p \in Slots /\ Pcbs \subseteq Slots /\ On(g) \subseteq Pcbs /\ k1.next \in [Slots -> Ptr]
      /\ \A s \in Slots : s # p => k1.next[s] = k.next[s]
  <2>1. k1.next \in [Slots -> Ptr] /\ k.next \in [Slots -> Ptr]
    BY <1>2 DEF KernelType
  <2>2. On(g) \subseteq Pcbs
    BY ListFacts
  <2> QED BY <1>3, <2>1, <2>2, Constants
<1>5. List(k1.next, h, g)
  <2>1. \A s \in On(g) : k1.next[s] = k.next[s]
    BY <1>4
  <2> QED BY <2>1, ListSame
<1>6. k1.state[p] = "SLEEP" /\ \A s \in Slots : s # p => k1.state[s] = k.state[s]
  BY <1>2, <1>3, <1>4 DEF KernelType
<1>7. CASE ~(r = InFront(k1, p, h, t))
  <2>5. PICK n \in 1 .. MAX_PROC : /\ at[n - 1] \in On(g)
                                   /\ r = Behind(k1, p, at[n - 1], Minus(t, acc[n - 1]))
    BY <1>1, <1>7
  <2> DEFINE prev == at[n - 1]
             rest == Minus(t, acc[n - 1])
             succ == k1.next[prev]
  <2>6. r = [k1 EXCEPT !.next = Between(@, prev, p, succ),
                       !.sleepticks = Shorten([@ EXCEPT ![p] = rest], succ, rest)]
    BY <2>5 DEF Behind
  <2> HIDE DEF rest
  <2>7. succ = k1.next[prev] /\ prev \in Slots /\ prev # p /\ prev \in On(g)
    BY <1>4, <2>5
  <2> HIDE DEF succ, prev
  <2>8. /\ r.fault = k1.fault /\ r.pid = k1.pid /\ r.que = k1.que /\ r.tail = k1.tail
        /\ r.ret = k1.ret /\ r.call = k1.call /\ r.state = k1.state /\ r.headsleeper = h
        /\ r.next = [[k1.next EXCEPT ![p] = succ] EXCEPT ![prev] = p]
    BY <1>2, <1>3, <2>6 DEF KernelType, Between
  <2>9. /\ r.next[p] = k1.next[prev] /\ r.next[prev] = p
        /\ \A s \in Slots : s # prev /\ s # p => r.next[s] = k1.next[s]
    BY <1>4, <2>7, <2>8
  <2>10. \E e : List(r.next, h, e) /\ On(e) = On(g) \cup {p}
    <3>1. \A s \in On(g) : s # prev => r.next[s] = k1.next[s]
      BY <1>4, <2>9
    <3>2. r.next[p] = k1.next[prev] /\ r.next[prev] = p
      BY <2>9
    <3> QED BY <1>5, <2>7, <3>1, <3>2, ListInsert
  <2>11. PICK e : List(r.next, h, e) /\ On(e) = On(g) \cup {p}
    BY <2>10
  <2>12. \A s \in Slots : s \notin On(e) => r.next[s] = k.next[s]
    BY <1>4, <2>7, <2>9, <2>11
  <2> QED BY <1>3, <1>6, <2>8, <2>11, <2>12 DEF r
<1>8. CASE r = InFront(k1, p, h, t)
  <2>1. r = [k1 EXCEPT !.next[p] = h, !.headsleeper = p, !.sleepticks = Shorten(@, h, t)]
    BY <1>8 DEF InFront
  <2>2. /\ r.fault = k1.fault /\ r.pid = k1.pid /\ r.que = k1.que /\ r.tail = k1.tail
        /\ r.ret = k1.ret /\ r.call = k1.call /\ r.state = k1.state /\ r.headsleeper = p
        /\ r.next = [k1.next EXCEPT ![p] = h]
    BY <1>2, <1>3, <2>1 DEF KernelType
  <2>3. r.next[p] = h /\ \A s \in Slots : s # p => r.next[s] = k1.next[s]
    BY <1>4, <2>2
  <2>4. \A s \in On(g) : r.next[s] = k1.next[s]
    BY <1>4, <2>3
  <2>5. \E e : List(r.next, p, e) /\ On(e) = On(g) \cup {p}
    BY <1>5, <2>3, <2>4, ListPush
  <2>6. PICK e : List(r.next, p, e) /\ On(e) = On(g) \cup {p}
    BY <2>5
  <2>7. \A s \in Slots : s \notin On(e) => r.next[s] = k.next[s]
    BY <1>4, <2>3, <2>6
  <2> QED BY <1>3, <1>6, <2>2, <2>6, <2>7 DEF r
<1> QED BY <1>1, <1>7, <1>8

(* The caller is a sleeper on the list of sleepers.                        *)
LEMMA sleep_Sound ==
  ASSUME NEW k, Sound(k, {}), NEW p \in Slots, p # IDLE, Runners(k) = {p}, NEW ms \in Nat
  PROVE  Sound(sleep(k, p, ms), {}) /\ Runners(sleep(k, p, ms)) = {}
<1> DEFINE r == sleep(k, p, ms)
<1>1. k \in KernelType /\ Facts(k, {}) /\ k.state[p] = "RUNNING" /\ p \in Pcbs /\ IDLE \in Pcbs
      /\ Pcbs \subseteq Slots /\ 0 \in Slots /\ 0 # p
  <2>1. k \in KernelType /\ Facts(k, {}) /\ k.state[p] = "RUNNING"
    BY DEF Sound, Runners
  <2>2. k.state[0] = "STOPPED"
    BY <2>1 DEF Facts
  <2> QED BY <2>1, <2>2, Constants DEF Pcbs, Slots
<1>2. PICK f, g, b, d : Lists(k, f, g, b, d)
  BY DEF Sound
<1>3. /\ \A s \in On(f) : s \in Pcbs /\ k.state[s] = "READY" /\ s \notin On(g) \cup On(b) \cup On(d)
      /\ \A s \in On(g) : s \in Pcbs /\ k.state[s] = "SLEEP" /\ s \notin On(f) \cup On(b) \cup On(d)
      /\ \A s \in On(b) : s \in Pcbs /\ k.state[s] = "BLOCKED" /\ s \notin On(f) \cup On(g) \cup On(d)
      /\ \A s \in On(d) : s \in Pcbs /\ k.state[s] = "STOPPED" /\ s \notin On(f) \cup On(g) \cup On(b)
  BY <1>1, <1>2, Disjoint
<1>4. p \notin On(f) \cup On(g) \cup On(b) \cup On(d)
  BY <1>1, <1>3
<1>5. SleepersAre(k, g) /\ List(k.next, k.headsleeper, g) /\ p \notin On(g)
  BY <1>2, <1>4 DEF Lists, SleepersAre
<1>6. /\ r.fault = k.fault /\ r.pid = k.pid /\ r.que = k.que /\ r.tail = k.tail
      /\ r.ret = k.ret /\ r.call = k.call
  BY <1>1, <1>5, sleep_Is
<1>7. \E e : /\ List(r.next, r.headsleeper, e) /\ On(e) = On(g) \cup {p}
             /\ \A s \in Slots : s \notin On(e) => r.next[s] = k.next[s]
  BY <1>1, <1>5, sleep_Is
<1>8. r \in KernelType
  BY <1>1, sleep_Keeps
<1>10. r.state[p] = "SLEEP" /\ \A s \in Slots : s # p => r.state[s] = k.state[s]
  BY <1>1, <1>5, sleep_Is
<1> HIDE DEF r
<1>9. PICK e : /\ List(r.next, r.headsleeper, e) /\ On(e) = On(g) \cup {p}
               /\ \A s \in Slots : s \notin On(e) => r.next[s] = k.next[s]
  BY <1>7
<1>11. \A s \in On(f) \cup On(b) \cup On(d) : s \in Slots /\ s # p /\ s \notin On(e)
  BY <1>1, <1>3, <1>4, <1>9
<1>12. SleepersAre(r, e)
  <2>1. \A s \in Pcbs : s \in On(e) <=> r.state[s] = "SLEEP"
    BY <1>1, <1>5, <1>9, <1>10 DEF SleepersAre
  <2> QED BY <1>9, <2>1 DEF SleepersAre
<1>13. ReadyIs(r, f)
  <2>1. \A s \in Pcbs \ {IDLE} : r.state[s] = "READY" <=> k.state[s] = "READY"
    BY <1>1, <1>10
  <2>2. IDLE \in On(f) => r.state[IDLE] = "READY"
    BY <1>1, <1>3, <1>10
  <2>3. \A s \in On(f) : r.next[s] = k.next[s]
    BY <1>9, <1>11
  <2>4. ReadyIs(k, f) /\ r.que["head"] = k.que["head"] /\ r.tail = k.tail
    BY <1>2, <1>6 DEF Lists
  <2> QED BY <2>1, <2>2, <2>3, <2>4, ReadyKeeps
<1>14. WaitersAre(r, b)
  <2>1. WaitersAre(k, b) /\ r.que["blocked_q"] = k.que["blocked_q"]
    BY <1>2, <1>6 DEF Lists
  <2>2. \A s \in On(b) : r.next[s] = k.next[s] /\ r.state[s] = k.state[s]
    BY <1>9, <1>10, <1>11
  <2> QED BY <2>1, <2>2, WaitersKeep
<1>15. DeadAre(r, d)
  <2>1. DeadAre(k, d) /\ r.que["dead_q"] = k.que["dead_q"]
    BY <1>2, <1>6 DEF Lists
  <2>2. \A s \in On(d) : r.next[s] = k.next[s] /\ r.state[s] = k.state[s] /\ r.pid[s] = k.pid[s]
    BY <1>6, <1>9, <1>10, <1>11
  <2> QED BY <2>1, <2>2, DeadKeep
<1>16. Facts(r, {})
  <2>1. \A s \in Slots : r.pid[s] = 0 => r.state[s] = "STOPPED"
    BY <1>1, <1>6, <1>10 DEF Facts
  <2>2. r.state[0] = "STOPPED" /\ r.state[IDLE] \in {"READY", "RUNNING"}
    BY <1>1, <1>10 DEF Facts
  <2>3. \A s \in Slots : r.state[s] = "BLOCKED" => InCall(r, s)
    BY <1>1, <1>6, <1>10 DEF Facts, InCall
  <2> QED BY <1>1, <1>6, <2>1, <2>2, <2>3 DEF Facts
<1>17. Runners(r) = {}
  <2>1. \A s \in Slots : s # p => k.state[s] # "RUNNING"
    BY DEF Runners
  <2> QED BY <1>10, <2>1 DEF Runners
<1> QED BY <1>8, <1>12, <1>13, <1>14, <1>15, <1>16, <1>17 DEF Sound, Lists, r

(* SYS_SLEEP: the kassert of sleep() holds.                                *)
LEMMA NapHands ==
  ASSUME NEW ms \in Naps, Handed(kern), Nap(ms)
  PROVE  Handed(kern)'
<1>1. Sound(kern, {}) /\ Running \in Slots /\ Runners(kern) = {Running} /\ Running # IDLE
      /\ kern.next[Running] = NULL /\ ms \in Nat
  BY HandedIs, KernelAssumption DEF Handed, Running, Nap, UserRequest
<1>2. Serve(Dispatch(sleep(kern, Running, ms)))
  BY <1>1 DEF Nap
<1>3. Sound(sleep(kern, Running, ms), {}) /\ Runners(sleep(kern, Running, ms)) = {}
  BY <1>1, sleep_Sound
<1> QED BY <1>2, <1>3, ServeDispatch

-----------------------------------------------------------------------------
(* The sleepers that wake() wakes are the first ones on their list.        *)
LEMMA wake_Which ==
  ASSUME NEW k \in KernelType, NEW g, List(k.next, k.headsleeper, g), NEW at, at = Chain(k.next, k.headsleeper),
         k.headsleeper # NULL, NEW d, d = DueCount(k, at)
  PROVE  /\ d \in 1 .. Len(g) /\ at[d - 1] = g[d]
         /\ \A i \in 0 .. d - 1 : i + 1 \in 1 .. d /\ at[i] = g[i + 1]
         /\ \A i \in 1 .. d : i - 1 \in 0 .. d - 1 /\ at[i - 1] = g[i]
<1>1. d \in 1 .. MAX_PROC /\ \A i \in 1 .. d - 1 : at[i] # NULL
  BY DueCountInRange
<1>2. Len(g) \in 1 .. MAX_PROC /\ Len(g) \in Nat /\ MAX_PROC \in Nat
  BY ListFacts, ListIsShort, Constants
<1>3. \A i \in 0 .. MAX_PROC : at[i] = IF i < Len(g) THEN g[i + 1] ELSE NULL
  BY ListChain
<1>4. d \in 1 .. Len(g)
  <2>1. at[Len(g)] = NULL
    BY <1>2, <1>3
  <2>2. Len(g) \notin 1 .. d - 1
    BY <1>1, <2>1
  <2> QED BY <1>1, <1>2, <2>2
<1>5. \A i \in 0 .. d - 1 : at[i] = g[i + 1] /\ i + 1 \in 1 .. d
  BY <1>2, <1>3, <1>4
<1>6. at[d - 1] = g[d]
  <2>1. d - 1 \in 0 .. d - 1 /\ (d - 1) + 1 = d
    BY <1>2, <1>4
  <2> QED BY <1>5, <2>1
<1>7. \A i \in 1 .. d : i - 1 \in 0 .. d - 1 /\ at[i - 1] = g[i]
  <2> TAKE i \in 1 .. d
  <2>1. i - 1 \in 0 .. d - 1 /\ (i - 1) + 1 = i
    BY <1>2, <1>4
  <2> QED BY <1>5, <2>1
<1> QED BY <1>4, <1>5, <1>6, <1>7

(* The fields of the pcb's after wake().                                   *)
LEMMA wake_Is ==
  ASSUME NEW k \in KernelType, NEW g, SleepersAre(k, g), k.headsleeper # NULL,
         k.tail = NULL \/ k.tail \in Slots,
         NEW r, r = wake(k), NEW n, n = DueCount(k, Chain(k.next, k.headsleeper))
  PROVE        /\ n \in 1 .. Len(g)
               /\ \A s \in Slots : r.sleepticks[s] = IF s = k.headsleeper THEN 0 ELSE k.sleepticks[s]
               /\ r.fault = k.fault /\ r.pid = k.pid /\ r.ret = k.ret /\ r.call = k.call
               /\ \A q \in QNames : q # "head" => r.que[q] = k.que[q]
               /\ \A s \in Slots : r.state[s] = IF s \in {g[i] : i \in 1 .. n} THEN "READY" ELSE k.state[s]
               /\ \A s \in Slots : r.next[s] = IF s = g[n] THEN NULL
                                               ELSE IF s = k.tail THEN k.headsleeper ELSE k.next[s]
               /\ r.que["head"] = IF k.tail = NULL THEN k.headsleeper ELSE k.que["head"]
               /\ r.tail = g[n] /\ r.headsleeper = k.next[g[n]]
<1> DEFINE at    == Chain(k.next, k.headsleeper)
           woken == {at[i] : i \in 0 .. n - 1}
           last  == at[n - 1]
<1>1. List(k.next, k.headsleeper, g)
  BY DEF SleepersAre
<1>2. n \in 1 .. Len(g) /\ last = g[n] /\ woken = {g[i] : i \in 1 .. n}
  <2>1. at = Chain(k.next, k.headsleeper)
    OBVIOUS
  <2>2. n = DueCount(k, at)
    OBVIOUS
  <2> HIDE DEF at
  <2>3. n \in 1 .. Len(g) /\ last = g[n]
    BY <1>1, <2>1, <2>2, wake_Which
  <2>4. /\ \A i \in 0 .. n - 1 : i + 1 \in 1 .. n /\ at[i] = g[i + 1]
        /\ \A i \in 1 .. n : i - 1 \in 0 .. n - 1 /\ at[i - 1] = g[i]
    BY <1>1, <2>1, <2>2, wake_Which
  <2>5. woken = {g[i] : i \in 1 .. n}
    BY <2>4
  <2> QED BY <2>3, <2>5
<1>3. \A s \in woken : s \in Pcbs /\ k.state[s] = "SLEEP"
  <2>1. \A s \in On(g) : s \in Pcbs /\ k.state[s] = "SLEEP"
    BY <1>1, ListFacts DEF SleepersAre
  <2>2. Len(g) \in Nat
    BY <1>1, ListFacts
  <2>3. \A i \in 1 .. n : g[i] \in On(g)
    BY <1>2, <2>2 DEF On
  <2> HIDE DEF woken
  <2> QED BY <1>2, <2>1, <2>3
<1>4. r = [k EXCEPT
            !.state = [s \in Slots |-> IF s \in woken THEN "READY" ELSE @[s]],
            !.sleepticks[k.headsleeper] = 0,
            !.next = [s \in Slots |->
                        IF s = last THEN NULL
                        ELSE IF s = k.tail THEN k.headsleeper ELSE @[s]],
            !.que["head"] = IF k.tail = NULL THEN k.headsleeper ELSE @,
            !.tail = last,
            !.headsleeper = k.next[last]]
  BY <1>3 DEF wake
<1> HIDE DEF woken, last
<1>5. /\ r.fault = k.fault /\ r.pid = k.pid /\ r.ret = k.ret /\ r.call = k.call
      /\ r.que = [k.que EXCEPT !["head"] = IF k.tail = NULL THEN k.headsleeper ELSE @]
      /\ r.tail = last /\ r.headsleeper = k.next[last]
      /\ r.sleepticks = [k.sleepticks EXCEPT ![k.headsleeper] = 0]
  BY <1>4 DEF KernelType
<1>6. r.state = [s \in Slots |-> IF s \in woken THEN "READY" ELSE k.state[s]]
  BY <1>4 DEF KernelType
<1>7. r.next = [s \in Slots |-> IF s = last THEN NULL
                                ELSE IF s = k.tail THEN k.headsleeper ELSE k.next[s]]
  BY <1>4 DEF KernelType
<1>8. \A s \in Slots : r.state[s] = IF s \in {g[i] : i \in 1 .. n} THEN "READY" ELSE k.state[s]
  BY <1>2, <1>6
<1>9. \A s \in Slots : r.next[s] = IF s = g[n] THEN NULL
                                   ELSE IF s = k.tail THEN k.headsleeper ELSE k.next[s]
  BY <1>2, <1>7
<1>10. /\ \A q \in QNames : q # "head" => r.que[q] = k.que[q]
       /\ r.que["head"] = IF k.tail = NULL THEN k.headsleeper ELSE k.que["head"]
  BY <1>5 DEF KernelType, QNames
<1>11. \A s \in Slots : r.sleepticks[s] = IF s = k.headsleeper THEN 0 ELSE k.sleepticks[s]
  BY <1>5 DEF KernelType
<1> QED BY <1>2, <1>5, <1>8, <1>9, <1>10, <1>11

(* The same of some number of sleepers.                                    *)
LEMMA wake_Fields ==
  ASSUME NEW k \in KernelType, NEW g, SleepersAre(k, g), k.headsleeper # NULL,
         k.tail = NULL \/ k.tail \in Slots
  PROVE  \E n \in 1 .. Len(g) :
           LET r == wake(k)
           IN  /\ r.fault = k.fault /\ r.pid = k.pid /\ r.ret = k.ret /\ r.call = k.call
               /\ \A q \in QNames : q # "head" => r.que[q] = k.que[q]
               /\ \A s \in Slots : r.state[s] = IF s \in {g[i] : i \in 1 .. n} THEN "READY" ELSE k.state[s]
               /\ \A s \in Slots : r.next[s] = IF s = g[n] THEN NULL
                                               ELSE IF s = k.tail THEN k.headsleeper ELSE k.next[s]
               /\ r.que["head"] = IF k.tail = NULL THEN k.headsleeper ELSE k.que["head"]
               /\ r.tail = g[n] /\ r.headsleeper = k.next[g[n]]
<1> DEFINE n == DueCount(k, Chain(k.next, k.headsleeper))
           r == wake(k)
<1>1. n = DueCount(k, Chain(k.next, k.headsleeper)) /\ r = wake(k)
  OBVIOUS
<1> HIDE DEF n, r
<1>2. /\ n \in 1 .. Len(g)
      /\ r.fault = k.fault /\ r.pid = k.pid /\ r.ret = k.ret /\ r.call = k.call
      /\ \A q \in QNames : q # "head" => r.que[q] = k.que[q]
      /\ \A s \in Slots : r.state[s] = IF s \in {g[i] : i \in 1 .. n} THEN "READY" ELSE k.state[s]
      /\ \A s \in Slots : r.next[s] = IF s = g[n] THEN NULL
                                      ELSE IF s = k.tail THEN k.headsleeper ELSE k.next[s]
      /\ r.que["head"] = IF k.tail = NULL THEN k.headsleeper ELSE k.que["head"]
      /\ r.tail = g[n] /\ r.headsleeper = k.next[g[n]]
  <2>1. n \in 1 .. Len(g)
    BY <1>1, wake_Is
  <2>2. /\ r.fault = k.fault /\ r.pid = k.pid /\ r.ret = k.ret /\ r.call = k.call
        /\ r.tail = g[n] /\ r.headsleeper = k.next[g[n]]
        /\ r.que["head"] = IF k.tail = NULL THEN k.headsleeper ELSE k.que["head"]
    BY <1>1, wake_Is
  <2>3. \A q \in QNames : q # "head" => r.que[q] = k.que[q]
    BY <1>1, wake_Is
  <2>4. \A s \in Slots : r.state[s] = IF s \in {g[i] : i \in 1 .. n} THEN "READY" ELSE k.state[s]
    BY <1>1, wake_Is
  <2>5. \A s \in Slots : r.next[s] = IF s = g[n] THEN NULL
                                      ELSE IF s = k.tail THEN k.headsleeper ELSE k.next[s]
    BY <1>1, wake_Is
  <2> QED BY <2>1, <2>2, <2>3, <2>4, <2>5
<1>3. n \in 1 .. Len(g)
  BY <1>2
<1> WITNESS n \in 1 .. Len(g)
<1> QED BY <1>2 DEF r

(* The sleepers that wake() wakes go behind the ready queue in their       *)
(* order, the others stay on their list, and nobody else is touched.       *)
LEMMA wake_Hands ==
  ASSUME NEW k, Handed(k), k.headsleeper # NULL
  PROVE  Handed(wake(k))
<1> DEFINE r == wake(k)
           h == k.headsleeper
           p == k.que["running"]
<1>1. k \in KernelType /\ Facts(k, {}) /\ OneRuns(k) /\ p \in Pcbs /\ k.state[p] = "RUNNING"
      /\ (p # IDLE => k.next[p] = NULL)
  BY HandedIs DEF Handed
<1>2. PICK f, g, b, d : Lists(k, f, g, b, d)
  BY DEF Handed, Sound
<1>3. /\ \A s \in On(f) : s \in Pcbs /\ k.state[s] = "READY" /\ s \notin On(g) \cup On(b) \cup On(d)
      /\ \A s \in On(g) : s \in Pcbs /\ k.state[s] = "SLEEP" /\ s \notin On(f) \cup On(b) \cup On(d)
      /\ \A s \in On(b) : s \in Pcbs /\ k.state[s] = "BLOCKED" /\ s \notin On(f) \cup On(g) \cup On(d)
      /\ \A s \in On(d) : s \in Pcbs /\ k.state[s] = "STOPPED" /\ s \notin On(f) \cup On(g) \cup On(b)
  BY <1>2, Disjoint, Constants
<1>4. /\ List(k.next, k.que["head"], f) /\ k.tail = IF Len(f) = 0 THEN NULL ELSE Last(f)
      /\ \A s \in Pcbs \ {IDLE} : s \in On(f) <=> k.state[s] = "READY"
      /\ List(k.next, h, g) /\ SleepersAre(k, g)
      /\ \A s \in Pcbs : s \in On(g) <=> k.state[s] = "SLEEP"
  BY <1>2 DEF Lists, ReadyIs, SleepersAre
<1>5. /\ Len(f) \in Nat /\ Len(g) \in Nat /\ (Len(f) # 0 => k.tail \in On(f)) /\ Last(f) = f[Len(f)]
      /\ Pcbs \subseteq Slots /\ NULL \notin Slots /\ IDLE \in Pcbs /\ 0 \notin Pcbs /\ 0 \in Slots
  BY <1>4, ListFacts, Constants DEF Pcbs, Slots, Last
<1>6. k.tail = NULL \/ k.tail \in Slots
  BY <1>3, <1>4, <1>5
<1>7. \E n \in 1 .. Len(g) :
        /\ r.fault = k.fault /\ r.pid = k.pid /\ r.ret = k.ret /\ r.call = k.call
        /\ \A q \in QNames : q # "head" => r.que[q] = k.que[q]
        /\ \A s \in Slots : r.state[s] = IF s \in {g[i] : i \in 1 .. n} THEN "READY" ELSE k.state[s]
        /\ \A s \in Slots : r.next[s] = IF s = g[n] THEN NULL
                                        ELSE IF s = k.tail THEN h ELSE k.next[s]
        /\ r.que["head"] = IF k.tail = NULL THEN h ELSE k.que["head"]
        /\ r.tail = g[n] /\ r.headsleeper = k.next[g[n]]
  BY <1>1, <1>4, <1>6, wake_Fields
<1>8. r \in KernelType
  <2>1. h \in Pcbs
    BY <1>1 DEF KernelType, Ptr
  <2> QED BY <1>1, <2>1, wake_Keeps
<1> HIDE DEF r, h, p
<1>9. PICK n \in 1 .. Len(g) :
        /\ r.fault = k.fault /\ r.pid = k.pid /\ r.ret = k.ret /\ r.call = k.call
        /\ \A q \in QNames : q # "head" => r.que[q] = k.que[q]
        /\ \A s \in Slots : r.state[s] = IF s \in {g[i] : i \in 1 .. n} THEN "READY" ELSE k.state[s]
        /\ \A s \in Slots : r.next[s] = IF s = g[n] THEN NULL
                                        ELSE IF s = k.tail THEN h ELSE k.next[s]
        /\ r.que["head"] = IF k.tail = NULL THEN h ELSE k.que["head"]
        /\ r.tail = g[n] /\ r.headsleeper = k.next[g[n]]
  BY <1>7
<1> DEFINE W == {g[i] : i \in 1 .. n}
           e == f \o SubSeq(g, 1, n)
           c == SubSeq(g, n + 1, Len(g))
<1>10. W \subseteq On(g) /\ g[n] \in W
  BY <1>5 DEF On
<1>11. \A s \in Slots : r.state[s] = IF s \in W THEN "READY" ELSE k.state[s]
  BY <1>9
<1>12. \A s \in Slots : s # g[n] /\ s # k.tail => r.next[s] = k.next[s]
  BY <1>9
<1>13. /\ List(r.next, IF Len(f) = 0 THEN h ELSE k.que["head"], e) /\ List(r.next, k.next[g[n]], c)
       /\ On(e) = On(f) \cup W /\ On(c) = On(g) \ W
       /\ Len(e) # 0 /\ Last(e) = g[n]
  <2>1. On(f) \cap On(g) = {}
    BY <1>3
  <2>2. r.next[g[n]] = NULL
    BY <1>3, <1>5, <1>9, <1>10
  <2>3. Len(f) # 0 => r.next[Last(f)] = h
    <3>1. Len(f) # 0 => k.tail \in Slots /\ k.tail # g[n] /\ k.tail = Last(f)
      BY <1>3, <1>4, <1>5, <1>10
    <3> QED BY <1>9, <3>1
  <2>4. \A s \in On(f) : s # Last(f) => r.next[s] = k.next[s]
    <3>1. \A s \in On(f) : s # Last(f) => s \in Slots /\ s # g[n] /\ s # k.tail
      BY <1>3, <1>4, <1>5, <1>10
    <3> QED BY <1>12, <3>1
  <2>5. \A s \in On(g) : s # g[n] => r.next[s] = k.next[s]
    <3>1. \A s \in On(g) : s \in Slots /\ s # k.tail
      BY <1>3, <1>4, <1>5
    <3> QED BY <1>12, <3>1
  <2> QED BY <1>4, <1>9, <2>1, <2>2, <2>3, <2>4, <2>5, ListMove
<1> HIDE DEF W, e, c
<1>14. \A s \in On(b) \cup On(d) : /\ s \in Slots /\ s \notin W
                                    /\ r.next[s] = k.next[s] /\ r.state[s] = k.state[s]
  <2>1. \A s \in On(b) \cup On(d) : s \in Slots /\ s \notin W /\ s # g[n] /\ s # k.tail
    BY <1>3, <1>4, <1>5, <1>10
  <2> QED BY <1>11, <1>12, <2>1
<1>15. ReadyIs(r, e)
  <2>1. r.que["head"] = IF Len(f) = 0 THEN h ELSE k.que["head"]
    BY <1>3, <1>4, <1>5, <1>9
  <2>2. \A s \in Pcbs \ {IDLE} : s \in On(e) <=> r.state[s] = "READY"
    BY <1>3, <1>4, <1>5, <1>10, <1>11, <1>13
  <2>3. IDLE \in On(e) => r.state[IDLE] = "READY"
    BY <1>3, <1>5, <1>11, <1>13
  <2> QED BY <1>9, <1>13, <2>1, <2>2, <2>3 DEF ReadyIs
<1>16. SleepersAre(r, c)
  <2>1. \A s \in Pcbs : s \in On(c) <=> r.state[s] = "SLEEP"
    BY <1>4, <1>5, <1>11, <1>13
  <2> QED BY <1>9, <1>13, <2>1 DEF SleepersAre
<1>17. WaitersAre(r, b)
  <2>1. WaitersAre(k, b) /\ r.que["blocked_q"] = k.que["blocked_q"]
    BY <1>2, <1>9 DEF Lists, QNames
  <2>2. \A s \in On(b) : r.next[s] = k.next[s] /\ r.state[s] = k.state[s]
    BY <1>14
  <2> QED BY <2>1, <2>2, WaitersKeep
<1>18. DeadAre(r, d)
  <2>1. DeadAre(k, d) /\ r.que["dead_q"] = k.que["dead_q"]
    BY <1>2, <1>9 DEF Lists, QNames
  <2>2. \A s \in On(d) : r.next[s] = k.next[s] /\ r.state[s] = k.state[s] /\ r.pid[s] = k.pid[s]
    BY <1>9, <1>14
  <2> QED BY <2>1, <2>2, DeadKeep
<1>19. \A s \in W : s \in Pcbs /\ k.state[s] = "SLEEP"
  BY <1>3, <1>10
<1>20. r.que["running"] = p
  BY <1>9 DEF QNames, p
<1>21. Facts(r, {})
  <2>1. \A s \in Slots : r.pid[s] = 0 => r.state[s] = "STOPPED"
    BY <1>1, <1>9, <1>11, <1>19 DEF Facts
  <2>2. r.state[0] = "STOPPED" /\ r.state[IDLE] \in {"READY", "RUNNING"}
    BY <1>1, <1>5, <1>11, <1>19 DEF Facts
  <2>3. \A s \in Slots : r.state[s] = "BLOCKED" => InCall(r, s)
    BY <1>1, <1>9, <1>11 DEF Facts, InCall
  <2>4. /\ r.fault = k.fault /\ r.pid = k.pid /\ r.que["running"] = k.que["running"]
    BY <1>9, <1>20 DEF p
  <2> QED BY <1>1, <2>1, <2>2, <2>3, <2>4 DEF Facts
<1>22. OneRuns(r)
  BY <1>1, <1>11, <1>19, <1>20 DEF OneRuns, p
<1>23. p # IDLE => r.next[p] = NULL
  <2>1. p \notin W /\ p \notin On(f) /\ p \in Slots
    BY <1>1, <1>3, <1>5, <1>19
  <2>2. p # g[n] /\ p # k.tail
    BY <1>4, <1>5, <1>10, <2>1
  <2> QED BY <1>1, <1>12, <2>1, <2>2
<1> QED BY <1>8, <1>15, <1>16, <1>17, <1>18, <1>20, <1>21, <1>22, <1>23 DEF Handed, Sound, Lists, r

(* The countdown changes a tick count, and tick() keeps the lists.         *)
LEMMA tick_Hands ==
  ASSUME NEW k, Handed(k)
  PROVE  Handed(tick(k))
<1>1. ASSUME NEW m, Handed(m) PROVE Handed(CountDown(m))
  <2> DEFINE r == CountDown(m)
  <2>1. m \in KernelType /\ Sound(m, {}) /\ Facts(m, {}) /\ OneRuns(m)
    BY <1>1, HandedIs
  <2>2. r \in KernelType
    BY <2>1, CountDown_Keeps
  <2>3. /\ r.fault = m.fault /\ r.state = m.state /\ r.pid = m.pid /\ r.que = m.que /\ r.next = m.next
        /\ r.tail = m.tail /\ r.headsleeper = m.headsleeper /\ r.call = m.call /\ r.ret = m.ret
    BY <2>1 DEF CountDown, KernelType
  <2> HIDE DEF r
  <2>4. \A s \in Slots \ {} : m.state[s] = "BLOCKED" => InCall(r, s)
    BY <2>1, <2>3 DEF Facts, InCall
  <2>5. Sound(r, {})
    BY <2>1, <2>2, <2>3, <2>4, SameLists
  <2>6. Handed(r)
    BY <1>1, <2>3, <2>5 DEF Handed, OneRuns
  <2> QED BY <2>6 DEF r
<1> QED BY <1>1, wake_Hands DEF tick

(* SYS_TIMER: ready(), next() and then tick().                             *)
LEMMA TimerHands ==
  ASSUME Handed(kern), Timer PROVE Handed(kern)'
<1>1. PICK eax \in EaxValues : TimerAt(eax)
  BY DEF Timer
<1> DEFINE k0 == [kern EXCEPT !.ret[Running] = eax]
           k1 == ready(k0, Running)
<1>2. Serve(tick(Dispatch(k1)))
  BY <1>1 DEF TimerAt
<1>3. Sound(kern, {}) /\ Running \in Slots /\ kern.state[Running] = "RUNNING" /\ kern \in KernelType
      /\ Runners(kern) = {Running}
  BY HandedIs DEF Running
<1>4. Sound(k0, {}) /\ k0.state = kern.state
  <2>1. eax \in Int /\ kern.state[Running] # "BLOCKED"
    BY <1>3, KernelAssumption
  <2> QED BY <1>3, <2>1, SetRetSound DEF KernelType
<1>5. Loose(k0, Running)
  BY <1>3, <1>4, RunnerIsLoose
<1> HIDE DEF k0
<1>6. Sound(k1, {} \ {Running}) /\ k1.state = [k0.state EXCEPT ![Running] = "READY"]
  BY <1>4, <1>5, ready_Sound
<1> HIDE DEF k1
<1>7. Sound(k1, {}) /\ Runners(k1) = {}
  <2>1. {} \ {Running} = {}
    OBVIOUS
  <2> QED BY <1>3, <1>4, <1>6, <2>1 DEF Runners, KernelType
<1>8. Handed(tick(Dispatch(k1)))
  BY <1>7, DispatchHands, tick_Hands
<1> QED BY <1>2, <1>8, ServeHands

-----------------------------------------------------------------------------
(* The invariant is inductive: one step per action.                        *)
LEMMA NextHands ==
  ASSUME Workload, Handed(kern), [Next]_kern PROVE Handed(kern)'
<1>1. CASE Create
  BY <1>1, CreateHands
<1>2. CASE Yield
  BY <1>2, YieldHands
<1>3. CASE Stop
  BY <1>3, StopHands
<1>4. CASE GetPid
  BY <1>4, GetPidHands
<1>5. CASE Timer
  BY <1>5, TimerHands
<1>6. ASSUME NEW d \in 0 .. MaxPid, NEW buf \in BufLens, NEW msg \in MsgLens, NEW ok \in Buffers,
             SendTo(d, buf, msg, ok)
      PROVE  Handed(kern)'
  BY <1>6, SendHands
<1>7. ASSUME NEW f \in 0 .. MaxPid, NEW buf \in BufLens, NEW ok \in Buffers,
             Receive(f, buf, ok)
      PROVE  Handed(kern)'
  BY <1>7, ReceiveHands
<1>8. ASSUME NEW ms \in Naps, Nap(ms)
      PROVE  Handed(kern)'
  BY <1>8, NapHands
<1>9. CASE UNCHANGED kern
  <2>1. kern' = kern
    BY <1>9
  <2> QED BY <2>1
<1> QED BY <1>1, <1>2, <1>3, <1>4, <1>5, <1>6, <1>7, <1>8, <1>9 DEF Next

(* In the workloads, after every request: the ready queue holds the ready  *)
(* processes, the list of sleepers the sleepers, blocked_q processes that  *)
(* are blocked in a call and dead_q stopped ones, no two lists share a     *)
(* pcb, and the process that has the CPU is on none and links to none.     *)
THEOREM ListsHold ==
  ASSUME Workload PROVE Spec => []Handed(kern)
<1>1. Init => Handed(kern)
  BY BootHanded DEF Init
<1>2. Handed(kern) /\ [Next]_kern => Handed(kern)'
  BY NextHands
<1> QED BY <1>1, <1>2, PTL DEF Spec

(* What the walks of the properties see of the lists.                      *)
LEMMA ListsSeen ==
  ASSUME Handed(kern)
  PROVE  NoFault /\ ReadyQueueSound /\ SleepersListed /\ BlockedQueueBlocked
<1>1. kern \in KernelType /\ Facts(kern, {}) /\ kern.fault = "none"
  BY HandedIs DEF Facts
<1>2. PICK f, g, b, d : Lists(kern, f, g, b, d)
  BY DEF Handed, Sound
<1>3. /\ \A s \in On(f) : s \in Pcbs /\ kern.state[s] = "READY"
      /\ \A s \in On(g) : s \in Pcbs /\ kern.state[s] = "SLEEP"
      /\ \A s \in On(b) : s \in Pcbs /\ kern.state[s] = "BLOCKED"
      /\ \A s \in On(d) : s \in Pcbs /\ kern.state[s] = "STOPPED"
  BY <1>2, Disjoint, Constants
<1>4. /\ Members(kern.next, kern.que["head"]) = On(f) /\ ~Endless(kern.next, kern.que["head"])
      /\ LastOf(kern.next, kern.que["head"]) = kern.tail
      /\ Members(kern.next, kern.headsleeper) = On(g)
      /\ Members(kern.next, kern.que["blocked_q"]) = On(b)
      /\ Members(kern.next, kern.que["dead_q"]) = On(d)
  BY <1>2, Found
<1>5. /\ \A s \in Pcbs \ {IDLE} : s \in On(f) <=> kern.state[s] = "READY"
      /\ \A s \in Pcbs : s \in On(g) <=> kern.state[s] = "SLEEP"
  BY <1>2 DEF Lists, ReadyIs, SleepersAre
<1>6. Slots = Pcbs \cup {0} /\ kern.state[0] = "STOPPED" /\ Pcbs \subseteq Slots
  BY <1>1, Constants DEF Facts, Pcbs, Slots
<1>7. ReadyQueueSound
  <2>1. InState("READY") \ {IDLE} = On(f) \ {IDLE}
    BY <1>3, <1>5, <1>6 DEF InState
  <2> QED BY <1>4, <2>1 DEF ReadyQueueSound, ReadyQueue
<1>8. SleepersListed
  BY <1>3, <1>4, <1>5, <1>6 DEF SleepersListed, InState
<1>9. BlockedQueueBlocked
  BY <1>1, <1>3, <1>4, <1>6 DEF BlockedQueueBlocked, Facts, InCall
<1> QED BY <1>1, <1>7, <1>8, <1>9 DEF NoFault

(* No request makes the kernel stop: every kassert of ready(), next() and  *)
(* sleep() holds, every walk along a list ends, and tick() wakes nobody    *)
(* who is not asleep.                                                      *)
THEOREM NoRequestFaults ==
  ASSUME Workload PROVE Spec => []NoFault
<1>1. Handed(kern) => NoFault
  BY ListsSeen
<1> QED BY <1>1, ListsHold, PTL

(* A process that is ready is on the ready queue, whatever requests and    *)
(* timer interrupts came before, and tail is the end of the queue.         *)
THEOREM ReadyQueueHolds ==
  ASSUME Workload PROVE Spec => []ReadyQueueSound
<1>1. Handed(kern) => ReadyQueueSound
  BY ListsSeen
<1> QED BY <1>1, ListsHold, PTL

(* No sleeper is lost from the list that tick() looks at.                  *)
THEOREM SleepersHold ==
  ASSUME Workload PROVE Spec => []SleepersListed
<1>1. Handed(kern) => SleepersListed
  BY ListsSeen
<1> QED BY <1>1, ListsHold, PTL

(* Every pcb on blocked_q is of a process blocked in the call whose        *)
(* arguments recv reads through it.                                        *)
THEOREM BlockedQueueHolds ==
  ASSUME Workload PROVE Spec => []BlockedQueueBlocked
<1>1. Handed(kern) => BlockedQueueBlocked
  BY ListsSeen
<1> QED BY <1>1, ListsHold, PTL
==============================================================================
