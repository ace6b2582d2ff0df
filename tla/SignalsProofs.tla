--------------------------- MODULE SignalsProofs ---------------------------
(***************************************************************************)
(* What holds of module Signals for every workload: the type of the signal *)
(* fields, that no wakeup is lost, that the masks unwind, and that signals *)
(* are served by priority as SignalService says.  A process that create()  *)
(* did not make would start with masks that do not nest; module            *)
(* KernelProofs shows that no such process runs.                           *)
(***************************************************************************)
EXTENDS Signals, KernelProofs

(* A non-empty set of signals has a highest.                               *)
LEMMA HighestIs ==
  ASSUME NEW T, T \subseteq Bits, T # {}
  PROVE  Highest(T) \in T /\ \A m \in T : m <= Highest(T)
<1> DEFINE D == {MAXSIGNAL - n : n \in T}
<1>1. T \subseteq Nat /\ \A n \in T : n <= MAXSIGNAL /\ MAXSIGNAL - n \in D
  BY SignalsAssumption DEF Bits
<1>2. PICK d \in D : \A e \in D : d <= e
  <2>1. \A n \in T : MAXSIGNAL - n \in Nat
    BY <1>1, SignalsAssumption
  <2>2. D \subseteq Nat /\ D # {}
    BY <2>1
  <2> HIDE DEF D
  <2> QED BY <2>2, HasMinimum
<1>3. PICK n \in T : d = MAXSIGNAL - n
  OBVIOUS
<1>4. \A m \in T : m <= n
  <2> TAKE m \in T
  <2>1. MAXSIGNAL - n <= MAXSIGNAL - m
    BY <1>1, <1>2, <1>3
  <2> QED BY <1>1, <2>1, SignalsAssumption
<1> QED BY <1>4 DEF Highest

(* The fields of the signals.                                              *)
LEMMA SigFields ==
  ASSUME NEW s \in SigType, NEW p \in Slots
  PROVE  /\ s.pending[p] \subseteq SigNos /\ s.allow[p] \subseteq SigNos
         /\ s.priority[p] \in Masks /\ s.handler[p] \in [SigNos -> Nat]
         /\ s.sigwaiter[p] \in BOOLEAN /\ s.frames[p] \in Seq(Frame)
         /\ SigNos \subseteq Bits /\ Bits \subseteq Nat
BY SignalsAssumption DEF SigType, Bits

(* The mask in force once i of the frames f are handled.                   *)
Under(f, i) == IF i = 0 THEN 0 ELSE get_priority_mask(f[i].signum)

(* The slots whose masks nest, as MasksUnwind says.                        *)
Nests(s, p) ==
  /\ s.priority[p] = Under(s.frames[p], Len(s.frames[p]))
  /\ \A i \in DOMAIN s.frames[p] : s.frames[p][i].priority = Under(s.frames[p], i - 1)

Nest(s) == {p \in Pcbs : Nests(s, p)}

(* What delivery leaves alone.                                             *)
SameBits(s, r) ==
  /\ r.pending = s.pending /\ r.allow = s.allow
  /\ r.handler = s.handler /\ r.sigwaiter = s.sigwaiter

(* Delivery pushes a frame for the highest signal pending, or does nothing.*)
Delivered(s, r, p, n, ret) ==
  LET fr == [signum |-> n, handler |-> s.handler[p][n], priority |-> s.priority[p], ret |-> ret]
  IN  /\ n \in s.pending[p] /\ \A m \in s.pending[p] : m <= n
      /\ n >= s.priority[p] /\ fr \in Frame
      /\ SameBits(s, r) /\ r = [s EXCEPT !.frames = r.frames, !.priority = r.priority]
      /\ r.priority = [s.priority EXCEPT ![p] = get_priority_mask(n)]
      /\ r.frames = [s.frames EXCEPT ![p] = Append(@, fr)]

(* deliver_signals_ifany() delivers one signal to the process that runs    *)
(* next, or none.                                                          *)
LEMMA DeliverIs ==
  ASSUME NEW k \in KernelType, NEW s \in SigType, NEW p \in Slots, p = k.que["running"]
  PROVE  LET r == deliver_signals_ifany(s, k)
         IN  /\ Deliverable(s, p) = {} => r = s
             /\ Deliverable(s, p) # {} => \E n \in SigNos : Delivered(s, r, p, n, k.ret[p])
<1> DEFINE r  == deliver_signals_ifany(s, k)
           n  == Highest(s.pending[p])
           fr == [signum |-> n, handler |-> s.handler[p][n], priority |-> s.priority[p], ret |-> k.ret[p]]
<1>1. CASE Deliverable(s, p) = {}
  BY <1>1 DEF deliver_signals_ifany
<1>2. CASE Deliverable(s, p) # {}
  <2>1. PICK d \in s.pending[p] : d >= s.priority[p]
    BY <1>2 DEF Deliverable
  <2>2. n \in s.pending[p] /\ \A m \in s.pending[p] : m <= n
    BY <2>1, SigFields, HighestIs
  <2>3. n \in SigNos /\ n \in Nat /\ s.priority[p] \in Int /\ d \in Nat
    BY <2>1, <2>2, SigFields, SignalsAssumption DEF Masks
  <2>4. n >= s.priority[p]
    BY <2>1, <2>2, <2>3
  <2>5. r = [PushFrame(s, k, p, n) EXCEPT !.priority[p] = get_priority_mask(n)]
    BY <1>2 DEF deliver_signals_ifany, get_next_signal
  <2> HIDE DEF n
  <2>6. fr \in Frame
    <3>1. s.handler[p][n] \in Nat
      BY <2>3, SigFields
    <3>2. k.ret[p] \in Int
      BY DEF KernelType
    <3> QED BY <2>3, <3>1, <3>2, SigFields DEF Frame
  <2>7. /\ SameBits(s, r) /\ r.frames = [s.frames EXCEPT ![p] = Append(@, fr)]
        /\ r.priority = [s.priority EXCEPT ![p] = get_priority_mask(n)]
    BY <2>5 DEF PushFrame, SigType, SameBits
  <2>8. r = [s EXCEPT !.frames = r.frames, !.priority = r.priority]
    BY <2>5 DEF PushFrame, SigType
  <2> HIDE DEF r
  <2> QED BY <1>2, <2>2, <2>3, <2>4, <2>6, <2>7, <2>8 DEF Delivered, r
<1> QED BY <1>1, <1>2

(* After delivery the type holds, the masks that nested nest, and the      *)
(* process the frame was built for has nothing left to handle.             *)
LEMMA DeliveredNests ==
  ASSUME NEW s \in SigType, NEW r, NEW p \in Slots, NEW n \in SigNos, NEW ret,
         Delivered(s, r, p, n, ret)
  PROVE  r \in SigType /\ Nest(s) \subseteq Nest(r) /\ Deliverable(r, p) = {}
<1> DEFINE fr == [signum |-> n, handler |-> s.handler[p][n], priority |-> s.priority[p], ret |-> ret]
           f  == s.frames[p]
           g  == Append(f, fr)
<1>1. n \in Nat /\ n <= MAXSIGNAL
  BY SignalsAssumption DEF Bits
<1>2. get_priority_mask(n) = n + 1 /\ n + 1 \in Masks
  BY <1>1, SignalsAssumption DEF get_priority_mask, Masks
<1>3. f \in Seq(Frame) /\ fr \in Frame
  BY SigFields DEF Delivered
<1>4. /\ r.priority = [s.priority EXCEPT ![p] = n + 1]
      /\ r.frames = [s.frames EXCEPT ![p] = g]
      /\ SameBits(s, r)
  BY <1>2 DEF Delivered
<1>5. g \in Seq(Frame) /\ Len(g) = Len(f) + 1 /\ DOMAIN g = 1 .. Len(f) + 1
      /\ g[Len(f) + 1] = fr /\ \A i \in 1 .. Len(f) : g[i] = f[i]
  <2> HIDE DEF f, fr
  <2> QED BY <1>3
<1>6. s.frames \in [Slots -> Seq(Frame)] /\ s.priority \in [Slots -> Masks]
  BY DEF SigType
<1>7. Len(f) \in Nat /\ DOMAIN f = 1 .. Len(f)
  BY <1>3
<1> HIDE DEF g
<1>8. r \in SigType
  <2>1. r.frames \in [Slots -> Seq(Frame)] /\ r.priority \in [Slots -> Masks]
    BY <1>2, <1>4, <1>5, <1>6
  <2> QED BY <2>1 DEF SigType, Delivered
<1>9. Deliverable(r, p) = {}
  <2>1. \A m \in s.pending[p] : m \in Nat /\ m <= n
    BY SigFields DEF Delivered
  <2>2. r.priority[p] = n + 1 /\ r.pending[p] = s.pending[p]
    BY <1>4, <1>6 DEF SameBits
  <2> QED BY <1>1, <2>1, <2>2 DEF Deliverable
<1>10. ASSUME NEW q \in Nest(s) PROVE q \in Nest(r)
  <2>1. q \in Pcbs /\ q \in Slots /\ Nests(s, q)
    BY Constants DEF Nest
  <2>2. CASE q # p
    <3>1. r.frames[q] = s.frames[q] /\ r.priority[q] = s.priority[q]
      BY <1>4, <1>6, <2>1, <2>2
    <3> QED BY <2>1, <3>1 DEF Nest, Nests
  <2>3. CASE q = p
    <3>1. r.frames[q] = g /\ r.priority[q] = n + 1
      BY <1>4, <1>6, <2>1, <2>3
    <3>2. fr.signum = n /\ fr.priority = s.priority[p]
      OBVIOUS
    <3>3. s.priority[p] = Under(f, Len(f)) /\ \A i \in 1 .. Len(f) : f[i].priority = Under(f, i - 1)
      BY <1>7, <2>1, <2>3 DEF Nests
    <3> HIDE DEF f, fr
    <3>4. n + 1 = Under(g, Len(g))
      BY <1>2, <1>5, <1>7, <3>2 DEF Under
    <3>5. \A i \in 0 .. Len(f) : Under(g, i) = Under(f, i)
      BY <1>5, <1>7 DEF Under
    <3>6. \A i \in DOMAIN g : g[i].priority = Under(g, i - 1)
      <4> TAKE i \in DOMAIN g
      <4>1. CASE i = Len(f) + 1
        BY <1>5, <1>7, <3>2, <3>3, <3>5, <4>1
      <4>2. CASE i \in 1 .. Len(f)
        BY <1>5, <1>7, <3>3, <3>5, <4>2
      <4> QED BY <1>5, <1>7, <4>1, <4>2
    <3> QED BY <2>1, <2>3, <3>1, <3>4, <3>6 DEF Nest, Nests
  <2> QED BY <2>2, <2>3
<1> QED BY <1>8, <1>9, <1>10

-----------------------------------------------------------------------------
(* dispatch() goes round its loop, and delivers to the process that runs.  *)
Delivers(s) ==
  sig' = IF kern'.fault = "none" THEN deliver_signals_ifany(s, kern') ELSE sig

(* What a request leaves of the signals before delivery: the masks of new  *)
(* processes nest too, and nobody who waits has more to handle.            *)
SigStep(s) ==
  /\ s \in SigType /\ Delivers(s)
  /\ Nest(sig) \cup Born \subseteq Nest(s)
  /\ \A p \in Slots : kern'.state[p] \in {"BLOCKED", "SLEEP"} =>
       Deliverable(s, p) \subseteq Deliverable(sig, p)

(* What a request asks of SignalService before it delivers: nothing, a     *)
(* signal more, the end of the handler on top, or the slot for a new       *)
(* process.                                                                *)
Asked(s) ==
  LET pend == sig.pending
      h    == Handled(sig)
  IN  \/ s.pending = pend /\ Handled(s) = h
      \/ \E p \in Slots, n \in Bits :
            s.pending = [pend EXCEPT ![p] = @ \cup {n}] /\ Handled(s) = h
      \/ \E p \in Slots :
            /\ h[p] # <<>>
            /\ s.pending = [pend EXCEPT ![p] = @ \ {Service!Top(h[p])}]
            /\ Handled(s) = [h EXCEPT ![p] = Service!Bottom(@)]
      \/ \E p \in Slots : s.pending = pend /\ Handled(s) = [h EXCEPT ![p] = <<>>]

SameAsked(s) == s.pending = sig.pending /\ s.frames = sig.frames

(* A request that changes neither what is pending nor a frame asks         *)
(* nothing.                                                                *)
LEMMA SameIsAsked == ASSUME NEW s, SameAsked(s) PROVE Asked(s)
BY DEF SameAsked, Asked, Handled

(* The inductive invariant: every slot in use has masks that nest, and     *)
(* every pointer leads to such a slot.                                     *)
SigInv == Inv /\ SigTypeOK /\ Region(Nest(sig)) /\ Linked(kern, Nest(sig))

(* A region may be taken larger.                                           *)
LEMMA LinkedGrows ==
  ASSUME NEW k, NEW L, NEW M, L \subseteq M, Linked(k, L) PROVE Linked(k, M)
BY DEF Linked, Links

(* The invariant holds of the kernel that has just booted.                 *)
LEMMA InitSigInv == InitSig => SigInv /\ NoLostWakeup
<1> SUFFICES ASSUME InitSig PROVE SigInv /\ NoLostWakeup
  OBVIOUS
<1>1. Inv /\ kern = Boot /\ sig = BootSig
  BY InitInv DEF InitSig, Init
<1>2. 0 \in Masks /\ MAXSIGNAL + 1 \in Masks
  BY SignalsAssumption DEF Masks
<1>3. sig \in SigType
  BY <1>1, <1>2 DEF BootSig, SigType
<1>4. Nests(sig, ROOT) /\ Nests(sig, IDLE)
  BY <1>1, Constants DEF BootSig, Nests, Under
<1>5. ROOT \in Nest(sig) /\ IDLE \in Nest(sig) /\ Nest(sig) \subseteq Pcbs
  BY <1>4, Constants DEF Nest
<1> HIDE DEF Nest
<1>6. Linked(kern, Nest(sig))
  BY <1>1, <1>5 DEF Boot, Linked, Links
<1>7. NoLostWakeup
  BY <1>1 DEF BootSig, NoLostWakeup, Deliverable
<1> QED BY <1>1, <1>3, <1>5, <1>6, <1>7 DEF SigInv, SigTypeOK, Region

(* What the requests leave keeps the invariant: delivery adds a frame that *)
(* nests, to the process that runs, and leaves it nothing to handle.       *)
LEMMA StepKeepsSigInv ==
  ASSUME SigInv, Inv', Grown(Nest(sig)), NEW s, SigStep(s)
  PROVE  SigInv' /\ (NoLostWakeup => NoLostWakeup')
<1> DEFINE p == Running'
<1>1. /\ kern' \in KernelType /\ p \in Slots /\ p = kern'.que["running"]
      /\ \A q \in Slots : kern'.state[q] = "RUNNING" <=> q = p
      /\ \A q \in Slots : kern'.state[q] \in States
  BY Constants DEF Inv, TypeOK, OneRunning, Running, KernelType
<1>2. /\ s \in SigType /\ Delivers(s) /\ sig \in SigType
      /\ Nest(sig) \cup Born \subseteq Nest(s)
  BY DEF SigStep, SigInv, SigTypeOK
<1> HIDE DEF p
<1>3. CASE kern'.fault # "none"
  <2>1. sig' = sig /\ SameLinks(kern, kern') /\ kern'.pid = kern.pid
    BY <1>2, <1>3 DEF Delivers, Grown, LeftAlone
  <2>2. Linked(kern', Nest(sig'))
    BY <2>1 DEF SigInv, Linked, SameLinks
  <2>3. NoLostWakeup => NoLostWakeup'
    BY <2>1 DEF NoLostWakeup, SameLinks
  <2> QED BY <1>2, <2>1, <2>2, <2>3 DEF SigInv, SigTypeOK
<1>4. CASE kern'.fault = "none"
  <2>1. sig' = deliver_signals_ifany(s, kern')
    BY <1>2, <1>4 DEF Delivers
  <2>2. /\ sig' \in SigType /\ Nest(s) \subseteq Nest(sig') /\ Deliverable(sig', p) = {}
        /\ \A q \in Slots \ {p} : Deliverable(sig', q) = Deliverable(s, q)
    <3>1. CASE Deliverable(s, p) = {}
      BY <1>1, <1>2, <2>1, <3>1, DeliverIs
    <3>2. CASE Deliverable(s, p) # {}
      <4>1. PICK n \in SigNos : Delivered(s, sig', p, n, kern'.ret[p])
        BY <1>1, <1>2, <2>1, <3>2, DeliverIs
      <4>2. \A r, ret : Delivered(s, r, p, n, ret) =>
              r \in SigType /\ Nest(s) \subseteq Nest(r) /\ Deliverable(r, p) = {}
        BY <1>1, <1>2, DeliveredNests
      <4>3. sig' \in SigType /\ Nest(s) \subseteq Nest(sig') /\ Deliverable(sig', p) = {}
        BY <4>1, <4>2
      <4>4. \A q \in Slots \ {p} : Deliverable(sig', q) = Deliverable(s, q)
        BY <1>2, <4>1 DEF Delivered, SameBits, Deliverable, SigType
      <4> QED BY <4>3, <4>4
    <3> QED BY <3>1, <3>2
  <2>3. Region(Nest(sig')) /\ Linked(kern', Nest(sig'))
    <3>1. Nest(sig) \cup Born \subseteq Nest(sig')
      BY <1>2, <2>2
    <3>2. Region(Nest(sig'))
      BY <3>1 DEF SigInv, Region, Nest
    <3> QED BY <3>1, <3>2, LinkedGrows DEF Grown
  <2>4. ASSUME NoLostWakeup PROVE NoLostWakeup'
    <3>1. SUFFICES ASSUME NEW q \in Slots, Deliverable(sig', q) # {},
                          kern'.state[q] \in {"BLOCKED", "SLEEP"}
                   PROVE  FALSE
      <4>1. \A q \in Slots : Deliverable(sig', q) # {} => kern'.state[q] # "RUNNING"
        BY <1>1, <2>2
      <4>2. \A q \in Slots : kern'.state[q] # "RUNNING" =>
              kern'.state[q] \in {"READY", "STOPPED"} \/ kern'.state[q] \in {"BLOCKED", "SLEEP"}
        BY <1>1 DEF States
      <4>3. NoLostWakeup' <=>
              \A q \in Slots : Deliverable(sig', q) # {} => kern'.state[q] \in {"READY", "STOPPED"}
        BY DEF NoLostWakeup, Deliverable
      <4> QED BY <4>1, <4>2, <4>3
    <3>2. q # p
      BY <2>2, <3>1
    <3>3. Deliverable(sig, q) # {}
      BY <2>2, <3>1, <3>2 DEF SigStep
    <3>4. kern.state[q] \in {"READY", "STOPPED"}
      BY <2>4, <3>3 DEF NoLostWakeup
    <3>5. q # Running
      BY <3>4, RunningIsPcb DEF SigInv, OneRuns, Running
    <3> QED BY <3>1, <3>4, <3>5 DEF Grown, Calm
  <2> QED BY <2>2, <2>3, <2>4 DEF SigInv, SigTypeOK
<1> QED BY <1>3, <1>4

-----------------------------------------------------------------------------
(* A new process begins with a nest of no frames.                          *)
LEMMA RenewedIs ==
  ASSUME SigInv, Grown(Nest(sig))
  PROVE  /\ Renewed \in SigType /\ SameBits(sig, Renewed)
         /\ Nest(sig) \cup Born \subseteq Nest(Renewed)
         /\ \A p \in Slots :
              /\ Renewed.frames[p] = IF p \in Born THEN <<>> ELSE sig.frames[p]
              /\ Renewed.priority[p] = IF p \in Born THEN 0 ELSE sig.priority[p]
<1>1. sig \in SigType /\ 0 \in Masks
  BY SignalsAssumption DEF SigInv, SigTypeOK, Masks
<1> DEFINE priority == [s \in Slots |-> IF s \in Born THEN 0 ELSE sig.priority[s]]
           frames   == [s \in Slots |-> IF s \in Born THEN <<>> ELSE sig.frames[s]]
<1>2. Renewed = [sig EXCEPT !.priority = priority, !.frames = frames]
  BY DEF Renewed, Born
<1>3. priority \in [Slots -> Masks] /\ frames \in [Slots -> Seq(Frame)]
  BY <1>1 DEF SigType
<1>4. /\ Renewed.priority = priority /\ Renewed.frames = frames /\ Renewed \in SigType
      /\ SameBits(sig, Renewed)
  <2> HIDE DEF priority, frames
  <2> QED BY <1>1, <1>2, <1>3 DEF SigType, SameBits
<1>5. ASSUME NEW p \in Nest(sig) \cup Born PROVE p \in Nest(Renewed)
  <2>1. p \in Pcbs /\ p \in Slots
    BY Constants DEF Grown, Region
  <2>2. CASE p \in Born
    <3>1. Renewed.frames[p] = <<>> /\ Renewed.priority[p] = 0
      BY <1>4, <2>1, <2>2
    <3> QED BY <2>1, <3>1 DEF Nest, Nests, Under
  <2>3. CASE p \notin Born
    <3>1. Renewed.frames[p] = sig.frames[p] /\ Renewed.priority[p] = sig.priority[p]
      BY <1>4, <2>1, <2>3
    <3> QED BY <2>1, <2>3, <3>1 DEF Nest, Nests
  <2> QED BY <2>2, <2>3
<1> QED BY <1>4, <1>5

(* A request of the kernel without signals, in the one with signals.       *)
LEMMA AlsoSteps ==
  ASSUME SigInv, Grown(Nest(sig)), Delivers(Renewed)
  PROVE  SigStep(Renewed) /\ Asked(Renewed)
<1>1. \A p \in Slots : kern'.state[p] \in {"BLOCKED", "SLEEP"} =>
        Deliverable(Renewed, p) = Deliverable(sig, p)
  BY RenewedIs DEF Born, SameBits, Deliverable
<1>2. Asked(Renewed)
  <2> DEFINE h == Handled(sig)
  <2>1. /\ Renewed.pending = sig.pending
        /\ \A p \in Slots : Renewed.frames[p] = IF p \in Born THEN <<>> ELSE sig.frames[p]
    BY RenewedIs DEF SameBits
  <2>2. [i \in DOMAIN <<>> |-> <<>>[i].signum] = <<>>
    OBVIOUS
  <2>3. Handled(Renewed) = [p \in Slots |-> IF p \in Born THEN <<>> ELSE h[p]]
    BY <2>1, <2>2 DEF Handled
  <2>4. DOMAIN h = Slots /\ h = [p \in Slots |-> h[p]]
    BY DEF Handled
  <2> HIDE DEF h
  <2>5. CASE Born = {}
    BY <2>1, <2>3, <2>4, <2>5 DEF Asked, h
  <2>6. CASE Born # {}
    <3>1. PICK b \in Born : \A p \in Born : p = b
      BY <2>6 DEF Grown
    <3>2. b \in Slots
      BY DEF Born
    <3>3. Handled(Renewed) = [h EXCEPT ![b] = <<>>]
      BY <2>3, <2>4, <3>1, <3>2
    <3> QED BY <2>1, <3>2, <3>3 DEF Asked, h
  <2> QED BY <2>5, <2>6
<1> QED BY <1>1, <1>2, RenewedIs DEF SigStep

(* What a signal request leaves in the kernel's memory.                    *)
LEMMA SigServe ==
  ASSUME Inv, NEW L, Region(L), Linked(kern, L), NEW k \in KernelType, NEW s,
         k.fault = "none" => OneRuns(k) /\ PidsNameSlots(k) /\ k.pid = kern.pid,
         Within(kern, k, L, {Running}), ServeSig(k, s)
  PROVE  /\ Inv' /\ Grown(L) /\ Born = {} /\ Delivers(s)
         /\ kern'.state \in {k.state, kern.state}
<1>1. Serve(k)
  BY DEF ServeSig
<1>2. Inv'
  BY <1>1, ServeKeeps
<1>3. Plain(L)
  BY <1>1, ServeWithin
<1>4. Delivers(s)
  <2>1. kern'.fault = k.fault /\ (k.fault = "none" => kern' = k)
    BY <1>1, InvIs DEF Serve, KernelType
  <2> QED BY <2>1 DEF ServeSig, Delivers
<1>5. kern'.state \in {k.state, kern.state}
  BY <1>1, InvIs DEF Serve, KernelType
<1> QED BY <1>2, <1>3, <1>4, <1>5, PlainGrows DEF Plain, Born

(* A signal request that only returns a result.                            *)
LEMMA SigReturns ==
  ASSUME Inv, NEW L, Region(L), Linked(kern, L), NEW n \in Int, NEW s,
         ServeSig([kern EXCEPT !.ret[Running] = n], s)
  PROVE  /\ Inv' /\ Grown(L) /\ Born = {} /\ Delivers(s) /\ kern'.state = kern.state
<1> DEFINE k == [kern EXCEPT !.ret[Running] = n]
<1>1. kern \in KernelType /\ OneRuns(kern) /\ PidsNameSlots(kern)
  BY InvIs
<1>2. k \in KernelType /\ Undisturbed(kern, k)
  BY <1>1, SetRet
<1>3. SameLinks(kern, k) /\ k.pid = kern.pid /\ k.fault = kern.fault
  BY <1>1 DEF SameLinks, KernelType
<1> HIDE DEF k
<1>4. Within(kern, k, L, {Running}) /\ (k.fault = "none" => OneRuns(k) /\ PidsNameSlots(k))
  BY <1>1, <1>2, <1>3, SameLinksWithin, UndisturbedKeeps
<1>5. ServeSig(k, s)
  BY DEF k
<1> QED BY <1>2, <1>3, <1>4, <1>5, SigServe DEF SameLinks

(* A change of what the running process may handle, and of nothing else,   *)
(* while it stays running.                                                 *)
LEMMA RunningSteps ==
  ASSUME SigInv, NEW s \in SigType, Delivers(s), Born = {}, kern'.state = kern.state,
         Nest(sig) \subseteq Nest(s),
         \A p \in Slots \ {Running} : Deliverable(s, p) = Deliverable(sig, p)
  PROVE  SigStep(s)
<1>1. kern'.state[Running] = "RUNNING"
  BY RunningIsPcb DEF SigInv, OneRuns, Running
<1> QED BY <1>1 DEF SigStep

(* The frames and the masks decide what nests.                             *)
LEMMA SameNest ==
  ASSUME NEW s, NEW r, r.priority = s.priority, r.frames = s.frames
  PROVE  Nest(r) = Nest(s)
BY DEF Nest, Nests

(* What every request leaves, for each of the signal requests.             *)
LEMMA SigHandlerSteps ==
  ASSUME SigInv, NEW n \in SigNos, NEW h \in Nat, SigHandler(n, h)
  PROVE  Inv' /\ Grown(Nest(sig)) /\ \E s : SigStep(s) /\ Asked(s)
<1> DEFINE s == [sig EXCEPT !.handler[Running][n] = h,
                            !.allow[Running] = IF h = 0 THEN @ \ {n} ELSE @ \cup {n}]
<1>1. Inv /\ sig \in SigType /\ Region(Nest(sig)) /\ Linked(kern, Nest(sig))
  BY DEF SigInv, SigTypeOK
<1>2. Inv' /\ Grown(Nest(sig)) /\ Born = {} /\ Delivers(s) /\ kern'.state = kern.state
  BY <1>1, SigReturns DEF SigHandler
<1>3. s \in SigType
  BY <1>1 DEF SigType
<1>4. s.priority = sig.priority /\ s.frames = sig.frames /\ s.pending = sig.pending
      /\ \A p \in Slots \ {Running} : s.allow[p] = sig.allow[p]
  BY <1>1 DEF SigType
<1> HIDE DEF s
<1>5. Nest(s) = Nest(sig) /\ \A p \in Slots \ {Running} : Deliverable(s, p) = Deliverable(sig, p)
  BY <1>4, SameNest DEF Deliverable
<1>6. SigStep(s) /\ Asked(s)
  BY <1>2, <1>3, <1>4, <1>5, RunningSteps, SameIsAsked DEF SameAsked
<1> QED BY <1>2, <1>6

(* signal() makes a process ready that waits.                              *)
LEMMA signal_Keeps ==
  ASSUME Inv, NEW L, Region(L), Linked(kern, L), NEW t \in Slots, NEW n \in SigNos
  PROVE  LET k == [signal(kern, t, n) EXCEPT !.ret[Running] = 0]
         IN  /\ k \in KernelType /\ Within(kern, k, L, {Running})
             /\ k.fault = "none" => /\ OneRuns(k) /\ PidsNameSlots(k) /\ k.pid = kern.pid
                                    /\ k.state[t] \notin {"BLOCKED", "SLEEP"}
<1> DEFINE w == ready(kern, t)
           k1 == signal(kern, t, n)
           k  == [k1 EXCEPT !.ret[Running] = 0]
<1>1. kern \in KernelType /\ OneRuns(kern) /\ PidsNameSlots(kern)
  BY InvIs
<1>2. CASE kern.state[t] \in {"BLOCKED", "SLEEP"}
  <2>1. t \in L
    BY <1>2 DEF Linked
  <2>2. /\ w \in KernelType /\ Within(kern, w, L, {Running})
        /\ w.fault = "none" => /\ kern.fault = "none" /\ w.pid = kern.pid
                               /\ w.state = [kern.state EXCEPT ![t] = "READY"]
    BY <1>1, <2>1, ready_Keeps, ready_Within
  <2>3. Fewer(kern, w) /\ (w.fault = "none" => Runners(w) = Runners(kern) \ {t})
    BY <1>1, ready_Fewer
  <2> HIDE DEF w
  <2>4. PICK x \in Int : k1 = [w EXCEPT !.ret[t] = x]
    <3>1. kern.sleepticks[t] \in Int /\ n \in Int /\ EINTR \in Int
      <4>1. kern.sleepticks[t] \in Ticks
        BY <1>1 DEF KernelType
      <4> QED BY <4>1, SignalsAssumption, SleepListAssumption DEF Ticks, EINTR, Bits
    <3>2. w.ret[t] = SYS_SIGWAIT \/ w.ret[t] # SYS_SIGWAIT
      OBVIOUS
    <3>3. kern.state[t] = "BLOCKED" =>
            k1 \in {[w EXCEPT !.ret[t] = n], [w EXCEPT !.ret[t] = EINTR]}
      BY DEF signal, w
    <3>4. kern.state[t] = "SLEEP" => k1 = [w EXCEPT !.ret[t] = kern.sleepticks[t]]
      BY DEF signal, w
    <3> QED BY <1>2, <3>1, <3>3, <3>4
  <2> HIDE DEF k1
  <2>5. k1 \in KernelType /\ SameLinks(w, k1) /\ k1.fault = w.fault /\ k1.pid = w.pid
    BY <2>2, <2>4 DEF KernelType, SameLinks
  <2>6. k \in KernelType /\ SameLinks(w, k) /\ k.fault = w.fault /\ k.pid = w.pid
    <3>1. 0 \in Int
      OBVIOUS
    <3> QED BY <2>5, <3>1 DEF KernelType, SameLinks
  <2> HIDE DEF k
  <2>7. Within(kern, k, L, {Running})
    BY <2>2, <2>6, SameLinksWithin, WithinAfter DEF Within
  <2>8. ASSUME k.fault = "none"
        PROVE  /\ OneRuns(k) /\ PidsNameSlots(k) /\ k.pid = kern.pid
               /\ k.state[t] \notin {"BLOCKED", "SLEEP"}
    <3>1. Undisturbed(kern, k)
      BY <1>1, <1>2, <2>3, <2>6, <2>8 DEF Undisturbed, Fewer, Runners, SameLinks
    <3>2. k.state[t] = "READY"
      BY <1>1, <2>2, <2>6, <2>8 DEF SameLinks, KernelType
    <3> QED BY <1>1, <2>8, <3>1, <3>2, UndisturbedKeeps DEF Undisturbed
  <2> QED BY <2>6, <2>7, <2>8 DEF k, k1
<1>3. CASE kern.state[t] \notin {"BLOCKED", "SLEEP"}
  <2>1. k1 = kern
    BY <1>3 DEF signal
  <2> HIDE DEF k1
  <2>2. k \in KernelType /\ SameLinks(kern, k) /\ k.fault = kern.fault /\ k.pid = kern.pid
    <3>1. 0 \in Int
      OBVIOUS
    <3>2. k = [kern EXCEPT !.ret[Running] = 0]
      BY <2>1
    <3> HIDE DEF k
    <3> QED BY <1>1, <3>1, <3>2 DEF KernelType, SameLinks
  <2>3. Undisturbed(kern, k)
    BY <2>2 DEF Undisturbed, SameLinks, Runners
  <2> HIDE DEF k
  <2> QED BY <1>1, <1>3, <2>2, <2>3, SameLinksWithin, UndisturbedKeeps DEF SameLinks, k, k1
<1> QED BY <1>2, <1>3

(* SYS_SIGKILL: the target is not left waiting, whatever it may handle.    *)
LEMMA SigKillSteps ==
  ASSUME SigInv, NEW pid \in Nat, NEW n, SigKill(pid, n)
  PROVE  Inv' /\ Grown(Nest(sig)) /\ \E s : SigStep(s) /\ Asked(s)
<1>1. Inv /\ sig \in SigType /\ Region(Nest(sig)) /\ Linked(kern, Nest(sig))
  BY DEF SigInv, SigTypeOK
<1>2. CASE ~validsignal(sig, pid, n)
  <2>1. INVALID_SIGNAL \in Int
    BY DEF INVALID_SIGNAL
  <2>2. Inv' /\ Grown(Nest(sig)) /\ Born = {} /\ Delivers(sig) /\ kern'.state = kern.state
    BY <1>1, <1>2, <2>1, SigReturns DEF SigKill
  <2> QED BY <1>1, <2>2, RunningSteps, SameIsAsked DEF SameAsked
<1>3. CASE validsignal(sig, pid, n)
  <2> DEFINE t == Slot(pid)
             k == [signal(kern, t, n) EXCEPT !.ret[Running] = 0]
             s == [sig EXCEPT !.pending[t] = @ \cup {n}]
  <2>1. ServeSig(k, s)
    BY <1>3 DEF SigKill
  <2>2. t \in Slots /\ n \in SigNos
    BY <1>1, <1>3, SlotInSlots, SigFields DEF validsignal
  <2>3. /\ k \in KernelType /\ Within(kern, k, Nest(sig), {Running})
        /\ k.fault = "none" => /\ OneRuns(k) /\ PidsNameSlots(k) /\ k.pid = kern.pid
                               /\ k.state[t] \notin {"BLOCKED", "SLEEP"}
    BY <1>1, <2>2, signal_Keeps
  <2> HIDE DEF k
  <2>4. Inv' /\ Grown(Nest(sig)) /\ Born = {} /\ Delivers(s)
    BY <1>1, <2>1, <2>3, SigServe
  <2>5. s \in SigType
    BY <1>1, <2>2 DEF SigType
  <2>6. /\ s.priority = sig.priority /\ s.frames = sig.frames /\ s.allow = sig.allow
        /\ \A p \in Slots \ {t} : s.pending[p] = sig.pending[p]
    BY <1>1 DEF SigType
  <2> HIDE DEF s
  <2>7. Nest(s) = Nest(sig) /\ \A p \in Slots \ {t} : Deliverable(s, p) = Deliverable(sig, p)
    BY <2>6, SameNest DEF Deliverable
  <2>8. CASE k.fault = "none"
    <3>1. kern' = k
      BY <2>1, <2>8 DEF ServeSig, Serve
    <3>2. SigStep(s)
      BY <2>3, <2>4, <2>5, <2>7, <2>8, <3>1 DEF SigStep
    <3>3. s.pending = [sig.pending EXCEPT ![t] = @ \cup {n}] /\ Handled(s) = Handled(sig)
      BY <1>1, <2>6 DEF s, Handled, SigType
    <3>4. Asked(s)
      BY <2>2, <3>3, SignalsAssumption DEF Asked
    <3> QED BY <2>4, <3>2, <3>4
  <2>9. CASE k.fault # "none"
    <3>1. kern' = [kern EXCEPT !.fault = k.fault] /\ kern \in KernelType
      BY <1>1, <2>1, <2>9, InvIs DEF ServeSig, Serve
    <3>2. kern'.fault # "none"
      BY <2>9, <3>1 DEF KernelType
    <3>3. SigStep(sig) /\ Asked(sig)
      <4>1. Delivers(sig)
        BY <2>4, <3>2 DEF Delivers
      <4> QED BY <1>1, <2>4, <4>1, SameIsAsked DEF SigStep, SameAsked
    <3> QED BY <2>4, <3>3
  <2> QED BY <2>8, <2>9
<1> QED BY <1>2, <1>3

(* SYS_SIGWAIT: the process that waits has run, so it had nothing to       *)
(* handle.                                                                 *)
LEMMA SigWaitSteps ==
  ASSUME SigInv, SigWait
  PROVE  Inv' /\ Grown(Nest(sig)) /\ \E s : SigStep(s) /\ Asked(s)
<1>1. Inv /\ sig \in SigType /\ Region(Nest(sig)) /\ Linked(kern, Nest(sig))
  BY DEF SigInv, SigTypeOK
<1>2. CASE sig.allow[Running] = {}
  <2>1. SIGNAL_INVALID \in Int
    BY DEF SIGNAL_INVALID
  <2>2. Inv' /\ Grown(Nest(sig)) /\ Born = {} /\ Delivers(sig) /\ kern'.state = kern.state
    BY <1>1, <1>2, <2>1, SigReturns DEF SigWait
  <2> QED BY <1>1, <2>2, RunningSteps, SameIsAsked DEF SameAsked
<1>3. CASE sig.allow[Running] # {}
  <2> DEFINE b == Block(kern, Running, SYS_SIGWAIT)
             k == Dispatch(b)
             s == [sig EXCEPT !.sigwaiter[Running] = TRUE]
  <2>1. ServeSig(k, s)
    BY <1>3 DEF SigWait
  <2>2. SYS_SIGWAIT \in Int
    BY DEF SYS_SIGWAIT
  <2>3. Gave(kern, Running, b) /\ Within(kern, b, Nest(sig), {Running})
    BY <1>1, <2>2, RunningIsPcb, RunningWithin, Block_Gives, Block_Within
  <2> HIDE DEF b
  <2>4. /\ k \in KernelType /\ Within(kern, k, Nest(sig), {Running})
        /\ k.fault = "none" => OneRuns(k) /\ PidsNameSlots(k) /\ k.pid = kern.pid
    BY <1>1, <2>3, DispatchKeeps, DispatchWithin
  <2> HIDE DEF k
  <2>5. Inv' /\ Grown(Nest(sig)) /\ Born = {} /\ Delivers(s)
    BY <1>1, <2>1, <2>4, SigServe
  <2>6. s \in SigType /\ s.priority = sig.priority /\ s.frames = sig.frames
        /\ s.allow = sig.allow /\ s.pending = sig.pending
    BY <1>1 DEF SigType
  <2> HIDE DEF s
  <2>7. Nest(s) = Nest(sig) /\ \A p \in Slots : Deliverable(s, p) = Deliverable(sig, p)
    BY <2>6, SameNest DEF Deliverable
  <2>8. Asked(s)
    BY <2>6, SameIsAsked DEF SameAsked
  <2> QED BY <2>5, <2>6, <2>7, <2>8 DEF SigStep
<1> QED BY <1>2, <1>3

(* sigreturn takes the frame on top off, and its mask back.                *)
Popped(s, r, p) ==
  LET f == s.frames[p]
  IN  /\ r.priority = [s.priority EXCEPT ![p] = f[Len(f)].priority]
      /\ r.frames = [s.frames EXCEPT ![p] = SubSeq(f, 1, Len(f) - 1)]
      /\ r.allow = s.allow /\ r.handler = s.handler

(* SYS_SIGRETURN takes the frame on top off, and what is below still       *)
(* nests.                                                                  *)
LEMMA CompletedIs ==
  ASSUME NEW s \in SigType, NEW p \in Slots, s.frames[p] # <<>>, NEW n
  PROVE  LET r == Completed(s, p, n)
         IN  /\ r \in SigType /\ Popped(s, r, p) /\ Nest(s) \subseteq Nest(r)
             /\ r.pending = [s.pending EXCEPT ![p] = @ \ {n}]
<1> DEFINE r == Completed(s, p, n)
           f == s.frames[p]
           g == SubSeq(f, 1, Len(f) - 1)
           waits == s.sigwaiter[p] /\ s.pending[p] \ {n} # {}
<1>1. f \in Seq(Frame) /\ Len(f) \in Nat /\ Len(f) >= 1 /\ DOMAIN f = 1 .. Len(f)
  <2>1. f \in Seq(Frame)
    BY SigFields
  <2> HIDE DEF f
  <2> QED BY <2>1 DEF f
<1>2. /\ r.priority = [s.priority EXCEPT ![p] = f[Len(f)].priority]
      /\ r.frames = [s.frames EXCEPT ![p] = g]
      /\ r.pending = [s.pending EXCEPT ![p] = @ \ {n}]
      /\ r.allow = s.allow /\ r.handler = s.handler
      /\ r = [s EXCEPT !.priority = r.priority, !.frames = r.frames, !.pending = r.pending,
                       !.sigwaiter = r.sigwaiter]
      /\ r.sigwaiter = [s.sigwaiter EXCEPT ![p] = waits]
  BY DEF Completed, SigType
<1>3. /\ s.frames \in [Slots -> Seq(Frame)] /\ s.priority \in [Slots -> Masks]
      /\ s.pending \in [Slots -> SUBSET SigNos] /\ s.sigwaiter \in [Slots -> BOOLEAN]
  BY DEF SigType
<1> HIDE DEF f, r
<1>4. /\ g \in Seq(Frame) /\ Len(g) = Len(f) - 1 /\ DOMAIN g = 1 .. Len(f) - 1
      /\ \A i \in 1 .. Len(f) - 1 : g[i] = f[i]
  BY <1>1
<1> HIDE DEF g
<1>5. f[Len(f)] \in Frame /\ f[Len(f)].priority \in Masks
  <2>1. f[Len(f)] \in Frame
    BY <1>1
  <2> QED BY <2>1 DEF Frame
<1>6. r \in SigType
  <2>1. r.frames \in [Slots -> Seq(Frame)] /\ r.priority \in [Slots -> Masks]
    BY <1>2, <1>3, <1>4, <1>5
  <2>2. r.pending \in [Slots -> SUBSET SigNos]
    BY <1>2, <1>3
  <2>3. r.sigwaiter \in [Slots -> BOOLEAN]
    <3>1. waits \in BOOLEAN
      OBVIOUS
    <3> HIDE DEF waits
    <3> QED BY <1>2, <1>3, <3>1
  <2> QED BY <1>2, <2>1, <2>2, <2>3 DEF SigType
<1>7. ASSUME NEW q \in Nest(s) PROVE q \in Nest(r)
  <2>1. q \in Pcbs /\ q \in Slots /\ Nests(s, q)
    BY Constants DEF Nest
  <2>2. CASE q # p
    <3>1. r.frames[q] = s.frames[q] /\ r.priority[q] = s.priority[q]
      BY <1>2, <1>3, <2>1, <2>2
    <3> QED BY <2>1, <3>1 DEF Nest, Nests
  <2>3. CASE q = p
    <3>1. r.frames[q] = g /\ r.priority[q] = f[Len(f)].priority
      BY <1>2, <1>3, <2>1, <2>3
    <3>2. \A i \in 1 .. Len(f) : f[i].priority = Under(f, i - 1)
      BY <1>1, <2>1, <2>3 DEF Nests, f
    <3>3. \A i \in 0 .. Len(f) - 1 : Under(g, i) = Under(f, i)
      BY <1>1, <1>4 DEF Under
    <3>4. r.priority[q] = Under(g, Len(g))
      BY <1>1, <1>4, <3>1, <3>2, <3>3
    <3>5. \A i \in DOMAIN g : g[i].priority = Under(g, i - 1)
      <4> TAKE i \in DOMAIN g
      <4>1. i \in 1 .. Len(f) /\ i \in 1 .. Len(f) - 1 /\ i - 1 \in 0 .. Len(f) - 1
        BY <1>1, <1>4
      <4> QED BY <1>4, <3>2, <3>3, <4>1
    <3> QED BY <2>1, <2>3, <3>1, <3>4, <3>5 DEF Nest, Nests
  <2> QED BY <2>2, <2>3
<1> QED BY <1>2, <1>6, <1>7 DEF Popped, r, f, g

(* Every signal request ends in a delivery.                                *)
LEMMA ServeSigDelivers ==
  ASSUME Inv, NEW k \in KernelType, NEW s, ServeSig(k, s) PROVE Delivers(s)
<1>1. kern'.fault = k.fault /\ (k.fault = "none" => kern' = k)
  BY InvIs DEF ServeSig, Serve, KernelType
<1> QED BY <1>1 DEF ServeSig, Delivers

(* What SYS_SIGRETURN returns is a word.                                   *)
LEMMA SigReturnResult ==
  ASSUME SigInv, sig.frames[Running] # <<>>, NEW n \in pr_mask_to_signum(sig.priority[Running])
  PROVE  n \in Int /\ Result(sig, Running, n) \in Int
<1>1. sig \in SigType /\ Running \in Slots
  BY RunningIsPcb DEF SigInv, SigTypeOK
<1>2. n \in Int
  <2>1. sig.priority[Running] \in Masks
    BY <1>1, SigFields
  <2> QED BY <2>1, SignalsAssumption DEF pr_mask_to_signum, Masks, Bits
<1> DEFINE f == sig.frames[Running]
<1>3. f \in Seq(Frame) /\ f # <<>>
  BY <1>1, SigFields
<1> HIDE DEF f
<1>4. f[Len(f)] \in Frame
  BY <1>3
<1>5. f[Len(f)].ret \in Int
  BY <1>4 DEF Frame
<1>6. EINTR \in Int
  BY DEF EINTR
<1> QED BY <1>2, <1>5, <1>6 DEF Result, f

(* SYS_SIGRETURN: the signal read off the mask is the one on top of those  *)
(* being handled, unless it is the one before MAXSIGNAL.                   *)
LEMMA SigReturnSteps ==
  ASSUME SigInv, SigReturn
  PROVE  Inv' /\ Grown(Nest(sig)) /\ \E s : SigStep(s) /\ (MAXSIGNAL - 1 \notin SigNos => Asked(s))
<1>1. Inv /\ sig \in SigType /\ Region(Nest(sig)) /\ Linked(kern, Nest(sig)) /\ Running \in Slots
  BY RunningIsPcb DEF SigInv, SigTypeOK
<1>2. sig.frames[Running] # <<>>
  BY DEF SigReturn
<1>3. PICK n \in pr_mask_to_signum(sig.priority[Running]) :
        ServeSig([kern EXCEPT !.ret[Running] = Result(sig, Running, n)],
                 Completed(sig, Running, n))
  BY DEF SigReturn
<1>4. Result(sig, Running, n) \in Int
  BY <1>2, SigReturnResult
<1> DEFINE s == Completed(sig, Running, n)
<1>5. Inv' /\ Grown(Nest(sig)) /\ Born = {} /\ Delivers(s) /\ kern'.state = kern.state
  BY <1>1, <1>3, <1>4, SigReturns
<1>6. /\ s \in SigType /\ Popped(sig, s, Running) /\ Nest(sig) \subseteq Nest(s)
      /\ s.pending = [sig.pending EXCEPT ![Running] = @ \ {n}]
  BY <1>1, <1>2, CompletedIs
<1> HIDE DEF s
<1>7. \A p \in Slots \ {Running} : Deliverable(s, p) = Deliverable(sig, p)
  BY <1>1, <1>6 DEF Deliverable, Popped, SigType
<1>8. SigStep(s)
  BY <1>5, <1>6, <1>7, RunningSteps
<1>9. ASSUME MAXSIGNAL - 1 \notin SigNos PROVE Asked(s)
  <2> DEFINE f == sig.frames[Running]
             h == Handled(sig)[Running]
  <2>1. f \in Seq(Frame) /\ f # <<>> /\ h = [i \in DOMAIN f |-> f[i].signum]
        /\ SigNos \subseteq Bits
    BY <1>1, <1>2, SigFields DEF Handled
  <2>2. sig.priority[Running] = Under(f, Len(f))
    BY <1>1, RunningWithin DEF Nest, Nests
  <2> HIDE DEF f
  <2>3. f[Len(f)] \in Frame /\ Len(f) \in Nat /\ Len(f) >= 1 /\ DOMAIN f = 1 .. Len(f)
        /\ \A i \in 1 .. Len(f) : f[i] \in Frame
    BY <2>1
  <2>4. f[Len(f)].signum \in SigNos /\ \A i \in 1 .. Len(f) : f[i].signum \in SigNos
    BY <2>3 DEF Frame
  <2>5. n = f[Len(f)].signum
    <3> DEFINE m == f[Len(f)].signum
    <3>1. sig.priority[Running] = m + 1 /\ m \in 0 .. MAXSIGNAL /\ m # MAXSIGNAL - 1
      <4>1. m \in SigNos /\ SigNos \subseteq 0 .. MAXSIGNAL /\ Len(f) # 0
        BY <2>1, <2>3, <2>4 DEF Bits
      <4>2. sig.priority[Running] = m + 1
        BY <2>2, <4>1 DEF Under, get_priority_mask
      <4> QED BY <1>9, <4>1, <4>2
    <3> HIDE DEF m
    <3>2. pr_mask_to_signum(sig.priority[Running]) = {m}
      BY <3>1, SignalsAssumption DEF pr_mask_to_signum
    <3> QED BY <1>3, <3>2 DEF m
  <2> HIDE DEF h
  <2>6. h \in Seq(SigNos) /\ Len(h) = Len(f) /\ \A i \in 1 .. Len(f) : h[i] = f[i].signum
    BY <2>1, <2>3, <2>4
  <2>7. h # <<>> /\ Service!Top(h) = n
    BY <2>3, <2>5, <2>6 DEF Service!Top
  <2>8. s.frames = [sig.frames EXCEPT ![Running] = SubSeq(f, 1, Len(f) - 1)]
    BY <1>6 DEF Popped, f
  <2>9. [i \in DOMAIN SubSeq(f, 1, Len(f) - 1) |-> SubSeq(f, 1, Len(f) - 1)[i].signum]
          = Service!Bottom(h)
    <3> DEFINE g == SubSeq(f, 1, Len(f) - 1)
               b == SubSeq(h, 1, Len(f) - 1)
    <3>1. /\ DOMAIN g = 1 .. Len(f) - 1 /\ \A i \in 1 .. Len(f) - 1 : g[i] = f[i]
          /\ b \in Seq(SigNos) /\ Len(b) = Len(f) - 1
          /\ \A i \in 1 .. Len(f) - 1 : b[i] = h[i]
      BY <2>1, <2>3, <2>6
    <3> HIDE DEF g, b
    <3>2. b = [i \in 1 .. Len(f) - 1 |-> b[i]]
      BY <3>1, LenProperties
    <3>3. \A i \in 1 .. Len(f) - 1 : g[i].signum = b[i]
      BY <2>3, <2>6, <3>1
    <3>4. [i \in DOMAIN g |-> g[i].signum] = b
      BY <3>1, <3>2, <3>3
    <3> QED BY <2>6, <3>4 DEF g, b, Service!Bottom
  <2>10. \A q \in Slots :
           s.frames[q] = IF q = Running THEN SubSeq(f, 1, Len(f) - 1) ELSE sig.frames[q]
    BY <1>1, <2>8 DEF SigType
  <2>11. Handled(s) = [q \in Slots |-> IF q = Running THEN Service!Bottom(h) ELSE Handled(sig)[q]]
    BY <2>9, <2>10 DEF Handled
  <2>12. DOMAIN Handled(sig) = Slots
    BY DEF Handled
  <2>13. Handled(s) = [Handled(sig) EXCEPT ![Running] = Service!Bottom(h)]
    BY <2>11, <2>12
  <2> QED BY <1>1, <1>6, <2>7, <2>13 DEF Asked, h
<1> QED BY <1>5, <1>8, <1>9

(* Every request of the kernel with signals.                               *)
LEMMA NextSigSteps ==
  ASSUME SigInv, NextSig
  PROVE  Inv' /\ Grown(Nest(sig)) /\ \E s : SigStep(s) /\ (MAXSIGNAL - 1 \notin SigNos => Asked(s))
<1>1. CASE Also(Next)
  <2>1. Next /\ Delivers(Renewed)
    BY <1>1 DEF Also, Delivers
  <2>2. Inv' /\ Grown(Nest(sig))
    BY <2>1, NextKeepsInv, NextGrows DEF SigInv
  <2> QED BY <2>1, <2>2, AlsoSteps
<1>2. ASSUME NEW n \in SigNos, NEW h \in Handlers, SigHandler(n, h)
      PROVE  Inv' /\ Grown(Nest(sig)) /\ \E s : SigStep(s) /\ (MAXSIGNAL - 1 \notin SigNos => Asked(s))
  BY <1>2, SigHandlerSteps, SignalsAssumption
<1>3. ASSUME NEW pid \in 0 .. MaxPid, NEW n \in SigNos, SigKill(pid, n)
      PROVE  Inv' /\ Grown(Nest(sig)) /\ \E s : SigStep(s) /\ (MAXSIGNAL - 1 \notin SigNos => Asked(s))
  BY <1>3, SigKillSteps, KernelAssumption
<1>4. CASE SigWait
  BY <1>4, SigWaitSteps
<1>5. CASE SigReturn
  BY <1>5, SigReturnSteps
<1> QED BY <1>1, <1>2, <1>3, <1>4, <1>5 DEF NextSig

(* The invariant is inductive, and NoLostWakeup relative to it.            *)
LEMMA NextKeepsSigInv ==
  SigInv /\ NoLostWakeup /\ [NextSig]_sigVars => SigInv' /\ NoLostWakeup'
<1> SUFFICES ASSUME SigInv, NoLostWakeup, [NextSig]_sigVars PROVE SigInv' /\ NoLostWakeup'
  OBVIOUS
<1>1. CASE NextSig
  BY <1>1, NextSigSteps, StepKeepsSigInv
<1>2. CASE UNCHANGED sigVars
  <2>1. kern' = kern /\ sig' = sig
    BY <1>2 DEF sigVars
  <2>2. Inv'
    BY <2>1 DEF SigInv, Inv, TypeOK, OneRunning, Running, PidNamesSlot
  <2> QED BY <2>1, <2>2 DEF SigInv, SigTypeOK, NoLostWakeup, Deliverable
<1> QED BY <1>1, <1>2

(* The inductive invariant holds of every workload: the kernel's own,      *)
(* every pointer leading to a slot whose masks nest, and no process that   *)
(* waits having a signal to handle.                                        *)
THEOREM SigInvHolds == SpecSig => [](SigInv /\ NoLostWakeup)
BY InitSigInv, NextKeepsSigInv, PTL DEF SpecSig

(* The signal fields keep their types (signal.c).                          *)
THEOREM SignalTypes == SpecSig => []SigTypeOK
<1>1. SigInv => SigTypeOK
  BY DEF SigInv
<1> QED BY <1>1, SigInvHolds, PTL

(* A process that has a signal to handle is never left asleep or blocked,  *)
(* and the running process has none (signal.c, disp.c:269).                *)
THEOREM NoWakeupLost == SpecSig => []NoLostWakeup
BY SigInvHolds, PTL

(* The masks that the frames saved lead back, one by one, to the one that  *)
(* admits every signal (signal.c, sigreturn).                              *)
THEOREM MasksAlwaysUnwind == SpecSig => []MasksUnwind
<1>1. SigInv => MasksUnwind
  <2> SUFFICES ASSUME SigInv, NEW p \in Slots, kern.state[p] # "STOPPED"
               PROVE  LET f    == sig.frames[p]
                          mask == [i \in 0 .. Len(f) |->
                                     IF i = 0 THEN 0 ELSE get_priority_mask(f[i].signum)]
                      IN  /\ sig.priority[p] = mask[Len(f)]
                          /\ \A i \in DOMAIN f : f[i].priority = mask[i - 1]
    BY DEF MasksUnwind
  <2>1. p \in Nest(sig)
    BY DEF SigInv, Linked
  <2> DEFINE f == sig.frames[p]
  <2>2. f \in Seq(Frame)
    BY SigFields DEF SigInv, SigTypeOK
  <2>3. sig.priority[p] = Under(f, Len(f)) /\ \A i \in DOMAIN f : f[i].priority = Under(f, i - 1)
    BY <2>1 DEF Nest, Nests
  <2> HIDE DEF f
  <2>4. /\ Len(f) \in 0 .. Len(f) /\ \A i \in DOMAIN f : i - 1 \in 0 .. Len(f)
    BY <2>2
  <2> QED BY <2>3, <2>4 DEF Under, f
<1> QED BY <1>1, SigInvHolds, PTL

-----------------------------------------------------------------------------
(* The running process, after a step.                                      *)
LEMMA RunningAfter ==
  ASSUME Inv'
  PROVE  kern' \in KernelType /\ Running' \in Slots /\ Running' = kern'.que["running"]
BY Constants DEF Inv, TypeOK, Running

(* Delivery is what SignalService does at the end of each of its steps.    *)
LEMMA DeliversThen ==
  ASSUME SigInv, Inv', NEW s \in SigType, Delivers(s), kern'.fault = "none",
         Running' \in Nest(s)
  PROVE  Service!Then(s.pending, Handled(s))
<1> DEFINE p == Running'
<1>1. kern' \in KernelType /\ p \in Slots /\ p = kern'.que["running"] /\ Nests(s, p)
  BY RunningAfter DEF Nest
<1> HIDE DEF p
<1>2. sig' = deliver_signals_ifany(s, kern')
  BY DEF Delivers
<1>3. CASE Deliverable(s, p) = {}
  <2>1. sig' = s
    BY <1>1, <1>2, <1>3, DeliverIs
  <2> QED BY <2>1 DEF Service!Then
<1>4. CASE Deliverable(s, p) # {}
  <2>1. PICK n \in SigNos : Delivered(s, sig', p, n, kern'.ret[p])
    BY <1>1, <1>2, <1>4, DeliverIs
  <2> DEFINE fr == [signum |-> n, handler |-> s.handler[p][n], priority |-> s.priority[p],
                    ret |-> kern'.ret[p]]
             f  == s.frames[p]
             h  == Handled(s)[p]
  <2>2. /\ fr \in Frame /\ n \in s.pending[p] /\ \A m \in s.pending[p] : m <= n
        /\ n >= s.priority[p] /\ sig'.pending = s.pending
        /\ sig'.frames = [s.frames EXCEPT ![p] = Append(f, fr)]
    BY <2>1 DEF Delivered, SameBits
  <2>3. /\ s.frames \in [Slots -> Seq(Frame)] /\ f \in Seq(Frame)
    BY <1>1 DEF SigType
  <2>4. h = [i \in DOMAIN f |-> f[i].signum] /\ fr.signum = n
    BY <1>1 DEF Handled
  <2>5. s.priority[p] = Under(f, Len(f))
    BY <1>1 DEF Nests
  <2>6. \A i \in 1 .. Len(f) : f[i] \in Frame /\ f[i].signum \in SigNos
    <3> HIDE DEF f, fr
    <3>1. \A i \in 1 .. Len(f) : f[i] \in Frame
      BY <2>3
    <3> QED BY <3>1 DEF Frame
  <2> HIDE DEF f, fr, h
  <2>7. h \in Seq(SigNos) /\ Len(h) = Len(f) /\ \A i \in 1 .. Len(f) : h[i] = f[i].signum
    BY <2>3, <2>4, <2>6
  <2>8. n > Service!Top(h)
    <3>1. SigNos \subseteq Nat
      BY SignalsAssumption DEF Bits
    <3>2. CASE Len(f) = 0
      BY <2>1, <2>7, <3>1, <3>2 DEF Service!Top
    <3>3. CASE Len(f) # 0
      <4>1. Len(f) \in 1 .. Len(f)
        BY <2>3, <3>3
      <4>2. s.priority[p] = f[Len(f)].signum + 1 /\ f[Len(f)].signum \in Nat
        BY <2>5, <2>6, <3>1, <3>3, <4>1 DEF Under, get_priority_mask
      <4>3. Service!Top(h) = f[Len(f)].signum
        BY <2>7, <3>3, <4>1 DEF Service!Top
      <4> QED BY <2>2, <3>1, <4>2, <4>3
    <3> QED BY <3>2, <3>3
  <2>9. Handled(sig') = [Handled(s) EXCEPT ![p] = Append(h, n)]
    <3>1. [i \in DOMAIN Append(f, fr) |-> Append(f, fr)[i].signum] = Append(h, n)
      <4> DEFINE g == [i \in DOMAIN Append(f, fr) |-> Append(f, fr)[i].signum]
      <4>1. /\ DOMAIN Append(f, fr) = 1 .. Len(f) + 1 /\ Append(f, fr)[Len(f) + 1] = fr
            /\ \A i \in 1 .. Len(f) : Append(f, fr)[i] = f[i]
            /\ Len(f) \in Nat
        BY <2>2, <2>3
      <4>2. g = [i \in 1 .. Len(f) + 1 |-> IF i = Len(f) + 1 THEN n ELSE h[i]]
        BY <2>4, <2>7, <4>1
      <4>3. Append(h, n) = [i \in 1 .. Len(f) + 1 |-> IF i = Len(f) + 1 THEN n ELSE h[i]]
        <5> DEFINE a == Append(h, n)
        <5>1. /\ a \in Seq(SigNos) /\ DOMAIN a = 1 .. Len(f) + 1 /\ a[Len(f) + 1] = n
              /\ \A i \in 1 .. Len(f) : a[i] = h[i]
          BY <2>7, <4>1
        <5>2. a = [i \in DOMAIN a |-> a[i]]
          BY <5>1, LenProperties
        <5> HIDE DEF a
        <5>3. \A i \in 1 .. Len(f) + 1 : a[i] = IF i = Len(f) + 1 THEN n ELSE h[i]
          BY <4>1, <5>1
        <5>4. a = [i \in 1 .. Len(f) + 1 |-> IF i = Len(f) + 1 THEN n ELSE h[i]]
          BY <5>1, <5>2, <5>3
        <5> QED BY <5>4 DEF a
      <4> QED BY <4>2, <4>3
    <3>2. \A q \in Slots : sig'.frames[q] = IF q = p THEN Append(f, fr) ELSE s.frames[q]
      BY <1>1, <2>2, <2>3
    <3>3. Handled(sig') = [q \in Slots |-> IF q = p THEN Append(h, n) ELSE Handled(s)[q]]
      BY <3>1, <3>2 DEF Handled
    <3>4. DOMAIN Handled(s) = Slots
      BY DEF Handled
    <3> QED BY <1>1, <3>3, <3>4 DEF Handled
  <2> QED BY <1>1, <2>1, <2>2, <2>8, <2>9 DEF Service!Then, h
<1> QED BY <1>3, <1>4

(* The end of every step: what was asked, and then the delivery.           *)
LEMMA StepServes ==
  ASSUME SigInv, Inv', Grown(Nest(sig)), NEW s, SigStep(s), Asked(s)
  PROVE  [Service!Next]_(Service!vars)
<1>1. s \in SigType /\ Delivers(s) /\ Nest(sig) \cup Born \subseteq Nest(s)
  BY DEF SigStep
<1>2. CASE kern'.fault # "none"
  BY <1>1, <1>2 DEF Delivers, Service!vars, Handled
<1>3. CASE kern'.fault = "none"
  <2>1. Running' \in Nest(sig) \cup Born
    <3>1. Running' \in Slots /\ kern'.state[Running'] = "RUNNING"
      BY RunningAfter DEF Inv, OneRunning, Running
    <3> QED BY <3>1 DEF Grown, Linked
  <2>2. Service!Then(s.pending, Handled(s))
    BY <1>1, <1>3, <2>1, DeliversThen
  <2>3. CASE s.pending = sig.pending /\ Handled(s) = Handled(sig)
    BY <2>2, <2>3 DEF Service!Next
  <2>4. ASSUME NEW p \in Slots, NEW n \in Bits, Handled(s) = Handled(sig),
               s.pending = [sig.pending EXCEPT ![p] = @ \cup {n}]
        PROVE  Service!Next
    <3>1. Service!Post(p, n)
      BY <2>2, <2>4 DEF Service!Post
    <3> QED BY <3>1 DEF Service!Next
  <2>5. ASSUME NEW p \in Slots, Handled(sig)[p] # <<>>,
               s.pending = [sig.pending EXCEPT ![p] = @ \ {Service!Top(Handled(sig)[p])}],
               Handled(s) = [Handled(sig) EXCEPT ![p] = Service!Bottom(@)]
        PROVE  Service!Next
    <3>1. Service!Done(p)
      BY <2>2, <2>5 DEF Service!Done
    <3> QED BY <3>1 DEF Service!Next
  <2>6. ASSUME NEW p \in Slots, s.pending = sig.pending,
               Handled(s) = [Handled(sig) EXCEPT ![p] = <<>>]
        PROVE  Service!Next
    <3>1. Service!Renew(p)
      BY <2>2, <2>6 DEF Service!Renew
    <3> QED BY <3>1 DEF Service!Next
  <2> QED BY <2>3, <2>4, <2>5, <2>6 DEF Asked
<1> QED BY <1>2, <1>3

(* Signals are served by priority: the pending sets, the masks and the     *)
(* frames of the kernel implement SignalService, as long as no process     *)
(* uses the signal whose completion pr_mask_to_signum cannot tell.         *)
THEOREM SignalsServedByPriority ==
  ASSUME MAXSIGNAL - 1 \notin SigNos PROVE SpecSig => ServedByPriority
<1>1. InitSig => Service!Init
  <2>1. [i \in DOMAIN <<>> |-> <<>>[i].signum] = <<>>
    OBVIOUS
  <2> QED BY <2>1 DEF InitSig, BootSig, Service!Init, Handled
<1>2. SigInv /\ [NextSig]_sigVars => [Service!Next]_(Service!vars)
  <2> SUFFICES ASSUME SigInv, [NextSig]_sigVars PROVE [Service!Next]_(Service!vars)
    OBVIOUS
  <2>1. CASE NextSig
    BY <2>1, NextSigSteps, StepServes
  <2>2. CASE UNCHANGED sigVars
    BY <2>2 DEF sigVars, Service!vars, Handled
  <2> QED BY <2>1, <2>2
<1> QED BY <1>1, <1>2, SigInvHolds, PTL DEF SpecSig, ServedByPriority, Service!Spec

==============================================================================
