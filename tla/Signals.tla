------------------------------- MODULE Signals --------------------------------
(***************************************************************************)
(* Signals: signal.c, the signal cases of dispatch() and                   *)
(* deliver_signals_ifany, on top of the kernel of module Kernel.           *)
(*                                                                         *)
(* A mask is the set of its bits; a priority mask, which is all ones from  *)
(* some bit on, is that bit.  What modify_process_stack() builds on the    *)
(* stack of a process is a frame: the signal whose handler it calls, and   *)
(* what sigreturn puts back when the handler is done.                      *)
(***************************************************************************)
EXTENDS Kernel, Sequences

CONSTANTS
    MAXSIGNAL,   \* the highest signal
    SigCalls,    \* the signal requests the processes of a workload make
    SigNos,      \* the signals they name
    Handlers,    \* addresses of handlers; 0 is NULL
    Waiters      \* the slots whose processes call syssigwait

Bits == 0 .. MAXSIGNAL

ASSUME SignalsAssumption ==
    /\ MAXSIGNAL \in Nat /\ MAXSIGNAL >= 2
    /\ SigCalls \subseteq {"sighandler", "sigkill", "sigwait", "sigreturn"}
    /\ SigNos \subseteq Bits /\ Handlers \subseteq Nat /\ Waiters \subseteq Slots

VARIABLE sig     \* the signal fields of the pcb's, and the frames on the stacks

SYS_SIGWAIT    == 12
INVALID_SIGNAL == -1
SIGNAL_INVALID == -3
EINTR          == -128

Masks == 0 .. MAXSIGNAL + 1      \* priority masks: 0 is -1, the last one 0

Frame == [signum : SigNos, handler : Nat, priority : Masks, ret : Int]

SigType ==
    [ pending   : [Slots -> SUBSET SigNos],
      allow     : [Slots -> SUBSET SigNos],
      priority  : [Slots -> Masks],
      handler   : [Slots -> [SigNos -> Nat]],
      sigwaiter : [Slots -> BOOLEAN],
      frames    : [Slots -> Seq(Frame)] ]

BootSig ==
    [ pending   |-> [s \in Slots |-> {}],
      allow     |-> [s \in Slots |-> {}],
      priority  |-> [s \in Slots |-> IF s \in {ROOT, IDLE} THEN 0 ELSE MAXSIGNAL + 1],
      handler   |-> [s \in Slots |-> [n \in SigNos |-> 0]],
      sigwaiter |-> [s \in Slots |-> FALSE],
      frames    |-> [s \in Slots |-> <<>>] ]

InitSig == Init /\ sig = BootSig

-----------------------------------------------------------------------------
Highest(mask) == CHOOSE n \in mask : \A m \in mask : m <= n

(* get_priority_mask: the signals that may interrupt the handler of n.     *)
(* Mutant: n itself is one of them.                                        *)
get_priority_mask_Self(n) == n
get_priority_mask(n) == n + 1

(* pr_mask_to_signum: the signal that has this mask.  The loop stops       *)
(* before bit MAXSIGNAL, and when it is the only one set what is returned  *)
(* was never assigned: any of the signals.                                 *)
pr_mask_to_signum(mask) ==
    IF mask = 0 THEN {0} ELSE IF mask = MAXSIGNAL THEN Bits ELSE {mask - 1}

(* validsignal: the process, not the signal, is checked against the range  *)
(* of the signals.                                                         *)
validsignal(s, pid, n) == pid \in 0 .. MAXSIGNAL /\ n \in s.allow[Slot(pid)]

(* signal: the target is made ready, but stays on the list it was on.      *)
(* Mutants: a process in a sigwait is left there; every target is made     *)
(* ready.                                                                  *)
signal_MakesReady(k, t, n) == [ready(k, t) EXCEPT !.ret[t] = EINTR]
signal_LeavesBlocked(k, t, n) == [k EXCEPT !.ret[t] = EINTR]
signal(k, t, n) ==
    LET woken == ready(k, t)
    IN  CASE k.state[t] = "BLOCKED" ->
                [woken EXCEPT !.ret[t] = IF @ = SYS_SIGWAIT THEN n ELSE EINTR]
          [] k.state[t] = "SLEEP" -> [woken EXCEPT !.ret[t] = k.sleepticks[t]]
          [] OTHER -> k

-----------------------------------------------------------------------------
Deliverable(s, p) == {n \in s.pending[p] \cap s.allow[p] : n >= s.priority[p]}

(* modify_process_stack: the frame saves the mask before it is replaced.   *)
(* Mutant: after.                                                          *)
PushFrame_SavesNewMask(s, k, p, n) ==
    [s EXCEPT !.frames[p] =
        Append(@, [signum |-> n, handler |-> s.handler[p][n],
                   priority |-> get_priority_mask(n), ret |-> k.ret[p]])]

PushFrame(s, k, p, n) ==
    [s EXCEPT !.frames[p] =
        Append(@, [signum |-> n, handler |-> s.handler[p][n],
                   priority |-> s.priority[p], ret |-> k.ret[p]])]

(* deliver_signals_ifany: some signal is pending, allowed and of higher    *)
(* priority than what is handled; the highest one pending is delivered.    *)
get_next_signal(pending) == Highest(pending)

deliver_signals_ifany(s, k) ==
    LET p == k.que["running"]
        n == get_next_signal(s.pending[p])
    IN  IF Deliverable(s, p) = {} THEN s
        ELSE [PushFrame(s, k, p, n) EXCEPT !.priority[p] = get_priority_mask(n)]

(* The end of every request: dispatch() goes round its loop, and delivers  *)
(* before it switches to the process that runs next.                       *)
ServeSig(k, s) ==
    /\ Serve(k)
    /\ sig' = IF k.fault = "none" THEN deliver_signals_ifany(s, k) ELSE sig

(* create() accepts every signal in the new process, on a new stack.  What *)
(* the slot's last process left pending, allowed, installed or waited for  *)
(* is still there.                                                         *)
Renewed ==
    LET born == {s \in Slots : kern'.pid[s] # kern.pid[s] /\ kern'.state[s] = "READY"}
    IN  [sig EXCEPT !.priority = [s \in Slots |-> IF s \in born THEN 0 ELSE @[s]],
                    !.frames   = [s \in Slots |-> IF s \in born THEN <<>> ELSE @[s]]]

(* A request of module Kernel, in the kernel with signals.                 *)
Also(action) ==
    action /\ sig' = IF kern'.fault = "none" THEN deliver_signals_ifany(Renewed, kern') ELSE sig

-----------------------------------------------------------------------------
SigRequest(call) == kern.fault = "none" /\ call \in SigCalls /\ Running # IDLE

(* SYS_SIGHANDLER.  sig_handler has one element less than there are        *)
(* signals: the one of MAXSIGNAL is the word behind it.                    *)
SigHandler(n, h) ==
    /\ SigRequest("sighandler")
    /\ ServeSig([kern EXCEPT !.ret[Running] = 0],
                [sig EXCEPT !.handler[Running][n] = h,
                            !.allow[Running] = IF h = 0 THEN @ \ {n} ELSE @ \cup {n}])

SigKill(pid, n) ==
    /\ SigRequest("sigkill")
    /\ IF validsignal(sig, pid, n)
       THEN ServeSig([signal(kern, Slot(pid), n) EXCEPT !.ret[Running] = 0],
                     [sig EXCEPT !.pending[Slot(pid)] = @ \cup {n}])
       ELSE ServeSig([kern EXCEPT !.ret[Running] = INVALID_SIGNAL], sig)

SigWait ==
    /\ SigRequest("sigwait") /\ Running \in Waiters
    /\ IF sig.allow[Running] = {}
       THEN ServeSig([kern EXCEPT !.ret[Running] = SIGNAL_INVALID], sig)
       ELSE ServeSig(Dispatch(Block(kern, Running, SYS_SIGWAIT)),
                     [sig EXCEPT !.sigwaiter[Running] = TRUE])

(* SYS_SIGRETURN, made by sigtramp when the handler is done.  The signal   *)
(* it completes is read off the mask.  When nothing else is pending, the   *)
(* result of the interrupted context is replaced.                          *)
Completed(s, p, n) ==
    [s EXCEPT !.priority[p] = s.frames[p][Len(s.frames[p])].priority,
              !.pending[p] = @ \ {n},
              !.frames[p] = SubSeq(@, 1, Len(@) - 1),
              !.sigwaiter[p] = @ /\ s.pending[p] \ {n} # {}]

Result(s, p, n) ==
    IF s.pending[p] \ {n} # {} THEN s.frames[p][Len(s.frames[p])].ret
    ELSE IF s.sigwaiter[p] THEN n ELSE EINTR

SigReturn ==
    /\ SigRequest("sigreturn") /\ sig.frames[Running] # <<>>
    /\ \E n \in pr_mask_to_signum(sig.priority[Running]) :
          ServeSig([kern EXCEPT !.ret[Running] = Result(sig, Running, n)],
                   Completed(sig, Running, n))

NextSig ==
    \/ Also(Next)
    \/ \E n \in SigNos, h \in Handlers : SigHandler(n, h)
    \/ \E pid \in 0 .. MaxPid, n \in SigNos : SigKill(pid, n)
    \/ SigWait
    \/ SigReturn

sigVars == <<kern, sig>>

SpecSig == InitSig /\ [][NextSig]_sigVars /\ WF_sigVars(Also(Timer))

-----------------------------------------------------------------------------
(* The type of the signal fields.                                          *)
SigTypeOK == sig \in SigType

(* No wakeup is lost: a process that has a signal to handle waits for the  *)
(* CPU and for nothing else.  It is not left asleep or blocked, and the    *)
(* running process has none: what it can handle is on its stack before it  *)
(* runs (disp.c:269).                                                      *)
NoLostWakeup ==
    \A p \in Slots :
        Deliverable(sig, p) # {} => kern.state[p] \in {"READY", "STOPPED"}

(* A frame never calls a handler that is not there: what signal.c:148 asks *)
(* of its callers, "process and signum have valid arguments to invoke a    *)
(* signal handler".  The code does not keep it: SYS_SIGHANDLER takes the   *)
(* handler of a signal that is pending away and leaves the signal pending, *)
(* and the next signal the process does accept delivers the highest one.   *)
HandlerInstalled ==
    \A p \in Slots : \A i \in DOMAIN sig.frames[p] : sig.frames[p][i].handler # 0

(* The priority mask in force admits what is above the signal being        *)
(* handled, and each frame saved the mask that was in force below it: when *)
(* the handlers have returned, every signal is admitted again.             *)
MasksUnwind ==
    \A p \in Slots :
        LET f    == sig.frames[p]
            mask == [i \in 0 .. Len(f) |-> IF i = 0 THEN 0 ELSE get_priority_mask(f[i].signum)]
        IN  kern.state[p] # "STOPPED" =>
                /\ sig.priority[p] = mask[Len(f)]
                /\ \A i \in DOMAIN f : f[i].priority = mask[i - 1]

(* A signal that a process has to handle is delivered to it.               *)
SignalDelivered ==
    \A p \in Slots : Deliverable(sig, p) # {} ~> Deliverable(sig, p) = {}

-----------------------------------------------------------------------------
(* The processes and their signals as SignalService sees them.             *)
Handled(s) == [p \in Slots |-> [i \in DOMAIN s.frames[p] |-> s.frames[p][i].signum]]

Service ==
    INSTANCE SignalService WITH
        Procs <- Slots, Signals <- Bits, pending <- sig.pending, handling <- Handled(sig)

(* Signals are served by priority: the kernel's masks, pending bits and    *)
(* frames implement SignalService.                                         *)
ServedByPriority == Service!Spec
=============================================================================
