----------------------------- MODULE UserPrograms -----------------------------
(***************************************************************************)
(* user.c: the processes themselves, on the kernel, with signals and the   *)
(* keyboard.  A program is the sequence of its system calls; between two   *)
(* of them it only formats, prints and pauses.  sysputs and sysgetpid      *)
(* change nothing, and are left out.                                       *)
(*                                                                         *)
(* Of its C variables a process keeps the keyboard's descriptor and where  *)
(* it is.  A result it uses is taken from eax in a step of its own: the    *)
(* timer, and with it a signal, may come before.                           *)
(***************************************************************************)
EXTENDS Devices

CONSTANTS
    Mains,      \* what the processor boots into: the programs root may run
    MaxBuf,     \* bound: longer buffers are this long
    MaxTimes,   \* bound: longer counted loops run so often
    MaxNap      \* bound: longer naps last so many milliseconds

ASSUME UserAssumption ==
    /\ Mains \subseteq {"assign3_test_seq", "signal_reader",
                       "signal_tests", "device_tests", "read_tests"}
    /\ MaxBuf \in Nat /\ MaxTimes \in Nat /\ MaxNap \in Nat

VARIABLE proc     \* per slot: the program, where it is, and its descriptor

Atmost(n, max) == IF n <= max THEN n ELSE max

(* The system calls of the programs; CLOSED stands for the descriptor the  *)
(* process keeps.  "again": the test of the loop that reads, on what the   *)
(* read returned.                                                          *)
open(devno)       == [op |-> "open", dev |-> devno, kept |-> TRUE]
tryopen(devno)    == [op |-> "open", dev |-> devno, kept |-> FALSE]
readAt(f)         == [op |-> "read", fd |-> f, n |-> MaxBuf, again |-> "once"]
readWhile(n, test) == [op |-> "read", fd |-> CLOSED, n |-> Atmost(n, MaxBuf), again |-> test]
read(n)           == readWhile(n, "once")
closeAt(f)        == [op |-> "close", fd |-> f]
close             == closeAt(CLOSED)
write(f)          == [op |-> "write", fd |-> f]
ioctlAt(f)        == [op |-> "ioctl", fd |-> f, command |-> "invalid", a |-> "d"]
ioctl(key)        == [op |-> "ioctl", fd |-> CLOSED, command |-> 49, a |-> key]
handler(n, h)     == [op |-> "sighandler", n |-> n, h |-> h]
spawn(program)    == [op |-> "create", program |-> program]
nap(ms)           == [op |-> "sleep", ms |-> Atmost(ms, MaxNap)]
kill(program, n)  == [op |-> "sigkill", program |-> program, n |-> n]
sigwait           == [op |-> "sigwait"]
yields            == [op |-> "yield"]      \* for ever
recvany           == [op |-> "recv"]
halts             == [op |-> "hlt"]        \* for ever

Times(n, instr) == [i \in 1 .. Atmost(n, MaxTimes) |-> instr]

-----------------------------------------------------------------------------
(* The default build.                                                      *)
sleep_sig20_sig18 == <<nap(3000), kill("root", 20), kill("root", 18)>>
sleep5_sig18 == <<nap(5000), kill("root", 18)>>
sleep5_sig20 == <<nap(5000), kill("root", 20)>>

assign3_test_seq ==
    <<open(KEYBOARD_ECHO)>> \o Times(10, read(2))
    \o <<tryopen(KEYBOARD_NOECHO), tryopen(KEYBOARD_ECHO), close, open(KEYBOARD_NOECHO)>>
    \o Times(5, read(10))
    \o <<readWhile(10, "nonzero"), close, open(KEYBOARD_ECHO),
         handler(18, 18), spawn("sleep_sig20_sig18"), read(40),
         spawn("sleep5_sig18"), handler(18, 2), read(40),
         handler(20, 18), spawn("sleep5_sig20"), read(40),
         readWhile(80, "positive"), read(40), close, yields>>

(* What root can be made to run instead.                                   *)
signal_reader ==
    <<spawn("sleep5_sig18"), handler(18, 18), open(KEYBOARD_ECHO), read(40), close, yields>>

(* The build of "make test": root's tests one by one, since the signals of *)
(* the first ones may leave the queues unsound for those that follow.      *)
idlechild == <<handler(7, 7), handler(5, 5), handler(3, 3), yields>>
waiter    == <<handler(7, 7), sigwait>>
signaltarget == <<handler(1, 1), handler(3, 3), handler(5, 5), handler(7, 7), yields>>

verify_dev_arg_passing ==
    <<tryopen(KEYBOARD_NOECHO), tryopen(KEYBOARD_ECHO),
      closeAt(KEYBOARD_NOECHO), closeAt(KEYBOARD_ECHO),
      readAt(KEYBOARD_NOECHO), readAt(KEYBOARD_ECHO),
      write(KEYBOARD_NOECHO), write(KEYBOARD_ECHO),
      ioctlAt(KEYBOARD_NOECHO), ioctlAt(KEYBOARD_ECHO)>>

sysopen_invalid  == <<tryopen(99)>>
syswrite_invalid == <<write(KEYBOARD_ECHO)>>
sysioctl_invalid == <<ioctlAt(99)>>
sigwaittest      == <<spawn("waiter"), nap(9000), kill("waiter", 7)>>

device_tests ==
    verify_dev_arg_passing \o sigwaittest
    \o sysopen_invalid \o syswrite_invalid \o sysioctl_invalid

syssigkilltest ==
    <<spawn("signaltarget")>> \o [i \in 1 .. 8 |-> kill("signaltarget", i - 1)]

signal_tests ==
    <<handler(30, 1), handler(30, 2), spawn("idlechild"),
      kill("idlechild", 1), kill("idlechild", 5), kill("idlechild", 7)>>
    \o syssigkilltest \o <<yields>>

sysread_overflow  == <<open(KEYBOARD_ECHO), read(6), read(6)>>
sysread_underflow == <<open(KEYBOARD_ECHO), read(3), read(3), read(3)>>

read_tests ==
    sysread_overflow \o sysread_underflow
    \o <<open(KEYBOARD_ECHO), readWhile(128, "positive"),
         open(KEYBOARD_ECHO), ioctl("w"), readWhile(10, "nonzero"), yields>>

idleproc == <<halts>>
idleproc_tests == <<recvany, halts>>

Code_of(program) ==
    CASE program = "assign3_test_seq" -> assign3_test_seq
      [] program = "signal_reader" -> signal_reader
      [] program = "signal_tests" -> signal_tests
      [] program = "device_tests" -> device_tests
      [] program = "read_tests" -> read_tests
      [] program = "sleep_sig20_sig18" -> sleep_sig20_sig18
      [] program = "sleep5_sig18" -> sleep5_sig18
      [] program = "sleep5_sig20" -> sleep5_sig20
      [] program = "idlechild" -> idlechild
      [] program = "waiter" -> waiter
      [] program = "signaltarget" -> signaltarget
      [] program = "idleproc" -> idleproc
      [] program = "idleproc_tests" -> idleproc_tests
      [] OTHER -> <<>>

-----------------------------------------------------------------------------
Started(program) == [program |-> program, at |-> 1, called |-> FALSE, fd |-> -1]

InitProc ==
    \E main \in Mains :
        proc = [s \in Slots |->
                  IF s = ROOT THEN Started(main)
                  ELSE IF s = IDLE
                       THEN Started(IF main \in {"assign3_test_seq", "signal_reader"}
                                    THEN "idleproc" ELSE "idleproc_tests")
                  ELSE Started("none")]

InitUser == InitDev /\ InitProc

Me     == proc[Running]
Ended  == Me.at > Len(Code_of(Me.program))
Instr  == Code_of(Me.program)[Me.at]
At(op) == /\ kern.fault = "none" /\ sig.frames[Running] = <<>>
          /\ ~Me.called /\ ~Ended /\ Instr.op = op

(* The process goes on to its next call, or waits for the result first.    *)
Advance == proc' = [proc EXCEPT ![Running].at = @ + 1]
Await   == proc' = [proc EXCEPT ![Running].called = TRUE]

(* The pid a program knows another one by: root_pid, waiter_pid, ...       *)
PidOf(program) ==
    IF program = "root" THEN ROOT
    ELSE LET runs == {s \in Slots : proc[s].program = program}
         IN  IF runs = {} THEN 0 ELSE kern.pid[CHOOSE s \in runs : TRUE]

(* The descriptor of a call of the running process.                        *)
Descriptor == IF Instr.fd = CLOSED THEN Me.fd ELSE Instr.fd

(* A request that no program gets a result of that matters.                *)
UserOpens ==
    /\ At("open") /\ Open(Instr.dev)
    /\ IF Instr.kept THEN Await ELSE Advance

UserReads ==
    /\ At("read") /\ Read(Descriptor, Instr.n)
    /\ IF Instr.again # "once" THEN Await ELSE Advance

UserCloses == At("close") /\ Close(Descriptor) /\ Advance
UserWrites == At("write") /\ Write(Instr.fd) /\ Advance

UserIoctls ==
    /\ At("ioctl") /\ Advance
    /\ Ioctl(Descriptor, Instr.command, Instr.a)

UserHandles == At("sighandler") /\ SigHandler(Instr.n, Instr.h) /\ UNCHANGED dev /\ Advance
UserKills   == At("sigkill") /\ SigKill(PidOf(Instr.program), Instr.n) /\ UNCHANGED dev /\ Advance
UserWaits   == At("sigwait") /\ SigWait /\ UNCHANGED dev /\ Advance
UserSleeps  == At("sleep") /\ Also(Nap(Instr.ms)) /\ UNCHANGED dev /\ Advance
UserYields  == At("yield") /\ Also(Yield) /\ UNCHANGED <<dev, proc>>

(* syscreate: the new process is at the start of its program.              *)
UserCreates ==
    /\ At("create") /\ Also(Create) /\ UNCHANGED dev
    /\ proc' = [s \in Slots |->
                  IF kern.state[s] = "STOPPED" /\ kern'.state[s] = "READY"
                  THEN Started(Instr.program)
                  ELSE IF s = Running THEN [proc[s] EXCEPT !.at = @ + 1] ELSE proc[s]]

(* A program that returns does so into sysstop.                            *)
UserStops ==
    /\ kern.fault = "none" /\ sig.frames[Running] = <<>> /\ ~Me.called /\ Ended
    /\ Also(StopWith({})) /\ UNCHANGED <<dev, proc>>

(* idleproc of the tests: "park idle proc in blocking queue".              *)
IdleReceives ==
    /\ At("recv") /\ Running = IDLE
    /\ Also(Serve(Dispatch(SysRecv(WithArgs(kern, Running, "recv", 0, MaxBuf, 0),
                                   Running, TRUE, {}))))
    /\ UNCHANGED dev /\ Advance

(* The process takes the result of its call out of eax.                    *)
Again(test, rc) == (test = "nonzero" /\ rc # 0) \/ (test = "positive" /\ rc > 0)

UserTakes ==
    /\ kern.fault = "none" /\ sig.frames[Running] = <<>> /\ Me.called
    /\ LET rc == kern.ret[Running]
           next == [Me EXCEPT !.called = FALSE, !.at = @ + 1]
       IN  proc' = [proc EXCEPT ![Running] =
               IF Instr.op = "open" THEN [next EXCEPT !.fd = rc]
               ELSE IF Again(Instr.again, rc) THEN [@ EXCEPT !.called = FALSE]
               ELSE next]
    /\ UNCHANGED <<kern, sig, dev>>

(* The handlers only print; sigtramp goes on to sigreturn.                 *)
UserHandled == SigReturn /\ UNCHANGED <<dev, proc>>

UserStep ==
    \/ UserOpens \/ UserReads \/ UserCloses \/ UserWrites \/ UserIoctls
    \/ UserHandles \/ UserKills \/ UserWaits \/ UserSleeps \/ UserYields
    \/ UserCreates \/ UserStops \/ IdleReceives \/ UserTakes \/ UserHandled

(* An interrupt leaves what eax holds of the interrupted process: its      *)
(* result, as long as it has not taken it.                                 *)
TimerInterrupt == Also(TimerAt(kern.ret[Running])) /\ UNCHANGED <<dev, proc>>

KeyInterrupt(key, up) == Keyboard(key, up) /\ UNCHANGED proc

NextUser ==
    \/ UserStep
    \/ TimerInterrupt
    \/ \E e \in KeyEvents : KeyInterrupt(e[1], e[2])

userVars == <<kern, sig, dev, proc>>

SpecUser == InitUser /\ [][NextUser]_userVars
=============================================================================
