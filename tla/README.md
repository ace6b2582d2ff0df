# A verification model of the Xeros signals kernel

Xeros is a small preemptive kernel for one CPU: a process table of 64 slots, a
round robin dispatcher, blocking messages without mailboxes, sleeping on the
timer, signals, and a keyboard behind a device layer; its image is unpacked by
the inflate of an old gzip. This directory models it in TLA+, checks the model
with TLC and proves some of it with TLAPS.
Paths below are relative to the repository (`src/c/...`, `src/h/...`).

## 1. The system

### How it runs

`startup.S` enters `initproc()` (init.c), which sets up memory, the process
table, the interrupt vectors and the devices, creates `root` and `idleproc`,
and calls `dispatch()`, which never returns. `dispatch()` is a loop around
`contextswitch(p)`: it resumes p and comes back when p makes a system call
(`int 80`) or the timer or the keyboard interrupts it. The kernel runs with
interrupts disabled, so everything between two calls of `contextswitch()` is one
atomic step. What interleaves is the processes: which of them has the CPU, what
it asks for next, and when an interrupt takes the CPU away.

### Components, their state, operations and what makes them right

| component | source | state | operations | what must hold |
|---|---|---|---|---|
| process table and queues | disp.c, create.c, xeroskernel.h | `proctab`; `head`/`tail` of the ready queue, `running`, `blocked_q`, `dead_q`; one `next` per pcb, shared by all lists | `append`, `remove`, `get_q`, `ready`, `next` | a pcb is on the list of its state and on no other; walks end; `tail` is the last pcb |
| dispatcher | disp.c | `running`, `p` | a case per request | one running process; first ready, first run; idleproc only when nobody else can; no ready process starves; no assertion fails |
| process creation | create.c | pids, slot states | `create`, `validpid` | a reused slot is off `dead_q`, its new pid leads back to it and is nobody else's |
| stop and its waiters | disp.c | `blocked_q`, `dead_q` | `SYS_STOP`, `notify_waiters` | whoever waits for a dead process is told |
| messages | msg.c, disp.c | `blocked_q`, `ret` and `args` of blocked pcb's | `send`, `recv`, validation, `copy` | no rendezvous is missed; no cycle of senders blocks; a send ends in a receive of the process it names, and both see the same count; a receive from one pid is not given another's message |
| sleepers | sleep.c | `headsleeper`, `sleepticks` (differences) | `sleep`, `tick` | the differences stand for the time left; awake in time, neither early nor late |
| context switch, gateway | ctsw.c, syscall.c | `args`, `ret`, `esp` of a pcb | `contextswitch`, `syscall` | a result reaches the process that asked; an interrupted eax comes back |
| signals | signal.c, disp.c | pending, allowed and priority masks, handlers, `sigwaiter`, frames on the process's stack | `signal`, `deliver_signals_ifany`, `SYS_SIGHANDLER`, `SYS_SIGRETURN`, `SYS_SIGWAIT` | a signal runs its handler once; only higher ones interrupt it; what was interrupted goes on as it was |
| device layer | di_calls.c | `devtab`, descriptor tables | `di_open` ... `di_ioctl` | one keyboard, of one kind, open to a process at a time; calls on a closed descriptor are refused |
| keyboard | kbd.c | the driver's buffer, application buffer, registered reader, end of file | `kbd_read`, `process_key`, `notify`, ... | a read returns every key struck since it began, once, but for the one that ends it; a blocked reader is the registered one, and nothing is written behind its buffer |
| scan codes | scanToASCII.c | four modifier bits | `kbtoa`, `is_control_code` | what a key means after any sequence of presses and releases |
| memory | mem.c | free list | `kmalloc` (`kfree` does nothing) | blocks do not overlap |
| console | kprintf.c | memory of the screen, cursor | `kbmputc` | the screen shows the last rows printed |
| formatting | lib/libxc/doprnt.c | | `_doprnt` | a number is printed as the number it is, at both ends of a long |
| decompressor | boot/zBoot/inflate.c | window, bit buffer, Huffman tables | `inflate*`, `huft_build` | the output is the text; the input ends where the data does |
| user programs | user.c | | `root`, its children, `idleproc` | |

How they interact: by calls inside the kernel (`send` and `recv` by the
dispatcher, which then queues both processes; `tick()` from the timer's case;
`create()` from `SYS_CREATE` and from `initproc`; `process_key()` from the
keyboard's case; `deliver_signals_ifany()` before every `contextswitch()`) and through shared state: the `next` field threads a pcb
through whichever list it is on; `ret` is at once the result of a call, the
number of the request a process is blocked in, and the eax saved by an
interrupt; `args` points into the caller's stack and stays there when the call
is over. Most of the hazards listed in `PROJECT.json` come from these three.

### What is hard to test here

Orders: who blocks before whom decides which pcb's `remove()` loses; who stops
first decides which waiter is told. Reuse: a slot must go through three lives
before `create()`'s mistake shows. Time: whether two naps overlap by a tick.
Preemption: the timer can put any process behind any other. Old values: `ret`
and `args` of processes that have long run on. Signals: a handler is entered in
the middle of a call, of another handler, or between a call and the use of its
result. Buffers: the driver's and the reader's fill up, in either order, at the
end of a line or of a file. None of these needs more than four processes and a
few keys, which is why TLC reaches them.

## 2. Modules

| module | models |
|---|---|
| `ProcTable` | the process table and the list operations of disp.c: `remove`, `append`, `ready`, `next` (as `Pop` and `Dispatch`), `notify_waiters`, `get_q`; `valid` of msg.c |
| `SleepList` | sleep.c: `milliseconds_to_ticks`, `sleep`, `tick` |
| `Msg` | msg.c: validation, `copy`, `send`, `recv`; and the rest of the dispatcher's cases SEND and RECV |
| `Kernel` | the dispatcher: one action per request (`Create`, `Yield`, `Stop`, `GetPid`, `SendTo`, `Receive`, `Nap`, `Timer`), each the whole case; `create()`; the initial state; the type invariant and the safety properties |
| `RoundRobin` | abstract: one CPU, first ready first run, the idle process when the queue is empty |
| `KernelRR` | the refinement mapping by which `Kernel` implements `RoundRobin` |
| `SleepClock` | `Kernel` with a clock beside it that the code does not have: for every sleeper the ticks left of what it asked for; the timing and liveness properties |
| `Signals` | signal.c, the signal cases of disp.c and `deliver_signals_ifany`, on top of `Kernel`: masks, handlers, pending bits and the frames handlers run on |
| `SignalService` | abstract: pending signals of a process and the stack of those being handled, served by priority |
| `ScanCodes` | scanToASCII.c: the modifiers, `kbtoa`, `is_control_code`, on classes of keys |
| `Devices` | di_calls.c, kbd.c and the device cases of disp.c with the keyboard's interrupt, on top of `Signals` |
| `UserPrograms` | user.c: every program as the sequence of its system calls, on top of `Devices` |
| `Memory` | mem.c: `kmeminit`, `kmalloc` |
| `Console` | kprintf.c: `kbmputc`, beside a roll of paper on which the same is printed |
| `Format` | doprnt.c: `_doprnt` with its five bases, flags, widths |
| `Huffman` | inflate.c: `huft_build`, with the look-up of `inflate_codes` and the codes of `inflate_fixed` |
| `Inflate` | inflate.c: the three kinds of block, the window, its flushes, the bit buffer and the input buffer |
| `MCKernel`, `MCSched`, `MCSignals`, `MCUserPrograms`, `MCLibrary` | what TLC checks: `Kernel`, for `Ipc` with the requests of its workload (`NextIpc`); `SleepClock` with `KernelRR`; `Signals` with `SignalService`; `UserPrograms`; the five sequential parts side by side |
| `KernelProofs` | proofs: types, pids and the one running process of `Kernel`; where a walk along `next` can lead, whatever the lists have become; and lists of pcb's as sequences: what walking, removing, appending, inserting and splicing make of them |
| `SignalsProofs` | proofs: the invariants of `Signals` and its refinement of `SignalService` |
| `KernelLists` | proofs: the four lists after every request, and that no request makes the kernel stop |
| `MessageProofs` | proofs: what `send` and `recv` promise |
| `SchedProofs` | proofs: the differences in the list of sleepers and the time they stand for; `Kernel` implements `RoundRobin` |
| `UserProofs` | proofs: the programs of user.c and the keyboard they read |
| `ReadProofs` | proofs: what a read returns to the programs of user.c is what was typed |
| `LibraryProofs` | proofs: the blocks of `Memory`, the screen of `Console`, the window and the bits of `Inflate` |

They build on each other as the code does: `ProcTable` <- `SleepList`, `Msg` <-
`Kernel` <- `Signals` <- `Devices` <- `UserPrograms`. Each layer adds a variable
(`kern`, `sig`, `dev`, `proc`) and takes the actions of the one below whole:
`Also(action)` is a request of `Kernel` followed by the delivery of signals that
`dispatch()` does before every context switch, and `ServeDev` is the same with
the driver's variables. `Memory`, `Console`, `Format`, `Huffman` and `Inflate`
share no state with each other or with the kernel's modules.

`ProcTable`, `SleepList` and `Msg` are operators from the kernel's memory to the
kernel's memory, because that is what the C functions are: each runs inside one
step of the dispatcher. `Kernel` has the one variable, `kern`, and the actions.

### How state and code correspond

`kern` is a record: a field of the pcb's is a function on the slots
(`kern.next[s]` is `proctab[s].next`), the list heads passed as `pcb **q` are
entries of `kern.que`, `kern.tail` and `kern.headsleeper` are the other two
pointers. A pointer to a pcb is its slot, `NULL` is -1. States are strings; the
state `DEAD` of the header is never assigned and is left out.

`kern.call`, `kern.arg`, `kern.buf` and `kern.msg` stand for what `args` points
at: the last blocking call, its pid argument (of a receive: the word `from_pid`
points at), its buffer's length and the length of the string in a sender's.
When the process runs again (`Run`) they become "none" and 0: the stack slot
belongs to the process, and what the kernel finds there later is arbitrary.
Wherever the code then compares such a word with a pid, the model chooses the
outcome: the parameter `G` of `notify_waiters` and `recv` is the set of pcb's
for which it happens to be equal (`Stop` and `Receive` quantify over it), and
`zero` in `send` is a read of a word that happens to be 0. `destpid`, which
`notify_waiters` may compare before it was ever assigned, is treated the same.

`ret` is kept as far as the kernel ever compares it: `Code` keeps 6, 7
(`SYS_SEND`, `SYS_RECV`) and negative values and maps every other result of
`create` and `getpid` to 0. Counts of copied bytes are kept as they are.

`kern.fault` records the first thing after which the machine does nothing more:
a failed `kassert` (it loops for ever), an endless walk of a cyclic list, a wild
pointer followed ("wild"), or a list operation that meets a pcb of a state it
relies on not being there ("alias", only in `tick`). `Serve` leaves the rest of
the memory as the request found it, because the kernel does not come back.

### Abstractions, each with its reason

* `remove` is written by its effect. Its loop moves `*q` to every pcb it
  passes; the result is that everything before the pcb found is lost (or, when
  it is not found, everything but the last). This is the code's behaviour, not
  its intention.
* `tick` wakes the due sleepers one by one with `ready()`; the model splices
  the chain of them onto the ready queue at once. The order and the links are
  the same as long as they are asleep and not on another list; otherwise the
  model stops with "alias", and `NoFault` says it never does.
* At the end of the list `sleep()` reads and writes `NULL->sleepticks`, a word
  of the image at address 24. What it adds it subtracts again, so the model
  takes the walk to end there.
* `Minus` returns 0 for a difference that would wrap. `TicksEncodeTimeLeft`
  would fail if it ever did.
* When the table is full, `create()` looks for pid `MAX_PROC` on `dead_q`,
  which the model does, and writes `proctab[MAX_PROC].pid`, one past the
  table, which it does not.
* `ZeroWords` lists the pids that, read as addresses, find the word 0 in the
  kernel's image. The image is linked at 0 (`TEXTSPOT` in compile/Makefile);
  its first instructions (startup.S) put zeroes at bytes 6 to 9. In `Ipc`, whose
  pids end at 4, 4 stands for such an address; in the other runs, which have no
  sends or are about something else, it is empty.
* SYS_PUTS and unknown requests change no state that is modelled. Without
  signals, as in the runs of `Kernel` alone, `deliver_signals_ifany` does
  nothing, since nothing is ever pending.
* Buffers are lengths; whether one lies in valid memory is the argument
  `bufferOK`. Contents are not modelled: the count says what was copied.
* The environment is the processes: any process but idleproc that has the CPU
  may make any of the workload's `Calls` with any arguments. Every exit of a
  process is `Stop`, because `create()` puts `sysstop` on its stack. In
  `UserPrograms` the processes do what user.c has them do instead.

Signals:

* A mask is the set of its bits. A priority mask is all ones from some bit on,
  and is that bit. What `modify_process_stack()` builds on a stack is a frame:
  the signal, the handler, the old mask and the old result.
* `pr_mask_to_signum` returns an uninitialised word for the mask of signal 30
  (its loop stops before bit MAXSIGNAL): any signal, in the model.
* `validsignal()` compares the pid, not the signal, with the range, and the
  model does. Signals are therefore drawn from `SigNos`, within the masks' bits.
* `sig_handler[MAXSIGNAL]` is the word behind the array, which is the first
  descriptor's major number. `Signals` gives the word an entry of its own;
  `Devices` assumes that nobody names that signal.
* `validpid()` answers -1 for a process that is gone and its callers test for 0,
  so it never refuses: no model of it is needed beyond the slot it looks at.
* A reused slot keeps pending, allowed, handlers and `sigwaiter` of its last
  process (`Renewed`), as `create()` does.

Devices and programs:

* A character is a newline or another; a buffer of the driver is the sequence
  of these, the application's buffer the number copied to it.
* Two fields of `dev` are history that the code does not keep. `overrun` is how
  far the driver has written behind the buffer of the read it was given last: it is
  computed from the places `process_key()` writes (`Behind`), the two nulls included.
  `struck` counts the keys that give a byte and were pressed since that read
  began (`Strokes`, `Counted`); it does not depend on what the driver does with them.
* The keys are classes that the tables of scanToASCII.c treat alike.
* `validcommand()` reads past the end of its table, so an unknown command may
  be taken for a known one: `kbd_ioctl` allows both.
* A program keeps the descriptor it opened and where it is; its output, pauses
  and pid look-ups are left out. A result it uses is taken in a step of its own
  (`UserTakes`), so that an interrupt may come between; the timer leaves that
  result in eax.
* A program that ends stops with `StopWith({})`: the uninitialised `destpid` of
  `notify_waiters` is taken to match nobody there. `Stop` in `Kernel` has every
  choice.

Sequential parts:

* `Memory`: addresses are numbers, and the headers of free blocks are the
  sequence of their addresses and sizes.
* `Format`: a character is a number; a conversion letter that `_doprnt` does not
  know prints a buffer that was never written, and is left out.
* `Huffman` builds the tables value by value, as the code's loop does, and
  decodes by walking them. An entry made from a place of `v[]` that was never
  written is of a kind of its own (`Unwritten`).
* `Console`: the colours are left out, and what the boot left on the screen
  before the cursor counts as blank.
* `Inflate`: what a bit is for, part of a code or extra bits, is the input's
  choice, so that bits are counted, not read. A code is what bits need: the paths
  of tables (bits looked at, bits of them that are the code's) that lead to its
  symbols. The reading ahead of `NEEDBITS`, the bytes kept in the bit buffer at
  the end and the refill of the input buffer are as in the code.

## 3. What TLC checks

The kernel's runs have `MAX_PROC` = 5 (slots 1 to 4; root, idleproc and two
more), `Signals` and `SignalledWaiter` 4. `MaxPid` (no pid beyond it is given
out or named), the lengths, the naps and `EaxValues` are bounds too. `INT_MAX`
is 1000 and out of reach in the runs; the wrap of pids is covered by the proofs.

### Passing runs

| run | workload | shows |
|---|---|---|
| `Sched` | create, stop, yield, sleep (0, 1, 3 ticks), timer; kmalloc may fail | `FirstReadyFirstRun`: the dispatcher implements `RoundRobin`; `TicksEncodeTimeLeft`: the differences stand for the time left; `NeverLate`: at most one tick too long; `SleeperWakes` and `ReadyRuns` under fairness; and, while slots are freed and reused and the table fills up, `ReadyQueueSound`, `SleepersListed`, `DeadQueueDead`, `PidNamesSlot`, `NoFault`, `TypeOK`. `MaxPid` = 8 gives the slots of root and of the first child two lives |
| `Ipc` | create, getpid, send, recv, timer, with bad buffers, messages of 2 and 7 bytes and eax of 0 and 7 | `NoMissedRendezvous`, `NoSendCycle` (cycles of two and three senders), `SendEndsAtItsReceiver`: in the receive of the process it names, or, where the pid it names is the address of a zero word (`ZeroWords` = {4}), in a send to it; `BlockedQueueBlocked`, `OneRunning`. 7 is SYS_RECV: transfers of seven bytes and a saved eax of seven are taken for blocked receives by `recv()`, and the run includes what follows from it |
| `Signals` | create, timer, and every signal request with signals 1 and 4 of 0 to 4; handlers are installed and taken away (`Handlers` = {0, 5}) | `ServedByPriority`: masks, pending bits and frames implement `SignalService`; `MasksUnwind`: every mask saved on a stack is the one below it, so that all signals are admitted again when the handlers are done; `NoLostWakeup`; `SignalDelivered` under fairness |
| `UserPrograms` | the programs of user.c, of its three builds, with the timer and a user who types letters, return and control-d at any time | `NoReaderForgotten`: who is blocked in a read is registered, with its buffer, and the interrupt is enabled; `ReaderHasRoom`: while it waits nothing is written behind its buffer, but for one null of control-d; `ReadsWhatWasTyped`: the read returns as many characters as keys were struck since it began, whatever fills up first, or a signal ended it; `OneKeyboard` |
| `Library` | one of the five sequential parts, chosen at the start | `BlocksApart`, `ShowsWhatWasPrinted`, `PrintsItsArguments`, `TablesDecodeTheCode`, `WindowIsTail`, `LookaheadUndone` |

Three processes besides idleproc are enough for the kernel's properties: a
sender, a receiver and one that is blocked before, between or behind them; two
sleepers and one that inserts itself before, between or after them. A list
operation looks at a pcb, its predecessor and its successor. For signals, one
that has a lower and a higher signal handled, or waits, and one that sends them
suffice; signal 4 is MAXSIGNAL, the one whose mask is 0 and whose handler is
behind the array, and signals 1 and 4 can interrupt one another in
one direction only. (With `SigNos` = {1, 2, 4}, which nests three handlers, and handlers
that stay, the properties hold too: 158,220 states, three minutes. The run leaves the third
signal out for time.)

Bounds of `UserPrograms`: the driver's buffer holds 2 characters, and buffers of
reads 3 (`MaxBuf`) or the program's own 2, so that either fills up first; a
counted loop of a program runs once (`MaxTimes`); no nap is longer than one tick
(`MaxNap`), because it only orders the sender of a signal against its target,
and the timer does so at every other place as well; and no key is pressed
when 3 characters are in the buffers (`MaxWritten`).

What `ReadsWhatWasTyped` does not promise: the key that ends a read because no place
is left is dropped when a reader waits (kbd.c:222 returns at 253 without storing
it), a stored line ends without its newline, and what was typed ahead of a read is dropped when the
read begins (kbd.c:71), although `process_key()` keeps it "in case a reader shows up"
(kbd.c:214). All three are modelled, and `struck` counts from the beginning of the
read and without the key that ends it. What `ReaderHasRoom` does not promise: the
buffer of a read that a signal interrupted stays with the driver, which writes on
to it until the next read, open or close; nobody waits for it then.

`TablesDecodeTheCode` and the codes that fill an incomplete code: `huft_build()`
tests `p >= v + n` (inflate.c:264) with n the number of all symbols, while `v[]` holds only
those that have a code. So the first of the bits that are no code, as many as
there are symbols without one, decode to whatever the memory of `v[]` makes of
them; only behind these the entries are invalid, as the comment says. The lengths
1, 0, 0, 0 are such a code, for which `huft_build()` returns 0 besides, since its longest
code has one bit. The property says exactly which bits these are.

Bounds of `Library`. Memory: 96 bytes below a hole and 96 above it, requests of
1 to 48 bytes around the paragraph's boundaries, up to six blocks. Screen: 2 rows
of 4 cells with tab stops at 2, twelve cells of paper, a cursor found at the
start, in the middle or in the last cell: every position meets every character,
and the screen scrolls twice. Formats: a long of 12 bits, whose ends and powers
of ten are the arguments; fields narrower and wider than them and the 12 digits
of a binary. Codes: every vector of four lengths up to 4, with tables of one and
of two levels; sorted vectors of six lengths up to 5 with tables of three; and
the two codes of `inflate_fixed`, whole. Decompressor: a window of 4 bytes, an
input buffer of 2, texts of up to 6 symbols, the fewest and the most extra bits
behind a length (0, 5) and a distance (0, 13), and a dynamic code with paths of
one and of two tables: a copy overlaps itself, runs over the window's end from
the side it reads and from the side it writes, and the reading ahead crosses the
end of the input buffer.

### What the passing runs leave out, and the runs that show why

The code breaks some of the promises above. Each of these runs shows one, and
each is a disagreement with what a comment or an assertion of the code says.

| run | property | what happens |
|---|---|---|
| `DeadReuse` | `AssertionsHold` | `create()` gives `remove(&dead_q, ...)` the slot's index, which is its pid only in its first life. In its third, the pcb is still on `dead_q` while it is on the ready queue, and `next()` finds a dead process there |
| `Orphans` | `WaitersReleased` | two processes wait for one that stops; only the first is told |
| `MissedSender` | `NoMissedSender` | `remove()` loses a blocked sender from `blocked_q`; a receive from any does not find it |
| `WrongSender` | `ReceivesOnlyFromNamed` | a receive from one pid is given another's message |
| `SignalledWaiter` | `AssertionsHold` | a signal makes a process blocked in a receive ready and leaves it on `blocked_q`; what blocks next is appended behind it, and so to the ready queue |
| `NullHandler` | `HandlerInstalled` | a process in the handler of signal 3, with 2 and 1 pending, takes the handler of 2 away and returns: 1 is pending and allowed, and `deliver_signals_ifany()` delivers the highest one pending, which is 2, with a null handler |
| `LostEof` | `EofEndsRead` | control-d as the first key of a read is stored as a letter |

For this reason `Sched` ends at the second life of a slot and has no messages
(its `notify_waiters` finds nobody), `Ipc` has no stop,
`NoMissedRendezvous` speaks of a named receive only, and in `Signals` only root
calls `sigwait`, so that `blocked_q` holds one process at most. In
`UserPrograms` the programs are as they are written.

Further limits, met while modelling and kept out of the runs by their bounds:

* an empty message is copied with count 0, which `dispatch()` takes for "not
  ready": both sides block (`MsgLens` has no 0);
* the second sleeper of a list loses the tick that woke the first:
  `TicksEncodeTimeLeft` subtracts `early`, the ticks a sleeper has been charged
  for its predecessors;
* the remainder of a block that `kmalloc` splits keeps the size of the whole
  (mem.c:73): `BlocksApart` ends when more has been handed out than there is
  below the hole, because after that the blocks lie in it;
* `huft_build` fills the last links of an incomplete code of three levels in one
  entry only, and so `TablesDecodeTheCode` asks less of incomplete codes that
  need three levels; it may make a table one bit larger than the look-up bits,
  as its comment (inflate.c:222) says; and for lengths that are all zero it
  returns 0 where the comment at inflate.c:110 has 2.

`CHECK_DEADLOCK FALSE` stands in the runs without the timer, where everybody
may block or stop and idleproc makes no request; in `SignalledWaiter`, whose
fault is a stop of the machine; and in `Library`, whose parts come to an end.

### Fairness

`SpecClock` and `SpecSig` assume WF of the timer's interrupt only: the 8253 is
programmed to 100 Hz (ctsw.c:164) and every process runs with interrupts enabled
(`INTR_ENA_EFLAGS`, create.c:96). No process has to do anything. Under it every
sleeper awakes, every ready process runs, and every signal that a process has
to handle is delivered. Nothing is assumed of the user at the keyboard, and
`SpecUser` states no fairness.

### Bounds of the clock

`left` stops at -1, one tick after the due time; `NeverLate` says no sleeper
gets there. `early` grows only while its process sleeps and is bounded by the
naps.

### Mutants

`PROJECT.json` names for every property of a passing run a mutated operator the
code might plausibly have had instead (`Pop_KeepsTail`: the tail is not reset;
`Between_CutsOff`: an insertion forgets the rest of the list;
`RecvFrom_Waits`: a blocked sender is not looked for; `Completes_NoNull`: the
room for the null behind a line is forgotten; and so on), with which TLC
finds the property violated. They stand before the operator they mutate.

## 4. What is proved

For every value of the constants that satisfies the assumptions of the modules
(`MAX_PROC` >= 3, `INT_MAX` > 2 * `MAX_PROC`, `UINT` >= 1000), any workload, any bounds and
any `ZeroWords`, unless a hypothesis is named. The modules build on each other:
`KernelProofs` <- `SignalsProofs` <- `UserProofs` <- `ReadProofs`, and `KernelProofs`
<- `KernelLists` <- `MessageProofs`, `SchedProofs`; `LibraryProofs` stands alone.

| theorem | module | states | hypothesis |
|---|---|---|---|
| `TypeCorrect`, `OneProcessRuns`, `PidsLeadBack`, `PidsDistinct` | `KernelProofs` | `TypeOK`, `OneRunning`, `PidNamesSlot`; no two processes share a pid, also over the wrap at INT_MAX | none |
| `ListsHold` | `KernelLists` | the inductive invariant `Handed` of the lists | `Workload` |
| `NoRequestFaults` | `KernelLists` | `NoFault`: no `kassert` fails, every walk ends | `Workload` |
| `ReadyQueueHolds`, `SleepersHold`, `BlockedQueueHolds` | `KernelLists` | `ReadyQueueSound`, `SleepersListed`, `BlockedQueueBlocked` | `Workload` |
| `RendezvousHold`, `NoRendezvousMissed`, `NoSendersInCycle` | `MessageProofs` | the invariant `Talking`; `NoMissedRendezvous`, `NoSendCycle` | `Workload`, no empty messages |
| `SendersReleased` | `MessageProofs` | who releases a sender: `SendEndsAtItsReceiver` | the same |
| `ClockHolds`, `TicksEncode`, `NobodyIsLate` | `SchedProofs` | the invariant `Timely`; `TicksEncodeTimeLeft`, `NeverLate` | `Workload` |
| `NapTicks` | `SchedProofs` | what `milliseconds_to_ticks` returns: the whole ticks in a nap as long as the product does not wrap, and how much is lost when it does | none |
| `QueueHoldsAlways`, `FirstReadyRunsFirst` | `SchedProofs` | the invariant `Queued`; the refinement `FirstReadyFirstRun` | `Workload` |
| `SigInvHolds`, `NoWakeupLost`, `MasksAlwaysUnwind` | `SignalsProofs` | the invariant `SigInv`; `NoLostWakeup`, `MasksUnwind` | none |
| `SignalsServedByPriority` | `SignalsProofs` | the refinement `ServedByPriority` | `MAXSIGNAL - 1 \notin SigNos` |
| `UserInvHolds`, `ReadersRemembered`, `OneKeyboardEach` | `UserProofs` | of `SpecUser`: the invariant `UserInv`; `NoReaderForgotten`, `OneKeyboard` | `UserBounds` |
| `DriverBufferFits`, `UserWakeups` | `UserProofs` | of `SpecUser`: `DevTypeOK` and that the driver's buffer never runs over; `NoLostWakeup` | `UserBounds` |
| `ReadersHaveRoom`, `ReadsAll` | `ReadProofs` | of `SpecUser`: `ReaderHasRoom`, `ReadsWhatWasTyped`, from the invariant `ReadsInv` | `UserBounds` |
| `MemoryInvHolds`, `BlocksStayApart` | `LibraryProofs` | of `SpecMemory` (`InitMemory` and then `Allocate`): the invariant `MemoryInv`; `BlocksApart` | none |
| `ConsoleInvHolds`, `ShowsAlways` | `LibraryProofs` | of `SpecConsole` (`InitConsole` and then `PrintSome`): the invariant `ConsoleInv`; `ShowsWhatWasPrinted` | `CELLS \notin Cursors` |
| `InflateInvHolds`, `WindowIsAlwaysTail`, `LookaheadAlwaysUndone` | `LibraryProofs` | of `SpecInflate` (`InitInflate` and then `InflateStep`): the invariant `InflateInv`; `WindowIsTail`, `LookaheadUndone` | none |

### The hypotheses, and what the code does without them

* `Workload` (KernelLists): if processes stop, then there are no sends and
  receives, `MaxPid` < 2 * `MAX_PROC` (a slot has two lives at most) and
  `INT_MAX` > 3 * `MAX_PROC`. It covers the workloads of `Sched` and `Ipc` for
  every number of processes, lengths and naps. It cannot be dropped: in the third
  life of a slot `create()` leaves it on `dead_q` (`DeadReuse`), and `remove()` for a
  dead process's waiters cuts lists (`Orphans`), after which the lists are not what
  these theorems say.
* `0 \notin MsgLens`: an empty message blocks both sides (section 3).
* `MAXSIGNAL - 1 \notin SigNos`: the signal whose mask `pr_mask_to_signum` does
  not recognise (section 2): `SYS_SIGRETURN` then clears the pending bit of any
  signal. The run `Signals`, which checks the same, does not use it either.

* `UserBounds` (UserProofs) says what the constants of the code are like: there is
  no device 99 (`MAX_DEVICE` is 16, and `sysopen_invalid` opens 99 for an error),
  buffers are not empty, and the signals user.c names are among `SigNos`. Loops,
  naps, buffers and the driver's own buffer may have any size, and any key may be
  pressed at any time.
* `CELLS \notin Cursors`: the BIOS did not leave the cursor just behind the
  screen. `kbmputc()` lets such a cursor be (kprintf.c:121 only finds one that is
  further out): the first character is then written past the screen's memory.

The decompressor needs no hypothesis beyond the module's `InflateAssumption`: that
every path of a code looks at no more than `lbits` = 9 bits a table, of which at
least one is the code's, which is how `inflate_dynamic()` and `inflate_fixed()` call
`huft_build()`.

### The arguments

**Types, pids, one running** (`KernelProofs`). The inductive invariant is
`Inv == TypeOK /\ OneRunning /\ PidNamesSlot`. The three need each other: that
`running` stays a process (type) rests on which process `Dispatch` picks; that
only one runs rests on every handler taking the caller out of STATE_RUNNING
before `next()` is called, and on `next()` choosing a pcb by its state or by
idleproc's pid; that `idleproc`'s state is set by its slot although it is
recognised by its pid rests on pids naming slots. Each list operation has a
lemma of what it keeps (`remove_Keeps`, ...), then there is one lemma per action
(`CreateKeeps` to `TimerKeeps`). Nothing is assumed of the lists.

**Walks without induction.** A walk is a recursive function on 0 .. MAX_PROC
(`Chain`), and the induction theorems of the library take an operator, which the
installed provers cannot instantiate. The proofs argue by the least
counterexample instead: a non-empty set of naturals has a least element
(`HasMinimum`, from the well-foundedness of < on Nat), and at the least n
at which a fact about a walk fails, it held at n - 1. `WalkExists` and `SumsExist`
(that the recursive functions exist), `ListChain` (the walk along a list is the
list), `AccumulatedIsDue` and `KeptAhead` are proved this way.

**Signals** (`KernelProofs`, `SignalsProofs`). With waiters of more than one kind the lists
cross, so nothing is said of them but where they can lead: `Linked(k, L)` says
that every pointer stored in the kernel's memory, the links included, is NULL or
leads to a slot of L. The slots that matter are `Nest`: those in which
every mask saved in a frame is the one below it and the priority mask is the
top one's. `MasksUnwind` is not inductive without it, because a walk that left the
slots of processes could make a slot ready that no `create()` prepared. `SigInv`
is the kernel's `Inv`, the types, and `Linked(kern, Nest(sig))`; `NoLostWakeup` is
proved with it, since what a sender finds in a target's masks has to be
what delivery finds. For `ServedByPriority` each signal request and delivery is mapped
to a step of `SignalService` (`Raise`, `Done`, `Renew` and what follows of them).

**The lists** (`KernelProofs`, `KernelLists`). `List(next, q, f)` says that the pcb's that
`next` threads from q are the sequence f, without repetition. `Handed` is the
inductive invariant: `Sound` (the types, `Facts` about pids and blocked calls, and
sequences f, g, b, d for the ready queue, the sleepers, `blocked_q` and `dead_q`
that share no pcb, with the states their names say), one process runs, and it
links to nothing. The last conjunct is what `sleep()`'s `kassert` needs, and what
makes appending sound: `append()` does not reset `next`. In the middle of a
request a pcb may be on no list: `Sound(k, X)` excepts those in X, and the lemmas of
`ready`, `remove`, `sleep`, `tick`, `create`, `send` and `recv` move a pcb from one list
to X or from X to another.

**Messages** (`MessageProofs`). `Talking` adds that blocked processes have the
arguments of their call, that no sender and receiver that name each other are
both blocked, and that senders make no cycle. The frame relation `StillWaiting`
(whoever is blocked stays so, with its call, except for those in X) carries it
over everything but `send` and `recv` themselves. A cycle could only be closed by
the process that blocks last, and `send()` looks whether its destination is
blocked.

**Time** (`SchedProofs`). `Timely` is `Handed` and that the ticks of every sleeper
are `left - early` of its own minus that of the one before it: local to a
pair of pcb's, so that the frame relation `SleepSame` keeps it. Adding up
along the list gives `TicksEncodeTimeLeft`; since differences are not negative,
the first sleeper is due first, and `NeverLate` follows. All of it counts in ticks;
`NapTicks` says what they are of the milliseconds asked for: the whole ticks of
10 ms in them, until 100 times the milliseconds exceeds an unsigned int. From there on
(more than eleven hours and 55 minutes) a nap is too short by at least that much.

**Round robin** (`SchedProofs`, second part). `Queued` adds to `Handed` that idleproc is
nowhere in the ready queue but at its head, where `initproc()` put it; `KernelRR`
leaves it out there. Up to `next()` every request only adds behind
(`QueueKept`), and `next()` takes the first (`Dispatch_Order`); so each
request is one of the abstract `Keep`, `Switch`, `Refill` and `Rest`.

**The keyboard and the programs** (`UserProofs`). `UserInv` is `SigInv` and
`NoLostWakeup`, `ProgramsInv` and `Served`. `Served` says what the three properties need
of each other: only root has a descriptor, one and the first, with the keyboard's
interrupt unmasked; who is blocked in a read is root, is the registered reader,
and has room for what the driver holds and one more; and nobody is in a send.
That the last belongs to it shows in idleproc's receive, which would take a sender
off `blocked_q`. The argument has three parts. (1) No request of the
kernel or of the signals makes anyone blocked in a read who was not (`Quiet`, a
relation between two states of the kernel, one lemma per list operation and per
request, closed under composition): it leaves `Served` as it is. This has to be
proved of every request because `ret` is at once a result and the number of the
call a process is blocked in, and 16 is both `SYS_READ` and a result. (2) While root runs nobody is
blocked in a read, so that what root opens, closes or sets disturbs no reader; and
another process, having no descriptor, is refused. (3) A key adds one character at
most to what is held (`Adds`), is copied on when the driver's buffer is full, and
hands the reader's buffer over when that would leave no room for the null. What the
programs contribute is little and is proved from their text: every call is one
of `Instrs`, those of root's children of `Others`, in which nothing is opened or read
(`CodeIs`), and `syscreate` starts children only.

**What is read** (`ReadProofs`). That a read returns what was typed needs that nothing
but a key or a signal ends it. The kernel alone does not promise that: when idleproc
is the first of the ready queue, `next()` runs the process behind it without a look
at its state, so if idleproc came from `blocked_q` with its link, a process blocked in
a read would run on. What rules this out is the order of the programs' calls,
and `ReadsInv` says it by the program root has (`Main`). In the default
build and with `signal_reader`, idleproc blocks in nothing: `Idles` says that it
links to nothing and is first of the ready queue only until root gives the CPU up for the
first time, so that every step without root's leaves the read alone, or ends it with
`EINTR` if it is a signal (`Spares`, `Lets`). With `read_tests` idleproc does block, in its
receive; but there are only the two of them, and `Pair` lists how they can stand in
the ready queue and on `blocked_q`: nobody is behind idleproc. With the tests of
the devices root reads only after it has closed what it had open (`Cautious`,
of the text of the program; `Careful`, of its state), and with the rest nobody
reads: nobody is ever blocked in a read (`Unread`). That root's slot is not given
to another program while it matters follows from where root is in its own.
The rest is the driver. `Whole` says of it, while a reader waits, that it has a
character for every key struck since the read began, none of them an end of line,
with room for another in its own buffer, and has written nothing behind the
reader's. A key adds one character or hands all over (`Fed`), writing behind the
reader's buffer in the one case that `Slip` names; every other step leaves what the
driver holds as it is (`Steady`), since while a process is blocked in a read only the
others run, or begins a read (`Begun`).

**Memory** (`LibraryProofs`). The header of the rest of a split block gives the size of
the whole, so the list of free blocks says nothing of what is free; what does is the
sum of what was handed out, which the model's `Given` is and the code does not keep.
`MemoryInv`: while the sum is no more than the block below the hole, that block is
at the front of the list with its first size, so that every request that the sum
still allows is met from it, behind the one before; or a single request took it
whole. That `Given`, a recursive function, exists and grows by what is handed out
is proved by the least counterexample, as for walks (`UpTo`).

**The screen** (`LibraryProofs`). `ConsoleInv` relates the screen to the roll of paper:
cell i shows what is at `top` + i of the roll, blank where nothing was printed;
`top` is a multiple of `COL`, and so of `TAB`, which is what makes the tab stops, those
of an address, stay in place when the screen scrolls. A tab prints blanks until it
is at a stop: at the first n for which `crtat` + n is a multiple of `TAB`, n <= `TAB`
(`Remainder`), with a scroll in between perhaps, since the stop may be the first
cell of a row that is not there yet.

**The decompressor** (`LibraryProofs`). `Sound(s, X)` says that what was flushed and
what is in the window before `w` are the text X, that the window behind `w` still
holds the bytes before those flushed last (`Begun`, `Recent`, `Older`: a distance
may lead there), and that bits and bytes agree: the bytes taken from the input
buffer are the bits used and those in the bit buffer, which are at most 15, so
that the bytes given back at the end are in the buffer. A copy is cut at the end of
the window on both sides; of every byte copied it is shown that it is the one
`distance` before it in the text, though the copy may read what it has just
written, and though the window may have been flushed in between. That the loops
come to their end, each turn copying a byte at least, is part of it (`Turns`).

### Only model-checked, and why

* Liveness (`SleeperWakes`, `ReadyRuns`, `SignalDelivered`): it needs ENABLED.
* `NoFault` and the queues under signals: with two waiters the lists cross and
  the property fails (`SignalledWaiter`); the run allows one.
* `NoFault` and `ReadyQueueSound` of the programs: a signal may find root in any
  blocking call while idleproc is on `blocked_q` too, and what keeps the lists apart
  then is the order of the calls of every program of the tests, of which
  `ReadsInv` knows only those that read.
* `DeadQueueDead`: `create()` takes a slot off `dead_q` in its second life and not in
  its third (`DeadReuse`); the run has the lives for which it holds, and a theorem
  about these would assume the failure away. What the lists need of it is in `Handed`.
* `PrintsItsArguments` (`Format`) and `TablesDecodeTheCode` (`Huffman`): what they
  compute is an induction over data, and `Huffman` is written with RECURSIVE
  operators, which the provers do not take.

## 5. Plan

Done in this order, the most important first:

1. Process table, dispatcher, creation, messages, sleepers (`ProcTable`,
   `SleepList`, `Msg`, `Kernel`), their runs, the first theorems. *Done.*
2. `Signals` on the kernel's lists, and the abstract `SignalService` it
   implements. *Done.*
3. `ScanCodes` and `Devices`, and the programs of user.c on all of it
   (`UserPrograms`). *Done.*
4. The sequential parts: `Memory`, `Console`, `Format`, `Huffman`, `Inflate`.
   *Done.*
5. Proofs: types and signals; the lists and that no request faults; messages;
   the clock; the two refinements; the devices under the programs of user.c.
   *Done.*
6. The sequential parts for every size: memory, screen, decompressor. *Done.*
   `ReadsWhatWasTyped`, from what each program does while root reads. *Done.*
   Next, the lists under the programs of user.c (`ReadyQueueSound`).
7. `Rendezvous`: an abstract specification of messages (a set of blocked senders
   and receivers, matched when both are there), with `Kernel` refining it in
   `Ipc`'s workload.
8. The range in which `milliseconds_to_ticks` is exact. *Done* (`NapTicks`).

### Not modelled

* `i386.c`, `evec.c`, `intr.S`, `startup.S`: register, port and descriptor table
  access; `enable_irq()` is the guard of the keyboard's interrupt. The stack
  frames that `create()` and `contextswitch()` build, byte by byte, are left out:
  what matters of them is in `args`, `ret` and the frames of handlers.
* `misc.c` of the decompressor around `inflate()`: the gzip header, its checksum,
  the bump allocator and the screen output, all straight-line; of it only the
  window's flush and the input buffer are modelled.
* The boot sector and `setup.S` (BIOS calls), `build.c` (a host program that
  concatenates files), and the rest of `lib/libxc`: `_doscan` and the other
  routines are not called.
* `deque()` and `unsignal()`, which nothing calls.
* The superseded sources that compile/Makefile does not link (`device.c`,
  `signalq.deprecated.c`, `disp.c.*`), the test snapshots and `play/`.

## 6. Running it

    tlc -workers 2 -config Sched.cfg MCSched                (two minutes)
    tlc -workers 2 -config Ipc.cfg MCKernel                 (about a minute)
    tlc -workers 2 -config Signals.cfg MCSignals            (seconds)
    tlc -workers 2 -config UserPrograms.cfg MCUserPrograms  (two minutes)
    tlc -workers 2 -config Library.cfg MCLibrary            (a minute)

    for m in KernelProofs SignalsProofs KernelLists MessageProofs SchedProofs \
             UserProofs ReadProofs LibraryProofs; do tlapm $m.tla; done
                                                            (half an hour)
