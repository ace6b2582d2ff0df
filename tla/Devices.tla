-------------------------------- MODULE Devices -------------------------------
(***************************************************************************)
(* Devices: the descriptors of di_calls.c, the keyboard driver of kbd.c    *)
(* and the device cases of dispatch(), with the interrupt of the keyboard. *)
(*                                                                         *)
(* The driver collects up to KBDBUFSZ characters in a buffer of its own,   *)
(* copies them to the buffer of the process whose read is registered, and  *)
(* makes that process ready when the line, the file or the buffer ends.    *)
(*                                                                         *)
(* Two fields of dev are history that the code does not keep: how far it   *)
(* has written behind the end of the buffer it was given last, and how     *)
(* many keys that give a byte were struck since that was given.            *)
(***************************************************************************)
EXTENDS Signals, ScanCodes

CONSTANTS
    MAX_DEVICE,  \* devices of devtab
    MAXFILES,    \* descriptors of a process
    KBDBUFSZ,    \* characters the driver's buffer holds
    KeyEvents,   \* what the user does: <<key, up>>
    MaxWritten   \* bound: no key beyond so many characters in a buffer

Files == 0 .. MAXFILES - 1

(* sig_handler has no entry for MAXSIGNAL: its handler would be the major  *)
(* number of descriptor 0, which is not modelled as being the same word.   *)
ASSUME DevicesAssumption ==
    /\ MAX_DEVICE \in Nat /\ MAXFILES \in Nat \ {0} /\ KBDBUFSZ \in Nat \ {0}
    /\ KeyEvents \subseteq Keys \X BOOLEAN
    /\ MaxWritten \in Nat
    /\ MAXSIGNAL \notin SigNos

VARIABLE dev      \* the descriptors, the driver's variables and the 8259's mask

KEYBOARD_NOECHO == 0
KEYBOARD_ECHO   == 1
CLOSED          == -3      \* the status DEV_CLOSED, in place of a major number
SYS_READ        == 16
UNSUPPORTED_DEV_OP == -1

DevType ==
    [ fd      : [Slots -> [Files -> Int]],
      enabled : BOOLEAN,
      state   : SUBSET Flags,
      reader  : Ptr,
      appl    : BOOLEAN,
      applbufsize : Nat,
      applbufidx  : Nat,
      kbdbuffer   : Seq({"char", "newline"}),
      eof_received : BOOLEAN,
      EOF_endbyte  : Keys,
      overrun : Nat,
      struck  : Nat ]

(* dispatchinit, deviceinit and keyboard_init; the keyboard's interrupt is *)
(* masked until someone opens it.                                          *)
BootDev ==
    [ fd      |-> [s \in Slots |-> [f \in Files |-> CLOSED]],
      enabled |-> FALSE,
      state   |-> {},
      reader  |-> NULL,
      appl    |-> FALSE,
      applbufsize |-> 0,
      applbufidx  |-> 0,
      kbdbuffer   |-> <<>>,
      eof_received |-> FALSE,
      EOF_endbyte  |-> "d",
      overrun |-> 0,
      struck  |-> 0 ]

-----------------------------------------------------------------------------
(* kbd.c, the upper half.                                                  *)
kbd_open(d, p) ==
    [d EXCEPT !.enabled = TRUE, !.reader = p, !.eof_received = FALSE]

kbd_close(d) ==
    [d EXCEPT !.enabled = FALSE, !.appl = FALSE, !.applbufsize = 0,
              !.reader = NULL, !.eof_received = FALSE]

(* kbd_read, for both keyboards: the dispatch tables of all descriptors    *)
(* are the one of device 0.  What was typed before the read is dropped.    *)
(* Mutant: the reader is not registered.                                   *)
kbd_read_KeepsReader(d, p, bufflen) ==
    IF d.eof_received THEN d
    ELSE [d EXCEPT !.appl = TRUE, !.applbufsize = bufflen, !.applbufidx = 0,
                   !.kbdbuffer = <<>>, !.overrun = 0, !.struck = 0]

kbd_read(d, p, bufflen) ==
    IF d.eof_received THEN d
    ELSE [d EXCEPT !.appl = TRUE, !.applbufsize = bufflen, !.applbufidx = 0,
                   !.kbdbuffer = <<>>, !.reader = p, !.overrun = 0, !.struck = 0]

(* kbd_ioctl: 49 installs the key that ends the file; of the other         *)
(* commands validcommand knows "valid" ones, and may take any other for    *)
(* one, since it compares with what lies behind its table, too.            *)
kbd_ioctl(d, command, a) ==
    CASE command = 49 -> {<<[d EXCEPT !.EOF_endbyte = a], 1>>}
      [] command = "valid" -> {<<d, 1>>}
      [] OTHER -> {<<d, 1>>, <<d, -1>>}

-----------------------------------------------------------------------------
(* di_calls.c                                                              *)
validate_fd(d, p, f) == f \in Files /\ d.fd[p][f] # CLOSED

(* The first descriptor that is not open; MAXFILES if all are.             *)
FirstClosed(d, p) ==
    CHOOSE i \in 0 .. MAXFILES :
        /\ \A j \in 0 .. i - 1 : d.fd[p][j] # CLOSED
        /\ i = MAXFILES \/ d.fd[p][i] = CLOSED

(* One keyboard, of one kind, is open to a process at a time.              *)
(* Mutant: it may have both.                                               *)
Clash_SameOnly(devno, major) == devno = major

Clash(devno, major) ==
    devno = major \/ {devno, major} = {KEYBOARD_NOECHO, KEYBOARD_ECHO}

(* di_open: what is left of d, and the descriptor or -1.                   *)
di_open(d, p, devno) ==
    LET i == FirstClosed(d, p)
    IN  IF \/ devno > MAX_DEVICE
           \/ \E j \in 0 .. i - 1 : Clash(devno, d.fd[p][j])
           \/ i = MAXFILES
        THEN <<d, -1>>
        ELSE <<kbd_open([d EXCEPT !.fd[p][i] = devno], p), i>>

di_close(d, p, f) ==
    IF validate_fd(d, p, f) THEN <<kbd_close([d EXCEPT !.fd[p][f] = CLOSED]), 0>>
    ELSE <<d, -1>>

(* No device can be written.                                               *)
di_write(d, p, f) == IF validate_fd(d, p, f) THEN UNSUPPORTED_DEV_OP ELSE -1

di_ioctl(d, p, f, command, a) ==
    IF validate_fd(d, p, f) THEN kbd_ioctl(d, command, a) ELSE {<<d, -1>>}

-----------------------------------------------------------------------------
(* kbd.c, the lower half.                                                  *)

Waiting(k, d) == d.reader # NULL /\ k.state[d.reader] = "BLOCKED"

(* notify, and what its callers reset: the reader gets what it was copied. *)
notify(k, d) ==
    <<ready([remove(k, "blocked_q", k.pid[d.reader]) EXCEPT !.ret[d.reader] = d.applbufidx],
            d.reader),
      [d EXCEPT !.appl = FALSE, !.applbufsize = 0, !.applbufidx = 0, !.reader = NULL]>>

(* The key that ends the file.                                             *)
EndsFile(d, key, up) == "INCTL" \in d.state /\ key = d.EOF_endbyte /\ ~up

(* Whether the key makes the driver hand over what it has: it ends a file  *)
(* of which there are characters left, or the line, or there is no room    *)
(* for it and the null behind it.                                          *)
(* Mutant: the room for the null is forgotten.                             *)
Completes_NoNull(d, key, up) ==
    \/ d.kbdbuffer # <<>> /\ EndsFile(d, key, up)
    \/ kbtoa(d.state, key, up) = "newline"
    \/ d.applbufidx + Len(d.kbdbuffer) >= d.applbufsize

Completes(d, key, up) ==
    \/ d.kbdbuffer # <<>> /\ EndsFile(d, key, up)
    \/ kbtoa(d.state, key, up) = "newline"
    \/ d.applbufidx + Len(d.kbdbuffer) + 1 >= d.applbufsize

(* How far the memory behind the reader's buffer is written once its place *)
(* i is, where the buffer has the places 0 .. applbufsize - 1.             *)
Behind(d, i) ==
    IF i < d.applbufsize + d.overrun THEN d.overrun ELSE i + 1 - d.applbufsize

(* What the driver has is copied, and a null behind it; the key that ends  *)
(* the file writes another null, one place further.                        *)
Flush(d, key, up) ==
    LET end == d.applbufidx + Len(d.kbdbuffer)
    IN  [d EXCEPT !.eof_received = @ \/ EndsFile(d, key, up),
                  !.applbufidx = end,
                  !.kbdbuffer = <<>>,
                  !.overrun = Behind(d, IF EndsFile(d, key, up) THEN end + 1 ELSE end)]

(* The driver's buffer is full: it is copied until the application's is,   *)
(* or to the end of a line.  What is left of the buffer moves to its       *)
(* front; its new length is what was copied, not what is left.             *)
Ends(d, n) ==
    d.applbufidx + n >= d.applbufsize - 1 \/ d.kbdbuffer[n] = "newline"

Copied(d) ==
    CHOOSE n \in 1 .. KBDBUFSZ :
        /\ n = KBDBUFSZ \/ Ends(d, n)
        /\ \A m \in 1 .. n - 1 : ~Ends(d, m)

Drain(k, d) ==
    LET n    == Copied(d)
        full == [d EXCEPT !.applbufidx = @ + n,
                          !.overrun = Behind(d, d.applbufidx + n - 1)]
        rest == [full EXCEPT !.kbdbuffer =
                    [i \in 1 .. n |-> IF i + n <= KBDBUFSZ THEN d.kbdbuffer[i + n]
                                      ELSE d.kbdbuffer[i]]]
    IN  IF n = KBDBUFSZ THEN <<k, [full EXCEPT !.kbdbuffer = <<>>]>>
        ELSE IF Waiting(k, rest) THEN notify(k, rest) ELSE <<k, rest>>

(* What is kept of a key.                                                  *)
Byte(d, key, up) == IF kbtoa(d.state, key, up) = "newline" THEN "newline" ELSE "char"

(* Mutant: a place of the driver's buffer is spared for a null, too.       *)
Store_RoomForNull(d, key, up) ==
    IF Len(d.kbdbuffer) + 1 < KBDBUFSZ
    THEN [d EXCEPT !.kbdbuffer = Append(@, Byte(d, key, up))] ELSE d

Store(d, key, up) ==
    IF Len(d.kbdbuffer) < KBDBUFSZ
    THEN [d EXCEPT !.kbdbuffer = Append(@, Byte(d, key, up))] ELSE d

Keep(k, d, key, up) ==
    IF up \/ is_control_code(key, up) THEN <<k, d>>
    ELSE LET s == Store(d, key, up)
         IN  IF Len(s.kbdbuffer) >= KBDBUFSZ /\ s.appl THEN Drain(k, s) ELSE <<k, s>>

(* process_key: the memory and the driver's variables after a key.  With   *)
(* no buffer to copy to every code is stored as long as there is room, the *)
(* release of a key and the modifiers too; how many is all that is kept    *)
(* here, since no read gets them.                                          *)
process_key(k, d, key, up) ==
    LET e == [d EXCEPT !.state = NextState(@, key, up)]
    IN  IF ~e.appl
        THEN <<k, IF Len(e.kbdbuffer) < KBDBUFSZ
                  THEN [e EXCEPT !.kbdbuffer = Append([i \in DOMAIN @ |-> "char"], "char")]
                  ELSE e>>
        ELSE IF Completes(e, key, up)
             THEN LET f == Flush(e, key, up)
                  IN  IF Waiting(k, f) THEN notify(k, f) ELSE Keep(k, f, key, up)
        ELSE Keep(k, e, key, up)

-----------------------------------------------------------------------------
DevRequest == kern.fault = "none" /\ Running # IDLE

ServeDev(k, d) == ServeSig(k, sig) /\ dev' = IF k.fault = "none" THEN d ELSE dev

Returns(n) == [kern EXCEPT !.ret[Running] = n]

Open(devno) ==
    /\ DevRequest
    /\ ServeDev(Returns(di_open(dev, Running, devno)[2]), di_open(dev, Running, devno)[1])

Close(f) ==
    /\ DevRequest
    /\ ServeDev(Returns(di_close(dev, Running, f)[2]), di_close(dev, Running, f)[1])

Write(f) == DevRequest /\ ServeDev(Returns(di_write(dev, Running, f)), dev)

(* SYS_READ: the end of the file is the result 0; a read that is           *)
(* registered blocks.                                                      *)
Read(f, bufflen) ==
    /\ DevRequest
    /\ IF ~validate_fd(dev, Running, f) THEN ServeDev(Returns(-1), dev)
       ELSE ServeDev(IF dev.eof_received THEN Returns(0)
                     ELSE Dispatch(Block(kern, Running, SYS_READ)),
                     kbd_read(dev, Running, bufflen))

Ioctl(f, command, a) ==
    /\ DevRequest
    /\ \E r \in di_ioctl(dev, Running, f, command, a) : ServeDev(Returns(r[2]), r[1])

(* Every key but the modifiers gives a byte when it is pressed.            *)
Strokes(key, up) == IF up \/ key \in Modifiers THEN 0 ELSE 1

(* The strokes are counted as long as there is a buffer to copy them to.   *)
Counted(d, key, up) ==
    [d EXCEPT !.struck = IF d.appl THEN dev.struck + Strokes(key, up) ELSE 0]

(* SYS_KEYBOARD: the process it interrupts keeps the CPU, and its eax.     *)
Keyboard(key, up) ==
    /\ kern.fault = "none" /\ dev.enabled
    /\ dev.applbufidx + Len(dev.kbdbuffer) < MaxWritten
    /\ \E r \in {process_key(kern, dev, key, up)} : ServeDev(r[1], Counted(r[2], key, up))

InitDev == InitSig /\ dev = BootDev

devVars == <<kern, sig, dev>>

-----------------------------------------------------------------------------
(* The type of the driver's variables and of the descriptors.              *)
DevTypeOK == dev \in DevType

InRead(p) == kern.state[p] = "BLOCKED" /\ kern.ret[p] = SYS_READ

Typed == dev.applbufidx + Len(dev.kbdbuffer)

(* No reader is forgotten: a process that is blocked in a read is the one  *)
(* registered with the driver, with its buffer, and the keyboard's         *)
(* interrupt is not masked.                                                *)
NoReaderForgotten ==
    \A p \in Slots : InRead(p) => dev.reader = p /\ dev.appl /\ dev.enabled

(* While a reader waits there is room in its buffer for what the driver    *)
(* has and for a null behind it, and nothing is written behind the buffer: *)
(* a full one is handed over in time.  But for one byte: control-d writes  *)
(* a null one place further than the one that ends what was typed, which   *)
(* is behind the buffer if only the place of that one was left (kbd.c:233).*)
ReaderHasRoom ==
    [][\A p \in Slots : InRead(p) =>
         /\ Typed < dev.applbufsize /\ dev.overrun = 0
         /\ dev'.overrun # 0 =>
              /\ dev'.overrun = 1 /\ dev'.eof_received
              /\ Typed + 1 = dev.applbufsize]_devVars

(* A read gives every key that was struck since it began, and no other:    *)
(* while it waits the driver has a byte for each of them, none for what    *)
(* was typed before, and when it ends it returns as many, if it was not a  *)
(* signal that ended it.  The key that ends it is not one of them: return, *)
(* control-d, or any key for which no place is left, which is dropped      *)
(* (kbd.c:222, 253).                                                       *)
ReadsWhatWasTyped ==
    [][\A p \in Slots : InRead(p) =>
         /\ Typed = dev.struck
         /\ kern'.state[p] # "BLOCKED" => kern'.ret[p] \in {dev.struck, EINTR}]_devVars

(* A process has one keyboard open at most: "disallow multiple opens on a  *)
(* device" (user.c:581), and no echo beside one without (user.c:574).      *)
OneKeyboard ==
    \A p \in Slots : \A f, g \in Files :
        dev.fd[p][f] # CLOSED /\ dev.fd[p][g] # CLOSED => f = g

(* The keys that end the file end the read that waits (kbd.c:23).          *)
EofEndsRead ==
    [][\A p \in Slots :
         InRead(p) /\ EndsFile(dev, dev.EOF_endbyte, FALSE)
             /\ Keyboard(dev.EOF_endbyte, FALSE) => dev'.eof_received]_devVars
=============================================================================
