------------------------------ MODULE ScanCodes -------------------------------
(***************************************************************************)
(* scanToASCII.c: what a scan code means.  A key is a member of a class of *)
(* keys that the tables treat alike; "up" is the bit KEY_UP of its code.   *)
(* The prefix EXTESC (0xe0) has that bit, and passes for the release of    *)
(* some key: the flag EXTENDED is never set.                               *)
(* A character is a newline or any other character; NOCHAR is neither,     *)
(* until its callers put it into a byte, where it is the character 0.      *)
(***************************************************************************)
EXTENDS Integers

Modifiers == {"SHIFT", "CAPSL", "LCTL", "LMETA"}
Letters   == {"d", "w", "letter"}
Keys      == Modifiers \cup Letters \cup {"return", "space", "function"}

Flags == {"INCTL", "INSHIFT", "CAPSLOCK", "INMETA"}

(* The tables, of 58, 58 and 51 entries: kbctl ends before the space bar,  *)
(* and none of them has the function keys.                                 *)
Table ==
    [ kbcode  |-> [k \in Letters \cup {"return", "space"} |->
                      IF k = "return" THEN "newline" ELSE "char"],
      kbshift |-> [k \in Letters \cup {"return", "space"} |->
                      IF k = "return" THEN "newline" ELSE "char"],
      kbctl   |-> [k \in Letters \cup {"return"} |->
                      IF k = "return" THEN "newline" ELSE "char"] ]

Lookup(table, key) ==
    IF key \in DOMAIN Table[table] THEN Table[table][key] ELSE "NOCHAR"

Flag(key) ==
    CASE key = "SHIFT" -> "INSHIFT" [] key = "CAPSL" -> "CAPSLOCK"
      [] key = "LCTL" -> "INCTL"    [] key = "LMETA" -> "INMETA"

(* kbtoa: the modifiers that are down afterwards.                          *)
NextState(state, key, up) ==
    IF key \notin Modifiers THEN state
    ELSE IF up THEN state \ {Flag(key)} ELSE state \cup {Flag(key)}

(* kbtoa: the character.  Alt adds 128 to it, or to NOCHAR, and no longer  *)
(* is it a newline or NOCHAR.                                              *)
kbtoa(state, key, up) ==
    LET plain == IF "CAPSLOCK" \in state THEN Lookup("kbshift", key) ELSE Lookup("kbcode", key)
        shifted == IF "CAPSLOCK" \in state THEN Lookup("kbcode", key) ELSE Lookup("kbshift", key)
        ch == IF "INCTL" \in state THEN Lookup("kbctl", key)
              ELSE IF "INSHIFT" \in state THEN shifted ELSE plain
        beyond == \/ "INSHIFT" \in state /\ shifted = "NOCHAR"
                  \/ "INCTL" \in state /\ ch = "NOCHAR"
    IN  IF up \/ key \in Modifiers \/ beyond THEN "NOCHAR"
        ELSE IF "INMETA" \in state THEN "char"
        ELSE ch

is_control_code(key, up) == key \in Modifiers /\ ~up
=============================================================================
