-------------------------------- MODULE Console -------------------------------
(***************************************************************************)
(* kprintf.c: kbmputc(), which writes the characters of kprintf() into the *)
(* memory of the screen.  A position is the index of a character cell;     *)
(* the colours are left out.                                               *)
(***************************************************************************)
EXTENDS Integers

CONSTANTS
    ROW, COL,    \* the screen: 25 by 80
    TAB,         \* distance of the tab stops: 8
    Printed,     \* what is printed
    Cursors,     \* where the BIOS may have left the cursor
    MaxPaper     \* bound: nothing is printed so many cells below the start

CELLS == ROW * COL

(* The tab stops are those of the address of the cell: they stay in place  *)
(* when the screen scrolls because a row is a multiple of them.            *)
ASSUME ConsoleAssumption ==
    /\ ROW \in Nat \ {0} /\ COL \in Nat \ {0} /\ TAB \in Nat \ {0} /\ COL % TAB = 0
    /\ Cursors \subseteq 0 .. CELLS /\ MaxPaper \in Nat

(* The screen, the position, and a roll of paper on which the same is      *)
(* printed without end; top is the cell of the roll that is the first one  *)
(* of the screen.                                                          *)
VARIABLE con

Blank == " "

(* The first call finds the cursor and clears the screen behind it.  What  *)
(* the boot left before the cursor counts as blank.                        *)
InitConsole ==
    \E cursorat \in Cursors :
        con = [screen |-> [i \in 0 .. CELLS - 1 |-> Blank], crtat |-> cursorat,
               paper |-> [i \in 0 .. MaxPaper |-> Blank], head |-> cursorat, top |-> 0]

(* A screen that is full moves up by one row.                              *)
(* Mutant: the last row is not cleared.                                    *)
Scrolled_KeepsLast(s) ==
    IF s.crtat < CELLS THEN s
    ELSE [screen |-> [i \in DOMAIN s.screen |->
                         IF i < CELLS - COL THEN s.screen[i + COL] ELSE s.screen[i]],
          crtat  |-> s.crtat - COL]

Scrolled(s) ==
    IF s.crtat < CELLS THEN s
    ELSE [screen |-> [i \in DOMAIN s.screen |->
                         IF i < CELLS - COL THEN s.screen[i + COL] ELSE Blank],
          crtat  |-> s.crtat - COL]

(* kbmputc; a character beyond the screen is written past its memory.      *)
Shown(s, c) ==
    [screen |-> [i \in DOMAIN s.screen |-> IF i = s.crtat THEN c ELSE s.screen[i]],
     crtat  |-> s.crtat + 1]

RowStart(pos) == pos - (pos % COL)

(* A tab is blanks up to a tab stop, of which the TAB-th is the last.      *)
AtStop(s) == s.crtat % TAB = 0

Tabbed(s) ==
    LET after[n \in 0 .. TAB] == IF n = 0 THEN s ELSE Scrolled(Shown(after[n - 1], Blank))
        stops == {n \in 1 .. TAB : AtStop(after[n])}
    IN  after[CHOOSE n \in stops : \A m \in stops : n <= m]

kbmputc(s, c) ==
    CASE c = "tab"       -> Scrolled(Tabbed(s))
      [] c = "backspace" -> Scrolled([s EXCEPT !.crtat = @ - 1])
      [] c = "newline"   -> Scrolled([s EXCEPT !.crtat = RowStart(@ + COL)])
      [] c = "return"    -> Scrolled([s EXCEPT !.crtat = RowStart(@)])
      [] OTHER           -> Scrolled(Shown(s, c))

-----------------------------------------------------------------------------
(* The same on paper.                                                      *)
NextStop(head) == head + TAB - (head % TAB)

OnPaper(c) ==
    CASE c = "tab"       -> [i \in DOMAIN con.paper |->
                                IF i >= con.head /\ i < NextStop(con.head) THEN Blank
                                ELSE con.paper[i]]
      [] c \in {"backspace", "newline", "return"} -> con.paper
      [] OTHER           -> [con.paper EXCEPT ![con.head] = c]

HeadAfter(c) ==
    CASE c = "tab"       -> NextStop(con.head)
      [] c = "backspace" -> con.head - 1
      [] c = "newline"   -> RowStart(con.head + COL)
      [] c = "return"    -> RowStart(con.head)
      [] OTHER           -> con.head + 1

PrintChar(c) ==
    /\ con.head < MaxPaper
    /\ c = "backspace" => con.crtat > 0      \* bound: not off the screen's top
    /\ \E s \in {kbmputc([screen |-> con.screen, crtat |-> con.crtat], c)} :
          con' = [screen |-> s.screen, crtat |-> s.crtat, paper |-> OnPaper(c),
                  head |-> HeadAfter(c),
                  top |-> IF HeadAfter(c) >= con.top + CELLS THEN con.top + COL ELSE con.top]

PrintSome == \E c \in Printed : PrintChar(c)

-----------------------------------------------------------------------------
(* The screen shows the last rows of what was printed, and the cursor is   *)
(* on the screen, where the next character goes, if it was when the kernel *)
(* started: rows scroll away in time, and no character is lost with them.  *)
ShowsWhatWasPrinted ==
    /\ con.crtat = con.head - con.top /\ con.crtat \in 0 .. CELLS - 1
    /\ \A i \in 0 .. CELLS - 1 :
          con.top + i \in DOMAIN con.paper => con.screen[i] = con.paper[con.top + i]
=============================================================================
