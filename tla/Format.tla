-------------------------------- MODULE Format --------------------------------
(***************************************************************************)
(* libxc/doprnt.c: _doprnt(), which kprintf() and sprintf() format with.   *)
(*                                                                         *)
(* A format is the sequence of its characters and conversions, a           *)
(* conversion a record; a character is a number, a digit the one it is     *)
(* the digit of.  INT_NOT_LONG is not defined, so that every number is     *)
(* formatted as a long.  A conversion that _doprnt() does not know prints  *)
(* a buffer that was never written, and is left out.                       *)
(***************************************************************************)
EXTENDS Integers, Sequences, SequencesExt, FiniteSets

CONSTANTS
    WORD,        \* bits of a long: 32
    BILLION,     \* the highest power of ten in a positive long
    MAXSTR,      \* wider fields than this are taken as no width
    Formats,     \* what is formatted: sequences of items
    Arguments    \* with what: longs

(* A long without its sign bit has one digit 1 at least in BILLION's place *)
(* when BILLION has been taken off: what str[0] is corrected for.          *)
ASSUME FormatAssumption ==
    /\ WORD \in Nat /\ BILLION \in Nat /\ MAXSTR \in Nat
    /\ 2 * BILLION <= 2 ^ (WORD - 1) /\ 2 ^ WORD <= 10 * BILLION

BLANK == 16
MINUS == 17
Zero  == 0
SEPARATOR == 18

(* An item: a character to echo, or a conversion with its letter, its      *)
(* flags, its width and its maximum; "star": the width is an argument.     *)
Echo(c) == [f |-> "echo", char |-> c]
Conversion(f, flags, fmin, fmax) == [f |-> f, flags |-> flags, fmin |-> fmin, fmax |-> fmax]

Base(f) == CASE f \in {"d", "u"} -> 10 [] f = "o" -> 8 [] f = "x" -> 16 [] f = "b" -> 2

Wrapped(n)  == ((n + 2 ^ (WORD - 1)) % 2 ^ WORD) - 2 ^ (WORD - 1)
Unsigned(n) == n % 2 ^ WORD

VARIABLE printed   \* the last call: its format, its arguments and its output

-----------------------------------------------------------------------------
(* _prtl10, _prtl8, _prtl16, _prtl2: the digits, the first one not 0.  The *)
(* shifts of the last three, with what they mask, take the bits of num.    *)
Digit(num, base, i) == (num \div base ^ (i - 1)) % base

MostDigits(base) == CHOOSE n \in 1 .. WORD : base ^ n >= 2 ^ WORD /\ base ^ (n - 1) < 2 ^ WORD

Places(num, base) ==
    CHOOSE n \in 1 .. MostDigits(base) :
        /\ n = 1 \/ Digit(num, base, n) # 0
        /\ \A i \in n + 1 .. MostDigits(base) : Digit(num, base, i) = 0

prtl(num, base) ==
    LET n == Places(num, base) IN [i \in 1 .. n |-> Digit(num, base, n + 1 - i)]

(* A negative long: how often BILLION comes off until it wraps around to a *)
(* positive one.                                                           *)
digit1(num) ==
    CHOOSE k \in 0 .. 9 :
        /\ Wrapped(num - k * BILLION) >= 0
        /\ \A j \in 0 .. k - 1 : Wrapped(num - j * BILLION) < 0

(* Mutant: it is not added again.                                          *)
decimal_NoDigit1(num) == prtl(Wrapped(num - digit1(num) * BILLION), 10)

decimal(num) ==
    [prtl(Wrapped(num - digit1(num) * BILLION), 10) EXCEPT ![1] = @ + digit1(num)]

Negative(f, arg) == f = "d" /\ arg < 0

String(f, arg) ==
    CASE f = "d" -> decimal(IF arg < 0 THEN Wrapped(-arg) ELSE arg)
      [] f = "u" -> decimal(arg)
      [] f \in {"o", "x", "b"} -> prtl(Unsigned(arg), Base(f))
      [] f = "c" -> <<SEPARATOR + 1>>
      [] f = "s" -> [i \in 1 .. Unsigned(arg) % 8 |-> SEPARATOR + 1]

(* The field: the sign goes before a fill of zeros and behind one of       *)
(* blanks.                                                                 *)
InRange(n) == IF n \in 0 .. MAXSTR THEN n ELSE 0

Fill(n, c) == [i \in 1 .. n |-> c]

Field(item, fmin, arg) ==
    LET f      == item.f
        str    == String(f, arg)
        sign   == IF Negative(f, arg) THEN <<MINUS>> ELSE <<>>
        fill   == IF "zero" \in item.flags /\ f \notin {"c", "s"} THEN Zero ELSE BLANK
        left   == "left" \in item.flags
        max    == IF f = "s" THEN InRange(item.fmax) ELSE 0
        length == IF max # 0 /\ Len(str) > max THEN max ELSE Len(str)
        lead   == IF InRange(fmin) = 0 THEN 0 ELSE InRange(fmin) - length - Len(sign)
    IN     (IF fill = Zero THEN sign ELSE <<>>)
        \o (IF left THEN <<>> ELSE Fill(lead, fill))
        \o (IF fill = BLANK THEN sign ELSE <<>>)
        \o SubSeq(str, 1, length)
        \o (IF left THEN Fill(lead, fill) ELSE <<>>)

(* What a conversion takes of the arguments: its width, if it is given as  *)
(* one, and its value.                                                     *)
Taken(item, args) ==
    LET left == IF "star" \in item.flags THEN Tail(args) ELSE args
    IN  [width |-> IF "star" \in item.flags THEN args[1] ELSE item.fmin,
         value |-> left[1], rest |-> Tail(left)]

Item(s, item) ==
    IF item.f = "echo" THEN [s EXCEPT !.out = Append(@, item.char)]
    ELSE LET t == Taken(item, s.args)
         IN  [out |-> s.out \o Field(item, t.width, t.value), args |-> t.rest]

doprnt(fmt, args) == FoldLeft(Item, [out |-> <<>>, args |-> args], fmt).out

InitFormat == printed = [fmt |-> <<>>, args |-> <<>>, out |-> <<>>]

(* One call: none leaves anything to the next.                             *)
Printf ==
    /\ printed.fmt = <<>>
    /\ \E fmt \in Formats : \E args \in Arguments \X Arguments :
          printed' = [fmt |-> fmt, args |-> args, out |-> doprnt(fmt, args)]

-----------------------------------------------------------------------------
(* What was printed between the characters that were echoed.               *)
Pieces(out) ==
    LET cut == {i \in DOMAIN out : out[i] = SEPARATOR}
        At(n) == CHOOSE i \in cut \cup {0, Len(out) + 1} :
                    Cardinality({j \in cut \cup {0} : j < i}) = n
    IN  [n \in 1 .. Cardinality(cut) + 1 |-> SubSeq(out, At(n - 1) + 1, At(n) - 1)]

Conversions(fmt) == SelectSeq(fmt, LAMBDA item : item.f # "echo")

Value(piece, base) ==
    FoldLeft(LAMBDA v, c : IF c < BLANK THEN v * base + c ELSE v, 0, piece)

(* The arguments in the order of the conversions, and each one's width.    *)
ArgumentOf(fmt, args, n) ==
    args[n + Cardinality({m \in 1 .. n : "star" \in Conversions(fmt)[m].flags})]
WidthOf(fmt, args, n) ==
    IF "star" \in Conversions(fmt)[n].flags THEN InRange(args[n]) ELSE Conversions(fmt)[n].fmin

(* Every number is printed as what it is, with its sign before it and      *)
(* nothing but blanks before that, in a field of the width asked for and   *)
(* no wider than the number needs: at the ends of the range of a long too, *)
(* where a negative long has no positive one and an unsigned one no sign.  *)
(* ("%-0" fills with zeros behind the number, and is not a number.)        *)
PrintsItsArguments ==
    \A n \in DOMAIN Conversions(printed.fmt) :
        Conversions(printed.fmt)[n].f \notin {"c", "s"} =>
        LET item  == Conversions(printed.fmt)[n]
            arg   == ArgumentOf(printed.fmt, printed.args, n)
            width == WidthOf(printed.fmt, printed.args, n)
            piece == Pieces(printed.out)[n]
            base  == Base(item.f)
            size  == IF item.f = "d" THEN (IF arg < 0 THEN -arg ELSE arg) ELSE Unsigned(arg)
            need  == (CHOOSE k \in 1 .. WORD : size < base ^ k /\ (k = 1 \/ size >= base ^ (k - 1)))
                     + (IF Negative(item.f, arg) THEN 1 ELSE 0)
            signs == {i \in DOMAIN piece : piece[i] = MINUS}
        IN  /\ Value(piece, base) = size
            /\ Len(piece) = IF need < width THEN width ELSE need
            /\ IF Negative(item.f, arg) THEN Cardinality(signs) = 1 ELSE signs = {}
            /\ \A i \in signs : \A j \in 1 .. i - 1 : piece[j] = BLANK
            /\ "left" \in item.flags => piece[1] # BLANK
=============================================================================
