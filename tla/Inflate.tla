-------------------------------- MODULE Inflate -------------------------------
(***************************************************************************)
(* zBoot/inflate.c: the decompressor that unpacks the kernel.  Its input   *)
(* is any sequence of blocks it can take; what a bit is for, a code or     *)
(* extra bits, is the input's choice, so that bits are only counted.  The  *)
(* tables of a code are module Huffman's.                                  *)
(***************************************************************************)
EXTENDS Integers, Sequences

CONSTANTS
    WSIZE,         \* the window: 32 K, a power of two
    INBUFSIZ,      \* the input buffer: 32 K
    Bytes,
    LengthExtra, DistanceExtra,  \* extra bits behind a length: 0 to 5, a distance: 0 to 13
    DynamicCodes,  \* codes that inflate_dynamic may find
    MaxStored,     \* bound: the bytes of a stored block
    MaxText        \* bound: no block begins, and no symbol, behind so many bytes

(* A symbol is found along a path of tables: of each the bits looked at,   *)
(* and how many of them are the code's.  In tables of l look-up bits, for  *)
(* codes of no more than 2 l, the path of one of n bits is one table, or a *)
(* second one of as many bits as the longest that shares it has behind l.  *)
Paths(n, l, longest) ==
    IF n <= l THEN {<<<<l, n>>>>}
    ELSE {<<<<l, l>>, <<j, n - l>>>> : j \in n - l .. longest - l}

(* A code, as far as bits are counted: the paths there are to each kind of *)
(* symbol; before them, of a dynamic block, the fields it begins with, the *)
(* number of lengths that follow, and the paths in the tables of their own *)
(* code.  This is the code of inflate_fixed.                               *)
Fixed == [fields |-> <<>>, lengths |-> 0, used |-> {},
          literal |-> Paths(8, 7, 9) \cup Paths(9, 7, 9), end |-> Paths(7, 7, 9),
          length |-> Paths(7, 7, 9) \cup Paths(8, 7, 9), distance |-> Paths(5, 5, 5)]

lbits == 9     \* the most bits a table is looked up with

(* Of every table some bits are the code's.                                *)
IsPath(p) ==
    /\ p \in Seq(Nat \X Nat) /\ p # <<>>
    /\ \A i \in DOMAIN p : p[i][1] \in 1 .. lbits /\ p[i][2] \in 1 .. p[i][1]

IsCode(c) ==
    /\ DOMAIN c = DOMAIN Fixed
    /\ c.fields \in Seq(Nat) /\ c.lengths \in Nat
    /\ \A p \in c.used \cup c.literal \cup c.end \cup c.length \cup c.distance : IsPath(p)

ASSUME InflateAssumption ==
    /\ WSIZE \in Nat \ {0} /\ INBUFSIZ \in Nat \ {0} /\ MaxStored \in Nat /\ MaxText \in Nat
    /\ LengthExtra \subseteq Nat /\ DistanceExtra \subseteq Nat
    /\ \A c \in DynamicCodes : IsCode(c)

(* slide, wp and what was flushed; bk and inptr; the bits taken, counted   *)
(* from the beginning of the input buffer, and the text they stand for.    *)
VARIABLE inf

InitInflate ==
    \E i \in 1 .. INBUFSIZ :
        inf = [at |-> "block", code |-> Fixed, left |-> 0, last |-> FALSE,
               slide |-> [x \in 0 .. WSIZE - 1 |-> 0], w |-> 0, out |-> <<>>,
               bk |-> 0, inptr |-> i, used |-> i * 8, text |-> <<>>]

-----------------------------------------------------------------------------
(* get_byte and fill_inbuf, of a file that goes on.                        *)
NextByte(s) ==
    IF s.inptr < INBUFSIZ THEN [s EXCEPT !.inptr = @ + 1, !.bk = @ + 8]
    ELSE [s EXCEPT !.inptr = 1, !.used = @ - 8 * INBUFSIZ, !.bk = @ + 8]

(* For n bits no more than n bytes are read.                               *)
NEEDBITS(s, n) ==
    LET read[i \in 0 .. n] ==
            IF i = 0 THEN s
            ELSE LET before == read[i - 1] IN IF before.bk < n THEN NextByte(before) ELSE before
    IN  read[n]

DUMPBITS(s, n) == [s EXCEPT !.bk = @ - n, !.used = @ + n]

Take(s, n) == DUMPBITS(NEEDBITS(s, n), n)

(* One table after the other.                                              *)
Symbol(s, path) ==
    LET looked[i \in 0 .. Len(path)] ==
            IF i = 0 THEN s ELSE DUMPBITS(NEEDBITS(looked[i - 1], path[i][1]), path[i][2])
    IN  looked[Len(path)]

(* flush_output                                                            *)
Flushed(s) ==
    [s EXCEPT !.out = @ \o [i \in 1 .. s.w |-> s.slide[i - 1]], !.w = 0]

Put(s, byte) ==
    LET t == [s EXCEPT !.slide[s.w] = byte, !.w = @ + 1]
    IN  IF t.w = WSIZE THEN Flushed(t) ELSE t

-----------------------------------------------------------------------------
(* inflate_block: the header, and the beginning of its kind of block.      *)
BlockHeader(last, type) ==
    /\ inf.at = "block" /\ Len(inf.text) < MaxText
    /\ inf' = [Take(Take(inf, 1), 2) EXCEPT !.at = type, !.last = last]

inflate_fixed ==
    /\ inf.at = "fixed"
    /\ inf' = [inf EXCEPT !.at = "codes", !.code = Fixed]

(* Its fields: three numbers, and the lengths of the codes of the lengths. *)
Fields(s, fields) == Symbol(s, [i \in DOMAIN fields |-> <<fields[i], fields[i]>>])

inflate_dynamic(code) ==
    /\ inf.at = "dynamic"
    /\ inf' = [Fields(inf, code.fields)
                  EXCEPT !.at = "lengths", !.code = code, !.left = code.lengths]

(* A code for so many lengths, with so many bits that say how many: one    *)
(* length, the last one again, or zeros.                                   *)
Runs ==
    {<<1, 0>>} \cup {<<j, 2>> : j \in 3 .. 6} \cup {<<j, 3>> : j \in 3 .. 10}
    \cup {<<j, 7>> : j \in 11 .. 138}

LengthCode(path, run) ==
    /\ inf.at = "lengths" /\ run[1] <= inf.left
    /\ inf' = [Take(Symbol(inf, path), run[2])
                  EXCEPT !.left = @ - run[1],
                         !.at = IF inf.left = run[1] THEN "codes" ELSE "lengths"]

Ended(s) == [s EXCEPT !.at = IF s.last THEN "flush" ELSE "block"]

(* inflate_stored: the rest of a byte is dropped, and the length and its   *)
(* complement are read.                                                    *)
Stored(s, bytes) ==
    LET put[i \in 0 .. Len(bytes)] == IF i = 0 THEN s ELSE Take(Put(put[i - 1], bytes[i]), 8)
    IN  put[Len(bytes)]

inflate_stored(bytes) ==
    /\ inf.at = "stored"
    /\ LET aligned == DUMPBITS(inf, inf.bk % 8)
           begun   == Take(Take(aligned, 16), 16)
       IN  inf' = [Ended(Stored(begun, bytes)) EXCEPT !.text = @ \o bytes]

-----------------------------------------------------------------------------
(* inflate_codes                                                           *)
Literal(byte, path) ==
    /\ inf.at = "codes" /\ Len(inf.text) < MaxText
    /\ inf' = [Put(Symbol(inf, path), byte) EXCEPT !.text = Append(@, byte)]

EndOfBlock(path) ==
    /\ inf.at = "codes"
    /\ inf' = Ended(Symbol(inf, path))

(* As much as lies before the window's end, both where it is copied from   *)
(* and where it is copied to.                                              *)
(* Mutant: where it is copied from is not looked at.                       *)
Chunk_ToOnly(n, d, w) == IF WSIZE - w > n THEN n ELSE WSIZE - w

Chunk(n, d, w) ==
    LET e == WSIZE - (IF d > w THEN d ELSE w) IN IF e > n THEN n ELSE e

Outside == -1     \* what is found behind the window

CopyByte(c) ==
    [c EXCEPT !.inf.slide[c.inf.w] = IF c.d < WSIZE THEN c.inf.slide[c.d] ELSE Outside,
              !.inf.w = @ + 1, !.d = @ + 1]

(* One turn of the loop: n more bytes from d on.                           *)
CopyChunk(c) ==
    LET from == c.d % WSIZE
        e    == Chunk(c.n, from, c.inf.w)
        copied[i \in 0 .. e] ==
            IF i = 0 THEN [c EXCEPT !.d = from] ELSE CopyByte(copied[i - 1])
        last == [copied[e] EXCEPT !.n = @ - e]
    IN  IF last.inf.w = WSIZE THEN [last EXCEPT !.inf = Flushed(last.inf)] ELSE last

(* Each turn copies a byte at least.                                       *)
CopyFrom(s, n, d) ==
    LET turn[i \in 0 .. n] ==
            IF i = 0 THEN [inf |-> s, n |-> n, d |-> d]
            ELSE LET before == turn[i - 1] IN IF before.n > 0 THEN CopyChunk(before) ELSE before
    IN  turn[n].inf

Repeated(text, n, distance) ==
    LET longer[i \in 0 .. n] ==
            IF i = 0 THEN text
            ELSE LET t == longer[i - 1] IN Append(t, t[Len(t) + 1 - distance])
    IN  longer[n]

(* The input is compressed data: a distance does not lead behind the       *)
(* beginning of the text.                                                  *)
Copy(n, distance, length, lextra, dcode, dextra) ==
    /\ inf.at = "codes" /\ Len(inf.text) < MaxText
    /\ distance <= Len(inf.text) /\ distance <= WSIZE
    /\ LET s == Take(Symbol(inf, length), lextra)
           t == Take(Symbol(s, dcode), dextra)
       IN  inf' = [CopyFrom(t, n, t.w - distance) EXCEPT !.text = Repeated(@, n, distance)]

(* The block's type, its length or its codes are none: error() halts.      *)
Refuse ==
    /\ inf.at \in {"block", "stored", "dynamic", "lengths", "codes"}
    /\ inf' = [at |-> "error"]

(* inflate, behind the last block: whole bytes that were read ahead are    *)
(* given back.                                                             *)
(* Mutant: they are kept.                                                  *)
Undo_Not(s) == s
Undo(s) == [s EXCEPT !.bk = @ % 8, !.inptr = @ - s.bk \div 8]

Finish ==
    /\ inf.at = "flush"
    /\ inf' = [Flushed(Undo(inf)) EXCEPT !.at = "done"]

InflateStep ==
    /\ inf.at # "error"
    /\ \/ \E last \in BOOLEAN, type \in {"stored", "fixed", "dynamic"} : BlockHeader(last, type)
       \/ inflate_fixed
       \/ \E code \in DynamicCodes : inflate_dynamic(code)
       \/ \E path \in inf.code.used : \E run \in {r \in Runs : r[1] <= inf.left} : LengthCode(path, run)
       \/ \E m \in 0 .. MaxStored : \E bytes \in [1 .. m -> Bytes] : inflate_stored(bytes)
       \/ \E byte \in Bytes, path \in inf.code.literal : Literal(byte, path)
       \/ \E n \in 3 .. WSIZE, distance \in 1 .. WSIZE, length \in inf.code.length,
             lextra \in LengthExtra, dcode \in inf.code.distance, dextra \in DistanceExtra :
                Copy(n, distance, length, lextra, dcode, dextra)
       \/ \E path \in inf.code.end : EndOfBlock(path)
       \/ Refuse
       \/ Finish

-----------------------------------------------------------------------------
(* What was flushed and what is in the window before w is the text, every  *)
(* byte once and in order, though the window was overwritten and copies    *)
(* ran over its end, from either side, or over what they had just copied.  *)
WindowIsTail ==
    inf.at # "error" =>
        /\ inf.out \o [i \in 1 .. inf.w |-> inf.slide[i - 1]] = inf.text
        /\ inf.at = "done" => inf.out = inf.text

(* When the last block is done the next byte that is read is the one       *)
(* behind the last bit of the data, which is the checksum's: what the      *)
(* look-ups had read ahead is given back, and it is still in the buffer.   *)
LookaheadUndone ==
    inf.at = "done" =>
        inf.inptr >= 0 /\ inf.inptr = (inf.used + 7) \div 8
=============================================================================
