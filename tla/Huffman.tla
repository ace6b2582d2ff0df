-------------------------------- MODULE Huffman -------------------------------
(***************************************************************************)
(* zBoot/inflate.c: huft_build(), which makes the tables a Huffman code is *)
(* decoded with, from the lengths of its codes; the look-up of             *)
(* inflate_codes(); and the code of inflate_fixed().                       *)
(*                                                                         *)
(* A code is the sequence of its bits, first bit first.  A table is named  *)
(* by the bits that lead to it; its entries are indexed by the bits that   *)
(* follow.  A symbol is the index of its length; what huft_build() stores  *)
(* for it, a value or a base with extra bits, is left out.                 *)
(***************************************************************************)
EXTENDS Integers, Sequences, FiniteSets, SequencesExt

CONSTANTS
    BMAX,      \* the longest code: 16
    Codes      \* what is built: <<lengths, look-up bits>>

ASSUME HuffmanAssumption ==
    /\ BMAX \in Nat \ {0}
    /\ \A c \in Codes : Len(c[1]) > 0 /\ c[2] \in Nat \ {0}
    /\ \A c \in Codes : \A i \in DOMAIN c[1] : c[1][i] \in 0 .. BMAX

VARIABLE huft     \* a call of huft_build: what it is given, c[], v[], and the tables so far

Bit       == {0, 1}
NoSymbol  == 0
Unwritten == -1

Unset == [op |-> "unset", bits |-> 0, sym |-> NoSymbol, next |-> <<>>, size |-> 0]

-----------------------------------------------------------------------------
(* c[k], the shortest and the longest code, and the look-up bits between.  *)
Count(b)    == [k \in 1 .. BMAX |-> Cardinality({i \in DOMAIN b : b[i] = k})]
Lengths(b)  == {b[i] : i \in DOMAIN b} \ {0}
Shortest(b) == CHOOSE k \in Lengths(b) : \A j \in Lengths(b) : k <= j
Longest(b)  == CHOOSE k \in Lengths(b) : \A j \in Lengths(b) : j <= k

LookupBits(b, m) ==
    IF m < Shortest(b) THEN Shortest(b) ELSE IF m > Longest(b) THEN Longest(b) ELSE m

(* The patterns of so many bits, from bit first on, that are left by the   *)
(* codes of the lengths from .. below that number.                         *)
Patterns(count, first, from, n) ==
    2 ^ (n - first)
    - FoldLeft(LAMBDA sum, k : sum + count[k] * 2 ^ (n - k), 0,
               [i \in 1 .. n - from |-> from + i - 1])

(* y: the codes of length k that are left when all up to k are taken.      *)
Spare(b, k) == Patterns(Count(b), 0, 1, k) - Count(b)[k]

Oversubscribed(b) == \E k \in Shortest(b) .. Longest(b) : Spare(b, k) < 0

(* What is taken for the values of the codes: the symbols in the order of  *)
(* their lengths; then, for the codes that fill the rest, what v[] has in  *)
(* the places that the symbols without a code left unwritten, since the    *)
(* end of v is told by the number of all symbols; and then none.           *)
Values(b) ==
    LET sorted == FlattenSeq([k \in 1 .. Longest(b) |->
                     SelectSeq([i \in DOMAIN b |-> i], LAMBDA i : b[i] = k)])
    IN  sorted \o [i \in 1 .. Spare(b, Longest(b)) |->
                     IF Len(sorted) + i <= Len(b) THEN Unwritten ELSE NoSymbol]

-----------------------------------------------------------------------------
(* The codes of one length count up, the last bit fastest; the first one   *)
(* that is longer goes on with zeros.                                      *)
Successor(code) ==
    LET z == CHOOSE i \in 0 .. Len(code) :
                /\ i = 0 \/ code[i] = 0
                /\ \A j \in i + 1 .. Len(code) : code[j] = 1
    IN  [i \in DOMAIN code |-> IF i < z THEN code[i] ELSE IF i = z THEN 1 ELSE 0]

Padded(code, k) == [i \in 1 .. k |-> IF i <= Len(code) THEN code[i] ELSE 0]

(* The bits of a new table behind w bits, for a code of length k with rest *)
(* codes of its length to come: as few as its codes fill, or z.            *)
TableBits(count, w, k, rest, l, g) ==
    LET z == IF g - w > l THEN l ELSE g - w
        c == [count EXCEPT ![k] = rest]
    IN  CHOOSE j \in k - w .. k - w + BMAX :
            LET Full(n) == \/ n > k - w /\ n >= z
                           \/ Patterns(c, w, k, w + n) <= c[w + n]
            IN  Full(j) /\ \A n \in k - w .. j - 1 : ~Full(n)

NewTable(j) == [size |-> j, entry |-> [x \in [1 .. j -> Bit] |-> Unset]]

(* The entries of a table behind w bits that a code reaches.               *)
(* Mutant: only the first of them.                                         *)
Reached_First(table, w, code) ==
    {[i \in 1 .. table.size |-> IF w + i <= Len(code) THEN code[w + i] ELSE 0]}

Reached(table, w, code) ==
    {x \in DOMAIN table.entry :
        \A i \in DOMAIN x : w + i <= Len(code) => x[i] = code[w + i]}

(* The table behind w bits of the code, if it is not there, with its link  *)
(* in the table before it.                                                 *)
Grown(tables, w, code, j, l) ==
    LET name   == SubSeq(code, 1, w)
        parent == SubSeq(code, 1, w - l)
        link   == [op |-> "table", bits |-> l, sym |-> NoSymbol, next |-> name, size |-> j]
    IN  IF name \in DOMAIN tables THEN tables
        ELSE [p \in DOMAIN tables \cup {name} |->
                IF p = name THEN NewTable(j)
                ELSE IF w > 0 /\ p = parent
                THEN [tables[p] EXCEPT
                        !.entry[[i \in 1 .. tables[p].size |->
                                    IF w - l + i <= Len(code) THEN code[w - l + i] ELSE 0]] = link]
                ELSE tables[p]]

(* The next value's code: its tables, and its entries in the last one; an  *)
(* entry whose value was not written is whatever the memory of v[] makes   *)
(* of it.                                                                  *)
AddCode(s, k, symbol, rest, count, l, g) ==
    LET code  == Padded(Successor(s.code), k)
        last  == ((k - 1) \div l) * l
        grown == FoldLeft(LAMBDA tables, h :
                              Grown(tables, h * l, code, TableBits(count, h * l, k, rest, l, g), l),
                          s.tables, [i \in 1 .. last \div l + 1 |-> i - 1])
        name  == SubSeq(code, 1, last)
        op    == CASE symbol = NoSymbol -> "invalid" [] symbol = Unwritten -> "unwritten"
                   [] OTHER -> "code"
        r     == [op |-> op, bits |-> k - last, sym |-> symbol, next |-> <<>>, size |-> 0]
        mine  == Reached(grown[name], last, code)
    IN  [s EXCEPT !.code = code, !.done = @ + 1,
                  !.tables = [grown EXCEPT ![name].entry =
                                 [x \in DOMAIN @ |-> IF x \in mine THEN r ELSE @[x]]]]

(* huft_build: it returns 0, or 1 if the code is incomplete, or 2 if there *)
(* is none; and steps that are one turn of its loop over the values.       *)
Status(b) ==
    IF Lengths(b) = {} THEN 0
    ELSE IF Oversubscribed(b) THEN 2
    ELSE IF Spare(b, Longest(b)) # 0 /\ Longest(b) # 1 THEN 1 ELSE 0

InitHuffman ==
    huft = [lengths |-> <<>>, bits |-> 0, count |-> <<>>, values |-> <<>>, code |-> <<>>,
            tables |-> <<>>, done |-> 0]

Building(b) == Lengths(b) # {} /\ Status(b) # 2

huft_build(b, m) ==
    huft' = IF ~Building(b) THEN [huft EXCEPT !.lengths = b]
            ELSE [lengths |-> b, bits |-> LookupBits(b, m),
                  count |-> [Count(b) EXCEPT ![Longest(b)] = @ + Spare(b, Longest(b))],
                  values |-> Values(b), code |-> [i \in 1 .. Shortest(b) |-> 1],
                  tables |-> <<>>, done |-> 0]

NextValue ==
    LET g == Longest(huft.lengths)
        t == huft.done + 1
        Length(i) == IF huft.values[i] \in {NoSymbol, Unwritten} THEN g
                     ELSE huft.lengths[huft.values[i]]
        rest == Cardinality({i \in t .. Len(huft.values) : Length(i) = Length(t)})
    IN  /\ t <= Len(huft.values)
        /\ huft' = AddCode(huft, Length(t), huft.values[t], rest, huft.count, huft.bits, g)

Build ==
    \/ huft.lengths = <<>> /\ \E c \in Codes : huft_build(c[1], c[2])
    \/ NextValue

(* inflate_fixed                                                           *)
FixedLiterals ==
    [i \in 1 .. 288 |-> IF i \in 145 .. 256 THEN 9 ELSE IF i \in 257 .. 280 THEN 7 ELSE 8]
FixedDistances == [i \in 1 .. 30 |-> 5]

(* inflate_codes: from table to table, dropping the bits of each.          *)
RECURSIVE Decode(_, _, _, _, _)
Decode(tables, name, size, dropped, bits) ==
    LET here == tables[name]
        t == here.entry[[i \in 1 .. here.size |-> IF i <= size THEN bits[dropped + i] ELSE 0]]
    IN  IF t.op = "table" THEN Decode(tables, t.next, t.size, dropped + t.bits, bits)
        ELSE [op |-> t.op, sym |-> t.sym, dropped |-> dropped + t.bits]

-----------------------------------------------------------------------------
(* The code as its definition has it: the codes of each length are         *)
(* consecutive, in the order of the symbols, and begin behind the shorter. *)
First(b, k) ==
    FoldLeft(LAMBDA code, j : (code + Count(b)[j]) * 2, 0, [j \in 1 .. k - 1 |-> j])

CodeOf(b, symbol) ==
    LET k == b[symbol]
        n == First(b, k) + Cardinality({i \in 1 .. symbol - 1 : b[i] = k})
    IN  [i \in 1 .. k |-> (n \div 2 ^ (k - i)) % 2]

(* The tables decode every code to its symbol and drop exactly its bits,   *)
(* whatever follows it; and the lengths that make no code, or not a whole  *)
(* one, are told from those that do.  The bits that are no code are found  *)
(* invalid, but not all of them: the first, as many as there are symbols   *)
(* without a code, decode to a value that was never written (inflate.c:264,*)
(* where "out of values--invalid code" is said of what lies behind them).  *)
TablesDecodeTheCode ==
    LET b == huft.lengths
        g == Longest(b)
        status == Status(b)
        taken  == FoldLeft(LAMBDA s, k : s + Count(b)[k] * 2 ^ (g - k), 0, [k \in 1 .. g |-> k])
        code   == [i \in {j \in DOMAIN b : b[j] # 0} |-> CodeOf(b, i)]
        silent == Cardinality({j \in DOMAIN b : b[j] = 0})
        built  == Building(b) /\ huft.done = Len(huft.values)
        Number(bits) == FoldLeft(LAMBDA n, bit : 2 * n + bit, 0, bits)
    IN  Lengths(b) # {} =>
        /\ huft.done = 0 =>
              /\ status = 2 <=> taken > 2 ^ g
              /\ status = 0 <=> taken = 2 ^ g \/ (taken < 2 ^ g /\ g = 1)
        /\ built /\ (status = 0 \/ g <= 2 * huft.bits) =>
              \A bits \in [1 .. g -> Bit] :
                 LET got == Decode(huft.tables, <<>>, huft.bits, 0, bits)
                     sym == {i \in DOMAIN code : SubSeq(bits, 1, b[i]) = code[i]}
                 IN  CASE sym # {} ->
                            got.op = "code" /\ sym = {got.sym} /\ got.dropped = b[got.sym]
                       [] sym = {} /\ Number(bits) < taken + silent -> got.op = "unwritten"
                       [] OTHER -> got.op = "invalid"
=============================================================================
