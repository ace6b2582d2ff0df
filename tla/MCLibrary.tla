------------------------------- MODULE MCLibrary ------------------------------
(* The routines under the kernel that share no state: each run of the      *)
(* model is one of them at work, chosen at the start.                      *)
EXTENDS Memory, Console, Format, Huffman, Inflate

VARIABLE part     \* the routine at work

vars == <<part, mem, con, printed, huft, inf>>

Parts == {"memory", "screen", "format", "codes", "inflate"}

(* Around the ends of a paragraph, and so that several fill the 96 bytes   *)
(* below the hole exactly, or almost.                                      *)
MCRequests == {1, 15, 16, 17, 36, 48}

MCPrinted == {"x", "tab", "newline", "return", "backspace"}

(* Boundaries of a long of 12 bits, whose highest power of ten is 1000.    *)
MCArguments ==
    {-2048, -2047, -1001, -1000, -999, -10, -1, 0, 1, 7, 8, 9, 10, 255, 999, 1000, 1999,
     2000, 2047}

Numbers == {"d", "u", "o", "x", "b"}
One ==
    {<<Conversion(f, flags, fmin, 0)>> :
        f \in Numbers, flags \in {{}, {"left"}, {"zero"}}, fmin \in {0, 3, 5, 14}}
Star == {<<Conversion(f, {"star"}, 0, 0)>> : f \in {"d", "x"}}
Two ==
    {<<Conversion(f, {}, 3, 0), Echo(SEPARATOR), Conversion(g, {"zero"}, 6, 0)>> :
        f \in {"d", "s"}, g \in {"d", "u"}}
MCFormats == One \cup Star \cup Two

(* Lengths that leave few codes over, none, or less than none: of four     *)
(* symbols up to four, with tables of one level and of two, and of six up  *)
(* to five, with tables of three; and inflate_fixed's two.                 *)
MCCodes ==
    {<<b, m>> : b \in {l \in [1 .. 4 -> 0 .. 4] :
                          Lengths(l) = {} \/ Spare(l, Longest(l)) <= 12},
                m \in {2, 4}}
    \cup {<<b, 2>> : b \in {l \in [1 .. 6 -> 1 .. 5] :
                              /\ \A i \in 1 .. 5 : l[i] <= l[i + 1]
                              /\ Spare(l, Longest(l)) \in 0 .. 4}}
    \cup {<<FixedLiterals, 7>>, <<FixedDistances, 5>>}

MCDynamicCodes ==
    {[fields |-> <<5, 5, 4, 3, 3, 3, 3>>, lengths |-> 12, used |-> Paths(1, 3, 3) \cup Paths(3, 3, 3),
      literal |-> Paths(2, 9, 12) \cup Paths(11, 9, 12), end |-> Paths(1, 9, 12),
      length |-> Paths(3, 9, 12),
      distance |-> Paths(2, 6, 8) \cup Paths(8, 6, 8)]}

MCInit ==
    /\ part \in Parts
    /\ InitMemory /\ InitConsole /\ InitFormat /\ InitHuffman /\ InitInflate
    /\ part # "screen" => con.crtat = 0
    /\ part # "inflate" => inf.inptr = 1

MCNext ==
    \/ part = "memory" /\ Allocate /\ UNCHANGED <<part, con, printed, huft, inf>>
    \/ part = "screen" /\ PrintSome /\ UNCHANGED <<part, mem, printed, huft, inf>>
    \/ part = "format" /\ Printf /\ UNCHANGED <<part, mem, con, huft, inf>>
    \/ part = "codes" /\ Build /\ UNCHANGED <<part, mem, con, printed, inf>>
    \/ part = "inflate" /\ InflateStep /\ UNCHANGED <<part, mem, con, printed, huft>>

MCSpec == MCInit /\ [][MCNext]_vars
===============================================================================
