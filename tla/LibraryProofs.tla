------------------------------ MODULE LibraryProofs ----------------------------
(***************************************************************************)
(* The memory allocator, the screen and the decompressor, each alone:      *)
(* what they promise holds for every size of the memory, the screen and    *)
(* the window, whatever is asked for, printed or unpacked.                 *)
(***************************************************************************)
EXTENDS Memory, Console, Inflate, TLAPS, WellFoundedInduction

SpecMemory == InitMemory /\ [][Allocate]_mem

SpecConsole == InitConsole /\ [][PrintSome]_con

SpecInflate == InitInflate /\ [][InflateStep]_inf

(* A set of numbers that is not empty has a least one.                     *)
LEMMA Least ==
  ASSUME NEW T, T \subseteq Nat, T # {} PROVE \E t \in T : \A s \in T : t <= s
<1> DEFINE R == OpToRel(<, Nat)
<1>1. IsWellFoundedOn(R, Nat)
  BY NatLessThanWellFounded
<1>2. PICK t \in T : \A s \in T : ~(<<s, t>> \in R)
  <2> HIDE DEF R
  <2> QED BY <1>1, WFMin
<1>3. \A s \in T : ~(s < t)
  <2> TAKE s \in T
  <2>1. ~(<<s, t>> \in R)
    BY <1>2
  <2> QED BY <2>1 DEF OpToRel
<1> QED BY <1>3

(* Induction: a set that has 0, and n if it has n - 1, has all numbers.    *)
LEMMA UpTo ==
  ASSUME NEW m \in Nat, NEW T, 0 \in T, \A n \in 1 .. m : n - 1 \in T => n \in T
  PROVE  \A n \in 0 .. m : n \in T
<1> DEFINE Bad == {n \in 0 .. m : n \notin T}
<1>1. SUFFICES ASSUME Bad # {} PROVE FALSE
  OBVIOUS
<1>2. PICK n \in Bad : \A i \in Bad : n <= i
  <2>1. Bad \subseteq Nat
    OBVIOUS
  <2> HIDE DEF Bad
  <2> QED BY <1>1, <2>1, Least
<1>3. n # 0 /\ n \in 1 .. m
  BY <1>2
<1>4. n - 1 \in 0 .. m /\ n - 1 \notin Bad
  BY <1>2, <1>3
<1> QED BY <1>2, <1>3, <1>4

-----------------------------------------------------------------------------
(* Remainders.                                                             *)
LEMMA Remainder ==
  ASSUME NEW c \in Nat \ {0}, NEW x \in Int
  PROVE  x % c \in 0 .. c - 1 /\ x \div c \in Int /\ x = c * (x \div c) + (x % c)
OBVIOUS

LEMMA RemainderIs ==
  ASSUME NEW c \in Nat \ {0}, NEW q \in Int, NEW r \in 0 .. c - 1
  PROVE  (c * q + r) % c = r
OBVIOUS

LEMMA RemainderPlus ==
  ASSUME NEW c \in Nat \ {0}, NEW a \in Int, NEW x \in Int, a % c = 0
  PROVE  (a + x) % c = x % c
<1> DEFINE p == a \div c
           q == x \div c
           r == x % c
<1>1. a = c * p /\ x = c * q + r /\ p \in Int /\ q \in Int /\ r \in 0 .. c - 1
  <2>1. a = c * p + (a % c)
    BY Remainder
  <2> QED BY <2>1, Remainder
<1> HIDE DEF p, q, r
<1>2. a + x = c * (p + q) + r
  BY <1>1
<1>3. (c * (p + q) + r) % c = r
  BY <1>1, RemainderIs
<1> QED BY <1>2, <1>3 DEF r

LEMMA RemainderOff ==
  ASSUME NEW c \in Nat \ {0}, NEW x \in Int
  PROVE  (x - (x % c)) % c = 0
<1> DEFINE q == x \div c
           r == x % c
<1>1. x = c * q + r /\ q \in Int /\ r \in 0 .. c - 1
  BY Remainder
<1> HIDE DEF q, r
<1>2. x - r = c * q + 0
  BY <1>1
<1>3. (c * q + 0) % c = 0
  BY <1>1, RemainderIs
<1> QED BY <1>2, <1>3 DEF r

LEMMA RemainderSmall ==
  ASSUME NEW c \in Nat \ {0}, NEW x \in 0 .. c - 1 PROVE x % c = x
BY RemainderIs

(* Before the next multiple there is none.                                 *)
LEMMA RemainderNext ==
  ASSUME NEW c \in Nat \ {0}, NEW x \in Nat
  PROVE  /\ (x + (c - (x % c))) % c = 0
         /\ \A m \in 1 .. c - (x % c) - 1 : (x + m) % c # 0
<1> DEFINE r == x % c
           a == x - r
<1>1. r \in 0 .. c - 1 /\ a % c = 0
  <2>1. x \in Int
    OBVIOUS
  <2>2. a % c = 0
    BY <2>1, RemainderOff, Zenon
  <2>3. r \in 0 .. c - 1
    BY <2>1, Remainder, Zenon
  <2> QED BY <2>2, <2>3
<1>2. a = x - r
  OBVIOUS
<1> HIDE DEF r, a
<1>3. a \in Int
  BY <1>1, <1>2
<1>4. (a + c) % c = 0
  <2>1. c * 1 + 0 = c
    OBVIOUS
  <2>2. (c * 1 + 0) % c = 0
    BY RemainderIs
  <2>3. c % c = 0
    BY <2>1, <2>2
  <2>4. c \in Int
    OBVIOUS
  <2> QED BY <1>1, <1>3, <2>3, <2>4, RemainderPlus, Zenon
<1>5. a + c = x + (c - r)
  BY <1>1, <1>2
<1>6. ASSUME NEW m \in 1 .. c - r - 1 PROVE (x + m) % c # 0
  <2> DEFINE n == r + m
  <2>1. n \in 0 .. c - 1 /\ n # 0 /\ a + n = x + m
    BY <1>1, <1>2
  <2> HIDE DEF n
  <2>2. n \in Int
    BY <2>1
  <2>3. (a + n) % c = n % c
    BY <1>1, <1>3, <2>2, RemainderPlus, Zenon
  <2>4. n % c = n
    BY <2>1, RemainderSmall, Zenon
  <2> QED BY <2>1, <2>3, <2>4
<1> QED BY <1>4, <1>5, <1>6 DEF r

-----------------------------------------------------------------------------
(***************************************************************************)
(* kmalloc() hands out blocks that do not overlap, for every size of the   *)
(* memory, every place of the hole and every sequence of requests, until   *)
(* more has been handed out than there is below the hole.                  *)
(*                                                                         *)
(* The header of what is left of a block says that all of it is left, so   *)
(* the list of free blocks does not say how much there is.  What does is   *)
(* the sum of what was handed out: up to the size of the block below the   *)
(* hole every request is met from it, one behind the other (FromBelow).    *)
(***************************************************************************)

(* The sums of the sizes, as a function of their own.                      *)
Sums(u, m, g) == g = [n \in 0 .. m |-> IF n = 0 THEN 0 ELSE g[n - 1] + u[n].size]

(* They exist for every number of blocks: the least that had none would be *)
(* one more than one that does.                                            *)
LEMMA SumsOfBlocks ==
  ASSUME NEW u, NEW m \in Nat PROVE \E g : Sums(u, m, g)
<1> DEFINE Bad == {n \in Nat : ~ \E g : Sums(u, n, g)}
<1>1. SUFFICES Bad = {}
  OBVIOUS
<1>2. SUFFICES ASSUME Bad # {} PROVE FALSE
  OBVIOUS
<1>3. PICK n \in Bad : \A i \in Bad : n <= i
  <2>1. Bad \subseteq Nat
    OBVIOUS
  <2> HIDE DEF Bad
  <2> QED BY <1>2, <2>1, Least
<1>4. n # 0
  <2>1. Sums(u, 0, [i \in 0 .. 0 |-> 0])
    BY DEF Sums
  <2> QED BY <2>1
<1>5. n \in Nat /\ n - 1 \in Nat /\ n - 1 \notin Bad
  BY <1>3, <1>4
<1>6. PICK g : Sums(u, n - 1, g)
  BY <1>5
<1> DEFINE h == [i \in 0 .. n |-> IF i = 0 THEN 0 ELSE g[i - 1] + u[i].size]
<1>7. \A i \in 0 .. n - 1 : h[i] = g[i]
  BY <1>5, <1>6 DEF Sums
<1>8. Sums(u, n, h)
  <2>1. \A i \in 0 .. n : i # 0 => i - 1 \in 0 .. n - 1
    BY <1>5
  <2>2. \A i \in 0 .. n : i # 0 => h[i - 1] = g[i - 1]
    BY <1>7, <2>1
  <2> QED BY <2>2 DEF Sums
<1> QED BY <1>3, <1>8

(* Given is their sum, before a step and after it.                         *)
LEMMA GivenSums == Sums(mem.used, MaxBlocks, Given) /\ Sums(mem'.used, MaxBlocks, Given')
<1>1. MaxBlocks \in Nat
  BY MemoryAssumption
<1>2. \E g : Sums(mem.used, MaxBlocks, g)
  BY <1>1, SumsOfBlocks
<1>3. \E g : Sums(mem'.used, MaxBlocks, g)
  BY <1>1, SumsOfBlocks
<1>4. Sums(mem.used, MaxBlocks, Given)
  BY <1>2 DEF Given, Sums
<1>5. Sums(mem'.used, MaxBlocks, Given')
  BY <1>3 DEF Given, Sums
<1> QED BY <1>4, <1>5

(* What the sums are, one by one.                                          *)
LEMMA SumsAre ==
  ASSUME NEW u, NEW m \in Nat, NEW g, Sums(u, m, g)
  PROVE  g[0] = 0 /\ \A n \in 1 .. m : g[n] = g[n - 1] + u[n].size
<1>1. g = [n \in 0 .. m |-> IF n = 0 THEN 0 ELSE g[n - 1] + u[n].size]
  BY DEF Sums
<1>2. \A n \in 1 .. m : n \in 0 .. m /\ n # 0
  OBVIOUS
<1> QED BY <1>1, <1>2

Agree(u, v, n) == \A i \in 1 .. n : u[i] = v[i]

(* Two sequences of blocks have the same sums as far as they agree.        *)
LEMMA SumsAgree ==
  ASSUME NEW u, NEW v, NEW m \in Nat, NEW g, NEW h, Sums(u, m, g), Sums(v, m, h),
         NEW n \in 0 .. m, Agree(u, v, n)
  PROVE  g[n] = h[n]
<1> DEFINE Bad == {i \in 0 .. n : g[i] # h[i]}
<1>1. SUFFICES ASSUME Bad # {} PROVE FALSE
  OBVIOUS
<1>2. PICK i \in Bad : \A j \in Bad : i <= j
  <2>1. Bad \subseteq Nat
    OBVIOUS
  <2> HIDE DEF Bad
  <2> QED BY <1>1, <2>1, Least
<1>3. i # 0 /\ i \in 1 .. n /\ i \in 1 .. m
  <2>1. i # 0
    BY <1>2, SumsAre
  <2> QED BY <1>2, <2>1
<1>4. i - 1 \in 0 .. n /\ i - 1 \notin Bad
  BY <1>2, <1>3
<1>5. g[i - 1] = h[i - 1] /\ u[i] = v[i]
  BY <1>3, <1>4 DEF Agree
<1>6. g[i] = g[i - 1] + u[i].size /\ h[i] = h[i - 1] + v[i].size
  BY <1>3, SumsAre
<1> QED BY <1>2, <1>5, <1>6

-----------------------------------------------------------------------------
Blocks == [addr : Nat, size : Nat]

Start == Paragraph(FREEMEM + PARAGRAPH)
Size  == HOLESTART - Start
Above == Block(HOLEEND, MEMEND - HOLEEND)

(* Up to the size of the block below the hole, the blocks handed out lie   *)
(* there one behind the other, and what is behind the last is free, or, if *)
(* that is too little for a header, nobody's.                              *)
Behind(m, total) ==
  /\ \A i \in 1 .. Len(m.used) : m.used[i].addr >= Start /\ End(m.used[i]) <= Start + total
  /\ \A i, j \in 1 .. Len(m.used) : i < j => End(m.used[i]) <= m.used[j].addr
  /\ \/ m.free = <<Block(Start + total, Size), Above>>
     \/ m.free = <<Above>> /\ total > Size - HEADER

FromBelow(m, total) ==
  /\ m.free \in Seq(Blocks) /\ m.used \in Seq(Blocks) /\ Len(m.used) <= MaxBlocks
  /\ total \in Nat
  /\ total <= Size => Behind(m, total)

MemoryInv == FromBelow(mem, Given[Len(mem.used)])

(* Where the two blocks are that kmeminit() makes.                         *)
LEMMA Places ==
  /\ FREEMEM \in Nat /\ HOLESTART \in Nat /\ HOLEEND \in Nat /\ MEMEND \in Nat
  /\ Start \in Nat /\ Size \in Nat /\ Start + Size = HOLESTART
  /\ HOLESTART <= HOLEEND /\ HOLEEND <= MEMEND
  /\ Above = [addr |-> HOLEEND, size |-> MEMEND - HOLEEND] /\ Above \in Blocks
  /\ kmeminit = <<Block(Start, Size), Above>>
<1>1. Start \in Nat /\ Start <= HOLESTART
  BY MemoryAssumption DEF Start, Paragraph, PARAGRAPH
<1>2. Above = [addr |-> HOLEEND, size |-> MEMEND - HOLEEND]
  BY DEF Above, Block
<1>3. Above \in Blocks
  BY <1>2, MemoryAssumption DEF Blocks
<1>4. kmeminit = <<Block(Start, Size), Above>>
  BY DEF kmeminit, Above, Size, Start
<1>5. Size \in Nat /\ Start + Size = HOLESTART
  BY <1>1, MemoryAssumption DEF Size
<1> QED BY <1>1, <1>2, <1>3, <1>4, <1>5, MemoryAssumption

(* A request is rounded up, to a paragraph at least.                       *)
LEMMA RoundedIs ==
  ASSUME NEW size \in Nat \ {0} PROVE Rounded(size) \in Nat /\ Rounded(size) >= PARAGRAPH
BY DEF Rounded, Paragraph, PARAGRAPH

(* The search of kmalloc() finds the first block that is large enough.     *)
LEMMA FirstFitIs ==
  ASSUME NEW free \in Seq(Blocks), NEW size \in Nat, NEW i, i = FirstFit(free, size)
  PROVE  /\ i \in 1 .. Len(free) + 1
         /\ \A j \in 1 .. i - 1 : free[j].size < size
         /\ i > Len(free) \/ free[i].size >= size
<1> DEFINE Fits == {j \in 1 .. Len(free) + 1 : j > Len(free) \/ free[j].size >= size}
<1>1. Fits # {} /\ Fits \subseteq Nat
  <2>1. Len(free) + 1 \in Fits
    OBVIOUS
  <2> QED BY <2>1
<1>2. PICK k \in Fits : \A j \in Fits : k <= j
  <2> HIDE DEF Fits
  <2> QED BY <1>1, Least
<1>3. \A j \in 1 .. k - 1 : free[j].size < size
  <2> TAKE j \in 1 .. k - 1
  <2>1. j \in 1 .. Len(free) /\ j \notin Fits
    BY <1>2
  <2>2. free[j] \in Blocks
    BY <2>1
  <2>3. free[j].size \in Nat
    BY <2>2 DEF Blocks
  <2> QED BY <2>1, <2>3
<1>4. k \in 1 .. Len(free) + 1 /\ (k > Len(free) \/ free[k].size >= size)
  BY <1>2
<1>5. \E x \in 1 .. Len(free) + 1 :
        /\ \A j \in 1 .. x - 1 : free[j].size < size
        /\ x > Len(free) \/ free[x].size >= size
  BY <1>3, <1>4
<1> QED BY <1>5 DEF FirstFit

-----------------------------------------------------------------------------
(* What kmalloc() leaves of the list.                                      *)
Left(free, i, need) ==
  IF free[i].size - need < HEADER THEN Unlink(free, i) ELSE Split(free, i, need)

(* It is a list of blocks again.                                           *)
LEMMA LeftIs ==
  ASSUME NEW free \in Seq(Blocks), NEW i \in 1 .. Len(free), NEW need \in Nat
  PROVE  Left(free, i, need) \in Seq(Blocks)
<1>1. free[i] \in Blocks
  OBVIOUS
<1>2. Unlink(free, i) \in Seq(Blocks)
  <2>1. SubSeq(free, 1, i - 1) \in Seq(Blocks) /\ SubSeq(free, i + 1, Len(free)) \in Seq(Blocks)
    OBVIOUS
  <2> QED BY <2>1 DEF Unlink
<1>3. Split(free, i, need) \in Seq(Blocks)
  <2> DEFINE b == [free[i] EXCEPT !.addr = @ + need]
  <2>1. b \in Blocks
    BY <1>1 DEF Blocks
  <2>2. Split(free, i, need) = [free EXCEPT ![i] = b]
    BY DEF Split
  <2> HIDE DEF b
  <2> QED BY <2>1, <2>2
<1> QED BY <1>2, <1>3 DEF Left

(* The first of two is taken off the list.                                 *)
LEMMA UnlinkFirst == ASSUME NEW a, NEW b PROVE Unlink(<<a, b>>, 1) = <<b>>
<1>1. SubSeq(<<a, b>>, 1, 0) = <<>>
  OBVIOUS
<1>2. SubSeq(<<a, b>>, 2, 2) = <<b>>
  <2> DEFINE t == SubSeq(<<a, b>>, 2, 2)
  <2>1. <<a, b>> \in Seq({a, b}) /\ Len(<<a, b>>) = 2 /\ <<a, b>>[2] = b
    OBVIOUS
  <2>2. t \in Seq({a, b}) /\ Len(t) = 1 /\ t[1] = b
    BY <2>1
  <2> HIDE DEF t
  <2>3. t = <<b>>
    BY <2>2
  <2> QED BY <2>3 DEF t
<1>3. <<>> \o <<b>> = <<b>>
  OBVIOUS
<1>4. 1 - 1 = 0 /\ 1 + 1 = 2 /\ Len(<<a, b>>) = 2
  OBVIOUS
<1>5. Unlink(<<a, b>>, 1) = SubSeq(<<a, b>>, 1, 0) \o SubSeq(<<a, b>>, 2, 2)
  BY <1>4 DEF Unlink
<1> QED BY <1>1, <1>2, <1>3, <1>5

(* The places of a block are addresses.                                    *)
LEMMA BlockFields ==
  ASSUME NEW b \in Blocks PROVE b.addr \in Nat /\ b.size \in Nat /\ End(b) \in Nat
BY DEF Blocks, End

(* One block more, while no more is handed out than there is below.        *)
LEMMA BehindIt ==
  ASSUME NEW m, NEW total \in Nat, m.free \in Seq(Blocks), m.used \in Seq(Blocks),
         Behind(m, total), NEW need \in Nat, need >= PARAGRAPH, total + need <= Size,
         NEW i, i = FirstFit(m.free, need), i <= Len(m.free),
         NEW r, r.free = Left(m.free, i, need),
         r.used = Append(m.used, Block(m.free[i].addr, need))
  PROVE  Behind(r, total + need)
<1> DEFINE first == Block(Start + total, Size)
<1>1. Start \in Nat /\ Size \in Nat /\ PARAGRAPH = 16 /\ HEADER = 12
  BY Places DEF PARAGRAPH, HEADER
<1>2. m.free = <<first, Above>>
  BY <1>1 DEF Behind
<1>3. first.addr = Start + total /\ first.size = Size
  BY DEF Block
<1>4. i = 1
  <2>1. i \in 1 .. Len(m.free) + 1 /\ \A j \in 1 .. i - 1 : m.free[j].size < need
    BY FirstFitIs
  <2>2. m.free[1].size = Size
    BY <1>2, <1>3
  <2>3. ~(Size < need)
    BY <1>1
  <2>4. 1 \notin 1 .. i - 1
    BY <2>1, <2>2, <2>3
  <2>5. Len(m.free) = 2
    BY <1>2
  <2> QED BY <2>1, <2>4, <2>5
<1>5. m.free[i] = first /\ Len(m.free) = 2 /\ m.free[2] = Above
  BY <1>2, <1>4
<1>6. \/ r.free = <<Block(Start + (total + need), Size), Above>>
      \/ r.free = <<Above>> /\ total + need > Size - HEADER
  <2>1. CASE Size - need < HEADER
    <3>1. Unlink(m.free, 1) = <<Above>>
      BY <1>2, UnlinkFirst
    <3> QED BY <1>1, <1>3, <1>4, <1>5, <2>1, <3>1 DEF Left
  <2>2. CASE ~(Size - need < HEADER)
    <3>1. [first EXCEPT !.addr = @ + need] = Block(Start + (total + need), Size)
      BY <1>1 DEF Block
    <3>2. Split(m.free, 1, need) = [m.free EXCEPT ![1] = [first EXCEPT !.addr = @ + need]]
      BY <1>4, <1>5 DEF Split
    <3> DEFINE b == [first EXCEPT !.addr = @ + need]
    <3>3. Split(m.free, 1, need) = [m.free EXCEPT ![1] = b]
      BY <3>2
    <3> HIDE DEF b
    <3>4. Split(m.free, 1, need) = <<b, Above>>
      BY <1>2, <3>3
    <3> QED BY <1>3, <1>4, <1>5, <2>2, <3>1, <3>4 DEF Left, b
  <2> QED BY <2>1, <2>2
<1> DEFINE b == Block(Start + total, need)
           n == Len(m.used)
<1>7. b.addr = Start + total /\ End(b) = Start + (total + need)
  BY <1>1 DEF Block, End
<1>8. /\ n \in Nat /\ Len(r.used) = n + 1 /\ r.used[n + 1] = b
      /\ \A j \in 1 .. n : r.used[j] = m.used[j]
  BY <1>3, <1>5
<1>9. \A j \in 1 .. n : /\ m.used[j].addr \in Nat /\ End(m.used[j]) \in Nat
                       /\ m.used[j].addr >= Start /\ End(m.used[j]) <= Start + total
  <2> TAKE j \in 1 .. n
  <2>1. m.used[j] \in Blocks
    OBVIOUS
  <2>2. m.used[j].addr >= Start /\ End(m.used[j]) <= Start + total
    BY DEF Behind
  <2>3. m.used[j].addr \in Nat /\ End(m.used[j]) \in Nat
    BY <2>1, BlockFields
  <2> QED BY <2>2, <2>3
<1>10. \A j, k \in 1 .. n : j < k => End(m.used[j]) <= m.used[k].addr
  BY DEF Behind
<1> HIDE DEF b, n
<1>11. \A j \in 1 .. n + 1 : r.used[j].addr >= Start /\ End(r.used[j]) <= Start + (total + need)
  <2> TAKE j \in 1 .. n + 1
  <2>1. CASE j = n + 1
    BY <1>1, <1>7, <1>8, <2>1
  <2>2. CASE j \in 1 .. n
    <3> DEFINE u == m.used[j]
    <3>1. r.used[j] = u
      BY <1>8, <2>2
    <3>2. u.addr \in Nat /\ End(u) \in Nat /\ u.addr >= Start /\ End(u) <= Start + total
      BY <1>9, <2>2
    <3> HIDE DEF u
    <3>3. End(u) <= Start + (total + need)
      BY <1>1, <3>2
    <3> QED BY <3>1, <3>2, <3>3
  <2> QED BY <1>8, <2>1, <2>2
<1>12. \A j, k \in 1 .. n + 1 : j < k => End(r.used[j]) <= r.used[k].addr
  <2> TAKE j, k \in 1 .. n + 1
  <2> HAVE j < k
  <2>1. j \in 1 .. n /\ r.used[j] = m.used[j]
    BY <1>8
  <2>2. CASE k = n + 1
    BY <1>7, <1>8, <1>9, <2>1, <2>2
  <2>3. CASE k \in 1 .. n
    BY <1>8, <1>10, <2>1, <2>3
  <2> QED BY <1>8, <2>2, <2>3
<1> QED BY <1>6, <1>8, <1>11, <1>12 DEF Behind

(* What has been handed out grows by what is handed out.                   *)
LEMMA GivenGrows ==
  ASSUME mem.used \in Seq(Blocks), Len(mem.used) < MaxBlocks, NEW b \in Blocks,
         mem'.used = Append(mem.used, b)
  PROVE  Given'[Len(mem'.used)] = Given[Len(mem.used)] + b.size
<1> DEFINE n == Len(mem.used)
<1>1. /\ MaxBlocks \in Nat /\ n \in 0 .. MaxBlocks /\ n + 1 \in 1 .. MaxBlocks
      /\ Len(mem'.used) = n + 1 /\ mem'.used[n + 1] = b
      /\ \A i \in 1 .. n : mem.used[i] = mem'.used[i]
  BY MemoryAssumption
<1> HIDE DEF n
<1> DEFINE u == mem.used
           v == mem'.used
           g == Given
           h == Given'
<1>5. Sums(u, MaxBlocks, g) /\ Sums(v, MaxBlocks, h) /\ \A i \in 1 .. n : u[i] = v[i]
  BY <1>1, GivenSums
<1> HIDE DEF u, v, g, h
<1>6. g[n] = h[n]
  <2>1. /\ MaxBlocks \in Nat /\ n \in 0 .. MaxBlocks /\ Sums(u, MaxBlocks, g)
        /\ Sums(v, MaxBlocks, h) /\ Agree(u, v, n)
    BY <1>1, <1>5 DEF Agree
  <2> QED BY <2>1, SumsAgree
<1>2. Given[n] = Given'[n]
  BY <1>6 DEF g, h
<1>3. Given'[n + 1] = Given'[(n + 1) - 1] + mem'.used[n + 1].size
  BY <1>1, GivenSums, SumsAre
<1>4. (n + 1) - 1 = n
  BY <1>1
<1> QED BY <1>1, <1>2, <1>3, <1>4 DEF n

(* kmalloc() keeps the invariant.                                          *)
LEMMA AllocateKeeps == ASSUME MemoryInv, Allocate PROVE MemoryInv'
<1> DEFINE total == Given[Len(mem.used)]
<1>1. PICK size \in Requests : kmalloc(size)
  BY DEF Allocate
<1> DEFINE need == Rounded(size)
           i    == FirstFit(mem.free, need)
<1>2. need \in Nat /\ need >= PARAGRAPH
  BY RoundedIs, MemoryAssumption
<1>3. /\ mem.free \in Seq(Blocks) /\ mem.used \in Seq(Blocks) /\ Len(mem.used) < MaxBlocks
      /\ total \in Nat /\ (total <= Size => Behind(mem, total))
  BY DEF MemoryInv, FromBelow, Allocate
<1>4. CASE i > Len(mem.free)
  <2>1. mem' = mem
    BY <1>1, <1>4 DEF kmalloc
  <2> QED BY <2>1 DEF MemoryInv, Given
<1>5. CASE ~(i > Len(mem.free))
  <2> DEFINE b == Block(mem.free[i].addr, need)
  <2>1. mem' = [free |-> Left(mem.free, i, need), used |-> Append(mem.used, b)]
    BY <1>1, <1>5 DEF kmalloc, Left
  <2> HIDE DEF total, need
  <2>2. i \in 1 .. Len(mem.free)
    <3>1. i \in 1 .. Len(mem.free) + 1
      BY <1>2, <1>3, FirstFitIs
    <3> HIDE DEF i
    <3> QED BY <1>3, <1>5, <3>1
  <2>3. b \in Blocks /\ b.size = need
    <3>1. mem.free[i] \in Blocks
      BY <1>3, <2>2
    <3> QED BY <1>2, <3>1 DEF Blocks, Block
  <2> HIDE DEF i, b
  <2>4. mem'.free = Left(mem.free, i, need) /\ mem'.used = Append(mem.used, b)
    BY <2>1
  <2>5. Given'[Len(mem'.used)] = total + need
    BY <1>3, <2>3, <2>4, GivenGrows DEF total
  <2>6. mem'.free \in Seq(Blocks)
    BY <1>2, <1>3, <2>2, <2>4, LeftIs
  <2>7. mem'.used \in Seq(Blocks) /\ Len(mem'.used) <= MaxBlocks
    BY <1>3, <2>3, <2>4, MemoryAssumption
  <2>8. total + need <= Size => Behind(mem', total + need)
    <3> HAVE total + need <= Size
    <3>1. Behind(mem, total)
      BY <1>2, <1>3, Places
    <3>2. i = FirstFit(mem.free, need) /\ i <= Len(mem.free)
      BY <2>2 DEF i
    <3>3. mem'.used = Append(mem.used, Block(mem.free[i].addr, need))
      BY <2>4 DEF b
    <3> QED BY <1>2, <1>3, <2>4, <3>1, <3>2, <3>3, BehindIt
  <2>9. FromBelow(mem', total + need)
    BY <1>2, <1>3, <2>6, <2>7, <2>8 DEF FromBelow
  <2> QED BY <2>5, <2>9 DEF MemoryInv, FromBelow, Behind
<1> QED BY <1>4, <1>5

(* kmeminit().                                                             *)
LEMMA InitMemoryInv == InitMemory => MemoryInv
<1> SUFFICES ASSUME InitMemory PROVE MemoryInv
  OBVIOUS
<1>1. mem.free = kmeminit /\ mem.used = <<>> /\ Len(mem.used) = 0
  BY DEF InitMemory
<1>2. Given[0] = 0
  BY GivenSums, SumsAre, MemoryAssumption
<1>3. Block(Start, Size) \in Blocks
  BY Places DEF Block, Blocks
<1>4. mem.free \in Seq(Blocks) /\ mem.free = <<Block(Start + 0, Size), Above>>
  BY <1>1, <1>3, Places
<1>5. Behind(mem, 0)
  BY <1>1, <1>4 DEF Behind
<1> QED BY <1>1, <1>2, <1>4, <1>5, MemoryAssumption DEF MemoryInv, FromBelow

(* The invariant holds of every sequence of requests.                      *)
THEOREM MemoryInvHolds == SpecMemory => []MemoryInv
<1>1. MemoryInv /\ UNCHANGED mem => MemoryInv'
  BY DEF MemoryInv, Given
<1> QED BY <1>1, InitMemoryInv, AllocateKeeps, PTL DEF SpecMemory

(* kmalloc() never hands out a block that overlaps another one, the hole,  *)
(* or a header, until more has been handed out than there is below the     *)
(* hole (mem.c:73, where the size of the rest is not made smaller).        *)
THEOREM BlocksStayApart == SpecMemory => []BlocksApart
<1>1. MemoryInv => BlocksApart
  <2> DEFINE total == Given[Len(mem.used)]
  <2> SUFFICES ASSUME MemoryInv, total <= HOLESTART - kmeminit[1].addr PROVE
        \A i \in DOMAIN mem.used :
            /\ \E b \in {kmeminit[1], kmeminit[2]} :
                  b.addr <= mem.used[i].addr /\ End(mem.used[i]) <= End(b)
            /\ \A j \in DOMAIN mem.used : i # j => Disjoint(mem.used[i], mem.used[j])
            /\ \A j \in DOMAIN mem.free : mem.free[j].addr >= End(mem.used[i])
                                          \/ mem.free[j].addr < mem.used[i].addr
    BY DEF BlocksApart
  <2>1. kmeminit[1].addr = Start /\ End(kmeminit[1]) = HOLESTART
    BY Places DEF Block, End
  <2>2. /\ Behind(mem, total) /\ total \in Nat /\ total <= Size
        /\ mem.used \in Seq(Blocks) /\ mem.free \in Seq(Blocks)
    BY <2>1, Places DEF MemoryInv, FromBelow, Size
  <2> HIDE DEF total
  <2> TAKE i \in DOMAIN mem.used
  <2>3. DOMAIN mem.used = 1 .. Len(mem.used) /\ DOMAIN mem.free = 1 .. Len(mem.free)
    BY <2>2
  <2>4. mem.used[i] \in Blocks /\ mem.used[i].addr \in Nat /\ End(mem.used[i]) \in Nat
    <3>1. mem.used[i] \in Blocks
      BY <2>2, <2>3
    <3> QED BY <3>1 DEF Blocks, End
  <2>5. mem.used[i].addr >= Start /\ End(mem.used[i]) <= Start + total
    BY <2>2, <2>3 DEF Behind
  <2>6. End(mem.used[i]) <= HOLESTART
    BY <2>2, <2>4, <2>5, Places
  <2>7. \A j \in DOMAIN mem.used : i # j => Disjoint(mem.used[i], mem.used[j])
    BY <2>2, <2>3 DEF Behind, Disjoint
  <2>8. \A j \in DOMAIN mem.free : mem.free[j].addr >= End(mem.used[i])
    <3>1. CASE mem.free = <<Block(Start + total, Size), Above>>
      BY <2>2, <2>4, <2>5, <2>6, <3>1, Places DEF Block
    <3>2. CASE mem.free = <<Above>>
      BY <2>2, <2>4, <2>6, <3>2, Places DEF Block
    <3> QED BY <2>2, <3>1, <3>2 DEF Behind
  <2> QED BY <2>1, <2>5, <2>6, <2>7, <2>8
<1> QED BY <1>1, MemoryInvHolds, PTL

-----------------------------------------------------------------------------
(***************************************************************************)
(* The screen shows the lower end of the paper that was printed on, and    *)
(* the cursor stands where the head does (ConsoleInv).  A row of the       *)
(* screen is a whole number of tab stops, so that a stop of the screen is  *)
(* one of the paper, however far it has scrolled; a tab that ends a row    *)
(* of the last line scrolls with its last blank.                           *)
(***************************************************************************)

(* The size of the screen.                                                 *)
LEMMA Screen ==
  /\ ROW \in Nat \ {0} /\ COL \in Nat \ {0} /\ TAB \in Nat \ {0} /\ TAB <= COL
  /\ CELLS \in Nat /\ COL <= CELLS /\ CELLS % COL = 0 /\ CELLS % TAB = 0
  /\ COL % TAB = 0 /\ MaxPaper \in Nat
<1>1. /\ ROW \in Nat \ {0} /\ COL \in Nat \ {0} /\ TAB \in Nat \ {0} /\ COL % TAB = 0
      /\ MaxPaper \in Nat
  BY ConsoleAssumption
<1>2. TAB <= COL
  BY <1>1, RemainderSmall
<1>3. CELLS \in Nat /\ COL <= CELLS
  <2>1. ROW >= 1 => ROW * COL >= COL
    BY <1>1
  <2> QED BY <1>1, <2>1 DEF CELLS
<1>4. CELLS % COL = 0
  <2>1. CELLS = COL * ROW + 0
    BY <1>1 DEF CELLS
  <2> QED BY <1>1, <2>1, RemainderIs
<1>5. CELLS % TAB = 0
  <2> DEFINE q == COL \div TAB
  <2>1. COL = TAB * q /\ q \in Int
    <3>1. COL = TAB * q + (COL % TAB) /\ q \in Int
      BY <1>1, Remainder
    <3> QED BY <1>1, <3>1
  <2> HIDE DEF q
  <2>2. ROW * (TAB * q) = TAB * (ROW * q) + 0
    BY <1>1, <2>1
  <2>3. ROW * q \in Int
    BY <1>1, <2>1
  <2>4. (TAB * (ROW * q) + 0) % TAB = 0
    BY <1>1, <2>3, RemainderIs
  <2> QED BY <2>1, <2>2, <2>4 DEF CELLS
<1> QED BY <1>1, <1>2, <1>3, <1>4, <1>5

(* The screen s shows the roll of paper p from its cell t on, and the      *)
(* cursor, which may be just behind it, stands where the head does.        *)
Shows(s, p, t, head) ==
  /\ t \in Nat /\ t % COL = 0 /\ t % TAB = 0
  /\ s.crtat \in 0 .. CELLS /\ head = t + s.crtat
  /\ DOMAIN s.screen = 0 .. CELLS - 1
  /\ \A i \in 0 .. MaxPaper : i >= t + CELLS => p[i] = Blank
  /\ \A i \in 0 .. CELLS - 1 : t + i <= MaxPaper => s.screen[i] = p[t + i]

(* The roll moves up with the screen.                                      *)
Top(s, t) == IF s.crtat < CELLS THEN t ELSE t + COL

(* A full screen moves up by a row, and shows the next one, which nothing  *)
(* was printed on.                                                         *)
LEMMA ScrolledShows ==
  ASSUME NEW s, NEW p, NEW t, NEW head, Shows(s, p, t, head)
  PROVE  /\ Shows(Scrolled(s), p, Top(s, t), head)
         /\ Scrolled(s).crtat \in 0 .. CELLS - 1
         /\ s.crtat < CELLS => Scrolled(s) = s
<1>1. CASE s.crtat < CELLS
  BY <1>1, Screen DEF Scrolled, Top, Shows
<1>2. CASE ~(s.crtat < CELLS)
  <2> DEFINE r == Scrolled(s)
  <2>1. s.crtat = CELLS
    BY <1>2, Screen DEF Shows
  <2>2. /\ r.crtat = CELLS - COL /\ DOMAIN r.screen = 0 .. CELLS - 1
        /\ \A i \in 0 .. CELLS - 1 :
              r.screen[i] = IF i < CELLS - COL THEN s.screen[i + COL] ELSE Blank
    BY <1>2, <2>1 DEF Scrolled, Shows
  <2> HIDE DEF r
  <2>3. t \in Nat /\ t + COL \in Nat /\ (t + COL) % COL = 0 /\ (t + COL) % TAB = 0
    <3>1. t \in Nat /\ t % COL = 0 /\ t % TAB = 0
      BY DEF Shows
    <3>2. COL % COL = 0
      <4>1. COL * 1 + 0 = COL /\ (COL * 1 + 0) % COL = 0
        BY Screen, RemainderIs
      <4> QED BY <4>1
    <3>3. (t + COL) % COL = COL % COL /\ (t + COL) % TAB = COL % TAB
      <4>1. t \in Int /\ COL \in Int /\ COL \in Nat \ {0} /\ TAB \in Nat \ {0}
        BY <3>1, Screen
      <4> QED BY <3>1, <4>1, RemainderPlus, Zenon
    <3> QED BY <3>1, <3>2, <3>3, Screen
  <2>4. \A i \in 0 .. MaxPaper : i >= (t + COL) + CELLS => p[i] = Blank
    BY <2>3, Screen DEF Shows
  <2>5. ASSUME NEW i \in 0 .. CELLS - 1, (t + COL) + i <= MaxPaper
        PROVE  r.screen[i] = p[(t + COL) + i]
    <3>1. CASE i < CELLS - COL
      <4> DEFINE j == i + COL
      <4>1. j \in 0 .. CELLS - 1 /\ t + j = (t + COL) + i
        BY <2>3, <3>1, Screen
      <4>2. s.screen[j] = p[t + j]
        BY <2>5, <4>1 DEF Shows
      <4> QED BY <2>2, <3>1, <4>1, <4>2
    <3>2. CASE ~(i < CELLS - COL)
      <4> DEFINE j == (t + COL) + i
      <4>1. j \in 0 .. MaxPaper /\ j >= t + CELLS
        BY <2>3, <2>5, <3>2, Screen
      <4>2. p[j] = Blank
        BY <4>1 DEF Shows
      <4> QED BY <2>2, <3>2, <4>2
    <3> QED BY <3>1, <3>2
  <2>6. r.crtat \in 0 .. CELLS - 1 /\ head = (t + COL) + r.crtat
    <3>1. head = t + CELLS
      BY <2>1 DEF Shows
    <3> QED BY <2>2, <2>3, <3>1, Screen
  <2>7. Top(s, t) = t + COL
    BY <1>2 DEF Top
  <2>8. r.crtat \in 0 .. CELLS
    BY <2>6, Screen
  <2>9. Shows(r, p, t + COL, head)
    BY <2>2, <2>3, <2>4, <2>5, <2>6, <2>8 DEF Shows
  <2> QED BY <1>2, <2>6, <2>7, <2>9 DEF r
<1> QED BY <1>1, <1>2

(* A character goes to the same place on both.                             *)
LEMMA ShownShows ==
  ASSUME NEW s, NEW p, NEW t, NEW head, Shows(s, p, t, head), s.crtat < CELLS,
         NEW c, NEW q, \A i \in 0 .. MaxPaper : q[i] = IF i = head THEN c ELSE p[i]
  PROVE  Shows(Shown(s, c), q, t, head + 1) /\ Shown(s, c).crtat = s.crtat + 1
<1> DEFINE r == Shown(s, c)
<1>1. /\ r.crtat = s.crtat + 1 /\ DOMAIN r.screen = 0 .. CELLS - 1
      /\ \A i \in 0 .. CELLS - 1 : r.screen[i] = IF i = s.crtat THEN c ELSE s.screen[i]
  BY DEF Shown, Shows
<1> HIDE DEF r
<1>2. s.crtat \in 0 .. CELLS - 1 /\ t \in Nat /\ head = t + s.crtat /\ CELLS \in Nat
  BY Screen DEF Shows
<1>3. \A i \in 0 .. MaxPaper : i >= t + CELLS => q[i] = Blank
  <2>1. \A i \in 0 .. MaxPaper : i >= t + CELLS => i # head
    BY <1>2, Screen
  <2> QED BY <2>1 DEF Shows
<1>4. \A i \in 0 .. CELLS - 1 : t + i <= MaxPaper => r.screen[i] = q[t + i]
  <2> TAKE i \in 0 .. CELLS - 1
  <2> HAVE t + i <= MaxPaper
  <2> DEFINE x == s.crtat
  <2>1. t + i \in 0 .. MaxPaper /\ (t + i = head <=> i = x)
    <3>1. x \in 0 .. CELLS - 1 /\ head = t + x /\ MaxPaper \in Nat
      BY <1>2, Screen
    <3> HIDE DEF x
    <3> QED BY <1>2, <3>1
  <2>2. s.screen[i] = p[t + i]
    BY DEF Shows
  <2> QED BY <1>1, <2>1, <2>2
<1>5. r.crtat \in 0 .. CELLS /\ head + 1 = t + r.crtat
  BY <1>1, <1>2
<1> QED BY <1>1, <1>3, <1>4, <1>5 DEF Shows, r

(* The cursor moves, on both.                                              *)
LEMMA MovedShows ==
  ASSUME NEW s, NEW p, NEW t, NEW head, Shows(s, p, t, head), NEW x \in 0 .. CELLS,
         NEW r, r = [s EXCEPT !.crtat = x], "crtat" \in DOMAIN s
  PROVE  Shows(r, p, t, t + x)
<1>1. r.crtat = x /\ r.screen = s.screen
  OBVIOUS
<1> QED BY <1>1 DEF Shows

(* The screens that a tab goes through.                                    *)
Blanks(s, m, g) ==
  g = [n \in 0 .. m |-> IF n = 0 THEN s ELSE Scrolled(Shown(g[n - 1], Blank))]

LEMMA BlanksExist == ASSUME NEW s, NEW m \in Nat PROVE \E g : Blanks(s, m, g)
<1> DEFINE T == {n \in Nat : \E g : Blanks(s, n, g)}
<1>1. 0 \in T
  <2>1. Blanks(s, 0, [n \in 0 .. 0 |-> s])
    BY DEF Blanks
  <2> QED BY <2>1
<1>2. ASSUME NEW n \in 1 .. m, n - 1 \in T PROVE n \in T
  <2>1. PICK g : Blanks(s, n - 1, g)
    BY <1>2
  <2> DEFINE h == [i \in 0 .. n |-> IF i = 0 THEN s ELSE Scrolled(Shown(g[i - 1], Blank))]
  <2>2. \A i \in 0 .. n - 1 : h[i] = g[i]
    BY <2>1 DEF Blanks
  <2>3. \A i \in 0 .. n : i # 0 => h[i - 1] = g[i - 1]
    BY <2>2
  <2>4. Blanks(s, n, h)
    BY <2>3 DEF Blanks
  <2> QED BY <2>4
<1> HIDE DEF T
<1>3. \A n \in 0 .. m : n \in T
  BY <1>1, <1>2, UpTo
<1> QED BY <1>3 DEF T

BlanksAre(s, m, g) ==
  g[0] = s /\ \A n \in 1 .. m : g[n] = Scrolled(Shown(g[n - 1], Blank))

LEMMA TabbedIs ==
  ASSUME NEW s
  PROVE  \E g : /\ BlanksAre(s, TAB, g)
                /\ \A n \in 1 .. TAB :
                      AtStop(g[n]) /\ (\A m \in 1 .. n - 1 : ~AtStop(g[m])) => Tabbed(s) = g[n]
<1> DEFINE g == CHOOSE f : f = [n \in 0 .. TAB |-> IF n = 0 THEN s ELSE Scrolled(Shown(f[n - 1], Blank))]
           stops == {n \in 1 .. TAB : AtStop(g[n])}
<1>1. TAB \in Nat
  BY Screen
<1>2. \E f : Blanks(s, TAB, f)
  BY <1>1, BlanksExist
<1>3. g = [n \in 0 .. TAB |-> IF n = 0 THEN s ELSE Scrolled(Shown(g[n - 1], Blank))]
  BY <1>2 DEF Blanks
<1>4. Tabbed(s) = g[CHOOSE n \in stops : \A m \in stops : n <= m]
  BY DEF Tabbed
<1> HIDE DEF g
<1>5. BlanksAre(s, TAB, g)
  <2>1. \A n \in 1 .. TAB : n \in 0 .. TAB /\ n # 0
    BY <1>1
  <2>2. 0 \in 0 .. TAB
    BY <1>1
  <2> QED BY <1>3, <2>1, <2>2 DEF BlanksAre
<1>6. ASSUME NEW n \in 1 .. TAB, AtStop(g[n]), \A m \in 1 .. n - 1 : ~AtStop(g[m])
      PROVE  Tabbed(s) = g[n]
  <2>1. n \in stops /\ \A m \in stops : n <= m
    BY <1>1, <1>6
  <2>2. \A x \in stops : (\A m \in stops : x <= m) => x = n
    BY <1>1, <2>1
  <2> HIDE DEF stops
  <2>3. (CHOOSE x \in stops : \A m \in stops : x <= m) = n
    BY <2>1, <2>2
  <2> QED BY <1>4, <2>3
<1> QED BY <1>5, <1>6

(* A tab shows blanks up to the next stop, and may scroll with the last.   *)
LEMMA TabbedShows ==
  ASSUME NEW s, NEW p, NEW t, NEW head, Shows(s, p, t, head), s.crtat < CELLS,
         NEW q, \A i \in 0 .. MaxPaper :
                   q[i] = IF i >= head /\ i < NextStop(head) THEN Blank ELSE p[i]
  PROVE  /\ Shows(Tabbed(s), q, IF NextStop(head) < t + CELLS THEN t ELSE t + COL, NextStop(head))
         /\ Tabbed(s).crtat \in 0 .. CELLS - 1
<1> DEFINE N    == TAB - (head % TAB)
           P(m) == [i \in 0 .. MaxPaper |-> IF i >= head /\ i < head + m THEN Blank ELSE p[i]]
           U(m) == IF head + m < t + CELLS THEN t ELSE t + COL
<1>1. /\ t \in Nat /\ t % TAB = 0 /\ head \in Nat /\ head < t + CELLS
      /\ TAB \in Nat \ {0} /\ CELLS \in Nat /\ MaxPaper \in Nat /\ COL \in Nat
  BY Screen DEF Shows
<1>2. /\ N \in 1 .. TAB /\ (head + N) % TAB = 0 /\ NextStop(head) = head + N
      /\ \A m \in 1 .. N - 1 : (head + m) % TAB # 0
  <2>1. head % TAB \in 0 .. TAB - 1
    <3>1. head \in Int
      BY <1>1
    <3> QED BY <1>1, <3>1, Remainder, Zenon
  <2>2. (head + N) % TAB = 0 /\ \A m \in 1 .. N - 1 : (head + m) % TAB # 0
    BY <1>1, RemainderNext, Zenon
  <2> DEFINE r == head % TAB
  <2>3. NextStop(head) = head + TAB - r
    BY DEF NextStop
  <2> HIDE DEF r
  <2>4. TAB - r \in 1 .. TAB /\ head + TAB - r = head + (TAB - r)
    BY <1>1, <2>1 DEF r
  <2> QED BY <2>2, <2>3, <2>4 DEF r
<1> HIDE DEF N
<1>3. head + N <= t + CELLS
  <2> DEFINE m == (t + CELLS) - head
  <2>1. SUFFICES ASSUME head + N > t + CELLS PROVE FALSE
    BY <1>1, <1>2
  <2>2. m \in 1 .. N - 1 /\ head + m = t + CELLS
    BY <1>1, <1>2, <2>1
  <2> HIDE DEF m
  <2>3. (t + CELLS) % TAB = CELLS % TAB
    <3>1. t \in Int /\ CELLS \in Int
      BY <1>1
    <3> QED BY <1>1, <3>1, RemainderPlus, Zenon
  <2>4. (head + m) % TAB # 0
    BY <1>2, <2>2
  <2> QED BY <2>2, <2>3, <2>4, Screen
<1>4. PICK g : /\ BlanksAre(s, TAB, g)
               /\ \A n \in 1 .. TAB :
                     AtStop(g[n]) /\ (\A m \in 1 .. n - 1 : ~AtStop(g[m])) => Tabbed(s) = g[n]
  BY TabbedIs
<1> DEFINE Holds(m) == Shows(g[m], P(m), U(m), head + m) /\ g[m].crtat \in 0 .. CELLS - 1
           T        == {m \in 0 .. N : Holds(m)}
<1>5. Holds(0)
  <2>1. g[0] = s /\ head + 0 = head /\ U(0) = t
    BY <1>1, <1>4 DEF BlanksAre
  <2>2. \A i \in 0 .. MaxPaper : P(0)[i] = p[i]
    BY <1>1
  <2> HIDE DEF P, U
  <2>3. Shows(s, P(0), t, head)
    BY <2>2 DEF Shows
  <2>4. s.crtat \in 0 .. CELLS - 1
    BY <1>1 DEF Shows
  <2> QED BY <2>1, <2>3, <2>4
<1>6. ASSUME NEW m \in 1 .. N, m - 1 \in T PROVE m \in T
  <2> DEFINE a == g[m - 1]
             b == Shown(a, Blank)
  <2>1. U(m - 1) = t /\ (head + (m - 1)) + 1 = head + m
    BY <1>1, <1>2, <1>3
  <2>2. Shows(a, P(m - 1), t, head + (m - 1)) /\ a.crtat < CELLS
    BY <1>1, <1>6, <2>1
  <2>3. \A i \in 0 .. MaxPaper : P(m)[i] = IF i = head + (m - 1) THEN Blank ELSE P(m - 1)[i]
    <3> TAKE i \in 0 .. MaxPaper
    <3>1. i < head + m <=> i < head + (m - 1) \/ i = head + (m - 1)
      BY <1>1, <1>2
    <3>2. i = head + (m - 1) => i >= head
      BY <1>1, <1>2
    <3> QED BY <3>1, <3>2
  <2> HIDE DEF a, P
  <2>4. Shows(b, P(m), t, head + m)
    BY <2>1, <2>2, <2>3, ShownShows
  <2>5. g[m] = Scrolled(b)
    <3>1. m \in 1 .. TAB
      BY <1>1, <1>2
    <3> QED BY <1>4, <3>1 DEF BlanksAre, a
  <2> HIDE DEF b
  <2>6. Shows(g[m], P(m), Top(b, t), head + m) /\ g[m].crtat \in 0 .. CELLS - 1
    BY <2>4, <2>5, ScrolledShows
  <2>7. Top(b, t) = U(m)
    BY <1>1, <2>4 DEF Top, Shows
  <2> QED BY <2>6, <2>7
<1>7. \A m \in 0 .. N : Holds(m)
  <2>1. 0 \in T
    BY <1>2, <1>5
  <2> HIDE DEF T
  <2>2. \A m \in 0 .. N : m \in T
    BY <1>2, <1>6, <2>1, UpTo
  <2> QED BY <2>2 DEF T
<1>8. ASSUME NEW m \in 0 .. N PROVE AtStop(g[m]) <=> (head + m) % TAB = 0
  <2> DEFINE u == U(m)
             x == g[m].crtat
  <2>1. u % TAB = 0 /\ u \in Int /\ x \in Int /\ head + m = u + x
    <3> HIDE DEF P, U
    <3>1. Shows(g[m], P(m), u, head + m)
      BY <1>7
    <3> QED BY <3>1, Screen DEF Shows
  <2>2. AtStop(g[m]) <=> x % TAB = 0
    BY DEF AtStop
  <2> HIDE DEF u, x
  <2>3. (u + x) % TAB = x % TAB
    BY <1>1, <2>1, RemainderPlus, Zenon
  <2> QED BY <2>1, <2>2, <2>3
<1>9. Tabbed(s) = g[N]
  <2>1. N \in 0 .. N /\ \A m \in 1 .. N - 1 : m \in 0 .. N
    BY <1>2
  <2> QED BY <1>2, <1>4, <1>8, <2>1, Zenon
<1>10. Holds(N)
  BY <1>2, <1>7
<1>11. \A i \in 0 .. MaxPaper : P(N)[i] = q[i]
  BY <1>2
<1> HIDE DEF P
<1>12. Shows(g[N], q, U(N), head + N)
  BY <1>10, <1>11 DEF Shows
<1> QED BY <1>2, <1>9, <1>10, <1>12


(* The beginning of a row, on the screen and on the roll.                  *)
LEMMA RowStarts ==
  ASSUME NEW t \in Nat, t % COL = 0, NEW x \in Nat
  PROVE  /\ RowStart(t + x) = t + RowStart(x) /\ RowStart(x) \in 0 .. x
         /\ x < CELLS + COL => RowStart(x) <= CELLS
<1>1. /\ COL \in Nat \ {0} /\ CELLS \in Nat /\ CELLS % COL = 0
      /\ t \in Int /\ x \in Int /\ CELLS \in Int
  BY Screen
<1> DEFINE r == x % COL
           a == x - r
<1>2. r \in 0 .. COL - 1 /\ a % COL = 0
  BY <1>1, Remainder, RemainderOff, Zenon
<1>3. (t + x) % COL = r
  BY <1>1, RemainderPlus, Zenon
<1>4. RowStart(x) = a /\ RowStart(t + x) = (t + x) - r
  BY <1>3 DEF RowStart
<1>5. a = x - r
  OBVIOUS
<1>6. r <= x
  <2>1. CASE x < COL
    <3>1. x \in 0 .. COL - 1
      BY <1>1, <2>1
    <3>2. r = x
      BY <1>1, <3>1, RemainderSmall, Zenon
    <3> QED BY <1>1, <3>2
  <2>2. CASE ~(x < COL)
    <3> HIDE DEF r
    <3> QED BY <1>1, <1>2, <2>2
  <2> QED BY <2>1, <2>2
<1> HIDE DEF r, a
<1>7. a \in 0 .. x /\ (t + x) - r = t + a
  BY <1>2, <1>5, <1>6
<1>8. ASSUME x < CELLS + COL, a > CELLS PROVE FALSE
  <2> DEFINE d == a - CELLS
  <2>1. d \in 0 .. COL - 1 /\ d # 0 /\ CELLS + d = a
    BY <1>1, <1>7, <1>8
  <2> HIDE DEF d
  <2>2. d \in Int
    BY <2>1
  <2>3. (CELLS + d) % COL = d % COL
    BY <1>1, <2>2, RemainderPlus, Zenon
  <2>4. d % COL = d
    BY <1>1, <2>1, RemainderSmall, Zenon
  <2> QED BY <1>2, <2>1, <2>3, <2>4
<1> QED BY <1>1, <1>4, <1>7, <1>8

-----------------------------------------------------------------------------
(* The screen and the roll agree, and the cursor is on the screen.         *)
ConsoleInv ==
  /\ Shows(con, con.paper, con.top, con.head)
  /\ con.crtat < CELLS
  /\ DOMAIN con.paper = 0 .. MaxPaper

(* A character that is not a tab does the same to both.                    *)
LEMMA CharShows ==
  ASSUME NEW s, NEW p, NEW t, NEW h, Shows(s, p, t, h), s.crtat < CELLS,
         s = [screen |-> s.screen, crtat |-> s.crtat], NEW c, c # "tab",
         c = "backspace" => s.crtat > 0, NEW q, NEW n,
         q = (IF c \in {"backspace", "newline", "return"} THEN p ELSE [p EXCEPT ![h] = c]),
         n = (CASE c = "backspace" -> h - 1
                [] c = "newline"   -> RowStart(h + COL)
                [] c = "return"    -> RowStart(h)
                [] OTHER           -> h + 1),
         DOMAIN p = 0 .. MaxPaper, h < MaxPaper
  PROVE  /\ Shows(kbmputc(s, c), q, IF n >= t + CELLS THEN t + COL ELSE t, n)
         /\ kbmputc(s, c).crtat < CELLS
<1>1. /\ s.crtat \in 0 .. CELLS - 1 /\ t \in Nat /\ t % COL = 0 /\ h = t + s.crtat
      /\ CELLS \in Nat /\ COL \in Nat \ {0}
  BY Screen DEF Shows
<1> DEFINE x == s.crtat
<1>2. "crtat" \in DOMAIN s /\ x = s.crtat
  <2>1. DOMAIN [screen |-> s.screen, crtat |-> s.crtat] = {"screen", "crtat"}
    OBVIOUS
  <2> QED BY <2>1
<1> HIDE DEF x
<1>3. ASSUME NEW r, Shows(r, q, t, n), kbmputc(s, c) = Scrolled(r)
      PROVE  /\ Shows(kbmputc(s, c), q, IF n >= t + CELLS THEN t + COL ELSE t, n)
             /\ kbmputc(s, c).crtat < CELLS
  <2>1. Shows(Scrolled(r), q, Top(r, t), n) /\ Scrolled(r).crtat \in 0 .. CELLS - 1
    BY <1>3, ScrolledShows
  <2>2. Top(r, t) = IF n >= t + CELLS THEN t + COL ELSE t
    <3> DEFINE y == r.crtat
    <3>1. y \in 0 .. CELLS /\ n = t + y
      BY <1>3 DEF Shows
    <3>2. Top(r, t) = IF y < CELLS THEN t ELSE t + COL
      BY DEF Top
    <3> HIDE DEF y
    <3> QED BY <1>1, <3>1, <3>2
  <2>3. Scrolled(r).crtat < CELLS
    BY <1>1, <2>1
  <2> QED BY <1>3, <2>1, <2>2, <2>3
<1>4. ASSUME NEW y \in 0 .. CELLS, q = p, n = t + y, kbmputc(s, c) = Scrolled([s EXCEPT !.crtat = y])
      PROVE  /\ Shows(kbmputc(s, c), q, IF n >= t + CELLS THEN t + COL ELSE t, n)
             /\ kbmputc(s, c).crtat < CELLS
  <2> DEFINE r == [s EXCEPT !.crtat = y]
  <2>1. Shows(r, p, t, t + y)
    BY <1>2, MovedShows
  <2>2. kbmputc(s, c) = Scrolled(r)
    BY <1>4
  <2> HIDE DEF r
  <2> QED BY <1>3, <1>4, <2>1, <2>2
<1>5. CASE c = "backspace"
  <2>1. x - 1 \in 0 .. CELLS /\ n = t + (x - 1)
    BY <1>1, <1>2, <1>5
  <2>2. kbmputc(s, c) = Scrolled([s EXCEPT !.crtat = x - 1])
    BY <1>2, <1>5 DEF kbmputc
  <2> QED BY <1>4, <1>5, <2>1, <2>2
<1>6. CASE c = "newline"
  <2> DEFINE z == x + COL
  <2>1. z \in Nat /\ z < CELLS + COL /\ h + COL = t + z
    BY <1>1, <1>2
  <2> HIDE DEF z
  <2>2. RowStart(t + z) = t + RowStart(z) /\ RowStart(z) \in 0 .. z /\ RowStart(z) <= CELLS
    BY <1>1, <2>1, RowStarts
  <2>3. RowStart(z) \in 0 .. CELLS /\ n = t + RowStart(z)
    BY <1>1, <1>6, <2>1, <2>2
  <2>4. kbmputc(s, c) = Scrolled([s EXCEPT !.crtat = RowStart(z)])
    BY <1>2, <1>6 DEF kbmputc, z
  <2> QED BY <1>4, <1>6, <2>3, <2>4
<1>7. CASE c = "return"
  <2>1. x \in Nat /\ x < CELLS + COL /\ h = t + x
    BY <1>1, <1>2
  <2>2. RowStart(t + x) = t + RowStart(x) /\ RowStart(x) \in 0 .. x /\ RowStart(x) <= CELLS
    BY <1>1, <2>1, RowStarts
  <2>3. RowStart(x) \in 0 .. CELLS /\ n = t + RowStart(x)
    BY <1>1, <1>7, <2>1, <2>2
  <2>4. kbmputc(s, c) = Scrolled([s EXCEPT !.crtat = RowStart(x)])
    BY <1>2, <1>7 DEF kbmputc
  <2> QED BY <1>4, <1>7, <2>3, <2>4
<1>8. CASE c \notin {"backspace", "newline", "return"}
  <2>1. n = h + 1 /\ q = [p EXCEPT ![h] = c] /\ kbmputc(s, c) = Scrolled(Shown(s, c))
    BY <1>8 DEF kbmputc
  <2>2. \A i \in 0 .. MaxPaper : q[i] = IF i = h THEN c ELSE p[i]
    BY <2>1
  <2>3. Shows(Shown(s, c), q, t, h + 1)
    BY <2>2, ShownShows
  <2> QED BY <1>3, <2>1, <2>3
<1> QED BY <1>5, <1>6, <1>7, <1>8

(* Whatever is printed, the screen and the roll agree again.               *)
LEMMA PrintKeeps == ASSUME ConsoleInv, PrintSome PROVE ConsoleInv'
<1>1. PICK c \in Printed : PrintChar(c)
  BY DEF PrintSome
<1> DEFINE s == [screen |-> con.screen, crtat |-> con.crtat]
           r == kbmputc(s, c)
           t == con.top
           h == con.head
           n == HeadAfter(c)
           q == OnPaper(c)
           u == IF n >= t + CELLS THEN t + COL ELSE t
<1>2. /\ con' = [screen |-> r.screen, crtat |-> r.crtat, paper |-> q, head |-> n, top |-> u]
      /\ h < MaxPaper /\ (c = "backspace" => con.crtat > 0)
  BY <1>1 DEF PrintChar
<1>3. /\ Shows(s, con.paper, t, h) /\ s.crtat < CELLS /\ DOMAIN con.paper = 0 .. MaxPaper
      /\ s = [screen |-> s.screen, crtat |-> s.crtat] /\ s.crtat = con.crtat
  BY DEF ConsoleInv, Shows
<1>4. DOMAIN q = 0 .. MaxPaper
  BY <1>3 DEF OnPaper
<1>5. Shows(r, q, u, n) /\ r.crtat < CELLS
  <2>1. CASE c = "tab"
    <3> DEFINE v == Tabbed(s)
    <3>1. n = NextStop(h) /\ r = Scrolled(v)
      BY <2>1 DEF HeadAfter, kbmputc
    <3>2. \A i \in 0 .. MaxPaper :
             q[i] = IF i >= h /\ i < NextStop(h) THEN Blank ELSE con.paper[i]
      BY <1>3, <2>1 DEF OnPaper
    <3> HIDE DEF s, q, r
    <3>3. /\ Shows(v, q, IF NextStop(h) < t + CELLS THEN t ELSE t + COL, NextStop(h))
          /\ v.crtat \in 0 .. CELLS - 1
      BY <1>3, <3>2, TabbedShows
    <3> HIDE DEF v, n, u
    <3>4. Scrolled(v) = v /\ v.crtat < CELLS
      BY <3>3, Screen DEF Scrolled
    <3>5. u = IF NextStop(h) < t + CELLS THEN t ELSE t + COL
      <4> DEFINE w == IF NextStop(h) < t + CELLS THEN t ELSE t + COL
      <4>1. NextStop(h) = w + v.crtat /\ w \in Nat
        BY <3>3 DEF Shows
      <4>2. NextStop(h) \in Int
        <5> HIDE DEF w
        <5> QED BY <3>3, <4>1, Screen
      <4>3. t + CELLS \in Int
        BY <1>3, Screen DEF Shows
      <4> QED BY <3>1, <4>2, <4>3 DEF u
    <3> QED BY <3>1, <3>3, <3>4, <3>5
  <2>2. CASE c # "tab"
    <3>1. q = IF c \in {"backspace", "newline", "return"} THEN con.paper ELSE [con.paper EXCEPT ![h] = c]
      BY <2>2 DEF OnPaper
    <3>2. n = CASE c = "backspace" -> h - 1
                [] c = "newline"   -> RowStart(h + COL)
                [] c = "return"    -> RowStart(h)
                [] OTHER           -> h + 1
      BY <2>2 DEF HeadAfter
    <3> HIDE DEF s, q, n, h, t
    <3> QED BY <1>2, <1>3, <2>2, <3>1, <3>2, CharShows
  <2> QED BY <2>1, <2>2
<1> HIDE DEF r, q, n, u
<1>6. /\ con'.screen = r.screen /\ con'.crtat = r.crtat /\ con'.paper = q
      /\ con'.head = n /\ con'.top = u
  BY <1>2
<1> QED BY <1>4, <1>5, <1>6 DEF ConsoleInv, Shows

(* The invariant holds of whatever is printed if the cursor that the BIOS  *)
(* left was on the screen: just behind it (kprintf.c:121), the first       *)
(* character would be written past its memory.                             *)
THEOREM ConsoleInvHolds == ASSUME CELLS \notin Cursors PROVE SpecConsole => []ConsoleInv
<1>1. InitConsole => ConsoleInv
  <2> SUFFICES ASSUME InitConsole PROVE ConsoleInv
    OBVIOUS
  <2>1. PICK x \in Cursors :
          con = [screen |-> [i \in 0 .. CELLS - 1 |-> Blank], crtat |-> x,
                 paper |-> [i \in 0 .. MaxPaper |-> Blank], head |-> x, top |-> 0]
    BY DEF InitConsole
  <2>2. x \in 0 .. CELLS /\ x # CELLS /\ CELLS \in Nat
    BY Screen, ConsoleAssumption
  <2>3. 0 % COL = 0 /\ 0 % TAB = 0
    <3>1. 0 \in 0 .. COL - 1 /\ 0 \in 0 .. TAB - 1 /\ COL \in Nat \ {0} /\ TAB \in Nat \ {0}
      BY Screen
    <3> QED BY <3>1, RemainderSmall, Zenon
  <2>4. /\ con.crtat = x /\ con.top = 0 /\ con.head = x
        /\ con.screen = [i \in 0 .. CELLS - 1 |-> Blank] /\ con.paper = [i \in 0 .. MaxPaper |-> Blank]
    BY <2>1
  <2>5. Shows(con, con.paper, 0, x)
    BY <2>2, <2>3, <2>4 DEF Shows
  <2> QED BY <2>2, <2>4, <2>5 DEF ConsoleInv
<1>2. ConsoleInv /\ UNCHANGED con => ConsoleInv'
  BY DEF ConsoleInv, Shows
<1> QED BY <1>1, <1>2, PrintKeeps, PTL DEF SpecConsole

(* The screen shows the last rows of what was printed, and the cursor is   *)
(* where the next character goes, for every size of the screen.            *)
THEOREM ShowsAlways == ASSUME CELLS \notin Cursors PROVE SpecConsole => []ShowsWhatWasPrinted
<1>1. ConsoleInv => ShowsWhatWasPrinted
  <2> SUFFICES ASSUME ConsoleInv PROVE ShowsWhatWasPrinted
    OBVIOUS
  <2> DEFINE x == con.crtat
             t == con.top
  <2>1. /\ t \in Nat /\ x \in 0 .. CELLS /\ x < CELLS /\ con.head = t + x
        /\ CELLS \in Nat /\ MaxPaper \in Nat
    BY Screen DEF ConsoleInv, Shows
  <2>2. \A i \in 0 .. CELLS - 1 : t + i \in DOMAIN con.paper => con.screen[i] = con.paper[t + i]
    BY <2>1 DEF ConsoleInv, Shows
  <2>3. con.crtat = con.head - con.top /\ con.crtat \in 0 .. CELLS - 1
    <3> HIDE DEF x, t
    <3>1. x = con.head - t /\ x \in 0 .. CELLS - 1
      BY <2>1
    <3> QED BY <3>1 DEF x, t
  <2> QED BY <2>2, <2>3 DEF ShowsWhatWasPrinted
<1> QED BY <1>1, ConsoleInvHolds, PTL

-----------------------------------------------------------------------------
(***************************************************************************)
(* The decompressor.  Between two bits, symbols or bytes the window holds  *)
(* behind its next place the last of what was flushed, once a whole window *)
(* was (Older): that is where a copy over its end reads from.  And of the  *)
(* bits no more than 15 are read ahead, all of them of the buffer that is  *)
(* read from (InBuffer), so that what is given back is still there.        *)
(***************************************************************************)

Values == Bytes \cup {0, Outside}

Stages == {"block", "stored", "fixed", "dynamic", "lengths", "codes", "flush", "done"}

Codes == DynamicCodes \cup {Fixed}

Slides == [0 .. WSIZE - 1 -> Values]

Fills == 0 .. WSIZE

Texts == Seq(Values)

States ==
  [at : Stages, code : Codes, left : Int, last : BOOLEAN, slide : Slides, w : Fills,
   out : Texts, bk : Int, inptr : Int, used : Int, text : Texts]

(* The bits taken and those read ahead are what was read of the buffer.    *)
InBuffer(s) ==
  s.bk \in Nat /\ s.inptr \in 1 .. INBUFSIZ /\ 8 * s.inptr = s.used + s.bk

(* Nothing is touched but the bits.                                        *)
OnlyBits(s, t) ==
  /\ t.slide = s.slide /\ t.w = s.w /\ t.out = s.out /\ t.text = s.text
  /\ t.at = s.at /\ t.code = s.code /\ t.left = s.left /\ t.last = s.last

Reads(s, t) == t \in States /\ InBuffer(t) /\ OnlyBits(s, t)

(* Other bits are in the buffer.                                           *)
LEMMA BitsTyped ==
  ASSUME NEW s \in States, NEW b \in Int, NEW p \in Int, NEW u \in Int,
         NEW t, \/ t = [s EXCEPT !.inptr = p, !.bk = b]
                \/ t = [s EXCEPT !.inptr = p, !.used = u, !.bk = b]
                \/ t = [s EXCEPT !.bk = b, !.used = u]
  PROVE  t \in States /\ OnlyBits(s, t)
<1>1. t \in States
  BY DEF States
<1>2. OnlyBits(s, t)
  BY DEF States, OnlyBits
<1> QED BY <1>1, <1>2

LEMMA ReadsTwice ==
  ASSUME NEW s, NEW t, NEW r, Reads(s, t), Reads(t, r) PROVE Reads(s, r)
BY DEF Reads, OnlyBits

LEMMA NextByteReads ==
  ASSUME NEW s \in States, InBuffer(s)
  PROVE  Reads(s, NextByte(s)) /\ NextByte(s).bk = s.bk + 8
<1> DEFINE t == NextByte(s)
<1>1. INBUFSIZ \in Nat \ {0}
  BY InflateAssumption
<1>2. CASE s.inptr < INBUFSIZ
  <2>1. t = [s EXCEPT !.inptr = @ + 1, !.bk = @ + 8]
    BY <1>2 DEF NextByte
  <2> HIDE DEF t
  <2>2. t \in States /\ OnlyBits(s, t)
    <3>1. s.inptr + 1 \in Int /\ s.bk + 8 \in Int /\ s.used \in Int
      BY DEF States
    <3> QED BY <2>1, <3>1, BitsTyped, Zenon
  <2>3. t.bk = s.bk + 8 /\ t.inptr = s.inptr + 1 /\ t.used = s.used /\ s.used \in Int
    BY <2>1 DEF States
  <2>4. InBuffer(t)
    BY <1>1, <1>2, <2>3 DEF InBuffer
  <2> QED BY <2>2, <2>3, <2>4 DEF Reads, t
<1>3. CASE ~(s.inptr < INBUFSIZ)
  <2>1. t = [s EXCEPT !.inptr = 1, !.used = @ - 8 * INBUFSIZ, !.bk = @ + 8]
    BY <1>3 DEF NextByte
  <2> HIDE DEF t
  <2>2. t \in States /\ OnlyBits(s, t)
    <3>1. 1 \in Int /\ s.used - 8 * INBUFSIZ \in Int /\ s.bk + 8 \in Int
      BY <1>1 DEF States
    <3> QED BY <2>1, <3>1, BitsTyped, Zenon
  <2>3. t.bk = s.bk + 8 /\ t.inptr = 1 /\ t.used = s.used - 8 * INBUFSIZ /\ s.used \in Int
    BY <2>1 DEF States
  <2>4. InBuffer(t)
    BY <1>1, <1>3, <2>3 DEF InBuffer
  <2> QED BY <2>2, <2>3, <2>4 DEF Reads, t
<1> QED BY <1>2, <1>3

LEMMA SameReads == ASSUME NEW s \in States, InBuffer(s) PROVE Reads(s, s)
BY DEF Reads, OnlyBits

(* The loop of NEEDBITS.                                                   *)
Fetch(s, n) == IF s.bk < n THEN NextByte(s) ELSE s

Fetches(s, n, m, f) == f = [i \in 0 .. m |-> IF i = 0 THEN s ELSE Fetch(f[i - 1], n)]

LEMMA FetchesExist ==
  ASSUME NEW s, NEW n, NEW m \in Nat PROVE \E f : Fetches(s, n, m, f)
<1> DEFINE T == {k \in Nat : \E f : Fetches(s, n, k, f)}
<1>1. 0 \in T
  <2>1. Fetches(s, n, 0, [i \in 0 .. 0 |-> s])
    BY DEF Fetches
  <2> QED BY <2>1
<1>2. ASSUME NEW k \in 1 .. m, k - 1 \in T PROVE k \in T
  <2>1. PICK f : Fetches(s, n, k - 1, f)
    BY <1>2
  <2> DEFINE g == [i \in 0 .. k |-> IF i = 0 THEN s ELSE Fetch(f[i - 1], n)]
  <2>2. \A i \in 0 .. k - 1 : g[i] = f[i]
    BY <2>1 DEF Fetches
  <2>3. \A i \in 0 .. k : i # 0 => g[i - 1] = f[i - 1]
    <3>1. \A i \in 0 .. k : i # 0 => i - 1 \in 0 .. k - 1
      OBVIOUS
    <3> HIDE DEF g
    <3> QED BY <2>2, <3>1
  <2>4. Fetches(s, n, k, g)
    BY <2>3 DEF Fetches
  <2> QED BY <2>4
<1> HIDE DEF T
<1>3. \A k \in 0 .. m : k \in T
  BY <1>1, <1>2, UpTo
<1> QED BY <1>3 DEF T

LEMMA NEEDBITSReads ==
  ASSUME NEW s \in States, InBuffer(s), NEW n \in Nat
  PROVE  LET t == NEEDBITS(s, n)
         IN  Reads(s, t) /\ t.bk >= n /\ (t.bk = s.bk \/ t.bk < n + 8)
<1> DEFINE f == CHOOSE g : g = [i \in 0 .. n |-> IF i = 0 THEN s ELSE
                                  LET before == g[i - 1]
                                  IN  IF before.bk < n THEN NextByte(before) ELSE before]
<1>1. f = [i \in 0 .. n |-> IF i = 0 THEN s ELSE Fetch(f[i - 1], n)]
  <2>1. \E g : Fetches(s, n, n, g)
    BY FetchesExist
  <2> QED BY <2>1 DEF Fetches, Fetch
<1>2. NEEDBITS(s, n) = f[n]
  BY DEF NEEDBITS
<1> HIDE DEF f
<1>3. f[0] = s /\ \A i \in 1 .. n : f[i] = Fetch(f[i - 1], n)
  <2>1. 0 \in 0 .. n /\ \A i \in 1 .. n : i \in 0 .. n /\ i # 0
    OBVIOUS
  <2> QED BY <1>1, <2>1
<1> DEFINE Good(i, t) == /\ Reads(s, t) /\ (t.bk >= n \/ t.bk >= s.bk + 8 * i)
                         /\ (t.bk = s.bk \/ t.bk < n + 8)
           T          == {i \in 0 .. n : Good(i, f[i])}
<1>4. 0 \in T
  BY <1>3, SameReads DEF InBuffer
<1>5. ASSUME NEW i \in 1 .. n, i - 1 \in T PROVE i \in T
  <2> DEFINE t == f[i - 1]
  <2>1. Good(i - 1, t) /\ f[i] = Fetch(t, n)
    BY <1>3, <1>5
  <2> HIDE DEF t
  <2>2. t \in States /\ InBuffer(t) /\ t.bk \in Nat /\ s.bk \in Nat
    BY <2>1 DEF Reads, InBuffer
  <2>3. CASE t.bk < n
    <3>1. Reads(t, NextByte(t)) /\ NextByte(t).bk = t.bk + 8 /\ f[i] = NextByte(t)
      BY <2>1, <2>2, <2>3, NextByteReads DEF Fetch
    <3>2. Reads(s, f[i])
      BY <2>1, <3>1, ReadsTwice
    <3> DEFINE b == t.bk
               c == s.bk
    <3>3. b + 8 >= c + 8 * i /\ b + 8 < n + 8
      <4>1. b >= c + 8 * (i - 1) /\ b \in Nat /\ c \in Nat /\ b < n
        BY <2>1, <2>2, <2>3
      <4> HIDE DEF b, c
      <4> QED BY <4>1
    <3> QED BY <3>1, <3>2, <3>3
  <2>4. CASE ~(t.bk < n)
    <3>1. f[i] = t
      BY <2>1, <2>4 DEF Fetch
    <3> QED BY <2>1, <2>2, <2>4, <3>1
  <2> QED BY <2>3, <2>4
<1>6. Good(n, f[n])
  <2> HIDE DEF T
  <2>1. \A i \in 0 .. n : i \in T
    BY <1>4, <1>5, UpTo
  <2> QED BY <2>1 DEF T
<1>7. f[n].bk >= n
  <2>1. f[n].bk \in Nat /\ s.bk \in Nat
    BY <1>6 DEF Reads, InBuffer
  <2> QED BY <1>6, <2>1
<1> QED BY <1>2, <1>6, <1>7

LEMMA DUMPBITSReads ==
  ASSUME NEW s \in States, InBuffer(s), NEW n \in 0 .. s.bk
  PROVE  Reads(s, DUMPBITS(s, n)) /\ DUMPBITS(s, n).bk = s.bk - n
<1> DEFINE t == DUMPBITS(s, n)
<1>1. t = [s EXCEPT !.bk = @ - n, !.used = @ + n] /\ s.bk \in Nat
  BY DEF DUMPBITS, InBuffer
<1> HIDE DEF t
<1>2. t \in States /\ OnlyBits(s, t)
  <2>1. s.bk - n \in Int /\ s.used + n \in Int /\ s.inptr \in Int
    BY DEF States
  <2> QED BY <1>1, <2>1, BitsTyped, Zenon
<1>3. t.bk = s.bk - n /\ t.used = s.used + n /\ t.inptr = s.inptr /\ s.used \in Int
  BY <1>1 DEF States
<1>4. InBuffer(t)
  BY <1>1, <1>3 DEF InBuffer
<1> QED BY <1>2, <1>3, <1>4 DEF Reads, t

(* A look: b bits are needed, and n of them taken.  Of a symbol's table    *)
(* one at least is the code's, so that no more than a byte and what a byte *)
(* has beyond one bit is read ahead.                                       *)
IsLook(b, n) == b \in Nat /\ n \in 0 .. b /\ b <= n + 8

LEMMA LookReads ==
  ASSUME NEW s \in States, InBuffer(s), s.bk <= 15, NEW b, NEW n, IsLook(b, n),
         NEW r, r = DUMPBITS(NEEDBITS(s, b), n)
  PROVE  Reads(s, r) /\ r.bk <= 15
<1> DEFINE t == NEEDBITS(s, b)
<1>1. b \in Nat /\ n \in Nat /\ n <= b /\ b <= n + 8
  BY DEF IsLook
<1>2. Reads(s, t) /\ t.bk >= b /\ (t.bk = s.bk \/ t.bk < b + 8)
  BY <1>1, NEEDBITSReads
<1>3. r = DUMPBITS(t, n)
  OBVIOUS
<1> HIDE DEF t
<1>4. t \in States /\ InBuffer(t) /\ t.bk \in Nat /\ s.bk \in Nat
  BY <1>2 DEF Reads, InBuffer
<1>5. n \in 0 .. t.bk
  BY <1>1, <1>2, <1>4
<1>6. Reads(t, r) /\ r.bk = t.bk - n
  BY <1>3, <1>4, <1>5, DUMPBITSReads
<1>7. r.bk <= 15
  BY <1>1, <1>2, <1>4, <1>6
<1> QED BY <1>2, <1>6, <1>7, ReadsTwice

LEMMA TakeReads ==
  ASSUME NEW s \in States, InBuffer(s), s.bk <= 15, NEW n \in Nat
  PROVE  Reads(s, Take(s, n)) /\ Take(s, n).bk <= 15
<1>1. IsLook(n, n)
  BY DEF IsLook
<1> QED BY <1>1, LookReads DEF Take

Looks(s, p, m, f) ==
  f = [i \in 0 .. m |-> IF i = 0 THEN s ELSE DUMPBITS(NEEDBITS(f[i - 1], p[i][1]), p[i][2])]

LEMMA LooksExist ==
  ASSUME NEW s, NEW p, NEW m \in Nat PROVE \E f : Looks(s, p, m, f)
<1> DEFINE T == {k \in Nat : \E f : Looks(s, p, k, f)}
<1>1. 0 \in T
  <2>1. Looks(s, p, 0, [i \in 0 .. 0 |-> s])
    BY DEF Looks
  <2> QED BY <2>1
<1>2. ASSUME NEW k \in 1 .. m, k - 1 \in T PROVE k \in T
  <2>1. PICK f : Looks(s, p, k - 1, f)
    BY <1>2
  <2> DEFINE g == [i \in 0 .. k |-> IF i = 0 THEN s
                                    ELSE DUMPBITS(NEEDBITS(f[i - 1], p[i][1]), p[i][2])]
  <2>2. \A i \in 0 .. k - 1 : g[i] = f[i]
    BY <2>1 DEF Looks
  <2>3. \A i \in 0 .. k : i # 0 => g[i - 1] = f[i - 1]
    <3>1. \A i \in 0 .. k : i # 0 => i - 1 \in 0 .. k - 1
      OBVIOUS
    <3> HIDE DEF g
    <3> QED BY <2>2, <3>1
  <2>4. Looks(s, p, k, g)
    BY <2>3 DEF Looks
  <2> QED BY <2>4
<1> HIDE DEF T
<1>3. \A k \in 0 .. m : k \in T
  BY <1>1, <1>2, UpTo
<1> QED BY <1>3 DEF T

(* A symbol, and the fields of a block, only read, and no more than 15     *)
(* bits ahead.                                                             *)
LEMMA SymbolReads ==
  ASSUME NEW s \in States, InBuffer(s), s.bk <= 15, NEW p, Len(p) \in Nat,
         \A i \in 1 .. Len(p) : IsLook(p[i][1], p[i][2])
  PROVE  Reads(s, Symbol(s, p)) /\ Symbol(s, p).bk <= 15
<1> DEFINE m == Len(p)
           f == CHOOSE g : g = [i \in 0 .. m |-> IF i = 0 THEN s
                                   ELSE DUMPBITS(NEEDBITS(g[i - 1], p[i][1]), p[i][2])]
<1>1. Looks(s, p, m, f)
  <2>1. \E g : Looks(s, p, m, g)
    BY LooksExist
  <2> QED BY <2>1 DEF Looks
<1>2. Symbol(s, p) = f[m]
  BY DEF Symbol
<1> HIDE DEF f
<1>3. f[0] = s /\ \A i \in 1 .. m : f[i] = DUMPBITS(NEEDBITS(f[i - 1], p[i][1]), p[i][2])
  <2>1. 0 \in 0 .. m /\ \A i \in 1 .. m : i \in 0 .. m /\ i # 0
    OBVIOUS
  <2> QED BY <1>1, <2>1 DEF Looks
<1> DEFINE T == {i \in 0 .. m : Reads(s, f[i]) /\ f[i].bk <= 15}
<1>4. 0 \in T
  BY <1>3, SameReads
<1>5. ASSUME NEW i \in 1 .. m, i - 1 \in T PROVE i \in T
  <2> DEFINE t == f[i - 1]
  <2>1. Reads(s, t) /\ t.bk <= 15 /\ f[i] = DUMPBITS(NEEDBITS(t, p[i][1]), p[i][2])
    BY <1>3, <1>5
  <2> HIDE DEF t
  <2>2. t \in States /\ InBuffer(t)
    BY <2>1 DEF Reads
  <2>3. IsLook(p[i][1], p[i][2])
    OBVIOUS
  <2>4. Reads(t, f[i]) /\ f[i].bk <= 15
    BY <2>1, <2>2, <2>3, LookReads, Zenon
  <2>5. Reads(s, f[i])
    BY <2>1, <2>4, ReadsTwice
  <2> QED BY <2>4, <2>5
<1>6. m \in T
  <2> HIDE DEF T
  <2>1. \A i \in 0 .. m : i \in T
    BY <1>4, <1>5, UpTo
  <2> QED BY <2>1
<1> QED BY <1>2, <1>6

LEMMA PathLooks ==
  ASSUME NEW p, IsPath(p)
  PROVE  Len(p) \in Nat /\ \A i \in 1 .. Len(p) : IsLook(p[i][1], p[i][2])
<1>1. p \in Seq(Nat \X Nat) /\ \A i \in DOMAIN p : p[i][1] \in 1 .. 9 /\ p[i][2] \in 1 .. p[i][1]
  BY DEF IsPath, lbits
<1>2. Len(p) \in Nat /\ DOMAIN p = 1 .. Len(p)
  BY <1>1
<1>3. ASSUME NEW i \in 1 .. Len(p) PROVE IsLook(p[i][1], p[i][2])
  <2> DEFINE b == p[i][1]
             n == p[i][2]
  <2>1. b \in 1 .. 9 /\ n \in 1 .. b
    BY <1>1, <1>2
  <2> HIDE DEF b, n
  <2>2. IsLook(b, n)
    BY <2>1 DEF IsLook
  <2> QED BY <2>2 DEF b, n
<1> QED BY <1>2, <1>3

LEMMA FieldsReads ==
  ASSUME NEW s \in States, InBuffer(s), s.bk <= 15, NEW fields \in Seq(Nat)
  PROVE  Reads(s, Fields(s, fields)) /\ Fields(s, fields).bk <= 15
<1> DEFINE p == [i \in DOMAIN fields |-> <<fields[i], fields[i]>>]
<1>1. DOMAIN fields = 1 .. Len(fields) /\ Len(fields) \in Nat
  OBVIOUS
<1>2. p \in Seq(Nat \X Nat) /\ Len(p) = Len(fields)
  BY <1>1
<1>3. \A i \in 1 .. Len(p) : IsLook(p[i][1], p[i][2])
  BY <1>1, <1>2 DEF IsLook
<1>4. Fields(s, fields) = Symbol(s, p)
  BY DEF Fields
<1> HIDE DEF p
<1> QED BY <1>2, <1>3, <1>4, SymbolReads

-----------------------------------------------------------------------------
(* The text X: what was flushed is its beginning, what is in the window    *)
(* before w its rest, and behind w the last of what was flushed, once a    *)
(* whole window was.                                                       *)
Begun(s, X) == \A i \in 1 .. Len(s.out) : s.out[i] = X[i]

Recent(s, X) == \A x \in 0 .. WSIZE - 1 : x < s.w => s.slide[x] = X[Len(s.out) + x + 1]

Older(s, X) ==
  \A x \in 0 .. WSIZE - 1 :
      x >= s.w /\ Len(s.out) >= WSIZE => s.slide[x] = X[Len(s.out) - WSIZE + x + 1]

Window(s, X) ==
  /\ X \in Texts /\ Len(X) = Len(s.out) + s.w /\ (Len(s.out) = 0 \/ Len(s.out) >= WSIZE)
  /\ Begun(s, X) /\ Recent(s, X) /\ Older(s, X)

(* Nothing is touched but the window.                                      *)
OnlyWindow(s, t) ==
  /\ t.bk = s.bk /\ t.inptr = s.inptr /\ t.used = s.used /\ t.text = s.text
  /\ t.at = s.at /\ t.code = s.code /\ t.left = s.left /\ t.last = s.last

LEMMA WindowTyped ==
  ASSUME NEW s \in States, NEW slide \in Slides, NEW w \in Fills, NEW out \in Texts,
         NEW t, \/ t = [s EXCEPT !.slide = slide, !.w = w]
                \/ t = [s EXCEPT !.out = out, !.w = w]
  PROVE  t \in States /\ OnlyWindow(s, t)
<1>1. t \in States
  BY DEF States
<1>2. OnlyWindow(s, t)
  BY DEF States, OnlyWindow
<1> QED BY <1>1, <1>2

(* One byte more.                                                          *)
WithByte(s, byte) == [s EXCEPT !.slide[s.w] = byte, !.w = @ + 1]

LEMMA ByteInWindow ==
  ASSUME NEW s \in States, NEW X, Window(s, X), s.w < WSIZE, NEW byte \in Values,
         NEW t, t = WithByte(s, byte)
  PROVE  /\ t \in States /\ OnlyWindow(s, t) /\ Window(t, Append(X, byte))
         /\ t.w = s.w + 1 /\ t.out = s.out
<1> DEFINE slide == [s.slide EXCEPT ![s.w] = byte]
           w     == s.w
           Y     == Append(X, byte)
           n     == Len(s.out)
<1>1. WSIZE \in Nat \ {0} /\ w \in 0 .. WSIZE - 1 /\ s.slide \in Slides /\ s.out \in Texts
  BY InflateAssumption DEF States, Fills
<1>2. slide \in Slides /\ slide[w] = byte /\ \A x \in 0 .. WSIZE - 1 : x # w => slide[x] = s.slide[x]
  BY <1>1 DEF Slides
<1>3. t = [s EXCEPT !.slide = slide, !.w = w + 1]
  BY DEF WithByte, States
<1>4. n \in Nat /\ X \in Texts /\ Len(X) = n + w
  BY <1>1 DEF Window, Texts
<1>5. Y \in Texts /\ Len(Y) = n + w + 1 /\ Y[n + w + 1] = byte /\ \A i \in 1 .. n + w : Y[i] = X[i]
  BY <1>4 DEF Texts
<1>6. t.slide = slide /\ t.w = w + 1 /\ t.out = s.out
  BY <1>3 DEF States
<1> HIDE DEF slide, Y, n
<1>7. t \in States /\ OnlyWindow(s, t)
  <2>1. w + 1 \in Fills
    BY <1>1 DEF Fills
  <2> QED BY <1>1, <1>2, <1>3, <2>1, WindowTyped, Zenon
<1>8. Begun(t, Y)
  BY <1>1, <1>4, <1>5, <1>6 DEF Window, Begun, n
<1>9. Recent(t, Y)
  <2> SUFFICES ASSUME NEW x \in 0 .. WSIZE - 1, x < w + 1 PROVE slide[x] = Y[n + x + 1]
    BY <1>6 DEF Recent, n
  <2>1. CASE x = w
    BY <1>2, <1>5, <2>1
  <2>2. CASE x # w
    <3>1. x < w /\ n + x + 1 \in 1 .. n + w
      BY <1>1, <1>4, <2>2
    <3>2. s.slide[x] = X[n + x + 1]
      BY <3>1 DEF Window, Recent, n
    <3> QED BY <1>2, <1>5, <2>2, <3>1, <3>2
  <2> QED BY <2>1, <2>2
<1>10. Older(t, Y)
  <2> SUFFICES ASSUME NEW x \in 0 .. WSIZE - 1, x >= w + 1, n >= WSIZE
               PROVE  slide[x] = Y[n - WSIZE + x + 1]
    BY <1>6 DEF Older, n
  <2>1. x # w /\ x >= w /\ n - WSIZE + x + 1 \in 1 .. n + w
    BY <1>1, <1>4
  <2>2. s.slide[x] = X[n - WSIZE + x + 1]
    BY <2>1 DEF Window, Older, n
  <2> QED BY <1>2, <1>5, <2>1, <2>2
<1>11. Window(t, Y)
  <2>1. Len(Y) = Len(t.out) + t.w
    BY <1>1, <1>4, <1>5, <1>6 DEF n
  <2>2. Len(t.out) = 0 \/ Len(t.out) >= WSIZE
    BY <1>6 DEF Window
  <2> QED BY <1>5, <1>8, <1>9, <1>10, <2>1, <2>2 DEF Window
<1> QED BY <1>6, <1>7, <1>11 DEF Y

LEMMA Joined ==
  ASSUME NEW S, NEW a \in Seq(S), NEW b \in Seq(S)
  PROVE  /\ a \o b \in Seq(S) /\ Len(a \o b) = Len(a) + Len(b)
         /\ \A i \in 1 .. Len(a) + Len(b) : (a \o b)[i] = IF i <= Len(a) THEN a[i] ELSE b[i - Len(a)]
OBVIOUS

(* What is in the window goes out.                                         *)
LEMMA FlushedOut ==
  ASSUME NEW s \in States, NEW X, Window(s, X), NEW t, t = Flushed(s)
  PROVE  t \in States /\ OnlyWindow(s, t) /\ t.w = 0 /\ t.out = X /\ t.slide = s.slide
<1> DEFINE rest == [i \in 1 .. s.w |-> s.slide[i - 1]]
           out  == s.out \o rest
           n    == Len(s.out)
           w    == s.w
<1>1. WSIZE \in Nat \ {0} /\ w \in 0 .. WSIZE /\ s.slide \in Slides /\ s.out \in Texts
  BY InflateAssumption DEF States, Fills
<1>2. n \in Nat /\ X \in Texts /\ Len(X) = n + w
  BY <1>1 DEF Window, Texts
<1>3. rest \in Seq(Values) /\ Len(rest) = w /\ \A i \in 1 .. w : rest[i] = s.slide[i - 1]
  <2>1. \A i \in 1 .. w : s.slide[i - 1] \in Values
    BY <1>1 DEF Slides
  <2> QED BY <1>1, <2>1
<1>4. t = [s EXCEPT !.out = out, !.w = 0]
  BY DEF Flushed
<1> HIDE DEF rest
<1>5. /\ out \in Texts /\ Len(out) = n + w
      /\ \A i \in 1 .. n + w : out[i] = IF i <= n THEN s.out[i] ELSE rest[i - n]
  <2>1. /\ out \in Seq(Values) /\ Len(out) = Len(s.out) + Len(rest)
        /\ \A i \in 1 .. Len(s.out) + Len(rest) :
              out[i] = IF i <= Len(s.out) THEN s.out[i] ELSE rest[i - Len(s.out)]
    BY <1>1, <1>3, Joined, Zenon DEF Texts
  <2> HIDE DEF out
  <2> QED BY <1>3, <2>1 DEF Texts
<1>6. t.out = out /\ t.w = 0 /\ t.slide = s.slide
  BY <1>4 DEF States
<1> HIDE DEF out, n
<1>7. t \in States /\ OnlyWindow(s, t)
  <2>1. 0 \in Fills
    BY <1>1 DEF Fills
  <2> QED BY <1>1, <1>4, <1>5, <2>1, WindowTyped, Zenon
<1>8. ASSUME NEW i \in 1 .. n + w PROVE out[i] = X[i]
  <2>1. CASE i <= n
    BY <1>2, <1>5, <2>1 DEF Window, Begun, n
  <2>2. CASE ~(i <= n)
    <3>1. i - n \in 1 .. w /\ i - n - 1 \in 0 .. WSIZE - 1 /\ i - n - 1 < w
      BY <1>1, <1>2, <2>2
    <3>2. s.slide[i - n - 1] = X[n + (i - n - 1) + 1]
      BY <3>1 DEF Window, Recent, n
    <3>3. n + (i - n - 1) + 1 = i
      BY <1>2
    <3> QED BY <1>3, <1>5, <2>2, <3>1, <3>2, <3>3
  <2> QED BY <2>1, <2>2
<1>9. out = X
  BY <1>2, <1>5, <1>8 DEF Texts
<1> QED BY <1>6, <1>7, <1>9

(* A whole window that is flushed is the last of it.                       *)
LEMMA WholeFlushed ==
  ASSUME NEW s \in States, NEW X, Window(s, X), s.w = WSIZE, NEW t, t = Flushed(s)
  PROVE  Window(t, X)
<1> DEFINE n == Len(s.out)
<1>1. t.w = 0 /\ t.out = X /\ t.slide = s.slide
  BY FlushedOut
<1>2. WSIZE \in Nat \ {0} /\ n \in Nat /\ X \in Texts /\ Len(X) = n + WSIZE
  BY InflateAssumption DEF States, Window, Texts
<1>3. \A x \in 0 .. WSIZE - 1 : s.slide[x] = X[n + x + 1]
  <2> TAKE x \in 0 .. WSIZE - 1
  <2>1. x < s.w
    BY <1>2
  <2> QED BY <2>1 DEF Window, Recent
<1> HIDE DEF n
<1>4. Begun(t, X)
  BY <1>1 DEF Begun
<1>5. Recent(t, X)
  BY <1>1, <1>2 DEF Recent
<1>6. Older(t, X)
  <2> SUFFICES ASSUME NEW x \in 0 .. WSIZE - 1 PROVE t.slide[x] = X[Len(X) - WSIZE + x + 1]
    BY <1>1 DEF Older
  <2>1. Len(X) - WSIZE + x + 1 = n + x + 1
    BY <1>2
  <2> QED BY <1>1, <1>3, <2>1
<1> QED BY <1>1, <1>2, <1>4, <1>5, <1>6 DEF Window

(* A byte is put into the window.                                          *)
LEMMA PutInWindow ==
  ASSUME NEW s \in States, NEW X, Window(s, X), s.w < WSIZE, NEW byte \in Values
  PROVE  /\ Put(s, byte) \in States /\ OnlyWindow(s, Put(s, byte))
         /\ Window(Put(s, byte), Append(X, byte)) /\ Put(s, byte).w < WSIZE
<1> DEFINE t == WithByte(s, byte)
           Y == Append(X, byte)
<1>1. /\ t \in States /\ OnlyWindow(s, t) /\ Window(t, Y)
      /\ t.w = s.w + 1
  BY ByteInWindow
<1>2. Put(s, byte) = IF t.w = WSIZE THEN Flushed(t) ELSE t
  BY DEF Put, WithByte
<1> HIDE DEF t, Y
<1>3. s.w \in 0 .. WSIZE /\ WSIZE \in Nat \ {0}
  BY InflateAssumption DEF States, Fills
<1>4. CASE t.w = WSIZE
  <2>1. /\ Flushed(t) \in States /\ OnlyWindow(t, Flushed(t)) /\ Flushed(t).w = 0
        /\ Window(Flushed(t), Y)
    BY <1>1, <1>4, FlushedOut, WholeFlushed
  <2>2. OnlyWindow(s, Flushed(t))
    BY <1>1, <2>1 DEF OnlyWindow
  <2> QED BY <1>2, <1>3, <1>4, <2>1, <2>2 DEF Y
<1>5. CASE t.w # WSIZE
  BY <1>1, <1>2, <1>3, <1>5 DEF Y
<1> QED BY <1>4, <1>5

(* What is behind the window, as the copy sees it.                         *)
LEMMA SameWindow ==
  ASSUME NEW s, NEW t, OnlyBits(s, t), NEW X, Window(s, X) PROVE Window(t, X)
BY DEF OnlyBits, Window, Begun, Recent, Older

-----------------------------------------------------------------------------
(* inflate_stored: byte by byte.                                           *)
Puts(s, bytes, m, f) ==
  f = [i \in 0 .. m |-> IF i = 0 THEN s ELSE Take(Put(f[i - 1], bytes[i]), 8)]

LEMMA PutsExist ==
  ASSUME NEW s, NEW bytes, NEW m \in Nat PROVE \E f : Puts(s, bytes, m, f)
<1> DEFINE T == {k \in Nat : \E f : Puts(s, bytes, k, f)}
<1>1. 0 \in T
  <2>1. Puts(s, bytes, 0, [i \in 0 .. 0 |-> s])
    BY DEF Puts
  <2> QED BY <2>1
<1>2. ASSUME NEW k \in 1 .. m, k - 1 \in T PROVE k \in T
  <2>1. PICK f : Puts(s, bytes, k - 1, f)
    BY <1>2
  <2> DEFINE g == [i \in 0 .. k |-> IF i = 0 THEN s ELSE Take(Put(f[i - 1], bytes[i]), 8)]
  <2>2. \A i \in 0 .. k - 1 : g[i] = f[i]
    BY <2>1 DEF Puts
  <2>3. \A i \in 0 .. k : i # 0 => g[i - 1] = f[i - 1]
    <3>1. \A i \in 0 .. k : i # 0 => i - 1 \in 0 .. k - 1
      OBVIOUS
    <3> HIDE DEF g
    <3> QED BY <2>2, <3>1
  <2>4. Puts(s, bytes, k, g)
    BY <2>3 DEF Puts
  <2> QED BY <2>4
<1> HIDE DEF T
<1>3. \A k \in 0 .. m : k \in T
  BY <1>1, <1>2, UpTo
<1> QED BY <1>3 DEF T

(* The first m bytes.                                                      *)
First(bytes, m) == [i \in 1 .. m |-> bytes[i]]

LEMMA FirstIs ==
  ASSUME NEW bytes \in Texts
  PROVE  /\ First(bytes, 0) = <<>> /\ First(bytes, Len(bytes)) = bytes
         /\ \A m \in 1 .. Len(bytes) : First(bytes, m) = Append(First(bytes, m - 1), bytes[m])
         /\ \A m \in 0 .. Len(bytes) : First(bytes, m) \in Texts
<1>1. First(bytes, 0) = <<>>
  BY DEF First
<1>2. First(bytes, Len(bytes)) = bytes
  BY DEF First, Texts
<1>3. ASSUME NEW m \in 0 .. Len(bytes) PROVE First(bytes, m) \in Texts /\ Len(First(bytes, m)) = m
  BY DEF First, Texts
<1>4. ASSUME NEW m \in 1 .. Len(bytes)
      PROVE  First(bytes, m) = Append(First(bytes, m - 1), bytes[m])
  <2> DEFINE a == First(bytes, m - 1)
  <2>1. a \in Texts /\ Len(a) = m - 1 /\ m - 1 \in Nat /\ bytes[m] \in Values
    <3>1. m - 1 \in 0 .. Len(bytes) /\ Len(bytes) \in Nat
      BY DEF Texts
    <3> QED BY <1>3, <3>1 DEF Texts
  <2>2. First(bytes, m) \in Texts /\ Len(First(bytes, m)) = m
    <3>1. m \in 0 .. Len(bytes)
      BY DEF Texts
    <3> QED BY <1>3, <3>1
  <2>3. \A i \in 1 .. m - 1 : a[i] = bytes[i]
    BY DEF First
  <2>4. \A i \in 1 .. m : First(bytes, m)[i] = bytes[i]
    BY DEF First
  <2> HIDE DEF a
  <2>5. Append(a, bytes[m]) \in Texts /\ Len(Append(a, bytes[m])) = m
        /\ \A i \in 1 .. m : Append(a, bytes[m])[i] = bytes[i]
    BY <2>1, <2>3 DEF Texts
  <2>6. \A i \in 1 .. m : First(bytes, m)[i] = Append(a, bytes[m])[i]
    BY <2>4, <2>5
  <2>7. First(bytes, m) = Append(a, bytes[m])
    <3> DEFINE b == First(bytes, m)
               c == Append(a, bytes[m])
    <3>1. b \in Texts /\ c \in Texts /\ Len(b) = m /\ Len(c) = m /\ \A i \in 1 .. m : b[i] = c[i]
      BY <2>2, <2>5, <2>6
    <3> HIDE DEF b, c
    <3>2. b = c
      BY <3>1 DEF Texts
    <3> QED BY <3>2 DEF b, c
  <2> QED BY <2>7 DEF a
<1> QED BY <1>1, <1>2, <1>3, <1>4

LEMMA JoinedAppend ==
  ASSUME NEW a \in Texts, NEW b \in Texts, NEW v \in Values
  PROVE  /\ a \o Append(b, v) = Append(a \o b, v) /\ a \o b \in Texts
<1> DEFINE c == a \o Append(b, v)
           d == Append(a \o b, v)
           n == Len(a) + Len(b) + 1
<1>1. a \o b \in Texts /\ Len(a) \in Nat /\ Len(b) \in Nat /\ Len(a \o b) = Len(a) + Len(b)
  BY DEF Texts
<1>2. c \in Texts /\ Len(c) = n /\ d \in Texts /\ Len(d) = n
  BY <1>1 DEF Texts
<1>3. \A i \in 1 .. n : c[i] = d[i]
  BY <1>1 DEF Texts
<1>4. c = d
  <2> HIDE DEF c, d, n
  <2> QED BY <1>2, <1>3 DEF Texts
<1> QED BY <1>1, <1>4

LEMMA JoinedNothing == ASSUME NEW a \in Texts PROVE a \o <<>> = a
BY DEF Texts

(* A state between two blocks, two symbols or two bytes, of the text X.    *)
Sound(s, X) == s \in States /\ InBuffer(s) /\ s.bk <= 15 /\ Window(s, X) /\ s.w < WSIZE

(* Nothing is touched but bits and window.                                 *)
OnlyData(s, t) ==
  t.text = s.text /\ t.at = s.at /\ t.code = s.code /\ t.left = s.left /\ t.last = s.last

LEMMA ReadSound ==
  ASSUME NEW s, NEW X, Sound(s, X), NEW t, Reads(s, t), t.bk <= 15
  PROVE  Sound(t, X) /\ OnlyData(s, t)
BY SameWindow DEF Sound, Reads, OnlyBits, OnlyData

LEMMA PutSound ==
  ASSUME NEW s, NEW X, Sound(s, X), NEW byte \in Values
  PROVE  Sound(Put(s, byte), Append(X, byte)) /\ OnlyData(s, Put(s, byte))
<1> DEFINE t == Put(s, byte)
<1>1. t \in States /\ OnlyWindow(s, t) /\ Window(t, Append(X, byte)) /\ t.w < WSIZE
  BY PutInWindow DEF Sound
<1> HIDE DEF t
<1>2. InBuffer(t) /\ t.bk <= 15 /\ OnlyData(s, t)
  BY <1>1 DEF Sound, InBuffer, OnlyWindow, OnlyData
<1> QED BY <1>1, <1>2 DEF Sound, t

LEMMA DataTwice ==
  ASSUME NEW s, NEW t, NEW r, OnlyData(s, t), OnlyData(t, r) PROVE OnlyData(s, r)
BY DEF OnlyData

LEMMA StoredSound ==
  ASSUME NEW s, NEW X, Sound(s, X), NEW bytes \in Texts
  PROVE  Sound(Stored(s, bytes), X \o bytes) /\ OnlyData(s, Stored(s, bytes))
<1> DEFINE m == Len(bytes)
           f == CHOOSE g : g = [i \in 0 .. m |-> IF i = 0 THEN s
                                                 ELSE Take(Put(g[i - 1], bytes[i]), 8)]
<1>0. m \in Nat
  BY DEF Texts
<1>1. Puts(s, bytes, m, f)
  <2>1. \E g : Puts(s, bytes, m, g)
    BY <1>0, PutsExist
  <2> QED BY <2>1 DEF Puts
<1>2. Stored(s, bytes) = f[m]
  BY DEF Stored
<1> HIDE DEF f
<1>3. f[0] = s /\ \A i \in 1 .. m : f[i] = Take(Put(f[i - 1], bytes[i]), 8)
  <2>1. 0 \in 0 .. m /\ \A i \in 1 .. m : i \in 0 .. m /\ i # 0
    BY <1>0
  <2> QED BY <1>1, <2>1 DEF Puts
<1> DEFINE T == {i \in 0 .. m : Sound(f[i], X \o First(bytes, i)) /\ OnlyData(s, f[i])}
<1>4. 0 \in T
  <2>1. X \o First(bytes, 0) = X
    <3>1. X \in Texts
      BY DEF Sound, Window
    <3>2. First(bytes, 0) = <<>>
      BY FirstIs
    <3> QED BY <3>1, <3>2, JoinedNothing
  <2>2. Sound(f[0], X \o First(bytes, 0)) /\ OnlyData(s, f[0])
    BY <1>3, <2>1 DEF OnlyData
  <2> QED BY <1>0, <2>2
<1>5. ASSUME NEW i \in 1 .. m, i - 1 \in T PROVE i \in T
  <2> DEFINE t == f[i - 1]
             a == First(bytes, i - 1)
             p == Put(t, bytes[i])
  <2>1. Sound(t, X \o a) /\ OnlyData(s, t) /\ f[i] = Take(p, 8)
    BY <1>3, <1>5
  <2>2. /\ bytes[i] \in Values /\ a \in Texts /\ X \in Texts
        /\ First(bytes, i) = Append(a, bytes[i])
    <3>1. i - 1 \in 0 .. m /\ bytes[i] \in Values
      BY <1>0 DEF Texts
    <3>2. X \in Texts
      BY DEF Sound, Window
    <3>3. a \in Texts /\ First(bytes, i) = Append(a, bytes[i])
      BY <3>1, FirstIs, Zenon
    <3> QED BY <3>1, <3>2, <3>3
  <2> HIDE DEF t, a
  <2>3. Sound(p, Append(X \o a, bytes[i])) /\ OnlyData(t, p)
    BY <2>1, <2>2, PutSound
  <2>4. Append(X \o a, bytes[i]) = X \o First(bytes, i)
    <3> DEFINE v == bytes[i]
    <3>1. v \in Values /\ First(bytes, i) = Append(a, v)
      BY <2>2
    <3> HIDE DEF v
    <3>2. X \o Append(a, v) = Append(X \o a, v)
      BY <2>2, <3>1, JoinedAppend, Zenon
    <3> QED BY <3>1, <3>2 DEF v
  <2> HIDE DEF p
  <2>5. Reads(p, Take(p, 8)) /\ Take(p, 8).bk <= 15
    BY <2>3, TakeReads DEF Sound
  <2>6. Sound(f[i], X \o First(bytes, i)) /\ OnlyData(p, f[i])
    BY <2>1, <2>3, <2>4, <2>5, ReadSound
  <2>7. OnlyData(s, f[i])
    BY <2>1, <2>3, <2>6, DataTwice
  <2> QED BY <2>6, <2>7
<1>6. m \in T
  <2> HIDE DEF T
  <2>1. \A i \in 0 .. m : i \in T
    BY <1>0, <1>4, <1>5, UpTo
  <2> QED BY <1>0, <2>1
<1> QED BY <1>2, <1>6, FirstIs

-----------------------------------------------------------------------------
(* Copies.                                                                 *)
Copies == [inf : States, n : Int, d : Int]

(* Where a copy of the distance D is from, when it is to w.                *)
From(w, D) == IF w >= D THEN w - D ELSE w - D + WSIZE

LEMMA CopyByteIs ==
  ASSUME NEW c \in Copies, c.d \in 0 .. WSIZE - 1
  PROVE  CopyByte(c) = [inf |-> WithByte(c.inf, c.inf.slide[c.d]), n |-> c.n, d |-> c.d + 1]
<1>1. c.d < WSIZE
  BY InflateAssumption
<1>2. CopyByte(c) = [c EXCEPT !.inf.slide[c.inf.w] = c.inf.slide[c.d],
                              !.inf.w = @ + 1, !.d = @ + 1]
  BY <1>1 DEF CopyByte
<1> DEFINE v == c.inf.slide[c.d]
<1>3. CopyByte(c) = [c EXCEPT !.inf = WithByte(c.inf, v), !.d = c.d + 1]
  BY <1>2 DEF Copies, States, WithByte
<1> HIDE DEF v
<1>4. c.d + 1 \in Int
  BY DEF Copies
<1> QED BY <1>3, <1>4 DEF Copies, v

(* The byte that is copied is the one at the distance.                     *)
LEMMA FromDistance ==
  ASSUME NEW s \in States, NEW X, Window(s, X), s.w < WSIZE,
         NEW D \in 1 .. WSIZE, D <= Len(X),
         NEW d \in 0 .. WSIZE - 1, d = s.w - D \/ d = s.w - D + WSIZE
  PROVE  s.slide[d] = X[Len(X) + 1 - D] /\ s.slide[d] \in Values
<1> DEFINE w == s.w
           n == Len(s.out)
<1>1. WSIZE \in Nat \ {0} /\ w \in 0 .. WSIZE - 1 /\ s.slide \in Slides /\ n \in Nat
  BY InflateAssumption DEF States, Fills, Texts
<1>2. Len(X) = n + w /\ (n = 0 \/ n >= WSIZE)
  BY DEF Window
<1>3. s.slide[d] \in Values
  BY <1>1 DEF Slides
<1>4. CASE d = w - D
  <2> HIDE DEF n, w
  <2>1. d < w /\ n + d + 1 = Len(X) + 1 - D
    BY <1>1, <1>2, <1>4
  <2>2. s.slide[d] = X[n + d + 1]
    BY <2>1 DEF Window, Recent, n, w
  <2> QED BY <1>3, <2>1, <2>2
<1>5. CASE d = w - D + WSIZE
  <2> HIDE DEF n, w
  <2>1. d >= w /\ n >= WSIZE /\ n - WSIZE + d + 1 = Len(X) + 1 - D
    BY <1>1, <1>2, <1>5
  <2>2. s.slide[d] = X[n - WSIZE + d + 1]
    BY <2>1 DEF Window, Older, n, w
  <2> QED BY <1>3, <2>1, <2>2
<1> QED BY <1>4, <1>5

(* L[i] is a text with i bytes more, each the one at the distance D.       *)
Repeats(L, N, D) ==
  /\ L[0] \in Texts /\ D <= Len(L[0])
  /\ \A i \in 1 .. N : L[i] = Append(L[i - 1], L[i - 1][Len(L[i - 1]) + 1 - D])

LEMMA RepeatsTexts ==
  ASSUME NEW N \in Nat, NEW D \in Nat \ {0}, NEW L, Repeats(L, N, D)
  PROVE  \A i \in 0 .. N : L[i] \in Texts /\ D <= Len(L[i])
<1> DEFINE T == {i \in 0 .. N : L[i] \in Texts /\ D <= Len(L[i])}
<1>1. 0 \in T
  BY DEF Repeats
<1>2. ASSUME NEW i \in 1 .. N, i - 1 \in T PROVE i \in T
  <2> DEFINE t == L[i - 1]
             v == t[Len(t) + 1 - D]
  <2>1. t \in Texts /\ D <= Len(t) /\ L[i] = Append(t, v)
    BY <1>2 DEF Repeats
  <2> HIDE DEF t
  <2>2. v \in Values
    BY <2>1 DEF Texts
  <2> HIDE DEF v
  <2>3. L[i] \in Texts /\ Len(L[i]) = Len(t) + 1 /\ Len(t) \in Nat
    BY <2>1, <2>2 DEF Texts
  <2>4. D <= Len(L[i])
    BY <2>1, <2>3
  <2> QED BY <2>3, <2>4
<1> HIDE DEF T
<1>3. \A i \in 0 .. N : i \in T
  BY <1>1, <1>2, UpTo
<1> QED BY <1>3 DEF T

(* The copy's bytes up to the window's end.                                *)
CopiedBytes(c, m, f) ==
  f = [i \in 0 .. m |-> IF i = 0 THEN c ELSE CopyByte(f[i - 1])]

LEMMA CopiedBytesExist ==
  ASSUME NEW c, NEW m \in Nat PROVE \E f : CopiedBytes(c, m, f)
<1> DEFINE T == {k \in Nat : \E f : CopiedBytes(c, k, f)}
<1>1. 0 \in T
  <2>1. CopiedBytes(c, 0, [i \in 0 .. 0 |-> c])
    BY DEF CopiedBytes
  <2> QED BY <2>1
<1>2. ASSUME NEW k \in 1 .. m, k - 1 \in T PROVE k \in T
  <2>1. PICK f : CopiedBytes(c, k - 1, f)
    BY <1>2
  <2> DEFINE g == [i \in 0 .. k |-> IF i = 0 THEN c ELSE CopyByte(f[i - 1])]
  <2>2. \A i \in 0 .. k - 1 : g[i] = f[i]
    BY <2>1 DEF CopiedBytes
  <2>3. \A i \in 0 .. k : i # 0 => g[i - 1] = f[i - 1]
    <3>1. \A i \in 0 .. k : i # 0 => i - 1 \in 0 .. k - 1
      OBVIOUS
    <3> HIDE DEF g
    <3> QED BY <2>2, <3>1
  <2>4. CopiedBytes(c, k, g)
    BY <2>3 DEF CopiedBytes
  <2> QED BY <2>4
<1> HIDE DEF T
<1>3. \A k \in 0 .. m : k \in T
  BY <1>1, <1>2, UpTo
<1> QED BY <1>3 DEF T

(* A copy under way: r bytes of the N are still to come.                   *)
Copying(c, s, L, N, D) ==
  /\ c \in Copies /\ OnlyWindow(s, c.inf)
  /\ c.n \in 0 .. N /\ Window(c.inf, L[N - c.n]) /\ c.inf.w < WSIZE
  /\ c.d % WSIZE = From(c.inf.w, D)

(* The bytes of a chunk, from a source and to a place that are i behind    *)
(* where the chunk began.                                                  *)
InChunk(c, b, i, L, K) ==
  /\ b \in Copies /\ OnlyWindow(c.inf, b.inf) /\ b.n = c.n
  /\ b.inf.w = c.inf.w + i /\ b.inf.out = c.inf.out /\ Window(b.inf, L[K + i])

LEMMA OneCopied ==
  ASSUME NEW N \in Nat, NEW D \in 1 .. WSIZE, NEW L, Repeats(L, N, D),
         NEW c, NEW K \in Nat, NEW i \in Nat, K + i + 1 \in 1 .. N,
         NEW b, InChunk(c, b, i, L, K), b.inf.w < WSIZE,
         b.d \in 0 .. WSIZE - 1, b.d = b.inf.w - D \/ b.d = b.inf.w - D + WSIZE,
         c.inf \in States
  PROVE  InChunk(c, CopyByte(b), i + 1, L, K) /\ CopyByte(b).d = b.d + 1
<1> DEFINE s == b.inf
           X == L[K + i]
           v == s.slide[b.d]
           k == K + i + 1
           r == CopyByte(b)
<1>1. b \in Copies /\ s \in States /\ Window(s, X) /\ s.w < WSIZE
  BY DEF InChunk, Copies
<1>2. k \in 1 .. N /\ k - 1 \in 0 .. N /\ k - 1 = K + i /\ k = K + (i + 1)
  OBVIOUS
<1>3. WSIZE \in Nat \ {0} /\ D \in Nat \ {0}
  BY InflateAssumption
<1>4. X \in Texts /\ D <= Len(X)
  BY <1>2, <1>3, RepeatsTexts
<1>5. L[k] = Append(X, X[Len(X) + 1 - D])
  BY <1>2 DEF Repeats
<1>6. r = [inf |-> WithByte(s, v), n |-> b.n, d |-> b.d + 1]
  BY <1>1, CopyByteIs
<1> HIDE DEF s, X, k, r
<1>7. v = X[Len(X) + 1 - D] /\ v \in Values
  BY <1>1, <1>4, FromDistance DEF s
<1> HIDE DEF v
<1>8. /\ r.inf \in States /\ OnlyWindow(s, r.inf) /\ Window(r.inf, L[k])
      /\ r.inf.w = s.w + 1 /\ r.inf.out = s.out
  <2>1. r.inf = WithByte(s, v)
    BY <1>6
  <2>2. L[k] = Append(X, v)
    BY <1>5, <1>7
  <2> QED BY <1>1, <1>7, <2>1, <2>2, ByteInWindow
<1>9. r \in Copies
  <2>1. b.n \in Int /\ b.d + 1 \in Int
    BY <1>1 DEF Copies
  <2>2. r = [inf |-> r.inf, n |-> b.n, d |-> b.d + 1]
    BY <1>6
  <2> QED BY <1>8, <2>1, <2>2 DEF Copies
<1>10. OnlyWindow(c.inf, r.inf)
  BY <1>8 DEF InChunk, OnlyWindow, s
<1>11. r.inf.w = c.inf.w + (i + 1) /\ r.inf.out = c.inf.out
  <2>1. c.inf.w \in Int
    BY <1>3 DEF States, Fills
  <2> QED BY <1>8, <2>1 DEF InChunk, s
<1>12. InChunk(c, r, i + 1, L, K)
  <2>1. r.n = c.n /\ L[k] = L[K + (i + 1)]
    BY <1>2, <1>6 DEF InChunk
  <2> QED BY <1>8, <1>9, <1>10, <1>11, <2>1 DEF InChunk
<1> QED BY <1>6, <1>12 DEF r

(* Behind a chunk the source is still at the distance.                     *)
LEMMA SourceMoves ==
  ASSUME NEW D \in 1 .. WSIZE, NEW w \in 0 .. WSIZE - 1, NEW e \in Nat \ {0},
         w + e <= WSIZE, From(w, D) + e <= WSIZE
  PROVE  (From(w, D) + e) % WSIZE = From(IF w + e = WSIZE THEN 0 ELSE w + e, D)
<1> DEFINE d == From(w, D) + e
           v == IF w + e = WSIZE THEN 0 ELSE w + e
<1>1. WSIZE \in Nat \ {0}
  BY InflateAssumption
<1>2. d \in 0 .. WSIZE /\ (d = WSIZE => From(v, D) = 0) /\ (d < WSIZE => From(v, D) = d)
  BY <1>1 DEF From
<1> HIDE DEF d, v
<1>3. CASE d = WSIZE
  <2>1. (WSIZE * 1 + 0) % WSIZE = 0
    BY <1>1, RemainderIs
  <2>2. WSIZE * 1 + 0 = WSIZE
    BY <1>1
  <2> QED BY <1>2, <1>3, <2>1, <2>2 DEF d, v
<1>4. CASE d # WSIZE
  <2>1. d \in 0 .. WSIZE - 1 /\ From(v, D) = d
    BY <1>1, <1>2, <1>4
  <2>2. d % WSIZE = d
    BY <1>1, <2>1, RemainderSmall
  <2> QED BY <2>1, <2>2 DEF d, v
<1> QED BY <1>3, <1>4

LEMMA ChunkCopied ==
  ASSUME NEW N \in Nat, NEW D \in 1 .. WSIZE, NEW L, Repeats(L, N, D),
         NEW s, NEW c, Copying(c, s, L, N, D), c.n > 0
  PROVE  Copying(CopyChunk(c), s, L, N, D) /\ CopyChunk(c).n < c.n
<1> DEFINE from  == c.d % WSIZE
           w     == c.inf.w
           n     == c.n
           e     == Chunk(n, from, w)
           K     == N - n
           start == [c EXCEPT !.d = from]
           f     == CHOOSE g : g = [i \in 0 .. e |-> IF i = 0 THEN start ELSE CopyByte(g[i - 1])]
           b     == f[e]
           last  == [b EXCEPT !.n = @ - e]
           r     == CopyChunk(c)
<1>1. /\ WSIZE \in Nat \ {0} /\ c \in Copies /\ c.inf \in States /\ w \in 0 .. WSIZE - 1
      /\ n \in 1 .. N /\ Window(c.inf, L[K]) /\ from = From(w, D)
  BY InflateAssumption DEF Copying, Copies, States, Fills
<1>2. r = IF last.inf.w = WSIZE THEN [last EXCEPT !.inf = Flushed(last.inf)] ELSE last
  BY DEF CopyChunk
<1>3. start \in Copies /\ start = [inf |-> c.inf, n |-> n, d |-> from] /\ from \in Int
  <2>1. from \in Int
    BY <1>1 DEF From
  <2> HIDE DEF from
  <2> QED BY <1>1, <2>1 DEF Copies
<1> HIDE DEF from, w, n
<1>4. /\ e \in 1 .. n /\ w + e <= WSIZE /\ from + e <= WSIZE /\ K \in Nat /\ K + n = N
      /\ from \in 0 .. WSIZE - 1 /\ (from = w - D \/ from = w - D + WSIZE)
  BY <1>1 DEF Chunk, From
<1>5. CopiedBytes(start, e, f)
  <2>1. e \in Nat
    BY <1>1, <1>4
  <2> HIDE DEF e, start
  <2>2. \E g : CopiedBytes(start, e, g)
    BY <2>1, CopiedBytesExist
  <2> QED BY <2>2 DEF CopiedBytes
<1> HIDE DEF f, e, K, start
<1>6. f[0] = start /\ \A i \in 1 .. e : f[i] = CopyByte(f[i - 1])
  <2>1. 0 \in 0 .. e /\ \A i \in 1 .. e : i \in 0 .. e /\ i # 0
    BY <1>4
  <2> QED BY <1>5, <2>1 DEF CopiedBytes
<1> DEFINE T == {i \in 0 .. e : InChunk(c, f[i], i, L, K) /\ f[i].d = from + i}
<1>7. 0 \in T
  <2>1. w + 0 = w /\ K + 0 = K /\ from + 0 = from /\ 0 \in 0 .. e
    BY <1>1, <1>3, <1>4
  <2>2. start.inf = c.inf /\ start.n = c.n /\ start.d = from
    BY <1>3 DEF n
  <2>3. OnlyWindow(c.inf, c.inf)
    BY DEF OnlyWindow
  <2> QED BY <1>1, <1>3, <1>6, <2>1, <2>2, <2>3 DEF InChunk, w
<1>8. ASSUME NEW i \in 1 .. e, i - 1 \in T PROVE i \in T
  <2> DEFINE p == f[i - 1]
             j == i - 1
  <2>1. InChunk(c, p, j, L, K) /\ p.d = from + j /\ f[i] = CopyByte(p)
    BY <1>6, <1>8
  <2>2. j \in Nat /\ j + 1 = i /\ K + j + 1 \in 1 .. N /\ j < e
    BY <1>1, <1>4
  <2> HIDE DEF p, j
  <2>3. p.inf.w = w + j
    BY <2>1 DEF InChunk, w
  <2>4. p.inf.w < WSIZE /\ p.d \in 0 .. WSIZE - 1 /\ (p.d = p.inf.w - D \/ p.d = p.inf.w - D + WSIZE)
    BY <1>1, <1>4, <2>1, <2>2, <2>3
  <2>5. InChunk(c, CopyByte(p), j + 1, L, K) /\ CopyByte(p).d = p.d + 1
    BY <1>1, <1>4, <2>1, <2>2, <2>4, OneCopied
  <2>6. p.d + 1 = from + i
    BY <1>4, <2>1, <2>2
  <2> QED BY <2>1, <2>2, <2>5, <2>6
<1>9. InChunk(c, b, e, L, K) /\ b.d = from + e
  <2> HIDE DEF T
  <2>1. e \in Nat /\ e \in 0 .. e
    BY <1>1, <1>4
  <2>2. \A i \in 0 .. e : i \in T
    BY <1>7, <1>8, <2>1, UpTo
  <2> QED BY <2>1, <2>2 DEF T
<1> HIDE DEF T, b
<1>10. last = [inf |-> b.inf, n |-> n - e, d |-> from + e] /\ n - e \in 0 .. N /\ from + e \in Int
  <2>1. b.n = n
    BY <1>9 DEF InChunk, n
  <2> QED BY <1>1, <1>4, <1>9, <2>1 DEF InChunk, Copies
<1>11. /\ b.inf \in States /\ b.inf.w = w + e /\ OnlyWindow(s, b.inf)
       /\ Window(b.inf, L[N - (n - e)])
  <2>1. K + e = N - (n - e)
    BY <1>1, <1>4
  <2>2. OnlyWindow(s, b.inf)
    BY <1>9 DEF Copying, InChunk, OnlyWindow
  <2> QED BY <1>9, <2>1, <2>2 DEF InChunk, Copies, w
<1> HIDE DEF last
<1> DEFINE v == IF w + e = WSIZE THEN 0 ELSE w + e
<1>12. (from + e) % WSIZE = From(v, D) /\ v < WSIZE
  <2>1. e \in Nat \ {0}
    BY <1>1, <1>4
  <2>2. (from + e) % WSIZE = From(v, D)
    BY <1>1, <1>4, <2>1, SourceMoves, Zenon
  <2> QED BY <1>1, <1>4, <2>2
<1>13. /\ r.n = n - e /\ r.d = from + e /\ r \in Copies /\ r.inf.w = v
       /\ OnlyWindow(s, r.inf) /\ Window(r.inf, L[N - (n - e)])
  <2> DEFINE t == b.inf
             X == L[N - (n - e)]
  <2>1. t \in States /\ t.w = w + e /\ OnlyWindow(s, t) /\ Window(t, X)
    BY <1>11
  <2>2. CASE w + e = WSIZE
    <3>1. r = [inf |-> Flushed(t), n |-> n - e, d |-> from + e]
      BY <1>2, <1>10, <2>1, <2>2
    <3> HIDE DEF t, X, r
    <3>2. Flushed(t) \in States /\ OnlyWindow(t, Flushed(t)) /\ Flushed(t).w = 0
      BY <2>1, FlushedOut
    <3>3. Window(Flushed(t), X)
      BY <2>1, <2>2, WholeFlushed
    <3>4. OnlyWindow(s, Flushed(t))
      BY <2>1, <3>2 DEF OnlyWindow
    <3>5. n - e \in Int /\ from + e \in Int
      BY <1>1, <1>4
    <3>6. r \in Copies
      BY <3>1, <3>2, <3>5 DEF Copies
    <3> QED BY <2>2, <3>1, <3>2, <3>3, <3>4, <3>6 DEF X
  <2>3. CASE w + e # WSIZE
    <3>1. r = [inf |-> t, n |-> n - e, d |-> from + e]
      BY <1>2, <1>10, <2>1, <2>3
    <3> HIDE DEF t, X, r
    <3>2. n - e \in Int /\ from + e \in Int
      BY <1>1, <1>4
    <3>3. r \in Copies
      BY <2>1, <3>1, <3>2 DEF Copies
    <3> QED BY <2>1, <2>3, <3>1, <3>3 DEF X
  <2> QED BY <2>2, <2>3
<1> HIDE DEF r, v
<1>14. n - e < n
  BY <1>1, <1>4
<1>15. Copying(r, s, L, N, D)
  BY <1>10, <1>12, <1>13 DEF Copying
<1>16. r.n < c.n
  BY <1>13, <1>14 DEF n
<1> QED BY <1>15, <1>16 DEF r

(* The loop over the chunks.                                               *)
Turn(c) == IF c.n > 0 THEN CopyChunk(c) ELSE c

Turns(c, m, f) == f = [i \in 0 .. m |-> IF i = 0 THEN c ELSE Turn(f[i - 1])]

LEMMA TurnsExist == ASSUME NEW c, NEW m \in Nat PROVE \E f : Turns(c, m, f)
<1> DEFINE T == {k \in Nat : \E f : Turns(c, k, f)}
<1>1. 0 \in T
  <2>1. Turns(c, 0, [i \in 0 .. 0 |-> c])
    BY DEF Turns
  <2> QED BY <2>1
<1>2. ASSUME NEW k \in 1 .. m, k - 1 \in T PROVE k \in T
  <2>1. PICK f : Turns(c, k - 1, f)
    BY <1>2
  <2> DEFINE g == [i \in 0 .. k |-> IF i = 0 THEN c ELSE Turn(f[i - 1])]
  <2>2. \A i \in 0 .. k - 1 : g[i] = f[i]
    BY <2>1 DEF Turns
  <2>3. \A i \in 0 .. k : i # 0 => g[i - 1] = f[i - 1]
    <3>1. \A i \in 0 .. k : i # 0 => i - 1 \in 0 .. k - 1
      OBVIOUS
    <3> HIDE DEF g
    <3> QED BY <2>2, <3>1
  <2>4. Turns(c, k, g)
    BY <2>3 DEF Turns
  <2> QED BY <2>4
<1> HIDE DEF T
<1>3. \A k \in 0 .. m : k \in T
  BY <1>1, <1>2, UpTo
<1> QED BY <1>3 DEF T

(* The text that is longer by i bytes.                                     *)
Grown(t, D) == Append(t, t[Len(t) + 1 - D])

Longer(X, D, m, f) == f = [i \in 0 .. m |-> IF i = 0 THEN X ELSE Grown(f[i - 1], D)]

LEMMA LongerExist ==
  ASSUME NEW X, NEW D, NEW m \in Nat PROVE \E f : Longer(X, D, m, f)
<1> DEFINE T == {k \in Nat : \E f : Longer(X, D, k, f)}
<1>1. 0 \in T
  <2>1. Longer(X, D, 0, [i \in 0 .. 0 |-> X])
    BY DEF Longer
  <2> QED BY <2>1
<1>2. ASSUME NEW k \in 1 .. m, k - 1 \in T PROVE k \in T
  <2>1. PICK f : Longer(X, D, k - 1, f)
    BY <1>2
  <2> DEFINE g == [i \in 0 .. k |-> IF i = 0 THEN X ELSE Grown(f[i - 1], D)]
  <2>2. \A i \in 0 .. k - 1 : g[i] = f[i]
    BY <2>1 DEF Longer
  <2>3. \A i \in 0 .. k : i # 0 => g[i - 1] = f[i - 1]
    <3>1. \A i \in 0 .. k : i # 0 => i - 1 \in 0 .. k - 1
      OBVIOUS
    <3> HIDE DEF g
    <3> QED BY <2>2, <3>1
  <2>4. Longer(X, D, k, g)
    BY <2>3 DEF Longer
  <2> QED BY <2>4
<1> HIDE DEF T
<1>3. \A k \in 0 .. m : k \in T
  BY <1>1, <1>2, UpTo
<1> QED BY <1>3 DEF T

LEMMA RepeatedIs ==
  ASSUME NEW X \in Texts, NEW n \in Nat, NEW D \in Nat \ {0}, D <= Len(X)
  PROVE  \E L : Repeats(L, n, D) /\ L[0] = X /\ L[n] = Repeated(X, n, D)
<1> DEFINE f == CHOOSE g : g = [i \in 0 .. n |-> IF i = 0 THEN X
                                  ELSE LET t == g[i - 1] IN Append(t, t[Len(t) + 1 - D])]
<1>1. Longer(X, D, n, f)
  <2>1. \E g : Longer(X, D, n, g)
    BY LongerExist
  <2> QED BY <2>1 DEF Longer, Grown
<1>2. Repeated(X, n, D) = f[n]
  BY DEF Repeated
<1> HIDE DEF f
<1>3. f[0] = X /\ \A i \in 1 .. n : f[i] = Grown(f[i - 1], D)
  <2>1. 0 \in 0 .. n /\ \A i \in 1 .. n : i \in 0 .. n /\ i # 0
    OBVIOUS
  <2> QED BY <1>1, <2>1 DEF Longer
<1>4. Repeats(f, n, D)
  BY <1>3 DEF Repeats, Grown
<1> QED BY <1>2, <1>3, <1>4

(* The window behind a copy is that of the text with the bytes repeated.   *)
LEMMA CopySound ==
  ASSUME NEW s, NEW X, Sound(s, X), NEW n \in Nat, NEW D \in 1 .. WSIZE, D <= Len(X)
  PROVE  /\ Sound(CopyFrom(s, n, s.w - D), Repeated(X, n, D))
         /\ OnlyData(s, CopyFrom(s, n, s.w - D))
<1> DEFINE d  == s.w - D
           c  == [inf |-> s, n |-> n, d |-> d]
           f  == CHOOSE g : g = [i \in 0 .. n |-> IF i = 0 THEN [inf |-> s, n |-> n, d |-> d] ELSE
                                   LET before == g[i - 1]
                                   IN  IF before.n > 0 THEN CopyChunk(before) ELSE before]
<1>1. /\ WSIZE \in Nat \ {0} /\ s \in States /\ s.w \in 0 .. WSIZE - 1 /\ X \in Texts
      /\ Window(s, X) /\ D \in Nat \ {0}
  BY InflateAssumption DEF Sound, Window, States, Fills
<1>2. PICK L : Repeats(L, n, D) /\ L[0] = X /\ L[n] = Repeated(X, n, D)
  BY <1>1, RepeatedIs
<1>3. Turns(c, n, f)
  <2>1. \E g : Turns(c, n, g)
    BY TurnsExist
  <2> QED BY <2>1 DEF Turns, Turn
<1>4. CopyFrom(s, n, s.w - D) = f[n].inf
  BY DEF CopyFrom
<1> HIDE DEF f
<1>5. f[0] = c /\ \A i \in 1 .. n : f[i] = Turn(f[i - 1])
  <2>1. 0 \in 0 .. n /\ \A i \in 1 .. n : i \in 0 .. n /\ i # 0
    OBVIOUS
  <2> QED BY <1>3, <2>1 DEF Turns
<1>6. d % WSIZE = From(s.w, D) /\ d \in Int
  <2> DEFINE w == s.w
  <2>1. CASE w >= D
    <3>1. d \in 0 .. WSIZE - 1 /\ From(w, D) = d
      BY <1>1, <2>1 DEF From
    <3> HIDE DEF d
    <3>2. d % WSIZE = d
      BY <1>1, <3>1, RemainderSmall, Zenon
    <3> QED BY <3>1, <3>2
  <2>2. CASE ~(w >= D)
    <3> DEFINE r == w - D + WSIZE
    <3>1. r \in 0 .. WSIZE - 1 /\ From(w, D) = r /\ d = WSIZE * (0 - 1) + r /\ d \in Int
      BY <1>1, <2>2 DEF From
    <3> HIDE DEF r
    <3>2. 0 - 1 \in Int
      OBVIOUS
    <3>3. (WSIZE * (0 - 1) + r) % WSIZE = r
      BY <1>1, <3>1, <3>2, RemainderIs, Zenon
    <3> HIDE DEF d
    <3> QED BY <3>1, <3>3
  <2> QED BY <2>1, <2>2
<1> DEFINE T == {i \in 0 .. n : Copying(f[i], s, L, n, D) /\ f[i].n <= n - i}
<1>7. 0 \in T
  <2>1. c \in Copies /\ c.inf = s /\ c.n = n /\ c.d = d
    BY <1>1, <1>6 DEF Copies
  <2>2. n - n = 0 /\ n \in 0 .. n /\ n <= n - 0 /\ 0 \in 0 .. n
    OBVIOUS
  <2>3. OnlyWindow(s, s) /\ s.w < WSIZE
    BY <1>1 DEF OnlyWindow
  <2> HIDE DEF c, d
  <2>4. Copying(c, s, L, n, D)
    BY <1>1, <1>2, <1>6, <2>1, <2>2, <2>3 DEF Copying
  <2> QED BY <1>5, <2>1, <2>2, <2>4
<1>8. ASSUME NEW i \in 1 .. n, i - 1 \in T PROVE i \in T
  <2> DEFINE b == f[i - 1]
  <2>1. Copying(b, s, L, n, D) /\ b.n <= n - (i - 1) /\ f[i] = Turn(b)
    BY <1>5, <1>8
  <2> HIDE DEF b
  <2>2. b.n \in Nat
    BY <2>1 DEF Copying
  <2>3. CASE b.n > 0
    <3>1. Copying(f[i], s, L, n, D) /\ f[i].n < b.n
      BY <1>1, <1>2, <2>1, <2>3, ChunkCopied DEF Turn
    <3>2. f[i].n \in Nat
      BY <3>1 DEF Copying
    <3>3. f[i].n <= n - i
      BY <2>1, <2>2, <3>1, <3>2
    <3> QED BY <3>1, <3>3
  <2>4. CASE ~(b.n > 0)
    <3>1. f[i] = b /\ b.n <= n - i
      BY <2>1, <2>2, <2>4 DEF Turn
    <3> QED BY <2>1, <3>1
  <2> QED BY <2>3, <2>4
<1>9. n \in T
  <2> HIDE DEF T
  <2>1. \A i \in 0 .. n : i \in T
    BY <1>7, <1>8, UpTo
  <2> QED BY <2>1
<1> DEFINE b == f[n]
           t == b.inf
<1>10. Copying(b, s, L, n, D) /\ b.n = 0
  <2>1. Copying(b, s, L, n, D) /\ b.n <= n - n
    BY <1>9
  <2> HIDE DEF b
  <2>2. b.n \in Nat
    BY <2>1 DEF Copying
  <2> QED BY <2>1, <2>2
<1> HIDE DEF b
<1>11. /\ t \in States /\ OnlyWindow(s, t) /\ t.w < WSIZE /\ Window(t, L[n])
  <2>1. n - b.n = n
    BY <1>10
  <2> QED BY <1>10, <2>1 DEF Copying, Copies
<1> HIDE DEF t
<1>12. InBuffer(t) /\ t.bk <= 15 /\ OnlyData(s, t)
  BY <1>11 DEF Sound, InBuffer, OnlyWindow, OnlyData
<1> QED BY <1>2, <1>4, <1>11, <1>12 DEF Sound, b, t

-----------------------------------------------------------------------------
(* Behind the last block, when all is flushed and given back.              *)
Finished(s) ==
  /\ s.out = s.text /\ s.text \in Texts /\ s.w = 0
  /\ s.inptr \in Nat /\ s.bk \in 0 .. 7 /\ s.used \in Int /\ 8 * s.inptr = s.used + s.bk

InflateInv ==
  \/ inf.at = "error"
  \/ inf.at # "done" /\ inf.at # "error" /\ Sound(inf, inf.text)
  \/ inf.at = "done" /\ Finished(inf)

(* Where it is, what is left of the lengths, the code and the text do not  *)
(* matter to the window and the bits.                                      *)
Elsewhere(s, X, at, code, left, last, t) ==
  /\ at \in Stages /\ code \in Codes /\ left \in Int /\ last \in BOOLEAN
  /\ \/ t = [s EXCEPT !.at = at, !.last = last] /\ X = s.text
     \/ t = [s EXCEPT !.at = at, !.code = code] /\ X = s.text
     \/ t = [s EXCEPT !.at = at, !.code = code, !.left = left] /\ X = s.text
     \/ t = [s EXCEPT !.left = left, !.at = at] /\ X = s.text
     \/ t = [s EXCEPT !.at = at] /\ X = s.text
     \/ t = [[s EXCEPT !.at = at] EXCEPT !.text = X]
     \/ t = [s EXCEPT !.text = X] /\ at = s.at

LEMMA SoundElsewhere ==
  ASSUME NEW s, NEW X, Sound(s, X),
         NEW at, NEW code, NEW left, NEW last, NEW t, Elsewhere(s, X, at, code, left, last, t)
  PROVE  Sound(t, t.text) /\ t.at = at
<1>1. X \in Texts /\ s \in States
  BY DEF Sound, Window
<1>2. t \in States
  BY <1>1 DEF States, Elsewhere
<1>3. /\ t.slide = s.slide /\ t.w = s.w /\ t.out = s.out /\ t.text = X /\ t.at = at
      /\ t.bk = s.bk /\ t.inptr = s.inptr /\ t.used = s.used
  BY <1>1 DEF States, Elsewhere
<1>4. Window(t, X) /\ InBuffer(t)
  BY <1>3 DEF Sound, Window, Begun, Recent, Older, InBuffer
<1> QED BY <1>2, <1>3, <1>4 DEF Sound

LEMMA FixedIsCode == IsCode(Fixed)
<1>1. /\ Fixed.fields \in Seq(Nat) /\ Fixed.lengths \in Nat /\ Fixed.used = {}
      /\ DOMAIN Fixed = DOMAIN Fixed
  BY DEF Fixed
<1>2. ASSUME NEW n \in 5 .. 9, NEW l \in {5, 7}, NEW longest \in {5, 9}, n <= longest, l <= longest,
             NEW p \in Paths(n, l, longest)
      PROVE  IsPath(p)
  <2>1. CASE n <= l
    <3>1. p = <<<<l, n>>>>
      BY <2>1 DEF Paths
    <3>2. p \in Seq(Nat \X Nat) /\ p # <<>>
      BY <3>1
    <3>3. DOMAIN p = {1} /\ p[1] = <<l, n>>
      BY <3>1
    <3> QED BY <2>1, <3>2, <3>3 DEF IsPath, lbits
  <2>2. CASE ~(n <= l)
    <3>1. PICK j \in n - l .. longest - l : p = <<<<l, l>>, <<j, n - l>>>>
      BY <2>2 DEF Paths
    <3>2. j \in Nat /\ n - l \in Nat
      BY <2>2, <3>1
    <3>3. p \in Seq(Nat \X Nat) /\ p # <<>>
      BY <3>1, <3>2
    <3>4. DOMAIN p = {1, 2} /\ p[1] = <<l, l>> /\ p[2] = <<j, n - l>>
      BY <3>1
    <3>5. l \in 1 .. 9 /\ j \in 1 .. 9 /\ n - l \in 1 .. j /\ l \in 1 .. l
      BY <2>2, <3>1
    <3> QED BY <3>3, <3>4, <3>5 DEF IsPath, lbits
  <2> QED BY <2>1, <2>2
<1>3. \A p \in Fixed.used \cup Fixed.literal \cup Fixed.end \cup Fixed.length \cup Fixed.distance :
         IsPath(p)
  <2>1. Fixed.literal = Paths(8, 7, 9) \cup Paths(9, 7, 9)
    BY DEF Fixed
  <2>2. Fixed.end = Paths(7, 7, 9) /\ Fixed.length = Paths(7, 7, 9) \cup Paths(8, 7, 9)
    BY DEF Fixed
  <2>3. Fixed.distance = Paths(5, 5, 5)
    BY DEF Fixed
  <2>4. \A p \in Paths(8, 7, 9) \cup Paths(9, 7, 9) \cup Paths(7, 7, 9) \cup Paths(5, 5, 5) : IsPath(p)
    BY <1>2
  <2> QED BY <1>1, <2>1, <2>2, <2>3, <2>4
<1> QED BY <1>1, <1>3 DEF IsCode

LEMMA CodesOfBlocks ==
  ASSUME NEW s, NEW X, Sound(s, X)
  PROVE  /\ s.code \in Codes
         /\ \A p \in s.code.used \cup s.code.literal \cup s.code.end
                   \cup s.code.length \cup s.code.distance : IsPath(p)
<1>1. s.code \in Codes
  BY DEF Sound, States
<1>2. IsCode(s.code)
  BY <1>1, FixedIsCode, InflateAssumption DEF Codes
<1> QED BY <1>1, <1>2 DEF IsCode

LEMMA SymbolSound ==
  ASSUME NEW s, NEW X, Sound(s, X), NEW p, IsPath(p)
  PROVE  Sound(Symbol(s, p), X) /\ OnlyData(s, Symbol(s, p))
<1>1. s \in States /\ InBuffer(s) /\ s.bk <= 15
  BY DEF Sound
<1>2. Reads(s, Symbol(s, p)) /\ Symbol(s, p).bk <= 15
  BY <1>1, PathLooks, SymbolReads, Zenon
<1> QED BY <1>2, ReadSound

LEMMA TakeSound ==
  ASSUME NEW s, NEW X, Sound(s, X), NEW n \in Nat
  PROVE  Sound(Take(s, n), X) /\ OnlyData(s, Take(s, n))
<1>1. s \in States /\ InBuffer(s) /\ s.bk <= 15
  BY DEF Sound
<1>2. Reads(s, Take(s, n)) /\ Take(s, n).bk <= 15
  BY <1>1, TakeReads
<1> QED BY <1>2, ReadSound

LEMMA BeginsTyped ==
  ASSUME NEW at \in Stages, NEW code \in Codes, NEW slide \in Slides, 0 \in Fills, <<>> \in Texts,
         NEW i \in Int, NEW u \in Int,
         NEW s, s = [at |-> at, code |-> code, left |-> 0, last |-> FALSE, slide |-> slide, w |-> 0,
                     out |-> <<>>, bk |-> 0, inptr |-> i, used |-> u, text |-> <<>>]
  PROVE  s \in States
BY DEF States

LEMMA InitInflateInv == InitInflate => InflateInv
<1> SUFFICES ASSUME InitInflate PROVE InflateInv
  OBVIOUS
<1>0. PICK i \in 1 .. INBUFSIZ :
          inf = [at |-> "block", code |-> Fixed, left |-> 0, last |-> FALSE,
                 slide |-> [x \in 0 .. WSIZE - 1 |-> 0], w |-> 0, out |-> <<>>,
                 bk |-> 0, inptr |-> i, used |-> i * 8, text |-> <<>>]
  BY DEF InitInflate
<1> DEFINE slide == [x \in 0 .. WSIZE - 1 |-> 0]
<1>1. WSIZE \in Nat \ {0} /\ INBUFSIZ \in Nat \ {0} /\ i \in Nat
  BY InflateAssumption
<1>2. slide \in Slides /\ 0 \in Fills /\ <<>> \in Texts /\ Fixed \in Codes /\ "block" \in Stages
  BY <1>1 DEF Slides, Fills, Texts, Codes, Stages, Values
<1> HIDE DEF slide
<1>3. /\ inf.slide = slide /\ inf.w = 0 /\ inf.out = <<>> /\ inf.text = <<>>
      /\ inf.bk = 0 /\ inf.inptr = i /\ inf.used = i * 8 /\ inf.at = "block"
  BY <1>0 DEF slide
<1>4. inf \in States
  <2> DEFINE u == i * 8
  <2>1. u \in Int /\ i \in Int
    BY <1>1
  <2>2. inf = [at |-> "block", code |-> Fixed, left |-> 0, last |-> FALSE,
               slide |-> slide, w |-> 0, out |-> <<>>,
               bk |-> 0, inptr |-> i, used |-> u, text |-> <<>>]
    BY <1>0 DEF slide
  <2> HIDE DEF u
  <2> QED BY <1>2, <2>1, <2>2, BeginsTyped
<1>5. InBuffer(inf)
  BY <1>1, <1>3 DEF InBuffer
<1>6. Window(inf, <<>>)
  <2>1. Len(<<>>) = 0 + 0
    OBVIOUS
  <2>2. Len(inf.out) = 0
    BY <1>3
  <2> QED BY <1>1, <1>2, <1>3, <2>1, <2>2 DEF Window, Begun, Recent, Older
<1>7. Sound(inf, inf.text)
  BY <1>1, <1>3, <1>4, <1>5, <1>6 DEF Sound
<1> QED BY <1>3, <1>7 DEF InflateInv

(* A step to a place that is not the last.                                 *)
LEMMA GoesOn ==
  ASSUME NEW at \in Stages, at # "done", Sound(inf', inf'.text), inf'.at = at
  PROVE  InflateInv'
<1>1. at # "error"
  BY DEF Stages
<1> QED BY <1>1 DEF InflateInv

LEMMA BlockHeaderStep ==
  ASSUME InflateInv, NEW last \in BOOLEAN, NEW type \in {"stored", "fixed", "dynamic"},
         BlockHeader(last, type)
  PROVE  InflateInv'
<1> DEFINE a == Take(inf, 1)
           b == Take(a, 2)
<1>1. inf.at = "block" /\ inf' = [b EXCEPT !.at = type, !.last = last]
  BY DEF BlockHeader
<1>2. Sound(inf, inf.text) /\ inf \in States
  BY <1>1 DEF InflateInv, Sound
<1>3. Sound(a, inf.text) /\ OnlyData(inf, a)
  BY <1>2, TakeSound
<1> HIDE DEF a
<1>4. Sound(b, inf.text) /\ OnlyData(a, b)
  BY <1>3, TakeSound
<1>5. b.text = inf.text
  BY <1>3, <1>4 DEF OnlyData
<1> HIDE DEF b
<1>6. type \in Stages /\ type # "done" /\ inf.code \in Codes /\ inf.left \in Int
  BY <1>2 DEF Stages, States
<1>7. Sound(inf', inf'.text) /\ inf'.at = type
  <2>1. Elsewhere(b, inf.text, type, inf.code, inf.left, last, inf')
    BY <1>1, <1>4, <1>5, <1>6 DEF Elsewhere
  <2> QED BY <1>4, <2>1, SoundElsewhere
<1> QED BY <1>6, <1>7, GoesOn

LEMMA FixedStep == ASSUME InflateInv, inflate_fixed PROVE InflateInv'
<1>1. inf.at = "fixed" /\ inf' = [inf EXCEPT !.at = "codes", !.code = Fixed]
  BY DEF inflate_fixed
<1>2. Sound(inf, inf.text) /\ inf \in States
  BY <1>1 DEF InflateInv, Sound
<1>3. /\ "codes" \in Stages /\ "codes" # "done" /\ Fixed \in Codes
      /\ inf.left \in Int /\ inf.last \in BOOLEAN
  BY <1>2 DEF Stages, Codes, States
<1>4. Sound(inf', inf'.text) /\ inf'.at = "codes"
  <2>1. Elsewhere(inf, inf.text, "codes", Fixed, inf.left, inf.last, inf')
    BY <1>1, <1>2, <1>3 DEF Elsewhere
  <2> QED BY <1>2, <2>1, SoundElsewhere
<1> QED BY <1>3, <1>4, GoesOn

LEMMA DynamicStep ==
  ASSUME InflateInv, NEW code \in DynamicCodes, inflate_dynamic(code) PROVE InflateInv'
<1> DEFINE t == Fields(inf, code.fields)
           l == code.lengths
<1>1. inf.at = "dynamic" /\ inf' = [t EXCEPT !.at = "lengths", !.code = code, !.left = l]
  BY DEF inflate_dynamic
<1>2. Sound(inf, inf.text) /\ inf \in States /\ InBuffer(inf) /\ inf.bk <= 15
  BY <1>1 DEF InflateInv, Sound
<1>3. code.fields \in Seq(Nat) /\ l \in Int /\ code \in Codes
  BY InflateAssumption DEF IsCode, Codes
<1>4. Reads(inf, t) /\ t.bk <= 15
  BY <1>2, <1>3, FieldsReads
<1> HIDE DEF t, l
<1>5. Sound(t, inf.text) /\ OnlyData(inf, t)
  BY <1>2, <1>4, ReadSound
<1>6. /\ t.text = inf.text /\ "lengths" \in Stages /\ "lengths" # "done"
      /\ inf.last \in BOOLEAN
  BY <1>2, <1>5 DEF OnlyData, Stages, States
<1>7. Sound(inf', inf'.text) /\ inf'.at = "lengths"
  <2>1. Elsewhere(t, inf.text, "lengths", code, l, inf.last, inf')
    BY <1>1, <1>3, <1>5, <1>6 DEF Elsewhere
  <2> QED BY <1>5, <2>1, SoundElsewhere
<1> QED BY <1>6, <1>7, GoesOn

LEMMA LengthCodeStep ==
  ASSUME InflateInv, inf.at # "error", NEW path \in inf.code.used, NEW run \in Runs,
         LengthCode(path, run)
  PROVE  InflateInv'
<1> DEFINE a    == Symbol(inf, path)
           b    == Take(a, run[2])
           at   == IF inf.left = run[1] THEN "codes" ELSE "lengths"
           left == b.left - run[1]
<1>1. inf.at = "lengths" /\ inf' = [b EXCEPT !.left = left, !.at = at]
  BY DEF LengthCode
<1>2. Sound(inf, inf.text) /\ inf \in States
  BY <1>1 DEF InflateInv, Sound
<1>3. run[1] \in Nat /\ run[2] \in Nat
  BY DEF Runs
<1>4. IsPath(path)
  BY <1>2, CodesOfBlocks
<1>5. Sound(a, inf.text) /\ OnlyData(inf, a)
  BY <1>2, <1>4, SymbolSound
<1> HIDE DEF a
<1>6. Sound(b, inf.text) /\ OnlyData(a, b)
  BY <1>3, <1>5, TakeSound
<1> HIDE DEF b
<1>7. b.text = inf.text /\ b.left = inf.left
  BY <1>5, <1>6 DEF OnlyData
<1>8. /\ at \in Stages /\ at # "done" /\ left \in Int /\ inf.code \in Codes
      /\ inf.last \in BOOLEAN
  BY <1>2, <1>3, <1>7 DEF Stages, States
<1> HIDE DEF at, left
<1>9. Sound(inf', inf'.text) /\ inf'.at = at
  <2>1. Elsewhere(b, inf.text, at, inf.code, left, inf.last, inf')
    BY <1>1, <1>6, <1>7, <1>8 DEF Elsewhere
  <2> QED BY <1>6, <2>1, SoundElsewhere
<1> QED BY <1>8, <1>9, GoesOn

LEMMA StoredStep ==
  ASSUME InflateInv, NEW m \in 0 .. MaxStored, NEW bytes \in [1 .. m -> Bytes],
         inflate_stored(bytes)
  PROVE  InflateInv'
<1> DEFINE a  == DUMPBITS(inf, inf.bk % 8)
           b  == Take(Take(a, 16), 16)
           c  == Stored(b, bytes)
           X  == inf.text
           Y  == inf.text \o bytes
           at == IF c.last THEN "flush" ELSE "block"
<1>1. inf.at = "stored" /\ inf' = [Ended(c) EXCEPT !.text = @ \o bytes]
  BY DEF inflate_stored
<1>2. Sound(inf, X) /\ inf \in States /\ InBuffer(inf) /\ inf.bk <= 15 /\ inf.bk \in Nat
  BY <1>1 DEF InflateInv, Sound, InBuffer
<1>3. bytes \in Texts
  BY InflateAssumption DEF Texts, Values
<1>4. Reads(inf, a) /\ a.bk <= 15
  <2>1. inf.bk % 8 \in 0 .. inf.bk
    BY <1>2
  <2>2. Reads(inf, a) /\ a.bk = inf.bk - (inf.bk % 8)
    BY <1>2, <2>1, DUMPBITSReads
  <2> QED BY <1>2, <2>1, <2>2
<1> HIDE DEF a
<1>5. Sound(a, X) /\ OnlyData(inf, a)
  BY <1>2, <1>4, ReadSound
<1>6. Sound(b, X) /\ OnlyData(inf, b)
  <2>1. Sound(Take(a, 16), X) /\ OnlyData(a, Take(a, 16))
    BY <1>5, TakeSound
  <2>2. Sound(b, X) /\ OnlyData(Take(a, 16), b)
    BY <2>1, TakeSound
  <2> QED BY <1>5, <2>1, <2>2, DataTwice
<1> HIDE DEF b
<1>7. Sound(c, Y) /\ OnlyData(b, c)
  BY <1>3, <1>6, StoredSound
<1> HIDE DEF c
<1>8. c.text = inf.text /\ OnlyData(inf, c)
  BY <1>6, <1>7 DEF OnlyData
<1>9. inf' = [[c EXCEPT !.at = at] EXCEPT !.text = Y]
  <2>1. Ended(c) = [c EXCEPT !.at = at]
    BY DEF Ended
  <2>2. Ended(c).text = inf.text
    BY <1>7, <1>8, <2>1 DEF Sound, States
  <2> QED BY <1>1, <2>1, <2>2
<1>10. /\ at \in Stages /\ at # "done" /\ inf.left \in Int /\ inf.code \in Codes
       /\ inf.last \in BOOLEAN
  BY <1>2 DEF Stages, States
<1> HIDE DEF at, Y
<1>11. Sound(inf', inf'.text) /\ inf'.at = at
  <2>1. Elsewhere(c, Y, at, inf.code, inf.left, inf.last, inf')
    BY <1>7, <1>9, <1>10 DEF Elsewhere
  <2> QED BY <1>7, <2>1, SoundElsewhere
<1> QED BY <1>10, <1>11, GoesOn

LEMMA LiteralStep ==
  ASSUME InflateInv, inf.at # "error", NEW byte \in Bytes, NEW path \in inf.code.literal,
         Literal(byte, path)
  PROVE  InflateInv'
<1> DEFINE a == Symbol(inf, path)
           b == Put(a, byte)
           Y == Append(inf.text, byte)
<1>1. inf.at = "codes" /\ inf' = [b EXCEPT !.text = Append(b.text, byte)]
  BY DEF Literal
<1>2. Sound(inf, inf.text) /\ inf \in States
  BY <1>1 DEF InflateInv, Sound
<1>3. byte \in Values
  BY DEF Values
<1>4. IsPath(path)
  BY <1>2, CodesOfBlocks
<1>5. Sound(a, inf.text) /\ OnlyData(inf, a)
  BY <1>2, <1>4, SymbolSound
<1> HIDE DEF a
<1>6. Sound(b, Y) /\ OnlyData(a, b)
  BY <1>3, <1>5, PutSound
<1> HIDE DEF b
<1>7. inf' = [b EXCEPT !.text = Y] /\ b.at = inf.at
  BY <1>1, <1>5, <1>6 DEF OnlyData
<1>8. /\ inf.at \in Stages /\ inf.at # "done" /\ inf.left \in Int /\ inf.code \in Codes
      /\ inf.last \in BOOLEAN
  BY <1>1, <1>2 DEF States
<1> HIDE DEF Y
<1>9. Sound(inf', inf'.text) /\ inf'.at = inf.at
  <2>1. Elsewhere(b, Y, inf.at, inf.code, inf.left, inf.last, inf')
    BY <1>6, <1>7, <1>8 DEF Elsewhere
  <2> QED BY <1>6, <2>1, SoundElsewhere
<1> QED BY <1>8, <1>9, GoesOn

LEMMA EndOfBlockStep ==
  ASSUME InflateInv, inf.at # "error", NEW path \in inf.code.end, EndOfBlock(path)
  PROVE  InflateInv'
<1> DEFINE a  == Symbol(inf, path)
           at == IF a.last THEN "flush" ELSE "block"
<1>1. inf.at = "codes" /\ inf' = [a EXCEPT !.at = at]
  BY DEF EndOfBlock, Ended
<1>2. Sound(inf, inf.text) /\ inf \in States
  BY <1>1 DEF InflateInv, Sound
<1>3. IsPath(path)
  BY <1>2, CodesOfBlocks
<1>4. Sound(a, inf.text) /\ OnlyData(inf, a)
  BY <1>2, <1>3, SymbolSound
<1> HIDE DEF a
<1>5. a.text = inf.text
  BY <1>4 DEF OnlyData
<1>6. /\ at \in Stages /\ at # "done" /\ inf.left \in Int /\ inf.code \in Codes
      /\ inf.last \in BOOLEAN
  BY <1>2 DEF Stages, States
<1> HIDE DEF at
<1>7. Sound(inf', inf'.text) /\ inf'.at = at
  <2>1. Elsewhere(a, inf.text, at, inf.code, inf.left, inf.last, inf')
    BY <1>1, <1>4, <1>5, <1>6 DEF Elsewhere
  <2> QED BY <1>4, <2>1, SoundElsewhere
<1> QED BY <1>6, <1>7, GoesOn

LEMMA CopyStep ==
  ASSUME InflateInv, inf.at # "error", NEW n \in 3 .. WSIZE, NEW distance \in 1 .. WSIZE,
         NEW length \in inf.code.length, NEW lextra \in LengthExtra,
         NEW dcode \in inf.code.distance, NEW dextra \in DistanceExtra,
         Copy(n, distance, length, lextra, dcode, dextra)
  PROVE  InflateInv'
<1> DEFINE X == inf.text
           a == Symbol(inf, length)
           s == Take(a, lextra)
           b == Symbol(s, dcode)
           t == Take(b, dextra)
           r == CopyFrom(t, n, t.w - distance)
           Y == Repeated(X, n, distance)
<1>1. /\ inf.at = "codes" /\ distance <= Len(X)
      /\ inf' = [r EXCEPT !.text = Repeated(r.text, n, distance)]
  BY DEF Copy
<1>2. Sound(inf, X) /\ inf \in States
  BY <1>1 DEF InflateInv, Sound
<1>3. lextra \in Nat /\ dextra \in Nat /\ n \in Nat
  BY InflateAssumption
<1>4. IsPath(length) /\ IsPath(dcode)
  BY <1>2, CodesOfBlocks
<1>5. Sound(a, X) /\ OnlyData(inf, a)
  BY <1>2, <1>4, SymbolSound
<1> HIDE DEF a
<1>6. Sound(s, X) /\ OnlyData(a, s)
  BY <1>3, <1>5, TakeSound
<1> HIDE DEF s
<1>7. Sound(b, X) /\ OnlyData(s, b)
  BY <1>4, <1>6, SymbolSound
<1> HIDE DEF b
<1>8. Sound(t, X) /\ OnlyData(b, t)
  BY <1>3, <1>7, TakeSound
<1> HIDE DEF t
<1>9. Sound(r, Y) /\ OnlyData(t, r)
  BY <1>1, <1>3, <1>8, CopySound
<1> HIDE DEF r
<1>10. r.text = X /\ r.at = inf.at
  BY <1>5, <1>6, <1>7, <1>8, <1>9 DEF OnlyData
<1>11. inf' = [r EXCEPT !.text = Y]
  BY <1>1, <1>10
<1>12. /\ inf.at \in Stages /\ inf.at # "done" /\ inf.left \in Int /\ inf.code \in Codes
       /\ inf.last \in BOOLEAN
  BY <1>1, <1>2 DEF States
<1> HIDE DEF Y
<1>13. Sound(inf', inf'.text) /\ inf'.at = inf.at
  <2>1. Elsewhere(r, Y, inf.at, inf.code, inf.left, inf.last, inf')
    BY <1>9, <1>10, <1>11, <1>12 DEF Elsewhere
  <2> QED BY <1>9, <2>1, SoundElsewhere
<1> QED BY <1>12, <1>13, GoesOn

LEMMA GivenBack ==
  ASSUME NEW b \in 0 .. 15, NEW p \in Nat \ {0}, NEW u \in Int, 8 * p = u + b
  PROVE  b % 8 \in 0 .. 7 /\ p - b \div 8 \in Nat /\ 8 * (p - b \div 8) = u + (b % 8)
OBVIOUS

LEMMA BytesTaken ==
  ASSUME NEW b \in 0 .. 7, NEW p \in Nat, NEW u \in Int, 8 * p = u + b
  PROVE  p = (u + 7) \div 8
OBVIOUS

(* At most one whole byte was read ahead, and the buffer still has it.     *)
LEMMA FinishStep == ASSUME InflateInv, Finish PROVE InflateInv'
<1> DEFINE X == inf.text
           u == Undo(inf)
           t == Flushed(u)
<1>1. inf.at = "flush" /\ inf' = [t EXCEPT !.at = "done"]
  BY DEF Finish
<1>2. Sound(inf, X) /\ inf \in States /\ InBuffer(inf) /\ inf.bk <= 15
  BY <1>1 DEF InflateInv, Sound
<1>3. INBUFSIZ \in Nat \ {0}
  BY InflateAssumption
<1>4. /\ inf.bk \in Nat /\ inf.inptr \in 1 .. INBUFSIZ /\ inf.used \in Int
      /\ 8 * inf.inptr = inf.used + inf.bk
  BY <1>2 DEF InBuffer, States
<1> DEFINE k == inf.bk % 8
           p == inf.inptr - inf.bk \div 8
<1>5. /\ k \in 0 .. 7 /\ p \in Nat /\ 8 * p = inf.used + k
  <2>1. inf.bk \in 0 .. 15 /\ inf.inptr \in Nat \ {0}
    BY <1>2, <1>3, <1>4
  <2> QED BY <1>4, <2>1, GivenBack, Zenon
<1>6. u = [inf EXCEPT !.inptr = p, !.bk = k]
  <2>1. u = [inf EXCEPT !.bk = k, !.inptr = p]
    BY DEF Undo
  <2> HIDE DEF k, p, u
  <2> QED BY <1>2, <2>1 DEF States
<1>7. u \in States /\ OnlyBits(inf, u) /\ u.bk = k /\ u.inptr = p /\ u.used = inf.used
  <2> HIDE DEF k, p, u
  <2>1. k \in Int /\ p \in Int
    BY <1>5
  <2>2. u \in States /\ OnlyBits(inf, u)
    BY <1>2, <1>4, <1>6, <2>1, BitsTyped, Zenon
  <2> QED BY <1>2, <1>6, <2>2 DEF States
<1> HIDE DEF k, p, u
<1>8. Window(u, X)
  BY <1>2, <1>7, SameWindow DEF Sound
<1>9. t \in States /\ OnlyWindow(u, t) /\ t.w = 0 /\ t.out = X
  BY <1>7, <1>8, FlushedOut
<1> HIDE DEF t
<1>10. t.text = X /\ t.bk = k /\ t.inptr = p /\ t.used = inf.used
  BY <1>7, <1>9 DEF OnlyBits, OnlyWindow
<1>11. /\ inf'.at = "done" /\ inf'.out = X /\ inf'.text = X /\ inf'.w = 0 /\ inf'.bk = k
       /\ inf'.inptr = p /\ inf'.used = inf.used /\ X \in Texts
  BY <1>1, <1>2, <1>9, <1>10 DEF States
<1>12. Finished(inf')
  BY <1>4, <1>5, <1>11 DEF Finished
<1> QED BY <1>11, <1>12 DEF InflateInv

LEMMA InflateStepKeeps == InflateInv /\ [InflateStep]_inf => InflateInv'
<1> SUFFICES ASSUME InflateInv, [InflateStep]_inf PROVE InflateInv'
  OBVIOUS
<1>1. CASE UNCHANGED inf
  BY <1>1 DEF InflateInv
<1>2. CASE InflateStep
  <2>0. inf.at # "error"
    BY <1>2 DEF InflateStep
  <2>1. ASSUME NEW last \in BOOLEAN, NEW type \in {"stored", "fixed", "dynamic"},
               BlockHeader(last, type)
        PROVE  InflateInv'
    BY <2>1, BlockHeaderStep
  <2>2. CASE inflate_fixed
    BY <2>2, FixedStep
  <2>3. ASSUME NEW code \in DynamicCodes, inflate_dynamic(code) PROVE InflateInv'
    BY <2>3, DynamicStep
  <2>4. ASSUME NEW path \in inf.code.used, NEW run \in {r \in Runs : r[1] <= inf.left},
               LengthCode(path, run)
        PROVE  InflateInv'
    BY <2>0, <2>4, LengthCodeStep
  <2>5. ASSUME NEW m \in 0 .. MaxStored, NEW bytes \in [1 .. m -> Bytes], inflate_stored(bytes)
        PROVE  InflateInv'
    BY <2>5, StoredStep
  <2>6. ASSUME NEW byte \in Bytes, NEW path \in inf.code.literal, Literal(byte, path)
        PROVE  InflateInv'
    BY <2>0, <2>6, LiteralStep
  <2>7. ASSUME NEW n \in 3 .. WSIZE, NEW distance \in 1 .. WSIZE, NEW length \in inf.code.length,
               NEW lextra \in LengthExtra, NEW dcode \in inf.code.distance,
               NEW dextra \in DistanceExtra,
               Copy(n, distance, length, lextra, dcode, dextra)
        PROVE  InflateInv'
    BY <2>0, <2>7, CopyStep
  <2>8. ASSUME NEW path \in inf.code.end, EndOfBlock(path) PROVE InflateInv'
    BY <2>0, <2>8, EndOfBlockStep
  <2>9. CASE Refuse
    BY <2>9 DEF Refuse, InflateInv
  <2>10. CASE Finish
    BY <2>10, FinishStep
  <2> QED BY <1>2, <2>1, <2>2, <2>3, <2>4, <2>5, <2>6, <2>7, <2>8, <2>9, <2>10 DEF InflateStep
<1> QED BY <1>1, <1>2

(* The invariant holds of every sequence of blocks the decompressor can    *)
(* be given, wherever in the input buffer they begin.                      *)
THEOREM InflateInvHolds == SpecInflate => []InflateInv
BY InitInflateInv, InflateStepKeeps, PTL DEF SpecInflate

LEMMA InflateInvTail == InflateInv => WindowIsTail
<1> SUFFICES ASSUME InflateInv, inf.at # "error"
             PROVE  /\ inf.out \o [i \in 1 .. inf.w |-> inf.slide[i - 1]] = inf.text
                    /\ inf.at = "done" => inf.out = inf.text
  BY DEF WindowIsTail
<1> DEFINE rest == [i \in 1 .. inf.w |-> inf.slide[i - 1]]
<1>1. CASE inf.at # "done" /\ Sound(inf, inf.text)
  <2>1. inf \in States /\ Flushed(inf).out = inf.text
    BY <1>1, FlushedOut DEF Sound
  <2>2. Flushed(inf).out = inf.out \o rest
    BY <2>1 DEF Flushed, States
  <2> QED BY <1>1, <2>1, <2>2
<1>2. CASE inf.at = "done" /\ Finished(inf)
  <2>1. inf.out = inf.text /\ inf.text \in Texts /\ inf.w = 0
    BY <1>2 DEF Finished
  <2>2. rest = <<>>
    BY <2>1
  <2>3. inf.out \o <<>> = inf.out
    BY <2>1, JoinedNothing
  <2> QED BY <2>1, <2>2, <2>3
<1> QED BY <1>1, <1>2 DEF InflateInv

(* What was flushed and what is in the window is the text, for every size  *)
(* of the window and every code: no copy reads a place of the window that  *)
(* was overwritten, or is still to be written (inflate.c:398-417).         *)
THEOREM WindowIsAlwaysTail == SpecInflate => []WindowIsTail
BY InflateInvHolds, InflateInvTail, PTL

LEMMA InflateInvUndone == InflateInv => LookaheadUndone
<1> SUFFICES ASSUME InflateInv, inf.at = "done"
             PROVE  inf.inptr >= 0 /\ inf.inptr = (inf.used + 7) \div 8
  BY DEF LookaheadUndone
<1>1. Finished(inf)
  BY DEF InflateInv
<1>2. /\ inf.bk \in 0 .. 7 /\ inf.inptr \in Nat /\ inf.used \in Int
      /\ 8 * inf.inptr = inf.used + inf.bk
  BY <1>1 DEF Finished
<1>3. inf.inptr = (inf.used + 7) \div 8
  BY <1>2, BytesTaken, Zenon
<1> QED BY <1>2, <1>3

(* Behind the last block the input goes on at the byte behind the last bit *)
(* (inflate.c:796-799): what was read ahead of a symbol is no more than    *)
(* one whole byte, and the buffer still holds it.                          *)
THEOREM LookaheadAlwaysUndone == SpecInflate => []LookaheadUndone
BY InflateInvHolds, InflateInvUndone, PTL
===============================================================================
