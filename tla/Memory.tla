-------------------------------- MODULE Memory --------------------------------
(***************************************************************************)
(* mem.c: the kernel's allocator.  The list of free blocks is doubly       *)
(* linked through headers in the blocks themselves; it is kept here as the *)
(* sequence of the blocks' addresses and the sizes their headers give.     *)
(* kfree() does nothing.                                                   *)
(***************************************************************************)
EXTENDS Integers, Sequences, FiniteSets

CONSTANTS
    FREEMEM,     \* where the kernel's image and stack end
    HOLESTART,   \* the hole of the video memory and the BIOS
    HOLEEND,
    MEMEND,      \* 4 MB, whatever the machine has
    Requests,    \* arguments of kmalloc
    MaxBlocks    \* bound: no more than so many blocks are allocated

PARAGRAPH == 16
HEADER    == 12      \* sizeof(mem)

Paragraph(n) == (n \div PARAGRAPH) * PARAGRAPH

ASSUME MemoryAssumption ==
    /\ FREEMEM \in Nat /\ HOLESTART \in Nat /\ HOLEEND \in Nat /\ MEMEND \in Nat
    /\ FREEMEM + PARAGRAPH <= HOLESTART /\ HOLESTART <= HOLEEND /\ HOLEEND <= MEMEND
    /\ Requests \subseteq Nat \ {0} /\ MaxBlocks \in Nat

VARIABLE mem     \* the free list, and the blocks that were handed out

Block(addr, size) == [addr |-> addr, size |-> size]

(* kmeminit: what is below the hole, and what is above it.                 *)
kmeminit ==
    LET s == Paragraph(FREEMEM + PARAGRAPH)
    IN  <<Block(s, HOLESTART - s), Block(HOLEEND, MEMEND - HOLEEND)>>

InitMemory == mem = [free |-> kmeminit, used |-> <<>>]

Rounded(size) ==
    IF size % PARAGRAPH # 0 THEN Paragraph(size + PARAGRAPH) ELSE size

(* The first block that is large enough; behind the last if none is.       *)
FirstFit(free, size) ==
    CHOOSE i \in 1 .. Len(free) + 1 :
        /\ \A j \in 1 .. i - 1 : free[j].size < size
        /\ i > Len(free) \/ free[i].size >= size

(* The rest of a block is a block with the header of the whole one: its    *)
(* size is not made smaller.                                               *)
(* Mutant: the rest starts where the whole block did.                      *)
Split_InPlace(free, i, size) == free
Split(free, i, size) == [free EXCEPT ![i].addr = @ + size]

Unlink(free, i) == SubSeq(free, 1, i - 1) \o SubSeq(free, i + 1, Len(free))

kmalloc(size) ==
    LET need == Rounded(size)
        i    == FirstFit(mem.free, need)
    IN  IF i > Len(mem.free) THEN UNCHANGED mem        \* returns 0
        ELSE mem' =
            [free |-> IF mem.free[i].size - need < HEADER THEN Unlink(mem.free, i)
                      ELSE Split(mem.free, i, need),
             used |-> Append(mem.used, Block(mem.free[i].addr, need))]

Allocate == Len(mem.used) < MaxBlocks /\ \E size \in Requests : kmalloc(size)

-----------------------------------------------------------------------------
End(b) == b.addr + b.size

Disjoint(a, b) == End(a) <= b.addr \/ End(b) <= a.addr

Given[n \in 0 .. MaxBlocks] == IF n = 0 THEN 0 ELSE Given[n - 1] + mem.used[n].size

(* No two blocks overlap and none reaches into the hole or beyond the end, *)
(* nor into the header of a free block, until more has been handed out     *)
(* than there is below the hole: then the allocator goes on into it.       *)
BlocksApart ==
    Given[Len(mem.used)] <= HOLESTART - kmeminit[1].addr =>
        \A i \in DOMAIN mem.used :
            /\ \E b \in {kmeminit[1], kmeminit[2]} :
                  b.addr <= mem.used[i].addr /\ End(mem.used[i]) <= End(b)
            /\ \A j \in DOMAIN mem.used : i # j => Disjoint(mem.used[i], mem.used[j])
            /\ \A j \in DOMAIN mem.free : mem.free[j].addr >= End(mem.used[i])
                                          \/ mem.free[j].addr < mem.used[i].addr
=============================================================================
