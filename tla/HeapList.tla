----------------------------- MODULE HeapList -----------------------------
(***************************************************************************)
(* The list of memory blocks that the kernel's heap (hal/kmalloc.cpp) and  *)
(* the heap of a program (lib/malloc.cpp) keep in the same way: each block *)
(* begins with a header, and the list is kept in the order in which the    *)
(* blocks were cut, not in the order of addresses.                         *)
(***************************************************************************)
EXTENDS Integers, Sequences, FiniteSets

CONSTANT Header   \* sizeof(mb)

Block(addr, size, free) == [addr |-> addr, size |-> size, free |-> free]
End(b) == b.addr + Header + b.size

IndexAt(bs, addr) == {i \in DOMAIN bs : bs[i].addr = addr}

\* Blocks i to j of the list with others in their place.
Replaced(bs, i, j, new) == SubSeq(bs, 1, i - 1) \o new \o SubSeq(bs, j + 1, Len(bs))

\* Take block i as it is, or cut n off its front.  Faulty: the block taken is
\* still marked free, room is kept for a header behind the rest, or the rest's
\* own header is not counted.
TakenStill(bs, i) == bs
Taken(bs, i) == [bs EXCEPT ![i].free = FALSE]
CutAs(bs, i, n, rest) ==
  Replaced(bs, i, i, <<Block(bs[i].addr, n, FALSE), Block(bs[i].addr + n + Header, rest, TRUE)>>)
CutTwice(bs, i, n) == CutAs(bs, i, n, bs[i].size - n - 2 * Header)
CutLong(bs, i, n) == CutAs(bs, i, n, bs[i].size - n)
Cut(bs, i, n) == CutAs(bs, i, n, bs[i].size - n - Header)

\* The block behind i, if it is free and begins where i ends, becomes part of i.
\* Faulty: it does so wherever it begins, or forgets the room of its header.
Joined(bs, i, size) == Replaced(bs, i, i + 1, <<Block(bs[i].addr, size, TRUE)>>)
AbsorbedAnyway(bs, i) ==
  IF i < Len(bs) /\ bs[i].free /\ bs[i + 1].free
  THEN Joined(bs, i, bs[i].size + Header + bs[i + 1].size)
  ELSE bs
AbsorbedShort(bs, i) ==
  IF i < Len(bs) /\ bs[i].free /\ bs[i + 1].free /\ End(bs[i]) = bs[i + 1].addr
  THEN Joined(bs, i, bs[i].size + bs[i + 1].size)
  ELSE bs
Absorbed(bs, i) ==
  IF i < Len(bs) /\ bs[i].free /\ bs[i + 1].free /\ End(bs[i]) = bs[i + 1].addr
  THEN Joined(bs, i, bs[i].size + Header + bs[i + 1].size)
  ELSE bs

\* free and kfree look for a block in use at the address, and loop for ever or
\* panic without one.
InUse(bs, addr) == {i \in IndexAt(bs, addr) : ~bs[i].free}

\* Faulty: a block is not merged with the one in front of it.
FreedForward(bs, addr) ==
  LET i == CHOOSE j \in InUse(bs, addr) : TRUE
  IN Absorbed([bs EXCEPT ![i].free = TRUE], i)
Freed(bs, addr) ==
  LET i == CHOOSE j \in InUse(bs, addr) : TRUE
      merged == Absorbed([bs EXCEPT ![i].free = TRUE], i)
  IN IF i = 1 THEN merged ELSE Absorbed(merged, i - 1)

-----------------------------------------------------------------------------
(* What both heaps promise of a list bs *)

Overlap(b, c) == b.addr < End(c) /\ c.addr < End(b)

\* No two blocks share a byte.
Disjoint(bs) == \A i, j \in DOMAIN bs : i # j => ~Overlap(bs[i], bs[j])

\* The bytes of all blocks with their headers, and of the pages ps of a heap.
Bytes(bs) == UNION {bs[i].addr..(End(bs[i]) - 1) : i \in DOMAIN bs}
Memory(ps, page) == UNION {(p * page)..(p * page + page - 1) : p \in ps}

\* Where the blocks in use are.
Occupied(bs) == {bs[i].addr : i \in {j \in DOMAIN bs : ~bs[j].free}}

\* No two neighbours are both free: a free space is as large as it can be.
Coalesced(bs) ==
  \A i \in 1..(Len(bs) - 1) :
     ~(bs[i].free /\ bs[i + 1].free /\ End(bs[i]) = bs[i + 1].addr)
=============================================================================
