--------------------------- MODULE MemoryManager ---------------------------
(***************************************************************************)
(* The guest heap of warpine: struct MemoryManager of loader/managers.rs,  *)
(* the allocator behind DosAllocMem, thread stacks, DLL objects, shared    *)
(* memory, queue reads and INITTERM frames.  Every call runs under the     *)
(* mem_mgr lock, so each is one step.                                      *)
(*                                                                         *)
(* A block of size 0 is possible: alloc rounds 0 up to 0 and still records *)
(* the block (DosReadQueue of an empty element asks for one).              *)
(***************************************************************************)
EXTENDS Integers, Sequences, SequencesExt

CONSTANTS PageSize,   \* 4096 in the code
          Base,       \* DYNAMIC_ALLOC_BASE
          Limit,      \* end of guest memory
          MaxU32,     \* 2^32 - 1 in the code
          Sizes,      \* the request sizes guests use
          MaxBlocks   \* bound: zero-size blocks would grow the list for ever

ASSUME MemAssumption ==
  /\ PageSize \in Nat \ {0}
  /\ Base \in Nat /\ Limit \in Nat /\ MaxU32 \in Nat
  /\ Base <= Limit /\ Limit <= MaxU32
  /\ Sizes \subseteq Nat
  /\ MaxBlocks \in Nat

VARIABLES allocated,  \* Vec<AllocBlock> handed out, in order of allocation
          free_list,  \* Vec<AllocBlock> given back, searched first-fit
          next_free   \* the bump pointer

memVars == <<allocated, free_list, next_free>>

Block == [addr : Nat, size : Nat]

Stop(b) == b.addr + b.size

RoundUp(n) == ((n + (PageSize - 1)) \div PageSize) * PageSize

MemInit ==
  /\ allocated = <<>>
  /\ free_list = <<>>
  /\ next_free = Base

-----------------------------------------------------------------------------
(* alloc(size).  Its checked_add is the guard RequestFits.                 *)

RequestFits(n) == n + (PageSize - 1) <= MaxU32

\* position(|b| b._size >= size): the index of the first block large enough
FirstFit(k, size) ==
  /\ k \in 1..Len(free_list)
  /\ free_list[k].size >= size
  /\ \A j \in 1..(k - 1) : free_list[j].size < size

NoFit(size) == \A j \in 1..Len(free_list) : free_list[j].size < size

\* mutant of Split: the remainder keeps the size of the whole block
SplitKeepsSize(b, size) ==
  IF b.size > size THEN <<[addr |-> b.addr + size, size |-> b.size]>> ELSE <<>>

\* a remainder goes back to the END of the free list
Split(b, size) ==
  IF b.size > size
    THEN <<[addr |-> b.addr + size, size |-> b.size - size]>>
    ELSE <<>>

AllocReuse(n, addr) ==
  /\ RequestFits(n)
  /\ \E k \in 1..Len(free_list) :
       /\ FirstFit(k, RoundUp(n))
       /\ addr = free_list[k].addr
       /\ free_list' = RemoveAt(free_list, k) \o Split(free_list[k], RoundUp(n))
       /\ allocated' = Append(allocated, [addr |-> addr, size |-> RoundUp(n)])
  /\ UNCHANGED next_free

AllocBump(n, addr) ==
  /\ RequestFits(n)
  /\ NoFit(RoundUp(n))
  /\ next_free + RoundUp(n) <= Limit
  /\ addr = next_free
  /\ allocated' = Append(allocated, [addr |-> addr, size |-> RoundUp(n)])
  /\ next_free' = next_free + RoundUp(n)
  /\ UNCHANGED free_list

\* alloc returns Some(addr)
Alloc(n, addr) == AllocReuse(n, addr) \/ AllocBump(n, addr)

\* alloc returns None: nothing changes
AllocNone(n) ==
  /\ \/ ~RequestFits(n)
     \/ NoFit(RoundUp(n)) /\ next_free + RoundUp(n) > Limit
  /\ UNCHANGED memVars

-----------------------------------------------------------------------------
(* free(addr)                                                              *)

\* position(|b| b.addr == addr)
FirstAt(k, addr) ==
  /\ k \in 1..Len(allocated)
  /\ allocated[k].addr = addr
  /\ \A j \in 1..(k - 1) : allocated[j].addr # addr

\* sort_by_key(|b| b.addr), a stable sort, moves s[p[i]] to place i
SortOrder(s) ==
  {p \in Bijection(1..Len(s), 1..Len(s)) :
     \A i, j \in 1..Len(s) :
       i < j => \/ s[p[i]].addr < s[p[j]].addr
                \/ s[p[i]].addr = s[p[j]].addr /\ p[i] < p[j]}

\* mutant of Reclaims: if instead of while, one block at most is reclaimed
ReclaimsOne(t, n, top) ==
  IF t # <<>> /\ Stop(Last(t)) = top THEN n = Len(t) - 1 ELSE n = Len(t)

\* The while loop keeps the first n blocks of t: every block behind them ends
\* where the next one (or the bump pointer) begins, block n does not.
Reclaims(t, n, top) ==
  LET Above(i) == IF i = Len(t) THEN top ELSE t[i + 1].addr IN
  /\ \A i \in (n + 1)..Len(t) : Stop(t[i]) = Above(i)
  /\ n > 0 => Stop(t[n]) # Above(n)

FreeAt(addr) ==
  \E k \in 1..Len(allocated) :
    /\ FirstAt(k, addr)
    /\ allocated' = RemoveAt(allocated, k)
    /\ LET freed == Append(free_list, allocated[k]) IN
       \E p \in SortOrder(freed), n \in 0..Len(freed) :
         LET t == [i \in 1..Len(freed) |-> freed[p[i]]] IN
         /\ Reclaims(t, n, next_free)
         /\ free_list' = SubSeq(t, 1, n)
         /\ next_free' = IF n = Len(t) THEN next_free ELSE t[n + 1].addr

\* free returns false: no block starts at addr
FreeUnknown(addr) ==
  /\ \A k \in 1..Len(allocated) : allocated[k].addr # addr
  /\ UNCHANGED memVars

-----------------------------------------------------------------------------
DosAllocMem(cb) ==
  /\ Len(allocated) + Len(free_list) < MaxBlocks
  /\ \E addr \in Base..Limit : Alloc(cb, addr)

DosAllocMemFails(cb) == AllocNone(cb)

DosFreeMem(pb) == FreeAt(pb) \/ FreeUnknown(pb)

MemNext ==
  \/ \E cb \in Sizes : DosAllocMem(cb) \/ DosAllocMemFails(cb)
  \/ \E pb \in Base..Limit : DosFreeMem(pb)

MemSpec == MemInit /\ [][MemNext]_memVars

-----------------------------------------------------------------------------
(* Properties.                                                             *)

MemTypeOK ==
  /\ allocated \in Seq(Block)
  /\ free_list \in Seq(Block)
  /\ next_free \in Base..Limit

Apart(b, c) == b.size = 0 \/ c.size = 0 \/ Stop(b) <= c.addr \/ Stop(c) <= b.addr

\* No two blocks overlap, whether handed out or free: first-fit with splitting,
\* the bump pointer and the reclaiming loop of free never give the same byte
\* of guest memory to two owners.
NoOverlap ==
  /\ \A i, j \in 1..Len(allocated) : i # j => Apart(allocated[i], allocated[j])
  /\ \A i, j \in 1..Len(free_list) : i # j => Apart(free_list[i], free_list[j])
  /\ \A i \in 1..Len(allocated), j \in 1..Len(free_list) :
       Apart(allocated[i], free_list[j])

InArena(b) == b.size > 0 => Base <= b.addr /\ Stop(b) <= next_free

Holds(b, a) == b.addr <= a /\ a < Stop(b)

\* Nothing leaks: every byte between the base and the bump pointer belongs to
\* a block that is handed out or can be handed out again, and no block with
\* bytes in it lies outside that range.
ArenaCovered ==
  /\ \A i \in 1..Len(allocated) : InArena(allocated[i])
  /\ \A i \in 1..Len(free_list) : InArena(free_list[i])
  /\ \A a \in Base..(next_free - 1) :
       \/ \E i \in 1..Len(allocated) : Holds(allocated[i], a)
       \/ \E i \in 1..Len(free_list) : Holds(free_list[i], a)

HasBytes(s) == \A i \in 1..Len(s) : s[i].size > 0

\* A free block never touches the bump pointer (free reclaims it at once), so a
\* guest that frees everything it allocated gets the whole arena back.  The
\* exception is an empty block left above the bump pointer: it ends the
\* reclaiming loop for as long as it exists.
TopReclaimed ==
  HasBytes(allocated \o free_list) =>
    /\ \A i \in 1..Len(free_list) : Stop(free_list[i]) # next_free
    /\ allocated = <<>> => free_list = <<>> /\ next_free = Base

\* The heap loses nothing, for a moment or for good (MemoryManager::free).
ArenaKept == ArenaCovered /\ TopReclaimed
=============================================================================
