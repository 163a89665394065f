----------------------------- MODULE Ipc_proofs -----------------------------
(***************************************************************************)
(* Proofs about what threads share through the loader.  For every page     *)
(* size, every arena, every set of request sizes and of names: no byte of  *)
(* the guest heap has two owners, none is lost, a name of shared memory    *)
(* finds its own block (module SharedMem).  For any number of threads,     *)
(* queues and elements: what is written to a queue leaves it in order and  *)
(* reaches one reader once (module Queues).                                *)
(***************************************************************************)
EXTENDS SharedMem, Queues, WellFoundedInduction, SequenceTheorems, TLAPS

-----------------------------------------------------------------------------
(* Helpers.                                                                *)

\* A set of natural numbers has a least element.
LEMMA LeastNat ==
  ASSUME NEW S, S \subseteq Nat, S # {}
  PROVE  \E m \in S : \A n \in S : m <= n
<1>1. PICK m \in S : \A n \in S : ~(<<n, m>> \in OpToRel(<, Nat))
  BY WFMin, NatLessThanWellFounded, Zenon
<1>2. \A n \in S : ~(n < m)
  <2> SUFFICES ASSUME NEW n \in S, n < m PROVE FALSE
    OBVIOUS
  <2>1. n \in Nat /\ m \in Nat
    OBVIOUS
  <2>2. <<n, m>> \in OpToRel(<, Nat)
    BY <2>1 DEF OpToRel
  <2>3. QED
    BY <1>1, <2>2
<1>3. QED
  BY <1>2

\* What Vec::remove leaves.
LEMMA RemoveAtFacts ==
  ASSUME NEW S, NEW s \in Seq(S), NEW k \in 1 .. Len(s)
  PROVE  /\ RemoveAt(s, k) \in Seq(S)
         /\ Len(RemoveAt(s, k)) = Len(s) - 1
         /\ \A i \in 1 .. k - 1 : RemoveAt(s, k)[i] = s[i]
         /\ \A i \in k .. Len(s) - 1 : RemoveAt(s, k)[i] = s[i + 1]
<1> DEFINE a == SubSeq(s, 1, k - 1)
           b == SubSeq(s, k + 1, Len(s))
<1>1. Len(s) \in Nat /\ k \in Nat /\ \A i \in 1 .. Len(s) : s[i] \in S
  OBVIOUS
<1>2. a \in Seq(S) /\ Len(a) = k - 1 /\ \A i \in 1 .. k - 1 : a[i] = s[i]
  BY <1>1, SubSeqProperties
<1>3. b \in Seq(S) /\ Len(b) = Len(s) - k /\ \A i \in 1 .. Len(s) - k : b[i] = s[k + i]
  BY <1>1, SubSeqProperties
<1> HIDE DEF a, b
<1>4. /\ a \o b \in Seq(S) /\ Len(a \o b) = Len(a) + Len(b)
      /\ \A i \in 1 .. Len(a) + Len(b) : (a \o b)[i] = IF i <= Len(a) THEN a[i] ELSE b[i - Len(a)]
  BY <1>2, <1>3, ConcatProperties
<1>5. RemoveAt(s, k) = a \o b
  BY DEF RemoveAt, a, b
<1>6. Len(a) + Len(b) = Len(s) - 1
  BY <1>1, <1>2, <1>3
<1>7. \A i \in 1 .. k - 1 : (a \o b)[i] = s[i]
  BY <1>1, <1>2, <1>4, <1>6
<1>8. ASSUME NEW i \in k .. Len(s) - 1
      PROVE  (a \o b)[i] = s[i + 1]
  <2>1. (a \o b)[i] = b[i - (k - 1)] /\ i - (k - 1) \in 1 .. Len(s) - k
    BY <1>1, <1>2, <1>4, <1>6
  <2>2. b[i - (k - 1)] = s[k + (i - (k - 1))] /\ k + (i - (k - 1)) = i + 1
    BY <1>1, <1>3, <2>1
  <2>3. QED
    BY <2>1, <2>2
<1>9. QED
  BY <1>4, <1>5, <1>6, <1>7, <1>8

\* A request is rounded up to a number of bytes.
LEMMA RoundUpType ==
  ASSUME NEW n \in Nat
  PROVE  RoundUp(n) \in Nat
<1>1. PageSize \in Nat \ {0}
  BY MemAssumption
<1>2. (n + (PageSize - 1)) \div PageSize \in Nat
  BY <1>1
<1>3. QED
  BY <1>1, <1>2 DEF RoundUp

-----------------------------------------------------------------------------
(* The heap.                                                               *)

\* Every block, also an empty one, starts in the arena.
StartsIn ==
  /\ \A i \in 1 .. Len(allocated) : allocated[i].addr >= Base
  /\ \A i \in 1 .. Len(free_list) : free_list[i].addr >= Base

\* Without empty blocks no free block touches the bump pointer.
TopApart ==
  HasBytes(allocated) /\ HasBytes(free_list) =>
    \A i \in 1 .. Len(free_list) : Stop(free_list[i]) # next_free

\* The inductive invariant.
MemInv == MemTypeOK /\ StartsIn /\ NoOverlap /\ ArenaCovered /\ TopApart

\* Initially the arena is empty.
LEMMA MemInitInv == MemInit => MemInv
BY MemAssumption DEF MemInit, MemInv, MemTypeOK, StartsIn, NoOverlap, ArenaCovered, TopApart

\* The blocks of the two lists.
LEMMA BlockTypes ==
  ASSUME MemTypeOK
  PROVE  /\ allocated \in Seq(Block) /\ free_list \in Seq(Block)
         /\ \A i \in 1 .. Len(allocated) : allocated[i] \in Block /\ allocated[i].addr \in Nat /\ allocated[i].size \in Nat
         /\ \A i \in 1 .. Len(free_list) : free_list[i] \in Block /\ free_list[i].addr \in Nat /\ free_list[i].size \in Nat
<1>1. allocated \in Seq(Block) /\ free_list \in Seq(Block)
  BY DEF MemTypeOK
<1>2. /\ \A i \in 1 .. Len(allocated) : allocated[i] \in Block
      /\ \A i \in 1 .. Len(free_list) : free_list[i] \in Block
  BY <1>1, ElementOfSeq
<1>3. \A b \in Block : b.addr \in Nat /\ b.size \in Nat
  BY DEF Block
<1>4. QED
  BY <1>1, <1>2, <1>3

\* Two blocks that are not apart share a byte.
LEMMA ShareByte ==
  ASSUME NEW b \in Block, NEW c \in Block
  PROVE  ~Apart(b, c) <=> \E a \in Nat : Holds(b, a) /\ Holds(c, a)
<1>1. b.addr \in Nat /\ b.size \in Nat /\ c.addr \in Nat /\ c.size \in Nat
  BY DEF Block
<1>2. ASSUME ~Apart(b, c) PROVE \E a \in Nat : Holds(b, a) /\ Holds(c, a)
  <2>1. CASE b.addr <= c.addr
    <3>1. Holds(b, c.addr) /\ Holds(c, c.addr)
      BY <1>1, <1>2, <2>1 DEF Apart, Holds, Stop
    <3>2. QED
      BY <1>1, <3>1
  <2>2. CASE c.addr <= b.addr
    <3>1. Holds(b, b.addr) /\ Holds(c, b.addr)
      BY <1>1, <1>2, <2>2 DEF Apart, Holds, Stop
    <3>2. QED
      BY <1>1, <3>1
  <2>3. QED
    BY <1>1, <2>1, <2>2
<1>3. ASSUME NEW a \in Nat, Holds(b, a), Holds(c, a) PROVE ~Apart(b, c)
  BY <1>1, <1>3 DEF Apart, Holds, Stop
<1>4. QED
  BY <1>2, <1>3

\* The bump pointer moves up over a new block.
LEMMA AllocBumpInv ==
  ASSUME MemInv, NEW n \in Sizes, NEW addr \in Base .. Limit, AllocBump(n, addr)
  PROVE  MemInv' /\ addr = allocated'[Len(allocated')].addr
<1> DEFINE r == RoundUp(n)
           b == [addr |-> next_free, size |-> r]
<1>1. r \in Nat /\ next_free \in Base .. Limit /\ Base \in Nat /\ Limit \in Nat
  BY RoundUpType, MemAssumption DEF MemInv, MemTypeOK
<1>2. /\ next_free + r <= Limit /\ allocated' = Append(allocated, b)
      /\ next_free' = next_free + r /\ free_list' = free_list /\ addr = next_free
  BY DEF AllocBump
<1>3. b \in Block /\ b.addr = next_free /\ b.size = r
  BY <1>1 DEF Block
<1> HIDE DEF b, r
<1>4. /\ allocated \in Seq(Block) /\ free_list \in Seq(Block)
      /\ \A i \in 1 .. Len(allocated) : allocated[i] \in Block /\ allocated[i].addr \in Nat /\ allocated[i].size \in Nat
      /\ \A i \in 1 .. Len(free_list) : free_list[i] \in Block /\ free_list[i].addr \in Nat /\ free_list[i].size \in Nat
  BY BlockTypes DEF MemInv
<1>5. /\ allocated' \in Seq(Block) /\ Len(allocated') = Len(allocated) + 1 /\ Len(allocated) \in Nat
      /\ \A i \in 1 .. Len(allocated) : allocated'[i] = allocated[i]
      /\ allocated'[Len(allocated) + 1] = b
  BY <1>2, <1>3, <1>4, AppendProperties
<1>6. MemTypeOK'
  BY <1>1, <1>2, <1>4, <1>5 DEF MemTypeOK
<1>7. StartsIn'
  BY <1>1, <1>2, <1>3, <1>5 DEF MemInv, StartsIn
<1>8. NoOverlap'
  <2>1. \A i \in 1 .. Len(allocated) : Apart(allocated[i], b) /\ Apart(b, allocated[i])
    BY <1>1, <1>3, <1>4 DEF MemInv, ArenaCovered, InArena, Apart, Stop
  <2>2. \A i \in 1 .. Len(free_list) : Apart(b, free_list[i])
    BY <1>1, <1>3, <1>4 DEF MemInv, ArenaCovered, InArena, Apart, Stop
  <2>3. QED
    BY <1>2, <1>5, <2>1, <2>2 DEF MemInv, NoOverlap
<1>9. ArenaCovered'
  <2> DEFINE In(c) == c.size > 0 => Base <= c.addr /\ Stop(c) <= next_free'
  <2>1. \A c \in Block : InArena(c) => In(c)
    BY <1>1, <1>2 DEF InArena, Stop, Block
  <2>2. In(b)
    BY <1>1, <1>2, <1>3 DEF Stop
  <2>3. ASSUME NEW a \in Base .. (next_free' - 1)
        PROVE  \/ \E i \in 1 .. Len(allocated') : Holds(allocated'[i], a)
               \/ \E i \in 1 .. Len(free_list') : Holds(free_list'[i], a)
    <3>1. CASE a < next_free
      BY <1>1, <1>2, <1>5, <3>1 DEF MemInv, ArenaCovered
    <3>2. CASE ~(a < next_free)
      <4>1. Holds(b, a)
        BY <1>1, <1>2, <1>3, <3>2 DEF Holds, Stop
      <4>2. QED
        BY <1>5, <4>1
    <3>3. QED
      BY <3>1, <3>2
  <2> HIDE DEF In
  <2>4. \A i \in 1 .. Len(allocated') : In(allocated'[i])
    <3>1. \A i \in 1 .. Len(allocated') : i \in 1 .. Len(allocated) \/ allocated'[i] = b
      BY <1>5
    <3>2. \A i \in 1 .. Len(allocated) : In(allocated[i])
      BY <1>4, <2>1 DEF MemInv, ArenaCovered
    <3>3. QED
      BY <1>5, <2>2, <3>1, <3>2
  <2>5. \A i \in 1 .. Len(free_list') : In(free_list'[i])
    BY <1>2, <1>4, <2>1 DEF MemInv, ArenaCovered
  <2>6. QED
    BY <2>3, <2>4, <2>5 DEF ArenaCovered, InArena, In
<1>10. TopApart'
  <2> SUFFICES ASSUME HasBytes(allocated'), HasBytes(free_list'), NEW i \in 1 .. Len(free_list')
               PROVE  Stop(free_list'[i]) # next_free'
    BY DEF TopApart
  <2>1. r > 0
    BY <1>3, <1>5 DEF HasBytes
  <2>2. Stop(free_list[i]) <= next_free
    BY <1>2 DEF MemInv, ArenaCovered, InArena, HasBytes
  <2>3. QED
    BY <1>1, <1>2, <1>4, <2>1, <2>2 DEF Stop
<1>11. QED
  BY <1>2, <1>3, <1>5, <1>6, <1>7, <1>8, <1>9, <1>10 DEF MemInv

\* A block inside another is apart from what that one is apart from.
LEMMA Within ==
  ASSUME NEW x \in Block, NEW y \in Block, NEW z \in Block, Apart(x, y) \/ Apart(y, x),
         y.addr <= z.addr, Stop(z) <= Stop(y)
  PROVE  Apart(x, z) /\ Apart(z, x)
<1>1. /\ x.addr \in Nat /\ x.size \in Nat /\ y.addr \in Nat /\ y.size \in Nat
      /\ z.addr \in Nat /\ z.size \in Nat
  BY DEF Block
<1>2. QED
  BY <1>1 DEF Apart, Stop

\* What is left of a block when its first r bytes are taken.
Rest(b, r) == [addr |-> b.addr + r, size |-> b.size - r]

\* It is a block that ends where the whole one ended.
LEMMA RestFacts ==
  ASSUME NEW b \in Block, NEW r \in Nat, r <= b.size
  PROVE  /\ b.addr \in Nat /\ b.size \in Nat
         /\ Rest(b, r) \in Block /\ Rest(b, r).addr = b.addr + r /\ Rest(b, r).size = b.size - r
         /\ Stop(Rest(b, r)) = Stop(b)
<1>1. b.addr \in Nat /\ b.size \in Nat
  BY DEF Block
<1>2. Rest(b, r) \in Block /\ Rest(b, r).addr = b.addr + r /\ Rest(b, r).size = b.size - r
  BY <1>1 DEF Block, Rest
<1>3. QED
  BY <1>1, <1>2 DEF Stop

\* What a first fit leaves of the list s: block k is taken out and the remainder,
\* if there is one, goes to the end.
Reused(s, t, k, r) ==
  /\ t \in Seq(Block)
  /\ \A i \in 1 .. k - 1 : t[i] = s[i]
  /\ \A i \in k .. Len(s) - 1 : t[i] = s[i + 1]
  /\ \/ Len(t) = Len(s) - 1 /\ s[k].size = r
     \/ Len(t) = Len(s) /\ s[k].size > r /\ t[Len(s)] = Rest(s[k], r)

\* alloc leaves that list.
LEMMA ReuseList ==
  ASSUME NEW s \in Seq(Block), NEW k \in 1 .. Len(s), NEW r \in Nat, r <= s[k].size,
         NEW t, t = RemoveAt(s, k) \o Split(s[k], r)
  PROVE  Reused(s, t, k, r)
<1> DEFINE u == RemoveAt(s, k)
<1>1. s[k] \in Block
  BY ElementOfSeq
<1>2. Rest(s[k], r) \in Block /\ s[k].size \in Nat
  BY <1>1, RestFacts
<1>3. /\ u \in Seq(Block) /\ Len(u) = Len(s) - 1 /\ Len(s) \in Nat
      /\ \A i \in 1 .. k - 1 : u[i] = s[i]
      /\ \A i \in k .. Len(s) - 1 : u[i] = s[i + 1]
  BY RemoveAtFacts
<1> HIDE DEF u
<1>4. CASE s[k].size = r
  <2>1. Split(s[k], r) = << >>
    BY <1>2, <1>4 DEF Split
  <2>2. t = u
    BY <1>3, <2>1, ConcatEmptySeq DEF u
  <2>3. QED
    BY <1>3, <1>4, <2>2 DEF Reused
<1>5. CASE s[k].size > r
  <2>1. t = Append(u, Rest(s[k], r))
    <3>1. Append(u, Rest(s[k], r)) = u \o << Rest(s[k], r) >>
      BY <1>2, <1>3, AppendIsConcat
    <3>2. QED
      BY <1>5, <3>1 DEF Split, Rest, u
  <2>2. /\ t \in Seq(Block) /\ Len(t) = Len(u) + 1 /\ t[Len(u) + 1] = Rest(s[k], r)
        /\ \A i \in 1 .. Len(u) : t[i] = u[i]
    BY <1>2, <1>3, <2>1, AppendProperties
  <2>3. Len(t) = Len(s) /\ t[Len(s)] = Rest(s[k], r)
    BY <1>3, <2>2
  <2>4. \A i \in 1 .. k - 1 : t[i] = s[i]
    <3>1. \A i \in 1 .. k - 1 : i \in 1 .. Len(u)
      BY <1>3
    <3>2. QED
      BY <1>3, <2>2, <3>1
  <2>5. \A i \in k .. Len(s) - 1 : t[i] = s[i + 1]
    <3>1. \A i \in k .. Len(s) - 1 : i \in 1 .. Len(u)
      BY <1>3
    <3>2. QED
      BY <1>3, <2>2, <3>1
  <2>6. QED
    BY <1>5, <2>2, <2>3, <2>4, <2>5 DEF Reused
<1>6. QED
  BY <1>2, <1>4, <1>5

\* A block of the free list is handed out again.
LEMMA AllocReuseInv ==
  ASSUME MemInv, NEW n \in Sizes, NEW addr \in Base .. Limit, AllocReuse(n, addr)
  PROVE  MemInv' /\ addr = allocated'[Len(allocated')].addr
<1> DEFINE r == RoundUp(n)
<1>1. PICK k \in 1 .. Len(free_list) :
        /\ FirstFit(k, r) /\ addr = free_list[k].addr
        /\ free_list' = RemoveAt(free_list, k) \o Split(free_list[k], r)
        /\ allocated' = Append(allocated, [addr |-> addr, size |-> r])
  BY DEF AllocReuse
<1> DEFINE al == allocated
           fl == free_list
           b == fl[k]
           c == [addr |-> addr, size |-> r]
           rest == Rest(b, r)
<1>2. r \in Nat /\ next_free \in Base .. Limit /\ Base \in Nat /\ Limit \in Nat /\ next_free' = next_free
  BY RoundUpType, MemAssumption DEF MemInv, MemTypeOK, AllocReuse
<1>3. /\ al \in Seq(Block) /\ fl \in Seq(Block)
      /\ \A i \in 1 .. Len(al) : al[i] \in Block /\ al[i].addr \in Nat /\ al[i].size \in Nat
      /\ \A i \in 1 .. Len(fl) : fl[i] \in Block /\ fl[i].addr \in Nat /\ fl[i].size \in Nat
  BY BlockTypes DEF MemInv
<1>4. r <= b.size /\ addr = b.addr /\ b \in Block /\ b.addr \in Nat /\ b.size \in Nat
  BY <1>1, <1>3 DEF FirstFit
<1>5. c \in Block /\ c.addr = b.addr /\ c.size = r
  BY <1>2, <1>4 DEF Block
<1>6. /\ rest \in Block /\ rest.addr = b.addr + r /\ rest.size = b.size - r
      /\ Stop(rest) = Stop(b)
  BY <1>2, <1>4, RestFacts
<1>7. Reused(fl, free_list', k, r)
  <2>1. /\ fl \in Seq(Block) /\ k \in 1 .. Len(fl) /\ r \in Nat /\ r <= fl[k].size
        /\ free_list' = RemoveAt(fl, k) \o Split(fl[k], r)
    BY <1>1, <1>2, <1>3, <1>4
  <2> HIDE DEF fl, r
  <2>2. QED
    BY <2>1, ReuseList
<1>71. /\ free_list' \in Seq(Block)
       /\ \A i \in 1 .. k - 1 : free_list'[i] = fl[i]
       /\ \A i \in k .. Len(fl) - 1 : free_list'[i] = fl[i + 1]
       /\ \/ Len(free_list') = Len(fl) - 1 /\ b.size = r
          \/ Len(free_list') = Len(fl) /\ b.size > r /\ free_list'[Len(fl)] = rest
  BY <1>7 DEF Reused
<1>8. /\ allocated' \in Seq(Block) /\ Len(allocated') = Len(al) + 1 /\ Len(al) \in Nat /\ Len(fl) \in Nat
      /\ \A i \in 1 .. Len(al) : allocated'[i] = al[i]
      /\ allocated'[Len(al) + 1] = c
  BY <1>1, <1>3, <1>5, AppendProperties
<1> HIDE DEF b, c, rest, r, al, fl
\* A block of either list is an old one, but not the one that was taken, or is
\* one of the two parts of the one that was taken.
<1>9. \A i \in 1 .. Len(allocated') : (i \in 1 .. Len(al) /\ allocated'[i] = al[i]) \/ (i = Len(al) + 1 /\ allocated'[i] = c)
  BY <1>8
<1> DEFINE old(i) == IF i < k THEN i ELSE i + 1
<1>10. \A i \in 1 .. Len(free_list') :
        \/ i \in 1 .. Len(fl) - 1 /\ old(i) \in 1 .. Len(fl) \ {k} /\ free_list'[i] = fl[old(i)]
        \/ i = Len(fl) /\ b.size > r /\ free_list'[i] = rest
  <2> SUFFICES ASSUME NEW i \in 1 .. Len(free_list')
               PROVE  \/ i \in 1 .. Len(fl) - 1 /\ old(i) \in 1 .. Len(fl) \ {k} /\ free_list'[i] = fl[old(i)]
                      \/ i = Len(fl) /\ b.size > r /\ free_list'[i] = rest
    OBVIOUS
  <2>1. k \in 1 .. Len(fl) /\ Len(fl) \in Nat
    BY <1>1, <1>8 DEF fl
  <2>2. i \in 1 .. Len(fl) - 1 \/ (i = Len(fl) /\ b.size > r /\ free_list'[i] = rest)
    BY <1>71, <2>1
  <2>3. CASE i \in 1 .. Len(fl) - 1
    <3>1. CASE i < k
      <4>1. old(i) = i /\ i \in 1 .. k - 1
        BY <2>1, <3>1
      <4>2. QED
        BY <1>71, <2>1, <2>3, <4>1
    <3>2. CASE ~(i < k)
      <4>1. old(i) = i + 1 /\ i \in k .. Len(fl) - 1
        BY <2>1, <2>3, <3>2
      <4>2. QED
        BY <1>71, <2>1, <2>3, <4>1
    <3>3. QED
      BY <3>1, <3>2
  <2>4. QED
    BY <2>2, <2>3
<1>11. \A i, j \in 1 .. Len(fl) - 1 : i # j => old(i) # old(j)
  BY <1>1, <1>8 DEF fl
<1>12. /\ b.addr <= c.addr /\ Stop(c) <= Stop(b) /\ b.addr <= rest.addr /\ Stop(rest) <= Stop(b)
       /\ Apart(c, rest)
  <2>1. b.addr <= c.addr /\ b.addr <= rest.addr /\ c.addr + c.size = rest.addr
    BY <1>2, <1>4, <1>5, <1>6
  <2>2. Stop(c) <= Stop(b)
    BY <1>2, <1>4, <1>5 DEF Stop
  <2>3. Stop(rest) <= Stop(b)
    BY <1>4, <1>6 DEF Stop
  <2>4. QED
    BY <1>2, <1>4, <1>5, <1>6, <2>1, <2>2, <2>3 DEF Stop, Apart
<1>13. \A x \in Block : Apart(x, b) \/ Apart(b, x) =>
         Apart(x, c) /\ Apart(c, x) /\ Apart(x, rest) /\ Apart(rest, x)
  BY <1>4, <1>5, <1>6, <1>71, <1>12, Within
<1>14. MemTypeOK' /\ StartsIn'
  <2>1. MemTypeOK'
    BY <1>2, <1>6, <1>71, <1>8 DEF MemTypeOK
  <2>2. \A i \in 1 .. Len(al) : al[i].addr >= Base
    BY DEF MemInv, StartsIn, al
  <2>3. \A i \in 1 .. Len(fl) : fl[i].addr >= Base
    BY DEF MemInv, StartsIn, fl
  <2>4. b.addr >= Base
    BY <1>1, <2>3 DEF b, fl
  <2>5. c.addr >= Base /\ rest.addr >= Base
    BY <1>2, <1>4, <1>5, <1>6, <1>71, <2>4
  <2>6. \A i \in 1 .. Len(free_list') : free_list'[i].addr >= Base
    BY <1>10, <2>3, <2>5
  <2>7. QED
    BY <1>9, <2>1, <2>2, <2>5, <2>6 DEF StartsIn
<1>15. NoOverlap'
  <2>1. /\ \A i, j \in 1 .. Len(al) : i # j => Apart(al[i], al[j])
        /\ \A i, j \in 1 .. Len(fl) : i # j => Apart(fl[i], fl[j])
        /\ \A i \in 1 .. Len(al), j \in 1 .. Len(fl) : Apart(al[i], fl[j])
    BY DEF MemInv, NoOverlap, al, fl
  <2>2. \A i \in 1 .. Len(al) : Apart(al[i], c) /\ Apart(c, al[i]) /\ Apart(al[i], rest)
    <3>1. \A i \in 1 .. Len(al) : Apart(al[i], b)
      BY <1>1, <2>1 DEF b, fl
    <3>2. QED
      BY <1>3, <1>13, <3>1
  <2>3. \A i \in 1 .. Len(fl) \ {k} : Apart(c, fl[i]) /\ Apart(fl[i], rest) /\ Apart(rest, fl[i])
    <3>1. \A i \in 1 .. Len(fl) \ {k} : Apart(fl[i], b)
      BY <1>1, <2>1 DEF b, fl
    <3>2. QED
      BY <1>3, <1>13, <3>1
  <2>4. \A i, j \in 1 .. Len(allocated') : i # j => Apart(allocated'[i], allocated'[j])
    BY <1>9, <2>1, <2>2
  <2>5. \A i, j \in 1 .. Len(free_list') : i # j => Apart(free_list'[i], free_list'[j])
    BY <1>10, <1>11, <2>1, <2>3
  <2>6. \A i \in 1 .. Len(allocated'), j \in 1 .. Len(free_list') : Apart(allocated'[i], free_list'[j])
    BY <1>9, <1>10, <1>12, <2>1, <2>2, <2>3
  <2>7. QED
    BY <2>4, <2>5, <2>6 DEF NoOverlap
<1>16. ArenaCovered'
  <2> DEFINE In(x) == x.size > 0 => Base <= x.addr /\ Stop(x) <= next_free
  <2>1. (\A i \in 1 .. Len(al) : In(al[i])) /\ (\A i \in 1 .. Len(fl) : In(fl[i]))
    BY DEF MemInv, ArenaCovered, InArena, al, fl
  <2>2. In(b)
    BY <1>1, <2>1 DEF b, fl
  <2>3. In(c) /\ In(rest)
    BY <1>2, <1>4, <1>5, <1>6, <1>71, <2>2 DEF Stop
  <2>4. ASSUME NEW a \in Base .. (next_free' - 1)
        PROVE  \/ \E i \in 1 .. Len(allocated') : Holds(allocated'[i], a)
               \/ \E i \in 1 .. Len(free_list') : Holds(free_list'[i], a)
    <3>1. CASE \E i \in 1 .. Len(al) : Holds(al[i], a)
      BY <1>8, <3>1
    <3>2. CASE \E i \in 1 .. Len(fl) \ {k} : Holds(fl[i], a)
      <4>1. PICK i \in 1 .. Len(fl) \ {k} : Holds(fl[i], a)
        BY <3>2
      <4>2. CASE i < k
        <5>1. i \in 1 .. Len(fl) - 1 /\ i \in 1 .. Len(free_list')
          BY <1>1, <1>71, <1>8, <4>2 DEF fl
        <5>2. free_list'[i] = fl[i]
          BY <1>71, <4>2, <5>1
        <5>3. QED
          BY <4>1, <5>1, <5>2
      <4>3. CASE ~(i < k)
        <5>1. i - 1 \in 1 .. Len(fl) - 1 /\ i - 1 \in 1 .. Len(free_list') /\ ~(i - 1 < k)
          BY <1>1, <1>6, <1>71, <1>8, <4>3 DEF fl
        <5>2. free_list'[i - 1] = fl[i]
          BY <1>6, <1>71, <1>8, <5>1
        <5>3. QED
          BY <4>1, <5>1, <5>2
      <4>4. QED
        BY <4>2, <4>3
    <3>3. CASE Holds(b, a)
      <4>1. CASE a < b.addr + r
        <5>1. Holds(c, a)
          BY <1>2, <1>4, <1>5, <3>3, <4>1 DEF Holds, Stop
        <5>2. QED
          BY <1>8, <5>1
      <4>2. CASE ~(a < b.addr + r)
        <5>1. Holds(rest, a) /\ b.size > r
          BY <1>2, <1>4, <1>6, <1>71, <3>3, <4>2 DEF Holds, Stop
        <5>2. Len(fl) \in 1 .. Len(free_list') /\ free_list'[Len(fl)] = rest
          <6>1. Len(fl) \in Nat /\ k \in 1 .. Len(fl)
            BY <1>1, <1>8 DEF fl
          <6>2. b.size # r
            BY <1>2, <1>4, <5>1
          <6>3. Len(free_list') = Len(fl) /\ free_list'[Len(fl)] = rest
            BY <1>71, <6>2
          <6>4. QED
            BY <6>1, <6>3
        <5>3. QED
          BY <5>1, <5>2
      <4>3. QED
        BY <4>1, <4>2
    <3>4. QED
      <4>1. \/ \E i \in 1 .. Len(al) : Holds(al[i], a)
            \/ \E i \in 1 .. Len(fl) : Holds(fl[i], a)
        BY <1>2 DEF MemInv, ArenaCovered, al, fl
      <4>2. QED
        BY <3>1, <3>2, <3>3, <4>1 DEF b, fl
  <2> HIDE DEF In
  <2>5. \A i \in 1 .. Len(allocated') : In(allocated'[i])
    BY <1>9, <2>1, <2>3
  <2>6. \A i \in 1 .. Len(free_list') : In(free_list'[i])
    BY <1>10, <2>1, <2>3
  <2>7. QED
    BY <1>2, <2>4, <2>5, <2>6 DEF ArenaCovered, InArena, In
<1>17. TopApart'
  <2> SUFFICES ASSUME HasBytes(allocated'), HasBytes(free_list'), NEW i \in 1 .. Len(free_list')
               PROVE  Stop(free_list'[i]) # next_free'
    BY DEF TopApart
  <2>1. r > 0
    BY <1>5, <1>8 DEF HasBytes
  <2>2. HasBytes(al)
    <3>1. \A j \in 1 .. Len(al) : j \in 1 .. Len(allocated') /\ allocated'[j] = al[j]
      BY <1>8
    <3>2. QED
      BY <3>1 DEF HasBytes
  <2>3. HasBytes(fl)
    <3> SUFFICES ASSUME NEW j \in 1 .. Len(fl) PROVE fl[j].size > 0
      BY DEF HasBytes
    <3>1. CASE j = k
      BY <1>2, <1>4, <2>1, <3>1 DEF b, fl
    <3>2. CASE j < k
      <4>1. j \in 1 .. k - 1 /\ j \in 1 .. Len(free_list')
        BY <1>1, <1>6, <1>71, <1>8, <3>2 DEF fl
      <4>2. free_list'[j] = fl[j]
        BY <1>71, <4>1
      <4>3. QED
        BY <4>1, <4>2 DEF HasBytes
    <3>3. CASE j > k
      <4>1. j - 1 \in 1 .. Len(fl) - 1 /\ j - 1 \in 1 .. Len(free_list') /\ ~(j - 1 < k)
        BY <1>1, <1>6, <1>71, <1>8, <3>3 DEF fl
      <4>2. free_list'[j - 1] = fl[j]
        BY <1>6, <1>71, <1>8, <4>1
      <4>3. QED
        BY <4>1, <4>2 DEF HasBytes
    <3>4. QED
      BY <1>1, <1>8, <3>1, <3>2, <3>3
  <2>4. \A j \in 1 .. Len(fl) : Stop(fl[j]) # next_free
    BY <2>2, <2>3 DEF MemInv, TopApart, al, fl
  <2>5. Stop(rest) = Stop(b) /\ Stop(b) # next_free
    BY <1>1, <1>2, <1>4, <1>6, <1>71, <2>4 DEF Stop, b, fl
  <2>6. QED
    BY <1>2, <1>10, <2>4, <2>5
<1>18. QED
  BY <1>4, <1>5, <1>8, <1>14, <1>15, <1>16, <1>17 DEF MemInv

-----------------------------------------------------------------------------
(* free: the block moves to the free list, the list is sorted, and the     *)
(* blocks at its end go back to the arena.                                 *)

InUpTo(b, top) == b.size > 0 => Base <= b.addr /\ Stop(b) <= top

\* The lists al and fl share out the arena below top: what the invariant says,
\* for any two lists.
Shares(al, fl, top) ==
  /\ al \in Seq(Block) /\ fl \in Seq(Block) /\ top \in Base .. Limit
  /\ \A i \in 1 .. Len(al) : al[i].addr >= Base /\ InUpTo(al[i], top)
  /\ \A i \in 1 .. Len(fl) : fl[i].addr >= Base /\ InUpTo(fl[i], top)
  /\ \A i, j \in 1 .. Len(al) : i # j => Apart(al[i], al[j])
  /\ \A i, j \in 1 .. Len(fl) : i # j => Apart(fl[i], fl[j])
  /\ \A i \in 1 .. Len(al), j \in 1 .. Len(fl) : Apart(al[i], fl[j])
  /\ \A a \in Base .. (top - 1) :
       \/ \E i \in 1 .. Len(al) : Holds(al[i], a)
       \/ \E i \in 1 .. Len(fl) : Holds(fl[i], a)

\* Sorted by address; and no block of s ends at top, if none is empty.
ByAddress(t) == \A i, j \in 1 .. Len(t) : i < j => t[i].addr <= t[j].addr
TopClear(s, top) == HasBytes(s) => \A i \in 1 .. Len(s) : Stop(s[i]) # top

\* The invariant says it of the two lists of the heap.
LEMMA MemShares == MemInv <=> Shares(allocated, free_list, next_free) /\ TopApart
BY DEF MemInv, Shares, MemTypeOK, StartsIn, NoOverlap, ArenaCovered, InArena, InUpTo

\* So it does after a step.
LEMMA MemSharesNext == MemInv' <=> Shares(allocated', free_list', next_free') /\ TopApart'
BY DEF MemInv, Shares, MemTypeOK, StartsIn, NoOverlap, ArenaCovered, InArena, InUpTo

\* Two blocks are apart whichever is named first.
LEMMA ApartSym ==
  ASSUME NEW b, NEW c, Apart(b, c)
  PROVE  Apart(c, b)
BY DEF Apart

\* A block that moves from one list to the other is still shared out once.
LEMMA MoveShares ==
  ASSUME NEW al, NEW fl, NEW top, Shares(al, fl, top), NEW k \in 1 .. Len(al)
  PROVE  Shares(RemoveAt(al, k), Append(fl, al[k]), top)
<1> DEFINE u == RemoveAt(al, k)
           v == Append(fl, al[k])
           was(i) == IF i < k THEN i ELSE i + 1
<1>1. al \in Seq(Block) /\ fl \in Seq(Block) /\ al[k] \in Block /\ Len(al) \in Nat /\ Len(fl) \in Nat
  BY ElementOfSeq DEF Shares
<1>2. /\ u \in Seq(Block) /\ Len(u) = Len(al) - 1
      /\ \A i \in 1 .. k - 1 : u[i] = al[i]
      /\ \A i \in k .. Len(al) - 1 : u[i] = al[i + 1]
  BY <1>1, RemoveAtFacts
<1>3. /\ v \in Seq(Block) /\ Len(v) = Len(fl) + 1 /\ v[Len(fl) + 1] = al[k]
      /\ \A i \in 1 .. Len(fl) : v[i] = fl[i]
  BY <1>1, AppendProperties
<1> HIDE DEF u, v
<1>4. \A i \in 1 .. Len(u) : was(i) \in 1 .. Len(al) /\ was(i) # k /\ u[i] = al[was(i)]
  <2> SUFFICES ASSUME NEW i \in 1 .. Len(u)
               PROVE  was(i) \in 1 .. Len(al) /\ was(i) # k /\ u[i] = al[was(i)]
    OBVIOUS
  <2>1. CASE i < k
    <3>1. was(i) = i /\ i \in 1 .. k - 1
      BY <2>1
    <3>2. QED
      BY <1>1, <1>2, <3>1
  <2>2. CASE ~(i < k)
    <3>1. was(i) = i + 1 /\ i \in k .. Len(al) - 1
      BY <1>1, <1>2, <2>2
    <3>2. QED
      BY <1>1, <1>2, <3>1
  <2>3. QED
    BY <2>1, <2>2
<1>5. \A i, j \in 1 .. Len(u) : i # j => was(i) # was(j)
  BY <1>1, <1>2
<1> HIDE DEF was
<1>6. \A i \in 1 .. Len(v) : (i \in 1 .. Len(fl) /\ v[i] = fl[i]) \/ (i = Len(fl) + 1 /\ v[i] = al[k])
  BY <1>1, <1>3
<1>7. /\ \A i \in 1 .. Len(al) : al[i].addr >= Base /\ InUpTo(al[i], top)
      /\ \A i \in 1 .. Len(fl) : fl[i].addr >= Base /\ InUpTo(fl[i], top)
      /\ \A i, j \in 1 .. Len(al) : i # j => Apart(al[i], al[j])
      /\ \A i, j \in 1 .. Len(fl) : i # j => Apart(fl[i], fl[j])
      /\ \A i \in 1 .. Len(al), j \in 1 .. Len(fl) : Apart(al[i], fl[j])
  BY DEF Shares
<1>8. /\ \A i \in 1 .. Len(u) : u[i].addr >= Base /\ InUpTo(u[i], top)
      /\ \A i \in 1 .. Len(v) : v[i].addr >= Base /\ InUpTo(v[i], top)
  BY <1>4, <1>6, <1>7
<1>9. \A i, j \in 1 .. Len(u) : i # j => Apart(u[i], u[j])
  BY <1>4, <1>5, <1>7
<1>10. \A i, j \in 1 .. Len(v) : i # j => Apart(v[i], v[j])
  <2>1. \A j \in 1 .. Len(fl) : Apart(al[k], fl[j]) /\ Apart(fl[j], al[k])
    BY <1>7, ApartSym
  <2>2. QED
    BY <1>6, <1>7, <2>1
<1>11. \A i \in 1 .. Len(u), j \in 1 .. Len(v) : Apart(u[i], v[j])
  BY <1>4, <1>6, <1>7
<1>12. ASSUME NEW a \in Base .. (top - 1)
       PROVE  (\E i \in 1 .. Len(u) : Holds(u[i], a)) \/ (\E i \in 1 .. Len(v) : Holds(v[i], a))
  <2>1. CASE \E i \in 1 .. Len(al) : Holds(al[i], a)
    <3>1. PICK i \in 1 .. Len(al) : Holds(al[i], a)
      BY <2>1
    <3>2. CASE i = k
      BY <1>1, <1>3, <3>1, <3>2
    <3>3. CASE i < k
      <4>1. i \in 1 .. Len(u) /\ i \in 1 .. k - 1
        BY <1>1, <1>2, <3>3
      <4>2. QED
        BY <1>2, <3>1, <4>1
    <3>4. CASE i > k
      <4>1. i - 1 \in 1 .. Len(u) /\ i - 1 \in k .. Len(al) - 1 /\ (i - 1) + 1 = i
        BY <1>1, <1>2, <3>4
      <4>2. u[i - 1] = al[i]
        BY <1>2, <4>1
      <4>3. QED
        BY <3>1, <4>1, <4>2
    <3>5. QED
      BY <3>2, <3>3, <3>4
  <2>2. CASE \E i \in 1 .. Len(fl) : Holds(fl[i], a)
    BY <1>1, <1>3, <2>2
  <2>3. QED
    BY <2>1, <2>2 DEF Shares
<1>13. Shares(u, v, top)
  BY <1>2, <1>3, <1>8, <1>9, <1>10, <1>11, <1>12 DEF Shares
<1>14. QED
  BY <1>13 DEF u, v

\* A list in another order shares out the same bytes.
LEMMA SortShares ==
  ASSUME NEW al, NEW s, NEW top, Shares(al, s, top), NEW p \in SortOrder(s), NEW t,
         t = [i \in 1 .. Len(s) |-> s[p[i]]]
  PROVE  Shares(al, t, top) /\ Len(t) = Len(s) /\ ByAddress(t)
<1>1. s \in Seq(Block) /\ Len(s) \in Nat /\ \A i \in 1 .. Len(s) : s[i] \in Block /\ s[i].addr \in Nat
  <2>1. s \in Seq(Block) /\ Len(s) \in Nat
    BY DEF Shares
  <2>2. \A b \in Block : b.addr \in Nat
    BY DEF Block
  <2>3. QED
    BY <2>1, <2>2, ElementOfSeq
<1>2. /\ p \in [1 .. Len(s) -> 1 .. Len(s)]
      /\ \A i, j \in 1 .. Len(s) : p[i] = p[j] => i = j
      /\ \A j \in 1 .. Len(s) : \E i \in 1 .. Len(s) : p[i] = j
  BY DEF SortOrder, Bijection, Injection, Surjection, IsInjective
<1>3. t \in Seq(Block) /\ Len(t) = Len(s)
  <2>1. t \in [1 .. Len(s) -> Block]
    BY <1>1, <1>2
  <2>2. QED
    BY <1>1, <2>1
<1>4. \A i \in 1 .. Len(t) : p[i] \in 1 .. Len(s) /\ t[i] = s[p[i]]
  BY <1>2, <1>3
<1>5. \A i, j \in 1 .. Len(t) : i < j => t[i].addr <= t[j].addr
  <2>1. \A i, j \in 1 .. Len(s) : i < j => s[p[i]].addr < s[p[j]].addr \/ s[p[i]].addr = s[p[j]].addr
    BY DEF SortOrder
  <2>2. ASSUME NEW i \in 1 .. Len(t), NEW j \in 1 .. Len(t), i < j
        PROVE  t[i].addr <= t[j].addr
    <3>1. /\ t[i] = s[p[i]] /\ t[j] = s[p[j]]
          /\ s[p[i]].addr \in Nat /\ s[p[j]].addr \in Nat
      BY <1>1, <1>4
    <3>2. s[p[i]].addr < s[p[j]].addr \/ s[p[i]].addr = s[p[j]].addr
      BY <1>3, <2>1, <2>2
    <3>3. QED
      BY <3>1, <3>2
  <2>3. QED
    BY <2>2
<1>6. \A i, j \in 1 .. Len(t) : i # j => p[i] # p[j]
  BY <1>2, <1>3
<1>7. \A i \in 1 .. Len(t) : t[i].addr >= Base /\ InUpTo(t[i], top)
  BY <1>4 DEF Shares
<1>8. \A i, j \in 1 .. Len(t) : i # j => Apart(t[i], t[j])
  <2>1. \A i, j \in 1 .. Len(s) : i # j => Apart(s[i], s[j])
    BY DEF Shares
  <2>2. ASSUME NEW i \in 1 .. Len(t), NEW j \in 1 .. Len(t), i # j
        PROVE  Apart(t[i], t[j])
    <3>1. p[i] # p[j] /\ t[i] = s[p[i]] /\ t[j] = s[p[j]] /\ p[i] \in 1 .. Len(s) /\ p[j] \in 1 .. Len(s)
      BY <1>4, <1>6, <2>2
    <3>2. QED
      BY <2>1, <3>1
  <2>3. QED
    BY <2>2
<1>9. \A i \in 1 .. Len(al), j \in 1 .. Len(t) : Apart(al[i], t[j])
  BY <1>4 DEF Shares
<1>10. \A a : (\E i \in 1 .. Len(s) : Holds(s[i], a)) => (\E i \in 1 .. Len(t) : Holds(t[i], a))
  BY <1>2, <1>3, <1>4
<1>11. Shares(al, t, top)
  BY <1>3, <1>7, <1>8, <1>9, <1>10 DEF Shares
<1>12. QED
  BY <1>3, <1>5, <1>11 DEF ByAddress

\* The blocks that the reclaiming loop gives back hold every byte between the
\* new bump pointer and the old one.
LEMMA ChainHolds ==
  ASSUME NEW t \in Seq(Block), NEW n \in Nat, n < Len(t), NEW top \in Nat,
         Reclaims(t, n, top), NEW a \in Nat, t[n + 1].addr <= a, a < top
  PROVE  \E i \in (n + 1) .. Len(t) : Holds(t[i], a)
<1>1. /\ Len(t) \in Nat
      /\ \A i \in 1 .. Len(t) : t[i] \in Block /\ t[i].addr \in Nat /\ t[i].size \in Nat
  <2>1. \A b \in Block : b.addr \in Nat /\ b.size \in Nat
    BY DEF Block
  <2>2. QED
    BY <2>1, ElementOfSeq
<1>2. Stop(t[Len(t)]) = top
  BY <1>1 DEF Reclaims
<1>3. \A i \in (n + 1) .. Len(t) : i # Len(t) => Stop(t[i]) = t[i + 1].addr
  BY <1>1 DEF Reclaims
<1> DEFINE S == {i \in (n + 1) .. Len(t) : a < Stop(t[i])}
<1>4. S \subseteq Nat /\ Len(t) \in S
  BY <1>1, <1>2
<1>5. PICK m \in S : \A i \in S : m <= i
  BY <1>4, LeastNat
<1>6. CASE m = n + 1
  BY <1>5, <1>6 DEF Holds
<1>7. CASE m # n + 1
  <2>1. m - 1 \in (n + 1) .. Len(t) /\ m - 1 # Len(t) /\ (m - 1) + 1 = m /\ ~(m <= m - 1)
    BY <1>1, <1>5, <1>7
  <2>2. Stop(t[m - 1]) = t[m].addr
    BY <1>3, <2>1
  <2>3. ~(a < Stop(t[m - 1]))
    BY <1>5, <2>1
  <2>4. m \in 1 .. Len(t) /\ t[m].addr \in Nat
    BY <1>1, <1>5
  <2>5. t[m].addr <= a /\ a < Stop(t[m])
    BY <1>5, <2>2, <2>3, <2>4
  <2>6. QED
    BY <1>5, <2>5 DEF Holds
<1>8. QED
  BY <1>6, <1>7

\* A block with bytes in it, apart from the ones given back, ends below the new
\* bump pointer.
LEMMA BelowChain ==
  ASSUME NEW t \in Seq(Block), NEW n \in Nat, n < Len(t), NEW top \in Nat,
         Reclaims(t, n, top), NEW b \in Block, InUpTo(b, top),
         \A i \in (n + 1) .. Len(t) : Apart(b, t[i])
  PROVE  InUpTo(b, t[n + 1].addr)
<1>1. b.addr \in Nat /\ b.size \in Nat
  BY DEF Block
<1>2. \A i \in (n + 1) .. Len(t) : t[i] \in Block
  BY ElementOfSeq
<1>3. n + 1 \in (n + 1) .. Len(t) /\ t[n + 1].addr \in Nat
  <2>1. n + 1 \in (n + 1) .. Len(t)
    BY LenProperties
  <2>2. QED
    BY <1>2, <2>1 DEF Block
<1> SUFFICES ASSUME b.size > 0, ~(Stop(b) <= t[n + 1].addr) PROVE FALSE
  BY DEF InUpTo
<1> DEFINE a == Stop(b) - 1
<1>4. a \in Nat /\ t[n + 1].addr <= a /\ a < top /\ Holds(b, a)
  BY <1>1, <1>3 DEF InUpTo, Stop, Holds
<1> HIDE DEF a
<1>5. PICK i \in (n + 1) .. Len(t) : Holds(t[i], a)
  BY <1>4, ChainHolds
<1>6. ~Apart(b, t[i])
  BY <1>2, <1>4, <1>5, ShareByte
<1>7. QED
  BY <1>5, <1>6

\* What the reclaiming loop keeps is shared out below the new bump pointer.
LEMMA ReclaimShares ==
  ASSUME NEW al, NEW t, NEW top, Shares(al, t, top), NEW n \in 0 .. Len(t),
         Reclaims(t, n, top), ByAddress(t),
         NEW s, s = SubSeq(t, 1, n),
         NEW nf, nf = IF n = Len(t) THEN top ELSE t[n + 1].addr
  PROVE  Shares(al, s, nf) /\ TopClear(s, nf)
<1>1. /\ t \in Seq(Block) /\ al \in Seq(Block) /\ Len(t) \in Nat /\ n \in Nat
      /\ top \in Base .. Limit /\ Base \in Nat /\ Limit \in Nat
  BY MemAssumption DEF Shares
<1>2. /\ \A i \in 1 .. Len(t) : t[i] \in Block /\ t[i].addr \in Nat /\ t[i].size \in Nat
      /\ \A i \in 1 .. Len(al) : al[i] \in Block
  <2>1. \A b \in Block : b.addr \in Nat /\ b.size \in Nat
    BY DEF Block
  <2>2. QED
    BY <1>1, <2>1, ElementOfSeq
<1>3. s \in Seq(Block) /\ Len(s) = n /\ \A i \in 1 .. n : s[i] = t[i]
  <2>1. \A i \in 1 .. n : t[i] \in Block
    BY <1>1, <1>2
  <2>2. QED
    BY <1>1, <2>1, SubSeqProperties
<1>4. nf \in Base .. Limit /\ nf <= top
  <2>1. CASE n = Len(t)
    BY <1>1, <2>1
  <2>2. CASE n # Len(t)
    <3>1. n + 1 \in 1 .. Len(t) /\ Len(t) \in 1 .. Len(t) /\ nf = t[n + 1].addr
      BY <1>1, <2>2
    <3>2. t[n + 1].addr <= t[Len(t)].addr
      BY <1>2, <3>1 DEF ByAddress
    <3>3. Stop(t[Len(t)]) = top
      BY <1>1, <2>2 DEF Reclaims
    <3>4. t[n + 1].addr >= Base
      BY <3>1 DEF Shares
    <3>5. t[n + 1].addr \in Nat /\ t[Len(t)].addr \in Nat /\ t[Len(t)].size \in Nat
      BY <1>2, <3>1
    <3>6. t[n + 1].addr <= top
      BY <1>1, <3>2, <3>3, <3>5 DEF Stop
    <3>7. QED
      BY <1>1, <3>1, <3>4, <3>5, <3>6
  <2>3. QED
    BY <2>1, <2>2
<1>5. ASSUME NEW b \in Block, InUpTo(b, top), \A i \in (n + 1) .. Len(t) : Apart(b, t[i])
      PROVE  InUpTo(b, nf)
  <2>1. CASE n = Len(t)
    BY <1>5, <2>1
  <2>2. CASE n # Len(t)
    <3>1. n < Len(t) /\ top \in Nat /\ nf = t[n + 1].addr
      BY <1>1, <2>2
    <3>2. QED
      BY <1>1, <1>5, <3>1, BelowChain
  <2>3. QED
    BY <2>1, <2>2
<1>6. \A i \in 1 .. Len(al) : al[i].addr >= Base /\ InUpTo(al[i], nf)
  <2> SUFFICES ASSUME NEW i \in 1 .. Len(al) PROVE al[i].addr >= Base /\ InUpTo(al[i], nf)
    OBVIOUS
  <2>1. al[i].addr >= Base /\ InUpTo(al[i], top) /\ al[i] \in Block
    BY <1>2 DEF Shares
  <2>2. \A j \in (n + 1) .. Len(t) : Apart(al[i], t[j])
    BY <1>1 DEF Shares
  <2>3. QED
    BY <1>5, <2>1, <2>2
<1>7. \A i \in 1 .. Len(s) : s[i].addr >= Base /\ InUpTo(s[i], nf)
  <2> SUFFICES ASSUME NEW i \in 1 .. n PROVE t[i].addr >= Base /\ InUpTo(t[i], nf)
    BY <1>3
  <2>0. i \in 1 .. Len(t)
    BY <1>1
  <2>1. t[i].addr >= Base /\ InUpTo(t[i], top) /\ t[i] \in Block
    BY <1>2, <2>0 DEF Shares
  <2>2. \A j \in (n + 1) .. Len(t) : Apart(t[i], t[j])
    <3>1. \A j \in (n + 1) .. Len(t) : j \in 1 .. Len(t) /\ i # j
      BY <1>1
    <3>2. QED
      BY <2>0, <3>1 DEF Shares
  <2>3. QED
    BY <1>5, <2>1, <2>2
<1>8. \A i \in 1 .. Len(s) : i \in 1 .. Len(t) /\ s[i] = t[i]
  BY <1>1, <1>3
<1>9. /\ \A i, j \in 1 .. Len(al) : i # j => Apart(al[i], al[j])
      /\ \A i, j \in 1 .. Len(s) : i # j => Apart(s[i], s[j])
      /\ \A i \in 1 .. Len(al), j \in 1 .. Len(s) : Apart(al[i], s[j])
  BY <1>8 DEF Shares
<1>10. ASSUME NEW a \in Base .. (nf - 1)
       PROVE  (\E i \in 1 .. Len(al) : Holds(al[i], a)) \/ (\E i \in 1 .. Len(s) : Holds(s[i], a))
  <2>1. a \in Base .. (top - 1) /\ a \in Nat
    BY <1>1, <1>4
  <2>2. CASE \E i \in 1 .. Len(al) : Holds(al[i], a)
    BY <2>2
  <2>3. CASE \E i \in 1 .. Len(t) : Holds(t[i], a)
    <3>1. PICK i \in 1 .. Len(t) : Holds(t[i], a)
      BY <2>3
    <3>2. i <= n
      <4> SUFFICES ASSUME i > n PROVE FALSE
        BY <1>1
      <4>1. n + 1 \in 1 .. Len(t) /\ nf = t[n + 1].addr /\ (i = n + 1 \/ n + 1 < i)
        BY <1>1
      <4>2. t[n + 1].addr <= t[i].addr
        BY <1>2, <4>1 DEF ByAddress
      <4>3. t[i].addr <= a /\ t[i].addr \in Nat
        BY <1>2, <3>1 DEF Holds
      <4>4. QED
        BY <1>1, <1>2, <1>4, <2>1, <4>1, <4>2, <4>3
    <3>3. i \in 1 .. Len(s) /\ s[i] = t[i]
      BY <1>1, <1>3, <3>2
    <3>4. QED
      BY <3>1, <3>3
  <2>4. QED
    BY <2>1, <2>2, <2>3 DEF Shares
<1>11. Shares(al, s, nf)
  BY <1>1, <1>3, <1>4, <1>6, <1>7, <1>9, <1>10 DEF Shares
<1>12. ASSUME HasBytes(s), NEW i \in 1 .. Len(s) PROVE Stop(s[i]) # nf
  <2>1. n \in 1 .. Len(t) /\ i \in 1 .. Len(t) /\ n \in 1 .. Len(s) /\ n > 0
    BY <1>1, <1>3
  <2>2. Stop(t[n]) # nf
    BY <1>1, <2>1 DEF Reclaims
  <2>3. CASE i = n
    BY <1>3, <2>1, <2>2, <2>3
  <2>4. CASE i # n
    <3>1. s[i] = t[i] /\ s[n] = t[n] /\ i < n
      BY <1>1, <1>3, <2>1, <2>4
    <3>2. t[i].addr <= t[n].addr /\ Apart(t[i], t[n]) /\ t[i].size > 0 /\ t[n].size > 0
      BY <1>12, <2>1, <2>4, <3>1 DEF HasBytes, Shares, ByAddress
    <3>3. Stop(t[n]) <= nf
      BY <1>7, <2>1, <3>1, <3>2 DEF InUpTo
    <3>4. /\ t[i].addr \in Nat /\ t[i].size \in Nat /\ t[n].addr \in Nat /\ t[n].size \in Nat /\ nf \in Nat
      BY <1>1, <1>2, <1>4, <2>1
    <3>5. t[i].addr + t[i].size <= t[n].addr
      BY <3>2, <3>4 DEF Apart, Stop
    <3>6. t[n].addr < nf
      BY <3>2, <3>3, <3>4 DEF Stop
    <3>7. Stop(t[i]) # nf
      BY <3>4, <3>5, <3>6 DEF Stop
    <3>8. QED
      BY <3>1, <3>7
  <2>5. QED
    BY <2>3, <2>4
<1>13. QED
  BY <1>11, <1>12 DEF TopClear

\* free keeps the invariant.
LEMMA FreeAtInv ==
  ASSUME MemInv, NEW addr \in Base .. Limit, FreeAt(addr)
  PROVE  MemInv'
<1>1. PICK k \in 1 .. Len(allocated) :
        /\ allocated' = RemoveAt(allocated, k)
        /\ \E p \in SortOrder(Append(free_list, allocated[k])), n \in 0 .. Len(Append(free_list, allocated[k])) :
             LET t == [i \in 1 .. Len(Append(free_list, allocated[k])) |-> Append(free_list, allocated[k])[p[i]]] IN
             /\ Reclaims(t, n, next_free)
             /\ free_list' = SubSeq(t, 1, n)
             /\ next_free' = IF n = Len(t) THEN next_free ELSE t[n + 1].addr
  BY DEF FreeAt
<1> DEFINE freed == Append(free_list, allocated[k])
<1>2. PICK p \in SortOrder(freed), n \in 0 .. Len(freed) :
        LET t == [i \in 1 .. Len(freed) |-> freed[p[i]]] IN
          /\ Reclaims(t, n, next_free)
          /\ free_list' = SubSeq(t, 1, n)
          /\ next_free' = IF n = Len(t) THEN next_free ELSE t[n + 1].addr
  BY <1>1
<1> DEFINE t == [i \in 1 .. Len(freed) |-> freed[p[i]]]
<1>3. /\ Reclaims(t, n, next_free) /\ free_list' = SubSeq(t, 1, n)
      /\ next_free' = IF n = Len(t) THEN next_free ELSE t[n + 1].addr
  BY <1>2
<1>4. Shares(allocated', freed, next_free)
  BY <1>1, MemShares, MoveShares
<1> HIDE DEF freed
<1>5. Shares(allocated', t, next_free) /\ Len(t) = Len(freed) /\ ByAddress(t)
  BY <1>2, <1>4, SortShares
<1> HIDE DEF t
<1>6. n \in 0 .. Len(t)
  BY <1>2, <1>5
<1>7. Shares(allocated', free_list', next_free') /\ TopClear(free_list', next_free')
  BY <1>3, <1>5, <1>6, ReclaimShares
<1>8. TopApart'
  BY <1>7 DEF TopApart, TopClear
<1>9. QED
  BY <1>7, <1>8, MemSharesNext

-----------------------------------------------------------------------------
(* The specification.                                                      *)

\* alloc keeps the invariant, and returns the address of the block it adds.
LEMMA AllocInv ==
  ASSUME MemInv, NEW n \in Sizes, NEW addr \in Base .. Limit, Alloc(n, addr)
  PROVE  MemInv' /\ addr = allocated'[Len(allocated')].addr
BY AllocBumpInv, AllocReuseInv DEF Alloc

\* A call that fails, or only looks up a name, leaves the heap alone.
LEMMA MemUnchangedInv ==
  ASSUME MemInv, UNCHANGED memVars
  PROVE  MemInv'
<1>1. allocated' = allocated /\ free_list' = free_list /\ next_free' = next_free
  BY DEF memVars
<1>2. TopApart'
  BY <1>1, MemShares DEF TopApart
<1>3. QED
  BY <1>1, <1>2, MemShares, MemSharesNext

\* Every call of the heap and of shared memory keeps the invariant of the heap.
LEMMA MemStep == MemInv /\ [ShmNext]_shmVars => MemInv'
<1> SUFFICES ASSUME MemInv, [ShmNext]_shmVars PROVE MemInv'
  OBVIOUS
<1>1. CASE UNCHANGED shmVars
  BY <1>1, MemUnchangedInv DEF shmVars
<1>2. ASSUME NEW n \in Names, NEW cb \in Sizes, DosAllocSharedMem(n, cb) PROVE MemInv'
  BY <1>2, AllocInv DEF DosAllocSharedMem
<1>3. ASSUME NEW cb \in Sizes, ShmAllocMem(cb) PROVE MemInv'
  BY <1>3, AllocInv DEF ShmAllocMem, DosAllocMem
<1>4. ASSUME NEW cb \in Sizes, ShmAllocFails(cb) PROVE MemInv'
  BY <1>4, MemUnchangedInv DEF ShmAllocFails, AllocNone
<1>5. ASSUME NEW n \in Names, DosGetNamedSharedMem(n) PROVE MemInv'
  BY <1>5, MemUnchangedInv DEF DosGetNamedSharedMem
<1>6. ASSUME NEW pb \in Base .. Limit, ShmFreeMem(pb) PROVE MemInv'
  BY <1>6, FreeAtInv, MemUnchangedInv DEF ShmFreeMem, DosFreeMem, FreeUnknown
<1>7. QED
  BY <1>1, <1>2, <1>3, <1>4, <1>5, <1>6 DEF ShmNext

\* The invariant holds always.
LEMMA MemAlways == ShmSpec => []MemInv
<1>1. ShmInit => MemInv
  BY MemInitInv DEF ShmInit
<1>2. QED
  BY <1>1, MemStep, PTL DEF ShmSpec

\* No byte of guest memory has two owners: alloc never hands out, and free never
\* takes back, bytes of another block.
THEOREM HeapNoOverlap == ShmSpec => []NoOverlap
<1>1. MemInv => NoOverlap
  BY DEF MemInv
<1>2. QED
  BY <1>1, MemAlways, PTL

\* A list without empty blocks has none in its parts.
LEMMA BytesOfBoth ==
  ASSUME NEW s \in Seq(Block), NEW t \in Seq(Block), HasBytes(s \o t)
  PROVE  HasBytes(s) /\ HasBytes(t)
<1>1. /\ Len(s) \in Nat /\ Len(t) \in Nat /\ Len(s \o t) = Len(s) + Len(t)
      /\ \A i \in 1 .. Len(s) + Len(t) : (s \o t)[i] = IF i <= Len(s) THEN s[i] ELSE t[i - Len(s)]
  BY ConcatProperties
<1>2. ASSUME NEW i \in 1 .. Len(s) PROVE s[i].size > 0
  <2>1. i \in 1 .. Len(s) + Len(t) /\ (s \o t)[i] = s[i]
    BY <1>1
  <2>2. QED
    BY <1>1, <2>1 DEF HasBytes
<1>3. ASSUME NEW i \in 1 .. Len(t) PROVE t[i].size > 0
  <2>1. i + Len(s) \in 1 .. Len(s) + Len(t) /\ ~(i + Len(s) <= Len(s)) /\ (i + Len(s)) - Len(s) = i
    BY <1>1
  <2>2. (s \o t)[i + Len(s)] = t[i]
    BY <1>1, <2>1
  <2>3. QED
    BY <1>1, <2>1, <2>2 DEF HasBytes
<1>4. QED
  BY <1>2, <1>3 DEF HasBytes

\* When everything is freed the last byte below the bump pointer would be that of
\* a free block, which the reclaiming loop would have taken: there is none.
LEMMA MemReclaimed == MemInv => ArenaKept
<1> SUFFICES ASSUME MemInv PROVE TopReclaimed
  BY DEF ArenaKept, MemInv
<1> SUFFICES ASSUME HasBytes(allocated \o free_list)
             PROVE  /\ \A i \in 1 .. Len(free_list) : Stop(free_list[i]) # next_free
                    /\ allocated = << >> => free_list = << >> /\ next_free = Base
  BY DEF TopReclaimed
<1>1. /\ allocated \in Seq(Block) /\ free_list \in Seq(Block)
      /\ \A i \in 1 .. Len(free_list) : free_list[i] \in Block /\ free_list[i].addr \in Nat /\ free_list[i].size \in Nat
  BY BlockTypes DEF MemInv
<1>2. HasBytes(allocated) /\ HasBytes(free_list)
  BY <1>1, BytesOfBoth
<1>3. \A i \in 1 .. Len(free_list) : Stop(free_list[i]) # next_free
  BY <1>2 DEF MemInv, TopApart
<1>4. next_free \in Base .. Limit /\ Base \in Nat /\ Limit \in Nat
  BY MemAssumption DEF MemInv, MemTypeOK
<1>5. ASSUME allocated = << >> PROVE free_list = << >> /\ next_free = Base
  <2>1. next_free = Base
    <3> SUFFICES ASSUME next_free # Base PROVE FALSE
      OBVIOUS
    <3>1. next_free - 1 \in Base .. (next_free - 1)
      BY <1>4
    <3>2. PICK i \in 1 .. Len(free_list) : Holds(free_list[i], next_free - 1)
      BY <1>5, <3>1 DEF MemInv, ArenaCovered
    <3>3. Stop(free_list[i]) <= next_free
      BY <1>2 DEF MemInv, ArenaCovered, InArena, HasBytes
    <3>4. Stop(free_list[i]) = next_free
      <4>1. PICK x \in Nat, n \in Nat, top \in Nat :
              x = free_list[i].addr /\ n = free_list[i].size /\ top = next_free
        BY <1>1, <1>4
      <4>2. x + n <= top /\ top - 1 < x + n
        BY <3>2, <3>3, <4>1 DEF Holds, Stop
      <4>3. x + n = top
        BY <4>2
      <4>4. QED
        BY <4>1, <4>3 DEF Stop
    <3>5. QED
      BY <1>3, <3>4
  <2>2. Len(free_list) = 0
    <3> SUFFICES ASSUME Len(free_list) # 0 PROVE FALSE
      OBVIOUS
    <3>1. 1 \in 1 .. Len(free_list)
      BY <1>1, LenProperties
    <3>2. free_list[1].size > 0 /\ Base <= free_list[1].addr /\ Stop(free_list[1]) <= next_free
      BY <1>2, <3>1 DEF MemInv, ArenaCovered, InArena, HasBytes
    <3>3. QED
      BY <1>1, <1>4, <2>1, <3>1, <3>2 DEF Stop
  <2>3. QED
    BY <1>1, <2>1, <2>2, EmptySeq
<1>6. QED
  BY <1>3, <1>5

\* Nothing is lost: every byte below the bump pointer belongs to a block, and a
\* guest that frees everything gets the whole arena back.
THEOREM HeapKept == ShmSpec => []ArenaKept
BY MemAlways, MemReclaimed, PTL

-----------------------------------------------------------------------------
(* The names of shared memory.                                             *)

\* allocated[i] is still handed out after the step.
StillThere(i) == \E j \in 1 .. Len(allocated') : allocated'[j] = allocated[i]

\* alloc adds its block to the ones that are there.
LEMMA AllocKeeps ==
  ASSUME MemInv, NEW n \in Sizes, NEW addr \in Base .. Limit, Alloc(n, addr)
  PROVE  /\ \A i \in 1 .. Len(allocated) : i \in 1 .. Len(allocated') /\ allocated'[i] = allocated[i]
         /\ Len(allocated') = Len(allocated) + 1 /\ Len(allocated) \in Nat
<1>1. PICK c : allocated' = Append(allocated, c)
  BY DEF Alloc, AllocBump, AllocReuse
<1>2. allocated \in Seq(Block)
  BY DEF MemInv, MemTypeOK
<1>3. QED
  BY <1>1, <1>2, AppendProperties, LenProperties

\* free takes one block away, which starts at the address it was given.
LEMMA FreeKeeps ==
  ASSUME MemInv, NEW pb \in Base .. Limit, DosFreeMem(pb),
         NEW i \in 1 .. Len(allocated), allocated[i].addr # pb
  PROVE  StillThere(i)
<1>1. CASE FreeUnknown(pb)
  BY <1>1 DEF FreeUnknown, memVars, StillThere
<1>2. CASE FreeAt(pb)
  <2>1. PICK k \in 1 .. Len(allocated) : FirstAt(k, pb) /\ allocated' = RemoveAt(allocated, k)
    BY <1>2 DEF FreeAt
  <2>2. i # k
    BY <2>1 DEF FirstAt
  <2>3. allocated \in Seq(Block) /\ Len(allocated) \in Nat
    BY DEF MemInv, MemTypeOK
  <2>4. /\ Len(allocated') = Len(allocated) - 1
        /\ \A j \in 1 .. k - 1 : allocated'[j] = allocated[j]
        /\ \A j \in k .. Len(allocated) - 1 : allocated'[j] = allocated[j + 1]
    BY <2>1, <2>3, RemoveAtFacts
  <2>5. CASE i < k
    <3>1. i \in 1 .. k - 1 /\ i \in 1 .. Len(allocated')
      BY <2>3, <2>4, <2>5
    <3>2. QED
      BY <2>4, <3>1 DEF StillThere
  <2>6. CASE i > k
    <3>1. i - 1 \in k .. Len(allocated) - 1 /\ i - 1 \in 1 .. Len(allocated') /\ (i - 1) + 1 = i
      BY <2>3, <2>4, <2>6
    <3>2. allocated'[i - 1] = allocated[i]
      BY <2>4, <3>1
    <3>3. QED
      BY <3>1, <3>2 DEF StillThere
  <2>7. QED
    BY <2>2, <2>5, <2>6
<1>3. QED
  BY <1>1, <1>2 DEF DosFreeMem

\* Of two blocks at one address one is empty.
LEMMA OneEmpty ==
  ASSUME NEW b \in Block, NEW c \in Block, Apart(b, c), b.addr = c.addr
  PROVE  b = [addr |-> c.addr, size |-> 0] \/ c = [addr |-> c.addr, size |-> 0]
<1>1. b.addr \in Nat /\ b.size \in Nat /\ c.addr \in Nat /\ c.size \in Nat
  BY DEF Block
<1>2. b.size = 0 \/ c.size = 0
  BY <1>1 DEF Apart, Stop
<1>3. b = [addr |-> b.addr, size |-> b.size] /\ c = [addr |-> c.addr, size |-> c.size]
  BY DEF Block
<1>4. QED
  BY <1>2, <1>3

\* The inductive invariant.
NamesInv == MemInv /\ stale \subseteq DOMAIN named_blocks /\ NamesApart

\* Names that keep their address, whose blocks are still handed out, keep what
\* NamesApart says of them.
LEMMA NamesKept ==
  ASSUME NamesInv,
         Fresh' \subseteq Fresh, \A n \in Fresh' : named_blocks'[n] = named_blocks[n],
         \A n \in Fresh' : \A i \in 1 .. Len(allocated) :
            allocated[i].addr = named_blocks[n] => StillThere(i)
  PROVE  NamesApart'
<1>1. ASSUME NEW n \in Fresh'
      PROVE  \E j \in 1 .. Len(allocated') : allocated'[j].addr = named_blocks'[n]
  <2>1. PICK i \in 1 .. Len(allocated) : allocated[i].addr = named_blocks[n]
    BY DEF NamesInv, NamesApart, Starts
  <2>2. PICK j \in 1 .. Len(allocated') : allocated'[j] = allocated[i]
    BY <2>1 DEF StillThere
  <2>3. QED
    BY <2>1, <2>2
<1>2. ASSUME NEW m \in Fresh', NEW n \in Fresh', m # n, named_blocks'[m] = named_blocks'[n]
      PROVE  \E k \in 1 .. Len(allocated') : allocated'[k] = [addr |-> named_blocks'[n], size |-> 0]
  <2>1. PICK i \in 1 .. Len(allocated) : allocated[i] = [addr |-> named_blocks[n], size |-> 0]
    BY <1>2 DEF NamesInv, NamesApart
  <2>2. allocated[i].addr = named_blocks[n]
    BY <2>1
  <2>3. PICK j \in 1 .. Len(allocated') : allocated'[j] = allocated[i]
    BY <2>2 DEF StillThere
  <2>4. QED
    BY <2>1, <2>3
<1>3. QED
  BY <1>1, <1>2 DEF NamesApart, Starts

\* A name registered for a new block finds it, and shares its address with
\* another only where one of the two blocks is empty.
LEMMA NamesRegistered ==
  ASSUME NamesInv, NEW n \in Names, NEW cb \in Sizes, DosAllocSharedMem(n, cb)
  PROVE  NamesInv'
<1>1. PICK addr \in Base .. Limit : Alloc(cb, addr) /\ Register(n, addr)
  BY DEF DosAllocSharedMem
<1>2. MemInv' /\ addr = allocated'[Len(allocated')].addr
  BY <1>1, AllocInv DEF NamesInv
<1>3. /\ \A i \in 1 .. Len(allocated) : i \in 1 .. Len(allocated') /\ allocated'[i] = allocated[i]
      /\ Len(allocated') = Len(allocated) + 1 /\ Len(allocated) \in Nat
  BY <1>1, AllocKeeps DEF NamesInv
<1> DEFINE L == Len(allocated')
<1>4. L \in 1 .. L /\ \A i \in 1 .. Len(allocated) : i # L
  BY <1>3
<1>5. /\ DOMAIN named_blocks' = DOMAIN named_blocks \cup {n} /\ named_blocks'[n] = addr
      /\ \A m \in DOMAIN named_blocks : m # n => named_blocks'[m] = named_blocks[m]
      /\ stale' = stale \ {n}
  BY <1>1 DEF Register
<1>6. stale' \subseteq DOMAIN named_blocks' /\ \A m \in Fresh' : m = n \/ (m \in Fresh /\ m # n)
  BY <1>5 DEF NamesInv, Fresh
<1>7. \A i \in 1 .. Len(allocated') : allocated'[i] \in Block
  <2>1. allocated' \in Seq(Block)
    BY <1>2 DEF MemInv, MemTypeOK
  <2>2. QED
    BY <2>1, ElementOfSeq
<1>8. \A m \in Fresh : m # n => named_blocks'[m] = named_blocks[m]
  BY <1>5 DEF Fresh
<1>9. \A m \in Fresh : \E i \in 1 .. Len(allocated) : allocated[i].addr = named_blocks[m]
  BY DEF NamesInv, NamesApart, Starts
<1>10. ASSUME NEW m \in Fresh' PROVE \E i \in 1 .. L : allocated'[i].addr = named_blocks'[m]
  <2>1. CASE m = n
    BY <1>2, <1>4, <1>5, <2>1
  <2>2. CASE m # n
    BY <1>3, <1>6, <1>8, <1>9, <2>2
  <2>3. QED
    BY <2>1, <2>2
<1>11. ASSUME NEW m \in Fresh, m # n, named_blocks[m] = addr
       PROVE  \E k \in 1 .. L : allocated'[k] = [addr |-> addr, size |-> 0]
  <2>1. PICK i \in 1 .. Len(allocated) : allocated[i].addr = addr
    BY <1>9, <1>11
  <2>2. /\ i \in 1 .. L /\ i # L /\ allocated'[i].addr = addr /\ allocated'[L].addr = addr
        /\ allocated'[i] \in Block /\ allocated'[L] \in Block
    BY <1>2, <1>3, <1>4, <1>7, <2>1
  <2>3. Apart(allocated'[i], allocated'[L])
    BY <1>2, <1>4, <2>2 DEF MemInv, NoOverlap
  <2>4. allocated'[i] = [addr |-> addr, size |-> 0] \/ allocated'[L] = [addr |-> addr, size |-> 0]
    BY <2>2, <2>3, OneEmpty
  <2>5. QED
    BY <1>4, <2>2, <2>4
<1>12. ASSUME NEW m \in Fresh', NEW o \in Fresh', m # o, named_blocks'[m] = named_blocks'[o]
       PROVE  \E k \in 1 .. L : allocated'[k] = [addr |-> named_blocks'[o], size |-> 0]
  <2>1. CASE m = n
    <3>1. o \in Fresh /\ o # n /\ named_blocks[o] = addr
      BY <1>5, <1>6, <1>8, <1>12, <2>1
    <3>2. QED
      BY <1>5, <1>11, <1>12, <2>1, <3>1
  <2>2. CASE o = n
    <3>1. m \in Fresh /\ m # n /\ named_blocks[m] = addr
      BY <1>5, <1>6, <1>8, <1>12, <2>2
    <3>2. QED
      BY <1>5, <1>11, <1>12, <2>2, <3>1
  <2>3. CASE m # n /\ o # n
    <3>1. m \in Fresh /\ o \in Fresh /\ named_blocks[m] = named_blocks[o] /\ named_blocks'[o] = named_blocks[o]
      BY <1>6, <1>8, <1>12, <2>3
    <3>2. PICK k \in 1 .. Len(allocated) : allocated[k] = [addr |-> named_blocks[o], size |-> 0]
      BY <1>12, <3>1 DEF NamesInv, NamesApart
    <3>3. QED
      BY <1>3, <3>1, <3>2
  <2>4. QED
    BY <2>1, <2>2, <2>3
<1>13. NamesApart'
  BY <1>10, <1>12 DEF NamesApart, Starts
<1>14. QED
  BY <1>2, <1>6, <1>13 DEF NamesInv

\* Every call keeps it.
LEMMA NamesStep == NamesInv /\ [ShmNext]_shmVars => NamesInv'
<1> SUFFICES ASSUME NamesInv, [ShmNext]_shmVars PROVE NamesInv'
  OBVIOUS
<1>0. MemInv'
  BY MemStep DEF NamesInv
<1>1. ASSUME UNCHANGED <<named_blocks, stale>>,
             \A i \in 1 .. Len(allocated) : StillThere(i)
      PROVE  NamesInv'
  <2>1. Fresh' = Fresh
    BY <1>1 DEF Fresh
  <2>2. NamesApart'
    BY <1>1, <2>1, NamesKept
  <2>3. QED
    BY <1>0, <1>1, <2>2 DEF NamesInv
<1>2. ASSUME UNCHANGED allocated PROVE \A i \in 1 .. Len(allocated) : StillThere(i)
  BY <1>2 DEF StillThere
<1>3. CASE UNCHANGED shmVars
  BY <1>1, <1>2, <1>3 DEF shmVars, memVars
<1>4. ASSUME NEW n \in Names, NEW cb \in Sizes, DosAllocSharedMem(n, cb) PROVE NamesInv'
  BY <1>4, NamesRegistered
<1>5. ASSUME NEW cb \in Sizes, ShmAllocMem(cb) PROVE NamesInv'
  <2>1. PICK addr \in Base .. Limit : Alloc(cb, addr)
    BY <1>5 DEF ShmAllocMem, DosAllocMem
  <2>2. \A i \in 1 .. Len(allocated) : i \in 1 .. Len(allocated') /\ allocated'[i] = allocated[i]
    BY <2>1, AllocKeeps DEF NamesInv
  <2>3. QED
    BY <1>1, <1>5, <2>2 DEF ShmAllocMem, StillThere
<1>6. ASSUME NEW cb \in Sizes, ShmAllocFails(cb) PROVE NamesInv'
  BY <1>1, <1>2, <1>6 DEF ShmAllocFails, AllocNone, memVars
<1>7. ASSUME NEW n \in Names, DosGetNamedSharedMem(n) PROVE NamesInv'
  BY <1>1, <1>2, <1>7 DEF DosGetNamedSharedMem, memVars
<1>8. ASSUME NEW pb \in Base .. Limit, ShmFreeMem(pb) PROVE NamesInv'
  <2>1. /\ DosFreeMem(pb) /\ named_blocks' = named_blocks
        /\ stale' = stale \cup {n \in DOMAIN named_blocks : named_blocks[n] = pb}
    BY <1>8 DEF ShmFreeMem
  <2>2. /\ stale' \subseteq DOMAIN named_blocks' /\ Fresh' \subseteq Fresh
        /\ \A n \in Fresh' : named_blocks'[n] = named_blocks[n] /\ named_blocks[n] # pb
    BY <2>1 DEF NamesInv, Fresh
  <2>3. \A n \in Fresh' : \A i \in 1 .. Len(allocated) :
          allocated[i].addr = named_blocks[n] => StillThere(i)
    BY <2>1, <2>2, FreeKeeps DEF NamesInv
  <2>4. NamesApart'
    BY <2>2, <2>3, NamesKept
  <2>5. QED
    BY <1>0, <2>2, <2>4 DEF NamesInv
<1>9. QED
  BY <1>3, <1>4, <1>5, <1>6, <1>7, <1>8 DEF ShmNext

\* A name whose block nobody freed finds that block, and two such names share an
\* address only where an empty block is.
THEOREM NamesSafe == ShmSpec => []NamesApart
<1>1. ShmInit => NamesInv
  <2> SUFFICES ASSUME ShmInit PROVE NamesInv
    OBVIOUS
  <2>1. MemInv
    BY MemInitInv DEF ShmInit
  <2>2. stale = {} /\ DOMAIN named_blocks = {}
    BY DEF ShmInit, NoBlocks
  <2>3. QED
    BY <2>1, <2>2 DEF NamesInv, NamesApart, Fresh
<1>2. NamesInv => NamesApart
  BY DEF NamesInv
<1>3. QED
  BY <1>1, <1>2, NamesStep, PTL DEF ShmSpec


-----------------------------------------------------------------------------
(* Sequences and their sets of elements.                                   *)

\* The elements of a sequence over S are in S.
LEMMA SeqSet ==
  ASSUME NEW S, NEW s \in Seq(S)
  PROVE  ToSet(s) \subseteq S
<1>1. DOMAIN s = 1 .. Len(s) /\ \A i \in 1 .. Len(s) : s[i] \in S
  BY LenProperties, ElementOfSeq
<1>2. QED
  BY <1>1 DEF ToSet

\* push_back of an element that is not there yet.
LEMMA AppendSet ==
  ASSUME NEW S, NEW s \in Seq(S), NEW e \in S
  PROVE  /\ Append(s, e) \in Seq(S)
         /\ ToSet(Append(s, e)) = ToSet(s) \cup {e}
         /\ IsInjective(s) /\ e \notin ToSet(s) => IsInjective(Append(s, e))
<1> DEFINE u == Append(s, e)
<1>1. /\ u \in Seq(S) /\ Len(u) = Len(s) + 1 /\ u[Len(s) + 1] = e
      /\ \A i \in 1 .. Len(s) : u[i] = s[i]
  BY AppendProperties
<1>2. Len(s) \in Nat /\ DOMAIN s = 1 .. Len(s) /\ DOMAIN u = 1 .. Len(s) + 1
  BY <1>1, LenProperties
<1> HIDE DEF u
<1>3. ToSet(u) = ToSet(s) \cup {e}
  <2>1. \A i \in 1 .. Len(s) + 1 : i \in 1 .. Len(s) \/ i = Len(s) + 1
    BY <1>2
  <2>2. \A i \in 1 .. Len(s) : i \in 1 .. Len(s) + 1
    BY <1>2
  <2>3. Len(s) + 1 \in 1 .. Len(s) + 1
    BY <1>2
  <2>4. QED
    BY <1>1, <1>2, <2>1, <2>2, <2>3 DEF ToSet
<1>4. ASSUME IsInjective(s), e \notin ToSet(s) PROVE IsInjective(u)
  <2> SUFFICES ASSUME NEW i \in 1 .. Len(s) + 1, NEW j \in 1 .. Len(s) + 1, u[i] = u[j] PROVE i = j
    BY <1>2 DEF IsInjective
  <2>1. CASE i \in 1 .. Len(s) /\ j \in 1 .. Len(s)
    BY <1>1, <1>2, <1>4, <2>1 DEF IsInjective
  <2>2. CASE i \in 1 .. Len(s) /\ j = Len(s) + 1
    BY <1>1, <1>2, <1>4, <2>2 DEF ToSet
  <2>3. CASE j \in 1 .. Len(s) /\ i = Len(s) + 1
    BY <1>1, <1>2, <1>4, <2>3 DEF ToSet
  <2>4. QED
    BY <1>2, <2>1, <2>2, <2>3
<1>5. QED
  BY <1>1, <1>3, <1>4 DEF u

\* pop_front.
LEMMA PopSet ==
  ASSUME NEW S, NEW s \in Seq(S), s # << >>
  PROVE  /\ Head(s) \in S /\ Head(s) \in ToSet(s) /\ Tail(s) \in Seq(S)
         /\ ToSet(Tail(s)) \subseteq ToSet(s)
         /\ IsInjective(s) => IsInjective(Tail(s)) /\ Head(s) \notin ToSet(Tail(s))
<1>1. /\ Len(s) \in Nat /\ Len(s) # 0 /\ DOMAIN s = 1 .. Len(s)
      /\ \A i \in 1 .. Len(s) : s[i] \in S
  BY EmptySeq, LenProperties, ElementOfSeq
<1>2. /\ Head(s) = s[1] /\ Tail(s) \in Seq(S) /\ Len(Tail(s)) = Len(s) - 1
      /\ \A i \in 1 .. Len(s) - 1 : Tail(s)[i] = s[i + 1]
  BY <1>1, HeadTailProperties
<1>3. DOMAIN Tail(s) = 1 .. Len(s) - 1 /\ 1 \in 1 .. Len(s)
  BY <1>1, <1>2, LenProperties
<1>4. \A i \in 1 .. Len(s) - 1 : i + 1 \in 1 .. Len(s) /\ i + 1 # 1
  BY <1>1
<1>5. Head(s) \in S /\ Head(s) \in ToSet(s)
  BY <1>1, <1>2, <1>3 DEF ToSet
<1>6. ToSet(Tail(s)) \subseteq ToSet(s)
  BY <1>1, <1>2, <1>3, <1>4 DEF ToSet
<1>7. ASSUME IsInjective(s) PROVE IsInjective(Tail(s)) /\ Head(s) \notin ToSet(Tail(s))
  <2>1. \A i, j \in 1 .. Len(s) : s[i] = s[j] => i = j
    BY <1>1, <1>7 DEF IsInjective
  <2>2. \A i, j \in 1 .. Len(s) - 1 : i + 1 = j + 1 => i = j
    BY <1>1
  <2>3. IsInjective(Tail(s))
    BY <1>2, <1>3, <1>4, <2>1, <2>2 DEF IsInjective
  <2>4. Head(s) \notin ToSet(Tail(s))
    BY <1>2, <1>3, <1>4, <2>1 DEF ToSet
  <2>5. QED
    BY <2>3, <2>4
<1>8. QED
  BY <1>2, <1>5, <1>6, <1>7

\* Concatenation of a pop and of a push.
LEMMA ConcatPop ==
  ASSUME NEW S, NEW s \in Seq(S), NEW t \in Seq(S), t # << >>
  PROVE  Append(s, Head(t)) \o Tail(t) = s \o t
<1>1. Head(t) \in S /\ Tail(t) \in Seq(S)
  BY PopSet
<1>2. t = << Head(t) >> \o Tail(t)
  BY HeadTailProperties, <1>1
<1>3. Append(s, Head(t)) = s \o << Head(t) >>
  BY <1>1, AppendIsConcat
<1>4. (s \o << Head(t) >>) \o Tail(t) = s \o (<< Head(t) >> \o Tail(t))
  BY <1>1, ConcatAssociative
<1>5. QED
  BY <1>2, <1>3, <1>4

\* Pushing to the part that stays.
LEMMA ConcatPush ==
  ASSUME NEW S, NEW s \in Seq(S), NEW t \in Seq(S), NEW e \in S
  PROVE  s \o Append(t, e) = Append(s \o t, e)
<1>1. Append(t, e) = t \o << e >> /\ s \o t \in Seq(S)
  BY AppendIsConcat, ConcatProperties
<1>2. Append(s \o t, e) = (s \o t) \o << e >>
  BY <1>1, AppendIsConcat
<1>3. QED
  BY <1>1, <1>2, ConcatAssociative

-----------------------------------------------------------------------------
(* The inductive invariant.                                                *)

\* What has been handed over or thrown away.
Spent == ToSet(delivered) \cup dropped

\* Elements are numbered as they are written, so a new one is unlike every other.
Numbered ==
  /\ \A e \in Spent : e <= written
  /\ \A h \in Handles : \A e \in ToSet(items[h]) : e <= written
  /\ \A t \in Threads : pc[t] = "taken" => entry[t] \in 1 .. written

\* An element is in one place of one queue, and then neither spent nor in the
\* hands of a reader.
OnePlace ==
  /\ \A h \in Handles : IsInjective(items[h]) /\ ToSet(items[h]) \cap Spent = {}
  /\ \A g, h \in Handles : g # h => ToSet(items[g]) \cap ToSet(items[h]) = {}

QueueInv == QueueTypeOK /\ LeavesInOrder /\ Numbered /\ OnePlace /\ DeliveredOnce

\* Initially there are no elements.
LEMMA QueueInitInv == QueueInit => QueueInv
<1> SUFFICES ASSUME QueueInit PROVE QueueInv
  OBVIOUS
<1>1. ToSet(<< >>) = {} /\ IsInjective(<< >>)
  BY DEF ToSet, IsInjective
<1>2. QueueTypeOK
  <2>1. << >> \in Seq(1 .. MaxWrites) /\ 1 \in 1 .. MaxHandles /\ 1 \in 1 .. (MaxHandles + 1) /\ 0 \in 0 .. MaxWrites
    BY QueueAssumption
  <2>2. QED
    BY <2>1 DEF QueueInit, QueueTypeOK, Handles
<1>3. LeavesInOrder
  BY DEF QueueInit, LeavesInOrder
<1>4. Numbered /\ OnePlace /\ DeliveredOnce
  BY <1>1 DEF QueueInit, Numbered, OnePlace, DeliveredOnce, Spent
<1>5. QED
  BY <1>2, <1>3, <1>4 DEF QueueInv

\* A step that moves no element, after which the readers that hold one are
\* readers that held it.
LEMMA QuietStep ==
  ASSUME QueueInv, QueueTypeOK', UNCHANGED <<items, written, wrote, left, delivered, dropped>>,
         \A t \in Threads : pc'[t] = "taken" => pc[t] = "taken" /\ entry'[t] = entry[t]
  PROVE  QueueInv'
<1>1. /\ items' = items /\ written' = written /\ wrote' = wrote /\ left' = left
      /\ delivered' = delivered /\ dropped' = dropped /\ Spent' = Spent
  BY DEF Spent
<1>2. LeavesInOrder' /\ OnePlace'
  BY <1>1 DEF QueueInv, LeavesInOrder, OnePlace
<1>3. Numbered'
  BY <1>1 DEF QueueInv, Numbered
<1>4. DeliveredOnce'
  BY <1>1 DEF QueueInv, DeliveredOnce
<1>5. QED
  BY <1>2, <1>3, <1>4 DEF QueueInv

\* Every step keeps the types.
LEMMA QueueTypes == QueueInv /\ [QueueNext]_queueVars => QueueTypeOK'
<1> SUFFICES ASSUME QueueInv, [QueueNext]_queueVars PROVE QueueTypeOK'
  OBVIOUS
<1> USE DEF QueueInv
<1> DEFINE E == 1 .. MaxWrites
<1>0. MaxHandles \in Nat \ {0} /\ MaxWrites \in Nat /\ 1 \in Handles
  BY QueueAssumption DEF Handles
<1>1. CASE UNCHANGED queueVars
  BY <1>1 DEF QueueTypeOK, queueVars, mgrVars, callVars, histVars
<1>2. CASE RequestExit
  BY <1>2 DEF QueueTypeOK, RequestExit, mgrVars, callVars, histVars
<1>3. ASSUME NEW t \in Threads, NEW to \in {"stopped", "top", "pop", "gap", "sleep"}, Goto(t, to)
      PROVE  QueueTypeOK'
  BY <1>3 DEF QueueTypeOK, Goto, mgrVars, histVars
<1>4. ASSUME NEW t \in Threads, Return(t), delivered' \in Seq(E), dropped' \subseteq E
      PROVE  QueueTypeOK'
  BY <1>0, <1>4 DEF QueueTypeOK, Return, mgrVars
<1>5. ASSUME NEW t \in Threads, ReadPops(t) PROVE QueueTypeOK'
  <2>1. items[arg[t]] \in Seq(E) /\ items[arg[t]] # << >> /\ arg[t] \in Handles /\ left[arg[t]] \in Seq(E)
    BY <1>5 DEF QueueTypeOK, ReadPops
  <2>2. Head(items[arg[t]]) \in E /\ Tail(items[arg[t]]) \in Seq(E)
    BY <2>1, PopSet
  <2>3. Append(left[arg[t]], Head(items[arg[t]])) \in Seq(E)
    BY <2>1, <2>2, AppendSet
  <2>4. Head(items[arg[t]]) \in 0 .. MaxWrites
    BY <1>0, <2>2
  <2>5. /\ items' \in [Handles -> Seq(E)] /\ left' \in [Handles -> Seq(E)] /\ entry' \in [Threads -> 0 .. MaxWrites]
        /\ pc' \in [Threads -> {"run", "stopped", "top", "pop", "gap", "sleep", "taken"}]
    BY <1>5, <2>1, <2>2, <2>3, <2>4 DEF QueueTypeOK, ReadPops
  <2>6. QED
    BY <1>5, <2>5 DEF QueueTypeOK, ReadPops, mgrVars
<1>6. ASSUME NEW t \in Threads, ReadDelivers(t) PROVE QueueTypeOK'
  <2>1. entry[t] \in E /\ delivered \in Seq(E)
    BY <1>0, <1>6 DEF QueueTypeOK, Numbered, ReadDelivers
  <2>2. delivered' \in Seq(E) /\ dropped' \subseteq E
    BY <1>6, <2>1, AppendSet DEF ReadDelivers, QueueTypeOK
  <2>3. QED
    BY <1>4, <1>6, <2>2 DEF ReadDelivers
<1>7. ASSUME NEW t \in Threads, ReadOutOfMemory(t) PROVE QueueTypeOK'
  <2>1. entry[t] \in E
    BY <1>0, <1>7 DEF QueueTypeOK, Numbered, ReadOutOfMemory
  <2>2. delivered' \in Seq(E) /\ dropped' \subseteq E
    BY <1>7, <2>1 DEF ReadOutOfMemory, QueueTypeOK
  <2>3. QED
    BY <1>4, <1>7, <2>2 DEF ReadOutOfMemory
<1>8. ASSUME NEW t \in Threads, ReadStep(t) PROVE QueueTypeOK'
  <2>1. delivered \in Seq(E) /\ dropped \subseteq E
    BY DEF QueueTypeOK
  <2>2. CASE ReadChecksExit(t)
    BY <1>3, <1>4, <2>1, <2>2 DEF ReadChecksExit
  <2>3. CASE ReadFindsNothing(t)
    BY <1>3, <1>4, <2>1, <2>3 DEF ReadFindsNothing
  <2>4. CASE ReadSleeps(t) \/ ReadSliceEnds(t)
    BY <1>3, <2>4 DEF ReadSleeps, ReadSliceEnds
  <2>5. QED
    BY <1>5, <1>6, <1>7, <1>8, <2>2, <2>3, <2>4 DEF ReadStep
<1>9. ASSUME NEW t \in Threads, DosCreateQueue(t) PROVE QueueTypeOK'
  <2>1. next_handle' \in 1 .. (MaxHandles + 1) /\ open' \subseteq Handles
    BY <1>0, <1>9 DEF QueueTypeOK, DosCreateQueue, Handles
  <2>2. QED
    BY <1>9, <2>1 DEF QueueTypeOK, DosCreateQueue, callVars, histVars
<1>10. ASSUME NEW t \in Threads, NEW h \in Handles, DosWriteQueue(t, h) PROVE QueueTypeOK'
  <2>1. written + 1 \in E /\ written + 1 \in 0 .. MaxWrites
    BY <1>0, <1>10 DEF QueueTypeOK, DosWriteQueue
  <2>2. Append(items[h], written + 1) \in Seq(E) /\ Append(wrote[h], written + 1) \in Seq(E)
    BY <2>1, AppendSet DEF QueueTypeOK
  <2>3. items' \in [Handles -> Seq(E)] /\ wrote' \in [Handles -> Seq(E)]
    BY <1>10, <2>2 DEF QueueTypeOK, DosWriteQueue
  <2>4. pc' \in [Threads -> {"run", "stopped", "top", "pop", "gap", "sleep", "taken"}]
    BY <1>10 DEF QueueTypeOK, DosWriteQueue, NotifyOne
  <2>5. QED
    BY <1>10, <2>1, <2>3, <2>4 DEF QueueTypeOK, DosWriteQueue, mgrVars
<1>11. ASSUME NEW t \in Threads, NEW h \in Handles, DosPurgeQueue(t, h) PROVE QueueTypeOK'
  <2>1. left[h] \o items[h] \in Seq(E) /\ << >> \in Seq(E)
    BY ConcatProperties DEF QueueTypeOK
  <2>2. items' \in [Handles -> Seq(E)] /\ left' \in [Handles -> Seq(E)]
    BY <1>11, <2>1 DEF QueueTypeOK, DosPurgeQueue
  <2>3. QED
    BY <1>11, <2>2 DEF QueueTypeOK, DosPurgeQueue, mgrVars, callVars
<1>12. ASSUME NEW t \in Threads, NEW h \in Handles, DosCloseQueue(t, h) PROVE QueueTypeOK'
  BY <1>12 DEF QueueTypeOK, DosCloseQueue, callVars, histVars
<1>13. ASSUME NEW t \in Threads, NEW h \in Handles, NEW wait \in BOOLEAN, DosReadQueue(t, h, wait)
       PROVE  QueueTypeOK'
  BY <1>13 DEF QueueTypeOK, DosReadQueue, mgrVars, histVars
<1>14. ASSUME NEW t \in Threads, ThreadStops(t) PROVE QueueTypeOK'
  BY <1>3, <1>14 DEF ThreadStops
<1>15. QED
  BY <1>1, <1>2, <1>8, <1>9, <1>10, <1>11, <1>12, <1>13, <1>14 DEF QueueNext, QueueCall

\* A new element is put at the end of one queue; its number is new.
LEMMA WriteStep ==
  ASSUME QueueInv, QueueTypeOK', NEW t \in Threads, NEW h \in Handles, DosWriteQueue(t, h)
  PROVE  QueueInv'
<1> USE DEF QueueInv
<1> DEFINE E == 1 .. MaxWrites
           e == written + 1
<1>1. /\ items \in [Handles -> Seq(E)] /\ left \in [Handles -> Seq(E)] /\ wrote \in [Handles -> Seq(E)]
      /\ written \in Nat /\ e \in E /\ e > written /\ delivered \in Seq(E) /\ dropped \subseteq E
  <2>1. written \in Nat /\ e \in E /\ e > written
    BY QueueAssumption DEF DosWriteQueue, QueueTypeOK
  <2>2. QED
    BY <2>1 DEF QueueTypeOK
<1>2. /\ items' = [items EXCEPT ![h] = Append(items[h], e)] /\ wrote' = [wrote EXCEPT ![h] = Append(wrote[h], e)]
      /\ written' = e /\ left' = left /\ delivered' = delivered /\ dropped' = dropped /\ entry' = entry
  BY DEF DosWriteQueue
<1>3. \A u \in Threads : pc'[u] = "taken" => pc[u] = "taken"
  BY DEF DosWriteQueue, NotifyOne, QueueTypeOK
<1>4. Spent' = Spent
  BY <1>2 DEF Spent
<1> HIDE DEF e
<1>5. /\ \A x \in Spent : x \in Nat /\ x <= written
      /\ \A g \in Handles : \A x \in ToSet(items[g]) : x \in Nat /\ x <= written
  <2>1. Spent \subseteq Nat /\ \A g \in Handles : ToSet(items[g]) \subseteq Nat
    <3>1. ToSet(delivered) \subseteq E
      BY <1>1, SeqSet
    <3>2. \A g \in Handles : ToSet(items[g]) \subseteq E
      <4>1. \A g \in Handles : items[g] \in Seq(E)
        BY <1>1
      <4> HIDE DEF E
      <4>2. QED
        BY <4>1, SeqSet
    <3>3. E \subseteq Nat /\ dropped \subseteq E
      BY <1>1
    <3> HIDE DEF E
    <3>4. QED
      BY <3>1, <3>2, <3>3 DEF Spent
  <2>2. QED
    BY <2>1 DEF Numbered
<1>6. e \notin Spent /\ \A g \in Handles : e \notin ToSet(items[g])
  BY <1>1, <1>5
<1>7. /\ ToSet(items'[h]) = ToSet(items[h]) \cup {e} /\ IsInjective(items'[h])
      /\ \A g \in Handles : g # h => items'[g] = items[g]
  <2>1. items'[h] = Append(items[h], e) /\ items[h] \in Seq(E) /\ IsInjective(items[h])
    BY <1>1, <1>2 DEF OnePlace
  <2>2. ToSet(items'[h]) = ToSet(items[h]) \cup {e} /\ IsInjective(items'[h])
    <3>1. e \in E /\ e \notin ToSet(items[h])
      BY <1>1, <1>6
    <3> HIDE DEF E
    <3>2. QED
      BY <2>1, <3>1, AppendSet
  <2>3. QED
    BY <1>1, <1>2, <2>2
<1>8. \A u \in Threads : pc[u] = "taken" => entry[u] \in Nat /\ entry[u] <= written /\ entry[u] # e /\ entry[u] >= 1
  BY <1>1 DEF Numbered
<1>9. LeavesInOrder'
  <2>1. ASSUME NEW g \in Handles PROVE wrote'[g] = left'[g] \o items'[g]
    <3>1. wrote[g] = left[g] \o items[g]
      BY DEF LeavesInOrder
    <3>2. CASE g # h
      BY <1>1, <1>2, <3>1, <3>2
    <3>3. CASE g = h
      <4>1. wrote'[h] = Append(left[h] \o items[h], e) /\ items'[h] = Append(items[h], e)
        BY <1>1, <1>2, <3>1, <3>3
      <4>2. left[h] \o Append(items[h], e) = Append(left[h] \o items[h], e)
        BY <1>1, ConcatPush
      <4>3. QED
        BY <1>2, <3>3, <4>1, <4>2
    <3>4. QED
      BY <3>2, <3>3
  <2>2. QED
    BY <2>1 DEF LeavesInOrder
<1>10. Numbered'
  <2>1. \A x \in Spent' : x <= written'
    BY <1>1, <1>2, <1>4, <1>5 DEF e
  <2>2. \A g \in Handles : \A x \in ToSet(items'[g]) : x <= written'
    <3>1. ASSUME NEW g \in Handles, NEW x \in ToSet(items'[g]) PROVE x \in ToSet(items[g]) \/ x = e
      BY <1>7
    <3>2. e <= e /\ \A x \in Nat : x <= written => x <= e
      BY <1>1 DEF e
    <3>3. QED
      BY <1>2, <1>5, <3>1, <3>2
  <2>3. \A u \in Threads : pc'[u] = "taken" => entry'[u] \in 1 .. written'
    BY <1>1, <1>2, <1>3, <1>8 DEF e
  <2>4. QED
    BY <2>1, <2>2, <2>3 DEF Numbered
<1>11. OnePlace'
  <2>1. ASSUME NEW g \in Handles PROVE IsInjective(items'[g]) /\ ToSet(items'[g]) \cap Spent = {}
    BY <1>6, <1>7 DEF OnePlace
  <2>2. ASSUME NEW g \in Handles, NEW f \in Handles, g # f
        PROVE  ToSet(items'[g]) \cap ToSet(items'[f]) = {}
    BY <1>6, <1>7, <2>2 DEF OnePlace
  <2>3. QED
    BY <1>4, <2>1, <2>2 DEF OnePlace
<1>12. DeliveredOnce'
  <2>1. ASSUME NEW u \in Threads, pc[u] = "taken", NEW g \in Handles PROVE entry[u] \notin ToSet(items'[g])
    BY <1>7, <1>8, <2>1 DEF DeliveredOnce
  <2>2. QED
    BY <1>2, <1>3, <2>1 DEF DeliveredOnce
<1>13. QED
  BY <1>9, <1>10, <1>11, <1>12

\* A queue is emptied.
LEMMA PurgeStep ==
  ASSUME QueueInv, QueueTypeOK', NEW t \in Threads, NEW h \in Handles, DosPurgeQueue(t, h)
  PROVE  QueueInv'
<1> USE DEF QueueInv
<1> DEFINE E == 1 .. MaxWrites
<1>1. items \in [Handles -> Seq(E)] /\ left \in [Handles -> Seq(E)]
  BY DEF QueueTypeOK
<1>2. /\ items' = [items EXCEPT ![h] = << >>] /\ left' = [left EXCEPT ![h] = left[h] \o items[h]]
      /\ wrote' = wrote /\ written' = written /\ delivered' = delivered /\ dropped' = dropped
      /\ entry' = entry /\ pc' = pc
  BY DEF DosPurgeQueue, callVars
<1>3. Spent' = Spent
  BY <1>2 DEF Spent
<1>4. ToSet(<< >>) = {} /\ IsInjective(<< >>)
  BY DEF ToSet, IsInjective
<1>5. items'[h] = << >> /\ \A g \in Handles : g # h => items'[g] = items[g]
  BY <1>1, <1>2
<1>6. \A g \in Handles : ToSet(items'[g]) \subseteq ToSet(items[g]) /\ IsInjective(items'[g])
  BY <1>4, <1>5 DEF OnePlace
<1>7. LeavesInOrder'
  <2>1. ASSUME NEW g \in Handles PROVE wrote'[g] = left'[g] \o items'[g]
    <3>1. wrote[g] = left[g] \o items[g] /\ left[g] \o items[g] \in Seq(E)
      BY <1>1, ConcatProperties DEF LeavesInOrder
    <3>2. CASE g # h
      BY <1>1, <1>2, <3>1, <3>2
    <3>3. CASE g = h
      BY <1>1, <1>2, <1>5, <3>1, <3>3, ConcatEmptySeq
    <3>4. QED
      BY <3>2, <3>3
  <2>2. QED
    BY <2>1 DEF LeavesInOrder
<1>8. Numbered'
  BY <1>2, <1>3, <1>6 DEF Numbered
<1>9. OnePlace'
  BY <1>3, <1>6 DEF OnePlace
<1>10. DeliveredOnce'
  BY <1>2, <1>6 DEF DeliveredOnce
<1>11. QED
  BY <1>7, <1>8, <1>9, <1>10

\* A reader takes the first element: nobody else has it, and it is in no queue.
LEMMA PopStep ==
  ASSUME QueueInv, QueueTypeOK', NEW t \in Threads, ReadPops(t)
  PROVE  QueueInv'
<1> USE DEF QueueInv
<1> DEFINE E == 1 .. MaxWrites
           h == arg[t]
           e == Head(items[h])
<1>1. /\ items \in [Handles -> Seq(E)] /\ left \in [Handles -> Seq(E)] /\ h \in Handles
      /\ items[h] # << >> /\ entry \in [Threads -> 0 .. MaxWrites] /\ written \in Nat
      /\ pc \in [Threads -> {"run", "stopped", "top", "pop", "gap", "sleep", "taken"}]
  BY QueueAssumption DEF QueueTypeOK, ReadPops
<1>2. /\ items' = [items EXCEPT ![h] = Tail(items[h])] /\ left' = [left EXCEPT ![h] = Append(left[h], e)]
      /\ wrote' = wrote /\ written' = written /\ delivered' = delivered /\ dropped' = dropped
      /\ entry' = [entry EXCEPT ![t] = e] /\ pc' = [pc EXCEPT ![t] = "taken"]
  BY DEF ReadPops
<1>3. Spent' = Spent
  BY <1>2 DEF Spent
<1>4. /\ e \in E /\ e \in ToSet(items[h]) /\ ToSet(Tail(items[h])) \subseteq ToSet(items[h])
      /\ IsInjective(Tail(items[h])) /\ e \notin ToSet(Tail(items[h]))
  <2>1. IsInjective(items[h]) /\ items[h] \in Seq(E)
    BY <1>1 DEF OnePlace
  <2>2. QED
    BY <1>1, <2>1, PopSet
<1>5. items'[h] = Tail(items[h]) /\ \A g \in Handles : g # h => items'[g] = items[g]
  BY <1>1, <1>2
<1>6. LeavesInOrder'
  <2>1. ASSUME NEW g \in Handles PROVE wrote'[g] = left'[g] \o items'[g]
    <3>1. wrote[g] = left[g] \o items[g]
      BY <1>1 DEF LeavesInOrder
    <3>2. CASE g # h
      BY <1>1, <1>2, <3>1, <3>2
    <3>3. CASE g = h
      <4>1. left'[h] = Append(left[h], e) /\ items'[h] = Tail(items[h])
        BY <1>1, <1>2
      <4>2. Append(left[h], e) \o Tail(items[h]) = left[h] \o items[h]
        <5>1. left[h] \in Seq(E) /\ items[h] \in Seq(E) /\ items[h] # << >>
          BY <1>1
        <5> HIDE DEF E
        <5>2. QED
          BY <5>1, ConcatPop
      <4>3. QED
        BY <1>2, <3>1, <3>3, <4>1, <4>2
    <3>4. QED
      BY <3>2, <3>3
  <2>2. QED
    BY <2>1 DEF LeavesInOrder
<1>7. entry'[t] = e /\ \A u \in Threads \ {t} : entry'[u] = entry[u] /\ pc'[u] = pc[u]
  BY <1>1, <1>2
<1>8. e \notin Spent /\ \A g \in Handles : e \notin ToSet(items'[g])
  BY <1>1, <1>4, <1>5 DEF OnePlace
<1>9. \A u \in Threads \ {t} : pc[u] = "taken" => entry[u] # e
  BY <1>1, <1>4 DEF DeliveredOnce
<1>10. e \in 1 .. written
  BY <1>1, <1>4 DEF Numbered
<1> HIDE DEF e, h
<1>11. \A g \in Handles : ToSet(items'[g]) \subseteq ToSet(items[g]) /\ IsInjective(items'[g])
  BY <1>4, <1>5 DEF OnePlace
<1>12. Numbered'
  <2>1. \A u \in Threads : pc'[u] = "taken" => entry'[u] \in 1 .. written'
    BY <1>2, <1>7, <1>10 DEF Numbered
  <2>2. QED
    BY <1>2, <1>3, <1>11, <2>1 DEF Numbered
<1>13. OnePlace'
  BY <1>3, <1>11 DEF OnePlace
<1>14. DeliveredOnce'
  <2>1. ASSUME NEW u \in Threads, pc'[u] = "taken"
        PROVE  /\ entry'[u] \notin Spent'
               /\ \A v \in Threads \ {u} : pc'[v] = "taken" => entry'[v] # entry'[u]
               /\ \A g \in Handles : entry'[u] \notin ToSet(items'[g])
    <3>1. CASE u = t
      BY <1>3, <1>7, <1>8, <1>9, <3>1
    <3>2. CASE u # t
      <4>1. entry'[u] = entry[u] /\ pc[u] = "taken" /\ entry[u] # e
        BY <1>7, <1>9, <2>1, <3>2
      <4>2. entry[u] \notin Spent /\ \A g \in Handles : entry[u] \notin ToSet(items'[g])
        BY <1>11, <4>1 DEF DeliveredOnce, Spent
      <4>3. \A v \in Threads \ {u} : pc'[v] = "taken" => entry'[v] # entry[u]
        BY <1>7, <4>1 DEF DeliveredOnce
      <4>4. QED
        BY <1>3, <4>1, <4>2, <4>3
    <3>3. QED
      BY <3>1, <3>2
  <2>2. QED
    BY <1>2, <2>1 DEF DeliveredOnce, Spent
<1>15. QED
  BY <1>6, <1>12, <1>13, <1>14

\* The element a reader holds is handed over or, without memory for it, is gone.
LEMMA HandOver ==
  ASSUME QueueInv, QueueTypeOK', NEW t \in Threads, pc[t] = "taken", Return(t),
         Spent' = Spent \cup {entry[t]}, IsInjective(delivered')
  PROVE  QueueInv'
<1> USE DEF QueueInv
<1>1. /\ items' = items /\ left' = left /\ wrote' = wrote /\ written' = written
      /\ pc' = [pc EXCEPT ![t] = "run"] /\ entry' = [entry EXCEPT ![t] = 0]
      /\ pc \in [Threads -> {"run", "stopped", "top", "pop", "gap", "sleep", "taken"}]
      /\ entry \in [Threads -> 0 .. MaxWrites] /\ written \in Nat
  BY QueueAssumption DEF Return, QueueTypeOK
<1>2. \A u \in Threads : pc'[u] = "taken" => u # t /\ pc[u] = "taken" /\ entry'[u] = entry[u]
  BY <1>1
<1>3. LeavesInOrder'
  BY <1>1 DEF LeavesInOrder
<1>4. Numbered'
  <2>1. entry[t] \in 1 .. written
    BY DEF Numbered
  <2>2. entry[t] <= written
    BY <1>1, <2>1
  <2>3. \A x \in Spent' : x <= written
    BY <2>2 DEF Numbered
  <2>4. QED
    BY <1>1, <1>2, <2>3 DEF Numbered
<1>5. OnePlace'
  BY <1>1 DEF OnePlace, DeliveredOnce
<1>6. DeliveredOnce'
  <2>1. ASSUME NEW u \in Threads, pc'[u] = "taken"
        PROVE  /\ entry'[u] \notin Spent'
               /\ \A v \in Threads \ {u} : pc'[v] = "taken" => entry'[v] # entry'[u]
               /\ \A g \in Handles : entry'[u] \notin ToSet(items'[g])
    <3>1. u # t /\ pc[u] = "taken" /\ entry'[u] = entry[u]
      BY <1>2, <2>1
    <3>2. entry[u] \notin Spent /\ entry[u] # entry[t] /\ \A g \in Handles : entry[u] \notin ToSet(items[g])
      BY <3>1 DEF DeliveredOnce, Spent
    <3>3. \A v \in Threads \ {u} : pc'[v] = "taken" => entry'[v] # entry[u]
      BY <1>2, <3>1 DEF DeliveredOnce
    <3>4. QED
      BY <1>1, <3>1, <3>2, <3>3
  <2>2. QED
    BY <2>1 DEF DeliveredOnce, Spent
<1>7. QED
  BY <1>3, <1>4, <1>5, <1>6

\* Every step keeps the invariant.
LEMMA QueueStep == QueueInv /\ [QueueNext]_queueVars => QueueInv'
<1> SUFFICES ASSUME QueueInv, [QueueNext]_queueVars PROVE QueueInv'
  OBVIOUS
<1>0. QueueTypeOK' /\ pc \in [Threads -> {"run", "stopped", "top", "pop", "gap", "sleep", "taken"}]
  BY QueueTypes DEF QueueInv, QueueTypeOK
<1>1. CASE UNCHANGED queueVars
  BY <1>0, <1>1, QuietStep DEF queueVars, mgrVars, callVars, histVars
<1>2. CASE RequestExit
  BY <1>0, <1>2, QuietStep DEF RequestExit, callVars, histVars
<1>3. ASSUME NEW t \in Threads, NEW to \in {"stopped", "top", "pop", "gap", "sleep"}, Goto(t, to)
      PROVE  QueueInv'
  <2>1. pc' = [pc EXCEPT ![t] = to] /\ UNCHANGED <<items, entry, written, wrote, left, delivered, dropped>>
    BY <1>3 DEF Goto, histVars
  <2>2. \A u \in Threads : pc'[u] = "taken" => pc[u] = "taken" /\ entry'[u] = entry[u]
    BY <1>0, <2>1
  <2>3. QED
    BY <1>0, <2>1, <2>2, QuietStep
<1>4. ASSUME NEW t \in Threads, Return(t), UNCHANGED <<delivered, dropped>> PROVE QueueInv'
  <2>1. /\ pc' = [pc EXCEPT ![t] = "run"] /\ entry' = [entry EXCEPT ![t] = 0]
        /\ UNCHANGED <<items, written, wrote, left, delivered, dropped>>
    BY <1>4 DEF Return
  <2>2. \A u \in Threads : pc'[u] = "taken" => pc[u] = "taken" /\ entry'[u] = entry[u]
    BY <1>0, <2>1 DEF QueueInv, QueueTypeOK
  <2>3. QED
    BY <1>0, <2>1, <2>2, QuietStep
<1>5. ASSUME NEW t \in Threads, ReadStep(t) PROVE QueueInv'
  <2>1. CASE ReadChecksExit(t)
    BY <1>3, <1>4, <2>1 DEF ReadChecksExit
  <2>2. CASE ReadFindsNothing(t)
    BY <1>3, <1>4, <2>2 DEF ReadFindsNothing
  <2>3. CASE ReadSleeps(t) \/ ReadSliceEnds(t)
    BY <1>3, <2>3 DEF ReadSleeps, ReadSliceEnds
  <2>4. CASE ReadPops(t)
    BY <1>0, <2>4, PopStep
  <2>5. CASE ReadDelivers(t)
    <3>1. pc[t] = "taken" /\ Return(t) /\ delivered' = Append(delivered, entry[t]) /\ dropped' = dropped
      BY <2>5 DEF ReadDelivers
    <3>2. /\ delivered \in Seq(1 .. MaxWrites) /\ IsInjective(delivered)
          /\ entry[t] \in 1 .. MaxWrites /\ entry[t] \notin ToSet(delivered)
      BY <3>1, QueueAssumption DEF QueueInv, QueueTypeOK, Numbered, DeliveredOnce
    <3>3. ToSet(delivered') = ToSet(delivered) \cup {entry[t]} /\ IsInjective(delivered')
      <4> DEFINE E == 1 .. MaxWrites
      <4>1. delivered \in Seq(E) /\ entry[t] \in E
        BY <3>2
      <4> HIDE DEF E
      <4>2. QED
        BY <3>1, <3>2, <4>1, AppendSet
    <3>4. Spent' = Spent \cup {entry[t]}
      BY <3>1, <3>3 DEF Spent
    <3>5. QED
      BY <1>0, <3>1, <3>3, <3>4, HandOver
  <2>6. CASE ReadOutOfMemory(t)
    <3>1. /\ pc[t] = "taken" /\ Return(t) /\ delivered' = delivered
          /\ dropped' = dropped \cup {entry[t]}
      BY <2>6 DEF ReadOutOfMemory
    <3>2. Spent' = Spent \cup {entry[t]} /\ IsInjective(delivered')
      BY <3>1 DEF Spent, QueueInv, DeliveredOnce
    <3>3. QED
      BY <1>0, <3>1, <3>2, HandOver
  <2>7. QED
    BY <1>5, <2>1, <2>2, <2>3, <2>4, <2>5, <2>6 DEF ReadStep
<1>6. ASSUME NEW t \in Threads, DosCreateQueue(t) PROVE QueueInv'
  BY <1>0, <1>6, QuietStep DEF DosCreateQueue, callVars, histVars
<1>7. ASSUME NEW t \in Threads, NEW h \in Handles, DosCloseQueue(t, h) PROVE QueueInv'
  BY <1>0, <1>7, QuietStep DEF DosCloseQueue, callVars, histVars
<1>8. ASSUME NEW t \in Threads, NEW h \in Handles, NEW wait \in BOOLEAN, DosReadQueue(t, h, wait)
      PROVE  QueueInv'
  <2>1. /\ pc' = [pc EXCEPT ![t] = "top"]
        /\ UNCHANGED <<items, entry, written, wrote, left, delivered, dropped>>
    BY <1>8 DEF DosReadQueue, histVars
  <2>2. \A u \in Threads : pc'[u] = "taken" => pc[u] = "taken" /\ entry'[u] = entry[u]
    BY <1>0, <2>1
  <2>3. QED
    BY <1>0, <2>1, <2>2, QuietStep
<1>9. ASSUME NEW t \in Threads, ThreadStops(t) PROVE QueueInv'
  BY <1>3, <1>9 DEF ThreadStops
<1>10. QED
  BY <1>0, <1>1, <1>2, <1>5, <1>6, <1>7, <1>8, <1>9, WriteStep, PurgeStep DEF QueueNext, QueueCall

\* What is written to a queue leaves it in the order it was written, and each
\* element reaches at most one reader, once.
THEOREM QueueOrder == QueueSpec => []EachOnceInOrder
<1>1. QueueInv => EachOnceInOrder
  BY DEF QueueInv, EachOnceInOrder
<1>2. QED
  BY <1>1, QueueInitInv, QueueStep, PTL DEF QueueSpec

=============================================================================
