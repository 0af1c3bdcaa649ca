---------------------------- MODULE Memory_proofs ----------------------------
(***************************************************************************)
(* The private heap of lib32/malloc.c and the pages of lib32/memory.c, for *)
(* every size of the memory and every set of requests.                     *)
(*                                                                         *)
(* The heap: its blocks are disjoint and tile it, a block that a caller    *)
(* holds keeps its size, and the heap implements an allocator.  The        *)
(* inductive invariant is TypeOK, BlocksDisjoint, Tiled and the fact that  *)
(* compact's cursor is never at the head of the list.  Each action is      *)
(* first reduced to what it does to the set of blocks (the lemmas named    *)
(* ...Effect); the geometry is then argued about sets and header sizes,    *)
(* without the free list.                                                  *)
(*                                                                         *)
(* The pages: every block lies in a region of its own, a DMA block in its  *)
(* frame, the list of base addresses tells the truth and no region is      *)
(* lost.  The inductive invariant is Good, a predicate of a memory and of  *)
(* the blocks held in it, because the routines pass through memories that  *)
(* no state shows.  An allocation adds a region and a block (Grow), a free *)
(* takes them away (Shrink), ksize changes neither (SameGood).             *)
(*                                                                         *)
(* The counts, at the end: the sum of the blocks of the heap and of the    *)
(* entries of the list is a number of units (module Sums), so that adding  *)
(* and removing one is a fact about the union of two finite sets.          *)
(***************************************************************************)
EXTENDS HeapClients, PageMemory, FiniteSetTheorems, WellFoundedInduction, TLAPS

\* compact's cursor starts at the second block and never moves back.
CursorOK == pmb # 1

\* The inductive invariant.
IInv == TypeOK /\ BlocksDisjoint /\ Tiled /\ CursorOK

-----------------------------------------------------------------------------
\* h_remove unlinks one element and keeps the order of the others.
LEMMA RemoveList ==
    ASSUME NEW S, NEW s \in Seq(S), NEW i \in 1 .. Len(s)
    PROVE  /\ h_remove(s, i) \in Seq(S)
           /\ Len(h_remove(s, i)) = Len(s) - 1
           /\ \A j \in 1 .. (Len(s) - 1) :
                 h_remove(s, i)[j] = IF j < i THEN s[j] ELSE s[j + 1]
BY DEF h_remove

\* The elements of a list without repetition after h_remove.
LEMMA RemoveMembers ==
    ASSUME NEW S, NEW s \in Seq(S), NEW i \in 1 .. Len(s), NoRepeats(s)
    PROVE  /\ NoRepeats(h_remove(s, i))
           /\ Members(h_remove(s, i)) = Members(s) \ {s[i]}
<1> DEFINE t == h_remove(s, i)
<1>1. /\ Len(s) \in Nat /\ Len(t) = Len(s) - 1
      /\ \A j \in 1 .. (Len(s) - 1) : t[j] = IF j < i THEN s[j] ELSE s[j + 1]
  BY RemoveList
<1> HIDE DEF t
<1>2. \A j, k \in 1 .. Len(s) : s[j] = s[k] => j = k
  BY DEF NoRepeats
<1>3. ASSUME NEW j \in 1 .. Len(t), NEW k \in 1 .. Len(t), t[j] = t[k]
      PROVE  j = k
  BY <1>1, <1>2, <1>3
<1>4. ASSUME NEW k \in 1 .. Len(s), s[k] # s[i]
      PROVE  \E j \in 1 .. Len(t) : t[j] = s[k]
  <2>1. CASE k < i
    BY <1>1, <2>1
  <2>2. CASE k > i
    <3>1. k - 1 \in 1 .. Len(t) /\ t[k - 1] = s[k]
      BY <1>1, <2>2
    <3> QED BY <3>1
  <2> QED BY <1>1, <1>4, <2>1, <2>2
<1>5. ASSUME NEW j \in 1 .. Len(t)
      PROVE  \E k \in 1 .. Len(s) : s[k] # s[i] /\ t[j] = s[k]
  <2>1. CASE j < i
    BY <1>1, <1>2, <2>1
  <2>2. CASE j >= i
    <3>1. j + 1 \in 1 .. Len(s) /\ s[j + 1] # s[i] /\ t[j] = s[j + 1]
      BY <1>1, <1>2, <2>2
    <3> QED BY <3>1
  <2> QED BY <1>1, <2>1, <2>2
<1>6. NoRepeats(t)
  BY <1>3 DEF NoRepeats
<1>7. Members(t) = Members(s) \ {s[i]}
  <2>1. ASSUME NEW x \in Members(t) PROVE x \in Members(s) \ {s[i]}
    BY <1>5 DEF Members
  <2>2. ASSUME NEW x \in Members(s) \ {s[i]} PROVE x \in Members(t)
    <3>1. PICK k \in 1 .. Len(s) : x = s[k]
      BY DEF Members
    <3>2. PICK j \in 1 .. Len(t) : t[j] = x
      BY <1>4, <3>1
    <3> QED BY <3>2 DEF Members
  <2> QED BY <2>1, <2>2
<1> QED BY <1>6, <1>7 DEF t

\* PushFront links one element in front of the list.
LEMMA PushMembers ==
    ASSUME NEW S, NEW s \in Seq(S), NEW b \in S, NoRepeats(s), b \notin Members(s)
    PROVE  /\ PushFront(b, s) \in Seq(S)
           /\ NoRepeats(PushFront(b, s))
           /\ Members(PushFront(b, s)) = Members(s) \cup {b}
<1> DEFINE t == PushFront(b, s)
<1>1. /\ t \in Seq(S) /\ Len(s) \in Nat /\ Len(t) = Len(s) + 1
      /\ \A j \in 1 .. (Len(s) + 1) : t[j] = IF j = 1 THEN b ELSE s[j - 1]
  BY DEF PushFront
<1> HIDE DEF t
<1>2. /\ \A j, k \in 1 .. Len(s) : s[j] = s[k] => j = k
      /\ \A j \in 1 .. Len(s) : s[j] # b
  BY DEF NoRepeats, Members
<1>3. NoRepeats(t)
  <2>1. ASSUME NEW j \in 1 .. Len(t), NEW k \in 1 .. Len(t), t[j] = t[k]
        PROVE  j = k
    <3>1. CASE j = 1 \/ k = 1
      BY <1>1, <1>2, <2>1, <3>1
    <3>2. CASE j # 1 /\ k # 1
      <4>1. /\ j - 1 \in 1 .. Len(s) /\ k - 1 \in 1 .. Len(s)
            /\ s[j - 1] = s[k - 1]
        BY <1>1, <2>1, <3>2
      <4>2. j - 1 = k - 1
        BY <1>2, <4>1
      <4> QED BY <1>1, <4>2
    <3> QED BY <3>1, <3>2
  <2> QED BY <2>1 DEF NoRepeats
<1>4. ASSUME NEW k \in 1 .. Len(s)
      PROVE  \E j \in 1 .. Len(t) : t[j] = s[k]
  <2>1. k + 1 \in 1 .. Len(t) /\ t[k + 1] = s[k]
    BY <1>1
  <2> QED BY <2>1
<1>5. 1 \in 1 .. Len(t) /\ t[1] = b
  BY <1>1
<1>6. ASSUME NEW j \in 1 .. Len(t)
      PROVE  t[j] = b \/ \E k \in 1 .. Len(s) : t[j] = s[k]
  BY <1>1
<1>7. Members(t) = Members(s) \cup {b}
  <2>1. ASSUME NEW x \in Members(t) PROVE x \in Members(s) \cup {b}
    BY <1>6 DEF Members
  <2>2. ASSUME NEW x \in Members(s) PROVE x \in Members(t)
    <3>1. PICK k \in 1 .. Len(s) : x = s[k]
      BY DEF Members
    <3>2. PICK j \in 1 .. Len(t) : t[j] = x
      BY <1>4, <3>1
    <3> QED BY <3>2 DEF Members
  <2>3. b \in Members(t)
    BY <1>5 DEF Members
  <2> QED BY <2>1, <2>2, <2>3
<1> QED BY <1>1, <1>3, <1>7 DEF t

\* Replacing one element of a list by a new one.
LEMMA ReplaceMembers ==
    ASSUME NEW S, NEW s \in Seq(S), NEW i \in 1 .. Len(s), NEW b \in S,
           NoRepeats(s), b \notin Members(s)
    PROVE  /\ Replace(s, i, b) \in Seq(S)
           /\ NoRepeats(Replace(s, i, b))
           /\ Members(Replace(s, i, b)) = (Members(s) \ {s[i]}) \cup {b}
<1> DEFINE t == Replace(s, i, b)
<1>1. /\ t \in Seq(S) /\ Len(t) = Len(s)
      /\ \A j \in 1 .. Len(s) : t[j] = IF j = i THEN b ELSE s[j]
  BY DEF Replace
<1> HIDE DEF t
<1>2. /\ \A j, k \in 1 .. Len(s) : s[j] = s[k] => j = k
      /\ \A j \in 1 .. Len(s) : s[j] # b
  BY DEF NoRepeats, Members
<1>3. NoRepeats(t)
  BY <1>1, <1>2 DEF NoRepeats
<1>4. Members(t) = (Members(s) \ {s[i]}) \cup {b}
  BY <1>1, <1>2 DEF Members
<1> QED BY <1>1, <1>3, <1>4 DEF t

\* The size of an aligned request.
LEMMA AlignedRequest ==
    ASSUME NEW n \in Nat, n > 0
    PROVE  DwordAlign(n) \in Nat /\ DwordAlign(n) > 0 /\ DwordAlign(n) % 4 = 0
BY DEF DwordAlign

-----------------------------------------------------------------------------
(***************************************************************************)
(* What each action does to the lists, as sets.                            *)
(***************************************************************************)
\* The elements of the free list are addresses, and they are blocks.
LEMMA FreeIsBlock ==
    ASSUME TypeOK, NEW i \in 1 .. Len(pmbFree)
    PROVE  pmbFree[i] \in Addr /\ pmbFree[i] \in FreeBlocks /\ pmbFree[i] \in Blocks
BY DEF TypeOK, FreeBlocks, Members, Blocks

\* A block is an address, and an address is a natural number.
LEMMA BlockIsAddr ==
    ASSUME TypeOK
    PROVE  Blocks \subseteq Addr /\ Addr \subseteq Nat
<1>1. FreeBlocks \subseteq Addr
  BY DEF TypeOK, FreeBlocks, Members
<1>2. Addr \subseteq Nat
  BY HeapConstants DEF Addr
<1> QED BY <1>1, <1>2 DEF TypeOK, Blocks

\* Behind a block that can be split there is room for a header, and no block
\* starts there.
LEMMA SplitPoint ==
    ASSUME IInv, NEW b \in Blocks, NEW r \in Nat, r % 4 = 0, r > 0,
           ulSize[b] >= r + MIN_Leftover
    PROVE  /\ b + HDR_SIZE + r \in Addr \ Blocks
           /\ b + HDR_SIZE + r < after(b)
           /\ b < b + HDR_SIZE + r
<1> DEFINE new == b + HDR_SIZE + r
<1>1. b \in Nat /\ b % 4 = 0 /\ ulSize[b] \in Nat
  BY BlockIsAddr DEF IInv, TypeOK, Addr
<1>2. after(b) <= HEAP_SIZE
  BY DEF IInv, BlocksDisjoint, InHeap
<1>3. new < after(b) /\ b < new
  BY <1>1, HeapConstants DEF after, MIN_Leftover
<1>4. new \in Addr
  BY <1>1, <1>2, <1>3, HeapConstants DEF after, Addr
<1>5. ASSUME new \in Blocks PROVE FALSE
  <2>1. after(b) <= new
    BY <1>3, <1>5 DEF IInv, BlocksDisjoint, Apart
  <2> QED BY <2>1, <1>1, <1>3, HeapConstants DEF after
<1> QED BY <1>3, <1>4, <1>5

\* Splitting adds one block, which takes the place of the allocated one.
LEMMA SplitEffect ==
    ASSUME IInv, NEW i \in 1 .. Len(pmbFree), NEW r \in Nat, r % 4 = 0, r > 0,
           SplitBlock(i, r)
    PROVE  LET b == pmbFree[i]
               new == b + HDR_SIZE + r
           IN  /\ b \in FreeBlocks /\ new \in Addr \ Blocks
               /\ pmbFree' \in Seq(Addr)
               /\ pmbUsed' = pmbUsed \cup {b}
               /\ Blocks' = Blocks \cup {new}
               /\ ListsDisjoint'
<1> DEFINE b == pmbFree[i]
           new == b + HDR_SIZE + r
<1>1. b \in FreeBlocks /\ b \in Blocks /\ b \in Addr
  BY FreeIsBlock DEF IInv
<1>2. new \in Addr \ Blocks
  BY <1>1, SplitPoint DEF SplitBlock
<1>3. pmbFree \in Seq(Addr) /\ NoRepeats(pmbFree) /\ FreeBlocks \cap pmbUsed = {}
  BY DEF IInv, TypeOK, BlocksDisjoint, ListsDisjoint
<1>4. /\ pmbFree' = Replace(pmbFree, i, new)
      /\ pmbUsed' = pmbUsed \cup {b}
  BY DEF SplitBlock
<1> HIDE DEF new
<1>5. /\ pmbFree' \in Seq(Addr)
      /\ NoRepeats(pmbFree')
      /\ FreeBlocks' = (FreeBlocks \ {b}) \cup {new}
  <2>1. new \in Addr /\ new \notin Members(pmbFree)
    BY <1>2 DEF FreeBlocks, Blocks
  <2> QED BY <1>3, <1>4, <2>1, ReplaceMembers DEF FreeBlocks
<1>6. Blocks' = Blocks \cup {new}
  BY <1>1, <1>4, <1>5 DEF Blocks
<1>7. ListsDisjoint'
  BY <1>1, <1>2, <1>3, <1>4, <1>5 DEF ListsDisjoint, Blocks
<1> QED BY <1>1, <1>2, <1>4, <1>5, <1>6, <1>7 DEF new

\* Allocating a whole block moves it from one list to the other.
LEMMA WholeEffect ==
    ASSUME IInv, NEW i \in 1 .. Len(pmbFree), NEW r, WholeBlock(i, r)
    PROVE  /\ pmbFree' \in Seq(Addr)
           /\ pmbUsed' = pmbUsed \cup {pmbFree[i]}
           /\ Blocks' = Blocks
           /\ ListsDisjoint'
<1>1. pmbFree \in Seq(Addr) /\ NoRepeats(pmbFree) /\ FreeBlocks \cap pmbUsed = {}
  BY DEF IInv, TypeOK, BlocksDisjoint, ListsDisjoint
<1>2. /\ pmbFree' = h_remove(pmbFree, i)
      /\ pmbUsed' = pmbUsed \cup {pmbFree[i]}
  BY DEF WholeBlock
<1>3. NoRepeats(pmbFree') /\ FreeBlocks' = FreeBlocks \ {pmbFree[i]}
  BY <1>1, <1>2, RemoveMembers DEF FreeBlocks
<1>4. pmbFree' \in Seq(Addr)
  BY <1>1, <1>2, RemoveList
<1>5. pmbFree[i] \in FreeBlocks
  BY FreeIsBlock DEF IInv
<1> QED BY <1>1, <1>2, <1>3, <1>4, <1>5 DEF ListsDisjoint, Blocks

\* free moves the block back.
LEMMA FreeEffect ==
    ASSUME IInv, NEW b \in pmbUsed, free(b)
    PROVE  /\ pmbFree' \in Seq(Addr)
           /\ pmbUsed' = pmbUsed \ {b}
           /\ Blocks' = Blocks
           /\ ListsDisjoint'
<1>1. /\ pmbFree \in Seq(Addr) /\ NoRepeats(pmbFree) /\ FreeBlocks \cap pmbUsed = {}
      /\ b \in Addr
  BY DEF IInv, TypeOK, BlocksDisjoint, ListsDisjoint
<1>2. pmbFree' = PushFront(b, pmbFree) /\ pmbUsed' = pmbUsed \ {b}
  BY DEF free
<1>3. b \notin Members(pmbFree)
  BY <1>1 DEF FreeBlocks
<1>4. /\ pmbFree' \in Seq(Addr) /\ NoRepeats(pmbFree')
      /\ FreeBlocks' = FreeBlocks \cup {b}
  BY <1>1, <1>2, <1>3, PushMembers DEF FreeBlocks
<1> QED BY <1>1, <1>2, <1>4 DEF ListsDisjoint, Blocks

\* A step that unlinks one free block and leaves the used ones alone.
LEMMA UnlinkEffect ==
    ASSUME IInv, NEW i \in 1 .. Len(pmbFree),
           pmbFree' = h_remove(pmbFree, i), pmbUsed' = pmbUsed
    PROVE  /\ pmbFree' \in Seq(Addr)
           /\ Blocks' = Blocks \ {pmbFree[i]}
           /\ ListsDisjoint'
<1>1. pmbFree \in Seq(Addr) /\ NoRepeats(pmbFree) /\ FreeBlocks \cap pmbUsed = {}
  BY DEF IInv, TypeOK, BlocksDisjoint, ListsDisjoint
<1>2. NoRepeats(pmbFree') /\ FreeBlocks' = FreeBlocks \ {pmbFree[i]}
  BY <1>1, RemoveMembers DEF FreeBlocks
<1>3. pmbFree' \in Seq(Addr)
  BY <1>1, RemoveList
<1>4. pmbFree[i] \in FreeBlocks
  BY FreeIsBlock DEF IInv
<1> QED BY <1>1, <1>2, <1>3, <1>4 DEF ListsDisjoint, Blocks

-----------------------------------------------------------------------------
(***************************************************************************)
(* Every action preserves the invariant.                                   *)
(***************************************************************************)
\* The counter stays in the range of its type.
LEMMA CounterType ==
    ASSUME NEW x \in Int
    PROVE  x % ULONG_MOD \in 0 .. (ULONG_MOD - 1)
<1>1. ULONG_MOD \in Nat /\ ULONG_MOD > 0
  BY HeapConstants
<1> QED BY <1>1

\* The geometry when the lists change but no block and no header does.
LEMMA SameGeometry ==
    ASSUME IInv, Blocks' = Blocks, ulSize' = ulSize
    PROVE  InHeap' /\ Apart' /\ Tiled'
BY DEF IInv, BlocksDisjoint, InHeap, Apart, Tiled, after

\* malloc splits a block.
LEMMA SplitPreserves ==
    ASSUME IInv, NEW i \in 1 .. Len(pmbFree), NEW r \in Nat, r % 4 = 0, r > 0,
           SplitBlock(i, r), UNCHANGED <<pmb, sFreed>>
    PROVE  IInv'
<1>b. PICK b : b = pmbFree[i]
  OBVIOUS
<1>n. PICK new : new = b + HDR_SIZE + r
  OBVIOUS
<1>1. /\ b \in Blocks /\ b \in Addr /\ b \in Nat
      /\ new \in Addr /\ new \notin Blocks /\ new \in Nat
      /\ Blocks' = Blocks \cup {new} /\ ListsDisjoint'
  BY <1>b, <1>n, SplitEffect, FreeIsBlock, BlockIsAddr DEF IInv
<1>2. pmbFree' \in Seq(Addr) /\ pmbUsed' = pmbUsed \cup {b}
  BY <1>b, SplitEffect
<1>3. /\ ulSize \in [Addr -> Nat] /\ ulSize[b] \in Nat
      /\ ulSize[b] >= r + MIN_Leftover
  BY <1>1, <1>b DEF IInv, TypeOK, SplitBlock
<1>4. ulSize' = [ulSize EXCEPT ![b] = r, ![new] = ulSize[b] - (r + HDR_SIZE)]
  BY <1>b, <1>n DEF SplitBlock
<1>5. after(b) <= HEAP_SIZE /\ new < after(b) /\ b < new
  BY <1>1, <1>3, <1>n, SplitPoint DEF IInv, BlocksDisjoint, InHeap
<1>6. Blocks \subseteq Addr /\ Addr \subseteq Nat
  BY BlockIsAddr DEF IInv
<1>7. uMemFree' \in 0 .. (ULONG_MOD - 1)
  <2>1. uMemFree - (r + HDR_SIZE) \in Int
    BY HeapConstants DEF IInv, TypeOK
  <2> QED BY <2>1, CounterType DEF SplitBlock
<1>8. TypeOK'
  <2>1. ulSize' \in [Addr -> Nat]
    BY <1>1, <1>3, <1>4, <1>n, HeapConstants DEF MIN_Leftover
  <2> QED BY <1>1, <1>2, <1>7, <2>1 DEF IInv, TypeOK
<1>9. /\ ulSize'[b] = r /\ ulSize'[new] = ulSize[b] - (r + HDR_SIZE)
      /\ \A c \in Blocks \ {b} : ulSize'[c] = ulSize[c]
  BY <1>1, <1>3, <1>4, <1>5, <1>6
<1>10. after(b)' = new /\ after(new)' = after(b)
  BY <1>1, <1>3, <1>9, <1>n, HeapConstants DEF after
<1>11. \A c \in Blocks \ {b} : after(c)' = after(c)
  BY <1>9 DEF after
<1>12. \A c \in Blocks : after(c) \in Nat
  BY <1>3, <1>6, HeapConstants DEF after
<1>13. Apart
  BY DEF IInv, BlocksDisjoint
<1>14. InHeap'
  <2>1. InHeap
    BY DEF IInv, BlocksDisjoint
  <2>2. ulSize'[new] > 0
    BY <1>3, <1>9, HeapConstants DEF MIN_Leftover
  <2>3. new <= HEAP_SIZE
    BY <1>1, <1>5, <1>12, HeapConstants
  <2> QED BY <1>1, <1>5, <1>9, <1>10, <1>11, <2>1, <2>2, <2>3 DEF InHeap
<1>15. Apart'
  <2>1. ASSUME NEW c \in Blocks', NEW d \in Blocks', c < d
        PROVE  after(c)' <= d
    <3>0. c \in Nat /\ d \in Nat
      BY <1>1, <1>6
    <3>1. CASE c = b
      <4>1. CASE d = new
        BY <1>10, <3>0, <3>1, <4>1
      <4>2. CASE d \in Blocks
        <5>1. after(b) <= d
          BY <1>1, <1>13, <2>1, <3>1, <4>2 DEF Apart
        <5> QED BY <1>1, <1>5, <1>10, <1>12, <3>0, <3>1, <5>1
      <4> QED BY <1>1, <4>1, <4>2
    <3>2. CASE c = new
      <4>1. d \in Blocks /\ b < d
        BY <1>1, <1>5, <2>1, <3>0, <3>2
      <4>2. after(b) <= d
        BY <1>1, <1>13, <4>1 DEF Apart
      <4> QED BY <1>10, <3>2, <4>2
    <3>3. CASE c \in Blocks \ {b}
      <4>1. CASE d = new
        <5>1. CASE c < b
          <6>1. after(c) <= b
            BY <1>1, <1>13, <3>3, <5>1 DEF Apart
          <6> QED BY <1>1, <1>5, <1>11, <1>12, <3>3, <4>1, <6>1
        <5>2. CASE b < c
          <6>1. after(b) <= c
            BY <1>1, <1>13, <3>3, <5>2 DEF Apart
          <6> QED BY <1>1, <1>5, <1>12, <2>1, <3>0, <4>1, <6>1
        <5> QED BY <1>1, <3>0, <3>3, <5>1, <5>2
      <4>2. CASE d \in Blocks
        BY <1>11, <1>13, <2>1, <3>3, <4>2 DEF Apart
      <4> QED BY <1>1, <4>1, <4>2
    <3> QED BY <1>1, <3>1, <3>2, <3>3
  <2> QED BY <2>1 DEF Apart
<1>16. Tiled'
  <2>1. Tiled
    BY DEF IInv
  <2> QED BY <1>1, <1>10, <1>11, <2>1 DEF Tiled
<1> QED BY <1>1, <1>8, <1>14, <1>15, <1>16 DEF IInv, BlocksDisjoint, CursorOK

\* malloc allocates a whole block.
LEMMA WholePreserves ==
    ASSUME IInv, NEW i \in 1 .. Len(pmbFree), NEW r,
           WholeBlock(i, r), UNCHANGED <<pmb, sFreed>>
    PROVE  IInv'
<1>1. /\ pmbFree' \in Seq(Addr) /\ pmbUsed' = pmbUsed \cup {pmbFree[i]}
      /\ Blocks' = Blocks /\ ListsDisjoint' /\ ulSize' = ulSize
      /\ pmbFree[i] \in Addr
  BY WholeEffect, FreeIsBlock DEF IInv, WholeBlock
<1>2. uMemFree' \in 0 .. (ULONG_MOD - 1)
  <2>1. uMemFree - (ulSize[pmbFree[i]] + HDR_SIZE) \in Int
    BY <1>1, HeapConstants DEF IInv, TypeOK
  <2> QED BY <2>1, CounterType DEF WholeBlock
<1>3. TypeOK'
  BY <1>1, <1>2 DEF IInv, TypeOK
<1>4. InHeap' /\ Apart' /\ Tiled'
  BY <1>1, SameGeometry
<1> QED BY <1>1, <1>3, <1>4 DEF IInv, BlocksDisjoint, CursorOK

\* free links the block in front of the free list.
LEMMA FreePreserves ==
    ASSUME IInv, NEW b \in pmbUsed, free(b)
    PROVE  IInv'
<1>1. /\ pmbFree' \in Seq(Addr) /\ pmbUsed' = pmbUsed \ {b}
      /\ Blocks' = Blocks /\ ListsDisjoint' /\ ulSize' = ulSize
      /\ b \in Addr /\ pmb' = 2 /\ sFreed' = 0
  BY FreeEffect DEF IInv, TypeOK, free
<1>2. uMemFree' \in 0 .. (ULONG_MOD - 1)
  <2>1. uMemFree + ulSize[b] + HDR_SIZE \in Int
    BY <1>1, HeapConstants DEF IInv, TypeOK
  <2> QED BY <2>1, CounterType DEF free
<1>3. TypeOK'
  BY <1>1, <1>2 DEF IInv, TypeOK
<1>4. InHeap' /\ Apart' /\ Tiled'
  BY <1>1, SameGeometry
<1> QED BY <1>1, <1>3, <1>4 DEF IInv, BlocksDisjoint, CursorOK

\* The heart of both merges of compact: block c swallows its neighbour d.
LEMMA MergePreserves ==
    ASSUME IInv, NEW i \in 1 .. Len(pmbFree), NEW j \in 1 .. Len(pmbFree), i # j,
           after(pmbFree[i]) = pmbFree[j], sFreed < 2, Swallow(i, j)
    PROVE  IInv'
<1>c. PICK c : c = pmbFree[i]
  OBVIOUS
<1>d. PICK d : d = pmbFree[j]
  OBVIOUS
<1>1. c \in Blocks /\ c \in Addr /\ d \in Blocks /\ d \in Addr
  BY <1>c, <1>d, FreeIsBlock DEF IInv
<1>2. c # d
  BY <1>c, <1>d DEF IInv, BlocksDisjoint, ListsDisjoint, NoRepeats
<1>3. pmbFree' \in Seq(Addr) /\ Blocks' = Blocks \ {d} /\ ListsDisjoint'
  BY <1>d, UnlinkEffect DEF Swallow
<1>4. Blocks \subseteq Addr /\ Addr \subseteq Nat /\ ulSize \in [Addr -> Nat]
  BY BlockIsAddr DEF IInv, TypeOK
<1>5. /\ after(c) = d
      /\ ulSize' = [ulSize EXCEPT ![c] = @ + HDR_SIZE + ulSize[d], ![d] = 0]
  BY <1>c, <1>d DEF Swallow
<1>6. TypeOK'
  <2>1. ulSize[c] + HDR_SIZE + ulSize[d] \in Nat
    BY <1>1, <1>4, HeapConstants
  <2>2. ulSize' \in [Addr -> Nat]
    BY <1>1, <1>4, <1>5, <2>1
  <2>3. sFreed' \in 0 .. 2
    BY DEF IInv, TypeOK, Swallow
  <2>4. pmbUsed' = pmbUsed /\ uMemFree' = uMemFree /\ pmb' = pmb
    BY DEF Swallow
  <2> QED BY <1>3, <2>2, <2>3, <2>4 DEF IInv, TypeOK
<1>7. /\ ulSize'[c] = ulSize[c] + HDR_SIZE + ulSize[d]
      /\ \A e \in Blocks \ {c, d} : ulSize'[e] = ulSize[e]
  BY <1>1, <1>2, <1>4, <1>5
<1>8. after(c)' = after(d)
  <2>1. PICK x \in Nat : x = ulSize[c]
    BY <1>1, <1>4
  <2>2. PICK y \in Nat : y = ulSize[d]
    BY <1>1, <1>4
  <2>3. c \in Nat /\ d \in Nat /\ HDR_SIZE \in Nat
    BY <1>1, <1>4, HeapConstants
  <2>4. c + x + HDR_SIZE = d
    BY <1>5, <2>1 DEF after
  <2>5. c + (x + HDR_SIZE + y) + HDR_SIZE = d + y + HDR_SIZE
    BY <2>3, <2>4
  <2>6. ulSize'[c] = x + HDR_SIZE + y
    BY <1>7, <2>1, <2>2
  <2>7. c + ulSize'[c] + HDR_SIZE = d + ulSize[d] + HDR_SIZE
    BY <2>2, <2>5, <2>6
  <2> QED BY <2>7 DEF after
<1>9. \A e \in Blocks \ {c, d} : after(e)' = after(e)
  BY <1>7 DEF after
<1>10. \A e \in Blocks : after(e) \in Nat /\ e < after(e)
  BY <1>4, HeapConstants DEF after
<1>11. InHeap /\ Apart /\ Tiled
  BY DEF IInv, BlocksDisjoint
<1>12. c < d
  BY <1>1, <1>5, <1>10
<1>13. InHeap'
  <2>1. ulSize'[c] > 0
    BY <1>1, <1>4, <1>7, HeapConstants
  <2> QED BY <1>1, <1>3, <1>7, <1>8, <1>9, <1>11, <2>1 DEF InHeap
<1>14. Apart'
  <2>1. ASSUME NEW e \in Blocks', NEW f \in Blocks', e < f
        PROVE  after(e)' <= f
    <3>1. e \in Blocks \ {d} /\ f \in Blocks \ {d} /\ e \in Nat /\ f \in Nat
      BY <1>3, <1>4
    <3>2. CASE e = c
      <4>1. d <= f
        BY <1>5, <1>11, <2>1, <3>1, <3>2 DEF Apart
      <4>2. d < f
        BY <1>1, <1>4, <3>1, <4>1
      <4>3. after(d) <= f
        BY <1>1, <1>11, <3>1, <4>2 DEF Apart
      <4> QED BY <1>8, <3>2, <4>3
    <3>3. CASE e # c
      BY <1>9, <1>11, <2>1, <3>1, <3>3 DEF Apart
    <3> QED BY <3>2, <3>3
  <2> QED BY <2>1 DEF Apart
<1>15. Tiled'
  <2>1. 0 \in Blocks'
    BY <1>1, <1>3, <1>4, <1>11, <1>12 DEF Tiled
  <2>2. ASSUME NEW e \in Blocks'
        PROVE  after(e)' = HEAP_SIZE \/ after(e)' \in Blocks'
    <3>1. e \in Blocks \ {d} /\ e \in Nat
      BY <1>3, <1>4
    <3>2. CASE e = c
      <4>1. after(d) # d
        BY <1>1, <1>4, <1>10
      <4> QED BY <1>1, <1>3, <1>8, <1>11, <3>2, <4>1 DEF Tiled
    <3>3. CASE e # c
      <4>1. after(e) # d
        \* two blocks that end at d would overlap
        <5>1. CASE e < c
          <6>1. after(e) <= c
            BY <1>1, <1>11, <3>1, <5>1 DEF Apart
          <6> QED BY <1>1, <1>4, <1>10, <1>12, <3>1, <6>1
        <5>2. CASE c < e
          <6>1. d <= e
            BY <1>1, <1>5, <1>11, <3>1, <5>2 DEF Apart
          <6> QED BY <1>1, <1>4, <1>10, <3>1, <6>1
        <5> QED BY <1>1, <1>4, <3>1, <3>3, <5>1, <5>2
      <4> QED BY <1>3, <1>9, <1>11, <3>1, <3>3, <4>1 DEF Tiled
    <3> QED BY <3>2, <3>3
  <2> QED BY <2>1, <2>2 DEF Tiled
<1> QED BY <1>3, <1>6, <1>13, <1>14, <1>15 DEF IInv, BlocksDisjoint, CursorOK, Swallow

-----------------------------------------------------------------------------
\* HeapInit makes one block that covers the heap.
LEMMA InitEstablishes == HeapInit => IInv
<1> SUFFICES ASSUME HeapInit PROVE IInv
  OBVIOUS
<1>1. 0 \in Addr
  BY HeapConstants DEF Addr
<1>2. pmbFree = <<0>> /\ pmbUsed = {} /\ pmb = 0 /\ sFreed = 0
  BY DEF HeapInit
<1>3. Blocks = {0} /\ FreeBlocks = {0} /\ NoRepeats(pmbFree)
  BY <1>2 DEF Blocks, FreeBlocks, Members, NoRepeats
<1>4. ulSize \in [Addr -> Nat] /\ ulSize[0] = HEAP_SIZE - HDR_SIZE
  BY <1>1, HeapConstants DEF HeapInit
<1>5. uMemFree \in 0 .. (ULONG_MOD - 1)
  BY HeapConstants DEF HeapInit
<1>6. TypeOK
  BY <1>1, <1>2, <1>4, <1>5 DEF TypeOK
<1>7. after(0) = HEAP_SIZE
  BY <1>4, HeapConstants DEF after
<1>8. ulSize[0] > 0
  BY <1>4, HeapConstants
<1>9. InHeap /\ Apart /\ Tiled
  BY <1>3, <1>7, <1>8, HeapConstants DEF InHeap, Apart, Tiled
<1> QED BY <1>2, <1>3, <1>6, <1>9 DEF IInv, BlocksDisjoint, ListsDisjoint, CursorOK

\* malloc, in either of its two ways.
LEMMA MallocPreserves ==
    ASSUME IInv, NEW n \in Requests, malloc(n)
    PROVE  IInv'
<1>1. DwordAlign(n) \in Nat /\ DwordAlign(n) > 0 /\ DwordAlign(n) % 4 = 0
  BY AlignedRequest, HeapConstants DEF malloc
<1>2. PICK i \in Fits(DwordAlign(n)) : npvAllocateBlock(i, DwordAlign(n))
  BY DEF malloc
<1>3. i \in 1 .. Len(pmbFree) /\ UNCHANGED <<pmb, sFreed>>
  BY DEF Fits, malloc
<1>4. CASE SplitBlock(i, DwordAlign(n))
  BY <1>1, <1>3, <1>4, SplitPreserves
<1>5. CASE WholeBlock(i, DwordAlign(n))
  BY <1>3, <1>5, WholePreserves
<1> QED BY <1>2, <1>4, <1>5 DEF npvAllocateBlock

\* A step that only moves or stops compact's cursor.
LEMMA CursorPreserves ==
    ASSUME IInv, UNCHANGED <<ulSize, pmbUsed, pmbFree, uMemFree>>,
           pmb' \in Nat, pmb' # 1, sFreed' \in 0 .. 2
    PROVE  IInv'
<1>1. FreeBlocks' = FreeBlocks /\ Blocks' = Blocks
  BY DEF FreeBlocks, Blocks
<1>2. InHeap' /\ Apart' /\ Tiled'
  BY <1>1, SameGeometry
<1> QED BY <1>1, <1>2 DEF IInv, TypeOK, BlocksDisjoint, ListsDisjoint, CursorOK

\* Every step of malloc, free and compact preserves the invariant.
LEMMA StepPreserves == IInv /\ [Next]_vars => IInv'
<1> SUFFICES ASSUME IInv, [Next]_vars PROVE IInv'
  OBVIOUS
<1>0. /\ pmb \in Nat /\ pmb # 1 /\ sFreed \in 0 .. 2
      /\ Len(pmbFree) \in Nat
  BY DEF IInv, TypeOK, CursorOK
<1>1. ASSUME NEW n \in Requests, malloc(n) PROVE IInv'
  BY <1>1, MallocPreserves
<1>2. ASSUME NEW b \in pmbUsed, free(b) PROVE IInv'
  BY <1>2, FreePreserves
<1>3. CASE MergeHeadIntoBlock
  <2>1. pmb \in 1 .. Len(pmbFree) /\ 1 \in 1 .. Len(pmbFree) /\ sFreed < 2
    BY <1>0, <1>3 DEF MergeHeadIntoBlock, Looping
  <2> QED BY <1>0, <1>3, <2>1, MergePreserves DEF MergeHeadIntoBlock
<1>4. CASE MergeBlockIntoHead
  <2>1. pmb \in 1 .. Len(pmbFree) /\ 1 \in 1 .. Len(pmbFree) /\ sFreed < 2
    BY <1>0, <1>4 DEF MergeBlockIntoHead, Looping
  <2> QED BY <1>0, <1>4, <2>1, MergePreserves DEF MergeBlockIntoHead
<1>5. CASE Advance
  BY <1>0, <1>5, CursorPreserves DEF Advance, Looping
<1>6. CASE compactReturns
  BY <1>0, <1>6, CursorPreserves DEF compactReturns
<1>7. CASE UNCHANGED vars
  BY <1>0, <1>7, CursorPreserves DEF vars
<1>8. ASSUME NEW n \in Requests, mallocFails(n) PROVE IInv'
  BY <1>7, <1>8 DEF mallocFails
<1> QED BY <1>1, <1>2, <1>3, <1>4, <1>5, <1>6, <1>7, <1>8 DEF Next, compact

\* The invariant of the heap.
THEOREM HeapInvariant == Spec => []IInv
BY InitEstablishes, StepPreserves, PTL DEF Spec

\* The variables keep their types, whatever the sizes of heap and requests.
THEOREM HeapTypeOK == Spec => []TypeOK
<1>1. IInv => TypeOK
  BY DEF IInv
<1> QED BY <1>1, HeapInvariant, PTL

\* No two blocks of the heap share a byte: malloc, free and compact never hand
\* one piece of memory out twice.
THEOREM HeapBlocksDisjoint == Spec => []BlocksDisjoint
<1>1. IInv => BlocksDisjoint
  BY DEF IInv
<1> QED BY <1>1, HeapInvariant, PTL

\* No memory of the heap is lost: splitting and merging keep the heap tiled.
THEOREM HeapTiled == Spec => []Tiled
<1>1. IInv => Tiled
  BY DEF IInv
<1> QED BY <1>1, HeapInvariant, PTL

\* No step changes the size of a block that is held before and after it.
LEMMA StepKeepsLive ==
    ASSUME IInv, [Next]_vars
    PROVE  \A b \in pmbUsed \cap pmbUsed' : ulSize'[b] = ulSize[b]
<1>0. /\ pmb \in Nat /\ pmb # 1 /\ Len(pmbFree) \in Nat
      /\ ulSize \in [Addr -> Nat] /\ pmbUsed \subseteq Addr
      /\ FreeBlocks \cap pmbUsed = {}
  BY DEF IInv, TypeOK, CursorOK, BlocksDisjoint, ListsDisjoint
<1>1. ASSUME NEW i \in 1 .. Len(pmbFree), NEW j \in 1 .. Len(pmbFree), Swallow(i, j),
             NEW b \in pmbUsed
      PROVE  ulSize'[b] = ulSize[b]
  <2>1. b # pmbFree[i] /\ b # pmbFree[j] /\ b \in Addr
    BY <1>0, FreeIsBlock DEF IInv
  <2> QED BY <1>0, <1>1, <2>1 DEF Swallow
<1>2. ASSUME NEW n \in Requests, malloc(n), NEW b \in pmbUsed
      PROVE  ulSize'[b] = ulSize[b]
  <2>1. DwordAlign(n) \in Nat /\ DwordAlign(n) > 0 /\ DwordAlign(n) % 4 = 0
    BY <1>2, AlignedRequest, HeapConstants DEF malloc
  <2>2. PICK i \in 1 .. Len(pmbFree) : npvAllocateBlock(i, DwordAlign(n))
    BY <1>2 DEF malloc, Fits
  <2>3. CASE SplitBlock(i, DwordAlign(n))
    <3>1. /\ pmbFree[i] \in FreeBlocks
          /\ pmbFree[i] + HDR_SIZE + DwordAlign(n) \in Addr \ Blocks
      BY <2>1, <2>3, SplitEffect
    <3>2. b # pmbFree[i] /\ b # pmbFree[i] + HDR_SIZE + DwordAlign(n) /\ b \in Addr
      BY <1>0, <3>1 DEF Blocks
    <3> QED BY <1>0, <2>3, <3>2 DEF SplitBlock
  <2>4. CASE WholeBlock(i, DwordAlign(n))
    BY <2>4 DEF WholeBlock
  <2> QED BY <2>2, <2>3, <2>4 DEF npvAllocateBlock
<1>3. ASSUME MergeHeadIntoBlock, NEW b \in pmbUsed PROVE ulSize'[b] = ulSize[b]
  BY <1>0, <1>1, <1>3 DEF MergeHeadIntoBlock, Looping
<1>4. ASSUME MergeBlockIntoHead, NEW b \in pmbUsed PROVE ulSize'[b] = ulSize[b]
  BY <1>0, <1>1, <1>4 DEF MergeBlockIntoHead, Looping
<1>5. ASSUME ulSize' = ulSize, NEW b \in pmbUsed PROVE ulSize'[b] = ulSize[b]
  BY <1>5
<1>6. \/ \E n \in Requests : malloc(n)
      \/ MergeHeadIntoBlock \/ MergeBlockIntoHead
      \/ ulSize' = ulSize
  BY DEF Next, compact, Advance, compactReturns, mallocFails, free, vars
<1> QED BY <1>2, <1>3, <1>4, <1>5, <1>6

\* A block that a caller holds keeps its size: merges touch free blocks only,
\* and a split touches the block being handed out.
THEOREM HeapLiveBlocksKept == Spec => LiveBlocksKept
<1>1. IInv /\ [Next]_vars
      => [\A b \in pmbUsed \cap pmbUsed' : ulSize'[b] = ulSize[b]]_vars
  BY StepKeepsLive DEF vars
<1> QED BY <1>1, HeapInvariant, PTL DEF Spec, LiveBlocksKept
-----------------------------------------------------------------------------
(***************************************************************************)
(* The private heap implements an allocator.  A step of the heap with its  *)
(* callers is a step of Heap, so the invariant holds before and after it.  *)
(* malloc maps to Allocate: the block it takes was free, hence apart from  *)
(* every held one.  free maps to Release, and the steps of compact, which  *)
(* touch free blocks only, to stuttering.                                  *)
(***************************************************************************)
\* The refinement mapping.
HeldMap == [p \in Pointers |-> ulSize[p - HDR_SIZE]]
AskedMap == [p \in Pointers |-> wanted[p - HDR_SIZE]]

\* A step with the history variable is a step of the heap.
LEMMA ClientStepIsHeapStep == [ClientNext]_cvars => [Next]_vars
BY DEF ClientNext, ClientMalloc, ClientFree, cvars, Next, vars

\* The heap's invariant holds with its callers.
LEMMA ClientInvariant == ClientSpec => []IInv
<1>1. ClientInit => IInv
  BY InitEstablishes DEF ClientInit
<1> QED BY <1>1, ClientStepIsHeapStep, StepPreserves, PTL DEF ClientSpec

\* A held block is made of whole dwords inside the heap, and so is what lies
\* behind its header.
LEMMA HeldInHeap ==
    ASSUME IInv, NEW b \in pmbUsed
    PROVE  /\ Pointer(b) \in Memory!Dwords /\ ulSize[b] \in Memory!Dwords
           /\ Pointer(b) + ulSize[b] <= HEAP_SIZE
           /\ Pointer(b) \in Int /\ ulSize[b] \in Nat /\ b \in Nat
<1>1. /\ b \in Blocks /\ b \in Addr /\ ulSize[b] \in Nat
      /\ FreeBlocks \subseteq Addr
  BY BlockIsAddr, FreeIsBlock DEF IInv, TypeOK, Blocks, FreeBlocks, Members
<1>2. b \in Nat /\ b % 4 = 0 /\ HDR_SIZE \in Nat /\ HDR_SIZE % 4 = 0
      /\ HEAP_SIZE \in Nat /\ HEAP_SIZE % 4 = 0
  BY <1>1, HeapConstants DEF Addr
<1>3. ulSize[b] > 0 /\ b + ulSize[b] + HDR_SIZE <= HEAP_SIZE
  BY <1>1 DEF IInv, BlocksDisjoint, InHeap, after
<1>4. (b + ulSize[b] + HDR_SIZE) % 4 = 0
  <2>1. after(b) = HEAP_SIZE \/ after(b) \in Addr
    BY <1>1 DEF IInv, Tiled, Blocks, TypeOK
  <2> QED BY <1>2, <2>1 DEF after, Addr
<1>5. ulSize[b] % 4 = 0 /\ (b + HDR_SIZE) % 4 = 0
  BY <1>1, <1>2, <1>4
<1> QED BY <1>1, <1>2, <1>3, <1>5 DEF Pointer, Memory!Dwords

\* Two held blocks are apart.
LEMMA HeldApart ==
    ASSUME IInv, NEW b \in pmbUsed, NEW c \in pmbUsed, b # c
    PROVE  Pointer(b) + ulSize[b] <= Pointer(c) \/ Pointer(c) + ulSize[c] <= Pointer(b)
<1>1. b \in Nat /\ c \in Nat /\ ulSize[b] \in Nat /\ ulSize[c] \in Nat
  BY HeldInHeap
<1>2. HDR_SIZE \in Nat
  BY HeapConstants
<1>3. b < c => b + ulSize[b] + HDR_SIZE <= c
  BY DEF IInv, BlocksDisjoint, Apart, Blocks, after
<1>4. c < b => c + ulSize[c] + HDR_SIZE <= b
  BY DEF IInv, BlocksDisjoint, Apart, Blocks, after
<1> QED BY <1>1, <1>2, <1>3, <1>4 DEF Pointer

\* The two facts about all held blocks at once.
AllInHeap ==
    \A b \in pmbUsed :
        /\ Pointer(b) \in Memory!Dwords /\ ulSize[b] \in Memory!Dwords
        /\ Pointer(b) + ulSize[b] <= HEAP_SIZE
        /\ Pointer(b) \in Int /\ ulSize[b] \in Nat

AllApart ==
    \A b, c \in pmbUsed :
        b # c => \/ Pointer(b) + ulSize[b] <= Pointer(c)
                 \/ Pointer(c) + ulSize[c] <= Pointer(b)

\* They follow from the invariant after a step as well.
LEMMA HeldAfter == IInv' => AllInHeap' /\ AllApart'
<1>1. IInv => AllInHeap
  BY HeldInHeap DEF AllInHeap
<1>2. IInv => AllApart
  BY HeldApart DEF AllApart
<1> QED BY <1>1, <1>2, PTL

\* Pointers name blocks one to one.
LEMMA PointerBlock ==
    ASSUME IInv
    PROVE  /\ \A p \in Pointers : p - HDR_SIZE \in pmbUsed /\ p = Pointer(p - HDR_SIZE)
           /\ \A b \in pmbUsed : Pointer(b) \in Pointers /\ Pointer(b) - HDR_SIZE = b
           /\ Pointers \subseteq Int
<1>1. \A b \in pmbUsed : b \in Nat
  BY HeldInHeap
<1> QED BY <1>1, HeapConstants DEF Pointers, Pointer

\* malloc hands out one block that was free, of at least the size asked for.
LEMMA MallocTakes ==
    ASSUME IInv, NEW n \in Requests, malloc(n)
    PROVE  \E b \in FreeBlocks :
              /\ pmbUsed' = pmbUsed \cup {b} /\ b \notin pmbUsed
              /\ ulSize'[b] >= n
<1>1. DwordAlign(n) \in Nat /\ DwordAlign(n) > 0 /\ DwordAlign(n) % 4 = 0 /\ n \in Nat
  BY AlignedRequest, HeapConstants DEF malloc
<1>2. DwordAlign(n) >= n
  BY <1>1 DEF DwordAlign
<1>3. PICK i \in Fits(DwordAlign(n)) : npvAllocateBlock(i, DwordAlign(n))
  BY DEF malloc
<1>4. i \in 1 .. Len(pmbFree) /\ ulSize[pmbFree[i]] >= DwordAlign(n)
  BY <1>3 DEF Fits
<1>5. /\ pmbFree[i] \in FreeBlocks /\ pmbFree[i] \in Addr
      /\ pmbFree[i] \notin pmbUsed /\ ulSize \in [Addr -> Nat]
  BY <1>4, FreeIsBlock DEF IInv, TypeOK, BlocksDisjoint, ListsDisjoint
<1>6. CASE SplitBlock(i, DwordAlign(n))
  <2>1. /\ pmbFree[i] + HDR_SIZE + DwordAlign(n) \in Addr \ Blocks
        /\ pmbUsed' = pmbUsed \cup {pmbFree[i]}
    BY <1>1, <1>4, <1>6, SplitEffect
  <2>2. pmbFree[i] + HDR_SIZE + DwordAlign(n) # pmbFree[i]
    BY <1>5, <2>1 DEF Blocks
  <2>3. ulSize'[pmbFree[i]] = DwordAlign(n)
    BY <1>5, <1>6, <2>2 DEF SplitBlock
  <2> QED BY <1>2, <1>5, <2>1, <2>3
<1>7. CASE WholeBlock(i, DwordAlign(n))
  <2>1. pmbUsed' = pmbUsed \cup {pmbFree[i]} /\ ulSize' = ulSize
    BY <1>7 DEF WholeBlock
  <2>2. ulSize[pmbFree[i]] \in Nat
    BY <1>5
  <2> QED BY <1>1, <1>2, <1>4, <1>5, <2>1, <2>2
<1> QED BY <1>3, <1>6, <1>7 DEF npvAllocateBlock

\* malloc with its caller is a step Allocate of the allocator.
LEMMA MallocRefines ==
    ASSUME IInv, IInv', NEW n \in Requests, ClientMalloc(n)
    PROVE  Memory!Allocate
<1>1. malloc(n) /\ n # 0
  BY HeapConstants DEF ClientMalloc, malloc
<1>2. PICK b \in FreeBlocks : /\ pmbUsed' = pmbUsed \cup {b} /\ b \notin pmbUsed
                              /\ ulSize'[b] >= n
  BY <1>1, MallocTakes
<1>3. \A c \in pmbUsed : ulSize'[c] = ulSize[c]
  BY <1>1, <1>2, StepKeepsLive DEF Next
<1> DEFINE p == Pointer(b)
           s == ulSize'[b]
<1>4. /\ p \in Memory!Dwords /\ s \in Memory!Dwords /\ p + s <= HEAP_SIZE
      /\ p \in Int /\ s \in Nat
  <2>1. \A c \in pmbUsed' : /\ Pointer(c) \in Memory!Dwords
                            /\ ulSize'[c] \in Memory!Dwords
                            /\ Pointer(c) + ulSize'[c] <= HEAP_SIZE
                            /\ Pointer(c) \in Int /\ ulSize'[c] \in Nat
    BY HeldAfter DEF AllInHeap, Pointer, Memory!Dwords
  <2> QED BY <1>2, <2>1
<1>5. Pointers' = Pointers \cup {p}
  BY <1>2 DEF Pointers, Pointer
<1>6. /\ \A q \in Pointers : q - HDR_SIZE \in pmbUsed /\ q = Pointer(q - HDR_SIZE)
      /\ p - HDR_SIZE = b
  <2>1. b \in Nat
    BY FreeIsBlock, <1>2 DEF IInv, TypeOK, FreeBlocks, Members, Addr
  <2> QED BY <2>1, PointerBlock, HeapConstants DEF Pointer
<1>7. \A q \in Pointers : q # p
  BY <1>2, <1>6
<1>8. HeldMap' = Memory!With(HeldMap, p, s)
  BY <1>3, <1>5, <1>6, <1>7 DEF HeldMap, Memory!With
<1>9. AskedMap' = Memory!With(AskedMap, p, n)
  <2>1. wanted' = [c \in pmbUsed' |-> IF c \in pmbUsed THEN wanted[c] ELSE n]
    BY DEF ClientMalloc
  <2> QED BY <1>2, <1>5, <1>6, <1>7, <2>1 DEF AskedMap, Memory!With
<1>10. Memory!Unheld(p, s)
  <2>1. SUFFICES ASSUME NEW q \in Pointers
                 PROVE  p + s <= q \/ q + HeldMap[q] <= p
    BY DEF Memory!Unheld, HeldMap
  <2>2. PICK c \in pmbUsed : q = Pointer(c) /\ HeldMap[q] = ulSize'[c] /\ c # b
    <3>1. q - HDR_SIZE \in pmbUsed /\ q = Pointer(q - HDR_SIZE)
      BY <1>6
    <3>2. HeldMap[q] = ulSize[q - HDR_SIZE] /\ q - HDR_SIZE # b
      BY <1>2, <3>1 DEF HeldMap
    <3> QED BY <1>3, <3>1, <3>2
  <2>3. /\ b \in pmbUsed' /\ c \in pmbUsed'
    BY <1>2, <2>2
  <2>4. \A c1, c2 \in pmbUsed' :
           c1 # c2 => \/ Pointer(c1) + ulSize'[c1] <= Pointer(c2)
                      \/ Pointer(c2) + ulSize'[c2] <= Pointer(c1)
    BY HeldAfter DEF AllApart, Pointer
  <2>5. \/ Pointer(b) + ulSize'[b] <= Pointer(c)
        \/ Pointer(c) + ulSize'[c] <= Pointer(b)
    BY <2>2, <2>3, <2>4
  <2> HIDE DEF HeldMap
  <2> QED BY <2>2, <2>5
<1>11. Memory!Grant(n, p, s)
  BY <1>2, <1>4, <1>8, <1>9, <1>10 DEF Memory!Grant, HeldMap, AskedMap
<1> HIDE DEF p, s
<1> QED BY <1>1, <1>4, <1>11 DEF Memory!Allocate, Memory!Grant

\* free with its caller is a step Release of the allocator.
LEMMA FreeRefines ==
    ASSUME IInv, NEW b \in pmbUsed, ClientFree(b)
    PROVE  Pointer(b) \in Pointers /\ Memory!Release(Pointer(b))
<1>1. /\ pmbUsed' = pmbUsed \ {b} /\ ulSize' = ulSize
      /\ wanted' = [c \in pmbUsed' |-> wanted[c]]
  BY DEF ClientFree, free
<1>2. /\ \A q \in Pointers : q - HDR_SIZE \in pmbUsed /\ q = Pointer(q - HDR_SIZE)
      /\ \A c \in pmbUsed : Pointer(c) \in Pointers /\ Pointer(c) - HDR_SIZE = c
  BY PointerBlock
<1>3. Pointers' = Pointers \ {Pointer(b)}
  <2>1. Pointers' = {Pointer(c) : c \in pmbUsed \ {b}}
    BY <1>1 DEF Pointers, Pointer
  <2> QED BY <1>2, <2>1
<1>4. HeldMap' = Memory!Without(HeldMap, Pointer(b))
  BY <1>1, <1>3 DEF HeldMap, Memory!Without
<1>5. AskedMap' = Memory!Without(AskedMap, Pointer(b))
  <2>1. \A q \in Pointers' : q - HDR_SIZE \in pmbUsed'
    BY <1>1, <1>2, <1>3
  <2> QED BY <1>1, <1>3, <2>1 DEF AskedMap, Memory!Without
<1> QED BY <1>2, <1>4, <1>5 DEF Memory!Release, HeldMap, AskedMap

\* A step that leaves the held blocks alone is invisible to the callers.
LEMMA StutterRefines ==
    ASSUME IInv, pmbUsed' = pmbUsed, wanted' = wanted,
           \A b \in pmbUsed : ulSize'[b] = ulSize[b]
    PROVE  UNCHANGED Memory!vars
<1>1. Pointers' = Pointers
  BY DEF Pointers, Pointer
<1>2. \A q \in Pointers : q - HDR_SIZE \in pmbUsed
  BY PointerBlock
<1>3. HeldMap' = HeldMap
  BY <1>1, <1>2 DEF HeldMap
<1>4. AskedMap' = AskedMap
  BY <1>1 DEF AskedMap
<1> QED BY <1>3, <1>4 DEF Memory!vars, HeldMap, AskedMap

\* Every step of the heap is a step of the allocator or invisible.
LEMMA StepRefines ==
    ASSUME IInv, IInv', [ClientNext]_cvars
    PROVE  [Memory!Next]_(Memory!vars)
<1>1. ASSUME NEW n \in Requests, ClientMalloc(n) PROVE Memory!Next
  BY <1>1, MallocRefines DEF Memory!Next
<1>2. ASSUME NEW b \in pmbUsed, ClientFree(b) PROVE Memory!Next
  BY <1>2, FreeRefines DEF Memory!Next
<1>3. CASE compact /\ UNCHANGED wanted
  <2>1. pmbUsed' = pmbUsed
    BY <1>3 DEF compact, MergeHeadIntoBlock, MergeBlockIntoHead, Swallow, Advance,
                compactReturns
  <2>2. \A b \in pmbUsed : ulSize'[b] = ulSize[b]
    BY <1>3, <2>1, StepKeepsLive DEF Next
  <2> QED BY <1>3, <2>1, <2>2, StutterRefines
<1>4. CASE (\E n \in Requests : mallocFails(n) /\ UNCHANGED wanted) \/ UNCHANGED cvars
  BY <1>4, StutterRefines DEF mallocFails, vars, cvars
<1> QED BY <1>1, <1>2, <1>3, <1>4 DEF ClientNext

\* malloc and free, with first fit, splitting and compact underneath, are an
\* allocator for every heap size, header size and set of requests: nobody is
\* handed memory that somebody holds, that is smaller than the request, or
\* that lies outside the heap.
THEOREM HeapImplementsAllocator == ClientSpec => ImplementsAllocator
<1>1. ClientInit => Memory!Init
  <2>1. ClientInit => Pointers = {}
    BY DEF ClientInit, HeapInit, Pointers
  <2> QED BY <2>1 DEF Memory!Init
<1> QED BY <1>1, ClientInvariant, StepRefines, PTL
        DEF ClientSpec, ImplementsAllocator, Memory!Spec

-----------------------------------------------------------------------------
(***************************************************************************)
(* The pages.                                                              *)
(***************************************************************************)
\* The types of a region, of an entry of the list and of a block.
Region == [size : 1 .. Space, phys : NoPhys .. (Frame - 1)]
Entry == [base : Pages, retaddr : 0 .. (Space - 1), size : 1 .. Space]
BlockType ==
    [kind : {"kmalloc", "dma", "pages", "io", "lost"}, size : Nat, want : Nat, kept : BOOLEAN]

\* A memory, and the blocks that callers hold.
IsMem(m) ==
    /\ m \in [vm : {m.vm}, list : Seq(Entry), heap : Nat, used : Int, missed : SUBSET Pages]
    /\ DOMAIN m.vm \subseteq Pages /\ m.vm \in [DOMAIN m.vm -> Region]
    /\ m.missed \subseteq DOMAIN m.vm

AreBlocks(bs) ==
    /\ DOMAIN bs \subseteq 0 .. (Space + HeapSlots - 1)
    /\ bs \in [DOMAIN bs -> BlockType]
    /\ \A p \in DOMAIN bs : p < Space => bs[p].size >= 1
    /\ \A p \in DOMAIN bs : p >= Space => bs[p].kind = "kmalloc"

\* The regions end in the address space, and before the next one.
RegionsApart(m) ==
    /\ \A a \in DOMAIN m.vm : a + m.vm[a].size <= Space
    /\ \A a, b \in DOMAIN m.vm : a < b => a + m.vm[a].size <= b

InPages(bs) == {p \in DOMAIN bs : p < Space}

\* Block p lies in region a.
In(m, bs, p, a) ==
    a \in DOMAIN m.vm /\ a <= p /\ p + bs[p].size <= a + m.vm[a].size

\* Every block in pages has a region of its own, and every region has a
\* block or was missed.
Housed(m, bs) ==
    /\ \A p \in InPages(bs) : \E a \in DOMAIN m.vm : In(m, bs, p, a)
    /\ \A p, q \in InPages(bs) : \A a \in DOMAIN m.vm :
          In(m, bs, p, a) /\ In(m, bs, q, a) => p = q
    /\ \A a \in DOMAIN m.vm \ m.missed : \E p \in InPages(bs) : In(m, bs, p, a)

\* The entries of the list, and that no address has two.
Entries(m) == {m.list[i] : i \in 1 .. Len(m.list)}

NoTwice(m) ==
    \A i, j \in 1 .. Len(m.list) : m.list[i].retaddr = m.list[j].retaddr => i = j

\* An entry tells the region of a block that pages or kmalloc returned.
EntriesTrue(m, bs) ==
    /\ NoTwice(m)
    /\ \A e \in Entries(m) :
          /\ e.retaddr \in InPages(bs) /\ bs[e.retaddr].kind # "io"
          /\ In(m, bs, e.retaddr, e.base) /\ e.size = m.vm[e.base].size

\* How the free of a block finds its region.
Found(m, bs) ==
    \A p \in InPages(bs) : \A a \in DOMAIN m.vm : In(m, bs, p, a) =>
        /\ bs[p].kind = "io" => a = (p \div PAGE_SIZE) * PAGE_SIZE
        /\ bs[p].kind = "kmalloc" => a = p
        /\ bs[p].kind \in {"dma", "pages"} =>
              a = p \/ a \in m.missed \/ \E e \in Entries(m) : e.retaddr = p

\* How much of a block must be in one frame.
Part(n) == IF n <= Frame THEN n ELSE Frame

\* Where a DMA block lies.
Framed(m, bs) ==
    \A p \in InPages(bs) : \A a \in DOMAIN m.vm :
        In(m, bs, p, a) /\ bs[p].kind = "dma" /\ m.vm[a].phys # NoPhys =>
            LET f == m.vm[a].phys + (p - a)
            IN  f \div Frame = (f + Part(bs[p].size) - 1) \div Frame

\* The private heap has room for what it gave out.
InHeapOf(bs) == {p \in DOMAIN bs : p >= Space}
HeapRoom(m, bs) ==
    m.heap + Cardinality(InHeapOf(bs)) + Len(m.list) <= HeapSlots

\* The inductive invariant.
Good(m, bs) ==
    /\ IsMem(m) /\ AreBlocks(bs) /\ RegionsApart(m) /\ Housed(m, bs)
    /\ EntriesTrue(m, bs) /\ Found(m, bs) /\ Framed(m, bs) /\ HeapRoom(m, bs)

PageIInv == Good(mem, blocks)

-----------------------------------------------------------------------------
(***************************************************************************)
(* Division by the page and by the frame.                                  *)
(***************************************************************************)
\* Quotient and remainder.
LEMMA Division ==
  ASSUME NEW n \in Nat, n > 0, NEW b \in Int
  PROVE  b % n \in 0 .. n - 1 /\ b \div n \in Int /\ b = n * (b \div n) + (b % n)
OBVIOUS

\* A multiple of n between -n and n is zero.
LEMMA SmallMultiple ==
  ASSUME NEW n \in Nat, n > 0, NEW k \in Int, k * n < n, k * n > 0 - n
  PROVE  k = 0
<1>1. ASSUME k >= 1 PROVE k * n >= n
  BY <1>1
<1>2. ASSUME k <= -1 PROVE k * n <= 0 - n
  BY <1>2
<1> QED
  BY <1>1, <1>2

\* The quotient is unique.
LEMMA Quotient ==
  ASSUME NEW n \in Nat, n > 0, NEW q \in Int, NEW r \in 0 .. n - 1
  PROVE  (q * n + r) \div n = q
<1> DEFINE x == q * n + r
           k == q - (x \div n)
<1>1. x \in Int /\ x % n \in 0 .. n - 1 /\ x \div n \in Int /\ x = n * (x \div n) + (x % n)
  BY Division
<1>2. k * n = (x % n) - r
  BY <1>1
<1>3. k \in Int /\ k * n < n /\ k * n > 0 - n
  BY <1>1, <1>2
<1>4. k = 0
  <2> HIDE DEF k
  <2> QED
    BY <1>3, SmallMultiple
<1> QED
  BY <1>1, <1>4

\* Whole pages hold what was asked for.
LEMMA RoundUpHolds ==
  ASSUME NEW n \in Nat
  PROVE  RoundUp(n) \in Nat /\ RoundUp(n) >= n
<1> DEFINE x == n + PAGE_SIZE - 1
<1>1. x \in Int /\ PAGE_SIZE \in Nat /\ PAGE_SIZE > 0
  BY PageConstants
<1>2. /\ x % PAGE_SIZE \in 0 .. PAGE_SIZE - 1 /\ x \div PAGE_SIZE \in Int
      /\ x = PAGE_SIZE * (x \div PAGE_SIZE) + (x % PAGE_SIZE)
  <2> HIDE DEF x
  <2> QED BY <1>1, Division
<1>3. RoundUp(n) = (x \div PAGE_SIZE) * PAGE_SIZE
  BY DEF RoundUp
<1> DEFINE q == x \div PAGE_SIZE
           r == x % PAGE_SIZE
<1>4. q \in Int /\ r \in Int /\ r <= PAGE_SIZE - 1 /\ x = PAGE_SIZE * q + r
  BY <1>1, <1>2
<1>5. RoundUp(n) = x - r
  <2> HIDE DEF q, r, x
  <2>1. q * PAGE_SIZE = PAGE_SIZE * q
    BY <1>1, <1>4
  <2> QED BY <1>1, <1>3, <1>4, <2>1 DEF q
<1> QED
  BY <1>1, <1>4, <1>5

\* A page is the start of the addresses in it.
LEMMA PageStart ==
  ASSUME NEW a \in Pages, NEW off \in 0 .. (PAGE_SIZE - 1)
  PROVE  ((a + off) \div PAGE_SIZE) * PAGE_SIZE = a
<1>1. PAGE_SIZE \in Nat /\ PAGE_SIZE > 0 /\ a \in Int /\ a % PAGE_SIZE = 0
  BY PageConstants DEF Pages
<1> DEFINE q == a \div PAGE_SIZE
<1>2. q \in Int /\ a = PAGE_SIZE * q
  BY <1>1, Division
<1> HIDE DEF q
<1>3. (q * PAGE_SIZE + off) \div PAGE_SIZE = q
  BY <1>1, <1>2, Quotient
<1>4. q * PAGE_SIZE = a
  BY <1>1, <1>2
<1> QED
  BY <1>3, <1>4

\* The first and the second frame.
LEMMA Frames ==
  ASSUME NEW x \in Nat
  PROVE  /\ x < Frame <=> x \div Frame = 0
         /\ Frame <= x /\ x < 2 * Frame => x \div Frame = 1
<1>1. Frame \in Nat /\ Frame > 0
  BY PageConstants
<1>2. /\ x % Frame \in 0 .. Frame - 1 /\ x \div Frame \in Int
      /\ x = Frame * (x \div Frame) + (x % Frame)
  BY <1>1, Division
<1>3. ASSUME x < Frame PROVE x \div Frame = 0
  <2>1. x \in 0 .. Frame - 1
    BY <1>1, <1>3
  <2>2. (0 * Frame + x) \div Frame = 0
    BY <1>1, <2>1, Quotient
  <2>3. 0 * Frame + x = x
    BY <1>1
  <2> QED BY <2>2, <2>3
<1>4. ASSUME x \div Frame = 0 PROVE x < Frame
  BY <1>1, <1>2, <1>4
<1>5. ASSUME Frame <= x, x < 2 * Frame PROVE x \div Frame = 1
  <2> DEFINE r == x - Frame
  <2>1. r \in 0 .. Frame - 1
    BY <1>1, <1>5
  <2> HIDE DEF r
  <2>2. (1 * Frame + r) \div Frame = 1
    BY <1>1, <2>1, Quotient
  <2>3. 1 * Frame + r = x
    BY <1>1 DEF r
  <2> QED BY <2>2, <2>3
<1> QED
  BY <1>3, <1>4, <1>5

\* A block that does not cross is within its frame.
LEMMA StaysInFrame ==
  ASSUME NEW f \in 0 .. (Frame - 1), NEW n \in Nat, n >= 1, ~Crosses(f, n)
  PROVE  f \div Frame = (f + Part(n) - 1) \div Frame
<1> DEFINE k == IF n < Frame THEN n ELSE Frame - 1
<1>1. Frame \in Nat /\ Frame > 0 /\ k \in Nat /\ f \in Nat /\ f + k \in Nat
  BY PageConstants
<1>2. f \div Frame = 0 /\ (f + k) \div Frame = 0
  BY <1>1, Frames DEF Crosses
<1>3. f + k < Frame
  BY <1>1, <1>2, Frames
<1>4. f + Part(n) - 1 \in Nat /\ f + Part(n) - 1 < Frame
  BY <1>1, <1>3 DEF Part
<1> QED
  BY <1>2, <1>4, Frames

\* A block that crosses is moved to the start of the next frame, within
\* the region that was taken for it.
LEMMA MovesToFrame ==
  ASSUME NEW f \in 0 .. (Frame - 1), NEW n \in Nat, n >= 1, Crosses(f, n)
  PROVE  LET d == (f \div Frame + 1) * Frame - f
         IN  /\ d \in Nat /\ d + n <= WastefulSize(n)
             /\ (f + d) \div Frame = (f + d + Part(n) - 1) \div Frame
<1> DEFINE k == IF n < Frame THEN n ELSE Frame - 1
           d == (f \div Frame + 1) * Frame - f
<1>1. Frame \in Nat /\ Frame > 0 /\ k \in Nat /\ f \in Nat /\ f + k \in Nat
  BY PageConstants
<1>2. f \div Frame = 0 /\ (f + k) \div Frame # 0
  BY <1>1, Frames DEF Crosses
<1>3. f + k >= Frame /\ d = Frame - f
  BY <1>1, <1>2, Frames
<1>4. d \in Nat /\ d + n <= WastefulSize(n)
  BY <1>1, <1>3 DEF WastefulSize
<1>5. /\ f + d \in Nat /\ Frame <= f + d /\ f + d < 2 * Frame
      /\ f + d + Part(n) - 1 \in Nat /\ Frame <= f + d + Part(n) - 1
      /\ f + d + Part(n) - 1 < 2 * Frame
  BY <1>1, <1>3 DEF Part
<1>6. (f + d) \div Frame = 1 /\ (f + d + Part(n) - 1) \div Frame = 1
  <2> HIDE DEF d
  <2> QED BY <1>5, Frames
<1> QED
  BY <1>4, <1>6

-----------------------------------------------------------------------------
(***************************************************************************)
(* The list of base addresses, as a set of entries.                        *)
(***************************************************************************)
\* A non-empty set of natural numbers has a least element.
LEMMA MinNat ==
  ASSUME NEW S \in SUBSET Nat, S # {}
  PROVE  Min(S) \in S /\ \A y \in S : Min(S) <= y
<1> DEFINE R == OpToRel(<, Nat)
<1>1. IsWellFoundedOn(R, Nat)
  BY NatLessThanWellFounded
<1>2. \A x, y \in Nat : <<x, y>> \in R <=> x < y
  BY DEF OpToRel
<1> HIDE DEF R
<1>3. \E x \in S : \A y \in S : ~(<<y, x>> \in R)
  BY <1>1, WFMin
<1>4. PICK x \in S : \A y \in S : ~(<<y, x>> \in R)
  BY <1>3
<1>5. ASSUME NEW y \in S PROVE x <= y
  <2>1. x \in Nat /\ y \in Nat /\ ~(y < x)
    BY <1>2, <1>4
  <2> QED BY <2>1
<1> QED
  BY <1>5 DEF Min

\* RemoveAt takes one element out and keeps the order of the others.
LEMMA RemoveAtList ==
  ASSUME NEW S, NEW s \in Seq(S), NEW i \in 1 .. Len(s)
  PROVE  /\ RemoveAt(s, i) \in Seq(S) /\ Len(RemoveAt(s, i)) = Len(s) - 1
         /\ \A j \in 1 .. (Len(s) - 1) :
               RemoveAt(s, i)[j] = IF j < i THEN s[j] ELSE s[j + 1]
<1> DEFINE u == SubSeq(s, 1, i - 1)
           v == SubSeq(s, i + 1, Len(s))
<1>1. Len(s) \in Nat /\ i \in Nat /\ 1 <= i /\ i <= Len(s)
  OBVIOUS
<1>2. u \in Seq(S) /\ Len(u) = i - 1 /\ \A j \in 1 .. (i - 1) : u[j] = s[j]
  BY <1>1
<1>3. v \in Seq(S) /\ Len(v) = Len(s) - i /\ \A j \in 1 .. (Len(s) - i) : v[j] = s[i + j]
  BY <1>1
<1> HIDE DEF u, v
<1>4. /\ u \o v \in Seq(S) /\ Len(u \o v) = Len(s) - 1
      /\ \A j \in 1 .. (Len(s) - 1) :
            (u \o v)[j] = IF j < i THEN s[j] ELSE s[j + 1]
  <2>1. u \o v \in Seq(S) /\ Len(u \o v) = Len(s) - 1
    <3>0. u \in Seq(S) /\ v \in Seq(S)
      BY <1>2, <1>3
    <3>1. u \o v \in Seq(S)
      BY <3>0
    <3>3. Len(u \o v) = Len(u) + Len(v)
      BY <3>0
    <3>2. Len(u) + Len(v) = Len(s) - 1
      BY <1>1, <1>2, <1>3
    <3> QED BY <3>1, <3>2, <3>3
  <2>2. ASSUME NEW j \in 1 .. (Len(s) - 1), j < i PROVE (u \o v)[j] = s[j]
    <3>1. j \in 1 .. Len(u)
      BY <1>1, <1>2, <2>2
    <3>2. (u \o v)[j] = u[j]
      BY <1>2, <1>3, <3>1
    <3> QED BY <1>2, <3>1, <3>2
  <2>3. ASSUME NEW j \in 1 .. (Len(s) - 1), ~(j < i) PROVE (u \o v)[j] = s[j + 1]
    <3>1. (u \o v)[j] = v[j - Len(u)] /\ j - Len(u) \in 1 .. (Len(s) - i)
      BY <1>1, <1>2, <1>3, <2>3
    <3>2. i + (j - Len(u)) = j + 1
      BY <1>1, <1>2
    <3> QED BY <1>3, <3>1, <3>2
  <2> QED BY <2>1, <2>2, <2>3
<1> QED
  BY <1>4 DEF RemoveAt, u, v

\* The parts of a memory.
LEMMA MemParts ==
  ASSUME NEW m, IsMem(m)
  PROVE  /\ m.list \in Seq(Entry) /\ Len(m.list) \in Nat /\ DOMAIN m.list = 1 .. Len(m.list)
         /\ m.heap \in Nat /\ m.used \in Int /\ m.missed \in SUBSET Pages
         /\ m = [vm |-> m.vm, list |-> m.list, heap |-> m.heap, used |-> m.used,
                 missed |-> m.missed]
         /\ Entries(m) \subseteq Entry
<1>1. m \in [vm : {m.vm}, list : Seq(Entry), heap : Nat, used : Int, missed : SUBSET Pages]
  BY DEF IsMem
<1>2. m.list \in Seq(Entry)
  BY <1>1
<1> QED
  BY <1>1, <1>2 DEF Entries

\* The entry found for an address is one of the list.
LEMMA RecordedEntry ==
  ASSUME NEW m, IsMem(m), NEW addr
  PROVE  /\ Hits(m, addr) = {} <=> \A e \in Entries(m) : e.retaddr # addr
         /\ Hits(m, addr) = {} =>
               Recorded(m, addr) = [base |-> addr, retaddr |-> addr, size |-> 0]
         /\ Hits(m, addr) # {} =>
               /\ Recorded(m, addr) \in Entries(m) /\ Recorded(m, addr).retaddr = addr
               /\ Min(Hits(m, addr)) \in 1 .. Len(m.list)
               /\ m.list[Min(Hits(m, addr))].retaddr = addr
<1>1. DOMAIN m.list = 1 .. Len(m.list) /\ Len(m.list) \in Nat
  BY MemParts
<1>2. Hits(m, addr) \in SUBSET Nat
  BY <1>1 DEF Hits
<1>3. ASSUME Hits(m, addr) # {} PROVE Min(Hits(m, addr)) \in Hits(m, addr)
  BY <1>2, <1>3, MinNat
<1> QED
  BY <1>1, <1>3 DEF Hits, Recorded, Entries

\* Unlink takes the entry of an address out and nothing else.
LEMMA Unlinked ==
  ASSUME NEW m, IsMem(m), NoTwice(m), NEW addr
  PROVE  LET u == Unlink(m, addr)
         IN  /\ IsMem(u) /\ NoTwice(u)
             /\ u.vm = m.vm /\ u.heap = m.heap /\ u.used = m.used /\ u.missed = m.missed
             /\ Entries(u) = {e \in Entries(m) : e.retaddr # addr}
             /\ Len(u.list) = IF Hits(m, addr) = {} THEN Len(m.list) ELSE Len(m.list) - 1
<1>1. CASE Hits(m, addr) = {}
  BY <1>1, RecordedEntry DEF Unlink
<1>2. CASE Hits(m, addr) # {}
  <2> DEFINE i == Min(Hits(m, addr))
             s == m.list
             t == RemoveAt(s, i)
             u == Unlink(m, addr)
  <2>1. i \in 1 .. Len(s) /\ s[i].retaddr = addr
    BY <1>2, RecordedEntry
  <2>2. s \in Seq(Entry) /\ Len(s) \in Nat
    BY MemParts
  <2>3. /\ t \in Seq(Entry) /\ Len(t) = Len(s) - 1
        /\ \A j \in 1 .. (Len(s) - 1) : t[j] = IF j < i THEN s[j] ELSE s[j + 1]
    <3> HIDE DEF i, s
    <3> QED BY <2>1, <2>2, RemoveAtList
  <2>4. u = [vm |-> m.vm, list |-> t, heap |-> m.heap, used |-> m.used,
             missed |-> m.missed]
    BY <1>2, MemParts DEF Unlink
  <2>5. IsMem(u)
    <3> HIDE DEF t, u
    <3> QED BY <2>3, <2>4, MemParts DEF IsMem
  <2>6. \A j, k \in 1 .. Len(s) : s[j].retaddr = s[k].retaddr => j = k
    BY DEF NoTwice
  <2> HIDE DEF t, i, s
  <2>7. \A j, k \in 1 .. Len(t) : t[j].retaddr = t[k].retaddr => j = k
    <3> SUFFICES ASSUME NEW j \in 1 .. Len(t), NEW k \in 1 .. Len(t),
                        t[j].retaddr = t[k].retaddr
                 PROVE  j = k
      OBVIOUS
    <3>1. j \in 1 .. (Len(s) - 1) /\ k \in 1 .. (Len(s) - 1)
      BY <2>2, <2>3
    <3>2. t[j] = (IF j < i THEN s[j] ELSE s[j + 1]) /\ t[k] = (IF k < i THEN s[k] ELSE s[k + 1])
      BY <2>3, <3>1
    <3> QED BY <2>1, <2>2, <2>6, <3>1, <3>2
  <2>8. {t[j] : j \in 1 .. Len(t)} = {e \in {s[k] : k \in 1 .. Len(s)} : e.retaddr # addr}
    <3>1. ASSUME NEW j \in 1 .. Len(t)
          PROVE  \E k \in 1 .. Len(s) : t[j] = s[k] /\ s[k].retaddr # addr
      <4>1. j \in 1 .. (Len(s) - 1)
        BY <2>2, <2>3
      <4>2. CASE j < i
        BY <2>1, <2>2, <2>3, <2>6, <4>1, <4>2
      <4>3. CASE j >= i
        <5>1. j + 1 \in 1 .. Len(s) /\ t[j] = s[j + 1] /\ j + 1 # i
          BY <2>1, <2>2, <2>3, <4>1, <4>3
        <5> QED BY <2>1, <2>6, <5>1
      <4> QED BY <2>1, <4>1, <4>2, <4>3
    <3>2. ASSUME NEW k \in 1 .. Len(s), s[k].retaddr # addr
          PROVE  \E j \in 1 .. Len(t) : t[j] = s[k]
      <4>1. k # i
        BY <2>1, <3>2
      <4>2. CASE k < i
        BY <2>1, <2>2, <2>3, <4>2
      <4>3. CASE k > i
        <5>1. k - 1 \in 1 .. Len(t) /\ t[k - 1] = s[k]
          BY <2>1, <2>2, <2>3, <4>3
        <5> QED BY <5>1
      <4> QED BY <2>1, <4>1, <4>2, <4>3
    <3>3. ASSUME NEW e PROVE (\E j \in 1 .. Len(t) : e = t[j]) <=>
                             (\E k \in 1 .. Len(s) : e = s[k]) /\ e.retaddr # addr
      <4>1. ASSUME NEW j \in 1 .. Len(t), e = t[j]
            PROVE  (\E k \in 1 .. Len(s) : e = s[k]) /\ e.retaddr # addr
        BY <3>1, <4>1, Zenon
      <4>2. ASSUME NEW k \in 1 .. Len(s), e = s[k], e.retaddr # addr
            PROVE  \E j \in 1 .. Len(t) : e = t[j]
        BY <3>2, <4>2, Zenon
      <4> QED BY <4>1, <4>2, Zenon
    <3> DEFINE A == {t[j] : j \in 1 .. Len(t)}
               B == {s[k] : k \in 1 .. Len(s)}
               C == {e \in B : e.retaddr # addr}
    <3>4. ASSUME NEW e PROVE e \in A <=> e \in C
      <4>1. (e \in A <=> \E j \in 1 .. Len(t) : e = t[j])
            /\ (e \in B <=> \E k \in 1 .. Len(s) : e = s[k])
        BY Zenon
      <4>2. e \in C <=> e \in B /\ e.retaddr # addr
        <5> HIDE DEF B
        <5> QED BY Zenon
      <4> HIDE DEF A, B, C
      <4> QED BY <3>3, <4>1, <4>2, Zenon
    <3>5. A = C
      <4> HIDE DEF A, C
      <4> QED BY <3>4
    <3> QED BY <3>5
  <2>9. u.vm = m.vm /\ u.list = t /\ u.heap = m.heap /\ u.used = m.used /\ u.missed = m.missed
    <3> HIDE DEF u
    <3> QED BY <2>4
  <2>10. NoTwice(u) /\ Entries(u) = {e \in Entries(m) : e.retaddr # addr}
    <3> HIDE DEF u
    <3>1. NoTwice(u)
      BY <2>7, <2>9 DEF NoTwice
    <3>2. Entries(u) = {t[j] : j \in 1 .. Len(t)}
      BY <2>9 DEF Entries
    <3>3. Entries(m) = {s[k] : k \in 1 .. Len(s)}
      BY DEF Entries, s
    <3> QED BY <2>8, <3>1, <3>2, <3>3, Zenon
  <2> QED
    BY <1>2, <2>3, <2>5, <2>9, <2>10 DEF s
<1> QED
  BY <1>1, <1>2

\* An entry is put in front of the list, or the region is missed.
LEMMA Added ==
  ASSUME NEW m, IsMem(m), NoTwice(m), NEW a \in DOMAIN m.vm, NEW p \in 0 .. (Space - 1),
         NEW s \in 1 .. Space, \A e \in Entries(m) : e.retaddr # p
  PROVE  LET u == AddBaseAddress(m, a, p, s)
             e == [base |-> a, retaddr |-> p, size |-> s]
         IN  /\ IsMem(u) /\ NoTwice(u) /\ u.vm = m.vm /\ u.used = m.used
             /\ \/ /\ u.missed = m.missed /\ Entries(u) = Entries(m) \cup {e}
                   /\ u.heap + Len(u.list) = m.heap + Len(m.list)
                \/ /\ u.missed = m.missed \cup {a} /\ Entries(u) = Entries(m)
                   /\ u.heap + Len(u.list) = m.heap + Len(m.list)
<1> DEFINE e == [base |-> a, retaddr |-> p, size |-> s]
           u == AddBaseAddress(m, a, p, s)
           t == <<e>> \o m.list
<1>1. a \in Pages /\ e \in Entry
  BY DEF IsMem, Entry
<1>2. CASE m.heap = 0
  <2>1. u = [vm |-> m.vm, list |-> m.list, heap |-> m.heap, used |-> m.used,
             missed |-> m.missed \cup {a}]
    <3> DEFINE r == [vm |-> m.vm, list |-> m.list, heap |-> m.heap, used |-> m.used,
                     missed |-> m.missed]
    <3>1. u = [m EXCEPT !.missed = @ \cup {a}] /\ m = r
      BY <1>2, MemParts DEF AddBaseAddress
    <3>2. u = [r EXCEPT !.missed = m.missed \cup {a}]
      BY <3>1
    <3> QED BY <3>2
  <2>2. IsMem(u)
    <3> HIDE DEF u
    <3> QED BY <1>1, <2>1, MemParts DEF IsMem
  <2> QED
    BY <2>1, <2>2 DEF Entries, NoTwice
<1>3. CASE m.heap # 0
  <2>1. m.heap \in Nat /\ m.list \in Seq(Entry) /\ Len(m.list) \in Nat
    BY MemParts
  <2>2. u = [vm |-> m.vm, list |-> t, heap |-> m.heap - 1, used |-> m.used,
             missed |-> m.missed]
    <3> DEFINE r == [vm |-> m.vm, list |-> m.list, heap |-> m.heap, used |-> m.used,
                     missed |-> m.missed]
    <3>1. u = [m EXCEPT !.list = t, !.heap = m.heap - 1] /\ m = r
      BY <1>3, MemParts DEF AddBaseAddress
    <3> HIDE DEF t
    <3>2. u = [r EXCEPT !.list = t, !.heap = m.heap - 1]
      BY <3>1
    <3> QED BY <3>2
  <2>3. /\ t \in Seq(Entry) /\ Len(t) = Len(m.list) + 1 /\ t[1] = e
        /\ \A j \in 1 .. Len(m.list) : t[j + 1] = m.list[j]
    <3> HIDE DEF e
    <3> QED BY <1>1, <2>1
  <2>4. IsMem(u)
    <3> HIDE DEF t, u
    <3> QED BY <1>3, <2>1, <2>2, <2>3, MemParts DEF IsMem
  <2> HIDE DEF t
  <2>5. ASSUME NEW j \in 1 .. Len(t)
        PROVE  (j = 1 /\ t[j] = e) \/ (j - 1 \in 1 .. Len(m.list) /\ t[j] = m.list[j - 1])
    BY <2>1, <2>3
  <2>6. \A j, k \in 1 .. Len(t) : t[j].retaddr = t[k].retaddr => j = k
    <3> SUFFICES ASSUME NEW j \in 1 .. Len(t), NEW k \in 1 .. Len(t),
                        t[j].retaddr = t[k].retaddr
                 PROVE  j = k
      OBVIOUS
    <3>1. \A i \in 1 .. Len(m.list) : m.list[i].retaddr # e.retaddr
      BY DEF Entries
    <3>2. \A i, h \in 1 .. Len(m.list) : m.list[i].retaddr = m.list[h].retaddr => i = h
      BY DEF NoTwice
    <3> HIDE DEF e
    <3>0. j \in Int /\ k \in Int
      OBVIOUS
    <3>3. CASE t[j] = e \/ t[k] = e
      BY <2>5, <3>1, <3>3
    <3>4. CASE t[j] # e /\ t[k] # e
      <4> DEFINE g == j - 1
                 h == k - 1
      <4>1. g \in 1 .. Len(m.list) /\ t[j] = m.list[g] /\ h \in 1 .. Len(m.list) /\ t[k] = m.list[h]
        BY <2>5, <3>4
      <4>2. g = h
        <5> HIDE DEF g, h
        <5> QED BY <3>2, <4>1
      <4> QED BY <3>0, <4>2
    <3> QED BY <3>3, <3>4
  <2>7. {t[j] : j \in 1 .. Len(t)} = {m.list[i] : i \in 1 .. Len(m.list)} \cup {e}
    <3> HIDE DEF e
    <3>1. \A j \in 1 .. Len(t) : t[j] \in {m.list[i] : i \in 1 .. Len(m.list)} \cup {e}
      BY <2>5
    <3>2. ASSUME NEW i \in 1 .. Len(m.list) PROVE \E j \in 1 .. Len(t) : t[j] = m.list[i]
      <4>1. i + 1 \in 1 .. Len(t) /\ t[i + 1] = m.list[i]
        BY <2>1, <2>3
      <4> QED BY <4>1
    <3>3. 1 \in 1 .. Len(t) /\ t[1] = e
      BY <2>1, <2>3
    <3>4. ASSUME NEW x \in {m.list[i] : i \in 1 .. Len(m.list)} \cup {e}
          PROVE  x \in {t[j] : j \in 1 .. Len(t)}
      BY <3>2, <3>3, Zenon
    <3>5. ASSUME NEW x \in {t[j] : j \in 1 .. Len(t)}
          PROVE  x \in {m.list[i] : i \in 1 .. Len(m.list)} \cup {e}
      BY <3>1, Zenon
    <3> QED BY <3>4, <3>5, Zenon
  <2>8. u.vm = m.vm /\ u.list = t /\ u.heap = m.heap - 1 /\ u.used = m.used /\ u.missed = m.missed
    <3> HIDE DEF u
    <3> QED BY <2>2
  <2>9. NoTwice(u) /\ Entries(u) = Entries(m) \cup {e}
    <3> HIDE DEF u, e
    <3>1. NoTwice(u)
      BY <2>6, <2>8 DEF NoTwice
    <3>2. Entries(u) = {t[j] : j \in 1 .. Len(t)}
      BY <2>8 DEF Entries
    <3>3. Entries(m) = {m.list[i] : i \in 1 .. Len(m.list)}
      BY DEF Entries
    <3> QED BY <2>7, <3>1, <3>2, <3>3, Zenon
  <2>10. u.heap + Len(u.list) = m.heap + Len(m.list)
    <3>1. u.heap = m.heap - 1 /\ Len(u.list) = Len(m.list) + 1
      BY <2>3, <2>8
    <3> HIDE DEF u
    <3> QED BY <2>1, <3>1
  <2> QED
    BY <2>4, <2>8, <2>9, <2>10
<1> QED
  BY <1>2, <1>3

-----------------------------------------------------------------------------
(***************************************************************************)
(* What the calls do to the regions and the blocks.                        *)
(***************************************************************************)
\* The regions with one more at a, and without the one at a.
VmPlus(v, a, s, f) ==
    [b \in DOMAIN v \cup {a} |-> IF b = a THEN [size |-> s, phys |-> f] ELSE v[b]]
VmMinus(v, a) == [b \in DOMAIN v \ {a} |-> v[b]]

\* The blocks with one more at p, and without the one at p.
BlocksPlus(bs, p, b) == [q \in DOMAIN bs \cup {p} |-> IF q = p THEN b ELSE bs[q]]
BlocksMinus(bs, p) == [q \in DOMAIN bs \ {p} |-> bs[q]]

\* The numbers of a region.
LEMMA RegionNumbers ==
  ASSUME NEW m, IsMem(m), NEW a \in DOMAIN m.vm
  PROVE  /\ a \in Nat /\ a < Space /\ a \in Pages
         /\ m.vm[a].size \in Nat /\ m.vm[a].size >= 1 /\ m.vm[a].phys \in Int
         /\ m.vm[a].size <= Space /\ m.vm[a].phys \in NoPhys .. (Frame - 1)
         /\ m.vm[a] \in Region
<1>1. m.vm[a] \in Region /\ a \in Pages
  BY DEF IsMem
<1> QED
  BY <1>1, PageConstants DEF Region, Pages, NoPhys

\* ... and of a block in pages.
LEMMA BlockNumbers ==
  ASSUME NEW bs, AreBlocks(bs), NEW p \in InPages(bs)
  PROVE  /\ p \in DOMAIN bs /\ p \in Nat /\ p < Space /\ bs[p] \in BlockType
         /\ bs[p].size \in Nat /\ bs[p].size >= 1
<1>1. bs[p] \in BlockType
  BY DEF AreBlocks, InPages
<1> QED
  BY <1>1, PageConstants DEF AreBlocks, InPages, BlockType

\* An address lies in one region at most.
LEMMA OneRegion ==
  ASSUME NEW m, IsMem(m), RegionsApart(m), NEW x \in Int,
         NEW a \in DOMAIN m.vm, a <= x, x < a + m.vm[a].size,
         NEW b \in DOMAIN m.vm, b <= x, x < b + m.vm[b].size
  PROVE  a = b
<1>1. /\ a \in Nat /\ m.vm[a].size \in Nat /\ b \in Nat /\ m.vm[b].size \in Nat
  BY RegionNumbers
<1>2. (a < b => a + m.vm[a].size <= b) /\ (b < a => b + m.vm[b].size <= a)
  BY DEF RegionsApart
<1> QED
  BY <1>1, <1>2

\* ... and so does a block.
LEMMA OneRegionOfBlock ==
  ASSUME NEW m, NEW bs, IsMem(m), RegionsApart(m), AreBlocks(bs), NEW p \in InPages(bs),
         NEW a, In(m, bs, p, a), NEW b, In(m, bs, p, b)
  PROVE  a = b
<1>1. p \in Nat /\ bs[p].size \in Nat /\ bs[p].size >= 1
  BY BlockNumbers
<1>2. a \in DOMAIN m.vm /\ b \in DOMAIN m.vm /\ a <= p /\ b <= p
      /\ p + bs[p].size <= a + m.vm[a].size /\ p + bs[p].size <= b + m.vm[b].size
  BY DEF In
<1>3. a \in Nat /\ m.vm[a].size \in Nat /\ b \in Nat /\ m.vm[b].size \in Nat
  BY <1>2, RegionNumbers
<1>4. p < a + m.vm[a].size /\ p < b + m.vm[b].size
  BY <1>1, <1>2, <1>3
<1> QED
  BY <1>1, <1>2, <1>4, OneRegion

\* Two ranges that are apart have no address in common.
LEMMA NoCommon ==
  ASSUME NEW a \in Int, NEW s \in Int, NEW c \in Int, NEW t \in Int, NEW q \in Int,
         a + s <= c \/ c + t <= a, a <= q, q < a + s, c <= q, q < c + t
  PROVE  FALSE
OBVIOUS

\* What leaves one part and comes to the other does not change the sum.
LEMMA Regroup ==
  ASSUME NEW x \in Int, NEW y \in Int, NEW u \in Int, NEW v \in Int, NEW k \in Int,
         NEW h \in Int, x + y <= u + v, u + k + v <= h
  PROVE  x + k + y <= h
OBVIOUS

\* The blocks in the private heap can be counted.
LEMMA HeapCount ==
  ASSUME NEW bs, AreBlocks(bs)
  PROVE  /\ InHeapOf(bs) \subseteq HeapAddrs /\ IsFiniteSet(HeapAddrs)
         /\ Cardinality(HeapAddrs) = HeapSlots
         /\ IsFiniteSet(InHeapOf(bs)) /\ Cardinality(InHeapOf(bs)) \in Nat
<1>1. Space \in Nat /\ HeapSlots \in Nat
  BY PageConstants
<1>2. IsFiniteSet(HeapAddrs) /\ Cardinality(HeapAddrs) = HeapSlots
  <2>1. IsFiniteSet(HeapAddrs)
        /\ Cardinality(HeapAddrs) = IF Space > Space + HeapSlots - 1 THEN 0
                                    ELSE (Space + HeapSlots - 1) - Space + 1
    BY <1>1, FS_Interval DEF HeapAddrs
  <2> QED
    BY <1>1, <2>1
<1>3. InHeapOf(bs) \subseteq HeapAddrs
  BY <1>1 DEF InHeapOf, AreBlocks, HeapAddrs
<1> QED
  BY <1>2, <1>3, FS_Subset, FS_CardinalityType

\* The private heap has room as long as nothing more is taken from it.
LEMMA RoomKept ==
  ASSUME NEW m, NEW n, NEW bs, NEW cs, IsMem(m), IsMem(n), AreBlocks(bs), HeapRoom(m, bs),
         InHeapOf(cs) = InHeapOf(bs), n.heap + Len(n.list) <= m.heap + Len(m.list)
  PROVE  HeapRoom(n, cs)
<1> DEFINE k == Cardinality(InHeapOf(bs))
           x == n.heap
           y == Len(n.list)
           u == m.heap
           v == Len(m.list)
<1>1. m.heap \in Nat /\ n.heap \in Nat /\ Len(m.list) \in Nat /\ Len(n.list) \in Nat
  BY MemParts
<1>2. /\ x \in Int /\ y \in Int /\ u \in Int /\ v \in Int /\ k \in Int /\ HeapSlots \in Int
      /\ x + y <= u + v /\ u + k + v <= HeapSlots
  BY <1>1, HeapCount, PageConstants DEF HeapRoom
<1>3. x + k + y <= HeapSlots
  <2> HIDE DEF k, x, y, u, v
  <2> QED BY <1>2, Regroup
<1> QED
  BY <1>3 DEF HeapRoom

\* Nothing moves: the regions and the blocks in pages are the same, and at
\* most entries of kmalloc's blocks are lost.
LEMMA SameGood ==
  ASSUME NEW m, NEW bs, Good(m, bs), NEW n, NEW cs, IsMem(n), NoTwice(n),
         n.vm = m.vm, n.missed = m.missed, Entries(n) \subseteq Entries(m),
         \A e \in Entries(m) \ Entries(n) : bs[e.retaddr].kind = "kmalloc",
         AreBlocks(cs), InPages(cs) = InPages(bs),
         \A p \in InPages(bs) : cs[p].size = bs[p].size /\ cs[p].kind = bs[p].kind,
         HeapRoom(n, cs)
  PROVE  Good(n, cs)
<1>1. \A p \in InPages(bs) : \A a : In(n, cs, p, a) <=> In(m, bs, p, a)
  BY DEF In
<1>2. RegionsApart(n)
  BY DEF Good, RegionsApart
<1>3. Housed(n, cs)
  BY <1>1 DEF Good, Housed
<1>4. EntriesTrue(n, cs)
  <2> SUFFICES ASSUME NEW e \in Entries(n)
               PROVE  /\ e.retaddr \in InPages(cs) /\ cs[e.retaddr].kind # "io"
                      /\ In(n, cs, e.retaddr, e.base) /\ e.size = n.vm[e.base].size
    BY DEF EntriesTrue
  <2>1. /\ e.retaddr \in InPages(bs) /\ bs[e.retaddr].kind # "io"
        /\ In(m, bs, e.retaddr, e.base) /\ e.size = m.vm[e.base].size
    BY DEF Good, EntriesTrue
  <2> QED
    BY <1>1, <2>1
<1>5. Found(n, cs)
  <2> SUFFICES ASSUME NEW p \in InPages(bs), NEW a \in DOMAIN m.vm, In(m, bs, p, a)
               PROVE  /\ bs[p].kind = "io" => a = (p \div PAGE_SIZE) * PAGE_SIZE
                      /\ bs[p].kind = "kmalloc" => a = p
                      /\ bs[p].kind \in {"dma", "pages"} =>
                            a = p \/ a \in m.missed \/ \E e \in Entries(n) : e.retaddr = p
    BY <1>1 DEF Found
  <2>1. /\ bs[p].kind = "io" => a = (p \div PAGE_SIZE) * PAGE_SIZE
        /\ bs[p].kind = "kmalloc" => a = p
        /\ bs[p].kind \in {"dma", "pages"} =>
              a = p \/ a \in m.missed \/ \E e \in Entries(m) : e.retaddr = p
    BY DEF Good, Found
  <2>2. \A e \in Entries(m) : bs[e.retaddr].kind # "kmalloc" => e \in Entries(n)
    OBVIOUS
  <2> QED
    BY <2>1, <2>2
<1>6. Framed(n, cs)
  <2>1. Framed(m, bs)
    BY DEF Good
  <2> QED
    BY <1>1, <2>1 DEF Framed
<1> QED
  BY <1>2, <1>3, <1>4, <1>5, <1>6 DEF Good

\* The books after a region a of size s was taken for a block of kind k at
\* p: an entry, a missed region, or neither.
Booked(m, n, a, s, p, k) ==
    \/ /\ n.missed = m.missed /\ k # "io"
       /\ Entries(n) = Entries(m) \cup {[base |-> a, retaddr |-> p, size |-> s]}
    \/ n.missed = m.missed \cup {a} /\ Entries(n) = Entries(m)
    \/ /\ n.missed = m.missed /\ Entries(n) = Entries(m)
       /\ k \in {"dma", "pages"} => p = a

\* How a block at p in the region a with physical offset f must lie.
Lies(a, f, p, b) ==
    /\ b.kind = "io" => a = (p \div PAGE_SIZE) * PAGE_SIZE
    /\ b.kind = "kmalloc" => a = p
    /\ b.kind = "dma" /\ f # NoPhys =>
          (f + (p - a)) \div Frame = (f + (p - a) + Part(b.size) - 1) \div Frame

\* A free range has no block in it.
LEMMA FreeOfBlocks ==
  ASSUME NEW m, NEW bs, Good(m, bs), NEW s \in Nat, NEW a \in FreeRanges(m, s),
         NEW q \in InPages(bs)
  PROVE  ~(a <= q /\ q < a + s)
<1> SUFFICES ASSUME a <= q, q < a + s PROVE FALSE
  OBVIOUS
<1>1. IsMem(m) /\ AreBlocks(bs) /\ a \in Nat
  BY PageConstants DEF Good, FreeRanges, Pages
<1>2. PICK c \in DOMAIN m.vm : In(m, bs, q, c)
  BY DEF Good, Housed
<1>3. c \in Nat /\ m.vm[c].size \in Nat /\ q \in Nat /\ bs[q].size \in Nat /\ bs[q].size >= 1
  BY <1>1, RegionNumbers, BlockNumbers
<1>4. c <= q /\ q + bs[q].size <= c + m.vm[c].size
  BY <1>2 DEF In
<1>5. q < c + m.vm[c].size
  BY <1>3, <1>4
<1>6. a + s <= c \/ c + m.vm[c].size <= a
  BY DEF FreeRanges
<1>7. a \in Int /\ s \in Int /\ c \in Int /\ q \in Int /\ m.vm[c].size \in Int
  BY <1>1, <1>3
<1> QED
  BY <1>4, <1>5, <1>6, <1>7, NoCommon

\* A new region with a new block in it.
LEMMA Grow ==
  ASSUME NEW m, NEW bs, Good(m, bs), NEW s \in 1 .. Space, NEW a \in FreeRanges(m, s),
         NEW f \in NoPhys .. (Frame - 1), NEW b \in BlockType, b.size >= 1,
         NEW p \in Nat, a <= p, p + b.size <= a + s, Lies(a, f, p, b),
         NEW n, IsMem(n), NoTwice(n), n.vm = VmPlus(m.vm, a, s, f),
         n.heap + Len(n.list) = m.heap + Len(m.list), Booked(m, n, a, s, p, b.kind)
  PROVE  Good(n, BlocksPlus(bs, p, b)) /\ p \notin DOMAIN bs
<1> DEFINE cs == BlocksPlus(bs, p, b)
<1>0. /\ IsMem(m) /\ AreBlocks(bs) /\ RegionsApart(m) /\ Housed(m, bs)
      /\ EntriesTrue(m, bs) /\ Found(m, bs) /\ Framed(m, bs) /\ HeapRoom(m, bs)
  BY DEF Good
<1>1. /\ Space \in Nat /\ HeapSlots \in Nat /\ a \in Nat /\ a \in Pages /\ s \in Nat /\ s >= 1
      /\ b.size \in Nat /\ a + s <= Space /\ p < Space /\ f \in Int
  BY PageConstants DEF FreeRanges, Pages, BlockType, NoPhys
<1>2. \A c \in DOMAIN m.vm : a + s <= c \/ c + m.vm[c].size <= a
  BY DEF FreeRanges
<1>3. \A c \in DOMAIN m.vm : c # a
  BY <1>0, <1>1, <1>2, RegionNumbers
<1>4. /\ DOMAIN n.vm = DOMAIN m.vm \cup {a} /\ n.vm[a] = [size |-> s, phys |-> f]
      /\ \A c \in DOMAIN m.vm : n.vm[c] = m.vm[c]
  BY <1>3 DEF VmPlus
<1>5. n.vm[a].size = s /\ n.vm[a].phys = f
  BY <1>4
<1>6. \A q \in InPages(bs) : ~(a <= q /\ q < a + s)
  BY <1>1, FreeOfBlocks
<1>7. p \notin DOMAIN bs
  BY <1>1, <1>6 DEF InPages
<1>8. /\ DOMAIN cs = DOMAIN bs \cup {p} /\ cs[p] = b
      /\ \A q \in DOMAIN bs : cs[q] = bs[q]
  BY <1>7 DEF BlocksPlus
<1> HIDE DEF cs
<1>9. InPages(cs) = InPages(bs) \cup {p}
  BY <1>1, <1>8 DEF InPages
<1>10. AreBlocks(cs)
  <2>1. DOMAIN cs \subseteq 0 .. (Space + HeapSlots - 1)
    BY <1>0, <1>1, <1>8 DEF AreBlocks
  <2>2. cs \in [DOMAIN cs -> BlockType]
    <3>1. bs \in [DOMAIN bs -> BlockType]
      BY <1>0 DEF AreBlocks
    <3> QED BY <1>8, <3>1 DEF cs, BlocksPlus
  <2>3. \A q \in DOMAIN cs : q < Space => cs[q].size >= 1
    BY <1>0, <1>8 DEF AreBlocks
  <2>4. ~(p >= Space)
    BY <1>1
  <2>5. \A q \in DOMAIN cs : q >= Space => cs[q].kind = "kmalloc"
    BY <1>0, <1>8, <2>4 DEF AreBlocks
  <2> QED
    BY <2>1, <2>2, <2>3, <2>5 DEF AreBlocks
<1>11. \A c : In(n, cs, p, c) <=> c = a
  <2>1. In(n, cs, p, a)
    BY <1>4, <1>5, <1>8 DEF In
  <2>2. ASSUME NEW c \in DOMAIN m.vm, In(n, cs, p, c) PROVE FALSE
    <3>1. c <= p /\ p + b.size <= c + m.vm[c].size
      BY <1>4, <1>8, <2>2 DEF In
    <3>2. c \in Nat /\ m.vm[c].size \in Nat
      BY <1>0, RegionNumbers
    <3>3. p < c + m.vm[c].size /\ p < a + s
      BY <1>1, <3>1, <3>2
    <3>4. a + s <= c \/ c + m.vm[c].size <= a
      BY <1>2
    <3>5. a \in Int /\ s \in Int /\ c \in Int /\ p \in Int /\ m.vm[c].size \in Int
      BY <1>1, <3>2
    <3> QED
      BY <3>1, <3>3, <3>4, <3>5, NoCommon
  <2> QED
    BY <1>4, <2>1, <2>2 DEF In
<1>12. \A q \in InPages(bs) : \A c : In(n, cs, q, c) <=> In(m, bs, q, c)
  <2> SUFFICES ASSUME NEW q \in InPages(bs), NEW c
               PROVE  In(n, cs, q, c) <=> In(m, bs, q, c)
    OBVIOUS
  <2>1. cs[q] = bs[q] /\ q \in Nat /\ bs[q].size \in Nat /\ bs[q].size >= 1
    BY <1>0, <1>8, BlockNumbers
  <2>2. CASE c \in DOMAIN m.vm
    BY <1>4, <2>1, <2>2 DEF In
  <2>3. CASE c = a
    <3>1. ~In(m, bs, q, a)
      BY <1>3 DEF In
    <3>2. ASSUME In(n, cs, q, a) PROVE FALSE
      <4>1. a <= q /\ q + bs[q].size <= a + s
        BY <1>5, <2>1, <3>2 DEF In
      <4> QED BY <1>1, <1>6, <2>1, <4>1
    <3> QED BY <2>3, <3>1, <3>2
  <2> QED
    BY <1>4, <2>2, <2>3 DEF In
<1>13. RegionsApart(n)
  <2>1. \A c \in DOMAIN n.vm : c + n.vm[c].size <= Space
    BY <1>0, <1>1, <1>4, <1>5 DEF RegionsApart
  <2>2. ASSUME NEW c \in DOMAIN n.vm, NEW d \in DOMAIN n.vm, c < d
        PROVE  c + n.vm[c].size <= d
    <3>1. CASE c \in DOMAIN m.vm /\ d \in DOMAIN m.vm
      BY <1>0, <1>4, <2>2, <3>1 DEF RegionsApart
    <3>2. CASE c = a /\ d \in DOMAIN m.vm
      <4>1. d \in Nat /\ m.vm[d].size \in Nat
        BY <1>0, <3>2, RegionNumbers
      <4> QED BY <1>1, <1>2, <1>5, <2>2, <3>2, <4>1
    <3>3. CASE c \in DOMAIN m.vm /\ d = a
      <4>1. c \in Nat /\ m.vm[c].size \in Nat
        BY <1>0, <3>3, RegionNumbers
      <4> QED BY <1>1, <1>2, <1>4, <2>2, <3>3, <4>1
    <3>4. CASE c = a /\ d = a
      BY <1>1, <2>2, <3>4
    <3> QED BY <1>4, <3>1, <3>2, <3>3, <3>4
  <2> QED
    BY <2>1, <2>2 DEF RegionsApart
<1>14. Housed(n, cs)
  <2>1. ASSUME NEW q \in InPages(cs) PROVE \E c \in DOMAIN n.vm : In(n, cs, q, c)
    <3>1. CASE q = p
      BY <1>4, <1>11, <3>1
    <3>2. CASE q \in InPages(bs)
      BY <1>0, <1>4, <1>12, <3>2 DEF Housed
    <3> QED BY <1>9, <3>1, <3>2
  <2>2. ASSUME NEW q \in InPages(cs), NEW r \in InPages(cs), NEW c \in DOMAIN n.vm,
               In(n, cs, q, c), In(n, cs, r, c)
        PROVE  q = r
    <3>1. CASE q \in InPages(bs) /\ r \in InPages(bs)
      <4>1. In(m, bs, q, c) /\ In(m, bs, r, c) /\ c \in DOMAIN m.vm
        BY <1>12, <2>2, <3>1 DEF In
      <4> QED BY <1>0, <3>1, <4>1 DEF Housed
    <3>2. CASE q = p \/ r = p
      <4>1. c = a
        BY <1>11, <2>2, <3>2
      <4>2. q \notin InPages(bs) /\ r \notin InPages(bs)
        BY <1>3, <1>12, <2>2, <4>1 DEF In
      <4> QED BY <1>9, <4>2
    <3> QED BY <1>9, <3>1, <3>2
  <2>3. ASSUME NEW c \in DOMAIN n.vm \ n.missed
        PROVE  \E q \in InPages(cs) : In(n, cs, q, c)
    <3>1. CASE c = a
      BY <1>9, <1>11, <3>1
    <3>2. CASE c \in DOMAIN m.vm
      <4>1. c \notin m.missed
        BY <2>3 DEF Booked
      <4>2. \E q \in InPages(bs) : In(m, bs, q, c)
        BY <1>0, <3>2, <4>1 DEF Housed
      <4> QED BY <1>9, <1>12, <4>2
    <3> QED BY <1>4, <3>1, <3>2
  <2> QED
    BY <2>1, <2>2, <2>3 DEF Housed
<1>15. EntriesTrue(n, cs)
  <2> SUFFICES ASSUME NEW e \in Entries(n)
               PROVE  /\ e.retaddr \in InPages(cs) /\ cs[e.retaddr].kind # "io"
                      /\ In(n, cs, e.retaddr, e.base) /\ e.size = n.vm[e.base].size
    BY DEF EntriesTrue
  <2>1. CASE e \in Entries(m)
    <3>1. /\ e.retaddr \in InPages(bs) /\ bs[e.retaddr].kind # "io"
          /\ In(m, bs, e.retaddr, e.base) /\ e.size = m.vm[e.base].size
      BY <1>0, <2>1 DEF EntriesTrue
    <3>2. cs[e.retaddr] = bs[e.retaddr] /\ n.vm[e.base] = m.vm[e.base]
      BY <1>4, <1>8, <3>1 DEF In, InPages
    <3> QED
      BY <1>9, <1>12, <3>1, <3>2
  <2>2. CASE e = [base |-> a, retaddr |-> p, size |-> s] /\ b.kind # "io"
    <3>1. e.retaddr = p /\ e.base = a /\ e.size = s
      BY <2>2
    <3> QED
      BY <1>5, <1>8, <1>9, <1>11, <2>2, <3>1
  <2> QED
    BY <2>1, <2>2 DEF Booked
<1>16. Found(n, cs)
  <2> SUFFICES ASSUME NEW q \in InPages(cs), NEW c \in DOMAIN n.vm, In(n, cs, q, c)
               PROVE  /\ cs[q].kind = "io" => c = (q \div PAGE_SIZE) * PAGE_SIZE
                      /\ cs[q].kind = "kmalloc" => c = q
                      /\ cs[q].kind \in {"dma", "pages"} =>
                            c = q \/ c \in n.missed \/ \E e \in Entries(n) : e.retaddr = q
    BY DEF Found
  <2>1. CASE q = p
    <3>1. c = a /\ cs[q] = b
      BY <1>8, <1>11, <2>1
    <3>2. b.kind \in {"dma", "pages"} =>
             a = p \/ a \in n.missed \/ \E e \in Entries(n) : e.retaddr = p
      <4> DEFINE e0 == [base |-> a, retaddr |-> p, size |-> s]
      <4>1. e0.retaddr = p
        OBVIOUS
      <4>2. \/ e0 \in Entries(n) \/ a \in n.missed \/ (b.kind \in {"dma", "pages"} => p = a)
        BY DEF Booked
      <4> HIDE DEF e0
      <4> QED BY <4>1, <4>2
    <3> QED
      BY <2>1, <3>1, <3>2 DEF Lies
  <2>2. CASE q \in InPages(bs)
    <3>1. In(m, bs, q, c) /\ c \in DOMAIN m.vm /\ cs[q] = bs[q]
      BY <1>8, <1>12, <2>2 DEF In, InPages
    <3>2. m.missed \subseteq n.missed /\ Entries(m) \subseteq Entries(n)
      BY DEF Booked
    <3> QED
      BY <1>0, <2>2, <3>1, <3>2 DEF Found
  <2> QED
    BY <1>9, <2>1, <2>2
<1>17. Framed(n, cs)
  <2> SUFFICES ASSUME NEW q \in InPages(cs), NEW c \in DOMAIN n.vm, In(n, cs, q, c),
                      cs[q].kind = "dma", n.vm[c].phys # NoPhys
               PROVE  (n.vm[c].phys + (q - c)) \div Frame
                          = (n.vm[c].phys + (q - c) + Part(cs[q].size) - 1) \div Frame
    BY DEF Framed
  <2>1. CASE q = p
    <3>1. c = a /\ cs[q] = b
      BY <1>8, <1>11, <2>1
    <3> QED
      BY <1>5, <2>1, <3>1 DEF Lies
  <2>2. CASE q \in InPages(bs)
    <3>1. In(m, bs, q, c) /\ c \in DOMAIN m.vm /\ cs[q] = bs[q]
      BY <1>8, <1>12, <2>2 DEF In, InPages
    <3> QED
      BY <1>0, <1>4, <2>2, <3>1 DEF Framed
  <2> QED
    BY <1>9, <2>1, <2>2
<1>18. HeapRoom(n, cs)
  <2>1. InHeapOf(cs) = InHeapOf(bs)
    BY <1>1, <1>8 DEF InHeapOf
  <2>2. n.heap + Len(n.list) <= m.heap + Len(m.list)
    BY <1>0, MemParts
  <2> QED
    BY <1>0, <2>1, <2>2, RoomKept
<1> QED
  BY <1>7, <1>10, <1>13, <1>14, <1>15, <1>16, <1>17, <1>18 DEF Good, cs

\* A block is given up, with its region or with a region that was missed.
LEMMA Shrink ==
  ASSUME NEW m, NEW bs, Good(m, bs), NEW p \in InPages(bs), NEW a, In(m, bs, p, a),
         NEW n, IsMem(n), NoTwice(n),
         \/ n.vm = VmMinus(m.vm, a) /\ n.missed = m.missed \ {a}
         \/ n.vm = m.vm /\ n.missed = m.missed /\ a \in m.missed,
         Entries(n) = {e \in Entries(m) : e.retaddr # p},
         n.heap + Len(n.list) <= m.heap + Len(m.list)
  PROVE  Good(n, BlocksMinus(bs, p))
<1> DEFINE cs == BlocksMinus(bs, p)
<1>0. /\ IsMem(m) /\ AreBlocks(bs) /\ RegionsApart(m) /\ Housed(m, bs)
      /\ EntriesTrue(m, bs) /\ Found(m, bs) /\ Framed(m, bs) /\ HeapRoom(m, bs)
  BY DEF Good
<1>1. /\ a \in DOMAIN m.vm /\ DOMAIN n.vm \subseteq DOMAIN m.vm
      /\ \A c \in DOMAIN m.vm : c # a => c \in DOMAIN n.vm
      /\ \A c \in DOMAIN n.vm : n.vm[c] = m.vm[c]
  BY DEF In, VmMinus
<1>2. DOMAIN cs = DOMAIN bs \ {p} /\ \A q \in DOMAIN cs : cs[q] = bs[q]
  BY DEF BlocksMinus
<1> HIDE DEF cs
<1>3. InPages(cs) = InPages(bs) \ {p} /\ InHeapOf(cs) = InHeapOf(bs)
  <2>1. p < Space /\ p \in Nat /\ Space \in Nat
    BY <1>0, BlockNumbers, PageConstants
  <2> QED BY <1>2, <2>1 DEF InPages, InHeapOf
<1>4. AreBlocks(cs)
  <2>1. cs \in [DOMAIN cs -> BlockType]
    BY <1>0, <1>2 DEF AreBlocks, cs, BlocksMinus
  <2> QED
    BY <1>0, <1>2, <2>1 DEF AreBlocks
<1>5. \A q \in InPages(cs) : \A c : In(n, cs, q, c) <=> In(m, bs, q, c)
  <2> SUFFICES ASSUME NEW q \in InPages(cs), NEW c
               PROVE  In(n, cs, q, c) <=> In(m, bs, q, c)
    OBVIOUS
  <2>1. q \in InPages(bs) /\ q # p /\ cs[q] = bs[q]
    BY <1>2, <1>3 DEF InPages
  <2>2. ~In(m, bs, q, a)
    BY <1>0, <1>1, <2>1 DEF Housed
  <2>3. CASE c \in DOMAIN n.vm
    <3>1. c \in DOMAIN m.vm /\ n.vm[c] = m.vm[c]
      BY <1>1, <2>3
    <3> QED BY <2>1, <2>3, <3>1 DEF In
  <2>4. CASE c \notin DOMAIN n.vm
    BY <1>1, <2>1, <2>2, <2>4 DEF In
  <2> QED
    BY <2>3, <2>4
<1>6. RegionsApart(n)
  <2>1. ASSUME NEW c \in DOMAIN n.vm PROVE c \in DOMAIN m.vm /\ n.vm[c] = m.vm[c]
    BY <1>1
  <2>2. \A c \in DOMAIN n.vm : c + n.vm[c].size <= Space
    BY <1>0, <2>1 DEF RegionsApart
  <2>3. ASSUME NEW c \in DOMAIN n.vm, NEW d \in DOMAIN n.vm, c < d
        PROVE  c + n.vm[c].size <= d
    BY <1>0, <2>1, <2>3 DEF RegionsApart
  <2> QED
    BY <2>2, <2>3 DEF RegionsApart
<1>7. Housed(n, cs)
  <2>1. ASSUME NEW q \in InPages(cs) PROVE \E c \in DOMAIN n.vm : In(n, cs, q, c)
    <3>1. PICK c \in DOMAIN m.vm : In(m, bs, q, c)
      BY <1>0, <1>3 DEF Housed
    <3>2. In(n, cs, q, c)
      BY <1>5, <3>1
    <3> QED BY <3>2 DEF In
  <2>2. ASSUME NEW q \in InPages(cs), NEW r \in InPages(cs), NEW c \in DOMAIN n.vm,
               In(n, cs, q, c), In(n, cs, r, c)
        PROVE  q = r
    <3>1. In(m, bs, q, c) /\ In(m, bs, r, c) /\ c \in DOMAIN m.vm
      BY <1>1, <1>5, <2>2
    <3> QED BY <1>0, <1>3, <3>1 DEF Housed
  <2>3. ASSUME NEW c \in DOMAIN n.vm \ n.missed
        PROVE  \E q \in InPages(cs) : In(n, cs, q, c)
    <3>1. c # a /\ c \in DOMAIN m.vm \ m.missed
      BY <1>1 DEF VmMinus
    <3>2. PICK q \in InPages(bs) : In(m, bs, q, c)
      BY <1>0, <3>1 DEF Housed
    <3>3. q # p
      BY <1>0, <3>1, <3>2, OneRegionOfBlock
    <3> QED BY <1>3, <1>5, <3>2, <3>3
  <2> QED
    BY <2>1, <2>2, <2>3 DEF Housed
<1>8. EntriesTrue(n, cs)
  <2> SUFFICES ASSUME NEW e \in Entries(n)
               PROVE  /\ e.retaddr \in InPages(cs) /\ cs[e.retaddr].kind # "io"
                      /\ In(n, cs, e.retaddr, e.base) /\ e.size = n.vm[e.base].size
    BY DEF EntriesTrue
  <2>1. /\ e.retaddr \in InPages(bs) /\ bs[e.retaddr].kind # "io" /\ e.retaddr # p
        /\ In(m, bs, e.retaddr, e.base) /\ e.size = m.vm[e.base].size
    BY <1>0 DEF EntriesTrue
  <2>2. e.retaddr \in InPages(cs) /\ cs[e.retaddr] = bs[e.retaddr]
    BY <1>2, <1>3, <2>1 DEF InPages
  <2>3. In(n, cs, e.retaddr, e.base)
    BY <1>5, <2>1, <2>2
  <2> QED
    <3>1. e.base \in DOMAIN n.vm
      BY <2>3 DEF In
    <3>2. n.vm[e.base] = m.vm[e.base]
      BY <1>1, <3>1
    <3> QED BY <2>1, <2>2, <2>3, <3>2
<1>9. Found(n, cs)
  <2> SUFFICES ASSUME NEW q \in InPages(cs), NEW c \in DOMAIN n.vm, In(n, cs, q, c)
               PROVE  /\ cs[q].kind = "io" => c = (q \div PAGE_SIZE) * PAGE_SIZE
                      /\ cs[q].kind = "kmalloc" => c = q
                      /\ cs[q].kind \in {"dma", "pages"} =>
                            c = q \/ c \in n.missed \/ \E e \in Entries(n) : e.retaddr = q
    BY DEF Found
  <2>1. In(m, bs, q, c) /\ c \in DOMAIN m.vm /\ cs[q] = bs[q] /\ q \in InPages(bs) /\ q # p
    BY <1>1, <1>2, <1>3, <1>5 DEF InPages
  <2>2. c # a
    BY <1>0, <1>1, <2>1 DEF Housed
  <2>3. c \in m.missed => c \in n.missed
    BY <2>2
  <2>4. (\E e \in Entries(m) : e.retaddr = q) => \E e \in Entries(n) : e.retaddr = q
    BY <2>1
  <2> QED
    BY <1>0, <2>1, <2>3, <2>4 DEF Found
<1>10. Framed(n, cs)
  <2> SUFFICES ASSUME NEW q \in InPages(cs), NEW c \in DOMAIN n.vm, In(n, cs, q, c),
                      cs[q].kind = "dma", n.vm[c].phys # NoPhys
               PROVE  (n.vm[c].phys + (q - c)) \div Frame
                          = (n.vm[c].phys + (q - c) + Part(cs[q].size) - 1) \div Frame
    BY DEF Framed
  <2>1. In(m, bs, q, c) /\ c \in DOMAIN m.vm /\ cs[q] = bs[q] /\ q \in InPages(bs)
    BY <1>1, <1>2, <1>3, <1>5 DEF InPages
  <2> QED
    <3>1. n.vm[c] = m.vm[c]
      BY <1>1
    <3> QED BY <1>0, <2>1, <3>1 DEF Framed
<1>11. HeapRoom(n, cs)
  BY <1>0, <1>3, RoomKept
<1> QED
  BY <1>4, <1>6, <1>7, <1>8, <1>9, <1>10, <1>11 DEF Good, cs

-----------------------------------------------------------------------------
(***************************************************************************)
(* The routines of memory.c.                                               *)
(***************************************************************************)
\* The list of another memory.
LEMMA SameList ==
  ASSUME NEW m, NEW n, n.list = m.list
  PROVE  Entries(n) = Entries(m) /\ (NoTwice(m) => NoTwice(n))
BY DEF Entries, NoTwice

\* KernVMAlloc adds a region.
LEMMA VMAllocEffect ==
  ASSUME NEW m, IsMem(m), NEW s \in Nat, s >= 1, NEW r \in VMAlloc(m, s)
  PROVE  /\ s \in 1 .. Space /\ r.addr \in FreeRanges(m, s) /\ r.addr \in Pages
         /\ r.addr \in Nat /\ r.addr \notin DOMAIN m.vm /\ r.phys \in NoPhys .. (Frame - 1)
         /\ IsMem(r.m) /\ r.m.vm = VmPlus(m.vm, r.addr, s, r.phys)
         /\ r.m.list = m.list /\ r.m.heap = m.heap /\ r.m.used = m.used
         /\ r.m.missed = m.missed
         /\ r = [addr |-> r.addr, phys |-> r.phys, m |-> r.m]
<1>1. PICK a \in FreeRanges(m, s), f \in PhysOffsets : r = Placed(m, a, s, f)
  BY DEF VMAlloc
<1> DEFINE v == VmPlus(m.vm, a, s, f)
           u == [m EXCEPT !.vm = v]
<1>2. r = [addr |-> a, phys |-> f, m |-> u]
  BY <1>1 DEF Placed, VmPlus
<1>3. Space \in Nat /\ Frame \in Nat /\ a \in Pages /\ a \in Nat /\ a + s <= Space
  BY PageConstants DEF FreeRanges, Pages
<1>4. s \in 1 .. Space /\ f \in NoPhys .. (Frame - 1)
  BY <1>3 DEF NoPhys, PhysOffsets
<1>5. a \notin DOMAIN m.vm
  <2> SUFFICES ASSUME a \in DOMAIN m.vm PROVE FALSE
    OBVIOUS
  <2>1. a + s <= a \/ a + m.vm[a].size <= a
    BY DEF FreeRanges
  <2> QED
    BY <1>3, <2>1, RegionNumbers
<1>6. u = [vm |-> v, list |-> m.list, heap |-> m.heap, used |-> m.used, missed |-> m.missed]
  <2> DEFINE w == [vm |-> m.vm, list |-> m.list, heap |-> m.heap, used |-> m.used,
                   missed |-> m.missed]
  <2>1. m = w
    BY MemParts
  <2> HIDE DEF v
  <2>2. u = [w EXCEPT !.vm = v]
    BY <2>1
  <2> QED BY <2>2
<1>7. DOMAIN v = DOMAIN m.vm \cup {a} /\ v \in [DOMAIN v -> Region]
  <2>1. [size |-> s, phys |-> f] \in Region
    BY <1>4 DEF Region
  <2>2. \A c \in DOMAIN m.vm : m.vm[c] \in Region
    BY RegionNumbers
  <2> QED
    BY <2>1, <2>2 DEF VmPlus
<1>8. /\ u.vm = v /\ u.list = m.list /\ u.heap = m.heap /\ u.used = m.used
      /\ u.missed = m.missed
  <2> HIDE DEF v, u
  <2> QED BY <1>6
<1>9. IsMem(u)
  <2>1. DOMAIN m.vm \subseteq Pages /\ m.missed \subseteq DOMAIN m.vm
    BY DEF IsMem
  <2>2. DOMAIN v \subseteq Pages /\ m.missed \subseteq DOMAIN v
    BY <1>3, <1>7, <2>1
  <2>3. u \in [vm : {v}, list : Seq(Entry), heap : Nat, used : Int, missed : SUBSET Pages]
    <3> HIDE DEF v, u
    <3> QED BY <1>6, MemParts
  <2> HIDE DEF v, u
  <2> QED
    BY <1>7, <1>8, <2>2, <2>3 DEF IsMem
<1> HIDE DEF u
<1>10. r.addr = a /\ r.phys = f /\ r.m = u /\ r = [addr |-> r.addr, phys |-> r.phys, m |-> r.m]
  BY <1>2
<1> QED
  BY <1>3, <1>4, <1>5, <1>8, <1>9, <1>10

\* The counter of pages is nobody's business.
LEMMA ChargeEffect ==
  ASSUME NEW m, IsMem(m), NEW s \in Int
  PROVE  /\ IsMem(Charge(m, s)) /\ Charge(m, s).vm = m.vm /\ Charge(m, s).list = m.list
         /\ Charge(m, s).heap = m.heap /\ Charge(m, s).missed = m.missed
<1> DEFINE u == Charge(m, s)
           w == [vm |-> m.vm, list |-> m.list, heap |-> m.heap, used |-> m.used,
                 missed |-> m.missed]
<1>1. m = w
  BY MemParts
<1>2. u = [w EXCEPT !.used = m.used + s]
  BY <1>1 DEF Charge
<1>3. u = [vm |-> m.vm, list |-> m.list, heap |-> m.heap, used |-> m.used + s,
           missed |-> m.missed]
  BY <1>2
<1> HIDE DEF u
<1> QED
  BY <1>3, MemParts DEF IsMem, u

\* A region is given back, with whatever is taken off the counter.
LEMMA VMFreeEffect ==
  ASSUME NEW m, IsMem(m), NEW a
  PROVE  LET u == VMFree(m, a)
         IN  /\ IsMem(u) /\ u.vm = VmMinus(m.vm, a) /\ u.missed = m.missed \ {a}
             /\ u.list = m.list /\ u.heap = m.heap /\ u.used = m.used
<1> DEFINE u == VMFree(m, a)
           v == VmMinus(m.vm, a)
           w == [vm |-> m.vm, list |-> m.list, heap |-> m.heap, used |-> m.used,
                 missed |-> m.missed]
<1>1. m = w
  BY MemParts
<1>2. u = [m EXCEPT !.vm = v, !.missed = m.missed \ {a}]
  BY DEF VMFree, VmMinus
<1>3. DOMAIN v = DOMAIN m.vm \ {a} /\ v \in [DOMAIN v -> Region]
  BY RegionNumbers DEF VmMinus
<1> HIDE DEF v, u
<1>4. u = [w EXCEPT !.vm = v, !.missed = m.missed \ {a}]
  BY <1>1, <1>2
<1>5. u = [vm |-> v, list |-> m.list, heap |-> m.heap, used |-> m.used,
           missed |-> m.missed \ {a}]
  BY <1>4
<1>6. IsMem(u)
  <2>1. DOMAIN m.vm \subseteq Pages /\ m.missed \subseteq DOMAIN m.vm
    BY DEF IsMem
  <2>2. DOMAIN v \subseteq Pages /\ m.missed \ {a} \subseteq DOMAIN v
    BY <1>3, <2>1
  <2> QED
    BY <1>3, <1>5, <2>2, MemParts DEF IsMem
<1> QED
  BY <1>5, <1>6 DEF u, v

\* ... unless the kernel refuses the address.
LEMMA DischargeEffect ==
  ASSUME NEW m, IsMem(m), NEW a, NEW s \in Int
  PROVE  LET u == Discharge(m, a, s)
         IN  /\ a \notin DOMAIN m.vm => u = m
             /\ a \in DOMAIN m.vm =>
                   /\ IsMem(u) /\ u.vm = VmMinus(m.vm, a) /\ u.missed = m.missed \ {a}
                   /\ u.list = m.list /\ u.heap = m.heap
<1> DEFINE f == VMFree(m, a)
<1>1. /\ IsMem(f) /\ f.vm = VmMinus(m.vm, a) /\ f.missed = m.missed \ {a}
      /\ f.list = m.list /\ f.heap = m.heap
  BY VMFreeEffect
<1> HIDE DEF f
<1>2. f.used \in Int /\ 0 - s \in Int
  BY <1>1, MemParts
<1>3. [f EXCEPT !.used = @ - s] = Charge(f, 0 - s)
  <2>1. f.used - s = f.used + (0 - s)
    BY <1>2
  <2> QED BY <2>1 DEF Charge
<1>4. a \in DOMAIN m.vm => Discharge(m, a, s) = Charge(f, 0 - s)
  BY <1>3 DEF Discharge, f
<1>5. a \notin DOMAIN m.vm => Discharge(m, a, s) = m
  BY DEF Discharge
<1>6. LET c == Charge(f, 0 - s)
      IN  IsMem(c) /\ c.vm = f.vm /\ c.list = f.list /\ c.heap = f.heap /\ c.missed = f.missed
  BY <1>1, <1>2, ChargeEffect
<1> QED
  BY <1>1, <1>4, <1>5, <1>6

\* The entry of an address goes back to the private heap.
LEMMA GetBaseEffect ==
  ASSUME NEW m, IsMem(m), NoTwice(m), NEW addr
  PROVE  LET u == GetBaseAddressAndFree(m, addr)
         IN  /\ IsMem(u) /\ NoTwice(u) /\ u.vm = m.vm /\ u.missed = m.missed /\ u.used = m.used
             /\ Entries(u) = {e \in Entries(m) : e.retaddr # addr}
             /\ u.heap + Len(u.list) = m.heap + Len(m.list)
<1> DEFINE k == Unlink(m, addr)
           h == IF Hits(m, addr) = {} THEN m.heap ELSE m.heap + 1
           u == GetBaseAddressAndFree(m, addr)
           w == [vm |-> k.vm, list |-> k.list, heap |-> k.heap, used |-> k.used,
                 missed |-> k.missed]
<1>1. /\ IsMem(k) /\ NoTwice(k)
      /\ k.vm = m.vm /\ k.heap = m.heap /\ k.used = m.used /\ k.missed = m.missed
      /\ Entries(k) = {e \in Entries(m) : e.retaddr # addr}
      /\ Len(k.list) = IF Hits(m, addr) = {} THEN Len(m.list) ELSE Len(m.list) - 1
  BY Unlinked
<1>2. u = [k EXCEPT !.heap = h]
  BY <1>1 DEF GetBaseAddressAndFree
<1> HIDE DEF k, u
<1>3. k = w
  BY <1>1, MemParts
<1>4. m.heap \in Nat /\ Len(m.list) \in Nat /\ h \in Nat
  BY MemParts
<1>5. h + Len(k.list) = m.heap + Len(m.list)
  BY <1>1, <1>4
<1> HIDE DEF h
<1>6. u = [vm |-> k.vm, list |-> k.list, heap |-> h, used |-> k.used, missed |-> k.missed]
  <2>1. u = [w EXCEPT !.heap = h]
    BY <1>2, <1>3
  <2> QED BY <2>1
<1>7. u.vm = k.vm /\ u.list = k.list /\ u.heap = h /\ u.used = k.used /\ u.missed = k.missed
  BY <1>6
<1>8. IsMem(u)
  BY <1>1, <1>4, <1>6, <1>7, MemParts DEF IsMem
<1>9. Entries(u) = Entries(k) /\ NoTwice(u)
  BY <1>1, <1>7, SameList
<1> QED
  BY <1>1, <1>5, <1>7, <1>8, <1>9 DEF u

\* What an allocation returns: no block and the memory as it was, or a
\* block b at an address where there was none.
Gives(m, bs, o, b) ==
    \/ o.addr = NoPhys /\ o.m = m
    \/ /\ o.addr # NoPhys /\ o.addr \notin DOMAIN bs /\ Good(o.m, BlocksPlus(bs, o.addr, b))

\* A region that is kept, and recorded if there is memory for the entry.
LEMMA Recording ==
  ASSUME NEW m, NEW bs, Good(m, bs), NEW s \in Nat, s >= 1, NEW r \in VMAlloc(m, s),
         NEW p \in Nat, NEW b \in BlockType, b.size >= 1, r.addr <= p,
         p + b.size <= r.addr + s, Lies(r.addr, r.phys, p, b), b.kind # "io",
         NEW o, o = [addr |-> p, m |-> Charge(AddBaseAddress(r.m, r.addr, p, s), s)]
  PROVE  Gives(m, bs, o, b)
<1> DEFINE a == r.addr
           f == r.phys
           t == AddBaseAddress(r.m, a, p, s)
           n == Charge(t, s)
<1>1. IsMem(m) /\ NoTwice(m) /\ EntriesTrue(m, bs)
  BY DEF Good, EntriesTrue
<1>2. /\ s \in 1 .. Space /\ a \in FreeRanges(m, s) /\ a \in Pages /\ a \in Nat
      /\ f \in NoPhys .. (Frame - 1) /\ IsMem(r.m) /\ r.m.vm = VmPlus(m.vm, a, s, f)
      /\ r.m.list = m.list /\ r.m.heap = m.heap /\ r.m.missed = m.missed
  BY <1>1, VMAllocEffect
<1>3. Entries(r.m) = Entries(m) /\ NoTwice(r.m)
  BY <1>1, <1>2, SameList
<1>4. b.size \in Nat /\ a + s <= Space /\ Space \in Nat
  BY <1>2, PageConstants DEF BlockType, FreeRanges
<1>5. p \in 0 .. (Space - 1) /\ p < a + s
  BY <1>2, <1>4
<1>6. \A e \in Entries(r.m) : e.retaddr # p
  <2>1. \A e \in Entries(m) : e.retaddr \in InPages(bs)
    BY <1>1 DEF EntriesTrue
  <2> QED
    BY <1>2, <1>3, <1>5, <2>1, FreeOfBlocks
<1>7. a \in DOMAIN r.m.vm
  BY <1>2 DEF VmPlus
<1>8. /\ IsMem(t) /\ NoTwice(t) /\ t.vm = r.m.vm
      /\ \/ /\ t.missed = r.m.missed
            /\ Entries(t) = Entries(r.m) \cup {[base |-> a, retaddr |-> p, size |-> s]}
            /\ t.heap + Len(t.list) = r.m.heap + Len(r.m.list)
         \/ /\ t.missed = r.m.missed \cup {a} /\ Entries(t) = Entries(r.m)
            /\ t.heap + Len(t.list) = r.m.heap + Len(r.m.list)
  <2> HIDE DEF a
  <2> QED BY <1>2, <1>3, <1>5, <1>6, <1>7, Added
<1> HIDE DEF t, a, f
<1>9. /\ IsMem(n) /\ n.vm = t.vm /\ n.list = t.list /\ n.heap = t.heap /\ n.missed = t.missed
  <2>1. IsMem(t) /\ s \in Int
    BY <1>8
  <2> QED BY <2>1, ChargeEffect
<1> HIDE DEF n
<1>10. NoTwice(n) /\ Entries(n) = Entries(t)
  BY <1>8, <1>9, SameList
<1>11. n.heap + Len(n.list) = m.heap + Len(m.list) /\ n.vm = VmPlus(m.vm, a, s, f)
  BY <1>2, <1>8, <1>9
<1>12. Booked(m, n, a, s, p, b.kind)
  <2> DEFINE e == [base |-> a, retaddr |-> p, size |-> s]
  <2>1. \/ n.missed = m.missed /\ Entries(n) = Entries(m) \cup {e}
        \/ n.missed = m.missed \cup {a} /\ Entries(n) = Entries(m)
    <3> HIDE DEF e
    <3> QED BY <1>2, <1>3, <1>8, <1>9, <1>10 DEF e
  <2> QED
    BY <2>1 DEF Booked
<1>13. Good(n, BlocksPlus(bs, p, b)) /\ p \notin DOMAIN bs
  BY <1>2, <1>9, <1>10, <1>11, <1>12, Grow DEF a, f
<1>14. o.addr = p /\ o.m = n
  BY DEF n, t, a
<1> QED
  BY <1>13, <1>14 DEF Gives, NoPhys

\* A region that is kept and not recorded.
LEMMA NotRecording ==
  ASSUME NEW m, NEW bs, Good(m, bs), NEW s \in Nat, s >= 1, NEW r \in VMAlloc(m, s),
         NEW p \in Nat, NEW b \in BlockType, b.size >= 1, r.addr <= p,
         p + b.size <= r.addr + s, Lies(r.addr, r.phys, p, b),
         b.kind \in {"dma", "pages"} => p = r.addr,
         NEW o, o = [addr |-> p, m |-> r.m] \/ o = [addr |-> p, m |-> Charge(r.m, s)]
  PROVE  Gives(m, bs, o, b)
<1> DEFINE a == r.addr
           f == r.phys
           n == o.m
<1>1. IsMem(m) /\ NoTwice(m)
  BY DEF Good, EntriesTrue
<1>2. /\ s \in 1 .. Space /\ a \in FreeRanges(m, s)
      /\ f \in NoPhys .. (Frame - 1) /\ IsMem(r.m) /\ r.m.vm = VmPlus(m.vm, a, s, f)
      /\ r.m.list = m.list /\ r.m.heap = m.heap /\ r.m.missed = m.missed
  BY <1>1, VMAllocEffect
<1>3. /\ IsMem(n) /\ n.vm = VmPlus(m.vm, a, s, f)
      /\ n.list = m.list /\ n.heap = m.heap /\ n.missed = m.missed /\ o.addr = p
  <2> DEFINE c == Charge(r.m, s)
  <2>1. /\ IsMem(c) /\ c.vm = r.m.vm /\ c.list = r.m.list /\ c.heap = r.m.heap
        /\ c.missed = r.m.missed
    <3>1. IsMem(r.m) /\ s \in Int
      BY <1>2
    <3> QED BY <3>1, ChargeEffect
  <2> HIDE DEF c
  <2>2. o.addr = p /\ (n = r.m \/ n = c)
    <3>1. CASE o = [addr |-> p, m |-> r.m]
      BY <3>1
    <3>2. CASE o = [addr |-> p, m |-> c]
      BY <3>2
    <3> QED BY <3>1, <3>2 DEF c
  <2> HIDE DEF n, a, f
  <2>3. CASE n = r.m
    BY <1>2, <2>2, <2>3
  <2>4. CASE n = c
    BY <1>2, <2>1, <2>2, <2>4
  <2> QED BY <2>2, <2>3, <2>4
<1> HIDE DEF n, a, f
<1>4. NoTwice(n) /\ Entries(n) = Entries(m)
  BY <1>1, <1>3, SameList
<1>5. Booked(m, n, a, s, p, b.kind)
  BY <1>3, <1>4 DEF Booked, a
<1>6. n.heap + Len(n.list) = m.heap + Len(m.list)
  BY <1>3
<1>7. Good(n, BlocksPlus(bs, p, b)) /\ p \notin DOMAIN bs
  BY <1>2, <1>3, <1>4, <1>5, <1>6, Grow DEF a, f
<1> QED
  BY <1>3, <1>7 DEF Gives, NoPhys, n

\* vmalloc, for kmalloc and for pages.
LEMMA VmallocGives ==
  ASSUME NEW m, NEW bs, Good(m, bs), NEW size \in Nat, size >= 1, NEW o \in vmalloc(m, size),
         NEW b \in BlockType, b.size >= 1, b.size <= RoundUp(size),
         b.kind \in {"kmalloc", "pages"}
  PROVE  Gives(m, bs, o, b)
<1> DEFINE s == RoundUp(size)
<1>1. s \in Nat /\ s >= 1
  BY RoundUpHolds
<1> HIDE DEF s
<1>2. CASE o = Failure(m)
  BY <1>2 DEF Failure, Gives
<1>3. CASE o # Failure(m)
  <2>1. PICK r \in VMAlloc(m, s) :
           o = [addr |-> r.addr, m |-> Charge(AddBaseAddress(r.m, r.addr, r.addr, s), s)]
    BY <1>3 DEF vmalloc, s
  <2>2. r.addr \in Nat
    BY <1>1, VMAllocEffect DEF Good
  <2>3. /\ r.addr <= r.addr /\ r.addr + b.size <= r.addr + s /\ b.kind # "io"
    BY <1>1, <2>2 DEF BlockType, s
  <2>4. Lies(r.addr, r.phys, r.addr, b)
    BY DEF Lies
  <2> QED
    BY <1>1, <2>1, <2>2, <2>3, <2>4, Recording
<1> QED
  BY <1>2, <1>3

\* A region taken while another one is held, which is then given back, is
\* one that could have been taken at first.
LEMMA SecondTry ==
  ASSUME NEW m, IsMem(m), NEW s \in Nat, s >= 1, NEW r \in VMAlloc(m, s),
         NEW q \in VMAlloc(r.m, s)
  PROVE  [q EXCEPT !.m = VMFree(q.m, r.addr)] \in VMAlloc(m, s)
<1> DEFINE a == r.addr
           c == q.addr
           f == q.phys
           n == VMFree(q.m, a)
<1>1. /\ a \notin DOMAIN m.vm /\ IsMem(r.m) /\ r.m.vm = VmPlus(m.vm, a, s, r.phys)
      /\ r.m.list = m.list /\ r.m.heap = m.heap /\ r.m.used = m.used /\ r.m.missed = m.missed
  BY VMAllocEffect
<1>2. /\ c \in FreeRanges(r.m, s) /\ c \notin DOMAIN r.m.vm /\ IsMem(q.m)
      /\ q.m.vm = VmPlus(r.m.vm, c, s, f)
      /\ q.m.list = r.m.list /\ q.m.heap = r.m.heap /\ q.m.used = r.m.used
      /\ q.m.missed = r.m.missed /\ q = [addr |-> c, phys |-> f, m |-> q.m]
  BY <1>1, VMAllocEffect
<1>3. f \in PhysOffsets
  <2>1. PICK x \in FreeRanges(r.m, s), y \in PhysOffsets : q = Placed(r.m, x, s, y)
    BY DEF VMAlloc
  <2> QED BY <2>1 DEF Placed
<1>4. /\ IsMem(n) /\ n.vm = VmMinus(q.m.vm, a) /\ n.missed = q.m.missed \ {a}
      /\ n.list = q.m.list /\ n.heap = q.m.heap /\ n.used = q.m.used
  BY <1>2, VMFreeEffect
<1> HIDE DEF a, c, f, n
<1>5. DOMAIN r.m.vm = DOMAIN m.vm \cup {a} /\ \A x \in DOMAIN m.vm : r.m.vm[x] = m.vm[x]
  BY <1>1 DEF VmPlus
<1>6. c # a /\ c \notin DOMAIN m.vm
  BY <1>2, <1>5
<1>7. n.vm = VmPlus(m.vm, c, s, f)
  <2>1. n.vm = VmMinus(VmPlus(r.m.vm, c, s, f), a)
    BY <1>2, <1>4
  <2>2. DOMAIN VmPlus(r.m.vm, c, s, f) = DOMAIN m.vm \cup {a, c}
    BY <1>5 DEF VmPlus
  <2>3. DOMAIN n.vm = DOMAIN m.vm \cup {c}
    BY <1>1, <1>6, <2>1, <2>2 DEF VmMinus
  <2>4. ASSUME NEW x \in DOMAIN m.vm \cup {c}
        PROVE  n.vm[x] = IF x = c THEN [size |-> s, phys |-> f] ELSE m.vm[x]
    <3>1. n.vm[x] = VmPlus(r.m.vm, c, s, f)[x]
      BY <1>1, <1>6, <2>1, <2>2 DEF VmMinus
    <3>2. VmPlus(r.m.vm, c, s, f)[x] = IF x = c THEN [size |-> s, phys |-> f] ELSE r.m.vm[x]
      BY <1>5 DEF VmPlus
    <3> QED BY <1>5, <3>1, <3>2
  <2>5. n.vm = [x \in DOMAIN m.vm \cup {c} |-> n.vm[x]]
    BY <2>1, <2>3 DEF VmMinus
  <2> QED
    BY <2>4, <2>5 DEF VmPlus
<1>8. n.missed = m.missed
  BY <1>1, <1>2, <1>4 DEF IsMem
<1>9. n = [m EXCEPT !.vm = VmPlus(m.vm, c, s, f)]
  <2> DEFINE w == [vm |-> m.vm, list |-> m.list, heap |-> m.heap, used |-> m.used,
                   missed |-> m.missed]
  <2>1. m = w
    BY MemParts
  <2>2. n = [vm |-> VmPlus(m.vm, c, s, f), list |-> m.list, heap |-> m.heap,
             used |-> m.used, missed |-> m.missed]
    <3>1. n = [vm |-> n.vm, list |-> n.list, heap |-> n.heap, used |-> n.used,
               missed |-> n.missed]
      BY <1>4, MemParts
    <3> QED BY <1>1, <1>2, <1>4, <1>7, <1>8, <3>1
  <2> DEFINE v == VmPlus(m.vm, c, s, f)
  <2>3. [w EXCEPT !.vm = v] = [vm |-> v, list |-> m.list, heap |-> m.heap,
                               used |-> m.used, missed |-> m.missed]
    <3> HIDE DEF v
    <3> QED OBVIOUS
  <2> QED BY <2>1, <2>2, <2>3
<1>10. [q EXCEPT !.m = n] = Placed(m, c, s, f)
  <2>1. [q EXCEPT !.m = n] = [addr |-> c, phys |-> f, m |-> n]
    <3> DEFINE z == [addr |-> c, phys |-> f, m |-> q.m]
    <3>1. q = z
      BY <1>2
    <3>2. [q EXCEPT !.m = n] = [z EXCEPT !.m = n]
      BY <3>1
    <3> QED BY <3>2
  <2> QED BY <1>9, <2>1 DEF Placed, VmPlus
<1>11. c \in FreeRanges(m, s)
  <2>1. c \in Pages /\ c + s <= Space
    BY <1>2 DEF FreeRanges
  <2>2. ASSUME NEW x \in DOMAIN m.vm PROVE c + s <= x \/ x + m.vm[x].size <= c
    <3>1. c + s <= x \/ x + r.m.vm[x].size <= c
      BY <1>2, <1>5 DEF FreeRanges
    <3> QED BY <1>5, <3>1
  <2> QED BY <2>1, <2>2 DEF FreeRanges
<1>12. Placed(m, c, s, f) \in VMAlloc(m, s)
  BY <1>3, <1>11 DEF VMAlloc
<1> QED
  BY <1>10, <1>12 DEF n, a

\* What __get_free_dma_pages returns first: nothing, or a region that does
\* not cross a frame as far as the kernel can tell.
LEMMA DmaTryOutcome ==
  ASSUME NEW m, IsMem(m), NEW s \in Nat, s >= 1, NEW o \in DmaTry(m, s)
  PROVE  \/ o = Failure(m)
         \/ \E r \in VMAlloc(m, s) :
               /\ r.phys = NoPhys \/ ~Crosses(r.phys, s)
               /\ o = [addr |-> r.addr,
                       m |-> Charge(AddBaseAddress(r.m, r.addr, r.addr, s), s)]
<1> DEFINE keep(r) == [addr |-> r.addr,
                       m |-> Charge(AddBaseAddress(r.m, r.addr, r.addr, s), s)]
           second(r) == {[q EXCEPT !.m = VMFree(@, r.addr)] : q \in VMAlloc(r.m, s)}
           fine(q) == q.phys = NoPhys \/ ~Crosses(q.phys, s)
           tries(r) == IF r.phys # NoPhys /\ ~Crosses(r.phys, s) THEN {keep(r)}
                       ELSE IF r.phys = NoPhys THEN {Failure(m)}
                       ELSE {Failure(m)} \cup {keep(q) : q \in {q \in second(r) : fine(q)}}
<1>1. DmaTry(m, s) = {Failure(m)} \cup UNION {tries(r) : r \in VMAlloc(m, s)}
  BY DEF DmaTry
<1>2. ASSUME NEW r \in VMAlloc(m, s), NEW q \in second(r) PROVE q \in VMAlloc(m, s)
  <2>1. PICK x \in VMAlloc(r.m, s) : q = [x EXCEPT !.m = VMFree(x.m, r.addr)]
    OBVIOUS
  <2> QED BY <2>1, SecondTry
<1>3. ASSUME NEW r \in VMAlloc(m, s), o \in tries(r), o # Failure(m)
      PROVE  \E q \in VMAlloc(m, s) : fine(q) /\ o = keep(q)
  <2>1. CASE r.phys # NoPhys /\ ~Crosses(r.phys, s)
    <3> HIDE DEF keep
    <3> QED BY <1>3, <2>1
  <2>2. CASE r.phys # NoPhys /\ Crosses(r.phys, s)
    <3>1. o \in {keep(q) : q \in {q \in second(r) : fine(q)}}
      <4> HIDE DEF keep, second, fine
      <4> QED BY <1>3, <2>2
    <3> HIDE DEF keep, second, fine
    <3>2. PICK q \in second(r) : fine(q) /\ o = keep(q)
      BY <3>1
    <3> QED BY <1>2, <3>2
  <2>3. CASE r.phys = NoPhys
    <3> HIDE DEF keep, second, fine
    <3> QED BY <1>3, <2>3
  <2> QED BY <2>1, <2>2, <2>3
<1>4. o = Failure(m) \/ \E r \in VMAlloc(m, s) : o \in tries(r)
  <2> HIDE DEF tries
  <2> QED BY <1>1
<1>5. o = Failure(m) \/ \E q \in VMAlloc(m, s) : fine(q) /\ o = keep(q)
  <2> HIDE DEF tries, fine, keep
  <2> QED BY <1>3, <1>4
<1> QED
  BY <1>5

\* The blocks that __get_free_dma_pages returns stay in their frame.
LEMMA DmaTryGives ==
  ASSUME NEW m, NEW bs, Good(m, bs), NEW s \in Nat, s >= 1, NEW o \in DmaTry(m, s),
         NEW b \in BlockType, b.size = s, b.kind = "dma"
  PROVE  o = Failure(m) \/ (o.addr # NoPhys /\ Gives(m, bs, o, b))
<1>0. IsMem(m)
  BY DEF Good
<1>1. CASE o = Failure(m)
  BY <1>1
<1>2. CASE \E r \in VMAlloc(m, s) :
               /\ r.phys = NoPhys \/ ~Crosses(r.phys, s)
               /\ o = [addr |-> r.addr,
                       m |-> Charge(AddBaseAddress(r.m, r.addr, r.addr, s), s)]
  <2>1. PICK r \in VMAlloc(m, s) :
               /\ r.phys = NoPhys \/ ~Crosses(r.phys, s)
               /\ o = [addr |-> r.addr,
                       m |-> Charge(AddBaseAddress(r.m, r.addr, r.addr, s), s)]
    BY <1>2
  <2>2. r.addr \in Nat /\ r.phys \in NoPhys .. (Frame - 1)
    BY <1>0, VMAllocEffect
  <2>3. r.addr <= r.addr /\ r.addr + b.size <= r.addr + s /\ b.size >= 1 /\ b.kind # "io"
    BY <2>2
  <2>4. Lies(r.addr, r.phys, r.addr, b)
    <3>1. ASSUME r.phys # NoPhys
          PROVE  (r.phys + (r.addr - r.addr)) \div Frame
                     = (r.phys + (r.addr - r.addr) + Part(b.size) - 1) \div Frame
      <4>1. r.phys \in 0 .. (Frame - 1) /\ ~Crosses(r.phys, s)
        BY <2>1, <2>2, <3>1, PageConstants DEF NoPhys
      <4>2. r.phys \div Frame = (r.phys + Part(s) - 1) \div Frame
        BY <4>1, StaysInFrame
      <4>3. r.phys + (r.addr - r.addr) = r.phys
        BY <2>2, <4>1
      <4> QED BY <4>2, <4>3
    <3> QED BY <3>1 DEF Lies
  <2>5. Gives(m, bs, o, b)
    <3> DEFINE a == r.addr
    <3> HIDE DEF a
    <3>1. o = [addr |-> a, m |-> Charge(AddBaseAddress(r.m, r.addr, a, s), s)]
      BY <2>1 DEF a
    <3> QED BY <2>2, <2>3, <2>4, <3>1, Recording DEF a
  <2>6. o.addr # NoPhys
    BY <2>1, <2>2 DEF NoPhys
  <2> QED BY <2>5, <2>6
<1> QED
  BY <1>0, <1>1, <1>2, DmaTryOutcome

\* A region that is freed at once leaves the memory as it was.
LEMMA FreedAtOnce ==
  ASSUME NEW m, NEW bs, Good(m, bs), NEW s \in Nat, s >= 1, NEW r \in VMAlloc(m, s)
  PROVE  free_pages(r.m, r.addr) = m
<1> DEFINE a == r.addr
           n == r.m
           g == GetBaseAddressAndFree(n, a)
<1>1. IsMem(m) /\ NoTwice(m) /\ EntriesTrue(m, bs)
  BY DEF Good, EntriesTrue
<1>2. /\ a \in FreeRanges(m, s) /\ a \in Nat /\ a \notin DOMAIN m.vm
      /\ IsMem(n) /\ n.vm = VmPlus(m.vm, a, s, r.phys)
      /\ n.list = m.list /\ n.heap = m.heap /\ n.used = m.used /\ n.missed = m.missed
  BY <1>1, VMAllocEffect
<1>3. Hits(n, a) = {}
  <2>1. Entries(n) = Entries(m)
    BY <1>2, SameList
  <2>2. \A e \in Entries(m) : e.retaddr \in InPages(bs)
    BY <1>1 DEF EntriesTrue
  <2>3. \A e \in Entries(m) : e.retaddr # a
    BY <1>2, <2>2, FreeOfBlocks
  <2> QED BY <1>2, <2>1, <2>3, RecordedEntry
<1> HIDE DEF a, n
<1>4. Recorded(n, a).base = a /\ Recorded(n, a).size = 0
  BY <1>3 DEF Recorded
<1>5. g = n
  <2> DEFINE w == [vm |-> n.vm, list |-> n.list, heap |-> n.heap, used |-> n.used,
                   missed |-> n.missed]
  <2>1. g = [n EXCEPT !.heap = n.heap]
    BY <1>3 DEF GetBaseAddressAndFree, Unlink
  <2>2. n = w
    BY <1>2, MemParts
  <2>3. g = [w EXCEPT !.heap = n.heap]
    BY <2>1, <2>2
  <2> QED BY <2>2, <2>3
<1> HIDE DEF g
<1>6. a \in DOMAIN n.vm
  BY <1>2 DEF VmPlus
<1>7. free_pages(n, a) = [VMFree(n, a) EXCEPT !.used = @ - 0]
  BY <1>4, <1>5, <1>6 DEF free_pages, Discharge, g
<1> DEFINE f == VMFree(n, a)
<1>8. /\ IsMem(f) /\ f.vm = VmMinus(n.vm, a) /\ f.missed = n.missed \ {a}
      /\ f.list = n.list /\ f.heap = n.heap /\ f.used = n.used
  BY <1>2, VMFreeEffect
<1> HIDE DEF f
<1>9. f.vm = m.vm
  <2>1. m.vm = [c \in DOMAIN m.vm |-> m.vm[c]]
    BY <1>1 DEF IsMem
  <2> DEFINE v == VmPlus(m.vm, a, s, r.phys)
  <2>2. DOMAIN v = DOMAIN m.vm \cup {a} /\ \A c \in DOMAIN m.vm : v[c] = m.vm[c]
    BY <1>2 DEF VmPlus
  <2>3. f.vm = VmMinus(v, a)
    BY <1>2, <1>8
  <2> HIDE DEF v
  <2> QED BY <1>2, <2>1, <2>2, <2>3 DEF VmMinus
<1>10. f.missed = m.missed
  BY <1>1, <1>2, <1>8 DEF IsMem
<1>11. f = m
  <2>1. f = [vm |-> f.vm, list |-> f.list, heap |-> f.heap, used |-> f.used,
             missed |-> f.missed]
    BY <1>8, MemParts
  <2>2. m = [vm |-> m.vm, list |-> m.list, heap |-> m.heap, used |-> m.used,
             missed |-> m.missed]
    BY <1>1, MemParts
  <2> QED BY <1>2, <1>8, <1>9, <1>10, <2>1, <2>2
<1>12. [m EXCEPT !.used = @ - 0] = m
  <2> DEFINE w == [vm |-> m.vm, list |-> m.list, heap |-> m.heap, used |-> m.used,
                   missed |-> m.missed]
  <2>1. m = w /\ m.used \in Int
    BY <1>1, MemParts
  <2>2. m.used - 0 = m.used
    BY <2>1
  <2>3. [m EXCEPT !.used = @ - 0] = [w EXCEPT !.used = m.used]
    BY <2>1, <2>2
  <2> QED BY <2>1, <2>3
<1> QED
  BY <1>7, <1>11, <1>12 DEF f, n, a

\* The wasteful way moves a block that would cross, within its region.
LEMMA DmaWastefulGives ==
  ASSUME NEW m, NEW bs, Good(m, bs), NEW size \in Nat, size >= 1,
         NEW o \in DmaWasteful(m, size), NEW b \in BlockType, b.size = size, b.kind = "dma"
  PROVE  Gives(m, bs, o, b)
<1> DEFINE big == WastefulSize(size)
           shift(r) == (r.phys \div Frame + 1) * Frame - r.phys
           moved(r) == [addr |-> r.addr + shift(r),
                        m |-> Charge(AddBaseAddress(r.m, r.addr, r.addr + shift(r), big), big)]
           kept(r) == [addr |-> r.addr, m |-> Charge(r.m, big)]
           out(r) == IF r.phys = NoPhys THEN Failure(free_pages(r.m, r.addr))
                     ELSE IF Crosses(r.phys, size) THEN moved(r) ELSE kept(r)
<1>1. DmaWasteful(m, size) = {Failure(m)} \cup {out(r) : r \in VMAlloc(m, big)}
  BY DEF DmaWasteful
<1>2. big \in Nat /\ big >= 1 /\ big >= size /\ Frame \in Nat /\ Frame > 0
  BY PageConstants DEF WastefulSize
<1>3. CASE o = Failure(m)
  BY <1>3 DEF Failure, Gives
<1> HIDE DEF big
<1>4. ASSUME NEW r \in VMAlloc(m, big), o = out(r) PROVE Gives(m, bs, o, b)
  <2>1. r.addr \in Nat /\ r.phys \in NoPhys .. (Frame - 1)
    BY <1>2, VMAllocEffect DEF Good
  <2>2. CASE r.phys = NoPhys
    <3>1. o = Failure(m)
      BY <1>2, <1>4, <2>2, FreedAtOnce
    <3> QED BY <3>1 DEF Failure, Gives
  <2>3. CASE r.phys # NoPhys /\ Crosses(r.phys, size)
    <3> DEFINE d == shift(r)
               p == r.addr + d
    <3>1. r.phys \in 0 .. (Frame - 1)
      BY <1>2, <2>1, <2>3 DEF NoPhys
    <3>2. /\ d \in Nat /\ d + size <= big
          /\ (r.phys + d) \div Frame = (r.phys + d + Part(size) - 1) \div Frame
      BY <2>3, <3>1, MovesToFrame DEF big
    <3>3. o = [addr |-> p, m |-> Charge(AddBaseAddress(r.m, r.addr, p, big), big)]
      <4> HIDE DEF d
      <4> QED BY <1>4, <2>3 DEF d
    <3> HIDE DEF d
    <3>4. p \in Nat /\ r.addr <= p /\ p + b.size <= r.addr + big /\ p - r.addr = d
      BY <1>2, <2>1, <3>2
    <3> HIDE DEF p
    <3>5. Lies(r.addr, r.phys, p, b)
      BY <3>2, <3>4 DEF Lies
    <3> QED
      BY <1>2, <3>3, <3>4, <3>5, Recording
  <2>4. CASE r.phys # NoPhys /\ ~Crosses(r.phys, size)
    <3> DEFINE p == r.addr
    <3>1. r.phys \in 0 .. (Frame - 1)
      BY <1>2, <2>1, <2>4 DEF NoPhys
    <3>2. r.phys \div Frame = (r.phys + Part(size) - 1) \div Frame
      BY <2>4, <3>1, StaysInFrame
    <3>3. o = [addr |-> p, m |-> Charge(r.m, big)]
      BY <1>4, <2>4
    <3>4. /\ p \in Nat /\ r.addr <= p /\ p + b.size <= r.addr + big
          /\ r.phys + (p - r.addr) = r.phys /\ p = r.addr
      BY <1>2, <2>1, <3>1
    <3> HIDE DEF p
    <3>5. Lies(r.addr, r.phys, p, b)
      BY <3>2, <3>4 DEF Lies
    <3> QED
      BY <1>2, <3>3, <3>4, <3>5, NotRecording
  <2> QED
    BY <2>2, <2>3, <2>4
<1> QED
  <2> HIDE DEF out
  <2> QED BY <1>1, <1>3, <1>4

\* Pages, with and without DMA.
LEMMA GetFreePagesGives ==
  ASSUME NEW m, NEW bs, Good(m, bs), NEW dma \in BOOLEAN, NEW size \in Nat, size >= 1,
         NEW o \in get_free_pages(m, dma, size), NEW b \in BlockType, b.size = size,
         b.kind = IF dma THEN "dma" ELSE "pages"
  PROVE  Gives(m, bs, o, b)
<1>1. CASE dma
  <2> DEFINE tried == DmaTry(m, size)
  <2>1. b.kind = "dma"
    BY <1>1
  <2>2. ASSUME NEW x \in tried PROVE x = Failure(m) \/ (x.addr # NoPhys /\ Gives(m, bs, x, b))
    BY <2>1, DmaTryGives
  <2>3. ASSUME NEW x \in tried, x.addr = NoPhys PROVE x.m = m
    BY <2>2, <2>3 DEF Failure
  <2> HIDE DEF tried
  <2>4. \/ o \in tried /\ o.addr # NoPhys
        \/ \E x \in tried : x.addr = NoPhys /\ o \in DmaWasteful(x.m, size)
    BY <1>1 DEF get_free_pages, tried
  <2>5. CASE o \in tried /\ o.addr # NoPhys
    BY <2>2, <2>5 DEF Failure
  <2>6. CASE o \in DmaWasteful(m, size)
    BY <2>1, <2>6, DmaWastefulGives
  <2> QED
    BY <2>3, <2>4, <2>5, <2>6
<1>2. CASE ~dma
  <2>1. o \in vmalloc(m, size) /\ b.kind = "pages"
    BY <1>2 DEF get_free_pages
  <2>2. b.size <= RoundUp(size) /\ b.size >= 1
    BY RoundUpHolds
  <2> QED BY <2>1, <2>2, VmallocGives
<1> QED
  BY <1>1, <1>2

\* The number of free blocks of the private heap, and nothing else.
LEMMA HeapEffect ==
  ASSUME NEW m, IsMem(m), NEW h \in Nat, NEW u, u = [m EXCEPT !.heap = h]
  PROVE  /\ IsMem(u) /\ u.vm = m.vm /\ u.list = m.list /\ u.heap = h
         /\ u.used = m.used /\ u.missed = m.missed
<1> DEFINE w == [vm |-> m.vm, list |-> m.list, heap |-> m.heap, used |-> m.used,
                 missed |-> m.missed]
<1>1. m = w
  BY MemParts
<1>2. u = [w EXCEPT !.heap = h]
  BY <1>1
<1>3. u = [vm |-> m.vm, list |-> m.list, heap |-> h, used |-> m.used, missed |-> m.missed]
  BY <1>2
<1> QED
  BY <1>3, MemParts DEF IsMem

\* The blocks with one more block are still blocks.
LEMMA WithBlocks ==
  ASSUME NEW bs, AreBlocks(bs), NEW p \in 0 .. (Space + HeapSlots - 1), NEW b \in BlockType,
         p < Space => b.size >= 1, b.kind = "kmalloc"
  PROVE  AreBlocks(BlocksPlus(bs, p, b))
<1> DEFINE cs == BlocksPlus(bs, p, b)
<1>1. /\ DOMAIN cs = DOMAIN bs \cup {p} /\ cs[p] = b
      /\ \A q \in DOMAIN bs \ {p} : cs[q] = bs[q]
  BY DEF BlocksPlus
<1>2. cs \in [DOMAIN cs -> BlockType]
  <2>1. bs \in [DOMAIN bs -> BlockType]
    BY DEF AreBlocks
  <2> QED BY <1>1, <2>1 DEF BlocksPlus
<1> HIDE DEF cs
<1>3. ASSUME NEW q \in DOMAIN cs, q < Space PROVE cs[q].size >= 1
  <2>1. CASE q = p
    BY <1>1, <1>3, <2>1
  <2>2. CASE q \in DOMAIN bs \ {p}
    BY <1>1, <1>3, <2>2 DEF AreBlocks
  <2> QED BY <1>1, <2>1, <2>2
<1>4. DOMAIN cs \subseteq 0 .. (Space + HeapSlots - 1)
  BY <1>1 DEF AreBlocks
<1>5. ASSUME NEW q \in DOMAIN cs, q >= Space PROVE cs[q].kind = "kmalloc"
  <2>1. CASE q = p
    BY <1>1, <1>5, <2>1
  <2>2. CASE q \in DOMAIN bs \ {p}
    BY <1>1, <1>5, <2>2 DEF AreBlocks
  <2> QED BY <1>1, <2>1, <2>2
<1> QED
  BY <1>2, <1>3, <1>4, <1>5 DEF AreBlocks, cs

\* While the private heap has a free block, it has an address for it.
LEMMA HeapAddress ==
  ASSUME NEW m, NEW bs, Good(m, bs), m.heap # 0
  PROVE  LET p == Min(HeapAddrs \ DOMAIN bs)
         IN  p \in HeapAddrs /\ p \notin DOMAIN bs
<1>1. IsMem(m) /\ AreBlocks(bs) /\ HeapRoom(m, bs)
  BY DEF Good
<1>2. /\ InHeapOf(bs) \subseteq HeapAddrs /\ Cardinality(HeapAddrs) = HeapSlots
  BY <1>1, HeapCount
<1>3. m.heap \in Nat /\ Len(m.list) \in Nat /\ Space \in Nat /\ HeapSlots \in Nat
  BY <1>1, MemParts, PageConstants
<1>4. HeapAddrs \ DOMAIN bs # {}
  <2> SUFFICES ASSUME HeapAddrs \subseteq DOMAIN bs PROVE FALSE
    OBVIOUS
  <2>1. \A x \in HeapAddrs : x >= Space
    BY <1>3 DEF HeapAddrs
  <2>2. InHeapOf(bs) = HeapAddrs
    BY <1>2, <2>1 DEF InHeapOf
  <2>3. m.heap + HeapSlots + Len(m.list) <= HeapSlots
    BY <1>1, <1>2, <2>2 DEF HeapRoom
  <2> QED BY <1>3, <2>3
<1>5. HeapAddrs \ DOMAIN bs \in SUBSET Nat
  BY <1>3 DEF HeapAddrs
<1> QED
  BY <1>4, <1>5, MinNat

\* kmalloc: pages, or a block of the private heap.
LEMMA KmallocGives ==
  ASSUME NEW m, Good(m, blocks), NEW n \in Nat, NEW o \in kmalloc(m, n),
         NEW b \in BlockType, b.size = Usable(n), b.kind = "kmalloc"
  PROVE  Gives(m, blocks, o, b)
<1>0. PAGE_SIZE \in Nat /\ PAGE_SIZE > 0 /\ Space \in Nat /\ HeapSlots \in Nat
  BY PageConstants
<1>1. CASE n >= PAGE_SIZE
  <2>1. o \in vmalloc(m, n) /\ b.size = RoundUp(n) /\ n >= 1
    BY <1>0, <1>1 DEF kmalloc, Usable
  <2>2. b.size \in Nat /\ b.size >= 1 /\ b.size <= RoundUp(n)
    BY <2>1, RoundUpHolds
  <2> QED BY <2>1, <2>2, VmallocGives
<1>2. CASE ~(n >= PAGE_SIZE) /\ m.heap = 0
  <2>1. o = Failure(m)
    BY <1>2 DEF kmalloc, HeapMalloc
  <2> QED BY <2>1 DEF Failure, Gives
<1>3. CASE ~(n >= PAGE_SIZE) /\ m.heap # 0
  <2> DEFINE p == Min(HeapAddrs \ DOMAIN blocks)
             u == [m EXCEPT !.heap = m.heap - 1]
             cs == BlocksPlus(blocks, p, b)
  <2>1. o = [addr |-> p, m |-> u]
    BY <1>3 DEF kmalloc, HeapMalloc
  <2>2. p \in HeapAddrs /\ p \notin DOMAIN blocks
    BY <1>3, HeapAddress
  <2> HIDE DEF p
  <2>3. p \in 0 .. (Space + HeapSlots - 1) /\ p >= Space /\ ~(p < Space)
    BY <1>0, <2>2 DEF HeapAddrs
  <2>4. IsMem(m) /\ AreBlocks(blocks) /\ HeapRoom(m, blocks) /\ NoTwice(m)
    BY DEF Good, EntriesTrue
  <2>5. m.heap \in Nat /\ m.heap - 1 \in Nat /\ Len(m.list) \in Nat
    BY <1>3, <2>4, MemParts
  <2>6. /\ IsMem(u) /\ u.vm = m.vm /\ u.list = m.list /\ u.heap = m.heap - 1
        /\ u.missed = m.missed
    BY <2>4, <2>5, HeapEffect
  <2>7. Entries(u) = Entries(m) /\ NoTwice(u)
    BY <2>4, <2>6, SameList
  <2> HIDE DEF u
  <2>8. AreBlocks(cs)
    BY <2>3, <2>4, WithBlocks
  <2>9. /\ DOMAIN cs = DOMAIN blocks \cup {p}
        /\ \A q \in DOMAIN blocks : cs[q] = blocks[q]
    BY <2>2 DEF BlocksPlus
  <2> HIDE DEF cs
  <2>10. InPages(cs) = InPages(blocks) /\ InHeapOf(cs) = InHeapOf(blocks) \cup {p}
    BY <2>3, <2>9 DEF InPages, InHeapOf
  <2>11. HeapRoom(u, cs)
    <3>1. p \notin InHeapOf(blocks)
      BY <2>2 DEF InHeapOf
    <3>2. IsFiniteSet(InHeapOf(blocks)) /\ Cardinality(InHeapOf(blocks)) \in Nat
      BY <2>4, HeapCount
    <3>3. Cardinality(InHeapOf(cs)) = Cardinality(InHeapOf(blocks)) + 1
      BY <2>10, <3>1, <3>2, FS_AddElement
    <3>4. m.heap + Cardinality(InHeapOf(blocks)) + Len(m.list) <= HeapSlots
      BY <2>4 DEF HeapRoom
    <3> DEFINE k == Cardinality(InHeapOf(blocks))
               h == m.heap
               l == Len(m.list)
    <3>5. u.heap = h - 1 /\ Cardinality(InHeapOf(cs)) = k + 1 /\ Len(u.list) = l
          /\ h + k + l <= HeapSlots /\ k \in Nat /\ h \in Nat /\ l \in Nat
      BY <2>5, <2>6, <3>2, <3>3, <3>4
    <3> HIDE DEF k, h, l
    <3>6. (h - 1) + (k + 1) + l <= HeapSlots
      BY <1>0, <3>5
    <3> QED BY <3>5, <3>6 DEF HeapRoom
  <2>12. \A q \in InPages(blocks) : cs[q].size = blocks[q].size /\ cs[q].kind = blocks[q].kind
    BY <2>9 DEF InPages
  <2>13. Good(u, cs)
    BY <2>6, <2>7, <2>8, <2>10, <2>11, <2>12, SameGood
  <2>14. o.addr = p /\ o.m = u
    BY <2>1 DEF u
  <2>15. p # NoPhys
    BY <1>0, <2>3 DEF NoPhys
  <2> QED
    BY <2>2, <2>13, <2>14, <2>15 DEF Gives, cs
<1> QED
  BY <1>1, <1>2, <1>3

-----------------------------------------------------------------------------
\* A block goes back to the private heap.
LEMMA HeapFreeGood ==
  ASSUME NEW m, NEW bs, Good(m, bs), NEW p \in InHeapOf(bs)
  PROVE  Good([m EXCEPT !.heap = @ + 1], BlocksMinus(bs, p))
<1> DEFINE u == [m EXCEPT !.heap = m.heap + 1]
           cs == BlocksMinus(bs, p)
<1>0. Space \in Nat /\ HeapSlots \in Nat
  BY PageConstants
<1>1. IsMem(m) /\ AreBlocks(bs) /\ HeapRoom(m, bs) /\ NoTwice(m)
  BY DEF Good, EntriesTrue
<1>2. m.heap \in Nat /\ m.heap + 1 \in Nat /\ Len(m.list) \in Nat
  BY <1>1, MemParts
<1>3. /\ IsMem(u) /\ u.vm = m.vm /\ u.list = m.list /\ u.heap = m.heap + 1
      /\ u.missed = m.missed
  BY <1>1, <1>2, HeapEffect
<1>4. Entries(u) = Entries(m) /\ NoTwice(u)
  BY <1>1, <1>3, SameList
<1> HIDE DEF u
<1>5. p \in DOMAIN bs /\ p >= Space /\ p \in Int
  BY <1>1 DEF InHeapOf, AreBlocks
<1>6. DOMAIN cs = DOMAIN bs \ {p} /\ \A q \in DOMAIN cs : cs[q] = bs[q]
  BY DEF BlocksMinus
<1>7. AreBlocks(cs)
  <2>1. cs \in [DOMAIN cs -> BlockType]
    BY <1>1, <1>6 DEF AreBlocks, BlocksMinus
  <2> HIDE DEF cs
  <2> QED BY <1>1, <1>6, <2>1 DEF AreBlocks
<1> HIDE DEF cs
<1>8. InPages(cs) = InPages(bs) /\ InHeapOf(cs) = InHeapOf(bs) \ {p}
  BY <1>0, <1>5, <1>6 DEF InPages, InHeapOf
<1>9. HeapRoom(u, cs)
  <2> DEFINE k == Cardinality(InHeapOf(bs))
             h == m.heap
             l == Len(m.list)
  <2>1. IsFiniteSet(InHeapOf(bs)) /\ k \in Nat
    BY <1>1, HeapCount
  <2>2. Cardinality(InHeapOf(cs)) = k - 1
    BY <1>8, <2>1, FS_RemoveElement
  <2>3. u.heap = h + 1 /\ Len(u.list) = l
        /\ h + k + l <= HeapSlots /\ k \in Nat /\ h \in Nat /\ l \in Nat
    BY <1>1, <1>2, <1>3, <2>1 DEF HeapRoom
  <2> HIDE DEF k, h, l
  <2>4. (h + 1) + (k - 1) + l <= HeapSlots
    BY <1>0, <2>3
  <2> QED BY <2>2, <2>3, <2>4 DEF HeapRoom
<1>10. \A q \in InPages(bs) : cs[q].size = bs[q].size /\ cs[q].kind = bs[q].kind
  BY <1>6, <1>8 DEF InPages
<1>11. Good(u, cs)
  BY <1>3, <1>4, <1>7, <1>8, <1>9, <1>10, SameGood
<1> QED
  BY <1>11 DEF u, cs

\* The free of pages: the entry of the block p goes, and then the region
\* at x, if x is where the block lies; or the block's region was missed.
LEMMA DischargeGood ==
  ASSUME NEW m, NEW bs, Good(m, bs), NEW p \in InPages(bs), NEW a, In(m, bs, p, a), NEW x,
         x = a \/ (x \notin DOMAIN m.vm /\ a \in m.missed)
  PROVE  Good(Discharge(GetBaseAddressAndFree(m, p), x, Recorded(m, p).size), BlocksMinus(bs, p))
<1> DEFINE g == GetBaseAddressAndFree(m, p)
           s == Recorded(m, p).size
           u == Discharge(g, x, s)
<1>1. IsMem(m) /\ NoTwice(m) /\ a \in DOMAIN m.vm
  BY DEF Good, EntriesTrue, In
<1>2. /\ IsMem(g) /\ NoTwice(g) /\ g.vm = m.vm /\ g.missed = m.missed
      /\ Entries(g) = {e \in Entries(m) : e.retaddr # p}
      /\ g.heap + Len(g.list) = m.heap + Len(m.list)
  BY <1>1, GetBaseEffect
<1>3. s \in Int
  <2>1. CASE Hits(m, p) = {}
    BY <2>1 DEF Recorded
  <2>2. CASE Hits(m, p) # {}
    <3>1. Recorded(m, p) \in Entries(m) /\ Entries(m) \subseteq Entry
      BY <1>1, <2>2, RecordedEntry, MemParts
    <3>2. Recorded(m, p) \in Entry
      BY <3>1
    <3>3. Recorded(m, p).size \in 1 .. Space
      BY <3>2 DEF Entry
    <3> QED BY <3>3, PageConstants
  <2> QED BY <2>1, <2>2
<1> HIDE DEF g, s
<1>4. /\ x \notin DOMAIN g.vm => u = g
      /\ x \in DOMAIN g.vm =>
            /\ IsMem(u) /\ u.vm = VmMinus(g.vm, x) /\ u.missed = g.missed \ {x}
            /\ u.list = g.list /\ u.heap = g.heap
  BY <1>2, <1>3, DischargeEffect
<1> HIDE DEF u
<1>5. m.heap \in Nat /\ Len(m.list) \in Nat
  BY <1>1, MemParts
<1>6. CASE x = a
  <2>1. /\ IsMem(u) /\ u.vm = VmMinus(m.vm, a) /\ u.missed = m.missed \ {a}
        /\ u.list = g.list /\ u.heap = g.heap
    BY <1>1, <1>2, <1>4, <1>6
  <2>2. Entries(u) = Entries(g) /\ NoTwice(u)
    BY <1>2, <2>1, SameList
  <2>3. u.heap + Len(u.list) <= m.heap + Len(m.list)
    BY <1>2, <1>5, <2>1
  <2>4. Good(u, BlocksMinus(bs, p))
    BY <1>2, <2>1, <2>2, <2>3, Shrink
  <2> QED BY <2>4 DEF u, g, s
<1>7. CASE x \notin DOMAIN m.vm /\ a \in m.missed
  <2>1. u = g
    BY <1>2, <1>4, <1>7
  <2>2. u.heap + Len(u.list) <= m.heap + Len(m.list)
    BY <1>2, <1>5, <2>1
  <2>3. Good(u, BlocksMinus(bs, p))
    BY <1>2, <1>7, <2>1, <2>2, Shrink
  <2> QED BY <2>3 DEF u, g, s
<1> QED
  BY <1>6, <1>7

\* A block that kfree loses keeps its region and its entry.
LEMMA LostGood ==
  ASSUME NEW m, NEW bs, Good(m, bs), NEW p \in InPages(bs)
  PROVE  Good(m, [bs EXCEPT ![p].kind = "lost"])
<1> DEFINE cs == [bs EXCEPT ![p].kind = "lost"]
           x == [bs[p] EXCEPT !.kind = "lost"]
<1>1. AreBlocks(bs) /\ p \in DOMAIN bs /\ p < Space
  BY DEF Good, InPages
<1>2. x \in BlockType /\ x.kind = "lost" /\ x.size = bs[p].size
  <2>1. bs[p] \in BlockType
    BY <1>1 DEF AreBlocks
  <2> QED BY <2>1 DEF BlockType
<1>3. cs = [q \in DOMAIN bs |-> IF q = p THEN x ELSE bs[q]]
  BY <1>1 DEF AreBlocks
<1> HIDE DEF cs, x
<1>4. DOMAIN cs = DOMAIN bs /\ \A q \in DOMAIN bs : cs[q].size = bs[q].size
  BY <1>2, <1>3
<1>5. cs[p].kind = "lost" /\ \A q \in DOMAIN bs : q # p => cs[q] = bs[q]
  BY <1>1, <1>2, <1>3
<1>6. AreBlocks(cs)
  <2>1. cs \in [DOMAIN cs -> BlockType]
    BY <1>1, <1>2, <1>3 DEF AreBlocks
  <2>2. \A q \in DOMAIN cs : q >= Space => q # p
    BY <1>1, <1>4, PageConstants DEF AreBlocks
  <2> QED BY <1>1, <1>4, <1>5, <2>1, <2>2 DEF AreBlocks
<1>7. InPages(cs) = InPages(bs) /\ InHeapOf(cs) = InHeapOf(bs)
  BY <1>4 DEF InPages, InHeapOf
<1>8. \A q \in InPages(bs) : \A a : In(m, cs, q, a) <=> In(m, bs, q, a)
  BY <1>4 DEF In, InPages
<1>9. Housed(m, cs)
  BY <1>7, <1>8 DEF Good, Housed
<1>10. EntriesTrue(m, cs)
  <2> SUFFICES ASSUME NEW e \in Entries(m)
               PROVE  /\ e.retaddr \in InPages(cs) /\ cs[e.retaddr].kind # "io"
                      /\ In(m, cs, e.retaddr, e.base) /\ e.size = m.vm[e.base].size
    BY DEF EntriesTrue, Good
  <2>1. /\ e.retaddr \in InPages(bs) /\ bs[e.retaddr].kind # "io"
        /\ In(m, bs, e.retaddr, e.base) /\ e.size = m.vm[e.base].size
    BY DEF Good, EntriesTrue
  <2> QED BY <1>5, <1>7, <1>8, <2>1 DEF InPages
<1>11. Found(m, cs)
  <2> SUFFICES ASSUME NEW q \in InPages(bs), NEW a \in DOMAIN m.vm, In(m, bs, q, a), q # p
               PROVE  /\ bs[q].kind = "io" => a = (q \div PAGE_SIZE) * PAGE_SIZE
                      /\ bs[q].kind = "kmalloc" => a = q
                      /\ bs[q].kind \in {"dma", "pages"} =>
                            a = q \/ a \in m.missed \/ \E e \in Entries(m) : e.retaddr = q
    BY <1>5, <1>7, <1>8 DEF Found, InPages
  <2> QED BY DEF Good, Found
<1>12. Framed(m, cs)
  <2> SUFFICES ASSUME NEW q \in InPages(bs), NEW a \in DOMAIN m.vm,
                      In(m, bs, q, a), cs[q].kind = "dma", m.vm[a].phys # NoPhys
               PROVE  LET f == m.vm[a].phys + (q - a)
                      IN  f \div Frame = (f + Part(cs[q].size) - 1) \div Frame
    BY <1>7, <1>8 DEF Framed
  <2>1. cs[q] = bs[q]
    BY <1>5 DEF InPages
  <2> QED BY <2>1 DEF Good, Framed
<1>13. HeapRoom(m, cs)
  BY <1>7 DEF Good, HeapRoom
<1>14. Good(m, cs)
  BY <1>6, <1>9, <1>10, <1>11, <1>12, <1>13 DEF Good
<1> QED
  BY <1>14 DEF cs

\* kfree: a block of the heap, one behind the heap, or pages.
LEMMA KfreeGood ==
  ASSUME NEW m, NEW bs, Good(m, bs), NEW p \in DOMAIN bs, bs[p].kind = "kmalloc"
  PROVE  Good(kfree(m, p), AfterKfree(bs, p))
<1>1. p \in Int /\ Space \in Nat /\ Without(bs, p) = BlocksMinus(bs, p)
  BY PageConstants DEF Good, AreBlocks, Without, BlocksMinus
<1>2. CASE FreeFinds(p)
  <2>1. p \in InHeapOf(bs) /\ IsHeapAddr(p)
    BY <1>2 DEF InHeapOf, IsHeapAddr, FreeFinds
  <2>2. kfree(m, p) = [m EXCEPT !.heap = @ + 1] /\ AfterKfree(bs, p) = BlocksMinus(bs, p)
    BY <1>1, <1>2, <2>1 DEF kfree, AfterKfree
  <2> QED BY <2>1, <2>2, HeapFreeGood
<1>4. CASE IsHeapAddr(p) /\ ~FreeFinds(p)
  <2>1. p \in InPages(bs)
    BY <1>1, <1>4 DEF InPages, FreeFinds
  <2> QED BY <1>4, <2>1, LostGood DEF kfree, AfterKfree
<1>3. CASE ~IsHeapAddr(p)
  <2>1. p \in InPages(bs)
    BY <1>1, <1>3 DEF InPages, IsHeapAddr
  <2>2. PICK a \in DOMAIN m.vm : In(m, bs, p, a)
    BY <2>1 DEF Good, Housed
  <2>3. a = p
    BY <2>1, <2>2 DEF Good, Found
  <2>4. Good(Discharge(GetBaseAddressAndFree(m, p), p, Recorded(m, p).size), BlocksMinus(bs, p))
    BY <2>1, <2>2, <2>3, DischargeGood
  <2> QED BY <1>1, <1>3, <2>4 DEF kfree, vfree, AfterKfree
<1> QED
  BY <1>2, <1>3, <1>4

\* free_pages: an entry leads to the region of its block.  Without one the
\* block begins its region, or the free does nothing.
LEMMA FreePagesGood ==
  ASSUME NEW m, NEW bs, Good(m, bs), NEW p \in DOMAIN bs, bs[p].kind \in {"dma", "pages"}
  PROVE  Good(free_pages(m, p), BlocksMinus(bs, p))
<1> DEFINE x == Recorded(m, p).base
<1>1. /\ IsMem(m) /\ AreBlocks(bs) /\ RegionsApart(m) /\ EntriesTrue(m, bs) /\ Found(m, bs)
  BY DEF Good
<1>0. p \in InPages(bs)
  BY PageConstants DEF Good, AreBlocks, InPages
<1>2. PICK a \in DOMAIN m.vm : In(m, bs, p, a)
  BY <1>0 DEF Good, Housed
<1>3. CASE Hits(m, p) # {}
  <2>1. Recorded(m, p) \in Entries(m) /\ Recorded(m, p).retaddr = p
    BY <1>1, <1>3, RecordedEntry
  <2>2. In(m, bs, p, x)
    BY <1>1, <2>1 DEF EntriesTrue
  <2>3. x = a
    BY <1>0, <1>1, <1>2, <2>2, OneRegionOfBlock
  <2> QED BY <1>0, <1>2, <2>3, DischargeGood DEF free_pages
<1>4. CASE Hits(m, p) = {}
  <2>1. x = p /\ \A e \in Entries(m) : e.retaddr # p
    BY <1>1, <1>4, RecordedEntry
  <2>2. a = p \/ a \in m.missed
    BY <1>0, <1>1, <1>2, <2>1 DEF Found
  <2>3. CASE p \in DOMAIN m.vm
    <3>1. p \in Nat /\ m.vm[p].size \in Nat /\ m.vm[p].size >= 1
      BY <1>1, <2>3, RegionNumbers
    <3>2. a \in Nat /\ m.vm[a].size \in Nat /\ bs[p].size \in Nat /\ bs[p].size >= 1
      BY <1>0, <1>1, RegionNumbers, BlockNumbers
    <3>3. a <= p /\ p + bs[p].size <= a + m.vm[a].size
      BY <1>2 DEF In
    <3>4. p < a + m.vm[a].size /\ p <= p /\ p < p + m.vm[p].size
      BY <3>1, <3>2, <3>3
    <3>5. a = p
      BY <1>1, <2>3, <3>1, <3>3, <3>4, OneRegion
    <3> QED BY <1>0, <1>2, <2>1, <3>5, DischargeGood DEF free_pages
  <2>4. CASE p \notin DOMAIN m.vm
    <3>1. a # p
      BY <2>4
    <3>2. a \in m.missed /\ x \notin DOMAIN m.vm
      BY <2>1, <2>2, <2>4, <3>1
    <3> QED BY <1>0, <1>2, <3>2, DischargeGood DEF free_pages
  <2> QED BY <2>3, <2>4
<1> QED
  BY <1>3, <1>4

\* iounmap: the start of the page is the region of device memory.
LEMMA IounmapGood ==
  ASSUME NEW m, NEW bs, Good(m, bs), NEW p \in DOMAIN bs, bs[p].kind = "io"
  PROVE  Good(VMFree(m, (p \div PAGE_SIZE) * PAGE_SIZE), BlocksMinus(bs, p))
<1> DEFINE x == (p \div PAGE_SIZE) * PAGE_SIZE
           u == VMFree(m, x)
<1>1. IsMem(m) /\ NoTwice(m) /\ EntriesTrue(m, bs) /\ Found(m, bs)
  BY DEF Good, EntriesTrue
<1>0. p \in InPages(bs)
  BY PageConstants DEF Good, AreBlocks, InPages
<1>2. PICK a \in DOMAIN m.vm : In(m, bs, p, a)
  BY <1>0 DEF Good, Housed
<1>3. x = a
  BY <1>0, <1>1, <1>2 DEF Found
<1> HIDE DEF x
<1>4. /\ IsMem(u) /\ u.vm = VmMinus(m.vm, a) /\ u.missed = m.missed \ {a}
      /\ u.list = m.list /\ u.heap = m.heap
  BY <1>1, <1>3, VMFreeEffect
<1> HIDE DEF u
<1>5. NoTwice(u) /\ Entries(u) = Entries(m)
  BY <1>1, <1>4, SameList
<1>6. \A e \in Entries(m) : e.retaddr # p
  BY <1>1 DEF EntriesTrue
<1>7. Entries(u) = {e \in Entries(m) : e.retaddr # p}
  BY <1>5, <1>6
<1>8. u.heap + Len(u.list) <= m.heap + Len(m.list)
  BY <1>1, <1>4, MemParts
<1>9. Good(u, BlocksMinus(bs, p))
  BY <1>0, <1>2, <1>4, <1>5, <1>7, <1>8, Shrink
<1> QED
  BY <1>9 DEF u, x

-----------------------------------------------------------------------------
(***************************************************************************)
(* The calls keep the memory good.                                         *)
(***************************************************************************)
\* What a call returns is held.
LEMMA ReturnedGood ==
  ASSUME PageIInv, NEW o, NEW b, Gives(mem, blocks, o, b), Returned(o, b)
  PROVE  PageIInv'
<1>1. CASE o.addr = NoPhys
  BY <1>1 DEF Gives, Returned, PageIInv
<1>2. CASE o.addr # NoPhys
  <2>1. Good(o.m, BlocksPlus(blocks, o.addr, b))
    BY <1>2 DEF Gives
  <2>2. mem' = o.m /\ blocks' = BlocksPlus(blocks, o.addr, b)
    BY <1>2 DEF Returned, Hold, BlocksPlus
  <2> QED BY <2>1, <2>2 DEF PageIInv
<1> QED
  BY <1>1, <1>2

\* The blocks that the calls make.
LEMMA MadeBlock ==
  ASSUME NEW k \in {"kmalloc", "dma", "pages", "io"}, NEW s \in Nat, NEW w \in Nat
  PROVE  LET b == Block(k, s, w)
         IN  b \in BlockType /\ b.kind = k /\ b.size = s
BY DEF Block, BlockType

\* The size of a block of kmalloc.
LEMMA UsableNat ==
  ASSUME NEW n \in Nat
  PROVE  Usable(n) \in Nat
BY RoundUpHolds, PageConstants DEF Usable

\* kmalloc.
LEMMA KmallocKeeps ==
  ASSUME PageIInv, NEW n \in Sizes, CallKmalloc(n)
  PROVE  PageIInv'
<1> DEFINE b == Block("kmalloc", Usable(n), n)
<1>1. n \in Nat
  BY PageConstants
<1>2. b \in BlockType /\ b.kind = "kmalloc" /\ b.size = Usable(n)
  BY <1>1, UsableNat, MadeBlock
<1>3. PICK o \in kmalloc(mem, n) : Returned(o, b)
  BY DEF CallKmalloc
<1> HIDE DEF b
<1>4. Gives(mem, blocks, o, b)
  BY <1>1, <1>2, KmallocGives DEF PageIInv
<1> QED
  BY <1>3, <1>4, ReturnedGood

\* kfree.
LEMMA KfreeKeeps ==
  ASSUME PageIInv, NEW p \in DOMAIN blocks, CallKfree(p)
  PROVE  PageIInv'
<1>1. Good(kfree(mem, p), AfterKfree(blocks, p))
  BY KfreeGood DEF PageIInv, CallKfree
<1>2. mem' = kfree(mem, p) /\ blocks' = AfterKfree(blocks, p)
  BY DEF CallKfree
<1> QED
  BY <1>1, <1>2 DEF PageIInv

\* __get_free_pages.
LEMMA GetFreePagesKeeps ==
  ASSUME PageIInv, NEW dma \in BOOLEAN, NEW order \in Orders, CallGetFreePages(dma, order)
  PROVE  PageIInv'
<1> DEFINE size == 2^order * PAGE_SIZE
           k == IF dma THEN "dma" ELSE "pages"
           b == Block(k, size, size)
<1>1. size \in Nat /\ size >= 1
  <2> DEFINE t == 2^order
  <2>1. t \in Nat /\ t >= 1 /\ PAGE_SIZE \in Nat /\ PAGE_SIZE >= 1
    BY PageConstants
  <2> HIDE DEF t
  <2>2. t * PAGE_SIZE \in Nat /\ t * PAGE_SIZE >= 1
    BY <2>1
  <2> QED BY <2>2 DEF t
<1>2. PICK o \in get_free_pages(mem, dma, size) : Returned(o, b)
  BY DEF CallGetFreePages
<1> HIDE DEF size
<1>3. b \in BlockType /\ b.kind = k /\ b.size = size
  BY <1>1, MadeBlock
<1> HIDE DEF b
<1>4. Gives(mem, blocks, o, b)
  BY <1>1, <1>3, GetFreePagesGives DEF PageIInv
<1> QED
  BY <1>2, <1>4, ReturnedGood

\* free_pages.
LEMMA FreePagesKeeps ==
  ASSUME PageIInv, NEW p \in DOMAIN blocks, CallFreePages(p)
  PROVE  PageIInv'
<1>1. Good(free_pages(mem, p), BlocksMinus(blocks, p))
  BY FreePagesGood DEF PageIInv, CallFreePages
<1>2. mem' = free_pages(mem, p) /\ blocks' = BlocksMinus(blocks, p)
  BY DEF CallFreePages, Drop, Without, BlocksMinus
<1> QED
  BY <1>1, <1>2 DEF PageIInv

\* ioremap.
LEMMA IoremapKeeps ==
  ASSUME PageIInv, NEW off \in Offsets, CallIoremap(off)
  PROVE  PageIInv'
<1> DEFINE len == RoundUp(off + 1)
           b == Block("io", 1, 1)
<1>1. off \in 0 .. (PAGE_SIZE - 1) /\ off \in Nat /\ off + 1 \in Nat
  BY PageConstants
<1>2. len \in Nat /\ len >= off + 1
  BY <1>1, RoundUpHolds
<1>3. PICK r \in VMAlloc(mem, len) : Returned([addr |-> r.addr + off, m |-> r.m], b)
  BY DEF CallIoremap
<1>4. b \in BlockType /\ b.kind = "io" /\ b.size = 1
  BY MadeBlock
<1> HIDE DEF len, b
<1> DEFINE p == r.addr + off
           o == [addr |-> p, m |-> r.m]
<1>5. r.addr \in Nat /\ r.addr \in Pages /\ len >= 1
  BY <1>1, <1>2, VMAllocEffect DEF PageIInv, Good
<1>6. p \in Nat /\ r.addr <= p /\ p + b.size <= r.addr + len
  BY <1>1, <1>2, <1>4, <1>5
<1>7. Lies(r.addr, r.phys, p, b)
  <2>1. (p \div PAGE_SIZE) * PAGE_SIZE = r.addr
    BY <1>1, <1>5, PageStart
  <2> QED BY <1>4, <2>1 DEF Lies
<1> HIDE DEF p
<1>8. Gives(mem, blocks, o, b)
  BY <1>2, <1>4, <1>5, <1>6, <1>7, NotRecording DEF PageIInv
<1>9. Returned(o, b)
  BY <1>3 DEF p
<1> HIDE DEF o
<1> QED
  BY <1>8, <1>9, ReturnedGood

\* iounmap.
LEMMA IounmapKeeps ==
  ASSUME PageIInv, NEW p \in DOMAIN blocks, CallIounmap(p)
  PROVE  PageIInv'
<1>1. Good(VMFree(mem, (p \div PAGE_SIZE) * PAGE_SIZE), BlocksMinus(blocks, p))
  BY IounmapGood DEF PageIInv, CallIounmap
<1>2. mem' = VMFree(mem, (p \div PAGE_SIZE) * PAGE_SIZE) /\ blocks' = BlocksMinus(blocks, p)
  BY DEF CallIounmap, Drop, Without, BlocksMinus
<1> QED
  BY <1>1, <1>2 DEF PageIInv

\* ksize drops the entry of the block, which kfree can do without.
LEMMA KsizeGood ==
  ASSUME PageIInv, NEW p \in DOMAIN blocks, blocks[p].kind = "kmalloc"
  PROVE  Good(AfterKsize(mem, p), blocks)
<1>1. CASE IsHeapAddr(p)
  BY <1>1 DEF AfterKsize, PageIInv
<1>2. CASE ~IsHeapAddr(p)
  <2> DEFINE u == Unlink(mem, p)
  <2>1. /\ Good(mem, blocks) /\ IsMem(mem) /\ NoTwice(mem)
        /\ AreBlocks(blocks) /\ HeapRoom(mem, blocks)
    BY DEF PageIInv, Good, EntriesTrue
  <2>2. /\ IsMem(u) /\ NoTwice(u) /\ u.vm = mem.vm /\ u.heap = mem.heap /\ u.missed = mem.missed
        /\ Entries(u) = {e \in Entries(mem) : e.retaddr # p}
        /\ Len(u.list) = IF Hits(mem, p) = {} THEN Len(mem.list) ELSE Len(mem.list) - 1
    BY <2>1, Unlinked
  <2>3. AfterKsize(mem, p) = u
    BY <1>2 DEF AfterKsize, GetBaseAddressNoFree
  <2> HIDE DEF u
  <2>4. u.heap + Len(u.list) <= mem.heap + Len(mem.list)
    <3>1. mem.heap \in Nat /\ Len(mem.list) \in Nat
      BY <2>1, MemParts
    <3> QED BY <2>2, <3>1
  <2>5. HeapRoom(u, blocks)
    BY <2>1, <2>2, <2>4, RoomKept
  <2>6. Good(u, blocks)
    <3>1. Entries(u) \subseteq Entries(mem)
      BY <2>2
    <3>2. \A e \in Entries(mem) \ Entries(u) : blocks[e.retaddr].kind = "kmalloc"
      BY <2>2
    <3> QED BY <2>1, <2>2, <2>5, <3>1, <3>2, SameGood
  <2> QED BY <2>3, <2>6
<1> QED
  BY <1>1, <1>2

\* krealloc that returns the block it was given.
LEMMA ReallocInPlaceKeeps ==
  ASSUME PageIInv, NEW p \in DOMAIN blocks, blocks[p].kind = "kmalloc", NEW n \in Sizes,
         NEW ks, ReallocInPlace(p, n, ks)
  PROVE  PageIInv'
<1> DEFINE u == AfterKsize(mem, p)
<1>1. Good(u, blocks)
  BY KsizeGood
<1> HIDE DEF u
<1>2. mem' = u /\ blocks' = [blocks EXCEPT ![p].want = n, ![p].kept = @ /\ n <= blocks[p].size]
  BY DEF ReallocInPlace, u
<1>3. IsMem(u) /\ NoTwice(u) /\ AreBlocks(blocks) /\ HeapRoom(u, blocks)
  BY <1>1 DEF Good, EntriesTrue
<1>4. blocks \in [DOMAIN blocks -> BlockType] /\ n \in Nat
  BY <1>3, PageConstants DEF AreBlocks
<1> DEFINE x == [blocks[p] EXCEPT !.want = n, !.kept = blocks[p].kept /\ n <= blocks[p].size]
<1>5. x \in BlockType /\ x.kind = blocks[p].kind /\ x.size = blocks[p].size
  <2>1. blocks[p] \in BlockType
    BY <1>4
  <2> QED BY <1>4, <2>1 DEF BlockType
<1>6. blocks' = [blocks EXCEPT ![p] = x]
  BY <1>2, <1>4
<1> HIDE DEF x
<1>7. /\ DOMAIN blocks' = DOMAIN blocks /\ blocks' \in [DOMAIN blocks' -> BlockType]
      /\ \A q \in DOMAIN blocks :
            blocks'[q].size = blocks[q].size /\ blocks'[q].kind = blocks[q].kind
  BY <1>4, <1>5, <1>6
<1>8. AreBlocks(blocks')
  BY <1>3, <1>7 DEF AreBlocks
<1>9. InPages(blocks') = InPages(blocks) /\ InHeapOf(blocks') = InHeapOf(blocks)
  BY <1>7 DEF InPages, InHeapOf
<1>10. HeapRoom(u, blocks')
  BY <1>3, <1>9 DEF HeapRoom
<1>11. \A q \in InPages(blocks) :
          blocks'[q].size = blocks[q].size /\ blocks'[q].kind = blocks[q].kind
  BY <1>7 DEF InPages
<1>12. Good(u, blocks')
  BY <1>1, <1>3, <1>8, <1>9, <1>10, <1>11, SameGood
<1> QED
  BY <1>2, <1>12 DEF PageIInv

\* krealloc that copies to a new block.
LEMMA ReallocMovesKeeps ==
  ASSUME PageIInv, NEW p \in DOMAIN blocks, blocks[p].kind = "kmalloc", NEW n \in Sizes,
         NEW ks, ReallocMoves(p, n, ks)
  PROVE  PageIInv'
<1> DEFINE u == AfterKsize(mem, p)
           k == blocks[p].kept /\ ks >= Min({blocks[p].want, n})
           b == [Block("kmalloc", Usable(n), n) EXCEPT !.kept = k]
<1>1. Good(u, blocks)
  BY KsizeGood
<1>2. PICK o \in kmalloc(u, n) :
         IF o.addr = NoPhys
         THEN mem' = o.m /\ UNCHANGED blocks
         ELSE /\ mem' = kfree(o.m, p)
              /\ blocks' = AfterKfree(Hold(o.addr, b), p)
  BY DEF ReallocMoves
<1>3. b \in BlockType /\ b.kind = "kmalloc" /\ b.size = Usable(n)
  <2>1. n \in Nat /\ Usable(n) \in Nat /\ k \in BOOLEAN
    <3>1. n \in Nat
      BY PageConstants
    <3> QED BY <3>1, UsableNat
  <2>2. b = [kind |-> "kmalloc", size |-> Usable(n), want |-> n, kept |-> k]
    <3> HIDE DEF k
    <3> QED BY DEF Block
  <2> HIDE DEF b, k
  <2> QED BY <2>1, <2>2 DEF BlockType
<1> HIDE DEF u, b
<1>4. Gives(u, blocks, o, b)
  BY <1>1, <1>3, KmallocGives, PageConstants
<1>5. CASE o.addr = NoPhys
  <2>1. mem' = u /\ blocks' = blocks
    BY <1>2, <1>4, <1>5 DEF Gives
  <2> QED BY <1>1, <2>1 DEF PageIInv
<1>6. CASE o.addr # NoPhys
  <2> DEFINE bs == BlocksPlus(blocks, o.addr, b)
  <2>1. o.addr \notin DOMAIN blocks /\ Good(o.m, bs)
    BY <1>4, <1>6 DEF Gives
  <2>2. p \in DOMAIN bs /\ bs[p] = blocks[p]
    BY <2>1 DEF BlocksPlus
  <2>3. mem' = kfree(o.m, p) /\ blocks' = AfterKfree(bs, p)
    <3>1. Hold(o.addr, b) = bs
      BY DEF BlocksPlus, Hold
    <3> QED BY <1>2, <1>6, <3>1
  <2> HIDE DEF bs
  <2>4. Good(kfree(o.m, p), AfterKfree(bs, p))
    BY <2>1, <2>2, KfreeGood
  <2> QED BY <2>3, <2>4 DEF PageIInv
<1> QED
  BY <1>5, <1>6

\* The invariant holds when no block was given out yet.
LEMMA PageInitGood ==
  PageInit => PageIInv
<1> SUFFICES ASSUME PageInit PROVE Good(mem, blocks)
  BY DEF PageIInv
<1>0. Space \in Nat /\ HeapSlots \in Nat
  BY PageConstants
<1>1. /\ mem = [vm |-> <<>>, list |-> <<>>, heap |-> HeapSlots, used |-> 0, missed |-> {}]
      /\ blocks = <<>>
  BY DEF PageInit
<1>2. /\ mem.vm = <<>> /\ mem.list = <<>> /\ mem.heap = HeapSlots /\ mem.missed = {}
  BY <1>1
<1>3. DOMAIN mem.vm = {} /\ DOMAIN blocks = {} /\ Len(mem.list) = 0
  BY <1>1, <1>2
<1>4. mem.vm \in [DOMAIN mem.vm -> Region] /\ blocks \in [DOMAIN blocks -> BlockType]
  <2>1. <<>> = [x \in {} |-> x]
    OBVIOUS
  <2> QED BY <1>1, <1>2, <1>3, <2>1
<1>5. IsMem(mem)
  BY <1>0, <1>1, <1>2, <1>3, <1>4 DEF IsMem
<1>6. InPages(blocks) = {} /\ InHeapOf(blocks) = {} /\ Entries(mem) = {} /\ NoTwice(mem)
  BY <1>3 DEF InPages, InHeapOf, Entries, NoTwice
<1>7. AreBlocks(blocks)
  BY <1>3, <1>4 DEF AreBlocks
<1>8. HeapRoom(mem, blocks)
  <2>1. Cardinality(InHeapOf(blocks)) = 0
    BY <1>6, FS_EmptySet
  <2> QED BY <1>0, <1>2, <1>3, <2>1 DEF HeapRoom
<1>9. RegionsApart(mem) /\ Housed(mem, blocks) /\ EntriesTrue(mem, blocks)
      /\ Found(mem, blocks) /\ Framed(mem, blocks)
  BY <1>3, <1>6 DEF RegionsApart, Housed, EntriesTrue, Found, Framed
<1> QED
  BY <1>5, <1>7, <1>8, <1>9 DEF Good

\* Every call keeps it.
LEMMA PageNextGood ==
  PageIInv /\ [PageNext]_pageVars => PageIInv'
<1> SUFFICES ASSUME PageIInv, [PageNext]_pageVars PROVE PageIInv'
  OBVIOUS
<1>1. ASSUME NEW n \in Sizes, CallKmalloc(n) PROVE PageIInv'
  BY <1>1, KmallocKeeps
<1>2. ASSUME NEW p \in DOMAIN blocks, CallKfree(p) PROVE PageIInv'
  BY <1>2, KfreeKeeps
<1>3. ASSUME NEW p \in DOMAIN blocks, NEW n \in Sizes, CallKrealloc(p, n) PROVE PageIInv'
  <2>1. PICK ks \in ksize(mem, p) : ReallocInPlace(p, n, ks) \/ ReallocMoves(p, n, ks)
    BY <1>3 DEF CallKrealloc
  <2>2. blocks[p].kind = "kmalloc"
    BY <1>3 DEF CallKrealloc
  <2> QED BY <2>1, <2>2, ReallocInPlaceKeeps, ReallocMovesKeeps
<1>4. ASSUME NEW dma \in BOOLEAN, NEW order \in Orders, CallGetFreePages(dma, order)
      PROVE  PageIInv'
  BY <1>4, GetFreePagesKeeps
<1>5. ASSUME NEW p \in DOMAIN blocks, CallFreePages(p) PROVE PageIInv'
  BY <1>5, FreePagesKeeps
<1>6. ASSUME NEW off \in Offsets, CallIoremap(off) PROVE PageIInv'
  BY <1>6, IoremapKeeps
<1>7. ASSUME NEW p \in DOMAIN blocks, CallIounmap(p) PROVE PageIInv'
  BY <1>7, IounmapKeeps
<1>8. CASE UNCHANGED pageVars
  BY <1>8 DEF pageVars, PageIInv
<1> QED
  BY <1>1, <1>2, <1>3, <1>4, <1>5, <1>6, <1>7, <1>8 DEF PageNext

-----------------------------------------------------------------------------
(***************************************************************************)
(* The theorems.                                                           *)
(***************************************************************************)
\* The invariant holds in every state.
LEMMA PageAlwaysGood ==
  PageSpec => []PageIInv
BY PageInitGood, PageNextGood, PTL DEF PageSpec

\* The regions of a block, as the properties name them.
LEMMA RegionsAre ==
  ASSUME PageIInv
  PROVE  /\ PageBlocks = InPages(blocks)
         /\ \A p \in PageBlocks : \A a : a \in RegionsOf(p) <=> In(mem, blocks, p, a)
         /\ \A p \in PageBlocks : \A a \in RegionsOf(p) : RegionsOf(p) = {a}
<1>1. PageBlocks = InPages(blocks)
  <2>1. \A p \in DOMAIN blocks : p \in Int
    BY DEF PageIInv, Good, AreBlocks
  <2> QED BY <2>1, PageConstants DEF PageBlocks, InPages
<1>2. \A p \in PageBlocks : \A a : a \in RegionsOf(p) <=> In(mem, blocks, p, a)
  BY DEF RegionsOf, In
<1>3. ASSUME NEW p \in PageBlocks, NEW a \in RegionsOf(p) PROVE RegionsOf(p) = {a}
  <2>1. \A c \in RegionsOf(p) : c = a
    BY <1>1, <1>2, OneRegionOfBlock DEF PageIInv, Good
  <2> QED BY <2>1
<1> QED
  BY <1>1, <1>2, <1>3

\* Every block in pages lies in one region, which is its own: the move to
\* the next frame stays in the region, and no free takes the region of
\* somebody else.
THEOREM PageBlocksOwned ==
  PageSpec => []BlocksOwned
<1>1. ASSUME PageIInv PROVE BlocksOwned
  <2>1. ASSUME NEW p \in PageBlocks PROVE Cardinality(RegionsOf(p)) = 1
    <3>1. PICK a \in DOMAIN mem.vm : In(mem, blocks, p, a)
      BY <1>1, RegionsAre DEF PageIInv, Good, Housed
    <3>2. RegionsOf(p) = {a}
      BY <1>1, <3>1, RegionsAre
    <3> QED BY <3>2, FS_Singleton
  <2>2. ASSUME NEW p \in PageBlocks, NEW q \in PageBlocks, p # q
        PROVE  RegionsOf(p) \cap RegionsOf(q) = {}
    <3>1. ASSUME NEW a \in RegionsOf(p), a \in RegionsOf(q) PROVE FALSE
      <4>1. In(mem, blocks, p, a) /\ In(mem, blocks, q, a) /\ a \in DOMAIN mem.vm
        BY <1>1, <3>1, RegionsAre DEF RegionsOf
      <4> QED BY <1>1, <2>2, <4>1, RegionsAre DEF PageIInv, Good, Housed
    <3> QED BY <3>1
  <2> QED BY <2>1, <2>2 DEF BlocksOwned
<1> QED
  BY <1>1, PageAlwaysGood, PTL

\* The smaller of two numbers.
LEMMA MinOfTwo ==
  ASSUME NEW n \in Nat
  PROVE  Min({n, Frame}) = Part(n)
<1>1. Frame \in Nat
  BY PageConstants
<1>2. {n, Frame} \in SUBSET Nat /\ {n, Frame} # {}
  BY <1>1
<1>3. Min({n, Frame}) \in {n, Frame} /\ Min({n, Frame}) <= n /\ Min({n, Frame}) <= Frame
  BY <1>2, MinNat
<1> QED
  BY <1>1, <1>3 DEF Part

\* A DMA block of known physical address stays in its 64 KB frame, or
\* begins one, whichever of the three ways of __get_free_dma_pages got it.
THEOREM PageDmaInFrame ==
  PageSpec => []DmaInFrame
<1>1. ASSUME PageIInv PROVE DmaInFrame
  <2> SUFFICES ASSUME NEW p \in PageBlocks, NEW a \in RegionsOf(p),
                      blocks[p].kind = "dma", mem.vm[a].phys # NoPhys
               PROVE  LET phys == mem.vm[a].phys + (p - a)
                          len == Min({blocks[p].size, Frame})
                      IN  phys \div Frame = (phys + len - 1) \div Frame
    BY DEF DmaInFrame
  <2>1. p \in InPages(blocks) /\ In(mem, blocks, p, a) /\ a \in DOMAIN mem.vm
    BY <1>1, RegionsAre DEF RegionsOf
  <2>2. blocks[p].size \in Nat
    BY <1>1, <2>1, BlockNumbers DEF PageIInv, Good
  <2>3. Min({blocks[p].size, Frame}) = Part(blocks[p].size)
    BY <2>2, MinOfTwo
  <2>4. LET f == mem.vm[a].phys + (p - a)
        IN  f \div Frame = (f + Part(blocks[p].size) - 1) \div Frame
    BY <1>1, <2>1 DEF PageIInv, Good, Framed
  <2> QED BY <2>3, <2>4
<1> QED
  BY <1>1, PageAlwaysGood, PTL

\* The types of the model.
LEMMA PageTypes ==
  ASSUME PageIInv
  PROVE  PageTypeOK
<1>1. IsMem(mem) /\ AreBlocks(blocks) /\ HeapRoom(mem, blocks)
  BY DEF PageIInv, Good
<1>2. DOMAIN mem.vm \subseteq Pages
  BY <1>1 DEF IsMem
<1>3. \A a \in DOMAIN mem.vm :
         mem.vm[a].size \in 1 .. Space /\ mem.vm[a].phys \in NoPhys .. (Frame - 1)
  <2>1. ASSUME NEW a \in DOMAIN mem.vm
        PROVE  mem.vm[a].size \in 1 .. Space /\ mem.vm[a].phys \in NoPhys .. (Frame - 1)
    BY <1>1, RegionNumbers, PageConstants
  <2> QED BY <2>1
<1>4. \A i \in DOMAIN mem.list : mem.list[i].base \in Pages
  <2>1. ASSUME NEW i \in DOMAIN mem.list PROVE mem.list[i].base \in Pages
    <3>1. mem.list[i] \in Entry
      BY <1>1, MemParts DEF Entries
    <3> QED BY <3>1 DEF Entry
  <2> QED BY <2>1
<1>5. mem.heap \in 0 .. HeapSlots
  <2> DEFINE k == Cardinality(InHeapOf(blocks))
             h == mem.heap
             l == Len(mem.list)
  <2>1. h \in Nat /\ l \in Nat /\ k \in Nat /\ h + k + l <= HeapSlots /\ HeapSlots \in Nat
    BY <1>1, MemParts, HeapCount, PageConstants DEF HeapRoom
  <2> HIDE DEF k, h, l
  <2>2. h \in 0 .. HeapSlots
    BY <2>1
  <2> QED BY <2>2 DEF h
<1>6. mem.used \in Int /\ mem.missed \subseteq Pages
  BY <1>1, MemParts
<1>7. DOMAIN blocks \subseteq 0 .. (Space + HeapSlots - 1)
  BY <1>1 DEF AreBlocks
<1> QED
  BY <1>2, <1>3, <1>4, <1>5, <1>6, <1>7 DEF PageTypeOK

\* Only the block behind the heap can be lost.
LostBehindHeap == \A p \in DOMAIN blocks : blocks[p].kind = "lost" => p = HeapEnd

LEMMA HoldLoses ==
  ASSUME LostBehindHeap, NEW a, NEW b, b.kind # "lost"
  PROVE  \A p \in DOMAIN Hold(a, b) : Hold(a, b)[p].kind = "lost" => p = HeapEnd
BY DEF LostBehindHeap, Hold

LEMMA KfreeLoses ==
  ASSUME NEW bs, \A p \in DOMAIN bs : bs[p].kind = "lost" => p = HeapEnd,
         NEW q \in DOMAIN bs
  PROVE  \A p \in DOMAIN AfterKfree(bs, q) : AfterKfree(bs, q)[p].kind = "lost" => p = HeapEnd
BY DEF AfterKfree, Without, IsHeapAddr, FreeFinds

LEMMA ReturnedLoses ==
  ASSUME LostBehindHeap, NEW o, NEW k \in {"kmalloc", "dma", "pages", "io"}, NEW s, NEW w,
         Returned(o, Block(k, s, w))
  PROVE  LostBehindHeap'
<1>1. Block(k, s, w).kind # "lost"
  BY DEF Block
<1>2. blocks' = blocks \/ blocks' = Hold(o.addr, Block(k, s, w))
  BY DEF Returned
<1> QED
  BY <1>1, <1>2, HoldLoses DEF LostBehindHeap

LEMMA LossesNext ==
  LostBehindHeap /\ [PageNext]_pageVars => LostBehindHeap'
<1> SUFFICES ASSUME LostBehindHeap, [PageNext]_pageVars PROVE LostBehindHeap'
  OBVIOUS
<1>1. ASSUME NEW n \in Sizes, CallKmalloc(n) PROVE LostBehindHeap'
  BY <1>1, ReturnedLoses DEF CallKmalloc
<1>2. ASSUME NEW p \in DOMAIN blocks, CallKfree(p) PROVE LostBehindHeap'
  <2>1. blocks' = AfterKfree(blocks, p)
    BY <1>2 DEF CallKfree
  <2> QED BY <2>1, KfreeLoses DEF LostBehindHeap
<1>3. ASSUME NEW p \in DOMAIN blocks, NEW n \in Sizes, CallKrealloc(p, n)
      PROVE  LostBehindHeap'
  <2>1. PICK ks \in ksize(mem, p) : ReallocInPlace(p, n, ks) \/ ReallocMoves(p, n, ks)
    BY <1>3 DEF CallKrealloc
  <2>2. CASE ReallocInPlace(p, n, ks)
    <3>1. DOMAIN blocks' = DOMAIN blocks /\ \A q \in DOMAIN blocks : blocks'[q].kind = blocks[q].kind
      BY <2>2 DEF ReallocInPlace
    <3> QED BY <3>1 DEF LostBehindHeap
  <2>3. CASE ReallocMoves(p, n, ks)
    <3> DEFINE b == [Block("kmalloc", Usable(n), n) EXCEPT
                        !.kept = blocks[p].kept /\ ks >= Min({blocks[p].want, n})]
    <3>1. PICK o : blocks' = blocks \/ blocks' = AfterKfree(Hold(o.addr, b), p)
      BY <2>3 DEF ReallocMoves
    <3>2. b.kind # "lost"
      BY DEF Block
    <3> HIDE DEF b
    <3> DEFINE bs == Hold(o.addr, b)
    <3>3. p \in DOMAIN bs /\ \A q \in DOMAIN bs : bs[q].kind = "lost" => q = HeapEnd
      <4>1. \A q \in DOMAIN bs : bs[q].kind = "lost" => q = HeapEnd
        BY <3>2, HoldLoses
      <4> QED BY <4>1 DEF Hold
    <3> HIDE DEF bs
    <3>4. \A q \in DOMAIN AfterKfree(bs, p) : AfterKfree(bs, p)[q].kind = "lost" => q = HeapEnd
      BY <3>3, KfreeLoses
    <3> QED BY <3>1, <3>4 DEF LostBehindHeap, bs
  <2> QED BY <2>1, <2>2, <2>3
<1>4. ASSUME NEW dma \in BOOLEAN, NEW order \in Orders, CallGetFreePages(dma, order)
      PROVE  LostBehindHeap'
  <2>1. (IF dma THEN "dma" ELSE "pages") \in {"kmalloc", "dma", "pages", "io"}
    OBVIOUS
  <2> QED BY <1>4, <2>1, ReturnedLoses DEF CallGetFreePages
<1>5. ASSUME NEW p \in DOMAIN blocks, CallFreePages(p) PROVE LostBehindHeap'
  BY <1>5 DEF CallFreePages, Drop, Without, LostBehindHeap
<1>6. ASSUME NEW off \in Offsets, CallIoremap(off) PROVE LostBehindHeap'
  BY <1>6, ReturnedLoses DEF CallIoremap
<1>7. ASSUME NEW p \in DOMAIN blocks, CallIounmap(p) PROVE LostBehindHeap'
  BY <1>7 DEF CallIounmap, Drop, Without, LostBehindHeap
<1>8. CASE UNCHANGED pageVars
  BY <1>8 DEF pageVars, LostBehindHeap
<1> QED
  BY <1>1, <1>2, <1>3, <1>4, <1>5, <1>6, <1>7, <1>8 DEF PageNext

LEMMA LossesAlways ==
  PageSpec => []LostBehindHeap
<1>1. PageInit => LostBehindHeap
  BY DEF PageInit, LostBehindHeap
<1> QED
  BY <1>1, LossesNext, PTL DEF PageSpec

\* Every entry of the list of base addresses is that of one held block and
\* tells the region it lies in: no free follows a stale entry.  The only
\* entry whose block is not held is that of the block behind the heap.
THEOREM PageRecordsTrue ==
  PageSpec => []RecordsTrue
<1>1. ASSUME PageIInv, LostBehindHeap PROVE RecordsTrue
  <2>1. PageTypeOK
    BY <1>1, PageTypes
  <2>2. ASSUME NEW i \in DOMAIN mem.list
        PROVE  LET e == mem.list[i]
               IN  /\ e.retaddr \in PageBlocks /\ HeldOrBehindHeap(e.retaddr)
                   /\ RegionsOf(e.retaddr) = {e.base}
                   /\ e.size = mem.vm[e.base].size
                   /\ Hits(mem, e.retaddr) = {i}
    <3> DEFINE e == mem.list[i]
    <3>1. IsMem(mem) /\ EntriesTrue(mem, blocks) /\ NoTwice(mem)
      BY <1>1 DEF PageIInv, Good, EntriesTrue
    <3>2. DOMAIN mem.list = 1 .. Len(mem.list) /\ e \in Entries(mem)
      BY <3>1, MemParts DEF Entries
    <3>3. /\ e.retaddr \in InPages(blocks) /\ In(mem, blocks, e.retaddr, e.base)
          /\ e.size = mem.vm[e.base].size
      BY <3>1, <3>2 DEF EntriesTrue
    <3>4. e.retaddr \in PageBlocks /\ RegionsOf(e.retaddr) = {e.base}
      <4> HIDE DEF e
      <4> QED BY <1>1, <3>3, RegionsAre
    <3>5. Hits(mem, e.retaddr) = {i}
      BY <3>1, <3>2 DEF NoTwice, Hits
    <3>6. HeldOrBehindHeap(e.retaddr)
      BY <1>1, <3>3 DEF HeldOrBehindHeap, Held, LostBehindHeap, InPages
    <3> QED BY <3>3, <3>4, <3>5, <3>6
  <2> QED BY <2>1, <2>2 DEF RecordsTrue
<1> QED
  BY <1>1, PageAlwaysGood, LossesAlways, PTL

\* A region that no held block lies in is one for which the private heap had
\* no room, or the one behind the heap: whatever else was freed went back to
\* the kernel.
THEOREM PageNoRegionLost ==
  PageSpec => []NoRegionLost
<1>1. ASSUME PageIInv, LostBehindHeap PROVE NoRegionLost
  <2>1. ASSUME NEW a \in DOMAIN mem.vm, a \notin mem.missed
        PROVE  \E p \in PageBlocks : a \in RegionsOf(p) /\ HeldOrBehindHeap(p)
    <3>1. PICK p \in InPages(blocks) : In(mem, blocks, p, a)
      BY <1>1, <2>1 DEF PageIInv, Good, Housed
    <3>2. p \in PageBlocks /\ a \in RegionsOf(p)
      BY <1>1, <3>1, RegionsAre
    <3>3. HeldOrBehindHeap(p)
      BY <1>1, <3>1 DEF HeldOrBehindHeap, Held, LostBehindHeap, InPages
    <3> QED BY <3>2, <3>3
  <2> QED BY <2>1 DEF NoRegionLost
<1> QED
  BY <1>1, PageAlwaysGood, LossesAlways, PTL

-----------------------------------------------------------------------------
(***************************************************************************)
(* Sums, as numbers of units.                                              *)
(***************************************************************************)
\* The units of a function with one more argument.
LEMMA SumAdd ==
    ASSUME NEW v, NEW w, NEW x, x \notin DOMAIN v, DOMAIN w = DOMAIN v \cup {x},
           \A y \in DOMAIN v : w[y] = v[y], w[x] \in Nat, IsFiniteSet(UnitsOf(v))
    PROVE  IsFiniteSet(UnitsOf(w)) /\ SumOf(w) = SumOf(v) + w[x]
<1> DEFINE U == {x} \X (1 .. w[x])
<1>1. UnitsOf(w) = UnitsOf(v) \cup U
  BY DEF UnitsOf
<1>2. UnitsOf(v) \cap U = {}
  BY DEF UnitsOf
<1>3. IsFiniteSet(U) /\ Cardinality(U) = w[x]
  <2>1. IsFiniteSet({x}) /\ Cardinality({x}) = 1
    BY FS_Singleton
  <2>0. 1 \in Int /\ w[x] \in Int
    OBVIOUS
  <2>2. IsFiniteSet(1 .. w[x]) /\ Cardinality(1 .. w[x]) = w[x]
    <3>1. /\ IsFiniteSet(1 .. w[x])
          /\ Cardinality(1 .. w[x]) = IF 1 > w[x] THEN 0 ELSE w[x] - 1 + 1
      BY <2>0, FS_Interval
    <3>2. w[x] = IF 1 > w[x] THEN 0 ELSE w[x] - 1 + 1
      OBVIOUS
    <3> QED BY <3>1, <3>2
  <2>3. IsFiniteSet(U) /\ Cardinality(U) = 1 * w[x]
    <3> DEFINE A == {x}
               B == 1 .. w[x]
    <3>1. IsFiniteSet(A) /\ IsFiniteSet(B) /\ Cardinality(A) = 1 /\ Cardinality(B) = w[x]
      BY <2>1, <2>2
    <3> HIDE DEF A, B
    <3>2. IsFiniteSet(A \X B) /\ Cardinality(A \X B) = Cardinality(A) * Cardinality(B)
      BY <3>1, FS_Product, Zenon
    <3>3. IsFiniteSet(A \X B) /\ Cardinality(A \X B) = 1 * w[x]
      BY <3>1, <3>2, Zenon
    <3> QED BY <3>3 DEF A, B
  <2>4. 1 * w[x] = w[x]
    OBVIOUS
  <2> QED BY <2>3, <2>4
<1> HIDE DEF U
<1>4. IsFiniteSet(UnitsOf(v) \cup U)
      /\ Cardinality(UnitsOf(v) \cup U)
            = Cardinality(UnitsOf(v)) + Cardinality(U) - Cardinality(UnitsOf(v) \cap U)
  BY <1>3, FS_Union
<1>5. Cardinality(UnitsOf(v) \cap U) = 0
  BY <1>2, FS_EmptySet
<1>6. Cardinality(UnitsOf(v)) \in Nat
  BY FS_CardinalityType
<1> QED BY <1>1, <1>3, <1>4, <1>5, <1>6 DEF SumOf

\* The sum of natural numbers over a finite set is one.
LEMMA SumFinite ==
    ASSUME NEW w, IsFiniteSet(DOMAIN w), \A x \in DOMAIN w : w[x] \in Nat
    PROVE  IsFiniteSet(UnitsOf(w)) /\ SumOf(w) \in Nat
<1> DEFINE P == {{x} \X (1 .. w[x]) : x \in DOMAIN w}
           f == [x \in DOMAIN w |-> {x} \X (1 .. w[x])]
<1>1. f \in Surjection(DOMAIN w, P)
  BY DEF Surjection
<1>2. IsFiniteSet(P)
  BY <1>1, FS_Surjection
<1>3. ASSUME NEW x \in DOMAIN w PROVE IsFiniteSet({x} \X (1 .. w[x]))
  <2>1. IsFiniteSet({x})
    BY FS_Singleton
  <2>2. IsFiniteSet(1 .. w[x])
    BY FS_Interval
  <2> QED BY <2>1, <2>2, FS_Product
<1>4. \A T \in P : IsFiniteSet(T)
  BY <1>3
<1>5. IsFiniteSet(UNION P)
  BY <1>2, <1>4, FS_UNION
<1>6. IsFiniteSet(UnitsOf(w))
  BY <1>5 DEF UnitsOf
<1> QED BY <1>6, FS_CardinalityType DEF SumOf

\* Nothing sums to nothing.
LEMMA SumEmpty ==
    ASSUME NEW w, DOMAIN w = {}
    PROVE  IsFiniteSet(UnitsOf(w)) /\ SumOf(w) = 0
<1>1. UnitsOf(w) = {}
  BY DEF UnitsOf
<1> QED BY <1>1, FS_EmptySet DEF SumOf

\* The sum does not depend on the names of the arguments.
LEMMA SumMap ==
    ASSUME NEW v, NEW w, IsFiniteSet(UnitsOf(v)), NEW g \in [DOMAIN v -> DOMAIN w],
           \A x, y \in DOMAIN v : g[x] = g[y] => x = y,
           \A z \in DOMAIN w : \E x \in DOMAIN v : g[x] = z,
           \A x \in DOMAIN v : w[g[x]] = v[x]
    PROVE  IsFiniteSet(UnitsOf(w)) /\ SumOf(w) = SumOf(v)
<1> DEFINE V == UnitsOf(v)
           W == UnitsOf(w)
           h == [u \in V |-> <<g[u[1]], u[2]>>]
<1>1. ASSUME NEW u \in V
      PROVE  /\ u = <<u[1], u[2]>> /\ u[1] \in DOMAIN v /\ u[2] \in 1 .. v[u[1]]
             /\ h[u] \in W
  <2>1. PICK x \in DOMAIN v : u \in {x} \X (1 .. v[x])
    BY DEF UnitsOf
  <2>2. u = <<u[1], u[2]>> /\ u[1] = x /\ u[2] \in 1 .. v[x]
    BY <2>1
  <2>3. g[x] \in DOMAIN w /\ w[g[x]] = v[x]
    OBVIOUS
  <2>4. <<g[x], u[2]>> \in {g[x]} \X (1 .. w[g[x]])
    BY <2>2, <2>3
  <2>5. <<g[x], u[2]>> \in W
    BY <2>3, <2>4 DEF UnitsOf
  <2> QED BY <2>2, <2>5
<1>2. h \in [V -> W]
  BY <1>1
<1>3. ASSUME NEW u \in V, NEW t \in V, h[u] = h[t] PROVE u = t
  <2>1. g[u[1]] = g[t[1]] /\ u[2] = t[2]
    BY <1>3
  <2>2. u[1] = t[1]
    BY <1>1, <2>1
  <2>3. u = <<u[1], u[2]>> /\ t = <<t[1], t[2]>>
    BY <1>1
  <2> QED BY <2>1, <2>2, <2>3
<1>4. ASSUME NEW t \in W PROVE \E u \in V : h[u] = t
  <2>1. PICK z \in DOMAIN w : t \in {z} \X (1 .. w[z])
    BY DEF UnitsOf
  <2>2. t = <<z, t[2]>> /\ t[2] \in 1 .. w[z]
    BY <2>1
  <2>3. PICK x \in DOMAIN v : g[x] = z
    OBVIOUS
  <2>4. <<x, t[2]>> \in {x} \X (1 .. v[x])
    BY <2>2, <2>3
  <2>5. <<x, t[2]>> \in V
    BY <2>4 DEF UnitsOf
  <2>6. h[<<x, t[2]>>] = t
    BY <2>2, <2>3, <2>5
  <2> QED BY <2>5, <2>6
<1> HIDE DEF V, W, h
<1>5. h \in Bijection(V, W)
  BY <1>2, <1>3, <1>4 DEF Bijection, Injection, Surjection, IsInjective
<1>6. ExistsBijection(V, W)
  BY <1>5 DEF ExistsBijection
<1>7. IsFiniteSet(W) /\ Cardinality(W) = Cardinality(V)
  BY <1>6, FS_Bijection DEF V
<1> QED BY <1>7 DEF V, W, SumOf

\* The remainder of a sum is that of the sum with the remainder.
LEMMA RemainderOfSum ==
    ASSUME NEW n \in Nat, n > 0, NEW x \in Int, NEW y \in Int
    PROVE  ((x % n) + y) % n = (x + y) % n
<1> DEFINE z == (x % n) + y
           q == x \div n
           p == z \div n
           r == z % n
<1>1. q \in Int /\ x % n \in Int /\ x = n * q + (x % n)
  BY Division
<1>2. z \in Int
  BY <1>1
<1>3. p \in Int /\ r \in 0 .. n - 1 /\ z = n * p + r
  BY <1>2, Division
<1>4. x + y = (q + p) * n + r
  BY <1>1, <1>3
<1> HIDE DEF q, p, r
<1>5. q + p \in Int /\ ((q + p) * n + r) \div n = q + p
  BY <1>1, <1>3, Quotient
<1> DEFINE k == q + p
           w == k * n + r
<1>6. k \in Int /\ r \in Int /\ w \in Int /\ w \div n = k
  BY <1>3, <1>5
<1>7. w = n * (w \div n) + (w % n) /\ w % n \in Int
  BY <1>6, Division
<1>8. w % n = r
  <2>1. w = n * k + (w % n)
    BY <1>6, <1>7
  <2>2. w = k * n + r /\ n * k = k * n
    BY <1>6
  <2> HIDE DEF w, k
  <2> QED BY <1>6, <1>7, <2>1, <2>2
<1>9. x + y = w
  BY <1>4
<1> QED BY <1>8, <1>9 DEF r

-----------------------------------------------------------------------------
(***************************************************************************)
(* The counts of the heap, as a function of the headers and of the sets of *)
(* used and free blocks.                                                   *)
(***************************************************************************)
\* The bytes of the blocks of S, when the headers say z.
TotalBy(z, S) == SumOf([b \in S |-> z[b] + HDR_SIZE])

\* The two equations of Accounted.
Balanced(z, U, F, n) ==
    /\ TotalBy(z, U) + TotalBy(z, F) = HEAP_SIZE
    /\ n = (TotalBy(z, F) - HDR_SIZE) % ULONG_MOD

\* A set of blocks is finite, and its total a number.
LEMMA TotalNat ==
    ASSUME NEW z \in [Addr -> Nat], NEW S \in SUBSET Addr
    PROVE  /\ IsFiniteSet(UnitsOf([b \in S |-> z[b] + HDR_SIZE]))
           /\ TotalBy(z, S) \in Nat
<1> DEFINE w == [b \in S |-> z[b] + HDR_SIZE]
<1>1. Addr \subseteq 0 .. (HEAP_SIZE - 1)
  BY DEF Addr
<1>2. IsFiniteSet(0 .. (HEAP_SIZE - 1))
  BY HeapConstants, FS_Interval
<1>3. S \in SUBSET (0 .. (HEAP_SIZE - 1))
  BY <1>1
<1>4. IsFiniteSet(S)
  BY <1>2, <1>3, FS_Subset
<1>5. DOMAIN w = S /\ \A x \in DOMAIN w : w[x] \in Nat
  BY HeapConstants
<1> HIDE DEF w
<1>6. IsFiniteSet(UnitsOf(w)) /\ SumOf(w) \in Nat
  BY <1>4, <1>5, SumFinite
<1> QED BY <1>6 DEF w, TotalBy

\* One more block.
LEMMA TotalPlus ==
    ASSUME NEW z \in [Addr -> Nat], NEW S \in SUBSET Addr, NEW b \in Addr, b \notin S
    PROVE  TotalBy(z, S \cup {b}) = TotalBy(z, S) + z[b] + HDR_SIZE
<1> DEFINE v == [c \in S |-> z[c] + HDR_SIZE]
           w == [c \in S \cup {b} |-> z[c] + HDR_SIZE]
<1>1. IsFiniteSet(UnitsOf(v)) /\ TotalBy(z, S) \in Nat
  BY TotalNat
<1>2. /\ b \notin DOMAIN v /\ DOMAIN w = DOMAIN v \cup {b}
      /\ \A c \in DOMAIN v : w[c] = v[c]
      /\ w[b] = z[b] + HDR_SIZE /\ w[b] \in Nat /\ z[b] \in Nat
  BY HeapConstants
<1>3. TotalBy(z, S) = SumOf(v) /\ TotalBy(z, S \cup {b}) = SumOf(w)
  BY DEF TotalBy
<1> HIDE DEF v, w
<1>4. SumOf(w) = SumOf(v) + w[b]
  BY <1>1, <1>2, SumAdd
<1> QED BY <1>1, <1>2, <1>3, <1>4, HeapConstants

\* One less.
LEMMA TotalMinus ==
    ASSUME NEW z \in [Addr -> Nat], NEW S \in SUBSET Addr, NEW b \in S
    PROVE  TotalBy(z, S) = TotalBy(z, S \ {b}) + z[b] + HDR_SIZE
<1> DEFINE T == S \ {b}
<1>1. T \in SUBSET Addr /\ b \in Addr /\ b \notin T /\ T \cup {b} = S
  OBVIOUS
<1> HIDE DEF T
<1>2. TotalBy(z, T \cup {b}) = TotalBy(z, T) + z[b] + HDR_SIZE
  BY <1>1, TotalPlus
<1> QED BY <1>1, <1>2 DEF T

\* Headers outside the set do not count.
LEMMA TotalSame ==
    ASSUME NEW z, NEW y, NEW S, \A b \in S : y[b] = z[b]
    PROVE  TotalBy(y, S) = TotalBy(z, S)
<1>1. [b \in S |-> y[b] + HDR_SIZE] = [b \in S |-> z[b] + HDR_SIZE]
  OBVIOUS
<1> QED BY <1>1 DEF TotalBy

\* The counter follows the total of the free blocks.
LEMMA CounterMoves ==
    ASSUME NEW t \in Int, NEW n, n = (t - HDR_SIZE) % ULONG_MOD, NEW d \in Int
    PROVE  (n + d) % ULONG_MOD = (t + d - HDR_SIZE) % ULONG_MOD
<1>1. ULONG_MOD \in Nat /\ ULONG_MOD > 0 /\ HDR_SIZE \in Int
  BY HeapConstants
<1> DEFINE x == t - HDR_SIZE
<1>2. x \in Int
  BY <1>1
<1>3. x + d = t + d - HDR_SIZE
  BY <1>1
<1> HIDE DEF x
<1>4. ((x % ULONG_MOD) + d) % ULONG_MOD = (x + d) % ULONG_MOD
  BY <1>1, <1>2, RemainderOfSum
<1>5. n = x % ULONG_MOD
  BY DEF x
<1> QED BY <1>3, <1>4, <1>5

\* A block goes from the free ones to the used ones.
LEMMA WholeBalances ==
    ASSUME NEW z \in [Addr -> Nat], NEW U \in SUBSET Addr, NEW F \in SUBSET Addr,
           NEW n \in Int, Balanced(z, U, F, n), NEW b \in F, b \notin U
    PROVE  Balanced(z, U \cup {b}, F \ {b}, (n - (z[b] + HDR_SIZE)) % ULONG_MOD)
<1> DEFINE T == TotalBy(z, F)
           V == TotalBy(z, F \ {b})
           d == 0 - (z[b] + HDR_SIZE)
<1>1. b \in Addr /\ z[b] \in Nat /\ HDR_SIZE \in Nat /\ F \ {b} \in SUBSET Addr
  BY HeapConstants
<1>2. T \in Nat /\ V \in Nat /\ TotalBy(z, U) \in Nat
  BY <1>1, TotalNat
<1>3. T = V + z[b] + HDR_SIZE
  BY TotalMinus
<1>4. TotalBy(z, U \cup {b}) = TotalBy(z, U) + z[b] + HDR_SIZE
  BY <1>1, TotalPlus
<1>5. TotalBy(z, U) + T = HEAP_SIZE /\ n = (T - HDR_SIZE) % ULONG_MOD
  BY DEF Balanced
<1> HIDE DEF T, V
<1>6. TotalBy(z, U \cup {b}) + V = HEAP_SIZE
  BY <1>1, <1>2, <1>3, <1>4, <1>5
<1>7. d \in Int /\ n + d = n - (z[b] + HDR_SIZE) /\ T + d - HDR_SIZE = V - HDR_SIZE
  BY <1>1, <1>2, <1>3
<1> HIDE DEF d
<1>8. (n + d) % ULONG_MOD = (T + d - HDR_SIZE) % ULONG_MOD
  BY <1>2, <1>5, <1>7, CounterMoves
<1> QED BY <1>6, <1>7, <1>8 DEF Balanced, V

\* ... and back.
LEMMA FreeBalances ==
    ASSUME NEW z \in [Addr -> Nat], NEW U \in SUBSET Addr, NEW F \in SUBSET Addr,
           NEW n \in Int, Balanced(z, U, F, n), NEW b \in U, b \notin F
    PROVE  Balanced(z, U \ {b}, F \cup {b}, (n + z[b] + HDR_SIZE) % ULONG_MOD)
<1> DEFINE T == TotalBy(z, F)
           V == TotalBy(z, F \cup {b})
           d == z[b] + HDR_SIZE
<1>1. b \in Addr /\ z[b] \in Nat /\ HDR_SIZE \in Nat /\ U \ {b} \in SUBSET Addr
      /\ F \cup {b} \in SUBSET Addr
  BY HeapConstants
<1>2. T \in Nat /\ V \in Nat /\ TotalBy(z, U) \in Nat /\ TotalBy(z, U \ {b}) \in Nat
  BY <1>1, TotalNat
<1>3. V = T + z[b] + HDR_SIZE
  BY <1>1, TotalPlus
<1>4. TotalBy(z, U) = TotalBy(z, U \ {b}) + z[b] + HDR_SIZE
  BY TotalMinus
<1>5. TotalBy(z, U) + T = HEAP_SIZE /\ n = (T - HDR_SIZE) % ULONG_MOD
  BY DEF Balanced
<1> HIDE DEF T, V
<1>6. TotalBy(z, U \ {b}) + V = HEAP_SIZE
  BY <1>1, <1>2, <1>3, <1>4, <1>5
<1>7. d \in Int /\ n + d = n + z[b] + HDR_SIZE /\ T + d - HDR_SIZE = V - HDR_SIZE
  BY <1>1, <1>2, <1>3
<1> HIDE DEF d
<1>8. (n + d) % ULONG_MOD = (T + d - HDR_SIZE) % ULONG_MOD
  BY <1>2, <1>5, <1>7, CounterMoves
<1> QED BY <1>6, <1>7, <1>8 DEF Balanced, V

\* A free block is split; the head is used, the leftover takes its place.
LEMMA SplitBalances ==
    ASSUME NEW z \in [Addr -> Nat], NEW U \in SUBSET Addr, NEW F \in SUBSET Addr,
           NEW n \in Int, Balanced(z, U, F, n), NEW b \in F, b \notin U,
           NEW c \in Addr, c \notin U, c \notin F,
           NEW r \in Nat, z[b] - (r + HDR_SIZE) \in Nat
    PROVE  Balanced([z EXCEPT ![b] = r, ![c] = z[b] - (r + HDR_SIZE)],
                    U \cup {b}, (F \ {b}) \cup {c}, (n - (r + HDR_SIZE)) % ULONG_MOD)
<1> DEFINE y == [z EXCEPT ![b] = r, ![c] = z[b] - (r + HDR_SIZE)]
           G == F \ {b}
           d == 0 - (r + HDR_SIZE)
<1>1. b \in Addr /\ z[b] \in Nat /\ HDR_SIZE \in Nat /\ G \in SUBSET Addr /\ b # c
  BY HeapConstants
<1>2. /\ y \in [Addr -> Nat] /\ y[b] = r /\ y[c] = z[b] - (r + HDR_SIZE)
      /\ \A a \in U : y[a] = z[a]
      /\ \A a \in G : y[a] = z[a]
  BY <1>1
<1>3. c \notin G /\ b \notin G /\ G \cup {b} = F
  OBVIOUS
<1> HIDE DEF y, G
<1>4. TotalBy(y, U) = TotalBy(z, U) /\ TotalBy(y, G) = TotalBy(z, G)
  BY <1>2, TotalSame
<1>5. TotalBy(y, U \cup {b}) = TotalBy(y, U) + y[b] + HDR_SIZE
  BY <1>1, <1>2, TotalPlus
<1>6. TotalBy(y, G \cup {c}) = TotalBy(y, G) + y[c] + HDR_SIZE
  BY <1>1, <1>2, <1>3, TotalPlus
<1>7. TotalBy(z, F) = TotalBy(z, G) + z[b] + HDR_SIZE
  BY <1>1, <1>3, TotalPlus
<1>8. TotalBy(z, U) + TotalBy(z, F) = HEAP_SIZE /\ n = (TotalBy(z, F) - HDR_SIZE) % ULONG_MOD
  BY DEF Balanced
<1>9. TotalBy(z, U) \in Nat /\ TotalBy(z, G) \in Nat /\ TotalBy(z, F) \in Nat
  BY <1>1, TotalNat
<1>10. /\ TotalBy(y, U \cup {b}) = TotalBy(z, U) + r + HDR_SIZE
       /\ TotalBy(y, G \cup {c}) = TotalBy(z, G) + (z[b] - (r + HDR_SIZE)) + HDR_SIZE
  BY <1>2, <1>4, <1>5, <1>6
<1>11. TotalBy(y, U \cup {b}) + TotalBy(y, G \cup {c}) = HEAP_SIZE
  BY <1>1, <1>7, <1>8, <1>9, <1>10
<1>12. /\ d \in Int /\ n + d = n - (r + HDR_SIZE)
       /\ TotalBy(z, F) + d - HDR_SIZE = TotalBy(y, G \cup {c}) - HDR_SIZE
  BY <1>1, <1>7, <1>9, <1>10
<1> HIDE DEF d
<1>13. (n + d) % ULONG_MOD = (TotalBy(z, F) + d - HDR_SIZE) % ULONG_MOD
  BY <1>8, <1>9, <1>12, CounterMoves
<1> QED BY <1>11, <1>12, <1>13 DEF Balanced, y, G

\* Block c swallows its neighbour b: one header turns into free bytes, which
\* the counter has held all along.
LEMMA MergeBalances ==
    ASSUME NEW z \in [Addr -> Nat], NEW U \in SUBSET Addr, NEW F \in SUBSET Addr,
           NEW n \in Int, Balanced(z, U, F, n), NEW b \in F, NEW c \in F, b # c,
           b \notin U, c \notin U
    PROVE  Balanced([z EXCEPT ![c] = @ + HDR_SIZE + z[b], ![b] = 0], U, F \ {b}, n)
<1> DEFINE y == [z EXCEPT ![c] = @ + HDR_SIZE + z[b], ![b] = 0]
           G == (F \ {b}) \ {c}
           H == F \ {b}
<1>1. b \in Addr /\ c \in Addr /\ z[b] \in Nat /\ z[c] \in Nat /\ HDR_SIZE \in Nat
      /\ G \in SUBSET Addr /\ H \in SUBSET Addr
  BY HeapConstants
<1>2. /\ y \in [Addr -> Nat] /\ y[c] = z[c] + HDR_SIZE + z[b]
      /\ \A a \in U : y[a] = z[a]
      /\ \A a \in G : y[a] = z[a]
  BY <1>1
<1>3. c \notin G /\ G \cup {c} = H /\ b \notin H /\ H \cup {b} = F
  OBVIOUS
<1> HIDE DEF y, G, H
<1>4. TotalBy(y, U) = TotalBy(z, U) /\ TotalBy(y, G) = TotalBy(z, G)
  BY <1>2, TotalSame
<1>5. TotalBy(y, H) = TotalBy(y, G) + y[c] + HDR_SIZE
  BY <1>1, <1>2, <1>3, TotalPlus
<1>6. TotalBy(z, H) = TotalBy(z, G) + z[c] + HDR_SIZE
  BY <1>1, <1>3, TotalPlus
<1>7. TotalBy(z, F) = TotalBy(z, H) + z[b] + HDR_SIZE
  BY <1>1, <1>3, TotalPlus
<1>8. TotalBy(z, G) \in Nat
  BY <1>1, TotalNat
<1>9. TotalBy(y, H) = TotalBy(z, F)
  BY <1>1, <1>2, <1>4, <1>5, <1>6, <1>7, <1>8
<1> QED BY <1>4, <1>9 DEF Balanced, y, H

\* Accounted speaks of the headers, lists and counter of a state.
LEMMA AccountedIs == Accounted <=> Balanced(ulSize, pmbUsed, FreeBlocks, uMemFree)
BY DEF Accounted, Balanced, Total, TotalBy

\* ... and after a step, of those after it.
LEMMA AccountedIsNext ==
    Accounted' <=> Balanced(ulSize', pmbUsed', FreeBlocks', uMemFree')
BY DEF Accounted, Balanced, Total, TotalBy

\* At the start one block has all bytes, and the counter lacks its header.
LEMMA InitAccounted == HeapInit => Accounted
<1> SUFFICES ASSUME HeapInit PROVE Accounted
  OBVIOUS
<1>1. IInv /\ FreeBlocks = {0} /\ pmbUsed = {}
  BY InitEstablishes DEF HeapInit, FreeBlocks, Members
<1>2. 0 \in Addr /\ ulSize \in [Addr -> Nat] /\ ulSize[0] = HEAP_SIZE - HDR_SIZE
  BY HeapConstants DEF HeapInit, Addr
<1>3. TotalBy(ulSize, {}) = 0
  <2> DEFINE w == [b \in {} |-> ulSize[b] + HDR_SIZE]
  <2>1. DOMAIN w = {}
    OBVIOUS
  <2> HIDE DEF w
  <2>2. SumOf(w) = 0
    BY <2>1, SumEmpty
  <2> QED BY <2>2 DEF w, TotalBy
<1>4. TotalBy(ulSize, {} \cup {0}) = TotalBy(ulSize, {}) + ulSize[0] + HDR_SIZE
  BY <1>2, TotalPlus
<1>5. TotalBy(ulSize, {0}) = HEAP_SIZE
  <2>1. {} \cup {0} = {0}
    OBVIOUS
  <2> QED BY <1>2, <1>3, <1>4, <2>1, HeapConstants
<1>6. uMemFree = HEAP_SIZE - HDR_SIZE /\ uMemFree \in 0 .. (ULONG_MOD - 1)
  BY HeapConstants DEF HeapInit
<1>7. uMemFree % ULONG_MOD = uMemFree
  BY <1>6, HeapConstants
<1> QED BY <1>1, <1>3, <1>5, <1>6, <1>7, HeapConstants, AccountedIs DEF Balanced

\* Every step of malloc, free and compact keeps the account.
LEMMA StepAccounted == IInv /\ Accounted /\ [Next]_vars => Accounted'
<1> SUFFICES ASSUME IInv, Accounted, [Next]_vars
             PROVE  Balanced(ulSize', pmbUsed', FreeBlocks', uMemFree')
  BY AccountedIsNext
<1>0. /\ ulSize \in [Addr -> Nat] /\ pmbUsed \in SUBSET Addr /\ FreeBlocks \in SUBSET Addr
      /\ uMemFree \in Int /\ pmbFree \in Seq(Addr) /\ Len(pmbFree) \in Nat
      /\ NoRepeats(pmbFree) /\ FreeBlocks \cap pmbUsed = {}
      /\ pmb \in Nat /\ pmb # 1
  BY BlockIsAddr DEF IInv, TypeOK, BlocksDisjoint, ListsDisjoint, CursorOK, Blocks
<1>1. Balanced(ulSize, pmbUsed, FreeBlocks, uMemFree)
  BY AccountedIs
<1>2. ASSUME NEW i \in 1 .. Len(pmbFree), NEW r \in Nat, r % 4 = 0, r > 0,
             SplitBlock(i, r)
      PROVE  Balanced(ulSize', pmbUsed', FreeBlocks', uMemFree')
  <2>b. PICK b : b = pmbFree[i]
    OBVIOUS
  <2>c. PICK c : c = b + HDR_SIZE + r
    OBVIOUS
  <2>1. b \in FreeBlocks /\ c \in Addr /\ c \notin Blocks /\ b \in Addr
    BY <1>0, <1>2, <2>b, <2>c, SplitEffect
  <2>2. /\ ulSize' = [ulSize EXCEPT ![b] = r, ![c] = ulSize[b] - (r + HDR_SIZE)]
        /\ pmbFree' = Replace(pmbFree, i, c) /\ pmbUsed' = pmbUsed \cup {b}
        /\ uMemFree' = (uMemFree - (r + HDR_SIZE)) % ULONG_MOD
        /\ ulSize[b] >= r + MIN_Leftover
    BY <1>2, <2>b, <2>c DEF SplitBlock
  <2>3. FreeBlocks' = (FreeBlocks \ {b}) \cup {c}
    BY <1>0, <2>b, <2>1, <2>2, ReplaceMembers DEF FreeBlocks, Blocks
  <2>4. ulSize[b] - (r + HDR_SIZE) \in Nat
    BY <1>0, <2>1, <2>2, HeapConstants DEF MIN_Leftover
  <2>5. b \notin pmbUsed /\ c \notin pmbUsed /\ c \notin FreeBlocks
    BY <1>0, <2>1 DEF Blocks
  <2> QED BY <1>0, <1>1, <2>1, <2>2, <2>3, <2>4, <2>5, SplitBalances
<1>3. ASSUME NEW i \in 1 .. Len(pmbFree), NEW r, WholeBlock(i, r)
      PROVE  Balanced(ulSize', pmbUsed', FreeBlocks', uMemFree')
  <2>b. PICK b : b = pmbFree[i]
    OBVIOUS
  <2>1. b \in FreeBlocks /\ b \notin pmbUsed
    BY <1>0, <2>b, FreeIsBlock DEF IInv
  <2>2. /\ ulSize' = ulSize /\ pmbFree' = h_remove(pmbFree, i)
        /\ pmbUsed' = pmbUsed \cup {b}
        /\ uMemFree' = (uMemFree - (ulSize[b] + HDR_SIZE)) % ULONG_MOD
    BY <1>3, <2>b DEF WholeBlock
  <2>3. FreeBlocks' = FreeBlocks \ {b}
    BY <1>0, <2>b, <2>2, RemoveMembers DEF FreeBlocks
  <2> QED BY <1>0, <1>1, <2>1, <2>2, <2>3, WholeBalances
<1>4. ASSUME NEW b \in pmbUsed, free(b)
      PROVE  Balanced(ulSize', pmbUsed', FreeBlocks', uMemFree')
  <2>1. b \in Addr /\ b \notin FreeBlocks /\ b \notin Members(pmbFree)
    BY <1>0 DEF FreeBlocks
  <2>2. /\ ulSize' = ulSize /\ pmbFree' = PushFront(b, pmbFree)
        /\ pmbUsed' = pmbUsed \ {b}
        /\ uMemFree' = (uMemFree + ulSize[b] + HDR_SIZE) % ULONG_MOD
    BY <1>4 DEF free
  <2>3. FreeBlocks' = FreeBlocks \cup {b}
    BY <1>0, <2>1, <2>2, PushMembers DEF FreeBlocks
  <2> QED BY <1>0, <1>1, <2>1, <2>2, <2>3, FreeBalances
<1>5. ASSUME NEW i \in 1 .. Len(pmbFree), NEW j \in 1 .. Len(pmbFree), i # j, Swallow(i, j)
      PROVE  Balanced(ulSize', pmbUsed', FreeBlocks', uMemFree')
  <2>c. PICK c : c = pmbFree[i]
    OBVIOUS
  <2>b. PICK b : b = pmbFree[j]
    OBVIOUS
  <2>1. b \in FreeBlocks /\ c \in FreeBlocks /\ b \notin pmbUsed /\ c \notin pmbUsed
    BY <1>0, <2>b, <2>c, FreeIsBlock DEF IInv
  <2>2. b # c
    BY <1>0, <1>5, <2>b, <2>c DEF NoRepeats
  <2>3. /\ ulSize' = [ulSize EXCEPT ![c] = @ + HDR_SIZE + ulSize[b], ![b] = 0]
        /\ pmbFree' = h_remove(pmbFree, j)
        /\ pmbUsed' = pmbUsed /\ uMemFree' = uMemFree
    BY <1>5, <2>b, <2>c DEF Swallow
  <2>4. FreeBlocks' = FreeBlocks \ {b}
    BY <1>0, <2>b, <2>3, RemoveMembers DEF FreeBlocks
  <2> QED BY <1>0, <1>1, <2>1, <2>2, <2>3, <2>4, MergeBalances
<1>6. ASSUME UNCHANGED <<ulSize, pmbUsed, pmbFree, uMemFree>>
      PROVE  Balanced(ulSize', pmbUsed', FreeBlocks', uMemFree')
  BY <1>1, <1>6 DEF FreeBlocks
<1>7. ASSUME NEW n \in Requests, malloc(n)
      PROVE  Balanced(ulSize', pmbUsed', FreeBlocks', uMemFree')
  <2>1. DwordAlign(n) \in Nat /\ DwordAlign(n) > 0 /\ DwordAlign(n) % 4 = 0
    BY <1>7, AlignedRequest, HeapConstants DEF malloc
  <2>2. PICK i \in 1 .. Len(pmbFree) : npvAllocateBlock(i, DwordAlign(n))
    BY <1>7 DEF malloc, Fits
  <2> QED BY <1>2, <1>3, <2>1, <2>2 DEF npvAllocateBlock
<1>8. CASE MergeHeadIntoBlock
  <2>1. pmb \in 1 .. Len(pmbFree) /\ 1 \in 1 .. Len(pmbFree)
    BY <1>0, <1>8 DEF MergeHeadIntoBlock, Looping
  <2> QED BY <1>0, <1>5, <1>8, <2>1 DEF MergeHeadIntoBlock
<1>9. CASE MergeBlockIntoHead
  <2>1. pmb \in 1 .. Len(pmbFree) /\ 1 \in 1 .. Len(pmbFree)
    BY <1>0, <1>9 DEF MergeBlockIntoHead, Looping
  <2> QED BY <1>0, <1>5, <1>9, <2>1 DEF MergeBlockIntoHead
<1>10. \/ \E n \in Requests : malloc(n)
       \/ \E b \in pmbUsed : free(b)
       \/ MergeHeadIntoBlock \/ MergeBlockIntoHead
       \/ UNCHANGED <<ulSize, pmbUsed, pmbFree, uMemFree>>
  BY DEF Next, compact, Advance, compactReturns, mallocFails, vars
<1> QED BY <1>4, <1>6, <1>7, <1>8, <1>9, <1>10

\* Used and free bytes make up the heap, and the count that _memfree() reports
\* is the free bytes less one header: no split, whole allocation, free or merge
\* charges the wrong number, even where the unsigned count wraps.
THEOREM HeapAccounted == Spec => []Accounted
<1>1. HeapInit => IInv /\ Accounted
  BY InitEstablishes, InitAccounted
<1>2. IInv /\ Accounted /\ [Next]_vars => IInv' /\ Accounted'
  BY StepPreserves, StepAccounted
<1> QED BY <1>1, <1>2, PTL DEF Spec

-----------------------------------------------------------------------------
(***************************************************************************)
(* The counter of allocated pages.  That it covers the entries of the list *)
(* is kept by every routine alone, so the invariant is one of the memory:  *)
(* a routine that adds an entry of s units has charged s or more, and one  *)
(* that discharges s has unlinked an entry of s.                           *)
(***************************************************************************)
\* What the entries of a list will take off the counter.
Debt(l) == SumOf([i \in 1 .. Len(l) |-> l[i].size])

\* An entry as this argument sees it, and the memories of which it speaks.
Item == [base : Pages, retaddr : Int, size : Nat]

Solvent(m) ==
    /\ m \in [vm : {m.vm}, list : Seq(Item), heap : {m.heap}, used : Int,
              missed : {m.missed}]
    /\ m.used >= Debt(m.list)

\* A memory from its parts.
LEMMA SolventIs ==
  ASSUME NEW v, NEW l \in Seq(Item), NEW h, NEW u \in Int, NEW d, u >= Debt(l)
  PROVE  Solvent([vm |-> v, list |-> l, heap |-> h, used |-> u, missed |-> d])
BY DEF Solvent

\* ... and the parts of one.
LEMMA SolventParts ==
  ASSUME NEW m, Solvent(m)
  PROVE  /\ m = [vm |-> m.vm, list |-> m.list, heap |-> m.heap, used |-> m.used,
                 missed |-> m.missed]
         /\ m.list \in Seq(Item) /\ m.used \in Int /\ m.used >= Debt(m.list)
         /\ Len(m.list) \in Nat /\ DOMAIN m.list = 1 .. Len(m.list)
<1>1. m \in [vm : {m.vm}, list : Seq(Item), heap : {m.heap}, used : Int, missed : {m.missed}]
  BY DEF Solvent
<1>2. m.list \in Seq(Item)
  BY <1>1
<1> QED BY <1>1, <1>2 DEF Solvent

\* The debt of a list is a number.
LEMMA DebtNat ==
  ASSUME NEW l \in Seq(Item)
  PROVE  /\ IsFiniteSet(UnitsOf([i \in 1 .. Len(l) |-> l[i].size]))
         /\ Debt(l) \in Nat
<1> DEFINE w == [i \in 1 .. Len(l) |-> l[i].size]
<1>1. Len(l) \in Nat /\ \A i \in 1 .. Len(l) : l[i] \in Item
  OBVIOUS
<1>2. IsFiniteSet(1 .. Len(l))
  BY <1>1, FS_Interval
<1>3. DOMAIN w = 1 .. Len(l) /\ \A i \in DOMAIN w : w[i] \in Nat
  BY <1>1 DEF Item
<1> HIDE DEF w
<1>4. IsFiniteSet(UnitsOf(w)) /\ SumOf(w) \in Nat
  BY <1>2, <1>3, SumFinite
<1> QED BY <1>4 DEF w, Debt

\* The debt of a list is that of the list without one of its entries, and the
\* entry.
LEMMA DebtWithout ==
  ASSUME NEW l \in Seq(Item), NEW s \in Seq(Item), NEW j \in 1 .. Len(l),
         Len(s) = Len(l) - 1,
         \A i \in 1 .. Len(s) : s[i] = IF i < j THEN l[i] ELSE l[i + 1]
  PROVE  Debt(l) = Debt(s) + l[j].size
<1> DEFINE w == [i \in 1 .. Len(l) |-> l[i].size]
           v == [i \in (1 .. Len(l)) \ {j} |-> l[i].size]
           u == [i \in 1 .. Len(s) |-> s[i].size]
           g == [i \in 1 .. Len(s) |-> IF i < j THEN i ELSE i + 1]
<1>1. Len(l) \in Nat /\ Len(s) \in Nat /\ l[j].size \in Nat
  <2>1. l[j] \in Item
    OBVIOUS
  <2> QED BY <2>1 DEF Item
<1>2. g \in [DOMAIN u -> DOMAIN v]
  BY <1>1
<1>3. \A x, y \in DOMAIN u : g[x] = g[y] => x = y
  BY <1>1
<1>4. \A z \in DOMAIN v : \E x \in DOMAIN u : g[x] = z
  <2> SUFFICES ASSUME NEW z \in (1 .. Len(l)) \ {j} PROVE \E x \in 1 .. Len(s) : g[x] = z
    OBVIOUS
  <2>1. CASE z < j
    BY <1>1, <2>1
  <2>2. CASE z > j
    <3>1. z - 1 \in 1 .. Len(s) /\ g[z - 1] = z
      BY <1>1, <2>2
    <3> QED BY <3>1
  <2> QED BY <1>1, <2>1, <2>2
<1>5. \A x \in DOMAIN u : v[g[x]] = u[x]
  BY <1>1
<1>6. IsFiniteSet(UnitsOf(u)) /\ Debt(s) = SumOf(u)
  BY DebtNat DEF Debt
<1>7. /\ j \notin DOMAIN v /\ DOMAIN w = DOMAIN v \cup {j} /\ w[j] = l[j].size
      /\ \A y \in DOMAIN v : w[y] = v[y]
  OBVIOUS
<1>8. Debt(l) = SumOf(w)
  BY DEF Debt
<1> HIDE DEF g, u, v, w
<1>9. IsFiniteSet(UnitsOf(v)) /\ SumOf(v) = SumOf(u)
  BY <1>2, <1>3, <1>4, <1>5, <1>6, SumMap
<1>10. SumOf(w) = SumOf(v) + w[j]
  BY <1>1, <1>7, <1>9, SumAdd
<1> QED BY <1>6, <1>7, <1>8, <1>9, <1>10

\* One more entry in front.
LEMMA DebtInFront ==
  ASSUME NEW l \in Seq(Item), NEW e \in Item
  PROVE  <<e>> \o l \in Seq(Item) /\ Debt(<<e>> \o l) = Debt(l) + e.size
<1> DEFINE k == <<e>> \o l
<1>1. /\ k \in Seq(Item) /\ Len(k) = Len(l) + 1 /\ k[1] = e /\ Len(l) \in Nat
      /\ \A i \in 1 .. Len(l) : k[i + 1] = l[i]
  OBVIOUS
<1> HIDE DEF k
<1>2. 1 \in 1 .. Len(k) /\ Len(l) = Len(k) - 1
      /\ \A i \in 1 .. Len(l) : l[i] = IF i < 1 THEN k[i] ELSE k[i + 1]
  BY <1>1
<1>3. Debt(k) = Debt(l) + k[1].size
  BY <1>1, <1>2, DebtWithout
<1> QED BY <1>1, <1>3 DEF k

\* RemoveAt takes an entry off the list and its size off the debt.
LEMMA DebtRemoved ==
  ASSUME NEW l \in Seq(Item), NEW j \in 1 .. Len(l)
  PROVE  RemoveAt(l, j) \in Seq(Item) /\ Debt(l) = Debt(RemoveAt(l, j)) + l[j].size
<1> DEFINE s == RemoveAt(l, j)
<1>1. /\ s \in Seq(Item) /\ Len(s) = Len(l) - 1
      /\ \A i \in 1 .. (Len(l) - 1) : s[i] = IF i < j THEN l[i] ELSE l[i + 1]
  BY RemoveAtList
<1> HIDE DEF s
<1>2. Debt(l) = Debt(s) + l[j].size
  BY <1>1, DebtWithout
<1> QED BY <1>1, <1>2 DEF s

\* The kernel's choice of a region touches neither list nor counter.
LEMMA VMAllocSolvent ==
  ASSUME NEW m, Solvent(m), NEW s, NEW r \in VMAlloc(m, s)
  PROVE  Solvent(r.m) /\ r.addr \in Pages /\ r.addr \in Int /\ r.phys \in Int
<1>1. PICK a \in FreeRanges(m, s), f \in PhysOffsets : r = Placed(m, a, s, f)
  BY DEF VMAlloc
<1> DEFINE v == VmPlus(m.vm, a, s, f)
           w == [vm |-> m.vm, list |-> m.list, heap |-> m.heap, used |-> m.used,
                 missed |-> m.missed]
           u == [m EXCEPT !.vm = v]
<1>2. r = [addr |-> a, phys |-> f, m |-> u]
  BY <1>1 DEF Placed, VmPlus
<1>3. a \in Pages /\ a \in Int /\ f \in Int
  BY PageConstants DEF FreeRanges, Pages, PhysOffsets, NoPhys
<1> HIDE DEF v
<1>4. u = [w EXCEPT !.vm = v]
  BY SolventParts
<1>5. u = [vm |-> v, list |-> m.list, heap |-> m.heap, used |-> m.used, missed |-> m.missed]
  BY <1>4
<1> HIDE DEF u
<1>6. Solvent(u)
  BY <1>5, SolventParts, SolventIs
<1> QED BY <1>2, <1>3, <1>6

\* Nor does a free of the kernel.
LEMMA VMFreeSolvent ==
  ASSUME NEW m, Solvent(m), NEW a
  PROVE  Solvent(VMFree(m, a)) /\ VMFree(m, a).list = m.list /\ VMFree(m, a).used = m.used
<1> DEFINE v == VmMinus(m.vm, a)
           d == m.missed \ {a}
           w == [vm |-> m.vm, list |-> m.list, heap |-> m.heap, used |-> m.used,
                 missed |-> m.missed]
           u == VMFree(m, a)
<1>1. u = [m EXCEPT !.vm = v, !.missed = d]
  BY DEF VMFree, VmMinus
<1> HIDE DEF v, d, u
<1>2. u = [w EXCEPT !.vm = v, !.missed = d]
  BY <1>1, SolventParts
<1>3. u = [vm |-> v, list |-> m.list, heap |-> m.heap, used |-> m.used, missed |-> d]
  BY <1>2
<1>4. Solvent(u)
  BY <1>3, SolventParts, SolventIs
<1> QED BY <1>3, <1>4 DEF u

\* The counter changes, and still covers the debt.
LEMMA UsedSolvent ==
  ASSUME NEW m, Solvent(m), NEW x \in Int, x >= Debt(m.list)
  PROVE  Solvent([m EXCEPT !.used = x])
<1> DEFINE w == [vm |-> m.vm, list |-> m.list, heap |-> m.heap, used |-> m.used,
                 missed |-> m.missed]
           u == [m EXCEPT !.used = x]
<1>1. u = [w EXCEPT !.used = x]
  BY SolventParts
<1>2. u = [vm |-> m.vm, list |-> m.list, heap |-> m.heap, used |-> x, missed |-> m.missed]
  BY <1>1
<1> HIDE DEF u
<1>3. Solvent(u)
  BY <1>2, SolventParts, SolventIs
<1> QED BY <1>3 DEF u

\* The blocks of the private heap do not count.
LEMMA HeapSolvent ==
  ASSUME NEW m, Solvent(m), NEW x
  PROVE  /\ Solvent([m EXCEPT !.heap = x])
         /\ [m EXCEPT !.heap = x].list = m.list /\ [m EXCEPT !.heap = x].used = m.used
<1> DEFINE w == [vm |-> m.vm, list |-> m.list, heap |-> m.heap, used |-> m.used,
                 missed |-> m.missed]
           u == [m EXCEPT !.heap = x]
<1>1. u = [w EXCEPT !.heap = x]
  BY SolventParts
<1>2. u = [vm |-> m.vm, list |-> m.list, heap |-> x, used |-> m.used, missed |-> m.missed]
  BY <1>1
<1> HIDE DEF u
<1>3. Solvent(u) /\ u.list = m.list /\ u.used = m.used
  BY <1>2, SolventParts, SolventIs
<1> QED BY <1>3 DEF u

\* A region is recorded, if there is memory for the entry, and charged.
LEMMA RecordSolvent ==
  ASSUME NEW m, Solvent(m), NEW a \in Pages, NEW b \in Int, NEW s \in Nat
  PROVE  Solvent(Charge(AddBaseAddress(m, a, b, s), s))
<1> DEFINE w == [vm |-> m.vm, list |-> m.list, heap |-> m.heap, used |-> m.used,
                 missed |-> m.missed]
           e == [base |-> a, retaddr |-> b, size |-> s]
           l == <<e>> \o m.list
           d == m.missed \cup {a}
           u == m.used + s
<1>1. /\ m = w /\ m.list \in Seq(Item) /\ m.used \in Int /\ m.used >= Debt(m.list)
  BY SolventParts
<1>2. Debt(m.list) \in Nat /\ u \in Int /\ u >= Debt(m.list)
  <2>1. Debt(m.list) \in Nat
    BY <1>1, DebtNat
  <2> QED BY <1>1, <2>1
<1>3. e \in Item /\ e.size = s
  BY DEF Item
<1>4. l \in Seq(Item) /\ Debt(l) = Debt(m.list) + s
  <2> HIDE DEF e
  <2> QED BY <1>1, <1>3, DebtInFront
<1>5. u >= Debt(l)
  BY <1>1, <1>2, <1>4
<1>6. CASE m.heap = 0
  <2> DEFINE n == AddBaseAddress(m, a, b, s)
  <2>1. n = [m EXCEPT !.missed = d]
    BY <1>6 DEF AddBaseAddress
  <2> HIDE DEF n, d
  <2>2. n = [w EXCEPT !.missed = d]
    BY <1>1, <2>1
  <2>3. n = [vm |-> m.vm, list |-> m.list, heap |-> m.heap, used |-> m.used, missed |-> d]
    BY <2>2
  <2>4. Solvent(n) /\ n.list = m.list /\ n.used = m.used
    BY <1>1, <2>3, SolventIs
  <2>5. Solvent([n EXCEPT !.used = u])
    BY <1>2, <2>4, UsedSolvent
  <2> QED BY <2>4, <2>5 DEF Charge, n
<1>7. CASE m.heap # 0
  <2> DEFINE n == AddBaseAddress(m, a, b, s)
             h == m.heap - 1
  <2>1. n = [m EXCEPT !.list = l, !.heap = h]
    BY <1>7 DEF AddBaseAddress
  <2> HIDE DEF n, l, h, u
  <2>2. n = [w EXCEPT !.list = l, !.heap = h]
    BY <1>1, <2>1
  <2>3. n = [vm |-> m.vm, list |-> l, heap |-> h, used |-> m.used, missed |-> m.missed]
    BY <2>2
  <2>4. [n EXCEPT !.used = u]
          = [vm |-> m.vm, list |-> l, heap |-> h, used |-> u, missed |-> m.missed]
    BY <2>3
  <2>5. Solvent([vm |-> m.vm, list |-> l, heap |-> h, used |-> u, missed |-> m.missed])
    BY <1>2, <1>4, <1>5, SolventIs
  <2>6. n.used = m.used
    BY <2>3
  <2>7. Charge(n, s) = [n EXCEPT !.used = u]
    BY <2>6 DEF Charge, u
  <2> QED BY <2>4, <2>5, <2>7 DEF n
<1> QED BY <1>6, <1>7

\* An address is unlinked: the debt shrinks by what was recorded for it.
LEMMA UnlinkSolvent ==
  ASSUME NEW m, Solvent(m), NEW addr
  PROVE  LET k == Unlink(m, addr)
         IN  /\ Solvent(k) /\ k.used = m.used /\ Recorded(m, addr).size \in Nat
             /\ Debt(m.list) = Debt(k.list) + Recorded(m, addr).size
<1> DEFINE w == [vm |-> m.vm, list |-> m.list, heap |-> m.heap, used |-> m.used,
                 missed |-> m.missed]
           j == Min(Hits(m, addr))
           l == RemoveAt(m.list, j)
           k == Unlink(m, addr)
<1>1. /\ m = w /\ m.list \in Seq(Item) /\ m.used \in Int /\ m.used >= Debt(m.list)
      /\ DOMAIN m.list = 1 .. Len(m.list) /\ Debt(m.list) \in Nat
  BY SolventParts, DebtNat
<1>2. CASE Hits(m, addr) = {}
  <2>1. k = m /\ Recorded(m, addr).size = 0
    BY <1>2 DEF Unlink, Recorded
  <2> QED BY <1>1, <2>1
<1>3. CASE Hits(m, addr) # {}
  <2>1. Hits(m, addr) \in SUBSET Nat
    BY <1>1 DEF Hits
  <2>2. j \in Hits(m, addr)
    BY <1>3, <2>1, MinNat
  <2>3. j \in 1 .. Len(m.list)
    BY <1>1, <2>2 DEF Hits
  <2>4. k = [m EXCEPT !.list = l] /\ Recorded(m, addr) = m.list[j]
    BY <1>3 DEF Unlink, Recorded
  <2>5. m.list[j] \in Item
    BY <1>1, <2>3
  <2>6. m.list[j].size \in Nat
    BY <2>5 DEF Item
  <2>7. l \in Seq(Item) /\ Debt(m.list) = Debt(l) + m.list[j].size
    BY <1>1, <2>3, DebtRemoved
  <2> HIDE DEF l, j, k
  <2>8. k = [w EXCEPT !.list = l]
    BY <1>1, <2>4
  <2>9. k = [vm |-> m.vm, list |-> l, heap |-> m.heap, used |-> m.used, missed |-> m.missed]
    BY <2>8
  <2>10. Debt(l) \in Nat
    BY <2>7, DebtNat
  <2>11. m.used >= Debt(l)
    BY <1>1, <2>6, <2>7, <2>10
  <2>12. Solvent(k)
    BY <1>1, <2>7, <2>9, <2>11, SolventIs
  <2> QED BY <2>4, <2>6, <2>7, <2>9, <2>12 DEF k
<1> QED BY <1>2, <1>3

\* A free takes off the counter what it took off the debt.
LEMMA ReturnSolvent ==
  ASSUME NEW m, Solvent(m), NEW addr, NEW a
  PROVE  Solvent(Discharge(GetBaseAddressAndFree(m, addr), a, Recorded(m, addr).size))
<1> DEFINE k == Unlink(m, addr)
           h == IF Hits(m, addr) = {} THEN k.heap ELSE k.heap + 1
           g == GetBaseAddressAndFree(m, addr)
           s == Recorded(m, addr).size
           f == VMFree(g, a)
<1>1. /\ Solvent(k) /\ k.used = m.used /\ s \in Nat
      /\ Debt(m.list) = Debt(k.list) + s
  BY UnlinkSolvent
<1>2. g = [k EXCEPT !.heap = h]
  BY DEF GetBaseAddressAndFree
<1> HIDE DEF k, h, s
<1>3. Solvent(g) /\ g.list = k.list /\ g.used = k.used
  BY <1>1, <1>2, HeapSolvent
<1> HIDE DEF g
<1>4. Solvent(f) /\ f.list = g.list /\ f.used = g.used
  BY <1>3, VMFreeSolvent
<1>5. f.used - s \in Int /\ f.used - s >= Debt(f.list)
  <2>1. m.used \in Int /\ m.used >= Debt(m.list) /\ k.list \in Seq(Item)
    BY <1>1, SolventParts
  <2>2. Debt(k.list) \in Nat
    BY <2>1, DebtNat
  <2> QED BY <1>1, <1>3, <1>4, <2>1, <2>2
<1>6. Discharge(g, a, s) = IF a \in DOMAIN g.vm THEN [f EXCEPT !.used = f.used - s] ELSE g
  BY DEF Discharge
<1> HIDE DEF f
<1>7. Solvent([f EXCEPT !.used = f.used - s])
  BY <1>4, <1>5, UsedSolvent
<1>8. Solvent(Discharge(g, a, s))
  BY <1>3, <1>6, <1>7
<1> QED BY <1>8 DEF g, s

\* vmalloc charges what it records.
LEMMA VmallocSolvent ==
  ASSUME NEW m, Solvent(m), NEW n \in Nat, NEW o \in vmalloc(m, n)
  PROVE  Solvent(o.m)
<1>1. CASE o = Failure(m)
  BY <1>1 DEF Failure
<1>2. CASE o # Failure(m)
  <2>1. PICK r \in VMAlloc(m, RoundUp(n)) :
           o = [addr |-> r.addr,
                m |-> Charge(AddBaseAddress(r.m, r.addr, r.addr, RoundUp(n)), RoundUp(n))]
    BY <1>2 DEF vmalloc
  <2>2. Solvent(r.m) /\ r.addr \in Pages /\ r.addr \in Int
    BY VMAllocSolvent
  <2>3. RoundUp(n) \in Nat
    BY RoundUpHolds
  <2>4. Solvent(Charge(AddBaseAddress(r.m, r.addr, r.addr, RoundUp(n)), RoundUp(n)))
    BY <2>2, <2>3, RecordSolvent
  <2> QED BY <2>1, <2>4
<1> QED BY <1>1, <1>2

\* So does the first way to pages for DMA, with either of its two regions.
LEMMA DmaTrySolvent ==
  ASSUME NEW m, Solvent(m), NEW s \in Nat, NEW o \in DmaTry(m, s)
  PROVE  Solvent(o.m)
<1> DEFINE keep(r) == [addr |-> r.addr,
                       m |-> Charge(AddBaseAddress(r.m, r.addr, r.addr, s), s)]
           second(r) == {[q EXCEPT !.m = VMFree(@, r.addr)] : q \in VMAlloc(r.m, s)}
<1>1. ASSUME NEW r, Solvent(r.m), r.addr \in Pages, r.addr \in Int
      PROVE  Solvent(keep(r).m)
  BY <1>1, RecordSolvent
<1>2. ASSUME NEW r \in VMAlloc(m, s), NEW q \in second(r)
      PROVE  Solvent(q.m) /\ q.addr \in Pages /\ q.addr \in Int
  <2>1. Solvent(r.m)
    BY VMAllocSolvent
  <2>2. PICK p \in VMAlloc(r.m, s) : q = [p EXCEPT !.m = VMFree(p.m, r.addr)]
    BY <1>2
  <2>3. Solvent(p.m) /\ p.addr \in Pages /\ p.addr \in Int
    BY <2>1, VMAllocSolvent
  <2>4. Solvent(VMFree(p.m, r.addr))
    BY <2>3, VMFreeSolvent
  <2>5. PICK a, f, k : p = [addr |-> a, phys |-> f, m |-> k]
    <3>1. PICK a \in FreeRanges(r.m, s), f \in PhysOffsets : p = Placed(r.m, a, s, f)
      BY DEF VMAlloc
    <3>2. \E k : p = [addr |-> a, phys |-> f, m |-> k]
      BY <3>1, Zenon DEF Placed
    <3> QED BY <3>2
  <2>6. q.m = VMFree(p.m, r.addr) /\ q.addr = p.addr
    <3> DEFINE v == VMFree(p.m, r.addr)
    <3> HIDE DEF v
    <3>1. q = [p EXCEPT !.m = v]
      BY <2>2 DEF v
    <3>2. q.m = v /\ q.addr = p.addr
      BY <2>5, <3>1
    <3> QED BY <3>2 DEF v
  <2> QED BY <2>3, <2>4, <2>6
<1>3. \/ o = Failure(m)
      \/ \E r \in VMAlloc(m, s) : o = keep(r) \/ \E q \in second(r) : o = keep(q)
  BY DEF DmaTry
<1> HIDE DEF keep, second
<1>4. Failure(m).m = m
  BY DEF Failure
<1>5. ASSUME NEW r \in VMAlloc(m, s) PROVE Solvent(keep(r).m)
  <2>1. Solvent(r.m) /\ r.addr \in Pages /\ r.addr \in Int
    BY VMAllocSolvent
  <2> QED BY <1>1, <2>1
<1>6. ASSUME NEW r \in VMAlloc(m, s), NEW q \in second(r) PROVE Solvent(keep(q).m)
  <2>1. Solvent(q.m) /\ q.addr \in Pages /\ q.addr \in Int
    BY <1>2
  <2> QED BY <1>1, <2>1
<1> QED BY <1>3, <1>4, <1>5, <1>6

\* The wasteful way charges without recording when the block need not move.
LEMMA DmaWastefulSolvent ==
  ASSUME NEW m, Solvent(m), NEW s \in Nat, NEW o \in DmaWasteful(m, s)
  PROVE  Solvent(o.m)
<1> DEFINE big == WastefulSize(s)
           shift(r) == (r.phys \div Frame + 1) * Frame - r.phys
<1>1. big \in Nat
  BY PageConstants DEF WastefulSize
<1>2. \/ o = Failure(m)
      \/ \E r \in VMAlloc(m, big) :
            \/ o = Failure(free_pages(r.m, r.addr))
            \/ o = [addr |-> r.addr + shift(r),
                    m |-> Charge(AddBaseAddress(r.m, r.addr, r.addr + shift(r), big), big)]
            \/ o = [addr |-> r.addr, m |-> Charge(r.m, big)]
  BY DEF DmaWasteful
<1>3. CASE o = Failure(m)
  BY <1>3 DEF Failure
<1>4. ASSUME NEW r \in VMAlloc(m, big),
             \/ o = Failure(free_pages(r.m, r.addr))
             \/ o = [addr |-> r.addr + shift(r),
                     m |-> Charge(AddBaseAddress(r.m, r.addr, r.addr + shift(r), big), big)]
             \/ o = [addr |-> r.addr, m |-> Charge(r.m, big)]
      PROVE  Solvent(o.m)
  <2>1. Solvent(r.m) /\ r.addr \in Pages /\ r.addr \in Int /\ r.phys \in Int
    BY VMAllocSolvent
  <2>2. r.addr + shift(r) \in Int
    BY <2>1, PageConstants
  <2> HIDE DEF big, shift
  <2>3. Solvent(Charge(AddBaseAddress(r.m, r.addr, r.addr + shift(r), big), big))
    BY <1>1, <2>1, <2>2, RecordSolvent
  <2>4. Solvent(free_pages(r.m, r.addr))
    BY <2>1, ReturnSolvent DEF free_pages
  <2>5. Solvent(Charge(r.m, big))
    <3>1. r.m.used \in Int /\ r.m.used >= Debt(r.m.list) /\ r.m.list \in Seq(Item)
      BY <2>1, SolventParts
    <3>2. Debt(r.m.list) \in Nat
      BY <3>1, DebtNat
    <3>3. r.m.used + big \in Int /\ r.m.used + big >= Debt(r.m.list)
      BY <1>1, <3>1, <3>2
    <3> QED BY <2>1, <3>3, UsedSolvent DEF Charge
  <2>6. CASE o = Failure(free_pages(r.m, r.addr))
    BY <2>4, <2>6 DEF Failure
  <2>7. CASE o = [addr |-> r.addr + shift(r),
                  m |-> Charge(AddBaseAddress(r.m, r.addr, r.addr + shift(r), big), big)]
    BY <2>3, <2>7
  <2>8. CASE o = [addr |-> r.addr, m |-> Charge(r.m, big)]
    BY <2>5, <2>8
  <2> QED BY <1>4, <2>6, <2>7, <2>8
<1> QED BY <1>2, <1>3, <1>4

\* __get_free_pages, all ways.
LEMMA GetFreePagesSolvent ==
  ASSUME NEW m, Solvent(m), NEW dma, NEW s \in Nat, NEW o \in get_free_pages(m, dma, s)
  PROVE  Solvent(o.m)
<1>1. CASE ~dma
  BY <1>1, VmallocSolvent DEF get_free_pages
<1>2. CASE dma
  <2>1. o \in DmaTry(m, s) \/ \E t \in DmaTry(m, s) : o \in DmaWasteful(t.m, s)
    BY <1>2 DEF get_free_pages
  <2>2. \A t \in DmaTry(m, s) : Solvent(t.m)
    BY DmaTrySolvent
  <2> QED BY <2>1, <2>2, DmaWastefulSolvent
<1> QED BY <1>1, <1>2

\* kmalloc, from pages or from the private heap.
LEMMA KmallocSolvent ==
  ASSUME NEW m, Solvent(m), NEW n \in Nat, NEW o \in kmalloc(m, n)
  PROVE  Solvent(o.m)
<1>1. CASE n >= PAGE_SIZE
  BY <1>1, VmallocSolvent DEF kmalloc
<1>2. CASE ~(n >= PAGE_SIZE)
  <2>1. o.m = m \/ o.m = [m EXCEPT !.heap = m.heap - 1]
    BY <1>2 DEF kmalloc, HeapMalloc, Failure
  <2>2. Solvent([m EXCEPT !.heap = m.heap - 1])
    BY HeapSolvent
  <2> QED BY <2>1, <2>2
<1> QED BY <1>1, <1>2

\* kfree, likewise.
LEMMA KfreeSolvent ==
  ASSUME NEW m, Solvent(m), NEW p
  PROVE  Solvent(kfree(m, p))
<1>1. CASE IsHeapAddr(p)
  <2>1. Solvent([m EXCEPT !.heap = m.heap + 1])
    BY HeapSolvent
  <2> QED BY <1>1, <2>1 DEF kfree
<1>2. CASE ~IsHeapAddr(p)
  <2>1. kfree(m, p) = Discharge(GetBaseAddressAndFree(m, p), p, Recorded(m, p).size)
    BY <1>2 DEF kfree, vfree
  <2> QED BY <2>1, ReturnSolvent
<1> QED BY <1>1, <1>2

\* ksize forgets an entry: the debt shrinks, the counter does not.
LEMMA KsizeSolvent ==
  ASSUME NEW m, Solvent(m), NEW p
  PROVE  Solvent(AfterKsize(m, p))
BY UnlinkSolvent DEF AfterKsize, GetBaseAddressNoFree

\* At the start there is no entry.
LEMMA PageInitSolvent == PageInit => Solvent(mem)
<1> SUFFICES ASSUME PageInit PROVE Solvent(mem)
  OBVIOUS
<1>1. mem = [vm |-> <<>>, list |-> <<>>, heap |-> HeapSlots, used |-> 0, missed |-> {}]
  BY DEF PageInit
<1>2. <<>> \in Seq(Item) /\ Len(<<>>) = 0
  OBVIOUS
<1> DEFINE w == [i \in 1 .. Len(<<>>) |-> <<>>[i].size]
<1>3. DOMAIN w = {}
  OBVIOUS
<1>4. Debt(<<>>) = SumOf(w)
  BY DEF Debt
<1> HIDE DEF w
<1>5. Debt(<<>>) = 0
  BY <1>3, <1>4, SumEmpty
<1>6. 0 \in Int /\ 0 >= Debt(<<>>)
  BY <1>5
<1> QED BY <1>1, <1>2, <1>6, SolventIs

\* Every call keeps the counter above the debt.
LEMMA PageNextSolvent == Solvent(mem) /\ [PageNext]_pageVars => Solvent(mem')
<1> SUFFICES ASSUME Solvent(mem), [PageNext]_pageVars PROVE Solvent(mem')
  OBVIOUS
<1>0. Sizes \subseteq Nat /\ PAGE_SIZE \in Nat
  BY PageConstants
<1>1. ASSUME NEW n \in Sizes, CallKmalloc(n) PROVE Solvent(mem')
  BY <1>0, <1>1, KmallocSolvent DEF CallKmalloc, Returned
<1>2. ASSUME NEW p \in DOMAIN blocks, CallKfree(p) PROVE Solvent(mem')
  BY <1>2, KfreeSolvent DEF CallKfree
<1>3. ASSUME NEW p \in DOMAIN blocks, NEW n \in Sizes, CallKrealloc(p, n)
      PROVE  Solvent(mem')
  <2>1. PICK ks \in ksize(mem, p) : ReallocInPlace(p, n, ks) \/ ReallocMoves(p, n, ks)
    BY <1>3 DEF CallKrealloc
  <2>2. Solvent(AfterKsize(mem, p))
    BY KsizeSolvent
  <2>3. CASE ReallocInPlace(p, n, ks)
    BY <2>2, <2>3 DEF ReallocInPlace
  <2>4. CASE ReallocMoves(p, n, ks)
    <3>1. PICK o \in kmalloc(AfterKsize(mem, p), n) : mem' = o.m \/ mem' = kfree(o.m, p)
      BY <2>4 DEF ReallocMoves
    <3>2. Solvent(o.m)
      BY <1>0, <2>2, KmallocSolvent
    <3> QED BY <3>1, <3>2, KfreeSolvent
  <2> QED BY <2>1, <2>3, <2>4
<1>4. ASSUME NEW dma \in BOOLEAN, NEW order \in Orders, CallGetFreePages(dma, order)
      PROVE  Solvent(mem')
  <2> DEFINE s == 2^order * PAGE_SIZE
  <2>1. s \in Nat
    <3>1. 2^order \in Nat
      BY PageConstants
    <3> QED BY <1>0, <3>1
  <2>2. PICK o \in get_free_pages(mem, dma, s) : mem' = o.m
    BY <1>4 DEF CallGetFreePages, Returned
  <2> HIDE DEF s
  <2> QED BY <2>1, <2>2, GetFreePagesSolvent
<1>5. ASSUME NEW p \in DOMAIN blocks, CallFreePages(p) PROVE Solvent(mem')
  BY <1>5, ReturnSolvent DEF CallFreePages, free_pages
<1>6. ASSUME NEW off \in Offsets, CallIoremap(off) PROVE Solvent(mem')
  <2>1. PICK r \in VMAlloc(mem, RoundUp(off + 1)) : mem' = r.m
    BY <1>6 DEF CallIoremap, Returned
  <2> QED BY <2>1, VMAllocSolvent
<1>7. ASSUME NEW p \in DOMAIN blocks, CallIounmap(p) PROVE Solvent(mem')
  BY <1>7, VMFreeSolvent DEF CallIounmap
<1>8. CASE UNCHANGED pageVars
  BY <1>8 DEF pageVars
<1> QED
  BY <1>1, <1>2, <1>3, <1>4, <1>5, <1>6, <1>7, <1>8 DEF PageNext

\* The counter of allocated pages covers what the entries will take off it,
\* whatever is allocated, moved, resized and freed in whatever order: the
\* unsigned count of memory.c never wraps below zero.
THEOREM PageCounterCovers == PageSpec => []CounterCovers
<1>1. PageInit => Solvent(mem)
  BY PageInitSolvent
<1>2. Solvent(mem) /\ [PageNext]_pageVars => Solvent(mem)'
  BY PageNextSolvent
<1>3. Solvent(mem) => CounterCovers
  <2> SUFFICES ASSUME Solvent(mem) PROVE CounterCovers
    OBVIOUS
  <2>1. mem.used >= Debt(mem.list) /\ DOMAIN mem.list = 1 .. Len(mem.list)
    BY SolventParts
  <2> QED BY <2>1 DEF CounterCovers, Debt
<1> QED BY <1>1, <1>2, <1>3, PTL DEF PageSpec
=============================================================================
