-------------------------------- MODULE Heap --------------------------------
(***************************************************************************)
(* The driver's private heap: malloc, free and compact of lib32/malloc.c.  *)
(*                                                                         *)
(* The heap is one fixed region.  A block is a header of HDR_SIZE bytes    *)
(* followed by ulSize bytes; a block is on the list of used blocks or on   *)
(* the list of free blocks.  Addresses are offsets from acHeap.  The order *)
(* of the used list is never observed, so it is the set pmbUsed; the order *)
(* of the free list decides which block malloc takes and which pairs       *)
(* compact merges, so it is the sequence pmbFree.                          *)
(*                                                                         *)
(* malloc and free run with interrupts disabled (DevPushfCli .. DevPopf),  *)
(* so each is one step, except that every iteration of compact's loop is a *)
(* step of its own: nothing else is enabled while the loop runs.           *)
(***************************************************************************)
EXTENDS Integers, Sequences, FiniteSets, Sums

CONSTANTS
    HEAP_SIZE,      \* bytes given to HeapInit
    HDR_SIZE,       \* sizeof(MEMBLOCK) - 4
    MIN_FragSize,   \* smallest data part of a block that is split off
    ULONG_MOD,      \* unsigned arithmetic is modulo this number
    Requests        \* the sizes that callers pass to malloc

ASSUME HeapConstants ==
    /\ HEAP_SIZE \in Nat /\ HDR_SIZE \in Nat /\ MIN_FragSize \in Nat
    /\ ULONG_MOD \in Nat
    /\ HEAP_SIZE % 4 = 0 /\ HDR_SIZE % 4 = 0 /\ MIN_FragSize % 4 = 0
    /\ HDR_SIZE > 0 /\ MIN_FragSize > 0
    /\ HEAP_SIZE >= HDR_SIZE + MIN_FragSize
    /\ ULONG_MOD > HEAP_SIZE + HDR_SIZE
    /\ Requests \subseteq Nat

VARIABLES
    ulSize,     \* ulSize[a]: the size field of the header at a; 0: no header at a
    pmbUsed,    \* the allocated blocks
    pmbFree,    \* the free list, head first
    uMemFree,   \* the count _memfree() reports
    pmb,        \* compact's cursor: a position of pmbFree; 0: compact not running
    sFreed      \* merges done by this call of compact

vars == <<ulSize, pmbUsed, pmbFree, uMemFree, pmb, sFreed>>

-----------------------------------------------------------------------------
Addr == {a \in 0 .. (HEAP_SIZE - 1) : a % 4 = 0}

\* The elements of a list, and a list without repetition.
Members(s) == {s[i] : i \in 1 .. Len(s)}
NoRepeats(s) == \A i, j \in 1 .. Len(s) : s[i] = s[j] => i = j

\* The free list as a set, and all blocks of the heap.
FreeBlocks == Members(pmbFree)
Blocks == pmbUsed \cup FreeBlocks

\* The first byte behind block b: the macro after().
after(b) == b + ulSize[b] + HDR_SIZE

\* Slip: the threshold forgets the header.
MIN_Leftover_NoHeader == MIN_FragSize

\* "Threshold for creating a new free block."
MIN_Leftover == HDR_SIZE + MIN_FragSize

\* (ulSize + 3) & -4
DwordAlign(n) == ((n + 3) \div 4) * 4

\* The list s without its element at position i: h_remove.
h_remove(s, i) ==
    [j \in 1 .. (Len(s) - 1) |-> IF j < i THEN s[j] ELSE s[j + 1]]

\* The list s with b in the place of its element at position i.
Replace(s, i, b) == [s EXCEPT ![i] = b]

\* The list s with b put in front of it.
PushFront(b, s) ==
    [j \in 1 .. (Len(s) + 1) |-> IF j = 1 THEN b ELSE s[j - 1]]

-----------------------------------------------------------------------------
\* One free block over the whole region; uMemFree does not count its header.
HeapInit ==
    /\ ulSize = [a \in Addr |-> IF a = 0 THEN HEAP_SIZE - HDR_SIZE ELSE 0]
    /\ pmbUsed = {}
    /\ pmbFree = <<0>>
    /\ uMemFree = HEAP_SIZE - HDR_SIZE
    /\ pmb = 0
    /\ sFreed = 0

\* Slip: the header is counted as room.
Fits_WithHeader(r) ==
    {i \in 1 .. Len(pmbFree) : ulSize[pmbFree[i]] + HDR_SIZE >= r}

\* The positions of the free list that can hold r bytes.
Fits(r) == {i \in 1 .. Len(pmbFree) : ulSize[pmbFree[i]] >= r}

\* The block is split: its head is allocated, the leftover takes its place
\* on the free list.
SplitBlock(i, r) ==
    LET b == pmbFree[i]
        new == b + HDR_SIZE + r
        left == ulSize[b] - (r + HDR_SIZE)
    IN  /\ ulSize[b] >= r + MIN_Leftover
        /\ ulSize' = [ulSize EXCEPT ![b] = r, ![new] = left]
        /\ pmbFree' = Replace(pmbFree, i, new)
        /\ pmbUsed' = pmbUsed \cup {b}
        /\ uMemFree' = (uMemFree - (r + HDR_SIZE)) % ULONG_MOD

\* Slip: the counter is charged the request, not the block.
WholeBlock_ChargesRequest(i, r) ==
    LET b == pmbFree[i]
    IN  /\ ulSize[b] < r + MIN_Leftover
        /\ pmbFree' = h_remove(pmbFree, i)
        /\ pmbUsed' = pmbUsed \cup {b}
        /\ uMemFree' = (uMemFree - (r + HDR_SIZE)) % ULONG_MOD
        /\ UNCHANGED ulSize

\* Too little would be left: the whole block is allocated.
WholeBlock(i, r) ==
    LET b == pmbFree[i]
    IN  /\ ulSize[b] < r + MIN_Leftover
        /\ pmbFree' = h_remove(pmbFree, i)
        /\ pmbUsed' = pmbUsed \cup {b}
        /\ uMemFree' = (uMemFree - (ulSize[b] + HDR_SIZE)) % ULONG_MOD
        /\ UNCHANGED ulSize

npvAllocateBlock(i, r) == SplitBlock(i, r) \/ WholeBlock(i, r)

\* malloc takes the first block of the free list that is large enough.
malloc(n) ==
    /\ pmb = 0
    /\ n > 0 /\ n <= HEAP_SIZE
    /\ \E i \in Fits(DwordAlign(n)) :
          /\ \A j \in Fits(DwordAlign(n)) : i <= j
          /\ npvAllocateBlock(i, DwordAlign(n))
    /\ UNCHANGED <<pmb, sFreed>>

\* malloc returns 0: a size of 0, a size beyond the heap, or no block fits.
mallocFails(n) ==
    /\ pmb = 0
    /\ n = 0 \/ n > HEAP_SIZE \/ Fits(DwordAlign(n)) = {}
    /\ UNCHANGED vars

\* free puts the block at the head of the free list and calls compact, whose
\* cursor starts at the second block of the list.
free(b) ==
    /\ pmb = 0
    /\ b \in pmbUsed
    /\ uMemFree' = (uMemFree + ulSize[b] + HDR_SIZE) % ULONG_MOD
    /\ pmbUsed' = pmbUsed \ {b}
    /\ pmbFree' = PushFront(b, pmbFree)
    /\ pmb' = 2
    /\ sFreed' = 0
    /\ UNCHANGED ulSize

-----------------------------------------------------------------------------
(***************************************************************************)
(* compact.  The loop compares the block under the cursor with the head of *)
(* the list.  After a merge one element has left the list, so the element  *)
(* that pmb->pmbNext names has moved down to the cursor's own position.    *)
(***************************************************************************)
Looping == pmb > 0 /\ pmb <= Len(pmbFree) /\ sFreed < 2

\* Slip: the swallowed header is forgotten.
Swallow_NoHeader(i, j) ==
    /\ ulSize' = [ulSize EXCEPT ![pmbFree[i]] = @ + ulSize[pmbFree[j]],
                                ![pmbFree[j]] = 0]
    /\ pmbFree' = h_remove(pmbFree, j)
    /\ sFreed' = sFreed + 1
    /\ UNCHANGED <<pmbUsed, uMemFree, pmb>>

\* The block at position i grows over the one at position j, which leaves the
\* list.
Swallow(i, j) ==
    /\ ulSize' = [ulSize EXCEPT ![pmbFree[i]] = @ + HDR_SIZE + ulSize[pmbFree[j]],
                                ![pmbFree[j]] = 0]
    /\ pmbFree' = h_remove(pmbFree, j)
    /\ sFreed' = sFreed + 1
    /\ UNCHANGED <<pmbUsed, uMemFree, pmb>>

\* after(pmb) == pmbFree
MergeHeadIntoBlock ==
    /\ Looping
    /\ after(pmbFree[pmb]) = pmbFree[1]
    /\ Swallow(pmb, 1)

\* after(pmbFree) == pmb
MergeBlockIntoHead ==
    /\ Looping
    /\ after(pmbFree[pmb]) # pmbFree[1]
    /\ after(pmbFree[1]) = pmbFree[pmb]
    /\ Swallow(1, pmb)

\* Slip: the cursor is not advanced.
Advance_Stays ==
    /\ Looping
    /\ after(pmbFree[pmb]) # pmbFree[1]
    /\ after(pmbFree[1]) # pmbFree[pmb]
    /\ UNCHANGED vars

\* The two are not adjacent.
Advance ==
    /\ Looping
    /\ after(pmbFree[pmb]) # pmbFree[1]
    /\ after(pmbFree[1]) # pmbFree[pmb]
    /\ pmb' = pmb + 1
    /\ UNCHANGED <<ulSize, pmbUsed, pmbFree, uMemFree, sFreed>>

\* The end of the list, or the second merge: compact and free return.
compactReturns ==
    /\ pmb > 0
    /\ ~Looping
    /\ pmb' = 0
    /\ sFreed' = 0
    /\ UNCHANGED <<ulSize, pmbUsed, pmbFree, uMemFree>>

compact ==
    MergeHeadIntoBlock \/ MergeBlockIntoHead \/ Advance \/ compactReturns

-----------------------------------------------------------------------------
Next ==
    \/ \E n \in Requests : malloc(n) \/ mallocFails(n)
    \/ \E b \in pmbUsed : free(b)
    \/ compact

Spec == HeapInit /\ [][Next]_vars

-----------------------------------------------------------------------------
\* The type invariant.
TypeOK ==
    /\ ulSize \in [Addr -> Nat]
    /\ pmbUsed \subseteq Addr
    /\ pmbFree \in Seq(Addr)
    /\ uMemFree \in 0 .. (ULONG_MOD - 1)
    /\ pmb \in Nat
    /\ sFreed \in 0 .. 2

\* Free and used blocks are different blocks, and no block is on the free
\* list twice: what the relinking in npvAllocateBlock, free and h_remove must
\* preserve, for otherwise one piece of memory is handed out twice.
ListsDisjoint == NoRepeats(pmbFree) /\ FreeBlocks \cap pmbUsed = {}

\* Every block, header included, lies in the heap.
InHeap == \A b \in Blocks : ulSize[b] > 0 /\ after(b) <= HEAP_SIZE

\* Of two blocks one ends before the other begins.
Apart == \A b, c \in Blocks : b < c => after(b) <= c

\* Splitting in malloc and merging in compact never make two blocks share a
\* byte: two callers never hold the same memory.
BlocksDisjoint == ListsDisjoint /\ InHeap /\ Apart

\* No memory is lost: the blocks tile the heap.  One starts at its first
\* byte, and where one ends the next begins or the heap ends.
Tiled ==
    /\ 0 \in Blocks
    /\ \A b \in Blocks : after(b) = HEAP_SIZE \/ after(b) \in Blocks

\* Bytes in a set of blocks, headers included (ulcAlloc, ulcFree).
Total(S) == SumOf([b \in S |-> ulSize[b] + HDR_SIZE])

\* HeapCheck: "Alloc+Free != Total" never happens, and _memfree() is the free
\* bytes less one header, modulo the width of the counter, at the exit of
\* malloc and free and between the merges of compact.  Callers free what
\* malloc gave them: free adds the size it reads before it looks for the
\* block, also when kfree passes it an address behind the heap (PageMemory).
Accounted ==
    /\ Total(pmbUsed) + Total(FreeBlocks) = HEAP_SIZE
    /\ uMemFree = (Total(FreeBlocks) - HDR_SIZE) % ULONG_MOD

\* malloc, free and compact never touch the header of a block that a caller
\* holds before and after the step: what was allocated keeps its size.
LiveBlocksKept ==
    [][\A b \in pmbUsed \cap pmbUsed' : ulSize'[b] = ulSize[b]]_vars

\* The loop of compact, which runs with interrupts disabled, ends.
CompactTerminates == (pmb > 0) ~> (pmb = 0)

=============================================================================
