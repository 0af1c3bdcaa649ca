----------------------------- MODULE PageMemory -----------------------------
(***************************************************************************)
(* kmalloc, krealloc, __get_free_pages and ioremap of lib32/memory.c over  *)
(* the kernel's page allocator and the private heap.                       *)
(*                                                                         *)
(* Sizes and addresses are in units of 1 KB.  The linear address space is  *)
(* 0 .. Space-1; the addresses from Space up stand for the private heap,   *)
(* of which only the number of blocks matters here.  One page of the       *)
(* address space, HeapEnd, follows the heap's last byte.  The physical     *)
(* address of a region counts only by its offset in a 64 KB frame.  The    *)
(* routines run to completion in task context, so each call is one step;   *)
(* calls they make are operators from one memory to the next, or to the    *)
(* set of memories that the kernel's choice of a region allows.            *)
(***************************************************************************)
EXTENDS Integers, Sequences, FiniteSets, FiniteSetsExt, SequencesExt, Sums

CONSTANTS
    PAGE_SIZE,      \* a page
    Frame,          \* 64 KB: the window a DMA transfer may not leave
    Space,          \* the linear addresses
    HeapSlots,      \* blocks that the private heap can hold
    HeapEnd,        \* the address behind the private heap; Space: not for us
    Orders,         \* arguments of __get_free_pages
    Sizes,          \* arguments of kmalloc and krealloc
    Offsets,        \* offsets of device memory in its page
    MaxHeld,        \* bound: blocks that callers hold at once
    MaxUsed         \* bound: the counter of allocated pages

ASSUME PageConstants ==
    /\ PAGE_SIZE \in Nat \ {0} /\ Frame \in Nat \ {0} /\ Space \in Nat
    /\ Frame % PAGE_SIZE = 0 /\ Space % PAGE_SIZE = 0
    /\ HeapSlots \in Nat /\ HeapEnd \in 0 .. Space /\ Sizes \subseteq Nat
    /\ \A order \in Orders : 2^order \in Nat \ {0}
    /\ Offsets \subseteq 0 .. (PAGE_SIZE - 1)

VARIABLES
    mem,        \* the allocators, see PageTypeOK
    blocks      \* the blocks that callers hold, and those that a free lost

pageVars == <<mem, blocks>>

NoPhys == -1            \* virt_to_phys failed
HeapAddrs == Space .. (Space + HeapSlots - 1)
Pages == {a \in 0 .. (Space - 1) : a % PAGE_SIZE = 0}
RoundUp(n) == ((n + PAGE_SIZE - 1) \div PAGE_SIZE) * PAGE_SIZE

\* The bound is inclusive: the first address behind the heap is taken for
\* one of its own.
IsHeapAddr(a) == a >= Space \/ a = HeapEnd

-----------------------------------------------------------------------------
(***************************************************************************)
(* The kernel's page allocator.                                            *)
(***************************************************************************)
\* The addresses at which s units are free.
FreeRanges(m, s) ==
    {a \in Pages : /\ a + s <= Space
                   /\ \A b \in DOMAIN m.vm : a + s <= b \/ b + m.vm[b].size <= a}

\* The physical offsets that the kernel may report for a region.
PhysOffsets == {NoPhys} \cup {g \in 0 .. (Frame - 1) : g % PAGE_SIZE = 0}

\* A region of s units at the address a.
Placed(m, a, s, f) ==
    [addr |-> a, phys |-> f,
     m |-> [m EXCEPT !.vm = [b \in DOMAIN @ \cup {a} |->
                                IF b = a THEN [size |-> s, phys |-> f] ELSE @[b]]]]

\* What KernVMAlloc can do: a region at an address and a physical offset of
\* its choice.
VMAlloc(m, s) == {Placed(m, a, s, f) : a \in FreeRanges(m, s), f \in PhysOffsets}

\* KernVMFree wants the first address of a region and fails otherwise.
VMFree(m, a) ==
    [m EXCEPT !.vm = [b \in DOMAIN @ \ {a} |-> @[b]], !.missed = @ \ {a}]

-----------------------------------------------------------------------------
(***************************************************************************)
(* The list of base addresses.  An entry is a block of the private heap.   *)
(***************************************************************************)
\* An entry in front of the list; without memory for it, none (missed keeps
\* the regions to which that happened, for the properties).
AddBaseAddress(m, baseaddr, retaddr, size) ==
    IF m.heap = 0 THEN [m EXCEPT !.missed = @ \cup {baseaddr}]
    ELSE [m EXCEPT
            !.list = <<[base |-> baseaddr, retaddr |-> retaddr, size |-> size]>> \o @,
            !.heap = @ - 1]

Hits(m, addr) == {i \in DOMAIN m.list : m.list[i].retaddr = addr}

\* The base and the size recorded for an address; the address itself and no
\* size if there is none.
Recorded(m, addr) ==
    IF Hits(m, addr) = {} THEN [base |-> addr, retaddr |-> addr, size |-> 0]
    ELSE m.list[Min(Hits(m, addr))]

\* The list without the entry for an address.
Unlink(m, addr) ==
    IF Hits(m, addr) = {} THEN m
    ELSE [m EXCEPT !.list = RemoveAt(@, Min(Hits(m, addr)))]

\* Slip: the entry stays on the list.
GetBaseAddressAndFree_Keeps(m, addr) == m

\* The entry is unlinked and its memory returned.
GetBaseAddressAndFree(m, addr) ==
    [Unlink(m, addr) EXCEPT !.heap = IF Hits(m, addr) = {} THEN @ ELSE @ + 1]

\* The entry is unlinked, its memory is not returned.
GetBaseAddressNoFree(m, addr) == Unlink(m, addr)

-----------------------------------------------------------------------------
(***************************************************************************)
(* Pages.                                                                  *)
(***************************************************************************)
Charge(m, s) == [m EXCEPT !.used = @ + s]

\* The region at a is given back and the counter reduced by s, unless the
\* kernel refuses.
Discharge(m, a, s) ==
    IF a \in DOMAIN m.vm THEN [VMFree(m, a) EXCEPT !.used = @ - s] ELSE m

\* Slip: the address of the block is taken for the base of its region.
free_pages_NoBase(m, addr) ==
    Discharge(GetBaseAddressAndFree(m, addr), addr, Recorded(m, addr).size)

free_pages(m, addr) ==
    Discharge(GetBaseAddressAndFree(m, addr), Recorded(m, addr).base,
              Recorded(m, addr).size)

\* vfree looks the size up and frees the address it was given.
vfree(m, addr) ==
    Discharge(GetBaseAddressAndFree(m, addr), addr, Recorded(m, addr).size)

Failure(m) == [addr |-> NoPhys, m |-> m]

\* Slip: the counter is charged the request, the entry holds whole pages.
vmalloc_ChargesRequest(m, size) ==
    {Failure(m)} \cup
    {[addr |-> r.addr,
      m |-> Charge(AddBaseAddress(r.m, r.addr, r.addr, RoundUp(size)), size)] :
        r \in VMAlloc(m, RoundUp(size))}

\* vmalloc: whole pages, recorded for their size.
vmalloc(m, size) ==
    {Failure(m)} \cup
    {[addr |-> r.addr,
      m |-> Charge(AddBaseAddress(r.m, r.addr, r.addr, RoundUp(size)), RoundUp(size))] :
        r \in VMAlloc(m, RoundUp(size))}

\* Slip: 64 KB and more may begin anywhere in a frame.
Crosses_LargeAnywhere(phys, size) ==
    size < Frame /\ (phys + size) \div Frame # phys \div Frame

\* The test for a block that leaves its 64 KB frame; one of 64 KB or more
\* must begin a frame (63 KB are compared).
Crosses(phys, size) ==
    LET n == IF size < Frame THEN size ELSE Frame - 1
    IN  (phys + n) \div Frame # phys \div Frame

\* __get_free_dma_pages keeps a region that does not cross.  If the first one
\* does, a second is allocated before the first is freed; a second region
\* whose physical address is unknown is kept.
DmaTry(m, size) ==
    LET keep(r) == [addr |-> r.addr,
                    m |-> Charge(AddBaseAddress(r.m, r.addr, r.addr, size), size)]
        second(r) == {[q EXCEPT !.m = VMFree(@, r.addr)] : q \in VMAlloc(r.m, size)}
    IN  {Failure(m)} \cup UNION
        {IF r.phys # NoPhys /\ ~Crosses(r.phys, size) THEN {keep(r)}
         ELSE IF r.phys = NoPhys THEN {Failure(m)}
         ELSE {Failure(m)} \cup
              {keep(q) : q \in {q \in second(r) :
                                   q.phys = NoPhys \/ ~Crosses(q.phys, size)}} :
            r \in VMAlloc(m, size)}

\* Slip: the wasteful way allocates no more than the block.
WastefulSize_NoRoom(size) == size

\* Room to move the block to the next frame.
WastefulSize(size) == IF size < Frame THEN size * 2 ELSE size + Frame

\* A region with room for alignment; a block that would cross starts at the
\* next frame.  Only a moved block is recorded.
DmaWasteful(m, size) ==
    LET big == WastefulSize(size)
        shift(r) == (r.phys \div Frame + 1) * Frame - r.phys
    IN  {Failure(m)} \cup
        {IF r.phys = NoPhys THEN Failure(free_pages(r.m, r.addr))
         ELSE IF Crosses(r.phys, size)
         THEN [addr |-> r.addr + shift(r),
               m |-> Charge(AddBaseAddress(r.m, r.addr, r.addr + shift(r), big), big)]
         ELSE [addr |-> r.addr, m |-> Charge(r.m, big)] : r \in VMAlloc(m, big)}

\* __get_free_pages: the wasteful way when the first one returned nothing.
get_free_pages(m, dma, size) ==
    IF ~dma THEN vmalloc(m, size)
    ELSE LET tried == DmaTry(m, size)
         IN  {o \in tried : o.addr # NoPhys} \cup
             UNION {DmaWasteful(o.m, size) : o \in {o \in tried : o.addr = NoPhys}}

-----------------------------------------------------------------------------
(***************************************************************************)
(* kmalloc.                                                                *)
(***************************************************************************)
HeapMalloc(m) ==
    IF m.heap = 0 THEN {Failure(m)}
    ELSE {[addr |-> Min(HeapAddrs \ DOMAIN blocks), m |-> [m EXCEPT !.heap = @ - 1]]}

\* Less than a page comes from the private heap.
kmalloc(m, size) == IF size >= PAGE_SIZE THEN vmalloc(m, size) ELSE HeapMalloc(m)

\* free finds the blocks of the heap on its used chain.  It finds none behind
\* the heap, and returns without giving anything back.
FreeFinds(addr) == addr >= Space

kfree(m, addr) ==
    IF ~IsHeapAddr(addr) THEN vfree(m, addr)
    ELSE IF FreeFinds(addr) THEN [m EXCEPT !.heap = @ + 1]
    ELSE m

\* What ksize may report: the size of the block or, for pages without an
\* entry, a variable that was never assigned; behind the heap, whatever the
\* heap's last bytes hold.
ksize(m, addr) ==
    IF FreeFinds(addr) THEN {blocks[addr].size}
    ELSE IF IsHeapAddr(addr) THEN 0 .. Space
    ELSE IF Hits(m, addr) # {} THEN {Recorded(m, addr).size}
    ELSE 0 .. Space

\* ... and what it does to the list.
AfterKsize(m, addr) == IF IsHeapAddr(addr) THEN m ELSE GetBaseAddressNoFree(m, addr)

-----------------------------------------------------------------------------
(***************************************************************************)
(* The calls.  A block remembers its kind, the units usable in it, the     *)
(* units its caller believes to own (want), and whether what the caller    *)
(* stored is still there (kept).  A block that its caller gave to kfree    *)
(* and free did not find is lost: nobody holds it, its region and its      *)
(* entry stay.                                                             *)
(***************************************************************************)
Hold(addr, b) == [a \in DOMAIN blocks \cup {addr} |-> IF a = addr THEN b ELSE blocks[a]]
Without(bs, addr) == [a \in DOMAIN bs \ {addr} |-> bs[a]]
Drop(addr) == Without(blocks, addr)

\* The blocks bs after kfree of the one at addr.
AfterKfree(bs, addr) ==
    IF IsHeapAddr(addr) /\ ~FreeFinds(addr)
    THEN [bs EXCEPT ![addr].kind = "lost"]
    ELSE Without(bs, addr)

Held == {p \in DOMAIN blocks : blocks[p].kind # "lost"}

Block(kind, size, want) == [kind |-> kind, size |-> size, want |-> want, kept |-> TRUE]

Usable(n) == IF n >= PAGE_SIZE THEN RoundUp(n) ELSE n

\* Room for one more block.
MayHold == Cardinality(Held) < MaxHeld /\ mem.used <= MaxUsed

\* An allocation that returned nothing, or a block of this kind.
Returned(o, b) ==
    /\ mem' = o.m
    /\ blocks' = IF o.addr = NoPhys THEN blocks ELSE Hold(o.addr, b)

CallKmalloc(n) ==
    /\ MayHold
    /\ \E o \in kmalloc(mem, n) : Returned(o, Block("kmalloc", Usable(n), n))

CallKfree(p) ==
    /\ blocks[p].kind = "kmalloc"
    /\ mem' = kfree(mem, p)
    /\ blocks' = AfterKfree(blocks, p)

CallGetFreePages(dma, order) ==
    LET size == 2^order * PAGE_SIZE
    IN  /\ MayHold
        /\ \E o \in get_free_pages(mem, dma, size) :
              Returned(o, Block(IF dma THEN "dma" ELSE "pages", size, size))

CallFreePages(p) ==
    /\ blocks[p].kind \in {"dma", "pages"}
    /\ mem' = free_pages(mem, p)
    /\ blocks' = Drop(p)

\* ksize says the block is large enough: it is returned as it is.
ReallocInPlace(p, n, ks) ==
    /\ ks >= n
    /\ mem' = AfterKsize(mem, p)
    /\ blocks' = [blocks EXCEPT ![p].want = n, ![p].kept = @ /\ n <= blocks[p].size]

\* A new block, ks units copied, the old block freed; or no memory, and the
\* old block stays.
ReallocMoves(p, n, ks) ==
    /\ ks < n
    /\ \E o \in kmalloc(AfterKsize(mem, p), n) :
          IF o.addr = NoPhys
          THEN mem' = o.m /\ UNCHANGED blocks
          ELSE /\ mem' = kfree(o.m, p)
               /\ blocks' = AfterKfree(
                    Hold(o.addr, [Block("kmalloc", Usable(n), n) EXCEPT
                                    !.kept = /\ blocks[p].kept
                                             /\ ks >= Min({blocks[p].want, n})]), p)

\* krealloc of a block that kmalloc returned, to a size other than zero;
\* without a block it is kmalloc, to zero it is kfree.
CallKrealloc(p, n) ==
    /\ blocks[p].kind = "kmalloc"
    /\ mem.used <= MaxUsed
    /\ \E ks \in ksize(mem, p) : ReallocInPlace(p, n, ks) \/ ReallocMoves(p, n, ks)

\* Device memory is mapped from the start of its page.
CallIoremap(off) ==
    LET len == RoundUp(off + 1)
    IN  /\ MayHold
        /\ \E r \in VMAlloc(mem, len) :
              Returned([addr |-> r.addr + off, m |-> r.m], Block("io", 1, 1))

CallIounmap(p) ==
    /\ blocks[p].kind = "io"
    /\ mem' = VMFree(mem, (p \div PAGE_SIZE) * PAGE_SIZE)
    /\ blocks' = Drop(p)

-----------------------------------------------------------------------------
PageInit ==
    /\ mem = [vm |-> <<>>, list |-> <<>>, heap |-> HeapSlots, used |-> 0,
              missed |-> {}]
    /\ blocks = <<>>

PageNext ==
    \/ \E n \in Sizes : CallKmalloc(n)
    \/ \E p \in DOMAIN blocks : CallKfree(p)
    \/ \E p \in DOMAIN blocks, n \in Sizes : CallKrealloc(p, n)
    \/ \E dma \in BOOLEAN, order \in Orders : CallGetFreePages(dma, order)
    \/ \E p \in DOMAIN blocks : CallFreePages(p)
    \/ \E off \in Offsets : CallIoremap(off)
    \/ \E p \in DOMAIN blocks : CallIounmap(p)

PageSpec == PageInit /\ [][PageNext]_pageVars

-----------------------------------------------------------------------------
\* The type invariant.
PageTypeOK ==
    /\ DOMAIN mem.vm \subseteq Pages
    /\ \A a \in DOMAIN mem.vm :
          mem.vm[a].size \in 1 .. Space /\ mem.vm[a].phys \in NoPhys .. (Frame - 1)
    /\ \A i \in DOMAIN mem.list : mem.list[i].base \in Pages
    /\ mem.heap \in 0 .. HeapSlots /\ mem.used \in Int /\ mem.missed \subseteq Pages
    /\ DOMAIN blocks \subseteq 0 .. (Space + HeapSlots - 1)

\* The blocks in pages, and the regions they lie in.
PageBlocks == {p \in DOMAIN blocks : p < Space}
RegionsOf(p) ==
    {a \in DOMAIN mem.vm : a <= p /\ p + blocks[p].size <= a + mem.vm[a].size}

\* Every block in pages lies in one live region, and no two blocks in the
\* same: moving a block to the next frame stays in its region, and a free
\* never takes a region from somebody else.
BlocksOwned ==
    /\ \A p \in PageBlocks : Cardinality(RegionsOf(p)) = 1
    /\ \A p, q \in PageBlocks : p # q => RegionsOf(p) \cap RegionsOf(q) = {}

\* A DMA block whose physical address is known stays in its frame, or begins
\* one if it is larger.
DmaInFrame ==
    \A p \in PageBlocks : \A a \in RegionsOf(p) :
        LET phys == mem.vm[a].phys + (p - a)
            len == Min({blocks[p].size, Frame})
        IN  blocks[p].kind = "dma" /\ mem.vm[a].phys # NoPhys
            => phys \div Frame = (phys + len - 1) \div Frame

\* The block belongs to a caller, or lies behind the heap, where kfree loses it.
HeldOrBehindHeap(p) == p \in Held \/ p = HeapEnd

\* An entry of the list stands for a block that is held and tells its region:
\* a stale one would make the free of a later block at the same address give
\* back the wrong region.  The one stale entry that can be is that of a block
\* right behind the heap, and its region is never used again.
RecordsTrue ==
    /\ PageTypeOK
    /\ \A i \in DOMAIN mem.list :
          LET e == mem.list[i]
          IN  /\ e.retaddr \in PageBlocks /\ HeldOrBehindHeap(e.retaddr)
              /\ RegionsOf(e.retaddr) = {e.base}
              /\ e.size = mem.vm[e.base].size
              /\ Hits(mem, e.retaddr) = {i}

\* A region whose entry found room in the private heap belongs to a block
\* that is held: nothing that was freed stays allocated, except the region
\* right behind the heap.
NoRegionLost ==
    \A a \in DOMAIN mem.vm :
        \/ a \in mem.missed
        \/ \E p \in PageBlocks : a \in RegionsOf(p) /\ HeldOrBehindHeap(p)

\* The counter of allocated pages covers what the entries will take off it:
\* the unsigned count never wraps below zero.
CounterCovers ==
    mem.used >= SumOf([i \in DOMAIN mem.list |-> mem.list[i].size])

-----------------------------------------------------------------------------
(***************************************************************************)
(* What a comment of memory.c says.                                        *)
(***************************************************************************)
\* "The contents of the object pointed to are preserved up to the lesser of
\* the new and old sizes", and the block has room for its new size.
ContentsKept == \A p \in DOMAIN blocks : blocks[p].kept
=============================================================================
