---------------------------- MODULE HeapClients ----------------------------
(***************************************************************************)
(* The private heap with its callers: Heap and a history variable for what *)
(* each caller asked for, and the mapping to what an allocator promises.   *)
(* The history variable is never read by an action.                        *)
(***************************************************************************)
EXTENDS Heap

VARIABLE wanted     \* wanted[b]: the size passed to malloc for the used block b

cvars == <<ulSize, pmbUsed, pmbFree, uMemFree, pmb, sFreed, wanted>>

ClientInit == HeapInit /\ wanted = [b \in {} |-> 0]

ClientMalloc(n) ==
    /\ malloc(n)
    /\ wanted' = [b \in pmbUsed' |-> IF b \in pmbUsed THEN wanted[b] ELSE n]

ClientFree(b) ==
    /\ free(b)
    /\ wanted' = [c \in pmbUsed' |-> wanted[c]]

ClientNext ==
    \/ \E n \in Requests : ClientMalloc(n)
    \/ \E n \in Requests : mallocFails(n) /\ UNCHANGED wanted
    \/ \E b \in pmbUsed : ClientFree(b)
    \/ compact /\ UNCHANGED wanted

ClientSpec == ClientInit /\ [][ClientNext]_cvars

\* compact runs with interrupts disabled: its loop is never preempted.
FairClientSpec == ClientSpec /\ WF_cvars(compact /\ UNCHANGED wanted)

-----------------------------------------------------------------------------
\* malloc returns the address behind the header.
Pointer(b) == b + HDR_SIZE
Pointers == {Pointer(b) : b \in pmbUsed}

Memory == INSTANCE Allocator WITH
    RegionSize <- HEAP_SIZE,
    held <- [p \in Pointers |-> ulSize[p - HDR_SIZE]],
    asked <- [p \in Pointers |-> wanted[p - HDR_SIZE]]

\* malloc and free behave as an allocator: splitting, merging and relinking
\* are invisible, and nobody is ever handed memory that somebody holds, that
\* is too small, or that lies outside the heap.
ImplementsAllocator == Memory!Spec
=============================================================================
