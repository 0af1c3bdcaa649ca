----------------------------- MODULE Allocator -----------------------------
(***************************************************************************)
(* What a caller may expect of malloc and free: memory it holds belongs to *)
(* it alone, lies in the region, consists of whole dwords, is at least as  *)
(* large as it asked for, and keeps its address and size until it is       *)
(* freed.  How the allocator finds the memory is left open.                *)
(***************************************************************************)
EXTENDS Integers

CONSTANTS
    RegionSize,     \* the region is the bytes 0 .. RegionSize - 1
    Requests        \* the sizes that callers ask for

VARIABLES
    held,           \* held[p]: the bytes a caller holds at p
    asked           \* asked[p]: the bytes it asked for

vars == <<held, asked>>

-----------------------------------------------------------------------------
Dwords == {i \in 0 .. RegionSize : i % 4 = 0}

Init == held = [p \in {} |-> 0] /\ asked = [p \in {} |-> 0]

\* The function f with the value v at p, and without p.
With(f, p, v) == [q \in DOMAIN f \cup {p} |-> IF q = p THEN v ELSE f[q]]
Without(f, p) == [q \in DOMAIN f \ {p} |-> f[q]]

\* The s bytes at p touch nothing that is held.
Unheld(p, s) == \A q \in DOMAIN held : p + s <= q \/ q + held[q] <= p

\* Some s bytes at p are handed to a caller that asked for n.
Grant(n, p, s) ==
    /\ s >= n
    /\ p + s <= RegionSize
    /\ Unheld(p, s)
    /\ held' = With(held, p, s)
    /\ asked' = With(asked, p, n)

Allocate ==
    \E n \in Requests \ {0}, p \in Dwords, s \in Dwords : Grant(n, p, s)

\* The caller gives back what it holds at p.
Release(p) == held' = Without(held, p) /\ asked' = Without(asked, p)

Next == Allocate \/ \E p \in DOMAIN held : Release(p)

Spec == Init /\ [][Next]_vars
=============================================================================
