------------------------ MODULE WaveHandles_proofs ------------------------
(***************************************************************************)
(* The table of wave handles is sound for any number of clients, PCMs,     *)
(* handles and entries.  The inductive invariant adds to the properties    *)
(* that a handle holds a substream only of the PCM it was opened for and   *)
(* that a client's live handle is memory in use: freed memory then holds   *)
(* nothing and belongs to nobody, so that an open that is given its        *)
(* address starts afresh.                                                  *)
(***************************************************************************)
EXTENDS WaveHandles, FiniteSetTheorems, FunctionTheorems, TLAPS

(* A substream is held by a handle that was opened for its PCM.            *)
Held == \A p \in Pcms : \A h \in substreams[p] : inode[h] = p

(* What a client has and was not freed is memory in use.                   *)
LiveInUse == \A f \in Files : \A c \in clients[f] : c.live => inode[c.handle] # None

(* The inductive invariant.                                                *)
IInv == TypeOK /\ Held /\ LiveInUse /\ TableSound /\ FreeEntryClean /\ Exclusive

USE DEF Streams

(* The empty table satisfies the invariant.                                *)
LEMMA InitIInv == Init => IInv
  BY HandlesAssumption
  DEF Init, IInv, TypeOK, Held, LiveInUse, TableSound, FreeEntryClean, Exclusive,
      EmptyEntry, UsedEntries, FreeEntries

(* The table after an open, pointwise.                                     *)
LEMMA OpenFreeTable ==
  ASSUME TypeOK, NEW f \in Files, NEW p \in Pcms, NEW h \in Handles, OpenFree(f, p, h),
         NEW e \in Entries
  PROVE  \/ opened_handles'[e] = opened_handles[e]
         \/ /\ IsFirst(e, FreeEntries)
            /\ opened_handles'[e].handle = h /\ opened_handles'[e].FileId = f
            /\ opened_handles'[e].reuse = opened_handles[e].reuse
  BY DEF OpenFree, TypeOK

(* OSS32_WaveOpen fills one entry of the table only.                       *)
LEMMA OneFirst ==
  ASSUME NEW d \in Entries, NEW e \in Entries,
         IsFirst(d, FreeEntries), IsFirst(e, FreeEntries)
  PROVE  d = e
  BY HandlesAssumption DEF IsFirst, FreeEntries, Entries

(* What a client is given.                                                 *)
LEMMA GiveClients ==
  ASSUME TypeOK, NEW f \in Files, NEW p \in Pcms, NEW h \in Handles, Give(f, h, p)
  PROVE  /\ clients' \in [Files -> SUBSET Streams]
         /\ \A g \in Files : \A c \in clients'[g] :
               c \in clients[g] \/ (g = f /\ c.handle = h)
<1> DEFINE new == [handle |-> h, pcm |-> p, live |-> TRUE]
<1>1. new \in Streams /\ new.handle = h
  OBVIOUS
<1> HIDE DEF new
<1>2. clients' = [clients EXCEPT ![f] = @ \cup {new}]
  BY DEF Give, new
<1>3. clients \in [Files -> SUBSET Streams]
  BY DEF TypeOK
<1>4. /\ DOMAIN clients' = Files
      /\ clients'[f] = clients[f] \cup {new}
      /\ \A g \in Files : g # f => clients'[g] = clients[g]
  BY <1>2, <1>3
<1>5. \A g \in Files : clients'[g] \in SUBSET Streams
  <2> SUFFICES ASSUME NEW g \in Files, NEW c \in clients'[g] PROVE c \in Streams
    OBVIOUS
  <2> HIDE DEF Streams
  <2> QED
    BY <1>1, <1>3, <1>4
<1>6. clients' \in [Files -> SUBSET Streams]
  <2> HIDE DEF Streams
  <2> QED
    BY <1>2, <1>3, <1>5
<1>7. ASSUME NEW g \in Files, NEW c \in clients'[g]
      PROVE  c \in clients[g] \/ (g = f /\ c.handle = h)
  BY <1>1, <1>4
<1> QED
  BY <1>6, <1>7

(* A new handle is in no entry and no client has it.                       *)
LEMMA OpenFreeIInv ==
  ASSUME IInv, NEW f \in Files, NEW p \in Pcms, NEW h \in Handles, OpenFree(f, p, h)
  PROVE  IInv'
<1> USE HandlesAssumption
<1>n. inode[h] = None /\ p # None
  BY DEF OpenFree
<1>i. /\ inode'[h] = p
      /\ \A g \in Handles : g # h => inode'[g] = inode[g]
  BY DEF OpenFree, IInv, TypeOK
<1>t. TypeOK'
  <2>1. opened_handles' \in [Entries -> [handle : Handles \cup {None},
                                         FileId : Files \cup {None}, reuse : BOOLEAN]]
    <3> DEFINE T == [handle : Handles \cup {None}, FileId : Files \cup {None},
                     reuse : BOOLEAN]
    <3>1. \A e \in Entries : opened_handles[e] \in T
      BY DEF IInv, TypeOK
    <3>2. \A e \in Entries :
             [opened_handles[e] EXCEPT !.handle = h, !.FileId = f] \in T
      BY <3>1
    <3> HIDE DEF T
    <3>3. opened_handles' \in [Entries -> T]
      BY <3>1, <3>2 DEF OpenFree
    <3> QED
      BY <3>3 DEF T
  <2>2. inode' \in [Handles -> Pcms \cup {None}]
    BY DEF OpenFree, IInv, TypeOK
  <2>3. substreams' \in [Pcms -> SUBSET Handles]
    BY DEF OpenFree, IInv, TypeOK
  <2>4. clients' \in [Files -> SUBSET Streams]
    BY GiveClients DEF OpenFree, IInv
  <2> QED
    BY <2>1, <2>2, <2>3, <2>4 DEF TypeOK
<1>u. \A e \in Entries : opened_handles[e].handle # h
  BY <1>n DEF IInv, TableSound, UsedEntries, TypeOK
<1>h. Held'
  BY <1>n, <1>i DEF OpenFree, IInv, Held, TypeOK
<1>c. \A g \in Files : \A c \in clients'[g] :
         c \in clients[g] \/ (g = f /\ c.handle = h)
  BY GiveClients DEF OpenFree, IInv
<1>l. LiveInUse'
  BY <1>n, <1>i, <1>c, <1>t DEF IInv, LiveInUse, TypeOK
<1>s. TableSound'
  <2> SUFFICES ASSUME NEW e \in Entries, opened_handles'[e].handle # None
               PROVE  LET g == opened_handles'[e].handle
                      IN  /\ inode'[g] # None /\ g \in substreams'[inode'[g]]
                          /\ \A d \in Entries : opened_handles'[d].handle = g => d = e
    BY DEF TableSound, UsedEntries
  <2>1. CASE opened_handles'[e] = opened_handles[e]
    <3>1. opened_handles[e].handle \in Handles /\ opened_handles[e].handle # h
      BY <2>1, <1>u DEF IInv, TypeOK
    <3>2. /\ inode[opened_handles[e].handle] \in Pcms
          /\ opened_handles[e].handle \in substreams[inode[opened_handles[e].handle]]
          /\ \A d \in Entries : opened_handles[d].handle = opened_handles[e].handle => d = e
      BY <2>1, <3>1 DEF IInv, TableSound, UsedEntries, TypeOK
    <3>3. \A d \in Entries : opened_handles'[d].handle = opened_handles[e].handle => d = e
      BY <3>1, <3>2, OpenFreeTable DEF IInv
    <3>4. \A q \in Pcms : substreams[q] \subseteq substreams'[q]
      BY DEF OpenFree, IInv, TypeOK
    <3> QED
      BY <2>1, <3>1, <3>2, <3>3, <3>4, <1>i
  <2>2. CASE IsFirst(e, FreeEntries) /\ opened_handles'[e].handle = h
    <3>1. h \in substreams'[p]
      BY DEF OpenFree, IInv, TypeOK
    <3>2. \A d \in Entries : opened_handles'[d].handle = h => d = e
      BY <2>2, <1>u, OpenFreeTable, OneFirst DEF IInv
    <3> QED
      BY <2>2, <3>1, <3>2, <1>i, <1>n
  <2> QED
    BY <2>1, <2>2, OpenFreeTable DEF IInv
<1>e. FreeEntryClean'
  <2> SUFFICES ASSUME NEW e \in Entries, opened_handles'[e].handle = None
               PROVE  ~opened_handles'[e].reuse
    BY DEF FreeEntryClean, FreeEntries
  <2>1. opened_handles'[e] = opened_handles[e]
    BY OpenFreeTable DEF IInv
  <2> QED
    BY <2>1 DEF IInv, FreeEntryClean, FreeEntries
<1>x. Exclusive'
  <2> SUFFICES ASSUME NEW g \in Files, NEW c \in clients'[g], NEW e \in Entries,
                      opened_handles'[e].handle # None,
                      c.live, opened_handles'[e].handle = c.handle
               PROVE  opened_handles'[e].reuse \/ opened_handles'[e].FileId = g
    BY DEF Exclusive, UsedEntries
  <2>1. c \in clients[g] => c.handle # h
    BY <1>n DEF IInv, LiveInUse
  <2>2. CASE opened_handles'[e] = opened_handles[e]
    BY <2>2, <2>1, <1>c, <1>u DEF IInv, Exclusive, UsedEntries
  <2>3. CASE opened_handles'[e].handle = h /\ opened_handles'[e].FileId = f
    BY <2>3, <2>1, <1>c
  <2> QED
    BY <2>2, <2>3, OpenFreeTable DEF IInv
<1> QED
  BY <1>t, <1>h, <1>l, <1>s, <1>e, <1>x DEF IInv

(* A busy open changes one flag and hands out a handle of the table.       *)
LEMMA OpenBusyIInv ==
  ASSUME IInv, NEW f \in Files, NEW p \in Pcms, OpenBusy(f, p)
  PROVE  IInv'
<1> USE HandlesAssumption
<1>1. PICK e \in UsedEntries :
         /\ opened_handles' = [opened_handles EXCEPT ![e].reuse = TRUE]
         /\ Give(f, opened_handles[e].handle, p)
  BY DEF OpenBusy
<1>2. inode' = inode /\ substreams' = substreams
  BY DEF OpenBusy
<1>3. e \in Entries /\ opened_handles[e].handle \in Handles
  BY DEF UsedEntries, IInv, TypeOK
<1>4. \A d \in Entries :
         /\ opened_handles'[d].handle = opened_handles[d].handle
         /\ opened_handles'[d].FileId = opened_handles[d].FileId
         /\ opened_handles'[d].reuse = (d = e \/ opened_handles[d].reuse)
  BY <1>1, <1>3 DEF IInv, TypeOK
<1>t. TypeOK'
  <2>1. opened_handles' \in [Entries -> [handle : Handles \cup {None},
                                         FileId : Files \cup {None}, reuse : BOOLEAN]]
    BY <1>1, <1>3 DEF IInv, TypeOK
  <2>2. clients' \in [Files -> SUBSET Streams]
    BY <1>1, <1>3, GiveClients DEF IInv
  <2> QED
    BY <2>1, <2>2, <1>2 DEF IInv, TypeOK
<1>c. \A g \in Files : \A c \in clients'[g] :
         c \in clients[g] \/ (g = f /\ c.handle = opened_handles[e].handle)
  BY <1>1, <1>3, GiveClients DEF IInv
<1>5. inode[opened_handles[e].handle] # None
  BY DEF IInv, TableSound
<1>l. LiveInUse'
  BY <1>2, <1>5, <1>c DEF IInv, LiveInUse
<1>u. UsedEntries' = UsedEntries /\ FreeEntries' = FreeEntries
  BY <1>4 DEF UsedEntries, FreeEntries
<1>s. TableSound'
  BY <1>2, <1>4, <1>u DEF IInv, TableSound, UsedEntries
<1>e. FreeEntryClean'
  BY <1>4, <1>u DEF IInv, FreeEntryClean, FreeEntries, UsedEntries
<1>x. Exclusive'
  <2> SUFFICES ASSUME NEW g \in Files, NEW c \in clients'[g], NEW d \in UsedEntries,
                      c.live, opened_handles'[d].handle = c.handle
               PROVE  opened_handles'[d].reuse \/ opened_handles'[d].FileId = g
    BY <1>u DEF Exclusive
  <2>1. d \in Entries /\ opened_handles[d].handle = c.handle
    BY <1>4 DEF UsedEntries
  <2>2. CASE c \in clients[g]
    BY <2>1, <2>2, <1>4 DEF IInv, Exclusive
  <2>3. CASE c.handle = opened_handles[e].handle
    <3>1. d = e
      BY <2>1, <2>3 DEF IInv, TableSound
    <3> QED
      BY <3>1, <1>3, <1>4
  <2> QED
    BY <2>2, <2>3, <1>c
<1> QED
  BY <1>t, <1>2, <1>l, <1>s, <1>e, <1>x DEF IInv, Held

(* A release removes the handles from everything that names them.          *)
LEMMA ReleaseIInv ==
  ASSUME IInv, NEW H, NEW cs \in [Files -> SUBSET Streams], Release(H, cs),
         \A f \in Files : cs[f] \subseteq clients[f]
  PROVE  IInv'
<1> USE HandlesAssumption
<1>1. \A e \in Entries :
         \/ /\ opened_handles[e].handle \in H /\ opened_handles'[e].handle = None
            /\ opened_handles'[e].reuse = FALSE
         \/ /\ opened_handles[e].handle \notin H
            /\ opened_handles'[e] = opened_handles[e]
  BY DEF Release, IInv, TypeOK
<1>2. \A h \in Handles : inode'[h] = IF h \in H THEN None ELSE inode[h]
  BY DEF Release
<1>3. \A p \in Pcms : substreams'[p] = substreams[p] \ H
  BY DEF Release
<1>4. \A f \in Files : clients'[f] =
         {[c EXCEPT !.live = @ /\ c.handle \notin H] : c \in cs[f]}
  BY DEF Release
<1>5. ASSUME NEW f \in Files, NEW c \in clients'[f]
      PROVE  /\ c \in Streams
             /\ \E b \in clients[f] : b.handle = c.handle /\ (c.live => b.live)
             /\ c.live => c.handle \notin H
  <2>1. PICK b \in cs[f] : c = [b EXCEPT !.live = @ /\ b.handle \notin H]
    BY <1>4, <1>5
  <2>2. b \in Streams /\ b \in clients[f]
    OBVIOUS
  <2>3. /\ c.handle = b.handle /\ c.pcm = b.pcm
        /\ c.live = (b.live /\ b.handle \notin H)
    BY <2>1, <2>2
  <2>4. c \in Streams
    BY <2>1, <2>2
  <2> QED
    BY <2>2, <2>3, <2>4
<1>t. TypeOK'
  <2>1. opened_handles' \in [Entries -> [handle : Handles \cup {None},
                                         FileId : Files \cup {None}, reuse : BOOLEAN]]
    <3> DEFINE T == [handle : Handles \cup {None}, FileId : Files \cup {None},
                     reuse : BOOLEAN]
    <3>1. \A e \in Entries : opened_handles[e] \in T
      BY DEF IInv, TypeOK
    <3>2. \A e \in Entries :
             [opened_handles[e] EXCEPT !.handle = None, !.reuse = FALSE] \in T
      BY <3>1
    <3> HIDE DEF T
    <3>3. opened_handles' \in [Entries -> T]
      BY <3>1, <3>2 DEF Release
    <3> QED
      BY <3>3 DEF T
  <2>2. inode' \in [Handles -> Pcms \cup {None}]
    BY DEF Release, IInv, TypeOK
  <2>3. substreams' \in [Pcms -> SUBSET Handles]
    BY DEF Release, IInv, TypeOK
  <2>4. clients' \in [Files -> SUBSET Streams]
    <3>1. \A f \in Files : clients'[f] \subseteq Streams
      BY <1>5
    <3> QED
      BY <3>1 DEF Release
  <2> QED
    BY <2>1, <2>2, <2>3, <2>4 DEF TypeOK
<1>h. Held'
  BY <1>2, <1>3 DEF IInv, Held, TypeOK
<1>l. LiveInUse'
  <2> SUFFICES ASSUME NEW f \in Files, NEW c \in clients'[f], c.live
               PROVE  inode'[c.handle] # None
    BY DEF LiveInUse
  <2>1. PICK b \in clients[f] : b.handle = c.handle /\ b.live
    BY <1>5
  <2>2. c.handle \in Handles /\ c.handle \notin H
    BY <1>5
  <2> QED
    BY <2>1, <2>2, <1>2 DEF IInv, LiveInUse
<1>s. TableSound'
  <2> SUFFICES ASSUME NEW e \in Entries, opened_handles'[e].handle # None
               PROVE  LET g == opened_handles'[e].handle
                      IN  /\ inode'[g] # None /\ g \in substreams'[inode'[g]]
                          /\ \A d \in Entries : opened_handles'[d].handle = g => d = e
    BY DEF TableSound, UsedEntries
  <2>1. opened_handles'[e] = opened_handles[e] /\ opened_handles[e].handle \notin H
    BY <1>1
  <2>2. opened_handles[e].handle \in Handles
    BY <2>1 DEF IInv, TypeOK
  <2>3. /\ inode[opened_handles[e].handle] \in Pcms
        /\ opened_handles[e].handle \in substreams[inode[opened_handles[e].handle]]
        /\ \A d \in Entries : opened_handles[d].handle = opened_handles[e].handle => d = e
    BY <2>1, <2>2 DEF IInv, TableSound, UsedEntries, TypeOK
  <2>4. \A d \in Entries : opened_handles'[d].handle = opened_handles[e].handle => d = e
    BY <2>2, <2>3, <1>1
  <2> QED
    BY <2>1, <2>2, <2>3, <2>4, <1>2, <1>3
<1>e. FreeEntryClean'
  BY <1>1 DEF IInv, FreeEntryClean, FreeEntries
<1>x. Exclusive'
  <2> SUFFICES ASSUME NEW f \in Files, NEW c \in clients'[f], NEW e \in Entries,
                      opened_handles'[e].handle # None,
                      c.live, opened_handles'[e].handle = c.handle
               PROVE  opened_handles'[e].reuse \/ opened_handles'[e].FileId = f
    BY DEF Exclusive, UsedEntries
  <2>1. PICK b \in clients[f] : b.handle = c.handle /\ b.live
    BY <1>5
  <2>2. opened_handles'[e] = opened_handles[e]
    BY <1>1
  <2> QED
    BY <2>1, <2>2 DEF IInv, Exclusive, UsedEntries
<1> QED
  BY <1>t, <1>h, <1>l, <1>s, <1>e, <1>x DEF IInv

(* Every open, close and end of a file keeps the invariant.                *)
LEMMA NextIInv == IInv /\ [Next]_vars => IInv'
<1> SUFFICES ASSUME IInv, [Next]_vars PROVE IInv'
  OBVIOUS
<1>c. clients \in [Files -> SUBSET Streams]
  BY DEF IInv, TypeOK
<1>1. ASSUME NEW f \in Files, NEW p \in Pcms, OSS32_WaveOpen(f, p) PROVE IInv'
  BY <1>1, OpenFreeIInv, OpenBusyIInv DEF OSS32_WaveOpen
<1>2. ASSUME NEW f \in Files, NEW c \in clients[f], OSS32_WaveClose(f, c) PROVE IInv'
  <2> DEFINE cs == [clients EXCEPT ![f] = @ \ {c}]
  <2>1. cs \in [Files -> SUBSET Streams] /\ \A g \in Files : cs[g] \subseteq clients[g]
    BY <1>c
  <2> HIDE DEF cs
  <2>2. \E H : Release(H, cs)
    BY <1>2 DEF OSS32_WaveClose, cs
  <2> QED
    BY <2>1, <2>2, ReleaseIInv
<1>3. ASSUME NEW f \in Files, NEW c \in clients[f], Forget(f, c) PROVE IInv'
  <2>1. /\ UNCHANGED <<opened_handles, inode, substreams>>
        /\ clients' \in [Files -> SUBSET Streams]
        /\ \A g \in Files : clients'[g] \subseteq clients[g]
    BY <1>3, <1>c DEF Forget
  <2> QED
    BY <2>1 DEF IInv, TypeOK, Held, LiveInUse, TableSound, FreeEntryClean, Exclusive,
                UsedEntries, FreeEntries
<1>4. ASSUME NEW f \in Files, StratClose(f) PROVE IInv'
  <2> DEFINE cs == [clients EXCEPT ![f] = {}]
  <2>1. cs \in [Files -> SUBSET Streams] /\ \A g \in Files : cs[g] \subseteq clients[g]
    BY <1>c
  <2> HIDE DEF cs
  <2>2. Release(HandlesOf(f), cs)
    BY <1>4 DEF StratClose, cs
  <2> QED
    BY <2>1, <2>2, ReleaseIInv
<1>5. CASE UniaudCloseAll
  <2>1. \E H : Release(H, clients)
    BY <1>5 DEF UniaudCloseAll
  <2> QED
    BY <2>1, <1>c, ReleaseIInv
<1>6. CASE UNCHANGED vars
  BY <1>6 DEF vars, IInv, TypeOK, Held, LiveInUse, TableSound, FreeEntryClean, Exclusive,
              UsedEntries, FreeEntries
<1> QED
  BY <1>1, <1>2, <1>3, <1>4, <1>5, <1>6 DEF Next

(* The inductive invariant holds in every behaviour of opens, closes, ends *)
(* of files and CLOSE_ALL.                                                 *)
THEOREM HandlesInvariant == Spec => []IInv
  BY InitIInv, NextIInv, PTL DEF Spec

(* The variables of the table keep their types.                            *)
THEOREM HandlesTypeOK == Spec => []TypeOK
<1>1. IInv => TypeOK
  BY DEF IInv
<1> QED
  BY <1>1, HandlesInvariant, PTL

(* opened_handles names memory in use, once, with its substream: WaveClose *)
(* and UniaudCloseAll never release or free a handle twice.                *)
THEOREM HandlesTableSound == Spec => []TableSound
<1>1. IInv => TableSound
  BY DEF IInv
<1> QED
  BY <1>1, HandlesInvariant, PTL

(* WaveOpen never stores a new stream under a reuse flag that an earlier   *)
(* one left behind.                                                        *)
THEOREM HandlesFreeEntryClean == Spec => []FreeEntryClean
<1>1. IInv => FreeEntryClean
  BY DEF IInv
<1> QED
  BY <1>1, HandlesInvariant, PTL

(* Only the reuse path of WaveOpen gives one stream to two files.          *)
THEOREM HandlesExclusive == Spec => []Exclusive
<1>1. IInv => Exclusive
  BY DEF IInv
<1> QED
  BY <1>1, HandlesInvariant, PTL

-----------------------------------------------------------------------------
(* No PCM has more streams than substreams.                                *)
Counted ==
    \A p \in Pcms : IsFiniteSet(substreams[p]) /\ Cardinality(substreams[p]) <= Substreams

(* A non-empty set of natural numbers has a least element.                 *)
LEMMA LeastNat ==
  ASSUME NEW T \in SUBSET Nat, T # {}
  PROVE  \E x \in T : \A y \in T : x <= y
<1> DEFINE R == OpToRel(<, Nat)
<1>1. IsWellFoundedOn(R, Nat)
  BY NatLessThanWellFounded
<1>2. \A x, y \in Nat : y < x => <<y, x>> \in R
  BY DEF OpToRel
<1> HIDE DEF R
<1>3. PICK x \in T : \A y \in T : ~ (<<y, x>> \in R)
  BY <1>1, WFMin
<1>4. ASSUME NEW y \in T PROVE x <= y
  <2>1. x \in Nat /\ y \in Nat /\ ~(<<y, x>> \in R)
    BY <1>3
  <2>2. ~(y < x)
    BY <2>1, <1>2
  <2> QED
    BY <2>1, <2>2
<1> QED
  BY <1>4

(* The streams of a PCM can be numbered.                                   *)
LEMMA Numbering ==
  ASSUME NEW S, IsFiniteSet(S)
  PROVE  /\ Cardinality(S) \in Nat
         /\ \E F : \A h \in S : \E i \in 1 .. Cardinality(S) : F[i] = h
<1>1. Cardinality(S) \in Nat /\ ExistsBijection(1 .. Cardinality(S), S)
  BY FS_CardinalityType
<1>2. PICK F : F \in Bijection(1 .. Cardinality(S), S)
  BY <1>1, Fun_ExistsBij
<1>3. F \in Surjection(1 .. Cardinality(S), S)
  BY <1>2, Fun_BijectionProperties
<1>4. \A h \in S : \E i \in 1 .. Cardinality(S) : F[i] = h
  BY <1>3 DEF Surjection
<1> QED
  BY <1>1, <1>4

(* While a PCM is not busy an entry of the table is free: the entries in   *)
(* use have different streams, and the streams of all PCMs fit the table.  *)
LEMMA FreeEntry ==
  ASSUME IInv, Counted, NEW p \in Pcms, ~Busy(p)
  PROVE  FreeEntries # {}
<1> USE HandlesAssumption
<1> SUFFICES ASSUME FreeEntries = {} PROVE FALSE
  OBVIOUS
<1> DEFINE H(e) == opened_handles[e].handle
           P(e) == inode[H(e)]
           n(q) == Cardinality(substreams[q])
           Good(F, q) == \A h \in substreams[q] : \E i \in 1 .. n(q) : F[i] = h
           G(q) == CHOOSE F : Good(F, q)
           I(e) == CHOOSE i \in 1 .. n(P(e)) : G(P(e))[i] = H(e)
           D == 1 .. Substreams
           T == (Pcms \X D) \ {<<p, Substreams>>}
           f == [e \in Entries |-> <<P(e), I(e)>>]
<1>1. ASSUME NEW e \in Entries
      PROVE  /\ H(e) # None /\ P(e) \in Pcms /\ H(e) \in substreams[P(e)]
             /\ \A d \in Entries : H(d) = H(e) => d = e
  <2>1. H(e) # None /\ H(e) \in Handles
    BY DEF FreeEntries, IInv, TypeOK
  <2>2. P(e) \in Pcms \cup {None}
    BY <2>1 DEF IInv, TypeOK
  <2> QED
    BY <2>1, <2>2 DEF IInv, TableSound, UsedEntries
<1>2. \A q \in Pcms : n(q) \in Nat /\ n(q) <= Substreams /\ n(q) \in Int
  BY Numbering DEF Counted
<1>3. n(p) < Substreams
  BY <1>2 DEF Busy
<1>4. ASSUME NEW q \in Pcms PROVE Good(G(q), q)
  <2>1. \E F : Good(F, q)
    BY Numbering DEF Counted
  <2> QED
    BY <2>1
<1>5. ASSUME NEW e \in Entries
      PROVE  I(e) \in 1 .. n(P(e)) /\ G(P(e))[I(e)] = H(e)
  <2>1. Good(G(P(e)), P(e))
    BY <1>1, <1>4
  <2>2. \E i \in 1 .. n(P(e)) : G(P(e))[i] = H(e)
    BY <2>1, <1>1
  <2> HIDE DEF G, H, P, n
  <2> QED
    BY <2>2
<1> HIDE DEF G, H, P, n, I
<1>6. f \in [Entries -> T]
  <2> SUFFICES ASSUME NEW e \in Entries PROVE <<P(e), I(e)>> \in T
    OBVIOUS
  <2>1. P(e) \in Pcms /\ I(e) \in 1 .. n(P(e)) /\ n(P(e)) \in Nat /\ n(P(e)) <= Substreams
    BY <1>1, <1>2, <1>5
  <2>2. I(e) \in D
    BY <2>1
  <2>3. P(e) = p => I(e) # Substreams
    BY <2>1, <1>3
  <2> QED
    BY <2>1, <2>2, <2>3
<1>7. IsFiniteSet(T) /\ Cardinality(T) = Cardinality(Pcms) * Substreams - 1
  <2>1. IsFiniteSet(D) /\ Cardinality(D) = Substreams
    BY FS_Interval
  <2> HIDE DEF D
  <2>2. /\ IsFiniteSet(Pcms \X D)
        /\ Cardinality(Pcms \X D) = Cardinality(Pcms) * Cardinality(D)
    BY <2>1, FS_Product
  <2>3. <<p, Substreams>> \in Pcms \X D
    BY DEF D
  <2> DEFINE X == Pcms \X D
             x == <<p, Substreams>>
  <2>4. IsFiniteSet(X) /\ x \in X /\ T = X \ {x}
    BY <2>2, <2>3
  <2> HIDE DEF X, x, T
  <2>5. IsFiniteSet(T) /\ Cardinality(T) = Cardinality(X) - 1
    BY <2>4, FS_RemoveElement
  <2> QED
    BY <2>1, <2>2, <2>5 DEF X
<1>8. IsFiniteSet(Entries) /\ Cardinality(Entries) = MaxHandles
  <2>1. 0 \in Int /\ MaxHandles - 1 \in Int
    OBVIOUS
  <2>2. /\ IsFiniteSet(0 .. MaxHandles - 1)
        /\ Cardinality(0 .. MaxHandles - 1) =
              IF 0 > MaxHandles - 1 THEN 0 ELSE MaxHandles - 1 - 0 + 1
    BY <2>1, FS_Interval
  <2> QED
    BY <2>2 DEF Entries
<1>9. Cardinality(T) < Cardinality(Entries)
  <2>1. Cardinality(Pcms) \in Nat
    BY FS_CardinalityType
  <2> DEFINE k == Cardinality(Pcms) * Substreams
  <2>2. k \in Nat /\ k <= MaxHandles
    BY <2>1
  <2>3. Cardinality(T) = k - 1
    BY <1>7
  <2> HIDE DEF k
  <2> QED
    BY <2>2, <2>3, <1>8
<1>10. \E d, e \in Entries : d # e /\ f[d] = f[e]
  <2> HIDE DEF f, T
  <2> QED
    BY <1>6, <1>7, <1>8, <1>9, FS_PigeonHole
<1>11. PICK d \in Entries, e \in Entries : d # e /\ P(d) = P(e) /\ I(d) = I(e)
  BY <1>10
<1>12. H(d) = H(e)
  BY <1>5, <1>11
<1> QED
  BY <1>1, <1>11, <1>12

(* An open of a PCM that is not busy puts its handle into the table.       *)
LEMMA OpenFreeNoLeak ==
  ASSUME IInv, NoLeak, Counted, NEW f \in Files, NEW p \in Pcms, NEW h \in Handles,
         OpenFree(f, p, h)
  PROVE  NoLeak' /\ Counted'
<1> USE HandlesAssumption
<1>1. ~Busy(p) /\ substreams' = [substreams EXCEPT ![p] = @ \cup {h}]
  BY DEF OpenFree
<1>2. PICK e \in Entries : IsFirst(e, FreeEntries)
  <2>1. FreeEntries # {} /\ FreeEntries \subseteq Entries /\ FreeEntries \in SUBSET Nat
    BY <1>1, FreeEntry DEF FreeEntries, Entries
  <2> QED
    BY <2>1, LeastNat DEF IsFirst
<1>3. opened_handles'[e].handle = h
  BY <1>2 DEF OpenFree, IInv, TypeOK
<1>4. \A d \in Entries : opened_handles[d].handle # None
                            => opened_handles'[d].handle = opened_handles[d].handle
  <2> SUFFICES ASSUME NEW d \in Entries, opened_handles[d].handle # None
               PROVE  opened_handles'[d] = opened_handles[d]
    OBVIOUS
  <2>1. ~IsFirst(d, FreeEntries)
    BY DEF IsFirst, FreeEntries
  <2> QED
    BY <2>1 DEF OpenFree
<1>5. \A q \in Pcms : substreams'[q] = IF q = p THEN substreams[p] \cup {h} ELSE substreams[q]
  BY <1>1 DEF IInv, TypeOK
<1>6. NoLeak'
  <2> SUFFICES ASSUME NEW q \in Pcms, NEW g \in substreams'[q]
               PROVE  \E d \in Entries : opened_handles'[d].handle = g
    BY DEF NoLeak
  <2>1. CASE g = h
    BY <2>1, <1>3
  <2>2. CASE g \in substreams[q]
    <3>1. PICK d \in Entries : opened_handles[d].handle = g
      BY <2>2 DEF NoLeak
    <3>2. g # None
      BY <2>2 DEF IInv, TypeOK
    <3> QED
      BY <3>1, <3>2, <1>4
  <2> QED
    BY <2>1, <2>2, <1>5
<1>7. Counted'
  <2>1. /\ IsFiniteSet(substreams[p]) /\ Cardinality(substreams[p]) \in Nat
        /\ Cardinality(substreams[p]) < Substreams
    BY <1>1, Numbering DEF Counted, Busy
  <2> DEFINE S == substreams[p]
  <2>2. IsFiniteSet(S) /\ Cardinality(S) \in Nat /\ Cardinality(S) < Substreams
    BY <2>1
  <2> HIDE DEF S
  <2>3. IsFiniteSet(S \cup {h})
    BY <2>2, FS_AddElement
  <2>4. Cardinality(S \cup {h}) = Cardinality(S) \/ Cardinality(S \cup {h}) = Cardinality(S) + 1
    BY <2>2, FS_AddElement
  <2>5. Cardinality(S \cup {h}) <= Substreams
    BY <2>2, <2>4
  <2>6. ASSUME NEW q \in Pcms
        PROVE  IsFiniteSet(substreams'[q]) /\ Cardinality(substreams'[q]) <= Substreams
    <3>1. CASE q = p
      BY <3>1, <2>3, <2>5, <1>5 DEF S
    <3>2. CASE q # p
      BY <3>2, <1>5 DEF Counted
    <3> QED
      BY <3>1, <3>2
  <2> QED
    BY <2>6 DEF Counted
<1> QED
  BY <1>6, <1>7

(* A release takes the handles out of the table and gives up their         *)
(* substreams.                                                             *)
LEMMA ReleaseNoLeak ==
  ASSUME IInv, NoLeak, Counted, NEW H, NEW cs, Release(H, cs)
  PROVE  NoLeak' /\ Counted'
<1>1. /\ \A p \in Pcms : substreams'[p] = substreams[p] \ H
      /\ \A e \in Entries : opened_handles[e].handle \notin H
                                => opened_handles'[e] = opened_handles[e]
  BY DEF Release
<1>2. NoLeak'
  BY <1>1 DEF NoLeak
<1>3. ASSUME NEW p \in Pcms
      PROVE  IsFiniteSet(substreams'[p]) /\ Cardinality(substreams'[p]) <= Substreams
  <2>1. IsFiniteSet(substreams[p]) /\ Cardinality(substreams[p]) <= Substreams
    BY DEF Counted
  <2>2. substreams'[p] \in SUBSET substreams[p]
    BY <1>1
  <2>3. /\ IsFiniteSet(substreams'[p])
        /\ Cardinality(substreams'[p]) <= Cardinality(substreams[p])
    BY <2>1, <2>2, FS_Subset
  <2>4. Cardinality(substreams[p]) \in Nat /\ Cardinality(substreams'[p]) \in Nat
    BY <2>1, <2>3, Numbering
  <2> QED
    BY <2>1, <2>3, <2>4, HandlesAssumption
<1> QED
  BY <1>2, <1>3 DEF Counted

(* A substream in use is in the table, so that the end of its file or a    *)
(* CLOSE_ALL finds it: WaveOpen never finds the table full.                *)
THEOREM HandlesNoLeak == Spec => []NoLeak
<1>1. Init => NoLeak /\ Counted
  BY FS_EmptySet, HandlesAssumption DEF Init, NoLeak, Counted
<1>2. IInv /\ NoLeak /\ Counted /\ [Next]_vars => (NoLeak /\ Counted)'
  <2> SUFFICES ASSUME IInv, NoLeak, Counted, [Next]_vars PROVE NoLeak' /\ Counted'
    OBVIOUS
  <2>1. ASSUME NEW f \in Files, NEW p \in Pcms, OpenBusy(f, p) PROVE NoLeak' /\ Counted'
    <3>1. UNCHANGED substreams
      BY <2>1 DEF OpenBusy
    <3>2. \A e \in Entries : opened_handles'[e].handle = opened_handles[e].handle
      BY <2>1 DEF OpenBusy, UsedEntries, IInv, TypeOK
    <3> QED
      BY <3>1, <3>2 DEF NoLeak, Counted
  <2>2. ASSUME NEW f \in Files, NEW p \in Pcms, OSS32_WaveOpen(f, p)
        PROVE  NoLeak' /\ Counted'
    BY <2>1, <2>2, OpenFreeNoLeak DEF OSS32_WaveOpen
  <2>3. ASSUME NEW H, NEW cs, Release(H, cs) PROVE NoLeak' /\ Counted'
    BY <2>3, ReleaseNoLeak
  <2>4. CASE \E f \in Files : \E c \in clients[f] : OSS32_WaveClose(f, c)
    BY <2>3, <2>4 DEF OSS32_WaveClose
  <2>5. CASE \E f \in Files : \E c \in clients[f] : Forget(f, c)
    BY <2>5 DEF Forget, NoLeak, Counted
  <2>6. CASE (\E f \in Files : StratClose(f)) \/ UniaudCloseAll
    BY <2>3, <2>6 DEF StratClose, UniaudCloseAll
  <2>7. CASE UNCHANGED vars
    BY <2>7 DEF vars, NoLeak, Counted
  <2> QED
    BY <2>2, <2>4, <2>5, <2>6, <2>7 DEF Next
<1> QED
  BY <1>1, <1>2, HandlesInvariant, PTL DEF Spec
=============================================================================
