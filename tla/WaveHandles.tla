---------------------------- MODULE WaveHandles ----------------------------
(***************************************************************************)
(* The wave handles of lib32: OSS32_WaveOpen and OSS32_WaveClose with the  *)
(* table opened_handles, and UniaudCloseAll, which ends the streams of a   *)
(* file that its client closed or lost.  The calls run to their end one    *)
(* after the other; what is hard is their order: several clients, a client *)
(* that never closes, a PCM that is busy, and the reuse of the addresses   *)
(* of freed handles.                                                       *)
(***************************************************************************)
EXTENDS Integers, FiniteSets

CONSTANTS
    Files,        \* the clients' system file numbers
    Pcms,         \* PCM devices, a direction of one of them each
    Substreams,   \* substreams of a PCM
    Handles,      \* the addresses kmalloc returns for a soundhandle
    MaxHandles,   \* entries of opened_handles, 8*256 in the code
    None          \* NULL

(* opened_handles has an entry for every minor of eight cards.             *)
ASSUME HandlesAssumption ==
    /\ IsFiniteSet(Pcms) /\ Substreams \in Nat \ {0} /\ MaxHandles \in Nat
    /\ Cardinality(Pcms) * Substreams <= MaxHandles
    /\ None \notin Handles \cup Pcms

VARIABLES
    opened_handles,   \* the table: handle, FileId, reuse
    inode,            \* the PCM a handle was opened for, None for free memory
    substreams,       \* the handles that hold a substream of a PCM
    clients           \* what each client was given and has not closed

vars == <<opened_handles, inode, substreams, clients>>

Entries == 0 .. MaxHandles - 1
EmptyEntry == [handle |-> None, FileId |-> None, reuse |-> FALSE]

(* A stream a client believes it has: the handle, the PCM it asked for,    *)
(* and whether the handle was not freed since.                             *)
Streams == [handle : Handles, pcm : Pcms, live : BOOLEAN]

Init ==
    /\ opened_handles = [e \in Entries |-> EmptyEntry]
    /\ inode = [h \in Handles |-> None]
    /\ substreams = [p \in Pcms |-> {}]
    /\ clients = [f \in Files |-> {}]

IsFirst(e, S) == e \in S /\ \A d \in S : e <= d

FreeEntries == {e \in Entries : opened_handles[e].handle = None}
UsedEntries == {e \in Entries : opened_handles[e].handle # None}

Busy(p) == Cardinality(substreams[p]) >= Substreams

Give(f, h, p) ==
    clients' = [clients EXCEPT ![f] = @ \cup {[handle |-> h, pcm |-> p, live |-> TRUE]}]

-----------------------------------------------------------------------------
(* The PCM has a free substream: the new handle goes into the first free   *)
(* entry, whose reuse flag is left as it is.                               *)
OpenFree(f, p, h) ==
    /\ ~Busy(p) /\ inode[h] = None
    /\ inode' = [inode EXCEPT ![h] = p]
    /\ substreams' = [substreams EXCEPT ![p] = @ \cup {h}]
    /\ opened_handles' =
          [e \in Entries |->
              IF IsFirst(e, FreeEntries)
                THEN [opened_handles[e] EXCEPT !.handle = h, !.FileId = f]
                ELSE opened_handles[e]]
    /\ Give(f, h, p)

OpenBusy_Unflagged(f, p) ==
    /\ Busy(p)
    /\ \E e \in UsedEntries :
          /\ IsFirst(e, UsedEntries)
          /\ Give(f, opened_handles[e].handle, p)
    /\ UNCHANGED <<opened_handles, inode, substreams>>

(* The PCM is busy: the first handle of the table, whatever its PCM, is    *)
(* marked, reset by a close that does not release it, and returned.  Its   *)
(* FileId stays.                                                           *)
OpenBusy(f, p) ==
    /\ Busy(p)
    /\ \E e \in UsedEntries :
          /\ IsFirst(e, UsedEntries)
          /\ opened_handles' = [opened_handles EXCEPT ![e].reuse = TRUE]
          /\ Give(f, opened_handles[e].handle, p)
    /\ UNCHANGED <<inode, substreams>>

OSS32_WaveOpen(f, p) == OpenBusy(f, p) \/ \E h \in Handles : OpenFree(f, p, h)

-----------------------------------------------------------------------------
(* The release of the handles H of entries that are not to be reused: the  *)
(* substream and the memory are free, and whoever else has the handle has  *)
(* a stale one.                                                            *)
Release_KeepsReuse(H, cs) ==
    /\ opened_handles' =
          [e \in Entries |->
              IF opened_handles[e].handle \in H
                THEN [opened_handles[e] EXCEPT !.handle = None]
                ELSE opened_handles[e]]
    /\ inode' = [h \in Handles |-> IF h \in H THEN None ELSE inode[h]]
    /\ substreams' = [p \in Pcms |-> substreams[p] \ H]
    /\ clients' = [f \in Files |->
          {[c EXCEPT !.live = @ /\ c.handle \notin H] : c \in cs[f]}]

Release_KeepsEntry(H, cs) ==
    /\ inode' = [h \in Handles |-> IF h \in H THEN None ELSE inode[h]]
    /\ substreams' = [p \in Pcms |-> substreams[p] \ H]
    /\ clients' = [f \in Files |->
          {[c EXCEPT !.live = @ /\ c.handle \notin H] : c \in cs[f]}]
    /\ UNCHANGED opened_handles

Release_KeepsSubstream(H, cs) ==
    /\ opened_handles' =
          [e \in Entries |->
              IF opened_handles[e].handle \in H
                THEN [opened_handles[e] EXCEPT !.handle = None, !.reuse = FALSE]
                ELSE opened_handles[e]]
    /\ inode' = [h \in Handles |-> IF h \in H THEN None ELSE inode[h]]
    /\ clients' = [f \in Files |->
          {[c EXCEPT !.live = @ /\ c.handle \notin H] : c \in cs[f]}]
    /\ UNCHANGED substreams

Release(H, cs) ==
    /\ opened_handles' =
          [e \in Entries |->
              IF opened_handles[e].handle \in H
                THEN [opened_handles[e] EXCEPT !.handle = None, !.reuse = FALSE]
                ELSE opened_handles[e]]
    /\ inode' = [h \in Handles |-> IF h \in H THEN None ELSE inode[h]]
    /\ substreams' = [p \in Pcms |-> substreams[p] \ H]
    /\ clients' = [f \in Files |->
          {[c EXCEPT !.live = @ /\ c.handle \notin H] : c \in cs[f]}]

(* A handle that is not in the table was closed before and is left alone;  *)
(* one with the reuse flag is reset and stays open.                        *)
OSS32_WaveClose(f, c) ==
    /\ c \in clients[f]
    /\ Release({h \in {c.handle} : \E e \in Entries :
                    opened_handles[e].handle = h /\ ~opened_handles[e].reuse},
               [clients EXCEPT ![f] = @ \ {c}])

(* "stupid uniaud16.sys doesnt closes it"                                  *)
Forget(f, c) ==
    /\ c \in clients[f]
    /\ clients' = [clients EXCEPT ![f] = @ \ {c}]
    /\ UNCHANGED <<opened_handles, inode, substreams>>

HandlesOf(f) == {opened_handles[e].handle : e \in {d \in UsedEntries :
                                                opened_handles[d].FileId = f}}

(* The last close of a file, when its client ends too.                     *)
StratClose(f) == Release(HandlesOf(f), [clients EXCEPT ![f] = {}])

(* IOCTL_OSS32_PCM_CLOSE_ALL: UniaudCloseAll(0).                           *)
UniaudCloseAll == Release({opened_handles[e].handle : e \in UsedEntries}, clients)

Next ==
    \/ \E f \in Files : \E p \in Pcms : OSS32_WaveOpen(f, p)
    \/ \E f \in Files : \E c \in clients[f] : OSS32_WaveClose(f, c) \/ Forget(f, c)
    \/ \E f \in Files : StratClose(f)
    \/ UniaudCloseAll

Spec == Init /\ [][Next]_vars

-----------------------------------------------------------------------------
(* The type invariant.                                                     *)
TypeOK ==
    /\ opened_handles \in [Entries -> [handle : Handles \cup {None},
                                       FileId : Files \cup {None},
                                       reuse : BOOLEAN]]
    /\ inode \in [Handles -> Pcms \cup {None}]
    /\ substreams \in [Pcms -> SUBSET Handles]
    /\ clients \in [Files -> SUBSET Streams]

(* A handle of the table is memory in use, is there once, and holds a      *)
(* substream of its PCM, however opens, closes by several clients and the  *)
(* ends of files follow each other: no release is done twice.              *)
TableSound ==
    \A e \in UsedEntries :
        LET h == opened_handles[e].handle
        IN  /\ inode[h] # None /\ h \in substreams[inode[h]]
            /\ \A d \in UsedEntries : opened_handles[d].handle = h => d = e

(* A free entry does not have the reuse flag: WaveOpen does not clear it,  *)
(* and the next stream of the entry would never be released by its close.  *)
FreeEntryClean == \A e \in FreeEntries : ~opened_handles[e].reuse

(* A substream in use is in the table, where the end of its file or a      *)
(* CLOSE_ALL finds it: none is lost until the next boot.                   *)
NoLeak ==
    \A p \in Pcms : \A h \in substreams[p] :
        \E e \in Entries : opened_handles[e].handle = h

(* Two clients have one stream only when the reuse flag says so: a stream  *)
(* without the flag is that of the file that opened it, and ends with it.  *)
Exclusive ==
    \A f \in Files : \A c \in clients[f] : \A e \in UsedEntries :
        c.live /\ opened_handles[e].handle = c.handle =>
            opened_handles[e].reuse \/ opened_handles[e].FileId = f
=============================================================================
