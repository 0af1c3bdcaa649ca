------------------------ MODULE MidiHandles_proofs ------------------------
(***************************************************************************)
(* The MIDI streams are sound for any number of clients, addresses and     *)
(* files, as long as nobody has called OSS32_MidiRead.  The inductive      *)
(* invariant adds to the properties that a client without an id has no     *)
(* file and that no two clients have the same one: the close of one stream *)
(* then takes the device of no other.                                      *)
(***************************************************************************)
EXTENDS MidiHandles, TLAPS

(* A client has a file exactly when it has an id.                          *)
Paired == \A c \in Clients : id[c] = None <=> got[c] = None

(* The files of two clients are different.                                 *)
FilesApart ==
    read \/ \A c, d \in Clients : got[c] # None /\ got[c] = got[d] => c = d

(* The inductive invariant.                                                *)
IInv == DevicesReturn /\ Paired /\ FilesApart /\ OwnStream /\ HandlesReturn

(* No stream is open in the beginning.                                     *)
LEMMA InitIInv == Init => IInv
<1> SUFFICES ASSUME Init PROVE IInv
  OBVIOUS
<1>1. TypeOK
  BY DEF Init, TypeOK
<1>2. DevicesReturn
  BY <1>1, MidiAssumption DEF Init, DevicesReturn, Types
<1>3. Paired /\ FilesApart /\ OwnStream /\ HandlesReturn
  BY DEF Init, Paired, FilesApart, OwnStream, HandlesReturn
<1> QED
  BY <1>2, <1>3 DEF IInv

(* The types are kept by what writes the handle's memory and the file's.   *)
LEMMA CreateTypes ==
  ASSUME TypeOK, NEW a \in Addrs, NEW f \in Files, Create(a, f)
  PROVE  /\ magic' \in [Addrs -> BOOLEAN] /\ fileOf' \in [Addrs -> Files \cup {None}]
         /\ magic'[a] /\ fileOf'[a] = f
         /\ \A b \in Addrs \ {a} : magic'[b] = magic[b] /\ fileOf'[b] = fileOf[b]
         /\ \A b \in Addrs : magic'[b] => fileOf'[b] # None
  BY MidiAssumption DEF Create, TypeOK

(* A new stream: its address was free and its file closed, so neither is   *)
(* another client's.                                                       *)
LEMMA OpenSucceedsIInv ==
  ASSUME IInv, NEW c \in Clients, NEW type \in Types, NEW a \in Addrs, NEW f \in Files,
         OpenSucceeds(c, type, a, f)
  PROVE  IInv'
<1> USE MidiAssumption
<1>1. /\ TypeOK /\ Create(a, f)
      /\ owner[a] = "free" /\ opened[f] = None /\ id[c] = None /\ got[c] = None
      /\ a # None /\ f # None /\ type # None
  BY DEF IInv, DevicesReturn, OpenSucceeds, CanOpen, Create, Paired
<1>2. /\ owner' \in [Addrs -> {"free", "handle", "other"}]
      /\ owner'[a] = "handle" /\ \A b \in Addrs \ {a} : owner'[b] = owner[b]
      /\ opened' \in [Files -> Types \cup {None}]
      /\ opened'[f] = type /\ \A g \in Files \ {f} : opened'[g] = opened[g]
  BY <1>1 DEF OpenSucceeds, TypeOK
<1>3. /\ id' \in [Clients -> Addrs \cup {None}] /\ got' \in [Clients -> Files \cup {None}]
      /\ id'[c] = a /\ got'[c] = f
      /\ \A d \in Clients \ {c} : id'[d] = id[d] /\ got'[d] = got[d]
  BY <1>1 DEF OpenSucceeds, TypeOK
<1>4. /\ ports' \subseteq Files /\ subs' \subseteq Files
      /\ \A g \in subs' : g \in subs \/ (g = f /\ type = "fm")
  BY <1>1 DEF OpenSucceeds, TypeOK
<1>5. read' = read
  BY DEF OpenSucceeds
<1>6. TypeOK'
  BY <1>1, <1>2, <1>3, <1>4, <1>5, CreateTypes DEF TypeOK
<1>7. /\ \A b \in Addrs \ {a} : magic'[b] = magic[b] /\ fileOf'[b] = fileOf[b]
      /\ magic'[a] /\ fileOf'[a] = f
  BY <1>1, CreateTypes
<1>8. ASSUME ~read, NEW d \in Clients, d # c, id[d] # None
      PROVE  id[d] # a /\ got[d] # f /\ id[d] \in Addrs /\ got[d] \in Files
  BY <1>1, <1>8 DEF IInv, OwnStream, Paired, TypeOK
<1>9. DevicesReturn'
  <2>1. ASSUME ~read, NEW g \in Files, opened'[g] \in {"out", "in"}
        PROVE  \E d \in Clients : got'[d] = g
    <3>1. CASE g = f
      BY <3>1, <1>3
    <3>2. CASE g # f
      <4>1. PICK d \in Clients : got[d] = g
        BY <2>1, <3>2, <1>2 DEF IInv, DevicesReturn
      <4> QED
        BY <4>1, <1>1, <1>3
    <3> QED
      BY <3>1, <3>2
  <2>2. ASSUME ~read, NEW g \in subs'
        PROVE  opened'[g] = "fm" /\ \E d \in Clients : got'[d] = g
    <3>1. CASE g = f
      <4>1. f \notin subs
        BY <2>2, <1>1 DEF IInv, DevicesReturn, Types
      <4> QED
        BY <3>1, <4>1, <1>2, <1>3, <1>4
    <3>2. CASE g # f
      <4>1. g \in subs /\ g \in Files
        BY <2>2, <3>2, <1>4
      <4>2. PICK d \in Clients : opened[g] = "fm" /\ got[d] = g
        BY <2>2, <4>1 DEF IInv, DevicesReturn
      <4> QED
        BY <3>2, <4>1, <4>2, <1>1, <1>2, <1>3
    <3> QED
      BY <3>1, <3>2
  <2> QED
    BY <1>5, <1>6, <2>1, <2>2 DEF DevicesReturn
<1>10. Paired'
  BY <1>1, <1>3 DEF IInv, Paired
<1>11. FilesApart'
  BY <1>1, <1>3, <1>5, <1>8 DEF IInv, FilesApart, Paired
<1>12. OwnStream'
  <2> SUFFICES ASSUME ~read, NEW d \in Clients, id'[d] # None
               PROVE  /\ owner'[id'[d]] = "handle" /\ magic'[id'[d]]
                      /\ fileOf'[id'[d]] = got'[d] /\ opened'[got'[d]] # None
                      /\ \A e \in Clients : id'[e] = id'[d] => d = e
    BY <1>5 DEF OwnStream
  <2>1. CASE d = c
    BY <2>1, <1>1, <1>2, <1>3, <1>7, <1>8
  <2>2. CASE d # c
    <3>1. /\ owner[id[d]] = "handle" /\ magic[id[d]]
          /\ fileOf[id[d]] = got[d] /\ opened[got[d]] # None
          /\ \A e \in Clients : id[e] = id[d] => d = e
      BY <2>2, <1>3 DEF IInv, OwnStream
    <3> QED
      BY <2>2, <3>1, <1>2, <1>3, <1>7, <1>8
  <2> QED
    BY <2>1, <2>2
<1>13. HandlesReturn'
  BY <1>1, <1>2, <1>3, <1>5 DEF IInv, HandlesReturn
<1> QED
  BY <1>9, <1>10, <1>11, <1>12, <1>13 DEF IInv

(* No OPL3 client: only memory that nobody has is written.                 *)
LEMMA OpenFindsNoSynthIInv ==
  ASSUME IInv, NEW c \in Clients, NEW a \in Addrs, NEW f \in Files,
         OpenFindsNoSynth(c, a, f)
  PROVE  IInv'
<1>1. TypeOK /\ Create(a, f) /\ owner[a] = "free"
  BY DEF IInv, DevicesReturn, OpenFindsNoSynth, Create
<1>2. UNCHANGED <<owner, opened, ports, subs, id, got, read>>
  BY DEF OpenFindsNoSynth
<1>3. TypeOK'
  BY <1>1, <1>2, CreateTypes DEF TypeOK
<1>4. DevicesReturn' /\ Paired' /\ FilesApart' /\ HandlesReturn'
  BY <1>2, <1>3 DEF IInv, DevicesReturn, Paired, FilesApart, HandlesReturn
<1>5. OwnStream'
  BY <1>1, <1>2, CreateTypes DEF IInv, OwnStream, TypeOK
<1> QED
  BY <1>4, <1>5 DEF IInv

(* A later step fails: the file stays open, but it is an FM file and has   *)
(* no subscription.                                                        *)
LEMMA OpenRefusedIInv ==
  ASSUME IInv, NEW c \in Clients, NEW a \in Addrs, NEW f \in Files,
         OpenRefused(c, a, f)
  PROVE  IInv'
<1>1. TypeOK /\ Create(a, f) /\ owner[a] = "free" /\ opened[f] = None
  BY DEF IInv, DevicesReturn, OpenRefused, CanOpen, Create
<1>2. UNCHANGED <<owner, subs, id, got, read>>
  BY DEF OpenRefused
<1>3. /\ opened' \in [Files -> Types \cup {None}] /\ ports' \subseteq Files
      /\ opened'[f] = "fm" /\ \A g \in Files \ {f} : opened'[g] = opened[g]
  BY <1>1 DEF OpenRefused, TypeOK, Types
<1>4. TypeOK'
  BY <1>1, <1>2, <1>3, CreateTypes DEF TypeOK
<1>5. DevicesReturn'
  <2>1. ASSUME ~read, NEW g \in Files, opened'[g] \in {"out", "in"}
        PROVE  \E d \in Clients : got[d] = g
    BY <2>1, <1>3 DEF IInv, DevicesReturn
  <2>2. ASSUME ~read, NEW g \in subs
        PROVE  opened'[g] = "fm" /\ \E d \in Clients : got[d] = g
    BY <2>2, <1>1, <1>3 DEF IInv, DevicesReturn, TypeOK
  <2> QED
    BY <1>2, <1>4, <2>1, <2>2 DEF DevicesReturn
<1>6. Paired' /\ FilesApart' /\ HandlesReturn'
  BY <1>2 DEF IInv, Paired, FilesApart, HandlesReturn
<1>7. OwnStream'
  <2> SUFFICES ASSUME ~read, NEW d \in Clients, id[d] # None
               PROVE  /\ owner[id[d]] = "handle" /\ magic'[id[d]]
                      /\ fileOf'[id[d]] = got[d] /\ opened'[got[d]] # None
                      /\ \A e \in Clients : id[e] = id[d] => d = e
    BY <1>2 DEF OwnStream
  <2>1. /\ owner[id[d]] = "handle" /\ magic[id[d]]
        /\ fileOf[id[d]] = got[d] /\ opened[got[d]] # None
        /\ \A e \in Clients : id[e] = id[d] => d = e
    BY DEF IInv, OwnStream
  <2>2. id[d] \in Addrs \ {a} /\ got[d] \in Files \ {f}
    BY <2>1, <1>1 DEF IInv, Paired, TypeOK
  <2>3. magic'[id[d]] /\ fileOf'[id[d]] = got[d]
    BY <2>1, <2>2, <1>1, CreateTypes
  <2> QED
    BY <2>1, <2>2, <2>3, <1>3
<1> QED
  BY <1>5, <1>6, <1>7 DEF IInv

(* A close takes back the client's own file and its own memory.            *)
LEMMA CloseIInv ==
  ASSUME IInv, NEW c \in Clients, OSS32_MidiClose(c)
  PROVE  IInv'
<1> USE MidiAssumption
<1> DEFINE f == fileOf[id[c]]
<1>1. /\ TypeOK /\ id[c] \in Addrs /\ magic[id[c]] /\ f \in Files
  BY DEF IInv, DevicesReturn, OSS32_MidiClose, Valid, TypeOK
<1> HIDE DEF f
<1>2. /\ owner' \in [Addrs -> {"free", "handle", "other"}]
      /\ owner'[id[c]] = "free" /\ \A b \in Addrs \ {id[c]} : owner'[b] = owner[b]
  BY <1>1 DEF OSS32_MidiClose, Kfree, TypeOK
<1>3. /\ opened' \in [Files -> Types \cup {None}]
      /\ opened'[f] = None /\ \A g \in Files \ {f} : opened'[g] = opened[g]
      /\ ports' = ports \ {f} /\ subs' = subs \ {f}
  BY <1>1 DEF OSS32_MidiClose, Release, TypeOK, f
<1>4. /\ id' \in [Clients -> Addrs \cup {None}] /\ got' \in [Clients -> Files \cup {None}]
      /\ id'[c] = None /\ got'[c] = None
      /\ \A d \in Clients \ {c} : id'[d] = id[d] /\ got'[d] = got[d]
  BY <1>1 DEF OSS32_MidiClose, TypeOK
<1>5. UNCHANGED <<magic, fileOf, read>>
  BY DEF OSS32_MidiClose
<1>6. TypeOK'
  BY <1>1, <1>2, <1>3, <1>4, <1>5 DEF TypeOK
<1>7. ~read => got[c] = f /\ \A d \in Clients : got[d] = f => d = c
  BY <1>1 DEF IInv, OwnStream, FilesApart, f
<1>8. DevicesReturn'
  <2>1. ASSUME ~read, NEW g \in Files, opened'[g] \in {"out", "in"}
        PROVE  \E d \in Clients : got'[d] = g
    <3>1. g # f /\ opened'[g] = opened[g]
      BY <2>1, <1>3 DEF Types
    <3>2. PICK d \in Clients : got[d] = g
      BY <2>1, <3>1 DEF IInv, DevicesReturn
    <3> QED
      BY <2>1, <3>1, <3>2, <1>4, <1>7
  <2>2. ASSUME ~read, NEW g \in subs'
        PROVE  opened'[g] = "fm" /\ \E d \in Clients : got'[d] = g
    <3>1. g # f /\ g \in subs /\ opened'[g] = opened[g]
      BY <2>2, <1>1, <1>3 DEF TypeOK
    <3>2. PICK d \in Clients : opened[g] = "fm" /\ got[d] = g
      BY <2>2, <3>1 DEF IInv, DevicesReturn
    <3> QED
      BY <2>2, <3>1, <3>2, <1>4, <1>7
  <2> QED
    BY <1>5, <1>6, <2>1, <2>2 DEF DevicesReturn
<1>9. Paired' /\ FilesApart'
  BY <1>4, <1>5 DEF IInv, Paired, FilesApart
<1>10. OwnStream'
  <2> SUFFICES ASSUME ~read, NEW d \in Clients, id'[d] # None
               PROVE  /\ owner'[id'[d]] = "handle" /\ magic'[id'[d]]
                      /\ fileOf'[id'[d]] = got'[d] /\ opened'[got'[d]] # None
                      /\ \A e \in Clients : id'[e] = id'[d] => d = e
    BY <1>5 DEF OwnStream
  <2>1. d # c /\ id'[d] = id[d] /\ got'[d] = got[d]
    BY <1>4
  <2>2. /\ owner[id[d]] = "handle" /\ magic[id[d]]
        /\ fileOf[id[d]] = got[d] /\ opened[got[d]] # None
        /\ \A e \in Clients : id[e] = id[d] => d = e
    BY <2>1 DEF IInv, OwnStream
  <2>3. id[d] \in Addrs \ {id[c]} /\ got[d] \in Files \ {f}
    BY <2>1, <2>2, <1>1, <1>7 DEF IInv, Paired, TypeOK
  <2> QED
    BY <2>1, <2>2, <2>3, <1>2, <1>3, <1>4, <1>5
<1>11. HandlesReturn'
  <2> SUFFICES ASSUME ~read, NEW b \in Addrs, owner'[b] = "handle"
               PROVE  \E d \in Clients : id'[d] = b
    BY <1>5 DEF HandlesReturn
  <2>1. b # id[c] /\ owner[b] = "handle"
    BY <1>2
  <2>2. PICK d \in Clients : id[d] = b
    BY <2>1 DEF IInv, HandlesReturn
  <2> QED
    BY <2>1, <2>2, <1>4
<1> QED
  BY <1>8, <1>9, <1>10, <1>11 DEF IInv

(* Once somebody has read, only the types are left to keep.                *)
LEMMA ReadIInv ==
  ASSUME IInv, NEW c \in Clients, OSS32_MidiRead(c)
  PROVE  IInv'
<1>1. TypeOK /\ read' /\ Kfree(id[c]) /\ id[c] # None
  BY DEF IInv, DevicesReturn, OSS32_MidiRead, Valid
<1>2. UNCHANGED <<magic, fileOf, opened, ports, subs, id, got>>
  BY DEF OSS32_MidiRead, alsa
<1>3. TypeOK'
  BY <1>1, <1>2 DEF TypeOK, Kfree, OSS32_MidiRead
<1> QED
  BY <1>1, <1>2, <1>3
  DEF IInv, DevicesReturn, Paired, FilesApart, OwnStream, HandlesReturn

(* A refused call: the id names no live handle, so somebody has read.      *)
LEMMA RefusedIInv ==
  ASSUME IInv, NEW c \in Clients, Refused(c)
  PROVE  IInv'
<1>1. TypeOK /\ read
  BY DEF IInv, DevicesReturn, Refused, OwnStream
<1>2. /\ id' \in [Clients -> Addrs \cup {None}] /\ got' \in [Clients -> Files \cup {None}]
      /\ id'[c] = None /\ got'[c] = None
      /\ \A d \in Clients \ {c} : id'[d] = id[d] /\ got'[d] = got[d]
  BY <1>1 DEF Refused, TypeOK
<1>3. UNCHANGED <<owner, magic, fileOf, opened, ports, subs, read>>
  BY DEF Refused, heap, alsa
<1>4. TypeOK'
  BY <1>1, <1>2, <1>3 DEF TypeOK
<1>5. Paired'
  BY <1>2 DEF IInv, Paired
<1> QED
  BY <1>1, <1>3, <1>4, <1>5 DEF IInv, DevicesReturn, FilesApart, OwnStream, HandlesReturn

(* The rest of the driver uses memory that is no handle.                   *)
LEMMA OthersIInv ==
  ASSUME IInv, NEW a \in Addrs, OthersTake(a) \/ OthersFree(a)
  PROVE  IInv'
<1>1. TypeOK /\ owner[a] # "handle"
  BY DEF IInv, DevicesReturn, OthersTake, OthersFree
<1>2. UNCHANGED <<fileOf, opened, ports, subs, id, got, read>>
  BY DEF OthersTake, OthersFree, alsa
<1>3. /\ owner' \in [Addrs -> {"free", "handle", "other"}]
      /\ owner'[a] # "handle" /\ \A b \in Addrs \ {a} : owner'[b] = owner[b]
      /\ magic' \in [Addrs -> BOOLEAN]
      /\ \A b \in Addrs \ {a} : magic'[b] = magic[b]
      /\ magic'[a] => magic[a]
  <2>1. CASE OthersTake(a)
    BY <2>1, <1>1 DEF OthersTake, TypeOK
  <2>2. CASE OthersFree(a)
    BY <2>2, <1>1 DEF OthersFree, Kfree, TypeOK
  <2> QED
    BY <2>1, <2>2
<1>4. TypeOK'
  BY <1>1, <1>2, <1>3 DEF TypeOK
<1>5. DevicesReturn' /\ Paired' /\ FilesApart'
  BY <1>2, <1>4 DEF IInv, DevicesReturn, Paired, FilesApart
<1>6. OwnStream'
  BY <1>1, <1>2, <1>3 DEF IInv, OwnStream, TypeOK
<1>7. HandlesReturn'
  BY <1>2, <1>3 DEF IInv, HandlesReturn
<1> QED
  BY <1>5, <1>6, <1>7 DEF IInv

(* The invariant holds in every reachable state.                           *)
LEMMA SpecIInv == Spec => []IInv
<1>1. Init => IInv
  BY InitIInv
<1>2. IInv /\ [Next]_vars => IInv'
  <2> SUFFICES ASSUME IInv, [Next]_vars PROVE IInv'
    OBVIOUS
  <2>1. ASSUME NEW c \in Clients, OSS32_MidiOpen(c) PROVE IInv'
    BY <2>1, OpenSucceedsIInv, OpenFindsNoSynthIInv, OpenRefusedIInv DEF OSS32_MidiOpen
  <2>2. ASSUME NEW c \in Clients, OSS32_MidiClose(c) PROVE IInv'
    BY <2>2, CloseIInv
  <2>3. ASSUME NEW c \in Clients, OSS32_MidiRead(c) PROVE IInv'
    BY <2>3, ReadIInv
  <2>4. ASSUME NEW c \in Clients, Refused(c) PROVE IInv'
    BY <2>4, RefusedIInv
  <2>5. ASSUME NEW a \in Addrs, OthersTake(a) \/ OthersFree(a) PROVE IInv'
    BY <2>5, OthersIInv
  <2>6. CASE UNCHANGED vars
    BY <2>6 DEF vars, IInv, DevicesReturn, TypeOK, Paired, FilesApart, OwnStream,
                HandlesReturn
  <2> QED
    BY <2>1, <2>2, <2>3, <2>4, <2>5, <2>6 DEF Next
<1> QED
  BY <1>1, <1>2, PTL DEF Spec

(* Until somebody reads, an id of OSS32_MidiOpen names a live handle of    *)
(* its client alone, with the file that was opened for that client.        *)
THEOREM MidiOwnStream == Spec => []OwnStream
<1>1. IInv => OwnStream
  BY DEF IInv
<1> QED
  BY <1>1, SpecIInv, PTL

(* Until somebody reads, a busy MPU401 port and a subscription to the FM   *)
(* synth are those of a client's open stream; and the types hold.          *)
THEOREM MidiDevicesReturn == Spec => []DevicesReturn
<1>1. IInv => DevicesReturn
  BY DEF IInv
<1> QED
  BY <1>1, SpecIInv, PTL

(* Until somebody reads, a block that is marked as a handle is the stream  *)
(* of some client.                                                         *)
THEOREM MidiHandlesReturn == Spec => []HandlesReturn
<1>1. IInv => HandlesReturn
  BY DEF IInv
<1> QED
  BY <1>1, SpecIInv, PTL
=============================================================================
