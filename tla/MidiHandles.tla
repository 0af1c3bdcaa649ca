---------------------------- MODULE MidiHandles ----------------------------
(***************************************************************************)
(* MIDI streams of lib32/soundmidi.c: the handle, the ALSA file inside it, *)
(* and for FM the sequencer port and its subscription.                     *)
(*                                                                         *)
(* A stream id is the address of the handle, and a handle is recognised by *)
(* its magic number, so what matters is who owns the memory at an address: *)
(* nobody (the old contents stay), a handle, or another user of the heap   *)
(* (which overwrites the magic number).  A client uses the ids of opens    *)
(* that succeeded.                                                         *)
(***************************************************************************)
EXTENDS Naturals, FiniteSets

CONSTANTS
    Clients,        \* callers of the IDC interface
    Addrs,          \* addresses the heap can give to a handle
    Files,          \* ALSA files
    None

Types == {"out", "in", "fm"}    \* MPU401 out, MPU401 in, FM out

ASSUME MidiAssumption == None \notin Addrs \cup Files \cup Types

VARIABLES
    owner,      \* owner[a]: "free", "handle" or "other"
    magic,      \* magic[a]: the magic number is there
    fileOf,     \* fileOf[a]: the file structure at a
    opened,     \* opened[f]: the type of an open ALSA file, or None
    ports,      \* the files that have a port
    subs,       \* the files whose port is subscribed to the FM synth
    id,         \* id[c]: the stream id a client holds, or None
    got,        \* history: the file that was opened for the client
    read        \* history: somebody has called OSS32_MidiRead

vars == <<owner, magic, fileOf, opened, ports, subs, id, got, read>>

heap == <<owner, magic, fileOf>>
alsa == <<opened, ports, subs>>

-----------------------------------------------------------------------------
Init ==
    /\ owner = [a \in Addrs |-> "free"]
    /\ magic = [a \in Addrs |-> FALSE]
    /\ fileOf = [a \in Addrs |-> None]
    /\ opened = [f \in Files |-> None] /\ ports = {} /\ subs = {}
    /\ id = [c \in Clients |-> None] /\ got = [c \in Clients |-> None]
    /\ read = FALSE

\* The rawmidi device has one substream in each direction; the sequencer
\* takes a client per file.
CanOpen(f, type) ==
    /\ opened[f] = None
    /\ type # "fm" => \A g \in Files : opened[g] # type

\* The handle's memory after kmalloc, memset and the open of the file.
Create(a, f) ==
    /\ owner[a] = "free"
    /\ magic' = [magic EXCEPT ![a] = TRUE]
    /\ fileOf' = [fileOf EXCEPT ![a] = f]

\* Slip: the handle is freed as on the paths of the errors.
OpenSucceeds_Freed(c, type, a, f) ==
    /\ id[c] = None
    /\ CanOpen(f, type)
    /\ Create(a, f)
    /\ opened' = [opened EXCEPT ![f] = type]
    /\ ports' = IF type = "fm" THEN ports \cup {f} ELSE ports
    /\ subs' = IF type = "fm" THEN subs \cup {f} ELSE subs
    /\ id' = [id EXCEPT ![c] = a] /\ got' = [got EXCEPT ![c] = f]
    /\ UNCHANGED <<owner, read>>

\* The stream is open: for FM the port is created and subscribed.
OpenSucceeds(c, type, a, f) ==
    /\ id[c] = None
    /\ CanOpen(f, type)
    /\ Create(a, f)
    /\ owner' = [owner EXCEPT ![a] = "handle"]
    /\ opened' = [opened EXCEPT ![f] = type]
    /\ ports' = IF type = "fm" THEN ports \cup {f} ELSE ports
    /\ subs' = IF type = "fm" THEN subs \cup {f} ELSE subs
    /\ id' = [id EXCEPT ![c] = a] /\ got' = [got EXCEPT ![c] = f]
    /\ UNCHANGED read

\* No OPL3 client: the file is released and the handle freed.
OpenFindsNoSynth(c, a, f) ==
    /\ id[c] = None
    /\ CanOpen(f, "fm")
    /\ Create(a, f)
    /\ UNCHANGED <<owner, opened, ports, subs, id, got, read>>

\* Slip: a later step fails in the same way, after the subscription.
OpenRefused_Late(c, a, f) ==
    /\ id[c] = None
    /\ CanOpen(f, "fm")
    /\ Create(a, f)
    /\ opened' = [opened EXCEPT ![f] = "fm"]
    /\ ports' = ports \cup {f} /\ subs' = subs \cup {f}
    /\ UNCHANGED <<owner, id, got, read>>

\* The client id, the port or the subscription is refused: the handle is
\* freed, the file stays open, and the port if there is one.
OpenRefused(c, a, f) ==
    /\ id[c] = None
    /\ CanOpen(f, "fm")
    /\ Create(a, f)
    /\ opened' = [opened EXCEPT ![f] = "fm"]
    /\ ports' \in {ports, ports \cup {f}}
    /\ UNCHANGED <<owner, subs, id, got, read>>

OSS32_MidiOpen(c) ==
    \E a \in Addrs, f \in Files :
        \/ \E type \in Types : OpenSucceeds(c, type, a, f)
        \/ OpenFindsNoSynth(c, a, f)
        \/ OpenRefused(c, a, f)

-----------------------------------------------------------------------------
\* kfree leaves the contents as they are.
Kfree(a) == owner' = [owner EXCEPT ![a] = "free"]

\* The test at the beginning of every call.
Valid(c) == id[c] # None /\ magic[id[c]]

\* A call with an id whose memory holds something else is refused; a client
\* whose close is refused gives up the id.
Refused(c) ==
    /\ id[c] # None /\ ~magic[id[c]]
    /\ id' = [id EXCEPT ![c] = None] /\ got' = [got EXCEPT ![c] = None]
    /\ UNCHANGED <<heap, alsa, read>>

\* The release of a file by the ALSA core; the sequencer removes the ports
\* of its client and their subscriptions.
Release(f) ==
    /\ opened' = [opened EXCEPT ![f] = None]
    /\ ports' = ports \ {f} /\ subs' = subs \ {f}

\* Slip: the handle is not freed.
OSS32_MidiClose_NoFree(c) ==
    /\ Valid(c)
    /\ Release(fileOf[id[c]])
    /\ id' = [id EXCEPT ![c] = None] /\ got' = [got EXCEPT ![c] = None]
    /\ UNCHANGED <<heap, read>>

\* A subscribed handle gives up subscription and port first, which its release
\* does as well; the handle is freed.
OSS32_MidiClose(c) ==
    /\ Valid(c)
    /\ Release(fileOf[id[c]])
    /\ Kfree(id[c])
    /\ id' = [id EXCEPT ![c] = None] /\ got' = [got EXCEPT ![c] = None]
    /\ UNCHANGED <<magic, fileOf, read>>

\* The bytes, if the stream has any, are read and the handle is freed; the
\* client keeps its id.
OSS32_MidiRead(c) ==
    /\ Valid(c)
    /\ Kfree(id[c])
    /\ read' = TRUE
    /\ UNCHANGED <<magic, fileOf, alsa, id, got>>

\* The rest of the driver allocates a free block and overwrites it, and frees
\* it again.
OthersTake(a) ==
    /\ owner[a] = "free"
    /\ owner' = [owner EXCEPT ![a] = "other"]
    /\ magic' = [magic EXCEPT ![a] = FALSE]
    /\ UNCHANGED <<fileOf, alsa, id, got, read>>

OthersFree(a) ==
    /\ owner[a] = "other"
    /\ Kfree(a)
    /\ UNCHANGED <<magic, fileOf, alsa, id, got, read>>

Next ==
    \/ \E c \in Clients : OSS32_MidiOpen(c)
    \/ \E c \in Clients : OSS32_MidiClose(c)
    \/ \E c \in Clients : OSS32_MidiRead(c)
    \/ \E c \in Clients : Refused(c)
    \/ \E a \in Addrs : OthersTake(a) \/ OthersFree(a)

Spec == Init /\ [][Next]_vars

-----------------------------------------------------------------------------
\* The type invariant; what passes the test of the magic number has a file.
TypeOK ==
    /\ owner \in [Addrs -> {"free", "handle", "other"}]
    /\ magic \in [Addrs -> BOOLEAN]
    /\ fileOf \in [Addrs -> Files \cup {None}]
    /\ \A a \in Addrs : magic[a] => fileOf[a] # None
    /\ opened \in [Files -> Types \cup {None}]
    /\ ports \subseteq Files /\ subs \subseteq Files
    /\ id \in [Clients -> Addrs \cup {None}]
    /\ got \in [Clients -> Files \cup {None}] /\ read \in BOOLEAN

\* As long as nobody has read, an id names a live handle of one client, and
\* the file in it is the one opened for that client: commands and the close
\* reach the client's own device.
OwnStream ==
    read \/ \A c \in Clients : id[c] # None =>
        /\ owner[id[c]] = "handle" /\ magic[id[c]]
        /\ fileOf[id[c]] = got[c] /\ opened[got[c]] # None
        /\ \A d \in Clients : id[d] = id[c] => c = d

\* As long as nobody has read, a busy MPU401 port is busy because a client has
\* it open, and what is subscribed to the FM synth is the open stream of a
\* client: no close and no failure of an open keeps the device.
DevicesReturn ==
    /\ TypeOK
    /\ read \/ \A f \in Files :
          opened[f] \in {"out", "in"} => \E c \in Clients : got[c] = f
    /\ read \/ \A f \in subs : opened[f] = "fm" /\ \E c \in Clients : got[c] = f

\* No memory is lost with the handles: a block that is marked as a handle is
\* the stream of some client.
HandlesReturn ==
    read \/ \A a \in Addrs : owner[a] = "handle" => \E c \in Clients : id[c] = a
=============================================================================
