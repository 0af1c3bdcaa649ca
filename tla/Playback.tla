------------------------------ MODULE Playback ------------------------------
(***************************************************************************)
(* What a client may expect of a playback stream: the frames it writes are *)
(* heard in the order in which it wrote them, each once and unchanged,     *)
(* until they run out.  How a ring buffer, pointers and interrupts bring   *)
(* that about is left open.                                                *)
(***************************************************************************)
EXTENDS Naturals, Sequences

CONSTANTS
    Frames,     \* the frames that a client may write
    Silence,    \* what is heard when there is nothing to play
    Capacity    \* frames that can wait

VARIABLES
    state,      \* "off", "ready" for frames, or "playing"
    offered,    \* the frames of a write that was not answered yet
    queue,      \* the frames accepted and not yet heard
    heard,      \* the last frame played
    dry         \* frames ran out while playing: what is heard has gaps

vars == <<state, offered, queue, heard, dry>>

Init ==
    /\ state = "off" /\ offered = <<>> /\ queue = <<>>
    /\ heard = Silence /\ dry = FALSE

\* The client hands frames over.
Offer ==
    /\ offered = <<>> /\ offered' \in Seq(Frames)
    /\ UNCHANGED <<state, queue, heard, dry>>

\* They are accepted, which may start the stream.
Accept ==
    /\ state # "off" /\ ~dry
    /\ queue' = queue \o offered
    /\ Len(queue') <= Capacity
    /\ offered' = <<>>
    /\ state' \in {state, "playing"}
    /\ UNCHANGED <<heard, dry>>

\* They are refused, or lost in the gap.
Refuse ==
    /\ state = "off" \/ dry
    /\ offered' = <<>>
    /\ state' \in {state, "off"}
    /\ UNCHANGED <<queue, heard, dry>>

\* Nothing is played before there is a frame to play.
Start ==
    /\ state = "ready" /\ queue # <<>> /\ state' = "playing"
    /\ UNCHANGED <<offered, queue, heard, dry>>

\* The oldest frame is heard.
Play ==
    /\ state = "playing" /\ queue # <<>> /\ ~dry
    /\ heard' = Head(queue) /\ queue' = Tail(queue)
    /\ UNCHANGED <<state, offered, dry>>

\* There is no frame: silence, or something of a write that comes too late.
RunDry ==
    /\ state = "playing" /\ queue = <<>>
    /\ dry' = TRUE
    /\ heard' \in IF dry \/ offered # <<>> THEN Frames \cup {Silence} ELSE {Silence}
    /\ UNCHANGED <<state, offered, queue>>

\* The stream stops: the frames wait.
Stop == state' = "off" /\ UNCHANGED <<offered, queue, heard, dry>>

\* Only a stream that is stopped, or made ready again, forgets its frames.
Discard ==
    /\ state' \in {"off", "ready"}
    /\ queue' = <<>>
    /\ dry' \in {FALSE, dry /\ state' = "off"}
    /\ UNCHANGED <<offered, heard>>

Next == Offer \/ Accept \/ Refuse \/ Start \/ Play \/ RunDry \/ Stop \/ Discard

Spec == Init /\ [][Next]_vars
=============================================================================
