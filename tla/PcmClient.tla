------------------------------ MODULE PcmClient ------------------------------
(***************************************************************************)
(* The playback stream with the frames of its client: PcmStream and what   *)
(* the DMA area really holds, what the write in progress copied into it    *)
(* and what was heard last, and the mapping to what a playback promises.   *)
(* No action of the stream reads these variables.                          *)
(***************************************************************************)
EXTENDS PcmStream, Sequences

CONSTANTS
    Frames,     \* the frames that a client may write
    Silence     \* the frame that fill_silence_frames writes

ASSUME FramesAssumption == Silence \notin Frames

VARIABLES
    area,       \* area[i]: the frame in the place i of the DMA area
    offered,    \* the frames of the chunk that was copied and not committed
    heard       \* the frame that the card played last

clientVars == <<rt, irq, call, reused, area, offered, heard>>

ClientInit ==
    /\ Init
    /\ area = [i \in Slots |-> Silence] /\ offered = <<>> /\ heard = Silence

(* The card plays what is in the area.                                     *)
Plays ==
    /\ DmaFrame
    /\ heard' = area[rt.pos % BufferSize]
    /\ UNCHANGED <<area, offered>>

(* The copy of a chunk, from the buffer of the client.                     *)
Copies ==
    /\ XferCopy
    /\ \E s \in [1 .. call.frames -> Frames] :
          /\ offered' = s
          /\ area' = [i \in Slots |->
                        LET k == (i - rt.appl_ptr) % BufferSize
                        IN  IF k < call.frames THEN s[k + 1] ELSE area[i]]
    /\ UNCHANGED heard

(* Any other step writes nothing but silence.  Committed or given up, the  *)
(* chunk is over when its call goes on.                                    *)
Controls ==
    /\ Control
    /\ area' = [i \in Slots |-> IF rt'.dma_area[i] = "silence" THEN Silence ELSE area[i]]
    /\ offered' = IF call'.pc = "commit" THEN offered ELSE <<>>
    /\ UNCHANGED heard

ClientNext == Plays \/ Copies \/ Controls

ClientSpec == ClientInit /\ [][ClientNext]_clientVars

-----------------------------------------------------------------------------
StateMap ==
    IF rt.state = "PREPARED" THEN "ready"
    ELSE IF rt.state \in {"RUNNING", "PAUSED"} THEN "playing" ELSE "off"

(* The queue is in the ring, from the place of the next frame on.          *)
QueueMap ==
    IF rt.starved THEN <<>>
    ELSE [k \in 1 .. rt.queued |-> area[(rt.pos + (k - 1)) % BufferSize]]

Heard == INSTANCE Playback WITH
    Capacity <- BufferSize, state <- StateMap, queue <- QueueMap, dry <- rt.starved

(* The stream plays what its client wrote, in order, every frame once and  *)
(* unchanged, until it runs out: neither the pointers, nor the silence     *)
(* that the interrupt writes, nor the start, stop and restart of the       *)
(* stream between the parts of a write lose, repeat or swap a frame.       *)
ImplementsPlayback == Heard!Spec
=============================================================================
