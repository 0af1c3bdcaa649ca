------------------------------ MODULE PcmStream ------------------------------
(***************************************************************************)
(* One playback substream of the ALSA core as UNIAUD32 drives it: the      *)
(* OSS32_Wave* calls of lib32/sound.c, the ring buffer pointers and the    *)
(* stream states of alsa-kernel/core/pcm_lib.c and pcm_native.c, the DMA   *)
(* engine of the card and its period interrupt.                            *)
(*                                                                         *)
(* A call runs in ring 0 and is never preempted by another call; only the  *)
(* DMA engine and the interrupt interleave with it, wherever the stream    *)
(* lock (cli) is not held.  A locked section is therefore one step, and a  *)
(* call with several of them has one step per section.                     *)
(*                                                                         *)
(* Time is counted in frames: a jiffy is one frame, so that                *)
(* hw_ptr_buffer_jiffies is BufferSize.                                    *)
(***************************************************************************)
EXTENDS Integers

CONSTANTS
    BufferSize,   \* runtime->buffer_size, frames
    PeriodSize,   \* runtime->period_size, frames
    Boundary,     \* runtime->boundary, where the pointers wrap
    PauseInfo,    \* the hardware has SNDRV_PCM_INFO_PAUSE
    Reuse,        \* the values of the handle's reuse flag: a close resets or releases
    MaxLag,       \* bound: frames played between two reads of the position
    MaxPos,       \* bound: the last frame played; Boundary for no bound
    ReqSizes      \* the sizes OSS32_WaveAddBuffer is called with, frames

ASSUME StreamAssumption ==
    /\ PeriodSize \in Nat /\ PeriodSize >= 2
    /\ BufferSize \in Nat /\ BufferSize >= 2 * PeriodSize
    /\ BufferSize % PeriodSize = 0
    /\ Boundary \in Nat /\ Boundary >= 2 * BufferSize
    /\ Boundary % BufferSize = 0
    /\ PauseInfo \in BOOLEAN /\ Reuse \subseteq BOOLEAN
    /\ MaxLag \in Nat /\ PeriodSize <= MaxLag /\ MaxLag < BufferSize
    /\ MaxPos \in 1 .. Boundary
    /\ ReqSizes \subseteq Nat \ {0}

VARIABLES
    rt,     \* the runtime with its DMA area, and what the card does with it
    irq,    \* the period interrupt: none, raised, or due before the next section
    call,   \* the call in progress: its step and its local variables
    reused  \* the reuse flag of the handle, set by its open

vars == <<rt, irq, call, reused>>

(* What a frame of the DMA area holds: silence, a frame of the client that *)
(* was not played yet, or an old one.                                      *)
Slots == 0 .. BufferSize - 1
Contents == {"silence", "fresh", "old"}

(* More jiffies than the half buffer after which an interrupt counts as    *)
(* late; larger values are not told apart.                                 *)
Long == BufferSize \div 2 + 2

(* The fields of rt:                                                       *)
(*   state .. silence_filled  struct snd_pcm_runtime; elapsed stands for   *)
(*                            jiffies - hw_ptr_jiffies                     *)
(*   dma_area                 the ring buffer                              *)
(*   running, pos             the engine runs; frames it played, modulo    *)
(*                            Boundary                                     *)
(*   lag                      frames played since the position was read    *)
(*   queued, starved          frames accepted and not yet played; the      *)
(*                            engine played past the last one of them      *)
Fresh0 ==
    [state |-> "OPEN", appl_ptr |-> 0, hw_ptr |-> 0, hw_ptr_base |-> 0,
     hw_ptr_interrupt |-> 0, elapsed |-> 0, silence_filled |-> 0,
     dma_area |-> [i \in Slots |-> "silence"],
     running |-> FALSE, pos |-> 0, lag |-> 0, queued |-> 0, starved |-> FALSE]

Idle == [pc |-> "idle", size |-> 0, avail |-> 0, frames |-> 0]

Init == rt = Fresh0 /\ irq = "none" /\ call = Idle /\ reused \in Reuse

Least(a, b) == IF a <= b THEN a ELSE b

snd_pcm_running(r) == r.state = "RUNNING"

-----------------------------------------------------------------------------
(* The room for the client.  Once appl_ptr has passed the first buffer the *)
(* OS/2 branch compares appl_ptr - hw_ptr as an unsigned number, so that a *)
(* hw_ptr that is ahead of appl_ptr counts as a full buffer.               *)
snd_pcm_playback_avail_OffByOne(r) ==
    (r.hw_ptr + BufferSize + 1 - r.appl_ptr) % Boundary

snd_pcm_playback_avail(r) ==
    LET queue == r.appl_ptr - r.hw_ptr
        room == IF BufferSize > r.appl_ptr THEN r.hw_ptr + BufferSize - r.appl_ptr
                ELSE IF queue < 0 \/ queue > BufferSize THEN 0
                ELSE BufferSize - queue
    IN  IF room >= Boundary THEN room - Boundary ELSE room

snd_pcm_playback_hw_avail(r) == BufferSize - snd_pcm_playback_avail(r)

fill_silence_frames(r, from, frames) ==
    [r EXCEPT !.dma_area = [i \in Slots |->
                               IF (i - from) % BufferSize < frames THEN "silence"
                               ELSE @[i]],
              !.silence_filled = BufferSize]

(* snd_pcm_playback_silence(ULONG_MAX): everything but the queue.  A       *)
(* negative queue is compared as unsigned and counts as a full buffer.     *)
silence_init(r) ==
    LET queue == snd_pcm_playback_hw_avail(r)
        filled == IF queue < 0 \/ queue > BufferSize THEN BufferSize ELSE queue
    IN  fill_silence_frames(r, r.hw_ptr + filled, BufferSize - filled)

snd_pcm_playback_silence_Ahead(r, new_hw_ptr) ==
    fill_silence_frames(r, new_hw_ptr, (new_hw_ptr - r.hw_ptr) % Boundary)

snd_pcm_playback_silence_None(r, new_hw_ptr) == r

(* The frames played since the last update, or all when more were played   *)
(* than the area that is known to be silent or queued.                     *)
snd_pcm_playback_silence(r, new_hw_ptr) ==
    LET filled == r.silence_filled - ((new_hw_ptr - r.hw_ptr) % Boundary)
    IN  IF filled < 0 THEN fill_silence_frames(r, new_hw_ptr, BufferSize)
        ELSE fill_silence_frames(r, r.hw_ptr, BufferSize - filled)

-----------------------------------------------------------------------------
snd_pcm_stop(r, state) ==
    IF r.state = "OPEN" THEN r
    ELSE [r EXCEPT !.running = @ /\ ~snd_pcm_running(r), !.state = state]

(* The state is checked against stop_threshold, which WaveSetHwParams sets *)
(* to the buffer size.                                                     *)
snd_pcm_update_state(r) ==
    IF snd_pcm_playback_avail(r) >= BufferSize THEN snd_pcm_stop(r, "XRUN") ELSE r

NextBase_NoWrap(base) == base + BufferSize

NextBase(base) == IF base + BufferSize >= Boundary THEN 0 ELSE base + BufferSize

(* snd_pcm_update_hw_ptr0.  The position read from the card is taken       *)
(* modulo the buffer; hw_ptr_base moves on when it went down, or, in the   *)
(* interrupt, when too much time passed for a position before the next     *)
(* period.                                                                 *)
snd_pcm_update_hw_ptr0(r, in_interrupt) ==
    LET at == r.pos % BufferSize
        late == /\ in_interrupt
                /\ r.hw_ptr_interrupt + PeriodSize > r.hw_ptr_base + at
                /\ r.elapsed > BufferSize \div 2 + 1
        wrapped == late \/ r.hw_ptr_base + at < r.hw_ptr
        base == IF wrapped THEN NextBase(r.hw_ptr_base) ELSE r.hw_ptr_base
        new == base + at
        seen == [r EXCEPT !.lag = 0]
        since == (new - r.hw_ptr_interrupt) % Boundary
        moved == [snd_pcm_playback_silence(seen, new) EXCEPT
                     !.hw_ptr = new, !.hw_ptr_base = base, !.elapsed = 0,
                     !.hw_ptr_interrupt =
                         IF in_interrupt THEN (@ + since - (since % PeriodSize)) % Boundary
                         ELSE @]
    IN  IF (new - r.hw_ptr) % Boundary >= BufferSize + PeriodSize THEN seen
        ELSE IF new = r.hw_ptr THEN [seen EXCEPT !.elapsed = 0]
        ELSE snd_pcm_update_state(moved)

snd_pcm_update_hw_ptr(r) ==
    IF snd_pcm_running(r) THEN snd_pcm_update_hw_ptr0(r, FALSE) ELSE r

(* When the card's trigger callback fails, the undo action stops the card  *)
(* and the stream stays as it was.                                         *)
snd_pcm_start(r) ==
    IF r.state = "PREPARED" /\ snd_pcm_playback_avail(r) < BufferSize
      THEN silence_init([r EXCEPT !.state = "RUNNING", !.running = TRUE,
                                  !.elapsed = 0])
      ELSE r

pause_push_NoTrigger(r) ==
    IF PauseInfo /\ r.state = "RUNNING"
      THEN [snd_pcm_update_hw_ptr(r) EXCEPT !.elapsed = Long, !.state = "PAUSED"]
      ELSE r

(* An underrun that the update of a push finds is overwritten by PAUSED.   *)
pause_push(r) ==
    IF PauseInfo /\ r.state = "RUNNING"
      THEN [snd_pcm_update_hw_ptr(r) EXCEPT
               !.elapsed = Long, !.running = FALSE, !.state = "PAUSED"]
      ELSE r

(* The card refuses the push: the undo action releases it again.  The      *)
(* pointer was updated, and hw_ptr_jiffies is stale.  When the update finds*)
(* an underrun, its snd_pcm_stop leaves trigger_master at NULL             *)
(* (snd_pcm_trigger_tstamp), and the undo action, which asks for           *)
(* trigger_master == substream, does not trigger: the engine stays off.    *)
pause_refused(r) ==
    IF PauseInfo /\ r.state = "RUNNING"
      THEN [snd_pcm_update_hw_ptr(r) EXCEPT !.elapsed = Long] ELSE r

pause_release(r) ==
    IF PauseInfo /\ r.state = "PAUSED"
      THEN [r EXCEPT !.elapsed = Long, !.running = TRUE, !.state = "RUNNING"]
      ELSE r

snd_pcm_drop(r) == snd_pcm_stop(pause_release(r), "SETUP")

(* What the client queued before is never to be heard again.               *)
Discard(r) ==
    [r EXCEPT !.queued = 0, !.starved = FALSE,
              !.dma_area = [i \in Slots |-> IF @[i] = "fresh" THEN "old" ELSE @[i]]]

snd_pcm_prepare_KeepsBase(r) ==
    LET s == IF r.state = "PAUSED" THEN snd_pcm_stop(pause_release(r), "SETUP") ELSE r
    IN  IF s.state = "OPEN" \/ snd_pcm_running(s) THEN s
        ELSE [Discard(s) EXCEPT
                 !.state = "PREPARED", !.pos = 0, !.lag = 0, !.hw_ptr = 0,
                 !.hw_ptr_interrupt = 0,
                 !.silence_filled = 0, !.appl_ptr = 0]

(* A running stream refuses; the prepare callback rewinds the card, and    *)
(* the reset of a stream that does not run zeroes the pointers.            *)
snd_pcm_prepare(r) ==
    LET s == IF r.state = "PAUSED" THEN snd_pcm_stop(pause_release(r), "SETUP") ELSE r
    IN  IF s.state = "OPEN" \/ snd_pcm_running(s) THEN s
        ELSE [Discard(s) EXCEPT
                 !.state = "PREPARED", !.pos = 0, !.lag = 0, !.hw_ptr = 0,
                 !.hw_ptr_base = 0, !.hw_ptr_interrupt = 0,
                 !.silence_filled = 0, !.appl_ptr = 0]

(* The three locked sections of SNDRV_PCM_IOCTL_RESET.                     *)
snd_pcm_lib_ioctl_reset(r) ==
    LET s == snd_pcm_update_hw_ptr(r)
    IN  [s EXCEPT !.hw_ptr = IF snd_pcm_running(s) THEN @ % BufferSize ELSE 0]

snd_pcm_do_reset(r) ==
    [r EXCEPT !.hw_ptr_base = 0, !.silence_filled = 0,
              !.hw_ptr_interrupt = r.hw_ptr - (r.hw_ptr % PeriodSize)]

(* From here on the card's frames are counted from the reset hw_ptr.       *)
snd_pcm_post_reset(r) ==
    LET ahead == (r.pos - r.hw_ptr) % BufferSize
    IN  silence_init([Discard(r) EXCEPT
            !.appl_ptr = r.hw_ptr, !.starved = ahead > 0,
            !.pos = (r.hw_ptr + ahead) % Boundary])

-----------------------------------------------------------------------------
(* The card.  Bounds: it plays no more than MaxLag frames before somebody  *)
(* reads its position, and none from MaxPos on.                            *)
DmaFrame ==
    /\ rt.running /\ rt.lag < MaxLag /\ rt.pos < MaxPos
    /\ rt' = [rt EXCEPT !.pos = (@ + 1) % Boundary,
                        !.lag = @ + 1,
                        !.elapsed = Least(@ + 1, Long),
                        !.dma_area[rt.pos % BufferSize] =
                            IF @ = "fresh" THEN "old" ELSE @,
                        !.queued = IF @ > 0 THEN @ - 1 ELSE 0,
                        !.starved = @ \/ rt.queued = 0]
    /\ irq' = IF irq = "none" /\ (rt.pos + 1) % PeriodSize = 0 THEN "raised" ELSE irq
    /\ UNCHANGED <<call, reused>>

(* The interrupt handler of the card's driver calls this once per period.  *)
snd_pcm_period_elapsed ==
    /\ irq # "none"
    /\ irq' = "none"
    /\ rt' = IF snd_pcm_running(rt) THEN snd_pcm_update_hw_ptr0(rt, TRUE) ELSE rt
    /\ UNCHANGED <<call, reused>>

(* The driver reports an error of the hardware.                            *)
snd_pcm_stop_xrun ==
    /\ snd_pcm_running(rt)
    /\ rt' = snd_pcm_stop(rt, "XRUN")
    /\ UNCHANGED <<irq, call, reused>>

-----------------------------------------------------------------------------
(* A locked section of a call.  An interrupt raised while it holds the     *)
(* processor is taken when it ends, before the next section begins.        *)
Section(pc) ==
    /\ call.pc = pc
    /\ irq # "due"
    /\ irq' = IF irq = "raised" THEN "due" ELSE irq
    /\ UNCHANGED reused

(* The calls of one locked section.                                        *)
Call(op(_)) == Section("idle") /\ rt' = op(rt) /\ UNCHANGED call

OSS32_WavePrepare == Call(snd_pcm_prepare)
OSS32_WaveStart == Call(snd_pcm_start)
OSS32_WaveStop == Call(snd_pcm_drop)

(* WavePause passes 0 to SNDRV_PCM_IOCTL_PAUSE, which releases a pause,    *)
(* and WaveResume passes 1, which pushes it.                               *)
OSS32_WavePause == Call(pause_release)
OSS32_WaveResume == Call(pause_push) \/ Call(pause_refused)

(* WaveGetPosition, WaveGetSpace, WaveGetHwPtr and WaveGetStatus.          *)
OSS32_WaveGetStatus == Call(snd_pcm_update_hw_ptr)

(* HW_PARAMS is refused unless the stream is OPEN, SETUP or PREPARED; the  *)
(* first refusal is answered by a PREPARE and a second try.  It clears the *)
(* DMA area; when the card refuses, the stream falls back to OPEN.         *)
OSS32_WaveSetHwParams ==
    LET again == IF rt.state \in {"OPEN", "SETUP", "PREPARED"} THEN rt
                 ELSE snd_pcm_prepare(rt)
    IN  /\ Section("idle")
        /\ rt' \in IF snd_pcm_running(again) THEN {again}
                   ELSE {[again EXCEPT !.state = st, !.queued = 0,
                             !.dma_area = [i \in Slots |-> "silence"]] :
                            st \in {"SETUP", "OPEN"}}
        /\ UNCHANGED call

(* A close that releases the substream, and the next open.                 *)
snd_pcm_release ==
    /\ Section("idle") /\ ~reused
    /\ rt' = Fresh0
    /\ UNCHANGED call

-----------------------------------------------------------------------------
Goto(pc) == call' = [call EXCEPT !.pc = pc]
Return == call' = Idle

(* A close of a reused handle: RESET in three sections, then PREPARE.      *)
OSS32_WaveClose ==
    /\ Section("idle") /\ reused
    /\ IF rt.state \in {"RUNNING", "PREPARED", "PAUSED"}
         THEN rt' = snd_pcm_lib_ioctl_reset(rt) /\ Goto("do_reset")
         ELSE rt' = rt /\ Goto("close_prepare")

CloseDoReset ==
    /\ Section("do_reset")
    /\ rt' = snd_pcm_do_reset(rt) /\ Goto("post_reset")

ClosePostReset ==
    /\ Section("post_reset")
    /\ rt' = snd_pcm_post_reset(rt) /\ Goto("close_prepare")

ClosePrepare ==
    /\ Section("close_prepare")
    /\ rt' = snd_pcm_prepare(rt) /\ Return

(* OSS32_WaveAddBuffer: STATUS, whose state is the one before its update   *)
(* of the pointer, then PREPARE when that state was XRUN, then the write   *)
(* of no more than STATUS found room for.                                  *)
OSS32_WaveAddBuffer(n) ==
    LET r == snd_pcm_update_hw_ptr(rt)
        size == IF rt.state = "OPEN" THEN 0 ELSE Least(n, snd_pcm_playback_avail(r))
    IN  /\ Section("idle")
        /\ rt' = r
        /\ call' = IF size = 0 THEN Idle
                   ELSE [Idle EXCEPT !.size = size,
                            !.pc = IF rt.state = "XRUN" THEN "prepare" ELSE "write"]

AddBufferPrepare ==
    /\ Section("prepare")
    /\ rt' = snd_pcm_prepare(rt) /\ Goto("write")

pcm_accessible_state(r) == r.state \in {"PREPARED", "RUNNING", "PAUSED"}

(* The next chunk of __snd_pcm_lib_xfer: up to the end of the ring.  A     *)
(* full buffer ends the call with EAGAIN, since the file is non-blocking.  *)
NextChunk_Blocks(r, size, avail) ==
    [pc |-> IF avail = 0 THEN "write" ELSE "copy", size |-> size, avail |-> avail,
     frames |-> Least(Least(size, avail), BufferSize - (r.appl_ptr % BufferSize))]

NextChunk(r, size, avail) ==
    IF avail = 0 THEN Idle
    ELSE [pc |-> "copy", size |-> size, avail |-> avail,
          frames |-> Least(Least(size, avail), BufferSize - (r.appl_ptr % BufferSize))]

XferBegin ==
    /\ Section("write")
    /\ IF pcm_accessible_state(rt)
         THEN LET r == snd_pcm_update_hw_ptr(rt)
              IN  /\ rt' = r
                  /\ call' = NextChunk(r, call.size, snd_pcm_playback_avail(r))
         ELSE rt' = rt /\ Return

(* The copy, with interrupts enabled.                                      *)
XferCopy ==
    /\ Section("copy")
    /\ rt' = [rt EXCEPT !.dma_area = [i \in Slots |->
                 IF (i - rt.appl_ptr) % BufferSize < call.frames THEN "fresh" ELSE @[i]]]
    /\ Goto("commit")

(* appl_ptr moves over the frames that were copied.                        *)
Committed ==
    [rt EXCEPT !.appl_ptr = (@ + call.frames) % Boundary,
               !.queued = IF rt.starved THEN @ ELSE @ + call.frames]

(* The card refuses to start: the write ends with the frames it has moved, *)
(* in a stream that stays PREPARED.                                        *)
XferStartFails ==
    /\ Section("commit")
    /\ rt.state = "PREPARED" /\ snd_pcm_playback_hw_avail(Committed) >= 1
    /\ rt' = Committed /\ Return

XferCommit_NoRecheck ==
    LET r == Committed
        s == IF snd_pcm_playback_hw_avail(r) >= 1 THEN snd_pcm_start(r) ELSE r
        left == call.size - call.frames
    IN  /\ Section("commit")
        /\ IF left = 0 THEN rt' = snd_pcm_update_state(s) /\ Return
           ELSE rt' = s /\ call' = NextChunk(s, left, call.avail - call.frames)

(* The state is checked again, the first data starts the stream            *)
(* (start_threshold is 1), and the loop goes on or ends with an update of  *)
(* the state.                                                              *)
XferCommit ==
    LET r == Committed
        s == IF snd_pcm_playback_hw_avail(r) >= 1 THEN snd_pcm_start(r) ELSE r
        left == call.size - call.frames
    IN  /\ Section("commit")
        /\ IF ~pcm_accessible_state(rt) THEN rt' = rt /\ Return
           ELSE IF left = 0 THEN rt' = snd_pcm_update_state(s) /\ Return
           ELSE rt' = s /\ call' = NextChunk(s, left, call.avail - call.frames)

-----------------------------------------------------------------------------
(* The sections of a call after its first one, without the copy.           *)
CallSection ==
    \/ CloseDoReset \/ ClosePostReset \/ ClosePrepare
    \/ AddBufferPrepare \/ XferBegin \/ XferCommit \/ XferStartFails

CallStep == XferCopy \/ CallSection

(* The steps that neither play a frame nor copy one.                       *)
Control ==
    \/ snd_pcm_period_elapsed \/ snd_pcm_stop_xrun
    \/ OSS32_WavePrepare \/ OSS32_WaveStart \/ OSS32_WaveStop
    \/ OSS32_WavePause \/ OSS32_WaveResume \/ OSS32_WaveGetStatus
    \/ OSS32_WaveSetHwParams \/ snd_pcm_release \/ OSS32_WaveClose
    \/ \E n \in ReqSizes : OSS32_WaveAddBuffer(n)
    \/ CallSection

Next == DmaFrame \/ XferCopy \/ Control

(* A call in ring 0 runs to its end, the processor takes a pending         *)
(* interrupt and a running engine plays.  No client has to call.           *)
Spec ==
    /\ Init /\ [][Next]_vars
    /\ WF_vars(CallStep) /\ WF_vars(snd_pcm_period_elapsed) /\ WF_vars(DmaFrame)

-----------------------------------------------------------------------------
(* The type invariant: the pointers of snd_pcm_update_hw_ptr0 stay below   *)
(* the boundary.                                                           *)
TypeOK ==
    /\ rt \in [state : {"OPEN", "SETUP", "PREPARED", "RUNNING", "XRUN", "PAUSED"},
               appl_ptr : 0 .. Boundary - 1, hw_ptr : 0 .. Boundary - 1,
               hw_ptr_base : 0 .. Boundary - BufferSize,
               hw_ptr_interrupt : 0 .. Boundary - 1,
               elapsed : 0 .. Long, silence_filled : {0, BufferSize},
               dma_area : [Slots -> Contents], running : BOOLEAN,
               pos : 0 .. Boundary - 1, lag : 0 .. MaxLag,
               queued : Nat, starved : BOOLEAN]
    /\ irq \in {"none", "raised", "due"} /\ reused \in BOOLEAN
    /\ call \in [pc : {"idle", "do_reset", "post_reset", "close_prepare",
                       "prepare", "write", "copy", "commit"},
                 size : Nat, avail : 0 .. Boundary, frames : 0 .. BufferSize]

(* The engine plays exactly while the stream is RUNNING: no path through   *)
(* pause, drop, prepare, underrun and close leaves it on or off.           *)
DmaFollowsState == rt.running <=> snd_pcm_running(rt)

(* snd_pcm_update_hw_ptr0 reconstructs the number of frames played from a  *)
(* position within the buffer: hw_ptr is exactly what the card had played  *)
(* when its position was last read, over any number of buffers and across  *)
(* the boundary.                                                           *)
HwPtrExact ==
    /\ TypeOK
    /\ ~reused /\ rt.state \in {"RUNNING", "PAUSED"} =>
          (rt.hw_ptr + rt.lag) % Boundary = rt.pos

(* While the card has something to play, avail tells the client exactly    *)
(* the room that the queue leaves, less what was played since the last     *)
(* update.                                                                 *)
AvailExact ==
    ~reused /\ ~rt.starved /\ pcm_accessible_state(rt) =>
        snd_pcm_playback_avail(rt) + rt.lag + rt.queued = BufferSize

(* Neither the silence that the interrupt writes, between the two halves   *)
(* of a write too, nor the next chunk of the client touches a frame that   *)
(* was accepted and not played yet, and no more is accepted than the       *)
(* buffer holds.                                                           *)
QueueIntact ==
    ~reused /\ ~rt.starved =>
        /\ rt.queued <= BufferSize
        /\ \A k \in 0 .. rt.queued - 1 :
              rt.dma_area[(rt.pos + k) % BufferSize] = "fresh"

(* "This hack forces the ring buffer to always get filled with silence":   *)
(* the card never plays an old frame a second time, however the underrun   *)
(* falls between the updates.                                              *)
NoReplay == [][DmaFrame /\ ~reused => rt.dma_area[rt.pos % BufferSize] # "old"]_vars

(* "this is done to make sure we don't block inside ALSA": every call      *)
(* returns, a write into a paused or full stream too.                      *)
CallsReturn == call.pc # "idle" ~> call.pc = "idle"
=============================================================================
