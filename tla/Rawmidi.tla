------------------------------ MODULE Rawmidi ------------------------------
(***************************************************************************)
(* A raw MIDI device: the rings of core/rawmidi.c on top of the MPU-401    *)
(* UART of drivers/mpu401/mpu401_uart.c.  One file is open in each         *)
(* direction, non-blocking, as lib32 opens it.                             *)
(*                                                                         *)
(* A spin lock of this port disables interrupts, so a handler interleaves  *)
(* with a call exactly where the call holds no lock: between the claim of  *)
(* a part of the ring and the copy, and between the steps of a close.  No  *)
(* card of the tree has an interrupt for the transmitter                   *)
(* (MPU401_INFO_TX_IRQ), and the timer that would stand in for it is an    *)
(* empty function of lib32/timer.c: output moves when a write triggers it  *)
(* and when the receiver interrupts.                                       *)
(*                                                                         *)
(* A byte is its number since the open, modulo two rings, so that a byte   *)
(* of this lap differs from the one it replaces.                           *)
(***************************************************************************)
EXTENDS Integers

CONSTANTS
    Size,       \* buffer_size
    TxFifo,     \* bytes the transmitter holds
    RxFifo,     \* bytes the receiver holds
    Counts      \* sizes of the reads and writes

ASSUME RawmidiAssumption ==
    /\ Size \in Nat \ {0} /\ TxFifo \in Nat \ {0} /\ RxFifo \in Nat \ {0}
    /\ Counts \subseteq Nat \ {0}

Dirs == {"in", "out"}
Bits == Dirs \cup {"in_trigger", "out_trigger"}
Numbers == 0 .. 2 * Size - 1
Zero == -1                              \* the ring after kvzalloc
Other(d) == IF d = "in" THEN "out" ELSE "in"

VARIABLES
    hooked,     \* the card hands its interrupts to the driver
    mode,       \* mpu->mode
    uart,       \* the device is in UART mode
    tx, rx,     \* bytes in the device
    live,       \* live[d]: substream->runtime exists
    ring,       \* ring[d]: [buf, appl, hw, avail] of the runtime
    next,       \* next[d]: number of the oldest byte of the ring
    pc,         \* pc[d]: where the call of the thread stands
    left,       \* left[d]: bytes the call still has to move
    claim       \* claim[d]: [at, n], the part claimed and not yet copied

device == <<mode, uart, tx, rx>>
calls == <<pc, left, claim>>
rings == <<live, ring, next>>
vars == <<hooked, device, calls, rings>>

-----------------------------------------------------------------------------
Min2(a, b) == IF a < b THEN a ELSE b

NoClaim == [at |-> 0, n |-> 0]

\* __reset_runtime_ptrs
ResetPtrs(r, d) ==
    [r EXCEPT !.appl = 0, !.hw = 0, !.avail = IF d = "in" THEN 0 ELSE Size]

\* snd_rawmidi_runtime_create
NewRing(d) ==
    [buf |-> [i \in 0 .. Size - 1 |-> Zero], appl |-> 0, hw |-> 0,
     avail |-> IF d = "in" THEN 0 ELSE Size]

Init ==
    /\ hooked \in BOOLEAN
    /\ mode = {} /\ uart = FALSE /\ tx = 0 /\ rx = 0
    /\ live = [d \in Dirs |-> FALSE]
    /\ ring = [d \in Dirs |-> NewRing(d)]
    /\ next = [d \in Dirs |-> 0]
    /\ pc = [d \in Dirs |-> "closed"]
    /\ left = [d \in Dirs |-> 0]
    /\ claim = [d \in Dirs |-> NoClaim]

\* Bytes in a ring, and the cell of the i-th of them.
Filled(d) == IF d = "in" THEN ring[d].avail ELSE Size - ring[d].avail
Tail(d) == IF d = "in" THEN ring[d].appl ELSE ring[d].hw
Cell(d, i) == (Tail(d) + i) % Size
Number(d, i) == (next[d] + i) % (2 * Size)

-----------------------------------------------------------------------------
(* The driver.                                                             *)

\* Slip: hw_ptr is advanced before the byte is stored.
Received_Pre(k) ==
    LET r == ring["in"] IN
    [r EXCEPT !.buf = [c \in 0 .. Size - 1 |->
                  IF \E i \in 1 .. k : c = (r.hw + i) % Size
                      THEN Number("in", r.avail + ((c - r.hw - 1) % Size))
                      ELSE r.buf[c]],
              !.hw = (@ + k) % Size, !.avail = @ + k]

\* snd_rawmidi_receive of k bytes that fit.
Received(k) ==
    LET r == ring["in"] IN
    [r EXCEPT !.buf = [c \in 0 .. Size - 1 |->
                  IF \E i \in 0 .. k - 1 : c = (r.hw + i) % Size
                      THEN Number("in", r.avail + ((c - r.hw) % Size))
                      ELSE r.buf[c]],
              !.hw = (@ + k) % Size, !.avail = @ + k]

\* The bytes a full ring does not take are counted as overruns and lost.
Accepted(k) == Min2(k, Size - ring["in"].avail)

\* snd_mpu401_uart_input_read: the receiver is emptied, into the ring only
\* while the input is triggered.
InputRead(m) ==
    IF "in_trigger" \in m THEN Received(Accepted(rx)) ELSE ring["in"]

\* snd_mpu401_uart_output_write: until the ring is empty or the FIFO full.
Moved == Min2(Filled("out"), TxFifo - tx)

\* snd_rawmidi_transmit_ack of k bytes.
Sent(k) ==
    [ring["out"] EXCEPT !.hw = (@ + k) % Size, !.avail = @ + k]

\* The output half of both the trigger and the interrupt.
OutputWrite(k) ==
    /\ tx' = tx + k
    /\ next' = [next EXCEPT !["out"] = Number("out", k)]

\* uart_interrupt_tx
TxRuns == {"out", "out_trigger"} \subseteq mode

\* snd_mpu401_uart_interrupt
Interrupt ==
    /\ hooked /\ rx > 0
    /\ rx' = 0
    /\ LET in == IF "in" \in mode THEN InputRead(mode) ELSE ring["in"]
           k == IF TxRuns THEN Moved ELSE 0
       IN  /\ ring' = [d \in Dirs |-> IF d = "in" THEN in ELSE Sent(k)]
           /\ OutputWrite(k)
    /\ UNCHANGED <<hooked, mode, uart, live, calls>>

\* The wire takes a byte; a byte arrives.
Transmit == tx > 0 /\ tx' = tx - 1 /\ UNCHANGED <<hooked, mode, uart, rx, rings, calls>>
Arrive == rx < RxFifo /\ rx' = rx + 1 /\ UNCHANGED <<hooked, mode, uart, tx, rings, calls>>

-----------------------------------------------------------------------------
(* Open: open_substream with the open operation of the driver.             *)

Open(d) ==
    /\ pc[d] = "closed"
    /\ live' = [live EXCEPT ![d] = TRUE]
    /\ ring' = [ring EXCEPT ![d] = NewRing(d)]
    /\ next' = [next EXCEPT ![d] = 0]
    /\ mode' = mode \cup {d}
    /\ uart' = (Other(d) \notin mode \/ uart)
    /\ pc' = [pc EXCEPT ![d] = "idle"]
    /\ UNCHANGED <<hooked, tx, rx, left, claim>>

\* The reset that an open needs is not acknowledged: the runtime is freed.
OpenFails(d) ==
    /\ pc[d] = "closed" /\ Other(d) \notin mode
    /\ uart' \in BOOLEAN
    /\ UNCHANGED <<hooked, mode, tx, rx, rings, calls>>

-----------------------------------------------------------------------------
(* Write and read.                                                         *)

Goto(d, where) == pc' = [pc EXCEPT ![d] = where]

\* snd_rawmidi_write: with a full ring it returns -EAGAIN.
Write ==
    /\ pc["out"] = "idle" /\ ring["out"].avail > 0
    /\ \E n \in Counts : left' = [left EXCEPT !["out"] = n]
    /\ Goto("out", "loop")
    /\ UNCHANGED <<hooked, device, rings, claim>>

\* snd_rawmidi_read triggers the input first.
Read ==
    /\ pc["in"] = "idle"
    /\ \E n \in Counts : left' = [left EXCEPT !["in"] = n]
    /\ mode' = mode \cup {"in_trigger"}
    /\ Goto("in", IF "in_trigger" \in mode THEN "advance" ELSE "flush")
    /\ UNCHANGED <<hooked, uart, tx, rx, rings, claim>>

\* "first time - flush FIFO"
ReadFlush ==
    /\ pc["in"] = "flush"
    /\ rx' = 0
    /\ Goto("in", "advance")
    /\ UNCHANGED <<hooked, mode, uart, tx, rings, left, claim>>

\* "read data in advance"
ReadAdvance ==
    /\ pc["in"] = "advance"
    /\ ring' = [ring EXCEPT !["in"] = InputRead(mode)]
    /\ rx' = 0
    /\ Goto("in", "loop")
    /\ UNCHANGED <<hooked, mode, uart, tx, live, next, left, claim>>

\* What one pass of the loop moves: up to the end of the buffer.
ClaimSize(d) == Min2(Size - ring[d].appl, Min2(left[d], ring[d].avail))

\* Slip: the remaining count is not reduced.
Claim_Keeps(d) ==
    /\ pc[d] = "loop" /\ left[d] > 0 /\ ring[d].avail > 0
    /\ LET n == ClaimSize(d) IN
       /\ claim' = [claim EXCEPT ![d] = [at |-> ring[d].appl, n |-> n]]
       /\ ring' = [ring EXCEPT ![d].appl = (@ + n) % Size, ![d].avail = @ - n]
       /\ next' = [next EXCEPT ![d] = IF d = "in" THEN Number(d, n) ELSE @]
    /\ Goto(d, "copy")
    /\ UNCHANGED <<hooked, device, live, left>>

\* One pass of the loops of read1 and write1, under the lock: appl_ptr and
\* avail move before the bytes do.
Claim(d) ==
    /\ pc[d] = "loop" /\ left[d] > 0 /\ ring[d].avail > 0
    /\ LET n == ClaimSize(d) IN
       /\ claim' = [claim EXCEPT ![d] = [at |-> ring[d].appl, n |-> n]]
       /\ ring' = [ring EXCEPT ![d].appl = (@ + n) % Size, ![d].avail = @ - n]
       /\ left' = [left EXCEPT ![d] = @ - n]
       /\ next' = [next EXCEPT ![d] = IF d = "in" THEN Number(d, n) ELSE @]
    /\ Goto(d, "copy")
    /\ UNCHANGED <<hooked, device, live>>

\* A cell of the claim, and the cells of it.
ClaimCell(d, i) == claim[d].at + i
Claimed(d) == {ClaimCell(d, i) : i \in 0 .. claim[d].n - 1}

\* The claim of a writer is the newest part of its ring.
WriteNumber(i) == Number("out", Filled("out") - claim["out"].n + i)

\* Slip: the first byte of the claim is not copied.
CopyIn_Late ==
    /\ pc["out"] = "copy"
    /\ ring' = [ring EXCEPT !["out"].buf =
                  [c \in 0 .. Size - 1 |->
                      IF c \in Claimed("out") /\ c # claim["out"].at
                          THEN WriteNumber(c - claim["out"].at) ELSE @[c]]]
    /\ claim' = [claim EXCEPT !["out"] = NoClaim]
    /\ Goto("out", "loop")
    /\ UNCHANGED <<hooked, device, live, next, left>>

\* copy_from_user, with interrupts enabled
CopyIn ==
    /\ pc["out"] = "copy"
    /\ ring' = [ring EXCEPT !["out"].buf =
                  [c \in 0 .. Size - 1 |->
                      IF c \in Claimed("out")
                          THEN WriteNumber(c - claim["out"].at) ELSE @[c]]]
    /\ claim' = [claim EXCEPT !["out"] = NoClaim]
    /\ Goto("out", "loop")
    /\ UNCHANGED <<hooked, device, live, next, left>>

\* copy_to_user, with interrupts enabled
CopyOut ==
    /\ pc["in"] = "copy"
    /\ claim' = [claim EXCEPT !["in"] = NoClaim]
    /\ Goto("in", "loop")
    /\ UNCHANGED <<hooked, device, rings, left>>

LoopEnds(d) == pc[d] = "loop" /\ (left[d] = 0 \/ ring[d].avail = 0)

\* A short non-blocking call returns what it moved.
ReadReturns ==
    /\ LoopEnds("in")
    /\ left' = [left EXCEPT !["in"] = 0]
    /\ Goto("in", "idle")
    /\ UNCHANGED <<hooked, device, rings, claim>>

\* The end of write1: the output is triggered when the ring is not empty.
WriteEnds ==
    /\ LoopEnds("out")
    /\ left' = [left EXCEPT !["out"] = 0]
    /\ Goto("out", IF ring["out"].avail < Size THEN "trigger" ELSE "idle")
    /\ UNCHANGED <<hooked, device, rings, claim>>

\* snd_mpu401_uart_output_trigger(substream, 1)
WriteTriggers ==
    /\ pc["out"] = "trigger"
    /\ mode' = mode \cup {"out_trigger"}
    /\ LET k == Moved IN
       /\ ring' = [ring EXCEPT !["out"] = Sent(k)]
       /\ OutputWrite(k)
    /\ Goto("out", "idle")
    /\ UNCHANGED <<hooked, uart, rx, live, left, claim>>

-----------------------------------------------------------------------------
(* Close: close_substream.  The drain of the output does not wait on this  *)
(* port (interruptible_sleep_on_timeout returns at once); interrupts come  *)
(* between the steps.                                                      *)

Close(d) ==
    /\ pc[d] = "idle"
    /\ Goto(d, "drain")
    /\ UNCHANGED <<hooked, device, rings, left, claim>>

\* The trigger callback with up = 0.
CloseTrigger(d) ==
    /\ pc[d] = "drain"
    /\ mode' = mode \ {IF d = "out" THEN "out_trigger" ELSE "in_trigger"}
    /\ Goto(d, IF d = "out" THEN "drop" ELSE "ops")
    /\ UNCHANGED <<hooked, uart, tx, rx, rings, left, claim>>

\* Slip: the runtime is freed before the driver is closed.
CloseDrop_Frees ==
    /\ pc["out"] = "drop"
    /\ ring' = [ring EXCEPT !["out"] = ResetPtrs(@, "out")]
    /\ next' = [next EXCEPT !["out"] = 0]
    /\ live' = [live EXCEPT !["out"] = FALSE]
    /\ Goto("out", "ops")
    /\ UNCHANGED <<hooked, device, left, claim>>

\* The end of snd_rawmidi_drop_output: what was pending is lost.
CloseDrop ==
    /\ pc["out"] = "drop"
    /\ ring' = [ring EXCEPT !["out"] = ResetPtrs(@, "out")]
    /\ next' = [next EXCEPT !["out"] = 0]
    /\ Goto("out", "ops")
    /\ UNCHANGED <<hooked, device, live, left, claim>>

\* Slip: the device is reset without a look at the other direction.
CloseOps_Resets(d) ==
    /\ pc[d] = "ops"
    /\ mode' = mode \ {d}
    /\ uart' = FALSE
    /\ Goto(d, "free")
    /\ UNCHANGED <<hooked, tx, rx, rings, left, claim>>

\* snd_mpu401_uart_input_close and _output_close
CloseOps(d) ==
    /\ pc[d] = "ops"
    /\ mode' = mode \ {d}
    /\ uart' = (uart /\ Other(d) \in mode)
    /\ Goto(d, "free")
    /\ UNCHANGED <<hooked, tx, rx, rings, left, claim>>

\* snd_rawmidi_runtime_free and opened = 0; what the memory held is gone.
CloseFree(d) ==
    /\ pc[d] = "free"
    /\ live' = [live EXCEPT ![d] = FALSE]
    /\ ring' = [ring EXCEPT ![d] = NewRing(d)]
    /\ next' = [next EXCEPT ![d] = 0]
    /\ Goto(d, "closed")
    /\ UNCHANGED <<hooked, device, left, claim>>

-----------------------------------------------------------------------------
ThreadStep(d) ==
    \/ Claim(d) \/ CloseTrigger(d) \/ CloseOps(d) \/ CloseFree(d)
    \/ d = "in" /\ (ReadFlush \/ ReadAdvance \/ CopyOut \/ ReadReturns)
    \/ d = "out" /\ (CopyIn \/ WriteEnds \/ WriteTriggers \/ CloseDrop)

Next ==
    \/ Interrupt \/ Transmit \/ Arrive
    \/ Write \/ Read
    \/ \E d \in Dirs : Open(d) \/ OpenFails(d) \/ Close(d) \/ ThreadStep(d)

\* The wire keeps its rate, an interrupt that is due is taken, and a call
\* that runs goes on; nobody has to call, and nothing has to arrive.
Fairness ==
    /\ WF_vars(Transmit) /\ WF_vars(Interrupt)
    /\ \A d \in Dirs : WF_vars(ThreadStep(d))

Spec == Init /\ [][Next]_vars /\ Fairness

-----------------------------------------------------------------------------
Ring == [buf : [0 .. Size - 1 -> Numbers \cup {Zero}],
         appl : 0 .. Size - 1, hw : 0 .. Size - 1, avail : 0 .. Size]

\* Type correctness; avail of both rings stays within the buffer, as the
\* snd_BUG_ON of __snd_rawmidi_transmit_ack asks.
TypeOK ==
    /\ hooked \in BOOLEAN /\ mode \subseteq Bits /\ uart \in BOOLEAN
    /\ tx \in 0 .. TxFifo /\ rx \in 0 .. RxFifo
    /\ live \in [Dirs -> BOOLEAN]
    /\ ring \in [Dirs -> Ring]
    /\ next \in [Dirs -> Numbers]
    /\ pc \in [Dirs -> {"closed", "idle", "loop", "copy", "flush", "advance",
                        "trigger", "drain", "drop", "ops", "free"}]
    /\ left \in [Dirs -> Nat]
    /\ claim \in [Dirs -> [at : 0 .. Size - 1, n : 0 .. Size]]

\* Whenever no call has a part of the output ring claimed, the pending bytes
\* are exactly the written ones in order; while a part is claimed, all but
\* that part.  Interrupts send from the ring while a write runs.
OutputIntact ==
    live["out"] =>
        \A i \in 0 .. Filled("out") - 1 :
            Cell("out", i) \notin Claimed("out")
                => ring["out"].buf[Cell("out", i)] = Number("out", i)

\* The input ring always holds the accepted bytes in order.  A reader loses
\* a byte it has claimed only when interrupts fill the rest of the ring
\* before the copy: exactly the oldest claimed bytes that were lapped.
InputIntact ==
    live["in"] =>
        /\ \A i \in 0 .. Filled("in") - 1 :
              ring["in"].buf[Cell("in", i)] = Number("in", i)
        /\ \A i \in 0 .. claim["in"].n - 1 :
              i >= Filled("in") + claim["in"].n - Size
                => ring["in"].buf[ClaimCell("in", i)]
                       = (next["in"] - claim["in"].n + i) % (2 * Size)

\* A handler that finds the bit of a direction set uses its substream and its
\* runtime: they exist.  A trigger bit never outlives its direction: the
\* first read after an open flushes the receiver, and no handler sends for a
\* closed file.
ClosedIsQuiet ==
    /\ TypeOK
    /\ \A d \in Dirs : d \in mode => live[d]
    /\ "in_trigger" \in mode => "in" \in mode
    /\ "out_trigger" \in mode => "out" \in mode

\* While a direction is open the device is in UART mode, whatever the other
\* direction does.
UartWhileOpen == mode \cap Dirs # {} => uart

\* A call returns, however the interrupts move the ring under it.
CallsReturn ==
    \A d \in Dirs : pc[d] \notin {"idle", "closed"} ~> pc[d] \in {"idle", "closed"}

\* A byte that waits in the output ring is sent or dropped by a close: the
\* "try again later" of snd_mpu401_uart_output_write.
OutputProceeds ==
    \A p \in 0 .. Size - 1 :
        (pc["out"] = "idle" /\ Filled("out") > 0 /\ ring["out"].hw = p)
            ~> (pc["out"] = "closed" \/ ring["out"].hw # p)
=============================================================================
