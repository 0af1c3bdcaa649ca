------------------------------- MODULE Waits -------------------------------
(***************************************************************************)
(* The waits of lib32: a client's thread waits in WaitForPCMInterrupt for  *)
(* the next interrupt of a substream, which snd_pcm_period_elapsed notes   *)
(* in the table substream_int, or in WaitForControlChange for a change of  *)
(* a control of a card.  A thread keeps the processor in ring 0 until it   *)
(* blocks, for a millisecond, in KernBlock; interrupts come between any    *)
(* two of its steps.                                                       *)
(***************************************************************************)
EXTENDS Integers

CONSTANTS
    Waiters,       \* threads of the clients
    Substreams,
    Cards,
    Timeouts,      \* the timeouts they ask for, in milliseconds
    TableSize,     \* entries of substream_int, 8*256 in the code
    MaxInterrupts, \* bound on the interrupts of a substream
    None           \* NULL

ASSUME WaitsAssumption ==
    /\ TableSize \in Nat /\ MaxInterrupts \in Nat /\ Timeouts \subseteq Nat
    /\ None \notin Waiters \cup Substreams \cup Cards
    /\ Substreams \cap Cards = {}

VARIABLES
    substream_int,       \* the interrupted substreams
    control_id_changed,  \* 0 or the control of card_id_changed
    card_id_changed,
    unlock_all,
    wait,                \* the wait of each thread
    running,             \* the thread that is in ring 0
    interrupts, wakes,   \* how often a substream interrupted and woke a wait
    pending              \* what interrupted or changed since the last wake for it

vars == <<substream_int, control_id_changed, card_id_changed, unlock_all, wait,
          running, interrupts, wakes, pending>>

globals == <<substream_int, control_id_changed, card_id_changed, unlock_all,
             interrupts, wakes, pending>>

Slots == 0 .. TableSize - 1

(* on: what is waited for; i: the slot looked at; j: milliseconds waited;  *)
(* due: the event was pending when the thread began to look for it.        *)
NoWait == [pc |-> "idle", on |-> None, i |-> 0, j |-> 0, timeout |-> 0, due |-> FALSE]

Init ==
    /\ substream_int = [k \in Slots |-> None]
    /\ control_id_changed = 0 /\ card_id_changed = None
    /\ unlock_all = FALSE
    /\ wait = [w \in Waiters |-> NoWait]
    /\ running = None
    /\ interrupts = [s \in Substreams |-> 0]
    /\ wakes = [s \in Substreams |-> 0]
    /\ pending = {}

-----------------------------------------------------------------------------
StopSlot_LastOnly(s, k) == k = TableSize - 1 /\ substream_int[k] \in {None, s}

(* The first slot that is free or has the substream already takes the      *)
(* note; a full table drops it.                                            *)
StopSlot(s, k) ==
    /\ substream_int[k] \in {None, s}
    /\ \A l \in Slots : l < k => substream_int[l] \notin {None, s}

uniaud_set_interrupted_substream(s) ==
    /\ interrupts[s] < MaxInterrupts
    /\ substream_int' = [k \in Slots |-> IF StopSlot(s, k) THEN s ELSE substream_int[k]]
    /\ interrupts' = [interrupts EXCEPT ![s] = @ + 1]
    /\ pending' = pending \cup {s}
    /\ UNCHANGED <<control_id_changed, card_id_changed, unlock_all, wait, running, wakes>>

(* The event goes to the readers of the control device; nothing of lib32   *)
(* is told.                                                                *)
snd_ctl_notify(c) ==
    /\ pending' = pending \cup {c}
    /\ UNCHANGED <<substream_int, control_id_changed, card_id_changed, unlock_all,
                   wait, running, interrupts, wakes>>

(* IOCTL_OSS32_PCM_CLOSE_ALL with its parameter set.                       *)
UnlockAll ==
    /\ running = None
    /\ unlock_all' = TRUE
    /\ UNCHANGED <<substream_int, control_id_changed, card_id_changed, wait, running,
                   interrupts, wakes, pending>>

-----------------------------------------------------------------------------
Look(w, wt) ==
    /\ wait' = [wait EXCEPT ![w] = [wt EXCEPT !.pc = "look", !.i = 0,
                                              !.due = wt.on \in pending]]
    /\ running' = w

Return(w) ==
    /\ wait' = [wait EXCEPT ![w] = NoWait]
    /\ running' = None

Block_Uncounted(w) ==
    /\ wait' = [wait EXCEPT ![w].pc = "blocked"]
    /\ running' = None

Block(w) ==
    /\ wait' = [wait EXCEPT ![w].pc = "blocked", ![w].j = @ + 1]
    /\ running' = None

(* A call; one on a playback stream that is not running returns at once    *)
(* with EBADFD and changes nothing.                                        *)
Call(w, what, t) ==
    /\ running = None /\ wait[w].pc = "idle"
    /\ Look(w, [NoWait EXCEPT !.on = what, !.timeout = t])
    /\ UNCHANGED globals

(* One slot of the table.                                                  *)
Scan(w) ==
    /\ wait[w].pc = "look" /\ wait[w].on \in Substreams /\ wait[w].i < TableSize
    /\ wait' = IF substream_int[wait[w].i] = wait[w].on
                 THEN [wait EXCEPT ![w].pc = "found"]
                 ELSE [wait EXCEPT ![w].i = @ + 1]
    /\ UNCHANGED <<running, globals>>

Found_KeepsSlot(w) ==
    /\ wait[w].pc = "found"
    /\ wakes' = [wakes EXCEPT ![wait[w].on] = @ + 1]
    /\ pending' = pending \ {wait[w].on}
    /\ Return(w)
    /\ UNCHANGED <<substream_int, control_id_changed, card_id_changed, unlock_all, interrupts>>

Found(w) ==
    /\ wait[w].pc = "found"
    /\ substream_int' = [substream_int EXCEPT ![wait[w].i] = None]
    /\ wakes' = [wakes EXCEPT ![wait[w].on] = @ + 1]
    /\ pending' = pending \ {wait[w].on}
    /\ Return(w)
    /\ UNCHANGED <<control_id_changed, card_id_changed, unlock_all, interrupts>>

(* The end of the table: the wait ends when more than timeout milliseconds *)
(* have gone by.                                                           *)
ScanEnds(w) ==
    /\ wait[w].pc = "look" /\ wait[w].on \in Substreams /\ wait[w].i = TableSize
    /\ IF wait[w].j > wait[w].timeout THEN Return(w) ELSE Block(w)
    /\ UNCHANGED globals

ControlChanged(c) == control_id_changed # 0 /\ card_id_changed = c

(* A turn of the loop of WaitForControlChange, which counts before it      *)
(* compares.                                                               *)
LookForControl(w) ==
    /\ wait[w].pc = "look" /\ wait[w].on \in Cards
    /\ IF ControlChanged(wait[w].on) \/ wait[w].j + 1 > wait[w].timeout
         THEN Return(w)
         ELSE Block(w)
    /\ control_id_changed' = IF ControlChanged(wait[w].on) THEN 0 ELSE control_id_changed
    /\ UNCHANGED <<substream_int, card_id_changed, unlock_all, interrupts, wakes, pending>>

(* The millisecond of KernBlock is over; one thread takes unlock_all.      *)
Wake(w) ==
    /\ running = None /\ wait[w].pc = "blocked"
    /\ IF unlock_all THEN Return(w) ELSE Look(w, wait[w])
    /\ unlock_all' = FALSE
    /\ UNCHANGED <<substream_int, control_id_changed, card_id_changed,
                   interrupts, wakes, pending>>

Runs(w) == Scan(w) \/ Found(w) \/ ScanEnds(w) \/ LookForControl(w)

Next ==
    \/ \E s \in Substreams : uniaud_set_interrupted_substream(s)
    \/ \E c \in Cards : snd_ctl_notify(c)
    \/ UnlockAll
    \/ \E w \in Waiters :
          \/ \E what \in Substreams \cup Cards : \E t \in Timeouts : Call(w, what, t)
          \/ Runs(w)
          \/ Wake(w)

(* A thread in ring 0 runs on; one whose millisecond is over gets the      *)
(* processor although others call and wake as well.                        *)
Fairness == \A w \in Waiters : WF_vars(Runs(w)) /\ SF_vars(Wake(w))

Spec == Init /\ [][Next]_vars /\ Fairness

-----------------------------------------------------------------------------
(* The type invariant; a wait counts at most one millisecond beyond its    *)
(* timeout.                                                                *)
TypeOK ==
    /\ substream_int \in [Slots -> Substreams \cup {None}]
    /\ control_id_changed \in Nat /\ card_id_changed \in Cards \cup {None}
    /\ unlock_all \in BOOLEAN
    /\ wait \in [Waiters -> [pc : {"idle", "look", "found", "blocked"},
                             on : Substreams \cup Cards \cup {None},
                             i : 0 .. TableSize, j : Nat, timeout : Timeouts \cup {0},
                             due : BOOLEAN]]
    /\ \A w \in Waiters : wait[w].j <= wait[w].timeout + 1
    /\ running \in Waiters \cup {None}
    /\ interrupts \in [Substreams -> 0 .. MaxInterrupts]
    /\ wakes \in [Substreams -> Nat]
    /\ pending \subseteq Substreams \cup Cards

(* An interrupt wakes one wait at most, also when it comes between the     *)
(* comparison and the clearing of its slot, and whatever holes the table   *)
(* has.                                                                    *)
OneWakePerInterrupt == \A s \in Substreams : wakes[s] <= interrupts[s]

(* The wait ends with ETIME: from a look that did not find its event.      *)
TimedOut(w) == /\ wait[w].pc = "look" /\ wait'[w].pc = "idle"
               /\ ~ControlChanged(wait[w].on)

(* WaitForPCMInterrupt does not time out when an interrupt of its          *)
(* substream was pending before its last look at the table.                *)
NoMissedInterrupt ==
    [][\A w \in Waiters : TimedOut(w) /\ wait[w].on \in Substreams => ~wait[w].due]_vars

(* Every wait ends: by its event, by its timeout or by unlock_all.         *)
WaitsReturn == \A w \in Waiters : wait[w].pc # "idle" ~> wait[w].pc = "idle"
=============================================================================
