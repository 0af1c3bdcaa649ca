--------------------------- MODULE Waits_proofs ---------------------------
(***************************************************************************)
(* An interrupt wakes one wait at most, for any number of threads and      *)
(* substreams and any size of the table.  The invariant counts: every wake *)
(* that was given and every note that is in the table, duplicates          *)
(* included, was paid for by an interrupt of its own.  That a thread which *)
(* found its slot still finds its note there needs that one thread at a    *)
(* time is in ring 0 and that an interrupt never overwrites a note.        *)
(*                                                                         *)
(* No wait times out over an interrupt that was pending when its last scan *)
(* began, as long as every interrupt finds a slot for its note: a full     *)
(* table drops the note, and the wait then does time out.  The invariant   *)
(* says that a note of the substream lies ahead of the scanning thread.    *)
(***************************************************************************)
EXTENDS Waits, FiniteSetTheorems, WellFoundedInduction, TLAPS

(* The slots of substream_int that name the substream s.                   *)
Noted(s) == {k \in Slots : substream_int[k] = s}

(* Only the running thread is between two blocks.                          *)
OneThread ==
    \A w \in Waiters : wait[w].pc \in {"look", "found"} => running = w

(* A thread waits for something, and its note stays where it found it.     *)
FoundSlot ==
    \A w \in Waiters :
        /\ wait[w].pc # "idle" => wait[w].on \in Substreams \cup Cards
        /\ wait[w].pc = "found" => /\ wait[w].on \in Substreams
                                   /\ wait[w].i \in Slots
                                   /\ substream_int[wait[w].i] = wait[w].on

(* Every wake and every note of a substream has an interrupt of its own.   *)
Paid == \A s \in Substreams : wakes[s] + Cardinality(Noted(s)) <= interrupts[s]

(* The inductive invariant.                                                *)
IInv == TypeOK /\ OneThread /\ FoundSlot /\ Paid

WaitType == [pc : {"idle", "look", "found", "blocked"},
             on : Substreams \cup Cards \cup {None},
             i : 0 .. TableSize, j : Nat, timeout : Timeouts \cup {0},
             due : BOOLEAN]

(* The slots that name a substream can be counted.                         *)
LEMMA NotedFinite ==
  ASSUME NEW s PROVE IsFiniteSet(Noted(s)) /\ Cardinality(Noted(s)) \in Nat
<1>1. IsFiniteSet(Slots)
  BY WaitsAssumption, FS_Interval DEF Slots
<1>2. Noted(s) \subseteq Slots
  BY DEF Noted
<1> QED
  BY <1>1, <1>2, FS_Subset, FS_CardinalityType

(* The empty table and idle threads satisfy the invariant.                 *)
LEMMA InitIInv == Init => IInv
<1> SUFFICES ASSUME Init PROVE IInv
  OBVIOUS
<1> USE WaitsAssumption
<1>1. NoWait \in WaitType
  BY DEF NoWait, WaitType
<1>2. TypeOK
  <2>1. wait \in [Waiters -> WaitType]
    BY <1>1 DEF Init
  <2>2. \A w \in Waiters : wait[w].j <= wait[w].timeout + 1
    <3> SUFFICES ASSUME NEW w \in Waiters PROVE wait[w].j <= wait[w].timeout + 1
      OBVIOUS
    <3>1. wait[w] = NoWait
      BY DEF Init
    <3>2. wait[w].j = 0 /\ wait[w].timeout = 0
      BY <3>1 DEF NoWait
    <3> QED
      BY <3>2
  <2>3. /\ substream_int \in [Slots -> Substreams \cup {None}]
        /\ control_id_changed \in Nat /\ card_id_changed \in Cards \cup {None}
        /\ unlock_all \in BOOLEAN /\ running \in Waiters \cup {None}
        /\ pending \subseteq Substreams \cup Cards
    BY DEF Init
  <2>4. /\ interrupts \in [Substreams -> 0 .. MaxInterrupts]
        /\ wakes \in [Substreams -> Nat]
    BY DEF Init
  <2> QED
    BY <2>1, <2>2, <2>3, <2>4 DEF TypeOK, WaitType
<1>3. OneThread /\ FoundSlot
  BY DEF Init, OneThread, FoundSlot, NoWait
<1>4. Paid
  <2> SUFFICES ASSUME NEW s \in Substreams
               PROVE  wakes[s] + Cardinality(Noted(s)) <= interrupts[s]
    BY DEF Paid
  <2>1. Noted(s) = {}
    BY DEF Noted, Init
  <2> QED
    BY <2>1, FS_EmptySet DEF Init
<1> QED
  BY <1>2, <1>3, <1>4 DEF IInv

(* A note goes to one slot at most and replaces nothing but itself.        *)
LEMMA NoteOneSlot ==
  ASSUME TypeOK, NEW s \in Substreams, uniaud_set_interrupted_substream(s)
  PROVE  /\ substream_int' \in [Slots -> Substreams \cup {None}]
         /\ \A k \in Slots : substream_int[k] # None => substream_int'[k] = substream_int[k]
         /\ \A r \in Substreams : r # s => Noted(r)' = Noted(r)
         /\ Cardinality(Noted(s)') <= Cardinality(Noted(s)) + 1
<1> USE WaitsAssumption
<1>1. /\ substream_int' = [k \in Slots |-> IF StopSlot(s, k) THEN s ELSE substream_int[k]]
      /\ substream_int \in [Slots -> Substreams \cup {None}]
  BY DEF uniaud_set_interrupted_substream, TypeOK
<1>2. \A k \in Slots : StopSlot(s, k) => substream_int[k] \in {None, s}
  BY DEF StopSlot
<1>3. \A k, l \in Slots : StopSlot(s, k) /\ StopSlot(s, l) => k = l
  BY DEF StopSlot, Slots
<1> HIDE DEF StopSlot
<1>4. \A r \in Substreams : r # s => Noted(r)' = Noted(r)
  BY <1>1, <1>2 DEF Noted
<1>5. Cardinality(Noted(s)') <= Cardinality(Noted(s)) + 1
  <2>1. CASE \E k \in Slots : StopSlot(s, k)
    <3>1. PICK k \in Slots : StopSlot(s, k)
      BY <2>1
    <3>2. Noted(s)' = Noted(s) \cup {k}
      BY <3>1, <1>1, <1>3 DEF Noted
    <3>3. Cardinality(Noted(s)) \in Nat /\ IsFiniteSet(Noted(s))
      BY NotedFinite
    <3>4. Cardinality(Noted(s) \cup {k}) =
             IF k \in Noted(s) THEN Cardinality(Noted(s)) ELSE Cardinality(Noted(s)) + 1
      BY <3>3, FS_AddElement
    <3> HIDE DEF Noted
    <3> QED
      BY <3>2, <3>3, <3>4
  <2>2. CASE ~\E k \in Slots : StopSlot(s, k)
    <3>1. Noted(s)' = Noted(s)
      BY <2>2, <1>1 DEF Noted
    <3> QED
      BY <3>1, NotedFinite
  <2> QED
    BY <2>1, <2>2
<1> QED
  BY <1>1, <1>2, <1>4, <1>5

(* The wait of one thread changes: the facts of the others stay.           *)
LEMMA OneWaitChanges ==
  ASSUME IInv, NEW w \in Waiters, NEW wt \in WaitType, wait' = [wait EXCEPT ![w] = wt],
         wt.j <= wt.timeout + 1
  PROVE  /\ wait' \in [Waiters -> WaitType]
         /\ wait'[w] = wt
         /\ \A v \in Waiters : v # w => wait'[v] = wait[v]
         /\ \A v \in Waiters : wait'[v].j <= wait'[v].timeout + 1
<1>1. wait \in [Waiters -> WaitType] /\ \A v \in Waiters : wait[v].j <= wait[v].timeout + 1
  BY DEF IInv, TypeOK, WaitType
<1> QED
  BY <1>1

(* uniaud_set_interrupted_substream adds one note at most and one          *)
(* interrupt, at whatever step of a scan it comes.                         *)
LEMMA InterruptIInv ==
  ASSUME IInv, NEW s \in Substreams, uniaud_set_interrupted_substream(s)
  PROVE  IInv'
<1>1. /\ interrupts' = [interrupts EXCEPT ![s] = @ + 1]
      /\ interrupts[s] < MaxInterrupts
      /\ interrupts \in [Substreams -> 0 .. MaxInterrupts]
      /\ wakes \in [Substreams -> Nat]
      /\ UNCHANGED <<wait, running, wakes>>
  BY DEF uniaud_set_interrupted_substream, IInv, TypeOK
<1>t. TypeOK'
  <2>1. interrupts' \in [Substreams -> 0 .. MaxInterrupts]
    BY <1>1, WaitsAssumption
  <2> QED
    BY <2>1, NoteOneSlot DEF uniaud_set_interrupted_substream, IInv, TypeOK
<1>o. OneThread'
  BY <1>1 DEF IInv, OneThread
<1>f. FoundSlot'
  <2>1. \A v \in Waiters : wait[v].pc = "found" =>
           substream_int'[wait[v].i] = substream_int[wait[v].i]
    BY NoteOneSlot, WaitsAssumption DEF IInv, FoundSlot
  <2> QED
    BY <1>1, <2>1 DEF IInv, FoundSlot
<1>p. Paid'
  <2> SUFFICES ASSUME NEW r \in Substreams
               PROVE  wakes'[r] + Cardinality(Noted(r)') <= interrupts'[r]
    BY DEF Paid
  <2>0. wakes[r] + Cardinality(Noted(r)) <= interrupts[r]
    BY DEF IInv, Paid
  <2>1. CASE r = s
    <3>1. Cardinality(Noted(r)') <= Cardinality(Noted(r)) + 1
      BY <2>1, NoteOneSlot DEF IInv
    <3>2. Cardinality(Noted(r)') \in Nat
      <4>1. IsFiniteSet(Slots)
        BY WaitsAssumption, FS_Interval DEF Slots
      <4>2. Noted(r)' \subseteq Slots
        BY DEF Noted
      <4> QED
        BY <4>1, <4>2, FS_Subset, FS_CardinalityType
    <3>3. wakes'[r] = wakes[r] /\ interrupts'[r] = interrupts[r] + 1
      BY <2>1, <1>1
    <3>4. wakes[r] \in Nat /\ interrupts[r] \in Nat /\ Cardinality(Noted(r)) \in Nat
      BY <1>1, NotedFinite
    <3> HIDE DEF Noted
    <3> QED
      BY <2>0, <3>1, <3>2, <3>3, <3>4
  <2>2. CASE r # s
    BY <2>2, <2>0, <1>1, NoteOneSlot DEF IInv
  <2> QED
    BY <2>1, <2>2
<1> QED
  BY <1>t, <1>o, <1>f, <1>p DEF IInv

(* A step of the thread in ring 0, or of one that enters it, that leaves   *)
(* the table and the counters alone.                                       *)
LEMMA ThreadIInv ==
  ASSUME IInv, NEW w \in Waiters, NEW wt \in WaitType, wait' = [wait EXCEPT ![w] = wt],
         wt.j <= wt.timeout + 1,
         wt.pc # "idle" => wt.on \in Substreams \cup Cards,
         wt.pc = "found" => /\ wt.on \in Substreams /\ wt.i \in Slots
                            /\ substream_int[wt.i] = wt.on,
         running = None \/ wait[w].pc \in {"look", "found"},
         running' \in {w, None}, wt.pc \in {"look", "found"} => running' = w,
         UNCHANGED <<substream_int, interrupts, wakes, pending, card_id_changed>>,
         unlock_all' \in BOOLEAN, control_id_changed' \in Nat
  PROVE  IInv'
<1>1. /\ wait' \in [Waiters -> WaitType]
      /\ wait'[w] = wt
      /\ \A v \in Waiters : v # w => wait'[v] = wait[v]
      /\ \A v \in Waiters : wait'[v].j <= wait'[v].timeout + 1
  BY OneWaitChanges
<1>2. \A v \in Waiters : v # w => wait[v].pc \notin {"look", "found"}
  BY WaitsAssumption DEF IInv, OneThread
<1>t. TypeOK'
  BY <1>1 DEF IInv, TypeOK, WaitType
<1>o. OneThread'
  BY <1>1, <1>2 DEF OneThread
<1>f. FoundSlot'
  <2> SUFFICES ASSUME NEW v \in Waiters
               PROVE  /\ wait'[v].pc # "idle" => wait'[v].on \in Substreams \cup Cards
                      /\ wait'[v].pc = "found" => /\ wait'[v].on \in Substreams
                                                  /\ wait'[v].i \in Slots
                                                  /\ substream_int'[wait'[v].i] = wait'[v].on
    BY DEF FoundSlot, Slots
  <2>1. CASE v = w
    BY <2>1, <1>1
  <2>2. CASE v # w
    BY <2>2, <1>1, <1>2 DEF IInv, FoundSlot
  <2> QED
    BY <2>1, <2>2
<1>p. Paid'
  BY DEF IInv, Paid, Noted
<1> QED
  BY <1>t, <1>o, <1>f, <1>p DEF IInv

(* A thread that does not wait has a well-typed record.                    *)
LEMMA NoWaitType == NoWait \in WaitType /\ NoWait.j <= NoWait.timeout + 1
<1>1. NoWait.j = 0 /\ NoWait.timeout = 0
  BY DEF NoWait
<1>2. NoWait \in WaitType
  BY WaitsAssumption DEF NoWait, WaitType
<1> QED
  BY <1>1, <1>2

(* A wait ends without having found a note.                                *)
LEMMA ReturnIInv ==
  ASSUME IInv, NEW w \in Waiters, Return(w), running = None \/ wait[w].pc \in {"look", "found"},
         UNCHANGED <<substream_int, interrupts, wakes, pending, card_id_changed>>,
         unlock_all' \in BOOLEAN, control_id_changed' \in Nat
  PROVE  IInv'
<1>1. NoWait.pc = "idle"
  BY DEF NoWait
<1>2. wait' = [wait EXCEPT ![w] = NoWait] /\ running' = None
  BY DEF Return
<1> QED
  BY <1>1, <1>2, NoWaitType, ThreadIInv

(* A thread begins to look, when it calls or when it wakes.                *)
LEMMA LookIInv ==
  ASSUME IInv, NEW w \in Waiters, NEW wt \in WaitType, wt.j <= wt.timeout + 1,
         wt.on \in Substreams \cup Cards, Look(w, wt), running = None,
         UNCHANGED <<substream_int, interrupts, wakes, pending, card_id_changed>>,
         unlock_all' \in BOOLEAN, control_id_changed' \in Nat
  PROVE  IInv'
<1> DEFINE nt == [wt EXCEPT !.pc = "look", !.i = 0, !.due = wt.on \in pending]
<1>1. /\ nt \in WaitType /\ nt.pc = "look" /\ nt.on = wt.on
      /\ nt.j = wt.j /\ nt.timeout = wt.timeout
  <2> DEFINE d == wt.on \in pending
  <2>1. d \in BOOLEAN /\ 0 \in 0 .. TableSize
    BY WaitsAssumption
  <2> HIDE DEF d
  <2>2. [wt EXCEPT !.pc = "look", !.i = 0, !.due = d] \in WaitType
    BY <2>1 DEF WaitType
  <2> QED
    BY <2>2 DEF d, WaitType
<1>2. wait' = [wait EXCEPT ![w] = nt] /\ running' = w
  BY DEF Look
<1> HIDE DEF nt
<1> QED
  BY <1>1, <1>2, ThreadIInv

(* A thread that blocks has not counted beyond its timeout, and leaves     *)
(* ring 0.                                                                 *)
LEMMA BlockIInv ==
  ASSUME IInv, NEW w \in Waiters, wait[w].pc = "look", wait[w].j <= wait[w].timeout,
         Block(w), UNCHANGED <<substream_int, interrupts, wakes, pending, card_id_changed>>,
         unlock_all' \in BOOLEAN, control_id_changed' \in Nat
  PROVE  IInv'
<1> DEFINE nt == [wait[w] EXCEPT !.pc = "blocked", !.j = @ + 1]
<1>0. wait \in [Waiters -> WaitType] /\ wait[w].on \in Substreams \cup Cards
  BY DEF IInv, TypeOK, WaitType, FoundSlot
<1>1. wait[w] \in WaitType /\ wait[w].j \in Nat /\ wait[w].timeout \in Nat
  <2>1. wait[w] \in WaitType
    BY <1>0
  <2>2. wait[w].j \in Nat /\ wait[w].timeout \in Timeouts \cup {0}
    BY <2>1 DEF WaitType
  <2>3. \A t \in Timeouts \cup {0} : t \in Nat
    BY WaitsAssumption
  <2> QED
    BY <2>1, <2>2, <2>3
<1>2. /\ nt \in WaitType /\ nt.pc = "blocked" /\ nt.on = wait[w].on
      /\ nt.j = wait[w].j + 1 /\ nt.timeout = wait[w].timeout
  <2>1. ASSUME NEW wt \in WaitType
        PROVE  [wt EXCEPT !.pc = "blocked", !.j = @ + 1] \in WaitType
    <3> DEFINE n == wt.j + 1
    <3>1. n \in Nat
      BY DEF WaitType
    <3> HIDE DEF n
    <3>2. [wt EXCEPT !.pc = "blocked", !.j = n] \in WaitType
      BY <3>1 DEF WaitType
    <3> QED
      BY <3>2 DEF n
  <2> QED
    BY <1>1, <2>1 DEF WaitType
<1>3. wait' = [wait EXCEPT ![w] = nt] /\ running' = None
  BY <1>0 DEF Block
<1> HIDE DEF nt
<1>4. nt.j <= nt.timeout + 1
  BY <1>1, <1>2
<1> QED
  BY <1>0, <1>2, <1>3, <1>4, ThreadIInv

(* A step of the scan stays in the table, and what it finds is a note.     *)
LEMMA ScanIInv ==
  ASSUME IInv, NEW w \in Waiters, Scan(w)
  PROVE  IInv'
<1> DEFINE nt == IF substream_int[wait[w].i] = wait[w].on
                   THEN [wait[w] EXCEPT !.pc = "found"]
                   ELSE [wait[w] EXCEPT !.i = @ + 1]
<1>0. /\ wait[w] \in WaitType /\ wait[w].pc = "look" /\ wait[w].on \in Substreams
      /\ wait[w].i < TableSize /\ wait[w].i \in Nat /\ wait[w].j <= wait[w].timeout + 1
  BY WaitsAssumption DEF IInv, TypeOK, WaitType, Scan
<1>1. wait[w].i \in Slots /\ wait[w].i + 1 \in 0 .. TableSize
  BY <1>0, WaitsAssumption DEF Slots
<1>2. /\ nt \in WaitType /\ nt.pc \in {"look", "found"} /\ nt.on = wait[w].on
      /\ nt.j = wait[w].j /\ nt.timeout = wait[w].timeout
      /\ nt.pc = "found" => nt.i = wait[w].i /\ substream_int[nt.i] = nt.on
  BY <1>0, <1>1 DEF WaitType
<1>3. wait' = [wait EXCEPT ![w] = nt] /\ UNCHANGED <<running, globals>>
  <2>1. wait' = [wait EXCEPT ![w] = nt]
    BY DEF Scan
  <2> QED
    BY <2>1 DEF Scan
<1>4. running = w
  BY <1>0 DEF IInv, OneThread
<1> HIDE DEF nt
<1> QED
  BY <1>0, <1>1, <1>2, <1>3, <1>4, ThreadIInv DEF globals, IInv, TypeOK

(* The wake takes the note it is paid with.                                *)
LEMMA FoundIInv ==
  ASSUME IInv, NEW w \in Waiters, Found(w)
  PROVE  IInv'
<1> DEFINE s == wait[w].on
           k == wait[w].i
<1>0. s \in Substreams /\ k \in Slots /\ substream_int[k] = s /\ running = w
  BY DEF IInv, FoundSlot, OneThread, Found
<1>1. NoWait.pc = "idle"
  BY DEF NoWait
<1>2. /\ wait' = [wait EXCEPT ![w] = NoWait] /\ running' = None
      /\ substream_int' = [substream_int EXCEPT ![k] = None]
      /\ wakes' = [wakes EXCEPT ![s] = @ + 1]
      /\ pending' = pending \ {s}
      /\ UNCHANGED <<control_id_changed, card_id_changed, unlock_all, interrupts>>
  BY DEF Found, Return
<1>3. /\ substream_int \in [Slots -> Substreams \cup {None}]
      /\ wakes \in [Substreams -> Nat] /\ interrupts \in [Substreams -> 0 .. MaxInterrupts]
  BY DEF IInv, TypeOK
<1> HIDE DEF s, k
<1>4. /\ wait' \in [Waiters -> WaitType]
      /\ wait'[w] = NoWait
      /\ \A v \in Waiters : v # w => wait'[v] = wait[v]
      /\ \A v \in Waiters : wait'[v].j <= wait'[v].timeout + 1
  BY <1>2, NoWaitType, OneWaitChanges
<1>5. \A v \in Waiters : v # w => wait[v].pc \notin {"look", "found"}
  BY <1>0 DEF IInv, OneThread
<1>t. TypeOK'
  <2>1. substream_int' \in [Slots -> Substreams \cup {None}] /\ wakes' \in [Substreams -> Nat]
    BY <1>0, <1>2, <1>3
  <2> QED
    BY <2>1, <1>2, <1>4 DEF IInv, TypeOK, WaitType
<1>o. OneThread'
  BY <1>1, <1>4, <1>5 DEF OneThread
<1>f. FoundSlot'
  BY <1>1, <1>4, <1>5 DEF IInv, FoundSlot
<1>p. Paid'
  <2> SUFFICES ASSUME NEW r \in Substreams
               PROVE  wakes'[r] + Cardinality(Noted(r)') <= interrupts'[r]
    BY DEF Paid
  <2>0. wakes[r] + Cardinality(Noted(r)) <= interrupts[r]
    BY DEF IInv, Paid
  <2>3. Cardinality(Noted(r)) \in Nat /\ IsFiniteSet(Noted(r))
    BY NotedFinite
  <2>1. CASE r = s
    <3>1. Noted(r)' = Noted(r) \ {k} /\ k \in Noted(r)
      BY <2>1, <1>0, <1>2, <1>3, WaitsAssumption DEF Noted
    <3>2. Cardinality(Noted(r) \ {k}) = Cardinality(Noted(r)) - 1
      BY <3>1, <2>3, FS_RemoveElement
    <3>3. wakes'[r] = wakes[r] + 1 /\ wakes[r] \in Nat /\ interrupts'[r] = interrupts[r]
      BY <2>1, <1>2, <1>3
    <3>4. interrupts[r] \in Int
      BY <1>3
    <3> HIDE DEF Noted
    <3> QED
      BY <2>0, <2>3, <3>1, <3>2, <3>3, <3>4
  <2>2. CASE r # s
    <3>1. Noted(r)' = Noted(r)
      BY <2>2, <1>0, <1>2, <1>3, WaitsAssumption DEF Noted
    <3> QED
      BY <2>0, <2>2, <3>1, <1>2, <1>3
  <2> QED
    BY <2>1, <2>2
<1> QED
  BY <1>t, <1>o, <1>f, <1>p DEF IInv

(* Every step of WaitForPCMInterrupt, of WaitForControlChange and of the   *)
(* interrupt keeps the invariant.                                          *)
LEMMA NextIInv == IInv /\ [Next]_vars => IInv'
<1> SUFFICES ASSUME IInv, [Next]_vars PROVE IInv'
  OBVIOUS
<1>t. /\ unlock_all \in BOOLEAN /\ control_id_changed \in Nat
      /\ \A w \in Waiters : /\ wait[w] \in WaitType /\ wait[w].j \in Nat
                            /\ wait[w].timeout \in Nat
                            /\ wait[w].j <= wait[w].timeout + 1
  <2>1. \A w \in Waiters : wait[w] \in WaitType /\ wait[w].j <= wait[w].timeout + 1
    BY DEF IInv, TypeOK, WaitType
  <2>2. \A wt \in WaitType : wt.j \in Nat /\ wt.timeout \in Timeouts \cup {0}
    BY DEF WaitType
  <2>3. \A t \in Timeouts \cup {0} : t \in Nat
    BY WaitsAssumption
  <2> QED
    BY <2>1, <2>2, <2>3 DEF IInv, TypeOK
<1>1. ASSUME NEW s \in Substreams, uniaud_set_interrupted_substream(s) PROVE IInv'
  BY <1>1, InterruptIInv
<1>2. ASSUME NEW c \in Cards, snd_ctl_notify(c) PROVE IInv'
  BY <1>2 DEF snd_ctl_notify, IInv, TypeOK, OneThread, FoundSlot, Paid, Noted
<1>3. CASE UnlockAll
  BY <1>3 DEF UnlockAll, IInv, TypeOK, OneThread, FoundSlot, Paid, Noted
<1>4. ASSUME NEW w \in Waiters, NEW what \in Substreams \cup Cards, NEW t \in Timeouts,
             Call(w, what, t)
      PROVE  IInv'
  <2> DEFINE wt == [NoWait EXCEPT !.on = what, !.timeout = t]
  <2>1. wt \in WaitType /\ wt.on = what /\ wt.j = 0 /\ wt.timeout = t
    BY NoWaitType DEF NoWait, WaitType
  <2>2. Look(w, wt) /\ running = None /\ UNCHANGED globals
    BY <1>4 DEF Call
  <2> HIDE DEF wt
  <2>3. wt.j <= wt.timeout + 1
    BY <2>1, WaitsAssumption
  <2> QED
    BY <1>t, <2>1, <2>2, <2>3, LookIInv DEF globals
<1>5. ASSUME NEW w \in Waiters, ScanEnds(w) PROVE IInv'
  <2>1. /\ wait[w].pc = "look" /\ UNCHANGED globals
        /\ IF wait[w].j > wait[w].timeout THEN Return(w) ELSE Block(w)
    BY <1>5 DEF ScanEnds
  <2>2. CASE wait[w].j > wait[w].timeout
    BY <1>t, <2>1, <2>2, ReturnIInv DEF globals
  <2>3. CASE ~(wait[w].j > wait[w].timeout)
    <3>1. wait[w].j <= wait[w].timeout
      BY <1>t, <2>3
    <3> QED
      BY <1>t, <2>1, <2>3, <3>1, BlockIInv DEF globals
  <2> QED
    BY <2>2, <2>3
<1>6. ASSUME NEW w \in Waiters, LookForControl(w) PROVE IInv'
  <2>1. /\ wait[w].pc = "look" /\ control_id_changed' \in Nat
        /\ UNCHANGED <<substream_int, interrupts, wakes, pending, card_id_changed, unlock_all>>
    BY <1>6, <1>t DEF LookForControl
  <2>2. \/ Return(w)
        \/ Block(w) /\ ~(wait[w].j + 1 > wait[w].timeout)
    BY <1>6 DEF LookForControl
  <2>3. CASE Return(w)
    BY <1>t, <2>1, <2>3, ReturnIInv
  <2>4. CASE Block(w) /\ ~(wait[w].j + 1 > wait[w].timeout)
    <3>1. wait[w].j <= wait[w].timeout
      BY <1>t, <2>4
    <3> QED
      BY <1>t, <2>1, <2>4, <3>1, BlockIInv
  <2> QED
    BY <2>2, <2>3, <2>4
<1>7. ASSUME NEW w \in Waiters, Wake(w) PROVE IInv'
  <2>1. /\ running = None /\ wait[w].pc = "blocked" /\ unlock_all' \in BOOLEAN
        /\ UNCHANGED <<substream_int, interrupts, wakes, pending, card_id_changed,
                       control_id_changed>>
        /\ Return(w) \/ Look(w, wait[w])
    BY <1>7 DEF Wake
  <2>2. wait[w].on \in Substreams \cup Cards
    BY <2>1 DEF IInv, FoundSlot
  <2>3. CASE Return(w)
    BY <1>t, <2>1, <2>3, ReturnIInv
  <2>4. CASE Look(w, wait[w])
    BY <1>t, <2>1, <2>2, <2>4, LookIInv
  <2> QED
    BY <2>1, <2>3, <2>4
<1>8. CASE UNCHANGED vars
  BY <1>8 DEF vars, IInv, TypeOK, OneThread, FoundSlot, Paid, Noted
<1> QED
  BY <1>1, <1>2, <1>3, <1>4, <1>5, <1>6, <1>7, <1>8, ScanIInv, FoundIInv DEF Next, Runs

(* The counting invariant holds whatever interrupts, calls, timeouts and   *)
(* unlocks follow each other.                                              *)
THEOREM WaitsInvariant == Spec => []IInv
  BY InitIInv, NextIInv, PTL DEF Spec

(* The table, the waits and the counters keep their types; no wait counts  *)
(* more than one millisecond past its timeout.                             *)
THEOREM WaitsTypeOK == Spec => []TypeOK
<1>1. IInv => TypeOK
  BY DEF IInv
<1> QED
  BY <1>1, WaitsInvariant, PTL

(* An interrupt wakes one call of WaitForPCMInterrupt at most, duplicates  *)
(* in substream_int and interrupts during the scan included.               *)
THEOREM WaitsOneWakePerInterrupt == Spec => []OneWakePerInterrupt
<1>1. IInv => OneWakePerInterrupt
  <2> SUFFICES ASSUME IInv, NEW s \in Substreams PROVE wakes[s] <= interrupts[s]
    BY DEF OneWakePerInterrupt
  <2>1. wakes[s] \in Nat /\ interrupts[s] \in Nat
    BY DEF IInv, TypeOK
  <2>2. wakes[s] + Cardinality(Noted(s)) <= interrupts[s]
    BY DEF IInv, Paid
  <2> HIDE DEF Noted
  <2> QED
    BY <2>1, <2>2, NotedFinite
<1> QED
  BY <1>1, WaitsInvariant, PTL

-----------------------------------------------------------------------------
(* Every substream finds a slot for its note: the table is not full of     *)
(* others.                                                                 *)
HasRoom == \A s \in Substreams : \E k \in Slots : substream_int[k] \in {None, s}

(* A pending interrupt has its note, and one that was pending when a scan  *)
(* began has it where the scan has not been yet.                           *)
Pending == \A s \in pending \cap Substreams : Noted(s) # {}
Ahead ==
    \A w \in Waiters : wait[w].pc = "look" /\ wait[w].on \in Substreams /\ wait[w].due =>
        \E k \in Noted(wait[w].on) : k >= wait[w].i

(* A set of naturals with an element has a least one.                      *)
LEMMA LeastNat ==
  ASSUME NEW S \in SUBSET Nat, S # {}
  PROVE  \E x \in S : \A y \in S : ~(y < x)
<1> DEFINE R == OpToRel(<, Nat)
<1>1. IsWellFoundedOn(R, Nat)
  BY NatLessThanWellFounded
<1>2. \A x, y \in Nat : <<x, y>> \in R <=> x < y
  BY DEF OpToRel
<1> HIDE DEF R
<1>3. \E x \in S : \A y \in S : ~(<<y, x>> \in R)
  BY <1>1, WFMin
<1> QED
  BY <1>2, <1>3

(* With room for it the note is stored, and no other is touched.           *)
LEMMA NoteStored ==
  ASSUME TypeOK, HasRoom, NEW s \in Substreams, uniaud_set_interrupted_substream(s)
  PROVE  Noted(s)' # {} /\ \A r \in Substreams : Noted(r) \subseteq Noted(r)'
<1> DEFINE S == {k \in Slots : substream_int[k] \in {None, s}}
<1>1. S \in SUBSET Nat /\ S # {}
  BY WaitsAssumption DEF HasRoom, Slots
<1>2. PICK x \in S : \A y \in S : ~(y < x)
  BY <1>1, LeastNat
<1>3. StopSlot(s, x) /\ x \in Slots
  BY <1>2 DEF StopSlot
<1>4. substream_int' = [k \in Slots |-> IF StopSlot(s, k) THEN s ELSE substream_int[k]]
  BY DEF uniaud_set_interrupted_substream
<1>5. x \in Noted(s)'
  BY <1>3, <1>4 DEF Noted
<1>6. \A r \in Substreams : Noted(r) \subseteq Noted(r)'
  BY NoteOneSlot, WaitsAssumption DEF Noted
<1> QED
  BY <1>5, <1>6

(* A thread begins to look: its note is anywhere in the table.             *)
LEMMA LookAhead ==
  ASSUME IInv, Pending, Ahead, NEW w \in Waiters, NEW wt \in WaitType, Look(w, wt),
         UNCHANGED <<substream_int, pending>>
  PROVE  Pending' /\ Ahead'
<1> DEFINE d == wt.on \in pending
           nt == [wt EXCEPT !.pc = "look", !.i = 0, !.due = d]
<1>1. wait' = [wait EXCEPT ![w] = nt] /\ wait \in [Waiters -> WaitType]
  BY DEF Look, IInv, TypeOK, WaitType
<1> HIDE DEF d
<1>2. nt.on = wt.on /\ nt.i = 0 /\ nt.due = d
  BY DEF WaitType
<1> HIDE DEF nt
<1>3. \A s \in Substreams : Noted(s)' = Noted(s)
  BY DEF Noted
<1>4. wait'[w] = nt /\ \A v \in Waiters : v # w => wait'[v] = wait[v]
  BY <1>1
<1>5. ASSUME nt.due, nt.on \in Substreams PROVE \E k \in Noted(nt.on) : k >= nt.i
  <2>1. d
    BY <1>2, <1>5, Zenon
  <2>2. PICK k : k \in Noted(nt.on)
    BY <1>2, <1>5, <2>1 DEF d, Pending
  <2>3. k \in Nat
    BY <2>2 DEF Noted, Slots
  <2> QED
    BY <1>2, <2>2, <2>3
<1> QED
  BY <1>3, <1>4, <1>5 DEF Pending, Ahead

(* The other steps of a thread that do not take a note.                    *)
LEMMA LeaveAhead ==
  ASSUME IInv, Pending, Ahead, NEW w \in Waiters, Return(w) \/ Block(w),
         UNCHANGED <<substream_int, pending>>
  PROVE  Pending' /\ Ahead'
<1>1. wait \in [Waiters -> WaitType]
  BY DEF IInv, TypeOK, WaitType
<1>2. \A s \in Substreams : Noted(s)' = Noted(s)
  BY DEF Noted
<1>3. wait'[w].pc # "look" /\ \A v \in Waiters : v # w => wait'[v] = wait[v]
  <2>1. CASE Return(w)
    BY <1>1, <2>1 DEF Return, NoWait
  <2>2. CASE Block(w)
    <3>1. wait[w] \in WaitType
      BY <1>1
    <3> QED
      BY <1>1, <2>2, <3>1 DEF Block, WaitType
  <2> QED
    BY <2>1, <2>2
<1> QED
  BY <1>2, <1>3 DEF Pending, Ahead

(* The scan passes no note of its substream by.                            *)
LEMMA ScanAhead ==
  ASSUME IInv, Pending, Ahead, NEW w \in Waiters, Scan(w)
  PROVE  Pending' /\ Ahead'
<1>1. /\ wait \in [Waiters -> WaitType] /\ wait[w] \in WaitType /\ wait[w].pc = "look"
      /\ wait[w].on \in Substreams /\ wait[w].i \in Nat /\ UNCHANGED <<substream_int, pending>>
  BY WaitsAssumption DEF IInv, TypeOK, WaitType, Scan, globals
<1>2. \A s \in Substreams : Noted(s)' = Noted(s)
  BY <1>1 DEF Noted
<1>3. CASE substream_int[wait[w].i] = wait[w].on
  <2>1. wait'[w].pc = "found" /\ \A v \in Waiters : v # w => wait'[v] = wait[v]
    BY <1>1, <1>3 DEF Scan, WaitType
  <2> QED
    BY <1>1, <1>2, <2>1 DEF Pending, Ahead
<1>4. CASE substream_int[wait[w].i] # wait[w].on
  <2>1. /\ wait'[w].on = wait[w].on /\ wait'[w].due = wait[w].due
        /\ wait'[w].i = wait[w].i + 1
        /\ \A v \in Waiters : v # w => wait'[v] = wait[v]
    BY <1>1, <1>4 DEF Scan, WaitType
  <2>2. ASSUME wait[w].due PROVE \E k \in Noted(wait[w].on) : k >= wait[w].i + 1
    <3>1. PICK k \in Noted(wait[w].on) : k >= wait[w].i
      BY <1>1, <2>2 DEF Ahead
    <3>2. k \in Nat /\ k # wait[w].i
      BY <1>4 DEF Noted, Slots
    <3> QED
      BY <1>1, <3>1, <3>2
  <2> QED
    BY <1>1, <1>2, <2>1, <2>2 DEF Pending, Ahead
<1> QED
  BY <1>3, <1>4

(* A wake takes a note of its own substream, while nobody scans.           *)
LEMMA FoundAhead ==
  ASSUME IInv, Pending, Ahead, NEW w \in Waiters, Found(w)
  PROVE  Pending' /\ Ahead'
<1> DEFINE s == wait[w].on
           k == wait[w].i
<1>0. s \in Substreams /\ k \in Slots /\ substream_int[k] = s /\ running = w
  BY DEF IInv, FoundSlot, OneThread, Found
<1>1. /\ wait' = [wait EXCEPT ![w] = NoWait] /\ NoWait.pc = "idle"
      /\ substream_int' = [substream_int EXCEPT ![k] = None] /\ pending' = pending \ {s}
  BY DEF Found, Return, NoWait
<1>2. /\ substream_int \in [Slots -> Substreams \cup {None}] /\ wait \in [Waiters -> WaitType]
  BY DEF IInv, TypeOK, WaitType
<1>3. \A v \in Waiters : v # w => wait[v].pc # "look"
  BY <1>0 DEF IInv, OneThread
<1> HIDE DEF s, k
<1>4. \A r \in Substreams : r # s => Noted(r)' = Noted(r)
  BY <1>0, <1>1, <1>2, WaitsAssumption DEF Noted
<1>5. Pending'
  BY <1>1, <1>4 DEF Pending
<1>6. Ahead'
  BY <1>1, <1>2, <1>3 DEF Ahead
<1> QED
  BY <1>5, <1>6

(* Every step keeps the notes of pending interrupts, while there is room   *)
(* for them.                                                               *)
LEMMA NextAhead ==
  IInv /\ HasRoom /\ Pending /\ Ahead /\ [Next]_vars => Pending' /\ Ahead'
<1> SUFFICES ASSUME IInv, HasRoom, Pending, Ahead, [Next]_vars PROVE Pending' /\ Ahead'
  OBVIOUS
<1>1. ASSUME NEW s \in Substreams, uniaud_set_interrupted_substream(s)
      PROVE  Pending' /\ Ahead'
  <2>1. Noted(s)' # {} /\ \A r \in Substreams : Noted(r) \subseteq Noted(r)'
    BY <1>1, NoteStored DEF IInv
  <2>2. pending' = pending \cup {s} /\ wait' = wait
    BY <1>1 DEF uniaud_set_interrupted_substream
  <2> HIDE DEF Noted
  <2>3. Pending'
    BY <2>1, <2>2 DEF Pending
  <2>4. Ahead'
    BY <2>1, <2>2 DEF Ahead
  <2> QED
    BY <2>3, <2>4
<1>2. ASSUME NEW c \in Cards, snd_ctl_notify(c) PROVE Pending' /\ Ahead'
  <2>1. pending' = pending \cup {c} /\ wait' = wait /\ substream_int' = substream_int
    BY <1>2 DEF snd_ctl_notify
  <2>2. c \notin Substreams
    BY WaitsAssumption
  <2> QED
    BY <2>1, <2>2 DEF Pending, Ahead, Noted
<1>3. CASE UnlockAll
  BY <1>3 DEF UnlockAll, Pending, Ahead, Noted
<1>t. \A w \in Waiters : wait[w] \in WaitType
  BY DEF IInv, TypeOK, WaitType
<1>4. ASSUME NEW w \in Waiters, NEW what \in Substreams \cup Cards, NEW t \in Timeouts,
             Call(w, what, t)
      PROVE  Pending' /\ Ahead'
  <2> DEFINE wt == [NoWait EXCEPT !.on = what, !.timeout = t]
  <2>1. wt \in WaitType
    BY NoWaitType DEF NoWait, WaitType
  <2>2. Look(w, wt) /\ UNCHANGED globals
    BY <1>4 DEF Call
  <2> HIDE DEF wt
  <2> QED
    BY <2>1, <2>2, LookAhead DEF globals
<1>5. ASSUME NEW w \in Waiters, ScanEnds(w) PROVE Pending' /\ Ahead'
  BY <1>5, LeaveAhead DEF ScanEnds, globals
<1>6. ASSUME NEW w \in Waiters, LookForControl(w) PROVE Pending' /\ Ahead'
  BY <1>6, LeaveAhead DEF LookForControl
<1>7. ASSUME NEW w \in Waiters, Wake(w) PROVE Pending' /\ Ahead'
  BY <1>7, <1>t, LeaveAhead, LookAhead DEF Wake
<1>8. CASE UNCHANGED vars
  BY <1>8 DEF vars, Pending, Ahead, Noted
<1> QED
  BY <1>1, <1>2, <1>3, <1>4, <1>5, <1>6, <1>7, <1>8, ScanAhead, FoundAhead DEF Next, Runs

(* As long as every substream finds a slot for its note, no wait times out *)
(* over an interrupt that was pending when its last scan began, wherever   *)
(* in the table interrupts note it and wakes leave holes.                  *)
THEOREM WaitsNoMissedInterrupt == Spec /\ []HasRoom => NoMissedInterrupt
<1>1. Init => Pending /\ Ahead
  BY DEF Init, Pending, Ahead, NoWait
<1>2. ASSUME IInv, Ahead, [Next]_vars, NEW w \in Waiters, TimedOut(w),
             wait[w].on \in Substreams
      PROVE  ~wait[w].due
  <2>0. /\ wait \in [Waiters -> WaitType] /\ wait[w] \in WaitType /\ wait[w].pc = "look"
        /\ wait'[w].pc = "idle"
    BY <1>2 DEF IInv, TypeOK, WaitType, TimedOut
  <2>1. wait[w].i = TableSize
    <3>1. ASSUME NEW v \in Waiters, v # w, wait' = [wait EXCEPT ![v] = wait'[v]] PROVE FALSE
      BY <2>0, <3>1
    <3>2. ASSUME wait' = wait PROVE FALSE
      BY <2>0, <3>2
    <3>3. running = w
      BY <1>2, <2>0 DEF IInv, OneThread
    <3>4. running # None
      BY <3>3, WaitsAssumption
    <3>5. \A v \in Waiters : v # w => wait[v].pc \notin {"look", "found"}
      BY <1>2, <3>3 DEF IInv, OneThread
    <3>6. \A v \in Waiters : Runs(v) => v = w
      BY <3>5 DEF Runs, Scan, Found, ScanEnds, LookForControl
    <3>7. ~Found(w) /\ ~LookForControl(w)
      BY <1>2, <2>0, WaitsAssumption DEF Found, LookForControl
    <3>8. ~Scan(w)
      <4>1. ASSUME Scan(w) PROVE FALSE
        BY <2>0, <4>1 DEF Scan, WaitType
      <4> QED
        BY <4>1
    <3>9. ASSUME NEW v \in Waiters, \/ \E what \in Substreams \cup Cards : \E t \in Timeouts : Call(v, what, t)
                                   \/ Wake(v)
          PROVE  FALSE
      BY <3>4, <3>9 DEF Call, Wake
    <3>10. ASSUME \/ \E s \in Substreams : uniaud_set_interrupted_substream(s)
                  \/ \E c \in Cards : snd_ctl_notify(c)
                  \/ UnlockAll \/ UNCHANGED vars
           PROVE  FALSE
      BY <3>2, <3>10 DEF uniaud_set_interrupted_substream, snd_ctl_notify, UnlockAll, vars
    <3>11. ScanEnds(w)
      BY <1>2, <3>6, <3>7, <3>8, <3>9, <3>10 DEF Next, Runs
    <3> QED
      BY <3>11 DEF ScanEnds
  <2>2. ASSUME wait[w].due PROVE FALSE
    <3>1. PICK k \in Noted(wait[w].on) : k >= wait[w].i
      BY <1>2, <2>0, <2>2 DEF Ahead
    <3>2. k < TableSize /\ k \in Nat /\ TableSize \in Nat
      BY WaitsAssumption DEF Noted, Slots
    <3> QED
      BY <2>1, <3>1, <3>2
  <2>3. wait[w].due \in BOOLEAN
    BY <2>0 DEF WaitType
  <2> QED
    BY <2>2, <2>3
<1>3. IInv /\ Ahead /\ [Next]_vars =>
        [\A w \in Waiters : TimedOut(w) /\ wait[w].on \in Substreams => ~wait[w].due]_vars
  BY <1>2
<1> QED
  BY <1>1, <1>3, NextAhead, WaitsInvariant, PTL DEF Spec, NoMissedInterrupt
=============================================================================
