-------------------------- MODULE IrqSlots_proofs --------------------------
(***************************************************************************)
(* The interrupt slots are sound for any number of devices, lines, slots   *)
(* and entries, with the dispatcher between any two assignments of         *)
(* request_irq and free_irq.                                               *)
(*                                                                         *)
(* The inductive invariant adds to the properties that no two slots have   *)
(* the same line, that the line of a slot in use is hooked to it, and what *)
(* the call in progress has written.  The entries that a failed request    *)
(* leaves behind have a handler, so that no other request takes them, and  *)
(* are recognised by the user data of their own device only.               *)
(***************************************************************************)
EXTENDS IrqSlots, WellFoundedInduction, TLAPS

Slot == [irqNo : Irqs \cup {None}, flHandlers : SUBSET Entries,
         handler : [Entries -> Devs \cup {None}], x2 : [Entries -> Devs \cup {None}]]

(* No two slots have the same line.                                        *)
OneSlotPerLine ==
    \A s, t \in SlotNos :
        arSlots[s].irqNo # None /\ arSlots[s].irqNo = arSlots[t].irqNo => s = t

(* The line of a slot that has handlers is hooked to it.                   *)
InUseHooked ==
    \A s \in SlotNos : arSlots[s].flHandlers # {} =>
        arSlots[s].irqNo # None /\ hooked[arSlots[s].irqNo] = s

(* A hooked line is that of its slot, which has handlers.                  *)
HookedInUse ==
    \A i \in Irqs : hooked[i] # None =>
        arSlots[hooked[i]].irqNo = i /\ arSlots[hooked[i]].flHandlers # {}

(* Slot s serves device d with its entry u.                                *)
Serves(s, u, d) ==
    /\ arSlots[s].irqNo = IrqOf[d] /\ hooked[IrqOf[d]] = s
    /\ u \in arSlots[s].flHandlers
    /\ arSlots[s].handler[u] = d /\ arSlots[s].x2[u] = d

Served ==
    \A d \in registered \ {op.dev} : \E s \in SlotNos, u \in Entries : Serves(s, u, d)

(* What the request_irq or free_irq in progress has done so far.           *)
OpSound ==
    /\ op.pc = "none" => op = NoOp
    /\ op.pc # "none" => op.dev \in Devs /\ op.slot \in SlotNos /\ op.u \in Entries
    /\ op.pc \in {"handler", "x2", "hook"} =>
          op.dev \notin registered /\ arSlots[op.slot].irqNo = IrqOf[op.dev]
    /\ op.pc = "handler" => arSlots[op.slot].handler[op.u] = None
    /\ op.pc \in {"x2", "hook"} => arSlots[op.slot].handler[op.u] = op.dev
    /\ op.pc \in {"hook", "clear"} => arSlots[op.slot].x2[op.u] = op.dev

OpType == [pc : {"none", "handler", "x2", "hook", "clear"}, dev : Devs \cup {None},
           slot : SlotNos \cup {None}, found : BOOLEAN, u : Entries \cup {None}]

Types ==
    /\ arSlots \in [SlotNos -> Slot] /\ hooked \in [Irqs -> SlotNos \cup {None}]
    /\ op \in OpType /\ registered \subseteq Devs /\ line \subseteq registered

(* The inductive invariant.                                                *)
IInv ==
    Types /\ OneSlotPerLine /\ InUseHooked /\ HookedInUse /\ Served /\ OpSound

-----------------------------------------------------------------------------
(* A non-empty set of natural numbers has a least element.                 *)
LEMMA LeastNat ==
  ASSUME NEW T \in SUBSET Nat, T # {}
  PROVE  \E x \in T : \A y \in T : x <= y
<1> DEFINE R == OpToRel(<, Nat)
<1>1. IsWellFoundedOn(R, Nat)
  BY NatLessThanWellFounded
<1>2. \A x, y \in Nat : y < x => <<y, x>> \in R
  BY DEF OpToRel
<1> HIDE DEF R
<1>3. PICK x \in T : \A y \in T : ~ (<<y, x>> \in R)
  BY <1>1, WFMin
<1>4. ASSUME NEW y \in T PROVE x <= y
  <2>1. x \in Nat /\ y \in Nat /\ ~(<<y, x>> \in R)
    BY <1>3
  <2>2. ~(y < x)
    BY <2>1, <1>2
  <2> QED
    BY <2>1, <2>2
<1> QED
  BY <1>4

(* The first of a set of slots or entries is in it; None for no other set  *)
(* than the empty one.                                                     *)
LEMMA FirstIn ==
  ASSUME NEW S \in SUBSET Nat
  PROVE  (First(S) = None <=> S = {}) /\ (First(S) # None => First(S) \in S)
<1>1. CASE S = {}
  BY <1>1 DEF First
<1>2. CASE S # {}
  <2>1. \E x \in S : \A y \in S : x <= y
    BY <1>2, LeastNat
  <2>2. First(S) \in S
    BY <1>2, <2>1 DEF First
  <2> QED
    BY <1>2, <2>2, IrqAssumption
<1> QED
  BY <1>1, <1>2

(* FindSlot finds the slot of the line when there is one.                  *)
LEMMA FindSlotIs ==
  ASSUME OneSlotPerLine, NEW i \in Irqs
  PROVE  /\ FindSlot(i) = None => \A s \in SlotNos : arSlots[s].irqNo # i
         /\ FindSlot(i) # None => FindSlot(i) \in SlotNos /\ arSlots[FindSlot(i)].irqNo = i
         /\ \A s \in SlotNos : arSlots[s].irqNo = i => FindSlot(i) = s
<1> USE IrqAssumption
<1> DEFINE S == {s \in SlotNos : arSlots[s].irqNo = i}
<1>1. S \in SUBSET Nat
  BY DEF SlotNos
<1>2. (First(S) = None <=> S = {}) /\ (First(S) # None => First(S) \in S)
  BY <1>1, FirstIn
<1>3. FindSlot(i) = First(S)
  BY DEF FindSlot
<1> QED
  BY <1>2, <1>3 DEF OneSlotPerLine

(* The empty slots satisfy the invariant.                                  *)
LEMMA InitIInv == Init => IInv
<1> SUFFICES ASSUME Init PROVE IInv
  OBVIOUS
<1>1. Types
  BY DEF Init, Types, Slot, EmptySlot, OpType, NoOp
<1>2. OneSlotPerLine /\ InUseHooked
  BY DEF Init, OneSlotPerLine, InUseHooked, EmptySlot
<1>3. HookedInUse /\ Served /\ OpSound
  BY DEF Init, HookedInUse, Served, OpSound, NoOp
<1> QED
  BY <1>1, <1>2, <1>3 DEF IInv

(* The slot of a request: that of the line, or one without handlers when   *)
(* the line has none.                                                      *)
LEMMA RequestSlot ==
  ASSUME IInv, NEW d \in Devs, request_irq(d)
  PROVE  \E s \in SlotNos, u \in Entries :
            /\ arSlots' = [arSlots EXCEPT ![s].irqNo = IrqOf[d]]
            /\ \/ arSlots[s].irqNo = IrqOf[d]
               \/ /\ arSlots[s].flHandlers = {}
                  /\ \A t \in SlotNos : arSlots[t].irqNo # IrqOf[d]
            /\ \/ op' = NoOp
               \/ /\ arSlots[s].handler[u] = None
                  /\ \E f \in BOOLEAN : op' = [pc |-> "handler", dev |-> d, slot |-> s,
                                               found |-> f, u |-> u]
<1> USE IrqAssumption
<1> DEFINE found == FindSlot(IrqOf[d])
           s == IF found # None THEN found ELSE EmptySlotNo
           V == {v \in Entries : arSlots[s].handler[v] = None}
           u == First(V)
<1>1. /\ s # None /\ arSlots' = [arSlots EXCEPT ![s].irqNo = IrqOf[d]]
      /\ op' = IF u = None THEN NoOp
               ELSE [pc |-> "handler", dev |-> d, slot |-> s, found |-> found # None, u |-> u]
  BY DEF request_irq
<1>2. s \in SlotNos /\ \/ arSlots[s].irqNo = IrqOf[d]
                       \/ /\ arSlots[s].flHandlers = {}
                          /\ \A t \in SlotNos : arSlots[t].irqNo # IrqOf[d]
  <2>1. IrqOf[d] \in Irqs
    OBVIOUS
  <2>2. CASE found # None
    BY <2>1, <2>2, FindSlotIs DEF IInv
  <2>3. CASE found = None
    <3> DEFINE E == {t \in SlotNos : arSlots[t].flHandlers = {}}
    <3>1. E \in SUBSET Nat
      BY DEF SlotNos
    <3>2. EmptySlotNo = First(E) /\ s = EmptySlotNo
      BY <2>3 DEF EmptySlotNo
    <3>3. s \in E
      BY <1>1, <3>1, <3>2, FirstIn
    <3> QED
      BY <3>3, <2>1, <2>3, FindSlotIs DEF IInv
  <2> QED
    BY <2>2, <2>3
<1>3. V \in SUBSET Nat /\ V \subseteq Entries
  BY DEF Entries
<1>4. u # None => u \in V
  BY <1>3, FirstIn
<1>5. PICK e : e \in Entries
  <2>1. 0 \in Entries
    BY DEF Entries
  <2> QED
    BY <2>1
<1> HIDE DEF s, found, u
<1>6. CASE u = None
  BY <1>1, <1>2, <1>5, <1>6
<1>7. CASE u # None
  <2>1. /\ u \in Entries /\ arSlots[s].handler[u] = None
        /\ op' = [pc |-> "handler", dev |-> d, slot |-> s, found |-> found # None, u |-> u]
        /\ (found # None) \in BOOLEAN
    BY <1>1, <1>4, <1>7
  <2> QED
    BY <1>1, <1>2, <2>1
<1> QED
  BY <1>6, <1>7

(* A request leaves every other device served.                             *)
LEMMA RequestIInv ==
  ASSUME IInv, NEW d \in Devs, request_irq(d)
  PROVE  IInv'
<1> USE IrqAssumption
<1>1. /\ op.pc = "none" /\ d \notin registered /\ UNCHANGED <<hooked, registered, line>>
      /\ op = NoOp
  BY DEF request_irq, IInv, OpSound
<1>2. PICK s \in SlotNos, u \in Entries :
        /\ arSlots' = [arSlots EXCEPT ![s].irqNo = IrqOf[d]]
        /\ \/ arSlots[s].irqNo = IrqOf[d]
           \/ /\ arSlots[s].flHandlers = {}
              /\ \A t \in SlotNos : arSlots[t].irqNo # IrqOf[d]
        /\ \/ op' = NoOp
           \/ /\ arSlots[s].handler[u] = None
              /\ \E f \in BOOLEAN : op' = [pc |-> "handler", dev |-> d, slot |-> s,
                                           found |-> f, u |-> u]
  BY RequestSlot
<1>3. IrqOf[d] \in Irqs /\ IrqOf[d] # None
  OBVIOUS
<1>4. arSlots \in [SlotNos -> Slot]
  BY DEF IInv, Types
<1>5. /\ \A t \in SlotNos : t # s => arSlots'[t] = arSlots[t]
      /\ arSlots'[s] = [arSlots[s] EXCEPT !.irqNo = IrqOf[d]]
  BY <1>2, <1>4
<1>6. /\ arSlots'[s] \in Slot /\ arSlots'[s].irqNo = IrqOf[d]
      /\ arSlots'[s].flHandlers = arSlots[s].flHandlers
      /\ arSlots'[s].handler = arSlots[s].handler /\ arSlots'[s].x2 = arSlots[s].x2
  BY <1>3, <1>4, <1>5 DEF Slot
<1>7. Types'
  <2>1. arSlots' \in [SlotNos -> Slot]
    BY <1>2, <1>4, <1>5, <1>6
  <2>2. op' \in OpType
    <3>1. NoOp \in OpType
      BY DEF NoOp, OpType
    <3>2. \A f \in BOOLEAN : [pc |-> "handler", dev |-> d, slot |-> s, found |-> f,
                             u |-> u] \in OpType
      BY DEF OpType
    <3> QED
      BY <1>2, <3>1, <3>2
  <2> QED
    BY <2>1, <2>2, <1>1 DEF IInv, Types
<1>8. OneSlotPerLine'
  BY <1>2, <1>5, <1>6 DEF IInv, OneSlotPerLine
<1>9. InUseHooked'
  BY <1>1, <1>2, <1>5, <1>6 DEF IInv, InUseHooked
<1>10. HookedInUse'
  <2> SUFFICES ASSUME NEW i \in Irqs, hooked[i] # None
               PROVE  /\ arSlots'[hooked[i]].irqNo = i
                      /\ arSlots'[hooked[i]].flHandlers # {}
    BY <1>1 DEF HookedInUse
  <2>1. /\ hooked[i] \in SlotNos
        /\ arSlots[hooked[i]].irqNo = i /\ arSlots[hooked[i]].flHandlers # {}
    BY DEF IInv, Types, HookedInUse
  <2> QED
    BY <2>1, <1>2, <1>5, <1>6
<1>11. Served'
  <2> SUFFICES ASSUME NEW e \in registered
               PROVE  \E t \in SlotNos, v \in Entries : Serves(t, v, e)'
    BY <1>1 DEF Served
  <2>1. e \in registered \ {op.dev}
    BY <1>1 DEF NoOp, IInv, Types
  <2>2. PICK t \in SlotNos, v \in Entries : Serves(t, v, e)
    BY <2>1 DEF IInv, Served
  <2>3. Serves(t, v, e)'
    BY <2>2, <1>1, <1>2, <1>5, <1>6 DEF Serves
  <2> QED
    BY <2>3
<1>12. OpSound'
  BY <1>1, <1>2, <1>6 DEF OpSound, NoOp
<1> QED
  BY <1>7, <1>8, <1>9, <1>10, <1>11, <1>12 DEF IInv

(* A step that writes the handler and the user data of one entry, which    *)
(* serves no device but that of the call.                                  *)
LEMMA EntryStep ==
  ASSUME IInv, NEW s \in SlotNos, NEW u \in Entries, UNCHANGED hooked,
         \A t \in SlotNos : t # s => arSlots'[t] = arSlots[t],
         arSlots'[s].irqNo = arSlots[s].irqNo, arSlots'[s].flHandlers = arSlots[s].flHandlers,
         \A v \in Entries : v # u => /\ arSlots'[s].handler[v] = arSlots[s].handler[v]
                                     /\ arSlots'[s].x2[v] = arSlots[s].x2[v],
         \A e \in registered' \ {op'.dev} :
             /\ e \in registered \ {op.dev}
             /\ arSlots[s].handler[u] # e \/ arSlots[s].x2[u] # e
  PROVE  OneSlotPerLine' /\ InUseHooked' /\ HookedInUse' /\ Served'
<1>1. \A t \in SlotNos : /\ arSlots'[t].irqNo = arSlots[t].irqNo
                         /\ arSlots'[t].flHandlers = arSlots[t].flHandlers
  OBVIOUS
<1>2. OneSlotPerLine' /\ InUseHooked'
  BY <1>1 DEF IInv, OneSlotPerLine, InUseHooked
<1>3. HookedInUse'
  <2> SUFFICES ASSUME NEW i \in Irqs, hooked[i] # None
               PROVE  /\ arSlots'[hooked[i]].irqNo = i
                      /\ arSlots'[hooked[i]].flHandlers # {}
    BY DEF HookedInUse
  <2>1. hooked[i] \in SlotNos
    BY DEF IInv, Types
  <2> QED
    BY <2>1, <1>1 DEF IInv, HookedInUse
<1>4. Served'
  <2> SUFFICES ASSUME NEW e \in registered' \ {op'.dev}
               PROVE  \E t \in SlotNos, v \in Entries : Serves(t, v, e)'
    BY DEF Served
  <2>1. PICK t \in SlotNos, v \in Entries : Serves(t, v, e)
    BY DEF IInv, Served
  <2>2. Serves(t, v, e)'
    <3>1. CASE t # s
      BY <3>1, <2>1 DEF Serves
    <3>2. CASE t = s
      <4>1. v # u
        BY <3>2, <2>1 DEF Serves
      <4> QED
        BY <3>2, <4>1, <2>1 DEF Serves
    <3> QED
      BY <3>1, <3>2
  <2> QED
    BY <2>2
<1> QED
  BY <1>2, <1>3, <1>4

(* The slots after an entry was written.                                   *)
LEMMA WriteEntry ==
  ASSUME Types, NEW s \in SlotNos, NEW h \in [Entries -> Devs \cup {None}],
         NEW x \in [Entries -> Devs \cup {None}],
         arSlots' = [arSlots EXCEPT ![s] = [irqNo |-> arSlots[s].irqNo,
                                            flHandlers |-> arSlots[s].flHandlers,
                                            handler |-> h, x2 |-> x]]
  PROVE  /\ arSlots' \in [SlotNos -> Slot]
         /\ \A t \in SlotNos : t # s => arSlots'[t] = arSlots[t]
         /\ arSlots'[s].irqNo = arSlots[s].irqNo
         /\ arSlots'[s].flHandlers = arSlots[s].flHandlers
         /\ arSlots'[s].handler = h /\ arSlots'[s].x2 = x
<1> DEFINE new == [irqNo |-> arSlots[s].irqNo, flHandlers |-> arSlots[s].flHandlers,
                   handler |-> h, x2 |-> x]
<1>1. arSlots \in [SlotNos -> Slot] /\ arSlots[s] \in Slot
  BY DEF Types
<1>2. new \in Slot /\ new.irqNo = arSlots[s].irqNo /\ new.flHandlers = arSlots[s].flHandlers
      /\ new.handler = h /\ new.x2 = x
  BY <1>1 DEF Slot
<1>3. arSlots' = [arSlots EXCEPT ![s] = new]
  OBVIOUS
<1> HIDE DEF new
<1> QED
  BY <1>1, <1>2, <1>3

(* The handler goes to an entry that had none.                             *)
LEMMA SetHandlerIInv ==
  ASSUME IInv, SetHandler
  PROVE  IInv'
<1> USE IrqAssumption
<1> DEFINE s == op.slot
           u == op.u
           h == [arSlots[s].handler EXCEPT ![u] = op.dev]
           x == arSlots[s].x2
<1>1. /\ op.pc = "handler" /\ op \in OpType
      /\ op.dev \in Devs /\ s \in SlotNos /\ u \in Entries /\ op.dev \notin registered
      /\ arSlots[s].irqNo = IrqOf[op.dev] /\ arSlots[s].handler[u] = None
      /\ UNCHANGED <<hooked, registered, line>> /\ Types
  BY DEF SetHandler, IInv, OpSound, Types
<1>2. /\ op' \in OpType /\ op'.pc = "x2" /\ op'.dev = op.dev /\ op'.slot = s /\ op'.u = u
  BY <1>1 DEF SetHandler, OpType
<1>3. /\ arSlots[s].handler \in [Entries -> Devs \cup {None}]
      /\ x \in [Entries -> Devs \cup {None}] /\ arSlots[s] \in Slot
  BY <1>1 DEF Types, Slot
<1>4. /\ h \in [Entries -> Devs \cup {None}] /\ h[u] = op.dev
      /\ \A v \in Entries : v # u => h[v] = arSlots[s].handler[v]
  BY <1>1, <1>3
<1>5. arSlots' = [arSlots EXCEPT ![s] = [irqNo |-> arSlots[s].irqNo,
                                         flHandlers |-> arSlots[s].flHandlers,
                                         handler |-> h, x2 |-> x]]
  <2>1. [arSlots[s] EXCEPT !.handler = h] = [irqNo |-> arSlots[s].irqNo,
                            flHandlers |-> arSlots[s].flHandlers,
                            handler |-> h, x2 |-> x]
    <3> HIDE DEF h
    <3> QED
      BY <1>3 DEF Slot
  <2>2. arSlots' = [arSlots EXCEPT ![s] = [arSlots[s] EXCEPT !.handler = h]]
    BY <1>1, <1>3 DEF SetHandler, Types
  <2> QED
    BY <2>1, <2>2
<1> HIDE DEF s, u, h, x
<1>6. /\ arSlots' \in [SlotNos -> Slot]
      /\ \A t \in SlotNos : t # s => arSlots'[t] = arSlots[t]
      /\ arSlots'[s].irqNo = arSlots[s].irqNo
      /\ arSlots'[s].flHandlers = arSlots[s].flHandlers
      /\ arSlots'[s].handler = h /\ arSlots'[s].x2 = x
  BY <1>1, <1>3, <1>4, <1>5, WriteEntry
<1>7. \A e \in registered' \ {op'.dev} :
         e \in registered \ {op.dev} /\ arSlots[s].handler[u] # e
  BY <1>1, <1>2 DEF Types
<1>8. OneSlotPerLine' /\ InUseHooked' /\ HookedInUse' /\ Served'
  BY <1>1, <1>4, <1>6, <1>7, EntryStep DEF x
<1>9. Types'
  BY <1>1, <1>2, <1>6 DEF Types
<1>10. OpSound'
  BY <1>1, <1>2, <1>4, <1>6 DEF OpSound
<1> QED
  BY <1>8, <1>9, <1>10 DEF IInv

(* The user data goes to the entry that has the device's handler.          *)
LEMMA SetUserDataIInv ==
  ASSUME IInv, SetUserData
  PROVE  IInv'
<1> USE IrqAssumption
<1> DEFINE s == op.slot
           u == op.u
           x == [arSlots[s].x2 EXCEPT ![u] = op.dev]
<1>1. /\ op.pc = "x2" /\ op \in OpType
      /\ op.dev \in Devs /\ s \in SlotNos /\ u \in Entries /\ op.dev \notin registered
      /\ arSlots[s].irqNo = IrqOf[op.dev] /\ arSlots[s].handler[u] = op.dev
      /\ UNCHANGED <<hooked, registered, line>> /\ Types
  BY DEF SetUserData, IInv, OpSound, Types
<1>2. /\ op' \in OpType /\ op'.pc = "hook" /\ op'.dev = op.dev /\ op'.slot = s /\ op'.u = u
  BY <1>1 DEF SetUserData, OpType
<1>3. /\ arSlots[s].handler \in [Entries -> Devs \cup {None}]
      /\ arSlots[s].x2 \in [Entries -> Devs \cup {None}] /\ arSlots[s] \in Slot
  BY <1>1 DEF Types, Slot
<1>4. /\ x \in [Entries -> Devs \cup {None}] /\ x[u] = op.dev
      /\ \A v \in Entries : v # u => x[v] = arSlots[s].x2[v]
  BY <1>1, <1>3
<1>5. arSlots' = [arSlots EXCEPT ![s] = [irqNo |-> arSlots[s].irqNo,
                                         flHandlers |-> arSlots[s].flHandlers,
                                         handler |-> arSlots[s].handler, x2 |-> x]]
  <2>1. [arSlots[s] EXCEPT !.x2 = x] = [irqNo |-> arSlots[s].irqNo,
                            flHandlers |-> arSlots[s].flHandlers,
                            handler |-> arSlots[s].handler, x2 |-> x]
    <3> HIDE DEF x
    <3> QED
      BY <1>3 DEF Slot
  <2>2. arSlots' = [arSlots EXCEPT ![s] = [arSlots[s] EXCEPT !.x2 = x]]
    BY <1>1, <1>3 DEF SetUserData, Types
  <2> QED
    BY <2>1, <2>2
<1> HIDE DEF s, u, x
<1>6. /\ arSlots' \in [SlotNos -> Slot]
      /\ \A t \in SlotNos : t # s => arSlots'[t] = arSlots[t]
      /\ arSlots'[s].irqNo = arSlots[s].irqNo
      /\ arSlots'[s].flHandlers = arSlots[s].flHandlers
      /\ arSlots'[s].handler = arSlots[s].handler /\ arSlots'[s].x2 = x
  BY <1>1, <1>3, <1>4, <1>5, WriteEntry
<1>7. \A e \in registered' \ {op'.dev} :
         e \in registered \ {op.dev} /\ arSlots[s].handler[u] # e
  BY <1>1, <1>2 DEF Types
<1>8. OneSlotPerLine' /\ InUseHooked' /\ HookedInUse' /\ Served'
  BY <1>1, <1>4, <1>6, <1>7, EntryStep
<1>9. Types'
  BY <1>1, <1>2, <1>6 DEF Types
<1>10. OpSound'
  BY <1>1, <1>2, <1>4, <1>6 DEF OpSound
<1> QED
  BY <1>8, <1>9, <1>10 DEF IInv

(* free_irq clears the entry that has the device's user data.              *)
LEMMA ClearEntryIInv ==
  ASSUME IInv, ClearEntry
  PROVE  IInv'
<1> USE IrqAssumption
<1> DEFINE s == op.slot
           u == op.u
           h == [arSlots[s].handler EXCEPT ![u] = None]
           x == [arSlots[s].x2 EXCEPT ![u] = None]
<1>1. /\ op.pc = "clear" /\ op \in OpType
      /\ op.dev \in Devs /\ s \in SlotNos /\ u \in Entries
      /\ arSlots[s].x2[u] = op.dev
      /\ registered' = registered \ {op.dev} /\ line' = line \ {op.dev} /\ op' = NoOp
      /\ UNCHANGED hooked /\ Types
  BY DEF ClearEntry, IInv, OpSound, Types
<1>2. /\ arSlots[s].handler \in [Entries -> Devs \cup {None}]
      /\ arSlots[s].x2 \in [Entries -> Devs \cup {None}] /\ arSlots[s] \in Slot
  BY <1>1 DEF Types, Slot
<1>3. /\ h \in [Entries -> Devs \cup {None}] /\ x \in [Entries -> Devs \cup {None}]
      /\ \A v \in Entries : v # u => h[v] = arSlots[s].handler[v] /\ x[v] = arSlots[s].x2[v]
  BY <1>1, <1>2
<1>4. arSlots' = [arSlots EXCEPT ![s] = [irqNo |-> arSlots[s].irqNo,
                                         flHandlers |-> arSlots[s].flHandlers,
                                         handler |-> h, x2 |-> x]]
  <2> DEFINE m == [irqNo |-> arSlots[s].irqNo, flHandlers |-> arSlots[s].flHandlers,
                   handler |-> h, x2 |-> arSlots[s].x2]
             new == [irqNo |-> arSlots[s].irqNo, flHandlers |-> arSlots[s].flHandlers,
                     handler |-> h, x2 |-> x]
             mid == [arSlots EXCEPT ![s] = m]
  <2>1. [arSlots[s] EXCEPT !.handler = h] = m
    <3> HIDE DEF h
    <3> QED
      BY <1>2 DEF Slot
  <2>2. [arSlots EXCEPT ![s].handler[u] = None] = mid
    BY <2>1, <1>1, <1>2 DEF Types
  <2>3. arSlots' = [mid EXCEPT ![s].x2[u] = None]
    BY <2>2 DEF ClearEntry
  <2>4. mid[s] = m /\ m.x2 = arSlots[s].x2
    BY <1>1 DEF Types
  <2>5. [m EXCEPT !.x2 = x] = new
    <3> HIDE DEF h, x
    <3> QED
      OBVIOUS
  <2>6. arSlots' = [mid EXCEPT ![s] = [m EXCEPT !.x2 = x]]
    <3> HIDE DEF m, mid
    <3> QED
      BY <2>3, <2>4
  <2>7. arSlots' = [mid EXCEPT ![s] = new]
    <3> HIDE DEF m, mid, new, h, x
    <3> QED
      BY <2>5, <2>6
  <2>8. arSlots' = [arSlots EXCEPT ![s] = new]
    <3> HIDE DEF m, new, h, x
    <3> QED
      BY <2>7, <1>1 DEF Types
  <2> QED
    BY <2>8
<1> HIDE DEF s, u, h, x
<1>5. /\ arSlots' \in [SlotNos -> Slot]
      /\ \A t \in SlotNos : t # s => arSlots'[t] = arSlots[t]
      /\ arSlots'[s].irqNo = arSlots[s].irqNo
      /\ arSlots'[s].flHandlers = arSlots[s].flHandlers
      /\ arSlots'[s].handler = h /\ arSlots'[s].x2 = x
  BY <1>1, <1>3, <1>4, WriteEntry
<1>6. \A e \in registered' \ {op'.dev} :
         e \in registered \ {op.dev} /\ arSlots[s].x2[u] # e
  BY <1>1
<1>7. OneSlotPerLine' /\ InUseHooked' /\ HookedInUse' /\ Served'
  BY <1>1, <1>3, <1>5, <1>6, EntryStep
<1>8. NoOp \in OpType
  BY DEF NoOp, OpType
<1>9. Types'
  BY <1>1, <1>5, <1>8 DEF Types
<1>10. OpSound'
  BY <1>1 DEF OpSound, NoOp
<1> QED
  BY <1>7, <1>9, <1>10 DEF IInv

(* The slots after a slot's line or its set of handlers was written.       *)
LEMMA WriteHandlers ==
  ASSUME Types, NEW s \in SlotNos, NEW i \in Irqs \cup {None}, NEW F \in SUBSET Entries,
         arSlots' = [arSlots EXCEPT ![s] = [irqNo |-> i, flHandlers |-> F,
                                            handler |-> arSlots[s].handler,
                                            x2 |-> arSlots[s].x2]]
  PROVE  /\ arSlots' \in [SlotNos -> Slot]
         /\ \A t \in SlotNos : t # s => arSlots'[t] = arSlots[t]
         /\ arSlots'[s].irqNo = i /\ arSlots'[s].flHandlers = F
         /\ arSlots'[s].handler = arSlots[s].handler /\ arSlots'[s].x2 = arSlots[s].x2
<1> DEFINE new == [irqNo |-> i, flHandlers |-> F,
                   handler |-> arSlots[s].handler, x2 |-> arSlots[s].x2]
<1>1. arSlots \in [SlotNos -> Slot] /\ arSlots[s] \in Slot
  BY DEF Types
<1>2. /\ new \in Slot /\ new.irqNo = i /\ new.flHandlers = F
      /\ new.handler = arSlots[s].handler /\ new.x2 = arSlots[s].x2
  BY <1>1 DEF Slot
<1>3. arSlots' = [arSlots EXCEPT ![s] = new]
  OBVIOUS
<1> HIDE DEF new
<1> QED
  BY <1>1, <1>2, <1>3

(* The request ends: its entry joins the handlers of the slot, and the     *)
(* first of them hooks the line.                                           *)
LEMMA HookIInv ==
  ASSUME IInv, Hook
  PROVE  IInv'
<1> USE IrqAssumption
<1> DEFINE s == op.slot
           u == op.u
           i == IrqOf[op.dev]
           F == arSlots[s].flHandlers \cup {u}
<1>1. /\ op.pc = "hook" /\ op.dev \in Devs /\ s \in SlotNos /\ u \in Entries
      /\ op.dev \notin registered /\ arSlots[s].irqNo = i
      /\ arSlots[s].handler[u] = op.dev /\ arSlots[s].x2[u] = op.dev
      /\ op' = NoOp /\ registered' = registered \cup {op.dev} /\ UNCHANGED line
      /\ Types
  BY DEF Hook, IInv, OpSound
<1>2. /\ arSlots[s] \in Slot /\ F \in SUBSET Entries /\ i \in Irqs /\ i # None
  BY <1>1 DEF Types, Slot
<1>3. arSlots' = [arSlots EXCEPT ![s] = [irqNo |-> i, flHandlers |-> F,
                                         handler |-> arSlots[s].handler,
                                         x2 |-> arSlots[s].x2]]
  <2>1. arSlots' = [arSlots EXCEPT ![s] = [arSlots[s] EXCEPT !.flHandlers = F]]
    BY <1>1 DEF Hook, Types
  <2>2. [arSlots[s] EXCEPT !.flHandlers = F] =
          [irqNo |-> i, flHandlers |-> F, handler |-> arSlots[s].handler,
           x2 |-> arSlots[s].x2]
    <3> HIDE DEF F
    <3> QED
      BY <1>1, <1>2 DEF Slot
  <2> QED
    BY <2>1, <2>2
<1>4. \/ arSlots[s].flHandlers # {} /\ hooked' = hooked
      \/ arSlots[s].flHandlers = {} /\ hooked' = [hooked EXCEPT ![i] = s]
  BY DEF Hook
<1>5. hooked \in [Irqs -> SlotNos \cup {None}]
  BY <1>1 DEF Types
<1>6. \A j \in Irqs : j # i => hooked'[j] = hooked[j]
  BY <1>4, <1>5
<1>7. hooked'[i] = s
  <2>1. CASE arSlots[s].flHandlers # {} /\ hooked' = hooked
    BY <2>1, <1>1 DEF IInv, InUseHooked
  <2>2. CASE hooked' = [hooked EXCEPT ![i] = s]
    BY <2>2, <1>2, <1>5
  <2> QED
    BY <1>4, <2>1, <2>2
<1>8. hooked' \in [Irqs -> SlotNos \cup {None}]
  BY <1>1, <1>2, <1>4, <1>5
<1> HIDE DEF s, i, F
<1>9. /\ arSlots' \in [SlotNos -> Slot]
      /\ \A t \in SlotNos : t # s => arSlots'[t] = arSlots[t]
      /\ arSlots'[s].irqNo = i /\ arSlots'[s].flHandlers = F
      /\ arSlots'[s].handler = arSlots[s].handler /\ arSlots'[s].x2 = arSlots[s].x2
  BY <1>1, <1>2, <1>3, WriteHandlers
<1>10. \A t \in SlotNos : arSlots'[t].irqNo = arSlots[t].irqNo
  BY <1>1, <1>9
<1>11. OneSlotPerLine'
  BY <1>10 DEF IInv, OneSlotPerLine
<1>12. \A t \in SlotNos : t # s => arSlots[t].irqNo # i
  BY <1>1, <1>2 DEF IInv, OneSlotPerLine
<1>13. InUseHooked'
  <2> SUFFICES ASSUME NEW t \in SlotNos, arSlots'[t].flHandlers # {}
               PROVE  arSlots'[t].irqNo # None /\ hooked'[arSlots'[t].irqNo] = t
    BY DEF InUseHooked
  <2>1. CASE t = s
    BY <2>1, <1>2, <1>7, <1>9
  <2>2. CASE t # s
    <3>1. arSlots'[t] = arSlots[t] /\ arSlots[t].irqNo \in Irqs \cup {None}
      BY <2>2, <1>1, <1>9 DEF Types, Slot
    <3>2. arSlots[t].irqNo # None /\ hooked[arSlots[t].irqNo] = t
      BY <3>1 DEF IInv, InUseHooked
    <3> QED
      BY <3>1, <3>2, <2>2, <1>6, <1>12
  <2> QED
    BY <2>1, <2>2
<1>14. HookedInUse'
  <2> SUFFICES ASSUME NEW j \in Irqs, hooked'[j] # None
               PROVE  arSlots'[hooked'[j]].irqNo = j /\ arSlots'[hooked'[j]].flHandlers # {}
    BY DEF HookedInUse
  <2>1. CASE j = i
    BY <2>1, <1>7, <1>9 DEF F
  <2>2. CASE j # i
    <3>1. hooked'[j] = hooked[j] /\ hooked[j] \in SlotNos
      BY <2>2, <1>5, <1>6
    <3>2. arSlots[hooked[j]].irqNo = j /\ arSlots[hooked[j]].flHandlers # {}
      BY <3>1 DEF IInv, HookedInUse
    <3>3. hooked[j] # s
      BY <3>2, <2>2, <1>1
    <3> QED
      BY <3>1, <3>2, <3>3, <1>9
  <2> QED
    BY <2>1, <2>2
<1>15. Served'
  <2> SUFFICES ASSUME NEW e \in registered'
               PROVE  \E t \in SlotNos, v \in Entries : Serves(t, v, e)'
    BY DEF Served
  <2>1. CASE e = op.dev
    <3>1. ASSUME NEW t \in SlotNos, NEW v \in Entries, t = s, v = u
          PROVE  Serves(t, v, e)'
      BY <3>1, <2>1, <1>1, <1>7, <1>9 DEF Serves, F, i
    <3> QED
      BY <3>1, <1>1
  <2>2. CASE e # op.dev
    <3>1. e \in registered \ {op.dev} /\ e \in Devs /\ IrqOf[e] \in Irqs
      BY <2>2, <1>1 DEF Types
    <3>2. PICK t \in SlotNos, v \in Entries : Serves(t, v, e)
      BY <3>1 DEF IInv, Served
    <3>3. Serves(t, v, e)'
      <4>1. CASE t = s
        BY <4>1, <3>2, <1>1, <1>7, <1>9 DEF Serves, F
      <4>2. CASE t # s
        <5>1. IrqOf[e] # i
          BY <4>2, <3>2, <1>12 DEF Serves
        <5> QED
          BY <4>2, <5>1, <3>1, <3>2, <1>6, <1>9 DEF Serves
      <4> QED
        BY <4>1, <4>2
    <3> QED
      BY <3>3
  <2> QED
    BY <2>1, <2>2
<1>16. NoOp \in OpType
  BY DEF NoOp, OpType
<1>17. Types'
  BY <1>1, <1>8, <1>9, <1>16 DEF Types
<1>18. OpSound'
  BY <1>1 DEF OpSound, NoOp
<1> QED
  BY <1>11, <1>13, <1>14, <1>15, <1>17, <1>18 DEF IInv

(* A refused hook leaves the slots as they are.                            *)
LEMMA HookFailsIInv ==
  ASSUME IInv, HookFails
  PROVE  IInv'
<1> USE IrqAssumption
<1>1. /\ op' = NoOp /\ UNCHANGED <<arSlots, hooked, registered, line>>
      /\ op.dev \notin registered /\ registered \subseteq Devs
  BY DEF HookFails, IInv, OpSound, Types
<1>2. NoOp \in OpType /\ NoOp.dev = None
  BY DEF NoOp, OpType
<1>3. Types' /\ OpSound'
  BY <1>1, <1>2 DEF IInv, Types, OpSound, NoOp
<1>4. OneSlotPerLine' /\ InUseHooked' /\ HookedInUse'
  BY <1>1 DEF IInv, OneSlotPerLine, InUseHooked, HookedInUse
<1>5. Served'
  BY <1>1 DEF IInv, Served, Serves
<1> QED
  BY <1>3, <1>4, <1>5 DEF IInv

(* free_irq takes the entry out of the handlers, and the last one unhooks  *)
(* the line: no other device is served by that entry.                      *)
LEMMA FreeIInv ==
  ASSUME IInv, NEW d \in Devs, free_irq(d)
  PROVE  IInv'
<1> USE IrqAssumption
<1> DEFINE s == FindSlot(IrqOf[d])
           V == {v \in Entries : arSlots[s].x2[v] = d}
           u == First(V)
           F == arSlots[s].flHandlers \ {u}
           i == IrqOf[d]
           k == IF F = {} THEN None ELSE i
<1>1. /\ op.pc = "none" /\ op = NoOp /\ d \in registered /\ s # None /\ u # None
      /\ op' = [pc |-> "clear", dev |-> d, slot |-> s, found |-> TRUE, u |-> u]
      /\ UNCHANGED <<registered, line>> /\ Types
  BY DEF free_irq, IInv, OpSound
<1>2. i \in Irqs /\ i # None
  OBVIOUS
<1>3. s \in SlotNos /\ arSlots[s].irqNo = i
  BY <1>1, <1>2, FindSlotIs DEF IInv
<1>4. u \in Entries /\ arSlots[s].x2[u] = d
  <2>1. V \in SUBSET Nat
    BY DEF Entries
  <2>2. u \in V
    BY <1>1, <2>1, FirstIn
  <2> QED
    BY <2>2
<1>5. arSlots[s] \in Slot /\ F \in SUBSET Entries
  BY <1>1, <1>3 DEF Types, Slot
<1>6. arSlots' = [arSlots EXCEPT ![s] = [irqNo |-> k, flHandlers |-> F,
                                         handler |-> arSlots[s].handler,
                                         x2 |-> arSlots[s].x2]]
  <2> DEFINE m == [irqNo |-> i, flHandlers |-> F, handler |-> arSlots[s].handler,
                   x2 |-> arSlots[s].x2]
             new == [irqNo |-> k, flHandlers |-> F, handler |-> arSlots[s].handler,
                     x2 |-> arSlots[s].x2]
             mid == [arSlots EXCEPT ![s] = m]
  <2>1. arSlots' = [arSlots EXCEPT ![s].flHandlers = @ \ {u},
                                   ![s].irqNo = IF F = {} THEN None ELSE @]
    BY DEF free_irq
  <2>2. [arSlots[s] EXCEPT !.flHandlers = F] = m
    <3> HIDE DEF F
    <3> QED
      BY <1>3, <1>5 DEF Slot
  <2> HIDE DEF s, u, i
  <2>3. [arSlots EXCEPT ![s].flHandlers = @ \ {u}] = mid
    BY <2>2
  <2>4. arSlots' = [mid EXCEPT ![s].irqNo = IF F = {} THEN None ELSE @]
    BY <2>1, <2>3
  <2>5. mid[s] = m /\ m.irqNo = i
    BY <1>1, <1>3 DEF Types
  <2>6. [m EXCEPT !.irqNo = k] = new
    <3> HIDE DEF F, k
    <3> QED
      OBVIOUS
  <2>7. arSlots' = [mid EXCEPT ![s] = [m EXCEPT !.irqNo = k]]
    <3> HIDE DEF m, mid, F
    <3> QED
      BY <2>4, <2>5
  <2>8. arSlots' = [mid EXCEPT ![s] = new]
    <3> HIDE DEF m, mid, new, F, k
    <3> QED
      BY <2>6, <2>7
  <2>9. arSlots' = [arSlots EXCEPT ![s] = new]
    <3> HIDE DEF m, new, F, k
    <3> QED
      BY <2>8, <1>1 DEF Types
  <2> QED
    BY <2>9
<1>7. hooked' = IF F = {} THEN [hooked EXCEPT ![i] = None] ELSE hooked
  BY DEF free_irq
<1>8. hooked \in [Irqs -> SlotNos \cup {None}]
  BY <1>1 DEF Types
<1>9. k \in Irqs \cup {None}
  BY <1>2
<1> HIDE DEF s, u, F, k
<1>10. /\ arSlots' \in [SlotNos -> Slot]
       /\ \A t \in SlotNos : t # s => arSlots'[t] = arSlots[t]
       /\ arSlots'[s].irqNo = k /\ arSlots'[s].flHandlers = F
       /\ arSlots'[s].handler = arSlots[s].handler /\ arSlots'[s].x2 = arSlots[s].x2
  BY <1>1, <1>3, <1>5, <1>6, <1>9, WriteHandlers
<1> HIDE DEF i
<1>11. /\ hooked' \in [Irqs -> SlotNos \cup {None}]
       /\ \A j \in Irqs : j # i => hooked'[j] = hooked[j]
       /\ F = {} => hooked'[i] = None
       /\ F # {} => hooked' = hooked
  BY <1>2, <1>7, <1>8
<1>12. \A t \in SlotNos : t # s => arSlots[t].irqNo # i
  BY <1>2, <1>3 DEF IInv, OneSlotPerLine
<1>13. k = (IF F = {} THEN None ELSE i)
  BY DEF k
<1>14. OneSlotPerLine'
  BY <1>2, <1>3, <1>10, <1>12, <1>13 DEF IInv, OneSlotPerLine
<1>15. F # {} => hooked[i] = s
  BY <1>3, <1>5 DEF IInv, InUseHooked, F
<1>16. InUseHooked'
  <2> SUFFICES ASSUME NEW t \in SlotNos, arSlots'[t].flHandlers # {}
               PROVE  arSlots'[t].irqNo # None /\ hooked'[arSlots'[t].irqNo] = t
    BY DEF InUseHooked
  <2>1. CASE t = s
    BY <2>1, <1>2, <1>10, <1>11, <1>13, <1>15
  <2>2. CASE t # s
    <3>1. arSlots'[t] = arSlots[t] /\ arSlots[t].irqNo \in Irqs \cup {None}
      BY <2>2, <1>1, <1>10 DEF Types, Slot
    <3>2. arSlots[t].irqNo # None /\ hooked[arSlots[t].irqNo] = t
      BY <3>1 DEF IInv, InUseHooked
    <3> QED
      BY <3>1, <3>2, <2>2, <1>11, <1>12
  <2> QED
    BY <2>1, <2>2
<1>17. HookedInUse'
  <2> SUFFICES ASSUME NEW j \in Irqs, hooked'[j] # None
               PROVE  arSlots'[hooked'[j]].irqNo = j /\ arSlots'[hooked'[j]].flHandlers # {}
    BY DEF HookedInUse
  <2>1. CASE j = i
    BY <2>1, <1>10, <1>11, <1>13, <1>15
  <2>2. CASE j # i
    <3>1. hooked'[j] = hooked[j] /\ hooked[j] \in SlotNos
      BY <2>2, <1>8, <1>11
    <3>2. arSlots[hooked[j]].irqNo = j /\ arSlots[hooked[j]].flHandlers # {}
      BY <3>1 DEF IInv, HookedInUse
    <3>3. hooked[j] # s
      BY <3>2, <2>2, <1>3
    <3> QED
      BY <3>1, <3>2, <3>3, <1>10
  <2> QED
    BY <2>1, <2>2
<1>18. op'.dev = d
  BY <1>1
<1>19. Served'
  <2> SUFFICES ASSUME NEW e \in registered \ {d}
               PROVE  \E t \in SlotNos, v \in Entries : Serves(t, v, e)'
    BY <1>1, <1>18 DEF Served
  <2>1. e \in registered \ {op.dev} /\ e \in Devs /\ IrqOf[e] \in Irqs
    BY <1>1 DEF NoOp, Types
  <2>2. PICK t \in SlotNos, v \in Entries : Serves(t, v, e)
    BY <2>1 DEF IInv, Served
  <2>3. Serves(t, v, e)'
    <3>1. CASE t = s
      <4>1. v # u
        BY <3>1, <2>2, <1>4 DEF Serves
      <4>2. v \in F
        BY <3>1, <4>1, <2>2 DEF Serves, F
      <4> QED
        BY <3>1, <4>2, <2>2, <1>3, <1>10, <1>11, <1>13 DEF Serves
    <3>2. CASE t # s
      <4>1. IrqOf[e] # i
        BY <3>2, <2>2, <1>12 DEF Serves
      <4> QED
        BY <3>2, <4>1, <2>1, <2>2, <1>10, <1>11 DEF Serves
    <3> QED
      BY <3>1, <3>2
  <2> QED
    BY <2>3
<1>20. op' \in OpType
  BY <1>1, <1>3, <1>4 DEF OpType
<1>21. Types'
  BY <1>1, <1>10, <1>11, <1>20 DEF Types
<1>22. OpSound'
  <2>1. op'.pc = "clear" /\ op'.dev = d /\ op'.slot = s /\ op'.u = u
    BY <1>1
  <2> QED
    BY <2>1, <1>3, <1>4, <1>10 DEF OpSound
<1> QED
  BY <1>14, <1>16, <1>17, <1>19, <1>21, <1>22 DEF IInv

(* The devices and the dispatcher change nothing but the asserted lines.   *)
LEMMA LineIInv ==
  ASSUME IInv, UNCHANGED <<arSlots, hooked, op, registered>>, line' \subseteq registered
  PROVE  IInv'
<1>1. Types' /\ OpSound'
  BY DEF IInv, Types, OpSound
<1>2. OneSlotPerLine' /\ InUseHooked' /\ HookedInUse'
  BY DEF IInv, OneSlotPerLine, InUseHooked, HookedInUse
<1>3. Served'
  BY DEF IInv, Served, Serves
<1> QED
  BY <1>1, <1>2, <1>3 DEF IInv

-----------------------------------------------------------------------------
(* Every step of a call, a device or the dispatcher keeps the invariant.   *)
LEMMA NextIInv ==
  ASSUME IInv, [Next]_vars
  PROVE  IInv'
<1>1. line \subseteq registered
  BY DEF IInv, Types
<1>2. ASSUME NEW d \in Devs, request_irq(d) PROVE IInv'
  BY <1>2, RequestIInv
<1>3. ASSUME NEW d \in Devs, free_irq(d) PROVE IInv'
  BY <1>3, FreeIInv
<1>4. ASSUME NEW d \in Devs, Raise(d) PROVE IInv'
  BY <1>1, <1>4, LineIInv DEF Raise
<1>5. ASSUME NEW i \in Irqs, ALSA_Interrupt(i) PROVE IInv'
  <2>1. line' \subseteq registered
    BY <1>1, <1>5 DEF ALSA_Interrupt, process_interrupt
  <2> QED
    BY <1>5, <2>1, LineIInv DEF ALSA_Interrupt
<1>6. CASE OpStep
  BY <1>6, SetHandlerIInv, SetUserDataIInv, HookIInv, HookFailsIInv, ClearEntryIInv
     DEF OpStep
<1>7. CASE UNCHANGED vars
  BY <1>1, <1>7, LineIInv DEF vars
<1> QED
  BY <1>2, <1>3, <1>4, <1>5, <1>6, <1>7 DEF Next

(* The inductive invariant holds in every reachable state.                 *)
THEOREM IrqSlotsInvariant == Spec => []IInv
<1>1. Init => IInv
  BY InitIInv
<1>2. IInv /\ [Next]_vars => IInv'
  BY NextIInv
<1> QED
  BY <1>1, <1>2, PTL DEF Spec

(* A line is hooked only while its slot has handlers, whatever requests    *)
(* and frees fail or interleave with the dispatcher.                       *)
THEOREM IrqHookedSlotInUse == Spec => []HookedSlotInUse
<1>1. IInv => HookedSlotInUse
  BY DEF IInv, Types, HookedInUse, HookedSlotInUse, TypeOK, Slot, OpType
<1> QED
  BY <1>1, IrqSlotsInvariant, PTL

(* A registered device stays within reach of its interrupts: FindSlot      *)
(* finds the one slot of its line, the line is hooked to it, and an entry  *)
(* of it has the device's handler and user data.                           *)
THEOREM IrqReachable == Spec => []Reachable
<1>1. ASSUME IInv PROVE Reachable
  <2> SUFFICES ASSUME NEW d \in registered \ {op.dev}
               PROVE  /\ FindSlot(IrqOf[d]) # None /\ hooked[IrqOf[d]] = FindSlot(IrqOf[d])
                      /\ \E u \in arSlots[FindSlot(IrqOf[d])].flHandlers :
                            /\ arSlots[FindSlot(IrqOf[d])].handler[u] = d
                            /\ arSlots[FindSlot(IrqOf[d])].x2[u] = d
    BY DEF Reachable
  <2>1. d \in Devs /\ IrqOf[d] \in Irqs
    BY <1>1, IrqAssumption DEF IInv, Types
  <2>2. PICK s \in SlotNos, u \in Entries : Serves(s, u, d)
    BY <1>1 DEF IInv, Served
  <2>3. FindSlot(IrqOf[d]) = s
    BY <1>1, <2>1, <2>2, FindSlotIs DEF IInv, Serves
  <2>4. s # None
    BY IrqAssumption DEF SlotNos
  <2> QED
    BY <2>2, <2>3, <2>4 DEF Serves
<1> QED
  BY <1>1, IrqSlotsInvariant, PTL
=============================================================================
