------------------------------ MODULE IrqSlots ------------------------------
(***************************************************************************)
(* The interrupt slots of lib32/irq.c: request_irq, free_irq and           *)
(* process_interrupt, with the hooks of drv32/irq.c.  request_irq and      *)
(* free_irq run in task time with interrupts enabled: the dispatcher may   *)
(* come between any two of their assignments.  OS/2 calls the dispatcher   *)
(* for every interrupt on a hooked line, those of other drivers' devices   *)
(* included.                                                               *)
(***************************************************************************)
EXTENDS Integers, FiniteSets

CONSTANTS
    Devs,             \* devices of this driver; a device is the user data of its handler
    Irqs,             \* interrupt lines
    IrqOf,            \* the line of each device
    MAX_IRQ_SLOTS,
    MAX_SHAREDIRQS,
    None              \* NULL, no slot, no device

ASSUME IrqAssumption ==
    /\ IrqOf \in [Devs -> Irqs] /\ None \notin Devs \cup Irqs \cup Nat
    /\ MAX_IRQ_SLOTS \in Nat \ {0} /\ MAX_SHAREDIRQS \in Nat \ {0}

VARIABLES
    arSlots,      \* the slots: irqNo, flHandlers, handler and x2 of each entry
    hooked,       \* the slot whose ISR DevIRQSet attached to a line
    op,           \* the request_irq or free_irq in progress
    registered,   \* devices whose request_irq returned 0, until free_irq returns
    line          \* devices that assert their line

vars == <<arSlots, hooked, op, registered, line>>

SlotNos == 0 .. MAX_IRQ_SLOTS - 1
Entries == 0 .. MAX_SHAREDIRQS - 1

EmptySlot ==
    [irqNo |-> None, flHandlers |-> {},
     handler |-> [u \in Entries |-> None], x2 |-> [u \in Entries |-> None]]

NoOp == [pc |-> "none", dev |-> None, slot |-> None, found |-> FALSE, u |-> None]

Init ==
    /\ arSlots = [s \in SlotNos |-> EmptySlot]
    /\ hooked = [i \in Irqs |-> None]
    /\ op = NoOp
    /\ registered = {} /\ line = {}

First(S) == IF S = {} THEN None ELSE CHOOSE x \in S : \A y \in S : x <= y

FindSlot(irq) == First({s \in SlotNos : arSlots[s].irqNo = irq})

EmptySlotNo == First({s \in SlotNos : arSlots[s].flHandlers = {}})

-----------------------------------------------------------------------------
(* The slot of the line, or a slot without handlers.  The resource manager *)
(* may refuse; a slot whose entries are all taken keeps the new irqNo.     *)
request_irq(d) ==
    LET found == FindSlot(IrqOf[d])
        s == IF found # None THEN found ELSE EmptySlotNo
        u == First({v \in Entries : arSlots[s].handler[v] = None})
    IN  /\ op.pc = "none" /\ d \notin registered
        /\ s # None
        /\ arSlots' = [arSlots EXCEPT ![s].irqNo = IrqOf[d]]
        /\ op' = IF u = None THEN NoOp
                 ELSE [pc |-> "handler", dev |-> d, slot |-> s,
                       found |-> found # None, u |-> u]
        /\ UNCHANGED <<hooked, registered, line>>

(* The entry's handler is set before its user data.                        *)
SetHandler ==
    /\ op.pc = "handler"
    /\ arSlots' = [arSlots EXCEPT ![op.slot].handler[op.u] = op.dev]
    /\ op' = [op EXCEPT !.pc = "x2"]
    /\ UNCHANGED <<hooked, registered, line>>

SetUserData ==
    /\ op.pc = "x2"
    /\ arSlots' = [arSlots EXCEPT ![op.slot].x2[op.u] = op.dev]
    /\ op' = [op EXCEPT !.pc = "hook"]
    /\ UNCHANGED <<hooked, registered, line>>

(* The first handler of a slot hooks the line, which fails when the kernel *)
(* refuses it, and always when FindSlot had found the slot, for uSlotNo is *)
(* then -1.  Nothing is undone.                                            *)
Hook ==
    LET s == op.slot
        irq == IrqOf[op.dev]
    IN  /\ op.pc = "hook"
        /\ \/ /\ arSlots[s].flHandlers # {}
              /\ UNCHANGED hooked
           \/ /\ arSlots[s].flHandlers = {} /\ ~op.found
              /\ hooked' = [hooked EXCEPT ![irq] = s]
        /\ arSlots' = [arSlots EXCEPT ![s].flHandlers = @ \cup {op.u}]
        /\ registered' = registered \cup {op.dev}
        /\ op' = NoOp
        /\ UNCHANGED line

HookFails ==
    /\ op.pc = "hook" /\ arSlots[op.slot].flHandlers = {}
    /\ op' = NoOp
    /\ UNCHANGED <<arSlots, hooked, registered, line>>

free_irq_NoUnhook(d) ==
    LET s == FindSlot(IrqOf[d])
        u == First({v \in Entries : arSlots[s].x2[v] = d})
    IN  /\ op.pc = "none" /\ d \in registered /\ s # None /\ u # None
        /\ arSlots' = [arSlots EXCEPT ![s].flHandlers = @ \ {u}]
        /\ op' = [pc |-> "clear", dev |-> d, slot |-> s, found |-> TRUE, u |-> u]
        /\ UNCHANGED <<hooked, registered, line>>

free_irq_Always(d) ==
    LET s == FindSlot(IrqOf[d])
        u == First({v \in Entries : arSlots[s].x2[v] = d})
    IN  /\ op.pc = "none" /\ d \in registered /\ s # None /\ u # None
        /\ arSlots' = [arSlots EXCEPT ![s].flHandlers = @ \ {u}]
        /\ hooked' = [hooked EXCEPT ![IrqOf[d]] = None]
        /\ op' = [pc |-> "clear", dev |-> d, slot |-> s, found |-> TRUE, u |-> u]
        /\ UNCHANGED <<registered, line>>

(* The last handler of the slot unhooks the line.                          *)
free_irq(d) ==
    LET s == FindSlot(IrqOf[d])
        u == First({v \in Entries : arSlots[s].x2[v] = d})
        last == arSlots[s].flHandlers \ {u} = {}
    IN  /\ op.pc = "none" /\ d \in registered /\ s # None /\ u # None
        /\ arSlots' = [arSlots EXCEPT ![s].flHandlers = @ \ {u},
                                      ![s].irqNo = IF last THEN None ELSE @]
        /\ hooked' = IF last THEN [hooked EXCEPT ![IrqOf[d]] = None] ELSE hooked
        /\ op' = [pc |-> "clear", dev |-> d, slot |-> s, found |-> TRUE, u |-> u]
        /\ UNCHANGED <<registered, line>>

ClearEntry ==
    /\ op.pc = "clear"
    /\ arSlots' = [arSlots EXCEPT ![op.slot].handler[op.u] = None,
                                  ![op.slot].x2[op.u] = None]
    /\ registered' = registered \ {op.dev}
    /\ line' = line \ {op.dev}
    /\ op' = NoOp
    /\ UNCHANGED hooked

-----------------------------------------------------------------------------
(* A registered device asserts its line; free_irq's caller has quieted it. *)
Raise(d) ==
    /\ d \in registered \ line
    /\ line' = line \cup {d}
    /\ UNCHANGED <<arSlots, hooked, op, registered>>

(* An entry claims the interrupt when its device asserts the line.         *)
Claims(s) == {u \in Entries : arSlots[s].handler[u] \in line}

(* The handlers process_interrupt calls: the entries in order, up to the   *)
(* first that claims.                                                      *)
Called(s) ==
    {u \in Entries : /\ arSlots[s].handler[u] # None
                     /\ \A v \in Claims(s) : u <= v}

process_interrupt_FirstOnly(s) ==
    LET u == First({v \in Entries : arSlots[s].handler[v] # None})
    IN  line' = line \ {arSlots[s].handler[w] : w \in {u} \cap Claims(s)}

process_interrupt(s) ==
    line' = line \ {arSlots[s].handler[u] : u \in Called(s) \cap Claims(s)}

ALSA_Interrupt(irq) ==
    /\ hooked[irq] # None
    /\ process_interrupt(hooked[irq])
    /\ UNCHANGED <<arSlots, hooked, op, registered>>

OpStep == SetHandler \/ SetUserData \/ Hook \/ HookFails \/ ClearEntry

Next ==
    \/ \E d \in Devs : request_irq(d) \/ free_irq(d) \/ Raise(d)
    \/ \E i \in Irqs : ALSA_Interrupt(i)
    \/ OpStep

(* A line is level triggered: the kernel calls the ISR until it is quiet.  *)
Spec ==
    /\ Init /\ [][Next]_vars
    /\ WF_vars(OpStep)
    /\ \A i \in Irqs : WF_vars(ALSA_Interrupt(i))

-----------------------------------------------------------------------------
(* The type invariant; only registered devices assert their lines.         *)
TypeOK ==
    /\ arSlots \in [SlotNos -> [irqNo : Irqs \cup {None},
                                flHandlers : SUBSET Entries,
                                handler : [Entries -> Devs \cup {None}],
                                x2 : [Entries -> Devs \cup {None}]]]
    /\ hooked \in [Irqs -> SlotNos \cup {None}]
    /\ op.pc \in {"none", "handler", "x2", "hook", "clear"}
    /\ registered \subseteq Devs /\ line \subseteq registered

(* A registered device stays within reach of its interrupts whatever the   *)
(* other devices of the line request, free or fail to get: its line is     *)
(* hooked to the slot FindSlot finds, and one entry of it has its handler  *)
(* and its user data.                                                      *)
Reachable ==
    \A d \in registered \ {op.dev} :
        LET s == FindSlot(IrqOf[d])
        IN  /\ s # None /\ hooked[IrqOf[d]] = s
            /\ \E u \in arSlots[s].flHandlers :
                  arSlots[s].handler[u] = d /\ arSlots[s].x2[u] = d

(* A line is hooked only while its slot has handlers: a slot is never      *)
(* given to another line while the old line still reaches it.              *)
HookedSlotInUse ==
    /\ TypeOK
    /\ \A i \in Irqs : hooked[i] # None =>
          /\ arSlots[hooked[i]].irqNo = i
          /\ arSlots[hooked[i]].flHandlers # {}

(* process_interrupt looks at every handler of a shared line until one     *)
(* claims: no interrupt is lost behind another's, unless the devices of    *)
(* the line never stop raising new ones.                                   *)
Serviced ==
    <>[][~ \E d \in Devs : Raise(d)]_vars =>
        \A d \in Devs : d \in line ~> d \notin line
=============================================================================
