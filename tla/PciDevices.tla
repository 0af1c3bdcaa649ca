---------------------------- MODULE PciDevices ----------------------------
(***************************************************************************)
(* How the cards come and go: the card drivers that OSS32_Initialize tries *)
(* in turn (lib32/ossidc.c), the scan of the bus and the table of devices  *)
(* of pci_register_driver (lib32/pci.c), and the handles of the resource   *)
(* manager (drv32/rmhelp.c) that a probe obtains.                          *)
(*                                                                         *)
(* A handle is first the driver's own and listed in Resource_stt; a        *)
(* successful probe hands the list to a new adapter, a failed one gives it *)
(* back.  pci_request_region does not look at the answer of the resource   *)
(* manager, so a refused region does not fail a probe; an interrupt does.  *)
(* The adapter of a card has the name of the card.                         *)
(*                                                                         *)
(* An entry of the table counts as empty when its devfn is 0, which is     *)
(* also the devfn of the first device of every bus.  A probe that asks for *)
(* another device of the bus, with pci_get_device, leaves that device in   *)
(* the first empty entry, which may be the one of the card itself.         *)
(***************************************************************************)
EXTENDS Integers, Sequences

CONSTANTS
    NDevs,                  \* multimedia devices on the bus, in scan order
    NDrivers,               \* card drivers, in the order of cardcalls
    Matches,                \* Matches[v]: the devices that the id_table of v selects
    Claims,                 \* Claims[v]: the same without a look at the class
    NOthers,                \* other devices that a probe looks for
    Seeks,                  \* Seeks[v]: those that the probe of v looks for
    ByVendor,               \* those it looks for by their vendor alone
    ZeroDevfn,              \* the devices at slot 0, function 0 of their bus
    NRegions,               \* regions of a device
    MAX_PCI_DEVICES, MAX_RESHANDLES, OSS32_MAX_AUDIOCARDS,
    AdapterNumbers          \* values of iAdapterNumber, -1 for every card

Devs == 1 .. NDevs
Others == (NDevs + 1) .. (NDevs + NOthers)
AllDevs == Devs \cup Others
Drivers == 1 .. NDrivers
Slots == 1 .. MAX_PCI_DEVICES
Regions == 1 .. NRegions
Irq == 0
None == 0
Res == (AllDevs \cup {None}) \X ({Irq} \cup Regions)     \* None: line 0
Free == 0                   \* nobody has the resource
Own == NDevs + 1            \* the driver itself has it; adapters are named in Devs

ASSUME PciAssumption ==
    /\ NDevs \in Nat /\ NOthers \in Nat /\ NDrivers \in Nat /\ NRegions \in Nat
    /\ MAX_PCI_DEVICES \in Nat /\ MAX_RESHANDLES \in Nat
    /\ OSS32_MAX_AUDIOCARDS \in Nat \ {0}
    /\ Matches \in [Drivers -> SUBSET Devs] /\ Claims \in [Drivers -> SUBSET AllDevs]
    /\ Seeks \in [Drivers -> SUBSET Others]
    /\ \A v \in Drivers : Matches[v] \subseteq Claims[v]
    /\ \A v, w \in Drivers : v < w => Claims[v] \cap Matches[w] = {}
    /\ ZeroDevfn \subseteq AllDevs
    /\ AdapterNumbers \subseteq {-1} \cup Nat

VARIABLES
    pci_devices,    \* pci_devices[s]: dev, driver, hAdapter, and the device
                    \* whose interrupt the driver has for it
    Resource_stt,   \* the handles to give back when a probe fails
    AdapterHandle,  \* the adapter of the last card, or what RMSetHandles set
    rm,             \* rm[r]: Free, Own, or the adapter that has r
    scan,           \* the registration in progress
    iAdapterNumber,
    exitCalls,      \* fnCardExitCall, as long as nrCardsDetected
    unlisted,       \* history: handles that Resource_stt never listed
    accepted        \* history: devices whose probe succeeded, and those whose
                    \* interrupt it had asked for

vars == <<pci_devices, Resource_stt, AdapterHandle, rm, scan, iAdapterNumber,
          exitCalls, unlisted, accepted>>

handles == <<Resource_stt, AdapterHandle, rm, unlisted>>

NoDev == [dev |-> None, driver |-> None, hAdapter |-> None, irq |-> None]

\* pc: driver (take the next one), query, regions, irq, failed, up, down
Start == [pc |-> "driver", driver |-> 0, last |-> 0, slot |-> None,
          region |-> 0, irq |-> None, cards |-> 0, iAdapter |-> 0]

Init ==
    /\ pci_devices = [s \in Slots |-> NoDev]
    /\ Resource_stt = <<>> /\ AdapterHandle = None
    /\ rm = [r \in Res |-> Free]
    /\ scan = Start /\ iAdapterNumber \in AdapterNumbers
    /\ exitCalls = <<>>
    /\ unlisted = {} /\ accepted = {}

EmptySlots(table) == {s \in Slots : table[s].dev \in {None} \cup ZeroDevfn}
First(S) == CHOOSE s \in S : \A t \in S : s <= t
Used == Slots \ EmptySlots(pci_devices)

Dev == pci_devices[scan.slot].dev

-----------------------------------------------------------------------------
(* The resource manager.                                                   *)

Listed == {Resource_stt[i] : i \in 1 .. Len(Resource_stt)}

\* A handle beyond MAX_RESHANDLES is held and not listed.
List(r) ==
    IF Len(Resource_stt) < MAX_RESHANDLES
        THEN Resource_stt' = Append(Resource_stt, r) /\ UNCHANGED unlisted
        ELSE UNCHANGED Resource_stt /\ unlisted' = unlisted \cup {r}

\* Slip: the list is given back from its second entry on.
RMDeallocRes_AllButFirst ==
    /\ rm' = [r \in Res |-> IF r \in {Resource_stt[i] : i \in 2 .. Len(Resource_stt)} THEN Free ELSE rm[r]]
    /\ Resource_stt' = <<>>

RMDeallocRes ==
    /\ rm' = [r \in Res |-> IF r \in Listed THEN Free ELSE rm[r]]
    /\ Resource_stt' = <<>>

\* RMRequestIO and RMRequestMem
RMRequestRegion(r) ==
    /\ rm[r] = Free
    /\ rm' = [rm EXCEPT ![r] = Own]
    /\ List(r)
    /\ UNCHANGED AdapterHandle

\* The handle is added to the current adapter, whosever it is, or listed.
RMRequestIRQ(r) ==
    /\ rm[r] = Free
    /\ IF AdapterHandle # None
         THEN /\ rm' = [rm EXCEPT ![r] = AdapterHandle]
              /\ unlisted' = unlisted \cup {r}
              /\ UNCHANGED Resource_stt
         ELSE rm' = [rm EXCEPT ![r] = Own] /\ List(r)
    /\ UNCHANGED AdapterHandle

\* RMModifyResources refuses: the handle is allocated and nowhere recorded.
RMRequestIRQFails(r) ==
    /\ rm[r] = Free /\ AdapterHandle # None
    /\ rm' = [rm EXCEPT ![r] = Own]
    /\ unlisted' = unlisted \cup {r}
    /\ UNCHANGED <<Resource_stt, AdapterHandle>>

\* The interrupts of the devices D leave the current adapter; those that
\* another adapter or none has stay where they are.
RMDeallocateIRQ(D) ==
    rm' = [r \in Res |-> IF r \in D \X {Irq} /\ rm[r] = AdapterHandle THEN Free ELSE rm[r]]

\* Slip: the list is kept after its handles went to the adapter.
RMCreateAdapter_KeepsList ==
    /\ rm' = [r \in Res |-> IF r \in Listed THEN scan.last ELSE rm[r]]
    /\ AdapterHandle' = scan.last
    /\ UNCHANGED Resource_stt

\* RMCreateAdapterU32, in the end: the adapter takes the listed handles.
RMCreateAdapter ==
    /\ rm' = [r \in Res |-> IF r \in Listed THEN scan.last ELSE rm[r]]
    /\ Resource_stt' = <<>>
    /\ AdapterHandle' = scan.last

-----------------------------------------------------------------------------
(* OSS32_Initialize and pci_register_driver.                               *)

\* The next card driver; without an empty slot it finds no card.
RegisterDriver ==
    /\ scan.pc = "driver" /\ scan.driver < NDrivers
    /\ LET next == [Start EXCEPT !.driver = scan.driver + 1]
           empty == EmptySlots(pci_devices)
       IN  scan' = IF empty = {} THEN next
                   ELSE [next EXCEPT !.pc = "query", !.slot = First(empty)]
    /\ UNCHANGED <<pci_devices, handles, iAdapterNumber, exitCalls, accepted>>

\* pci_query_device finds the next device; the entry is filled, and emptied
\* again when the driver does not match or the adapter is to be skipped.
pci_query_device ==
    /\ scan.pc = "query" /\ scan.last < NDevs
    /\ LET d == scan.last + 1
           match == d \in Matches[scan.driver]
           skip == match /\ scan.iAdapter < iAdapterNumber
       IN  /\ pci_devices' = [pci_devices EXCEPT ![scan.slot] =
                                IF match /\ ~skip THEN [NoDev EXCEPT !.dev = d] ELSE NoDev]
           /\ scan' = [scan EXCEPT !.last = d,
                          !.iAdapter = IF skip THEN @ + 1 ELSE @,
                          !.pc = IF match /\ ~skip THEN "regions" ELSE @]
    /\ UNCHANGED <<handles, iAdapterNumber, exitCalls, accepted>>

\* No memory for the bus structure: the entry is cleared, the scan over.
QueryFails ==
    /\ scan.pc = "query" /\ scan.last < NDevs
    /\ pci_devices' = [pci_devices EXCEPT ![scan.slot] = NoDev]
    /\ scan' = [scan EXCEPT !.last = NDevs]
    /\ UNCHANGED <<handles, iAdapterNumber, exitCalls, accepted>>

\* Slip: the cards are entered when all of them fit.
ExitCalls_AllOrNone(n) ==
    IF n <= OSS32_MAX_AUDIOCARDS - Len(exitCalls)
        THEN exitCalls \o [i \in 1 .. n |-> scan.driver] ELSE exitCalls

\* fnCardExitCall gets the exit call of the driver once per card, up to the
\* size of the table.
ExitCalls(n) ==
    LET room == OSS32_MAX_AUDIOCARDS - Len(exitCalls)
        k == IF n < room THEN n ELSE room
    IN  exitCalls \o [i \in 1 .. k |-> scan.driver]

\* A full table of cards ends the initialisation.
ScanEnds ==
    /\ scan.pc = "query" /\ scan.last = NDevs
    /\ exitCalls' = ExitCalls(scan.cards)
    /\ scan' = [Start EXCEPT !.driver = scan.driver,
                   !.pc = IF Len(exitCalls') < OSS32_MAX_AUDIOCARDS THEN "driver" ELSE "up"]
    /\ UNCHANGED <<pci_devices, handles, iAdapterNumber, accepted>>

\* The probe asks for its regions one by one and may be refused any.
ProbeRegion ==
    /\ scan.pc = "regions" /\ scan.region < NRegions
    /\ \/ RMRequestRegion(<<Dev, scan.region + 1>>)
       \/ UNCHANGED handles
    /\ scan' = [scan EXCEPT !.region = @ + 1]
    /\ UNCHANGED <<pci_devices, iAdapterNumber, exitCalls, accepted>>

\* request_irq in the probe
ProbeIrq ==
    /\ scan.pc = "regions" /\ scan.region = NRegions
    /\ \/ RMRequestIRQ(<<Dev, Irq>>) /\ scan' = [scan EXCEPT !.pc = "irq", !.irq = Dev]
       \/ RMRequestIRQFails(<<Dev, Irq>>) /\ scan' = [scan EXCEPT !.pc = "failed"]
    /\ UNCHANGED <<pci_devices, iAdapterNumber, exitCalls, accepted>>

\* pci_get_device in the probe, which has its regions by then: a device that
\* is in the table is found there, unless it is asked for by its vendor
\* alone.  The first empty entry takes any other that is on the bus; without
\* memory for its bus structure that entry is cleared.
pci_find_device ==
    /\ scan.pc = "irq" \/ (scan.pc = "regions" /\ scan.region = NRegions)
    /\ EmptySlots(pci_devices) # {}
    /\ \E d \in Seeks[scan.driver], memory \in BOOLEAN :
          /\ d \in ByVendor \/ \A s \in Used : pci_devices[s].dev # d
          /\ pci_devices' = [pci_devices EXCEPT ![First(EmptySlots(pci_devices))] =
                                IF memory THEN [NoDev EXCEPT !.dev = d] ELSE NoDev]
    /\ UNCHANGED <<handles, scan, iAdapterNumber, exitCalls, accepted>>

\* A probe fails for want of an interrupt or for a reason of its own; some
\* drivers free their interrupt before they return.
ProbeFails ==
    /\ scan.pc \in {"regions", "irq"}
    /\ \/ UNCHANGED rm
       \/ scan.pc = "irq" /\ RMDeallocateIRQ({scan.irq})
    /\ scan' = [scan EXCEPT !.pc = "failed"]
    /\ UNCHANGED <<pci_devices, Resource_stt, AdapterHandle, unlisted, iAdapterNumber,
                   exitCalls, accepted>>

\* "release resources which were possibly allocated during probe()"
Failed ==
    /\ scan.pc = "failed"
    /\ RMDeallocRes
    /\ pci_devices' = [pci_devices EXCEPT ![scan.slot] = NoDev]
    /\ scan' = [scan EXCEPT !.pc = "query", !.region = 0, !.irq = None]
    /\ UNCHANGED <<AdapterHandle, unlisted, iAdapterNumber, exitCalls, accepted>>

\* The entry of a card that was probed, and the slot for the next device:
\* none when the table is full or one adapter was asked for.
Bind(hAdapter) ==
    /\ pci_devices' = [pci_devices EXCEPT ![scan.slot].driver = scan.driver,
                                          ![scan.slot].hAdapter = hAdapter,
                                          ![scan.slot].irq = scan.irq]
    /\ accepted' = accepted \cup {scan.last, scan.irq}
    /\ LET empty == EmptySlots(pci_devices')
           next == [scan EXCEPT !.pc = "query", !.region = 0, !.irq = None, !.cards = @ + 1]
       IN  scan' = IF empty = {} \/ iAdapterNumber >= 0
                     THEN [next EXCEPT !.last = NDevs]
                     ELSE [next EXCEPT !.slot = First(empty)]
    /\ UNCHANGED <<iAdapterNumber, exitCalls>>

Probed ==
    /\ scan.pc = "irq"
    /\ RMCreateAdapter
    /\ Bind(scan.last)
    /\ UNCHANGED unlisted

\* OSS32_QueryNames fails: the handles stay listed.
ProbedWithoutNames ==
    /\ scan.pc = "irq"
    /\ Bind(None)
    /\ UNCHANGED handles

\* RMCreateAdapter fails: the handles of the card are given back.
ProbedWithoutAdapter ==
    /\ scan.pc = "irq"
    /\ RMDeallocRes
    /\ Bind(None)
    /\ UNCHANGED <<AdapterHandle, unlisted>>

Initialized ==
    /\ scan.pc = "driver" /\ scan.driver = NDrivers
    /\ scan' = [scan EXCEPT !.pc = "up"]
    /\ UNCHANGED <<pci_devices, handles, iAdapterNumber, exitCalls, accepted>>

-----------------------------------------------------------------------------
\* OSS32_APMSuspend and OSS32_APMResume: no driver of the tree has the
\* callbacks, so only the handle of the last device is left behind.
APM ==
    /\ scan.pc = "up" /\ Used # {}
    /\ AdapterHandle' = pci_devices[CHOOSE s \in Used : \A t \in Used : s >= t].hAdapter
    /\ UNCHANGED <<pci_devices, Resource_stt, rm, unlisted, accepted, scan,
                   iAdapterNumber, exitCalls>>

\* Slip: the exit calls are made from the last to the first.
NextExit_Last == exitCalls[Len(exitCalls)]

NextExit == exitCalls[1]

\* OSS32_Shutdown makes an exit call: pci_unregister_driver removes the
\* devices that have a vendor and device id of the driver's id_table,
\* whatever their class; a driver that frees its interrupt does so.  An
\* entry that pci_find_device filled may be among them.
Shutdown ==
    /\ scan.pc \in {"up", "down"} /\ exitCalls # <<>>
    /\ LET gone == {s \in Used : pci_devices[s].dev \in Claims[NextExit]} IN
       /\ pci_devices' = [s \in Slots |-> IF s \in gone THEN NoDev ELSE pci_devices[s]]
       /\ \/ UNCHANGED rm
          \/ RMDeallocateIRQ({pci_devices[s].irq : s \in {t \in gone : pci_devices[t].driver # None}})
    /\ exitCalls' = Tail(exitCalls)
    /\ scan' = [scan EXCEPT !.pc = "down"]
    /\ UNCHANGED <<Resource_stt, AdapterHandle, unlisted, accepted, iAdapterNumber>>

Boot ==
    \/ RegisterDriver \/ pci_query_device \/ QueryFails \/ ScanEnds \/ ProbeRegion
    \/ ProbeIrq \/ pci_find_device \/ ProbeFails \/ Failed \/ Probed \/ ProbedWithoutNames
    \/ ProbedWithoutAdapter \/ Initialized

Next == Boot \/ APM \/ Shutdown

Spec == Init /\ [][Next]_vars

-----------------------------------------------------------------------------
\* Type correctness; Resource_stt never grows beyond its array.
TypeOK ==
    /\ pci_devices \in [Slots -> [dev : AllDevs \cup {None}, driver : Drivers \cup {None},
                                  hAdapter : Devs \cup {None}, irq : AllDevs \cup {None}]]
    /\ Resource_stt \in Seq(Res) /\ Len(Resource_stt) <= MAX_RESHANDLES
    /\ AdapterHandle \in Devs \cup {None}
    /\ rm \in [Res -> {Free, Own} \cup Devs]
    /\ scan \in [pc : {"driver", "query", "regions", "irq", "failed", "up", "down"},
                  driver : 0 .. NDrivers, last : 0 .. NDevs, slot : Slots \cup {None},
                  region : 0 .. NRegions, irq : AllDevs \cup {None},
                  cards : 0 .. NDevs, iAdapter : 0 .. NDevs]
    /\ exitCalls \in Seq(Drivers) /\ Len(exitCalls) <= OSS32_MAX_AUDIOCARDS
    /\ unlisted \subseteq Res /\ accepted \subseteq AllDevs \cup {None}

\* Resource_stt lists each handle once and only handles that the driver
\* holds, so that RMDeallocRes never gives back a handle twice or takes one
\* from an adapter, whatever cards came and failed before.
ListedHeld ==
    /\ TypeOK
    /\ \A i, j \in 1 .. Len(Resource_stt) : Resource_stt[i] = Resource_stt[j] => i = j
    /\ \A r \in Listed : rm[r] = Own

\* Between two probes the resource manager has nothing left of a card that
\* was not accepted, but for the handles that the list never held; and what
\* a scan passed over or failed to probe takes no entry of the table, where
\* an accepted device is once.  Entries without a driver are those of devices
\* that a probe so far has looked for, failed probes included.
FailedProbeReturns ==
    scan.pc \in {"driver", "query", "up"} =>
        /\ \A r \in Res : rm[r] # Free => r[1] \in accepted \/ r \in unlisted
        /\ \A s \in Slots : pci_devices[s].dev # None =>
              \/ pci_devices[s].driver # None
              \/ \E v \in Drivers : v <= scan.driver /\ pci_devices[s].dev \in Seeks[v]
        /\ \A s, t \in Slots : pci_devices[s].dev \in Devs =>
              (pci_devices[s].dev = pci_devices[t].dev => s = t)

\* The entry of an accepted card stays as it is, whatever is scanned and
\* probed after it, until pci_unregister_driver removes the card; and the
\* driver that removes it is the one that probed it, although the match of
\* the removal is wider.  It does not hold of a card whose devfn is 0: its
\* entry is taken for an empty one.  A region that went to an adapter stays
\* there: no later failure gives it back.
CardsKept ==
    [][/\ \A r \in Devs \X Regions : rm[r] \in Devs => rm'[r] = rm[r]
       /\ \A s \in Slots :
             pci_devices[s].driver # None /\ pci_devices[s].dev \in Devs \ ZeroDevfn =>
                 \/ pci_devices'[s] = pci_devices[s]
                 \/ Shutdown /\ NextExit = pci_devices[s].driver]_vars

\* Once the driver is up, every card has the exit call of its driver still
\* to come in fnCardExitCall, the size of that table notwithstanding, so
\* that a shutdown leaves no card; again but for a devfn of 0.  Nothing is
\* said of the other devices that probes have entered.
ExitsCover ==
    scan.pc \in {"up", "down"} =>
        \A s \in Used : pci_devices[s].dev \in Devs =>
            pci_devices[s].driver \in {exitCalls[i] : i \in 1 .. Len(exitCalls)}
=============================================================================
