------------------------ MODULE PciDevices_proofs ------------------------
(***************************************************************************)
(* The table of devices, the handles of the resource manager and the exit  *)
(* calls are sound for every bus and every set of card drivers.            *)
(*                                                                         *)
(* The inductive invariant says what the scan has in its hands, that an    *)
(* entry of the table is empty, bound to a driver that matches the device, *)
(* that of a device some probe looked for, or the one being probed, that a *)
(* handle in use is an accepted card's, on the list or never was there,    *)
(* and that the exit calls come in the order of the drivers, one at least  *)
(* for each driver that has a card.                                        *)
(***************************************************************************)
EXTENDS PciDevices, WellFoundedInduction, TLAPS

Probing == scan.pc \in {"regions", "irq", "failed"}
Scanning == Probing \/ scan.pc = "query"

(* The registration in progress: the counters stay below the device that   *)
(* was looked at last, and a device is read into an empty entry only.  The *)
(* entry of a card whose devfn is 0 may be lost to a device that its probe *)
(* looks for, once the probe has asked for its regions.                    *)
ScanSound ==
    /\ iAdapterNumber \in Int
    /\ scan.iAdapter <= scan.last
    /\ Scanning => scan.slot \in Slots /\ scan.driver \in Drivers
    /\ scan.pc = "query" =>
          /\ scan.cards <= scan.last
          /\ scan.last < NDevs => scan.slot \in EmptySlots(pci_devices)
    /\ Probing => /\ scan.last \in Matches[scan.driver] /\ scan.cards < scan.last
                  /\ pci_devices[scan.slot].driver = None
                  /\ Dev \in {scan.last, None} \cup Others
    /\ scan.pc = "regions" /\ scan.region < NRegions => Dev = scan.last

(* An entry that belongs to a driver, of those registered so far; what the *)
(* driver being registered has was scanned before the current device.      *)
Bound(s) ==
    /\ pci_devices[s].driver \in Drivers
    /\ pci_devices[s].dev \in Matches[pci_devices[s].driver] \cup Others \cup {None}
    /\ pci_devices[s].driver <= scan.driver
    /\ pci_devices[s].driver = scan.driver /\ pci_devices[s].dev \in Devs =>
          /\ scan.pc = "query" => pci_devices[s].dev <= scan.last
          /\ Probing => pci_devices[s].dev < scan.last

(* An entry that pci_find_device has filled.                               *)
Sought(s) ==
    /\ pci_devices[s].driver = None
    /\ pci_devices[s].dev \in Others
    /\ \E v \in Drivers : v <= scan.driver /\ pci_devices[s].dev \in Seeks[v]

(* The entries of the table, in which no card is twice.                    *)
TableSound ==
    /\ \A s \in Slots : \/ pci_devices[s] = NoDev
                        \/ Bound(s)
                        \/ Sought(s)
                        \/ Probing /\ s = scan.slot
    /\ \A s, t \in Slots :
          pci_devices[s].dev \in Devs /\ pci_devices[s].dev = pci_devices[t].dev => s = t

(* Every handle in use is accounted for, and the list holds handles of     *)
(* accepted cards and of the one being probed, or all of them go back.     *)
Accounted ==
    /\ \A r \in Res : rm[r] # Free => r[1] \in accepted \/ r \in unlisted \/ r \in Listed
    /\ \A r \in Listed : \/ r[1] \in accepted \/ (Probing /\ r[1] = scan.last)
                         \/ (scan.pc = "irq" /\ r[1] = scan.irq) \/ scan.pc = "failed"

HasExit(v) == \E i \in 1 .. Len(exitCalls) : exitCalls[i] = v

(* The exit calls are in the order of the drivers, and a driver that has a *)
(* card has one or is about to get it.                                     *)
ExitsSound ==
    /\ \A i, j \in 1 .. Len(exitCalls) : i <= j => exitCalls[i] <= exitCalls[j]
    /\ \A i \in 1 .. Len(exitCalls) : exitCalls[i] <= scan.driver
    /\ scan.pc \notin {"up", "down"} => Len(exitCalls) < OSS32_MAX_AUDIOCARDS
    /\ \A s \in Used : pci_devices[s].driver # None /\ pci_devices[s].dev \in Devs =>
          \/ HasExit(pci_devices[s].driver)
          \/ Scanning /\ pci_devices[s].driver = scan.driver /\ scan.cards > 0

(* The types and ListedHeld in two parts: the handles, and the rest.       *)
HandlesOK ==
    /\ Resource_stt \in Seq(Res) /\ Len(Resource_stt) <= MAX_RESHANDLES
    /\ AdapterHandle \in Devs \cup {None}
    /\ rm \in [Res -> {Free, Own} \cup Devs]
    /\ unlisted \subseteq Res
    /\ \A i, j \in 1 .. Len(Resource_stt) : Resource_stt[i] = Resource_stt[j] => i = j
    /\ \A r \in Listed : rm[r] = Own

Entry == [dev : AllDevs \cup {None}, driver : Drivers \cup {None},
          hAdapter : Devs \cup {None}, irq : AllDevs \cup {None}]

ScanType == [pc : {"driver", "query", "regions", "irq", "failed", "up", "down"},
             driver : 0 .. NDrivers, last : 0 .. NDevs, slot : Slots \cup {None},
             region : 0 .. NRegions, irq : AllDevs \cup {None},
             cards : 0 .. NDevs, iAdapter : 0 .. NDevs]

RestOK ==
    /\ pci_devices \in [Slots -> Entry]
    /\ scan \in ScanType
    /\ exitCalls \in Seq(Drivers) /\ Len(exitCalls) <= OSS32_MAX_AUDIOCARDS
    /\ accepted \subseteq AllDevs \cup {None}

(* The inductive invariant.                                                *)
IInv == HandlesOK /\ RestOK /\ ScanSound /\ TableSound /\ Accounted /\ ExitsSound

USE DEF None, Free

-----------------------------------------------------------------------------
(* The cards are none of the devices that the probes look for.             *)
LEMMA Apart ==
  /\ Devs \cap Others = {} /\ None \notin AllDevs
  /\ \A v \in Drivers : Matches[v] \subseteq Devs /\ Seeks[v] \subseteq Others
BY PciAssumption DEF Devs, Others, AllDevs

(* A non-empty set of natural numbers has a least element.                 *)
LEMMA LeastNat ==
  ASSUME NEW T \in SUBSET Nat, T # {}
  PROVE  \E x \in T : \A y \in T : x <= y
<1> DEFINE R == OpToRel(<, Nat)
<1>1. IsWellFoundedOn(R, Nat)
  BY NatLessThanWellFounded
<1>2. \A x, y \in Nat : y < x => <<y, x>> \in R
  BY DEF OpToRel
<1> HIDE DEF R
<1>3. PICK x \in T : \A y \in T : ~ (<<y, x>> \in R)
  BY <1>1, WFMin
<1>4. ASSUME NEW y \in T PROVE x <= y
  <2>1. x \in Nat /\ y \in Nat /\ ~(<<y, x>> \in R)
    BY <1>3
  <2>2. ~(y < x)
    BY <2>1, <1>2
  <2> QED
    BY <2>1, <2>2
<1> QED
  BY <1>4

(* A non-empty set of numbers up to n has a greatest element.              *)
LEMMA GreatestNat ==
  ASSUME NEW n \in Nat, NEW T \in SUBSET (0 .. n), T # {}
  PROVE  \E x \in T : \A y \in T : x >= y
<1> DEFINE U == {k \in Nat : \E x \in T : k = n - x}
<1>1. U \in SUBSET Nat /\ U # {}
  <2>1. PICK x \in T : TRUE
    OBVIOUS
  <2>2. n - x \in Nat
    OBVIOUS
  <2> QED
    BY <2>2
<1>2. PICK k \in U : \A l \in U : k <= l
  <2> HIDE DEF U
  <2> QED
    BY <1>1, LeastNat
<1>3. PICK x \in T : k = n - x
  OBVIOUS
<1>4. ASSUME NEW y \in T PROVE x >= y
  <2>1. n - y \in U
    OBVIOUS
  <2> HIDE DEF U
  <2>2. k <= n - y
    BY <2>1, <1>2
  <2> QED
    BY <2>2, <1>3
<1> QED
  BY <1>4

(* The entry that the scan of the table comes to is one of those it        *)
(* looked for.                                                             *)
LEMMA FirstIn ==
  ASSUME NEW S \in SUBSET Slots, S # {}
  PROVE  First(S) \in S
<1>1. S \in SUBSET Nat
  BY PciAssumption DEF Slots
<1>2. \E s \in S : \A t \in S : s <= t
  BY <1>1, LeastNat
<1> QED
  BY <1>2 DEF First

-----------------------------------------------------------------------------
(* A listed handle is one more on the list; a handle beyond the size of    *)
(* the list counts as unlisted.                                            *)
LEMMA ListRes ==
  ASSUME HandlesOK, NEW r \in Res, rm[r] = Free, List(r), rm' = [rm EXCEPT ![r] = Own],
         UNCHANGED AdapterHandle
  PROVE  /\ HandlesOK'
         /\ \A q \in Listed' : q \in Listed \/ q = r
         /\ \A q \in Listed : q \in Listed'
         /\ unlisted \subseteq unlisted' /\ (r \in Listed' \/ r \in unlisted')
<1> USE PciAssumption
<1> DEFINE n == Len(Resource_stt)
<1>1. n \in Nat /\ \A i \in 1 .. n : Resource_stt[i] \in Res /\ Resource_stt[i] # r
  BY DEF HandlesOK, Own, Listed
<1>2. rm' \in [Res -> {Free, Own} \cup Devs] /\ rm'[r] = Own
      /\ \A q \in Res \ {r} : rm'[q] = rm[q]
  BY DEF HandlesOK
<1>3. CASE n < MAX_RESHANDLES
  <2>1. Resource_stt' = Append(Resource_stt, r) /\ unlisted' = unlisted
    BY <1>3 DEF List
  <2>2. /\ Resource_stt' \in Seq(Res) /\ Len(Resource_stt') = n + 1
        /\ Resource_stt'[n + 1] = r
        /\ \A i \in 1 .. n : Resource_stt'[i] = Resource_stt[i]
    BY <2>1 DEF HandlesOK
  <2>3. \A q \in Listed' : q \in Listed \/ q = r
    BY <1>1, <2>2 DEF Listed
  <2>4. (\A q \in Listed : q \in Listed') /\ r \in Listed'
    <3>1. \A i \in 1 .. n : i \in 1 .. n + 1
      BY <1>1
    <3>2. n + 1 \in 1 .. n + 1
      BY <1>1
    <3> QED
      BY <2>2, <3>1, <3>2 DEF Listed
  <2>5. \A i, j \in 1 .. n + 1 : Resource_stt'[i] = Resource_stt'[j] => i = j
    <3> SUFFICES ASSUME NEW i \in 1 .. n + 1, NEW j \in 1 .. n + 1,
                        Resource_stt'[i] = Resource_stt'[j]
                 PROVE  i = j
      OBVIOUS
    <3>1. (i \in 1 .. n \/ i = n + 1) /\ (j \in 1 .. n \/ j = n + 1)
      BY <1>1
    <3> QED
      BY <3>1, <2>2, <1>1 DEF HandlesOK
  <2>6. \A q \in Listed' : rm'[q] = Own
    BY <2>3, <1>1, <1>2 DEF HandlesOK, Listed
  <2>7. n + 1 <= MAX_RESHANDLES
    BY <1>1, <1>3
  <2> QED
    BY <2>1, <2>2, <2>3, <2>4, <2>5, <2>6, <2>7, <1>2 DEF HandlesOK
<1>4. CASE ~(n < MAX_RESHANDLES)
  <2>1. Resource_stt' = Resource_stt /\ unlisted' = unlisted \cup {r}
    BY <1>4 DEF List
  <2>2. Listed' = Listed
    BY <2>1 DEF Listed
  <2>4. \A q \in Listed : q \in Res \ {r}
    BY <1>1 DEF Listed
  <2>3. \A q \in Listed' : rm'[q] = Own
    BY <2>2, <2>4, <1>2 DEF HandlesOK
  <2> QED
    BY <2>1, <2>2, <2>3, <1>2 DEF HandlesOK
<1> QED
  BY <1>3, <1>4

(* What a request of the probe leaves: the list holds what the driver has, *)
(* nothing but the requested handle changes hands, and that handle is on   *)
(* the list or known not to be.                                            *)
Requested(r) ==
    /\ HandlesOK'
    /\ \A q \in Listed' : q \in Listed \/ q = r
    /\ \A q \in Listed : q \in Listed'
    /\ unlisted \subseteq unlisted' /\ (r \in Listed' \/ r \in unlisted')
    /\ rm[r] = Free /\ \A q \in Res \ {r} : rm'[q] = rm[q]

(* RMRequestIO and RMRequestMem.                                           *)
LEMMA RequestRegion ==
  ASSUME HandlesOK, NEW r \in Res, RMRequestRegion(r)
  PROVE  Requested(r)
<1>1. \A q \in Res \ {r} : rm'[q] = rm[q]
  BY DEF RMRequestRegion, HandlesOK
<1>2. rm[r] = Free /\ List(r) /\ rm' = [rm EXCEPT ![r] = Own] /\ UNCHANGED AdapterHandle
  BY DEF RMRequestRegion
<1> QED
  BY <1>1, <1>2, ListRes DEF Requested

(* RMRequestIRQ, granted or not.                                           *)
LEMMA RequestIRQ ==
  ASSUME HandlesOK, NEW r \in Res, RMRequestIRQ(r) \/ RMRequestIRQFails(r)
  PROVE  Requested(r)
<1> USE PciAssumption
<1>1. rm[r] = Free /\ UNCHANGED AdapterHandle
  BY DEF RMRequestIRQ, RMRequestIRQFails
<1>2. CASE List(r) /\ rm' = [rm EXCEPT ![r] = Own]
  <2>1. \A q \in Res \ {r} : rm'[q] = rm[q]
    BY <1>2 DEF HandlesOK
  <2> QED
    BY <1>1, <1>2, <2>1, ListRes DEF Requested
<1>3. CASE /\ \E h \in {Own} \cup Devs : rm' = [rm EXCEPT ![r] = h]
           /\ unlisted' = unlisted \cup {r} /\ UNCHANGED Resource_stt
  <2>1. PICK h \in {Own} \cup Devs : rm' = [rm EXCEPT ![r] = h]
    BY <1>3
  <2>2. /\ rm' \in [Res -> {Free, Own} \cup Devs]
        /\ \A q \in Res \ {r} : rm'[q] = rm[q]
    BY <2>1 DEF HandlesOK
  <2>3. Listed' = Listed /\ r \notin Listed /\ Listed \subseteq Res
    BY <1>1, <1>3 DEF HandlesOK, Listed, Own
  <2>4. \A q \in Listed' : rm'[q] = Own
    BY <2>2, <2>3 DEF HandlesOK
  <2> QED
    BY <1>1, <1>3, <2>2, <2>3, <2>4 DEF HandlesOK, Requested
<1>4. AdapterHandle # None => AdapterHandle \in Devs
  BY DEF HandlesOK
<1>5. CASE RMRequestIRQ(r)
  <2>1. CASE AdapterHandle # None
    BY <2>1, <1>3, <1>4, <1>5 DEF RMRequestIRQ
  <2>2. CASE AdapterHandle = None
    BY <2>2, <1>2, <1>5 DEF RMRequestIRQ
  <2> QED
    BY <2>1, <2>2
<1>6. CASE RMRequestIRQFails(r)
  BY <1>6, <1>3 DEF RMRequestIRQFails
<1> QED
  BY <1>5, <1>6

(* RMDeallocRes frees what is listed and nothing else.                     *)
LEMMA DeallocRes ==
  ASSUME HandlesOK, RMDeallocRes, UNCHANGED <<AdapterHandle, unlisted>>
  PROVE  /\ HandlesOK' /\ Listed' = {}
         /\ \A q \in Res : rm'[q] = IF q \in Listed THEN Free ELSE rm[q]
<1>1. \A q \in Res : rm'[q] = IF q \in Listed THEN Free ELSE rm[q]
  BY DEF RMDeallocRes
<1>2. rm' \in [Res -> {Free, Own} \cup Devs]
  BY DEF RMDeallocRes, HandlesOK
<1>3. Resource_stt' = <<>> /\ Listed' = {}
  BY DEF RMDeallocRes, Listed
<1> QED
  BY <1>1, <1>2, <1>3, PciAssumption DEF HandlesOK

(* RMCreateAdapter gives the listed handles to the adapter of the device.  *)
LEMMA CreateAdapter ==
  ASSUME HandlesOK, RMCreateAdapter, scan.last \in Devs, UNCHANGED unlisted
  PROVE  /\ HandlesOK' /\ Listed' = {}
         /\ \A q \in Res : rm'[q] = IF q \in Listed THEN scan.last ELSE rm[q]
<1>1. \A q \in Res : rm'[q] = IF q \in Listed THEN scan.last ELSE rm[q]
  BY DEF RMCreateAdapter
<1>2. rm' \in [Res -> {Free, Own} \cup Devs]
  BY DEF RMCreateAdapter, HandlesOK
<1>3. Resource_stt' = <<>> /\ Listed' = {}
  BY DEF RMCreateAdapter, Listed
<1> QED
  BY <1>1, <1>2, <1>3, PciAssumption DEF HandlesOK, RMCreateAdapter

(* RMDeallocateIRQ takes interrupts from an adapter, and so none that is   *)
(* listed and no region.                                                   *)
LEMMA DeallocateIRQ ==
  ASSUME HandlesOK, NEW D, UNCHANGED rm \/ RMDeallocateIRQ(D),
         UNCHANGED <<Resource_stt, AdapterHandle, unlisted>>
  PROVE  /\ HandlesOK' /\ Listed' = Listed
         /\ \A q \in Res : rm'[q] # Free => rm'[q] = rm[q]
         /\ \A q \in Devs \X Regions : rm'[q] = rm[q]
<1> USE PciAssumption
<1>1. Listed' = Listed /\ Listed \subseteq Res
  BY DEF HandlesOK, Listed
<1>2. CASE UNCHANGED rm
  BY <1>1, <1>2 DEF HandlesOK
<1>3. CASE RMDeallocateIRQ(D)
  <2>1. \A q \in Res : rm'[q] = IF q \in D \X {Irq} /\ rm[q] = AdapterHandle
                                 THEN Free ELSE rm[q]
    BY <1>3 DEF RMDeallocateIRQ
  <2>2. rm' \in [Res -> {Free, Own} \cup Devs]
    BY <1>3 DEF RMDeallocateIRQ, HandlesOK
  <2>3. AdapterHandle # Own
    BY DEF HandlesOK, Devs, Own
  <2>4. \A q \in Listed' : rm'[q] = Own
    BY <1>1, <2>1, <2>3 DEF HandlesOK
  <2>5. \A q \in Devs \X Regions : q \in Res /\ q \notin D \X {Irq}
    BY DEF Res, AllDevs, Regions, Irq
  <2>6. \A q \in Devs \X Regions : rm'[q] = rm[q]
    BY <2>1, <2>5
  <2>7. \A q \in Res : rm'[q] # Free => rm'[q] = rm[q]
    BY <2>1
  <2> QED
    BY <1>1, <2>2, <2>4, <2>6, <2>7 DEF HandlesOK
<1> QED
  BY <1>2, <1>3

-----------------------------------------------------------------------------
(* The invariant holds before any driver is registered.                    *)
LEMMA InitIInv == Init => IInv
<1> SUFFICES ASSUME Init PROVE IInv
  OBVIOUS
<1> USE PciAssumption DEF Init, Start
<1>1. HandlesOK
  BY DEF HandlesOK, Listed
<1>2. RestOK
  BY DEF RestOK, Entry, ScanType, NoDev
<1>3. ~Probing /\ ~Scanning /\ scan.pc = "driver"
  BY DEF Probing, Scanning
<1>4. ScanSound
  BY <1>3 DEF ScanSound
<1>5. TableSound
  BY Apart DEF TableSound, NoDev, AllDevs
<1>6. Accounted
  BY DEF Accounted, Listed
<1>7. ExitsSound
  BY <1>3 DEF ExitsSound, Used, NoDev
<1> QED
  BY <1>1, <1>2, <1>4, <1>5, <1>6, <1>7 DEF IInv

(* The next driver: none of the devices in the table matches it.           *)
LEMMA RegisterDriverIInv ==
  ASSUME IInv, RegisterDriver
  PROVE  IInv'
<1> USE PciAssumption
<1>1. /\ scan.pc = "driver" /\ scan.driver \in 0 .. NDrivers /\ scan.driver < NDrivers
      /\ UNCHANGED <<pci_devices, Resource_stt, AdapterHandle, rm, unlisted,
                     iAdapterNumber, exitCalls, accepted>>
  BY DEF IInv, RestOK, ScanType, RegisterDriver, handles
<1>2. ~Probing /\ ~Scanning
  BY <1>1 DEF Probing, Scanning
<1>3. /\ scan' \in ScanType
      /\ scan'.driver = scan.driver + 1 /\ scan'.last = 0 /\ scan'.cards = 0
      /\ scan'.iAdapter = 0
      /\ \/ scan'.pc = "driver"
         \/ scan'.pc = "query" /\ scan'.slot \in EmptySlots(pci_devices)
  <2>1. CASE EmptySlots(pci_devices) = {}
    BY <2>1, <1>1 DEF RegisterDriver, Start, ScanType
  <2>2. CASE EmptySlots(pci_devices) # {}
    <3>1. EmptySlots(pci_devices) \in SUBSET Slots
      BY DEF EmptySlots
    <3>2. First(EmptySlots(pci_devices)) \in EmptySlots(pci_devices)
      BY <2>2, <3>1, FirstIn
    <3>3. scan' = [[Start EXCEPT !.driver = scan.driver + 1] EXCEPT
                      !.pc = "query", !.slot = First(EmptySlots(pci_devices))]
      BY <2>2 DEF RegisterDriver
    <3>4. scan' = [pc |-> "query", driver |-> scan.driver + 1, last |-> 0,
                   slot |-> First(EmptySlots(pci_devices)),
                   region |-> 0, irq |-> None, cards |-> 0, iAdapter |-> 0]
      BY <3>3 DEF Start
    <3>5. scan.driver + 1 \in 0 .. NDrivers /\ First(EmptySlots(pci_devices)) \in Slots
      BY <1>1, <3>1, <3>2
    <3> QED
      BY <3>2, <3>4, <3>5 DEF ScanType
  <2> QED
    BY <2>1, <2>2
<1>4. ~Probing' /\ scan'.driver \in Drivers
  BY <1>1, <1>3 DEF Probing, Drivers
<1>5. HandlesOK' /\ RestOK'
  BY <1>1, <1>3 DEF IInv, HandlesOK, RestOK, Listed
<1>6. ScanSound'
  <2>1. scan'.slot \in EmptySlots(pci_devices) => scan'.slot \in Slots
    BY DEF EmptySlots
  <2> QED
    BY <1>1, <1>3, <1>4, <2>1 DEF IInv, ScanSound, Scanning, EmptySlots
<1>7. TableSound'
  <2>1. ASSUME NEW s \in Slots, Bound(s) PROVE Bound(s)'
    BY <2>1, <1>1, <1>3, <1>4 DEF Bound, Drivers
  <2>2. ASSUME NEW s \in Slots, Sought(s) PROVE Sought(s)'
    BY <2>2, <1>1, <1>3 DEF Sought, Drivers
  <2> QED
    BY <2>1, <2>2, <1>1, <1>2 DEF IInv, TableSound
<1>8. Accounted'
  BY <1>1, <1>2 DEF IInv, Accounted, Listed, Probing
<1>9. ExitsSound'
  <2>1. \A i \in 1 .. Len(exitCalls) : exitCalls[i] \in Drivers
    BY DEF IInv, RestOK
  <2>2. \A i \in 1 .. Len(exitCalls) : exitCalls[i] <= scan'.driver
    BY <2>1, <1>1, <1>3 DEF IInv, ExitsSound, Drivers
  <2>3. \A s \in Used' : pci_devices'[s].driver # None /\ pci_devices'[s].dev \in Devs =>
           HasExit(pci_devices[s].driver)'
    BY <1>1, <1>2 DEF IInv, ExitsSound, Used, EmptySlots, HasExit
  <2> QED
    BY <1>1, <2>2, <2>3 DEF IInv, ExitsSound
<1> QED
  BY <1>5, <1>6, <1>7, <1>8, <1>9 DEF IInv

(* An empty entry takes a device that the driver matches, or stays empty:  *)
(* no other entry has that device.                                         *)
LEMMA QueryIInv ==
  ASSUME IInv, pci_query_device \/ QueryFails
  PROVE  IInv'
<1> USE PciAssumption
<1>1. /\ scan.pc = "query" /\ scan.last \in 0 .. NDevs /\ scan.last < NDevs
      /\ scan.iAdapter \in 0 .. NDevs /\ scan.cards \in 0 .. NDevs
      /\ scan \in ScanType
      /\ UNCHANGED <<Resource_stt, AdapterHandle, rm, unlisted,
                     iAdapterNumber, exitCalls, accepted>>
  BY DEF IInv, RestOK, ScanType, pci_query_device, QueryFails, handles
<1>2. ~Probing /\ Scanning
  BY <1>1 DEF Probing, Scanning
<1>3. /\ scan.slot \in Slots /\ scan.driver \in Drivers
      /\ scan.slot \in EmptySlots(pci_devices) /\ scan.cards <= scan.last
      /\ scan.iAdapter <= scan.last /\ iAdapterNumber \in Int
  BY <1>1, <1>2 DEF IInv, ScanSound
<1>4. PICK e \in {NoDev, [NoDev EXCEPT !.dev = scan'.last]} :
        /\ pci_devices' = [pci_devices EXCEPT ![scan.slot] = e]
        /\ scan' \in ScanType
        /\ scan'.driver = scan.driver /\ scan'.slot = scan.slot
        /\ scan'.cards = scan.cards /\ scan'.iAdapter <= scan'.last
        /\ scan'.last > scan.last /\ scan'.last <= NDevs
        /\ \/ e = NoDev /\ scan'.pc = "query"
           \/ /\ e = [NoDev EXCEPT !.dev = scan'.last] /\ scan'.pc = "regions"
              /\ scan'.last \in Matches[scan.driver]
  <2>1. CASE pci_query_device
    <3> DEFINE d == scan.last + 1
               match == d \in Matches[scan.driver]
               skip == match /\ scan.iAdapter < iAdapterNumber
    <3>1. /\ pci_devices' = [pci_devices EXCEPT ![scan.slot] =
                                IF match /\ ~skip THEN [NoDev EXCEPT !.dev = d] ELSE NoDev]
          /\ scan' = [scan EXCEPT !.last = d,
                          !.iAdapter = IF skip THEN @ + 1 ELSE @,
                          !.pc = IF match /\ ~skip THEN "regions" ELSE @]
      BY <2>1 DEF pci_query_device
    <3> HIDE DEF match, skip
    <3>2. d \in 0 .. NDevs /\ d > scan.last
      BY <1>1
    <3>3. scan'.last = d /\ scan'.driver = scan.driver /\ scan'.slot = scan.slot
          /\ scan'.cards = scan.cards
          /\ scan'.iAdapter = (IF skip THEN scan.iAdapter + 1 ELSE scan.iAdapter)
          /\ scan'.pc = IF match /\ ~skip THEN "regions" ELSE "query"
      BY <1>1, <3>1 DEF ScanType
    <3>4. scan'.iAdapter \in 0 .. NDevs /\ scan'.iAdapter <= d
      BY <1>1, <1>3, <3>2, <3>3
    <3>5. scan' \in ScanType
      BY <1>1, <3>1, <3>2, <3>3, <3>4 DEF ScanType
    <3>6. CASE match /\ ~skip
      BY <3>1, <3>2, <3>3, <3>4, <3>5, <3>6 DEF match
    <3>7. CASE ~(match /\ ~skip)
      <4>1. pci_devices' = [pci_devices EXCEPT ![scan.slot] = NoDev] /\ scan'.pc = "query"
        BY <3>1, <3>3, <3>7
      <4>2. scan'.last <= NDevs /\ scan'.last > scan.last /\ scan'.iAdapter <= scan'.last
        BY <3>2, <3>3, <3>4
      <4> QED
        BY <4>1, <4>2, <3>3, <3>5
    <3> QED
      BY <3>6, <3>7
  <2>2. CASE QueryFails
    BY <2>2, <1>1, <1>3 DEF QueryFails, ScanType
  <2> QED
    BY <2>1, <2>2
<1>5. /\ \A s \in Slots : s # scan.slot => pci_devices'[s] = pci_devices[s]
      /\ pci_devices'[scan.slot] = e
  BY <1>3, <1>4 DEF IInv, RestOK
<1>6. e \in Entry /\ e.driver = None /\ scan'.last \in Devs /\ e.dev \in {None, scan'.last}
  <2>1. scan'.last \in Devs
    BY <1>1, <1>4 DEF ScanType, Devs
  <2> QED
    BY <2>1, <1>4 DEF Entry, NoDev, AllDevs
<1>7. HandlesOK' /\ RestOK'
  <2>1. HandlesOK'
    BY <1>1 DEF IInv, HandlesOK, Listed
  <2>2. pci_devices' \in [Slots -> Entry]
    BY <1>4, <1>6 DEF IInv, RestOK
  <2> QED
    BY <1>1, <1>4, <2>1, <2>2 DEF IInv, RestOK
<1>8. ScanSound'
  <2>1. scan'.pc = "query" => scan.slot \in EmptySlots(pci_devices')
    BY <1>3, <1>4, <1>5 DEF EmptySlots, NoDev
  <2>2. Probing' => /\ scan'.last \in Matches[scan.driver]
                    /\ pci_devices'[scan.slot].driver = None
                    /\ pci_devices'[scan.slot].dev = scan'.last
    BY <1>4, <1>5 DEF Probing, NoDev
  <2>4. scan'.pc = "regions" => Probing'
    BY DEF Probing
  <2>3. scan'.cards < scan'.last /\ scan'.cards <= scan'.last
    BY <1>1, <1>3, <1>4 DEF ScanType
  <2> QED
    BY <1>1, <1>3, <1>4, <2>1, <2>2, <2>3, <2>4 DEF ScanSound, Dev
<1>9. ASSUME NEW s \in Slots, Bound(s), pci_devices[s].dev \in Devs
      PROVE  /\ pci_devices[s].driver = scan.driver => pci_devices[s].dev < scan'.last
             /\ scan'.last \in Matches[scan.driver] => pci_devices[s].dev # scan'.last
  <2>1. /\ pci_devices[s].dev \in Devs /\ pci_devices[s].driver \in Drivers
        /\ pci_devices[s].dev \in Matches[pci_devices[s].driver]
    BY <1>9, Apart DEF Bound, AllDevs
  <2>2. pci_devices[s].driver = scan.driver => pci_devices[s].dev < scan'.last
    BY <1>1, <1>4, <1>9, <2>1 DEF Bound, Devs, ScanType
  <2>3. pci_devices[s].driver < scan.driver =>
           pci_devices[s].dev \notin Matches[scan.driver]
    BY <1>3, <1>9, <2>1 DEF Bound
  <2> QED
    BY <1>3, <1>9, <2>1, <2>2, <2>3 DEF Bound, Drivers, Devs
<1>10. TableSound'
  <2>1. ASSUME NEW s \in Slots, s # scan.slot
        PROVE  pci_devices'[s] = NoDev \/ Bound(s)' \/ Sought(s)'
    <3>1. pci_devices[s] = NoDev \/ Bound(s) \/ Sought(s)
      BY <1>2 DEF IInv, TableSound
    <3>2. CASE Bound(s)
      <4>1. pci_devices[s].driver = scan.driver /\ pci_devices[s].dev \in Devs =>
              pci_devices[s].dev < scan'.last
        BY <1>9, <3>2
      <4>2. pci_devices[s].driver = scan.driver /\ pci_devices[s].dev \in Devs =>
              pci_devices[s].dev <= scan'.last
        BY <4>1, <1>6 DEF Devs
      <4> QED
        BY <3>2, <4>1, <4>2, <1>4, <1>5, <2>1 DEF Bound
    <3>3. CASE Sought(s)
      BY <3>3, <1>4, <1>5, <2>1 DEF Sought
    <3> QED
      BY <3>1, <3>2, <3>3, <1>5, <2>1
  <2>2. pci_devices'[scan.slot] = NoDev \/ Probing'
    BY <1>4, <1>5 DEF Probing
  <2>3. ASSUME NEW t \in Slots, t # scan.slot, e.dev # None
        PROVE  pci_devices[t].dev # e.dev
    <3>1. e.dev = scan'.last /\ scan'.last \in Matches[scan.driver]
      BY <2>3, <1>4, <1>6 DEF NoDev
    <3>2. pci_devices[t] = NoDev \/ Bound(t) \/ Sought(t)
      BY <1>2 DEF IInv, TableSound
    <3>3. CASE Sought(t)
      BY <3>1, <3>3, <1>6, Apart DEF Sought
    <3> QED
      BY <2>3, <3>1, <3>2, <3>3, <1>6, <1>9 DEF NoDev
  <2>5. None \notin Devs
    BY Apart DEF AllDevs
  <2>4. ASSUME NEW s \in Slots, NEW t \in Slots, pci_devices'[s].dev \in Devs,
               pci_devices'[s].dev = pci_devices'[t].dev
        PROVE  s = t
    <3>1. CASE s # scan.slot /\ t # scan.slot
      BY <3>1, <2>4, <1>5 DEF IInv, TableSound
    <3>2. CASE s = scan.slot /\ t # scan.slot
      BY <3>2, <2>3, <2>4, <2>5, <1>5
    <3>3. CASE t = scan.slot /\ s # scan.slot
      BY <3>3, <2>3, <2>4, <2>5, <1>5
    <3> QED
      BY <3>1, <3>2, <3>3
  <2> QED
    BY <2>1, <2>2, <2>4, <1>4 DEF TableSound
<1>11. Accounted'
  BY <1>1, <1>2 DEF IInv, Accounted, Listed, Probing
<1>12. ExitsSound'
  <2>1. ASSUME NEW s \in Used', pci_devices'[s].driver # None
        PROVE  /\ s \in Used /\ pci_devices'[s] = pci_devices[s]
    BY <2>1, <1>5, <1>6 DEF Used, EmptySlots
  <2>2. Scanning' /\ scan'.cards = scan.cards /\ scan'.driver = scan.driver
    BY <1>4 DEF Scanning, Probing
  <2> QED
    BY <2>1, <2>2, <1>1, <1>4 DEF IInv, ExitsSound, HasExit
<1> QED
  BY <1>7, <1>8, <1>10, <1>11, <1>12 DEF IInv

(* The driver's exit call is entered at least once when it has a card: the *)
(* scan goes on only while there is room.                                  *)
LEMMA ScanEndsIInv ==
  ASSUME IInv, ScanEnds
  PROVE  IInv'
<1> USE PciAssumption
<1> DEFINE n == Len(exitCalls)
           room == OSS32_MAX_AUDIOCARDS - n
           k == IF scan.cards < room THEN scan.cards ELSE room
           more == [i \in 1 .. k |-> scan.driver]
<1>1. /\ scan.pc = "query" /\ scan.cards \in 0 .. NDevs /\ scan.driver \in 0 .. NDrivers
      /\ UNCHANGED <<pci_devices, Resource_stt, AdapterHandle, rm, unlisted,
                     iAdapterNumber, accepted>>
  BY DEF IInv, RestOK, ScanType, ScanEnds, handles
<1>2. ~Probing /\ Scanning
  BY <1>1 DEF Probing, Scanning
<1>3. scan.driver \in Drivers /\ exitCalls \in Seq(Drivers) /\ n \in Nat /\ room \in Nat \ {0}
  BY <1>1, <1>2 DEF IInv, ScanSound, RestOK, ExitsSound
<1>4. exitCalls' = exitCalls \o more
  BY DEF ScanEnds, ExitCalls
<1>5. k \in Nat /\ k <= room /\ (scan.cards > 0 => k > 0)
  BY <1>1, <1>3
<1> HIDE DEF k
<1>6. more \in Seq(Drivers) /\ Len(more) = k
  BY <1>3, <1>5
<1>7. /\ exitCalls' \in Seq(Drivers) /\ Len(exitCalls') = n + k
      /\ \A i \in 1 .. n : exitCalls'[i] = exitCalls[i]
      /\ \A i \in n + 1 .. n + k : exitCalls'[i] = scan.driver
  BY <1>3, <1>4, <1>5, <1>6
<1> HIDE DEF more
<1>8. n + k <= OSS32_MAX_AUDIOCARDS /\ n + k \in Nat
  BY <1>3, <1>5
<1>9. /\ scan' \in ScanType /\ scan'.driver = scan.driver
      /\ scan'.last = 0 /\ scan'.iAdapter = 0
      /\ \/ scan'.pc = "driver" /\ n + k < OSS32_MAX_AUDIOCARDS
         \/ scan'.pc = "up"
  <2>1. scan' = [Start EXCEPT !.driver = scan.driver,
                   !.pc = IF n + k < OSS32_MAX_AUDIOCARDS THEN "driver" ELSE "up"]
    BY <1>7 DEF ScanEnds
  <2>2. scan' = [pc |-> IF n + k < OSS32_MAX_AUDIOCARDS THEN "driver" ELSE "up",
                 driver |-> scan.driver, last |-> 0, slot |-> None,
                 region |-> 0, irq |-> None, cards |-> 0, iAdapter |-> 0]
    BY <2>1 DEF Start
  <2> HIDE DEF n
  <2> QED
    BY <2>2, <1>1 DEF ScanType
<1>10. ~Probing' /\ ~Scanning'
  BY <1>9 DEF Probing, Scanning
<1>11. HandlesOK' /\ RestOK'
  <2>1. HandlesOK'
    BY <1>1 DEF IInv, HandlesOK, Listed
  <2> QED
    BY <1>1, <1>7, <1>8, <1>9, <2>1 DEF IInv, RestOK
<1>12. ScanSound'
  BY <1>1, <1>9, <1>10 DEF IInv, ScanSound, Probing
<1>13. TableSound'
  <2>1. ASSUME NEW s \in Slots, Bound(s) PROVE Bound(s)'
    BY <2>1, <1>1, <1>9, <1>10 DEF Bound
  <2>2. ASSUME NEW s \in Slots, Sought(s) PROVE Sought(s)'
    BY <2>2, <1>1, <1>9 DEF Sought
  <2> QED
    BY <2>1, <2>2, <1>1, <1>2 DEF IInv, TableSound
<1>14. Accounted'
  BY <1>1, <1>2 DEF IInv, Accounted, Listed, Probing
<1>15. ExitsSound'
  <2>1. \A i \in 1 .. n + k : i \in 1 .. n \/ i \in n + 1 .. n + k
    BY <1>3, <1>5
  <2>2. \A i \in 1 .. n : exitCalls[i] \in Drivers /\ exitCalls[i] <= scan.driver
    BY <1>3 DEF IInv, ExitsSound
  <2>6. scan.driver <= scan.driver
    BY <1>3 DEF Drivers
  <2>3. ASSUME NEW i \in 1 .. n + k, NEW j \in 1 .. n + k, i <= j
        PROVE  exitCalls'[i] <= exitCalls'[j]
    <3>1. CASE j \in 1 .. n
      <4>1. i \in 1 .. n
        BY <3>1, <2>3, <1>3
      <4> QED
        BY <3>1, <4>1, <2>3, <1>7 DEF IInv, ExitsSound
    <3>2. CASE j \in n + 1 .. n + k
      <4>1. exitCalls'[j] = scan.driver
        BY <3>2, <1>7
      <4>2. exitCalls'[i] = exitCalls[i] \/ exitCalls'[i] = scan.driver
        BY <2>1, <1>7
      <4>3. exitCalls'[i] <= scan.driver
        BY <4>2, <2>1, <2>2, <2>6, <1>7
      <4> QED
        BY <4>1, <4>3
    <3> QED
      BY <3>1, <3>2, <2>1
  <2>4. ASSUME NEW i \in 1 .. n + k PROVE exitCalls'[i] <= scan'.driver
    BY <2>1, <2>2, <2>6, <1>7, <1>9
  <2>5. ASSUME NEW s \in Used', pci_devices'[s].driver # None, pci_devices'[s].dev \in Devs
        PROVE  HasExit(pci_devices[s].driver)'
    <3>1. s \in Used /\ pci_devices' = pci_devices
      BY <1>1 DEF Used, EmptySlots
    <3>2. CASE HasExit(pci_devices[s].driver)
      <4>1. PICK i \in 1 .. n : exitCalls[i] = pci_devices[s].driver
        BY <3>2 DEF HasExit
      <4>2. i \in 1 .. n + k /\ exitCalls'[i] = pci_devices'[s].driver
        BY <4>1, <3>1, <1>3, <1>5, <1>7
      <4> QED
        BY <4>2, <1>7 DEF HasExit
    <3>3. CASE pci_devices[s].driver = scan.driver /\ scan.cards > 0
      <4>1. n + 1 \in n + 1 .. n + k /\ n + 1 \in 1 .. n + k
        BY <3>3, <1>3, <1>5
      <4>2. exitCalls'[n + 1] = pci_devices'[s].driver
        BY <4>1, <3>1, <3>3, <1>7
      <4> QED
        BY <4>1, <4>2, <1>7 DEF HasExit
    <3> QED
      BY <3>1, <3>2, <3>3, <2>5 DEF IInv, ExitsSound
  <2> QED
    BY <2>3, <2>4, <2>5, <1>7, <1>9 DEF ExitsSound
<1> QED
  BY <1>11, <1>12, <1>13, <1>14, <1>15 DEF IInv

(* A probe that goes on leaves the table and the exit calls alone.         *)
LEMMA ProbeGoesOn ==
  ASSUME IInv, Probing, Probing', scan' \in ScanType,
         scan'.driver = scan.driver, scan'.last = scan.last, scan'.slot = scan.slot,
         scan'.cards = scan.cards, scan'.iAdapter = scan.iAdapter,
         scan'.pc = "regions" /\ scan'.region < NRegions =>
            scan.pc = "regions" /\ scan.region < NRegions,
         UNCHANGED <<pci_devices, iAdapterNumber, exitCalls, accepted>>
  PROVE  RestOK' /\ ScanSound' /\ TableSound' /\ ExitsSound'
<1>1. scan.pc \notin {"query", "up", "down"} /\ scan'.pc \notin {"query", "up", "down"}
  BY DEF Probing
<1>2. RestOK'
  BY DEF IInv, RestOK
<1>3. ScanSound'
  BY <1>1 DEF IInv, ScanSound, Scanning, Dev
<1>4. TableSound'
  <2>1. ASSUME NEW s \in Slots, Bound(s) PROVE Bound(s)'
    BY <2>1, <1>1 DEF Bound
  <2>2. ASSUME NEW s \in Slots, Sought(s) PROVE Sought(s)'
    BY <2>2 DEF Sought
  <2> QED
    BY <2>1, <2>2 DEF IInv, TableSound
<1>5. ExitsSound'
  BY <1>1 DEF IInv, ExitsSound, Used, EmptySlots, HasExit, Scanning
<1> QED
  BY <1>2, <1>3, <1>4, <1>5

(* The device of the entry being probed: the one that was read last, or    *)
(* what a search has left of it.                                           *)
LEMMA ProbedDev ==
  ASSUME IInv, Probing
  PROVE  /\ scan.last \in Devs /\ Dev \in AllDevs \cup {None}
         /\ scan.slot \in Slots /\ scan.driver \in Drivers
         /\ <<Dev, Irq>> \in Res /\ \A i \in Regions : <<Dev, i>> \in Res
<1>1. /\ scan.slot \in Slots /\ scan.driver \in Drivers
      /\ scan.last \in Matches[scan.driver] /\ Dev \in {scan.last, None} \cup Others
  BY DEF IInv, ScanSound, Scanning
<1>2. scan.last \in Devs /\ Dev \in AllDevs \cup {None}
  BY <1>1, PciAssumption DEF AllDevs
<1> QED
  BY <1>1, <1>2 DEF Res

(* What a request leaves is accounted for.                                 *)
LEMMA RequestedAccounted ==
  ASSUME IInv, Probing, Probing', scan'.last = scan.last, UNCHANGED accepted,
         scan.pc = "regions", NEW r \in Res, Requested(r),
         r[1] = scan.last \/ (scan'.pc = "irq" /\ r[1] = scan'.irq) \/ scan'.pc = "failed"
  PROVE  HandlesOK' /\ Accounted'
<1>1. \A q \in Res : rm'[q] # Free => q[1] \in accepted \/ q \in unlisted' \/ q \in Listed'
  BY DEF Requested, IInv, Accounted
<1>2. \A q \in Listed' : q[1] \in accepted \/ q[1] = scan.last \/ q = r
  BY DEF Requested, IInv, Accounted
<1> QED
  BY <1>1, <1>2 DEF Accounted, Requested

(* The regions of a probe.                                                 *)
LEMMA ProbeRegionIInv ==
  ASSUME IInv, ProbeRegion
  PROVE  IInv'
<1> USE PciAssumption
<1>1. /\ scan.pc = "regions" /\ scan.region \in 0 .. NRegions /\ scan.region < NRegions
      /\ scan \in ScanType /\ scan' = [scan EXCEPT !.region = @ + 1]
      /\ UNCHANGED <<pci_devices, iAdapterNumber, exitCalls, accepted>>
  BY DEF IInv, RestOK, ScanType, ProbeRegion
<1>2. /\ scan' \in ScanType /\ scan'.pc = "regions"
      /\ scan'.driver = scan.driver /\ scan'.last = scan.last /\ scan'.slot = scan.slot
      /\ scan'.cards = scan.cards /\ scan'.iAdapter = scan.iAdapter
  BY <1>1 DEF ScanType
<1>3. Probing /\ Probing'
  BY <1>1, <1>2 DEF Probing
<1>4. RestOK' /\ ScanSound' /\ TableSound' /\ ExitsSound'
  BY <1>1, <1>2, <1>3, ProbeGoesOn
<1>5. HandlesOK' /\ Accounted'
  <2>1. CASE UNCHANGED handles
    BY <2>1, <1>1, <1>2, <1>3 DEF handles, IInv, HandlesOK, Accounted, Listed
  <2>2. CASE RMRequestRegion(<<Dev, scan.region + 1>>)
    <3>1. scan.region + 1 \in Regions
      BY <1>1 DEF Regions
    <3>2. /\ <<Dev, scan.region + 1>> \in Res /\ <<Dev, scan.region + 1>>[1] = scan.last
      BY <3>1, <1>1, <1>3, ProbedDev DEF IInv, ScanSound
    <3>3. Requested(<<Dev, scan.region + 1>>)
      BY <2>2, <3>2, RequestRegion DEF IInv
    <3> QED
      BY <3>2, <3>3, <1>1, <1>2, <1>3, RequestedAccounted
  <2> QED
    BY <2>1, <2>2 DEF ProbeRegion
<1> QED
  BY <1>4, <1>5 DEF IInv

(* The interrupt of a probe.                                               *)
LEMMA ProbeIrqIInv ==
  ASSUME IInv, ProbeIrq
  PROVE  IInv'
<1>1. /\ scan.pc = "regions" /\ scan \in ScanType
      /\ \/ scan' = [scan EXCEPT !.pc = "irq", !.irq = Dev]
         \/ scan' = [scan EXCEPT !.pc = "failed"]
      /\ UNCHANGED <<pci_devices, iAdapterNumber, exitCalls, accepted>>
      /\ RMRequestIRQ(<<Dev, Irq>>) \/ RMRequestIRQFails(<<Dev, Irq>>)
  BY DEF IInv, RestOK, ProbeIrq
<1>2. Probing /\ <<Dev, Irq>> \in Res /\ Dev \in AllDevs \cup {None}
  BY <1>1, ProbedDev DEF Probing
<1>3. /\ scan' \in ScanType
      /\ (scan'.pc = "irq" /\ scan'.irq = Dev) \/ scan'.pc = "failed"
      /\ scan'.driver = scan.driver /\ scan'.last = scan.last /\ scan'.slot = scan.slot
      /\ scan'.cards = scan.cards /\ scan'.iAdapter = scan.iAdapter
  <2>1. CASE scan' = [scan EXCEPT !.pc = "irq", !.irq = Dev]
    BY <2>1, <1>1, <1>2 DEF ScanType
  <2>2. CASE scan' = [scan EXCEPT !.pc = "failed"]
    BY <2>2, <1>1 DEF ScanType
  <2> QED
    BY <2>1, <2>2, <1>1
<1>4. Probing' /\ scan'.pc # "regions"
  BY <1>3 DEF Probing
<1>5. RestOK' /\ ScanSound' /\ TableSound' /\ ExitsSound'
  BY <1>1, <1>2, <1>3, <1>4, ProbeGoesOn
<1>6. Requested(<<Dev, Irq>>) /\ <<Dev, Irq>>[1] = Dev
  BY <1>1, <1>2, RequestIRQ DEF IInv
<1>7. HandlesOK' /\ Accounted'
  BY <1>1, <1>2, <1>3, <1>4, <1>6, RequestedAccounted
<1> QED
  BY <1>5, <1>7 DEF IInv

(* A device that the probe looks for enters an empty entry: no card that   *)
(* the table shows loses its entry.                                        *)
LEMMA FindIInv ==
  ASSUME IInv, pci_find_device
  PROVE  IInv'
<1> USE PciAssumption
<1>1. /\ scan.pc = "irq" \/ (scan.pc = "regions" /\ scan.region = NRegions)
      /\ UNCHANGED <<Resource_stt, AdapterHandle, rm, unlisted, scan, iAdapterNumber,
                     exitCalls, accepted>>
  BY DEF pci_find_device, handles
<1>2. Probing /\ Probing' /\ Scanning /\ Scanning' /\ scan.pc # "query"
      /\ ~(scan.pc = "regions" /\ scan.region < NRegions)
  <2>1. scan.region \in Nat
    BY DEF IInv, RestOK, ScanType
  <2> QED
    BY <2>1, <1>1 DEF Probing, Scanning
<1>3. scan.slot \in Slots /\ scan.driver \in Drivers
  BY <1>2, ProbedDev
<1>4. PICK f \in Slots : f = First(EmptySlots(pci_devices)) /\ f \in EmptySlots(pci_devices)
  BY FirstIn DEF EmptySlots, pci_find_device
<1>5. PICK d \in Seeks[scan.driver], memory \in BOOLEAN :
        pci_devices' = [pci_devices EXCEPT ![f] =
                           IF memory THEN [NoDev EXCEPT !.dev = d] ELSE NoDev]
  BY <1>4 DEF pci_find_device
<1> DEFINE e == IF memory THEN [NoDev EXCEPT !.dev = d] ELSE NoDev
<1>6. d \in Others /\ d \in AllDevs
  BY <1>3, <1>5, Apart DEF AllDevs
<1>7. e \in Entry /\ e.driver = None /\ (e = NoDev \/ e.dev = d) /\ e.dev \in Others \cup {None}
  BY <1>6 DEF Entry, NoDev
<1>8. pci_devices' = [pci_devices EXCEPT ![f] = e]
  BY <1>5
<1> HIDE DEF e
<1>9. /\ \A s \in Slots : s # f => pci_devices'[s] = pci_devices[s]
      /\ pci_devices'[f] = e /\ pci_devices' \in [Slots -> Entry]
  BY <1>4, <1>7, <1>8 DEF IInv, RestOK
<1>10. e.dev \notin Devs
  BY <1>7, Apart DEF AllDevs
<1>11. HandlesOK' /\ RestOK' /\ Accounted'
  BY <1>1, <1>9 DEF IInv, HandlesOK, RestOK, Accounted, Listed, Probing
<1>12. ScanSound'
  <2>1. pci_devices'[scan.slot].driver = None /\ Dev' \in {scan.last, None} \cup Others
    BY <1>1, <1>2, <1>3, <1>7, <1>9 DEF IInv, ScanSound, Dev
  <2> QED
    BY <2>1, <1>1, <1>2 DEF IInv, ScanSound
<1>13. TableSound'
  <2>1. ASSUME NEW s \in Slots, s # f, Bound(s) PROVE Bound(s)'
    BY <2>1, <1>1, <1>2, <1>9 DEF Bound
  <2>2. ASSUME NEW s \in Slots, s # f, Sought(s) PROVE Sought(s)'
    BY <2>2, <1>1, <1>9 DEF Sought
  <2>3. pci_devices'[f] = NoDev \/ Sought(f)'
    <3>1. scan.driver <= scan.driver
      BY <1>3 DEF Drivers
    <3> QED
      BY <3>1, <1>1, <1>3, <1>6, <1>7, <1>9 DEF Sought
  <2>4. \A s \in Slots : s # f =>
          pci_devices[s] = NoDev \/ Bound(s) \/ Sought(s) \/ s = scan.slot
    BY DEF IInv, TableSound
  <2>5. \A s, t \in Slots : pci_devices'[s].dev \in Devs
                          /\ pci_devices'[s].dev = pci_devices'[t].dev => s = t
    BY <1>9, <1>10 DEF IInv, TableSound
  <2> QED
    BY <2>1, <2>2, <2>3, <2>4, <2>5, <1>1, <1>2, <1>9 DEF TableSound
<1>14. ExitsSound'
  <2>1. ASSUME NEW s \in Used', pci_devices'[s].dev \in Devs
        PROVE  s \in Used /\ pci_devices'[s] = pci_devices[s]
    BY <2>1, <1>9, <1>10 DEF Used, EmptySlots
  <2> QED
    BY <2>1, <1>1, <1>2 DEF IInv, ExitsSound, HasExit
<1> QED
  BY <1>11, <1>12, <1>13, <1>14 DEF IInv

(* A probe that fails, with or without its interrupt freed.                *)
LEMMA ProbeFailsIInv ==
  ASSUME IInv, ProbeFails
  PROVE  IInv'
<1>1. /\ scan.pc \in {"regions", "irq"} /\ scan \in ScanType
      /\ scan' = [scan EXCEPT !.pc = "failed"]
      /\ UNCHANGED <<pci_devices, iAdapterNumber, exitCalls, accepted>>
      /\ UNCHANGED rm \/ RMDeallocateIRQ({scan.irq})
      /\ UNCHANGED <<Resource_stt, AdapterHandle, unlisted>>
  BY DEF IInv, RestOK, ProbeFails
<1>2. /\ scan' \in ScanType /\ scan'.pc = "failed" /\ scan'.pc # "regions"
      /\ scan'.driver = scan.driver /\ scan'.last = scan.last /\ scan'.slot = scan.slot
      /\ scan'.cards = scan.cards /\ scan'.iAdapter = scan.iAdapter
  BY <1>1 DEF ScanType
<1>3. Probing /\ Probing'
  BY <1>1, <1>2 DEF Probing
<1>4. RestOK' /\ ScanSound' /\ TableSound' /\ ExitsSound'
  BY <1>1, <1>2, <1>3, ProbeGoesOn
<1>5. /\ HandlesOK' /\ Listed' = Listed
      /\ \A q \in Res : rm'[q] # Free => rm'[q] = rm[q]
  BY <1>1, DeallocateIRQ DEF IInv
<1>6. Accounted'
  BY <1>1, <1>2, <1>3, <1>5 DEF IInv, Accounted
<1> QED
  BY <1>4, <1>5, <1>6 DEF IInv

(* A failed probe gives back what is listed and empties its entry.         *)
LEMMA FailedIInv ==
  ASSUME IInv, Failed
  PROVE  IInv'
<1> USE PciAssumption
<1>1. /\ scan.pc = "failed" /\ scan \in ScanType
      /\ scan' = [scan EXCEPT !.pc = "query", !.region = 0, !.irq = None]
      /\ pci_devices' = [pci_devices EXCEPT ![scan.slot] = NoDev]
      /\ RMDeallocRes
      /\ UNCHANGED <<AdapterHandle, unlisted, iAdapterNumber, exitCalls, accepted>>
  BY DEF IInv, RestOK, Failed
<1>2. /\ scan' \in ScanType /\ scan'.pc = "query"
      /\ scan'.driver = scan.driver /\ scan'.last = scan.last /\ scan'.slot = scan.slot
      /\ scan'.cards = scan.cards /\ scan'.iAdapter = scan.iAdapter
      /\ scan.cards \in 0 .. NDevs /\ scan.last \in 0 .. NDevs
  <2>1. 0 \in 0 .. NRegions
    OBVIOUS
  <2>2. scan' \in ScanType
    BY <2>1, <1>1 DEF ScanType
  <2> QED
    BY <2>2, <1>1 DEF ScanType
<1>3. Probing /\ ~Probing' /\ Scanning /\ Scanning' /\ scan.slot \in Slots
  BY <1>1, <1>2 DEF Probing, Scanning, IInv, ScanSound
<1>4. /\ \A s \in Slots : s # scan.slot => pci_devices'[s] = pci_devices[s]
      /\ pci_devices'[scan.slot] = NoDev
  BY <1>1, <1>3 DEF IInv, RestOK
<1>5. RestOK'
  <2>1. NoDev \in Entry
    BY DEF NoDev, Entry
  <2>2. pci_devices' \in [Slots -> Entry]
    BY <2>1, <1>1 DEF IInv, RestOK
  <2> QED
    BY <2>2, <1>1, <1>2 DEF IInv, RestOK
<1>6. ScanSound'
  <2>1. scan'.slot \in EmptySlots(pci_devices')
    BY <1>2, <1>3, <1>4 DEF EmptySlots, NoDev
  <2>2. scan'.cards <= scan'.last
    BY <1>2, <1>3 DEF IInv, ScanSound
  <2> QED
    BY <2>1, <2>2, <1>1, <1>2, <1>3 DEF IInv, ScanSound
<1>7. TableSound'
  <2>1. ASSUME NEW s \in Slots, s # scan.slot, Bound(s) PROVE Bound(s)'
    <3>1. pci_devices[s].dev < scan.last /\ pci_devices[s].dev \in Devs =>
             pci_devices[s].dev <= scan.last
      BY <1>2 DEF Devs
    <3> QED
      BY <2>1, <3>1, <1>2, <1>3, <1>4 DEF Bound
  <2>2. ASSUME NEW s \in Slots, s # scan.slot, Sought(s) PROVE Sought(s)'
    BY <2>2, <1>2, <1>4 DEF Sought
  <2>3. NoDev.dev \notin Devs
    BY Apart DEF NoDev, AllDevs
  <2>4. \A s \in Slots : s # scan.slot => pci_devices[s] = NoDev \/ Bound(s) \/ Sought(s)
    BY DEF IInv, TableSound
  <2>5. \A s, t \in Slots : pci_devices'[s].dev \in Devs
                          /\ pci_devices'[s].dev = pci_devices'[t].dev => s = t
    BY <2>3, <1>4 DEF IInv, TableSound
  <2> QED
    BY <2>1, <2>2, <2>4, <2>5, <1>4 DEF TableSound
<1>8. /\ HandlesOK' /\ Listed' = {}
      /\ \A q \in Res : rm'[q] = IF q \in Listed THEN Free ELSE rm[q]
  BY <1>1, DeallocRes DEF IInv
<1>9. Accounted'
  BY <1>1, <1>8 DEF IInv, Accounted
<1>10. ExitsSound'
  <2>1. ASSUME NEW s \in Used' PROVE s \in Used /\ pci_devices'[s] = pci_devices[s]
    BY <1>4 DEF Used, EmptySlots, NoDev
  <2> QED
    BY <2>1, <1>1, <1>2, <1>3 DEF IInv, ExitsSound, HasExit
<1> QED
  BY <1>5, <1>6, <1>7, <1>8, <1>9, <1>10 DEF IInv

(* The entry of an accepted card, and the entry for the next device.       *)
LEMMA BindTable ==
  ASSUME IInv, scan.pc = "irq", NEW h \in Devs \cup {None}, Bind(h)
  PROVE  /\ RestOK' /\ ScanSound' /\ TableSound' /\ ExitsSound'
         /\ accepted' = accepted \cup {scan.last, scan.irq} /\ ~Probing'
<1> USE PciAssumption
<1>1. Probing /\ Scanning
  BY DEF Probing, Scanning
<1>2. /\ scan.last \in Devs /\ Dev \in AllDevs \cup {None}
      /\ scan.slot \in Slots /\ scan.driver \in Drivers
  BY <1>1, ProbedDev
<1>3. /\ scan.last \in Matches[scan.driver] /\ scan.cards < scan.last
      /\ Dev \in {scan.last, None} \cup Others
      /\ scan.iAdapter <= scan.last /\ iAdapterNumber \in Int
  BY <1>1 DEF IInv, ScanSound
<1>4. /\ accepted' = accepted \cup {scan.last, scan.irq}
      /\ UNCHANGED <<iAdapterNumber, exitCalls>>
  BY DEF Bind
<1> DEFINE e == [dev |-> Dev, driver |-> scan.driver, hAdapter |-> h, irq |-> scan.irq]
<1>5. /\ pci_devices' \in [Slots -> Entry]
      /\ \A s \in Slots : s # scan.slot => pci_devices'[s] = pci_devices[s]
      /\ pci_devices'[scan.slot] = e
  <2>0. scan.irq \in AllDevs \cup {None}
    BY DEF IInv, RestOK, ScanType
  <2>1. pci_devices \in [Slots -> Entry] /\ e \in Entry
    BY <2>0, <1>2 DEF IInv, RestOK, Entry
  <2>2. pci_devices' = [pci_devices EXCEPT ![scan.slot].driver = scan.driver,
                                           ![scan.slot].hAdapter = h,
                                           ![scan.slot].irq = scan.irq]
    BY DEF Bind
  <2>3. \A s \in Slots : s # scan.slot => pci_devices'[s] = pci_devices[s]
    BY <2>1, <2>2
  <2>4. pci_devices'[scan.slot] = e
    BY <2>1, <2>2, <1>2 DEF Entry, Dev
  <2>5. DOMAIN pci_devices' = Slots /\ pci_devices' = [s \in Slots |-> pci_devices'[s]]
    BY <2>1, <2>2
  <2>6. \A s \in Slots : pci_devices'[s] \in Entry
    <3> HIDE DEF e
    <3> QED
      BY <2>1, <2>3, <2>4
  <2> QED
    <3> HIDE DEF e
    <3> QED
      BY <2>3, <2>4, <2>5, <2>6
<1>6. /\ scan \in ScanType /\ scan.cards + 1 \in 0 .. NDevs /\ scan.last \in 0 .. NDevs
      /\ scan.cards \in 0 .. NDevs
  BY <1>3 DEF IInv, RestOK, ScanType
<1>7. /\ scan' \in ScanType /\ scan'.pc = "query"
      /\ scan'.driver = scan.driver /\ scan'.cards = scan.cards + 1
      /\ scan'.iAdapter = scan.iAdapter /\ scan'.slot \in Slots
      /\ scan'.last \in {scan.last, NDevs}
      /\ scan'.last < NDevs => scan'.slot \in EmptySlots(pci_devices')
  <2> DEFINE empty == EmptySlots(pci_devices')
             next == [scan EXCEPT !.pc = "query", !.region = 0, !.irq = None, !.cards = @ + 1]
  <2>1. scan' = IF empty = {} \/ iAdapterNumber >= 0
                  THEN [next EXCEPT !.last = NDevs] ELSE [next EXCEPT !.slot = First(empty)]
    BY DEF Bind
  <2>2. /\ next \in ScanType /\ next.pc = "query" /\ next.driver = scan.driver
        /\ next.cards = scan.cards + 1 /\ next.iAdapter = scan.iAdapter
        /\ next.slot = scan.slot /\ next.last = scan.last
    <3>1. 0 \in 0 .. NRegions
      OBVIOUS
    <3>2. next \in ScanType
      BY <3>1, <1>6 DEF ScanType
    <3> QED
      BY <3>2, <1>6 DEF ScanType
  <2> HIDE DEF next
  <2>3. empty # {} => First(empty) \in empty
    BY FirstIn DEF EmptySlots
  <2>4. empty \subseteq Slots
    BY DEF EmptySlots
  <2> HIDE DEF empty
  <2>5. CASE empty = {} \/ iAdapterNumber >= 0
    <3>1. scan' = [next EXCEPT !.last = NDevs]
      BY <2>1, <2>5
    <3> QED
      BY <2>2, <3>1, <1>2 DEF ScanType
  <2>6. CASE ~(empty = {} \/ iAdapterNumber >= 0)
    <3>1. scan' = [next EXCEPT !.slot = First(empty)] /\ First(empty) \in empty
      BY <2>1, <2>3, <2>6
    <3>2. First(empty) \in Slots
      BY <3>1, <2>4
    <3>3. scan' \in ScanType /\ scan'.slot = First(empty)
      BY <2>2, <3>1, <3>2 DEF ScanType
    <3>4. /\ scan'.pc = "query" /\ scan'.driver = scan.driver
          /\ scan'.cards = scan.cards + 1 /\ scan'.iAdapter = scan.iAdapter
          /\ scan'.last = scan.last
      BY <2>2, <3>1 DEF ScanType
    <3> QED
      BY <3>1, <3>2, <3>3, <3>4 DEF empty
  <2> QED
    BY <2>5, <2>6
<1> HIDE DEF e
<1>8. ~Probing' /\ Scanning'
  BY <1>7 DEF Probing, Scanning
<1>9. RestOK'
  <2>1. accepted' \subseteq AllDevs \cup {None}
    BY <1>2, <1>4 DEF IInv, RestOK, ScanType, AllDevs
  <2> QED
    BY <2>1, <1>4, <1>5, <1>7 DEF IInv, RestOK
<1>10. scan'.last \in Nat /\ scan'.last >= scan.last /\ scan.last \in Nat
  BY <1>6, <1>7
<1>11. ScanSound'
  <2>1. scan'.cards <= scan'.last
    BY <1>3, <1>6, <1>7, <1>10
  <2>2. scan'.iAdapter <= scan'.last
    BY <1>3, <1>6, <1>7, <1>10 DEF ScanType
  <2> QED
    BY <1>2, <1>3, <1>4, <1>7, <1>8, <2>1, <2>2 DEF ScanSound
<1>12. ASSUME NEW s \in Slots, s # scan.slot, Bound(s)
       PROVE  Bound(s)'
  <2>1. pci_devices[s].driver = scan.driver /\ pci_devices[s].dev \in Devs =>
           pci_devices[s].dev <= scan'.last
    BY <1>1, <1>10, <1>12 DEF Bound, Devs
  <2> QED
    BY <1>5, <1>7, <1>8, <1>12, <2>1 DEF Bound
<1>13. TableSound'
  <2>1. ASSUME NEW s \in Slots, s = scan.slot PROVE Bound(s)'
    <3>1. pci_devices'[s].dev = Dev /\ pci_devices'[s].driver = scan.driver
      BY <1>5, <2>1 DEF e
    <3>2. Dev \in Devs => Dev <= scan'.last /\ Dev \in Matches[scan.driver]
      BY <1>2, <1>3, <1>10, Apart DEF AllDevs, Devs
    <3>3. Dev \in Matches[scan.driver] \cup Others \cup {None}
      BY <1>3
    <3>4. scan.driver <= scan'.driver
      BY <1>2, <1>7 DEF Drivers
    <3> QED
      BY <3>1, <3>2, <3>3, <3>4, <1>2, <1>7, <1>8 DEF Bound
  <2>3. ASSUME NEW s \in Slots, s # scan.slot, Sought(s) PROVE Sought(s)'
    BY <2>3, <1>5, <1>7 DEF Sought
  <2>2. ASSUME NEW s \in Slots, NEW t \in Slots, pci_devices'[s].dev \in Devs,
               pci_devices'[s].dev = pci_devices'[t].dev
        PROVE  s = t
    <3>1. pci_devices'[scan.slot].dev = pci_devices[scan.slot].dev
      BY <1>5 DEF e, Dev
    <3>2. pci_devices'[s].dev = pci_devices[s].dev /\ pci_devices'[t].dev = pci_devices[t].dev
      BY <3>1, <1>5
    <3> QED
      BY <2>2, <3>2 DEF IInv, TableSound
  <2> QED
    BY <2>1, <2>2, <2>3, <1>5, <1>12 DEF IInv, TableSound
<1>14. ExitsSound'
  <2>1. ASSUME NEW s \in Used', pci_devices'[s].driver # None, s # scan.slot
        PROVE  s \in Used /\ pci_devices'[s] = pci_devices[s]
    BY <2>1, <1>5 DEF Used, EmptySlots
  <2>2. pci_devices'[scan.slot].driver = scan'.driver /\ scan'.cards > 0
    BY <1>5, <1>6, <1>7 DEF e
  <2> QED
    BY <2>1, <2>2, <1>4, <1>7, <1>8 DEF IInv, ExitsSound, HasExit
<1> QED
  BY <1>4, <1>8, <1>9, <1>11, <1>13, <1>14

(* An accepted card: its adapter takes the handles, or they stay listed,   *)
(* or they go back.                                                        *)
LEMMA ProbedIInv ==
  ASSUME IInv, Probed \/ ProbedWithoutNames \/ ProbedWithoutAdapter
  PROVE  IInv'
<1>1. scan.pc = "irq" /\ Probing
  BY DEF Probed, ProbedWithoutNames, ProbedWithoutAdapter, Probing
<1>2. scan.last \in Devs
  BY <1>1, ProbedDev
<1>3. PICK h \in Devs \cup {None} : Bind(h)
  BY <1>2 DEF Probed, ProbedWithoutNames, ProbedWithoutAdapter
<1>4. /\ RestOK' /\ ScanSound' /\ TableSound' /\ ExitsSound'
      /\ accepted' = accepted \cup {scan.last, scan.irq} /\ ~Probing'
  BY <1>1, <1>3, BindTable
<1>5. CASE Probed
  <2>1. /\ HandlesOK' /\ Listed' = {}
        /\ \A q \in Res : rm'[q] = IF q \in Listed THEN scan.last ELSE rm[q]
        /\ UNCHANGED unlisted
    BY <1>2, <1>5, CreateAdapter DEF IInv, Probed
  <2>2. Accounted'
    BY <1>1, <1>4, <2>1 DEF IInv, Accounted
  <2> QED
    BY <1>4, <2>1, <2>2 DEF IInv
<1>6. CASE ProbedWithoutNames
  <2>1. UNCHANGED <<Resource_stt, AdapterHandle, rm, unlisted>> /\ Listed' = Listed
    BY <1>6 DEF ProbedWithoutNames, handles, Listed
  <2>2. HandlesOK'
    BY <2>1 DEF IInv, HandlesOK
  <2>3. Accounted'
    BY <1>1, <1>4, <2>1 DEF IInv, Accounted
  <2> QED
    BY <1>4, <2>2, <2>3 DEF IInv
<1>7. CASE ProbedWithoutAdapter
  <2>1. /\ HandlesOK' /\ Listed' = {}
        /\ \A q \in Res : rm'[q] = IF q \in Listed THEN Free ELSE rm[q]
        /\ UNCHANGED unlisted
    BY <1>7, DeallocRes DEF IInv, ProbedWithoutAdapter
  <2>2. Accounted'
    BY <1>1, <1>4, <2>1 DEF IInv, Accounted
  <2> QED
    BY <1>4, <2>1, <2>2 DEF IInv
<1> QED
  BY <1>5, <1>6, <1>7

(* The end of the initialisation.                                          *)
LEMMA InitializedIInv ==
  ASSUME IInv, Initialized
  PROVE  IInv'
<1>1. /\ scan.pc = "driver" /\ scan \in ScanType /\ scan' = [scan EXCEPT !.pc = "up"]
      /\ UNCHANGED <<pci_devices, Resource_stt, AdapterHandle, rm, unlisted,
                     iAdapterNumber, exitCalls, accepted>>
  BY DEF IInv, RestOK, Initialized, handles
<1>2. /\ scan' \in ScanType /\ scan'.pc = "up"
      /\ scan'.driver = scan.driver /\ scan'.last = scan.last /\ scan'.iAdapter = scan.iAdapter
  BY <1>1 DEF ScanType
<1>3. ~Probing /\ ~Probing' /\ ~Scanning /\ ~Scanning'
  BY <1>1, <1>2 DEF Probing, Scanning
<1>4. HandlesOK' /\ RestOK'
  BY <1>1, <1>2 DEF IInv, HandlesOK, RestOK, Listed
<1>5. ScanSound' /\ Accounted'
  BY <1>1, <1>2, <1>3 DEF IInv, ScanSound, Accounted, Listed, Probing
<1>6. TableSound'
  <2>1. ASSUME NEW s \in Slots, Bound(s) PROVE Bound(s)'
    BY <2>1, <1>1, <1>2, <1>3 DEF Bound
  <2>2. ASSUME NEW s \in Slots, Sought(s) PROVE Sought(s)'
    BY <2>2, <1>1, <1>2 DEF Sought
  <2> QED
    BY <2>1, <2>2, <1>1, <1>3 DEF IInv, TableSound
<1>7. ExitsSound'
  BY <1>1, <1>2, <1>3 DEF IInv, ExitsSound, Used, EmptySlots, HasExit
<1> QED
  BY <1>4, <1>5, <1>6, <1>7 DEF IInv

(* Suspend and resume change the current adapter only.                     *)
LEMMA APMIInv ==
  ASSUME IInv, APM
  PROVE  IInv'
<1>1. UNCHANGED <<pci_devices, Resource_stt, rm, unlisted, accepted, scan,
                  iAdapterNumber, exitCalls>>
  BY DEF APM
<1> DEFINE last == CHOOSE s \in Used : \A t \in Used : s >= t
<1>2. last \in Slots
  <2>1. Used \in SUBSET (0 .. MAX_PCI_DEVICES) /\ Used # {} /\ Used \subseteq Slots
    BY PciAssumption DEF Used, Slots, APM
  <2>2. \E s \in Used : \A t \in Used : s >= t
    BY <2>1, GreatestNat, PciAssumption
  <2> QED
    BY <2>1, <2>2
<1>3. AdapterHandle' = pci_devices[last].hAdapter
  BY DEF APM
<1> HIDE DEF last
<1>4. AdapterHandle' \in Devs \cup {None}
  BY <1>2, <1>3 DEF IInv, RestOK, Entry
<1>5. HandlesOK' /\ RestOK'
  BY <1>1, <1>4 DEF IInv, HandlesOK, RestOK, Listed
<1>6. ScanSound' /\ Accounted' /\ TableSound' /\ ExitsSound'
  BY <1>1 DEF IInv, ScanSound, Accounted, Listed, TableSound, ExitsSound, Bound, Sought,
              Probing, Scanning, EmptySlots, Used, HasExit, Dev
<1> QED
  BY <1>5, <1>6 DEF IInv

(* The exit call at the head of the table removes its driver's cards and   *)
(* no others: the cards still there belong to it or to later drivers.      *)
LEMMA Removed ==
  ASSUME IInv, Shutdown, NEW s \in Used, pci_devices[s].dev \in Devs
  PROVE  /\ pci_devices[s].driver \in Drivers /\ HasExit(pci_devices[s].driver)
         /\ pci_devices[s].dev \in Claims[NextExit] <=> pci_devices[s].driver = NextExit
<1> USE PciAssumption
<1>1. scan.pc \in {"up", "down"} /\ exitCalls # <<>>
  BY DEF Shutdown
<1>2. ~Probing /\ ~Scanning
  BY <1>1 DEF Probing, Scanning
<1>3. s \in Slots /\ pci_devices[s].dev # None
  BY DEF Used, EmptySlots
<1>4. Bound(s)
  BY <1>2, <1>3, Apart DEF IInv, TableSound, NoDev, Sought
<1>5. /\ pci_devices[s].driver \in Drivers /\ pci_devices[s].driver # None
      /\ pci_devices[s].dev \in Matches[pci_devices[s].driver]
  BY <1>3, <1>4, Apart DEF Bound, Drivers
<1>6. HasExit(pci_devices[s].driver)
  BY <1>2, <1>5 DEF IInv, ExitsSound
<1>7. PICK i \in 1 .. Len(exitCalls) : exitCalls[i] = pci_devices[s].driver
  BY <1>6 DEF HasExit
<1>8. exitCalls \in Seq(Drivers) /\ Len(exitCalls) \in Nat /\ 1 \in 1 .. Len(exitCalls)
  BY <1>1, <1>7 DEF IInv, RestOK
<1>9. NextExit \in Drivers /\ NextExit <= pci_devices[s].driver
  <2>1. exitCalls[1] \in Drivers
    BY <1>8
  <2>2. exitCalls[1] <= exitCalls[i]
    BY <1>7, <1>8 DEF IInv, ExitsSound
  <2> QED
    BY <2>1, <2>2, <1>7 DEF NextExit
<1>10. NextExit < pci_devices[s].driver => pci_devices[s].dev \notin Claims[NextExit]
  BY <1>4, <1>5, <1>9 DEF Bound
<1>11. NextExit = pci_devices[s].driver => pci_devices[s].dev \in Claims[NextExit]
  BY <1>4, <1>5 DEF Bound
<1> QED
  BY <1>5, <1>6, <1>9, <1>10, <1>11 DEF Drivers

(* The shutdown of the devices keeps the invariant.                        *)
LEMMA ShutdownIInv ==
  ASSUME IInv, Shutdown
  PROVE  IInv'
<1> USE PciAssumption
<1> DEFINE gone == {s \in Used : pci_devices[s].dev \in Claims[NextExit]}
<1>1. /\ scan.pc \in {"up", "down"} /\ exitCalls # <<>> /\ scan \in ScanType
      /\ scan' = [scan EXCEPT !.pc = "down"] /\ exitCalls' = Tail(exitCalls)
      /\ pci_devices' = [s \in Slots |-> IF s \in gone THEN NoDev ELSE pci_devices[s]]
      /\ \/ UNCHANGED rm
         \/ RMDeallocateIRQ({pci_devices[s].irq : s \in {t \in gone : pci_devices[t].driver # None}})
      /\ UNCHANGED <<Resource_stt, AdapterHandle, unlisted, accepted, iAdapterNumber>>
  BY DEF IInv, RestOK, Shutdown
<1>2. /\ scan' \in ScanType /\ scan'.pc = "down"
      /\ scan'.driver = scan.driver /\ scan'.last = scan.last /\ scan'.iAdapter = scan.iAdapter
  BY <1>1 DEF ScanType
<1>3. ~Probing /\ ~Probing' /\ ~Scanning /\ ~Scanning'
  BY <1>1, <1>2 DEF Probing, Scanning
<1>4. /\ HandlesOK' /\ Listed' = Listed
      /\ \A q \in Res : rm'[q] # Free => rm'[q] = rm[q]
  BY <1>1, DeallocateIRQ DEF IInv
<1>5. Accounted'
  BY <1>1, <1>3, <1>4 DEF IInv, Accounted
<1>6. \A s \in Slots : pci_devices'[s] = NoDev \/ (s \notin gone /\ pci_devices'[s] = pci_devices[s])
  BY <1>1
<1>7. /\ exitCalls' \in Seq(Drivers) /\ Len(exitCalls') = Len(exitCalls) - 1
      /\ Len(exitCalls') \in Nat
      /\ \A i \in 1 .. Len(exitCalls') : exitCalls'[i] = exitCalls[i + 1]
  BY <1>1 DEF IInv, RestOK
<1>8. RestOK'
  <2>1. NoDev \in Entry
    BY DEF NoDev, Entry
  <2> HIDE DEF gone
  <2>2. pci_devices' \in [Slots -> Entry]
    BY <2>1, <1>1 DEF IInv, RestOK
  <2>3. Len(exitCalls') <= OSS32_MAX_AUDIOCARDS
    BY <1>7 DEF IInv, RestOK
  <2> QED
    BY <2>2, <2>3, <1>1, <1>2, <1>7 DEF IInv, RestOK
<1>9. ScanSound'
  BY <1>1, <1>2, <1>3 DEF IInv, ScanSound, Probing
<1>10. TableSound'
  <2>1. ASSUME NEW s \in Slots, Bound(s), pci_devices'[s] = pci_devices[s] PROVE Bound(s)'
    BY <2>1, <1>2, <1>3 DEF Bound
  <2>2. ASSUME NEW s \in Slots, Sought(s), pci_devices'[s] = pci_devices[s] PROVE Sought(s)'
    BY <2>2, <1>2 DEF Sought
  <2>3. NoDev.dev \notin Devs
    BY Apart DEF NoDev, AllDevs
  <2>4. \A s, t \in Slots : pci_devices'[s].dev \in Devs
                          /\ pci_devices'[s].dev = pci_devices'[t].dev => s = t
    BY <2>3, <1>6 DEF IInv, TableSound
  <2>5. \A s \in Slots : pci_devices[s] = NoDev \/ Bound(s) \/ Sought(s)
    BY <1>3 DEF IInv, TableSound
  <2> QED
    BY <2>1, <2>2, <2>4, <2>5, <1>6 DEF TableSound
<1>11. ExitsSound'
  <2> DEFINE n == Len(exitCalls')
  <2>1. n \in Nat /\ \A i \in 1 .. n : i + 1 \in 1 .. Len(exitCalls)
    BY <1>7
  <2>2. \A i, j \in 1 .. n : i <= j => exitCalls'[i] <= exitCalls'[j]
    <3> SUFFICES ASSUME NEW i \in 1 .. n, NEW j \in 1 .. n, i <= j
                 PROVE  exitCalls'[i] <= exitCalls'[j]
      OBVIOUS
    <3>1. i + 1 \in 1 .. Len(exitCalls) /\ j + 1 \in 1 .. Len(exitCalls) /\ i + 1 <= j + 1
      BY <2>1
    <3> QED
      BY <3>1, <1>7 DEF IInv, ExitsSound
  <2>3. \A i \in 1 .. n : exitCalls'[i] <= scan'.driver
    BY <2>1, <1>2, <1>7 DEF IInv, ExitsSound
  <2>4. ASSUME NEW s \in Used', pci_devices'[s].dev \in Devs
        PROVE  HasExit(pci_devices[s].driver)'
    <3>1. s \in Slots /\ s \notin gone /\ pci_devices'[s] = pci_devices[s]
      BY <1>6 DEF Used, EmptySlots, NoDev
    <3>2. s \in Used
      BY <3>1 DEF Used, EmptySlots
    <3>3. HasExit(pci_devices[s].driver) /\ pci_devices[s].driver # NextExit
      BY <3>1, <3>2, <2>4, Removed
    <3>4. PICK i \in 1 .. Len(exitCalls) : exitCalls[i] = pci_devices[s].driver
      BY <3>3 DEF HasExit
    <3>5. i - 1 \in 1 .. n /\ (i - 1) + 1 = i
      BY <3>3, <3>4, <1>7 DEF NextExit
    <3>6. exitCalls'[i - 1] = pci_devices'[s].driver
      BY <3>1, <3>4, <3>5, <1>7
    <3> QED
      BY <3>5, <3>6 DEF HasExit
  <2> QED
    BY <2>2, <2>3, <2>4, <1>2 DEF ExitsSound
<1> QED
  BY <1>4, <1>5, <1>8, <1>9, <1>10, <1>11 DEF IInv

-----------------------------------------------------------------------------
(* The invariant is kept by every step.                                    *)
LEMMA NextIInv == IInv /\ [Next]_vars => IInv'
<1> SUFFICES ASSUME IInv, [Next]_vars PROVE IInv'
  OBVIOUS
<1>1. CASE UNCHANGED vars
  BY <1>1 DEF vars, IInv, HandlesOK, RestOK, ScanSound, TableSound, Accounted, ExitsSound,
              Listed, Bound, Sought, Probing, Scanning, EmptySlots, Used, HasExit, Dev
<1>2. CASE Boot
  BY <1>2, RegisterDriverIInv, QueryIInv, ScanEndsIInv, ProbeRegionIInv, ProbeIrqIInv,
     FindIInv, ProbeFailsIInv, FailedIInv, ProbedIInv, InitializedIInv DEF Boot
<1> QED
  BY <1>1, <1>2, APMIInv, ShutdownIInv DEF Next

(* The inductive invariant holds in every reachable state.                 *)
LEMMA SpecIInv == Spec => []IInv
  BY InitIInv, NextIInv, PTL DEF Spec

(* Resource_stt lists each handle once and only handles that the driver    *)
(* holds, on every bus: RMDeallocRes takes nothing from an adapter.        *)
THEOREM PciListedHeld == Spec => []ListedHeld
<1>1. IInv => ListedHeld
  BY DEF IInv, ListedHeld, TypeOK, HandlesOK, RestOK, Entry, ScanType
<1> QED
  BY <1>1, SpecIInv, PTL

(* Between two probes the resource manager holds nothing of a card that    *)
(* was not accepted, but for what the list never held; every entry of the  *)
(* table has its driver or is that of a device some probe has looked for,  *)
(* and no card has two.                                                    *)
THEOREM PciFailedProbeReturns == Spec => []FailedProbeReturns
<1>1. IInv => FailedProbeReturns
  <2> SUFFICES ASSUME IInv, scan.pc \in {"driver", "query", "up"}
               PROVE  /\ \A r \in Res : rm[r] # Free => r[1] \in accepted \/ r \in unlisted
                      /\ \A s \in Slots : pci_devices[s].dev # None =>
                            \/ pci_devices[s].driver # None
                            \/ \E v \in Drivers : v <= scan.driver
                                  /\ pci_devices[s].dev \in Seeks[v]
                      /\ \A s, t \in Slots : pci_devices[s].dev \in Devs =>
                            (pci_devices[s].dev = pci_devices[t].dev => s = t)
    BY DEF FailedProbeReturns
  <2>1. ~Probing /\ scan.pc # "irq" /\ scan.pc # "failed"
    BY DEF Probing
  <2>2. \A r \in Res : rm[r] # Free => r[1] \in accepted \/ r \in unlisted
    BY <2>1 DEF IInv, Accounted
  <2>3. \A s \in Slots : pci_devices[s] = NoDev \/ Bound(s) \/ Sought(s)
    BY <2>1 DEF IInv, TableSound
  <2> QED
    BY <2>2, <2>3 DEF IInv, TableSound, Bound, Sought, NoDev, Drivers
<1> QED
  BY <1>1, SpecIInv, PTL

(* Once the driver is up, fnCardExitCall still has the exit call of every  *)
(* card that is left, however small the table.                             *)
THEOREM PciExitsCover == Spec => []ExitsCover
<1>1. IInv => ExitsCover
  <2> SUFFICES ASSUME IInv, scan.pc \in {"up", "down"}, NEW s \in Used,
                      pci_devices[s].dev \in Devs
               PROVE  pci_devices[s].driver \in {exitCalls[i] : i \in 1 .. Len(exitCalls)}
    BY DEF ExitsCover
  <2>1. ~Probing /\ ~Scanning
    BY DEF Probing, Scanning
  <2>2. s \in Slots /\ pci_devices[s].dev # None
    BY DEF Used, EmptySlots
  <2>3. Bound(s)
    BY <2>1, <2>2, Apart DEF IInv, TableSound, NoDev, Sought
  <2>4. HasExit(pci_devices[s].driver)
    BY <2>1, <2>3 DEF IInv, ExitsSound, Bound, Drivers
  <2> QED
    BY <2>4 DEF HasExit
<1> QED
  BY <1>1, SpecIInv, PTL

(* A region that an adapter has stays with it: what is freed is on the     *)
(* list or is an interrupt.                                                *)
LEMMA RegionsKept ==
  ASSUME IInv, Next, NEW r \in Devs \X Regions, rm[r] \in Devs
  PROVE  rm'[r] = rm[r]
<1> USE PciAssumption
<1>1. /\ r \in Res /\ rm[r] # Free /\ r \notin Listed
  BY DEF Res, AllDevs, IInv, HandlesOK, Devs, Own
<1>2. CASE RegisterDriver \/ pci_query_device \/ QueryFails \/ ScanEnds \/ Initialized
           \/ pci_find_device \/ ProbedWithoutNames \/ APM
  BY <1>2 DEF RegisterDriver, pci_query_device, QueryFails, ScanEnds, Initialized,
              pci_find_device, ProbedWithoutNames, APM, handles
<1>3. CASE ProbeRegion
  <2>1. CASE UNCHANGED handles
    BY <2>1 DEF handles
  <2>2. CASE RMRequestRegion(<<Dev, scan.region + 1>>)
    BY <2>2, <1>1 DEF RMRequestRegion, IInv, HandlesOK
  <2> QED
    BY <1>3, <2>1, <2>2 DEF ProbeRegion
<1>4. CASE ProbeIrq
  BY <1>4, <1>1 DEF ProbeIrq, RMRequestIRQ, RMRequestIRQFails, IInv, HandlesOK
<1>5. CASE ProbeFails
  BY <1>5, DeallocateIRQ DEF ProbeFails, IInv
<1>6. CASE Failed \/ ProbedWithoutAdapter
  BY <1>6, <1>1, DeallocRes DEF Failed, ProbedWithoutAdapter, IInv
<1>7. CASE Probed
  BY <1>7, <1>1 DEF Probed, RMCreateAdapter
<1>8. CASE Shutdown
  <2>1. PICK D : UNCHANGED rm \/ RMDeallocateIRQ(D)
    BY <1>8 DEF Shutdown
  <2> QED
    BY <1>8, <2>1, DeallocateIRQ DEF Shutdown, IInv
<1> QED
  BY <1>2, <1>3, <1>4, <1>5, <1>6, <1>7, <1>8 DEF Next, Boot

(* The entry of an accepted card is written by the removal of its driver   *)
(* only.                                                                   *)
LEMMA EntriesKept ==
  ASSUME IInv, Next, NEW s \in Slots, pci_devices[s].driver # None,
         pci_devices[s].dev \in Devs \ ZeroDevfn
  PROVE  pci_devices'[s] = pci_devices[s] \/ (Shutdown /\ NextExit = pci_devices[s].driver)
<1> USE PciAssumption
<1>0. pci_devices \in [Slots -> Entry]
  BY DEF IInv, RestOK
<1>1. pci_devices[s].dev # None
  BY Apart DEF AllDevs
<1>2. s \in Used
  BY <1>1 DEF Used, EmptySlots
<1>3. CASE pci_query_device \/ QueryFails
  <2>1. scan.pc = "query" /\ scan.last < NDevs
    BY <1>3 DEF pci_query_device, QueryFails
  <2>2. scan.slot \in EmptySlots(pci_devices)
    BY <2>1 DEF IInv, ScanSound
  <2>3. s # scan.slot
    BY <2>2, <1>2 DEF Used
  <2> QED
    BY <1>0, <1>3, <2>3 DEF pci_query_device, QueryFails
<1>4. CASE Failed \/ Probed \/ ProbedWithoutNames \/ ProbedWithoutAdapter
  <2>1. Probing
    BY <1>4 DEF Failed, Probed, ProbedWithoutNames, ProbedWithoutAdapter, Probing
  <2>2. s # scan.slot
    BY <2>1 DEF IInv, ScanSound
  <2> QED
    BY <1>0, <1>4, <2>2 DEF Failed, Probed, ProbedWithoutNames, ProbedWithoutAdapter, Bind
<1>5. CASE RegisterDriver \/ ScanEnds \/ ProbeRegion \/ ProbeIrq \/ ProbeFails
           \/ Initialized \/ APM
  BY <1>5 DEF RegisterDriver, ScanEnds, ProbeRegion, ProbeIrq, ProbeFails, Initialized, APM
<1>7. CASE pci_find_device
  <2>1. First(EmptySlots(pci_devices)) \in EmptySlots(pci_devices)
    BY <1>7, FirstIn DEF EmptySlots, pci_find_device
  <2>2. s # First(EmptySlots(pci_devices))
    BY <2>1, <1>2 DEF Used
  <2> QED
    BY <1>0, <1>7, <2>2 DEF pci_find_device
<1>6. CASE Shutdown
  <2>1. pci_devices[s].dev \notin Claims[NextExit] => pci_devices'[s] = pci_devices[s]
    BY <1>6 DEF Shutdown
  <2> QED
    BY <1>2, <1>6, <2>1, Removed
<1> QED
  BY <1>3, <1>4, <1>5, <1>6, <1>7 DEF Next, Boot

(* A card keeps its entry until the driver that probed it removes it, and  *)
(* an adapter its regions, but for a card whose devfn is 0.                *)
THEOREM PciCardsKept == Spec => CardsKept
<1>1. IInv /\ [Next]_vars =>
        [/\ \A r \in Devs \X Regions : rm[r] \in Devs => rm'[r] = rm[r]
         /\ \A s \in Slots :
               pci_devices[s].driver # None /\ pci_devices[s].dev \in Devs \ ZeroDevfn =>
                   \/ pci_devices'[s] = pci_devices[s]
                   \/ Shutdown /\ NextExit = pci_devices[s].driver]_vars
  BY RegionsKept, EntriesKept
<1> QED
  BY <1>1, SpecIInv, PTL DEF Spec, CardsKept
=============================================================================
