--------------------------- MODULE DiscoveryProofs ---------------------------
(***************************************************************************)
(* Theorems about Discovery for any numbers of slots and nodes, any bound  *)
(* on what is under way, and any order of reports, node lists, pack        *)
(* records, platform set-ups and losses of the link.                       *)
(***************************************************************************)
EXTENDS Discovery, FiniteSetTheorems, TLAPS

USE DiscoveryAssumption

\* The state before the first frame satisfies IInv.
LEMMA InitIInv == Init => IInv
<1> SUFFICES ASSUME Init PROVE IInv
  OBVIOUS
<1> USE DEF Init
<1>1. slots \in Nat \ {0}
  BY DEF Kinds
<1>2. TypeOK
  <2>1. selected \in 1..slots
    BY <1>1
  <2>2. reports \in Seq(Reports) /\ selects \in Seq(1..slots) /\ applied \in 0..Len(selects)
    OBVIOUS
  <2>3. QED
    BY <1>1, <2>1, <2>2 DEF TypeOK
<1>3. PackControl
  BY FS_EmptySet DEF PackControl
<1>4. NodeControl
  BY DEF NodeControl
<1>5. CountedPacksHaveSensors /\ OneSetOfEntities
  BY DEF CountedPacksHaveSensors, OneSetOfEntities
<1>6. QED
  BY <1>2, <1>3, <1>4, <1>5 DEF IInv

\* The next pack is a slot of the device.
LEMMA NextPackInRange ==
  ASSUME slots \in Nat \ {0}, NEW k \in 1..slots
  PROVE  NextPack(k) \in 1..slots
<1>1. k % slots \in 0..slots - 1
  OBVIOUS
<1>2. QED
  BY <1>1 DEF NextPack

\* A set of slots is finite and has as many members as slots at most.
LEMMA SlotSets ==
  ASSUME slots \in Nat \ {0}, NEW S \in SUBSET (1..slots)
  PROVE  IsFiniteSet(S) /\ Cardinality(S) \in 0..slots
<1>1. IsFiniteSet(1..slots) /\ Cardinality(1..slots) = slots
  <2>1. 1 \in Int /\ slots \in Int
    OBVIOUS
  <2>2. IsFiniteSet(1..slots) /\ Cardinality(1..slots) = IF 1 > slots THEN 0 ELSE slots - 1 + 1
    BY <2>1, FS_Interval
  <2>3. QED
    BY <2>2
<1>2. IsFiniteSet(S) /\ Cardinality(S) <= Cardinality(1..slots)
  BY <1>1, FS_Subset
<1>3. Cardinality(S) \in Nat
  BY <1>2, FS_CardinalityType
<1>4. QED
  BY <1>1, <1>2, <1>3

\* What the platforms ps create from a list ns: nothing twice, nothing elsewhere, and
\* all that the list calls for.
Completes(new, ps, ns) ==
    /\ new \in [Platforms -> [Addresses -> Nat]]
    /\ \A p \in Platforms : \A a \in Addresses :
          /\ new[p][a] <= 1
          /\ new[p][a] >= entities[p][a]
          /\ new[p][a] > entities[p][a] => p \in ps /\ a \in ns
          /\ p \in ps /\ a \in ns /\ (p = "sensor" => a \in Batteries) => new[p][a] = 1

\* What a platform creates from a list keeps the entities single and complete.
LEMMA CreatedOnce ==
  ASSUME IInv, NEW ps \in SUBSET Platforms, NEW ns \in SUBSET Addresses, NEW rec
  PROVE  Completes(CreatedBy(ps, ns, rec), ps, ns)
<1> DEFINE new == CreatedBy(ps, ns, rec)
<1>1. ASSUME NEW p \in Platforms, NEW a \in Addresses
      PROVE  /\ new[p][a] = IF p \in ps /\ a \in Created(p, ns, rec)
                            THEN entities[p][a] + 1 ELSE entities[p][a]
             /\ entities[p][a] \in Nat /\ entities[p][a] <= 1
  BY DEF CreatedBy, IInv, TypeOK, OneSetOfEntities
<1>2. new \in [Platforms -> [Addresses -> Nat]]
  <2>1. \A p \in Platforms : \A a \in Addresses :
           (IF p \in ps /\ a \in Created(p, ns, rec)
            THEN entities[p][a] + 1 ELSE entities[p][a]) \in Nat
    BY <1>1
  <2>2. QED
    BY <2>1 DEF CreatedBy
<1>3. ASSUME NEW p \in Platforms, NEW a \in Addresses
      PROVE  /\ new[p][a] <= 1
             /\ new[p][a] >= entities[p][a]
             /\ new[p][a] > entities[p][a] => p \in ps /\ a \in ns
             /\ p \in ps /\ a \in ns /\ (p = "sensor" => a \in Batteries) => new[p][a] = 1
  <2>1. CASE p \in ps /\ a \in Created(p, ns, rec)
    <3>1. entities[p][a] = 0 /\ a \in ns
      BY <2>1 DEF Created
    <3>2. QED
      BY <1>1, <2>1, <3>1
  <2>2. CASE ~(p \in ps /\ a \in Created(p, ns, rec))
    <3>1. new[p][a] = entities[p][a]
      BY <1>1, <2>2
    <3>2. ASSUME p \in ps, a \in ns, p = "sensor" => a \in Batteries PROVE entities[p][a] # 0
      BY <2>2, <3>2 DEF Created, Shown, Platforms
    <3>3. QED
      BY <1>1, <3>1, <3>2
  <2>3. QED
    BY <2>1, <2>2
<1>4. QED
  BY <1>2, <1>3 DEF Completes

\* The facts about nodes hold after a step that leaves them alone.
LEMMA NodesKept ==
  ASSUME IInv, UNCHANGED <<nodes, ready, entities, missed>>
  PROVE  /\ recorded' \subseteq listed' /\ listed' \subseteq seen' /\ seen' \subseteq Addresses
         /\ ready' \subseteq Platforms
         /\ entities' \in [Platforms -> [Addresses -> Nat]]
         /\ missed' \in [Platforms -> SUBSET Addresses]
         /\ NodeControl' /\ OneSetOfEntities'
BY DEF IInv, TypeOK, nodes, NodeControl, OneSetOfEntities

\* The facts about packs hold after a step that leaves them alone.
LEMMA PacksKept ==
  ASSUME IInv, UNCHANGED <<device, wire, packs>>
  PROVE  /\ kind' \in Kinds /\ slots' \in SlotCounts[kind']
         /\ selected' \in 1..slots' /\ link' \in BOOLEAN
         /\ reports' \in Seq(Reports) /\ selects' \in Seq(1..slots')
         /\ applied' \in 0..Len(selects')
         /\ discovered' \subseteq 1..slots' /\ count' \in 0..slots'
         /\ PackControl'
BY DEF IInv, TypeOK, device, wire, packs, PackControl

\* A step of the wire changes none of what has been discovered or created.
LEMMA WireStep ==
  ASSUME IInv, UNCHANGED <<device, packs, packSensors, nodes, ready, entities, missed>>,
         selected' \in 1..slots, link' \in BOOLEAN,
         reports' \in Seq(Reports), selects' \in Seq(1..slots), applied' \in 0..Len(selects'),
         \A i \in 1..Len(reports') : reports'[i].pack \in 1..slots,
         kind # "pushing" => reports' = <<>>
  PROVE  IInv'
<1>1. TypeOK'
  BY NodesKept DEF IInv, TypeOK, device, packs
<1>2. PackControl'
  BY DEF IInv, PackControl, device, packs
<1>3. CountedPacksHaveSensors'
  BY DEF IInv, CountedPacksHaveSensors, packs
<1>4. QED
  BY <1>1, <1>2, <1>3, NodesKept DEF IInv

\* A report of the device keeps IInv: the count follows what has been discovered.
LEMMA ReportStep == IInv /\ ReportArrives => IInv'
<1> SUFFICES ASSUME IInv, ReportArrives PROVE IInv'
  OBVIOUS
<1> DEFINE m == Head(reports)
           found == discovered \cup {m.pack}
<1>1. /\ slots \in Nat \ {0} /\ reports \in Seq(Reports) /\ reports # <<>>
      /\ UNCHANGED <<device, selected, link, applied, nodes, ready, entities, missed>>
      /\ slots' = slots /\ kind' = kind /\ ready' = ready
  BY DEF IInv, TypeOK, Kinds, ReportArrives, device
<1>2. m.pack \in 1..slots /\ m.live \in BOOLEAN /\ kind = "pushing"
  <2>1. m = reports[1] /\ 1 \in 1..Len(reports)
    BY <1>1
  <2>2. m \in Reports
    BY <1>1, <2>1
  <2>3. reports[1].pack \in 1..slots /\ kind = "pushing"
    BY <1>1, <2>1 DEF IInv, PackControl
  <2>4. QED
    BY <2>1, <2>2, <2>3 DEF Reports
<1>3. reports' \in Seq(Reports) /\ \A i \in 1..Len(reports') : reports'[i].pack \in 1..slots
  <2>1. reports' = Tail(reports) /\ reports' \in Seq(Reports)
    BY <1>1 DEF ReportArrives
  <2>2. \A i \in 1..Len(reports') : reports'[i] = reports[i + 1] /\ i + 1 \in 1..Len(reports)
    BY <1>1, <2>1
  <2>3. QED
    BY <2>1, <2>2 DEF IInv, PackControl
<1>4. selects' \in Seq(1..slots) /\ applied' \in 0..Len(selects')
  <2>1. NextPack(m.pack) \in 1..slots
    BY <1>1, <1>2, NextPackInRange
  <2>2. selects \in Seq(1..slots) /\ applied \in 0..Len(selects)
    BY DEF IInv, TypeOK
  <2>3. selects' = Append(selects, NextPack(m.pack)) \/ selects' = selects
    BY DEF ReportArrives, Advance, SelectSent
  <2>4. CASE selects' = Append(selects, NextPack(m.pack))
    <3>1. selects' \in Seq(1..slots) /\ Len(selects') = Len(selects) + 1
      BY <2>1, <2>2, <2>4
    <3>2. QED
      BY <1>1, <2>2, <3>1
  <2>5. CASE selects' = selects
    BY <1>1, <2>2, <2>5
  <2>6. QED
    BY <2>3, <2>4, <2>5
<1>5. /\ discovered' \subseteq 1..slots /\ count' \in 0..slots /\ packSensors' \subseteq 1..slots
      /\ count' = Cardinality(discovered')
      /\ CountedPacksHaveSensors'
  <2>1. /\ discovered \subseteq 1..slots /\ count \in 0..slots /\ packSensors \subseteq 1..slots
        /\ count = Cardinality(discovered)
        /\ "sensor" \in ready => 1..count \subseteq packSensors
    BY <1>2 DEF IInv, TypeOK, PackControl, CountedPacksHaveSensors
  <2>2. CASE ~m.live
    BY <1>1, <2>1, <2>2 DEF ReportArrives, Discover, packs, CountedPacksHaveSensors
  <2>3. CASE m.live
    <3>1. /\ discovered' = found /\ count' = Cardinality(found)
          /\ packSensors' = IF m.pack \in discovered \/ Cardinality(found) = count
                            THEN packSensors ELSE OnNewPacks(Cardinality(found))
      BY <2>3 DEF ReportArrives, Discover
    <3>2. found \subseteq 1..slots
      BY <1>2, <2>1
    <3>3. Cardinality(found) \in 0..slots
      BY <1>1, <3>2, SlotSets
    <3>4. m.pack \in discovered => Cardinality(found) = count
      <4>1. m.pack \in discovered => found = discovered
        OBVIOUS
      <4>2. QED
        BY <2>1, <4>1
    <3>5. packSensors' \subseteq 1..slots
      <4>1. 1..Cardinality(found) \subseteq 1..slots
        BY <1>1, <3>3
      <4>2. packSensors' = packSensors \/ packSensors' = packSensors \cup 1..Cardinality(found)
        BY <3>1 DEF OnNewPacks
      <4>3. QED
        BY <2>1, <4>1, <4>2
    <3>6. "sensor" \in ready => 1..Cardinality(found) \subseteq packSensors'
      BY <2>1, <3>1, <3>4 DEF OnNewPacks
    <3>7. QED
      BY <1>1, <3>1, <3>2, <3>3, <3>5, <3>6 DEF CountedPacksHaveSensors
  <2>4. QED
    BY <1>2, <2>2, <2>3
<1>6. TypeOK'
  BY <1>1, <1>3, <1>4, <1>5, NodesKept DEF IInv, TypeOK, device
<1>7. PackControl'
  BY <1>1, <1>2, <1>3, <1>5 DEF PackControl
<1>8. QED
  BY <1>1, <1>5, <1>6, <1>7, NodesKept DEF IInv

\* A number of packs told by the device keeps IInv.
LEMMA MainInfoStep ==
  ASSUME NEW n \in 1..slots PROVE IInv /\ MainInfoArrives(n) => IInv'
<1> SUFFICES ASSUME IInv, MainInfoArrives(n) PROVE IInv'
  OBVIOUS
<1>1. /\ slots \in Nat \ {0}
      /\ UNCHANGED <<device, wire, discovered, nodes, ready, entities, missed>>
      /\ slots' = slots /\ kind' = kind /\ ready' = ready /\ reports' = reports
      /\ kind # "pushing" /\ count' = n /\ packSensors' = OnNewPacks(n)
  BY DEF IInv, TypeOK, Kinds, MainInfoArrives, CountChanges, device, wire
<1>2. packSensors' \subseteq 1..slots /\ CountedPacksHaveSensors'
  BY <1>1 DEF OnNewPacks, IInv, TypeOK, CountedPacksHaveSensors
<1>3. TypeOK'
  BY <1>1, <1>2, NodesKept DEF IInv, TypeOK, device, wire
<1>4. PackControl'
  BY <1>1 DEF IInv, PackControl
<1>5. QED
  BY <1>1, <1>2, <1>3, <1>4, NodesKept DEF IInv

\* A node list keeps IInv: an address seen for the first time gets its entities on the
\* platforms that are set up, and no address gets them twice.
LEMMA NodeListStep ==
  ASSUME NEW ns \in SUBSET Addresses PROVE IInv /\ NodeListArrives(ns) => IInv'
<1> SUFFICES ASSUME IInv, NodeListArrives(ns) PROVE IInv'
  OBVIOUS
<1> DEFINE new == CreatedBy(ready, ns, {})
<1>1. /\ UNCHANGED <<device, wire, packs, packSensors, ready, missed>>
      /\ listed' = ns /\ recorded' = {} /\ seen' = seen \cup ns
      /\ entities' = IF ns \subseteq seen THEN entities ELSE new
  BY DEF NodeListArrives
<1>2. /\ ready \subseteq Platforms /\ seen \subseteq Addresses
      /\ entities \in [Platforms -> [Addresses -> Nat]]
      /\ missed \in [Platforms -> SUBSET Addresses]
      /\ NodeControl /\ OneSetOfEntities
  BY DEF IInv, TypeOK
<1>3. Completes(new, ready, ns)
  <2>1. ready \in SUBSET Platforms
    BY <1>2
  <2>2. QED
    BY <2>1, CreatedOnce, Zenon
<1> HIDE DEF new
<1> USE DEF Completes
<1>4. TypeOK'
  BY <1>1, <1>2, <1>3, PacksKept DEF IInv, TypeOK, device
<1>5. NodeControl'
  BY <1>1, <1>2, <1>3 DEF NodeControl
<1>6. OneSetOfEntities'
  <2> SUFFICES ASSUME NEW p \in Platforms, NEW a \in Addresses
               PROVE  /\ entities'[p][a] <= 1
                      /\ p \in ready /\ a \in (seen \cup ns) \ missed[p]
                            /\ (p = "sensor" => a \in Batteries)
                         => entities'[p][a] = 1
    BY <1>1 DEF OneSetOfEntities
  <2>1. CASE ns \subseteq seen
    BY <1>1, <1>2, <2>1 DEF OneSetOfEntities
  <2>2. CASE ~(ns \subseteq seen)
    <3>1. entities' = new
      BY <1>1, <2>2
    <3>2. CASE a \in ns
      BY <1>3, <3>1, <3>2
    <3>3. CASE a \notin ns
      <4>1. p \in ready /\ a \in seen \ missed[p] /\ (p = "sensor" => a \in Batteries)
               => entities[p][a] = 1
        BY <1>2 DEF OneSetOfEntities
      <4>2. entities[p][a] \in Nat /\ new[p][a] \in Nat
        BY <1>2, <1>3
      <4>3. QED
        BY <1>3, <3>1, <3>3, <4>1, <4>2
    <3>4. QED
      BY <3>2, <3>3
  <2>3. QED
    BY <2>1, <2>2
<1>7. CountedPacksHaveSensors'
  BY <1>1 DEF IInv, CountedPacksHaveSensors, packs
<1>8. QED
  BY <1>1, <1>4, <1>5, <1>6, <1>7, PacksKept DEF IInv

\* A pack record changes only which nodes have one.
LEMMA RecordStep ==
  ASSUME NEW a \in WithPack PROVE IInv /\ PackRecordArrives(a) => IInv'
<1> SUFFICES ASSUME IInv, PackRecordArrives(a) PROVE IInv'
  OBVIOUS
<1>1. /\ UNCHANGED <<device, wire, packs, packSensors, listed, seen, ready, entities, missed>>
      /\ recorded' \subseteq listed
  BY DEF PackRecordArrives, Recorded, IInv, TypeOK
<1>2. TypeOK'
  BY <1>1, PacksKept DEF IInv, TypeOK, device
<1>3. NodeControl' /\ OneSetOfEntities' /\ CountedPacksHaveSensors'
  BY <1>1 DEF IInv, NodeControl, OneSetOfEntities, CountedPacksHaveSensors, packs
<1>4. QED
  BY <1>1, <1>2, <1>3, PacksKept DEF IInv

\* Setting a platform up creates entities for all that is counted and listed.
LEMMA SetUpStep ==
  ASSUME NEW p \in Platforms PROVE IInv /\ SetUp(p) => IInv'
<1> SUFFICES ASSUME IInv, SetUp(p) PROVE IInv'
  OBVIOUS
<1> DEFINE new == CreatedBy({p}, listed, recorded)
<1>1. /\ UNCHANGED <<device, wire, packs, nodes>> /\ count' = count /\ seen' = seen
      /\ slots' = slots
      /\ p \notin ready /\ ready' = ready \cup {p} /\ entities' = new
      /\ packSensors' = IF p = "sensor" THEN 1..count ELSE packSensors
      /\ missed' = [missed EXCEPT ![p] = seen \ listed]
  BY DEF SetUp, packs, nodes, device
<1>2. /\ slots \in Nat \ {0} /\ count \in 0..slots /\ packSensors \subseteq 1..slots
      /\ ready \subseteq Platforms /\ listed \subseteq seen /\ seen \subseteq Addresses
      /\ listed \in SUBSET Addresses /\ {p} \in SUBSET Platforms
      /\ entities \in [Platforms -> [Addresses -> Nat]]
      /\ missed \in [Platforms -> SUBSET Addresses]
      /\ NodeControl /\ OneSetOfEntities
  BY DEF IInv, TypeOK, Kinds
<1>3. Completes(new, {p}, listed)
  <2>1. listed \in SUBSET Addresses /\ {p} \in SUBSET Platforms
    BY <1>2
  <2>2. QED
    BY <2>1, CreatedOnce, Zenon
<1> HIDE DEF new
<1> USE DEF Completes
<1>4. packSensors' \subseteq 1..slots /\ CountedPacksHaveSensors'
  BY <1>1, <1>2 DEF IInv, CountedPacksHaveSensors
<1>5. missed' \in [Platforms -> SUBSET Addresses] /\ ready' \subseteq Platforms
  BY <1>1, <1>2
<1>6. TypeOK'
  BY <1>1, <1>2, <1>3, <1>4, <1>5, PacksKept DEF IInv, TypeOK, device, nodes
<1>7. NodeControl'
  BY <1>1, <1>2, <1>3 DEF NodeControl
<1>8. OneSetOfEntities'
  <2> SUFFICES ASSUME NEW q \in Platforms, NEW a \in Addresses
               PROVE  /\ new[q][a] <= 1
                      /\ q \in ready \cup {p} /\ a \in seen \ missed'[q]
                            /\ (q = "sensor" => a \in Batteries)
                         => new[q][a] = 1
    BY <1>1 DEF OneSetOfEntities
  <2>1. CASE q = p
    <3>1. missed'[q] = seen \ listed
      BY <1>1, <1>2, <2>1
    <3>2. QED
      BY <1>3, <2>1, <3>1
  <2>2. CASE q # p
    <3>1. missed'[q] = missed[q]
      BY <1>1, <1>2, <2>2
    <3>2. q \in ready /\ a \in seen \ missed[q] /\ (q = "sensor" => a \in Batteries)
             => entities[q][a] = 1
      BY <1>2 DEF OneSetOfEntities
    <3>3. entities[q][a] \in Nat /\ new[q][a] \in Nat
      BY <1>2, <1>3
    <3>4. QED
      BY <1>3, <2>2, <3>1, <3>2, <3>3
  <2>3. QED
    BY <2>1, <2>2
<1>9. QED
  BY <1>1, <1>4, <1>6, <1>7, <1>8, PacksKept DEF IInv

\* Every handler, every platform set-up and every event of the wire preserves IInv.
LEMMA NextIInv == IInv /\ [Next]_vars => IInv'
<1> SUFFICES ASSUME IInv, [Next]_vars PROVE IInv'
  OBVIOUS
<1>0. /\ slots \in Nat \ {0} /\ selected \in 1..slots /\ link \in BOOLEAN
      /\ reports \in Seq(Reports) /\ selects \in Seq(1..slots) /\ applied \in 0..Len(selects)
      /\ \A i \in 1..Len(reports) : reports[i].pack \in 1..slots
      /\ kind # "pushing" => reports = <<>>
  BY DEF IInv, TypeOK, PackControl, Kinds
<1>1. CASE ReportArrives
  BY <1>1, ReportStep
<1>2. ASSUME NEW live \in BOOLEAN, DeviceReports(live) PROVE IInv'
  <2> DEFINE m == [pack |-> selected, live |-> live]
  <2>1. reports' = Append(reports, m) /\ m \in Reports /\ kind = "pushing"
    BY <1>0, <1>2 DEF DeviceReports, Reports
  <2>2. reports' \in Seq(Reports) /\ Len(reports') = Len(reports) + 1
    BY <1>0, <2>1
  <2>3. \A i \in 1..Len(reports') : reports'[i].pack \in 1..slots
    <3> SUFFICES ASSUME NEW i \in 1..Len(reports') PROVE reports'[i].pack \in 1..slots
      OBVIOUS
    <3>1. reports'[i] = IF i = Len(reports) + 1 THEN m ELSE reports[i]
      BY <1>0, <2>1, <2>2
    <3>2. QED
      BY <1>0, <2>2, <3>1
  <2>4. QED
    BY <1>0, <1>2, <2>1, <2>2, <2>3, WireStep DEF DeviceReports
<1>3. CASE DeviceSelects
  <2>1. selected' \in 1..slots /\ applied' \in 0..Len(selects)
    BY <1>0, <1>3 DEF DeviceSelects
  <2>2. QED
    BY <1>0, <1>3, <2>1, WireStep DEF DeviceSelects
<1>4. CASE Acknowledged
  <2>1. selects' \in Seq(1..slots) /\ Len(selects') = Len(selects) - 1
    BY <1>0, <1>4 DEF Acknowledged
  <2>2. applied' \in 0..Len(selects')
    BY <1>0, <1>4, <2>1 DEF Acknowledged
  <2>3. QED
    BY <1>0, <1>4, <2>1, <2>2, WireStep DEF Acknowledged
<1>5. CASE LinkDrops
  <2>1. PICK n \in 0..Len(reports) : reports' = SubSeq(reports, 1, n)
    BY <1>5 DEF LinkDrops
  <2>2. reports' \in Seq(Reports) /\ Len(reports') = n
    BY <1>0, <2>1
  <2>3. \A i \in 1..Len(reports') : reports'[i] = reports[i] /\ i \in 1..Len(reports)
    BY <1>0, <2>1, <2>2
  <2>4. \A i \in 1..Len(reports') : reports'[i].pack \in 1..slots
    BY <1>0, <2>3
  <2>5. QED
    BY <1>0, <1>5, <2>2, <2>4, WireStep DEF LinkDrops
<1>6. CASE LinkReturns
  <2>1. selects' \in Seq(1..slots)
    <3>1. selects' = selects \/ selects' = <<>>
      BY <1>6 DEF LinkReturns
    <3>2. CASE selects' = selects
      BY <1>0, <3>2
    <3>3. CASE selects' = <<>>
      BY <3>3
    <3>4. QED
      BY <3>1, <3>2, <3>3
  <2>2. applied' \in 0..Len(selects')
    BY <1>6, <2>1 DEF LinkReturns
  <2>3. QED
    BY <1>0, <1>6, <2>1, <2>2, WireStep DEF LinkReturns
<1>7. ASSUME NEW n \in 1..slots, MainInfoArrives(n) PROVE IInv'
  BY <1>7, MainInfoStep
<1>8. CASE SomeNodeListArrives
  BY <1>8, NodeListStep DEF SomeNodeListArrives
<1>9. ASSUME NEW a \in WithPack, PackRecordArrives(a) PROVE IInv'
  BY <1>9, RecordStep
<1>10. ASSUME NEW p \in Platforms, SetUp(p) PROVE IInv'
  BY <1>10, SetUpStep
<1>11. CASE UNCHANGED vars
  <2>1. /\ UNCHANGED <<device, packs, packSensors, nodes, ready, entities, missed>>
        /\ UNCHANGED <<selected, link, reports, selects, applied>>
    BY <1>11 DEF vars, wire
  <2>2. QED
    BY <1>0, <2>1, WireStep
<1>12. QED
  BY <1>1, <1>2, <1>3, <1>4, <1>5, <1>6, <1>7, <1>8, <1>9, <1>10, <1>11 DEF Next

\* The inductive invariant holds in every reachable state.
THEOREM DiscoveryInvariant == Spec => []IInv
BY InitIInv, NextIInv, PTL DEF Spec

\* Types hold, and with them the bounds: no slot beyond the device's is selected, and no
\* count exceeds its slots.
THEOREM DiscoveryTypes == Spec => []TypeOK
<1>1. IInv => TypeOK
  BY DEF IInv
<1>2. QED
  BY <1>1, DiscoveryInvariant, PTL

\* Each of the packs counted has its sensors, whatever order they were found in and
\* whenever the platform was set up.
THEOREM CountedPacksShown == Spec => []CountedPacksHaveSensors
<1>1. IInv => CountedPacksHaveSensors
  BY DEF IInv
<1>2. QED
  BY <1>1, DiscoveryInvariant, PTL

\* A node known to a platform has one set of entities there, through all that its list
\* goes through.
THEOREM NodesShownOnce == Spec => []OneSetOfEntities
<1>1. IInv => OneSetOfEntities
  BY DEF IInv
<1>2. QED
  BY <1>1, DiscoveryInvariant, PTL

==============================================================================
