------------------------------ MODULE Discovery ------------------------------
(***************************************************************************)
(* What a device is made of is learnt while it is running, and entities    *)
(* are created for it on the way: battery packs of V1 devices, expansions  *)
(* (nodes) of V2 devices.  mqtt_manager.py discovers and calls back;       *)
(* sensor.py and binary_sensor.py create, at set-up for what is known by   *)
(* then and in their callbacks for the rest.                               *)
(*                                                                         *)
(* A device that pushes (AC300) tells of one pack at a time, the selected  *)
(* one; each of its reports makes the manager select the next pack, by a   *)
(* write of QoS 1 that travels while the device goes on reporting.  A      *)
(* device that is polled tells how many packs it has.  A V2 device lists   *)
(* its nodes and answers for the pack of each node that has one.           *)
(*                                                                         *)
(* The model is of one device: the manager keeps all of this by device.    *)
(* Nothing here gives way: a frame is handled, and a platform set up, in   *)
(* one step of the event loop.  The block that tells the selected pack     *)
(* tells the number of slots too, so _pack_slots needs no variable.        *)
(***************************************************************************)
EXTENDS Naturals, Sequences, FiniteSets

CONSTANTS SlotCounts,  \* kind of device -> the numbers of pack slots it may have
          MaxPacks,    \* MAX_PACKS, the guard of a pack-select write
          Addresses,   \* slave addresses of nodes
          Main,        \* that of the main unit, 0
          Batteries,   \* the nodes whose model is a battery
          WithPack,    \* the nodes that answer a read of their pack
          MaxOnWire    \* bound: reports, and pack-select writes, under way at once

Kinds == {"pushing", "polled", "v2"}

ASSUME DiscoveryAssumption ==
    /\ SlotCounts \in [Kinds -> SUBSET (Nat \ {0})]
    /\ MaxPacks \in Nat \ {0} /\ MaxOnWire \in Nat \ {0}
    /\ Main \in Addresses /\ Batteries \subseteq Addresses
    /\ WithPack \subseteq Batteries \cup {Main}

Platforms == {"sensor", "binary_sensor"}

VARIABLES kind, slots,   \* the device: its kind, its number of pack slots
          selected,      \* and the slot it reports
          link,          \* mqtt_client.is_connected
          reports,       \* reports on their way to the event loop, in order
          selects,       \* pack-select writes not acknowledged yet, in order
          applied,       \* how many of those the device has applied
          discovered,    \* _discovered_packs
          count,         \* _pack_counts
          packSensors,   \* sensor.py: created_packs
          listed,        \* addresses in overlays[sn]["nodes"]
          recorded,      \* those of them with has_battery and a pack record
          seen,          \* _discovered_nodes
          ready,         \* the platforms set up, their callbacks registered
          entities,      \* platform -> address -> how often its entities were created
          missed         \* history: platform -> seen before its set-up, but not listed then

device == <<kind, slots>>
wire == <<selected, link, reports, selects, applied>>
packs == <<discovered, count>>
nodes == <<listed, recorded, seen>>
vars == <<device, wire, packs, packSensors, nodes, ready, entities, missed>>

------------------------------------------------------------------------------
(* Mutated forms, each standing for a plausible bug in the operator it       *)
(* replaces when the mutation runs are made.                                 *)

CountEveryReport(m) ==
    /\ discovered' = discovered \cup {m.pack}
    /\ count' = count + 1
    /\ packSensors' = IF "sensor" \in ready THEN packSensors \cup 1..count + 1 ELSE packSensors
OnlyTheLast(n) == IF "sensor" \in ready THEN packSensors \cup {n} ELSE packSensors
FromZero(k) == (k + 1) % slots
ZeroIsNone(a) == recorded \cup ({a} \cap (listed \ {Main}))

------------------------------------------------------------------------------
(* Battery packs.                                                            *)

\* What parse_fc16_registers reads from the block of the selected pack: its number, and
\* whether it has a voltage or a state of charge.
Reports == [pack : Nat, live : BOOLEAN]

\* sensor.py, _on_new_packs: sensors for packs 1 to n, as far as there are none yet.
OnNewPacks(n) == IF "sensor" \in ready THEN packSensors \cup 1..n ELSE packSensors

\* A count that differs from the one known is stored and announced.
CountChanges(n) == count' = n /\ packSensors' = OnNewPacks(n)

\* A pack with a voltage or a state of charge is a discovered one.  A count that
\* changed without a new pack is stored and not announced.
Discover(m) ==
    LET found == discovered \cup {m.pack}
    IN IF ~m.live THEN UNCHANGED <<packs, packSensors>>
       ELSE /\ discovered' = found
            /\ count' = Cardinality(found)
            /\ packSensors' = IF m.pack \in discovered \/ Cardinality(found) = count
                              THEN packSensors ELSE OnNewPacks(Cardinality(found))

\* The pack to report after pack k.
NextPack(k) == (k % slots) + 1

\* build_pack_select_payload raises for any other pack.
Selectable(k) == k \in 1..MaxPacks

\* send_pack_select: a write that cannot be made is given up.
SelectSent(k) ==
    IF link /\ Selectable(k) THEN selects' = Append(selects, k) ELSE UNCHANGED selects

\* The cycle goes on, if there is anything to cycle through.
Advance(k) == IF slots > 1 THEN SelectSent(NextPack(k)) ELSE UNCHANGED selects

\* _process_fc16_data and _process_per_pack_data.
ReportArrives ==
    /\ reports # <<>> /\ Len(selects) < MaxOnWire
    /\ reports' = Tail(reports)
    /\ Discover(Head(reports))
    /\ Advance(Head(reports).pack)
    /\ UNCHANGED <<device, selected, link, applied, nodes, ready, entities, missed>>

\* _process_pack_main_info: the number of packs, in a polled answer or a V2 push.
MainInfoArrives(n) ==
    /\ kind # "pushing" /\ n \in 1..slots /\ n # count
    /\ CountChanges(n)
    /\ UNCHANGED <<device, wire, discovered, nodes, ready, entities, missed>>

------------------------------------------------------------------------------
(* Expansions.                                                               *)

\* Every node has binary sensors, one with a battery has sensors too.
Shown(p, a, rec) == p = "binary_sensor" \/ a \in Batteries \/ a \in rec

\* Mutated form of Created: what has been created before is not remembered.
EachTime(p, ns, rec) == {a \in ns : Shown(p, a, rec)}

\* The nodes of a list that a platform creates entities for.
Created(p, ns, rec) == {a \in ns : entities[p][a] = 0 /\ Shown(p, a, rec)}

CreatedBy(ps, ns, rec) ==
    [p \in Platforms |->
        [a \in Addresses |-> IF p \in ps /\ a \in Created(p, ns, rec)
                             THEN entities[p][a] + 1 ELSE entities[p][a]]]

\* _process_node_info: the list replaces the previous one, with all the pack reads had
\* added to it; if it has an address never seen, the callbacks get all of it.
NodeListArrives(ns) ==
    /\ kind = "v2" /\ ns # {}
    /\ listed' = ns /\ recorded' = {} /\ seen' = seen \cup ns
    /\ entities' = IF ns \subseteq seen THEN entities ELSE CreatedBy(ready, ns, {})
    /\ UNCHANGED <<device, wire, packs, packSensors, ready, missed>>

Recorded(a) == recorded \cup ({a} \cap listed)

\* _process_pack_item_v2: a pack record goes into the node it came from.
PackRecordArrives(a) ==
    /\ kind = "v2"
    /\ recorded' = Recorded(a)
    /\ UNCHANGED <<device, wire, packs, packSensors, listed, seen, ready, entities, missed>>

\* A platform's async_setup_entry: entities for what is known, then its callbacks.
SetUp(p) ==
    /\ p \notin ready
    /\ ready' = ready \cup {p}
    /\ packSensors' = IF p = "sensor" THEN 1..count ELSE packSensors
    /\ entities' = CreatedBy({p}, listed, recorded)
    /\ missed' = [missed EXCEPT ![p] = seen \ listed]
    /\ UNCHANGED <<device, wire, packs, nodes>>

------------------------------------------------------------------------------
(* The device and the connection.                                            *)

\* An empty slot, or a pack that shows no data at the moment, is reported all the same.
DeviceReports(live) ==
    /\ kind = "pushing" /\ link /\ Len(reports) < MaxOnWire
    /\ reports' = Append(reports, [pack |-> selected, live |-> live])
    /\ UNCHANGED <<device, selected, link, selects, applied,
                   packs, packSensors, nodes, ready, entities, missed>>

DeviceSelects ==
    /\ applied < Len(selects)
    /\ applied' = applied + 1 /\ selected' = selects[applied + 1]
    /\ UNCHANGED <<device, link, reports, selects,
                   packs, packSensors, nodes, ready, entities, missed>>

Acknowledged ==
    /\ link /\ applied > 0
    /\ applied' = applied - 1 /\ selects' = Tail(selects)
    /\ UNCHANGED <<device, selected, link, reports,
                   packs, packSensors, nodes, ready, entities, missed>>

\* The newest reports are lost with the link.
LinkDrops ==
    /\ kind = "pushing" /\ link /\ link' = FALSE
    /\ \E n \in 0..Len(reports) : reports' = SubSeq(reports, 1, n)
    /\ UNCHANGED <<device, selected, selects, applied,
                   packs, packSensors, nodes, ready, entities, missed>>

\* paho sends again, in order, what was not acknowledged, applied or not; a new client
\* object knows of none of it.
LinkReturns ==
    /\ ~link /\ link' = TRUE
    /\ applied' = 0
    /\ selects' \in {selects, <<>>}
    /\ UNCHANGED <<device, selected, reports,
                   packs, packSensors, nodes, ready, entities, missed>>

------------------------------------------------------------------------------
Init ==
    /\ kind \in Kinds /\ slots \in SlotCounts[kind]
    /\ selected \in (IF kind = "pushing" THEN 1..slots ELSE {1})
    /\ link = TRUE /\ reports = <<>> /\ selects = <<>> /\ applied = 0
    /\ discovered = {} /\ count = 0 /\ packSensors = {}
    /\ listed = {} /\ recorded = {} /\ seen = {}
    /\ ready = {} /\ entities = [p \in Platforms |-> [a \in Addresses |-> 0]]
    /\ missed = [p \in Platforms |-> {}]

SomeNodeListArrives == \E ns \in SUBSET Addresses : NodeListArrives(ns)

Next ==
    \/ ReportArrives \/ DeviceSelects \/ Acknowledged
    \/ LinkDrops \/ LinkReturns
    \/ \E live \in BOOLEAN : DeviceReports(live)
    \/ \E n \in 1..slots : MainInfoArrives(n)
    \/ SomeNodeListArrives
    \/ \E a \in WithPack : PackRecordArrives(a)
    \/ \E p \in Platforms : SetUp(p)

Spec == Init /\ [][Next]_vars

\* The event loop handles what arrives and sets the platforms up; the broker delivers
\* writes over a link that holds; a device keeps reporting; nodes and packs are polled
\* for ever, as Polling shows.
FairSpec ==
    /\ Spec
    /\ WF_vars(ReportArrives) /\ WF_vars(\E live \in BOOLEAN : DeviceReports(live))
    /\ WF_vars(DeviceSelects) /\ WF_vars(Acknowledged)
    /\ WF_vars(SomeNodeListArrives)
    /\ \A a \in WithPack : WF_vars(PackRecordArrives(a))
    /\ \A p \in Platforms : WF_vars(SetUp(p))

------------------------------------------------------------------------------
(* Properties.                                                               *)

\* Type correctness; the count stored for a device never exceeds its slots.
TypeOK ==
    /\ kind \in Kinds /\ slots \in SlotCounts[kind]
    /\ selected \in 1..slots /\ link \in BOOLEAN
    /\ reports \in Seq(Reports) /\ selects \in Seq(1..slots) /\ applied \in 0..Len(selects)
    /\ discovered \subseteq 1..slots /\ count \in 0..slots /\ packSensors \subseteq 1..slots
    /\ recorded \subseteq listed /\ listed \subseteq seen /\ seen \subseteq Addresses
    /\ ready \subseteq Platforms
    /\ entities \in [Platforms -> [Addresses -> Nat]]
    /\ missed \in [Platforms -> SUBSET Addresses]

\* Whether packs are found before or after the sensor platform is set up, singly or
\* several at once, each of the packs counted has its sensors.
CountedPacksHaveSensors == "sensor" \in ready => 1..count \subseteq packSensors

\* On a connection that holds in the end, every slot of a device is reported again and
\* again, whatever was lost, repeated or reported twice while a select was under way.
\* A device with more slots than MAX_PACKS is stuck at the last the guard lets through.
EverySlotReported ==
    <>[]link => \A k \in 1..MaxPacks :
                    []<>(kind = "pushing" /\ k <= slots /\ slots \in 2..MaxPacks
                            => selected = k)

\* A node has its entities on each platform once and no more, from the moment it is
\* known to a platform that is set up, and however often it leaves the list and comes
\* back.  (One that was in an earlier list and not in the last before the set-up is
\* missed until some new node appears.)
OneSetOfEntities ==
    \A p \in Platforms : \A a \in Addresses :
        /\ entities[p][a] <= 1
        /\ p \in ready /\ a \in seen \ missed[p] /\ (p = "sensor" => a \in Batteries)
              => entities[p][a] = 1

\* Each node list takes the readings of all packs away; as long as a node is listed,
\* its readings come back.
ReadingsReturn ==
    \A a \in WithPack : <>[](a \in listed) => []<>(a \in recorded)

\* The inductive invariant.
PackControl ==
    /\ kind = "pushing" => count = Cardinality(discovered)
    /\ \A i \in 1..Len(reports) : reports[i].pack \in 1..slots
    /\ kind # "pushing" => reports = <<>>
NodeControl ==
    \A p \in Platforms : \A a \in Addresses :
        entities[p][a] > 0 => p \in ready /\ a \in seen
IInv == TypeOK /\ PackControl /\ NodeControl /\ CountedPacksHaveSensors /\ OneSetOfEntities

(* Statements of the repository that the code does not meet.                 *)

\* README.md: "Internal Battery      the main unit's own pack", one of the devices that
\* come with a V2 device whose main unit answers for its pack.
InternalBatteryShown ==
    []<>(Main \in recorded) => <>(entities["sensor"][Main] > 0)

==============================================================================
