------------------------------ MODULE MCDiscovery ------------------------------
(* Instances of Discovery for TLC: an AC300 with one slot or with as many    *)
(* as the guard allows, a polled V1 device with up to three packs, and an    *)
(* APEX 300 with its internal battery, an expansion battery and a hub.       *)
EXTENDS Discovery

MCSlotCounts == [k \in Kinds |-> CASE k = "pushing" -> {1, 3}
                                   [] k = "polled" -> {3}
                                   [] k = "v2" -> {1}]
MCAddresses == {0, 11, 51}
MCBatteries == {51}
MCWithPack == {0, 51}

==============================================================================
