------------------------------- MODULE MCPolling -------------------------------
(* Instances of Polling for TLC: an APEX 300, which reports no node at first,*)
(* then itself and an expansion, and has no feed-in settings; and a V1 device*)
(* that is polled, with up to one pack.                                      *)
EXTENDS Polling

CONSTANTS apex300, eb3a

MCDevices == <<apex300, eb3a>>
MCV2 == {apex300}
MCPackLists == [sn \in {apex300, eb3a} |-> IF sn = apex300 THEN {<<>>, <<0, 51>>} ELSE {<<>>, <<1>>}]
MCLacks == [sn \in {apex300, eb3a} |->
               IF sn = apex300 THEN {[register |-> "INV_ADV_SETTINGS", slave |-> 0]} ELSE {}]

==============================================================================
