--------------------------- MODULE MCMqttLifecycle ---------------------------
(* Instances of MqttLifecycle for TLC: two devices, of which the first device  *)
(* list may hold any subset.                                                   *)
EXTENDS MqttLifecycle, TLC

CONSTANTS ac300, apex300

MCDevices == {ac300, apex300}
MCSymmetry == Permutations(MCDevices)

==============================================================================
