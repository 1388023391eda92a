----------------------------- MODULE MCDeviceData -----------------------------
(* Instances of DeviceData for TLC.                                            *)
EXTENDS DeviceData

CONSTANTS apex300, ac300

MCTwo == <<apex300, ac300>>
MCMqtt == {apex300}
MCNull == {ac300}

==============================================================================
