------------------------------ MODULE MCControl -------------------------------
(* The instance of Control that TLC checks.                                  *)
EXTENDS Control

MCModels == AllModels
MCFollowed == {"ac_switch", "feed_in"}
MCNodes == {2}
MCPushed == {INV_BASE_SETTINGS}
MCPushSizes == {24, 60}
MCShort == {44, 180}
MCUserValues == {1}

\* Only the device whose every block is polled refuses.
MCMaxMarked == [m \in AllModels |-> IF m = "EB3A" THEN 1 ELSE 0]
==============================================================================
