------------------------------- MODULE MCSession -------------------------------
(* Instances of Session for TLC: one account, two dialogues about it.          *)
EXTENDS Session

CONSTANTS home, d1, d2, f1, f2

MCAccounts == {home}
MCDevices == {d1, d2}
MCFlows == {f1, f2}
==============================================================================
