---------------------------- MODULE MCCertificates ----------------------------
(* Instances of Certificates for TLC: two accounts, three clients at a time.   *)
EXTENDS Certificates, TLC

CONSTANTS home, cabin, c1, c2, c3

MCEntries == {home, cabin}
MCClients == {c1, c2, c3}
MCSymmetry == Permutations(MCEntries) \cup Permutations(MCClients)

==============================================================================
