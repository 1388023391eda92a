----------------------------- MODULE MCTransport -----------------------------
(* Instances of Transport for TLC.  Two addresses (the main unit 0 and one     *)
(* pack) and two blocks, one of which comes back with a size that identifies   *)
(* nothing (the 180-byte V1 pack record), so that frames can be mismatched.    *)
EXTENDS Transport

CONSTANTS Home, PackItem

MCSlaves == {0, 1}
MCRegisters == {Home, PackItem}
MCUnsized == {PackItem}
MCStreamed == {[slave |-> 0, register |-> Home]}

==============================================================================
