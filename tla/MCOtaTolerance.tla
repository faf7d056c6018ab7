--------------------------- MODULE MCOtaTolerance ---------------------------
(* An instance of OtaTolerance for TLC: two blocks of two and one frame.   *)
EXTENDS OtaTolerance

OneCapability == {[protocolVersion |-> 1, blockSize |-> 2, maxFwSize |-> 0]}
=============================================================================
