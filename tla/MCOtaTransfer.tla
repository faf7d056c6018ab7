--------------------------- MODULE MCOtaTransfer ----------------------------
(* Instances of OtaTransfer for TLC.                                       *)
EXTENDS OtaTransfer

Capability(version, blockSize, maxFwSize) ==
  [protocolVersion |-> version, blockSize |-> blockSize,
   maxFwSize |-> maxFwSize]

\* Two blocks, the first of two frames and the second of one.
OneCapability == {Capability(1, 2, 0)}

\* The same and one capability for each way it is refused.
MixedCapabilities ==
  {Capability(1, 2, 0), Capability(1, 3, 3), Capability(2, 2, 0),
   Capability(1, 0, 0), Capability(1, 5, 0), Capability(1, 2, 2),
   Capability(1, 1, 0)}

\* One process that is never restarted: what is left of FairSpec when
\* HostMayCrash is FALSE.  OtaTolerance's instance takes the other steps too.
OneProcess == Start \/ Cancel \/ Worker \/ Environment

OneProcessSpec == Init /\ [][OneProcess]_vars /\ Fairness
=============================================================================
