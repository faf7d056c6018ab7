---------------------------- MODULE MCOtaFirmware ----------------------------
(***************************************************************************)
(* An instance for TLC of the two ends of an image's way: from the         *)
(* download to the frames (OtaFirmware), and from a node to its bootloader *)
(* among others on the bus (OtaBus).  They share nothing here, so a        *)
(* behaviour shows one of them.                                            *)
(***************************************************************************)
EXTENDS OtaFirmware, OtaBus, TLC

VARIABLE side

firmwareVars == <<vars, cache, loaded>>

\* Of the bus, the other behaviours need one initial state.
Unused ==
  /\ extended = [h \in Hosts |-> FALSE]
  /\ {nodeId[h] : h \in Hosts} =
       CHOOSE ids \in SUBSET NodeIds : Cardinality(ids) = Cardinality(Hosts)

Swaps == Permutations(Hosts)

MCInit ==
  /\ FirmwareInit /\ BusInit
  /\ \/ side = "firmware" /\ Unused
     \/ side = "bus"

MCNext ==
  \/ side = "firmware" /\ FirmwareNext /\ UNCHANGED <<side, busVars>>
  \/ side = "bus" /\ BusNext /\ UNCHANGED <<side, firmwareVars>>

MCSpec == MCInit /\ [][MCNext]_<<side, firmwareVars, busVars>>

\* What is sent is one image that passed its check, and it goes, as the
\* replies come, between one node and its bootloader, nothing kept back.
SentIsGood == ImageIsGood /\ NoCrossTalk /\ Kept
=============================================================================
