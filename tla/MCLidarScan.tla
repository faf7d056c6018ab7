------------------------------ MODULE MCLidarScan ------------------------------
(***************************************************************************)
(* An instance for TLC of the two halves of the measurement path: from the *)
(* bytes of the device to a grabbed scan (LidarScan), and from a grabbed   *)
(* scan to the message (LidarPublish).  A scan is copied in between, so a  *)
(* behaviour shows one of them.                                            *)
(***************************************************************************)
EXTENDS LidarScan

CONSTANTS Degrees, AngleFine, Multiple, MaxSamples

VARIABLES half, inverted, flip, compensate, nodes, stage, message

publishVars == <<inverted, flip, compensate, nodes, stage, message>>

Publishing == INSTANCE LidarPublish WITH Fine <- AngleFine

\* The half that is not shown rests in one state.
MCInit ==
  \/ /\ half = "scan" /\ Init
     /\ inverted = FALSE /\ flip = FALSE /\ compensate = FALSE
     /\ nodes = <<>> /\ stage = "none" /\ message = <<>>
  \/ /\ half = "publish" /\ Publishing!Init
     /\ mode = "none" /\ frame = <<>> /\ hand = <<>> /\ buf = <<>> /\ avail = -1
     /\ event = FALSE /\ grab = "idle" /\ got = <<>> /\ broken = {}
     /\ astray = {}

MCNext ==
  \/ half = "scan" /\ Next /\ UNCHANGED <<half, publishVars>>
  \/ half = "publish" /\ Publishing!Next /\ UNCHANGED <<half, vars>>

MCSpec == MCInit /\ [][MCNext]_<<half, vars, publishVars>>

(* The properties of LidarPublish, under one name.                         *)

\* publish_scan shows every echo, each where it was measured.
ShownInPlace == half = "publish" => Publishing!InPlace /\ Publishing!AllShown

\* A grabbed scan is a whole turn (ScanDataHolder) but where LidarScan says, its
\* samples in the order they were measured in and of this session.
ScanIsTurn == half = "scan" => WholeTurn /\ InOrder

\* "All data nodes are belong to exactly ONE complete 360-degrees's scan"
\* (sl_lidar_driver.h:422).
AlwaysOneTurn == half = "scan" => OneCompleteTurn
=============================================================================
