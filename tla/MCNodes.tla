------------------------------- MODULE MCNodes -------------------------------
(***************************************************************************)
(* An instance for TLC of three of the robot's small ROS nodes, which      *)
(* share nothing, so a behaviour shows one of them.  Two compare readings  *)
(* of the ROS clock, which may be set under them: the dead-man timeout of  *)
(* Teleop and the limit on the rate of ImuNode.  The third is MapMerge.    *)
(***************************************************************************)
EXTENDS Teleop, MapCells

CONSTANTS
  SeqSpace, Laps, RequireCalibrated, Period, ImuJumps,
  Topics, Resolution, Regions, Robots, ClearRadius, PathDistance, MaxPoses,
  Messages, Offsets

VARIABLES
  node,
  maps, frame, place, poses, merged,
  socket, phase, sample, accel, gyro, out, since, imuJumps, beat, quiet

imuVars ==
  <<socket, phase, sample, accel, gyro, out, since, imuJumps, beat, quiet>>

Imu == INSTANCE ImuNode WITH MaxJumps <- ImuJumps, jumps <- imuJumps

ASSUME ImuAssumption ==
  /\ SeqSpace \in Nat \ {0} /\ Laps \in Nat \ {0}
  /\ Period \in Nat /\ MaxBack \in Nat /\ ImuJumps \in Nat

Merge == INSTANCE MapMerge
mergeVars == <<maps, frame, place, poses, merged>>

Length(n) == n \in Nat /\ n > 0 /\ n % 2 = 0

ASSUME MergeAssumption ==
  /\ Topics \in Seq(STRING)
  /\ Length(Resolution)
  /\ \A r \in Regions : r.x \in Int /\ r.radius \in Nat
  /\ ClearRadius \in Nat
  /\ PathDistance \in Nat
  /\ MaxPoses \in Nat \ {0}
  /\ \A m \in Messages : /\ m.origin \in Int
                         /\ Length(m.resolution)
                         /\ m.data \in Seq(Unknown .. Full)
  /\ Offsets \subseteq Int

MCTopics == <<"map 1", "map 2">>

\* One map in cells of the merged map's length, one in cells half as long.
MCMessages ==
  {[origin |-> 0, resolution |-> 4, data |-> <<0, 50, 100>>],
   [origin |-> 2, resolution |-> 2, data |-> <<100, Unknown, 10, 40>>]}

MCRegions == {[x |-> 6, radius |-> 2]}
MCOffsets == {0, 3, 14}

(* The poses the merge may start from are many, and only its own states need
   them all. *)
MCInit ==
  /\ node \in {"teleop", "imu", "merge"} /\ Init /\ Imu!Init /\ Merge!Init
  /\ node # "merge" => poses = [r \in Robots |-> <<>>]

Keyboard(A) == node = "teleop" /\ A /\ UNCHANGED <<node, imuVars, mergeVars>>
Sampling(A) == node = "imu" /\ A /\ UNCHANGED <<node, vars, mergeVars>>
Merging == node = "merge" /\ Merge!Next /\ UNCHANGED <<node, vars, imuVars>>

mcVars == <<node, vars, imuVars, mergeVars>>

MCSpec ==
  /\ MCInit /\ [][Keyboard(Next) \/ Sampling(Imu!Next) \/ Merging]_mcVars
  /\ WF_mcVars(Keyboard(Loop)) /\ WF_mcVars(Keyboard(Main)) /\ WF_mcVars(Keyboard(Tick))
  /\ WF_mcVars(Sampling(Imu!Tick))

(* The properties of ImuNode and MapMerge, under the names they have there. *)

\* A message of can_imu_node is of one sample.
OneSample == Imu!OneSample

\* A published cell has the largest value any robot has seen there.
LargestWins == Merge!LargestWins

\* A robot's trail is free in what is published, follows it and is bounded.
Trail == Merge!Trail

\* However the clock was set, both get over it: a robot nobody types at comes
\* to a stop, and publish_imu goes on publishing.
Recovers == MotionEnds /\ Imu!Resumes
=============================================================================
