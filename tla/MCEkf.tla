------------------------------- MODULE MCEkf -------------------------------
(***************************************************************************)
(* Two nodes of robot_localization; they share nothing, so a behaviour     *)
(* shows one of them.                                                      *)
(*                                                                         *)
(* Ekf, with the robot's parameter file and three others: a drone's, with  *)
(* an IMU mounted askew; a planar one whose poses are differenced; a       *)
(* planar one under control, its gains forgotten.                          *)
(*                                                                         *)
(* NavSat, with the shipped parameter file, one that takes its heading     *)
(* from the poses, and one that waits for a datum.                         *)
(***************************************************************************)
EXTENDS Ekf

CONSTANTS MaxTime, MaxDatums, MaxDeclinations

ASSUME NavSatAssumption ==
  MaxTime \in Nat \ {0} /\ MaxDatums \in Nat /\ MaxDeclinations \in Nat

VARIABLES
  node,
  clock, parameters, use_manual_datum, datum, transform_good, transform,
  inputs, fix, gps_updated, pose, odom_updated, heard, odometry_gps,
  gps_filtered, together, declinations, datums

navVars == <<clock, parameters, use_manual_datum, datum, transform_good,
             transform, inputs, fix, gps_updated, pose, odom_updated, heard,
             odometry_gps, gps_filtered, together, declinations, datums>>

Source(kind, name, vs, differential, gravity) ==
  [kind |-> kind, name |-> name, config |-> vs,
   differential |-> differential, gravity |-> gravity]

Uncontrolled == [use |-> FALSE, size |-> 6, config |-> {}, limits |-> 0,
                 gains |-> 0, slowing |-> 0, slowGains |-> 0]
Controlled(gains) ==
  [use |-> TRUE, size |-> 6, config |-> {"Vx", "Vyaw"}, limits |-> 6,
   gains |-> gains, slowing |-> 0, slowGains |-> 0]

Config(twoD, dynamic, initial, control, sources) ==
  [twoD |-> twoD, dynamic |-> dynamic, initial |-> initial, print |-> TRUE,
   noise |-> [v \in StateVars |-> {v}], control |-> control,
   sources |-> sources]

Zero == [size |-> 0, nonzero |-> {}]
Above == [size |-> 15, nonzero |-> {"X", "Z", "Vz"}]

(* ekf_imu_odom.yaml; it does not print. *)
Robot == [Config(TRUE, FALSE, Zero, Uncontrolled,
  <<Source("imu", "imu0", {"Vyaw"}, FALSE, TRUE),
    Source("odom", "odom0", {"X", "Y", "Yaw", "Vx", "Vy", "Vyaw"}, FALSE,
           FALSE)>>) EXCEPT !.print = FALSE]
Drone == Config(FALSE, TRUE, Zero, Uncontrolled,
  <<Source("pose", "pose0", Pose, FALSE, FALSE),
    Source("imu", "imu0", Orientation \cup Acceleration, FALSE, TRUE)>>)
Differenced == Config(TRUE, TRUE, Above, Uncontrolled,
  <<Source("odom", "odom0", {"X", "Z", "Yaw"}, TRUE, FALSE),
    Source("odom", "odom1", {"Vx"}, FALSE, FALSE)>>)
Commander(gains) == Config(TRUE, FALSE, Zero, Controlled(gains),
  <<Source("twist", "twist0", {"Vx", "Vyaw"}, FALSE, FALSE),
    Source("imu", "imu0", {"Roll", "Yaw", "Ax"}, FALSE, TRUE)>>)

MCConfigs == {Robot, Drone, Differenced, Commander(0), Commander(6)}
Tilted == [i \in Axes |-> Axes]
MCRotations == {Level, Tilted}

Waiting(wait, given, yaw, publish_gps) ==
  [wait |-> wait, given |-> given, yaw |-> yaw, publish_gps |-> publish_gps]
MCSettings ==
  {Waiting(FALSE, FALSE, FALSE, FALSE), Waiting(FALSE, FALSE, TRUE, TRUE),
   Waiting(TRUE, FALSE, FALSE, TRUE)}

Nav == INSTANCE NavSat WITH Settings <- MCSettings

(* The node that is not shown has one parameter file. *)
MCInit ==
  /\ Init /\ Nav!Init
  /\ \/ node = "ekf" /\ parameters = Waiting(FALSE, FALSE, FALSE, FALSE)
     \/ node = "navsat" /\ config = Loaded(Robot)

Filtering == node = "ekf" /\ Next /\ UNCHANGED <<node, navVars>>
Placing == node = "navsat" /\ Nav!Next /\ UNCHANGED <<node, vars>>

mcVars == <<node, vars, navVars>>
MCSpec == MCInit /\ [][Filtering \/ Placing]_mcVars

(* The properties of NavSat, under the names they have there.              *)

\* The world is tied to the earth by a fix and a pose of one moment or by the
\* last datum, which is so before any step, and no fix is published twice.
Georeferenced == [][Nav!Paired' /\ Nav!DatumStands' /\ Nav!NeverTwice]_navVars
=============================================================================
