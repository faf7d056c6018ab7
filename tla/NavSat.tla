-------------------------------- MODULE NavSat --------------------------------
(***************************************************************************)
(* navsat_transform_node of robot_localization: it ties the filter's world *)
(* frame to the earth, once, from a GPS fix, a pose and a heading, or from *)
(* a datum it is given, and from then on publishes each fix as a pose and  *)
(* each pose as a fix.  The node spins one executor thread: callbacks do   *)
(* not interrupt each other.                                               *)
(*                                                                         *)
(* A position, on the earth or in the world frame, is the time at which    *)
(* the robot was there; 0 stands for what no sensor measured.              *)
(***************************************************************************)
EXTENDS Integers

CONSTANTS
  Settings,        \* the parameter sets the node may be started with
  MaxTime,         \* bound: the clock stops here
  MaxDatums,       \* bound: calls of the datum service
  MaxDeclinations  \* bound: changes of magnetic_declination_radians

VARIABLES
  clock,               \* the robot moves on with it
  parameters,
  use_manual_datum,
  datum,               \* manual_datum_geopose_: 0 the parameter's, n the nth call's
  transform_good,
  transform,           \* what cartesian_world_transform_ was made of
  inputs,             \* transform_cartesian_pose_, transform_world_pose_ and
                       \* transform_orientation_, each with whether it is there
  fix, gps_updated,    \* latest_cartesian_pose_ and its time
  pose, odom_updated,  \* latest_world_pose_ and its time
  heard,               \* the last IMU message
  odometry_gps,        \* the last pose published: of which fix, and placed where
  gps_filtered,        \* the last fix published: of which pose
  together,            \* history: fixes and poses that were the latest at once
  declinations, datums \* bounds, and history: what was changed so far

vars == <<clock, parameters, use_manual_datum, datum, transform_good, transform,
          inputs, fix, gps_updated, pose, odom_updated, heard, odometry_gps,
          gps_filtered, together, declinations, datums>>

Nothing == [made |-> FALSE, at |-> 0]
Source(at) == [made |-> TRUE, at |-> at]

(* The constructor.  With wait_for_datum it sets the datum that the parameter
   gives, or one of zeros where it gives none. *)
Init ==
  /\ clock = 1 /\ parameters \in Settings
  /\ use_manual_datum = parameters.wait /\ datum = 0
  /\ transform_good = FALSE
  /\ transform = [datum |-> -1, fix |-> 0, pose |-> 0, heading |-> 0,
                  lever |-> FALSE]
  /\ inputs = [gps |-> Nothing, odom |-> Nothing, imu |-> Nothing]
  /\ fix = 0 /\ gps_updated = FALSE /\ pose = 0 /\ odom_updated = FALSE
  /\ heard = 0 /\ together = {}
  /\ odometry_gps = [at |-> 0, place |-> "none"] /\ gps_filtered = 0
  /\ declinations = 0 /\ datums = 0

-----------------------------------------------------------------------------
(* The subscribers.                                                        *)

(* setTransformGps, setTransformOdometry; the pose also gives the heading,
   if it is to and its frames are known. *)
SetTransformGps(s, at) == [s EXCEPT !.gps = Source(at)]

(* imuCallback: not once the transform is good, unless a datum makes the
   message count for nothing; and not before a pose named the frames. *)
ImuCallback(s, at, known) ==
  IF \/ transform_good /\ ~parameters.yaw /\ ~use_manual_datum
     \/ ~s.odom.made
  THEN s
  ELSE [s EXCEPT !.imu = [made |-> @.made \/ known, at |-> at]]

SetTransformOdometry(s, at, known) ==
  LET placed == [s EXCEPT !.odom = Source(at)]
  IN  IF ~transform_good /\ parameters.yaw /\ ~use_manual_datum
      THEN ImuCallback(placed, at, known) ELSE placed

(* Not the code: only the first fix is taken to place the world by. *)
GpsFixKeepingFirst(at) ==
  /\ at > fix /\ fix' = at /\ gps_updated' = TRUE
  /\ inputs' = IF ~transform_good /\ ~use_manual_datum /\ ~inputs.gps.made
                THEN SetTransformGps(inputs, at) ELSE inputs
  /\ together' = together \cup {<<at, pose>>}
  /\ UNCHANGED <<clock, parameters, use_manual_datum, datum, transform_good,
                 transform, pose, odom_updated, heard, odometry_gps,
                 gps_filtered, declinations, datums>>

(* A usable fix; of the others only the frame is noted. *)
GpsFix(at) ==
  /\ at > fix /\ fix' = at /\ gps_updated' = TRUE
  /\ inputs' = IF ~transform_good /\ ~use_manual_datum
                THEN SetTransformGps(inputs, at) ELSE inputs
  /\ together' = together \cup {<<at, pose>>}
  /\ UNCHANGED <<clock, parameters, use_manual_datum, datum, transform_good,
                 transform, pose, odom_updated, heard, odometry_gps,
                 gps_filtered, declinations, datums>>

Odom(at, known) ==
  /\ at > pose /\ pose' = at /\ odom_updated' = TRUE
  /\ inputs' = IF ~transform_good
                THEN SetTransformOdometry(inputs, at, known) ELSE inputs
  /\ together' = together \cup {<<fix, at>>}
  /\ UNCHANGED <<clock, parameters, use_manual_datum, datum, transform_good,
                 transform, fix, gps_updated, heard, odometry_gps,
                 gps_filtered, declinations, datums>>

(* Only subscribed to where the heading comes from nowhere else. *)
Imu(at, known) ==
  /\ ~parameters.yaw /\ ~parameters.wait
  /\ at > heard /\ heard' = at
  /\ inputs' = ImuCallback(inputs, at, known)
  /\ UNCHANGED <<clock, parameters, use_manual_datum, datum, transform_good,
                 transform, fix, gps_updated, pose, odom_updated, odometry_gps,
                 gps_filtered, together, declinations, datums>>

-----------------------------------------------------------------------------
(* Services and parameters.                                                *)

(* datumCallback *)
Datum ==
  /\ datums < MaxDatums /\ datums' = datums + 1
  /\ datum' = datums + 1 /\ use_manual_datum' = TRUE /\ transform_good' = FALSE
  /\ UNCHANGED <<clock, parameters, transform, inputs, fix, gps_updated, pose,
                 odom_updated, heard, odometry_gps, gps_filtered, together,
                 declinations>>

(* parametersCallback: the transform is to be made again, from what is there. *)
SetDeclination ==
  /\ declinations < MaxDeclinations /\ declinations' = declinations + 1
  /\ transform_good' = FALSE
  /\ UNCHANGED <<clock, parameters, use_manual_datum, datum, transform, inputs,
                 fix, gps_updated, pose, odom_updated, heard, odometry_gps,
                 gps_filtered, together, datums>>

-----------------------------------------------------------------------------
(* transformCallback                                                       *)

(* Not the code: the pose at hand is the one the datum is placed by. *)
SetManualDatumInPart(s) ==
  IF s.odom.made /\ use_manual_datum /\ ~s.gps.made
  THEN [s EXCEPT !.gps = Source(0), !.imu = Source(0)] ELSE s

(* setManualDatum: the datum is where the world frame's origin is, and gives
   its heading.  Its frame is the robot's own, which is always known. *)
SetManualDatum(s) ==
  IF s.odom.made /\ use_manual_datum
  THEN [gps |-> Source(0), odom |-> Source(0), imu |-> Source(0)] ELSE s

(* getRobotOriginCartesianPose takes the lever arm of the antenna off where
   its frame is known. *)
LeverTakenOff(known) == known /\ ~use_manual_datum

(* computeTransform *)
ComputeTransform(known) ==
  LET s == SetManualDatum(inputs) IN
  /\ inputs' = s
  /\ IF s.odom.made /\ s.gps.made /\ s.imu.made
     THEN /\ transform_good' = TRUE
          /\ transform' = [datum |-> IF use_manual_datum THEN datum ELSE -1,
                           fix |-> s.gps.at, pose |-> s.odom.at,
                           heading |-> s.imu.at,
                           lever |-> LeverTakenOff(known)]
     ELSE UNCHANGED <<transform_good, transform>>
  /\ UNCHANGED <<gps_updated, odom_updated, odometry_gps, gps_filtered>>

(* getRobotOriginWorldPose: where a frame is not known, the pose is the
   world's origin. *)
RobotOrigin(known) == IF known THEN "robot" ELSE "origin"

(* prepareGpsOdometry *)
PrepareGpsOdometry(known) ==
  IF gps_updated /\ odom_updated
  THEN /\ odometry_gps' = [at |-> fix, place |-> RobotOrigin(known)]
       /\ gps_updated' = FALSE
  ELSE UNCHANGED <<odometry_gps, gps_updated>>

(* prepareFilteredGps and mapToLL. *)
PrepareFilteredGps ==
  IF parameters.publish_gps /\ odom_updated
  THEN gps_filtered' = pose /\ odom_updated' = FALSE
  ELSE UNCHANGED <<gps_filtered, odom_updated>>

TransformCallback(known) ==
  /\ IF transform_good
     THEN /\ PrepareGpsOdometry(known) /\ PrepareFilteredGps
          /\ UNCHANGED <<transform_good, transform, inputs>>
     ELSE ComputeTransform(known)
  /\ UNCHANGED <<clock, parameters, use_manual_datum, datum, fix, pose, heard,
                 together, declinations, datums>>

Move ==
  /\ clock < MaxTime /\ clock' = clock + 1
  /\ UNCHANGED <<parameters, use_manual_datum, datum, transform_good, transform,
                 inputs, fix, gps_updated, pose, odom_updated, heard,
                 odometry_gps, gps_filtered, together, declinations, datums>>

Next ==
  \/ \E at \in 1 .. clock : GpsFix(at)
  \/ \E at \in 1 .. clock, known \in BOOLEAN : Odom(at, known) \/ Imu(at, known)
  \/ Datum \/ SetDeclination \/ Move
  \/ \E known \in BOOLEAN : TransformCallback(known)

Spec == Init /\ [][Next]_vars

-----------------------------------------------------------------------------
(* Properties.                                                             *)

(* Type invariant. *)
TypeOK ==
  /\ clock \in 1 .. MaxTime /\ parameters \in Settings
  /\ datums \in 0 .. MaxDatums /\ declinations \in 0 .. MaxDeclinations
  /\ datum \in 0 .. MaxDatums /\ use_manual_datum \in BOOLEAN
  /\ transform_good \in BOOLEAN
  /\ gps_updated \in BOOLEAN /\ odom_updated \in BOOLEAN
  /\ fix \in 0 .. MaxTime /\ pose \in 0 .. MaxTime /\ heard \in 0 .. MaxTime
  /\ transform \in [datum : Int, fix : Nat, pose : Nat, heading : Nat,
                    lever : BOOLEAN]
  /\ inputs \in [{"gps", "odom", "imu"} -> [made : BOOLEAN, at : Nat]]
  /\ odometry_gps \in [at : 0 .. MaxTime, place : {"none", "robot", "origin"}]
  /\ gps_filtered \in 0 .. MaxTime
  /\ together \subseteq (0 .. MaxTime) \X (0 .. MaxTime)

(* "The transform order will be orig_odom_pos * orig_cartesian_pos_inverse"
   (computeTransform): the two are of one moment, a fix and a pose that were the
   latest at once, however many of each came before the transform was made.
   After a change of the declination they need not be: the fixes in between
   were not noted, and the timer may run before the next one. *)
Paired ==
  transform_good /\ ~use_manual_datum /\ declinations = 0 =>
    <<transform.fix, transform.pose>> \in together

(* "We want to assume that we are using a datum from now on" (datumCallback):
   nothing a sensor measured before or after counts, and it is the last datum
   that was set. *)
DatumStands ==
  transform_good /\ use_manual_datum =>
    transform = [datum |-> datum, fix |-> 0, pose |-> 0, heading |-> 0,
                 lever |-> FALSE]

(* A pose on odometry/gps is of a fix newer than the last one's: however the
   transform is made again, no fix is fused twice. *)
NeverTwice == odometry_gps' # odometry_gps => odometry_gps'.at > odometry_gps.at
=============================================================================
