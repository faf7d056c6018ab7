---------------------------- MODULE FilterConfig ----------------------------
(***************************************************************************)
(* RosFilter::loadParams of robot_localization: from the parameters of the *)
(* node to its subscriptions, each with the state variables it updates, to *)
(* the control term, and to the static diagnostics.                        *)
(*                                                                         *)
(* An update vector is the set of variables it is true for; a list of      *)
(* numbers is its length, and a parameter that is not set has length 0.    *)
(***************************************************************************)
EXTENDS Integers, Sequences, SequencesExt

(* The state vector (filter_common.hpp). *)
Position == {"X", "Y", "Z"}
Orientation == {"Roll", "Pitch", "Yaw"}
LinearVelocity == {"Vx", "Vy", "Vz"}
AngularVelocity == {"Vroll", "Vpitch", "Vyaw"}
Acceleration == {"Ax", "Ay", "Az"}
Pose == Position \cup Orientation
Twist == LinearVelocity \cup AngularVelocity
StateVars == Pose \cup Twist \cup Acceleration

Rate == [v \in Pose |->
  CASE v = "X" -> "Vx" [] v = "Y" -> "Vy" [] v = "Z" -> "Vz"
    [] v = "Roll" -> "Vroll" [] v = "Pitch" -> "Vpitch" [] v = "Yaw" -> "Vyaw"]

TwistSize == 6

(* What has been read: who is subscribed to what, how many sources measure
   each pose variable absolutely and each velocity, which velocities are
   commanded, and the static diagnostics. *)
Nothing == [callbacks |-> {}, abs |-> [v \in Pose |-> 0],
            rate |-> [v \in Twist |-> 0], diagnostics |-> {}]

Callback(s, part, update) ==
  [source |-> s.name, kind |-> s.kind, part |-> part, update |-> update,
   differential |-> s.differential, gravity |-> s.gravity]

Subscribe(L, s, parts) ==
  [L EXCEPT !.callbacks =
     @ \cup {Callback(s, p[1], p[2]) : p \in {q \in parts : q[2] # {}}}]

(* A source that is differential measures velocities with its poses. *)
CountPose(L, s, update) ==
  IF s.differential
  THEN [L EXCEPT !.rate = [w \in Twist |->
          L.rate[w] + (IF \E v \in update \cap Pose : Rate[v] = w
                       THEN 1 ELSE 0)]]
  ELSE [L EXCEPT !.abs = [v \in Pose |->
          L.abs[v] + (IF v \in update THEN 1 ELSE 0)]]

CountTwist(L, update) ==
  [L EXCEPT !.rate = [w \in Twist |->
     L.rate[w] + (IF w \in update THEN 1 ELSE 0)]]

(* The odometry loop looks at Vx to count Vy. *)
CountOdomTwist(L, update) ==
  LET looked(w) == IF w = "Vy" THEN "Vx" ELSE w
  IN  [L EXCEPT !.rate = [w \in Twist |->
         L.rate[w] + (IF looked(w) \in update THEN 1 ELSE 0)]]

(* odomN: the pose part keeps every entry but the velocities, the twist part
   every one but the poses, accelerations with both. *)
LoadOdom(L, s) ==
  LET pose == s.config \ Twist
      twist == s.config \ Pose
      posed == CountPose(L, s, pose)
  IN  IF pose \cup twist = {}
      THEN [L EXCEPT !.diagnostics = @ \cup {<<s.name, "WARN">>}]
      ELSE Subscribe(CountOdomTwist(posed, twist), s,
                     {<<"pose", pose>>, <<"twist", twist>>})

LoadPose(L, s) ==
  LET pose == s.config \cap Pose
  IN  IF pose = {} THEN L
      ELSE Subscribe(CountPose(L, s, pose), s, {<<"pose", pose>>})

LoadTwist(L, s) ==
  LET twist == s.config \ Pose
  IN  IF twist = {} THEN L
      ELSE Subscribe(CountTwist(L, twist), s, {<<"twist", twist>>})

(* An IMU says nothing of positions and linear velocities: asking for them
   draws a warning, and they are left out. *)
ImuUpdate(s) == s.config \ (Position \cup LinearVelocity)

LoadImu(L, s) ==
  LET pose == ImuUpdate(s) \cap Pose
      twist == ImuUpdate(s) \cap Twist
      accel == ImuUpdate(s) \cap Acceleration
  IN  Subscribe(CountTwist(CountPose(L, s, pose), twist), s,
                {<<"pose", pose>>, <<"twist", twist>>, <<"accel", accel>>})

LoadSource(L, s) ==
  CASE s.kind = "odom" -> LoadOdom(L, s) [] s.kind = "pose" -> LoadPose(L, s)
    [] s.kind = "twist" -> LoadTwist(L, s) [] s.kind = "imu" -> LoadImu(L, s)

(* One loop, over the sources of one kind; and the four, in their order. *)
LoadKind(L, kind, sources) ==
  LET loaded[k \in 0 .. Len(sources)] ==
        IF k = 0 THEN L
        ELSE IF sources[k].kind = kind THEN LoadSource(loaded[k - 1], sources[k])
        ELSE loaded[k - 1]
  IN  loaded[Len(sources)]
LoadSources(sources) ==
  LET odom == LoadKind(Nothing, "odom", sources)
      pose == LoadKind(odom, "pose", sources)
      twist == LoadKind(pose, "twist", sources)
  IN  LoadKind(twist, "imu", sources)

(* The control parameters: their lists must have six entries; gains that are
   not given stay empty. *)
LoadControl(c) ==
  LET limits == IF c.limits = 0 THEN TwistSize ELSE c.limits
      gains == IF c.gains = 0 THEN 0 ELSE TwistSize
      slowGains == IF c.slowGains = 0 THEN gains ELSE TwistSize
  IN  IF c.use
      THEN [use |-> c.size = TwistSize /\ limits = TwistSize
                    /\ c.slowing \in {0, TwistSize},
            update |-> c.config, gains |-> gains, slowGains |-> slowGains]
      ELSE [use |-> FALSE, update |-> {}, gains |-> TwistSize,
            slowGains |-> TwistSize]

(* A measured acceleration takes the place of the commanded velocity. *)
Commanded(update, sources) ==
  LET measured == UNION {s.config : s \in {s \in ToSet(sources) :
                                             s.kind = "imu"}}
      gone == {v \in LinearVelocity :
                 \/ v = "Vx" /\ "Ax" \in measured
                 \/ v = "Vy" /\ "Ay" \in measured
                 \/ v = "Vz" /\ "Az" \in measured}
  IN  update \ gone

(* Control with no velocity left to command is none. *)
FinishControl(c, sources) ==
  LET C == LoadControl(c)
      update == Commanded(C.update, sources)
  IN  [C EXCEPT !.use = @ /\ update # {}, !.update = update]

Spatial == {"Z", "Roll", "Pitch", "Vz", "Vroll", "Vpitch", "Az"}

\* Not the code: a variable measured by its velocity alone is reported.
DiagnoseAbsolute(L, twoD) ==
  L.diagnostics
    \cup {<<v, "ERROR">> : v \in {v \in Pose : L.abs[v] = 0
            /\ ~(twoD /\ v \in Spatial)}}

(* Levels of diagnostic_msgs/DiagnosticStatus. *)
Severity == [OK |-> 0, WARN |-> 1, ERROR |-> 2]

(* aggregateDiagnostics: the worst there is, of the static ones for as long as
   the node runs, of the dynamic ones since the last report. *)
Summary(static, dynamic) ==
  LET levels == {d[2] : d \in static \cup dynamic} \cup {"OK"}
  IN  CHOOSE l \in levels : \A k \in levels : Severity[k] <= Severity[l]

(* The warnings about what several sources measure, and none. *)
Diagnose(L, twoD) ==
  L.diagnostics
    \cup {<<v, "WARN">> : v \in {v \in Pose : L.abs[v] > 1}}
    \cup {<<v, "ERROR">> : v \in {v \in Pose : L.abs[v] = 0
            /\ L.rate[Rate[v]] = 0 /\ ~(twoD /\ v \in Spatial)}}
=============================================================================
