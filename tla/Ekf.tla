-------------------------------- MODULE Ekf --------------------------------
(***************************************************************************)
(* What a measurement does to the numbers of robot_localization's EKF:     *)
(* from the message, through the frame it is given in, to the state and    *)
(* its covariance.                                                         *)
(*                                                                         *)
(* A number is abstracted to whether it may be nonzero and whether it is   *)
(* surely finite.  A vector is the set of variables where it may be        *)
(* nonzero; a matrix maps each row to the columns where it may be; a       *)
(* rotation maps each axis to the axes it mixes into it.  A covariance is  *)
(* proper if it is finite and positive definite, so that the gain's        *)
(* inverse exists; the parameter files hold numbers and proper ones.       *)
(***************************************************************************)
EXTENDS FilterConfig, FiniteSets

CONSTANTS
  Configs,     \* the parameter files the node may be started with
  Rotations,   \* from sensor frames to the robot's
  MaxQueue     \* bound: measurements waiting

Axes == 1 .. 3
Level == [i \in Axes |-> {i}]
Turned == [i \in Axes |-> IF i = 3 THEN {3} ELSE {1, 2}]

ASSUME EkfAssumption ==
  /\ Rotations \subseteq [Axes -> SUBSET Axes] /\ MaxQueue \in Nat
  /\ \A c \in Configs :
       /\ c.twoD \in BOOLEAN /\ c.dynamic \in BOOLEAN /\ c.print \in BOOLEAN
       /\ c.initial.size \in Nat /\ c.initial.nonzero \subseteq StateVars
       /\ c.noise \in [StateVars -> SUBSET StateVars]
       /\ c.sources \in Seq([kind : STRING, name : STRING,
                            config : SUBSET StateVars,
                            differential : BOOLEAN, gravity : BOOLEAN])

VARIABLES
  config,   \* the parameters and what loadParams made of them
  filter,   \* FilterBase: initialized, state (nonzero, finite), covariance
            \* (cov, proper)
  queue,    \* measurements prepared and not fused
  previous, \* differential sources: what is not finite in the last pose, and
            \* whether its covariance is proper
  command,  \* latest_control_: "none" yet, "number" or "nan"
  sound     \* history: the estimate was a proper one when it was last set,
            \* and since then no command that is not a number has driven it
            \* and no covariance that is not proper was fused

vars == <<config, filter, queue, previous, command, sound>>

Planar == StateVars \ Spatial
Diagonal == [v \in StateVars |-> {v}]
Loaded(c) ==
  LET L == LoadSources(c.sources) IN
  [twoD |-> c.twoD, noise |-> c.noise, dynamic |-> c.dynamic,
   callbacks |-> L.callbacks,
   control |-> FinishControl(c.control, c.sources), print |-> c.print,
   diagnostics |-> IF c.print THEN Diagnose(L, c.twoD) ELSE L.diagnostics]

(* An initial_state of another size is ignored. *)
Given(initial) ==
  IF initial.size = Cardinality(StateVars) THEN initial.nonzero ELSE {}

Init ==
  /\ \E c \in Configs :
       /\ config = Loaded(c)
       /\ filter = [initialized |-> FALSE, nonzero |-> Given(c.initial),
                    finite |-> TRUE, cov |-> Diagonal, proper |-> TRUE]
  /\ queue = {} /\ previous = <<>> /\ command = "none" /\ sound = TRUE

-----------------------------------------------------------------------------
(* From a message to a measurement.                                        *)

Triples == <<<<"X", "Y", "Z">>, <<"Roll", "Pitch", "Yaw">>,
             <<"Vx", "Vy", "Vz">>, <<"Vroll", "Vpitch", "Vyaw">>,
             <<"Ax", "Ay", "Az">>>>

(* What each variable is made of after a rotation. *)
Mix ==
  [r \in Rotations \cup {Level, Turned} |->
     [v \in StateVars |->
        LET at == CHOOSE p \in (1 .. 5) \X Axes : Triples[p[1]][p[2]] = v
        IN  {Triples[at[1]][j] : j \in r[at[2]]}]]

(* The mask through the rotation: variables that a fused one is mixed into. *)
Rotated(update, block, r) ==
  {v \in block : Mix[r][v] \cap update # {}} \cup (update \ block)

(* M P M' for matrices by rows, P symmetric. *)
Congruent(M, P) ==
  [a \in StateVars |->
     LET row == UNION {P[b] : b \in M[a]}
     IN  {d \in StateVars : row \cap M[d] # {}}]
Plus(P, Q) == [a \in StateVars |-> P[a] \cup Q[a]]

(* copyCovariance: any two variables of a message may be correlated. *)
Covariance(block) == [a \in StateVars |-> IF a \in block THEN block ELSE {}]

(* A covariance goes through the rotations its variables go through. *)
RotatedCovariance ==
  [block \in {Pose, Acceleration} |->
     [r \in DOMAIN Mix |-> Congruent(Mix[r], Covariance(block))]]

(* No check looks at a covariance, and a product with something that is not a
   number is not one, whatever it is multiplied with: one entry, of a variable
   that is fused or not, spreads over the block it is rotated in. *)
Doubt(block, proper) == IF proper THEN {} ELSE block

(* Not the code: the covariances between the two kinds are left. *)
ForceTwoDInPart(m) ==
  [m EXCEPT !.update = @ \cup Spatial, !.nonzero = @ \ Spatial,
            !.bad = @ \ Spatial, !.doubt = @ \ Spatial]

(* forceTwoD: every 3D variable measured as zero, with its own variance. *)
ForceTwoD(m) ==
  [m EXCEPT !.update = @ \cup Spatial, !.nonzero = @ \ Spatial,
            !.bad = @ \ Spatial, !.doubt = @ \ Spatial,
            !.cov = [a \in StateVars |-> IF a \in Spatial THEN {a}
                                         ELSE m.cov[a] \ Spatial]]

Prepared(m) == IF config.twoD THEN ForceTwoD(m) ELSE m

(* What is bad in its values, and what is in doubt in its covariance. *)
Measurement(update, block, bad, cov, doubt) ==
  [update |-> update, nonzero |-> block, bad |-> bad, cov |-> cov,
   doubt |-> doubt]

(* prepareTwist: a lever arm adds the state's own rotation. *)
PrepareTwist(update, bad, cov, proper, r) ==
  LET linear == IF bad \cap LinearVelocity # {} \/ ~filter.finite
                THEN LinearVelocity ELSE {}
      angular == IF bad \cap AngularVelocity # {} THEN AngularVelocity ELSE {}
  IN  Prepared(Measurement(Rotated(update, Twist, r), Twist,
                           linear \cup angular, cov, Doubt(Twist, proper)))

(* prepareAcceleration: gravity leaves by the message's attitude, or by the
   state's where the message has none. *)
PrepareAcceleration(cb, msg) ==
  LET lost == \/ msg.bad \cap Acceleration # {}
              \/ /\ cb.gravity
                 /\ IF msg.oriented THEN msg.bad \cap Orientation # {}
                    ELSE ~filter.finite
  IN  Prepared(Measurement(Rotated(cb.update, Acceleration, msg.rotation),
                           Acceleration, IF lost THEN Acceleration ELSE {},
                           RotatedCovariance[Acceleration][msg.rotation],
                           Doubt(Acceleration, msg.proper)))

(* preparePose: an IMU's mounting counts only by its yaw. *)
PoseRotation(cb, msg) ==
  IF cb.kind = "imu" /\ msg.rotation # Level THEN Turned ELSE msg.rotation

PosedBad(msg) ==
  (IF msg.bad \cap Position # {} THEN Position ELSE {}) \cup
  (IF msg.bad \cap Orientation # {} THEN Orientation ELSE {})

(* An IMU's mounting is taken off its angles and then forgotten: the place
   where it is mounted does not become a position. *)
PosedNonzero(cb) == IF cb.kind = "imu" THEN Orientation ELSE Pose

AbsolutePose(cb, msg) ==
  LET r == PoseRotation(cb, msg)
  IN  Prepared(Measurement(Rotated(cb.update, Pose, r), PosedNonzero(cb),
                           PosedBad(msg), RotatedCovariance[Pose][r],
                           Doubt(Pose, msg.proper)))

(* The difference of two poses over their times: two messages with one stamp
   divide by zero.  Their covariances are added. *)
DifferentialPose(cb, msg, before) ==
  LET r == PoseRotation(cb, msg)
      moved == (PosedBad(msg) \cap Position # {}) \/ before.bad # {}
      turned == (PosedBad(msg) \cup before.bad) \cap Orientation # {}
      bad == (IF moved \/ msg.same THEN LinearVelocity ELSE {}) \cup
             (IF turned \/ msg.same THEN AngularVelocity ELSE {})
  IN  PrepareTwist({Rate[v] : v \in Rotated(cb.update, Pose, r) \cap Pose},
                   bad, Covariance(IF msg.same THEN {} ELSE Twist),
                   msg.proper /\ before.proper, Level)

Known == DOMAIN previous

(* A message whose frame is known is prepared and queued; the first pose of a
   differential source only becomes its previous one. *)
Receive(cb, msg) ==
  /\ Cardinality(queue) < MaxQueue
  /\ msg.same => cb.source \in Known
  /\ \/ /\ cb.part = "pose" /\ cb.differential
        /\ previous' = [s \in Known \cup {cb.source} |->
             IF s = cb.source
             THEN [bad |-> PosedBad(msg), proper |-> msg.proper]
             ELSE previous[s]]
        /\ queue' = IF cb.source \notin Known THEN queue
             ELSE queue \cup {DifferentialPose(cb, msg, previous[cb.source])}
     \/ /\ cb.part = "pose" /\ ~cb.differential
        /\ queue' = queue \cup {AbsolutePose(cb, msg)}
        /\ UNCHANGED previous
     \/ /\ cb.part = "twist"
        /\ queue' = queue \cup {PrepareTwist(cb.update, msg.bad,
                                         Covariance(Twist), msg.proper,
                                         msg.rotation)}
        /\ UNCHANGED previous
     \/ /\ cb.part = "accel"
        /\ queue' = queue \cup {PrepareAcceleration(cb, msg)}
        /\ UNCHANGED previous
  /\ UNCHANGED <<config, filter, command, sound>>

-----------------------------------------------------------------------------
(* The filter.                                                             *)

May(condition, columns) == IF condition THEN columns ELSE {}
Has(f, v) == v \in f.nonzero
Some(f, vs) == f.nonzero \cap vs # {}

(* transfer_function_: x' = A x.  The sine of an angle that is zero is. *)
Transfer(f) ==
  LET roll == Has(f, "Roll")
      pitch == Has(f, "Pitch")
  IN [v \in StateVars |-> {v} \cup
  CASE v \in {"X", "Y"} -> {"Vx", "Vy", "Ax", "Ay"}
                             \cup May(roll \/ pitch, {"Vz", "Az"})
    [] v = "Z" -> {"Vz", "Az"} \cup May(pitch, {"Vx", "Ax"})
                    \cup May(roll, {"Vy", "Ay"})
    [] v = "Roll" -> {"Vroll"} \cup May(roll /\ pitch, {"Vpitch"})
                       \cup May(pitch, {"Vyaw"})
    [] v = "Pitch" -> {"Vpitch"} \cup May(roll, {"Vyaw"})
    [] v = "Yaw" -> {"Vyaw"} \cup May(roll, {"Vpitch"})
    [] v = "Vx" -> {"Ax"} [] v = "Vy" -> {"Ay"} [] v = "Vz" -> {"Az"}
    [] OTHER -> {}]

(* transfer_function_jacobian_: A, and how its angles vary. *)
Jacobian(f) ==
  LET roll == Has(f, "Roll")
      pitch == Has(f, "Pitch")
      x == Some(f, {"Vx", "Ax"})
      y == Some(f, {"Vy", "Ay"})
      z == Some(f, {"Vz", "Az"})
      vpitch == Has(f, "Vpitch")
      vyaw == Has(f, "Vyaw")
  IN [v \in StateVars |-> Transfer(f)[v] \cup
  CASE v \in {"X", "Y"} ->
         {"Yaw"} \cup May(((roll \/ pitch) /\ y) \/ z, {"Roll"})
                 \cup May((pitch /\ x) \/ (roll /\ y) \/ z, {"Pitch"})
    [] v = "Z" -> May(y \/ (roll /\ z), {"Roll"})
                    \cup May(x \/ (roll /\ pitch /\ y) \/ (pitch /\ z),
                             {"Pitch"})
    [] v = "Roll" -> May((roll /\ vpitch) \/ vyaw, {"Pitch"})
    [] v = "Yaw" -> May(vpitch \/ (roll /\ vyaw), {"Roll"})
                      \cup May(pitch /\ ((roll /\ vpitch) \/ vyaw), {"Pitch"})
    [] OTHER -> {}]

(* controlStampedCallback, from a message of either topic: commands must be
   given in the robot's frame. *)
Control(framed, value) ==
  /\ config.control.use
  /\ command' = IF framed THEN value ELSE command
  /\ UNCHANGED <<config, filter, queue, previous, sound>>

(* computeControlAcceleration clamps an infinite command; one that is not a
   number it passes on, while the command is not older than its timeout. *)
Poisonings == {FALSE} \cup {config.control.use /\ command = "nan"}

(* prepareControl: an acceleration for each commanded velocity. *)
Accelerated(f) ==
  f.nonzero \cup
  (IF config.control.use
   THEN (config.control.update \cap AngularVelocity) \cup
        {a \in Acceleration : \E v \in config.control.update :
           <<v, a>> \in {<<"Vx", "Ax">>, <<"Vy", "Ay">>, <<"Vz", "Az">>}}
   ELSE {})

(* computeControlAcceleration reads a gain for each velocity: past the end of
   a list that was left empty, it reads anything. *)
Wild == config.control.use /\ {config.control.gains,
                               config.control.slowGains} # {TwistSize}

(* computeDynamicProcessNoiseCovariance: the pose's noise scales with the
   velocity. *)
Noise(f) ==
  [a \in StateVars |-> IF config.dynamic /\ a \in Pose /\ ~Some(f, Twist)
                       THEN config.noise[a] \ Pose ELSE config.noise[a]]

(* Ekf::predict: one outcome, or any where a gain is missing.  The covariance
   goes through the model linearised at the state. *)
Predictions(f, poisoned) ==
  {[f EXCEPT
      !.nonzero = {v \in StateVars : Transfer(f)[v] \cap Accelerated(f) # {}},
      !.cov = Plus(Congruent(Jacobian(f), f.cov), Noise(f)),
      !.finite = @ /\ sane /\ ~poisoned,
      !.proper = @ /\ f.finite] :
     sane \in IF Wild THEN BOOLEAN ELSE {TRUE}}

(* Not the code: a value that is not a number is fused. *)
UsableAll(m) == m.update

(* "Handle nan and inf values in measurements": they are excluded. *)
Usable(m) == m.update \ m.bad

(* The covariance of what would be fused is not proper. *)
Improper(m) == Usable(m) \cap m.doubt # {}

(* What the inverse of a symmetric matrix may couple with each row, given that
   the inverse of a block diagonal one is block diagonal. *)
Split(M) == \A v \in StateVars : IF v \in Spatial THEN M[v] \subseteq Spatial
                                 ELSE M[v] \subseteq Planar
Coupled(U, S) ==
  IF Split(S) THEN [w \in U |-> U \cap (IF w \in Spatial THEN Spatial
                                                        ELSE Planar)]
  ELSE [w \in U |-> U]

(* kalman_gain_subset: P H' inverse(H P H' + R). *)
Gain(f, m) ==
  LET U == Usable(m)
      S == [v \in StateVars |->
              IF v \in U THEN ((f.cov[v] \cup m.cov[v]) \cap U) \cup {v}
              ELSE {}]
      C == Coupled(U, S)
  IN  [v \in StateVars |-> UNION {C[w] : w \in f.cov[v] \cap U}]

(* Ekf::correct, its threshold passed.  The gain is known to be finite if both
   covariances are proper; only the values are looked at. *)
Corrected(f, m) ==
  LET U == Usable(m)
      K == Gain(f, m)
      R == [v \in StateVars |-> IF v \in U THEN (m.cov[v] \cap U) \cup {v}
                                ELSE {}]
      innovation == U \cap (m.nonzero \cup f.nonzero)
      residual == [v \in StateVars |-> {v} \cup K[v]]
      known == f.proper /\ U \cap m.doubt = {}
  IN  [f EXCEPT
         !.nonzero = @ \cup {v \in StateVars : K[v] \cap innovation # {}},
         !.finite = @ /\ U \cap m.bad = {} /\ (known \/ U = {}),
         !.proper = known,
         !.cov = Plus(Congruent(residual, f.cov), Congruent(K, R))]

(* processMeasurement on a filter that has none: values and variances are
   taken over as they are. *)
Initialised(f, m) ==
  [initialized |-> TRUE,
   nonzero |-> (f.nonzero \ m.update) \cup (m.nonzero \cap m.update),
   finite |-> f.finite /\ m.update \cap m.bad = {},
   cov |-> [a \in StateVars |->
              IF a \in m.update
              THEN (m.cov[a] \cap m.update) \cup (f.cov[a] \ m.update)
              ELSE f.cov[a]],
   proper |-> f.proper /\ m.update \cap m.doubt = {}]

(* processMeasurement: predict to the measurement's time if that is ahead,
   then correct unless the threshold refuses.  One that is not a number it
   accepts: no comparison with it is true. *)
Fuse(m, ahead, poisoned, accepted) ==
  /\ queue' = queue \ {m}
  /\ IF filter.initialized
     THEN /\ \E f \in IF ahead THEN Predictions(filter, poisoned) ELSE {filter} :
               filter' = IF accepted THEN Corrected(f, m) ELSE f
          /\ sound' = (sound /\ ~(ahead /\ poisoned) /\ ~(accepted /\ Improper(m)))
     ELSE /\ filter' = Initialised(filter, m)
          /\ sound' = (filter'.finite /\ filter'.proper)
  /\ UNCHANGED <<config, previous, command>>

(* integrateMeasurements after sensor_timeout. *)
Timeout(poisoned) ==
  /\ filter.initialized /\ filter' \in Predictions(filter, poisoned)
  /\ sound' = (sound /\ ~poisoned)
  /\ UNCHANGED <<config, queue, previous, command>>

(* setPoseCallback; a pose whose frame is unknown leaves zero. *)
PoseTopic == [source |-> "set_pose", kind |-> "pose", part |-> "pose",
              update |-> StateVars, differential |-> FALSE]
Posed(able, msg) ==
  IF able THEN AbsolutePose(PoseTopic, msg)
  ELSE Measurement(StateVars, {}, {}, Diagonal, {})
SetPose(able, msg) ==
  LET m == Posed(able, msg) IN
  /\ filter' = [filter EXCEPT
                  !.nonzero = m.nonzero, !.finite = m.bad = {},
                  !.proper = m.doubt = {},
                  !.cov = [a \in StateVars |->
                             IF a \in Pose THEN m.cov[a] ELSE {a}]]
  /\ queue' = {} /\ previous' = <<>>
  /\ sound' = (m.bad = {} /\ m.doubt = {})
  /\ UNCHANGED <<config, command>>

(* The parts of a message its callback reads. *)
Messages(cb) ==
  [rotation : Rotations,
   bad : IF cb.part = "pose" THEN {{}, {"X"}, {"Yaw"}}
         ELSE IF cb.part = "twist" THEN {{}, {"Vyaw"}} ELSE {{}, {"Ax"}},
   same : IF cb.part = "pose" /\ cb.differential THEN BOOLEAN ELSE {FALSE},
   oriented : IF cb.part = "accel" THEN BOOLEAN ELSE {TRUE},
   proper : BOOLEAN]

Next ==
  \/ \E cb \in config.callbacks : \E msg \in Messages(cb) : Receive(cb, msg)
  \/ \E framed \in BOOLEAN, value \in {"number", "nan"} : Control(framed, value)
  \/ \E m \in queue, poisoned \in Poisonings, ahead, accepted \in BOOLEAN :
       Fuse(m, ahead, poisoned, accepted)
  \/ \E poisoned \in Poisonings : Timeout(poisoned)
  \/ \E able \in BOOLEAN, msg \in Messages(PoseTopic) : SetPose(able, msg)

Spec == Init /\ [][Next]_vars

-----------------------------------------------------------------------------
(* What is published of an initialised filter.                             *)

Block(vs) == [a \in vs |-> filter.cov[a] \cap vs]

(* getFilteredOdometryMessage *)
OdometryMessage ==
  [pose |-> filter.nonzero \cap Pose, poseCovariance |-> Block(Pose),
   twist |-> filter.nonzero \cap Twist, twistCovariance |-> Block(Twist)]

(* getFilteredAccelMessage *)
AccelMessage ==
  [accel |-> filter.nonzero \cap Acceleration, covariance |-> Block(Acceleration)]

(* Each row of a message's covariance keeps the plane apart. *)
Apart(block) ==
  \A v \in DOMAIN block :
    block[v] \subseteq (IF v \in Spatial THEN Spatial ELSE Planar)

-----------------------------------------------------------------------------
(* Properties.                                                             *)

(* Type invariant: vectors and matrices over the state variables. *)
TypeOK ==
  /\ filter \in [initialized : BOOLEAN, nonzero : SUBSET StateVars,
                 finite : BOOLEAN, cov : [StateVars -> SUBSET StateVars],
                 proper : BOOLEAN]
  /\ command \in {"none", "number", "nan"} /\ sound \in BOOLEAN

(* The parameters leave the plane to the filter. *)
Grounded ==
  /\ config.twoD /\ Split(config.noise)
  /\ config.control.update \cap Spatial = {}

(* two_d_mode "will fuse 0 values for all 3D variables" (doc): whatever the
   initial state, the estimate that is published is flat, exactly, through
   every rotation, prediction, correction and reset, and it is never
   correlated with what would tilt it - while state and covariance are
   numbers. *)
Flat ==
  Grounded /\ filter.initialized /\ filter.finite =>
    /\ (OdometryMessage.pose \cup OdometryMessage.twist) \cap Spatial = {}
    /\ AccelMessage.accel \cap Spatial = {}
    /\ filter.proper =>
         /\ Apart(OdometryMessage.poseCovariance)
         /\ Apart(OdometryMessage.twistCovariance)
         /\ Apart(AccelMessage.covariance)
         /\ Split(filter.cov)

(* "Handle nan and inf values in measurements" (Ekf::correct): an estimate that
   was a proper one when it was set stays so, whatever values the sensors send
   and whatever is computed from them - a difference over no time, a lever arm,
   gravity taken off by the estimate itself - and whatever covariances come
   with what the look at the values or the planar mode leaves out.  Three things
   nobody handles: a covariance that is not proper in a block of which anything
   is fused, a command that is not a number, and control gains left to be read
   past.  validateFilterOutput only logs them afterwards ("poorly coniditioned
   process, noise, or sensor covariances"). *)
StaysFinite == sound /\ ~Wild => filter.finite /\ filter.proper

Updates(v) ==
  \E cb \in config.callbacks :
    \/ v \in cb.update /\ cb.part = "pose"
    \/ Rate[v] \in cb.update /\ cb.part = "twist"

(* With print_diagnostics, the static errors (loadParams): "Neither X nor its
   velocity is being measured" is said of a variable when no subscription
   updates either, and only then; the planar mode takes the others for
   measured.  Of Y it is not true: see CountOdomTwist.  The status the node
   reports is then an error at every report, whatever the measurements warn of
   in between. *)
WarnsUnmeasured ==
  config.print => \A v \in Pose \ {"Y"} :
    /\ (<<v, "ERROR">> \in config.diagnostics) <=>
         ~Updates(v) /\ ~(config.twoD /\ v \in Spatial)
    /\ <<v, "ERROR">> \in config.diagnostics =>
         \A warned \in SUBSET {<<cb.source, "WARN">> : cb \in config.callbacks} :
           Summary(config.diagnostics, warned) = "ERROR"
=============================================================================
