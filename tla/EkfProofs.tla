------------------------------ MODULE EkfProofs ------------------------------
(***************************************************************************)
(* Proofs about the two nodes of MCEkf: what the planar mode keeps flat    *)
(* and the sensors cannot make infinite, for any parameter files, any      *)
(* rotations and any messages; what navsat_transform_node ties the world   *)
(* to the earth by; and that loadParams warns of what is not measured, for *)
(* any number of sources.                                                  *)
(***************************************************************************)
EXTENDS MCEkf, WellFoundedInduction, TLAPS

Matrices == [StateVars -> SUBSET StateVars]
Filters == [initialized : BOOLEAN, nonzero : SUBSET StateVars,
            finite : BOOLEAN, cov : Matrices, proper : BOOLEAN]

-----------------------------------------------------------------------------
(***************************************************************************)
(* The operators of Ekf.  Split says of a matrix that it does not couple   *)
(* the plane with what would tilt it.                                      *)
(***************************************************************************)

\* Spatial and Planar are two halves of the state.
LEMMA Halves ==
  /\ Spatial \subseteq StateVars /\ Planar \subseteq StateVars
  /\ Spatial \cap Planar = {}
  /\ \A v \in StateVars : v \in Spatial \/ v \in Planar
  BY DEF Spatial, Planar, StateVars, Pose, Twist, Position, Orientation,
         LinearVelocity, AngularVelocity, Acceleration

LEMMA CongruentType == \A M, P : Congruent(M, P) \in Matrices
  BY DEF Congruent, Matrices

LEMMA PlusType ==
  ASSUME NEW P \in Matrices, NEW Q \in Matrices
  PROVE  Plus(P, Q) \in Matrices
  BY DEF Plus, Matrices

\* M P M' and P + Q are split if M, P and Q are.
LEMMA CongruentSplit ==
  ASSUME NEW M, NEW P, Split(M), Split(P)
  PROVE  Split(Congruent(M, P))
<1> SUFFICES ASSUME NEW a \in StateVars
             PROVE  Congruent(M, P)[a] \subseteq
                      IF a \in Spatial THEN Spatial ELSE Planar
  BY DEF Split
<1> DEFINE row == UNION {P[b] : b \in M[a]}
<1>1. Congruent(M, P)[a] = {d \in StateVars : row \cap M[d] # {}}
  BY DEF Congruent
<1>2. row \subseteq IF a \in Spatial THEN Spatial ELSE Planar
  BY Halves DEF Split
<1>3. ASSUME NEW d \in StateVars, row \cap M[d] # {}
      PROVE  d \in Spatial <=> a \in Spatial
  BY <1>2, <1>3, Halves DEF Split
<1> QED
  BY <1>1, <1>3, Halves

LEMMA PlusSplit ==
  ASSUME NEW P, NEW Q, Split(P), Split(Q)
  PROVE  Split(Plus(P, Q))
  BY DEF Split, Plus

LEMMA DiagonalSplit == Split(Diagonal) /\ Diagonal \in Matrices
  BY Halves DEF Split, Diagonal, Matrices

\* What a correction, a prediction and a first measurement are made of.
Sane(m) == m.nonzero \subseteq StateVars /\ m.cov \in Matrices

\* A measurement that says of the third dimension that it is zero.
Levelled(m) ==
  /\ Spatial \subseteq m.update
  /\ m.nonzero \cap Spatial = {}
  /\ Split(m.cov)

LEMMA PreparedLevels ==
  ASSUME NEW update, NEW block \in SUBSET StateVars, NEW bad, NEW cov \in Matrices,
         NEW doubt, NEW m, m = Prepared(Measurement(update, block, bad, cov, doubt))
  PROVE  Sane(m) /\ (config.twoD => Levelled(m))
<1> DEFINE m0 == Measurement(update, block, bad, cov, doubt)
<1>1. m0.nonzero = block /\ m0.cov = cov /\ m0.update = update
  BY DEF Measurement
<1>2. CASE config.twoD
  <2>1. /\ m.update = update \cup Spatial
        /\ m.nonzero = block \ Spatial
        /\ m.cov = [a \in StateVars |-> IF a \in Spatial THEN {a} ELSE cov[a] \ Spatial]
    BY <1>2 DEF Prepared, ForceTwoD, Measurement
  <2>2. m.cov \in Matrices
    BY <2>1, Halves DEF Matrices
  <2>3. Split(m.cov)
    BY <2>1, Halves DEF Split, Matrices, Planar
  <2> QED
    BY <2>1, <2>2, <2>3 DEF Sane, Levelled
<1>3. CASE ~config.twoD
  BY <1>1, <1>3 DEF Prepared, Sane
<1> QED
  BY <1>2, <1>3

LEMMA CovarianceType == \A block \in SUBSET StateVars : Covariance(block) \in Matrices
  BY DEF Covariance, Matrices

LEMMA RotatedType ==
  ASSUME NEW r \in Rotations \cup {Level, Turned}
  PROVE  /\ RotatedCovariance[Pose][r] \in Matrices
         /\ RotatedCovariance[Acceleration][r] \in Matrices
  BY CongruentType DEF RotatedCovariance, Mix

LEMMA PredictionType ==
  ASSUME NEW f \in Filters, NEW poisoned \in BOOLEAN, config.noise \in Matrices,
         NEW g \in Predictions(f, poisoned)
  PROVE  /\ g \in Filters
         /\ g.initialized = f.initialized
         /\ f.finite /\ ~poisoned /\ ~Wild => g.finite
         /\ f.finite /\ f.proper => g.proper
<1>1. PICK sane \in IF Wild THEN BOOLEAN ELSE {TRUE} :
        g = [f EXCEPT
               !.nonzero = {v \in StateVars : Transfer(f)[v] \cap Accelerated(f) # {}},
               !.cov = Plus(Congruent(Jacobian(f), f.cov), Noise(f)),
               !.finite = @ /\ sane /\ ~poisoned,
               !.proper = @ /\ f.finite]
  BY DEF Predictions
<1>2. Noise(f) \in Matrices
  BY DEF Noise, Matrices
<1>3. Plus(Congruent(Jacobian(f), f.cov), Noise(f)) \in Matrices
  BY <1>2, CongruentType, PlusType
<1> QED
  BY <1>1, <1>3 DEF Filters

LEMMA CorrectionType ==
  ASSUME NEW f \in Filters, NEW m, Sane(m)
  PROVE  /\ Corrected(f, m) \in Filters
         /\ Corrected(f, m).initialized = f.initialized
         /\ f.finite /\ f.proper /\ ~Improper(m) =>
              Corrected(f, m).finite /\ Corrected(f, m).proper
<1> DEFINE U == Usable(m)
           known == f.proper /\ U \cap m.doubt = {}
           finite == f.finite /\ U \cap m.bad = {} /\ (known \/ U = {})
<1>1. PICK K, R, residual, innovation :
        Corrected(f, m) =
          [f EXCEPT
             !.nonzero = @ \cup {v \in StateVars : K[v] \cap innovation # {}},
             !.finite = @ /\ U \cap m.bad = {} /\ (known \/ U = {}),
             !.proper = known,
             !.cov = Plus(Congruent(residual, f.cov), Congruent(K, R))]
  BY DEF Corrected
<1>2. Plus(Congruent(residual, f.cov), Congruent(K, R)) \in Matrices
  BY CongruentType, PlusType
<1>3. U \cap m.bad = {}
  BY DEF Usable
<1>4. known \in BOOLEAN /\ finite \in BOOLEAN
  BY DEF Filters
<1>5. f.finite /\ f.proper /\ ~Improper(m) => finite /\ known
  BY <1>3 DEF Improper
<1> QED
  BY <1>1, <1>2, <1>4, <1>5 DEF Filters

-----------------------------------------------------------------------------
(***************************************************************************)
(* Types, and what is queued: every measurement went through Prepared.     *)
(***************************************************************************)

QueueLevelled == \A m \in queue : Sane(m) /\ (config.twoD => Levelled(m))

EkfTypes ==
  /\ TypeOK
  /\ config.noise \in Matrices
  /\ QueueLevelled

LEMMA ReceivedLevelled ==
  ASSUME QueueLevelled, NEW cb, NEW msg, msg.rotation \in Rotations, Receive(cb, msg)
  PROVE  QueueLevelled'
<1>1. /\ Pose \in SUBSET StateVars /\ Orientation \in SUBSET StateVars
      /\ Twist \in SUBSET StateVars /\ Acceleration \in SUBSET StateVars
  BY DEF StateVars, Pose, Twist, Orientation
<1>2. config' = config
  BY DEF Receive
<1>3. ASSUME NEW m, NEW update, NEW block \in SUBSET StateVars, NEW bad,
             NEW cov \in Matrices, NEW doubt,
             m = Prepared(Measurement(update, block, bad, cov, doubt)),
             queue' \subseteq queue \cup {m}
      PROVE  QueueLevelled'
  BY <1>2, <1>3, PreparedLevels DEF QueueLevelled, Sane, Levelled
<1>4. \A b \in {Twist, {}} : Covariance(b) \in Matrices
  BY <1>1, CovarianceType
<1>5. \A update, bad, cov, proper, r :
        \E rotated, wrong :
          PrepareTwist(update, bad, cov, proper, r) =
            Prepared(Measurement(rotated, Twist, wrong, cov, Doubt(Twist, proper)))
  BY DEF PrepareTwist
<1>6. ASSUME NEW before, queue' = queue \cup {DifferentialPose(cb, msg, before)}
      PROVE  QueueLevelled'
  <2> DEFINE cov == Covariance(IF msg.same THEN {} ELSE Twist)
  <2>1. PICK update, bad, proper :
          DifferentialPose(cb, msg, before) = PrepareTwist(update, bad, cov, proper, Level)
    BY DEF DifferentialPose
  <2>2. PICK rotated, wrong :
          PrepareTwist(update, bad, cov, proper, Level) =
            Prepared(Measurement(rotated, Twist, wrong, cov, Doubt(Twist, proper)))
    BY <1>5
  <2>3. cov \in Matrices
    BY <1>4
  <2> HIDE DEF cov
  <2>4. queue' \subseteq queue \cup
          {Prepared(Measurement(rotated, Twist, wrong, cov, Doubt(Twist, proper)))}
    BY <1>6, <2>1, <2>2
  <2> QED
    BY <1>1, <1>3, <2>3, <2>4
<1>7. CASE queue' = queue \cup {AbsolutePose(cb, msg)}
  <2>1. PoseRotation(cb, msg) \in Rotations \cup {Level, Turned}
    BY DEF PoseRotation
  <2>2. RotatedCovariance[Pose][PoseRotation(cb, msg)] \in Matrices
    BY <2>1, RotatedType
  <2>3. PosedNonzero(cb) \in SUBSET StateVars
    BY <1>1 DEF PosedNonzero
  <2> QED
    BY <1>3, <1>7, <2>2, <2>3 DEF AbsolutePose
<1>8. CASE queue' = queue \cup
             {PrepareTwist(cb.update, msg.bad, Covariance(Twist), msg.proper,
                           msg.rotation)}
  <2>1. PICK rotated, wrong :
          PrepareTwist(cb.update, msg.bad, Covariance(Twist), msg.proper,
                       msg.rotation) =
            Prepared(Measurement(rotated, Twist, wrong, Covariance(Twist),
                                 Doubt(Twist, msg.proper)))
    BY <1>5
  <2> QED
    BY <1>1, <1>3, <1>4, <1>8, <2>1
<1>9. CASE queue' = queue \cup {PrepareAcceleration(cb, msg)}
  <2>1. RotatedCovariance[Acceleration][msg.rotation] \in Matrices
    BY RotatedType
  <2> QED
    BY <1>1, <1>3, <1>9, <2>1 DEF PrepareAcceleration
<1>10. CASE queue' = queue
  BY <1>2, <1>10 DEF QueueLevelled
<1> QED
  BY <1>6, <1>7, <1>8, <1>9, <1>10 DEF Receive

LEMMA ResetType ==
  ASSUME NEW able, NEW msg, msg.rotation \in Rotations
  PROVE  /\ Sane(Posed(able, msg))
         /\ config.twoD => Split(Posed(able, msg).cov)
                            /\ Posed(able, msg).nonzero \cap Spatial = {}
<1>1. CASE able
  <2>1. PoseRotation(PoseTopic, msg) \in Rotations \cup {Level, Turned}
    BY DEF PoseRotation
  <2>2. RotatedCovariance[Pose][PoseRotation(PoseTopic, msg)] \in Matrices
    BY <2>1, RotatedType
  <2>3. PosedNonzero(PoseTopic) \in SUBSET StateVars
    BY DEF PosedNonzero, StateVars, Pose
  <2> QED
    BY <1>1, <2>2, <2>3, PreparedLevels DEF Posed, AbsolutePose, Levelled
<1>2. CASE ~able
  BY <1>2, DiagonalSplit DEF Posed, Measurement, Sane
<1> QED
  BY <1>1, <1>2

LEMMA InitialisedType ==
  ASSUME NEW f \in Filters, NEW m, Sane(m)
  PROVE  Initialised(f, m) \in Filters
<1>1. Initialised(f, m).cov \in Matrices
  BY DEF Initialised, Filters, Matrices, Sane
<1> QED
  BY <1>1 DEF Initialised, Filters, Sane

\* Whether a command poisons a prediction is a Boolean.
LEMMA PoisonedType == Poisonings \subseteq BOOLEAN
  BY DEF Poisonings

\* A filter that a measurement was fused into.
LEMMA FusedType ==
  ASSUME EkfTypes, NEW m \in queue, NEW poisoned \in Poisonings,
         NEW ahead \in BOOLEAN, NEW accepted \in BOOLEAN,
         Fuse(m, ahead, poisoned, accepted)
  PROVE  /\ filter' \in Filters
         /\ ~Wild /\ StaysFinite => StaysFinite'
<1>1. filter \in Filters /\ Sane(m) /\ sound \in BOOLEAN
  BY DEF EkfTypes, TypeOK, QueueLevelled, Filters, Matrices
<1>2. poisoned \in BOOLEAN
  BY PoisonedType
<1>3. CASE filter.initialized
  <2>1. PICK f \in IF ahead THEN Predictions(filter, poisoned) ELSE {filter} :
          filter' = IF accepted THEN Corrected(f, m) ELSE f
    BY <1>3 DEF Fuse
  <2>2. /\ f \in Filters
        /\ filter.finite /\ ~(ahead /\ poisoned) /\ ~Wild => f.finite
        /\ filter.finite /\ filter.proper => f.proper
    BY <1>1, <1>2, <2>1, PredictionType DEF EkfTypes
  <2>3. /\ Corrected(f, m) \in Filters
        /\ f.finite /\ f.proper /\ ~Improper(m) =>
             Corrected(f, m).finite /\ Corrected(f, m).proper
    BY <1>1, <2>2, CorrectionType
  <2>4. sound' = (sound /\ ~(ahead /\ poisoned) /\ ~(accepted /\ Improper(m)))
    BY <1>3 DEF Fuse
  <2> QED
    BY <2>1, <2>2, <2>3, <2>4 DEF StaysFinite
<1>4. CASE ~filter.initialized
  BY <1>1, <1>4, InitialisedType DEF Fuse, StaysFinite
<1> QED
  BY <1>3, <1>4

LEMMA EkfInit == Init => EkfTypes
<1> SUFFICES ASSUME Init PROVE EkfTypes
  OBVIOUS
<1>1. PICK c \in Configs :
        /\ config = Loaded(c)
        /\ filter = [initialized |-> FALSE, nonzero |-> Given(c.initial),
                     finite |-> TRUE, cov |-> Diagonal, proper |-> TRUE]
  BY DEF Init
<1>2. config.noise \in Matrices
  BY <1>1, EkfAssumption DEF Loaded, Matrices
<1>3. filter \in Filters
  BY <1>1, DiagonalSplit, EkfAssumption DEF Given, Filters
<1> QED
  BY <1>2, <1>3 DEF Init, EkfTypes, TypeOK, QueueLevelled, Filters, Matrices

LEMMA EkfStep == EkfTypes /\ [Next]_vars => EkfTypes'
<1> SUFFICES ASSUME EkfTypes, [Next]_vars PROVE EkfTypes'
  OBVIOUS
<1>1. filter \in Filters /\ sound \in BOOLEAN
      /\ command \in {"none", "number", "nan"}
  BY DEF EkfTypes, TypeOK, Filters, Matrices
<1>2. ASSUME config' = config, filter' \in Filters, sound' \in BOOLEAN,
             command' \in {"none", "number", "nan"}, QueueLevelled'
      PROVE  EkfTypes'
  BY <1>2 DEF EkfTypes, TypeOK, Filters, Matrices
<1>3. ASSUME config' = config, queue' \subseteq queue PROVE QueueLevelled'
  BY <1>3 DEF EkfTypes, QueueLevelled, Sane, Levelled
<1>4. ASSUME NEW cb \in config.callbacks, NEW msg \in Messages(cb), Receive(cb, msg)
      PROVE  EkfTypes'
  <2>1. msg.rotation \in Rotations
    BY DEF Messages
  <2>2. QueueLevelled'
    BY <1>4, <2>1, ReceivedLevelled DEF EkfTypes
  <2> QED
    BY <1>1, <1>2, <1>4, <2>2 DEF Receive
<1>5. ASSUME NEW framed \in BOOLEAN, NEW value \in {"number", "nan"},
             Control(framed, value)
      PROVE  EkfTypes'
  BY <1>1, <1>2, <1>3, <1>5 DEF Control
<1>6. ASSUME NEW m \in queue, NEW poisoned \in Poisonings, NEW ahead \in BOOLEAN,
             NEW accepted \in BOOLEAN, Fuse(m, ahead, poisoned, accepted)
      PROVE  EkfTypes'
  <2>1. filter' \in Filters
    BY <1>6, FusedType
  <2>2. sound' \in BOOLEAN
    BY <1>1, <1>6, <2>1 DEF Fuse, Filters
  <2> QED
    BY <1>1, <1>2, <1>3, <1>6, <2>1, <2>2 DEF Fuse
<1>7. ASSUME NEW poisoned \in Poisonings, Timeout(poisoned) PROVE EkfTypes'
  <2>1. filter' \in Filters
    BY <1>1, <1>7, PoisonedType, PredictionType DEF Timeout, EkfTypes
  <2> QED
    BY <1>1, <1>2, <1>3, <1>7, <2>1 DEF Timeout
<1>8. ASSUME NEW able \in BOOLEAN, NEW msg \in Messages(PoseTopic), SetPose(able, msg)
      PROVE  EkfTypes'
  <2>1. Sane(Posed(able, msg))
    BY ResetType DEF Messages
  <2>2. filter' \in Filters
    BY <1>1, <1>8, <2>1 DEF SetPose, Sane, Filters, Matrices
  <2> QED
    BY <1>1, <1>2, <1>3, <1>8, <2>2 DEF SetPose
<1>9. CASE UNCHANGED vars
  BY <1>1, <1>2, <1>3, <1>9 DEF vars
<1> QED
  BY <1>4, <1>5, <1>6, <1>7, <1>8, <1>9 DEF Next

THEOREM EkfTyped == Spec => []EkfTypes
  BY EkfInit, EkfStep, PTL DEF Spec

(***************************************************************************)
(* The state stays finite and its covariance proper while no covariance    *)
(* that is not proper is fused and no command that is not a number is      *)
(* followed: a correction leaves out the values that are not finite, and   *)
(* with them what is in doubt about their variables.                       *)
(***************************************************************************)
THEOREM FiniteStays == Spec => []StaysFinite
<1>1. Init => StaysFinite
  BY DEF Init, StaysFinite
<1>2. EkfTypes /\ StaysFinite /\ [Next]_vars => StaysFinite'
  <2> SUFFICES ASSUME EkfTypes, StaysFinite, [Next]_vars PROVE StaysFinite'
    OBVIOUS
  <2>1. config' = config
    BY DEF Next, Receive, Control, Fuse, Timeout, SetPose, vars
  <2>2. Wild' <=> Wild
    BY <2>1 DEF Wild
  <2>3. ASSUME filter' = filter, sound' = sound PROVE StaysFinite'
    BY <2>2, <2>3 DEF StaysFinite
  <2>4. ASSUME NEW m \in queue, NEW poisoned \in Poisonings, NEW ahead \in BOOLEAN,
               NEW accepted \in BOOLEAN, Fuse(m, ahead, poisoned, accepted)
        PROVE  StaysFinite'
    BY <2>2, <2>4, FusedType DEF StaysFinite
  <2>5. ASSUME NEW poisoned \in Poisonings, Timeout(poisoned) PROVE StaysFinite'
    <3>1. filter \in Filters /\ sound \in BOOLEAN /\ config.noise \in Matrices
      BY DEF EkfTypes, TypeOK, Filters, Matrices
    <3>2. /\ filter.finite /\ ~poisoned /\ ~Wild => filter'.finite
          /\ filter.finite /\ filter.proper => filter'.proper
      BY <2>5, <3>1, PoisonedType, PredictionType DEF Timeout
    <3> QED
      BY <2>2, <2>5, <3>2 DEF Timeout, StaysFinite
  <2>6. ASSUME NEW able \in BOOLEAN, NEW msg \in Messages(PoseTopic), SetPose(able, msg)
        PROVE  StaysFinite'
    BY <2>6 DEF SetPose, StaysFinite, EkfTypes, TypeOK
  <2> QED
    BY <2>3, <2>4, <2>5, <2>6 DEF Next, Receive, Control, vars
<1> QED
  BY <1>1, <1>2, EkfTyped, PTL DEF Spec

-----------------------------------------------------------------------------
(***************************************************************************)
(* The planar mode.  The state is flat from its first measurement, and the *)
(* covariance keeps the plane apart from the start: neither the motion     *)
(* model, linearised at a flat state, nor a gain computed from such a      *)
(* covariance joins the two.                                               *)
(***************************************************************************)

Level3(f) == f.nonzero \cap Spatial = {} /\ Split(f.cov)

PlaneKept ==
  Grounded => Split(filter.cov) /\ (filter.initialized => Level3(filter))

\* The motion model at a flat state: without roll and pitch it is planar.
LEMMA TransferSplit ==
  ASSUME NEW f, f.nonzero \cap Spatial = {}
  PROVE  Split(Transfer(f))
<1>1. ~Has(f, "Roll") /\ ~Has(f, "Pitch")
  BY DEF Has, Spatial
<1>2. \A v \in StateVars :
        Transfer(f)[v] = {v} \cup
          CASE v \in {"X", "Y"} -> {"Vx", "Vy", "Ax", "Ay"}
            [] v = "Z" -> {"Vz", "Az"}
            [] v = "Roll" -> {"Vroll"}
            [] v = "Pitch" -> {"Vpitch"}
            [] v = "Yaw" -> {"Vyaw"}
            [] v = "Vx" -> {"Ax"} [] v = "Vy" -> {"Ay"} [] v = "Vz" -> {"Az"}
            [] OTHER -> {}
  BY <1>1 DEF Transfer, May
<1> QED
  BY <1>2 DEF Split, Spatial, Planar, StateVars, Pose, Twist, Position,
              Orientation, LinearVelocity, AngularVelocity, Acceleration

LEMMA JacobianSplit ==
  ASSUME NEW f, f.nonzero \cap Spatial = {}
  PROVE  Split(Jacobian(f))
<1>1. /\ ~Has(f, "Roll") /\ ~Has(f, "Pitch") /\ ~Has(f, "Vpitch")
      /\ ~Some(f, {"Vz", "Az"})
  BY DEF Has, Some, Spatial
<1>2. Split(Transfer(f))
  BY TransferSplit
<1>3. \A v \in StateVars : \E varied :
        /\ Jacobian(f)[v] = Transfer(f)[v] \cup varied
        /\ v \in {"Z", "Roll"} => varied \subseteq {"Roll", "Pitch"}
        /\ v \in {"X", "Y"} => varied = {"Yaw"}
        /\ v \notin {"X", "Y", "Z", "Roll"} => varied = {}
  BY <1>1 DEF Jacobian, May
<1> QED
  BY <1>2, <1>3 DEF Split, Spatial, Planar, StateVars, Pose, Twist, Position,
              Orientation, LinearVelocity, AngularVelocity, Acceleration

LEMMA PredictionFlat ==
  ASSUME Grounded, NEW f \in Filters, Level3(f), NEW poisoned,
         NEW g \in Predictions(f, poisoned)
  PROVE  Level3(g)
<1>1. /\ g.nonzero = {v \in StateVars : Transfer(f)[v] \cap Accelerated(f) # {}}
      /\ g.cov = Plus(Congruent(Jacobian(f), f.cov), Noise(f))
  BY DEF Predictions, Filters
<1>2. Accelerated(f) \cap Spatial = {}
  <2>1. config.control.update \cap Spatial = {}
    BY DEF Grounded
  <2>2. "Az" \in Accelerated(f) => "Az" \in f.nonzero \/ "Vz" \in config.control.update
    BY DEF Accelerated, AngularVelocity
  <2> QED
    BY <2>1, <2>2 DEF Accelerated, Level3, Acceleration, Spatial, AngularVelocity
<1>3. \A v \in Spatial : v \in StateVars /\ Transfer(f)[v] \subseteq Spatial
  BY TransferSplit, Halves DEF Level3, Split
<1>4. Split(Noise(f))
  BY DEF Grounded, Split, Noise
<1>5. Split(Jacobian(f))
  BY JacobianSplit DEF Level3
<1>6. Split(g.cov)
  BY <1>1, <1>4, <1>5, CongruentSplit, PlusSplit DEF Level3
<1> QED
  BY <1>1, <1>2, <1>3, <1>6 DEF Level3

\* A gain couples no more than its covariances do.
LEMMA GainSplit ==
  ASSUME NEW f \in Filters, NEW m, Split(f.cov), Split(m.cov)
  PROVE  Split(Gain(f, m))
<1> DEFINE U == Usable(m)
           S == [v \in StateVars |->
                   IF v \in U THEN ((f.cov[v] \cup m.cov[v]) \cap U) \cup {v}
                   ELSE {}]
           C == Coupled(U, S)
<1>1. Split(S)
  BY Halves DEF Split
<1>2. \A w \in U : C[w] = U \cap (IF w \in Spatial THEN Spatial ELSE Planar)
  BY <1>1 DEF Coupled
<1>3. \A v \in StateVars : Gain(f, m)[v] = UNION {C[w] : w \in f.cov[v] \cap U}
  BY DEF Gain
<1> HIDE DEF U, S, C
<1>4. \A v \in StateVars : \A w \in f.cov[v] : w \in Spatial <=> v \in Spatial
  BY Halves DEF Split
<1> QED
  BY <1>2, <1>3, <1>4 DEF Split

LEMMA CorrectionFlat ==
  ASSUME NEW f \in Filters, Level3(f), NEW m, Levelled(m)
  PROVE  Level3(Corrected(f, m))
<1> DEFINE U == Usable(m)
           K == Gain(f, m)
           R == [v \in StateVars |-> IF v \in U THEN (m.cov[v] \cap U) \cup {v}
                                     ELSE {}]
           innovation == U \cap (m.nonzero \cup f.nonzero)
           residual == [v \in StateVars |-> {v} \cup K[v]]
<1>1. /\ Corrected(f, m).nonzero =
           f.nonzero \cup {v \in StateVars : K[v] \cap innovation # {}}
      /\ Corrected(f, m).cov = Plus(Congruent(residual, f.cov), Congruent(K, R))
  BY DEF Corrected, Filters
<1>2. Split(K)
  BY GainSplit DEF Level3, Levelled
<1>3. Split(R)
  BY Halves DEF Split, Levelled
<1>4. Split(residual)
  BY <1>2, Halves DEF Split
<1>5. innovation \cap Spatial = {}
  BY DEF Level3, Levelled
<1>6. \A v \in Spatial : v \in StateVars /\ K[v] \subseteq Spatial
  BY <1>2, Halves DEF Split
<1> HIDE DEF K, R, residual, innovation
<1>7. Split(Corrected(f, m).cov)
  BY <1>1, <1>2, <1>3, <1>4, CongruentSplit, PlusSplit DEF Level3
<1> QED
  BY <1>1, <1>5, <1>6, <1>7 DEF Level3

LEMMA InitialisedFlat ==
  ASSUME NEW f \in Filters, Split(f.cov), NEW m, Levelled(m)
  PROVE  Level3(Initialised(f, m))
<1>1. Initialised(f, m).nonzero \cap Spatial = {}
  BY DEF Initialised, Levelled
<1>2. Split(Initialised(f, m).cov)
  BY DEF Initialised, Levelled, Split
<1> QED
  BY <1>1, <1>2 DEF Level3

LEMMA PlaneInit == Init => PlaneKept
  BY DiagonalSplit DEF Init, PlaneKept

LEMMA PlaneStep == EkfTypes /\ PlaneKept /\ [Next]_vars => PlaneKept'
<1> SUFFICES ASSUME EkfTypes, PlaneKept, [Next]_vars, Grounded'
             PROVE  Split(filter'.cov) /\ (filter'.initialized => Level3(filter'))
  BY DEF PlaneKept, Level3, Split
<1>1. config' = config
  BY DEF Next, Receive, Control, Fuse, Timeout, SetPose, vars
<1>2. Grounded
  BY <1>1 DEF Grounded, Split
<1>3. /\ filter \in Filters /\ config.twoD
      /\ Split(filter.cov) /\ (filter.initialized => Level3(filter))
  BY <1>2 DEF EkfTypes, TypeOK, Filters, Matrices, Grounded, PlaneKept
<1>4. CASE filter' = filter
  BY <1>3, <1>4
<1>5. ASSUME NEW m \in queue, NEW poisoned \in Poisonings, NEW ahead \in BOOLEAN,
             NEW accepted \in BOOLEAN, Fuse(m, ahead, poisoned, accepted)
      PROVE  Level3(filter')
  <2>1. Levelled(m)
    BY <1>3 DEF EkfTypes, QueueLevelled
  <2>2. CASE filter.initialized
    <3>1. PICK f \in IF ahead THEN Predictions(filter, poisoned) ELSE {filter} :
            filter' = IF accepted THEN Corrected(f, m) ELSE f
      BY <1>5, <2>2 DEF Fuse
    <3>2. f \in Filters
      BY <1>3, <3>1, PoisonedType, PredictionType DEF EkfTypes
    <3>3. Level3(f)
      BY <1>2, <1>3, <2>2, <3>1, PredictionFlat
    <3>4. Level3(Corrected(f, m))
      BY <2>1, <3>2, <3>3, CorrectionFlat
    <3> QED
      BY <3>1, <3>3, <3>4
  <2>3. CASE ~filter.initialized
    BY <1>3, <1>5, <2>1, <2>3, InitialisedFlat DEF Fuse
  <2> QED
    BY <2>2, <2>3
<1>6. ASSUME NEW poisoned \in Poisonings, Timeout(poisoned) PROVE Level3(filter')
  BY <1>2, <1>3, <1>6, PredictionFlat DEF Timeout
<1>7. ASSUME NEW able \in BOOLEAN, NEW msg \in Messages(PoseTopic), SetPose(able, msg)
      PROVE  Level3(filter')
  <2>1. /\ Split(Posed(able, msg).cov)
        /\ Posed(able, msg).nonzero \cap Spatial = {}
    BY <1>3, ResetType DEF Messages
  <2>2. /\ filter'.nonzero = Posed(able, msg).nonzero
        /\ filter'.cov = [a \in StateVars |->
             IF a \in Pose THEN Posed(able, msg).cov[a] ELSE {a}]
    BY <1>3, <1>7 DEF SetPose, Filters
  <2>3. Split(filter'.cov)
    BY <2>1, <2>2, Halves DEF Split
  <2> QED
    BY <2>1, <2>2, <2>3 DEF Level3
<1> QED
  BY <1>4, <1>5, <1>6, <1>7 DEF Next, Receive, Control, vars, Level3

(***************************************************************************)
(* In two_d_mode the estimate that is published is flat, exactly, and is   *)
(* never correlated with what would tilt it.                               *)
(***************************************************************************)
THEOREM PlaneIsKept == Spec => []Flat
<1>1. PlaneKept => Flat
  <2> SUFFICES ASSUME Split(filter.cov), filter.nonzero \cap Spatial = {}
               PROVE  /\ (OdometryMessage.pose \cup OdometryMessage.twist)
                           \cap Spatial = {}
                      /\ AccelMessage.accel \cap Spatial = {}
                      /\ Apart(OdometryMessage.poseCovariance)
                      /\ Apart(OdometryMessage.twistCovariance)
                      /\ Apart(AccelMessage.covariance)
    BY DEF PlaneKept, Flat, Level3
  <2>1. \A vs \in SUBSET StateVars : Apart(Block(vs))
    BY DEF Apart, Block, Split
  <2>2. Pose \subseteq StateVars /\ Twist \subseteq StateVars
        /\ Acceleration \subseteq StateVars
    BY DEF StateVars
  <2> QED
    BY <2>1, <2>2 DEF OdometryMessage, AccelMessage
<1> QED
  BY <1>1, PlaneInit, PlaneStep, EkfTyped, PTL DEF Spec

-----------------------------------------------------------------------------
(***************************************************************************)
(* navsat_transform_node.                                                  *)
(***************************************************************************)

Input == [made : BOOLEAN, at : Int]
Placement == [datum : Int, fix : Int, pose : Int, heading : Int, lever : BOOLEAN]

\* What the proofs need of the types.
NavTypes ==
  /\ datum \in Int /\ fix \in Int /\ pose \in Int /\ datums \in Int
  /\ use_manual_datum \in BOOLEAN /\ transform_good \in BOOLEAN
  /\ declinations \in Nat
  /\ transform \in Placement
  /\ inputs \in [gps : Input, odom : Input, imu : Input]
  /\ odometry_gps \in [at : Int, place : {"none", "robot", "origin"}]

\* While neither a datum was given nor the declination changed, the inputs of
\* a transform that is still to be made are the latest fix and pose.
InputsAreLatest ==
  ~transform_good /\ ~use_manual_datum /\ declinations = 0 =>
    /\ inputs.gps.made => inputs.gps.at = fix
    /\ inputs.odom.made => inputs.odom.at = pose
    /\ inputs.gps.made \/ inputs.odom.made => <<fix, pose>> \in together

\* A fix that waits to be published is newer than the one that was.
WaitingIsNewer ==
  /\ odometry_gps.at <= fix
  /\ gps_updated => odometry_gps.at < fix

NavInv ==
  /\ NavTypes
  /\ InputsAreLatest
  /\ Nav!Paired
  /\ Nav!DatumStands
  /\ WaitingIsNewer

LEMMA SettingsTyped ==
  \A s \in MCSettings : s.wait \in BOOLEAN
<1>1. \A s \in MCSettings : s.wait = FALSE \/ s.wait = TRUE
  BY SMT DEF MCSettings, Waiting
<1> QED
  BY <1>1

LEMMA NavInit == Nav!Init => NavInv
<1> SUFFICES ASSUME Nav!Init PROVE NavInv
  OBVIOUS
<1> USE DEF Nav!Init
<1>1. NavTypes
  <2>1. use_manual_datum \in BOOLEAN
    BY SettingsTyped
  <2>2. inputs \in [gps : Input, odom : Input, imu : Input]
    BY DEF Input, Nav!Nothing
  <2>3. transform \in Placement
    BY DEF Placement
  <2>4. odometry_gps \in [at : Int, place : {"none", "robot", "origin"}]
    OBVIOUS
  <2> QED
    BY <2>1, <2>2, <2>3, <2>4 DEF NavTypes
<1>2. InputsAreLatest
  BY DEF InputsAreLatest, Nav!Nothing
<1>3. Nav!Paired /\ Nav!DatumStands
  BY DEF Nav!Paired, Nav!DatumStands
<1>4. WaitingIsNewer
  BY DEF WaitingIsNewer
<1> QED
  BY <1>1, <1>2, <1>3, <1>4 DEF NavInv

\* What the subscribers make of the inputs.
LEMMA InputsKept ==
  ASSUME inputs \in [gps : Input, odom : Input, imu : Input],
         NEW at \in Int, NEW known \in BOOLEAN
  PROVE  /\ Nav!SetTransformGps(inputs, at) =
              [inputs EXCEPT !.gps = [made |-> TRUE, at |-> at]]
         /\ Nav!SetTransformGps(inputs, at) \in
              [gps : Input, odom : Input, imu : Input]
         /\ Nav!ImuCallback(inputs, at, known) \in
              [gps : Input, odom : Input, imu : Input]
         /\ Nav!ImuCallback(inputs, at, known).gps = inputs.gps
         /\ Nav!ImuCallback(inputs, at, known).odom = inputs.odom
         /\ Nav!SetTransformOdometry(inputs, at, known) \in
              [gps : Input, odom : Input, imu : Input]
         /\ Nav!SetTransformOdometry(inputs, at, known).gps = inputs.gps
         /\ Nav!SetTransformOdometry(inputs, at, known).odom =
              [made |-> TRUE, at |-> at]
  BY DEF Nav!SetTransformGps, Nav!ImuCallback, Nav!SetTransformOdometry,
         Nav!Source, Input

LEMMA NavStep == NavInv /\ [Nav!Next]_(Nav!vars) => NavInv'
<1> SUFFICES ASSUME NavInv, [Nav!Next]_(Nav!vars) PROVE NavInv'
  OBVIOUS
<1> DEFINE Inputs == [gps : Input, odom : Input, imu : Input]
<1> USE DEF NavInv, NavTypes, InputsAreLatest, Nav!Paired, Nav!DatumStands,
            WaitingIsNewer
<1>0. clock \in Int => \A at \in 1 .. clock : at \in Int
  OBVIOUS
<1>1. ASSUME NEW at \in Int, Nav!GpsFix(at) PROVE NavInv'
  <2>1. inputs' \in Inputs
    BY <1>1, InputsKept DEF Nav!GpsFix
  <2>2. ASSUME ~transform_good', ~use_manual_datum', declinations' = 0
        PROVE  /\ inputs'.gps.at = fix'
               /\ inputs'.odom.made => inputs'.odom.at = pose'
    <3>1. inputs' = [inputs EXCEPT !.gps = [made |-> TRUE, at |-> at]]
      BY <1>1, <2>2, InputsKept DEF Nav!GpsFix
    <3>2. inputs'.gps.at = at /\ inputs'.odom = inputs.odom
      BY <3>1 DEF Input
    <3> QED
      BY <1>1, <2>2, <3>2 DEF Nav!GpsFix
  <2>3. <<fix, pose>>' \in together'
    BY <1>1 DEF Nav!GpsFix
  <2>4. InputsAreLatest'
    BY <2>2, <2>3
  <2> QED
    BY <1>1, <2>1, <2>4 DEF Nav!GpsFix
<1>2. ASSUME NEW at \in Int, NEW known \in BOOLEAN, Nav!Odom(at, known) PROVE NavInv'
  <2>1. inputs' \in Inputs
    BY <1>2, InputsKept DEF Nav!Odom
  <2>2. ASSUME ~transform_good', ~use_manual_datum', declinations' = 0
        PROVE  /\ inputs'.gps.made => inputs'.gps.at = fix'
               /\ inputs'.odom.at = pose'
    <3>1. inputs'.gps = inputs.gps /\ inputs'.odom = [made |-> TRUE, at |-> at]
      BY <1>2, <2>2, InputsKept DEF Nav!Odom
    <3> QED
      BY <1>2, <2>2, <3>1 DEF Nav!Odom
  <2>3. <<fix, pose>>' \in together'
    BY <1>2 DEF Nav!Odom
  <2>4. InputsAreLatest'
    BY <2>2, <2>3
  <2> QED
    BY <1>2, <2>1, <2>4 DEF Nav!Odom
<1>3. ASSUME NEW at \in Int, NEW known \in BOOLEAN, Nav!Imu(at, known) PROVE NavInv'
  <2>1. inputs' \in Inputs /\ inputs'.gps = inputs.gps /\ inputs'.odom = inputs.odom
    BY <1>3, InputsKept DEF Nav!Imu
  <2> QED
    BY <1>3, <2>1 DEF Nav!Imu
<1>4. CASE Nav!Datum
  <2>0. datum' \in Int /\ datums' \in Int
    BY <1>4 DEF Nav!Datum
  <2>1. NavTypes'
    BY <1>4, <2>0 DEF Nav!Datum
  <2> QED
    BY <1>4, <2>1 DEF Nav!Datum
<1>5. CASE Nav!SetDeclination
  <2>1. declinations' \in Nat /\ declinations' # 0
    BY <1>5 DEF Nav!SetDeclination
  <2>2. NavTypes'
    BY <1>5, <2>1 DEF Nav!SetDeclination
  <2> QED
    BY <1>5, <2>1, <2>2 DEF Nav!SetDeclination
<1>6. CASE Nav!Move
  BY <1>6 DEF Nav!Move
<1>7. ASSUME NEW known \in BOOLEAN, Nav!TransformCallback(known) PROVE NavInv'
  <2>1. CASE transform_good
    BY <1>7, <2>1 DEF Nav!TransformCallback, Nav!PrepareGpsOdometry,
                      Nav!PrepareFilteredGps, Nav!RobotOrigin
  <2>2. CASE ~transform_good
    <3> DEFINE s == Nav!SetManualDatum(inputs)
    <3>1. s \in Inputs
      BY DEF Nav!SetManualDatum, Nav!Source, Input
    <3>2. ~use_manual_datum => s = inputs
      BY DEF Nav!SetManualDatum
    <3>3. use_manual_datum /\ s.odom.made =>
            s.gps.at = 0 /\ s.odom.at = 0 /\ s.imu.at = 0
      BY DEF Nav!SetManualDatum, Nav!Source
    <3> HIDE DEF s
    <3>4. Nav!ComputeTransform(known) /\ inputs' = s
      BY <1>7, <2>2 DEF Nav!TransformCallback, Nav!ComputeTransform, s
    <3>5. CASE s.odom.made /\ s.gps.made /\ s.imu.made
      <4>1. /\ transform_good' = TRUE
            /\ transform' = [datum |-> IF use_manual_datum THEN datum ELSE -1,
                             fix |-> s.gps.at, pose |-> s.odom.at,
                             heading |-> s.imu.at,
                             lever |-> Nav!LeverTakenOff(known)]
        BY <3>4, <3>5 DEF Nav!ComputeTransform, s
      <4>2. transform' \in Placement
        BY <3>1, <4>1 DEF Placement, Nav!LeverTakenOff, Input
      <4>3. Nav!Paired'
        BY <1>7, <2>2, <3>2, <3>5, <4>1 DEF Nav!TransformCallback
      <4>4. Nav!DatumStands'
        BY <1>7, <3>3, <3>5, <4>1 DEF Nav!TransformCallback, Nav!LeverTakenOff
      <4> QED
        BY <1>7, <2>2, <3>1, <3>4, <4>1, <4>2, <4>3, <4>4
        DEF Nav!TransformCallback, Nav!ComputeTransform
    <3>6. CASE ~(s.odom.made /\ s.gps.made /\ s.imu.made)
      BY <1>7, <2>2, <3>1, <3>2, <3>4, <3>6
      DEF Nav!TransformCallback, Nav!ComputeTransform, s
    <3> QED
      BY <3>5, <3>6
  <2> QED
    BY <2>1, <2>2
<1>8. CASE UNCHANGED Nav!vars
  BY <1>8 DEF Nav!vars
<1> QED
  BY <1>0, <1>1, <1>2, <1>3, <1>4, <1>5, <1>6, <1>7, <1>8 DEF Nav!Next

(***************************************************************************)
(* A behaviour of the two nodes is one of navsat_transform_node.           *)
(***************************************************************************)
LEMMA NavSteps == MCSpec => Nav!Spec
<1>1. MCInit => Nav!Init
  BY DEF MCInit
<1>2. [Filtering \/ Placing]_mcVars => [Nav!Next]_(Nav!vars)
  BY DEF Filtering, Placing, mcVars, navVars, Nav!vars
<1> QED
  BY <1>1, <1>2, PTL DEF MCSpec, Nav!Spec

(***************************************************************************)
(* However fixes, poses, headings, a datum and the timer come in turn, the *)
(* world is tied to the earth by a fix and a pose that were the latest at  *)
(* once or by the last datum, and no fix is published twice.               *)
(***************************************************************************)
THEOREM TiedToTheEarth == MCSpec => Georeferenced
<1>1. Nav!Spec => []NavInv
  BY NavInit, NavStep, PTL DEF Nav!Spec
<1>2. NavInv /\ NavInv' /\ [Nav!Next]_(Nav!vars) =>
        [Nav!Paired' /\ Nav!DatumStands' /\ Nav!NeverTwice]_navVars
  <2> SUFFICES ASSUME NavInv, NavInv', Nav!Next
               PROVE  Nav!Paired' /\ Nav!DatumStands' /\ Nav!NeverTwice
    BY DEF navVars, Nav!vars
  <2>1. Nav!Paired' /\ Nav!DatumStands'
    BY DEF NavInv
  <2>2. ASSUME odometry_gps' # odometry_gps
        PROVE  gps_updated /\ odometry_gps'.at = fix
    BY <2>2
    DEF Nav!Next, Nav!GpsFix, Nav!Odom, Nav!Imu, Nav!Datum, Nav!SetDeclination,
        Nav!Move, Nav!TransformCallback, Nav!PrepareGpsOdometry, Nav!ComputeTransform
  <2> QED
    BY <2>1, <2>2 DEF NavInv, NavTypes, WaitingIsNewer, Nav!NeverTwice
<1> QED
  BY <1>1, <1>2, NavSteps, PTL DEF Georeferenced, Nav!Spec

-----------------------------------------------------------------------------
(* Parameters: what is counted is what is measured.                        *)

\* A set of naturals that is not empty has a least one.
LEMMA LeastNatural ==
  ASSUME NEW T \in SUBSET Nat, T # {}
  PROVE  \E n \in T : \A y \in T : n <= y
<1> DEFINE R == OpToRel(<, Nat)
<1>1. IsWellFoundedOn(R, Nat)
  BY NatLessThanWellFounded
<1>2. PICK x \in T : \A y \in T : ~(<<y, x>> \in R)
  BY <1>1, WFMin, Zenon
<1>3. \A y \in T : ~(y < x)
  <2> SUFFICES ASSUME NEW y \in T, y < x PROVE FALSE
    OBVIOUS
  <2>1. <<y, x>> \in R
    BY DEF OpToRel
  <2> QED
    BY <1>2, <2>1
<1> QED
  BY <1>3

\* What holds of zero, and of every natural up to n with the one before, holds
\* up to n.
LEMMA StepwiseUpTo ==
  ASSUME NEW n \in Nat, NEW P, 0 \in P, \A i \in 0 .. n - 1 : i \in P => i + 1 \in P
  PROVE  \A i \in 0 .. n : i \in P
<1> DEFINE T == {k \in Nat : k <= n /\ k \notin P}
<1> SUFFICES ASSUME T # {} PROVE FALSE
  OBVIOUS
<1>1. PICK k \in T : \A y \in T : k <= y
  <2>1. T \in SUBSET Nat
    OBVIOUS
  <2> HIDE DEF T
  <2> QED
    BY <2>1, LeastNatural
<1>2. k \in Nat /\ k <= n /\ k # 0 /\ k - 1 \notin T
  BY <1>1
<1>3. k - 1 \in 0 .. n - 1 /\ k - 1 \in P /\ (k - 1) + 1 = k
  BY <1>2
<1> QED
  BY <1>1, <1>3

\* A subscription of what has been read updates v, or the velocity of v.
Measured(callbacks, v) ==
  \E cb \in callbacks : \/ v \in cb.update /\ cb.part = "pose"
                        \/ Rate[v] \in cb.update /\ cb.part = "twist"

\* Neither v nor its velocity is counted.
Uncounted(L, v) == L.abs[v] = 0 /\ L.rate[Rate[v]] = 0

\* What has been read has its fields.
Shaped(L) ==
  /\ L = [callbacks |-> L.callbacks, abs |-> L.abs, rate |-> L.rate,
          diagnostics |-> L.diagnostics]
  /\ L.abs \in [Pose -> Nat]
  /\ L.rate \in [Twist -> Nat]

(***************************************************************************)
(* What loadParams knows between two sources: its counters are zero for    *)
(* the variables that no subscription updates, and no others; only of Y    *)
(* they may be wrong.  So far it has only warned.                          *)
(***************************************************************************)
Tallied(L) ==
  /\ Shaped(L)
  /\ \A v \in Pose \ {"Y"} : Uncounted(L, v) <=> ~Measured(L.callbacks, v)
  /\ \A d \in L.diagnostics : d[2] = "WARN"

\* Each pose variable has a velocity of its own.
LEMMA RateIs ==
  /\ Rate \in [Pose -> Twist]
  /\ \A v, w \in Pose : Rate[v] = Rate[w] => v = w
  /\ \A v \in Pose \ {"Y"} : Rate[v] # "Vy"
<1>1. /\ Rate["X"] = "Vx" /\ Rate["Y"] = "Vy" /\ Rate["Z"] = "Vz"
      /\ Rate["Roll"] = "Vroll" /\ Rate["Pitch"] = "Vpitch" /\ Rate["Yaw"] = "Vyaw"
      /\ DOMAIN Rate = Pose
  BY DEF Rate, Pose, Position, Orientation
<1>2. Rate = [v \in Pose |-> Rate[v]]
  <2> DEFINE C(v) ==
        CASE v = "X" -> "Vx" [] v = "Y" -> "Vy" [] v = "Z" -> "Vz"
          [] v = "Roll" -> "Vroll" [] v = "Pitch" -> "Vpitch" [] v = "Yaw" -> "Vyaw"
  <2>1. Rate = [v \in Pose |-> C(v)]
    BY DEF Rate
  <2> HIDE DEF C
  <2> QED
    BY <2>1
<1>3. \A v \in Pose : v \in {"X", "Y", "Z", "Roll", "Pitch", "Yaw"}
  BY DEF Pose, Position, Orientation
<1>4. {"Vx", "Vy", "Vz", "Vroll", "Vpitch", "Vyaw"} \subseteq Twist
  BY DEF Twist, LinearVelocity, AngularVelocity
<1> QED
  BY <1>1, <1>2, <1>3, <1>4

\* What the counters and the subscriptions are after each of the helpers.
LEMMA CountPoseIs ==
  ASSUME NEW L, Shaped(L), NEW s, NEW update
  PROVE  LET M == CountPose(L, s, update)
         IN  /\ Shaped(M) /\ M.callbacks = L.callbacks /\ M.diagnostics = L.diagnostics
             /\ \A v \in Pose : Uncounted(M, v) <=> Uncounted(L, v) /\ v \notin update
<1> DEFINE M == CountPose(L, s, update)
           Added(w) == IF \E v \in update \cap Pose : Rate[v] = w THEN 1 ELSE 0
           rate == [w \in Twist |-> L.rate[w] + Added(w)]
           abs == [v \in Pose |-> L.abs[v] + (IF v \in update THEN 1 ELSE 0)]
<1>1. CASE s.differential
  <2>1. M = [L EXCEPT !.rate = rate]
    BY <1>1 DEF CountPose
  <2>2. rate \in [Twist -> Nat]
    BY DEF Shaped
  <2>3. \A v \in Pose : rate[Rate[v]] = L.rate[Rate[v]] + (IF v \in update THEN 1 ELSE 0)
    <3> SUFFICES ASSUME NEW v \in Pose
                 PROVE  rate[Rate[v]] = L.rate[Rate[v]] + (IF v \in update THEN 1 ELSE 0)
      OBVIOUS
    <3>1. Rate[v] \in Twist
      BY RateIs
    <3>2. rate[Rate[v]] = L.rate[Rate[v]] + Added(Rate[v])
      BY <3>1
    <3>3. Added(Rate[v]) = IF v \in update THEN 1 ELSE 0
      BY RateIs
    <3> QED
      BY <3>2, <3>3
  <2>4. \A v \in Pose : L.rate[Rate[v]] \in Nat
    BY RateIs DEF Shaped
  <2> HIDE DEF M, rate
  <2>5. /\ M = [callbacks |-> L.callbacks, abs |-> L.abs, rate |-> rate,
                diagnostics |-> L.diagnostics]
    BY <2>1 DEF Shaped
  <2>6. /\ M.callbacks = L.callbacks /\ M.abs = L.abs /\ M.rate = rate
        /\ M.diagnostics = L.diagnostics
    BY <2>5
  <2>7. Shaped(M)
    BY <2>2, <2>5, <2>6 DEF Shaped
  <2>8. \A v \in Pose : Uncounted(M, v) <=> Uncounted(L, v) /\ v \notin update
    BY <2>3, <2>4, <2>6 DEF Uncounted
  <2> QED
    BY <2>6, <2>7, <2>8 DEF M
<1>2. CASE ~s.differential
  <2>1. M = [L EXCEPT !.abs = abs]
    BY <1>2 DEF CountPose
  <2>2. abs \in [Pose -> Nat]
    BY DEF Shaped
  <2>3. \A v \in Pose : abs[v] = L.abs[v] + (IF v \in update THEN 1 ELSE 0)
    OBVIOUS
  <2>4. \A v \in Pose : L.abs[v] \in Nat
    BY DEF Shaped
  <2> HIDE DEF M, abs
  <2>5. /\ M = [callbacks |-> L.callbacks, abs |-> abs, rate |-> L.rate,
                diagnostics |-> L.diagnostics]
    BY <2>1 DEF Shaped
  <2>6. /\ M.callbacks = L.callbacks /\ M.abs = abs /\ M.rate = L.rate
        /\ M.diagnostics = L.diagnostics
    BY <2>5
  <2>7. Shaped(M)
    BY <2>2, <2>5, <2>6 DEF Shaped
  <2>8. \A v \in Pose : Uncounted(M, v) <=> Uncounted(L, v) /\ v \notin update
    BY <2>3, <2>4, <2>6 DEF Uncounted
  <2> QED
    BY <2>6, <2>7, <2>8 DEF M
<1> QED
  BY <1>1, <1>2

\* Velocities counted by what they look at in an update; in the odometry loop
\* that of Y looks at Vx.
Counting(L, update, looked) ==
  [L EXCEPT !.rate = [w \in Twist |->
     L.rate[w] + (IF looked[w] \in update THEN 1 ELSE 0)]]

LEMMA CountedRates ==
  ASSUME NEW L, Shaped(L), NEW update, NEW S, S \subseteq Pose,
         NEW looked, \A v \in S : looked[Rate[v]] = Rate[v]
  PROVE  LET M == Counting(L, update, looked)
         IN  /\ Shaped(M) /\ M.callbacks = L.callbacks /\ M.diagnostics = L.diagnostics
             /\ \A v \in S : Uncounted(M, v) <=> Uncounted(L, v) /\ Rate[v] \notin update
<1> DEFINE rate == [w \in Twist |-> L.rate[w] + (IF looked[w] \in update THEN 1 ELSE 0)]
           M == Counting(L, update, looked)
<1>0. M = [L EXCEPT !.rate = rate]
  BY DEF Counting
<1>1. rate \in [Twist -> Nat]
  BY DEF Shaped
<1>2. \A v \in S : rate[Rate[v]] = L.rate[Rate[v]] + (IF Rate[v] \in update THEN 1 ELSE 0)
  BY RateIs
<1>3. \A v \in S : L.rate[Rate[v]] \in Nat
  BY RateIs DEF Shaped
<1> HIDE DEF rate, M
<1>4. M = [callbacks |-> L.callbacks, abs |-> L.abs, rate |-> rate,
           diagnostics |-> L.diagnostics]
  BY <1>0 DEF Shaped
<1>5. /\ M.callbacks = L.callbacks /\ M.abs = L.abs /\ M.rate = rate
      /\ M.diagnostics = L.diagnostics
  BY <1>4
<1>6. Shaped(M)
  BY <1>1, <1>4, <1>5 DEF Shaped
<1>7. \A v \in S : Uncounted(M, v) <=> Uncounted(L, v) /\ Rate[v] \notin update
  BY <1>2, <1>3, <1>5 DEF Uncounted
<1> QED
  BY <1>5, <1>6, <1>7 DEF M, rate

LEMMA CountTwistIs ==
  ASSUME NEW L, Shaped(L), NEW update
  PROVE  LET M == CountTwist(L, update)
         IN  /\ Shaped(M) /\ M.callbacks = L.callbacks /\ M.diagnostics = L.diagnostics
             /\ \A v \in Pose : Uncounted(M, v) <=> Uncounted(L, v) /\ Rate[v] \notin update
<1> DEFINE looked == [w \in Twist |-> w]
           M == Counting(L, update, looked)
<1>1. Pose \subseteq Pose /\ \A v \in Pose : looked[Rate[v]] = Rate[v]
  BY RateIs
<1>2. M = CountTwist(L, update)
  BY DEF CountTwist, Counting
<1> HIDE DEF looked
<1>3. /\ Shaped(M) /\ M.callbacks = L.callbacks /\ M.diagnostics = L.diagnostics
      /\ \A v \in Pose : Uncounted(M, v) <=> Uncounted(L, v) /\ Rate[v] \notin update
  BY <1>1, CountedRates
<1> QED
  BY <1>2, <1>3

LEMMA CountOdomTwistIs ==
  ASSUME NEW L, Shaped(L), NEW update
  PROVE  LET M == CountOdomTwist(L, update)
         IN  /\ Shaped(M) /\ M.callbacks = L.callbacks /\ M.diagnostics = L.diagnostics
             /\ \A v \in Pose \ {"Y"} :
                  Uncounted(M, v) <=> Uncounted(L, v) /\ Rate[v] \notin update
<1> DEFINE looked == [w \in Twist |-> IF w = "Vy" THEN "Vx" ELSE w]
           M == Counting(L, update, looked)
<1>1. \A v \in Pose \ {"Y"} : looked[Rate[v]] = Rate[v]
  BY RateIs
<1>2. M = CountOdomTwist(L, update)
  BY DEF CountOdomTwist, Counting
<1> HIDE DEF looked
<1>3. /\ Shaped(M) /\ M.callbacks = L.callbacks /\ M.diagnostics = L.diagnostics
      /\ \A v \in Pose \ {"Y"} :
           Uncounted(M, v) <=> Uncounted(L, v) /\ Rate[v] \notin update
  BY <1>1, CountedRates
<1> QED
  BY <1>2, <1>3

LEMMA SubscribeIs ==
  ASSUME NEW L, Shaped(L), NEW s, NEW parts
  PROVE  LET M == Subscribe(L, s, parts)
         IN  /\ Shaped(M) /\ M.diagnostics = L.diagnostics
             /\ \A v \in Pose : Uncounted(M, v) <=> Uncounted(L, v)
             /\ \A v : Measured(M.callbacks, v) <=>
                         \/ Measured(L.callbacks, v)
                         \/ \E p \in parts : \/ v \in p[2] /\ p[1] = "pose"
                                             \/ Rate[v] \in p[2] /\ p[1] = "twist"
<1> DEFINE new == {Callback(s, p[1], p[2]) : p \in {q \in parts : q[2] # {}}}
           M == Subscribe(L, s, parts)
<1>1. M = [L EXCEPT !.callbacks = L.callbacks \cup new]
  BY DEF Subscribe
<1>2. \A v : Measured(L.callbacks \cup new, v) <=> Measured(L.callbacks, v) \/ Measured(new, v)
  BY DEF Measured
<1>3. ASSUME NEW p PROVE Callback(s, p[1], p[2]).update = p[2] /\ Callback(s, p[1], p[2]).part = p[1]
  BY DEF Callback
<1>4. ASSUME NEW v
      PROVE  Measured(new, v) <=> \E p \in parts : \/ v \in p[2] /\ p[1] = "pose"
                                                   \/ Rate[v] \in p[2] /\ p[1] = "twist"
  <2>1. ASSUME NEW p \in parts, \/ v \in p[2] /\ p[1] = "pose"
                                \/ Rate[v] \in p[2] /\ p[1] = "twist"
        PROVE  Measured(new, v)
    <3>1. Callback(s, p[1], p[2]) \in new
      BY <2>1
    <3> HIDE DEF new
    <3> QED
      BY <1>3, <2>1, <3>1 DEF Measured
  <2>2. ASSUME Measured(new, v)
        PROVE  \E p \in parts : \/ v \in p[2] /\ p[1] = "pose"
                                \/ Rate[v] \in p[2] /\ p[1] = "twist"
    <3>1. PICK cb \in new : \/ v \in cb.update /\ cb.part = "pose"
                            \/ Rate[v] \in cb.update /\ cb.part = "twist"
      BY <2>2 DEF Measured
    <3>2. PICK p \in parts : cb = Callback(s, p[1], p[2])
      BY <3>1
    <3> QED
      BY <1>3, <3>1, <3>2
  <2> QED
    BY <2>1, <2>2
<1> HIDE DEF new, M
<1>5. M = [callbacks |-> L.callbacks \cup new, abs |-> L.abs, rate |-> L.rate,
           diagnostics |-> L.diagnostics]
  BY <1>1 DEF Shaped
<1>6. /\ M.callbacks = L.callbacks \cup new /\ M.abs = L.abs /\ M.rate = L.rate
      /\ M.diagnostics = L.diagnostics
  BY <1>5
<1>7. Shaped(M)
  BY <1>5, <1>6 DEF Shaped
<1>8. \A v \in Pose : Uncounted(M, v) <=> Uncounted(L, v)
  BY <1>6 DEF Uncounted
<1> QED
  BY <1>2, <1>4, <1>6, <1>7, <1>8 DEF M

LEMMA PartsMeasure ==
  ASSUME NEW v, NEW poses, NEW twist, NEW accel
  PROVE  LET Aim(parts) == \E p \in parts : \/ v \in p[2] /\ p[1] = "pose"
                                            \/ Rate[v] \in p[2] /\ p[1] = "twist"
         IN  /\ Aim({<<"pose", poses>>}) <=> v \in poses
             /\ Aim({<<"twist", twist>>}) <=> Rate[v] \in twist
             /\ Aim({<<"pose", poses>>, <<"twist", twist>>}) <=> v \in poses \/ Rate[v] \in twist
             /\ Aim({<<"pose", poses>>, <<"twist", twist>>, <<"accel", accel>>})
                  <=> v \in poses \/ Rate[v] \in twist
<1>1. /\ <<"pose", poses>>[1] = "pose" /\ <<"pose", poses>>[2] = poses
      /\ <<"twist", twist>>[1] = "twist" /\ <<"twist", twist>>[2] = twist
      /\ <<"accel", accel>>[1] = "accel" /\ <<"accel", accel>>[2] = accel
  OBVIOUS
<1> DEFINE p == <<"pose", poses>>
           t == <<"twist", twist>>
           a == <<"accel", accel>>
<1>2. /\ p[1] = "pose" /\ p[2] = poses /\ t[1] = "twist" /\ t[2] = twist
      /\ a[1] = "accel"
  BY <1>1
<1> HIDE DEF p, t, a
<1> DEFINE Aim(parts) == \E q \in parts : \/ v \in q[2] /\ q[1] = "pose"
                                          \/ Rate[v] \in q[2] /\ q[1] = "twist"
<1>3. Aim({p}) <=> v \in poses
  BY <1>2
<1>4. Aim({t}) <=> Rate[v] \in twist
  BY <1>2
<1>5. Aim({p, t}) <=> v \in poses \/ Rate[v] \in twist
  BY <1>2
<1>6. Aim({p, t, a}) <=> v \in poses \/ Rate[v] \in twist
  BY <1>2
<1> QED
  BY <1>3, <1>4, <1>5, <1>6 DEF p, t, a

(***************************************************************************)
(* Each of the four loops keeps the counters with the subscriptions.       *)
(***************************************************************************)
LEMMA LoadOdomKeeps ==
  ASSUME NEW L, Tallied(L), NEW s PROVE Tallied(LoadOdom(L, s))
<1> DEFINE poses == s.config \ Twist
           twist == s.config \ Pose
           posed == CountPose(L, s, poses)
           both == CountOdomTwist(posed, twist)
           parts == {<<"pose", poses>>, <<"twist", twist>>}
           all == Subscribe(both, s, parts)
<1>1. LoadOdom(L, s) = IF poses \cup twist = {}
                       THEN [L EXCEPT !.diagnostics = @ \cup {<<s.name, "WARN">>}]
                       ELSE all
  BY DEF LoadOdom
<1>2. CASE poses \cup twist = {}
  <2> DEFINE M == LoadOdom(L, s)
             more == L.diagnostics \cup {<<s.name, "WARN">>}
  <2>1. M = [L EXCEPT !.diagnostics = more]
    BY <1>1, <1>2
  <2>2. \A d \in more : d[2] = "WARN"
    BY DEF Tallied
  <2> HIDE DEF M, more
  <2>3. M = [callbacks |-> L.callbacks, abs |-> L.abs, rate |-> L.rate, diagnostics |-> more]
    BY <2>1 DEF Tallied, Shaped
  <2>4. M.callbacks = L.callbacks /\ M.abs = L.abs /\ M.rate = L.rate /\ M.diagnostics = more
    BY <2>3
  <2>5. Shaped(M)
    BY <2>3, <2>4 DEF Tallied, Shaped
  <2>6. \A v \in Pose \ {"Y"} : Uncounted(M, v) <=> ~Measured(M.callbacks, v)
    BY <2>4 DEF Tallied, Uncounted
  <2> QED
    BY <2>2, <2>4, <2>5, <2>6 DEF Tallied, M
<1>3. CASE poses \cup twist # {}
  <2> HIDE DEF poses, twist
  <2>1. /\ Shaped(posed) /\ posed.callbacks = L.callbacks /\ posed.diagnostics = L.diagnostics
        /\ \A v \in Pose : Uncounted(posed, v) <=> Uncounted(L, v) /\ v \notin poses
    BY CountPoseIs DEF Tallied
  <2> HIDE DEF posed
  <2>2. /\ Shaped(both) /\ both.callbacks = L.callbacks /\ both.diagnostics = L.diagnostics
        /\ \A v \in Pose \ {"Y"} :
             Uncounted(both, v) <=> Uncounted(posed, v) /\ Rate[v] \notin twist
    BY <2>1, CountOdomTwistIs
  <2> HIDE DEF both, parts
  <2>3. /\ Shaped(all) /\ all.diagnostics = L.diagnostics
        /\ \A v \in Pose : Uncounted(all, v) <=> Uncounted(both, v)
        /\ \A v : Measured(all.callbacks, v) <=>
                    \/ Measured(L.callbacks, v)
                    \/ \E p \in parts : \/ v \in p[2] /\ p[1] = "pose"
                                        \/ Rate[v] \in p[2] /\ p[1] = "twist"
    BY <2>2, SubscribeIs
  <2> HIDE DEF all
  <2>4. \A v : Measured(all.callbacks, v) <=>
                 Measured(L.callbacks, v) \/ v \in poses \/ Rate[v] \in twist
    BY <2>3, PartsMeasure DEF parts
  <2>5. Tallied(all)
    BY <2>1, <2>2, <2>3, <2>4 DEF Tallied
  <2> QED
    BY <1>1, <1>3, <2>5
<1> QED
  BY <1>2, <1>3

LEMMA LoadPoseKeeps ==
  ASSUME NEW L, Tallied(L), NEW s PROVE Tallied(LoadPose(L, s))
<1> DEFINE poses == s.config \cap Pose
           posed == CountPose(L, s, poses)
           parts == {<<"pose", poses>>}
           all == Subscribe(posed, s, parts)
<1>1. LoadPose(L, s) = IF poses = {} THEN L ELSE all
  BY DEF LoadPose
<1> HIDE DEF poses
<1>2. /\ Shaped(posed) /\ posed.callbacks = L.callbacks /\ posed.diagnostics = L.diagnostics
      /\ \A v \in Pose : Uncounted(posed, v) <=> Uncounted(L, v) /\ v \notin poses
  BY CountPoseIs DEF Tallied
<1> HIDE DEF posed, parts
<1>3. /\ Shaped(all) /\ all.diagnostics = L.diagnostics
      /\ \A v \in Pose : Uncounted(all, v) <=> Uncounted(posed, v)
      /\ \A v : Measured(all.callbacks, v) <=>
                  \/ Measured(L.callbacks, v)
                  \/ \E p \in parts : \/ v \in p[2] /\ p[1] = "pose"
                                      \/ Rate[v] \in p[2] /\ p[1] = "twist"
  BY <1>2, SubscribeIs
<1> HIDE DEF all
<1>4. \A v : Measured(all.callbacks, v) <=> Measured(L.callbacks, v) \/ v \in poses
  BY <1>3, PartsMeasure DEF parts
<1>5. Tallied(all)
  BY <1>2, <1>3, <1>4 DEF Tallied
<1> QED
  BY <1>1, <1>5

LEMMA LoadTwistKeeps ==
  ASSUME NEW L, Tallied(L), NEW s PROVE Tallied(LoadTwist(L, s))
<1> DEFINE twist == s.config \ Pose
           counted == CountTwist(L, twist)
           parts == {<<"twist", twist>>}
           all == Subscribe(counted, s, parts)
<1>1. LoadTwist(L, s) = IF twist = {} THEN L ELSE all
  BY DEF LoadTwist
<1> HIDE DEF twist
<1>2. /\ Shaped(counted) /\ counted.callbacks = L.callbacks
      /\ counted.diagnostics = L.diagnostics
      /\ \A v \in Pose : Uncounted(counted, v) <=> Uncounted(L, v) /\ Rate[v] \notin twist
  BY CountTwistIs DEF Tallied
<1> HIDE DEF counted, parts
<1>3. /\ Shaped(all) /\ all.diagnostics = L.diagnostics
      /\ \A v \in Pose : Uncounted(all, v) <=> Uncounted(counted, v)
      /\ \A v : Measured(all.callbacks, v) <=>
                  \/ Measured(L.callbacks, v)
                  \/ \E p \in parts : \/ v \in p[2] /\ p[1] = "pose"
                                      \/ Rate[v] \in p[2] /\ p[1] = "twist"
  BY <1>2, SubscribeIs
<1> HIDE DEF all
<1>4. \A v : Measured(all.callbacks, v) <=> Measured(L.callbacks, v) \/ Rate[v] \in twist
  BY <1>3, PartsMeasure DEF parts
<1>5. Tallied(all)
  BY <1>2, <1>3, <1>4 DEF Tallied
<1> QED
  BY <1>1, <1>5

LEMMA LoadImuKeeps ==
  ASSUME NEW L, Tallied(L), NEW s PROVE Tallied(LoadImu(L, s))
<1> DEFINE poses == ImuUpdate(s) \cap Pose
           twist == ImuUpdate(s) \cap Twist
           accel == ImuUpdate(s) \cap Acceleration
           posed == CountPose(L, s, poses)
           both == CountTwist(posed, twist)
           parts == {<<"pose", poses>>, <<"twist", twist>>, <<"accel", accel>>}
           all == Subscribe(both, s, parts)
<1>1. LoadImu(L, s) = all
  BY DEF LoadImu
<1> HIDE DEF poses, twist, accel
<1>2. /\ Shaped(posed) /\ posed.callbacks = L.callbacks /\ posed.diagnostics = L.diagnostics
      /\ \A v \in Pose : Uncounted(posed, v) <=> Uncounted(L, v) /\ v \notin poses
  BY CountPoseIs DEF Tallied
<1> HIDE DEF posed
<1>3. /\ Shaped(both) /\ both.callbacks = L.callbacks /\ both.diagnostics = L.diagnostics
      /\ \A v \in Pose : Uncounted(both, v) <=> Uncounted(posed, v) /\ Rate[v] \notin twist
  BY <1>2, CountTwistIs
<1> HIDE DEF both, parts
<1>4. /\ Shaped(all) /\ all.diagnostics = L.diagnostics
      /\ \A v \in Pose : Uncounted(all, v) <=> Uncounted(both, v)
      /\ \A v : Measured(all.callbacks, v) <=>
                  \/ Measured(L.callbacks, v)
                  \/ \E p \in parts : \/ v \in p[2] /\ p[1] = "pose"
                                      \/ Rate[v] \in p[2] /\ p[1] = "twist"
  BY <1>3, SubscribeIs
<1> HIDE DEF all
<1>5. \A v : Measured(all.callbacks, v) <=>
               Measured(L.callbacks, v) \/ v \in poses \/ Rate[v] \in twist
  BY <1>4, PartsMeasure DEF parts
<1>6. Tallied(all)
  BY <1>2, <1>3, <1>4, <1>5 DEF Tallied
<1> QED
  BY <1>1, <1>6

LEMMA LoadSourceKeeps ==
  ASSUME NEW L, Tallied(L), NEW s, s.kind \in {"odom", "pose", "twist", "imu"}
  PROVE  Tallied(LoadSource(L, s))
<1>1. \/ LoadSource(L, s) = LoadOdom(L, s)
      \/ LoadSource(L, s) = LoadPose(L, s)
      \/ LoadSource(L, s) = LoadTwist(L, s)
      \/ LoadSource(L, s) = LoadImu(L, s)
  BY DEF LoadSource
<1> QED
  BY <1>1, LoadOdomKeeps, LoadPoseKeeps, LoadTwistKeeps, LoadImuKeeps

\* What one of the four loops makes of its k-th source.
Step(L, kind, sources, k) ==
  IF sources[k].kind = kind THEN LoadSource(L, sources[k]) ELSE L

\* The recursion of LoadKind, over the first n sources.
Loads(g, L, kind, sources, n) ==
  g = [k \in 0 .. n |-> IF k = 0 THEN L ELSE Step(g[k - 1], kind, sources, k)]

LEMMA LoadsAt ==
  ASSUME NEW g, NEW L, NEW kind, NEW sources, NEW n,
         Loads(g, L, kind, sources, n), NEW k \in 0 .. n
  PROVE  g[k] = IF k = 0 THEN L ELSE Step(g[k - 1], kind, sources, k)
<1> DEFINE R(j) == IF j = 0 THEN L ELSE Step(g[j - 1], kind, sources, j)
<1>1. g = [j \in 0 .. n |-> R(j)]
  BY DEF Loads
<1> HIDE DEF R
<1>2. g[k] = R(k)
  BY <1>1
<1> QED
  BY <1>2 DEF R

LEMMA LoadsExist ==
  ASSUME NEW L, NEW kind, NEW sources, NEW n \in Nat
  PROVE  \E g : Loads(g, L, kind, sources, n)
<1> DEFINE P == {m \in Nat : \E g : Loads(g, L, kind, sources, m)}
<1>1. 0 \in P
  <2> DEFINE g == [k \in 0 .. 0 |-> L]
  <2>1. \A k \in 0 .. 0 : k = 0
    OBVIOUS
  <2>2. Loads(g, L, kind, sources, 0)
    BY <2>1 DEF Loads
  <2> HIDE DEF g
  <2> QED
    BY <2>2
<1>2. ASSUME NEW m \in 0 .. n - 1, m \in P PROVE m + 1 \in P
  <2>1. PICK g : Loads(g, L, kind, sources, m)
    BY <1>2
  <2> DEFINE h == [k \in 0 .. m + 1 |->
                     IF k = 0 THEN L ELSE Step(g[k - 1], kind, sources, k)]
  <2>2. \A k \in 0 .. m : h[k] = g[k]
    <3>1. \A k \in 0 .. m : g[k] = IF k = 0 THEN L ELSE Step(g[k - 1], kind, sources, k)
      <4> HIDE DEF h
      <4> QED
        BY <2>1, LoadsAt
    <3>2. \A k \in 0 .. m : k \in 0 .. m + 1
      OBVIOUS
    <3> QED
      BY <3>1, <3>2
  <2>3. \A k \in 0 .. m + 1 : k # 0 => h[k - 1] = g[k - 1]
    <3>1. \A k \in 0 .. m + 1 : k # 0 => k - 1 \in 0 .. m
      OBVIOUS
    <3> HIDE DEF h
    <3> QED
      BY <2>2, <3>1
  <2>4. Loads(h, L, kind, sources, m + 1)
    BY <2>3 DEF Loads
  <2>5. m + 1 \in Nat
    OBVIOUS
  <2> QED
    BY <2>4, <2>5
<1> HIDE DEF P
<1>3. \A m \in 0 .. n : m \in P
  BY <1>1, <1>2, StepwiseUpTo
<1> QED
  BY <1>3 DEF P

LEMMA LoadKindKeeps ==
  ASSUME NEW L, Tallied(L), NEW kind \in {"odom", "pose", "twist", "imu"},
         NEW sources, Len(sources) \in Nat
  PROVE  Tallied(LoadKind(L, kind, sources))
<1> DEFINE n == Len(sources)
           g == CHOOSE f : Loads(f, L, kind, sources, n)
<1>1. Loads(g, L, kind, sources, n)
  BY LoadsExist
<1>2. LoadKind(L, kind, sources) = g[n]
  BY DEF LoadKind, Loads, Step
<1> HIDE DEF g, n
<1>3. n \in Nat
  BY DEF n
<1> DEFINE P == {k \in Nat : Tallied(g[k])}
<1>4. 0 \in P
  <2>1. 0 \in 0 .. n
    BY <1>3
  <2>2. g[0] = L
    BY <1>1, <2>1, LoadsAt
  <2> QED
    BY <2>2
<1>5. ASSUME NEW k \in 0 .. n - 1, k \in P PROVE k + 1 \in P
  <2>1. k + 1 \in 0 .. n /\ k + 1 # 0 /\ (k + 1) - 1 = k /\ k + 1 \in Nat
    BY <1>3
  <2>2. g[k + 1] = Step(g[k], kind, sources, k + 1)
    BY <1>1, <2>1, LoadsAt
  <2>3. Tallied(g[k])
    BY <1>5
  <2>4. Tallied(Step(g[k], kind, sources, k + 1))
    BY <2>3, LoadSourceKeeps DEF Step
  <2> QED
    BY <2>1, <2>2, <2>4
<1> HIDE DEF P
<1>6. n \in P
  <2>1. n \in 0 .. n
    BY <1>3
  <2> QED
    BY <1>3, <1>4, <1>5, <2>1, StepwiseUpTo
<1> QED
  BY <1>2, <1>6 DEF P

LEMMA SourcesTallied ==
  ASSUME NEW sources, Len(sources) \in Nat
  PROVE  Tallied(LoadSources(sources))
<1> DEFINE odom == LoadKind(Nothing, "odom", sources)
           poses == LoadKind(odom, "pose", sources)
           twist == LoadKind(poses, "twist", sources)
<1>1. Tallied(Nothing)
  <2>1. /\ Nothing.callbacks = {} /\ Nothing.diagnostics = {}
        /\ Nothing.abs = [v \in Pose |-> 0] /\ Nothing.rate = [v \in Twist |-> 0]
    BY DEF Nothing
  <2>2. Shaped(Nothing)
    BY <2>1 DEF Shaped, Nothing
  <2>3. \A v \in Pose : Uncounted(Nothing, v) /\ ~Measured(Nothing.callbacks, v)
    BY <2>1, RateIs DEF Uncounted, Measured
  <2> QED
    BY <2>1, <2>2, <2>3 DEF Tallied
<1>2. Tallied(odom)
  BY <1>1, LoadKindKeeps
<1> HIDE DEF odom
<1>3. Tallied(poses)
  BY <1>2, LoadKindKeeps
<1> HIDE DEF poses
<1>4. Tallied(twist)
  BY <1>3, LoadKindKeeps
<1> HIDE DEF twist
<1>5. Tallied(LoadKind(twist, "imu", sources))
  BY <1>4, LoadKindKeeps
<1> QED
  BY <1>5 DEF LoadSources, odom, poses, twist

\* An error among the static diagnostics is what is reported, whatever the
\* measurements warn of.
LEMMA ErrorIsReported ==
  ASSUME NEW static, \A d \in static : d[2] \in {"OK", "WARN", "ERROR"},
         NEW v, <<v, "ERROR">> \in static,
         NEW dynamic, \A d \in dynamic : d[2] = "WARN"
  PROVE  Summary(static, dynamic) = "ERROR"
<1> DEFINE levels == {d[2] : d \in static \cup dynamic} \cup {"OK"}
<1>1. <<v, "ERROR">>[2] = "ERROR"
  OBVIOUS
<1>2. "ERROR" \in levels
  BY <1>1
<1>3. \A l \in levels : l \in {"OK", "WARN", "ERROR"}
  OBVIOUS
<1>4. Severity["OK"] = 0 /\ Severity["WARN"] = 1 /\ Severity["ERROR"] = 2
  BY DEF Severity
<1> HIDE DEF levels
<1>5. \A k \in levels : Severity[k] <= Severity["ERROR"]
  BY <1>3, <1>4
<1>6. \A l \in levels : (\A k \in levels : Severity[k] <= Severity[l]) => l = "ERROR"
  BY <1>2, <1>3, <1>4
<1>7. (CHOOSE l \in levels : \A k \in levels : Severity[k] <= Severity[l]) = "ERROR"
  BY <1>2, <1>5, <1>6
<1> QED
  BY <1>7 DEF Summary, levels

(***************************************************************************)
(* With print_diagnostics the node says of a variable - of any but Y -     *)
(* that neither it nor its velocity is being measured exactly if no        *)
(* subscription updates either, for any number of sources of any           *)
(* configuration; and then an error is what it reports at every report.    *)
(***************************************************************************)
THEOREM WarnsRightly == Spec => []WarnsUnmeasured
<1> DEFINE FromFile == \E c \in Configs : config = Loaded(c)
<1>1. Init => FromFile
  BY DEF Init
<1>2. FromFile /\ [Next]_vars => FromFile'
  <2> SUFFICES ASSUME FromFile, [Next]_vars PROVE FromFile'
    OBVIOUS
  <2>1. config' = config
    BY DEF Next, vars, Receive, Control, Fuse, Timeout, SetPose
  <2> QED
    BY <2>1
<1>3. FromFile => WarnsUnmeasured
  <2> SUFFICES ASSUME NEW c \in Configs, config = Loaded(c), config.print,
                      NEW v \in Pose \ {"Y"}
               PROVE  /\ (<<v, "ERROR">> \in config.diagnostics) <=>
                           ~Updates(v) /\ ~(config.twoD /\ v \in Spatial)
                      /\ <<v, "ERROR">> \in config.diagnostics =>
                           \A warned \in SUBSET {<<cb.source, "WARN">> :
                                                   cb \in config.callbacks} :
                             Summary(config.diagnostics, warned) = "ERROR"
    BY DEF WarnsUnmeasured
  <2> DEFINE L == LoadSources(c.sources)
  <2>1. Tallied(L)
    <3>1. Len(c.sources) \in Nat
      BY EkfAssumption
    <3> QED
      BY <3>1, SourcesTallied
  <2>2. /\ config.twoD = c.twoD /\ config.callbacks = L.callbacks /\ config.print = c.print
        /\ config.diagnostics = IF c.print THEN Diagnose(L, c.twoD) ELSE L.diagnostics
    BY DEF Loaded
  <2> HIDE DEF L
  <2>3. config.diagnostics = Diagnose(L, c.twoD)
    BY <2>2
  <2> DEFINE warned1 == {<<w, "WARN">> : w \in {w \in Pose : L.abs[w] > 1}}
             errors == {<<w, "ERROR">> : w \in {w \in Pose : L.abs[w] = 0
                          /\ L.rate[Rate[w]] = 0 /\ ~(c.twoD /\ w \in Spatial)}}
  <2>4. config.diagnostics = L.diagnostics \cup warned1 \cup errors
    BY <2>3 DEF Diagnose
  <2>5. \A w, x : <<w, "WARN">>[2] = "WARN" /\ <<w, "ERROR">>[2] = "ERROR"
                  /\ (<<w, "ERROR">> = <<x, "ERROR">> => w = x)
    OBVIOUS
  <2>6. \A d \in L.diagnostics : d[2] = "WARN"
    BY <2>1 DEF Tallied
  <2>7. \A d \in warned1 : d[2] = "WARN"
    BY <2>5
  <2>8. \A d \in errors : d[2] = "ERROR"
    BY <2>5
  <2>9. <<v, "ERROR">> \in errors <=> Uncounted(L, v) /\ ~(c.twoD /\ v \in Spatial)
    BY <2>5 DEF Uncounted
  <2> HIDE DEF warned1, errors
  <2>10. <<v, "ERROR">> \in config.diagnostics <=> <<v, "ERROR">> \in errors
    BY <2>4, <2>5, <2>6, <2>7
  <2>11. Uncounted(L, v) <=> ~Measured(L.callbacks, v)
    BY <2>1 DEF Tallied
  <2>12. Updates(v) <=> Measured(L.callbacks, v)
    BY <2>2 DEF Updates, Measured
  <2>13. (<<v, "ERROR">> \in config.diagnostics) <=>
           ~Updates(v) /\ ~(config.twoD /\ v \in Spatial)
    BY <2>2, <2>9, <2>10, <2>11, <2>12
  <2>14. ASSUME <<v, "ERROR">> \in config.diagnostics,
                NEW warned \in SUBSET {<<cb.source, "WARN">> : cb \in config.callbacks}
         PROVE  Summary(config.diagnostics, warned) = "ERROR"
    <3>1. \A d \in config.diagnostics : d[2] \in {"OK", "WARN", "ERROR"}
      BY <2>4, <2>6, <2>7, <2>8
    <3>2. \A d \in warned : d[2] = "WARN"
      BY <2>5
    <3> QED
      BY <2>14, <3>1, <3>2, ErrorIsReported
  <2> QED
    BY <2>13, <2>14
<1> QED
  BY <1>1, <1>2, <1>3, PTL DEF Spec
=============================================================================
