----------------------------- MODULE NodesProofs -----------------------------
(***************************************************************************)
(* Proofs about the three nodes of MCNodes: what the keyboard node never   *)
(* does, for any set of moving keys, any timeout and a clock that is set   *)
(* however often and by any amount; that can_imu_node publishes messages   *)
(* of one sample, for any width of the sequence number, any period and any *)
(* setting of the clock; what the map merge makes of a cell; and that it   *)
(* clears the whole way of a robot, for poses any distance apart, cells of *)
(* any length and any radius; and that elsewhere the largest value any map *)
(* has in a cell wins, for any number of maps of any length.               *)
(***************************************************************************)
EXTENDS MCNodes, WellFoundedInduction, TLAPS

(***************************************************************************)
(* The keyboard node.                                                      *)
(***************************************************************************)

(***************************************************************************)
(* Type correctness of the keyboard thread, main, the clock and the        *)
(* history variables.                                                      *)
(***************************************************************************)
THEOREM TeleopTypeCorrect == Spec => []TypeOK
<1> USE TeleopAssumption
<1>1. Init => TypeOK
  <2> SUFFICES ASSUME Init PROVE TypeOK
    OBVIOUS
  <2>1. keys \in Seq(Typed) /\ Len(keys) <= MaxKeys
    BY DEF Init
  <2>2. /\ age \in -MaxBack .. Timeout + 1
        /\ jumps \in 0 .. MaxJumps
        /\ idle \in 0 .. Timeout + 1
    BY DEF Init
  <2> QED
    BY <2>1, <2>2 DEF Init, TypeOK, Still, Twists
<1>2. TypeOK /\ [Next]_vars => TypeOK'
  <2> SUFFICES ASSUME TypeOK, [Next]_vars PROVE TypeOK'
    OBVIOUS
  <2>1. CASE Top
    BY <2>1 DEF Top, TypeOK, mainVars, clockVars
  <2>2. CASE ReadKey
    <3>1. keys # <<>> => /\ Head(keys) \in Typed
                         /\ Tail(keys) \in Seq(Typed)
                         /\ Len(Tail(keys)) <= MaxKeys
      BY DEF TypeOK
    <3>2. key' \in Typed \cup {"none"} /\ keys' \in Seq(Typed)
          /\ Len(keys') <= MaxKeys
      BY <2>2, <3>1 DEF ReadKey, TypeOK
    <3> QED
      BY <2>2, <3>2 DEF ReadKey, TypeOK, mainVars, clockVars
  <2>3. CASE Quit
    BY <2>3 DEF Quit, Publish, TypeOK, Still, Twists, clockVars
  <2>4. CASE Handle
    <3>1. CASE key \in Twists
      <4>1. current' \in Twists
        BY <2>4, <3>1 DEF Handle, Handled, Requested, Twists
      <4>2. armed' \in BOOLEAN
        BY <2>4, <3>1 DEF Handle, Handled
      <4>3. age' = 0 /\ idle' = 0
        BY <2>4, <3>1 DEF Handle, Handled
      <4> QED
        BY <2>4, <4>1, <4>2, <4>3 DEF Handle, TypeOK, mainVars
    <3>2. CASE key \notin Twists
      BY <2>4, <3>2 DEF Handle, Handled, TypeOK, mainVars
    <3> QED
      BY <3>1, <3>2
  <2>5. CASE Decide
    BY <2>5 DEF Decide, TypeOK, Still, Twists, mainVars, clockVars
  <2>6. CASE PublishOutput
    BY <2>6 DEF PublishOutput, Publish, TypeOK, mainVars, clockVars
  <2>7. CASE SpinReturns
    BY <2>7 DEF SpinReturns, TypeOK, loopVars, clockVars
  <2>8. CASE Join
    BY <2>8 DEF Join, TypeOK, loopVars, clockVars
  <2>9. CASE FinalStop
    BY <2>9 DEF FinalStop, Publish, TypeOK, Still, Twists, loopVars, clockVars
  <2>10. CASE Interrupt
    BY <2>10 DEF Interrupt, TypeOK, loopVars, clockVars
  <2>11. CASE Type
    BY <2>11 DEF Type, TypeOK, mainVars, loopVars, clockVars
  <2>12. CASE Tick
    BY <2>12 DEF Tick, Older, TypeOK, mainVars, loopVars
  <2>13. CASE Jump
    BY <2>13 DEF Jump, TypeOK, mainVars, loopVars
  <2>14. CASE UNCHANGED vars
    BY <2>14 DEF TypeOK, vars, mainVars, loopVars, clockVars
  <2> QED
    BY <2>1, <2>2, <2>3, <2>4, <2>5, <2>6, <2>7, <2>8, <2>9, <2>10, <2>11,
       <2>12, <2>13, <2>14 DEF Next, Loop, Main
<1> QED
  BY <1>1, <1>2, PTL DEF Spec

-----------------------------------------------------------------------------
(* While nobody sets the clock, the age the node computes is the true one. *)
TrueAge == jumps = 0 => age = idle

\* A Twist that moves the robot is stored only after a moving key.
StoredIsArmed == current # Still => armed

\* The destructor runs once the context is shut down.
ClosedAfterShutdown == main # "spin" => ~context

\* Unless a signal came first, the shutdown is the last of the keyboard
\* thread's steps, and the stop before it the last Twist.
StoppedBeforeShutdown ==
  ~sigint => /\ loop = "shutdown" => robot = Still
             /\ ~context => loop = "ended" /\ robot = Still

KeyboardInv ==
  /\ TrueAge
  /\ StoredIsArmed
  /\ ClosedAfterShutdown
  /\ StoppedBeforeShutdown

(***************************************************************************)
(* The invariant the three properties rest on.                             *)
(***************************************************************************)
LEMMA KeyboardInvariant == Spec => []KeyboardInv
<1> USE TeleopAssumption
<1>1. Init => KeyboardInv
  BY DEF Init, KeyboardInv, TrueAge, StoredIsArmed, ClosedAfterShutdown,
         StoppedBeforeShutdown
<1>2. TypeOK /\ KeyboardInv /\ [Next]_vars => KeyboardInv'
  <2> SUFFICES ASSUME TypeOK, KeyboardInv, [Next]_vars PROVE KeyboardInv'
    OBVIOUS
  <2> USE DEF KeyboardInv, TrueAge, StoredIsArmed, ClosedAfterShutdown,
              StoppedBeforeShutdown
  <2>1. CASE Top
    BY <2>1 DEF Top, mainVars, clockVars
  <2>2. CASE ReadKey
    BY <2>2 DEF ReadKey, mainVars, clockVars
  <2>3. CASE Quit
    BY <2>3 DEF Quit, Publish, clockVars
  <2>4. CASE Handle
    <3>1. CASE key \in Twists
      <4>1. current' # Still => armed'
        BY <2>4, <3>1 DEF Handle, Handled, Requested
      <4>2. jumps' = 0 => age' = idle'
        BY <2>4, <3>1 DEF Handle, Handled
      <4> QED
        BY <2>4, <4>1, <4>2 DEF Handle, mainVars
    <3>2. CASE key \notin Twists
      BY <2>4, <3>2 DEF Handle, Handled, mainVars
    <3> QED
      BY <3>1, <3>2
  <2>5. CASE Decide
    BY <2>5 DEF Decide, mainVars, clockVars
  <2>6. CASE PublishOutput
    BY <2>6 DEF PublishOutput, Publish, mainVars, clockVars
  <2>7. CASE SpinReturns
    BY <2>7 DEF SpinReturns, loopVars, clockVars
  <2>8. CASE Join
    BY <2>8 DEF Join, loopVars, clockVars
  <2>9. CASE FinalStop
    BY <2>9 DEF FinalStop, Publish, loopVars, clockVars
  <2>10. CASE Interrupt
    BY <2>10 DEF Interrupt, loopVars, clockVars
  <2>11. CASE Type
    BY <2>11 DEF Type, mainVars, loopVars, clockVars
  <2>12. CASE Tick
    BY <2>12 DEF Tick, Older, mainVars, loopVars
  <2>13. CASE Jump
    BY <2>13 DEF Jump, TypeOK, mainVars, loopVars
  <2>14. CASE UNCHANGED vars
    BY <2>14 DEF vars, mainVars, loopVars, clockVars
  <2> QED
    BY <2>1, <2>2, <2>3, <2>4, <2>5, <2>6, <2>7, <2>8, <2>9, <2>10, <2>11,
       <2>12, <2>13, <2>14 DEF Next, Loop, Main
<1> QED
  BY <1>1, <1>2, TeleopTypeCorrect, PTL DEF Spec

(***************************************************************************)
(* While nobody sets the clock, a turn of the loop moves the robot only if *)
(* a valid key is no older than command_timeout.                           *)
(***************************************************************************)
THEOREM DeadManHolds == Spec => DeadMan
<1>1. KeyboardInv /\ [Next]_vars =>
        [Decide /\ jumps = 0 /\ output' # Still => idle <= Timeout]_vars
  BY DEF KeyboardInv, TrueAge, Decide, Fresh
<1> QED
  BY <1>1, KeyboardInvariant, PTL DEF Spec, DeadMan

(***************************************************************************)
(* A robot the timeout has stopped stands still until a moving key is      *)
(* read, whatever is done to the clock.                                    *)
(***************************************************************************)
THEOREM StaysStopped == Spec => NoRevival
<1>1. KeyboardInv /\ [Next]_vars =>
        [loop = "decide" /\ loop' = "publish" /\ output' # Still => armed]_vars
  <2> SUFFICES ASSUME KeyboardInv, Next, loop = "decide", loop' = "publish",
                      output' # Still
               PROVE  armed
    OBVIOUS
  <2>1. Decide
    BY DEF Next, Loop, Main, Top, ReadKey, Quit, Handle, PublishOutput,
           SpinReturns, Join, FinalStop, Interrupt, Type, Tick, Jump, loopVars
  <2> QED
    BY <2>1 DEF Decide, KeyboardInv, StoredIsArmed
<1> QED
  BY <1>1, KeyboardInvariant, PTL DEF Spec, NoRevival

(***************************************************************************)
(* A node that a Ctrl+C read as a key has closed leaves the robot standing *)
(* still.                                                                  *)
(***************************************************************************)
THEOREM QuitLeavesStill == Spec => []QuitStops
<1>1. KeyboardInv => QuitStops
  BY DEF KeyboardInv, ClosedAfterShutdown, StoppedBeforeShutdown, QuitStops
<1> QED
  BY <1>1, KeyboardInvariant, PTL

-----------------------------------------------------------------------------
(***************************************************************************)
(* The IMU node.                                                           *)
(***************************************************************************)

\* What the values of the constants are in the code, widths and bounds.
Sizes ==
  /\ SeqSpace \in Nat \ {0}
  /\ Laps \in Nat \ {0}
  /\ Period \in Nat
  /\ MaxBack \in Nat
  /\ ImuJumps \in Nat

Parts == {"accel", "gyro"}
Stored(p) == IF p = "accel" THEN accel ELSE gyro
Around == Laps * SeqSpace

(***************************************************************************)
(* What is stored is as old as quiet says: it is of the sample quiet[p]    *)
(* before the present one, counted around.  OneSample compares numbers     *)
(* that wrap, and needs to know how far apart the two samples are.         *)
(***************************************************************************)
AsOldAsQuiet ==
  \A p \in Parts : quiet[p] < SeqSpace =>
    Stored(p) \in {sample - quiet[p], sample - quiet[p] + Around}

SampleInv == Imu!TypeOK /\ AsOldAsQuiet

-----------------------------------------------------------------------------
\* A lap of the samples is laps of the numbers, so no shorter than one.
LEMMA AroundRange ==
  ASSUME Sizes
  PROVE  Around \in Nat /\ SeqSpace <= Around /\ Imu!Samples = 0 .. Around - 1
<1>1. SeqSpace \in Nat /\ SeqSpace > 0 /\ Laps \in Nat /\ Laps > 0
  BY DEF Sizes
<1>2. \A s \in Nat, l \in Nat : l > 0 => l * s \in Nat /\ s <= l * s
  OBVIOUS
<1> QED
  BY <1>1, <1>2 DEF Around, Imu!Samples

(***************************************************************************)
(* Two samples less than SeqSpace apart, counted around, that have the     *)
(* same number are the same.                                               *)
(***************************************************************************)
LEMMA SameNumber ==
  ASSUME Sizes, NEW a \in Imu!Samples, NEW b \in Imu!Samples, NEW q \in 0 .. SeqSpace - 1,
         a \in {b - q, b - q + Around}, Imu!Seq(a) = Imu!Seq(b)
  PROVE  a = b
<1> DEFINE S == SeqSpace
           r == a % S
           u == a \div S
           v == b \div S
<1>1. S \in Nat /\ S > 0 /\ Laps \in Nat /\ a \in Nat /\ b \in Nat
  BY AroundRange DEF Sizes, Imu!Samples
<1>2. a = S * u + r /\ u \in Int /\ r \in Int
  BY <1>1
<1>3. b = S * v + r /\ v \in Int
  BY <1>1 DEF Imu!Seq
<1>4. PICK e \in {0, Laps} : a = b - q + e * S
  BY <1>1 DEF Around
<1> HIDE DEF u, v, r, S
<1>5. q = S * (v - u + e)
  <2>1. q = b - a + e * S
    BY <1>1, <1>4 DEF S
  <2>2. b - a = S * (v - u)
    <3>1. S * (v - u) = S * v - S * u
      BY <1>1, <1>2, <1>3
    <3> QED
      BY <1>1, <1>2, <1>3, <3>1
  <2>3. S * (v - u) + e * S = S * (v - u + e)
    BY <1>1, <1>2, <1>3
  <2> QED
    BY <2>1, <2>2, <2>3
<1> DEFINE j == v - u + e
<1>6. j \in Int
  BY <1>1, <1>2, <1>3
<1>7. q = S * j /\ 0 <= q /\ q < S
  BY <1>1, <1>5 DEF S
<1> HIDE DEF j
<1>8. j = 0
  <2>1. CASE j > 0
    <3>1. S * j >= S
      BY <1>1, <1>6, <2>1
    <3> QED
      BY <3>1, <1>1, <1>7
  <2>2. CASE j < 0
    <3>1. S * j < 0
      BY <1>1, <1>6, <2>2
    <3> QED
      BY <3>1, <1>1, <1>7
  <2> QED
    BY <1>6, <2>1, <2>2
<1>9. q = 0
  BY <1>1, <1>7, <1>8
<1>10. a \in {b, b + Around} /\ Around \in Nat /\ a < Around
  BY <1>1, <1>9, AroundRange
<1> QED
  BY <1>1, <1>10

-----------------------------------------------------------------------------
LEMMA InitSample == Sizes /\ Imu!Init => SampleInv
<1> SUFFICES ASSUME Sizes, Imu!Init PROVE SampleInv
  OBVIOUS
<1>1. 0 \in Imu!Samples
  BY AroundRange DEF Sizes
<1>2. 0 \in -MaxBack .. Period /\ 0 \in 0 .. ImuJumps /\ SeqSpace \in 0 .. SeqSpace
  BY DEF Sizes
<1>3. quiet \in [{"accel", "gyro"} -> 0 .. SeqSpace]
  BY <1>2 DEF Imu!Init
<1>4. Imu!TypeOK
  BY <1>1, <1>2, <1>3 DEF Imu!Init, Imu!TypeOK
<1>5. AsOldAsQuiet
  BY DEF Sizes, Imu!Init, AsOldAsQuiet, Parts
<1> QED
  BY <1>4, <1>5 DEF SampleInv

(***************************************************************************)
(* A frame keeps the ages right: that of the part it was accepted for is   *)
(* zero, the others grow with the sample.                                  *)
(***************************************************************************)
LEMMA SentKeeps ==
  ASSUME Sizes, SampleInv, NEW part, Imu!Sent(part),
         accel' = IF part = "accel" THEN sample ELSE accel,
         gyro' = IF part = "gyro" THEN sample ELSE gyro,
         part \in Parts => phase = part
  PROVE  /\ phase' \in {"accel", "gyro", "orientation"}
         /\ sample' \in Imu!Samples
         /\ accel' \in Imu!Samples \cup {Imu!None}
         /\ gyro' \in Imu!Samples \cup {Imu!None}
         /\ quiet' \in [Parts -> 0 .. SeqSpace]
         /\ AsOldAsQuiet'
<1> USE AroundRange
<1>0. SeqSpace \in Nat \ {0}
  BY DEF Sizes
<1>1. phase' \in {"accel", "gyro", "orientation"}
  BY DEF Imu!Sent, SampleInv, Imu!TypeOK
<1>2. sample' = IF phase = "orientation"
                  THEN IF sample = Around - 1 THEN 0 ELSE sample + 1
                  ELSE sample
  <2>1. \A n \in Nat \ {0} : \A s \in 0 .. n - 1 :
          (s + 1) % n = IF s = n - 1 THEN 0 ELSE s + 1
    OBVIOUS
  <2>2. Around \in Nat \ {0} /\ sample \in 0 .. Around - 1
    BY <1>0 DEF SampleInv, Imu!TypeOK
  <2> QED
    BY <2>1, <2>2 DEF Imu!Sent, Around
<1>3. sample' \in Imu!Samples
  BY <1>0, <1>2 DEF SampleInv, Imu!TypeOK
<1>4. quiet' \in [Parts -> 0 .. SeqSpace]
  BY <1>0 DEF Imu!Sent, SampleInv, Imu!TypeOK, Imu!Older, Parts
<1>5. ASSUME NEW p \in Parts, quiet'[p] < SeqSpace
      PROVE  Stored(p)' \in {sample' - quiet'[p], sample' - quiet'[p] + Around}
  <2>1. quiet'[p] = IF p = part THEN 0
                    ELSE IF phase = "orientation" THEN Imu!Older(quiet[p])
                    ELSE quiet[p]
    BY DEF Imu!Sent, Parts
  <2>2. CASE p = part
    <3>1. phase # "orientation" /\ Stored(p)' = sample
      BY <2>2 DEF Parts, Stored
    <3> QED
      BY <1>0, <1>2, <2>1, <2>2, <3>1 DEF SampleInv, Imu!TypeOK
  <2>3. CASE p # part
    <3>1. Stored(p)' = Stored(p) /\ quiet[p] \in 0 .. SeqSpace
      BY <2>3 DEF Parts, Stored, SampleInv, Imu!TypeOK
    <3>2. quiet[p] < SeqSpace
      BY <1>0, <2>1, <2>3, <3>1, <1>5 DEF Imu!Older
    <3>3. Stored(p) \in {sample - quiet[p], sample - quiet[p] + Around}
      BY <3>2 DEF SampleInv, AsOldAsQuiet
    <3>4. Stored(p) \in Imu!Samples \cup {Imu!None} /\ sample \in Imu!Samples
      BY DEF SampleInv, Imu!TypeOK, Stored
    <3>5. quiet'[p] = IF phase = "orientation" THEN quiet[p] + 1 ELSE quiet[p]
      BY <2>1, <2>3, <3>2 DEF Imu!Older
    <3> HIDE DEF SampleInv
    <3> QED
      BY <1>0, <1>2, <3>1, <3>2, <3>3, <3>4, <3>5 DEF Imu!None
  <2> QED
    BY <2>2, <2>3
<1> QED
  BY <1>1, <1>3, <1>4, <1>5
  DEF AsOldAsQuiet, SampleInv, Imu!TypeOK

LEMMA SampleStep == Sizes /\ SampleInv /\ [Imu!Next]_(Imu!vars) => SampleInv'
<1> SUFFICES ASSUME Sizes, SampleInv, [Imu!Next]_(Imu!vars) PROVE SampleInv'
  OBVIOUS
<1> USE DEF SampleInv
<1>1. ASSUME Imu!Sent("none"), UNCHANGED Imu!stored, UNCHANGED Imu!message PROVE SampleInv'
  BY <1>1, SentKeeps DEF Parts, Imu!stored, Imu!message, Imu!Sent, Imu!TypeOK
<1>2. ASSUME NEW flags \in SUBSET Imu!Flags, Imu!Receive(flags) PROVE SampleInv'
  <2>1. CASE Imu!Ignore(flags)
    BY <2>1, <1>1 DEF Imu!Ignore
  <2>2. CASE Imu!Accel(flags)
    BY <2>2, SentKeeps DEF Imu!Accel, Parts, Imu!message, Imu!Sent, Imu!TypeOK
  <2>3. CASE Imu!Gyro(flags)
    BY <2>3, SentKeeps DEF Imu!Gyro, Parts, Imu!message, Imu!Sent, Imu!TypeOK
  <2>4. CASE Imu!Orientation(flags)
    <3>1. /\ out' \in (Imu!Samples \X Imu!Samples \X Imu!Samples) \cup {Imu!Silence}
          /\ since' \in -MaxBack .. Period
          /\ beat' \in BOOLEAN
      <4>1. CASE Imu!Matched(sample) /\ Imu!Due
        BY <2>4, <4>1 DEF Imu!Orientation, Imu!Publish, Imu!Matched, Imu!TypeOK, Sizes
      <4>2. CASE ~(Imu!Matched(sample) /\ Imu!Due)
        BY <2>4, <4>2 DEF Imu!Orientation, Imu!Publish, Imu!message, Imu!TypeOK
      <4> QED
        BY <4>1, <4>2
    <3>2. Imu!Sent("none")
      BY <2>4 DEF Imu!Orientation, Imu!Sent, Imu!TypeOK
    <3> QED
      BY <2>4, <3>1, <3>2, SentKeeps DEF Imu!Orientation, Parts, Imu!stored, Imu!Sent, Imu!TypeOK
  <2> QED
    BY <1>2, <2>1, <2>2, <2>3, <2>4 DEF Imu!Receive
<1>3. CASE Imu!Construct
  BY <1>3 DEF Imu!Construct, Imu!OpenSocket, Imu!TypeOK, AsOldAsQuiet, Stored, Imu!stored, Imu!message
<1>4. CASE Imu!Lose
  BY <1>4, <1>1 DEF Imu!Lose
<1>5. CASE Imu!Tick
  <2>1. since' \in -MaxBack .. Period
    BY <1>5 DEF Imu!Tick, Imu!TypeOK, Sizes
  <2> QED
    BY <1>5, <2>1 DEF Imu!Tick, Imu!TypeOK, AsOldAsQuiet, Stored, Imu!stored
<1>6. CASE Imu!Jump
  <2>1. imuJumps' \in 0 .. ImuJumps
    BY <1>6 DEF Imu!Jump, Imu!TypeOK, Sizes
  <2> QED
    BY <1>6, <2>1 DEF Imu!Jump, Imu!TypeOK, AsOldAsQuiet, Stored, Imu!stored
<1>7. CASE UNCHANGED Imu!vars
  BY <1>7 DEF Imu!vars, Imu!TypeOK, AsOldAsQuiet, Stored, Imu!stored, Imu!message
<1> QED
  BY <1>2, <1>3, <1>4, <1>5, <1>6, <1>7 DEF Imu!Next

LEMMA SampleInvariant == Sizes => (Imu!Spec => []SampleInv)
<1> SUFFICES ASSUME Sizes PROVE Imu!Spec => []SampleInv
  OBVIOUS
<1>1. Imu!Init => SampleInv
  BY InitSample
<1>2. SampleInv /\ [Imu!Next]_(Imu!vars) => SampleInv'
  BY SampleStep
<1> QED
  BY <1>1, <1>2, PTL DEF Imu!Spec

(***************************************************************************)
(* A behaviour of the three nodes is one of can_imu_node.                  *)
(***************************************************************************)
LEMMA ImuSteps == MCSpec => Imu!Spec
<1>1. MCInit => Imu!Init
  BY DEF MCInit
<1>2. [Keyboard(Next) \/ Sampling(Imu!Next) \/ Merging]_mcVars => [Imu!Next]_(Imu!vars)
  BY DEF Keyboard, Sampling, Merging, mcVars, imuVars, Imu!vars, Imu!stored, Imu!message
<1> QED
  BY <1>1, <1>2, PTL DEF MCSpec, Imu!Spec

(***************************************************************************)
(* The variables of can_imu_node keep their types, however samples and     *)
(* clock come round.                                                       *)
(***************************************************************************)
THEOREM ImuTypeCorrect == MCSpec => []Imu!TypeOK
<1>0. Sizes
  BY ImuAssumption DEF Sizes
<1>1. SampleInv => Imu!TypeOK
  BY DEF SampleInv
<1> QED
  BY <1>0, <1>1, SampleInvariant, ImuSteps, PTL

(***************************************************************************)
(* handle_can_frame publishes no message of two samples, whichever frames  *)
(* are lost or refused, until all numbers went by without an acceleration  *)
(* or an angular velocity: a match of wrapping numbers is then one of      *)
(* samples.                                                                *)
(***************************************************************************)
THEOREM PublishesOneSample == MCSpec => OneSample
<1>0. Sizes
  BY ImuAssumption DEF Sizes
<1>1. SampleInv /\ [Imu!Next]_(Imu!vars) =>
        [beat' # beat => Imu!Outage \/ out' = <<sample, sample, sample>>]_(Imu!vars)
  <2> SUFFICES ASSUME SampleInv, Imu!Next, beat' # beat, ~Imu!Outage
               PROVE  out' = <<sample, sample, sample>>
    OBVIOUS
  <2>1. Imu!Matched(sample) /\ out' = <<accel, gyro, sample>>
    BY DEF Imu!Next, Imu!Receive, Imu!Ignore, Imu!Accel, Imu!Gyro, Imu!Orientation, Imu!Publish, Imu!Construct,
           Imu!Lose, Imu!Tick, Imu!Jump, Imu!message
  <2>2. ASSUME NEW p \in Parts PROVE Stored(p) = sample
    <3>1. quiet[p] \in 0 .. SeqSpace - 1
      BY <1>0 DEF Imu!Outage, SampleInv, Imu!TypeOK, Parts, Sizes
    <3>2. Stored(p) \in {sample - quiet[p], sample - quiet[p] + Around}
      BY <1>0, <3>1 DEF SampleInv, AsOldAsQuiet, Sizes
    <3>3. Stored(p) \in Imu!Samples /\ sample \in Imu!Samples /\ Imu!Seq(Stored(p)) = Imu!Seq(sample)
      BY <2>1 DEF SampleInv, Imu!TypeOK, Imu!Matched, Stored
    <3> QED
      BY <1>0, <3>1, <3>2, <3>3, SameNumber
  <2>3. accel = sample /\ gyro = sample
    BY <2>2 DEF Parts, Stored
  <2> QED
    BY <2>1, <2>3
<1> QED
  BY <1>0, <1>1, SampleInvariant, ImuSteps, PTL DEF Imu!Spec, OneSample, Imu!OneSample

-----------------------------------------------------------------------------
(***************************************************************************)
(* The map merge.                                                          *)
(***************************************************************************)

\* What normalize_cell returns, and what a cell of the merged map holds.
NormalValues == {v \in 0 .. Full : v = Full \/ v = 0
                   \/ (FreeThreshold < v /\ v < OccupiedThreshold)}
CellValues == NormalValues \cup {Unknown}

(***************************************************************************)
(* normalize_cell returns one of these values for any value of a map.      *)
(***************************************************************************)
LEMMA NormalizedIsNormal == \A value \in Int : Normalized(value) \in NormalValues
  BY ThresholdsAssumption
  DEF Normalized, NormalValues, Larger, Smaller, Full

(***************************************************************************)
(* What overlay_map writes is the larger of what is there and what is laid *)
(* over it; Unknown, -1, is smaller than all.  Its branch for two free     *)
(* values, which takes the smaller one, meets only zeros.                  *)
(***************************************************************************)
THEOREM MergedIsLarger ==
  \A c \in CellValues, v \in NormalValues :
    /\ Merged(c, v) = Larger(c, v)
    /\ Merged(c, v) \in NormalValues
  BY ThresholdsAssumption
  DEF Merged, CellValues, NormalValues, Larger, Smaller, Full, Unknown

(***************************************************************************)
(* Two maps may be laid over a cell in either order.                       *)
(***************************************************************************)
THEOREM OrderFree ==
  \A c \in CellValues, v, w \in NormalValues :
    Merged(Merged(c, v), w) = Merged(Merged(c, w), v)
<1> SUFFICES ASSUME NEW c \in CellValues,
                    NEW v \in NormalValues, NEW w \in NormalValues
             PROVE  Merged(Merged(c, v), w) = Merged(Merged(c, w), v)
  OBVIOUS
<1>1. /\ Merged(c, v) = Larger(c, v)
      /\ Merged(c, w) = Larger(c, w)
      /\ Merged(c, v) \in CellValues
      /\ Merged(c, w) \in CellValues
  BY MergedIsLarger DEF CellValues
<1>2. /\ Merged(Merged(c, v), w) = Larger(Larger(c, v), w)
      /\ Merged(Merged(c, w), v) = Larger(Larger(c, w), v)
  BY <1>1, MergedIsLarger
<1>3. Larger(Larger(c, v), w) = Larger(Larger(c, w), v)
  BY DEF Larger, CellValues, NormalValues, Full, Unknown
<1> QED
  BY <1>2, <1>3

-----------------------------------------------------------------------------
(* Trails: the arithmetic of a line of steps.                              *)

\* A floor, and what it cancels to.
LEMMA Floor ==
  ASSUME NEW a \in Int, NEW b \in Nat \ {0}
  PROVE  /\ a \div b \in Int
         /\ (a \div b) * b <= a
         /\ a < (a \div b) * b + b
  OBVIOUS

LEMMA FloorIs ==
  ASSUME NEW a \in Int, NEW b \in Nat \ {0}, NEW q \in Int,
         q * b <= a, a < q * b + b
  PROVE  a \div b = q
<1>1. /\ a \div b \in Int
      /\ (a \div b) * b <= a
      /\ a < (a \div b) * b + b
  BY Floor
<1> DEFINE p == a \div b
<1>2. p \in Int /\ p * b < (q + 1) * b /\ q * b < (p + 1) * b
  BY <1>1
<1> HIDE DEF p
<1>3. ASSUME NEW x \in Int, NEW y \in Int, x * b < (y + 1) * b PROVE x <= y
  <2>1. ASSUME y + 1 <= x PROVE FALSE
    <3>1. x - (y + 1) \in Nat
      BY <2>1
    <3>2. (x - (y + 1)) * b >= 0
      BY <3>1
    <3> QED
      BY <1>3, <3>2
  <2> QED
    BY <2>1
<1>4. p <= q /\ q <= p
  BY <1>2, <1>3
<1> QED
  BY <1>2, <1>4 DEF p

LEMMA FloorCancels ==
  ASSUME NEW a \in Int, NEW b \in Nat \ {0}, NEW n \in Nat \ {0}
  PROVE  (a * n) \div (n * b) = a \div b
<1> DEFINE q == a \div b
<1>1. q \in Int /\ q * b <= a /\ a < q * b + b
  BY Floor
<1> HIDE DEF q
<1>2. a - q * b \in Nat /\ q * b + b - a \in Nat \ {0}
  BY <1>1
<1>3. (a - q * b) * n >= 0 /\ (q * b + b - a) * n > 0
  BY <1>2
<1>4. q * (n * b) <= a * n /\ a * n < q * (n * b) + n * b
  BY <1>1, <1>3
<1>5. a * n \in Int /\ n * b \in Nat \ {0}
  OBVIOUS
<1> QED
  BY <1>1, <1>4, <1>5, FloorIs DEF q

(***************************************************************************)
(* j cells of length r are no more than the radius, if n steps of clear_   *)
(* line go past j cells in one, d of an nth each.                          *)
(***************************************************************************)
LEMMA ShortStep ==
  ASSUME NEW r \in Nat \ {0}, NEW radius \in Nat, NEW n \in Nat \ {0},
         NEW d \in Nat, NEW j \in Nat,
         j * (n * r) < d, 2 * d <= n * Larger(2 * r, radius)
  PROVE  j * r <= radius
<1> DEFINE l == Larger(2 * r, radius)
<1>1. l \in Nat /\ l \in {2 * r, radius}
  BY DEF Larger
<1>2. n * (2 * (j * r)) < n * l
  <2>1. j * r \in Nat /\ j * (n * r) = n * (j * r)
    OBVIOUS
  <2>2. n * (2 * (j * r)) = 2 * (j * (n * r))
    BY <2>1
  <2>3. j * (n * r) \in Nat /\ n * l \in Nat /\ 2 * d <= n * l
    BY <1>1
  <2>4. 2 * (j * (n * r)) < 2 * d
    BY <2>3
  <2> HIDE DEF l
  <2> QED
    BY <2>2, <2>3, <2>4
<1> HIDE DEF l
<1>3. 2 * (j * r) < l
  <2>1. ASSUME l <= 2 * (j * r) PROVE FALSE
    <3>1. j * r \in Nat
      OBVIOUS
    <3>2. 2 * (j * r) - l \in Nat
      BY <1>1, <2>1, <3>1
    <3>3. n * (2 * (j * r) - l) >= 0
      BY <3>2
    <3> QED
      BY <1>1, <1>2, <3>1, <3>3
  <2> QED
    BY <1>1, <2>1
<1>4. CASE l = radius
  BY <1>3, <1>4
<1>5. CASE l = 2 * r
  <2>1. j * r < r
    BY <1>3, <1>5
  <2>2. j = 0
    <3>1. ASSUME j >= 1 PROVE FALSE
      <4>1. (j - 1) * r >= 0
        BY <3>1
      <4> QED
        BY <2>1, <4>1
    <3> QED
      BY <3>1
  <2> QED
    BY <2>2
<1> QED
  BY <1>1, <1>4, <1>5

\* A set of naturals that is not empty has a least one.
LEMMA LeastNatural ==
  ASSUME NEW T \in SUBSET Nat, T # {}
  PROVE  \E n \in T : \A y \in T : n <= y
<1> DEFINE Less == {p \in Nat \X Nat : p[1] < p[2]}
<1>1. OpToRel(<, Nat) = Less
  BY DEF OpToRel
<1>2. IsWellFoundedOn(Less, Nat)
  BY <1>1, NatLessThanWellFounded
<1>3. \E n \in T : \A y \in T : ~ (<<y, n>> \in Less)
  <2> HIDE DEF Less
  <2> QED
    BY <1>2, WFMin
<1>4. PICK n \in T : \A y \in T : ~ (<<y, n>> \in Less)
  BY <1>3
<1>5. ASSUME NEW y \in T PROVE n <= y
  <2>1. y \in Nat /\ n \in Nat
    OBVIOUS
  <2>2. ~ y < n
    BY <1>4, <2>1
  <2> QED
    BY <2>1, <2>2
<1> QED
  BY <1>5

\* g are the cells, of length r, of n steps from a, each d of an nth.
Strides(g, a, d, n, r, radius) ==
  /\ r \in Nat \ {0} /\ radius \in Nat /\ n \in Nat \ {0}
  /\ a \in Int /\ d \in Int
  /\ 2 * Merge!Abs(d) <= n * Larger(2 * r, radius)
  /\ \A k \in 0 .. n : g[k] = (a + d * k) \div (n * r)

(***************************************************************************)
(* Steps of d from a, in nths of a unit, pass every cell between the first *)
(* and the last within the radius: the step that goes past the cell ends   *)
(* near it.                                                                *)
(***************************************************************************)
LEMMA StepsCover ==
  ASSUME NEW g, NEW a, NEW d, NEW n, NEW r, NEW radius, NEW c \in Int,
         Strides(g, a, d, n, r, radius),
         \/ g[0] <= c /\ c <= g[n]
         \/ g[n] <= c /\ c <= g[0]
  PROVE  \E k \in 0 .. n : Merge!Abs(c - g[k]) * r <= radius
<1> USE DEF Strides
<1> DEFINE w == n * r
<1>1. w \in Nat \ {0}
  OBVIOUS
<1>2. ASSUME NEW k \in 0 .. n
      PROVE  g[k] \in Int /\ g[k] * w <= a + d * k /\ a + d * k < g[k] * w + w
  <2>1. a + d * k \in Int
    OBVIOUS
  <2> HIDE DEF w
  <2>2. g[k] = (a + d * k) \div w
    BY DEF w
  <2> QED
    BY <1>1, <2>1, <2>2, Floor
<1>3. Merge!Abs(d) \in Nat /\ d <= Merge!Abs(d) /\ -d <= Merge!Abs(d)
  BY DEF Merge!Abs
<1>4. 0 \in 0 .. n /\ n \in 0 .. n
  OBVIOUS
<1>5. ASSUME g[0] = c PROVE Merge!Abs(c - g[0]) * r <= radius
  BY <1>5 DEF Merge!Abs
<1>6. ASSUME NEW k \in 0 .. n, k # 0 PROVE k - 1 \in 0 .. n /\ a + d * k = a + d * (k - 1) + d
  BY <1>6
<1>7. ASSUME NEW x \in Int, NEW y \in Int, x < y PROVE x * w + w <= y * w
  <2> HIDE DEF w
  <2>1. (y - x - 1) * w >= 0
    BY <1>1, <1>7
  <2> QED
    BY <1>1, <2>1
<1> HIDE DEF w
<1>8. CASE g[0] <= c /\ c <= g[n]
  <2> DEFINE T == {k \in 0 .. n : c <= g[k]}
  <2>1. PICK k \in T : \A y \in T : k <= y
    <3>1. T \in SUBSET Nat /\ n \in T
      BY <1>8
    <3> HIDE DEF T
    <3> QED
      BY <3>1, LeastNatural
  <2>2. CASE k = 0
    BY <1>2, <1>4, <1>5, <1>8, <2>1, <2>2
  <2>3. CASE k # 0
    <3>1. k \in 0 .. n /\ k - 1 \in 0 .. n /\ a + d * k = a + d * (k - 1) + d
      BY <1>6, <2>3
    <3>2. k - 1 \notin T
      BY <2>1, <3>1
    <3>3. g[k - 1] \in Int /\ g[k] \in Int /\ g[k - 1] < c /\ c <= g[k]
      BY <1>2, <2>1, <3>1, <3>2
    <3>4. a + d * (k - 1) < c * w
      <4>1. a + d * (k - 1) < g[k - 1] * w + w
        BY <1>2, <3>1
      <4>2. a + d * (k - 1) \in Int
        BY <3>1
      <4>3. g[k - 1] * w + w <= c * w
        BY <1>7, <3>3
      <4> QED
        BY <1>1, <3>3, <4>1, <4>2, <4>3
    <3>5. g[k] * w <= a + d * k
      BY <1>2, <3>1
    <3> DEFINE j == g[k] - c
    <3>6. j \in Nat /\ j * w = g[k] * w - c * w
      BY <1>1, <3>3
    <3>7. j * w < d
      BY <1>1, <3>1, <3>3, <3>4, <3>5, <3>6
    <3>8. Merge!Abs(c - g[k]) = j
      BY <3>3 DEF Merge!Abs
    <3> HIDE DEF j
    <3>9. j * w \in Int
      BY <1>1, <3>6
    <3>10. j * w < Merge!Abs(d)
      BY <1>3, <3>7, <3>9
    <3>11. j * r <= radius
      BY <1>3, <3>6, <3>10, ShortStep DEF w
    <3> QED
      BY <3>1, <3>8, <3>11
  <2> QED
    BY <2>2, <2>3
<1>9. CASE g[n] <= c /\ c <= g[0]
  <2> DEFINE T == {k \in 0 .. n : g[k] <= c}
  <2>1. PICK k \in T : \A y \in T : k <= y
    <3>1. T \in SUBSET Nat /\ n \in T
      BY <1>9
    <3> HIDE DEF T
    <3> QED
      BY <3>1, LeastNatural
  <2>2. CASE k = 0
    BY <1>2, <1>4, <1>5, <1>9, <2>1, <2>2
  <2>3. CASE k # 0
    <3>1. k \in 0 .. n /\ k - 1 \in 0 .. n /\ a + d * k = a + d * (k - 1) + d
      BY <1>6, <2>3
    <3>2. k - 1 \notin T
      BY <2>1, <3>1
    <3>3. g[k - 1] \in Int /\ g[k] \in Int /\ c < g[k - 1] /\ g[k] <= c
      BY <1>2, <2>1, <3>1, <3>2
    <3>4. c * w + w <= a + d * (k - 1)
      <4>1. g[k - 1] * w <= a + d * (k - 1)
        BY <1>2, <3>1
      <4>2. a + d * (k - 1) \in Int
        BY <3>1
      <4>3. c * w + w <= g[k - 1] * w
        BY <1>7, <3>3
      <4> QED
        BY <1>1, <3>3, <4>1, <4>2, <4>3
    <3>5. a + d * k < g[k] * w + w
      BY <1>2, <3>1
    <3> DEFINE j == c - g[k]
    <3>6. j \in Nat /\ j * w = c * w - g[k] * w
      BY <1>1, <3>3
    <3>7. j * w < -d
      BY <1>1, <3>1, <3>3, <3>4, <3>5, <3>6
    <3>8. Merge!Abs(c - g[k]) = j
      BY <3>3 DEF Merge!Abs
    <3> HIDE DEF j
    <3>9. j * w \in Int
      BY <1>1, <3>6
    <3>10. j * w < Merge!Abs(d)
      BY <1>3, <3>7, <3>9
    <3>11. j * r <= radius
      BY <1>3, <3>6, <3>10, ShortStep DEF w
    <3> QED
      BY <3>1, <3>8, <3>11
  <2> QED
    BY <2>2, <2>3
<1> QED
  BY <1>8, <1>9

-----------------------------------------------------------------------------
(* Trails: the bounds of the merged map are numbers.                       *)

\* Among finitely many numbers, if there are any, one is least, one greatest.
LEMMA Extremes ==
  ASSUME NEW n \in Nat, NEW f \in [1 .. n -> Int], NEW K \in SUBSET (1 .. n), K # {}
  PROVE  /\ \E i \in K : \A j \in K : f[i] <= f[j]
         /\ \E i \in K : \A j \in K : f[i] >= f[j]
<1> DEFINE Below(k) == {i \in K : i <= k}
           Has(k) == Below(k) # {} =>
                       /\ \E i \in Below(k) : \A j \in Below(k) : f[i] <= f[j]
                       /\ \E i \in Below(k) : \A j \in Below(k) : f[i] >= f[j]
           T == {k \in Nat : ~ Has(k)}
<1>0. \A i \in K : i \in Nat /\ 1 <= i /\ i <= n
  OBVIOUS
<1>1. T = {}
  <2> SUFFICES ASSUME T # {} PROVE FALSE
    OBVIOUS
  <2>1. PICK k \in T : \A y \in T : k <= y
    <3>1. T \in SUBSET Nat
      OBVIOUS
    <3> HIDE DEF T
    <3> QED
      BY <3>1, LeastNatural
  <2>2. k # 0
    <3>1. ASSUME NEW i \in Below(0) PROVE FALSE
      <4>1. i \in K /\ i <= 0
        OBVIOUS
      <4> QED
        BY <1>0, <4>1
    <3>2. Below(0) = {}
      <4> HIDE DEF Below
      <4> QED
        BY <3>1
    <3>3. 0 \notin T
      <4> HIDE DEF Below
      <4> QED
        BY <3>2
    <3> QED
      BY <2>1, <3>3
  <2>3. k - 1 \in Nat /\ k - 1 \notin T
    BY <2>1, <2>2
  <2>4. Has(k - 1)
    BY <2>3
  <2>5. Below(k) = Below(k - 1) \cup (IF k \in K THEN {k} ELSE {})
    <3>1. \A i \in K : i <= k <=> i <= k - 1 \/ i = k
      BY <1>0, <2>3
    <3>2. ASSUME NEW i
          PROVE  i \in Below(k) <=> i \in Below(k - 1) \/ (i = k /\ k \in K)
      BY <3>1
    <3> HIDE DEF Below
    <3> QED
      BY <3>2
  <2>6. \A i \in K : f[i] \in Int
    OBVIOUS
  <2>7. CASE k \notin K
    BY <2>1, <2>4, <2>5, <2>7
  <2>8. CASE k \in K
    <3>1. Below(k) = Below(k - 1) \cup {k} /\ Below(k - 1) \subseteq K /\ Below(k) \subseteq K
      BY <2>5, <2>8
    <3>2. CASE Below(k - 1) = {}
      <4>1. Below(k) = {k}
        BY <3>1, <3>2
      <4> HIDE DEF Below
      <4> QED
        BY <2>1, <2>6, <2>8, <4>1
    <3>3. CASE Below(k - 1) # {}
      <4> HIDE DEF Below
      <4>1. PICK i \in Below(k - 1) : \A j \in Below(k - 1) : f[i] <= f[j]
        BY <2>4, <3>3
      <4>2. PICK h \in Below(k - 1) : \A j \in Below(k - 1) : f[h] >= f[j]
        BY <2>4, <3>3
      <4>3. f[i] \in Int /\ f[h] \in Int /\ f[k] \in Int
        BY <2>6, <2>8, <3>1
      <4>4. \E x \in {i, k} : f[x] <= f[i] /\ f[x] <= f[k]
        BY <4>3
      <4>5. \E x \in {h, k} : f[x] >= f[h] /\ f[x] >= f[k]
        BY <4>3
      <4>6. \E x \in Below(k) : \A j \in Below(k) : f[x] <= f[j]
        <5>1. PICK x \in {i, k} : f[x] <= f[i] /\ f[x] <= f[k]
          BY <4>4
        <5>2. ASSUME NEW j \in Below(k) PROVE f[x] <= f[j]
          <6>1. f[j] \in Int /\ f[x] \in Int
            BY <2>6, <2>8, <3>1, <4>3, <5>1
          <6>2. j = k \/ f[i] <= f[j]
            BY <3>1, <4>1
          <6> QED
            BY <4>3, <5>1, <6>1, <6>2
        <5> QED
          BY <3>1, <5>1, <5>2
      <4>7. \E x \in Below(k) : \A j \in Below(k) : f[x] >= f[j]
        <5>1. PICK x \in {h, k} : f[x] >= f[h] /\ f[x] >= f[k]
          BY <4>5
        <5>2. ASSUME NEW j \in Below(k) PROVE f[x] >= f[j]
          <6>1. f[j] \in Int /\ f[x] \in Int
            BY <2>6, <2>8, <3>1, <4>3, <5>1
          <6>2. j = k \/ f[h] >= f[j]
            BY <3>1, <4>2
          <6> QED
            BY <4>3, <5>1, <6>1, <6>2
        <5> QED
          BY <3>1, <5>1, <5>2
      <4> QED
        BY <2>1, <4>6, <4>7
    <3> QED
      BY <3>2, <3>3
  <2> QED
    BY <2>7, <2>8
<1>2. Has(n)
  BY <1>1
<1>3. Below(n) = K
  BY <1>0
<1> HIDE DEF Below
<1> QED
  BY <1>2, <1>3

(***************************************************************************)
(* Types of the map merge: maps and frames are known by topic, places and  *)
(* trails by robot, and a trail has a bound.                               *)
(***************************************************************************)
MergeInv ==
  /\ DOMAIN maps \subseteq Merge!TopicSet
  /\ \A t \in DOMAIN maps : maps[t] \in Messages
  /\ DOMAIN frame \subseteq Merge!TopicSet
  /\ \A t \in DOMAIN frame : frame[t] \in Offsets
  /\ DOMAIN place \subseteq Robots
  /\ \A r \in DOMAIN place : place[r] \in Offsets
  /\ DOMAIN poses = Robots
  /\ \A r \in Robots : poses[r] \in Seq(Offsets) /\ Len(poses[r]) <= MaxPoses

\* The constants are what MergeAssumption says.
LEMMA MergeSizes ==
  /\ Resolution \in Nat \ {0} /\ ClearRadius \in Nat /\ PathDistance \in Nat
  /\ MaxPoses \in Nat \ {0} /\ Offsets \subseteq Int
  /\ \A m \in Messages : m.origin \in Int /\ m.resolution \in Nat /\ Len(m.data) \in Nat
<1>1. \A m \in Messages : m.data \in Seq(Unknown .. Full)
  BY MergeAssumption
<1>2. \A m \in Messages : Len(m.data) \in Nat
  BY <1>1
<1> QED
  BY <1>2, MergeAssumption DEF Length

\* Where the merged map begins and how wide it is are numbers, and all maps are
\* in between.
LEMMA Bounded ==
  ASSUME MergeInv, Merge!Known # {}
  PROVE  /\ Merge!MinX \in Int /\ Merge!MaxX \in Int /\ Merge!Width \in Int
         /\ \A t \in Merge!Known : Merge!MinX <= Merge!Begin(t) /\ Merge!End(t) <= Merge!MaxX
<1> DEFINE K == {k \in 1 .. Len(Topics) : Topics[k] \in Merge!Known}
           b == [k \in 1 .. Len(Topics) |-> IF k \in K THEN Merge!Begin(Topics[k]) ELSE 0]
           e == [k \in 1 .. Len(Topics) |-> IF k \in K THEN Merge!End(Topics[k]) ELSE 0]
<1>1. Len(Topics) \in Nat
  BY MergeAssumption
<1>2. \A t \in Merge!Known : Merge!Begin(t) \in Int /\ Merge!End(t) \in Int
  <2> SUFFICES ASSUME NEW t \in Merge!Known
               PROVE  Merge!Begin(t) \in Int /\ Merge!End(t) \in Int
    OBVIOUS
  <2>1. maps[t] \in Messages /\ frame[t] \in Int
    BY MergeSizes DEF MergeInv, Merge!Known
  <2>2. /\ maps[t].origin \in Int /\ maps[t].resolution \in Nat
        /\ Len(maps[t].data) \in Nat
    BY <2>1, MergeSizes
  <2>3. Len(maps[t].data) * maps[t].resolution \in Nat
    BY <2>2
  <2> QED
    BY <2>1, <2>2, <2>3 DEF Merge!Begin, Merge!End
<1>3. K \in SUBSET (1 .. Len(Topics)) /\ Merge!Known = {Topics[k] : k \in K}
  BY DEF Merge!Known, Merge!TopicSet
<1>4. K # {}
  BY <1>3
<1>5. b \in [1 .. Len(Topics) -> Int] /\ e \in [1 .. Len(Topics) -> Int]
  BY <1>2
<1>6. PICK i \in K : \A j \in K : b[i] <= b[j]
  <2> HIDE DEF K, b
  <2> QED
    BY <1>1, <1>3, <1>4, <1>5, Extremes
<1>7. PICK h \in K : \A j \in K : e[h] >= e[j]
  <2> HIDE DEF K, e
  <2> QED
    BY <1>1, <1>3, <1>4, <1>5, Extremes
<1>8. /\ Merge!MinX \in {Merge!Begin(t) : t \in Merge!Known}
      /\ \A y \in {Merge!Begin(t) : t \in Merge!Known} : Merge!MinX <= y
  <2> DEFINE S == {Merge!Begin(t) : t \in Merge!Known}
  <2>1. b[i] \in S /\ \A y \in S : b[i] <= y
    BY <1>3, <1>6
  <2> HIDE DEF S
  <2>2. \E x \in S : \A y \in S : x <= y
    BY <2>1
  <2>3. Merge!Least(S) \in S /\ \A y \in S : Merge!Least(S) <= y
    BY <2>2 DEF Merge!Least
  <2> QED
    BY <2>3 DEF Merge!MinX, S
<1>9. /\ Merge!MaxX \in {Merge!End(t) : t \in Merge!Known}
      /\ \A y \in {Merge!End(t) : t \in Merge!Known} : Merge!MaxX >= y
  <2> DEFINE S == {Merge!End(t) : t \in Merge!Known}
  <2>1. e[h] \in S /\ \A y \in S : e[h] >= y
    BY <1>3, <1>7
  <2> HIDE DEF S
  <2>2. \E x \in S : \A y \in S : x >= y
    BY <2>1
  <2>3. Merge!Greatest(S) \in S /\ \A y \in S : Merge!Greatest(S) >= y
    BY <2>2 DEF Merge!Greatest
  <2> QED
    BY <2>3 DEF Merge!MaxX, S
<1>10. Merge!MinX \in Int /\ Merge!MaxX \in Int
  BY <1>2, <1>8, <1>9
<1>11. (-(Merge!MaxX - Merge!MinX)) \div Resolution \in Int
  <2> DEFINE x == -(Merge!MaxX - Merge!MinX)
  <2>1. x \in Int
    BY <1>10
  <2> HIDE DEF x
  <2>2. x \div Resolution \in Int
    BY <2>1, MergeSizes, Floor
  <2> QED
    BY <2>2 DEF x
<1>12. Merge!Ceiling(Merge!MaxX - Merge!MinX, Resolution) \in Int
  <2> DEFINE x == (-(Merge!MaxX - Merge!MinX)) \div Resolution
  <2>1. x \in Int
    BY <1>11
  <2> HIDE DEF x
  <2>2. -x \in Int
    BY <2>1
  <2> QED
    BY <2>2 DEF x, Merge!Ceiling
<1>13. Merge!Width \in Int
  BY <1>12 DEF Merge!Width, Merge!Larger
<1>14. \A t \in Merge!Known : Merge!MinX <= Merge!Begin(t) /\ Merge!End(t) <= Merge!MaxX
  BY <1>2, <1>8, <1>9, <1>10
<1> QED
  BY <1>10, <1>13, <1>14

-----------------------------------------------------------------------------
(* Trails: lines without gaps, and poses that follow.                      *)

\* clear_line takes at least one step, and none longer than half a radius, or
\* than a cell if that is more.
LEMMA StepsBound ==
  ASSUME NEW x \in Int, NEW y \in Int
  PROVE  /\ Merge!Steps(x, y) \in Nat \ {0}
         /\ 2 * Merge!Abs(y - x) <= Merge!Steps(x, y) * Larger(2 * Resolution, ClearRadius)
<1> DEFINE l == Larger(2 * Resolution, ClearRadius)
           d == 2 * Merge!Abs(y - x)
           q == (-d) \div l
<1>1. l \in Nat \ {0} /\ Merge!Larger(2 * Resolution, ClearRadius) = l
  BY MergeSizes DEF Larger, Merge!Larger
<1>2. d \in Nat
  BY DEF Merge!Abs
<1>3. Merge!Steps(x, y) = IF 1 >= -q THEN 1 ELSE -q
  BY <1>1 DEF Merge!Steps, Merge!Ceiling, Merge!Larger
<1> HIDE DEF l, d
<1>4. q \in Int /\ q * l <= -d
  <2>1. -d \in Int
    BY <1>2
  <2> QED
    BY <1>1, <2>1, Floor
<1> HIDE DEF q
<1>5. d <= (-q) * l
  BY <1>1, <1>2, <1>4
<1>6. Merge!Steps(x, y) \in Nat \ {0} /\ -q <= Merge!Steps(x, y)
  BY <1>3, <1>4
<1>7. (-q) * l <= Merge!Steps(x, y) * l
  <2> DEFINE s == Merge!Steps(x, y)
  <2>1. s \in Nat /\ s + q \in Nat
    BY <1>4, <1>6
  <2> HIDE DEF s
  <2>2. (s + q) * l >= 0
    BY <1>1, <2>1
  <2>3. (-q) * l <= s * l
    BY <1>1, <1>4, <2>1, <2>2
  <2> QED
    BY <2>3 DEF s
<1>8. (-q) * l \in Int /\ Merge!Steps(x, y) * l \in Int
  BY <1>1, <1>4, <1>6
<1> QED
  BY <1>2, <1>5, <1>6, <1>7, <1>8 DEF l, d

\* clear_line clears every cell between the cells of its ends.
LEMMA LineCovers ==
  ASSUME Merge!MinX \in Int, Merge!Width \in Int, NEW x \in Int, NEW y \in Int,
         NEW c \in Merge!Between(x, y)
  PROVE  c \in Merge!Line(x, y)
<1> DEFINE n == Merge!Steps(x, y)
           o == Merge!MinX
           a == (x - o) * n
           d == y - x
           g == [k \in 0 .. n |-> (a + d * k) \div (n * Resolution)]
<1>1. n \in Nat \ {0} /\ 2 * Merge!Abs(d) <= n * Larger(2 * Resolution, ClearRadius)
  BY StepsBound
<1>2. Resolution \in Nat \ {0} /\ ClearRadius \in Nat
  BY MergeSizes
<1>3. c \in Merge!Cells /\ c \in Int
  BY DEF Merge!Between, Merge!Cells
<1>4. /\ Merge!CellAt(x) = (x - o) \div Resolution
      /\ Merge!CellAt(y) = (y - o) \div Resolution
  BY DEF Merge!CellAt
<1>5. o \in Int
  OBVIOUS
<1>6. x - o \in Int /\ y - o \in Int /\ d \in Int
  BY <1>5
<1>7. Merge!CellAt(x) \in Int /\ Merge!CellAt(y) \in Int
  BY <1>2, <1>4, <1>6, Floor
<1>8. \/ Merge!CellAt(x) <= c /\ c <= Merge!CellAt(y)
      \/ Merge!CellAt(y) <= c /\ c <= Merge!CellAt(x)
  BY <1>7 DEF Merge!Between, Merge!Smaller, Merge!Larger
<1> HIDE DEF n, o
<1>9. a \in Int /\ a + d * 0 = (x - o) * n /\ a + d * n = (y - o) * n
  BY <1>1, <1>5
<1>10. 0 \in 0 .. n /\ n \in 0 .. n
  BY <1>1
<1>11. g[0] = Merge!CellAt(x) /\ g[n] = Merge!CellAt(y)
  <2>1. g[0] = ((x - o) * n) \div (n * Resolution)
    BY <1>9, <1>10
  <2>2. g[n] = ((y - o) * n) \div (n * Resolution)
    BY <1>9, <1>10
  <2> QED
    BY <1>1, <1>2, <1>4, <1>6, <2>1, <2>2, FloorCancels
<1>12. \A k \in 0 .. n : g[k] = (a + d * k) \div (n * Resolution)
  OBVIOUS
<1>13. PICK k \in 0 .. n : Merge!Abs(c - g[k]) * Resolution <= ClearRadius
  <2> HIDE DEF g, a, d
  <2>1. \/ g[0] <= c /\ c <= g[n]
        \/ g[n] <= c /\ c <= g[0]
    BY <1>8, <1>11
  <2>2. Strides(g, a, d, n, Resolution, ClearRadius)
    BY <1>1, <1>2, <1>6, <1>9, <1>12 DEF Strides
  <2> QED
    BY <1>3, <2>1, <2>2, StepsCover
<1>14. a + d * k = (x * n + (y - x) * k) - n * o
  BY <1>1, <1>5
<1>15. c \in Merge!Circle(x * n + (y - x) * k, n, ClearRadius)
  BY <1>3, <1>12, <1>13, <1>14 DEF Merge!Circle, o
<1> QED
  BY <1>15 DEF Merge!Line, n

\* A trail's new pose is where the robot is, or was a short while ago.
LEMMA MovedFollows ==
  ASSUME MergeInv, NEW r \in Robots
  PROVE  /\ Merge!Moved(r) \in Seq(Offsets)
         /\ Len(Merge!Moved(r)) <= MaxPoses
         /\ r \in DOMAIN place =>
              /\ Len(Merge!Moved(r)) \in 1 .. MaxPoses
              /\ LET d == Merge!Abs(place[r] - Merge!Last(Merge!Moved(r)))
                 IN  d = 0 \/ d < PathDistance
<1> DEFINE path == poses[r]
           more == Append(path, place[r])
<1>1. path \in Seq(Offsets) /\ Len(path) \in Nat /\ Len(path) <= MaxPoses
  BY DEF MergeInv
<1>2. CASE \/ r \notin DOMAIN place
           \/ path # <<>> /\ Merge!Abs(place[r] - Merge!Last(path)) < PathDistance
  <2>1. Merge!Moved(r) = path
    BY <1>2 DEF Merge!Moved
  <2>2. r \in DOMAIN place => Len(path) \in 1 .. MaxPoses
    BY <1>1, <1>2, MergeSizes
  <2> QED
    BY <1>1, <1>2, <2>1, <2>2
<1>3. CASE ~ \/ r \notin DOMAIN place
             \/ path # <<>> /\ Merge!Abs(place[r] - Merge!Last(path)) < PathDistance
  <2>1. Merge!Moved(r) = Merge!LastOf(more, MaxPoses)
    BY <1>3 DEF Merge!Moved
  <2>2. place[r] \in Offsets /\ place[r] \in Int
    BY <1>3, MergeSizes DEF MergeInv
  <2>3. /\ more \in Seq(Offsets) /\ Len(more) = Len(path) + 1
        /\ more[Len(more)] = place[r]
    BY <1>1, <2>2
  <2> HIDE DEF more
  <2>4. CASE Len(more) > MaxPoses
    <3> DEFINE rest == SubSeq(more, Len(more) - MaxPoses + 1, Len(more))
    <3>1. Len(more) \in Nat /\ Len(more) - MaxPoses + 1 \in 1 .. Len(more)
      BY <1>1, <2>3, <2>4, MergeSizes
    <3>2. /\ rest \in Seq(Offsets) /\ Len(rest) = MaxPoses
          /\ rest[MaxPoses] = more[Len(more)]
      BY <1>1, <2>3, <3>1, MergeSizes
    <3>3. Merge!Moved(r) = rest
      BY <2>1, <2>4 DEF Merge!LastOf
    <3> HIDE DEF rest
    <3>4. Merge!Last(rest) = place[r]
      BY <2>3, <3>2 DEF Merge!Last
    <3> QED
      BY <2>2, <3>2, <3>3, <3>4, MergeSizes DEF Merge!Abs
  <2>5. CASE ~ Len(more) > MaxPoses
    <3>1. Merge!Moved(r) = more
      BY <2>1, <2>5 DEF Merge!LastOf
    <3>2. Merge!Last(more) = place[r]
      BY <2>3 DEF Merge!Last
    <3> QED
      BY <1>1, <2>2, <2>3, <2>5, <3>1, <3>2, MergeSizes DEF Merge!Abs
  <2> QED
    BY <2>4, <2>5
<1> QED
  BY <1>2, <1>3

LEMMA InitMerge == Merge!Init => MergeInv
<1> SUFFICES ASSUME Merge!Init PROVE MergeInv
  OBVIOUS
<1>1. DOMAIN maps = {} /\ DOMAIN frame = {} /\ DOMAIN place = {}
  BY DEF Merge!Init
<1>2. DOMAIN poses = Robots
  BY DEF Merge!Init
<1>3. ASSUME NEW r \in Robots PROVE poses[r] \in Seq(Offsets) /\ Len(poses[r]) <= MaxPoses
  <2>1. poses[r] \in {<<>>} \cup {<<x>> : x \in Offsets}
    BY DEF Merge!Init
  <2>2. CASE poses[r] = <<>>
    BY <2>2, MergeSizes
  <2>3. ASSUME NEW x \in Offsets, poses[r] = <<x>>
        PROVE  poses[r] \in Seq(Offsets) /\ Len(poses[r]) <= MaxPoses
    <3>1. <<x>> \in Seq(Offsets) /\ Len(<<x>>) = 1
      OBVIOUS
    <3> QED
      BY <2>3, <3>1, MergeSizes
  <2> QED
    BY <2>1, <2>2, <2>3
<1> QED
  BY <1>1, <1>2, <1>3 DEF MergeInv

LEMMA MergeStep == MergeInv /\ [Merge!Next]_(Merge!vars) => MergeInv'
<1> SUFFICES ASSUME MergeInv, [Merge!Next]_(Merge!vars) PROVE MergeInv'
  OBVIOUS
<1>1. CASE Merge!MapCallback
  <2>1. PICK t \in Merge!TopicSet, m \in Messages : maps' = Merge!With(maps, t, m)
    BY <1>1 DEF Merge!MapCallback
  <2>2. /\ DOMAIN maps' = DOMAIN maps \cup {t}
        /\ \A u \in DOMAIN maps' : maps'[u] \in Messages
    BY <2>1 DEF Merge!With, MergeInv
  <2> QED
    BY <1>1, <2>1, <2>2 DEF Merge!MapCallback, MergeInv, Merge!TopicSet
<1>2. CASE Merge!HearTransform
  <2>1. PICK x \in Offsets :
           \/ \E t \in Merge!TopicSet : frame' = Merge!With(frame, t, x) /\ UNCHANGED place
           \/ \E r \in Robots : place' = Merge!With(place, r, x) /\ UNCHANGED frame
    BY <1>2 DEF Merge!HearTransform
  <2>2. ASSUME NEW t \in Merge!TopicSet, frame' = Merge!With(frame, t, x), UNCHANGED place
        PROVE  MergeInv'
    <3>1. /\ DOMAIN frame' = DOMAIN frame \cup {t}
          /\ \A u \in DOMAIN frame' : frame'[u] \in Offsets
      BY <2>2 DEF Merge!With, MergeInv
    <3> QED
      BY <1>2, <2>2, <3>1 DEF Merge!HearTransform, MergeInv, Merge!TopicSet
  <2>3. ASSUME NEW r \in Robots, place' = Merge!With(place, r, x), UNCHANGED frame
        PROVE  MergeInv'
    <3>1. /\ DOMAIN place' = DOMAIN place \cup {r}
          /\ \A u \in DOMAIN place' : place'[u] \in Offsets
      BY <2>3 DEF Merge!With, MergeInv
    <3> QED
      BY <1>2, <2>3, <3>1 DEF Merge!HearTransform, MergeInv, Merge!TopicSet
  <2> QED
    BY <2>1, <2>2, <2>3
<1>3. CASE Merge!PublishMergedMap
  <2>1. poses' = [r \in Robots |-> Merge!Moved(r)] /\ UNCHANGED <<maps, frame, place>>
    BY <1>3 DEF Merge!PublishMergedMap
  <2>2. \A r \in Robots : poses'[r] \in Seq(Offsets) /\ Len(poses'[r]) <= MaxPoses
    BY <2>1, MovedFollows
  <2> QED
    BY <2>1, <2>2 DEF MergeInv, Merge!TopicSet
<1>4. CASE UNCHANGED Merge!vars
  BY <1>4 DEF Merge!vars, MergeInv, Merge!TopicSet
<1> QED
  BY <1>1, <1>2, <1>3, <1>4 DEF Merge!Next

\* A behaviour of the three nodes is one of the map merge.
LEMMA MergeSteps == MCSpec => Merge!Spec
<1>1. MCInit => Merge!Init
  BY DEF MCInit
<1>2. [Keyboard(Next) \/ Sampling(Imu!Next) \/ Merging]_mcVars => [Merge!Next]_(Merge!vars)
  BY DEF Keyboard, Sampling, Merging, mcVars, mergeVars, Merge!vars
<1> QED
  BY <1>1, <1>2, PTL DEF MCSpec, Merge!Spec

(***************************************************************************)
(* Where a robot has been, and all the way between two of its poses, the   *)
(* map that publish_merged_map publishes is free of obstacles, for poses   *)
(* any distance apart, cells of any length and any radius; and a trail has *)
(* a bound and ends where its robot is.                                    *)
(***************************************************************************)
THEOREM TrailIsClear == MCSpec => Trail
<1>1. Merge!Init => MergeInv
  BY InitMerge
<1>2. MergeInv /\ [Merge!Next]_(Merge!vars) => MergeInv'
  BY MergeStep
<1>3. ASSUME MergeInv, Merge!PublishMergedMap PROVE Merge!TrailFollows
  <2>1. \A r \in Robots : poses'[r] = Merge!Moved(r)
    BY <1>3 DEF Merge!PublishMergedMap
  <2>2. DOMAIN place \subseteq Robots
    BY <1>3 DEF MergeInv
  <2> QED
    BY <1>3, <2>1, <2>2, MovedFollows DEF Merge!TrailFollows
<1>4. ASSUME MergeInv, MergeInv', Merge!Published, ClearRadius > 0,
             NEW r \in Robots, NEW k \in 1 .. Len(poses'[r]) - 1,
             NEW c \in Merge!Between(poses'[r][k], poses'[r][k + 1])
      PROVE  Merge!Data[c] = 0
  <2>1. Merge!MinX \in Int /\ Merge!Width \in Int
    BY <1>4, Bounded DEF Merge!Published
  <2>2. poses'[r] \in Seq(Offsets) /\ Len(poses'[r]) \in Nat
    BY <1>4 DEF MergeInv
  <2>3. k \in 1 .. Len(poses'[r]) /\ k + 1 \in 1 .. Len(poses'[r])
    BY <2>2
  <2>4. poses'[r][k] \in Int /\ poses'[r][k + 1] \in Int
    <3> DEFINE path == poses'[r]
    <3> HIDE DEF path
    <3>1. path \in Seq(Offsets) /\ k \in 1 .. Len(path) /\ k + 1 \in 1 .. Len(path)
      BY <2>2, <2>3 DEF path
    <3>2. path[k] \in Offsets /\ path[k + 1] \in Offsets
      BY <3>1
    <3> QED
      BY <3>2, MergeSizes DEF path
  <2>5. c \in Merge!Line(poses'[r][k], poses'[r][k + 1])
    BY <2>1, <2>4, LineCovers
  <2>6. c \in Merge!Trajectory(poses'[r])
    BY <2>5 DEF Merge!Trajectory
  <2>7. c \in Merge!Cleared(poses')
    BY <1>4, <2>6 DEF Merge!Cleared
  <2>8. c \in Merge!Cells
    BY DEF Merge!Between
  <2>9. Merge!Data = [x \in Merge!Cells |->
                        IF x \in Merge!Cleared(poses') THEN 0 ELSE Merge!Overlaid[x]]
    BY <1>4 DEF Merge!Data, Merge!Published, Merge!PublishMergedMap
  <2> QED
    BY <2>7, <2>8, <2>9
<1>5. MergeInv /\ MergeInv' => Merge!TrailIsFree
  BY <1>4 DEF Merge!TrailIsFree
<1>6. MergeInv => Merge!TrailFollows
  <2>1. ~ Merge!PublishMergedMap => Merge!TrailFollows
    BY DEF Merge!TrailFollows
  <2> QED
    BY <1>3, <2>1
<1>7. MergeInv /\ MergeInv' => [Merge!TrailIsFree /\ Merge!TrailFollows]_(Merge!vars)
  BY <1>5, <1>6
<1> QED
  BY <1>1, <1>2, <1>7, MergeSteps, PTL DEF Merge!Spec, Trail, Merge!Trail

-----------------------------------------------------------------------------
(* Overlays: the largest value wins.                                       *)

\* What holds of zero, and of every natural up to n with the one before, holds
\* up to n.
LEMMA StepwiseUpTo ==
  ASSUME NEW n \in Nat, NEW P, 0 \in P, \A i \in 0 .. n - 1 : i \in P => i + 1 \in P
  PROVE  \A i \in 0 .. n : i \in P
<1> DEFINE T == {k \in Nat : k <= n /\ k \notin P}
<1> SUFFICES ASSUME T # {} PROVE FALSE
  OBVIOUS
<1>1. PICK k \in T : \A y \in T : k <= y
  <2>1. T \in SUBSET Nat
    OBVIOUS
  <2> HIDE DEF T
  <2> QED
    BY <2>1, LeastNatural
<1>2. k \in Nat /\ k <= n /\ k # 0 /\ k - 1 \notin T
  BY <1>1
<1>3. k - 1 \in 0 .. n - 1 /\ k - 1 \in P /\ (k - 1) + 1 = k
  BY <1>2
<1> QED
  BY <1>1, <1>3

(***************************************************************************)
(* A loop, n steps from a, whose k-th step takes v to F[k][v].             *)
(***************************************************************************)
Loops(g, n, a, F) ==
  /\ g[0] = a
  /\ \A k \in 1 .. n : g[k] = F[k][g[k - 1]]

LEMMA LoopExists ==
  ASSUME NEW n \in Nat, NEW V, NEW a \in V, NEW F \in [1 .. n -> [V -> V]]
  PROVE  \E g \in [0 .. n -> V] : Loops(g, n, a, F)
<1> DEFINE P == {m \in Nat : \E g \in [0 .. m -> V] : Loops(g, m, a, F)}
<1>1. 0 \in P
  <2> DEFINE g == [i \in 0 .. 0 |-> a]
  <2>1. g \in [0 .. 0 -> V] /\ g[0] = a /\ 1 .. 0 = {}
    OBVIOUS
  <2> HIDE DEF g
  <2> QED
    BY <2>1 DEF Loops
<1>2. ASSUME NEW m \in 0 .. n - 1, m \in P PROVE m + 1 \in P
  <2>1. PICK g \in [0 .. m -> V] : Loops(g, m, a, F)
    BY <1>2
  <2>2. m \in Nat /\ m + 1 \in 1 .. n /\ m \in 0 .. m /\ m + 1 \notin 0 .. m
    OBVIOUS
  <2>3. g[m] \in V /\ F[m + 1] \in [V -> V]
    BY <2>2
  <2>4. F[m + 1][g[m]] \in V
    BY <2>3
  <2> DEFINE h == [i \in 0 .. m + 1 |-> IF i = m + 1 THEN F[m + 1][g[m]] ELSE g[i]]
  <2>5. \A i \in 0 .. m + 1 : i # m + 1 => i \in 0 .. m
    OBVIOUS
  <2>6. h \in [0 .. m + 1 -> V]
    BY <2>4, <2>5
  <2>7. h[m + 1] = F[m + 1][g[m]] /\ \A i \in 0 .. m : h[i] = g[i]
    <3>1. m + 1 \in 0 .. m + 1 /\ \A i \in 0 .. m : i \in 0 .. m + 1 /\ i # m + 1
      OBVIOUS
    <3> QED
      BY <3>1
  <2> HIDE DEF h
  <2>8. h[0] = a
    <3>1. 0 \in 0 .. m
      BY <2>2
    <3> QED
      BY <2>1, <2>7, <3>1 DEF Loops
  <2>9. ASSUME NEW k \in 1 .. m + 1 PROVE h[k] = F[k][h[k - 1]]
    <3>1. k - 1 \in 0 .. m /\ (k # m + 1 => k \in 1 .. m /\ k \in 0 .. m)
      OBVIOUS
    <3>2. h[k - 1] = g[k - 1]
      BY <2>7, <3>1
    <3>3. CASE k = m + 1
      <4>1. k - 1 = m
        BY <3>3
      <4> QED
        BY <2>7, <3>2, <3>3, <4>1
    <3>4. CASE k # m + 1
      BY <2>1, <2>7, <3>1, <3>2, <3>4 DEF Loops
    <3> QED
      BY <3>3, <3>4
  <2>10. Loops(h, m + 1, a, F)
    BY <2>8, <2>9 DEF Loops
  <2> QED
    BY <2>6, <2>10
<1> HIDE DEF P
<1>3. n \in P
  <2>1. n \in 0 .. n
    OBVIOUS
  <2> QED
    BY <1>1, <1>2, <2>1, StepwiseUpTo
<1> QED
  BY <1>3 DEF P

(***************************************************************************)
(* What a loop comes to that keeps a value or takes a larger one of what   *)
(* its step offers, and takes one that is at least what is offered.        *)
(***************************************************************************)
LEMMA LoopTakesLargest ==
  ASSUME NEW n \in Nat, NEW g, NEW A, g[0] \in Int,
         \A k \in 1 .. n : \A x \in A[k] : x \in Int,
         \A k \in 1 .. n : g[k - 1] \in Int =>
            /\ g[k] = g[k - 1] \/ g[k] \in A[k]
            /\ g[k] >= g[k - 1]
            /\ \A x \in A[k] : g[k] >= x
  PROVE  /\ g[n] = g[0] \/ \E k \in 1 .. n : g[n] \in A[k]
         /\ g[n] >= g[0]
         /\ \A k \in 1 .. n : \A x \in A[k] : g[n] >= x
<1> DEFINE P == {i \in Nat :
                   /\ g[i] \in Int
                   /\ g[i] = g[0] \/ \E k \in 1 .. i : g[i] \in A[k]
                   /\ g[i] >= g[0]
                   /\ \A k \in 1 .. i : \A x \in A[k] : g[i] >= x}
<1>1. 0 \in P
  <2>1. 1 .. 0 = {}
    OBVIOUS
  <2> QED
    BY <2>1
<1>2. ASSUME NEW i \in 0 .. n - 1, i \in P PROVE i + 1 \in P
  <2>1. /\ i + 1 \in 1 .. n /\ (i + 1) - 1 = i /\ i + 1 \in Nat /\ i + 1 \in 1 .. i + 1
        /\ \A k \in 1 .. i + 1 : k \in 1 .. i \/ k = i + 1
        /\ \A k \in 1 .. i : k \in 1 .. i + 1 /\ k \in 1 .. n
    OBVIOUS
  <2>2. /\ g[i] \in Int
        /\ g[i] = g[0] \/ \E k \in 1 .. i : g[i] \in A[k]
        /\ g[i] >= g[0]
        /\ \A k \in 1 .. i : \A x \in A[k] : g[i] >= x
    BY <1>2
  <2>3. /\ g[i + 1] = g[i] \/ g[i + 1] \in A[i + 1]
        /\ g[i + 1] >= g[i]
        /\ \A x \in A[i + 1] : g[i + 1] >= x
    BY <2>1, <2>2
  <2>4. g[i + 1] \in Int
    BY <2>1, <2>2, <2>3
  <2>5. g[i + 1] = g[0] \/ \E k \in 1 .. i + 1 : g[i + 1] \in A[k]
    BY <2>1, <2>2, <2>3
  <2>6. g[i + 1] >= g[0]
    BY <2>2, <2>3, <2>4
  <2>7. ASSUME NEW k \in 1 .. i + 1, NEW x \in A[k] PROVE g[i + 1] >= x
    <3>1. CASE k = i + 1
      BY <2>3, <2>7, <3>1
    <3>2. CASE k \in 1 .. i
      <4>1. x \in Int /\ g[i] >= x
        BY <2>1, <2>2, <2>7, <3>2
      <4> QED
        BY <2>2, <2>3, <2>4, <4>1
    <3> QED
      BY <2>1, <3>1, <3>2
  <2> QED
    BY <2>1, <2>4, <2>5, <2>6, <2>7
<1> HIDE DEF P
<1>3. n \in P
  <2>1. n \in 0 .. n
    OBVIOUS
  <2> QED
    BY <1>1, <1>2, <2>1, StepwiseUpTo
<1> QED
  BY <1>3 DEF P

\* Steps of the two loops: cell j of a map that covers c, and one map.
Offered(t, k, c) ==
  IF Merge!Covers(t, k, c) THEN {Normalized(maps[t].data[k])} ELSE {}

\* A map that has arrived is of numbers.
LEMMA MapIsOfNumbers ==
  ASSUME MergeInv, NEW t \in DOMAIN maps
  PROVE  /\ maps[t].origin \in Int
         /\ maps[t].resolution \in Nat \ {0}
         /\ Len(maps[t].data) \in Nat
         /\ \A k \in 1 .. Len(maps[t].data) : maps[t].data[k] \in Int
<1> DEFINE m == maps[t]
           data == m.data
<1>1. m \in Messages
  BY DEF MergeInv
<1> HIDE DEF m
<1>2. m.origin \in Int /\ m.resolution \in Nat \ {0} /\ data \in Seq(Unknown .. Full)
  BY <1>1, MergeAssumption DEF Length
<1> HIDE DEF data
<1>3. Len(data) \in Nat /\ \A k \in 1 .. Len(data) : data[k] \in Unknown .. Full
  <2> DEFINE S == Unknown .. Full
  <2>1. data \in Seq(S)
    BY <1>2
  <2> HIDE DEF S
  <2>2. Len(data) \in Nat /\ \A k \in 1 .. Len(data) : data[k] \in S
    BY <2>1
  <2> QED
    BY <2>2 DEF S
<1>4. \A x \in Unknown .. Full : x \in Int
  BY DEF Unknown, Full
<1> QED
  BY <1>2, <1>3, <1>4 DEF m, data

\* The recursion of OverlayMap.
Overlays(g, t, c, before) ==
  g = [k \in 0 .. Len(maps[t].data) |->
         IF k = 0 THEN before
         ELSE IF Merge!Covers(t, k, c)
           THEN Merge!Merged(g[k - 1], Merge!Normalized(maps[t].data[k]))
         ELSE g[k - 1]]

LEMMA SameCells ==
  \A a, b : Merge!Merged(a, b) = Merged(a, b) /\ Merge!Normalized(a) = Normalized(a)
  BY DEF Merge!Merged, Merged, Merge!Normalized, Normalized, Merge!Larger, Larger,
         Merge!Smaller, Smaller, Merge!Full, Full

LEMMA OverlaysExist ==
  ASSUME MergeInv, NEW t \in DOMAIN maps, NEW c, NEW before \in CellValues
  PROVE  \E g : Overlays(g, t, c, before)
<1> DEFINE n == Len(maps[t].data)
           Laid(k, v) == IF Merge!Covers(t, k, c)
                           THEN Merge!Merged(v, Merge!Normalized(maps[t].data[k]))
                           ELSE v
           F == [k \in 1 .. n |-> [v \in CellValues |-> Laid(k, v)]]
<1>1. n \in Nat /\ \A k \in 1 .. n : maps[t].data[k] \in Int
  BY MapIsOfNumbers
<1>2. \A k \in 1 .. n : \A v \in CellValues : Laid(k, v) \in CellValues
  BY <1>1, SameCells, NormalizedIsNormal, MergedIsLarger DEF CellValues
<1> HIDE DEF n, Laid
<1>3. F \in [1 .. n -> [CellValues -> CellValues]]
  BY <1>2
<1>4. \A k \in 1 .. n : \A v \in CellValues : F[k][v] = Laid(k, v)
  OBVIOUS
<1> HIDE DEF F
<1>5. PICK g \in [0 .. n -> CellValues] : Loops(g, n, before, F)
  BY <1>1, <1>3, LoopExists
<1>6. g = [k \in 0 .. n |-> IF k = 0 THEN before ELSE Laid(k, g[k - 1])]
  <2>1. ASSUME NEW k \in 0 .. n
        PROVE  g[k] = IF k = 0 THEN before ELSE Laid(k, g[k - 1])
    <3>1. CASE k = 0
      BY <1>5, <3>1 DEF Loops
    <3>2. CASE k # 0
      <4>1. k \in 1 .. n /\ k - 1 \in 0 .. n
        BY <1>1, <3>2
      <4>2. g[k - 1] \in CellValues /\ g[k] = F[k][g[k - 1]]
        BY <1>5, <4>1 DEF Loops
      <4> QED
        BY <1>4, <3>2, <4>1, <4>2
    <3> QED
      BY <3>1, <3>2
  <2> QED
    BY <2>1
<1> QED
  BY <1>6 DEF Overlays, n, Laid

(***************************************************************************)
(* overlay_map leaves in a cell the largest of what was there and of what  *)
(* the known cells of the map that cover it have.                          *)
(***************************************************************************)
LEMMA OverlayTakesLargest ==
  ASSUME MergeInv, NEW t \in DOMAIN maps, NEW c, NEW before \in CellValues
  PROVE  LET after == Merge!OverlayMap(t, c, before)
             cells == 1 .. Len(maps[t].data)
         IN  /\ after \in CellValues
             /\ after = before \/ \E k \in cells : after \in Offered(t, k, c)
             /\ after >= before
             /\ \A k \in cells : \A x \in Offered(t, k, c) : after >= x
<1> DEFINE n == Len(maps[t].data)
           g == CHOOSE f : Overlays(f, t, c, before)
           A == [k \in 1 .. n |-> Offered(t, k, c)]
<1>1. n \in Nat /\ \A k \in 1 .. n : maps[t].data[k] \in Int
  BY MapIsOfNumbers
<1>2. Overlays(g, t, c, before)
  BY OverlaysExist
<1>3. Merge!OverlayMap(t, c, before) = g[n]
  BY DEF Merge!OverlayMap, Overlays
<1> HIDE DEF g
<1>4. /\ g[0] = before
      /\ \A k \in 1 .. n : g[k] = IF Merge!Covers(t, k, c)
                                   THEN Merged(g[k - 1], Normalized(maps[t].data[k]))
                                   ELSE g[k - 1]
  <2> DEFINE R(k) == IF k = 0 THEN before
                     ELSE IF Merge!Covers(t, k, c)
                       THEN Merge!Merged(g[k - 1], Merge!Normalized(maps[t].data[k]))
                     ELSE g[k - 1]
  <2>1. g = [k \in 0 .. n |-> R(k)]
    BY <1>2 DEF Overlays
  <2> HIDE DEF R, n
  <2>2. \A k \in 0 .. n : g[k] = R(k)
    BY <2>1
  <2>3. 0 \in 0 .. n /\ \A k \in 1 .. n : k \in 0 .. n /\ k # 0
    BY <1>1
  <2> QED
    BY <2>2, <2>3, SameCells DEF R
<1> DEFINE v(k) == Normalized(maps[t].data[k])
<1>5. \A k \in 1 .. n : v(k) \in NormalValues
  BY <1>1, NormalizedIsNormal
<1>6. /\ \A k \in 1 .. n : A[k] = IF Merge!Covers(t, k, c) THEN {v(k)} ELSE {}
      /\ \A k \in 1 .. n : A[k] = Offered(t, k, c)
  BY DEF Offered
<1>7. \A k \in 1 .. n : g[k] = IF Merge!Covers(t, k, c) THEN Merged(g[k - 1], v(k))
                                                         ELSE g[k - 1]
  BY <1>4
<1> HIDE DEF v, A, n
<1>8. \A i \in 0 .. n : g[i] \in CellValues
  <2> DEFINE P == {i \in Nat : g[i] \in CellValues}
  <2>1. 0 \in P
    BY <1>4
  <2>2. ASSUME NEW i \in 0 .. n - 1, i \in P PROVE i + 1 \in P
    <3>1. i + 1 \in 1 .. n /\ (i + 1) - 1 = i /\ i + 1 \in Nat /\ g[i] \in CellValues
      BY <1>1, <2>2
    <3>2. g[i + 1] = g[i] \/ g[i + 1] = Merged(g[i], v(i + 1))
      BY <1>7, <3>1
    <3>3. Merged(g[i], v(i + 1)) \in CellValues
      BY <1>5, <3>1, MergedIsLarger DEF CellValues
    <3> QED
      BY <3>1, <3>2, <3>3
  <2> HIDE DEF P
  <2>3. \A i \in 0 .. n : i \in P
    BY <1>1, <2>1, <2>2, StepwiseUpTo
  <2> QED
    BY <2>3 DEF P
<1>9. \A x \in CellValues : x \in Int
  BY ThresholdsAssumption DEF CellValues, NormalValues, Full, Unknown
<1>10. NormalValues \subseteq CellValues
  BY DEF CellValues
<1>11. ASSUME NEW k \in 1 .. n
       PROVE  /\ g[k] = g[k - 1] \/ g[k] \in A[k]
              /\ g[k] >= g[k - 1]
              /\ \A x \in A[k] : g[k] >= x
  <2>1. k - 1 \in 0 .. n
    BY <1>1
  <2>2. g[k - 1] \in CellValues /\ g[k - 1] \in Int /\ v(k) \in NormalValues /\ v(k) \in Int
    BY <1>5, <1>8, <1>9, <1>10, <2>1
  <2>3. CASE Merge!Covers(t, k, c)
    <3>1. A[k] = {v(k)}
      BY <1>6, <2>3
    <3>2. g[k] = Larger(g[k - 1], v(k))
      BY <1>7, <2>2, <2>3, MergedIsLarger
    <3> QED
      BY <2>2, <3>1, <3>2 DEF Larger
  <2>4. CASE ~ Merge!Covers(t, k, c)
    <3>1. A[k] = {} /\ g[k] = g[k - 1]
      BY <1>6, <1>7, <2>4
    <3> QED
      BY <2>2, <3>1
  <2> QED
    BY <2>3, <2>4
<1>12. \A k \in 1 .. n : \A x \in A[k] : x \in Int
  BY <1>5, <1>6, <1>9, <1>10
<1>13. /\ g[n] = g[0] \/ \E k \in 1 .. n : g[n] \in A[k]
       /\ g[n] >= g[0]
       /\ \A k \in 1 .. n : \A x \in A[k] : g[n] >= x
  <2>1. g[0] \in Int
    BY <1>4, <1>9
  <2> QED
    BY <1>1, <1>11, <1>12, <2>1, LoopTakesLargest
<1>14. g[n] \in CellValues
  BY <1>1, <1>8
<1> QED
  BY <1>3, <1>4, <1>6, <1>13, <1>14 DEF n

\* What the cells of a map offer to cell c.
OfferedBy(t, c) == UNION {Offered(t, k, c) : k \in 1 .. Len(maps[t].data)}

\* The recursion of Overlaid, for one cell.
OverlaysAll(g, c) ==
  g = [k \in 0 .. Len(Topics) |->
         IF k = 0 THEN Unknown
         ELSE IF Topics[k] \in Merge!Known THEN Merge!OverlayMap(Topics[k], c, g[k - 1])
         ELSE g[k - 1]]

LEMMA CellsAreNumbers ==
  /\ \A x \in CellValues : x \in Int
  /\ NormalValues \subseteq CellValues
  /\ Unknown \in CellValues
  /\ \A x \in NormalValues : x > Unknown
  BY ThresholdsAssumption DEF CellValues, NormalValues, Full, Unknown

LEMMA OfferedIsNormal ==
  ASSUME MergeInv, NEW t \in Merge!Known, NEW c, NEW x \in OfferedBy(t, c)
  PROVE  x \in NormalValues
<1>1. PICK k \in 1 .. Len(maps[t].data) : x \in Offered(t, k, c)
  BY DEF OfferedBy
<1>2. maps[t].data[k] \in Int
  BY MapIsOfNumbers DEF Merge!Known
<1>3. x = Normalized(maps[t].data[k])
  BY <1>1 DEF Offered
<1> QED
  BY <1>2, <1>3, NormalizedIsNormal

LEMMA OverlayOfKnown ==
  ASSUME MergeInv, NEW t \in Merge!Known, NEW c, NEW before \in CellValues
  PROVE  LET after == Merge!OverlayMap(t, c, before)
         IN  /\ after \in CellValues
             /\ after = before \/ after \in OfferedBy(t, c)
             /\ after >= before
             /\ \A x \in OfferedBy(t, c) : after >= x
<1> DEFINE after == Merge!OverlayMap(t, c, before)
           cells == 1 .. Len(maps[t].data)
<1>1. t \in DOMAIN maps
  BY DEF Merge!Known
<1>2. /\ after \in CellValues
      /\ after = before \/ \E k \in cells : after \in Offered(t, k, c)
      /\ after >= before
      /\ \A k \in cells : \A x \in Offered(t, k, c) : after >= x
  BY <1>1, OverlayTakesLargest
<1> HIDE DEF after
<1>3. after = before \/ after \in OfferedBy(t, c)
  BY <1>2 DEF OfferedBy
<1>4. \A x \in OfferedBy(t, c) : after >= x
  BY <1>2 DEF OfferedBy
<1> QED
  BY <1>2, <1>3, <1>4 DEF after

LEMMA OverlaysAllExist ==
  ASSUME MergeInv, NEW c
  PROVE  \E g : OverlaysAll(g, c)
<1> DEFINE n == Len(Topics)
           Laid(k, v) == IF Topics[k] \in Merge!Known THEN Merge!OverlayMap(Topics[k], c, v)
                                                      ELSE v
           F == [k \in 1 .. n |-> [v \in CellValues |-> Laid(k, v)]]
<1>1. n \in Nat
  BY MergeAssumption
<1>2. \A k \in 1 .. n : \A v \in CellValues : Laid(k, v) \in CellValues
  BY OverlayOfKnown
<1> HIDE DEF n, Laid
<1>3. F \in [1 .. n -> [CellValues -> CellValues]]
  BY <1>2
<1>4. \A k \in 1 .. n : \A v \in CellValues : F[k][v] = Laid(k, v)
  OBVIOUS
<1> HIDE DEF F
<1>5. PICK g \in [0 .. n -> CellValues] : Loops(g, n, Unknown, F)
  BY <1>1, <1>3, CellsAreNumbers, LoopExists
<1>6. g = [k \in 0 .. n |-> IF k = 0 THEN Unknown ELSE Laid(k, g[k - 1])]
  <2>1. ASSUME NEW k \in 0 .. n
        PROVE  g[k] = IF k = 0 THEN Unknown ELSE Laid(k, g[k - 1])
    <3>1. CASE k = 0
      BY <1>5, <3>1 DEF Loops
    <3>2. CASE k # 0
      <4>1. k \in 1 .. n /\ k - 1 \in 0 .. n
        BY <1>1, <3>2
      <4>2. g[k - 1] \in CellValues /\ g[k] = F[k][g[k - 1]]
        BY <1>5, <4>1 DEF Loops
      <4> QED
        BY <1>4, <3>2, <4>1, <4>2
    <3> QED
      BY <3>1, <3>2
  <2> QED
    BY <2>1
<1> QED
  BY <1>6 DEF OverlaysAll, n, Laid

(***************************************************************************)
(* What is in a cell when every map is laid over the merged one is Unknown *)
(* or what a known cell of a map offers, and no less than any of these.    *)
(***************************************************************************)
LEMMA OverlaidIsLargest ==
  ASSUME MergeInv, NEW c \in Merge!Cells
  PROVE  LET v == Merge!Overlaid[c]
         IN  /\ v = Unknown \/ \E t \in Merge!Known : v \in OfferedBy(t, c)
             /\ v >= Unknown
             /\ \A t \in Merge!Known : \A x \in OfferedBy(t, c) : v >= x
<1> DEFINE n == Len(Topics)
           g == CHOOSE f : OverlaysAll(f, c)
           A == [k \in 1 .. n |-> IF Topics[k] \in Merge!Known THEN OfferedBy(Topics[k], c)
                                                               ELSE {}]
<1>1. n \in Nat
  BY MergeAssumption
<1>2. OverlaysAll(g, c)
  BY OverlaysAllExist
<1>3. Merge!Overlaid[c] = g[n]
  BY DEF Merge!Overlaid, OverlaysAll, Merge!Unknown, Unknown
<1> HIDE DEF g
<1>4. /\ g[0] = Unknown
      /\ \A k \in 1 .. n : g[k] = IF Topics[k] \in Merge!Known
                                   THEN Merge!OverlayMap(Topics[k], c, g[k - 1])
                                   ELSE g[k - 1]
  <2> DEFINE R(k) == IF k = 0 THEN Unknown
                     ELSE IF Topics[k] \in Merge!Known
                       THEN Merge!OverlayMap(Topics[k], c, g[k - 1])
                     ELSE g[k - 1]
  <2>1. g = [k \in 0 .. n |-> R(k)]
    BY <1>2 DEF OverlaysAll
  <2> HIDE DEF R, n
  <2>2. \A k \in 0 .. n : g[k] = R(k)
    BY <2>1
  <2>3. 0 \in 0 .. n /\ \A k \in 1 .. n : k \in 0 .. n /\ k # 0
    BY <1>1
  <2> QED
    BY <2>2, <2>3 DEF R
<1>5. \A k \in 1 .. n : A[k] = IF Topics[k] \in Merge!Known THEN OfferedBy(Topics[k], c)
                                                            ELSE {}
  OBVIOUS
<1>6. Merge!Known = {Topics[k] : k \in {j \in 1 .. n : Topics[j] \in Merge!Known}}
  BY DEF Merge!Known, Merge!TopicSet
<1> HIDE DEF A, n
<1>7. \A i \in 0 .. n : g[i] \in CellValues
  <2> DEFINE P == {i \in Nat : g[i] \in CellValues}
  <2>1. 0 \in P
    BY <1>4, CellsAreNumbers
  <2>2. ASSUME NEW i \in 0 .. n - 1, i \in P PROVE i + 1 \in P
    <3>1. i + 1 \in 1 .. n /\ (i + 1) - 1 = i /\ i + 1 \in Nat /\ g[i] \in CellValues
      BY <1>1, <2>2
    <3>2. \/ g[i + 1] = g[i]
          \/ /\ Topics[i + 1] \in Merge!Known
             /\ g[i + 1] = Merge!OverlayMap(Topics[i + 1], c, g[i])
      BY <1>4, <3>1
    <3>3. g[i + 1] \in CellValues
      BY <3>1, <3>2, OverlayOfKnown
    <3> QED
      BY <3>1, <3>3
  <2> HIDE DEF P
  <2>3. \A i \in 0 .. n : i \in P
    BY <1>1, <2>1, <2>2, StepwiseUpTo
  <2> QED
    BY <2>3 DEF P
<1>8. ASSUME NEW k \in 1 .. n
      PROVE  /\ g[k] = g[k - 1] \/ g[k] \in A[k]
             /\ g[k] >= g[k - 1]
             /\ \A x \in A[k] : g[k] >= x
  <2>1. k - 1 \in 0 .. n
    BY <1>1
  <2>2. g[k - 1] \in CellValues /\ g[k - 1] \in Int
    BY <1>7, <2>1, CellsAreNumbers
  <2>3. CASE Topics[k] \in Merge!Known
    <3>1. A[k] = OfferedBy(Topics[k], c) /\ g[k] = Merge!OverlayMap(Topics[k], c, g[k - 1])
      BY <1>4, <1>5, <2>3
    <3> QED
      BY <2>2, <2>3, <3>1, OverlayOfKnown
  <2>4. CASE Topics[k] \notin Merge!Known
    <3>1. A[k] = {} /\ g[k] = g[k - 1]
      BY <1>4, <1>5, <2>4
    <3> QED
      BY <2>2, <3>1
  <2> QED
    BY <2>3, <2>4
<1>9. \A k \in 1 .. n : \A x \in A[k] : x \in Int
  <2> SUFFICES ASSUME NEW k \in 1 .. n, NEW x \in A[k] PROVE x \in Int
    OBVIOUS
  <2>1. Topics[k] \in Merge!Known /\ x \in OfferedBy(Topics[k], c)
    BY <1>5
  <2> QED
    BY <2>1, OfferedIsNormal, CellsAreNumbers
<1>10. /\ g[n] = g[0] \/ \E k \in 1 .. n : g[n] \in A[k]
       /\ g[n] >= g[0]
       /\ \A k \in 1 .. n : \A x \in A[k] : g[n] >= x
  <2>1. g[0] \in Int
    BY <1>4, CellsAreNumbers
  <2> QED
    BY <1>1, <1>8, <1>9, <2>1, LoopTakesLargest
<1>11. g[n] = Unknown \/ \E t \in Merge!Known : g[n] \in OfferedBy(t, c)
  BY <1>4, <1>5, <1>10
<1>12. \A t \in Merge!Known : \A x \in OfferedBy(t, c) : g[n] >= x
  <2> SUFFICES ASSUME NEW t \in Merge!Known, NEW x \in OfferedBy(t, c) PROVE g[n] >= x
    OBVIOUS
  <2>1. PICK k \in 1 .. n : t = Topics[k]
    BY <1>6
  <2> QED
    BY <1>5, <1>10, <2>1
<1>13. g[n] >= Unknown
  BY <1>4, <1>10
<1> QED
  BY <1>3, <1>11, <1>12, <1>13

(***************************************************************************)
(* The middle of a cell of a map is in a cell of the merged map.           *)
(***************************************************************************)
LEMMA NoneOutside ==
  ASSUME MergeInv, NEW t \in Merge!Known, NEW k \in 1 .. Len(maps[t].data)
  PROVE  Merge!CellAt(Merge!Middle(t, k)) \in Merge!Cells
<1>1. PICK l \in Nat, r \in Nat \ {0}, o \in Int, f \in Int :
        l = Len(maps[t].data) /\ r = maps[t].resolution /\ o = maps[t].origin /\ f = frame[t]
  <2>1. t \in DOMAIN maps /\ t \in DOMAIN frame
    BY DEF Merge!Known
  <2>2. frame[t] \in Int
    BY <2>1, MergeSizes DEF MergeInv
  <2> QED
    BY <2>1, <2>2, MapIsOfNumbers
<1>2. PICK min \in Int, max \in Int :
        min = Merge!MinX /\ max = Merge!MaxX /\ min <= f + o /\ (f + o) + l * r <= max
  BY <1>1, Bounded DEF Merge!Begin, Merge!End
<1> DEFINE x == (f + o) + (k - 1) * r + r \div 2
           R == Resolution
           q == (x - min) \div R
           u == (-(max - min)) \div R
<1>3. k \in 1 .. l /\ R \in Nat \ {0}
  BY <1>1, MergeSizes
<1>4. Merge!Middle(t, k) = x
  BY <1>1 DEF Merge!Middle, Merge!Begin
<1>5. x \in Int /\ min <= x /\ x < max
  <2>1. r \div 2 \in Int /\ 0 <= r \div 2 /\ r \div 2 < r
    BY <1>1
  <2>2. (k - 1) * r >= 0 /\ (l - k) * r >= 0
    <3>1. k - 1 \in Nat /\ l - k \in Nat
      BY <1>1, <1>3
    <3> QED
      BY <1>1, <3>1
  <2>3. (k - 1) * r + r <= l * r
    <3>1. k \in Int /\ k - 1 \in Int
      BY <1>1, <1>3
    <3>2. (k - 1) * r + r = k * r
      BY <1>1, <3>1
    <3>3. (l - k) * r = l * r - k * r
      BY <1>1, <3>1
    <3>4. l * r \in Int /\ k * r \in Int
      BY <1>1, <3>1
    <3> QED
      BY <2>2, <3>2, <3>3, <3>4
  <2>4. PICK z \in Int, y \in Int, h \in Int : z = (k - 1) * r /\ y = l * r /\ h = r \div 2
    <3>1. (k - 1) * r \in Int /\ l * r \in Int
      BY <1>1, <1>3
    <3> QED
      BY <2>1, <3>1
  <2>5. x = (f + o) + z + h
    BY <2>4
  <2>6. 0 <= z /\ z + r <= y /\ 0 <= h /\ h < r /\ min <= f + o /\ (f + o) + y <= max
    BY <1>2, <2>1, <2>2, <2>3, <2>4
  <2>7. z \in Int /\ y \in Int /\ h \in Int
    BY <2>4
  <2>8. f \in Int /\ o \in Int /\ min \in Int /\ max \in Int /\ r \in Int
    BY <1>1, <1>2
  <2> HIDE DEF x
  <2> QED
    BY <2>5, <2>6, <2>7, <2>8
<1> HIDE DEF x, R
<1>6. q \in Int /\ q * R <= x - min /\ x - min < q * R + R
  <2>1. x - min \in Int
    BY <1>5
  <2> QED
    BY <1>3, <2>1, Floor
<1>7. u \in Int /\ u * R <= -(max - min)
  <2>1. -(max - min) \in Int
    OBVIOUS
  <2> QED
    BY <1>3, <2>1, Floor
<1>8. Merge!CellAt(Merge!Middle(t, k)) = q
  BY <1>2, <1>4 DEF Merge!CellAt, R
<1>9. Merge!Width = IF 1 >= -u THEN 1 ELSE -u
  BY <1>2 DEF Merge!Width, Merge!Larger, Merge!Ceiling, R
<1> HIDE DEF q, u
<1>10. 0 <= q
  <2>1. ASSUME q + 1 <= 0 PROVE FALSE
    <3>1. -(q + 1) \in Nat
      BY <1>6, <2>1
    <3>2. (-(q + 1)) * R >= 0
      BY <1>3, <3>1
    <3>3. q * R + R <= 0
      BY <1>3, <1>6, <3>2
    <3> QED
      BY <1>3, <1>5, <1>6, <3>3
  <2> QED
    BY <1>6, <2>1
<1>11. q < -u
  <2>1. ASSUME q + u >= 0 PROVE FALSE
    <3>1. (q + u) * R >= 0
      BY <1>3, <1>6, <1>7, <2>1
    <3>2. q * R + u * R >= 0
      BY <1>3, <1>6, <1>7, <3>1
    <3>3. q * R \in Int /\ u * R \in Int
      BY <1>3, <1>6, <1>7
    <3> QED
      BY <1>5, <1>6, <1>7, <3>2, <3>3
  <2> QED
    BY <1>6, <1>7, <2>1
<1> QED
  BY <1>6, <1>7, <1>8, <1>9, <1>10, <1>11 DEF Merge!Cells

\* The known cells in c are the offers.
LEMMA SeenIsOffered ==
  ASSUME MergeInv, NEW c
  PROVE  LET here == {s \in UNION {Merge!Samples(t) : t \in Merge!Known} :
                         Merge!CellAt(s.x) = c}
         IN  {Normalized(s.value) : s \in here} = UNION {OfferedBy(t, c) : t \in Merge!Known}
<1> DEFINE here == {s \in UNION {Merge!Samples(t) : t \in Merge!Known} :
                       Merge!CellAt(s.x) = c}
           Sample(t, k) == [x |-> Merge!Middle(t, k), value |-> maps[t].data[k]]
<1>0. \A t, k : Sample(t, k).x = Merge!Middle(t, k) /\ Sample(t, k).value = maps[t].data[k]
  OBVIOUS
<1>1. ASSUME NEW s \in here
      PROVE  \E t \in Merge!Known : Normalized(s.value) \in OfferedBy(t, c)
  <2>1. PICK t \in Merge!Known : s \in Merge!Samples(t)
    BY <1>1
  <2>2. PICK k \in {j \in 1 .. Len(maps[t].data) : maps[t].data[j] >= 0} : s = Sample(t, k)
    BY <2>1 DEF Merge!Samples
  <2>3. Merge!Covers(t, k, c) /\ s.value = maps[t].data[k]
    BY <1>0, <1>1, <2>2 DEF Merge!Covers
  <2>4. Normalized(s.value) \in Offered(t, k, c)
    BY <2>3 DEF Offered
  <2> QED
    BY <2>2, <2>4 DEF OfferedBy
<1>2. ASSUME NEW t \in Merge!Known, NEW v \in OfferedBy(t, c)
      PROVE  \E s \in here : v = Normalized(s.value)
  <2>1. PICK k \in 1 .. Len(maps[t].data) : v \in Offered(t, k, c)
    BY <1>2 DEF OfferedBy
  <2>2. /\ v = Normalized(maps[t].data[k])
        /\ maps[t].data[k] >= 0
        /\ Merge!CellAt(Merge!Middle(t, k)) = c
    BY <2>1 DEF Offered, Merge!Covers
  <2>3. Sample(t, k) \in Merge!Samples(t)
    BY <2>2 DEF Merge!Samples
  <2> HIDE DEF Sample
  <2>4. Sample(t, k) \in here
    BY <1>0, <2>2, <2>3
  <2> QED
    BY <1>0, <2>2, <2>4
<1> HIDE DEF here
<1>3. {Normalized(s.value) : s \in here} = UNION {OfferedBy(t, c) : t \in Merge!Known}
  BY <1>1, <1>2
<1> QED
  BY <1>3 DEF here

(***************************************************************************)
(* A cell of a published map that is not cleared has the largest           *)
(* normalised value any robot has seen there, in whatever order the maps   *)
(* came and are listed, for any number of maps of any length and cells of  *)
(* any length; and no known cell of a map is left out of the merged one.   *)
(***************************************************************************)
THEOREM LargestOfAll == MCSpec => LargestWins
<1>1. Merge!Init => MergeInv
  BY InitMerge
<1>2. MergeInv /\ [Merge!Next]_(Merge!vars) => MergeInv'
  BY MergeStep
<1> DEFINE all == UNION {Merge!Samples(t) : t \in Merge!Known}
           Here(c) == {s \in all : Merge!CellAt(s.x) = c}
<1>3. ASSUME MergeInv, NEW s \in all PROVE Merge!CellAt(s.x) \in Merge!Cells
  <2>1. PICK t \in Merge!Known : s \in Merge!Samples(t)
    BY <1>3
  <2>2. PICK k \in 1 .. Len(maps[t].data) : s.x = Merge!Middle(t, k)
    BY <2>1 DEF Merge!Samples
  <2> QED
    BY <1>3, <2>2, NoneOutside
<1>4. ASSUME MergeInv, Merge!Published, NEW c \in Merge!Cells \ Merge!Cleared(poses')
      PROVE  Merge!Data[c] = IF Here(c) = {} THEN Merge!Unknown
                             ELSE Merge!Greatest({Merge!Normalized(s.value) : s \in Here(c)})
  <2> DEFINE v == Merge!Overlaid[c]
             S == {Merge!Normalized(s.value) : s \in Here(c)}
  <2>1. Merge!Data = [x \in Merge!Cells |->
                        IF x \in Merge!Cleared(poses') THEN 0 ELSE Merge!Overlaid[x]]
    BY <1>4 DEF Merge!Data, Merge!Published, Merge!PublishMergedMap
  <2>2. Merge!Data[c] = v
    BY <1>4, <2>1
  <2>3. S = UNION {OfferedBy(t, c) : t \in Merge!Known}
    BY <1>4, SameCells, SeenIsOffered
  <2>4. /\ v = Unknown \/ \E t \in Merge!Known : v \in OfferedBy(t, c)
        /\ \A t \in Merge!Known : \A x \in OfferedBy(t, c) : v >= x
    BY <1>4, OverlaidIsLargest
  <2>5. Here(c) = {} <=> S = {}
    <3> HIDE DEF Here
    <3> QED
      OBVIOUS
  <2> HIDE DEF v, S, Here
  <2>6. \A x \in S : x \in Int /\ x > Unknown
    BY <1>4, <2>3, OfferedIsNormal, CellsAreNumbers
  <2>7. v = Unknown \/ v \in S
    BY <2>3, <2>4
  <2>8. \A x \in S : v >= x
    BY <2>3, <2>4
  <2>9. CASE S = {}
    BY <2>2, <2>5, <2>7, <2>9 DEF Unknown, Merge!Unknown
  <2>10. CASE S # {}
    <3>1. v \in S
      BY <2>6, <2>7, <2>8, <2>10 DEF Unknown
    <3>2. \A x \in S : (\A y \in S : x >= y) => x = v
      BY <2>6, <2>8, <3>1
    <3>3. Merge!Greatest(S) = v
      BY <2>8, <3>1, <3>2 DEF Merge!Greatest
    <3> QED
      BY <2>2, <2>5, <2>10, <3>3 DEF S
  <2> QED
    BY <2>9, <2>10
<1>5. MergeInv =>
        [Merge!Published =>
           LET seen == UNION {Merge!Samples(t) : t \in Merge!Known}
           IN  /\ \A s \in seen : Merge!CellAt(s.x) \in Merge!Cells
               /\ \A c \in Merge!Cells \ Merge!Cleared(poses') :
                    LET here == {s \in seen : Merge!CellAt(s.x) = c} IN
                      Merge!Data[c] =
                        IF here = {} THEN Merge!Unknown
                        ELSE Merge!Greatest({Merge!Normalized(s.value) : s \in here})]_(Merge!vars)
  BY <1>3, <1>4
<1> QED
  BY <1>1, <1>2, <1>5, MergeSteps, PTL DEF Merge!Spec, LargestWins, Merge!LargestWins
=============================================================================
