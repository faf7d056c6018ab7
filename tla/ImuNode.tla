------------------------------ MODULE ImuNode --------------------------------
(***************************************************************************)
(* can_imu_node: an IMU sends each sample in three CAN frames that carry   *)
(* its sequence number, which wraps; the node keeps the last acceleration  *)
(* and angular velocity, and publishes when an orientation arrives that    *)
(* has their number, at most once in a period of its clock.                *)
(*                                                                         *)
(* Samples are told apart modulo Laps * SeqSpace, their numbers on the bus *)
(* modulo SeqSpace.                                                        *)
(***************************************************************************)
EXTENDS Integers

CONSTANTS
  SeqSpace,           \* 256: seq is a uint8_t
  Laps,               \* bound: times seq wraps before samples look alike
  RequireCalibrated,  \* require_calibrated_
  Period,             \* publish_period_, in ticks; 0 for no limit
  MaxBack,            \* bound: how far the clock is set back
  MaxJumps            \* bound: times the clock is set

Samples == 0 .. Laps * SeqSpace - 1
Flags == {"data_valid", "calibrated", "fault"}
None == -1

VARIABLES
  socket,  \* sock_: "none" yet, "open", or "failed" and the node gone
  phase,   \* the frame the IMU sends next
  sample,  \* the sample it belongs to
  accel,   \* the sample of last_ax_ms2_ ..., None while ~have_accel_
  gyro,    \* the sample of last_gx_ ..., None while ~have_gyro_
  out,     \* the samples in the last message: acceleration, angular
           \* velocity, orientation
  since,   \* now() - last_publish_time_
  jumps,   \* times the clock has been set
  beat,    \* history: flips with every message
  quiet    \* history: samples since an acceleration and an angular
           \* velocity were accepted, up to SeqSpace

stored == <<accel, gyro>>
message == <<out, since, beat>>
vars == <<socket, phase, sample, stored, message, jumps, quiet>>

Seq(s) == s % SeqSpace
Silence == <<None, None, None>>

-----------------------------------------------------------------------------
(* The IMU sends frame after frame, whatever becomes of them.              *)

Older(n) == IF n < SeqSpace THEN n + 1 ELSE n

\* Which part of the sample, if any, is accepted from this frame.
Sent(part) ==
  /\ phase' = CASE phase = "accel" -> "gyro"
                [] phase = "gyro" -> "orientation"
                [] phase = "orientation" -> "accel"
  /\ sample' = IF phase = "orientation"
                 THEN (sample + 1) % (Laps * SeqSpace) ELSE sample
  /\ quiet' = [p \in {"accel", "gyro"} |->
                IF p = part THEN 0
                ELSE IF phase = "orientation" THEN Older(quiet[p])
                ELSE quiet[p]]
  /\ UNCHANGED <<socket, jumps>>

\* A frame is lost on the bus or in a full socket buffer, or the node is not
\* there to read it.
Lose ==
  /\ Sent("none")
  /\ UNCHANGED <<stored, message>>

-----------------------------------------------------------------------------
(* The node starts, beside an IMU that is sending already.                 *)

\* open_socket: its four calls succeed, or one throws.
OpenSocket == socket' \in {"open", "failed"}

\* The constructor; what it throws ends the node.
Construct ==
  /\ socket = "none"
  /\ OpenSocket
  /\ UNCHANGED <<phase, sample, stored, message, jumps, quiet>>

-----------------------------------------------------------------------------
(* handle_can_frame, for every frame poll_can reads.                       *)

\* sensor_status_ok
StatusOK(flags) ==
  /\ "data_valid" \in flags
  /\ "fault" \notin flags
  /\ RequireCalibrated => "calibrated" \in flags

Ignore(flags) ==
  /\ ~StatusOK(flags)
  /\ Sent("none")
  /\ UNCHANGED <<stored, message>>

Accel(flags) ==
  /\ StatusOK(flags)
  /\ phase = "accel"
  /\ Sent("accel")
  /\ accel' = sample
  /\ UNCHANGED <<gyro, message>>

Gyro(flags) ==
  /\ StatusOK(flags)
  /\ phase = "gyro"
  /\ Sent("gyro")
  /\ gyro' = sample
  /\ UNCHANGED <<accel, message>>

\* Not the code: the angular velocity's number is not compared.
MatchedLoosely(s) == accel # None /\ gyro # None /\ Seq(accel) = Seq(s)

\* The three frames have the same number.
Matched(s) ==
  /\ accel # None
  /\ gyro # None
  /\ Seq(accel) = Seq(s)
  /\ Seq(gyro) = Seq(s)

\* There was no message before, or it is a period ago.
Due == Period = 0 \/ out = Silence \/ since >= Period

\* publish_imu
Publish ==
  IF Due
    THEN out' = <<accel, gyro, sample>> /\ since' = 0 /\ beat' = ~beat
    ELSE UNCHANGED message

Orientation(flags) ==
  /\ StatusOK(flags)
  /\ phase = "orientation"
  /\ Sent("orientation")
  /\ IF Matched(sample) THEN Publish ELSE UNCHANGED message
  /\ UNCHANGED stored

-----------------------------------------------------------------------------
(* The node's clock, which may be set.                                     *)

\* Beyond the period every wait is as long.
Tick ==
  /\ since' = IF since < Period THEN since + 1 ELSE since
  /\ UNCHANGED <<socket, phase, sample, stored, out, beat, jumps, quiet>>

Jump ==
  /\ jumps < MaxJumps
  /\ jumps' = jumps + 1
  /\ since' \in -MaxBack .. Period
  /\ UNCHANGED <<socket, phase, sample, stored, out, beat, quiet>>

-----------------------------------------------------------------------------
Init ==
  /\ socket = "none"
  /\ phase = "accel"
  /\ sample = 0
  /\ accel = None
  /\ gyro = None
  /\ out = Silence
  /\ since = 0
  /\ jumps = 0
  /\ beat = FALSE
  /\ quiet = [p \in {"accel", "gyro"} |-> SeqSpace]

\* poll_can
Receive(flags) ==
  /\ socket = "open"
  /\ Ignore(flags) \/ Accel(flags) \/ Gyro(flags) \/ Orientation(flags)

Next ==
  \/ \E flags \in SUBSET Flags : Receive(flags)
  \/ Construct \/ Lose \/ Tick \/ Jump

Spec == Init /\ [][Next]_vars

\* Time passes.
FairSpec == Spec /\ WF_vars(Tick)

-----------------------------------------------------------------------------
TypeOK ==
  /\ socket \in {"none", "open", "failed"}
  /\ phase \in {"accel", "gyro", "orientation"}
  /\ sample \in Samples
  /\ accel \in Samples \cup {None}
  /\ gyro \in Samples \cup {None}
  /\ out \in (Samples \X Samples \X Samples) \cup {Silence}
  /\ since \in -MaxBack .. Period
  /\ jumps \in 0 .. MaxJumps
  /\ beat \in BOOLEAN
  /\ quiet \in [{"accel", "gyro"} -> 0 .. SeqSpace]

\* No acceleration, or no angular velocity, was accepted for so many samples
\* that the numbers came round.
Outage == \E p \in {"accel", "gyro"} : quiet[p] = SeqSpace

(***************************************************************************)
(* A message is of one sample, whichever frames are lost or refused: an    *)
(* acceleration and an angular velocity that stay stored from an earlier   *)
(* sample are never published with a later orientation - until all 256     *)
(* numbers went by without one of them.                                    *)
(***************************************************************************)
OneSample ==
  [][beat' # beat => Outage \/ out' = <<sample, sample, sample>>]_vars

\* The orientation of a sample all three frames of which are accepted.
WholeSample ==
  /\ accel = sample
  /\ gyro = sample
  /\ socket = "open"
  /\ \E flags \in SUBSET Flags : Orientation(flags)

(***************************************************************************)
(* While whole samples keep arriving, messages keep being published: the   *)
(* limit on the rate lets them through again, even after the clock was set *)
(* back.                                                                   *)
(***************************************************************************)
Resumes ==
  []<><<WholeSample>>_vars => []<><<beat' # beat>>_vars
=============================================================================
