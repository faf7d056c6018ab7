------------------------------ MODULE RosFilter ------------------------------
(***************************************************************************)
(* The EKF node of robot_localization: the queue of measurements its       *)
(* subscribers fill, the timer that fuses them in time order, the history  *)
(* that lets a late measurement be fused where it belongs, and what is     *)
(* published.  The node spins one executor thread, so a callback never     *)
(* interrupts another; the timer's callback is split at its loop, which    *)
(* fuses one measurement per step, only to give the order of measurements  *)
(* with equal stamps to the model checker.                                 *)
(*                                                                         *)
(* A measurement is its topic and its stamp; the estimate is the sequence  *)
(* of measurements processed into it since it was last set.  What a        *)
(* measurement does to the numbers is the matter of module Ekf.            *)
(***************************************************************************)
EXTENDS Integers, Sequences, FiniteSets, SequencesExt, FiniteSetsExt

CONSTANTS
  Odometers, Imus,  \* the sources, odomN and imuN
  Uses,             \* the parts of each source's messages that are fused
  Differential,     \* the topics fused as differences of poses
  Settings,         \* the parameter sets the node may be started with
  SensorTimeout,    \* sensor_timeout
  Skew,             \* how far ahead of the node's clock a stamp may be
  MaxTime,          \* bound: the clock stops here
  MaxMeasurements,  \* bound: measurements enqueued in a behaviour
  MaxSetPoses,      \* bound: set_pose requests
  MaxToggles        \* bound: toggle requests

ASSUME FilterAssumption ==
  /\ Differential \subseteq (Odometers \cup Imus) \X {"pose"}
  /\ Settings \subseteq [smooth : BOOLEAN, history : Int, permit : BOOLEAN,
                         predict : BOOLEAN, disabled : BOOLEAN]
  /\ SensorTimeout \in Nat \ {0} /\ Skew \in Nat /\ MaxTime \in Nat \ {0}
  /\ MaxMeasurements \in Nat /\ MaxSetPoses \in Nat /\ MaxToggles \in Nat

VARIABLES
  now,                  \* the node's clock
  settings,             \* parameters, read once
  enabled, toggled_on,
  measurement_queue,    \* a priority queue: a set, the earliest first
  last_message_times,   \* per topic, 0 for none
  previous,             \* topics with a previous measurement
  last_set_pose_time, last_published_stamp,
  filter,               \* FilterBase: initialized, time of last measurement,
                        \* and the measurements in the estimate
  measurement_history, filter_state_history,
  pc,                   \* where the timer's callback is
  sent,                 \* history: the latest stamp published
  enqueued,             \* history: measurements made and not thrown away
  underrun,             \* history: a late measurement found no state to go to
  calls                 \* bounds: set_pose and toggle requests so far

vars == <<now, settings, enabled, toggled_on, measurement_queue,
          last_message_times, previous, last_set_pose_time,
          last_published_stamp, filter, measurement_history,
          filter_state_history, pc, sent, enqueued, underrun, calls>>

history == <<measurement_history, filter_state_history>>

Sources == Odometers \cup Imus
Parts == {"pose", "twist", "accel"}
Topics == {t \in Sources \X Parts : t[2] \in Uses[t[1]]}

(* A message comes late, or ahead of the node's clock by the skew between
   machines. *)
Stamps == {t \in 1 .. MaxTime : t <= now + Skew}

(* What the constructors leave. *)
Constructed ==
  /\ toggled_on = TRUE /\ filter.initialized = FALSE /\ filter.est = <<>>
  /\ measurement_queue = {} /\ last_message_times = [t \in Topics |-> 0]
  /\ previous = {} /\ last_set_pose_time = 0 /\ last_published_stamp = 0
  /\ measurement_history = <<>> /\ filter_state_history = <<>>

(* loadParams: of a negative history_length the absolute value is taken; a
   filter may be left to be enabled by the service. *)
Parameters(p) == [p EXCEPT !.history = IF @ < 0 THEN -@ ELSE @]
LoadParams(p) ==
  /\ settings = Parameters(p)
  /\ enabled = ~p.disabled

(* initialize: the subscribers and the timer are there; the clock starts
   now, so that the first interval is not huge. *)
Init ==
  /\ now = 1 /\ \E p \in Settings : LoadParams(p)
  /\ filter = [initialized |-> FALSE, time |-> now, est |-> <<>>]
  /\ Constructed
  /\ pc = "idle" /\ sent = 0 /\ enqueued = {}
  /\ underrun = FALSE /\ calls = [set_pose |-> 0, toggle |-> 0]

-----------------------------------------------------------------------------
(* The subscribers.                                                        *)

(* Measurements of one topic and stamp are told apart by a number. *)
Measurement(topic, stamp, made) ==
  LET alike == {m \in made : m.topic = topic /\ m.time = stamp}
  IN  [topic |-> topic, time |-> stamp, n |-> 1 + Max({0} \cup {m.n : m \in alike})]

(* What one message's callbacks change. *)
Inbox == [queue |-> measurement_queue, last |-> last_message_times,
          prev |-> previous, made |-> enqueued]

(* enqueueMeasurement. *)
Enqueue(in, topic, stamp) ==
  LET m == Measurement(topic, stamp, in.made)
  IN  [in EXCEPT !.queue = @ \cup {m}, !.made = @ \cup {m}]

(* A stamp at or before the last set_pose, or before the topic's last one. *)
TooOld(in, topic, stamp) ==
  last_set_pose_time >= stamp \/ stamp < in.last[topic]

(* The frames are known or not; a differential pose also needs the pose
   before it, and becomes the one before the next. *)
PoseCallback(in, topic, stamp, able) ==
  IF TooOld(in, topic, stamp) THEN in
  ELSE LET seen == [in EXCEPT !.last[topic] = stamp]
       IN  CASE ~able -> seen
             [] able /\ topic \in Differential ->
                  IF topic \in in.prev THEN Enqueue(seen, topic, stamp)
                  ELSE [seen EXCEPT !.prev = @ \cup {topic}]
             [] OTHER -> Enqueue(seen, topic, stamp)

TwistCallback(in, topic, stamp, able) ==
  IF TooOld(in, topic, stamp) THEN in
  ELSE LET seen == [in EXCEPT !.last[topic] = stamp]
       IN  IF able THEN Enqueue(seen, topic, stamp) ELSE seen

AccelerationCallback(in, topic, stamp, able) ==
  IF TooOld(in, topic, stamp) THEN in
  ELSE LET seen == [in EXCEPT !.last[topic] = stamp]
       IN  IF able THEN Enqueue(seen, topic, stamp) ELSE seen

(* The parts of a message that the source is configured to use, each under
   its own topic, in this order. *)
OdometryCallback(s, stamp, able) ==
  LET posed == IF "pose" \in Uses[s]
               THEN PoseCallback(Inbox, <<s, "pose">>, stamp, "pose" \in able)
               ELSE Inbox
  IN  IF last_set_pose_time >= stamp THEN Inbox
      ELSE IF "twist" \in Uses[s]
      THEN TwistCallback(posed, <<s, "twist">>, stamp, "twist" \in able)
      ELSE posed

(* An IMU marks the parts it does not measure. *)
ImuCallback(s, stamp, able, measured) ==
  LET posed == IF "pose" \in Uses[s] \cap measured
               THEN PoseCallback(Inbox, <<s, "pose">>, stamp, "pose" \in able)
               ELSE Inbox
      turned == IF "twist" \in Uses[s] \cap measured
                THEN TwistCallback(posed, <<s, "twist">>, stamp,
                                   "twist" \in able)
                ELSE posed
  IN  IF last_set_pose_time >= stamp THEN Inbox
      ELSE IF "accel" \in Uses[s] \cap measured
      THEN AccelerationCallback(turned, <<s, "accel">>, stamp,
                                "accel" \in able)
      ELSE turned

Receive(in) ==
  /\ pc = "idle" /\ Cardinality(in.made) <= MaxMeasurements
  /\ measurement_queue' = in.queue /\ last_message_times' = in.last
  /\ previous' = in.prev /\ enqueued' = in.made
  /\ UNCHANGED <<now, settings, enabled, toggled_on, last_set_pose_time,
                 last_published_stamp, filter, history, pc, sent,
                 underrun, calls>>

Odometry == \E s \in Odometers, t \in Stamps, able \in SUBSET Parts :
  able \subseteq Uses[s] /\ Receive(OdometryCallback(s, t, able))
Imu ==
  \E s \in Imus, t \in Stamps, able \in SUBSET Parts, measured \in SUBSET Parts :
     able \subseteq Uses[s] /\ measured \subseteq Uses[s]
     /\ Receive(ImuCallback(s, t, able, measured))

-----------------------------------------------------------------------------
(* Services and the set_pose topic.                                        *)

(* Not the code: the history outlives the reset. *)
SetPoseKeepingHistory(stamp) ==
  /\ pc = "idle" /\ calls.set_pose < MaxSetPoses
  /\ calls' = [calls EXCEPT !.set_pose = @ + 1]
  /\ previous' = {} /\ measurement_queue' = {}
  /\ last_set_pose_time' = stamp
  /\ filter' = [filter EXCEPT !.est = <<>>, !.time = now]
  /\ enqueued' = {} /\ underrun' = FALSE
  /\ UNCHANGED <<now, settings, enabled, toggled_on, last_message_times,
                 history, last_published_stamp, pc, sent>>

ClearMeasurementQueue == measurement_queue' = {}

(* setPoseCallback and its service. *)
SetPose(stamp) ==
  /\ pc = "idle" /\ calls.set_pose < MaxSetPoses
  /\ calls' = [calls EXCEPT !.set_pose = @ + 1]
  /\ previous' = {} /\ ClearMeasurementQueue
  /\ measurement_history' = <<>> /\ filter_state_history' = <<>>
  /\ last_set_pose_time' = stamp
  /\ filter' = [filter EXCEPT !.est = <<>>, !.time = now]
  /\ enqueued' = {} /\ underrun' = FALSE
  /\ UNCHANGED <<now, settings, enabled, toggled_on, last_message_times,
                 last_published_stamp, pc, sent>>

Toggle(on) ==
  /\ pc = "idle" /\ calls.toggle < MaxToggles /\ on # toggled_on
  /\ calls' = [calls EXCEPT !.toggle = @ + 1]
  /\ toggled_on' = on
  /\ UNCHANGED <<now, settings, enabled, measurement_queue, previous,
                 last_message_times, last_set_pose_time, filter, history,
                 last_published_stamp, pc, sent, enqueued,
                 underrun>>

Enable ==
  /\ pc = "idle" /\ ~enabled /\ enabled' = TRUE
  /\ UNCHANGED <<now, settings, toggled_on, measurement_queue, previous,
                 last_message_times, last_set_pose_time, filter, history,
                 last_published_stamp, pc, sent, enqueued,
                 underrun, calls>>

-----------------------------------------------------------------------------
(* The history of a filter that smooths lagged data.                       *)

Earliest == Min({m.time : m \in measurement_queue})

(* What is left of a deque when its back is popped while later than `time',
   and when its front is popped while earlier than `cutoff'. *)
Until(deque, time) ==
  SubSeq(deque, 1, Max({0} \cup {i \in DOMAIN deque : deque[i].time <= time}))
Unexpired(deque, cutoff) ==
  LET live == {i \in DOMAIN deque : deque[i].time >= cutoff}
  IN  IF live = {} THEN <<>> ELSE SubSeq(deque, Min(live), Len(deque))

(* Not the code: what comes later than the state is not queued again. *)
RevertToUnrestored(time) ==
  /\ filter_state_history' = Until(filter_state_history, time)
  /\ filter' = IF filter_state_history' = <<>> THEN filter
               ELSE [filter EXCEPT !.est = Last(filter_state_history').est,
                                   !.time = Last(filter_state_history').time]
  /\ measurement_history' = Until(measurement_history, time)
  /\ underrun' = (underrun \/ filter_state_history' = <<>>)
  /\ UNCHANGED measurement_queue

(* revertTo: the last state at or before `time', or else the oldest there is;
   every later measurement goes back to the queue. *)
RevertTo(time) ==
  LET kept == Until(filter_state_history, time)
      state == IF kept # <<>> THEN Last(kept) ELSE Head(filter_state_history)
      stay == Until(measurement_history, time)
      later == {measurement_history[i] :
                  i \in Len(stay) + 1 .. Len(measurement_history)}
  IN  /\ filter_state_history' = kept
      /\ underrun' = (underrun \/ (kept = <<>> /\ filter.est # <<>>))
      /\ IF filter_state_history = <<>>
         THEN UNCHANGED <<filter, measurement_queue, measurement_history>>
         ELSE /\ filter' = [filter EXCEPT !.est = state.est,
                                          !.time = state.time]
              /\ measurement_queue' =
                   measurement_queue \cup {m \in later : state.time <= m.time}
              /\ measurement_history' = stay

-----------------------------------------------------------------------------
(* The timer's callback: periodicUpdate.                                   *)

(* Not the code: a measurement just before the state is not late. *)
LateByFar == settings.smooth /\ Earliest + 1 < filter.time

(* The queue holds a measurement older than the state. *)
Late == settings.smooth /\ Earliest < filter.time
Due == {m \in measurement_queue : m.time <= now}

(* integrateMeasurements up to its loop.  An empty queue makes the filter
   predict when it has heard nothing for sensor_timeout. *)
Begin ==
  /\ pc = "idle" /\ enabled /\ toggled_on
  /\ IF measurement_queue # {}
     THEN /\ pc' = "fuse"
          /\ IF Late
             THEN RevertTo(Earliest - 1)
             ELSE UNCHANGED <<filter, measurement_queue, history, underrun>>
     ELSE /\ pc' = IF /\ filter.initialized
                      /\ \/ settings.predict
                         \/ now - filter.time >= SensorTimeout
                   THEN "predict" ELSE "publish"
          /\ UNCHANGED <<filter, measurement_queue, history, underrun>>
  /\ UNCHANGED <<now, settings, enabled, toggled_on, last_message_times,
                 previous, last_set_pose_time, last_published_stamp,
                 sent, enqueued, calls>>

(* processMeasurement: the first one initialises the filter; a measurement
   older than the state corrects it and leaves its time alone. *)
Processed(m) ==
  [initialized |-> TRUE, est |-> Append(filter.est, m),
   time |-> IF filter.initialized THEN Max({filter.time, m.time})
            ELSE m.time]

(* saveFilterState, once per distinct time. *)
Saved(queue, f) ==
  IF queue = {} \/ Min({m.time : m \in queue}) # f.time
  THEN Append(filter_state_history, [time |-> f.time, est |-> f.est])
  ELSE filter_state_history

(* One turn of the loop: the queue gives up one of its earliest. *)
Fuse ==
  /\ pc = "fuse" /\ Due # {}
  /\ \E m \in {m \in Due : m.time = Earliest} :
       /\ measurement_queue' = measurement_queue \ {m}
       /\ filter' = Processed(m)
       /\ IF settings.smooth
          THEN /\ measurement_history' = Append(measurement_history, m)
               /\ filter_state_history' = Saved(measurement_queue \ {m},
                                                Processed(m))
          ELSE UNCHANGED history
  /\ UNCHANGED <<now, settings, enabled, toggled_on, last_message_times,
                 previous, last_set_pose_time, last_published_stamp, pc,
                 sent, enqueued, underrun, calls>>

(* The loop ends at an empty queue or a measurement of the future. *)
Fused ==
  /\ pc = "fuse" /\ Due = {}
  /\ pc' = IF filter.initialized /\ settings.predict
           THEN "predict" ELSE "publish"
  /\ UNCHANGED <<now, settings, enabled, toggled_on, measurement_queue,
                 last_message_times, previous, last_set_pose_time, filter,
                 history, last_published_stamp, sent, enqueued,
                 underrun, calls>>

(* Predict to the current time. *)
Predict ==
  /\ pc = "predict" /\ pc' = "publish"
  /\ filter' = [filter EXCEPT !.time = now]
  /\ UNCHANGED <<now, settings, enabled, toggled_on, measurement_queue,
                 last_message_times, previous, last_set_pose_time,
                 history, last_published_stamp, sent, enqueued,
                 underrun, calls>>

(* Not the code: the queue waits for the filter to be toggled on. *)
DiscardNothing ==
  /\ pc = "idle" /\ enabled /\ ~toggled_on /\ pc' = "publish"
  /\ filter' = [filter EXCEPT !.time = IF filter.initialized
                                       THEN now ELSE @]
  /\ UNCHANGED <<now, settings, enabled, toggled_on, last_message_times,
                 measurement_queue, enqueued, previous, last_set_pose_time,
                 history, last_published_stamp, sent, underrun, calls>>

(* Toggled off: the queue is thrown away and the time kept current. *)
Discard ==
  /\ pc = "idle" /\ enabled /\ ~toggled_on /\ pc' = "publish"
  /\ enqueued' = enqueued \ measurement_queue /\ ClearMeasurementQueue
  /\ filter' = [filter EXCEPT !.time = IF filter.initialized
                                       THEN now ELSE @]
  /\ UNCHANGED <<now, settings, enabled, toggled_on, last_message_times,
                 previous, last_set_pose_time, history, last_published_stamp,
                 sent, underrun, calls>>

(* The state's time, or a later one, has been published already. *)
Corrected == ~settings.permit /\ last_published_stamp >= filter.time

(* The state goes out under its time, unless that time went out before; old
   history is cleared. *)
Publish ==
  /\ pc = "publish" /\ pc' = "idle"
  /\ IF filter.initialized
     THEN /\ sent' = IF Corrected THEN sent ELSE Max({sent, filter.time})
          /\ last_published_stamp' = filter.time
     ELSE UNCHANGED <<sent, last_published_stamp>>
  /\ IF settings.smooth
     THEN LET cutoff == filter.time - settings.history IN
          /\ measurement_history' = Unexpired(measurement_history, cutoff)
          /\ filter_state_history' = Unexpired(filter_state_history, cutoff)
     ELSE UNCHANGED history
  /\ UNCHANGED <<now, settings, enabled, toggled_on, measurement_queue,
                 last_message_times, previous, last_set_pose_time, filter,
                 enqueued, underrun, calls>>

(* The clock, which may also move while the callback runs. *)
Advance ==
  /\ now < MaxTime /\ pc = "idle" /\ now' = now + 1
  /\ UNCHANGED <<settings, enabled, toggled_on, measurement_queue,
                 last_message_times, previous, last_set_pose_time, filter,
                 history, last_published_stamp, pc, sent, enqueued,
                 underrun, calls>>

Tick == Begin \/ Fuse \/ Fused \/ Predict \/ Discard \/ Publish

Next ==
  \/ Odometry \/ Imu
  \/ \E t \in Stamps : SetPose(t)
  \/ \E on \in BOOLEAN : Toggle(on)
  \/ Enable \/ Tick \/ Advance

(* The timer fires for as long as the node spins; time passes between two of
   its callbacks, however often they come. *)
Spec == Init /\ [][Next]_vars /\ WF_vars(Tick) /\ SF_vars(Advance)

-----------------------------------------------------------------------------
(* Properties.                                                             *)

Measurements == [topic : Topics, time : 1 .. MaxTime, n : Nat \ {0}]

(* Type invariant of the filter's own state (ros_filter.hpp). *)
TypeOK ==
  /\ now \in 1 .. MaxTime /\ settings \in {Parameters(p) : p \in Settings}
  /\ settings.history \in Nat
  /\ enabled \in BOOLEAN /\ toggled_on \in BOOLEAN
  /\ measurement_queue \subseteq Measurements
  /\ last_message_times \in [Topics -> 0 .. MaxTime]
  /\ previous \subseteq Differential
  /\ last_set_pose_time \in 0 .. MaxTime
  /\ last_published_stamp \in 0 .. MaxTime
  /\ filter.initialized \in BOOLEAN /\ filter.time \in 1 .. MaxTime
  /\ ToSet(filter.est) \subseteq Measurements
  /\ ToSet(measurement_history) \subseteq Measurements
  /\ \A i \in DOMAIN filter_state_history :
       filter_state_history[i].time \in 1 .. MaxTime
  /\ pc \in {"idle", "fuse", "predict", "publish"}
  /\ enqueued \subseteq Measurements /\ sent \in 0 .. MaxTime
  /\ underrun \in BOOLEAN

Estimates == {filter.est} \cup
             {filter_state_history[i].est : i \in DOMAIN filter_state_history}

(* Nothing measured at or before the last set_pose ("we ignore all messages
   that occur before it", setPoseCallback) waits in the queue, is in the
   estimate, or can come back into it from the history. *)
SetPoseForgets ==
  \A m \in measurement_queue \cup ToSet(measurement_history) \cup
           UNION {ToSet(est) : est \in Estimates} :
     m.time > last_set_pose_time

(* Unless a measurement came so late that no saved state precedes it, every
   one enqueued and not thrown away by a reset or a toggle is in exactly one
   place: still queued, or in the estimate once.  Reverting neither loses one
   nor fuses one twice (revertTo, clearExpiredHistory, integrateMeasurements). *)
Conserved ==
  ~underrun =>
    /\ IsInjective(filter.est)
    /\ measurement_queue \cap ToSet(filter.est) = {}
    /\ measurement_queue \cup ToSet(filter.est) = enqueued

InTimeOrder(ms) ==
  \A i, j \in DOMAIN ms : i < j => ms[i].time <= ms[j].time

(* What smoothing is for: the estimate is what it would have been had the
   lagged measurements come in time, whatever order they came in.  Without it
   each topic is still fused in the order of its stamps: the callbacks refuse
   the older ones, the queue reorders the rest. *)
FusedInOrder ==
  IF settings.smooth THEN ~underrun => InTimeOrder(filter.est)
  ELSE \A i, j \in DOMAIN filter.est :
         i < j /\ filter.est[i].topic = filter.est[j].topic =>
           filter.est[i].time <= filter.est[j].time

(* Without smoothing and without permit_corrected_publication, no stamp goes
   out that is not later than every stamp before it (periodicUpdate): TF
   warns of repeated ones. *)
StampsRise ==
  pc = "publish" /\ filter.initialized /\ ~settings.smooth /\ ~Corrected =>
    settings.permit \/ filter.time > sent

(* Time runs forward through the filter: measurements go in in the order of
   their stamps as far as the settings promise it, estimates come out so. *)
Smoothed == FusedInOrder /\ StampsRise

(* An enabled filter leaves nothing in its queue for ever: when no more
   messages come, late, early and restored ones are all fused or thrown away. *)
Drains == (enabled /\ measurement_queue # {}) ~> (measurement_queue = {})
=============================================================================
