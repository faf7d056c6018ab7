--------------------------- MODULE RosFilterProofs ---------------------------
(***************************************************************************)
(* Proofs about RosFilter, for any sources, parameter sets and bounds:     *)
(* what a set_pose forgets, that reverting neither loses a measurement nor *)
(* fuses one twice, and that smoothing fuses in the order of the stamps.   *)
(***************************************************************************)
EXTENDS RosFilter, SequenceTheorems, WellFoundedInduction, TLAPS

-----------------------------------------------------------------------------
(***************************************************************************)
(* The least and the greatest of a set of integers, and the deques that    *)
(* are cut at one of their ends.                                           *)
(***************************************************************************)

\* Every set of naturals has a least one.
LEMMA LeastNatural ==
  ASSUME NEW T \in SUBSET Nat, T # {}
  PROVE  \E n \in T : \A y \in T : n <= y
<1> DEFINE Below == {p \in Nat \X Nat : p[1] < p[2]}
<1>1. OpToRel(<, Nat) = Below
  BY DEF OpToRel
<1>2. IsWellFoundedOn(Below, Nat)
  BY <1>1, NatLessThanWellFounded
<1>3. \E n \in T : \A y \in T : ~ (<<y, n>> \in Below)
  <2> HIDE DEF Below
  <2> QED
    BY <1>2, WFMin
<1>4. PICK n \in T : \A y \in T : ~ (<<y, n>> \in Below)
  BY <1>3
<1>5. ASSUME NEW y \in T PROVE n <= y
  <2>1. y \in Nat /\ n \in Nat /\ <<y, n>> \notin Below
    BY <1>4
  <2>2. y < n => <<y, n>> \in Below
    BY <2>1
  <2> QED
    BY <2>1, <2>2
<1> QED
  BY <1>5

\* Every set of integers that is bounded below has a least one.
LEMMA Least ==
  ASSUME NEW S \in SUBSET Int, S # {}, NEW b \in Int, \A x \in S : b <= x
  PROVE  Min(S) \in S /\ \A y \in S : Min(S) <= y
<1> DEFINE T == {n \in Nat : b + n \in S}
<1>1. T \subseteq Nat /\ T # {}
  <2>1. PICK x \in S : TRUE
    OBVIOUS
  <2>2. x - b \in T
    BY <2>1
  <2> QED
    BY <2>2
<1>2. PICK n \in T : \A y \in T : n <= y
  <2> HIDE DEF T
  <2> QED
    BY <1>1, LeastNatural
<1>3. n \in Int
  OBVIOUS
<1>4. \A y \in S : b + n <= y
  <2> TAKE y \in S
  <2>1. y - b \in T
    OBVIOUS
  <2> QED
    BY <1>2, <2>1
<1>5. b + n \in S
  BY <1>2
<1> QED
  BY <1>4, <1>5 DEF Min

\* And the same the other way round.
LEMMA Greatest ==
  ASSUME NEW S \in SUBSET Int, S # {}, NEW b \in Int, \A x \in S : x <= b
  PROVE  Max(S) \in S /\ \A y \in S : Max(S) >= y
<1> DEFINE T == {n \in Nat : b - n \in S}
<1>1. T \subseteq Nat /\ T # {}
  <2>1. PICK x \in S : TRUE
    OBVIOUS
  <2>2. b - x \in T
    BY <2>1
  <2> QED
    BY <2>2
<1>2. PICK n \in T : \A y \in T : n <= y
  <2> HIDE DEF T
  <2> QED
    BY <1>1, LeastNatural
<1>3. n \in Int
  OBVIOUS
<1>4. \A y \in S : b - n >= y
  <2> TAKE y \in S
  <2>1. b - y \in T
    OBVIOUS
  <2> QED
    BY <1>2, <2>1
<1>5. b - n \in S
  BY <1>2
<1> QED
  BY <1>4, <1>5 DEF Max

LEMMA Later ==
  ASSUME NEW a \in Int, NEW b \in Int
  PROVE  Max({a, b}) = IF a <= b THEN b ELSE a
<1>1. \E c \in {a, b} : \A x \in {a, b} : x <= c
  OBVIOUS
<1> QED
  BY <1>1 DEF Max

\* Until keeps the front of a deque, up to the last that is not too late.
LEMMA UntilCut ==
  ASSUME NEW S, \A e \in S : e.time \in Int, NEW deque \in Seq(S), NEW time \in Int
  PROVE  LET kept == Until(deque, time) IN
         /\ kept \in Seq(S)
         /\ Len(kept) <= Len(deque)
         /\ \A i \in 1 .. Len(kept) : kept[i] = deque[i]
         /\ kept # <<>> => kept[Len(kept)].time <= time
         /\ \A i \in Len(kept) + 1 .. Len(deque) : deque[i].time > time
<1> DEFINE early == {0} \cup {i \in DOMAIN deque : deque[i].time <= time}
           k == Max(early)
<1>1. early \in SUBSET Int /\ early # {} /\ \A x \in early : x <= Len(deque)
  OBVIOUS
<1>2. k \in early /\ \A y \in early : k >= y
  <2>1. Len(deque) \in Int
    OBVIOUS
  <2> HIDE DEF early
  <2> QED
    BY <1>1, <2>1, Greatest
<1> HIDE DEF k
<1>3. k \in 0 .. Len(deque)
  BY <1>2
<1>4. /\ Until(deque, time) \in Seq(S)
      /\ Len(Until(deque, time)) = k
      /\ \A i \in 1 .. k : Until(deque, time)[i] = deque[i]
  <2>1. Until(deque, time) = SubSeq(deque, 1, k)
    BY DEF Until, k
  <2>2. \A i \in 1 .. k : deque[i] \in S
    BY <1>3
  <2> QED
    BY <1>3, <2>1, <2>2, SubSeqProperties
<1>5. \A i \in k + 1 .. Len(deque) : deque[i].time > time
  BY <1>2, <1>3
<1>6. k > 0 => deque[k].time <= time
  BY <1>2
<1> QED
  BY <1>3, <1>4, <1>5, <1>6

\* Unexpired keeps the back of one, from the first that is not too early.
LEMMA UnexpiredCut ==
  ASSUME NEW S, \A e \in S : e.time \in Int, NEW deque \in Seq(S), NEW cutoff \in Int
  PROVE  LET live == Unexpired(deque, cutoff)
             k == Len(deque) - Len(live)
         IN
         /\ live \in Seq(S)
         /\ k >= 0
         /\ \A i \in 1 .. Len(live) : live[i] = deque[k + i]
         /\ \A i \in 1 .. k : deque[i].time < cutoff
         /\ live # <<>> => deque[k + 1].time >= cutoff
<1> DEFINE fresh == {i \in DOMAIN deque : deque[i].time >= cutoff}
<1>1. CASE fresh = {}
  BY <1>1 DEF Unexpired
<1>2. CASE fresh # {}
  <2>1. fresh \in SUBSET Int /\ \A x \in fresh : 1 <= x
    OBVIOUS
  <2> DEFINE first == Min(fresh)
  <2>2. first \in fresh /\ \A y \in fresh : first <= y
    <3>1. 1 \in Int
      OBVIOUS
    <3> HIDE DEF fresh
    <3> QED
      BY <1>2, <2>1, <3>1, Least
  <2> HIDE DEF first
  <2>3. first \in 1 .. Len(deque) /\ deque[first].time >= cutoff
    BY <2>2
  <2>4. \A i \in 1 .. first - 1 : deque[i].time < cutoff
    BY <2>2, <2>3
  <2>5. Unexpired(deque, cutoff) = SubSeq(deque, first, Len(deque))
    BY <1>2 DEF Unexpired, first
  <2>6. /\ Unexpired(deque, cutoff) \in Seq(S)
        /\ Len(Unexpired(deque, cutoff)) = Len(deque) - first + 1
        /\ \A i \in 1 .. Len(deque) - first + 1 :
             Unexpired(deque, cutoff)[i] = deque[first + i - 1]
    BY <2>3, <2>5, SubSeqProperties
  <2> QED
    BY <2>3, <2>4, <2>6
<1> QED
  BY <1>1, <1>2

-----------------------------------------------------------------------------
(***************************************************************************)
(* Types.  Everything that is queued, fused or saved is from after the     *)
(* last reset.                                                             *)
(***************************************************************************)

Recent == {m \in Measurements : m.time > last_set_pose_time}
Filters == [initialized : BOOLEAN, time : 1 .. MaxTime, est : Seq(Recent)]
States == [time : 1 .. MaxTime, est : Seq(Recent)]

Types ==
  /\ now \in 1 .. MaxTime /\ settings \in {Parameters(p) : p \in Settings}
  /\ pc \in {"idle", "fuse", "predict", "publish"}
  /\ enabled \in BOOLEAN /\ toggled_on \in BOOLEAN /\ underrun \in BOOLEAN
  /\ last_set_pose_time \in 0 .. MaxTime
  /\ last_published_stamp \in 0 .. MaxTime /\ sent \in 0 .. MaxTime
  /\ last_message_times \in [Topics -> 0 .. MaxTime]
  /\ previous \subseteq Differential
  /\ measurement_queue \subseteq Recent
  /\ filter \in Filters
  /\ measurement_history \in Seq(Recent)
  /\ filter_state_history \in Seq(States)
  /\ enqueued \subseteq Measurements
  /\ \E b \in Nat : \A m \in enqueued : m.n <= b

\* The filter is never ahead of the node's clock, an uninitialised one has
\* fused nothing, and an empty estimate has no past.
Current ==
  /\ filter.time <= now
  /\ \A i \in DOMAIN filter_state_history :
       /\ filter_state_history[i].time <= now
       /\ filter_state_history[i].est # <<>>
  /\ ~filter.initialized => filter.est = <<>>
  /\ filter.est = <<>> => filter_state_history = <<>>

LEMMA SettingsType ==
  ASSUME NEW p \in Settings
  PROVE  /\ Parameters(p).smooth \in BOOLEAN /\ Parameters(p).permit \in BOOLEAN
         /\ Parameters(p).predict \in BOOLEAN /\ Parameters(p).history \in Nat
<1>1. p \in [smooth : BOOLEAN, history : Int, permit : BOOLEAN,
             predict : BOOLEAN, disabled : BOOLEAN]
  BY FilterAssumption
<1> QED
  BY <1>1 DEF Parameters

LEMMA TypesInit == Init => Types /\ Current
<1> SUFFICES ASSUME Init PROVE Types /\ Current
  OBVIOUS
<1>1. 1 \in 1 .. MaxTime /\ 0 \in 0 .. MaxTime
  BY FilterAssumption
<1>2. PICK p \in Settings : LoadParams(p)
  BY DEF Init
<1>3. settings \in {Parameters(q) : q \in Settings} /\ enabled \in BOOLEAN
  BY <1>2 DEF LoadParams
<1>4. filter \in Filters
  BY <1>1 DEF Init, Filters
<1>5. \E b \in Nat : \A m \in enqueued : m.n <= b
  BY DEF Init
<1>6. /\ measurement_history \in Seq(Recent) /\ filter_state_history \in Seq(States)
      /\ last_message_times \in [Topics -> 0 .. MaxTime]
      /\ filter_state_history = <<>> /\ filter.est = <<>>
  BY <1>1 DEF Init, Constructed
<1>7. /\ now \in 1 .. MaxTime /\ pc \in {"idle", "fuse", "predict", "publish"}
      /\ toggled_on \in BOOLEAN /\ underrun \in BOOLEAN
      /\ last_set_pose_time \in 0 .. MaxTime
      /\ last_published_stamp \in 0 .. MaxTime /\ sent \in 0 .. MaxTime
      /\ previous \subseteq Differential /\ measurement_queue \subseteq Recent
      /\ enqueued \subseteq Measurements
  BY <1>1 DEF Init, Constructed
<1>8. Types
  BY <1>3, <1>4, <1>5, <1>6, <1>7 DEF Types
<1>9. Current
  BY <1>1, <1>6 DEF Init, Current
<1> QED
  BY <1>8, <1>9

(***************************************************************************)
(* What the callbacks of a message may change.                             *)
(***************************************************************************)

Inboxes == [queue : SUBSET Measurements, last : [Topics -> 0 .. MaxTime],
            prev : SUBSET Differential, made : SUBSET Measurements]

\* New measurements are new ones, recent, and of each topic not older than
\* the ones before them.
Delivered(in) ==
  /\ in \in Inboxes
  /\ \E b \in Nat : \A m \in in.made : m.n <= b
  /\ measurement_queue \subseteq in.queue /\ enqueued \subseteq in.made
  /\ \A m \in in.queue \ measurement_queue :
       /\ m \in Recent /\ m \in in.made \ enqueued
       /\ last_message_times[m.topic] <= m.time
       /\ m.time <= in.last[m.topic]
  /\ in.made \ enqueued \subseteq in.queue
  /\ \A topic \in Topics : last_message_times[topic] <= in.last[topic]

LEMMA InboxDelivered == Types => Delivered(Inbox)
  BY DEF Types, Delivered, Inbox, Inboxes, Recent

LEMMA SeenDelivered ==
  ASSUME Types, NEW in, Delivered(in), NEW topic \in Topics,
         NEW stamp \in 1 .. MaxTime, ~TooOld(in, topic, stamp)
  PROVE  Delivered([in EXCEPT !.last[topic] = stamp])
<1> DEFINE seen == [in EXCEPT !.last[topic] = stamp]
<1>1. in \in Inboxes
  BY DEF Delivered
<1>2. /\ seen \in Inboxes /\ seen.queue = in.queue /\ seen.made = in.made
      /\ seen.last = [in.last EXCEPT ![topic] = stamp]
  BY <1>1 DEF Inboxes
<1>3. \A t \in Topics : in.last[t] <= seen.last[t]
  BY <1>1, <1>2 DEF TooOld, Inboxes
<1>4. \A t \in Topics : /\ last_message_times[t] \in Int /\ in.last[t] \in Int
                        /\ seen.last[t] \in Int
  BY <1>1, <1>2 DEF Inboxes, Types
<1>5. \A m \in Measurements : m.topic \in Topics /\ m.time \in Int
  BY DEF Measurements
<1>6. ASSUME NEW m \in in.queue \ measurement_queue PROVE m.time <= seen.last[m.topic]
  BY <1>1, <1>3, <1>4, <1>5 DEF Delivered, Inboxes
<1>7. \A t \in Topics : last_message_times[t] <= seen.last[t]
  BY <1>3, <1>4 DEF Delivered
<1> QED
  BY <1>2, <1>6, <1>7 DEF Delivered

\* A new measurement's number is one that no other of its topic and stamp has.
LEMMA MeasurementFresh ==
  ASSUME NEW topic \in Topics, NEW stamp \in 1 .. MaxTime,
         NEW made \in SUBSET Measurements,
         NEW b \in Nat, \A m \in made : m.n <= b
  PROVE  /\ Measurement(topic, stamp, made) \in Measurements
         /\ Measurement(topic, stamp, made) \notin made
         /\ Measurement(topic, stamp, made).n <= b + 1
         /\ Measurement(topic, stamp, made).topic = topic
         /\ Measurement(topic, stamp, made).time = stamp
<1> DEFINE alike == {m \in made : m.topic = topic /\ m.time = stamp}
           numbers == {0} \cup {m.n : m \in alike}
           top == Max(numbers)
<1>1. numbers \in SUBSET Int /\ numbers # {} /\ \A x \in numbers : x <= b
  BY DEF Measurements
<1>2. top \in numbers /\ \A y \in numbers : top >= y
  <2> HIDE DEF numbers
  <2> QED
    BY <1>1, Greatest
<1>3. top \in Nat /\ top <= b
  BY <1>1, <1>2 DEF Measurements
<1>4. Measurement(topic, stamp, made) = [topic |-> topic, time |-> stamp, n |-> 1 + top]
  BY DEF Measurement
<1>5. \A m \in alike : m.n <= top
  BY <1>2
<1> HIDE DEF top
<1>6. Measurement(topic, stamp, made) \in Measurements
  BY <1>3, <1>4 DEF Measurements
<1>7. ASSUME NEW m \in made, m = Measurement(topic, stamp, made) PROVE FALSE
  <2>1. m \in alike
    BY <1>4, <1>7
  <2>2. m.n <= top /\ m.n = 1 + top
    BY <1>4, <1>5, <1>7, <2>1
  <2> QED
    BY <1>3, <2>2
<1> QED
  BY <1>3, <1>4, <1>6, <1>7

LEMMA EnqueueDelivered ==
  ASSUME Types, NEW in, Delivered(in), NEW topic \in Topics,
         NEW stamp \in 1 .. MaxTime, stamp > last_set_pose_time,
         in.last[topic] = stamp, last_message_times[topic] <= stamp
  PROVE  Delivered(Enqueue(in, topic, stamp))
<1> DEFINE m == Measurement(topic, stamp, in.made)
           put == Enqueue(in, topic, stamp)
<1>1. in \in Inboxes
  BY DEF Delivered
<1>2. PICK b \in Nat : \A x \in in.made : x.n <= b
  BY DEF Delivered
<1>3. /\ m \in Measurements /\ m \notin in.made /\ m.n <= b + 1
      /\ m.topic = topic /\ m.time = stamp
  BY <1>1, <1>2, MeasurementFresh DEF Inboxes
<1> HIDE DEF m
<1>4. /\ put.queue = in.queue \cup {m} /\ put.made = in.made \cup {m}
      /\ put.last = in.last /\ put \in Inboxes
  BY <1>1, <1>3 DEF Enqueue, Inboxes, m
<1>5. m \in Recent
  BY <1>3 DEF Recent
<1>6. b + 1 \in Nat /\ \A x \in put.made : x.n <= b + 1
  BY <1>1, <1>2, <1>3, <1>4 DEF Inboxes, Measurements
<1>7. m \notin enqueued
  BY <1>3 DEF Delivered
<1> HIDE DEF put
<1>8. \A x \in put.queue \ measurement_queue :
        /\ x \in Recent /\ x \in put.made \ enqueued
        /\ last_message_times[x.topic] <= x.time /\ x.time <= put.last[x.topic]
  BY <1>3, <1>4, <1>5, <1>7 DEF Delivered
<1> QED
  BY <1>4, <1>6, <1>8 DEF Delivered, put

\* A measurement that is seen and then enqueued.
LEMMA SeenAndEnqueued ==
  ASSUME Types, NEW in, Delivered(in), NEW topic \in Topics,
         NEW stamp \in 1 .. MaxTime, ~TooOld(in, topic, stamp)
  PROVE  LET seen == [in EXCEPT !.last[topic] = stamp] IN
         /\ Delivered(seen)
         /\ Delivered(Enqueue(seen, topic, stamp))
         /\ topic \in Differential => Delivered([seen EXCEPT !.prev = @ \cup {topic}])
<1> DEFINE seen == [in EXCEPT !.last[topic] = stamp]
<1>1. Delivered(seen)
  BY SeenDelivered
<1>2. in \in Inboxes
  BY DEF Delivered
<1>3. stamp > last_set_pose_time /\ seen.last[topic] = stamp
  BY <1>2 DEF TooOld, Inboxes, Types
<1>4. last_message_times[topic] <= stamp
  BY <1>1, <1>3 DEF Delivered
<1>5. seen \in Inboxes
  BY <1>1 DEF Delivered
<1>6. ASSUME topic \in Differential
      PROVE  Delivered([seen EXCEPT !.prev = @ \cup {topic}])
  <2> DEFINE known == [seen EXCEPT !.prev = @ \cup {topic}]
  <2>1. /\ known \in Inboxes /\ known.queue = seen.queue
        /\ known.made = seen.made /\ known.last = seen.last
    BY <1>5, <1>6 DEF Inboxes
  <2> HIDE DEF seen, known
  <2> QED
    BY <1>1, <2>1 DEF Delivered, known
<1>7. Delivered(Enqueue(seen, topic, stamp))
  <2> HIDE DEF seen
  <2> QED
    BY <1>1, <1>3, <1>4, EnqueueDelivered
<1> QED
  BY <1>1, <1>6, <1>7

LEMMA CallbacksDelivered ==
  ASSUME Types, NEW in, Delivered(in), NEW topic \in Topics,
         NEW stamp \in 1 .. MaxTime, NEW able \in BOOLEAN
  PROVE  /\ Delivered(PoseCallback(in, topic, stamp, able))
         /\ Delivered(TwistCallback(in, topic, stamp, able))
         /\ Delivered(AccelerationCallback(in, topic, stamp, able))
<1> DEFINE seen == [in EXCEPT !.last[topic] = stamp]
<1>1. CASE TooOld(in, topic, stamp)
  BY <1>1 DEF PoseCallback, TwistCallback, AccelerationCallback
<1>2. CASE ~TooOld(in, topic, stamp)
  <2>1. /\ Delivered(seen) /\ Delivered(Enqueue(seen, topic, stamp))
        /\ topic \in Differential => Delivered([seen EXCEPT !.prev = @ \cup {topic}])
    BY <1>2, SeenAndEnqueued
  <2> HIDE DEF seen
  <2>2. PoseCallback(in, topic, stamp, able) \in
          {seen, Enqueue(seen, topic, stamp)} \cup
          (IF topic \in Differential THEN {[seen EXCEPT !.prev = @ \cup {topic}]}
           ELSE {})
    BY <1>2 DEF PoseCallback, seen
  <2>3. /\ TwistCallback(in, topic, stamp, able) \in
             {seen, Enqueue(seen, topic, stamp)}
        /\ AccelerationCallback(in, topic, stamp, able) \in
             {seen, Enqueue(seen, topic, stamp)}
    BY <1>2 DEF TwistCallback, AccelerationCallback, seen
  <2> QED
    BY <2>1, <2>2, <2>3
<1> QED
  BY <1>1, <1>2

LEMMA OdometryDelivered ==
  ASSUME Types, NEW s \in Odometers, NEW stamp \in 1 .. MaxTime,
         NEW able \in SUBSET Parts
  PROVE  Delivered(OdometryCallback(s, stamp, able))
<1> DEFINE posed == IF "pose" \in Uses[s]
                    THEN PoseCallback(Inbox, <<s, "pose">>, stamp, "pose" \in able)
                    ELSE Inbox
<1>1. Delivered(Inbox)
  BY InboxDelivered
<1>2. \A part \in Parts : part \in Uses[s] => <<s, part>> \in Topics
  BY DEF Topics, Sources
<1>3. Delivered(posed)
  <2>1. CASE <<s, "pose">> \in Topics
    <3>1. ("pose" \in able) \in BOOLEAN
      OBVIOUS
    <3>2. Delivered(PoseCallback(Inbox, <<s, "pose">>, stamp, "pose" \in able))
      BY <1>1, <2>1, <3>1, CallbacksDelivered, Zenon
    <3> QED
      BY <1>1, <3>2
  <2> QED
    BY <1>1, <1>2, <2>1 DEF Parts
<1> HIDE DEF posed
<1>4. "twist" \in Uses[s] =>
        Delivered(TwistCallback(posed, <<s, "twist">>, stamp, "twist" \in able))
  <2>1. ("twist" \in able) \in BOOLEAN
    OBVIOUS
  <2>2. <<s, "twist">> \in Topics =>
          Delivered(TwistCallback(posed, <<s, "twist">>, stamp, "twist" \in able))
    BY <1>3, <2>1, CallbacksDelivered, Zenon
  <2> QED
    BY <1>2, <2>2 DEF Parts
<1>5. OdometryCallback(s, stamp, able) =
        IF last_set_pose_time >= stamp THEN Inbox
        ELSE IF "twist" \in Uses[s]
        THEN TwistCallback(posed, <<s, "twist">>, stamp, "twist" \in able)
        ELSE posed
  BY DEF OdometryCallback, posed
<1> QED
  BY <1>1, <1>3, <1>4, <1>5

LEMMA ImuDelivered ==
  ASSUME Types, NEW s \in Imus, NEW stamp \in 1 .. MaxTime,
         NEW able \in SUBSET Parts, NEW measured \in SUBSET Parts
  PROVE  Delivered(ImuCallback(s, stamp, able, measured))
<1> DEFINE posed == IF "pose" \in Uses[s] \cap measured
                    THEN PoseCallback(Inbox, <<s, "pose">>, stamp, "pose" \in able)
                    ELSE Inbox
           turned == IF "twist" \in Uses[s] \cap measured
                     THEN TwistCallback(posed, <<s, "twist">>, stamp,
                                        "twist" \in able)
                     ELSE posed
<1>1. Delivered(Inbox)
  BY InboxDelivered
<1>2. \A part \in Parts : part \in Uses[s] => <<s, part>> \in Topics
  BY DEF Topics, Sources
<1>3. Delivered(posed)
  <2>1. CASE <<s, "pose">> \in Topics
    <3>1. ("pose" \in able) \in BOOLEAN
      OBVIOUS
    <3>2. Delivered(PoseCallback(Inbox, <<s, "pose">>, stamp, "pose" \in able))
      BY <1>1, <2>1, <3>1, CallbacksDelivered, Zenon
    <3> QED
      BY <1>1, <3>2
  <2> QED
    BY <1>1, <1>2, <2>1 DEF Parts
<1> HIDE DEF posed
<1>4. Delivered(turned)
  <2>1. CASE <<s, "twist">> \in Topics
    <3>1. ("twist" \in able) \in BOOLEAN
      OBVIOUS
    <3>2. Delivered(TwistCallback(posed, <<s, "twist">>, stamp, "twist" \in able))
      BY <1>3, <2>1, <3>1, CallbacksDelivered, Zenon
    <3> QED
      BY <1>3, <3>2
  <2> QED
    BY <1>2, <1>3, <2>1 DEF Parts
<1> HIDE DEF turned
<1>5. "accel" \in Uses[s] =>
        Delivered(AccelerationCallback(turned, <<s, "accel">>, stamp, "accel" \in able))
  <2>1. ("accel" \in able) \in BOOLEAN
    OBVIOUS
  <2>2. <<s, "accel">> \in Topics =>
          Delivered(AccelerationCallback(turned, <<s, "accel">>, stamp,
                                         "accel" \in able))
    BY <1>4, <2>1, CallbacksDelivered, Zenon
  <2> QED
    BY <1>2, <2>2 DEF Parts
<1>6. ImuCallback(s, stamp, able, measured) =
        IF last_set_pose_time >= stamp THEN Inbox
        ELSE IF "accel" \in Uses[s] \cap measured
        THEN AccelerationCallback(turned, <<s, "accel">>, stamp, "accel" \in able)
        ELSE turned
  BY DEF ImuCallback, turned, posed
<1> QED
  BY <1>1, <1>4, <1>5, <1>6

\* The two kinds of messages, in one.
Message == \E in : Delivered(in) /\ Receive(in)

LEMMA MessageReceived ==
  ASSUME Types, Odometry \/ Imu
  PROVE  Message
<1>1. \A t \in Stamps : t \in 1 .. MaxTime
  BY DEF Stamps
<1>2. CASE Odometry
  <2>1. PICK s \in Odometers, t \in Stamps, able \in SUBSET Parts :
          Receive(OdometryCallback(s, t, able))
    BY <1>2 DEF Odometry
  <2> QED
    BY <1>1, <2>1, OdometryDelivered DEF Message
<1>3. CASE Imu
  <2>1. PICK s \in Imus, t \in Stamps, able \in SUBSET Parts,
             measured \in SUBSET Parts : Receive(ImuCallback(s, t, able, measured))
    BY <1>3 DEF Imu
  <2> QED
    BY <1>1, <2>1, ImuDelivered DEF Message
<1> QED
  BY <1>2, <1>3

(***************************************************************************)
(* A reversion, the one of a late measurement.                             *)
(***************************************************************************)

\* The queue holds a measurement at the earliest stamp, and none before it.
LEMMA EarliestQueued ==
  ASSUME measurement_queue \subseteq Measurements, measurement_queue # {}
  PROVE  /\ Earliest \in 1 .. MaxTime
         /\ \A m \in measurement_queue : Earliest <= m.time
         /\ \E m \in measurement_queue : m.time = Earliest
<1> DEFINE times == {m.time : m \in measurement_queue}
<1>1. times \in SUBSET Int /\ times # {} /\ (\A t \in times : 1 <= t) /\ 1 \in Int
  BY DEF Measurements
<1>2. Min(times) \in times /\ \A t \in times : Min(times) <= t
  <2> HIDE DEF times
  <2> QED
    BY <1>1, Least
<1> QED
  BY <1>2 DEF Earliest, Measurements

LEMMA RevertTypes ==
  ASSUME Types, Current, NEW time \in Int, RevertTo(time)
  PROVE  /\ filter' \in Filters /\ filter'.time <= now
         /\ filter'.initialized = filter.initialized
         /\ filter'.est = <<>> => filter.est = <<>> /\ filter_state_history' = <<>>
         /\ filter.est = <<>> => filter'.est = <<>>
         /\ measurement_queue' \subseteq Recent
         /\ measurement_history' \in Seq(Recent)
         /\ filter_state_history' \in Seq(States)
         /\ \A i \in DOMAIN filter_state_history' :
              /\ filter_state_history'[i].time <= now
              /\ filter_state_history'[i].est # <<>>
         /\ underrun' \in BOOLEAN
<1> DEFINE kept == Until(filter_state_history, time)
           stay == Until(measurement_history, time)
           state == IF kept # <<>> THEN Last(kept) ELSE Head(filter_state_history)
           later == {measurement_history[i] :
                       i \in Len(stay) + 1 .. Len(measurement_history)}
<1>1. /\ kept \in Seq(States) /\ Len(kept) <= Len(filter_state_history)
      /\ \A i \in 1 .. Len(kept) : kept[i] = filter_state_history[i]
  <2>1. filter_state_history \in Seq(States) /\ \A e \in States : e.time \in Int
    BY DEF Types, States
  <2> QED
    BY <2>1, UntilCut
<1>2. stay \in Seq(Recent) /\ Len(stay) \in Nat
  <2>1. measurement_history \in Seq(Recent) /\ \A e \in Recent : e.time \in Int
    BY DEF Types, Recent, Measurements
  <2> QED
    BY <2>1, UntilCut
<1> HIDE DEF kept, stay
<1>3. later \subseteq Recent
  BY <1>2 DEF Types
<1>4. ASSUME filter_state_history # <<>>
      PROVE  \E i \in DOMAIN filter_state_history : state = filter_state_history[i]
  BY <1>1, <1>4 DEF Last, Types
<1>5. underrun' \in BOOLEAN
  BY DEF RevertTo, Types
<1>6. /\ filter_state_history' = kept
      /\ IF filter_state_history = <<>>
         THEN UNCHANGED <<filter, measurement_queue, measurement_history>>
         ELSE /\ filter' = [filter EXCEPT !.est = state.est, !.time = state.time]
              /\ measurement_queue' =
                   measurement_queue \cup {m \in later : state.time <= m.time}
              /\ measurement_history' = stay
  BY DEF RevertTo, kept, stay
<1>7. \A i \in DOMAIN filter_state_history' :
        /\ filter_state_history'[i].time <= now
        /\ filter_state_history'[i].est # <<>>
  <2>1. filter_state_history \in Seq(States)
    BY DEF Types
  <2>2. \A i \in DOMAIN kept :
          i \in DOMAIN filter_state_history /\ kept[i] = filter_state_history[i]
    BY <1>1, <2>1
  <2> QED
    BY <1>6, <2>2 DEF Current
<1>8. CASE filter_state_history = <<>>
  BY <1>1, <1>5, <1>6, <1>7, <1>8 DEF Types, Current
<1>9. CASE filter_state_history # <<>>
  <2>1. state \in States /\ state.time <= now /\ state.est # <<>>
    BY <1>4, <1>9 DEF Current, Types
  <2> HIDE DEF state, later
  <2>2. /\ filter' \in Filters /\ filter'.initialized = filter.initialized
        /\ filter'.est = state.est /\ filter'.time = state.time
    BY <1>6, <1>9, <2>1 DEF Types, Filters, States
  <2>3. filter.est # <<>>
    BY <1>9 DEF Current
  <2> QED
    BY <1>1, <1>2, <1>3, <1>5, <1>6, <1>7, <1>9, <2>1, <2>2, <2>3 DEF Types
<1> QED
  BY <1>8, <1>9

(***************************************************************************)
(* The loop fuses one of the earliest.                                     *)
(***************************************************************************)
LEMMA ProcessedType ==
  ASSUME Types, Current, NEW m \in Recent, m.time <= now
  PROVE  /\ Processed(m) \in Filters
         /\ Processed(m).initialized
         /\ Processed(m).est = Append(filter.est, m)
         /\ Processed(m).time <= now
         /\ Processed(m).time = IF filter.initialized /\ m.time <= filter.time
                                THEN filter.time ELSE m.time
<1>1. /\ filter.time \in 1 .. MaxTime /\ m.time \in 1 .. MaxTime
      /\ filter.est \in Seq(Recent)
  BY DEF Types, Filters, Recent, Measurements
<1>2. Max({filter.time, m.time}) =
        IF filter.time <= m.time THEN m.time ELSE filter.time
  BY <1>1, Later
<1> QED
  BY <1>1, <1>2 DEF Processed, Filters, Current

LEMMA SavedType ==
  ASSUME Types, Current, NEW f \in Filters, f.time <= now, f.est # <<>>, NEW queue
  PROVE  /\ Saved(queue, f) \in Seq(States)
         /\ \A i \in DOMAIN Saved(queue, f) :
              Saved(queue, f)[i].time <= now /\ Saved(queue, f)[i].est # <<>>
<1> DEFINE state == [time |-> f.time, est |-> f.est]
<1>1. state \in States /\ filter_state_history \in Seq(States)
  BY DEF Types, Filters, States
<1>2. /\ Append(filter_state_history, state) \in Seq(States)
      /\ Len(Append(filter_state_history, state)) = Len(filter_state_history) + 1
      /\ \A i \in 1 .. Len(filter_state_history) :
           Append(filter_state_history, state)[i] = filter_state_history[i]
      /\ Append(filter_state_history, state)[Len(filter_state_history) + 1] = state
  BY <1>1, AppendProperties
<1>3. state.time <= now /\ state.est # <<>>
  OBVIOUS
<1> HIDE DEF state
<1>4. \A i \in 1 .. Len(filter_state_history) + 1 :
        /\ Append(filter_state_history, state)[i].time <= now
        /\ Append(filter_state_history, state)[i].est # <<>>
  <2> TAKE i \in 1 .. Len(filter_state_history) + 1
  <2>1. CASE i \in 1 .. Len(filter_state_history)
    BY <1>1, <1>2, <2>1 DEF Current
  <2>2. CASE i = Len(filter_state_history) + 1
    BY <1>2, <1>3, <2>2
  <2> QED
    BY <1>1, <2>1, <2>2
<1>5. Saved(queue, f) \in {filter_state_history, Append(filter_state_history, state)}
  BY DEF Saved, state
<1> QED
  BY <1>1, <1>2, <1>4, <1>5 DEF Current

LEMMA TypesStep == Types /\ Current /\ [Next]_vars => (Types /\ Current)'
<1> SUFFICES ASSUME Types, Current, [Next]_vars PROVE Types' /\ Current'
  OBVIOUS
<1> USE DEF Types, Current
<1>0. last_set_pose_time' = last_set_pose_time =>
        Recent' = Recent /\ Filters' = Filters /\ States' = States
  BY DEF Recent, Filters, States
<1>1. CASE Message
  <2>1. PICK in : Delivered(in) /\ Receive(in)
    BY <1>1 DEF Message
  <2>2. in.queue \subseteq Recent
    BY <2>1 DEF Delivered
  <2> QED
    BY <1>0, <2>1, <2>2 DEF Receive, Delivered, Inboxes, history
<1>2. ASSUME NEW t \in Stamps, SetPose(t) PROVE Types' /\ Current'
  <2>1. t \in 0 .. MaxTime
    BY DEF Stamps
  <2>2. /\ filter' \in Filters' /\ filter'.time = now /\ filter'.est = <<>>
    <3>1. filter' = [filter EXCEPT !.est = <<>>, !.time = now]
      BY <1>2 DEF SetPose
    <3>2. <<>> \in Seq(Recent')
      OBVIOUS
    <3>3. Filters' = [initialized : BOOLEAN, time : 1 .. MaxTime, est : Seq(Recent')]
      BY DEF Filters
    <3> QED
      BY <3>1, <3>2, <3>3 DEF Filters
  <2>3. \E b \in Nat : \A m \in enqueued' : m.n <= b
    BY <1>2 DEF SetPose
  <2>4. /\ measurement_history' = <<>> /\ filter_state_history' = <<>>
        /\ measurement_history' \in Seq(Recent') /\ filter_state_history' \in Seq(States')
    BY <1>2 DEF SetPose
  <2>5. /\ measurement_queue' = {} /\ previous' = {} /\ enqueued' = {}
        /\ underrun' = FALSE /\ last_set_pose_time' = t
        /\ UNCHANGED <<now, settings, enabled, toggled_on, last_message_times,
                       last_published_stamp, pc, sent>>
    BY <1>2 DEF SetPose, ClearMeasurementQueue
  <2>6. Types'
    BY <2>1, <2>2, <2>3, <2>4, <2>5
  <2>7. Current'
    BY <2>2, <2>4, <2>5
  <2> QED
    BY <2>6, <2>7
<1>3. ASSUME NEW on \in BOOLEAN, Toggle(on) PROVE Types' /\ Current'
  BY <1>0, <1>3 DEF Toggle, history
<1>4. CASE Enable
  BY <1>0, <1>4 DEF Enable, history
<1>5. CASE Begin
  <2>0. pc' \in {"fuse", "predict", "publish"}
    BY <1>5 DEF Begin
  <2>1. CASE measurement_queue # {} /\ Late
    <3>1. RevertTo(Earliest - 1)
      BY <1>5, <2>1 DEF Begin
    <3>2. Earliest - 1 \in Int
      BY <2>1, EarliestQueued DEF Recent
    <3>3. /\ filter' \in Filters /\ filter'.time <= now
          /\ filter'.initialized = filter.initialized
          /\ filter'.est = <<>> => filter.est = <<>> /\ filter_state_history' = <<>>
          /\ filter.est = <<>> => filter'.est = <<>>
          /\ measurement_queue' \subseteq Recent
          /\ measurement_history' \in Seq(Recent)
          /\ filter_state_history' \in Seq(States)
          /\ \A i \in DOMAIN filter_state_history' :
               /\ filter_state_history'[i].time <= now
               /\ filter_state_history'[i].est # <<>>
          /\ underrun' \in BOOLEAN
      BY <3>1, <3>2, RevertTypes
    <3> QED
      BY <1>0, <1>5, <2>0, <3>3 DEF Begin
  <2>2. CASE ~(measurement_queue # {} /\ Late)
    BY <1>0, <1>5, <2>0, <2>2 DEF Begin, history
  <2> QED
    BY <2>1, <2>2
<1>6. CASE Fuse
  <2>1. PICK m \in Due :
          /\ measurement_queue' = measurement_queue \ {m}
          /\ filter' = Processed(m)
          /\ IF settings.smooth
             THEN /\ measurement_history' = Append(measurement_history, m)
                  /\ filter_state_history' = Saved(measurement_queue \ {m},
                                                   Processed(m))
             ELSE UNCHANGED history
    BY <1>6 DEF Fuse
  <2>2. m \in Recent /\ m.time <= now
    BY DEF Due
  <2>3. /\ filter' \in Filters /\ filter'.time <= now /\ filter'.initialized
        /\ filter'.est # <<>>
    <3>1. Processed(m) \in Filters /\ Processed(m).time <= now
          /\ Processed(m).initialized /\ Processed(m).est = Append(filter.est, m)
      BY <2>2, ProcessedType
    <3>2. filter.est \in Seq(Recent)
      BY DEF Filters
    <3>3. Append(filter.est, m) # <<>>
      BY <2>2, <3>2, AppendProperties
    <3> QED
      BY <2>1, <3>1, <3>3
  <2>4. /\ measurement_history' \in Seq(Recent)
        /\ filter_state_history' \in Seq(States)
        /\ \A i \in DOMAIN filter_state_history' :
             filter_state_history'[i].time <= now /\ filter_state_history'[i].est # <<>>
    <3>1. CASE settings.smooth
      <4>1. measurement_history \in Seq(Recent)
        OBVIOUS
      <4>2. measurement_history' \in Seq(Recent)
        BY <2>1, <2>2, <3>1, <4>1, AppendProperties
      <4>3. /\ Saved(measurement_queue \ {m}, filter') \in Seq(States)
            /\ \A i \in DOMAIN Saved(measurement_queue \ {m}, filter') :
                 /\ Saved(measurement_queue \ {m}, filter')[i].time <= now
                 /\ Saved(measurement_queue \ {m}, filter')[i].est # <<>>
        BY <2>3, SavedType
      <4> QED
        BY <2>1, <3>1, <4>2, <4>3
    <3>2. CASE ~settings.smooth
      BY <2>1, <3>2 DEF history
    <3> QED
      BY <3>1, <3>2
  <2> QED
    BY <1>0, <1>6, <2>1, <2>3, <2>4 DEF Fuse
<1>7. CASE Fused
  BY <1>0, <1>7 DEF Fused, history
<1>8. CASE Predict
  <2>1. filter' \in Filters /\ filter'.time = now /\ filter'.est = filter.est
        /\ filter'.initialized = filter.initialized
    BY <1>8 DEF Predict, Filters
  <2> QED
    BY <1>0, <1>8, <2>1 DEF Predict, history
<1>9. CASE Discard
  <2>1. filter' \in Filters /\ filter'.time <= now /\ filter'.est = filter.est
        /\ filter'.initialized = filter.initialized
    BY <1>9 DEF Discard, Filters
  <2> QED
    BY <1>0, <1>9, <2>1 DEF Discard, history, ClearMeasurementQueue
<1>10. CASE Publish
  <2>1. Max({sent, filter.time}) \in 0 .. MaxTime /\ filter.time \in 0 .. MaxTime
    BY Later DEF Filters
  <2>2. sent' \in 0 .. MaxTime /\ last_published_stamp' \in 0 .. MaxTime
    BY <1>10, <2>1 DEF Publish
  <2>3. CASE settings.smooth
    <3> DEFINE cutoff == filter.time - settings.history
    <3>1. cutoff \in Int
      BY SettingsType DEF Filters
    <3>2. (\A e \in States : e.time \in Int) /\ \A e \in Recent : e.time \in Int
      BY DEF States, Recent, Measurements
    <3>3. /\ measurement_history' = Unexpired(measurement_history, cutoff)
          /\ filter_state_history' = Unexpired(filter_state_history, cutoff)
      BY <1>10, <2>3 DEF Publish
    <3> HIDE DEF cutoff
    <3>4. /\ measurement_history' \in Seq(Recent)
          /\ filter_state_history' \in Seq(States)
          /\ Len(filter_state_history) - Len(filter_state_history') >= 0
          /\ \A i \in 1 .. Len(filter_state_history') : filter_state_history'[i] =
               filter_state_history[Len(filter_state_history)
                                      - Len(filter_state_history') + i]
      BY <3>1, <3>2, <3>3, UnexpiredCut
    <3>5. \A i \in DOMAIN filter_state_history' :
            filter_state_history'[i].time <= now /\ filter_state_history'[i].est # <<>>
      <4> DEFINE k == Len(filter_state_history) - Len(filter_state_history')
      <4>1. /\ DOMAIN filter_state_history = 1 .. Len(filter_state_history)
            /\ DOMAIN filter_state_history' = 1 .. Len(filter_state_history')
            /\ Len(filter_state_history) \in Nat /\ Len(filter_state_history') \in Nat
        BY <3>4
      <4>2. \A i \in DOMAIN filter_state_history' :
              /\ k + i \in DOMAIN filter_state_history
              /\ filter_state_history'[i] = filter_state_history[k + i]
        BY <3>4, <4>1
      <4> HIDE DEF k
      <4> QED
        BY <4>2
    <3>6. filter.est = <<>> => filter_state_history' = <<>>
      BY <3>4
    <3> QED
      BY <1>0, <1>10, <2>2, <3>4, <3>5, <3>6 DEF Publish
  <2>4. CASE ~settings.smooth
    BY <1>0, <1>10, <2>2, <2>4 DEF Publish, history
  <2> QED
    BY <2>3, <2>4
<1>11. CASE Advance
  <2>1. now' \in 1 .. MaxTime /\ now <= now'
    BY <1>11, FilterAssumption DEF Advance
  <2>2. filter.time \in Int
    BY DEF Filters
  <2>3. \A i \in DOMAIN filter_state_history : filter_state_history[i] \in States
    OBVIOUS
  <2>4. \A i \in DOMAIN filter_state_history : filter_state_history[i].time \in Int
    BY <2>3 DEF States
  <2> QED
    BY <1>0, <1>11, <2>1, <2>2, <2>4 DEF Advance, history
<1>12. CASE UNCHANGED vars
  BY <1>0, <1>12 DEF vars, history
<1> QED
  BY <1>1, <1>2, <1>3, <1>4, <1>5, <1>6, <1>7, <1>8, <1>9, <1>10, <1>11, <1>12,
     MessageReceived
  DEF Next, Tick


-----------------------------------------------------------------------------
(***************************************************************************)
(* The history of a filter that smooths: an estimate est of a time, the    *)
(* states it was saved in, and the measurements that are kept.             *)
(***************************************************************************)

StatesOf(M) == [time : Int, est : Seq(M)]
Length(states, i) == Len(states[i].est)

\* Saved states are estimates on the way to the present one, in order.
Ancestry(est, time, states) ==
  /\ InTimeOrder(est) /\ InTimeOrder(states)
  /\ \A p \in 1 .. Len(est) : est[p].time <= time
  /\ \A i \in 1 .. Len(states) :
       /\ states[i].time <= time
       /\ Length(states, i) <= Len(est)
       /\ \A p \in 1 .. Length(states, i) :
            states[i].est[p] = est[p] /\ est[p].time <= states[i].time
  /\ \A i, j \in 1 .. Len(states) : i < j => Length(states, i) <= Length(states, j)

\* What was fused since a state has the time that the next one came to.
Borders(est, time, states) ==
  \A i \in 1 .. Len(states) : \A p \in Length(states, i) + 1 .. Len(est) :
    /\ i < Len(states) /\ states[i].time < states[i + 1].time =>
         est[p].time >= states[i + 1].time
    /\ i = Len(states) /\ states[i].time < time => est[p].time >= time

\* The last state saved under its time: the one to revert to.
Final(states, i) == i = Len(states) \/ states[i].time < states[i + 1].time

\* The measurements that are kept are the end of the estimate, back to every
\* state that may be reverted to.
Suffix(est, kept, states) ==
  LET dropped == Len(est) - Len(kept) IN
  /\ dropped >= 0
  /\ \A x \in 1 .. Len(kept) : kept[x] = est[dropped + x]
  /\ \A i \in 1 .. Len(states) : Final(states, i) => dropped <= Length(states, i)

AllSaved(est, states) ==
  states # <<>> => Length(states, Len(states)) = Len(est)

LEMMA StatesTyped ==
  ASSUME NEW M, NEW states \in Seq(StatesOf(M))
  PROVE  \A i \in 1 .. Len(states) :
           /\ states[i].time \in Int /\ states[i].est \in Seq(M)
           /\ Length(states, i) \in Nat
<1> SUFFICES ASSUME NEW i \in 1 .. Len(states)
             PROVE  /\ states[i].time \in Int /\ states[i].est \in Seq(M)
                    /\ Len(states[i].est) \in Nat
  BY DEF Length
<1>1. states[i] \in StatesOf(M)
  OBVIOUS
<1> QED
  BY <1>1 DEF StatesOf

LEMMA InOrder ==
  ASSUME NEW S, NEW ms \in Seq(S)
  PROVE  InTimeOrder(ms) <=>
           \A i, j \in 1 .. Len(ms) : i < j => ms[i].time <= ms[j].time
  BY DEF InTimeOrder

\* Time passes, or is predicted to pass, when all is saved.
LEMMA TimePasses ==
  ASSUME NEW M, NEW est \in Seq(M), \A m \in M : m.time \in Int,
         NEW time \in Int, NEW states \in Seq(StatesOf(M)),
         Ancestry(est, time, states), Borders(est, time, states),
         AllSaved(est, states), NEW then \in Int, time <= then
  PROVE  Ancestry(est, then, states) /\ Borders(est, then, states)
<1>1. \A p \in 1 .. Len(est) : est[p].time \in Int
  OBVIOUS
<1>2. \A i \in 1 .. Len(states) : states[i].time \in Int /\ Length(states, i) \in Nat
  BY StatesTyped
<1>3. Ancestry(est, then, states)
  BY <1>1, <1>2 DEF Ancestry
<1>4. Borders(est, then, states)
  BY <1>1, <1>2 DEF Borders, AllSaved
<1> QED
  BY <1>3, <1>4

\* A measurement that is not older than the estimate is fused into it.
LEMMA FusedIn ==
  ASSUME NEW M, \A m \in M : m.time \in Int, NEW est \in Seq(M), NEW time \in Int,
         NEW kept \in Seq(M), NEW states \in Seq(StatesOf(M)),
         Ancestry(est, time, states), Borders(est, time, states),
         Suffix(est, kept, states),
         NEW m \in M, \A p \in 1 .. Len(est) : est[p].time <= m.time,
         time <= m.time \/ \A i \in 1 .. Len(states) : states[i].time = time,
         AllSaved(est, states) \/ m.time <= time,
         NEW then \in Int, m.time <= then,
         states = <<>> \/ then = IF m.time <= time THEN time ELSE m.time
  PROVE  /\ Ancestry(Append(est, m), then, states)
         /\ Borders(Append(est, m), then, states)
         /\ Suffix(Append(est, m), Append(kept, m), states)
<1> DEFINE more == Append(est, m)
<1>1. /\ more \in Seq(M) /\ Len(more) = Len(est) + 1 /\ Len(est) \in Nat
      /\ \A p \in 1 .. Len(est) : more[p] = est[p]
      /\ more[Len(est) + 1] = m
  BY AppendProperties
<1>2. /\ Append(kept, m) \in Seq(M) /\ Len(Append(kept, m)) = Len(kept) + 1
      /\ Len(kept) \in Nat
      /\ \A p \in 1 .. Len(kept) : Append(kept, m)[p] = kept[p]
      /\ Append(kept, m)[Len(kept) + 1] = m
  BY AppendProperties
<1>3. \A i \in 1 .. Len(states) : states[i].time \in Int /\ Length(states, i) \in Nat
  BY StatesTyped
<1>4. \A p \in 1 .. Len(est) : est[p].time \in Int
  OBVIOUS
<1>5. \A i \in 1 .. Len(states) : Length(states, i) <= Len(est)
  BY DEF Ancestry
<1>6. Len(est) \in Nat
  OBVIOUS
<1> HIDE DEF more
<1>7. \A p \in 1 .. Len(more) : more[p].time \in Int /\ more[p].time <= m.time
  BY <1>1, <1>4
<1>8. Ancestry(more, then, states)
  <2>1. InTimeOrder(more)
    <3> SUFFICES ASSUME NEW i \in 1 .. Len(more), NEW j \in 1 .. Len(more), i < j
                 PROVE  more[i].time <= more[j].time
      BY <1>1 DEF InTimeOrder
    <3>1. CASE j = Len(est) + 1
      BY <1>1, <1>7, <3>1
    <3>2. CASE j # Len(est) + 1
      <4>1. i \in 1 .. Len(est) /\ j \in 1 .. Len(est)
        <5> DEFINE n == Len(est)
        <5>1. n \in Nat /\ i \in 1 .. n + 1 /\ j \in 1 .. n + 1 /\ i < j /\ j # n + 1
          BY <1>1, <3>2
        <5> HIDE DEF n
        <5>2. i \in 1 .. n /\ j \in 1 .. n
          BY <5>1
        <5> QED
          BY <5>2 DEF n
      <4>2. est[i].time <= est[j].time
        BY <4>1 DEF Ancestry, InTimeOrder
      <4> QED
        BY <1>1, <4>1, <4>2
    <3> QED
      BY <3>1, <3>2
  <2>2. \A i \in 1 .. Len(states) : states[i].time <= then
    BY <1>3 DEF Ancestry
  <2>3. \A p \in 1 .. Len(more) : more[p].time <= then
    BY <1>7
  <2>4. \A i \in 1 .. Len(states) : \A p \in 1 .. Length(states, i) :
          states[i].est[p] = more[p] /\ more[p].time <= states[i].time
    <3> TAKE i \in 1 .. Len(states)
    <3> TAKE p \in 1 .. Length(states, i)
    <3>1. Length(states, i) \in Nat /\ Length(states, i) <= Len(est)
      BY <1>3, <1>5
    <3>2. p \in 1 .. Len(est)
      BY <1>6, <3>1
    <3>3. states[i].est[p] = est[p] /\ est[p].time <= states[i].time
      BY DEF Ancestry
    <3> QED
      BY <1>1, <3>2, <3>3
  <2>5. \A i \in 1 .. Len(states) : Length(states, i) <= Len(more)
    BY <1>1, <1>3, <1>5
  <2> QED
    BY <2>1, <2>2, <2>3, <2>4, <2>5 DEF Ancestry
<1>9. Borders(more, then, states)
  <2> SUFFICES ASSUME NEW i \in 1 .. Len(states),
                      NEW p \in Length(states, i) + 1 .. Len(more)
               PROVE  /\ i < Len(states) /\ states[i].time < states[i + 1].time =>
                           more[p].time >= states[i + 1].time
                      /\ i = Len(states) /\ states[i].time < then =>
                           more[p].time >= then
    BY DEF Borders
  <2>0. Length(states, i) \in Nat /\ Len(more) = Len(est) + 1
    BY <1>1, <1>3
  <2>1. p \in Int /\ p <= Len(est) + 1 /\ p >= Length(states, i) + 1
        /\ (p = Len(est) + 1 \/ p \in 1 .. Len(est))
    BY <1>6, <2>0
  <2>2. ASSUME i < Len(states), states[i].time < states[i + 1].time
        PROVE  more[p].time >= states[i + 1].time
    <3>1. i + 1 \in 1 .. Len(states) /\ states[i + 1].time <= time
      BY <2>2 DEF Ancestry
    <3>2. time <= m.time
      BY <1>3, <2>2, <3>1
    <3>3. CASE p = Len(est) + 1
      BY <1>1, <1>3, <3>1, <3>2, <3>3
    <3>4. CASE p \in 1 .. Len(est)
      <4>1. p \in Length(states, i) + 1 .. Len(est)
        BY <1>6, <2>0, <2>1, <3>4
      <4>2. est[p].time >= states[i + 1].time
        BY <2>2, <4>1 DEF Borders
      <4> QED
        BY <1>1, <3>4, <4>2
    <3> QED
      BY <2>1, <3>3, <3>4
  <2>3. ASSUME i = Len(states), states[i].time < then
        PROVE  more[p].time >= then
    <3>1. states # <<>> /\ then = IF m.time <= time THEN time ELSE m.time
      OBVIOUS
    <3>2. time <= m.time /\ then = m.time
      BY <1>3, <2>3, <3>1
    <3>3. CASE p = Len(est) + 1
      BY <1>1, <3>2, <3>3
    <3>4. CASE p \in 1 .. Len(est)
      <4>1. ~AllSaved(est, states)
        BY <1>3, <2>3, <3>1, <3>4 DEF AllSaved
      <4>2. m.time = time
        BY <3>2, <4>1
      <4>3. est[p].time >= time
        BY <1>3, <2>3, <3>2, <3>4, <4>2 DEF Borders
      <4> QED
        BY <1>1, <3>2, <3>4, <4>2, <4>3
    <3> QED
      BY <2>1, <3>3, <3>4
  <2> QED
    BY <2>2, <2>3
<1>10. Suffix(more, Append(kept, m), states)
  <2> DEFINE dropped == Len(est) - Len(kept)
  <2>1. dropped \in Nat /\ Len(more) - Len(Append(kept, m)) = dropped
    BY <1>1, <1>2 DEF Suffix
  <2>2. \A x \in 1 .. Len(kept) : kept[x] = est[dropped + x]
    BY DEF Suffix
  <2>3. \A x \in 1 .. Len(kept) + 1 : Append(kept, m)[x] = more[dropped + x]
    <3> TAKE x \in 1 .. Len(kept) + 1
    <3>1. CASE x = Len(kept) + 1
      BY <1>1, <1>2, <2>1, <3>1
    <3>2. CASE x \in 1 .. Len(kept)
      <4>1. dropped + x \in 1 .. Len(est)
        BY <1>2, <1>6, <2>1, <3>2
      <4> HIDE DEF dropped
      <4> QED
        BY <1>1, <1>2, <2>2, <3>2, <4>1
    <3> QED
      BY <1>2, <3>1, <3>2
  <2> QED
    BY <1>2, <2>1, <2>3 DEF Suffix
<1> QED
  BY <1>8, <1>9, <1>10 DEF more

\* The estimate is saved under the filter's time.
LEMMA SavedAway ==
  ASSUME NEW M, \A m \in M : m.time \in Int, NEW est \in Seq(M), NEW time \in Int,
         NEW kept \in Seq(M), NEW states \in Seq(StatesOf(M)),
         Ancestry(est, time, states), Borders(est, time, states),
         Suffix(est, kept, states)
  PROVE  LET saved == Append(states, [time |-> time, est |-> est]) IN
         /\ Ancestry(est, time, saved)
         /\ Borders(est, time, saved)
         /\ Suffix(est, kept, saved)
         /\ AllSaved(est, saved)
<1> DEFINE state == [time |-> time, est |-> est]
           saved == Append(states, state)
           last == Len(states) + 1
<1>1. /\ saved \in Seq(StatesOf(M)) /\ Len(saved) = last
      /\ \A i \in 1 .. Len(states) : saved[i] = states[i]
      /\ saved[last].time = time /\ saved[last].est = est
  <2>1. state \in StatesOf(M)
    BY DEF StatesOf
  <2> QED
    BY <2>1, AppendProperties
<1>2. Len(est) \in Nat /\ Len(states) \in Nat /\ Len(kept) \in Nat /\ last \in Nat
  OBVIOUS
<1> HIDE DEF saved
<1>3. /\ Length(saved, last) = Len(est)
      /\ \A i \in 1 .. Len(states) : Length(saved, i) = Length(states, i)
  BY <1>1 DEF Length
<1>4. \A i \in 1 .. last : i = last \/ i \in 1 .. Len(states)
  BY <1>2
<1>5. \A i \in 1 .. Len(states) :
        /\ states[i].time \in Int /\ states[i].time <= time
        /\ Length(states, i) \in Nat /\ Length(states, i) <= Len(est)
  BY StatesTyped DEF Ancestry
<1>6. Ancestry(est, time, saved)
  <2>1. InTimeOrder(saved)
    <3> SUFFICES ASSUME NEW i \in 1 .. last, NEW j \in 1 .. last, i < j
                 PROVE  saved[i].time <= saved[j].time
      BY <1>1 DEF InTimeOrder
    <3>1. i \in 1 .. Len(states)
      BY <1>2
    <3>2. CASE j = last
      BY <1>1, <1>5, <3>1, <3>2
    <3>3. CASE j \in 1 .. Len(states)
      <4>1. states[i].time <= states[j].time
        BY <3>1, <3>3, InOrder DEF Ancestry
      <4> QED
        BY <1>1, <3>1, <3>3, <4>1
    <3> QED
      BY <1>4, <3>2, <3>3
  <2>2. \A i \in 1 .. last :
          /\ saved[i].time <= time /\ Length(saved, i) <= Len(est)
          /\ \A p \in 1 .. Length(saved, i) :
               saved[i].est[p] = est[p] /\ est[p].time <= saved[i].time
    <3> TAKE i \in 1 .. last
    <3>1. CASE i = last
      BY <1>1, <1>2, <1>3, <3>1 DEF Ancestry
    <3>2. CASE i \in 1 .. Len(states)
      BY <1>1, <1>3, <1>5, <3>2 DEF Ancestry
    <3> QED
      BY <1>4, <3>1, <3>2
  <2>3. \A i, j \in 1 .. last : i < j => Length(saved, i) <= Length(saved, j)
    <3> SUFFICES ASSUME NEW i \in 1 .. last, NEW j \in 1 .. last, i < j
                 PROVE  Length(saved, i) <= Length(saved, j)
      OBVIOUS
    <3>1. i \in 1 .. Len(states)
      BY <1>2
    <3>2. CASE j = last
      BY <1>3, <1>5, <3>1, <3>2
    <3>3. CASE j \in 1 .. Len(states)
      BY <1>3, <3>1, <3>3 DEF Ancestry
    <3> QED
      BY <1>4, <3>2, <3>3
  <2> QED
    BY <1>1, <2>1, <2>2, <2>3 DEF Ancestry
<1>7. Borders(est, time, saved)
  <2> SUFFICES ASSUME NEW i \in 1 .. last, NEW p \in Length(saved, i) + 1 .. Len(est)
               PROVE  /\ i < last /\ saved[i].time < saved[i + 1].time =>
                           est[p].time >= saved[i + 1].time
                      /\ i = last /\ saved[i].time < time => est[p].time >= time
    BY <1>1 DEF Borders
  <2>1. CASE i = last
    BY <1>2, <1>3, <2>1
  <2>2. CASE i \in 1 .. Len(states) /\ i = Len(states)
    BY <1>1, <1>2, <1>3, <2>2 DEF Borders
  <2>3. CASE i \in 1 .. Len(states) /\ i < Len(states)
    <3>1. i + 1 \in 1 .. Len(states) /\ p \in Length(states, i) + 1 .. Len(est)
      BY <1>2, <1>3, <2>3
    <3> QED
      BY <1>1, <1>2, <2>3, <3>1 DEF Borders
  <2> QED
    BY <1>2, <1>4, <2>1, <2>2, <2>3
<1>8. Suffix(est, kept, saved)
  <2> DEFINE dropped == Len(est) - Len(kept)
  <2>1. \A x \in 1 .. Len(kept) : kept[x] = est[dropped + x]
    BY DEF Suffix
  <2>2. \A i \in 1 .. Len(states) : Final(states, i) => dropped <= Length(states, i)
    BY DEF Suffix
  <2>3. dropped \in Int /\ dropped >= 0 /\ dropped <= Len(est)
    BY <1>2 DEF Suffix
  <2> HIDE DEF dropped
  <2>4. ASSUME NEW i \in 1 .. last, Final(saved, i) PROVE dropped <= Length(saved, i)
    <3>1. CASE i = last
      BY <1>3, <2>3, <3>1
    <3>2. CASE i \in 1 .. Len(states) /\ i = Len(states)
      BY <1>3, <2>2, <3>2 DEF Final
    <3>3. CASE i \in 1 .. Len(states) /\ i < Len(states)
      <4>1. i + 1 \in 1 .. Len(states)
        BY <1>2, <3>3
      <4> QED
        BY <1>1, <1>2, <1>3, <2>2, <2>4, <3>3, <4>1 DEF Final
    <3> QED
      BY <1>2, <1>4, <3>1, <3>2, <3>3
  <2> QED
    BY <1>1, <2>1, <2>3, <2>4 DEF Suffix, dropped
<1>9. AllSaved(est, saved)
  BY <1>1, <1>3 DEF AllSaved
<1> QED
  BY <1>6, <1>7, <1>8, <1>9 DEF saved

\* Arithmetic of two indices.
LEMMA Between ==
  ASSUME NEW a \in Int, NEW b \in Int, a <= b, a >= b
  PROVE  a = b
  OBVIOUS

LEMMA Shifted ==
  ASSUME NEW k \in Int, NEW i \in Int, NEW l \in Int, 1 <= i
  PROVE  /\ k + i = k + l <=> i = l
         /\ k + i < k + l <=> i < l
         /\ i < l => i + 1 \in 1 .. l
         /\ k + (i + 1) = (k + i) + 1
  OBVIOUS

\* Old history is cleared.
LEMMA Expired ==
  ASSUME NEW M, \A m \in M : m.time \in Int, NEW est \in Seq(M), NEW time \in Int,
         NEW kept \in Seq(M), NEW states \in Seq(StatesOf(M)),
         Ancestry(est, time, states), Borders(est, time, states),
         Suffix(est, kept, states), AllSaved(est, states), NEW cutoff \in Int
  PROVE  LET live == Unexpired(states, cutoff) IN
         /\ Ancestry(est, time, live)
         /\ Borders(est, time, live)
         /\ Suffix(est, Unexpired(kept, cutoff), live)
         /\ AllSaved(est, live)
<1> DEFINE live == Unexpired(states, cutoff)
           rest == Unexpired(kept, cutoff)
           k == Len(states) - Len(live)
           l == Len(kept) - Len(rest)
<1>1. /\ live \in Seq(StatesOf(M)) /\ k >= 0
      /\ \A i \in 1 .. Len(live) : live[i] = states[k + i]
      /\ live # <<>> => states[k + 1].time >= cutoff
  <2>1. \A e \in StatesOf(M) : e.time \in Int
    BY DEF StatesOf
  <2> QED
    BY <2>1, UnexpiredCut
<1>2. /\ rest \in Seq(M) /\ l >= 0
      /\ \A x \in 1 .. Len(rest) : rest[x] = kept[l + x]
      /\ \A x \in 1 .. l : kept[x].time < cutoff
  BY UnexpiredCut
<1> HIDE DEF live, rest
<1>3. /\ Len(live) \in Nat /\ Len(states) = k + Len(live) /\ k \in Nat
      /\ Len(rest) \in Nat /\ Len(kept) = l + Len(rest) /\ l \in Nat
      /\ Len(est) \in Nat
  BY <1>1, <1>2
<1> HIDE DEF k, l
<1>4. \A i \in 1 .. Len(live) :
        /\ k + i \in 1 .. Len(states) /\ live[i] = states[k + i]
        /\ Length(live, i) = Length(states, k + i)
  BY <1>1, <1>3 DEF Length
<1>5. \A i \in 1 .. Len(states) :
        /\ states[i].time \in Int /\ Length(states, i) \in Nat
        /\ Length(states, i) <= Len(est)
  BY StatesTyped DEF Ancestry
<1>6. Ancestry(est, time, live)
  <2>1. InTimeOrder(live)
    <3> SUFFICES ASSUME NEW i \in 1 .. Len(live), NEW j \in 1 .. Len(live), i < j
                 PROVE  live[i].time <= live[j].time
      BY <1>1 DEF InTimeOrder
    <3>1. k + i < k + j
      BY <1>3
    <3> QED
      BY <1>4, <3>1 DEF Ancestry, InTimeOrder
  <2>2. \A i, j \in 1 .. Len(live) : i < j => Length(live, i) <= Length(live, j)
    <3> SUFFICES ASSUME NEW i \in 1 .. Len(live), NEW j \in 1 .. Len(live), i < j
                 PROVE  Length(live, i) <= Length(live, j)
      OBVIOUS
    <3>1. k + i < k + j
      BY <1>3
    <3> QED
      BY <1>4, <3>1 DEF Ancestry
  <2> QED
    BY <1>4, <2>1, <2>2 DEF Ancestry
<1>7. \A i \in 1 .. Len(live) :
        /\ k + i = Len(states) <=> i = Len(live)
        /\ k + i < Len(states) <=> i < Len(live)
        /\ i < Len(live) => i + 1 \in 1 .. Len(live) /\ live[i + 1] = states[(k + i) + 1]
  <2> TAKE i \in 1 .. Len(live)
  <2>1. /\ k + i = Len(states) <=> i = Len(live)
        /\ k + i < Len(states) <=> i < Len(live)
        /\ i < Len(live) => i + 1 \in 1 .. Len(live) /\ k + (i + 1) = (k + i) + 1
    <3>1. /\ i \in Int /\ 1 <= i /\ Len(live) \in Int /\ k \in Int
          /\ Len(states) = k + Len(live)
      BY <1>3
    <3>2. /\ k + i = k + Len(live) <=> i = Len(live)
          /\ k + i < k + Len(live) <=> i < Len(live)
          /\ i < Len(live) => i + 1 \in 1 .. Len(live)
          /\ k + (i + 1) = (k + i) + 1
      BY <3>1, Shifted
    <3> QED
      BY <3>1, <3>2, Zenon
  <2>2. ASSUME i < Len(live) PROVE live[i + 1] = states[(k + i) + 1]
    <3>1. live[i + 1] = states[k + (i + 1)]
      BY <1>4, <2>1, <2>2
    <3> QED
      BY <2>1, <2>2, <3>1
  <2> QED
    BY <2>1, <2>2
<1>8. Borders(est, time, live)
  BY <1>4, <1>7 DEF Borders
<1>9. Suffix(est, rest, live)
  <2> DEFINE dropped == Len(est) - Len(kept)
  <2>1. /\ dropped \in Nat
        /\ \A x \in 1 .. Len(kept) : kept[x] = est[dropped + x]
        /\ \A i \in 1 .. Len(states) : Final(states, i) => dropped <= Length(states, i)
    BY <1>3 DEF Suffix
  <2>2. Len(est) - Len(rest) = dropped + l /\ dropped + l \in Nat
        /\ dropped + l <= Len(est) /\ dropped + Len(kept) = Len(est)
    BY <1>3, <2>1
  <2> HIDE DEF dropped
  <2>3. \A x \in 1 .. Len(rest) : rest[x] = est[(dropped + l) + x]
    <3> TAKE x \in 1 .. Len(rest)
    <3>1. l + x \in 1 .. Len(kept) /\ dropped + (l + x) = (dropped + l) + x
      BY <1>3, <2>1
    <3> QED
      BY <1>2, <2>1, <3>1
  <2>4. ASSUME NEW i \in 1 .. Len(live), Final(live, i)
        PROVE  dropped + l <= Length(live, i)
    <3> DEFINE j == k + i
    <3>1. j \in 1 .. Len(states) /\ Final(states, j) /\ Length(live, i) = Length(states, j)
      BY <1>4, <1>7, <2>4 DEF Final
    <3>2. CASE j = Len(states)
      <4>1. Length(states, j) = Len(est)
        BY <1>3, <3>1, <3>2 DEF AllSaved
      <4> QED
        BY <2>2, <3>1, <4>1
    <3>3. CASE j # Len(states) /\ l = 0
      BY <1>5, <2>1, <3>1, <3>3
    <3>4. CASE j # Len(states) /\ l # 0
      <4>1. states[j].time < states[j + 1].time /\ j + 1 \in 1 .. Len(states)
        BY <1>3, <3>1, <3>4 DEF Final
      <4>2. cutoff <= states[j].time
        <5>1. k + 1 \in 1 .. Len(states) /\ states[k + 1].time >= cutoff
          BY <1>1, <1>3, <3>1
        <5>2. k + 1 = j \/ k + 1 < j
          BY <1>3
        <5>3. states[k + 1].time <= states[j].time
          BY <1>5, <3>1, <5>1, <5>2 DEF Ancestry, InTimeOrder
        <5> QED
          BY <1>5, <3>1, <5>1, <5>3
      <4>3. l \in 1 .. Len(kept) /\ kept[l].time < cutoff
        BY <1>2, <1>3, <3>4
      <4>4. dropped + l \in 1 .. Len(est) /\ est[dropped + l].time < cutoff
        BY <1>3, <2>1, <2>2, <4>3
      <4>5. est[dropped + l].time \in Int
        BY <4>4
      <4>6. ~(dropped + l \in Length(states, j) + 1 .. Len(est))
        <5> SUFFICES ASSUME dropped + l \in Length(states, j) + 1 .. Len(est)
                     PROVE  FALSE
          OBVIOUS
        <5>1. j < Len(states)
          <6>1. j \in Int /\ j <= Len(states) /\ Len(states) \in Int
            BY <1>3, <3>1
          <6> HIDE DEF j
          <6> QED
            BY <3>4, <6>1
        <5>2. est[dropped + l].time >= states[j + 1].time
          BY <3>1, <4>1, <5>1 DEF Borders
        <5>3. states[j].time \in Int /\ states[j + 1].time \in Int
          BY <1>5, <3>1, <4>1
        <5> HIDE DEF j
        <5> QED
          BY <4>1, <4>2, <4>4, <4>5, <5>2, <5>3
      <4> QED
        BY <1>3, <1>5, <2>2, <3>1, <4>6
    <3> QED
      BY <3>2, <3>3, <3>4
  <2> QED
    BY <1>3, <2>2, <2>3, <2>4 DEF Suffix
<1>10. AllSaved(est, live)
  <2> SUFFICES ASSUME live # <<>> PROVE Length(live, Len(live)) = Len(est)
    BY DEF AllSaved
  <2>1. Len(live) \in 1 .. Len(live) /\ k + Len(live) = Len(states) /\ states # <<>>
    BY <1>1, <1>3
  <2> QED
    BY <1>4, <2>1 DEF AllSaved
<1> QED
  BY <1>6, <1>8, <1>9, <1>10 DEF live, rest

\* The members of a sequence from its place i to its place j.
Stretch(ms, i, j) == {ms[x] : x \in i .. j}

\* A late measurement reverts the estimate to the last state before it: what
\* was fused since then, and nothing else, comes back, all of it later.
LEMMA Reverted ==
  ASSUME NEW M, \A m \in M : m.time \in Int, NEW est \in Seq(M), NEW time \in Int,
         NEW kept \in Seq(M), NEW states \in Seq(StatesOf(M)),
         Ancestry(est, time, states), Borders(est, time, states),
         Suffix(est, kept, states), AllSaved(est, states),
         NEW before \in Int, Until(states, before) # <<>>
  PROVE  LET old == Until(states, before)
             stay == Until(kept, before)
             state == Last(old)
         IN
         /\ old \in Seq(StatesOf(M)) /\ stay \in Seq(M)
         /\ state.est \in Seq(M) /\ state.time \in Int /\ state.time <= before
         /\ Len(state.est) <= Len(est)
         /\ \A p \in 1 .. Len(state.est) : state.est[p] = est[p]
         /\ Stretch(kept, Len(stay) + 1, Len(kept)) =
              Stretch(est, Len(state.est) + 1, Len(est))
         /\ \A p \in Len(state.est) + 1 .. Len(est) : est[p].time > before
         /\ Ancestry(state.est, state.time, old)
         /\ Borders(state.est, state.time, old)
         /\ Suffix(state.est, stay, old)
         /\ AllSaved(state.est, old)
<1> DEFINE old == Until(states, before)
           stay == Until(kept, before)
           k == Len(old)
           state == Last(old)
           n == Len(state.est)
           dropped == Len(est) - Len(kept)
<1>1. /\ old \in Seq(StatesOf(M)) /\ k <= Len(states)
      /\ \A i \in 1 .. k : old[i] = states[i]
      /\ old[k].time <= before
      /\ \A i \in k + 1 .. Len(states) : states[i].time > before
  <2>1. \A e \in StatesOf(M) : e.time \in Int
    BY DEF StatesOf
  <2> QED
    BY <2>1, UntilCut
<1>2. /\ stay \in Seq(M) /\ Len(stay) <= Len(kept)
      /\ \A x \in 1 .. Len(stay) : stay[x] = kept[x]
      /\ stay # <<>> => stay[Len(stay)].time <= before
      /\ \A x \in Len(stay) + 1 .. Len(kept) : kept[x].time > before
  BY UntilCut
<1>0. old # <<>>
  OBVIOUS
<1> HIDE DEF old, stay
<1>3. /\ k \in 1 .. Len(states) /\ k \in Nat /\ Len(states) \in Nat
      /\ Len(stay) \in Nat /\ Len(kept) \in Nat /\ Len(est) \in Nat
  BY <1>0, <1>1, <1>2
<1>4. state = states[k] /\ n = Length(states, k)
  BY <1>1, <1>3 DEF Last, Length
<1>5. \A i \in 1 .. Len(states) :
        /\ states[i].time \in Int /\ states[i].est \in Seq(M)
        /\ Length(states, i) \in Nat /\ Length(states, i) <= Len(est)
  BY StatesTyped DEF Ancestry
<1>6. /\ state.est \in Seq(M) /\ state.time \in Int /\ state.time <= before
      /\ n \in Nat /\ n <= Len(est)
      /\ \A p \in 1 .. n : state.est[p] = est[p] /\ est[p].time <= state.time
  <2>1. states[k].time <= before
    BY <1>1, <1>3
  <2>2. \A p \in 1 .. Length(states, k) :
          states[k].est[p] = est[p] /\ est[p].time <= states[k].time
    BY <1>3 DEF Ancestry
  <2>3. /\ states[k].est \in Seq(M) /\ states[k].time \in Int
        /\ Length(states, k) \in Nat /\ Length(states, k) <= Len(est)
    BY <1>3, <1>5
  <2> HIDE DEF state, k
  <2> QED
    BY <1>4, <2>1, <2>2, <2>3
<1>7. \A p \in 1 .. Len(est) : est[p].time \in Int
  OBVIOUS
<1> HIDE DEF state, k
<1>8. \A p \in n + 1 .. Len(est) : est[p].time > before
  <2> TAKE p \in n + 1 .. Len(est)
  <2>1. k # Len(states)
    BY <1>3, <1>4, <1>6 DEF AllSaved
  <2>2. k + 1 \in k + 1 .. Len(states) /\ k + 1 \in 1 .. Len(states) /\ k < Len(states)
    BY <1>3, <2>1
  <2>3. states[k].time < states[k + 1].time /\ states[k + 1].time > before
    BY <1>1, <1>3, <1>4, <1>5, <1>6, <2>2
  <2>4. est[p].time >= states[k + 1].time
    BY <1>3, <1>4, <2>2, <2>3 DEF Borders
  <2>5. p \in 1 .. Len(est)
    BY <1>3, <1>6
  <2> QED
    BY <1>5, <1>7, <2>2, <2>3, <2>4, <2>5
<1>9. Final(states, k)
  BY <1>1, <1>3, <1>4, <1>5, <1>6 DEF Final
<1>10. /\ dropped \in Nat /\ dropped <= n /\ dropped + Len(kept) = Len(est)
       /\ \A x \in 1 .. Len(kept) : kept[x] = est[dropped + x]
  BY <1>3, <1>4, <1>9 DEF Suffix
<1> HIDE DEF dropped, n
<1>11. dropped + Len(stay) = n
  <2>0. dropped \in Nat /\ Len(stay) \in Nat /\ n \in Nat
    BY <1>3, <1>6, <1>10
  <2>1. dropped + Len(stay) <= n
    <3> SUFFICES ASSUME dropped + Len(stay) > n PROVE FALSE
      BY <2>0
    <3>1. Len(stay) \in 1 .. Len(kept) /\ stay # <<>>
      BY <1>2, <1>3, <1>6, <1>10
    <3>2. est[dropped + Len(stay)].time <= before
      BY <1>2, <1>3, <1>10, <3>1
    <3>3. dropped + Len(stay) \in n + 1 .. Len(est)
      BY <1>2, <1>3, <1>6, <1>10
    <3> QED
      BY <1>3, <1>6, <1>7, <1>8, <3>2, <3>3
  <2>2. dropped + Len(stay) >= n
    <3> SUFFICES ASSUME dropped + Len(stay) < n PROVE FALSE
      BY <2>0
    <3> DEFINE x == Len(stay) + 1
    <3>1. x \in Len(stay) + 1 .. Len(kept) /\ x \in 1 .. Len(kept)
          /\ dropped + x \in 1 .. n
      BY <1>2, <1>3, <1>6, <1>10
    <3>2. est[dropped + x].time > before
      BY <1>2, <1>10, <3>1
    <3>3. est[dropped + x].time <= state.time /\ dropped + x \in 1 .. Len(est)
      BY <1>3, <1>6, <3>1
    <3> QED
      BY <1>6, <1>7, <3>2, <3>3
  <2>3. dropped + Len(stay) \in Int /\ n \in Int
    BY <2>0
  <2> QED
    BY <2>1, <2>2, <2>3, Between
<1>12. Stretch(kept, Len(stay) + 1, Len(kept)) = Stretch(est, n + 1, Len(est))
  <2>1. ASSUME NEW x \in Len(stay) + 1 .. Len(kept)
        PROVE  \E p \in n + 1 .. Len(est) : kept[x] = est[p]
    <3>1. dropped + x \in n + 1 .. Len(est) /\ x \in 1 .. Len(kept)
      BY <1>3, <1>6, <1>10, <1>11
    <3> QED
      BY <1>10, <3>1
  <2>2. ASSUME NEW p \in n + 1 .. Len(est)
        PROVE  \E x \in Len(stay) + 1 .. Len(kept) : kept[x] = est[p]
    <3>1. /\ p - dropped \in Len(stay) + 1 .. Len(kept)
          /\ p - dropped \in 1 .. Len(kept) /\ dropped + (p - dropped) = p
      BY <1>3, <1>6, <1>10, <1>11
    <3> QED
      BY <1>10, <3>1
  <2>3. \A m : (\E x \in Len(stay) + 1 .. Len(kept) : m = kept[x])
                 <=> \E p \in n + 1 .. Len(est) : m = est[p]
    BY <2>1, <2>2
  <2> QED
    BY <2>3 DEF Stretch
<1>13. \A i \in 1 .. k : /\ i \in 1 .. Len(states) /\ old[i] = states[i]
                         /\ Length(old, i) = Length(states, i)
                         /\ Length(old, i) <= n
  <2> TAKE i \in 1 .. k
  <2>1. i \in 1 .. Len(states) /\ old[i] = states[i]
    BY <1>1, <1>3 DEF k
  <2>2. Length(states, i) <= Length(states, k)
    <3>1. i = k \/ i < k
      BY <1>3
    <3> QED
      BY <1>3, <1>5, <2>1, <3>1 DEF Ancestry
  <2> QED
    BY <1>4, <2>1, <2>2 DEF Length, n
<1>14. Len(old) = k
  BY DEF k
<1>15. Ancestry(state.est, state.time, old)
  <2>1. InTimeOrder(state.est)
    <3>0. state.est \in Seq(M)
      BY <1>6
    <3> SUFFICES ASSUME NEW i \in 1 .. n, NEW j \in 1 .. n, i < j
                 PROVE  state.est[i].time <= state.est[j].time
      BY <3>0, InOrder DEF n
    <3>1. i \in 1 .. Len(est) /\ j \in 1 .. Len(est)
      BY <1>3, <1>6
    <3>2. est[i].time <= est[j].time
      BY <3>1, InOrder DEF Ancestry
    <3>3. state.est[i] = est[i] /\ state.est[j] = est[j]
      BY <1>6
    <3> QED
      BY <3>2, <3>3
  <2>2. InTimeOrder(old)
    BY <1>1, <1>13, <1>14 DEF Ancestry, InTimeOrder
  <2>3. \A p \in 1 .. n : state.est[p].time <= state.time
    BY <1>6
  <2>4. \A i \in 1 .. k : old[i].time <= state.time
    <3> TAKE i \in 1 .. k
    <3>1. i = k \/ i < k
      BY <1>3
    <3>2. i < k => states[i].time <= states[k].time
      BY <1>3, <1>13, InOrder DEF Ancestry
    <3>3. states[k].time \in Int /\ old[i] = states[i]
      BY <1>3, <1>5, <1>13
    <3> QED
      BY <1>4, <3>1, <3>2, <3>3
  <2>5. \A i \in 1 .. k : \A p \in 1 .. Length(old, i) :
          old[i].est[p] = state.est[p] /\ state.est[p].time <= old[i].time
    <3> TAKE i \in 1 .. k
    <3> TAKE p \in 1 .. Length(old, i)
    <3>1. p \in 1 .. n
      <4>1. Length(old, i) \in Nat /\ Length(old, i) <= n /\ n \in Nat
        BY <1>5, <1>6, <1>13
      <4> QED
        BY <4>1
    <3> QED
      BY <1>6, <1>13, <3>1 DEF Ancestry
  <2>6. \A i, j \in 1 .. k : i < j => Length(old, i) <= Length(old, j)
    BY <1>13 DEF Ancestry
  <2> QED
    BY <1>13, <1>14, <2>1, <2>2, <2>3, <2>4, <2>5, <2>6 DEF Ancestry, n
<1>16. Borders(state.est, state.time, old)
  <2> SUFFICES ASSUME NEW i \in 1 .. k, NEW p \in Length(old, i) + 1 .. n
               PROVE  /\ i < k /\ old[i].time < old[i + 1].time =>
                           state.est[p].time >= old[i + 1].time
                      /\ i = k /\ old[i].time < state.time =>
                           state.est[p].time >= state.time
    BY <1>14 DEF Borders, n
  <2>1. CASE i = k
    BY <1>4, <1>13, <2>1 DEF n
  <2>2. CASE i < k
    <3>1. i + 1 \in 1 .. k /\ i < Len(states)
      BY <1>3, <2>2
    <3>2. p \in 1 .. n /\ p \in Length(states, i) + 1 .. Len(est)
      BY <1>3, <1>5, <1>6, <1>13
    <3>3. i \in 1 .. Len(states) /\ old[i] = states[i] /\ old[i + 1] = states[i + 1]
      BY <1>13, <3>1
    <3>4. states[i].time < states[i + 1].time => est[p].time >= states[i + 1].time
      BY <3>1, <3>2, <3>3 DEF Borders
    <3>5. state.est[p] = est[p]
      BY <1>6, <3>2
    <3> QED
      BY <2>2, <3>3, <3>4, <3>5
  <2> QED
    BY <1>3, <2>1, <2>2
<1>17. Suffix(state.est, stay, old)
  <2>1. n - Len(stay) = dropped /\ dropped >= 0
    BY <1>3, <1>6, <1>10, <1>11
  <2>2. \A x \in 1 .. Len(stay) : stay[x] = state.est[dropped + x]
    <3> TAKE x \in 1 .. Len(stay)
    <3>1. x \in 1 .. Len(kept) /\ dropped + x \in 1 .. n
      BY <1>2, <1>3, <1>6, <1>10, <1>11
    <3> QED
      BY <1>2, <1>6, <1>10, <3>1
  <2>3. ASSUME NEW i \in 1 .. k, Final(old, i) PROVE dropped <= Length(old, i)
    <3>1. CASE i = k
      BY <1>4, <1>10, <1>13, <3>1 DEF n
    <3>2. CASE i < k
      <4>1. i + 1 \in 1 .. k
        BY <1>3, <3>2
      <4>2. Final(states, i)
        BY <1>3, <1>13, <1>14, <2>3, <3>2, <4>1 DEF Final
      <4> QED
        BY <1>13, <4>2 DEF Suffix, dropped
    <3> QED
      BY <1>3, <3>1, <3>2
  <2> QED
    BY <1>14, <2>1, <2>2, <2>3 DEF Suffix, n
<1>18. AllSaved(state.est, old)
  BY <1>3, <1>4, <1>13, <1>14 DEF AllSaved, n, Length
<1> QED
  BY <1>1, <1>2, <1>6, <1>8, <1>12, <1>15, <1>16, <1>17, <1>18 DEF old, stay, state, n

-----------------------------------------------------------------------------
(***************************************************************************)
(* The invariant.                                                          *)
(***************************************************************************)

\* In the loop the queue holds nothing older than what was fused; what is not
\* saved yet waits for another measurement of its time.
Loop ==
  LET saved == AllSaved(filter.est, filter_state_history) IN
  IF pc = "fuse"
  THEN /\ \A p \in 1 .. Len(filter.est) : \A q \in measurement_queue :
            filter.est[p].time <= q.time
       /\ \/ \A q \in measurement_queue : filter.time <= q.time
          \/ \A i \in 1 .. Len(filter_state_history) :
               filter_state_history[i].time = filter.time
       /\ saved \/ \E q \in measurement_queue : q.time = filter.time
  ELSE saved

\* With smoothing, while every late measurement found its state.
Lagged ==
  settings.smooth /\ ~underrun =>
    /\ Ancestry(filter.est, filter.time, filter_state_history)
    /\ Borders(filter.est, filter.time, filter_state_history)
    /\ Suffix(filter.est, measurement_history, filter_state_history)
    /\ Loop

\* Without it nothing is reverted, what waits of a topic is not older than
\* what was fused of it, and the filter's time only grows.
Straight ==
  ~settings.smooth =>
    /\ measurement_history = <<>> /\ filter_state_history = <<>> /\ ~underrun
    /\ \A m \in measurement_queue \cup ToSet(filter.est) :
         m.time <= last_message_times[m.topic]
    /\ \A e \in ToSet(filter.est), q \in measurement_queue :
         e.topic = q.topic => e.time <= q.time
    /\ FusedInOrder
    /\ IF filter.initialized
       THEN sent <= last_published_stamp /\ last_published_stamp <= filter.time
       ELSE sent = 0 /\ last_published_stamp = 0

\* The types that the lemmas about the history ask for.
LEMMA HistoryTypes ==
  ASSUME Types
  PROVE  /\ \A m \in Recent : m.time \in Int
         /\ filter.est \in Seq(Recent) /\ filter.time \in Int
         /\ measurement_history \in Seq(Recent)
         /\ filter_state_history \in Seq(States)
         /\ filter_state_history \in Seq(StatesOf(Recent))
<1>1. \A m \in Recent : m.time \in Int
  BY DEF Recent, Measurements
<1>2. States \subseteq StatesOf(Recent)
  BY DEF States, StatesOf
<1>3. filter_state_history \in Seq(States)
  BY DEF Types
<1>4. filter_state_history \in Seq(StatesOf(Recent))
  BY <1>2, <1>3
<1> QED
  BY <1>1, <1>3, <1>4 DEF Types, Filters

LEMMA EmptyHistory ==
  ASSUME NEW time, NEW est, est = <<>>
  PROVE  /\ Ancestry(est, time, <<>>) /\ Borders(est, time, <<>>)
         /\ Suffix(est, <<>>, <<>>) /\ AllSaved(est, <<>>)
  BY DEF Ancestry, Borders, Suffix, AllSaved, InTimeOrder

LEMMA LaggedInit == Init => Lagged
<1> SUFFICES ASSUME Init PROVE Lagged
  OBVIOUS
<1>1. /\ filter.est = <<>> /\ filter_state_history = <<>>
      /\ measurement_history = <<>> /\ pc = "idle"
  BY DEF Init, Constructed
<1> QED
  BY <1>1, EmptyHistory DEF Lagged, Loop

(***************************************************************************)
(* A late measurement.                                                     *)
(***************************************************************************)
LEMMA BeginLate ==
  ASSUME Types, Current, Lagged, Conserved, settings.smooth, pc = "idle",
         measurement_queue # {}, Late, RevertTo(Earliest - 1), ~underrun', pc' = "fuse"
  PROVE  /\ Ancestry(filter.est, filter.time, filter_state_history)'
         /\ Borders(filter.est, filter.time, filter_state_history)'
         /\ Suffix(filter.est, measurement_history, filter_state_history)'
         /\ Loop'
         /\ IsInjective(filter'.est)
         /\ measurement_queue' \cap ToSet(filter'.est) = {}
         /\ measurement_queue' \cup ToSet(filter'.est) = enqueued
<1> DEFINE before == Earliest - 1
           old == Until(filter_state_history, before)
           stay == Until(measurement_history, before)
           later == Stretch(measurement_history, Len(stay) + 1, Len(measurement_history))
<1>1. /\ Earliest \in 1 .. MaxTime /\ before \in Int
      /\ \A q \in measurement_queue : q.time \in Int /\ q.time > before
  <2>1. measurement_queue \subseteq Measurements
    BY DEF Types, Recent
  <2>2. /\ Earliest \in 1 .. MaxTime
        /\ \A q \in measurement_queue : Earliest <= q.time
    BY <2>1, EarliestQueued
  <2> QED
    BY <2>1, <2>2 DEF Measurements
<1>2. ~underrun
  BY DEF RevertTo
<1>3. /\ Ancestry(filter.est, filter.time, filter_state_history)
      /\ Borders(filter.est, filter.time, filter_state_history)
      /\ Suffix(filter.est, measurement_history, filter_state_history)
      /\ AllSaved(filter.est, filter_state_history)
  BY <1>2 DEF Lagged, Loop
<1>4. /\ IsInjective(filter.est)
      /\ measurement_queue \cap ToSet(filter.est) = {}
      /\ measurement_queue \cup ToSet(filter.est) = enqueued
  BY <1>2 DEF Conserved
<1>5. /\ filter_state_history' = old
      /\ underrun' = (underrun \/ (old = <<>> /\ filter.est # <<>>))
      /\ filter_state_history = <<>> =>
           UNCHANGED <<filter, measurement_queue, measurement_history>>
  BY DEF RevertTo
<1>6. CASE filter_state_history = <<>>
  <2>1. old = <<>>
    <3>1. old \in Seq(States) /\ Len(old) <= Len(filter_state_history)
      <4>1. \A e \in States : e.time \in Int
        BY DEF States
      <4> QED
        BY <1>1, <4>1, HistoryTypes, UntilCut
    <3> QED
      BY <1>6, <3>1
  <2>2. filter.est = <<>>
    BY <1>5, <2>1
  <2>3. UNCHANGED <<filter, measurement_queue, measurement_history,
                    filter_state_history>>
    BY <1>5, <1>6, <2>1
  <2>4. Loop'
    BY <1>3, <1>6, <2>2, <2>3 DEF Loop
  <2> QED
    BY <1>3, <1>4, <2>3, <2>4
<1>7. CASE filter_state_history # <<>>
  <2> DEFINE state == Last(old)
             n == Len(state.est)
  <2>1. old # <<>>
    BY <1>2, <1>5, <1>7 DEF Current
  <2>2. /\ state.est \in Seq(Recent) /\ state.time \in Int /\ state.time <= before
        /\ n <= Len(filter.est)
        /\ \A p \in 1 .. n : state.est[p] = filter.est[p]
        /\ later = Stretch(filter.est, n + 1, Len(filter.est))
        /\ \A p \in n + 1 .. Len(filter.est) : filter.est[p].time > before
        /\ Ancestry(state.est, state.time, old)
        /\ Borders(state.est, state.time, old)
        /\ Suffix(state.est, stay, old)
        /\ AllSaved(state.est, old)
    <3>1. /\ \A m \in Recent : m.time \in Int
          /\ filter.est \in Seq(Recent) /\ filter.time \in Int
          /\ measurement_history \in Seq(Recent)
          /\ filter_state_history \in Seq(StatesOf(Recent))
      BY HistoryTypes
    <3>2. before \in Int /\ Until(filter_state_history, before) # <<>>
      BY <1>1, <2>1
    <3> HIDE DEF before
    <3> QED
      BY <1>3, <3>1, <3>2, Reverted
  <2>3. /\ filter' = [filter EXCEPT !.est = state.est, !.time = state.time]
        /\ measurement_queue' =
             measurement_queue \cup {m \in later : state.time <= m.time}
        /\ measurement_history' = stay
    BY <1>7, <2>1 DEF RevertTo, Stretch
  <2> HIDE DEF old, stay, later
  <2>4. filter'.est = state.est /\ filter'.time = state.time
    BY <2>3 DEF Types, Filters
  <2>5. /\ filter.est \in Seq(Recent) /\ Len(filter.est) \in Nat /\ n \in Nat
        /\ \A p \in 1 .. Len(filter.est) : filter.est[p].time \in Int
    BY <2>2, HistoryTypes
  <2> HIDE DEF state, n
  <2>6. \A m \in later : m.time \in Int /\ m.time > before
    <3>1. \A p \in n + 1 .. Len(filter.est) : p \in 1 .. Len(filter.est)
      BY <2>5
    <3> QED
      BY <2>2, <2>5, <3>1 DEF Stretch
  <2>7. measurement_queue' = measurement_queue \cup later
    BY <1>1, <2>2, <2>3, <2>6
  <2>8. \A q \in measurement_queue' : q.time \in Int /\ q.time > before
    BY <1>1, <2>6, <2>7
  <2>9. Len(filter'.est) = n
    BY <2>4 DEF n
  <2>10. \A p \in 1 .. n : filter'.est[p].time \in Int /\ filter'.est[p].time <= filter'.time
    <3> TAKE p \in 1 .. n
    <3>1. filter'.est[p] = filter.est[p] /\ p \in 1 .. Len(filter.est)
      BY <2>2, <2>4, <2>5
    <3>2. state.est[p].time <= state.time
      BY <2>2 DEF Ancestry, n
    <3> QED
      BY <2>4, <2>5, <3>1, <3>2
  <2>11. Loop'
    <3>1. \A q \in measurement_queue' : filter'.time <= q.time
      BY <1>1, <2>2, <2>4, <2>8
    <3>2. \A p \in 1 .. Len(filter'.est) : \A q \in measurement_queue' :
            filter'.est[p].time <= q.time
      BY <2>2, <2>4, <2>8, <2>9, <2>10, <3>1
    <3>3. AllSaved(filter.est, filter_state_history)'
      BY <1>5, <2>2, <2>4 DEF AllSaved, Length
    <3> QED
      BY <3>1, <3>2, <3>3 DEF Loop
  <2>12. /\ Ancestry(filter.est, filter.time, filter_state_history)'
         /\ Borders(filter.est, filter.time, filter_state_history)'
         /\ Suffix(filter.est, measurement_history, filter_state_history)'
    BY <1>5, <2>2, <2>3, <2>4
    DEF Ancestry, Borders, Suffix, Length, Final, InTimeOrder
  <2>13. DOMAIN filter.est = 1 .. Len(filter.est) /\ DOMAIN filter'.est = 1 .. n
    BY <2>2, <2>4, <2>5, <2>9
  <2>14. ToSet(filter'.est) = {filter.est[p] : p \in 1 .. n}
    BY <2>2, <2>4, <2>13 DEF ToSet
  <2>15. IsInjective(filter'.est)
    BY <1>4, <2>2, <2>4, <2>5, <2>13 DEF IsInjective
  <2>16. ToSet(filter.est) = {filter.est[p] : p \in 1 .. Len(filter.est)}
    BY <2>13 DEF ToSet
  <2>17. /\ later \cap ToSet(filter'.est) = {}
         /\ later \cup ToSet(filter'.est) = ToSet(filter.est)
    <3>1. ASSUME NEW p \in 1 .. n, NEW r \in n + 1 .. Len(filter.est)
          PROVE  filter.est[p] # filter.est[r]
      <4>1. p \in 1 .. Len(filter.est) /\ r \in 1 .. Len(filter.est) /\ p # r
        BY <2>2, <2>5
      <4> QED
        BY <1>4, <2>13, <4>1 DEF IsInjective
    <3>2. \A p \in 1 .. Len(filter.est) : p \in 1 .. n \/ p \in n + 1 .. Len(filter.est)
      BY <2>5
    <3>3. \A p \in 1 .. n : p \in 1 .. Len(filter.est)
      BY <2>2, <2>5
    <3>4. \A p \in n + 1 .. Len(filter.est) : p \in 1 .. Len(filter.est)
      BY <2>5
    <3> QED
      BY <2>2, <2>14, <2>16, <3>1, <3>2, <3>3, <3>4 DEF Stretch
  <2> QED
    BY <1>4, <2>7, <2>11, <2>12, <2>15, <2>17
<1> QED
  BY <1>6, <1>7

(***************************************************************************)
(* Each step.                                                              *)
(***************************************************************************)
LEMMA ConservedStep ==
  Types /\ Current /\ Lagged /\ Conserved /\ [Next]_vars => Conserved'
<1> SUFFICES ASSUME Types, Current, Lagged, Conserved, [Next]_vars, ~underrun'
             PROVE  /\ IsInjective(filter'.est)
                    /\ measurement_queue' \cap ToSet(filter'.est) = {}
                    /\ measurement_queue' \cup ToSet(filter'.est) = enqueued'
  BY DEF Conserved, ToSet, IsInjective
<1> DEFINE Before == /\ IsInjective(filter.est)
                     /\ measurement_queue \cap ToSet(filter.est) = {}
                     /\ measurement_queue \cup ToSet(filter.est) = enqueued
<1>0. ~underrun => Before
  BY DEF Conserved
<1>1. filter.est \in Seq(Recent)
  BY DEF Types, Filters
<1>2. ASSUME filter'.est = filter.est,
             UNCHANGED <<measurement_queue, enqueued, underrun>>
      PROVE  /\ IsInjective(filter'.est)
             /\ measurement_queue' \cap ToSet(filter'.est) = {}
             /\ measurement_queue' \cup ToSet(filter'.est) = enqueued'
  BY <1>0, <1>2
<1>3. CASE Message
  <2>1. PICK in : Delivered(in) /\ Receive(in)
    BY <1>3 DEF Message
  <2>2. /\ measurement_queue' = in.queue /\ enqueued' = in.made
        /\ filter' = filter /\ underrun' = underrun
    BY <2>1 DEF Receive
  <2>3. /\ measurement_queue \subseteq in.queue /\ enqueued \subseteq in.made
        /\ in.queue \ measurement_queue \subseteq in.made \ enqueued
        /\ in.made \ enqueued \subseteq in.queue
    BY <2>1 DEF Delivered
  <2> QED
    BY <1>0, <2>2, <2>3
<1>4. CASE \E t \in Stamps : SetPose(t)
  <2>1. /\ measurement_queue' = {} /\ enqueued' = {}
        /\ filter' = [filter EXCEPT !.est = <<>>, !.time = now]
    BY <1>4 DEF SetPose, ClearMeasurementQueue
  <2>2. filter'.est = <<>>
    BY <2>1 DEF Types, Filters
  <2> QED
    BY <2>1, <2>2 DEF IsInjective, ToSet
<1>5. CASE \E on \in BOOLEAN : Toggle(on)
  BY <1>2, <1>5 DEF Toggle
<1>6. CASE Enable
  BY <1>2, <1>6 DEF Enable
<1>7. CASE Begin
  <2>1. CASE measurement_queue # {} /\ Late
    <3>1. /\ settings.smooth /\ pc = "idle" /\ pc' = "fuse"
          /\ RevertTo(Earliest - 1) /\ enqueued' = enqueued
      BY <1>7, <2>1 DEF Begin, Late
    <3> QED
      BY <2>1, <3>1, BeginLate
  <2>2. CASE ~(measurement_queue # {} /\ Late)
    BY <1>2, <1>7, <2>2 DEF Begin
  <2> QED
    BY <2>1, <2>2
<1>8. CASE Fuse
  <2>1. PICK m \in measurement_queue :
          /\ m.time <= now
          /\ measurement_queue' = measurement_queue \ {m}
          /\ filter' = Processed(m)
    BY <1>8 DEF Fuse, Due
  <2>2. m \in Recent /\ enqueued' = enqueued /\ Before
    BY <1>0, <1>8 DEF Types, Fuse
  <2>3. filter'.est = Append(filter.est, m)
    BY <2>1, <2>2, ProcessedType
  <2> DEFINE more == Append(filter.est, m)
             top == Len(filter.est) + 1
  <2>4. /\ more \in Seq(Recent) /\ Len(more) = top /\ top \in Nat
        /\ \A p \in 1 .. Len(filter.est) : more[p] = filter.est[p]
        /\ more[top] = m
    BY <1>1, <2>2, AppendProperties
  <2>5. /\ DOMAIN more = 1 .. top /\ DOMAIN filter.est = 1 .. Len(filter.est)
        /\ \A p \in 1 .. top : p = top \/ p \in 1 .. Len(filter.est)
        /\ top \in 1 .. top
        /\ \A p \in 1 .. Len(filter.est) : p \in 1 .. top
    BY <1>1, <2>4
  <2> HIDE DEF more, top
  <2>6. ToSet(more) = ToSet(filter.est) \cup {m}
    BY <2>4, <2>5 DEF ToSet
  <2>7. m \notin ToSet(filter.est)
    BY <2>2
  <2>8. IsInjective(more)
    <3>1. \A p \in 1 .. Len(filter.est) : filter.est[p] # m
      BY <2>5, <2>7 DEF ToSet
    <3>2. \A p, r \in 1 .. Len(filter.est) : filter.est[p] = filter.est[r] => p = r
      BY <2>2, <2>5 DEF IsInjective
    <3> QED
      BY <2>4, <2>5, <3>1, <3>2 DEF IsInjective
  <2>9. filter'.est = more
    BY <2>3 DEF more
  <2> QED
    BY <2>1, <2>2, <2>6, <2>7, <2>8, <2>9
<1>9. CASE Fused
  BY <1>2, <1>9 DEF Fused
<1>10. CASE Predict
  <2>1. filter'.est = filter.est
    BY <1>10 DEF Predict, Types, Filters
  <2> QED
    BY <1>2, <1>10, <2>1 DEF Predict
<1>11. CASE Discard
  <2>1. filter'.est = filter.est
    BY <1>11 DEF Discard, Types, Filters
  <2>2. /\ enqueued' = enqueued \ measurement_queue /\ measurement_queue' = {}
        /\ underrun' = underrun
    BY <1>11 DEF Discard, ClearMeasurementQueue
  <2> QED
    BY <1>0, <2>1, <2>2
<1>12. CASE Publish
  BY <1>2, <1>12 DEF Publish
<1>13. CASE Advance
  BY <1>2, <1>13 DEF Advance
<1>14. CASE UNCHANGED vars
  BY <1>2, <1>14 DEF vars
<1> QED
  BY <1>3, <1>4, <1>5, <1>6, <1>7, <1>8, <1>9, <1>10, <1>11, <1>12, <1>13, <1>14,
     MessageReceived
  DEF Next, Tick

\* What one turn of the loop leaves.
LEMMA FuseLagged ==
  ASSUME Types, Current, Lagged, settings.smooth, ~underrun, Fuse
  PROVE  /\ Ancestry(filter'.est, filter'.time, filter_state_history')
         /\ Borders(filter'.est, filter'.time, filter_state_history')
         /\ Suffix(filter'.est, measurement_history', filter_state_history')
         /\ Loop'
<1> DEFINE states == filter_state_history
           kept == measurement_history
           est == filter.est
           time == filter.time
<1>1. PICK m \in {m \in Due : m.time = Earliest} :
        /\ measurement_queue' = measurement_queue \ {m}
        /\ filter' = Processed(m)
        /\ measurement_history' = Append(kept, m)
        /\ filter_state_history' = Saved(measurement_queue \ {m}, Processed(m))
  BY DEF Fuse
<1>2. m \in measurement_queue /\ m.time <= now /\ m.time = Earliest /\ pc = "fuse"
      /\ pc' = "fuse"
  BY DEF Due, Fuse
<1>3. m \in Recent /\ measurement_queue \subseteq Measurements
  BY <1>2 DEF Types, Recent
<1>4. \A q \in measurement_queue : q.time \in Int /\ m.time <= q.time
  BY <1>2, <1>3, EarliestQueued DEF Measurements
<1>5. /\ \A e \in Recent : e.time \in Int
      /\ est \in Seq(Recent) /\ time \in Int /\ kept \in Seq(Recent)
      /\ states \in Seq(StatesOf(Recent))
  BY HistoryTypes
<1>6. /\ Ancestry(est, time, states) /\ Borders(est, time, states)
      /\ Suffix(est, kept, states)
      /\ \A p \in 1 .. Len(est) : \A q \in measurement_queue : est[p].time <= q.time
      /\ \/ \A q \in measurement_queue : time <= q.time
         \/ \A i \in 1 .. Len(states) : states[i].time = time
      /\ AllSaved(est, states) \/ \E q \in measurement_queue : q.time = time
  BY <1>2 DEF Lagged, Loop
<1>7. /\ filter'.est = Append(est, m)
      /\ filter'.time = IF filter.initialized /\ m.time <= time THEN time ELSE m.time
  BY <1>1, <1>2, <1>3, ProcessedType
<1>8. ~filter.initialized => est = <<>> /\ states = <<>>
  BY DEF Current
<1> DEFINE more == Append(est, m)
           longer == Append(kept, m)
           then == IF filter.initialized /\ m.time <= time THEN time ELSE m.time
<1>9. then \in Int /\ m.time <= then /\ m.time \in Int
      /\ (states = <<>> \/ then = IF m.time <= time THEN time ELSE m.time)
  BY <1>3, <1>5, <1>8
<1> HIDE DEF then
<1>10. \A p \in 1 .. Len(est) : est[p].time <= m.time /\ est[p].time \in Int
  BY <1>2, <1>5, <1>6
<1>11. /\ Ancestry(more, then, states) /\ Borders(more, then, states)
       /\ Suffix(more, longer, states)
  <2>1. time <= m.time \/ \A i \in 1 .. Len(states) : states[i].time = time
    BY <1>2, <1>6
  <2>2. AllSaved(est, states) \/ m.time <= time
    BY <1>4, <1>6
  <2> HIDE DEF states, kept, est, time
  <2> QED
    BY <1>3, <1>5, <1>6, <1>9, <1>10, <2>1, <2>2, FusedIn
<1>12. /\ more \in Seq(Recent) /\ longer \in Seq(Recent)
       /\ Len(more) = Len(est) + 1 /\ Len(est) \in Nat
       /\ \A p \in 1 .. Len(est) : more[p] = est[p]
       /\ more[Len(est) + 1] = m
  BY <1>3, <1>5, AppendProperties
<1>13. \A p \in 1 .. Len(more) : more[p].time \in Int /\ more[p].time <= m.time
  <2> TAKE p \in 1 .. Len(more)
  <2>1. p = Len(est) + 1 \/ p \in 1 .. Len(est)
    BY <1>12
  <2> QED
    BY <1>9, <1>10, <1>12, <2>1
<1>14. \A p \in 1 .. Len(more) : \A q \in measurement_queue' : more[p].time <= q.time
  BY <1>1, <1>4, <1>9, <1>13
<1> DEFINE saved == Append(states, [time |-> then, est |-> more])
<1>15. \/ \A q \in measurement_queue' : then <= q.time
       \/ \A i \in 1 .. Len(states) : states[i].time = then
  <2>1. CASE filter.initialized /\ m.time < time
    BY <1>2, <1>5, <1>6, <1>9, <2>1 DEF then
  <2>2. CASE ~(filter.initialized /\ m.time < time)
    BY <1>1, <1>4, <1>5, <1>9, <2>2 DEF then
  <2> QED
    BY <2>1, <2>2
<1>16. filter'.est = more /\ filter'.time = then /\ measurement_history' = longer
  BY <1>1, <1>7 DEF then
<1>17. CASE measurement_queue' = {} \/ Min({q.time : q \in measurement_queue'}) # then
  <2>1. filter_state_history' = saved
    BY <1>1, <1>16, <1>17 DEF Saved
  <2>2. /\ Ancestry(more, then, saved) /\ Borders(more, then, saved)
        /\ Suffix(more, longer, saved) /\ AllSaved(more, saved)
    <3> HIDE DEF more, longer
    <3> QED
      BY <1>5, <1>9, <1>11, <1>12, SavedAway
  <2>3. \/ \A q \in measurement_queue' : then <= q.time
        \/ \A i \in 1 .. Len(saved) : saved[i].time = then
    <3>1. [time |-> then, est |-> more] \in StatesOf(Recent)
      BY <1>9, <1>12 DEF StatesOf
    <3>2. /\ Len(saved) = Len(states) + 1 /\ Len(states) \in Nat
          /\ saved[Len(states) + 1].time = then
          /\ \A i \in 1 .. Len(states) : saved[i] = states[i]
      BY <1>5, <3>1, AppendProperties
    <3>3. \A i \in 1 .. Len(saved) : i = Len(states) + 1 \/ i \in 1 .. Len(states)
      BY <3>2
    <3> HIDE DEF saved
    <3> QED
      BY <1>15, <3>2, <3>3
  <2> HIDE DEF saved, more, longer
  <2>4. Loop'
    BY <1>2, <1>14, <1>16, <2>1, <2>2, <2>3 DEF Loop, AllSaved, Length
  <2> QED
    BY <1>16, <2>1, <2>2, <2>4
<1>18. CASE ~(measurement_queue' = {} \/ Min({q.time : q \in measurement_queue'}) # then)
  <2>1. filter_state_history' = states
    BY <1>1, <1>16, <1>18 DEF Saved
  <2>2. \E q \in measurement_queue' : q.time = then
    <3> DEFINE times == {q.time : q \in measurement_queue'}
    <3>1. times \in SUBSET Int /\ times # {} /\ \A t \in times : m.time <= t
      BY <1>1, <1>4, <1>18
    <3>2. Min(times) \in times
      <4> HIDE DEF times
      <4> QED
        BY <1>9, <3>1, Least
    <3> QED
      BY <1>18, <3>2
  <2> HIDE DEF more, longer
  <2>3. Loop'
    BY <1>2, <1>14, <1>15, <1>16, <2>1, <2>2 DEF Loop, AllSaved, Length
  <2> QED
    BY <1>11, <1>16, <2>1, <2>3
<1> QED
  BY <1>17, <1>18

\* What the next state must show.
LEMMA LaggedNext ==
  ASSUME settings'.smooth /\ ~underrun' =>
           /\ Ancestry(filter'.est, filter'.time, filter_state_history')
           /\ Borders(filter'.est, filter'.time, filter_state_history')
           /\ Suffix(filter'.est, measurement_history', filter_state_history')
           /\ Loop'
  PROVE  Lagged'
  BY DEF Lagged, Ancestry, Borders, Suffix, InTimeOrder, Length, Final

\* Outside the loop everything is saved.
LEMMA LoopLeft ==
  ASSUME pc' # "fuse", AllSaved(filter'.est, filter_state_history')
  PROVE  Loop'
  BY DEF Loop, AllSaved, Length

LEMMA LaggedStep ==
  Types /\ Current /\ Lagged /\ Conserved /\ [Next]_vars => Lagged'
<1> SUFFICES ASSUME Types, Current, Lagged, Conserved, [Next]_vars,
                    settings'.smooth, ~underrun'
             PROVE  /\ Ancestry(filter'.est, filter'.time, filter_state_history')
                    /\ Borders(filter'.est, filter'.time, filter_state_history')
                    /\ Suffix(filter'.est, measurement_history', filter_state_history')
                    /\ Loop'
  BY LaggedNext
<1> DEFINE Before == /\ Ancestry(filter.est, filter.time, filter_state_history)
                     /\ Borders(filter.est, filter.time, filter_state_history)
                     /\ Suffix(filter.est, measurement_history, filter_state_history)
                     /\ Loop
<1>0. ~underrun /\ settings' = settings => Before /\ settings.smooth
  BY DEF Lagged
<1>1. /\ \A e \in Recent : e.time \in Int
      /\ filter.est \in Seq(Recent) /\ filter.time \in Int
      /\ measurement_history \in Seq(Recent)
      /\ filter_state_history \in Seq(StatesOf(Recent))
  BY HistoryTypes
<1>2. now \in Int /\ filter.time <= now
  BY DEF Types, Current
<1> DEFINE After == /\ Ancestry(filter'.est, filter'.time, filter_state_history')
                    /\ Borders(filter'.est, filter'.time, filter_state_history')
                    /\ Suffix(filter'.est, measurement_history', filter_state_history')
                    /\ Loop'
\* Nothing that Lagged is about, but for the queue outside the loop.
<1>3. ASSUME UNCHANGED <<settings, filter, measurement_history,
                         filter_state_history, pc, underrun>>,
             pc # "fuse" \/ UNCHANGED measurement_queue
      PROVE  After
  BY <1>0, <1>3 DEF Loop, AllSaved, Length
<1>4. CASE Message
  <2>1. PICK in : Delivered(in) /\ Receive(in)
    BY <1>4 DEF Message
  <2> QED
    BY <1>3, <2>1 DEF Receive, history
<1>5. CASE \E t \in Stamps : SetPose(t)
  <2>1. /\ measurement_history' = <<>> /\ filter_state_history' = <<>>
        /\ filter' = [filter EXCEPT !.est = <<>>, !.time = now] /\ pc' # "fuse"
    BY <1>5 DEF SetPose
  <2>2. filter'.est = <<>>
    BY <2>1 DEF Types, Filters
  <2> QED
    BY <2>1, <2>2, EmptyHistory, LoopLeft
<1>6. CASE \E on \in BOOLEAN : Toggle(on)
  BY <1>3, <1>6 DEF Toggle, history
<1>7. CASE Enable
  BY <1>3, <1>7 DEF Enable, history
<1>8. CASE Begin
  <2>0. settings' = settings /\ pc = "idle" /\ enqueued' = enqueued
    BY <1>8 DEF Begin
  <2>1. CASE measurement_queue # {} /\ Late
    <3>1. /\ settings.smooth /\ pc' = "fuse" /\ RevertTo(Earliest - 1)
      BY <1>8, <2>1 DEF Begin, Late
    <3>2. /\ Ancestry(filter.est, filter.time, filter_state_history)'
          /\ Borders(filter.est, filter.time, filter_state_history)'
          /\ Suffix(filter.est, measurement_history, filter_state_history)'
          /\ Loop'
      BY <2>0, <2>1, <3>1, BeginLate
    <3> QED
      BY <3>2 DEF Ancestry, Borders, Suffix, InTimeOrder, Length, Final
  <2>2. CASE ~(measurement_queue # {} /\ Late)
    <3>1. UNCHANGED <<filter, measurement_queue, measurement_history,
                      filter_state_history, underrun>>
      BY <1>8, <2>2 DEF Begin, history
    <3>2. Before /\ AllSaved(filter.est, filter_state_history) /\ settings.smooth
      BY <1>0, <2>0, <3>1 DEF Loop
    <3>3. CASE measurement_queue = {}
      <4>1. pc' # "fuse"
        BY <1>8, <3>3 DEF Begin
      <4> QED
        BY <3>1, <3>2, <4>1, LoopLeft
    <3>4. CASE measurement_queue # {}
      <4>1. measurement_queue \subseteq Measurements
        BY DEF Types, Recent
      <4>2. \A q \in measurement_queue : filter.time <= q.time /\ q.time \in Int
        BY <1>1, <2>2, <3>2, <3>4, <4>1, EarliestQueued DEF Late, Measurements
      <4>3. \A p \in 1 .. Len(filter.est) :
              filter.est[p].time \in Int /\ filter.est[p].time <= filter.time
        BY <1>1, <3>2 DEF Ancestry
      <4>4. Loop'
        BY <1>1, <3>1, <3>2, <4>2, <4>3 DEF Loop, AllSaved, Length
      <4> QED
        BY <3>1, <3>2, <4>4
    <3> QED
      BY <3>3, <3>4
  <2> QED
    BY <2>1, <2>2
<1>9. CASE Fuse
  <2>1. settings' = settings /\ underrun' = underrun
    BY <1>9 DEF Fuse
  <2> QED
    BY <1>0, <1>9, <2>1, FuseLagged
<1>10. CASE Fused
  <2>1. /\ settings' = settings /\ pc = "fuse" /\ pc' # "fuse" /\ Due = {}
        /\ UNCHANGED <<filter, measurement_history, filter_state_history, underrun>>
    BY <1>10 DEF Fused, history
  <2>2. Before
    BY <1>0, <2>1
  <2>3. \A q \in measurement_queue : q.time # filter.time
    BY <1>2, <2>1 DEF Due
  <2>4. AllSaved(filter.est, filter_state_history)
    BY <2>1, <2>2, <2>3 DEF Loop
  <2> QED
    BY <2>1, <2>2, <2>4, LoopLeft
<1>11. ASSUME UNCHANGED <<settings, measurement_history, filter_state_history, underrun>>,
              pc # "fuse", pc' # "fuse", filter'.est = filter.est,
              filter'.time \in Int, filter.time <= filter'.time
       PROVE  After
  <2>1. Before /\ AllSaved(filter.est, filter_state_history)
    BY <1>0, <1>11 DEF Loop
  <2>2. /\ Ancestry(filter.est, filter'.time, filter_state_history)
        /\ Borders(filter.est, filter'.time, filter_state_history)
    BY <1>1, <1>11, <2>1, TimePasses
  <2> QED
    BY <1>11, <2>1, <2>2, LoopLeft
<1>12. CASE Predict
  <2>1. filter'.est = filter.est /\ filter'.time = now
    BY <1>12 DEF Predict, Types, Filters
  <2> QED
    BY <1>2, <1>11, <1>12, <2>1 DEF Predict, history
<1>13. CASE Discard
  <2>1. /\ filter'.est = filter.est
        /\ filter'.time = IF filter.initialized THEN now ELSE filter.time
    BY <1>13 DEF Discard, Types, Filters
  <2> QED
    BY <1>1, <1>2, <1>11, <1>13, <2>1 DEF Discard, history
<1>14. CASE Publish
  <2> DEFINE cutoff == filter.time - settings.history
  <2>1. /\ settings' = settings /\ filter' = filter /\ underrun' = underrun
        /\ pc = "publish" /\ pc' = "idle"
    BY <1>14 DEF Publish
  <2>2. Before /\ AllSaved(filter.est, filter_state_history) /\ settings.smooth
    BY <1>0, <2>1 DEF Loop
  <2>3. /\ measurement_history' = Unexpired(measurement_history, cutoff)
        /\ filter_state_history' = Unexpired(filter_state_history, cutoff)
    BY <1>14, <2>2 DEF Publish
  <2>4. cutoff \in Int
    BY <1>1, SettingsType DEF Types
  <2> HIDE DEF cutoff
  <2>5. /\ Ancestry(filter.est, filter.time, filter_state_history')
        /\ Borders(filter.est, filter.time, filter_state_history')
        /\ Suffix(filter.est, measurement_history', filter_state_history')
        /\ AllSaved(filter.est, filter_state_history')
    BY <1>1, <2>2, <2>3, <2>4, Expired
  <2> QED
    BY <2>1, <2>5, LoopLeft
<1>15. CASE Advance
  BY <1>3, <1>15 DEF Advance, history
<1>16. CASE UNCHANGED vars
  BY <1>3, <1>16 DEF vars, history
<1> QED
  BY <1>4, <1>5, <1>6, <1>7, <1>8, <1>9, <1>10, <1>12, <1>13, <1>14, <1>15, <1>16,
     MessageReceived
  DEF Next, Tick

LEMMA StraightInit == Init => Straight
<1> SUFFICES ASSUME Init, ~settings.smooth PROVE Straight
  BY DEF Straight
<1>1. /\ measurement_history = <<>> /\ filter_state_history = <<>> /\ ~underrun
      /\ measurement_queue = {} /\ filter.est = <<>> /\ ~filter.initialized
      /\ sent = 0 /\ last_published_stamp = 0
  BY DEF Init, Constructed
<1> QED
  BY <1>1 DEF Straight, FusedInOrder, ToSet

LEMMA StraightStep ==
  Types /\ Current /\ Straight /\ [Next]_vars => Straight'
<1> SUFFICES ASSUME Types, Current, Straight, [Next]_vars, ~settings'.smooth
             PROVE  Straight'
  BY DEF Straight
<1> DEFINE Sorted(est) == \A i, j \in DOMAIN est :
                            i < j /\ est[i].topic = est[j].topic => est[i].time <= est[j].time
           Bounded(queue, est, last) ==
             \A m \in queue \cup ToSet(est) : m.time <= last[m.topic]
           Waiting(queue, est) ==
             \A e \in ToSet(est), q \in queue : e.topic = q.topic => e.time <= q.time
           Out(f, s, stamp) == IF f.initialized THEN s <= stamp /\ stamp <= f.time
                               ELSE s = 0 /\ stamp = 0
<1>1. settings' = settings /\ ~settings.smooth
  BY DEF Next, Odometry, Imu, Receive, SetPose, Toggle, Enable, Tick, Begin, Fuse,
     Fused, Predict, Discard, Publish, Advance, vars
<1>2. /\ measurement_history = <<>> /\ filter_state_history = <<>> /\ ~underrun
      /\ Bounded(measurement_queue, filter.est, last_message_times)
      /\ Waiting(measurement_queue, filter.est) /\ Sorted(filter.est)
      /\ Out(filter, sent, last_published_stamp)
  BY <1>1 DEF Straight, FusedInOrder
<1> DEFINE After == /\ measurement_history' = <<>> /\ filter_state_history' = <<>>
                    /\ ~underrun'
                    /\ Bounded(measurement_queue', filter'.est, last_message_times')
                    /\ Waiting(measurement_queue', filter'.est) /\ Sorted(filter'.est)
                    /\ Out(filter', sent', last_published_stamp')
<1>3. SUFFICES After
  BY <1>1 DEF Straight, FusedInOrder, ToSet
<1>4. /\ filter \in Filters /\ filter.time \in Int /\ filter.est \in Seq(Recent)
      /\ last_published_stamp \in Nat /\ sent \in Nat
      /\ now \in Int /\ filter.time <= now
      /\ measurement_queue \subseteq Measurements /\ ToSet(filter.est) \subseteq Measurements
      /\ \A m \in Measurements : m.topic \in Topics /\ m.time \in Nat
  <2>1. filter.est \in Seq(Recent) /\ filter \in Filters
    BY DEF Types, Filters
  <2>2. ToSet(filter.est) \subseteq Recent
    BY <2>1 DEF ToSet
  <2> QED
    BY <2>1, <2>2 DEF Types, Current, Filters, Recent, Measurements
\* The filter's time moves on, and its estimate is the same or empty.
<1>5. ASSUME UNCHANGED <<sent, last_published_stamp>>,
             filter'.initialized = filter.initialized,
             filter'.time \in Int, filter.time <= filter'.time
      PROVE  Out(filter', sent', last_published_stamp')
  BY <1>2, <1>4, <1>5
<1>6. ASSUME filter'.est = filter.est, UNCHANGED last_message_times,
             measurement_queue' \subseteq measurement_queue
      PROVE  /\ Bounded(measurement_queue', filter'.est, last_message_times')
             /\ Waiting(measurement_queue', filter'.est) /\ Sorted(filter'.est)
  <2> HIDE DEF Sorted
  <2> QED
    BY <1>2, <1>6
<1>7. ASSUME UNCHANGED <<filter, history, underrun, sent, last_published_stamp,
                         last_message_times, measurement_queue>>
      PROVE  After
  <2> HIDE DEF Bounded, Waiting, Sorted, Out
  <2> QED
    BY <1>2, <1>7 DEF history
<1>8. CASE Message
  <2>1. PICK in : Delivered(in) /\ Receive(in)
    BY <1>8 DEF Message
  <2>2. /\ measurement_queue' = in.queue /\ last_message_times' = in.last
        /\ UNCHANGED <<filter, history, underrun, sent, last_published_stamp>>
    BY <2>1 DEF Receive
  <2>3. /\ \A topic \in Topics : /\ last_message_times[topic] \in Int
                                 /\ in.last[topic] \in Int
                                 /\ last_message_times[topic] <= in.last[topic]
        /\ \A m \in in.queue \ measurement_queue :
             /\ m \in Measurements /\ last_message_times[m.topic] <= m.time
             /\ m.time <= in.last[m.topic]
    <3>1. last_message_times \in [Topics -> 0 .. MaxTime] /\ in.last \in [Topics -> 0 .. MaxTime]
      BY <2>1 DEF Delivered, Inboxes, Types
    <3>2. \A topic \in Topics : last_message_times[topic] <= in.last[topic]
      BY <2>1 DEF Delivered
    <3>3. \A m \in in.queue \ measurement_queue :
             /\ m \in Measurements /\ last_message_times[m.topic] <= m.time
             /\ m.time <= in.last[m.topic]
      BY <2>1 DEF Delivered, Recent
    <3> QED
      BY <3>1, <3>2, <3>3
  <2>4. \A m \in measurement_queue \cup ToSet(filter.est) :
          m \in Measurements /\ m.time <= last_message_times[m.topic]
    BY <1>2, <1>4
  <2>5. Bounded(in.queue, filter.est, in.last)
    <3>1. ASSUME NEW m \in in.queue \cup ToSet(filter.est)
          PROVE  m.time <= in.last[m.topic]
      <4>1. CASE m \in measurement_queue \cup ToSet(filter.est)
        <5>1. /\ m.topic \in Topics /\ m.time \in Nat
              /\ m.time <= last_message_times[m.topic]
          BY <1>4, <2>4, <4>1
        <5> QED
          BY <2>3, <5>1
      <4>2. CASE m \in in.queue \ measurement_queue
        BY <2>3, <4>2
      <4> QED
        BY <4>1, <4>2
    <3> QED
      BY <3>1
  <2>6. Waiting(in.queue, filter.est)
    <3>1. ASSUME NEW e \in ToSet(filter.est), NEW q \in in.queue, e.topic = q.topic
          PROVE  e.time <= q.time
      <4>1. CASE q \in measurement_queue
        BY <1>2, <3>1, <4>1
      <4>2. CASE q \notin measurement_queue
        <5>1. /\ e.topic \in Topics /\ e.time \in Nat /\ q.time \in Nat
              /\ e.time <= last_message_times[e.topic]
              /\ last_message_times[q.topic] <= q.time
          BY <1>4, <2>3, <2>4, <3>1, <4>2
        <5> QED
          BY <2>3, <3>1, <5>1
      <4> QED
        BY <4>1, <4>2
    <3> QED
      BY <3>1
  <2> HIDE DEF Bounded, Waiting, Sorted, Out
  <2> QED
    BY <1>2, <2>2, <2>5, <2>6 DEF history
<1>9. CASE \E t \in Stamps : SetPose(t)
  <2>1. /\ measurement_history' = <<>> /\ filter_state_history' = <<>> /\ ~underrun'
        /\ measurement_queue' = {}
        /\ filter' = [filter EXCEPT !.est = <<>>, !.time = now]
        /\ UNCHANGED <<sent, last_published_stamp>>
    BY <1>9 DEF SetPose, ClearMeasurementQueue
  <2>2. /\ filter'.est = <<>> /\ filter'.time = now
        /\ filter'.initialized = filter.initialized
    BY <1>4, <2>1 DEF Filters
  <2>3. Out(filter', sent', last_published_stamp')
    BY <1>4, <1>5, <2>1, <2>2
  <2> HIDE DEF Out
  <2> QED
    BY <2>1, <2>2, <2>3 DEF ToSet
<1>10. CASE \E on \in BOOLEAN : Toggle(on)
  BY <1>7, <1>10 DEF Toggle
<1>11. CASE Enable
  BY <1>7, <1>11 DEF Enable
<1>12. CASE Begin
  BY <1>1, <1>7, <1>12 DEF Begin, Late
<1>13. CASE Fuse
  <2>1. PICK m \in {m \in Due : m.time = Earliest} :
          /\ measurement_queue' = measurement_queue \ {m}
          /\ filter' = Processed(m)
          /\ UNCHANGED history
    BY <1>1, <1>13 DEF Fuse
  <2>2. m \in measurement_queue /\ m.time <= now /\ m.time = Earliest
        /\ UNCHANGED <<last_message_times, sent, last_published_stamp, underrun>>
    BY <1>13 DEF Due, Fuse
  <2>3. m \in Recent /\ m \in Measurements /\ m.time \in Nat
    BY <1>4, <2>2 DEF Types
  <2>4. \A q \in measurement_queue : m.time <= q.time
    BY <1>4, <2>2, EarliestQueued
  <2>5. /\ filter'.est = Append(filter.est, m) /\ filter'.initialized
        /\ filter'.time = IF filter.initialized /\ m.time <= filter.time
                          THEN filter.time ELSE m.time
    BY <2>1, <2>2, <2>3, ProcessedType
  <2>6. Out(filter', sent', last_published_stamp')
    BY <1>2, <1>4, <2>2, <2>3, <2>5
  <2> DEFINE more == Append(filter.est, m)
             top == Len(filter.est) + 1
  <2>7. /\ more \in Seq(Recent) /\ Len(more) = top /\ top \in Nat
        /\ \A p \in 1 .. Len(filter.est) : more[p] = filter.est[p]
        /\ more[top] = m
    BY <1>4, <2>3, AppendProperties
  <2>8. /\ DOMAIN more = 1 .. top /\ DOMAIN filter.est = 1 .. Len(filter.est)
        /\ \A p \in 1 .. top : p = top \/ p \in 1 .. Len(filter.est)
        /\ top \in 1 .. top
        /\ \A p \in 1 .. Len(filter.est) : p \in 1 .. top
        /\ \A p, r \in 1 .. top : p < r => p \in 1 .. Len(filter.est)
    BY <1>4, <2>7
  <2> HIDE DEF more, top
  <2>9. ToSet(more) = ToSet(filter.est) \cup {m}
    BY <2>7, <2>8 DEF ToSet
  <2>10. Bounded(measurement_queue', more, last_message_times')
    BY <1>2, <2>1, <2>2, <2>9
  <2>11. Waiting(measurement_queue', more)
    BY <1>2, <2>1, <2>4, <2>9
  <2>12. Sorted(more)
    <3>1. ASSUME NEW i \in 1 .. top, NEW j \in 1 .. top, i < j,
                 more[i].topic = more[j].topic
          PROVE  more[i].time <= more[j].time
      <4>1. i \in 1 .. Len(filter.est) /\ more[i] = filter.est[i]
        BY <2>7, <2>8, <3>1
      <4>2. CASE j = top
        <5>1. more[i] \in ToSet(filter.est) /\ more[j] = m
          BY <2>7, <2>8, <4>1, <4>2 DEF ToSet
        <5> QED
          BY <1>2, <2>2, <3>1, <5>1
      <4>3. CASE j \in 1 .. Len(filter.est)
        BY <1>2, <2>7, <2>8, <3>1, <4>1, <4>3
      <4> QED
        BY <2>8, <4>2, <4>3
    <3> QED
      BY <2>8, <3>1
  <2>13. filter'.est = more
    BY <2>5 DEF more
  <2> HIDE DEF Bounded, Waiting, Sorted, Out
  <2> QED
    BY <1>2, <2>1, <2>2, <2>6, <2>10, <2>11, <2>12, <2>13 DEF history
<1>14. CASE Fused
  BY <1>7, <1>14 DEF Fused
<1>15. CASE Predict
  <2>1. /\ filter'.est = filter.est /\ filter'.time = now
        /\ filter'.initialized = filter.initialized
    BY <1>4, <1>15 DEF Predict, Filters
  <2>2. UNCHANGED <<history, underrun, sent, last_published_stamp, last_message_times,
                    measurement_queue>>
    BY <1>15 DEF Predict
  <2> HIDE DEF Bounded, Waiting, Sorted, Out
  <2> QED
    BY <1>2, <1>4, <1>5, <1>6, <2>1, <2>2 DEF history
<1>16. CASE Discard
  <2>1. /\ filter'.est = filter.est
        /\ filter'.time = IF filter.initialized THEN now ELSE filter.time
        /\ filter'.initialized = filter.initialized
    BY <1>4, <1>16 DEF Discard, Filters
  <2>2. /\ UNCHANGED <<history, underrun, sent, last_published_stamp, last_message_times>>
        /\ measurement_queue' = {}
    BY <1>16 DEF Discard, ClearMeasurementQueue
  <2> HIDE DEF Bounded, Waiting, Sorted, Out
  <2> QED
    BY <1>2, <1>4, <1>5, <1>6, <2>1, <2>2 DEF history
<1>17. CASE Publish
  <2>1. /\ UNCHANGED <<filter, history, underrun, last_message_times, measurement_queue>>
        /\ IF filter.initialized
           THEN /\ sent' = IF Corrected THEN sent ELSE Max({sent, filter.time})
                /\ last_published_stamp' = filter.time
           ELSE UNCHANGED <<sent, last_published_stamp>>
    BY <1>1, <1>17 DEF Publish
  <2>2. Max({sent, filter.time}) = IF sent <= filter.time THEN filter.time ELSE sent
    BY <1>4, Later
  <2>3. Out(filter', sent', last_published_stamp')
    BY <1>2, <1>4, <2>1, <2>2
  <2> HIDE DEF Bounded, Waiting, Sorted, Out
  <2> QED
    BY <1>2, <1>6, <2>1, <2>3 DEF history
<1>18. CASE Advance
  BY <1>7, <1>18 DEF Advance
<1>19. CASE UNCHANGED vars
  BY <1>7, <1>19 DEF vars, history
<1> QED
  BY <1>8, <1>9, <1>10, <1>11, <1>12, <1>13, <1>14, <1>15, <1>16, <1>17, <1>18, <1>19,
     MessageReceived
  DEF Next, Tick

-----------------------------------------------------------------------------
(***************************************************************************)
(* The theorems.                                                           *)
(***************************************************************************)

FilterInvariant == Types /\ Current /\ Lagged /\ Conserved /\ Straight

LEMMA ConservedInit == Init => Conserved
<1> SUFFICES ASSUME Init PROVE Conserved
  OBVIOUS
<1>1. measurement_queue = {} /\ filter.est = <<>> /\ enqueued = {}
  BY DEF Init, Constructed
<1> QED
  BY <1>1 DEF Conserved, IsInjective, ToSet

LEMMA Invariance == Spec => []FilterInvariant
<1>1. Init => FilterInvariant
  BY TypesInit, LaggedInit, ConservedInit, StraightInit DEF FilterInvariant
<1>2. FilterInvariant /\ [Next]_vars => FilterInvariant'
  BY TypesStep, LaggedStep, ConservedStep, StraightStep DEF FilterInvariant
<1> QED
  BY <1>1, <1>2, PTL DEF Spec

\* Everything the EKF node keeps has its type, whatever messages, services and
\* timer callbacks come (ros_filter.hpp).
THEOREM FilterTyped == Spec => []TypeOK
<1>1. FilterInvariant => TypeOK
  <2> SUFFICES ASSUME Types PROVE TypeOK
    BY DEF FilterInvariant
  <2>1. settings.history \in Nat
    BY SettingsType DEF Types
  <2>2. /\ filter.initialized \in BOOLEAN /\ filter.time \in 1 .. MaxTime
        /\ filter.est \in Seq(Recent) /\ measurement_history \in Seq(Recent)
        /\ Recent \subseteq Measurements
    BY DEF Types, Filters, Recent
  <2>3. ToSet(filter.est) \subseteq Measurements /\ ToSet(measurement_history) \subseteq Measurements
    BY <2>2 DEF ToSet
  <2>4. \A i \in DOMAIN filter_state_history :
          filter_state_history[i].time \in 1 .. MaxTime
    <3>1. filter_state_history \in Seq(States)
      BY DEF Types
    <3>2. \A i \in DOMAIN filter_state_history : filter_state_history[i] \in States
      BY <3>1
    <3> QED
      BY <3>2 DEF States
  <2>5. measurement_queue \subseteq Measurements
    BY <2>2 DEF Types
  <2> QED
    BY <2>1, <2>2, <2>3, <2>4, <2>5 DEF Types, TypeOK
<1> QED
  BY <1>1, Invariance, PTL

\* After a set_pose nothing measured at or before its stamp is in the queue or
\* the estimate, and no saved state or kept measurement can bring it back
\* (setPoseCallback, enqueueMeasurement, revertTo).
THEOREM NothingReturns == Spec => []SetPoseForgets
<1>1. FilterInvariant => SetPoseForgets
  <2> SUFFICES ASSUME Types PROVE SetPoseForgets
    BY DEF FilterInvariant
  <2>1. /\ measurement_queue \subseteq Recent /\ filter.est \in Seq(Recent)
        /\ measurement_history \in Seq(Recent)
    BY DEF Types, Filters
  <2>2. \A i \in DOMAIN filter_state_history : filter_state_history[i].est \in Seq(Recent)
    <3>1. filter_state_history \in Seq(States)
      BY DEF Types
    <3>2. \A i \in DOMAIN filter_state_history : filter_state_history[i] \in States
      BY <3>1
    <3> QED
      BY <3>2 DEF States
  <2>3. \A est \in Estimates : ToSet(est) \subseteq Recent
    <3>1. \A est \in Estimates : est \in Seq(Recent)
      BY <2>1, <2>2 DEF Estimates
    <3> QED
      BY <3>1 DEF ToSet
  <2>4. ToSet(measurement_history) \subseteq Recent
    BY <2>1 DEF ToSet
  <2>5. \A m \in Recent : m.time > last_set_pose_time
    BY DEF Recent
  <2> QED
    BY <2>1, <2>3, <2>4, <2>5 DEF SetPoseForgets
<1> QED
  BY <1>1, Invariance, PTL

\* While every late measurement found a saved state before it, each measurement
\* enqueued and not thrown away is either still queued or in the estimate once
\* (revertTo, clearExpiredHistory, integrateMeasurements).
THEOREM NothingLostOrTwice == Spec => []Conserved
<1>1. FilterInvariant => Conserved
  BY DEF FilterInvariant
<1> QED
  BY <1>1, Invariance, PTL

\* With smoothing the estimate holds its measurements in the order of their
\* stamps, whatever order they came in, without it those of each topic; and no
\* stamp is published a second time unless the settings permit it
\* (integrateMeasurements, periodicUpdate).
THEOREM InOrderOfStamps == Spec => []Smoothed
<1>1. FilterInvariant => FusedInOrder
  <2> SUFFICES ASSUME FilterInvariant PROVE FusedInOrder
    OBVIOUS
  <2>1. settings.smooth \in BOOLEAN
    BY SettingsType DEF FilterInvariant, Types
  <2> QED
    BY <2>1 DEF FilterInvariant, Lagged, Straight, Ancestry, FusedInOrder
<1>2. FilterInvariant => StampsRise
  <2> SUFFICES ASSUME Types, Straight, filter.initialized, ~settings.smooth, ~Corrected,
                      ~settings.permit
               PROVE  filter.time > sent
    BY DEF FilterInvariant, StampsRise
  <2>1. sent \in Int /\ last_published_stamp \in Int /\ filter.time \in Int
    BY DEF Types, Filters
  <2>2. sent <= last_published_stamp
    BY DEF Straight
  <2>3. last_published_stamp < filter.time
    BY <2>1 DEF Corrected
  <2> QED
    BY <2>1, <2>2, <2>3
<1>3. FilterInvariant => Smoothed
  BY <1>1, <1>2 DEF Smoothed
<1> QED
  BY <1>3, Invariance, PTL
=============================================================================
