------------------------------ MODULE LidarPublish -----------------------------
(***************************************************************************)
(* From a grabbed scan to the LaserScan message: ascendScanData of the     *)
(* rplidar SDK, which gives samples without an echo an angle and sorts,    *)
(* and the two ways rplidar_node publishes the result.                     *)
(*                                                                         *)
(* Angles are whole numbers of angle_z_q14's unit, of which Fine make a    *)
(* degree; 2^16 of them, here Turn, make a turn and overflow to 0. A       *)
(* sample's distance stands for the sample: 0 for no echo, or its number.  *)
(***************************************************************************)
EXTENDS Integers, Sequences, FiniteSets, FiniteSetsExt, TLC

CONSTANTS
  Degrees,     \* degrees of a turn: 360
  Fine,        \* angle units of a degree
  Multiple,    \* angle_compensate_multiple
  MaxSamples   \* bound on the samples of a scan

Turn == Degrees * Fine

VARIABLES
  inverted, flip, compensate,  \* the node's parameters
  nodes,                       \* the local buffer of work_loop
  stage,                       \* "grabbed", "ascended", "hopeless" or "published"
  message                      \* the LaserScan, as far as it is about angles

vars == <<inverted, flip, compensate, nodes, stage, message>>

Count    == Len(nodes)
Valid(i) == nodes[i].dist # 0
Echoes   == {i \in 1 .. Count : Valid(i)}

-----------------------------------------------------------------------------
(* ascendScanData_ *)

\* setAngle(node, expected), for an angle in units of 1 / Count: one turn too
\* many is taken off, a whole one overflows to 0.
Stored(angle) ==
  ((IF angle > Turn * Count THEN angle - Turn * Count ELSE angle) \div Count) % Turn

\* Samples without an echo before the first one that has it are spaced evenly
\* back from it, down to 0, ...
TuneHead ==
  LET a[i \in 1 .. Count] ==
        IF i >= Min(Echoes) THEN nodes[i].angle
        ELSE IF a[i + 1] * Count < Turn THEN 0 ELSE Stored(a[i + 1] * Count - Turn)
  IN  a

\* ... those behind the last one on from it, ...
TuneTail ==
  LET head == TuneHead
      a[i \in 1 .. Count] ==
        IF i <= Max(Echoes) THEN head[i] ELSE Stored(a[i - 1] * Count + Turn)
  IN  a

\* ... and then all but the first one, those included, on from the first.
Fill ==
  LET tuned == TuneTail
  IN  [i \in 1 .. Count |->
         IF i = 1 \/ Valid(i) THEN tuned[i] ELSE Stored(tuned[1] * Count + (i - 1) * Turn)]

Filled == LET angle == Fill IN [i \in 1 .. Count |-> [nodes[i] EXCEPT !.angle = angle[i]]]

\* std::sort leaves equal angles in any order.
Sorted(s) ==
  {[i \in 1 .. Len(s) |-> s[p[i]]] :
     p \in {q \in Permutations(1 .. Len(s)) :
              \A i \in 2 .. Len(s) : s[q[i - 1]].angle <= s[q[i]].angle}}

Ascend ==
  /\ stage = "grabbed"
  /\ IF Echoes = {} THEN stage' = "hopeless" /\ UNCHANGED nodes
     ELSE stage' = "ascended" /\ nodes' \in Sorted(Filled)
  /\ UNCHANGED <<inverted, flip, compensate, message>>

-----------------------------------------------------------------------------
(* publish_scan *)

Half == Turn \div 2

\* Not the code: the data are reversed whichever way the lidar hangs.
AppliedUpright(i, n, reversed) ==
  LET k == n - 1 - i
  IN  IF ~ flip THEN k ELSE IF k >= n \div 2 THEN k - n \div 2 ELSE k + n \div 2

\* Where node i of n is written.
Applied(i, n, reversed) ==
  LET k == IF reversed # inverted THEN n - 1 - i ELSE i
  IN  IF ~ flip THEN k ELSE IF k >= n \div 2 THEN k - n \div 2 ELSE k + n \div 2

\* The message for the samples s, indexed from 0, between two angles. A range of
\* 0 stands for infinity. With an odd number of samples a flip leaves a place
\* unwritten, and writes another twice.
Scan(s, low, high) ==
  LET n == Cardinality(DOMAIN s)
      reversed == high > low
      At(k) == {i \in DOMAIN s : Applied(i, n, reversed) = k}
  IN  [min |-> Half - (IF reversed THEN high ELSE low),
       max |-> Half - (IF reversed THEN low ELSE high),
       ranges |-> [k \in DOMAIN s |-> IF At(k) = {} THEN 0 ELSE s[Max(At(k))].dist]]

Publish(s, low, high) ==
  /\ message' = Scan(s, low, high) /\ stage' = "published"
  /\ UNCHANGED <<inverted, flip, compensate, nodes>>

Bins == Degrees * Multiple
LastDegree == (Degrees - 1) * Fine

\* The bins sample i is written to: as many as make a degree, from its angle on.
BinsOf(i) ==
  {IF b < Bins THEN b ELSE Bins - 1 :
     b \in LET first == (nodes[i].angle * Multiple) \div Fine
           IN  first .. first + Multiple - 1}

\* The angle compensation: a later sample overwrites an earlier one.
Compensated ==
  [b \in 0 .. Bins - 1 |->
     LET in == {i \in Echoes : b \in BinsOf(i)}
     IN  IF in = {} THEN [angle |-> 0, dist |-> 0] ELSE nodes[Max(in)]]

PublishCompensated ==
  /\ stage = "ascended" /\ compensate /\ Publish(Compensated, 0, LastDegree)

\* Without it, the samples between the first and the last that have an echo, as
\* if they were evenly spaced.
PublishTrimmed ==
  /\ stage = "ascended" /\ ~ compensate
  /\ LET first == Min(Echoes)
         last  == Max(Echoes)
     IN  Publish([i \in 0 .. last - first |-> nodes[first + i]],
                 nodes[first].angle, nodes[last].angle)

\* ascendScanData failed: nothing has an echo, which is published all the same.
PublishHopeless ==
  /\ stage = "hopeless" /\ Publish([i \in 0 .. Count - 1 |-> nodes[i + 1]], 0, LastDegree)

-----------------------------------------------------------------------------

\* A grabbed scan opens with the sample that starts a turn, near angle 0, and
\* its samples were measured one behind the other on that turn (LidarScan).
Starts == {Turn - 2, Turn - 1, 0, 1, 2}
Offsets == UNION {kSubset(n, 1 .. Turn - 1) : n \in 0 .. MaxSamples - 1}
Grabbed(start, offsets, echoes) ==
  LET places == {0} \cup offsets
      at(i) == CHOOSE o \in places : Cardinality({p \in places : p <= o}) = i
  IN  [i \in 1 .. Cardinality(places) |->
         [angle |-> (start + at(i)) % Turn, dist |-> IF i \in echoes THEN i ELSE 0]]

Init ==
  /\ inverted \in BOOLEAN /\ flip \in BOOLEAN /\ compensate \in BOOLEAN
  /\ \E start \in Starts, offsets \in Offsets :
       \E echoes \in SUBSET (1 .. Cardinality(offsets) + 1) :
         nodes = Grabbed(start, offsets, echoes)
  /\ stage = "grabbed" /\ message = [min |-> 0, max |-> 0, ranges |-> <<>>]

Next == Ascend \/ PublishCompensated \/ PublishTrimmed \/ PublishHopeless

Spec == Init /\ [][Next]_vars

-----------------------------------------------------------------------------
(* Properties *)

Published == stage = "published"
Shown     == {message.ranges[k] : k \in DOMAIN message.ranges} \ {0}
Sample(d) == CHOOSE n \in Range(nodes) : n.dist = d
Measured  == {nodes[i].dist : i \in Echoes}

\* Distance of two angles on the circle, in units of 1 / scale.
Apart(a, b, scale) ==
  LET d == (a - b) % (Turn * scale) IN IF 2 * d > Turn * scale THEN Turn * scale - d ELSE d

\* A sample at angle a, measured clockwise from behind the device, as ROS counts
\* it, for a device that hangs upside down or is mounted turned round.
Ros(a) == (IF inverted THEN a - Half ELSE Half - a) + (IF flip THEN Half ELSE 0)

\* With angle compensation every range stands at the angle it was measured at,
\* to less than two degrees, however the device is mounted: less than one for the
\* bins it is written to, and one for the bins of a turn being laid out over a
\* degree less. And whatever has an echo is shown, or one that was measured up to a
\* degree behind it.
InPlace ==
  Published /\ compensate /\ Echoes # {} =>
    LET n == Bins - 1
        shownAt(k) == message.min * n + k * (message.max - message.min)
    IN  /\ \A k \in 0 .. n : message.ranges[k] # 0 =>
             Apart(shownAt(k), Ros(Sample(message.ranges[k]).angle) * n, n) < 2 * Fine * n
        /\ \A d \in Measured : d \in Shown \/
             \E e \in Shown : Sample(e).angle - Sample(d).angle \in 0 .. Fine

\* Without it every sample that has an echo is shown once, unless an odd number
\* of them is flipped.
AllShown ==
  Published /\ ~ compensate /\ (flip => Cardinality(DOMAIN message.ranges) % 2 = 0) =>
    Shown = Measured
=============================================================================
