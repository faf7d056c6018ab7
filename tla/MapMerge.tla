------------------------------ MODULE MapMerge -------------------------------
(***************************************************************************)
(* simple_map_merge: maps of several robots arrive, each in a frame that   *)
(* may or may not have a transform, and a timer lays them over each other  *)
(* in a grid that is as large as they are together, then clears what is    *)
(* configured and where the robots have been.                              *)
(*                                                                         *)
(* The world is a line, in half units of length, and no frame is rotated.  *)
(* The node has one thread, so a callback is one step.                     *)
(***************************************************************************)
EXTENDS MapCells, SequencesExt

CONSTANTS
  Topics,         \* map_topics, in their order
  Resolution,     \* length of a cell of the merged map
  Regions,        \* clear_regions: records of a centre x and a radius
  Robots,         \* clear_robot_frames
  ClearRadius,    \* clear_robot_radius
  PathDistance,   \* clear_robot_path_distance
  MaxPoses,       \* max_clear_robot_poses
  Messages,       \* maps that may arrive: records of origin, resolution, data
  Offsets         \* where frames may be in the world

TopicSet == {Topics[k] : k \in 1 .. Len(Topics)}

VARIABLES
  maps,    \* maps: what arrived last, by topic
  frame,   \* what tf knows of the maps' frames, by topic
  place,   \* what tf knows of the robots' frames, by robot
  poses,   \* clear_robot_poses
  merged   \* the maps published so far: where the last begins, its data

vars == <<maps, frame, place, poses, merged>>

\* Functions on a part of a set, as dict is.
Partial(S, T) == UNION {[D -> T] : D \in SUBSET S}
With(f, x, v) == [y \in DOMAIN f \cup {x} |-> IF y = x THEN v ELSE f[y]]

Ceiling(a, b) == -((-a) \div b)
Abs(n) == IF n < 0 THEN -n ELSE n
Least(S) == CHOOSE x \in S : \A y \in S : x <= y
Greatest(S) == CHOOSE x \in S : \A y \in S : x >= y

-----------------------------------------------------------------------------
(* The merged map.                                                         *)

\* The topics that have a map whose frame is known.
Known == {t \in TopicSet : t \in DOMAIN maps \cap DOMAIN frame}

Begin(t) == frame[t] + maps[t].origin
End(t) == Begin(t) + Len(maps[t].data) * maps[t].resolution

\* Where the merged map begins, and how many cells it has.
MinX == Least({Begin(t) : t \in Known})
MaxX == Greatest({End(t) : t \in Known})
Width == Larger(1, Ceiling(MaxX - MinX, Resolution))

\* The cell of the merged map that x is in.
CellAt(x) == (x - MinX) \div Resolution
Cells == 0 .. Width - 1

\* The middle of the k-th cell of a map, and the cell of the merged map that is
\* laid over with it, if its value is known.
Middle(t, k) ==
  Begin(t) + (k - 1) * maps[t].resolution + maps[t].resolution \div 2
Covers(t, k, c) == maps[t].data[k] >= 0 /\ CellAt(Middle(t, k)) = c

\* overlay_map: what is in cell c of the merged map, one cell of t after the
\* other.
OverlayMap(t, c, before) ==
  LET laid[k \in 0 .. Len(maps[t].data)] ==
        IF k = 0 THEN before
        ELSE IF Covers(t, k, c)
          THEN Merged(laid[k - 1], Normalized(maps[t].data[k]))
        ELSE laid[k - 1]
  IN  laid[Len(maps[t].data)]

\* merged_data, when every map is laid over it in the order of the topics
Overlaid ==
  [c \in Cells |->
    LET laid[k \in 0 .. Len(Topics)] ==
          IF k = 0 THEN Unknown
          ELSE IF Topics[k] \in Known THEN OverlayMap(Topics[k], c, laid[k - 1])
          ELSE laid[k - 1]
    IN  laid[Len(Topics)]]

\* Cells that are cleared around a point x / n.
Circle(x, n, radius) ==
  {c \in Cells : Abs(c - (x - n * MinX) \div (n * Resolution)) * Resolution
                   <= radius}

\* clear_line walks from one pose to the next in so many steps.
Steps(from, to) ==
  Larger(1, Ceiling(2 * Abs(to - from), Larger(2 * Resolution, ClearRadius)))

Line(from, to) ==
  LET n == Steps(from, to) IN
    UNION {Circle(from * n + (to - from) * k, n, ClearRadius) : k \in 0 .. n}

\* clear_robot_trajectory_regions
Trajectory(path) ==
  UNION ({Line(path[k], path[k + 1]) : k \in 1 .. Len(path) - 1}
         \cup {Circle(path[k], 1, ClearRadius) : k \in 1 .. Len(path)})

\* clear_configured_regions and the trajectories of all robots
Cleared(paths) ==
  UNION ({Circle(r.x, 1, r.radius) : r \in Regions}
         \cup {Trajectory(paths[r]) : r \in
                 {q \in Robots : ClearRadius > 0}})

-----------------------------------------------------------------------------
\* map_callback
MapCallback ==
  /\ \E t \in TopicSet, m \in Messages : maps' = With(maps, t, m)
  /\ UNCHANGED <<frame, place, poses, merged>>

\* tf hears of a frame.  It does not forget one.
HearTransform ==
  /\ \E x \in Offsets :
       \/ \E t \in TopicSet : frame' = With(frame, t, x) /\ UNCHANGED place
       \/ \E r \in Robots : place' = With(place, r, x) /\ UNCHANGED frame
  /\ UNCHANGED <<maps, poses, merged>>

\* The last n elements, or all there are.
LastOf(s, n) == IF Len(s) > n THEN SubSeq(s, Len(s) - n + 1, Len(s)) ELSE s

\* Not the code: the newest poses are dropped.
MovedKeepingOldest(r) ==
  LET path == poses[r] IN
    IF \/ r \notin DOMAIN place
       \/ path # <<>> /\ Abs(place[r] - Last(path)) < PathDistance
       \/ Len(path) = MaxPoses
      THEN path
      ELSE Append(path, place[r])

\* update_clear_robot_poses, for one robot
Moved(r) ==
  LET path == poses[r] IN
    IF \/ r \notin DOMAIN place
       \/ path # <<>> /\ Abs(place[r] - Last(path)) < PathDistance
      THEN path
      ELSE LastOf(Append(path, place[r]), MaxPoses)

\* publish_merged_map
PublishMergedMap ==
  /\ poses' = [r \in Robots |-> Moved(r)]
  /\ merged' = IF Known = {} THEN merged
               ELSE <<[x |-> MinX,
                       data |-> [c \in Cells |->
                         IF c \in Cleared(poses') THEN 0 ELSE Overlaid[c]]]>>
  /\ UNCHANGED <<maps, frame, place>>

Init ==
  /\ maps = <<>>
  /\ frame = <<>>
  /\ place = <<>>
  /\ poses \in [Robots -> {<<>>} \cup {<<x>> : x \in Offsets}]
  /\ merged = <<>>

Next == MapCallback \/ HearTransform \/ PublishMergedMap

Spec == Init /\ [][Next]_vars

-----------------------------------------------------------------------------
TypeOK ==
  /\ maps \in Partial(TopicSet, Messages)
  /\ frame \in Partial(TopicSet, Offsets)
  /\ place \in Partial(Robots, Offsets)
  /\ \A r \in Robots : poses[r] \in Seq(Offsets) /\ Len(poses[r]) <= MaxPoses
  /\ \A grid \in ToSet(merged) :
       /\ grid.x \in Int
       /\ \A c \in DOMAIN grid.data : grid.data[c] \in Unknown .. Full

\* The cells between those of two points.
Between(x, y) ==
  {c \in Cells : /\ Smaller(CellAt(x), CellAt(y)) <= c
                 /\ c <= Larger(CellAt(x), CellAt(y))}

\* The known cells of a map: their middle and their value.
Samples(t) ==
  {[x |-> Middle(t, k), value |-> maps[t].data[k]] :
     k \in {j \in 1 .. Len(maps[t].data) : maps[t].data[j] >= 0}}

\* A merged map is published, whose data is this.
Published == PublishMergedMap /\ Known # {}
Data == merged'[1].data

(***************************************************************************)
(* A cell of the merged map that is not cleared has the largest normalised *)
(* value any robot has seen there, in whatever order the maps arrived or   *)
(* are listed; and no known cell of a map falls outside of the merged one. *)
(***************************************************************************)
LargestWins ==
  [][Published =>
       LET all == UNION {Samples(t) : t \in Known}
       IN  /\ \A s \in all : CellAt(s.x) \in Cells
           /\ \A c \in Cells \ Cleared(poses') :
                LET here == {s \in all : CellAt(s.x) = c} IN
                  Data[c] = IF here = {} THEN Unknown
                            ELSE Greatest({Normalized(s.value) : s \in here})]_vars

(***************************************************************************)
(* Robots see each other as obstacles: where one has been, and all the way *)
(* between two of its poses, the merged map is free - the steps clear_line *)
(* takes leave no cell out.                                                *)
(***************************************************************************)
TrailIsFree ==
  Published /\ ClearRadius > 0 =>
    \A r \in Robots : \A k \in 1 .. Len(poses'[r]) - 1 :
      \A c \in Between(poses'[r][k], poses'[r][k + 1]) : Data[c] = 0

(***************************************************************************)
(* However long a robot drives, its trail has a bound and ends where the   *)
(* robot is: what is dropped when it is too long are the oldest poses.     *)
(***************************************************************************)
TrailFollows ==
  PublishMergedMap =>
    \A r \in DOMAIN place :
      /\ Len(poses'[r]) \in 1 .. MaxPoses
      /\ LET d == Abs(place[r] - Last(poses'[r])) IN d = 0 \/ d < PathDistance

\* Both, of every publication: the trail follows its robot and is free.
Trail == [][TrailIsFree /\ TrailFollows]_vars
=============================================================================
