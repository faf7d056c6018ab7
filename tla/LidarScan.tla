------------------------------ MODULE LidarScan ------------------------------
(***************************************************************************)
(* The measurement path of rplidar_ros: the bytes of a scan stream, the    *)
(* handler that finds the frames in them and turns frames into samples     *)
(* (sdk/src/dataunpacker), the double buffer that turns samples into scans *)
(* and the grab that hands a scan to the node (sl_lidar_driver.cpp).       *)
(*                                                                         *)
(* Three actors: the device, which turns and sends; the decoder thread,    *)
(* which unpacks frames and pushes samples one at a time; and the node's   *)
(* thread, which waits for a scan, copies it, and restarts the stream.     *)
(* The stream between device and decoder loses and damages bytes.          *)
(***************************************************************************)
EXTENDS Integers, Sequences, FiniteSets, SequencesExt

CONSTANTS
  Modes,        \* answer types the device may be started in
  Full,         \* a turn, in units of a frame's start angle
  Fine,         \* units of the sample angle in one unit of the start angle
  Speeds,       \* how far the device may turn while it measures one frame
  FrameBytes,   \* bytes of a frame with a checksum (a normal node has five)
  MaxDiff,      \* maxDiffAngleThreshold of the dense handlers
  MaxNodes,     \* MAX_SCANNODE_CACHE_COUNT
  MaxFrames, MaxSessions, MaxFaults   \* bounds of the exploration

Capsules == {"capsule", "ultra", "dense", "ultradense"}
Dense    == {"dense", "ultradense"}

ASSUME ScanAssumption ==
  /\ Modes \subseteq Capsules \cup {"hq", "normal"}
  /\ Full \in Nat \ {0} /\ Fine \in Nat \ {0} /\ Speeds \subseteq 1 .. Full - 1
  /\ FrameBytes \in Nat /\ FrameBytes > 2
  /\ MaxNodes \in Nat \ {0}

VARIABLES
  mode,      \* the answer type of every session
  frame,     \* the frame the device is about to send
  hand,      \* the active handler: bytes cached, previous capsule, samples out
  buf,       \* _scanbuffer: two sequences of samples
  avail,     \* _scan_node_available_id
  event,     \* _data_waiter is signalled
  grab,      \* the node's thread: "idle", or "woken" between wait and lock
  got,       \* the scan the last grab copied out
  broken,    \* the frames the stream lost or damaged (history)
  astray     \* normal nodes that came whole to a handler out of step (history)

vars == <<mode, frame, hand, buf, avail, event, grab, got, broken, astray>>

NoFrame == [id |-> 0]

\* Samples in one frame of a mode, scaled down: only the ultra and the plain
\* dense capsule have a count the sample angle's unit does not divide.
Samples ==
  CASE mode = "normal" -> 1 [] mode \in {"ultra", "dense"} -> 3 [] OTHER -> 2

-----------------------------------------------------------------------------
(* The device *)

\* Where sample k of frame f is measured, in parts of the start angle's unit,
\* counted on through the turns.
Place(f, k) == f.at * Samples + k * f.span
Turn == Full * Samples

\* The device itself marks the first sample of a turn in the modes whose
\* frames carry whole samples.
Crosses(f, k) == Place(f, k) % Turn < (IF k = 0 THEN f.lead ELSE f.span)

FirstFrame(id, session, span) ==
  [id |-> id, session |-> session, at |-> Full - 1, span |-> span,
   lead |-> span, first |-> mode \in Capsules]

FrameSize == IF mode = "normal" THEN 5 ELSE FrameBytes

\* Which of the two tests at the head of a frame a byte passes.  Those of a
\* capsule are two values of one nibble; those of a normal node are one bit
\* each, and the second test's bit is the sync bit of a first byte.
Looks ==
  CASE mode = "normal" -> SUBSET {"s1", "s2"}
    [] mode = "hq" -> {{}, {"s1"}}
    [] OTHER -> {{}, {"s1"}, {"s2"}}

\* What byte i of frame f looks like, where its data would make it `look`.
Look(f, i, look) ==
  CASE i = 1 -> {"s1"} \cup (IF mode = "normal" /\ Crosses(f, 0) THEN {"s2"} ELSE {})
    [] i = 2 /\ mode = "normal" -> look \cup {"s2"}
    [] i = 2 /\ mode \in Capsules -> {"s2"}
    [] OTHER -> look

\* What byte i of frame f may be, as the handler sees it: which frame, which
\* place in it, what it looks like, and whether it is intact; a damaged one may
\* look like any.
Bytes(f, i, bad) ==
  {[of |-> f, i |-> i, ok |-> i # bad,
    look |-> IF i = bad THEN look ELSE Look(f, i, look)] : look \in Looks}

-----------------------------------------------------------------------------
(* Frames to samples *)

Wire(f)    == f.at % Full
Diff(p, c) == IF Wire(p) > Wire(c) THEN Wire(c) - Wire(p) + Full ELSE Wire(c) - Wire(p)

Node(f, k, sync) ==
  [frame |-> f.id, session |-> f.session, k |-> k, place |-> Place(f, k), sync |-> sync]

Inc(p, c) == (Diff(p, c) * Fine) \div Samples

\* Not the code: an increment that ends exactly on a whole turn counts twice.
MarksClosed(p, c, k) ==
  (Wire(p) * Fine + (k + 1) * Inc(p, c)) % (Full * Fine)
     <= (IF mode \in Dense THEN 2 ELSE 1) * Inc(p, c)

\* The next sample of the previous capsule p starts a turn: its raw angle plus
\* the increment wraps. The dense handlers look two increments wide ...
Marks(p, c, k) ==
  (Wire(p) * Fine + (k + 1) * Inc(p, c)) % (Full * Fine)
     < (IF mode \in Dense THEN 2 ELSE 1) * Inc(p, c)

\* ... and keep the first of two marks in a row.
Syncs(p, c, last) ==
  LET sync[k \in 0 .. Samples - 1] ==
        /\ Marks(p, c, k)
        /\ mode \in Dense => ~ (IF k = 0 THEN last ELSE sync[k - 1])
  IN  sync

\* The samples of the previous capsule can only be placed once the start angle
\* of this one is known.
Kept(h, f) == [h EXCEPT !.prev = f, !.ready = TRUE]
Placed(h, f) ==
  LET sync == Syncs(h.prev, f, h.sync)
      out  == [j \in 1 .. Samples |-> Node(h.prev, j - 1, sync[j - 1])]
  IN  [Kept(h, f) EXCEPT !.out = @ \o out, !.sync = sync[Samples - 1]]

OnCapsuleData(h, f) == IF h.ready THEN Placed(h, f) ELSE Kept(h, f)

\* The last sample's distance leans on the first one of this capsule.
OnUltraCapsuleData(h, f) == IF h.ready THEN Placed(h, f) ELSE Kept(h, f)

\* A turn too fast for the sample rate is a frame lost in between.
OnDenseCapsuleData(h, f) ==
  IF h.ready /\ Diff(h.prev, f) <= MaxDiff THEN Placed(h, f) ELSE Kept(h, f)

OnUltraDenseCapsuleData(h, f) ==
  IF h.ready /\ Diff(h.prev, f) <= MaxDiff THEN Placed(h, f) ELSE Kept(h, f)

-----------------------------------------------------------------------------
(* Bytes to frames: onData of the six handlers, byte by byte *)

Rewind == [rewind |-> TRUE]
Forget(h) == [h EXCEPT !.ready = FALSE]

\* The frame whose bytes have been cached when b comes on top of them; NoFrame
\* when they are not all of one frame and intact.
FrameOf(h, b) ==
  IF b.ok /\ b.i = h.pos + 1 /\ (h.pos = 0 \/ h.of = b.of) THEN b.of ELSE NoFrame
Cached(h, b) == [h EXCEPT !.pos = @ + 1, !.of = FrameOf(h, b)]

\* A capsule with the first-frame flag forgets the previous one and asks for the
\* scan under construction to be dropped.
Opened(h, b) ==
  LET done == [h EXCEPT !.pos = 0]
  IN  IF FrameOf(h, b).first
      THEN Forget([done EXCEPT !.out = Append(@, Rewind)])
      ELSE done

\* What the capsule handlers have in common; unpacked is what the last byte of a
\* capsule makes of h.  The byte that ends a false start is dropped, not read
\* again as the start of the next frame, and forgets the previous capsule, as a
\* wrong checksum does.
InStep(h, b, unpacked) ==
  CASE h.pos = 0 /\ "s1" \notin b.look -> Forget(h)
    [] h.pos = 1 /\ "s2" \notin b.look -> Forget([h EXCEPT !.pos = 0])
    [] h.pos = FrameSize - 1 ->
         IF FrameOf(h, b) = NoFrame THEN Forget([h EXCEPT !.pos = 0]) ELSE unpacked
    [] OTHER -> Cached(h, b)

OnCapsuleByte(h, b)    == InStep(h, b, OnCapsuleData(Opened(h, b), FrameOf(h, b)))
OnUltraByte(h, b)      == InStep(h, b, OnUltraCapsuleData(Opened(h, b), FrameOf(h, b)))
OnDenseByte(h, b)      == InStep(h, b, OnDenseCapsuleData(Opened(h, b), FrameOf(h, b)))
OnUltraDenseByte(h, b) == InStep(h, b, OnUltraDenseCapsuleData(Opened(h, b), FrameOf(h, b)))

\* One sync byte, a CRC, and whole samples.
OnHQByte(h, b) ==
  LET f == FrameOf(h, b) IN
  CASE h.pos = 0 /\ "s1" \notin b.look -> h
    [] h.pos = FrameSize - 1 ->
         [h EXCEPT !.pos = 0,
            !.out = @ \o IF f = NoFrame THEN <<>>
                         ELSE [j \in 1 .. Samples |-> Node(f, j - 1, Crosses(f, j - 1))]]
    [] OTHER -> Cached(h, b)

\* One bit in each of the first two bytes and nothing else tell a sample from
\* what is left of two of them: it is unpacked like any, and starts a turn if
\* the byte taken for its first has the sync bit.
OnNormalByte(h, b) ==
  LET f == FrameOf(h, b) IN
  CASE h.pos = 0 -> IF "s1" \in b.look
                    THEN [Cached(h, b) EXCEPT !.head = "s2" \in b.look] ELSE h
    [] h.pos = 1 /\ "s2" \notin b.look -> [h EXCEPT !.pos = 0, !.head = FALSE]
    [] h.pos = FrameSize - 1 ->
         [h EXCEPT !.pos = 0, !.head = FALSE,
            !.out = Append(@, Node(IF f = NoFrame THEN frame ELSE f, 0, h.head))]
    [] OTHER -> Cached(h, b)

OnByte(h, b) ==
  CASE mode = "capsule" -> OnCapsuleByte(h, b)
    [] mode = "ultra" -> OnUltraByte(h, b)
    [] mode = "dense" -> OnDenseByte(h, b)
    [] mode = "ultradense" -> OnUltraDenseByte(h, b)
    [] mode = "hq" -> OnHQByte(h, b)
    [] mode = "normal" -> OnNormalByte(h, b)

\* What handler h may become of the bytes of f at these places, one by one.
OnData(h, f, places, bad) ==
  FoldLeft(LAMBDA hs, i : {OnByte(g, b) : g \in hs, b \in Bytes(f, i, bad)},
           {h}, places)

\* reset() of the active handler: only the capsule and ultra handlers forget
\* the previous capsule, and the plain dense one keeps its last sync bit.
ResetHandler(h) ==
  [h EXCEPT !.pos = 0, !.head = FALSE,
            !.ready = @ /\ mode \in Dense,
            !.sync  = @ /\ mode # "ultradense"]

-----------------------------------------------------------------------------
(* Samples to scans: ScanDataHolder *)

Op == IF avail < 0 THEN 0 ELSE 1 - avail

\* pushScanNodeData: a sync sample finishes the scan under construction and
\* starts the next in the other buffer; before the first one nothing is kept.
PushSync(n) ==
  /\ n.sync
  /\ IF buf[Op] = <<>>
     THEN buf' = [buf EXCEPT ![Op] = <<n>>] /\ UNCHANGED <<avail, event>>
     ELSE buf' = [buf EXCEPT ![1 - Op] = <<n>>] /\ avail' = Op /\ event' = TRUE

PushInner(n) ==
  /\ ~ n.sync
  /\ buf' = [buf EXCEPT ![Op] =
               IF @ = <<>> THEN @
               ELSE IF Len(@) >= MaxNodes THEN [@ EXCEPT ![Len(@)] = n] ELSE Append(@, n)]
  /\ UNCHANGED <<avail, event>>

\* The decoder thread publishes what the handler produced, one call at a time.
Push ==
  /\ hand.out # <<>>
  /\ hand' = [hand EXCEPT !.out = Tail(@)]
  /\ IF Head(hand.out) = Rewind
     THEN buf' = [buf EXCEPT ![Op] = <<>>] /\ UNCHANGED <<avail, event>>
     ELSE PushSync(Head(hand.out)) \/ PushInner(Head(hand.out))
  /\ UNCHANGED <<mode, frame, grab, got, broken, astray>>

\* waitAndLockAvailableScan: the wait consumes the signal ...
Wait ==
  /\ grab = "idle" /\ event
  /\ grab' = "woken" /\ event' = FALSE
  /\ UNCHANGED <<mode, frame, hand, buf, avail, got, broken, astray>>

\* ... and the buffer is chosen later, under the lock.
Copy ==
  /\ grab = "woken"
  /\ grab' = "idle" /\ got' = buf[avail]
  /\ UNCHANGED <<mode, frame, hand, buf, avail, event, broken, astray>>

-----------------------------------------------------------------------------
(* The stream *)

Following(span, first) ==
  [frame EXCEPT !.id = @ + 1, !.at = @ + frame.span, !.lead = frame.span,
                !.span = span, !.first = first]

\* The device goes on to its next frame.  Capsules have a flag for the first one
\* after the encoder was reset.
Advance ==
  \E span \in Speeds, first \in IF mode \in Capsules THEN BOOLEAN ELSE {FALSE} :
    frame' = Following(span, first)

\* The bytes of the frame at these places reach the handler.
Places == [i \in 1 .. FrameSize |-> i]
Deliver(places, bad) == hand' \in OnData(hand, frame, places, bad)

Sending == hand.out = <<>> /\ frame.id <= MaxFrames

Intact ==
  /\ Sending
  /\ Deliver(Places, 0)
  /\ astray' = IF mode = "normal" /\ hand.pos # 0
               THEN astray \cup {frame.id} ELSE astray
  /\ Advance
  /\ UNCHANGED <<mode, buf, avail, event, grab, got, broken>>

Damaged ==
  /\ Sending /\ Cardinality(broken) < MaxFaults
  /\ \E bad \in 1 .. FrameSize : Deliver(Places, bad)
  /\ broken' = broken \cup {frame.id}
  /\ Advance
  /\ UNCHANGED <<mode, buf, avail, event, grab, got, astray>>

\* A run of bytes of the frame is lost, all of them when the host overruns.
Lossy ==
  /\ Sending /\ Cardinality(broken) < MaxFaults
  /\ \E lo \in 1 .. FrameSize, hi \in 1 .. FrameSize :
       lo <= hi /\ Deliver(SelectSeq(Places, LAMBDA i : i < lo \/ i > hi), 0)
  /\ broken' = broken \cup {frame.id}
  /\ Advance
  /\ UNCHANGED <<mode, buf, avail, event, grab, got, astray>>

\* The node stops the scan and starts it again: the handler is reset when the
\* unpacker is disabled and enabled, the holder before it is enabled. The
\* decoder is idle by then (LidarDriver).
Restart ==
  /\ grab = "idle" /\ hand.out = <<>> /\ frame.session < MaxSessions
  /\ \E span \in Speeds : frame' = FirstFrame(frame.id + 1, frame.session + 1, span)
  /\ hand' = ResetHandler(hand)
  /\ buf' = [b \in 0 .. 1 |-> <<>>] /\ avail' = -1 /\ event' = FALSE /\ got' = <<>>
  /\ UNCHANGED <<mode, grab, broken, astray>>

Init ==
  /\ mode \in Modes
  /\ \E span \in Speeds : frame = FirstFrame(1, 1, span)
  /\ hand = [pos |-> 0, of |-> NoFrame, ready |-> FALSE, prev |-> NoFrame,
             sync |-> FALSE, head |-> FALSE, out |-> <<>>]
  /\ buf = [b \in 0 .. 1 |-> <<>>] /\ avail = -1 /\ event = FALSE
  /\ grab = "idle" /\ got = <<>> /\ broken = {} /\ astray = {}

Next == Push \/ Wait \/ Copy \/ Intact \/ Damaged \/ Lossy \/ Restart

Spec == Init /\ [][Next]_vars

-----------------------------------------------------------------------------
(* Properties *)

\* One sample comes before another on the device.
Before(m, n) == m.frame < n.frame \/ (m.frame = n.frame /\ m.k < n.k)

\* Samples that are neighbours on the device.
Adjacent(m, n) == \/ m.frame = n.frame /\ n.k = m.k + 1
                  \/ n.frame = m.frame + 1 /\ m.k = Samples - 1 /\ n.k = 0

\* The frames that decide what is in scan s, and where it begins and ends:
\* those it was measured in, the one before and the two after.
Window(s) == s[1].frame - 1 .. s[Len(s)].frame + 2

\* The stream lost and damaged nothing near the samples of scan s.
Unhurt(s) == broken \cap Window(s) = {}

Lap(n) == n.place \div Turn
Width  == CHOOSE d \in Speeds : \A e \in Speeds : e <= d

\* A grabbed scan opens with the sample that starts a turn, and no other sample
\* in it does, whatever the stream lost (sl_lidar_driver.h:421, "The first node
\* of the grabbed data array must be the first sample of a scan").
StartsWithSync == got[1].sync /\ \A i \in 2 .. Len(got) : ~ got[i].sync

\* Every sample the device measured in a turn, in order, none of another turn
\* but the first, which the capsule modes mark one sample early, and no gap
\* wider than a sample at either end.
OneTurn(s) ==
  /\ \A i \in 2 .. Len(s) : Adjacent(s[i - 1], s[i])
  /\ \A i, j \in 2 .. Len(s) : Lap(s[i]) = Lap(s[j])
  /\ s[Len(s)].place - s[1].place >= Turn - 2 * Width

\* What the driver's header says of every mode (sl_lidar_driver.h:422, "All data
\* nodes are belong to exactly ONE complete 360-degrees's scan"), of a scan that
\* fits the buffer and that the stream did not hurt.
OneCompleteTurn == got # <<>> /\ Unhurt(got) /\ Len(got) < MaxNodes => OneTurn(got)

\* It is so of the capsule modes but one, of the HQ mode, and of the normal mode
\* while the handler is in step.  One that fell out of step may stay so through
\* nodes that come whole, and invents samples of their bytes.  And the truncated
\* angle increment of ultra capsules loses the mark of a turn that starts with a
\* capsule: two turns become one scan.
WholeTurn ==
  got # <<>> =>
    /\ StartsWithSync
    /\ /\ Unhurt(got) /\ Len(got) < MaxNodes
       /\ mode # "ultra" /\ astray \cap Window(got) = {}
       => OneTurn(got)

\* A scan of this session holds a sample of an earlier one only in the dense
\* modes, whose reset keeps the previous capsule, and only when the first frame
\* of the session, which would have made the handler forget it, was lost.
NoStale ==
  \A i \in 1 .. Len(got) : got[i].session # frame.session =>
    mode \in Dense /\ \E f \in broken : f > got[i].frame

\* Hurt or not, a scan holds the samples in the order they were measured and
\* none twice - a frame is unpacked at most once, and only behind its elders -
\* and none of a session that was stopped.
InOrder == NoStale /\ \A i \in 2 .. Len(got) : Before(got[i - 1], got[i])
=============================================================================
