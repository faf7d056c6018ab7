-------------------------- MODULE LidarDriverProofs --------------------------
(***************************************************************************)
(* Proofs about the laser scanner's driver, for any launch files and       *)
(* bounds.                                                                 *)
(*                                                                         *)
(* Transceiver, below: the port is open while it is read, no wake-up is    *)
(* lost, and what is decoded is what the device sent, in order and without *)
(* a gap.  LidarDriver, above: the node's stops leave the motor at rest;   *)
(* an answer that is taken is the one asked for, and the unpacker is given *)
(* no frame of an earlier scan, by counting the answers that are           *)
(* outstanding and those that a scan's beginning is behind.                *)
(***************************************************************************)
EXTENDS MCLidarDriver, FiniteSetTheorems, FunctionTheorems, SequenceTheorems,
        WellFoundedInduction, TLAPS

Bytes == Seq(Nat)

Typed ==
  /\ owner \in {"out", "opened", "in", "waking", "joining", "joining rx", "closing"}
  /\ queue \in Seq(Bytes) /\ wire \in Bytes /\ decoded \in Bytes
  /\ sent \in Nat /\ from \in Nat
  /\ rxThread.pc \in {"off", "loop", "waiting", "reading", "pushing", "signalling", "done"}
  /\ decThread.pc \in {"off", "start", "loop", "looking", "waiting", "decoding", "done"}
  /\ rxThread.buf \in Bytes /\ decThread.buf \in Bytes
  /\ rxThread.pc = "reading" => Len(rxThread.buf) <= Len(wire)

\* The threads run between openChannelAndBind and the joins.
Threads ==
  /\ owner # "out" => open
  /\ Link!Bound <=> rxThread.pc # "off"
  /\ Link!Bound <=> decThread.pc # "off"
  /\ working <=> owner = "in"
  /\ ~Link!Bound => queue = <<>>
  /\ owner \in {"joining rx", "closing"} => decThread.pc = "done"
  /\ owner = "closing" => rxThread.pc = "done"

\* What makes PromptWake inductive: once the owner has set the event, only the
\* decoder's wait takes it back, and its next test of _isWorking is the last.
Awake == Link!PromptWake /\ (owner = "joining" /\ decThread.pc = "looking" => signalled)

LinkInv == Typed /\ Threads /\ Awake

-----------------------------------------------------------------------------
(* The bytes: each is the number of bytes sent before it, and one.         *)

\* s is the bytes that follow the first k.
Run(s, k) == \A i \in 1 .. Len(s) : s[i] = k + i

\* The buffers of q, one after the other, are the bytes after a up to b.
Offsets(q, a, b, at) ==
  /\ at[1] = a /\ at[Len(q) + 1] = b
  /\ \A i \in 1 .. Len(q) : Run(q[i], at[i]) /\ at[i + 1] = at[i] + Len(q[i])

Linked(q, a, b) == \E at \in [1 .. Len(q) + 1 -> Nat] : Offsets(q, a, b, at)

Decoding == Link!Held(decThread, "decoding")
Pushing  == Link!Held(rxThread, "pushing")
Arrived  == sent - Len(wire)

(***************************************************************************)
(* InSequence without the concatenation of the queue, which is recursive:  *)
(* the places where bytes are follow one another.                          *)
(***************************************************************************)
Chained ==
  /\ Run(wire, Arrived)
  /\ Run(Pushing, Arrived - Len(Pushing))
  /\ Linked(queue, from + Len(decoded) + Len(Decoding), Arrived - Len(Pushing))
  /\ Run(Decoding, from + Len(decoded))

ByteInv == LinkInv /\ Run(decoded, from) /\ (Link!Bound => Chained)

-----------------------------------------------------------------------------
\* A thread at a place, with a buffer or none.
LEMMA Places ==
  /\ \A pc : Link!At(pc).pc = pc /\ Link!At(pc).buf = <<>>
  /\ \A pc, buf : Link!Has(pc, buf).pc = pc /\ Link!Has(pc, buf).buf = buf
  BY DEF Link!At, Link!Has

LEMMA EmptyBytes == <<>> \in Bytes /\ <<>> \in Seq(Bytes)
  BY DEF Bytes

\* What the threads do with buffers gives buffers.
LEMMA BytesFacts ==
  /\ \A s \in Bytes : Len(s) \in Nat
  /\ \A s \in Bytes, t \in Bytes : s \o t \in Bytes
  /\ \A s \in Bytes, n \in Nat : Append(s, n) \in Bytes
  /\ \A q \in Seq(Bytes), s \in Bytes : Append(q, s) \in Seq(Bytes)
  /\ \A q \in Seq(Bytes) : q # <<>> => Head(q) \in Bytes /\ Tail(q) \in Seq(Bytes)
  /\ \A s \in Bytes, m \in Nat : m <= Len(s) =>
       /\ SubSeq(s, 1, m) \in Bytes
       /\ SubSeq(s, m + 1, Len(s)) \in Bytes
<1>1. \A s \in Seq(Nat), m \in Nat : m <= Len(s) =>
        SubSeq(s, 1, m) \in Seq(Nat) /\ SubSeq(s, m + 1, Len(s)) \in Seq(Nat)
  <2> TAKE s \in Seq(Nat), m \in Nat
  <2> HAVE m <= Len(s)
  <2>1. Len(s) \in Nat /\ \A i \in 1 .. Len(s) : s[i] \in Nat
    OBVIOUS
  <2> QED
    BY <2>1
<1>2. \A q \in Seq(Bytes) : q # <<>> => Head(q) \in Bytes /\ Tail(q) \in Seq(Bytes)
  BY HeadTailProperties
<1> QED
  BY <1>1, <1>2 DEF Bytes

LEMMA LinkInit == Link!Init => LinkInv
  BY EmptyBytes DEF Link!Init, LinkInv, Typed, Threads, Awake, Link!PromptWake, Link!Bound, Link!At

(***************************************************************************)
(* The types alone.                                                        *)
(***************************************************************************)
\* What the present step may make of the buffers.
LEMMA BuffersNext ==
  ASSUME LinkInv
  PROVE  /\ Len(wire) \in Nat /\ Len(rxThread.buf) \in Nat /\ sent + 1 \in Nat
         /\ Append(wire, sent + 1) \in Bytes
         /\ Len(Append(wire, sent + 1)) = Len(wire) + 1
         /\ decoded \o decThread.buf \in Bytes
         /\ Append(queue, rxThread.buf) \in Seq(Bytes)
         /\ queue # <<>> => Head(queue) \in Bytes /\ Tail(queue) \in Seq(Bytes)
         /\ rxThread.pc = "reading" => \A n \in 1 .. Len(rxThread.buf) :
              /\ n \in 1 .. Len(wire)
              /\ SubSeq(wire, 1, n) \in Bytes
              /\ SubSeq(wire, n + 1, Len(wire)) \in Bytes
<1>1. /\ wire \in Bytes /\ decoded \in Bytes /\ queue \in Seq(Bytes) /\ sent \in Nat
      /\ rxThread.buf \in Bytes /\ decThread.buf \in Bytes
      /\ rxThread.pc = "reading" => Len(rxThread.buf) <= Len(wire)
  BY DEF LinkInv, Typed
<1>2. Len(wire) \in Nat /\ Len(rxThread.buf) \in Nat /\ sent + 1 \in Nat
  BY <1>1 DEF Bytes
<1>3. Append(wire, sent + 1) \in Bytes /\ decoded \o decThread.buf \in Bytes
  BY <1>1, <1>2, BytesFacts
<1>4. Len(Append(wire, sent + 1)) = Len(wire) + 1
  BY <1>1, <1>2 DEF Bytes
<1>5. Append(queue, rxThread.buf) \in Seq(Bytes)
  BY <1>1, BytesFacts
<1>6. queue # <<>> => Head(queue) \in Bytes /\ Tail(queue) \in Seq(Bytes)
  BY <1>1, BytesFacts
<1>7. ASSUME rxThread.pc = "reading", NEW n \in 1 .. Len(rxThread.buf)
      PROVE  /\ n \in 1 .. Len(wire)
             /\ SubSeq(wire, 1, n) \in Bytes
             /\ SubSeq(wire, n + 1, Len(wire)) \in Bytes
  <2>1. n \in 1 .. Len(wire) /\ n \in Nat /\ n <= Len(wire)
    BY <1>1, <1>2, <1>7
  <2> QED
    BY <1>1, <2>1, BytesFacts
<1> QED
  BY <1>2, <1>3, <1>4, <1>5, <1>6, <1>7

LEMMA TypedStep == LinkInv /\ [Link!Next]_Link!vars => Typed'
<1> SUFFICES ASSUME LinkInv, [Link!Next]_Link!vars PROVE Typed'
  OBVIOUS
<1> USE EmptyBytes, Places DEF LinkInv, Typed, Link!owning, Link!device, Link!past
<1>1. CASE Link!Connect
  BY <1>1 DEF Link!Connect, Link!PortOpens, Threads, Link!Bound
<1>2. CASE Link!Release
  BY <1>2 DEF Link!Release
<1>3. CASE Link!Bind
  BY <1>3 DEF Link!Bind
<1>4. CASE Link!Wake
  BY <1>4 DEF Link!Wake
<1>5. CASE Link!Join
  BY <1>5 DEF Link!Join
<1>6. CASE Link!Close
  BY <1>6 DEF Link!Close, Link!PortCloses
<1>7. CASE Link!RxLoop
  BY <1>7 DEF Link!RxLoop, Link!RxStep
<1>8. CASE Link!RxReady
  <2>1. Len(wire) \in Nat /\ wire \in Bytes
    BY BuffersNext
  <2>2. rxThread' = Link!Has("reading", wire)
    BY <1>8 DEF Link!RxReady, Link!RxStep
  <2>3. UNCHANGED <<owner, queue, wire, decoded, sent, from, decThread>>
    BY <1>8 DEF Link!RxReady, Link!RxStep
  <2> HIDE DEF LinkInv
  <2>4. rxThread'.pc = "reading" /\ rxThread'.buf \in Bytes /\ Len(rxThread'.buf) <= Len(wire')
    BY <2>1, <2>2, <2>3
  <2> QED
    BY <2>3, <2>4 DEF LinkInv
<1>9. CASE Link!RxTimeout
  BY <1>9 DEF Link!RxTimeout, Link!RxStep
<1>10. CASE Link!RxError
  BY <1>10 DEF Link!RxError, Link!RxStep
<1>11. CASE Link!RxRead
  <2>1. CASE Link!RxStep(Link!At("done")) /\ UNCHANGED <<wire, queue>>
    BY <2>1 DEF Link!RxStep
  <2>2. CASE \E n \in 1 .. Len(rxThread.buf) :
               /\ Link!RxStep(Link!Has("pushing", SubSeq(wire, 1, n)))
               /\ wire' = SubSeq(wire, n + 1, Len(wire))
               /\ UNCHANGED queue
    <3>1. PICK n \in 1 .. Len(rxThread.buf) :
            /\ Link!RxStep(Link!Has("pushing", SubSeq(wire, 1, n)))
            /\ wire' = SubSeq(wire, n + 1, Len(wire))
            /\ UNCHANGED queue
      BY <2>2
    <3>2. SubSeq(wire, 1, n) \in Bytes /\ wire' \in Bytes
      BY <1>11, <3>1, BuffersNext DEF Link!RxRead
    <3>3. UNCHANGED <<owner, queue, decoded, sent, from, decThread>>
      BY <3>1 DEF Link!RxStep
    <3>4. rxThread'.pc = "pushing" /\ rxThread'.buf \in Bytes
      <4> HIDE DEF LinkInv
      <4> QED
        BY <3>1, <3>2 DEF Link!RxStep
    <3> QED
      BY <3>2, <3>3, <3>4
  <2> QED
    BY <1>11, <2>1, <2>2 DEF Link!RxRead
<1>12. CASE Link!RxPush
  BY <1>12, BuffersNext DEF Link!RxPush, Link!RxStep
<1>13. CASE Link!RxSignal
  BY <1>13 DEF Link!RxSignal, Link!RxStep
<1>14. CASE Link!DecoderLoop
  <2>1. decThread' \in {Link!At("loop"), Link!At("looking"), Link!At("done")}
    BY <1>14 DEF Link!DecoderLoop, Link!DecoderStep
  <2>2. UNCHANGED <<owner, queue, wire, decoded, sent, from, rxThread>>
    BY <1>14 DEF Link!DecoderLoop, Link!DecoderStep
  <2>3. decThread'.pc \in {"loop", "looking", "done"} /\ decThread'.buf \in Bytes
    <3> HIDE DEF LinkInv
    <3> QED
      BY <2>1
  <2> QED
    BY <2>2, <2>3
<1>15. CASE Link!Look
  <2>1. UNCHANGED <<owner, wire, decoded, sent, from, rxThread>>
    BY <1>15 DEF Link!Look, Link!DecoderStep
  <2>2. \/ decThread' = Link!At("waiting") /\ queue' = queue
        \/ decThread' = Link!Has("decoding", Head(queue)) /\ queue' = Tail(queue) /\ queue # <<>>
    BY <1>15 DEF Link!Look, Link!DecoderStep
  <2>3. CASE decThread' = Link!At("waiting") /\ queue' = queue
    BY <2>1, <2>3
  <2>4. CASE decThread' = Link!Has("decoding", Head(queue)) /\ queue' = Tail(queue) /\ queue # <<>>
    <3>1. Head(queue) \in Bytes /\ Tail(queue) \in Seq(Bytes)
      BY <2>4, BuffersNext
    <3>2. decThread'.pc = "decoding" /\ decThread'.buf \in Bytes
      <4> HIDE DEF LinkInv
      <4> QED
        BY <2>4, <3>1
    <3> QED
      BY <2>1, <2>4, <3>1, <3>2
  <2> QED
    BY <2>2, <2>3, <2>4
<1>16. CASE Link!Wait
  BY <1>16 DEF Link!Wait, Link!DecoderStep
<1>17. CASE Link!DecodeData
  BY <1>17, BuffersNext DEF Link!DecodeData, Link!DecoderStep
<1>18. CASE Link!Emit
  <2>1. wire' \in Bytes /\ sent' \in Nat
    BY <1>18, BuffersNext DEF Link!Emit
  <2>2. rxThread.pc = "reading" => Len(rxThread.buf) <= Len(wire')
    <3>1. Len(wire') \in {Len(wire), Len(wire) + 1} /\ Len(wire) \in Nat
      BY <1>18, BuffersNext DEF Link!Emit
    <3>2. Len(rxThread.buf) \in Nat /\ (rxThread.pc = "reading" => Len(rxThread.buf) <= Len(wire))
      BY BuffersNext
    <3> HIDE DEF LinkInv
    <3> QED
      BY <3>1, <3>2
  <2> QED
    BY <1>18, <2>1, <2>2 DEF Link!Emit
<1>19. CASE Link!Unplug
  BY <1>19 DEF Link!Unplug
<1>20. CASE UNCHANGED Link!vars
  BY <1>20 DEF Link!vars
<1> QED
  BY <1>1, <1>2, <1>3, <1>4, <1>5, <1>6, <1>7, <1>8, <1>9, <1>10, <1>11, <1>12,
     <1>13, <1>14, <1>15, <1>16, <1>17, <1>18, <1>19, <1>20 DEF Link!Next, Link!Owner, Link!Rx, Link!Decoder

(***************************************************************************)
(* No step ends a thread the owner waits for by more than its last test of *)
(* _isWorking, none reads a closed port, and none loses a wake-up.         *)
(***************************************************************************)
LEMMA LinkStep == LinkInv /\ [Link!Next]_Link!vars => LinkInv'
<1> SUFFICES ASSUME LinkInv, [Link!Next]_Link!vars PROVE Threads' /\ Awake'
  BY TypedStep DEF LinkInv
<1> USE Places DEF Threads, Awake, Link!PromptWake, Link!Bound
<1>0. /\ Threads /\ Awake
      /\ owner \in {"out", "opened", "in", "waking", "joining", "joining rx", "closing"}
  BY DEF LinkInv, Typed
<1>1. CASE Link!Connect
  BY <1>0, <1>1 DEF Link!Connect, Link!PortOpens, Link!owning, Link!device, Link!past
<1>2. CASE Link!Release
  <2>1. UNCHANGED <<open, queue, rxThread, decThread, signalled>>
    BY <1>2 DEF Link!Release
  <2>2. CASE owner = "in" /\ owner' = "waking" /\ working' = FALSE
    BY <1>0, <2>1, <2>2
  <2>3. CASE UNCHANGED <<owner, working>>
    BY <1>0, <2>1, <2>3
  <2> QED
    BY <1>2, <2>2, <2>3 DEF Link!Release
<1>3. CASE Link!Bind
  <2>1. /\ owner = "opened" /\ owner' = "in" /\ rxThread' = Link!At("loop") /\ decThread' = Link!At("start")
        /\ working' = TRUE /\ open' = open
    BY <1>3 DEF Link!Bind
  <2> QED
    BY <1>0, <2>1
<1>4. CASE Link!Wake
  BY <1>0, <1>4 DEF Link!Wake, Link!device, Link!past
<1>5. CASE Link!Join
  BY <1>0, <1>5 DEF Link!Join, Link!device, Link!past
<1>6. CASE Link!Close
  BY <1>0, <1>6 DEF Link!Close, Link!PortCloses, Link!device, Link!past
<1>7. CASE Link!RxLoop
  BY <1>0, <1>7 DEF Link!RxLoop, Link!RxStep, Link!owning
<1>8. CASE Link!RxReady
  BY <1>0, <1>8 DEF Link!RxReady, Link!RxStep, Link!owning
<1>9. CASE Link!RxTimeout
  BY <1>0, <1>9 DEF Link!RxTimeout, Link!RxStep, Link!owning
<1>10. CASE Link!RxError
  BY <1>0, <1>10 DEF Link!RxError, Link!RxStep, Link!owning
<1>11. CASE Link!RxRead
  <2>1. UNCHANGED <<owner, working, open, decThread, signalled, queue>>
    BY <1>11 DEF Link!RxRead, Link!RxStep, Link!owning
  <2>2. rxThread.pc = "reading" /\ rxThread'.pc \in {"pushing", "done"}
    BY <1>11 DEF Link!RxRead, Link!RxStep
  <2> QED
    BY <1>0, <2>1, <2>2
<1>12. CASE Link!RxPush
  BY <1>0, <1>12 DEF Link!RxPush, Link!RxStep, Link!owning
<1>13. CASE Link!RxSignal
  BY <1>0, <1>13 DEF Link!RxSignal, Link!RxStep, Link!owning
<1>14. CASE Link!DecoderLoop
  <2>1. UNCHANGED <<owner, working, open, rxThread, signalled, queue>>
    BY <1>14 DEF Link!DecoderLoop, Link!DecoderStep, Link!owning
  <2>2. decThread.pc \in {"start", "loop"} /\ decThread'.pc \in {"loop", "looking", "done"}
    BY <1>14 DEF Link!DecoderLoop, Link!DecoderStep
  <2>3. decThread'.pc = "looking" => working
    BY <1>14 DEF Link!DecoderLoop, Link!DecoderStep
  <2> QED
    BY <1>0, <2>1, <2>2, <2>3
<1>15. CASE Link!Look
  <2>1. UNCHANGED <<owner, working, open, rxThread, signalled>>
    BY <1>15 DEF Link!Look, Link!DecoderStep, Link!owning
  <2>2. decThread.pc = "looking" /\ decThread'.pc \in {"waiting", "decoding"}
    BY <1>15 DEF Link!Look, Link!DecoderStep
  <2>3. queue # <<>> => decThread'.pc = "decoding"
    BY <1>15 DEF Link!Look, Link!DecoderStep
  <2>4. queue = <<>> => queue' = queue
    BY <1>15 DEF Link!Look
  <2> QED
    BY <1>0, <2>1, <2>2, <2>3, <2>4
<1>16. CASE Link!Wait
  BY <1>0, <1>16 DEF Link!Wait, Link!DecoderStep, Link!owning
<1>17. CASE Link!DecodeData
  BY <1>0, <1>17 DEF Link!DecodeData, Link!DecoderStep, Link!owning
<1>18. CASE Link!Emit
  BY <1>0, <1>18 DEF Link!Emit, Link!owning, Link!past
<1>19. CASE Link!Unplug
  BY <1>0, <1>19 DEF Link!Unplug, Link!owning, Link!past
<1>20. CASE UNCHANGED Link!vars
  BY <1>0, <1>20 DEF Link!vars, Link!owning
<1> QED
  BY <1>1, <1>2, <1>3, <1>4, <1>5, <1>6, <1>7, <1>8, <1>9, <1>10, <1>11, <1>12,
     <1>13, <1>14, <1>15, <1>16, <1>17, <1>18, <1>19, <1>20 DEF Link!Next, Link!Owner, Link!Rx, Link!Decoder

\* What the driver does above leaves the link alone.
LEMMA LinkOfSpec == MCSpec => Link!Init /\ [][Link!Next]_Link!vars
<1>1. MCInit => Link!Init
  BY DEF MCInit
<1>2. [Above(Next) \/ Below(Link!Next)]_mcVars => [Link!Next]_Link!vars
  BY DEF Above, Below, mcVars, linkVars, Link!vars, Link!owning, Link!device, Link!past
<1> QED
  BY <1>1, <1>2, PTL DEF MCSpec

LEMMA LinkInvariant == MCSpec => []LinkInv
  BY LinkOfSpec, LinkInit, LinkStep, PTL

(***************************************************************************)
(* waitfordata and recvdata never see a closed port: unbindAndClose closes *)
(* it when both threads have been joined.                                  *)
(***************************************************************************)
THEOREM PortStaysOpen == MCSpec => []Link!PortHeld
<1>1. LinkInv => Link!PortHeld
  BY DEF LinkInv, Threads, Link!PortHeld, Link!Bound
<1> QED
  BY <1>1, LinkInvariant, PTL

(***************************************************************************)
(* No signal of _dataEvt is lost: a decoder that waits while a buffer is   *)
(* queued, or while it is being joined, finds the event set.               *)
(***************************************************************************)
THEOREM NoLostWakeUp == MCSpec => []Link!PromptWake
<1>1. LinkInv => Link!PromptWake
  BY DEF LinkInv, Awake
<1> QED
  BY <1>1, LinkInvariant, PTL

-----------------------------------------------------------------------------
(* What reading, queueing and decoding do to runs of bytes.                *)

LEMMA RunAppend ==
  ASSUME NEW s \in Bytes, NEW k \in Nat, Run(s, k)
  PROVE  Run(Append(s, k + Len(s) + 1), k)
  BY DEF Run, Bytes

LEMMA RunSplit ==
  ASSUME NEW s \in Bytes, NEW k \in Nat, Run(s, k), NEW n \in 1 .. Len(s)
  PROVE  /\ Run(SubSeq(s, 1, n), k) /\ Len(SubSeq(s, 1, n)) = n
         /\ Run(SubSeq(s, n + 1, Len(s)), k + n)
         /\ Len(SubSeq(s, n + 1, Len(s))) = Len(s) - n
<1>1. Len(s) \in Nat /\ n \in Nat
  BY DEF Bytes
<1>2. /\ Len(SubSeq(s, 1, n)) = n
      /\ Len(SubSeq(s, n + 1, Len(s))) = Len(s) - n
      /\ \A i \in 1 .. n : SubSeq(s, 1, n)[i] = s[i]
      /\ \A i \in 1 .. Len(s) - n : SubSeq(s, n + 1, Len(s))[i] = s[n + i]
  BY <1>1 DEF Bytes
<1> QED
  BY <1>1, <1>2 DEF Run

LEMMA RunConcat ==
  ASSUME NEW s \in Bytes, NEW t \in Bytes, NEW k \in Nat, Run(s, k), Run(t, k + Len(s))
  PROVE  Run(s \o t, k) /\ Len(s \o t) = Len(s) + Len(t)
<1>1. Len(s) \in Nat /\ Len(t) \in Nat /\ Len(s \o t) = Len(s) + Len(t)
  BY DEF Bytes
<1>2. \A i \in 1 .. Len(s) + Len(t) :
        (s \o t)[i] = IF i <= Len(s) THEN s[i] ELSE t[i - Len(s)]
  BY DEF Bytes
<1> QED
  BY <1>1, <1>2 DEF Run

LEMMA LinkedEmpty == \A a \in Nat : Linked(<<>>, a, a)
<1> TAKE a \in Nat
<1> DEFINE at == [i \in 1 .. 1 |-> a]
<1>1. Len(<<>>) = 0
  OBVIOUS
<1>2. at \in [1 .. Len(<<>>) + 1 -> Nat] /\ Offsets(<<>>, a, a, at)
  BY <1>1 DEF Offsets
<1> QED
  BY <1>2 DEF Linked

LEMMA LinkedAppend ==
  ASSUME NEW q \in Seq(Bytes), NEW a, NEW b \in Nat, Linked(q, a, b),
         NEW s \in Bytes, Run(s, b)
  PROVE  Linked(Append(q, s), a, b + Len(s))
<1> DEFINE n == Len(q)
           r == Append(q, s)
<1>1. n \in Nat /\ Len(s) \in Nat
  BY BytesFacts
<1>2. Len(r) = n + 1 /\ r[n + 1] = s /\ \A i \in 1 .. n : r[i] = q[i]
  OBVIOUS
<1>3. PICK at \in [1 .. n + 1 -> Nat] : Offsets(q, a, b, at)
  BY DEF Linked
<1> HIDE DEF n, r
<1> DEFINE bt == [i \in 1 .. (n + 1) + 1 |-> IF i = n + 2 THEN b + Len(s) ELSE at[i]]
<1>4. bt \in [1 .. Len(r) + 1 -> Nat]
  BY <1>1, <1>2
<1>5. bt[1] = a /\ bt[Len(r) + 1] = b + Len(s)
  BY <1>1, <1>2, <1>3 DEF Offsets
<1>6. ASSUME NEW i \in 1 .. Len(r)
      PROVE  Run(r[i], bt[i]) /\ bt[i + 1] = bt[i] + Len(r[i])
  <2>1. CASE i = n + 1
    BY <1>1, <1>2, <1>3, <2>1 DEF Offsets, n
  <2>2. CASE i # n + 1
    <3>1. i \in 1 .. n /\ bt[i] = at[i] /\ bt[i + 1] = at[i + 1]
      BY <1>1, <1>2, <2>2
    <3> QED
      BY <1>2, <1>3, <3>1 DEF Offsets, n
  <2> QED
    BY <2>1, <2>2
<1> QED
  BY <1>4, <1>5, <1>6 DEF Linked, Offsets, r

LEMMA LinkedTail ==
  ASSUME NEW q \in Seq(Bytes), NEW a \in Nat, NEW b, Linked(q, a, b), q # <<>>
  PROVE  /\ Run(Head(q), a)
         /\ Linked(Tail(q), a + Len(Head(q)), b)
<1> DEFINE n == Len(q)
           t == Tail(q)
<1>1. n \in Nat /\ n > 0 /\ Len(t) = n - 1 /\ Head(q) = q[1]
      /\ \A i \in 1 .. n - 1 : t[i] = q[i + 1]
  OBVIOUS
<1>2. PICK at \in [1 .. n + 1 -> Nat] : Offsets(q, a, b, at)
  BY DEF Linked
<1> HIDE DEF n, t
<1> DEFINE bt == [i \in 1 .. n |-> at[i + 1]]
<1>3. Run(q[1], a) /\ at[2] = a + Len(q[1])
  BY <1>1, <1>2 DEF Offsets, n
<1>4. bt \in [1 .. Len(t) + 1 -> Nat]
  BY <1>1
<1>5. bt[1] = a + Len(Head(q)) /\ bt[Len(t) + 1] = b
  BY <1>1, <1>2, <1>3 DEF Offsets, n
<1>6. ASSUME NEW i \in 1 .. Len(t)
      PROVE  Run(t[i], bt[i]) /\ bt[i + 1] = bt[i] + Len(t[i])
  <2>1. i + 1 \in 1 .. n /\ bt[i] = at[i + 1] /\ bt[i + 1] = at[(i + 1) + 1] /\ t[i] = q[i + 1]
    BY <1>1
  <2> QED
    BY <1>2, <2>1 DEF Offsets, n
<1> QED
  BY <1>1, <1>3, <1>4, <1>5, <1>6 DEF Linked, Offsets, t

-----------------------------------------------------------------------------
(* The bytes of the queue, one buffer after the other.                     *)

\* Every set of naturals has a least one.
LEMMA LeastNatural ==
  ASSUME NEW T \in SUBSET Nat, T # {}
  PROVE  \E n \in T : \A y \in T : n <= y
<1> DEFINE Less == {p \in Nat \X Nat : p[1] < p[2]}
<1>1. OpToRel(<, Nat) = Less
  BY DEF OpToRel
<1>2. IsWellFoundedOn(Less, Nat)
  BY <1>1, NatLessThanWellFounded
<1>3. \E n \in T : \A y \in T : ~ (<<y, n>> \in Less)
  <2> HIDE DEF Less
  <2> QED
    BY <1>2, WFMin
<1>4. PICK n \in T : \A y \in T : ~ (<<y, n>> \in Less)
  BY <1>3
<1>5. ASSUME NEW y \in T PROVE n <= y
  <2>1. y \in Nat /\ n \in Nat /\ <<y, n>> \notin Less
    BY <1>4
  <2>2. y < n => <<y, n>> \in Less
    BY <2>1
  <2> QED
    BY <2>1, <2>2
<1> QED
  BY <1>5

\* f lays the buffers of q one after the other, up to the n-th.
Lays(f, q, n) == f = [i \in 1 .. n |-> IF i = 1 THEN q[i] ELSE f[i - 1] \o q[i]]

\* There is such a function, so that the recursion of FlattenSeq defines one.
LEMMA LaysExist ==
  ASSUME NEW q, NEW n \in Nat
  PROVE  \E f : Lays(f, q, n)
<1> DEFINE T == {m \in Nat : ~ \E f : Lays(f, q, m)}
<1> SUFFICES ASSUME T # {} PROVE FALSE
  OBVIOUS
<1>1. PICK m \in T : \A y \in T : m <= y
  BY LeastNatural
<1>2. m # 0
  <2> DEFINE f == [i \in 1 .. 0 |-> 0]
  <2>1. Lays(f, q, 0)
    BY DEF Lays
  <2> QED
    BY <2>1
<1>3. m \in Nat /\ m - 1 \in Nat /\ m - 1 \notin T
  BY <1>1, <1>2
<1>4. PICK f : Lays(f, q, m - 1)
  BY <1>3
<1> DEFINE g == [i \in 1 .. m |-> IF i = 1 THEN q[i] ELSE f[i - 1] \o q[i]]
<1>5. \A i \in 1 .. m - 1 : f[i] = IF i = 1 THEN q[i] ELSE f[i - 1] \o q[i]
  BY <1>4 DEF Lays
<1>6. \A i \in 1 .. m : i # 1 => g[i - 1] = f[i - 1]
  <2> SUFFICES ASSUME NEW i \in 1 .. m, i # 1 PROVE g[i - 1] = f[i - 1]
    OBVIOUS
  <2>1. i - 1 \in 1 .. m - 1 /\ i - 1 \in 1 .. m
    BY <1>3
  <2>2. g[i - 1] = IF i - 1 = 1 THEN q[i - 1] ELSE f[(i - 1) - 1] \o q[i - 1]
    BY <2>1
  <2> QED
    BY <1>5, <2>1, <2>2
<1>7. Lays(g, q, m)
  BY <1>6 DEF Lays
<1> QED
  BY <1>1, <1>7

\* The bytes of buffers that follow one another follow one another.
LEMMA Flattened ==
  ASSUME NEW q \in Seq(Bytes), NEW a \in Nat, NEW b \in Nat, Linked(q, a, b)
  PROVE  Link!FlattenSeq(q) \in Bytes /\ Run(Link!FlattenSeq(q), a) /\ a + Len(Link!FlattenSeq(q)) = b
<1> DEFINE n == Len(q)
<1>1. n \in Nat /\ \A i \in 1 .. n : q[i] \in Bytes /\ Len(q[i]) \in Nat
  BY BytesFacts
<1>2. PICK at \in [1 .. n + 1 -> Nat] : Offsets(q, a, b, at)
  BY DEF Linked
<1>3. CASE n = 0
  <2>1. Link!FlattenSeq(q) = q /\ q = <<>> /\ a = b
    BY <1>2, <1>3 DEF Link!FlattenSeq, Offsets
  <2> QED
    BY <2>1, EmptyBytes DEF Run
<1>4. CASE n # 0
  <2> DEFINE f == CHOOSE g : Lays(g, q, n)
  <2>1. Link!FlattenSeq(q) = f[n]
    BY <1>4 DEF Link!FlattenSeq, Lays
  <2>2. Lays(f, q, n)
    BY <1>1, LaysExist
  <2> HIDE DEF f
  <2>3. \A i \in 1 .. n : f[i] = IF i = 1 THEN q[i] ELSE f[i - 1] \o q[i]
    BY <2>2 DEF Lays
  <2> DEFINE Laid(i) == f[i] \in Bytes /\ Run(f[i], a) /\ a + Len(f[i]) = at[i + 1]
             T == {i \in Nat : i \in 1 .. n /\ ~Laid(i)}
  <2>4. T = {}
    <3> SUFFICES ASSUME T # {} PROVE FALSE
      OBVIOUS
    <3>1. PICK i \in T : \A y \in T : i <= y
      <4> HIDE DEF T
      <4>1. T \in SUBSET Nat
        BY DEF T
      <4> QED
        BY <4>1, LeastNatural
    <3>2. i \in 1 .. n /\ ~Laid(i)
      BY <3>1
    <3>3. Run(q[i], at[i]) /\ at[i + 1] = at[i] + Len(q[i]) /\ at[1] = a /\ q[i] \in Bytes
          /\ Len(q[i]) \in Nat /\ at[i] \in Nat
      <4>1. i \in 1 .. n + 1
        BY <1>1, <3>2
      <4> QED
        BY <1>1, <1>2, <3>2, <4>1 DEF Offsets
    <3>4. CASE i = 1
      BY <2>3, <3>2, <3>3, <3>4
    <3>5. CASE i # 1
      <4>1. i - 1 \in 1 .. n /\ i - 1 \notin T /\ (i - 1) + 1 = i
        BY <1>1, <3>1, <3>2, <3>5
      <4>2. f[i - 1] \in Bytes /\ Run(f[i - 1], a) /\ a + Len(f[i - 1]) = at[i]
        BY <4>1
      <4>3. f[i] = f[i - 1] \o q[i]
        BY <2>3, <3>2, <3>5
      <4>4. Run(f[i], a) /\ Len(f[i]) = Len(f[i - 1]) + Len(q[i])
        BY <3>3, <4>2, <4>3, RunConcat
      <4>5. f[i] \in Bytes /\ Len(f[i - 1]) \in Nat
        BY <3>3, <4>2, <4>3, BytesFacts
      <4>6. a + Len(f[i]) = at[i + 1]
        <5>1. /\ Len(q[i]) \in Nat /\ a \in Nat /\ Len(f[i - 1]) \in Nat /\ at[i] \in Nat
              /\ at[i + 1] = at[i] + Len(q[i])
              /\ a + Len(f[i - 1]) = at[i]
              /\ Len(f[i]) = Len(f[i - 1]) + Len(q[i])
          BY <3>3, <4>2, <4>4, <4>5
        <5> HIDE DEF Laid, T, n
        <5> DEFINE r == Len(f[i - 1])
                   l == Len(q[i])
                   v == Len(f[i])
                   t == at[i]
                   u == at[i + 1]
        <5>2. /\ l \in Int /\ a \in Int /\ r \in Int /\ t \in Int
              /\ u = t + l
              /\ a + r = t
              /\ v = r + l
          BY <5>1
        <5> HIDE DEF r, l, v, t, u
        <5>3. a + v = u
          BY <5>2
        <5> QED
          BY <5>3 DEF v, u
      <4> QED
        BY <3>2, <4>4, <4>5, <4>6
    <3> QED
      BY <3>4, <3>5
  <2>5. Laid(n) /\ at[n + 1] = b
    <3>1. n \in 1 .. n
      BY <1>1, <1>4
    <3>2. n \in Nat /\ n \notin T
      BY <1>1, <2>4
    <3>3. Laid(n)
      BY <3>1, <3>2
    <3>4. at[n + 1] = b
      BY <1>2 DEF Offsets
    <3> QED
      BY <3>3, <3>4
  <2> QED
    BY <2>1, <2>5
<1> QED
  BY <1>3, <1>4

-----------------------------------------------------------------------------
(* The steps.                                                              *)

LEMMA Buffers ==
  /\ Pushing = IF rxThread.pc = "pushing" THEN rxThread.buf ELSE <<>>
  /\ Decoding = IF decThread.pc = "decoding" THEN decThread.buf ELSE <<>>
  /\ Pushing' = IF rxThread'.pc = "pushing" THEN rxThread'.buf ELSE <<>>
  /\ Decoding' = IF decThread'.pc = "decoding" THEN decThread'.buf ELSE <<>>
  BY DEF Pushing, Decoding, Link!Held

\* What is chained is numbered from 0.
LEMMA ChainRange ==
  ASSUME LinkInv, Chained
  PROVE  /\ Pushing \in Bytes /\ Len(Pushing) \in Nat
         /\ Decoding \in Bytes /\ Len(Decoding) \in Nat
         /\ Len(wire) \in Nat /\ Len(decoded) \in Nat /\ from \in Nat /\ sent \in Nat
         /\ Arrived - Len(Pushing) \in Nat /\ Arrived \in Nat
<1>1. /\ rxThread.buf \in Bytes /\ decThread.buf \in Bytes /\ wire \in Bytes /\ decoded \in Bytes
      /\ sent \in Nat /\ from \in Nat /\ queue \in Seq(Bytes)
  BY DEF LinkInv, Typed
<1>2. Pushing \in Bytes /\ Decoding \in Bytes
  BY <1>1, Buffers, EmptyBytes
<1>3. Len(Pushing) \in Nat /\ Len(Decoding) \in Nat /\ Len(wire) \in Nat /\ Len(decoded) \in Nat
  BY <1>1, <1>2, BytesFacts
<1>4. Arrived - Len(Pushing) \in Nat
  <2>1. Len(queue) + 1 \in 1 .. Len(queue) + 1
    BY <1>1
  <2> QED
    BY <2>1 DEF Chained, Linked, Offsets
<1>5. Arrived \in Int
  BY <1>1, <1>3 DEF Arrived
<1> QED
  BY <1>1, <1>2, <1>3, <1>4, <1>5

\* Steps that move no byte.
LEMMA ChainKept ==
  ASSUME Chained, UNCHANGED <<wire, sent, queue, from, decoded>>,
         Pushing' = Pushing, Decoding' = Decoding
  PROVE  Chained'
  BY DEF Chained, Arrived

LEMMA ReadChain ==
  ASSUME LinkInv, Chained, Link!RxRead
  PROVE  Chained'
<1>1. /\ UNCHANGED <<sent, queue, from, decoded, decThread>>
      /\ rxThread.pc = "reading" /\ Pushing = <<>> /\ Decoding' = Decoding
  BY Buffers DEF Link!RxRead, Link!RxStep, Link!device, Link!past
<1>2. CASE rxThread' = Link!At("done") /\ wire' = wire
  <2>1. Pushing' = Pushing
    BY <1>1, <1>2, Places, Buffers
  <2> QED
    BY <1>1, <1>2, <2>1, ChainKept
<1>3. CASE \E n \in 1 .. Len(rxThread.buf) :
             /\ rxThread' = Link!Has("pushing", SubSeq(wire, 1, n))
             /\ wire' = SubSeq(wire, n + 1, Len(wire))
  <2>1. PICK n \in 1 .. Len(rxThread.buf) :
          /\ rxThread' = Link!Has("pushing", SubSeq(wire, 1, n))
          /\ wire' = SubSeq(wire, n + 1, Len(wire))
    BY <1>3
  <2>2. n \in 1 .. Len(wire) /\ wire \in Bytes
    BY <1>1, <2>1, BuffersNext DEF LinkInv, Typed
  <2>3. Pushing' = SubSeq(wire, 1, n)
    BY <2>1, Places, Buffers
  <2>4. Arrived \in Nat /\ Len(wire) \in Nat /\ sent \in Nat /\ Len(Pushing) = 0
    BY <1>1, ChainRange
  <2>5. /\ Run(Pushing', Arrived) /\ Len(Pushing') = n
        /\ Run(wire', Arrived + n) /\ Len(wire') = Len(wire) - n
    BY <2>1, <2>2, <2>3, <2>4, RunSplit DEF Chained
  <2>6. Arrived' = Arrived + n /\ Arrived' - Len(Pushing') = Arrived - Len(Pushing)
    BY <1>1, <2>2, <2>4, <2>5 DEF Arrived
  <2>7. Arrived' - Len(Pushing') = Arrived
    BY <2>4, <2>6
  <2> QED
    BY <1>1, <2>5, <2>6, <2>7 DEF Chained
<1> QED
  BY <1>2, <1>3 DEF Link!RxRead, Link!RxStep

LEMMA PushChain ==
  ASSUME LinkInv, Chained, Link!RxPush
  PROVE  Chained'
<1>1. /\ UNCHANGED <<sent, wire, from, decoded, decThread>>
      /\ Pushing = rxThread.buf /\ Pushing' = <<>> /\ Decoding' = Decoding
      /\ queue' = Append(queue, rxThread.buf)
  BY Places, Buffers DEF Link!RxPush, Link!RxStep, Link!device, Link!past
<1>2. /\ Len(rxThread.buf) \in Nat /\ rxThread.buf \in Bytes /\ Arrived - Len(rxThread.buf) \in Nat
      /\ Arrived \in Nat /\ queue \in Seq(Bytes)
  BY <1>1, ChainRange DEF LinkInv, Typed
<1>3. Linked(queue', from + Len(decoded) + Len(Decoding), (Arrived - Len(rxThread.buf)) + Len(rxThread.buf))
  BY <1>1, <1>2, LinkedAppend DEF Chained
<1>4. (Arrived - Len(rxThread.buf)) + Len(rxThread.buf) = Arrived /\ Arrived' = Arrived
  BY <1>1, <1>2 DEF Arrived
<1>5. Len(Pushing') = 0 /\ Arrived - 0 = Arrived
  BY <1>1, <1>2
<1>6. Run(Pushing', Arrived)
  BY <1>1 DEF Run
<1> QED
  BY <1>1, <1>3, <1>4, <1>5, <1>6 DEF Chained

LEMMA LookChain ==
  ASSUME LinkInv, Chained, Link!Look
  PROVE  Chained'
<1>1. /\ UNCHANGED <<sent, wire, from, decoded, rxThread>>
      /\ Decoding = <<>> /\ Pushing' = Pushing
  BY Buffers DEF Link!Look, Link!DecoderStep, Link!device
<1>2. CASE decThread' = Link!At("waiting") /\ queue' = queue
  <2>1. Decoding' = Decoding
    BY <1>1, <1>2, Places, Buffers
  <2> QED
    BY <1>1, <1>2, <2>1, ChainKept
<1>3. CASE decThread' = Link!Has("decoding", Head(queue)) /\ queue' = Tail(queue) /\ queue # <<>>
  <2>1. Decoding' = Head(queue)
    BY <1>3, Places, Buffers
  <2>2. Len(Decoding) = 0 /\ Len(decoded) \in Nat /\ from \in Nat /\ queue \in Seq(Bytes)
    BY <1>1, ChainRange DEF LinkInv, Typed
  <2>3. Linked(queue, from + Len(decoded), Arrived - Len(Pushing))
    <3>1. from + Len(decoded) + Len(Decoding) = from + Len(decoded)
      BY <2>2
    <3> QED
      BY <3>1 DEF Chained
  <2>4. /\ Run(Head(queue), from + Len(decoded))
        /\ Linked(Tail(queue), from + Len(decoded) + Len(Head(queue)), Arrived - Len(Pushing))
    <3>1. from + Len(decoded) \in Nat
      BY <2>2
    <3> QED
      BY <1>3, <2>2, <2>3, <3>1, LinkedTail
  <2>5. Arrived' = Arrived
    BY <1>1 DEF Arrived
  <2> QED
    BY <1>1, <1>3, <2>1, <2>4, <2>5 DEF Chained
<1> QED
  BY <1>2, <1>3 DEF Link!Look, Link!DecoderStep

LEMMA DecodeChain ==
  ASSUME LinkInv, Run(decoded, from), Chained, Link!DecodeData
  PROVE  Chained' /\ Run(decoded', from')
<1>1. /\ UNCHANGED <<sent, wire, from, queue, rxThread>>
      /\ Decoding = decThread.buf /\ Decoding' = <<>> /\ Pushing' = Pushing
      /\ decoded' = decoded \o decThread.buf
  BY Places, Buffers DEF Link!DecodeData, Link!DecoderStep, Link!device
<1>2. /\ decoded \in Bytes /\ Decoding \in Bytes /\ from \in Nat /\ Len(decoded) \in Nat
      /\ Len(Decoding) \in Nat
  BY ChainRange DEF LinkInv, Typed
<1>3. Run(decoded', from) /\ Len(decoded') = Len(decoded) + Len(Decoding)
  BY <1>1, <1>2, RunConcat DEF Chained
<1>4. from + Len(decoded') + Len(Decoding') = from + Len(decoded) + Len(Decoding)
  <2>1. Len(Decoding') = 0
    BY <1>1
  <2> QED
    BY <1>2, <1>3, <2>1
<1>5. Run(Decoding', from + Len(decoded'))
  BY <1>1 DEF Run
<1>6. Arrived' = Arrived
  BY <1>1 DEF Arrived
<1> QED
  BY <1>1, <1>3, <1>4, <1>5, <1>6 DEF Chained

LEMMA EmitChain ==
  ASSUME LinkInv, Link!Bound, Chained, Link!Emit
  PROVE  Chained'
<1>1. /\ UNCHANGED <<queue, rxThread, decThread, from, decoded>>
      /\ sent' = sent + 1 /\ wire' = Append(wire, sent + 1)
      /\ Pushing' = Pushing /\ Decoding' = Decoding
  BY Buffers DEF Link!Emit, Link!past, LinkInv, Threads, Link!Bound
<1>2. wire \in Bytes /\ sent \in Nat /\ Len(wire) \in Nat /\ Arrived \in Nat
  BY ChainRange DEF LinkInv, Typed
<1>3. sent + 1 = Arrived + Len(wire) + 1
  BY <1>2 DEF Arrived
<1>4. Run(wire', Arrived)
  BY <1>1, <1>2, <1>3, RunAppend DEF Chained
<1>5. Len(wire') = Len(wire) + 1
  BY <1>1, BuffersNext
<1>6. Arrived' = Arrived
  BY <1>1, <1>2, <1>5 DEF Arrived
<1> QED
  BY <1>1, <1>4, <1>6 DEF Chained

LEMMA BindChain ==
  ASSUME LinkInv, Link!Bind
  PROVE  Chained' /\ Run(decoded', from')
<1>1. /\ queue' = <<>> /\ wire' = <<>> /\ from' = sent /\ sent' = sent /\ decoded' = <<>>
      /\ Pushing' = <<>> /\ Decoding' = <<>> /\ sent \in Nat
  BY Places, Buffers DEF Link!Bind, LinkInv, Threads, Typed, Link!Bound, Link!device
<1>2. Len(<<>>) = 0 /\ \A k : Run(<<>>, k)
  BY DEF Run
<1>3. Linked(<<>>, sent, sent)
  BY <1>1, LinkedEmpty
<1>4. Arrived' = sent /\ Arrived' - Len(Pushing') = sent
      /\ from' + Len(decoded') + Len(Decoding') = sent
  BY <1>1, <1>2 DEF Arrived
<1> QED
  BY <1>1, <1>2, <1>3, <1>4 DEF Chained

LEMMA ByteStep == ByteInv /\ [Link!Next]_Link!vars => ByteInv'
<1> SUFFICES ASSUME ByteInv, [Link!Next]_Link!vars PROVE ByteInv'
  OBVIOUS
<1>1. LinkInv /\ LinkInv' /\ Run(decoded, from) /\ (Link!Bound => Chained)
  BY LinkStep DEF ByteInv
<1> SUFFICES Run(decoded', from') /\ (Link!Bound' => Chained')
  BY <1>1 DEF ByteInv
<1>2. ASSUME UNCHANGED <<wire, sent, queue, from, decoded>>, Link!Bound' => Link!Bound,
             Pushing' = Pushing, Decoding' = Decoding
      PROVE  Run(decoded', from') /\ (Link!Bound' => Chained')
  BY <1>1, <1>2, ChainKept
<1>3. CASE Link!Connect
  BY <1>1, <1>3 DEF Link!Connect, Link!PortOpens, Link!past, Link!Bound
<1>4. CASE Link!Release \/ Link!Wake \/ Link!Join \/ Link!Unplug
  <2>1. UNCHANGED <<wire, sent, queue, from, decoded, rxThread, decThread>> /\ (Link!Bound' => Link!Bound)
    BY <1>4 DEF Link!Release, Link!Wake, Link!Join, Link!Unplug, Link!owning, Link!device, Link!past, Link!Bound
  <2> QED
    BY <1>2, <2>1, Buffers
<1>5. CASE Link!Bind
  BY <1>1, <1>5, BindChain
<1>6. CASE Link!Close
  BY <1>1, <1>6 DEF Link!Close, Link!past, Link!Bound
<1>7. CASE Link!RxLoop \/ Link!RxReady \/ Link!RxTimeout \/ Link!RxError \/ Link!RxSignal
  <2>1. /\ UNCHANGED <<wire, sent, queue, from, decoded, decThread, owner>>
        /\ rxThread.pc # "pushing" /\ rxThread'.pc # "pushing"
    BY <1>7, Places
    DEF Link!RxLoop, Link!RxReady, Link!RxTimeout, Link!RxError, Link!RxSignal, Link!RxStep, Link!owning, Link!device, Link!past
  <2> QED
    BY <1>2, <2>1, Buffers DEF Link!Bound
<1>8. CASE Link!RxRead
  <2>1. UNCHANGED <<owner, decoded, from>>
    BY <1>8 DEF Link!RxRead, Link!RxStep, Link!owning, Link!past
  <2> QED
    BY <1>1, <1>8, <2>1, ReadChain DEF Link!Bound
<1>9. CASE Link!RxPush
  <2>1. UNCHANGED <<owner, decoded, from>>
    BY <1>9 DEF Link!RxPush, Link!RxStep, Link!owning, Link!past
  <2> QED
    BY <1>1, <1>9, <2>1, PushChain DEF Link!Bound
<1>10. CASE Link!DecoderLoop \/ Link!Wait
  <2>1. /\ UNCHANGED <<wire, sent, queue, from, decoded, rxThread, owner>>
        /\ decThread.pc # "decoding" /\ decThread'.pc # "decoding"
    BY <1>10, Places DEF Link!DecoderLoop, Link!Wait, Link!DecoderStep, Link!owning, Link!device
  <2> QED
    BY <1>2, <2>1, Buffers DEF Link!Bound
<1>11. CASE Link!Look
  <2>1. UNCHANGED <<owner, decoded, from>>
    BY <1>11 DEF Link!Look, Link!DecoderStep, Link!owning
  <2> QED
    BY <1>1, <1>11, <2>1, LookChain DEF Link!Bound
<1>12. CASE Link!DecodeData
  <2>1. UNCHANGED owner /\ Link!Bound
    BY <1>1, <1>12 DEF Link!DecodeData, Link!DecoderStep, Link!owning, LinkInv, Threads
  <2> QED
    BY <1>1, <1>12, <2>1, DecodeChain
<1>13. CASE Link!Emit
  <2>1. UNCHANGED <<owner, decoded, from>>
    BY <1>13 DEF Link!Emit, Link!owning, Link!past
  <2> QED
    BY <1>1, <1>13, <2>1, EmitChain DEF Link!Bound
<1>14. CASE UNCHANGED Link!vars
  <2>1. UNCHANGED <<wire, sent, queue, from, decoded, rxThread, decThread, owner>>
    BY <1>14 DEF Link!vars, Link!owning, Link!device, Link!past
  <2> QED
    BY <1>2, <2>1, Buffers DEF Link!Bound
<1> QED
  BY <1>3, <1>4, <1>5, <1>6, <1>7, <1>8, <1>9, <1>10, <1>11, <1>12, <1>13, <1>14
  DEF Link!Next, Link!Owner, Link!Rx, Link!Decoder

\* InSequence, of the places that follow one another.
LEMMA SequenceKept == ByteInv => Link!InSequence
<1> SUFFICES ASSUME LinkInv, Run(decoded, from), Chained, Link!Bound
             PROVE  decoded \o Link!Pending = [i \in 1 .. sent - from |-> from + i]
  BY DEF ByteInv, Link!InSequence
<1>1. /\ Pushing \in Bytes /\ Len(Pushing) \in Nat
      /\ Decoding \in Bytes /\ Len(Decoding) \in Nat
      /\ Len(wire) \in Nat /\ Len(decoded) \in Nat /\ from \in Nat /\ sent \in Nat
      /\ Arrived - Len(Pushing) \in Nat /\ Arrived \in Nat
  BY ChainRange
<1>2. wire \in Bytes /\ decoded \in Bytes /\ queue \in Seq(Bytes)
  BY DEF LinkInv, Typed
<1> DEFINE start == from + Len(decoded) + Len(Decoding)
           queued == Link!FlattenSeq(queue)
           fore == decoded \o Decoding
           all == ((fore \o queued) \o Pushing) \o wire
<1>3. start \in Nat /\ queued \in Bytes /\ Run(queued, start)
      /\ start + Len(queued) = Arrived - Len(Pushing)
  <2>1. start \in Nat /\ Linked(queue, start, Arrived - Len(Pushing))
    BY <1>1 DEF Chained
  <2> HIDE DEF start
  <2> QED
    BY <1>1, <1>2, <2>1, Flattened
<1>4. Len(queued) \in Nat
  BY <1>3, BytesFacts
<1> HIDE DEF queued
<1>5. /\ fore \in Bytes /\ Run(fore, from) /\ Len(fore) = Len(decoded) + Len(Decoding)
  BY <1>1, <1>2, RunConcat, BytesFacts DEF Chained
<1>6. from + Len(fore) = start
  BY <1>1, <1>5
<1> HIDE DEF start, fore
<1>7. /\ fore \o queued \in Bytes /\ Run(fore \o queued, from)
      /\ Len(fore \o queued) = Len(fore) + Len(queued)
  BY <1>1, <1>3, <1>5, <1>6, RunConcat, BytesFacts
<1>8. from + Len(fore \o queued) = Arrived - Len(Pushing)
  <2>1. Len(fore) \in Nat
    BY <1>5, BytesFacts
  <2> QED
    BY <1>1, <1>3, <1>4, <1>6, <1>7, <2>1
<1> DEFINE front == (fore \o queued) \o Pushing
<1>9. /\ front \in Bytes /\ Run(front, from)
      /\ Len(front) = Len(fore \o queued) + Len(Pushing)
  <2>1. Run(Pushing, from + Len(fore \o queued))
    BY <1>8 DEF Chained
  <2> QED
    BY <1>1, <1>7, <2>1, RunConcat, BytesFacts
<1>10. Len(fore \o queued) \in Nat
  BY <1>7, BytesFacts
<1>11. from + Len(front) = Arrived
  BY <1>1, <1>8, <1>9, <1>10
<1> HIDE DEF front
<1>12. all \in Bytes /\ Run(all, from) /\ Len(all) = Len(front) + Len(wire)
  <2>1. Run(wire, from + Len(front))
    BY <1>11 DEF Chained
  <2>2. all = front \o wire
    BY DEF front
  <2> HIDE DEF all
  <2> QED
    BY <1>1, <1>2, <1>9, <2>1, <2>2, RunConcat, BytesFacts
<1>13. Len(all) = sent - from
  <2>1. Len(front) \in Nat
    BY <1>9, BytesFacts
  <2> HIDE DEF all
  <2> QED
    BY <1>1, <1>11, <1>12, <2>1 DEF Arrived
<1>14. decoded \o Link!Pending = all
  <2>1. Link!Pending = ((Decoding \o queued) \o Pushing) \o wire
    BY DEF Link!Pending, Decoding, Pushing, queued
  <2>2. \A s, t, u \in Seq(Nat) : s \o (t \o u) = (s \o t) \o u
    OBVIOUS
  <2>3. /\ decoded \in Seq(Nat) /\ Decoding \in Seq(Nat) /\ queued \in Seq(Nat)
        /\ Pushing \in Seq(Nat) /\ wire \in Seq(Nat)
    BY <1>1, <1>2, <1>3 DEF Bytes
  <2>4. /\ Decoding \o queued \in Seq(Nat)
        /\ (Decoding \o queued) \o Pushing \in Seq(Nat)
    BY <2>3
  <2>5. decoded \o (((Decoding \o queued) \o Pushing) \o wire)
          = (decoded \o ((Decoding \o queued) \o Pushing)) \o wire
    BY <2>2, <2>3, <2>4
  <2>6. decoded \o ((Decoding \o queued) \o Pushing)
          = (decoded \o (Decoding \o queued)) \o Pushing
    BY <2>2, <2>3, <2>4
  <2>7. decoded \o (Decoding \o queued) = (decoded \o Decoding) \o queued
    BY <2>2, <2>3
  <2> QED
    BY <2>1, <2>5, <2>6, <2>7 DEF fore
<1> HIDE DEF all
<1>15. all = [i \in 1 .. Len(all) |-> all[i]]
  BY <1>12 DEF Bytes
<1>16. all = [i \in 1 .. Len(all) |-> from + i]
  BY <1>12, <1>15 DEF Run
<1> QED
  BY <1>13, <1>14, <1>16

(***************************************************************************)
(* The decoder is given the bytes of the device in the order they were     *)
(* sent, without a gap, all of them and none from before                   *)
(* openChannelAndBind, in whatever order the rx thread, the decoder thread *)
(* and the owner run.                                                      *)
(***************************************************************************)
THEOREM DecodesInOrder == MCSpec => []Link!InSequence
<1>1. Link!Init => ByteInv
  <2> SUFFICES ASSUME Link!Init PROVE LinkInv /\ Run(decoded, from) /\ ~Link!Bound
    BY DEF ByteInv
  <2>1. decoded = <<>> /\ owner = "out"
    BY DEF Link!Init
  <2> QED
    BY <2>1, LinkInit DEF Run, Link!Bound
<1>2. ByteInv /\ [Link!Next]_Link!vars => ByteInv'
  BY ByteStep
<1> QED
  BY <1>1, <1>2, LinkOfSpec, SequenceKept, PTL

(***************************************************************************)
(* The three together: what the driver of the scanner takes for granted of *)
(* the transceiver and the port below it.                                  *)
(***************************************************************************)
THEOREM LosesNothing == MCSpec => []NothingLost
  BY PortStaysOpen, NoLostWakeUp, DecodesInOrder, PTL DEF NothingLost

-----------------------------------------------------------------------------
(* The motor at rest.                                                      *)

Questions == {"devinfo", "health", "conf", "rate", "acc"}
Answers   == {"ignore", "fail", "quit", "guess"}

\* The steps of the scripts, but for the first question of connect, which skips
\* the step behind it; with it; those that turn nothing on; and the commands.
PlainSteps ==
  [op : {"ask", "wait"}, type : Questions, else : Answers]
  \cup [op : {"stop", "brake", "spin", "open", "enable", "scan", "disable", "join"}]
  \cup [op : {"motor", "scanning"}, value : BOOLEAN]
Detections == [op : {"ask", "wait"}, type : Questions, else : {"detect"}]
DriverSteps == PlainSteps \cup Detections
RestingSteps ==
  [op : {"stop", "brake", "disable", "join"}]
  \cup [op : {"motor", "scanning"}, value : {FALSE}]
Commands ==
  [do : {"ask"}, type : Questions] \cup [do : {"stop"}]
  \cup [do : {"scan"}, session : Nat] \cup [do : {"pwm", "rpm"}, on : BOOLEAN]

\* A detection is not the last step of a script.
Guarded(s) == s \in Seq(DriverSteps) /\ \A i \in 1 .. Len(s) : s[i] \in Detections => i < Len(s)

MotorOff == [op |-> "motor", value |-> FALSE]
Has(script, step) == \E i \in 1 .. Len(script) : script[i] = step

DriverTyped ==
  /\ launch \in Launches
  /\ Guarded(todo)
  /\ support \in {"none", "pwm", "rpm"}
  /\ session \in Nat /\ faults \in Nat
  /\ cmds \in Seq(Commands)
  /\ device \in [scan : Nat, motor : BOOLEAN, plugged : BOOLEAN]

\* The node has stopped the scan, or is about to: its script turns nothing on.
Stopped == call \in {"stop", "exit"}
Winds   == Stopped => todo \in Seq(RestingSteps)

\* The last of the motor's commands in cs turns it off; without one it is off.
Rested(kind, motor, cs) ==
  LET Off(i) == cs[i].do = kind /\ ~ cs[i].on
      On(i)  == cs[i].do = kind /\ cs[i].on
  IN  \/ ~ motor /\ \A j \in 1 .. Len(cs) : ~ On(j)
      \/ \E i \in 1 .. Len(cs) : Off(i) /\ \A j \in 1 .. Len(cs) : i < j => ~ On(j)
WillRest == Rested(launch.kind, device.motor, cmds)

Recognised == support = (IF launch.kind \in {"dtr", "old"} THEN "none" ELSE launch.kind)

Halts == Stopped /\ ~ Lost /\ Recognised => Has(todo, MotorOff) \/ WillRest

RestInv == DriverTyped /\ Winds /\ Halts

LEMMA Concats ==
  ASSUME NEW S
  PROVE  \A s, t \in Seq(S) : s \o t \in Seq(S)
  OBVIOUS

\* A script holds what its parts hold.
LEMMA HasConcat ==
  ASSUME NEW S, NEW s \in Seq(S), NEW t \in Seq(S), NEW e
  PROVE  Has(s, e) \/ Has(t, e) => Has(s \o t, e)
<1>1. ASSUME Has(s, e) PROVE Has(s \o t, e)
  BY <1>1 DEF Has
<1>2. ASSUME Has(t, e) PROVE Has(s \o t, e)
  <2>1. PICK i \in 1 .. Len(t) : t[i] = e
    BY <1>2 DEF Has
  <2>2. Len(s) + i \in 1 .. Len(s \o t) /\ (s \o t)[Len(s) + i] = e
    BY <2>1
  <2> QED
    BY <2>2 DEF Has
<1> QED
  BY <1>1, <1>2

LEMMA HasTail ==
  ASSUME NEW S, NEW s \in Seq(S), s # <<>>, NEW e, Has(s, e), Head(s) # e
  PROVE  Has(Tail(s), e)
<1>1. PICK i \in 1 .. Len(s) : s[i] = e
  BY DEF Has
<1>2. i # 1
  BY <1>1
<1>3. i - 1 \in 1 .. Len(Tail(s)) /\ Tail(s)[i - 1] = e
  BY <1>1, <1>2
<1> QED
  BY <1>3 DEF Has

\* One step, as the scripts are written.
LEMMA OneStep ==
  /\ \A t \in Questions, e \in Answers : Ask(t, e) \in Seq(PlainSteps)
  /\ \A o \in {"stop", "brake", "spin", "open", "enable", "scan", "disable", "join"} :
       Do(o) \in Seq(PlainSteps)
  /\ \A o \in {"motor", "scanning"}, v \in BOOLEAN : Set(o, v) \in Seq(PlainSteps)
  /\ \A o \in {"stop", "brake", "disable", "join"} : Do(o) \in Seq(RestingSteps)
  /\ \A o \in {"motor", "scanning"} : Set(o, FALSE) \in Seq(RestingSteps)
  /\ Has(Set("motor", FALSE), MotorOff)
  /\ <<>> \in Seq(PlainSteps)
<1>1. \A S : \A e \in S : <<e>> \in Seq(S)
  OBVIOUS
<1>2. Has(Set("motor", FALSE), MotorOff)
  <2>1. Set("motor", FALSE) = <<MotorOff>>
    BY DEF Set, MotorOff
  <2>2. Len(<<MotorOff>>) = 1 /\ <<MotorOff>>[1] = MotorOff /\ 1 \in 1 .. 1
    OBVIOUS
  <2> QED
    BY <2>1, <2>2 DEF Has
<1> QED
  BY <1>1, <1>2 DEF Ask, Do, Set, PlainSteps, RestingSteps

\* The scripts that rest.
LEMMA RestingScripts ==
  /\ NodeStop \in Seq(RestingSteps) /\ Has(NodeStop, MotorOff)
  /\ Finish \in Seq(RestingSteps) /\ Has(Finish, MotorOff)
<1> DEFINE off == Set("motor", FALSE)
           not == Set("scanning", FALSE)
<1>1. /\ off \in Seq(RestingSteps) /\ Has(off, MotorOff) /\ not \in Seq(RestingSteps)
      /\ Do("stop") \in Seq(RestingSteps) /\ Do("brake") \in Seq(RestingSteps)
      /\ Do("disable") \in Seq(RestingSteps) /\ Do("join") \in Seq(RestingSteps)
  BY OneStep
<1>2. StopScan \in Seq(RestingSteps) /\ Delete \in Seq(RestingSteps)
  BY <1>1, Concats DEF StopScan, Delete
<1>3. NodeStop = (StopScan \o off) \o not /\ Finish = (off \o StopScan) \o Delete
  BY DEF NodeStop, Finish
<1> HIDE DEF off, not
<1>4. StopScan \o off \in Seq(RestingSteps) /\ Has(StopScan \o off, MotorOff)
  BY <1>1, <1>2, Concats, HasConcat
<1>5. off \o StopScan \in Seq(RestingSteps) /\ Has(off \o StopScan, MotorOff)
  BY <1>1, <1>2, Concats, HasConcat
<1> QED
  BY <1>1, <1>2, <1>3, <1>4, <1>5, Concats, HasConcat

\* Every script but the first is one of plain steps.
LEMMA Scripts ==
  /\ StartScan \in Seq(PlainSteps) /\ NodeStop \in Seq(PlainSteps)
  /\ Finish \in Seq(PlainSteps) /\ Delete \in Seq(PlainSteps)
  /\ NodeStop \o Delete \in Seq(PlainSteps) /\ <<>> \in Seq(PlainSteps)
<1> DEFINE D == Seq(PlainSteps)
<1>1. \A s, t \in D : s \o t \in D
  BY Concats
<1>2. /\ <<>> \in D
      /\ \A e \in Answers : DeviceInfo(e) \in D /\ LidarConf(e) \in D /\ Ask("rate", e) \in D
  BY OneStep DEF DeviceInfo, LidarConf, Questions
<1>3. /\ Set("motor", FALSE) \in D /\ Set("motor", TRUE) \in D
      /\ Set("scanning", FALSE) \in D /\ Set("scanning", TRUE) \in D
      /\ Do("stop") \in D /\ Do("brake") \in D /\ Do("disable") \in D /\ Do("join") \in D
      /\ Do("enable") \in D /\ Do("scan") \in D
  BY OneStep
<1>4. {"ignore", "fail"} \subseteq Answers
  BY DEF Answers
<1> HIDE DEF D
<1>5. /\ SupportsConf \in D /\ ScanModeFields \in D /\ StartMotor \in D
      /\ StopScan \in D /\ NativeInterface \in D /\ Delete \in D
  BY <1>1, <1>2, <1>3, <1>4
  DEF SupportsConf, ScanModeFields, LegacyDuration, StartMotor, StopScan, NativeInterface, Delete
<1>6. AllScanModes \in D /\ TypicalScanMode \in D /\ Streaming \in D /\ NodeStop \in D
      /\ Finish \in D
  BY <1>1, <1>2, <1>3, <1>4, <1>5 DEF AllScanModes, TypicalScanMode, Streaming, NodeStop, Finish
<1>7. StartNormal \in D
  BY <1>1, <1>5, <1>6 DEF StartNormal
<1>8. StartExpress \in D
  BY <1>1, <1>5, <1>6, <1>7 DEF StartExpress
<1>9. StartTypical \in D /\ SetScanMode \in D
  BY <1>1, <1>5, <1>6, <1>8 DEF StartTypical, SetScanMode
<1>10. StartScan \in D
  BY <1>1, <1>3, <1>5, <1>9 DEF StartScan
<1>11. NodeStop \o Delete \in D
  BY <1>1, <1>5, <1>6
<1> QED
  BY <1>2, <1>5, <1>6, <1>10, <1>11 DEF D

LEMMA PlainScript == \A s \in Seq(PlainSteps) : Guarded(s)
<1>1. PlainSteps \cap Detections = {}
  BY DEF PlainSteps, Detections, Answers
<1> QED
  BY <1>1 DEF DriverSteps, Guarded

LEMMA GuardedConcat ==
  ASSUME NEW s \in Seq(DriverSteps), NEW t \in Seq(PlainSteps), t # <<>> \/ Guarded(s)
  PROVE  Guarded(s \o t)
<1>1. t \in Seq(DriverSteps) /\ \A i \in 1 .. Len(t) : t[i] \notin Detections
  BY DEF PlainSteps, Detections, DriverSteps, Answers
<1>2. s \o t \in Seq(DriverSteps) /\ Len(s \o t) = Len(s) + Len(t)
      /\ Len(s) \in Nat /\ Len(t) \in Nat
  BY <1>1
<1>3. ASSUME NEW i \in 1 .. Len(s \o t), (s \o t)[i] \in Detections PROVE i < Len(s \o t)
  <2>1. CASE i > Len(s)
    <3>1. i - Len(s) \in 1 .. Len(t) /\ (s \o t)[i] = t[i - Len(s)]
      BY <1>2, <2>1
    <3> QED
      BY <1>1, <1>3, <3>1
  <2>2. CASE i <= Len(s)
    <3>1. i \in 1 .. Len(s) /\ s[i] \in Detections
      BY <1>2, <1>3, <2>2
    <3>2. CASE t # <<>>
      BY <1>2, <2>2, <3>2
    <3>3. CASE Guarded(s)
      BY <1>2, <3>1, <3>3 DEF Guarded
    <3> QED
      BY <3>2, <3>3
  <2> QED
    BY <1>2, <2>1, <2>2
<1> QED
  BY <1>2, <1>3 DEF Guarded

LEMMA FirstScript == Guarded(Startup)
<1> DEFINE connect == Do("open") \o MotorControl
           P == Seq(PlainSteps)
           start == IF launch.auto THEN <<>> ELSE StartScan
<1>1. \A t \in P : t \in Seq(DriverSteps)
  BY PlainScript DEF Guarded
<1>2. /\ DeviceInfo("quit") \in P /\ Health \in P /\ DeviceInfo("guess") \in P
      /\ Ask("acc", "ignore") \in P /\ Do("spin") \in P /\ Do("open") \in P
      /\ start \in P
  BY OneStep, Scripts DEF DeviceInfo, Health, Questions, Answers
<1>3. DeviceInfo("quit") # <<>>
  BY DEF DeviceInfo, Ask
<1>4. connect \in Seq(DriverSteps)
  <2>1. DeviceInfo("detect") \in Seq(DriverSteps)
    BY DEF DeviceInfo, Ask, Detections, DriverSteps, Questions
  <2>2. MotorControl \in Seq(DriverSteps)
    <3>1. Ask("acc", "ignore") \in Seq(DriverSteps) /\ <<>> \in Seq(DriverSteps)
      BY <1>1, <1>2
    <3> QED
      BY <2>1, <3>1, Concats DEF MotorControl
  <2> QED
    BY <1>1, <1>2, <2>2, Concats
<1> DEFINE a == connect \o DeviceInfo("quit")
           b == a \o Health
           c == b \o DeviceInfo("guess")
           d == c \o Do("spin")
<1>5. Startup = d \o start
  BY DEF Startup
<1> HIDE DEF connect, start, P
<1>6. Guarded(a)
  BY <1>2, <1>3, <1>4, GuardedConcat DEF P
<1> HIDE DEF a
<1>7. Guarded(b)
  BY <1>2, <1>6, GuardedConcat DEF P, Guarded
<1> HIDE DEF b
<1>8. Guarded(c)
  BY <1>2, <1>7, GuardedConcat DEF P, Guarded
<1> HIDE DEF c
<1>9. Guarded(d)
  BY <1>2, <1>8, GuardedConcat DEF P, Guarded
<1> HIDE DEF d
<1> QED
  BY <1>2, <1>5, <1>9, GuardedConcat DEF P, Guarded

LEMMA RestInit == Init => RestInv
<1> SUFFICES ASSUME Init PROVE RestInv
  OBVIOUS
<1>1. <<>> \in Seq(Commands)
  OBVIOUS
<1> QED
  BY <1>1, FirstScript DEF Init, RestInv, DriverTyped, Winds, Halts, Stopped

\* What is read of a script.
LEMMA TailGuarded ==
  ASSUME NEW s, Guarded(s), s # <<>>
  PROVE  /\ Head(s) \in DriverSteps /\ Guarded(Tail(s))
         /\ Head(s) \in Detections => Tail(s) # <<>>
<1>1. s \in Seq(DriverSteps)
  BY DEF Guarded
<1>2. Head(s) \in DriverSteps /\ Tail(s) \in Seq(DriverSteps)
  BY <1>1, HeadTailProperties
<1>3. ASSUME NEW i \in 1 .. Len(Tail(s)), Tail(s)[i] \in Detections PROVE i < Len(Tail(s))
  <2> DEFINE n == Len(s)
  <2>1. i + 1 \in 1 .. n /\ s[i + 1] = Tail(s)[i] /\ Len(Tail(s)) = n - 1
        /\ n \in Nat /\ i \in Int
    BY <1>1
  <2>2. i + 1 < n
    BY <1>3, <2>1 DEF Guarded
  <2> HIDE DEF n
  <2> QED
    BY <2>1, <2>2
<1>4. ASSUME Head(s) \in Detections PROVE Tail(s) # <<>>
  <2>1. 1 \in 1 .. Len(s) /\ s[1] = Head(s)
    BY <1>1
  <2>2. 1 < Len(s) /\ Len(Tail(s)) = Len(s) - 1 /\ Len(s) \in Nat
    BY <1>1, <1>4, <2>1 DEF Guarded
  <2> DEFINE n == Len(s)
  <2>3. Len(Tail(s)) = n - 1 /\ n \in Nat /\ 1 < n
    BY <2>2
  <2> HIDE DEF n
  <2>4. Len(Tail(s)) # 0
    BY <2>3
  <2>5. Len(<<>>) = 0
    OBVIOUS
  <2> QED
    BY <2>4, <2>5
<1> QED
  BY <1>1, <1>2, <1>3, <1>4 DEF Guarded

LEMMA HeadTail ==
  ASSUME Guarded(todo), todo # <<>>
  PROVE  /\ Head(todo) \in DriverSteps /\ Guarded(Tail(todo))
         /\ Head(todo) \in Detections => Tail(todo) # <<>>
         /\ Winds /\ Stopped => Head(todo) \in RestingSteps /\ Tail(todo) \in Seq(RestingSteps)
         /\ Has(todo, MotorOff) /\ Head(todo) # MotorOff => Has(Tail(todo), MotorOff)
<1>1. ASSUME Winds, Stopped PROVE Head(todo) \in RestingSteps /\ Tail(todo) \in Seq(RestingSteps)
  BY <1>1, HeadTailProperties DEF Winds
<1> QED
  BY <1>1, TailGuarded, HasTail DEF Guarded

(***************************************************************************)
(* The types.                                                              *)
(***************************************************************************)
LEMMA SendTyped ==
  ASSUME DriverTyped, NEW c \in Commands, Send(c)
  PROVE  cmds' \in Seq(Commands) /\ faults' \in Nat
<1>1. /\ cmds \in Seq(Commands) /\ faults \in Nat
      /\ cmds' = cmds \/ cmds' = Append(cmds, c)
      /\ faults' = faults \/ faults' = faults + 1
  BY DEF DriverTyped, Send
<1> QED
  BY <1>1

LEMMA DriverTypedStep == DriverTyped /\ [Next]_vars => DriverTyped'
<1> SUFFICES ASSUME DriverTyped, [Next]_vars PROVE DriverTyped'
  OBVIOUS
<1> USE DEF fixed, node, flags, stream, reply, data, world
<1>1. CASE Stop
  <2>1. [do |-> "stop"] \in Commands
    BY DEF Commands
  <2> QED
    BY <1>1, <2>1, HeadTail, SendTyped DEF Stop, Command, Running, Proceed, DriverTyped
<1>2. CASE Scan
  <2>1. [do |-> "scan", session |-> session + 1] \in Commands
    BY DEF Commands, DriverTyped
  <2> QED
    BY <1>2, <2>1, HeadTail, SendTyped DEF Scan, Command, Running, Proceed, DriverTyped
<1>3. ASSUME NEW on \in BOOLEAN, SetMotorSpeed(on)
      PROVE  /\ cmds' \in Seq(Commands) /\ faults' \in Nat
             /\ device' \in [scan : Nat, motor : BOOLEAN, plugged : BOOLEAN]
  <2>1. support # "none" => [do |-> support, on |-> on] \in Commands
    BY DEF Commands, DriverTyped
  <2> QED
    BY <1>3, <2>1, SendTyped DEF SetMotorSpeed, Command, Dtr, DriverTyped
<1>4. CASE Motor
  <2>1. Running("motor") => Head(todo).value \in BOOLEAN
    BY HeadTail DEF Running, DriverSteps, PlainSteps, Detections, DriverTyped
  <2>2. /\ cmds' \in Seq(Commands) /\ faults' \in Nat
        /\ device' \in [scan : Nat, motor : BOOLEAN, plugged : BOOLEAN]
    <3>1. CASE NoMotor
      BY <3>1 DEF NoMotor, DriverTyped
    <3>2. CASE \E on \in BOOLEAN : SetMotorSpeed(on)
      BY <1>3, <3>2
    <3> QED
      BY <1>4, <2>1, <3>1, <3>2 DEF Motor
  <2> QED
    BY <1>4, <2>2, HeadTail DEF Motor, Running, Proceed, DriverTyped
<1>5. CASE Open
  <2>1. device' \in [scan : Nat, motor : BOOLEAN, plugged : BOOLEAN]
    BY <1>5 DEF Open, Dtr, DriverTyped
  <2> QED
    BY <1>5, <2>1, HeadTail, Scripts, PlainScript DEF Open, Running, Proceed, DriverTyped
<1>6. CASE Enable \/ SetScanning \/ Disable \/ Join
  BY <1>6, HeadTail DEF Enable, SetScanning, Disable, Join, Running, Proceed, DriverTyped
<1>7. CASE Request
  <2> DEFINE first == Head(todo)
             asking == PlainSteps \cup Detections
  <2>1. todo \in Seq(DriverSteps) /\ todo # <<>> /\ Guarded(todo) /\ first.op = "ask"
        /\ first \in DriverSteps
    BY <1>7, HeadTail DEF Request, Running, DriverTyped, Guarded
  <2>2. \/ first \in [op : {"ask", "wait"}, type : Questions, else : Answers]
        \/ first \in Detections
    BY <2>1 DEF DriverSteps, PlainSteps
  <2> HIDE DEF first
  <2>3. [do |-> "ask", type |-> first.type] \in Commands
    BY <2>2 DEF Commands, Detections
  <2>4. /\ [first EXCEPT !.op = "wait"] \in DriverSteps
        /\ [first EXCEPT !.op = "wait"] \in Detections => first \in Detections
    BY <2>2 DEF DriverSteps, PlainSteps, Detections
  <2>5. todo' = [todo EXCEPT ![1] = [first EXCEPT !.op = "wait"]]
    BY <1>7, <2>1 DEF Request, first
  <2>6. Guarded(todo')
    <3>1. todo' \in Seq(DriverSteps) /\ Len(todo') = Len(todo)
          /\ \A i \in 1 .. Len(todo) : todo'[i] = IF i = 1 THEN [first EXCEPT !.op = "wait"] ELSE todo[i]
      BY <2>1, <2>4, <2>5
    <3>2. todo[1] = first
      BY <2>1 DEF first
    <3> QED
      BY <2>1, <2>4, <3>1, <3>2 DEF Guarded
  <2> QED
    BY <1>7, <2>3, <2>6, SendTyped DEF Request, DriverTyped, first
<1>8. ASSUME Running("wait"), Bad(Head(todo)) PROVE Guarded(todo') /\ support' = support
  <2>0. support' = support
    BY <1>8 DEF Bad
  <2>1. Guarded(todo)
    BY DEF DriverTyped
  <2>2. Guarded(Tail(todo))
    BY <1>8, <2>1, HeadTail DEF Running
  <2>3. CASE todo' = Tail(Tail(todo)) /\ Head(todo).else = "detect"
    <3>1. Head(todo) \in Detections
      BY <1>8, <2>1, <2>3, HeadTail
      DEF Running, DriverSteps, PlainSteps, Detections, Answers
    <3>2. Tail(todo) # <<>>
      BY <1>8, <2>1, <3>1, HeadTail DEF Running
    <3> DEFINE t == Tail(todo)
    <3> HIDE DEF t
    <3>3. Guarded(t) /\ t # <<>>
      BY <2>2, <3>2 DEF t
    <3>4. Guarded(Tail(t))
      BY <3>3, TailGuarded
    <3> QED
      BY <2>0, <2>3, <3>4 DEF t
  <2> QED
    BY <1>8, <2>2, <2>3, <2>0, Scripts, PlainScript DEF Bad, Proceed
<1>9. CASE Take
  <2>1. Running("wait") /\ (Good(Head(todo)) \/ Bad(Head(todo)))
    BY <1>9 DEF Take
  <2>2. CASE Good(Head(todo))
    <3>1. Guarded(todo')
      BY <2>1, <2>2, HeadTail DEF Good, Running, DriverTyped
    <3>2. support' \in {"none", "pwm", "rpm"}
      BY <2>2 DEF Good, DriverTyped
    <3> QED
      BY <1>9, <3>1, <3>2 DEF Take, DriverTyped
  <2>3. CASE Bad(Head(todo))
    BY <1>8, <1>9, <2>1, <2>3 DEF Take, DriverTyped
  <2> QED
    BY <2>1, <2>2, <2>3
<1>10. CASE Timeout
  BY <1>8, <1>10 DEF Timeout, DriverTyped
<1>11. CASE Standby \/ Service \/ Quit
  <2>1. /\ UNCHANGED <<fixed, flags, data, cmds, device, faults>>
        /\ todo' \in {StartScan, NodeStop, Finish}
    BY <1>11 DEF Standby, Service, Quit, Begin
  <2> QED
    BY <2>1, Scripts, PlainScript DEF DriverTyped
<1>12. CASE Grab
  <2>1. /\ cmds' \in Seq(Commands) /\ faults' \in Nat
        /\ device' \in [scan : Nat, motor : BOOLEAN, plugged : BOOLEAN]
    BY <1>3, <1>12 DEF Grab, NoMotor, DriverTyped
  <2> QED
    BY <1>12, <2>1 DEF Grab, DriverTyped
<1>13. CASE Surroundings \/ Handover \/ Store \/ Unpack \/ Measure
  BY <1>13 DEF Surroundings, Handover, Store, Unpack, Measure, DriverTyped
<1>14. CASE Decode
  <2>1. faults' \in Nat
    BY <1>14 DEF Decode, DriverTyped
  <2> QED
    BY <1>14, <2>1 DEF Decode, DriverTyped
<1>15. CASE Obey
  <2>1. Head(cmds) \in Commands /\ cmds' \in Seq(Commands)
    BY <1>15, HeadTailProperties DEF Obey, DriverTyped
  <2>2. device' \in [scan : Nat, motor : BOOLEAN, plugged : BOOLEAN]
    <3>1. ASSUME Head(cmds).do = launch.kind PROVE Head(cmds).on \in BOOLEAN
      BY <2>1, <3>1, DriverAssumption DEF Commands, DriverTyped
    <3>2. ASSUME Head(cmds).do = "scan" PROVE Head(cmds).session \in Nat
      BY <2>1, <3>2 DEF Commands
    <3> DEFINE cmd == Head(cmds)
    <3>3. \/ device' = device
          \/ device' = [device EXCEPT !.scan = 0]
          \/ cmd.do = "scan" /\ device' = [device EXCEPT !.scan = cmd.session]
          \/ device' = [device EXCEPT !.motor = IF cmd.do = launch.kind THEN cmd.on ELSE @]
      BY <1>15 DEF Obey
    <3>4. device \in [scan : Nat, motor : BOOLEAN, plugged : BOOLEAN]
      BY DEF DriverTyped
    <3> HIDE DEF cmd
    <3>5. /\ cmd.do = launch.kind => cmd.on \in BOOLEAN
          /\ cmd.do = "scan" => cmd.session \in Nat
      BY <3>1, <3>2 DEF cmd
    <3>6. [device EXCEPT !.motor = IF cmd.do = launch.kind THEN cmd.on ELSE @]
            \in [scan : Nat, motor : BOOLEAN, plugged : BOOLEAN]
      <4>1. CASE cmd.do = launch.kind
        BY <3>4, <3>5, <4>1
      <4>2. CASE cmd.do # launch.kind
        BY <3>4, <4>2
      <4> QED
        BY <4>1, <4>2
    <3> QED
      BY <3>3, <3>4, <3>5, <3>6
  <2>3. faults' \in Nat
    BY <1>15 DEF Obey, Reply, DriverTyped
  <2> QED
    BY <1>15, <2>1, <2>2, <2>3 DEF Obey, DriverTyped
<1>16. CASE Unplug
  <2>1. <<>> \in Seq(Commands)
    OBVIOUS
  <2>2. device' \in [scan : Nat, motor : BOOLEAN, plugged : BOOLEAN] 
    <3>1. device' = [device EXCEPT !.plugged = FALSE]
      BY <1>16 DEF Unplug
    <3> QED
      BY <3>1 DEF DriverTyped
  <2>3. faults' \in Nat
    BY <1>16 DEF Unplug, DriverTyped
  <2> QED
    BY <1>16, <2>1, <2>2, <2>3 DEF Unplug, DriverTyped
<1>17. CASE UNCHANGED vars
  BY <1>17 DEF vars, DriverTyped
<1> QED
  BY <1>1, <1>2, <1>4, <1>5, <1>6, <1>7, <1>9, <1>10, <1>11, <1>12, <1>13, <1>14, <1>15, <1>16,
     <1>17 DEF Next, Steps, Loop, Decoder

(***************************************************************************)
(* The motor.                                                              *)
(***************************************************************************)
\* A step that is none of a resting script.
LEMMA Asking ==
  ASSUME RestInv, NEW op \in {"ask", "wait", "enable", "scan", "spin", "open"}, Running(op)
  PROVE  ~ Stopped
<1>1. Stopped => Head(todo) \in RestingSteps
  BY HeadTail DEF RestInv, DriverTyped, Running
<1> QED
  BY <1>1 DEF Running, RestingSteps

LEMMA WindsStep == RestInv /\ [Next]_vars => Winds'
<1> SUFFICES ASSUME RestInv, [Next]_vars, Stopped' PROVE todo' \in Seq(RestingSteps)
  BY DEF Winds
<1> USE DEF fixed, node, flags, stream, reply, data, world
<1>1. ASSUME todo # <<>>, Proceed PROVE todo' \in Seq(RestingSteps)
  BY <1>1, HeadTail DEF Proceed, RestInv, DriverTyped, Stopped
<1>2. ASSUME UNCHANGED node PROVE todo' \in Seq(RestingSteps)
  BY <1>2 DEF RestInv, Winds, Stopped
<1>3. CASE Stop \/ Enable \/ Scan \/ Motor \/ SetScanning \/ Disable \/ Join
  BY <1>1, <1>3 DEF Stop, Enable, Scan, Motor, SetScanning, Disable, Join, Running
<1>4. CASE Open
  BY <1>1, <1>4 DEF Open, Running, Stopped
<1>5. CASE Request
  BY <1>5, Asking DEF Request, Stopped
<1>6. ASSUME Running("wait"), Bad(Head(todo)) PROVE todo' \in Seq(RestingSteps)
  BY <1>6, Asking, RestingScripts DEF Bad, Proceed, Stopped
<1>7. CASE Take
  BY <1>6, <1>7, Asking DEF Take, Good, Stopped
<1>8. CASE Timeout
  BY <1>6, <1>8 DEF Timeout
<1>9. CASE Standby \/ Service \/ Quit
  BY <1>9, RestingScripts DEF Standby, Service, Quit, Begin, Stopped
<1>10. CASE Grab
  BY <1>2, <1>10 DEF Grab, Stopped
<1>11. CASE Surroundings \/ Decoder \/ Obey \/ Measure \/ Unplug \/ UNCHANGED vars
  BY <1>2, <1>11
  DEF Surroundings, Decoder, Decode, Handover, Store, Unpack, Obey, Measure, Unplug, vars
<1> QED
  BY <1>3, <1>4, <1>5, <1>7, <1>8, <1>9, <1>10, <1>11 DEF Next, Steps, Loop

\* A command that turns the motor off, or is none of the motor's.
LEMMA RestedAppend ==
  ASSUME NEW kind, NEW motor, NEW S, NEW cs \in Seq(S), NEW c \in S
  PROVE  /\ c.do = kind /\ ~ c.on => Rested(kind, motor, Append(cs, c))
         /\ Rested(kind, motor, cs) /\ (c.do = kind => ~ c.on) => Rested(kind, motor, Append(cs, c))
<1> DEFINE more == Append(cs, c)
           n == Len(cs)
<1>1. /\ n \in Nat /\ Len(more) = n + 1 /\ more[n + 1] = c
      /\ \A i \in 1 .. n : more[i] = cs[i]
  OBVIOUS
<1> HIDE DEF more, n
<1>2. \A i \in 1 .. n + 1 : i \in 1 .. n \/ i = n + 1
  BY <1>1
<1>3. 1 .. n \subseteq 1 .. n + 1 /\ n + 1 \in 1 .. n + 1
  BY <1>1
<1>4. ASSUME c.do = kind, ~ c.on PROVE Rested(kind, motor, more)
  <2>1. \A j \in 1 .. n + 1 : ~ (n + 1 < j)
    BY <1>1
  <2> QED
    BY <1>1, <1>3, <1>4, <2>1 DEF Rested
<1>5. ASSUME Rested(kind, motor, cs), c.do = kind => ~ c.on PROVE Rested(kind, motor, more)
  BY <1>1, <1>2, <1>3, <1>5 DEF Rested, n
<1> QED
  BY <1>4, <1>5 DEF more

\* The device has obeyed the first command.
LEMMA RestedTail ==
  ASSUME NEW kind, NEW motor, NEW S, NEW cs \in Seq(S), cs # <<>>, Rested(kind, motor, cs)
  PROVE  Rested(kind, IF Head(cs).do = kind THEN Head(cs).on ELSE motor, Tail(cs))
<1> DEFINE n == Len(cs)
           rest == Tail(cs)
           now == IF Head(cs).do = kind THEN Head(cs).on ELSE motor
<1>1. /\ n \in Nat /\ n >= 1 /\ Len(rest) = n - 1 /\ Head(cs) = cs[1]
      /\ \A i \in 1 .. n - 1 : rest[i] = cs[i + 1]
  OBVIOUS
<1> HIDE DEF rest, n
<1>2. \A i \in 1 .. n - 1 : i + 1 \in 1 .. n /\ 1 < i + 1
  BY <1>1
<1>3. CASE ~ motor /\ \A j \in 1 .. n : ~ (cs[j].do = kind /\ cs[j].on)
  <2>1. ~ now
    BY <1>1, <1>3
  <2>2. \A j \in 1 .. n - 1 : ~ (rest[j].do = kind /\ rest[j].on)
    BY <1>1, <1>2, <1>3
  <2>3. \A j \in 1 .. Len(rest) : ~ (rest[j].do = kind /\ rest[j].on)
    BY <1>1, <2>2
  <2> HIDE DEF now
  <2> QED
    BY <2>1, <2>3 DEF Rested
<1>4. ASSUME NEW i \in 1 .. n, cs[i].do = kind, ~ cs[i].on,
             \A j \in 1 .. n : i < j => ~ (cs[j].do = kind /\ cs[j].on)
      PROVE  Rested(kind, now, rest)
  <2>1. CASE i = 1
    <3>1. ~ now
      BY <1>1, <1>4, <2>1
    <3>2. \A j \in 1 .. n - 1 : ~ (rest[j].do = kind /\ rest[j].on)
      BY <1>1, <1>2, <1>4, <2>1
    <3> QED
      BY <1>1, <3>1, <3>2 DEF Rested
  <2>2. CASE i # 1
    <3>1. i - 1 \in 1 .. n - 1 /\ (i - 1) + 1 = i
      BY <1>1, <2>2
    <3>2. rest[i - 1].do = kind /\ ~ rest[i - 1].on
      BY <1>1, <1>4, <3>1
    <3>3. \A j \in 1 .. n - 1 : i - 1 < j => ~ (rest[j].do = kind /\ rest[j].on)
      <4> SUFFICES ASSUME NEW j \in 1 .. n - 1, i - 1 < j
                   PROVE  ~ (rest[j].do = kind /\ rest[j].on)
        OBVIOUS
      <4>1. j + 1 \in 1 .. n /\ i < j + 1
        BY <1>1
      <4> QED
        BY <1>1, <1>4, <4>1
    <3> QED
      BY <1>1, <3>1, <3>2, <3>3 DEF Rested
  <2> QED
    BY <2>1, <2>2
<1> QED
  BY <1>3, <1>4 DEF Rested, n

LEMMA HaltsStep == RestInv /\ [Next]_vars => Halts'
<1> SUFFICES ASSUME RestInv, [Next]_vars, Stopped', ~ Lost', Recognised'
             PROVE  Has(todo', MotorOff) \/ WillRest'
  BY DEF Halts
<1> USE DEF fixed, node, flags, stream, reply, data, world
<1> DEFINE kind == launch.kind
<1>1. /\ DriverTyped /\ cmds \in Seq(Commands) /\ faults \in Nat
      /\ device \in [scan : Nat, motor : BOOLEAN, plugged : BOOLEAN]
      /\ kind \in {"dtr", "old", "pwm", "rpm"} /\ support \in {"none", "pwm", "rpm"}
  BY DriverAssumption DEF RestInv, DriverTyped
<1>2. launch' = launch /\ WillRest' = Rested(kind, device'.motor, cmds')
  BY DEF WillRest, Next, Steps, Loop, Decoder, Stop, Enable, Scan, Motor, Open, SetScanning, Disable,
         Join, Request, Take, Timeout, Standby, Grab, Quit, Begin, Decode, Handover, Store, Unpack,
         Service, Surroundings, Obey, Measure, Unplug, vars
<1> HIDE DEF kind
\* As before the step, with less to do.
<1>3. ASSUME Stopped, ~ Lost, Recognised, Has(todo, MotorOff) => Has(todo', MotorOff),
             UNCHANGED <<cmds, device>>
      PROVE  Has(todo', MotorOff) \/ WillRest'
  BY <1>1, <1>2, <1>3 DEF RestInv, Halts, WillRest, kind
\* A command is sent that turns nothing on.
<1>4. ASSUME NEW c \in Commands, c.do = kind => ~ c.on, Send(c), device' = device
      PROVE  /\ ~ Lost /\ cmds' = Append(cmds, c)
             /\ c.do = kind => WillRest'
             /\ WillRest => WillRest'
  <2>1. ~ Lost /\ cmds' = Append(cmds, c)
    BY <1>1, <1>4 DEF Send, Lost
  <2>2. WillRest = Rested(kind, device.motor, cmds)
    BY DEF WillRest, kind
  <2> QED
    BY <1>1, <1>2, <1>4, <2>1, <2>2, RestedAppend
\* The motor is turned off.
<1>5. ASSUME SetMotorSpeed(FALSE), support' = support PROVE WillRest' /\ ~ Lost
  <2>1. CASE support = "none"
    <3>1. kind \in {"dtr", "old"}
      BY <1>1, <1>2, <1>5, <2>1 DEF Recognised, kind
    <3>2. device' = [device EXCEPT !.motor = FALSE] /\ cmds' = cmds /\ faults' = faults
      BY <1>5, <2>1, <3>1 DEF SetMotorSpeed, Dtr, kind
    <3>3. \A j \in 1 .. Len(cmds) : cmds[j].do # kind
      BY <1>1, <3>1 DEF Commands
    <3>4. ~ device'.motor /\ device'.plugged = device.plugged
      BY <1>1, <3>2
    <3> QED
      BY <1>2, <3>2, <3>3, <3>4 DEF Rested, Lost
  <2>2. CASE support # "none"
    <3> DEFINE c == [do |-> support, on |-> FALSE]
    <3>1. c \in Commands /\ c.do = kind /\ ~ c.on
      BY <1>1, <1>2, <1>5, <2>2 DEF Recognised, Commands, kind
    <3>2. Send(c) /\ device' = device
      BY <1>5, <2>2 DEF SetMotorSpeed, Command
    <3> HIDE DEF c
    <3> QED
      BY <1>4, <3>1, <3>2
  <2> QED
    BY <2>1, <2>2
\* What a step of the script leaves to do.
<1>6. ASSUME todo # <<>>, Proceed
      PROVE  /\ Stopped /\ Head(todo) \in RestingSteps
             /\ Head(todo) # MotorOff /\ Has(todo, MotorOff) => Has(todo', MotorOff)
  BY <1>6, HeadTail DEF Proceed, RestInv, DriverTyped, Stopped
<1>7. CASE Stop
  <2> DEFINE c == [do |-> "stop"]
  <2>1. c \in Commands /\ c.do # kind
    BY <1>1 DEF Commands
  <2>2. Send(c) /\ device' = device /\ support' = support
    BY <1>7 DEF Stop, Command
  <2> HIDE DEF c
  <2>3. ~ Lost /\ Recognised /\ (WillRest => WillRest')
    BY <1>2, <1>4, <2>1, <2>2 DEF Recognised
  <2>4. Stopped /\ (Has(todo, MotorOff) => Has(todo', MotorOff))
    BY <1>6, <1>7 DEF Stop, Running, MotorOff
  <2> QED
    BY <2>3, <2>4 DEF RestInv, Halts
<1>8. CASE Enable \/ Scan
  BY <1>6, <1>8, Asking DEF Enable, Scan, Running
<1>9. CASE Motor
  <2>1. /\ todo # <<>> /\ Stopped /\ Head(todo) \in RestingSteps /\ support' = support
        /\ launch' = launch
        /\ Head(todo) # MotorOff /\ Has(todo, MotorOff) => Has(todo', MotorOff)
    BY <1>6, <1>9 DEF Motor, Running
  <2>2. CASE Running("motor") /\ SetMotorSpeed(Head(todo).value)
    <3>1. Head(todo).value = FALSE
      BY <2>1, <2>2 DEF Running, RestingSteps
    <3> QED
      BY <1>5, <2>1, <2>2, <3>1
  <2>3. CASE Running("brake") /\ SetMotorSpeed(FALSE)
    BY <1>5, <2>1, <2>3
  <2>4. CASE Running("brake") /\ NoMotor
    <3>1. Has(todo, MotorOff) => Has(todo', MotorOff)
      BY <2>1, <2>4 DEF Running, MotorOff
    <3> QED
      BY <1>3, <2>1, <2>4, <3>1 DEF NoMotor, Lost, Recognised
  <2>5. ~ Running("spin")
    BY <2>1, Asking
  <2> QED
    BY <1>9, <2>2, <2>3, <2>4, <2>5 DEF Motor
<1>10. CASE SetScanning \/ Disable \/ Join
  <2>1. /\ Stopped /\ UNCHANGED <<cmds, device, faults, support, launch>>
        /\ Has(todo, MotorOff) => Has(todo', MotorOff)
    BY <1>6, <1>10 DEF SetScanning, Disable, Join, Running, MotorOff
  <2> QED
    BY <1>3, <2>1 DEF Lost, Recognised
<1>11. CASE Open
  BY <1>6, <1>11, Asking DEF Open, Running, Stopped
<1>12. CASE Request
  BY <1>12, Asking DEF Request, Stopped
<1>13. ASSUME Running("wait"), Bad(Head(todo)) PROVE Has(todo', MotorOff)
  BY <1>13, Asking, RestingScripts DEF Bad, Proceed, Stopped
<1>14. CASE Take
  BY <1>13, <1>14, Asking DEF Take, Good, Stopped
<1>15. CASE Timeout
  BY <1>13, <1>15 DEF Timeout
<1>16. CASE Standby \/ Service \/ Quit
  BY <1>16, RestingScripts DEF Standby, Service, Quit, Begin, Stopped
<1>17. CASE Grab
  <2>1. Stopped /\ UNCHANGED <<cmds, device, faults, support, launch, todo>>
    BY <1>17 DEF Grab, NoMotor, Stopped
  <2> QED
    BY <1>3, <2>1 DEF Lost, Recognised
<1>18. CASE Surroundings \/ Handover \/ Store \/ Unpack \/ Measure
  <2>1. Stopped /\ UNCHANGED <<cmds, device, faults, support, launch, todo>>
    BY <1>18 DEF Surroundings, Handover, Store, Unpack, Measure, Stopped
  <2> QED
    BY <1>3, <2>1 DEF Lost, Recognised
<1>19. CASE Decode
  <2>1. Stopped /\ UNCHANGED <<cmds, device, support, launch, todo>>
    BY <1>19 DEF Decode, Stopped
  <2>2. faults' = faults \/ faults' = faults + 1
    BY <1>19 DEF Decode
  <2>3. ~ Lost
    BY <1>1, <2>1, <2>2 DEF Lost
  <2> QED
    BY <1>3, <2>1, <2>3 DEF Recognised
<1>20. CASE Obey
  <2>1. Stopped /\ UNCHANGED <<support, launch, todo>> /\ cmds # <<>> /\ cmds' = Tail(cmds)
    BY <1>20 DEF Obey, Stopped
  <2>2. faults' = faults \/ faults' = faults + 1
    BY <1>20 DEF Obey, Reply
  <2>3. /\ device'.motor = IF Head(cmds).do = kind THEN Head(cmds).on ELSE device.motor
        /\ device'.plugged = device.plugged
    <3>1. \/ device' = device /\ Head(cmds).do = "ask"
          \/ device' = [device EXCEPT !.scan = 0] /\ Head(cmds).do = "stop"
          \/ device' = [device EXCEPT !.scan = Head(cmds).session] /\ Head(cmds).do = "scan"
          \/ device' = [device EXCEPT !.motor = IF Head(cmds).do = kind THEN Head(cmds).on ELSE @]
      BY <1>20 DEF Obey, kind
    <3> QED
      BY <1>1, <3>1
  <2>4. ~ Lost /\ Recognised
    BY <1>1, <2>1, <2>2, <2>3 DEF Lost, Recognised
  <2>5. WillRest => WillRest'
    BY <1>1, <1>2, <2>1, <2>3, RestedTail DEF WillRest, kind
  <2> QED
    BY <2>1, <2>4, <2>5 DEF RestInv, Halts
<1>21. CASE Unplug
  BY <1>1, <1>21 DEF Unplug, Lost
<1>22. CASE UNCHANGED vars
  BY <1>3, <1>22 DEF vars, Stopped, Lost, Recognised
<1> QED
  BY <1>7, <1>8, <1>9, <1>10, <1>11, <1>12, <1>14, <1>15, <1>16, <1>17, <1>18, <1>19, <1>20, <1>21,
     <1>22 DEF Next, Steps, Loop, Decoder

LEMMA RestInvariant == MCSpec => []RestInv
<1>1. MCInit => RestInv
  BY RestInit DEF MCInit
<1>2. RestInv /\ [Above(Next) \/ Below(Link!Next)]_mcVars => RestInv'
  <2>1. [Above(Next) \/ Below(Link!Next)]_mcVars => [Next]_vars
    BY DEF Above, Below, mcVars
  <2>2. RestInv => DriverTyped
    BY DEF RestInv
  <2> QED
    BY <2>1, <2>2, DriverTypedStep, WindsStep, HaltsStep DEF RestInv
<1> QED
  BY <1>1, <1>2, PTL DEF MCSpec

(***************************************************************************)
(* stop_motor, the stop of the auto standby and the end of the work loop   *)
(* leave the motor at rest, whatever the device answered, as long as no    *)
(* command was lost, the motor control was recognised at the connection,   *)
(* and no scan grabbed afterwards spins it again.                          *)
(***************************************************************************)
THEOREM ComesToRest == MCSpec => []Rests
<1>1. RestInv => Rests
  <2> SUFFICES ASSUME RestInv, todo = <<>>, Stopped, cmds = <<>>, ~ Lost, Recognised
               PROVE  ~ device.motor
    BY DEF Rests, Stopped, Recognised
  <2>1. Len(<<>>) = 0
    OBVIOUS
  <2>2. ~ Has(todo, MotorOff)
    BY <2>1 DEF Has
  <2>3. Rested(launch.kind, device.motor, cmds)
    BY <2>2 DEF RestInv, Halts, WillRest
  <2> QED
    BY <2>1, <2>3 DEF Rested
<1> QED
  BY <1>1, RestInvariant, PTL
-----------------------------------------------------------------------------
(* What the driver takes and what the unpacker is given: the answers and   *)
(* the heads of scans between the device and the node's thread, counted.   *)

IsAnswer(type) == type \in Questions
TokenTypes == Questions \cup {"scan"}
LineTokens == [part : {"head", "body"}, type : TokenTypes, session : Nat]
Messages   == [type : TokenTypes, session : Nat, torn : BOOLEAN]

\* The decoder has an answer in hand, or a frame of measurements.
AnswerHeld == dec.pc \in {"copying", "storing"} /\ IsAnswer(dec.msg.type)
ScanHeld   == dec.pc \in {"copying", "unpacking"} /\ dec.msg.type = "scan"

StreamTyped ==
  /\ rx \in Seq(LineTokens) /\ late \in Nat /\ waiter \in BOOLEAN
  /\ codec \in [type : TokenTypes \cup {"hunt", "adrift"}]
  /\ dec \in {Idle, [pc |-> "joined"]} \cup [pc : {"copying", "storing", "unpacking"}, msg : Messages]
  /\ dec.pc = "storing" => IsAnswer(dec.msg.type)
  /\ dec.pc = "unpacking" => dec.msg.type = "scan"

\* Positions: tokens of answers, the heads among them, requests, questions a
\* start must have answered.
IsHead(token) == token.part = "head" /\ IsAnswer(token.type)
IsMust(step)  == step.op \in {"ask", "wait"} /\ step.else = "fail"
Heads(q)  == {i \in 1 .. Len(q) : IsHead(q[i])}
Asks(cs)  == {i \in 1 .. Len(cs) : cs[i].do = "ask"}
Musts(s)  == {i \in 1 .. Len(s) : IsMust(s[i])}
UpTo(S, i) == Cardinality(S \cap 1 .. i)
Bit(b)     == IF b THEN 1 ELSE 0

-----------------------------------------------------------------------------
(* Counting in a sequence.                                                 *)

LEMMA Counts ==
  ASSUME NEW n \in Nat, NEW S \in SUBSET (1 .. n)
  PROVE  /\ IsFiniteSet(S) /\ Cardinality(S) \in Nat
         /\ \A i \in Nat : UpTo(S, i) \in Nat /\ UpTo(S, i) <= Cardinality(S)
         /\ \A i \in Nat : n <= i => UpTo(S, i) = Cardinality(S)
         /\ S = {} => Cardinality(S) = 0
         /\ UpTo(S, 1) = Bit(1 \in S)
<1>1. IsFiniteSet(1 .. n)
  BY FS_Interval
<1>2. IsFiniteSet(S) /\ Cardinality(S) \in Nat
  BY <1>1, FS_Subset, FS_CardinalityType
<1>3. ASSUME NEW i \in Nat PROVE UpTo(S, i) \in Nat /\ UpTo(S, i) <= Cardinality(S)
  <2>1. S \cap 1 .. i \in SUBSET S
    OBVIOUS
  <2> QED
    BY <1>2, <2>1, FS_Subset, FS_CardinalityType DEF UpTo
<1>4. ASSUME NEW i \in Nat, n <= i PROVE UpTo(S, i) = Cardinality(S)
  <2>1. \A s \in S : s \in Nat /\ 1 <= s /\ s <= n
    OBVIOUS
  <2>2. \A s \in S : s \in 1 .. i
    BY <1>4, <2>1
  <2>3. S \cap 1 .. i = S
    BY <2>2
  <2> QED
    BY <2>3 DEF UpTo
<1>5. UpTo(S, 1) = Bit(1 \in S)
  <2>1. 1 .. 1 = {1}
    OBVIOUS
  <2>2. S \cap 1 .. 1 = IF 1 \in S THEN {1} ELSE {}
    BY <2>1
  <2>3. Cardinality({}) = 0 /\ Cardinality({1}) = 1
    BY FS_EmptySet, FS_Singleton
  <2> QED
    BY <2>2, <2>3 DEF UpTo, Bit
<1> QED
  BY <1>2, <1>3, <1>4, <1>5, FS_EmptySet

\* The first element is taken away, and the others move up.
LEMMA Shifted ==
  ASSUME NEW n \in Nat, NEW S \in SUBSET (1 .. n), NEW T, T = {i \in 1 .. n - 1 : i + 1 \in S}
  PROVE  Cardinality(T) = Cardinality(S) - Bit(1 \in S)
<1> DEFINE f == [i \in T |-> i + 1]
           R == S \ {1}
<1>1. IsFiniteSet(S) /\ Cardinality(S) \in Nat
  BY Counts
<1>2. f \in Bijection(T, R)
  <2>1. \A i \in T : i + 1 \in R
    OBVIOUS
  <2>2. f \in [T -> R]
    BY <2>1
  <2>3. \A i, j \in T : f[i] = f[j] => i = j
    OBVIOUS
  <2>4. \A r \in R : r - 1 \in T /\ f[r - 1] = r
    OBVIOUS
  <2> HIDE DEF f, R
  <2>5. \A r \in R : \E i \in T : f[i] = r
    BY <2>4
  <2> QED
    BY <2>2, <2>3, <2>5, Fun_IsBij
<1>3. IsFiniteSet(R) /\ Cardinality(R) = Cardinality(S) - Bit(1 \in S)
  BY <1>1, FS_RemoveElement DEF Bit
<1>4. ExistsBijection(T, R)
  BY <1>2 DEF ExistsBijection
<1>5. IsFiniteSet(T)
  <2>1. T \in SUBSET (1 .. n)
    OBVIOUS
  <2> QED
    BY <2>1, Counts
<1> HIDE DEF R, f
<1>6. Cardinality(T) = Cardinality(R)
  BY <1>3, <1>4, <1>5, FS_Bijection
<1> QED
  BY <1>3, <1>6

LEMMA ShiftedUpTo ==
  ASSUME NEW n \in Nat, NEW S \in SUBSET (1 .. n), NEW T, T = {i \in 1 .. n - 1 : i + 1 \in S},
         NEW k \in 1 .. n
  PROVE  UpTo(T, k - 1) = UpTo(S, k) - Bit(1 \in S)
<1> DEFINE A == S \cap 1 .. k
           B == T \cap 1 .. k - 1
<1>1. A \in SUBSET (1 .. k) /\ k \in Nat
  OBVIOUS
<1>2. B = {i \in 1 .. k - 1 : i + 1 \in A}
  OBVIOUS
<1>3. 1 \in A <=> 1 \in S
  OBVIOUS
<1> HIDE DEF A, B
<1>4. Cardinality(B) = Cardinality(A) - Bit(1 \in A)
  BY <1>1, <1>2, Shifted
<1> QED
  BY <1>3, <1>4 DEF UpTo, A, B, Bit

\* An element is put behind the others.
LEMMA Extended ==
  ASSUME NEW n \in Nat, NEW S \in SUBSET (1 .. n), NEW T, T \ {n + 1} = S
  PROVE  /\ Cardinality(T) = Cardinality(S) + Bit(n + 1 \in T)
         /\ \A i \in 1 .. n : UpTo(T, i) = UpTo(S, i)
<1>1. n + 1 \notin S
  OBVIOUS
<1>2. T = IF n + 1 \in T THEN S \cup {n + 1} ELSE S
  OBVIOUS
<1>3. IsFiniteSet(S) /\ Cardinality(S) \in Nat
  BY Counts
<1>4. Cardinality(S \cup {n + 1}) = Cardinality(S) + 1
  BY <1>1, <1>3, FS_AddElement
<1>5. \A i \in 1 .. n : T \cap 1 .. i = S \cap 1 .. i
  OBVIOUS
<1> QED
  BY <1>2, <1>3, <1>4, <1>5 DEF UpTo, Bit

LEMMA HeadsKept ==
  ASSUME NEW q \in Seq(LineTokens)
  PROVE  /\ Heads(q) \in SUBSET (1 .. Len(q)) /\ Len(q) \in Nat
         /\ \A t \in LineTokens :
              /\ Cardinality(Heads(Append(q, t))) = Cardinality(Heads(q)) + Bit(IsHead(t))
              /\ \A i \in 1 .. Len(q) : UpTo(Heads(Append(q, t)), i) = UpTo(Heads(q), i)
         /\ q # <<>> =>
              /\ Cardinality(Heads(Tail(q))) = Cardinality(Heads(q)) - Bit(IsHead(q[1]))
              /\ \A i \in 1 .. Len(q) :
                   UpTo(Heads(Tail(q)), i - 1) = UpTo(Heads(q), i) - Bit(IsHead(q[1]))
<1> DEFINE n == Len(q)
<1>1. Heads(q) \in SUBSET (1 .. n) /\ n \in Nat
  BY DEF Heads
<1>2. ASSUME NEW t \in LineTokens
      PROVE  /\ Cardinality(Heads(Append(q, t))) = Cardinality(Heads(q)) + Bit(IsHead(t))
             /\ \A i \in 1 .. n : UpTo(Heads(Append(q, t)), i) = UpTo(Heads(q), i)
  <2> DEFINE p == Append(q, t)
  <2>1. Len(p) = n + 1 /\ p[n + 1] = t /\ \A i \in 1 .. n : p[i] = q[i]
    OBVIOUS
  <2> HIDE DEF p, n
  <2>2. Heads(p) \ {n + 1} = Heads(q) /\ (n + 1 \in Heads(p) <=> IsHead(t))
    BY <1>1, <2>1 DEF Heads, n
  <2>3. /\ Cardinality(Heads(p)) = Cardinality(Heads(q)) + Bit(n + 1 \in Heads(p))
        /\ \A i \in 1 .. n : UpTo(Heads(p), i) = UpTo(Heads(q), i)
    BY <1>1, <2>2, Extended
  <2> QED
    BY <2>2, <2>3 DEF p, Bit
<1>3. ASSUME q # <<>>
      PROVE  /\ Cardinality(Heads(Tail(q))) = Cardinality(Heads(q)) - Bit(IsHead(q[1]))
             /\ \A i \in 1 .. n :
                  UpTo(Heads(Tail(q)), i - 1) = UpTo(Heads(q), i) - Bit(IsHead(q[1]))
  <2> DEFINE p == Tail(q)
  <2>1. Len(p) = n - 1 /\ 1 \in 1 .. n /\ \A i \in 1 .. n - 1 : p[i] = q[i + 1]
    BY <1>3
  <2> HIDE DEF p, n
  <2>2. Heads(p) = {i \in 1 .. n - 1 : i + 1 \in Heads(q)} /\ (1 \in Heads(q) <=> IsHead(q[1]))
    BY <1>1, <2>1 DEF Heads, n
  <2>3. Cardinality(Heads(p)) = Cardinality(Heads(q)) - Bit(1 \in Heads(q))
    BY <1>1, <2>2, Shifted
  <2>4. \A i \in 1 .. n : UpTo(Heads(p), i - 1) = UpTo(Heads(q), i) - Bit(1 \in Heads(q))
    <3> DEFINE S == Heads(q)
               T == Heads(p)
    <3>1. S \in SUBSET (1 .. n) /\ T = {i \in 1 .. n - 1 : i + 1 \in S} /\ n \in Nat
      BY <1>1, <2>2 DEF n
    <3> HIDE DEF S, T
    <3>2. \A i \in 1 .. n : UpTo(T, i - 1) = UpTo(S, i) - Bit(1 \in S)
      BY <3>1, ShiftedUpTo
    <3> QED
      BY <3>2 DEF S, T
  <2> QED
    BY <2>2, <2>3, <2>4 DEF p, Bit
<1> QED
  BY <1>1, <1>2, <1>3

LEMMA AsksKept ==
  ASSUME NEW q \in Seq(Commands)
  PROVE  /\ Asks(q) \in SUBSET (1 .. Len(q)) /\ Len(q) \in Nat
         /\ \A c \in Commands :
              /\ Cardinality(Asks(Append(q, c))) = Cardinality(Asks(q)) + Bit(c.do = "ask")
              /\ \A i \in 1 .. Len(q) : UpTo(Asks(Append(q, c)), i) = UpTo(Asks(q), i)
         /\ q # <<>> =>
              /\ Cardinality(Asks(Tail(q))) = Cardinality(Asks(q)) - Bit(q[1].do = "ask")
              /\ \A i \in 1 .. Len(q) :
                   UpTo(Asks(Tail(q)), i - 1) = UpTo(Asks(q), i) - Bit(q[1].do = "ask")
<1> DEFINE n == Len(q)
<1>1. Asks(q) \in SUBSET (1 .. n) /\ n \in Nat
  BY DEF Asks
<1>2. ASSUME NEW c \in Commands
      PROVE  /\ Cardinality(Asks(Append(q, c))) = Cardinality(Asks(q)) + Bit(c.do = "ask")
             /\ \A i \in 1 .. n : UpTo(Asks(Append(q, c)), i) = UpTo(Asks(q), i)
  <2> DEFINE p == Append(q, c)
  <2>1. Len(p) = n + 1 /\ p[n + 1] = c /\ \A i \in 1 .. n : p[i] = q[i]
    OBVIOUS
  <2> HIDE DEF p, n
  <2>2. Asks(p) \ {n + 1} = Asks(q) /\ (n + 1 \in Asks(p) <=> c.do = "ask")
    BY <1>1, <2>1 DEF Asks, n
  <2>3. /\ Cardinality(Asks(p)) = Cardinality(Asks(q)) + Bit(n + 1 \in Asks(p))
        /\ \A i \in 1 .. n : UpTo(Asks(p), i) = UpTo(Asks(q), i)
    BY <1>1, <2>2, Extended
  <2> QED
    BY <2>2, <2>3 DEF p, Bit
<1>3. ASSUME q # <<>>
      PROVE  /\ Cardinality(Asks(Tail(q))) = Cardinality(Asks(q)) - Bit(q[1].do = "ask")
             /\ \A i \in 1 .. n :
                  UpTo(Asks(Tail(q)), i - 1) = UpTo(Asks(q), i) - Bit(q[1].do = "ask")
  <2> DEFINE p == Tail(q)
  <2>1. Len(p) = n - 1 /\ 1 \in 1 .. n /\ \A i \in 1 .. n - 1 : p[i] = q[i + 1]
    BY <1>3
  <2> HIDE DEF p, n
  <2>2. Asks(p) = {i \in 1 .. n - 1 : i + 1 \in Asks(q)} /\ (1 \in Asks(q) <=> q[1].do = "ask")
    BY <1>1, <2>1 DEF Asks, n
  <2>3. Cardinality(Asks(p)) = Cardinality(Asks(q)) - Bit(1 \in Asks(q))
    BY <1>1, <2>2, Shifted
  <2>4. \A i \in 1 .. n : UpTo(Asks(p), i - 1) = UpTo(Asks(q), i) - Bit(1 \in Asks(q))
    <3> DEFINE S == Asks(q)
               T == Asks(p)
    <3>1. S \in SUBSET (1 .. n) /\ T = {i \in 1 .. n - 1 : i + 1 \in S} /\ n \in Nat
      BY <1>1, <2>2 DEF n
    <3> HIDE DEF S, T
    <3>2. \A i \in 1 .. n : UpTo(T, i - 1) = UpTo(S, i) - Bit(1 \in S)
      BY <3>1, ShiftedUpTo
    <3> QED
      BY <3>2 DEF S, T
  <2> QED
    BY <2>2, <2>3, <2>4 DEF p, Bit
<1> QED
  BY <1>1, <1>2, <1>3
-----------------------------------------------------------------------------
(* The questions of a start.                                               *)

Starts == {"enable", "scan"}

\* No step of the script enables the unpacker or starts a scan.
Still(s) == \A i \in 1 .. Len(s) : s[i].op \notin Starts

\* Before each step that does, n questions must have been answered.
Needs(s, n) == \A e \in 1 .. Len(s) : s[e].op \in Starts => n <= UpTo(Musts(s), e)

\* A scan is the last of them, and a detection skips no such question.
Shaped(s) ==
  /\ \A i, j \in 1 .. Len(s) : s[i].op = "scan" /\ i < j => s[j].op \notin Starts
  /\ \A i \in 1 .. Len(s) : s[i] \in Detections => i + 1 \notin Musts(s)

\* A part of a script that leads up to its first start.
Hurdles(s, n) == s \in Seq(DriverSteps) /\ Still(s) /\ n <= Cardinality(Musts(s))

LEMMA MustsKept ==
  ASSUME NEW s \in Seq(DriverSteps)
  PROVE  /\ Musts(s) \in SUBSET (1 .. Len(s)) /\ Len(s) \in Nat
         /\ IsFiniteSet(Musts(s)) /\ Cardinality(Musts(s)) \in Nat
         /\ \A i \in Nat : UpTo(Musts(s), i) \in Nat
         /\ s # <<>> => \A i \in 1 .. Len(s) :
              UpTo(Musts(Tail(s)), i - 1) = UpTo(Musts(s), i) - Bit(IsMust(s[1]))
<1> DEFINE n == Len(s)
<1>1. Musts(s) \in SUBSET (1 .. n) /\ n \in Nat
  BY DEF Musts
<1>2. ASSUME s # <<>>
      PROVE  \A i \in 1 .. n :
               UpTo(Musts(Tail(s)), i - 1) = UpTo(Musts(s), i) - Bit(IsMust(s[1]))
  <2> DEFINE p == Tail(s)
             S == Musts(s)
             T == Musts(p)
  <2>1. Len(p) = n - 1 /\ 1 \in 1 .. n /\ \A i \in 1 .. n - 1 : p[i] = s[i + 1]
    BY <1>2
  <2> HIDE DEF p, n
  <2>2. T = {i \in 1 .. n - 1 : i + 1 \in S} /\ (1 \in S <=> IsMust(s[1]))
    BY <1>1, <2>1 DEF Musts, n
  <2>3. S \in SUBSET (1 .. n)
    BY <1>1
  <2> HIDE DEF S, T
  <2>4. \A i \in 1 .. n : UpTo(T, i - 1) = UpTo(S, i) - Bit(1 \in S)
    BY <1>1, <2>2, <2>3, ShiftedUpTo
  <2> QED
    BY <2>2, <2>4 DEF p, Bit, S, T
<1> HIDE DEF n
<1>3. /\ IsFiniteSet(Musts(s)) /\ Cardinality(Musts(s)) \in Nat
      /\ \A i \in Nat : UpTo(Musts(s), i) \in Nat
  BY <1>1, Counts
<1> QED
  BY <1>1, <1>2, <1>3 DEF n

\* The first step is done.
LEMMA NeedsTail ==
  ASSUME NEW s \in Seq(DriverSteps), s # <<>>, NEW n \in Nat, Needs(s, n), Shaped(s)
  PROVE  /\ Tail(s) \in Seq(DriverSteps) /\ Shaped(Tail(s))
         /\ ~ IsMust(s[1]) => Needs(Tail(s), n)
         /\ n >= 1 => Needs(Tail(s), n - 1)
         /\ s[1].op \in Starts => n = 0
         /\ s[1].op = "scan" => Still(Tail(s))
         /\ s[1] \in Detections /\ Tail(s) # <<>> => ~ IsMust(Tail(s)[1])
<1> DEFINE p == Tail(s)
           m == Len(s)
<1>1. /\ p \in Seq(DriverSteps) /\ Len(p) = m - 1 /\ m \in Nat /\ m >= 1
      /\ \A i \in 1 .. m - 1 : p[i] = s[i + 1]
      /\ p # <<>> => m > 1
  OBVIOUS
<1> HIDE DEF p, m
<1>2. \A i \in 1 .. m - 1 : i + 1 \in 1 .. m /\ (i + 1) - 1 = i /\ i \in Nat
  BY <1>1
<1>3. \A i \in 1 .. m - 1 : UpTo(Musts(p), i) = UpTo(Musts(s), i + 1) - Bit(IsMust(s[1]))
  <2>1. \A k \in 1 .. m : UpTo(Musts(p), k - 1) = UpTo(Musts(s), k) - Bit(IsMust(s[1]))
    BY MustsKept DEF p, m
  <2> QED
    BY <1>2, <2>1
<1>4. \A i \in 1 .. m : UpTo(Musts(s), i) \in Nat
  <2>1. \A i \in 1 .. m : i \in Nat
    BY <1>1
  <2> QED
    BY <2>1, MustsKept
<1>5. \A i \in 1 .. m - 1 : p[i].op \in Starts => n <= UpTo(Musts(s), i + 1)
  BY <1>1, <1>2 DEF Needs, m
<1>6. ~ IsMust(s[1]) => Needs(p, n)
  BY <1>1, <1>2, <1>3, <1>4, <1>5 DEF Needs, Bit
<1>7. n >= 1 => Needs(p, n - 1)
  <2>1. \A i \in 1 .. m - 1 :
          UpTo(Musts(s), i + 1) \in Nat /\ UpTo(Musts(p), i) >= UpTo(Musts(s), i + 1) - 1
          /\ UpTo(Musts(p), i) \in Int
    BY <1>2, <1>3, <1>4 DEF Bit
  <2>2. \A i \in 1 .. m - 1 : p[i].op \in Starts => n - 1 <= UpTo(Musts(p), i)
    BY <1>5, <2>1
  <2> QED
    BY <1>1, <2>2 DEF Needs
<1>8. s[1].op \in Starts => n = 0
  <2> SUFFICES ASSUME s[1].op \in Starts PROVE n = 0
    OBVIOUS
  <2>1. n <= UpTo(Musts(s), 1)
    BY <1>1 DEF Needs, m
  <2>2. ~ IsMust(s[1])
    BY DEF IsMust, Starts
  <2>3. UpTo(Musts(s), 1) = 0
    <3>1. Musts(s) \in SUBSET (1 .. m) /\ 1 \notin Musts(s)
      BY <2>2 DEF Musts, m
    <3>2. UpTo(Musts(s), 1) = Bit(1 \in Musts(s))
      BY <1>1, <3>1, Counts
    <3> QED
      BY <3>1, <3>2 DEF Bit
  <2> QED
    BY <2>1, <2>3
<1>9. s[1].op = "scan" => Still(p)
  BY <1>1, <1>2 DEF Shaped, Still, m
<1>10. Shaped(p)
  <2>1. \A i, j \in 1 .. m - 1 : p[i].op = "scan" /\ i < j => p[j].op \notin Starts
    <3> SUFFICES ASSUME NEW i \in 1 .. m - 1, NEW j \in 1 .. m - 1, p[i].op = "scan", i < j
                 PROVE  p[j].op \notin Starts
      OBVIOUS
    <3>1. i + 1 \in 1 .. m /\ j + 1 \in 1 .. m /\ i + 1 < j + 1
      BY <1>1
    <3>2. s[i + 1].op = "scan" /\ s[j + 1] = p[j]
      BY <1>1
    <3> QED
      BY <3>1, <3>2 DEF Shaped, m
  <2>2. \A i \in 1 .. m - 1 : p[i] \in Detections => i + 1 \notin Musts(p)
    <3> SUFFICES ASSUME NEW i \in 1 .. m - 1, p[i] \in Detections, i + 1 \in Musts(p)
                 PROVE  FALSE
      OBVIOUS
    <3>1. i + 1 \in 1 .. m - 1 /\ IsMust(p[i + 1])
      BY <1>1 DEF Musts
    <3>2. i + 1 \in 1 .. m /\ (i + 1) + 1 \in 1 .. m /\ s[i + 1] = p[i] /\ s[(i + 1) + 1] = p[i + 1]
      BY <1>1, <1>2, <3>1
    <3>3. (i + 1) + 1 \in Musts(s)
      BY <3>1, <3>2 DEF Musts, m
    <3> QED
      BY <3>2, <3>3 DEF Shaped, m
  <2> QED
    BY <1>1, <2>1, <2>2 DEF Shaped
<1>11. ASSUME s[1] \in Detections, p # <<>> PROVE ~ IsMust(p[1])
  <2>1. 1 \in 1 .. m /\ 2 \in 1 .. m /\ p[1] = s[2]
    BY <1>1, <1>11
  <2>2. 1 + 1 \notin Musts(s)
    BY <1>11, <2>1 DEF Shaped, m
  <2> QED
    BY <2>1, <2>2 DEF Musts, m
<1> QED
  BY <1>1, <1>6, <1>7, <1>8, <1>9, <1>10, <1>11 DEF p

\* A script that starts nothing; and one that begins with hurdles.
LEMMA NeedsStill ==
  ASSUME NEW s \in Seq(PlainSteps), Still(s)
  PROVE  Shaped(s) /\ \A n \in Nat : Needs(s, n)
<1>1. \A i \in 1 .. Len(s) : s[i] \notin Detections
  BY DEF PlainSteps, Detections, Answers
<1> QED
  BY <1>1 DEF Still, Shaped, Needs, Starts

LEMMA Joined ==
  ASSUME NEW S, NEW s \in Seq(S), NEW t \in Seq(S)
  PROVE  /\ s \o t \in Seq(S) /\ Len(s \o t) = Len(s) + Len(t) /\ Len(s) \in Nat /\ Len(t) \in Nat
         /\ \A i \in 1 .. Len(s) : (s \o t)[i] = s[i]
         /\ \A i \in 1 .. Len(t) : (s \o t)[Len(s) + i] = t[i]
         /\ \A i \in 1 .. Len(s \o t) :
              i \in 1 .. Len(s) \/ \E j \in 1 .. Len(t) : i = Len(s) + j
<1>1. /\ s \o t \in Seq(S) /\ Len(s \o t) = Len(s) + Len(t) /\ Len(s) \in Nat /\ Len(t) \in Nat
      /\ \A i \in 1 .. Len(s) : (s \o t)[i] = s[i]
      /\ \A i \in 1 .. Len(t) : (s \o t)[Len(s) + i] = t[i]
  OBVIOUS
<1>2. ASSUME NEW i \in 1 .. Len(s \o t), i \notin 1 .. Len(s)
      PROVE  \E j \in 1 .. Len(t) : i = Len(s) + j
  <2>1. i - Len(s) \in 1 .. Len(t) /\ i = Len(s) + (i - Len(s))
    BY <1>1, <1>2
  <2> QED
    BY <2>1
<1> QED
  BY <1>1, <1>2

LEMMA HurdlesConcat ==
  ASSUME NEW a \in Nat, NEW b \in Nat, NEW s, NEW t, Hurdles(s, a), Hurdles(t, b)
  PROVE  Hurdles(s \o t, a + b)
<1> DEFINE p == s \o t
           m == Len(s)
           n == Len(t)
           f == [i \in Musts(t) |-> m + i]
           R == Musts(p) \ Musts(s)
<1>1. s \in Seq(DriverSteps) /\ t \in Seq(DriverSteps)
  BY DEF Hurdles
<1>2. /\ p \in Seq(DriverSteps) /\ Len(p) = m + n /\ m \in Nat /\ n \in Nat
      /\ \A i \in 1 .. m : p[i] = s[i]
      /\ \A i \in 1 .. n : p[m + i] = t[i]
      /\ \A i \in 1 .. Len(p) : i \in 1 .. m \/ \E j \in 1 .. n : i = m + j
  BY <1>1, Joined
<1>3. IsFiniteSet(Musts(p)) /\ Cardinality(Musts(p)) \in Nat
      /\ IsFiniteSet(Musts(s)) /\ Cardinality(Musts(s)) \in Nat
      /\ IsFiniteSet(Musts(t)) /\ Cardinality(Musts(t)) \in Nat
  BY <1>1, <1>2, MustsKept
<1> HIDE DEF p, m, n
<1>4. Musts(s) \subseteq Musts(p) /\ Musts(s) = Musts(p) \cap Musts(s)
  BY <1>2 DEF Musts, m
<1>5. f \in Bijection(Musts(t), R)
  <2>1. \A i \in Musts(t) : m + i \in R /\ i \in Int
    BY <1>2 DEF Musts, m, n
  <2>2. \A r \in R : \E i \in Musts(t) : r = m + i
    <3> SUFFICES ASSUME NEW r \in R PROVE \E i \in Musts(t) : r = m + i
      OBVIOUS
    <3>1. r \in 1 .. Len(p) /\ IsMust(p[r]) /\ r \notin Musts(s)
      BY DEF Musts
    <3>2. r \notin 1 .. m
      BY <1>2, <3>1 DEF Musts, m
    <3>3. PICK j \in 1 .. n : r = m + j
      BY <1>2, <3>1, <3>2
    <3>4. j \in Musts(t)
      BY <1>2, <3>1, <3>3 DEF Musts, n
    <3> QED
      BY <3>3, <3>4
  <2> HIDE DEF R
  <2>3. f \in [Musts(t) -> R]
    BY <2>1
  <2>4. \A i, j \in Musts(t) : f[i] = f[j] => i = j
    BY <1>2, <2>1
  <2>5. \A r \in R : \E i \in Musts(t) : f[i] = r
    BY <2>2
  <2> HIDE DEF f
  <2> QED
    BY <2>3, <2>4, <2>5, Fun_IsBij
<1> HIDE DEF f, R
<1>6. Cardinality(R) = Cardinality(Musts(t))
  <2>1. ExistsBijection(Musts(t), R)
    BY <1>5 DEF ExistsBijection
  <2> QED
    BY <1>3, <2>1, FS_Bijection
<1>7. Cardinality(R) = Cardinality(Musts(p)) - Cardinality(Musts(s))
  <2>1. Cardinality(Musts(p) \ Musts(s))
          = Cardinality(Musts(p)) - Cardinality(Musts(p) \cap Musts(s))
    BY <1>3, FS_Difference
  <2> QED
    BY <1>4, <2>1 DEF R
<1>8. a <= Cardinality(Musts(s)) /\ b <= Cardinality(Musts(t))
  BY DEF Hurdles
<1>9. Still(p)
  BY <1>2 DEF Hurdles, Still, m, n
<1>10. a + b <= Cardinality(Musts(p))
  BY <1>3, <1>6, <1>7, <1>8
<1> QED
  BY <1>2, <1>9, <1>10 DEF Hurdles, p

LEMMA HurdlesFirst ==
  ASSUME NEW a \in Nat, NEW s, Hurdles(s, a), NEW t \in Seq(DriverSteps)
  PROVE  Needs(s \o t, a)
<1> DEFINE p == s \o t
           m == Len(s)
           n == Len(t)
<1>1. s \in Seq(DriverSteps)
  BY DEF Hurdles
<1>2. /\ p \in Seq(DriverSteps) /\ Len(p) = m + n /\ m \in Nat /\ n \in Nat
      /\ \A i \in 1 .. m : p[i] = s[i]
      /\ \A i \in 1 .. n : p[m + i] = t[i]
      /\ \A i \in 1 .. Len(p) : i \in 1 .. m \/ \E j \in 1 .. n : i = m + j
  BY <1>1, Joined
<1>3. IsFiniteSet(Musts(p)) /\ Musts(p) \in SUBSET (1 .. Len(p))
  BY <1>2, MustsKept
<1> HIDE DEF p, m, n
<1>4. ASSUME NEW e \in 1 .. Len(p), p[e].op \in Starts PROVE a <= UpTo(Musts(p), e)
  <2>1. e \notin 1 .. m
    BY <1>2, <1>4 DEF Hurdles, Still, m
  <2>2. e \in Nat /\ m < e
    BY <1>2, <2>1
  <2>3. Musts(s) \in SUBSET (Musts(p) \cap 1 .. e)
    BY <1>2, <2>2 DEF Musts, m
  <2>4. IsFiniteSet(Musts(p) \cap 1 .. e)
    BY <1>3, FS_Subset
  <2>5. Cardinality(Musts(s)) <= Cardinality(Musts(p) \cap 1 .. e)
    BY <2>3, <2>4, FS_Subset
  <2>6. Cardinality(Musts(s)) \in Nat /\ Cardinality(Musts(p) \cap 1 .. e) \in Nat
    BY <1>1, <2>4, FS_CardinalityType, MustsKept
  <2> QED
    BY <2>5, <2>6 DEF Hurdles, UpTo
<1> QED
  BY <1>2, <1>4 DEF Needs, p

Opens(s) == s \in Seq(PlainSteps) /\ Shaped(s)

LEMMA ShapedConcat ==
  ASSUME NEW s, NEW t, Opens(s), Opens(t), Still(t) \/ \A i \in 1 .. Len(s) : s[i].op # "scan"
  PROVE  Opens(s \o t)
<1> DEFINE p == s \o t
           m == Len(s)
           n == Len(t)
<1>1. s \in Seq(PlainSteps) /\ t \in Seq(PlainSteps) /\ Shaped(s) /\ Shaped(t)
  BY DEF Opens
<1>2. /\ p \in Seq(PlainSteps) /\ Len(p) = m + n /\ m \in Nat /\ n \in Nat
      /\ \A i \in 1 .. m : p[i] = s[i]
      /\ \A i \in 1 .. n : p[m + i] = t[i]
      /\ \A i \in 1 .. Len(p) : i \in 1 .. m \/ \E j \in 1 .. n : i = m + j
  BY <1>1, Joined
<1> HIDE DEF p, m, n
<1>3. \A i \in 1 .. Len(p) : p[i] \notin Detections
  <2>1. \A i \in 1 .. Len(p) : p[i] \in PlainSteps
    BY <1>2
  <2>2. PlainSteps \cap Detections = {}
    BY DEF PlainSteps, Detections, Answers
  <2> QED
    BY <2>1, <2>2
<1>4. ASSUME NEW i \in 1 .. Len(p), NEW j \in 1 .. Len(p), p[i].op = "scan", i < j
      PROVE  p[j].op \notin Starts
  <2>1. CASE i \in 1 .. m /\ j \in 1 .. m
    <3>1. p[i] = s[i] /\ p[j] = s[j]
      BY <1>2, <2>1
    <3> QED
      BY <1>1, <1>4, <2>1, <3>1 DEF Shaped, m
  <2>2. CASE i \in 1 .. m /\ j \notin 1 .. m
    <3>1. PICK l \in 1 .. n : j = m + l
      BY <1>2, <2>2
    <3>2. p[i] = s[i] /\ p[j] = t[l]
      BY <1>2, <2>2, <3>1
    <3> QED
      BY <1>4, <2>2, <3>2 DEF Still, m, n
  <2>3. CASE i \notin 1 .. m
    <3>1. PICK k \in 1 .. n : i = m + k
      BY <1>2, <2>3
    <3>2. j \notin 1 .. m
      BY <1>2, <1>4, <3>1
    <3>3. PICK l \in 1 .. n : j = m + l
      BY <1>2, <3>2
    <3>4. k < l /\ p[i] = t[k] /\ p[j] = t[l]
      BY <1>2, <1>4, <3>1, <3>3
    <3> QED
      BY <1>1, <1>4, <3>4 DEF Shaped, n
  <2> QED
    BY <2>1, <2>2, <2>3
<1>5. Shaped(p)
  BY <1>3, <1>4 DEF Shaped
<1> QED
  BY <1>2, <1>5 DEF Opens, p

\* Steps that lead up to a start, with n questions that must be answered.
Leads(s, n) == s \in Seq(PlainSteps) /\ Hurdles(s, n)

LEMMA LeadsFacts ==
  /\ \A s : Leads(s, 0) => Opens(s) /\ Still(s) /\ \A n \in Nat : Needs(s, n)
  /\ \A s, t : \A a, b \in Nat : Leads(s, a) /\ Leads(t, b) => Leads(s \o t, a + b)
  /\ \A s : \A a, b \in Nat : Leads(s, a) /\ b <= a => Leads(s, b)
<1>1. ASSUME NEW s, Leads(s, 0) PROVE Opens(s) /\ Still(s) /\ \A n \in Nat : Needs(s, n)
  <2>1. s \in Seq(PlainSteps) /\ Still(s)
    BY <1>1 DEF Leads, Hurdles
  <2> QED
    BY <2>1, NeedsStill DEF Opens
<1>2. ASSUME NEW s, NEW t, NEW a \in Nat, NEW b \in Nat, Leads(s, a), Leads(t, b)
      PROVE  Leads(s \o t, a + b)
  <2>1. s \o t \in Seq(PlainSteps)
    BY <1>2 DEF Leads
  <2>2. Hurdles(s \o t, a + b)
    BY <1>2, HurdlesConcat DEF Leads
  <2> QED
    BY <2>1, <2>2 DEF Leads
<1>3. ASSUME NEW s, NEW a \in Nat, NEW b \in Nat, Leads(s, a), b <= a PROVE Leads(s, b)
  <2>1. s \in Seq(DriverSteps) /\ Cardinality(Musts(s)) \in Nat
    BY <1>3, MustsKept DEF Leads, Hurdles
  <2> QED
    BY <1>3, <2>1 DEF Leads, Hurdles
<1> QED
  BY <1>1, <1>2, <1>3

LEMMA LeadsSums ==
  \A s, t :
    /\ Leads(s, 0) /\ Leads(t, 0) => Leads(s \o t, 0)
    /\ Leads(s, 0) /\ Leads(t, 1) => Leads(s \o t, 1)
    /\ Leads(s, 1) /\ Leads(t, 0) => Leads(s \o t, 1)
    /\ Leads(s, 1) /\ Leads(t, 1) => Leads(s \o t, 2)
    /\ Leads(s, 0) /\ Leads(t, 2) => Leads(s \o t, 2)
    /\ Leads(s, 2) /\ Leads(t, 2) => Leads(s \o t, 4)
    /\ Leads(s, 2) => Leads(s, 1) /\ Leads(s, 0)
    /\ Leads(s, 4) => Leads(s, 0)
<1>1. /\ 0 \in Nat /\ 1 \in Nat /\ 2 \in Nat /\ 0 + 0 = 0 /\ 0 + 1 = 1 /\ 1 + 0 = 1 /\ 1 + 1 = 2
      /\ 0 + 2 = 2 /\ 2 + 2 = 4 /\ 1 <= 2 /\ 0 <= 2 /\ 0 <= 4 /\ 4 \in Nat
  OBVIOUS
<1>2. \A s, t : \A a, b \in Nat : Leads(s, a) /\ Leads(t, b) => Leads(s \o t, a + b)
  BY LeadsFacts
<1> QED
  BY <1>1, <1>2, LeadsFacts

LEMMA OneLeads ==
  ASSUME NEW e \in PlainSteps, e.op \notin Starts
  PROVE  Leads(<<e>>, 0) /\ (IsMust(e) => Leads(<<e>>, 1))
<1> DEFINE s == <<e>>
<1>1. s \in Seq(PlainSteps) /\ Len(s) = 1 /\ s[1] = e /\ s \in Seq(DriverSteps)
  BY DEF DriverSteps
<1> HIDE DEF s
<1>2. Still(s)
  BY <1>1 DEF Still
<1>3. Cardinality(Musts(s)) \in Nat
  BY <1>1, MustsKept
<1>4. ASSUME IsMust(e) PROVE Cardinality(Musts(s)) = 1
  <2>1. Musts(s) = {1}
    BY <1>1, <1>4 DEF Musts
  <2> QED
    BY <2>1, FS_Singleton
<1>5. 0 \in Nat /\ 1 \in Nat
  OBVIOUS
<1> QED
  BY <1>1, <1>2, <1>3, <1>4 DEF Leads, Hurdles, s

\* The steps of the scripts, one by one.
LEMMA OneStepLeads ==
  /\ \A t \in Questions : \A x \in {"ignore", "quit", "guess"} : Leads(Ask(t, x), 0)
  /\ \A t \in Questions : Leads(Ask(t, "fail"), 1)
  /\ \A o \in {"stop", "brake", "spin", "open", "disable", "join"} : Leads(Do(o), 0)
  /\ \A o \in {"motor", "scanning"}, v \in BOOLEAN : Leads(Set(o, v), 0)
  /\ Leads(<<>>, 0)
<1>1. ASSUME NEW t \in Questions, NEW x \in Answers
      PROVE  Leads(Ask(t, x), 0) /\ (x = "fail" => Leads(Ask(t, x), 1))
  <2> DEFINE e == [op |-> "ask", type |-> t, else |-> x]
  <2>1. e \in PlainSteps /\ e.op \notin Starts /\ (x = "fail" => IsMust(e))
    BY DEF PlainSteps, Starts, IsMust
  <2>2. Ask(t, x) = <<e>>
    BY DEF Ask
  <2> HIDE DEF e
  <2> QED
    BY <2>1, <2>2, OneLeads
<1>2. ASSUME NEW o \in {"stop", "brake", "spin", "open", "disable", "join"} PROVE Leads(Do(o), 0)
  <2> DEFINE e == [op |-> o]
  <2>1. e \in PlainSteps /\ e.op \notin Starts
    BY DEF PlainSteps, Starts
  <2>2. Do(o) = <<e>>
    BY DEF Do
  <2> HIDE DEF e
  <2> QED
    BY <2>1, <2>2, OneLeads
<1>3. ASSUME NEW o \in {"motor", "scanning"}, NEW v \in BOOLEAN PROVE Leads(Set(o, v), 0)
  <2> DEFINE e == [op |-> o, value |-> v]
  <2>1. e \in PlainSteps /\ e.op \notin Starts
    BY DEF PlainSteps, Starts
  <2>2. Set(o, v) = <<e>>
    BY DEF Set
  <2> HIDE DEF e
  <2> QED
    BY <2>1, <2>2, OneLeads
<1>4. Leads(<<>>, 0)
  <2>1. <<>> \in Seq(PlainSteps) /\ <<>> \in Seq(DriverSteps) /\ Len(<<>>) = 0
    OBVIOUS
  <2>2. Cardinality(Musts(<<>>)) \in Nat
    BY <2>1, MustsKept
  <2> QED
    BY <2>1, <2>2 DEF Leads, Hurdles, Still
<1> QED
  BY <1>1, <1>2, <1>3, <1>4 DEF Answers

\* The scripts that start nothing.
LEMMA StillScripts ==
  \A s \in {<<>>, NodeStop, Finish, Delete, NodeStop \o Delete} :
    Guarded(s) /\ Shaped(s) /\ \A n \in Nat : Needs(s, n)
<1>1. Leads(StopScan, 0) /\ Leads(Delete, 0)
  <2>1. Leads(Do("stop"), 0) /\ Leads(Do("brake"), 0) /\ Leads(Do("disable"), 0) /\ Leads(Do("join"), 0)
    BY OneStepLeads
  <2> QED
    BY <2>1, LeadsSums DEF StopScan, Delete
<1>2. Leads(NodeStop, 0) /\ Leads(Finish, 0)
  <2>1. Leads(Set("motor", FALSE), 0) /\ Leads(Set("scanning", FALSE), 0)
    BY OneStepLeads
  <2>2. Leads(StopScan \o Set("motor", FALSE), 0) /\ Leads(Set("motor", FALSE) \o StopScan, 0)
    BY <1>1, <2>1, LeadsSums
  <2> QED
    BY <1>1, <2>1, <2>2, LeadsSums DEF NodeStop, Finish
<1>3. Leads(NodeStop \o Delete, 0)
  BY <1>1, <1>2, LeadsSums
<1>4. Leads(<<>>, 0)
  BY OneStepLeads
<1>5. \A s : Leads(s, 0) => Guarded(s) /\ Shaped(s) /\ \A n \in Nat : Needs(s, n)
  BY LeadsFacts, PlainScript DEF Opens
<1> QED
  BY <1>1, <1>2, <1>3, <1>4, <1>5

LEMMA Reassociated ==
  ASSUME NEW S, NEW w \in Seq(S), NEW x \in Seq(S), NEW y \in Seq(S), NEW z \in Seq(S)
  PROVE  w \o (x \o (y \o z)) = ((w \o x) \o y) \o z
<1> DEFINE v == x \o y
<1>1. v \in Seq(S) /\ x \o (y \o z) = v \o z
  BY Concats, ConcatAssociative
<1> HIDE DEF v
<1>2. w \o (v \o z) = (w \o v) \o z
  BY <1>1, ConcatAssociative
<1>3. w \o v = (w \o x) \o y
  BY ConcatAssociative DEF v
<1> QED
  BY <1>1, <1>2, <1>3

\* A start asks at least four questions that must be answered, before it
\* enables the unpacker: two for the list of scan modes or the typical one, and
\* two in startScanExpress.
LEMMA StartLeads ==
  Guarded(StartScan) /\ Opens(StartScan) /\ Needs(StartScan, 4)
<1> DEFINE ask   == (StopScan \o SupportsConf) \o ScanModeFields
           begin == IF launch.mode = "Standard" THEN StartNormal ELSE Streaming
           modes == IF launch.mode = "" THEN (StopScan \o SupportsConf) \o TypicalScanMode
                    ELSE AllScanModes
           front == (StartMotor \o modes) \o ask
           last  == Set("scanning", TRUE)
<1>1. /\ Leads(DeviceInfo("fail"), 1) /\ Leads(LidarConf("fail"), 1) /\ Leads(Ask("rate", "fail"), 1)
      /\ Leads(LidarConf("ignore"), 0) /\ Leads(<<>>, 0) /\ Leads(last, 0)
      /\ Leads(Set("motor", TRUE), 0) /\ Leads(Do("stop"), 0) /\ Leads(Do("brake"), 0)
  BY OneStepLeads DEF DeviceInfo, LidarConf, Questions
<1>2. /\ Leads(StopScan, 0) /\ Leads(SupportsConf, 1) /\ Leads(StartMotor, 0)
      /\ Leads(NativeInterface, 0)
  <2>1. Leads(StopScan, 0) /\ Leads(StartMotor, 0)
    BY <1>1, LeadsSums DEF StopScan, StartMotor
  <2> QED
    BY <1>1, <2>1 DEF SupportsConf, NativeInterface
<1>3. Leads(ScanModeFields, 1)
  <2>1. Leads(LegacyDuration, 1)
    <3>1. Leads(LegacyDuration, 2)
      BY <1>1, LeadsSums DEF LegacyDuration
    <3> QED
      BY <3>1, LeadsSums
  <2> QED
    BY <1>1, <2>1 DEF ScanModeFields
<1>4. Leads(TypicalScanMode, 1)
  <2>1. CASE Legacy
    <3>1. TypicalScanMode = DeviceInfo("fail") \o <<>>
      BY <2>1 DEF TypicalScanMode, SupportsConf
    <3> QED
      BY <1>1, <3>1, LeadsSums
  <2>2. CASE ~ Legacy
    <3>1. TypicalScanMode = DeviceInfo("fail") \o LidarConf("fail")
      BY <2>2 DEF TypicalScanMode, SupportsConf
    <3>2. Leads(TypicalScanMode, 2)
      BY <1>1, <3>1, LeadsSums
    <3> QED
      BY <3>2, LeadsSums
  <2> QED
    BY <2>1, <2>2
<1>5. Leads(StopScan \o SupportsConf, 1)
  BY <1>2, LeadsSums
<1>6. Leads(ask, 2) /\ Leads(modes, 2)
  <2>1. Leads(AllScanModes, 2)
    BY <1>2, <1>3, LeadsSums DEF AllScanModes
  <2>2. Leads((StopScan \o SupportsConf) \o TypicalScanMode, 2)
    BY <1>4, <1>5, LeadsSums
  <2>3. Leads(ask, 2)
    BY <1>3, <1>5, LeadsSums
  <2> QED
    BY <2>1, <2>2, <2>3
<1>7. Opens(Streaming)
  <2> DEFINE s == NativeInterface \o StartMotor
             u == Do("enable")
             v == Do("scan")
  <2>1. Leads(s, 0)
    BY <1>2, LeadsSums
  <2>2. /\ u \in Seq(PlainSteps) /\ Len(u) = 1 /\ u[1].op = "enable"
        /\ v \in Seq(PlainSteps) /\ Len(v) = 1 /\ v[1].op = "scan"
    <3>1. u = <<[op |-> "enable"]>> /\ v = <<[op |-> "scan"]>>
      BY DEF Do
    <3>2. [op |-> "enable"] \in PlainSteps /\ [op |-> "scan"] \in PlainSteps
      BY DEF PlainSteps
    <3>3. \A e \in PlainSteps : <<e>> \in Seq(PlainSteps) /\ Len(<<e>>) = 1 /\ <<e>>[1] = e
      OBVIOUS
    <3> HIDE DEF u, v
    <3> QED
      BY <3>1, <3>2, <3>3
  <2>3. Streaming = (s \o u) \o v
    BY DEF Streaming
  <2> HIDE DEF s, u, v
  <2>4. Opens(u) /\ Opens(v)
    <3>1. \A w \in {u, v} : w[1] \notin Detections
      <4>1. u[1] \in PlainSteps /\ v[1] \in PlainSteps
        BY <2>2
      <4> QED
        BY <4>1 DEF PlainSteps, Detections, Answers
    <3>2. \A i, j \in 1 .. 1 : ~ (i < j)
      OBVIOUS
    <3>3. \A i \in 1 .. 1 : i = 1
      OBVIOUS
    <3> QED
      BY <2>2, <3>1, <3>2, <3>3 DEF Opens, Shaped
  <2>5. Opens(s) /\ Still(s)
    BY <2>1, LeadsFacts
  <2>6. Opens(s \o u) 
    BY <2>4, <2>5, ShapedConcat DEF Still, Starts
  <2>7. \A i \in 1 .. Len(s \o u) : (s \o u)[i].op # "scan"
    <3>1. s \in Seq(PlainSteps)
      BY <2>5 DEF Opens
    <3>2. /\ Len(s \o u) = Len(s) + Len(u) /\ Len(s) \in Nat
          /\ \A i \in 1 .. Len(s) : (s \o u)[i] = s[i]
          /\ \A i \in 1 .. Len(u) : (s \o u)[Len(s) + i] = u[i]
          /\ \A i \in 1 .. Len(s \o u) :
              i \in 1 .. Len(s) \/ \E j \in 1 .. Len(u) : i = Len(s) + j
      <4>1. \A x, y \in Seq(PlainSteps) :
              /\ Len(x \o y) = Len(x) + Len(y) /\ Len(x) \in Nat
              /\ \A i \in 1 .. Len(x) : (x \o y)[i] = x[i]
              /\ \A i \in 1 .. Len(y) : (x \o y)[Len(x) + i] = y[i]
              /\ \A i \in 1 .. Len(x \o y) :
                   i \in 1 .. Len(x) \/ \E j \in 1 .. Len(y) : i = Len(x) + j
        BY Joined
      <4> QED
        BY <2>2, <3>1, <4>1
    <3>3. \A j \in 1 .. Len(u) : u[j].op # "scan"
      BY <2>2
    <3> QED
      BY <2>5, <3>2, <3>3 DEF Still, Starts
  <2> QED
    BY <2>3, <2>4, <2>6, <2>7, ShapedConcat
<1> HIDE DEF last
<1>8. StartNormal = ask \o Streaming /\ StartExpress = ask \o begin
  BY DEF StartNormal, StartExpress
<1>9. Opens(begin)
  <2>1. Opens(ask) /\ Still(ask)
    <3>1. Leads(ask, 0)
      <4> HIDE DEF ask
      <4> QED
        BY <1>6, LeadsSums
    <3> HIDE DEF ask
    <3> QED
      BY <3>1, LeadsFacts
  <2>2. \A i \in 1 .. Len(ask) : ask[i].op # "scan"
    BY <2>1 DEF Still, Starts
  <2> HIDE DEF ask
  <2>3. Opens(ask \o Streaming)
    BY <1>7, <2>1, <2>2, ShapedConcat
  <2> QED
    BY <1>7, <1>8, <2>3
<1>10. Leads(front, 4)
  <2>1. Leads(StartMotor \o modes, 2)
    <3> HIDE DEF modes
    <3> QED
      BY <1>2, <1>6, LeadsSums
  <2> HIDE DEF modes, ask
  <2> QED
    BY <1>6, <2>1, LeadsSums
<1>11. SetScanMode = modes \o (ask \o begin)
  <2>1. CASE launch.mode = ""
    <3>1. SetScanMode = ((StopScan \o SupportsConf) \o TypicalScanMode) \o StartExpress
      BY <2>1 DEF SetScanMode, StartTypical
    <3>2. modes = (StopScan \o SupportsConf) \o TypicalScanMode
      BY <2>1
    <3> HIDE DEF modes
    <3> QED
      BY <1>8, <3>1, <3>2
  <2>2. CASE launch.mode # ""
    <3>1. SetScanMode = AllScanModes \o StartExpress /\ modes = AllScanModes
      BY <2>2 DEF SetScanMode
    <3> HIDE DEF modes
    <3> QED
      BY <1>8, <3>1
  <2> QED
    BY <2>1, <2>2
<1>12. StartScan = (StartMotor \o (modes \o (ask \o begin))) \o last
  BY <1>11 DEF StartScan, last
<1>13. /\ StartMotor \in Seq(PlainSteps) /\ modes \in Seq(PlainSteps) /\ ask \in Seq(PlainSteps)
       /\ begin \in Seq(PlainSteps) /\ last \in Seq(PlainSteps)
  BY <1>1, <1>2, <1>6, <1>9 DEF Leads, Opens
<1> HIDE DEF modes, ask, begin
<1>14. StartScan = front \o (begin \o last)
  <2>2. StartScan = (front \o begin) \o last
    <3>1. front = (StartMotor \o modes) \o ask
      OBVIOUS
    <3> HIDE DEF front
    <3>2. modes \in Seq(PlainSteps) 
      BY <1>13
    <3>3. StartMotor \in Seq(PlainSteps) /\ ask \in Seq(PlainSteps)
      BY <1>13
    <3>4. begin \in Seq(PlainSteps) 
      BY <1>13
    <3>5. StartMotor \o (modes \o (ask \o begin)) = ((StartMotor \o modes) \o ask) \o begin
      BY <3>2, <3>3, <3>4, Reassociated
    <3>6. StartMotor \o (modes \o (ask \o begin)) = front \o begin
      BY <3>1, <3>5
    <3> HIDE DEF front
    <3> QED
      BY <1>12, <3>6
  <2>3. front \in Seq(PlainSteps)
    BY <1>10 DEF Leads
  <2> HIDE DEF front
  <2> QED
    BY <1>13, <2>2, <2>3, ConcatAssociative
<1> HIDE DEF front
<1>15. Opens(begin \o last) /\ Opens(last) /\ Still(last)
  <2>1. Opens(last) /\ Still(last)
    BY <1>1, LeadsFacts
  <2> QED
    BY <1>9, <2>1, ShapedConcat
<1>16. Needs(StartScan, 4)
  <2>1. begin \o last \in Seq(DriverSteps)
    BY <1>15 DEF Opens, DriverSteps
  <2>2. Hurdles(front, 4)
    BY <1>10 DEF Leads
  <2> QED
    BY <1>14, <2>1, <2>2, HurdlesFirst
<1>17. Opens(StartScan)
  <2>1. Opens(front) /\ Still(front)
    <3>1. Leads(front, 0)
      BY <1>10, LeadsSums
    <3> QED
      BY <3>1, LeadsFacts
  <2>2. \A i \in 1 .. Len(front) : front[i].op # "scan"
    BY <2>1 DEF Still, Starts
  <2> QED
    BY <1>14, <1>15, <2>1, <2>2, ShapedConcat
<1> QED
  BY <1>16, <1>17, PlainScript DEF Opens

\* The startup: its first questions may fail, and none of them is a start's.
Begins(s) ==
  s \in Seq(DriverSteps) /\ \A i \in 1 .. Len(s) : s[i].op \notin Starts /\ ~ IsMust(s[i])

LEMMA BeginsConcat ==
  ASSUME NEW s, NEW t, Begins(s), Begins(t)
  PROVE  Begins(s \o t)
<1> DEFINE p == s \o t
           m == Len(s)
           n == Len(t)
<1>1. s \in Seq(DriverSteps) /\ t \in Seq(DriverSteps)
  BY DEF Begins
<1>2. /\ p \in Seq(DriverSteps) /\ Len(p) = m + n /\ m \in Nat /\ n \in Nat
      /\ \A i \in 1 .. m : p[i] = s[i]
      /\ \A i \in 1 .. n : p[m + i] = t[i]
      /\ \A i \in 1 .. Len(p) : i \in 1 .. m \/ \E j \in 1 .. n : i = m + j
  BY <1>1, Joined
<1> HIDE DEF p, m, n
<1>3. ASSUME NEW i \in 1 .. Len(p) PROVE p[i].op \notin Starts /\ ~ IsMust(p[i])
  <2>1. CASE i \in 1 .. m
    BY <1>2, <2>1 DEF Begins, m
  <2>2. CASE \E j \in 1 .. n : i = m + j
    BY <1>2, <2>2 DEF Begins, n
  <2> QED
    BY <1>2, <2>1, <2>2
<1> QED
  BY <1>2, <1>3 DEF Begins, p

LEMMA ShapedAfter ==
  ASSUME NEW s, NEW t, Begins(s), Opens(t),
         \A i \in 1 .. Len(s) : s[i] \in Detections => i < Len(s)
  PROVE  Shaped(s \o t)
<1> DEFINE p == s \o t
           m == Len(s)
           n == Len(t)
<1>1. s \in Seq(DriverSteps) /\ t \in Seq(DriverSteps) /\ t \in Seq(PlainSteps) /\ Shaped(t)
  BY DEF Begins, Opens, DriverSteps
<1>2. /\ p \in Seq(DriverSteps) /\ Len(p) = m + n /\ m \in Nat /\ n \in Nat
      /\ \A i \in 1 .. m : p[i] = s[i]
      /\ \A i \in 1 .. n : p[m + i] = t[i]
      /\ \A i \in 1 .. Len(p) : i \in 1 .. m \/ \E j \in 1 .. n : i = m + j
  BY <1>1, Joined
<1>3. \A i \in 1 .. n : t[i] \notin Detections
  BY <1>1 DEF PlainSteps, Detections, Answers
<1> HIDE DEF p, m, n
<1>4. \A i \in 1 .. m : p[i].op \notin Starts /\ ~ IsMust(p[i]) /\ (p[i] \in Detections => i < m)
  BY <1>2 DEF Begins, m
<1>5. ASSUME NEW i \in 1 .. Len(p), NEW j \in 1 .. Len(p), p[i].op = "scan", i < j
      PROVE  p[j].op \notin Starts
  <2>1. i \notin 1 .. m
    BY <1>4, <1>5 DEF Starts
  <2>2. PICK k \in 1 .. n : i = m + k
    BY <1>2, <2>1
  <2>3. j \notin 1 .. m
    BY <1>2, <1>5, <2>2
  <2>4. PICK l \in 1 .. n : j = m + l
    BY <1>2, <2>3
  <2>5. k < l /\ p[i] = t[k] /\ p[j] = t[l]
    BY <1>2, <1>5, <2>2, <2>4
  <2> QED
    BY <1>1, <1>5, <2>5 DEF Shaped, n
<1>6. ASSUME NEW i \in 1 .. Len(p), p[i] \in Detections, i + 1 \in Musts(p) PROVE FALSE
  <2>1. i + 1 \in 1 .. Len(p) /\ IsMust(p[i + 1])
    BY <1>6 DEF Musts
  <2>2. CASE i \in 1 .. m
    <3>1. i + 1 \in 1 .. m
      BY <1>2, <1>4, <1>6, <2>2
    <3> QED
      BY <1>4, <2>1, <3>1
  <2>3. CASE i \notin 1 .. m
    <3>1. PICK k \in 1 .. n : i = m + k
      BY <1>2, <2>3
    <3> QED
      BY <1>2, <1>3, <1>6, <3>1
  <2> QED
    BY <2>2, <2>3
<1> QED
  BY <1>5, <1>6 DEF Shaped, p

LEMMA StartupShaped == Shaped(Startup)
<1> DEFINE motor == IF launch.kind = "pwm" THEN Ask("acc", "ignore") ELSE <<>>
           start == IF launch.auto THEN <<>> ELSE StartScan
           spin  == Do("spin")
           a == Do("open") \o (DeviceInfo("detect") \o motor)
           b == a \o DeviceInfo("quit")
           c == b \o Health
           d == c \o DeviceInfo("guess")
           e == d \o spin
<1>1. \A x \in DriverSteps : <<x>> \in Seq(DriverSteps) /\ Len(<<x>>) = 1 /\ <<x>>[1] = x
  OBVIOUS
<1>2. \A x \in DriverSteps : x.op \notin Starts /\ ~ IsMust(x) => Begins(<<x>>)
  <2>1. \A i \in 1 .. 1 : i = 1
    OBVIOUS
  <2> QED
    BY <1>1, <2>1 DEF Begins
<1>3. \A t \in Questions : \A x \in {"detect", "quit", "guess", "ignore"} : Begins(Ask(t, x))
  <2> TAKE t \in Questions, x \in {"detect", "quit", "guess", "ignore"}
  <2> DEFINE y == [op |-> "ask", type |-> t, else |-> x]
  <2>1. y \in DriverSteps /\ y.op \notin Starts /\ ~ IsMust(y)
    BY DEF DriverSteps, PlainSteps, Detections, Answers, Starts, IsMust
  <2>2. Ask(t, x) = <<y>>
    BY DEF Ask
  <2> HIDE DEF y
  <2> QED
    BY <1>2, <2>1, <2>2
<1>4. Begins(Do("open")) /\ Begins(spin) /\ Len(spin) = 1 /\ spin[1] = [op |-> "spin"]
  <2> DEFINE y == [op |-> "open"]
             z == [op |-> "spin"]
  <2>1. /\ y \in DriverSteps /\ y.op \notin Starts /\ ~ IsMust(y)
        /\ z \in DriverSteps /\ z.op \notin Starts /\ ~ IsMust(z)
    BY DEF DriverSteps, PlainSteps, Starts, IsMust
  <2>2. Do("open") = <<y>> /\ spin = <<z>>
    BY DEF Do
  <2>3. z = [op |-> "spin"]
    OBVIOUS
  <2> HIDE DEF y, z
  <2> QED
    BY <1>1, <1>2, <2>1, <2>2, <2>3
<1>5. Begins(motor)
  <2>1. Begins(<<>>)
    BY DEF Begins
  <2> QED
    BY <1>3, <2>1 DEF Questions
<1>6. /\ Begins(DeviceInfo("detect")) /\ Begins(DeviceInfo("quit")) /\ Begins(Health)
      /\ Begins(DeviceInfo("guess"))
  BY <1>3 DEF DeviceInfo, Health, Questions
<1>7. Startup = e \o start
  BY DEF Startup, MotorControl
<1> HIDE DEF motor, start, spin
<1>8. Begins(a)
  <2>1. Begins(DeviceInfo("detect") \o motor)
    BY <1>5, <1>6, BeginsConcat
  <2> QED
    BY <1>4, <2>1, BeginsConcat
<1> HIDE DEF a
<1>9. Begins(b)
  BY <1>6, <1>8, BeginsConcat
<1> HIDE DEF b
<1>10. Begins(c)
  BY <1>6, <1>9, BeginsConcat
<1> HIDE DEF c
<1>11. Begins(d)
  BY <1>6, <1>10, BeginsConcat
<1> HIDE DEF d
<1>12. Begins(e)
  BY <1>4, <1>11, BeginsConcat
<1>13. \A i \in 1 .. Len(e) : e[i] \in Detections => i < Len(e)
  <2>1. d \in Seq(DriverSteps) /\ spin \in Seq(DriverSteps)
    BY <1>4, <1>11 DEF Begins
  <2>2. Len(e) = Len(d) + 1 /\ Len(d) \in Nat /\ e[Len(d) + 1] = spin[1]
    <3>1. \A x, y \in Seq(DriverSteps) :
            /\ Len(x \o y) = Len(x) + Len(y) /\ Len(x) \in Nat
            /\ \A i \in 1 .. Len(y) : (x \o y)[Len(x) + i] = y[i]
      BY Joined
    <3> HIDE DEF e
    <3>2. Len(d \o spin) = Len(d) + 1 /\ Len(d) \in Nat
      BY <1>4, <2>1, <3>1
    <3>3. 1 \in 1 .. Len(spin)
      BY <1>4
    <3>4. (d \o spin)[Len(d) + 1] = spin[1]
      BY <2>1, <3>1, <3>3
    <3> QED
      BY <3>2, <3>4 DEF e
  <2> HIDE DEF e
  <2>3. spin[1] \notin Detections
    BY <1>4 DEF Detections
  <2> QED
    BY <2>2, <2>3
<1> HIDE DEF e
<1>14. Opens(start)
  BY StartLeads, OneStepLeads, LeadsFacts DEF start
<1> QED
  BY <1>7, <1>12, <1>13, <1>14, ShapedAfter
-----------------------------------------------------------------------------
(* What the steps of the node's thread may do to the stream.               *)

\* They reset the codec and give up an answer, and send a command at most.
Mild ==
  /\ rx' = rx /\ codec' \in {codec, Hunt} /\ waiter' \in {waiter, FALSE} /\ late' \in {late, late + 1}
  /\ \/ dec' = dec
     \/ dec.pc = "copying" /\ dec' = [dec EXCEPT !.msg.torn = TRUE]
     \/ dec = Idle /\ dec' = [pc |-> "joined"]
  /\ answer' = answer /\ device'.scan = device.scan
  /\ cmds' = cmds \/ \E c \in Commands : cmds' = Append(cmds, c)

Ours == Steps \/ Loop \/ Service \/ Surroundings \/ UNCHANGED vars

\* The commands that are no question and start no scan.
Plain == {c \in Commands : c.do \notin {"ask", "scan"}}

LEMMA MotorSends ==
  ASSUME DriverTyped, NEW on \in BOOLEAN, SetMotorSpeed(on)
  PROVE  /\ waiter' \in {waiter, FALSE} /\ answer' = answer /\ device'.scan = device.scan
         /\ armed' = armed /\ (cmds' = cmds \/ \E c \in Plain : cmds' = Append(cmds, c))
<1>1. CASE support # "none"
  <2> DEFINE c == [do |-> support, on |-> on]
  <2>1. c \in Plain
    BY <1>1 DEF Commands, DriverTyped, Plain
  <2>2. cmds' = cmds \/ cmds' = Append(cmds, c)
    BY <1>1 DEF SetMotorSpeed, Command, Send
  <2> HIDE DEF c
  <2> QED
    BY <1>1, <2>1, <2>2 DEF SetMotorSpeed, Command
<1>2. CASE support = "none"
  <2>1. device' = device \/ device' = [device EXCEPT !.motor = on]
    BY <1>2 DEF SetMotorSpeed, Dtr
  <2>2. device'.scan = device.scan
    BY <2>1 DEF DriverTyped
  <2> QED
    BY <1>2, <2>2 DEF SetMotorSpeed, reply
<1> QED
  BY <1>1, <1>2

\* One by one: what is sent, when a scan starts, a question is asked, an answer
\* is taken or given up.
LEMMA MildSteps ==
  ASSUME DriverTyped, StreamTyped, Ours
  PROVE  /\ Mild
         /\ Scan \/ session' = session
         /\ \/ cmds' = cmds
            \/ \E c \in Plain : cmds' = Append(cmds, c)
            \/ Request /\ cmds' = Append(cmds, [do |-> "ask", type |-> Head(todo).type])
            \/ Scan /\ cmds' = Append(cmds, [do |-> "scan", session |-> session'])
         /\ Timeout \/ late' = late
         /\ Request \/ armed' = armed
         /\ Take \/ taken' = taken
         /\ Take \/ Timeout \/ Request \/ waiter' = FALSE \/ waiter' = waiter
<1> USE DEF fixed, node, flags, stream, reply, data, world
<1>0. [do |-> "stop"] \in Plain
  BY DEF Commands, Plain
<1>1. CASE Stop
  <2>1. dec' = dec \/ (dec.pc = "copying" /\ dec' = [dec EXCEPT !.msg.torn = TRUE])
    BY <1>1 DEF Stop, DisableDataGrabbing
  <2>2. codec' = Hunt
    BY <1>1 DEF Stop, DisableDataGrabbing
  <2>3. cmds' = cmds \/ cmds' = Append(cmds, [do |-> "stop"])
    BY <1>1 DEF Stop, Command, Send
  <2>4. cmds' = cmds \/ \E c \in Plain : cmds' = Append(cmds, c)
    BY <1>0, <2>3
  <2> QED
    BY <1>1, <2>1, <2>2, <2>4 DEF Stop, Command, Mild, Plain
<1>2. CASE Scan
  <2>1. [do |-> "scan", session |-> session + 1] \in Commands
    BY DEF Commands, DriverTyped
  <2>2. cmds' = cmds \/ cmds' = Append(cmds, [do |-> "scan", session |-> session'])
    BY <1>2 DEF Scan, Command, Send
  <2>3. session' = session + 1
    BY <1>2 DEF Scan
  <2> QED
    BY <1>2, <2>1, <2>2, <2>3 DEF Scan, Command, Mild
<1>3. CASE Motor
  <2>1. Running("motor") => Head(todo).value \in BOOLEAN
    BY HeadTail DEF Running, DriverSteps, PlainSteps, Detections, DriverTyped
  <2>2. NoMotor \/ \E on \in BOOLEAN : SetMotorSpeed(on)
    BY <1>3, <2>1 DEF Motor
  <2>3. /\ waiter' \in {waiter, FALSE} /\ answer' = answer /\ device'.scan = device.scan
        /\ armed' = armed /\ (cmds' = cmds \/ \E c \in Plain : cmds' = Append(cmds, c))
    BY <2>2, MotorSends DEF NoMotor
  <2> QED
    BY <1>3, <2>3 DEF Motor, Mild, Plain
<1>4. CASE Grab
  <2>1. NoMotor \/ SetMotorSpeed(TRUE)
    BY <1>4 DEF Grab
  <2>2. /\ waiter' \in {waiter, FALSE} /\ answer' = answer /\ device'.scan = device.scan
        /\ armed' = armed /\ (cmds' = cmds \/ \E c \in Plain : cmds' = Append(cmds, c))
    BY <2>1, MotorSends DEF NoMotor
  <2> QED
    BY <1>4, <2>2 DEF Grab, Mild, Plain
<1>5. CASE Open
  <2>1. device' = device \/ device' = [device EXCEPT !.motor = TRUE]
    BY <1>5 DEF Open, Dtr
  <2>2. device'.scan = device.scan
    BY <2>1 DEF DriverTyped
  <2> QED
    BY <1>5, <2>2 DEF Open, Mild
<1>6. CASE Request
  <2>1. dec' = dec \/ (dec.pc = "copying" /\ dec' = [dec EXCEPT !.msg.torn = TRUE])
    BY <1>6 DEF Request, DisableDataGrabbing
  <2>2. codec' = Hunt
    BY <1>6 DEF Request, DisableDataGrabbing
  <2>3. cmds' = cmds \/ cmds' = Append(cmds, [do |-> "ask", type |-> Head(todo).type])
    BY <1>6 DEF Request, Send
  <2>4. [do |-> "ask", type |-> Head(todo).type] \in Commands
    <3>1. Head(todo) \in DriverSteps /\ Head(todo).op = "ask"
      BY <1>6, HeadTail DEF Request, Running, DriverTyped
    <3>2. Head(todo).type \in Questions
      BY <3>1 DEF DriverSteps, PlainSteps, Detections
    <3> QED
      BY <3>2 DEF Commands
  <2> QED
    BY <1>6, <2>1, <2>2, <2>3, <2>4 DEF Request, Arm, Mild
<1>7. CASE Disable
  <2>1. dec' = dec \/ (dec.pc = "copying" /\ dec' = [dec EXCEPT !.msg.torn = TRUE])
    BY <1>7 DEF Disable, DisableDataGrabbing
  <2> QED
    BY <1>7, <2>1 DEF Disable, DisableDataGrabbing, Mild
<1>8. CASE Take
  BY <1>8 DEF Take, Mild
<1>9. CASE Timeout
  BY <1>9 DEF Timeout, Mild
<1>10. CASE Enable \/ SetScanning \/ Join
  BY <1>10 DEF Enable, SetScanning, Join, Mild
<1>11. CASE Standby \/ Service \/ Quit \/ Surroundings
  BY <1>11 DEF Standby, Service, Quit, Surroundings, Begin, Mild
<1>12. CASE UNCHANGED vars
  BY <1>12 DEF vars, Mild
<1> QED
  BY <1>1, <1>2, <1>3, <1>4, <1>5, <1>6, <1>7, <1>8, <1>9, <1>10, <1>11, <1>12
  DEF Ours, Steps, Loop

LEMMA MildFacts ==
  ASSUME StreamTyped, Mild
  PROVE  /\ StreamTyped'
         /\ AnswerHeld' <=> AnswerHeld
         /\ ScanHeld' <=> ScanHeld
         /\ ScanHeld => dec'.msg.session = dec.msg.session
         /\ IsAnswer(codec'.type) => IsAnswer(codec.type)
         /\ codec'.type = "scan" => codec.type = "scan"
<1> DEFINE D == [pc : {"copying", "storing", "unpacking"}, msg : Messages]
<1>1. /\ dec' \in {Idle, [pc |-> "joined"]} \cup D
      /\ dec'.pc = dec.pc \/ (dec.pc = "idle" /\ dec'.pc = "joined")
      /\ dec.pc \in {"copying", "storing", "unpacking"} =>
           dec'.msg.type = dec.msg.type /\ dec'.msg.session = dec.msg.session
  <2>1. CASE dec' = dec
    BY <2>1 DEF StreamTyped
  <2>2. CASE dec.pc = "copying" /\ dec' = [dec EXCEPT !.msg.torn = TRUE]
    <3>1. dec \in D
      BY <2>2 DEF StreamTyped, Idle
    <3>2. dec.msg \in Messages
      BY <3>1
    <3>3. [dec.msg EXCEPT !.torn = TRUE] \in Messages
      BY <3>2 DEF Messages
    <3>4. dec' = [dec EXCEPT !.msg = [dec.msg EXCEPT !.torn = TRUE]]
      BY <2>2
    <3>5. dec' \in D /\ dec'.pc = dec.pc /\ dec'.msg = [dec.msg EXCEPT !.torn = TRUE]
      BY <3>1, <3>3, <3>4
    <3>6. dec'.msg.type = dec.msg.type /\ dec'.msg.session = dec.msg.session
      BY <3>2, <3>5 DEF Messages
    <3> QED
      BY <3>5, <3>6
  <2>3. CASE dec = Idle /\ dec' = [pc |-> "joined"]
    BY <2>3 DEF Idle
  <2> QED
    BY <2>1, <2>2, <2>3 DEF Mild
<1>2. codec' = codec \/ codec' = Hunt
  BY DEF Mild
<1>3. rx' \in Seq(LineTokens) /\ late' \in Nat /\ waiter' \in BOOLEAN
  <2>1. rx' \in Seq(LineTokens)
    BY DEF Mild, StreamTyped
  <2>2. late' \in Nat
    BY DEF Mild, StreamTyped
  <2>3. waiter' \in BOOLEAN
    BY DEF Mild, StreamTyped
  <2> QED
    BY <2>1, <2>2, <2>3
<1>9. codec' \in [type : TokenTypes \cup {"hunt", "adrift"}]
  <2>1. codec \in [type : TokenTypes \cup {"hunt", "adrift"}]
    BY DEF StreamTyped
  <2>2. Hunt \in [type : TokenTypes \cup {"hunt", "adrift"}]
    BY DEF Hunt
  <2> QED
    BY <1>2, <2>1, <2>2
<1>4. dec'.pc = "storing" => IsAnswer(dec'.msg.type)
  BY <1>1 DEF StreamTyped
<1>5. dec'.pc = "unpacking" => dec'.msg.type = "scan"
  BY <1>1 DEF StreamTyped
<1>6. StreamTyped'
  BY <1>1, <1>3, <1>4, <1>5, <1>9 DEF StreamTyped
<1>7. AnswerHeld' <=> AnswerHeld
  BY <1>1 DEF AnswerHeld
<1>8. /\ ScanHeld' <=> ScanHeld
      /\ ScanHeld => dec'.msg.session = dec.msg.session
  BY <1>1 DEF ScanHeld
<1> QED
  BY <1>2, <1>6, <1>7, <1>8 DEF Hunt, IsAnswer, Questions
-----------------------------------------------------------------------------
(* What the device sends.                                                  *)

\* The tokens h and b arrive, or one of them, or none.
Arrives(q, p, h, b) == p \in {q, Append(q, h), Append(q, b), Append(Append(q, h), b)}

LEMMA AppendFacts ==
  \A S : \A q \in Seq(S), t \in S :
    /\ Append(q, t) \in Seq(S) /\ Len(Append(q, t)) = Len(q) + 1 /\ Len(q) \in Nat
    /\ Append(q, t)[Len(q) + 1] = t
    /\ \A i \in 1 .. Len(q) : Append(q, t)[i] = q[i]
  OBVIOUS

LEMMA ReplyArrives ==
  ASSUME DriverTyped, StreamTyped, NEW type \in TokenTypes, NEW s \in Nat, Reply(Tokens(type, s))
  PROVE  /\ Tokens(type, s)[1] \in LineTokens /\ Tokens(type, s)[2] \in LineTokens
         /\ Arrives(rx, rx', Tokens(type, s)[1], Tokens(type, s)[2])
         /\ faults' = faults \/ (faults < MaxFaults /\ faults' = faults + 1)
         /\ faults' = faults => rx' = Append(Append(rx, Tokens(type, s)[1]), Tokens(type, s)[2])
<1> DEFINE h == [part |-> "head", type |-> type, session |-> s]
           b == [part |-> "body", type |-> type, session |-> s]
<1>1. h \in LineTokens /\ b \in LineTokens /\ rx \in Seq(LineTokens)
  BY DEF LineTokens, StreamTyped
<1>2. Tokens(type, s) = <<h, b>>
  BY DEF Tokens
<1> HIDE DEF h, b
<1>3. rx \o <<h, b>> = Append(Append(rx, h), b)
  <2> DEFINE x == rx \o <<h, b>>
             y == Append(Append(rx, h), b)
             n == Len(rx)
  <2>1. Append(rx, h) \in Seq(LineTokens) /\ <<h, b>> \in Seq(LineTokens) /\ Len(<<h, b>>) = 2
    BY <1>1
  <2>2. /\ y \in Seq(LineTokens) /\ Len(y) = n + 2 /\ y[n + 1] = h /\ y[n + 2] = b
        /\ \A i \in 1 .. n : y[i] = rx[i]
    BY <1>1, <2>1
  <2>3. /\ x \in Seq(LineTokens) /\ Len(x) = n + 2 /\ x[n + 1] = h /\ x[n + 2] = b
        /\ \A i \in 1 .. n : x[i] = rx[i]
    BY <1>1, <2>1
  <2>4. n \in Nat
    BY <1>1
  <2> HIDE DEF x, y, n
  <2>5. \A i \in 1 .. n + 2 : i \in 1 .. n \/ i = n + 1 \/ i = n + 2
    BY <2>4
  <2>6. \A i \in 1 .. n + 2 : x[i] = y[i]
    BY <2>2, <2>3, <2>5
  <2>7. x = y
    BY <2>2, <2>3, <2>6, SeqEqual
  <2> QED
    BY <2>7 DEF x, y
<1>4. <<h, b>>[1] = h /\ <<h, b>>[2] = b
  OBVIOUS
<1>5. \/ rx' = Append(Append(rx, h), b) /\ faults' = faults
      \/ /\ faults < MaxFaults /\ faults' = faults + 1
         /\ rx' \in {rx, Append(rx, h), Append(rx, b)}
  BY <1>2, <1>3, <1>4 DEF Reply
<1> QED
  <2>1. Arrives(rx, rx', h, b)
    BY <1>5 DEF Arrives
  <2>2. faults' = faults \/ (faults < MaxFaults /\ faults' = faults + 1)
    BY <1>5
  <2>3. faults' = faults => rx' = Append(Append(rx, h), b)
    BY <1>5 DEF DriverTyped
  <2> QED
    BY <1>1, <1>2, <1>4, <2>1, <2>2, <2>3

LEMMA ArrivesKeeps ==
  ASSUME NEW q \in Seq(LineTokens), NEW p, NEW h \in LineTokens, NEW b \in LineTokens,
         Arrives(q, p, h, b), b.part = "body"
  PROVE  /\ p \in Seq(LineTokens) /\ Len(p) \in Nat /\ Len(q) \in Nat /\ Len(q) <= Len(p)
         /\ \A i \in 1 .. Len(q) : p[i] = q[i] /\ UpTo(Heads(p), i) = UpTo(Heads(q), i)
         /\ \A i \in 1 .. Len(p) : i \in 1 .. Len(q) \/ p[i] \in {h, b}
         /\ Cardinality(Heads(p)) <= Cardinality(Heads(q)) + Bit(IsHead(h))
         /\ \A i \in 1 .. Len(p) : UpTo(Heads(p), i) <= Cardinality(Heads(p))
         /\ \A i \in 1 .. Len(p) : UpTo(Heads(p), i) \in Nat
         /\ Cardinality(Heads(p)) \in Nat /\ Cardinality(Heads(q)) \in Nat
<1> DEFINE a == Append(q, h)
           c == Append(q, b)
           d == Append(a, b)
           Keeps(x) ==
             /\ x \in Seq(LineTokens) /\ Len(x) \in Nat /\ Len(q) \in Nat /\ Len(q) <= Len(x)
             /\ \A i \in 1 .. Len(q) : x[i] = q[i] /\ UpTo(Heads(x), i) = UpTo(Heads(q), i)
             /\ \A i \in 1 .. Len(x) : i \in 1 .. Len(q) \/ x[i] \in {h, b}
           Few(x) == Cardinality(Heads(x)) <= Cardinality(Heads(q)) + Bit(IsHead(h))
<1>1. \A x \in Seq(LineTokens) :
        /\ Heads(x) \in SUBSET (1 .. Len(x)) /\ Len(x) \in Nat
        /\ \A t \in LineTokens :
             /\ Cardinality(Heads(Append(x, t))) = Cardinality(Heads(x)) + Bit(IsHead(t))
             /\ \A i \in 1 .. Len(x) : UpTo(Heads(Append(x, t)), i) = UpTo(Heads(x), i)
  BY HeadsKept
<1>2. \A x \in Seq(LineTokens) : Cardinality(Heads(x)) \in Nat /\
        \A i \in 1 .. Len(x) : UpTo(Heads(x), i) \in Nat /\ UpTo(Heads(x), i) <= Cardinality(Heads(x))
  <2> TAKE x \in Seq(LineTokens)
  <2>1. Heads(x) \in SUBSET (1 .. Len(x)) /\ Len(x) \in Nat
    BY <1>1
  <2> QED
    BY <2>1, Counts
<1>3. Bit(IsHead(b)) = 0 /\ Bit(IsHead(h)) \in {0, 1}
  BY DEF IsHead, Bit
<1>4. Keeps(q) /\ Few(q)
  <2>1. Keeps(q)
    BY <1>1
  <2> QED
    BY <1>2, <1>3, <2>1
<1>5. ASSUME NEW x \in Seq(LineTokens), Keeps(x), NEW t \in {h, b} PROVE Keeps(Append(x, t))
  <2> DEFINE y == Append(x, t)
  <2>1. /\ y \in Seq(LineTokens) /\ Len(y) = Len(x) + 1 /\ Len(x) \in Nat /\ y[Len(x) + 1] = t
        /\ \A i \in 1 .. Len(x) : y[i] = x[i]
    BY AppendFacts
  <2>2. \A i \in 1 .. Len(x) : UpTo(Heads(y), i) = UpTo(Heads(x), i)
    BY <1>1
  <2> HIDE DEF y
  <2>3. \A i \in 1 .. Len(q) : i \in 1 .. Len(x)
    BY <1>5, <2>1
  <2>4. \A i \in 1 .. Len(y) : i \in 1 .. Len(x) \/ i = Len(x) + 1
    BY <2>1
  <2>5. \A i \in 1 .. Len(y) : i \in 1 .. Len(q) \/ y[i] \in {h, b}
    BY <1>5, <2>1, <2>4
  <2>6. \A i \in 1 .. Len(q) : y[i] = q[i] /\ UpTo(Heads(y), i) = UpTo(Heads(q), i)
    BY <1>5, <2>1, <2>2, <2>3
  <2>7. Len(y) \in Nat /\ Len(q) \in Nat /\ Len(q) <= Len(y)
    BY <1>5, <2>1
  <2>8. Keeps(y)
    BY <2>1, <2>5, <2>6, <2>7
  <2> QED
    BY <2>8 DEF y
<1>6. a \in Seq(LineTokens) /\ c \in Seq(LineTokens)
  OBVIOUS
<1>7. /\ Cardinality(Heads(a)) = Cardinality(Heads(q)) + Bit(IsHead(h))
      /\ Cardinality(Heads(c)) = Cardinality(Heads(q)) + Bit(IsHead(b))
      /\ Cardinality(Heads(d)) = Cardinality(Heads(a)) + Bit(IsHead(b))
  BY <1>1, <1>6
<1> HIDE DEF Keeps
<1>8. Keeps(a) /\ Keeps(c) /\ Keeps(d)
  <2>1. Keeps(a) /\ Keeps(c)
    BY <1>4, <1>5
  <2> HIDE DEF a
  <2> QED
    BY <1>5, <1>6, <2>1
<1> HIDE DEF a, c, d
<1>9. Few(a) /\ Few(c) /\ Few(d)
  BY <1>2, <1>3, <1>6, <1>7
<1> HIDE DEF Few
<1>10. Keeps(p) /\ Few(p)
  BY <1>4, <1>8, <1>9 DEF Arrives, a, c, d
<1> QED
  BY <1>2, <1>10 DEF Keeps, Few

-----------------------------------------------------------------------------
LEMMA StreamTypedInit == Init => StreamTyped
<1>1. <<>> \in Seq(LineTokens)
  OBVIOUS
<1>2. Hunt \in [type : TokenTypes \cup {"hunt", "adrift"}]
  BY DEF Hunt
<1>3. Idle.pc # "storing" /\ Idle.pc # "unpacking"
  BY DEF Idle
<1> SUFFICES ASSUME Init PROVE StreamTyped
  OBVIOUS
<1>4. rx \in Seq(LineTokens) /\ late \in Nat /\ waiter \in BOOLEAN
  BY <1>1 DEF Init
<1>5. codec \in [type : TokenTypes \cup {"hunt", "adrift"}]
  BY <1>2 DEF Init
<1>6. dec = Idle
  BY DEF Init
<1> QED
  BY <1>3, <1>4, <1>5, <1>6 DEF StreamTyped

\* The decoder's move to the next token.
LEMMA DecodeFacts ==
  ASSUME StreamTyped, Decode
  PROVE  /\ rx # <<>> /\ rx[1] \in LineTokens /\ rx' = Tail(rx) /\ Tail(rx) \in Seq(LineTokens)
         /\ ~ AnswerHeld /\ ~ ScanHeld /\ UNCHANGED <<waiter, late, cmds, todo, session, device>>
         /\ \/ codec = Hunt /\ rx[1].part = "head" /\ codec' = [type |-> rx[1].type] /\ dec' = dec
            \/ codec = Hunt /\ rx[1].part = "body" /\ codec' \in {Hunt, Adrift} /\ dec' = dec
            \/ codec = Adrift /\ codec' = codec /\ dec' = dec
            \/ /\ codec.type \in TokenTypes
               /\ dec' = [pc |-> "copying", msg |-> [type |-> codec.type, session |-> rx[1].session,
                                                     torn |-> rx[1].type # codec.type]]
               /\ codec' = IF codec.type = "scan" THEN codec ELSE Hunt
<1>1. rx # <<>> /\ rx' = Tail(rx) /\ dec = Idle
  BY DEF Decode
<1>2. rx[1] \in LineTokens /\ Tail(rx) \in Seq(LineTokens) /\ Head(rx) = rx[1]
  BY <1>1, HeadTailProperties DEF StreamTyped
<1>3. rx[1].part \in {"head", "body"}
  BY <1>2 DEF LineTokens
<1>4. codec = Hunt \/ codec = Adrift \/ codec.type \in TokenTypes
  BY DEF StreamTyped, Hunt, Adrift
<1>5. codec.type \in TokenTypes => codec # Hunt /\ codec # Adrift
  BY DEF Hunt, Adrift, TokenTypes, Questions
<1>6. Hunt # Adrift
  BY DEF Hunt, Adrift
<1>11. ~ AnswerHeld /\ ~ ScanHeld
  BY <1>1 DEF AnswerHeld, ScanHeld, Idle
<1>12. UNCHANGED <<waiter, late, cmds, todo, session, device>>
  BY DEF Decode, node, reply, data
<1>7. CASE codec = Hunt /\ rx[1].part = "head"
  BY <1>1, <1>2, <1>7, <1>11, <1>12 DEF Decode
<1>8. CASE codec = Hunt /\ rx[1].part = "body"
  BY <1>1, <1>2, <1>8, <1>11, <1>12 DEF Decode
<1>9. CASE codec = Adrift
  BY <1>1, <1>2, <1>6, <1>9, <1>11, <1>12 DEF Decode
<1>10. CASE codec.type \in TokenTypes
  BY <1>1, <1>2, <1>5, <1>10, <1>11, <1>12 DEF Decode
<1> QED
  BY <1>3, <1>4, <1>7, <1>8, <1>9, <1>10

LEMMA HandoverFacts ==
  ASSUME StreamTyped, Handover
  PROVE  /\ dec.pc = "copying" /\ dec.msg \in Messages
         /\ \/ dec' = Idle
            \/ dec.msg.type = "scan" /\ dec'.pc = "unpacking" /\ dec'.msg = dec.msg
            \/ IsAnswer(dec.msg.type) /\ dec'.pc = "storing" /\ dec'.msg = dec.msg
         /\ dec' \in {Idle, [pc |-> "joined"]} \cup [pc : {"copying", "storing", "unpacking"}, msg : Messages]
         /\ UNCHANGED <<rx, cmds, codec, late, todo, call, session, device, waiter, armed, answer, taken, faults>>
<1> DEFINE D == [pc : {"copying", "storing", "unpacking"}, msg : Messages]
<1>1. dec.pc = "copying"
  BY DEF Handover
<1>2. dec \in D
  BY <1>1 DEF StreamTyped, Idle
<1>3. dec.msg \in Messages
  BY <1>2
<1>4. dec.msg.type \in TokenTypes
  BY <1>3 DEF Messages
<1>5. \/ dec.msg.type = "scan" /\ dec' = [dec EXCEPT !.pc = "unpacking"]
      \/ dec.msg.type # "scan" /\ dec' = [dec EXCEPT !.pc = "storing"]
      \/ dec' = Idle
  BY DEF Handover
<1>6. dec.msg.type # "scan" => IsAnswer(dec.msg.type)
  BY <1>4 DEF TokenTypes, IsAnswer
<1>7. UNCHANGED <<rx, cmds, codec, late, todo, call, session, device, waiter, armed, answer, taken, faults>>
  BY DEF Handover, node, reply, data
<1>8. \A pc \in {"unpacking", "storing"} :
        [dec EXCEPT !.pc = pc] \in D /\ [dec EXCEPT !.pc = pc].pc = pc /\ [dec EXCEPT !.pc = pc].msg = dec.msg
  BY <1>2
<1> HIDE DEF D
<1>9. dec' \in {Idle, [pc |-> "joined"]} \cup D
  BY <1>5, <1>8
<1>10. \/ dec' = Idle
       \/ dec.msg.type = "scan" /\ dec'.pc = "unpacking" /\ dec'.msg = dec.msg
       \/ IsAnswer(dec.msg.type) /\ dec'.pc = "storing" /\ dec'.msg = dec.msg
  BY <1>5, <1>6, <1>8
<1> QED
  BY <1>1, <1>3, <1>7, <1>9, <1>10 DEF D

LEMMA StreamTypedStep == DriverTyped /\ StreamTyped /\ [Next]_vars => StreamTyped'
<1> SUFFICES ASSUME DriverTyped, StreamTyped, [Next]_vars PROVE StreamTyped'
  OBVIOUS
<1>1. CASE Ours
  BY <1>1, MildSteps, MildFacts
<1>2. ASSUME rx' \in Seq(LineTokens), UNCHANGED <<late, waiter, codec, dec>> PROVE StreamTyped'
  BY <1>2 DEF StreamTyped
<1>3. CASE Decode
  <2> DEFINE m == [type |-> codec.type, session |-> rx[1].session, torn |-> rx[1].type # codec.type]
             T == TokenTypes \cup {"hunt", "adrift"}
  <2>1. /\ rx[1] \in LineTokens /\ rx' \in Seq(LineTokens) /\ UNCHANGED <<waiter, late>>
        /\ \/ codec' = [type |-> rx[1].type] /\ dec' = dec
           \/ codec' \in {Hunt, Adrift} /\ dec' = dec
           \/ codec' = codec /\ dec' = dec
           \/ /\ codec.type \in TokenTypes /\ dec' = [pc |-> "copying", msg |-> m]
              /\ codec' \in {codec, Hunt}
    BY <1>3, DecodeFacts
  <2>2. rx[1].type \in TokenTypes /\ rx[1].session \in Nat
    BY <2>1 DEF LineTokens
  <2>3. codec.type \in TokenTypes => m \in Messages
    BY <2>2 DEF Messages
  <2> HIDE DEF m
  <2>4. codec \in [type : T] /\ [type |-> rx[1].type] \in [type : T] /\ Hunt \in [type : T] /\ Adrift \in [type : T]
    BY <2>2 DEF StreamTyped, Hunt, Adrift
  <2>5. codec' \in [type : T]
    BY <2>1, <2>4
  <2>6. CASE dec' = dec
    BY <2>1, <2>5, <2>6 DEF StreamTyped
  <2>7. CASE codec.type \in TokenTypes /\ dec' = [pc |-> "copying", msg |-> m]
    <3>1. dec' \in [pc : {"copying", "storing", "unpacking"}, msg : Messages] /\ dec'.pc = "copying"
      BY <2>3, <2>7
    <3> QED
      BY <2>1, <2>5, <3>1 DEF StreamTyped
  <2> QED
    BY <2>1, <2>6, <2>7
<1>4. CASE Handover
  <2>1. /\ dec' \in {Idle, [pc |-> "joined"]} \cup [pc : {"copying", "storing", "unpacking"}, msg : Messages]
        /\ UNCHANGED <<rx, codec, late, waiter>>
    BY <1>4, HandoverFacts
  <2>2. dec'.pc = "storing" => IsAnswer(dec'.msg.type)
    BY <1>4, HandoverFacts DEF Idle
  <2>3. dec'.pc = "unpacking" => dec'.msg.type = "scan"
    BY <1>4, HandoverFacts DEF Idle
  <2> QED
    BY <2>1, <2>2, <2>3 DEF StreamTyped
<1>5. CASE Store \/ Unpack
  <2>1. dec' = Idle /\ waiter' \in {waiter, TRUE} /\ UNCHANGED <<rx, codec, late>>
    BY <1>5 DEF Store, Unpack, reply
  <2>2. dec'.pc # "storing" /\ dec'.pc # "unpacking" /\ waiter' \in BOOLEAN
    BY <2>1 DEF Idle, StreamTyped
  <2> QED
    BY <2>1, <2>2 DEF StreamTyped
<1>6. CASE Obey
  <2> DEFINE cmd == Head(cmds)
  <2>1. cmd \in Commands /\ UNCHANGED <<late, waiter, codec, dec>>
    BY <1>6, HeadTailProperties DEF Obey, DriverTyped, reply, stream
  <2>2. \/ rx' = rx
        \/ cmd.do = "ask" /\ Reply(Tokens(cmd.type, 0))
        \/ cmd.do = "scan" /\ Reply(Tokens("scan", cmd.session))
    BY <1>6 DEF Obey
  <2>3. /\ cmd.do = "ask" => cmd.type \in TokenTypes
        /\ cmd.do = "scan" => cmd.session \in Nat
    BY <2>1 DEF Commands, TokenTypes
  <2> HIDE DEF cmd
  <2>4. \A type \in TokenTypes, s \in Nat : Reply(Tokens(type, s)) => rx' \in Seq(LineTokens)
    <3> SUFFICES ASSUME NEW type \in TokenTypes, NEW s \in Nat, Reply(Tokens(type, s))
                 PROVE  rx' \in Seq(LineTokens)
      OBVIOUS
    <3> DEFINE h == Tokens(type, s)[1]
               b == Tokens(type, s)[2]
    <3>1. h \in LineTokens /\ b \in LineTokens /\ Arrives(rx, rx', h, b)
      BY ReplyArrives
    <3> HIDE DEF h, b
    <3>2. rx \in Seq(LineTokens)
      BY DEF StreamTyped
    <3>3. Append(rx, h) \in Seq(LineTokens) /\ Append(rx, b) \in Seq(LineTokens)
      BY <3>1, <3>2
    <3>4. Append(Append(rx, h), b) \in Seq(LineTokens)
      BY <3>1, <3>3
    <3> QED
      BY <3>1, <3>2, <3>3, <3>4 DEF Arrives
  <2>5. "scan" \in TokenTypes /\ 0 \in Nat
    BY DEF TokenTypes
  <2>6. rx' \in Seq(LineTokens)
    <3>1. CASE rx' = rx
      BY <3>1 DEF StreamTyped
    <3> QED
      BY <2>2, <2>3, <2>4, <2>5, <3>1
  <2> QED
    BY <1>2, <2>1, <2>6
<1>7. CASE Measure
  <2> DEFINE b == [part |-> "body", type |-> "scan", session |-> device.scan]
  <2>1. UNCHANGED <<late, waiter, codec, dec>> /\ rx' = Append(rx, b)
    BY <1>7 DEF Measure, Tokens, reply, stream
  <2>2. b \in LineTokens
    BY DEF DriverTyped, LineTokens, TokenTypes
  <2> HIDE DEF b
  <2>3. rx' \in Seq(LineTokens)
    BY <2>1, <2>2 DEF StreamTyped
  <2> QED
    BY <1>2, <2>1, <2>3
<1>8. CASE Unplug
  <2>1. UNCHANGED <<late, waiter, codec, dec, rx>>
    BY <1>8 DEF Unplug, reply, stream
  <2> QED
    BY <2>1 DEF StreamTyped
<1> QED
  BY <1>1, <1>3, <1>4, <1>5, <1>6, <1>7, <1>8 DEF Next, Decoder, Ours
-----------------------------------------------------------------------------
(* Answers that are outstanding, and scans behind them.                    *)

\* The answers the node would take next, and with the one the codec is in.
Ahead == Bit(waiter) + Bit(AnswerHeld)
Near  == Ahead + Bit(IsAnswer(codec.type))
ScanHead(token) == token.part = "head" /\ token.type = "scan"

\* Every answer that is not late is that of the question the node waits for, but
\* one, which was torn from a header whose payload was lost.
Outstanding ==
  Near + Cardinality(Heads(rx)) + Cardinality(Asks(cmds)) <= late + 1 + Bit(Running("wait"))

\* Where the beginning of a scan is still to come, or its frames are decoded,
\* that many of the answers and k more were late.
Behind(k) ==
  /\ \A i \in 1 .. Len(rx) : ScanHead(rx[i]) => Near + UpTo(Heads(rx), i) + k <= late + 1
  /\ \A i \in 1 .. Len(cmds) :
       cmds[i].do = "scan" => Near + Cardinality(Heads(rx)) + UpTo(Asks(cmds), i) + k <= late + 1
  /\ codec.type = "scan" \/ ScanHeld => Ahead + k <= late + 1

\* The node has n of a start's four questions left: 4 - n were answered.
Started(n) == Needs(todo, n) /\ Behind(4 - n)
BehindInv  == Shaped(todo) /\ \E n \in 0 .. 4 : Started(n)

LEMMA Counted ==
  /\ \A b : Bit(b) \in {0, 1} /\ (b => Bit(b) = 1) /\ (~ b => Bit(b) = 0)
  /\ \A q \in Seq(LineTokens) :
       /\ Len(q) \in Nat /\ Cardinality(Heads(q)) \in Nat
       /\ \A i \in 1 .. Len(q) : UpTo(Heads(q), i) \in Nat /\ UpTo(Heads(q), i) <= Cardinality(Heads(q))
       /\ q # <<>> => 1 \in 1 .. Len(q) /\ UpTo(Heads(q), 1) = Bit(IsHead(q[1]))
  /\ \A q \in Seq(Commands) :
       /\ Len(q) \in Nat /\ Cardinality(Asks(q)) \in Nat
       /\ \A i \in 1 .. Len(q) : UpTo(Asks(q), i) \in Nat /\ UpTo(Asks(q), i) <= Cardinality(Asks(q))
       /\ q # <<>> => 1 \in 1 .. Len(q) /\ UpTo(Asks(q), 1) = Bit(q[1].do = "ask")
<1>1. \A b : Bit(b) \in {0, 1} /\ (b => Bit(b) = 1) /\ (~ b => Bit(b) = 0)
  BY DEF Bit
<1>2. \A n \in Nat : \A S \in SUBSET (1 .. n) :
        /\ Cardinality(S) \in Nat /\ UpTo(S, 1) = Bit(1 \in S)
        /\ \A i \in 1 .. n : UpTo(S, i) \in Nat /\ UpTo(S, i) <= Cardinality(S)
  <2> TAKE n \in Nat
  <2> TAKE S \in SUBSET (1 .. n)
  <2>1. \A i \in 1 .. n : i \in Nat
    OBVIOUS
  <2> QED
    BY <2>1, Counts
<1>3. ASSUME NEW q \in Seq(LineTokens)
      PROVE  /\ Heads(q) \in SUBSET (1 .. Len(q)) /\ Len(q) \in Nat
             /\ q # <<>> => 1 \in 1 .. Len(q) /\ Bit(1 \in Heads(q)) = Bit(IsHead(q[1]))
  BY DEF Heads, Bit
<1>4. ASSUME NEW q \in Seq(Commands)
      PROVE  /\ Asks(q) \in SUBSET (1 .. Len(q)) /\ Len(q) \in Nat
             /\ q # <<>> => 1 \in 1 .. Len(q) /\ Bit(1 \in Asks(q)) = Bit(q[1].do = "ask")
  BY DEF Asks, Bit
<1> QED
  BY <1>1, <1>2, <1>3, <1>4

LEMMA Relaxed ==
  ASSUME DriverTyped, StreamTyped, StreamTyped', NEW k \in Nat, NEW m \in Nat, Behind(k), rx' = rx,
         \/ cmds' = cmds \/ cmds' = <<>>
         \/ \E c \in Commands : c.do # "scan" /\ cmds' = Append(cmds, c),
         Near' + m + late <= Near + k + late', Ahead' + m + late <= Ahead + k + late',
         codec'.type = "scan" \/ ScanHeld' => codec.type = "scan" \/ ScanHeld
  PROVE  Behind(m)'
<1>1. late \in Nat /\ late' \in Nat /\ rx \in Seq(LineTokens) /\ cmds \in Seq(Commands)
  BY DEF StreamTyped, DriverTyped
<1>2. Near \in Int /\ Near' \in Int /\ Ahead \in Int /\ Ahead' \in Int
  <2>1. /\ Bit(waiter) \in Int /\ Bit(AnswerHeld) \in Int /\ Bit(IsAnswer(codec.type)) \in Int
        /\ Bit(waiter') \in Int /\ Bit(AnswerHeld') \in Int /\ Bit(IsAnswer(codec'.type)) \in Int
    BY Counted
  <2>2. Ahead \in Int
    BY <2>1 DEF Ahead
  <2>3. Ahead' \in Int
    BY <2>1 DEF Ahead
  <2> QED
    BY <2>1, <2>2, <2>3 DEF Near
<1>3. /\ \A x \in Int : Near + x + k <= late + 1 => Near' + x + m <= late' + 1
      /\ Ahead + k <= late + 1 => Ahead' + m <= late' + 1
  <2>1. PICK l \in Int, n \in Int, a \in Int, b \in Int, c \in Int, d \in Int :
          l = late /\ n = late' /\ a = Near /\ b = Near' /\ c = Ahead /\ d = Ahead'
    BY <1>1, <1>2
  <2>2. b + m + l <= a + k + n /\ d + m + l <= c + k + n
    BY <2>1
  <2>3. /\ \A x \in Int : a + x + k <= l + 1 => b + x + m <= n + 1
        /\ c + k <= l + 1 => d + m <= n + 1
    BY <2>2
  <2> QED
    BY <2>1, <2>3
<1>4. \A i \in 1 .. Len(rx) : ScanHead(rx[i]) => Near' + UpTo(Heads(rx), i) + m <= late' + 1
  <2> TAKE i \in 1 .. Len(rx)
  <2>1. UpTo(Heads(rx), i) \in Int
    BY <1>1, Counted
  <2> QED
    BY <1>3, <2>1 DEF Behind
<1>5. \A i \in 1 .. Len(cmds) :
        cmds[i].do = "scan" => Near' + Cardinality(Heads(rx)) + UpTo(Asks(cmds), i) + m <= late' + 1
  <2> TAKE i \in 1 .. Len(cmds)
  <2> HAVE cmds[i].do = "scan"
  <2> DEFINE x == Cardinality(Heads(rx)) + UpTo(Asks(cmds), i)
  <2>1. Cardinality(Heads(rx)) \in Int /\ UpTo(Asks(cmds), i) \in Int
    BY <1>1, Counted
  <2>2. Near + Cardinality(Heads(rx)) + UpTo(Asks(cmds), i) + k <= late + 1
    BY DEF Behind
  <2>3. x \in Int /\ Near + x + k <= late + 1
    BY <1>1, <1>2, <2>1, <2>2
  <2>4. Near' + x + m <= late' + 1
    BY <1>3, <2>3
  <2> QED
    BY <1>1, <1>2, <2>1, <2>4
<1>6. \A i \in 1 .. Len(cmds') :
        cmds'[i].do = "scan" => Near' + Cardinality(Heads(rx)) + UpTo(Asks(cmds'), i) + m <= late' + 1
  <2>1. CASE cmds' = cmds
    BY <1>5, <2>1
  <2>2. CASE cmds' = <<>>
    BY <2>2
  <2>3. CASE \E c \in Commands : c.do # "scan" /\ cmds' = Append(cmds, c)
    <3>1. PICK c \in Commands : c.do # "scan" /\ cmds' = Append(cmds, c)
      BY <2>3
    <3>2. /\ Len(cmds') = Len(cmds) + 1 /\ Len(cmds) \in Nat /\ cmds'[Len(cmds) + 1] = c
          /\ \A i \in 1 .. Len(cmds) : cmds'[i] = cmds[i]
      BY <1>1, <3>1, AppendFacts
    <3>3. \A i \in 1 .. Len(cmds) : UpTo(Asks(cmds'), i) = UpTo(Asks(cmds), i)
      BY <1>1, <3>1, AsksKept
    <3> TAKE i \in 1 .. Len(cmds')
    <3> HAVE cmds'[i].do = "scan"
    <3>4. i # Len(cmds) + 1
      BY <3>1, <3>2
    <3>5. i \in 1 .. Len(cmds)
      BY <3>2, <3>4
    <3> QED
      BY <1>5, <3>2, <3>3, <3>5
  <2> QED
    BY <2>1, <2>2, <2>3
<1>7. codec'.type = "scan" \/ ScanHeld' => Ahead' + m <= late' + 1
  BY <1>3 DEF Behind
<1> QED
  BY <1>4, <1>6, <1>7 DEF Behind

\* The node's thread, but for the command of a scan.
LEMMA MildBehind ==
  ASSUME DriverTyped, StreamTyped, Mild, NEW k \in Nat, NEW m \in Nat, Behind(k),
         cmds' = cmds \/ \E c \in Commands : c.do # "scan" /\ cmds' = Append(cmds, c),
         m + Bit(waiter') <= k + Bit(waiter)
  PROVE  Behind(m)'
<1>1. /\ StreamTyped' /\ (AnswerHeld' <=> AnswerHeld) /\ (ScanHeld' <=> ScanHeld)
      /\ IsAnswer(codec'.type) => IsAnswer(codec.type)
      /\ codec'.type = "scan" => codec.type = "scan"
  BY MildFacts
<1>2. late \in Nat /\ late' \in Nat /\ late <= late' /\ rx' = rx
  BY DEF StreamTyped, Mild
<1>3. Bit(AnswerHeld') = Bit(AnswerHeld) /\ Bit(IsAnswer(codec'.type)) <= Bit(IsAnswer(codec.type))
  BY <1>1 DEF Bit
<1>4. /\ Bit(waiter) \in Int /\ Bit(waiter') \in Int /\ Bit(AnswerHeld) \in Int
      /\ Bit(IsAnswer(codec.type)) \in Int /\ Bit(IsAnswer(codec'.type)) \in Int
  BY Counted
<1>5. Ahead' = Bit(waiter') + Bit(AnswerHeld) /\ Near' = Ahead' + Bit(IsAnswer(codec'.type))
  BY <1>3 DEF Ahead, Near
<1>6. Ahead' + m + late <= Ahead + k + late' /\ Near' + m + late <= Near + k + late'
  <2>1. PICK w \in Int, v \in Int, h \in Int, c \in Int, d \in Int, l \in Int, n \in Int :
          /\ w = Bit(waiter) /\ v = Bit(waiter') /\ h = Bit(AnswerHeld) /\ l = late /\ n = late'
          /\ c = Bit(IsAnswer(codec.type)) /\ d = Bit(IsAnswer(codec'.type))
    BY <1>2, <1>4
  <2>2. m + v <= k + w /\ l <= n /\ d <= c
    BY <1>2, <1>3, <2>1
  <2>3. (v + h) + m + l <= (w + h) + k + n /\ ((v + h) + d) + m + l <= ((w + h) + c) + k + n
    BY <2>2
  <2>4. Ahead = w + h /\ Ahead' = v + h /\ Near = (w + h) + c /\ Near' = (v + h) + d
    BY <1>5, <2>1 DEF Ahead, Near
  <2> QED
    BY <2>1, <2>3, <2>4
<1> QED
  BY <1>1, <1>2, <1>6, Relaxed
-----------------------------------------------------------------------------
(* The questions a start has left.                                         *)

\* The first step is done, and was no question that had to be answered.
LEMMA Onward ==
  ASSUME DriverTyped, Shaped(todo), NEW n \in 0 .. 4, Needs(todo, n), todo # <<>>
  PROVE  /\ todo \in Seq(DriverSteps) /\ Head(todo) \in DriverSteps /\ Head(todo) = todo[1]
         /\ Shaped(Tail(todo))
         /\ ~ IsMust(Head(todo)) => Needs(Tail(todo), n)
         /\ n >= 1 => Needs(Tail(todo), n - 1)
         /\ Head(todo).op \in Starts => n = 0
         /\ Head(todo).op = "scan" => Still(Tail(todo))
         /\ Head(todo) \in Detections =>
              Tail(todo) # <<>> /\ Shaped(Tail(Tail(todo))) /\ Needs(Tail(Tail(todo)), n)
<1>1. todo \in Seq(DriverSteps) /\ n \in Nat
  BY DEF DriverTyped, Guarded
<1>2. Head(todo) = todo[1] /\ Head(todo) \in DriverSteps
  BY <1>1, HeadTailProperties
<1> DEFINE t == Tail(todo)
<1>3. /\ t \in Seq(DriverSteps) /\ Shaped(t)
      /\ ~ IsMust(todo[1]) => Needs(t, n)
      /\ n >= 1 => Needs(t, n - 1)
      /\ todo[1].op \in Starts => n = 0
      /\ todo[1].op = "scan" => Still(t)
      /\ todo[1] \in Detections /\ t # <<>> => ~ IsMust(t[1])
  BY <1>1, NeedsTail
<1>4. todo[1] \in Detections => t # <<>> /\ ~ IsMust(todo[1])
  BY <1>2, HeadTail DEF DriverTyped, Detections, IsMust
<1> HIDE DEF t
<1>5. ASSUME todo[1] \in Detections PROVE Shaped(Tail(t)) /\ Needs(Tail(t), n)
  <2>1. t # <<>> /\ Needs(t, n) /\ ~ IsMust(t[1])
    BY <1>3, <1>4, <1>5
  <2> QED
    BY <1>1, <1>3, <2>1, NeedsTail
<1> QED
  BY <1>1, <1>2, <1>3, <1>4, <1>5 DEF t

LEMMA Failing ==
  ASSUME DriverTyped, Shaped(todo), NEW n \in 0 .. 4, Needs(todo, n), Running("wait"), Bad(Head(todo))
  PROVE  Shaped(todo') /\ (Needs(todo', 4) \/ Needs(todo', n))
<1> DEFINE step == Head(todo)
<1>1. todo # <<>> /\ step.op = "wait"
  BY DEF Running
<1>2. \A s \in {<<>>, NodeStop, Finish, Delete, NodeStop \o Delete} : Shaped(s) /\ Needs(s, 4)
  BY StillScripts
<1>3. /\ step \in DriverSteps /\ Shaped(Tail(todo)) /\ (~ IsMust(step) => Needs(Tail(todo), n))
      /\ step \in Detections => Shaped(Tail(Tail(todo))) /\ Needs(Tail(Tail(todo)), n)
  BY <1>1, Onward
<1>4. step.else = "detect" => step \in Detections
  BY <1>1, <1>3 DEF DriverSteps, PlainSteps, Detections, Answers
<1>5. \/ todo' \in {NodeStop, Delete, NodeStop \o Delete}
      \/ step.else = "detect" /\ todo' = Tail(Tail(todo))
      \/ step.else # "fail" /\ todo' = Tail(todo)
  BY DEF Bad, Proceed
<1>6. step.else # "fail" => ~ IsMust(step)
  BY DEF IsMust
<1> HIDE DEF step
<1> QED
  BY <1>2, <1>3, <1>4, <1>5, <1>6

LEMMA Requested ==
  ASSUME DriverTyped, Shaped(todo), NEW n \in 0 .. 4, Needs(todo, n), Request
  PROVE  Shaped(todo') /\ Needs(todo', n)
<1> DEFINE first == Head(todo)
           now == [first EXCEPT !.op = "wait"]
           m == Len(todo)
<1>1. todo # <<>> /\ first.op = "ask" /\ todo \in Seq(DriverSteps) /\ first \in DriverSteps /\ first = todo[1]
  BY Onward DEF Request, Running
<1>2. \/ first \in [op : {"ask", "wait"}, type : Questions, else : Answers]
      \/ first \in Detections
  BY <1>1 DEF DriverSteps, PlainSteps
<1> HIDE DEF first
<1>3. /\ now.op = "wait" /\ (IsMust(now) <=> IsMust(first))
      /\ now \in Detections => first \in Detections
  BY <1>1, <1>2 DEF IsMust, Detections
<1>4. todo' = [todo EXCEPT ![1] = now]
  BY <1>1 DEF Request, first
<1> HIDE DEF now
<1>5. m \in Nat /\ Len(todo') = m /\ \A i \in 1 .. m : todo'[i] = IF i = 1 THEN now ELSE todo[i]
  BY <1>1, <1>4
<1> HIDE DEF m
<1>6. \A i \in 1 .. m : /\ IsMust(todo'[i]) <=> IsMust(todo[i])
                        /\ todo'[i] \in Detections => todo[i] \in Detections
  BY <1>1, <1>3, <1>5
<1>7. \A i \in 1 .. m : todo'[i].op \in Starts \/ todo'[i].op = "scan" => todo'[i] = todo[i]
  BY <1>3, <1>5 DEF Starts
<1>8. Musts(todo') = Musts(todo)
  BY <1>5, <1>6 DEF Musts, m
<1>9. Needs(todo', n)
  BY <1>5, <1>7, <1>8 DEF Needs, m
<1>10. \A i, j \in 1 .. m : todo'[i].op = "scan" /\ i < j => todo'[j].op \notin Starts
  BY <1>7 DEF Shaped, m
<1>11. \A i \in 1 .. m : todo'[i] \in Detections => i + 1 \notin Musts(todo')
  BY <1>6, <1>8 DEF Shaped, m
<1> QED
  BY <1>5, <1>9, <1>10, <1>11 DEF Shaped

LEMMA Advances ==
  ASSUME DriverTyped, Shaped(todo), NEW n \in 0 .. 4, Needs(todo, n), Ours, ~ Scan
  PROVE  /\ Shaped(todo')
         /\ Needs(todo', 4) \/ Needs(todo', n) \/ (Take /\ n >= 1 /\ Needs(todo', n - 1))
<1> USE DEF fixed, node, flags, stream, reply, data, world
<1>1. \A s \in {<<>>, NodeStop, Finish, Delete, NodeStop \o Delete} : Shaped(s) /\ Needs(s, 4)
  BY StillScripts
<1>2. Shaped(StartScan) /\ Needs(StartScan, 4)
  BY StartLeads DEF Opens
<1>3. ASSUME NEW op \in {"stop", "enable", "motor", "brake", "spin", "open", "scanning", "disable", "join"},
             Running(op), todo' = Tail(todo)
      PROVE  Shaped(todo') /\ Needs(todo', n)
  <2>1. todo # <<>> /\ Head(todo).op = op
    BY <1>3 DEF Running
  <2>2. ~ IsMust(Head(todo))
    BY <2>1 DEF IsMust
  <2> QED
    BY <1>3, <2>1, <2>2, Onward
<1>4. CASE Stop \/ Enable \/ Motor \/ SetScanning \/ Disable \/ Join
  <2>1. \E op \in {"stop", "enable", "motor", "brake", "spin", "scanning", "disable", "join"} : Running(op)
    BY <1>4 DEF Stop, Enable, Motor, SetScanning, Disable, Join
  <2>2. todo' = Tail(todo)
    BY <1>4 DEF Stop, Enable, Motor, SetScanning, Disable, Join, Proceed
  <2> QED
    BY <1>3, <2>1, <2>2
<1>5. CASE Open
  <2>1. Running("open") /\ (todo' = <<>> \/ todo' = Tail(todo))
    BY <1>5 DEF Open, Proceed
  <2> QED
    BY <1>1, <1>3, <2>1
<1>6. CASE Request
  BY <1>6, Requested
<1>7. CASE Take
  <2>1. Running("wait") /\ (Good(Head(todo)) \/ Bad(Head(todo)))
    BY <1>7 DEF Take
  <2>2. CASE Good(Head(todo))
    <3>1. todo # <<>> /\ todo' = Tail(todo)
      BY <2>1, <2>2 DEF Good, Running
    <3>2. /\ Shaped(Tail(todo))
          /\ ~ IsMust(Head(todo)) => Needs(Tail(todo), n)
          /\ n >= 1 => Needs(Tail(todo), n - 1)
          /\ Tail(todo) \in Seq(DriverSteps)
      BY <3>1, Onward
    <3>3. ASSUME n = 0 PROVE Needs(Tail(todo), n)
      <4> DEFINE t == Tail(todo)
      <4>0. t \in Seq(DriverSteps)
        BY <3>2
      <4> HIDE DEF t
      <4>1. \A e \in 1 .. Len(t) : e \in Nat
        OBVIOUS
      <4>2. \A e \in 1 .. Len(t) : UpTo(Musts(t), e) \in Nat
        BY <4>0, <4>1, MustsKept
      <4>3. \A e \in 1 .. Len(t) : n <= UpTo(Musts(t), e)
        BY <3>3, <4>2
      <4> QED
        BY <4>3 DEF Needs, t
    <3> QED
      BY <1>7, <3>1, <3>2, <3>3
  <2>3. CASE Bad(Head(todo))
    BY <2>1, <2>3, Failing
  <2> QED
    BY <2>1, <2>2, <2>3
<1>8. CASE Timeout
  <2>1. Running("wait") /\ Bad(Head(todo))
    BY <1>8 DEF Timeout
  <2> QED
    BY <2>1, Failing
<1>9. CASE Standby \/ Service \/ Quit
  <2>1. todo' \in {StartScan, NodeStop, Finish}
    BY <1>9 DEF Standby, Service, Quit, Begin
  <2> QED
    BY <1>1, <1>2, <2>1
<1>10. CASE Grab \/ Surroundings \/ UNCHANGED vars
  <2>1. todo' = todo
    BY <1>10 DEF Grab, Surroundings, vars
  <2> QED
    BY <2>1
<1> QED
  BY <1>4, <1>5, <1>6, <1>7, <1>8, <1>9, <1>10 DEF Ours, Steps, Loop
-----------------------------------------------------------------------------
(* The answers outstanding, step by step.                                  *)

LEMMA Amounts ==
  /\ Ahead \in Nat /\ Ahead' \in Nat /\ Near \in Nat /\ Near' \in Nat
  /\ Ahead <= Near /\ Near <= Ahead + 1
  /\ IsAnswer(codec.type) => Near = Ahead + 1
  /\ ~ IsAnswer(codec.type) => Near = Ahead
  /\ IsAnswer(codec'.type) => Near' = Ahead' + 1
  /\ ~ IsAnswer(codec'.type) => Near' = Ahead'
  /\ Ahead = Bit(waiter) + Bit(AnswerHeld) /\ Ahead' = Bit(waiter') + Bit(AnswerHeld')
<1>1. /\ Bit(waiter) \in {0, 1} /\ Bit(AnswerHeld) \in {0, 1} /\ Bit(IsAnswer(codec.type)) \in {0, 1}
      /\ Bit(waiter') \in {0, 1} /\ Bit(AnswerHeld') \in {0, 1} /\ Bit(IsAnswer(codec'.type)) \in {0, 1}
  BY Counted
<1>2. /\ IsAnswer(codec.type) => Bit(IsAnswer(codec.type)) = 1
      /\ ~ IsAnswer(codec.type) => Bit(IsAnswer(codec.type)) = 0
      /\ IsAnswer(codec'.type) => Bit(IsAnswer(codec'.type)) = 1
      /\ ~ IsAnswer(codec'.type) => Bit(IsAnswer(codec'.type)) = 0
  BY Counted
<1>3. Ahead = Bit(waiter) + Bit(AnswerHeld) /\ Near = Ahead + Bit(IsAnswer(codec.type))
  BY DEF Ahead, Near
<1>4. Ahead' = Bit(waiter') + Bit(AnswerHeld') /\ Near' = Ahead' + Bit(IsAnswer(codec'.type))
  BY DEF Ahead, Near
<1>5. Ahead \in Nat /\ Ahead' \in Nat
  BY <1>1, <1>3, <1>4
<1>6. Near \in Nat /\ Ahead <= Near /\ Near <= Ahead + 1
  BY <1>1, <1>3, <1>5
<1>7. Near' \in Nat
  BY <1>1, <1>4, <1>5
<1>8. (IsAnswer(codec.type) => Near = Ahead + 1) /\ (~ IsAnswer(codec.type) => Near = Ahead)
  BY <1>2, <1>3, <1>5
<1>9. (IsAnswer(codec'.type) => Near' = Ahead' + 1) /\ (~ IsAnswer(codec'.type) => Near' = Ahead')
  BY <1>2, <1>4, <1>5
<1> QED
  BY <1>3, <1>4, <1>5, <1>6, <1>7, <1>8, <1>9

\* A step moves the answers, and asks no more than it may.
LEMMA Weighed ==
  ASSUME DriverTyped, StreamTyped, DriverTyped', StreamTyped', Outstanding,
         NEW x \in Int, NEW y \in Int, NEW z \in Int,
         Near' <= Near + x,
         Cardinality(Heads(rx')) <= Cardinality(Heads(rx)) + y,
         Cardinality(Asks(cmds')) <= Cardinality(Asks(cmds)) + z,
         x + y + z + late + Bit(Running("wait")) <= late' + Bit(Running("wait")')
  PROVE  Outstanding'
<1>1. /\ late \in Int /\ late' \in Int /\ rx \in Seq(LineTokens) /\ rx' \in Seq(LineTokens)
      /\ cmds \in Seq(Commands) /\ cmds' \in Seq(Commands)
  BY DEF StreamTyped, DriverTyped
<1>2. /\ Cardinality(Heads(rx)) \in Int /\ Cardinality(Heads(rx')) \in Int
      /\ Cardinality(Asks(cmds)) \in Int /\ Cardinality(Asks(cmds')) \in Int
      /\ Bit(Running("wait")) \in Int /\ Bit(Running("wait")') \in Int
  BY <1>1, Counted
<1>0. Near \in Int /\ Near' \in Int
  BY Amounts
<1>3. PICK n \in Int, h \in Int, a \in Int, l \in Int, w \in Int :
        /\ n = Near /\ h = Cardinality(Heads(rx)) /\ a = Cardinality(Asks(cmds)) /\ l = late
        /\ w = Bit(Running("wait"))
  BY <1>0, <1>1, <1>2
<1>4. PICK n1 \in Int, h1 \in Int, a1 \in Int, l1 \in Int, w1 \in Int :
        /\ n1 = Near' /\ h1 = Cardinality(Heads(rx')) /\ a1 = Cardinality(Asks(cmds')) /\ l1 = late'
        /\ w1 = Bit(Running("wait")')
  BY <1>0, <1>1, <1>2
<1>5. n + h + a <= l + 1 + w
  BY <1>3 DEF Outstanding
<1>6. n1 <= n + x /\ h1 <= h + y /\ a1 <= a + z
  BY <1>3, <1>4
<1>7. x + y + z + l + w <= l1 + w1
  BY <1>3, <1>4
<1>8. n1 + h1 + a1 <= l1 + 1 + w1
  BY <1>5, <1>6, <1>7
<1> QED
  BY <1>4, <1>8 DEF Outstanding

\* The command of a step of the node, and what it waits for.
LEMMA MildOutstanding ==
  ASSUME DriverTyped, StreamTyped, DriverTyped', Outstanding, Ours
  PROVE  Outstanding'
<1>1. /\ Mild /\ StreamTyped'
      /\ \/ cmds' = cmds
         \/ \E c \in Plain : cmds' = Append(cmds, c)
         \/ Request /\ cmds' = Append(cmds, [do |-> "ask", type |-> Head(todo).type])
         \/ Scan /\ cmds' = Append(cmds, [do |-> "scan", session |-> session'])
      /\ Timeout \/ late' = late
  BY MildSteps, MildFacts
<1>2. /\ late \in Int /\ late' \in Int /\ late <= late' /\ rx' = rx /\ rx \in Seq(LineTokens)
      /\ waiter' \in {waiter, FALSE} /\ cmds \in Seq(Commands) /\ cmds' \in Seq(Commands)
  <2>1. late \in Nat /\ late' \in {late, late + 1} /\ rx' = rx /\ waiter' \in {waiter, FALSE}
    BY <1>1 DEF Mild, StreamTyped
  <2>2. rx \in Seq(LineTokens)
    BY DEF StreamTyped
  <2>3. cmds \in Seq(Commands) /\ cmds' \in Seq(Commands)
    BY DEF DriverTyped
  <2>4. late \in Int /\ late' \in Int /\ late <= late'
    BY <2>1
  <2>5. rx' = rx /\ waiter' \in {waiter, FALSE}
    BY <2>1
  <2> QED
    BY <2>2, <2>3, <2>4, <2>5
<1>3. Bit(AnswerHeld') = Bit(AnswerHeld) /\ (IsAnswer(codec'.type) => IsAnswer(codec.type))
  BY <1>1, MildFacts DEF Bit
<1>4. Bit(Running("wait")) \in {0, 1} /\ Bit(Running("wait")') \in {0, 1}
  BY Counted
<1>5. Near' <= Near + 0 /\ (waiter /\ ~ waiter' => Near' <= Near + (0 - 1))
  <2>1. Bit(waiter) \in {0, 1} /\ Bit(waiter') \in {0, 1} /\ Bit(AnswerHeld) \in {0, 1}
    BY Counted
  <2>2. Bit(waiter') <= Bit(waiter) /\ (waiter /\ ~ waiter' => Bit(waiter') = Bit(waiter) - 1)
    <3>1. CASE waiter' = FALSE
      BY <2>1, <3>1, Counted
    <3>2. CASE waiter' = waiter
      BY <2>1, <3>2
    <3> QED
      BY <1>2, <3>1, <3>2
  <2>3. Ahead' <= Ahead /\ (waiter /\ ~ waiter' => Ahead' = Ahead - 1)
    BY <1>3, <2>1, <2>2 DEF Ahead
  <2>4. Near' <= Ahead' + 1 /\ Near <= Ahead + 1 /\ Near \in Int /\ Near' \in Int
        /\ Ahead \in Int /\ Ahead' \in Int /\ Ahead <= Near
    BY Amounts
  <2>5. Near' - Ahead' <= Near - Ahead
    BY <1>3, <2>4, Amounts
  <2>6. PICK a \in Int, b \in Int, m \in Int, n \in Int : a = Ahead /\ b = Ahead' /\ m = Near /\ n = Near'
    BY <2>4
  <2>7. n <= m + 0 /\ (waiter /\ ~ waiter' => n <= m + (0 - 1))
    <3>1. b <= a /\ (waiter /\ ~ waiter' => b = a - 1) /\ n - b <= m - a
      BY <2>3, <2>5, <2>6
    <3> QED
      BY <3>1
  <2> QED
    BY <2>6, <2>7
<1>6. Cardinality(Heads(rx')) <= Cardinality(Heads(rx)) + 0
  BY <1>2, Counted
<1>7. Request => Cardinality(Asks(cmds')) <= Cardinality(Asks(cmds)) + 1
  <2> SUFFICES ASSUME Request PROVE Cardinality(Asks(cmds')) <= Cardinality(Asks(cmds)) + 1
    OBVIOUS
  <2>1. Cardinality(Asks(cmds)) \in Nat
    BY <1>2, Counted
  <2>2. ~ Scan
    BY DEF Request, Scan, Running
  <2>3. cmds' = cmds \/ \E c \in Commands : cmds' = Append(cmds, c)
    BY <1>1 DEF Mild
  <2>4. \A c \in Commands : Cardinality(Asks(Append(cmds, c))) = Cardinality(Asks(cmds)) + Bit(c.do = "ask")
    BY <1>2, AsksKept
  <2>5. CASE cmds' = cmds
    BY <2>1, <2>5
  <2>6. ASSUME NEW c \in Commands, cmds' = Append(cmds, c)
        PROVE  Cardinality(Asks(cmds')) <= Cardinality(Asks(cmds)) + 1
    <3>1. Bit(c.do = "ask") \in {0, 1}
      BY Counted
    <3>2. Cardinality(Asks(cmds')) = Cardinality(Asks(cmds)) + Bit(c.do = "ask")
      BY <2>4, <2>6
    <3> QED
      BY <2>1, <3>1, <3>2
  <2> QED
    BY <2>3, <2>5, <2>6
<1>8. ~ Request => Cardinality(Asks(cmds')) <= Cardinality(Asks(cmds)) + 0
  <2> SUFFICES ASSUME ~ Request PROVE Cardinality(Asks(cmds')) <= Cardinality(Asks(cmds)) + 0
    OBVIOUS
  <2>1. Cardinality(Asks(cmds)) \in Nat
    BY <1>2, Counted
  <2>2. [do |-> "scan", session |-> session'] \in Commands
    BY DEF DriverTyped, Commands
  <2>3. cmds' = cmds \/ \E c \in Commands : c.do # "ask" /\ cmds' = Append(cmds, c)
    BY <1>1, <2>2 DEF Plain
  <2>4. \A c \in Commands : Cardinality(Asks(Append(cmds, c))) = Cardinality(Asks(cmds)) + Bit(c.do = "ask")
    BY <1>2, AsksKept
  <2>5. CASE cmds' = cmds
    BY <2>1, <2>5
  <2>6. ASSUME NEW c \in Commands, c.do # "ask", cmds' = Append(cmds, c)
        PROVE  Cardinality(Asks(cmds')) <= Cardinality(Asks(cmds)) + 0
    <3>1. Bit(c.do = "ask") = 0
      BY <2>6, Counted
    <3>2. Cardinality(Asks(cmds')) = Cardinality(Asks(cmds)) + Bit(c.do = "ask")
      BY <2>4, <2>6
    <3> QED
      BY <2>1, <3>1, <3>2
  <2> QED
    BY <2>3, <2>5, <2>6
<1>9. CASE Request
  <2>1. ~ Running("wait") /\ Running("wait")'
    <3>1. todo # <<>> /\ todo \in Seq(DriverSteps) /\ Head(todo) \in DriverSteps /\ Head(todo).op = "ask"
      BY <1>9, HeadTail DEF Request, Running, DriverTyped, Guarded
    <3>2. todo' = [todo EXCEPT ![1].op = "wait"]
      BY <1>9 DEF Request
    <3>3. todo' # <<>> /\ Head(todo') = [todo[1] EXCEPT !.op = "wait"]
      BY <3>1, <3>2
    <3>4. todo[1] = Head(todo)
      BY <3>1
    <3>5. Head(todo').op = "wait"
      BY <3>1, <3>3, <3>4 DEF DriverSteps, PlainSteps, Detections
    <3> QED
      BY <3>1, <3>3, <3>5 DEF Running
  <2>2. Bit(Running("wait")) = 0 /\ Bit(Running("wait")') = 1
    BY <2>1, Counted
  <2>3. 0 + 0 + 1 + late + Bit(Running("wait")) <= late' + Bit(Running("wait")')
    BY <1>2, <2>2
  <2> QED
    BY <1>1, <1>5, <1>6, <1>7, <1>9, <2>3, Weighed
<1>10. CASE Take
  <2>1. waiter /\ ~ waiter' /\ ~ Request
    BY <1>10 DEF Take, Request, Running
  <2>2. (0 - 1) + 0 + 0 + late + Bit(Running("wait")) <= late' + Bit(Running("wait")')
    BY <1>2, <1>4
  <2> QED
    BY <1>1, <1>5, <1>6, <1>8, <2>1, <2>2, Weighed
<1>11. CASE Timeout
  <2>1. Running("wait") /\ ~ waiter /\ ~ Request /\ (IF Pending THEN late' = late + 1 ELSE late' = late)
        /\ UNCHANGED <<rx, cmds, waiter, codec, dec>>
    BY <1>11 DEF Timeout, Request, Running, reply, stream
  <2>2. CASE Pending
    <3>1. 0 + 0 + 0 + late + Bit(Running("wait")) <= late' + Bit(Running("wait")')
      BY <1>2, <1>4, <2>1, <2>2
    <3> QED
      BY <1>1, <1>5, <1>6, <1>8, <2>1, <3>1, Weighed
  <2>3. CASE ~ Pending
    <3>1. Asks(cmds) = {} /\ Heads(rx) = {}
      <4>1. \A i \in 1 .. Len(cmds) : cmds[i].do # "ask"
        BY <1>2, <2>3 DEF Pending
      <4>2. \A i \in 1 .. Len(rx) : rx[i].type = "scan"
        BY <1>2, <2>3 DEF Pending
      <4> QED
        BY <4>1, <4>2 DEF Asks, Heads, IsHead, IsAnswer, Questions
    <3>2. ~ AnswerHeld
      BY <2>3 DEF Pending, AnswerHeld, IsAnswer, Questions
    <3>3. Bit(waiter') = 0 /\ Bit(AnswerHeld') = 0
      BY <1>3, <2>1, <3>2, Counted
    <3>4. Near' <= 1 /\ Near' \in Nat
      BY <3>3, Amounts
    <3>5. Cardinality(Asks(cmds')) = 0 /\ Cardinality(Heads(rx')) = 0
      BY <2>1, <3>1, FS_EmptySet
    <3> QED
      BY <1>2, <1>4, <3>4, <3>5, Counted DEF Outstanding, StreamTyped
  <2> QED
    BY <2>2, <2>3
<1>12. ASSUME ~ Request, ~ Running("wait") \/ (todo' = todo) PROVE Outstanding'
  <2>1. Bit(Running("wait")) <= Bit(Running("wait")')
    <3>1. CASE ~ Running("wait")
      BY <1>4, <3>1, Counted
    <3>2. CASE todo' = todo
      BY <1>4, <3>2 DEF Running
    <3> QED
      BY <1>12, <3>1, <3>2
  <2>2. 0 + 0 + 0 + late + Bit(Running("wait")) <= late' + Bit(Running("wait")')
    BY <1>2, <1>4, <2>1
  <2> QED
    BY <1>1, <1>5, <1>6, <1>8, <1>12, <2>2, Weighed
<1>13. Request \/ Take \/ Timeout \/ ~ Running("wait") \/ todo' = todo
  <2>1. CASE Stop \/ Enable \/ Scan \/ Motor \/ Open \/ SetScanning \/ Disable \/ Join
    BY <2>1 DEF Running, Stop, Enable, Scan, Motor, Open, SetScanning, Disable, Join
  <2>2. CASE Standby \/ Grab \/ Quit \/ Service
    BY <2>2 DEF Running, Standby, Grab, Quit, Service, Begin, InLoop
  <2>3. CASE Surroundings \/ UNCHANGED vars
    BY <2>3 DEF Surroundings, node, vars
  <2> QED
    BY <2>1, <2>2, <2>3 DEF Ours, Steps, Loop
<1> QED
  BY <1>9, <1>10, <1>11, <1>12, <1>13

\* The decoder hands a message over, or gives it up; the cable is pulled.
LEMMA Passes ==
  ASSUME DriverTyped, StreamTyped, Handover \/ Store \/ Unpack \/ Unplug
  PROVE  /\ UNCHANGED <<rx, late, todo, session, codec>> /\ device'.scan = device.scan
         /\ cmds' = cmds \/ cmds' = <<>>
         /\ Near' <= Near + 0 /\ Ahead' <= Ahead
         /\ ScanHeld' => ScanHeld /\ dec'.msg.session = dec.msg.session
<1> USE DEF node, reply, data
<1>1. Bit(waiter) \in {0, 1} /\ Bit(waiter') \in {0, 1} /\ Bit(AnswerHeld) \in {0, 1} /\ Bit(AnswerHeld') \in {0, 1}
  BY Counted
<1>2. ASSUME UNCHANGED <<rx, late, todo, session, codec>>, device'.scan = device.scan,
             cmds' = cmds \/ cmds' = <<>>, Ahead' <= Ahead,
             ScanHeld' => ScanHeld /\ dec'.msg.session = dec.msg.session
      PROVE  Near' <= Near + 0
  <2>1. IsAnswer(codec'.type) <=> IsAnswer(codec.type)
    BY <1>2
  <2>2. PICK a \in Int, b \in Int, m \in Int, n \in Int : a = Ahead /\ b = Ahead' /\ m = Near /\ n = Near'
    BY Amounts
  <2>3. b <= a /\ n - b = m - a
    BY <1>2, <2>1, <2>2, Amounts
  <2>4. n <= m + 0
    BY <2>3
  <2> QED
    BY <2>2, <2>4
<1>3. CASE Handover
  <2>1. UNCHANGED <<rx, late, todo, session, codec, device, cmds, waiter>>
    BY <1>3, HandoverFacts
  <2>2. AnswerHeld' => AnswerHeld
    BY <1>3, HandoverFacts DEF AnswerHeld, Idle
  <2>3. ScanHeld' => ScanHeld /\ dec'.msg.session = dec.msg.session
    BY <1>3, HandoverFacts DEF ScanHeld, Idle
  <2>4. Bit(waiter') = Bit(waiter)
    BY <2>1
  <2>5. Bit(AnswerHeld') <= Bit(AnswerHeld)
    BY <1>1, <2>2, Counted
  <2>6. Ahead' <= Ahead
    BY <1>1, <2>4, <2>5 DEF Ahead
  <2> QED
    BY <1>2, <2>1, <2>3, <2>6
<1>4. CASE Store
  <2>1. UNCHANGED <<rx, late, todo, session, codec, device, cmds>> /\ dec' = Idle /\ AnswerHeld
    BY <1>4 DEF Store, AnswerHeld, StreamTyped
  <2>2. ~ AnswerHeld' /\ ~ ScanHeld'
    BY <2>1 DEF AnswerHeld, ScanHeld, Idle
  <2>3. Bit(AnswerHeld') = 0 /\ Bit(AnswerHeld) = 1
    BY <2>1, <2>2, Counted
  <2>4. Ahead' <= Ahead
    BY <1>1, <2>3 DEF Ahead
  <2> QED
    BY <1>2, <2>1, <2>2, <2>4
<1>5. CASE Unpack
  <2>1. UNCHANGED <<rx, late, todo, session, codec, device, cmds, waiter>> /\ dec' = Idle
    BY <1>5 DEF Unpack
  <2>2. ~ AnswerHeld' /\ ~ ScanHeld'
    BY <2>1 DEF AnswerHeld, ScanHeld, Idle
  <2>3. Bit(AnswerHeld') = 0 /\ Bit(waiter') = Bit(waiter)
    BY <2>1, <2>2, Counted
  <2>4. Ahead' <= Ahead
    BY <1>1, <2>3 DEF Ahead
  <2> QED
    BY <1>2, <2>1, <2>2, <2>4
<1>6. CASE Unplug
  <2>1. UNCHANGED <<rx, late, todo, session, codec, dec, waiter>> /\ cmds' = <<>>
    BY <1>6 DEF Unplug, stream
  <2>2. device' = [device EXCEPT !.plugged = FALSE]
    BY <1>6 DEF Unplug
  <2>3. device'.scan = device.scan
    BY <2>2 DEF DriverTyped
  <2>4. (AnswerHeld' <=> AnswerHeld) /\ (ScanHeld' <=> ScanHeld)
    BY <2>1 DEF AnswerHeld, ScanHeld
  <2>5. Bit(AnswerHeld') = Bit(AnswerHeld) /\ Bit(waiter') = Bit(waiter)
    BY <2>1, <2>4 DEF Bit
  <2>6. Ahead' <= Ahead
    BY <1>1, <2>5 DEF Ahead
  <2> QED
    BY <1>2, <2>1, <2>3, <2>4, <2>6
<1> QED
  BY <1>3, <1>4, <1>5, <1>6

\* The head of an answer that the decoder takes is in the codec, or lost in
\* another message.
LEMMA DecodeWeighs ==
  ASSUME StreamTyped, Decode
  PROVE  /\ Near' <= Near + Bit(IsHead(rx[1]))
         /\ codec'.type = "scan" \/ ScanHeld' =>
              /\ Ahead' = Ahead
              /\ codec.type = "scan" \/ (ScanHead(rx[1]) /\ Near = Ahead)
<1>1. Bit(IsHead(rx[1])) \in {0, 1} /\ (IsHead(rx[1]) => Bit(IsHead(rx[1])) = 1)
  BY Counted
<1>2. PICK a \in Int, b \in Int, m \in Int, n \in Int : a = Ahead /\ b = Ahead' /\ m = Near /\ n = Near'
  BY Amounts
<1>3. ~ AnswerHeld /\ ~ ScanHeld /\ waiter' = waiter /\ rx[1] \in LineTokens
  BY DecodeFacts
<1>4. Bit(AnswerHeld) = 0 /\ Bit(waiter') = Bit(waiter) /\ Bit(waiter) \in {0, 1}
  BY <1>3, Counted
<1>5. ~ IsAnswer(Hunt.type) /\ ~ IsAnswer(Adrift.type) /\ ~ IsAnswer("scan")
      /\ Hunt.type # "scan" /\ Adrift.type # "scan"
  BY DEF IsAnswer, Questions, Hunt, Adrift
<1>6. CASE /\ dec' = dec
           /\ \/ codec = Hunt /\ rx[1].part = "head" /\ codec' = [type |-> rx[1].type]
              \/ codec' \in {Hunt, Adrift}
  <2>1. ~ AnswerHeld' /\ ~ ScanHeld'
    BY <1>3, <1>6 DEF AnswerHeld, ScanHeld
  <2>2. Bit(AnswerHeld') = 0
    BY <2>1, Counted
  <2>3. Ahead' = Ahead
    BY <1>4, <2>2 DEF Ahead
  <2>4. CASE codec = Hunt /\ rx[1].part = "head" /\ codec' = [type |-> rx[1].type]
    <3>1. codec'.type = rx[1].type /\ Near = Ahead
      BY <1>5, <2>4, Amounts
    <3>2. IsAnswer(codec'.type) => IsHead(rx[1])
      BY <2>4, <3>1 DEF IsHead
    <3>3. codec'.type = "scan" => ScanHead(rx[1])
      BY <2>4, <3>1 DEF ScanHead
    <3>4. n <= b + 1 /\ (~ IsHead(rx[1]) => n = b) /\ a = b /\ m = a
      BY <1>2, <2>3, <3>1, <3>2, Amounts
    <3>5. n <= m + Bit(IsHead(rx[1]))
      <4>1. CASE IsHead(rx[1])
        BY <1>1, <3>4, <4>1
      <4>2. CASE ~ IsHead(rx[1])
        BY <1>1, <3>4, <4>2, Counted
      <4> QED
        BY <4>1, <4>2
    <3> QED
      BY <1>2, <2>1, <2>3, <3>1, <3>3, <3>5
  <2>5. CASE codec' \in {Hunt, Adrift}
    <3>1. ~ IsAnswer(codec'.type) /\ codec'.type # "scan"
      BY <1>5, <2>5
    <3>2. n = b /\ a = b /\ a <= m
      BY <1>2, <2>3, <3>1, Amounts
    <3>3. n <= m + Bit(IsHead(rx[1]))
      BY <1>1, <3>2
    <3> QED
      BY <1>2, <2>1, <3>1, <3>3
  <2> QED
    BY <1>6, <2>4, <2>5
<1>7. CASE /\ codec.type \in TokenTypes
           /\ dec' = [pc |-> "copying", msg |-> [type |-> codec.type, session |-> rx[1].session,
                                                 torn |-> rx[1].type # codec.type]]
           /\ codec' = IF codec.type = "scan" THEN codec ELSE Hunt
  <2>1. /\ AnswerHeld' <=> IsAnswer(codec.type)
        /\ ScanHeld' <=> codec.type = "scan"
    BY <1>7 DEF AnswerHeld, ScanHeld
  <2>2. CASE codec.type = "scan"
    <3>1. codec' = codec /\ ~ AnswerHeld' /\ ~ IsAnswer(codec.type)
      BY <1>5, <1>7, <2>1, <2>2
    <3>2. Bit(AnswerHeld') = 0
      BY <3>1, Counted
    <3>3. Ahead' = Ahead
      BY <1>4, <3>2 DEF Ahead
    <3>4. n = b /\ a = b /\ m = a
      BY <1>2, <3>1, <3>3, Amounts
    <3>5. n <= m + Bit(IsHead(rx[1]))
      BY <1>1, <3>4
    <3> QED
      BY <1>2, <2>2, <3>3, <3>5
  <2>3. CASE codec.type # "scan"
    <3>1. codec' = Hunt /\ IsAnswer(codec.type) /\ AnswerHeld' /\ ~ ScanHeld'
      BY <1>7, <2>1, <2>3 DEF TokenTypes, IsAnswer
    <3>2. Bit(AnswerHeld') = 1
      BY <3>1, Counted
    <3>3. Ahead' = Ahead + 1
      BY <1>4, <3>2 DEF Ahead
    <3>4. n = b /\ m = a + 1 /\ b = a + 1
      BY <1>2, <1>5, <3>1, <3>3, Amounts
    <3>5. n <= m + Bit(IsHead(rx[1]))
      BY <1>1, <3>4
    <3> QED
      BY <1>2, <1>5, <3>1, <3>5
  <2> QED
    BY <2>2, <2>3
<1> QED
  BY <1>6, <1>7, DecodeFacts

\* The device obeys the first command: an answer, the head of a scan, or nothing.
LEMMA ObeyFacts ==
  ASSUME DriverTyped, StreamTyped, Obey
  PROVE  /\ cmds # <<>> /\ cmds[1] \in Commands /\ cmds' = Tail(cmds) /\ Tail(cmds) \in Seq(Commands)
         /\ UNCHANGED <<waiter, late, codec, dec, todo, session, armed, answer, taken>>
         /\ \/ rx' = rx /\ faults' = faults
            \/ \E type \in TokenTypes, s \in Nat :
                 /\ \/ cmds[1].do = "ask" /\ type = cmds[1].type /\ type \in Questions /\ s = 0
                    \/ cmds[1].do = "scan" /\ type = "scan" /\ s = cmds[1].session
                 /\ Reply(Tokens(type, s))
         /\ \/ device'.scan = device.scan
            \/ device'.scan = 0
            \/ cmds[1].do = "scan" /\ device'.scan = cmds[1].session
         /\ cmds[1].do = "scan" => device'.scan = cmds[1].session
<1> DEFINE cmd == Head(cmds)
<1>1. cmds # <<>> /\ cmds' = Tail(cmds) /\ cmds \in Seq(Commands)
  BY DEF Obey, DriverTyped
<1>2. cmd \in Commands /\ Tail(cmds) \in Seq(Commands) /\ cmd = cmds[1]
  BY <1>1, HeadTailProperties
<1>3. UNCHANGED <<waiter, late, codec, dec, todo, session, armed, answer, taken>>
  BY DEF Obey, node, stream, reply, data
<1>4. \/ rx' = rx /\ faults' = faults
      \/ cmd.do = "ask" /\ Reply(Tokens(cmd.type, 0))
      \/ cmd.do = "scan" /\ Reply(Tokens("scan", cmd.session))
  BY DEF Obey
<1>5. \/ device' = device
      \/ cmd.do # "scan" /\ device' = [device EXCEPT !.scan = 0]
      \/ cmd.do = "scan" /\ device' = [device EXCEPT !.scan = cmd.session]
      \/ cmd.do # "scan" /\ device' = [device EXCEPT !.motor = IF cmd.do = launch.kind THEN cmd.on ELSE @]
  BY DEF Obey
<1>6. cmd.do = "scan" => device' = [device EXCEPT !.scan = cmd.session]
  BY DEF Obey
<1>7. /\ cmd.do = "ask" => cmd.type \in Questions /\ cmd.type \in TokenTypes
      /\ cmd.do = "scan" => cmd.session \in Nat /\ "scan" \in TokenTypes
  BY <1>2 DEF Commands, TokenTypes
<1> HIDE DEF cmd
<1>8. device \in [scan : Nat, motor : BOOLEAN, plugged : BOOLEAN]
  BY DEF DriverTyped
<1>9. /\ \/ device'.scan = device.scan
         \/ device'.scan = 0
         \/ cmd.do = "scan" /\ device'.scan = cmd.session
      /\ cmd.do = "scan" => device'.scan = cmd.session
  BY <1>5, <1>6, <1>8
<1>10. \/ rx' = rx /\ faults' = faults
       \/ \E type \in TokenTypes, s \in Nat :
            /\ \/ cmd.do = "ask" /\ type = cmd.type /\ type \in Questions /\ s = 0
               \/ cmd.do = "scan" /\ type = "scan" /\ s = cmd.session
            /\ Reply(Tokens(type, s))
  <2>1. 0 \in Nat
    OBVIOUS
  <2> QED
    BY <1>4, <1>7, <2>1, Zenon
<1> QED
  BY <1>1, <1>2, <1>3, <1>9, <1>10

\* What arrives of it is behind the other tokens.
AddsTo(p, cmd) ==
  /\ p \in Seq(LineTokens) /\ Len(p) \in Nat /\ Len(rx) \in Nat
  /\ \A i \in 1 .. Len(rx) :
       i \in 1 .. Len(p) /\ p[i] = rx[i] /\ UpTo(Heads(p), i) = UpTo(Heads(rx), i)
  /\ \A i \in 1 .. Len(p) :
       /\ UpTo(Heads(p), i) \in Nat /\ UpTo(Heads(p), i) <= Cardinality(Heads(p))
       /\ \/ i \in 1 .. Len(rx)
          \/ cmd.do = "ask" /\ p[i].type = cmd.type /\ p[i].session = 0
             /\ p[i].type \in Questions
          \/ cmd.do = "scan" /\ p[i].type = "scan" /\ p[i].session = cmd.session
  /\ Cardinality(Heads(p)) <= Cardinality(Heads(rx)) + Bit(cmd.do = "ask")
  /\ Cardinality(Heads(p)) \in Nat /\ Cardinality(Heads(rx)) \in Nat

LEMMA ObeyArrives ==
  ASSUME DriverTyped, StreamTyped, Obey
  PROVE  AddsTo(rx', cmds[1])
<1>1. rx \in Seq(LineTokens) /\ Len(rx) \in Nat /\ Cardinality(Heads(rx)) \in Nat
      /\ \A i \in 1 .. Len(rx) : UpTo(Heads(rx), i) \in Nat /\ UpTo(Heads(rx), i) <= Cardinality(Heads(rx))
  BY Counted DEF StreamTyped
<1>2. CASE rx' = rx
  <2>1. Bit(cmds[1].do = "ask") \in {0, 1}
    BY Counted
  <2>2. Cardinality(Heads(rx)) <= Cardinality(Heads(rx)) + Bit(cmds[1].do = "ask")
    BY <1>1, <2>1
  <2> QED
    BY <1>1, <1>2, <2>2 DEF AddsTo
<1>3. ASSUME NEW type \in TokenTypes, NEW s \in Nat, Reply(Tokens(type, s)),
             \/ cmds[1].do = "ask" /\ type = cmds[1].type /\ type \in Questions /\ s = 0
             \/ cmds[1].do = "scan" /\ type = "scan" /\ s = cmds[1].session
      PROVE  AddsTo(rx', cmds[1])
  <2> DEFINE h == Tokens(type, s)[1]
             b == Tokens(type, s)[2]
  <2>1. h \in LineTokens /\ b \in LineTokens /\ Arrives(rx, rx', h, b)
    BY <1>3, ReplyArrives
  <2>2. /\ h.part = "head" /\ h.type = type /\ h.session = s
        /\ b.part = "body" /\ b.type = type /\ b.session = s
    BY DEF Tokens
  <2> HIDE DEF h, b
  <2>3. Bit(IsHead(h)) = Bit(cmds[1].do = "ask")
    <3>1. IsHead(h) <=> cmds[1].do = "ask"
      BY <1>3, <2>2 DEF IsHead, IsAnswer, Questions
    <3> QED
      BY <3>1 DEF Bit
  <2>4. /\ rx' \in Seq(LineTokens) /\ Len(rx') \in Nat /\ Len(rx) \in Nat /\ Len(rx) <= Len(rx')
        /\ \A i \in 1 .. Len(rx) : rx'[i] = rx[i] /\ UpTo(Heads(rx'), i) = UpTo(Heads(rx), i)
        /\ \A i \in 1 .. Len(rx') : i \in 1 .. Len(rx) \/ rx'[i] \in {h, b}
        /\ Cardinality(Heads(rx')) <= Cardinality(Heads(rx)) + Bit(IsHead(h))
        /\ \A i \in 1 .. Len(rx') : UpTo(Heads(rx'), i) <= Cardinality(Heads(rx'))
        /\ \A i \in 1 .. Len(rx') : UpTo(Heads(rx'), i) \in Nat
        /\ Cardinality(Heads(rx')) \in Nat
    BY <1>1, <2>1, <2>2, ArrivesKeeps
  <2>5. \A i \in 1 .. Len(rx) : i \in 1 .. Len(rx')
    BY <2>4
  <2>6. ASSUME NEW i \in 1 .. Len(rx'), i \notin 1 .. Len(rx)
        PROVE  \/ cmds[1].do = "ask" /\ rx'[i].type = cmds[1].type /\ rx'[i].session = 0
                  /\ rx'[i].type \in Questions
               \/ cmds[1].do = "scan" /\ rx'[i].type = "scan" /\ rx'[i].session = cmds[1].session
    <3>1. rx'[i] = h \/ rx'[i] = b
      BY <2>4, <2>6
    <3> QED
      BY <1>3, <2>2, <3>1
  <2> QED
    BY <1>1, <2>3, <2>4, <2>5, <2>6 DEF AddsTo
<1> QED
  BY <1>2, <1>3, ObeyFacts

\* A measurement is no head.
LEMMA MeasureArrives ==
  ASSUME DriverTyped, StreamTyped, Measure
  PROVE  /\ UNCHANGED <<waiter, late, codec, dec, todo, session, armed, answer, taken, cmds, device, faults>>
         /\ rx' \in Seq(LineTokens) /\ Len(rx) \in Nat /\ Len(rx') = Len(rx) + 1
         /\ \A i \in 1 .. Len(rx) :
              i \in 1 .. Len(rx') /\ rx'[i] = rx[i] /\ UpTo(Heads(rx'), i) = UpTo(Heads(rx), i)
         /\ \A i \in 1 .. Len(rx') :
              \/ i \in 1 .. Len(rx)
              \/ rx'[i] = [part |-> "body", type |-> "scan", session |-> device.scan]
         /\ Cardinality(Heads(rx')) = Cardinality(Heads(rx))
<1> DEFINE b == [part |-> "body", type |-> "scan", session |-> device.scan]
<1>1. UNCHANGED <<waiter, late, codec, dec, todo, session, armed, answer, taken, cmds, device, faults>>
  BY DEF Measure, node, stream, reply, data
<1>2. rx' = Append(rx, b)
  BY DEF Measure, Tokens
<1>3. b \in LineTokens /\ ~ IsHead(b)
  BY DEF DriverTyped, LineTokens, TokenTypes, IsHead
<1>4. rx \in Seq(LineTokens)
  BY DEF StreamTyped
<1> HIDE DEF b
<1>5. /\ rx' \in Seq(LineTokens) /\ Len(rx) \in Nat /\ Len(rx') = Len(rx) + 1 /\ rx'[Len(rx) + 1] = b
      /\ \A i \in 1 .. Len(rx) : rx'[i] = rx[i]
  BY <1>2, <1>3, <1>4, AppendFacts
<1>6. /\ Cardinality(Heads(rx')) = Cardinality(Heads(rx)) + Bit(IsHead(b))
      /\ \A i \in 1 .. Len(rx) : UpTo(Heads(rx'), i) = UpTo(Heads(rx), i)
  BY <1>2, <1>3, <1>4, HeadsKept
<1>7. Bit(IsHead(b)) = 0 /\ Cardinality(Heads(rx)) \in Nat
  BY <1>3, <1>4, Counted
<1>8. Cardinality(Heads(rx')) = Cardinality(Heads(rx))
  BY <1>6, <1>7
<1>9. \A i \in 1 .. Len(rx) : i \in 1 .. Len(rx')
  BY <1>5
<1>10. \A i \in 1 .. Len(rx') : i \in 1 .. Len(rx) \/ i = Len(rx) + 1
  BY <1>5
<1>11. \A i \in 1 .. Len(rx') : i \in 1 .. Len(rx) \/ rx'[i] = b
  BY <1>5, <1>10
<1> QED
  BY <1>1, <1>5, <1>6, <1>8, <1>9, <1>11 DEF b

\* The counts of what is near depend on the decoder and the answer stored.
LEMMA SameNears ==
  ASSUME UNCHANGED <<waiter, codec, dec>>
  PROVE  Near' = Near /\ Ahead' = Ahead /\ (ScanHeld' <=> ScanHeld)
<1>1. (AnswerHeld' <=> AnswerHeld) /\ (ScanHeld' <=> ScanHeld) /\ codec' = codec /\ waiter' = waiter
  BY DEF AnswerHeld, ScanHeld
<1>2. Bit(AnswerHeld') = Bit(AnswerHeld)
  BY <1>1 DEF Bit
<1> QED
  BY <1>1, <1>2 DEF Near, Ahead

LEMMA OutstandingStep ==
  ASSUME DriverTyped, StreamTyped, DriverTyped', StreamTyped', Outstanding, [Next]_vars
  PROVE  Outstanding'
<1>1. CASE Ours
  BY <1>1, MildOutstanding
<1>2. /\ rx \in Seq(LineTokens) /\ rx' \in Seq(LineTokens) /\ cmds \in Seq(Commands) /\ cmds' \in Seq(Commands)
      /\ late \in Int
  BY DEF StreamTyped, DriverTyped
<1>3. /\ Cardinality(Heads(rx)) \in Nat /\ Cardinality(Heads(rx')) \in Nat
      /\ Cardinality(Asks(cmds)) \in Nat /\ Cardinality(Asks(cmds')) \in Nat
      /\ Bit(Running("wait")) \in Int
  BY <1>2, Counted
<1>4. ASSUME todo' = todo PROVE Bit(Running("wait")') = Bit(Running("wait"))
  BY <1>4 DEF Running
<1>5. ASSUME todo' = todo, late' = late, NEW x \in Int, NEW y \in Int, NEW z \in Int, x + y + z <= 0
      PROVE  x + y + z + late + Bit(Running("wait")) <= late' + Bit(Running("wait")')
  <2>1. Bit(Running("wait")') = Bit(Running("wait"))
    BY <1>4, <1>5
  <2>2. PICK l \in Int, w \in Int : l = late /\ w = Bit(Running("wait"))
    BY <1>2, <1>3
  <2>3. x + y + z + l + w <= l + w
    BY <1>5
  <2> QED
    BY <1>5, <2>1, <2>2, <2>3
<1>6. CASE Handover \/ Store \/ Unpack \/ Unplug
  <2>1. UNCHANGED <<rx, late, todo>> /\ (cmds' = cmds \/ cmds' = <<>>) /\ Near' <= Near + 0
    BY <1>6, Passes
  <2>2. Cardinality(Heads(rx')) <= Cardinality(Heads(rx)) + 0
    BY <1>3, <2>1
  <2>3. Cardinality(Asks(cmds')) <= Cardinality(Asks(cmds)) + 0
    <3>1. Asks(<<>>) = {}
      BY DEF Asks
    <3>2. Cardinality(Asks(<<>>)) = 0
      BY <3>1, FS_EmptySet
    <3>3. CASE cmds' = cmds
      BY <1>3, <3>3
    <3>4. CASE cmds' = <<>>
      BY <1>3, <3>2, <3>4
    <3> QED
      BY <2>1, <3>3, <3>4
  <2>4. 0 + 0 + 0 + late + Bit(Running("wait")) <= late' + Bit(Running("wait")')
    BY <1>5, <2>1
  <2> QED
    BY <2>1, <2>2, <2>3, <2>4, Weighed
<1>7. CASE Decode
  <2> DEFINE d == Bit(IsHead(rx[1]))
  <2>1. rx # <<>> /\ rx' = Tail(rx) /\ UNCHANGED <<late, todo, cmds>> /\ Near' <= Near + d
    BY <1>7, DecodeFacts, DecodeWeighs
  <2>2. d \in Int /\ 0 - d \in Int
    <3>1. d \in {0, 1}
      BY Counted
    <3> QED
      BY <3>1
  <2>3. Cardinality(Heads(rx')) = Cardinality(Heads(rx)) - d
    BY <1>2, <2>1, HeadsKept
  <2> HIDE DEF d
  <2>4. Cardinality(Heads(rx')) <= Cardinality(Heads(rx)) + (0 - d)
    BY <1>3, <2>2, <2>3
  <2>5. Cardinality(Asks(cmds')) <= Cardinality(Asks(cmds)) + 0
    BY <1>3, <2>1
  <2>6. d + (0 - d) + 0 <= 0
    BY <2>2
  <2>7. d + (0 - d) + 0 + late + Bit(Running("wait")) <= late' + Bit(Running("wait")')
    BY <1>5, <2>1, <2>2, <2>6
  <2> QED
    BY <2>1, <2>2, <2>4, <2>5, <2>7, Weighed
<1>8. CASE Obey
  <2> DEFINE z == Bit(cmds[1].do = "ask")
  <2>1. /\ cmds # <<>> /\ cmds' = Tail(cmds) /\ UNCHANGED <<waiter, late, codec, dec, todo>>
        /\ Cardinality(Heads(rx')) <= Cardinality(Heads(rx)) + z
    BY <1>8, ObeyFacts, ObeyArrives DEF AddsTo
  <2>2. z \in Int /\ 0 - z \in Int
    <3>1. z \in {0, 1}
      BY Counted
    <3> QED
      BY <3>1
  <2>3. Cardinality(Asks(cmds')) = Cardinality(Asks(cmds)) - z
    BY <1>2, <2>1, AsksKept
  <2> HIDE DEF z
  <2>4. Cardinality(Asks(cmds')) <= Cardinality(Asks(cmds)) + (0 - z)
    BY <1>3, <2>2, <2>3
  <2>5. Near' <= Near + 0
    BY <2>1, SameNears, Amounts
  <2>6. 0 + z + (0 - z) <= 0
    BY <2>2
  <2>7. 0 + z + (0 - z) + late + Bit(Running("wait")) <= late' + Bit(Running("wait")')
    BY <1>5, <2>1, <2>2, <2>6
  <2> QED
    BY <2>1, <2>2, <2>4, <2>5, <2>7, Weighed
<1>9. CASE Measure
  <2>1. /\ UNCHANGED <<waiter, late, codec, dec, todo, cmds>>
        /\ Cardinality(Heads(rx')) = Cardinality(Heads(rx))
    BY <1>9, MeasureArrives
  <2>2. Cardinality(Heads(rx')) <= Cardinality(Heads(rx)) + 0
    BY <1>3, <2>1
  <2>3. Cardinality(Asks(cmds')) <= Cardinality(Asks(cmds)) + 0
    BY <1>3, <2>1
  <2>4. Near' <= Near + 0
    BY <2>1, SameNears, Amounts
  <2>5. 0 + 0 + 0 + late + Bit(Running("wait")) <= late' + Bit(Running("wait")')
    BY <1>5, <2>1
  <2> QED
    BY <2>2, <2>3, <2>4, <2>5, Weighed
<1> QED
  BY <1>1, <1>6, <1>7, <1>8, <1>9 DEF Next, Decoder, Ours
-----------------------------------------------------------------------------
(* The scans behind them.                                                  *)

\* The parts of Behind, for numbers that have a type.
LEMMA BehindNumbers ==
  ASSUME DriverTyped, StreamTyped, NEW k \in Nat, Behind(k)
  PROVE  \A n \in Int, l \in Int, h \in Int : n = Near /\ l = late /\ h = Cardinality(Heads(rx)) =>
           /\ \A i \in 1 .. Len(rx) : \A u \in Int :
                ScanHead(rx[i]) /\ u = UpTo(Heads(rx), i) => n + u + k <= l + 1
           /\ \A i \in 1 .. Len(cmds) : \A u \in Int :
                cmds[i].do = "scan" /\ u = UpTo(Asks(cmds), i) => n + h + u + k <= l + 1
  BY DEF Behind

LEMMA DecodeBehind ==
  ASSUME DriverTyped, StreamTyped, DriverTyped', StreamTyped', NEW k \in Nat, Behind(k), Decode
  PROVE  Behind(k)'
<1> DEFINE d == Bit(IsHead(rx[1]))
<1>1. /\ rx # <<>> /\ rx' = Tail(rx) /\ UNCHANGED <<late, cmds>>
      /\ rx \in Seq(LineTokens) /\ rx' \in Seq(LineTokens) /\ cmds \in Seq(Commands) /\ late \in Int
  BY DecodeFacts DEF StreamTyped, DriverTyped
<1>2. d \in {0, 1}
  BY Counted
<1>3. /\ Near' <= Near + d
      /\ codec'.type = "scan" \/ ScanHeld' =>
           Ahead' = Ahead /\ (codec.type = "scan" \/ (ScanHead(rx[1]) /\ Near = Ahead))
  BY DecodeWeighs
<1>4. /\ Cardinality(Heads(rx')) = Cardinality(Heads(rx)) - d
      /\ \A i \in 1 .. Len(rx) : UpTo(Heads(rx'), i - 1) = UpTo(Heads(rx), i) - d
  BY <1>1, HeadsKept
<1>5. /\ Len(rx) \in Nat /\ Cardinality(Heads(rx)) \in Int /\ 1 \in 1 .. Len(rx) /\ UpTo(Heads(rx), 1) = d
      /\ \A i \in 1 .. Len(rx) : UpTo(Heads(rx), i) \in Int
  BY <1>1, Counted
<1>6. /\ Len(rx') = Len(rx) - 1
      /\ \A i \in 1 .. Len(rx') : i + 1 \in 1 .. Len(rx) /\ rx'[i] = rx[i + 1] /\ (i + 1) - 1 = i
  BY <1>1
<1> HIDE DEF d
<1>7. PICK m \in Int, n \in Int, l \in Int, h \in Int :
        m = Near /\ n = Near' /\ l = late /\ h = Cardinality(Heads(rx))
  BY <1>1, <1>5, Amounts
<1>8. n <= m + d
  BY <1>3, <1>7
<1>9. ASSUME NEW i \in 1 .. Len(rx'), ScanHead(rx'[i])
      PROVE  Near' + UpTo(Heads(rx'), i) + k <= late' + 1
  <2>1. i + 1 \in 1 .. Len(rx) /\ ScanHead(rx[i + 1])
    BY <1>6, <1>9
  <2>2. PICK u \in Int : u = UpTo(Heads(rx), i + 1)
    BY <1>5, <2>1
  <2>3. m + u + k <= l + 1
    BY <1>7, <2>1, <2>2, BehindNumbers
  <2>4. UpTo(Heads(rx'), i) = u - d
    BY <1>4, <1>6, <2>1, <2>2
  <2>5. n + (u - d) + k <= l + 1
    BY <1>2, <1>8, <2>3
  <2> QED
    BY <1>1, <1>7, <2>4, <2>5
<1>10. ASSUME NEW i \in 1 .. Len(cmds), cmds[i].do = "scan"
       PROVE  Near' + Cardinality(Heads(rx')) + UpTo(Asks(cmds), i) + k <= late' + 1
  <2>1. PICK u \in Int : u = UpTo(Asks(cmds), i)
    BY <1>1, Counted
  <2>2. m + h + u + k <= l + 1
    BY <1>7, <1>10, <2>1, BehindNumbers
  <2>3. n + (h - d) + u + k <= l + 1
    BY <1>2, <1>8, <2>2
  <2> QED
    BY <1>1, <1>4, <1>7, <2>1, <2>3
<1>11. ASSUME codec'.type = "scan" \/ ScanHeld' PROVE Ahead' + k <= late' + 1
  <2>1. Ahead' = Ahead
    BY <1>3, <1>11
  <2>2. CASE codec.type = "scan"
    BY <1>1, <2>1, <2>2 DEF Behind
  <2>3. CASE ScanHead(rx[1]) /\ Near = Ahead
    <3>1. d = 0
      BY <2>3, Counted DEF ScanHead, IsHead, IsAnswer, Questions, d
    <3>2. m + 0 + k <= l + 1
      BY <1>5, <1>7, <2>3, <3>1, BehindNumbers
    <3>3. m + k <= l + 1
      BY <3>2
    <3> QED
      BY <1>1, <1>7, <2>1, <2>3, <3>3
  <2> QED
    BY <1>3, <1>11, <2>2, <2>3
<1> QED
  BY <1>1, <1>9, <1>10, <1>11 DEF Behind

LEMMA ObeyBehind ==
  ASSUME DriverTyped, StreamTyped, DriverTyped', StreamTyped', NEW k \in Nat, Behind(k), Obey
  PROVE  Behind(k)'
<1> DEFINE z == Bit(cmds[1].do = "ask")
<1>1. /\ cmds # <<>> /\ cmds' = Tail(cmds) /\ UNCHANGED <<late, waiter, codec, dec>>
      /\ rx \in Seq(LineTokens) /\ cmds \in Seq(Commands) /\ late \in Int
  BY ObeyFacts DEF StreamTyped, DriverTyped
<1>2. z \in {0, 1}
  BY Counted
<1>3. /\ \A i \in 1 .. Len(rx) :
           i \in 1 .. Len(rx') /\ rx'[i] = rx[i] /\ UpTo(Heads(rx'), i) = UpTo(Heads(rx), i)
      /\ \A i \in 1 .. Len(rx') :
           /\ UpTo(Heads(rx'), i) \in Int /\ UpTo(Heads(rx'), i) <= Cardinality(Heads(rx'))
           /\ \/ i \in 1 .. Len(rx)
              \/ rx'[i].type \in Questions
              \/ cmds[1].do = "scan"
      /\ Cardinality(Heads(rx')) <= Cardinality(Heads(rx)) + z
      /\ Cardinality(Heads(rx')) \in Int /\ Cardinality(Heads(rx)) \in Int
  BY ObeyArrives DEF AddsTo
<1>4. \A i \in 1 .. Len(cmds) : UpTo(Asks(cmds'), i - 1) = UpTo(Asks(cmds), i) - z
  BY <1>1, AsksKept
<1>5. /\ Len(cmds) \in Nat /\ 1 \in 1 .. Len(cmds) /\ UpTo(Asks(cmds), 1) = z
      /\ \A i \in 1 .. Len(cmds) : UpTo(Asks(cmds), i) \in Int
      /\ \A i \in 1 .. Len(rx) : UpTo(Heads(rx), i) \in Int
  BY <1>1, Counted
<1>6. /\ Len(cmds') = Len(cmds) - 1
      /\ \A i \in 1 .. Len(cmds') : i + 1 \in 1 .. Len(cmds) /\ cmds'[i] = cmds[i + 1] /\ (i + 1) - 1 = i
  BY <1>1
<1>7. Near' = Near /\ Ahead' = Ahead /\ (ScanHeld' <=> ScanHeld)
  BY <1>1, SameNears
<1> HIDE DEF z
<1>8. PICK m \in Int, l \in Int, h \in Int, p \in Int :
        m = Near /\ l = late /\ h = Cardinality(Heads(rx)) /\ p = Cardinality(Heads(rx'))
  BY <1>1, <1>3, Amounts
<1>9. p <= h + z
  BY <1>3, <1>8
<1>10. ASSUME NEW i \in 1 .. Len(rx'), ScanHead(rx'[i])
       PROVE  Near' + UpTo(Heads(rx'), i) + k <= late' + 1
  <2>1. CASE i \in 1 .. Len(rx)
    <3>1. ScanHead(rx[i]) /\ UpTo(Heads(rx'), i) = UpTo(Heads(rx), i)
      BY <1>3, <1>10, <2>1
    <3>2. PICK u \in Int : u = UpTo(Heads(rx), i)
      BY <1>5, <2>1
    <3>3. m + u + k <= l + 1
      BY <1>8, <2>1, <3>1, <3>2, BehindNumbers
    <3> QED
      BY <1>1, <1>7, <1>8, <3>1, <3>2, <3>3
  <2>2. CASE i \notin 1 .. Len(rx)
    <3>1. cmds[1].do = "scan"
      BY <1>3, <1>10, <2>2 DEF ScanHead, Questions
    <3>2. z = 0
      BY <3>1, Counted DEF z
    <3>3. m + h + 0 + k <= l + 1
      BY <1>5, <1>8, <3>1, <3>2, BehindNumbers
    <3>4. PICK u \in Int : u = UpTo(Heads(rx'), i)
      BY <1>3
    <3>5. u <= p
      BY <1>3, <1>8, <3>4
    <3>6. m + u + k <= l + 1
      BY <1>9, <3>2, <3>3, <3>5
    <3> QED
      BY <1>1, <1>7, <1>8, <3>4, <3>6
  <2> QED
    BY <2>1, <2>2
<1>11. ASSUME NEW i \in 1 .. Len(cmds'), cmds'[i].do = "scan"
       PROVE  Near' + Cardinality(Heads(rx')) + UpTo(Asks(cmds'), i) + k <= late' + 1
  <2>1. i + 1 \in 1 .. Len(cmds) /\ cmds[i + 1].do = "scan"
    BY <1>6, <1>11
  <2>2. PICK u \in Int : u = UpTo(Asks(cmds), i + 1)
    BY <1>5, <2>1
  <2>3. m + h + u + k <= l + 1
    BY <1>8, <2>1, <2>2, BehindNumbers
  <2>4. UpTo(Asks(cmds'), i) = u - z
    BY <1>4, <1>6, <2>1, <2>2
  <2>5. m + p + (u - z) + k <= l + 1
    BY <1>2, <1>9, <2>3
  <2> QED
    BY <1>1, <1>7, <1>8, <2>4, <2>5
<1>12. codec'.type = "scan" \/ ScanHeld' => Ahead' + k <= late' + 1
  BY <1>1, <1>7 DEF Behind
<1> QED
  BY <1>10, <1>11, <1>12 DEF Behind

LEMMA MeasureBehind ==
  ASSUME DriverTyped, StreamTyped, NEW k \in Nat, Behind(k), Measure
  PROVE  Behind(k)'
<1>1. /\ UNCHANGED <<late, waiter, codec, dec, cmds>>
      /\ \A i \in 1 .. Len(rx) :
           i \in 1 .. Len(rx') /\ rx'[i] = rx[i] /\ UpTo(Heads(rx'), i) = UpTo(Heads(rx), i)
      /\ \A i \in 1 .. Len(rx') :
           \/ i \in 1 .. Len(rx)
           \/ rx'[i] = [part |-> "body", type |-> "scan", session |-> device.scan]
      /\ Cardinality(Heads(rx')) = Cardinality(Heads(rx))
  BY MeasureArrives
<1>2. Near' = Near /\ Ahead' = Ahead /\ (ScanHeld' <=> ScanHeld)
  BY <1>1, SameNears
<1>3. \A i \in 1 .. Len(rx') : ScanHead(rx'[i]) => i \in 1 .. Len(rx)
  BY <1>1 DEF ScanHead
<1>4. \A i \in 1 .. Len(rx') : ScanHead(rx'[i]) => Near + UpTo(Heads(rx'), i) + k <= late + 1
  <2> TAKE i \in 1 .. Len(rx')
  <2> HAVE ScanHead(rx'[i])
  <2>1. i \in 1 .. Len(rx)
    BY <1>3
  <2>2. rx'[i] = rx[i] /\ UpTo(Heads(rx'), i) = UpTo(Heads(rx), i)
    BY <1>1, <2>1
  <2> QED
    BY <2>1, <2>2 DEF Behind
<1>5. /\ \A i \in 1 .. Len(cmds') : cmds'[i].do = "scan" =>
           Near' + Cardinality(Heads(rx')) + UpTo(Asks(cmds'), i) + k <= late' + 1
      /\ codec'.type = "scan" \/ ScanHeld' => Ahead' + k <= late' + 1
  BY <1>1, <1>2 DEF Behind
<1> QED
  BY <1>1, <1>2, <1>4, <1>5 DEF Behind

\* The command of a scan goes behind every question that is outstanding.
LEMMA ScanBehind ==
  ASSUME DriverTyped, StreamTyped, DriverTyped', Outstanding, NEW k \in Nat, Behind(k), Scan
  PROVE  Behind(0)'
<1>1. /\ Mild
      /\ \/ cmds' = cmds \/ \E c \in Plain : cmds' = Append(cmds, c)
         \/ cmds' = Append(cmds, [do |-> "scan", session |-> session'])
      /\ late' = late
  <2>1. Ours /\ ~ Request /\ ~ Timeout
    BY DEF Ours, Steps, Scan, Request, Timeout, Running
  <2> QED
    BY <2>1, MildSteps
<1>2. /\ rx \in Seq(LineTokens) /\ cmds \in Seq(Commands) /\ late \in Int /\ rx' = rx
      /\ waiter' = FALSE /\ ~ Running("wait") /\ UNCHANGED <<codec, dec>>
  <2>1. rx \in Seq(LineTokens) /\ cmds \in Seq(Commands) /\ late \in Int
    BY DEF StreamTyped, DriverTyped
  <2>2. rx' = rx /\ waiter' = FALSE /\ ~ Running("wait") /\ UNCHANGED <<codec, dec>>
    BY DEF Scan, Command, Running, stream
  <2> QED
    BY <2>1, <2>2
<1>3. Near' <= Near /\ Ahead' <= Ahead /\ (ScanHeld' <=> ScanHeld)
  <2>1. (AnswerHeld' <=> AnswerHeld) /\ (ScanHeld' <=> ScanHeld)
    BY <1>2 DEF AnswerHeld, ScanHeld
  <2>2. Bit(AnswerHeld') = Bit(AnswerHeld) /\ Bit(waiter') = 0 /\ Bit(waiter) \in {0, 1} /\ Bit(AnswerHeld) \in {0, 1}
    BY <1>2, <2>1, Counted
  <2>3. Ahead' <= Ahead
    BY <2>2 DEF Ahead
  <2>4. PICK a \in Int, b \in Int, m \in Int, n \in Int : a = Ahead /\ b = Ahead' /\ m = Near /\ n = Near'
    BY Amounts
  <2>5. b <= a /\ n - b = m - a
    BY <1>2, <2>3, <2>4, Amounts
  <2>6. n <= m
    BY <2>5
  <2> QED
    BY <2>1, <2>3, <2>4, <2>6
<1>4. /\ \A i \in 1 .. Len(rx) : UpTo(Heads(rx), i) \in Int
      /\ \A i \in 1 .. Len(cmds) : UpTo(Asks(cmds), i) \in Int
      /\ Cardinality(Heads(rx)) \in Int /\ Cardinality(Asks(cmds)) \in Int
  BY <1>2, Counted
<1>5. PICK m \in Int, n \in Int, l \in Int, h \in Int :
        m = Near /\ n = Near' /\ l = late /\ h = Cardinality(Heads(rx))
  BY <1>2, <1>4, Amounts
<1>6. n <= m /\ k \in Int /\ k >= 0
  BY <1>3, <1>5
<1>7. ASSUME NEW i \in 1 .. Len(rx), ScanHead(rx[i]) PROVE Near' + UpTo(Heads(rx), i) + 0 <= late' + 1
  <2>1. PICK u \in Int : u = UpTo(Heads(rx), i)
    BY <1>4
  <2>2. m + u + k <= l + 1
    BY <1>5, <1>7, <2>1, BehindNumbers
  <2>3. n + u + 0 <= l + 1
    BY <1>6, <2>2
  <2> QED
    BY <1>1, <1>5, <2>1, <2>3
<1>8. ASSUME NEW i \in 1 .. Len(cmds), cmds[i].do = "scan"
      PROVE  Near' + Cardinality(Heads(rx)) + UpTo(Asks(cmds), i) + 0 <= late' + 1
  <2>1. PICK u \in Int : u = UpTo(Asks(cmds), i)
    BY <1>4
  <2>2. m + h + u + k <= l + 1
    BY <1>5, <1>8, <2>1, BehindNumbers
  <2>3. n + h + u + 0 <= l + 1
    BY <1>6, <2>2
  <2> QED
    BY <1>1, <1>5, <2>1, <2>3
<1>9. \A i \in 1 .. Len(cmds') : cmds'[i].do = "scan" =>
        Near' + Cardinality(Heads(rx)) + UpTo(Asks(cmds'), i) + 0 <= late' + 1
  <2>1. CASE cmds' = cmds
    BY <1>8, <2>1
  <2>2. ASSUME NEW c \in Commands, c.do # "ask", cmds' = Append(cmds, c)
        PROVE  \A i \in 1 .. Len(cmds') : cmds'[i].do = "scan" =>
                 Near' + Cardinality(Heads(rx)) + UpTo(Asks(cmds'), i) + 0 <= late' + 1
    <3>1. /\ Len(cmds') = Len(cmds) + 1 /\ Len(cmds) \in Nat
          /\ \A i \in 1 .. Len(cmds) : cmds'[i] = cmds[i]
      BY <1>2, <2>2, AppendFacts
    <3>2. /\ \A i \in 1 .. Len(cmds) : UpTo(Asks(cmds'), i) = UpTo(Asks(cmds), i)
          /\ Cardinality(Asks(cmds')) = Cardinality(Asks(cmds)) + Bit(c.do = "ask")
      BY <1>2, <2>2, AsksKept
    <3>3. Bit(c.do = "ask") = 0
      BY <2>2, Counted
    <3>4. Cardinality(Asks(cmds')) = Cardinality(Asks(cmds))
      BY <1>4, <3>2, <3>3
    <3>5. \A i \in 1 .. Len(cmds') : UpTo(Asks(cmds'), i) \in Int /\ UpTo(Asks(cmds'), i) <= Cardinality(Asks(cmds'))
      <4>1. cmds' \in Seq(Commands)
        BY DEF DriverTyped
      <4> QED
        BY <4>1, Counted
    <3> TAKE i \in 1 .. Len(cmds')
    <3> HAVE cmds'[i].do = "scan"
    <3>6. CASE i \in 1 .. Len(cmds)
      BY <1>8, <3>1, <3>2, <3>6
    <3>7. CASE i \notin 1 .. Len(cmds)
      <4>1. PICK u \in Int, a \in Int : u = UpTo(Asks(cmds'), i) /\ a = Cardinality(Asks(cmds))
        BY <1>4, <3>5
      <4>2. Bit(Running("wait")) = 0
        BY <1>2, Counted
      <4>3. m + h + a <= l + 1 + 0
        BY <1>5, <4>1, <4>2 DEF Outstanding
      <4>4. u <= a
        BY <3>4, <3>5, <4>1
      <4>5. n + h + u + 0 <= l + 1
        BY <1>6, <4>3, <4>4
      <4> QED
        BY <1>1, <1>5, <4>1, <4>5
    <3> QED
      BY <3>6, <3>7
  <2>3. [do |-> "scan", session |-> session'] \in Commands
    BY DEF DriverTyped, Commands
  <2>4. \A c \in Plain : c \in Commands /\ c.do # "ask"
    BY DEF Plain
  <2> QED
    BY <1>1, <2>1, <2>2, <2>3, <2>4
<1>10. codec'.type = "scan" \/ ScanHeld' => Ahead' + 0 <= late' + 1
  <2> SUFFICES ASSUME codec'.type = "scan" \/ ScanHeld' PROVE Ahead' + 0 <= late' + 1
    OBVIOUS
  <2>1. Ahead + k <= late + 1
    BY <1>2, <1>3 DEF Behind
  <2>2. PICK a \in Int, b \in Int : a = Ahead /\ b = Ahead'
    BY Amounts
  <2>3. b <= a /\ a + k <= l + 1
    BY <1>3, <1>5, <2>1, <2>2
  <2>4. b + 0 <= l + 1
    BY <1>6, <2>3
  <2> QED
    BY <1>1, <1>5, <2>2, <2>4
<1> QED
  BY <1>2, <1>7, <1>9, <1>10 DEF Behind

LEMMA BehindInit == Init => BehindInv /\ Outstanding
<1> SUFFICES ASSUME Init PROVE BehindInv /\ Outstanding
  OBVIOUS
<1>1. /\ todo = Startup /\ rx = <<>> /\ cmds = <<>> /\ codec = Hunt /\ dec = Idle /\ ~ waiter /\ late = 0
  BY DEF Init
<1>2. ~ ScanHeld /\ ~ AnswerHeld /\ ~ IsAnswer(codec.type) /\ codec.type # "scan"
  BY <1>1 DEF ScanHeld, AnswerHeld, Idle, Hunt, IsAnswer, Questions
<1>3. Behind(4)
  BY <1>1, <1>2 DEF Behind
<1>4. Needs(todo, 0)
  <2>1. Startup \in Seq(DriverSteps)
    BY FirstScript DEF Guarded
  <2>2. \A i \in 1 .. Len(Startup) : i \in Nat
    OBVIOUS
  <2>3. \A i \in 1 .. Len(Startup) : UpTo(Musts(Startup), i) \in Nat
    BY <2>1, <2>2, MustsKept
  <2> QED
    BY <1>1, <2>3 DEF Needs
<1>5. 0 \in 0 .. 4 /\ 4 - 0 = 4
  OBVIOUS
<1>6. BehindInv
  BY <1>1, <1>3, <1>4, <1>5, StartupShaped DEF BehindInv, Started
<1>7. Outstanding
  <2>1. Heads(rx) = {} /\ Asks(cmds) = {}
    BY <1>1 DEF Heads, Asks
  <2>2. Cardinality(Heads(rx)) = 0 /\ Cardinality(Asks(cmds)) = 0
    BY <2>1, FS_EmptySet
  <2>3. Bit(waiter) = 0 /\ Bit(AnswerHeld) = 0 /\ Bit(IsAnswer(codec.type)) = 0 /\ Bit(Running("wait")) \in {0, 1}
    BY <1>1, <1>2, Counted
  <2> QED
    BY <1>1, <2>2, <2>3 DEF Outstanding, Near, Ahead
<1> QED
  BY <1>6, <1>7

LEMMA BehindStep ==
  ASSUME DriverTyped, StreamTyped, DriverTyped', StreamTyped', Outstanding, BehindInv, [Next]_vars
  PROVE  BehindInv'
<1>1. PICK n \in 0 .. 4 : Needs(todo, n) /\ Behind(4 - n)
  BY DEF BehindInv, Started
<1>2. Shaped(todo)
  BY DEF BehindInv
<1> DEFINE k == 4 - n
<1>3. k \in Nat
  BY <1>1
<1>4. 4 \in 0 .. 4 /\ 4 - 4 = 0 /\ 0 \in Nat
  OBVIOUS
<1>5. CASE Scan
  <2>1. todo # <<>> /\ Head(todo).op = "scan" /\ todo' = Tail(todo)
    BY <1>5 DEF Scan, Running, Proceed
  <2>2. Still(Tail(todo)) /\ Shaped(Tail(todo))
    BY <1>1, <1>2, <2>1, Onward
  <2>3. Needs(todo', 4)
    BY <2>1, <2>2 DEF Needs, Still
  <2>4. Behind(0)'
    BY <1>1, <1>3, <1>5, ScanBehind
  <2> QED
    BY <1>4, <2>1, <2>2, <2>3, <2>4 DEF BehindInv, Started
<1>6. CASE Ours /\ ~ Scan
  <2>1. /\ Mild
        /\ cmds' = cmds \/ \E c \in Commands : c.do # "scan" /\ cmds' = Append(cmds, c)
        /\ waiter' \in {waiter, FALSE}
    <3>1. /\ Mild
          /\ \/ cmds' = cmds
             \/ \E c \in Plain : cmds' = Append(cmds, c)
             \/ Request /\ cmds' = Append(cmds, [do |-> "ask", type |-> Head(todo).type])
      BY <1>6, MildSteps
    <3>2. ASSUME Request PROVE [do |-> "ask", type |-> Head(todo).type] \in Commands
      <4>1. Head(todo) \in DriverSteps /\ Head(todo).op = "ask"
        BY <3>2, HeadTail DEF Request, Running, DriverTyped
      <4>2. Head(todo).type \in Questions
        BY <4>1 DEF DriverSteps, PlainSteps, Detections
      <4> QED
        BY <4>2 DEF Commands
    <3>3. \A c \in Plain : c \in Commands /\ c.do # "scan"
      BY DEF Plain
    <3> QED
      BY <3>1, <3>2, <3>3 DEF Mild
  <2>2. Bit(waiter') <= Bit(waiter) /\ Bit(waiter) \in {0, 1} /\ Bit(waiter') \in {0, 1}
    <3>1. Bit(waiter) \in {0, 1} /\ Bit(waiter') \in {0, 1}
      BY Counted
    <3>2. CASE waiter' = FALSE
      BY <3>1, <3>2, Counted
    <3>3. CASE waiter' = waiter
      BY <3>1, <3>3
    <3> QED
      BY <2>1, <3>1, <3>2, <3>3
  <2>3. \A m \in Nat : m + Bit(waiter') <= k + Bit(waiter) => Behind(m)'
    <3> TAKE m \in Nat
    <3> QED
      BY <1>1, <1>3, <2>1, MildBehind
  <2>4. /\ Shaped(todo')
        /\ Needs(todo', 4) \/ Needs(todo', n) \/ (Take /\ n >= 1 /\ Needs(todo', n - 1))
    BY <1>1, <1>2, <1>6, Advances
  <2>5. CASE Needs(todo', 4)
    <3>1. 0 + Bit(waiter') <= k + Bit(waiter)
      BY <1>3, <2>2
    <3>2. Behind(0)'
      BY <1>4, <2>3, <3>1
    <3> QED
      BY <1>4, <2>4, <2>5, <3>2 DEF BehindInv, Started
  <2>6. CASE Needs(todo', n)
    <3>1. k + Bit(waiter') <= k + Bit(waiter)
      BY <1>3, <2>2
    <3>2. Behind(k)'
      BY <1>3, <2>3, <3>1
    <3> QED
      BY <1>1, <2>4, <2>6, <3>2 DEF BehindInv, Started
  <2>7. CASE Take /\ n >= 1 /\ Needs(todo', n - 1)
    <3>1. waiter /\ ~ waiter'
      BY <2>7 DEF Take
    <3>2. Bit(waiter) = 1 /\ Bit(waiter') = 0
      BY <3>1, Counted
    <3>3. k + 1 + Bit(waiter') <= k + Bit(waiter) /\ k + 1 \in Nat
      BY <1>3, <3>2
    <3>4. Behind(k + 1)'
      BY <2>3, <3>3
    <3>5. n - 1 \in 0 .. 4 /\ 4 - (n - 1) = k + 1
      BY <1>1, <2>7
    <3> QED
      BY <2>4, <2>7, <3>4, <3>5 DEF BehindInv, Started
  <2> QED
    BY <2>4, <2>5, <2>6, <2>7
<1>7. CASE Handover \/ Store \/ Unpack \/ Unplug \/ Decode \/ Obey \/ Measure
  <2>1. todo' = todo
    BY <1>7, Passes, DecodeFacts, ObeyFacts, MeasureArrives
  <2>2. Behind(k)'
    <3>1. CASE Handover \/ Store \/ Unpack \/ Unplug
      <4>1. /\ UNCHANGED <<rx, late, codec>> /\ (cmds' = cmds \/ cmds' = <<>>)
            /\ Near' <= Near + 0 /\ Ahead' <= Ahead /\ (ScanHeld' => ScanHeld)
        BY <3>1, Passes
      <4>2. Near' + k + late <= Near + k + late' /\ Ahead' + k + late <= Ahead + k + late'
        <5>1. PICK a \in Int, b \in Int, p \in Int, q \in Int, l \in Int :
                a = Ahead /\ b = Ahead' /\ p = Near /\ q = Near' /\ l = late
          BY Amounts DEF StreamTyped
        <5>2. q <= p /\ b <= a
          BY <4>1, <5>1
        <5>3. q + k + l <= p + k + l /\ b + k + l <= a + k + l
          BY <1>3, <5>2
        <5> QED
          BY <4>1, <5>1, <5>3
      <4>3. rx' = rx /\ (codec'.type = "scan" \/ ScanHeld' => codec.type = "scan" \/ ScanHeld)
        BY <4>1
      <4> HIDE DEF k
      <4>4. Behind(k)
        BY <1>1 DEF k
      <4> QED
        BY <1>3, <4>1, <4>2, <4>3, <4>4, Relaxed
    <3>2. CASE Decode
      BY <1>1, <1>3, <3>2, DecodeBehind
    <3>3. CASE Obey
      BY <1>1, <1>3, <3>3, ObeyBehind
    <3>4. CASE Measure
      BY <1>1, <1>3, <3>4, MeasureBehind
    <3> QED
      BY <1>7, <3>1, <3>2, <3>3, <3>4
  <2> QED
    BY <1>1, <1>2, <2>1, <2>2 DEF BehindInv, Started
<1> QED
  BY <1>5, <1>6, <1>7 DEF Next, Decoder, Ours
-----------------------------------------------------------------------------
(* The scan that the frames are of.                                        *)

Current(s) == s \in {0, session}

\* What is on its way of a scan is of the current one: the command, the frames
\* behind its head and the device, what the codec and the decoder have of it.
Fresh ==
  /\ \A i \in 1 .. Len(cmds) : cmds[i].do = "scan" => cmds[i].session = session
  /\ \A i \in 1 .. Len(rx) : ScanHead(rx[i]) =>
       Current(device.scan) /\ \A j \in 1 .. Len(rx) : i <= j => Current(rx[j].session)
  /\ codec.type = "scan" => Current(device.scan) /\ \A j \in 1 .. Len(rx) : Current(rx[j].session)
  /\ ScanHeld => Current(dec.msg.session)

FreshInv == late < 3 => Fresh

\* A step that moves no token and starts nothing.
LEMMA FreshKept ==
  ASSUME DriverTyped, Fresh, UNCHANGED <<rx, session>>, device'.scan = device.scan,
         \/ cmds' = cmds \/ cmds' = <<>>
         \/ \E c \in Commands : c.do # "scan" /\ cmds' = Append(cmds, c),
         codec'.type = "scan" => codec.type = "scan",
         ScanHeld' => ScanHeld /\ dec'.msg.session = dec.msg.session
  PROVE  Fresh'
<1>1. \A s : Current(s)' <=> Current(s)
  BY DEF Current
<1>2. \A i \in 1 .. Len(cmds') : cmds'[i].do = "scan" => cmds'[i].session = session'
  <2>1. \A i \in 1 .. Len(cmds) : cmds[i].do = "scan" => cmds[i].session = session
    BY DEF Fresh
  <2>2. CASE cmds' = cmds
    BY <2>1, <2>2
  <2>3. CASE cmds' = <<>>
    BY <2>3
  <2>4. CASE \E c \in Commands : c.do # "scan" /\ cmds' = Append(cmds, c)
    <3>1. PICK c \in Commands : c.do # "scan" /\ cmds' = Append(cmds, c)
      BY <2>4
    <3>2. cmds \in Seq(Commands)
      BY DEF DriverTyped
    <3>3. /\ Len(cmds') = Len(cmds) + 1 /\ Len(cmds) \in Nat /\ cmds'[Len(cmds) + 1] = c
          /\ \A i \in 1 .. Len(cmds) : cmds'[i] = cmds[i]
      BY <3>1, <3>2, AppendFacts
    <3>4. \A i \in 1 .. Len(cmds') : i \in 1 .. Len(cmds) \/ i = Len(cmds) + 1
      BY <3>3
    <3> QED
      BY <2>1, <3>1, <3>3, <3>4
  <2> QED
    BY <2>2, <2>3, <2>4
<1>3. \A i \in 1 .. Len(rx) : ScanHead(rx[i]) =>
        Current(device.scan) /\ \A j \in 1 .. Len(rx) : i <= j => Current(rx[j].session)
  BY DEF Fresh
<1>4. codec'.type = "scan" => Current(device.scan) /\ \A j \in 1 .. Len(rx) : Current(rx[j].session)
  BY DEF Fresh
<1>5. ScanHeld' => Current(dec'.msg.session)
  BY DEF Fresh
<1> QED
  BY <1>1, <1>2, <1>3, <1>4, <1>5 DEF Fresh, Current

LEMMA FreshInit == Init => FreshInv
<1> SUFFICES ASSUME Init PROVE Fresh
  BY DEF FreshInv
<1>1. rx = <<>> /\ cmds = <<>> /\ codec = Hunt /\ dec = Idle
  BY DEF Init
<1>2. codec.type # "scan" /\ ~ ScanHeld
  BY <1>1 DEF Hunt, Idle, ScanHeld
<1> QED
  BY <1>1, <1>2 DEF Fresh

\* A scan starts with nothing of the last one behind it.
LEMMA ScanFresh ==
  ASSUME DriverTyped, StreamTyped, BehindInv, late < 3, Scan
  PROVE  Fresh'
<1>1. PICK n \in 0 .. 4 : Needs(todo, n) /\ Behind(4 - n)
  BY DEF BehindInv, Started
<1>2. todo # <<>> /\ Head(todo).op \in Starts
  BY DEF Scan, Running, Starts
<1>3. n = 0
  BY <1>1, <1>2, Onward DEF BehindInv
<1>4. Behind(4)
  <2>1. 4 - n = 4
    BY <1>3
  <2> QED
    BY <1>1, <2>1
<1>5. rx \in Seq(LineTokens) /\ cmds \in Seq(Commands) /\ late \in Int
  BY DEF StreamTyped, DriverTyped
<1>6. PICK l \in Int, a \in Nat, m \in Nat, h \in Nat :
        l = late /\ a = Ahead /\ m = Near /\ h = Cardinality(Heads(rx))
  BY <1>5, Counted, Amounts
<1>7. \A i \in 1 .. Len(rx) : ~ ScanHead(rx[i])
  <2> SUFFICES ASSUME NEW i \in 1 .. Len(rx), ScanHead(rx[i]) PROVE FALSE
    OBVIOUS
  <2>1. PICK u \in Nat : u = UpTo(Heads(rx), i)
    BY <1>5, Counted
  <2>2. m + u + 4 <= l + 1 /\ l < 3
    BY <1>4, <1>6, <2>1 DEF Behind
  <2> QED
    BY <2>2
<1>8. \A i \in 1 .. Len(cmds) : cmds[i].do # "scan"
  <2> SUFFICES ASSUME NEW i \in 1 .. Len(cmds), cmds[i].do = "scan" PROVE FALSE
    OBVIOUS
  <2>1. PICK u \in Nat : u = UpTo(Asks(cmds), i)
    BY <1>5, Counted
  <2>2. m + h + u + 4 <= l + 1 /\ l < 3
    BY <1>4, <1>6, <2>1 DEF Behind
  <2> QED
    BY <2>2
<1>9. codec.type # "scan" /\ ~ ScanHeld
  <2> SUFFICES ASSUME codec.type = "scan" \/ ScanHeld PROVE FALSE
    OBVIOUS
  <2>1. a + 4 <= l + 1 /\ l < 3
    BY <1>4, <1>6 DEF Behind
  <2> QED
    BY <2>1
<1>10. UNCHANGED <<rx, codec, dec>>
  BY DEF Scan, stream
<1>11. ~ ScanHeld' /\ codec'.type # "scan"
  BY <1>9, <1>10 DEF ScanHeld
<1>12. cmds' = cmds \/ cmds' = Append(cmds, [do |-> "scan", session |-> session'])
  BY DEF Scan, Command, Send
<1>13. \A i \in 1 .. Len(cmds') : cmds'[i].do = "scan" => cmds'[i].session = session'
  <2>1. CASE cmds' = cmds
    BY <1>8, <2>1
  <2>2. CASE cmds' = Append(cmds, [do |-> "scan", session |-> session'])
    <3> DEFINE c == [do |-> "scan", session |-> session']
    <3>1. c.session = session' /\ cmds' = Append(cmds, c)
      BY <2>2
    <3> HIDE DEF c
    <3>2. /\ Len(cmds') = Len(cmds) + 1 /\ Len(cmds) \in Nat /\ cmds'[Len(cmds) + 1] = c
          /\ \A i \in 1 .. Len(cmds) : cmds'[i] = cmds[i]
      BY <1>5, <3>1
    <3>3. \A i \in 1 .. Len(cmds') : i \in 1 .. Len(cmds) \/ i = Len(cmds) + 1
      BY <3>2
    <3> QED
      BY <1>8, <3>1, <3>2, <3>3
  <2> QED
    BY <1>12, <2>1, <2>2
<1> QED
  BY <1>7, <1>10, <1>11, <1>13 DEF Fresh

LEMMA DecodeFresh ==
  ASSUME DriverTyped, StreamTyped, Fresh, Decode
  PROVE  Fresh'
<1>1. /\ rx # <<>> /\ rx' = Tail(rx) /\ UNCHANGED <<cmds, session, device>> /\ rx \in Seq(LineTokens)
      /\ ~ ScanHeld
  BY DecodeFacts DEF StreamTyped
<1>2. /\ Len(rx') = Len(rx) - 1 /\ Len(rx) \in Nat /\ 1 \in 1 .. Len(rx)
      /\ \A i \in 1 .. Len(rx') : i + 1 \in 1 .. Len(rx) /\ rx'[i] = rx[i + 1]
  BY <1>1
<1>3. \A s : Current(s)' <=> Current(s)
  BY <1>1 DEF Current
<1>4. /\ \A i \in 1 .. Len(cmds) : cmds[i].do = "scan" => cmds[i].session = session
      /\ \A i \in 1 .. Len(rx) : ScanHead(rx[i]) =>
           Current(device.scan) /\ \A j \in 1 .. Len(rx) : i <= j => Current(rx[j].session)
      /\ codec.type = "scan" => Current(device.scan) /\ \A j \in 1 .. Len(rx) : Current(rx[j].session)
  BY DEF Fresh
<1>5. \A i \in 1 .. Len(rx') : ScanHead(rx'[i]) =>
        Current(device.scan) /\ \A j \in 1 .. Len(rx') : i <= j => Current(rx'[j].session)
  <2> SUFFICES ASSUME NEW i \in 1 .. Len(rx'), ScanHead(rx'[i])
               PROVE  Current(device.scan) /\ \A j \in 1 .. Len(rx') : i <= j => Current(rx'[j].session)
    OBVIOUS
  <2>1. i + 1 \in 1 .. Len(rx) /\ ScanHead(rx[i + 1])
    BY <1>2
  <2>2. \A j \in 1 .. Len(rx') : i <= j => i + 1 <= j + 1
    BY <1>2
  <2> QED
    BY <1>2, <1>4, <2>1, <2>2
<1>6. codec'.type = "scan" => codec.type = "scan" \/ ScanHead(rx[1])
  BY DecodeWeighs
<1>7. codec'.type = "scan" => Current(device.scan) /\ \A j \in 1 .. Len(rx') : Current(rx'[j].session)
  <2>1. ScanHead(rx[1]) => Current(device.scan) /\ \A j \in 1 .. Len(rx) : Current(rx[j].session)
    <3>1. \A j \in 1 .. Len(rx) : 1 <= j
      BY <1>2
    <3> QED
      BY <1>2, <1>4, <3>1
  <2> QED
    BY <1>2, <1>4, <1>6, <2>1
<1>8. ScanHeld' => Current(dec'.msg.session)
  <2> SUFFICES ASSUME ScanHeld' PROVE Current(dec'.msg.session)
    OBVIOUS
  <2>1. dec' # dec
    BY <1>1 DEF ScanHeld
  <2>2. dec' = [pc |-> "copying", msg |-> [type |-> codec.type, session |-> rx[1].session,
                                           torn |-> rx[1].type # codec.type]]
    BY <2>1, DecodeFacts
  <2>3. codec.type = "scan" /\ dec'.msg.session = rx[1].session
    BY <2>2 DEF ScanHeld
  <2> QED
    BY <1>2, <1>4, <2>3
<1> QED
  BY <1>1, <1>3, <1>4, <1>5, <1>7, <1>8 DEF Fresh, Current

LEMMA ObeyFresh ==
  ASSUME DriverTyped, StreamTyped, Fresh, Obey
  PROVE  Fresh'
<1> DEFINE cmd == cmds[1]
<1>1. /\ cmds # <<>> /\ cmds' = Tail(cmds) /\ UNCHANGED <<codec, dec, session>> /\ cmds \in Seq(Commands)
      /\ device'.scan = device.scan \/ device'.scan = 0 \/ (cmd.do = "scan" /\ device'.scan = cmd.session)
      /\ cmd.do = "scan" => device'.scan = cmd.session
  BY ObeyFacts DEF DriverTyped
<1>2. /\ Len(rx') \in Nat /\ Len(rx) \in Nat
      /\ \A i \in 1 .. Len(rx) : i \in 1 .. Len(rx') /\ rx'[i] = rx[i]
      /\ \A i \in 1 .. Len(rx') :
           \/ i \in 1 .. Len(rx)
           \/ cmd.do = "ask" /\ rx'[i].type = cmd.type /\ rx'[i].session = 0 /\ rx'[i].type \in Questions
           \/ cmd.do = "scan" /\ rx'[i].type = "scan" /\ rx'[i].session = cmd.session
  BY ObeyArrives DEF AddsTo
<1>3. /\ Len(cmds') = Len(cmds) - 1 /\ Len(cmds) \in Nat /\ 1 \in 1 .. Len(cmds)
      /\ \A i \in 1 .. Len(cmds') : i + 1 \in 1 .. Len(cmds) /\ cmds'[i] = cmds[i + 1]
  BY <1>1
<1> HIDE DEF cmd
<1>4. /\ \A i \in 1 .. Len(cmds) : cmds[i].do = "scan" => cmds[i].session = session
      /\ \A i \in 1 .. Len(rx) : ScanHead(rx[i]) =>
           Current(device.scan) /\ \A j \in 1 .. Len(rx) : i <= j => Current(rx[j].session)
      /\ codec.type = "scan" => Current(device.scan) /\ \A j \in 1 .. Len(rx) : Current(rx[j].session)
      /\ ScanHeld => Current(dec.msg.session)
  BY DEF Fresh
<1>5. cmd.do = "scan" => cmd.session = session
  BY <1>3, <1>4 DEF cmd
<1>6. \A s : Current(s)' <=> Current(s)
  BY <1>1 DEF Current
<1>7. Current(0) /\ Current(session)
  BY DEF Current
<1>8. Current(device.scan) => Current(device'.scan)
  BY <1>1, <1>5, <1>7
<1>9. \A j \in 1 .. Len(rx') : j \notin 1 .. Len(rx) => Current(rx'[j].session)
  BY <1>2, <1>5, <1>7
<1>10. \A i \in 1 .. Len(cmds') : cmds'[i].do = "scan" => cmds'[i].session = session
  BY <1>3, <1>4
<1>11. ASSUME NEW i \in 1 .. Len(rx'), ScanHead(rx'[i])
       PROVE  Current(device'.scan) /\ \A j \in 1 .. Len(rx') : i <= j => Current(rx'[j].session)
  <2>1. CASE i \in 1 .. Len(rx)
    <3>1. ScanHead(rx[i])
      BY <1>2, <1>11, <2>1
    <3>2. Current(device.scan) /\ \A j \in 1 .. Len(rx) : i <= j => Current(rx[j].session)
      BY <1>4, <2>1, <3>1
    <3>3. \A j \in 1 .. Len(rx') : i <= j => Current(rx'[j].session)
      BY <1>2, <1>9, <3>2
    <3> QED
      BY <1>8, <3>2, <3>3
  <2>2. CASE i \notin 1 .. Len(rx)
    <3>1. cmd.do = "scan"
      BY <1>2, <1>11, <2>2 DEF ScanHead, Questions
    <3>2. Current(device'.scan)
      BY <1>1, <1>5, <1>7, <3>1
    <3>3. \A j \in 1 .. Len(rx') : i <= j => j \notin 1 .. Len(rx)
      BY <1>2, <2>2
    <3> QED
      BY <1>9, <3>2, <3>3
  <2> QED
    BY <2>1, <2>2
<1>12. ASSUME codec.type = "scan"
       PROVE  Current(device'.scan) /\ \A j \in 1 .. Len(rx') : Current(rx'[j].session)
  <2>1. \A j \in 1 .. Len(rx') : j \in 1 .. Len(rx) => Current(rx'[j].session)
    BY <1>2, <1>4, <1>12
  <2> QED
    BY <1>4, <1>8, <1>9, <1>12, <2>1
<1>13. ScanHeld' => Current(dec'.msg.session)
  BY <1>1, <1>4 DEF ScanHeld
<1> QED
  BY <1>1, <1>6, <1>10, <1>11, <1>12, <1>13 DEF Fresh, Current

LEMMA MeasureFresh ==
  ASSUME DriverTyped, StreamTyped, Fresh, Measure
  PROVE  Fresh'
<1> DEFINE b == [part |-> "body", type |-> "scan", session |-> device.scan]
<1>1. /\ UNCHANGED <<codec, dec, session, cmds, device>>
      /\ Len(rx') \in Nat /\ Len(rx) \in Nat
      /\ \A i \in 1 .. Len(rx) : i \in 1 .. Len(rx') /\ rx'[i] = rx[i]
      /\ \A i \in 1 .. Len(rx') : i \in 1 .. Len(rx) \/ rx'[i] = b
  BY MeasureArrives
<1>2. ~ ScanHead(b) /\ b.session = device.scan
  BY DEF ScanHead
<1> HIDE DEF b
<1>3. /\ \A i \in 1 .. Len(cmds) : cmds[i].do = "scan" => cmds[i].session = session
      /\ \A i \in 1 .. Len(rx) : ScanHead(rx[i]) =>
           Current(device.scan) /\ \A j \in 1 .. Len(rx) : i <= j => Current(rx[j].session)
      /\ codec.type = "scan" => Current(device.scan) /\ \A j \in 1 .. Len(rx) : Current(rx[j].session)
      /\ ScanHeld => Current(dec.msg.session)
  BY DEF Fresh
<1>4. \A s : Current(s)' <=> Current(s)
  BY <1>1 DEF Current
<1>5. ASSUME NEW i \in 1 .. Len(rx'), ScanHead(rx'[i])
      PROVE  Current(device.scan) /\ \A j \in 1 .. Len(rx') : i <= j => Current(rx'[j].session)
  <2>1. i \in 1 .. Len(rx) /\ ScanHead(rx[i])
    BY <1>1, <1>2, <1>5
  <2>2. Current(device.scan) /\ \A j \in 1 .. Len(rx) : i <= j => Current(rx[j].session)
    BY <1>3, <2>1
  <2> QED
    BY <1>1, <1>2, <2>2
<1>6. ASSUME codec.type = "scan"
      PROVE  Current(device.scan) /\ \A j \in 1 .. Len(rx') : Current(rx'[j].session)
  <2>1. Current(device.scan) /\ \A j \in 1 .. Len(rx) : Current(rx[j].session)
    BY <1>3, <1>6
  <2> QED
    BY <1>1, <1>2, <2>1
<1>7. ScanHeld' => Current(dec'.msg.session)
  BY <1>1, <1>3 DEF ScanHeld
<1> QED
  BY <1>1, <1>3, <1>4, <1>5, <1>6, <1>7 DEF Fresh, Current

LEMMA FreshStep ==
  ASSUME DriverTyped, StreamTyped, BehindInv, FreshInv, [Next]_vars
  PROVE  FreshInv'
<1>1. late \in Nat
  BY DEF StreamTyped
<1>2. CASE Ours
  <2>1. /\ Mild
        /\ Scan \/ session' = session
        /\ \/ cmds' = cmds
           \/ \E c \in Plain : cmds' = Append(cmds, c)
           \/ Request /\ cmds' = Append(cmds, [do |-> "ask", type |-> Head(todo).type])
           \/ Scan
    BY <1>2, MildSteps
  <2> SUFFICES ASSUME late' < 3 PROVE Fresh'
    BY DEF FreshInv
  <2>2. late < 3
    <3>1. late' = late \/ late' = late + 1
      BY <2>1 DEF Mild
    <3> QED
      BY <1>1, <3>1
  <2>3. CASE Scan
    BY <2>2, <2>3, ScanFresh
  <2>4. CASE ~ Scan
    <3>1. ASSUME Request PROVE [do |-> "ask", type |-> Head(todo).type] \in Commands
      <4>1. Head(todo) \in DriverSteps /\ Head(todo).op = "ask"
        BY <3>1, HeadTail DEF Request, Running, DriverTyped
      <4>2. Head(todo).type \in Questions
        BY <4>1 DEF DriverSteps, PlainSteps, Detections
      <4> QED
        BY <4>2 DEF Commands
    <3>2. \A c \in Plain : c \in Commands /\ c.do # "scan"
      BY DEF Plain
    <3>3. \/ cmds' = cmds \/ cmds' = <<>>
          \/ \E c \in Commands : c.do # "scan" /\ cmds' = Append(cmds, c)
      BY <2>1, <2>4, <3>1, <3>2
    <3>4. /\ ScanHeld' <=> ScanHeld
          /\ ScanHeld => dec'.msg.session = dec.msg.session
          /\ codec'.type = "scan" => codec.type = "scan"
      BY <2>1, MildFacts
    <3>5. UNCHANGED <<rx, session>> /\ device'.scan = device.scan /\ Fresh
      BY <2>1, <2>2, <2>4 DEF Mild, FreshInv
    <3> QED
      BY <3>3, <3>4, <3>5, FreshKept
  <2> QED
    BY <2>3, <2>4
<1>3. CASE Handover \/ Store \/ Unpack \/ Unplug
  <2>1. /\ UNCHANGED <<rx, late, session, codec>> /\ device'.scan = device.scan
        /\ cmds' = cmds \/ cmds' = <<>>
        /\ ScanHeld' => ScanHeld /\ dec'.msg.session = dec.msg.session
    BY <1>3, Passes
  <2> SUFFICES ASSUME late' < 3 PROVE Fresh'
    BY DEF FreshInv
  <2>2. Fresh
    BY <2>1 DEF FreshInv
  <2> QED
    BY <2>1, <2>2, FreshKept
<1>4. CASE Decode \/ Obey \/ Measure
  <2>1. late' = late
    BY <1>4, DecodeFacts, ObeyFacts, MeasureArrives
  <2> SUFFICES ASSUME late' < 3 PROVE Fresh'
    BY DEF FreshInv
  <2>2. Fresh
    BY <2>1 DEF FreshInv
  <2> QED
    BY <1>4, <2>2, DecodeFresh, ObeyFresh, MeasureFresh
<1> QED
  BY <1>2, <1>3, <1>4 DEF Next, Decoder, Ours

\* A start whose questions were answered has no old frame behind the answers.
LEMMA NoneOld == DriverTyped /\ StreamTyped /\ BehindInv /\ FreshInv => NoOldSamples
<1> SUFFICES ASSUME DriverTyped, StreamTyped, BehindInv, FreshInv, late < 3, dec.pc = "unpacking"
             PROVE  dec.msg.session \in {0, session} /\ ~ Running("scan")
  BY DEF NoOldSamples
<1>1. ScanHeld
  BY DEF StreamTyped, ScanHeld
<1>2. dec.msg.session \in {0, session}
  BY <1>1 DEF FreshInv, Fresh, Current
<1>3. ASSUME Running("scan") PROVE FALSE
  <2>1. PICK n \in 0 .. 4 : Needs(todo, n) /\ Behind(4 - n)
    BY DEF BehindInv, Started
  <2>2. todo # <<>> /\ Head(todo).op \in Starts
    BY <1>3 DEF Running, Starts
  <2>3. n = 0
    BY <2>1, <2>2, Onward DEF BehindInv
  <2>4. 4 - n = 4
    BY <2>3
  <2>5. Ahead + 4 <= late + 1
    BY <1>1, <2>1, <2>4 DEF Behind
  <2>6. PICK a \in Nat, l \in Nat : a = Ahead /\ l = late
    BY Amounts DEF StreamTyped
  <2>7. a + 4 <= l + 1 /\ l < 3
    BY <2>5, <2>6
  <2> QED
    BY <2>7
<1> QED
  BY <1>2, <1>3
-----------------------------------------------------------------------------
(* The dialogue: question, and answer, while nothing is late or lost.      *)

Calm == late = 0 /\ faults = 0

NoAsks    == \A i \in 1 .. Len(cmds) : cmds[i].do # "ask"
NoReplies == \A i \in 1 .. Len(rx) : rx[i].type = "scan"
Match(msg, type) == msg.type = type /\ ~ msg.torn

\* The question waited for is on its way to the device, or its answer on the way
\* back, or in the decoder's hand; or it is answered, or was dropped.
Quiet  == NoAsks /\ NoReplies /\ ~ AnswerHeld
Asked  ==
  /\ NoReplies /\ ~ AnswerHeld
  /\ \A i \in 1 .. Len(cmds) : cmds[i].do = "ask" =>
       cmds[i].type = armed /\ \A j \in 1 .. Len(cmds) : cmds[j].do = "ask" => j = i
Coming ==
  /\ NoAsks /\ ~ AnswerHeld
  /\ \A i \in 1 .. Len(rx) : rx[i].type # "scan" =>
       rx[i].type = armed /\ \A j \in 1 .. Len(rx) : i < j /\ rx[j].type # "scan" => rx[i].part = "head"
Answered == NoAsks /\ NoReplies /\ AnswerHeld /\ Match(dec.msg, armed)

\* The payload of an answer follows its header.
Paired ==
  /\ \A i \in 1 .. Len(rx) : IsHead(rx[i]) =>
       i + 1 \in 1 .. Len(rx) /\ rx[i + 1].part = "body" /\ rx[i + 1].type = rx[i].type
  /\ IsAnswer(codec.type) => 1 \in 1 .. Len(rx) /\ rx[1].part = "body" /\ rx[1].type = codec.type

Talk ==
  /\ waiter => Match(answer, armed)
  /\ taken.got # None => Match(taken.got, taken.asked)
  /\ Paired
  /\ Quiet \/ (Running("wait") /\ ~ waiter /\ (Asked \/ Coming \/ Answered))

Dialogue == Calm => Talk

LEMMA OneMore == \A c : Send(c) => faults' = faults \/ faults' = faults + 1
  BY DEF Send

LEMMA MotorOneMore == \A on : SetMotorSpeed(on) => faults' = faults \/ faults' = faults + 1
  BY OneMore DEF SetMotorSpeed, Command

\* What was late, and what was lost, is never forgotten.
LEMMA CalmBefore ==
  ASSUME DriverTyped, StreamTyped, [Next]_vars, Calm'
  PROVE  Calm /\ UNCHANGED <<late, faults>>
<1>1. late \in Nat /\ faults \in Nat
  BY DEF StreamTyped, DriverTyped
<1>2. late' = late \/ late' = late + 1
  <2>1. CASE Ours
    BY <2>1, MildSteps DEF Mild
  <2>2. CASE Handover \/ Store \/ Unpack \/ Unplug \/ Decode \/ Obey \/ Measure
    BY <2>2, Passes, DecodeFacts, ObeyFacts, MeasureArrives
  <2> QED
    BY <2>1, <2>2 DEF Next, Decoder, Ours
<1>3. faults' = faults \/ faults' = faults + 1
  <2>1. CASE Stop \/ Scan \/ Request
    BY <2>1, OneMore DEF Stop, Scan, Request, Command
  <2>2. CASE Motor \/ Grab
    BY <2>2, MotorOneMore DEF Motor, Grab, NoMotor
  <2>3. CASE Enable \/ Open \/ SetScanning \/ Disable \/ Join \/ Take \/ Timeout
    BY <2>3 DEF Enable, Open, SetScanning, Disable, Join, Take, Timeout
  <2>4. CASE Standby \/ Service \/ Quit \/ Surroundings \/ UNCHANGED vars
    BY <2>4 DEF Standby, Service, Quit, Begin, Surroundings, vars
  <2>5. CASE Decode \/ Handover \/ Store \/ Unpack \/ Measure \/ Unplug
    BY <2>5 DEF Decode, Handover, Store, Unpack, Measure, Unplug
  <2>6. CASE Obey
    BY <2>6, ObeyFacts, ReplyArrives
  <2> QED
    BY <2>1, <2>2, <2>3, <2>4, <2>5, <2>6 DEF Next, Steps, Loop, Decoder
<1> QED
  BY <1>1, <1>2, <1>3 DEF Calm

LEMMA TalkInit == Init => Talk
<1> SUFFICES ASSUME Init PROVE Talk
  OBVIOUS
<1>1. rx = <<>> /\ cmds = <<>> /\ codec = Hunt /\ dec = Idle /\ ~ waiter /\ taken.got = None
  BY DEF Init
<1>2. Len(<<>>) = 0
  OBVIOUS
<1>3. ~ AnswerHeld /\ ~ IsAnswer(codec.type)
  BY <1>1 DEF AnswerHeld, Idle, Hunt, IsAnswer, Questions
<1> QED
  BY <1>1, <1>2, <1>3 DEF Talk, Paired, Quiet, NoAsks, NoReplies

\* A command that asks nothing.
LEMMA AsksNothing ==
  ASSUME DriverTyped, NoAsks, cmds' = cmds \/ \E c \in Commands : c.do # "ask" /\ cmds' = Append(cmds, c)
  PROVE  NoAsks'
<1>1. CASE cmds' = cmds
  BY <1>1 DEF NoAsks
<1>2. CASE \E c \in Commands : c.do # "ask" /\ cmds' = Append(cmds, c)
  <2>1. PICK c \in Commands : c.do # "ask" /\ cmds' = Append(cmds, c)
    BY <1>2
  <2>2. cmds \in Seq(Commands)
    BY DEF DriverTyped
  <2>3. /\ Len(cmds') = Len(cmds) + 1 /\ Len(cmds) \in Nat /\ cmds'[Len(cmds) + 1] = c
        /\ \A i \in 1 .. Len(cmds) : cmds'[i] = cmds[i]
    BY <2>1, <2>2, AppendFacts
  <2>4. \A i \in 1 .. Len(cmds') : i \in 1 .. Len(cmds) \/ i = Len(cmds) + 1
    BY <2>3
  <2> QED
    BY <2>1, <2>3, <2>4 DEF NoAsks
<1> QED
  BY <1>1, <1>2

\* The node's thread leaves what is on the line as it is.
LEMMA PairedMild ==
  ASSUME Paired, Mild
  PROVE  Paired'
<1>1. rx' = rx /\ (codec' = codec \/ codec' = Hunt)
  BY DEF Mild
<1>2. ~ IsAnswer(Hunt.type)
  BY DEF Hunt, IsAnswer, Questions
<1> QED
  BY <1>1, <1>2 DEF Paired

\* No step but the wait runs while the node waits.
LEMMA OnlyWaits ==
  ASSUME Ours, ~ Request, ~ Take, ~ Timeout, Running("wait")
  PROVE  UNCHANGED <<rx, cmds, codec, dec, waiter, answer, armed, taken, todo>>
<1>1. ~ Steps
  BY DEF Steps, Running, Stop, Enable, Scan, Motor, Open, SetScanning, Disable, Join
<1>2. ~ Loop /\ ~ Service
  BY DEF Loop, Service, Standby, Grab, Quit, Begin, InLoop, Running
<1> QED
  BY <1>1, <1>2 DEF Ours, Surroundings, vars, node, stream, reply

LEMMA TalkMild ==
  ASSUME DriverTyped, StreamTyped, Talk, Ours, ~ Request, ~ Take, ~ Timeout
  PROVE  Talk'
<1>1. /\ Mild
      /\ \/ cmds' = cmds
         \/ \E c \in Plain : cmds' = Append(cmds, c)
         \/ Scan /\ cmds' = Append(cmds, [do |-> "scan", session |-> session'])
      /\ armed' = armed /\ taken' = taken /\ (waiter' = FALSE \/ waiter' = waiter)
  BY MildSteps
<1>2. StreamTyped' /\ (AnswerHeld' <=> AnswerHeld)
  BY <1>1, MildFacts
<1>3. answer' = answer /\ Paired'
  BY <1>1, PairedMild DEF Mild, Talk
<1>4. ASSUME Quiet PROVE Quiet'
  <2>1. [do |-> "scan", session |-> session'] \in Commands \/ ~ Scan
    BY DEF Scan, DriverTyped, Commands
  <2>2. \A c \in Plain : c \in Commands /\ c.do # "ask"
    BY DEF Plain
  <2>3. cmds' = cmds \/ \E c \in Commands : c.do # "ask" /\ cmds' = Append(cmds, c)
    BY <1>1, <2>1, <2>2
  <2>4. NoAsks'
    BY <1>4, <2>3, AsksNothing DEF Quiet
  <2> QED
    BY <1>1, <1>2, <1>4, <2>4 DEF Quiet, NoReplies, Mild
<1>5. ASSUME Running("wait"), ~ waiter, Asked \/ Coming \/ Answered
      PROVE  Running("wait")' /\ ~ waiter' /\ (Asked' \/ Coming' \/ Answered')
  <2>1. UNCHANGED <<rx, cmds, codec, dec, waiter, answer, armed, taken, todo>>
    BY <1>5, OnlyWaits
  <2>2. Running("wait")' /\ ~ waiter'
    BY <1>5, <2>1 DEF Running
  <2> QED
    BY <1>2, <1>5, <2>1, <2>2 DEF Asked, Coming, Answered, NoAsks, NoReplies, Match
<1> QED
  BY <1>1, <1>3, <1>4, <1>5 DEF Talk, Match

\* The question is the only one.
LEMMA TalkRequest ==
  ASSUME DriverTyped, StreamTyped, Talk, Request
  PROVE  Talk'
<1> DEFINE c == [do |-> "ask", type |-> Head(todo).type]
<1>1. Ours /\ ~ Scan /\ ~ Take
  BY DEF Ours, Steps, Request, Scan, Take, Running
<1>2. Mild /\ taken' = taken /\ (AnswerHeld' <=> AnswerHeld)
  BY <1>1, MildSteps, MildFacts
<1>3. /\ armed' = Head(todo).type /\ waiter' = FALSE /\ ~ Running("wait") /\ todo # <<>>
      /\ todo' = [todo EXCEPT ![1].op = "wait"]
      /\ cmds' = cmds \/ cmds' = Append(cmds, c)
  BY DEF Request, Arm, Send, Running
<1>4. Quiet
  BY <1>3 DEF Talk
<1>5. Paired' /\ NoReplies' /\ ~ AnswerHeld'
  BY <1>2, <1>4, PairedMild DEF Talk, Quiet, NoReplies, Mild
<1>6. Running("wait")'
  <2>1. todo \in Seq(DriverSteps) /\ Head(todo) \in DriverSteps
    BY <1>3, HeadTail DEF DriverTyped, Guarded
  <2>2. Head(todo).op = "ask" /\ Head(todo) = todo[1] /\ 1 \in DOMAIN todo
    BY <1>3, <2>1 DEF Request, Running
  <2>3. todo[1] = [op |-> todo[1].op, type |-> todo[1].type, else |-> todo[1].else]
    BY <2>1, <2>2 DEF DriverSteps, PlainSteps, Detections
  <2>4. todo'[1].op = "wait" /\ todo' # <<>> /\ Head(todo') = todo'[1]
    BY <1>3, <2>1, <2>2, <2>3
  <2> QED
    BY <2>4 DEF Running
<1>7. Quiet' \/ Asked'
  <2>1. CASE cmds' = cmds
    BY <1>4, <1>5, <2>1 DEF Quiet, NoAsks
  <2>2. CASE cmds' = Append(cmds, c)
    <3>1. cmds \in Seq(Commands) /\ c.do = "ask" /\ c.type = armed'
      BY <1>3 DEF DriverTyped
    <3> HIDE DEF c
    <3>2. /\ Len(cmds') = Len(cmds) + 1 /\ Len(cmds) \in Nat /\ cmds'[Len(cmds) + 1] = c
          /\ \A i \in 1 .. Len(cmds) : cmds'[i] = cmds[i]
      BY <2>2, <3>1
    <3>3. \A i \in 1 .. Len(cmds') : i \in 1 .. Len(cmds) \/ i = Len(cmds) + 1
      BY <3>2
    <3>4. \A i \in 1 .. Len(cmds') : cmds'[i].do = "ask" => i = Len(cmds) + 1
      BY <1>4, <3>2, <3>3 DEF Quiet, NoAsks
    <3>5. \A i \in 1 .. Len(cmds') : cmds'[i].do = "ask" =>
            cmds'[i].type = armed' /\ \A j \in 1 .. Len(cmds') : cmds'[j].do = "ask" => j = i
      BY <3>1, <3>2, <3>4
    <3> QED
      BY <1>5, <3>5 DEF Asked
  <2> QED
    BY <1>3, <2>1, <2>2
<1> QED
  BY <1>2, <1>3, <1>5, <1>6, <1>7 DEF Talk, Match

LEMMA TalkTake ==
  ASSUME DriverTyped, StreamTyped, Talk, Take
  PROVE  Talk'
<1>1. Ours /\ ~ Scan /\ ~ Request
  BY DEF Ours, Steps, Request, Scan, Take, Running
<1>2. Mild /\ (AnswerHeld' <=> AnswerHeld)
  BY <1>1, MildSteps, MildFacts
<1>3. waiter /\ ~ waiter' /\ taken' = [asked |-> armed, got |-> answer] /\ UNCHANGED <<rx, cmds>>
  BY DEF Take
<1>4. Match(answer, armed) /\ Quiet
  BY <1>3 DEF Talk
<1>5. Match(taken'.got, taken'.asked)
  BY <1>3, <1>4
<1>6. Paired' /\ Quiet'
  BY <1>2, <1>3, <1>4, PairedMild DEF Talk, Quiet, NoAsks, NoReplies
<1> QED
  BY <1>3, <1>5, <1>6 DEF Talk, Match

\* A question is given up while nothing is on its way.
LEMMA TalkTimeout ==
  ASSUME DriverTyped, StreamTyped, Talk, Timeout, late' = late
  PROVE  Talk'
<1>1. Ours /\ ~ Scan /\ ~ Request /\ ~ Take
  BY DEF Ours, Steps, Request, Scan, Take, Timeout, Running
<1>2. Mild /\ (AnswerHeld' <=> AnswerHeld) /\ taken' = taken /\ armed' = armed
  BY <1>1, MildSteps, MildFacts
<1>3. ~ waiter /\ UNCHANGED <<rx, cmds, waiter, dec>>
  BY DEF Timeout, reply, stream
<1>4. ~ Pending
  BY DEF Timeout, StreamTyped
<1>5. rx \in Seq(LineTokens) /\ cmds \in Seq(Commands)
  BY DEF StreamTyped, DriverTyped
<1>6. DOMAIN rx = 1 .. Len(rx) /\ DOMAIN cmds = 1 .. Len(cmds)
  BY <1>5
<1>7. NoAsks /\ NoReplies
  BY <1>4, <1>6 DEF Pending, NoAsks, NoReplies
<1>8. ~ AnswerHeld
  BY <1>4 DEF Pending, AnswerHeld, IsAnswer, Questions
<1>9. Quiet' /\ Paired'
  BY <1>2, <1>3, <1>7, <1>8, PairedMild DEF Quiet, NoAsks, NoReplies, Talk
<1> QED
  BY <1>2, <1>3, <1>9 DEF Talk, Match

\* Frames of a scan arrive behind what is on its way.
LEMMA FramesArrive ==
  ASSUME Len(rx') \in Nat, Len(rx) \in Nat, codec' = codec, armed' = armed,
         \A i \in 1 .. Len(rx) : i \in 1 .. Len(rx') /\ rx'[i] = rx[i],
         \A i \in 1 .. Len(rx') : i \in 1 .. Len(rx) \/ rx'[i].type = "scan"
  PROVE  /\ NoReplies => NoReplies'
         /\ Paired => Paired'
         /\ Coming /\ NoAsks' /\ ~ AnswerHeld' => Coming'
<1>1. ~ IsAnswer("scan")
  BY DEF IsAnswer, Questions
<1>2. NoReplies => NoReplies'
  BY DEF NoReplies
<1>3. Paired => Paired'
  <2> SUFFICES ASSUME Paired PROVE Paired'
    OBVIOUS
  <2>1. ASSUME NEW i \in 1 .. Len(rx'), IsHead(rx'[i])
        PROVE  i + 1 \in 1 .. Len(rx') /\ rx'[i + 1].part = "body" /\ rx'[i + 1].type = rx'[i].type
    <3>1. i \in 1 .. Len(rx) /\ rx'[i] = rx[i]
      BY <1>1, <2>1 DEF IsHead
    <3>2. i + 1 \in 1 .. Len(rx) /\ rx[i + 1].part = "body" /\ rx[i + 1].type = rx[i].type
      BY <2>1, <3>1 DEF Paired
    <3> QED
      BY <3>1, <3>2
  <2>2. IsAnswer(codec'.type) => 1 \in 1 .. Len(rx') /\ rx'[1].part = "body" /\ rx'[1].type = codec'.type
    BY DEF Paired
  <2> QED
    BY <2>1, <2>2 DEF Paired
<1>4. ASSUME Coming, NoAsks', ~ AnswerHeld' PROVE Coming'
  <2>1. \A i \in 1 .. Len(rx') : rx'[i].type # "scan" => i \in 1 .. Len(rx) /\ rx'[i] = rx[i]
    OBVIOUS
  <2>2. \A i \in 1 .. Len(rx') : rx'[i].type # "scan" =>
          /\ rx'[i].type = armed
          /\ \A j \in 1 .. Len(rx') : i < j /\ rx'[j].type # "scan" => rx'[i].part = "head"
    BY <1>4, <2>1 DEF Coming
  <2> QED
    BY <1>4, <2>2 DEF Coming
<1> QED
  BY <1>2, <1>3, <1>4

LEMMA TalkMeasure ==
  ASSUME DriverTyped, StreamTyped, Talk, Measure
  PROVE  Talk'
<1>1. /\ UNCHANGED <<waiter, codec, dec, todo, armed, answer, taken, cmds>>
      /\ Len(rx') \in Nat /\ Len(rx) \in Nat
      /\ \A i \in 1 .. Len(rx) : i \in 1 .. Len(rx') /\ rx'[i] = rx[i]
      /\ \A i \in 1 .. Len(rx') :
           i \in 1 .. Len(rx) \/ rx'[i] = [part |-> "body", type |-> "scan", session |-> device.scan]
  BY MeasureArrives
<1>2. \A i \in 1 .. Len(rx') : i \in 1 .. Len(rx) \/ rx'[i].type = "scan"
  BY <1>1
<1>3. /\ NoReplies => NoReplies'
      /\ Paired => Paired'
      /\ Coming /\ NoAsks' /\ ~ AnswerHeld' => Coming'
  BY <1>1, <1>2, FramesArrive
<1>4. (AnswerHeld' <=> AnswerHeld) /\ (NoAsks' <=> NoAsks) /\ (Running("wait")' <=> Running("wait"))
  BY <1>1 DEF AnswerHeld, NoAsks, Running
<1>5. (Quiet => Quiet') /\ (Asked => Asked') /\ (Answered => Answered') /\ (Coming => Coming')
  BY <1>1, <1>3, <1>4 DEF Quiet, Asked, Answered, Coming, Match
<1> QED
  BY <1>1, <1>3, <1>4, <1>5 DEF Talk, Match

\* The codec takes a token: the header of an answer, then its payload.
LEMMA TalkDecode ==
  ASSUME DriverTyped, StreamTyped, Talk, Decode, faults' = faults
  PROVE  Talk'
<1>1. /\ rx # <<>> /\ rx[1] \in LineTokens /\ rx' = Tail(rx) /\ rx \in Seq(LineTokens) /\ ~ AnswerHeld
      /\ UNCHANGED <<waiter, cmds, todo, armed, answer, taken>>
  BY DecodeFacts DEF StreamTyped, Decode, reply
<1>2. /\ Len(rx') = Len(rx) - 1 /\ Len(rx) \in Nat /\ 1 \in 1 .. Len(rx)
      /\ \A i \in 1 .. Len(rx') : i + 1 \in 1 .. Len(rx) /\ rx'[i] = rx[i + 1]
  BY <1>1
<1>3. (NoReplies => NoReplies') /\ (NoAsks' <=> NoAsks) /\ (Running("wait")' <=> Running("wait"))
  BY <1>1, <1>2 DEF NoReplies, NoAsks, Running
<1>4. \A i \in 1 .. Len(rx') : IsHead(rx'[i]) =>
        i + 1 \in 1 .. Len(rx') /\ rx'[i + 1].part = "body" /\ rx'[i + 1].type = rx'[i].type
  <2> SUFFICES ASSUME NEW i \in 1 .. Len(rx'), IsHead(rx'[i])
               PROVE  i + 1 \in 1 .. Len(rx') /\ rx'[i + 1].part = "body" /\ rx'[i + 1].type = rx'[i].type
    OBVIOUS
  <2>1. i + 1 \in 1 .. Len(rx) /\ IsHead(rx[i + 1])
    BY <1>2
  <2>2. /\ (i + 1) + 1 \in 1 .. Len(rx) /\ rx[(i + 1) + 1].part = "body"
        /\ rx[(i + 1) + 1].type = rx[i + 1].type
    BY <2>1 DEF Talk, Paired
  <2>3. i + 1 \in 1 .. Len(rx')
    BY <1>2, <2>2
  <2> QED
    BY <1>2, <2>2, <2>3
\* Before the step: nothing is in hand.
<1>5. Quiet \/ (Running("wait") /\ ~ waiter /\ (Asked \/ Coming))
  BY <1>1 DEF Talk, Answered
<1>6. ASSUME ~ AnswerHeld'
      PROVE  Quiet' \/ (Running("wait")' /\ ~ waiter' /\ (Asked' \/ Coming'))
  <2>1. Quiet => Quiet'
    BY <1>3, <1>6 DEF Quiet
  <2>2. Asked => Asked'
    BY <1>1, <1>3, <1>6 DEF Asked
  <2>3. Coming => Coming'
    <3> SUFFICES ASSUME Coming PROVE Coming'
      OBVIOUS
    <3>1. ASSUME NEW i \in 1 .. Len(rx'), rx'[i].type # "scan"
          PROVE  /\ rx'[i].type = armed
                 /\ \A j \in 1 .. Len(rx') : i < j /\ rx'[j].type # "scan" => rx'[i].part = "head"
      <4>1. \A j \in 1 .. Len(rx') : i < j => i + 1 < j + 1
        BY <1>2
      <4> QED
        BY <1>2, <3>1, <4>1 DEF Coming
    <3> QED
      BY <1>1, <1>3, <1>6, <3>1 DEF Coming
  <2> QED
    BY <1>1, <1>3, <1>5, <2>1, <2>2, <2>3
<1>7. ASSUME ~ AnswerHeld', Paired' PROVE Talk'
  BY <1>1, <1>6, <1>7 DEF Talk, Match
<1>8. CASE codec = Hunt /\ rx[1].part = "head" /\ codec' = [type |-> rx[1].type] /\ dec' = dec
  <2>1. IsAnswer(codec'.type) => 1 \in 1 .. Len(rx') /\ rx'[1].part = "body" /\ rx'[1].type = codec'.type
    <3> SUFFICES ASSUME IsAnswer(rx[1].type)
                 PROVE  1 \in 1 .. Len(rx') /\ rx'[1].part = "body" /\ rx'[1].type = rx[1].type
      BY <1>8
    <3>1. IsHead(rx[1])
      BY <1>8 DEF IsHead
    <3>2. 1 + 1 \in 1 .. Len(rx) /\ rx[1 + 1].part = "body" /\ rx[1 + 1].type = rx[1].type
      BY <1>2, <3>1 DEF Talk, Paired
    <3>3. 1 \in 1 .. Len(rx')
      BY <1>2, <3>2
    <3> QED
      BY <1>2, <3>2, <3>3
  <2>2. Paired'
    BY <1>4, <2>1 DEF Paired
  <2>3. ~ AnswerHeld'
    BY <1>1, <1>8 DEF AnswerHeld
  <2> QED
    BY <1>7, <2>2, <2>3
<1>9. CASE codec' \in {Hunt, Adrift} /\ dec' = dec
  <2>1. ~ IsAnswer(codec'.type)
    BY <1>9 DEF Hunt, Adrift, IsAnswer, Questions
  <2>2. Paired'
    BY <1>4, <2>1 DEF Paired
  <2>3. ~ AnswerHeld'
    BY <1>1, <1>9 DEF AnswerHeld
  <2> QED
    BY <1>7, <2>2, <2>3
<1>10. CASE /\ codec.type \in TokenTypes
            /\ dec' = [pc |-> "copying", msg |-> [type |-> codec.type, session |-> rx[1].session,
                                                  torn |-> rx[1].type # codec.type]]
            /\ codec' = IF codec.type = "scan" THEN codec ELSE Hunt
  <2>1. ~ IsAnswer(codec'.type)
    BY <1>10 DEF Hunt, IsAnswer, Questions
  <2>2. Paired'
    BY <1>4, <2>1 DEF Paired
  <2>3. dec'.pc = "copying" /\ dec'.msg.type = codec.type /\ dec'.msg.torn = (rx[1].type # codec.type)
    BY <1>10
  <2>4. CASE codec.type = "scan"
    <3>1. ~ AnswerHeld'
      BY <2>3, <2>4 DEF AnswerHeld, IsAnswer, Questions
    <3> QED
      BY <1>7, <2>2, <3>1
  <2>5. CASE codec.type # "scan"
    <3>1. IsAnswer(codec.type)
      BY <1>10, <2>5 DEF IsAnswer, TokenTypes
    <3>2. rx[1].part = "body" /\ rx[1].type = codec.type /\ rx[1].type # "scan"
      BY <2>5, <3>1 DEF Talk, Paired
    <3>3. Running("wait") /\ ~ waiter /\ Coming
      BY <1>2, <1>5, <3>2 DEF Quiet, Asked, NoReplies
    <3>4. codec.type = armed /\ \A j \in 1 .. Len(rx) : 1 < j => rx[j].type = "scan"
      BY <1>2, <3>2, <3>3 DEF Coming
    <3>5. NoReplies'
      <4>1. \A i \in 1 .. Len(rx') : 1 < i + 1
        BY <1>2
      <4> QED
        BY <1>2, <3>4, <4>1 DEF NoReplies
    <3>6. Match(dec'.msg, armed') /\ AnswerHeld'
      BY <1>1, <2>3, <3>1, <3>2, <3>4 DEF Match, AnswerHeld
    <3>7. Answered'
      BY <1>3, <3>3, <3>5, <3>6 DEF Answered, Coming, Match
    <3> QED
      BY <1>1, <1>3, <2>2, <3>3, <3>7 DEF Talk, Match
  <2> QED
    BY <2>4, <2>5
<1> QED
  BY <1>8, <1>9, <1>10, DecodeFacts

\* The decoder gives its message to the node, or gives it up.
LEMMA TalkPass ==
  ASSUME DriverTyped, StreamTyped, Talk, Handover \/ Store \/ Unpack
  PROVE  Talk'
<1>1. UNCHANGED <<rx, cmds, codec, todo, armed, taken>>
  BY HandoverFacts DEF Store, Unpack, node, reply
<1>2. /\ Paired' /\ (NoAsks' <=> NoAsks) /\ (NoReplies' <=> NoReplies)
      /\ Running("wait")' <=> Running("wait")
  BY <1>1 DEF Talk, Paired, NoAsks, NoReplies, Running
<1>3. CASE Store
  <2>1. answer' = dec.msg /\ waiter' = TRUE /\ dec' = Idle /\ AnswerHeld
    BY <1>3 DEF Store, AnswerHeld, StreamTyped
  <2>2. Answered
    BY <2>1 DEF Talk, Quiet, Asked, Coming
  <2>3. Match(answer', armed')
    BY <1>1, <2>1, <2>2 DEF Answered
  <2>4. ~ AnswerHeld'
    BY <2>1 DEF AnswerHeld, Idle
  <2>5. Quiet'
    BY <1>2, <2>2, <2>4 DEF Quiet, Answered
  <2> QED
    BY <1>1, <1>2, <2>3, <2>5 DEF Talk, Match
<1>4. CASE Handover \/ Unpack
  <2>1. UNCHANGED <<waiter, answer>>
    BY <1>4, HandoverFacts DEF Unpack, reply
  <2>2. ~ AnswerHeld' \/ (AnswerHeld /\ dec'.msg = dec.msg)
    <3>1. CASE Unpack
      BY <3>1 DEF Unpack, AnswerHeld, Idle
    <3>2. CASE Handover
      BY <3>2, HandoverFacts DEF AnswerHeld, Idle, IsAnswer, Questions
    <3> QED
      BY <1>4, <3>1, <3>2
  <2>3. Quiet => Quiet'
    BY <1>2, <2>2 DEF Quiet
  <2>4. Asked => Asked'
    BY <1>1, <1>2, <2>2 DEF Asked
  <2>5. Coming => Coming'
    BY <1>1, <1>2, <2>2 DEF Coming
  <2>6. Answered => Answered' \/ Quiet'
    BY <1>1, <1>2, <2>2 DEF Answered, Quiet, Match
  <2> QED
    BY <1>1, <1>2, <2>1, <2>3, <2>4, <2>5, <2>6 DEF Talk, Match
<1> QED
  BY <1>3, <1>4

\* The device answers the question, whole.
LEMMA TalkObey ==
  ASSUME DriverTyped, StreamTyped, Talk, Obey, faults' = faults
  PROVE  Talk'
<1> DEFINE cmd == cmds[1]
<1>1. /\ cmds # <<>> /\ cmds \in Seq(Commands) /\ rx \in Seq(LineTokens) /\ cmds' = Tail(cmds)
      /\ UNCHANGED <<waiter, codec, dec, todo, armed, answer, taken>>
  BY ObeyFacts DEF DriverTyped, StreamTyped
<1>2. /\ Len(cmds') = Len(cmds) - 1 /\ Len(cmds) \in Nat /\ 1 \in 1 .. Len(cmds)
      /\ \A i \in 1 .. Len(cmds') : i + 1 \in 1 .. Len(cmds) /\ cmds'[i] = cmds[i + 1]
  BY <1>1
<1>3. /\ Len(rx') \in Nat /\ Len(rx) \in Nat
      /\ \A i \in 1 .. Len(rx) : i \in 1 .. Len(rx') /\ rx'[i] = rx[i]
      /\ \A i \in 1 .. Len(rx') : \/ i \in 1 .. Len(rx)
                                  \/ cmd.do = "ask" /\ rx'[i].type = cmd.type
                                  \/ cmd.do = "scan" /\ rx'[i].type = "scan"
  BY ObeyArrives DEF AddsTo
<1>4. (AnswerHeld' <=> AnswerHeld) /\ (NoAsks => NoAsks') /\ (Running("wait")' <=> Running("wait"))
  BY <1>1, <1>2 DEF AnswerHeld, NoAsks, Running
<1>5. \/ rx' = rx
      \/ cmd.do = "scan"
      \/ cmd.do = "ask" /\ \E type \in TokenTypes, s \in Nat :
           type = cmd.type /\ type \in Questions /\ Reply(Tokens(type, s))
  BY ObeyFacts
<1> HIDE DEF cmd
<1>6. CASE cmd.do # "ask" \/ rx' = rx
  <2>1. \A i \in 1 .. Len(rx') : i \in 1 .. Len(rx) \/ rx'[i].type = "scan"
    BY <1>3, <1>6
  <2>2. /\ NoReplies => NoReplies'
        /\ Paired => Paired'
        /\ Coming /\ NoAsks' /\ ~ AnswerHeld' => Coming'
    BY <1>1, <1>3, <2>1, FramesArrive
  <2>3. Asked => Asked'
    <3> SUFFICES ASSUME Asked PROVE Asked'
      OBVIOUS
    <3>1. ASSUME NEW i \in 1 .. Len(cmds'), cmds'[i].do = "ask"
          PROVE  cmds'[i].type = armed /\ \A j \in 1 .. Len(cmds') : cmds'[j].do = "ask" => j = i
      <4>1. i + 1 \in 1 .. Len(cmds) /\ cmds[i + 1].do = "ask" /\ cmds'[i] = cmds[i + 1]
        BY <1>2, <3>1
      <4>2. cmds[i + 1].type = armed /\ \A j \in 1 .. Len(cmds) : cmds[j].do = "ask" => j = i + 1
        BY <4>1 DEF Asked
      <4>3. ASSUME NEW j \in 1 .. Len(cmds'), cmds'[j].do = "ask" PROVE j = i
        <5>1. j + 1 = i + 1
          BY <1>2, <4>2, <4>3
        <5> QED
          BY <5>1
      <4> QED
        BY <4>1, <4>2, <4>3
    <3> QED
      BY <1>1, <1>4, <2>2, <3>1 DEF Asked
  <2>4. (Quiet => Quiet') /\ (Answered => Answered') /\ (Coming => Coming')
    BY <1>1, <1>4, <2>2 DEF Quiet, Answered, Coming, Match
  <2> QED
    BY <1>1, <1>4, <2>2, <2>3, <2>4 DEF Talk, Match
<1>7. CASE cmd.do = "ask" /\ \E type \in TokenTypes, s \in Nat :
             type = cmd.type /\ type \in Questions /\ Reply(Tokens(type, s))
  <2>1. PICK type \in TokenTypes, s \in Nat :
          type = cmd.type /\ type \in Questions /\ Reply(Tokens(type, s))
    BY <1>7
  <2> DEFINE h == Tokens(type, s)[1]
             b == Tokens(type, s)[2]
             n == Len(rx)
             r == Append(rx, h)
  <2>2. rx' = Append(r, b) /\ h \in LineTokens /\ b \in LineTokens
    BY <2>1, ReplyArrives
  <2>3. h.part = "head" /\ h.type = type /\ b.part = "body" /\ b.type = type
    BY DEF Tokens
  <2> HIDE DEF h, b
  <2>4. /\ r \in Seq(LineTokens) /\ Len(r) = n + 1 /\ n \in Nat /\ r[n + 1] = h
        /\ \A i \in 1 .. n : r[i] = rx[i]
    BY <1>1, <2>2, AppendFacts
  <2> HIDE DEF r
  <2>5. /\ Len(rx') = Len(r) + 1 /\ rx'[Len(r) + 1] = b
        /\ \A i \in 1 .. Len(r) : rx'[i] = r[i]
    BY <2>2, <2>4, AppendFacts
  <2>6. /\ Len(rx') = n + 2 /\ rx'[n + 1] = h /\ rx'[n + 2] = b /\ n \in Nat
        /\ \A i \in 1 .. n : rx'[i] = rx[i]
    BY <2>4, <2>5
  \* The only question was this one.
  <2>7. Running("wait") /\ ~ waiter /\ Asked
    BY <1>2, <1>7 DEF Talk, Quiet, Coming, Answered, NoAsks, cmd
  <2>8. type = armed /\ \A j \in 1 .. Len(cmds) : cmds[j].do = "ask" => j = 1
    BY <1>2, <1>7, <2>1, <2>7 DEF Asked, cmd
  <2>9. NoAsks'
    <3>1. \A i \in 1 .. Len(cmds') : i + 1 # 1
      BY <1>2
    <3> QED
      BY <1>2, <2>8, <3>1 DEF NoAsks
  <2>10. \A i \in 1 .. n : rx'[i].type = "scan"
    BY <2>6, <2>7 DEF Asked, NoReplies
  <2> HIDE DEF n
  <2>11. \A i \in 1 .. Len(rx') : i \in 1 .. n \/ i = n + 1 \/ i = n + 2
    BY <2>6
  <2>12. \A i \in 1 .. Len(rx') : rx'[i].type # "scan" => i = n + 1 \/ i = n + 2
    BY <2>10, <2>11
  <2>13. ~ IsAnswer("scan")
    BY DEF IsAnswer, Questions
  <2>14. ASSUME NEW i \in 1 .. Len(rx'), rx'[i].type # "scan"
         PROVE  /\ rx'[i].type = armed
                /\ \A j \in 1 .. Len(rx') : i < j /\ rx'[j].type # "scan" => rx'[i].part = "head"
    <3>1. CASE i = n + 1
      BY <2>3, <2>6, <2>8, <3>1
    <3>2. CASE i = n + 2
      <4>1. \A j \in 1 .. Len(rx') : ~ (i < j)
        BY <2>6, <3>2
      <4> QED
        BY <2>3, <2>6, <2>8, <3>2, <4>1
    <3> QED
      BY <2>12, <2>14, <3>1, <3>2
  <2>15. Coming'
    BY <1>1, <1>4, <2>7, <2>9, <2>14 DEF Coming, Asked
  <2>16. Paired'
    <3>1. ASSUME NEW i \in 1 .. Len(rx'), IsHead(rx'[i])
          PROVE  i + 1 \in 1 .. Len(rx') /\ rx'[i + 1].part = "body" /\ rx'[i + 1].type = rx'[i].type
      <4>1. i = n + 1
        BY <2>3, <2>6, <2>12, <2>13, <3>1 DEF IsHead
      <4>2. i + 1 = n + 2 /\ n + 2 \in 1 .. Len(rx')
        BY <2>6, <4>1
      <4> QED
        BY <2>3, <2>6, <4>1, <4>2
    <3>2. ~ IsAnswer(codec.type)
      BY <2>7, <2>13 DEF Talk, Paired, Asked, NoReplies
    <3> QED
      BY <1>1, <3>1, <3>2 DEF Paired
  <2> QED
    BY <1>1, <1>4, <2>7, <2>15, <2>16 DEF Talk, Match
<1> QED
  BY <1>5, <1>6, <1>7

LEMMA DialogueStep ==
  ASSUME DriverTyped, StreamTyped, Dialogue, [Next]_vars
  PROVE  Dialogue'
<1> SUFFICES ASSUME Calm' PROVE Talk'
  BY DEF Dialogue
<1>1. Calm /\ UNCHANGED <<late, faults>>
  BY CalmBefore
<1>2. Talk
  BY <1>1 DEF Dialogue
<1>3. CASE Request \/ Take \/ Timeout
  BY <1>1, <1>2, <1>3, TalkRequest, TalkTake, TalkTimeout
<1>4. CASE Ours /\ ~ Request /\ ~ Take /\ ~ Timeout
  BY <1>2, <1>4, TalkMild
<1>5. CASE Decode \/ Obey \/ Measure
  BY <1>1, <1>2, <1>5, TalkDecode, TalkObey, TalkMeasure
<1>6. CASE Handover \/ Store \/ Unpack
  BY <1>2, <1>6, TalkPass
<1>7. ~ Unplug
  BY <1>1 DEF Unplug, DriverTyped
<1> QED
  BY <1>3, <1>4, <1>5, <1>6, <1>7 DEF Next, Decoder, Ours

-----------------------------------------------------------------------------
(* What every state of the driver satisfies.                               *)

StreamInv == RestInv /\ StreamTyped /\ Outstanding /\ BehindInv /\ FreshInv /\ Dialogue

LEMMA StreamInvariant == MCSpec => []StreamInv
<1>1. MCInit => StreamInv
  <2> SUFFICES ASSUME Init PROVE StreamInv
    BY DEF MCInit
  <2> QED
    BY RestInit, StreamTypedInit, BehindInit, FreshInit, TalkInit DEF StreamInv, Dialogue
<1>2. StreamInv /\ [Above(Next) \/ Below(Link!Next)]_mcVars => StreamInv'
  <2> SUFFICES ASSUME StreamInv, [Next]_vars PROVE StreamInv'
    BY DEF Above, Below, mcVars
  <2>1. /\ RestInv /\ DriverTyped /\ StreamTyped /\ Outstanding /\ BehindInv /\ FreshInv /\ Dialogue
    BY DEF StreamInv, RestInv
  <2>2. RestInv' /\ DriverTyped'
    BY <2>1, DriverTypedStep, WindsStep, HaltsStep DEF RestInv
  <2>3. StreamTyped'
    BY <2>1, StreamTypedStep
  <2>4. Outstanding'
    BY <2>1, <2>2, <2>3, OutstandingStep
  <2>5. BehindInv'
    BY <2>1, <2>2, <2>3, BehindStep
  <2>6. FreshInv'
    BY <2>1, FreshStep
  <2>7. Dialogue'
    BY <2>1, DialogueStep
  <2> QED
    BY <2>2, <2>3, <2>4, <2>5, <2>6, <2>7 DEF StreamInv
<1> QED
  BY <1>1, <1>2, PTL DEF MCSpec

(***************************************************************************)
(* An answer that is taken is of the type asked for, and whole, as long as *)
(* none was late and the line lost nothing; and whatever is lost or taken  *)
(* for a header, the unpacker is given no frame of an earlier session, and *)
(* no scan starts while it holds one, before three answers were late.      *)
(***************************************************************************)
THEOREM TakesItsOwn == MCSpec => []NothingForeign
<1>1. StreamInv => AnswersMatch
  BY DEF StreamInv, Dialogue, Talk, Calm, AnswersMatch, Match
<1>2. StreamInv => NoOldSamples
  BY NoneOld DEF StreamInv, RestInv
<1> QED
  BY <1>1, <1>2, StreamInvariant, PTL DEF NothingForeign
=============================================================================
