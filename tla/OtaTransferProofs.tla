------------------------- MODULE OtaTransferProofs --------------------------
(***************************************************************************)
(* Proofs about OtaTransfer, for every number of retries, image size, set  *)
(* of capabilities and queue length.  TypeOK needs no more; the safety     *)
(* theorems are about one life of the host process in which the 16-bit     *)
(* session counter does not come round: with sessions that identify runs.  *)
(* The faults that OtaTolerance counts are those of a first run; no more   *)
(* of them than max_retries never make it fail.                            *)
(***************************************************************************)
EXTENDS OtaTolerance, SequenceTheorems, TLAPS

UniqueSessions == ~HostMayCrash /\ MaxRuns < SessionSpace

-----------------------------------------------------------------------------
(* The block table.                                                        *)

\* An image has at least one block, and no more than bytes.
LEMMA BlockCountRange ==
  ASSUME NEW s \in Nat \ {0}, NEW b \in Nat \ {0}
  PROVE  BlockCount(s, b) \in 1 .. s
<1> DEFINE a == s + b - 1
           n == a \div b
<1>1. a \in Nat /\ n \in Nat /\ n * b <= a /\ a < n * b + b
  OBVIOUS
<1> HIDE DEF n
<1>2. n # 0
  <2>1. 0 * b + b = b
    OBVIOUS
  <2> QED
    BY <1>1, <2>1
<1>3. ASSUME s < n PROVE FALSE
  <2>1. (s + 1) * b <= n * b
    BY <1>1, <1>3
  <2>2. (s + 1) * b = s * b + b /\ s <= s * b /\ s * b \in Nat
    OBVIOUS
  <2>3. n * b \in Nat
    BY <1>1
  <2> QED
    BY <1>1, <2>1, <2>2, <2>3
<1> QED
  BY <1>1, <1>2, <1>3 DEF n, BlockCount

(***************************************************************************)
(* What the checks of runTransfer establish about an image that passes.    *)
(***************************************************************************)
LEMMA VerdictFacts ==
  ASSUME NEW s \in Nat \ {0}, NEW c,
         c.blockSize \in Nat, CapabilityVerdict(s, c) = "none"
  PROVE  /\ c.blockSize \in Nat \ {0}
         /\ BlockCount(s, c.blockSize) \in 1 .. s
         /\ BlockCount(s, c.blockSize) <= MaxBlockCount
<1>1. /\ c.blockSize \in Nat \ {0}
      /\ BlockCount(s, c.blockSize) <= MaxBlockCount
  BY DEF CapabilityVerdict, BlockSizeAllowed, BlockCountAllowed
<1> QED
  BY <1>1, BlockCountRange

-----------------------------------------------------------------------------
(***************************************************************************)
(* The order in which a run goes through its commands: a stage for each    *)
(* metadata command, one for each block, and one for END.                  *)
(***************************************************************************)
Stage(cmd, index) ==
  CASE cmd = "start"                        -> 1
    [] cmd = "start_crc"                    -> 2
    [] cmd = "start_version"                -> 3
    [] cmd \in {"block_begin", "block_end"} -> 4 + index
    [] cmd = "end"                          -> 4 + ImageSize
    [] OTHER                                -> 0

HostStage == Stage(IF op = "data" THEN "block_begin" ELSE op, block)

\* m may be ahead of n in the queue.
Before(m, n) ==
  \/ m.session < n.session
  \/ /\ m.session = n.session
     /\ m.cmd # "abort"
     /\ n.cmd = "abort" \/ Stage(m.cmd, m.index) <= Stage(n.cmd, n.index)

\* The reply r may have been given while m is still in the queue.
Answered(r, m) ==
  \/ r.session < m.session
  \/ /\ r.session = m.session
     /\ m.cmd = "abort" \/ Stage(r.cmd, r.detail) <= Stage(m.cmd, m.index)

-----------------------------------------------------------------------------
(* The inductive invariant.                                                *)

SessionIsRun == next = run + 1 /\ session = run

\* A run begins with SYNC, and only goes past the capability checks when
\* they let it; it asks for the verification when no block is left.
Admitted ==
  /\ pc = "open" => op = "sync"
  /\ op \notin {"sync"} \cup CapabilityPages =>
       CapabilityVerdict(ImageSize, cap) = "none"
  /\ op \in BlockOps => block \in Blocks
  /\ op = "end" => \A k \in Blocks : k < block

\* Frames of this run on the bus: none is ahead of the worker, those that
\* announce or conclude data are about this run's image, and ABORT is there
\* only when the worker is done.
FrameOK(m) ==
  m.cmd \in Sessioned =>
    /\ m.session <= session
    /\ m.session = session =>
         IF m.cmd = "abort"
           THEN pc \in {"stop", "idle"}
           ELSE /\ Stage(m.cmd, m.index) \in 1 .. HostStage
                /\ m.cmd \in {"block_end", "end"} => m.image = run

FramesOK == \A i \in 1 .. Len(req) : FrameOK(req[i])

Sorted ==
  \A i, j \in 1 .. Len(req) :
    i < j /\ req[i].cmd \in Sessioned /\ req[j].cmd \in Sessioned
      => Before(req[i], req[j])

\* Replies in the socket: none is ahead of the worker, nothing that was
\* sent before what they answer is still on the bus, and a block that is
\* acknowledged is in flash.
ReplyOK(r) ==
  r.cmd \in Sessioned =>
    /\ r.session <= session
    /\ r.session = session => Stage(r.cmd, r.detail) \in 1 .. HostStage
    /\ \A i \in 1 .. Len(req) :
         req[i].cmd \in Sessioned => Answered(r, req[i])
    /\ r.session = session /\ r.ok /\ r.cmd = "block_end"
         => r.detail \in FlashBlocks /\ flash[r.detail] = run

RepliesOK == \A i \in 1 .. Len(rsp) : ReplyOK(rsp[i])

\* When START_CRC is acknowledged no START and no frame of an earlier run
\* is left that could erase what this run writes.
Flushed ==
  HostStage >= 3 =>
    \A i \in 1 .. Len(req) :
      req[i].cmd \in Sessioned =>
        req[i].session = session /\ req[i].cmd # "start"

\* The blocks behind the worker are in flash, also when the run is over.
Written ==
  HostStage >= 4 => \A k \in Blocks : k < block => flash[k] = run

CompletedAtEnd == state = "completed" => op = "end"

TransferInv ==
  /\ TypeOK
  /\ SessionIsRun
  /\ Admitted
  /\ FramesOK
  /\ Sorted
  /\ RepliesOK
  /\ Flushed
  /\ Written
  /\ CompletedAtEnd

-----------------------------------------------------------------------------
(* Queues.                                                                 *)

LEMMA TailFacts ==
  ASSUME NEW S, NEW q \in Seq(S), q # <<>>
  PROVE  /\ Head(q) \in S /\ Head(q) = q[1]
         /\ Tail(q) \in Seq(S)
         /\ 1 \in 1 .. Len(q)
         /\ \A i \in 1 .. Len(Tail(q)) :
              i + 1 \in 1 .. Len(q) /\ Tail(q)[i] = q[i + 1]
<1>1. Len(q) \in Nat \ {0}
  BY EmptySeq, LenProperties
<1> QED
  BY <1>1, HeadTailProperties, ElementOfSeq

LEMMA AppendFacts ==
  ASSUME NEW S, NEW q \in Seq(S), NEW e \in S
  PROVE  /\ Append(q, e) \in Seq(S)
         /\ Len(Append(q, e)) = Len(q) + 1
         /\ \A i \in 1 .. Len(q) : Append(q, e)[i] = q[i]
         /\ Append(q, e)[Len(q) + 1] = e
BY AppendProperties

-----------------------------------------------------------------------------
(* Type correctness.                                                       *)

Results == {"none", "ack", "nack", "timeout", "io_error"}

\* The conjuncts of TypeOK that the helpers of the worker's steps fix.
ControlOK ==
  /\ state \in OtaStates
  /\ error \in OtaErrors
  /\ pc \in WorkerSteps
  /\ op \in Ops
  /\ attempt \in 0 .. MaxRetries
  /\ block \in Nat
  /\ sequence \in Nat
  /\ outcome \in Results

LEMMA RetryType ==
  ASSUME TypeOK, NEW x \in Results, Retry(x)
  PROVE  ControlOK'
<1> USE TransferAssumption DEF TypeOK, Retry, ControlOK, AttemptLeft, Results
<1>1. CASE AttemptLeft
  BY <1>1 DEF WorkerSteps, Ops, BlockOps, CapabilityPages
<1>2. CASE ~AttemptLeft
  <2>1. ExhaustedError(x) \in OtaErrors
    BY DEF ExhaustedError, OtaErrors
  <2> QED
    BY <1>2, <2>1 DEF WorkerSteps, OtaStates
<1> QED
  BY <1>1, <1>2

LEMMA GotoType ==
  ASSUME TypeOK, NEW s \in WorkerSteps, Goto(s)
  PROVE  ControlOK'
BY DEF TypeOK, Goto, ControlOK, Results

LEMMA FailType ==
  ASSUME TypeOK, NEW e \in OtaErrors, Fail(e)
  PROVE  ControlOK'
BY DEF TypeOK, Fail, ControlOK, Results, WorkerSteps, OtaStates

LEMMA BeginType ==
  ASSUME TypeOK, NEW o \in Ops, NEW k \in Nat, Begin(o, k)
  PROVE  ControlOK'
<1>1. StateOf(o) \in OtaStates
  BY DEF StateOf, Ops, OtaStates, CapabilityPages, BlockOps
<1> QED
  BY <1>1, TransferAssumption
  DEF TypeOK, Begin, ControlOK, Results, WorkerSteps

LEMMA ContinueType ==
  ASSUME TypeOK, NEW o \in Ops, Continue(o)
  PROVE  ControlOK'
BY DEF TypeOK, Continue, ControlOK, Results, WorkerSteps

LEMMA AdvanceType ==
  ASSUME TypeOK, Advance
  PROVE  ControlOK'
<1>1. /\ {"sync", "cap0", "cap1", "start", "start_crc", "start_version",
          "block_begin", "data", "block_end", "end"} = Ops
      /\ 0 \in Nat
  BY DEF Ops, CapabilityPages, BlockOps
<1>2. CASE op = "sync"
  BY <1>1, <1>2, BeginType DEF Advance
<1>3. CASE op = "cap0"
  BY <1>1, <1>3, BeginType DEF Advance
<1>4. CASE op = "cap1"
  <2>1. CapabilityVerdict(ImageSize, cap) \in OtaErrors
    BY DEF CapabilityVerdict, OtaErrors
  <2> QED
    BY <1>1, <1>4, <2>1, BeginType, FailType DEF Advance
<1>5. CASE op \in {"start", "start_crc", "start_version"}
  BY <1>1, <1>5, BeginType DEF Advance
<1>6. CASE op = "block_begin"
  BY <1>1, <1>6, ContinueType DEF Advance
<1>7. CASE op = "block_end"
  <2>1. block + 1 \in Nat
    BY DEF TypeOK
  <2> QED
    BY <1>1, <1>7, <2>1, BeginType DEF Advance
<1>8. CASE op = "end"
  BY <1>8 DEF Advance, TypeOK, ControlOK, Results, OtaStates, WorkerSteps
<1>9. op # "data"
  BY DEF Advance
<1> QED
  BY <1>1, <1>2, <1>3, <1>4, <1>5, <1>6, <1>7, <1>8, <1>9 DEF TypeOK

\* The conjuncts that only the queues and the bootloader are about.
QueuesOK ==
  /\ req \in Seq(FrameSet)
  /\ rsp \in Seq(ReplySet)
  /\ cap \in Capabilities
  /\ dev \in DevSet
  /\ flash \in [FlashBlocks -> 0 .. MaxRuns]

LEMMA RequestType ==
  ASSUME TypeOK PROVE Request \in FrameSet /\ Abort \in FrameSet
<1>1. /\ WireIndex(block) \in Nat /\ WireSequence(sequence) \in Nat
      /\ 0 \in Sessions /\ 0 \in 0 .. MaxRuns /\ 0 \in Nat
  BY TransferAssumption, BlocksAssumption
  DEF TypeOK, WireIndex, WireSequence, Sessions
<1>2. ASSUME NEW c \in Ops \cup {"abort"}, NEW s \in Sessions, NEW n \in Nat,
             NEW i \in 0 .. MaxRuns, NEW b \in Nat
      PROVE  Frame(c, s, n, i, b) \in FrameSet
  BY DEF Frame, FrameSet
<1>3. /\ op \in Ops \cup {"abort"} /\ "abort" \in Ops \cup {"abort"}
      /\ session \in Sessions /\ run \in 0 .. MaxRuns /\ block \in Nat
  BY DEF TypeOK
<1>4. Abort \in FrameSet
  BY <1>1, <1>2, <1>3 DEF Abort
<1>5. Request \in FrameSet
  BY <1>1, <1>2, <1>3 DEF Request
<1> QED
  BY <1>4, <1>5

LEMMA WorkerType ==
  ASSUME TypeOK, Worker PROVE TypeOK'
<1> USE DEF TypeOK
<1>1. /\ ControlOK' /\ running' \in BOOLEAN /\ cancel' \in BOOLEAN
      /\ run' \in 0 .. MaxRuns /\ session' \in Sessions /\ next' \in Nat
      /\ QueuesOK'
      => TypeOK'
  BY DEF ControlOK, QueuesOK, Results
<1>2. /\ {"none", "ack", "nack", "timeout", "io_error"} = Results
      /\ {"idle", "open", "send", "top", "poll", "abort", "stop"} = WorkerSteps
      /\ {"sync", "block_end"} \subseteq Ops
      /\ "transport_open_failed" \in OtaErrors
      /\ 0 \in Nat /\ <<>> \in Seq(ReplySet)
  BY DEF Results, WorkerSteps, Ops, BlockOps, OtaErrors
<1>3. Append(req, Request) \in Seq(FrameSet) /\ Append(req, Abort) \in Seq(FrameSet)
  BY RequestType, AppendFacts
<1>4. UNCHANGED <<run, session, next, cancel, deviceVars>>
        => /\ cancel' \in BOOLEAN /\ run' \in 0 .. MaxRuns
           /\ session' \in Sessions /\ next' \in Nat
           /\ req' \in Seq(FrameSet) /\ rsp' \in Seq(ReplySet) => QueuesOK'
  BY DEF deviceVars, QueuesOK
<1>5. CASE Open
  BY <1>1, <1>2, <1>4, <1>5, FailType, GotoType, BeginType DEF Open
<1>6. CASE Send
  <2>1. CASE cancel
    BY <1>1, <1>2, <1>4, <1>6, <2>1, GotoType DEF Send
  <2>2. CASE req' = Append(req, Request) /\ pc' = "top"
             /\ UNCHANGED <<state, error, op, attempt, block, sequence, outcome>>
    BY <1>1, <1>2, <1>3, <1>4, <1>6, <2>2 DEF Send, ControlOK
  <2>3. CASE Retry("io_error") /\ UNCHANGED req
    BY <1>1, <1>2, <1>4, <1>6, <2>3, RetryType DEF Send
  <2> QED
    BY <1>6, <2>1, <2>2, <2>3 DEF Send
<1>7. CASE SendData
  <2>1. CASE cancel
    BY <1>1, <1>2, <1>4, <1>7, <2>1, GotoType DEF SendData
  <2>2. CASE /\ req' = Append(req, Request) /\ sequence' = sequence + 1
             /\ UNCHANGED <<state, error, pc, op, attempt, block, outcome>>
    BY <1>1, <1>2, <1>3, <1>4, <1>7, <2>2 DEF SendData, ControlOK
  <2>3. CASE req' = Append(req, Request) /\ Continue("block_end")
    BY <1>1, <1>2, <1>3, <1>4, <1>7, <2>3, ContinueType DEF SendData
  <2>4. CASE Retry("io_error") /\ UNCHANGED req
    BY <1>1, <1>2, <1>4, <1>7, <2>4, RetryType DEF SendData
  <2> QED
    BY <1>7, <2>1, <2>2, <2>3, <2>4 DEF SendData
<1>8. CASE Timeout
  BY <1>1, <1>2, <1>4, <1>8, RetryType DEF Timeout
<1>9. CASE Await
  BY <1>1, <1>2, <1>4, <1>9, GotoType DEF Await
<1>10. CASE PollNothing
  BY <1>1, <1>2, <1>4, <1>10, GotoType, RetryType DEF PollNothing
<1>11. CASE PollReply
  <2>1. rsp' \in Seq(ReplySet)
    BY <1>11, TailFacts DEF PollReply
  <2>2. ControlOK'
    BY <1>2, <1>11, GotoType, RetryType, AdvanceType DEF PollReply
  <2> QED
    BY <1>1, <1>4, <1>11, <2>1, <2>2 DEF PollReply
<1>12. CASE SendAbort
  <2>1. ControlOK'
    BY <1>12 DEF SendAbort, ControlOK, Results, OtaStates, OtaErrors, WorkerSteps
  <2> QED
    BY <1>1, <1>3, <1>4, <1>12, <2>1 DEF SendAbort
<1>13. CASE Stop
  <2>1. ControlOK'
    BY <1>13 DEF Stop, ControlOK, Results, WorkerSteps
  <2> QED
    BY <1>1, <1>2, <1>4, <1>13, <2>1 DEF Stop
<1> QED
  BY <1>5, <1>6, <1>7, <1>8, <1>9, <1>10, <1>11, <1>12, <1>13 DEF Worker

LEMMA EnvironmentType ==
  ASSUME TypeOK, Environment PROVE TypeOK'
<1> USE DEF TypeOK
<1>1. UNCHANGED hostVars /\ QueuesOK' => TypeOK'
  BY DEF hostVars, QueuesOK
<1>2. NoDeviceSession \in DevSet
  BY TransferAssumption DEF NoDeviceSession, DevSet, Sessions, NoBlock
<1>3. ASSUME req # <<>> PROVE Head(req) \in FrameSet /\ Tail(req) \in Seq(FrameSet)
  BY <1>3, TailFacts
<1>4. CASE LoseFrame
  BY <1>1, <1>3, <1>4 DEF LoseFrame, QueuesOK, deviceVars
<1>5. CASE DeviceReplies
  <2> DEFINE m == Head(req)
  <2>1. /\ req # <<>> /\ m.cmd \notin {"data", "abort"}
        /\ req' = Tail(req) /\ UNCHANGED <<hostVars, cap>>
    BY <1>5 DEF DeviceReplies
  <2>2. m \in FrameSet /\ req' \in Seq(FrameSet)
    BY <1>3, <2>1
  <2>3. ASSUME NEW ok \in BOOLEAN PROVE Reply(m, ok) \in ReplySet
    BY <2>1, <2>2 DEF Reply, ReplySet, FrameSet
  <2>4. rsp' \in Seq(ReplySet)
    <3>1. ASSUME NEW ok \in BOOLEAN, Deliver(Reply(m, ok))
          PROVE  rsp' \in Seq(ReplySet)
      <4>1. Append(rsp, Reply(m, ok)) \in Seq(ReplySet)
        BY <2>3, AppendFacts
      <4> QED
        BY <3>1, <4>1 DEF Deliver
    <3> QED
      BY <1>5, <3>1 DEF DeviceReplies
  <2>5. /\ dev' \in DevSet
        /\ flash' \in [FlashBlocks -> 0 .. MaxRuns]
    <3>1. CASE Obey(m)
      <4>1. /\ m.session \in Sessions /\ m.image \in 0 .. MaxRuns
            /\ m.index \in Nat /\ 0 \in 0 .. MaxRuns /\ 0 \in Nat
            /\ NoBlock \in Nat
        BY <2>2, TransferAssumption DEF FrameSet, NoBlock
      <4>2. /\ [NoDeviceSession EXCEPT !.session = m.session] \in DevSet
            /\ [dev EXCEPT !.image = m.image] \in DevSet
            /\ [dev EXCEPT !.open = m.index, !.got = 0, !.from = {}] \in DevSet
            /\ [dev EXCEPT !.open = NoBlock, !.got = 0, !.from = {}] \in DevSet
        BY <1>2, <4>1 DEF DevSet
      <4>3. /\ [k \in FlashBlocks |-> 0] \in [FlashBlocks -> 0 .. MaxRuns]
            /\ [flash EXCEPT ![m.index] = m.image]
                 \in [FlashBlocks -> 0 .. MaxRuns]
        BY <4>1
      <4> HIDE DEF m, TypeOK
      <4>4. dev \in DevSet /\ flash \in [FlashBlocks -> 0 .. MaxRuns]
        BY DEF TypeOK
      <4> QED
        BY <3>1, <4>2, <4>3, <4>4 DEF Obey
    <3>2. CASE UNCHANGED <<dev, flash>>
      BY <3>2
    <3> QED
      BY <1>5, <3>1, <3>2 DEF DeviceReplies
  <2> QED
    BY <1>1, <2>1, <2>2, <2>4, <2>5 DEF QueuesOK
<1>6. CASE DeviceData
  <2> DEFINE m == Head(req)
             piece == [image |-> m.image, block |-> m.block]
  <2>1. /\ m \in FrameSet /\ req' \in Seq(FrameSet)
        /\ UNCHANGED <<hostVars, rsp, cap, flash>>
    BY <1>3, <1>6 DEF DeviceData
  <2>2. piece \in [image : 0 .. MaxRuns, block : Nat]
    BY <2>1 DEF FrameSet
  <2> HIDE DEF piece
  <2>3. [dev EXCEPT !.got = @ + 1, !.from = @ \cup {piece}] \in DevSet
    <3>1. dev.got + 1 \in Nat
          /\ dev.from \cup {piece} \in SUBSET [image : 0 .. MaxRuns, block : Nat]
      BY <2>2 DEF DevSet
    <3> HIDE DEF TypeOK
    <3>2. dev \in DevSet
      BY DEF TypeOK
    <3>3. [dev EXCEPT !.got = dev.got + 1, !.from = dev.from \cup {piece}]
             \in DevSet
      BY <3>1, <3>2, Zenon DEF DevSet
    <3> QED
      BY <3>3
  <2>4. dev' \in DevSet
    BY <1>6, <2>3 DEF DeviceData, piece
  <2> QED
    BY <1>1, <2>1, <2>4 DEF QueuesOK
<1>7. CASE DeviceAbort
  BY <1>1, <1>2, <1>3, <1>7 DEF DeviceAbort, QueuesOK
<1>8. CASE DeviceReset
  BY <1>1, <1>2, <1>8 DEF DeviceReset, QueuesOK
<1> QED
  BY <1>4, <1>5, <1>6, <1>7, <1>8 DEF Environment

LEMMA InitType == Init => TypeOK
<1> SUFFICES ASSUME Init PROVE TypeOK
  OBVIOUS
<1>1. /\ 0 \in 0 .. MaxRuns /\ 0 \in Sessions /\ 0 \in 0 .. MaxRetries
      /\ NoBlock \in Nat
  BY TransferAssumption DEF Sessions, NoBlock
<1>2. <<>> \in Seq(FrameSet) /\ <<>> \in Seq(ReplySet)
  OBVIOUS
<1>3. NoDeviceSession \in DevSet
  BY <1>1 DEF NoDeviceSession, DevSet
<1> QED
  BY <1>1, <1>2, <1>3
  DEF Init, TypeOK, OtaStates, OtaErrors, WorkerSteps, Ops

LEMMA StartType ==
  ASSUME TypeOK, Start PROVE TypeOK'
<1>1. /\ run + 1 \in 0 .. MaxRuns
      /\ SkipZero(next) \in Nat
      /\ SkipZero(next) % SessionSpace \in Sessions
      /\ 0 \in 0 .. MaxRetries
  BY TransferAssumption DEF Start, TypeOK, SkipZero, Sessions
<1>2. /\ "ready" \in OtaStates /\ "none" \in OtaErrors /\ "none" \in Results
      /\ "open" \in WorkerSteps /\ "sync" \in Ops /\ 0 \in Nat
  BY DEF OtaStates, OtaErrors, Results, WorkerSteps, Ops
<1>3. run' = run + 1 /\ next' \in Nat /\ session' \in Sessions
  BY <1>1 DEF Start
<1>4. ControlOK' /\ running' \in BOOLEAN /\ cancel' \in BOOLEAN
  BY <1>1, <1>2 DEF Start, ControlOK
<1>5. QueuesOK'
  BY DEF Start, TypeOK, QueuesOK, deviceVars
<1> QED
  BY <1>1, <1>3, <1>4, <1>5 DEF TypeOK, ControlOK, QueuesOK, Results

LEMMA TypeStep == TypeOK /\ [Next]_vars => TypeOK'
<1> SUFFICES ASSUME TypeOK, [Next]_vars PROVE TypeOK'
  OBVIOUS
<1>1. CASE Start
  BY <1>1, StartType
<1>2. CASE Cancel
  BY <1>2 DEF Cancel, TypeOK, deviceVars
<1>3. CASE Worker
  BY <1>3, WorkerType
<1>4. CASE HostCrash
  <2>1. "idle" \in OtaStates /\ "none" \in OtaErrors /\ "idle" \in WorkerSteps
    BY DEF OtaStates, OtaErrors, WorkerSteps
  <2>2. <<>> \in Seq(ReplySet)
    OBVIOUS
  <2>3. ControlOK' /\ QueuesOK'
    BY <1>4, <2>1, <2>2
    DEF HostCrash, TypeOK, ControlOK, QueuesOK, Results, deviceVars
  <2> QED
    BY <1>4, <2>3 DEF HostCrash, TypeOK, ControlOK, QueuesOK, Results
<1>5. CASE Environment
  BY <1>5, EnvironmentType
<1>6. CASE UNCHANGED vars
  BY <1>6 DEF vars, hostVars, deviceVars, TypeOK
<1> QED
  BY <1>1, <1>2, <1>3, <1>4, <1>5, <1>6 DEF Next

(***************************************************************************)
(* The types, and with them the bounds: no command of a run is ever sent   *)
(* more than max_retries + 1 times.                                        *)
(***************************************************************************)
THEOREM TypeCorrect == Spec => []TypeOK
BY InitType, TypeStep, PTL DEF Spec

LEMMA QueueElements ==
  ASSUME TypeOK
  PROVE  /\ \A i \in 1 .. Len(req) : req[i] \in FrameSet /\ req[i].session \in Nat
         /\ \A i \in 1 .. Len(rsp) : rsp[i] \in ReplySet /\ rsp[i].session \in Nat
<1>1. req \in Seq(FrameSet) /\ rsp \in Seq(ReplySet)
  BY DEF TypeOK
<1>2. /\ \A i \in 1 .. Len(req) : req[i] \in FrameSet
      /\ \A i \in 1 .. Len(rsp) : rsp[i] \in ReplySet
  BY <1>1, ElementOfSeq
<1>3. Sessions \subseteq Nat
  BY TransferAssumption DEF Sessions
<1>4. /\ \A m \in FrameSet : m.session \in Nat
      /\ \A r \in ReplySet : r.session \in Nat
  BY <1>3 DEF FrameSet, ReplySet
<1> QED
  BY <1>2, <1>4

-----------------------------------------------------------------------------
(* Stages and blocks.                                                      *)

LEMMA BlocksInFlash ==
  ASSUME TypeOK
  PROVE  Blocks \subseteq FlashBlocks /\ 0 \in Blocks
<1>1. cap.blockSize \in Nat /\ ImageSize \in Nat \ {0}
  BY TransferAssumption DEF TypeOK
<1>2. CASE cap.blockSize = 0
  BY <1>1, <1>2 DEF Blocks, FlashBlocks
<1>3. CASE cap.blockSize # 0
  <2> DEFINE n == BlockCount(ImageSize, cap.blockSize)
  <2>1. n \in 1 .. ImageSize
    BY <1>1, <1>3, BlockCountRange
  <2> HIDE DEF n
  <2>2. Blocks = 0 .. n - 1
    BY <1>3 DEF Blocks, n
  <2> QED
    BY <1>1, <2>1, <2>2 DEF FlashBlocks
<1> QED
  BY <1>2, <1>3

LEMMA BlocksFacts ==
  ASSUME TypeOK, CapabilityVerdict(ImageSize, cap) = "none"
  PROVE  /\ 0 \in Blocks
         /\ Blocks \subseteq FlashBlocks
         /\ \A k \in Blocks :
              /\ k \in Nat /\ k < ImageSize /\ WireIndex(k) = k
              /\ k + 1 \in Blocks \/ \A j \in Blocks : j < k + 1
<1> DEFINE n == BlockCount(ImageSize, cap.blockSize)
<1>1. cap.blockSize \in Nat /\ ImageSize \in Nat \ {0}
  BY TransferAssumption DEF TypeOK
<1>2. cap.blockSize # 0 /\ n \in 1 .. ImageSize /\ n <= MaxBlockCount
  BY <1>1, VerdictFacts
<1> HIDE DEF n
<1>3. Blocks = 0 .. n - 1
  BY <1>2 DEF Blocks, n
<1>4. \A k \in 0 .. n - 1 : WireIndex(k) = k
  BY <1>2, BlocksAssumption DEF WireIndex
<1> QED
  BY <1>1, <1>2, <1>3, <1>4 DEF FlashBlocks

StageTable ==
  /\ HostStage \in Nat
  /\ op \in {"sync"} \cup CapabilityPages => HostStage = 0
  /\ op = "start" => HostStage = 1
  /\ op = "start_crc" => HostStage = 2
  /\ op = "start_version" => HostStage = 3
  /\ op \in BlockOps => HostStage = 4 + block
  /\ op = "end" => HostStage = 4 + ImageSize

LEMMA StageFacts == TypeOK /\ Admitted => StageTable
<1> SUFFICES ASSUME TypeOK, Admitted PROVE StageTable
  OBVIOUS
<1>1. op \in BlockOps => block \in Nat /\ block < ImageSize
  BY BlocksFacts DEF Admitted, BlockOps, CapabilityPages
<1>2. ImageSize \in Nat
  BY TransferAssumption
<1>3. op \in Ops
  BY DEF TypeOK
<1> QED
  BY <1>1, <1>2, <1>3
  DEF StageTable, HostStage, Stage, Ops, BlockOps, CapabilityPages

LEMMA StageFactsNext == (TypeOK /\ Admitted => StageTable)'
BY StageFacts, PTL

\* The request for the command at hand has the worker's stage.
LEMMA RequestFacts ==
  ASSUME TypeOK, Admitted, op # "data"
  PROVE  /\ Request.cmd = op
         /\ op \in Sessioned =>
              /\ Request.session = session
              /\ Stage(Request.cmd, Request.index) = HostStage
              /\ HostStage >= 1
              /\ op \in {"block_end", "end"} => Request.image = run
<1>1. op \in Ops
  BY DEF TypeOK
<1>2. op \in BlockOps => WireIndex(block) = block
  BY BlocksFacts DEF Admitted, BlockOps, CapabilityPages
<1>3. Request.cmd = op
  BY <1>1 DEF Request, Frame, Ops, BlockOps, CapabilityPages
<1>4. ASSUME op \in Sessioned
      PROVE  /\ Request.session = session
             /\ op \in {"block_end", "end"} => Request.image = run
             /\ op \in BlockOps => Request.index = WireIndex(block)
  BY <1>1, <1>4 DEF Request, Frame, Ops, BlockOps, CapabilityPages, Sessioned
<1>5. ASSUME op \in Sessioned PROVE HostStage >= 1
  <2>1. ImageSize \in Nat /\ block \in Nat
    BY TransferAssumption DEF TypeOK
  <2> QED
    BY <1>1, <1>5, <2>1, StageFacts
    DEF StageTable, Sessioned, Ops, BlockOps, CapabilityPages
<1>6. ASSUME op \in Sessioned
      PROVE  Stage(Request.cmd, Request.index) = HostStage
  BY <1>1, <1>2, <1>3, <1>4, <1>6
  DEF Stage, HostStage, Sessioned, Ops, BlockOps, CapabilityPages
<1> QED
  BY <1>3, <1>4, <1>5, <1>6

-----------------------------------------------------------------------------
(* The steps of the worker.                                                *)

\* A step that sends nothing keeps the invariant as long as the worker does
\* not go back, and does not leave its last two steps.
LEMMA SilentStep ==
  ASSUME TransferInv, TypeOK', Admitted',
         UNCHANGED <<run, session, next, req, cap, flash>>,
         HostStage <= HostStage',
         rsp' = rsp \/ rsp' = <<>> \/ (rsp # <<>> /\ rsp' = Tail(rsp)),
         pc \in {"stop", "idle"} => pc' \in {"stop", "idle"},
         Flushed', Written', CompletedAtEnd'
  PROVE  TransferInv'
<1>1. HostStage \in Nat /\ HostStage' \in Nat
  BY StageFacts, StageFactsNext DEF TransferInv, StageTable
<1>2. SessionIsRun' /\ Sorted'
  BY DEF TransferInv, SessionIsRun, Sorted
<1>3. FramesOK'
  <2> SUFFICES ASSUME NEW i \in 1 .. Len(req) PROVE FrameOK(req[i])'
    BY DEF FramesOK
  <2>1. FrameOK(req[i])
    BY DEF TransferInv, FramesOK
  <2> QED
    BY <1>1, <2>1 DEF FrameOK
<1>4. RepliesOK'
  <2> SUFFICES ASSUME NEW i \in 1 .. Len(rsp') PROVE ReplyOK(rsp[i])'
    BY DEF RepliesOK
  <2>1. \E j \in 1 .. Len(rsp) : rsp'[i] = rsp[j]
    <3>1. CASE rsp' = rsp
      BY <3>1
    <3>2. CASE rsp' = <<>>
      BY <3>2
    <3>3. CASE rsp # <<>> /\ rsp' = Tail(rsp)
      BY <3>3, TailFacts DEF TransferInv, TypeOK
    <3> QED
      BY <3>1, <3>2, <3>3
  <2>2. PICK j \in 1 .. Len(rsp) : rsp'[i] = rsp[j]
    BY <2>1
  <2>3. ReplyOK(rsp[j])
    BY DEF TransferInv, RepliesOK
  <2> QED
    BY <1>1, <2>2, <2>3 DEF ReplyOK
<1> QED
  BY <1>2, <1>3, <1>4 DEF TransferInv

\* A step that sends a frame of the stage the worker is at, or ABORT.
LEMMA SendingStep ==
  ASSUME TransferInv, TypeOK', Admitted', NEW m \in FrameSet,
         req' = Append(req, m),
         UNCHANGED <<run, session, next, rsp, cap, flash>>,
         HostStage' = HostStage,
         pc \notin {"stop", "idle"},
         m.cmd \in Sessioned =>
           /\ m.session = session
           /\ \/ m.cmd = "abort" /\ pc' = "stop"
              \/ /\ m.cmd # "abort"
                 /\ Stage(m.cmd, m.index) = HostStage
                 /\ HostStage >= 1
                 /\ m.cmd \in {"block_end", "end"} => m.image = run,
         Written', CompletedAtEnd'
  PROVE  TransferInv'
<1>1. HostStage \in Nat /\ session \in Nat
  BY StageFacts, TransferAssumption
  DEF TransferInv, StageTable, TypeOK, Sessions
<1>2. /\ Len(req) \in Nat /\ Len(req') = Len(req) + 1
      /\ req'[Len(req) + 1] = m
      /\ \A i \in 1 .. Len(req) : req'[i] = req[i]
  BY AppendFacts, LenProperties DEF TransferInv, TypeOK
<1>3. \A i \in 1 .. Len(req') : i \in 1 .. Len(req) \/ i = Len(req) + 1
  BY <1>2
<1>4. \A i \in 1 .. Len(req) :
        req[i].cmd \in Sessioned =>
          \/ req[i].session < session
          \/ /\ req[i].session = session
             /\ req[i].cmd # "abort"
             /\ Stage(req[i].cmd, req[i].index) \in 1 .. HostStage
  <2> SUFFICES ASSUME NEW i \in 1 .. Len(req), req[i].cmd \in Sessioned
               PROVE  \/ req[i].session < session
                      \/ /\ req[i].session = session
                         /\ req[i].cmd # "abort"
                         /\ Stage(req[i].cmd, req[i].index) \in 1 .. HostStage
    OBVIOUS
  <2>1. FrameOK(req[i])
    BY DEF TransferInv, FramesOK
  <2>2. req[i].session \in Nat
    BY QueueElements DEF TransferInv
  <2> QED
    BY <1>1, <2>1, <2>2 DEF FrameOK
<1>5. FramesOK'
  <2> SUFFICES ASSUME NEW i \in 1 .. Len(req') PROVE FrameOK(req[i])'
    BY DEF FramesOK
  <2>1. CASE i \in 1 .. Len(req)
    <3>1. FrameOK(req[i]) /\ req'[i] = req[i]
      BY <1>2, <2>1 DEF TransferInv, FramesOK
    <3> QED
      BY <3>1 DEF FrameOK
  <2>2. CASE i = Len(req) + 1
    <3>1. req'[i] = m
      BY <1>2, <2>2
    <3> QED
      BY <1>1, <3>1 DEF FrameOK
  <2> QED
    BY <1>3, <2>1, <2>2
<1>6. Sorted'
  <2> SUFFICES ASSUME NEW i \in 1 .. Len(req'), NEW j \in 1 .. Len(req'), i < j,
                      req'[i].cmd \in Sessioned, req'[j].cmd \in Sessioned
               PROVE  Before(req[i], req[j])'
    BY DEF Sorted
  <2>1. i \in 1 .. Len(req) /\ req'[i] = req[i]
    BY <1>2, <1>3
  <2>2. CASE j \in 1 .. Len(req)
    <3>1. req'[j] = req[j]
      BY <1>2, <2>2
    <3>2. Before(req[i], req[j])
      BY <2>1, <2>2, <3>1 DEF TransferInv, Sorted
    <3> QED
      BY <2>1, <3>1, <3>2 DEF Before
  <2>3. CASE j = Len(req) + 1
    <3>1. req'[j] = m
      BY <1>2, <2>3
    <3> QED
      BY <1>1, <1>4, <2>1, <3>1 DEF Before
  <2> QED
    BY <1>3, <2>2, <2>3
<1>7. RepliesOK'
  <2> SUFFICES ASSUME NEW j \in 1 .. Len(rsp) PROVE ReplyOK(rsp[j])'
    BY DEF RepliesOK
  <2>1. ReplyOK(rsp[j])
    BY DEF TransferInv, RepliesOK
  <2>2. rsp[j].session \in Nat
    BY QueueElements DEF TransferInv
  <2>3. ASSUME NEW i \in 1 .. Len(req'), rsp[j].cmd \in Sessioned,
               req'[i].cmd \in Sessioned
        PROVE  Answered(rsp[j], req[i])'
    <3>1. CASE i \in 1 .. Len(req)
      <4>1. req'[i] = req[i]
        BY <1>2, <3>1
      <4> QED
        BY <2>1, <2>3, <3>1, <4>1 DEF ReplyOK, Answered
    <3>2. CASE i = Len(req) + 1
      <4>1. req'[i] = m
        BY <1>2, <3>2
      <4> QED
        BY <1>1, <2>1, <2>2, <2>3, <4>1 DEF ReplyOK, Answered
    <3> QED
      BY <1>3, <3>1, <3>2
  <2> QED
    BY <2>1, <2>3 DEF ReplyOK
<1>8. Flushed'
  <2> SUFFICES ASSUME HostStage >= 3, NEW i \in 1 .. Len(req'),
                      req'[i].cmd \in Sessioned
               PROVE  req'[i].session = session /\ req'[i].cmd # "start"
    BY DEF Flushed
  <2>1. CASE i \in 1 .. Len(req)
    <3>1. req'[i] = req[i]
      BY <1>2, <2>1
    <3> QED
      BY <2>1, <3>1 DEF TransferInv, Flushed
  <2>2. CASE i = Len(req) + 1
    <3>1. req'[i] = m
      BY <1>2, <2>2
    <3> QED
      BY <1>1, <3>1 DEF Stage
  <2> QED
    BY <1>3, <2>1, <2>2
<1> QED
  BY <1>5, <1>6, <1>7, <1>8 DEF TransferInv, SessionIsRun

\* The end of an attempt leaves the worker at its stage.
LEMMA RetryStep ==
  ASSUME TransferInv, TypeOK', NEW x, Retry(x),
         UNCHANGED <<run, session, next, req, cap, flash>>,
         rsp' = rsp \/ (rsp # <<>> /\ rsp' = Tail(rsp)),
         pc \notin {"stop", "idle"}
  PROVE  TransferInv'
<1>1. /\ block' = block /\ pc' # "open"
      /\ \/ op' = op
         \/ op \in BlockOps /\ op' = "block_begin"
      /\ state' = "completed" => state = "completed"
  BY DEF Retry
<1>2. op' \in BlockOps <=> op \in BlockOps
  BY <1>1 DEF BlockOps
<1>3. Admitted'
  BY <1>1, <1>2
  DEF TransferInv, Admitted, Blocks, CapabilityPages, BlockOps
<1>4. HostStage' = HostStage
  BY <1>1 DEF HostStage, Stage, BlockOps
<1>5. HostStage \in Nat
  BY StageFacts DEF TransferInv, StageTable
<1>6. Flushed' /\ Written'
  BY <1>1, <1>4 DEF TransferInv, Flushed, Written, Blocks
<1>7. CompletedAtEnd'
  BY <1>1 DEF TransferInv, CompletedAtEnd, BlockOps
<1> QED
  BY <1>3, <1>4, <1>5, <1>6, <1>7, SilentStep

\* The worker stops, gives up, or goes round its wait loop.
LEMMA GotoStep ==
  ASSUME TransferInv, TypeOK',
         UNCHANGED <<run, session, next, req, cap, flash, op, block>>,
         rsp' = rsp \/ rsp' = <<>> \/ (rsp # <<>> /\ rsp' = Tail(rsp)),
         pc \in {"stop", "idle"} => pc' \in {"stop", "idle"},
         pc' # "open",
         state' = "completed" => state = "completed" \/ op = "end"
  PROVE  TransferInv'
<1>1. Admitted'
  BY DEF TransferInv, Admitted, Blocks
<1>2. HostStage' = HostStage /\ HostStage \in Nat
  BY StageFacts DEF HostStage, TransferInv, StageTable
<1>3. Flushed' /\ Written'
  BY <1>2 DEF TransferInv, Flushed, Written, Blocks
<1>4. CompletedAtEnd'
  BY DEF TransferInv, CompletedAtEnd
<1> QED
  BY <1>1, <1>2, <1>3, <1>4, SilentStep

(***************************************************************************)
(* The reply to the command at hand: the worker goes one stage on.  What   *)
(* the reply acknowledges - that START_CRC came through, or a block - is   *)
(* what the invariant says of the next stage.                              *)
(***************************************************************************)
LEMMA AdvanceStep ==
  ASSUME TransferInv, TypeOK', pc = "poll", rsp # <<>>,
         Accepts(Head(rsp)), Advance, rsp' = Tail(rsp),
         UNCHANGED <<run, session, next, req, cap, flash>>
  PROVE  TransferInv'
<1> DEFINE r == Head(rsp)
<1>1. r = rsp[1] /\ 1 \in 1 .. Len(rsp) /\ r \in ReplySet
  BY TailFacts DEF TransferInv, TypeOK
<1>2. ReplyOK(r)
  BY <1>1 DEF TransferInv, RepliesOK
<1>3. r.cmd = op /\ r.ok /\ (op \in BlockOps => r.detail = WireIndex(block))
  BY DEF Accepts, Matches
<1>4. op \in Sessioned => r.session = session
  BY DEF Accepts, Matches, Sessioned, CapabilityPages
<1> HIDE DEF r
<1>5. StageTable /\ (TypeOK' /\ Admitted' => StageTable')
  BY StageFacts, StageFactsNext DEF TransferInv
<1>6. op \in Ops /\ block \in Nat /\ ImageSize \in Nat \ {0}
  BY TransferAssumption DEF TransferInv, TypeOK
<1>7. pc' # "open" /\ Blocks' = Blocks
  BY DEF Advance, Begin, Continue, Fail, Blocks
<1>8. CASE op \in {"sync", "cap0"}
  <2>1. op' \in CapabilityPages /\ state' # "completed"
    BY <1>8 DEF Advance, Begin, StateOf, CapabilityPages
  <2>2. Admitted'
    BY <1>7, <2>1 DEF Admitted, CapabilityPages, BlockOps
  <2>3. HostStage' = 0 /\ HostStage = 0
    BY <1>5, <1>8, <2>1, <2>2 DEF StageTable, CapabilityPages
  <2>4. Flushed' /\ Written' /\ CompletedAtEnd'
    BY <2>1, <2>3 DEF Flushed, Written, CompletedAtEnd
  <2> QED
    BY <2>2, <2>3, <2>4, SilentStep
<1>9. CASE op = "cap1"
  <2>1. CASE CapabilityVerdict(ImageSize, cap) = "none"
    <3>1. op' = "start" /\ state' # "completed"
      BY <1>9, <2>1 DEF Advance, Begin, StateOf, CapabilityPages
    <3>2. Admitted'
      BY <1>7, <2>1, <3>1 DEF Admitted, CapabilityPages, BlockOps
    <3>3. HostStage' = 1 /\ HostStage = 0
      BY <1>5, <1>9, <3>1, <3>2 DEF StageTable, CapabilityPages
    <3>4. Flushed' /\ Written' /\ CompletedAtEnd'
      BY <3>1, <3>3 DEF Flushed, Written, CompletedAtEnd
    <3> QED
      BY <3>2, <3>3, <3>4, SilentStep
  <2>2. CASE CapabilityVerdict(ImageSize, cap) # "none"
    <3>1. UNCHANGED <<op, block>> /\ state' # "completed"
      BY <1>9, <2>2 DEF Advance, Fail
    <3> QED
      BY <1>7, <3>1, GotoStep
  <2> QED
    BY <2>1, <2>2
<1>10. CASE op \in {"start", "start_crc"}
  <2>1. /\ op' = IF op = "start" THEN "start_crc" ELSE "start_version"
        /\ state' # "completed"
    BY <1>10 DEF Advance, Begin, StateOf, CapabilityPages
  <2>2. Admitted'
    BY <1>7, <1>10, <2>1 DEF TransferInv, Admitted, CapabilityPages, BlockOps
  <2>3. /\ HostStage' = HostStage + 1
        /\ HostStage = IF op = "start" THEN 1 ELSE 2
    BY <1>5, <1>10, <2>1, <2>2 DEF StageTable
  <2>4. Flushed'
    <3> SUFFICES ASSUME op = "start_crc", NEW i \in 1 .. Len(req),
                        req[i].cmd \in Sessioned
                 PROVE  req[i].session = session /\ req[i].cmd # "start"
      BY <1>10, <2>3 DEF Flushed
    <3>1. Answered(r, req[i]) /\ r.session = session /\ r.cmd = "start_crc"
      BY <1>2, <1>3, <1>4 DEF ReplyOK, Sessioned
    <3>2. FrameOK(req[i]) /\ req[i].session \in Nat /\ session \in Nat
      <4>1. session \in Nat
        BY TransferAssumption DEF TransferInv, TypeOK, Sessions
      <4> QED
        BY <4>1, QueueElements DEF TransferInv, FramesOK
    <3>3. req[i].session = session
      BY <3>1, <3>2 DEF Answered, FrameOK
    <3>4. /\ Stage(r.cmd, r.detail) = 2
          /\ req[i].cmd = "start" => Stage(req[i].cmd, req[i].index) = 1
      BY <3>1 DEF Stage
    <3> QED
      BY <3>1, <3>2, <3>3, <3>4 DEF Answered
  <2>5. Written' /\ CompletedAtEnd'
    BY <2>1, <2>3, <1>10 DEF Written, CompletedAtEnd
  <2> QED
    BY <2>2, <2>3, <2>4, <2>5, <1>5, SilentStep DEF StageTable
<1>11. CASE op = "start_version"
  <2>1. op' = "block_begin" /\ block' = 0 /\ state' # "completed"
    BY <1>11 DEF Advance, Begin, StateOf, CapabilityPages, BlockOps, TransferInv,
                 CompletedAtEnd
  <2>2. CapabilityVerdict(ImageSize, cap) = "none"
    BY <1>11 DEF TransferInv, Admitted, CapabilityPages
  <2>3. Admitted'
    BY <1>7, <2>1, <2>2, BlocksFacts DEF TransferInv, Admitted, BlockOps
  <2>4. HostStage' = 4 /\ HostStage = 3
    BY <1>5, <1>11, <2>1, <2>3 DEF StageTable, BlockOps
  <2>5. Flushed' /\ CompletedAtEnd'
    BY <2>1, <2>4 DEF TransferInv, Flushed, CompletedAtEnd
  <2>6. Written'
    <3>1. \A k \in Blocks : k \in Nat
      BY <2>2, BlocksFacts DEF TransferInv
    <3>2. \A k \in Blocks : ~ k < 0
      BY <3>1
    <3> QED
      BY <1>7, <2>1, <3>2 DEF Written
  <2> QED
    BY <2>3, <2>4, <2>5, <2>6, SilentStep
<1>12. CASE op = "block_begin"
  <2>1. op' = "data" /\ UNCHANGED <<block, state>>
    BY <1>12 DEF Advance, Continue
  <2>2. Admitted'
    BY <1>7, <1>12, <2>1 DEF TransferInv, Admitted, BlockOps, CapabilityPages
  <2>3. HostStage' = HostStage
    BY <1>5, <1>12, <2>1, <2>2 DEF StageTable, BlockOps
  <2>4. Flushed' /\ Written' /\ CompletedAtEnd'
    BY <1>7, <1>12, <2>1, <2>3
    DEF TransferInv, Flushed, Written, CompletedAtEnd
  <2> QED
    BY <2>2, <2>3, <2>4, <1>5, SilentStep DEF StageTable
<1>13. CASE op = "block_end"
  <2>1. CapabilityVerdict(ImageSize, cap) = "none" /\ block \in Blocks
    BY <1>13 DEF TransferInv, Admitted, BlockOps, CapabilityPages
  <2>2. /\ block' = block + 1
        /\ op' = IF block + 1 \in Blocks THEN "block_begin" ELSE "end"
        /\ state' # "completed"
    BY <1>13 DEF Advance, Begin, StateOf, CapabilityPages, BlockOps, TransferInv,
                 CompletedAtEnd
  <2>3. /\ block < ImageSize /\ WireIndex(block) = block
        /\ block + 1 \in Blocks \/ \A j \in Blocks : j < block + 1
        /\ \A j \in Blocks : j \in Nat
    BY <2>1, BlocksFacts DEF TransferInv
  <2>4. Admitted'
    BY <1>7, <2>1, <2>2, <2>3 DEF Admitted, BlockOps
  <2>5. HostStage = 4 + block /\ HostStage <= HostStage' /\ HostStage' >= 4
    BY <1>5, <1>6, <1>13, <2>2, <2>3, <2>4 DEF StageTable, BlockOps
  <2>6. flash[block] = run
    BY <1>2, <1>3, <1>4, <1>13, <2>3 DEF ReplyOK, Sessioned, BlockOps
  <2>7. Written'
    BY <1>6, <1>7, <2>2, <2>3, <2>5, <2>6 DEF TransferInv, Written
  <2>8. Flushed' /\ CompletedAtEnd'
    BY <1>6, <2>2, <2>5 DEF TransferInv, Flushed, CompletedAtEnd
  <2> QED
    BY <2>4, <2>5, <2>7, <2>8, SilentStep
<1>14. CASE op = "end"
  <2>1. UNCHANGED <<op, block>>
    BY <1>14 DEF Advance
  <2> QED
    BY <1>7, <1>14, <2>1, GotoStep
<1> QED
  BY <1>6, <1>8, <1>9, <1>10, <1>11, <1>12, <1>13, <1>14
  DEF Advance

LEMMA OpenStep ==
  ASSUME TransferInv, TypeOK', Open
  PROVE  TransferInv'
<1>1. /\ pc = "open" /\ op = "sync" /\ rsp' = <<>>
      /\ UNCHANGED <<run, session, next, req, cap, flash>>
      /\ pc' # "open" /\ state' # "completed"
      /\ op' = "sync"
  BY DEF Open, TransferInv, Admitted, Fail, Goto, Begin, StateOf, CapabilityPages,
         CompletedAtEnd, deviceVars
<1>2. Admitted'
  BY <1>1 DEF Admitted, CapabilityPages, BlockOps
<1>3. HostStage' = 0 /\ HostStage = 0
  BY <1>1 DEF HostStage, Stage
<1>4. Flushed' /\ Written' /\ CompletedAtEnd'
  BY <1>1, <1>3 DEF Flushed, Written, CompletedAtEnd
<1> QED
  BY <1>1, <1>2, <1>3, <1>4, SilentStep

LEMMA SendStep ==
  ASSUME TransferInv, TypeOK', Send
  PROVE  TransferInv'
<1>1. /\ pc = "send" /\ op # "data"
      /\ UNCHANGED <<run, session, next, rsp, cap, flash>>
  BY DEF Send, deviceVars
<1>2. CASE Goto("abort") /\ UNCHANGED req
  BY <1>1, <1>2, GotoStep DEF Goto
<1>3. CASE Retry("io_error") /\ UNCHANGED req
  BY <1>1, <1>3, RetryStep
<1>4. CASE /\ req' = Append(req, Request) /\ pc' = "top"
           /\ UNCHANGED <<state, error, op, attempt, block, sequence, outcome>>
  <2>1. Admitted' /\ HostStage' = HostStage /\ Written' /\ CompletedAtEnd'
    BY <1>1, <1>4
    DEF TransferInv, Admitted, HostStage, Written, CompletedAtEnd, Blocks
  <2>2. Request \in FrameSet
    BY RequestType DEF TransferInv
  <2>3. /\ Request.cmd = op /\ op # "abort"
        /\ op \in Sessioned =>
             /\ Request.session = session
             /\ Stage(Request.cmd, Request.index) = HostStage
             /\ HostStage >= 1
             /\ op \in {"block_end", "end"} => Request.image = run
    BY <1>1, RequestFacts
    DEF TransferInv, TypeOK, Ops, BlockOps, CapabilityPages
  <2> QED
    BY <1>1, <1>4, <2>1, <2>2, <2>3, SendingStep
<1> QED
  BY <1>2, <1>3, <1>4 DEF Send

LEMMA SendDataStep ==
  ASSUME TransferInv, TypeOK', SendData
  PROVE  TransferInv'
<1>1. /\ pc = "send" /\ op = "data"
      /\ UNCHANGED <<run, session, next, rsp, cap, flash>>
  BY DEF SendData, deviceVars
<1>2. CASE Goto("abort") /\ UNCHANGED req
  BY <1>1, <1>2, GotoStep DEF Goto
<1>3. CASE Retry("io_error") /\ UNCHANGED req
  BY <1>1, <1>3, RetryStep
<1>4. CASE /\ req' = Append(req, Request) /\ op' \in {"data", "block_end"}
           /\ UNCHANGED <<state, block>> /\ pc' # "open"
  <2>1. Admitted'
    BY <1>1, <1>4 DEF TransferInv, Admitted, Blocks, BlockOps, CapabilityPages
  <2>2. HostStage' = HostStage
    BY <1>1, <1>4 DEF HostStage, Stage
  <2>3. Written' /\ CompletedAtEnd'
    BY <1>1, <1>4, <2>2 DEF TransferInv, Written, CompletedAtEnd, Blocks
  <2>4. Request \in FrameSet
    BY RequestType DEF TransferInv
  <2>5. Request.cmd \notin Sessioned
    BY <1>1 DEF Request, Frame, Sessioned
  <2> QED
    BY <1>1, <1>4, <2>1, <2>2, <2>3, <2>4, <2>5, SendingStep
<1> QED
  BY <1>1, <1>2, <1>3, <1>4 DEF SendData, Continue

LEMMA SendAbortStep ==
  ASSUME TransferInv, TypeOK', SendAbort
  PROVE  TransferInv'
<1>1. /\ pc = "abort" /\ pc' = "stop" /\ state' = "cancelled"
      /\ UNCHANGED <<run, session, next, op, block, rsp, cap, flash>>
  BY DEF SendAbort, deviceVars
<1>2. CASE UNCHANGED req
  BY <1>1, <1>2, GotoStep
<1>3. CASE req' = Append(req, Abort)
  <2>1. Admitted' /\ HostStage' = HostStage /\ Written' /\ CompletedAtEnd'
    BY <1>1
    DEF TransferInv, Admitted, HostStage, Written, CompletedAtEnd, Blocks
  <2>2. Abort \in FrameSet /\ Abort.cmd = "abort" /\ Abort.session = session
    BY RequestType DEF TransferInv, Abort, Frame
  <2> QED
    BY <1>1, <1>3, <2>1, <2>2, SendingStep
<1> QED
  BY <1>2, <1>3 DEF SendAbort

LEMMA WorkerStep ==
  ASSUME TransferInv, TypeOK', Worker
  PROVE  TransferInv'
<1>1. CASE Timeout
  BY <1>1, RetryStep DEF Timeout, deviceVars
<1>2. CASE Await
  BY <1>2, GotoStep DEF Await, Goto, deviceVars
<1>3. CASE PollNothing
  <2>1. CASE Goto("top")
    BY <1>3, <2>1, GotoStep DEF PollNothing, Goto, deviceVars
  <2>2. CASE Retry("io_error")
    BY <1>3, <2>2, RetryStep DEF PollNothing, deviceVars
  <2> QED
    BY <1>3, <2>1, <2>2 DEF PollNothing
<1>4. CASE PollReply
  <2>1. /\ pc = "poll" /\ rsp # <<>> /\ rsp' = Tail(rsp)
        /\ UNCHANGED <<run, session, next, req, cap, flash>>
    BY <1>4 DEF PollReply, deviceVars
  <2>2. CASE Goto("top")
    BY <2>1, <2>2, GotoStep DEF Goto
  <2>3. CASE Accepts(Head(rsp)) /\ Advance
    BY <2>1, <2>3, AdvanceStep
  <2>4. ASSUME NEW x, Retry(x) PROVE TransferInv'
    BY <2>1, <2>4, RetryStep
  <2> QED
    BY <1>4, <2>2, <2>3, <2>4 DEF PollReply
<1>5. CASE Stop
  BY <1>5, GotoStep DEF Stop, deviceVars
<1> QED
  BY <1>1, <1>2, <1>3, <1>4, <1>5, OpenStep, SendStep, SendDataStep,
     SendAbortStep DEF Worker

-----------------------------------------------------------------------------
(* The steps of the bootloader, the bus and the caller.                    *)

(***************************************************************************)
(* The oldest frame leaves the queue, with or without a reply.  The queue  *)
(* is in order, so what is left was sent after what the reply answers.     *)
(***************************************************************************)
LEMMA ConsumingStep ==
  ASSUME TransferInv, TypeOK', req # <<>>, req' = Tail(req),
         UNCHANGED <<hostVars, cap>>,
         HostStage >= 4 =>
           \A k \in FlashBlocks : flash[k] = run => flash'[k] = run,
         \/ rsp' = rsp
         \/ \E ok \in BOOLEAN :
              /\ rsp' = Append(rsp, Reply(Head(req), ok))
              /\ Head(req).cmd \notin {"data", "abort"}
              /\ ok /\ Head(req).cmd = "block_end"
                   => /\ Head(req).index \in FlashBlocks
                      /\ flash'[Head(req).index] = Head(req).image
  PROVE  TransferInv'
<1> DEFINE m == Head(req)
<1>1. /\ m = req[1] /\ 1 \in 1 .. Len(req)
      /\ \A i \in 1 .. Len(req') :
           i + 1 \in 1 .. Len(req) /\ req'[i] = req[i + 1]
  BY TailFacts DEF TransferInv, TypeOK
<1>2. UNCHANGED <<state, run, session, next, pc, op, block, cap>>
  BY DEF hostVars
<1>3. HostStage' = HostStage /\ HostStage \in Nat /\ Blocks' = Blocks
  BY <1>2, StageFacts DEF HostStage, TransferInv, StageTable, Blocks
<1>4. SessionIsRun' /\ Admitted' /\ CompletedAtEnd'
  BY <1>2, <1>3 DEF TransferInv, SessionIsRun, Admitted, CompletedAtEnd
<1>5. FramesOK'
  <2> SUFFICES ASSUME NEW i \in 1 .. Len(req') PROVE FrameOK(req[i])'
    BY DEF FramesOK
  <2>1. FrameOK(req[i + 1]) /\ req'[i] = req[i + 1]
    BY <1>1 DEF TransferInv, FramesOK
  <2> QED
    BY <1>2, <1>3, <2>1 DEF FrameOK
<1>6. Sorted'
  <2> SUFFICES ASSUME NEW i \in 1 .. Len(req'), NEW j \in 1 .. Len(req'), i < j,
                      req'[i].cmd \in Sessioned, req'[j].cmd \in Sessioned
               PROVE  Before(req[i], req[j])'
    BY DEF Sorted
  <2>1. /\ i + 1 \in 1 .. Len(req) /\ req'[i] = req[i + 1]
        /\ j + 1 \in 1 .. Len(req) /\ req'[j] = req[j + 1]
        /\ i + 1 < j + 1
    BY <1>1
  <2>2. Before(req[i + 1], req[j + 1])
    BY <2>1 DEF TransferInv, Sorted
  <2> QED
    BY <2>1, <2>2 DEF Before
<1>7. Flushed'
  BY <1>1, <1>2, <1>3 DEF TransferInv, Flushed
<1>8. Written'
  <2>1. op \notin {"sync"} \cup CapabilityPages => Blocks \subseteq FlashBlocks
    BY BlocksFacts DEF TransferInv, Admitted
  <2>2. HostStage >= 4 => op \notin {"sync"} \cup CapabilityPages
    BY StageFacts DEF TransferInv, StageTable
  <2> QED
    BY <1>2, <1>3, <2>1, <2>2 DEF TransferInv, Written
<1>9. ASSUME NEW j \in 1 .. Len(rsp), rsp'[j] = rsp[j]
      PROVE  ReplyOK(rsp[j])'
  <2>1. ReplyOK(rsp[j])
    BY DEF TransferInv, RepliesOK
  <2>2. ASSUME NEW i \in 1 .. Len(req'), rsp[j].cmd \in Sessioned,
               req'[i].cmd \in Sessioned
        PROVE  Answered(rsp[j], req[i])'
    <3>1. Answered(rsp[j], req[i + 1]) /\ req'[i] = req[i + 1]
      BY <1>1, <2>1, <2>2 DEF ReplyOK
    <3> QED
      BY <1>9, <3>1 DEF Answered
  <2>3. ASSUME rsp[j].cmd = "block_end", rsp[j].session = session, rsp[j].ok
        PROVE  rsp[j].detail \in FlashBlocks /\ flash'[rsp[j].detail] = run
    <3>1. rsp[j].detail \in FlashBlocks /\ flash[rsp[j].detail] = run
      BY <2>1, <2>3 DEF ReplyOK, Sessioned
    <3>2. Stage(rsp[j].cmd, rsp[j].detail) <= HostStage
      BY <1>3, <2>1, <2>3 DEF ReplyOK, Sessioned
    <3>3. HostStage >= 4
      BY <1>3, <2>3, <3>1, <3>2, TransferAssumption DEF Stage, FlashBlocks
    <3> QED
      BY <3>1, <3>3
  <2> QED
    BY <1>2, <1>3, <1>9, <2>1, <2>2, <2>3 DEF ReplyOK
<1>10. RepliesOK'
  <2>1. CASE rsp' = rsp
    BY <1>9, <2>1 DEF RepliesOK
  <2>2. ASSUME NEW ok \in BOOLEAN, rsp' = Append(rsp, Reply(m, ok)),
               m.cmd \notin {"data", "abort"},
               ok /\ m.cmd = "block_end"
                 => m.index \in FlashBlocks /\ flash'[m.index] = m.image
        PROVE  RepliesOK'
    <3>1. m \in FrameSet /\ FrameOK(m)
      BY <1>1, QueueElements DEF TransferInv, FramesOK
    <3>2. Reply(m, ok) \in ReplySet
      BY <2>2, <3>1 DEF Reply, ReplySet, FrameSet
    <3>3. /\ Len(rsp') = Len(rsp) + 1 /\ Len(rsp) \in Nat
          /\ \A j \in 1 .. Len(rsp) : rsp'[j] = rsp[j]
          /\ rsp'[Len(rsp) + 1] = Reply(m, ok)
      BY <2>2, <3>2, AppendFacts, LenProperties DEF TransferInv, TypeOK
    <3> SUFFICES ASSUME NEW j \in 1 .. Len(rsp') PROVE ReplyOK(rsp[j])'
      BY DEF RepliesOK
    <3>4. CASE j \in 1 .. Len(rsp)
      BY <1>9, <3>3, <3>4
    <3>5. CASE j = Len(rsp) + 1
      <4>1. /\ rsp'[j].cmd = m.cmd /\ rsp'[j].session = m.session
            /\ rsp'[j].ok = ok /\ rsp'[j].detail = m.index
        BY <3>3, <3>5 DEF Reply
      <4>2. ASSUME NEW i \in 1 .. Len(req'), m.cmd \in Sessioned,
                   req'[i].cmd \in Sessioned
            PROVE  Answered(rsp[j], req[i])'
        <5>1. /\ i + 1 \in 1 .. Len(req) /\ 1 < i + 1
              /\ req'[i] = req[i + 1]
          BY <1>1
        <5>2. Before(m, req[i + 1])
          BY <1>1, <4>2, <5>1 DEF TransferInv, Sorted
        <5> QED
          BY <4>1, <5>1, <5>2 DEF Before, Answered
      <4>3. ASSUME m.cmd \in Sessioned, m.session = session, ok,
                   m.cmd = "block_end"
            PROVE  m.index \in FlashBlocks /\ flash'[m.index] = run
        BY <2>2, <3>1, <4>3 DEF FrameOK
      <4> HIDE DEF m
      <4> QED
        BY <1>2, <1>3, <2>2, <3>1, <4>1, <4>2, <4>3 DEF ReplyOK, FrameOK
    <3> QED
      BY <3>3, <3>4, <3>5
  <2> QED
    BY <2>1, <2>2
<1> QED
  BY <1>4, <1>5, <1>6, <1>7, <1>8, <1>10 DEF TransferInv

LEMMA EnvironmentStep ==
  ASSUME TransferInv, TypeOK', Environment
  PROVE  TransferInv'
<1>1. CASE LoseFrame
  BY <1>1, ConsumingStep DEF LoseFrame, deviceVars
<1>2. CASE DeviceData
  BY <1>2, ConsumingStep DEF DeviceData
<1>3. CASE DeviceAbort
  BY <1>3, ConsumingStep DEF DeviceAbort
<1>4. CASE DeviceReset
  BY <1>4
  DEF DeviceReset, hostVars, TransferInv, SessionIsRun, Admitted, FramesOK,
      FrameOK, HostStage, Blocks, Sorted, RepliesOK, ReplyOK, Flushed, Written,
      CompletedAtEnd
<1>5. CASE DeviceReplies
  <2> DEFINE m == Head(req)
  <2>1. /\ req # <<>> /\ m.cmd \notin {"data", "abort"}
        /\ req' = Tail(req) /\ UNCHANGED <<hostVars, cap>>
    BY <1>5 DEF DeviceReplies
  <2>2. m \in FrameSet /\ FrameOK(m)
        /\ (HostStage >= 4 /\ m.cmd \in Sessioned
              => m.session = session /\ m.cmd # "start")
    <3>1. m = req[1] /\ 1 \in 1 .. Len(req)
      BY <2>1, TailFacts DEF TransferInv, TypeOK
    <3>2. HostStage \in Nat
      BY StageFacts DEF TransferInv, StageTable
    <3> QED
      BY <3>1, <3>2, QueueElements DEF TransferInv, FramesOK, Flushed
  <2>3. flash \in [FlashBlocks -> 0 .. MaxRuns]
    BY DEF TransferInv, TypeOK
  <2>4. CASE Obey(m) /\ Deliver(Reply(m, TRUE))
    <3>1. CASE m.cmd \notin {"start", "block_end"}
      BY <2>1, <2>4, <3>1, ConsumingStep DEF Obey, Deliver
    <3>2. CASE m.cmd = "start"
      <4>1. ~ HostStage >= 4
        BY <2>2, <3>2 DEF Sessioned
      <4> QED
        BY <2>1, <2>4, <3>2, <4>1, ConsumingStep DEF Deliver
    <3>3. CASE m.cmd = "block_end"
      <4>1. flash' = [flash EXCEPT ![m.index] = m.image] /\ m.index \in Blocks
        <5> HIDE DEF m
        <5> QED
          BY <2>4, <3>3 DEF Obey, BlockIntact, CapabilityPages
      <4>2. HostStage >= 4 => m.image = run
        BY <2>2, <3>3 DEF FrameOK, Sessioned
      <4>3. Blocks \subseteq FlashBlocks
        BY BlocksInFlash DEF TransferInv
      <4>4. flash'[m.index] = m.image /\ m.index \in FlashBlocks
        BY <2>3, <4>1, <4>3
      <4>5. HostStage >= 4 =>
              \A k \in FlashBlocks : flash[k] = run => flash'[k] = run
        BY <2>3, <4>1, <4>2
      <4> QED
        BY <2>1, <2>4, <4>4, <4>5, ConsumingStep DEF Deliver
    <3> QED
      BY <3>1, <3>2, <3>3
  <2>5. CASE Deliver(Reply(m, FALSE)) /\ UNCHANGED <<dev, flash>>
    BY <2>1, <2>5, ConsumingStep DEF Deliver
  <2> QED
    BY <1>5, <2>4, <2>5 DEF DeviceReplies
<1> QED
  BY <1>1, <1>2, <1>3, <1>4, <1>5 DEF Environment

\* A new run: no frame and no reply has its session yet.
LEMMA StartStep ==
  ASSUME TransferInv, TypeOK', Start, run + 1 < SessionSpace
  PROVE  TransferInv'
<1>1. /\ run' = run + 1 /\ state' = "ready" /\ pc' = "open" /\ op' = "sync"
      /\ session' = SkipZero(next) % SessionSpace /\ next' = SkipZero(next) + 1
      /\ UNCHANGED <<req, rsp, cap, flash>>
  BY DEF Start, deviceVars
<1>2. /\ next = run + 1 /\ session = run /\ run \in Nat
      /\ run + 1 < SessionSpace /\ SessionSpace \in Nat
  BY TransferAssumption DEF TransferInv, SessionIsRun, TypeOK
<1>3. next % SessionSpace = next
  BY <1>2
<1>4. session' = run + 1 /\ next' = run + 2
  BY <1>1, <1>2, <1>3 DEF SkipZero
<1>5. SessionIsRun' /\ Admitted' /\ CompletedAtEnd'
  BY <1>1, <1>2, <1>4
  DEF SessionIsRun, Admitted, CompletedAtEnd, CapabilityPages, BlockOps
<1>6. HostStage' = 0
  BY <1>1 DEF HostStage, Stage
<1>7. Flushed' /\ Written'
  BY <1>6 DEF Flushed, Written
<1>8. FramesOK'
  <2> SUFFICES ASSUME NEW i \in 1 .. Len(req) PROVE FrameOK(req[i])'
    BY <1>1 DEF FramesOK
  <2>1. FrameOK(req[i]) /\ req[i].session \in Nat
    BY QueueElements DEF TransferInv, FramesOK
  <2> QED
    BY <1>1, <1>2, <1>4, <2>1 DEF FrameOK
<1>9. Sorted'
  BY <1>1 DEF TransferInv, Sorted
<1>10. RepliesOK'
  <2> SUFFICES ASSUME NEW j \in 1 .. Len(rsp) PROVE ReplyOK(rsp[j])'
    BY <1>1 DEF RepliesOK
  <2>1. ReplyOK(rsp[j]) /\ rsp[j].session \in Nat
    BY QueueElements DEF TransferInv, RepliesOK
  <2> QED
    BY <1>1, <1>2, <1>4, <2>1 DEF ReplyOK
<1> QED
  BY <1>5, <1>7, <1>8, <1>9, <1>10 DEF TransferInv

LEMMA CancelStep ==
  ASSUME TransferInv, TypeOK', Cancel
  PROVE  TransferInv'
<1>1. UNCHANGED <<running, state, run, session, next, pc, op, block, req, rsp,
                  cap, flash>>
  BY DEF Cancel, deviceVars
<1> QED
  BY <1>1 DEF TransferInv, SessionIsRun, Admitted, FramesOK, FrameOK, HostStage,
              Blocks, Sorted, RepliesOK, ReplyOK, Flushed, Written,
              CompletedAtEnd

LEMMA StutterStep ==
  ASSUME TransferInv, TypeOK', UNCHANGED vars
  PROVE  TransferInv'
<1>1. UNCHANGED <<running, state, run, session, next, pc, op, block, req, rsp,
                  cap, flash>>
  BY DEF vars, hostVars, deviceVars
<1> QED
  BY <1>1 DEF TransferInv, SessionIsRun, Admitted, FramesOK, FrameOK, HostStage,
              Blocks, Sorted, RepliesOK, ReplyOK, Flushed, Written,
              CompletedAtEnd

LEMMA InvInit == Init => TransferInv
<1> SUFFICES ASSUME Init PROVE TransferInv
  OBVIOUS
<1>1. TypeOK
  BY InitType
<1>2. HostStage = 0
  BY DEF Init, HostStage, Stage
<1>3. Len(req) = 0 /\ Len(rsp) = 0
  BY DEF Init
<1>4. SessionIsRun /\ Admitted /\ CompletedAtEnd
  BY DEF Init, SessionIsRun, Admitted, CompletedAtEnd, BlockOps
<1>5. FramesOK /\ Sorted /\ RepliesOK
  BY <1>3 DEF FramesOK, Sorted, RepliesOK
<1>6. Flushed /\ Written
  BY <1>2 DEF Flushed, Written
<1> QED
  BY <1>1, <1>4, <1>5, <1>6 DEF TransferInv

LEMMA InvStep ==
  ASSUME UniqueSessions
  PROVE  TransferInv /\ [Next]_vars => TransferInv'
<1> SUFFICES ASSUME TransferInv, [Next]_vars PROVE TransferInv'
  OBVIOUS
<1>1. TypeOK'
  BY TypeStep DEF TransferInv
<1>2. ~HostCrash
  BY DEF UniqueSessions, HostCrash
<1>3. Start => run + 1 < SessionSpace
  BY TransferAssumption DEF Start, UniqueSessions, TransferInv, TypeOK
<1> QED
  BY <1>1, <1>2, <1>3, StartStep, CancelStep, WorkerStep, EnvironmentStep, StutterStep
  DEF Next

LEMMA InvInvariant ==
  ASSUME UniqueSessions
  PROVE  Spec => []TransferInv
BY InvInit, InvStep, PTL DEF Spec

-----------------------------------------------------------------------------
(* The theorems.                                                           *)

(***************************************************************************)
(* "completed" means that the flash holds the image of this run, however   *)
(* many attempts, lost frames, late replies and resets it took, for every  *)
(* image size, block size and max_retries.                                 *)
(***************************************************************************)
THEOREM CompletedImpliesFlashed ==
  ASSUME UniqueSessions
  PROVE  Spec => []CompletedIsFlashed
<1>1. TransferInv => CompletedIsFlashed
  <2> SUFFICES ASSUME TransferInv, state = "completed", NEW k \in Blocks
               PROVE  flash[k] = run
    BY DEF CompletedIsFlashed
  <2>1. op = "end" /\ k < block
    BY DEF TransferInv, CompletedAtEnd, Admitted
  <2>2. HostStage >= 4
    BY <2>1, StageFacts, TransferAssumption DEF TransferInv, StageTable
  <2> QED
    BY <2>1, <2>2 DEF TransferInv, Written
<1> QED
  BY <1>1, InvInvariant, PTL

(***************************************************************************)
(* The worker is never a block ahead of the flash: no reply of another     *)
(* attempt, block or run is taken for the one it waits for.                *)
(***************************************************************************)
THEOREM NeverAhead ==
  ASSUME UniqueSessions
  PROVE  Spec => []HostNeverAhead
<1>1. TransferInv => HostNeverAhead
  <2> SUFFICES ASSUME TransferInv, op \in BlockOps \cup {"end"},
                      NEW k \in Blocks, k < block
               PROVE  flash[k] = run
    BY DEF HostNeverAhead
  <2>1. HostStage >= 4
    BY StageFacts, TransferAssumption DEF TransferInv, StageTable, TypeOK
  <2> QED
    BY <2>1 DEF TransferInv, Written
<1> QED
  BY <1>1, InvInvariant, PTL

(***************************************************************************)
(* ABORT is the last frame of its session on the bus.                      *)
(***************************************************************************)
THEOREM AbortEndsSession ==
  ASSUME UniqueSessions
  PROVE  Spec => []AbortIsLast
<1>1. TransferInv => AbortIsLast
  <2> SUFFICES ASSUME TransferInv,
                      NEW i \in 1 .. Len(req), NEW j \in 1 .. Len(req),
                      i < j, req[i].cmd = "abort", req[j].cmd \in Sessioned,
                      req[j].session = req[i].session
               PROVE  FALSE
    BY DEF AbortIsLast
  <2>1. Before(req[i], req[j])
    BY DEF TransferInv, Sorted, Sessioned
  <2>2. req[i].session \in Nat
    BY QueueElements DEF TransferInv
  <2> QED
    BY <2>1, <2>2 DEF Before
<1> QED
  BY <1>1, InvInvariant, PTL

-----------------------------------------------------------------------------
(***************************************************************************)
(* OtaTransfer implements OtaUpdate: the refinement the runs check on a    *)
(* small instance, for every value of the constants.                       *)
(***************************************************************************)

(***************************************************************************)
(* What the contract needs besides TransferInv: the state that is reported *)
(* is a final one exactly while the worker is in its last step or gone,    *)
(* and nothing anywhere is about an image that has not been started yet.   *)
(***************************************************************************)
Idle == state \in Terminal \cup {"idle"}

Lifecycle ==
  /\ running = (pc # "idle")
  /\ Idle <=> pc \in {"idle", "stop"}

ImagesKnown ==
  /\ \A i \in 1 .. Len(req) : req[i].image <= run
  /\ \A k \in FlashBlocks : flash[k] <= run

LifeInv == TypeOK /\ Lifecycle /\ ImagesKnown

-----------------------------------------------------------------------------
LEMMA LifeInit == Init => LifeInv
<1> SUFFICES ASSUME Init PROVE LifeInv
  OBVIOUS
<1>1. TypeOK
  BY InitType
<1>2. Lifecycle
  BY DEF Init, Lifecycle, Idle, Terminal
<1>3. ImagesKnown
  BY DEF Init, ImagesKnown
<1> QED
  BY <1>1, <1>2, <1>3 DEF LifeInv

\* What the helpers do to the state that is reported.
LEMMA LifeHelpers ==
  ASSUME TypeOK, ~Idle
  PROVE  /\ \A s \in WorkerSteps \ {"idle", "stop"} :
              Goto(s) => ~Idle' /\ pc' \notin {"idle", "stop"}
         /\ \A o \in Ops, k \in Nat :
              Begin(o, k) => ~Idle' /\ pc' \notin {"idle", "stop"}
         /\ \A o \in Ops :
              Continue(o) => ~Idle' /\ pc' \notin {"idle", "stop"}
         /\ \A e \in OtaErrors : Fail(e) => state' = "failed" /\ pc' = "stop"
         /\ \A x \in Results :
              Retry(x) => \/ ~Idle' /\ pc' \notin {"idle", "stop"}
                          \/ state' = "failed" /\ pc' = "stop"
         /\ Advance => \/ ~Idle' /\ pc' \notin {"idle", "stop"}
                       \/ state' \in {"failed", "completed"} /\ pc' = "stop"
<1>1. ASSUME NEW o \in Ops PROVE StateOf(o) \notin Terminal \cup {"idle"}
  BY DEF StateOf, Ops, CapabilityPages, BlockOps, Terminal
<1>2. ASSUME NEW o \in Ops, NEW k, Begin(o, k)
      PROVE  ~Idle' /\ pc' \notin {"idle", "stop"}
  BY <1>1, <1>2 DEF Begin, Idle
<1>3. ASSUME NEW o, Continue(o) PROVE ~Idle' /\ pc' \notin {"idle", "stop"}
  BY <1>3 DEF Continue, Idle
<1>4. ASSUME NEW s \in WorkerSteps \ {"idle", "stop"}, Goto(s)
      PROVE  ~Idle' /\ pc' \notin {"idle", "stop"}
  BY <1>4 DEF Goto, Idle
<1>5. ASSUME NEW e, Fail(e) PROVE state' = "failed" /\ pc' = "stop"
  BY <1>5 DEF Fail
<1>6. ASSUME NEW x, Retry(x)
      PROVE  \/ ~Idle' /\ pc' \notin {"idle", "stop"}
             \/ state' = "failed" /\ pc' = "stop"
  BY <1>6 DEF Retry, Idle
<1>7. ASSUME Advance
      PROVE  \/ ~Idle' /\ pc' \notin {"idle", "stop"}
             \/ state' \in {"failed", "completed"} /\ pc' = "stop"
  <2>1. {"cap0", "cap1", "start", "start_crc", "start_version", "block_begin",
         "data", "end"} \subseteq Ops
    BY DEF Ops, CapabilityPages, BlockOps
  <2> QED
    BY <1>2, <1>3, <1>5, <1>7, <2>1 DEF Advance
<1> QED
  BY <1>2, <1>3, <1>4, <1>5, <1>6, <1>7

(***************************************************************************)
(* A step of the worker ends the run - in its last step but one - or       *)
(* leaves it in the middle; either way it touches no image.                *)
(***************************************************************************)
LEMMA LifeWorker ==
  ASSUME TypeOK, Lifecycle, Worker
  PROVE  /\ Lifecycle'
         /\ \/ state' = state
            \/ ~Idle /\ ~Idle'
            \/ ~Idle /\ state' \in Terminal
<1>1. /\ {"open", "send", "top", "poll", "abort"}
            \subseteq WorkerSteps \ {"idle", "stop"}
      /\ {"sync", "block_end"} \subseteq Ops
      /\ {"ack", "nack", "timeout", "io_error"} \subseteq Results
      /\ "transport_open_failed" \in OtaErrors
      /\ {"failed", "cancelled", "completed"} = Terminal
      /\ 0 \in Nat
  BY DEF WorkerSteps, Ops, BlockOps, Results, OtaErrors, Terminal
<1>2. running = (pc # "idle") /\ (Idle <=> pc \in {"idle", "stop"}) /\ TypeOK
  BY DEF Lifecycle
<1>3. CASE Stop
  BY <1>2, <1>3 DEF Stop, Lifecycle, Idle
<1>4. ASSUME pc \notin {"idle", "stop"}, running' = running,
             \/ ~Idle' /\ pc' \notin {"idle", "stop"}
             \/ state' \in {"failed", "completed", "cancelled"} /\ pc' = "stop"
             \/ state' = state /\ pc' \notin {"idle", "stop"}
      PROVE  /\ Lifecycle'
             /\ \/ state' = state
                \/ ~Idle /\ ~Idle'
                \/ ~Idle /\ state' \in Terminal
  BY <1>1, <1>2, <1>4 DEF Lifecycle, Idle
<1>5. CASE Open
  <2>1. pc = "open" /\ running' = running
    BY <1>5 DEF Open
  <2> QED
    BY <1>1, <1>2, <1>4, <1>5, <2>1, LifeHelpers DEF Open
<1>6. CASE Send
  <2>1. pc = "send" /\ running' = running
    BY <1>6 DEF Send
  <2> QED
    BY <1>1, <1>2, <1>4, <1>6, <2>1, LifeHelpers DEF Send
<1>7. CASE SendData
  <2>1. pc = "send" /\ running' = running
    BY <1>7 DEF SendData
  <2> QED
    BY <1>1, <1>2, <1>4, <1>7, <2>1, LifeHelpers DEF SendData
<1>8. CASE Timeout
  BY <1>1, <1>2, <1>4, <1>8, LifeHelpers DEF Timeout
<1>9. CASE Await
  BY <1>1, <1>2, <1>4, <1>9, LifeHelpers DEF Await
<1>10. CASE PollNothing
  BY <1>1, <1>2, <1>4, <1>10, LifeHelpers DEF PollNothing
<1>11. CASE PollReply
  <2>1. pc = "poll" /\ running' = running
    BY <1>11 DEF PollReply
  <2>2. CASE Goto("top")
    BY <1>1, <1>2, <1>4, <2>1, <2>2, LifeHelpers
  <2>3. CASE Advance
    BY <1>1, <1>2, <1>4, <2>1, <2>3, LifeHelpers
  <2>4. ASSUME NEW x \in Results, Retry(x)
        PROVE  /\ Lifecycle'
               /\ \/ state' = state
                  \/ ~Idle /\ ~Idle'
                  \/ ~Idle /\ state' \in Terminal
    BY <1>1, <1>2, <1>4, <2>1, <2>4, LifeHelpers
  <2> QED
    BY <1>1, <1>11, <2>2, <2>3, <2>4 DEF PollReply
<1>12. CASE SendAbort
  BY <1>1, <1>2, <1>4, <1>12 DEF SendAbort
<1> QED
  BY <1>3, <1>5, <1>6, <1>7, <1>8, <1>9, <1>10, <1>11, <1>12 DEF Worker

\* The same of any step, a crash of the host included.
LEMMA LifecycleStep ==
  ASSUME TypeOK, Lifecycle, [Next]_vars
  PROVE  Lifecycle'
<1>1. CASE Start
  BY <1>1 DEF Start, Lifecycle, Idle, Terminal
<1>2. CASE Cancel \/ Environment \/ UNCHANGED vars
  <2>1. UNCHANGED <<running, pc, state>>
    BY <1>2 DEF Cancel, Environment, LoseFrame, DeviceReplies, DeviceData,
                DeviceAbort, DeviceReset, vars, hostVars
  <2> QED
    BY <2>1 DEF Lifecycle, Idle
<1>3. CASE Worker
  BY <1>3, LifeWorker
<1>4. CASE HostCrash
  BY <1>4 DEF HostCrash, Lifecycle, Idle
<1> QED
  BY <1>1, <1>2, <1>3, <1>4 DEF Next

\* Every frame that is queued is about this run's image or about none.
LEMMA LifeImages ==
  ASSUME LifeInv, [Next]_vars, ~HostCrash
  PROVE  ImagesKnown'
<1>1. /\ run \in Nat /\ req \in Seq(FrameSet)
      /\ flash \in [FlashBlocks -> 0 .. MaxRuns]
      /\ \A i \in 1 .. Len(req) : req[i] \in FrameSet
  BY QueueElements, TransferAssumption DEF LifeInv, TypeOK
<1>2. /\ \A i \in 1 .. Len(req) : req[i].image <= run
      /\ \A k \in FlashBlocks : flash[k] <= run
  BY DEF LifeInv, ImagesKnown
<1>3. ASSUME run' \in {run, run + 1}, req' = req, flash' = flash
      PROVE  ImagesKnown'
  <2>1. \A i \in 1 .. Len(req) : req[i].image \in Nat
    BY <1>1, TransferAssumption DEF FrameSet
  <2>2. \A k \in FlashBlocks : flash[k] \in Nat
    BY <1>1
  <2> QED
    BY <1>1, <1>2, <1>3, <2>1, <2>2 DEF ImagesKnown
<1>4. ASSUME NEW m \in FrameSet, m.image \in {0, run}, req' = Append(req, m),
             UNCHANGED <<run, flash>>
      PROVE  ImagesKnown'
  <2>1. /\ \A i \in 1 .. Len(req) : req'[i] = req[i]
        /\ req'[Len(req) + 1] = m
        /\ \A i \in 1 .. Len(req') : i \in 1 .. Len(req) \/ i = Len(req) + 1
    BY <1>1, <1>4, AppendFacts, LenProperties
  <2> QED
    BY <1>1, <1>2, <1>4, <2>1 DEF ImagesKnown
<1>5. ASSUME req # <<>>, req' = Tail(req), UNCHANGED run,
             \A k \in FlashBlocks : flash'[k] \in {0, flash[k], Head(req).image}
      PROVE  ImagesKnown'
  <2>1. /\ Head(req) = req[1] /\ 1 \in 1 .. Len(req)
        /\ \A i \in 1 .. Len(req') : i + 1 \in 1 .. Len(req) /\ req'[i] = req[i + 1]
    BY <1>1, <1>5, TailFacts
  <2>2. Head(req).image <= run
    BY <1>2, <2>1
  <2> QED
    BY <1>1, <1>2, <1>5, <2>1, <2>2 DEF ImagesKnown
<1>6. CASE Start
  BY <1>3, <1>6 DEF Start, deviceVars
<1>7. CASE Cancel \/ UNCHANGED vars
  BY <1>3, <1>7 DEF Cancel, vars, hostVars, deviceVars
<1>8. CASE Worker
  <2>1. UNCHANGED <<run, flash>>
    BY <1>8 DEF Worker, Open, Send, SendData, Timeout, Await, PollNothing,
                PollReply, SendAbort, Stop, deviceVars
  <2>2. \/ req' = req
        \/ req' = Append(req, Request)
        \/ req' = Append(req, Abort)
    BY <1>8 DEF Worker, Open, Send, SendData, Timeout, Await, PollNothing,
                PollReply, SendAbort, Stop
  <2>3. Request \in FrameSet /\ Abort \in FrameSet
    BY RequestType DEF LifeInv
  <2>4. Request.image \in {0, run} /\ Abort.image \in {0, run}
    <3>1. op \in Ops
      BY DEF LifeInv, TypeOK
    <3> QED
      BY <3>1 DEF Request, Abort, Frame, Ops, BlockOps, CapabilityPages
  <2> QED
    BY <1>3, <1>4, <2>1, <2>2, <2>3, <2>4
<1>9. CASE Environment
  <2>1. run' = run
    BY <1>9 DEF Environment, LoseFrame, DeviceReplies, DeviceData, DeviceAbort,
                DeviceReset, hostVars
  <2>2. CASE DeviceReset
    BY <1>3, <2>2 DEF DeviceReset, hostVars
  <2>3. CASE LoseFrame \/ DeviceData \/ DeviceAbort
    BY <1>5, <2>1, <2>3 DEF LoseFrame, DeviceData, DeviceAbort, deviceVars
  <2>4. CASE DeviceReplies
    <3> DEFINE m == Head(req)
    <3>1. req # <<>> /\ req' = Tail(req)
      BY <2>4 DEF DeviceReplies
    <3>2. \A k \in FlashBlocks : flash'[k] \in {0, flash[k], m.image}
      <4>1. CASE flash' = flash
        BY <4>1
      <4>2. CASE flash' = [k \in FlashBlocks |-> 0]
        BY <4>2
      <4>3. CASE flash' = [flash EXCEPT ![m.index] = m.image]
        BY <1>1, <4>3
      <4>4. \/ flash' = flash
            \/ flash' = [k \in FlashBlocks |-> 0]
            \/ flash' = [flash EXCEPT ![m.index] = m.image]
        <5>1. Obey(m) \/ flash' = flash
          BY <2>4 DEF DeviceReplies
        <5> HIDE DEF m
        <5> QED
          BY <5>1 DEF Obey
      <4> QED
        BY <4>1, <4>2, <4>3, <4>4
    <3> QED
      BY <1>5, <2>1, <3>1, <3>2
  <2> QED
    BY <1>9, <2>2, <2>3, <2>4 DEF Environment
<1> QED
  BY <1>6, <1>7, <1>8, <1>9 DEF Next

LEMMA LifeStep ==
  ASSUME UniqueSessions
  PROVE  LifeInv /\ [Next]_vars => LifeInv'
<1> SUFFICES ASSUME LifeInv, [Next]_vars PROVE LifeInv'
  OBVIOUS
<1>1. ~HostCrash
  BY DEF UniqueSessions, HostCrash
<1>2. TypeOK'
  BY TypeStep DEF LifeInv
<1>3. ImagesKnown'
  BY <1>1, LifeImages
<1>4. Lifecycle'
  BY LifecycleStep DEF LifeInv
<1> QED
  BY <1>2, <1>3, <1>4 DEF LifeInv

-----------------------------------------------------------------------------
(* The refinement.                                                         *)

LEMMA MissingType == TypeOK => Missing \in SUBSET FlashBlocks
BY BlocksInFlash DEF Missing

LEMMA UpdateInit == Init => Update!Init
<1> SUFFICES ASSUME Init PROVE Update!Init
  OBVIOUS
<1> QED
  BY InitType, MissingType DEF Init, Update!Init, Phase

LEMMA MissingTypeNext == (TypeOK => Missing \in SUBSET FlashBlocks)'
BY MissingType, PTL

\* Whatever changes what is missing happens while nothing is completed.
LEMMA UpdateStep ==
  ASSUME UniqueSessions, LifeInv, LifeInv', CompletedIsFlashed,
         CompletedIsFlashed', [Next]_vars
  PROVE  [Update!Next]_(Update!vars)
<1>1. ~HostCrash
  BY DEF UniqueSessions, HostCrash
<1>2. Missing' \in SUBSET FlashBlocks
  BY MissingTypeNext DEF LifeInv
<1>3. /\ Phase = "completed" <=> state = "completed"
      /\ Phase' = "completed" <=> state' = "completed"
  BY DEF Phase, Terminal
<1>4. /\ state = "completed" => Missing = {}
      /\ state' = "completed" => Missing' = {}
  BY DEF CompletedIsFlashed, Missing
<1>5. /\ Phase = "active" <=> ~Idle
      /\ Phase' = "active" <=> ~Idle'
  BY DEF Phase, Idle, Terminal
<1>6. CASE Start
  <2>1. Phase # "active" /\ Phase' = "active"
    BY <1>5, <1>6 DEF Start, LifeInv, Lifecycle, Phase, Terminal
  <2>2. Missing' # {}
    <3>1. 0 \in Blocks /\ 0 \in FlashBlocks
      BY BlocksInFlash DEF LifeInv
    <3>2. flash[0] <= run /\ flash[0] \in Nat /\ run \in Nat
      BY <3>1, TransferAssumption DEF LifeInv, ImagesKnown, TypeOK
    <3>3. flash' = flash /\ run' = run + 1 /\ Blocks' = Blocks
      BY <1>6 DEF Start, deviceVars, Blocks
    <3> QED
      BY <3>1, <3>2, <3>3 DEF Missing
  <2> QED
    BY <1>2, <2>1, <2>2 DEF Update!Next, Update!Accept
<1>7. CASE Cancel \/ UNCHANGED vars
  <2>1. UNCHANGED <<state, flash, run, cap>>
    BY <1>7 DEF Cancel, vars, hostVars, deviceVars
  <2> QED
    BY <2>1 DEF Update!vars, Phase, Missing, Blocks
<1>8. CASE Worker
  <2>1. UNCHANGED <<flash, run, cap>>
    BY <1>8 DEF Worker, Open, Send, SendData, Timeout, Await, PollNothing,
                PollReply, SendAbort, Stop, deviceVars
  <2>2. Missing' = Missing
    BY <2>1 DEF Missing, Blocks
  <2>3. CASE state' = state
    BY <2>2, <2>3 DEF Update!vars, Phase
  <2>4. CASE ~Idle /\ ~Idle'
    BY <1>5, <2>2, <2>4 DEF Update!vars
  <2>5. CASE ~Idle /\ state' = "completed"
    BY <1>3, <1>4, <1>5, <2>2, <2>5 DEF Update!Next, Update!Complete
  <2>6. CASE ~Idle /\ state' \in {"failed", "cancelled"}
    <3>1. Phase' \in {"failed", "cancelled"}
      BY <2>6 DEF Phase, Terminal
    <3> QED
      BY <1>5, <2>2, <2>6, <3>1 DEF Update!Next, Update!GiveUp
  <2> QED
    BY <1>8, <2>3, <2>4, <2>5, <2>6, LifeWorker DEF Terminal, LifeInv
<1>9. CASE Environment
  <2>1. UNCHANGED <<state, run>>
    BY <1>9 DEF Environment, LoseFrame, DeviceReplies, DeviceData, DeviceAbort,
                DeviceReset, hostVars
  <2>2. Phase' = Phase
    BY <2>1 DEF Phase
  <2>3. CASE state = "completed"
    BY <1>4, <2>1, <2>2, <2>3 DEF Update!vars
  <2>4. CASE state # "completed"
    BY <1>2, <1>3, <2>2, <2>4 DEF Update!Next, Update!Program
  <2> QED
    BY <2>3, <2>4
<1> QED
  BY <1>1, <1>6, <1>7, <1>8, <1>9 DEF Next

(***************************************************************************)
(* OtaClient keeps its contract: one update at a time, "completed" only    *)
(* with the whole image in flash, and nothing still on the bus takes that  *)
(* away again.                                                             *)
(***************************************************************************)
THEOREM ImplementsUpdate ==
  ASSUME UniqueSessions
  PROVE  Spec => UpdateSpec
<1>1. LifeInv /\ LifeInv' /\ CompletedIsFlashed /\ CompletedIsFlashed' /\ [Next]_vars
        => [Update!Next]_(Update!vars)
  BY UpdateStep
<1> QED
  BY LifeInit, LifeStep, UpdateInit, CompletedImpliesFlashed, <1>1, PTL
  DEF Spec, UpdateSpec, Update!Spec

-----------------------------------------------------------------------------
(***************************************************************************)
(* The order of the reports.                                               *)
(***************************************************************************)

(***************************************************************************)
(* The state that is reported is the one that belongs to the command the   *)
(* worker is at, except where the flag was found set ahead of a block: the *)
(* worker then goes to the head of an exchange only to look at the flag    *)
(* again.  ABORT is sent in the middle of a run, with the flag set.        *)
(***************************************************************************)
Reported ==
  /\ pc = "open" => state = "ready"
  /\ pc \in {"send", "top", "poll"} =>
       \/ state = StateOf(op)
       \/ pc = "send" /\ op = "block_begin" /\ cancel /\ state = "starting"
  /\ pc = "abort" => cancel /\ ~Idle

ReportInv == TypeOK /\ Reported

\* The action of ReportsInOrder.
FollowsReport ==
  run' = run /\ state' # state /\ state' # "idle"
    => /\ state' \in Following(state)
       /\ state' = "failed" => error' \in ErrorsAfter(state)
       /\ state' = "cancelled" => cancel

\* Which states come first, and that none of them is a last one.
LEMMA StateOfFacts ==
  /\ StateOf("sync") = "syncing"
  /\ \A o \in CapabilityPages : StateOf(o) = "query_capability"
  /\ \A o \in {"start", "start_crc", "start_version"} : StateOf(o) = "starting"
  /\ \A o \in BlockOps : StateOf(o) = "transferring"
  /\ StateOf("end") = "verifying"
  /\ \A o \in Ops : StateOf(o) \notin Terminal \cup {"idle"}
BY DEF StateOf, Ops, CapabilityPages, BlockOps, Terminal

\* The last attempt of a command fails with an error of its state.
LEMMA RetryReports ==
  ASSUME TypeOK, state = StateOf(op), NEW x \in Results \ {"none"}, Retry(x),
         UNCHANGED cancel
  PROVE  Reported' /\ FollowsReport
<1>1. op \in Ops
  BY DEF TypeOK
<1>2. CASE AttemptLeft
  <2>1. StateOf(op') = StateOf(op)
    BY <1>1, <1>2, StateOfFacts DEF Retry, BlockOps
  <2> QED
    BY <1>2, <2>1 DEF Retry, Reported, FollowsReport
<1>3. CASE ~AttemptLeft /\ cancel /\ op \in CapabilityPages \cup BlockOps
  BY <1>1, <1>3, StateOfFacts DEF Retry, Reported, FollowsReport, Idle
<1>4. CASE ~AttemptLeft /\ ~(cancel /\ op \in CapabilityPages \cup BlockOps)
  <2>1. state' = "failed" /\ pc' = "stop" /\ error' = ExhaustedError(x)
    BY <1>4 DEF Retry
  <2>2. "failed" \in Following(state)
    BY <1>1, StateOfFacts DEF Following, Ops
  <2>3. ExhaustedError(x) \in ErrorsAfter(state)
    <3>1. CASE op \in CapabilityPages
      BY <3>1, StateOfFacts DEF ExhaustedError, ErrorsAfter
    <3>2. CASE op \in BlockOps
      BY <3>2, StateOfFacts DEF ExhaustedError, ErrorsAfter, BlockOps, CapabilityPages
    <3>3. CASE op \in {"sync", "start", "start_crc", "start_version", "end"}
      <4>1. state \in {"syncing", "starting", "verifying"}
        BY <3>3, StateOfFacts
      <4>2. ExhaustedError(x) \in {"timeout", "transport_io_error", "protocol_error"}
        BY <3>3 DEF ExhaustedError, BlockOps, CapabilityPages
      <4> QED
        BY <4>1, <4>2 DEF ErrorsAfter
    <3> QED
      BY <1>1, <3>1, <3>2, <3>3 DEF Ops
  <2> QED
    BY <2>1, <2>2, <2>3 DEF Reported, FollowsReport
<1> QED
  BY <1>2, <1>3, <1>4

\* The first report for a command follows the last one for the command before.
LEMMA BeginReports ==
  ASSUME TypeOK, NEW o \in Ops, NEW k, Begin(o, k), UNCHANGED cancel,
         \/ o = "block_begin" /\ state = "starting"
         \/ StateOf(o) = state
         \/ o # "block_begin" /\ StateOf(o) \in Following(state)
  PROVE  Reported' /\ FollowsReport
<1>1. StateOf(o) \notin {"failed", "cancelled"}
  BY StateOfFacts DEF Terminal
<1>2. o = "block_begin" => StateOf(o) = "transferring"
  BY StateOfFacts DEF BlockOps
<1>3. pc' = "send" /\ op' = o
  BY DEF Begin
<1>4. CASE o = "block_begin" /\ cancel
  <2>1. state' = state /\ state \in {"starting", StateOf(o)}
    BY <1>4 DEF Begin
  <2> QED
    BY <1>3, <1>4, <2>1 DEF Reported, FollowsReport
<1>5. CASE ~(o = "block_begin" /\ cancel)
  <2>1. state' = StateOf(o)
    BY <1>5 DEF Begin
  <2>2. state' = state \/ state' \in Following(state)
    BY <1>2, <2>1 DEF Following
  <2> QED
    BY <1>1, <1>3, <2>1, <2>2 DEF Reported, FollowsReport
<1> QED
  BY <1>4, <1>5

\* What runTransfer reports after an exchange that succeeded.
LEMMA AdvanceReports ==
  ASSUME TypeOK, state = StateOf(op), Advance, UNCHANGED cancel
  PROVE  Reported' /\ FollowsReport
<1>1. /\ {"sync", "cap0", "cap1", "start", "start_crc", "start_version",
          "block_begin", "data", "block_end", "end"} = Ops
      /\ {"cap0", "cap1"} = CapabilityPages
      /\ {"block_begin", "data", "block_end"} = BlockOps
  BY DEF Ops, CapabilityPages, BlockOps
<1>2. CASE op = "sync"
  BY <1>1, <1>2, StateOfFacts, BeginReports DEF Advance, Following
<1>3. CASE op = "cap0"
  BY <1>1, <1>3, StateOfFacts, BeginReports DEF Advance
<1>4. CASE op = "cap1"
  <2>1. state = "query_capability"
    BY <1>1, <1>4, StateOfFacts
  <2>2. CASE Begin("start", 0)
    BY <1>1, <2>1, <2>2, StateOfFacts, BeginReports DEF Following
  <2>3. CASE /\ CapabilityVerdict(ImageSize, cap) # "none"
             /\ Fail(CapabilityVerdict(ImageSize, cap))
    <3>1. CapabilityVerdict(ImageSize, cap) \in ErrorsAfter(state)
      BY <2>1, <2>3 DEF CapabilityVerdict, ErrorsAfter
    <3> QED
      BY <2>1, <2>3, <3>1 DEF Fail, Reported, FollowsReport, Following
  <2> QED
    BY <1>4, <2>2, <2>3 DEF Advance
<1>5. CASE op \in {"start", "start_crc"}
  BY <1>1, <1>5, StateOfFacts, BeginReports DEF Advance
<1>6. CASE op = "start_version"
  BY <1>1, <1>6, StateOfFacts, BeginReports DEF Advance
<1>7. CASE op = "block_begin"
  BY <1>1, <1>7, StateOfFacts DEF Advance, Continue, Reported, FollowsReport
<1>8. CASE op = "block_end"
  <2>1. state = "transferring"
    BY <1>1, <1>8, StateOfFacts
  <2>2. CASE Begin("block_begin", block + 1)
    BY <1>1, <2>1, <2>2, StateOfFacts, BeginReports
  <2>3. CASE Begin("end", block + 1)
    BY <1>1, <2>1, <2>3, StateOfFacts, BeginReports DEF Following
  <2> QED
    BY <1>8, <2>2, <2>3 DEF Advance
<1>9. CASE op = "end"
  BY <1>9, StateOfFacts DEF Advance, Reported, FollowsReport, Following
<1>10. op # "data"
  BY DEF Advance
<1> QED
  BY <1>1, <1>2, <1>3, <1>4, <1>5, <1>6, <1>7, <1>8, <1>9, <1>10 DEF TypeOK

\* Every step of the worker, over all its retries and early returns.
LEMMA WorkerReports ==
  ASSUME ReportInv, Worker
  PROVE  Reported' /\ FollowsReport
<1> USE DEF ReportInv
<1>1. UNCHANGED cancel
  BY DEF Worker, Open, Send, SendData, Timeout, Await, PollNothing, PollReply,
         SendAbort, Stop
<1>2. /\ {"ack", "nack", "timeout", "io_error"} \subseteq Results \ {"none"}
      /\ op \in Ops /\ "sync" \in Ops
  BY DEF Results, TypeOK, Ops
<1>3. ASSUME pc \in {"send", "top", "poll"}, pc = "send" => ~cancel
      PROVE  state = StateOf(op)
  BY <1>3 DEF Reported
<1>4. pc \in {"send", "top", "poll"} => ~Idle
  <2>1. "starting" \notin Terminal \cup {"idle"}
    BY DEF Terminal
  <2> QED
    BY <1>2, <2>1, StateOfFacts DEF Reported, Idle
<1>5. ASSUME pc \in {"send", "top", "poll"}, cancel, Goto("abort")
      PROVE  Reported' /\ FollowsReport
  BY <1>1, <1>4, <1>5 DEF Goto, Reported, FollowsReport, Idle
<1>6. ASSUME pc \in {"top", "poll"}, Goto("top") \/ Goto("poll")
      PROVE  Reported' /\ FollowsReport
  BY <1>3, <1>6 DEF Goto, Reported, FollowsReport
<1>7. CASE Open
  <2>1. pc = "open" /\ state = "ready"
    BY <1>7 DEF Open, Reported
  <2>2. CASE Fail("transport_open_failed")
    BY <2>1, <2>2 DEF Fail, Reported, FollowsReport, Following, ErrorsAfter
  <2>3. CASE cancel /\ Goto("abort")
    BY <1>1, <2>1, <2>3 DEF Goto, Reported, FollowsReport, Idle, Terminal
  <2>4. CASE Begin("sync", 0)
    BY <1>1, <1>2, <2>1, <2>4, StateOfFacts, BeginReports DEF Following
  <2> QED
    BY <1>7, <2>2, <2>3, <2>4 DEF Open
<1>8. CASE Send
  <2>1. CASE ~cancel /\ pc' = "top" /\ UNCHANGED <<state, error, op>>
    BY <1>3, <1>8, <2>1 DEF Send, Reported, FollowsReport
  <2> QED
    BY <1>1, <1>2, <1>3, <1>5, <1>8, <2>1, RetryReports DEF Send
<1>9. CASE SendData
  <2>1. pc = "send" /\ op = "data"
    BY <1>9 DEF SendData
  <2>2. CASE ~cancel /\ UNCHANGED <<state, error, pc, op>>
    BY <1>1, <2>2 DEF Reported, FollowsReport
  <2>3. CASE ~cancel /\ Continue("block_end")
    <3>1. StateOf("block_end") = StateOf(op)
      BY <2>1, StateOfFacts DEF BlockOps
    <3> QED
      BY <1>3, <2>1, <2>3, <3>1 DEF Continue, Reported, FollowsReport
  <2> QED
    BY <1>1, <1>2, <1>3, <1>5, <1>9, <2>1, <2>2, <2>3, RetryReports DEF SendData
<1>10. CASE Timeout
  BY <1>1, <1>2, <1>3, <1>10, RetryReports DEF Timeout
<1>11. CASE Await
  BY <1>5, <1>6, <1>11 DEF Await
<1>12. CASE PollNothing
  BY <1>1, <1>2, <1>3, <1>6, <1>12, RetryReports DEF PollNothing
<1>13. CASE PollReply
  <2>1. pc = "poll" /\ state = StateOf(op)
    BY <1>3, <1>13 DEF PollReply
  <2>2. \/ Goto("top") \/ Advance
        \/ \E x \in {"ack", "nack"} : Retry(x)
    BY <1>13 DEF PollReply
  <2> QED
    BY <1>1, <1>2, <1>6, <2>1, <2>2, RetryReports, AdvanceReports
<1>14. CASE SendAbort
  <2>1. pc' = "stop" /\ state' = "cancelled" /\ cancel
    BY <1>14 DEF SendAbort, Reported
  <2>2. "cancelled" \in Following(state)
    <3>1. state \in {"syncing", "query_capability", "ready", "starting",
                     "transferring", "verifying"}
      BY <1>14 DEF SendAbort, Reported, Idle, TypeOK, OtaStates, Terminal
    <3> QED
      BY <3>1 DEF Following
  <2> QED
    BY <2>1, <2>2 DEF Reported, FollowsReport
<1>15. CASE Stop
  BY <1>15 DEF Stop, Reported, FollowsReport
<1> QED
  BY <1>7, <1>8, <1>9, <1>10, <1>11, <1>12, <1>13, <1>14, <1>15 DEF Worker

LEMMA ReportInit == Init => ReportInv
BY InitType DEF Init, ReportInv, Reported

LEMMA ReportStep == ReportInv /\ [Next]_vars => ReportInv' /\ FollowsReport
<1> SUFFICES ASSUME ReportInv, [Next]_vars PROVE ReportInv' /\ FollowsReport
  OBVIOUS
<1>1. TypeOK'
  BY TypeStep DEF ReportInv
<1>2. CASE Worker
  BY <1>1, <1>2, WorkerReports DEF ReportInv
<1>3. CASE Start
  <2>1. run' # run
    BY <1>3, TransferAssumption DEF Start, ReportInv, TypeOK
  <2> QED
    BY <1>1, <1>3, <2>1 DEF Start, ReportInv, Reported, FollowsReport
<1>4. CASE HostCrash
  BY <1>1, <1>4 DEF HostCrash, ReportInv, Reported, FollowsReport
<1>5. CASE Cancel \/ Environment \/ UNCHANGED vars
  <2>1. /\ UNCHANGED <<state, pc, op>>
        /\ cancel' = cancel \/ cancel'
    BY <1>5 DEF Cancel, Environment, LoseFrame, DeviceReplies, DeviceData,
                DeviceAbort, DeviceReset, vars, hostVars
  <2> QED
    BY <1>1, <2>1 DEF ReportInv, Reported, FollowsReport, Idle
<1> QED
  BY <1>2, <1>3, <1>4, <1>5 DEF Next

(***************************************************************************)
(* The worker reports its states in the order OtaService relies on, and    *)
(* fails with the errors that belong to them, with any number of retries,  *)
(* on any bus, over crashes of the host and resets of the bootloader.      *)
(***************************************************************************)
THEOREM ReportsFollowTable == Spec => ReportsInOrder
<1>1. ReportInv /\ [Next]_vars => [FollowsReport]_vars
  BY ReportStep
<1>2. [FollowsReport]_vars
        <=> [run' = run /\ state' # state /\ state' # "idle"
               => /\ state' \in Following(state)
                  /\ state' = "failed" => error' \in ErrorsAfter(state)
                  /\ state' = "cancelled" => cancel]_vars
  BY DEF FollowsReport
<1> QED
  BY ReportInit, ReportStep, <1>1, <1>2, PTL DEF Spec, ReportsInOrder

-----------------------------------------------------------------------------
(***************************************************************************)
(* Faults. One fault costs one attempt. This is not obvious: a reply that  *)
(* comes after its attempt was given up stays in the socket, and is read   *)
(* by a later exchange, perhaps of another command. The invariant says     *)
(* that the faults so far have paid for the attempts made and for all that *)
(* what is still on its way can cost.                                      *)
(***************************************************************************)

(***************************************************************************)
(* What it may still cost.  A retry costs an attempt of one command only,  *)
(* but its reply may come late and cost an attempt of another: the replies *)
(* and frames between the bootloader and the worker are a pipeline, and a  *)
(* bill adds up what each item of it can still cost.                       *)
(***************************************************************************)

(***************************************************************************)
(* A bill for the pipeline P of L items: a[i] bounds the attempts that the *)
(* items i, i + 1, ... can still cost a worker that exchanges BLOCK_BEGIN, *)
(* e[i] those they can cost one that exchanges anything else, and n[i]     *)
(* bounds the times they can let it begin its block. v: what the worker    *)
(* sends next may be refused without a new fault.                          *)
(***************************************************************************)
Bill(P, L, v, a, e, n) ==
  /\ a \in [1 .. L + 1 -> Nat] /\ e \in [1 .. L + 1 -> Nat] /\ n \in [1 .. L + 1 -> Nat]
  /\ \A i \in 1 .. L :
       /\ a[i] >= a[i + 1] /\ e[i] >= e[i + 1] /\ n[i] >= n[i + 1]
       /\ P[i] = "good" => a[i] >= e[i + 1] /\ n[i] >= n[i + 1] + 1
       /\ P[i] = "bad" => a[i] >= a[i + 1] + 1 /\ a[i] >= e[i + 1]
       /\ P[i] = "refusal" => e[i] >= e[i + 1] + 1
  /\ \A i \in 1 .. L + 1 : a[i] <= e[i]
  /\ v => e[L + 1] >= 1

\* Q is P without its item t.
Without(P, Q, L, t) ==
  \A i \in 1 .. L - 1 : Q[i] = IF i < t THEN P[i] ELSE P[i + 1]

\* Q is P without its first item.
Behind(P, Q, K) == \A i \in 1 .. K : Q[i] = P[i + 1]

\* An item becomes one that costs nothing, or stays what it is.
NoWorse(x, y) == x = y \/ x = "other"

(***************************************************************************)
(* A fault makes Q of P: on the ranges T and U, which begin with the first *)
(* item, a and e are raised by one. An item may get worse where a range    *)
(* ends, and between the ends no item moves the worker from BLOCK_BEGIN to *)
(* the rest of its block.                                                  *)
(***************************************************************************)
Raised(P, Q, L, T, U) ==
  /\ T \subseteq U /\ U \subseteq 1 .. L + 1
  /\ \A i \in 1 .. L : (i + 1 \in U => i \in U) /\ (i + 1 \in T => i \in T)
  /\ \A i \in 1 .. L :
        \/ NoWorse(Q[i], P[i])
        \/ i \in T /\ i + 1 \notin T /\ P[i] = "good" /\ Q[i] = "bad"
        \/ Q[i] = "refusal" /\ i \in U /\ i + 1 \notin U
  /\ \A i \in 1 .. L : i \in U \ T /\ i + 1 \in U => Q[i] \notin {"good", "bad"}

\* A frame is sent: Q is P with an item K of its own at the end.
Extended(P, Q, K, v, w) ==
  /\ \A i \in 1 .. K - 1 : Q[i] = P[i]
  /\ \/ Q[K] = "other" /\ (w => v)
     \/ Q[K] = "refusal" /\ v /\ ~w
     \/ Q[K] = "good" /\ ~w

\* The next block: what began the last one can only cost an attempt now.
Rebegun(P, Q, L) ==
  \A i \in 1 .. L : Q[i] = "other" \/ (Q[i] = "bad" /\ P[i] \in {"good", "bad"})

\* The entries of a bill and the indices that are used.
LEMMA BillFacts ==
  ASSUME NEW L \in Nat, NEW P, NEW v, NEW a, NEW e, NEW n, Bill(P, L, v, a, e, n)
  PROVE  /\ \A i \in 1 .. L + 1 : /\ a[i] \in Nat /\ e[i] \in Nat /\ n[i] \in Nat
                                  /\ a[i] <= e[i]
         /\ \A i \in 1 .. L : i \in 1 .. L + 1 /\ i + 1 \in 1 .. L + 1
         /\ v => e[L + 1] >= 1
<1>1. \A i \in 1 .. L + 1 : a[i] \in Nat /\ e[i] \in Nat /\ n[i] \in Nat
  BY DEF Bill
<1> QED
  BY <1>1 DEF Bill

\* A pipeline in which nothing concerns the worker costs nothing.
LEMMA BillZero ==
  ASSUME NEW L \in Nat, NEW P, \A i \in 1 .. L : P[i] = "other"
  PROVE  \E a, e, n : Bill(P, L, FALSE, a, e, n) /\ a[1] = 0 /\ e[1] = 0 /\ n[1] = 0
<1> DEFINE z == [i \in 1 .. L + 1 |-> 0]
<1>1. Bill(P, L, FALSE, z, z, z) /\ z[1] = 0
  BY DEF Bill
<1> QED
  BY <1>1

\* A bill stays one when items lose their meaning.
LEMMA BillEased ==
  ASSUME NEW L \in Nat, NEW P, NEW Q, NEW v, NEW w, NEW a, NEW e, NEW n,
         Bill(P, L, v, a, e, n), w => v,
         \A i \in 1 .. L : NoWorse(Q[i], P[i])
  PROVE  Bill(Q, L, w, a, e, n)
BY DEF Bill, NoWorse

\* An item leaves the pipeline.
LEMMA BillDrop ==
  ASSUME NEW L \in Nat \ {0}, NEW P, NEW Q, NEW v, NEW t \in 1 .. L,
         NEW a, NEW e, NEW n, Bill(P, L, v, a, e, n),
         Without(P, Q, L, t)
  PROVE  \E b, f, m : /\ Bill(Q, L - 1, v, b, f, m)
                      /\ b[1] <= a[1] /\ f[1] <= e[1] /\ m[1] <= n[1]
                      /\ t = 1 => b[1] = a[2] /\ f[1] = e[2] /\ m[1] = n[2]
<1> DEFINE D(g) == [i \in 1 .. L |-> IF i < t THEN g[i] ELSE g[i + 1]]
           b == D(a)
           f == D(e)
           m == D(n)
<1>0. \A i \in 1 .. L - 1 : Q[i] = IF i < t THEN P[i] ELSE P[i + 1]
  BY DEF Without
<1>1. L - 1 \in Nat /\ L - 1 + 1 = L
  OBVIOUS
<1>2. b \in [1 .. L -> Nat] /\ f \in [1 .. L -> Nat] /\ m \in [1 .. L -> Nat]
  <2>1. \A i \in 1 .. L : i \in 1 .. L + 1 /\ i + 1 \in 1 .. L + 1
    OBVIOUS
  <2>2. \A i \in 1 .. L + 1 : a[i] \in Nat /\ e[i] \in Nat /\ n[i] \in Nat
    BY BillFacts
  <2> QED
    BY <2>1, <2>2
<1>3. \A i \in 1 .. L - 1 : /\ i + 1 \in 1 .. L
                            /\ i + 1 < t => /\ b[i] = a[i] /\ b[i + 1] = a[i + 1]
                                            /\ f[i] = e[i] /\ f[i + 1] = e[i + 1]
                                            /\ m[i] = n[i] /\ m[i + 1] = n[i + 1]
                            /\ i + 1 = t => /\ b[i] = a[i] /\ b[i + 1] = a[i + 2]
                                            /\ f[i] = e[i] /\ f[i + 1] = e[i + 2]
                                            /\ m[i] = n[i] /\ m[i + 1] = n[i + 2]
                            /\ i >= t => /\ b[i] = a[i + 1] /\ b[i + 1] = a[i + 2]
                                         /\ f[i] = e[i + 1] /\ f[i + 1] = e[i + 2]
                                         /\ m[i] = n[i + 1] /\ m[i + 1] = n[i + 2]
  OBVIOUS
<1>4. \A i \in 1 .. L : \/ i < t /\ b[i] = a[i] /\ f[i] = e[i]
                        \/ i >= t /\ b[i] = a[i + 1] /\ f[i] = e[i + 1]
  OBVIOUS
<1>5. f[L] = e[L + 1]
  OBVIOUS
<1>6. b[1] <= a[1] /\ f[1] <= e[1] /\ m[1] <= n[1]
  <2>1. 1 \in 1 .. L /\ 1 \in 1 .. L + 1 /\ 1 + 1 = 2
    OBVIOUS
  <2>2. /\ a[1] >= a[2] /\ e[1] >= e[2] /\ n[1] >= n[2]
        /\ a[1] \in Nat /\ e[1] \in Nat /\ n[1] \in Nat
    BY <2>1, BillFacts DEF Bill
  <2>3. /\ b[1] = IF 1 < t THEN a[1] ELSE a[2]
        /\ f[1] = IF 1 < t THEN e[1] ELSE e[2]
        /\ m[1] = IF 1 < t THEN n[1] ELSE n[2]
    BY <2>1
  <2> HIDE DEF b, f, m
  <2> QED
    BY <2>2, <2>3
<1>7. t = 1 => b[1] = a[2] /\ f[1] = e[2] /\ m[1] = n[2]
  OBVIOUS
<1> HIDE DEF b, f, m
<1>8. ASSUME NEW i \in 1 .. L - 1
      PROVE  /\ b[i] >= b[i + 1] /\ f[i] >= f[i + 1] /\ m[i] >= m[i + 1]
             /\ Q[i] = "good" => b[i] >= f[i + 1] /\ m[i] >= m[i + 1] + 1
             /\ Q[i] = "bad" => b[i] >= b[i + 1] + 1 /\ b[i] >= f[i + 1]
             /\ Q[i] = "refusal" => f[i] >= f[i + 1] + 1
  <2> DEFINE Step(g, h, k) ==
               /\ a[g] >= a[h] /\ e[g] >= e[h] /\ n[g] >= n[h]
               /\ P[k] = "good" => a[g] >= e[h] /\ n[g] >= n[h] + 1
               /\ P[k] = "bad" => a[g] >= a[h] + 1 /\ a[g] >= e[h]
               /\ P[k] = "refusal" => e[g] >= e[h] + 1
  <2>0. /\ i \in 1 .. L /\ i + 1 \in 1 .. L /\ i + 2 = (i + 1) + 1
        /\ i \in 1 .. L + 1 /\ i + 1 \in 1 .. L + 1 /\ i + 2 \in 1 .. L + 1
        /\ \A j \in 1 .. L + 1 : a[j] \in Nat /\ e[j] \in Nat /\ n[j] \in Nat
    BY BillFacts
  <2>4. \A j \in 1 .. L : Step(j, j + 1, j)
    BY DEF Bill
  <2>5. Step(i, i + 1, i) /\ Step(i + 1, i + 2, i + 1)
    BY <2>0, <2>4
  <2>6. Step(i, i + 2, i)
    BY <2>0, <2>5
  <2> HIDE <2>4
  <2>1. CASE i + 1 < t
    BY <1>0, <1>3, <2>1, <2>5
  <2>2. CASE i + 1 = t
    BY <1>0, <1>3, <2>2, <2>6
  <2>3. CASE i >= t
    BY <1>0, <1>3, <2>3, <2>5
  <2> QED
    BY <2>1, <2>2, <2>3
<1>9. \A i \in 1 .. L : b[i] <= f[i]
  <2>1. \A i \in 1 .. L : a[i] <= e[i] /\ a[i + 1] <= e[i + 1]
    BY BillFacts
  <2> QED
    BY <1>4, <2>1
<1>10. v => f[L] >= 1
  BY <1>5 DEF Bill
<1>11. Bill(Q, L - 1, v, b, f, m)
  BY <1>1, <1>2, <1>8, <1>9, <1>10 DEF Bill
<1> QED
  BY <1>6, <1>7, <1>11

\* What the first item makes of the bill behind it.
LEMMA BillHead ==
  ASSUME NEW L \in Nat \ {0}, NEW K, K = L - 1, NEW P, NEW Q, NEW v,
         NEW a, NEW e, NEW n, Bill(P, L, v, a, e, n), Behind(P, Q, K)
  PROVE  \E b, f, m : /\ Bill(Q, K, v, b, f, m)
                      /\ b[1] <= a[1] /\ f[1] <= e[1] /\ m[1] <= n[1]
                      /\ b[1] = a[2] /\ f[1] = e[2] /\ m[1] = n[2]
<1>1. 1 \in 1 .. L /\ Without(P, Q, L, 1)
  BY DEF Without, Behind
<1>2. \E b, f, m : /\ Bill(Q, L - 1, v, b, f, m)
                   /\ b[1] <= a[1] /\ f[1] <= e[1] /\ m[1] <= n[1]
                   /\ 1 = 1 => b[1] = a[2] /\ f[1] = e[2] /\ m[1] = n[2]
  BY <1>1, BillDrop
<1> QED
  BY <1>2

\* One fault.
LEMMA BillRaised ==
  ASSUME NEW L \in Nat, NEW P, NEW Q, NEW v, NEW w, NEW T, NEW U,
         NEW a, NEW e, NEW n, Bill(P, L, v, a, e, n),
         Raised(P, Q, L, T, U),
         w => v \/ L + 1 \in U
  PROVE  \E b, f : /\ Bill(Q, L, w, b, f, n)
                   /\ b[1] = IF 1 \in T THEN a[1] + 1 ELSE a[1]
                   /\ f[1] = IF 1 \in U THEN e[1] + 1 ELSE e[1]
<1>0. /\ T \subseteq U /\ U \subseteq 1 .. L + 1
      /\ \A i \in 1 .. L : (i + 1 \in U => i \in U) /\ (i + 1 \in T => i \in T)
      /\ \A i \in 1 .. L :
           \/ NoWorse(Q[i], P[i])
           \/ i \in T /\ i + 1 \notin T /\ P[i] = "good" /\ Q[i] = "bad"
           \/ Q[i] = "refusal" /\ i \in U /\ i + 1 \notin U
      /\ \A i \in 1 .. L : i \in U \ T /\ i + 1 \in U => Q[i] \notin {"good", "bad"}
  BY DEF Raised
<1> DEFINE b == [i \in 1 .. L + 1 |-> IF i \in T THEN a[i] + 1 ELSE a[i]]
           f == [i \in 1 .. L + 1 |-> IF i \in U THEN e[i] + 1 ELSE e[i]]
<1>1. b \in [1 .. L + 1 -> Nat] /\ f \in [1 .. L + 1 -> Nat]
  BY DEF Bill
<1>2. \A i \in 1 .. L + 1 : /\ b[i] = IF i \in T THEN a[i] + 1 ELSE a[i]
                            /\ f[i] = IF i \in U THEN e[i] + 1 ELSE e[i]
  OBVIOUS
<1> HIDE DEF b, f
<1>3. ASSUME NEW i \in 1 .. L
      PROVE  /\ b[i] >= b[i + 1] /\ f[i] >= f[i + 1]
             /\ Q[i] = "good" => b[i] >= f[i + 1] /\ n[i] >= n[i + 1] + 1
             /\ Q[i] = "bad" => b[i] >= b[i + 1] + 1 /\ b[i] >= f[i + 1]
             /\ Q[i] = "refusal" => f[i] >= f[i + 1] + 1
  <2>0. i \in 1 .. L + 1 /\ i + 1 \in 1 .. L + 1
    BY BillFacts
  <2>1. /\ i \in 1 .. L + 1 /\ i + 1 \in 1 .. L + 1
        /\ a[i] \in Nat /\ a[i + 1] \in Nat /\ e[i] \in Nat /\ e[i + 1] \in Nat
        /\ a[i] >= a[i + 1] /\ e[i] >= e[i + 1]
        /\ a[i] <= e[i] /\ a[i + 1] <= e[i + 1]
        /\ P[i] = "good" => a[i] >= e[i + 1] /\ n[i] >= n[i + 1] + 1
        /\ P[i] = "bad" => a[i] >= a[i + 1] + 1 /\ a[i] >= e[i + 1]
        /\ P[i] = "refusal" => e[i] >= e[i + 1] + 1
    <3>1. /\ a[i] \in Nat /\ a[i + 1] \in Nat /\ e[i] \in Nat /\ e[i + 1] \in Nat
          /\ a[i] <= e[i] /\ a[i + 1] <= e[i + 1]
      BY <2>0, BillFacts
    <3>2. /\ a[i] >= a[i + 1] /\ e[i] >= e[i + 1]
          /\ P[i] = "good" => a[i] >= e[i + 1] /\ n[i] >= n[i + 1] + 1
          /\ P[i] = "bad" => a[i] >= a[i + 1] + 1 /\ a[i] >= e[i + 1]
          /\ P[i] = "refusal" => e[i] >= e[i + 1] + 1
      BY DEF Bill
    <3> QED
      BY <2>0, <3>1, <3>2
  <2>2. /\ b[i] = IF i \in T THEN a[i] + 1 ELSE a[i]
        /\ f[i] = IF i \in U THEN e[i] + 1 ELSE e[i]
        /\ b[i + 1] = IF i + 1 \in T THEN a[i + 1] + 1 ELSE a[i + 1]
        /\ f[i + 1] = IF i + 1 \in U THEN e[i + 1] + 1 ELSE e[i + 1]
    BY <1>2, <2>1
  <2>3. (i + 1 \in U => i \in U) /\ (i + 1 \in T => i \in T) /\ (i \in T => i \in U)
        /\ (i + 1 \in T => i + 1 \in U)
    BY <1>0
  <2>4. CASE Q[i] = P[i]
    BY <1>0, <2>1, <2>2, <2>3, <2>4
  <2>5. CASE Q[i] = "other"
    BY <1>0, <2>1, <2>2, <2>3, <2>5
  <2>6. CASE i \in T /\ i + 1 \notin T /\ P[i] = "good" /\ Q[i] = "bad"
    BY <1>0, <2>1, <2>2, <2>3, <2>6
  <2>7. CASE Q[i] = "refusal" /\ i \in U /\ i + 1 \notin U
    BY <1>0, <2>1, <2>2, <2>3, <2>7
  <2> QED
    BY <1>0, <2>4, <2>5, <2>6, <2>7 DEF NoWorse
<1>4. \A i \in 1 .. L + 1 : b[i] <= f[i]
  <2> SUFFICES ASSUME NEW i \in 1 .. L + 1 PROVE b[i] <= f[i]
    OBVIOUS
  <2>1. a[i] \in Nat /\ e[i] \in Nat /\ a[i] <= e[i] /\ (i \in T => i \in U)
    BY <1>0, BillFacts
  <2> QED
    BY <1>2, <2>1
<1>5. w => f[L + 1] >= 1
  BY <1>2 DEF Bill
<1>6. n \in [1 .. L + 1 -> Nat] /\ \A i \in 1 .. L : n[i] >= n[i + 1]
  BY DEF Bill
<1>7. Bill(Q, L, w, b, f, n)
  BY <1>1, <1>3, <1>4, <1>5, <1>6 DEF Bill
<1> QED
  BY <1>2, <1>7

\* A frame is sent.
LEMMA BillAppend ==
  ASSUME NEW L \in Nat, NEW K, K = L + 1, NEW P, NEW Q, NEW v, NEW w,
         NEW a, NEW e, NEW n, Bill(P, L, v, a, e, n),
         Extended(P, Q, K, v, w)
  PROVE  \E b, f, m : /\ Bill(Q, K, w, b, f, m)
                      /\ b[1] = a[1] /\ f[1] = e[1]
                      /\ m[1] = IF Q[K] = "good" THEN n[1] + 1 ELSE n[1]
<1>0. /\ \A i \in 1 .. L : Q[i] = P[i]
      /\ \/ Q[L + 1] = "other" /\ (w => v)
         \/ Q[L + 1] = "refusal" /\ v /\ ~w
         \/ Q[L + 1] = "good" /\ ~w
  BY DEF Extended
<1> DEFINE b == [i \in 1 .. L + 2 |-> IF i <= L + 1 THEN a[i] ELSE 0]
           f == [i \in 1 .. L + 2 |-> IF i <= L + 1 THEN e[i] ELSE IF w THEN 1 ELSE 0]
           m == [i \in 1 .. L + 2 |-> IF i <= L + 1
                   THEN IF Q[L + 1] = "good" THEN n[i] + 1 ELSE n[i] ELSE 0]
<1>1. /\ b \in [1 .. L + 2 -> Nat] /\ f \in [1 .. L + 2 -> Nat]
      /\ m \in [1 .. L + 2 -> Nat]
      /\ L + 1 + 1 = L + 2 /\ L + 1 \in Nat
  BY DEF Bill
<1>2. /\ \A i \in 1 .. L + 1 : /\ b[i] = a[i] /\ f[i] = e[i]
                               /\ m[i] = IF Q[L + 1] = "good" THEN n[i] + 1 ELSE n[i]
      /\ b[L + 2] = 0 /\ m[L + 2] = 0 /\ f[L + 2] = IF w THEN 1 ELSE 0
  OBVIOUS
<1> HIDE DEF b, f, m
<1>3. ASSUME NEW i \in 1 .. L + 1
      PROVE  /\ b[i] >= b[i + 1] /\ f[i] >= f[i + 1] /\ m[i] >= m[i + 1]
             /\ Q[i] = "good" => b[i] >= f[i + 1] /\ m[i] >= m[i + 1] + 1
             /\ Q[i] = "bad" => b[i] >= b[i + 1] + 1 /\ b[i] >= f[i + 1]
             /\ Q[i] = "refusal" => f[i] >= f[i + 1] + 1
  <2>1. CASE i \in 1 .. L
    <3>1. i + 1 \in 1 .. L + 1 /\ Q[i] = P[i]
      BY <1>0, <2>1
    <3>2. /\ b[i] = a[i] /\ f[i] = e[i] /\ b[i + 1] = a[i + 1] /\ f[i + 1] = e[i + 1]
          /\ m[i] = IF Q[L + 1] = "good" THEN n[i] + 1 ELSE n[i]
          /\ m[i + 1] = IF Q[L + 1] = "good" THEN n[i + 1] + 1 ELSE n[i + 1]
      BY <1>2, <2>1, <3>1
    <3>3. n[i] \in Nat /\ n[i + 1] \in Nat
      BY <3>1, BillFacts
    <3>4. /\ a[i] >= a[i + 1] /\ e[i] >= e[i + 1] /\ n[i] >= n[i + 1]
          /\ P[i] = "good" => a[i] >= e[i + 1] /\ n[i] >= n[i + 1] + 1
          /\ P[i] = "bad" => a[i] >= a[i + 1] + 1 /\ a[i] >= e[i + 1]
          /\ P[i] = "refusal" => e[i] >= e[i + 1] + 1
      BY <2>1 DEF Bill
    <3> QED
      BY <3>1, <3>2, <3>3, <3>4
  <2>2. CASE i = L + 1
    <3>1. i + 1 = L + 2 /\ a[i] \in Nat /\ e[i] \in Nat /\ n[i] \in Nat
      BY <2>2 DEF Bill
    <3>2. /\ b[i] = a[i] /\ f[i] = e[i]
          /\ m[i] = IF Q[L + 1] = "good" THEN n[i] + 1 ELSE n[i]
      BY <1>2
    <3>3. v => e[i] >= 1
      BY <2>2 DEF Bill
    <3> QED
      BY <1>0, <1>2, <2>2, <3>1, <3>2, <3>3
  <2> QED
    BY <2>1, <2>2
<1>4. ASSUME NEW i \in 1 .. L + 2 PROVE b[i] <= f[i]
  <2>1. CASE i \in 1 .. L + 1
    BY <1>2, <2>1, BillFacts
  <2>2. CASE i = L + 2
    BY <1>2, <2>2
  <2> QED
    BY <2>1, <2>2
<1>5. Bill(Q, L + 1, w, b, f, m)
  <2>1. w => f[L + 1 + 1] >= 1
    BY <1>1, <1>2
  <2> QED
    BY <1>1, <1>3, <1>4, <2>1 DEF Bill
<1> QED
  BY <1>2, <1>5

\* The next block.
LEMMA BillNextBlock ==
  ASSUME NEW L \in Nat, NEW P, NEW Q, NEW v, NEW w, ~w,
         NEW a, NEW e, NEW n, Bill(P, L, v, a, e, n),
         Rebegun(P, Q, L)
  PROVE  \E b, m : /\ Bill(Q, L, w, b, b, m)
                   /\ b[1] = a[1] + n[1] /\ m[1] = 0
<1> DEFINE b == [i \in 1 .. L + 1 |-> a[i] + n[i]]
           m == [i \in 1 .. L + 1 |-> 0]
<1>1. b \in [1 .. L + 1 -> Nat] /\ m \in [1 .. L + 1 -> Nat]
  BY DEF Bill
<1>2. \A i \in 1 .. L + 1 : b[i] = a[i] + n[i] /\ m[i] = 0
  OBVIOUS
<1> HIDE DEF b, m
<1>3. ASSUME NEW i \in 1 .. L
      PROVE  /\ b[i] >= b[i + 1] /\ m[i] >= m[i + 1]
             /\ Q[i] # "good" /\ Q[i] # "refusal"
             /\ Q[i] = "bad" => b[i] >= b[i + 1] + 1
  <2>1. /\ i + 1 \in 1 .. L + 1 /\ a[i] \in Nat /\ a[i + 1] \in Nat
        /\ n[i] \in Nat /\ n[i + 1] \in Nat /\ e[i + 1] \in Nat
        /\ a[i + 1] <= e[i + 1]
    BY BillFacts
  <2>2. /\ b[i] = a[i] + n[i] /\ b[i + 1] = a[i + 1] + n[i + 1] /\ m[i] = 0 /\ m[i + 1] = 0
    BY <1>2, <2>1
  <2>3. /\ a[i] >= a[i + 1] /\ n[i] >= n[i + 1]
        /\ P[i] = "good" => a[i] >= e[i + 1] /\ n[i] >= n[i + 1] + 1
        /\ P[i] = "bad" => a[i] >= a[i + 1] + 1
    BY DEF Bill
  <2>4. Q[i] = "other" \/ (Q[i] = "bad" /\ P[i] \in {"good", "bad"})
    BY DEF Rebegun
  <2> QED
    BY <2>1, <2>2, <2>3, <2>4
<1>4. Bill(Q, L, w, b, b, m)
  <2>1. \A i \in 1 .. L + 1 : b[i] \in Nat /\ b[i] <= b[i]
    BY <1>1
  <2>2. \A i \in 1 .. L : /\ b[i] >= b[i + 1] /\ m[i] >= m[i + 1]
                          /\ Q[i] = "good" => b[i] >= b[i + 1] /\ m[i] >= m[i + 1] + 1
                          /\ Q[i] = "bad" => b[i] >= b[i + 1] + 1 /\ b[i] >= b[i + 1]
                          /\ Q[i] = "refusal" => b[i] >= b[i + 1] + 1
    BY <1>3
  <2> QED
    BY <1>1, <2>1, <2>2 DEF Bill
<1>5. b[1] = a[1] + n[1] /\ m[1] = 0
  BY <1>2
<1> QED
  BY <1>4, <1>5

-----------------------------------------------------------------------------
(* The pipeline of a transfer, and the order that it is in.                *)

\* The worker has sent its command and waits for the reply.
Waits == pc \in {"top", "poll"}

\* The run whose faults are counted has begun.
FirstRun == run = 1 /\ state # "idle"

\* It exchanges commands, and its budget is not used up.
Live == FirstRun /\ pc \in {"send", "top", "poll"} /\ faults <= FaultBudget

\* The commands between which the DATA of a block is sent.
Edges == {"block_begin", "block_end"}

\* The block a frame of the block loop belongs to.
Key(m) == IF m.cmd = "data" THEN m.block ELSE m.index

\* Only DATA is ahead of the frame i.
Lead(q, i) == \A j \in 1 .. i - 1 : q[j].cmd = "data"

\* The sequence number of the next DATA frame the bootloader will see.
Position ==
  CASE req # <<>> /\ req[1].cmd = "data"  -> req[1].index
    [] req = <<>> /\ op = "block_begin"   -> 0
    [] req = <<>> /\ op = "data"          -> sequence
    [] OTHER                              -> Frames(block)

\* The bootloader has all the DATA of the block that was sent before that.
Sound == dev.open = block /\ dev.got >= Position

(***************************************************************************)
(* What a reply can do to the worker: begin its block (good), cost an      *)
(* attempt of BLOCK_BEGIN (bad) or of another command (refusal), or        *)
(* nothing.                                                                *)
(***************************************************************************)
ReplyKind(r) ==
  CASE op \in BlockOps /\ r.cmd = "block_begin" /\ r.ok /\ r.detail = block -> "good"
    [] op \in BlockOps /\ r.cmd = "block_begin" /\ ~(r.ok /\ r.detail = block) -> "bad"
    [] op \in BlockOps /\ r.cmd = "block_end" /\ r.detail = block /\ ~r.ok -> "refusal"
    [] op \notin BlockOps \cup CapabilityPages /\ r.cmd = op /\ ~r.ok -> "refusal"
    [] OTHER -> "other"

\* An end of the block at hand that no other BLOCK_BEGIN precedes.
Refusable(i) == req[i].cmd = "block_end" /\ req[i].index = block /\ Lead(req, i)

\* What the reply to a frame will do when nothing goes wrong from now on.
FrameKind(i) ==
  CASE op \in BlockOps /\ req[i].cmd = "block_begin" /\ req[i].index = block -> "good"
    [] op \in BlockOps /\ req[i].cmd = "block_begin" /\ req[i].index # block -> "bad"
    [] op \in BlockOps /\ Refusable(i) /\ ~Sound -> "refusal"
    [] OTHER -> "other"

\* The pipeline: the replies received, then the frames still on their way.
Size == Len(rsp) + Len(req)

Pipe == [i \in 1 .. Size |-> IF i <= Len(rsp) THEN ReplyKind(rsp[i])
                                              ELSE FrameKind(i - Len(rsp))]

\* DATA is missing, so that the end of the block will be refused.
Spoilt == /\ \/ op = "block_begin" /\ Waits
             \/ op = "data"
             \/ op = "block_end" /\ ~Waits
          /\ Lead(req, Len(req) + 1)
          /\ ~Sound

\* The command at hand is to be sent, or its answer is still to come.
Hopeful ==
  \/ pc = "send"
  \/ \E i \in 1 .. Len(rsp) : rsp[i].cmd = op /\ (op \in CapabilityPages => rsp[i].ok)
  \/ \E i \in 1 .. Len(req) : req[i].cmd = op

\* The entry of the bill for the command at hand.
Charge(a, e) == IF op = "block_begin" THEN a[1] ELSE e[1]

(***************************************************************************)
(* The faults so far have paid for the attempts made, for every attempt    *)
(* the pipeline can still cost and for the one that ends because no answer *)
(* can come any more; and no more replies are left that begin the block    *)
(* than there were attempts.                                               *)
(***************************************************************************)
WithinBudget ==
  \E a, e, n :
    /\ Bill(Pipe, Size, Spoilt, a, e, n)
    /\ attempt + Charge(a, e) + (IF Hopeful THEN 0 ELSE 1) <= faults
    /\ op \in BlockOps =>
         n[1] <= attempt + (IF op = "block_begin" /\ Waits THEN 1 ELSE 0)

\* The session of the first run is 1.
Owner(cmd) == IF cmd \in Sessioned THEN 1 ELSE 0

\* Everything in the queues is of the first run, and nothing aborts it.
OwnSession ==
  /\ \A i \in 1 .. Len(req) : req[i].cmd # "abort" /\ req[i].session = Owner(req[i].cmd)
  /\ \A i \in 1 .. Len(rsp) : rsp[i].cmd # "abort" /\ rsp[i].session = Owner(rsp[i].cmd)

\* Replies come in the order of the commands.
RepliesInOrder ==
  \A i, j \in 1 .. Len(rsp) :
    i < j /\ rsp[i].cmd \in Sessioned /\ rsp[j].cmd \in Sessioned =>
      Stage(rsp[i].cmd, rsp[i].detail) <= Stage(rsp[j].cmd, rsp[j].detail)

\* Behind the ACK of BLOCK_BEGIN nothing of another block is left.
BlockAtHand ==
  op \in {"data", "block_end"} =>
    /\ \A i \in 1 .. Len(rsp) : rsp[i].cmd \in Edges => rsp[i].detail = block
    /\ \A i \in 1 .. Len(req) : req[i].cmd \in Edges => req[i].index = block

\* DATA frames are pieces of this image, and what they are numbered as.
PiecesOK ==
  /\ \A i \in 1 .. Len(req) :
       /\ req[i].cmd = "data" =>
            /\ op \in BlockOps \cup {"end"}
            /\ req[i].image = 1 /\ req[i].block <= block
            /\ req[i].index < Frames(req[i].block)
       /\ req[i].cmd = "block_end" => req[i].block = req[i].index
       /\ req[i].cmd = "start_crc" => req[i].image = 1
  /\ op = "data" => sequence < Frames(block) /\ pc = "send"

\* n can be sent right after m.
Successor(m, n) ==
  \/ /\ m.cmd = "data"
     /\ \/ n.cmd = "data" /\ n.index = m.index + 1
        \/ n.cmd = "block_end" /\ n.index = m.block /\ m.index + 1 = Frames(m.block)
        \/ n.cmd = "block_begin"
  \/ /\ m.cmd = "block_begin"
     /\ n.cmd = "block_begin" \/ (n.cmd = "data" /\ n.index = 0)
  \/ /\ m.cmd \notin {"data", "block_begin"}
     /\ n.cmd \notin {"data", "block_end"}

\* The frames on their way are what one worker sent, one after the other.
Adjacent ==
  \A i \in 1 .. Len(req) : i + 1 \in 1 .. Len(req) => Successor(req[i], req[i + 1])

\* The newest of them is what the worker has just sent.
LastSent ==
  req # <<>> =>
    LET m == req[Len(req)] IN
    /\ op = "block_begin" /\ Waits => m.cmd = "block_begin" /\ m.index = block
    /\ op = "data" =>
         \/ sequence = 0 /\ m.cmd = "block_begin" /\ m.index = block
         \/ m.cmd = "data" /\ m.index + 1 = sequence /\ m.block = block
    /\ op = "block_end" /\ ~Waits =>
         m.cmd = "data" /\ m.index + 1 = Frames(block) /\ m.block = block
    /\ (op = "block_end" /\ Waits) \/ op = "end" => m.cmd \notin {"data", "block_begin"}

\* Between frames of two blocks a BLOCK_BEGIN is on its way.
Segments ==
  \A i, j \in 1 .. Len(req) :
    /\ i < j
    /\ req[i].cmd \in BlockOps /\ req[j].cmd \in BlockOps
    /\ Key(req[i]) # Key(req[j])
    => \E l \in i + 1 .. j : req[l].cmd = "block_begin"

\* No DATA follows the BLOCK_BEGIN of a later block.
BeginFirst ==
  \A i, j \in 1 .. Len(req) :
    i < j /\ req[i].cmd = "block_begin" /\ req[j].cmd = "data"
      => req[i].index <= req[j].block

\* The block that is open holds this image and never more than it has.
Held ==
  /\ op \in BlockOps /\ dev.open = block =>
       /\ dev.got <= Frames(block)
       /\ dev.from = IF dev.got = 0 THEN {} ELSE {[image |-> 1, block |-> block]}
       /\ \A i \in 1 .. Len(req) : req[i].cmd = "data" => req[i].block = block
  /\ op \in BlockOps => dev.open = NoBlock \/ dev.open <= block
  /\ op \notin BlockOps \cup {"end"} => dev.open = NoBlock

\* What START and START_CRC did is there once they are acknowledged.
Opened ==
  /\ HostStage >= 2 \/ (\E i \in 1 .. Len(rsp) : rsp[i].cmd = "start" /\ rsp[i].ok)
       => dev.session = 1
  /\ HostStage >= 3 \/ (\E i \in 1 .. Len(rsp) : rsp[i].cmd = "start_crc" /\ rsp[i].ok)
       => dev.image = 1

\* The queues and the bootloader of a first run that is not aborted.
Orderly ==
  /\ OwnSession /\ RepliesInOrder /\ BlockAtHand /\ PiecesOK /\ Adjacent
  /\ LastSent /\ Segments /\ BeginFirst /\ Held /\ Opened

-----------------------------------------------------------------------------
(* Queues, frames and blocks.                                              *)

\* A queue without its first element.
LEMMA QueueTail ==
  ASSUME NEW S, NEW q \in Seq(S), q # <<>>
  PROVE  /\ Len(q) \in Nat \ {0} /\ Head(q) = q[1] /\ 1 \in 1 .. Len(q)
         /\ Len(Tail(q)) = Len(q) - 1 /\ Tail(q) \in Seq(S)
         /\ \A i \in 1 .. Len(q) - 1 : Tail(q)[i] = q[i + 1] /\ i + 1 \in 1 .. Len(q)
<1>1. Len(q) \in Nat \ {0}
  BY EmptySeq, LenProperties
<1>2. Head(q) = q[1] /\ Len(Tail(q)) = Len(q) - 1 /\ Tail(q) \in Seq(S)
      /\ \A i \in 1 .. Len(Tail(q)) : Tail(q)[i] = q[i + 1]
  BY HeadTailProperties
<1> QED
  BY <1>1, <1>2

\* ceil(a / b) for a from 1 to m b.
LEMMA FrameCountRange ==
  ASSUME NEW m \in Nat, NEW len \in 1 .. m * FramePayload
  PROVE  FrameCount(len) \in 1 .. m
<1> DEFINE f == FramePayload
           a == len + f - 1
           q == a \div f
<1>0. f \in Nat \ {0} /\ m * f \in Nat /\ len \in Nat /\ len >= 1 /\ len <= m * f
  BY BlocksAssumption
<1> HIDE DEF f
<1>1. a \in Nat /\ q \in Nat /\ q * f <= a /\ a < q * f + f
  BY <1>0
<1> HIDE DEF q
<1>2. q # 0
  <2>1. q = 0 => q * f + f = f
    BY <1>0
  <2> QED
    BY <1>0, <1>1, <2>1
<1>3. ASSUME m < q PROVE FALSE
  <2>1. q >= m + 1
    BY <1>1, <1>3
  <2>2. (m + 1) * f <= q * f
    BY <1>0, <1>1, <2>1
  <2>3. (m + 1) * f = m * f + f /\ q * f \in Nat
    BY <1>0, <1>1
  <2> QED
    BY <1>0, <1>1, <2>2, <2>3
<1>4. FrameCount(len) = q
  BY DEF FrameCount, q, f
<1> QED
  BY <1>1, <1>2, <1>3, <1>4

\* A block has at least one frame, and no more than can be numbered.
LEMMA FramesRange ==
  ASSUME TypeOK, CapabilityVerdict(ImageSize, cap) = "none", NEW k \in Blocks
  PROVE  Frames(k) \in 1 .. SequenceSpace
<1> DEFINE b == cap.blockSize
           n == BlockCount(ImageSize, b)
           s == ImageSize
<1>1. b \in Nat /\ s \in Nat \ {0}
  BY TransferAssumption DEF TypeOK
<1>2. b # 0 /\ b <= MaxBlockSize
  BY DEF CapabilityVerdict, BlockSizeAllowed
<1>3. n \in 1 .. s
  BY <1>1, <1>2, BlockCountRange
<1>4. k \in 0 .. n - 1
  BY <1>2 DEF Blocks
<1>5. n * b <= s + b - 1
  BY <1>1, <1>2 DEF BlockCount
<1> HIDE DEF n, b, s
<1>6. k * b < s /\ k * b \in Nat
  <2>1. k \in Nat /\ k + 1 <= n
    BY <1>3, <1>4
  <2>2. (k + 1) * b <= n * b
    BY <1>1, <1>3, <2>1
  <2>3. (k + 1) * b = k * b + b /\ k * b \in Nat
    BY <1>1, <2>1
  <2>4. n * b \in Nat
    BY <1>1, <1>3
  <2> QED
    BY <1>1, <1>5, <2>2, <2>3, <2>4
<1>7. BlockLength(k, s, b) \in 1 .. b
  BY <1>1, <1>2, <1>6 DEF BlockLength, BlockOffset, Least
<1>8. b <= SequenceSpace * FramePayload /\ SequenceSpace * FramePayload \in Nat
      /\ SequenceSpace \in Nat
  BY <1>1, <1>2, BlocksAssumption
<1>9. BlockLength(k, s, b) \in 1 .. SequenceSpace * FramePayload
  BY <1>1, <1>7, <1>8
<1> QED
  BY <1>8, <1>9, FrameCountRange DEF Frames, s, b

\* What a step of the bootloader or a loss does to the queues.
Answers ==
  /\ req # <<>>
  /\ req' = Tail(req)
  /\ UNCHANGED <<hostVars, cap>>
  /\ \/ rsp' = rsp
     \/ /\ Head(req).cmd \notin {"data", "abort"}
        /\ \E ok \in BOOLEAN : rsp' = Append(rsp, Reply(Head(req), ok))

\* The queues after such a step, element by element.
LEMMA AnswersFacts ==
  ASSUME TypeOK, Answers
  PROVE  /\ UNCHANGED <<running, cancel, state, error, run, session, next, pc, op,
                        attempt, block, sequence, outcome, cap>>
         /\ Len(req) \in Nat \ {0} /\ Len(req') = Len(req) - 1
         /\ 1 \in 1 .. Len(req) /\ Head(req) = req[1]
         /\ \A i \in 1 .. Len(req') : req'[i] = req[i + 1] /\ i + 1 \in 1 .. Len(req)
                                      /\ i + 1 - 1 = i
         /\ Len(rsp) \in Nat
         /\ \/ rsp' = rsp
            \/ /\ Len(rsp') = Len(rsp) + 1
               /\ req[1].cmd \notin {"data", "abort"}
               /\ \E ok \in BOOLEAN : rsp'[Len(rsp) + 1] = Reply(req[1], ok)
               /\ \A i \in 1 .. Len(rsp) : rsp'[i] = rsp[i]
<1>1. req \in Seq(FrameSet) /\ rsp \in Seq(ReplySet)
  BY DEF TypeOK
<1>2. /\ Len(req) \in Nat \ {0} /\ Head(req) = req[1] /\ 1 \in 1 .. Len(req)
      /\ Len(Tail(req)) = Len(req) - 1
      /\ \A i \in 1 .. Len(req) - 1 : Tail(req)[i] = req[i + 1] /\ i + 1 \in 1 .. Len(req)
  BY <1>1, QueueTail DEF Answers
<1>3. Len(rsp) \in Nat
  BY <1>1, LenProperties
<1>4. UNCHANGED <<running, cancel, state, error, run, session, next, pc, op,
                        attempt, block, sequence, outcome, cap>>
  BY DEF Answers, hostVars
<1>5. \/ rsp' = rsp
      \/ /\ Len(rsp') = Len(rsp) + 1
         /\ req[1].cmd \notin {"data", "abort"}
         /\ \E ok \in BOOLEAN : rsp'[Len(rsp) + 1] = Reply(req[1], ok)
         /\ \A i \in 1 .. Len(rsp) : rsp'[i] = rsp[i]
  <2>1. CASE rsp' = rsp
    BY <2>1
  <2>2. CASE rsp' # rsp
    <3>1. PICK ok \in BOOLEAN : rsp' = Append(rsp, Reply(Head(req), ok))
      BY <2>2 DEF Answers
    <3>2. Head(req).cmd \notin {"data", "abort"}
      BY <2>2 DEF Answers
    <3>3. req[1] \in FrameSet
      BY <1>1, <1>2, ElementOfSeq
    <3>4. Reply(req[1], ok) \in ReplySet
      BY <1>2, <3>2, <3>3 DEF Reply, FrameSet, ReplySet
    <3> QED
      BY <1>1, <1>2, <3>1, <3>2, <3>4, AppendFacts
  <2> QED
    BY <2>1, <2>2
<1>6. req' = Tail(req)
  BY DEF Answers
<1> QED
  BY <1>2, <1>3, <1>4, <1>5, <1>6

-----------------------------------------------------------------------------
(* The bus and the bootloader keep the order.                              *)

\* What such a step leaves of the order in the queues.
LEMMA AnswersOrder ==
  ASSUME TransferInv, Orderly, session = 1, Answers
  PROVE  /\ OwnSession' /\ RepliesInOrder' /\ BlockAtHand' /\ PiecesOK'
         /\ Adjacent' /\ LastSent' /\ Segments' /\ BeginFirst'
<1>0. TypeOK
  BY DEF TransferInv
<1>1. /\ UNCHANGED <<running, cancel, state, error, run, session, next, pc, op,
                     attempt, block, sequence, outcome, cap>>
      /\ Len(req) \in Nat \ {0} /\ Len(req') = Len(req) - 1
      /\ 1 \in 1 .. Len(req) /\ Head(req) = req[1]
      /\ \A i \in 1 .. Len(req') : req'[i] = req[i + 1] /\ i + 1 \in 1 .. Len(req)
                                   /\ i + 1 - 1 = i
      /\ Len(rsp) \in Nat
      /\ \/ rsp' = rsp
         \/ /\ Len(rsp') = Len(rsp) + 1
            /\ req[1].cmd \notin {"data", "abort"}
            /\ \E ok \in BOOLEAN : rsp'[Len(rsp) + 1] = Reply(req[1], ok)
            /\ \A i \in 1 .. Len(rsp) : rsp'[i] = rsp[i]
  BY <1>0, AnswersFacts
<1>2. \A i \in 1 .. Len(rsp') :
        \/ i \in 1 .. Len(rsp) /\ rsp'[i] = rsp[i]
        \/ /\ i = Len(rsp) + 1
           /\ rsp'[i].cmd = req[1].cmd /\ rsp'[i].session = req[1].session
           /\ rsp'[i].detail = req[1].index
  <2>1. CASE rsp' = rsp
    BY <2>1
  <2>2. CASE rsp' # rsp
    <3>1. PICK ok \in BOOLEAN : rsp'[Len(rsp) + 1] = Reply(req[1], ok)
      BY <1>1, <2>2
    <3>2. /\ rsp'[Len(rsp) + 1].cmd = req[1].cmd
          /\ rsp'[Len(rsp) + 1].session = req[1].session
          /\ rsp'[Len(rsp) + 1].detail = req[1].index
      BY <3>1 DEF Reply
    <3>3. /\ Len(rsp') = Len(rsp) + 1
          /\ \A i \in 1 .. Len(rsp) : rsp'[i] = rsp[i]
      BY <1>1, <2>2
    <3> QED
      BY <1>1, <3>2, <3>3
  <2> QED
    BY <2>1, <2>2
<1>3. \A k : Frames(k)' = Frames(k)
  BY <1>1 DEF Frames
<1> USE DEF Orderly
<1>4. OwnSession'
  BY <1>1, <1>2 DEF OwnSession
<1>5. RepliesInOrder'
  <2> SUFFICES ASSUME NEW i \in 1 .. Len(rsp'), NEW j \in 1 .. Len(rsp'), i < j,
                      rsp'[i].cmd \in Sessioned, rsp'[j].cmd \in Sessioned
               PROVE  Stage(rsp'[i].cmd, rsp'[i].detail) <= Stage(rsp'[j].cmd, rsp'[j].detail)
    BY DEF RepliesInOrder, Stage
  <2>1. i \in 1 .. Len(rsp) /\ rsp'[i] = rsp[i]
    BY <1>1, <1>2
  <2>2. CASE j \in 1 .. Len(rsp) /\ rsp'[j] = rsp[j]
    BY <2>1, <2>2 DEF RepliesInOrder
  <2>3. CASE rsp'[j].cmd = req[1].cmd /\ rsp'[j].detail = req[1].index
    <3>1. Answered(rsp[i], req[1])
      BY <1>1, <2>1, <2>3 DEF TransferInv, RepliesOK, ReplyOK
    <3>2. /\ rsp[i].session = 1 /\ req[1].session = 1 /\ req[1].cmd # "abort"
      BY <1>1, <2>1, <2>3 DEF OwnSession, Owner
    <3> QED
      BY <2>1, <2>3, <3>1, <3>2 DEF Answered
  <2> QED
    BY <1>2, <2>2, <2>3
<1>6. BlockAtHand'
  BY <1>1, <1>2 DEF BlockAtHand
<1>7. PiecesOK'
  BY <1>1, <1>3 DEF PiecesOK
<1>8. Adjacent'
  <2> SUFFICES ASSUME NEW i \in 1 .. Len(req'), i + 1 \in 1 .. Len(req')
               PROVE  Successor(req[i], req[i + 1])'
    BY DEF Adjacent
  <2>1. req'[i] = req[i + 1] /\ req'[i + 1] = req[i + 1 + 1]
        /\ i + 1 \in 1 .. Len(req) /\ i + 1 + 1 \in 1 .. Len(req)
    BY <1>1
  <2>2. Successor(req[i + 1], req[i + 1 + 1])
    BY <2>1 DEF Adjacent
  <2> QED
    BY <1>3, <2>1, <2>2 DEF Successor
<1>9. LastSent'
  <2> SUFFICES ASSUME req' # <<>> PROVE LastSent'
    BY DEF LastSent
  <2>1. Len(req') \in 1 .. Len(req')
    <3>1. req' \in Seq(FrameSet)
      BY <1>0, QueueTail DEF TypeOK, Answers
    <3> QED
      BY <3>1, QueueTail
  <2>2. req'[Len(req')] = req[Len(req)] /\ req # <<>>
    BY <1>1, <2>1 DEF Answers
  <2> QED
    BY <1>1, <1>3, <2>2 DEF LastSent, Waits
<1>10. Segments'
  <2> SUFFICES ASSUME NEW i \in 1 .. Len(req'), NEW j \in 1 .. Len(req'), i < j,
                      req'[i].cmd \in BlockOps, req'[j].cmd \in BlockOps,
                      Key(req'[i]) # Key(req'[j])
               PROVE  \E l \in i + 1 .. j : req'[l].cmd = "block_begin"
    BY DEF Segments, Key
  <2>1. /\ req'[i] = req[i + 1] /\ req'[j] = req[j + 1]
        /\ i + 1 \in 1 .. Len(req) /\ j + 1 \in 1 .. Len(req) /\ i + 1 < j + 1
    BY <1>1
  <2>2. PICK l \in i + 1 + 1 .. j + 1 : req[l].cmd = "block_begin"
    BY <2>1 DEF Segments
  <2>3. /\ l - 1 \in i + 1 .. j /\ l - 1 \in 1 .. Len(req') /\ l - 1 + 1 = l
    BY <1>1
  <2>4. req'[l - 1] = req[l]
    BY <1>1, <2>3
  <2> QED
    BY <2>2, <2>3, <2>4
<1>11. BeginFirst'
  <2> SUFFICES ASSUME NEW i \in 1 .. Len(req'), NEW j \in 1 .. Len(req'), i < j,
                      req'[i].cmd = "block_begin", req'[j].cmd = "data"
               PROVE  req'[i].index <= req'[j].block
    BY DEF BeginFirst
  <2>1. /\ req'[i] = req[i + 1] /\ req'[j] = req[j + 1]
        /\ i + 1 \in 1 .. Len(req) /\ j + 1 \in 1 .. Len(req) /\ i + 1 < j + 1
    BY <1>1
  <2> QED
    BY <2>1 DEF BeginFirst
<1> QED
  BY <1>4, <1>5, <1>6, <1>7, <1>8, <1>9, <1>10, <1>11

\* The types of what is in the queues.
LEMMA FrameTypes ==
  ASSUME TypeOK
  PROVE  /\ \A i \in 1 .. Len(req) : /\ req[i] \in FrameSet
                                     /\ req[i].index \in Nat /\ req[i].block \in Nat
                                     /\ req[i].cmd \in Ops \cup {"abort"}
         /\ \A i \in 1 .. Len(rsp) : /\ rsp[i] \in ReplySet /\ rsp[i].detail \in Nat
                                     /\ rsp[i].ok \in BOOLEAN /\ rsp[i].cmd \in Ops
         /\ Len(req) \in Nat /\ Len(rsp) \in Nat
         /\ block \in Nat /\ sequence \in Nat /\ attempt \in Nat
         /\ dev.open \in Nat /\ dev.got \in Nat
<1>1. req \in Seq(FrameSet) /\ rsp \in Seq(ReplySet) /\ dev \in DevSet
      /\ attempt \in 0 .. MaxRetries /\ MaxRetries \in Nat
  BY TransferAssumption DEF TypeOK
<1>2. /\ \A i \in 1 .. Len(req) : req[i] \in FrameSet
      /\ \A i \in 1 .. Len(rsp) : rsp[i] \in ReplySet
  BY <1>1, ElementOfSeq
<1>3. Len(req) \in Nat /\ Len(rsp) \in Nat
  BY <1>1, LenProperties
<1>4. dev.open \in Nat /\ dev.got \in Nat
  BY <1>1 DEF DevSet
<1> QED
  BY <1>1, <1>2, <1>3, <1>4 DEF FrameSet, ReplySet, TypeOK

\* The facts about blocks and stages that the steps below use.
LEMMA BlockPhase ==
  ASSUME TransferInv
  PROVE  /\ StageTable
         /\ op \in BlockOps =>
              /\ block \in Blocks /\ block < ImageSize /\ WireIndex(block) = block
              /\ Frames(block) \in 1 .. SequenceSpace /\ Frames(block) \in Nat
              /\ CapabilityVerdict(ImageSize, cap) = "none"
         /\ ImageSize \in Nat
<1>1. TypeOK /\ Admitted
  BY DEF TransferInv
<1>2. StageTable /\ ImageSize \in Nat
  BY <1>1, StageFacts, TransferAssumption
<1>3. ASSUME op \in BlockOps
      PROVE  CapabilityVerdict(ImageSize, cap) = "none" /\ block \in Blocks
  BY <1>1, <1>3 DEF Admitted, BlockOps, CapabilityPages
<1>4. SequenceSpace \in Nat
  BY BlocksAssumption
<1> QED
  BY <1>1, <1>2, <1>3, <1>4, BlocksFacts, FramesRange

\* All steps but ABORT and a reset are of this form.
LEMMA DeviceAnswers ==
  ASSUME TypeOK, LoseFrame \/ DeviceReplies \/ DeviceData
  PROVE  Answers
<1>1. CASE LoseFrame
  BY <1>1 DEF LoseFrame, Answers, deviceVars
<1>2. CASE DeviceData
  BY <1>2 DEF DeviceData, Answers
<1>3. CASE DeviceReplies
  <2>1. \/ rsp' = rsp
        \/ \E ok \in BOOLEAN : rsp' = Append(rsp, Reply(Head(req), ok))
    BY <1>3 DEF DeviceReplies, Deliver
  <2> QED
    BY <1>3, <2>1 DEF DeviceReplies, Answers
<1> QED
  BY <1>1, <1>2, <1>3

\* What the worker has asked for so far, in the frame at the head.
LEMMA HeadFacts ==
  ASSUME TransferInv, Orderly, run = 1, req # <<>>
  PROVE  LET m == req[1] IN
         /\ m.cmd \in Ops /\ m.index \in Nat /\ m.block \in Nat
         /\ m.session = Owner(m.cmd) /\ session = 1
         /\ m.cmd \in Sessioned => Stage(m.cmd, m.index) \in 1 .. HostStage
         /\ m.cmd \in {"block_end", "end"} => m.image = 1
         /\ HostStage >= 3 => m.cmd # "start"
<1>1. TypeOK /\ 1 \in 1 .. Len(req)
  BY QueueTail DEF TransferInv, TypeOK
<1>2. FrameOK(req[1]) /\ session = 1
  BY <1>1 DEF TransferInv, FramesOK, SessionIsRun
<1>3. req[1].cmd # "abort" /\ req[1].session = Owner(req[1].cmd)
  BY <1>1 DEF Orderly, OwnSession
<1>4. req[1].cmd \in Ops /\ req[1].index \in Nat /\ req[1].block \in Nat
  BY <1>1, <1>3, FrameTypes
<1>5. req[1].cmd \in Sessioned => req[1].session = session
  BY <1>2, <1>3 DEF Owner
<1>6. req[1].cmd \in Sessioned =>
        /\ Stage(req[1].cmd, req[1].index) \in 1 .. HostStage
        /\ req[1].cmd \in {"block_end", "end"} => req[1].image = 1
  BY <1>2, <1>3, <1>5 DEF FrameOK
<1>7. HostStage >= 3 => req[1].cmd # "start"
  BY <1>1 DEF TransferInv, Flushed, Sessioned
<1> QED
  BY <1>2, <1>3, <1>4, <1>6, <1>7 DEF Sessioned

\* What the bootloader does to its session and its open block.
LEMMA ObeyFacts ==
  ASSUME TransferInv, Orderly, run = 1, req # <<>>, Obey(req[1])
  PROVE  LET m == req[1] IN
         \/ /\ m.cmd \in {"sync", "start_version", "end"} \cup CapabilityPages
            /\ dev' = dev
         \/ /\ m.cmd = "start"
            /\ dev'.session = 1 /\ dev'.open = NoBlock /\ HostStage < 3
         \/ /\ m.cmd = "start_crc"
            /\ dev'.session = dev.session /\ dev'.image = 1
            /\ dev'.open = dev.open /\ dev'.got = dev.got /\ dev'.from = dev.from
         \/ /\ m.cmd = "block_begin" /\ m.index \in Blocks
            /\ dev'.session = dev.session /\ dev'.image = dev.image
            /\ dev'.open = m.index /\ dev'.got = 0 /\ dev'.from = {}
         \/ /\ m.cmd = "block_end" /\ BlockIntact(m)
            /\ dev'.session = dev.session /\ dev'.image = dev.image
            /\ dev'.open = NoBlock
<1> DEFINE m == req[1]
<1>1. dev \in DevSet /\ TypeOK /\ 1 \in 1 .. Len(req)
  BY QueueTail DEF TransferInv, TypeOK
<1>2. m.cmd = "start" => m.session = 1 /\ HostStage < 3
  <2>1. HostStage \in Nat
    BY BlockPhase DEF StageTable
  <2> QED
    BY <2>1, HeadFacts DEF Owner, Sessioned
<1>3. m.cmd = "start_crc" => m.image = 1
  BY <1>1 DEF Orderly, PiecesOK
<1>4. CASE m.cmd = "start" /\ dev' = [NoDeviceSession EXCEPT !.session = m.session]
  BY <1>2, <1>4 DEF NoDeviceSession
<1>5. CASE m.cmd = "start_crc" /\ dev' = [dev EXCEPT !.image = m.image]
  BY <1>1, <1>3, <1>5 DEF DevSet
<1>6. CASE /\ m.cmd = "block_begin" /\ m.index \in Blocks
           /\ dev' = [dev EXCEPT !.open = m.index, !.got = 0, !.from = {}]
  BY <1>1, <1>6 DEF DevSet
<1>7. CASE /\ m.cmd = "block_end" /\ BlockIntact(m)
           /\ dev' = [dev EXCEPT !.open = NoBlock, !.got = 0, !.from = {}]
  BY <1>1, <1>7 DEF DevSet
<1>8. CASE m.cmd \in {"sync", "start_version", "end"} \cup CapabilityPages /\ dev' = dev
  BY <1>8
<1> QED
  BY <1>4, <1>5, <1>6, <1>7, <1>8 DEF Obey

\* The open block after a step of the bootloader or a loss.
LEMMA HeldStep ==
  ASSUME TransferInv, Orderly, run = 1, LoseFrame \/ DeviceReplies \/ DeviceData
  PROVE  Held'
<1>1. TypeOK /\ Answers
  BY DeviceAnswers DEF TransferInv
<1>2. /\ UNCHANGED <<running, cancel, state, error, run, session, next, pc, op,
                     attempt, block, sequence, outcome, cap>>
      /\ req # <<>> /\ 1 \in 1 .. Len(req) /\ Head(req) = req[1]
      /\ \A i \in 1 .. Len(req') : req'[i] = req[i + 1] /\ i + 1 \in 1 .. Len(req)
  BY <1>1, AnswersFacts DEF Answers
<1>3. \A k : Frames(k)' = Frames(k)
  BY <1>2 DEF Frames
<1>4. ASSUME op \in BlockOps
      PROVE  block \in Nat /\ block < ImageSize /\ ImageSize \in Nat
             /\ Frames(block) \in Nat /\ Frames(block) >= 1 /\ HostStage = 4 + block
  BY <1>1, <1>4, BlockPhase, FrameTypes, BlocksAssumption DEF StageTable
<1>5. Held
  BY DEF Orderly
<1>6. CASE dev' = dev
  BY <1>2, <1>3, <1>5, <1>6 DEF Held, NoBlock
<1>7. CASE DeviceData /\ dev' # dev
  <2>1. /\ dev.open # NoBlock /\ dev.got < Frames(dev.open) /\ req[1].cmd = "data"
        /\ dev' = [dev EXCEPT !.got = @ + 1,
                     !.from = @ \cup {[image |-> req[1].image, block |-> req[1].block]}]
    BY <1>2, <1>7 DEF DeviceData
  <2>2. /\ dev'.open = dev.open /\ dev'.got = dev.got + 1 /\ dev.got \in Nat
        /\ dev'.from = dev.from \cup {[image |-> req[1].image, block |-> req[1].block]}
    <3>1. dev \in DevSet
      BY <1>1 DEF TypeOK
    <3> QED
      BY <2>1, <3>1 DEF DevSet
  <2>3. ASSUME op \in BlockOps, dev.open = block
        PROVE  /\ dev'.got <= Frames(block)
               /\ dev'.from = IF dev'.got = 0 THEN {} ELSE {[image |-> 1, block |-> block]}
    <3>1. /\ req[1].block = block /\ req[1].image = 1
          /\ dev.from = IF dev.got = 0 THEN {} ELSE {[image |-> 1, block |-> block]}
      BY <1>2, <1>5, <2>1, <2>3 DEF Held, Orderly, PiecesOK
    <3> QED
      BY <1>4, <2>1, <2>2, <2>3, <3>1
  <2> QED
    BY <1>2, <1>3, <1>5, <2>1, <2>2, <2>3 DEF Held, NoBlock
<1>8. CASE DeviceReplies /\ dev' # dev
  <2>1. Obey(req[1])
    BY <1>2, <1>8 DEF DeviceReplies
  <2>2. HostStage \in Nat /\ StageTable
    BY BlockPhase DEF StageTable
  <2>3. CASE req[1].cmd = "start" /\ dev'.open = NoBlock /\ HostStage < 3
    BY <1>2, <1>4, <2>3 DEF Held, NoBlock
  <2>4. CASE dev'.open = dev.open /\ dev'.got = dev.got /\ dev'.from = dev.from
    BY <1>2, <1>3, <1>5, <2>4 DEF Held, NoBlock
  <2>5. CASE /\ req[1].cmd = "block_begin" /\ req[1].index \in Blocks
             /\ dev'.open = req[1].index /\ dev'.got = 0 /\ dev'.from = {}
    <3>1. Stage(req[1].cmd, req[1].index) = 4 + req[1].index
      BY <2>5 DEF Stage
    <3>2. 4 + req[1].index <= HostStage /\ req[1].index \in Nat
      BY <2>5, <3>1, HeadFacts, <1>2 DEF Sessioned
    <3>3. op \in BlockOps \cup {"end"}
      BY <1>1, <2>2, <3>2 DEF StageTable, TypeOK, Ops, CapabilityPages, BlockOps
    <3>4. op \in BlockOps => req[1].index <= block
      BY <1>4, <3>2
    <3>5. ASSUME op \in BlockOps, dev'.open = block, NEW i \in 1 .. Len(req'),
                 req'[i].cmd = "data"
          PROVE  req'[i].block = block
      <4>1. /\ req'[i] = req[i + 1] /\ i + 1 \in 1 .. Len(req) /\ 1 < i + 1
        BY <1>2
      <4>2. req[1].index <= req[i + 1].block /\ req[i + 1].block <= block
        BY <1>2, <2>5, <3>5, <4>1 DEF Orderly, BeginFirst, PiecesOK
      <4>3. req[i + 1].block \in Nat
        BY <1>1, <4>1, FrameTypes
      <4> QED
        BY <1>4, <2>5, <3>5, <4>1, <4>2, <4>3
    <3> QED
      BY <1>2, <1>3, <1>4, <2>5, <3>3, <3>4, <3>5 DEF Held
  <2>6. CASE dev'.open = NoBlock
    BY <1>2, <1>4, <2>6 DEF Held, NoBlock
  <2> QED
    BY <1>2, <1>8, <2>1, <2>3, <2>4, <2>5, <2>6, ObeyFacts
<1>9. dev' # dev => DeviceData \/ DeviceReplies
  BY DEF LoseFrame, deviceVars
<1> QED
  BY <1>6, <1>7, <1>8, <1>9

\* The session after a step of the bootloader or a loss.
LEMMA OpenedStep ==
  ASSUME TransferInv, Orderly, run = 1, LoseFrame \/ DeviceReplies \/ DeviceData
  PROVE  Opened'
<1>1. TypeOK /\ Answers
  BY DeviceAnswers DEF TransferInv
<1>2. /\ UNCHANGED <<op, block>>
      /\ req # <<>> /\ 1 \in 1 .. Len(req) /\ Head(req) = req[1] /\ Len(rsp) \in Nat
  BY <1>1, AnswersFacts DEF Answers
<1>3. HostStage' = HostStage
  BY <1>2 DEF HostStage, Stage
<1>4. Opened
  BY DEF Orderly
<1>5. CASE rsp' = rsp /\ dev'.session = dev.session /\ dev'.image = dev.image
  BY <1>3, <1>4, <1>5 DEF Opened
<1>6. CASE LoseFrame \/ DeviceData
  <2>1. rsp' = rsp
    BY <1>6 DEF LoseFrame, DeviceData
  <2>2. dev \in DevSet
    BY <1>1 DEF TypeOK
  <2>3. dev'.session = dev.session /\ dev'.image = dev.image
    BY <1>6, <2>2 DEF LoseFrame, DeviceData, deviceVars, DevSet
  <2> QED
    BY <1>5, <2>1, <2>3
<1>7. CASE DeviceReplies
  <2>1. \/ Obey(req[1]) /\ Deliver(Reply(req[1], TRUE))
        \/ dev' = dev /\ Deliver(Reply(req[1], FALSE))
    BY <1>2, <1>7 DEF DeviceReplies
  <2>2. \A i \in 1 .. Len(rsp') :
          \/ i \in 1 .. Len(rsp) /\ rsp'[i] = rsp[i]
          \/ rsp'[i].cmd = req[1].cmd /\ (rsp'[i].ok => Obey(req[1]))
    <3>1. CASE rsp' = rsp
      BY <3>1
    <3>2. ASSUME NEW ok \in BOOLEAN, rsp' = Append(rsp, Reply(req[1], ok)),
                 ok => Obey(req[1])
          PROVE  \A i \in 1 .. Len(rsp') :
                   \/ i \in 1 .. Len(rsp) /\ rsp'[i] = rsp[i]
                   \/ rsp'[i].cmd = req[1].cmd /\ (rsp'[i].ok => Obey(req[1]))
      <4>1. Reply(req[1], ok).cmd = req[1].cmd /\ Reply(req[1], ok).ok = ok
        BY DEF Reply
      <4>2. Reply(req[1], ok) \in ReplySet
        BY <1>2, <1>7, HeadFacts, FrameTypes, <1>1 DEF Reply, ReplySet, FrameSet
      <4>3. rsp \in Seq(ReplySet)
        BY <1>1 DEF TypeOK
      <4> QED
        BY <1>2, <3>2, <4>1, <4>2, <4>3, AppendFacts
    <3> QED
      BY <2>1, <3>1, <3>2 DEF Deliver
  <2>3. req[1].cmd = "start" => Stage(req[1].cmd, req[1].index) = 1
    BY DEF Stage
  \* START is not obeyed any more once START_CRC is acknowledged.
  <2>4. ASSUME NEW i \in 1 .. Len(rsp), rsp[i].cmd = "start_crc"
        PROVE  req[1].cmd # "start"
    <3>1. ReplyOK(rsp[i])
      BY DEF TransferInv, RepliesOK
    <3>2. rsp[i].session = 1
      BY <2>4 DEF Orderly, OwnSession, Owner, Sessioned
    <3>3. req[1].cmd = "start" => Answered(rsp[i], req[1]) /\ req[1].session = 1
      BY <1>2, <2>4, <3>1, HeadFacts DEF ReplyOK, Sessioned, Owner
    <3>4. Stage(rsp[i].cmd, rsp[i].detail) = 2
      BY <2>4 DEF Stage
    <3> QED
      BY <2>3, <3>2, <3>3, <3>4 DEF Answered
  <2>5. CASE dev' = dev /\ Deliver(Reply(req[1], FALSE)) /\ ~Obey(req[1])
    BY <1>3, <1>4, <2>2, <2>5 DEF Opened
  <2>6. CASE Obey(req[1])
    <3>1. CASE req[1].cmd = "start" /\ dev'.session = 1 /\ HostStage < 3
      <4>1. ~(\E i \in 1 .. Len(rsp') : rsp'[i].cmd = "start_crc" /\ rsp'[i].ok)
        BY <2>2, <2>4, <3>1
      <4>2. HostStage \in Nat
        BY BlockPhase DEF StageTable
      <4> QED
        BY <1>3, <3>1, <4>1, <4>2 DEF Opened
    <3>2. CASE req[1].cmd = "start_crc" /\ dev'.session = dev.session /\ dev'.image = 1
      BY <1>3, <1>4, <2>2, <3>2 DEF Opened
    <3>3. CASE /\ req[1].cmd \notin {"start", "start_crc"}
               /\ dev'.session = dev.session /\ dev'.image = dev.image
      BY <1>3, <1>4, <2>2, <3>3 DEF Opened
    <3> QED
      BY <1>2, <2>6, <3>1, <3>2, <3>3, ObeyFacts DEF CapabilityPages
  <2> QED
    BY <2>1, <2>5, <2>6
<1> QED
  BY <1>6, <1>7

\* The bus and the bootloader keep the order.
LEMMA EnvironmentOrderly ==
  ASSUME TransferInv, Orderly, run = 1, LoseFrame \/ DeviceReplies \/ DeviceData
  PROVE  Orderly'
<1>1. session = 1 /\ Answers
  BY DeviceAnswers DEF TransferInv, SessionIsRun
<1> QED
  BY <1>1, AnswersOrder, HeldStep, OpenedStep DEF Orderly

-----------------------------------------------------------------------------
(* The worker keeps the order.                                             *)

\* The frame the worker sends.
LEMMA RequestShape ==
  ASSUME TransferInv, run = 1, op = "data" => sequence < Frames(block)
  PROVE  /\ Request.cmd = op /\ op \in Ops /\ Request \in FrameSet
         /\ Request.session = Owner(op)
         /\ op \in Edges => Request.index = block
         /\ op = "data" => /\ Request.index = sequence /\ Request.image = 1
                           /\ Request.block = block
         /\ op = "block_end" => Request.block = block
         /\ op = "start_crc" => Request.image = 1
<1>1. TypeOK /\ Admitted /\ session = 1
  BY DEF TransferInv, SessionIsRun
<1>2. op \in Ops
  BY <1>1 DEF TypeOK
<1>3. op \in Edges => WireIndex(block) = block
  BY BlockPhase DEF Edges, BlockOps
<1>4. op = "data" => WireSequence(sequence) = sequence
  <2>1. op = "data" => Frames(block) \in 1 .. SequenceSpace
    BY BlockPhase DEF BlockOps
  <2>2. sequence \in Nat /\ SequenceSpace \in Nat \ {0}
    BY <1>1, BlocksAssumption DEF TypeOK
  <2> QED
    BY <2>1, <2>2 DEF WireSequence
<1>5. Request \in FrameSet
  BY <1>1, RequestType
<1>6. Request.cmd = op
  BY <1>2 DEF Request, Frame, Ops, BlockOps, CapabilityPages
<1>7. Request.session = Owner(op)
  BY <1>1, <1>2 DEF Request, Frame, Ops, BlockOps, CapabilityPages, Owner, Sessioned
<1>8. op \in Edges => Request.index = block
  BY <1>3 DEF Request, Frame, Edges
<1>9. op = "data" => /\ Request.index = sequence /\ Request.image = 1
                     /\ Request.block = block
  BY <1>4 DEF Request, Frame
<1>10. op = "block_end" => Request.block = block
  BY DEF Request, Frame
<1>11. op = "start_crc" => Request.image = 1
  BY DEF Request, Frame
<1> QED
  BY <1>2, <1>5, <1>6, <1>7, <1>8, <1>9, <1>10, <1>11

\* Nothing is sent and the bootloader does nothing.
LEMMA QuietOrderly ==
  ASSUME TransferInv, Orderly,
         UNCHANGED <<req, dev, cap, block>>,
         rsp' = rsp \/ (rsp # <<>> /\ rsp' = Tail(rsp)),
         \/ op' = op /\ sequence' = sequence /\ (pc' = pc \/ (Waits /\ Waits'))
         \/ /\ ~Waits'
            /\ (op' = op /\ op \notin BlockOps) \/ (op \in BlockOps /\ op' = "block_begin")
  PROVE  Orderly'
<1>1. \A i \in 1 .. Len(rsp') : \E j \in 1 .. Len(rsp) : rsp'[i] = rsp[j] /\ j \in {i, i + 1}
                                   /\ (rsp' = rsp => j = i) /\ (rsp' # rsp => j = i + 1)
  <2>1. CASE rsp' = rsp
    BY <2>1
  <2>2. CASE rsp # <<>> /\ rsp' = Tail(rsp) /\ rsp' # rsp
    BY <2>2, TailFacts DEF TransferInv, TypeOK
  <2> QED
    BY <2>1, <2>2
<1>2. Len(req') = Len(req) /\ \A k : Frames(k)' = Frames(k)
  BY DEF Frames
<1>3. /\ op' \in BlockOps <=> op \in BlockOps
      /\ op' \in {"data", "block_end"} => op' = op
      /\ op' \notin BlockOps => op' = op
  BY DEF BlockOps
<1>4. HostStage' = HostStage
  BY <1>3 DEF HostStage, Stage, BlockOps
<1>5. OwnSession'
  BY <1>1, <1>2 DEF Orderly, OwnSession
<1>6. RepliesInOrder'
  <2> SUFFICES ASSUME NEW i \in 1 .. Len(rsp'), NEW j \in 1 .. Len(rsp'), i < j,
                      rsp'[i].cmd \in Sessioned, rsp'[j].cmd \in Sessioned
               PROVE  Stage(rsp'[i].cmd, rsp'[i].detail) <= Stage(rsp'[j].cmd, rsp'[j].detail)
    BY DEF RepliesInOrder, Stage
  <2>1. PICK k \in 1 .. Len(rsp), l \in 1 .. Len(rsp) :
          rsp'[i] = rsp[k] /\ rsp'[j] = rsp[l] /\ k < l
    BY <1>1
  <2> QED
    BY <2>1 DEF Orderly, RepliesInOrder
<1>7. BlockAtHand'
  BY <1>1, <1>2, <1>3 DEF Orderly, BlockAtHand
<1>8. PiecesOK'
  BY <1>2, <1>3 DEF Orderly, PiecesOK, Waits, BlockOps
<1>9. Adjacent' /\ Segments' /\ BeginFirst'
  BY <1>2 DEF Orderly, Adjacent, Successor, Segments, Key, BeginFirst
<1>10. LastSent'
  <2>1. ASSUME op' = op, sequence' = sequence, Waits' = Waits
        PROVE  LastSent'
    BY <1>2, <2>1 DEF Orderly, LastSent
  <2>2. CASE op' = op /\ sequence' = sequence /\ (pc' = pc \/ (Waits /\ Waits'))
    BY <2>1, <2>2 DEF Waits
  <2>3. CASE ~Waits' /\ op' = op /\ op \notin BlockOps
    BY <2>3, <1>2 DEF Orderly, LastSent, BlockOps
  <2>4. CASE ~Waits' /\ op' = "block_begin"
    BY <2>4 DEF LastSent
  <2> QED
    BY <2>2, <2>3, <2>4
<1>11. Held'
  BY <1>2, <1>3 DEF Orderly, Held, NoBlock
<1>12. Opened'
  BY <1>1, <1>4 DEF Orderly, Opened
<1> QED
  BY <1>5, <1>6, <1>7, <1>8, <1>9, <1>10, <1>11, <1>12 DEF Orderly

\* A frame is sent.
LEMMA SentOrderly ==
  ASSUME TransferInv, Orderly, run = 1, pc = "send",
         req' = Append(req, Request), UNCHANGED <<dev, cap, block, rsp>>,
         \/ op # "data" /\ op' = op /\ pc' = "top" /\ sequence' = sequence
         \/ /\ op = "data" /\ pc' = "send"
            /\ \/ sequence + 1 < Frames(block) /\ op' = op /\ sequence' = sequence + 1
               \/ ~(sequence + 1 < Frames(block)) /\ op' = "block_end" /\ sequence' = 0
  PROVE  Orderly'
<1> DEFINE m == Request
           n == Len(req)
<1>0. TypeOK /\ n \in Nat /\ block \in Nat /\ sequence \in Nat
  BY FrameTypes DEF TransferInv
<1>1. op = "data" => sequence < Frames(block)
  BY DEF Orderly, PiecesOK
<1>2. /\ m.cmd = op /\ op \in Ops /\ m \in FrameSet
      /\ m.session = Owner(op)
      /\ op \in Edges => m.index = block
      /\ op = "data" => m.index = sequence /\ m.image = 1 /\ m.block = block
      /\ op = "block_end" => m.block = block
      /\ op = "start_crc" => m.image = 1
  BY <1>1, RequestShape
<1> HIDE DEF m
<1>3. /\ Len(req') = n + 1 /\ req'[n + 1] = m
      /\ \A i \in 1 .. n : req'[i] = req[i]
      /\ \A i \in 1 .. Len(req') : i \in 1 .. n \/ i = n + 1
  BY <1>0, <1>2, AppendFacts DEF TypeOK, m
<1>4. \A k : Frames(k)' = Frames(k)
  BY DEF Frames
<1>5. ~Waits
  BY DEF Waits
<1>6. n # 0 => req # <<>> /\ n \in 1 .. n
  BY <1>0
<1>7. /\ n # 0 /\ op = "data" =>
           \/ sequence = 0 /\ req[n].cmd = "block_begin" /\ req[n].index = block
           \/ req[n].cmd = "data" /\ req[n].index + 1 = sequence /\ req[n].block = block
      /\ n # 0 /\ op = "block_end" =>
           req[n].cmd = "data" /\ req[n].index + 1 = Frames(block) /\ req[n].block = block
      /\ n # 0 /\ op = "end" => req[n].cmd \notin {"data", "block_begin"}
  BY <1>5, <1>6 DEF Orderly, LastSent
<1>8. \A i \in 1 .. n :
        req[i].cmd = "block_begin" =>
          op \in BlockOps \cup {"end"} /\ (op \in BlockOps => req[i].index <= block)
  <2> SUFFICES ASSUME NEW i \in 1 .. n, req[i].cmd = "block_begin"
               PROVE  /\ op \in BlockOps \cup {"end"}
                      /\ op \in BlockOps => req[i].index <= block
    OBVIOUS
  <2>1. req[i].session = 1 /\ session = 1
    BY DEF Orderly, OwnSession, Owner, Sessioned, TransferInv, SessionIsRun
  <2>2. FrameOK(req[i])
    BY DEF TransferInv, FramesOK
  <2>3. Stage(req[i].cmd, req[i].index) = 4 + req[i].index
    BY DEF Stage
  <2>4. 4 + req[i].index <= HostStage
    BY <2>1, <2>2, <2>3 DEF FrameOK, Sessioned
  <2>5. StageTable /\ req[i].index \in Nat
    BY BlockPhase, FrameTypes, <1>0
  <2> QED
    BY <1>2, <1>0, <2>4, <2>5 DEF StageTable, Ops, BlockOps, CapabilityPages
<1>9. HostStage' = HostStage
  BY DEF HostStage, Stage
<1>10. OwnSession'
  BY <1>2, <1>3 DEF Orderly, OwnSession, Ops, BlockOps, CapabilityPages
<1>11. RepliesInOrder'
  BY DEF Orderly, RepliesInOrder, Stage
<1>12. BlockAtHand'
  <2> SUFFICES ASSUME op' \in {"data", "block_end"} PROVE BlockAtHand'
    BY DEF BlockAtHand
  <2>1. op \in {"data", "block_end"}
    OBVIOUS
  <2> QED
    BY <1>2, <1>3, <2>1 DEF Orderly, BlockAtHand, Edges
<1>13. PiecesOK'
  <2>1. op' = "data" => sequence' < Frames(block)' /\ pc' = "send"
    BY <1>4
  <2>2. op \in BlockOps => op' \in BlockOps
    BY DEF BlockOps
  <2>3. op \notin BlockOps => op' = op
    BY DEF BlockOps
  <2>4. ASSUME NEW i \in 1 .. n
        PROVE  /\ req'[i].cmd = "data" =>
                     /\ op' \in BlockOps \cup {"end"}
                     /\ req'[i].image = 1 /\ req'[i].block <= block'
                     /\ req'[i].index < Frames(req'[i].block)
               /\ req'[i].cmd = "block_end" => req'[i].block = req'[i].index
               /\ req'[i].cmd = "start_crc" => req'[i].image = 1
    BY <1>3, <1>4, <2>2, <2>3 DEF Orderly, PiecesOK
  <2>5. /\ m.cmd = "data" =>
                     /\ op' \in BlockOps \cup {"end"}
                     /\ m.image = 1 /\ m.block <= block'
                     /\ m.index < Frames(m.block)
        /\ m.cmd = "block_end" => m.block = m.index
        /\ m.cmd = "start_crc" => m.image = 1
    <3>1. CASE op = "data"
      <4>1. m.index = sequence /\ m.block = block /\ m.image = 1 /\ m.cmd = "data"
        BY <1>2, <3>1
      <4>2. op' \in BlockOps /\ block <= block
        BY <1>0, <2>2, <3>1 DEF BlockOps
      <4>3. m.index < Frames(m.block)
        BY <1>1, <1>4, <4>1, <3>1
      <4> QED
        BY <4>1, <4>2, <4>3
    <3>2. CASE op # "data"
      BY <1>2, <3>2 DEF Edges
    <3> QED
      BY <3>1, <3>2
  <2>6. ASSUME NEW i \in 1 .. Len(req')
        PROVE  /\ req'[i].cmd = "data" =>
                     /\ op' \in BlockOps \cup {"end"}
                     /\ req'[i].image = 1 /\ req'[i].block <= block'
                     /\ req'[i].index < Frames(req'[i].block)
               /\ req'[i].cmd = "block_end" => req'[i].block = req'[i].index
               /\ req'[i].cmd = "start_crc" => req'[i].image = 1
    <3>1. CASE i \in 1 .. n
      BY <2>4, <3>1
    <3>2. CASE i = n + 1
      <4>1. req'[i] = m
        BY <1>3, <3>2
      <4> HIDE <1>3
      <4> QED
        BY <2>5, <4>1
    <3> QED
      BY <1>3, <3>1, <3>2
  <2> QED
    BY <1>4, <2>1, <2>6 DEF PiecesOK
<1>14. n # 0 => Successor(req[n], m)
  <2> SUFFICES ASSUME n # 0 PROVE Successor(req[n], m)
    OBVIOUS
  <2>1. req[n].cmd = "data" => op \in BlockOps \cup {"end"}
    BY <1>6 DEF Orderly, PiecesOK
  <2>2. req[n].cmd = "block_begin" => op \in BlockOps \cup {"end"}
    BY <1>6, <1>8
  <2>3. CASE op = "block_begin"
    BY <1>2, <2>3 DEF Successor
  <2>4. CASE op = "data"
    BY <1>0, <1>2, <1>7, <2>4 DEF Successor
  <2>5. CASE op = "block_end"
    BY <1>2, <1>7, <2>5 DEF Successor, Edges
  <2>6. CASE op = "end"
    BY <1>2, <1>7, <2>6 DEF Successor
  <2>7. CASE op \notin BlockOps \cup {"end"}
    BY <1>2, <2>1, <2>2, <2>7 DEF Successor, BlockOps
  <2> QED
    BY <2>3, <2>4, <2>5, <2>6, <2>7 DEF BlockOps
<1>15. Adjacent'
  <2> SUFFICES ASSUME NEW i \in 1 .. Len(req'), i + 1 \in 1 .. Len(req')
               PROVE  Successor(req[i], req[i + 1])'
    BY DEF Adjacent
  <2>1. CASE i + 1 \in 1 .. n
    <3>1. i \in 1 .. n
      BY <1>0, <2>1
    <3>2. Successor(req[i], req[i + 1])
      BY <2>1, <3>1 DEF Orderly, Adjacent
    <3> QED
      BY <1>3, <1>4, <2>1, <3>1, <3>2 DEF Successor
  <2>2. CASE i + 1 = n + 1
    <3>1. i = n /\ n # 0 /\ req'[i] = req[n] /\ req'[i + 1] = m
      BY <1>0, <1>3, <2>2
    <3> QED
      BY <1>4, <1>14, <3>1 DEF Successor
  <2> QED
    BY <1>3, <2>1, <2>2
<1>16. LastSent'
  <2>1. req'[Len(req')] = m
    BY <1>3
  <2>2. CASE op = "data"
    <3>1. m.cmd = "data" /\ m.block = block /\ m.index = sequence /\ ~Waits'
      BY <1>2, <2>2 DEF Waits
    <3>2. Frames(block) \in Nat
      BY BlockPhase, <2>2 DEF BlockOps
    <3> QED
      BY <1>0, <1>1, <1>4, <2>1, <2>2, <3>1, <3>2 DEF LastSent
  <2>3. CASE op # "data"
    <3>1. Waits' /\ op' = op
      BY <2>3 DEF Waits
    <3> QED
      BY <1>2, <2>1, <2>3, <3>1 DEF LastSent, Edges
  <2> QED
    BY <2>2, <2>3
<1>17. Segments'
  <2> SUFFICES ASSUME NEW i \in 1 .. Len(req'), NEW j \in 1 .. Len(req'), i < j,
                      req'[i].cmd \in BlockOps, req'[j].cmd \in BlockOps,
                      Key(req'[i]) # Key(req'[j])
               PROVE  \E l \in i + 1 .. j : req'[l].cmd = "block_begin"
    BY DEF Segments, Key
  <2>1. i \in 1 .. n /\ req'[i] = req[i] /\ n # 0
    BY <1>0, <1>3
  <2>2. ASSUME NEW k \in 1 .. n, i < k, k <= j, req[k].cmd \in BlockOps,
               Key(req[i]) # Key(req[k])
        PROVE  \E l \in i + 1 .. j : req'[l].cmd = "block_begin"
    <3>1. PICK l \in i + 1 .. k : req[l].cmd = "block_begin"
      BY <2>1, <2>2 DEF Orderly, Segments
    <3>2. l \in i + 1 .. j /\ l \in 1 .. n
      BY <1>0, <2>2
    <3> QED
      BY <1>3, <3>1, <3>2
  <2>3. CASE j \in 1 .. n
    BY <1>3, <2>1, <2>2, <2>3
  <2>4. CASE j = n + 1
    <3>1. req'[j] = m
      BY <1>3, <2>4
    <3>2. CASE op = "block_begin"
      <4>1. j \in i + 1 .. j
        BY <1>0, <2>1
      <4> QED
        BY <1>2, <3>1, <3>2, <4>1
    <3>3. CASE op \in {"data", "block_end"}
      <4>1. req[n].cmd \in BlockOps /\ Key(req[n]) = block /\ Key(m) = block
        BY <1>2, <1>7, <2>1, <3>3 DEF Key, BlockOps, Edges
      <4>2. i # n
        BY <2>1, <3>1, <4>1
      <4>3. i < n /\ n \in 1 .. n /\ n <= j /\ Key(req[i]) # Key(req[n])
        BY <1>0, <2>1, <2>4, <3>1, <4>1, <4>2
      <4> QED
        BY <2>2, <4>1, <4>3
    <3> QED
      BY <1>2, <3>1, <3>2, <3>3 DEF BlockOps
  <2> QED
    BY <1>3, <2>3, <2>4
<1>18. BeginFirst'
  <2> SUFFICES ASSUME NEW i \in 1 .. Len(req'), NEW j \in 1 .. Len(req'), i < j,
                      req'[i].cmd = "block_begin", req'[j].cmd = "data"
               PROVE  req'[i].index <= req'[j].block
    BY DEF BeginFirst
  <2>1. i \in 1 .. n /\ req'[i] = req[i]
    BY <1>0, <1>3
  <2>2. CASE j \in 1 .. n
    BY <1>3, <2>1, <2>2 DEF Orderly, BeginFirst
  <2>3. CASE j = n + 1
    <3>1. op = "data" /\ req'[j].block = block
      BY <1>2, <1>3, <2>3
    <3> QED
      BY <1>8, <2>1, <3>1 DEF BlockOps
  <2> QED
    BY <1>3, <2>2, <2>3
<1>19. Held'
  <2>1. op' \in BlockOps <=> op \in BlockOps
    BY DEF BlockOps
  <2>2. op' = "end" <=> op = "end"
    OBVIOUS
  <2>3. Held
    BY DEF Orderly
  <2>4. \A i \in 1 .. Len(req') : req'[i].cmd = "data" =>
          (i \in 1 .. n /\ req'[i] = req[i]) \/ req'[i].block = block
    BY <1>2, <1>3
  <2> QED
    BY <1>4, <2>1, <2>2, <2>3, <2>4 DEF Held, NoBlock
<1>20. Opened'
  BY <1>9 DEF Orderly, Opened
<1> QED
  BY <1>10, <1>11, <1>12, <1>13, <1>15, <1>16, <1>17, <1>18, <1>19, <1>20 DEF Orderly

\* Where the worker goes when the exchange at hand succeeds.
LEMMA AdvanceMoves ==
  ASSUME TypeOK, Advance, pc' = "send"
  PROVE  /\ sequence' = 0
         /\ \/ op = "sync" /\ op' = "cap0" /\ attempt' = 0
            \/ op = "cap0" /\ op' = "cap1" /\ attempt' = 0
            \/ op = "cap1" /\ op' = "start" /\ attempt' = 0
            \/ op = "start" /\ op' = "start_crc" /\ attempt' = 0
            \/ op = "start_crc" /\ op' = "start_version" /\ attempt' = 0
            \/ op = "start_version" /\ op' = "block_begin" /\ block' = 0 /\ attempt' = 0
            \/ op = "block_begin" /\ op' = "data" /\ block' = block /\ attempt' = attempt
            \/ op = "block_end" /\ op' \in {"block_begin", "end"} /\ block' = block + 1
                 /\ attempt' = 0
<1>1. CASE op = "cap1"
  <2>1. CASE CapabilityVerdict(ImageSize, cap) = "none"
    BY <1>1, <2>1 DEF Advance, Begin
  <2>2. CASE CapabilityVerdict(ImageSize, cap) # "none"
    BY <1>1, <2>2 DEF Advance, Fail
  <2> QED
    BY <2>1, <2>2
<1>2. CASE op = "block_end"
  BY <1>2 DEF Advance, Begin
<1>3. CASE op = "block_begin"
  BY <1>3 DEF Advance, Continue
<1>4. CASE op \notin {"cap1", "block_begin", "block_end"}
  BY <1>4 DEF Advance, Begin
<1> QED
  BY <1>1, <1>2, <1>3, <1>4

\* Nothing of another block is left when BLOCK_BEGIN is acknowledged.
LEMMA BlockAlone ==
  ASSUME TransferInv, Orderly, run = 1, op = "block_begin", rsp # <<>>,
         Accepts(rsp[1])
  PROVE  /\ \A i \in 1 .. Len(rsp) : rsp[i].cmd \in Edges => rsp[i].detail = block
         /\ \A i \in 1 .. Len(req) : req[i].cmd \in Edges => req[i].index = block
<1>0. TypeOK /\ session = 1
  BY DEF TransferInv, SessionIsRun
<1>1. /\ 1 \in 1 .. Len(rsp) /\ block \in Nat
      /\ \A i \in 1 .. Len(rsp) : rsp[i].detail \in Nat
      /\ \A i \in 1 .. Len(req) : req[i].index \in Nat
  BY <1>0, TailFacts, FrameTypes DEF TypeOK
<1>2. rsp[1].cmd = "block_begin" /\ rsp[1].detail = block
  BY BlockPhase DEF Accepts, Matches, BlockOps
<1>3. Stage(rsp[1].cmd, rsp[1].detail) = 4 + block /\ HostStage = 4 + block
  BY <1>2, BlockPhase DEF Stage, StageTable, BlockOps
<1>4. \A i \in 1 .. Len(rsp) :
        rsp[i].cmd \in Edges => Stage(rsp[i].cmd, rsp[i].detail) = 4 + rsp[i].detail
  BY DEF Stage, Edges
<1>5. \A i \in 1 .. Len(req) :
        req[i].cmd \in Edges => Stage(req[i].cmd, req[i].index) = 4 + req[i].index
  BY DEF Stage, Edges
<1>6. ASSUME NEW i \in 1 .. Len(rsp), rsp[i].cmd \in Edges
      PROVE  rsp[i].detail = block
  <2>1. ReplyOK(rsp[i]) /\ rsp[i].session = 1 /\ rsp[i].cmd \in Sessioned
    BY <1>6 DEF TransferInv, RepliesOK, Orderly, OwnSession, Owner, Edges, Sessioned
  <2>2. 4 + rsp[i].detail <= 4 + block
    BY <1>0, <1>3, <1>4, <1>6, <2>1 DEF ReplyOK
  <2>3. i = 1 \/ 1 < i
    BY <1>1
  <2>4. 4 + block <= 4 + rsp[i].detail
    BY <1>1, <1>2, <1>3, <1>4, <1>6, <2>1, <2>3 DEF Orderly, RepliesInOrder, Sessioned
  <2> QED
    BY <1>1, <2>2, <2>4
<1>7. ASSUME NEW i \in 1 .. Len(req), req[i].cmd \in Edges
      PROVE  req[i].index = block
  <2>1. FrameOK(req[i]) /\ req[i].session = 1 /\ req[i].cmd \in Sessioned
    BY <1>7 DEF TransferInv, FramesOK, Orderly, OwnSession, Owner, Edges, Sessioned
  <2>2. 4 + req[i].index <= 4 + block
    BY <1>0, <1>3, <1>5, <1>7, <2>1 DEF FrameOK, Edges
  <2>3. ReplyOK(rsp[1]) /\ rsp[1].session = 1
    BY <1>1, <1>2 DEF TransferInv, RepliesOK, Orderly, OwnSession, Owner, Sessioned
  <2>4. Answered(rsp[1], req[i])
    BY <1>2, <2>1, <2>3 DEF ReplyOK, Sessioned
  <2>5. 4 + block <= 4 + req[i].index
    BY <1>3, <1>5, <1>7, <2>1, <2>3, <2>4 DEF Answered, Edges
  <2> QED
    BY <1>1, <2>2, <2>5
<1> QED
  BY <1>6, <1>7

\* The exchange at hand succeeds.
LEMMA AdvanceOrderly ==
  ASSUME TransferInv, TransferInv', Orderly, run = 1, pc = "poll", rsp # <<>>,
         Accepts(Head(rsp)), Advance, pc' = "send", rsp' = Tail(rsp),
         UNCHANGED <<run, session, req, dev, cap>>
  PROVE  Orderly'
<1>0. TypeOK /\ block \in Nat
  BY DEF TransferInv, TypeOK
<1>1. /\ 1 \in 1 .. Len(rsp) /\ Head(rsp) = rsp[1]
      /\ \A i \in 1 .. Len(rsp') : i + 1 \in 1 .. Len(rsp) /\ rsp'[i] = rsp[i + 1]
  BY <1>0, TailFacts DEF TypeOK
<1>2. rsp[1].cmd = op /\ rsp[1].ok
  BY <1>1 DEF Accepts, Matches
<1>3. \A k : Frames(k)' = Frames(k)
  BY DEF Frames
<1>4. ~Waits' /\ Waits /\ Len(req') = Len(req)
  BY DEF Waits
<1>5. /\ sequence' = 0
      /\ \/ op = "sync" /\ op' = "cap0"
         \/ op = "cap0" /\ op' = "cap1"
         \/ op = "cap1" /\ op' = "start"
         \/ op = "start" /\ op' = "start_crc"
         \/ op = "start_crc" /\ op' = "start_version"
         \/ op = "start_version" /\ op' = "block_begin" /\ block' = 0
         \/ op = "block_begin" /\ op' = "data" /\ block' = block
         \/ op = "block_end" /\ op' \in {"block_begin", "end"} /\ block' = block + 1
  BY <1>0, AdvanceMoves
<1>6. OwnSession'
  BY <1>1, <1>4 DEF Orderly, OwnSession
<1>7. RepliesInOrder'
  <2> SUFFICES ASSUME NEW i \in 1 .. Len(rsp'), NEW j \in 1 .. Len(rsp'), i < j,
                      rsp'[i].cmd \in Sessioned, rsp'[j].cmd \in Sessioned
               PROVE  Stage(rsp'[i].cmd, rsp'[i].detail) <= Stage(rsp'[j].cmd, rsp'[j].detail)
    BY DEF RepliesInOrder, Stage
  <2>1. i + 1 < j + 1 /\ i + 1 \in 1 .. Len(rsp) /\ j + 1 \in 1 .. Len(rsp)
        /\ rsp'[i] = rsp[i + 1] /\ rsp'[j] = rsp[j + 1]
    BY <1>1
  <2> QED
    BY <2>1 DEF Orderly, RepliesInOrder
<1>8. Adjacent' /\ Segments' /\ BeginFirst'
  BY <1>3, <1>4 DEF Orderly, Adjacent, Successor, Segments, Key, BeginFirst
<1>9. BlockAtHand'
  <2> SUFFICES ASSUME op' \in {"data", "block_end"} PROVE BlockAtHand'
    BY DEF BlockAtHand
  <2>1. op = "block_begin" /\ block' = block
    BY <1>5
  <2>2. /\ \A i \in 1 .. Len(rsp) : rsp[i].cmd \in Edges => rsp[i].detail = block
        /\ \A i \in 1 .. Len(req) : req[i].cmd \in Edges => req[i].index = block
    BY <1>1, <2>1, BlockAlone
  <2> QED
    BY <1>1, <1>4, <2>1, <2>2 DEF BlockAtHand
<1>10. PiecesOK'
  <2>1. op' = "data" => sequence' < Frames(block') /\ pc' = "send"
    <3>1. op' = "data" => Frames(block) \in Nat /\ Frames(block) >= 1 /\ block' = block
      BY <1>5, BlockPhase, BlocksAssumption DEF BlockOps
    <3> QED
      BY <1>5, <3>1
  <2>2. ASSUME NEW i \in 1 .. Len(req)
        PROVE  /\ req[i].cmd = "data" =>
                     /\ op' \in BlockOps \cup {"end"}
                     /\ req[i].image = 1 /\ req[i].block <= block'
                     /\ req[i].index < Frames(req[i].block)
               /\ req[i].cmd = "block_end" => req[i].block = req[i].index
               /\ req[i].cmd = "start_crc" => req[i].image = 1
    <3>1. req[i].block \in Nat
      BY <1>0, FrameTypes
    <3>2. req[i].cmd = "data" =>
            /\ op \in BlockOps \cup {"end"} /\ req[i].block <= block
      BY DEF Orderly, PiecesOK
    <3>3. req[i].cmd = "data" =>
            /\ op' \in BlockOps \cup {"end"} /\ req[i].block <= block'
      BY <1>0, <1>5, <3>1, <3>2 DEF BlockOps
    <3> QED
      BY <3>3 DEF Orderly, PiecesOK
  <2> QED
    BY <1>3, <1>4, <2>1, <2>2 DEF PiecesOK
<1>11. LastSent'
  <2> SUFFICES ASSUME req # <<>> PROVE LastSent'
    BY DEF LastSent
  <2>1. CASE op' = "data"
    <3>1. op = "block_begin" /\ block' = block
      BY <1>5, <2>1
    <3>2. req[Len(req)].cmd = "block_begin" /\ req[Len(req)].index = block
      BY <1>4, <3>1 DEF Orderly, LastSent
    <3> QED
      BY <1>4, <1>5, <2>1, <3>1, <3>2 DEF LastSent
  <2>2. CASE op' = "end"
    <3>1. op = "block_end"
      BY <1>5, <2>2
    <3>2. req[Len(req)].cmd \notin {"data", "block_begin"}
      BY <1>4, <3>1 DEF Orderly, LastSent
    <3> QED
      BY <1>4, <2>2, <3>2 DEF LastSent
  <2>3. CASE op' \notin {"data", "end", "block_end"}
    BY <1>4, <2>3 DEF LastSent
  <2> QED
    BY <1>5, <2>1, <2>2, <2>3
<1>12. Held'
  <2>1. /\ op \in BlockOps => dev.open = NoBlock \/ dev.open <= block
        /\ op \notin BlockOps \cup {"end"} => dev.open = NoBlock
    BY DEF Orderly, Held
  <2>2. NoBlock' = NoBlock /\ NoBlock \in Nat \ {0} /\ dev.open \in Nat
    BY <1>0, TransferAssumption, FrameTypes DEF NoBlock
  <2>3. CASE op' \notin BlockOps
    BY <1>5, <2>1, <2>2, <2>3 DEF Held, BlockOps
  <2>4. CASE op' = "data"
    <3>1. op = "block_begin" /\ block' = block
      BY <1>5, <2>4
    <3> QED
      BY <1>3, <1>4, <2>4, <3>1 DEF Orderly, Held, BlockOps, NoBlock
  <2>5. CASE op' = "block_begin"
    <3>1. block' \in Blocks' /\ Blocks' = Blocks
      BY <2>5 DEF TransferInv, Admitted, BlockOps, Blocks
    <3>2. block' \in Nat /\ block' < NoBlock
      <4>1. CapabilityVerdict(ImageSize, cap) = "none"
        BY <2>5 DEF TransferInv, Admitted, CapabilityPages
      <4> QED
        BY <1>0, <3>1, <4>1, BlocksFacts DEF NoBlock
    <3>3. dev.open # block' /\ (dev.open = NoBlock \/ dev.open <= block')
      <4>1. CASE op = "start_version"
        BY <2>1, <2>2, <3>2, <4>1 DEF BlockOps
      <4>2. CASE op = "block_end" /\ block' = block + 1
        BY <1>0, <2>1, <2>2, <3>2, <4>2 DEF BlockOps
      <4> QED
        BY <1>5, <2>5, <4>1, <4>2
    <3> QED
      BY <2>2, <2>5, <3>3 DEF Held, BlockOps
  <2> QED
    BY <1>5, <2>3, <2>4, <2>5 DEF BlockOps
<1>13. Opened'
  <2>1. StageTable /\ StageTable'
    BY BlockPhase, StageFactsNext DEF TransferInv
  <2>2. Opened
    BY DEF Orderly
  <2>3. /\ HostStage' >= 2 => HostStage >= 2 \/ (op = "start")
        /\ HostStage' >= 3 => HostStage >= 3 \/ (op = "start_crc")
    <3>1. op \in {"sync", "cap0"} => HostStage' = 0
      BY <1>5, <2>1 DEF StageTable, CapabilityPages
    <3>2. op = "cap1" => HostStage' = 1
      BY <1>5, <2>1 DEF StageTable, CapabilityPages
    <3>3. op = "start" => HostStage' = 2
      BY <1>5, <2>1 DEF StageTable, CapabilityPages
    <3>4. op = "start_crc" => HostStage = 2
      BY <1>5, <2>1 DEF StageTable, CapabilityPages
    <3>5. op = "start_version" => HostStage = 3
      BY <1>5, <2>1 DEF StageTable, CapabilityPages
    <3>6. op \in {"block_begin", "block_end"} => HostStage >= 3 /\ HostStage >= 2
      BY <1>0, <2>1 DEF StageTable, BlockOps
    <3>7. CASE op \in {"sync", "cap0", "cap1", "start"}
      BY <1>5, <3>1, <3>2, <3>3, <3>7
    <3>8. CASE op \in {"start_crc", "start_version"}
      BY <3>4, <3>5, <3>8
    <3> QED
      BY <1>5, <3>6, <3>7, <3>8
  <2> QED
    BY <1>1, <1>2, <2>2, <2>3 DEF Opened
<1> QED
  BY <1>6, <1>7, <1>8, <1>9, <1>10, <1>11, <1>12, <1>13 DEF Orderly

\* A run begins with empty queues and a bootloader without a session.
LEMMA OpenOrderly ==
  ASSUME req' = <<>>, rsp' = <<>>, dev' = NoDeviceSession, op' = "sync"
  PROVE  Orderly'
<1>1. Len(req') = 0 /\ Len(rsp') = 0 /\ dev'.open = NoBlock
  BY DEF NoDeviceSession
<1>2. HostStage' = 0
  BY DEF HostStage, Stage
<1>3. OwnSession' /\ RepliesInOrder'
  BY <1>1 DEF OwnSession, RepliesInOrder
<1>4. BlockAtHand' /\ PiecesOK'
  BY <1>1 DEF BlockAtHand, PiecesOK
<1>5. Adjacent' /\ Segments' /\ BeginFirst'
  BY <1>1 DEF Adjacent, Segments, BeginFirst
<1>6. LastSent' /\ Held' /\ Opened'
  BY <1>1, <1>2 DEF LastSent, Held, Opened, BlockOps, NoBlock
<1> QED
  BY <1>3, <1>4, <1>5, <1>6 DEF Orderly

-----------------------------------------------------------------------------
(* The pipeline while nothing is sent or received.                         *)

\* The pipeline, item by item.
PipeTable ==
  /\ Len(req) \in Nat /\ Len(rsp) \in Nat /\ Size \in Nat /\ Size = Len(rsp) + Len(req)
  /\ \A i \in 1 .. Len(rsp) : i \in 1 .. Size /\ Pipe[i] = ReplyKind(rsp[i])
  /\ \A i \in 1 .. Len(req) : Len(rsp) + i \in 1 .. Size /\ Pipe[Len(rsp) + i] = FrameKind(i)

LEMMA PipeAt == TypeOK => PipeTable
<1> SUFFICES ASSUME TypeOK PROVE PipeTable
  OBVIOUS
<1>1. Len(req) \in Nat /\ Len(rsp) \in Nat
  BY FrameTypes
<1>2. \A i \in 1 .. Len(req) : Len(rsp) + i \in 1 .. Len(rsp) + Len(req)
                              /\ ~(Len(rsp) + i <= Len(rsp)) /\ Len(rsp) + i - Len(rsp) = i
  BY <1>1
<1> QED
  BY <1>1, <1>2 DEF PipeTable, Pipe, Size

LEMMA PipeAtNext == (TypeOK => PipeTable)'
BY PipeAt, PTL

\* A reply keeps its kind while the worker stays in its block.
LEMMA RepliesAlike ==
  ASSUME block' = block, op' \in BlockOps <=> op \in BlockOps,
         op \notin BlockOps => op' = op,
         NEW i, NEW j, rsp'[i] = rsp[j]
  PROVE  ReplyKind(rsp[i])' = ReplyKind(rsp[j])
BY DEF ReplyKind

\* A frame keeps its kind or loses it, unless its block gets spoilt.
LEMMA FramesAlike ==
  ASSUME block' = block, op' \in BlockOps <=> op \in BlockOps,
         NEW i, NEW j, req'[i] = req[j],
         Refusable(i)' /\ ~Sound' => Refusable(j) /\ ~Sound
  PROVE  NoWorse(FrameKind(i)', FrameKind(j))
<1>1. CASE op \notin BlockOps
  BY <1>1 DEF FrameKind, NoWorse
<1>2. CASE op \in BlockOps /\ req[j].cmd = "block_begin"
  BY <1>2 DEF FrameKind, NoWorse, Refusable
<1>3. CASE op \in BlockOps /\ req[j].cmd # "block_begin" /\ Refusable(i)' /\ ~Sound'
  BY <1>3 DEF FrameKind, NoWorse
<1>4. CASE op \in BlockOps /\ req[j].cmd # "block_begin" /\ ~(Refusable(i)' /\ ~Sound')
  BY <1>4 DEF FrameKind, NoWorse
<1> QED
  BY <1>1, <1>2, <1>3, <1>4

\* WithinBudget, with what it says of the attempts spelt out.
LEMMA BudgetNext ==
  ASSUME NEW a, NEW e, NEW n,
         Bill(Pipe', Size', Spoilt', a, e, n),
         attempt' + (IF op' = "block_begin" THEN a[1] ELSE e[1])
           + (IF Hopeful' THEN 0 ELSE 1) <= faults',
         op' \in BlockOps =>
           n[1] <= attempt' + (IF op' = "block_begin" /\ Waits' THEN 1 ELSE 0)
  PROVE  WithinBudget'
BY DEF WithinBudget, Charge, Bill

LEMMA BudgetNow ==
  ASSUME TypeOK, WithinBudget
  PROVE  \E a, e, n :
           /\ Bill(Pipe, Size, Spoilt, a, e, n)
           /\ a[1] \in Nat /\ e[1] \in Nat /\ n[1] \in Nat /\ a[1] <= e[1]
           /\ attempt + (IF op = "block_begin" THEN a[1] ELSE e[1])
                + (IF Hopeful THEN 0 ELSE 1) <= faults
           /\ op \in BlockOps =>
                n[1] <= attempt + (IF op = "block_begin" /\ Waits THEN 1 ELSE 0)
<1>1. PICK a, e, n :
        /\ Bill(Pipe, Size, Spoilt, a, e, n)
        /\ attempt + Charge(a, e) + (IF Hopeful THEN 0 ELSE 1) <= faults
        /\ op \in BlockOps =>
             n[1] <= attempt + (IF op = "block_begin" /\ Waits THEN 1 ELSE 0)
  BY DEF WithinBudget
<1>2. Size \in Nat /\ 1 \in 1 .. Size + 1
  BY PipeAt DEF PipeTable
<1>3. a[1] \in Nat /\ e[1] \in Nat /\ n[1] \in Nat /\ a[1] <= e[1]
  BY <1>1, <1>2, BillFacts
<1> QED
  BY <1>1, <1>3 DEF Charge

\* Nothing is left in the queues that can cost an attempt of the new command.
LEMMA FreshBudget ==
  ASSUME TypeOK', faults' \in Nat, attempt' = 0, pc' = "send",
         op' \notin {"data", "block_end"},
         \A i \in 1 .. Len(rsp') : ReplyKind(rsp[i])' = "other",
         \A i \in 1 .. Len(req') : FrameKind(i)' = "other"
  PROVE  WithinBudget'
<1>1. PipeTable'
  BY PipeAtNext
<1>2. \A i \in 1 .. Size' : Pipe'[i] = "other"
  <2> SUFFICES ASSUME NEW i \in 1 .. Size' PROVE Pipe'[i] = "other"
    OBVIOUS
  <2>1. CASE i \in 1 .. Len(rsp')
    BY <1>1, <2>1 DEF PipeTable
  <2>2. CASE i \notin 1 .. Len(rsp')
    <3>1. i - Len(rsp') \in 1 .. Len(req') /\ Len(rsp') + (i - Len(rsp')) = i
      BY <1>1, <2>2 DEF PipeTable
    <3> QED
      BY <1>1, <3>1 DEF PipeTable
  <2> QED
    BY <2>1, <2>2
<1>3. Size' \in Nat
  BY <1>1 DEF PipeTable
<1>4. PICK a, e, n : Bill(Pipe', Size', FALSE, a, e, n) /\ a[1] = 0 /\ e[1] = 0 /\ n[1] = 0
  BY <1>2, <1>3, BillZero
<1>5. Spoilt' = FALSE /\ Hopeful'
  BY DEF Spoilt, Waits, Hopeful
<1>6. Bill(Pipe', Size', Spoilt', a, e, n)
  BY <1>4, <1>5
<1> QED
  BY <1>4, <1>5, <1>6, BudgetNext DEF Waits

\* The queues and the bootloader are left alone.
LEMMA IdleBudget ==
  ASSUME TypeOK, WithinBudget, faults \in Nat, faults' \in Nat, faults <= faults',
         UNCHANGED <<op, block, sequence, attempt, req, rsp, dev, cap>>,
         pc' = pc \/ (Waits /\ Waits')
  PROVE  WithinBudget'
<1>1. Waits' = Waits /\ Hopeful' = Hopeful
  BY DEF Waits, Hopeful
<1>2. Pipe' = Pipe /\ Size' = Size
  BY DEF Pipe, Size, ReplyKind, FrameKind, Refusable, Lead, Sound, Position, Frames
<1>3. Spoilt' = Spoilt
  BY <1>1 DEF Spoilt, Lead, Sound, Position, Frames
<1>4. PICK a, e, n :
           /\ Bill(Pipe, Size, Spoilt, a, e, n)
           /\ a[1] \in Nat /\ e[1] \in Nat /\ n[1] \in Nat /\ a[1] <= e[1]
           /\ attempt + (IF op = "block_begin" THEN a[1] ELSE e[1])
                + (IF Hopeful THEN 0 ELSE 1) <= faults
           /\ op \in BlockOps =>
                n[1] <= attempt + (IF op = "block_begin" /\ Waits THEN 1 ELSE 0)
  BY BudgetNow
<1>5. attempt \in Nat
  BY FrameTypes
<1>6. attempt + (IF op = "block_begin" THEN a[1] ELSE e[1])
                + (IF Hopeful THEN 0 ELSE 1) <= faults'
  BY <1>4, <1>5
<1>7. Bill(Pipe', Size', Spoilt', a, e, n)
  BY <1>2, <1>3, <1>4
<1> QED
  BY <1>1, <1>4, <1>6, <1>7, BudgetNext

-----------------------------------------------------------------------------
(* The worker takes a reply or ends an attempt.                            *)

\* The queues of a step that only takes what has been received.
LEMMA PipeKept ==
  ASSUME TypeOK, TypeOK', UNCHANGED <<req, dev, cap, block>>,
         op' \in BlockOps <=> op \in BlockOps,
         op \notin BlockOps => op' = op
  PROVE  /\ \A i \in 1 .. Len(req) : FrameKind(i)' = FrameKind(i)
         /\ rsp' = rsp => Size' = Size /\ \A i \in 1 .. Size : Pipe'[i] = Pipe[i]
         /\ rsp # <<>> /\ rsp' = Tail(rsp) =>
              /\ Size' = Size - 1 /\ Size \in Nat \ {0}
              /\ Behind(Pipe, Pipe', Size')
<1>1. PipeTable /\ PipeTable'
  BY PipeAt, PipeAtNext
<1>2. ASSUME NEW i \in 1 .. Len(req) PROVE FrameKind(i)' = FrameKind(i)
  <2>1. req # <<>>
    BY <1>1, <1>2 DEF PipeTable, TypeOK
  <2>2. Sound' = Sound
    BY <2>1 DEF Sound, Position, Frames
  <2>3. Refusable(i)' = Refusable(i)
    BY DEF Refusable, Lead
  <2> QED
    BY <2>2, <2>3 DEF FrameKind
<1>3. ASSUME rsp' = rsp
      PROVE  Size' = Size /\ \A i \in 1 .. Size : Pipe'[i] = Pipe[i]
  <2>1. Size' = Size
    BY <1>3 DEF Size
  <2>2. ASSUME NEW i \in 1 .. Len(rsp) PROVE Pipe'[i] = Pipe[i]
    <3>1. ReplyKind(rsp[i])' = ReplyKind(rsp[i])
      BY <1>3, RepliesAlike
    <3> QED
      BY <1>1, <1>3, <3>1 DEF PipeTable
  <2>3. ASSUME NEW i \in 1 .. Len(req) PROVE Pipe'[Len(rsp) + i] = Pipe[Len(rsp) + i]
    BY <1>1, <1>2, <1>3 DEF PipeTable
  <2>4. ASSUME NEW i \in 1 .. Size PROVE Pipe'[i] = Pipe[i]
    <3>1. CASE i \in 1 .. Len(rsp)
      BY <2>2, <3>1
    <3>2. CASE i \notin 1 .. Len(rsp)
      <4>1. i - Len(rsp) \in 1 .. Len(req) /\ Len(rsp) + (i - Len(rsp)) = i
        BY <1>1, <3>2 DEF PipeTable
      <4> QED
        BY <2>3, <4>1
    <3> QED
      BY <3>1, <3>2
  <2> QED
    BY <2>1, <2>4
<1>4. ASSUME rsp # <<>>, rsp' = Tail(rsp)
      PROVE  /\ Size' = Size - 1 /\ Size \in Nat \ {0}
             /\ Behind(Pipe, Pipe', Size')
  <2>1. /\ Len(rsp) \in Nat \ {0} /\ Len(rsp') = Len(rsp) - 1
        /\ \A i \in 1 .. Len(rsp') : rsp'[i] = rsp[i + 1] /\ i + 1 \in 1 .. Len(rsp)
    BY <1>4, QueueTail DEF TypeOK
  <2>2. Size' = Size - 1 /\ Size \in Nat \ {0}
    BY <1>1, <2>1 DEF PipeTable
  <2>3. ASSUME NEW i \in 1 .. Len(rsp') PROVE Pipe'[i] = Pipe[i + 1]
    <3>1. ReplyKind(rsp[i])' = ReplyKind(rsp[i + 1])
      BY <2>1, RepliesAlike
    <3> QED
      BY <1>1, <2>1, <3>1 DEF PipeTable
  <2>4. ASSUME NEW i \in 1 .. Len(req) PROVE Pipe'[Len(rsp') + i] = Pipe[Len(rsp) + i]
    BY <1>1, <1>2 DEF PipeTable
  <2>5. ASSUME NEW i \in 1 .. Size' PROVE Pipe'[i] = Pipe[i + 1]
    <3>1. CASE i \in 1 .. Len(rsp')
      BY <2>3, <3>1
    <3>2. CASE i \notin 1 .. Len(rsp')
      <4>1. i - Len(rsp') \in 1 .. Len(req) /\ Len(rsp') + (i - Len(rsp')) = i
            /\ Len(rsp) + (i - Len(rsp')) = i + 1
        BY <1>1, <2>1, <3>2 DEF PipeTable
      <4> QED
        BY <2>4, <4>1
    <3> QED
      BY <3>1, <3>2
  <2> QED
    BY <2>2, <2>5 DEF Behind
<1> QED
  BY <1>2, <1>3, <1>4

\* A reply that is not the one waited for is dropped.
LEMMA MismatchBudget ==
  ASSUME TransferInv, TypeOK', Orderly, WithinBudget, run = 1,
         faults \in Nat, faults' \in Nat, faults <= faults',
         pc = "poll", pc' = "top", rsp # <<>>, rsp' = Tail(rsp), ~Matches(rsp[1]),
         UNCHANGED <<op, block, sequence, attempt, req, dev, cap>>
  PROVE  WithinBudget'
<1>0. TypeOK /\ session = 1
  BY DEF TransferInv, SessionIsRun
<1>1. Waits' /\ Waits
  BY DEF Waits
<1>2. Hopeful => Hopeful'
  <2>1. ~(rsp[1].cmd = op /\ (op \in CapabilityPages => rsp[1].ok))
    <3>1. 1 \in 1 .. Len(rsp)
      BY <1>0, TailFacts DEF TypeOK
    <3>2. rsp[1].session = Owner(rsp[1].cmd)
      BY <3>1 DEF Orderly, OwnSession
    <3> QED
      BY <1>0, <3>2 DEF Matches, Owner
  <2>2. /\ Len(rsp) \in Nat \ {0} /\ Len(rsp') = Len(rsp) - 1
        /\ \A i \in 1 .. Len(rsp') : rsp'[i] = rsp[i + 1]
    BY <1>0, QueueTail DEF TypeOK
  <2>3. ASSUME NEW i \in 1 .. Len(rsp), rsp[i].cmd = op, op \in CapabilityPages => rsp[i].ok
        PROVE  Hopeful'
    <3>1. i # 1
      BY <2>1, <2>3
    <3>2. i - 1 \in 1 .. Len(rsp') /\ i - 1 + 1 = i
      BY <2>2, <3>1
    <3>3. rsp'[i - 1] = rsp[i]
      BY <2>2, <3>2
    <3> QED
      BY <2>3, <3>2, <3>3 DEF Hopeful
  <2>4. ASSUME NEW i \in 1 .. Len(req), req[i].cmd = op PROVE Hopeful'
    BY <2>4 DEF Hopeful
  <2> QED
    BY <2>3, <2>4 DEF Hopeful
<1>3. Size' = Size - 1 /\ Size \in Nat \ {0} /\ Behind(Pipe, Pipe', Size')
  BY <1>0, PipeKept
<1>4. Spoilt' = Spoilt
  BY <1>1 DEF Spoilt, Lead, Sound, Position, Frames
<1>5. PICK a, e, n :
           /\ Bill(Pipe, Size, Spoilt, a, e, n)
           /\ a[1] \in Nat /\ e[1] \in Nat /\ n[1] \in Nat /\ a[1] <= e[1]
           /\ attempt + (IF op = "block_begin" THEN a[1] ELSE e[1])
                + (IF Hopeful THEN 0 ELSE 1) <= faults
           /\ op \in BlockOps =>
                n[1] <= attempt + (IF op = "block_begin" /\ Waits THEN 1 ELSE 0)
  BY <1>0, BudgetNow
<1>6. \E b, f, m : /\ Bill(Pipe', Size', Spoilt, b, f, m)
                   /\ b[1] <= a[1] /\ f[1] <= e[1] /\ m[1] <= n[1]
  BY <1>3, <1>5, BillHead
<1>7. PICK b, f, m : /\ Bill(Pipe', Size', Spoilt', b, f, m)
                     /\ b[1] <= a[1] /\ f[1] <= e[1] /\ m[1] <= n[1]
  BY <1>3, <1>4, <1>6
<1>8. b[1] \in Nat /\ f[1] \in Nat /\ m[1] \in Nat
  <2>1. Size' \in Nat /\ 1 \in 1 .. Size' + 1
    BY <1>3
  <2> QED
    BY <1>7, <2>1, BillFacts
<1>9. attempt \in Nat
  BY <1>0, FrameTypes
<1>10. attempt' + (IF op' = "block_begin" THEN b[1] ELSE f[1])
           + (IF Hopeful' THEN 0 ELSE 1) <= faults'
  BY <1>2, <1>5, <1>7, <1>8, <1>9
<1>11. op' \in BlockOps =>
           m[1] <= attempt' + (IF op' = "block_begin" /\ Waits' THEN 1 ELSE 0)
  BY <1>1, <1>5, <1>7, <1>8, <1>9
<1> QED
  BY <1>7, <1>10, <1>11, BudgetNext

\* The end of an attempt is paid for: by a fault of its own, because nothing
\* could be expected any more, or by the reply that ended it.
LEMMA RetryCost ==
  ASSUME TransferInv, TypeOK', Orderly, WithinBudget, run = 1,
         faults \in Nat, faults' \in Nat, faults <= faults',
         NEW x, Retry(x), UNCHANGED <<req, dev, cap>>,
         \/ rsp' = rsp /\ (~Hopeful \/ faults' = faults + 1)
         \/ /\ pc = "poll" /\ rsp # <<>> /\ rsp' = Tail(rsp)
            /\ Matches(rsp[1]) /\ ~Accepts(rsp[1])
  PROVE  /\ attempt + 1 <= faults'
         /\ pc' = "send" => WithinBudget'
<1>0. TypeOK /\ session = 1 /\ attempt \in Nat
  BY FrameTypes DEF TransferInv, SessionIsRun
<1>1. PICK a, e, n :
           /\ Bill(Pipe, Size, Spoilt, a, e, n)
           /\ a[1] \in Nat /\ e[1] \in Nat /\ n[1] \in Nat /\ a[1] <= e[1]
           /\ attempt + (IF op = "block_begin" THEN a[1] ELSE e[1])
                + (IF Hopeful THEN 0 ELSE 1) <= faults
           /\ op \in BlockOps =>
                n[1] <= attempt + (IF op = "block_begin" /\ Waits THEN 1 ELSE 0)
  BY <1>0, BudgetNow
<1>2. /\ block' = block /\ (op' \in BlockOps <=> op \in BlockOps)
      /\ op \notin BlockOps => op' = op
      /\ AttemptLeft => /\ attempt' = attempt + 1 /\ op' \notin {"data", "block_end"}
                        /\ op \in BlockOps => op' = "block_begin"
      /\ pc' = "send" => AttemptLeft
  BY DEF Retry, BlockOps
\* What is still to pay when the attempt is over.
<1>3. \E b, f, m :
        /\ Bill(Pipe', Size', FALSE, b, f, m)
        /\ b[1] \in Nat /\ f[1] \in Nat /\ m[1] \in Nat
        /\ b[1] <= f[1] /\ m[1] <= n[1]
        /\ op \in BlockOps => attempt + 1 + b[1] <= faults'
        /\ op \notin BlockOps => attempt + 1 + f[1] <= faults'
  <2>1. CASE rsp' = rsp /\ (~Hopeful \/ faults' = faults + 1)
    <3>1. Size' = Size /\ Size \in Nat /\ \A i \in 1 .. Size : Pipe'[i] = Pipe[i]
      BY <1>0, <1>2, <2>1, PipeKept, PipeAt DEF PipeTable
    <3>2. Bill(Pipe', Size', Spoilt, a, e, n)
      BY <1>1, <3>1, BillEased DEF NoWorse
    <3>3. /\ op \in BlockOps => attempt + 1 + a[1] <= faults'
          /\ op \notin BlockOps => attempt + 1 + e[1] <= faults'
      BY <1>0, <1>1, <2>1 DEF BlockOps
    <3>4. n[1] <= n[1]
      BY <1>1
    <3>5. Bill(Pipe', Size', FALSE, a, e, n)
      BY <3>1, <3>2, BillEased DEF NoWorse
    <3> WITNESS a, e, n
    <3> QED
      BY <1>1, <3>3, <3>4, <3>5
  <2>2. CASE /\ pc = "poll" /\ rsp # <<>> /\ rsp' = Tail(rsp)
             /\ Matches(rsp[1]) /\ ~Accepts(rsp[1])
    <3>1. /\ Size' = Size - 1 /\ Size \in Nat \ {0}
          /\ Behind(Pipe, Pipe', Size')
      BY <1>0, <1>2, <2>2, PipeKept
    <3>2. 1 \in 1 .. Len(rsp) /\ 1 \in 1 .. Size /\ Pipe[1] = ReplyKind(rsp[1])
      BY <1>0, <2>2, TailFacts, PipeAt DEF TypeOK, PipeTable
    <3>3. rsp[1].cmd = op /\ op \notin CapabilityPages /\ op # "data"
      BY <2>2 DEF Matches, Accepts, BlockOps, CapabilityPages, Orderly, PiecesOK
    <3>4. /\ op = "block_begin" => Pipe[1] = "bad"
          /\ op # "block_begin" => Pipe[1] = "refusal"
      <4>1. op \in Edges => WireIndex(block) = block
        BY BlockPhase DEF Edges, BlockOps
      <4>2. CASE op = "block_begin"
        BY <2>2, <3>2, <3>3, <4>1, <4>2 DEF ReplyKind, Accepts, Edges, BlockOps
      <4>3. CASE op = "block_end"
        <5>1. rsp[1].detail = block
          BY <3>2, <3>3, <4>3 DEF Orderly, BlockAtHand, Edges
        <5> QED
          BY <2>2, <3>2, <3>3, <4>1, <4>3, <5>1 DEF ReplyKind, Accepts, Edges, BlockOps
      <4>4. CASE op \notin BlockOps
        BY <2>2, <3>2, <3>3, <4>4 DEF ReplyKind, Accepts, BlockOps
      <4> QED
        BY <3>3, <4>2, <4>3, <4>4 DEF BlockOps
    <3>5. /\ a[1] >= a[2] /\ e[1] >= e[2] /\ n[1] >= n[2]
          /\ op = "block_begin" => a[1] >= a[2] + 1
          /\ op # "block_begin" => e[1] >= e[2] + 1
      BY <1>1, <3>2, <3>4 DEF Bill
    <3>6. a[2] \in Nat /\ e[2] \in Nat /\ n[2] \in Nat /\ a[2] <= e[2]
      <4>1. 2 \in 1 .. Size + 1
        BY <3>1
      <4> QED
        BY <1>1, <3>1, <4>1, BillFacts
    <3>7. PICK b, f, m : /\ Bill(Pipe', Size', Spoilt, b, f, m)
                         /\ b[1] = a[2] /\ f[1] = e[2] /\ m[1] = n[2]
      BY <1>1, <3>1, BillHead
    <3>8. attempt + (IF op = "block_begin" THEN a[1] ELSE e[1]) <= faults
      BY <1>0, <1>1
    <3>9. /\ op \in BlockOps => attempt + 1 + b[1] <= faults'
          /\ op \notin BlockOps => attempt + 1 + f[1] <= faults'
      <4>1. CASE op = "block_begin"
        BY <1>0, <1>1, <3>5, <3>6, <3>7, <3>8, <4>1 DEF BlockOps
      <4>2. CASE op # "block_begin"
        <5>1. attempt + 1 + e[2] <= faults /\ b[1] <= e[2] /\ f[1] <= e[2]
          BY <1>0, <1>1, <3>5, <3>6, <3>7, <3>8, <4>2
        <5> QED
          BY <1>0, <3>6, <3>7, <5>1
      <4> QED
        BY <4>1, <4>2
    <3>10. Bill(Pipe', Size', Spoilt, b, f, m)
      BY <3>1, <3>7
    <3>11. /\ b[1] \in Nat /\ f[1] \in Nat /\ m[1] \in Nat
           /\ b[1] <= f[1] /\ m[1] <= n[1]
      BY <3>5, <3>6, <3>7
    <3>12. Bill(Pipe', Size', FALSE, b, f, m)
      <4>1. Size' \in Nat
        BY <3>1
      <4> QED
        BY <3>10, <4>1, BillEased DEF NoWorse
    <3> WITNESS b, f, m
    <3> QED
      BY <3>9, <3>11, <3>12
  <2> QED
    BY <2>1, <2>2
<1>4. PICK b, f, m :
        /\ Bill(Pipe', Size', FALSE, b, f, m)
        /\ b[1] \in Nat /\ f[1] \in Nat /\ m[1] \in Nat
        /\ b[1] <= f[1] /\ m[1] <= n[1]
        /\ op \in BlockOps => attempt + 1 + b[1] <= faults'
        /\ op \notin BlockOps => attempt + 1 + f[1] <= faults'
  BY <1>3
<1>5. attempt + 1 <= faults'
  BY <1>0, <1>4
<1>6. ASSUME pc' = "send" PROVE WithinBudget'
  <2>1. /\ attempt' = attempt + 1 /\ op' \notin {"data", "block_end"}
        /\ op \in BlockOps => op' = "block_begin"
    BY <1>2, <1>6
  <2>2. ~Spoilt' /\ Hopeful' /\ ~Waits'
    BY <1>6, <2>1 DEF Spoilt, Hopeful, Waits
  <2>3. Bill(Pipe', Size', Spoilt', b, f, m)
    <3>1. Size' \in Nat
      BY PipeAtNext DEF PipeTable
    <3> QED
      BY <1>4, <2>2, <3>1, BillEased DEF NoWorse
  <2>4. attempt' + (IF op' = "block_begin" THEN b[1] ELSE f[1])
          + (IF Hopeful' THEN 0 ELSE 1) <= faults'
    <3>1. op' = "block_begin" <=> op \in BlockOps
      BY <1>2, <2>1 DEF BlockOps
    <3> QED
      BY <1>0, <1>4, <2>1, <2>2, <3>1
  <2>5. op' \in BlockOps =>
           m[1] <= attempt' + (IF op' = "block_begin" /\ Waits' THEN 1 ELSE 0)
    BY <1>0, <1>1, <1>2, <1>4, <2>1, <2>2
  <2> QED
    BY <2>3, <2>4, <2>5, BudgetNext
<1> QED
  BY <1>5, <1>6

-----------------------------------------------------------------------------
(* The worker sends a frame.                                               *)

\* A frame is sent: it costs nothing while all goes well.
LEMMA SentBudget ==
  ASSUME TransferInv, TypeOK', Orderly, WithinBudget, run = 1,
         faults \in Nat, faults' \in Nat, faults <= faults', pc = "send",
         req' = Append(req, Request), UNCHANGED <<dev, cap, block, rsp, attempt>>,
         \/ op # "data" /\ op' = op /\ pc' = "top" /\ sequence' = sequence
         \/ /\ op = "data" /\ pc' = "send"
            /\ \/ sequence + 1 < Frames(block) /\ op' = op /\ sequence' = sequence + 1
               \/ ~(sequence + 1 < Frames(block)) /\ op' = "block_end" /\ sequence' = 0
  PROVE  WithinBudget'
<1> DEFINE m == Request
<1>25. TypeOK /\ Len(req) \in Nat /\ attempt \in Nat
  BY FrameTypes DEF TransferInv
<1>26. PICK n \in Nat : n = Len(req)
  BY <1>25
<1>0. TypeOK /\ n = Len(req) /\ n \in Nat /\ attempt \in Nat
  BY <1>25, <1>26
<1>1. op = "data" => sequence < Frames(block)
  BY DEF Orderly, PiecesOK
<1>2. /\ m.cmd = op /\ op \in Ops /\ m \in FrameSet
      /\ op \in Edges => m.index = block
      /\ op = "data" => m.index = sequence /\ m.block = block
  BY <1>1, RequestShape
<1> HIDE DEF m
<1>3. /\ Len(req') = n + 1 /\ req'[n + 1] = m /\ n + 1 \in 1 .. Len(req')
      /\ \A i \in 1 .. n : req'[i] = req[i] /\ i \in 1 .. Len(req')
  BY <1>0, <1>2, AppendFacts DEF TypeOK, m
<1>4. \A k : Frames(k)' = Frames(k)
  BY DEF Frames
<1>5. /\ op' \in BlockOps <=> op \in BlockOps
      /\ op \notin BlockOps => op' = op
      /\ ~Waits /\ Hopeful
  BY DEF BlockOps, Waits, Hopeful
<1>6. n = 0 <=> req = <<>>
  BY <1>0 DEF TypeOK
<1>7. req' # <<>> /\ 1 \in 1 .. Len(req')
  BY <1>0, <1>3
<1>8. n # 0 => /\ 1 \in 1 .. n /\ req'[1] = req[1] /\ Sound' = Sound
  <2> SUFFICES ASSUME n # 0 PROVE 1 \in 1 .. n /\ req'[1] = req[1] /\ Sound' = Sound
    OBVIOUS
  <2>1. 1 \in 1 .. n /\ req'[1] = req[1] /\ req # <<>>
    BY <1>0, <1>3, <1>6
  <2>2. Position' = Position
    BY <1>4, <1>7, <2>1 DEF Position
  <2> QED
    BY <2>1, <2>2 DEF Sound
<1>9. n = 0 /\ op \in {"data", "block_end"} => Sound' = Sound
  <2> SUFFICES ASSUME n = 0, op \in {"data", "block_end"} PROVE Sound' = Sound
    OBVIOUS
  <2>1. req = <<>> /\ req'[1] = m
    BY <1>3, <1>6
  <2>2. CASE op = "data"
    <3>1. Position = sequence
      BY <2>1, <2>2 DEF Position
    <3>2. Position' = sequence
      BY <1>2, <1>7, <2>1, <2>2 DEF Position
    <3> QED
      BY <3>1, <3>2 DEF Sound
  <2>3. CASE op = "block_end"
    <3>1. Position = Frames(block)
      BY <2>1, <2>3 DEF Position
    <3>2. Position' = Frames(block)
      BY <1>2, <1>4, <1>7, <2>1, <2>3 DEF Position
    <3> QED
      BY <3>1, <3>2 DEF Sound
  <2> QED
    BY <2>2, <2>3
<1>10. PipeTable /\ PipeTable'
  BY <1>0, PipeAt, PipeAtNext
<1>11. Size' = Size + 1 /\ Size + 1 = Len(rsp) + (n + 1) /\ Size \in Nat
  BY <1>0, <1>3, <1>10 DEF PipeTable
<1>12. ASSUME NEW i \in 1 .. Size PROVE Pipe'[i] = Pipe[i]
  <2>1. CASE i \in 1 .. Len(rsp)
    <3>1. ReplyKind(rsp[i])' = ReplyKind(rsp[i])
      BY <1>5, RepliesAlike
    <3> QED
      BY <1>10, <2>1, <3>1 DEF PipeTable
  <2>2. CASE i \notin 1 .. Len(rsp)
    <3>5. i - Len(rsp) \in 1 .. n /\ Len(rsp) + (i - Len(rsp)) = i
      BY <1>0, <1>10, <2>2 DEF PipeTable
    <3>6. PICK j \in 1 .. n : Len(rsp) + j = i
      BY <3>5
    <3>1. j \in 1 .. n /\ Len(rsp) + j = i /\ j \in 1 .. Len(req')
      BY <1>3, <3>6
    <3>2. Sound' = Sound /\ req'[j] = req[j]
      BY <1>0, <1>3, <1>8, <3>1
    <3>3. Refusable(j)' = Refusable(j)
      <4>1. \A k \in 1 .. j - 1 : k \in 1 .. n
        BY <1>0, <3>1
      <4>2. Lead(req', j) = Lead(req, j)
        BY <1>3, <4>1 DEF Lead
      <4> QED
        BY <3>2, <4>2 DEF Refusable
    <3>4. FrameKind(j)' = FrameKind(j)
      BY <1>5, <3>2, <3>3 DEF FrameKind
    <3> QED
      BY <1>0, <1>10, <3>1, <3>4 DEF PipeTable
  <2> QED
    BY <2>1, <2>2
<1>13. Pipe'[Size + 1] = FrameKind(n + 1)'
  BY <1>0, <1>3, <1>10, <1>11 DEF PipeTable
<1>14. Lead(req', Len(req') + 1) <=> Lead(req, Len(req) + 1) /\ m.cmd = "data"
  <2>1. \A k \in 1 .. Len(req') : k \in 1 .. n \/ k = n + 1
    BY <1>3
  <2>2. Len(req') + 1 - 1 = Len(req') /\ Len(req) + 1 - 1 = n
    BY <1>0, <1>3
  <2> QED
    BY <1>3, <2>1, <2>2 DEF Lead
<1>15. Lead(req', n + 1) <=> Lead(req, Len(req) + 1)
  BY <1>0, <1>3 DEF Lead
<1>16. /\ op = "block_begin" =>
            FrameKind(n + 1)' = "good" /\ ~Spoilt' /\ Waits'
       /\ op # "block_begin" =>
            \/ FrameKind(n + 1)' = "other" /\ (Spoilt' => Spoilt)
            \/ FrameKind(n + 1)' = "refusal" /\ Spoilt /\ ~Spoilt'
  <2>1. CASE op = "block_begin"
    <3>1. FrameKind(n + 1)' = "good"
      <4>1. req'[n + 1].cmd = "block_begin" /\ req'[n + 1].index = block
        BY <1>2, <1>3, <2>1 DEF Edges
      <4>2. op' \in BlockOps /\ block' = block
        BY <2>1 DEF BlockOps
      <4> QED
        BY <4>1, <4>2 DEF FrameKind, Refusable
    <3>2. ~Spoilt'
      BY <1>2, <1>14, <2>1 DEF Spoilt
    <3> QED
      BY <2>1, <3>1, <3>2 DEF Waits
  <2>2. CASE op = "data"
    <3>1. FrameKind(n + 1)' = "other"
      BY <1>2, <1>3, <2>2 DEF FrameKind, Refusable
    <3>2. Sound' = Sound
      BY <1>8, <1>9, <2>2
    <3>3. Spoilt' => Spoilt
      BY <1>14, <2>2, <3>2 DEF Spoilt
    <3> QED
      BY <2>2, <3>1, <3>3
  <2>3. CASE op = "block_end"
    <3>1. Sound' = Sound
      BY <1>8, <1>9, <2>3
    <3>2. Waits' /\ ~Waits /\ op' = "block_end"
      BY <1>5, <2>3 DEF Waits
    <3>3. ~Spoilt'
      BY <3>2 DEF Spoilt
    <3>4. FrameKind(n + 1)' = IF Lead(req, Len(req) + 1) /\ ~Sound THEN "refusal" ELSE "other"
      BY <1>2, <1>3, <1>15, <2>3, <3>1, <3>2 DEF FrameKind, Refusable, BlockOps, Edges
    <3>5. Spoilt <=> Lead(req, Len(req) + 1) /\ ~Sound
      BY <2>3, <3>2 DEF Spoilt
    <3> QED
      BY <2>3, <3>3, <3>4, <3>5
  <2>4. CASE op \notin BlockOps
    <3>1. FrameKind(n + 1)' = "other" /\ ~Spoilt'
      BY <1>5, <2>4 DEF FrameKind, Spoilt, BlockOps
    <3> QED
      BY <2>4, <3>1 DEF BlockOps
  <2> QED
    BY <2>1, <2>2, <2>3, <2>4 DEF BlockOps
<1>17. Extended(Pipe, Pipe', Size', Spoilt, Spoilt')
  <2>1. Size' - 1 = Size
    BY <1>11
  <2> QED
    BY <1>11, <1>12, <1>13, <1>16, <2>1 DEF Extended
<1>18. PICK a, e, c :
           /\ Bill(Pipe, Size, Spoilt, a, e, c)
           /\ a[1] \in Nat /\ e[1] \in Nat /\ c[1] \in Nat /\ a[1] <= e[1]
           /\ attempt + (IF op = "block_begin" THEN a[1] ELSE e[1])
                + (IF Hopeful THEN 0 ELSE 1) <= faults
           /\ op \in BlockOps =>
                c[1] <= attempt + (IF op = "block_begin" /\ Waits THEN 1 ELSE 0)
  BY <1>0, BudgetNow
<1>19. PICK b, f, d : /\ Bill(Pipe', Size', Spoilt', b, f, d)
                      /\ b[1] = a[1] /\ f[1] = e[1]
                      /\ d[1] = IF Pipe'[Size'] = "good" THEN c[1] + 1 ELSE c[1]
  BY <1>11, <1>17, <1>18, BillAppend
<1>20. Hopeful'
  <2>1. op # "data" => req'[n + 1].cmd = op'
    BY <1>2, <1>3
  <2> QED
    BY <1>3, <2>1 DEF Hopeful
<1>21. op' = "block_begin" <=> op = "block_begin"
  OBVIOUS
<1>22. attempt' + (IF op' = "block_begin" THEN b[1] ELSE f[1])
           + (IF Hopeful' THEN 0 ELSE 1) <= faults'
  BY <1>0, <1>5, <1>18, <1>19, <1>20, <1>21
<1>23. op' \in BlockOps =>
           d[1] <= attempt' + (IF op' = "block_begin" /\ Waits' THEN 1 ELSE 0)
  <2> SUFFICES ASSUME op' \in BlockOps
               PROVE  d[1] <= attempt' + (IF op' = "block_begin" /\ Waits' THEN 1 ELSE 0)
    OBVIOUS
  <2>1. c[1] <= attempt
    BY <1>5, <1>18, <1>0
  <2>2. CASE op = "block_begin"
    <3>1. d[1] = c[1] + 1 /\ Waits'
      BY <1>11, <1>13, <1>16, <1>19, <2>2
    <3> QED
      BY <1>0, <1>18, <1>21, <2>1, <2>2, <3>1
  <2>3. CASE op # "block_begin"
    <3>1. d[1] = c[1]
      BY <1>11, <1>13, <1>16, <1>19, <2>3
    <3> QED
      BY <1>0, <1>18, <1>21, <2>1, <2>3, <3>1
  <2> QED
    BY <2>2, <2>3
<1> QED
  BY <1>19, <1>22, <1>23, BudgetNext

-----------------------------------------------------------------------------
(* The worker accepts a reply.                                             *)

\* No frame and no reply is ahead of the worker.
LEMMA StageBounds ==
  ASSUME TransferInv, Orderly, run = 1
  PROVE  /\ \A i \in 1 .. Len(rsp) : rsp[i].cmd \in Sessioned =>
              Stage(rsp[i].cmd, rsp[i].detail) <= HostStage
         /\ \A i \in 1 .. Len(req) : req[i].cmd \in Sessioned =>
              Stage(req[i].cmd, req[i].index) <= HostStage
         /\ \A i \in 1 .. Len(rsp) : rsp[i].cmd \in Edges =>
              4 + rsp[i].detail <= HostStage /\ rsp[i].detail \in Nat
         /\ \A i \in 1 .. Len(req) : req[i].cmd \in Edges =>
              4 + req[i].index <= HostStage /\ req[i].index \in Nat
<1>0. TypeOK /\ session = 1
  BY DEF TransferInv, SessionIsRun
<1>1. ASSUME NEW i \in 1 .. Len(rsp), rsp[i].cmd \in Sessioned
      PROVE  Stage(rsp[i].cmd, rsp[i].detail) <= HostStage
  <2>1. ReplyOK(rsp[i]) /\ rsp[i].session = 1
    BY <1>1 DEF TransferInv, RepliesOK, Orderly, OwnSession, Owner
  <2> QED
    BY <1>0, <1>1, <2>1 DEF ReplyOK
<1>2. ASSUME NEW i \in 1 .. Len(req), req[i].cmd \in Sessioned
      PROVE  Stage(req[i].cmd, req[i].index) <= HostStage
  <2>1. FrameOK(req[i]) /\ req[i].session = 1 /\ req[i].cmd # "abort"
    BY <1>2 DEF TransferInv, FramesOK, Orderly, OwnSession, Owner
  <2> QED
    BY <1>0, <1>2, <2>1 DEF FrameOK
<1>3. ASSUME NEW i \in 1 .. Len(rsp), rsp[i].cmd \in Edges
      PROVE  4 + rsp[i].detail <= HostStage /\ rsp[i].detail \in Nat
  <2>1. Stage(rsp[i].cmd, rsp[i].detail) = 4 + rsp[i].detail
    BY <1>3 DEF Stage, Edges
  <2> QED
    BY <1>0, <1>1, <1>3, <2>1, FrameTypes DEF Edges, Sessioned
<1>4. ASSUME NEW i \in 1 .. Len(req), req[i].cmd \in Edges
      PROVE  4 + req[i].index <= HostStage /\ req[i].index \in Nat
  <2>1. Stage(req[i].cmd, req[i].index) = 4 + req[i].index
    BY <1>4 DEF Stage, Edges
  <2> QED
    BY <1>0, <1>2, <1>4, <2>1, FrameTypes DEF Edges, Sessioned
<1> QED
  BY <1>1, <1>2, <1>3, <1>4

\* The block is open: what its end may still cost is all that is left.
LEMMA OpenedBudget ==
  ASSUME TransferInv, TypeOK', Orderly, WithinBudget, run = 1,
         faults \in Nat, faults' \in Nat, faults <= faults',
         pc = "poll", rsp # <<>>, rsp' = Tail(rsp), Accepts(rsp[1]),
         op = "block_begin", op' = "data", block' = block, attempt' = attempt,
         sequence' = 0, pc' = "send", UNCHANGED <<req, dev, cap>>
  PROVE  WithinBudget'
<1>0. TypeOK /\ attempt \in Nat
  BY FrameTypes DEF TransferInv
<1>1. op \in BlockOps /\ op' \in BlockOps /\ Waits /\ ~Waits'
  BY DEF BlockOps, Waits
<1>2. Size' = Size - 1 /\ Size \in Nat \ {0} /\ Behind(Pipe, Pipe', Size')
  BY <1>0, <1>1, PipeKept
<1>3. 1 \in 1 .. Size /\ Pipe[1] = "good"
  <2>1. 1 \in 1 .. Len(rsp) /\ 1 \in 1 .. Size /\ Pipe[1] = ReplyKind(rsp[1])
    BY <1>0, TailFacts, PipeAt DEF TypeOK, PipeTable
  <2>2. rsp[1].cmd = "block_begin" /\ rsp[1].ok /\ rsp[1].detail = block
    BY <1>1, BlockPhase DEF Accepts, Matches
  <2> QED
    BY <1>1, <2>1, <2>2 DEF ReplyKind
<1>4. Spoilt' => Spoilt
  <2>1. Sound' = Sound
    <3>1. Position' = Position
      BY DEF Position, Frames
    <3> QED
      BY <3>1 DEF Sound
  <2> QED
    BY <1>1, <2>1 DEF Spoilt, Lead
<1>5. PICK a, e, n :
           /\ Bill(Pipe, Size, Spoilt, a, e, n)
           /\ a[1] \in Nat /\ e[1] \in Nat /\ n[1] \in Nat /\ a[1] <= e[1]
           /\ attempt + (IF op = "block_begin" THEN a[1] ELSE e[1])
                + (IF Hopeful THEN 0 ELSE 1) <= faults
           /\ op \in BlockOps =>
                n[1] <= attempt + (IF op = "block_begin" /\ Waits THEN 1 ELSE 0)
  BY <1>0, BudgetNow
<1>6. PICK b, f, m : /\ Bill(Pipe', Size', Spoilt, b, f, m)
                     /\ b[1] = a[2] /\ f[1] = e[2] /\ m[1] = n[2]
  BY <1>2, <1>5, BillHead
<1>7. Bill(Pipe', Size', Spoilt', b, f, m)
  <2>1. Size' \in Nat
    BY <1>2
  <2> QED
    BY <1>4, <1>6, <2>1, BillEased DEF NoWorse
<1>8. a[1] >= e[2] /\ n[1] >= n[2] + 1 /\ e[2] \in Nat /\ n[2] \in Nat
  <2>1. 2 \in 1 .. Size + 1
    BY <1>2
  <2>2. e[2] \in Nat /\ n[2] \in Nat
    BY <1>2, <1>5, <2>1, BillFacts
  <2> QED
    BY <1>3, <1>5, <2>2 DEF Bill
<1>9. Hopeful'
  BY DEF Hopeful
<1>10. attempt' + (IF op' = "block_begin" THEN b[1] ELSE f[1])
           + (IF Hopeful' THEN 0 ELSE 1) <= faults'
  <2>1. attempt + a[1] <= faults
    BY <1>0, <1>5
  <2> QED
    BY <1>0, <1>5, <1>6, <1>8, <1>9, <2>1
<1>11. m[1] <= attempt' + (IF op' = "block_begin" /\ Waits' THEN 1 ELSE 0)
  <2>1. n[1] <= attempt + 1
    BY <1>1, <1>5
  <2> QED
    BY <1>0, <1>5, <1>6, <1>8, <2>1
<1> QED
  BY <1>7, <1>10, <1>11, BudgetNext

\* The block is done: whatever is left of its attempts is spoilt replies.
LEMMA NextBlockBudget ==
  ASSUME TransferInv, TypeOK', Orderly, WithinBudget, run = 1,
         faults \in Nat, faults' \in Nat, faults <= faults',
         pc = "poll", rsp # <<>>, rsp' = Tail(rsp),
         op = "block_end", op' = "block_begin", block' = block + 1, attempt' = 0,
         pc' = "send", UNCHANGED <<req, dev, cap>>
  PROVE  WithinBudget'
<1>0. TypeOK /\ attempt \in Nat /\ block \in Nat
  BY FrameTypes DEF TransferInv
<1>1. op \in BlockOps /\ op' \in BlockOps /\ Waits /\ ~Waits'
  BY DEF BlockOps, Waits
<1>2. PipeTable /\ PipeTable'
  BY <1>0, PipeAt, PipeAtNext
<1>3. /\ Len(rsp) \in Nat \ {0} /\ Len(rsp') = Len(rsp) - 1
      /\ \A i \in 1 .. Len(rsp') : rsp'[i] = rsp[i + 1] /\ i + 1 \in 1 .. Len(rsp)
  BY <1>0, QueueTail DEF TypeOK
<1>4. Size' = Size - 1 /\ Size \in Nat \ {0} /\ Size' \in Nat
  BY <1>2, <1>3 DEF PipeTable
<1>5. HostStage = 4 + block
  BY <1>1, BlockPhase DEF StageTable
<1> DEFINE R == [i \in 1 .. Size' |-> Pipe[i + 1]]
<1>6. Behind(Pipe, R, Size')
  BY DEF Behind
<1>7. ASSUME NEW i \in 1 .. Size'
      PROVE  Pipe'[i] = "other" \/ (Pipe'[i] = "bad" /\ Pipe[i + 1] \in {"good", "bad"})
  <2>1. CASE i \in 1 .. Len(rsp')
    <3>1. Pipe'[i] = ReplyKind(rsp[i])' /\ Pipe[i + 1] = ReplyKind(rsp[i + 1])
      BY <1>2, <1>3, <2>1 DEF PipeTable
    <3>2. rsp'[i] = rsp[i + 1] /\ i + 1 \in 1 .. Len(rsp)
      BY <1>3, <2>1
    <3>3. rsp[i + 1].cmd \in Edges => rsp[i + 1].detail # block + 1
      BY <1>0, <1>5, <3>2, StageBounds
    <3>4. CASE rsp[i + 1].cmd = "block_begin"
      <4>1. ReplyKind(rsp[i])' = "bad"
        BY <1>1, <3>2, <3>3, <3>4 DEF ReplyKind, Edges
      <4>2. ReplyKind(rsp[i + 1]) \in {"good", "bad"}
        BY <1>1, <3>4 DEF ReplyKind
      <4> QED
        BY <3>1, <4>1, <4>2
    <3>5. CASE rsp[i + 1].cmd # "block_begin"
      <4>1. ReplyKind(rsp[i])' = "other"
        BY <1>1, <3>2, <3>3, <3>5 DEF ReplyKind, Edges
      <4> QED
        BY <3>1, <4>1
    <3> QED
      BY <3>4, <3>5
  <2>2. CASE i \notin 1 .. Len(rsp')
    <3>1. i - Len(rsp') \in 1 .. Len(req) /\ Len(rsp') + (i - Len(rsp')) = i
          /\ Len(rsp) + (i - Len(rsp')) = i + 1
      BY <1>2, <1>3, <2>2 DEF PipeTable
    <3>2. PICK j \in 1 .. Len(req) : Len(rsp') + j = i /\ Len(rsp) + j = i + 1
      BY <3>1
    <3>3. Pipe'[i] = FrameKind(j)' /\ Pipe[i + 1] = FrameKind(j)
      BY <1>2, <3>2 DEF PipeTable
    <3>4. req[j].cmd \in Edges => req[j].index # block + 1
      BY <1>0, <1>5, StageBounds
    <3>5. CASE req[j].cmd = "block_begin"
      <4>1. FrameKind(j)' = "bad"
        BY <1>1, <3>4, <3>5 DEF FrameKind, Edges, Refusable
      <4>2. FrameKind(j) \in {"good", "bad"}
        BY <1>1, <3>5 DEF FrameKind, Refusable
      <4> QED
        BY <3>3, <4>1, <4>2
    <3>6. CASE req[j].cmd # "block_begin"
      <4>1. FrameKind(j)' = "other"
        BY <1>1, <3>4, <3>6 DEF FrameKind, Edges, Refusable
      <4> QED
        BY <3>3, <4>1
    <3> QED
      BY <3>5, <3>6
  <2> QED
    BY <2>1, <2>2
<1>8. Rebegun(R, Pipe', Size')
  BY <1>7 DEF Rebegun
<1>9. PICK a, e, n :
           /\ Bill(Pipe, Size, Spoilt, a, e, n)
           /\ a[1] \in Nat /\ e[1] \in Nat /\ n[1] \in Nat /\ a[1] <= e[1]
           /\ attempt + (IF op = "block_begin" THEN a[1] ELSE e[1])
                + (IF Hopeful THEN 0 ELSE 1) <= faults
           /\ op \in BlockOps =>
                n[1] <= attempt + (IF op = "block_begin" /\ Waits THEN 1 ELSE 0)
  BY <1>0, BudgetNow
<1> HIDE DEF R
<1>10. PICK b, f, m : /\ Bill(R, Size', Spoilt, b, f, m)
                      /\ b[1] <= a[1] /\ f[1] <= e[1] /\ m[1] <= n[1]
  BY <1>4, <1>6, <1>9, BillHead
<1>13. ~Spoilt' /\ Hopeful'
  BY <1>1 DEF Spoilt, Hopeful
<1>11. PICK g, h : Bill(Pipe', Size', Spoilt', g, g, h) /\ g[1] = b[1] + m[1] /\ h[1] = 0
  BY <1>4, <1>8, <1>10, <1>13, BillNextBlock
<1>12. b[1] \in Nat /\ m[1] \in Nat
  <2>1. 1 \in 1 .. Size' + 1
    BY <1>4
  <2> QED
    BY <1>4, <1>10, <2>1, BillFacts
<1>15. attempt' + (IF op' = "block_begin" THEN g[1] ELSE g[1])
           + (IF Hopeful' THEN 0 ELSE 1) <= faults'
  <2>1. attempt + e[1] <= faults /\ n[1] <= attempt
    BY <1>0, <1>1, <1>9
  <2> QED
    BY <1>0, <1>9, <1>10, <1>11, <1>12, <1>13, <2>1
<1>16. h[1] <= attempt' + (IF op' = "block_begin" /\ Waits' THEN 1 ELSE 0)
  BY <1>1, <1>11
<1> QED
  BY <1>11, <1>15, <1>16, BudgetNext

\* The exchange at hand succeeds: the next command has all its attempts.
LEMMA AdvanceBudget ==
  ASSUME TransferInv, TransferInv', Orderly, WithinBudget, run = 1,
         faults \in Nat, faults' \in Nat, faults <= faults',
         pc = "poll", rsp # <<>>, rsp' = Tail(rsp), Accepts(rsp[1]),
         Advance, pc' = "send", UNCHANGED <<req, dev, cap>>
  PROVE  WithinBudget'
<1>0. TypeOK /\ TypeOK'
  BY DEF TransferInv
<1>1. /\ sequence' = 0
      /\ \/ op = "sync" /\ op' = "cap0" /\ attempt' = 0
         \/ op = "cap0" /\ op' = "cap1" /\ attempt' = 0
         \/ op = "cap1" /\ op' = "start" /\ attempt' = 0
         \/ op = "start" /\ op' = "start_crc" /\ attempt' = 0
         \/ op = "start_crc" /\ op' = "start_version" /\ attempt' = 0
         \/ op = "start_version" /\ op' = "block_begin" /\ block' = 0 /\ attempt' = 0
         \/ op = "block_begin" /\ op' = "data" /\ block' = block /\ attempt' = attempt
         \/ op = "block_end" /\ op' \in {"block_begin", "end"} /\ block' = block + 1
              /\ attempt' = 0
  BY <1>0, AdvanceMoves
<1>2. CASE op = "block_begin"
  BY <1>0, <1>1, <1>2, OpenedBudget
<1>3. CASE op = "block_end" /\ op' = "block_begin"
  BY <1>0, <1>1, <1>3, NextBlockBudget
<1>4. CASE op # "block_begin" /\ ~(op = "block_end" /\ op' = "block_begin")
  <2>1. op' \notin {"data", "block_end"} /\ attempt' = 0
    BY <1>1, <1>4
  <2>2. StageTable /\ block \in Nat /\ ImageSize \in Nat
    BY <1>0, BlockPhase, FrameTypes
  <2>3. \A i \in 1 .. Len(rsp') : i + 1 \in 1 .. Len(rsp) /\ rsp'[i] = rsp[i + 1]
    BY <1>0, TailFacts DEF TypeOK
  <2>4. CASE op' = "block_begin"
    <3>1. op = "start_version" /\ HostStage = 3 /\ op' \in BlockOps
      BY <1>1, <1>4, <2>2, <2>4 DEF StageTable, BlockOps
    <3>2. ASSUME NEW i \in 1 .. Len(rsp') PROVE ReplyKind(rsp[i])' = "other"
      <4>1. rsp[i + 1].cmd \notin Edges
        BY <2>3, <3>1, StageBounds
      <4> QED
        BY <2>3, <3>1, <4>1 DEF ReplyKind, Edges
    <3>3. ASSUME NEW i \in 1 .. Len(req') PROVE FrameKind(i)' = "other"
      <4>1. req[i].cmd \notin Edges
        BY <3>1, StageBounds
      <4> QED
        BY <3>1, <4>1 DEF FrameKind, Refusable, Edges
    <3> QED
      BY <1>0, <2>1, <3>2, <3>3, FreshBudget
  <2>5. CASE op' # "block_begin"
    <3>1. op' \notin BlockOps
      BY <2>1, <2>5 DEF BlockOps
    <3>2. op' \in {"start", "start_crc", "start_version", "end"} =>
            op' \in Sessioned /\ \A x : Stage(op', x) > HostStage
      <4>1. op' = "start" => HostStage = 0
        BY <1>1, <1>4, <2>2 DEF StageTable, CapabilityPages
      <4>2. op' = "start_crc" => HostStage = 1
        BY <1>1, <1>4, <2>2 DEF StageTable
      <4>3. op' = "start_version" => HostStage = 2
        BY <1>1, <1>4, <2>2 DEF StageTable
      <4>4. op' = "end" => HostStage = 4 + block /\ block < ImageSize
        BY <1>1, <1>4, <2>2, BlockPhase DEF StageTable, BlockOps
      <4>5. ImageSize + 4 > block + 4 \/ ~(block < ImageSize)
        BY <2>2
      <4> QED
        BY <2>2, <4>1, <4>2, <4>3, <4>4, <4>5 DEF Stage, Sessioned
    <3>3. ASSUME NEW i \in 1 .. Len(rsp') PROVE ReplyKind(rsp[i])' = "other"
      <4>1. CASE op' \in CapabilityPages
        BY <3>1, <4>1 DEF ReplyKind
      <4>2. CASE op' \notin CapabilityPages
        <5>1. op' \in {"start", "start_crc", "start_version", "end"}
          BY <1>1, <1>4, <2>5, <4>2 DEF CapabilityPages
        <5>2. PICK j \in 1 .. Len(rsp) : j = i + 1 /\ rsp'[i] = rsp[j]
          BY <2>3
        <5>3. rsp[j].cmd # op'
          <6>1. Stage(op', rsp[j].detail) > HostStage /\ op' \in Sessioned
            BY <3>2, <5>1
          <6>2. rsp[j].cmd \in Sessioned => Stage(rsp[j].cmd, rsp[j].detail) <= HostStage
            BY StageBounds
          <6>3. HostStage \in Nat /\ Stage(op', rsp[j].detail) \in Nat
            BY <2>2, <5>1 DEF StageTable, Stage
          <6> QED
            BY <6>1, <6>2, <6>3
        <5> QED
          BY <3>1, <5>2, <5>3 DEF ReplyKind
      <4> QED
        BY <4>1, <4>2
    <3>4. ASSUME NEW i \in 1 .. Len(req') PROVE FrameKind(i)' = "other"
      BY <3>1 DEF FrameKind
    <3> QED
      BY <1>0, <2>1, <3>3, <3>4, FreshBudget
  <2> QED
    BY <2>4, <2>5
<1> QED
  BY <1>2, <1>3, <1>4

-----------------------------------------------------------------------------
(* A frame is lost, or a DATA frame arrives.                               *)

\* A frame has left the pipeline: R is what was left of it, before the frames
\* behind it are looked at again.
Remains(base, l, R, a, e, n) ==
  /\ base \in Nat /\ l \in Nat
  /\ Len(rsp) = base /\ Len(req) = l + 1 /\ Len(req') = l /\ Size' = base + l
  /\ Bill(R, base + l, Spoilt, a, e, n)
  /\ a[1] \in Nat /\ e[1] \in Nat /\ n[1] \in Nat
  /\ attempt + (IF op = "block_begin" THEN a[1] ELSE e[1])
       + (IF Hopeful THEN 0 ELSE 1) <= faults
  /\ op \in BlockOps =>
       n[1] <= attempt + (IF op = "block_begin" /\ Waits THEN 1 ELSE 0)
  /\ \A i \in 1 .. base : Pipe'[i] = R[i]
  /\ \A j \in 1 .. l : Pipe'[base + j] = FrameKind(j)' /\ R[base + j] = FrameKind(j + 1)

LEMMA LostPipe ==
  ASSUME TypeOK, TypeOK', WithinBudget, faults \in Nat, Answers, rsp' = rsp
  PROVE  \E base, l, R, a, e, n : Remains(base, l, R, a, e, n)
<1>1. PICK base \in Nat, l \in Nat :
        Len(rsp) = base /\ Len(req) = l + 1 /\ Len(req') = l
  <2>1. Len(req) \in Nat \ {0} /\ Len(req') = Len(req) - 1 /\ Len(rsp) \in Nat
    BY AnswersFacts
  <2>2. Len(req) - 1 \in Nat /\ Len(req) = (Len(req) - 1) + 1
    BY <2>1
  <2> QED
    BY <2>1, <2>2
<1>2. PipeTable /\ PipeTable'
  BY PipeAt, PipeAtNext
<1>3. Size = base + l + 1 /\ Size' = base + l
  BY <1>1, <1>2 DEF PipeTable
<1>4. UNCHANGED <<op, block, cap>>
  BY AnswersFacts
<1>5. PICK a, e, n :
           /\ Bill(Pipe, Size, Spoilt, a, e, n)
           /\ a[1] \in Nat /\ e[1] \in Nat /\ n[1] \in Nat /\ a[1] <= e[1]
           /\ attempt + (IF op = "block_begin" THEN a[1] ELSE e[1])
                + (IF Hopeful THEN 0 ELSE 1) <= faults
           /\ op \in BlockOps =>
                n[1] <= attempt + (IF op = "block_begin" /\ Waits THEN 1 ELSE 0)
  BY BudgetNow
<1> DEFINE R == [i \in 1 .. base + l |-> IF i < base + 1 THEN Pipe[i] ELSE Pipe[i + 1]]
<1>6. base + 1 \in 1 .. Size /\ Size \in Nat \ {0} /\ Size - 1 = base + l
  BY <1>3
<1>7. Without(Pipe, R, Size, base + 1)
  BY <1>6 DEF Without
<1>8. \A i \in 1 .. base : i \in 1 .. base + l /\ R[i] = Pipe[i]
  OBVIOUS
<1>9. \A j \in 1 .. l : R[base + j] = Pipe[base + (j + 1)]
  <2> SUFFICES ASSUME NEW j \in 1 .. l PROVE R[base + j] = Pipe[base + (j + 1)]
    OBVIOUS
  <2>1. base + j \in 1 .. base + l /\ ~(base + j < base + 1) /\ (base + j) + 1 = base + (j + 1)
    OBVIOUS
  <2> QED
    BY <2>1
<1> HIDE DEF R
<1>10. PICK b, f, m : /\ Bill(R, base + l, Spoilt, b, f, m)
                      /\ b[1] <= a[1] /\ f[1] <= e[1] /\ m[1] <= n[1]
  BY <1>5, <1>6, <1>7, BillDrop
<1>11. b[1] \in Nat /\ f[1] \in Nat /\ m[1] \in Nat
  <2>1. base + l \in Nat /\ 1 \in 1 .. (base + l) + 1
    OBVIOUS
  <2> QED
    BY <1>10, <2>1, BillFacts
<1>12. \A i \in 1 .. base : Pipe'[i] = R[i]
  <2> SUFFICES ASSUME NEW i \in 1 .. base PROVE Pipe'[i] = R[i]
    OBVIOUS
  <2>1. ReplyKind(rsp[i])' = ReplyKind(rsp[i])
    BY <1>4, RepliesAlike
  <2> QED
    BY <1>1, <1>2, <1>8, <2>1 DEF PipeTable
<1>13. \A j \in 1 .. l : Pipe'[base + j] = FrameKind(j)' /\ R[base + j] = FrameKind(j + 1)
  <2> SUFFICES ASSUME NEW j \in 1 .. l
               PROVE  Pipe'[base + j] = FrameKind(j)' /\ R[base + j] = FrameKind(j + 1)
    OBVIOUS
  <2>1. Pipe'[base + j] = FrameKind(j)'
    BY <1>1, <1>2 DEF PipeTable
  <2>2. PICK k \in 1 .. l + 1 : k = j + 1
    OBVIOUS
  <2>3. Pipe[base + k] = FrameKind(k)
    BY <1>1, <1>2, <2>2 DEF PipeTable
  <2> QED
    BY <1>9, <2>1, <2>2, <2>3
<1>14. attempt + (IF op = "block_begin" THEN b[1] ELSE f[1])
         + (IF Hopeful THEN 0 ELSE 1) <= faults
  <2>1. attempt \in Nat
    BY FrameTypes
  <2>2. CASE op = "block_begin" /\ Hopeful
    BY <1>5, <1>10, <1>11, <2>1, <2>2
  <2>3. CASE op # "block_begin" /\ Hopeful
    BY <1>5, <1>10, <1>11, <2>1, <2>3
  <2>4. CASE op = "block_begin" /\ ~Hopeful
    <3>1. attempt + a[1] + 1 <= faults
      BY <1>5, <2>4
    <3> QED
      BY <1>5, <1>10, <1>11, <2>1, <2>4, <3>1
  <2>5. CASE op # "block_begin" /\ ~Hopeful
    <3>1. attempt + e[1] + 1 <= faults
      BY <1>5, <2>5
    <3> QED
      BY <1>5, <1>10, <1>11, <2>1, <2>5, <3>1
  <2> QED
    BY <2>2, <2>3, <2>4, <2>5
<1>15. op \in BlockOps =>
         m[1] <= attempt + (IF op = "block_begin" /\ Waits THEN 1 ELSE 0)
  BY <1>5, <1>10, <1>11, FrameTypes
<1>16. Remains(base, l, R, b, f, m)
  BY <1>1, <1>3, <1>10, <1>11, <1>12, <1>13, <1>14, <1>15 DEF Remains
<1> QED
  BY <1>16

\* Frames that stay on their way: only an end of the block can get worse.
LEMMA FramesStay ==
  ASSUME TypeOK, Answers
  PROVE  /\ UNCHANGED <<op, block, sequence, attempt, cap, pc>> /\ Waits' = Waits
         /\ \A j \in 1 .. Len(req') :
              /\ j + 1 \in 1 .. Len(req) /\ req'[j] = req[j + 1]
              /\ \/ NoWorse(FrameKind(j)', FrameKind(j + 1))
                 \/ /\ FrameKind(j)' = "refusal" /\ op \in BlockOps
                    /\ Refusable(j)' /\ ~Sound'
              /\ FrameKind(j)' \in {"good", "bad"} =>
                   req'[j].cmd = "block_begin" /\ op \in BlockOps
              /\ req[j + 1].cmd = "block_begin" => NoWorse(FrameKind(j)', FrameKind(j + 1))
<1>1. /\ UNCHANGED <<op, block, sequence, attempt, cap, pc>>
      /\ \A j \in 1 .. Len(req') : req'[j] = req[j + 1] /\ j + 1 \in 1 .. Len(req)
  BY AnswersFacts
<1>2. ASSUME NEW j \in 1 .. Len(req')
      PROVE  /\ \/ NoWorse(FrameKind(j)', FrameKind(j + 1))
                \/ /\ FrameKind(j)' = "refusal" /\ op \in BlockOps
                   /\ Refusable(j)' /\ ~Sound'
             /\ FrameKind(j)' \in {"good", "bad"} =>
                  req'[j].cmd = "block_begin" /\ op \in BlockOps
             /\ req[j + 1].cmd = "block_begin" => NoWorse(FrameKind(j)', FrameKind(j + 1))
  <2>1. PICK k : k = j + 1
    OBVIOUS
  <2>2. req'[j] = req[k]
    BY <1>1, <2>1
  <2>3. CASE op \in BlockOps /\ Refusable(j)' /\ ~Sound'
    <3>1. FrameKind(j)' = "refusal" /\ req[k].cmd # "block_begin"
      BY <1>1, <2>2, <2>3 DEF FrameKind, Refusable
    <3> QED
      BY <2>1, <2>3, <3>1
  <2>4. CASE op \notin BlockOps
    <3>1. FrameKind(j)' = "other"
      BY <1>1, <2>4 DEF FrameKind
    <3> QED
      BY <3>1 DEF NoWorse
  <2>5. CASE op \in BlockOps /\ ~(Refusable(j)' /\ ~Sound')
    <3>1. NoWorse(FrameKind(j)', FrameKind(k))
      BY <1>1, <2>2, <2>5, FramesAlike
    <3>2. FrameKind(j)' \in {"good", "bad"} => req'[j].cmd = "block_begin"
      BY <1>1, <2>5 DEF FrameKind
    <3> QED
      BY <2>1, <2>5, <3>1, <3>2
  <2> QED
    BY <2>3, <2>4, <2>5
<1>3. Waits' = Waits
  BY <1>1 DEF Waits
<1> QED
  BY <1>1, <1>2, <1>3

\* A step that costs nothing.
LEMMA EasedBudget ==
  ASSUME TypeOK, Answers, faults \in Nat, faults' \in Nat,
         NEW base, NEW l, NEW R, NEW a, NEW e, NEW n, Remains(base, l, R, a, e, n),
         \A j \in 1 .. l : NoWorse(FrameKind(j)', FrameKind(j + 1)),
         Spoilt' => Spoilt,
         \/ faults <= faults' /\ (Hopeful => Hopeful')
         \/ faults' = faults + 1
  PROVE  WithinBudget'
<1>0. base \in Nat /\ l \in Nat /\ Size' = base + l
  BY DEF Remains
<1>1. /\ base \in Nat /\ l \in Nat /\ base + l \in Nat /\ Size' = base + l
      /\ Bill(R, base + l, Spoilt, a, e, n)
      /\ a[1] \in Nat /\ e[1] \in Nat /\ n[1] \in Nat
      /\ attempt + (IF op = "block_begin" THEN a[1] ELSE e[1])
           + (IF Hopeful THEN 0 ELSE 1) <= faults
      /\ op \in BlockOps =>
           n[1] <= attempt + (IF op = "block_begin" /\ Waits THEN 1 ELSE 0)
      /\ \A i \in 1 .. base : Pipe'[i] = R[i]
      /\ \A j \in 1 .. l : Pipe'[base + j] = FrameKind(j)' /\ R[base + j] = FrameKind(j + 1)
  BY <1>0 DEF Remains
<1>2. UNCHANGED <<op, attempt>> /\ Waits' = Waits /\ attempt \in Nat
  BY FramesStay, FrameTypes
<1>3. ASSUME NEW i \in 1 .. base + l PROVE NoWorse(Pipe'[i], R[i])
  <2>1. CASE i \in 1 .. base
    BY <1>1, <2>1 DEF NoWorse
  <2>2. CASE i \notin 1 .. base
    <3>1. i - base \in 1 .. l /\ base + (i - base) = i
      BY <1>1, <2>2
    <3>2. PICK j \in 1 .. l : base + j = i
      BY <3>1
    <3> QED
      BY <1>1, <3>2
  <2> QED
    BY <2>1, <2>2
<1>4. Bill(Pipe', base + l, Spoilt', a, e, n)
  BY <1>1, <1>3, BillEased
<1>5. Bill(Pipe', Size', Spoilt', a, e, n)
  BY <1>1, <1>4
<1>6. attempt' + (IF op' = "block_begin" THEN a[1] ELSE e[1])
           + (IF Hopeful' THEN 0 ELSE 1) <= faults'
  <2>1. CASE faults <= faults' /\ (Hopeful => Hopeful')
    BY <1>1, <1>2, <2>1
  <2>2. CASE faults' = faults + 1
    <3>1. attempt + (IF op = "block_begin" THEN a[1] ELSE e[1]) <= faults
      BY <1>1, <1>2
    <3> QED
      BY <1>1, <1>2, <2>2, <3>1
  <2> QED
    BY <2>1, <2>2
<1> QED
  BY <1>1, <1>2, <1>5, <1>6, BudgetNext

\* A DATA frame is taken as the bootloader expects it, or not expected at all.
LEMMA DataSound ==
  ASSUME TransferInv, Orderly, run = 1, DeviceData, op \in BlockOps,
         \/ \E j \in 1 .. Len(req') : Refusable(j)'
         \/ Lead(req', Len(req') + 1) /\ (op = "block_end" => ~Waits),
         Sound
  PROVE  Sound'
<1>1. /\ TypeOK /\ Answers /\ req # <<>> /\ req' = Tail(req)
      /\ Head(req) = req[1] /\ 1 \in 1 .. Len(req)
  BY DeviceAnswers, QueueTail DEF TransferInv, DeviceData, TypeOK
<1>2. /\ UNCHANGED <<op, block, sequence, attempt, cap, pc>>
      /\ Len(req) \in Nat \ {0} /\ Len(req') = Len(req) - 1
      /\ \A j \in 1 .. Len(req') : req'[j] = req[j + 1] /\ j + 1 \in 1 .. Len(req)
  BY <1>1, AnswersFacts
<1>3. block \in Nat /\ block < ImageSize /\ ImageSize \in Nat /\ Frames(block) \in Nat
      /\ dev.open \in Nat /\ dev.got \in Nat /\ req[1].index \in Nat /\ sequence \in Nat
  BY <1>1, BlockPhase, FrameTypes
<1>4. dev.open = block /\ dev.got >= req[1].index /\ req[1].cmd = "data"
  BY <1>1 DEF Sound, Position, DeviceData
<1>5. /\ req[1].block = block /\ dev.got <= Frames(block) /\ req[1].index < Frames(block)
  BY <1>1, <1>4 DEF Orderly, Held, PiecesOK
<1>6. dev'.open = block /\ dev'.got \in Nat /\ dev'.got >= req[1].index + 1
  <2>1. dev \in DevSet
    BY <1>1 DEF TypeOK
  <2>2. CASE req[1].index = dev.got
    <3>1. dev' = [dev EXCEPT !.got = @ + 1,
                     !.from = @ \cup {[image |-> req[1].image, block |-> req[1].block]}]
      <4>1. /\ dev.open # NoBlock /\ Head(req).index = dev.got
            /\ dev.got < Frames(dev.open)
        BY <1>1, <1>3, <1>4, <1>5, <2>2 DEF NoBlock
      <4> QED
        BY <1>1, <4>1 DEF DeviceData
    <3>2. dev'.open = dev.open /\ dev'.got = dev.got + 1
      BY <2>1, <3>1 DEF DevSet
    <3> QED
      BY <1>3, <1>4, <2>2, <3>2
  <2>3. CASE req[1].index # dev.got
    <3>1. dev' = dev
      BY <1>1, <2>3 DEF DeviceData
    <3> QED
      BY <1>3, <1>4, <2>3, <3>1
  <2> QED
    BY <2>2, <2>3
<1>7. Frames(block)' = Frames(block) /\ block' = block /\ op' = op
  BY <1>2 DEF Frames
<1>8. CASE req' # <<>>
  <2>1. 1 \in 1 .. Len(req') /\ req'[1] = req[2] /\ 2 \in 1 .. Len(req)
    <3>1. req' \in Seq(FrameSet)
      BY <1>1, QueueTail DEF TypeOK
    <3> QED
      BY <1>2, <1>8, <3>1, QueueTail
  <2>2. Successor(req[1], req'[1])
    BY <1>1, <2>1 DEF Orderly, Adjacent
  <2>3. req'[1].cmd # "block_begin"
    <3>1. ASSUME NEW j \in 1 .. Len(req'), Refusable(j)' PROVE req'[1].cmd # "block_begin"
      <4>1. req'[j].cmd = "block_end" /\ \A i \in 1 .. j - 1 : req'[i].cmd = "data"
        BY <3>1 DEF Refusable, Lead
      <4> QED
        BY <4>1
    <3>2. Lead(req', Len(req') + 1) => req'[1].cmd = "data"
      BY <1>2, <2>1 DEF Lead
    <3> QED
      BY <3>1, <3>2
  <2>4. CASE req'[1].cmd = "data"
    <3>1. req'[1].index = req[1].index + 1
      BY <1>4, <2>2, <2>4 DEF Successor
    <3>2. Position' = req'[1].index
      BY <1>8, <2>4 DEF Position
    <3> QED
      BY <1>6, <1>7, <3>1, <3>2 DEF Sound
  <2>5. CASE req'[1].cmd # "data"
    <3>1. req[1].index + 1 = Frames(block)
      BY <1>4, <1>5, <2>2, <2>3, <2>5 DEF Successor
    <3>2. Position' = Frames(block)
      BY <1>7, <1>8, <2>5 DEF Position
    <3> QED
      BY <1>6, <1>7, <3>1, <3>2 DEF Sound
  <2> QED
    BY <2>4, <2>5
<1>9. CASE req' = <<>>
  <2>1. Len(req') = 0 /\ Len(req) = 1 /\ ~(\E j \in 1 .. Len(req') : Refusable(j)')
    <3>1. Len(req') = 0
      BY <1>9
    <3>2. ~(\E j \in 1 .. Len(req') : Refusable(j)')
      BY <3>1
    <3> QED
      BY <1>2, <3>1, <3>2
  <2>2. req[Len(req)].cmd = "data" /\ (op = "block_end" => ~Waits)
    BY <1>4, <2>1
  <2>3. CASE op = "block_begin"
    <3>1. Position' = 0
      BY <1>7, <1>9, <2>3 DEF Position
    <3> QED
      BY <1>6, <1>7, <3>1 DEF Sound
  <2>4. CASE op = "data"
    <3>1. req[1].index + 1 = sequence
      BY <1>1, <2>1, <2>2, <2>4 DEF Orderly, LastSent
    <3>2. Position' = sequence
      BY <1>2, <1>7, <1>9, <2>4 DEF Position
    <3> QED
      BY <1>6, <1>7, <3>1, <3>2 DEF Sound
  <2>5. CASE op = "block_end"
    <3>1. req[1].index + 1 = Frames(block)
      BY <1>1, <2>1, <2>2, <2>5 DEF Orderly, LastSent
    <3>2. Position' = Frames(block)
      BY <1>7, <1>9, <2>5 DEF Position
    <3> QED
      BY <1>6, <1>7, <3>1, <3>2 DEF Sound
  <2> QED
    BY <2>3, <2>4, <2>5 DEF BlockOps
<1> QED
  BY <1>8, <1>9

\* A DATA frame arrives.
LEMMA DataBudget ==
  ASSUME TransferInv, TypeOK', Orderly, WithinBudget, run = 1, pc \in {"send", "top", "poll"},
         faults \in Nat, faults' \in Nat, faults <= faults', DeviceData
  PROVE  WithinBudget'
<1>1. TypeOK /\ Answers /\ rsp' = rsp /\ req[1].cmd = "data" /\ 1 \in 1 .. Len(req)
      /\ req # <<>>
  BY DeviceAnswers, QueueTail DEF TransferInv, DeviceData, TypeOK
<1>2. PICK base, l, R, a, e, n : Remains(base, l, R, a, e, n)
  BY <1>1, LostPipe
<1>3. l \in Nat /\ Len(req) = l + 1 /\ Len(req') = l
  BY <1>2 DEF Remains
<1>4. /\ UNCHANGED <<op, block, sequence, attempt, cap, pc>> /\ Waits' = Waits
      /\ \A j \in 1 .. Len(req') :
           /\ j + 1 \in 1 .. Len(req) /\ req'[j] = req[j + 1]
           /\ \/ NoWorse(FrameKind(j)', FrameKind(j + 1))
              \/ /\ FrameKind(j)' = "refusal" /\ op \in BlockOps
                 /\ Refusable(j)' /\ ~Sound'
  BY <1>1, FramesStay
<1>5. ASSUME NEW k \in Nat, k <= l + 1 PROVE Lead(req', k) => Lead(req, k + 1)
  <2> SUFFICES ASSUME Lead(req', k), NEW i \in 1 .. k + 1 - 1 PROVE req[i].cmd = "data"
    BY DEF Lead
  <2>1. CASE i = 1
    BY <1>1, <2>1
  <2>2. CASE i # 1
    <3>1. PICK h \in 1 .. k - 1 : h + 1 = i
      <4>1. i - 1 \in 1 .. k - 1 /\ i - 1 + 1 = i
        BY <2>2
      <4> QED
        BY <4>1
    <3>2. h \in 1 .. Len(req') /\ req'[h].cmd = "data"
      BY <1>3, <1>5, <3>1 DEF Lead
    <3> QED
      BY <1>4, <3>1, <3>2
  <2> QED
    BY <2>1, <2>2
<1>6. ASSUME NEW j \in 1 .. l PROVE NoWorse(FrameKind(j)', FrameKind(j + 1))
  <2>1. CASE op \in BlockOps /\ Refusable(j)' /\ ~Sound'
    <3>1. ~Sound
      BY <1>1, <1>3, <2>1, DataSound
    <3>2. PICK k \in Nat : k = j + 1
      BY <1>3
    <3>3. req'[j] = req[k]
      BY <1>3, <1>4, <3>2
    <3>4. Lead(req, k)
      <4>1. Lead(req', j)
        BY <2>1 DEF Refusable
      <4> QED
        BY <1>3, <1>5, <3>2, <4>1
    <3>5. Refusable(k)
      BY <1>4, <2>1, <3>3, <3>4 DEF Refusable
    <3>6. FrameKind(k) = "refusal"
      BY <2>1, <3>1, <3>5 DEF FrameKind, Refusable
    <3>7. FrameKind(j)' = "refusal"
      BY <1>4, <2>1 DEF FrameKind, Refusable
    <3> QED
      BY <3>2, <3>6, <3>7 DEF NoWorse
  <2>2. CASE ~(op \in BlockOps /\ Refusable(j)' /\ ~Sound')
    BY <1>3, <1>4, <2>2
  <2> QED
    BY <2>1, <2>2
<1>7. Spoilt' => Spoilt
  <2> SUFFICES ASSUME Spoilt' PROVE Spoilt
    OBVIOUS
  <2>1. /\ op \in BlockOps /\ Lead(req', Len(req') + 1) /\ ~Sound'
        /\ op = "block_end" => ~Waits
        /\ \/ op = "block_begin" /\ Waits
           \/ op = "data"
           \/ op = "block_end" /\ ~Waits
    BY <1>4 DEF Spoilt, BlockOps
  <2>2. ~Sound
    BY <1>1, <2>1, DataSound
  <2>3. PICK k \in Nat : k = l + 1
    BY <1>3
  <2>4. Lead(req, k + 1)
    BY <1>3, <1>5, <2>1, <2>3
  <2> QED
    BY <1>3, <2>1, <2>2, <2>3, <2>4 DEF Spoilt
<1>8. Hopeful => Hopeful'
  <2>1. CASE pc = "send"
    BY <1>4, <2>1 DEF Hopeful
  <2>2. CASE pc # "send"
    <3>1. op # "data"
      BY <2>2 DEF Orderly, PiecesOK
    <3>2. ASSUME NEW i \in 1 .. Len(req), req[i].cmd = op PROVE Hopeful'
      <4>1. i # 1
        BY <1>1, <3>1, <3>2
      <4>2. i - 1 \in 1 .. Len(req') /\ i - 1 + 1 = i
        BY <1>3, <4>1
      <4>3. PICK j \in 1 .. Len(req') : j + 1 = i
        BY <4>2
      <4>4. req'[j].cmd = op'
        BY <1>4, <3>2, <4>3
      <4> QED
        BY <4>4 DEF Hopeful
    <3>3. ASSUME NEW i \in 1 .. Len(rsp), rsp[i].cmd = op, op \in CapabilityPages => rsp[i].ok
          PROVE  Hopeful'
      BY <1>1, <1>4, <3>3 DEF Hopeful
    <3> QED
      BY <2>2, <3>2, <3>3 DEF Hopeful
  <2> QED
    BY <2>1, <2>2
<1> QED
  BY <1>1, <1>2, <1>6, <1>7, <1>8, EasedBudget

LEMMA LeadNext ==
  ASSUME NEW q, NEW j \in Int
  PROVE  /\ Lead(q, j + 1) => Lead(q, j)
         /\ j >= 1 /\ Lead(q, j + 1) => q[j].cmd = "data"
         /\ j <= 1 => Lead(q, j)
BY DEF Lead

\* The first k items of the next pipeline move the worker in no direction.
Beginless(k) == \A i \in 1 .. k : Pipe'[i] \notin {"good", "bad"}

\* The frames that stay get worse, and every reply before them may cost one
\* attempt more: the fault that happened.
LEMMA FramesRaised ==
  ASSUME TypeOK, Answers, NEW base, NEW l, NEW R, NEW T, NEW U,
         U = {i \in 1 .. base + l + 1 : Lead(req', i - base)},
         T # U => T = {} /\ Beginless(base + l),
         NEW a, NEW e, NEW n, Remains(base, l, R, a, e, n)
  PROVE  /\ Raised(R, Pipe', base + l, T, U)
         /\ Spoilt' => base + l + 1 \in U
         /\ 1 \in U
<1>0. /\ base \in Nat /\ l \in Nat /\ l = Len(req')
      /\ \A i \in 1 .. base : Pipe'[i] = R[i]
      /\ \A j \in 1 .. l : Pipe'[base + j] = FrameKind(j)' /\ R[base + j] = FrameKind(j + 1)
  BY DEF Remains
<1> USE <1>0
<1>1. \A i \in 1 .. base + l : /\ i \in 1 .. base + l + 1 /\ i + 1 \in 1 .. base + l + 1
                               /\ i - base \in Int /\ i + 1 - base = (i - base) + 1
  OBVIOUS
<1>2. T \subseteq U /\ U \subseteq 1 .. base + l + 1
  OBVIOUS
<1>3. \A i \in 1 .. base + l : (i + 1 \in U => i \in U) /\ (i + 1 \in T => i \in T)
  <2> SUFFICES ASSUME NEW i \in 1 .. base + l, i + 1 \in U PROVE i \in U
    BY <1>1
  <2>1. Lead(req', (i - base) + 1)
    BY <1>1
  <2>2. Lead(req', i - base)
    BY <1>1, <2>1, LeadNext
  <2> QED
    BY <1>1, <2>2
<1>4. ASSUME NEW i \in 1 .. base + l
      PROVE  NoWorse(Pipe'[i], R[i]) \/ (Pipe'[i] = "refusal" /\ i \in U /\ i + 1 \notin U)
  <2>1. CASE i \in 1 .. base
    BY <2>1 DEF NoWorse
  <2>2. CASE i \notin 1 .. base
    <3>1. i - base \in 1 .. l /\ base + (i - base) = i
      BY <2>2
    <3>2. PICK j \in 1 .. l : base + j = i /\ j = i - base
      BY <3>1
    <3>3. Pipe'[i] = FrameKind(j)' /\ R[i] = FrameKind(j + 1)
      BY <3>2
    <3>4. \/ NoWorse(FrameKind(j)', FrameKind(j + 1))
          \/ FrameKind(j)' = "refusal" /\ Refusable(j)'
      BY FramesStay
    <3>5. ASSUME Refusable(j)' PROVE i \in U /\ i + 1 \notin U
      <4>1. Lead(req', j) /\ req'[j].cmd # "data"
        BY <3>5 DEF Refusable
      <4>2. ~Lead(req', j + 1)
        BY <4>1, LeadNext
      <4>3. i + 1 - base = j + 1
        BY <3>2
      <4> QED
        BY <1>1, <3>2, <4>1, <4>2, <4>3
    <3> QED
      BY <3>3, <3>4, <3>5
  <2> QED
    BY <2>1, <2>2
<1>5. \A i \in 1 .. base + l : i \in U \ T => Pipe'[i] \notin {"good", "bad"}
  BY DEF Beginless
<1>6. Raised(R, Pipe', base + l, T, U)
  BY <1>2, <1>3, <1>4, <1>5 DEF Raised
<1>7. Spoilt' => base + l + 1 \in U
  <2>1. Spoilt' => Lead(req', l + 1)
    BY DEF Spoilt
  <2>2. base + l + 1 \in 1 .. base + l + 1 /\ base + l + 1 - base = l + 1
    OBVIOUS
  <2> QED
    BY <2>1, <2>2
<1>8. 1 \in U
  <2>1. 1 \in 1 .. base + l + 1 /\ 1 - base \in Int /\ 1 - base <= 1
    OBVIOUS
  <2> QED
    BY <2>1, LeadNext
<1> QED
  BY <1>6, <1>7, <1>8

\* A frame is lost.
LEMMA LossBudget ==
  ASSUME TransferInv, TypeOK', Orderly, WithinBudget, run = 1, pc \in {"send", "top", "poll"},
         faults \in Nat, faults' = faults + 1, Answers, rsp' = rsp
  PROVE  WithinBudget'
<1>1. TypeOK /\ attempt \in Nat
  BY FrameTypes DEF TransferInv
<1>2. PICK base, l, R, a, e, n : Remains(base, l, R, a, e, n)
  BY <1>1, LostPipe
<1>3. base \in Nat /\ l \in Nat /\ Len(rsp) = base /\ Len(req') = l /\ Size' = base + l
  BY <1>2 DEF Remains
<1>4. /\ UNCHANGED <<op, block, sequence, attempt, cap, pc>> /\ Waits' = Waits
      /\ \A j \in 1 .. Len(req') :
           /\ \/ NoWorse(FrameKind(j)', FrameKind(j + 1))
              \/ FrameKind(j)' = "refusal" /\ op \in BlockOps /\ Refusable(j)'
           /\ FrameKind(j)' \in {"good", "bad"} =>
                req'[j].cmd = "block_begin" /\ op \in BlockOps
  BY <1>1, FramesStay
<1>5. /\ Bill(R, base + l, Spoilt, a, e, n)
      /\ a[1] \in Nat /\ e[1] \in Nat /\ n[1] \in Nat
      /\ attempt + (IF op = "block_begin" THEN a[1] ELSE e[1])
           + (IF Hopeful THEN 0 ELSE 1) <= faults
      /\ op \in BlockOps =>
           n[1] <= attempt + (IF op = "block_begin" /\ Waits THEN 1 ELSE 0)
      /\ \A i \in 1 .. base : Pipe'[i] = R[i]
      /\ \A j \in 1 .. l : Pipe'[base + j] = FrameKind(j)' /\ R[base + j] = FrameKind(j + 1)
  BY <1>2 DEF Remains
<1>6. PICK U : U = {i \in 1 .. base + l + 1 : Lead(req', i - base)}
  OBVIOUS
<1>7. CASE Hopeful'
  <2>0. PICK T : T = U
    OBVIOUS
  <2>6. Raised(R, Pipe', base + l, T, U) /\ (Spoilt' => base + l + 1 \in U) /\ 1 \in U
    BY <1>1, <1>2, <1>3, <1>6, <2>0, FramesRaised
  <2>1. Raised(R, Pipe', base + l, U, U) /\ (Spoilt' => base + l + 1 \in U) /\ 1 \in U
    BY <2>0, <2>6
  <2>2. PICK b, f : /\ Bill(Pipe', base + l, Spoilt', b, f, n)
                    /\ b[1] = (IF 1 \in U THEN a[1] + 1 ELSE a[1])
                    /\ f[1] = (IF 1 \in U THEN e[1] + 1 ELSE e[1])
    <3>1. base + l \in Nat
      BY <1>3
    <3> QED
      BY <1>5, <2>1, <3>1, BillRaised
  <2>3. b[1] = a[1] + 1 /\ f[1] = e[1] + 1
    BY <2>1, <2>2
  <2>4. Bill(Pipe', Size', Spoilt', b, f, n)
    BY <1>3, <2>2
  <2>5. attempt' + (IF op' = "block_begin" THEN b[1] ELSE f[1])
             + (IF Hopeful' THEN 0 ELSE 1) <= faults'
    <3>1. attempt + (IF op = "block_begin" THEN a[1] ELSE e[1]) <= faults
      BY <1>1, <1>5
    <3> QED
      BY <1>1, <1>4, <1>5, <1>7, <2>3, <3>1
  <2> QED
    BY <1>4, <1>5, <2>4, <2>5, BudgetNext
<1>8. CASE ~Hopeful' /\ op = "block_begin"
  <2>1. Beginless(base + l)
    <3> SUFFICES ASSUME NEW i \in 1 .. base + l PROVE Pipe'[i] \notin {"good", "bad"}
      BY DEF Beginless
    <3>1. CASE i \in 1 .. base
      <4>1. Pipe'[i] = ReplyKind(rsp[i])' /\ i \in 1 .. Len(rsp')
        BY <1>3, <3>1, PipeAtNext DEF PipeTable
      <4>2. rsp'[i].cmd # "block_begin"
        BY <1>4, <1>8, <4>1 DEF Hopeful, CapabilityPages
      <4> QED
        BY <4>1, <4>2 DEF ReplyKind
    <3>2. CASE i \notin 1 .. base
      <4>1. i - base \in 1 .. l /\ base + (i - base) = i
        BY <1>3, <3>2
      <4>2. PICK j \in 1 .. l : base + j = i
        BY <4>1
      <4>3. req'[j].cmd # "block_begin"
        BY <1>3, <1>4, <1>8 DEF Hopeful
      <4> QED
        BY <1>3, <1>4, <1>5, <4>2, <4>3
    <3> QED
      BY <3>1, <3>2
  <2>2. Raised(R, Pipe', base + l, {}, U) /\ (Spoilt' => base + l + 1 \in U)
    BY <1>1, <1>2, <1>6, <2>1, FramesRaised
  <2>3. PICK b, f : /\ Bill(Pipe', base + l, Spoilt', b, f, n)
                    /\ b[1] = (IF 1 \in {} THEN a[1] + 1 ELSE a[1])
    <3>1. base + l \in Nat
      BY <1>3
    <3> QED
      BY <1>5, <2>2, <3>1, BillRaised
  <2>4. b[1] = a[1]
    BY <2>3
  <2>5. Bill(Pipe', Size', Spoilt', b, f, n)
    BY <1>3, <2>3
  <2>6. attempt' + (IF op' = "block_begin" THEN b[1] ELSE f[1])
             + (IF Hopeful' THEN 0 ELSE 1) <= faults'
    <3>1. attempt + a[1] <= faults
      BY <1>1, <1>5, <1>8
    <3> QED
      BY <1>1, <1>4, <1>5, <1>8, <2>4, <3>1
  <2> QED
    BY <1>4, <1>5, <2>5, <2>6, BudgetNext
<1>9. CASE ~Hopeful' /\ op # "block_begin"
  <2>1. pc # "send" /\ Waits
    BY <1>4, <1>9 DEF Hopeful, Waits
  <2>2. op # "data"
    BY <2>1 DEF Orderly, PiecesOK
  <2>3. ~Spoilt'
    BY <1>4, <1>9, <2>1, <2>2 DEF Spoilt
  <2>4. ASSUME NEW j \in 1 .. l PROVE NoWorse(FrameKind(j)', FrameKind(j + 1))
    <3>1. op \in BlockOps => op = "block_end"
      BY <1>9, <2>2 DEF BlockOps
    <3>2. req'[j].cmd # op
      BY <1>3, <1>4, <1>9 DEF Hopeful
    <3>3. ~(op \in BlockOps /\ Refusable(j)')
      BY <3>1, <3>2 DEF Refusable
    <3> QED
      BY <1>3, <1>4, <3>3
  <2> QED
    BY <1>1, <1>2, <2>3, <2>4, EasedBudget
<1> QED
  BY <1>7, <1>8, <1>9

-----------------------------------------------------------------------------
(* The bootloader answers.                                                 *)

LEMMA ReplyAlike ==
  ASSUME UNCHANGED <<op, block>>, NEW i, NEW r, rsp'[i] = r
  PROVE  ReplyKind(rsp[i])' = ReplyKind(r)
BY DEF ReplyKind

\* The frame at the head has been answered with r.
Returns(base, l, r, a, e, n) ==
  /\ base \in Nat /\ l \in Nat
  /\ Len(rsp) = base /\ Len(req) = l + 1 /\ Len(req') = l /\ Size' = base + 1 + l
  /\ Bill(Pipe, base + 1 + l, Spoilt, a, e, n)
  /\ a[1] \in Nat /\ e[1] \in Nat /\ n[1] \in Nat
  /\ attempt + (IF op = "block_begin" THEN a[1] ELSE e[1])
       + (IF Hopeful THEN 0 ELSE 1) <= faults
  /\ op \in BlockOps =>
       n[1] <= attempt + (IF op = "block_begin" /\ Waits THEN 1 ELSE 0)
  /\ \A i \in 1 .. base : Pipe'[i] = Pipe[i]
  /\ Pipe[base + 1] = FrameKind(1) /\ Pipe'[base + 1] = ReplyKind(r)
  /\ \A j \in 1 .. l : /\ Pipe'[base + 1 + j] = FrameKind(j)'
                       /\ Pipe[base + 1 + j] = FrameKind(j + 1)

LEMMA AnsweredPipe ==
  ASSUME TypeOK, TypeOK', WithinBudget, Answers, NEW r \in ReplySet,
         rsp' = Append(rsp, r)
  PROVE  \E base, l, a, e, n : Returns(base, l, r, a, e, n)
<1>1. PICK base \in Nat, l \in Nat :
        Len(rsp) = base /\ Len(req) = l + 1 /\ Len(req') = l
  <2>1. Len(req) \in Nat \ {0} /\ Len(req') = Len(req) - 1 /\ Len(rsp) \in Nat
    BY AnswersFacts
  <2>2. Len(req) - 1 \in Nat /\ Len(req) = (Len(req) - 1) + 1
    BY <2>1
  <2> QED
    BY <2>1, <2>2
<1>2. PipeTable /\ PipeTable'
  BY PipeAt, PipeAtNext
<1>3. /\ Len(rsp') = base + 1 /\ rsp'[base + 1] = r
      /\ \A i \in 1 .. base : rsp'[i] = rsp[i]
  BY <1>1, AppendFacts DEF TypeOK
<1>4. Size = base + 1 + l /\ Size' = base + 1 + l
  BY <1>1, <1>2, <1>3 DEF PipeTable
<1>5. UNCHANGED <<op, block, cap>>
  BY AnswersFacts
<1>6. PICK a, e, n :
           /\ Bill(Pipe, Size, Spoilt, a, e, n)
           /\ a[1] \in Nat /\ e[1] \in Nat /\ n[1] \in Nat /\ a[1] <= e[1]
           /\ attempt + (IF op = "block_begin" THEN a[1] ELSE e[1])
                + (IF Hopeful THEN 0 ELSE 1) <= faults
           /\ op \in BlockOps =>
                n[1] <= attempt + (IF op = "block_begin" /\ Waits THEN 1 ELSE 0)
  BY BudgetNow
<1>7. Bill(Pipe, base + 1 + l, Spoilt, a, e, n)
  BY <1>4, <1>6
<1>8. ASSUME NEW i \in 1 .. base PROVE Pipe'[i] = Pipe[i]
  <2>1. ReplyKind(rsp[i])' = ReplyKind(rsp[i])
    BY <1>3, <1>5, RepliesAlike
  <2>2. i \in 1 .. Len(rsp') /\ i \in 1 .. Len(rsp)
    BY <1>1, <1>3
  <2> QED
    BY <1>2, <2>1, <2>2 DEF PipeTable
<1>9. Pipe[base + 1] = FrameKind(1)
  <2>1. 1 \in 1 .. Len(req)
    BY <1>1
  <2> QED
    BY <1>1, <1>2, <2>1 DEF PipeTable
<1>10. Pipe'[base + 1] = ReplyKind(r)
  <2>1. PICK t : t = base + 1
    OBVIOUS
  <2>2. t \in 1 .. Len(rsp')
    BY <1>3, <2>1
  <2>3. Pipe'[t] = ReplyKind(rsp[t])'
    BY <1>2, <2>2 DEF PipeTable
  <2>4. ReplyKind(rsp[t])' = ReplyKind(r)
    BY <1>3, <1>5, <2>1, ReplyAlike
  <2> QED
    BY <2>1, <2>3, <2>4
<1>11. ASSUME NEW j \in 1 .. l
       PROVE  Pipe'[base + 1 + j] = FrameKind(j)' /\ Pipe[base + 1 + j] = FrameKind(j + 1)
  <2>1. Pipe'[base + 1 + j] = FrameKind(j)'
    BY <1>1, <1>2, <1>3 DEF PipeTable
  <2>2. PICK k \in 1 .. l + 1 : k = j + 1
    OBVIOUS
  <2>3. Pipe[base + k] = FrameKind(k)
    BY <1>1, <1>2, <2>2 DEF PipeTable
  <2>4. base + k = base + 1 + j
    BY <2>2
  <2> QED
    BY <2>1, <2>2, <2>3, <2>4
<1>12. Returns(base, l, r, a, e, n)
  BY <1>1, <1>4, <1>6, <1>7, <1>8, <1>9, <1>10, <1>11 DEF Returns
<1> QED
  BY <1>12

\* Behind a frame other than DATA and BLOCK_BEGIN there is nothing that the
\* open block could spoil.
LEMMA BehindControl ==
  ASSUME TransferInv, Orderly, Answers, req[1].cmd \notin {"data", "block_begin"}
  PROVE  /\ ~Spoilt'
         /\ \A j \in 1 .. Len(req') : NoWorse(FrameKind(j)', FrameKind(j + 1))
<1>1. TypeOK /\ 1 \in 1 .. Len(req) /\ req # <<>>
  BY AnswersFacts DEF TransferInv, Answers
<1>2. /\ UNCHANGED <<op, block, sequence, attempt, cap, pc>> /\ Waits' = Waits
      /\ \A j \in 1 .. Len(req') :
           /\ j + 1 \in 1 .. Len(req) /\ req'[j] = req[j + 1]
           /\ \/ NoWorse(FrameKind(j)', FrameKind(j + 1))
              \/ /\ FrameKind(j)' = "refusal" /\ op \in BlockOps
                 /\ Refusable(j)' /\ ~Sound'
  BY <1>1, FramesStay
<1>3. Len(req) \in Nat \ {0} /\ Len(req') = Len(req) - 1
  BY <1>1, AnswersFacts
<1>4. ASSUME 1 \in 1 .. Len(req') PROVE req'[1].cmd \notin {"data", "block_end"}
  <2>1. req'[1] = req[2] /\ 2 \in 1 .. Len(req)
    BY <1>2, <1>3, <1>4
  <2>2. Successor(req[1], req[2])
    BY <1>1, <2>1 DEF Orderly, Adjacent
  <2> QED
    BY <2>1, <2>2 DEF Successor
<1>5. ASSUME NEW j \in 1 .. Len(req') PROVE ~Refusable(j)'
  <2>1. 1 \in 1 .. Len(req') /\ (j # 1 => 1 \in 1 .. j - 1)
    BY <1>3
  <2> QED
    BY <1>4, <2>1 DEF Refusable, Lead
<1>6. ~Spoilt'
  <2>1. CASE Len(req') = 0
    <3>1. Len(req) = 1
      BY <1>3, <2>1
    <3> QED
      BY <1>1, <1>2, <3>1 DEF Orderly, LastSent, Spoilt
  <2>2. CASE Len(req') # 0
    <3>1. 1 \in 1 .. Len(req') + 1 - 1 /\ 1 \in 1 .. Len(req')
      BY <1>3, <2>2
    <3> QED
      BY <1>4, <3>1 DEF Spoilt, Lead
  <2> QED
    BY <2>1, <2>2
<1> QED
  BY <1>2, <1>5, <1>6

\* Behind a BLOCK_BEGIN that was obeyed comes what belongs to its block.
LEMMA BehindBegin ==
  ASSUME TransferInv, Orderly, Answers, op \in BlockOps,
         req[1].cmd = "block_begin", dev'.open = req[1].index, dev'.got = 0
  PROVE  /\ ~Spoilt'
         /\ \A j \in 1 .. Len(req') : NoWorse(FrameKind(j)', FrameKind(j + 1))
<1>1. TypeOK /\ 1 \in 1 .. Len(req) /\ req # <<>>
  BY AnswersFacts DEF TransferInv, Answers
<1>2. /\ UNCHANGED <<op, block, sequence, attempt, cap, pc>> /\ Waits' = Waits
      /\ \A j \in 1 .. Len(req') :
           /\ j + 1 \in 1 .. Len(req) /\ req'[j] = req[j + 1]
           /\ \/ NoWorse(FrameKind(j)', FrameKind(j + 1))
              \/ /\ FrameKind(j)' = "refusal" /\ op \in BlockOps
                 /\ Refusable(j)' /\ ~Sound'
  BY <1>1, FramesStay
<1>3. PICK l \in Nat : Len(req) = l + 1 /\ Len(req') = l
  <2>1. Len(req) \in Nat \ {0} /\ Len(req') = Len(req) - 1
    BY <1>1, AnswersFacts
  <2>2. Len(req) - 1 \in Nat /\ Len(req) = (Len(req) - 1) + 1
    BY <2>1
  <2> QED
    BY <2>1, <2>2
<1>4. ASSUME NEW j \in 1 .. l
      PROVE  req'[j] = req[j + 1] /\ j + 1 \in 1 .. l + 1
  BY <1>2, <1>3
<1>5. /\ op = "block_begin" /\ Waits =>
           req[l + 1].cmd = "block_begin" /\ req[l + 1].index = block
      /\ op = "data" =>
           \/ sequence = 0 /\ req[l + 1].cmd = "block_begin" /\ req[l + 1].index = block
           \/ req[l + 1].cmd = "data" /\ req[l + 1].block = block
      /\ op = "block_end" /\ ~Waits => req[l + 1].cmd = "data" /\ req[l + 1].block = block
  BY <1>1, <1>3 DEF Orderly, LastSent
<1>6. CASE req[1].index = block
  <2>1. 1 \in 1 .. l =>
          req'[1].cmd = "block_begin" \/ (req'[1].cmd = "data" /\ req'[1].index = 0)
    <3> SUFFICES ASSUME 1 \in 1 .. l
                 PROVE  \/ req'[1].cmd = "block_begin"
                        \/ req'[1].cmd = "data" /\ req'[1].index = 0
      OBVIOUS
    <3>1. req'[1] = req[2] /\ 2 \in 1 .. Len(req)
      BY <1>3, <1>4
    <3>2. Successor(req[1], req[2])
      BY <1>1, <3>1 DEF Orderly, Adjacent
    <3> QED
      BY <1>6, <3>1, <3>2 DEF Successor
  <2>2. Position' = 0 => Sound'
    BY <1>2, <1>6 DEF Sound
  <2>3. ASSUME NEW j \in 1 .. l, Refusable(j)' PROVE Sound'
    <3>1. 1 \in 1 .. l /\ req'[j].cmd = "block_end" /\ (j # 1 => 1 \in 1 .. j - 1)
      BY <1>3, <2>3 DEF Refusable
    <3>2. j # 1 => req'[1].cmd = "data"
      BY <2>3, <3>1 DEF Refusable, Lead
    <3>3. req'[1].cmd = "data" /\ req'[1].index = 0
      BY <2>1, <3>1, <3>2
    <3>4. req' # <<>>
      BY <1>3, <3>1
    <3> QED
      BY <2>2, <3>3, <3>4 DEF Position
  <2>4. ~Spoilt'
    <3> SUFFICES ASSUME Spoilt' PROVE FALSE
      OBVIOUS
    <3>1. /\ Lead(req', l + 1) /\ ~Sound'
          /\ \/ op = "block_begin" /\ Waits
             \/ op = "data"
             \/ op = "block_end" /\ ~Waits
      BY <1>2, <1>3 DEF Spoilt
    <3>2. CASE l # 0
      <4>1. 1 \in 1 .. l /\ 1 \in 1 .. l + 1 - 1
        BY <3>2
      <4>2. req'[1].cmd = "data" /\ req'[1].index = 0 /\ req' # <<>>
        BY <1>3, <2>1, <3>1, <4>1 DEF Lead
      <4> QED
        BY <2>2, <3>1, <4>2 DEF Position
    <3>3. CASE l = 0
      <4>1. req' = <<>>
        <5>1. req' \in Seq(FrameSet)
          BY <1>1, QueueTail DEF TypeOK, Answers
        <5> QED
          BY <1>3, <3>3, <5>1, EmptySeq
      <4>2. req[l + 1].cmd = "block_begin"
        BY <3>3
      <4>3. op = "block_begin" \/ (op = "data" /\ sequence = 0)
        BY <1>5, <3>1, <4>2
      <4>4. Position' = 0
        BY <1>2, <4>1, <4>3 DEF Position
      <4> QED
        BY <2>2, <3>1, <4>4
    <3> QED
      BY <3>2, <3>3
  <2> QED
    BY <1>2, <1>3, <2>3, <2>4
<1>7. CASE req[1].index # block
  <2>1. ASSUME NEW k \in 2 .. l + 1, req[k].cmd \in BlockOps, Key(req[k]) = block
        PROVE  \E i \in 2 .. k : req[i].cmd = "block_begin"
    <3>1. k \in 1 .. Len(req) /\ 1 < k /\ req[1].cmd \in BlockOps /\ Key(req[1]) # Key(req[k])
      BY <1>3, <1>7, <2>1 DEF Key, BlockOps
    <3>4. PICK h \in 1 .. Len(req) : h = 1
      BY <1>1
    <3>5. PICK g \in 1 .. Len(req) : g = k
      BY <3>1
    <3>6. /\ h < g /\ req[h].cmd \in BlockOps /\ req[g].cmd \in BlockOps
          /\ Key(req[h]) # Key(req[g])
      BY <2>1, <3>1, <3>4, <3>5
    <3>2. PICK i \in h + 1 .. g : req[i].cmd = "block_begin"
      BY <3>6 DEF Orderly, Segments
    <3>3. i \in 2 .. k
      BY <3>4, <3>5
    <3> QED
      BY <3>2, <3>3
  <2>2. ASSUME NEW j \in 1 .. l PROVE ~Refusable(j)'
    <3> SUFFICES ASSUME Refusable(j)' PROVE FALSE
      OBVIOUS
    <3>1. /\ req'[j].cmd = "block_end" /\ req'[j].index = block
          /\ \A i \in 1 .. j - 1 : req'[i].cmd = "data"
      BY <1>2 DEF Refusable, Lead
    <3>2. PICK k \in 2 .. l + 1 : k = j + 1
      OBVIOUS
    <3>3. req[k].cmd = "block_end" /\ req[k].index = block
      BY <1>4, <3>1, <3>2
    <3>4. PICK i \in 2 .. k : req[i].cmd = "block_begin"
      BY <2>1, <3>3 DEF Key, BlockOps
    <3>5. i # k
      BY <3>3, <3>4
    <3>6. i - 1 \in 1 .. j - 1 /\ i - 1 \in 1 .. l /\ i - 1 + 1 = i
      BY <3>2, <3>5
    <3>7. req'[i - 1] = req[i]
      BY <1>4, <3>6
    <3> QED
      BY <3>1, <3>4, <3>6, <3>7
  <2>3. ~Spoilt'
    <3> SUFFICES ASSUME Spoilt' PROVE FALSE
      OBVIOUS
    <3>1. /\ \A i \in 1 .. l : req'[i].cmd = "data"
          /\ \/ op = "block_begin" /\ Waits
             \/ op = "data"
             \/ op = "block_end" /\ ~Waits
      BY <1>2, <1>3 DEF Spoilt, Lead
    <3>2. req[l + 1].cmd \in BlockOps /\ Key(req[l + 1]) = block
      BY <1>5, <3>1 DEF Key, BlockOps
    <3>3. l # 0
      BY <1>7, <3>2 DEF Key
    <3>4. PICK i \in 2 .. l + 1 : req[i].cmd = "block_begin"
      <4>1. PICK k \in 2 .. l + 1 : k = l + 1
        BY <3>3
      <4> QED
        BY <2>1, <3>2, <4>1
    <3>5. i - 1 \in 1 .. l /\ i - 1 + 1 = i
      BY <3>4
    <3>6. req'[i - 1] = req[i]
      BY <1>4, <3>5
    <3> QED
      BY <3>1, <3>4, <3>5, <3>6
  <2> QED
    BY <1>2, <1>3, <2>2, <2>3
<1> QED
  BY <1>6, <1>7

\* What the bootloader is asked to do for this run it can do, unless the block
\* was spoilt: a reply without a fault is no worse than its frame promised.
LEMMA HonestReply ==
  ASSUME TransferInv, Orderly, run = 1, req # <<>>, req[1].cmd # "data",
         NEW ok \in BOOLEAN, ok <=> Obeyable(req[1])
  PROVE  /\ NoWorse(ReplyKind(Reply(req[1], ok)), FrameKind(1))
         /\ req[1].cmd \in CapabilityPages => ok
         /\ op \in BlockOps /\ req[1].cmd = "block_begin" => ok
<1>0. PICK m : m = req[1]
  OBVIOUS
<1>1. TypeOK /\ 1 \in 1 .. Len(req)
  BY QueueTail DEF TransferInv, TypeOK
<1>2. /\ m.cmd \in Ops /\ m.index \in Nat /\ m.block \in Nat
      /\ m.session = Owner(m.cmd) /\ session = 1
      /\ m.cmd \in Sessioned => Stage(m.cmd, m.index) \in 1 .. HostStage
      /\ m.cmd \in {"block_end", "end"} => m.image = 1
  BY <1>0, HeadFacts
<1>3. /\ m.cmd = "block_end" => m.block = m.index
      /\ op # "data" \/ pc = "send"
  BY <1>0, <1>1 DEF Orderly, PiecesOK
<1>4. StageTable
  BY BlockPhase
<1>5. HostStage >= 2 /\ m.cmd \in Sessioned => SessionKnown(m)
  BY <1>2 DEF Orderly, Opened, SessionKnown, Owner
<1>6. PICK r : r = Reply(m, ok)
  OBVIOUS
<1>7. r.cmd = m.cmd /\ r.detail = m.index /\ r.ok = ok
  BY <1>6 DEF Reply
<1>8. m.cmd \notin Sessioned => SessionKnown(m)
  BY DEF SessionKnown
<1>9. ASSUME m.cmd \notin Sessioned PROVE ok
  <2>1. m.cmd \notin {"block_begin", "block_end", "end"}
    BY <1>9 DEF Sessioned
  <2> QED
    BY <1>0, <1>8, <1>9, <2>1 DEF Obeyable
<1>10. CASE op \in BlockOps
  <2>1. /\ HostStage = 4 + block /\ block \in Blocks /\ block \in Nat
        /\ \A k \in Nat : k <= block => k \in Blocks
    <3>1. HostStage = 4 + block /\ block \in Blocks /\ block \in Nat
      <4>1. HostStage = 4 + block
        BY <1>4, <1>10 DEF StageTable
      <4>2. block \in Blocks
        BY <1>10, BlockPhase
      <4>3. block \in Nat
        BY <1>1 DEF TypeOK
      <4> QED
        BY <4>1, <4>2, <4>3
    <3>2. cap.blockSize \in Nat /\ ImageSize \in Nat
      BY <1>1, TransferAssumption DEF TypeOK
    <3>3. cap.blockSize # 0 /\ BlockCount(ImageSize, cap.blockSize) \in Nat
      BY <1>10, <3>2, BlockPhase, VerdictFacts, TransferAssumption
    <3>4. Blocks = 0 .. BlockCount(ImageSize, cap.blockSize) - 1
      BY <3>3 DEF Blocks
    <3> QED
      BY <3>1, <3>3, <3>4
  <2>2. CASE m.cmd = "block_begin"
    <3>1. SessionKnown(m) /\ Stage(m.cmd, m.index) = 4 + m.index
      BY <1>2, <1>5, <2>1, <2>2 DEF Sessioned, Stage
    <3>2. m.index \in Blocks
      BY <1>2, <2>1, <2>2, <3>1 DEF Sessioned
    <3>3. ok
      BY <1>0, <2>2, <3>1, <3>2 DEF Obeyable
    <3>4. CASE m.index = block
      <4>1. ReplyKind(r) = "good"
        BY <1>7, <1>10, <2>2, <3>3, <3>4 DEF ReplyKind
      <4>2. FrameKind(1) = "good"
        BY <1>0, <1>10, <2>2, <3>4 DEF FrameKind, Refusable
      <4> QED
        BY <1>0, <1>6, <2>2, <3>3, <4>1, <4>2 DEF NoWorse, CapabilityPages
    <3>5. CASE m.index # block
      <4>1. ReplyKind(r) = "bad"
        BY <1>7, <1>10, <2>2, <3>3, <3>5 DEF ReplyKind
      <4>2. FrameKind(1) = "bad"
        BY <1>0, <1>10, <2>2, <3>5 DEF FrameKind, Refusable
      <4> QED
        BY <1>0, <1>6, <2>2, <3>3, <4>1, <4>2 DEF NoWorse, CapabilityPages
    <3> QED
      BY <3>4, <3>5
  <2>3. CASE m.cmd = "block_end" /\ m.index = block
    <3>1. SessionKnown(m)
      BY <1>5, <2>1, <2>3 DEF Sessioned
    <3>2. Refusable(1)
      BY <1>0, <2>3 DEF Refusable, Lead
    <3>3. CASE Sound
      <4>1. Position = Frames(block)
        BY <1>0, <2>3 DEF Position
      <4>2. dev.open = block /\ dev.got >= Frames(block) /\ dev.got \in Nat
            /\ Frames(block) \in Nat /\ Frames(block) >= 1
        BY <1>1, <1>10, <3>3, <4>1, BlockPhase, FrameTypes, BlocksAssumption DEF Sound
      <4>3. /\ dev.got <= Frames(block)
            /\ dev.from = IF dev.got = 0 THEN {} ELSE {[image |-> 1, block |-> block]}
        BY <1>10, <4>2 DEF Orderly, Held
      <4>4. dev.got = Frames(block) /\ dev.from = {[image |-> m.image, block |-> m.block]}
        BY <1>2, <1>3, <2>3, <4>2, <4>3
      <4>5. BlockIntact(m)
        BY <2>1, <2>3, <4>2, <4>4 DEF BlockIntact
      <4>6. ok
        BY <1>0, <2>3, <3>1, <4>5 DEF Obeyable
      <4>7. ReplyKind(r) = "other"
        BY <1>7, <1>10, <2>3, <4>6 DEF ReplyKind
      <4> QED
        BY <1>0, <1>6, <2>3, <4>7 DEF NoWorse, CapabilityPages
    <3>4. CASE ~Sound
      <4>1. FrameKind(1) = "refusal"
        BY <1>0, <1>10, <2>3, <3>2, <3>4 DEF FrameKind
      <4>2. ReplyKind(r) \in {"refusal", "other"}
        BY <1>7, <1>10, <2>3 DEF ReplyKind
      <4> QED
        BY <1>0, <1>6, <2>3, <4>1, <4>2 DEF NoWorse, CapabilityPages
    <3> QED
      BY <3>3, <3>4
  <2>4. CASE m.cmd # "block_begin" /\ ~(m.cmd = "block_end" /\ m.index = block)
    <3>1. ReplyKind(r) = "other"
      BY <1>7, <1>10, <2>4 DEF ReplyKind
    <3>2. m.cmd \in CapabilityPages => ok
      BY <1>9 DEF CapabilityPages, Sessioned
    <3> QED
      BY <1>0, <1>6, <2>4, <3>1, <3>2 DEF NoWorse
  <2> QED
    BY <2>2, <2>3, <2>4
<1>11. CASE op \notin BlockOps
  <2>1. m.cmd \in CapabilityPages => ok
    BY <1>9 DEF CapabilityPages, Sessioned
  <2>2. ASSUME op \notin CapabilityPages, m.cmd = op PROVE ok
    <3>1. op \in {"sync", "start", "start_crc", "start_version", "end"}
      BY <1>1, <1>11, <2>2 DEF TypeOK, Ops
    <3>2. SessionKnown(m)
      <4>1. op = "sync" => m.cmd \notin Sessioned
        BY <2>2 DEF Sessioned
      <4>2. op = "start" => SessionKnown(m)
        BY <2>2 DEF SessionKnown
      <4>3. op \in {"start_crc", "start_version", "end"} =>
              HostStage >= 2 /\ m.cmd \in Sessioned
        BY <1>4, <2>2, TransferAssumption DEF StageTable, Sessioned
      <4> QED
        BY <1>5, <1>8, <3>1, <4>1, <4>2, <4>3
    <3>3. op = "end" => ImageIntact(m)
      <4> SUFFICES ASSUME op = "end" PROVE ImageIntact(m)
        OBVIOUS
      <4>1. HostStage >= 4
        BY <1>4, TransferAssumption DEF StageTable
      <4>2. HostStage >= 3
        BY <1>4, <4>1 DEF StageTable
      <4>3. dev.image = 1 /\ m.image = 1
        BY <1>2, <2>2, <4>2 DEF Orderly, Opened
      <4>4. \A k \in Blocks : flash[k] = 1
        BY <4>1 DEF TransferInv, Written, Admitted
      <4> QED
        BY <4>3, <4>4 DEF ImageIntact
    <3>4. m.cmd \notin {"block_begin", "block_end"}
      BY <2>2, <3>1
    <3> QED
      BY <1>0, <2>2, <3>1, <3>2, <3>3, <3>4 DEF Obeyable
  <2>3. ReplyKind(r) = "other"
    BY <1>7, <1>11, <2>2 DEF ReplyKind
  <2> QED
    BY <1>0, <1>6, <1>11, <2>1, <2>3 DEF NoWorse
<1> QED
  BY <1>10, <1>11

\* What any reply can be.
LEMMA AnyReply ==
  ASSUME NEW ok \in BOOLEAN
  PROVE  LET r == Reply(req[1], ok) IN
         /\ op \in BlockOps /\ req[1].cmd = "block_begin" =>
              \/ ReplyKind(r) = FrameKind(1)
              \/ FrameKind(1) = "good" /\ ReplyKind(r) = "bad"
         /\ ~(op \in BlockOps /\ req[1].cmd = "block_begin") =>
              ReplyKind(r) \in {"refusal", "other"}
         /\ op \in CapabilityPages => ReplyKind(r) = "other"
<1>0. PICK m : m = req[1]
  OBVIOUS
<1>1. PICK r : r = Reply(m, ok)
  OBVIOUS
<1>2. r.cmd = m.cmd /\ r.detail = m.index /\ r.ok = ok
  BY <1>1 DEF Reply
<1>3. ASSUME op \in BlockOps, m.cmd = "block_begin"
      PROVE  \/ ReplyKind(r) = FrameKind(1)
             \/ FrameKind(1) = "good" /\ ReplyKind(r) = "bad"
  <2>1. m.index = block => FrameKind(1) = "good" /\ ReplyKind(r) \in {"good", "bad"}
    BY <1>0, <1>2, <1>3 DEF FrameKind, ReplyKind, Refusable
  <2>2. m.index # block => FrameKind(1) = "bad" /\ ReplyKind(r) = "bad"
    BY <1>0, <1>2, <1>3 DEF FrameKind, ReplyKind, Refusable
  <2> QED
    BY <2>1, <2>2
<1>4. ASSUME ~(op \in BlockOps /\ m.cmd = "block_begin")
      PROVE  ReplyKind(r) \in {"refusal", "other"}
  BY <1>2, <1>4 DEF ReplyKind
<1>5. op \in CapabilityPages => ReplyKind(r) = "other"
  BY DEF ReplyKind, CapabilityPages, BlockOps
<1> QED
  BY <1>0, <1>1, <1>3, <1>4, <1>5

\* A positive answer means that the command was carried out.
LEMMA PositiveObeyed ==
  ASSUME TypeOK, Answers, DeviceReplies, req[1].cmd \in Ops,
         NEW ok \in BOOLEAN, rsp' = Append(rsp, Reply(req[1], ok))
  PROVE  /\ Reply(req[1], ok) \in ReplySet
         /\ ok => Obey(req[1])
<1>1. req # <<>> /\ Head(req) = req[1] /\ 1 \in 1 .. Len(req) /\ rsp \in Seq(ReplySet)
  BY AnswersFacts DEF TypeOK, Answers
<1>2. Reply(req[1], TRUE) \in ReplySet /\ Reply(req[1], FALSE) \in ReplySet
  BY <1>1, FrameTypes DEF Reply, ReplySet, FrameSet
<1>3. Reply(req[1], TRUE) # Reply(req[1], FALSE)
  <2>1. Reply(req[1], TRUE).ok = TRUE /\ Reply(req[1], FALSE).ok = FALSE
    BY DEF Reply
  <2> QED
    BY <2>1
<1>4. ASSUME ok PROVE Obey(req[1])
  <2>1. rsp' = Append(rsp, Reply(req[1], TRUE))
    BY <1>4
  <2>2. /\ rsp'[Len(rsp) + 1] = Reply(req[1], TRUE)
        /\ Len(rsp') = Len(rsp) + 1 /\ Len(rsp) \in Nat
    <3>1. PICK x \in ReplySet : x = Reply(req[1], TRUE)
      BY <1>2
    <3>2. rsp' = Append(rsp, x)
      BY <2>1, <3>1
    <3>3. Len(rsp) \in Nat
      BY <1>1, LenProperties
    <3>4. Len(rsp') = Len(rsp) + 1 /\ rsp'[Len(rsp) + 1] = x
      BY <1>1, <3>2, AppendFacts
    <3> QED
      BY <3>1, <3>3, <3>4
  <2>3. rsp' # rsp
    BY <2>2
  <2>4. rsp' # Append(rsp, Reply(req[1], FALSE))
    <3>1. ASSUME rsp' = Append(rsp, Reply(req[1], FALSE))
          PROVE  rsp'[Len(rsp) + 1] = Reply(req[1], FALSE)
      <4>1. PICK y \in ReplySet : y = Reply(req[1], FALSE)
        BY <1>2
      <4>2. rsp' = Append(rsp, y)
        BY <3>1, <4>1
      <4>3. rsp'[Len(rsp) + 1] = y
        BY <1>1, <4>2, AppendFacts
      <4> QED
        BY <4>1, <4>3
    <3> QED
      BY <1>3, <2>2, <3>1
  <2> QED
    BY <1>1, <2>3, <2>4 DEF DeviceReplies, Deliver
<1> QED
  BY <1>2, <1>4

\* An answer to the command at hand is still something to wait for.
LEMMA HopeKept ==
  ASSUME TypeOK, Answers, NEW ok \in BOOLEAN, req[1].cmd \in Ops,
         rsp' = Append(rsp, Reply(req[1], ok)),
         op \in CapabilityPages /\ req[1].cmd = op => ok,
         Hopeful
  PROVE  Hopeful'
<1>1. /\ UNCHANGED <<op, pc>> /\ Len(rsp) \in Nat /\ 1 \in 1 .. Len(req)
      /\ Len(req) \in Nat \ {0} /\ Len(req') = Len(req) - 1
      /\ \A i \in 1 .. Len(req') : req'[i] = req[i + 1]
      /\ Head(req) = req[1]
  BY AnswersFacts
<1>2. Reply(req[1], ok) \in ReplySet /\ Reply(req[1], ok).cmd = req[1].cmd
      /\ Reply(req[1], ok).ok = ok
  BY <1>1, FrameTypes DEF Reply, ReplySet, FrameSet
<1>3. /\ Len(rsp') = Len(rsp) + 1 /\ rsp'[Len(rsp) + 1] = Reply(req[1], ok)
      /\ \A i \in 1 .. Len(rsp) : rsp'[i] = rsp[i]
  BY <1>2, AppendFacts DEF TypeOK
<1>4. CASE pc = "send"
  BY <1>1, <1>4 DEF Hopeful
<1>5. ASSUME NEW i \in 1 .. Len(rsp), rsp[i].cmd = op, op \in CapabilityPages => rsp[i].ok
      PROVE  Hopeful'
  <2>1. i \in 1 .. Len(rsp') /\ rsp'[i] = rsp[i]
    BY <1>1, <1>3
  <2> QED
    BY <1>1, <1>5, <2>1 DEF Hopeful
<1>6. ASSUME NEW i \in 1 .. Len(req), req[i].cmd = op PROVE Hopeful'
  <2>1. CASE i = 1
    <3>1. PICK k \in 1 .. Len(rsp') : k = Len(rsp) + 1
      BY <1>1, <1>3
    <3>2. rsp'[k].cmd = op' /\ (op' \in CapabilityPages => rsp'[k].ok)
      BY <1>1, <1>2, <1>3, <1>6, <2>1, <3>1
    <3> QED
      BY <3>2 DEF Hopeful
  <2>2. CASE i # 1
    <3>1. i - 1 \in 1 .. Len(req') /\ i - 1 + 1 = i
      BY <1>1, <2>2
    <3>2. PICK j \in 1 .. Len(req') : j + 1 = i
      BY <3>1
    <3>3. req'[j].cmd = op'
      BY <1>1, <1>6, <3>2
    <3> QED
      BY <3>3 DEF Hopeful
  <2> QED
    BY <2>1, <2>2
<1> QED
  BY <1>4, <1>5, <1>6 DEF Hopeful

\* An answer that is no worse than its frame promised.
LEMMA FairReplyBudget ==
  ASSUME TypeOK, Answers, faults \in Nat, faults' \in Nat,
         NEW base, NEW l, NEW r, NEW a, NEW e, NEW n, Returns(base, l, r, a, e, n),
         NoWorse(ReplyKind(r), FrameKind(1)),
         \A j \in 1 .. l : NoWorse(FrameKind(j)', FrameKind(j + 1)),
         ~Spoilt',
         \/ faults <= faults' /\ (Hopeful => Hopeful')
         \/ faults' = faults + 1
  PROVE  WithinBudget'
<1>0. base \in Nat /\ l \in Nat /\ Size' = base + 1 + l
  BY DEF Returns
<1>1. /\ base + 1 + l \in Nat
      /\ Bill(Pipe, base + 1 + l, Spoilt, a, e, n)
      /\ a[1] \in Nat /\ e[1] \in Nat /\ n[1] \in Nat
      /\ attempt + (IF op = "block_begin" THEN a[1] ELSE e[1])
           + (IF Hopeful THEN 0 ELSE 1) <= faults
      /\ op \in BlockOps =>
           n[1] <= attempt + (IF op = "block_begin" /\ Waits THEN 1 ELSE 0)
      /\ \A i \in 1 .. base : Pipe'[i] = Pipe[i]
      /\ Pipe[base + 1] = FrameKind(1) /\ Pipe'[base + 1] = ReplyKind(r)
      /\ \A j \in 1 .. l : /\ Pipe'[base + 1 + j] = FrameKind(j)'
                           /\ Pipe[base + 1 + j] = FrameKind(j + 1)
  BY <1>0 DEF Returns
<1>2. UNCHANGED <<op, attempt>> /\ Waits' = Waits /\ attempt \in Nat
  BY FramesStay, FrameTypes
<1>3. ASSUME NEW i \in 1 .. base + 1 + l PROVE NoWorse(Pipe'[i], Pipe[i])
  <2>1. CASE i \in 1 .. base
    BY <1>1, <2>1 DEF NoWorse
  <2>2. CASE i = base + 1
    BY <1>1, <2>2
  <2>3. CASE i \notin 1 .. base /\ i # base + 1
    <3>1. i - (base + 1) \in 1 .. l /\ base + 1 + (i - (base + 1)) = i
      BY <1>0, <2>3
    <3>2. PICK j \in 1 .. l : base + 1 + j = i
      BY <3>1
    <3> QED
      BY <1>1, <3>2
  <2> QED
    BY <2>1, <2>2, <2>3
<1>4. Bill(Pipe', base + 1 + l, Spoilt', a, e, n)
  BY <1>1, <1>3, BillEased
<1>5. Bill(Pipe', Size', Spoilt', a, e, n)
  BY <1>0, <1>4
<1>6. attempt' + (IF op' = "block_begin" THEN a[1] ELSE e[1])
           + (IF Hopeful' THEN 0 ELSE 1) <= faults'
  <2>1. CASE faults <= faults' /\ (Hopeful => Hopeful')
    BY <1>1, <1>2, <2>1
  <2>2. CASE faults' = faults + 1
    <3>1. attempt + (IF op = "block_begin" THEN a[1] ELSE e[1]) <= faults
      BY <1>1, <1>2
    <3> QED
      BY <1>1, <1>2, <2>2, <3>1
  <2> QED
    BY <2>1, <2>2
<1> QED
  BY <1>1, <1>2, <1>5, <1>6, BudgetNext

\* A fault that costs one attempt.
LEMMA PaidReplyBudget ==
  ASSUME TypeOK, Answers, faults \in Nat, faults' = faults + 1,
         NEW base, NEW l, NEW r, NEW a, NEW e, NEW n, Returns(base, l, r, a, e, n),
         NEW T, NEW U, Raised(Pipe, Pipe', base + 1 + l, T, U),
         Spoilt' => base + 1 + l + 1 \in U,
         Hopeful => Hopeful'
  PROVE  WithinBudget'
<1>0. base \in Nat /\ l \in Nat /\ Size' = base + 1 + l
  BY DEF Returns
<1>1. /\ base + 1 + l \in Nat
      /\ Bill(Pipe, base + 1 + l, Spoilt, a, e, n)
      /\ a[1] \in Nat /\ e[1] \in Nat /\ n[1] \in Nat
      /\ attempt + (IF op = "block_begin" THEN a[1] ELSE e[1])
           + (IF Hopeful THEN 0 ELSE 1) <= faults
      /\ op \in BlockOps =>
           n[1] <= attempt + (IF op = "block_begin" /\ Waits THEN 1 ELSE 0)
  BY <1>0 DEF Returns
<1>2. UNCHANGED <<op, attempt>> /\ Waits' = Waits /\ attempt \in Nat
  BY FramesStay, FrameTypes
<1>3. PICK b, f : /\ Bill(Pipe', base + 1 + l, Spoilt', b, f, n)
                  /\ b[1] = (IF 1 \in T THEN a[1] + 1 ELSE a[1])
                  /\ f[1] = (IF 1 \in U THEN e[1] + 1 ELSE e[1])
  BY <1>1, BillRaised
<1>4. b[1] \in Nat /\ f[1] \in Nat /\ b[1] <= a[1] + 1 /\ f[1] <= e[1] + 1
  BY <1>1, <1>3
<1>5. Bill(Pipe', Size', Spoilt', b, f, n)
  BY <1>0, <1>3
<1>6. attempt' + (IF op' = "block_begin" THEN b[1] ELSE f[1])
           + (IF Hopeful' THEN 0 ELSE 1) <= faults'
  <2>1. CASE Hopeful
    <3>1. attempt + (IF op = "block_begin" THEN a[1] ELSE e[1]) <= faults
      BY <1>1, <1>2
    <3> QED
      BY <1>1, <1>2, <1>4, <2>1, <3>1
  <2>2. CASE ~Hopeful
    <3>1. attempt + (IF op = "block_begin" THEN a[1] ELSE e[1]) + 1 <= faults
      BY <1>1, <1>2, <2>2
    <3> QED
      BY <1>1, <1>2, <1>4, <2>2, <3>1
  <2> QED
    BY <2>1, <2>2
<1> QED
  BY <1>1, <1>2, <1>5, <1>6, BudgetNext

\* A refusal out of the blue.
LEMMA RefusalRaised ==
  ASSUME NEW base, NEW l, NEW r, NEW a, NEW e, NEW n, Returns(base, l, r, a, e, n),
         ReplyKind(r) = "refusal",
         \A j \in 1 .. l : NoWorse(FrameKind(j)', FrameKind(j + 1))
  PROVE  Raised(Pipe, Pipe', base + 1 + l, 1 .. base + 1, 1 .. base + 1)
<1>0. base \in Nat /\ l \in Nat
  BY DEF Returns
<1>1. /\ \A i \in 1 .. base : Pipe'[i] = Pipe[i]
      /\ Pipe'[base + 1] = "refusal"
      /\ \A j \in 1 .. l : /\ Pipe'[base + 1 + j] = FrameKind(j)'
                           /\ Pipe[base + 1 + j] = FrameKind(j + 1)
  BY DEF Returns
<1>2. ASSUME NEW i \in 1 .. base + 1 + l
      PROVE  \/ NoWorse(Pipe'[i], Pipe[i])
             \/ Pipe'[i] = "refusal" /\ i = base + 1
  <2>1. CASE i \in 1 .. base
    BY <1>1, <2>1 DEF NoWorse
  <2>2. CASE i = base + 1
    BY <1>1, <2>2
  <2>3. CASE i \notin 1 .. base /\ i # base + 1
    <3>1. i - (base + 1) \in 1 .. l /\ base + 1 + (i - (base + 1)) = i
      BY <1>0, <2>3
    <3>2. PICK j \in 1 .. l : base + 1 + j = i
      BY <3>1
    <3> QED
      BY <1>1, <3>2
  <2> QED
    BY <2>1, <2>2, <2>3
<1>3. \A i \in 1 .. base + 1 + l :
        /\ i + 1 \in 1 .. base + 1 => i \in 1 .. base + 1
        /\ i = base + 1 => i \in 1 .. base + 1 /\ i + 1 \notin 1 .. base + 1
  BY <1>0
<1>4. 1 .. base + 1 \subseteq 1 .. (base + 1 + l) + 1
  BY <1>0
<1> QED
  BY <1>2, <1>3, <1>4 DEF Raised

\* A BLOCK_BEGIN that was not obeyed, or whose answer is negative.
LEMMA BeginRaised ==
  ASSUME TypeOK, Answers,
         NEW base, NEW l, NEW r, NEW a, NEW e, NEW n, Returns(base, l, r, a, e, n),
         \/ ReplyKind(r) = FrameKind(1)
         \/ FrameKind(1) = "good" /\ ReplyKind(r) = "bad",
         NEW U, U = {i \in 1 .. (base + 1 + l) + 1 : Lead(req', i - (base + 1))}
  PROVE  /\ Raised(Pipe, Pipe', base + 1 + l, 1 .. base + 1, U)
         /\ Spoilt' => base + 1 + l + 1 \in U
<1>0. base \in Nat /\ l \in Nat /\ l = Len(req')
  BY DEF Returns
<1>1. /\ \A i \in 1 .. base : Pipe'[i] = Pipe[i]
      /\ \/ Pipe'[base + 1] = Pipe[base + 1]
         \/ Pipe[base + 1] = "good" /\ Pipe'[base + 1] = "bad"
      /\ \A j \in 1 .. l : /\ Pipe'[base + 1 + j] = FrameKind(j)'
                           /\ Pipe[base + 1 + j] = FrameKind(j + 1)
  BY DEF Returns
<1>2. PICK k \in Nat : k = base + 1
  BY <1>0
<1>3. PICK T : T = 1 .. k
  OBVIOUS
<1>4. \A i \in 1 .. k + l : /\ i \in 1 .. k + l + 1 /\ i + 1 \in 1 .. k + l + 1
                            /\ i - k \in Int /\ i + 1 - k = (i - k) + 1
  BY <1>0
<1>5. \A i \in 1 .. k + l + 1 : i \in U <=> Lead(req', i - k)
  BY <1>2
<1>6. T \subseteq U /\ U \subseteq 1 .. k + l + 1
  <2>1. U \subseteq 1 .. k + l + 1
    BY <1>2
  <2>2. ASSUME NEW i \in 1 .. k PROVE i \in U
    <3>1. i \in 1 .. k + l + 1 /\ i - k \in Int /\ i - k <= 1
      BY <1>0
    <3>2. Lead(req', i - k)
      BY <3>1, LeadNext
    <3> QED
      BY <1>5, <3>1, <3>2
  <2> QED
    BY <1>3, <2>1, <2>2
<1>7. ASSUME NEW i \in 1 .. k + l PROVE (i + 1 \in U => i \in U) /\ (i + 1 \in T => i \in T)
  <2>1. i + 1 \in T => i \in T
    BY <1>0, <1>3
  <2>2. ASSUME i + 1 \in U PROVE i \in U
    <3>1. Lead(req', (i - k) + 1)
      BY <1>4, <1>5, <2>2
    <3>2. Lead(req', i - k)
      BY <1>4, <3>1, LeadNext
    <3> QED
      BY <1>4, <1>5, <3>2
  <2> QED
    BY <2>1, <2>2
<1>8. ASSUME NEW i \in 1 .. k + l
      PROVE  /\ \/ NoWorse(Pipe'[i], Pipe[i])
                \/ i \in T /\ i + 1 \notin T /\ Pipe[i] = "good" /\ Pipe'[i] = "bad"
                \/ Pipe'[i] = "refusal" /\ i \in U /\ i + 1 \notin U
             /\ i \in U \ T /\ i + 1 \in U => Pipe'[i] \notin {"good", "bad"}
  <2>1. CASE i \in 1 .. base
    <3>1. i \in T
      BY <1>0, <1>2, <1>3, <2>1
    <3> QED
      BY <1>1, <2>1, <3>1 DEF NoWorse
  <2>2. CASE i = k
    <3>1. i \in T /\ i + 1 \notin T
      BY <1>0, <1>2, <1>3, <2>2
    <3> QED
      BY <1>1, <1>2, <2>2, <3>1 DEF NoWorse
  <2>3. CASE i \notin 1 .. base /\ i # k
    <3>1. i - k \in 1 .. l /\ k + (i - k) = i
      BY <1>0, <1>2, <2>3
    <3>2. PICK j \in 1 .. l : k + j = i /\ j = i - k
      BY <3>1
    <3>3. Pipe'[i] = FrameKind(j)' /\ Pipe[i] = FrameKind(j + 1)
      BY <1>1, <1>2, <3>2
    <3>4. /\ \/ NoWorse(FrameKind(j)', FrameKind(j + 1))
             \/ FrameKind(j)' = "refusal" /\ Refusable(j)'
          /\ FrameKind(j)' \in {"good", "bad"} => req'[j].cmd = "block_begin"
      BY <1>0, <3>2, FramesStay
    <3>5. j \in Int /\ j >= 1 /\ i + 1 - k = j + 1
      BY <1>0, <3>2
    <3>6. i + 1 \in U => req'[j].cmd = "data"
      <4>1. i + 1 \in U => Lead(req', j + 1)
        BY <1>4, <1>5, <3>5
      <4> QED
        BY <3>5, <4>1, LeadNext
    <3>7. ASSUME Refusable(j)' PROVE i \in U /\ i + 1 \notin U
      <4>1. Lead(req', j) /\ req'[j].cmd # "data"
        BY <3>7 DEF Refusable
      <4> QED
        BY <1>4, <1>5, <3>2, <3>6, <4>1
    <3> QED
      BY <3>3, <3>4, <3>6, <3>7
  <2> QED
    BY <2>1, <2>2, <2>3
<1>9. Raised(Pipe, Pipe', k + l, T, U)
  BY <1>6, <1>7, <1>8 DEF Raised
<1>10. Spoilt' => k + l + 1 \in U
  <2>1. Spoilt' => Lead(req', l + 1)
    BY <1>0 DEF Spoilt
  <2>2. PICK t \in 1 .. k + l + 1 : t = k + l + 1 /\ t - k = l + 1
    BY <1>0
  <2>3. t \in U <=> Lead(req', l + 1)
    BY <1>5, <2>2
  <2> QED
    BY <2>1, <2>2, <2>3
<1> QED
  BY <1>2, <1>3, <1>9, <1>10

\* The bootloader answers.
LEMMA ReplyBudget ==
  ASSUME TransferInv, TypeOK', Orderly, WithinBudget, run = 1,
         pc \in {"send", "top", "poll"},
         faults \in Nat, faults' \in Nat, DeviceReplies,
         NEW ok \in BOOLEAN, rsp' = Append(rsp, Reply(req[1], ok)),
         \/ faults <= faults' /\ (ok <=> Obeyable(req[1]))
         \/ faults' = faults + 1
  PROVE  WithinBudget'
<1>1. TypeOK /\ Answers /\ req # <<>> /\ Head(req) = req[1] /\ 1 \in 1 .. Len(req)
      /\ req[1].cmd # "data"
  BY DeviceAnswers, QueueTail DEF TransferInv, TypeOK, DeviceReplies
<1>2. req[1].cmd \in Ops
  BY <1>1, HeadFacts
<1>3. /\ Reply(req[1], ok) \in ReplySet
      /\ ok => Obey(req[1])
  BY <1>1, <1>2, PositiveObeyed
<1>4. PICK r \in ReplySet : r = Reply(req[1], ok)
  BY <1>3
<1>5. \E base, l, a, e, n : Returns(base, l, r, a, e, n)
  BY <1>1, <1>4, AnsweredPipe
<1>6. PICK base, l, a, e, n : Returns(base, l, r, a, e, n)
  BY <1>5
<1>7. base \in Nat /\ l \in Nat /\ Len(req') = l
  BY <1>6 DEF Returns
<1>8. /\ op' = op
      /\ \A j \in 1 .. Len(req') :
           \/ NoWorse(FrameKind(j)', FrameKind(j + 1))
           \/ op \in BlockOps
  BY <1>1, FramesStay
<1>9. ASSUME ~(op \in BlockOps /\ req[1].cmd = "block_begin")
      PROVE  ~Spoilt' /\ \A j \in 1 .. l : NoWorse(FrameKind(j)', FrameKind(j + 1))
  <2>1. CASE op \notin BlockOps
    BY <1>7, <1>8, <2>1 DEF Spoilt, BlockOps
  <2>2. CASE req[1].cmd # "block_begin"
    BY <1>1, <1>7, <2>2, BehindControl
  <2> QED
    BY <1>9, <2>1, <2>2
<1>10. ASSUME op \in CapabilityPages /\ req[1].cmd = op => ok PROVE Hopeful => Hopeful'
  BY <1>1, <1>2, <1>10, HopeKept
<1>11. CASE faults <= faults' /\ (ok <=> Obeyable(req[1]))
  <2>1. /\ NoWorse(ReplyKind(r), FrameKind(1))
        /\ req[1].cmd \in CapabilityPages => ok
        /\ op \in BlockOps /\ req[1].cmd = "block_begin" => ok
    BY <1>1, <1>4, <1>11, HonestReply
  <2>2. ~Spoilt' /\ \A j \in 1 .. l : NoWorse(FrameKind(j)', FrameKind(j + 1))
    <3>1. CASE op \in BlockOps /\ req[1].cmd = "block_begin"
      <4>1. Obey(req[1])
        BY <1>3, <2>1, <3>1
      <4>2. dev'.open = req[1].index /\ dev'.got = 0
        BY <1>1, <3>1, <4>1, ObeyFacts DEF CapabilityPages
      <4> QED
        BY <1>1, <1>7, <3>1, <4>2, BehindBegin
    <3> QED
      BY <1>9, <3>1
  <2>3. Hopeful => Hopeful'
    BY <1>10, <2>1
  <2> QED
    BY <1>1, <1>6, <1>11, <2>1, <2>2, <2>3, FairReplyBudget
<1>12. CASE faults' = faults + 1
  <2>1. /\ op \in BlockOps /\ req[1].cmd = "block_begin" =>
             \/ ReplyKind(r) = FrameKind(1)
             \/ FrameKind(1) = "good" /\ ReplyKind(r) = "bad"
        /\ ~(op \in BlockOps /\ req[1].cmd = "block_begin") =>
             ReplyKind(r) \in {"refusal", "other"}
        /\ op \in CapabilityPages => ReplyKind(r) = "other"
    BY <1>4, AnyReply
  <2>2. CASE op \in BlockOps /\ req[1].cmd = "block_begin"
    <3>1. PICK U : U = {i \in 1 .. (base + 1 + l) + 1 : Lead(req', i - (base + 1))}
      OBVIOUS
    <3>2. PICK T : T = 1 .. base + 1
      OBVIOUS
    <3>3. ReplyKind(r) = FrameKind(1) \/ (FrameKind(1) = "good" /\ ReplyKind(r) = "bad")
      BY <2>1, <2>2
    <3>4. /\ Raised(Pipe, Pipe', base + 1 + l, T, U)
          /\ Spoilt' => base + 1 + l + 1 \in U
      BY <1>1, <1>6, <3>1, <3>2, <3>3, BeginRaised
    <3>5. Hopeful => Hopeful'
      BY <1>10, <2>2 DEF CapabilityPages
    <3> QED
      BY <1>1, <1>6, <1>12, <3>4, <3>5, PaidReplyBudget
  <2>3. CASE ~(op \in BlockOps /\ req[1].cmd = "block_begin") /\ ReplyKind(r) = "other"
    <3>1. NoWorse(ReplyKind(r), FrameKind(1))
      BY <2>3 DEF NoWorse
    <3>2. ~Spoilt' /\ \A j \in 1 .. l : NoWorse(FrameKind(j)', FrameKind(j + 1))
      BY <1>9, <2>3
    <3> QED
      BY <1>1, <1>6, <1>12, <3>1, <3>2, FairReplyBudget
  <2>4. CASE ~(op \in BlockOps /\ req[1].cmd = "block_begin") /\ ReplyKind(r) = "refusal"
    <3>1. PICK T : T = 1 .. base + 1
      OBVIOUS
    <3>2. ~Spoilt' /\ \A j \in 1 .. l : NoWorse(FrameKind(j)', FrameKind(j + 1))
      BY <1>9, <2>4
    <3>3. Raised(Pipe, Pipe', base + 1 + l, T, T)
      BY <1>6, <2>4, <3>1, <3>2, RefusalRaised
    <3>4. Hopeful => Hopeful'
      BY <1>10, <2>1, <2>4
    <3> QED
      BY <1>1, <1>6, <1>12, <3>2, <3>3, <3>4, PaidReplyBudget
  <2> QED
    BY <2>1, <2>2, <2>3, <2>4
<1> QED
  BY <1>11, <1>12

-----------------------------------------------------------------------------
(* The step as a whole.                                                    *)

\* How faults are counted while the first run lasts.
LEMMA CountFacts ==
  ASSUME faults \in Nat, Count
  PROVE  /\ faults' \in Nat
         /\ run' = 1 /\ (running' \/ state' = "failed") =>
              /\ faults <= faults' \/ faults' = FaultBudget + 1
              /\ running /\ Fault /\ faults <= FaultBudget =>
                   faults' = faults + 1 \/ faults' = FaultBudget + 1
              /\ running /\ DeviceReset /\ ~Fault => faults' = FaultBudget + 1
<1>1. FaultBudget \in Nat
  BY ToleranceAssumption
<1>2. faults' \in {0, faults, FaultBudget + 1, faults + 1}
  BY DEF Count
<1>3. ASSUME run' = 1 /\ (running' \/ state' = "failed")
      PROVE  /\ faults' \in {faults, FaultBudget + 1, faults + 1}
             /\ running /\ Fault /\ faults <= FaultBudget =>
                  faults' = faults + 1 \/ faults' = FaultBudget + 1
             /\ running /\ DeviceReset /\ ~Fault => faults' = FaultBudget + 1
  BY <1>3 DEF Count
<1> QED
  BY <1>1, <1>2, <1>3

\* Whatever the bus and the bootloader do while the run can still succeed.
LEMMA BusKeepsBudget ==
  ASSUME TransferInv, TypeOK', Orderly, WithinBudget, run = 1,
         pc \in {"send", "top", "poll"},
         faults \in Nat, faults' \in Nat, faults <= faults',
         Fault => faults' = faults + 1,
         Environment, ~DeviceReset
  PROVE  Orderly' /\ WithinBudget'
<1>1. TypeOK
  BY DEF TransferInv
<1>2. ~DeviceAbort
  <2> SUFFICES ASSUME DeviceAbort PROVE FALSE
    OBVIOUS
  <2>1. req # <<>> /\ Head(req).cmd = "abort"
    BY DEF DeviceAbort
  <2>2. Head(req) = req[1] /\ 1 \in 1 .. Len(req)
    BY <1>1, <2>1, QueueTail DEF TypeOK
  <2> QED
    BY <2>1, <2>2 DEF Orderly, OwnSession
<1>3. LoseFrame \/ DeviceReplies \/ DeviceData
  BY <1>2 DEF Environment
<1>4. Orderly'
  BY <1>3, EnvironmentOrderly
<1>5. Answers
  BY <1>1, <1>3, DeviceAnswers
<1>6. WithinBudget'
  <2>1. CASE DeviceData
    BY <2>1, DataBudget
  <2>2. CASE LoseFrame /\ ~DeviceData
    <3>1. faults' = faults + 1
      BY <1>2, <2>2 DEF Fault, LossFault
    <3>2. rsp' = rsp
      BY <2>2 DEF LoseFrame
    <3> QED
      BY <1>5, <3>1, <3>2, LossBudget
  <2>3. CASE DeviceReplies
    <3>1. req # <<>> /\ Head(req) = req[1]
      BY <1>1, <2>3, QueueTail DEF DeviceReplies, TypeOK
    <3>2. PICK h : h = req[1]
      OBVIOUS
    <3>3. rsp' = rsp \/ \E ok \in BOOLEAN : rsp' = Append(rsp, Reply(h, ok))
      BY <2>3, <3>1, <3>2 DEF DeviceReplies, Deliver
    <3>4. \A r : rsp # Append(rsp, r)
      <4>1. rsp \in Seq(ReplySet)
        BY <1>1 DEF TypeOK
      <4> QED
        BY <4>1
    <3>5. ASSUME NEW r, rsp' = Append(rsp, r), r # Reply(h, Obeyable(h))
          PROVE  rsp' # Append(rsp, Reply(h, Obeyable(h)))
      <4>1. rsp \in Seq(ReplySet)
        BY <1>1 DEF TypeOK
      <4> QED
        BY <3>5, <4>1
    <3>6. CASE rsp' = rsp
      <4>1. faults' = faults + 1
        BY <2>3, <3>1, <3>2, <3>4, <3>6 DEF Fault, ReplyFault
      <4> QED
        BY <1>5, <3>6, <4>1, LossBudget
    <3>7. ASSUME NEW ok \in BOOLEAN, rsp' = Append(rsp, Reply(h, ok))
          PROVE  WithinBudget'
      <4>1. CASE ok <=> Obeyable(h)
        BY <2>3, <3>2, <3>7, <4>1, ReplyBudget
      <4>2. CASE ~(ok <=> Obeyable(h))
        <5>1. Reply(h, ok) # Reply(h, Obeyable(h))
          <6>1. Reply(h, ok).ok = ok /\ Reply(h, Obeyable(h)).ok = Obeyable(h)
            BY DEF Reply
          <6> QED
            BY <4>2, <6>1
        <5>2. rsp' # Append(rsp, Reply(h, Obeyable(h)))
          BY <3>5, <3>7, <5>1
        <5>3. faults' = faults + 1
          BY <2>3, <3>1, <3>2, <5>2 DEF Fault, ReplyFault
        <5> QED
          BY <2>3, <3>2, <3>7, <5>3, ReplyBudget
      <4> QED
        BY <4>1, <4>2
    <3> QED
      BY <3>3, <3>6, <3>7
  <2> QED
    BY <1>3, <2>1, <2>2, <2>3
<1> QED
  BY <1>4, <1>6

\* The end of an attempt that failed.
LEMMA RetryLive ==
  ASSUME TransferInv, TypeOK', Orderly, WithinBudget, run = 1, state # "failed",
         faults \in Nat, faults' \in Nat, faults <= faults',
         NEW x, Retry(x), UNCHANGED <<req, dev, cap>>,
         pc \in {"send", "top", "poll"},
         \/ rsp' = rsp /\ (pc' \in {"send", "stop"} => ~Hopeful \/ faults' = faults + 1)
         \/ /\ pc = "poll" /\ rsp # <<>> /\ rsp' = Tail(rsp)
            /\ Matches(rsp[1]) /\ ~Accepts(rsp[1])
  PROVE  /\ state' = "failed" => MaxRetries + 1 <= faults'
         /\ pc' \in {"send", "top", "poll"} => Orderly' /\ WithinBudget'
<1>1. /\ attempt \in 0 .. MaxRetries /\ MaxRetries \in Nat
      /\ \/ attempt = MaxRetries /\ pc' = "abort" /\ state' = state
         \/ attempt = MaxRetries /\ pc' = "stop" /\ state' = "failed"
         \/ /\ pc' = "send" /\ state' = state /\ block' = block
            /\ op' = IF op \in BlockOps THEN "block_begin" ELSE op
  BY TransferAssumption DEF Retry, AttemptLeft, TransferInv, TypeOK
<1>2. CASE pc' = "abort"
  BY <1>1, <1>2
<1>3. CASE pc' \in {"send", "stop"}
  <2>1. /\ attempt + 1 <= faults'
        /\ pc' = "send" => WithinBudget'
    BY <1>3, RetryCost
  <2>2. ASSUME pc' = "send" PROVE Orderly'
    BY <1>1, <2>2, QuietOrderly DEF Waits
  <2> QED
    BY <1>1, <1>3, <2>1, <2>2
<1> QED
  BY <1>1, <1>2, <1>3

\* What a reply that is accepted leads to.
LEMMA AdvanceLive ==
  ASSUME TypeOK, Advance, CapabilityVerdict(ImageSize, cap) = "none",
         state # "failed"
  PROVE  state' # "failed" /\ pc' \in {"send", "stop"}
<1>1. ASSUME NEW o \in {"cap0", "cap1", "start", "start_crc", "start_version",
                        "block_begin", "end"},
             NEW k, Begin(o, k)
      PROVE  state' # "failed" /\ pc' = "send"
  BY <1>1 DEF Begin, StateOf, CapabilityPages, BlockOps
<1> QED
  BY <1>1 DEF Advance, Continue

\* A step of the worker before it gives up, is cancelled or is done.
LEMMA WorkerKeepsBudget ==
  ASSUME TransferInv, TransferInv', Orderly, WithinBudget, run = 1,
         state # "failed", pc \in {"send", "top", "poll"},
         faults \in Nat, faults' \in Nat, faults <= faults',
         Fault => faults' = faults + 1,
         CapabilityVerdict(ImageSize, cap) = "none",
         Worker
  PROVE  /\ state' = "failed" => MaxRetries + 1 <= faults'
         /\ pc' \in {"send", "top", "poll"} => Orderly' /\ WithinBudget'
<1>1. TypeOK /\ TypeOK'
  BY DEF TransferInv
<1>2. ~Open /\ ~SendAbort /\ ~Stop
  BY DEF Open, SendAbort, Stop
<1>3. ASSUME NEW s \in WorkerSteps, Goto(s), UNCHANGED <<req, rsp, dev, cap>>,
             s = "abort" \/ (Waits /\ s \in {"top", "poll"})
      PROVE  /\ state' = "failed" => MaxRetries + 1 <= faults'
             /\ pc' \in {"send", "top", "poll"} => Orderly' /\ WithinBudget'
  <2>1. /\ pc' = s
        /\ UNCHANGED <<state, op, attempt, block, sequence>>
    BY <1>3 DEF Goto
  <2>2. CASE s = "abort"
    BY <2>1, <2>2
  <2>3. CASE Waits /\ s \in {"top", "poll"}
    <3>1. pc' = pc \/ (Waits /\ Waits')
      BY <2>1, <2>3 DEF Waits
    <3>2. Orderly'
      BY <1>3, <2>1, <3>1, QuietOrderly
    <3>3. WithinBudget'
      BY <1>1, <1>3, <2>1, <3>1, IdleBudget
    <3> QED
      BY <2>1, <3>2, <3>3
  <2> QED
    BY <1>3, <2>2, <2>3
<1>4. CASE Send
  <2>1. pc = "send" /\ op # "data" /\ UNCHANGED <<run, session, rsp, dev, cap>>
    BY <1>4 DEF Send, deviceVars
  <2>2. CASE Goto("abort") /\ UNCHANGED req
    BY <1>3, <2>1, <2>2 DEF WorkerSteps
  <2>3. CASE ~cancel /\ Retry("io_error") /\ UNCHANGED req
    <3>1. faults' = faults + 1
      BY <2>1, <2>3 DEF Fault, IoFault
    <3> QED
      BY <1>1, <2>1, <2>3, <3>1, RetryLive
  <2>4. CASE /\ req' = Append(req, Request) /\ pc' = "top"
             /\ UNCHANGED <<state, error, op, attempt, block, sequence, outcome>>
    <3>1. Orderly'
      BY <2>1, <2>4, SentOrderly
    <3>2. WithinBudget'
      BY <1>1, <2>1, <2>4, SentBudget
    <3> QED
      BY <2>4, <3>1, <3>2
  <2> QED
    BY <1>4, <2>2, <2>3, <2>4 DEF Send
<1>5. CASE SendData
  <2>1. pc = "send" /\ op = "data" /\ UNCHANGED <<run, session, rsp, dev, cap>>
    BY <1>5 DEF SendData, deviceVars
  <2>2. CASE Goto("abort") /\ UNCHANGED req
    BY <1>3, <2>1, <2>2 DEF WorkerSteps
  <2>3. CASE ~cancel /\ Retry("io_error") /\ UNCHANGED req
    <3>1. faults' = faults + 1
      BY <2>1, <2>3 DEF Fault, IoFault
    <3> QED
      BY <1>1, <2>1, <2>3, <3>1, RetryLive
  <2>4. CASE /\ req' = Append(req, Request)
             /\ IF sequence + 1 < Frames(block)
                  THEN /\ sequence' = sequence + 1
                       /\ UNCHANGED <<state, error, pc, op, attempt, block,
                                      outcome>>
                  ELSE Continue("block_end")
    <3>1. /\ pc' = "send" /\ UNCHANGED <<state, attempt, block>>
          /\ \/ sequence + 1 < Frames(block) /\ op' = op /\ sequence' = sequence + 1
             \/ ~(sequence + 1 < Frames(block)) /\ op' = "block_end" /\ sequence' = 0
      BY <2>1, <2>4 DEF Continue
    <3>2. Orderly'
      BY <2>1, <2>4, <3>1, SentOrderly
    <3>3. WithinBudget'
      BY <1>1, <2>1, <2>4, <3>1, SentBudget
    <3> QED
      BY <3>1, <3>2, <3>3
  <2> QED
    BY <1>5, <2>2, <2>3, <2>4 DEF SendData
<1>6. CASE Timeout
  <2>1. pc = "top" /\ Retry("timeout") /\ UNCHANGED <<run, req, rsp, dev, cap>>
    BY <1>6 DEF Timeout, deviceVars
  <2>2. ASSUME pc' \in {"send", "stop"}
        PROVE  ~Hopeful \/ faults' = faults + 1
    <3>1. ~Await
      BY <2>2 DEF Await, Goto
    <3>2. CASE req # <<>> \/ rsp # <<>>
      BY <1>6, <3>1, <3>2 DEF Fault, EarlyTimeout
    <3>3. CASE req = <<>> /\ rsp = <<>>
      <4>1. Len(req) = 0 /\ Len(rsp) = 0
        BY <3>3
      <4> QED
        BY <2>1, <4>1 DEF Hopeful
    <3> QED
      BY <3>2, <3>3
  <2> QED
    BY <1>1, <2>1, <2>2, RetryLive
<1>7. CASE Await
  <2>1. pc = "top" /\ (Goto("abort") \/ Goto("poll")) /\ UNCHANGED <<run, req, rsp, dev, cap>>
    BY <1>7 DEF Await, deviceVars
  <2> QED
    BY <1>3, <2>1 DEF WorkerSteps, Waits
<1>8. CASE PollNothing
  <2>1. pc = "poll" /\ UNCHANGED <<run, req, rsp, dev, cap>>
    BY <1>8 DEF PollNothing, deviceVars
  <2>2. CASE Goto("top")
    BY <1>3, <2>1, <2>2 DEF WorkerSteps, Waits
  <2>3. CASE Retry("io_error")
    <3>1. faults' = faults + 1
      BY <2>1, <2>3 DEF Fault, IoFault
    <3> QED
      BY <1>1, <2>1, <2>3, <3>1, RetryLive
  <2> QED
    BY <1>8, <2>2, <2>3 DEF PollNothing
<1>9. CASE PollReply
  <2>1. /\ pc = "poll" /\ rsp # <<>> /\ rsp' = Tail(rsp)
        /\ UNCHANGED <<run, session, req, dev, cap>>
    BY <1>9 DEF PollReply, deviceVars
  <2>2. Head(rsp) = rsp[1]
    BY <1>1, <2>1, QueueTail DEF TypeOK
  <2>3. PICK r : r = rsp[1]
    OBVIOUS
  <2>4. \/ ~Matches(r) /\ Goto("top")
        \/ Accepts(r) /\ Advance
        \/ Matches(r) /\ ~Accepts(r) /\ (Retry("ack") \/ Retry("nack"))
    BY <1>9, <2>2, <2>3 DEF PollReply
  <2>5. CASE ~Matches(r) /\ Goto("top")
    <3>1. pc' = "top" /\ UNCHANGED <<state, op, attempt, block, sequence>>
      BY <2>5 DEF Goto
    <3>2. Orderly'
      <4>1. Waits /\ Waits'
        BY <2>1, <3>1 DEF Waits
      <4> QED
        BY <2>1, <3>1, <4>1, QuietOrderly
    <3>3. WithinBudget'
      BY <1>1, <2>1, <2>3, <2>5, <3>1, MismatchBudget
    <3> QED
      BY <3>1, <3>2, <3>3
  <2>6. CASE Accepts(r) /\ Advance
    <3>1. state' # "failed" /\ pc' \in {"send", "stop"}
      BY <1>1, <2>6, AdvanceLive
    <3>2. ASSUME pc' = "send" PROVE Orderly' /\ WithinBudget'
      <4>1. Orderly'
        BY <2>1, <2>2, <2>3, <2>6, <3>2, AdvanceOrderly
      <4>2. WithinBudget'
        BY <2>1, <2>3, <2>6, <3>2, AdvanceBudget
      <4> QED
        BY <4>1, <4>2
    <3> QED
      BY <3>1, <3>2
  <2>7. ASSUME NEW x, Matches(r), ~Accepts(r), Retry(x)
        PROVE  /\ state' = "failed" => MaxRetries + 1 <= faults'
               /\ pc' \in {"send", "top", "poll"} => Orderly' /\ WithinBudget'
    BY <1>1, <2>1, <2>3, <2>7, RetryLive
  <2> QED
    BY <2>4, <2>5, <2>6, <2>7
<1> QED
  BY <1>2, <1>4, <1>5, <1>6, <1>7, <1>8, <1>9 DEF Worker

-----------------------------------------------------------------------------
(* The invariant and the theorem.                                          *)

\* Every bootloader takes the image, and there are retries for every fault.
RetriesSuffice ==
  /\ FaultBudget <= MaxRetries
  /\ \A c \in Capabilities : CapabilityVerdict(ImageSize, c) = "none"

\* The first command is still to be sent.
Unsent == run = 0 \/ (FirstRun /\ pc = "open")

(***************************************************************************)
(* The inductive invariant. A run begins with empty queues and a           *)
(* bootloader without a session; from its first command on it is orderly   *)
(* and within its budget, until it ends or the budget is used up.          *)
(***************************************************************************)
ToleranceInv ==
  /\ TypeOK /\ Lifecycle /\ faults \in Nat
  /\ run = 0 => state = "idle"
  /\ run = 0 \/ FirstRun => TransferInv
  /\ Unsent => req = <<>> /\ rsp = <<>> /\ dev = NoDeviceSession
  /\ Live => Orderly /\ WithinBudget
  /\ RunSucceeds

LEMMA ToleranceInit == Init /\ faults = 0 => ToleranceInv
<1> SUFFICES ASSUME Init, faults = 0 PROVE ToleranceInv
  OBVIOUS
<1>1. TypeOK /\ TransferInv /\ Lifecycle
  BY InitType, InvInit, LifeInit DEF LifeInv
<1>2. run = 0 /\ state = "idle" /\ req = <<>> /\ rsp = <<>> /\ dev = NoDeviceSession
  BY DEF Init
<1> QED
  BY <1>1, <1>2 DEF ToleranceInv, Live, FirstRun, RunSucceeds

LEMMA RunRange == TypeOK => run \in Nat
BY TransferAssumption DEF TypeOK

\* Only the first start begins a run whose faults are counted.
LEMMA ToleranceStart ==
  ASSUME ToleranceInv, TypeOK', Lifecycle', faults' \in Nat, Start
  PROVE  ToleranceInv'
<1>1. /\ run' = run + 1 /\ state' = "ready" /\ pc' = "open" /\ run \in Nat
      /\ UNCHANGED <<req, rsp, dev>>
  BY RunRange DEF ToleranceInv, Start, deviceVars
<1>2. ~Live' /\ RunSucceeds'
  BY <1>1 DEF Live, RunSucceeds
<1>3. CASE run = 0
  <2>1. TransferInv
    BY <1>3 DEF ToleranceInv
  <2>2. run + 1 < SessionSpace
    BY <1>3, TransferAssumption
  <2>3. TransferInv'
    BY <2>1, <2>2, StartStep
  <2>4. req' = <<>> /\ rsp' = <<>> /\ dev' = NoDeviceSession
    BY <1>1, <1>3 DEF ToleranceInv, Unsent, NoDeviceSession, NoBlock
  <2> QED
    BY <1>1, <1>2, <1>3, <2>3, <2>4
    DEF ToleranceInv, NoDeviceSession, NoBlock
<1>4. CASE run > 0
  <2>1. run' # 0 /\ ~FirstRun'
    BY <1>1, <1>4 DEF FirstRun
  <2> QED
    BY <1>2, <2>1 DEF ToleranceInv, Unsent
<1> QED
  BY <1>1, <1>3, <1>4

\* A crash of the host ends the run.
LEMMA ToleranceCrash ==
  ASSUME ToleranceInv, TypeOK', Lifecycle', faults' \in Nat, HostCrash
  PROVE  ToleranceInv'
<1>1. run' # 0 /\ state' = "idle"
  BY RunRange DEF ToleranceInv, HostCrash
<1>2. ~FirstRun'
  BY <1>1 DEF FirstRun
<1> QED
  BY <1>1, <1>2 DEF ToleranceInv, Unsent, Live, RunSucceeds

\* A step that neither the bus nor the worker takes part in.
LEMMA ToleranceQuiet ==
  ASSUME ToleranceInv, TypeOK', Lifecycle', faults' \in Nat,
         faults' = faults \/ Count,
         TransferInv => TransferInv',
         UNCHANGED <<running, state, error, run, pc, op, attempt, block, sequence,
                     req, rsp, dev, cap>>
  PROVE  ToleranceInv'
<1>1. TypeOK /\ faults \in Nat /\ FaultBudget \in Nat
  BY ToleranceAssumption DEF ToleranceInv
<1>2. run = 1 /\ (running \/ state = "failed") =>
        faults <= faults' \/ faults' = FaultBudget + 1
  BY <1>1, CountFacts
<1>3. RunSucceeds'
  BY <1>1, <1>2 DEF ToleranceInv, RunSucceeds
<1>4. ASSUME Live' PROVE Orderly' /\ WithinBudget'
  <2>1. running
    <3>1. pc' # "idle"
      BY <1>4 DEF Live
    <3>2. running' = TRUE
      BY <3>1 DEF Lifecycle
    <3> QED
      BY <3>2
  <2>2. Live /\ faults <= faults'
    BY <1>1, <1>2, <1>4, <2>1 DEF Live, FirstRun
  <2>3. TransferInv /\ Orderly /\ WithinBudget
    BY <2>2 DEF ToleranceInv, Live
  <2>4. Orderly'
    BY <2>3, QuietOrderly
  <2>5. WithinBudget'
    BY <1>1, <2>2, <2>3, IdleBudget
  <2> QED
    BY <2>4, <2>5
<1> QED
  BY <1>3, <1>4 DEF ToleranceInv, FirstRun, Unsent, NoDeviceSession, NoBlock

\* A reset is no fault of the bus.
LEMMA ResetNoFault ==
  ASSUME TypeOK, DeviceReset
  PROVE  ~Fault
<1>1. req' = req /\ pc' = pc /\ attempt' = attempt /\ attempt \in Nat
  BY TransferAssumption DEF DeviceReset, hostVars, TypeOK
<1>2. ASSUME req # <<>> PROVE Tail(req) # req
  BY <1>2, QueueTail DEF TypeOK
<1>3. ~LossFault /\ ~ReplyFault
  BY <1>1, <1>2 DEF LossFault, LoseFrame, ReplyFault, DeviceReplies
<1>4. ASSUME NEW x, Retry(x), pc \in {"send", "top", "poll"} PROVE FALSE
  BY <1>1, <1>4 DEF Retry
<1>5. ~EarlyTimeout /\ ~IoFault
  BY <1>4 DEF EarlyTimeout, Timeout, IoFault
<1> QED
  BY <1>3, <1>5 DEF Fault

\* The bus and the bootloader, whenever they act.
LEMMA ToleranceBus ==
  ASSUME ToleranceInv, TypeOK', Lifecycle', Environment, Count
  PROVE  ToleranceInv'
<1>1. TypeOK /\ faults \in Nat /\ FaultBudget \in Nat
  BY ToleranceAssumption DEF ToleranceInv
<1>2. UNCHANGED <<running, state, error, run, pc>>
  BY DEF Environment, LoseFrame, DeviceReplies, DeviceData, DeviceAbort,
         DeviceReset, hostVars
<1>3. /\ faults' \in Nat
      /\ run = 1 /\ (running \/ state = "failed") =>
           /\ faults <= faults' \/ faults' = FaultBudget + 1
           /\ running /\ Fault /\ faults <= FaultBudget =>
                faults' = faults + 1 \/ faults' = FaultBudget + 1
           /\ running /\ DeviceReset /\ ~Fault => faults' = FaultBudget + 1
  BY <1>1, <1>2, CountFacts
<1>4. ~Unsent
  <2> SUFFICES ASSUME Unsent PROVE FALSE
    OBVIOUS
  <2>1. req = <<>> /\ dev = NoDeviceSession
    BY DEF ToleranceInv
  <2> QED
    BY <2>1 DEF Environment, LoseFrame, DeviceReplies, DeviceData, DeviceAbort,
                DeviceReset
<1>5. ~Unsent' /\ run' # 0
  BY <1>2, <1>4 DEF Unsent, FirstRun
<1>6. RunSucceeds'
  BY <1>1, <1>2, <1>3 DEF ToleranceInv, RunSucceeds
<1>7. FirstRun' => TransferInv'
  BY <1>2, EnvironmentStep DEF ToleranceInv, FirstRun
<1>8. ASSUME Live' PROVE Orderly' /\ WithinBudget'
  <2>1. pc \in {"send", "top", "poll"} /\ run = 1 /\ FirstRun /\ faults' <= FaultBudget
    BY <1>2, <1>8 DEF Live, FirstRun
  <2>2. running
    BY <2>1 DEF ToleranceInv, Lifecycle
  <2>3. faults <= faults' /\ Live
    BY <1>1, <1>3, <2>1, <2>2 DEF Live
  <2>4. Fault => faults' = faults + 1
    BY <1>1, <1>3, <2>1, <2>2, <2>3
  <2>5. ~DeviceReset
    BY <1>1, <1>3, <2>1, <2>2, ResetNoFault
  <2>6. TransferInv /\ Orderly /\ WithinBudget
    BY <2>3 DEF ToleranceInv, Live
  <2> QED
    BY <1>1, <1>3, <2>1, <2>3, <2>4, <2>5, <2>6, BusKeepsBudget
<1> QED
  BY <1>3, <1>5, <1>6, <1>7, <1>8 DEF ToleranceInv

LEMMA WorkerNotOpen ==
  ASSUME Worker
  PROVE  pc' # "open" /\ pc # "idle" /\ run' = run
<1>1. ASSUME NEW x, Retry(x) PROVE pc' # "open"
  BY <1>1 DEF Retry
<1>2. ASSUME Advance PROVE pc' # "open"
  BY <1>2 DEF Advance, Begin, Continue, Fail
<1> QED
  BY <1>1, <1>2
  DEF Worker, Open, Send, SendData, Timeout, Await, PollNothing, PollReply,
      SendAbort, Stop, Begin, Continue, Fail, Goto

\* The socket is opened: nothing is on its way yet.
LEMMA ToleranceOpen ==
  ASSUME ToleranceInv, TypeOK', Lifecycle', FirstRun, Open, faults' \in Nat
  PROVE  /\ Live' => Orderly' /\ WithinBudget'
         /\ RunSucceeds'
<1>1. /\ pc = "open" /\ rsp' = <<>> /\ run' = run /\ UNCHANGED <<req, dev>>
      /\ \/ Fail("transport_open_failed")
         \/ Goto("abort")
         \/ Begin("sync", 0)
  BY DEF Open, deviceVars
<1>2. req = <<>> /\ dev = NoDeviceSession /\ state # "failed"
  BY <1>1 DEF ToleranceInv, Unsent, Lifecycle, Idle, Terminal
<1>3. CASE Fail("transport_open_failed")
  BY <1>3 DEF Fail, Live, RunSucceeds
<1>4. CASE Goto("abort")
  BY <1>2, <1>4 DEF Goto, Live, RunSucceeds
<1>5. CASE Begin("sync", 0)
  <2>1. op' = "sync" /\ attempt' = 0 /\ pc' = "send" /\ state' = "syncing"
    <3>1. StateOf("sync") = "syncing" /\ "sync" \notin CapabilityPages
      BY StateOfFacts DEF CapabilityPages
    <3> QED
      BY <1>5, <3>1 DEF Begin
  <2>2. req' = <<>> /\ rsp' = <<>>
    BY <1>1, <1>2
  <2>3. Orderly'
    BY <1>1, <1>2, <2>1, <2>2, OpenOrderly
  <2>4. WithinBudget'
    <3>1. Len(req') = 0 /\ Len(rsp') = 0
      BY <2>2
    <3> QED
      BY <2>1, <3>1, FreshBudget
  <2> QED
    BY <2>1, <2>3, <2>4 DEF RunSucceeds
<1> QED
  BY <1>1, <1>3, <1>4, <1>5

\* The worker, wherever it is.
LEMMA ToleranceWorker ==
  ASSUME RetriesSuffice, ToleranceInv, TypeOK', Lifecycle', Worker, Count
  PROVE  ToleranceInv'
<1>1. /\ TypeOK /\ Lifecycle /\ faults \in Nat /\ FaultBudget \in Nat
      /\ MaxRetries \in Nat /\ FaultBudget <= MaxRetries
      /\ CapabilityVerdict(ImageSize, cap) = "none"
  BY ToleranceAssumption, TransferAssumption DEF ToleranceInv, RetriesSuffice, TypeOK
<1>2. pc' # "open" /\ pc # "idle" /\ run' = run
  BY WorkerNotOpen
<1>3. running = TRUE /\ pc \in WorkerSteps /\ (Idle <=> pc \in {"idle", "stop"})
  BY <1>1, <1>2 DEF Lifecycle, TypeOK
<1>4. /\ faults' \in Nat
      /\ run = 1 /\ (running' \/ state' = "failed") =>
           /\ faults <= faults' \/ faults' = FaultBudget + 1
           /\ Fault /\ faults <= FaultBudget =>
                faults' = faults + 1 \/ faults' = FaultBudget + 1
  BY <1>1, <1>2, <1>3, CountFacts
<1>5. \/ state' = state
      \/ ~Idle /\ ~Idle'
      \/ ~Idle /\ state' \in Terminal
  BY <1>1, LifeWorker
<1>6. state' = "idle" => state = "idle"
  BY <1>5 DEF Idle, Terminal
<1>7. TransferInv => TransferInv'
  BY WorkerStep
<1>8. CASE run = 0
  <2>1. state = "idle" /\ TransferInv /\ req = <<>> /\ dev = NoDeviceSession
    BY <1>8 DEF ToleranceInv, Unsent
  <2>2. pc = "stop"
    BY <1>2, <1>3, <2>1 DEF Idle
  <2>3. Stop
    BY <2>2 DEF Worker, Open, Send, SendData, Timeout, Await, PollNothing,
                PollReply, SendAbort
  <2>4. UNCHANGED <<req, dev, state>> /\ rsp' = <<>>
    BY <2>3 DEF Stop, deviceVars
  <2>5. req' = <<>> /\ dev' = NoDeviceSession /\ state' = "idle"
    BY <2>1, <2>4
  <2> QED
    BY <1>2, <1>4, <1>7, <1>8, <2>1, <2>4, <2>5
    DEF ToleranceInv, Live, FirstRun, RunSucceeds, NoDeviceSession, NoBlock
<1>9. CASE run # 0 /\ ~FirstRun'
  BY <1>2, <1>4, <1>9
  DEF ToleranceInv, Unsent, Live, FirstRun, RunSucceeds
<1>10. CASE FirstRun'
  <2>1. run = 1 /\ run' = 1 /\ FirstRun
    BY <1>2, <1>5, <1>10 DEF FirstRun, Idle
  <2>2. TransferInv /\ TransferInv' /\ ~Unsent'
    BY <1>2, <1>7, <2>1 DEF ToleranceInv, Unsent
  <2>3. Live' => running'
    BY DEF Live, Lifecycle
  <2>4. /\ Live' => Orderly' /\ WithinBudget'
        /\ RunSucceeds'
    <3>1. CASE faults > FaultBudget
      BY <1>1, <1>4, <2>1, <2>3, <3>1 DEF Live, RunSucceeds
    <3>2. CASE faults' > FaultBudget
      BY <1>1, <1>4, <3>2 DEF Live, RunSucceeds
    <3>3. CASE pc = "open"
      <4>1. Open
        BY <3>3 DEF Worker, Send, SendData, Timeout, Await, PollNothing,
                    PollReply, SendAbort, Stop
      <4> QED
        BY <1>4, <2>1, <4>1, ToleranceOpen
    <3>4. CASE pc = "abort"
      <4>1. SendAbort
        BY <3>4 DEF Worker, Send, SendData, Timeout, Await, PollNothing,
                    PollReply, Open, Stop
      <4> QED
        BY <4>1 DEF SendAbort, Live, RunSucceeds
    <3>5. CASE pc = "stop"
      <4>1. Stop
        BY <3>5 DEF Worker, Send, SendData, Timeout, Await, PollNothing,
                    PollReply, Open, SendAbort
      <4>2. pc' = "idle" /\ UNCHANGED <<state, error>>
        BY <4>1 DEF Stop
      <4> QED
        BY <1>1, <1>4, <2>1, <4>2 DEF ToleranceInv, Live, RunSucceeds
    <3>6. CASE pc \in {"send", "top", "poll"} /\ ~(faults > FaultBudget)
               /\ ~(faults' > FaultBudget)
      <4>1. state # "failed"
        BY <1>3, <3>6 DEF Idle, Terminal
      <4>2. Orderly /\ WithinBudget
        BY <1>1, <2>1, <3>6 DEF ToleranceInv, Live
      <4>3. CASE ~(running' \/ state' = "failed")
        BY <2>3, <4>3 DEF RunSucceeds
      <4>4. CASE running' \/ state' = "failed"
        <5>1. faults <= faults' /\ (Fault => faults' = faults + 1)
          BY <1>1, <1>4, <2>1, <3>6, <4>4
        <5>2. /\ state' = "failed" => MaxRetries + 1 <= faults'
              /\ pc' \in {"send", "top", "poll"} => Orderly' /\ WithinBudget'
          BY <1>1, <1>4, <2>1, <2>2, <3>6, <4>1, <4>2, <5>1, WorkerKeepsBudget
        <5> QED
          BY <1>1, <1>4, <5>2 DEF Live, RunSucceeds
      <4> QED
        BY <4>3, <4>4
    <3> QED
      BY <1>2, <1>3, <3>1, <3>2, <3>3, <3>4, <3>5, <3>6 DEF WorkerSteps
  <2> QED
    BY <1>4, <2>1, <2>2, <2>4 DEF ToleranceInv
<1> QED
  BY <1>8, <1>9, <1>10

LEMMA ToleranceStep ==
  ASSUME RetriesSuffice
  PROVE  ToleranceInv /\ [ToleranceNext]_toleranceVars => ToleranceInv'
<1> SUFFICES ASSUME ToleranceInv, [ToleranceNext]_toleranceVars PROVE ToleranceInv'
  OBVIOUS
<1>1. [Next]_vars
  BY DEF ToleranceNext, toleranceVars, Next
<1>2. TypeOK' /\ Lifecycle'
  BY <1>1, TypeStep, LifecycleStep DEF ToleranceInv
<1>3. (ToleranceNext => Count) /\ (ToleranceNext \/ faults' = faults)
  BY DEF ToleranceNext, toleranceVars
<1>4. faults' \in Nat
  BY <1>3, CountFacts DEF ToleranceInv
<1>5. CASE Start
  BY <1>2, <1>4, <1>5, ToleranceStart
<1>6. CASE HostCrash
  BY <1>2, <1>4, <1>6, ToleranceCrash
<1>7. CASE Cancel
  <2>1. TransferInv => TransferInv'
    BY <1>2, <1>7, CancelStep
  <2>2. UNCHANGED <<running, state, error, run, pc, op, attempt, block, sequence,
                    req, rsp, dev, cap>>
    BY <1>7 DEF Cancel, deviceVars
  <2> QED
    BY <1>2, <1>3, <1>4, <2>1, <2>2, ToleranceQuiet
<1>8. CASE UNCHANGED toleranceVars
  <2>1. UNCHANGED vars /\ faults' = faults
    BY <1>8 DEF toleranceVars
  <2>2. TransferInv => TransferInv'
    BY <1>2, <2>1, StutterStep
  <2>3. UNCHANGED <<running, state, error, run, pc, op, attempt, block, sequence,
                    req, rsp, dev, cap>>
    BY <2>1 DEF vars, hostVars, deviceVars
  <2> QED
    BY <1>2, <1>4, <2>1, <2>2, <2>3, ToleranceQuiet
<1>9. CASE Worker /\ Count
  BY <1>2, <1>9, ToleranceWorker
<1>10. CASE Environment /\ Count
  BY <1>2, <1>10, ToleranceBus
<1> QED
  BY <1>5, <1>6, <1>7, <1>8, <1>9, <1>10 DEF ToleranceNext

(***************************************************************************)
(* A first run that opened its socket, with a bootloader that takes its    *)
(* image, only fails after more faults than max_retries allows each        *)
(* command: lost frames, refused or lost replies, deadlines that pass too  *)
(* early and failing sockets, wherever they fall, and whatever replies of  *)
(* earlier attempts exchange and queryCapability still find in the socket. *)
(* For every number of retries, image and block size, and queue length.    *)
(***************************************************************************)
THEOREM BudgetSuffices ==
  ASSUME RetriesSuffice
  PROVE  ToleranceSpec => []RunSucceeds
<1>1. ToleranceInv => RunSucceeds
  BY DEF ToleranceInv
<1> QED
  BY <1>1, ToleranceInit, ToleranceStep, PTL DEF ToleranceSpec
=============================================================================
