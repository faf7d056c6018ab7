---------------------------- MODULE OtaTransfer -----------------------------
(***************************************************************************)
(* One OTA transfer after another over a CAN bus that delays and loses     *)
(* frames: the worker thread of OtaClient (runTransfer, exchange,          *)
(* exchangeWithRetry, queryCapability, sendBlock, stopIfCancelled), the    *)
(* two queues between host and bootloader, and the bootloader.             *)
(*                                                                         *)
(* The bootloader is not part of the repository.  It is modelled from what *)
(* the host relies on: the commands ota_protocol.cpp builds, the replies   *)
(* it parses and the duties docs/protocol_v1.md gives the device.          *)
(*                                                                         *)
(* A firmware image is named by the run that sends it (1, 2, ...); 0 is    *)
(* erased flash.  A CRC is the identity of what it was computed from.      *)
(***************************************************************************)
EXTENDS OtaBlocks, OtaReports, Sequences

CONSTANTS
  MaxRetries,      \* Options::max_retries
  ImageSize,       \* bytes of every image
  Capabilities,    \* capability records a bootloader may report
  SessionSpace,    \* values of the uint16 session id (65536)
  TxCapacity,      \* frames the bus queues towards the bootloader
  RxCapacity,      \* frames the receive buffer of the host's socket holds
  MaxRuns,         \* bound: accepted starts in a behaviour
  HostMayCrash,    \* whether the host process may die and be restarted
  DeviceMayReset   \* whether the bootloader may lose power

ASSUME TransferAssumption ==
  /\ MaxRetries \in Nat
  /\ ImageSize \in Nat \ {0}
  /\ Capabilities \subseteq
       [protocolVersion : Nat, blockSize : Nat, maxFwSize : Nat]
  /\ SessionSpace \in Nat \ {0, 1}
  /\ TxCapacity \in Nat \ {0}
  /\ RxCapacity \in Nat \ {0}
  /\ MaxRuns \in Nat
  /\ HostMayCrash \in BOOLEAN
  /\ DeviceMayReset \in BOOLEAN

VARIABLES
  \* OtaClient, shared between the worker and the caller's threads
  running,   \* running_
  cancel,    \* cancel_requested_
  state,     \* status_.state
  error,     \* status_.error
  \* the worker thread
  run,       \* which accepted start this is: the identity of the image
  session,   \* session_id of the run
  next,      \* next_session
  pc,        \* where the worker is
  op,        \* the command it is exchanging, or "data"
  attempt,   \* attempt of the enclosing retry loop
  block,     \* block_index
  sequence,  \* DATA frames of the block sent in this attempt
  outcome,   \* result of the last failed exchange
  \* the bus
  req,       \* frames on their way to the bootloader, oldest first
  rsp,       \* frames in the receive buffer of the host's socket
  \* the bootloader
  cap,       \* the capability it reports
  dev,       \* its session, the image announced, and the open block
  flash      \* block index |-> the image whose block the flash holds

hostVars   == <<running, cancel, state, error, run, session, next,
                pc, op, attempt, block, sequence, outcome>>
deviceVars == <<cap, dev, flash>>
vars       == <<hostVars, req, rsp, deviceVars>>

-----------------------------------------------------------------------------
(* Names of states, commands and results.                                  *)

WorkerSteps == {"idle", "open", "send", "top", "poll", "abort", "stop"}

CapabilityPages == {"cap0", "cap1"}
BlockOps == {"block_begin", "data", "block_end"}
Ops == {"sync", "start", "start_crc", "start_version", "end"}
         \cup CapabilityPages \cup BlockOps

Sessions == 0 .. SessionSpace - 1
Frames(k) == FrameCount(BlockLength(k, ImageSize, cap.blockSize))

\* Blocks the flash is tracked for: no accepted block size makes more.
FlashBlocks == 0 .. ImageSize - 1

\* The block loop runs over these; a block size of 0 is refused before it.
Blocks == IF cap.blockSize = 0
            THEN FlashBlocks
            ELSE 0 .. BlockCount(ImageSize, cap.blockSize) - 1

NoBlock == ImageSize

-----------------------------------------------------------------------------
(* Frames.  Only START, START_CRC, START_VERSION, BLOCK_BEGIN, BLOCK_END,  *)
(* END and ABORT carry a session.  `index' is the page, the sequence       *)
(* number or the block index; `image' and `block' name what a payload was  *)
(* cut from or what a CRC was computed over.                               *)

Sessioned == {"start", "start_crc", "start_version", "block_begin",
              "block_end", "end", "abort"}

Frame(cmd, ses, index, image, blk) ==
  [cmd |-> cmd, session |-> ses, index |-> index, image |-> image,
   block |-> blk]

Request ==
  CASE op = "start_crc"   -> Frame(op, session, 0, run, 0)
    [] op = "block_begin" -> Frame(op, session, WireIndex(block), 0, 0)
    [] op = "data"        -> Frame(op, 0, WireSequence(sequence), run, block)
    [] op = "block_end"   -> Frame(op, session, WireIndex(block), run, block)
    [] op = "end"         -> Frame(op, session, 0, run, 0)
    [] op \in {"start", "start_version"} -> Frame(op, session, 0, 0, 0)
    [] OTHER              -> Frame(op, 0, 0, 0, 0)

Abort == Frame("abort", session, 0, 0, 0)

\* A reply echoes the command and, but for capability pages, the session.
Reply(m, ok) == [cmd |-> m.cmd, session |-> m.session, ok |-> ok,
                 detail |-> m.index]

FrameSet == [cmd : Ops \cup {"abort"}, session : Sessions,
             index : Nat, image : 0 .. MaxRuns, block : Nat]
ReplySet == [cmd : Ops, session : Sessions, ok : BOOLEAN, detail : Nat]

-----------------------------------------------------------------------------
(* OtaClient::start with an image that loads, and OtaClient::cancel.       *)

\* next_session is post-incremented and a value of 0 is skipped.
SkipZero(n) == IF n % SessionSpace = 0 THEN n + 1 ELSE n

Start ==
  /\ ~running
  /\ run < MaxRuns
  /\ running' = TRUE
  /\ run' = run + 1
  /\ session' = SkipZero(next) % SessionSpace
  /\ next' = SkipZero(next) + 1
  /\ cancel' = FALSE
  /\ state' = "ready"
  /\ error' = "none"
  /\ pc' = "open"
  /\ op' = "sync"
  /\ attempt' = 0
  /\ block' = 0
  /\ sequence' = 0
  /\ outcome' = "none"
  /\ UNCHANGED <<req, rsp, deviceVars>>

Cancel ==
  /\ running
  /\ ~cancel
  /\ cancel' = TRUE
  /\ UNCHANGED <<running, state, error, run, session, next, pc, op, attempt,
                 block, sequence, outcome, req, rsp, deviceVars>>

-----------------------------------------------------------------------------
(* Helpers of the worker's steps.  Each one fixes state', error', pc',     *)
(* op', attempt', block', sequence' and outcome'.                          *)

\* finishFailure up to markWorkerStopped
Fail(e) ==
  /\ state' = "failed"
  /\ error' = e
  /\ pc' = "stop"
  /\ UNCHANGED <<op, attempt, block, sequence, outcome>>

Goto(step) ==
  /\ pc' = step
  /\ UNCHANGED <<state, error, op, attempt, block, sequence, outcome>>

\* The state runTransfer reports before it first sends a command.
StateOf(o) ==
  CASE o = "sync" -> "syncing"
    [] o \in CapabilityPages -> "query_capability"
    [] o \in {"start", "start_crc", "start_version"} -> "starting"
    [] o \in BlockOps -> "transferring"
    [] o = "end" -> "verifying"

\* Not the code: the report ahead of the capability exchange is forgotten.
BeginQuietly(o, k) ==
  /\ op' = o
  /\ block' = k
  /\ attempt' = 0
  /\ sequence' = 0
  /\ pc' = "send"
  /\ state' = IF o \in CapabilityPages THEN state ELSE StateOf(o)
  /\ UNCHANGED <<error, outcome>>

\* Start exchanging o.  Ahead of a block the flag is looked at before
\* "transferring" is reported; the step "send" then sees it set as well.
Begin(o, k) ==
  /\ op' = o
  /\ block' = k
  /\ attempt' = 0
  /\ sequence' = 0
  /\ pc' = "send"
  /\ state' = IF o = "block_begin" /\ cancel THEN state ELSE StateOf(o)
  /\ UNCHANGED <<error, outcome>>

\* Go on within the same attempt of the same block.
Continue(o) ==
  /\ op' = o
  /\ pc' = "send"
  /\ sequence' = 0
  /\ UNCHANGED <<state, error, attempt, block, outcome>>

\* The error reported when every attempt is used up.
ExhaustedError(result) ==
  CASE op \in CapabilityPages -> "capability_rejected"
    [] op \in BlockOps        -> "protocol_error"
    [] OTHER -> CASE result = "timeout"  -> "timeout"
                  [] result = "io_error" -> "transport_io_error"
                  [] OTHER               -> "protocol_error"

\* Not the code: the retry loops give up one attempt early.
OneAttemptLess == attempt + 1 < MaxRetries

\* attempt <= options_.max_retries still holds once it is incremented.
AttemptLeft == attempt < MaxRetries

(***************************************************************************)
(* The end of a failed attempt.  A block is retried from its BLOCK_BEGIN.  *)
(* When no attempt is left, runTransfer looks at the flag once more after  *)
(* queryCapability and sendBlock, and does not after exchangeWithRetry.    *)
(***************************************************************************)
Retry(result) ==
  /\ outcome' = result
  /\ UNCHANGED block
  /\ IF AttemptLeft
       THEN /\ attempt' = attempt + 1
            /\ op' = IF op \in BlockOps THEN "block_begin" ELSE op
            /\ sequence' = 0
            /\ pc' = "send"
            /\ UNCHANGED <<state, error>>
       ELSE /\ UNCHANGED <<attempt, op, sequence>>
            /\ IF cancel /\ op \in CapabilityPages \cup BlockOps
                 THEN pc' = "abort" /\ UNCHANGED <<state, error>>
                 ELSE /\ pc' = "stop"
                      /\ state' = "failed"
                      /\ error' = ExhaustedError(result)

\* What runTransfer does when the exchange of op succeeded.
Advance ==
  \/ op = "sync" /\ Begin("cap0", 0)
  \/ op = "cap0" /\ Begin("cap1", 0)
  \/ /\ op = "cap1"
     /\ IF CapabilityVerdict(ImageSize, cap) = "none"
          THEN Begin("start", 0)
          ELSE Fail(CapabilityVerdict(ImageSize, cap))
  \/ op = "start" /\ Begin("start_crc", 0)
  \/ op = "start_crc" /\ Begin("start_version", 0)
  \/ op = "start_version" /\ Begin("block_begin", 0)
  \/ op = "block_begin" /\ Continue("data")
  \/ /\ op = "block_end"
     /\ IF block + 1 \in Blocks
          THEN Begin("block_begin", block + 1)
          ELSE Begin("end", block + 1)
  \/ /\ op = "end"
     /\ state' = "completed"
     /\ pc' = "stop"
     /\ UNCHANGED <<error, op, attempt, block, sequence, outcome>>

-----------------------------------------------------------------------------
(* The worker thread.                                                      *)

\* The factory and open(): a new socket with an empty receive buffer.
Open ==
  /\ pc = "open"
  /\ \/ Fail("transport_open_failed")
     \/ cancel /\ Goto("abort")
     \/ ~cancel /\ Begin("sync", 0)
  /\ rsp' = <<>>
  /\ UNCHANGED <<running, cancel, run, session, next, req, deviceVars>>

(***************************************************************************)
(* The head of exchange, of an attempt of queryCapability: look at the     *)
(* flag, then send; write() fails when the queue of the interface is full  *)
(* and may fail for other reasons.  stopIfCancelled right before an        *)
(* exchange is the same look at the same flag.                             *)
(***************************************************************************)
Send ==
  /\ pc = "send"
  /\ op # "data"
  /\ \/ /\ cancel
        /\ Goto("abort")
        /\ UNCHANGED req
     \/ /\ ~cancel
        /\ Len(req) < TxCapacity
        /\ req' = Append(req, Request)
        /\ pc' = "top"
        /\ UNCHANGED <<state, error, op, attempt, block, sequence, outcome>>
     \/ /\ ~cancel
        /\ Retry("io_error")
        /\ UNCHANGED req
  /\ UNCHANGED <<running, cancel, run, session, next, rsp, deviceVars>>

\* One iteration of the DATA loop of sendBlock.
SendData ==
  /\ pc = "send"
  /\ op = "data"
  /\ \/ /\ cancel
        /\ Goto("abort")
        /\ UNCHANGED req
     \/ /\ ~cancel
        /\ Len(req) < TxCapacity
        /\ req' = Append(req, Request)
        /\ IF sequence + 1 < Frames(block)
             THEN /\ sequence' = sequence + 1
                  /\ UNCHANGED <<state, error, pc, op, attempt, block,
                                 outcome>>
             ELSE Continue("block_end")
     \/ /\ ~cancel
        /\ Retry("io_error")
        /\ UNCHANGED req
  /\ UNCHANGED <<running, cancel, run, session, next, rsp, deviceVars>>

\* Not the code: a timeout that does not count as an attempt.
TimeoutUncounted ==
  /\ pc = "top"
  /\ Goto("send")
  /\ UNCHANGED <<running, cancel, run, session, next, req, rsp, deviceVars>>

\* The wait loop finds its deadline passed.  It looks at the clock before
\* it looks at the flag.
Timeout ==
  /\ pc = "top"
  /\ Retry("timeout")
  /\ UNCHANGED <<running, cancel, run, session, next, req, rsp, deviceVars>>

\* The wait loop goes round: the capability loop ignores the flag.
Await ==
  /\ pc = "top"
  /\ IF cancel /\ op \notin CapabilityPages THEN Goto("abort") ELSE Goto("poll")
  /\ UNCHANGED <<running, cancel, run, session, next, req, rsp, deviceVars>>

\* receiveById returns without a frame: nothing came, or the socket failed.
PollNothing ==
  /\ pc = "poll"
  /\ \/ rsp = <<>> /\ Goto("top")
     \/ Retry("io_error")
  /\ UNCHANGED <<running, cancel, run, session, next, req, rsp, deviceVars>>

\* The reply is one exchange or parseCapability looks for, and positive.
Matches(r) ==
  /\ r.cmd = op
  /\ op \in CapabilityPages => r.ok
  /\ op \notin CapabilityPages =>
       r.session = IF op \in Sessioned THEN session ELSE 0

\* Not the code: the status of a reply is not checked.
AcceptsRefusal(r) ==
  /\ Matches(r)
  /\ op \in BlockOps => r.detail = WireIndex(block)

Accepts(r) ==
  /\ Matches(r)
  /\ r.ok
  /\ op \in BlockOps => r.detail = WireIndex(block)

PollReply ==
  /\ pc = "poll"
  /\ rsp # <<>>
  /\ LET r == Head(rsp) IN
       \/ ~Matches(r) /\ Goto("top")
       \/ Accepts(r) /\ Advance
       \/ Matches(r) /\ ~Accepts(r) /\ Retry(IF r.ok THEN "ack" ELSE "nack")
  /\ rsp' = Tail(rsp)
  /\ UNCHANGED <<running, cancel, run, session, next, req, deviceVars>>

\* Not the code: ABORT is sent as often as it takes.
SendAbortAgain ==
  /\ pc = "abort"
  /\ Len(req) < TxCapacity
  /\ req' = Append(req, Abort)
  /\ state' = "cancelled"
  /\ error' = "none"
  /\ pc' \in {"abort", "stop"}
  /\ UNCHANGED <<running, cancel, run, session, next, op, attempt, block,
                 sequence, outcome, rsp, deviceVars>>

\* stopIfCancelled with the flag set; whether ABORT could be sent is ignored.
SendAbort ==
  /\ pc = "abort"
  /\ \/ Len(req) < TxCapacity /\ req' = Append(req, Abort)
     \/ UNCHANGED req
  /\ state' = "cancelled"
  /\ error' = "none"
  /\ pc' = "stop"
  /\ UNCHANGED <<running, cancel, run, session, next, op, attempt, block,
                 sequence, outcome, rsp, deviceVars>>

\* close() and markWorkerStopped
Stop ==
  /\ pc = "stop"
  /\ running' = FALSE
  /\ pc' = "idle"
  /\ rsp' = <<>>
  /\ UNCHANGED <<cancel, state, error, run, session, next, op, attempt,
                 block, sequence, outcome, req, deviceVars>>

Worker == \/ Open \/ Send \/ SendData \/ Timeout \/ Await \/ PollNothing
          \/ PollReply \/ SendAbort \/ Stop

\* The process dies, and a new one counts its sessions from 1 again.
HostCrash ==
  /\ HostMayCrash
  /\ run > 0
  /\ run < MaxRuns
  /\ running' = FALSE
  /\ cancel' = FALSE
  /\ state' = "idle"
  /\ error' = "none"
  /\ pc' = "idle"
  /\ next' = 1
  /\ rsp' = <<>>
  /\ UNCHANGED <<run, session, op, attempt, block, sequence, outcome, req,
                 deviceVars>>

-----------------------------------------------------------------------------
(* The bus and the bootloader.                                             *)

SocketOpen == pc \notin {"idle", "open", "stop"}

\* The oldest frame towards the bootloader is lost.
LoseFrame ==
  /\ req # <<>>
  /\ req' = Tail(req)
  /\ UNCHANGED <<hostVars, rsp, deviceVars>>

\* A reply reaches the socket, or is lost on the bus or in a full buffer.
Deliver(r) ==
  \/ UNCHANGED rsp
  \/ SocketOpen /\ Len(rsp) < RxCapacity /\ rsp' = Append(rsp, r)

DevSet == [session : Sessions, image : 0 .. MaxRuns, open : Nat, got : Nat,
           from : SUBSET [image : 0 .. MaxRuns, block : Nat]]

NoDeviceSession ==
  [session |-> 0, image |-> 0, open |-> NoBlock, got |-> 0, from |-> {}]

\* BLOCK_END: the block is all there and its CRC16 is the announced one.
BlockIntact(m) ==
  /\ dev.open = m.index
  /\ m.index \in Blocks
  /\ dev.got = Frames(m.index)
  /\ dev.from = {[image |-> m.image, block |-> m.block]}

\* END: the CRC32 over the flash is the one of START_CRC and of END.
ImageIntact(m) ==
  /\ dev.image = m.image
  /\ \A k \in Blocks : flash[k] = m.image

\* What the bootloader does with a command it accepts.
Obey(m) ==
  \/ /\ m.cmd \in {"sync", "start_version"} \cup CapabilityPages
     /\ UNCHANGED <<dev, flash>>
  \/ /\ m.cmd = "start"
     /\ dev' = [NoDeviceSession EXCEPT !.session = m.session]
     /\ flash' = [k \in FlashBlocks |-> 0]
  \/ /\ m.cmd = "start_crc"
     /\ dev' = [dev EXCEPT !.image = m.image]
     /\ UNCHANGED flash
  \/ /\ m.cmd = "block_begin"
     /\ m.index \in Blocks
     /\ dev' = [dev EXCEPT !.open = m.index, !.got = 0, !.from = {}]
     /\ UNCHANGED flash
  \/ /\ m.cmd = "block_end"
     /\ BlockIntact(m)
     /\ dev' = [dev EXCEPT !.open = NoBlock, !.got = 0, !.from = {}]
     /\ flash' = [flash EXCEPT ![m.index] = m.image]
  \/ /\ m.cmd = "end"
     /\ ImageIntact(m)
     /\ UNCHANGED <<dev, flash>>

\* The session is the one START opened, where the command carries one.
SessionKnown(m) ==
  m.cmd \in Sessioned \ {"start"} => dev.session # 0 /\ m.session = dev.session

\* A control command is carried out and acknowledged, or refused.
DeviceReplies ==
  /\ req # <<>>
  /\ LET m == Head(req) IN
     /\ m.cmd \notin {"data", "abort"}
     /\ \/ SessionKnown(m) /\ Obey(m) /\ Deliver(Reply(m, TRUE))
        \/ Deliver(Reply(m, FALSE)) /\ UNCHANGED <<dev, flash>>
  /\ req' = Tail(req)
  /\ UNCHANGED <<hostVars, cap>>

\* DATA is buffered when it is the expected frame of the open block.
DeviceData ==
  /\ req # <<>>
  /\ LET m == Head(req) IN
     /\ m.cmd = "data"
     /\ dev' = IF dev.open # NoBlock /\ m.index = dev.got
                                     /\ dev.got < Frames(dev.open)
                 THEN [dev EXCEPT !.got = @ + 1,
                                  !.from = @ \cup {[image |-> m.image,
                                                    block |-> m.block]}]
                 ELSE dev
  /\ req' = Tail(req)
  /\ UNCHANGED <<hostVars, rsp, cap, flash>>

DeviceAbort ==
  /\ req # <<>>
  /\ Head(req).cmd = "abort"
  /\ dev' = IF SessionKnown(Head(req)) THEN NoDeviceSession ELSE dev
  /\ req' = Tail(req)
  /\ UNCHANGED <<hostVars, rsp, cap, flash>>

\* Power loss: RAM is gone, the flash stays.
DeviceReset ==
  /\ DeviceMayReset
  /\ dev # NoDeviceSession
  /\ dev' = NoDeviceSession
  /\ UNCHANGED <<hostVars, req, rsp, cap, flash>>

Environment == \/ LoseFrame \/ DeviceReplies \/ DeviceData \/ DeviceAbort
               \/ DeviceReset

-----------------------------------------------------------------------------
Init ==
  /\ running = FALSE
  /\ cancel = FALSE
  /\ state = "idle"
  /\ error = "none"
  /\ run = 0
  /\ session = 0
  /\ next = 1
  /\ pc = "idle"
  /\ op = "sync"
  /\ attempt = 0
  /\ block = 0
  /\ sequence = 0
  /\ outcome = "none"
  /\ req = <<>>
  /\ rsp = <<>>
  /\ cap \in Capabilities
  /\ dev = NoDeviceSession
  /\ flash = [k \in FlashBlocks |-> 0]

Next == Start \/ Cancel \/ Worker \/ HostCrash \/ Environment

Spec == Init /\ [][Next]_vars

(***************************************************************************)
(* The worker is a thread the system schedules, and the steady clock its   *)
(* wait loop reads passes every deadline.  Nothing is assumed of the bus,  *)
(* the bootloader or the caller.                                           *)
(***************************************************************************)
Fairness == WF_vars(Worker) /\ SF_vars(Timeout)

FairSpec == Spec /\ Fairness

-----------------------------------------------------------------------------
TypeOK ==
  /\ running \in BOOLEAN
  /\ cancel \in BOOLEAN
  /\ state \in OtaStates
  /\ error \in OtaErrors
  /\ run \in 0 .. MaxRuns
  /\ session \in Sessions
  /\ next \in Nat
  /\ pc \in WorkerSteps
  /\ op \in Ops
  /\ attempt \in 0 .. MaxRetries
  /\ block \in Nat
  /\ sequence \in Nat
  /\ outcome \in {"none", "ack", "nack", "timeout", "io_error"}
  /\ req \in Seq(FrameSet)
  /\ rsp \in Seq(ReplySet)
  /\ cap \in Capabilities
  /\ dev \in DevSet
  /\ flash \in [FlashBlocks -> 0 .. MaxRuns]

(***************************************************************************)
(* "completed" is only ever reported when the flash holds the image of     *)
(* this run, every block of it, and it stays true while it is reported,    *)
(* whatever retransmissions, late replies and frames of earlier runs are   *)
(* still on the bus.                                                       *)
(***************************************************************************)
CompletedIsFlashed ==
  state = "completed" => \A k \in Blocks : flash[k] = run

(***************************************************************************)
(* The block loop never runs ahead of the flash: when the host works on    *)
(* block k (or asks for the verification), the flash holds blocks 0..k-1   *)
(* of this image - no late ACK of another attempt, block or run is taken   *)
(* for the ACK of a block that is not written.                             *)
(***************************************************************************)
HostNeverAhead ==
  /\ SocketOpen
  /\ op \in BlockOps \cup {"end"}
  => \A k \in Blocks : k < block => flash[k] = run

(***************************************************************************)
(* Once ABORT of a session is on the bus nothing of that session follows   *)
(* it: a cancelled run sends one ABORT, as its last frame.                 *)
(***************************************************************************)
AbortIsLast ==
  \A i, j \in 1 .. Len(req) :
    i < j /\ req[i].cmd = "abort" /\ req[j].cmd \in Sessioned
      => req[j].session # req[i].session

(***************************************************************************)
(* The client implements the contract of OtaUpdate: an update is reported  *)
(* completed once its whole image is in flash, and no frame that is still  *)
(* on the bus then changes the flash afterwards.                           *)
(***************************************************************************)
Phase ==
  CASE state = "idle" -> "idle"
    [] state \in Terminal -> state
    [] OTHER -> "active"

Missing == {k \in Blocks : flash[k] # run}

Update == INSTANCE OtaUpdate WITH Blocks <- FlashBlocks, phase <- Phase,
                                  missing <- Missing

UpdateSpec == Update!Spec

(***************************************************************************)
(* The worker reports its states in the order OtaService relies on, fails  *)
(* with the errors that belong to the state it was in, and is cancelled    *)
(* only with the flag set - on every path through its retries and early    *)
(* returns.                                                                *)
(***************************************************************************)
ReportsInOrder ==
  [][run' = run /\ state' # state /\ state' # "idle"
       => /\ state' \in Following(state)
          /\ state' = "failed" => error' \in ErrorsAfter(state)
          /\ state' = "cancelled" => cancel]_vars

(***************************************************************************)
(* A run always ends, whatever the bus and the bootloader do or fail to    *)
(* do: every retry loop is bounded and every wait has a deadline.          *)
(***************************************************************************)
RunEnds == running ~> ~running

-----------------------------------------------------------------------------
(* A statement of the repository that the code does not keep.              *)

(***************************************************************************)
(* docs/protocol_v1.md says that on cancellation the host sends ABORT and  *)
(* ends its task: a worker that goes down with the flag set, and did not   *)
(* complete, has sent ABORT.  It has not when the last attempt of an       *)
(* exchange runs out while the flag is set.                                *)
(***************************************************************************)
CancelSendsAbort ==
  [][SocketOpen /\ cancel /\ pc' = "stop"
       => state' \in {"cancelled", "completed"}]_vars
=============================================================================
