----------------------------- MODULE OtaService ------------------------------
(***************************************************************************)
(* The life of OtaClient inside Stm32OtaNode: who touches running_,        *)
(* cancel_requested_, status_, worker_ and latest_status_, and in which    *)
(* order.  Every region under mutex_ or status_mutex_, every access to the *)
(* atomic flag and every join is a step; between two of them the other     *)
(* threads may do anything.                                                *)
(*                                                                         *)
(* There is the executor, main()'s rclcpp::spin, which runs one service    *)
(* handler or timer callback at a time and at the end destroys the node;   *)
(* the worker thread, which reports states in the order OtaTransfer is     *)
(* checked to report them; and any number of threads that only cancel,     *)
(* which ota_client.hpp allows and the node itself does not have.          *)
(***************************************************************************)
EXTENDS OtaReports, Integers, Sequences

CONSTANTS
  Cancellers,   \* threads that call OtaClient::cancel beside the executor
  MaxStarts,    \* bound: start requests in a behaviour
  Blocks        \* blocks of an image, the steps of its progress

ASSUME ServiceAssumption ==
  /\ MaxStarts \in Nat
  /\ Blocks \in Nat \ {0}
  /\ Cancellers \cap {"executor", "worker"} = {}

VARIABLES
  \* OtaClient
  running,    \* running_
  cancel,     \* cancel_requested_
  status,     \* status_
  listener,   \* whether status_callback_ is set
  handle,     \* worker_.joinable()
  \* Stm32OtaNode
  latest,     \* latest_status_
  published,  \* the last message on /stm32_ota/status
  \* the threads
  pc,         \* where the executor and the cancellers are
  call,       \* the start request the executor is serving
  accepted,   \* what start() is about to return
  response,   \* the last response of /stm32_ota/start
  worker,     \* where the worker is; "none": no such thread
  pending,    \* thread |-> the status it has yet to hand to the callback
  \* bookkeeping of the properties, not of the code
  run,        \* calls that made running_ true
  asked       \* the run in which cancel_requested_ was last set

clientVars == <<running, cancel, status, listener, handle>>
nodeVars   == <<latest, published, call, accepted, response>>
ghostVars  == <<run, asked>>
vars == <<clientVars, nodeVars, pc, worker, pending, ghostVars>>

Callers == {"executor"} \cup Cancellers

\* What a firmware_path may turn out to be.
Paths == {"empty", "unreadable", "too_large", "loadable"}

NoCall == [id |-> 0, path |-> "empty", dry |-> FALSE]
IdleStatus == [state |-> "idle", error |-> "none", progress |-> 0,
               path |-> 0, image |-> 0, capability |-> FALSE]

-----------------------------------------------------------------------------
(* updateStatus: write status_ and take copies of it and of the callback   *)
(* under the lock; call the copy after it.  The callback is                *)
(* Stm32OtaNode::onClientStatus.                                           *)

Delivered(t) == pending[t] = <<>>

Update(t, st, er, pr) ==
  /\ status' = [status EXCEPT !.state = st, !.error = er, !.progress = pr]
  /\ pending' = [pending EXCEPT ![t] = IF listener THEN <<status'>> ELSE <<>>]

Deliver(t) ==
  /\ ~Delivered(t)
  /\ latest' = Head(pending[t])
  /\ pending' = [pending EXCEPT ![t] = <<>>]
  /\ UNCHANGED <<clientVars, published, call, accepted, response, pc, worker,
                 ghostVars>>

-----------------------------------------------------------------------------
(* The executor in handleStartOta and OtaClient::start.                    *)

\* The executor is at step s, with no callback under way.
At(s) == pc["executor"] = s /\ Delivered("executor")
Go(s) == pc' = [pc EXCEPT !["executor"] = s]

HandleStart(path, dry) ==
  /\ At("spin")
  /\ call.id < MaxStarts
  /\ call' = [id |-> call.id + 1, path |-> path, dry |-> dry]
  /\ \/ /\ running
        /\ accepted' = FALSE
        /\ Go("answer")
        /\ UNCHANGED <<running, run>>
     \/ /\ ~running
        /\ running' = TRUE
        /\ run' = run + 1
        /\ Go("prepare")
        /\ UNCHANGED accepted
  /\ UNCHANGED <<cancel, status, listener, handle, latest, published,
                 response, worker, pending, asked>>

\* Not the code: the thread of the previous run is not joined.
PrepareUnjoined ==
  /\ At("prepare")
  /\ status' = [status EXCEPT !.path = call.id, !.image = 0,
                              !.capability = FALSE]
  /\ Go("load")
  /\ UNCHANGED <<running, cancel, listener, handle, nodeVars, worker, pending,
                 ghostVars>>

\* Join the thread of the previous run, which is past its last report, and
\* reset what status_ says of the image.
Prepare ==
  /\ At("prepare")
  /\ handle => worker = "none"
  /\ handle' = FALSE
  /\ status' = [status EXCEPT !.path = call.id, !.image = 0,
                              !.capability = FALSE]
  /\ Go("load")
  /\ UNCHANGED <<running, cancel, listener, nodeVars, worker, pending,
                 ghostVars>>

\* Not the code: a start that fails without a report.
RefuseSilently(e) ==
  /\ accepted' = FALSE
  /\ Go("release")
  /\ UNCHANGED <<status, pending>>

\* start() is about to fail.
Refuse(e) ==
  /\ Update("executor", "failed", e, 0)
  /\ accepted' = FALSE
  /\ Go("release")

BeginLoad ==
  /\ At("load")
  /\ \/ /\ call.path = "empty"
        /\ Refuse("invalid_argument")
     \/ /\ call.path # "empty"
        /\ Update("executor", "syncing", "none", 0)
        /\ Go("read")
        /\ UNCHANGED accepted
  /\ UNCHANGED <<running, cancel, listener, handle, latest, published, call,
                 response, worker, ghostVars>>

\* Not the code: the path of an unreadable file forgets markWorkerStopped.
ReadForgetful ==
  /\ At("read")
  /\ \/ /\ call.path # "loadable"
        /\ Update("executor", "failed", "firmware_open_failed", 0)
        /\ accepted' = FALSE
        /\ Go("answer")
     \/ /\ call.path = "loadable"
        /\ status' = [status EXCEPT !.image = call.id]
        /\ Go(IF call.dry THEN "dry_run" ELSE "arm")
        /\ UNCHANGED <<pending, accepted>>
  /\ UNCHANGED <<running, cancel, listener, handle, latest, published, call,
                 response, worker, ghostVars>>

Read ==
  /\ At("read")
  /\ \/ call.path = "unreadable" /\ Refuse("firmware_open_failed")
     \/ call.path = "too_large" /\ Refuse("firmware_too_large")
     \/ /\ call.path = "loadable"
        /\ status' = [status EXCEPT !.image = call.id]
        /\ Go(IF call.dry THEN "dry_run" ELSE "arm")
        /\ UNCHANGED <<pending, accepted>>
  /\ UNCHANGED <<running, cancel, listener, handle, latest, published, call,
                 response, worker, ghostVars>>

DryRun ==
  /\ At("dry_run")
  /\ Update("executor", "ready", "none", Blocks)
  /\ accepted' = TRUE
  /\ Go("release")
  /\ UNCHANGED <<running, cancel, listener, handle, latest, published, call,
                 response, worker, ghostVars>>

Arm ==
  /\ At("arm")
  /\ cancel' = FALSE
  /\ Update("executor", "ready", "none", 0)
  /\ Go("launch")
  /\ UNCHANGED <<running, listener, handle, nodeVars, worker, ghostVars>>

\* Assigning to a std::thread that is joinable would end the process.
Launch ==
  /\ At("launch")
  /\ \/ /\ handle' = TRUE
        /\ worker' = "ready"
        /\ accepted' = TRUE
        /\ Go("answer")
        /\ UNCHANGED <<status, pending>>
     \/ /\ Refuse("unknown")
        /\ UNCHANGED <<handle, worker>>
  /\ UNCHANGED <<running, cancel, listener, latest, published, call,
                 response, ghostVars>>

\* markWorkerStopped on the paths that start no worker
Release ==
  /\ At("release")
  /\ running' = FALSE
  /\ Go("answer")
  /\ UNCHANGED <<cancel, status, listener, handle, nodeVars, worker, pending,
                 ghostVars>>

\* The rest of handleStartOta: status(), then isRunning(), then publish.
Answer ==
  /\ At("answer")
  /\ response' = [id |-> call.id, accepted |-> accepted, status |-> status,
                  busy |-> FALSE]
  /\ Go("busy")
  /\ UNCHANGED <<clientVars, latest, published, call, accepted, worker,
                 pending, ghostVars>>

AnswerBusy ==
  /\ At("busy")
  /\ response' = [response EXCEPT !.busy = ~response.accepted /\ running]
  /\ published' = latest
  /\ Go("spin")
  /\ UNCHANGED <<clientVars, latest, call, accepted, worker, pending,
                 ghostVars>>

StartSteps ==
  \/ Prepare \/ BeginLoad \/ Read \/ DryRun \/ Arm \/ Launch \/ Release
  \/ Answer \/ AnswerBusy

-----------------------------------------------------------------------------
(* Cancelling, the status timer and the destructors.                       *)

\* handleCancelOta asks isRunning() for its response, then cancels.
HandleCancel ==
  /\ At("spin")
  /\ Go("cancel")
  /\ UNCHANGED <<clientVars, nodeVars, worker, pending, ghostVars>>

Look(t) ==
  /\ pc[t] = "cancel"
  /\ pc["executor"] \notin {"closing", "joining", "gone"}
  /\ pc' = [pc EXCEPT ![t] = IF running THEN "store" ELSE "spin"]
  /\ UNCHANGED <<clientVars, nodeVars, worker, pending, ghostVars>>

Store(t) ==
  /\ pc[t] = "store"
  /\ cancel' = TRUE
  /\ asked' = run
  /\ pc' = [pc EXCEPT ![t] = "spin"]
  /\ UNCHANGED <<running, status, listener, handle, nodeVars, worker, pending,
                 run>>

\* A canceller calls cancel() again.
CallCancel(t) ==
  /\ t \in Cancellers
  /\ pc[t] = "spin"
  /\ pc' = [pc EXCEPT ![t] = "cancel"]
  /\ UNCHANGED <<clientVars, nodeVars, worker, pending, ghostVars>>

\* Timer callback publishStatus
PublishStatus ==
  /\ At("spin")
  /\ published' = latest
  /\ UNCHANGED <<clientVars, latest, call, accepted, response, pc, worker,
                 pending, ghostVars>>

\* ~Stm32OtaNode, once spin returned and nobody else uses the client.
Close ==
  /\ At("spin")
  /\ \A t \in Cancellers : pc[t] # "store"
  /\ listener' = FALSE
  /\ Go("closing")
  /\ UNCHANGED <<running, cancel, status, handle, nodeVars, worker, pending,
                 ghostVars>>

\* cancel() of ~Stm32OtaNode, and the same flag again in ~OtaClient
CloseCancel ==
  /\ At("closing")
  /\ cancel' = TRUE
  /\ asked' = run
  /\ Go("joining")
  /\ UNCHANGED <<running, status, listener, handle, nodeVars, worker, pending,
                 run>>

\* Not the code: the thread is detached instead of joined.
CloseDetach ==
  /\ At("joining")
  /\ handle' = FALSE
  /\ Go("gone")
  /\ UNCHANGED <<running, cancel, status, listener, nodeVars, worker, pending,
                 ghostVars>>

CloseJoin ==
  /\ At("joining")
  /\ handle => worker = "none"
  /\ handle' = FALSE
  /\ Go("gone")
  /\ UNCHANGED <<running, cancel, status, listener, nodeVars, worker, pending,
                 ghostVars>>

ExecutorSteps ==
  \/ StartSteps \/ Look("executor") \/ Store("executor") \/ CloseCancel
  \/ CloseJoin

-----------------------------------------------------------------------------
(* The worker: runTransfer as OtaTransfer shows it to report.  At the step *)
(* "accepted" the capability is checked and not yet reported.              *)

WorkerAt(s) == worker = s /\ Delivered("worker")

Report(st, er, pr, next) ==
  /\ Update("worker", st, er, pr)
  /\ worker' = next
  /\ UNCHANGED <<running, cancel, listener, handle, nodeVars, pc, ghostVars>>

\* Not the code: the worker clears the flag when it begins.
WorkerStepClearing(w, s) ==
  /\ WorkerAt(w)
  /\ Update("worker", s, "none", IF s = "verifying" THEN Blocks ELSE 0)
  /\ worker' = s
  /\ cancel' = IF w = "ready" THEN FALSE ELSE cancel
  /\ UNCHANGED <<running, listener, handle, nodeVars, pc, ghostVars>>

\* updateStatus of the step s, on the way from the step w
WorkerStep(w, s) ==
  /\ WorkerAt(w)
  /\ Report(s, "none", IF s = "verifying" THEN Blocks ELSE 0, s)

\* lines 320-323: capability facts enter status_ ahead of the next report
KeepCapability ==
  /\ WorkerAt("query_capability")
  /\ status' = [status EXCEPT !.capability = TRUE]
  /\ worker' = "accepted"
  /\ UNCHANGED <<running, cancel, listener, handle, nodeVars, pc, pending,
                 ghostVars>>

\* The next iteration of the block loop
Transfer ==
  /\ WorkerAt("transferring")
  /\ status.progress + 1 < Blocks
  /\ Report("transferring", "none", status.progress + 1, "transferring")

Verify ==
  /\ status.progress + 1 = Blocks
  /\ WorkerStep("transferring", "verifying")

Complete ==
  /\ WorkerAt("verifying")
  /\ Report("completed", "none", Blocks, "stop")

FailRun ==
  /\ Delivered("worker")
  /\ \E e \in ErrorsAfter(worker) : Report("failed", e, 0, "stop")

\* stopIfCancelled
CancelRun ==
  /\ cancel
  /\ Delivered("worker")
  /\ "cancelled" \in Following(worker)
  /\ Report("cancelled", "none", 0, "stop")

\* Not the code: running_ is cleared before the last callback returned.
StopEarly ==
  /\ worker = "stop"
  /\ running' = FALSE
  /\ worker' = "exit"
  /\ UNCHANGED <<cancel, status, listener, handle, nodeVars, pc, pending,
                 ghostVars>>

\* markWorkerStopped
Stop ==
  /\ WorkerAt("stop")
  /\ running' = FALSE
  /\ worker' = "exit"
  /\ UNCHANGED <<cancel, status, listener, handle, nodeVars, pc, pending,
                 ghostVars>>

\* runTransfer returns: the thread may be joined from now on.
Exit ==
  /\ WorkerAt("exit")
  /\ worker' = "none"
  /\ UNCHANGED <<clientVars, nodeVars, pc, pending, ghostVars>>

Worker ==
  \/ WorkerStep("ready", "syncing") \/ WorkerStep("syncing", "query_capability")
  \/ KeepCapability \/ WorkerStep("accepted", "starting")
  \/ WorkerStep("starting", "transferring") \/ Transfer \/ Verify
  \/ Complete \/ FailRun \/ CancelRun \/ Stop \/ Exit

-----------------------------------------------------------------------------
Init ==
  /\ running = FALSE
  /\ cancel = FALSE
  /\ status = IdleStatus
  /\ listener = TRUE
  /\ handle = FALSE
  /\ latest = IdleStatus
  /\ published = IdleStatus
  /\ pc = [t \in Callers |-> "spin"]
  /\ call = NoCall
  /\ accepted = FALSE
  /\ response = [id |-> 0, accepted |-> FALSE, status |-> IdleStatus,
                 busy |-> FALSE]
  /\ worker = "none"
  /\ pending = [t \in Callers \cup {"worker"} |-> <<>>]
  /\ run = 0
  /\ asked = 0

Next ==
  \/ \E path \in Paths, dry \in BOOLEAN : HandleStart(path, dry)
  \/ ExecutorSteps
  \/ HandleCancel \/ PublishStatus \/ Close
  \/ \E t \in Cancellers : CallCancel(t) \/ Look(t) \/ Store(t)
  \/ Worker
  \/ \E t \in {"executor", "worker"} : Deliver(t)

Spec == Init /\ [][Next]_vars

(***************************************************************************)
(* Every thread the system runs is scheduled, a handler that was entered   *)
(* goes on, and the timer, which is due again and again, is served between *)
(* the requests.  Nobody has to call a service or to end the process.      *)
(***************************************************************************)
Fairness ==
  /\ WF_vars(Worker)
  /\ WF_vars(Deliver("worker"))
  /\ WF_vars(ExecutorSteps)
  /\ WF_vars(Deliver("executor"))
  /\ SF_vars(PublishStatus)

FairSpec == Spec /\ Fairness

-----------------------------------------------------------------------------
StatusSet ==
  [state : OtaStates, error : OtaErrors \cup StartErrors,
   progress : 0 .. Blocks, path : 0 .. MaxStarts, image : 0 .. MaxStarts,
   capability : BOOLEAN]

ExecutorPoints == {"spin", "prepare", "load", "read", "dry_run", "arm",
                   "launch", "release", "answer", "busy", "cancel", "store",
                   "closing", "joining", "gone"}

WorkerPoints == {"none", "ready", "syncing", "query_capability", "accepted",
                 "starting", "transferring", "verifying", "stop", "exit"}

TypeOK ==
  /\ running \in BOOLEAN
  /\ cancel \in BOOLEAN
  /\ status \in StatusSet
  /\ listener \in BOOLEAN
  /\ handle \in BOOLEAN
  /\ latest \in StatusSet
  /\ published \in StatusSet
  /\ pc \in [Callers -> ExecutorPoints]
  /\ call \in [id : 0 .. MaxStarts, path : Paths, dry : BOOLEAN]
  /\ accepted \in BOOLEAN
  /\ response \in [id : 0 .. MaxStarts, accepted : BOOLEAN,
                   status : StatusSet, busy : BOOLEAN]
  /\ worker \in WorkerPoints
  /\ pending \in [Callers \cup {"worker"} -> Seq(StatusSet)]
  /\ run \in 0 .. call.id
  /\ asked \in 0 .. run

(***************************************************************************)
(* start() assigns to worker_ only when no thread is left in it and the    *)
(* thread of the run before is over: otherwise the process terminates, or  *)
(* two workers talk to one bootloader.                                     *)
(***************************************************************************)
LaunchIsSafe == pc["executor"] = "launch" => ~handle /\ worker = "none"

(***************************************************************************)
(* Whoever sees the client not running sees the run's last word: status_   *)
(* is final, and so is the copy the node publishes from.  The callback is  *)
(* called outside the lock, so a later report might have been overtaken.   *)
(***************************************************************************)
IdleIsSettled ==
  ~running /\ listener =>
    /\ latest = status
    /\ status.state \in Terminal \cup {"idle", "ready"}

(***************************************************************************)
(* A run that reports "cancelled" was asked to, after it had been started: *)
(* a cancel request that came too late for its run does not cancel the     *)
(* next one.                                                               *)
(***************************************************************************)
CancelledWasAsked ==
  [][status.state # "cancelled" /\ status'.state = "cancelled"
       => asked = run]_vars

(***************************************************************************)
(* Once the node is destroyed no thread uses it, or the client, any more.  *)
(***************************************************************************)
NothingOutlivesNode ==
  pc["executor"] = "gone" => worker = "none" /\ pending["worker"] = <<>>

(***************************************************************************)
(* An accepted start is answered with the facts of its own image, however  *)
(* far the worker has come meanwhile, and a start refused for itself - not *)
(* because another one is running - with its failure.                      *)
(***************************************************************************)
AnswerIsOwn ==
  /\ response.accepted =>
       response.status.path = response.id /\ response.status.image = response.id
  /\ ~response.accepted /\ response.id # 0 /\ response.status.path = response.id
       => response.status.state = "failed"

(***************************************************************************)
(* A cancel request made in a run stands until that run ends.              *)
(***************************************************************************)
CancelStands ==
  [][cancel /\ asked = run /\ running /\ running' => cancel']_vars

(***************************************************************************)
(* If nothing else is asked of the node, subscribers come to see the final *)
(* state of the last run, and the client is free again; and the destructor *)
(* returns: the worker it joins is never stuck.                            *)
(***************************************************************************)
Settles ==
  /\ <>[](\/ pc["executor"] = "gone"
          \/ ~running /\ published = status)
  /\ pc["executor"] = "joining" ~> pc["executor"] = "gone"
=============================================================================
