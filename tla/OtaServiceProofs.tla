-------------------------- MODULE OtaServiceProofs --------------------------
(***************************************************************************)
(* Proofs about OtaService, for every number of starts, blocks and         *)
(* cancelling threads.                                                     *)
(***************************************************************************)
EXTENDS OtaService, TLAPS

(***************************************************************************)
(* The inductive invariant.  running_ is a lock that the executor takes in *)
(* HandleStart, hands to the worker in Launch, and that whoever holds it   *)
(* last gives back; only its holder writes status_ and has a callback      *)
(* under way.                                                              *)
(***************************************************************************)
Executor == pc["executor"]
Prepared == {"load", "read", "dry_run", "arm", "launch", "release"}
Starting == {"prepare"} \cup Prepared
WorkerLive == worker \notin {"none", "exit"}

\* The report t made last is on its way to the node, or there.
Handed(t) == \/ pending[t] = <<status>>
             \/ pending[t] = <<>> /\ latest = status

OneHolder ==
  /\ running <=> Executor \in Starting \/ WorkerLive
  /\ ~(Executor \in Starting /\ WorkerLive)
  /\ worker # "none" => handle
  /\ Executor \in Prepared \cup {"gone"} => ~handle

OneReporter ==
  /\ pending["executor"] # <<>> => Executor \in Starting
  /\ pending["worker"] # <<>> => WorkerLive
  /\ Executor \notin {"closing", "joining", "gone"} => listener

LastWord ==
  /\ listener =>
       /\ Executor = "release" => Handed("executor")
       /\ worker = "stop" => Handed("worker")
       /\ ~running => latest = status
  /\ Executor = "release" => status.state \in {"failed", "ready"}
  /\ worker = "stop" => status.state \in Terminal
  /\ ~running => status.state \in Terminal \cup {"idle", "ready"}

FlagIsOwn == cancel /\ (WorkerLive \/ Executor = "launch") => asked = run

\* What the answer of a start will say is already true, and stays so.
OwnFacts ==
  /\ status.path <= call.id
  /\ Executor \in Prepared => status.path = call.id
  /\ Executor \in {"dry_run", "arm", "launch"} => status.image = call.id
  /\ Executor \in {"release", "answer"} =>
       /\ accepted => status.path = call.id /\ status.image = call.id
       /\ ~accepted /\ status.path = call.id =>
            status.state = "failed" /\ ~WorkerLive

SafeParts ==
  /\ OneHolder
  /\ OneReporter
  /\ LastWord
  /\ FlagIsOwn
  /\ OwnFacts
  /\ AnswerIsOwn

ServiceInv == TypeOK /\ SafeParts

-----------------------------------------------------------------------------
(* Every update writes a status of the right type.                         *)

LEMMA Threads == "executor" \in Callers /\ "worker" \notin Callers
  BY ServiceAssumption DEF Callers

LEMMA UpdateType ==
  ASSUME TypeOK,
         NEW t \in {"executor", "worker"},
         NEW st \in OtaStates,
         NEW er \in OtaErrors \cup StartErrors,
         NEW pr \in 0 .. Blocks,
         Update(t, st, er, pr)
  PROVE  /\ status' \in StatusSet
         /\ pending' \in [Callers \cup {"worker"} -> Seq(StatusSet)]
  <1>1. status' \in StatusSet
    BY DEF TypeOK, Update, StatusSet
  <1>2. <<status'>> \in Seq(StatusSet) /\ <<>> \in Seq(StatusSet)
    BY <1>1
  <1>3. QED
    BY <1>1, <1>2 DEF TypeOK, Update

LEMMA ReportType ==
  ASSUME TypeOK,
         NEW st \in OtaStates,
         NEW er \in OtaErrors \cup StartErrors,
         NEW pr \in 0 .. Blocks,
         NEW next \in WorkerPoints,
         Report(st, er, pr, next)
  PROVE  TypeOK'
  <1>1. Update("worker", st, er, pr)
    BY DEF Report
  <1>2. /\ status' \in StatusSet
        /\ pending' \in [Callers \cup {"worker"} -> Seq(StatusSet)]
    BY <1>1, UpdateType
  <1>3. QED
    BY <1>2 DEF TypeOK, Report, nodeVars, ghostVars

LEMMA RefuseType ==
  ASSUME TypeOK,
         NEW e \in StartErrors,
         Refuse(e)
  PROVE  /\ status' \in StatusSet
         /\ pending' \in [Callers \cup {"worker"} -> Seq(StatusSet)]
         /\ accepted' \in BOOLEAN
         /\ pc' \in [Callers -> ExecutorPoints]
  <1>1. Update("executor", "failed", e, 0)
    BY DEF Refuse
  <1>2. "failed" \in OtaStates /\ 0 \in 0 .. Blocks
    BY ServiceAssumption DEF OtaStates
  <1>3. /\ status' \in StatusSet
        /\ pending' \in [Callers \cup {"worker"} -> Seq(StatusSet)]
    BY <1>1, <1>2, UpdateType
  <1>4. QED
    BY <1>3 DEF TypeOK, Refuse, Go, ExecutorPoints

LEMMA InitType == Init => TypeOK
  <1> SUFFICES ASSUME Init PROVE TypeOK
    OBVIOUS
  <1>1. IdleStatus \in StatusSet
    BY ServiceAssumption DEF IdleStatus, StatusSet, OtaStates, OtaErrors
  <1>2. /\ status \in StatusSet /\ latest \in StatusSet /\ published \in StatusSet
        /\ 0 \in 0 .. MaxStarts
    BY <1>1, ServiceAssumption DEF Init
  <1>3. response \in [id : 0 .. MaxStarts, accepted : BOOLEAN,
                      status : StatusSet, busy : BOOLEAN]
    BY <1>1, <1>2 DEF Init
  <1>4. /\ pending \in [Callers \cup {"worker"} -> Seq(StatusSet)]
        /\ call \in [id : 0 .. MaxStarts, path : Paths, dry : BOOLEAN]
        /\ run \in 0 .. call.id
        /\ asked \in 0 .. run
    BY <1>2 DEF Init, NoCall, Paths
  <1>5. QED
    BY <1>2, <1>3, <1>4 DEF Init, TypeOK, ExecutorPoints, WorkerPoints

LEMMA StatusEdits ==
  ASSUME TypeOK
  PROVE  /\ [status EXCEPT !.path = call.id, !.image = 0, !.capability = FALSE]
              \in StatusSet
         /\ [status EXCEPT !.image = call.id] \in StatusSet
         /\ [status EXCEPT !.capability = TRUE] \in StatusSet
  <1>1. status \in StatusSet /\ call.id \in 0 .. MaxStarts /\ 0 \in 0 .. MaxStarts
    BY ServiceAssumption DEF TypeOK
  <1>2. QED
    BY <1>1 DEF StatusSet

LEMMA StepType == TypeOK /\ [Next]_vars => TypeOK'
  <1> SUFFICES ASSUME TypeOK, [Next]_vars PROVE TypeOK'
    OBVIOUS
  <1> USE Threads DEF nodeVars, clientVars, ghostVars
  <1>1. ASSUME NEW path \in Paths, NEW dry \in BOOLEAN, HandleStart(path, dry)
        PROVE  TypeOK'
    <2>1. call.id \in Nat /\ call.id + 1 \in 0 .. MaxStarts
      BY <1>1, ServiceAssumption DEF TypeOK, HandleStart
    <2>2. call' \in [id : 0 .. MaxStarts, path : Paths, dry : BOOLEAN]
      BY <1>1, <2>1 DEF HandleStart
    <2>3. run' \in 0 .. call'.id /\ asked' \in 0 .. run'
      BY <1>1, <2>1 DEF HandleStart, TypeOK
    <2>4. QED
      BY <1>1, <2>2, <2>3 DEF TypeOK, HandleStart, Go, ExecutorPoints
  <1>2. CASE Prepare
    BY <1>2, StatusEdits DEF TypeOK, Prepare, Go, ExecutorPoints
  <1>3. CASE BeginLoad
    <2>1. CASE Refuse("invalid_argument")
      BY <2>1, <1>3, RefuseType DEF TypeOK, BeginLoad, StartErrors
    <2>2. CASE Update("executor", "syncing", "none", 0) /\ Go("read")
                 /\ UNCHANGED accepted
      <3>1. "syncing" \in OtaStates /\ "none" \in OtaErrors /\ 0 \in 0 .. Blocks
        BY ServiceAssumption DEF OtaStates, OtaErrors
      <3>2. /\ status' \in StatusSet
            /\ pending' \in [Callers \cup {"worker"} -> Seq(StatusSet)]
        BY <2>2, <3>1, UpdateType
      <3>3. QED
        BY <2>2, <1>3, <3>2 DEF TypeOK, BeginLoad, Go, ExecutorPoints
    <2>3. QED
      BY <1>3, <2>1, <2>2 DEF BeginLoad
  <1>4. CASE Read
    <2>1. ASSUME NEW e \in StartErrors, Refuse(e) PROVE TypeOK'
      BY <2>1, <1>4, RefuseType DEF TypeOK, Read
    <2>2. CASE call.path = "loadable"
      BY <2>2, <1>4, StatusEdits DEF TypeOK, Read, Go, ExecutorPoints
    <2>3. QED
      BY <1>4, <2>1, <2>2 DEF Read, StartErrors
  <1>5. CASE DryRun
    <2>1. "ready" \in OtaStates /\ "none" \in OtaErrors /\ Blocks \in 0 .. Blocks
      BY ServiceAssumption DEF OtaStates, OtaErrors
    <2>2. /\ status' \in StatusSet
          /\ pending' \in [Callers \cup {"worker"} -> Seq(StatusSet)]
      BY <1>5, <2>1, UpdateType DEF DryRun
    <2>3. QED
      BY <1>5, <2>2 DEF TypeOK, DryRun, Go, ExecutorPoints
  <1>6. CASE Arm
    <2>1. "ready" \in OtaStates /\ "none" \in OtaErrors /\ 0 \in 0 .. Blocks
      BY ServiceAssumption DEF OtaStates, OtaErrors
    <2>2. /\ status' \in StatusSet
          /\ pending' \in [Callers \cup {"worker"} -> Seq(StatusSet)]
      BY <1>6, <2>1, UpdateType DEF Arm
    <2>3. QED
      BY <1>6, <2>2 DEF TypeOK, Arm, Go, ExecutorPoints
  <1>7. CASE Launch
    <2>1. CASE Refuse("unknown") /\ UNCHANGED <<handle, worker>>
      BY <2>1, <1>7, RefuseType DEF TypeOK, Launch, StartErrors
    <2>2. CASE /\ handle' = TRUE
               /\ worker' = "ready"
               /\ accepted' = TRUE
               /\ Go("answer")
               /\ UNCHANGED <<status, pending>>
      BY <2>2, <1>7 DEF TypeOK, Launch, Go, ExecutorPoints, WorkerPoints
    <2>3. QED
      BY <1>7, <2>1, <2>2 DEF Launch
  <1>8. CASE Release \/ HandleCancel \/ PublishStatus \/ Close \/ CloseJoin
    BY <1>8
    DEF TypeOK, Release, HandleCancel, PublishStatus, Close, CloseJoin, Go,
        ExecutorPoints
  <1>9. CASE Answer
    <2>1. response' \in [id : 0 .. MaxStarts, accepted : BOOLEAN,
                         status : StatusSet, busy : BOOLEAN]
      BY <1>9 DEF TypeOK, Answer
    <2>2. QED
      BY <1>9, <2>1 DEF TypeOK, Answer, Go, ExecutorPoints
  <1>10. CASE AnswerBusy
    <2>1. response' \in [id : 0 .. MaxStarts, accepted : BOOLEAN,
                         status : StatusSet, busy : BOOLEAN]
      BY <1>10 DEF TypeOK, AnswerBusy
    <2>2. QED
      BY <1>10, <2>1 DEF TypeOK, AnswerBusy, Go, ExecutorPoints
  <1>11. ASSUME NEW t \in Callers, Look(t) \/ Store(t) \/ CallCancel(t)
         PROVE  TypeOK'
    <2>1. run \in Nat /\ asked' \in 0 .. run
      BY <1>11, ServiceAssumption DEF TypeOK, Look, Store, CallCancel
    <2>2. QED
      BY <1>11, <2>1 DEF TypeOK, Look, Store, CallCancel, ExecutorPoints
  <1>12. CASE CloseCancel
    <2>1. run \in Nat /\ asked' \in 0 .. run
      BY <1>12, ServiceAssumption DEF TypeOK, CloseCancel
    <2>2. QED
      BY <1>12, <2>1 DEF TypeOK, CloseCancel, Go, ExecutorPoints
  <1>13. CASE Worker
    <2> DEFINE Word == OtaErrors \cup StartErrors
    <2>1. 0 \in 0 .. Blocks /\ Blocks \in 0 .. Blocks /\ "none" \in Word
      BY ServiceAssumption DEF OtaErrors
    <2>2. ASSUME NEW w \in WorkerPoints,
                 NEW s \in OtaStates \cap WorkerPoints,
                 WorkerStep(w, s)
          PROVE  TypeOK'
      BY <2>1, <2>2, ReportType DEF WorkerStep
    <2>3. CASE KeepCapability
      BY <2>3, StatusEdits DEF TypeOK, KeepCapability, WorkerPoints
    <2>4. CASE Transfer
      <3>1. status.progress + 1 \in 0 .. Blocks
        BY <2>4, ServiceAssumption DEF TypeOK, StatusSet, Transfer
      <3>2. QED
        BY <2>1, <2>4, <3>1, ReportType
        DEF Transfer, OtaStates, WorkerPoints
    <2>5. CASE Complete \/ CancelRun
      BY <2>1, <2>5, ReportType
      DEF Complete, CancelRun, OtaStates, WorkerPoints
    <2>6. CASE FailRun
      <3>1. PICK e \in ErrorsAfter(worker) : Report("failed", e, 0, "stop")
        BY <2>6 DEF FailRun
      <3>2. e \in Word
        BY <3>1 DEF ErrorsAfter, OtaErrors
      <3>3. QED
        BY <2>1, <3>1, <3>2, ReportType DEF OtaStates, WorkerPoints
    <2>7. CASE Stop \/ Exit
      BY <2>7 DEF TypeOK, Stop, Exit, WorkerPoints
    <2>8. QED
      BY <1>13, <2>2, <2>3, <2>4, <2>5, <2>6, <2>7
      DEF Worker, Verify, OtaStates, WorkerPoints
  <1>14. ASSUME NEW t \in {"executor", "worker"}, Deliver(t)
         PROVE  TypeOK'
    <2>1. pending[t] \in Seq(StatusSet) /\ pending[t] # <<>>
      BY <1>14 DEF TypeOK, Deliver, Delivered
    <2>2. Head(pending[t]) \in StatusSet
      BY <2>1
    <2>3. QED
      BY <1>14, <2>2 DEF TypeOK, Deliver
  <1>15. CASE UNCHANGED vars
    BY <1>15 DEF TypeOK, vars
  <1>16. QED
    BY <1>1, <1>2, <1>3, <1>4, <1>5, <1>6, <1>7, <1>8, <1>9, <1>10, <1>11,
       <1>12, <1>13, <1>14, <1>15
    DEF Next, ExecutorSteps, StartSteps, Callers

(***************************************************************************)
(* Type correctness.                                                       *)
(***************************************************************************)
THEOREM TypeCorrect == Spec => []TypeOK
  BY InitType, StepType, PTL DEF Spec

(***************************************************************************)
(* What a report changes, of status_ and of the callbacks under way.       *)
(***************************************************************************)
LEMMA UpdateFacts ==
  ASSUME TypeOK,
         NEW t \in {"executor", "worker"},
         NEW st, NEW er, NEW pr,
         Update(t, st, er, pr)
  PROVE  /\ status'.state = st
         /\ status'.path = status.path
         /\ status'.image = status.image
         /\ \A u \in Callers \cup {"worker"} :
              pending'[u] = IF u # t THEN pending[u]
                            ELSE IF listener THEN <<status'>> ELSE <<>>
  BY DEF TypeOK, StatusSet, Update

LEMMA NotEmpty == \A x : <<x>> # <<>>
  OBVIOUS

LEMMA RefuseStep ==
  ASSUME ServiceInv,
         pc["executor"] \in {"load", "read", "launch"},
         NEW e, Refuse(e),
         UNCHANGED <<running, cancel, listener, handle, latest, published, call,
                     response, worker, ghostVars>>
  PROVE  SafeParts'
  <1> USE Threads, NotEmpty DEF ServiceInv, ghostVars
  <1>1. /\ pc' = [pc EXCEPT !["executor"] = "release"]
        /\ accepted' = FALSE
        /\ Update("executor", "failed", e, 0)
    BY DEF Refuse, Go
  <1>2. /\ status'.state = "failed"
        /\ status'.path = status.path
        /\ status'.image = status.image
        /\ pending'["executor"] = IF listener THEN <<status'>> ELSE <<>>
        /\ pending'["worker"] = pending["worker"]
    BY <1>1, UpdateFacts
  <1>3. QED
    BY <1>1, <1>2
    DEF TypeOK, Executor, Prepared, Starting, WorkerLive, Handed, SafeParts,
        OneHolder, OneReporter, LastWord, FlagIsOwn, OwnFacts, AnswerIsOwn

LEMMA ReportStep ==
  ASSUME ServiceInv,
         WorkerLive,
         NEW st, NEW er, NEW pr,
         NEW next \in WorkerPoints \ {"none", "exit"},
         next = "stop" => st \in Terminal,
         Report(st, er, pr, next)
  PROVE  SafeParts'
  <1> USE Threads, NotEmpty DEF ServiceInv, ghostVars, nodeVars
  <1>1. /\ worker' = next
        /\ Update("worker", st, er, pr)
        /\ UNCHANGED <<running, cancel, listener, handle, nodeVars, pc, ghostVars>>
    BY DEF Report
  <1>2. /\ status'.state = st
        /\ status'.path = status.path
        /\ status'.image = status.image
        /\ pending'["worker"] = IF listener THEN <<status'>> ELSE <<>>
        /\ pending'["executor"] = pending["executor"]
    BY <1>1, UpdateFacts
  <1>3. QED
    BY <1>1, <1>2
    DEF TypeOK, Executor, Prepared, Starting, WorkerLive, Handed, SafeParts,
        OneHolder, OneReporter, LastWord, FlagIsOwn, OwnFacts, AnswerIsOwn

LEMMA StepSafe ==
  ASSUME ServiceInv, [Next]_vars
  PROVE  SafeParts'
  <1> USE Threads, NotEmpty
      DEF nodeVars, clientVars, ghostVars, ServiceInv, SafeParts, TypeOK,
          OneHolder, OneReporter, LastWord, FlagIsOwn, OwnFacts, AnswerIsOwn,
          Executor, Prepared, Starting, WorkerLive, Handed, At, Go, Delivered
  <1>1. ASSUME NEW path \in Paths, NEW dry \in BOOLEAN, HandleStart(path, dry)
        PROVE  SafeParts'
    BY <1>1, ServiceAssumption DEF HandleStart, StatusSet
  <1>2. CASE Prepare
    BY <1>2 DEF Prepare
  <1>3. CASE BeginLoad
    <2>1. CASE Refuse("invalid_argument")
      BY <1>3, <2>1, RefuseStep DEF BeginLoad
    <2>2. CASE Update("executor", "syncing", "none", 0) /\ Go("read")
                 /\ UNCHANGED accepted
      BY <1>3, <2>2, UpdateFacts
      DEF BeginLoad
    <2>3. QED
      BY <1>3, <2>1, <2>2 DEF BeginLoad
  <1>4. CASE Read
    <2>1. ASSUME NEW e, Refuse(e) PROVE SafeParts'
      BY <1>4, <2>1, RefuseStep DEF Read
    <2>2. CASE /\ status' = [status EXCEPT !.image = call.id]
               /\ Go(IF call.dry THEN "dry_run" ELSE "arm")
               /\ UNCHANGED <<pending, accepted>>
      BY <1>4, <2>2 DEF StatusSet, Read
    <2>3. QED
      BY <1>4, <2>1, <2>2 DEF Read
  <1>5. CASE DryRun
    BY <1>5 DEF DryRun, Update
  <1>6. CASE Arm
    BY <1>6 DEF Arm, Update
  <1>7. CASE Launch
    <2>1. CASE Refuse("unknown") /\ UNCHANGED <<handle, worker>>
      BY <1>7, <2>1, RefuseStep DEF Launch
    <2>2. CASE /\ handle' = TRUE
               /\ worker' = "ready"
               /\ accepted' = TRUE
               /\ Go("answer")
               /\ UNCHANGED <<status, pending>>
      BY <1>7, <2>2 DEF Launch
    <2>3. QED
      BY <1>7, <2>1, <2>2 DEF Launch
  <1>8. CASE Release
    <2>1. /\ Executor = "release" /\ Executor' = "answer"
          /\ pending["executor"] = <<>> /\ UNCHANGED <<pending, status, latest>>
          /\ ~WorkerLive /\ ~WorkerLive'
      BY <1>8 DEF Release
    <2>2. listener => latest = status
      BY <2>1
    <2>3. status.state \in {"failed", "ready"}
      BY <2>1
    <2>4. LastWord'
      BY <1>8, <2>1, <2>2, <2>3 DEF Release, Terminal
    <2>5. QED
      BY <1>8, <2>4 DEF Release
  <1>9. CASE Answer
    BY <1>9 DEF Answer
  <1>10. CASE AnswerBusy
    BY <1>10 DEF AnswerBusy
  <1>11. CASE HandleCancel
    BY <1>11 DEF HandleCancel
  <1>12. CASE PublishStatus
    BY <1>12 DEF PublishStatus
  <1>13. CASE Close
    BY <1>13 DEF Close
  <1>14. CASE CloseCancel
    BY <1>14 DEF CloseCancel
  <1>15. CASE CloseJoin
    BY <1>15 DEF CloseJoin
  <1>16. CASE KeepCapability
    BY <1>16 DEF KeepCapability, WorkerAt
  <1>17. CASE Stop
    BY <1>17 DEF Stop, WorkerAt
  <1>18. CASE Exit
    BY <1>18 DEF Exit, WorkerAt
  <1>19. ASSUME NEW t \in Callers, Look(t) \/ Store(t) \/ CallCancel(t)
         PROVE  SafeParts'
    <2>1. pc \in [Callers -> ExecutorPoints]
      BY DEF TypeOK
    <2>2. pc[t] \in {"spin", "cancel", "store"}
      BY <1>19 DEF Look, Store, CallCancel
    <2>3. PICK s \in {"spin", "cancel", "store"} : pc' = [pc EXCEPT ![t] = s]
      BY <1>19 DEF Look, Store, CallCancel
    <2>4. \/ pc'["executor"] = pc["executor"]
          \/ {pc["executor"], pc'["executor"]} \subseteq {"spin", "cancel", "store"}
      BY <2>1, <2>2, <2>3
    <2>5. QED
      BY <1>19, <2>4 DEF Look, Store, CallCancel
  <1>20. CASE Worker
    <2> USE DEF WorkerPoints, Terminal, WorkerLive, WorkerAt
    <2>1. ASSUME NEW w \in WorkerPoints \ {"none", "exit"},
                 NEW s \in OtaStates \cap WorkerPoints,
                 WorkerStep(w, s)
          PROVE  SafeParts'
      BY <2>1, ReportStep DEF WorkerStep, OtaStates
    <2>2. CASE Transfer
      BY <2>2, ReportStep DEF Transfer
    <2>3. CASE Complete
      BY <2>3, ReportStep DEF Complete
    <2>4. CASE FailRun
      BY <2>4, ReportStep DEF FailRun, ErrorsAfter
    <2>5. CASE CancelRun
      BY <2>5, ReportStep DEF CancelRun, Following
    <2>6. QED
      BY <1>16, <1>17, <1>18, <1>20, <2>1, <2>2, <2>3, <2>4, <2>5
      DEF Worker, Verify, OtaStates
  <1>21. ASSUME NEW t \in {"executor", "worker"}, Deliver(t)
         PROVE  SafeParts'
    BY <1>21 DEF Deliver
  <1>22. CASE UNCHANGED vars
    BY <1>22 DEF vars
  <1>23. QED
    BY <1>1, <1>2, <1>3, <1>4, <1>5, <1>6, <1>7, <1>8, <1>9, <1>10, <1>11,
       <1>12, <1>13, <1>14, <1>15, <1>19, <1>20, <1>21, <1>22
    DEF Next, ExecutorSteps, StartSteps, Callers

LEMMA InitSafe == Init => ServiceInv
  BY InitType, Threads
  DEF Init, ServiceInv, SafeParts, NoCall, IdleStatus, Terminal, TypeOK, Executor, Prepared, Starting, WorkerLive, Handed, OneHolder, OneReporter, LastWord, FlagIsOwn, OwnFacts, AnswerIsOwn

LEMMA StepInv == ServiceInv /\ [Next]_vars => ServiceInv'
  BY StepType, StepSafe DEF ServiceInv

LEMMA Invariant == Spec => []ServiceInv
  BY InitSafe, StepInv, PTL DEF Spec

-----------------------------------------------------------------------------
(***************************************************************************)
(* No worker is started over another, or over a thread not joined.         *)
(***************************************************************************)
THEOREM LaunchSafe == Spec => []LaunchIsSafe
  <1>1. ServiceInv => LaunchIsSafe
    BY DEF ServiceInv, SafeParts, OneHolder, LaunchIsSafe, Executor, Prepared
  <1>2. QED
    BY <1>1, Invariant, PTL

(***************************************************************************)
(* While the client is not running, status_ and the node's copy of it are  *)
(* final and equal.                                                        *)
(***************************************************************************)
THEOREM Settled == Spec => []IdleIsSettled
  <1>1. ServiceInv => IdleIsSettled
    BY DEF ServiceInv, SafeParts, LastWord, IdleIsSettled
  <1>2. QED
    BY <1>1, Invariant, PTL

(***************************************************************************)
(* No thread is left when the node is gone.                                *)
(***************************************************************************)
THEOREM NothingOutlives == Spec => []NothingOutlivesNode
  <1>1. ServiceInv => NothingOutlivesNode
    BY DEF ServiceInv, SafeParts, OneHolder, OneReporter, NothingOutlivesNode,
           Executor, Prepared, WorkerLive
  <1>2. QED
    BY <1>1, Invariant, PTL

(***************************************************************************)
(* A start is answered with its own facts.                                 *)
(***************************************************************************)
THEOREM OwnAnswer == Spec => []AnswerIsOwn
  <1>1. ServiceInv => AnswerIsOwn
    BY DEF ServiceInv, SafeParts
  <1>2. QED
    BY <1>1, Invariant, PTL

(***************************************************************************)
(* A run is cancelled only when that was asked of it.                      *)
(***************************************************************************)
THEOREM CancelledAsked == Spec => CancelledWasAsked
  <1>1. ASSUME ServiceInv, [Next]_vars,
               status.state # "cancelled", status'.state = "cancelled"
        PROVE  asked = run
    <2>1. CASE CancelRun
      <3>1. WorkerLive
        BY <2>1 DEF CancelRun, Following, WorkerLive
      <3>2. QED
        BY <1>1, <2>1, <3>1 DEF CancelRun, ServiceInv, SafeParts, FlagIsOwn
    <2>2. CASE ~CancelRun
      <3>1. ASSUME NEW t \in {"executor", "worker"}, NEW st, NEW er, NEW pr,
                   Update(t, st, er, pr)
            PROVE  st = "cancelled"
        BY <1>1, <3>1, UpdateFacts DEF ServiceInv
      <3>2. ASSUME NEW st, NEW er, NEW pr, NEW next, Report(st, er, pr, next)
            PROVE  st = "cancelled"
        BY <3>1, <3>2 DEF Report
      <3>3. ASSUME status' = status
            PROVE  FALSE
        BY <1>1, <3>3
      <3>4. ~Worker
        BY <1>1, <2>2, <3>2, <3>3
        DEF Worker, WorkerStep, KeepCapability, Transfer, Verify, Complete,
            FailRun, Stop, Exit, ServiceInv, TypeOK, StatusSet, clientVars
      <3>5. ~ExecutorSteps
        BY <1>1, <3>1, <3>3
        DEF ExecutorSteps, StartSteps, Prepare, BeginLoad, Read, DryRun, Arm,
            Launch, Release, Answer, AnswerBusy, Look, Store, CloseCancel,
            CloseJoin, Refuse, ServiceInv, TypeOK, StatusSet, clientVars
      <3>6. QED
        BY <1>1, <3>3, <3>4, <3>5
        DEF Next, HandleStart, HandleCancel, PublishStatus, Close, CallCancel,
            Look, Store, Deliver, clientVars, vars
    <2>3. QED
      BY <2>1, <2>2
  <1>2. ServiceInv /\ [Next]_vars
          => [status.state # "cancelled" /\ status'.state = "cancelled"
                => asked = run]_vars
    BY <1>1
  <1>3. QED
    BY <1>2, Invariant, PTL DEF Spec, CancelledWasAsked

(***************************************************************************)
(* Without other cancelling threads - in the node - the flag of a start    *)
(* that is being served has not been set for it yet.                       *)
(***************************************************************************)
NotYetAsked ==
  Executor \in {"prepare", "load", "read", "dry_run", "arm"} => asked < run

LEMMA NotAskedStep ==
  ASSUME Cancellers = {}, ServiceInv, NotYetAsked, [Next]_vars
  PROVE  NotYetAsked'
  <1> USE Threads DEF ServiceInv, NotYetAsked, Executor
  <1>1. pc \in [Callers -> ExecutorPoints] /\ asked \in 0 .. run /\ run \in Nat
    BY ServiceAssumption DEF TypeOK
  <1>2. ASSUME NEW path \in Paths, NEW dry \in BOOLEAN, HandleStart(path, dry)
        PROVE  NotYetAsked'
    BY <1>1, <1>2 DEF HandleStart, Go
  <1>3. CASE ExecutorSteps
    BY <1>1, <1>3
    DEF ExecutorSteps, StartSteps, Prepare, BeginLoad, Read, DryRun, Arm,
        Launch, Release, Answer, AnswerBusy, Look, Store, CloseCancel,
        CloseJoin, Refuse, At, Go, ghostVars
  <1>4. CASE HandleCancel \/ PublishStatus \/ Close
    BY <1>1, <1>4 DEF HandleCancel, PublishStatus, Close, Go, ghostVars
  <1>5. CASE Worker
    BY <1>1, <1>5
    DEF Worker, WorkerStep, KeepCapability, Transfer, Verify, Complete,
        FailRun, CancelRun, Report, Stop, Exit, ghostVars
  <1>6. ASSUME NEW t \in {"executor", "worker"}, Deliver(t)
        PROVE  NotYetAsked'
    BY <1>6 DEF Deliver, ghostVars
  <1>7. CASE UNCHANGED vars
    BY <1>7 DEF vars, ghostVars
  <1>8. QED
    BY <1>2, <1>3, <1>4, <1>5, <1>6, <1>7 DEF Next

(***************************************************************************)
(* In the node a cancel request stands until its run ends.                 *)
(***************************************************************************)
THEOREM CancelKept ==
  ASSUME Cancellers = {}
  PROVE  Spec => CancelStands
  <1>1. Init => NotYetAsked
    BY Threads DEF Init, NotYetAsked, Executor
  <1>2. ServiceInv /\ NotYetAsked /\ [Next]_vars => NotYetAsked'
    BY NotAskedStep
  <1>3. ASSUME ServiceInv, NotYetAsked, [Next]_vars, cancel, asked = run
        PROVE  cancel'
    <2>1. ~Arm
      BY <1>3, ServiceAssumption
      DEF Arm, At, NotYetAsked, Executor, ServiceInv, TypeOK
    <2>2. ~ExecutorSteps \/ cancel'
      BY <1>3, <2>1
      DEF ExecutorSteps, StartSteps, Prepare, BeginLoad, Read, DryRun,
          Launch, Release, Answer, AnswerBusy, Look, Store, CloseCancel,
          CloseJoin, clientVars
    <2>3. ~Worker \/ cancel'
      BY <1>3
      DEF Worker, WorkerStep, KeepCapability, Transfer, Verify, Complete,
          FailRun, CancelRun, Report, Stop, Exit, clientVars
    <2>4. QED
      BY <1>3, <2>2, <2>3
      DEF Next, HandleStart, HandleCancel, PublishStatus, Close, CallCancel,
          Look, Store, Deliver, clientVars, vars
  <1>4. ServiceInv /\ NotYetAsked /\ [Next]_vars
          => [cancel /\ asked = run /\ running /\ running' => cancel']_vars
    BY <1>3
  <1>5. QED
    BY <1>1, <1>2, <1>4, Invariant, PTL DEF Spec, CancelStands
=============================================================================
