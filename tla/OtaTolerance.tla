---------------------------- MODULE OtaTolerance ----------------------------
(***************************************************************************)
(* OtaTransfer with the faults of its first run counted: how many lost     *)
(* frames, late or refused replies and I/O errors does max_retries really  *)
(* buy?  The retry loops count attempts per command, but a reply that      *)
(* comes after its attempt was given up stays in the socket's buffer and   *)
(* is read by a later exchange, so one fault could in principle cost       *)
(* several attempts of several commands.                                   *)
(***************************************************************************)
EXTENDS OtaTransfer

CONSTANT FaultBudget   \* faults a run is to survive; more are not told apart

ASSUME ToleranceAssumption == FaultBudget \in Nat

VARIABLE faults   \* faults the first run has met since it started

toleranceVars == <<vars, faults>>

\* The command at the head of the queue can be carried out.
Obeyable(m) ==
  /\ SessionKnown(m)
  /\ m.cmd = "block_begin" => m.index \in Blocks
  /\ m.cmd = "block_end" => BlockIntact(m)
  /\ m.cmd = "end" => ImageIntact(m)

\* The bootloader's answer, had nothing gone wrong, is not what arrived.
ReplyFault ==
  /\ DeviceReplies
  /\ rsp' # Append(rsp, Reply(Head(req), Obeyable(Head(req))))

\* A deadline passes although frames are still on their way.
EarlyTimeout == Timeout /\ ~Await /\ (req # <<>> \/ rsp # <<>>)

IoFault ==
  /\ pc = "poll" \/ (pc = "send" /\ ~cancel)
  /\ Retry("io_error")

\* A DATA frame the bootloader has no use for is not missed when it is lost.
LossFault == LoseFrame /\ ~DeviceData /\ ~DeviceAbort

Fault == LossFault \/ ReplyFault \/ EarlyTimeout \/ IoFault

\* A bootloader that loses its session ends the run: no budget covers it.
Count ==
  faults' = CASE run' # 1 \/ (~running' /\ state' # "failed") -> 0
              [] ~running          -> faults
              [] DeviceReset       -> FaultBudget + 1
              [] Fault /\ faults <= FaultBudget -> faults + 1
              [] OTHER             -> faults

ToleranceNext ==
  \/ Start /\ Count
  \/ Cancel /\ Count
  \/ Worker /\ Count
  \/ HostCrash /\ Count
  \/ Environment /\ Count

ToleranceSpec == Init /\ faults = 0 /\ [][ToleranceNext]_toleranceVars

(***************************************************************************)
(* With no more faults than max_retries, wherever they fall, a run that    *)
(* opened its socket does not fail: leftover replies never cost a command  *)
(* more attempts than it has.                                              *)
(***************************************************************************)
RunSucceeds ==
  run = 1 /\ state = "failed" /\ error # "transport_open_failed"
    => faults > FaultBudget
=============================================================================
