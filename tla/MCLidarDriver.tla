---------------------------- MODULE MCLidarDriver ----------------------------
(***************************************************************************)
(* LidarDriver with the robot's launch file (lidar.launch.py: scan_mode    *)
(* "Standard", no auto standby), and with a launch of each other kind of   *)
(* device, two of them in auto standby, in the typical mode or one by      *)
(* name; and the Transceiver below it.  LidarDriver's stream of tokens is what   *)
(* the Transceiver is shown to deliver, so a behaviour shows one of them.  *)
(***************************************************************************)
EXTENDS LidarDriver

CONSTANTS MaxBytes, MaxBinds

VARIABLES
  layer,
  owner, connected, working, open, failed, signalled, queue, rxThread, decThread, wire,
  dead, sent, from, decoded, binds

linkVars == <<owner, connected, working, open, failed, signalled, queue, rxThread, decThread,
              wire, dead, sent, from, decoded, binds>>

Link == INSTANCE Transceiver WITH event <- signalled, rx <- rxThread, decoder <- decThread

Launch(kind, auto, mode) == [kind |-> kind, auto |-> auto, mode |-> mode]
MCLaunches ==
  {Launch("dtr", FALSE, "Standard"), Launch("rpm", FALSE, ""),
   Launch("old", TRUE, ""), Launch("pwm", TRUE, "Boost")}

MCInit ==
  /\ Init /\ Link!Init
  /\ layer \in {"driver", "link"}
  /\ layer = "link" => launch = Launch("dtr", FALSE, "Standard")

Above(A) == layer = "driver" /\ A /\ UNCHANGED <<layer, linkVars>>
Below(A) == layer = "link" /\ A /\ UNCHANGED <<layer, vars>>

mcVars == <<layer, vars, linkVars>>

MCSpec ==
  /\ MCInit /\ [][Above(Next) \/ Below(Link!Next)]_mcVars
  /\ WF_mcVars(Above(Steps)) /\ WF_mcVars(Above(Standby)) /\ WF_mcVars(Above(Quit))
  /\ WF_mcVars(Above(Decoder)) /\ WF_mcVars(Above(Obey))
  /\ WF_mcVars(Below(Link!Owner)) /\ WF_mcVars(Below(Link!Rx)) /\ WF_mcVars(Below(Link!Decoder))

(* The properties of both layers, under one name each.                     *)

\* What the driver takes is the answer to its question, and what the unpacker
\* is given is of the scan it was enabled for.
NothingForeign == AnswersMatch /\ NoOldSamples

\* The decoder thread gets what the device sent, all of it and in order, wakes
\* for it at once, and the port stays open as long as it is read.
NothingLost == Link!InSequence /\ Link!PortHeld /\ Link!PromptWake

\* A signal to exit ends the program, and the disconnect it ends with comes
\* back; a subscriber that stays is served, and what the device sends is decoded.
Responds == ExitEnds /\ Link!Unbinds /\ Served /\ Link!Reaches
=============================================================================
