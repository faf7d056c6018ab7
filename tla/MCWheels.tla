------------------------------ MODULE MCWheels ------------------------------
(***************************************************************************)
(* An instance for TLC of both directions of the serial port: the          *)
(* measurements of WheelStates and the commands of WheelCommands.  They    *)
(* share the plugin's activation and nothing else - no action of one reads *)
(* what the other writes - so a behaviour shows one of them.               *)
(***************************************************************************)
EXTENDS WheelStates

CONSTANTS MaxCommands, CommandLineCap, CommandLooks

ASSUME CommandsAssumption ==
  CommandLooks \in Seq(HeaderKinds \cup {"other"}) /\ CommandLooks # <<>>

VARIABLES
  direction,
  cmd, newest, cmdLine, cmdFaults, mode, sync, payload, ref, overdue, last

commandVars ==
  <<cmd, newest, cmdLine, cmdFaults, mode, sync, payload, ref, overdue, last>>

\* A body whose four bytes look like the header of a measurement.
MCBodyLooks == <<"AA", "55", "meas", "10">>

\* Of a command, one byte that does not look like a part of a header.
MCCommandLooks == <<"other">>

Commands == INSTANCE WheelCommands WITH
  BodyLooks <- CommandLooks, LineCap <- CommandLineCap, line <- cmdLine, faults <- cmdFaults

MCInit == direction \in {"states", "commands"} /\ Init /\ Commands!Init

States   == direction = "states" /\ Next /\ UNCHANGED <<direction, commandVars>>
Sending(A) ==
  direction = "commands" /\ A /\ UNCHANGED <<direction, rxbuf, speed, line, sent, faults>>

mcVars == <<direction, vars, commandVars>>

MCSpec ==
  /\ MCInit /\ [][States \/ Sending(Commands!Next)]_mcVars
  /\ WF_mcVars(Sending(Commands!WriteWhole))
  /\ WF_mcVars(Sending(Commands!Feeder))
  /\ WF_mcVars(Sending(Commands!Elapse))

(* The properties of WheelCommands, under the names they have there.       *)

\* The wheels follow wanted commands in order (write, find_and_read_cmd).
CommandsInOrder == Commands!CommandsInOrder

\* A command that stays wanted is followed again and again, and without one
\* the watchdog of the feeder's main loop stops the wheels.
CommandReaches == Commands!CommandReaches
=============================================================================
