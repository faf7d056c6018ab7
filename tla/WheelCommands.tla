---------------------------- MODULE WheelCommands ----------------------------
(***************************************************************************)
(* The command path: MecanumHWSystem::write sends the wheel speeds wanted  *)
(* as one packet per control cycle, and the wheel controller, as           *)
(* stm32_dummy_feeder.py simulates it, looks for commands in the bytes     *)
(* that arrive and has a watchdog.  Commands are numbered in the order in  *)
(* which they are wanted; 0 is the command to stand still.                 *)
(***************************************************************************)
EXTENDS SerialFrames

CONSTANTS
  LineCap,      \* bytes on the line and in the kernel's buffers
  MaxCommands,  \* bound: commands other than 0 in a behaviour
  MaxFaults     \* bound: packets written in part and bytes lost

VARIABLES
  active,   \* the plugin is between on_activate and on_deactivate
  port,     \* serial_ && serial_->is_open()
  cmd,      \* hw_commands_: the command wanted
  newest,   \* the newest command there has been
  line,     \* bytes the controller has not read, oldest first
  faults,   \* packets written in part and bytes lost so far
  mode,     \* where the controller is in its loop
  sync,     \* sync of find_and_read_cmd: what its bytes look like
  payload,  \* buf of read_exact
  ref,      \* w_ref: what the command the wheels follow carries
  overdue,  \* more than two seconds since last_cmd_time
  last      \* history: the last command other than 0 that was followed

host == <<active, port, cmd, newest>>
feeder == <<mode, sync, payload, ref, overdue, last>>
vars == <<host, line, faults, feeder>>

Modes == {"look", "sync", "payload", "tick"}

Prefixes(s) == {SubSeq(s, 1, k) : k \in 0 .. Len(s)}

-----------------------------------------------------------------------------
(* The host.                                                               *)

\* The drive controller wants new speeds.  A NaN is sent as 0.
SetCommand ==
  /\ active
  /\ \/ newest < MaxCommands /\ cmd' = newest + 1 /\ newest' = newest + 1
     \/ cmd' = 0 /\ UNCHANGED newest
  /\ UNCHANGED <<active, port, line, faults, feeder>>

\* write() of the plugin: the packet goes out whole, ...
WriteWhole ==
  /\ active
  /\ port
  /\ Len(line) + Total(BodyLooks) <= LineCap
  /\ line' = line \o Packet("cmd", cmd)
  /\ UNCHANGED <<host, faults, feeder>>

\* ... or in part when the kernel takes no more, and the rest is given up.
WriteShort ==
  /\ active
  /\ port
  /\ faults < MaxFaults
  /\ faults' = faults + 1
  /\ \E p \in Prefixes(Packet("cmd", cmd)) :
       /\ Len(p) < Total(BodyLooks)
       /\ Len(line) + Len(p) <= LineCap
       /\ line' = line \o p
  /\ UNCHANGED <<host, feeder>>

\* open() may fail, and the plugin is active all the same; if it does not,
\* it flushes what the kernel has not sent yet.
Activate ==
  /\ ~active
  /\ active' = TRUE
  /\ cmd' = 0
  /\ \/ port' = TRUE /\ line' \in Prefixes(line)
     \/ port' = FALSE /\ UNCHANGED line
  /\ UNCHANGED <<newest, faults, feeder>>

\* The port is closed with no command to stand still.
Deactivate ==
  /\ active
  /\ active' = FALSE
  /\ port' = FALSE
  /\ UNCHANGED <<cmd, newest, line, faults, feeder>>

-----------------------------------------------------------------------------
(* The wheel controller.                                                   *)

\* The top of the loop: is there anything to read?
Look ==
  /\ mode = "look"
  /\ mode' = IF line = <<>> THEN "tick" ELSE "sync"
  /\ UNCHANGED <<host, line, faults, sync, payload, ref, overdue, last>>

Header == SubSeq(Packet("cmd", 0), 1, HeaderLen)

HeaderLooks == [k \in 1 .. HeaderLen |-> Header[k].kind]

\* The last bytes seen.
Seen(seen) == KeepLast(seen, HeaderLen)

\* One byte in the loop of find_and_read_cmd, which has no other way out.
SyncByte ==
  /\ mode = "sync"
  /\ line # <<>>
  /\ line' = Tail(line)
  /\ LET seen == Seen(Append(sync, Head(line).kind)) IN
       IF seen = HeaderLooks
         THEN mode' = "payload" /\ sync' = <<>>
         ELSE sync' = seen /\ UNCHANGED mode
  /\ UNCHANGED <<host, faults, payload, ref, overdue, last>>

\* Not the code: the CRC of a frame is not compared.
FrameUnchecked(frame) == TRUE

FrameOK(frame) == CrcOK(frame, 1, "cmd")

\* What find_and_read_cmd does with all the bytes of a frame: the wheels
\* follow the command, or it is dropped and the search begins anew.
Receive(frame) ==
  IF FrameOK(frame)
    THEN /\ ref' = Carried(frame, 1)
         /\ last' = IF \E n \in 1 .. newest : ref' = Numbered(n)
                     THEN CHOOSE n \in 1 .. newest : ref' = Numbered(n)
                     ELSE last
         /\ overdue' = FALSE
         /\ mode' = "tick"
    ELSE mode' = "sync" /\ UNCHANGED <<ref, overdue, last>>

PayloadByte ==
  /\ mode = "payload"
  /\ line # <<>>
  /\ line' = Tail(line)
  /\ LET got == Append(payload, Head(line)) IN
       IF Len(got) < Len(BodyLooks) + 1
         THEN payload' = got /\ UNCHANGED <<mode, ref, overdue, last>>
         ELSE payload' = <<>> /\ Receive(Header \o got)
  /\ UNCHANGED <<host, faults, sync>>

\* read_exact has waited a second for the rest.  What arrives as it gives up
\* counts as arriving after.
PayloadTimeout ==
  /\ mode = "payload"
  /\ line = <<>>
  /\ mode' = "tick"
  /\ payload' = <<>>
  /\ UNCHANGED <<host, line, faults, sync, ref, overdue, last>>

\* Not the code: the watchdog forgets to look at the time.
WatchdogOff == FALSE

Watchdog == overdue

\* The rest of the loop: a measurement is sent, and the watchdog looks.
Tick ==
  /\ mode = "tick"
  /\ mode' = "look"
  /\ ref' = IF Watchdog THEN Numbered(0) ELSE ref
  /\ UNCHANGED <<host, line, faults, sync, payload, overdue, last>>

\* Two seconds have passed since the last command.
Elapse ==
  /\ ~overdue
  /\ overdue' = TRUE
  /\ UNCHANGED <<host, line, faults, mode, sync, payload, ref, last>>

\* A byte is lost on the line.
Lose ==
  /\ faults < MaxFaults
  /\ \E i \in 1 .. Len(line) :
       line' = SubSeq(line, 1, i - 1) \o SubSeq(line, i + 1, Len(line))
  /\ faults' = faults + 1
  /\ UNCHANGED <<host, feeder>>

-----------------------------------------------------------------------------
Init ==
  /\ active = FALSE
  /\ port = FALSE
  /\ cmd = 0
  /\ newest = 0
  /\ line = <<>>
  /\ faults = 0
  /\ mode = "look"
  /\ sync = <<>>
  /\ payload = <<>>
  /\ ref = Numbered(0)
  /\ overdue = FALSE
  /\ last = 0

Feeder == Look \/ SyncByte \/ PayloadByte \/ PayloadTimeout \/ Tick

Next ==
  \/ SetCommand \/ WriteWhole \/ WriteShort \/ Activate \/ Deactivate
  \/ Feeder \/ Elapse \/ Lose

Spec == Init /\ [][Next]_vars

\* The controller manager calls write() in every cycle and the line takes
\* the packet; the controller's loop runs and its clock advances.
Fairness == WF_vars(WriteWhole) /\ WF_vars(Feeder) /\ WF_vars(Elapse)

FairSpec == Spec /\ Fairness

-----------------------------------------------------------------------------
TypeOK ==
  /\ active \in BOOLEAN
  /\ port \in BOOLEAN
  /\ cmd \in 0 .. newest
  /\ newest \in 0 .. MaxCommands
  /\ line \in Seq(Bytes)
  /\ Len(line) <= LineCap
  /\ faults \in 0 .. MaxFaults
  /\ mode \in Modes
  /\ sync \in Seq(STRING)
  /\ Len(sync) <= HeaderLen
  /\ payload \in Seq(Bytes)
  /\ Len(payload) <= Len(BodyLooks) + 1
  /\ ref \in {Numbered(n) : n \in 0 .. MaxCommands}
  /\ overdue \in BOOLEAN
  /\ last \in 0 .. MaxCommands

(***************************************************************************)
(* The wheels only ever follow a command that was wanted, and never one    *)
(* older than a command they followed before - whatever packets were cut   *)
(* short, lost a byte, were flushed in the middle or ran into each other,  *)
(* and however often the plugin is activated again.                        *)
(***************************************************************************)
CommandsInOrder ==
  [][ref' # ref =>
       \/ ref' = Numbered(0)
       \/ \E n \in last .. newest : n > 0 /\ ref' = Numbered(n)]_vars

(***************************************************************************)
(* A command that stays wanted while the port is open is followed again    *)
(* and again: a short or disturbed packet costs some commands, and never   *)
(* the synchronisation for good.                                           *)
(***************************************************************************)
Followed ==
  \A n \in 0 .. MaxCommands :
    <>[](port /\ cmd = n) => []<>(ref = Numbered(n))

(***************************************************************************)
(* The watchdog: a controller that receives no more commands stops the     *)
(* wheels, once it is not waiting for the rest of one.                     *)
(***************************************************************************)
IdleStops ==
  (<>[]~port /\ <>[](mode # "sync")) => <>[](ref = Numbered(0))

\* Lasting commands are followed, and their absence stops the wheels.
CommandReaches == Followed /\ IdleStops
=============================================================================
