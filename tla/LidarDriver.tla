----------------------------- MODULE LidarDriver -----------------------------
(***************************************************************************)
(* rplidar_node and the SDK's driver, message by message: the node's       *)
(* thread (startup, the work loop, the services, the shutdown), the        *)
(* request and answer protocol of SlamtecLidarDriver, the decoder thread   *)
(* of AsyncTransceiver with RPLidarProtocolCodec, and the device on the    *)
(* serial line. What a scan is made of is LidarScan's; here a frame of     *)
(* measurements is one token.                                              *)
(*                                                                         *)
(* The node's thread runs a script of driver steps, `todo`: the driver's   *)
(* calls nest, and a step that fails replaces the rest of the script.      *)
(***************************************************************************)
EXTENDS Integers, Sequences, FiniteSets

CONSTANTS
  Launches,    \* the device's motor control ("dtr", "pwm" with an accessory board
               \* or "rpm"; "old" is "dtr" with a firmware that has no scan modes
               \* to ask for), auto_standby, and scan_mode ("" or a name)
  MaxRx,       \* bound on the frames the device is ahead of the decoder
  MaxLate,     \* bound on answers that come after the request timed out
  MaxFaults,   \* bound on what the line loses and on look-alike headers
  MaxCalls     \* bound on service calls, and on subscribers that come and go

ASSUME DriverAssumption ==
  /\ Launches \subseteq [kind : {"dtr", "old", "pwm", "rpm"}, auto : BOOLEAN,
                        mode : {"", "Standard", "Boost"}]
  /\ \A l \in Launches : l.kind = "old" => l.mode = ""
  /\ {MaxRx, MaxLate, MaxFaults, MaxCalls} \subseteq Nat

VARIABLES
  launch,                    \* what the device is, how the node was launched
  todo, call,                \* the node's thread: steps to run, and what for
  scanning, tuning,          \* is_scanning, scan_frequency_tunning_after_scan
  support,                   \* _isSupportingMotorCtrl
  enabled,                   \* the unpacker's _enabled
  codec,                     \* the message the decoder is in the middle of
  dec,                       \* the decoder thread, and the message it hands over
  armed, waiter, answer,     \* _waiting_packet_type, _response_waiter, _lastAnsPkt
  taken,                     \* what the node asked last and what it got (history)
  ready,                     \* a scan is ready to be grabbed
  session,                   \* SCAN commands sent so far
  rx, cmds,                  \* the line: tokens from the device, commands to it
  device,                    \* the session it measures for (or 0), its motor, its cable
  subscribed, exit,          \* subscribers of the scan topic, need_exit
  late, faults, calls        \* what the bounds count

fixed   == launch
node    == <<todo, call>>
flags   == <<scanning, tuning, support>>
stream  == <<enabled, codec, dec>>
reply   == <<armed, waiter, answer>>
data    == <<ready, session>>
world   == <<subscribed, exit, calls>>
vars == <<fixed, node, flags, stream, reply, taken, data, rx, cmds, device, world, late, faults>>

None   == [type |-> "none"]
Hunt   == [type |-> "hunt"]      \* STATUS_WAIT_SYNC1
Adrift == [type |-> "adrift"]    \* inside the payload of a header that is none
Idle   == [pc |-> "idle"]

-----------------------------------------------------------------------------
(* Scripts *)

\* A request, and what its failure means: "ignore" it, "fail" the start or
\* "quit" the program; "detect" and "guess" are read by Good and Bad.
Ask(type, else) == <<[op |-> "ask", type |-> type, else |-> else]>>
Do(op)          == <<[op |-> op]>>
Set(op, value)  == <<[op |-> op, value |-> value]>>

\* The questions of the driver. Those about one scan mode are one step.
DeviceInfo(else) == Ask("devinfo", else)
Health           == Ask("health", "quit")
LidarConf(else)  == Ask("conf", else)
SupportsConf     == DeviceInfo("fail")
Legacy           == launch.kind = "old"
LegacyDuration   == DeviceInfo("fail") \o Ask("rate", "fail")
ScanModeFields   == IF Legacy THEN LegacyDuration ELSE LidarConf("fail")
AllScanModes     == SupportsConf \o ScanModeFields
TypicalScanMode  == SupportsConf \o (IF Legacy THEN <<>> ELSE LidarConf("fail"))

\* checkMotorCtrlSupport, whose result connect ignores.
MotorControl ==
  DeviceInfo("detect") \o (IF launch.kind = "pwm" THEN Ask("acc", "ignore") ELSE <<>>)

\* setMotorSpeed without a speed asks the device for one.
StartMotor == LidarConf("ignore") \o Set("motor", TRUE)

\* SlamtecLidarDriver::stop: the command, then the brake of an accessory board.
StopScan == Do("stop") \o Do("brake")

\* A device that may be the Ethernet version is asked for its address; what it
\* says matters only to timestamps.
NativeInterface == IF launch.kind = "rpm" THEN LidarConf("ignore") ELSE <<>>

\* What each way to start a scan ends with.
Streaming == NativeInterface \o StartMotor \o Do("enable") \o Do("scan")

\* startScanNormal; startScanExpress, which hands over to it for the standard
\* mode; and startScan, which hands over to that: each stops the scan first and
\* asks its own questions.
StartNormal  == StopScan \o SupportsConf \o ScanModeFields \o Streaming
StartExpress ==
  StopScan \o SupportsConf \o ScanModeFields
  \o (IF launch.mode = "Standard" THEN StartNormal ELSE Streaming)
StartTypical == StopScan \o SupportsConf \o TypicalScanMode \o StartExpress

\* RPlidarNode::set_scan_mode, start and stop.
SetScanMode ==
  IF launch.mode = "" THEN StartTypical ELSE AllScanModes \o StartExpress
StartScan == StartMotor \o SetScanMode \o Set("scanning", TRUE)
NodeStop  == StopScan \o Set("motor", FALSE) \o Set("scanning", FALSE)

\* ~SlamtecLidarDriver: disconnect. The work loop ends with the motor and the
\* scan stopped first.
Delete == Do("disable") \o Do("join")
Finish == Set("motor", FALSE) \o StopScan \o Delete

\* connect, then what work_loop asks before it scans.
Startup ==
  Do("open") \o MotorControl
  \o DeviceInfo("quit") \o Health \o DeviceInfo("guess") \o Do("spin")
  \o (IF launch.auto THEN <<>> ELSE StartScan)

Running(op) == todo # <<>> /\ Head(todo).op = op
Proceed     == todo' = Tail(todo) /\ UNCHANGED call
InLoop      == todo = <<>> /\ call \notin {"quit", "exit"}
Ended       == todo = <<>> /\ call \in {"quit", "exit"}

-----------------------------------------------------------------------------
(* Driver steps of the node's thread *)

\* _disableDataGrabbing: the unpacker ignores what comes, and the codec drops
\* its message, even while the decoder thread is copying it.
DisableDataGrabbing ==
  /\ enabled' = FALSE /\ codec' = Hunt
  /\ dec' = IF dec.pc = "copying" THEN [dec EXCEPT !.msg.torn = TRUE] ELSE dec

\* senddata does not report a failed write: a lost command looks like a sent one.
Send(cmd) ==
  \/ device.plugged /\ cmds' = Append(cmds, cmd) /\ UNCHANGED faults
  \/ ~ device.plugged /\ UNCHANGED <<cmds, faults>>
  \/ device.plugged /\ faults < MaxFaults /\ faults' = faults + 1 /\ UNCHANGED cmds

\* _sendCommandWithoutResponse with noForceStop; without it the stream is
\* disabled first.
Command(cmd) == waiter' = FALSE /\ Send(cmd) /\ UNCHANGED <<armed, answer>>

Stop ==
  /\ Running("stop") /\ DisableDataGrabbing /\ Command([do |-> "stop"]) /\ Proceed
  /\ UNCHANGED <<fixed, flags, taken, data, rx, device, world, late>>

Enable ==
  /\ Running("enable") /\ enabled' = TRUE /\ ready' = FALSE /\ Proceed
  /\ UNCHANGED <<fixed, flags, codec, dec, reply, taken, session, rx, cmds, device, world, late,
                 faults>>

Scan ==
  /\ Running("scan") /\ session' = session + 1
  /\ Command([do |-> "scan", session |-> session + 1]) /\ Proceed
  /\ UNCHANGED <<fixed, flags, stream, taken, ready, rx, device, world, late>>

\* setDTR and clearDTR: the motor of a bare device follows the line, inverted.
Dtr(on) ==
  device' = IF launch.kind \in {"dtr", "old"} THEN [device EXCEPT !.motor = on] ELSE device

\* Not the code: without motor commands the DTR line is only ever cleared.
SetMotorSpeedUp(on) ==
  IF support # "none" THEN Command([do |-> support, on |-> on]) /\ UNCHANGED device
  ELSE Dtr(TRUE) /\ UNCHANGED <<reply, cmds, faults>>

\* setMotorSpeed: a command when the device has one, else the DTR line, at once.
SetMotorSpeed(on) ==
  IF support # "none" THEN Command([do |-> support, on |-> on]) /\ UNCHANGED device
  ELSE Dtr(on) /\ UNCHANGED <<reply, cmds, faults>>

NoMotor == UNCHANGED <<reply, cmds, faults, device>>

\* The node's and startMotor's calls; the brake inside stop(); and the spin that
\* triangulation devices are given before the first start.
Motor ==
  /\ \/ Running("motor") /\ SetMotorSpeed(Head(todo).value)
     \/ Running("brake") /\ IF support = "pwm" THEN SetMotorSpeed(FALSE) ELSE NoMotor
     \/ Running("spin")  /\ IF tuning THEN NoMotor ELSE SetMotorSpeed(TRUE)
  /\ Proceed
  /\ UNCHANGED <<fixed, flags, stream, taken, data, rx, world, late>>

\* openChannelAndBind: the port opens with DTR cleared, which lets the motor
\* spin. When it does not open, the result is lost in an inner variable: connect
\* succeeds and the first device info fails.
Open ==
  /\ Running("open")
  /\ \/ Proceed /\ Dtr(TRUE)
     \/ todo' = <<>> /\ call' = "quit" /\ UNCHANGED device
  /\ UNCHANGED <<fixed, flags, stream, reply, taken, data, rx, cmds, world, late, faults>>

SetScanning ==
  /\ Running("scanning") /\ scanning' = Head(todo).value /\ Proceed
  /\ UNCHANGED <<fixed, tuning, support, stream, reply, taken, data, rx, cmds, device, world,
                 late, faults>>

\* Not the code: the decoder thread is not woken, and leaves with the next data.
JoinAfterData ==
  /\ Running("join") /\ dec = Idle /\ rx # <<>> /\ dec' = [pc |-> "joined"] /\ Proceed
  /\ UNCHANGED <<fixed, flags, enabled, codec, reply, taken, data, rx, cmds, device, world, late,
                 faults>>

\* disconnect: the grabbing is disabled and _isWorking cleared, then the threads
\* are joined, the decoder after the message it is on.
Disable ==
  /\ Running("disable") /\ DisableDataGrabbing /\ Proceed
  /\ UNCHANGED <<fixed, flags, reply, taken, data, rx, cmds, device, world, late, faults>>

Join ==
  /\ Running("join") /\ dec = Idle /\ dec' = [pc |-> "joined"] /\ Proceed
  /\ UNCHANGED <<fixed, flags, enabled, codec, reply, taken, data, rx, cmds, device, world, late,
                 faults>>

-----------------------------------------------------------------------------
(* Requests *)

Arm(type) == armed' = type /\ waiter' = FALSE /\ UNCHANGED answer

\* _sendCommandWithResponse up to the wait.
Request ==
  /\ Running("ask")
  /\ DisableDataGrabbing /\ Arm(Head(todo).type)
  /\ Send([do |-> "ask", type |-> Head(todo).type])
  /\ todo' = [todo EXCEPT ![1].op = "wait"]
  /\ UNCHANGED <<fixed, call, flags, taken, data, rx, device, world, late>>

\* What the checks of a caller let through: an answer of the type it asked for,
\* and, as health and accessory flag check the size only, a longer one.
Fits(asked, msg) == msg.type = asked \/ (asked \in {"health", "acc"} /\ msg.type # "health")

\* The caller reads its answer. The model byte of the device info tells how the
\* motor is controlled and whether the device is tuned after the first scan.
Good(step) ==
  /\ todo' = Tail(todo) /\ UNCHANGED <<call, scanning>>
  /\ support' = CASE step.else = "detect" /\ launch.kind = "rpm" -> "rpm"
                  [] step.type = "acc" -> "pwm"
                  [] OTHER -> support
  /\ tuning' = IF step.else = "guess" THEN launch.kind = "rpm" ELSE tuning

\* Its failure. A failed start stops the scan again; at startup it ends the
\* program. The third device info of work_loop is used even when it failed.
Bad(step) ==
  /\ CASE step.else = "quit" -> todo' = Delete /\ call' = "quit"
       [] step.else = "fail" /\ call = "startup" -> todo' = NodeStop \o Delete /\ call' = "quit"
       [] step.else = "fail" /\ call # "startup" -> todo' = NodeStop /\ call' = "stop"
       [] step.else = "detect" /\ launch.kind = "pwm" -> todo' = Tail(Tail(todo)) /\ UNCHANGED call
       [] OTHER -> Proceed
  /\ tuning' \in IF step.else = "guess" THEN BOOLEAN ELSE {tuning}
  /\ UNCHANGED <<scanning, support>>

\* The wait returns and the message stored last is taken for the answer. A
\* health that is an error ends the program like no health at all.
Take ==
  /\ Running("wait") /\ waiter
  /\ waiter' = FALSE /\ taken' = [asked |-> armed, got |-> answer]
  /\ LET fits == Fits(armed, answer)
         sure == answer.type = armed /\ ~ answer.torn
     IN  \/ fits /\ Good(Head(todo))
         \/ (~ sure \/ armed = "health") /\ Bad(Head(todo))
  /\ UNCHANGED <<fixed, stream, armed, answer, data, rx, cmds, device, world, late, faults>>

\* An answer to a request is still on its way.
Pending ==
  \/ \E i \in DOMAIN cmds : cmds[i].do = "ask"
  \/ \E i \in DOMAIN rx : rx[i].type # "scan"
  \/ dec.pc \in {"copying", "storing"} /\ dec.msg.type # "scan"

\* A request times out when nothing is coming, or when what comes is late.
Timeout ==
  /\ Running("wait") /\ ~ waiter
  /\ IF Pending THEN late < MaxLate /\ late' = late + 1 ELSE UNCHANGED late
  /\ Bad(Head(todo))
  /\ UNCHANGED <<fixed, stream, reply, taken, data, rx, cmds, device, world, faults>>

-----------------------------------------------------------------------------
(* The work loop *)

Begin(script, what) ==
  /\ InLoop /\ todo' = script /\ call' = what
  /\ UNCHANGED <<fixed, flags, stream, reply, taken, data, rx, cmds, device, late, faults>>

\* Not the code: a start is tried only once the last one has succeeded.
StandbyOnce ==
  /\ launch.auto /\ ~ exit
  /\ \/ subscribed /\ ~ scanning /\ call = "startup" /\ Begin(StartScan, "start")
     \/ ~ subscribed /\ scanning /\ Begin(NodeStop, "stop")
  /\ UNCHANGED world

Standby ==
  /\ launch.auto /\ ~ exit
  /\ \/ subscribed /\ ~ scanning /\ Begin(StartScan, "start")
     \/ ~ subscribed /\ scanning /\ Begin(NodeStop, "stop")
  /\ UNCHANGED world

\* stop_motor and start_motor, refused in auto standby.
Service ==
  /\ ~ launch.auto /\ calls < MaxCalls /\ calls' = calls + 1
  /\ Begin(StartScan, "start") \/ Begin(NodeStop, "stop")
  /\ UNCHANGED <<subscribed, exit>>

\* grabScanDataHq returns a scan: it is published, but the first one of a
\* device that is tuned after the scan only sets its speed, stopped or not: a
\* stop leaves the scan that is ready in the holder.
Grab ==
  /\ InLoop /\ ready /\ ready' = FALSE
  /\ IF tuning THEN SetMotorSpeed(TRUE) /\ tuning' = FALSE /\ call' = "tuned"
     ELSE NoMotor /\ UNCHANGED <<tuning, call>>
  /\ UNCHANGED <<fixed, todo, scanning, support, stream, taken, session, rx, world, late>>

Quit == exit /\ Begin(Finish, "exit") /\ UNCHANGED world

\* The node's surroundings: subscribers come and go, a signal asks to exit.
Surroundings ==
  /\ ~ Ended /\ ~ exit
  /\ \/ launch.auto /\ calls < 2 * MaxCalls /\ calls' = calls + 1 /\ subscribed' = ~ subscribed /\ UNCHANGED exit
     \/ exit' = TRUE /\ UNCHANGED <<subscribed, calls>>
  /\ UNCHANGED <<fixed, node, flags, stream, reply, taken, data, rx, cmds, device, late, faults>>

-----------------------------------------------------------------------------
(* The decoder thread *)

\* onDecodeData, one token. A header outside a message begins one; a payload
\* outside a message is skipped, unless it looks like a header and swallows
\* what follows; inside a message every token is payload, in loop mode for ever.
Decode ==
  /\ dec = Idle /\ ~ Running("join") /\ rx # <<>> /\ rx' = Tail(rx)
  /\ LET token == Head(rx)
         msg   == [type |-> codec.type, session |-> token.session, torn |-> token.type # codec.type]
     IN  CASE codec = Hunt /\ token.part = "head" ->
                codec' = [type |-> token.type] /\ UNCHANGED <<dec, faults>>
           [] codec = Hunt /\ token.part = "body" ->
                /\ UNCHANGED dec
                /\ \/ UNCHANGED <<codec, faults>>
                   \/ faults < MaxFaults /\ faults' = faults + 1 /\ codec' = Adrift
           [] codec = Adrift -> UNCHANGED <<codec, dec, faults>>
           [] OTHER ->
                /\ dec' = [pc |-> "copying", msg |-> msg]
                /\ codec' = IF codec.type = "scan" THEN codec ELSE Hunt
                /\ UNCHANGED faults
  /\ UNCHANGED <<fixed, node, flags, enabled, reply, taken, data, cmds, device, world, late>>

\* Not the code: what the unpacker does not take goes to whoever waits.
HandoverUnmatched ==
  /\ dec.pc = "copying"
  /\ dec' = [dec EXCEPT !.pc = IF enabled /\ dec.msg.type = "scan" THEN "unpacking" ELSE "storing"]
  /\ UNCHANGED <<fixed, node, flags, enabled, codec, reply, taken, data, rx, cmds, device, world,
                 late, faults>>

\* onProtocolMessageDecoded: the unpacker is asked first; what it does not take
\* is compared with the type waited for, without the lock.
Handover ==
  /\ dec.pc = "copying"
  /\ dec' = CASE enabled /\ dec.msg.type = "scan" -> [dec EXCEPT !.pc = "unpacking"]
              [] dec.msg.type = armed /\ dec.msg.type # "scan" -> [dec EXCEPT !.pc = "storing"]
              [] OTHER -> Idle
  /\ UNCHANGED <<fixed, node, flags, enabled, codec, reply, taken, data, rx, cmds, device, world,
                 late, faults>>

Store ==
  /\ dec.pc = "storing"
  /\ answer' = dec.msg /\ waiter' = TRUE /\ dec' = Idle
  /\ UNCHANGED <<fixed, node, flags, enabled, codec, armed, taken, data, rx, cmds, device, world,
                 late, faults>>

\* The handler has unpacked the frame; a scan may be complete with it.
Unpack ==
  /\ dec.pc = "unpacking" /\ dec' = Idle
  /\ ready' = (ready \/ enabled)
  /\ UNCHANGED <<fixed, node, flags, enabled, codec, reply, taken, session, rx, cmds, device,
                 world, late, faults>>

-----------------------------------------------------------------------------
(* The device and the line *)

Tokens(type, s) == <<[part |-> "head", type |-> type, session |-> s],
                     [part |-> "body", type |-> type, session |-> s]>>

\* An answer arrives whole or loses a part.
Reply(tokens) ==
  \/ rx' = rx \o tokens /\ UNCHANGED faults
  \/ /\ faults < MaxFaults /\ faults' = faults + 1
     /\ rx' \in {rx, Append(rx, tokens[1]), Append(rx, tokens[2])}

Obey ==
  /\ cmds # <<>> /\ cmds' = Tail(cmds)
  /\ LET cmd == Head(cmds)
     IN  CASE cmd.do = "ask"  ->
                /\ IF Legacy /\ cmd.type = "conf" THEN UNCHANGED <<rx, faults>>
                   ELSE Reply(Tokens(cmd.type, 0))
                /\ UNCHANGED device
           [] cmd.do = "stop" -> device' = [device EXCEPT !.scan = 0] /\ UNCHANGED <<rx, faults>>
           [] cmd.do = "scan" -> /\ device' = [device EXCEPT !.scan = cmd.session]
                                 /\ Reply(Tokens("scan", cmd.session))
           [] OTHER -> /\ device' = [device EXCEPT !.motor = IF cmd.do = launch.kind THEN cmd.on ELSE @]
                       /\ UNCHANGED <<rx, faults>>
  /\ UNCHANGED <<fixed, node, flags, stream, reply, taken, data, world, late>>

Measure ==
  /\ device.plugged /\ device.scan # 0 /\ Len(rx) < MaxRx
  /\ rx' = Append(rx, Tokens("scan", device.scan)[2])
  /\ UNCHANGED <<fixed, node, flags, stream, reply, taken, data, cmds, device, world, late, faults>>

\* The cable is pulled: the rx thread ends, which nobody is told.
Unplug ==
  /\ device.plugged /\ faults < MaxFaults /\ faults' = faults + 1 /\ ~ Ended
  /\ device' = [device EXCEPT !.plugged = FALSE] /\ cmds' = <<>>
  /\ UNCHANGED <<fixed, node, flags, stream, reply, taken, data, rx, world, late>>

-----------------------------------------------------------------------------

Init ==
  /\ launch \in Launches
  /\ todo = Startup /\ call = "startup" /\ scanning = FALSE /\ tuning = FALSE
  /\ support = "none" /\ enabled = FALSE /\ codec = Hunt /\ dec = Idle
  /\ armed = "none" /\ waiter = FALSE /\ answer = None
  /\ taken = [asked |-> "none", got |-> None] /\ ready = FALSE /\ session = 0
  /\ rx = <<>> /\ cmds = <<>>
  /\ device = [scan |-> 0, motor |-> FALSE, plugged |-> TRUE]
  /\ subscribed = FALSE /\ exit = FALSE /\ late = 0 /\ faults = 0 /\ calls = 0

Steps   == Stop \/ Enable \/ Scan \/ Motor \/ Open \/ SetScanning \/ Disable \/ Join
           \/ Request \/ Take \/ Timeout
Loop    == Standby \/ Grab \/ Quit
Decoder == Decode \/ Handover \/ Store \/ Unpack

Next == Steps \/ Loop \/ Service \/ Surroundings \/ Decoder \/ Obey \/ Measure \/ Unplug

\* The node's thread, the decoder thread and the device go on; nothing makes
\* the device measure, a service be called or an answer be late.
Fairness ==
  /\ WF_vars(Steps) /\ WF_vars(Standby) /\ WF_vars(Quit) /\ WF_vars(Decoder) /\ WF_vars(Obey)

Spec == Init /\ [][Next]_vars /\ Fairness

-----------------------------------------------------------------------------
(* Properties *)

\* While no answer was late and the line lost nothing, an answer taken is of the
\* type asked for, and whole: a frame of the scan that was running, which the
\* decoder may be copying when the request resets the codec, is never taken for
\* it, in whatever order the two threads run.
AnswersMatch ==
  taken.got # None /\ late = 0 /\ faults = 0 => taken.got.type = taken.asked /\ ~ taken.got.torn

\* The unpacker is never given a frame of an earlier scan session, whatever is
\* lost or taken for a header: a start resets the codec with each of its
\* requests, and cannot reach the new session without an answer behind the old.
\* A start needs at least four answers; three that came late, and one more torn
\* from a header whose payload was lost, could stand in for all of them, and the
\* old frames behind them pass.
NoOldSamples ==
  late < 3 /\ dec.pc = "unpacking" /\ enabled =>
    dec.msg.session \in {0, session} /\ ~ Running("scan")

\* After the node has stopped the scan or ended its loop the motor rests, when
\* no command was lost and the motor control was recognised at the connection,
\* until a first scan grabbed only then spins it again (call is "tuned").
Lost == faults > 0 \/ ~ device.plugged
Rests ==
  /\ todo = <<>> /\ call \in {"stop", "exit"} /\ cmds = <<>>
  /\ ~ Lost /\ support = (IF launch.kind \in {"dtr", "old"} THEN "none" ELSE launch.kind)
  => ~ device.motor

\* A signal to exit ends the program, with the decoder thread joined, from every
\* point of the startup, of a start and of the loop, whatever the device does.
ExitEnds == exit ~> Ended

\* In auto standby a subscriber that stays is served: a start that failed, with
\* whatever the line lost, is tried again until one succeeds. Answers that come
\* after their time are left out: each could pass for that of the next request,
\* round after round, when the decoder is held up between its two looks at the
\* type waited for.
Served ==
  launch.auto /\ call # "quit" /\ subscribed
    ~> scanning \/ ~ subscribed \/ exit \/ ~ device.plugged \/ late > 0 \/ Ended
=============================================================================
