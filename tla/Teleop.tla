------------------------------- MODULE Teleop --------------------------------
(***************************************************************************)
(* mecanum_teleop_keyboard: a thread reads one key per turn and publishes  *)
(* one Twist, a dead-man timeout measured with the node's clock stands the *)
(* robot still, and main closes the node once the context is shut down.    *)
(* The node's clock is the system's, or /clock: it may be set.             *)
(***************************************************************************)
EXTENDS Integers, Sequences

CONSTANTS
  Moves,      \* keys that move the robot: w s a d q e
  Timeout,    \* command_timeout, in ticks of the clock
  MaxBack,    \* bound: how far before the last key the clock is set
  MaxJumps,   \* bound: times the clock is set
  MaxKeys     \* bound: keys in the terminal's buffer

ASSUME TeleopAssumption ==
  /\ {"x", "ctrl-c", "other", "none"} \cap Moves = {}
  /\ Timeout \in Nat
  /\ MaxBack \in Nat
  /\ MaxJumps \in Nat
  /\ MaxKeys \in Nat

Still == "x"              \* the Twist of zeros, which x asks for
Twists == Moves \cup {Still}
Typed == Moves \cup {"x", "ctrl-c", "other"}

VARIABLES
  context,  \* rclcpp::ok()
  main,     \* where main is: in spin, in the destructor's join or stop
  running,  \* running_
  keys,     \* typed and not read
  loop,     \* where keyboard_loop is
  key,      \* its key
  current,  \* current_twist_
  output,   \* output_twist
  age,      \* now() - last_cmd_time_
  jumps,    \* times the clock has been set
  idle,     \* history: ticks since the last valid key
  armed,    \* history: a moving key came after the last timeout
  robot,    \* the last Twist that was sent
  sigint    \* history: the context was shut down by SIGINT

mainVars == <<context, main, running>>
loopVars == <<loop, key, current, output>>
clockVars == <<age, jumps, idle>>
vars == <<mainVars, keys, loopVars, clockVars, armed, robot, sigint>>

\* publish() does nothing once the context is shut down.
Publish(twist) == robot' = IF context THEN twist ELSE robot

-----------------------------------------------------------------------------
(* keyboard_loop.                                                          *)

Top ==
  /\ loop = "top"
  /\ loop' = IF context /\ running THEN "read" ELSE "ended"
  /\ UNCHANGED <<mainVars, keys, key, current, output, clockVars,
                 armed, robot, sigint>>

\* select() gives up after 50 ms.
KeyRead == TRUE

ReadKey ==
  /\ loop = "read"
  /\ KeyRead
  /\ IF keys = <<>>
       THEN key' = "none" /\ UNCHANGED keys
       ELSE key' = Head(keys) /\ keys' = Tail(keys)
  /\ loop' = IF key' = "ctrl-c" THEN "quit" ELSE "handle"
  /\ UNCHANGED <<mainVars, current, output, clockVars, armed, robot, sigint>>

\* Not the code: the stop is published after the shutdown.
QuitLate ==
  /\ loop \in {"quit", "shutdown"}
  /\ IF loop = "quit"
       THEN loop' = "shutdown" /\ context' = FALSE /\ UNCHANGED robot
       ELSE loop' = "ended" /\ Publish(Still) /\ UNCHANGED context
  /\ UNCHANGED <<main, running, keys, key, current, output,
                 clockVars, armed, sigint>>

\* Case 3: a stop, the shutdown, and the thread returns.
Quit ==
  /\ loop \in {"quit", "shutdown"}
  /\ IF loop = "quit"
       THEN loop' = "shutdown" /\ Publish(Still) /\ UNCHANGED context
       ELSE loop' = "ended" /\ context' = FALSE /\ UNCHANGED robot
  /\ UNCHANGED <<main, running, keys, key, current, output,
                 clockVars, armed, sigint>>

Handled(k) == k \in Twists

Requested(k) == IF k \in Moves THEN k ELSE Still

\* A valid key is stored with its time.
Handle ==
  /\ loop = "handle"
  /\ loop' = "decide"
  /\ IF Handled(key)
       THEN /\ current' = Requested(key)
            /\ age' = 0
            /\ idle' = IF key \in Twists THEN 0 ELSE idle
            /\ armed' = (key \in Moves)
       ELSE UNCHANGED <<current, age, idle, armed>>
  /\ UNCHANGED <<mainVars, keys, key, output, jumps, robot, sigint>>

\* Not the code: there is no timeout, ...
FreshAlways == TRUE

\* ... or it comes a tick late.
FreshLate == age <= Timeout + 1

Fresh == age <= Timeout

\* Not the code: the stored Twist survives its timeout.
DecideKeeping ==
  /\ loop = "decide"
  /\ loop' = "publish"
  /\ output' = IF Fresh THEN current ELSE Still
  /\ armed' = (armed /\ Fresh)
  /\ UNCHANGED <<mainVars, keys, key, current, clockVars, robot, sigint>>

\* The Twist of this turn.
Decide ==
  /\ loop = "decide"
  /\ loop' = "publish"
  /\ IF Fresh
       THEN output' = current /\ UNCHANGED <<current, armed>>
       ELSE output' = Still /\ current' = Still /\ armed' = FALSE
  /\ UNCHANGED <<mainVars, keys, key, clockVars, robot, sigint>>

PublishOutput ==
  /\ loop = "publish"
  /\ loop' = "top"
  /\ Publish(output)
  /\ UNCHANGED <<mainVars, keys, key, current, output, clockVars,
                 armed, sigint>>

-----------------------------------------------------------------------------
(* main.                                                                   *)

\* SIGINT shuts the context down.
Interrupt ==
  /\ main = "spin"
  /\ context
  /\ context' = FALSE
  /\ sigint' = TRUE
  /\ UNCHANGED <<main, running, keys, loopVars, clockVars, armed, robot>>

SpinReturns ==
  /\ main = "spin"
  /\ ~context
  /\ main' = "join"
  /\ running' = FALSE
  /\ UNCHANGED <<context, keys, loopVars, clockVars, armed, robot, sigint>>

Join ==
  /\ main = "join"
  /\ loop = "ended"
  /\ main' = "stop"
  /\ UNCHANGED <<context, running, keys, loopVars, clockVars, armed,
                 robot, sigint>>

\* publish_stop() of the destructor.
FinalStop ==
  /\ main = "stop"
  /\ main' = "gone"
  /\ Publish(Still)
  /\ UNCHANGED <<context, running, keys, loopVars, clockVars, armed, sigint>>

-----------------------------------------------------------------------------
(* The user and the clock.                                                 *)

Type ==
  /\ Len(keys) < MaxKeys
  /\ \E k \in Typed : keys' = Append(keys, k)
  /\ UNCHANGED <<mainVars, loopVars, clockVars, armed, robot, sigint>>

\* Ages beyond the timeout are one.
Older(n) == IF n > Timeout THEN n ELSE n + 1

Tick ==
  /\ age' = Older(age)
  /\ idle' = Older(idle)
  /\ UNCHANGED <<mainVars, keys, loopVars, jumps, armed, robot, sigint>>

\* The clock is set, by any amount back or forth.
Jump ==
  /\ jumps < MaxJumps
  /\ jumps' = jumps + 1
  /\ age' \in -MaxBack .. Timeout + 1
  /\ UNCHANGED <<mainVars, keys, loopVars, idle, armed, robot, sigint>>

-----------------------------------------------------------------------------
Init ==
  /\ context = TRUE
  /\ main = "spin"
  /\ running = TRUE
  /\ keys = <<>>
  /\ loop = "top"
  /\ key = "none"
  /\ current = Still
  /\ output = Still
  /\ age = 0
  /\ jumps = 0
  /\ idle = 0
  /\ armed = FALSE
  /\ robot = Still
  /\ sigint = FALSE

Loop == Top \/ ReadKey \/ Quit \/ Handle \/ Decide \/ PublishOutput
Main == SpinReturns \/ Join \/ FinalStop

Next == Loop \/ Main \/ Interrupt \/ Type \/ Tick \/ Jump

Spec == Init /\ [][Next]_vars

\* Both threads are scheduled and time passes.
FairSpec == Spec /\ WF_vars(Loop) /\ WF_vars(Main) /\ WF_vars(Tick)

-----------------------------------------------------------------------------
TypeOK ==
  /\ context \in BOOLEAN
  /\ main \in {"spin", "join", "stop", "gone"}
  /\ running \in BOOLEAN
  /\ keys \in Seq(Typed)
  /\ Len(keys) <= MaxKeys
  /\ loop \in {"top", "read", "quit", "shutdown", "handle", "decide",
               "publish", "ended"}
  /\ key \in Typed \cup {"none"}
  /\ current \in Twists
  /\ output \in Twists
  /\ age \in -MaxBack .. Timeout + 1
  /\ jumps \in 0 .. MaxJumps
  /\ idle \in 0 .. Timeout + 1
  /\ armed \in BOOLEAN
  /\ robot \in Twists
  /\ sigint \in BOOLEAN

(***************************************************************************)
(* While nobody sets the clock, a turn of the loop moves the robot only if *)
(* a valid key is no older than command_timeout.                           *)
(***************************************************************************)
DeadMan ==
  [][Decide /\ jumps = 0 /\ output' # Still => idle <= Timeout]_vars

(***************************************************************************)
(* The robot that the timeout stopped stands still until a moving key is   *)
(* read, even when the clock is set back to where the old key was fresh.   *)
(***************************************************************************)
NoRevival ==
  [][loop = "decide" /\ loop' = "publish" /\ output' # Still => armed]_vars

(***************************************************************************)
(* A robot nobody types at comes to a stop, wherever the clock was set, or *)
(* the node closes: the join in its destructor waits for no key.           *)
(***************************************************************************)
MotionEnds ==
  <>[](keys = <<>>) => <>[](robot = Still \/ main = "gone")

(***************************************************************************)
(* A node that a Ctrl+C read as a key has closed leaves the robot standing *)
(* still: its stop goes out before the context is shut down, and after it  *)
(* nothing moves the robot.                                                *)
(***************************************************************************)
QuitStops == main = "gone" /\ ~sigint => robot = Still
=============================================================================
