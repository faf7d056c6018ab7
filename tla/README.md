# A formal model of the mecanum robot's host software

This directory holds TLA+ modules for the first-party code of this repository
and for the third-party nodes that estimate where the robot is and run its laser
scanner, TLC configurations
that check them on small instances, and proofs that TLAPS checks for every value
of the constants. Paths are relative to the repository root.

To check a run: `tlc -config MCOtaTransfer.cfg MCOtaTransfer`.
To check a proof: `tlapm OtaTransferProofs.tla`.

## 1. The system

The robot is a mecanum base with an STM32F407 controller, driven by a ROS 2
host. The host talks to the controller on two wires: a CAN bus (IMU samples one
way, firmware updates both ways) and a serial line (wheel commands and wheel
speeds, through ros2_control). A laser scanner is on a second serial port. Around
these are a keyboard teleoperation node, a map merger for several robots, launch
files, a URDF description, and the sources of robot_localization, whose
`ekf_node` estimates where the robot is, and of rplidar_ros, whose
`rplidar_node` runs the scanner.

### 1.1 Inventory

| Component | State it keeps | Operations | What is hard | What makes it correct |
|---|---|---|---|---|
| `stm32_can_ota` worker: `OtaClient::runTransfer`, `exchange`, `exchangeWithRetry`, `queryCapability`, `sendBlock`, `stopIfCancelled` | session, command, attempt, block, sequence, reported status | send, wait, match a reply, retry, give up, abort | replies of an earlier attempt, block or process are read by a later exchange; DATA frames carry no session; the cancel flag is looked at in some places only; nine early returns | "completed" means flashed; the block loop is never ahead of the flash; every run ends; faults within `max_retries` are survived; ABORT is a session's last frame |
| `OtaClient` lifecycle: `start`, `cancel`, `status`, destructor | `running_`, `cancel_requested_`, `status_`, `worker_`, `status_callback_` | accept or refuse a start, launch, cancel, join | several regions of one mutex, a callback outside of it, a flag that outlives its run | no thread object is overwritten; who sees "not running" sees the last word; cancels hit the run they were meant for |
| `Stm32OtaNode` | `latest_status_` | start and cancel services, status timer, destructor | the answer to a start reads a status the worker is changing; destruction during a run | answers belong to their request; nothing uses a destroyed node; the published status settles |
| Block arithmetic (`runTransfer`, `sendBlock`, `FirmwareImage::readBlock`) | image size, block size | cut into blocks and frames | a uint8 sequence and a uint16 index that wrap silently; a bootloader that reports any block size | every byte lands where it was read, once |
| `OtaProtocol` | options | build and parse frames | byte layout | round trips (covered by the repository's test) |
| `CanTransport` | a socket, its receive buffer | open, send, receive by id | leftover frames in the buffer; frames of other nodes and devices on the bus | a run starts with an empty buffer; a node takes its own bootloader's replies and no others |
| `FirmwareImage`, `FirmwarePackage`, `crc16`, `crc32` | the bytes of an image | load, cut, checksum | a file replaced while it is read | the CRC is the one of the bytes sent |
| `download_firmware.py` | a cache directory, `latest.bin` | download, verify, replace, link | a crash or a reader between `unlink` and `symlink_to`; two downloads at once | a reader always finds a whole, verified image |
| `can_imu_node` | socket, last three frames and their sequence numbers, last publication | open, poll, match, publish | 8-bit sequence against losses and restarts; clock jumps | a published sample is one sample |
| `can_listener` | a socket | print frames | one frame per 5 ms | - (a demonstration) |
| `MecanumSerialPort` | receive buffer | write a command, parse one measurement | resynchronisation, backlog, short writes | only whole frames with a right CRC are used; the buffer is bounded |
| `MecanumHWSystem` | commands, states, positions, port | activate, deactivate, read, write | a device that is gone; a port that failed to open | positions integrate speeds that were measured |
| `stm32_dummy_feeder.py` | target and actual speeds | parse commands, answer, watchdog | a parser that blocks the loop | speeds decay when commands stop |
| `mecanum_teleop_keyboard` | last key, its time | read keys, publish, stop | dead-man timeout, stop on exit | the robot does not run on after the key |
| `simple_map_merge.py` | last map per robot | transform, merge, publish | order of maps, index of poses | the merged map depends on the maps, not on their order |
| launch files, configuration, URDF, worlds, maps | none | - | - | - |
| `ekf_node`: `RosFilter` | measurement queue, histories, last times, enabled and toggled flags | callbacks, `set_pose`, `toggle`, `enable`, `periodicUpdate` | stamps that come late, early, twice, out of order; a history that is reverted to | each measurement is fused once, in time order where promised; a reset forgets |
| `ekf_node`: `loadParams` | update vectors, counts of sources, control parameters, diagnostics | read the parameter file | a hundred entries whose combinations nobody tests | what is not measured is reported |
| `ekf_node`: `prepare*`, `forceTwoD`, `Ekf`, `FilterBase` | state, covariance, previous poses, last command | rotate, difference, predict, correct | values that are not finite, rotations that mix variables, the planar mode | the planar estimate stays flat; a correction takes no value that is not a number |
| `rplidar_node`, `SlamtecLidarDriver` | scanning flags, motor, the answer waited for | start, stop, services, requests, shutdown | answers that come late, a stream that goes on under a request, auto standby | an answer is the one asked for; the motor rests; the node ends |
| `AsyncTransceiver`, serial channel | two threads, a queue, an event | bind, read, decode, unbind | threads that are joined while one waits | no byte is lost or foreign; an unbind comes back |
| data unpacker, `ScanDataHolder` | the handler's cache, two scan buffers | find frames, make samples, hand over scans | a lost frame, a restart, a grab that comes late | a scan is one turn of one session (not in every mode: section 5) |
| `ascendScanData`, `publish_scan` | - | order, compensate, publish | samples without an echo, mountings upside down | each echo is shown where it was measured |
| `navsat_transform_node` | whether the transform is good, what it is made of, the latest fix and pose, the datum | callbacks of fixes, poses and headings, datum service, parameter callback, timer | fixes, poses, headings, datums and the timer in any order; a transform that is made again | the world frame is tied to the earth by what belongs together; no fix is published twice |
| `ukf_node`, the listener of robot_localization, other channels of the scanner | - | - | not started by the robot's launch files | - |

### 1.2 How they interact

`/stm32_ota/start` reaches `Stm32OtaNode::handleStartOta` on the node's single
executor thread, which calls `OtaClient::start`. That loads the image, resets
the flag and launches the worker thread. The worker owns the CAN socket and the
protocol; its reports go through `updateStatus` to the callback
`onClientStatus`, on whichever thread reports, into `latest_status_`, which a
timer publishes. `/stm32_ota/cancel` sets an atomic flag the worker polls. The
bootloader at the other end of the bus is not part of the repository; `cancel`
may be called by any thread according to `ota_client.hpp`, although the node
calls it from its executor only.

The controller manager calls `MecanumHWSystem::read` and `write` in every cycle,
30 times a second. `write` hands the four wheel speeds to
`MecanumSerialPort::writeCmdPacket`, `read` asks `readMeasPacket` for one
measurement; at the other end of the serial line is the STM32, for which
`stm32_dummy_feeder.py` stands in. Deactivation closes the port and sends nothing.

Several robots' update nodes may share one CAN bus; each computes a pair of ids
from its `node_id` and hears every frame. `can_imu_node` polls its own socket on
the bus. `ekf_node` fuses the wheel odometry of ros2_control's drive controller
and the samples of `can_imu_node` ten times a second and broadcasts
`odom -> base_link`. `rplidar_node` grabs scans from the driver, whose decoder
thread fills them, and publishes `LaserScan` messages to the navigation.
`mecanum_teleop_keyboard` publishes velocities from a thread of its own. `simple_map_merge.py` hears maps and
transforms of several robots and publishes one map. `download_firmware.py` fills
the cache directory from which the OTA node may be told to load `latest.bin`.

## 2. Modules

| Module | Models | Kind |
|---|---|---|
| `OtaBlocks` | the block table: counts, offsets, lengths, wire indices, the verdict on a capability | operators |
| `OtaSlicing` | the two nested loops that cut an image into DATA frames, and where a receiver that counts modulo the wire types places them | state machine |
| `OtaReports` | the states and errors a run reports and the order they may come in; shared by the next two | operators |
| `OtaTransfer` | the worker thread, the two queues between host and bootloader, the bootloader | state machine |
| `OtaUpdate` | what a caller may rely on: accept, program, complete, give up | abstract specification |
| `OtaTolerance` | `OtaTransfer` with the faults of its first run counted | state machine |
| `OtaService` | `OtaClient` inside `Stm32OtaNode`: executor, worker, cancelling threads | state machine |
| `SerialFrames` | packets on the serial line, the parser of `MecanumSerialPort` | operators |
| `OtaFirmware` | `FirmwareCache`, the load, and `OtaSlicing`, composed | state machine |
| `OtaBus` | several update nodes, their bootloaders and other devices on one CAN bus | state machine |
| `WheelStates` | measurements: feeder, line, receive buffer, `read` | state machine |
| `WheelCommands` | commands: `write`, line, the feeder's search and watchdog | state machine |
| `Teleop` | keyboard thread, `main`, destructor, a clock that may be set | state machine |
| `ImuNode` | the socket, the three frames of a sample, their matching, the limit on the rate | state machine |
| `MapCells` | the value of a merged cell | operators |
| `MapMerge` | maps and transforms in any order, merged grid, trails | state machine |
| `FirmwareCache` | what `download_firmware.py` does to its directory | state machine |
| `RosFilter` | the EKF node's callbacks, queue, history, services and timer | state machine |
| `FilterConfig` | `loadParams`: sources, update vectors, control, diagnostics | operators |
| `Ekf` | a measurement from its message into state and covariance | state machine |
| `NavSat` | `navsat_transform_node`: callbacks, services, timer | state machine |
| `LidarDriver` | `rplidar_node`, the driver's requests, the decoder thread, the device | state machine |
| `Transceiver` | the two threads below the driver, their queue and event, the port | state machine |
| `LidarScan` | frames, samples, the double buffer, the grab | state machine |
| `LidarPublish` | `ascendScanData` and `publish_scan` | state machine |
| `MCOtaTransfer`, `MCOtaTolerance`, `MCRosFilter` | values of the constants that a cfg cannot write; `OneProcess` is `Next` without `HostCrash` | instances |
| `MCOtaFirmware`, `MCWheels`, `MCNodes`, `MCEkf`, `MCLidarScan`, `MCLidarDriver` | two or three machines that share nothing, side by side in one run | instances |
| `OtaFirmwareProofs` | the download, the slicing of an image and the bus | proofs |
| `OtaTransferProofs`, `OtaServiceProofs` | the worker with the bus and the bootloader, and its faults counted; the client inside its node | proofs |
| `WheelsProofs` | both directions of the serial line | proofs |
| `NodesProofs` | the keyboard node, the IMU node, the merge's cells and trails | proofs |
| `RosFilterProofs`, `EkfProofs` | the EKF node's queue and history; its numbers, and `NavSat` | proofs |
| `LidarDriverProofs` | the scanner's node and driver, and the transceiver below | proofs |

An instance that shows several machines chooses one of them in its initial state and
leaves the others' variables alone. This keeps the number of runs small; that they
share nothing is said, and argued, at the head of each. A theorem
names the specification it is about, a machine's own or the instance's.

### 2.1 `OtaBlocks`, `OtaSlicing`

`BlockCount`, `BlockOffset`, `BlockLength`, `PayloadLength` and `FrameCount` are
the expressions of `runTransfer`, `sendBlock` and `readBlock`. `WireIndex` and
`WireSequence` are the casts to uint16 and uint8, with the widths as constants.
`CapabilityVerdict` is the chain of checks after `queryCapability`, in its
order. `OtaSlicing` runs the loops; its `frame` records where the payload was
read (`from`) and where a receiver with only the wire's numbers would put it
(`at`). The real limits (1280 = 256 * 5 bytes a block, 65536 blocks) are the
instance `MaxBlockSize = SequenceSpace * FramePayload`, `MaxBlockCount =
IndexSpace` of the module's assumption.

### 2.2 `OtaTransfer`

The worker is at one of the points `open`, `send`, `top`, `poll`, `abort`,
`stop`:

| Action | Code |
|---|---|
| `Start`, `Cancel` | `start` with an image that loads; `cancel` |
| `Open` | the transport factory and `open()`, the first look at the flag |
| `Send` | the head of `exchange` or of an attempt of `queryCapability` |
| `SendData` | one iteration of the DATA loop of `sendBlock` |
| `Timeout`, `Await` | the head of the wait loop: clock first, then the flag |
| `PollNothing`, `PollReply` | `receiveById` and what follows it |
| `Retry` (helper) | the end of a failed attempt: again, or the error reported |
| `Advance` (helper) | what `runTransfer` does when an exchange succeeds |
| `SendAbort`, `Stop` | `stopIfCancelled` with the flag set; `markWorkerStopped` |
| `HostCrash` | the process dies; `next_session` starts at 1 again |
| `LoseFrame`, `DeviceReplies`, `DeviceData`, `DeviceAbort`, `DeviceReset` | bus and bootloader (external) |

An image is named by the run that sends it, and a CRC is the identity of what it
is computed over, so "flash holds block k of this image" is `flash[k] = run`.
The bootloader is as free as `docs/protocol_v1.md` section 7 and the replies the
host parses allow: it may refuse any command at any time, loses its RAM, and
acknowledges BLOCK_END and END only if the block, or the flash, is what was
announced. That last part is an assumption on code outside the repository: a
bootloader that acknowledges what it did not write defeats every host.

The two queues are FIFO, as a CAN identifier's frames are on one bus. Frames are
lost at the head of either queue; replies are lost when the receive buffer is
full. `write()` fails when the transmit queue is full and whenever else it likes.

### 2.3 `OtaService`

Every region under `mutex_` or `status_mutex_`, every access to the atomic flag,
every join and every callback is one step. `pc["executor"]` is the place in
`handleStartOta`/`start`/`handleCancelOta`/the destructor; `worker` is the place
in `runTransfer`, reduced to its reports: which report may follow which is
`Following` and `ErrorsAfter` of `OtaReports`, and `ReportsInOrder` checks that
`OtaTransfer`, with all its retries, reports only in that order. So `OtaService`
abstracts the bus away without guessing what the worker does. `pending[t]` is
the copy of the status thread t has taken under the lock and not yet handed to
the callback. `run` and `asked` are history variables: which accepted start is
the current one, and in which run the flag was last set.

### 2.4 `SerialFrames`, `WheelStates`, `WheelCommands`

A byte is a record of what it looks like (`AA`, `55`, an id, the length, or
anything else) and of the number its body carries. What it looks like is what the
two parsers compare, so a body may be made to look like a header (`BodyLooks` of
measurements, `CommandLooks` of commands; the run gives commands plain bodies, the
proofs any);
what it carries tells a speed that was measured from one put together of two
packets. A CRC is written as one byte and identifies what it is computed over: the
model has no CRC collisions.

`Got`, `FirstStop` and `Remainder` are `try_parse_one_frame_`: the loop walks over
everything but a header whose packet is not complete, where it waits, and a packet
whose CRC is right, which it takes. `Filled` is `fill_rx_nonblock_` with its bound.
In `WheelStates` a `read` finds any number of the bytes on the line arrived
(`ReadPort(k)`). In `WheelCommands` the feeder reads byte by byte: `Look` is the
test of `in_waiting`, `SyncByte` and `PayloadByte` one turn of the loops of
`find_and_read_cmd` and `read_exact`, `Tick` the rest of the main loop.
Opening a port flushes what the kernel holds: of what is under way to the
controller a front part remains, of what comes from it a rest.

### 2.5 `Teleop`

`loop` is the place of `keyboard_loop`, `main` that of `main` and the destructor.
A Twist is named by the key that asks for it; `Still` is the Twist of zeros. `age`
is `now() - last_cmd_time_` in ticks; `Jump` sets the clock, which moves `age` to
any value, below zero too. `idle` is the true age, `armed` whether a moving key
came after the last timeout, `sigint` whether the context was shut down by the
signal handler: all three are history. `publish()` on a context that is shut down
does nothing (this is rclcpp's, not the repository's).

### 2.6 `ImuNode`

`Construct` is the constructor: `open_socket` may fail, and the exception ends the
node. `Lose` also stands for frames sent while there is no socket. Samples are told apart
modulo `Laps * SeqSpace`, on the bus modulo `SeqSpace`. The
IMU sends the three frames of a sample one after the other with any flags; each may
be lost. `Ignore` is the return after `sensor_status_ok`. `since` is the time since
the last message by the node's clock, which `Jump` sets. `quiet` counts samples
since one part was last accepted, and is what `Outage` speaks of.

### 2.7 `MapCells`, `MapMerge`

The world is a line, in half units so that the middle of a cell is a number, and no
frame is rotated: rows, columns and headings go through the same expressions, and
what is hard - the bounds of the merged grid, the floor to a cell, the rule for two
values, the steps along a trail - is there in one dimension. `Steps` and `Circle`
are exact in these units. The node has one thread, so each callback is a step.

### 2.8 `FirmwareCache`

Each system call of `main()` on the directory is one step, `Kill` may come before
any. `files` maps names to a whole file, a file a process is writing, or a link;
`Target` is what opening a name reaches. An image is known by its run. `links` is
whether the file system has symbolic links: any value, and it never changes.
`OtaFirmware` composes this with the node: `Load` opens `latest.bin` at any moment
of a download, and what it finds is then sliced by `OtaSlicing`.

### 2.9 `OtaBus`

Every node has a raw socket that gets every frame of the bus but its own
(`Broadcast`), as long as there is room. `Construct` is the check of the parameters
in `loadClientOptions`, `Wait`, `Receive` and `GiveUp` are `receiveById`, and
`ValidReply` is `parseReply`. A frame is its id, its format, whether its first byte
is a reply's marker, and who sent it. The bootloaders take what has their request
id; other devices send what they like but replies under an id of the update
protocol. `replied` and `heard` are history: what reached the socket, and what was
accepted from it; `Own` picks from a socket what comes from the node's bootloader.

### 2.10 `RosFilter`

The node spins one thread, so a callback is one step. `Receive` is a message with
all its parts, each under its own topic; `Stamps` lets it come late, repeatedly, or
ahead of the clock. `periodicUpdate` is cut at its loop (`Begin`, `Fuse`, `Fused`,
`Predict`, `Publish`) because the priority queue leaves the order of equal stamps
open. A measurement is its topic, stamp and number; the estimate is the sequence of
the measurements in it, which is what saving, reverting and expiring a history are
about. `enqueued` and `underrun` are history: what was made and not thrown away,
and whether a late measurement found no state old enough to go back to.

### 2.11 `FilterConfig`, `Ekf`

`LoadKind` is one of the four loops of `loadParams` over the sources, a recursive
function of how many it has seen; `LoadSources` is the four in their order. An update
vector is a set of variables. `Diagnose` are the static diagnostics, `Summary` is
the level `aggregateDiagnostics` reports.

`Ekf` abstracts a number to whether it may be nonzero and whether it is finite. The
state is then the set of variables that may be nonzero, a matrix maps each row to
its nonzero columns, and matrix products are exact on that (`Congruent`, `Plus`).
Sines of angles that are zero vanish from `Transfer` and `Jacobian`. `Rotated` and
`RotatedCovariance` mix variables through the sensor's frame; `ForceTwoD` replaces
the 3D variables by zeros; `Usable` leaves out what is not finite; `Control` takes
commands, and `Poisonings` lets one that is not a number through the clamps until it
has timed out. `Given` is the `initial_state` parameter. `OdometryMessage` and
`AccelMessage` are what is published.

Whether a covariance is proper (finite and positive definite, so that the gain has its
inverse) is one Boolean for the filter's and, for a measurement's, the set of
variables whose rows are in `doubt`: nothing in the code looks at a covariance beyond
the signs and sizes of its diagonal, and a rotation multiplies every entry of a block
with every other, so one that is not a number puts the whole block in doubt, whether
its variable is fused or not (`Doubt`). `Corrected` no longer takes state and
covariance for numbers once a variable in doubt was fused (`Improper`); the planar
mode overwrites the variances of the 3D variables and so clears their doubt.
Arithmetic is exact: that a proper covariance stays proper through rounding is not in
the model.

### 2.12 `NavSat`

A position, on the earth or in the world frame, is the time at which the robot was
there, so "these two belong together" can be said without geometry; 0 is the origin,
which no sensor measured. `parameters` are the settings that decide who gives what:
whether the node waits for a datum, whether the file has one, whether the heading
comes with the poses, whether fixes are published back. `inputs` are the three halves
of a transform with their `has_transform_...` flags. `TransformCallback` is the timer:
it makes the transform while there is none (`ComputeTransform`, with `SetManualDatum`
in it), and else publishes (`PrepareGpsOdometry`, `PrepareFilteredGps`). `known` is
what a frame lookup answers, which is any value every time. `together` is history: the
fixes and poses that were the latest at one moment.

### 2.13 `LidarDriver`, `Transceiver`

The node's thread runs a script of driver steps: calls nest (`startScan` calls
`startScanExpress`, which may call `startScanNormal`, each of which stops first), and
a failed step replaces the rest of the script (`Bad`). A request is `Request`, then
`Take` or `Timeout`; the decoder thread is `Decode`, `Handover` and `Store` or
`Unpack`, with its look at the awaited type outside of the lock, as in the code. The
line carries tokens, a head and a body per answer, and the stream of a scan has one
head and bodies without end. A launch names the device (`dtr`, `pwm`, `rpm`, or `old`
for a firmware without scan modes), auto standby and the scan mode.

`Transceiver` goes below the tokens: `open`, `bind`, the rx thread with its wait,
the queue, the event and the decoder, the unbind that joins both. What `LidarDriver`
takes for granted, bytes in order and an unbind that returns, is shown there.

### 2.14 `LidarScan`, `LidarPublish`

The device turns at a speed and sends frames in one of six modes; the stream may lose
or damage bytes. The handlers find frames by sync pattern and, where the frames have
one, checksum, keep the previous capsule, and compute the samples between two start
angles with the wrap at a full turn. `ScanDataHolder` collects samples until the next
sync and swaps two buffers. `LidarPublish` gives samples without an echo an angle,
sorts, and writes the message for each mounting, with and without compensation.

A byte is which byte of which frame it is, and which of the two tests at the head of a
frame it passes (`Look`, `Looks`): the tests of a capsule are two values of one
nibble, so a byte passes one of them or none; those of a normal node are one bit each,
so it may pass both, and a first byte's sync bit is the bit of the second test. Bytes
inside a frame may look like any, and `OnData` is the set of what a handler may become
of them. A handler is out of step when the next frame does not begin where it expects
one. A frame cut across a border is then refused by the checksum, which is taken to be
right only of the bytes of one frame (the real one of a capsule is eight bits wide and
lets one in 256 through). A normal node has no checksum: `OnNormalByte` makes a sample
of whatever five bytes it cached, with the sync bit its first one has, and `astray`
notes the nodes that came whole meanwhile. An invented sample stands for one of the
frame its last byte came with; its angle and distance are of no frame.

## 3. Runs

| Run | Instance | Shows |
|---|---|---|
| `firmware` | images to 40 bytes, block sizes to 10, 2-bit sequence and index; one process, 3 downloads, 2 names, with and without links; two nodes with numbers 1 to 3, bases 4 apart, 2 commands, 1 other frame, sockets of 2 frames | `PlacedWhereRead`; `SentIsGood` (what is sent is one whole, checked image; replies and commands stay in their pairs; no reply is skipped) |
| `transfer` | two runs, 3 attempts, seven capabilities, two blocks (2 frames and 1), fair worker | `AbortIsLast`, `RunEnds`, `ReportsInOrder` |
| `transfer_crash` | two runs, 3 attempts, queues of 4 and 3, process crashes, session numbers reused, up to 2 faults counted | `CompletedIsFlashed`, `HostNeverAhead`, `RunSucceeds`, refinement of `OtaUpdate` |
| `service` | 3 starts, node only, fair threads | `LaunchIsSafe`, `IdleIsSettled`, `NothingOutlivesNode`, `AnswerIsOwn`, `CancelStands`, `Settles` |
| `cancel_sends_abort` | one run | a cancelled run may end without ABORT (`protocol_v1.md:310`) |
| `wheels` | 4 measurements of 9 bytes whose body looks like a header, buffer and line of two packets; 2 commands of 6 bytes, line of 7; one fault each | `SpeedsInOrder`, `ReadYields`, `CommandsInOrder`, `CommandReaches` |
| `nodes` | keyboard: 2 moving keys, timeout of 2 ticks, clock set twice; IMU: sequence modulo 3, two laps, period of 2, clock set once; map merge: two maps of two resolutions, one robot, trail of 2 poses | `QuitStops`, `DeadMan`, `NoRevival`, `OneSample`, `LargestWins`, `Trail`, `Recovers` |
| `ekf_queue` | an odometer whose pose is differenced and whose twist is fused, an IMU; 3 measurements, 3 instants, one `set_pose`, one toggle; the robot's settings and two that smooth, one of them predicting, disabled at first, with a negative length | `SetPoseForgets`, `Conserved`, `Smoothed`, `Drains` |
| `ekf_data` | the robot's `ekf_imu_odom.yaml`, a drone's, a planar one that differences, two under control with and without gains; level and tilted sensors; values, covariances and commands that are not finite; navsat: three settings, 3 instants, one datum, one change of the declination | `Flat`, `StaysFinite`, `WarnsUnmeasured`, `Georeferenced` |
| `lidar_scan` | six modes, frames of 4 bytes (of 5 in normal mode, as in the code), 5 units a turn, two speeds, 7 frames, one of them hurt, a restart, buffers of 12 samples; circles of 8 degrees with 3 samples, every mounting | `ScanIsTurn`, `ShownInPlace` |
| `scan_out_of_step` | the same in normal mode | a scan made of invented samples, of nodes that came whole (`sl_lidar_driver.h:422`) |
| `lidar_driver` | the robot's launch and three others, one fault, one late answer, one service call, two changes of subscribers; below it 3 bytes and 2 binds | `NothingForeign`, `NothingLost`, `Rests`, `Responds` |

Why the bounds are enough. Two blocks are needed for an ACK of one to be taken
for the other; two frames in one and one in the other for a block to be partly
sent and for the short last block; two runs for anything to leak from one into
the next, and for a session number to be reused after a crash. Queues longer than
a whole block with its BEGIN and END add nothing but more of the same leftovers;
the proofs remove all of these bounds for the safety properties. In `firmware` the
widths are 2 bits so that the wrap is within reach: block sizes above and counts
above the limits are among the inputs, and are what the capability check must
refuse. In `transfer_crash` the budget equals `max_retries`, which is the claim; the
transmit queue holds a whole block, so that a full queue is a fault and not the
rule.

On the bus three numbers for two nodes make every pair of neighbours, and of numbers
whose ids lie in the other base's range; the limits make one of them too large for
standard frames. On the serial line one fault is enough to join two packets or to
break one; two packets in the buffer are the least in which one can be behind the
other, and a third or fourth on the line overflows it. A command line of one packet
and one byte lets a short packet run into a whole one. In `nodes` three numbers and
two laps let every pair of old and new samples meet with equal and with different
numbers; the maps overlap in part, in full or not at all as their
frames move. One process of `FirmwareCache` is what the script is made for; section
5 says what two do.

In `ekf_queue` three measurements at three instants are the least for one to come late
behind a saved state while another waits for the future. `ekf_data` needs no bound on
values, since its numbers are abstract: a queue of one measurement suffices because
measurements in the queue do not touch each other, except a differential source's
previous pose, which is state; three instants let a fix and a pose each be older,
newer, or of the same moment as the one the transform was made of. In `lidar_scan` two
sample counts do not divide the angle's unit, as in the real capsules; seven frames
are more than a turn at the higher speed with a lost frame inside. A frame needs two
bytes behind its two tests, so that a false start fits inside it and the handler can
stay out of step from one frame to the next: four bytes do this in the modes whose
real frames have 84 and more, and what comes between is only cached. A normal node has
its real five, since there a handler may cut the stream at each of them. In
`lidar_driver` one fault hits any token or command, and one late answer is what can be
taken for the next one. The mutants in `PROJECT.json` show that each bound lets its
property fail when the code is changed.

`CHECK_DEADLOCK FALSE` is set where a bound ends a behaviour (`MaxRuns`,
`MaxStarts`, `MaxSent` and so on used up and the queues empty), and in `nodes`, where
the keyboard node ends when it is told to.

### Fairness

- `OtaTransfer`: weak fairness of the worker (a thread the system schedules) and
  strong fairness of `Timeout` (a steady clock passes every deadline, however
  often the wait loop finds other frames first). Nothing is assumed of the bus,
  the bootloader or the caller.
- `OtaTolerance`, and so all of `transfer_crash`, is safety only: `RunSucceeds` says
  that a run has not failed while its faults are within the budget.
- `OtaService`: weak fairness of the worker, of the executor's steps inside a
  handler (not of requests arriving) and of each callback; strong fairness of
  the status timer, which fires periodically but waits its turn on the executor.
- `WheelCommands`: weak fairness of whole writes (the controller manager's cycle;
  a short write is a fault and bounded), of the feeder's loop and of its clock.
- `Teleop`: weak fairness of the keyboard thread, of `main` and of time. Nothing is
  assumed of the user or of who sets the clock.
- `ImuNode`: weak fairness of time only; `Resumes` speaks of the frames it needs.
- `RosFilter`: weak fairness of the timer's callback (it fires as long as the node
  spins) and strong fairness of the clock, which passes between two callbacks
  however often they come. Nothing is assumed of messages.
- `LidarDriver`: weak fairness of the node's thread where it does not wait for the
  outside (`Steps`, `Standby`, `Quit`), of the decoder thread, and of the device
  obeying commands. Nothing makes the device measure, an answer come in time, a
  service be called or a subscriber stay.
- `Transceiver`: weak fairness of the owner, the rx thread (its wait for data ends
  after a second) and the decoder (its wait ends after a second).

## 4. What is proved

All theorems hold for every value of the constants that the modules' named
assumptions allow, so for any image, block size, number of retries, queue
length, number of runs or of threads.

**Transfer.** `CompletedIsFlashed`, `HostNeverAhead` and `AbortIsLast` are proved
under `UniqueSessions`: the host does not crash and there are fewer runs than
session numbers. The inductive invariant `TransferInv` is the conjunction of
`TypeOK`; `SessionIsRun` (a session number is the run that has it); `Admitted`
(what the worker sends next fits what it has sent); `FramesOK` and `Sorted` (which
frames may be in the request queue, and which may follow which); `RepliesOK` (what
each reply that the worker could accept is evidence of: a positive one for
BLOCK_END k says that block k is in flash); `Flushed` (nothing of an ended session
can touch the flash of the next); `Written` (blocks before the worker's are in
flash) and `CompletedAtEnd`. It is needed because the properties are about flash
while the worker sees only replies: a DATA frame of another block or run spoils the
block buffer - its content is then not the one the CRC names - instead of entering
the flash, and within a session nothing but DATA, BLOCK_BEGIN and BLOCK_END of this
image follows START. Without the assumption `AbortIsLast` is false (two processes
may use one number); the other two still hold in the run `transfer_crash` and are
only model-checked there. `TypeOK` needs no assumption, and neither does `ReportsInOrder`,
which holds over crashes and reused sessions too: `Reported` says which states and
errors the point the worker is at allows, so that each of its nine exits can be
looked up in the table of `OtaReports`.

**Faults.** `BudgetSuffices` proves `RunSucceeds` over crashes, resets and reused
sessions, for any `MaxRetries`: a first run that opened its socket does not fail before
more faults than `max_retries` happened, wherever they fall. Its hypothesis
`RetriesSuffice` says that the budget is at most `max_retries`, and that no capability
in question is one the image fails on (`runTransfer` gives up on those without a fault).
A reset of the bootloader counts as more than any budget. What needs an argument is
that retries are counted per command, but a reply that comes after its attempt was given
up stays in the socket and meets a later exchange. `ToleranceInv` joins `TransferInv`
with two things, from the first command on until the run ends or its budget is used up.
`Orderly` says that the frames on their way are what one worker sent, one after the
other (`Adjacent`, `LastSent`, `Segments`, `BeginFirst`), that replies come in the order
of the commands, that nothing of another block is left behind the ACK of BLOCK_BEGIN
(`BlockAtHand`), and what the bootloader holds (`Held`, `Opened`). `WithinBudget` is an
account. Replies, then frames, are one pipeline; a reply may begin the block (`good`),
cost an attempt of BLOCK_BEGIN (`bad`) or of another command (`refusal`), or nothing, and
a frame is what its reply will be if nothing else goes wrong. There is a `Bill` that says
from each item on how many attempts the rest can still cost; the attempts made, what the
bill charges and the attempt that ends because no answer is coming any more (`Hopeful`)
are together no more than the faults so far. The charge for BLOCK_BEGIN and for what
follows it differ, because a refused BLOCK_END goes back to BLOCK_BEGIN; a third number
bounds the replies left that begin the block by the attempts it took, which is what
they can cost the next block. What is sent costs nothing while all goes well
(`SentBudget`), a reply or a retry is paid from the bill (`MismatchBudget`, `RetryCost`,
`AdvanceBudget`), and a lost frame or a reply that is not the one due raises the bill by
one at most, for the fault that it is (`LossBudget`, `ReplyBudget`).

**Update.** `ImplementsUpdate` shows that every step of `OtaTransfer` is a step
of `OtaUpdate` or a stutter, under the mapping of `Phase` and `Missing`. The
step that needs the invariant of the previous paragraph is the bootloader's:
after completed nothing on the bus may change the flash.

**Service.** The invariant `ServiceInv` says that one thread holds the client
between acceptance and release (`OneHolder`), that at most that thread has
reports under way (`OneReporter`), that the node's copy is behind only while a
report is (`LastWord`), that the flag belongs to the run in `asked` (`FlagIsOwn`)
and that the image facts in the status are those of the call (`OwnFacts`). It is
proved for any set of cancelling threads; only `CancelKept` assumes that there
are none besides the executor, and section 5 says why it must.

**Firmware.** For the slicing the invariant relates `placed`, `offset`, `index` and
`sequence`: what is placed is the offset of the block plus the offset within it,
and the sequence number is the number of frames sent, not yet wrapped, because
`block_size <= SequenceSpace * FramePayload`. The nonlinear facts about the
block table (`BlockExists`, `BlockLengthFacts`) are lemmas of their own.
`OneGoodImage` proves `SentIsGood`: `CacheInv` follows what `latest.bin` is from the
image it was to the one it will be, through every system call, failure and kill, and
`FirmwareInv` joins it to the loops that send what was opened. Its hypotheses are
that no download is itself called `latest.bin` (section 5 says what happens then),
and `BasesFarApart`, under which no two numbers differ by exactly the distance of the
bases. For the bus `BusInv` says that a socket holds only frames that fit: under the
node's own response id there are only its bootloader's replies, or frames without a
marker. `KeptInv` counts replies: what reached the socket is what was heard, followed
by the node's own replies still in it; `Own` is a recursive function, so the lemmas
about appending and removing are inductions over naturals from a least counterexample.

**Wheels.** In `StatesInv` the receive buffer and the line are one sequence of bytes:
the numbers the bodies carry rise along it and are above every speed used so far
(`Rising`), and whatever was lost, disturbed or dropped, two whole packets in it never
overlap (`NoOverlap`: the bytes of a body carry a number, those of a header do not,
although they may look alike). So the parser, which may take a body for a header and
walk on from there, still passes no whole packet (`RemainderKeeps`), and takes only
such packets whose bytes were sent as one (`Taken`). `ReadYields` counts whole packets
before and after a cycle by a bijection. `CommandsInv` says the same of the payload
being read followed by the line (`Ordered`), over truncated commands, flushes and
activations. What a body looks like is arbitrary in both directions. That no two
different packets have the same CRC is in the model, not in the code.

**Map merge.** `MergedIsLarger` shows for all thresholds that the rule of
`overlay_map` is the maximum on what `normalize_cell` returns, and `OrderFree` that
two maps may therefore be laid over a cell in either order. The rule's branch for two
free values, which takes the smaller one, is why this needs an argument: on
normalised values both are then 0. `LargestOfAll` proves `LargestWins` for any number
of maps. `OverlayMap` and `Overlaid` are recursive functions, the loops of the code;
what one comes to is an induction over a set of naturals (`StepwiseUpTo`), first that
the recursion has a solution at all (`LoopExists`), then that a loop which keeps its
value or takes a larger one of what its step offers ends with the largest of all
offers (`LoopTakesLargest`), once for the cells of a map (`OverlayTakesLargest`) and
once for the maps (`OverlaidIsLargest`). `NoneOutside` is the arithmetic of the
floor and the ceiling: the test of `overlay_map` that leaves out cells beyond the merged
map never leaves out a known one.
`TrailIsClear` proves `Trail` for any maps, frames, poses, cell length and radius.
`MergeInv` gives the types and the bound of a trail; `Bounded` that the merged map begins
somewhere, a least number among finitely many; and `StepsCover` is the argument
for `clear_line`: its steps are no longer than half a radius, or than a cell if that is
more, so the first step to go past a cell ends within the radius of it (`ShortStep`),
whatever the floors do.

**Teleoperation.** `DeadMan`, `NoRevival` and `QuitStops` are proved for any set of
keys, any timeout and any number of clock changes by any amount. The invariant
`KeyboardInv` says that while nobody set the clock the computed age is the true one
(`TrueAge`), that a stored Twist that moves comes from a key after the last timeout
(`StoredIsArmed`), that the destructor runs only after the shutdown
(`ClosedAfterShutdown`), and that without a signal the shutdown is the keyboard
thread's last step with a stop before it (`StoppedBeforeShutdown`): none of the
properties says how the context came to be shut down, and `QuitStops` needs it.

**IMU node.** `PublishesOneSample` says for any width of the sequence number that no
message is of two samples. It compares numbers that wrap, so the invariant has to say
how far apart two samples can be: what is stored is of the sample `quiet` before the
present one, counted around (`AsOldAsQuiet`). Two samples less than one lap of the
numbers apart that have the same number are the same (`SameNumber`).

**EKF node.** `NothingReturns`, `NothingLostOrTwice` and `InOrderOfStamps` are proved
for any sources, settings and bounds. The filter saves its state after each time it
has reached, goes back to a saved state when a measurement comes late, and puts the
measurements since then back into the queue; the properties speak of the estimate
only, and the invariant has to say what the history is. `Lagged`, under smoothing: every saved
estimate is a front part of the next and of the present one (`Ancestry`), ends where
the times change (`Borders`), and the kept measurements are the estimate's from the
oldest saved state on (`Suffix`), so that going back and fusing again
gives neither more nor less; `Loop` says where the timer's loop stands between two
measurements of one time. `Straight` is the same without smoothing, where there is no
history. `Current` bounds all times. The hypothesis of `Conserved` that no late
measurement went below the oldest saved state (`underrun`) is needed: section 5.

`StaysFinite` speaks of an estimate that was a proper one when it was set. Its history
`sound` ends when a covariance that is not proper is fused or a command that is not a
number drives a prediction; both reach the state in the code (section 5). What is
left, and what needs the invariant, is that everything else is kept out: values that
are not finite, from the message or computed on the way, in whatever frame, and
covariances that come with what is then not fused or what the planar mode overwrites.
`Flat` speaks of the estimate while it is finite, and of its covariance while that is
proper. `StaysFinite` and `Flat` are proved for any configuration of any sensors and
any mounting: the planar mode zeroes a measurement's variables when it is received,
and the invariant `EkfTypes` carries that through the queue (`QueueLevelled`); what
remains is that prediction, correction and process noise keep a covariance that has no
entry between the plane and the rest (`Split`, `PlaneKept`). `TiedToTheEarth` rests on
`NavInv`: while no datum was given and the declination was not changed, the inputs of
a transform that is still to be made are the latest ones (`InputsAreLatest`), and a
fix that waits to be published is newer than the one that was (`WaitingIsNewer`).
`WarnsRightly` is about any number of sources of any configuration. `Tallied` holds
from one source to the next: a variable's counters are zero exactly if no subscription
so far updates it or its velocity (of Y nothing is said: section 5), and no error has
been diagnosed yet, only warnings. Each loop keeps it (`LoadOdomKeeps`,
`LoadPoseKeeps`, `LoadTwistKeeps`, `LoadImuKeeps`), the loops' recursive function by a
least counterexample over the sources (`LoadKindKeeps`), and `ErrorIsReported` shows
that no later message of a lower level covers the error in a report.

**Scanner.** `NothingLost` is proved whole. `PortHeld` and `PromptWake` rest on
`LinkInv`: the threads exist between bind and join and no longer, and once the owner has
set the event only the decoder's wait takes it back, after which the decoder makes one
more test of `_isWorking`. `InSequence` is about bytes in five places - decoded, on the
decoder, queued, on the rx thread, in the kernel - of which each must begin where the
one before ends (`Chained`). The queue is a sequence of buffers, and laying them one
after the other is a recursive function: a least counterexample over its length
shows what appending and removing a buffer does to it. `ComesToRest` shows `Rests` with
`RestInv`: beside the types, `Winds` says that once the node has stopped the scan, or is
about to, no step left in its script turns anything on, and `Halts` that then, unless a
command was lost, the script still holds the step that turns the motor off, or the last
of the motor's commands on the line turns it off, or it is off. Nothing is assumed of the
launch file, the faults or the device.

`TakesItsOwn` shows `NothingForeign` with `StreamInv`, which counts. `Outstanding`: the
answers stored, in hand, in the codec and on the line, and the questions before the
device, are at most those that were late, the one the node waits for, and one torn from a
header whose payload was lost. `Behind`: as long as the beginning of an old scan is
somewhere - a command, a header on the line, the codec in its endless message, a frame in
hand - the answers ahead of it were late but for one, and with each of the four questions
a start has had answered there is one less (`Needs` says that every start still to come in
the script has its questions before it, which is proved of each script the node can
run). So before three answers were late no start reaches its scan command with an old
scan's beginning left, and `Fresh` follows: what there is of a scan is of the session. For the answers
themselves `Dialogue` says, while nothing is late or lost, where the one question is: on
its way, its answer's two tokens on the line next to each other (`Paired`) or in the codec,
whole in the decoder's hand, or stored. The request resets the codec and tears a frame
that is being copied, never an answer, because nothing is outstanding then.

**Only model-checked.**

- Liveness (`RunEnds`, `Settles`, `CommandReaches`, `Recovers`, `Drains`, `Responds`):
  TLAPS does not reason about `ENABLED` here.
- `CompletedIsFlashed` and `HostNeverAhead` where the host crashes and sessions are
  reused.
- What folds and `SelectSeq` compute for every input, an
  induction over data: `ScanIsTurn` (`LidarScan`, whose handlers fold over bytes),
  `ShownInPlace` (`LidarPublish`, a sort).
`SentContiguously`, `ImageSent` and `CancelledAsked` are only proved.

## 5. Where the code and its documents differ

The first two of these are runs; the others are steps a reader can follow in the modules.

- A cancelled run may end without ABORT: the run `cancel_sends_abort`.
- `sl_lidar_driver.h:422` says that the samples of a grabbed scan are of exactly one whole
  turn. In normal mode a handler that lost bytes may stay out of step with the nodes
  (`OnNormalByte`), each of which comes whole, and fill a scan with samples it makes of
  their bytes: the run `scan_out_of_step`. In ultra mode the truncated angle increment
  (`Inc`) loses the mark of a turn that starts with a capsule, and two turns become one
  scan, with nothing lost (TLC shows it in the same run with `Modes = {"ultra"}`,
  `MaxFaults = 0` and `MaxNodes = 40`). `ScanIsTurn` excepts ultra mode, and scans near
  nodes that came astray.
- `navsat_transform.yaml` says that where there is no `datum` parameter the node waits
  for the `datum` service. The constructor sets one of zeros and ties the world frame
  to latitude and longitude 0 (`Init`, `SetManualDatum`).
- `ota_client.hpp:70` says a dry run synchronises and queries the bootloader;
  `start()` returns before the worker exists (`DryRun`).
- `ota_client.hpp:72` calls `cancel()` thread-safe. Called by another thread between
  `Prepare`, which sets `running_`, and `Arm`, which clears the flag, it finds a run
  active and is lost. From the node's single executor thread this cannot happen.
- `ota_error.hpp:19` keeps `protocol_error` for a NACK or an illegal reply; a block
  whose attempts all timed out reports it too (`ExhaustedError`).
- `stm32_dummy_feeder.py:146` promises that the wheels return to zero when no
  command comes. After the front part of a packet `find_and_read_cmd` waits for
  ever (`SyncByte` has no other way out) and the watchdog is not reached;
  `CommandReaches` is what does hold.
- `mecanum_teleop_keyboard.cpp:250` promises a stop after the timeout. Setting the
  ROS clock back makes the old key fresh again (`Fresh` after `Jump`); `DeadMan`
  holds while nobody does, `NoRevival` and `Recovers` always.
- `mecanum_teleop_keyboard.cpp:81` says the destructor publishes a stop. `main`
  reaches it once the context is shut down, when publishing does nothing; `QuitStops`
  holds of a Ctrl+C that is read as a key, which stops first.
- `download_firmware.py:121` says later updates can always use `latest.bin`. Between
  `Unlink` and `Symlink`, and after a kill between them, it does not exist.
- `download_firmware.py:98` and `:117` say a named image is only ever replaced whole.
  With two processes, the second `Symlink` finds the first one's link, falls back to
  `CopyBegin` and writes its own image through that link; and where there are no
  links, `latest.bin` is itself written in place.
- With `--filename latest.bin` the run removes its own image and leaves a link to
  itself (`Unlink`, `Symlink`), and reports success.
- `stm32_ota_node.cpp:102` says that nodes with their own ids do not receive each
  other's frames. The request id of number 0x80 + k is the response id of number k:
  a number above 0x7F next to one 0x80 below it makes them meet. The marker byte
  still keeps such a frame from being taken for a reply; `BasesFarApart` is the
  assumption under which it does not come to that.
- `ros_filter.cpp:2090` says that a last published stamp later than the present one
  should never happen. It does whenever a late measurement takes the filter back and
  the queue then ends before the old time (`Receive` with an old stamp, `Fused`).

Other behaviour met while modelling, which the models have as it is in the code:

- *Filter node.* With a history too short to reach a late measurement, `revertTo`
  (`ros_filter.cpp:3332`) keeps its oldest state and gives back only what is newer;
  `underrun` marks it, and `Conserved` speaks of the rest. `setPoseCallback` does
  not look at what `preparePose` returns, and sets the zero measurement when the
  frame is unknown (`:2253`). Two poses of a differential source with equal stamps
  divide by zero (`:3023`); `Usable` then drops what is not finite. While disabled
  the queue grows without bound (`:2031`). The count of sources of Vy is that of Vx
  (`:1219`), so the diagnostics cannot see that nothing measures Vy: `Summary` has
  it, and `WarnsUnmeasured` excepts it. `use_control` without gains reads an empty
  vector (`filter_base.cpp:375`). A command that is not a number passes the clamps
  and reaches the state. So does a covariance that is not proper (`Improper`):
  `copyCovariance` (`:2481`) looks at nothing but sizes, to warn; a variance that is not a
  number is neither less than 0 (`ekf.cpp:123`) nor than 1e-9 (`:140`), the gain is
  none either (`:165`), no distance computed with it is over the threshold
  (`filter_base.cpp:439`), and it is added to the state (`ekf.cpp:192`). A rotation
  spreads one entry over its block, so it need not be the entry of a variable that is
  fused; infinite entries and singular sums do the same. "Handle nan and inf values in
  measurements" (`ekf.cpp:73`) is about values only. `StaysFinite` holds without such
  commands and covariances only.
  `validateFilterOutput` logs, and the message is published all the same (`:2076`).
- *GPS.* After a change of the magnetic declination the transform is made again from
  what `inputs` hold; fixes that came while it was good were not noted there, so a new
  pose may be paired with an old fix (`SetDeclination`; `Paired` excepts it). Where a
  frame is unknown `getRobotOriginWorldPose` returns the origin, and that is published,
  though its log says that only the offset is left out. With `use_local_cartesian` the
  world is placed by a local projection, but `gpsFixCallback` and `mapToLL` go on in UTM.
- *Scanner node.* A scan that was complete at `stop` stays in the holder and the next
  grab publishes it; where the speed is still to be set, that also starts the motor
  again (`rplidar_node.cpp:472`). In standby without subscribers an A model turns
  (`:432`), and an error exit leaves it turning: `Rests` speaks of orderly exits.
  The result of the third `getDeviceInfo` is not looked at and its model may be
  anything (`:422`). An odd number of samples with `flip_x_axis` leaves one range
  unwritten (`:270`); one sample divides by zero (`:254`).
- *Driver.* `openChannelAndBind` returns success when the port did not open, because
  an inner `ans` hides the outer one (`sl_async_transceiver.cpp:204`). Buffers left
  at the unbind are released with `delete []` although made with `new` (`:255`). The
  type an answer is waited for is compared outside of the lock
  (`sl_lidar_driver.cpp:1664`), so an answer that comes after its timeout may serve
  the next request for the same type; where as many come late as a start asks for (six),
  a start is answered by the one before it and takes that one's samples. `getDesiredSpeed` reads
  its answer without looking at the length (`:1171`). The rx thread ends on an error,
  and nobody reads `_workingFlag`. The dense capsules'
  `reset` keeps the previous capsule (`handler_capsules.cpp:730`): the first samples
  after a restart may be computed across the gap.

## 6. What is not modelled, and why

- Byte layouts of frames, CRC polynomials, parsing of lengths: pure functions,
  tested byte for byte by `test/test_ota_host.cpp`.
- Socket options, filters and the epoll/poll details of `CanTransport`: I/O. What
  matters to the worker - a send fails, a receive times out, fails or returns a
  frame with the expected identifier - is in `Send`, `PollNothing`, `PollReply`.
- Exceptions on the worker thread: they terminate the process, which is
  `HostCrash`.
- Durations: a wait may time out at any moment. This covers every choice of
  `ack_timeout`, `receive_timeout` and `inter_frame_delay`.
- Of the serial line: termios settings, float encoding and CRC arithmetic; the
  positions that `read` integrates from the speeds (floating point; they move on with
  the last speed when measurements stop); the feeder's first-order lag and noise.
- Of the IMU node: scaling and covariances; the status frame 0x184, which is stored
  and logged only.
- Of the map merger: rotation and the second dimension (section 2.7), parameters.
- Of the download: HTTP and SHA-256; a download is right or not, and a check tells.
- Of the EKF node: the values of state and covariance beyond "may be nonzero",
  "finite" and "proper" (so neither overflow and rounding - the parameter files are taken
  to hold numbers and proper covariances - nor convergence, nor the size of the
  Mahalanobis thresholds, which
  is a choice); frame lookups, which give a rotation or nothing; the broadcast
  transform; `reset`, which nothing calls (`ros_filter.cpp:251` is commented out).
- Of the laser scanner: distances, qualities and timestamps of samples; a torn frame
  whose checksum is right by chance; channels
  other than the serial port; the ports to other systems (`arch/win32`,
  `arch/macOS`); setting the IP address and negotiating the baud rate, which
  this node does not do.
- Of `navsat_transform_node`: geometry, projections and covariances (a position is the
  time the robot was there); broadcasting transforms; the services `toLL`, `fromLL` and
  `setUTMZone`, which change nothing but the zone.
- `ukf_node` and `robot_localization_listener`: no launch file of the
  robot starts them. Launch files, maps, worlds and robot descriptions: data.

## 7. Plan

Done: the update of the controllers (`OtaBlocks`, `OtaSlicing`, `OtaTransfer`,
`OtaUpdate`, `OtaTolerance`, `OtaReports`, `OtaService`, `FirmwareCache`,
`OtaFirmware`, `OtaBus`), the wheels (`SerialFrames`, `WheelStates`, `WheelCommands`),
`Teleop` and `ImuNode`, the EKF node's queue, parameters and numbers
(`RosFilter`, `FilterConfig`, `Ekf`), `NavSat`, `LidarDriver` and `Transceiver`,
`MapCells` and `MapMerge`, all with proofs; `LidarScan` and `LidarPublish`, model-checked.

Next, proofs before more code:

1. `LidarScan`: that a scan starts with its sync (`StartsWithSync`, the part of
   `ScanIsTurn` without folds); `LidarPublish`: that nothing is left out (`AllShown`).
2. `CompletedIsFlashed` without `UniqueSessions`.
3. An abstract wheel link ("the speed used is one that was measured, in order") that
   `WheelStates` and `WheelCommands` both implement.
4. `LidarDriver` over `Transceiver` as a refinement: the line's tokens are what the
   decoder takes from the queue.
