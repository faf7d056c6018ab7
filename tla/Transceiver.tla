------------------------------ MODULE Transceiver ------------------------------
(***************************************************************************)
(* AsyncTransceiver of the rplidar SDK over the Linux serial port: the     *)
(* thread that reads the port, the thread that decodes what was read, the  *)
(* queue and the event between them, and the owner that binds the channel  *)
(* (SlamtecLidarDriver::connect) and lets go of it (disconnect).           *)
(*                                                                         *)
(* LidarDriver takes for granted what this module shows: that a decoder    *)
(* gets the device's bytes in order and in time, and that a disconnect     *)
(* comes back.                                                             *)
(***************************************************************************)
EXTENDS Integers, Sequences, SequencesExt

CONSTANTS
  MaxBytes,   \* bound on the bytes the device sends
  MaxBinds    \* bound on the times the channel is bound

VARIABLES
  owner,      \* where connect or disconnect is
  connected,  \* _isConnected of the driver
  working,    \* _isWorking
  open,       \* serial_fd is open
  failed,     \* WORKING_FLAG_ERROR
  event,      \* _dataEvt is signalled
  queue,      \* _rxQueue: buffers, each a sequence of bytes
  rx,         \* the rx thread, and the buffer it has read
  decoder,    \* the decoder thread, and the buffer it is on
  wire,       \* bytes the kernel holds for the port
  dead,       \* the cable is pulled
  sent, from, \* bytes the device sent, and had sent when the channel was bound
  decoded,    \* bytes decoded in this binding (history)
  binds       \* what the bound counts

owning == <<owner, connected, working, open, binds>>
device == <<dead, sent>>
past   == <<from, decoded>>
vars   == <<owning, failed, event, queue, rx, decoder, wire, device, past>>

At(pc)       == [pc |-> pc, buf |-> <<>>]
Has(pc, buf) == [pc |-> pc, buf |-> buf]

-----------------------------------------------------------------------------
(* The owner *)

\* raw_serial::open, with its settings, discards what the kernel has.
PortOpens  == ~ dead /\ open' = TRUE /\ wire' = <<>>
PortCloses == open' = FALSE /\ wire' = <<>>

\* connect: a port that does not open leaves the driver connected all the same,
\* without threads (the result is lost in an inner variable).
Connect ==
  /\ owner = "out" /\ ~ connected /\ binds < MaxBinds
  /\ connected' = TRUE /\ binds' = binds + 1
  /\ \/ PortOpens /\ owner' = "opened"
     \/ UNCHANGED <<owner, open, wire>>
  /\ UNCHANGED <<working, failed, event, queue, rx, decoder, device, past>>

\* The rest of openChannelAndBind: flush, and start the threads.
Bind ==
  /\ owner = "opened"
  /\ owner' = "in" /\ wire' = <<>> /\ event' = FALSE /\ working' = TRUE /\ failed' = FALSE
  /\ rx' = At("loop") /\ decoder' = At("start")
  /\ from' = sent /\ decoded' = <<>>
  /\ UNCHANGED <<connected, open, binds, queue, device>>

\* Not the code: the threads are woken before they are told to stop.
ReleaseWakeFirst ==
  /\ connected
  /\ \/ owner = "in" /\ owner' = "joining" /\ event' = TRUE /\ UNCHANGED <<connected, working>>
     \/ owner = "out" /\ connected' = FALSE /\ UNCHANGED <<owner, working, event>>
  /\ UNCHANGED <<open, binds, failed, queue, rx, decoder, wire, device, past>>

\* disconnect, and unbindAndClose up to the wake-up.
Release ==
  /\ connected
  /\ \/ owner = "in" /\ owner' = "waking" /\ working' = FALSE /\ UNCHANGED connected
     \/ owner = "out" /\ connected' = FALSE /\ UNCHANGED <<owner, working>>
  /\ UNCHANGED <<open, binds, failed, event, queue, rx, decoder, wire, device, past>>

Wake ==
  /\ owner = "waking" /\ owner' = "joining" /\ event' = TRUE
  /\ UNCHANGED <<connected, working, open, binds, failed, queue, rx, decoder, wire, device, past>>

Join ==
  /\ \/ owner = "joining" /\ decoder.pc = "done" /\ owner' = "joining rx"
     \/ owner = "joining rx" /\ rx.pc = "done" /\ owner' = "closing"
  /\ UNCHANGED <<connected, working, open, binds, failed, event, queue, rx, decoder, wire, device,
                 past>>

\* The channel is closed; the byte in the self pipe that cancels a wait and
\* _closePending come when no thread is left to see them. What is still queued
\* is dropped.
Close ==
  /\ owner = "closing" /\ owner' = "out" /\ connected' = FALSE
  /\ PortCloses /\ queue' = <<>> /\ rx' = At("off") /\ decoder' = At("off")
  /\ UNCHANGED <<working, binds, failed, event, device, past>>

-----------------------------------------------------------------------------
(* The rx thread *)

RxStep(to) ==
  /\ rx' = to
  /\ UNCHANGED <<owning, decoder, device, past>>

RxLoop ==
  /\ rx.pc = "loop" /\ RxStep(At(IF working THEN "waiting" ELSE "done"))
  /\ UNCHANGED <<failed, event, queue, wire>>

\* waitfordata: bytes are there, or come while it selects; nothing comes for a
\* second; or the device is gone.
RxReady ==
  /\ rx.pc = "waiting" /\ wire # <<>> /\ ~ dead /\ RxStep(Has("reading", wire))
  /\ UNCHANGED <<failed, event, queue, wire>>

RxTimeout ==
  /\ rx.pc = "waiting" /\ wire = <<>> /\ ~ dead /\ RxStep(At("loop"))
  /\ UNCHANGED <<failed, event, queue, wire>>

\* The error ends the thread, unless it is to stop anyway.
RxError ==
  /\ rx.pc = "waiting" /\ dead /\ failed' = (failed \/ working)
  /\ RxStep(At(IF working THEN "done" ELSE "loop"))
  /\ UNCHANGED <<event, queue, wire>>

\* recvdata, with the size waitfordata gave: no one else reads the port.
RxRead ==
  /\ rx.pc = "reading"
  /\ \/ \E n \in 1 .. Len(rx.buf) :
          /\ ~ dead /\ RxStep(Has("pushing", SubSeq(wire, 1, n)))
          /\ wire' = SubSeq(wire, n + 1, Len(wire)) /\ UNCHANGED failed
     \/ dead /\ RxStep(At("done")) /\ failed' = TRUE /\ UNCHANGED wire
  /\ UNCHANGED <<event, queue>>

\* _rxLocker is held from the push to the signal.
RxPush ==
  /\ rx.pc = "pushing" /\ queue' = Append(queue, rx.buf) /\ RxStep(At("signalling"))
  /\ UNCHANGED <<failed, event, wire>>

RxSignal ==
  /\ rx.pc = "signalling" /\ event' = TRUE /\ RxStep(At("loop"))
  /\ UNCHANGED <<failed, queue, wire>>

-----------------------------------------------------------------------------
(* The decoder thread *)

DecoderStep(to) ==
  /\ decoder' = to
  /\ UNCHANGED <<owning, failed, rx, wire, device, from>>

\* onDecodeReset, and the test of the loop.
DecoderLoop ==
  /\ \/ decoder.pc = "start" /\ DecoderStep(At("loop"))
     \/ decoder.pc = "loop" /\ DecoderStep(At(IF working THEN "looking" ELSE "done"))
  /\ UNCHANGED <<event, queue, decoded>>

Look ==
  /\ decoder.pc = "looking" /\ rx.pc # "signalling"
  /\ IF queue = <<>> THEN DecoderStep(At("waiting")) /\ UNCHANGED queue
     ELSE DecoderStep(Has("decoding", Head(queue))) /\ queue' = Tail(queue)
  /\ UNCHANGED <<event, decoded>>

\* Event::wait: it takes the signal, or runs into its second; a signalled event
\* and a time-out both begin the loop again.
Wait ==
  /\ decoder.pc = "waiting" /\ event' = FALSE /\ DecoderStep(At("loop"))
  /\ UNCHANGED <<queue, decoded>>

DecodeData ==
  /\ decoder.pc = "decoding" /\ decoded' = decoded \o decoder.buf /\ DecoderStep(At("loop"))
  /\ UNCHANGED <<event, queue>>

-----------------------------------------------------------------------------
(* The device *)

Emit ==
  /\ ~ dead /\ sent < MaxBytes /\ sent' = sent + 1
  /\ wire' = IF open THEN Append(wire, sent + 1) ELSE wire
  /\ UNCHANGED <<owning, failed, event, queue, rx, decoder, dead, past>>

Unplug ==
  /\ ~ dead /\ dead' = TRUE
  /\ UNCHANGED <<owning, failed, event, queue, rx, decoder, wire, sent, past>>

-----------------------------------------------------------------------------

Init ==
  /\ owner = "out" /\ connected = FALSE /\ working = FALSE /\ open = FALSE /\ failed = FALSE
  /\ event = FALSE /\ queue = <<>> /\ rx = At("off") /\ decoder = At("off")
  /\ wire = <<>> /\ dead = FALSE /\ sent = 0 /\ from = 0 /\ decoded = <<>> /\ binds = 0

Owner   == Bind \/ Wake \/ Join \/ Close
Rx      == RxLoop \/ RxReady \/ RxTimeout \/ RxError \/ RxRead \/ RxPush \/ RxSignal
Decoder == DecoderLoop \/ Look \/ Wait \/ DecodeData

Next == Connect \/ Release \/ Owner \/ Rx \/ Decoder \/ Emit \/ Unplug

\* Each thread goes on, and a wait ends after its second at the latest.
Spec == Init /\ [][Next]_vars /\ WF_vars(Owner) /\ WF_vars(Rx) /\ WF_vars(Decoder)

-----------------------------------------------------------------------------
(* Properties *)

Bound == owner \notin {"out", "opened"}

\* What was read and not yet decoded.
Held(thread, pc) == IF thread.pc = pc THEN thread.buf ELSE <<>>
Pending == Held(decoder, "decoding") \o FlattenSeq(queue) \o Held(rx, "pushing") \o wire

\* Since the channel was bound every byte the device sent has been decoded or is
\* on its way, in order, none twice, and none from before: neither what the
\* kernel held when the port was opened nor what was queued when it was closed.
InSequence == Bound => decoded \o Pending = [i \in 1 .. sent - from |-> from + i]

\* The port is open as long as a thread may read it.
PortHeld == rx.pc \notin {"off", "done"} => open

\* The decoder never sleeps out its second over a buffer that is queued, nor
\* over the end of its binding: the event is signalled whenever there is
\* something to do, however many signals ran into one.
PromptWake ==
  decoder.pc = "waiting" /\ (\/ queue # <<>> /\ rx.pc # "signalling"
                             \/ owner = "joining") => event

\* unbindAndClose comes back, in whatever state it finds the two threads.
Unbinds == owner = "waking" ~> owner = "out"

\* What reached the port is decoded, while the channel stays bound and the cable
\* plugged.
Reaches == Bound /\ Pending # <<>> ~> Pending = <<>> \/ ~ working \/ dead
=============================================================================
