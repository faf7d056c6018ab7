----------------------------- MODULE WheelStates -----------------------------
(***************************************************************************)
(* The measurement path: a wheel controller sends packets of wheel speeds, *)
(* the serial line loses and disturbs bytes, and MecanumHWSystem::read     *)
(* takes at most one packet per control cycle out of MecanumSerialPort's   *)
(* buffer.  A measurement carries its number.                              *)
(***************************************************************************)
EXTENDS SerialFrames, FiniteSets

CONSTANTS
  RxbufMax,     \* RXBUF_MAX (4096)
  LineCap,      \* bytes on the line and in the kernel's buffer
  MaxSent,      \* bound: measurements in a behaviour
  MaxFaults     \* bound: bytes lost or disturbed

ASSUME StatesAssumption ==
  /\ RxbufMax \in Nat \ {0}
  /\ LineCap \in Nat
  /\ MaxSent \in Nat
  /\ MaxFaults \in Nat

VARIABLES
  active,   \* the plugin is between on_activate and on_deactivate
  port,     \* serial_ && serial_->is_open()
  rxbuf,    \* rxbuf_
  speed,    \* hw_states_: the measurement last taken, 0 if none
  line,     \* bytes the host has not read, oldest first
  sent,     \* measurements sent
  faults    \* bytes lost or disturbed so far

vars == <<active, port, rxbuf, speed, line, sent, faults>>

Suffixes(s) == {SubSeq(s, k, Len(s)) : k \in 1 .. Len(s) + 1}

-----------------------------------------------------------------------------
(* The plugin.                                                             *)

\* open() may fail, and the plugin is active all the same; if it does not,
\* what the kernel holds is flushed and what is on the line still arrives.
Activate ==
  /\ ~active
  /\ active' = TRUE
  /\ speed' = Numbered(0)
  /\ rxbuf' = <<>>
  /\ \/ port' = TRUE /\ line' \in Suffixes(line)
     \/ port' = FALSE /\ UNCHANGED line
  /\ UNCHANGED <<sent, faults>>

Deactivate ==
  /\ active
  /\ active' = FALSE
  /\ port' = FALSE
  /\ rxbuf' = <<>>
  /\ UNCHANGED <<speed, line, sent, faults>>

\* fill_rx_nonblock_, when the first k bytes of the line are there
Filled(k) == KeepLast(rxbuf \o SubSeq(line, 1, k), RxbufMax)

\* readMeasPacket and the assignment to hw_states_
ReadPort(k) ==
  /\ active
  /\ port
  /\ LET buf == Filled(k) IN
       /\ rxbuf' = Remainder(buf)
       /\ speed' = IF Got(buf) THEN Carried(buf, FirstStop(buf)) ELSE speed
  /\ line' = SubSeq(line, k + 1, Len(line))
  /\ UNCHANGED <<active, port, sent, faults>>

Read == \E k \in 0 .. Len(line) : ReadPort(k)

-----------------------------------------------------------------------------
(* The wheel controller and the line.                                      *)

Send ==
  /\ sent < MaxSent
  /\ Len(line) + Total(BodyLooks) <= LineCap
  /\ sent' = sent + 1
  /\ line' = line \o Packet("meas", sent')
  /\ UNCHANGED <<active, port, rxbuf, speed, faults>>

\* A byte is lost or becomes the one the parser looks for.
Disturb ==
  /\ faults < MaxFaults
  /\ \E i \in 1 .. Len(line) :
       \/ line' = SubSeq(line, 1, i - 1) \o SubSeq(line, i + 1, Len(line))
       \/ line' = [line EXCEPT ![i] = Byte("AA", <<>>)]
  /\ faults' = faults + 1
  /\ UNCHANGED <<active, port, rxbuf, speed, sent>>

-----------------------------------------------------------------------------
Init ==
  /\ active = FALSE
  /\ port = FALSE
  /\ rxbuf = <<>>
  /\ speed = Numbered(0)
  /\ line = <<>>
  /\ sent = 0
  /\ faults = 0

Next == Activate \/ Deactivate \/ Read \/ Send \/ Disturb

Spec == Init /\ [][Next]_vars

-----------------------------------------------------------------------------
TypeOK ==
  /\ active \in BOOLEAN
  /\ port \in BOOLEAN
  /\ rxbuf \in Seq(Bytes)
  /\ Len(rxbuf) <= RxbufMax
  /\ speed \in {Numbered(n) : n \in 0 .. MaxSent}
  /\ line \in Seq(Bytes)
  /\ sent \in 0 .. MaxSent
  /\ faults \in 0 .. MaxFaults

\* Positions of the whole packets in buf.
Whole(buf) == {i \in Positions(buf) : Intact(buf, i, "meas")}

(***************************************************************************)
(* Wheel speeds are those the controller measured, each used once and in   *)
(* the order they were sent: bytes that are lost, disturbed, flushed or    *)
(* dropped from a full buffer never join two packets into one, and never   *)
(* make an older packet follow a newer one.                                *)
(***************************************************************************)
SpeedsInOrder ==
  [][speed' # speed =>
       \/ speed' = Numbered(0)
       \/ \E n \in 1 .. sent : /\ speed' = Numbered(n)
                              /\ \E m \in 0 .. n - 1 : speed = Numbered(m)
    ]_vars

\* This step is a cycle that takes k bytes off the line.
Reads(k) == k >= 0 /\ ReadPort(k)

(***************************************************************************)
(* A cycle in which a whole packet is in the buffer gets a new speed: no   *)
(* noise and no rest of a packet in front of it makes the parser wait; and *)
(* while the buffer has room no whole packet is dropped, every one is used *)
(* or still there after the cycle.                                         *)
(***************************************************************************)
ReadYields ==
  [][LET k == Len(line) - Len(line')
         used == IF speed' # speed THEN 1 ELSE 0
     IN  Reads(k) =>
           /\ Whole(Filled(k)) # {} => used = 1
           /\ Len(rxbuf) + k <= RxbufMax =>
                Cardinality(Whole(rxbuf \o line)) =
                  Cardinality(Whole(rxbuf' \o line')) + used]_vars
=============================================================================
