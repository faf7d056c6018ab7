---------------------------- MODULE SerialFrames -----------------------------
(***************************************************************************)
(* The packets on the serial line between MecanumSerialPort and the wheel  *)
(* controller: AA 55 id 10, a body of four floats, a CRC16 - and how       *)
(* try_parse_one_frame_ finds one in the bytes it has collected.           *)
(*                                                                         *)
(* A byte is what it looks like and what it carries of the number in its   *)
(* body; a CRC, written as one byte, identifies what it is computed over.  *)
(***************************************************************************)
EXTENDS Integers, Sequences

CONSTANT BodyLooks   \* what the bytes of a body look like, in order

HeaderKinds == {"AA", "55", "cmd", "meas", "10"}

ASSUME FramesAssumption ==
  BodyLooks \in Seq(HeaderKinds \cup {"other"}) /\ BodyLooks # <<>>

HeaderLen == 4                          \* PKT_HDR_LEN
Total(body) == HeaderLen + Len(body) + 1   \* PKT_TOTAL, with LEN_BODY bytes in the body

Byte(kind, of) == [kind |-> kind, of |-> of]

CrcKind(id) == IF id = "cmd" THEN "crc of cmd" ELSE "crc of meas"

\* writeCmdPacket, and the wheel controller for a measurement: the packet
\* that carries the number n.
Packet(id, n) ==
  <<Byte("AA", <<>>), Byte("55", <<>>), Byte(id, <<>>), Byte("10", <<>>)>>
    \o [k \in 1 .. Len(BodyLooks) |-> Byte(BodyLooks[k], <<n>>)]
    \o <<Byte(CrcKind(id), <<n>>)>>

Bytes == [kind : HeaderKinds \cup {"other", "crc of cmd", "crc of meas"},
          of : Seq(Nat)]

\* A header with this id begins at position i.
HeaderAt(buf, i, id) ==
  /\ buf[i].kind = "AA"
  /\ buf[i + 1].kind = "55"
  /\ buf[i + 2].kind = id
  /\ buf[i + 3].kind = "10"

\* The bytes from i on are as many as a packet has.
Complete(buf, i) == i + Total(BodyLooks) - 1 <= Len(buf)

\* What the bytes of the body of the packet at i carry, and what they carry
\* in a packet with the number n.
Carried(buf, i) == [k \in 1 .. Len(BodyLooks) |-> buf[i + HeaderLen - 1 + k].of]
Numbered(n) == [k \in 1 .. Len(BodyLooks) |-> <<n>>]

\* Not the code: the CRC is not compared.
CrcIgnored(buf, i, id) == TRUE

\* The CRC at the end of the packet at i is the one of its bytes.
CrcOK(buf, i, id) ==
  LET crc == buf[i + Total(BodyLooks) - 1] IN
    /\ crc.kind = CrcKind(id)
    /\ SubSeq(buf, i, i + Total(BodyLooks) - 1) = Packet(id, crc.of[1])

Positions(buf) == 1 .. Len(buf) - HeaderLen + 1

-----------------------------------------------------------------------------
(* try_parse_one_frame_.  Its loop walks on over everything but a header   *)
(* whose packet is incomplete, where it waits for more, and a packet whose *)
(* CRC is right, which it takes.                                           *)

Stops(buf) ==
  {i \in Positions(buf) : /\ HeaderAt(buf, i, "meas")
                          /\ Complete(buf, i) => CrcOK(buf, i, "meas")}

FirstStop(buf) ==
  LET S == Stops(buf) IN CHOOSE i \in S : \A j \in S : i <= j

\* The packet the loop takes; none if it waits or runs off the end.
Got(buf) ==
  /\ Stops(buf) # {}
  /\ LET i == FirstStop(buf) IN Complete(buf, i) /\ CrcOK(buf, i, "meas")

\* The last n bytes, or all there are.
KeepLast(buf, n) ==
  IF Len(buf) > n THEN SubSeq(buf, Len(buf) - n + 1, Len(buf)) ELSE buf

\* Not the code: an incomplete packet is thrown away with the noise.
RemainderImpatient(buf) ==
  IF Got(buf)
    THEN SubSeq(buf, FirstStop(buf) + Total(BodyLooks), Len(buf))
    ELSE KeepLast(buf, HeaderLen - 1)

\* What stays in rxbuf_.
Remainder(buf) ==
  IF Got(buf)
    THEN SubSeq(buf, FirstStop(buf) + Total(BodyLooks), Len(buf))
  ELSE IF Stops(buf) # {}
    THEN buf
    ELSE KeepLast(buf, HeaderLen - 1)

\* A whole packet, as it was sent, begins at i.
Intact(buf, i, id) ==
  /\ i \in Positions(buf)
  /\ HeaderAt(buf, i, id)
  /\ Complete(buf, i)
  /\ CrcOK(buf, i, id)
=============================================================================
