------------------------- MODULE OtaFirmwareProofs --------------------------
(***************************************************************************)
(* What is sent is one image that passed its check, and it goes between    *)
(* one node and its bootloader: for images, blocks and downloads of any    *)
(* number and size, and for any number of nodes, any ids, bases and        *)
(* limits, as long as no two numbers are as far apart as the two bases.    *)
(*                                                                         *)
(* Of the slicing, for every frame payload, counter width, block size and  *)
(* image size that the assumptions of OtaBlocks allow: the limits 1280 and *)
(* 65536 of runTransfer enter only as what the two counters can number.    *)
(***************************************************************************)
EXTENDS MCOtaFirmware, SequenceTheorems, WellFoundedInduction, TLAPS


-----------------------------------------------------------------------------
(* The block table: which blocks exist, and how they tile the image.       *)

(***************************************************************************)
(* A block has an index exactly when its first byte is in the image:       *)
(* rounding up makes one block too few, and one too many, impossible.      *)
(***************************************************************************)
LEMMA BlockExists ==
  ASSUME NEW s \in Nat \ {0}, NEW b \in Nat \ {0}, NEW i \in Nat
  PROVE  /\ BlockCount(s, b) \in Nat
         /\ i < BlockCount(s, b) <=> i * b < s
<1> DEFINE a == s + b - 1
           q == a \div b
<1>1. a \in Nat /\ q \in Nat
  OBVIOUS
<1>2. q * b <= a /\ a < q * b + b
  OBVIOUS
<1> HIDE DEF q
<1>3. ASSUME i < q PROVE i * b < s
  <2>1. (i + 1) * b <= q * b
    BY <1>1, <1>3
  <2>2. (i + 1) * b = i * b + b
    OBVIOUS
  <2>3. i * b \in Nat /\ q * b \in Nat
    BY <1>1
  <2> QED
    BY <2>1, <2>2, <2>3, <1>2
<1>4. ASSUME i * b < s, ~ i < q PROVE FALSE
  <2>1. q * b <= i * b
    BY <1>1, <1>4
  <2>2. i * b \in Nat /\ q * b \in Nat
    BY <1>1
  <2> QED
    BY <2>1, <2>2, <1>2, <1>4
<1> QED
  BY <1>1, <1>3, <1>4 DEF q, BlockCount

(***************************************************************************)
(* The length of a block that exists: positive, at most the block size,    *)
(* inside the image - and the full block size unless it is the last.       *)
(***************************************************************************)
LEMMA BlockLengthFacts ==
  ASSUME NEW s \in Nat \ {0}, NEW b \in Nat \ {0}, NEW i \in Nat, i * b < s
  PROVE  /\ i * b \in Nat
         /\ BlockLength(i, s, b) \in 1 .. b
         /\ i * b + BlockLength(i, s, b) <= s
         /\ (i + 1) * b < s => i * b + BlockLength(i, s, b) = (i + 1) * b
         /\ ~ (i + 1) * b < s => i * b + BlockLength(i, s, b) = s
<1>1. i * b \in Nat
  OBVIOUS
<1>2. (i + 1) * b = i * b + b
  OBVIOUS
<1> QED
  BY <1>1, <1>2 DEF BlockLength, BlockOffset, Least

-----------------------------------------------------------------------------
(***************************************************************************)
(* The inductive invariant.  Inside a block the sequence number still      *)
(* counts frames without having wrapped, and what has been sent is         *)
(* everything before the block and the block up to `offset'.               *)
(***************************************************************************)
InImage == index * blockSize < size

Addressable == BlockCount(size, blockSize) <= MaxBlockCount

SequenceCounts == offset < Length => sequence * FramePayload = offset

SentSoFar ==
  placed = IF done THEN size ELSE index * blockSize + Least(offset, Length)

SlicingInv ==
  /\ TypeOK
  /\ InImage
  /\ Addressable
  /\ SequenceCounts
  /\ SentSoFar
  /\ PlacedWhereRead

LEMMA InitInv == Init => SlicingInv
<1> SUFFICES ASSUME Init PROVE SlicingInv
  OBVIOUS
<1> USE SlicingAssumption, BlocksAssumption
<1>1. /\ blockSize \in 1 .. MaxBlockSize
      /\ BlockCount(size, blockSize) <= MaxBlockCount
      /\ size \in Nat \ {0}
  BY DEF Init, CapabilityVerdict, BlockSizeAllowed, BlockCountAllowed
<1>2. blockSize \in Nat \ {0}
  BY <1>1
<1>3. 0 * blockSize < size /\ 0 * blockSize = 0
  BY <1>1, <1>2
<1>4. BlockCount(size, blockSize) \in Nat /\ 0 < BlockCount(size, blockSize)
  BY <1>1, <1>2, <1>3, BlockExists, 0 \in Nat
<1>5. TypeOK
  <2>1. 0 \in 0 .. MaxBlockCount - 1 /\ 0 \in 0 .. SequenceSpace - 1
    BY <1>1, <1>4
  <2>2. NoFrame \in [at : Nat, length : 0 .. FramePayload, from : Nat]
    BY DEF NoFrame
  <2> QED
    BY <1>1, <2>1, <2>2 DEF Init, TypeOK
<1>6. InImage /\ Addressable /\ PlacedWhereRead
  BY <1>1, <1>3 DEF Init, InImage, Addressable, PlacedWhereRead, NoFrame
<1>7. Length \in Nat
  BY <1>1, <1>2, <1>3, BlockLengthFacts DEF Init, Length
<1>8. SequenceCounts /\ SentSoFar
  BY <1>3, <1>7 DEF Init, SequenceCounts, SentSoFar, Least
<1> QED
  BY <1>5, <1>6, <1>8 DEF SlicingInv

\* What the invariant says of the block at hand, in the form both steps use.
LEMMA InvFacts ==
  ASSUME SlicingInv
  PROVE  /\ size \in Nat \ {0} /\ blockSize \in Nat \ {0} /\ index \in Nat
         /\ index * blockSize \in Nat
         /\ index * blockSize < size
         /\ blockSize <= SequenceSpace * FramePayload
         /\ WireIndex(index) = index
         /\ Length \in 1 .. blockSize
         /\ index * blockSize + Length <= size
<1> USE SlicingAssumption, BlocksAssumption
<1>1. /\ size \in Nat \ {0} /\ blockSize \in Nat \ {0} /\ index \in Nat
      /\ blockSize <= MaxBlockSize
      /\ index < MaxBlockCount
  BY DEF SlicingInv, TypeOK
<1>2. SequenceSpace * FramePayload \in Nat
  OBVIOUS
<1>3. blockSize <= SequenceSpace * FramePayload
  BY <1>1, <1>2
<1>4. WireIndex(index) = index
  BY <1>1 DEF WireIndex
<1> QED
  BY <1>1, <1>3, <1>4, BlockLengthFacts DEF SlicingInv, InImage, Length

(***************************************************************************)
(* A DATA frame continues where the last one ended, and its two counters   *)
(* say where that is.                                                      *)
(***************************************************************************)
LEMMA SendDataStep ==
  ASSUME SlicingInv, SendData
  PROVE  /\ SlicingInv'
         /\ frame'.from = placed
         /\ placed' = placed + frame'.length
         /\ placed' <= size
<1> USE SlicingAssumption, BlocksAssumption
<1> DEFINE start == index * blockSize
           n == PayloadLength(offset, Length)
<1>1. /\ start \in Nat /\ size \in Nat /\ blockSize \in Nat /\ index \in Nat
      /\ blockSize <= SequenceSpace * FramePayload
      /\ WireIndex(index) = index
      /\ Length \in 1 .. blockSize
      /\ start + Length <= size
  BY InvFacts
<1>2. /\ size' = size /\ blockSize' = blockSize /\ index' = index
      /\ done' = done /\ ~done
      /\ Length' = Length
  BY DEF SendData, Length
<1>3. /\ offset \in Nat /\ sequence \in Nat /\ offset < Length
      /\ sequence * FramePayload = offset
      /\ placed = start + offset
  BY <1>1, <1>2 DEF SendData, SlicingInv, TypeOK, SequenceCounts, SentSoFar,
                    Least
<1>4. /\ frame' = [at     |-> start + offset,
                   length |-> n,
                   from   |-> start + offset]
      /\ placed' = placed + n
      /\ offset' = offset + FramePayload
      /\ sequence' = (sequence + 1) % SequenceSpace
  BY <1>1, <1>3 DEF SendData, BlockOffset, WireSequence
<1>5. n \in 0 .. FramePayload /\ n = Least(offset + FramePayload, Length) - offset
  BY <1>1, <1>3 DEF PayloadLength, Least
<1> HIDE DEF start, n
<1>6. placed' = start + Least(offset', Length) /\ placed' <= size
  BY <1>1, <1>3, <1>4, <1>5 DEF Least
<1>7. TypeOK'
  <2>1. (sequence + 1) % SequenceSpace \in 0 .. SequenceSpace - 1
    BY <1>3
  <2>2. frame' \in [at : Nat, length : 0 .. FramePayload, from : Nat]
    BY <1>1, <1>3, <1>4, <1>5
  <2>3. placed' \in Nat /\ offset' \in Nat
    BY <1>1, <1>3, <1>4, <1>5
  <2> QED
    BY <1>2, <1>4, <2>1, <2>2, <2>3 DEF SlicingInv, TypeOK
<1>8. SequenceCounts'
  <2> SUFFICES ASSUME offset' < Length PROVE sequence' * FramePayload = offset'
    BY <1>2 DEF SequenceCounts
  <2>1. (sequence + 1) * FramePayload = offset'
    BY <1>3, <1>4
  <2>2. sequence + 1 < SequenceSpace
    <3>1. (sequence + 1) * FramePayload < SequenceSpace * FramePayload
      <4>1. SequenceSpace * FramePayload \in Nat
        OBVIOUS
      <4> QED
        BY <2>1, <4>1, <1>1, <1>3, <1>4
    <3>2. ASSUME ~ sequence + 1 < SequenceSpace PROVE FALSE
      <4>1. SequenceSpace * FramePayload <= (sequence + 1) * FramePayload
        BY <3>2, <1>3
      <4>2. /\ SequenceSpace * FramePayload \in Nat
            /\ (sequence + 1) * FramePayload \in Nat
        BY <1>3
      <4> QED
        BY <3>1, <4>1, <4>2
    <3> QED
      BY <3>2
  <2>3. sequence' = sequence + 1
    BY <2>2, <1>3, <1>4
  <2> QED
    BY <2>1, <2>3
<1>9. InImage' /\ Addressable' /\ SentSoFar' /\ PlacedWhereRead'
  <2>1. InImage' /\ Addressable'
    BY <1>2 DEF SlicingInv, InImage, Addressable
  <2>2. SentSoFar'
    BY <1>2, <1>6 DEF SentSoFar, start
  <2>3. PlacedWhereRead'
    BY <1>4 DEF PlacedWhereRead
  <2> QED
    BY <2>1, <2>2, <2>3
<1> QED
  BY <1>3, <1>4, <1>6, <1>7, <1>8, <1>9 DEF SlicingInv

(***************************************************************************)
(* The next block starts where this one ended; when there is none, this    *)
(* one ended where the image does.                                         *)
(***************************************************************************)
LEMMA NextBlockStep ==
  ASSUME SlicingInv, NextBlock
  PROVE  SlicingInv' /\ placed' = placed
<1> USE SlicingAssumption, BlocksAssumption
<1>1. /\ size \in Nat \ {0} /\ blockSize \in Nat \ {0} /\ index \in Nat
      /\ index * blockSize \in Nat
      /\ index * blockSize < size
      /\ Length \in 1 .. blockSize
  BY InvFacts
<1>2. /\ size' = size /\ blockSize' = blockSize /\ placed' = placed
      /\ frame' = frame
      /\ ~done /\ offset \in Nat /\ offset >= Length
      /\ placed = index * blockSize + Length
  BY <1>1 DEF NextBlock, SlicingInv, TypeOK, SentSoFar, Least
<1>3. index + 1 < BlockCount(size, blockSize) <=> (index + 1) * blockSize < size
  BY <1>1, BlockExists, index + 1 \in Nat
<1>4. Addressable' /\ PlacedWhereRead'
  BY <1>2 DEF SlicingInv, Addressable, PlacedWhereRead
<1>5. CASE index + 1 < BlockCount(size, blockSize)
  <2>1. /\ index' = index + 1 /\ offset' = 0 /\ sequence' = 0
        /\ done' = FALSE
    BY <1>5 DEF NextBlock
  <2>2. index' * blockSize < size /\ index' * blockSize \in Nat
    BY <1>1, <1>3, <1>5, <2>1
  <2>3. placed = index' * blockSize
    BY <1>1, <1>2, <1>3, <1>5, <2>1, BlockLengthFacts DEF Length
  <2>4. Length' \in Nat
    BY <1>1, <1>2, <2>1, <2>2, BlockLengthFacts DEF Length
  <2>5. TypeOK'
    <3>1. index + 1 \in 0 .. MaxBlockCount - 1
      <4>1. BlockCount(size, blockSize) \in Nat
        BY <1>1, BlockExists
      <4> QED
        BY <4>1, <1>1, <1>5 DEF SlicingInv, Addressable
    <3>2. 0 \in 0 .. SequenceSpace - 1
      OBVIOUS
    <3>3. frame' \in [at : Nat, length : 0 .. FramePayload, from : Nat]
      BY <1>2 DEF SlicingInv, TypeOK
    <3> QED
      BY <1>2, <2>1, <3>1, <3>2, <3>3 DEF SlicingInv, TypeOK
  <2>6. InImage' /\ SequenceCounts' /\ SentSoFar'
    <3>1. InImage'
      BY <1>2, <2>2 DEF InImage
    <3>2. SequenceCounts'
      BY <2>1 DEF SequenceCounts
    <3>3. SentSoFar'
      BY <1>2, <2>1, <2>2, <2>3, <2>4 DEF SentSoFar, Least
    <3> QED
      BY <3>1, <3>2, <3>3
  <2> QED
    BY <1>2, <1>4, <2>5, <2>6 DEF SlicingInv
<1>6. CASE ~ index + 1 < BlockCount(size, blockSize)
  <2>1. done' = TRUE /\ UNCHANGED <<index, offset, sequence>>
    BY <1>6 DEF NextBlock
  <2>2. placed = size
    BY <1>1, <1>2, <1>3, <1>6, BlockLengthFacts DEF Length
  <2>3. Length' = Length
    BY <1>2, <2>1 DEF Length
  <2>4. TypeOK' /\ InImage' /\ SequenceCounts'
    BY <1>2, <2>1, <2>3 DEF SlicingInv, TypeOK, InImage, SequenceCounts
  <2>5. SentSoFar'
    BY <1>2, <2>1, <2>2 DEF SentSoFar
  <2> QED
    BY <1>2, <1>4, <2>4, <2>5 DEF SlicingInv
<1> QED
  BY <1>5, <1>6

LEMMA StutterStep ==
  ASSUME SlicingInv, UNCHANGED vars
  PROVE  SlicingInv' /\ placed' = placed
BY DEF vars, SlicingInv, TypeOK, InImage, Addressable, SequenceCounts,
       SentSoFar, PlacedWhereRead, Length

LEMMA InvInvariant == Spec => []SlicingInv
<1>1. SlicingInv /\ [Next]_vars => SlicingInv'
  BY SendDataStep, NextBlockStep, StutterStep DEF Next
<1> QED
  BY InitInv, <1>1, PTL DEF Spec

-----------------------------------------------------------------------------
(* The theorems.                                                           *)

(***************************************************************************)
(* The block index stays below 65536, and the sequence number a uint8, for *)
(* every image and block size runTransfer lets through.                    *)
(***************************************************************************)
THEOREM TypeCorrect == Spec => []TypeOK
<1>1. SlicingInv => TypeOK
  BY DEF SlicingInv
<1> QED
  BY InvInvariant, <1>1, PTL

(***************************************************************************)
(* A receiver that sees only the wire counters puts every payload where    *)
(* readBlock and sendBlock took it from.                                   *)
(***************************************************************************)
THEOREM PayloadsPlaced == Spec => []PlacedWhereRead
<1>1. SlicingInv => PlacedWhereRead
  BY DEF SlicingInv
<1> QED
  BY InvInvariant, <1>1, PTL

(***************************************************************************)
(* When the block loop ends the whole image has been sent.                 *)
(***************************************************************************)
THEOREM ImageSent == Spec => []WholeImageSent
<1>1. SlicingInv => WholeImageSent
  BY DEF SlicingInv, SentSoFar, WholeImageSent
<1> QED
  BY InvInvariant, <1>1, PTL

(***************************************************************************)
(* Frames leave in image order, without gap, overlap or overrun.           *)
(***************************************************************************)
THEOREM SentContiguously == Spec => Contiguous
<1> DEFINE A == placed' # placed =>
                  /\ frame'.from = placed
                  /\ placed' = placed + frame'.length
                  /\ placed' <= size
<1>1. SlicingInv /\ [Next]_vars => [A]_vars
  BY SendDataStep, NextBlockStep DEF Next
<1> QED
  BY InvInvariant, <1>1, PTL DEF Spec, Contiguous

-----------------------------------------------------------------------------
(***************************************************************************)
(* The bus.                                                                *)
(***************************************************************************)

Frames ==
  [id : Int, extended : BOOLEAN, marker : BOOLEAN, from : Hosts \cup {Stray},
   nr : Nat]

(***************************************************************************)
(* What is in the sockets, heard and obeyed is of its type.                *)
(***************************************************************************)
BusTypeOK ==
  /\ nodeId \in [Hosts -> NodeIds]
  /\ extended \in [Hosts -> BOOLEAN]
  /\ buffer \in [Hosts -> Seq(Frames)]
  /\ heard \in [Hosts -> Seq(Frames)]
  /\ orders \in [Hosts -> Seq(Nat)]
  /\ sent \in Nat
  /\ obeyed \in [Hosts -> SUBSET (Hosts \cup {Stray})]

Numbered == \A g, h \in Hosts : nodeId[g] = nodeId[h] => g = h

\* A frame with a reply's marker and a host's response id is of its bootloader.
Fits(f) ==
  \A h \in Hosts :
    f.marker /\ f.id = ResponseId(nodeId[h]) /\ f.extended = extended[h]
      => f.from = h

AllFit == \A h \in Hosts : \A i \in 1 .. Len(buffer[h]) : Fits(buffer[h][i])

\* NoCrossTalk is not inductive: what has been heard was in the socket.
BusInv ==
  /\ BusTypeOK
  /\ Numbered
  /\ AllFit
  /\ NoCrossTalk

-----------------------------------------------------------------------------
(***************************************************************************)
(* Two nodes with the same request id, or the same response id, have the   *)
(* same number.                                                            *)
(***************************************************************************)
LEMMA IdsTellApart ==
  \A m, n \in NodeIds :
    /\ RequestId(m) = RequestId(n) => m = n
    /\ ResponseId(m) = ResponseId(n) => m = n
    /\ RequestId(m) \in Int /\ ResponseId(m) \in Int
  BY BusAssumption DEF RequestId, ResponseId

(***************************************************************************)
(* A frame of the tail has the next place in the whole.                    *)
(***************************************************************************)
LEMMA TailShifts ==
  ASSUME NEW S, NEW s \in Seq(S), s # <<>>, NEW i \in 1 .. Len(Tail(s))
  PROVE  i + 1 \in 1 .. Len(s) /\ Tail(s)[i] = s[i + 1]
<1>1. Len(Tail(s)) = Len(s) - 1 /\ Len(s) \in Nat
  OBVIOUS
<1> QED
  BY <1>1

(***************************************************************************)
(* A broadcast of a frame that fits keeps the sockets typed and fitting.   *)
(***************************************************************************)
LEMMA BroadcastFits ==
  ASSUME BusInv, UNCHANGED <<nodeId, extended>>,
         NEW STATE f, f \in Frames, NEW sender, Fits(f), Broadcast(f, sender)
  PROVE  buffer' \in [Hosts -> Seq(Frames)] /\ AllFit'
<1>1. buffer' \in [Hosts -> Seq(Frames)]
  BY DEF Broadcast, BusInv, BusTypeOK
<1>2. ASSUME NEW h \in Hosts, NEW i \in 1 .. Len(buffer'[h])
      PROVE  Fits(buffer'[h][i])
  <2>1. buffer[h] \in Seq(Frames)
    BY DEF BusInv, BusTypeOK
  <2>2. buffer'[h] = buffer[h] \/ buffer'[h] = Append(buffer[h], f)
    BY DEF Broadcast
  <2>3. (i \in 1 .. Len(buffer[h]) /\ buffer'[h][i] = buffer[h][i])
          \/ buffer'[h][i] = f
    BY <2>1, <2>2
  <2> QED
    BY <2>3 DEF BusInv, AllFit
<1> QED
  BY <1>1, <1>2 DEF AllFit, Fits

(***************************************************************************)
(* A node's command reaches its own bootloader only, and a bootloader's    *)
(* answer reaches none: a response id is not a request id.                 *)
(***************************************************************************)
LEMMA CommandsStayOwn ==
  ASSUME BusInv, NEW h \in Hosts, NEW b \in Hosts, Takes(b, Command(h))
  PROVE  b = h
  BY IdsTellApart DEF Takes, Command, Frame, BusInv, BusTypeOK, Numbered

LEMMA AnswersAreNoCommands ==
  ASSUME BusInv, NEW h \in Hosts, NEW b \in Hosts
  PROVE  ~Takes(b, Reply(h))
  BY BasesFarApart DEF Takes, Reply, Frame, BusInv, BusTypeOK

-----------------------------------------------------------------------------
LEMMA BusInvInit == BusInit => BusInv
  BY DEF BusInit, BusInv, BusTypeOK, Numbered, NoCrossTalk, Fits, AllFit

(***************************************************************************)
(* Whatever is left alone stays as it was.                                 *)
(***************************************************************************)
LEMMA SocketsEmptied ==
  ASSUME BusInv, NEW h \in Hosts,
         \/ Closed(h)
         \/ UNCHANGED <<buffer, heard>>,
         UNCHANGED <<nodeId, extended, orders, sent, obeyed>>
  PROVE  BusInv'
<1>1. /\ buffer' \in [Hosts -> Seq(Frames)]
      /\ heard' \in [Hosts -> Seq(Frames)]
  <2>1. /\ buffer \in [Hosts -> Seq(Frames)]
        /\ heard \in [Hosts -> Seq(Frames)]
        /\ <<>> \in Seq(Frames)
    BY DEF BusInv, BusTypeOK
  <2>2. CASE Closed(h)
    BY <2>1, <2>2 DEF Closed
  <2>3. CASE UNCHANGED <<buffer, heard>>
    BY <2>1, <2>3
  <2> QED
    BY <2>2, <2>3
<1>2. \A g \in Hosts : /\ buffer'[g] = buffer[g] \/ buffer'[g] = <<>>
                       /\ heard'[g] = heard[g] \/ heard'[g] = <<>>
  BY DEF Closed, BusInv, BusTypeOK
<1>3. AllFit'
  <2> SUFFICES ASSUME NEW g \in Hosts, NEW i \in 1 .. Len(buffer'[g])
               PROVE  Fits(buffer'[g][i])
    BY DEF AllFit, Fits
  <2>1. buffer'[g] = buffer[g]
    BY <1>2
  <2> QED
    BY <2>1 DEF AllFit, BusInv
<1>4. NoCrossTalk'
  BY <1>2 DEF NoCrossTalk, BusInv
<1> QED
  BY <1>1, <1>3, <1>4 DEF BusInv, BusTypeOK, Numbered

LEMMA BusInvNext == BusInv /\ [BusNext]_busVars => BusInv'
<1> SUFFICES ASSUME BusInv, [BusNext]_busVars PROVE BusInv'
  OBVIOUS
<1>1. ASSUME NEW h \in Hosts, Construct(h) PROVE BusInv'
  BY <1>1, SocketsEmptied DEF Construct
<1>2. ASSUME NEW h \in Hosts, Open(h) PROVE BusInv'
  BY <1>2, SocketsEmptied DEF Open
<1>3. ASSUME NEW h \in Hosts, Close(h) PROVE BusInv'
  BY <1>3, SocketsEmptied DEF Close
<1>4. ASSUME NEW h \in Hosts, Send(h) PROVE BusInv'
  <2>1. Command(h) \in Frames /\ Fits(Command(h))
    BY IdsTellApart DEF Command, Frame, Frames, Fits, BusInv, BusTypeOK
  <2>2. UNCHANGED <<nodeId, extended, heard>> /\ sent' = sent + 1
    BY <1>4 DEF Send
  <2>3. /\ buffer' \in [Hosts -> Seq(Frames)]
        /\ AllFit'
    BY <1>4, <2>1, <2>2, BroadcastFits DEF Send
  <2>4. \A b \in Hosts : obeyed'[b] = obeyed[b]
                          \/ (b = h /\ obeyed'[b] = obeyed[b] \cup {h})
    BY <1>4, CommandsStayOwn DEF Send, Obey, Command, Frame
  <2>5. obeyed' \in [Hosts -> SUBSET (Hosts \cup {Stray})]
    BY <1>4, <2>4 DEF Send, Obey, BusInv, BusTypeOK
  <2>6. orders' \in [Hosts -> Seq(Nat)]
    BY <1>4 DEF Send, BusInv, BusTypeOK
  <2>7. NoCrossTalk'
    BY <2>2, <2>4 DEF NoCrossTalk, BusInv
  <2> QED
    BY <2>2, <2>3, <2>5, <2>6, <2>7 DEF BusInv, BusTypeOK, Numbered
<1>5. ASSUME NEW h \in Hosts, Wait(h) PROVE BusInv'
  BY <1>5, SocketsEmptied DEF Wait
<1>6. ASSUME NEW h \in Hosts, Receive(h) PROVE BusInv'
  <2> DEFINE f == Head(buffer[h])
  <2>1. /\ UNCHANGED <<nodeId, extended, orders, sent, obeyed>>
        /\ buffer[h] # <<>>
        /\ buffer' = [buffer EXCEPT ![h] = Tail(@)]
        /\ heard' = [heard EXCEPT
             ![h] = IF ValidReply(h, f) THEN Append(@, f) ELSE @]
    BY <1>6 DEF Receive
  <2>2. buffer[h] \in Seq(Frames) /\ heard[h] \in Seq(Frames)
    BY DEF BusInv, BusTypeOK
  <2>3. f \in Frames /\ Fits(f) /\ Tail(buffer[h]) \in Seq(Frames)
    <3>1. f = buffer[h][1] /\ 1 \in 1 .. Len(buffer[h])
      BY <2>1, <2>2
    <3> QED
      BY <2>1, <2>2, <3>1 DEF AllFit, BusInv
  <2>4. /\ buffer' \in [Hosts -> Seq(Frames)]
        /\ heard' \in [Hosts -> Seq(Frames)]
    BY <2>1, <2>2, <2>3 DEF BusInv, BusTypeOK
  <2>5. ASSUME NEW g \in Hosts, NEW i \in 1 .. Len(buffer'[g])
        PROVE  Fits(buffer'[g][i])
    <3>1. CASE g = h
      <4>1. buffer'[g] = Tail(buffer[h])
        BY <2>1, <3>1 DEF BusInv, BusTypeOK
      <4>2. buffer[h] # <<>>
        BY <2>1
      <4>3. i + 1 \in 1 .. Len(buffer[h]) /\ buffer'[g][i] = buffer[h][i + 1]
        BY <2>2, <4>1, <4>2, TailShifts
      <4> QED
        BY <4>3 DEF AllFit, BusInv
    <3>2. CASE g # h
      BY <2>1, <3>2 DEF AllFit, BusInv, BusTypeOK
    <3> QED
      BY <3>1, <3>2
  <2>6. AllFit'
    <3>1. nodeId' = nodeId /\ extended' = extended
      BY <2>1
    <3> QED
      BY <2>5, <3>1 DEF AllFit, Fits
  <2>7. ASSUME NEW g \in Hosts, NEW i \in 1 .. Len(heard'[g])
        PROVE  heard'[g][i].from = g
    <3>1. CASE g = h /\ ValidReply(h, f)
      <4>1. f.from = h
        BY <2>3, <3>1 DEF Fits, ValidReply
      <4>2. heard'[g] = Append(heard[h], f)
        BY <2>1, <3>1 DEF BusInv, BusTypeOK
      <4>3. (i \in 1 .. Len(heard[h]) /\ heard'[g][i] = heard[h][i])
              \/ heard'[g][i] = f
        BY <2>2, <4>2
      <4> QED
        BY <3>1, <4>1, <4>3 DEF BusInv, NoCrossTalk
    <3>2. CASE ~(g = h /\ ValidReply(h, f))
      <4>1. heard'[g] = heard[g]
        BY <2>1, <3>2 DEF BusInv, BusTypeOK
      <4> QED
        BY <4>1 DEF BusInv, NoCrossTalk
    <3> QED
      BY <3>1, <3>2
  <2>8. NoCrossTalk'
    BY <2>1, <2>7 DEF NoCrossTalk, BusInv
  <2> QED
    BY <2>1, <2>4, <2>6, <2>8 DEF BusInv, BusTypeOK, Numbered
<1>7. ASSUME NEW h \in Hosts, GiveUp(h) PROVE BusInv'
  BY <1>7, SocketsEmptied DEF GiveUp
<1>8. ASSUME NEW h \in Hosts, Answer(h) PROVE BusInv'
  <2>1. orders[h] \in Seq(Nat) /\ orders[h] # <<>>
    BY <1>8 DEF Answer, BusInv, BusTypeOK
  <2>2. Head(orders[h]) \in Nat /\ Tail(orders[h]) \in Seq(Nat)
    BY <2>1
  <2>3. Reply(h) \in Frames
    BY <2>2, IdsTellApart DEF Reply, Frame, Frames, BusInv, BusTypeOK
  <2>4. Fits(Reply(h))
    BY IdsTellApart DEF Reply, Frame, Fits, BusInv, BusTypeOK, Numbered
  <2>5. UNCHANGED <<nodeId, extended, heard, sent>>
    BY <1>8 DEF Answer
  <2>6. /\ buffer' \in [Hosts -> Seq(Frames)]
        /\ AllFit'
    BY <1>8, <2>3, <2>4, <2>5, BroadcastFits DEF Answer
  <2>7. obeyed' = obeyed
    BY <1>8, AnswersAreNoCommands DEF Answer, Obey, BusInv, BusTypeOK
  <2>8. orders' \in [Hosts -> Seq(Nat)]
    BY <1>8, <2>2 DEF Answer, BusInv, BusTypeOK
  <2>9. NoCrossTalk'
    BY <2>5, <2>7 DEF NoCrossTalk, BusInv
  <2> QED
    BY <2>5, <2>6, <2>7, <2>8, <2>9 DEF BusInv, BusTypeOK, Numbered
<1>9. ASSUME NEW h \in Hosts, Ignore(h) PROVE BusInv'
  <2>1. orders' \in [Hosts -> Seq(Nat)]
    BY <1>9 DEF Ignore, BusInv, BusTypeOK
  <2> QED
    BY <1>9, <2>1 DEF Ignore, BusInv, BusTypeOK, Numbered, NoCrossTalk, Fits, AllFit
<1>10. ASSUME NEW id \in {ResponseId(n) : n \in NodeIds}, NEW ext \in BOOLEAN,
              NEW marker \in BOOLEAN, StrayFrame(id, ext, marker)
       PROVE  BusInv'
  <2> DEFINE f == Frame(id, ext, marker, Stray, 0)
  <2>1. f \in Frames
    BY IdsTellApart DEF Frame, Frames
  <2>2. Fits(f)
    BY <1>10 DEF StrayFrame, Owned, Frame, Fits
  <2>3. UNCHANGED <<nodeId, extended, heard, sent, orders, obeyed>>
    BY <1>10 DEF StrayFrame
  <2>4. Broadcast(f, Stray)
    BY <1>10 DEF StrayFrame
  <2>5. /\ buffer' \in [Hosts -> Seq(Frames)]
        /\ AllFit'
    BY <2>1, <2>2, <2>3, <2>4, BroadcastFits
  <2>6. NoCrossTalk'
    BY <2>3 DEF NoCrossTalk, BusInv
  <2> QED
    BY <2>3, <2>5, <2>6 DEF BusInv, BusTypeOK, Numbered
<1>11. CASE UNCHANGED busVars
  BY <1>11 DEF busVars, BusInv, BusTypeOK, Numbered, NoCrossTalk, Fits, AllFit
<1> QED
  BY <1>1, <1>2, <1>3, <1>4, <1>5, <1>6, <1>7, <1>8, <1>9, <1>10, <1>11
  DEF BusNext, HostStep

(***************************************************************************)
(* Every reply a node takes is its own bootloader's, and what reaches a    *)
(* bootloader on its request id is its own node's (loadClientOptions,      *)
(* receiveById, parseReply), for any nodes and numbers of which no two are *)
(* as far apart as the bases.                                              *)
(***************************************************************************)
THEOREM CrossTalkNever == BusSpec => []NoCrossTalk
<1>1. BusInv => NoCrossTalk
  BY DEF BusInv
<1> QED
  BY <1>1, BusInvInit, BusInvNext, PTL DEF BusSpec

-----------------------------------------------------------------------------
(* The frames of one sender, among others.                                 *)

(***************************************************************************)
(* A set of naturals that is not empty has a least one.                    *)
(***************************************************************************)
LEMMA LeastNatural ==
  ASSUME NEW T \in SUBSET Nat, T # {}
  PROVE  \E n \in T : \A y \in T : n <= y
<1> DEFINE Less == {p \in Nat \X Nat : p[1] < p[2]}
<1>1. OpToRel(<, Nat) = Less
  BY DEF OpToRel
<1>2. IsWellFoundedOn(Less, Nat)
  BY <1>1, NatLessThanWellFounded
<1>3. \E n \in T : \A y \in T : ~ (<<y, n>> \in Less)
  <2> HIDE DEF Less
  <2> QED
    BY <1>2, WFMin
<1>4. PICK n \in T : \A y \in T : ~ (<<y, n>> \in Less)
  BY <1>3
<1>5. ASSUME NEW y \in T PROVE n <= y
  <2>1. y \in Nat /\ n \in Nat
    OBVIOUS
  <2>2. ~ y < n
    BY <1>4, <2>1
  <2> QED
    BY <2>1, <2>2
<1> QED
  BY <1>5

\* What holds of 0, and of i + 1 if of i, holds up to n.
LEMMA UpTo ==
  ASSUME NEW n \in Nat, NEW P, 0 \in P,
         \A i \in 0 .. n - 1 : i \in P => i + 1 \in P
  PROVE  \A i \in 0 .. n : i \in P
<1> DEFINE T == {i \in Nat : i <= n /\ i \notin P}
<1> SUFFICES ASSUME T # {} PROVE FALSE
  OBVIOUS
<1>1. PICK i \in T : \A y \in T : i <= y
  <2> HIDE DEF T
  <2>1. T \in SUBSET Nat
    BY DEF T
  <2> QED
    BY <2>1, LeastNatural
<1>2. i \in Nat /\ i <= n /\ i # 0 /\ i - 1 \notin T
  BY <1>1
<1>3. i - 1 \in 0 .. n - 1 /\ i - 1 \in P /\ (i - 1) + 1 = i
  BY <1>2
<1> QED
  BY <1>1, <1>3

\* g is the recursion of Own, over the first n of s.
Owns(g, s, h, n) ==
  g = [i \in 0 .. n |->
         IF i = 0 THEN <<>>
         ELSE IF s[i].from = h THEN Append(g[i - 1], s[i]) ELSE g[i - 1]]

LEMMA OwnsAt ==
  ASSUME NEW g, NEW s, NEW h, NEW n, Owns(g, s, h, n), NEW i \in 0 .. n
  PROVE  g[i] = IF i = 0 THEN <<>>
                ELSE IF s[i].from = h THEN Append(g[i - 1], s[i]) ELSE g[i - 1]
<1> DEFINE R(j) == IF j = 0 THEN <<>>
                   ELSE IF s[j].from = h THEN Append(g[j - 1], s[j]) ELSE g[j - 1]
<1>1. g = [j \in 0 .. n |-> R(j)]
  BY DEF Owns
<1> HIDE DEF R
<1>2. g[i] = R(i)
  BY <1>1
<1> QED
  BY <1>2 DEF R

LEMMA OwnsExist ==
  ASSUME NEW s, NEW h, NEW n \in Nat
  PROVE  \E g : Owns(g, s, h, n)
<1> DEFINE P == {m \in Nat : \E g : Owns(g, s, h, m)}
<1>1. 0 \in P
  <2> DEFINE g == [i \in 0 .. 0 |-> <<>>]
  <2>1. Owns(g, s, h, 0)
    BY DEF Owns
  <2> QED
    BY <2>1
<1>2. ASSUME NEW m \in 0 .. n - 1, m \in P PROVE m + 1 \in P
  <2>1. PICK g : Owns(g, s, h, m)
    BY <1>2
  <2> DEFINE k == [i \in 0 .. m + 1 |->
                     IF i = 0 THEN <<>>
                     ELSE IF s[i].from = h THEN Append(g[i - 1], s[i]) ELSE g[i - 1]]
  <2>2. \A i \in 0 .. m : k[i] = g[i]
    <3>1. \A i \in 0 .. m :
            g[i] = IF i = 0 THEN <<>>
                   ELSE IF s[i].from = h THEN Append(g[i - 1], s[i]) ELSE g[i - 1]
      <4> HIDE DEF k
      <4> QED
        BY <2>1, OwnsAt DEF Owns
    <3>2. \A i \in 0 .. m : i \in 0 .. m + 1
      OBVIOUS
    <3> QED
      BY <3>1, <3>2
  <2>3. \A i \in 0 .. m + 1 : i # 0 => k[i - 1] = g[i - 1]
    <3>1. \A i \in 0 .. m + 1 : i # 0 => i - 1 \in 0 .. m
      OBVIOUS
    <3> HIDE DEF k
    <3> QED
      BY <2>2, <3>1
  <2>4. Owns(k, s, h, m + 1)
    BY <2>3 DEF Owns
  <2>5. m + 1 \in Nat
    OBVIOUS
  <2> QED
    BY <2>4, <2>5
<1> HIDE DEF P
<1>3. \A i \in 0 .. n : i \in P
  BY <1>1, <1>2, UpTo
<1> QED
  BY <1>3 DEF P

Counts(g, s, h, n) ==
  /\ g[0] = <<>>
  /\ \A i \in 1 .. n :
       g[i] = IF s[i].from = h THEN Append(g[i - 1], s[i]) ELSE g[i - 1]

LEMMA OwnIs ==
  ASSUME NEW S, NEW s \in Seq(S), NEW h
  PROVE  \E g : Own(s, h) = g[Len(s)] /\ Counts(g, s, h, Len(s))
<1> DEFINE g == CHOOSE f : Owns(f, s, h, Len(s))
<1>1. Len(s) \in Nat
  OBVIOUS
<1>2. Owns(g, s, h, Len(s))
  BY <1>1, OwnsExist
<1>3. Own(s, h) = g[Len(s)]
  BY DEF Own, Owns
<1> HIDE DEF g
<1>4. Counts(g, s, h, Len(s))
  <2>1. 0 \in 0 .. Len(s) /\ \A i \in 1 .. Len(s) : i \in 0 .. Len(s) /\ i # 0
    BY <1>1
  <2> QED
    BY <1>2, <2>1, OwnsAt DEF Counts
<1> QED
  BY <1>2, <1>3, <1>4

\* None of none, and the frame that comes last is last.
LEMMA OwnOfNone == ASSUME NEW h PROVE Own(<<>>, h) = <<>>
<1> DEFINE s == <<>>
<1>1. s \in Seq(Nat) /\ Len(s) = 0
  OBVIOUS
<1> HIDE DEF s
<1>2. PICK g : Own(s, h) = g[Len(s)] /\ Counts(g, s, h, Len(s))
  BY <1>1, OwnIs
<1> QED
  BY <1>1, <1>2 DEF s, Counts

LEMMA OwnAppended ==
  ASSUME NEW S, NEW s \in Seq(S), NEW f \in S, NEW h
  PROVE  Own(Append(s, f), h) =
           IF f.from = h THEN Append(Own(s, h), f) ELSE Own(s, h)
<1> DEFINE n == Len(s)
           t == Append(s, f)
<1>1. /\ n \in Nat /\ t \in Seq(S) /\ Len(t) = n + 1 /\ t[n + 1] = f
      /\ \A i \in 1 .. n : t[i] = s[i]
  OBVIOUS
<1>2. PICK g : Own(s, h) = g[n] /\ Counts(g, s, h, n)
  BY OwnIs
<1> HIDE DEF n, t
<1>3. PICK k : Own(t, h) = k[n + 1] /\ Counts(k, t, h, n + 1)
  <2>1. t \in Seq(S) /\ Len(t) = n + 1
    BY <1>1
  <2> QED
    BY <2>1, OwnIs
<1> DEFINE P == {i \in Nat : g[i] = k[i]}
<1>4. 0 \in P
  BY <1>2, <1>3 DEF Counts
<1>5. ASSUME NEW i \in 0 .. n - 1, i \in P PROVE i + 1 \in P
  <2>1. i + 1 \in 1 .. n /\ i + 1 \in 1 .. n + 1 /\ (i + 1) - 1 = i /\ i + 1 \in Nat
    BY <1>1
  <2>2. g[i + 1] = IF s[i + 1].from = h THEN Append(g[i], s[i + 1]) ELSE g[i]
    BY <1>2, <2>1 DEF Counts
  <2>3. k[i + 1] = IF t[i + 1].from = h THEN Append(k[i], t[i + 1]) ELSE k[i]
    BY <1>3, <2>1 DEF Counts
  <2> QED
    BY <1>1, <1>5, <2>1, <2>2, <2>3
<1>6. g[n] = k[n]
  <2> HIDE DEF P
  <2>1. \A i \in 0 .. n : i \in P
    BY <1>1, <1>4, <1>5, UpTo
  <2> QED
    BY <1>1, <2>1 DEF P
<1>7. n + 1 \in 1 .. n + 1 /\ (n + 1) - 1 = n
  BY <1>1
<1> QED
  BY <1>1, <1>2, <1>3, <1>6, <1>7 DEF t, Counts

\* What comes first is first.
LEMMA OwnOfTail ==
  ASSUME NEW S, NEW s \in Seq(S), s # <<>>, NEW h
  PROVE  /\ Own(Tail(s), h) \in Seq(S)
         /\ Own(s, h) = IF Head(s).from = h THEN <<Head(s)>> \o Own(Tail(s), h)
                        ELSE Own(Tail(s), h)
<1> DEFINE n == Len(Tail(s))
           t == Tail(s)
           o == IF Head(s).from = h THEN <<Head(s)>> ELSE <<>>
<1>1. /\ n \in Nat /\ t \in Seq(S) /\ Len(s) = n + 1 /\ Head(s) = s[1] /\ s[1] \in S
      /\ \A i \in 1 .. n : t[i] = s[i + 1] /\ t[i] \in S
      /\ o \in Seq(S)
  OBVIOUS
<1>2. PICK g : Own(s, h) = g[n + 1] /\ Counts(g, s, h, n + 1)
  BY <1>1, OwnIs
<1> HIDE DEF t
<1>3. PICK k : Own(t, h) = k[n] /\ Counts(k, t, h, n)
  <2>1. t \in Seq(S) /\ Len(t) = n
    BY <1>1 DEF t
  <2> QED
    BY <2>1, OwnIs
<1> HIDE DEF t, o
<1> DEFINE P == {i \in Nat : k[i] \in Seq(S) /\ g[i + 1] = o \o k[i]}
<1>4. 0 \in P
  <2>1. 1 \in 1 .. n + 1 /\ 1 - 1 = 0 /\ 0 + 1 = 1
    BY <1>1
  <2>2. g[1] = IF s[1].from = h THEN Append(<<>>, s[1]) ELSE <<>>
    BY <1>2, <2>1 DEF Counts
  <2>3. g[1] = o /\ o \o <<>> = o /\ k[0] \in Seq(S)
    BY <1>1, <1>3, <2>2 DEF o, Counts
  <2> QED
    BY <1>3, <2>1, <2>3 DEF Counts
<1>5. ASSUME NEW i \in 0 .. n - 1, i \in P PROVE i + 1 \in P
  <2>1. i + 1 \in 1 .. n /\ (i + 1) + 1 \in 1 .. n + 1 /\ (i + 1) - 1 = i
        /\ i + 1 \in Nat /\ ((i + 1) + 1) - 1 = i + 1
    BY <1>1
  <2> DEFINE x == t[i + 1]
  <2>2. x \in S /\ x = s[(i + 1) + 1]
    BY <1>1, <2>1
  <2>3. k[i + 1] = IF x.from = h THEN Append(k[i], x) ELSE k[i]
    BY <1>3, <2>1 DEF Counts
  <2>4. g[(i + 1) + 1] = IF x.from = h THEN Append(g[i + 1], x) ELSE g[i + 1]
    BY <1>2, <2>1, <2>2 DEF Counts
  <2> HIDE DEF x
  <2>5. k[i] \in Seq(S) /\ g[i + 1] = o \o k[i]
    BY <1>5
  <2> DEFINE q == k[i]
  <2>6. Append(o \o q, x) = o \o Append(q, x) /\ Append(q, x) \in Seq(S)
    <3>1. o \in Seq(S) /\ q \in Seq(S) /\ x \in S
      BY <1>1, <2>2, <2>5
    <3> HIDE DEF q
    <3>2. o \o Append(q, x) \in Seq(S) /\ Append(o \o q, x) \in Seq(S)
          /\ Append(q, x) \in Seq(S)
      BY <3>1
    <3>3. Len(o \o Append(q, x)) = Len(o) + Len(q) + 1
          /\ Len(Append(o \o q, x)) = Len(o) + Len(q) + 1
          /\ Len(o) \in Nat /\ Len(q) \in Nat
      BY <3>1
    <3>4. \A j \in 1 .. Len(o) + Len(q) + 1 : (o \o Append(q, x))[j] = Append(o \o q, x)[j]
      BY <3>1, <3>3
    <3> QED
      BY <3>2, <3>3, <3>4, SeqEqual
  <2> QED
    BY <2>1, <2>3, <2>4, <2>5, <2>6
<1>6. k[n] \in Seq(S) /\ g[n + 1] = o \o k[n]
  <2> HIDE DEF P
  <2>1. \A i \in 0 .. n : i \in P
    BY <1>1, <1>4, <1>5, UpTo
  <2> QED
    BY <1>1, <2>1 DEF P
<1>7. Own(t, h) \in Seq(S) /\ Own(s, h) = o \o Own(t, h)
  BY <1>2, <1>3, <1>6
<1>8. Head(s).from = h \/ <<>> \o Own(t, h) = Own(t, h)
  BY <1>7
<1> QED
  BY <1>7, <1>8 DEF t, o

LEMMA OwnTyped ==
  ASSUME NEW S, NEW s \in Seq(S), NEW h
  PROVE  Own(s, h) \in Seq(S)
<1>1. CASE s = <<>>
  BY <1>1, OwnOfNone
<1>2. CASE s # <<>>
  <2> DEFINE o == Own(Tail(s), h)
  <2>1. o \in Seq(S) /\ Own(s, h) \in {<<Head(s)>> \o o, o}
    BY <1>2, OwnOfTail
  <2>2. <<Head(s)>> \in Seq(S)
    BY <1>2
  <2> HIDE DEF o
  <2> QED
    BY <2>1, <2>2
<1> QED
  BY <1>1, <1>2

\* Appending to a concatenation, and moving a frame from the second to the first.
LEMMA AppendedToBoth ==
  ASSUME NEW S, NEW r \in Seq(S), NEW s \in Seq(S), NEW x \in S,
         NEW y, y = Append(s, x), NEW z, z = r \o s
  PROVE  Append(z, x) = r \o y
<1>1. /\ y \in Seq(S) /\ z \in Seq(S) /\ Len(r) \in Nat /\ Len(s) \in Nat
      /\ Len(y) = Len(s) + 1 /\ Len(z) = Len(r) + Len(s)
      /\ y[Len(s) + 1] = x
      /\ \A k \in 1 .. Len(s) : y[k] = s[k]
  OBVIOUS
<1>2. /\ r \o y \in Seq(S) /\ Append(z, x) \in Seq(S)
      /\ Len(r \o y) = Len(r) + Len(s) + 1
      /\ Len(Append(z, x)) = Len(r) + Len(s) + 1
  BY <1>1
<1>3. ASSUME NEW j \in 1 .. Len(r) + Len(s) + 1 PROVE Append(z, x)[j] = (r \o y)[j]
  <2>1. CASE j <= Len(r) + Len(s)
    <3>1. Append(z, x)[j] = z[j]
      BY <1>1, <2>1
    <3>2. z[j] = IF j <= Len(r) THEN r[j] ELSE s[j - Len(r)]
      BY <1>1, <2>1
    <3>3. (r \o y)[j] = IF j <= Len(r) THEN r[j] ELSE y[j - Len(r)]
      BY <1>1
    <3>4. j <= Len(r) \/ j - Len(r) \in 1 .. Len(s)
      BY <1>1, <2>1
    <3> QED
      BY <1>1, <3>1, <3>2, <3>3, <3>4
  <2>2. CASE j = Len(r) + Len(s) + 1
    <3>1. Append(z, x)[j] = x
      BY <1>1, <2>2
    <3>2. (r \o y)[j] = y[Len(s) + 1]
      BY <1>1, <2>2
    <3> QED
      BY <1>1, <3>1, <3>2
  <2> QED
    BY <1>1, <2>1, <2>2
<1> QED
  BY <1>2, <1>3, SeqEqual

LEMMA MovedAcross ==
  ASSUME NEW S, NEW r \in Seq(S), NEW s \in Seq(S), NEW x \in S
  PROVE  Append(r, x) \o s = r \o (<<x>> \o s)
<1>1. /\ r \o (<<x>> \o s) \in Seq(S) /\ Append(r, x) \o s \in Seq(S)
      /\ Len(r \o (<<x>> \o s)) = Len(r) + 1 + Len(s)
      /\ Len(Append(r, x) \o s) = Len(r) + 1 + Len(s)
      /\ Len(r) \in Nat /\ Len(s) \in Nat
  OBVIOUS
<1>2. \A j \in 1 .. Len(r) + 1 + Len(s) : (r \o (<<x>> \o s))[j] = (Append(r, x) \o s)[j]
  BY <1>1
<1> QED
  BY <1>1, <1>2, SeqEqual

-----------------------------------------------------------------------------
(***************************************************************************)
(* Kept is not inductive: what waits in a socket and comes from its own    *)
(* bootloader is a reply the node will find valid.                         *)
(***************************************************************************)
OwnAreValid ==
  \A h \in Hosts : \A i \in 1 .. Len(buffer[h]) :
    buffer[h][i].from = h => ValidReply(h, buffer[h][i])

KeptInv ==
  /\ BusInv
  /\ replied \in [Hosts -> Seq(Frames)]
  /\ OwnAreValid
  /\ Kept

LEMMA KeptInit == BusInit => KeptInv
<1> SUFFICES ASSUME BusInit PROVE KeptInv
  OBVIOUS
<1>1. replied \in [Hosts -> Seq(Frames)]
  BY DEF BusInit
<1>2. OwnAreValid
  BY DEF BusInit, OwnAreValid
<1>3. <<>> \o <<>> = <<>>
  OBVIOUS
<1>4. Kept
  BY <1>3, OwnOfNone DEF BusInit, Kept
<1> QED
  BY <1>1, <1>2, <1>4, BusInvInit DEF KeptInv

(***************************************************************************)
(* A broadcast keeps OwnAreValid when the frame is of the sender, who does *)
(* not get it, or a valid reply to whom it is from; and it adds the frame  *)
(* to its own socket's own frames, and to nobody else's.                   *)
(***************************************************************************)
LEMMA BroadcastOwn ==
  ASSUME KeptInv, UNCHANGED <<nodeId, extended>>,
         NEW STATE f, f \in Frames, NEW sender, Broadcast(f, sender),
         \A h \in Hosts : f.from = h => h = sender \/ ValidReply(h, f)
  PROVE  /\ OwnAreValid'
         /\ \A h \in Hosts :
              Own(buffer'[h], h) = IF f.from = h /\ Reached(h, sender)
                                     THEN Append(Own(buffer[h], h), f)
                                     ELSE Own(buffer[h], h)
<1>1. ASSUME NEW h \in Hosts
      PROVE  /\ buffer[h] \in Seq(Frames)
             /\ buffer'[h] = IF Reached(h, sender) THEN Append(buffer[h], f) ELSE buffer[h]
  BY DEF Broadcast, KeptInv, BusInv, BusTypeOK
<1>2. ASSUME NEW h \in Hosts
      PROVE  /\ Len(buffer[h]) \in Nat
             /\ Len(Append(buffer[h], f)) = Len(buffer[h]) + 1
             /\ Append(buffer[h], f)[Len(buffer[h]) + 1] = f
             /\ \A i \in 1 .. Len(buffer[h]) : Append(buffer[h], f)[i] = buffer[h][i]
  BY <1>1
<1>3. ASSUME NEW h \in Hosts, NEW i \in 1 .. Len(buffer'[h]), buffer'[h][i].from = h
      PROVE  ValidReply(h, buffer'[h][i])
  <2>1. CASE Reached(h, sender) /\ i = Len(buffer[h]) + 1
    <3>1. buffer'[h][i] = f
      BY <1>1, <1>2, <2>1
    <3>2. h # sender
      BY <2>1 DEF Reached
    <3> QED
      BY <1>3, <3>1, <3>2
  <2>2. CASE ~(Reached(h, sender) /\ i = Len(buffer[h]) + 1)
    <3>1. i \in 1 .. Len(buffer[h]) /\ buffer'[h][i] = buffer[h][i]
      <4>1. CASE Reached(h, sender)
        <5>1. buffer'[h] = Append(buffer[h], f)
          BY <1>1, <4>1
        <5>2. i \in 1 .. Len(buffer[h]) + 1 /\ i # Len(buffer[h]) + 1
          BY <1>2, <2>2, <4>1, <5>1
        <5>3. i \in 1 .. Len(buffer[h])
          BY <1>2, <5>2
        <5> QED
          BY <1>2, <5>1, <5>3
      <4>2. CASE ~Reached(h, sender)
        BY <1>1, <4>2
      <4> QED
        BY <4>1, <4>2
    <3> QED
      BY <1>3, <3>1 DEF KeptInv, OwnAreValid
  <2> QED
    BY <2>1, <2>2
<1>4. OwnAreValid'
  BY <1>3 DEF OwnAreValid, ValidReply
<1>5. ASSUME NEW h \in Hosts
      PROVE  Own(buffer'[h], h) = IF f.from = h /\ Reached(h, sender)
                                    THEN Append(Own(buffer[h], h), f)
                                    ELSE Own(buffer[h], h)
  <2>1. Own(Append(buffer[h], f), h) = IF f.from = h THEN Append(Own(buffer[h], h), f)
                                       ELSE Own(buffer[h], h)
    BY <1>1, OwnAppended
  <2> QED
    BY <1>1, <2>1
<1> QED
  BY <1>4, <1>5

LEMMA KeptNext == KeptInv /\ [BusNext]_busVars => KeptInv'
<1> SUFFICES ASSUME KeptInv, [BusNext]_busVars PROVE KeptInv'
  OBVIOUS
<1>1. BusInv /\ BusInv'
  BY BusInvNext DEF KeptInv
<1>2. ASSUME UNCHANGED <<nodeId, extended, buffer, replied, heard>> PROVE KeptInv'
  BY <1>1, <1>2 DEF KeptInv, OwnAreValid, ValidReply, Kept
<1>3. ASSUME NEW h \in Hosts, Closed(h), UNCHANGED <<nodeId, extended>> PROVE KeptInv'
  <2>1. \A g \in Hosts :
          \/ buffer'[g] = buffer[g] /\ replied'[g] = replied[g] /\ heard'[g] = heard[g]
          \/ buffer'[g] = <<>> /\ replied'[g] = <<>> /\ heard'[g] = <<>>
    BY <1>1, <1>3 DEF Closed, KeptInv, BusInv, BusTypeOK
  <2>2. replied' \in [Hosts -> Seq(Frames)]
    BY <1>3 DEF Closed, KeptInv
  <2>3. OwnAreValid'
    BY <1>3, <2>1 DEF OwnAreValid, ValidReply, KeptInv
  <2>4. <<>> \o <<>> = <<>>
    OBVIOUS
  <2>5. Kept'
    BY <2>1, <2>4, OwnOfNone DEF Kept, KeptInv
  <2> QED
    BY <1>1, <2>2, <2>3, <2>5 DEF KeptInv
<1>4. ASSUME NEW h \in Hosts, Send(h) PROVE KeptInv'
  <2> DEFINE f == Command(h)
  <2>1. f \in Frames /\ f.from = h
    BY <1>1, IdsTellApart DEF Command, Frame, Frames, BusInv, BusTypeOK
  <2>2. UNCHANGED <<nodeId, extended, replied, heard>> /\ Broadcast(f, h)
    BY <1>4 DEF Send
  <2> HIDE DEF f
  <2>3. OwnAreValid' /\ \A g \in Hosts : Own(buffer'[g], g) = Own(buffer[g], g)
    BY <2>1, <2>2, BroadcastOwn DEF Reached
  <2> QED
    BY <1>1, <2>2, <2>3 DEF KeptInv, Kept
<1>5. ASSUME NEW h \in Hosts, Answer(h) PROVE KeptInv'
  <2> DEFINE f == Reply(h)
  <2>1. orders[h] \in Seq(Nat) /\ orders[h] # <<>>
    BY <1>1, <1>5 DEF Answer, BusInv, BusTypeOK
  <2>2. Head(orders[h]) \in Nat
    BY <2>1
  <2>3. f \in Frames /\ f.from = h /\ ValidReply(h, f)
    BY <1>1, <2>2, IdsTellApart DEF Reply, Frame, Frames, BusInv, BusTypeOK, ValidReply
  <2>4. /\ UNCHANGED <<nodeId, extended, heard>> /\ Broadcast(f, Stray)
        /\ replied' = [replied EXCEPT ![h] = IF Reached(h, Stray) THEN Append(@, f) ELSE @]
    BY <1>5 DEF Answer
  <2> HIDE DEF f
  <2>5. /\ OwnAreValid'
        /\ \A g \in Hosts :
             Own(buffer'[g], g) = IF f.from = g /\ Reached(g, Stray)
                                    THEN Append(Own(buffer[g], g), f)
                                    ELSE Own(buffer[g], g)
    BY <2>3, <2>4, BroadcastOwn
  <2>6. replied' \in [Hosts -> Seq(Frames)]
    BY <2>3, <2>4 DEF KeptInv
  <2>7. ASSUME NEW g \in Hosts PROVE replied'[g] = heard'[g] \o Own(buffer'[g], g)
    <3>1. replied[g] = heard[g] \o Own(buffer[g], g)
      BY DEF KeptInv, Kept
    <3>2. CASE g = h /\ Reached(h, Stray)
      <4>1. /\ replied'[g] = Append(replied[g], f)
            /\ Own(buffer'[g], g) = Append(Own(buffer[g], g), f)
        BY <2>3, <2>4, <2>5, <3>2 DEF KeptInv
      <4>2. heard[g] \in Seq(Frames) /\ Own(buffer[g], g) \in Seq(Frames)
        BY <1>1, OwnTyped DEF BusInv, BusTypeOK
      <4>3. Append(heard[g] \o Own(buffer[g], g), f) = heard[g] \o Append(Own(buffer[g], g), f)
        <5> DEFINE r == heard[g]
                   o == Own(buffer[g], g)
        <5>1. r \in Seq(Frames) /\ o \in Seq(Frames) /\ f \in Frames
          BY <2>3, <4>2
        <5> HIDE DEF r, o
        <5>2. Append(r \o o, f) = r \o Append(o, f)
          BY <5>1, AppendedToBoth
        <5> QED
          BY <5>2 DEF r, o
      <4> QED
        BY <2>4, <3>1, <4>1, <4>3
    <3>3. CASE ~(g = h /\ Reached(h, Stray))
      BY <2>3, <2>4, <2>5, <3>1, <3>3 DEF KeptInv
    <3> QED
      BY <3>2, <3>3
  <2> QED
    BY <1>1, <2>5, <2>6, <2>7 DEF KeptInv, Kept
<1>6. ASSUME NEW h \in Hosts, Receive(h) PROVE KeptInv'
  <2> DEFINE f == Head(buffer[h])
             t == Tail(buffer[h])
  <2>1. /\ UNCHANGED <<nodeId, extended, replied>>
        /\ buffer[h] # <<>>
        /\ buffer' = [buffer EXCEPT ![h] = t]
        /\ heard' = [heard EXCEPT ![h] = IF ValidReply(h, f) THEN Append(@, f) ELSE @]
    BY <1>6 DEF Receive
  <2>2. buffer[h] \in Seq(Frames) /\ heard[h] \in Seq(Frames)
    BY <1>1 DEF BusInv, BusTypeOK
  <2>3. f \in Frames /\ t \in Seq(Frames) /\ f = buffer[h][1] /\ 1 \in 1 .. Len(buffer[h])
    BY <2>1, <2>2
  <2>4. ValidReply(h, f) <=> f.from = h
    BY <1>1, <2>3 DEF KeptInv, OwnAreValid, BusInv, AllFit, Fits, ValidReply
  <2>5. ASSUME NEW g \in Hosts, NEW i \in 1 .. Len(buffer'[g]), buffer'[g][i].from = g
        PROVE  ValidReply(g, buffer'[g][i])
    <3>1. CASE g = h
      <4>1. buffer'[g] = t
        BY <1>1, <2>1, <3>1 DEF BusInv, BusTypeOK
      <4>2. i + 1 \in 1 .. Len(buffer[h]) /\ buffer'[g][i] = buffer[h][i + 1]
        BY <2>1, <2>2, <4>1, TailShifts
      <4> QED
        BY <2>5, <3>1, <4>2 DEF KeptInv, OwnAreValid
    <3>2. CASE g # h
      BY <1>1, <2>1, <2>5, <3>2 DEF KeptInv, OwnAreValid, BusInv, BusTypeOK
    <3> QED
      BY <3>1, <3>2
  <2>6. OwnAreValid'
    <3>1. nodeId' = nodeId /\ extended' = extended
      BY <2>1
    <3> QED
      BY <2>5, <3>1 DEF OwnAreValid, ValidReply
  <2>7. ASSUME NEW g \in Hosts PROVE replied'[g] = heard'[g] \o Own(buffer'[g], g)
    <3>1. replied[g] = heard[g] \o Own(buffer[g], g)
      BY DEF KeptInv, Kept
    <3>2. CASE g = h
      <4>1. /\ buffer'[g] = t
            /\ heard'[g] = IF f.from = h THEN Append(heard[h], f) ELSE heard[h]
        BY <1>1, <2>1, <2>4, <3>2 DEF BusInv, BusTypeOK
      <4>2. /\ Own(t, h) \in Seq(Frames)
            /\ Own(buffer[h], h) = IF f.from = h THEN <<f>> \o Own(t, h) ELSE Own(t, h)
        BY <2>1, <2>2, OwnOfTail
      <4> HIDE DEF f, t
      <4>3. Append(heard[h], f) \o Own(t, h) = heard[h] \o (<<f>> \o Own(t, h))
        <5> DEFINE r == heard[h]
                   o == Own(t, h)
        <5>1. r \in Seq(Frames) /\ o \in Seq(Frames) /\ f \in Frames
          BY <2>2, <2>3, <4>2
        <5> HIDE DEF r, o
        <5>2. Append(r, f) \o o = r \o (<<f>> \o o)
          BY <5>1, MovedAcross
        <5> QED
          BY <5>2 DEF r, o
      <4> QED
        BY <2>1, <3>1, <3>2, <4>1, <4>2, <4>3
    <3>3. CASE g # h
      BY <1>1, <2>1, <3>1, <3>3 DEF BusInv, BusTypeOK
    <3> QED
      BY <3>2, <3>3
  <2> QED
    BY <1>1, <2>1, <2>6, <2>7 DEF KeptInv, Kept
<1>7. ASSUME NEW id \in {ResponseId(n) : n \in NodeIds}, NEW ext \in BOOLEAN,
             NEW marker \in BOOLEAN, StrayFrame(id, ext, marker)
      PROVE  KeptInv'
  <2> DEFINE f == Frame(id, ext, marker, Stray, 0)
  <2>1. f \in Frames /\ f.from = Stray
    BY IdsTellApart DEF Frame, Frames
  <2>2. UNCHANGED <<nodeId, extended, replied, heard>> /\ Broadcast(f, Stray)
    BY <1>7 DEF StrayFrame
  <2> HIDE DEF f
  <2>3. OwnAreValid' /\ \A g \in Hosts : Own(buffer'[g], g) = Own(buffer[g], g)
    BY <2>1, <2>2, BroadcastOwn, StrayIsNoHost
  <2> QED
    BY <1>1, <2>2, <2>3 DEF KeptInv, Kept
<1>8. ASSUME NEW h \in Hosts,
             Construct(h) \/ Wait(h) \/ GiveUp(h) \/ Ignore(h)
      PROVE  KeptInv'
  BY <1>2, <1>8 DEF Construct, Wait, GiveUp, Ignore
<1>9. ASSUME NEW h \in Hosts, Open(h) \/ Close(h) PROVE KeptInv'
  BY <1>3, <1>9 DEF Open, Close
<1>10. CASE UNCHANGED busVars
  BY <1>2, <1>10 DEF busVars
<1> QED
  BY <1>4, <1>5, <1>6, <1>7, <1>8, <1>9, <1>10 DEF BusNext, HostStep

-----------------------------------------------------------------------------
(* The download.                                                           *)

P == "download"

\* Download(p) of the cache has an image that was checked from here on.
Checked ==
  {"replace", "check", "unlink", "link", "copy", "copying", "done"}

Downloads == [run : Nat, name : Names, sha : BOOLEAN, right : BOOLEAN]

CacheTyped ==
  /\ at \in [{P} -> {"idle", "download", "failed"} \cup Checked]
  /\ image \in [{P} -> Downloads \cup {Cache!NoImage}]
  /\ runs \in Nat
  /\ links \in BOOLEAN

\* The check was passed, and the image is under its name until the run ends.
InPlace ==
  /\ at[P] \in Checked \cup {"download"} => image[P] \in Downloads
  /\ at[P] \in Checked => (image[P].sha => image[P].right)
  /\ at[P] \in Checked \ {"replace", "done"} =>
       /\ image[P].name \in DOMAIN files
       /\ files[image[P].name] = Cache!File(image[P])

\* What latest.bin is on the way from the one it was to the one it will be.
OnTheWay ==
  /\ at[P] = "unlink" => Cache!Latest \in DOMAIN files
  /\ at[P] \in {"link", "copy"} => Cache!Latest \notin DOMAIN files
  /\ at[P] = "copying" =>
       /\ Cache!Latest \in DOMAIN files
       /\ files[Cache!Latest] = Cache!Half(P, image[P])

\* Where there are links nothing is copied; where there are none, none is made.
Linked ==
  /\ links =>
       /\ at[P] \notin {"copy", "copying"}
       /\ \A n \in DOMAIN files :
            Cache!Good(files[n]) \/ files[n].kind = "link"
  /\ ~links => \A n \in DOMAIN files : files[n].kind # "link"

CacheInv ==
  /\ CacheTyped
  /\ InPlace
  /\ OnTheWay
  /\ Linked
  /\ Cache!SuccessIsLatest

LEMMA CacheInvInit == Cache!Init => CacheInv
  BY DEF Cache!Init, CacheInv, CacheTyped, InPlace, OnTheWay, Linked, Checked,
         Cache!SuccessIsLatest, P

\* A step that only moves the process on, to anywhere but success.
LEMMA AtAlone ==
  ASSUME CacheInv, UNCHANGED <<files, image, runs, links>>, CacheTyped',
         at'[P] \notin {"copy", "copying", "done"}, InPlace', OnTheWay'
  PROVE  CacheInv'
<1>1. Linked'
  BY DEF CacheInv, Linked, Cache!Good
<1>2. Cache!SuccessIsLatest'
  BY DEF Cache!SuccessIsLatest, P
<1> QED
  BY <1>1, <1>2 DEF CacheInv

LEMMA CacheInvNext ==
  ASSUME Cache!Latest \notin Names, CacheInv, [Cache!Next]_cache
  PROVE  CacheInv'
<1> DEFINE L == Cache!Latest
           i == image[P]
<1>0. /\ P \in {P} /\ at[P] \in {"idle", "download", "failed"} \cup Checked
      /\ i \in Downloads => i.name \in Names /\ i.name # L
  BY DEF CacheInv, CacheTyped, Downloads
<1>1. CASE UNCHANGED cache
  BY <1>1 DEF cache, CacheInv, CacheTyped, InPlace, OnTheWay, Linked, Cache!SuccessIsLatest,
     Cache!Target, Cache!Reachable, Cache!Good
<1>2. CASE Cache!Start(P)
  <2>1. /\ UNCHANGED <<files, links>> /\ runs' = runs + 1
        /\ at' = [at EXCEPT ![P] = "download"]
    BY <1>2 DEF Cache!Start, Cache!Goto
  <2>2. image' \in [{P} -> Downloads \cup {Cache!NoImage}] /\ image'[P] \in Downloads
    BY <1>2, <2>1 DEF Cache!Start, CacheInv, CacheTyped, Downloads
  <2>3. at'[P] = "download" /\ CacheTyped'
    BY <2>1, <2>2 DEF CacheInv, CacheTyped
  <2>4. InPlace' /\ OnTheWay' /\ Linked'
    BY <2>1, <2>2, <2>3 DEF CacheInv, InPlace, OnTheWay, Linked, Checked, Cache!Good
  <2>5. Cache!SuccessIsLatest'
    BY <2>3 DEF Cache!SuccessIsLatest, P
  <2> QED
    BY <2>3, <2>4, <2>5 DEF CacheInv
<1>3. CASE Cache!Download(P)
  <2>1. /\ UNCHANGED <<files, image, runs, links>> /\ at[P] = "download"
        /\ \/ at' = [at EXCEPT ![P] = "replace"] /\ (i.sha => i.right)
           \/ at' = [at EXCEPT ![P] = "failed"]
    BY <1>3 DEF Cache!Download, Cache!Goto
  <2>2. /\ CacheTyped'
        /\ \/ at'[P] = "replace" /\ (i.sha => i.right)
           \/ at'[P] = "failed"
    BY <1>0, <2>1 DEF CacheInv, CacheTyped, Checked
  <2> QED
    BY <2>1, <2>2, AtAlone DEF CacheInv, InPlace, OnTheWay, Checked
<1>4. CASE Cache!Replace(P)
  <2>1. /\ UNCHANGED <<image, runs, links>> /\ at[P] = "replace"
        /\ at' = [at EXCEPT ![P] = "check"]
        /\ files' = Cache!With(files, i.name, Cache!File(i))
    BY <1>4 DEF Cache!Replace, Cache!Goto
  <2>2. at'[P] = "check" /\ CacheTyped'
    BY <1>0, <2>1 DEF CacheInv, CacheTyped, Checked
  <2>3. i \in Downloads /\ (i.sha => i.right)
    BY <2>1 DEF CacheInv, InPlace, Checked
  <2>4. /\ i.name \in DOMAIN files' /\ files'[i.name] = Cache!File(i)
        /\ \A n \in DOMAIN files' : \/ files'[n] = Cache!File(i)
                                    \/ n \in DOMAIN files /\ files'[n] = files[n]
    BY <2>1 DEF Cache!With
  <2>5. InPlace' /\ OnTheWay' /\ Cache!SuccessIsLatest'
    BY <2>1, <2>2, <2>3, <2>4 DEF InPlace, OnTheWay, Cache!SuccessIsLatest, P
  <2>6. Linked'
    BY <2>1, <2>2, <2>3, <2>4 DEF CacheInv, Linked, Cache!Good, Cache!File
  <2> QED
    BY <2>2, <2>5, <2>6 DEF CacheInv
<1>5. CASE Cache!Check(P)
  <2>1. /\ UNCHANGED <<files, image, runs, links>> /\ at[P] = "check"
        /\ at' = [at EXCEPT ![P] = IF L \in DOMAIN files THEN "unlink" ELSE "link"]
    BY <1>5 DEF Cache!Check, Cache!Goto
  <2>2. /\ CacheTyped'
        /\ at'[P] = IF L \in DOMAIN files THEN "unlink" ELSE "link"
    BY <1>0, <2>1 DEF CacheInv, CacheTyped, Checked
  <2> QED
    BY <2>1, <2>2, AtAlone DEF CacheInv, InPlace, OnTheWay, Checked
<1>6. CASE Cache!Unlink(P)
  <2>1. /\ UNCHANGED <<image, runs, links>> /\ at[P] = "unlink"
        /\ at' = [at EXCEPT ![P] = "link"]
        /\ files' = Cache!Without(files, L)
    BY <1>6 DEF Cache!Unlink, Cache!Goto, CacheInv, OnTheWay
  <2>2. at'[P] = "link" /\ CacheTyped'
    BY <1>0, <2>1 DEF CacheInv, CacheTyped, Checked
  <2>3. DOMAIN files' = DOMAIN files \ {L} /\ \A n \in DOMAIN files' : files'[n] = files[n]
    BY <2>1 DEF Cache!Without
  <2>4. i \in Downloads /\ (i.sha => i.right) /\ i.name # L
        /\ i.name \in DOMAIN files /\ files[i.name] = Cache!File(i)
    BY <1>0, <2>1 DEF CacheInv, InPlace, Checked
  <2>5. InPlace' /\ OnTheWay' /\ Cache!SuccessIsLatest'
    BY <2>1, <2>2, <2>3, <2>4 DEF InPlace, OnTheWay, Cache!SuccessIsLatest, P
  <2>6. Linked'
    BY <2>1, <2>2, <2>3 DEF CacheInv, Linked, Cache!Good
  <2> QED
    BY <2>2, <2>5, <2>6 DEF CacheInv
<1>7. CASE Cache!Symlink(P)
  <2>1. /\ UNCHANGED <<image, runs, links>> /\ at[P] = "link"
        /\ L \notin DOMAIN files
    BY <1>7 DEF Cache!Symlink, CacheInv, OnTheWay
  <2>2. i \in Downloads /\ (i.sha => i.right) /\ i.name # L
        /\ i.name \in DOMAIN files /\ files[i.name] = Cache!File(i)
    BY <1>0, <2>1 DEF CacheInv, InPlace, Checked
  <2>3. CASE links
    <3>1. /\ at' = [at EXCEPT ![P] = "done"]
          /\ files' = Cache!With(files, L, Cache!Link(i.name))
      BY <1>7, <2>1, <2>3 DEF Cache!Symlink, Cache!Succeed, Cache!Goto
    <3>2. at'[P] = "done" /\ CacheTyped'
      BY <1>0, <2>1, <3>1 DEF CacheInv, CacheTyped, Checked
    <3>3. /\ L \in DOMAIN files' /\ files'[L] = Cache!Link(i.name)
          /\ i.name \in DOMAIN files' /\ files'[i.name] = Cache!File(i)
          /\ \A n \in DOMAIN files' : \/ files'[n] = Cache!Link(i.name)
                                      \/ n \in DOMAIN files /\ files'[n] = files[n]
      BY <2>2, <3>1 DEF Cache!With
    <3>4. InPlace' /\ OnTheWay'
      BY <2>1, <2>2, <3>2 DEF InPlace, OnTheWay, Checked
    <3>5. Linked'
      BY <2>1, <2>3, <3>2, <3>3 DEF CacheInv, Linked, Cache!Good, Cache!Link
    <3>6. Cache!SuccessIsLatest'
      BY <2>1, <3>3 DEF Cache!SuccessIsLatest, Cache!Reachable, Cache!Target,
         Cache!Link, Cache!File, P
    <3> QED
      BY <3>2, <3>4, <3>5, <3>6 DEF CacheInv
  <2>4. CASE ~links
    <3>1. at' = [at EXCEPT ![P] = "copy"] /\ files' = files
      BY <1>7, <2>4 DEF Cache!Symlink, Cache!Goto
    <3>2. at'[P] = "copy" /\ CacheTyped'
      BY <1>0, <2>1, <3>1 DEF CacheInv, CacheTyped, Checked
    <3>3. InPlace' /\ OnTheWay' /\ Cache!SuccessIsLatest'
      BY <2>1, <2>2, <3>1, <3>2 DEF InPlace, OnTheWay, Cache!SuccessIsLatest, P
    <3>4. Linked'
      BY <2>1, <2>4, <3>1, <3>2 DEF CacheInv, Linked
    <3> QED
      BY <3>2, <3>3, <3>4 DEF CacheInv
  <2> QED
    BY <2>3, <2>4
<1>8. CASE Cache!CopyBegin(P)
  <2>1. /\ UNCHANGED <<image, runs, links>> /\ at[P] = "copy" /\ ~links
        /\ L \notin DOMAIN files
    BY <1>8 DEF Cache!CopyBegin, CacheInv, OnTheWay, Linked
  <2>2. i \in Downloads /\ (i.sha => i.right) /\ i.name # L
        /\ i.name \in DOMAIN files /\ files[i.name] = Cache!File(i)
    BY <1>0, <2>1 DEF CacheInv, InPlace, Checked
  <2>3. /\ Cache!Target(i.name) = i.name /\ Cache!Target(L) = L
        /\ Cache!Reachable(i.name)
    BY <2>1, <2>2 DEF Cache!Target, Cache!Reachable, Cache!File
  <2>4. /\ at' = [at EXCEPT ![P] = "copying"]
        /\ files' = Cache!With(files, L, Cache!Half(P, i))
    BY <1>8, <2>1, <2>2, <2>3 DEF Cache!CopyBegin, Cache!Goto, Cache!File
  <2>5. at'[P] = "copying" /\ CacheTyped'
    BY <1>0, <2>1, <2>4 DEF CacheInv, CacheTyped, Checked
  <2>6. /\ L \in DOMAIN files' /\ files'[L] = Cache!Half(P, i)
        /\ i.name \in DOMAIN files' /\ files'[i.name] = Cache!File(i)
        /\ \A n \in DOMAIN files' : \/ files'[n] = Cache!Half(P, i)
                                    \/ n \in DOMAIN files /\ files'[n] = files[n]
    BY <2>2, <2>4 DEF Cache!With
  <2>7. InPlace' /\ OnTheWay' /\ Cache!SuccessIsLatest'
    BY <2>1, <2>2, <2>5, <2>6 DEF InPlace, OnTheWay, Cache!SuccessIsLatest, P
  <2>8. Linked'
    BY <2>1, <2>5, <2>6 DEF CacheInv, Linked, Cache!Half
  <2> QED
    BY <2>5, <2>7, <2>8 DEF CacheInv
<1>9. CASE Cache!CopyEnd(P)
  <2>1. /\ UNCHANGED <<image, runs, links>> /\ at[P] = "copying" /\ ~links
        /\ at' = [at EXCEPT ![P] = "done"]
        /\ files' = [n \in DOMAIN files |-> Cache!Written(files[n], P)]
        /\ L \in DOMAIN files /\ files[L] = Cache!Half(P, i)
    BY <1>9 DEF Cache!CopyEnd, Cache!Succeed, Cache!Goto, CacheInv, OnTheWay, Linked
  <2>2. at'[P] = "done" /\ CacheTyped'
    BY <1>0, <2>1 DEF CacheInv, CacheTyped, Checked
  <2>3. L \in DOMAIN files' /\ files'[L] = Cache!File(i)
    BY <2>1 DEF Cache!Written, Cache!Half
  <2>4. InPlace' /\ OnTheWay'
    BY <2>1, <2>2 DEF CacheInv, InPlace, OnTheWay, Checked
  <2>5. Linked'
    BY <2>1, <2>2 DEF CacheInv, Linked, Cache!Written, Cache!File
  <2>6. Cache!SuccessIsLatest'
    BY <2>1, <2>3 DEF Cache!SuccessIsLatest, Cache!Reachable, Cache!Target, Cache!File, P
  <2> QED
    BY <2>2, <2>4, <2>5, <2>6 DEF CacheInv
<1>10. CASE Cache!Kill(P)
  <2>1. /\ UNCHANGED <<files, image, runs, links>>
        /\ at' = [at EXCEPT ![P] = "idle"]
    BY <1>10 DEF Cache!Kill, Cache!Goto
  <2>2. CacheTyped' /\ at'[P] = "idle"
    BY <1>0, <2>1 DEF CacheInv, CacheTyped, Checked
  <2> QED
    BY <2>1, <2>2, AtAlone DEF InPlace, OnTheWay, Checked
<1>11. CASE Cache!Next
  BY <1>2, <1>3, <1>4, <1>5, <1>6, <1>7, <1>8, <1>9, <1>10, <1>11
  DEF Cache!Next, Cache!Run, P
<1> QED
  BY <1>1, <1>11

-----------------------------------------------------------------------------
(* From the download to the bus.                                           *)

\* Nothing is sent before the image is loaded.
Unsent ==
  /\ index = 0 /\ offset = 0 /\ sequence = 0
  /\ placed = 0 /\ frame = NoFrame /\ done = FALSE

(***************************************************************************)
(* What is loaded is whole and was checked, where there are links, for all *)
(* that is under the name latest.bin leads to is.                          *)
(***************************************************************************)
FirmwareInv ==
  /\ CacheInv
  /\ loaded = None => Unsent
  /\ loaded # None => SlicingInv /\ (links => Cache!Good(loaded))

LEMMA FirmwareInvInit == FirmwareInit => FirmwareInv
  BY CacheInvInit DEF FirmwareInit, FirmwareInv, Unsent

\* Load leaves the loops where Init of OtaSlicing starts them.
LEMMA LoadStarts == Load /\ Unsent => Init'
  BY DEF Load, Unsent, Init

LEMMA FirmwareInvNext ==
  Cache!Latest \notin Names /\ FirmwareInv /\ [FirmwareNext]_firmwareVars
    => FirmwareInv'
<1> SUFFICES ASSUME Cache!Latest \notin Names, FirmwareInv, [FirmwareNext]_firmwareVars
             PROVE  FirmwareInv'
  OBVIOUS
<1>1. CASE loaded = None /\ Cache!Next /\ UNCHANGED <<vars, loaded>>
  <2>1. CacheInv'
    BY <1>1, CacheInvNext DEF FirmwareInv
  <2> QED
    BY <1>1, <2>1 DEF FirmwareInv, Unsent, vars
<1>2. CASE Load
  <2>1. /\ loaded = None /\ UNCHANGED cache
        /\ Cache!Reachable(Cache!Latest)
        /\ loaded' = files[Cache!Target(Cache!Latest)]
    BY <1>2 DEF Load
  <2>2. CacheInv'
    BY <2>1, CacheInvNext DEF FirmwareInv
  <2>3. Init' => SlicingInv'
    BY InitInv, PTL
  <2>4. SlicingInv'
    BY <1>2, <2>1, <2>3, LoadStarts DEF FirmwareInv
  <2>5. links => Cache!Good(loaded')
    BY <2>1 DEF FirmwareInv, CacheInv, Linked, Cache!Reachable
  <2>6. Unsent'
    BY <1>2, <2>1 DEF Load, FirmwareInv, Unsent
  <2> QED
    BY <2>1, <2>2, <2>4, <2>5, <2>6 DEF FirmwareInv, cache, Cache!Good
<1>3. CASE loaded # None /\ Next /\ UNCHANGED <<cache, loaded>>
  <2>1. SlicingInv'
    BY <1>3, SendDataStep, NextBlockStep DEF FirmwareInv, Next
  <2>2. CacheInv'
    BY <1>3, CacheInvNext DEF FirmwareInv
  <2> QED
    BY <1>3, <2>1, <2>2 DEF FirmwareInv, cache, Cache!Good
<1>4. CASE UNCHANGED firmwareVars
  <2>1. CacheInv'
    BY <1>4, CacheInvNext DEF FirmwareInv, firmwareVars
  <2>2. SlicingInv => SlicingInv'
    BY <1>4, StutterStep DEF firmwareVars
  <2> QED
    BY <1>4, <2>1, <2>2 DEF FirmwareInv, firmwareVars, vars, cache, Unsent, Cache!Good
<1> QED
  BY <1>1, <1>2, <1>3, <1>4 DEF FirmwareNext

LEMMA FirmwareInvImplies == FirmwareInv => ImageIsGood /\ PlacedWhereRead
<1> SUFFICES ASSUME FirmwareInv PROVE ImageIsGood /\ PlacedWhereRead
  OBVIOUS
<1>1. CASE loaded = None
  BY <1>1 DEF FirmwareInv, CacheInv, Unsent, ImageIsGood, PlacedWhereRead, NoFrame
<1>2. CASE loaded # None
  BY <1>2 DEF FirmwareInv, CacheInv, SlicingInv, SentSoFar, WholeImageSent,
     ImageIsGood, PlacedWhereRead
<1> QED
  BY <1>1, <1>2

-----------------------------------------------------------------------------
(* The theorems.                                                           *)

LEMMA InvInit == MCInit => FirmwareInv /\ KeptInv
  BY FirmwareInvInit, KeptInit DEF MCInit

LEMMA InvNext ==
  Cache!Latest \notin Names /\ FirmwareInv /\ KeptInv
    /\ [MCNext]_<<side, firmwareVars, busVars>> => FirmwareInv' /\ KeptInv'
  BY FirmwareInvNext, KeptNext DEF MCNext

(***************************************************************************)
(* Where there are links, what a finished update has sent is all of one    *)
(* image that passed its check, whenever latest.bin was opened, and the    *)
(* next one finds what the last download downloaded (download_firmware.py, *)
(* FirmwareImage::load, runTransfer), unless --filename was latest.bin     *)
(* itself; every reply a node takes is its own bootloader's, and none that *)
(* reached its socket is lost (receiveById, parseReply).                   *)
(***************************************************************************)
THEOREM OneGoodImage ==
  ASSUME Cache!Latest \notin Names
  PROVE  MCSpec => []SentIsGood
<1>1. FirmwareInv /\ KeptInv => SentIsGood
  BY FirmwareInvImplies DEF SentIsGood, KeptInv, BusInv
<1>2. FirmwareInv /\ KeptInv /\ [MCNext]_<<side, firmwareVars, busVars>>
        => FirmwareInv' /\ KeptInv'
  BY InvNext
<1> QED
  BY InvInit, <1>1, <1>2, PTL DEF MCSpec
=============================================================================
