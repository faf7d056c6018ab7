----------------------------- MODULE OtaSlicing -----------------------------
(***************************************************************************)
(* The two nested loops that put a firmware image on the bus: the block    *)
(* loop of runTransfer and the DATA loop of sendBlock, on a bus that loses *)
(* nothing.  What matters here is whether a receiver that sees only the    *)
(* wire counters - a uint16 block index and a uint8 sequence number - puts *)
(* every byte where the host took it from.                                 *)
(***************************************************************************)
EXTENDS OtaBlocks

CONSTANTS MaxImageSize,      \* bound on the image sizes considered
          MaxReportedSize    \* bound on the block sizes a bootloader reports

ASSUME SlicingAssumption ==
  /\ MaxImageSize \in Nat \ {0}
  /\ MaxReportedSize \in Nat

VARIABLES
  size,       \* bytes of the image; load() refuses an empty file
  blockSize,  \* capability.block_size
  index,      \* block_index of the block loop
  offset,     \* offset within the block, of the DATA loop
  sequence,   \* the uint8 sequence counter of sendBlock
  placed,     \* bytes 0..placed-1 of the image have been sent, in order
  frame,      \* the last DATA frame: what the receiver decodes from it
  done        \* the block loop has ended

vars == <<size, blockSize, index, offset, sequence, placed, frame, done>>

NoFrame == [at |-> 0, length |-> 0, from |-> 0]

Init ==
  /\ size \in 1 .. MaxImageSize
  /\ blockSize \in 0 .. MaxReportedSize
  /\ CapabilityVerdict(size, [protocolVersion |-> 1, blockSize |-> blockSize,
                              maxFwSize |-> 0]) = "none"
  /\ index = 0
  /\ offset = 0
  /\ sequence = 0
  /\ placed = 0
  /\ frame = NoFrame
  /\ done = FALSE

Length == BlockLength(index, size, blockSize)

(***************************************************************************)
(* One iteration of the DATA loop.  `at' is where the receiver puts the    *)
(* payload: it knows the block size it reported, the index on the wire and *)
(* the sequence number on the wire, nothing else.                          *)
(***************************************************************************)
SendData ==
  /\ ~done
  /\ offset < Length
  /\ LET length == PayloadLength(offset, Length) IN
     /\ frame' = [at     |-> WireIndex(index) * blockSize
                               + sequence * FramePayload,
                  length |-> length,
                  from   |-> BlockOffset(index, blockSize) + offset]
     /\ placed' = placed + length
  /\ offset' = offset + FramePayload
  /\ sequence' = WireSequence(sequence + 1)
  /\ UNCHANGED <<size, blockSize, index, done>>

\* The block is acknowledged: the block loop goes to the next one or ends.
NextBlock ==
  /\ ~done
  /\ offset >= Length
  /\ IF index + 1 < BlockCount(size, blockSize)
       THEN /\ index' = index + 1
            /\ offset' = 0
            /\ sequence' = 0
            /\ done' = FALSE
       ELSE /\ done' = TRUE
            /\ UNCHANGED <<index, offset, sequence>>
  /\ UNCHANGED <<size, blockSize, placed, frame>>

Next == SendData \/ NextBlock

Spec == Init /\ [][Next]_vars

-----------------------------------------------------------------------------
TypeOK ==
  /\ size \in 1 .. MaxImageSize
  /\ blockSize \in 1 .. MaxBlockSize
  /\ index \in 0 .. MaxBlockCount - 1
  /\ offset \in Nat
  /\ sequence \in 0 .. SequenceSpace - 1
  /\ placed \in Nat
  /\ frame \in [at : Nat, length : 0 .. FramePayload, from : Nat]
  /\ done \in BOOLEAN

(***************************************************************************)
(* Every payload lands where the host read it: neither the uint8 sequence  *)
(* nor the uint16 block index ever wraps inside an accepted transfer, so   *)
(* the limits 1280 and 65536 of runTransfer are tight enough.              *)
(***************************************************************************)
PlacedWhereRead == frame.at = frame.from

(***************************************************************************)
(* The block loop ends with every byte of the image sent exactly once, the *)
(* short last block and the short last frame included.                     *)
(***************************************************************************)
WholeImageSent == done => placed = size

(***************************************************************************)
(* Frames are sent in the order of the image, without gap or overlap, and  *)
(* no frame reaches past the end of the image.                             *)
(***************************************************************************)
Contiguous ==
  [][placed' # placed =>
       /\ frame'.from = placed
       /\ placed' = placed + frame'.length
       /\ placed' <= size]_vars
=============================================================================
