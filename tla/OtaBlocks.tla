------------------------------ MODULE OtaBlocks ------------------------------
(***************************************************************************)
(* The arithmetic that cuts a firmware image into OTA blocks and a block   *)
(* into CAN DATA frames, as runTransfer, readBlock, sendBlock and          *)
(* buildData of stm32_can_ota do it.  Bytes are numbered from 0; a piece   *)
(* of the image is the position of its first byte and its length.          *)
(***************************************************************************)
EXTENDS Naturals

CONSTANTS
  FramePayload,   \* firmware bytes a DATA frame carries (5 in the code)
  SequenceSpace,  \* values of the uint8 DATA sequence number (256)
  IndexSpace,     \* values of the uint16 block index (65536)
  MaxBlockSize,   \* largest block size the host accepts (1280)
  MaxBlockCount   \* largest number of blocks the host accepts (65536)

\* The code's limits are exactly those the two wire counters can number.
ASSUME BlocksAssumption ==
  /\ FramePayload \in Nat \ {0}
  /\ SequenceSpace \in Nat \ {0}
  /\ IndexSpace \in Nat \ {0}
  /\ MaxBlockSize \in Nat \ {0}
  /\ MaxBlockCount \in Nat
  /\ MaxBlockSize <= SequenceSpace * FramePayload
  /\ MaxBlockCount <= IndexSpace

Least(a, b) == IF a <= b THEN a ELSE b

\* Number of blocks of an image, rounded up.
BlockCount(size, blockSize) == (size + blockSize - 1) \div blockSize

BlockOffset(index, blockSize) == index * blockSize

\* Length of the piece readBlock returns: cut off at the end of the image.
BlockLength(index, size, blockSize) ==
  IF BlockOffset(index, blockSize) >= size
    THEN 0
    ELSE Least(size, BlockOffset(index, blockSize) + blockSize)
           - BlockOffset(index, blockSize)

\* Length of the payload that starts at `offset' of a block.
PayloadLength(offset, length) == Least(FramePayload, length - offset)

\* The DATA loop runs once per FramePayload bytes of the block.
FrameCount(length) == (length + FramePayload - 1) \div FramePayload

\* The casts to the width of the wire field.
WireIndex(index) == index % IndexSpace
WireSequence(sequence) == sequence % SequenceSpace

(***************************************************************************)
(* The checks runTransfer makes of the capability the bootloader reported, *)
(* in the order it makes them.  The result is "none" or the OtaError.      *)
(***************************************************************************)
\* Not the code: no upper limit.
BlockSizeNonzero(blockSize) == blockSize # 0

BlockSizeAllowed(blockSize) == blockSize # 0 /\ blockSize <= MaxBlockSize

FitsDevice(size, maxFwSize) == maxFwSize = 0 \/ size <= maxFwSize

BlockCountAllowed(size, blockSize) ==
  BlockCount(size, blockSize) <= MaxBlockCount

CapabilityVerdict(size, cap) ==
  IF cap.protocolVersion # 1 \/ ~BlockSizeAllowed(cap.blockSize)
    THEN "capability_rejected"
  ELSE IF \/ ~FitsDevice(size, cap.maxFwSize)
          \/ ~BlockCountAllowed(size, cap.blockSize)
    THEN "firmware_too_large"
  ELSE "none"
=============================================================================
