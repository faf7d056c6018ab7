---------------------------- MODULE OtaFirmware -----------------------------
(***************************************************************************)
(* The way of an image from the download to the bus: FirmwareCache puts it *)
(* under latest.bin, the node opens that name at any moment of a download, *)
(* FirmwareImage::load reads what it finds, and OtaSlicing sends it.  The  *)
(* download goes on only until the file is open: from then on the host     *)
(* works on the copy in memory, and the rename and the unlink leave an     *)
(* open file as it is.                                                     *)
(***************************************************************************)
EXTENDS OtaSlicing, FiniteSets

CONSTANTS
  Names,     \* filenames a download may be given
  MaxRuns    \* bound: downloads in a behaviour

VARIABLES
  files, at, image, runs, links,   \* of FirmwareCache
  loaded                           \* what load() found: a directory entry or None

Cache == INSTANCE FirmwareCache WITH Processes <- {"download"}

cache == <<files, at, image, runs, links>>

None == [kind |-> "none"]

FirmwareInit ==
  /\ Cache!Init /\ loaded = None
  /\ size = 0 /\ blockSize = 0 /\ index = 0 /\ offset = 0 /\ sequence = 0
  /\ placed = 0 /\ frame = NoFrame /\ done = FALSE

\* load() and the answer to the capability query; an empty file is refused.
Load ==
  /\ loaded = None
  /\ Cache!Reachable(Cache!Latest)
  /\ loaded' = files[Cache!Target(Cache!Latest)]
  /\ size' \in 1 .. MaxImageSize
  /\ blockSize' \in 0 .. MaxReportedSize
  /\ CapabilityVerdict(size', [protocolVersion |-> 1, blockSize |-> blockSize',
                               maxFwSize |-> 0]) = "none"
  /\ UNCHANGED <<index, offset, sequence, placed, frame, done, cache>>

FirmwareNext ==
  \/ loaded = None /\ Cache!Next /\ UNCHANGED <<vars, loaded>>
  \/ Load
  \/ loaded # None /\ Next /\ UNCHANGED <<cache, loaded>>

FirmwareSpec == FirmwareInit /\ [][FirmwareNext]_<<vars, cache, loaded>>

-----------------------------------------------------------------------------
(***************************************************************************)
(* Where there are symbolic links, what a finished update has sent is all  *)
(* of one image that passed its check, whatever the download was at when   *)
(* latest.bin was opened (a copy, where there are none, is written in      *)
(* place and may be read half); and the next update after a download that  *)
(* succeeded finds the image it downloaded.                                *)
(***************************************************************************)
ImageIsGood ==
  /\ done => WholeImageSent /\ (links => Cache!Good(loaded))
  /\ Cache!SuccessIsLatest
=============================================================================
