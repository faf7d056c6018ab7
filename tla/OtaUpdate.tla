----------------------------- MODULE OtaUpdate ------------------------------
(***************************************************************************)
(* What a caller of OtaClient may rely on, without bus, retries, sessions  *)
(* or threads: one update is active at a time, it ends completed, failed   *)
(* or cancelled, and completed means that the flash holds the image - not  *)
(* only at that moment, but for as long as nobody starts another update.   *)
(***************************************************************************)
CONSTANT Blocks     \* indices of the blocks an image may have

VARIABLES
  phase,    \* idle, active, completed, failed or cancelled
  missing   \* blocks of the latest image that the flash does not hold

vars == <<phase, missing>>

Init ==
  /\ phase = "idle"
  /\ missing \in SUBSET Blocks

\* A start is accepted: some of the new image is not in flash yet.
Accept ==
  /\ phase # "active"
  /\ phase' = "active"
  /\ missing' \in (SUBSET Blocks) \ {{}}

\* The bootloader erases or writes flash, not behind a completed update.
Program ==
  /\ phase # "completed"
  /\ missing' \in SUBSET Blocks
  /\ UNCHANGED phase

Complete ==
  /\ phase = "active"
  /\ missing = {}
  /\ phase' = "completed"
  /\ UNCHANGED missing

GiveUp ==
  /\ phase = "active"
  /\ phase' \in {"failed", "cancelled"}
  /\ UNCHANGED missing

\* The host process is gone, and with it what it knew.
Forget ==
  /\ phase # "idle"
  /\ phase' = "idle"
  /\ UNCHANGED missing

Next == Accept \/ Program \/ Complete \/ GiveUp \/ Forget

Spec == Init /\ [][Next]_vars
=============================================================================
