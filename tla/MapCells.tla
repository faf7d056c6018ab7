------------------------------ MODULE MapCells -------------------------------
(***************************************************************************)
(* The value of a cell in the merged map of simple_map_merge.py: how a     *)
(* value is normalised, and how one more is laid over what is there.       *)
(***************************************************************************)
EXTENDS Integers

CONSTANTS
  FreeThreshold,      \* free_threshold (20)
  OccupiedThreshold   \* occupied_threshold (65)

Unknown == -1
Full == 100

ASSUME ThresholdsAssumption ==
  /\ FreeThreshold \in Int
  /\ OccupiedThreshold \in Int
  /\ 0 <= FreeThreshold
  /\ FreeThreshold < OccupiedThreshold
  /\ OccupiedThreshold <= Full

Larger(a, b) == IF a >= b THEN a ELSE b
Smaller(a, b) == IF a <= b THEN a ELSE b

\* normalize_cell
Normalized(value) ==
  IF value >= OccupiedThreshold THEN Full
  ELSE IF value <= FreeThreshold THEN 0
  ELSE Larger(0, Smaller(Full, value))

\* Not the code: the map laid over last decides.
MergedLast(current, normalized) == normalized

\* The cell with one more normalised value laid over it.
Merged(current, normalized) ==
  IF current < 0
    THEN normalized
  ELSE IF normalized >= OccupiedThreshold \/ current >= OccupiedThreshold
    THEN Larger(current, normalized)
  ELSE IF normalized <= FreeThreshold /\ current <= FreeThreshold
    THEN Smaller(current, normalized)
    ELSE Larger(current, normalized)
=============================================================================
