SPECIFICATION MCSpec
CONSTANTS
  Configs <- MCConfigs
  Rotations <- MCRotations
  MaxQueue = 1
  MaxTime = 3
  MaxDatums = 1
  MaxDeclinations = 1
INVARIANTS
  Flat
  StaysFinite
  WarnsUnmeasured
PROPERTIES
  Georeferenced
CHECK_DEADLOCK FALSE
