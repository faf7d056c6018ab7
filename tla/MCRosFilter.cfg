SPECIFICATION Spec
CONSTANTS
  Odometers = {"odom0"}
  Imus = {"imu0"}
  Uses <- MCUses
  Differential <- MCDifferential
  Settings <- MCSettings
  SensorTimeout = 2
  Skew = 1
  MaxTime = 3
  MaxMeasurements = 3
  MaxSetPoses = 1
  MaxToggles = 1
INVARIANTS
  SetPoseForgets
  Conserved
  Smoothed
CHECK_DEADLOCK FALSE
PROPERTIES
  Drains
