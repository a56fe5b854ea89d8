SPECIFICATION MagnetSpec
CONSTANTS
  MaxCurrent = 2
  Segments = {1, 2}
  Fields <- MCFields
  Calls = {"ramp", "standby"}
  Spontaneous = FALSE
  Budget = 3
INVARIANTS
  StandbyEndsParked
CHECK_DEADLOCK FALSE
