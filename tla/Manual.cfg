SPECIFICATION Spec
CONSTANTS
  mag = mag
  vti = vti
  sweep = sweep
  series = series
  fill = fill
  VIs = {mag, vti}
  VIOrder <- MCVIOrder
  Concerned = {mag}
  Procedures = {sweep, series}
  Operations = {}
  NoRun = NoRun
  AnyVI = AnyVI
  Claims <- MCClaims
  InitTargets <- MCInitTargets
  InitStandby <- MCInitStandby
  StepTargets <- MCStepTargets
  StandbyTargets <- MCStandbyTargets
  StandbyParks <- MCNoParks
  InitGated = {}
  ReadGated = {}
  Stepped = {}
  Tolerates <- MCTolerates
  EnvFlags = {}
  CommVIs = {}
  Raisers = {}
  Drifters = {}
  MayRaise = FALSE
  HasEnvelope = FALSE
  PersistentVIs = {mag}
  Manual = {"ramp", "standby", "initiate", "persist"}
  QueueBound = 1
  GuiBound = 2
PROPERTIES
  ClaimedVIUntouched
