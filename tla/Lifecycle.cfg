SPECIFICATION Spec
CONSTANTS
  mag = mag
  vti = vti
  sweep = sweep
  series = series
  fill = fill
  VIs = {mag, vti}
  VIOrder <- MCVIOrder
  Concerned = {mag}
  Procedures = {sweep}
  Operations = {fill}
  NoRun = NoRun
  AnyVI = AnyVI
  Claims <- MCWarmClaims
  InitTargets <- MCWarmInitTargets
  InitStandby <- MCWarmInitStandby
  StepTargets <- MCStepTargets
  StandbyTargets <- MCStandbyTargets
  StandbyParks <- MCNoParks
  InitGated = {sweep, fill}
  ReadGated = {fill}
  Stepped = {fill}
  Tolerates <- MCTolerates
  EnvFlags = {"quench"}
  CommVIs = {}
  Raisers = {}
  Drifters = {vti}
  MayRaise = FALSE
  HasEnvelope = FALSE
  PersistentVIs = {}
  Manual = {}
  QueueBound = 1
  GuiBound = 0
INVARIANTS
  RunMatchesState
  RunMemory
  PauseAtBoundary
PROPERTIES
  LifecycleSpec
  LeavesEmergencySafely
