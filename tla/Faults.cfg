SPECIFICATION Spec
CONSTANTS
  mag = mag
  vti = vti
  sweep = sweep
  series = series
  fill = fill
  VIs = {mag, vti}
  VIOrder <- MCVIOrder
  Concerned = {mag}
  Procedures = {sweep}
  Operations = {fill}
  NoRun = NoRun
  AnyVI = AnyVI
  Claims <- MCClaims
  InitTargets <- MCInitTargets
  InitStandby <- MCInitStandby
  StepTargets <- MCStepTargets
  StandbyTargets <- MCNoTargets
  StandbyParks <- MCParks
  InitGated = {}
  ReadGated = {}
  Stepped = {}
  Tolerates <- MCTolerates
  EnvFlags = {"quench"}
  CommVIs = {}
  Raisers = {mag}
  Drifters = {}
  MayRaise = TRUE
  HasEnvelope = TRUE
  PersistentVIs = {}
  Manual = {}
  QueueBound = 1
  GuiBound = 0
INVARIANTS
  RunIsMonitored
PROPERTIES
  RampScopeRespected
