SPECIFICATION SweepSpec
CONSTANTS
  mag = mag
  vti = vti
  sweep = sweep
  series = series
  fill = fill
  VIs = {mag, vti}
  VIOrder <- MCVIOrder
  Concerned = {mag}
  Procedures = {sweep}
  Operations = {fill}
  NoRun = NoRun
  AnyVI = AnyVI
  Claims <- MCWarmClaims
  InitTargets <- MCWarmInitTargets
  InitStandby <- MCWarmInitStandby
  StepTargets <- MCStepTargets
  StandbyTargets <- MCNoTargets
  StandbyParks <- MCParks
  InitGated = {sweep, fill}
  ReadGated = {fill}
  Stepped = {fill}
  Tolerates <- MCTolerates
  EnvFlags = {}
  CommVIs = {}
  Raisers = {}
  Drifters = {}
  MayRaise = FALSE
  HasEnvelope = FALSE
  PersistentVIs = {}
  Manual = {"standby"}
  QueueBound = 0
  GuiBound = 2
PROPERTIES
  FinishEndsOperation
  RunEnds
  ActionsDrained
