SPECIFICATION Spec
CONSTANTS
  mag = mag
  vti = vti
  sweep = sweep
  series = series
  fill = fill
  VIs = {mag, vti}
  VIOrder <- MCVIOrder
  Concerned = {mag}
  Procedures = {sweep}
  Operations = {fill}
  NoRun = NoRun
  AnyVI = AnyVI
  Claims <- MCClaims
  InitTargets <- MCInitTargets
  InitStandby <- MCInitStandby
  StepTargets <- MCStepTargets
  StandbyTargets <- MCStandbyTargets
  StandbyParks <- MCNoParks
  InitGated = {}
  ReadGated = {}
  Stepped = {}
  Tolerates <- MCTolerates
  EnvFlags = {"helium_low"}
  CommVIs = {mag}
  Raisers = {}
  Drifters = {}
  MayRaise = FALSE
  HasEnvelope = FALSE
  PersistentVIs = {}
  Manual = {}
  QueueBound = 0
  GuiBound = 0
INVARIANTS
  TypeOK
  HoldsEnforced
  NoStepUnderVerdict
PROPERTIES
  QueueWaitsAfterFailure
