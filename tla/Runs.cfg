SPECIFICATION RunsSpec
CONSTANTS
  Numbers <- MCNumbers
  Extents = {1, 2}
  SweepEnds <- MCEnds
  SweepSteps = {1, 2, 3, 4}
  SweepCounts = {1, 2, 3, 4}
  MeasurementVIs <- MCMeasurementVIs
  ScannerVI = "sw"
  ReadingParams <- MCReadingParams
  Texts <- MCTexts
  Blank = 0
  NoValue = NoValue
  Present = {"magnet_z", "temperature_vti"}
  SweepKinds = {"field", "temperature", "time"}
  PointsBound = 2
  NoRun = NoRun
  RecordingBound = 4
  FillMagnets = {"mz"}
  FillLevels = {1, 2, 3}
  FillTarget = 2
  NoiseFloor = 0
  ZeroFieldWindow = 1
  CompleteWindow = 2
  MaxFillDuration = 4
  NoLevel = NoLevel
  StepOrder <- MCStepOrder
  RampStep = "warm_vti"
  WarmTarget = 2
  AccessSamples = 40
  MaxProcs = 3
  Experiments = {"e1", "e2", "e3"}
  RunIds = {"r0", "r1", "r2"}
  NewerRuns = {"r0"}
  Bounded = {"e1", "e3"}
  Newer = {"e3"}
  NoExperiment = NoExperiment
  NoRecord = NoRecord
  Torn = Torn
  NoRunId = NoRunId
  Folders = {"e1", "e2"}
  Users = {"u1", "u2"}
  Root = "root"
  Elsewhere = "elsewhere"
  NoFolder = "nofolder"
  NoAutosave = "nofile"
  Fills = {1, 2}
  Ops = {2, 3}
  MaxLines = 5
  RotateAt = 3
  ReadingsPolled = 5
  Levels = {1, 3}
  RawInterval = 2
  BucketLength = 2
  Days <- MCDays
  Backups <- MCBackups
  CheckWindow = 3
  RateLimit = 1
  RangeLimit = 1
  StdLimit = 0
  PersistedLines = 2
  TrendHorizon = 5
INVARIANTS
  RulesAgree
  FillIsSound
  QueuesAgree
  EnvelopeInForce
  FormFollows
  LogKeepsEntries
  RecorderIsConsistent
  TrendsAreExact
PROPERTIES
  FileIsAsAsked
  AccessIsRecorded
  RecordsAreConsistent
CHECK_DEADLOCK FALSE
