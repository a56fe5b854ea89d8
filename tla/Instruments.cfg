SPECIFICATION InstrumentsSpec
CONSTANTS
  MaxCurrent = 2
  Segments = {1, 2}
  Fields <- MCFields
  Calls = {"ramp", "stop", "standby", "enable", "disable", "on", "off", "restart"}
  Spontaneous = TRUE
  Budget = 8
  LastChannel <- MCLastChannel
  RouteSpecs <- MCRouteSpecs
  ConfiguredPoles = 4
  NoRoute = NoRoute
  Methods = {"dcm", "del", "sep"}
  Kind <- MCKind
  SourceOf <- MCSourceOf
  Amps = {1, 2}
  Counts = {0, 5}
  ReadingsPerPoint = 2
  Averagings = {1, 2}
  MaxUnread = 2
  TopTemperature = 3
  LastAngle = 3
  BufferSize = 5
  MaxErrors = 3
INVARIANTS
  TensormeterIsSound
  HeatingIsBounded
PROPERTIES
  NeverQuenches
  HeaterDiscipline
  RampEnds
  RoutesAreExclusive
  SharedSourceIsSound
  RotationIsSound
  LevelIsDebounced
CHECK_DEADLOCK FALSE
