SPECIFICATION FairSpec
CONSTANTS
  dc = dc
  delta = delta
  switch = switch
  source = source
  meter = meter
  scan = scan
  VIs = {dc, delta, switch}
  Drivers = {source, meter, scan}
  Needs <- MCNeeds
  Polled <- MCPolled
  Switches = {switch}
  NoScanner = NoScanner
  Claims <- MCClaims
  MaxErrors = 2
INVARIANTS
  TypeOK
  LiveSessionsCurrent
  ReleasedIsFree
PROPERTIES
  ClaimedVIKept
  ConnectRecovers
