SPECIFICATION FairSpec
CONSTANTS
  Jobs = {"scan", "list"}
  Drivers <- MCDrivers
  MaxSheets = 3
INVARIANTS
  TypeOK
  NeverAhead
  SuccessClosesSource
  NothingLeftOpen
PROPERTIES
  CancelEndsSession
