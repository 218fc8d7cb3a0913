SPECIFICATION FairSpec
CONSTANTS
  Jobs = {"scan"}
  MaxAttempts = 3
  MaxSheets = 2
  MayFail = {}
  Noise = {}
PROPERTIES
  CancelHandled
