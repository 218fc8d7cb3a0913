SPECIFICATION Spec
CONSTANTS
  Jobs = {"scan"}
  MaxAttempts = 3
  MaxSheets = 2
  MayFail = {"device"}
  Noise = {}
INVARIANTS
  NoShortSuccess
