SPECIFICATION FairSpec
CONSTANTS
  Jobs = {"scan", "list"}
  MaxAttempts = 3
  MaxSheets = 3
  MayFail = {"spawn", "reader", "crash", "hang", "device", "decode"}
  Noise = {"error", "garbage", "binary"}
INVARIANTS
  TypeOK
  NoStraySidecar
  SuccessClosesScanner
  SuccessIsWhole
PROPERTIES
  JobEnds
