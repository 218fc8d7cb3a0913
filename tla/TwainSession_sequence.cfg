SPECIFICATION Spec
CONSTANTS
  Jobs = {"scan", "list"}
  Drivers <- MCObeying
  MaxSheets = 2
INVARIANTS
  TransitionsValid
