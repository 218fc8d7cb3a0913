SPECIFICATION Spec
CONSTANTS
  Names = {"A", "B"}
  Numbers <- MCNumbers
  MaxChanges = 1
  Resolutions = {0, 300, 32767, 32768, 100000}
  MaxUnwilling = 2
  MaxWidth = 9
  MaxHeight = 3
  MaxPadding = 2
  Depths = {1, 8, 16, 24, 32}
  MaxPages = 3
  Sites <- MCSites
  Extras <- MCExtras
  Tokens <- MCTokens
  Programs = {"agent.log", "sidecar.log"}
  Keep = 2
  MaxDay = 4
INVARIANTS
  SourceAsMeant
  SettingsInForce
  PageExact
  DocumentSound
  AsConfigured
  TokenRoundTrip
  LogsKept
CHECK_DEADLOCK FALSE
