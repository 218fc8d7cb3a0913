SPECIFICATION AgentSpec
CONSTANTS
  Backends = {"native"}
  Formats = {"image"}
  DeviceErrors = {"PaperJam"}
  QueueCapacity = 8
  PageChannelCapacity = 1
  MaxSheets = 3
  MaxFrames = 3
PROPERTIES
  CancelFreesScanner
