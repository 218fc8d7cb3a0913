SPECIFICATION AgentSpec
CONSTANTS
  Backends = {"native", "sidecar"}
  Formats = {"image", "pdf"}
  DeviceErrors = {"PaperJam", "Sidecar"}
  QueueCapacity = 2
  PageChannelCapacity = 1
  MaxSheets = 3
  MaxFrames = 2
INVARIANTS
  TypeOK
  FramesMatch
  CompleteMeansAll
  ProcessingMeansScanned
PROPERTIES
  Promise
  CancelEndsPipeline
  ProducerReleased
  EveryScanTold
