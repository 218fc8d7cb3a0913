SPECIFICATION AgentSpec
CONSTANTS
  QueueCapacity = 1
  EventCapacity = 2
  WireCapacity = 1
  Scripts <- MCScripts
  MaxResponses = 3
  MaxEvents = 3
  MaxTicks = 1
INVARIANTS
  TypeOK
  EventsKept
PROPERTIES
  Reliable
  Released
  HandlerReturns
  CommandsRead
  AllDelivered
