SPECIFICATION Spec
CONSTANTS
  s1 = s1
  s2 = s2
  c1 = c1
  l1 = l1
  p1 = p1
  k1 = k1
  k2 = k2
  n1 = n1
  Scans = {s1, s2}
  Cancels = {c1}
  Lists = {l1}
  Pings = {p1}
  Clients = {k1, k2}
  ClientOf <- MCClientOf
  Names = {n1}
  HasSidecar = TRUE
  PipelineErrors <- MCErrors
  NoScan = NoScan
  UnknownId = UnknownId
  QueueCapacity = 1
  MaxPages = 1
INVARIANTS
  TypeOK
  OneScanAtATime
  BusyOnlyWhileOwned
  RegistrationMatches
  AnsweredOnce
PROPERTIES
  CancelIsExact
