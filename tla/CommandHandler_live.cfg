SPECIFICATION FairSpec
CONSTANTS
  s1 = s1
  s2 = s2
  c1 = c1
  l1 = l1
  p1 = p1
  k1 = k1
  k2 = k2
  n1 = n1
  Scans = {s1, s2}
  Cancels = {c1}
  Lists = {l1}
  Pings = {}
  Clients = {k1}
  ClientOf <- MCOneClient
  Names = {n1}
  HasSidecar = FALSE
  PipelineErrors <- MCTwoErrors
  NoScan = NoScan
  UnknownId = UnknownId
  QueueCapacity = 1
  MaxPages = 1
PROPERTIES
  ScanReleased
  ListAnswered
