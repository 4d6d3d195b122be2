CONSTANTS
  client1 = client1
  client2 = client2
  garbled = garbled
  Garbled = garbled
  Clients <- MCClients
  Window = 2
  DefaultListen <- MCDefaultListen
  DefaultUpstream <- MCDefaultUpstream
  DefaultRateLimit = 6
  DefaultMemoryLimit = 8
  DefaultLimits <- MCDefaultLimits
  Versions = {"4", "20250514"}
  MaxShapeDepth = 3
  Size <- MCSize
  Compressible <- MCCompressible
  Typed <- MCTyped
  Fails <- MCFails
  NoteSize = 8
  ProbeCache = 2
  ProbeTimeout = 2
  MinSamples = 2
  Workloads <- MCWorkloads
SPECIFICATION Spec
SYMMETRY Symmetry
INVARIANTS
  NeverItself
CHECK_DEADLOCK FALSE
