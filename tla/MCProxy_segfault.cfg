SPECIFICATION Spec
CONSTANTS
  u1 = u1
  u2 = u2
  NoUrl = NoUrl
  Urls = {u1}
  MaxFd = 4
  MaxClients = 3
  MaxUnits = 1
  ChunkSize = 1
  RecvMax = 1
  MemoryFails = FALSE
INVARIANT NoSegfault
