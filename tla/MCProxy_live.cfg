SPECIFICATION FairSpec
CONSTANTS
  u1 = u1
  u2 = u2
  NoUrl = NoUrl
  Urls = {u1}
  MaxFd = 3
  MaxClients = 3
  MaxUnits = 2
  ChunkSize = 1
  RecvMax = 1
  MemoryFails = FALSE
PROPERTIES
  FinishedLeaves
  ReaderFinishes
  HeirCatchesUp
