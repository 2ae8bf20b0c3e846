SPECIFICATION Spec
CONSTANTS
  Materialize = 2
  ArrayCap = 5
  StringCap = 4
  CountCap = 4
  Depth = 4
  Ids = {"p", "b"}
  Preseed = "p"
  Files = {"m.gguf", "m.bin"}
  FileOf <- MCFileOf
  PartOf <- MCPartOf
  Image <- MCImage
  HeaderLen <- MCHeaderLen
  HeaderKv <- MCHeaderKv
  ReadHeader <- FromFile
  LoadFits <- Admits
  NCtx = 2
  NBatch = 1
  UsableRam = 400000
  Cuts <- MCCuts
  Threads = {1, 2}
  Inodes = 2
  Opens = 2
  Restarts = 1
  InFlight = 1
  Asked = {"b"}
  Probed = {"m.gguf"}
INVARIANTS FinalFileIsWhole HeaderDecides CacheExact OrphanOnlyByRace
CHECK_DEADLOCK FALSE
