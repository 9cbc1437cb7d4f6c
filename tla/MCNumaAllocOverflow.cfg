CONSTANTS
  Threads = {t1, t2}
  Slots = {1}
  MapIds = {m1, m2, m3}
  NULL = NULL
  NoThread = NoThread
  NumaAvailable = TRUE
  NumaMaxNode = 1
  CpuToNode <- MCCpuToNode
  SchedCpus <- MCSchedCpus
  SIZE_CLASS_SIZES <- MCClasses
  HEADER_SIZE = 2
  HUGE_PAGE_SIZE = 16
  PAGE_SIZE = 8
  REFILL_BATCH_SIZE = 2
  PoolSize = 20
  SizeBits = 5
  Requests = {2, 31}
  CallocArgs <- MCCallocArgs
  MaxInits = 1
  ArenaCallocFails = FALSE
  StatBits = 0
SYMMETRY Symm
SPECIFICATION Spec
INVARIANT CapacityCoversRequest
