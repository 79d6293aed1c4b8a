\* README.md:187 promises exact process trees.
CONSTANTS
  MCScore = {0}
  MCRate = {0}
  Nil = Nil
  IdrBits = 8
  IntSize = 4
  ChunkShift = 1
  IndexBits = 2
  LenBits = 2
  MarkerBits = 1
  KernelName = "kernel"
  PointerSize = 2
INIT Init
NEXT Next
INVARIANTS ListedProcessIsFound
CHECK_DEADLOCK FALSE
