\* Scores below, at and above 0.4, 0.7, 0.875 and the 0.125 of a small gap;
\* rates on both sides of 0.20 and 0.30.  Structures of a Linux kernel,
\* and its symbols with lengths from 4 on in two bytes and a marker for every two.
CONSTANTS
  MCScore = {0, 399, 400, 700, 701, 824, 825, 826, 875, 876, 950, 1000}
  MCRate = {0, 200, 201, 300, 301, 1000}
  Nil = Nil
  IdrBits = 8
  IntSize = 4
  ChunkShift = 1
  IndexBits = 2
  LenBits = 2
  MarkerBits = 1
  KernelName = "kernel"
  PointerSize = 2
INIT Init
NEXT Next
INVARIANTS ScoresAndBands EvidenceIsRead KernelIsWalked SymbolsAreFound
CHECK_DEADLOCK FALSE
