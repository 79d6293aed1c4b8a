\* Chunks of four bytes that overlap by two, a pattern of two bytes; pages of
\* two bytes, three levels of two entries, registers of six bits.
CONSTANTS
  ChunkSize = 4
  Overlap = 2
  Width = 2
  Search <- MCSearch
  Mappings <- MCMappings
  Dumps <- MCDumps
  Requests <- MCRequests
  PageBits = 1
  Structure <- MCStructure
  MaxFrame = 15
  Register = 6
  MCReach = 6
  MCLength = 20
INIT Init
NEXT Next
INVARIANTS ScanFindsEachMatch SegmentsReadTheFile PagesAreArchitectural
