SPECIFICATION Spec
CONSTANTS
  Absent = Absent
  Contents <- MCContents
  Requests <- MCRequests
  Registry <- MCRegistry
  FirstChains <- MCFirstChains
  MaxBlocks = 4
  MaxDepth = 2
  Decompressed <- MCDecompressed
  Outputs <- MCOutputs
  MaxDecompressed = 70
  MinJournal = 4
  MaxJournal = 12
  TableElements = 2
  TableSteps = 2
  ArrayLimit = 4
  DecodeRaw <- DecodeRawValue
  Utf8 <- MCUtf8
INVARIANTS
  BlocksAskedForAreReported
  ProofsAreReadAsWritten
PROPERTIES
  EveryRequestCounts
CHECK_DEADLOCK FALSE
