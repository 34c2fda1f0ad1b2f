SPECIFICATION PartsSpec
CONSTANTS
  PageSize = 4
  Pages = 16
  Mantissa = 4
  Narrow = 6
  Shifts <- MCShifts
  SizeBits = 12
  Counts = {1, 3, 7}
  MaxSize = 2100
  DataOffset = 40
  Slots = 64
  SlabPageSize = 16384
  MaxShift = 19
  NVWord = 2048
  NVBase = 8
  NVHeader = 2
  NVSizeLists = 8
  NVPage = 64
  NVNewPages = 3
  ByteBits = 3
  InitBytes = 1
  GrowBytes = {1, 2}
  MaxBytes = 3
  Handler = {h1, h2, h3}
  Unknown = unknown
  ListHead = head
  Nil = nil
  Idle = idle
  MaxChanges = 6
  FootThreads = {t1, t2}
  FootNobody = nobody
  FootCalls = 5
INVARIANTS PageCountsRight SlabLayoutValid NVSizesCovered BitLoopsRight RingExact WalkComplete FootExact
PROPERTIES FaultOnlyInRace WalkEnds ImplementsHandlerList
CHECK_DEADLOCK FALSE
