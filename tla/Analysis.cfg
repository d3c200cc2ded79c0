SPECIFICATION Spec
CONSTANTS
  PageSz = 8
  Images <- SomeImages
  Main <- OneMain
  JitMaps <- SomeMaps
  JitTexts <- Generated
  SymTab <- SomeSymbols
  Threads = {1, 2}
  MaxInst <- OneLongThread
  MaxTotal = 4
  MaxChanges = 1
  SzRange = 12
  Cores = {2}
  Limits <- TopTwo
CHECK_DEADLOCK FALSE
INVARIANTS
  FetchesWhatRan
  CallsAreSeen
  CoverageIsTrace
  HistogramIsExact
