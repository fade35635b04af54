SPECIFICATION Spec
CONSTANTS
  AssumeNonAtomicCollapsable = FALSE
  MaxThreads = 4
  NumRegs = 6
  PtrBase = 16
  MemWords = 8
  MaxTid = 5
  Modules <- ThreadModules
INVARIANTS TypeOK LiveTidsUnique ResultOnlyAfterEnd PointersBelowMsize
           ResultsCorrect SequentiallyConsistent UpdatesNotLost
PROPERTIES ResultsFinal OthersUntouched ImplementsPThreads
