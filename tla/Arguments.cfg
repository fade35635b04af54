SPECIFICATION Spec
CONSTANTS
  AssumeNonAtomicCollapsable = FALSE
  MaxThreads = 2
  NumRegs = 6
  PtrBase = 16
  MemWords = 8
  MaxTid = 5
  Modules <- ExchangeOnly
PROPERTIES ArgumentsPassed
