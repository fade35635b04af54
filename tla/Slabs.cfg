SPECIFICATION Spec
CONSTANTS
  Instance <- Instances
  SlabWords = 22
  Fresh = {0, 8}
  MaxElements = 5
INVARIANTS HeadersIntact EntriesInSlab DataIntactUnlessShorter FoundIsKnown
CHECK_DEADLOCK FALSE
