SPECIFICATION Spec
CONSTANTS
  Alignment = 2
  Radix = 2
  MemBytes = 8
  Size = {1, 2, 3}
  MaxObjects = 3
  NewVal <- newVal
INVARIANTS ObjectsIntact RMWAsCommented
