SPECIFICATION Spec
CONSTANTS
  w1 = w1
  w2 = w2
  Client <- Clients
  Types = 3
  Byte = {b0, b1}
  MaxLen = 3
  Null = Null
  Loads <- Workloads
INVARIANT FindSucceeds
PROPERTY ImplementsInterning
