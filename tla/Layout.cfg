SPECIFICATION Spec
CONSTANTS
  Function = {f, g}
  RegisterSize = {1, 4, 8}
  MaxRegisters = 3
  MAX_THREADS = 2
INVARIANTS LeavesDisjoint VerdictWordIsPC
CHECK_DEADLOCK FALSE
