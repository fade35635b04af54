SPECIFICATION PhiSpec
CONSTANTS
  Reg = {r1, r2, r3, r4}
  Const = const
INVARIANTS AsIfAtOnce AllStoredIfOrdered
