SPECIFICATION Spec
CONSTANTS
  s1 = s1
  s2 = s2
  s3 = s3
  s4 = s4
  s5 = s5
  State <- States
  Initial = s1
  Worker = {w1, w2, w3}
  Garbage = Garbage
  Capacity = 5
  Models <- Spaces
INVARIANTS TypeOK NothingLostWithoutRace TakenOnceWithoutRace
PROPERTIES ImplementsSearch Terminates
