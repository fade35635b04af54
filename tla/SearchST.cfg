SPECIFICATION Spec
CONSTANTS
  State = {s1, s2, s3}
  Initial = s1
  MaxTransitions = 2
INVARIANTS TypeOK BreadthFirst TransitionsCounted
PROPERTIES ImplementsExploration Complete
