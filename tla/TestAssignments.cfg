\* Each node's assignments from create to the last bump.
CONSTANTS
  Chains <- GoodChains
  Vars = {"x", "y", "z"}
  Empty = Empty
  NoValue = NoValue
  MaxRuns = 9
SPECIFICATION Spec
INVARIANTS TypeOK AssignmentsIndexValues EachCombinationOnce
PROPERTY IterationEnds
\* The loop over a node's assignments ends once bump() returns true.
CHECK_DEADLOCK FALSE
