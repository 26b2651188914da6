\* Each node's assignments from create to the last bump.
CONSTANTS
  Chains <- EmptyChains
  Vars = {"x", "y", "z"}
  Empty = Empty
  NoValue = NoValue
  MaxRuns = 9
SPECIFICATION Spec
INVARIANT AssignmentsIndexValues
\* The loop over a node's assignments ends once bump() returns true.
CHECK_DEADLOCK FALSE
