\* One row comes or goes during the walk.
CONSTANTS
  Rows <- MCRows
  Keys <- MCKeys
  PageSizes <- MCPageSizes
  MaxWrites = 1
SPECIFICATION Spec
INVARIANTS OnlyMatching Consecutive HonestEnd
