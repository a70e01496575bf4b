SPECIFICATION FairSpec
CONSTANTS
  x = x
  y = y
  i = i
  Content = {x, y}
  Insight = {i}
  Category <- Categories
  Restating <- Same
  Updating <- Changed
  Limit = 3
  McpOps <- BothTools
  Faults = TRUE
  MaxFacts = 3
  MaxOps = 3
CHECK_DEADLOCK FALSE
INVARIANTS
  TypeOK
  GateNotRaced
PROPERTIES
  SupersededOnce
  WritersLeave
