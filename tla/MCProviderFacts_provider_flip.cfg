SPECIFICATION Spec
CONSTANTS
  x = x
  y = y
  i = i
  Content = {x, y}
  Insight = {i}
  Category <- Categories
  Restating <- Same
  Updating <- Changed
  Limit = 3
  McpOps <- AddOnly
  Faults = FALSE
  MaxFacts = 3
  MaxOps = 3
CHECK_DEADLOCK FALSE
INVARIANTS
  CurrentValueKept
