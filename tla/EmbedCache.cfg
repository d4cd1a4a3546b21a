SPECIFICATION Spec
CONSTANTS
  s1 = s1
  s2 = s2
  n1 = n1
  a = a
  b = b
  x = x
  y = y
  search = search
  r1 = r1
  r2 = r2
  Section <- Sections2
  Single <- Singles
  Title <- Titles
  Content <- Contents
  Query <- Queries
  Request <- Requests
  CacheMax = 2
  Batch = 2
INVARIANT EmbedsEveryText
CHECK_DEADLOCK FALSE
