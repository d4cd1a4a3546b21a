SPECIFICATION Spec
CONSTANTS
  v = v
  w = w
  g = g
  Window = 2
  Limit = 2
  GroupLimit = 3
  Visitor <- Visitors
  Group <- Groups
  Horizon = 4
  Phrase <- Phrases
  Percent <- Percents
  Weight <- ClassWeightValues
  MinConfidence = 60
  Score <- GridScores
  Distance <- Distances
  Grain = 4
  Settings = 3
  Block <- BlockSet
  Blocks = 4
  Name <- Top
  Word <- Words
  BeginsToken <- Begins
  MaxTokens = 5
  Special = 1
  KeepDays = 2
  Days = 5
  MaxManual = 1
  acme = acme
  globex = globex
  api1 = api1
  api2 = api2
  script = script
  c1 = c1
  c2 = c2
  own = own
  r1 = r1
  r2 = r2
  None = None
  Tenant <- Tenants
  Session <- Sessions
  Script <- Scripts
  Connection <- Connections
  OwnerConnection <- Own
  Row <- Rows
INVARIANTS
  TypeOK
  LimitIsExact
  StakesAreFlagged
  TunedAsPromised
  SectionsCarryAll
  DumpsAsPromised
  TenantsApart
PROPERTY MoreIsNoLess
CHECK_DEADLOCK FALSE
