SPECIFICATION Spec
CONSTANTS
  ann = ann
  bob = bob
  carol = carol
  s1 = s1
  s2 = s2
  Operator = Operator
  Keep = Keep
  Person <- People
  FirstAdmin <- Admins
  Slot <- Slots
  Second = 4
  MaxRequests = 2
  MaxSignIns = 2
SYMMETRY Symmetry
INVARIANTS SessionsConsistent AdminRemains
PROPERTY GrantsAreAsked
CHECK_DEADLOCK FALSE
