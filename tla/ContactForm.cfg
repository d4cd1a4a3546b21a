SPECIFICATION Spec
CONSTANTS
  ann = ann
  Ann = Ann
  bob = bob
  Spelling <- Spellings
  Lower <- Lowered
  MaxMessages = 2
  MaxScripts = 2
INVARIANTS
  CustomersConsistent
  LostOnlyIfCrossed
PROPERTY MessagesAnswered
CHECK_DEADLOCK FALSE
