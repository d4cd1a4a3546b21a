SPECIFICATION Spec
CONSTANTS
  ann = ann
  bob = bob
  w1 = w1
  w2 = w2
  w3 = w3
  faq = faq
  terms = terms
  NoText = NoText
  NumDocs = 2
  Content <- Texts
  Good <- OneText
  Admin <- Admins
  Worker <- ThreeSlots
  MaxUploads = 2
  MaxFiles = 1
  MaxDeletes = 1
  MaxCrashes = 1
SYMMETRY Symmetry
INVARIANTS ReadyIsIndexed DeletedIsGone
CHECK_DEADLOCK FALSE
