SPECIFICATION FairQuietSpec
CONSTANTS
  ann = ann
  bob = bob
  w1 = w1
  w2 = w2
  w3 = w3
  faq = faq
  terms = terms
  NoText = NoText
  NumDocs = 4
  Content <- Texts
  Good <- OneText
  Admin <- OneAdmin
  Worker <- ThreeSlots
  MaxUploads = 2
  MaxFiles = 2
  MaxDeletes = 0
  MaxCrashes = 1
INVARIANT ProcessedOnce
PROPERTY Settles
CHECK_DEADLOCK FALSE
