SPECIFICATION FairSpec
CONSTANTS
  r1 = r1
  r2 = r2
  ann = ann
  bob = bob
  Nobody = Nobody
  NumTickets = 1
  HasOrder <- FirstTicket
  Run <- Slots
  Reviewer <- OneReviewer
  MaxReruns = 1
  MaxCrashes = 1
INVARIANTS NoOrphan QueueFlagged ResolvedIsApproved
PROPERTY ReachesReview
CHECK_DEADLOCK FALSE
