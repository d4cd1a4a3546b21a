SPECIFICATION FairDeskSpec
CONSTANTS
  r1 = r1
  r2 = r2
  ann = ann
  bob = bob
  Nobody = Nobody
  NumTickets = 2
  HasOrder <- FirstTicket
  Run <- Slots
  Reviewer <- Reviewers
  MaxReruns = 2
  MaxCrashes = 1
INVARIANTS
  RunsAreSingle
  ReasonMatchesFlag
  ApprovesWhatWasSeen
  OneSignedAnswer
PROPERTY BoardKept
CHECK_DEADLOCK FALSE
