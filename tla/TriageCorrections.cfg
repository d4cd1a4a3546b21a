SPECIFICATION TurnSpec
CONSTANTS
  refund = refund
  delay = delay
  low = low
  high = high
  ann = ann
  bob = bob
  Null = Null
  Nobody = Nobody
  Category <- Categories
  Urgency <- Urgencies
  Reviewer <- Reviewers
  MaxPredictions = 3
SYMMETRY Symmetry
INVARIANTS Signed AgreesOnlyIfRelabelled ExportNamesItsModel
PROPERTY TakesEffect
