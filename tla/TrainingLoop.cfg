SPECIFICATION LoopSpec
CONSTANTS
  c1 = c1
  c2 = c2
  e1 = e1
  e2 = e2
  t1 = t1
  t2 = t2
  Correction <- Corrections
  Exporter <- Exporters
  Trainer <- Trainers
  Shipped = shipped
  NoAuthor = NoAuthor
SYMMETRY Interchangeable
INVARIANTS
  ModelsConsistent
  ReadsWholeExports
  SignalIsExact
CHECK_DEADLOCK FALSE
