CONSTANTS
  Worker = {w1, w2}
  Template = {"receipt", "receipt2", "status"}
  NoTemplate = NoTemplate
  Configs <- BothTemplates
  MaxTriggers = 2
  MaxCrashes = 1
  MaxEvents = 12
SPECIFICATION Spec
SYMMETRY WorkerSymmetry
INVARIANTS RecordedWasDelivered CopiesBounded
CHECK_DEADLOCK FALSE
