CONSTANTS
  Writer = {w1, w2, w3}
  Payload = {p}
  MayTear = TRUE
  MaxEvents = 5
SPECIFICATION Spec
SYMMETRY WriterSymmetry
INVARIANT SharedSequenceBounded
CHECK_DEADLOCK FALSE
