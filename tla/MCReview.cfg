CONSTANTS
  Worker = {w1, w2}
  Gaps = {"complete", "worded", "wordless"}
  MaxPosts = 1
  MaxCrashes = 1
  MaxReviews = 2
SPECIFICATION ReviewSpec
SYMMETRY WorkerSymmetry
INVARIANTS TheBlockIsALetterOfItsOwn DraftedWasSaved
PROPERTIES ConfirmedIsClosed
CHECK_DEADLOCK FALSE
