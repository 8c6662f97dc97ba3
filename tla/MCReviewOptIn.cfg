CONSTANTS
  Worker = {w1}
  Gaps = {"complete", "worded", "wordless"}
  MaxPosts = 1
  MaxCrashes = 0
  MaxReviews = 2
SPECIFICATION ReviewSpec
INVARIANTS BlockIsOptIn
CHECK_DEADLOCK FALSE
