CONSTANTS
  Worker = {w1}
  Gaps = {"complete", "worded"}
  MaxPosts = 2
  MaxCrashes = 0
  MaxReviews = 2
SPECIFICATION ReviewSpec
INVARIANTS AConfirmationIsTrue LetterFitsItsDecision
CHECK_DEADLOCK FALSE
