CONSTANTS
  Worker = {w1}
  Gaps = {"complete", "worded", "wordless"}
  MaxPosts = 2
  MaxCrashes = 2
SPECIFICATION FairSpec
PROPERTIES ImplementsDispatch EveryOwedIsRecorded
CHECK_DEADLOCK FALSE
