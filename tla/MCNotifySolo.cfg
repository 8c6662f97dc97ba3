CONSTANTS
  Worker = {w1}
  Template = {"receipt", "receipt2", "status"}
  NoTemplate = NoTemplate
  Configs <- BothTemplates
  MaxTriggers = 3
  MaxCrashes = 2
  MaxEvents = 12
SPECIFICATION FairSpec
PROPERTIES ImplementsDispatch EveryOwedIsRecorded
CHECK_DEADLOCK FALSE
