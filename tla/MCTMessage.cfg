SPECIFICATION Spec
CONSTANTS
  MaxItems = 4
  TextLength = 1
INVARIANTS PositionsMatch AllItemsRun ErrorsShowInMId RejectedRunsNothing SoundAnsweredInFull
CHECK_DEADLOCK FALSE
