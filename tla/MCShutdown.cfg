SPECIFICATION FairSpec
CONSTANTS
  MaxItems = 2
  MaxHellos = 1
  LateStart = FALSE
INVARIANTS MessagesAtRest
PROPERTIES SignalEndsServer
CHECK_DEADLOCK FALSE
