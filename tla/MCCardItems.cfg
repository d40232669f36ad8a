SPECIFICATION FairSpec
CONSTANTS
  r1 = r1
  Receivers = {r1}
  Registers = {"trigger", "directions"}
  Bits = {0, 1}
  Width <- MCWidth
  MaxTries = 2
  MaxItems = 2
  MaxSent = 3
INVARIANTS SettledOutputsCurrent
PROPERTIES BitItemsDoOneBit MessagesEnd
CHECK_DEADLOCK FALSE
