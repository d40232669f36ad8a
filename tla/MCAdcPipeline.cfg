SPECIFICATION FairSpec
CONSTANTS
  Slots = 2
  MaxBlocks = 4
INVARIANTS TypeOK TokenAccounting UnsentBlocksIntact SendsInOrder
PROPERTIES EveryBlockSent SlotComesFree CloseCompletes CancelEndsSession
CHECK_DEADLOCK FALSE
