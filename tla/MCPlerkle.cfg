CONSTANTS
  Configs <- MCConfigs
  Transactions <- MCTransactions
  AccountUpdates <- MCAccountUpdates
  SlotUpdates <- MCSlotUpdates
  Blocks <- MCBlocks
  Capacity = 1
  MAXLEN = 1
  MaxLoads = 2
  MaxNotices = 2
  MaxFaults = 2
SPECIFICATION Spec
INVARIANT TypeOK
PROPERTIES ImplementsDelivery LossesHaveCause TransactionsLeave
CHECK_DEADLOCK FALSE
