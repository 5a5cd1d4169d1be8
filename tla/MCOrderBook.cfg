\* Two prices, four orders of any kind, with a size that cannot be traded.
SPECIFICATION Spec
CONSTANTS
  Prices <- MCPrices
  Quantities <- MCQuantities
  MaxOrders = 4
INVARIANTS
  TypeOK
  Uncrossed
  QueuesMatchOrders
  InArrivalOrder
  FillsAddUp
  RemainingIsTrue
PROPERTIES
  KeepsPriority
  HandleOrderReturns
CHECK_DEADLOCK FALSE
