\* The claim of the comments at removeOrder, with colliding IDs.
SPECIFICATION Spec
CONSTANTS
  Prices <- MCPrices
  Quantities <- MCQuantities
  Users <- MCUsers
  Senders <- MCUsers
  alice = alice
  bob = bob
  NoUser = NoUser
  Symbols = {AAPL}
  MaxOrders = 2
  MaxID = 3
  MaxStarts = 1
  OwnCounters = TRUE
PROPERTY RemovedOnlyIfEmpty
CHECK_DEADLOCK FALSE
