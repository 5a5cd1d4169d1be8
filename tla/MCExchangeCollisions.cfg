\* Each page counts its orders from 1.
SPECIFICATION Spec
CONSTANTS
  Prices <- MCOnePrice
  Quantities <- MCQuantities
  Users <- MCUsers
  Senders <- MCUsers
  alice = alice
  bob = bob
  NoUser = NoUser
  Symbols = {AAPL}
  MaxOrders = 3
  MaxID = 2
  MaxStarts = 1
  OwnCounters = TRUE
INVARIANTS
  Conserved
PROPERTIES
  LeavesForAReason
  CallEnds
CHECK_DEADLOCK FALSE
