\* Two securities, a session without a user, the market is started twice.
SPECIFICATION Spec
CONSTANTS
  Prices <- MCPrices
  Quantities <- MCOddQuantities
  Users <- MCUsers
  Senders <- MCSenders
  alice = alice
  bob = bob
  NoUser = NoUser
  Symbols = {AAPL, GOOG}
  MaxOrders = 2
  MaxID = 3
  MaxStarts = 2
  OwnCounters = FALSE
INVARIANTS
  IndexCoversBook
  ThrowsForStrangersOnly
CHECK_DEADLOCK FALSE
