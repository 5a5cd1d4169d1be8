\* Order IDs are unique, every sender is registered, the market is started
\* twice.
SPECIFICATION Spec
SYMMETRY MCSymmetry
CONSTANTS
  Prices <- MCPrices
  Quantities <- MCQuantities
  Users <- MCUsers
  Senders <- MCUsers
  alice = alice
  bob = bob
  NoUser = NoUser
  Symbols = {AAPL}
  MaxOrders = 3
  MaxID = 3
  MaxStarts = 2
  OwnCounters = FALSE
INVARIANTS
  TypeOK
  Conserved
  IndexCoversBook
  IndexHasNoFilledOrder
  LastMessageIsTrue
PROPERTIES
  BuyersPaySellers
  ConfirmationsTellWhatIsPaid
CHECK_DEADLOCK FALSE
