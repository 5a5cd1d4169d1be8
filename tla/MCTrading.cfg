\* A page of alice, bots of both users.
SPECIFICATION TradingSpec
CONSTANTS
  alice = alice
  bob = bob
  NoUser = NoUser
  Users <- MCUsers
  Senders <- MCUsers
  Prices <- MCPrices
  Quantities <- MCQuantities
  Symbols = {AAPL}
  Pages <- MCOne
  UserOf <- MCUserOf
  Bots <- MCUsers
  PageMenu <- MCPageMenu
  BotMenu <- MCBotMenu
  MaxOrders = 3
  MaxID = 4
  MaxStarts = 1
  OwnCounters = FALSE
  MaxPastOrders = 1
  FirstBotID <- MCFirstBotID
  MaxPageOrders = 1
  MaxSessions = 3
  MaxInbox = 0
INVARIANTS
  TradingTypeOK
  TableTellsWhatRests
  FilledOncePerListing
  MoneyMirrorsLedger
  OrdersAreAnswered
CHECK_DEADLOCK FALSE
