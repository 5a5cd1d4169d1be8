\* A comment's claim: ReconnectKeepsOrders.
SPECIFICATION TradingSpec
CONSTANTS
  alice = alice
  bob = bob
  NoUser = NoUser
  Users <- MCUsers
  Senders <- MCUsers
  Prices <- MCPrices
  Quantities <- MCQuantities
  Symbols = {AAPL}
  Pages <- MCOne
  UserOf <- MCUserOf
  Bots <- MCUsers
  PageMenu <- MCPageMenu
  BotMenu <- MCBotMenu
  MaxOrders = 3
  MaxID = 4
  MaxStarts = 1
  OwnCounters = FALSE
  MaxPastOrders = 1
  FirstBotID <- MCFirstBotID
  MaxPageOrders = 1
  MaxSessions = 3
  MaxInbox = 0
PROPERTY ReconnectKeepsOrders
CHECK_DEADLOCK FALSE
