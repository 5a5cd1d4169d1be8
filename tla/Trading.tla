------------------------------ MODULE Trading ------------------------------
(***************************************************************************)
(* Orders from the page to the exchange and back: the pages (WebPage),     *)
(* their connections, the handlers of Server.java for new_user, order and  *)
(* cancel, the exchange (Exchange), and the session lists that say who is  *)
(* told (ClientManager).                                                   *)
(*                                                                         *)
(* A page opens a session, may lose it and open another; it sends through  *)
(* a queue that the server reads in order, and receives through another.   *)
(* Every connection makes a Server object, whose constructor replaces the  *)
(* static exchange: books and index are empty then.  The ledger is not     *)
(* part of the exchange and stays.                                         *)
(*                                                                         *)
(* A bot is an algo a user started by hand.  What it knows is left out: it *)
(* sends any order, and cancels whatever an ID leads to, as nothing asks   *)
(* whose order that is.                                                    *)
(*                                                                         *)
(* Handlers of messages run one at a time, each to its end.                *)
(***************************************************************************)
EXTENDS Exchange, WebPage

CONSTANTS
  Pages,          \* browser windows
  UserOf,         \* UserOf[p]: the user whose page p is
  Bots,           \* the users who start a bot
  FirstBotID,     \* FirstBotID[u]: where the user's bot starts to count its
                  \* orders, the ID of the algo times 1000000 (algo-footer.py)
  PageMenu,       \* orders a page may send
  BotMenu,        \* orders a bot may send
  MaxPageOrders,  \* bound on the order IDs a page uses up
  MaxSessions,    \* bound on the sessions of a behaviour
  MaxInbox        \* a bot cancels, or orders what is not traded, when no page
                  \* has more messages waiting

ASSUME SendersAreUsers         == Users \subseteq Senders
ASSUME UserOfAssumption        == UserOf \in [Pages -> Users]
ASSUME BotsAssumption          == Bots \subseteq Users
ASSUME FirstBotIDAssumption    == FirstBotID \in [Bots -> Nat \ {0}]
ASSUME MenuAssumption          == PageMenu \subseteq Orders /\ BotMenu \subseteq Orders
ASSUME MaxPageOrdersAssumption == MaxPageOrders \in 0..MaxID
ASSUME MaxSessionsAssumption   == MaxSessions \in Nat
ASSUME MaxInboxAssumption      == MaxInbox \in Nat

VARIABLES
  page,       \* page[p]: the variables of the page's scripts
  session,    \* session[p]: the open session of the page, or NoSession
  outbox,     \* outbox[p]: what the page sent and the server has not read
  inbox,      \* inbox[p]: what was sent to the page and it has not handled
  opened,     \* number of sessions opened so far
  botID,      \* botID[u]: the next order ID of the user's bot, 0 before it runs
  handling,   \* a handler has called the exchange and not sent the responses
  joined,     \* joined[p]: the page's order counter when it opened its session,
              \* the user's money and the number of orders when it registered,
              \* the IDs of its orders that the server could not parse
  since,      \* number of orders when the books were last replaced
  takenAway,  \* orders that a cancel of another user took out of their book
  users, nameOf, sessionIDs, nonAlgoSessionIDs, algoSessionIDs  \* ClientManager

Clients == INSTANCE ClientManager WITH Algos <- {1}

exchangeVars == <<bookVars, ledgerVars, envVars, orders, phase, taker, trades,
                  responses, thrown>>
clientVars   == <<users, nameOf, sessionIDs, nonAlgoSessionIDs, algoSessionIDs>>
webVars      == <<page, inbox>>
tradingVars  == <<exchangeVars, clientVars, webVars, session, outbox, opened,
                  botID, handling, joined, since, takenAway>>

NoSession == 0

\* No handler runs.
Idle == phase = "idle" /\ ~handling

-----------------------------------------------------------------------------
TradingInit ==
  /\ Init
  /\ Clients!InitClients
  /\ page = [p \in Pages |-> NewPage]
  /\ session = [p \in Pages |-> NoSession]
  /\ outbox = [p \in Pages |-> << >>]
  /\ inbox = [p \in Pages |-> << >>]
  /\ opened = 0
  /\ botID = [u \in Users |-> 0]
  /\ handling = FALSE
  /\ joined = [p \in Pages |->
               [firstID |-> 1, money |-> 0, orders |-> 0, dropped |-> {}]]
  /\ since = 0
  /\ takenAway = {}

-----------------------------------------------------------------------------
(* Connections *)

\* The constructor of Server.
NewServer ==
  /\ orders' = << >>
  /\ book' = [symbol \in Symbols |-> {}]
  /\ listed' = {}
  /\ since' = Len(placed)

\* A page that has no session opens one and sends new_user.  It may be loaded
\* again before.
Open(p) ==
  /\ Idle
  /\ session[p] = NoSession
  /\ opened < MaxSessions
  /\ opened' = opened + 1
  /\ session' = [session EXCEPT ![p] = opened + 1]
  /\ outbox' = [outbox EXCEPT ![p] = <<[kind |-> "new_user"]>>]
  /\ \E pg \in {page[p], NewPage} :
       /\ page' = [page EXCEPT ![p] = pg]
       /\ joined' = [joined EXCEPT ![p].firstID = pg.nextID, ![p].dropped = {}]
  /\ NewServer
  /\ UNCHANGED <<placed, qty, ledgerVars, nextID, starts, phase, taker, trades,
                 responses, thrown, clientVars, inbox, botID, handling,
                 takenAway>>

\* A bot of the user connects and registers as an algo; bots are started
\* before the first order (a bound).
OpenBot(u) ==
  /\ Idle
  /\ placed = << >>
  /\ botID[u] = 0
  /\ opened < MaxSessions
  /\ opened' = opened + 1
  /\ botID' = [botID EXCEPT ![u] = FirstBotID[u]]
  /\ Clients!RegisterAlgo(opened + 1, u, 1)
  /\ NewServer
  /\ UNCHANGED <<placed, qty, ledgerVars, nextID, starts, phase, taker, trades,
                 responses, thrown, webVars, session, outbox, handling, joined,
                 takenAway>>

\* The session of a page closes; what is on its way in either direction is
\* lost.  onClose unregisters it.
Close(p) ==
  /\ Idle
  /\ session[p] # NoSession
  /\ Clients!RemoveSessionID(session[p])
  /\ session' = [session EXCEPT ![p] = NoSession]
  /\ outbox' = [outbox EXCEPT ![p] = << >>]
  /\ inbox' = [inbox EXCEPT ![p] = << >>]
  /\ UNCHANGED <<exchangeVars, page, opened, botID, handling, joined, since,
                 takenAway>>

\* "start" of the administrator.
StartMarket ==
  /\ Idle
  /\ Start
  /\ since' = Len(placed)
  /\ UNCHANGED <<clientVars, webVars, session, outbox, opened, botID, handling,
                 joined, takenAway>>

\* The feed sends the quotes of a security.  Pages that know the security only
\* show other prices, so the quote is left out for them.
Quote(symbol) ==
  LET wants(p) == /\ session[p] # NoSession
                  /\ symbol \notin page[p].quoted
                  /\ \A i \in 1..Len(inbox[p]) :
                       inbox[p][i] # [kind |-> "quote", symbol |-> symbol]
  IN /\ Idle
     /\ starts > 0
     /\ \E p \in Pages : wants(p)
     /\ inbox' = [p \in Pages |->
                    IF wants(p) THEN Append(inbox[p], [kind |-> "quote", symbol |-> symbol])
                    ELSE inbox[p]]
     /\ UNCHANGED <<exchangeVars, clientVars, page, session, outbox, opened,
                    botID, handling, joined, since, takenAway>>

-----------------------------------------------------------------------------
(* Pages and bots *)

\* Orders sent and not refused, for the bound on orders.
Sent == Len(placed) + MapThenSumSet(LAMBDA p :
          Cardinality({i \in 1..Len(outbox[p]) : outbox[p][i].kind = "order"}), Pages)

\* sendOrder.  The button is in the row of a security, so there was a quote.
\* The quantity is sent as it was typed; its field is empty at first.  What the
\* page shows as remaining of a quantity that does not parse is left out: the
\* page reads it nowhere.
PageOrders(p, order) ==
  /\ Idle
  /\ session[p] # NoSession
  /\ page[p].nextID <= MaxPageOrders
  /\ Sent < MaxOrders
  /\ \E symbol \in page[p].quoted, parses \in BOOLEAN :
       outbox' = [outbox EXCEPT ![p] =
         Append(@, [kind |-> "order", symbol |-> symbol, order |-> order,
                    id |-> page[p].nextID, parses |-> parses])]
  /\ page' = [page EXCEPT ![p] = SendOrder(@, order.size)]
  /\ UNCHANGED <<exchangeVars, clientVars, inbox, session, opened, botID,
                 handling, joined, since, takenAway>>

\* sendOrder over a connection that is closed: what is sent is lost, the order
\* is entered all the same.
PageOrdersOffline(p, order) ==
  /\ Idle
  /\ session[p] = NoSession
  /\ page[p].nextID <= MaxPageOrders
  /\ page[p].quoted # {}
  /\ page' = [page EXCEPT ![p] = SendOrder(@, order.size)]
  /\ UNCHANGED <<exchangeVars, clientVars, inbox, session, outbox, opened,
                 botID, handling, joined, since, takenAway>>

\* sendOrder without a price.
PageOrdersNothing(p) ==
  /\ Idle
  /\ page[p].nextID <= MaxPageOrders
  /\ page[p].quoted # {}
  /\ page' = [page EXCEPT ![p] = SendInvalid(@)]
  /\ UNCHANGED <<exchangeVars, clientVars, inbox, session, outbox, opened,
                 botID, handling, joined, since, takenAway>>

\* What messageHandler makes of the page, by the type of the message.
Handled(pg, msg) ==
  CASE msg.kind = "new_user" -> HandleNewUser(pg, msg.money)
    [] msg.kind = "quote"    -> HandleQuote(pg, msg.symbol)
    [] msg.kind = "order"    -> HandleOrder(pg, msg.response)
    [] msg.kind = "cancel"   -> HandleCancel(pg, msg.response)

\* messageHandler
Receive(p) ==
  /\ Idle
  /\ inbox[p] # << >>
  /\ page' = [page EXCEPT ![p] = Handled(@, Head(inbox[p]))]
  /\ inbox' = [inbox EXCEPT ![p] = Tail(@)]
  /\ UNCHANGED <<exchangeVars, clientVars, session, outbox, opened, botID,
                 handling, joined, since, takenAway>>

\* an order for a security that does not exist is dropped
BadPlace(user, order, symbol, id) ==
  /\ IF symbol \in listed
     THEN AcceptOrder(user, order, symbol, id)
     ELSE Idle /\ UNCHANGED <<bookVars, ledgerVars, orders, phase, taker, trades,
                              responses, thrown>>
  /\ handling' = TRUE
  /\ UNCHANGED envVars

\* An order of a user reaches the exchange.
Place(user, order, symbol, id) ==
  /\ IF symbol \in listed
     THEN AcceptOrder(user, order, symbol, id)
     ELSE RejectOrder(user, order, symbol, id)
  /\ handling' = TRUE
  /\ UNCHANGED envVars

InboxesAreShort == \A p \in Pages : Len(inbox[p]) <= MaxInbox

\* A bot orders; nothing of it is modelled that could tell when, or what for.
\* Its quantity is an integer (algo-header.py).
BotOrders(u, order) ==
  /\ Idle
  /\ botID[u] \in OrderIDs
  /\ Sent < MaxOrders
  /\ \E symbol \in Symbols :
       /\ symbol \in listed \/ InboxesAreShort
       /\ Place(u, order, symbol, botID[u])
  /\ botID' = [botID EXCEPT ![u] = @ + 1]
  /\ UNCHANGED <<clientVars, webVars, session, outbox, opened, joined, since,
                 takenAway>>

\* Orders of other users that a step takes out of their book.
TakenFrom(others) == {o \in others : o \in book[placed[o].symbol]
                                   /\ o \notin book'[placed[o].symbol]}

\* A bot cancels under any ID.  cancelOrder looks the order up by the ID alone,
\* and handleCancel tells the sessions of the user who cancels.
BotCancels(u, id) ==
  /\ Idle
  /\ botID[u] # 0
  /\ InboxesAreShort
  /\ CancelOrder(u, id)
  /\ handling' = TRUE
  /\ takenAway' = takenAway \cup TakenFrom({o \in Ids : placed[o].user # u})
  /\ UNCHANGED <<clientVars, webVars, session, outbox, opened, botID, joined, since>>

-----------------------------------------------------------------------------
(* The handlers of the server *)

\* handleNewUser: the page is registered and told its money.  The bot is not
\* a process of the server, which kills only those.
ServeNewUser(p) ==
  /\ Idle
  /\ outbox[p] # << >>
  /\ Head(outbox[p]).kind = "new_user"
  /\ outbox' = [outbox EXCEPT ![p] = Tail(@)]
  /\ Clients!RegisterPage(session[p], UserOf[p])
  /\ inbox' = [inbox EXCEPT ![p] =
       Append(@, [kind |-> "new_user", money |-> money[UserOf[p]]])]
  /\ joined' = [joined EXCEPT ![p] =
       [@ EXCEPT !.money = money[UserOf[p]], !.orders = Len(placed)]]
  /\ UNCHANGED <<exchangeVars, page, session, opened, botID, handling, since,
                 takenAway>>

\* handleOrder calls placeOrder for the user of the session.
ServeOrder(p) ==
  /\ Idle
  /\ outbox[p] # << >>
  /\ LET request == Head(outbox[p])
     IN /\ request.kind = "order"
        /\ request.parses
        /\ Place(nameOf[session[p]], request.order, request.symbol, request.id)
  /\ outbox' = [outbox EXCEPT ![p] = Tail(@)]
  /\ UNCHANGED <<clientVars, webVars, session, opened, botID, joined, since,
                 takenAway>>

\* handleOrder throws at a quantity that is no integer, before it calls the
\* exchange: nothing is sent, and the session stays open.
ServeOrderThrows(p) ==
  /\ Idle
  /\ outbox[p] # << >>
  /\ LET request == Head(outbox[p])
     IN /\ request.kind = "order"
        /\ ~request.parses
        /\ joined' = [joined EXCEPT ![p].dropped = @ \cup {request.id}]
  /\ outbox' = [outbox EXCEPT ![p] = Tail(@)]
  /\ UNCHANGED <<exchangeVars, clientVars, webVars, session, opened, botID,
                 handling, since, takenAway>>

\* placeOrder goes on.
ExchangeStep ==
  /\ CallStep
  /\ UNCHANGED <<clientVars, webVars, session, outbox, opened, botID, handling,
                 joined, since, takenAway>>

\* How often a session is listed for a user.
Listings(s, user) == {i \in 1..Len(sessionIDs[user]) : sessionIDs[user][i] = s}

\* a page is sent one copy, however often its session is listed
BadCopies(p, response) ==
  IF session[p] # NoSession /\ response.user = UserOf[p] THEN 1 ELSE 0

\* How many copies of a response page p is sent: one for each time its session
\* is listed for the user.
Copies(p, response) ==
  IF session[p] = NoSession THEN 0 ELSE Cardinality(Listings(session[p], response.user))

Packed(response) ==
  [kind |-> IF "success" \in DOMAIN response THEN "cancel" ELSE "order",
   response |-> response]

\* The loops of handleOrder and handleCancel that send the responses.  After
\* an exception there is nothing to send.
SendResponses ==
  /\ handling
  /\ phase = "idle"
  /\ inbox' = [p \in Pages |-> inbox[p] \o
       FlattenSeq([i \in 1..Len(responses) |->
         [copy \in 1..Copies(p, responses[i]) |-> Packed(responses[i])]])]
  /\ handling' = FALSE
  /\ responses' = << >>
  /\ UNCHANGED <<bookVars, ledgerVars, envVars, orders, phase, taker, trades,
                 thrown, clientVars, page, session, outbox, opened, botID,
                 joined, since, takenAway>>

-----------------------------------------------------------------------------
TradingNext ==
  \/ \E p \in Pages :
       \/ Open(p) \/ Close(p)
       \/ PageOrdersNothing(p)
       \/ \E order \in PageMenu : PageOrders(p, order) \/ PageOrdersOffline(p, order)
       \/ ServeNewUser(p) \/ ServeOrder(p) \/ ServeOrderThrows(p)
       \/ Receive(p)
  \/ \E u \in Bots :
       \/ OpenBot(u)
       \/ \E order \in BotMenu : BotOrders(u, order)
       \/ \E id \in OrderIDs : BotCancels(u, id)
  \/ StartMarket
  \/ \E symbol \in Symbols : Quote(symbol)
  \/ ExchangeStep
  \/ SendResponses

TradingSpec == TradingInit /\ [][TradingNext]_tradingVars

-----------------------------------------------------------------------------
(* Properties *)

Entry == [filled : Nat, remaining : Int, row : Nat,
          status : {"Pending", "Filled", "Partial Filled", "Resting", "Canceled"}]

\* Every variable holds what its field can hold.
TradingTypeOK ==
  /\ \A p \in Pages :
       /\ DOMAIN page[p].orders \subseteq OrderIDs
       /\ \A id \in DOMAIN page[p].orders : page[p].orders[id] \in Entry
       /\ page[p].quoted \subseteq Symbols
       /\ page[p].paid \in [page[p].quoted -> Int]
       /\ page[p].position \in [page[p].quoted -> Nat]
       /\ page[p].money \in Int
       /\ page[p].nextID \in 1..(MaxPageOrders + 1)
       /\ page[p].past \in Seq([row : 1..page[p].rows, id : OrderIDs])
  /\ session \in [Pages -> 0..opened]
  /\ opened \in 0..MaxSessions
  /\ since \in 0..Len(placed)
  /\ takenAway \subseteq Ids
  /\ handling \in BOOLEAN

\* Everything that was sent to page p, or by it, has been handled.
Quiet(p) ==
  /\ Idle
  /\ session[p] \in DOMAIN nameOf
  /\ outbox[p] = << >>
  /\ inbox[p] = << >>

\* No two orders were placed under one ID.
DistinctIDs == \A o, other \in Ids : placed[o].id = placed[other].id => o = other

\* Page p is the only window of its user; a second one counts the same IDs.
OnlyWindow(p) == \A q \in Pages : UserOf[q] = UserOf[p] => q = p

\* Page p has not counted up to the IDs of its user's bot; those of a real bot
\* start at a million.
OwnIDs(p) == UserOf[p] \in Bots => page[p].nextID <= FirstBotID[UserOf[p]]

\* The orders in books of now that page p was there to hear of.
HeardOf(p) == {o \in Ids : /\ placed[o].user = UserOf[p]
                           /\ o > since
                           /\ o > joined[p].orders}

Shown(p, o) == page[p].orders[placed[o].id]

Live(entry) == ~Done(entry)

\* An order rests for all its user is told: a cancel of another user takes it
\* out of the book, and only the one who cancels hears of it.
RestsForItsUser(o) == o \in book[placed[o].symbol] \/ o \in takenAway

\* The table of a page that has handled all its messages shows an order as
\* live exactly when it rests or another user's bot took it out of the book,
\* with what is left of it, whoever of its user placed or cancelled it.  Not so
\* for a page that missed a message because it had no quote, or for market
\* orders.  And not so if the page sends an order under an ID it has heard of:
\* sendOrder (sending.js:24) replaces the entry, the old row stays among the
\* past orders, and the order is deleted by that row while it rests.  Two
\* windows of a user count the same IDs, as does a page that comes up to the
\* IDs of the bot, and an order may have been refused, so that no two were
\* placed under the ID.
TableTellsWhatRests ==
  \A p \in Pages :
    Quiet(p) /\ ~page[p].broken /\ DistinctIDs /\ OnlyWindow(p) /\ OwnIDs(p) =>
      \A o \in HeardOf(p) : placed[o].type = Limit /\ placed[o].size > 0 =>
        LET known == placed[o].id \in DOMAIN page[p].orders
        IN /\ RestsForItsUser(o) <=> known /\ Live(Shown(p, o))
           /\ RestsForItsUser(o) => Shown(p, o).remaining = qty[o]

\* The page counts what is filled once for every time its session is listed:
\* twice for the first session of a new user.  An entry also counts what was
\* filled of another order with its ID, in this book or in one before.
FilledOncePerListing ==
  \A p \in Pages :
    Quiet(p) /\ ~page[p].broken /\ DistinctIDs /\ OnlyWindow(p) /\ OwnIDs(p) =>
      \A o \in HeardOf(p) :
        placed[o].type = Limit /\ placed[o].id \in DOMAIN page[p].orders =>
          Shown(p, o).filled =
            Cardinality(Listings(session[p], UserOf[p])) * (placed[o].size - qty[o])

\* The money a page shows moves against the ledger by the same amount: a
\* confirmation carries what was paid, and addMoney adds it (receiving.js:6).
\* It does so once for every listing, even in handlers that throw.
MoneyMirrorsLedger ==
  \A p \in Pages :
    Quiet(p) /\ DistinctIDs =>
      page[p].money - joined[p].money =
        Cardinality(Listings(session[p], UserOf[p]))
          * (joined[p].money - money[UserOf[p]])

\* An order the page sent in its session does not stay "Pending" when
\* everything sent either way has been handled, unless its quantity did not
\* parse: books that were replaced before the order was read, a security that
\* is gone, a page that never got a quote of it leave no order unanswered.
\* Colliding IDs do, as placeOrder throws.
OrdersAreAnswered ==
  \A p \in Pages :
    Quiet(p) /\ DistinctIDs =>
      \A id \in DOMAIN page[p].orders :
        id >= joined[p].firstID /\ page[p].orders[id].status = "Pending" =>
          id \in joined[p].dropped

-----------------------------------------------------------------------------
(* What a comment says, and what does not hold *)

\* "onClose does not completely wipe user data, accounting for potential of
\* accidental close" (Server.java:160): when the page connects again, the
\* orders it shows that rest go on resting.
ReconnectKeepsOrders ==
  [][\A p \in Pages : Open(p) =>
       \A symbol \in Symbols : \A o \in book[symbol] :
         placed[o].user = UserOf[p] /\ placed[o].id \in DOMAIN page[p].orders
           => o \in book'[symbol]]_tradingVars
=============================================================================
