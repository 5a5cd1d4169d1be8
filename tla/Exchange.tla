------------------------------ MODULE Exchange ------------------------------
(***************************************************************************)
(* Exchange.placeOrder and Exchange.cancelOrder with what they change: the *)
(* books of the securities, the index `orders' from order IDs to order     *)
(* objects, and the money and portfolio of the users (User.java).  Calls   *)
(* come one at a time; placeOrder is modelled one turn of its loops at a   *)
(* time.                                                                   *)
(*                                                                         *)
(* An order object is its number, as in OrderBook.  An order ID is chosen  *)
(* by the client: each page counts its orders from 1.  A book is here the  *)
(* set of the orders resting in it, matched by price-time priority, which  *)
(* is what OrderBook does (OrderBookProofs).                               *)
(*                                                                         *)
(* An operator Bad... stands before the one it is a plausible mistake of,  *)
(* and is not part of the specification.                                   *)
(***************************************************************************)
EXTENDS OrderTypes, FiniteSets, SequencesExt

CONSTANTS
  Users,        \* users that registered with the server
  NoUser,       \* the null username of a session that did not
  Senders,      \* who sends orders
  Symbols,      \* securities the administrator starts
  MaxOrders,    \* bound on the orders of a behaviour
  MaxID,        \* bound on order IDs; a page that reached it is loaded again
  MaxStarts,    \* bound on admin "start" commands
  OwnCounters   \* TRUE: each client numbers its own orders, as web/ does
                \* FALSE: order IDs are unique

ASSUME UsersAssumption       == NoUser \notin Users
ASSUME UsersFinite           == IsFiniteSet(Users)
ASSUME SendersAssumption     == Senders \subseteq Users \cup {NoUser}
ASSUME MaxOrdersAssumption   == MaxOrders \in Nat
ASSUME MaxIDAssumption       == MaxID \in Nat
ASSUME MaxStartsAssumption   == MaxStarts \in Nat
ASSUME OwnCountersAssumption == OwnCounters \in BOOLEAN

VARIABLES
  placed,     \* the order objects placeOrder created, oldest first
  qty,        \* qty[o]: the qty field of order object o
  orders,     \* Exchange.orders: order IDs to order objects
  book,       \* book[symbol]: the orders resting in its order book
  listed,     \* keys of Exchange.orderbooks
  money,      \* money[user]: User.money
  portfolio,  \* portfolio[user][symbol]: User.portfolio, 0 for no entry
  phase,      \* where the call is: idle, matching, settling
  taker,      \* the order placeOrder works on, NoOrder between two calls
  trades,     \* trades handleOrder returned that placeOrder has yet to settle
  responses,  \* messages of the current or last call
  thrown,     \* the last call ended in a NullPointerException
  nextID,     \* nextID[sender]: next_orderID of the sender's page
  starts      \* number of "start" commands so far

bookVars   == <<placed, qty, book>>
ledgerVars == <<money, portfolio>>
envVars    == <<nextID, listed, starts>>
vars == <<bookVars, ledgerVars, envVars, orders, phase, taker, trades, responses, thrown>>

NoOrder  == 0
Ids      == 1..Len(placed)
OrderIDs == 1..MaxID

\* An order object: the order, who sent it, under which ID, for what.
NewOrder(id, user, symbol, order) ==
  [id |-> id, user |-> user, symbol |-> symbol, side |-> order.side,
   type |-> order.type, price |-> order.price, size |-> order.size]

-----------------------------------------------------------------------------
(* Messages *)

\* getActionString: "0" filled, "1" partly filled, "2" resting, "3" failed
Filled == 0
Partly == 1
Rests  == 2
Failed == 3

ActionOf(filled, remaining) ==
  IF filled # 0 THEN IF remaining = 0 THEN Filled ELSE Partly
  ELSE IF remaining > 0 THEN Rests ELSE Failed

\* orderFailureMessage
FailureMessage(o) ==
  [user |-> o.user, id |-> o.id, symbol |-> o.symbol, action |-> Failed,
   filled |-> 0, remaining |-> 0, money |-> 0, side |-> o.side, type |-> o.type]

\* orderRestingMessage
RestingMessage(o) ==
  [user |-> placed[o].user, id |-> placed[o].id, symbol |-> placed[o].symbol,
   action |-> Rests, filled |-> 0, remaining |-> qty[o], money |-> 0,
   side |-> placed[o].side, type |-> placed[o].type]

\* makeTradeConfirmation: the side comes from the sign of the money, type and
\* symbol from the order that the index has under that ID.
Confirmation(user, id, filled, remaining, paid) ==
  [user |-> user, id |-> id, symbol |-> placed[orders[id]].symbol,
   action |-> ActionOf(filled, remaining), filled |-> filled,
   remaining |-> remaining, money |-> paid,
   side |-> IF paid > 0 THEN Sell ELSE Buy, type |-> placed[orders[id]].type]

\* the message of cancelOrder
CancelMessage(user, id, success) ==
  [user |-> user, id |-> id, success |-> success]

-----------------------------------------------------------------------------
(* The order book, by its abstract specification *)

Priority == INSTANCE PriceTimeBook
              WITH resting <- IF taker = NoOrder THEN {}
                              ELSE book[placed[taker].symbol]

-----------------------------------------------------------------------------
Init ==
  /\ placed = << >>
  /\ qty = << >>
  /\ orders = << >>
  /\ book = [symbol \in Symbols |-> {}]
  /\ listed = {}
  /\ money = [user \in Users |-> 0]
  /\ portfolio = [user \in Users |-> [symbol \in Symbols |-> 0]]
  /\ phase = "idle"
  /\ taker = NoOrder
  /\ trades = << >>
  /\ responses = << >>
  /\ thrown = FALSE
  /\ nextID = [sender \in Senders |-> 1]
  /\ starts = 0

\* Server.handleAdmin, "start": addSecurity puts a new order book for every
\* security; the orders of an old book stay in the index.
Start ==
  /\ phase = "idle"
  /\ starts < MaxStarts
  /\ listed' = Symbols
  /\ book' = [symbol \in Symbols |-> {}]
  /\ starts' = starts + 1
  /\ responses' = << >>
  /\ thrown' = FALSE
  /\ UNCHANGED <<placed, qty, ledgerVars, orders, phase, taker, trades, nextID>>

\* The ID a client gives its next order: its page's counter, which starts
\* again at 1 when the page is loaded again.
OrderID(sender, id) ==
  IF OwnCounters THEN id \in {1, nextID[sender]} ELSE id = Len(placed) + 1

Counted(sender, id) ==
  nextID' = IF OwnCounters THEN [nextID EXCEPT ![sender] = id + 1] ELSE nextID

\* placeOrder for a security that does not exist: a failure message.
RejectOrder(sender, order, symbol, id) ==
  /\ phase = "idle"
  /\ responses' = <<FailureMessage(NewOrder(id, sender, symbol, order))>>
  /\ thrown' = FALSE
  /\ UNCHANGED <<bookVars, ledgerVars, orders, phase, taker, trades>>

\* placeOrder creates the order and puts it into the index, over whatever is
\* there under its ID.  userExists throws on a null username; otherwise
\* handleOrder is called.
AcceptOrder(sender, order, symbol, id) ==
  /\ phase = "idle"
  /\ placed' = Append(placed, NewOrder(id, sender, symbol, order))
  /\ qty' = Append(qty, order.size)
  /\ orders' = [i \in DOMAIN orders \cup {id} |->
                  IF i = id THEN Len(placed) + 1 ELSE orders[i]]
  /\ IF sender = NoUser
     THEN /\ thrown' = TRUE
          /\ UNCHANGED <<phase, taker>>
     ELSE /\ thrown' = FALSE
          /\ phase' = "matching"
          /\ taker' = Len(placed) + 1
  /\ responses' = << >>
  /\ UNCHANGED <<book, ledgerVars, trades>>

PlaceUnknown(sender, order, id) ==
  /\ OrderID(sender, id)
  /\ Symbols \ listed # {}
  /\ \E symbol \in Symbols \ listed : RejectOrder(sender, order, symbol, id)
  /\ Counted(sender, id)
  /\ UNCHANGED <<listed, starts>>

PlaceOrder(sender, order, id) ==
  /\ Len(placed) < MaxOrders
  /\ OrderID(sender, id)
  /\ \E symbol \in listed : AcceptOrder(sender, order, symbol, id)
  /\ Counted(sender, id)
  /\ UNCHANGED <<listed, starts>>

\* the Trade is made before the quantities are set
BadMakeTrade(maker, filled) ==
  [maker |-> maker, taker |-> taker, price |-> placed[maker].price,
   filled |-> filled, makerRemaining |-> qty[maker], takerRemaining |-> qty[taker]]

\* new Trade(entry, taker, filled), after both quantities were set
MakeTrade(maker, filled) ==
  [maker |-> maker, taker |-> taker, price |-> placed[maker].price,
   filled |-> filled,
   makerRemaining |-> qty[maker] - filled,
   takerRemaining |-> qty[taker] - filled]

\* the loop of handleOrder does not stop when the incoming order is filled
BadMatchingDone == Priority!Candidates = {}

\* the loop of handleOrder is over
MatchingDone == qty[taker] <= 0 \/ Priority!Candidates = {}

\* handleOrder: the incoming order trades with the first order it can trade
\* with.
Match(maker) ==
  /\ phase = "matching"
  /\ qty[taker] > 0
  /\ maker \in Priority!Candidates
  /\ \A other \in Priority!Candidates \ {maker} : Priority!Precedes(maker, other)
  /\ LET filled == Priority!Smaller(qty[maker], qty[taker])
         symbol == placed[taker].symbol
     IN /\ qty' = [qty EXCEPT ![maker] = @ - filled, ![taker] = @ - filled]
        /\ book' = IF qty[maker] = filled
                   THEN [book EXCEPT ![symbol] = @ \ {maker}] ELSE book
        /\ trades' = Append(trades, MakeTrade(maker, filled))
  /\ UNCHANGED <<placed, ledgerVars, envVars, orders, phase, taker, responses, thrown>>

\* handleOrder returns: the rest of a limit order rests, that of a market
\* order is dropped.
FinishMatching ==
  /\ phase = "matching"
  /\ MatchingDone
  /\ \/ /\ placed[taker].type = Limit /\ qty[taker] > 0
        /\ book' = [book EXCEPT ![placed[taker].symbol] = @ \cup {taker}]
        /\ UNCHANGED qty
     \/ /\ placed[taker].type = Limit /\ qty[taker] <= 0
        /\ UNCHANGED <<book, qty>>
     \/ /\ placed[taker].type = Market
        /\ qty' = [qty EXCEPT ![taker] = 0]
        /\ UNCHANGED book
  /\ phase' = "settling"
  /\ UNCHANGED <<placed, ledgerVars, envVars, orders, taker, trades, responses, thrown>>

-----------------------------------------------------------------------------
(* The loop of placeOrder over the trades *)

\* null takes the place of the order
BadWithout(id) == [i \in DOMAIN orders |-> IF i = id THEN NoOrder ELSE orders[i]]

\* removeOrder
Without(id)    == [i \in DOMAIN orders \ {id} |-> orders[i]]

MakerID(trade) == placed[trade.maker].id
TakerID(trade) == placed[trade.taker].id

\* the side of the incoming order is taken for the maker's
BadMakerBuys(trade) == placed[trade.taker].side = Buy

\* updateUsersTrade reads who buys off the order that the index has under
\* the maker's ID.
MakerBuys(trade) == placed[orders[MakerID(trade)]].side = Buy

Buyer(trade)  == placed[IF MakerBuys(trade) THEN trade.maker ELSE trade.taker].user
Seller(trade) == placed[IF MakerBuys(trade) THEN trade.taker ELSE trade.maker].user

\* a user who trades with himself only gets
BadShare(trade, user, n) ==
  IF user = Buyer(trade) THEN n ELSE IF user = Seller(trade) THEN -n ELSE 0

\* What a user gets of n shares the buyer gets and the seller gives.
Share(trade, user, n) ==
  (IF user = Buyer(trade) THEN n ELSE 0) - (IF user = Seller(trade) THEN n ELSE 0)

\* updateUsersTrade
UpdateUsers(trade) ==
  /\ money' = [user \in Users |->
                 money[user] - Share(trade, user, trade.filled * trade.price)]
  /\ portfolio' = [user \in Users |->
                     [portfolio[user] EXCEPT ![placed[trade.maker].symbol] =
                        @ + Share(trade, user, trade.filled)]]

\* both confirmations carry the amount, whoever pays it
BadSidemult(trade) == 1

\* sidemult in placeOrder
Sidemult(trade) == IF placed[trade.taker].side = Buy THEN 1 ELSE -1

\* The two confirmations of a trade.
Confirmations(trade) ==
  LET amount == Sidemult(trade) * trade.filled * trade.price
  IN << Confirmation(placed[trade.maker].user, MakerID(trade), trade.filled,
                     trade.makerRemaining, -amount),
        Confirmation(placed[trade.taker].user, TakerID(trade), trade.filled,
                     trade.takerRemaining, amount) >>

\* the incoming order leaves the index instead of the maker
BadAfterTrade(trade) ==
  IF trade.makerRemaining = 0 THEN Without(TakerID(trade)) ELSE orders

\* remove maker order if empty
AfterTrade(trade) ==
  IF trade.makerRemaining = 0 THEN Without(MakerID(trade)) ELSE orders

\* One turn of the loop: the ledger, the confirmations, and the maker leaves
\* the index when nothing is left of it.
Settle ==
  /\ phase = "settling"
  /\ trades # << >>
  /\ {MakerID(Head(trades)), TakerID(Head(trades))} \subseteq DOMAIN orders
  /\ UpdateUsers(Head(trades))
  /\ responses' = responses \o Confirmations(Head(trades))
  /\ orders' = AfterTrade(Head(trades))
  /\ trades' = Tail(trades)
  /\ UNCHANGED <<bookVars, envVars, phase, taker, thrown>>

\* The index has nothing under an ID of the trade: the call throws, at the
\* maker's before the ledger is updated, at the taker's after, and returns no
\* message at all.
SettleThrows ==
  /\ phase = "settling"
  /\ trades # << >>
  /\ \/ /\ MakerID(Head(trades)) \notin DOMAIN orders
        /\ UNCHANGED ledgerVars
     \/ /\ MakerID(Head(trades)) \in DOMAIN orders
        /\ TakerID(Head(trades)) \notin DOMAIN orders
        /\ UpdateUsers(Head(trades))
  /\ thrown' = TRUE
  /\ responses' = << >>
  /\ phase' = "idle"
  /\ taker' = NoOrder
  /\ trades' = << >>
  /\ UNCHANGED <<bookVars, envVars, orders>>

\* a filled order stays in the index
BadAfterOrder == orders

\* every order leaves the index, what rests too
BadAfterResting == Without(placed[taker].id)

\* remove order if empty
AfterOrder == IF qty[taker] = 0 THEN Without(placed[taker].id) ELSE orders

\* placeOrder returns: without a trade it reports the order as resting, and
\* the order leaves the index if nothing is left of it.
EndPlaceOrder ==
  /\ phase = "settling"
  /\ trades = << >>
  /\ responses' = IF responses = << >> THEN <<RestingMessage(taker)>> ELSE responses
  /\ orders' = AfterOrder
  /\ phase' = "idle"
  /\ taker' = NoOrder
  /\ UNCHANGED <<bookVars, ledgerVars, envVars, trades, thrown>>

\* a cancel clears the whole price level
BadWithdrawn(o) ==
  {m \in Ids : placed[m].side = placed[o].side /\ placed[m].price = placed[o].price}

\* entries.remove(orderToCancel)
Withdrawn(o) == {o}

\* cancelOrder: whatever order the index has under the ID is taken out of its
\* book, if it is there; it stays in the index.
CancelOrder(sender, id) ==
  /\ phase = "idle"
  /\ \/ /\ id \notin DOMAIN orders
        /\ responses' = <<CancelMessage(sender, id, FALSE)>>
        /\ UNCHANGED book
     \/ /\ id \in DOMAIN orders
        /\ LET o      == orders[id]
               symbol == placed[o].symbol
           IN /\ responses' = <<CancelMessage(sender, id, o \in book[symbol])>>
              /\ book' = [book EXCEPT ![symbol] = @ \ Withdrawn(o)]
  /\ thrown' = FALSE
  /\ UNCHANGED <<placed, qty, ledgerVars, envVars, orders, phase, taker, trades>>

\* A turn of the call that runs.
CallStep ==
  \/ \E maker \in Ids : Match(maker)
  \/ FinishMatching
  \/ Settle
  \/ SettleThrows
  \/ EndPlaceOrder

Next ==
  \/ Start
  \/ \E sender \in Senders, order \in Orders, id \in OrderIDs :
       PlaceOrder(sender, order, id) \/ PlaceUnknown(sender, order, id)
  \/ \E sender \in Senders, id \in OrderIDs : CancelOrder(sender, id)
  \/ CallStep

\* The thread that runs the call goes on running.
Fairness == WF_vars(CallStep)

Spec == Init /\ [][Next]_vars /\ Fairness

-----------------------------------------------------------------------------
(* Properties *)

OrderObject ==
  [id : OrderIDs, user : Senders, symbol : Symbols, side : Sides,
   type : {Market, Limit}, price : Int, size : Int]

Trade == [maker : Ids, taker : Ids, price : Int, filled : Int,
          makerRemaining : Int, takerRemaining : Int]

OrderMessage ==
  [user : Senders, id : OrderIDs, symbol : Symbols,
   action : {Filled, Partly, Rests, Failed}, filled : Int, remaining : Int,
   money : Int, side : Sides, type : {Market, Limit}]

CancelMessages == [user : Senders, id : OrderIDs, success : BOOLEAN]

\* Every variable holds what its Java field can hold.
TypeOK ==
  /\ placed \in Seq(OrderObject)
  /\ qty \in Seq(Int) /\ Len(qty) = Len(placed)
  /\ DOMAIN orders \subseteq OrderIDs
  /\ \A id \in DOMAIN orders : orders[id] \in Ids
  /\ book \in [Symbols -> SUBSET Ids]
  /\ listed \subseteq Symbols
  /\ money \in [Users -> Int]
  /\ portfolio \in [Users -> [Symbols -> Int]]
  /\ phase \in {"idle", "matching", "settling"}
  /\ taker \in Ids \cup {NoOrder}
  /\ phase = "idle" <=> taker = NoOrder
  /\ trades \in Seq(Trade)
  /\ responses \in Seq(OrderMessage \cup CancelMessages)
  /\ thrown \in BOOLEAN
  /\ nextID \in [Senders -> 1..(MaxID + 1)]
  /\ starts \in 0..MaxStarts

\* No cent and no share is made or lost: what one user pays another gets,
\* after every step, even when a call throws halfway.
Conserved ==
  /\ SumFunction(money) = 0
  /\ \A symbol \in Symbols :
       SumFunction([user \in Users |-> portfolio[user][symbol]]) = 0

\* The index leads to every resting order, so that its owner can cancel it
\* and its trades can be settled.  Holds as long as IDs are unique.
IndexCoversBook ==
  \A symbol \in Symbols : \A o \in book[symbol] :
    /\ placed[o].id \in DOMAIN orders
    /\ orders[placed[o].id] = o
    /\ placed[o].symbol = symbol

\* Between two calls, no order in the index is filled: "remove maker order if
\* empty" and "remove order if empty" (Exchange.java:124, 136) miss none but
\* the orders of sessions without a user, which placeOrder abandons.
IndexHasNoFilledOrder ==
  phase = "idle" =>
    \A id \in DOMAIN orders :
      qty[orders[id]] # 0 \/ placed[orders[id]].user = NoUser

\* With unique IDs the settling loop never misses an order in the index:
\* placeOrder throws for nobody but a session without a user.
ThrowsForStrangersOnly ==
  thrown => placed[Len(placed)].user = NoUser

\* The last message of a call about an order tells what is left of it, so a
\* client that believes the last message agrees with the book.  (A market
\* order is over, but its message tells what it did not fill.)
LastMessageIsTrue ==
  phase = "idle" =>
    \A o \in Ids, i \in 1..Len(responses) :
      /\ responses[i] \in OrderMessage
      /\ responses[i].id = placed[o].id
      /\ responses[i].action # Failed
      /\ \A j \in (i + 1)..Len(responses) : responses[j].id # placed[o].id
      => placed[o].type = Market \/ responses[i].remaining = qty[o]

\* Settling a trade moves the shares to the side that bought and the money to
\* the side that sold, at the price of the resting order.
Gain(user, symbol) == portfolio'[user][symbol] - portfolio[user][symbol]

SettlesToBuyer(trade) ==
  LET maker  == placed[trade.maker]
      own    == placed[trade.taker]
      buyer  == IF maker.side = Buy THEN maker.user ELSE own.user
      seller == IF maker.side = Buy THEN own.user ELSE maker.user
  IN IF buyer = seller THEN UNCHANGED ledgerVars
     ELSE /\ Gain(buyer, maker.symbol) = trade.filled
          /\ Gain(seller, maker.symbol) = -trade.filled
          /\ money'[seller] - money[seller] = trade.filled * maker.price
          /\ money'[buyer] - money[buyer] = -trade.filled * maker.price

BuyersPaySellers ==
  [][trades # << >> /\ trades' = Tail(trades) /\ ~thrown'
       => SettlesToBuyer(Head(trades))]_vars

\* The money of the two confirmations of a trade is what the ledger takes
\* from their users: the client, which adds it to the money it shows, and
\* the server count in opposite directions.
ConfirmationsTellWhatIsPaid ==
  [][\A n \in {Len(responses)} :
       trades # << >> /\ Len(responses') = n + 2 =>
         LET maker == responses'[n + 1]
             own   == responses'[n + 2]
         IN /\ maker.money = -own.money
            /\ maker.user # own.user =>
                 /\ maker.money = money[maker.user] - money'[maker.user]
                 /\ own.money = money[own.user] - money'[own.user]]_vars

\* An order leaves a book only when it is filled, when a cancel of its ID
\* succeeds, or with all others when the market is started again.
LeavesForAReason ==
  [][\A symbol \in Symbols : \A o \in book[symbol] \ book'[symbol] :
       \/ qty'[o] = 0
       \/ starts' > starts
       \/ \E sender \in Senders :
            responses' = <<CancelMessage(sender, placed[o].id, TRUE)>>]_vars

\* placeOrder ends.
CallEnds == phase # "idle" ~> phase = "idle"

-----------------------------------------------------------------------------
(* What comments say, and what does not hold *)

\* "remove maker order if empty", "remove order if empty"
\* (Exchange.java:124, 136): what leaves the index is empty.
RemovedOnlyIfEmpty ==
  [][\A id \in DOMAIN orders \ DOMAIN orders' : qty[orders[id]] = 0]_vars

=============================================================================
