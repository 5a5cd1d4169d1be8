--------------------------- MODULE ExchangeProofs ---------------------------
(***************************************************************************)
(* Proofs about Exchange, for any users, securities, prices, quantities    *)
(* and number of orders.                                                   *)
(***************************************************************************)
EXTENDS Exchange, DataFacts

\* What the fields of an order are.
LEMMA OrderFields ==
  ASSUME NEW order \in Orders
  PROVE  /\ order.side \in Sides
         /\ order.type \in {Market, Limit}
         /\ order.price \in Int
         /\ order.size \in Int
PROOF
<1>1. CASE order \in [side : Sides, type : {Limit}, price : Prices, size : Quantities]
  <2>1. /\ order.side \in Sides /\ order.type = Limit
        /\ order.price \in Prices /\ order.size \in Quantities
    BY <1>1
  <2> QED
    BY <2>1, PricesAssumption, QuantitiesAssumption
<1>2. CASE order \in [side : Sides, type : {Market}, price : {MarketPrice},
                      size : Quantities]
  <2>1. /\ order.side \in Sides /\ order.type = Market
        /\ order.price = MarketPrice /\ order.size \in Quantities
    BY <1>2
  <2>2. MarketPrice \in Int
    BY DEF MarketPrice
  <2> QED
    BY <2>1, <2>2, QuantitiesAssumption
<1> QED
  BY <1>1, <1>2 DEF Orders

\* What the fields of an order object are.
LEMMA ObjectFields ==
  ASSUME TypeOK, NEW o \in Ids
  PROVE  /\ placed[o] \in OrderObject
         /\ placed[o].id \in OrderIDs /\ placed[o].user \in Senders
         /\ placed[o].symbol \in Symbols /\ placed[o].side \in Sides
         /\ placed[o].type \in {Market, Limit} /\ placed[o].price \in Int
         /\ qty[o] \in Int
PROOF
<1>1. placed[o] \in OrderObject /\ qty[o] \in Int
  BY DEF TypeOK, Ids
<1> QED
  BY <1>1 DEF OrderObject

\* The action a message tells.
LEMMA ActionType ==
  ASSUME NEW filled, NEW remaining
  PROVE  ActionOf(filled, remaining) \in {Filled, Partly, Rests, Failed}
PROOF
  BY DEF ActionOf

\* One turn of the matching, in terms of this module.
LEMMA MatchFacts ==
  ASSUME TypeOK, NEW maker \in Ids, Match(maker)
  PROVE  /\ phase = "matching" /\ taker \in Ids
         /\ maker \in book[placed[taker].symbol]
         /\ maker # taker
         /\ placed[maker].side = Opposite(placed[taker].side)
         /\ qty[taker] > 0
         /\ \E filled \in Int :
              /\ filled = qty[maker] \/ filled = qty[taker]
              /\ filled <= qty[maker] /\ filled <= qty[taker]
              /\ qty' = [qty EXCEPT ![maker] = qty[maker] - filled,
                                    ![taker] = qty[taker] - filled]
              /\ book' = IF qty[maker] = filled
                         THEN [book EXCEPT ![placed[taker].symbol] = @ \ {maker}]
                         ELSE book
              /\ trades' = Append(trades, MakeTrade(maker, filled))
         /\ UNCHANGED <<placed, ledgerVars, envVars, orders, phase, taker,
                        responses, thrown>>
PROOF
<1>1. phase = "matching" /\ taker \in Ids /\ taker # NoOrder
  BY DEF Match, TypeOK
<1>2. maker \in book[placed[taker].symbol] /\ placed[maker].side = Opposite(placed[taker].side)
  BY <1>1 DEF Match, Priority!Candidates, Priority!OnSide, Priority!Opposite, Opposite
<1>3. qty[maker] \in Int /\ qty[taker] \in Int /\ placed[taker].side \in Sides
  BY <1>1, ObjectFields
<1>4. maker # taker
  BY <1>2, <1>3 DEF Opposite, Sides, Buy, Sell
<1> DEFINE filled == Priority!Smaller(qty[maker], qty[taker])
<1>5. /\ filled \in Int
      /\ filled = qty[maker] \/ filled = qty[taker]
      /\ filled <= qty[maker] /\ filled <= qty[taker]
  BY <1>3 DEF Priority!Smaller
<1>6. /\ qty[taker] > 0
      /\ qty' = [qty EXCEPT ![maker] = @ - filled, ![taker] = @ - filled]
      /\ book' = IF qty[maker] = filled
                 THEN [book EXCEPT ![placed[taker].symbol] = @ \ {maker}]
                 ELSE book
      /\ trades' = Append(trades, MakeTrade(maker, filled))
      /\ UNCHANGED <<placed, ledgerVars, envVars, orders, phase, taker,
                     responses, thrown>>
  BY DEF Match
<1> HIDE DEF filled
<1>7. qty' = [qty EXCEPT ![maker] = qty[maker] - filled, ![taker] = qty[taker] - filled]
  BY <1>4, <1>6
<1> QED
  BY <1>1, <1>2, <1>4, <1>5, <1>6, <1>7

\* What is known of the Trade object handleOrder makes.
LEMMA TradeFields ==
  ASSUME TypeOK, taker \in Ids, NEW maker \in Ids, NEW filled \in Int
  PROVE  /\ MakeTrade(maker, filled) \in Trade
         /\ MakeTrade(maker, filled).maker = maker
         /\ MakeTrade(maker, filled).taker = taker
         /\ MakeTrade(maker, filled).price = placed[maker].price
         /\ MakeTrade(maker, filled).makerRemaining = qty[maker] - filled
         /\ MakeTrade(maker, filled).takerRemaining = qty[taker] - filled
PROOF
  BY ObjectFields DEF MakeTrade, Trade

\* What "remove" leaves in the index.
LEMMA WithoutType ==
  ASSUME NEW id
  PROVE  /\ DOMAIN Without(id) = DOMAIN orders \ {id}
         /\ \A i \in DOMAIN orders \ {id} : Without(id)[i] = orders[i]
PROOF
  BY DEF Without

-----------------------------------------------------------------------------
(* Types *)

Messages == OrderMessage \cup CancelMessages

\* The fields of a pending trade.
LEMMA PendingTrade ==
  ASSUME TypeOK, trades # << >>
  PROVE  /\ Head(trades) \in Trade
         /\ Head(trades).maker \in Ids /\ Head(trades).taker \in Ids
         /\ Head(trades).filled \in Int /\ Head(trades).price \in Int
         /\ Head(trades).makerRemaining \in Int
         /\ Head(trades).takerRemaining \in Int
         /\ Tail(trades) \in Seq(Trade)
PROOF
<1>1. Head(trades) \in Trade /\ Tail(trades) \in Seq(Trade)
  BY HeadAndTail DEF TypeOK
<1> QED
  BY <1>1 DEF Trade

\* What a user gets is a number.
LEMMA ShareType ==
  ASSUME NEW trade, NEW user, NEW n \in Int
  PROVE  Share(trade, user, n) \in Int
PROOF
  BY DEF Share

\* The ledger keeps its type.
LEMMA LedgerType ==
  ASSUME TypeOK, NEW trade, trade.maker \in Ids, trade.filled \in Int,
         trade.price \in Int, UpdateUsers(trade)
  PROVE  money' \in [Users -> Int] /\ portfolio' \in [Users -> [Symbols -> Int]]
PROOF
<1> DEFINE amount == trade.filled * trade.price
<1>1. amount \in Int
  OBVIOUS
<1>2. /\ money' = [user \in Users |-> money[user] - Share(trade, user, amount)]
      /\ portfolio' = [user \in Users |->
                         [portfolio[user] EXCEPT ![placed[trade.maker].symbol] =
                            @ + Share(trade, user, trade.filled)]]
  BY DEF UpdateUsers
<1> HIDE DEF amount
<1>3. \A user \in Users : /\ Share(trade, user, amount) \in Int
                          /\ Share(trade, user, trade.filled) \in Int
  BY <1>1, ShareType
<1>4. \A user \in Users : money[user] \in Int /\ portfolio[user] \in [Symbols -> Int]
  BY DEF TypeOK
<1>5. money' \in [Users -> Int]
  BY <1>2, <1>3, <1>4
<1>6. ASSUME NEW user \in Users
      PROVE  [portfolio[user] EXCEPT ![placed[trade.maker].symbol] =
                @ + Share(trade, user, trade.filled)] \in [Symbols -> Int]
  <2>1. placed[trade.maker].symbol \in Symbols
    BY ObjectFields
  <2> QED
    BY <1>3, <1>4, <2>1
<1> QED
  BY <1>2, <1>5, <1>6

\* A confirmation is a message about an order.
LEMMA ConfirmationType ==
  ASSUME TypeOK, NEW user \in Senders, NEW id \in DOMAIN orders,
         NEW filled \in Int, NEW remaining \in Int, NEW paid \in Int
  PROVE  Confirmation(user, id, filled, remaining, paid) \in Messages
PROOF
<1>1. id \in OrderIDs /\ orders[id] \in Ids
  BY DEF TypeOK
<1>2. /\ placed[orders[id]].symbol \in Symbols
      /\ placed[orders[id]].type \in {Market, Limit}
  BY <1>1, ObjectFields
<1>3. (IF paid > 0 THEN Sell ELSE Buy) \in Sides
  BY DEF Sides
<1>4. ActionOf(filled, remaining) \in {Filled, Partly, Rests, Failed}
  BY ActionType
<1> HIDE DEF Filled, Partly, Rests, Failed
<1> QED
  BY <1>1, <1>2, <1>3, <1>4 DEF Confirmation, Messages, OrderMessage

\* The two confirmations of a trade.
LEMMA ConfirmationsType ==
  ASSUME TypeOK, NEW trade \in Trade,
         MakerID(trade) \in DOMAIN orders, TakerID(trade) \in DOMAIN orders
  PROVE  /\ Confirmations(trade) \in Seq(Messages)
         /\ Len(Confirmations(trade)) = 2
PROOF
<1>1. /\ trade.maker \in Ids /\ trade.taker \in Ids
      /\ trade.filled \in Int /\ trade.price \in Int
      /\ trade.makerRemaining \in Int /\ trade.takerRemaining \in Int
  BY DEF Trade
<1>2. placed[trade.maker].user \in Senders /\ placed[trade.taker].user \in Senders
  BY <1>1, ObjectFields
<1> DEFINE amount == Sidemult(trade) * trade.filled * trade.price
<1>3. amount \in Int /\ -amount \in Int
  <2>1. Sidemult(trade) \in Int
    BY DEF Sidemult
  <2>2. Sidemult(trade) * trade.filled \in Int
    BY <1>1, <2>1
  <2> QED
    BY <1>1, <2>2
<1> DEFINE first  == Confirmation(placed[trade.maker].user, MakerID(trade), trade.filled,
                                  trade.makerRemaining, -amount)
           second == Confirmation(placed[trade.taker].user, TakerID(trade), trade.filled,
                                  trade.takerRemaining, amount)
<1>4. Confirmations(trade) = <<first, second>>
  BY DEF Confirmations
<1> HIDE DEF amount
<1>5. first \in Messages /\ second \in Messages
  BY <1>1, <1>2, <1>3, ConfirmationType
<1> HIDE DEF first, second
<1> QED
  BY <1>4, <1>5

\* A new object, under its ID in the index, and the older ones as they were.
Accepts(sender, order, symbol, id) ==
  /\ placed' \in Seq(OrderObject) /\ qty' \in Seq(Int)
  /\ Len(placed') = Len(placed) + 1 /\ Len(qty') = Len(qty) + 1
  /\ \A o \in Ids : placed'[o] = placed[o] /\ qty'[o] = qty[o]
  /\ placed'[Len(placed) + 1] = NewOrder(id, sender, symbol, order)
  /\ Ids' = Ids \cup {Len(placed) + 1} /\ Len(placed) + 1 \notin Ids
  /\ DOMAIN orders' = DOMAIN orders \cup {id}
  /\ orders'[id] = Len(placed) + 1
  /\ \A i \in DOMAIN orders \ {id} : orders'[i] = orders[i]

\* What AcceptOrder does to the order objects and the index.
LEMMA Accepted ==
  ASSUME TypeOK, NEW sender \in Senders, NEW order \in Orders, NEW symbol \in listed,
         NEW id \in OrderIDs, AcceptOrder(sender, order, symbol, id)
  PROVE  Accepts(sender, order, symbol, id)
PROOF
<1>1. /\ placed' = Append(placed, NewOrder(id, sender, symbol, order))
      /\ qty' = Append(qty, order.size)
      /\ orders' = [i \in DOMAIN orders \cup {id} |->
                      IF i = id THEN Len(placed) + 1 ELSE orders[i]]
  BY DEF AcceptOrder
<1>2. NewOrder(id, sender, symbol, order) \in OrderObject /\ order.size \in Int
  <2>1. symbol \in Symbols
    BY DEF TypeOK
  <2> QED
    BY <2>1, OrderFields DEF NewOrder, OrderObject
<1>3. /\ placed' \in Seq(OrderObject) /\ Len(placed') = Len(placed) + 1
      /\ \A o \in Ids : placed'[o] = placed[o]
      /\ placed'[Len(placed) + 1] = NewOrder(id, sender, symbol, order)
  BY <1>1, <1>2, OneMore DEF TypeOK, Ids
<1>4. /\ qty' \in Seq(Int) /\ Len(qty') = Len(qty) + 1
      /\ \A o \in Ids : qty'[o] = qty[o]
  BY <1>1, <1>2, OneMore DEF TypeOK, Ids
<1>5. Ids' = Ids \cup {Len(placed) + 1} /\ Len(placed) + 1 \notin Ids
  <2>1. Len(placed) \in Nat
    BY DEF TypeOK
  <2> QED
    BY <1>3, <2>1 DEF Ids
<1> QED
  BY <1>1, <1>3, <1>4, <1>5 DEF Accepts

\* What is in the trades stays one when orders come in.
LEMMA MoreTrades ==
  ASSUME Ids \subseteq Ids'
  PROVE  Trade \subseteq Trade'
PROOF
  BY DEF Trade

\* A turn of the matching keeps the types.
LEMMA MatchType ==
  ASSUME TypeOK, NEW maker \in Ids, Match(maker)
  PROVE  TypeOK'
PROOF
<1>1. PICK filled \in Int :
        /\ qty' = [qty EXCEPT ![maker] = qty[maker] - filled, ![taker] = qty[taker] - filled]
        /\ book' = IF qty[maker] = filled
                   THEN [book EXCEPT ![placed[taker].symbol] = @ \ {maker}] ELSE book
        /\ trades' = Append(trades, MakeTrade(maker, filled))
  BY MatchFacts
<1>2. /\ taker \in Ids
      /\ UNCHANGED <<placed, ledgerVars, envVars, orders, phase, taker, responses, thrown>>
  BY MatchFacts
<1>3. qty[maker] \in Int /\ qty[taker] \in Int
  BY <1>2, ObjectFields
<1>4. qty' \in Seq(Int) /\ Len(qty') = Len(qty)
  BY <1>1, <1>2, <1>3, ReplaceTwo DEF TypeOK, Ids
<1>5. book' \in [Symbols -> SUBSET Ids]
  BY <1>1 DEF TypeOK
<1>6. Ids' = Ids /\ Trade' = Trade
  BY <1>2 DEF Ids, Trade
<1>7. trades' \in Seq(Trade)
  BY <1>1, <1>2, TradeFields, OneMore DEF TypeOK
<1> HIDE DEF Trade
<1> QED
  BY <1>2, <1>4, <1>5, <1>6, <1>7 DEF TypeOK, ledgerVars, envVars

\* The index gets smaller: it keeps its type.
LEMMA SmallerIndex ==
  ASSUME TypeOK, NEW id
  PROVE  /\ DOMAIN Without(id) \subseteq OrderIDs
         /\ \A i \in DOMAIN Without(id) : Without(id)[i] \in Ids
PROOF
  BY WithoutType DEF TypeOK

\* A step without a new order keeps the types if it keeps those of what it
\* changes.
LEMMA TypeFrame ==
  ASSUME TypeOK, UNCHANGED <<placed, qty, nextID, listed, starts>>,
         DOMAIN orders' \subseteq OrderIDs,
         \A id \in DOMAIN orders' : orders'[id] \in Ids,
         book' \in [Symbols -> SUBSET Ids],
         money' \in [Users -> Int], portfolio' \in [Users -> [Symbols -> Int]],
         phase' \in {"idle", "matching", "settling"},
         taker' \in Ids \cup {NoOrder}, phase' = "idle" <=> taker' = NoOrder,
         trades' \in Seq(Trade), responses' \in Seq(Messages), thrown' \in BOOLEAN
  PROVE  TypeOK'
PROOF
<1>1. Ids' = Ids /\ Trade' = Trade
  BY DEF Ids, Trade
<1> HIDE DEF Trade
<1> QED
  BY <1>1 DEF TypeOK, Messages

\* What TypeFrame asks of what a step leaves alone.
LEMMA TypeParts ==
  ASSUME TypeOK
  PROVE  /\ DOMAIN orders \subseteq OrderIDs
         /\ \A id \in DOMAIN orders : orders[id] \in Ids
         /\ book \in [Symbols -> SUBSET Ids]
         /\ money \in [Users -> Int] /\ portfolio \in [Users -> [Symbols -> Int]]
         /\ phase \in {"idle", "matching", "settling"}
         /\ taker \in Ids \cup {NoOrder} /\ (phase = "idle" <=> taker = NoOrder)
         /\ trades \in Seq(Trade) /\ responses \in Seq(Messages) /\ thrown \in BOOLEAN
         /\ NoOrder \notin Ids
PROOF
<1>1. NoOrder \notin Ids
  BY DEF Ids, NoOrder
<1> QED
  BY <1>1 DEF TypeOK, Messages

\* The counters of the pages and what the administrator did are of their types.
EnvType ==
  /\ nextID \in [Senders -> 1..(MaxID + 1)]
  /\ listed \subseteq Symbols
  /\ starts \in 0..MaxStarts

\* A refused order keeps the types.
LEMMA RejectType ==
  ASSUME TypeOK, EnvType', NEW sender \in Senders, NEW order \in Orders,
         NEW symbol \in Symbols, NEW id \in OrderIDs,
         RejectOrder(sender, order, symbol, id)
  PROVE  TypeOK'
PROOF
<1>0. FALSE \in BOOLEAN /\ \A m \in Messages : <<m>> \in Seq(Messages)
  OBVIOUS
<1> DEFINE m == FailureMessage(NewOrder(id, sender, symbol, order))
<1>1. m \in Messages
  <2>1. order.side \in Sides /\ order.type \in {Market, Limit}
    BY OrderFields
  <2> QED
    BY <2>1 DEF FailureMessage, NewOrder, Messages, OrderMessage
<1>2. /\ responses' = <<m>> /\ thrown' = FALSE
      /\ UNCHANGED <<placed, qty, book, money, portfolio, orders, phase, taker, trades>>
  BY DEF RejectOrder, bookVars, ledgerVars
<1> HIDE DEF m
<1>3. responses' \in Seq(Messages)
  BY <1>0, <1>1, <1>2
<1>4. Ids' = Ids /\ Trade' = Trade
  BY <1>2 DEF Ids, Trade
<1> HIDE DEF Trade
<1> QED
  BY <1>2, <1>3, <1>4 DEF TypeOK, EnvType, Messages

\* An accepted order keeps the types.
LEMMA AcceptType ==
  ASSUME TypeOK, EnvType', NEW sender \in Senders, NEW order \in Orders,
         NEW symbol \in listed, NEW id \in OrderIDs,
         AcceptOrder(sender, order, symbol, id)
  PROVE  TypeOK'
PROOF
<1>1. << >> \in Seq(Messages) /\ FALSE \in BOOLEAN /\ TRUE \in BOOLEAN
  OBVIOUS
<1>2. /\ placed' \in Seq(OrderObject) /\ qty' \in Seq(Int)
      /\ Len(placed') = Len(placed) + 1 /\ Len(qty') = Len(qty) + 1
      /\ Ids' = Ids \cup {Len(placed) + 1} /\ Len(placed) + 1 \notin Ids
      /\ DOMAIN orders' = DOMAIN orders \cup {id}
      /\ orders'[id] = Len(placed) + 1
      /\ \A i \in DOMAIN orders \ {id} : orders'[i] = orders[i]
  <2>1. Accepts(sender, order, symbol, id)
    BY Accepted
  <2> QED
    BY <2>1 DEF Accepts
<1>3. /\ DOMAIN orders' \subseteq OrderIDs
      /\ \A i \in DOMAIN orders' : orders'[i] \in Ids'
  BY <1>2, TypeParts
<1>4. /\ responses' = << >> /\ UNCHANGED <<book, money, portfolio, trades>>
      /\ phase = "idle"
  BY DEF AcceptOrder, ledgerVars
<1>5. /\ phase' \in {"idle", "matching", "settling"}
      /\ taker' \in Ids' \cup {NoOrder}
      /\ phase' = "idle" <=> taker' = NoOrder
      /\ thrown' \in BOOLEAN
  <2>1. CASE sender = NoUser
    <3>1. thrown' = TRUE /\ phase' = phase /\ taker' = taker
      BY <2>1 DEF AcceptOrder
    <3> QED
      BY <1>4, <3>1, TypeParts
  <2>2. CASE sender # NoUser
    <3>1. thrown' = FALSE /\ phase' = "matching" /\ taker' = Len(placed) + 1
      BY <2>2 DEF AcceptOrder
    <3>2. Len(placed) + 1 # NoOrder
      BY DEF TypeOK, NoOrder
    <3> QED
      BY <1>2, <3>1, <3>2
  <2> QED
    BY <2>1, <2>2
<1>6. book' \in [Symbols -> SUBSET Ids']
  BY <1>2, <1>4, TypeParts
<1>7. trades' \in Seq(Trade')
  <2>1. Trade \subseteq Trade'
    BY <1>2, MoreTrades
  <2> HIDE DEF Trade
  <2> QED
    BY <1>4, <2>1, LargerSet, TypeParts
<1>8. responses' \in Seq(Messages)
  BY <1>1, <1>4
<1>9. Len(qty') = Len(placed')
  BY <1>2 DEF TypeOK
<1> HIDE DEF Trade
<1> QED
  BY <1>2, <1>3, <1>4, <1>5, <1>6, <1>7, <1>8, <1>9 DEF TypeOK, EnvType, Messages

\* The steps that are not a turn of placeOrder keep the types.
LEMMA CallTypes ==
  ASSUME TypeOK
  PROVE  /\ Start => TypeOK'
         /\ \A sender \in Senders, order \in Orders, id \in OrderIDs :
              PlaceOrder(sender, order, id) \/ PlaceUnknown(sender, order, id) => TypeOK'
         /\ \A sender \in Senders, id \in OrderIDs : CancelOrder(sender, id) => TypeOK'
PROOF
<1>0. /\ << >> \in Seq(Messages) /\ FALSE \in BOOLEAN /\ TRUE \in BOOLEAN
      /\ \A m \in Messages : <<m>> \in Seq(Messages)
  OBVIOUS
<1>1. ASSUME Start PROVE TypeOK'
  <2>1. /\ listed' = Symbols /\ book' = [symbol \in Symbols |-> {}]
        /\ starts' = starts + 1 /\ starts < MaxStarts
        /\ responses' = << >> /\ thrown' = FALSE
        /\ UNCHANGED <<placed, qty, money, portfolio, orders, phase, taker, trades, nextID>>
    BY <1>1 DEF Start, ledgerVars
  <2>2. starts' \in 0..MaxStarts
    BY <2>1, MaxStartsAssumption DEF TypeOK
  <2>3. book' \in [Symbols -> SUBSET Ids] /\ listed' \subseteq Symbols
    BY <2>1
  <2>4. Ids' = Ids /\ Trade' = Trade
    BY <2>1 DEF Ids, Trade
  <2>5. responses' \in Seq(Messages)
    BY <1>0, <2>1
  <2> HIDE DEF Trade
  <2> QED
    BY <2>1, <2>2, <2>3, <2>4, <2>5 DEF TypeOK, Messages
<1>2. ASSUME NEW sender \in Senders, NEW id \in OrderIDs, Counted(sender, id)
      PROVE  nextID' \in [Senders -> 1..(MaxID + 1)]
  <2>1. id + 1 \in 1..(MaxID + 1)
    BY MaxIDAssumption DEF OrderIDs
  <2> QED
    BY <1>2, <2>1 DEF Counted, TypeOK
<1>3. ASSUME NEW sender \in Senders, NEW order \in Orders, NEW id \in OrderIDs,
             PlaceUnknown(sender, order, id)
      PROVE  TypeOK'
  <2>1. PICK symbol \in Symbols : RejectOrder(sender, order, symbol, id)
    BY <1>3 DEF PlaceUnknown
  <2>2. EnvType'
    BY <1>2, <1>3 DEF PlaceUnknown, EnvType, TypeOK
  <2> QED
    BY <2>1, <2>2, RejectType
<1>4. ASSUME NEW sender \in Senders, NEW order \in Orders, NEW id \in OrderIDs,
             PlaceOrder(sender, order, id)
      PROVE  TypeOK'
  <2>1. PICK symbol \in listed : AcceptOrder(sender, order, symbol, id)
    BY <1>4 DEF PlaceOrder
  <2>2. EnvType'
    BY <1>2, <1>4 DEF PlaceOrder, EnvType, TypeOK
  <2> QED
    BY <2>1, <2>2, AcceptType
<1>5. ASSUME NEW sender \in Senders, NEW id \in OrderIDs, CancelOrder(sender, id)
      PROVE  TypeOK'
  <2>1. /\ UNCHANGED <<placed, qty, money, portfolio, nextID, listed, starts, orders,
                       phase, taker, trades>>
        /\ thrown' = FALSE
    BY <1>5 DEF CancelOrder, ledgerVars, envVars
  <2>2. CASE id \notin DOMAIN orders
    <3>1. responses' = <<CancelMessage(sender, id, FALSE)>> /\ book' = book
      BY <1>5, <2>2 DEF CancelOrder
    <3>2. CancelMessage(sender, id, FALSE) \in Messages
      BY DEF CancelMessage, Messages, CancelMessages
    <3>3. responses' \in Seq(Messages)
      BY <1>0, <3>1, <3>2
    <3> QED
      BY <1>0, <2>1, <3>1, <3>3, TypeFrame, TypeParts
  <2>3. CASE id \in DOMAIN orders
    <3> DEFINE o      == orders[id]
               symbol == placed[o].symbol
               m      == CancelMessage(sender, id, o \in book[symbol])
    <3>1. responses' = <<m>> /\ book' = [book EXCEPT ![symbol] = @ \ {o}]
      BY <1>5, <2>3 DEF CancelOrder, Withdrawn
    <3>2. m \in Messages
      <4>1. (o \in book[symbol]) \in BOOLEAN
        OBVIOUS
      <4> HIDE DEF o
      <4> QED
        BY <4>1 DEF CancelMessage, Messages, CancelMessages
    <3> HIDE DEF m
    <3>3. responses' \in Seq(Messages)
      BY <1>0, <3>1, <3>2
    <3>4. book' \in [Symbols -> SUBSET Ids]
      BY <3>1, TypeParts
    <3> QED
      BY <1>0, <2>1, <3>3, <3>4, TypeFrame, TypeParts
  <2> QED
    BY <2>2, <2>3
<1> QED
  BY <1>1, <1>3, <1>4, <1>5

\* Each step keeps the types.
LEMMA TypeStep ==
  ASSUME TypeOK, [Next]_vars
  PROVE  TypeOK'
PROOF
<1>1. CASE FinishMatching
  <2>1. /\ phase = "matching" /\ phase' = "settling"
        /\ UNCHANGED <<placed, money, portfolio, nextID, listed, starts, orders, taker,
                       trades, responses, thrown>>
        /\ \/ qty' = qty
           \/ qty' = [qty EXCEPT ![taker] = 0]
        /\ \/ book' = book
           \/ book' = [book EXCEPT ![placed[taker].symbol] = @ \cup {taker}]
    BY <1>1 DEF FinishMatching, ledgerVars, envVars
  <2>2. taker \in Ids
    BY <2>1, TypeParts
  <2>3. book' \in [Symbols -> SUBSET Ids]
    <3>1. book \in [Symbols -> SUBSET Ids]
      BY TypeParts
    <3>2. \/ book' = book
          \/ book' = [book EXCEPT ![placed[taker].symbol] = @ \cup {taker}]
      BY <2>1
    <3> QED
      BY <2>2, <3>1, <3>2
  <2>4. qty' \in Seq(Int) /\ Len(qty') = Len(qty)
    <3>1. qty \in Seq(Int) /\ taker \in 1..Len(qty) /\ 0 \in Int
      BY <2>2 DEF TypeOK, Ids
    <3>2. qty' = qty \/ qty' = [qty EXCEPT ![taker] = 0]
      BY <2>1
    <3> QED
      BY <3>1, <3>2, ExceptSeq
  <2>5. Ids' = Ids /\ Trade' = Trade
    BY <2>1 DEF Ids, Trade
  <2>6. taker # NoOrder
    BY <2>1, TypeParts
  <2> HIDE DEF Trade
  <2> QED
    BY <2>1, <2>3, <2>4, <2>5, <2>6 DEF TypeOK
<1>2. CASE Settle
  <2>1. /\ trades # << >>
        /\ MakerID(Head(trades)) \in DOMAIN orders
        /\ TakerID(Head(trades)) \in DOMAIN orders
        /\ UpdateUsers(Head(trades))
        /\ responses' = responses \o Confirmations(Head(trades))
        /\ orders' = orders \/ orders' = Without(MakerID(Head(trades)))
        /\ trades' = Tail(trades)
        /\ UNCHANGED <<placed, qty, book, nextID, listed, starts, phase, taker, thrown>>
    BY <1>2 DEF Settle, AfterTrade, bookVars, envVars
  <2>2. money' \in [Users -> Int] /\ portfolio' \in [Users -> [Symbols -> Int]]
    BY <2>1, PendingTrade, LedgerType
  <2>3. responses' \in Seq(Messages)
    <3>1. Confirmations(Head(trades)) \in Seq(Messages)
      BY <2>1, PendingTrade, ConfirmationsType
    <3> HIDE DEF Messages
    <3> QED
      BY <2>1, <3>1, TypeParts, ConcatProperties
  <2>4. /\ DOMAIN orders' \subseteq OrderIDs
        /\ \A id \in DOMAIN orders' : orders'[id] \in Ids
    BY <2>1, SmallerIndex, TypeParts
  <2>5. trades' \in Seq(Trade)
    BY <2>1, PendingTrade
  <2> HIDE DEF Messages
  <2> QED
    BY <2>1, <2>2, <2>3, <2>4, <2>5, TypeFrame, TypeParts
<1>3. CASE SettleThrows
  <2>1. /\ trades # << >>
        /\ UNCHANGED <<money, portfolio>> \/ UpdateUsers(Head(trades))
        /\ thrown' = TRUE /\ responses' = << >> /\ phase' = "idle"
        /\ taker' = NoOrder /\ trades' = << >>
        /\ UNCHANGED <<placed, qty, book, nextID, listed, starts, orders>>
    BY <1>3 DEF SettleThrows, bookVars, ledgerVars, envVars
  <2>2. money' \in [Users -> Int] /\ portfolio' \in [Users -> [Symbols -> Int]]
    BY <2>1, PendingTrade, LedgerType, TypeParts
  <2>3. responses' \in Seq(Messages) /\ trades' \in Seq(Trade)
    BY <2>1
  <2> HIDE DEF Messages
  <2> QED
    BY <2>1, <2>2, <2>3, TypeFrame, TypeParts
<1>4. CASE EndPlaceOrder
  <2>1. /\ phase = "settling"
        /\ responses' = <<RestingMessage(taker)>> \/ responses' = responses
        /\ orders' = orders \/ orders' = Without(placed[taker].id)
        /\ phase' = "idle" /\ taker' = NoOrder
        /\ UNCHANGED <<placed, qty, book, money, portfolio, nextID, listed, starts,
                       trades, thrown>>
    BY <1>4 DEF EndPlaceOrder, AfterOrder, bookVars, ledgerVars, envVars
  <2>2. taker \in Ids
    BY <2>1, TypeParts
  <2>3. RestingMessage(taker) \in Messages
    BY <2>2, ObjectFields DEF RestingMessage, Messages, OrderMessage
  <2> HIDE DEF Messages
  <2>4. responses' \in Seq(Messages)
    <3>1. <<RestingMessage(taker)>> \in Seq(Messages) /\ responses \in Seq(Messages)
      BY <2>3, TypeParts
    <3>2. responses' = <<RestingMessage(taker)>> \/ responses' = responses
      BY <2>1
    <3> QED
      BY <3>1, <3>2
  <2>5. /\ DOMAIN orders' \subseteq OrderIDs
        /\ \A id \in DOMAIN orders' : orders'[id] \in Ids
    BY <2>1, SmallerIndex, TypeParts
  <2> QED
    BY <2>1, <2>4, <2>5, TypeFrame, TypeParts
<1>5. CASE UNCHANGED vars
  <2>1. UNCHANGED <<placed, qty, book, money, portfolio, nextID, listed, starts, orders,
                    phase, taker, trades, responses, thrown>>
    BY <1>5 DEF vars, bookVars, ledgerVars, envVars
  <2> HIDE DEF Messages
  <2> QED
    BY <2>1, TypeFrame, TypeParts
<1> QED
  BY <1>1, <1>2, <1>3, <1>4, <1>5, MatchType, CallTypes DEF Next, CallStep

\* Types of the initial state.
LEMMA InitType ==
  ASSUME Init
  PROVE  TypeOK
PROOF
<1>1. /\ placed = << >> /\ qty = << >> /\ orders = << >> /\ trades = << >>
      /\ responses = << >> /\ phase = "idle" /\ taker = NoOrder
      /\ book = [symbol \in Symbols |-> {}] /\ listed = {}
      /\ money = [user \in Users |-> 0]
      /\ portfolio = [user \in Users |-> [symbol \in Symbols |-> 0]]
      /\ nextID = [sender \in Senders |-> 1] /\ starts = 0
  BY DEF Init
<1>2. thrown \in BOOLEAN
  BY Zenon DEF Init
<1>3. DOMAIN orders = {}
  BY <1>1
<1>4. 1 \in 1..(MaxID + 1) /\ 0 \in 0..MaxStarts
  BY MaxIDAssumption, MaxStartsAssumption
<1> HIDE DEF OrderObject, Trade, OrderMessage, CancelMessages
<1>5. /\ placed \in Seq(OrderObject) /\ qty \in Seq(Int) /\ Len(qty) = Len(placed)
      /\ trades \in Seq(Trade) /\ responses \in Seq(OrderMessage \cup CancelMessages)
  BY <1>1
<1> QED
  BY <1>1, <1>2, <1>3, <1>4, <1>5 DEF TypeOK

\* Every variable keeps its type: the type invariant holds throughout.
THEOREM TypeCorrect == Spec => []TypeOK
PROOF
<1>1. Init => TypeOK
  BY InitType
<1>2. TypeOK /\ [Next]_vars => TypeOK'
  BY TypeStep
<1> QED
  BY <1>1, <1>2, PTL DEF Spec

-----------------------------------------------------------------------------
(* What holds for any order IDs, unique or not *)

\* The index has an order under the ID it was placed with.
IndexHasOwnIDs == \A id \in DOMAIN orders : placed[orders[id]].id = id

\* What rests, comes in or was traded is of users: the orders of strangers
\* are never matched.
OfUsers ==
  /\ \A symbol \in Symbols : \A o \in book[symbol] : placed[o].user \in Users
  /\ phase # "idle" => placed[taker].user \in Users
  /\ \A i \in 1..Len(trades) : /\ placed[trades[i].maker].user \in Users
                               /\ placed[trades[i].taker].user \in Users

AnyInv == TypeOK /\ IndexHasOwnIDs /\ OfUsers /\ Conserved

\* A trade between two users leaves every sum.
LEMMA TradeConserves ==
  ASSUME TypeOK, Conserved, NEW trade, trade.maker \in Ids, trade.filled \in Int,
         trade.price \in Int, Buyer(trade) \in Users, Seller(trade) \in Users,
         UpdateUsers(trade)
  PROVE  Conserved'
PROOF
<1> DEFINE amount == trade.filled * trade.price
           buyer  == Buyer(trade)
           seller == Seller(trade)
           symbol == placed[trade.maker].symbol
           shares(s)  == [user \in Users |-> portfolio[user][s]]
           shares1(s) == [user \in Users |-> portfolio'[user][s]]
<1>1. /\ money' = [user \in Users |-> money[user] - Share(trade, user, amount)]
      /\ portfolio' = [user \in Users |-> [portfolio[user] EXCEPT ![symbol] =
                                             @ + Share(trade, user, trade.filled)]]
      /\ amount \in Int /\ symbol \in Symbols
  BY ObjectFields DEF UpdateUsers
<1>2. ASSUME NEW n \in Int
      PROVE  /\ buyer = seller => \A user : Share(trade, user, n) = 0
             /\ buyer # seller =>
                  /\ Share(trade, buyer, n) = n
                  /\ Share(trade, seller, n) = -n
                  /\ \A user : user \notin {buyer, seller} => Share(trade, user, n) = 0
  BY DEF Share
<1>3. /\ money \in [Users -> Int] /\ money' \in [Users -> Int]
      /\ portfolio \in [Users -> [Symbols -> Int]]
      /\ portfolio' \in [Users -> [Symbols -> Int]]
  BY LedgerType, TypeParts
<1>4. buyer \in Users /\ seller \in Users /\ trade.filled \in Int
  OBVIOUS
<1>5. IsFiniteSet(Users)
  BY UsersFinite
<1> HIDE DEF amount, buyer, seller, symbol
<1>6. SumFunction(money') = SumFunction(money)
  <2>1. CASE buyer = seller
    <3>1. \A user \in Users : money'[user] = money[user]
      BY <1>1, <1>2, <1>3, <2>1
    <3> QED
      BY <1>3, <3>1
  <2>2. CASE buyer # seller
    <3>1. /\ Share(trade, buyer, amount) = amount
          /\ Share(trade, seller, amount) = -amount
          /\ \A user : user \notin {buyer, seller} => Share(trade, user, amount) = 0
      BY <1>1, <1>2, <2>2
    <3>2. \A user \in Users : money'[user] = money[user] - Share(trade, user, amount)
      BY <1>1
    <3>3. /\ money'[seller] = money[seller] + amount
          /\ money'[buyer] = money[buyer] - amount
      BY <1>1, <1>3, <1>4, <3>1, <3>2
    <3>4. \A user \in Users : user \notin {seller, buyer} => money'[user] = money[user]
      BY <1>3, <3>1, <3>2
    <3>5. Moves(money, money', seller, buyer, amount)
      BY <1>3, <2>2, <3>3, <3>4 DEF Moves
    <3> QED
      BY <1>1, <1>3, <1>4, <1>5, <3>5, SumMoves
  <2> QED
    BY <2>1, <2>2
<1>7. ASSUME NEW s \in Symbols
      PROVE  SumFunction(shares1(s)) = SumFunction(shares(s))
  <2>1. shares(s) \in [Users -> Int] /\ shares1(s) \in [Users -> Int]
    BY <1>3
  <2>2. \A user \in Users :
          shares1(s)[user] = IF s = symbol
                             THEN shares(s)[user] + Share(trade, user, trade.filled)
                             ELSE shares(s)[user]
    BY <1>1, <1>3
  <2> HIDE DEF shares, shares1
  <2>3. CASE buyer = seller \/ s # symbol
    <3>1. s = symbol => \A user : Share(trade, user, trade.filled) = 0
      BY <1>2, <1>4, <2>3
    <3>2. \A user \in Users : shares1(s)[user] = shares(s)[user]
      BY <2>1, <2>2, <3>1
    <3>3. shares1(s) = shares(s)
      BY <2>1, <3>2
    <3> QED
      BY <3>3
  <2>4. CASE buyer # seller /\ s = symbol
    <3> DEFINE n == trade.filled
    <3>1. /\ Share(trade, buyer, n) = n /\ Share(trade, seller, n) = -n
          /\ \A user : user \notin {buyer, seller} => Share(trade, user, n) = 0
      BY <1>2, <1>4, <2>4
    <3>2. \A user \in Users : shares1(s)[user] = shares(s)[user] + Share(trade, user, n)
      BY <2>2, <2>4
    <3>3. n \in Int
      BY <1>4
    <3> HIDE DEF n
    <3>4. /\ shares1(s)[buyer] = shares(s)[buyer] + n
          /\ shares1(s)[seller] = shares(s)[seller] - n
      BY <1>4, <2>1, <3>1, <3>2, <3>3
    <3>5. \A user \in Users : user \notin {buyer, seller} =>
            shares1(s)[user] = shares(s)[user]
      BY <2>1, <3>1, <3>2
    <3>6. Moves(shares(s), shares1(s), buyer, seller, n)
      BY <2>1, <2>4, <3>4, <3>5 DEF Moves
    <3> QED
      BY <1>4, <1>5, <2>1, <3>3, <3>6, SumMoves
  <2> QED
    BY <2>3, <2>4
<1>8. SumFunction(money) = 0 /\ \A s \in Symbols : SumFunction(shares(s)) = 0
  BY DEF Conserved
<1>9. SumFunction(money') = 0 /\ \A s \in Symbols : SumFunction(shares1(s)) = 0
  <2> HIDE DEF shares, shares1
  <2> QED
    BY <1>6, <1>7, <1>8
<1> QED
  BY <1>9 DEF Conserved

\* The buyer and the seller of a pending trade are users.
LEMMA TradersAreUsers ==
  ASSUME TypeOK, OfUsers, trades # << >>
  PROVE  Buyer(Head(trades)) \in Users /\ Seller(Head(trades)) \in Users
PROOF
<1>1. Head(trades) = trades[1] /\ 1 \in 1..Len(trades)
  <2>1. trades \in Seq(Trade)
    BY TypeParts
  <2> HIDE DEF Trade
  <2> QED
    BY <2>1, HeadAndTail
<1>2. /\ placed[Head(trades).maker].user \in Users
      /\ placed[Head(trades).taker].user \in Users
  BY <1>1 DEF OfUsers
<1> QED
  BY <1>2 DEF Buyer, Seller

\* The ledger is left alone.
LEMMA LedgerKept ==
  ASSUME Conserved, UNCHANGED ledgerVars
  PROVE  Conserved'
PROOF
  BY DEF Conserved, ledgerVars

\* The steps that are not a turn of placeOrder keep AnyInv.
LEMMA AnyCalls ==
  ASSUME AnyInv, TypeOK'
  PROVE  /\ Start => AnyInv'
         /\ \A sender \in Senders, order \in Orders, symbol \in listed, id \in OrderIDs :
              AcceptOrder(sender, order, symbol, id) => AnyInv'
         /\ \A sender, order, symbol, id : RejectOrder(sender, order, symbol, id) => AnyInv'
         /\ \A sender, id : CancelOrder(sender, id) => AnyInv'
PROOF
<1>0. TypeOK /\ IndexHasOwnIDs /\ OfUsers /\ Conserved
  BY DEF AnyInv
<1>1. ASSUME Start PROVE AnyInv'
  <2>1. /\ UNCHANGED <<placed, orders, phase, taker, trades>> /\ UNCHANGED ledgerVars
        /\ book' = [symbol \in Symbols |-> {}]
    BY <1>1 DEF Start
  <2>2. IndexHasOwnIDs' /\ OfUsers'
    BY <1>0, <2>1 DEF IndexHasOwnIDs, OfUsers
  <2> QED
    BY <1>0, <2>1, <2>2, LedgerKept DEF AnyInv
<1>2. ASSUME NEW sender, NEW order, NEW symbol, NEW id, RejectOrder(sender, order, symbol, id)
      PROVE  AnyInv'
  <2>1. UNCHANGED <<placed, orders, book, phase, taker, trades>> /\ UNCHANGED ledgerVars
    BY <1>2 DEF RejectOrder, bookVars
  <2>2. IndexHasOwnIDs' /\ OfUsers'
    BY <1>0, <2>1 DEF IndexHasOwnIDs, OfUsers
  <2> QED
    BY <1>0, <2>1, <2>2, LedgerKept DEF AnyInv
<1>3. ASSUME NEW sender \in Senders, NEW order \in Orders, NEW symbol \in listed,
             NEW id \in OrderIDs, AcceptOrder(sender, order, symbol, id)
      PROVE  AnyInv'
  <2>1. /\ \A o \in Ids : placed'[o] = placed[o]
        /\ placed'[Len(placed) + 1] = NewOrder(id, sender, symbol, order)
        /\ DOMAIN orders' = DOMAIN orders \cup {id}
        /\ orders'[id] = Len(placed) + 1
        /\ \A i \in DOMAIN orders \ {id} : orders'[i] = orders[i]
    <3>1. Accepts(sender, order, symbol, id)
      BY <1>0, <1>3, Accepted
    <3> QED
      BY <3>1 DEF Accepts
  <2>2. /\ phase = "idle" /\ UNCHANGED <<book, trades>> /\ UNCHANGED ledgerVars
        /\ \/ sender = NoUser /\ phase' = "idle"
           \/ sender # NoUser /\ taker' = Len(placed) + 1
    BY <1>3 DEF AcceptOrder
  <2>3. NewOrder(id, sender, symbol, order).id = id
        /\ NewOrder(id, sender, symbol, order).user = sender
    BY DEF NewOrder
  <2>4. IndexHasOwnIDs'
    <3>1. ASSUME NEW i \in DOMAIN orders' PROVE placed'[orders'[i]].id = i
      <4>1. CASE i = id
        BY <2>1, <2>3, <4>1
      <4>2. CASE i # id
        <5>1. i \in DOMAIN orders /\ orders'[i] = orders[i]
          BY <2>1, <3>1, <4>2
        <5>2. orders[i] \in Ids
          BY <1>0, <5>1, TypeParts
        <5> QED
          BY <1>0, <2>1, <5>1, <5>2 DEF IndexHasOwnIDs
      <4> QED
        BY <4>1, <4>2
    <3> QED
      BY <3>1 DEF IndexHasOwnIDs
  <2>5. OfUsers'
    <3>1. ASSUME NEW s \in Symbols, NEW o \in book'[s] PROVE placed'[o].user \in Users
      <4>1. o \in book[s] /\ o \in Ids
        BY <1>0, <2>2, <3>1, TypeParts
      <4> QED
        BY <1>0, <2>1, <4>1 DEF OfUsers
    <3>2. ASSUME phase' # "idle" PROVE placed'[taker'].user \in Users
      <4>1. sender \in Users
        BY <2>2, <3>2, SendersAssumption
      <4> QED
        BY <2>1, <2>2, <2>3, <3>2, <4>1
    <3>3. ASSUME NEW i \in 1..Len(trades')
          PROVE  /\ placed'[trades'[i].maker].user \in Users
                 /\ placed'[trades'[i].taker].user \in Users
      <4>1. trades' = trades /\ trades[i] \in Trade
        BY <1>0, <2>2, <3>3, TypeParts
      <4>2. trades[i].maker \in Ids /\ trades[i].taker \in Ids
        BY <4>1 DEF Trade
      <4> QED
        BY <1>0, <2>1, <3>3, <4>1, <4>2 DEF OfUsers
    <3> QED
      BY <3>1, <3>2, <3>3 DEF OfUsers
  <2> QED
    BY <1>0, <2>2, <2>4, <2>5, LedgerKept DEF AnyInv
<1>4. ASSUME NEW sender, NEW id, CancelOrder(sender, id)
      PROVE  AnyInv'
  <2>1. UNCHANGED <<placed, orders, phase, taker, trades>> /\ UNCHANGED ledgerVars
    BY <1>4 DEF CancelOrder
  <2>2. \A symbol \in Symbols : book'[symbol] \subseteq book[symbol]
    <3>1. book \in [Symbols -> SUBSET Ids]
      BY <1>0, TypeParts
    <3> QED
      BY <1>4, <3>1 DEF CancelOrder
  <2>3. IndexHasOwnIDs' /\ OfUsers'
    BY <1>0, <2>1, <2>2 DEF IndexHasOwnIDs, OfUsers
  <2> QED
    BY <1>0, <2>1, <2>3, LedgerKept DEF AnyInv
<1> QED
  BY <1>1, <1>2, <1>3, <1>4

\* A turn of placeOrder keeps AnyInv.
LEMMA AnyTurns ==
  ASSUME AnyInv, TypeOK', CallStep
  PROVE  AnyInv'
PROOF
<1>0. TypeOK /\ IndexHasOwnIDs /\ OfUsers /\ Conserved
  BY DEF AnyInv
<1>1. trades \in Seq(Trade) /\ book \in [Symbols -> SUBSET Ids]
  BY <1>0, TypeParts
<1>2. ASSUME NEW maker \in Ids, Match(maker) PROVE AnyInv'
  <2>1. /\ phase = "matching" /\ taker \in Ids /\ UNCHANGED <<placed, orders, phase, taker>>
        /\ UNCHANGED ledgerVars /\ maker \in book[placed[taker].symbol]
    BY <1>0, <1>2, MatchFacts
  <2>2. PICK filled \in Int :
          /\ book' = IF qty[maker] = filled
                     THEN [book EXCEPT ![placed[taker].symbol] = @ \ {maker}] ELSE book
          /\ trades' = Append(trades, MakeTrade(maker, filled))
    BY <1>0, <1>2, MatchFacts
  <2> DEFINE t == MakeTrade(maker, filled)
  <2>3. t \in Trade /\ t.maker = maker /\ t.taker = taker
    BY <1>0, <2>1, TradeFields
  <2>4. placed[maker].user \in Users /\ placed[taker].user \in Users
    <3>1. placed[taker].symbol \in Symbols
      BY <1>0, <2>1, ObjectFields
    <3> QED
      BY <1>0, <2>1, <3>1 DEF OfUsers
  <2> HIDE DEF t
  <2>5. ASSUME NEW i \in 1..Len(trades')
        PROVE  /\ placed[trades'[i].maker].user \in Users
               /\ placed[trades'[i].taker].user \in Users
    <3>1. /\ trades' = Append(trades, t) /\ Len(trades) \in Nat
          /\ Len(trades') = Len(trades) + 1
          /\ \A j \in 1..Len(trades) : trades'[j] = trades[j]
          /\ trades'[Len(trades) + 1] = t
      <4> HIDE DEF Trade
      <4> QED
        BY <1>1, <2>2, <2>3, OneMore DEF t
    <3>2. CASE i \in 1..Len(trades)
      BY <1>0, <3>1, <3>2 DEF OfUsers
    <3>3. CASE i = Len(trades) + 1
      BY <2>3, <2>4, <3>1, <3>3
    <3> QED
      BY <3>1, <3>2, <3>3
  <2>6. \A symbol \in Symbols : book'[symbol] \subseteq book[symbol]
    BY <1>1, <2>2
  <2>7. IndexHasOwnIDs' /\ OfUsers'
    BY <1>0, <2>1, <2>5, <2>6 DEF IndexHasOwnIDs, OfUsers
  <2> QED
    BY <1>0, <2>1, <2>7, LedgerKept DEF AnyInv
<1>3. ASSUME FinishMatching PROVE AnyInv'
  <2>1. /\ phase = "matching" /\ UNCHANGED <<placed, orders, taker, trades>>
        /\ UNCHANGED ledgerVars
        /\ \/ book' = book
           \/ book' = [book EXCEPT ![placed[taker].symbol] = @ \cup {taker}]
    BY <1>3 DEF FinishMatching
  <2>2. \A symbol \in Symbols : book'[symbol] \subseteq book[symbol] \cup {taker}
    BY <1>1, <2>1
  <2>3. placed[taker].user \in Users
    BY <1>0, <2>1 DEF OfUsers
  <2>4. IndexHasOwnIDs' /\ OfUsers'
    BY <1>0, <2>1, <2>2, <2>3 DEF IndexHasOwnIDs, OfUsers
  <2> QED
    BY <1>0, <2>1, <2>4, LedgerKept DEF AnyInv
<1>4. ASSUME Settle PROVE AnyInv'
  <2>1. /\ trades # << >> /\ UpdateUsers(Head(trades)) /\ trades' = Tail(trades)
        /\ UNCHANGED <<placed, book, phase, taker>>
        /\ orders' = orders \/ orders' = Without(MakerID(Head(trades)))
    BY <1>4 DEF Settle, AfterTrade, bookVars
  <2>2. /\ Head(trades).maker \in Ids /\ Head(trades).filled \in Int
        /\ Head(trades).price \in Int
    BY <1>0, <2>1, PendingTrade
  <2>3. Conserved'
    BY <1>0, <2>1, <2>2, TradersAreUsers, TradeConserves
  <2>4. IndexHasOwnIDs'
    <3>1. \A id \in DOMAIN orders' : id \in DOMAIN orders /\ orders'[id] = orders[id]
      BY <2>1, WithoutType
    <3> QED
      BY <1>0, <2>1, <3>1 DEF IndexHasOwnIDs
  <2>5. OfUsers'
    <3>1. \A i \in 1..Len(trades') : i + 1 \in 1..Len(trades) /\ trades'[i] = trades[i + 1]
      <4> HIDE DEF Trade
      <4> QED
        BY <1>1, <2>1, HeadAndTail
    <3> QED
      BY <1>0, <2>1, <3>1 DEF OfUsers
  <2> QED
    BY <2>3, <2>4, <2>5 DEF AnyInv
<1>5. ASSUME SettleThrows PROVE AnyInv'
  <2>1. /\ trades # << >> /\ UNCHANGED <<placed, book, orders>> /\ phase' = "idle"
        /\ trades' = << >>
        /\ UNCHANGED ledgerVars \/ UpdateUsers(Head(trades))
    BY <1>5 DEF SettleThrows, bookVars
  <2>2. /\ Head(trades).maker \in Ids /\ Head(trades).filled \in Int
        /\ Head(trades).price \in Int
    BY <1>0, <2>1, PendingTrade
  <2>3. Conserved'
    BY <1>0, <2>1, <2>2, TradersAreUsers, TradeConserves, LedgerKept
  <2>4. Len(trades') = 0
    BY <2>1
  <2>5. IndexHasOwnIDs' /\ OfUsers'
    BY <1>0, <2>1, <2>4 DEF IndexHasOwnIDs, OfUsers
  <2> QED
    BY <2>3, <2>5 DEF AnyInv
<1>6. ASSUME EndPlaceOrder PROVE AnyInv'
  <2>1. /\ phase' = "idle" /\ UNCHANGED <<placed, book, trades>> /\ UNCHANGED ledgerVars
        /\ orders' = orders \/ orders' = Without(placed[taker].id)
    BY <1>6 DEF EndPlaceOrder, AfterOrder, bookVars
  <2>2. \A id \in DOMAIN orders' : id \in DOMAIN orders /\ orders'[id] = orders[id]
    BY <2>1, WithoutType
  <2>3. IndexHasOwnIDs' /\ OfUsers'
    BY <1>0, <2>1, <2>2 DEF IndexHasOwnIDs, OfUsers
  <2> QED
    BY <1>0, <2>1, <2>3, LedgerKept DEF AnyInv
<1> QED
  BY <1>2, <1>3, <1>4, <1>5, <1>6 DEF CallStep

\* Nothing is lost yet in the initial state.
LEMMA AnyStarts ==
  ASSUME Init
  PROVE  AnyInv
PROOF
<1>1. /\ orders = << >> /\ phase = "idle" /\ trades = << >>
      /\ book = [symbol \in Symbols |-> {}]
      /\ money = [user \in Users |-> 0]
      /\ portfolio = [user \in Users |-> [symbol \in Symbols |-> 0]]
  BY DEF Init
<1>2. DOMAIN orders = {} /\ Len(trades) = 0
  BY <1>1
<1>3. IndexHasOwnIDs /\ OfUsers
  BY <1>1, <1>2 DEF IndexHasOwnIDs, OfUsers
<1>4. SumFunction(money) = 0
  BY <1>1, UsersFinite, SumOfNothing
<1>5. ASSUME NEW s \in Symbols
      PROVE  SumFunction([user \in Users |-> portfolio[user][s]]) = 0
  <2> DEFINE f == [user \in Users |-> portfolio[user][s]]
  <2>1. f \in [Users -> Int] /\ \A user \in Users : f[user] = 0
    BY <1>1
  <2> HIDE DEF f
  <2>2. SumFunction(f) = 0
    BY <2>1, UsersFinite, SumOfNothing
  <2> QED
    BY <2>2 DEF f
<1> QED
  BY <1>3, <1>4, <1>5, InitType DEF AnyInv, Conserved

\* AnyInv holds throughout, whatever IDs the clients choose.
LEMMA AnyHolds == Spec => []AnyInv
PROOF
<1>1. Init => AnyInv
  BY AnyStarts
<1>2. ASSUME AnyInv, [Next]_vars PROVE AnyInv'
  <2>0. TypeOK'
    BY <1>2, TypeStep DEF AnyInv
  <2>1. CASE UNCHANGED vars
    <3>1. UNCHANGED <<placed, book, orders, phase, taker, trades>> /\ UNCHANGED ledgerVars
      BY <2>1 DEF vars, bookVars
    <3>2. IndexHasOwnIDs' /\ OfUsers'
      BY <1>2, <3>1 DEF AnyInv, IndexHasOwnIDs, OfUsers
    <3> QED
      BY <1>2, <2>0, <3>1, <3>2, LedgerKept DEF AnyInv
  <2>2. ASSUME NEW sender \in Senders, NEW order \in Orders, NEW id \in OrderIDs,
               PlaceOrder(sender, order, id)
        PROVE  AnyInv'
    <3>1. PICK symbol \in listed : AcceptOrder(sender, order, symbol, id)
      BY <2>2 DEF PlaceOrder
    <3> QED
      BY <1>2, <2>0, <3>1, AnyCalls
  <2>3. ASSUME NEW sender \in Senders, NEW order \in Orders, NEW id \in OrderIDs,
               PlaceUnknown(sender, order, id)
        PROVE  AnyInv'
    <3>1. PICK symbol : RejectOrder(sender, order, symbol, id)
      BY <2>3 DEF PlaceUnknown
    <3> QED
      BY <1>2, <2>0, <3>1, AnyCalls
  <2> QED
    BY <1>2, <2>0, <2>1, <2>2, <2>3, AnyCalls, AnyTurns DEF Next
<1> QED
  BY <1>1, <1>2, PTL DEF Spec

\* No cent and no share is made or lost, for any IDs and when a call throws
\* halfway too: what UpdateUsers takes from one user it gives to another.
THEOREM NothingIsLost == Spec => []Conserved
PROOF
<1>1. AnyInv => Conserved
  BY DEF AnyInv
<1> QED
  BY <1>1, AnyHolds, PTL

\* An order leaves a book only for a reason its owner is told of: it is
\* filled, its cancel succeeds, or the market is started again.  Holds for
\* any IDs, as the index has every order under its own ID.
THEOREM OrdersLeaveForAReason == Spec => LeavesForAReason
PROOF
<1> DEFINE Reason(symbol, o) ==
      \/ qty'[o] = 0
      \/ starts' > starts
      \/ \E sender \in Senders :
           responses' = <<CancelMessage(sender, placed[o].id, TRUE)>>
<1>1. ASSUME AnyInv, [Next]_vars, NEW symbol \in Symbols,
             NEW o \in book[symbol], o \notin book'[symbol]
      PROVE  Reason(symbol, o)
  <2>0. TypeOK /\ book \in [Symbols -> SUBSET Ids] /\ o \in Ids
    BY <1>1, TypeParts DEF AnyInv
  <2>1. CASE Start
    <3>1. starts \in Nat /\ starts' = starts + 1
      BY <2>0, <2>1, MaxStartsAssumption DEF Start, TypeOK
    <3>2. starts' > starts
      BY <3>1
    <3> QED
      BY <3>2
  <2>2. ASSUME NEW sender \in Senders, NEW id \in OrderIDs, CancelOrder(sender, id)
        PROVE  Reason(symbol, o)
    <3>1. /\ id \in DOMAIN orders
          /\ responses' = <<CancelMessage(sender, id, orders[id] \in
                                            book[placed[orders[id]].symbol])>>
          /\ book' = [book EXCEPT ![placed[orders[id]].symbol] = @ \ {orders[id]}]
      BY <1>1, <2>2 DEF CancelOrder, Withdrawn
    <3>2. symbol = placed[orders[id]].symbol /\ o = orders[id]
      BY <1>1, <2>0, <3>1
    <3>3. placed[o].id = id
      BY <1>1, <3>1, <3>2 DEF AnyInv, IndexHasOwnIDs
    <3>4. responses' = <<CancelMessage(sender, placed[o].id, TRUE)>>
      <4>1. (orders[id] \in book[placed[orders[id]].symbol]) = TRUE
        BY <3>2
      <4> QED
        BY <3>1, <3>3, <4>1
    <3> QED
      BY <3>4
  <2>3. ASSUME NEW maker \in Ids, Match(maker) PROVE Reason(symbol, o)
    <3>1. maker # taker /\ taker \in Ids
      BY <2>0, <2>3, MatchFacts
    <3>2. PICK filled \in Int :
            /\ qty' = [qty EXCEPT ![maker] = qty[maker] - filled,
                                  ![taker] = qty[taker] - filled]
            /\ book' = IF qty[maker] = filled
                       THEN [book EXCEPT ![placed[taker].symbol] = @ \ {maker}] ELSE book
      BY <2>0, <2>3, MatchFacts
    <3>3. o = maker /\ qty[maker] = filled
      BY <1>1, <2>0, <3>2
    <3>4. qty \in Seq(Int) /\ maker \in 1..Len(qty) /\ taker \in 1..Len(qty)
      BY <2>0, <3>1 DEF TypeOK, Ids
    <3>5. /\ qty[maker] - filled \in Int /\ qty[taker] - filled \in Int
          /\ qty[maker] - filled = 0
      BY <3>3, <3>4
    <3>6. qty'[maker] = qty[maker] - filled
      BY <3>1, <3>2, <3>4, <3>5, ReplaceTwo
    <3> QED
      BY <3>3, <3>5, <3>6
  <2>4. ASSUME \/ FinishMatching \/ Settle \/ SettleThrows \/ EndPlaceOrder
               \/ UNCHANGED vars
               \/ \E sender \in Senders, order \in Orders, id \in OrderIDs :
                    PlaceOrder(sender, order, id) \/ PlaceUnknown(sender, order, id)
        PROVE  FALSE
    <3>1. \A s \in Symbols : book[s] \subseteq book'[s]
      BY <2>0, <2>4 DEF FinishMatching, Settle, SettleThrows, EndPlaceOrder, PlaceOrder,
         PlaceUnknown, AcceptOrder, RejectOrder, vars, bookVars
    <3> QED
      BY <1>1, <3>1
  <2> QED
    BY <1>1, <2>1, <2>2, <2>3, <2>4 DEF Next, CallStep
<1>2. AnyInv /\ [Next]_vars =>
        [\A symbol \in Symbols : \A o \in book[symbol] \ book'[symbol] :
           Reason(symbol, o)]_vars
  BY <1>1
<1> QED
  BY <1>2, AnyHolds, PTL DEF Spec, LeavesForAReason

-----------------------------------------------------------------------------
(* The inductive invariant, for unique order IDs *)

\* No two orders came under the same ID.
UniqueIDs == \A o, other \in Ids : placed[o].id = placed[other].id => o = other

\* So the index, which has every order under its own ID, has no other there.
IDsAreGood == UniqueIDs /\ IndexHasOwnIDs

\* The index leads to the order.
Indexed(o) == placed[o].id \in DOMAIN orders /\ orders[placed[o].id] = o

\* What rests has something left, is indexed and belongs to a user; the order
\* being matched does not rest yet.
RestingIsGood ==
  \A symbol \in Symbols : \A o \in book[symbol] :
    /\ Indexed(o)
    /\ phase = "matching" => o # taker
    /\ qty[o] > 0
    /\ placed[o].symbol = symbol
    /\ placed[o].user \in Users

\* While a call runs it has not thrown, and its order is indexed and a user's;
\* between two calls no trade is pending.
CallIsGood ==
  /\ phase # "idle" =>
       ~thrown /\ Indexed(taker) /\ placed[taker].user \in Users
  /\ phase = "idle" => trades = << >>

\* A pending trade: the incoming order and an order of the other side, indexed
\* and a user's, with nothing left of it if the trade says so.
GoodTrade(t) ==
  /\ Indexed(t.maker)
  /\ t.maker # taker
  /\ t.taker = taker
  /\ t.price = placed[t.maker].price
  /\ placed[t.maker].user \in Users
  /\ placed[t.maker].side = Opposite(placed[taker].side)
  /\ t.makerRemaining = 0 => qty[t.maker] = 0

TradesAreGood ==
  /\ \A i \in 1..Len(trades) : GoodTrade(trades[i])
  /\ \A i, j \in 1..Len(trades) : trades[i].maker = trades[j].maker => i = j
  /\ phase = "matching" /\ qty[taker] > 0 =>
       \A i \in 1..Len(trades) : trades[i].makerRemaining = 0

\* What is filled and still in the index is about to leave it, or was
\* abandoned.
FilledIsPending ==
  \A o \in Ids : Indexed(o) =>
    \/ qty[o] # 0
    \/ placed[o].user = NoUser
    \/ o = taker
    \/ \E i \in 1..Len(trades) : trades[i].maker = o /\ trades[i].makerRemaining = 0

IInv ==
  /\ TypeOK
  /\ IDsAreGood
  /\ RestingIsGood
  /\ CallIsGood
  /\ TradesAreGood
  /\ FilledIsPending
  /\ ThrowsForStrangersOnly

\* What the invariant says of the order that is being handled.
LEMMA TakerFacts ==
  ASSUME IInv, phase # "idle"
  PROVE  /\ taker \in Ids /\ taker # NoOrder /\ ~thrown
         /\ Indexed(taker) /\ placed[taker].user \in Users
         /\ placed[taker].symbol \in Symbols /\ qty[taker] \in Int
PROOF
<1>1. TypeOK /\ taker # NoOrder /\ taker \in Ids
  BY TypeParts DEF IInv
<1> QED
  BY <1>1, ObjectFields DEF IInv, CallIsGood

\* What the invariant says of what is indexed and what rests.
LEMMA IndexFacts ==
  ASSUME IInv
  PROVE  /\ \A id \in DOMAIN orders : orders[id] \in Ids /\ placed[orders[id]].id = id
         /\ NoOrder \notin Ids
         /\ \A o \in Ids : qty[o] \in Int
         /\ \A symbol \in Symbols : book[symbol] \subseteq Ids
PROOF
<1>1. TypeOK
  BY DEF IInv
<1> QED
  BY <1>1, TypeParts, ObjectFields DEF IInv, IDsAreGood, IndexHasOwnIDs

\* Two orders that came under the same ID are one.
LEMMA UniqueFacts ==
  ASSUME IInv, NEW o \in Ids, NEW other \in Ids, placed[o].id = placed[other].id
  PROVE  o = other
PROOF
  BY DEF IInv, IDsAreGood, UniqueIDs

\* A step between two calls that puts nothing into the index or a book keeps
\* the invariant.
LEMMA InvFrame ==
  ASSUME IInv, TypeOK', phase = "idle", thrown' = FALSE,
         UNCHANGED <<placed, qty, orders, phase, taker, trades>>,
         \A symbol \in Symbols : book'[symbol] \subseteq book[symbol]
  PROVE  IInv'
PROOF
<1>1. IDsAreGood'
  BY DEF IInv, IDsAreGood, UniqueIDs, IndexHasOwnIDs, Ids
<1>2. RestingIsGood'
  BY DEF IInv, RestingIsGood, Indexed
<1>3. CallIsGood'
  BY DEF IInv, CallIsGood
<1>4. TradesAreGood'
  BY DEF IInv, TradesAreGood, GoodTrade, Indexed
<1>5. FilledIsPending'
  BY DEF IInv, FilledIsPending, Indexed, Ids
<1>6. ThrowsForStrangersOnly'
  BY DEF ThrowsForStrangersOnly
<1> QED
  BY <1>1, <1>2, <1>3, <1>4, <1>5, <1>6 DEF IInv

\* The steps that are not turns of a call and place no order.
LEMMA InvCalls ==
  ASSUME IInv, TypeOK'
  PROVE  /\ Start => IInv'
         /\ \A sender, order, symbol, id : RejectOrder(sender, order, symbol, id) => IInv'
         /\ \A sender, id : CancelOrder(sender, id) => IInv'
PROOF
<1>0. TypeOK
  BY DEF IInv
<1>1. ASSUME Start PROVE IInv'
  <2>1. /\ phase = "idle" /\ thrown' = FALSE
        /\ UNCHANGED <<placed, qty, orders, phase, taker, trades>>
        /\ \A symbol \in Symbols : book'[symbol] \subseteq book[symbol]
    BY <1>1 DEF Start
  <2> QED
    BY <2>1, InvFrame
<1>2. ASSUME NEW sender, NEW order, NEW symbol, NEW id,
             RejectOrder(sender, order, symbol, id)
      PROVE  IInv'
  <2>1. /\ phase = "idle" /\ thrown' = FALSE
        /\ UNCHANGED <<placed, qty, orders, phase, taker, trades, book>>
    BY <1>2 DEF RejectOrder, bookVars
  <2> QED
    BY <2>1, InvFrame
<1>3. ASSUME NEW sender, NEW id, CancelOrder(sender, id)
      PROVE  IInv'
  <2>1. /\ phase = "idle" /\ thrown' = FALSE
        /\ UNCHANGED <<placed, qty, orders, phase, taker, trades>>
    BY <1>3 DEF CancelOrder
  <2>2. \A symbol \in Symbols : book'[symbol] \subseteq book[symbol]
    <3>1. book \in [Symbols -> SUBSET Ids]
      BY <1>0, TypeParts
    <3>2. \/ book' = book
          \/ book' = [book EXCEPT ![placed[orders[id]].symbol] = @ \ {orders[id]}]
      BY <1>3 DEF CancelOrder, Withdrawn
    <3> QED
      BY <3>1, <3>2
  <2> QED
    BY <2>1, <2>2, InvFrame
<1> QED
  BY <1>1, <1>2, <1>3

\* Placing an order keeps the invariant if its ID is new.
LEMMA InvAccept ==
  ASSUME IInv, TypeOK', UniqueIDs',
         NEW sender \in Senders, NEW order \in Orders, NEW symbol \in listed,
         NEW id \in OrderIDs, AcceptOrder(sender, order, symbol, id)
  PROVE  IInv'
PROOF
<1> PICK new : new = Len(placed) + 1
  OBVIOUS
<1>0. TypeOK
  BY DEF IInv
<1>1. /\ Len(placed') = new
      /\ \A o \in Ids : placed'[o] = placed[o] /\ qty'[o] = qty[o]
      /\ placed'[new] = NewOrder(id, sender, symbol, order)
      /\ Ids' = Ids \cup {new} /\ new \notin Ids
      /\ DOMAIN orders' = DOMAIN orders \cup {id}
      /\ orders'[id] = new
      /\ \A i \in DOMAIN orders \ {id} : orders'[i] = orders[i]
  <2>1. Accepts(sender, order, symbol, id)
    BY <1>0, Accepted
  <2> QED
    BY <2>1 DEF Accepts
<1>2. placed'[new].id = id /\ placed'[new].user = sender /\ new \in Ids'
  BY <1>1 DEF NewOrder
<1>3. \A o \in Ids : placed[o].id # id
  BY <1>1, <1>2 DEF UniqueIDs
<1>4. /\ \A o \in Ids : Indexed(o)' <=> Indexed(o)
      /\ Indexed(new)'
  <2>1. Indexed(new)'
    BY <1>1, <1>2 DEF Indexed
  <2>2. ASSUME NEW o \in Ids PROVE Indexed(o)' <=> Indexed(o)
    BY <1>1, <1>3 DEF Indexed
  <2> QED
    BY <2>1, <2>2
<1>5. /\ phase = "idle" /\ taker = NoOrder /\ trades = << >>
      /\ Len(trades) = 0 /\ trades' = trades /\ book' = book
  <2>1. phase = "idle" /\ trades' = trades /\ book' = book
    BY DEF AcceptOrder
  <2> QED
    BY <1>0, <2>1, TypeParts DEF IInv, CallIsGood
<1>6. IDsAreGood'
  <2>1. ASSUME NEW i \in DOMAIN orders' PROVE placed'[orders'[i]].id = i
    <3>1. CASE i = id
      BY <1>1, <1>2, <3>1
    <3>2. CASE i # id
      BY <1>1, <2>1, <3>2, IndexFacts
    <3> QED
      BY <3>1, <3>2
  <2> QED
    BY <2>1 DEF IDsAreGood, IndexHasOwnIDs
<1>7. \/ sender = NoUser /\ thrown' = TRUE /\ phase' = "idle" /\ taker' = NoOrder
      \/ sender \in Users /\ thrown' = FALSE /\ phase' = "matching" /\ taker' = new
  <2>1. sender \in Users \cup {NoUser}
    BY SendersAssumption
  <2>2. CASE sender = NoUser
    BY <1>5, <2>2 DEF AcceptOrder
  <2>3. CASE sender # NoUser
    BY <2>1, <2>3 DEF AcceptOrder
  <2> QED
    BY <2>2, <2>3
<1>8. RestingIsGood'
  <2>1. ASSUME NEW s \in Symbols, NEW o \in book[s]
        PROVE  /\ Indexed(o)' /\ o # taker' /\ qty'[o] > 0
               /\ placed'[o].symbol = s /\ placed'[o].user \in Users
    <3>1. o \in Ids /\ o # new /\ o # NoOrder
      BY <1>1, IndexFacts
    <3> QED
      BY <1>1, <1>4, <1>7, <3>1 DEF IInv, RestingIsGood
  <2> QED
    BY <1>5, <2>1 DEF RestingIsGood
<1>9. CallIsGood'
  BY <1>2, <1>4, <1>5, <1>7 DEF CallIsGood, Indexed
<1>10. TradesAreGood'
  BY <1>5 DEF TradesAreGood
<1>11. FilledIsPending'
  <2>1. ASSUME NEW o \in Ids', Indexed(o)'
        PROVE  qty'[o] # 0 \/ placed'[o].user = NoUser \/ o = taker'
    <3>1. CASE o = new
      BY <1>2, <1>7, <3>1
    <3>2. CASE o # new
      <4>1. o \in Ids /\ Indexed(o) /\ o # taker
        BY <1>1, <1>4, <1>5, <2>1, <3>2, IndexFacts
      <4>2. qty[o] # 0 \/ placed[o].user = NoUser
        BY <1>5, <4>1 DEF IInv, FilledIsPending
      <4> QED
        BY <1>1, <4>1, <4>2
    <3> QED
      BY <3>1, <3>2
  <2> QED
    BY <2>1 DEF FilledIsPending
<1>12. ThrowsForStrangersOnly'
  BY <1>1, <1>2, <1>7 DEF ThrowsForStrangersOnly
<1> QED
  BY <1>6, <1>8, <1>9, <1>10, <1>11, <1>12 DEF IInv

\* What the invariant says of a pending trade.
LEMMA TradeFacts ==
  ASSUME IInv, NEW i \in 1..Len(trades)
  PROVE  /\ trades[i] \in Trade
         /\ trades[i].maker \in Ids /\ Indexed(trades[i].maker)
         /\ trades[i].makerRemaining \in Int
         /\ GoodTrade(trades[i])
PROOF
<1>1. trades[i] \in Trade
  BY DEF IInv, TypeOK
<1>2. trades[i].maker \in Ids /\ trades[i].makerRemaining \in Int
  BY <1>1 DEF Trade
<1>3. GoodTrade(trades[i])
  BY DEF IInv, TradesAreGood
<1> QED
  BY <1>1, <1>2, <1>3 DEF GoodTrade

\* A turn of the matching keeps the invariant: an order that still rests has
\* not been traded in this call, because what was traded and did not end the
\* loop is filled.
LEMMA InvMatch ==
  ASSUME IInv, NEW maker \in Ids, Match(maker)
  PROVE  IInv'
PROOF
<1>0. TypeOK
  BY DEF IInv
<1> DEFINE symbol == placed[taker].symbol
<1>1. /\ phase = "matching" /\ taker \in Ids
      /\ maker \in book[symbol] /\ maker # taker
      /\ placed[maker].side = Opposite(placed[taker].side)
      /\ qty[taker] > 0
      /\ UNCHANGED <<placed, ledgerVars, envVars, orders, phase, taker, responses, thrown>>
  BY <1>0, MatchFacts
<1>2. PICK filled \in Int :
        /\ filled = qty[maker] \/ filled = qty[taker]
        /\ filled <= qty[maker] /\ filled <= qty[taker]
        /\ qty' = [qty EXCEPT ![maker] = qty[maker] - filled, ![taker] = qty[taker] - filled]
        /\ book' = IF qty[maker] = filled
                   THEN [book EXCEPT ![symbol] = @ \ {maker}] ELSE book
        /\ trades' = Append(trades, MakeTrade(maker, filled))
  BY <1>0, MatchFacts
<1>3. symbol \in Symbols /\ qty[maker] \in Int /\ qty[taker] \in Int
  BY <1>0, <1>1, ObjectFields
<1>4. /\ Indexed(maker) /\ qty[maker] > 0
      /\ placed[maker].symbol = symbol /\ placed[maker].user \in Users
  BY <1>1, <1>3 DEF IInv, RestingIsGood
<1>5. \A o \in Ids : qty'[o] = IF o = taker THEN qty[taker] - filled
                              ELSE IF o = maker THEN qty[maker] - filled ELSE qty[o]
  <2>1. /\ qty \in Seq(Int) /\ Ids = 1..Len(qty)
        /\ qty[maker] - filled \in Int /\ qty[taker] - filled \in Int
    BY <1>0, <1>3 DEF TypeOK, Ids
  <2> QED
    BY <1>1, <1>2, <2>1, ReplaceTwo
<1> DEFINE t == MakeTrade(maker, filled)
<1>6. /\ t \in Trade
      /\ t.maker = maker /\ t.taker = taker /\ t.price = placed[maker].price
      /\ t.makerRemaining = qty[maker] - filled
  BY <1>0, <1>1, TradeFields
<1>7. /\ Len(trades) \in Nat /\ Len(trades') = Len(trades) + 1
      /\ \A i \in 1..Len(trades) : trades'[i] = trades[i]
      /\ trades'[Len(trades) + 1] = t
  <2>1. trades \in Seq(Trade)
    BY <1>0 DEF TypeOK
  <2> HIDE DEF Trade, t
  <2> QED
    BY <1>2, <1>6, <2>1, OneMore DEF t
<1> HIDE DEF t
<1>8. \A i \in 1..Len(trades) :
        /\ trades[i].maker \in Ids
        /\ trades[i].maker # maker /\ trades[i].maker # taker
        /\ trades[i].makerRemaining = 0
        /\ GoodTrade(trades[i])
  <2> SUFFICES ASSUME NEW i \in 1..Len(trades)
               PROVE  /\ trades[i].maker \in Ids
                      /\ trades[i].maker # maker /\ trades[i].maker # taker
                      /\ trades[i].makerRemaining = 0
                      /\ GoodTrade(trades[i])
    OBVIOUS
  <2>1. trades[i].maker \in Ids /\ GoodTrade(trades[i])
    BY TradeFacts
  <2>2. trades[i].makerRemaining = 0
    BY <1>1 DEF IInv, TradesAreGood
  <2>3. qty[trades[i].maker] = 0 /\ trades[i].maker # taker
    BY <2>1, <2>2 DEF GoodTrade
  <2> QED
    BY <1>4, <2>1, <2>2, <2>3
<1>9. IDsAreGood' /\ \A o : Indexed(o)' <=> Indexed(o)
  BY <1>1 DEF IInv, IDsAreGood, UniqueIDs, IndexHasOwnIDs, Indexed, Ids
<1>10. RestingIsGood'
  <2>1. ASSUME NEW s \in Symbols, NEW o \in book'[s]
        PROVE  /\ Indexed(o) /\ o # taker /\ qty'[o] > 0
               /\ placed[o].symbol = s /\ placed[o].user \in Users
    <3>1. book \in [Symbols -> SUBSET Ids]
      BY <1>0, TypeParts
    <3>2. o \in book[s] /\ o \in Ids
      BY <1>2, <3>1
    <3>3. /\ Indexed(o) /\ o # taker /\ qty[o] > 0
          /\ placed[o].symbol = s /\ placed[o].user \in Users
      BY <1>1, <3>2 DEF IInv, RestingIsGood
    <3>4. CASE o = maker
      <4>1. s = symbol
        BY <1>4, <3>3, <3>4
      <4>2. filled < qty[maker]
        <5>1. qty[maker] # filled
          BY <1>2, <1>3, <3>1, <3>4, <4>1
        <5> QED
          BY <1>2, <1>3, <5>1
      <4>3. qty'[o] = qty[maker] - filled
        BY <1>5, <3>2, <3>3, <3>4
      <4> QED
        BY <1>3, <3>3, <4>2, <4>3
    <3> QED
      BY <1>5, <3>2, <3>3, <3>4
  <2> QED
    BY <1>1, <1>9, <2>1 DEF RestingIsGood
<1>11. CallIsGood'
  BY <1>1, <1>9 DEF IInv, CallIsGood
<1>12. TradesAreGood'
  <2>1. ASSUME NEW i \in 1..Len(trades') PROVE GoodTrade(trades[i])'
    <3>1. CASE i \in 1..Len(trades)
      <4>1. GoodTrade(trades[i]) /\ trades'[i] = trades[i] /\ trades[i].maker \in Ids
        BY <1>7, <1>8, <3>1
      <4>2. qty'[trades[i].maker] = qty[trades[i].maker]
        BY <1>5, <1>8, <3>1
      <4> QED
        BY <1>1, <1>9, <4>1, <4>2 DEF GoodTrade
    <3>2. CASE i = Len(trades) + 1
      <4>1. trades'[i] = t
        BY <1>7, <3>2
      <4>2. qty'[maker] = qty[maker] - filled
        BY <1>1, <1>5
      <4> QED
        BY <1>1, <1>4, <1>6, <1>9, <4>1, <4>2 DEF GoodTrade
    <3> QED
      BY <1>7, <3>1, <3>2
  <2>2. ASSUME NEW i \in 1..Len(trades'), NEW j \in 1..Len(trades'),
               trades'[i].maker = trades'[j].maker
        PROVE  i = j
    <3>1. CASE i \in 1..Len(trades) /\ j \in 1..Len(trades)
      BY <1>7, <2>2, <3>1 DEF IInv, TradesAreGood
    <3>2. CASE i = Len(trades) + 1 /\ j \in 1..Len(trades)
      BY <1>6, <1>7, <1>8, <2>2, <3>2
    <3>3. CASE i \in 1..Len(trades) /\ j = Len(trades) + 1
      BY <1>6, <1>7, <1>8, <2>2, <3>3
    <3> QED
      BY <1>7, <3>1, <3>2, <3>3
  <2>3. ASSUME qty'[taker'] > 0, NEW i \in 1..Len(trades')
        PROVE  trades'[i].makerRemaining = 0
    <3>1. qty[taker] - filled > 0
      BY <1>1, <1>5, <2>3
    <3>2. qty[maker] - filled = 0
      BY <1>2, <1>3, <3>1
    <3> QED
      BY <1>6, <1>7, <1>8, <3>2
  <2> QED
    BY <2>1, <2>2, <2>3 DEF TradesAreGood
<1>13. FilledIsPending'
  <2>1. ASSUME NEW o \in Ids, Indexed(o)'
        PROVE  \/ qty'[o] # 0 \/ placed'[o].user = NoUser \/ o = taker'
               \/ \E i \in 1..Len(trades') :
                    trades'[i].maker = o /\ trades'[i].makerRemaining = 0
    <3>1. Indexed(o) /\ o \in Ids
      BY <1>9, <2>1
    <3>2. CASE o = maker
      <4>1. qty'[o] = qty[maker] - filled
        BY <1>1, <1>5, <3>2
      <4>2. Len(trades) + 1 \in 1..Len(trades')
        BY <1>7
      <4> QED
        BY <1>6, <1>7, <3>2, <4>1, <4>2
    <3>3. CASE o # maker /\ o # taker
      <4>1. qty'[o] = qty[o]
        BY <1>5, <3>1, <3>3
      <4>2. \/ qty[o] # 0 \/ placed[o].user = NoUser
            \/ \E i \in 1..Len(trades) :
                 trades[i].maker = o /\ trades[i].makerRemaining = 0
        BY <3>1, <3>3 DEF IInv, FilledIsPending
      <4>3. \A i \in 1..Len(trades) : i \in 1..Len(trades')
        BY <1>7
      <4> QED
        BY <1>1, <1>7, <4>1, <4>2, <4>3
    <3> QED
      BY <1>1, <3>2, <3>3
  <2> QED
    BY <1>1, <2>1 DEF FilledIsPending, Ids
<1>14. ThrowsForStrangersOnly'
  BY <1>1 DEF IInv, ThrowsForStrangersOnly
<1>15. TypeOK'
  BY <1>0, MatchType
<1> QED
  BY <1>9, <1>10, <1>11, <1>12, <1>13, <1>14, <1>15 DEF IInv

\* The end of the matching keeps the invariant.
LEMMA InvFinish ==
  ASSUME IInv, TypeOK', FinishMatching
  PROVE  IInv'
PROOF
<1>0. TypeOK
  BY DEF IInv
<1>1. /\ phase = "matching" /\ phase' = "settling"
      /\ UNCHANGED <<placed, orders, taker, trades, thrown>>
  BY DEF FinishMatching
<1>2. /\ taker \in Ids /\ taker # NoOrder /\ ~thrown
      /\ Indexed(taker) /\ placed[taker].user \in Users
      /\ placed[taker].symbol \in Symbols /\ qty[taker] \in Int
  BY <1>1, TakerFacts
<1>3. \A o \in Ids \ {taker} : qty'[o] = qty[o]
  <2>1. qty' = qty \/ qty' = [qty EXCEPT ![taker] = 0]
    BY DEF FinishMatching
  <2>2. qty \in Seq(Int) /\ Len(qty) = Len(placed)
    BY <1>0 DEF TypeOK
  <2> QED
    BY <2>1, <2>2 DEF Ids
<1>4. \/ book' = book
      \/ /\ book' = [book EXCEPT ![placed[taker].symbol] = @ \cup {taker}]
         /\ qty' = qty /\ qty[taker] > 0
  BY DEF FinishMatching
<1>5. IDsAreGood' /\ \A o : Indexed(o)' <=> Indexed(o)
  BY <1>1 DEF IInv, IDsAreGood, UniqueIDs, IndexHasOwnIDs, Indexed, Ids
<1>6. RestingIsGood'
  <2>1. ASSUME NEW s \in Symbols, NEW o \in book'[s]
        PROVE  /\ Indexed(o) /\ qty'[o] > 0
               /\ placed[o].symbol = s /\ placed[o].user \in Users
    <3>1. book \in [Symbols -> SUBSET Ids]
      BY <1>0, TypeParts
    <3>2. CASE o \in book[s]
      <4>1. /\ Indexed(o) /\ o # taker /\ qty[o] > 0
            /\ placed[o].symbol = s /\ placed[o].user \in Users
        BY <1>1, <3>2 DEF IInv, RestingIsGood
      <4> QED
        BY <1>3, <3>1, <3>2, <4>1
    <3>3. CASE o \notin book[s]
      <4>1. o = taker /\ s = placed[taker].symbol /\ qty'[taker] > 0
        BY <1>2, <1>4, <3>1, <3>3
      <4> QED
        BY <1>2, <4>1
    <3> QED
      BY <3>2, <3>3
  <2> QED
    BY <1>1, <1>5, <2>1 DEF RestingIsGood
<1>7. CallIsGood'
  BY <1>1, <1>2, <1>5 DEF CallIsGood
<1>8. TradesAreGood'
  <2>1. ASSUME NEW i \in 1..Len(trades) PROVE GoodTrade(trades[i])'
    <3>1. trades[i].maker \in Ids /\ GoodTrade(trades[i])
      BY TradeFacts
    <3>2. qty'[trades[i].maker] = qty[trades[i].maker]
      BY <1>3, <3>1 DEF GoodTrade
    <3> QED
      BY <1>1, <1>5, <3>1, <3>2 DEF GoodTrade
  <2> QED
    BY <1>1, <2>1 DEF IInv, TradesAreGood
<1>9. FilledIsPending'
  BY <1>1, <1>3, <1>5 DEF IInv, FilledIsPending, Ids
<1>10. ThrowsForStrangersOnly'
  BY <1>1 DEF IInv, ThrowsForStrangersOnly
<1> QED
  BY <1>5, <1>6, <1>7, <1>8, <1>9, <1>10 DEF IInv

\* The trade to settle, and what the index has under its IDs: the orders of
\* the trade.
LEMMA HeadFacts ==
  ASSUME IInv, trades # << >>
  PROVE  /\ phase # "idle"
         /\ 1 \in 1..Len(trades) /\ Head(trades) = trades[1]
         /\ GoodTrade(Head(trades))
         /\ Head(trades).maker \in Ids /\ Indexed(Head(trades).maker)
         /\ Head(trades).filled \in Int /\ Head(trades).price \in Int
         /\ Head(trades).taker = taker /\ Indexed(taker)
PROOF
<1>0. TypeOK
  BY DEF IInv
<1>1. phase # "idle"
  BY DEF IInv, CallIsGood
<1>2. trades \in Seq(Trade)
  BY <1>0 DEF TypeOK
<1> HIDE DEF Trade
<1>3. 1 \in 1..Len(trades) /\ Head(trades) = trades[1]
  BY <1>2, HeadAndTail
<1>4. /\ GoodTrade(Head(trades))
      /\ Head(trades).maker \in Ids /\ Indexed(Head(trades).maker)
  BY <1>3, TradeFacts
<1>5. Head(trades).filled \in Int /\ Head(trades).price \in Int
  BY <1>0, PendingTrade
<1>6. Head(trades).taker = taker
  BY <1>4 DEF GoodTrade
<1>7. Indexed(taker)
  BY <1>1, TakerFacts
<1> QED
  BY <1>1, <1>3, <1>4, <1>5, <1>6, <1>7

\* A turn of the settling loop keeps the invariant: only the maker can leave
\* the index, and it is the maker of no other trade of the call.
LEMMA InvSettle ==
  ASSUME IInv, TypeOK', Settle
  PROVE  IInv'
PROOF
<1>0. TypeOK
  BY DEF IInv
<1> DEFINE m == Head(trades).maker
           left == placed[m].id
<1>1. /\ phase = "settling" /\ trades # << >>
      /\ orders' = AfterTrade(Head(trades)) /\ trades' = Tail(trades)
      /\ UNCHANGED <<placed, qty, book, phase, taker, thrown>>
  BY DEF Settle, bookVars
<1>2. /\ GoodTrade(Head(trades)) /\ m \in Ids /\ Indexed(m)
      /\ MakerID(Head(trades)) = left
      /\ 1 \in 1..Len(trades) /\ Head(trades) = trades[1]
  BY <1>1, HeadFacts DEF MakerID
<1>3. /\ m # taker
      /\ Head(trades).makerRemaining = 0 => qty[m] = 0
  BY <1>2 DEF GoodTrade
<1>4. \/ orders' = orders /\ Head(trades).makerRemaining # 0
      \/ /\ orders' = Without(left) /\ Head(trades).makerRemaining = 0
         /\ qty[m] = 0
  BY <1>1, <1>2, <1>3 DEF AfterTrade
<1> HIDE DEF m
<1>5. /\ \A id \in DOMAIN orders' : id \in DOMAIN orders /\ orders'[id] = orders[id]
      /\ \A o \in Ids : Indexed(o)' <=>
           Indexed(o) /\ (o = m => Head(trades).makerRemaining # 0)
  <2>1. CASE orders' = orders /\ Head(trades).makerRemaining # 0
    BY <1>1, <2>1 DEF Indexed
  <2>2. CASE orders' = Without(left) /\ Head(trades).makerRemaining = 0
    <3>1. /\ DOMAIN orders' = DOMAIN orders \ {left}
          /\ \A i \in DOMAIN orders \ {left} : orders'[i] = orders[i]
      BY <2>2, WithoutType
    <3>2. \A o \in Ids : placed[o].id = left <=> o = m
      BY <1>2, UniqueFacts
    <3>3. ASSUME NEW o \in Ids
          PROVE  Indexed(o)' <=> Indexed(o) /\ o # m
      <4>1. placed'[o].id = placed[o].id
        BY <1>1
      <4> HIDE DEF left
      <4> QED
        BY <3>1, <3>2, <4>1 DEF Indexed
    <3> QED
      BY <2>2, <3>1, <3>3
  <2> QED
    BY <1>4, <2>1, <2>2
<1> HIDE DEF left
<1>6. /\ Len(trades) \in Nat \ {0}
      /\ Len(trades') = Len(trades) - 1
      /\ \A i \in 1..(Len(trades) - 1) : trades'[i] = trades[i + 1]
  <2>1. trades \in Seq(Trade)
    BY <1>0 DEF TypeOK
  <2> HIDE DEF Trade
  <2> QED
    BY <1>1, <2>1, HeadAndTail
<1>7. IDsAreGood'
  BY <1>1, <1>5 DEF IInv, IDsAreGood, UniqueIDs, IndexHasOwnIDs, Ids
<1>8. RestingIsGood'
  <2>1. ASSUME NEW s \in Symbols, NEW o \in book[s]
        PROVE  /\ Indexed(o)' /\ qty[o] > 0
               /\ placed[o].symbol = s /\ placed[o].user \in Users
    <3>1. /\ Indexed(o) /\ qty[o] > 0
          /\ placed[o].symbol = s /\ placed[o].user \in Users
      BY DEF IInv, RestingIsGood
    <3>2. o \in Ids /\ qty[o] \in Int /\ qty[o] # 0
      BY <3>1, IndexFacts
    <3>3. o = m => Head(trades).makerRemaining # 0
      BY <1>3, <3>2
    <3> QED
      BY <1>5, <3>1, <3>2, <3>3
  <2> QED
    BY <1>1, <2>1 DEF RestingIsGood
<1>9. CallIsGood'
  <2>1. /\ ~thrown /\ Indexed(taker) /\ placed[taker].user \in Users
    BY <1>1, TakerFacts
  <2>2. taker \in Ids
    BY <1>1, TakerFacts
  <2> QED
    BY <1>1, <1>3, <1>5, <2>1, <2>2 DEF CallIsGood
<1>10. TradesAreGood'
  <2>1. ASSUME NEW i \in 1..(Len(trades) - 1)
        PROVE  /\ i + 1 \in 1..Len(trades) /\ 1 \in 1..Len(trades) /\ i + 1 # 1
               /\ trades'[i] = trades[i + 1]
    BY <1>6
  <2>2. ASSUME NEW i \in 1..Len(trades')
        PROVE  GoodTrade(trades[i])'
    <3>1. i \in 1..(Len(trades) - 1)
      BY <1>6
    <3>2. /\ GoodTrade(trades[i + 1]) /\ trades'[i] = trades[i + 1]
          /\ trades[i + 1].maker \in Ids
      BY <2>1, <3>1, TradeFacts
    <3>3. trades[i + 1].maker # m
      <4>1. trades[i + 1].maker = trades[1].maker => i + 1 = 1
        BY <2>1, <3>1 DEF IInv, TradesAreGood
      <4> QED
        BY <1>2, <2>1, <3>1, <4>1 DEF m
    <3> QED
      BY <1>1, <1>5, <3>2, <3>3 DEF GoodTrade
  <2>3. ASSUME NEW i \in 1..Len(trades'), NEW j \in 1..Len(trades'),
               trades'[i].maker = trades'[j].maker
        PROVE  i = j
    <3>1. i \in 1..(Len(trades) - 1) /\ j \in 1..(Len(trades) - 1)
      BY <1>6
    <3>2. trades[i + 1].maker = trades[j + 1].maker
      BY <2>1, <2>3, <3>1
    <3>3. i + 1 = j + 1
      BY <2>1, <3>1, <3>2 DEF IInv, TradesAreGood
    <3> QED
      BY <3>1, <3>3
  <2> QED
    BY <1>1, <2>2, <2>3 DEF TradesAreGood
<1>11. FilledIsPending'
  <2>1. ASSUME NEW o \in Ids, Indexed(o)'
        PROVE  \/ qty[o] # 0 \/ placed[o].user = NoUser \/ o = taker
               \/ \E i \in 1..Len(trades') :
                    trades'[i].maker = o /\ trades'[i].makerRemaining = 0
    <3>1. Indexed(o)
      BY <1>5, <2>1
    <3>2. SUFFICES ASSUME NEW k \in 1..Len(trades),
                          trades[k].maker = o, trades[k].makerRemaining = 0
                   PROVE  \E i \in 1..Len(trades') :
                            trades'[i].maker = o /\ trades'[i].makerRemaining = 0
      BY <3>1 DEF IInv, FilledIsPending
    <3>3. k # 1
      BY <1>2, <1>3, <1>5, <2>1, <3>2 DEF m
    <3>4. k - 1 \in 1..Len(trades') /\ trades'[k - 1] = trades[k]
      <4>1. k - 1 \in 1..(Len(trades) - 1) /\ (k - 1) + 1 = k
        BY <1>6, <3>3
      <4> QED
        BY <1>6, <4>1
    <3> QED
      BY <3>2, <3>4
  <2> QED
    BY <1>1, <2>1 DEF FilledIsPending, Ids
<1>12. ThrowsForStrangersOnly'
  BY <1>1 DEF IInv, ThrowsForStrangersOnly
<1> QED
  BY <1>7, <1>8, <1>9, <1>10, <1>11, <1>12 DEF IInv

\* The end of placeOrder keeps the invariant.
LEMMA InvEnd ==
  ASSUME IInv, TypeOK', EndPlaceOrder
  PROVE  IInv'
PROOF
<1>0. TypeOK
  BY DEF IInv
<1>1. /\ phase = "settling" /\ trades = << >> /\ orders' = AfterOrder
      /\ phase' = "idle" /\ taker' = NoOrder
      /\ UNCHANGED <<placed, qty, book, trades, thrown>>
  BY DEF EndPlaceOrder, bookVars
<1>2. taker \in Ids /\ ~thrown /\ Indexed(taker) /\ qty[taker] \in Int
  BY <1>1, TakerFacts
<1>3. \A o \in Ids : o # taker => placed[o].id # placed[taker].id
  BY <1>2 DEF IInv, IDsAreGood, UniqueIDs
<1>4. \/ orders' = orders /\ qty[taker] # 0
      \/ orders' = Without(placed[taker].id) /\ qty[taker] = 0
  BY <1>1 DEF AfterOrder
<1>5. /\ \A id \in DOMAIN orders' : id \in DOMAIN orders /\ orders'[id] = orders[id]
      /\ \A o \in Ids : Indexed(o)' <=> Indexed(o) /\ (o = taker => qty[taker] # 0)
  <2>1. CASE orders' = orders /\ qty[taker] # 0
    BY <1>1, <2>1 DEF Indexed
  <2>2. CASE orders' = Without(placed[taker].id) /\ qty[taker] = 0
    <3>1. /\ DOMAIN orders' = DOMAIN orders \ {placed[taker].id}
          /\ \A i \in DOMAIN orders' : orders'[i] = orders[i]
      BY <2>2, WithoutType
    <3>2. ASSUME NEW o \in Ids
          PROVE  Indexed(o)' <=> Indexed(o) /\ o # taker
      BY <1>1, <1>3, <3>1 DEF Indexed
    <3> QED
      BY <2>2, <3>1, <3>2
  <2> QED
    BY <1>4, <2>1, <2>2
<1>6. Len(trades) = 0
  BY <1>1
<1>7. IDsAreGood'
  BY <1>1, <1>5 DEF IInv, IDsAreGood, UniqueIDs, IndexHasOwnIDs, Ids
<1>8. RestingIsGood'
  <2>1. ASSUME NEW s \in Symbols, NEW o \in book[s]
        PROVE  /\ Indexed(o)' /\ qty[o] > 0
               /\ placed[o].symbol = s /\ placed[o].user \in Users
    <3>1. /\ Indexed(o) /\ qty[o] > 0
          /\ placed[o].symbol = s /\ placed[o].user \in Users
      BY DEF IInv, RestingIsGood
    <3>2. o \in Ids /\ qty[o] \in Int /\ qty[o] # 0
      BY <3>1, IndexFacts
    <3> QED
      BY <1>5, <3>1, <3>2
  <2> QED
    BY <1>1, <2>1 DEF RestingIsGood
<1>9. CallIsGood'
  BY <1>1 DEF CallIsGood
<1>10. TradesAreGood'
  BY <1>1, <1>6 DEF TradesAreGood
<1>11. FilledIsPending'
  <2>1. ASSUME NEW o \in Ids, Indexed(o)'
        PROVE  qty[o] # 0 \/ placed[o].user = NoUser
    <3>1. Indexed(o)
      BY <1>5, <2>1
    <3>2. qty[o] # 0 \/ placed[o].user = NoUser \/ o = taker
      BY <1>6, <3>1 DEF IInv, FilledIsPending
    <3> QED
      BY <1>5, <2>1, <3>2
  <2> QED
    BY <1>1, <2>1 DEF FilledIsPending, Ids
<1>12. ThrowsForStrangersOnly'
  BY <1>1 DEF IInv, ThrowsForStrangersOnly
<1> QED
  BY <1>7, <1>8, <1>9, <1>10, <1>11, <1>12 DEF IInv

\* The index has both orders of a pending trade, so placeOrder does not throw.
LEMMA NothingThrows ==
  ASSUME IInv
  PROVE  ~SettleThrows
PROOF
<1>1. ASSUME trades # << >>
      PROVE  MakerID(Head(trades)) \in DOMAIN orders /\ TakerID(Head(trades)) \in DOMAIN orders
  BY <1>1, HeadFacts DEF MakerID, TakerID, Indexed
<1> QED
  BY <1>1 DEF SettleThrows

\* Turns of placeOrder keep the invariant.
LEMMA InvTurns ==
  ASSUME IInv, TypeOK', CallStep
  PROVE  IInv'
PROOF
  BY NothingThrows, InvMatch, InvFinish, InvSettle, InvEnd DEF CallStep

\* Every step that leaves IDs unique keeps the invariant.
LEMMA InvStep ==
  ASSUME IInv, UniqueIDs', [Next]_vars
  PROVE  IInv'
PROOF
<1>0. TypeOK'
  BY TypeStep DEF IInv
<1>1. CASE UNCHANGED vars
  <2>1. UNCHANGED <<placed, qty, book, orders, phase, taker, trades, thrown>>
    BY <1>1 DEF vars, bookVars
  <2>2. IDsAreGood' /\ RestingIsGood' /\ CallIsGood'
    BY <2>1 DEF IInv, IDsAreGood, UniqueIDs, IndexHasOwnIDs, Ids, RestingIsGood,
       CallIsGood, Indexed
  <2>3. TradesAreGood'
    BY <2>1 DEF IInv, TradesAreGood, GoodTrade, Indexed
  <2>4. FilledIsPending' /\ ThrowsForStrangersOnly'
    BY <2>1 DEF IInv, FilledIsPending, ThrowsForStrangersOnly, Indexed, Ids
  <2> QED
    BY <1>0, <2>2, <2>3, <2>4 DEF IInv
<1>2. ASSUME NEW sender \in Senders, NEW order \in Orders, NEW id \in OrderIDs,
             PlaceOrder(sender, order, id)
      PROVE  IInv'
  <2>1. PICK symbol \in listed : AcceptOrder(sender, order, symbol, id)
    BY <1>2 DEF PlaceOrder
  <2> QED
    BY <1>0, <2>1, InvAccept
<1>3. ASSUME NEW sender \in Senders, NEW order \in Orders, NEW id \in OrderIDs,
             PlaceUnknown(sender, order, id)
      PROVE  IInv'
  <2>1. PICK symbol : RejectOrder(sender, order, symbol, id)
    BY <1>3 DEF PlaceUnknown
  <2> QED
    BY <1>0, <2>1, InvCalls
<1>4. CASE CallStep
  BY <1>0, <1>4, InvTurns
<1> QED
  BY <1>0, <1>1, <1>2, <1>3, <1>4, InvCalls DEF Next

\* The initial state satisfies the invariant.
LEMMA InitInv ==
  ASSUME Init
  PROVE  IInv
PROOF
<1>1. TypeOK
  BY InitType
<1>2. /\ placed = << >> /\ orders = << >> /\ trades = << >>
      /\ phase = "idle" /\ book = [symbol \in Symbols |-> {}]
  BY DEF Init
<1>3. ~thrown
  BY Zenon DEF Init
<1>4. Ids = {} /\ DOMAIN orders = {} /\ Len(trades) = 0
  BY <1>2 DEF Ids
<1>5. IDsAreGood /\ RestingIsGood /\ CallIsGood
  BY <1>2, <1>4 DEF IDsAreGood, UniqueIDs, IndexHasOwnIDs, RestingIsGood, CallIsGood
<1>6. TradesAreGood /\ FilledIsPending
  BY <1>2, <1>4 DEF TradesAreGood, FilledIsPending
<1>7. ThrowsForStrangersOnly
  BY <1>3 DEF ThrowsForStrangersOnly
<1> QED
  BY <1>1, <1>5, <1>6, <1>7 DEF IInv

\* An ID that two orders share stays shared: orders are only added.
LEMMA SharedStaysShared ==
  ASSUME TypeOK, [Next]_vars, UniqueIDs'
  PROVE  UniqueIDs
PROOF
<1>1. Ids \subseteq Ids' /\ \A o \in Ids : placed'[o] = placed[o]
  <2>1. CASE placed' = placed
    BY <2>1 DEF Ids
  <2>2. ASSUME NEW sender \in Senders, NEW order \in Orders, NEW id \in OrderIDs,
               PlaceOrder(sender, order, id)
        PROVE  Ids \subseteq Ids' /\ \A o \in Ids : placed'[o] = placed[o]
    <3>1. PICK symbol \in listed : AcceptOrder(sender, order, symbol, id)
      BY <2>2 DEF PlaceOrder
    <3>2. /\ Ids' = Ids \cup {Len(placed) + 1}
          /\ \A o \in Ids : placed'[o] = placed[o] /\ qty'[o] = qty[o]
      <4>1. Accepts(sender, order, symbol, id)
        BY <3>1, Accepted
      <4> QED
        BY <4>1 DEF Accepts
    <3> QED
      BY <3>2
  <2>3. \/ placed' = placed
        \/ \E sender \in Senders, order \in Orders, id \in OrderIDs :
             PlaceOrder(sender, order, id)
    BY DEF Next, Start, PlaceUnknown, RejectOrder, CancelOrder, CallStep, Match,
       FinishMatching, Settle, SettleThrows, EndPlaceOrder, vars, bookVars
  <2> QED
    BY <2>1, <2>2, <2>3
<1> QED
  BY <1>1 DEF UniqueIDs

\* As long as no two orders came under the same ID, IInv holds.
LEMMA InvHolds == Spec => [](UniqueIDs => IInv)
PROOF
<1>1. Init => (UniqueIDs => IInv)
  BY InitInv
<1>2. TypeOK /\ (UniqueIDs => IInv) /\ [Next]_vars => (UniqueIDs => IInv)'
  BY InvStep, SharedStaysShared
<1> QED
  BY <1>1, <1>2, TypeCorrect, PTL DEF Spec

\* If every order gets the next number for its ID, IDs are unique.
LEMMA IDsStayUnique ==
  ASSUME OwnCounters = FALSE
  PROVE  Spec => []UniqueIDs
PROOF
<1> DEFINE Counted1 == \A o \in Ids : placed[o].id = o
<1>1. ASSUME Init PROVE Counted1
  <2>1. placed = << >>
    BY <1>1 DEF Init
  <2> QED
    BY <2>1 DEF Ids
<1>2. ASSUME TypeOK, Counted1, [Next]_vars PROVE Counted1'
  <2>1. CASE placed' = placed
    BY <1>2, <2>1 DEF Ids
  <2>2. ASSUME NEW sender \in Senders, NEW order \in Orders, NEW id \in OrderIDs,
               PlaceOrder(sender, order, id)
        PROVE  Counted1'
    <3>1. PICK symbol \in listed : AcceptOrder(sender, order, symbol, id)
      BY <2>2 DEF PlaceOrder
    <3>2. /\ Ids' = Ids \cup {Len(placed) + 1}
          /\ \A o \in Ids : placed'[o] = placed[o] /\ qty'[o] = qty[o]
          /\ placed'[Len(placed) + 1] = NewOrder(id, sender, symbol, order)
      <4>1. TypeOK
        BY <1>2
      <4> HIDE DEF Counted1
      <4>2. Accepts(sender, order, symbol, id)
        BY <3>1, <4>1, Accepted
      <4> QED
        BY <4>2 DEF Accepts
    <3>3. id = Len(placed) + 1 /\ NewOrder(id, sender, symbol, order).id = id
      BY <2>2 DEF PlaceOrder, OrderID, NewOrder
    <3> QED
      BY <1>2, <3>2, <3>3
  <2>3. \/ placed' = placed
        \/ \E sender \in Senders, order \in Orders, id \in OrderIDs :
             PlaceOrder(sender, order, id)
    BY <1>2 DEF Next, Start, PlaceUnknown, RejectOrder, CancelOrder, CallStep, Match,
       FinishMatching, Settle, SettleThrows, EndPlaceOrder, vars, bookVars
  <2> QED
    BY <2>1, <2>2, <2>3
<1>3. Counted1 => UniqueIDs
  BY DEF UniqueIDs
<1> QED
  BY <1>1, <1>2, <1>3, TypeCorrect, PTL DEF Spec

\* The index under the invariant.
LEMMA InvCoversBook ==
  ASSUME IInv
  PROVE  IndexCoversBook
PROOF
<1>1. ASSUME NEW symbol \in Symbols, NEW o \in book[symbol]
      PROVE  /\ placed[o].id \in DOMAIN orders
             /\ orders[placed[o].id] = o /\ placed[o].symbol = symbol
  <2>1. Indexed(o) /\ placed[o].symbol = symbol
    BY DEF IInv, RestingIsGood
  <2> QED
    BY <2>1 DEF Indexed
<1> QED
  BY <1>1 DEF IndexCoversBook

\* If order IDs are unique, the index leads to every resting order: its owner
\* can cancel it and its trades can be settled.
THEOREM IndexLeadsToBook ==
  ASSUME OwnCounters = FALSE
  PROVE  Spec => []IndexCoversBook
PROOF
<1>1. IInv => IndexCoversBook
  BY InvCoversBook
<1> QED
  BY <1>1, InvHolds, IDsStayUnique, PTL

\* If order IDs are unique, what placeOrder leaves in the index has something
\* left, the orders of strangers excepted.
THEOREM IndexIsClean ==
  ASSUME OwnCounters = FALSE
  PROVE  Spec => []IndexHasNoFilledOrder
PROOF
<1>1. ASSUME IInv PROVE IndexHasNoFilledOrder
  <2>1. ASSUME phase = "idle", NEW id \in DOMAIN orders
        PROVE  qty[orders[id]] # 0 \/ placed[orders[id]].user = NoUser
    <3>1. orders[id] \in Ids /\ Indexed(orders[id])
      BY <1>1, IndexFacts DEF Indexed
    <3>2. TypeOK /\ trades = << >>
      BY <1>1, <2>1 DEF IInv, CallIsGood
    <3>3. Len(trades) = 0 /\ taker = NoOrder /\ NoOrder \notin Ids
      BY <2>1, <3>2, TypeParts
    <3> QED
      BY <1>1, <3>1, <3>3 DEF IInv, FilledIsPending
  <2> QED
    BY <2>1 DEF IndexHasNoFilledOrder
<1> QED
  BY <1>1, InvHolds, IDsStayUnique, PTL

\* If order IDs are unique, placeOrder throws for nobody who registered.
THEOREM NoThrowForUsers ==
  ASSUME OwnCounters = FALSE
  PROVE  Spec => []ThrowsForStrangersOnly
PROOF
<1>1. IInv => ThrowsForStrangersOnly
  BY DEF IInv
<1> QED
  BY <1>1, InvHolds, IDsStayUnique, PTL

-----------------------------------------------------------------------------
(* What settling a trade does, for unique order IDs *)

\* The steps that add a pair of messages, or take one pending trade away, are
\* the turns of the settling loop.
LEMMA OnlySettle ==
  ASSUME IInv, [Next]_vars, trades # << >>,
         \/ Len(trades') = Len(trades) - 1
         \/ Len(responses') = Len(responses) + 2
  PROVE  Settle
PROOF
<1>0. TypeOK
  BY DEF IInv
<1>1. phase # "idle"
  BY HeadFacts
<1>2. trades \in Seq(Trade) /\ Len(responses) \in Nat
  BY <1>0 DEF TypeOK
<1> HIDE DEF Trade
<1>3. Len(trades) \in Nat
  BY <1>2
<1>4. ASSUME trades' = trades, responses' = responses
      PROVE  FALSE
  <2>1. Len(trades') = Len(trades) /\ Len(responses') = Len(responses)
    BY <1>4
  <2> QED
    BY <1>2, <1>3, <2>1
<1>5. ASSUME NEW maker \in Ids, Match(maker)
      PROVE  FALSE
  <2>1. taker \in Ids /\ responses' = responses
    BY <1>0, <1>5, MatchFacts
  <2>2. PICK filled \in Int : trades' = Append(trades, MakeTrade(maker, filled))
    BY <1>0, <1>5, MatchFacts
  <2>3. MakeTrade(maker, filled) \in Trade
    BY <1>0, <2>1, TradeFields
  <2>4. Len(trades') = Len(trades) + 1
    BY <1>2, <2>2, <2>3, OneMore
  <2>5. Len(responses') = Len(responses)
    BY <2>1
  <2> QED
    BY <1>2, <1>3, <2>4, <2>5
<1>6. ~FinishMatching
  BY <1>4 DEF FinishMatching
<1>7. ~SettleThrows
  BY NothingThrows
<1>8. ~EndPlaceOrder
  BY DEF EndPlaceOrder
<1>9. ~UNCHANGED vars
  BY <1>4 DEF vars
<1>10. ~Start
  BY <1>1 DEF Start
<1>11. \A sender \in Senders, id \in OrderIDs :
         /\ ~CancelOrder(sender, id)
         /\ \A order \in Orders : /\ ~PlaceOrder(sender, order, id)
                                  /\ ~PlaceUnknown(sender, order, id)
  BY <1>1 DEF CancelOrder, PlaceOrder, PlaceUnknown, AcceptOrder, RejectOrder
<1> QED
  BY <1>5, <1>6, <1>7, <1>8, <1>9, <1>10, <1>11 DEF Next, CallStep

\* Who buys and who sells, as the settling turn finds it in the index.
LEMMA SidesOfTrade ==
  ASSUME IInv, Settle
  PROVE  LET t == Head(trades)
         IN  /\ t.maker \in Ids /\ taker \in Ids /\ t.taker = taker
             /\ placed[t.maker].user \in Users /\ placed[taker].user \in Users
             /\ t.filled \in Int /\ t.price = placed[t.maker].price /\ t.price \in Int
             /\ placed[t.maker].symbol \in Symbols
             /\ \/ /\ placed[t.maker].side = Buy /\ placed[taker].side = Sell
                   /\ Buyer(t) = placed[t.maker].user
                   /\ Seller(t) = placed[taker].user
                \/ /\ placed[t.maker].side = Sell /\ placed[taker].side = Buy
                   /\ Buyer(t) = placed[taker].user
                   /\ Seller(t) = placed[t.maker].user
PROOF
<1>0. TypeOK /\ trades # << >>
  BY DEF IInv, Settle
<1> DEFINE t == Head(trades)
<1>1. /\ phase # "idle" /\ GoodTrade(t) /\ t.maker \in Ids
      /\ t.filled \in Int /\ t.price \in Int
      /\ orders[MakerID(t)] = t.maker
  BY <1>0, HeadFacts DEF Indexed, MakerID
<1> HIDE DEF t
<1>2. taker \in Ids /\ placed[taker].user \in Users
  BY <1>1, TakerFacts
<1>3. /\ t.taker = taker /\ t.price = placed[t.maker].price
      /\ placed[t.maker].user \in Users
      /\ placed[t.maker].side = Opposite(placed[taker].side)
  BY <1>1 DEF GoodTrade
<1>4. placed[t.maker].symbol \in Symbols /\ placed[taker].side \in Sides
  BY <1>0, <1>1, <1>2, ObjectFields
<1>5. \/ placed[t.maker].side = Buy /\ placed[taker].side = Sell
      \/ placed[t.maker].side = Sell /\ placed[taker].side = Buy
  BY <1>3, <1>4 DEF Sides, Opposite, Buy, Sell
<1>6. MakerBuys(t) <=> placed[t.maker].side = Buy
  BY <1>1 DEF MakerBuys
<1>7. CASE placed[t.maker].side = Buy /\ placed[taker].side = Sell
  BY <1>1, <1>2, <1>3, <1>4, <1>6, <1>7 DEF Buyer, Seller, t
<1>8. CASE placed[t.maker].side = Sell /\ placed[taker].side = Buy
  <2>1. ~MakerBuys(t)
    BY <1>6, <1>8 DEF Buy, Sell
  <2> QED
    BY <1>1, <1>2, <1>3, <1>4, <1>8, <2>1 DEF Buyer, Seller, t
<1> QED
  BY <1>5, <1>7, <1>8

\* If order IDs are unique, settling a trade moves shares and money between
\* the user who bought and the user who sold, whatever the index leads to.
THEOREM BuyersPay ==
  ASSUME OwnCounters = FALSE
  PROVE  Spec => BuyersPaySellers
PROOF
<1> DEFINE t == Head(trades)
<1>1. ASSUME IInv, [Next]_vars, trades # << >>, trades' = Tail(trades), ~thrown'
      PROVE  SettlesToBuyer(Head(trades))
  <2>1. Len(trades') = Len(trades) - 1
    <3>1. trades \in Seq(Trade)
      BY <1>1 DEF IInv, TypeOK
    <3> HIDE DEF Trade
    <3> QED
      BY <1>1, <3>1, HeadAndTail
  <2>2. Settle
    BY <1>1, <2>1, OnlySettle
  <2> DEFINE buyer  == Buyer(t)
             seller == Seller(t)
             symbol == placed[t.maker].symbol
             amount == t.filled * t.price
  <2>3. /\ t.maker \in Ids /\ t.taker = taker
        /\ t.filled \in Int /\ t.price \in Int /\ t.price = placed[t.maker].price
        /\ symbol \in Symbols
        /\ buyer \in Users /\ seller \in Users
        /\ \/ /\ placed[t.maker].side = Buy
              /\ buyer = placed[t.maker].user /\ seller = placed[t.taker].user
           \/ /\ placed[t.maker].side # Buy
              /\ buyer = placed[t.taker].user /\ seller = placed[t.maker].user
    BY <1>1, <2>2, SidesOfTrade DEF Buy, Sell
  <2>4. money' = [user \in Users |-> money[user] - Share(t, user, amount)]
    BY <2>2 DEF Settle, UpdateUsers
  <2>5. portfolio' = [user \in Users |-> [portfolio[user] EXCEPT ![symbol] =
                                            @ + Share(t, user, t.filled)]]
    BY <2>2 DEF Settle, UpdateUsers
  <2>6. \A user \in Users, n \in Int :
          Share(t, user, n) = (IF user = buyer THEN n ELSE 0)
                              - (IF user = seller THEN n ELSE 0)
    BY DEF Share
  <2>7. money \in [Users -> Int] /\ portfolio \in [Users -> [Symbols -> Int]]
    BY <1>1, TypeParts DEF IInv
  <2>8. amount \in Int /\ (-t.filled) * t.price = -amount
    BY <2>3
  <2> HIDE DEF t, buyer, seller, symbol, amount
  <2>9. CASE buyer = seller
    <3>1. \A user \in Users, n \in Int : Share(t, user, n) = 0
      BY <2>6, <2>9
    <3>2. money' = money
      BY <2>4, <2>7, <2>8, <3>1
    <3>3. portfolio' = portfolio
      <4>1. \A user \in Users : portfolio'[user] = portfolio[user]
        BY <2>3, <2>5, <2>7, <3>1
      <4> QED
        BY <2>5, <2>7, <4>1
    <3> QED
      BY <2>3, <2>9, <3>2, <3>3 DEF SettlesToBuyer, ledgerVars, t
  <2>10. CASE buyer # seller
    <3>1. /\ Share(t, buyer, amount) = amount /\ Share(t, seller, amount) = -amount
          /\ Share(t, buyer, t.filled) = t.filled
          /\ Share(t, seller, t.filled) = -t.filled
      BY <2>3, <2>6, <2>8, <2>10
    <3>2. money'[buyer] - money[buyer] = -amount /\ money'[seller] - money[seller] = amount
      BY <2>3, <2>4, <2>7, <2>8, <3>1
    <3>3. /\ portfolio'[buyer][symbol] - portfolio[buyer][symbol] = t.filled
          /\ portfolio'[seller][symbol] - portfolio[seller][symbol] = -t.filled
      BY <2>3, <2>5, <2>7, <3>1
    <3>4. /\ Gain(buyer, symbol) = t.filled /\ Gain(seller, symbol) = -t.filled
          /\ money'[seller] - money[seller] = t.filled * placed[t.maker].price
          /\ money'[buyer] - money[buyer] = (-t.filled) * placed[t.maker].price
      BY <2>3, <2>8, <3>2, <3>3 DEF Gain, amount
    <3>5. CASE placed[t.maker].side = Buy
      BY <2>3, <2>10, <3>4, <3>5 DEF SettlesToBuyer, symbol, t
    <3>6. CASE placed[t.maker].side # Buy
      BY <2>3, <2>10, <3>4, <3>6 DEF SettlesToBuyer, symbol, t
    <3> QED
      BY <3>5, <3>6
  <2> QED
    BY <2>9, <2>10
<1>2. IInv /\ [Next]_vars =>
        [trades # << >> /\ trades' = Tail(trades) /\ ~thrown'
           => SettlesToBuyer(Head(trades))]_vars
  BY <1>1, Zenon
<1> QED
  BY <1>2, InvHolds, IDsStayUnique, PTL DEF Spec, BuyersPaySellers

\* If order IDs are unique, both confirmations of a trade tell the amount the
\* ledger takes from their users.
THEOREM ConfirmationsAreTrue ==
  ASSUME OwnCounters = FALSE
  PROVE  Spec => ConfirmationsTellWhatIsPaid
PROOF
<1> DEFINE Told(n) ==
      LET maker == responses'[n + 1]
          own   == responses'[n + 2]
      IN /\ maker.money = -own.money
         /\ maker.user # own.user =>
              /\ maker.money = money[maker.user] - money'[maker.user]
              /\ own.money = money[own.user] - money'[own.user]
<1>1. ASSUME IInv, [Next]_vars, trades # << >>, Len(responses') = Len(responses) + 2
      PROVE  Told(Len(responses))
  <2> DEFINE t      == Head(trades)
             amount == t.filled * t.price
             n      == Len(responses)
  <2>1. Settle
    BY <1>1, OnlySettle
  <2>2. TypeOK /\ Head(trades) \in Trade
    BY <1>1, PendingTrade DEF IInv
  <2>3. /\ t.taker = taker
        /\ t.filled \in Int /\ t.price \in Int
        /\ placed[t.maker].user \in Users /\ placed[taker].user \in Users
        /\ \/ /\ placed[taker].side = Sell
              /\ Buyer(t) = placed[t.maker].user /\ Seller(t) = placed[taker].user
           \/ /\ placed[taker].side = Buy
              /\ Buyer(t) = placed[taker].user /\ Seller(t) = placed[t.maker].user
    BY <1>1, <2>1, SidesOfTrade
  <2>4. Sidemult(t) \in Int /\ amount \in Int
        /\ Sidemult(t) * t.filled * t.price =
             IF placed[taker].side = Buy THEN amount ELSE -amount
    <3>1. CASE placed[taker].side = Buy
      BY <2>3, <3>1 DEF Sidemult
    <3>2. CASE placed[taker].side # Buy
      BY <2>3, <3>2 DEF Sidemult
    <3> QED
      BY <3>1, <3>2
  <2>5. /\ Confirmations(t)[1].user = placed[t.maker].user
        /\ Confirmations(t)[1].money = -(Sidemult(t) * t.filled * t.price)
        /\ Confirmations(t)[2].user = placed[taker].user
        /\ Confirmations(t)[2].money = Sidemult(t) * t.filled * t.price
    BY <2>3 DEF Confirmations, Confirmation
  <2>6. /\ responses'[n + 1] = Confirmations(t)[1]
        /\ responses'[n + 2] = Confirmations(t)[2]
    <3>1. responses' = responses \o Confirmations(t)
      BY <2>1 DEF Settle
    <3>2. responses \in Seq(Messages)
      BY <2>2, TypeParts
    <3>3. MakerID(t) \in DOMAIN orders /\ TakerID(t) \in DOMAIN orders
      BY <2>1 DEF Settle
    <3>4. Confirmations(t) \in Seq(Messages) /\ Len(Confirmations(t)) = 2
      BY <2>2, <3>3, ConfirmationsType
    <3> HIDE DEF t, Messages
    <3> QED
      BY <3>1, <3>2, <3>4, ConcatProperties
  <2>7. money' = [user \in Users |-> money[user] - Share(t, user, amount)]
    BY <2>1 DEF Settle, UpdateUsers
  <2>8. money \in [Users -> Int]
    BY <2>2, TypeParts
  <2>9. \A user \in Users :
          Share(t, user, amount) = (IF user = Buyer(t) THEN amount ELSE 0)
                                   - (IF user = Seller(t) THEN amount ELSE 0)
    BY DEF Share
  <2> DEFINE first  == responses'[n + 1]
             second == responses'[n + 2]
  <2> HIDE DEF t, amount
  <2>10. /\ first.user = placed[t.maker].user /\ second.user = placed[taker].user
         /\ second.money = IF placed[taker].side = Buy THEN amount ELSE -amount
         /\ first.money = -second.money
    BY <2>4, <2>5, <2>6
  <2> HIDE DEF first, second
  <2>11. ASSUME first.user # second.user
         PROVE  /\ first.money = money[first.user] - money'[first.user]
                /\ second.money = money[second.user] - money'[second.user]
    <3>1. /\ money'[first.user] = money[first.user] - Share(t, first.user, amount)
          /\ money'[second.user] = money[second.user] - Share(t, second.user, amount)
          /\ money[first.user] \in Int /\ money[second.user] \in Int
      BY <2>3, <2>7, <2>8, <2>10
    <3>2. CASE placed[taker].side = Sell
      BY <2>3, <2>4, <2>9, <2>10, <2>11, <3>1, <3>2 DEF Buy, Sell
    <3>3. CASE placed[taker].side = Buy
      BY <2>3, <2>4, <2>9, <2>10, <2>11, <3>1, <3>3 DEF Buy, Sell
    <3> QED
      BY <2>3, <3>2, <3>3
  <2> QED
    BY <2>10, <2>11 DEF first, second
<1>2. IInv /\ [Next]_vars =>
        [\A n \in {Len(responses)} :
           trades # << >> /\ Len(responses') = n + 2 => Told(n)]_vars
  BY <1>1, Zenon
<1> QED
  BY <1>2, InvHolds, IDsStayUnique, PTL DEF Spec, ConfirmationsTellWhatIsPaid
-----------------------------------------------------------------------------
(* What the messages of a call tell, for unique order IDs *)

\* A pending trade tells what is left of its maker for good; the last one
\* tells what is left of the incoming order, unless it is a market order,
\* whose rest is dropped when the matching ends.
TradesTellRest ==
  /\ \A i \in 1..Len(trades) : trades[i].makerRemaining = qty[trades[i].maker]
  /\ trades # << >> =>
       \/ phase = "settling" /\ placed[taker].type = Market
       \/ trades[Len(trades)].takerRemaining = qty[taker]

\* So do the messages made so far; the last one is about the incoming order.
MessagesTellRest ==
  /\ phase = "matching" => responses = << >>
  /\ phase = "settling" =>
       /\ \A i \in 1..Len(responses) :
            \A o \in Ids \ {taker} : responses[i].id = placed[o].id =>
              responses[i].remaining = qty[o]
       /\ trades = << >> /\ responses # << >> =>
            /\ responses[Len(responses)].id = placed[taker].id
            /\ \/ placed[taker].type = Market
               \/ responses[Len(responses)].remaining = qty[taker]

ToldInv == TradesTellRest /\ MessagesTellRest /\ LastMessageIsTrue

\* A step leaves no trade pending and no message.
LEMMA NothingToTell ==
  ASSUME trades' = << >>, responses' = << >>
  PROVE  ToldInv'
PROOF
<1>1. Len(trades') = 0 /\ Len(responses') = 0
  OBVIOUS
<1> QED
  BY <1>1 DEF ToldInv, TradesTellRest, MessagesTellRest, LastMessageIsTrue

\* The steps that are not a turn of placeOrder.
LEMMA ToldCalls ==
  ASSUME IInv
  PROVE  /\ Start => ToldInv'
         /\ \A sender, order, symbol, id :
              AcceptOrder(sender, order, symbol, id)
                \/ RejectOrder(sender, order, symbol, id) => ToldInv'
         /\ \A sender, id : CancelOrder(sender, id) => ToldInv'
PROOF
<1>0. phase = "idle" => trades = << >>
  BY DEF IInv, CallIsGood
<1>1. ASSUME trades' = << >>, phase' = "idle", NEW m, responses' = <<m>>,
             m \in OrderMessage => m.action = Failed
      PROVE  ToldInv'
  <2>1. /\ Len(trades') = 0 /\ Len(responses') = 1
        /\ \A i \in 1..Len(responses') : responses'[i] = m
    BY <1>1
  <2>2. TradesTellRest' /\ MessagesTellRest'
    BY <1>1, <2>1 DEF TradesTellRest, MessagesTellRest
  <2>3. LastMessageIsTrue'
    <3>1. \A i \in 1..Len(responses') :
            ~(responses'[i] \in OrderMessage' /\ responses'[i].action # Failed)
      <4>1. OrderMessage' = OrderMessage
        BY DEF OrderMessage
      <4> QED
        BY <1>1, <2>1, <4>1
    <3> QED
      BY <3>1 DEF LastMessageIsTrue
  <2> QED
    BY <2>2, <2>3 DEF ToldInv
<1>2. ASSUME Start PROVE ToldInv'
  <2>1. trades' = << >> /\ responses' = << >>
    BY <1>0, <1>2 DEF Start
  <2> QED
    BY <2>1, NothingToTell
<1>3. ASSUME NEW sender, NEW order, NEW symbol, NEW id,
             RejectOrder(sender, order, symbol, id)
      PROVE  ToldInv'
  <2> DEFINE m == FailureMessage(NewOrder(id, sender, symbol, order))
  <2>2. trades' = << >> /\ phase' = "idle" /\ responses' = <<m>>
    BY <1>0, <1>3 DEF RejectOrder
  <2>3. m.action = Failed
    BY DEF FailureMessage
  <2> HIDE DEF m
  <2> QED
    BY <1>1, <2>2, <2>3
<1>4. ASSUME NEW sender, NEW order, NEW symbol, NEW id,
             AcceptOrder(sender, order, symbol, id)
      PROVE  ToldInv'
  <2>1. trades' = << >> /\ responses' = << >>
    BY <1>0, <1>4 DEF AcceptOrder
  <2> QED
    BY <2>1, NothingToTell
<1>5. ASSUME NEW sender, NEW id, CancelOrder(sender, id)
      PROVE  ToldInv'
  <2>1. /\ trades' = << >> /\ phase' = "idle"
        /\ \E success : responses' = <<CancelMessage(sender, id, success)>>
    BY <1>0, <1>5 DEF CancelOrder
  <2>2. PICK success : responses' = <<CancelMessage(sender, id, success)>>
    BY <2>1
  <2> DEFINE m == CancelMessage(sender, id, success)
  <2>3. m \notin OrderMessage
    <3>1. "action" \notin DOMAIN m
      BY DEF CancelMessage
    <3>2. \A n \in OrderMessage : "action" \in DOMAIN n
      BY DEF OrderMessage
    <3> HIDE DEF m
    <3> QED
      BY <3>1, <3>2
  <2> HIDE DEF m
  <2> QED
    BY <1>1, <2>1, <2>2, <2>3 DEF m
<1> QED
  BY <1>2, <1>3, <1>4, <1>5

\* A turn of the matching: its trade tells the quantities it sets, and those
\* that an earlier one told do not change, as no maker trades twice.
LEMMA ToldMatch ==
  ASSUME IInv, IInv', ToldInv, NEW maker \in Ids, Match(maker)
  PROVE  ToldInv'
PROOF
<1>0. TypeOK
  BY DEF IInv
<1>1. /\ phase = "matching" /\ taker \in Ids /\ maker # taker
      /\ UNCHANGED <<placed, phase, taker, responses>>
  BY <1>0, MatchFacts
<1>2. PICK filled \in Int :
        /\ qty' = [qty EXCEPT ![maker] = qty[maker] - filled, ![taker] = qty[taker] - filled]
        /\ trades' = Append(trades, MakeTrade(maker, filled))
  BY <1>0, MatchFacts
<1> DEFINE t == MakeTrade(maker, filled)
<1>3. /\ t \in Trade /\ t.maker = maker
      /\ t.makerRemaining = qty[maker] - filled /\ t.takerRemaining = qty[taker] - filled
  BY <1>0, <1>1, TradeFields
<1>4. \A o \in Ids : qty'[o] = IF o = taker THEN qty[taker] - filled
                              ELSE IF o = maker THEN qty[maker] - filled ELSE qty[o]
  <2>1. /\ qty \in Seq(Int) /\ Ids = 1..Len(qty)
        /\ qty[maker] - filled \in Int /\ qty[taker] - filled \in Int
    BY <1>0, <1>1, ObjectFields DEF TypeOK, Ids
  <2> QED
    BY <1>1, <1>2, <2>1, ReplaceTwo
<1>5. /\ Len(trades) \in Nat /\ Len(trades') = Len(trades) + 1
      /\ \A i \in 1..Len(trades) : trades'[i] = trades[i]
      /\ trades'[Len(trades) + 1] = t
  <2>1. trades \in Seq(Trade)
    BY <1>0 DEF TypeOK
  <2> HIDE DEF Trade, t
  <2> QED
    BY <1>2, <1>3, <2>1, OneMore DEF t
<1> HIDE DEF t
<1>6. ASSUME NEW i \in 1..Len(trades)
      PROVE  trades[i].maker \in Ids /\ trades[i].maker \notin {maker, taker}
  <2>1. trades[i].maker \in Ids /\ trades[i].maker # taker
    BY TradeFacts DEF GoodTrade
  <2>2. i \in 1..Len(trades') /\ Len(trades) + 1 \in 1..Len(trades') /\ i # Len(trades) + 1
    BY <1>5
  <2>3. trades'[i].maker # trades'[Len(trades) + 1].maker
    BY <2>2 DEF IInv, TradesAreGood
  <2> QED
    BY <1>3, <1>5, <2>1, <2>3
<1>7. TradesTellRest'
  <2>1. ASSUME NEW i \in 1..Len(trades')
        PROVE  trades'[i].makerRemaining = qty'[trades'[i].maker]
    <3>1. CASE i \in 1..Len(trades)
      BY <1>4, <1>5, <1>6, <3>1 DEF ToldInv, TradesTellRest
    <3>2. CASE i = Len(trades) + 1
      BY <1>1, <1>3, <1>4, <1>5, <3>2
    <3> QED
      BY <1>5, <3>1, <3>2
  <2>2. trades'[Len(trades')].takerRemaining = qty'[taker]
    BY <1>1, <1>3, <1>4, <1>5
  <2> QED
    BY <1>1, <2>1, <2>2 DEF TradesTellRest
<1>8. MessagesTellRest' /\ LastMessageIsTrue'
  BY <1>1 DEF ToldInv, MessagesTellRest, LastMessageIsTrue
<1> QED
  BY <1>7, <1>8 DEF ToldInv

\* The matching ends: only a market order's quantity changes.
LEMMA ToldFinish ==
  ASSUME IInv, ToldInv, FinishMatching
  PROVE  ToldInv'
PROOF
<1>0. TypeOK
  BY DEF IInv
<1>1. /\ phase = "matching" /\ phase' = "settling"
      /\ UNCHANGED <<placed, taker, trades, responses>>
      /\ \/ qty' = qty
         \/ placed[taker].type = Market /\ qty' = [qty EXCEPT ![taker] = 0]
  BY DEF FinishMatching
<1>2. ASSUME NEW i \in 1..Len(trades)
      PROVE  trades[i].maker \in Ids /\ trades[i].maker # taker
  BY TradeFacts DEF GoodTrade
<1>3. TradesTellRest'
  <2>1. ASSUME NEW i \in 1..Len(trades)
        PROVE  trades[i].makerRemaining = qty'[trades[i].maker]
    <3>1. qty'[trades[i].maker] = qty[trades[i].maker]
      <4>1. qty \in Seq(Int) /\ trades[i].maker \in 1..Len(qty)
        BY <1>0, <1>2 DEF TypeOK, Ids
      <4> QED
        BY <1>1, <1>2, <4>1
    <3> QED
      BY <3>1 DEF ToldInv, TradesTellRest
  <2> QED
    BY <1>1, <2>1 DEF ToldInv, TradesTellRest
<1>4. MessagesTellRest' /\ LastMessageIsTrue'
  <2>1. responses' = << >> /\ Len(responses') = 0
    BY <1>1 DEF ToldInv, MessagesTellRest
  <2> QED
    BY <1>1, <2>1 DEF MessagesTellRest, LastMessageIsTrue
<1> QED
  BY <1>3, <1>4 DEF ToldInv

\* Settling a trade passes on what it tells.
LEMMA ToldSettle ==
  ASSUME IInv, ToldInv, Settle
  PROVE  ToldInv'
PROOF
<1>0. TypeOK
  BY DEF IInv
<1> DEFINE t == Head(trades)
           n == Len(responses)
<1>1. /\ phase = "settling" /\ trades # << >> /\ trades' = Tail(trades)
      /\ responses' = responses \o Confirmations(t)
      /\ MakerID(t) \in DOMAIN orders /\ TakerID(t) \in DOMAIN orders
      /\ UNCHANGED <<placed, qty, phase, taker>>
  BY DEF Settle, bookVars
<1>2. /\ t \in Trade /\ t = trades[1] /\ 1 \in 1..Len(trades)
      /\ t.maker \in Ids /\ t.taker = taker
  BY <1>0, <1>1, HeadFacts, PendingTrade
<1>3. /\ Len(trades) \in Nat \ {0} /\ Len(trades') = Len(trades) - 1
      /\ \A i \in 1..(Len(trades) - 1) : trades'[i] = trades[i + 1]
  <2>1. trades \in Seq(Trade)
    BY <1>0, TypeParts
  <2> HIDE DEF Trade
  <2> QED
    BY <1>1, <2>1, HeadAndTail
<1>4. /\ Confirmations(t)[1].id = placed[t.maker].id
      /\ Confirmations(t)[1].remaining = t.makerRemaining
      /\ Confirmations(t)[2].id = placed[taker].id
      /\ Confirmations(t)[2].remaining = t.takerRemaining
  BY <1>2 DEF Confirmations, Confirmation, MakerID, TakerID
<1>5. /\ n \in Nat /\ Len(responses') = n + 2
      /\ \A i \in 1..n : responses'[i] = responses[i]
      /\ responses'[n + 1] = Confirmations(t)[1]
      /\ responses'[n + 2] = Confirmations(t)[2]
  <2>1. responses \in Seq(Messages)
    BY <1>0, TypeParts
  <2>2. Confirmations(t) \in Seq(Messages) /\ Len(Confirmations(t)) = 2
    BY <1>0, <1>1, <1>2, ConfirmationsType
  <2> DEFINE c == Confirmations(t)
  <2>3. responses' = responses \o c /\ c \in Seq(Messages) /\ Len(c) = 2
    BY <1>1, <2>2
  <2> HIDE DEF t, c, Messages
  <2>4. /\ Len(responses') = Len(responses) + 2 /\ Len(responses) \in Nat
        /\ \A i \in 1..Len(responses) + 2 :
             responses'[i] = IF i <= Len(responses) THEN responses[i]
                             ELSE c[i - Len(responses)]
    <3>1. /\ Len(responses \o c) = Len(responses) + Len(c)
          /\ \A i \in 1..Len(responses) + Len(c) :
               (responses \o c)[i] = IF i <= Len(responses) THEN responses[i]
                                     ELSE c[i - Len(responses)]
      BY <2>1, <2>3, ConcatProperties
    <3>2. Len(responses) \in Nat
      BY <2>1
    <3> QED
      BY <2>3, <3>1, <3>2
  <2> QED
    BY <2>4 DEF c
<1>9. taker \in Ids
  BY <1>1, TakerFacts
<1> HIDE DEF t, n
<1>6. TradesTellRest'
  <2>1. ASSUME NEW i \in 1..Len(trades')
        PROVE  trades'[i].makerRemaining = qty[trades'[i].maker]
    <3>1. i + 1 \in 1..Len(trades) /\ trades'[i] = trades[i + 1]
      BY <1>3
    <3> QED
      BY <3>1 DEF ToldInv, TradesTellRest
  <2>2. ASSUME trades' # << >> PROVE trades'[Len(trades')] = trades[Len(trades)]
    <3>1. Len(trades) # 1
      BY <1>3, <2>2, <1>1, <1>0, PendingTrade, EmptySeq
    <3> QED
      BY <1>3, <3>1
  <2> QED
    BY <1>1, <2>1, <2>2 DEF ToldInv, TradesTellRest
<1>7. MessagesTellRest'
  <2>1. ASSUME NEW i \in 1..Len(responses'), NEW o \in Ids \ {taker},
               responses'[i].id = placed[o].id
        PROVE  responses'[i].remaining = qty[o]
    <3>1. CASE i \in 1..n
      BY <1>1, <1>5, <2>1, <3>1 DEF ToldInv, MessagesTellRest, n
    <3>2. CASE i = n + 1
      <4>1. t.maker = o
        BY <1>2, <1>4, <1>5, <2>1, <3>2, UniqueFacts
      <4> QED
        BY <1>2, <1>4, <1>5, <3>2, <4>1 DEF ToldInv, TradesTellRest
    <3>3. CASE i = n + 2
      BY <1>4, <1>5, <1>9, <2>1, <3>3, UniqueFacts
    <3> QED
      BY <1>5, <3>1, <3>2, <3>3
  <2>2. ASSUME trades' = << >>
        PROVE  /\ responses'[Len(responses')].id = placed[taker].id
               /\ \/ placed[taker].type = Market
                  \/ responses'[Len(responses')].remaining = qty[taker]
    <3>1. Len(trades) = 1
      BY <1>3, <2>2
    <3> QED
      BY <1>1, <1>2, <1>4, <1>5, <3>1 DEF ToldInv, TradesTellRest
  <2> QED
    BY <1>1, <2>1, <2>2 DEF MessagesTellRest, Ids
<1>8. LastMessageIsTrue'
  BY <1>1 DEF LastMessageIsTrue
<1> QED
  BY <1>6, <1>7, <1>8 DEF ToldInv

\* placeOrder returns with messages whose last word on every order is true.
LEMMA ToldEnd ==
  ASSUME IInv, ToldInv, EndPlaceOrder
  PROVE  ToldInv'
PROOF
<1>0. TypeOK
  BY DEF IInv
<1>1. /\ phase = "settling" /\ phase' = "idle" /\ trades = << >> /\ trades' = << >>
      /\ responses' = IF responses = << >> THEN <<RestingMessage(taker)>> ELSE responses
      /\ UNCHANGED <<placed, qty>>
  BY DEF EndPlaceOrder, bookVars
<1>2. Len(trades') = 0 /\ taker \in Ids
  BY <1>0, <1>1, TypeParts
<1>3. \A o \in Ids : placed[o].id = placed[taker].id => o = taker
  BY <1>2, UniqueFacts
<1>4. ASSUME NEW o \in Ids, NEW i \in 1..Len(responses'),
             responses'[i].id = placed[o].id,
             \A j \in (i + 1)..Len(responses') : responses'[j].id # placed[o].id
      PROVE  placed[o].type = Market \/ responses'[i].remaining = qty[o]
  <2>1. CASE responses = << >>
    <3>1. responses' = <<RestingMessage(taker)>>
      BY <1>1, <2>1
    <3>2. Len(responses') = 1 /\ responses'[1] = RestingMessage(taker) /\ i = 1
      BY <1>4, <3>1
    <3>3. /\ RestingMessage(taker).id = placed[taker].id
          /\ RestingMessage(taker).remaining = qty[taker]
      BY DEF RestingMessage
    <3> QED
      BY <1>3, <1>4, <3>2, <3>3
  <2>2. CASE responses # << >>
    <3>1. responses' = responses
      BY <1>1, <2>2
    <3>2. CASE o # taker
      <4>1. i \in 1..Len(responses) /\ responses[i].id = placed[o].id
        BY <1>4, <3>1
      <4> QED
        BY <1>1, <3>1, <3>2, <4>1 DEF ToldInv, MessagesTellRest
    <3>3. CASE o = taker
      <4>1. /\ responses[Len(responses)].id = placed[taker].id
            /\ \/ placed[taker].type = Market
               \/ responses[Len(responses)].remaining = qty[taker]
        BY <1>1, <2>2 DEF ToldInv, MessagesTellRest
      <4>2. Len(responses) \in Nat
        BY <1>0 DEF TypeOK
      <4>3. i = Len(responses)
        BY <1>4, <3>1, <3>3, <4>1, <4>2
      <4> QED
        BY <3>1, <3>3, <4>1, <4>3
    <3> QED
      BY <3>2, <3>3
  <2> QED
    BY <2>1, <2>2
<1>5. LastMessageIsTrue'
  <2>1. Ids' = Ids
    BY <1>1 DEF Ids
  <2> QED
    BY <1>1, <1>4, <2>1 DEF LastMessageIsTrue
<1>6. TradesTellRest' /\ MessagesTellRest'
  BY <1>1, <1>2 DEF TradesTellRest, MessagesTellRest
<1> QED
  BY <1>5, <1>6 DEF ToldInv

\* If order IDs are unique, a client that believes the last message of a call
\* about an order agrees with the exchange about what is left of it.
THEOREM LastMessageHolds ==
  ASSUME OwnCounters = FALSE
  PROVE  Spec => []LastMessageIsTrue
PROOF
<1>1. ASSUME Init PROVE ToldInv
  <2>1. trades = << >> /\ responses = << >> /\ Len(trades) = 0 /\ Len(responses) = 0
    BY <1>1 DEF Init
  <2> QED
    BY <2>1 DEF ToldInv, TradesTellRest, MessagesTellRest, LastMessageIsTrue
<1>2. ASSUME IInv, IInv', ToldInv, [Next]_vars PROVE ToldInv'
  <2>1. ASSUME NEW maker \in Ids, Match(maker) PROVE ToldInv'
    BY <1>2, <2>1, ToldMatch
  <2>2. ~SettleThrows
    BY <1>2, NothingThrows
  <2>3. CASE CallStep
    BY <1>2, <2>1, <2>2, <2>3, ToldFinish, ToldSettle, ToldEnd DEF CallStep
  <2>4. CASE UNCHANGED vars
    <3>1. UNCHANGED <<placed, qty, phase, taker, trades, responses>>
      BY <2>4 DEF vars, bookVars
    <3>2. TradesTellRest' /\ MessagesTellRest' /\ LastMessageIsTrue'
      BY <1>2, <3>1 DEF ToldInv, TradesTellRest, MessagesTellRest, LastMessageIsTrue,
         Ids, OrderMessage
    <3> QED
      BY <3>2 DEF ToldInv
  <2> QED
    BY <1>2, <2>3, <2>4, ToldCalls DEF Next, PlaceOrder, PlaceUnknown
<1>3. ToldInv => LastMessageIsTrue
  BY DEF ToldInv
<1> QED
  BY <1>1, <1>2, <1>3, InvHolds, IDsStayUnique, PTL DEF Spec
=============================================================================
