-------------------------- MODULE OrderBookProofs --------------------------
(***************************************************************************)
(* Proofs about OrderBook, for all prices, quantities and numbers of       *)
(* orders.                                                                 *)
(***************************************************************************)
EXTENDS OrderBook, DataFacts

-----------------------------------------------------------------------------
(* Types *)

\* What the fields of an order are.
LEMMA OrderFields ==
  ASSUME NEW order \in Orders
  PROVE  /\ order.side \in Sides
         /\ order.type \in {Market, Limit}
         /\ order.price \in Int
         /\ order.size \in Int
         /\ order.type = Limit => order.price \in Prices
PROOF
<1>1. CASE order \in [side : Sides, type : {Limit}, price : Prices, size : Quantities]
  BY <1>1, PricesAssumption, QuantitiesAssumption DEF Market, Limit
<1>2. CASE order \in [side : Sides, type : {Market}, price : {MarketPrice},
                      size : Quantities]
  <2>1. /\ order.side \in Sides
        /\ order.type = Market
        /\ order.price = MarketPrice
        /\ order.size \in Quantities
    BY <1>2
  <2>2. order.size \in Int
    BY <2>1, QuantitiesAssumption
  <2>3. Market # Limit /\ MarketPrice \in Int
    BY DEF Market, Limit, MarketPrice
  <2> QED
    BY <2>1, <2>2, <2>3
<1> QED
  BY <1>1, <1>2 DEF Orders

\* The first order of a non-empty list, and the list without it.
LEMMA FirstEntry ==
  ASSUME TypeOK, NEW side \in Sides, NEW p \in Prices, queue[side][p] # << >>
  PROVE  /\ Len(queue[side][p]) \in Nat \ {0}
         /\ Head(queue[side][p]) = queue[side][p][1]
         /\ Head(queue[side][p]) \in Ids
         /\ Tail(queue[side][p]) \in Seq(Ids)
         /\ Len(Tail(queue[side][p])) = Len(queue[side][p]) - 1
         /\ \A i \in 1..(Len(queue[side][p]) - 1) :
              Tail(queue[side][p])[i] = queue[side][p][i + 1]
PROOF
<1>1. queue[side][p] \in Seq(Ids)
  BY DEF TypeOK
<1> QED
  BY <1>1, HeadTailProperties

\* The order being handled and the side it trades against.
LEMMA TakerFields ==
  ASSUME TypeOK, taker # NoOrder
  PROVE  /\ taker \in Ids
         /\ placed[taker] \in Orders
         /\ qty[taker] \in Int
         /\ Against \in Sides
         /\ Against = Opposite(placed[taker].side)
         /\ Against # placed[taker].side
PROOF
<1>1. taker \in Ids /\ placed[taker] \in Orders /\ qty[taker] \in Int
  BY DEF TypeOK, Ids
<1> QED
  BY <1>1, OrderFields DEF Against, Opposite, Sides, Buy, Sell

\* What is known of the Trade object fillOrder makes.
LEMMA TradeFields ==
  ASSUME TypeOK, taker \in Ids, NEW maker \in Ids, NEW filled \in Int
  PROVE  MakeTrade(maker, filled) \in Trade
PROOF
<1>1. placed[maker] \in Orders /\ qty[maker] \in Int /\ qty[taker] \in Int
  BY DEF TypeOK, Ids
<1>2. placed[maker].price \in Int
  BY <1>1, OrderFields
<1>3. taker \in Nat /\ maker \in Nat
  BY DEF Ids
<1> QED
  BY <1>1, <1>2, <1>3 DEF MakeTrade, Trade

\* Each step keeps the types.
LEMMA TypeStep ==
  ASSUME TypeOK, [Next]_vars
  PROVE  TypeOK'
PROOF
<1> USE DEF NoOrder
<1>1. ASSUME NEW order \in Orders, Submit(order)
      PROVE  TypeOK'
  <2>1. /\ placed' \in Seq(Orders) /\ Len(placed') = Len(placed) + 1
        /\ qty' \in Seq(Int) /\ Len(qty') = Len(qty) + 1
    BY <1>1, OrderFields DEF TypeOK, Submit
  <2>2. Ids \subseteq Ids' /\ taker' \in Ids'
    BY <1>1, <2>1 DEF TypeOK, Submit, Ids
  <2>3. \A side \in Sides, p \in Prices : queue[side][p] \in Seq(Ids')
    BY <2>2 DEF TypeOK
  <2> QED
    BY <1>1, <2>1, <2>2, <2>3 DEF TypeOK, Submit
<1>2. ASSUME NEW p \in Prices, ExhaustEntry(p)
      PROVE  TypeOK'
  <2> DEFINE entry == Head(queue[Against][p])
             left  == Tail(queue[Against][p])
  <2>1. taker \in Ids /\ Against \in Sides /\ entry \in Ids /\ left \in Seq(Ids)
    BY <1>2, TakerFields, FirstEntry DEF ExhaustEntry, Matching
  <2> HIDE DEF entry
  <2>2. qty[taker] \in Int /\ qty[entry] \in Int /\ placed[entry] \in Orders
    BY <2>1 DEF TypeOK, Ids
  <2>3. MakeTrade(entry, qty[entry]) \in Trade
    BY <2>1, <2>2, TradeFields
  <2>4. qty' \in Seq(Int) /\ Len(qty') = Len(qty)
    <3>1. qty' = [qty EXCEPT ![taker] = qty[taker] - qty[entry], ![entry] = 0]
      BY <1>2 DEF ExhaustEntry, entry
    <3> QED
      BY <3>1, <2>1, <2>2, ReplaceTwo DEF TypeOK, Ids
  <2>5. levels' \in [Sides -> SUBSET Prices]
    BY <1>2, <2>1 DEF TypeOK, ExhaustEntry, LevelsWithout
  <2>6. queue' \in [Sides -> [Prices -> Seq(Ids)]]
    BY <1>2, <2>1 DEF TypeOK, ExhaustEntry
  <2>7. trades' \in Seq(Trade)
    BY <1>2, <2>3 DEF TypeOK, ExhaustEntry, entry
  <2> QED
    BY <1>2, <2>4, <2>5, <2>6, <2>7 DEF TypeOK, ExhaustEntry, Ids
<1>3. ASSUME NEW p \in Prices, PartlyFillEntry(p)
      PROVE  TypeOK'
  <2> DEFINE entry == Head(queue[Against][p])
  <2>1. taker \in Ids /\ Against \in Sides /\ entry \in Ids
    BY <1>3, TakerFields, FirstEntry DEF PartlyFillEntry, Matching
  <2> HIDE DEF entry
  <2>2. qty[taker] \in Int /\ qty[entry] \in Int /\ placed[entry] \in Orders
    BY <2>1 DEF TypeOK, Ids
  <2>3. MakeTrade(entry, qty[taker]) \in Trade
    BY <2>1, <2>2, TradeFields
  <2>4. qty' \in Seq(Int) /\ Len(qty') = Len(qty)
    <3>1. qty' = [qty EXCEPT ![entry] = qty[entry] - qty[taker], ![taker] = 0]
      BY <1>3 DEF PartlyFillEntry, FillTaker, entry
    <3> QED
      BY <3>1, <2>1, <2>2, ReplaceTwo DEF TypeOK, Ids
  <2>5. trades' \in Seq(Trade)
    BY <1>3, <2>3 DEF TypeOK, PartlyFillEntry, entry
  <2> QED
    BY <1>3, <2>4, <2>5 DEF TypeOK, PartlyFillEntry, Ids
<1>4. ASSUME NEW p \in Prices, DropEmptyLevel(p)
      PROVE  TypeOK'
  BY <1>4 DEF TypeOK, DropEmptyLevel, LevelsWithout, Ids
<1>5. ASSUME Rest
      PROVE  TypeOK'
  <2> DEFINE side == placed[taker].side
             p    == placed[taker].price
  <2>1. taker \in Ids /\ side \in Sides /\ p \in Prices
    BY <1>5, TakerFields, OrderFields DEF Rest, MayRest, NoMatch
  <2>2. Append(queue[side][p], taker) \in Seq(Ids)
    BY <2>1 DEF TypeOK
  <2>3. levels' \in [Sides -> SUBSET Prices]
    BY <1>5, <2>1 DEF TypeOK, Rest
  <2>4. queue' \in [Sides -> [Prices -> Seq(Ids)]]
    BY <1>5, <2>1, <2>2 DEF TypeOK, Rest, Enqueue
  <2> QED
    BY <1>5, <2>3, <2>4 DEF TypeOK, Rest, Ids
<1>6. ASSUME Return
      PROVE  TypeOK'
  <2>1. taker \in Ids
    BY <1>6, TakerFields DEF Return, NoMatch
  <2>2. qty' \in Seq(Int) /\ Len(qty') = Len(qty)
    <3>1. qty' = qty \/ qty' = [qty EXCEPT ![taker] = 0]
      BY <1>6 DEF Return
    <3> QED
      BY <3>1, <2>1, ExceptSeq DEF TypeOK, Ids
  <2> QED
    BY <1>6, <2>2 DEF TypeOK, Return, Ids
<1>7. ASSUME NEW o \in Resting, Cancel(o)
      PROVE  TypeOK'
  <2> DEFINE side == placed[o].side
             p    == placed[o].price
  <2>1. PICK i \in 1..Len(queue[side][p]) :
          queue' = [queue EXCEPT ![side][p] = RemoveAt(@, i)]
    BY <1>7 DEF Cancel
  <2>2. ASSUME side \in Sides, p \in Prices
        PROVE  RemoveAt(queue[side][p], i) \in Seq(Ids)
    BY <2>2, RemoveAtProperties DEF TypeOK
  <2>3. queue' \in [Sides -> [Prices -> Seq(Ids)]]
    BY <2>1, <2>2 DEF TypeOK
  <2> QED
    BY <1>7, <2>3 DEF TypeOK, Cancel, Ids
<1>8. CASE UNCHANGED vars
  BY <1>8 DEF TypeOK, vars, Ids
<1> QED
  BY <1>1, <1>2, <1>3, <1>4, <1>5, <1>6, <1>7, <1>8 DEF Next, HandleStep

\* Every variable keeps its type: the type invariant holds throughout.
THEOREM TypeCorrect == Spec => []TypeOK
PROOF
<1>1. Init => TypeOK
  BY DEF Init, TypeOK, Ids, NoOrder
<1>2. TypeOK /\ [Next]_vars => TypeOK'
  BY TypeStep
<1> QED
  BY <1>1, <1>2, PTL DEF Spec

-----------------------------------------------------------------------------
(* The inductive invariant *)

\* An order listed in the book: what it is, and that it is listed there only.
LEMMA ListedOrder ==
  ASSUME IInv,
         NEW side \in Sides, NEW p \in Prices, NEW i \in 1..Len(queue[side][p]),
         NEW o, o = queue[side][p][i]
  PROVE  /\ o \in Ids
         /\ o # taker
         /\ placed[o].type = Limit
         /\ placed[o].side = side
         /\ placed[o].price = p
         /\ qty[o] \in Int
         /\ qty[o] > 0
         /\ p \in levels[side]
         /\ \A s \in Sides, q \in Prices : \A j \in 1..Len(queue[s][q]) :
              queue[s][q][j] = o => s = side /\ q = p /\ j = i
PROOF
<1>1. /\ o \in Ids
      /\ qty[o] \in Int
  <2>1. queue[side][p] \in Seq(Ids)
    BY DEF IInv, TypeOK
  <2>2. o \in Ids
    BY <2>1
  <2> QED
    BY <2>2 DEF IInv, TypeOK, Ids
<1>2. \A s \in Sides, q \in Prices : \A j \in 1..Len(queue[s][q]) :
        queue[s][q][j] = o => WellPlaced(o, s, q)
  BY DEF IInv, QueuesMatchOrders
<1>3. ASSUME NEW s \in Sides, NEW q \in Prices, NEW j \in 1..Len(queue[s][q]),
             queue[s][q][j] = o
      PROVE  s = side /\ q = p /\ j = i
  <2>1. s = side /\ q = p
    BY <1>2, <1>3 DEF WellPlaced
  <2>2. queue[side][p] \in Seq(Ids) /\ Ids \subseteq Int
    BY DEF IInv, TypeOK, Ids
  <2>3. ~(i < j) /\ ~(j < i)
    BY <1>1, <1>3, <2>1, <2>2 DEF IInv, InArrivalOrder
  <2> QED
    BY <2>1, <2>2, <2>3, <1>3
<1> QED
  BY <1>1, <1>2, <1>3 DEF WellPlaced

\* The order at the head of the best level, which fillOrder works on.
LEMMA BestEntry ==
  ASSUME IInv, NEW p \in Prices, Matching(p), queue[Against][p] # << >>,
         NEW entry, entry = Head(queue[Against][p])
  PROVE  /\ taker \in Ids
         /\ Against \in Sides
         /\ entry \in Ids
         /\ entry # taker
         /\ qty[entry] \in Int
         /\ qty[taker] \in Int
         /\ qty[entry] > 0
         /\ qty[taker] > 0
         /\ placed[entry].side = Against
         /\ placed[entry].price = p
         /\ \A s \in Sides, q \in Prices : \A j \in 1..Len(queue[s][q]) :
              queue[s][q][j] = entry => s = Against /\ q = p /\ j = 1
PROOF
<1>1. TypeOK /\ taker # NoOrder
  BY DEF IInv, Matching
<1>2. taker \in Ids /\ Against \in Sides /\ qty[taker] \in Int
  BY <1>1, TakerFields
<1>3. 1 \in 1..Len(queue[Against][p]) /\ entry = queue[Against][p][1]
  BY <1>1, <1>2, FirstEntry
<1> QED
  BY <1>2, <1>3, ListedOrder DEF Matching

\* fillOrder works on limit orders.
LEMMA EntryIsLimit ==
  ASSUME IInv, NEW p \in Prices, Matching(p), queue[Against][p] # << >>
  PROVE  placed[Head(queue[Against][p])].type = Limit
PROOF
<1>1. TypeOK /\ taker # NoOrder
  BY DEF IInv, Matching
<1>2. Against \in Sides
  BY <1>1, TakerFields
<1>3. 1 \in 1..Len(queue[Against][p]) /\ Head(queue[Against][p]) = queue[Against][p][1]
  BY <1>1, <1>2, FirstEntry
<1> QED
  BY <1>2, <1>3, ListedOrder

\* Each step keeps the inductive invariant.
LEMMA InvStep ==
  ASSUME IInv, [Next]_vars
  PROVE  IInv'
PROOF
<1> USE DEF NoOrder
<1>0. TypeOK /\ TypeOK'
  BY TypeStep DEF IInv
<1>1. ASSUME NEW order \in Orders, Submit(order)
      PROVE  IInv'
  <2>1. /\ Ids \subseteq Int
        /\ taker' = Len(placed) + 1
        /\ taker' \notin Ids
        /\ \A o \in Ids : placed'[o] = placed[o] /\ qty'[o] = qty[o]
    BY <1>0, <1>1 DEF Submit, TypeOK, Ids
  <2>2. ASSUME NEW side \in Sides, NEW p \in Prices,
               NEW i \in 1..Len(queue[side][p]), NEW o, o = queue[side][p][i]
        PROVE  WellPlaced(o, side, p)'
    <3>1. o \in Ids /\ WellPlaced(o, side, p)
      BY <2>2, ListedOrder DEF IInv, QueuesMatchOrders
    <3> QED
      BY <1>1, <2>1, <3>1 DEF WellPlaced, Submit
  <2>3. QueuesMatchOrders'
    BY <1>1, <2>2 DEF QueuesMatchOrders, Submit
  <2>4. TakerIsNewest'
    BY <1>0, <1>1 DEF TakerIsNewest, Submit, TypeOK
  <2> QED
    BY <1>0, <1>1, <2>3, <2>4 DEF IInv, InArrivalOrder, Uncrossed, Submit
<1>2. ASSUME NEW p \in Prices, ExhaustEntry(p)
      PROVE  IInv'
  <2> DEFINE entry == Head(queue[Against][p])
             left  == Tail(queue[Against][p])
  <2>1. /\ Against \in Sides
        /\ taker \in Ids /\ entry \in Ids /\ entry # taker
        /\ qty[taker] \in Int /\ qty[entry] \in Int
        /\ \A s \in Sides, q \in Prices : \A j \in 1..Len(queue[s][q]) :
             queue[s][q][j] = entry => s = Against /\ q = p /\ j = 1
    BY <1>2, BestEntry DEF ExhaustEntry
  <2>2. /\ Len(left) = Len(queue[Against][p]) - 1
        /\ Len(queue[Against][p]) \in Nat
        /\ \A i \in 1..Len(left) : left[i] = queue[Against][p][i + 1]
    BY <1>0, <1>2, <2>1, FirstEntry DEF ExhaustEntry
  <2>3. /\ queue' = [queue EXCEPT ![Against][p] = left]
        /\ qty' = [qty EXCEPT ![taker] = qty[taker] - qty[entry], ![entry] = 0]
        /\ levels' = IF left = << >>
                     THEN [levels EXCEPT ![Against] = @ \ {p}] ELSE levels
        /\ placed' = placed
        /\ taker' = taker
    BY <1>2 DEF ExhaustEntry, LevelsWithout
  <2> HIDE DEF entry, left
  <2>4. \A o \in Ids \ {taker, entry} : qty'[o] = qty[o]
    <3>1. qty \in Seq(Int) /\ Ids = 1..Len(qty)
      BY <1>0 DEF TypeOK, Ids
    <3> QED
      BY <2>1, <2>3, <3>1, ReplaceTwo
  <2>5. \A s \in Sides, q \in Prices :
          \/ s = Against /\ q = p /\ queue'[s][q] = left
          \/ ~(s = Against /\ q = p) /\ queue'[s][q] = queue[s][q]
    BY <1>0, <2>1, <2>3 DEF TypeOK
  <2>6. ASSUME NEW s \in Sides, NEW q \in Prices,
               NEW i \in 1..Len(queue'[s][q])
        PROVE  \E j \in 1..Len(queue[s][q]) :
                 /\ queue'[s][q][i] = queue[s][q][j]
                 /\ queue[s][q][j] # entry
                 /\ q \in levels'[s] \/ q \notin levels[s]
    <3>1. CASE s = Against /\ q = p
      <4>1. queue'[s][q] = left /\ left # << >>
        BY <2>5, <3>1
      <4>2. i + 1 \in 1..Len(queue[s][q])
            /\ queue'[s][q][i] = queue[s][q][i + 1] /\ i + 1 # 1
        BY <2>2, <3>1, <4>1
      <4>3. levels' = levels
        BY <2>3, <4>1
      <4> QED
        BY <2>1, <4>2, <4>3
    <3>2. CASE ~(s = Against /\ q = p)
      <4>1. queue'[s][q] = queue[s][q]
        BY <2>5, <3>2
      <4>2. q \in levels'[s] \/ q \notin levels[s]
        BY <1>0, <2>1, <2>3, <3>2 DEF TypeOK
      <4> QED
        BY <2>1, <3>2, <4>1, <4>2
    <3> QED
      BY <3>1, <3>2
  <2>7. QueuesMatchOrders'
    <3>1. ASSUME NEW s \in Sides, NEW q \in Prices,
                 NEW i \in 1..Len(queue'[s][q]), NEW o, o = queue'[s][q][i]
          PROVE  WellPlaced(o, s, q)'
      <4>1. PICK j \in 1..Len(queue[s][q]) :
              o = queue[s][q][j] /\ o # entry
              /\ (q \in levels'[s] \/ q \notin levels[s])
        BY <2>6, <3>1
      <4>2. /\ o \in Ids /\ o # taker
            /\ placed[o].type = Limit /\ placed[o].side = s /\ placed[o].price = q
            /\ qty[o] > 0 /\ q \in levels[s]
        BY <4>1, ListedOrder
      <4> QED
        BY <2>3, <2>4, <4>1, <4>2 DEF WellPlaced
    <3> QED
      BY <3>1 DEF QueuesMatchOrders
  <2>8. InArrivalOrder'
    <3>1. ASSUME NEW s \in Sides, NEW q \in Prices,
                 NEW i \in 1..Len(queue'[s][q]), NEW j \in 1..Len(queue'[s][q]),
                 i < j
          PROVE  queue'[s][q][i] < queue'[s][q][j]
      <4>1. CASE s = Against /\ q = p
        <5>1. queue'[s][q] = left
          BY <2>5, <4>1
        <5>2. /\ i + 1 \in 1..Len(queue[s][q])
              /\ j + 1 \in 1..Len(queue[s][q])
              /\ i + 1 < j + 1
              /\ queue'[s][q][i] = queue[s][q][i + 1]
              /\ queue'[s][q][j] = queue[s][q][j + 1]
          BY <2>2, <3>1, <4>1, <5>1
        <5> QED
          BY <5>2 DEF IInv, InArrivalOrder
      <4>2. CASE ~(s = Against /\ q = p)
        BY <2>5, <3>1, <4>2 DEF IInv, InArrivalOrder
      <4> QED
        BY <4>1, <4>2
    <3> QED
      BY <3>1 DEF InArrivalOrder
  <2>9. \A s \in Sides : levels'[s] \subseteq levels[s]
    BY <1>0, <2>1, <2>3 DEF TypeOK
  <2>10. Uncrossed' /\ TakerIsNewest'
    BY <2>3, <2>9 DEF IInv, Uncrossed, TakerIsNewest, Sides
  <2> QED
    BY <1>0, <2>7, <2>8, <2>10 DEF IInv
<1>3. ASSUME NEW p \in Prices, PartlyFillEntry(p)
      PROVE  IInv'
  <2> DEFINE entry == Head(queue[Against][p])
  <2>1. /\ Against \in Sides
        /\ taker \in Ids /\ entry \in Ids /\ entry # taker
        /\ qty[taker] \in Int /\ qty[entry] \in Int
    BY <1>3, BestEntry DEF PartlyFillEntry
  <2>2. /\ qty' = [qty EXCEPT ![entry] = qty[entry] - qty[taker], ![taker] = 0]
        /\ qty[entry] > qty[taker]
        /\ UNCHANGED <<placed, levels, queue, taker>>
    BY <1>3 DEF PartlyFillEntry, FillTaker
  <2> HIDE DEF entry
  <2>3. \A o \in Ids \ {taker} : qty[o] > 0 => qty'[o] > 0
    <3>1. qty \in Seq(Int) /\ Ids = 1..Len(qty)
      BY <1>0 DEF TypeOK, Ids
    <3> QED
      BY <2>1, <2>2, <3>1, ReplaceTwo
  <2>4. QueuesMatchOrders'
    <3>1. ASSUME NEW s \in Sides, NEW q \in Prices,
                 NEW i \in 1..Len(queue[s][q]), NEW o, o = queue[s][q][i]
          PROVE  WellPlaced(o, s, q)'
      <4>1. o \in Ids /\ WellPlaced(o, s, q)
        BY <3>1, ListedOrder DEF IInv, QueuesMatchOrders
      <4> QED
        BY <2>2, <2>3, <4>1 DEF WellPlaced
    <3> QED
      BY <2>2, <3>1 DEF QueuesMatchOrders
  <2> QED
    BY <1>0, <2>2, <2>4 DEF IInv, InArrivalOrder, Uncrossed, TakerIsNewest
<1>4. ASSUME NEW p \in Prices, DropEmptyLevel(p)
      PROVE  IInv'
  <2>1. /\ Against \in Sides
        /\ queue[Against][p] = << >>
        /\ levels' = [levels EXCEPT ![Against] = @ \ {p}]
        /\ UNCHANGED <<placed, qty, queue, taker>>
    BY <1>0, <1>4, TakerFields DEF DropEmptyLevel, LevelsWithout, Matching
  <2>2. \A s \in Sides : levels'[s] \subseteq levels[s]
    BY <1>0, <2>1 DEF TypeOK
  <2>3. \A s \in Sides : \A q \in levels[s] :
          q \in levels'[s] \/ (s = Against /\ q = p)
    BY <1>0, <2>1 DEF TypeOK
  <2>4. QueuesMatchOrders'
    <3>1. ASSUME NEW s \in Sides, NEW q \in Prices,
                 NEW i \in 1..Len(queue[s][q]), NEW o, o = queue[s][q][i]
          PROVE  WellPlaced(o, s, q)'
      <4>1. WellPlaced(o, s, q)
        BY <3>1 DEF IInv, QueuesMatchOrders
      <4>2. ~(s = Against /\ q = p)
        BY <2>1
      <4> QED
        BY <2>1, <2>3, <4>1, <4>2 DEF WellPlaced
    <3> QED
      BY <2>1, <3>1 DEF QueuesMatchOrders
  <2>5. Uncrossed'
    BY <2>2 DEF IInv, Uncrossed, Sides
  <2> QED
    BY <1>0, <2>1, <2>4, <2>5 DEF IInv, InArrivalOrder, TakerIsNewest
<1>5. ASSUME Rest
      PROVE  IInv'
  <2> DEFINE side == placed[taker].side
             p    == placed[taker].price
  <2>1. /\ taker \in Ids /\ qty[taker] > 0 /\ taker = Len(placed)
        /\ placed[taker] \in Orders /\ placed[taker].type = Limit
        /\ side \in Sides /\ Against \in Sides /\ Against = Opposite(side)
        /\ p \in Prices
        /\ \A q \in levels[Against] : ~Acceptable(placed[taker], q)
    <3>1. taker # NoOrder /\ qty[taker] > 0 /\ placed[taker].type = Limit
      BY <1>5 DEF Rest, MayRest, NoMatch
    <3>2. /\ taker \in Ids /\ placed[taker] \in Orders /\ qty[taker] \in Int
          /\ Against \in Sides /\ Against = Opposite(side)
      BY <1>0, <3>1, TakerFields
    <3>3. \A q \in levels[Against] : ~Acceptable(placed[taker], q)
      BY <1>5, <3>1, <3>2 DEF Rest, NoMatch
    <3> QED
      BY <3>1, <3>2, <3>3, OrderFields DEF IInv, TakerIsNewest
  <2>2. /\ levels' = [levels EXCEPT ![side] = @ \cup {p}]
        /\ queue' = [queue EXCEPT ![side][p] = Append(@, taker)]
        /\ taker' = NoOrder
        /\ UNCHANGED <<placed, qty>>
    BY <1>5 DEF Rest, Enqueue
  <2> HIDE DEF side, p
  <2>3. queue[side][p] \in Seq(Ids)
    BY <1>0, <2>1 DEF TypeOK
  <2>4. /\ Len(queue'[side][p]) = Len(queue[side][p]) + 1
        /\ queue'[side][p][Len(queue[side][p]) + 1] = taker
        /\ \A i \in 1..Len(queue[side][p]) :
             queue'[side][p][i] = queue[side][p][i]
    <3>1. queue'[side][p] = Append(queue[side][p], taker)
      BY <1>0, <2>1, <2>2 DEF TypeOK
    <3> QED
      BY <2>1, <2>3, <3>1, AppendProperties
  <2>5. \A s \in Sides, q \in Prices :
          ~(s = side /\ q = p) => queue'[s][q] = queue[s][q]
    BY <1>0, <2>1, <2>2 DEF TypeOK
  <2>6. /\ levels'[side] = levels[side] \cup {p}
        /\ \A s \in Sides : levels[s] \subseteq levels'[s]
        /\ \A s \in Sides \ {side} : levels'[s] = levels[s]
    BY <1>0, <2>1, <2>2 DEF TypeOK
  <2>7. QueuesMatchOrders'
    <3>1. ASSUME NEW s \in Sides, NEW q \in Prices,
                 NEW i \in 1..Len(queue'[s][q]), NEW o, o = queue'[s][q][i]
          PROVE  WellPlaced(o, s, q)'
      <4>1. CASE s = side /\ q = p /\ i = Len(queue[s][q]) + 1
        <5>1. o = taker
          BY <2>4, <3>1, <4>1
        <5> QED
          BY <2>1, <2>2, <2>6, <4>1, <5>1 DEF WellPlaced, side, p, Ids
      <4>2. CASE ~(s = side /\ q = p /\ i = Len(queue[s][q]) + 1)
        <5>1. i \in 1..Len(queue[s][q]) /\ o = queue[s][q][i]
          BY <2>3, <2>4, <2>5, <3>1, <4>2
        <5>2. o \in Ids /\ WellPlaced(o, s, q)
          BY <5>1, ListedOrder DEF IInv, QueuesMatchOrders
        <5> QED
          BY <2>2, <2>6, <5>2 DEF WellPlaced, Ids
      <4> QED
        BY <4>1, <4>2
    <3> QED
      BY <3>1 DEF QueuesMatchOrders
  <2>8. InArrivalOrder'
    <3>1. ASSUME NEW s \in Sides, NEW q \in Prices,
                 NEW i \in 1..Len(queue'[s][q]), NEW j \in 1..Len(queue'[s][q]),
                 i < j
          PROVE  queue'[s][q][i] < queue'[s][q][j]
      <4>1. CASE s = side /\ q = p /\ j = Len(queue[s][q]) + 1
        <5>1. i \in 1..Len(queue[s][q])
          BY <2>3, <2>4, <3>1, <4>1
        <5>2. queue[s][q][i] \in Ids /\ queue[s][q][i] # taker
          BY <5>1, ListedOrder
        <5> QED
          BY <2>1, <2>4, <4>1, <5>1, <5>2 DEF Ids
      <4>2. CASE ~(s = side /\ q = p /\ j = Len(queue[s][q]) + 1)
        <5>1. /\ i \in 1..Len(queue[s][q]) /\ j \in 1..Len(queue[s][q])
              /\ queue'[s][q][i] = queue[s][q][i]
              /\ queue'[s][q][j] = queue[s][q][j]
          <6>1. CASE s = side /\ q = p
            <7>1. Len(queue[s][q]) \in Nat
              BY <2>3, <6>1
            <7>2. i < Len(queue[s][q]) + 1 /\ j < Len(queue[s][q]) + 1
              BY <2>4, <3>1, <4>2, <6>1, <7>1
            <7>3. i \in 1..Len(queue[s][q]) /\ j \in 1..Len(queue[s][q])
              BY <7>1, <7>2
            <7> QED
              BY <2>4, <6>1, <7>3
          <6>2. CASE ~(s = side /\ q = p)
            BY <2>5, <6>2
          <6> QED
            BY <6>1, <6>2
        <5> QED
          BY <3>1, <5>1 DEF IInv, InArrivalOrder
      <4> QED
        BY <4>1, <4>2
    <3> QED
      BY <3>1 DEF InArrivalOrder
  <2>9. Uncrossed'
    <3>1. \A s \in Sides : levels[s] \subseteq Int
      BY <1>0, PricesAssumption DEF TypeOK
    <3>2. p \in Int
      BY <2>1, PricesAssumption
    <3>3. CASE side = Buy
      <4>1. \A ask \in levels[Sell] : p < ask
        BY <2>1, <3>1, <3>2, <3>3
           DEF Acceptable, Opposite, Buy, Sell, Sides, Market, Limit, side, p
      <4> QED
        BY <2>6, <3>3, <4>1 DEF IInv, Uncrossed, Buy, Sell, Sides
    <3>4. CASE side = Sell
      <4>1. \A bid \in levels[Buy] : bid < p
        BY <2>1, <3>1, <3>2, <3>4
           DEF Acceptable, Opposite, Buy, Sell, Sides, Market, Limit, side, p
      <4> QED
        BY <2>6, <3>4, <4>1 DEF IInv, Uncrossed, Buy, Sell, Sides
    <3> QED
      BY <2>1, <3>3, <3>4 DEF Sides
  <2>10. TakerIsNewest'
    BY <2>2 DEF TakerIsNewest
  <2> QED
    BY <1>0, <2>7, <2>8, <2>9, <2>10 DEF IInv
<1>6. ASSUME Return
      PROVE  IInv'
  <2>1. /\ taker \in Ids /\ taker' = NoOrder
        /\ qty' = qty \/ qty' = [qty EXCEPT ![taker] = 0]
        /\ UNCHANGED <<placed, levels, queue>>
    BY <1>0, <1>6, TakerFields DEF Return, NoMatch
  <2>2. QueuesMatchOrders'
    <3>1. ASSUME NEW s \in Sides, NEW q \in Prices,
                 NEW i \in 1..Len(queue[s][q]), NEW o, o = queue[s][q][i]
          PROVE  WellPlaced(o, s, q)'
      <4>1. o \in Ids /\ o # taker /\ WellPlaced(o, s, q)
        BY <3>1, ListedOrder DEF IInv, QueuesMatchOrders
      <4>2. qty'[o] = qty[o]
        <5>1. qty \in Seq(Int) /\ Ids = 1..Len(qty)
          BY <1>0 DEF TypeOK, Ids
        <5> QED
          BY <2>1, <4>1, <5>1, ExceptSeq
      <4> QED
        BY <2>1, <4>1, <4>2 DEF WellPlaced, Ids
    <3> QED
      BY <2>1, <3>1 DEF QueuesMatchOrders
  <2> QED
    BY <1>0, <2>1, <2>2 DEF IInv, InArrivalOrder, Uncrossed, TakerIsNewest
<1>7. ASSUME NEW o \in Resting, Cancel(o)
      PROVE  IInv'
  <2> DEFINE side == placed[o].side
             p    == placed[o].price
  <2>1. o \in Ids /\ side \in Sides /\ p \in Prices
    <3>1. PICK s \in Sides, q \in Prices : InQueue(o, s, q)
      BY DEF Resting
    <3>2. PICK j \in 1..Len(queue[s][q]) : queue[s][q][j] = o
      BY <3>1 DEF InQueue
    <3> QED
      BY <3>2, ListedOrder
  <2>2. PICK k \in 1..Len(queue[side][p]) :
          /\ queue[side][p][k] = o
          /\ queue' = [queue EXCEPT ![side][p] = RemoveAt(@, k)]
    BY <1>7 DEF Cancel
  <2>3. UNCHANGED <<placed, qty, levels, taker>>
    BY <1>7 DEF Cancel
  <2> HIDE DEF side, p
  <2>4. queue[side][p] \in Seq(Ids) /\ Len(queue[side][p]) \in Nat
    BY <1>0, <2>1 DEF TypeOK
  <2>5. /\ Len(queue'[side][p]) = Len(queue[side][p]) - 1
        /\ \A i \in 1..(Len(queue[side][p]) - 1) :
             queue'[side][p][i] =
               IF i < k THEN queue[side][p][i] ELSE queue[side][p][i + 1]
    <3>1. queue'[side][p] = RemoveAt(queue[side][p], k)
      BY <1>0, <2>1, <2>2 DEF TypeOK
    <3> QED
      BY <2>4, <3>1, RemoveAtProperties
  <2>6. \A s \in Sides, q \in Prices :
          ~(s = side /\ q = p) => queue'[s][q] = queue[s][q]
    BY <1>0, <2>1, <2>2 DEF TypeOK
  <2>7. QueuesMatchOrders'
    <3>1. ASSUME NEW s \in Sides, NEW q \in Prices,
                 NEW i \in 1..Len(queue'[s][q]), NEW m, m = queue'[s][q][i]
          PROVE  WellPlaced(m, s, q)'
      <4>1. \E j \in 1..Len(queue[s][q]) : m = queue[s][q][j]
        <5>1. CASE s = side /\ q = p
          <6>1. i \in 1..(Len(queue[s][q]) - 1)
            BY <2>5, <3>1, <5>1
          <6>2. i \in 1..Len(queue[s][q]) /\ i + 1 \in 1..Len(queue[s][q])
            BY <2>4, <5>1, <6>1
          <6> QED
            BY <2>5, <3>1, <5>1, <6>1, <6>2
        <5>2. CASE ~(s = side /\ q = p)
          BY <2>6, <3>1, <5>2
        <5> QED
          BY <5>1, <5>2
      <4>2. WellPlaced(m, s, q)
        BY <4>1 DEF IInv, QueuesMatchOrders
      <4> QED
        BY <2>3, <4>2 DEF WellPlaced
    <3> QED
      BY <3>1 DEF QueuesMatchOrders
  <2>8. InArrivalOrder'
    <3>1. ASSUME NEW s \in Sides, NEW q \in Prices,
                 NEW i \in 1..Len(queue'[s][q]), NEW j \in 1..Len(queue'[s][q]),
                 i < j
          PROVE  queue'[s][q][i] < queue'[s][q][j]
      <4>1. CASE s = side /\ q = p
        <5>1. i \in 1..(Len(queue[s][q]) - 1) /\ j \in 1..(Len(queue[s][q]) - 1)
          BY <2>5, <3>1, <4>1
        <5> DEFINE from(n) == IF n < k THEN n ELSE n + 1
        <5>2. /\ from(i) \in 1..Len(queue[s][q])
              /\ from(j) \in 1..Len(queue[s][q])
              /\ from(i) < from(j)
          BY <2>4, <3>1, <4>1, <5>1
        <5>3. /\ queue'[s][q][i] = queue[s][q][from(i)]
              /\ queue'[s][q][j] = queue[s][q][from(j)]
          BY <2>5, <4>1, <5>1
        <5> HIDE DEF from
        <5> QED
          BY <5>2, <5>3 DEF IInv, InArrivalOrder
      <4>2. CASE ~(s = side /\ q = p)
        BY <2>6, <3>1, <4>2 DEF IInv, InArrivalOrder
      <4> QED
        BY <4>1, <4>2
    <3> QED
      BY <3>1 DEF InArrivalOrder
  <2> QED
    BY <1>0, <2>3, <2>7, <2>8 DEF IInv, Uncrossed, TakerIsNewest
<1>8. CASE UNCHANGED vars
  BY <1>8, <1>0
     DEF vars, IInv, QueuesMatchOrders, WellPlaced, InArrivalOrder, Uncrossed,
         TakerIsNewest
<1> QED
  BY <1>1, <1>2, <1>3, <1>4, <1>5, <1>6, <1>7, <1>8 DEF Next, HandleStep

\* The inductive invariant holds throughout.
LEMMA Invariant == Spec => []IInv
PROOF
<1>1. Init => IInv
  <2> SUFFICES ASSUME Init PROVE IInv
    OBVIOUS
  <2>1. TypeOK
    BY DEF Init, TypeOK, Ids, NoOrder
  <2>2. \A side \in Sides, p \in Prices : Len(queue[side][p]) = 0
    BY DEF Init
  <2>3. QueuesMatchOrders /\ InArrivalOrder
    BY <2>2 DEF QueuesMatchOrders, InArrivalOrder
  <2>4. Uncrossed /\ TakerIsNewest
    BY DEF Init, Uncrossed, TakerIsNewest, Sides
  <2> QED
    BY <2>1, <2>3, <2>4 DEF IInv
<1>2. IInv /\ [Next]_vars => IInv'
  BY InvStep
<1> QED
  BY <1>1, <1>2, PTL DEF Spec

\* No bid level is ever at or above an ask level.
THEOREM NeverCrossed == Spec => []Uncrossed
PROOF
<1>1. IInv => Uncrossed
  BY DEF IInv
<1> QED
  BY <1>1, Invariant, PTL

\* Every order object in a list belongs there.
THEOREM BookKept == Spec => []QueuesMatchOrders
PROOF
<1>1. IInv => QueuesMatchOrders
  BY DEF IInv
<1> QED
  BY <1>1, Invariant, PTL

\* Each list is in arrival order.
THEOREM ArrivalOrderKept == Spec => []InArrivalOrder
PROOF
<1>1. IInv => InArrivalOrder
  BY DEF IInv
<1> QED
  BY <1>1, Invariant, PTL

-----------------------------------------------------------------------------
(* What the trades report *)

\* The resting orders of the trades came in, and none is the one being handled.
MakersCameBefore ==
  \A i \in 1..Len(trades) : trades[i].maker \in Ids \ {taker}

\* A trade with the first order of the best level, which reports what is left
\* of that order.
LEMMA NewTrade ==
  ASSUME IInv, MakersCameBefore, RemainingIsTrue,
         taker \in Ids, NEW entry \in Ids \ {taker}, NEW trade \in Trade,
         trades' = Append(trades, trade), trade.maker = entry,
         trade.makerRemaining = qty'[entry],
         \A o \in Ids \ {taker, entry} : qty'[o] = qty[o],
         UNCHANGED <<placed, taker>>
  PROVE  MakersCameBefore' /\ RemainingIsTrue'
PROOF
<1>1. /\ Len(trades) \in Nat
      /\ Len(trades') = Len(trades) + 1
      /\ \A i \in 1..Len(trades) : trades'[i] = trades[i]
      /\ trades'[Len(trades) + 1] = trade
  BY AppendProperties DEF IInv, TypeOK
<1>2. Ids' = Ids /\ taker' = taker
  BY DEF Ids
<1>3. ASSUME NEW i \in 1..Len(trades')
      PROVE  trades'[i].maker \in Ids \ {taker}
  <2>1. CASE i \in 1..Len(trades)
    BY <1>1, <2>1 DEF MakersCameBefore
  <2>2. CASE i = Len(trades) + 1
    BY <1>1, <2>2
  <2> QED
    BY <1>1, <2>1, <2>2
<1>4. ASSUME NEW o \in Ids \ {taker}, NEW i \in 1..Len(trades'),
             trades'[i].maker = o,
             \A j \in (i + 1)..Len(trades') : trades'[j].maker # o
      PROVE  trades'[i].makerRemaining = qty'[o]
  <2>1. CASE i = Len(trades) + 1
    BY <1>1, <1>4, <2>1
  <2>2. CASE i \in 1..Len(trades)
    <3>1. Len(trades) + 1 \in (i + 1)..Len(trades')
      BY <1>1, <2>2
    <3>2. o # entry
      BY <1>1, <1>4, <3>1
    <3>3. \A j \in (i + 1)..Len(trades) : trades[j].maker # o
      <4>1. ASSUME NEW j \in (i + 1)..Len(trades)
            PROVE  trades[j].maker # o
        <5>1. j \in 1..Len(trades) /\ j \in (i + 1)..Len(trades')
          BY <1>1, <2>2
        <5> QED
          BY <1>1, <1>4, <5>1
      <4> QED
        BY <4>1
    <3>4. trades[i].maker = o
      BY <1>1, <1>4, <2>2
    <3>5. trades[i].makerRemaining = qty[o]
      BY <2>2, <3>3, <3>4 DEF RemainingIsTrue
    <3> QED
      BY <1>1, <2>2, <3>2, <3>5
  <2> QED
    BY <1>1, <2>1, <2>2
<1> QED
  BY <1>2, <1>3, <1>4 DEF MakersCameBefore, RemainingIsTrue

\* A step without a trade, that changes the quantity of the order being
\* handled at most.
LEMMA NoTrade ==
  ASSUME IInv, MakersCameBefore, RemainingIsTrue, trades' = trades,
         Ids \subseteq Ids', taker' = taker \/ taker' \notin Ids,
         \A o \in Ids \ {taker} : qty'[o] = qty[o]
  PROVE  MakersCameBefore' /\ RemainingIsTrue'
PROOF
<1>1. MakersCameBefore'
  BY DEF MakersCameBefore
<1>2. ASSUME NEW o \in Ids' \ {taker'}, NEW i \in 1..Len(trades), trades[i].maker = o,
             \A j \in (i + 1)..Len(trades) : trades[j].maker # o
      PROVE  trades[i].makerRemaining = qty'[o]
  <2>1. o \in Ids \ {taker}
    BY <1>2 DEF MakersCameBefore
  <2> QED
    BY <1>2, <2>1 DEF RemainingIsTrue
<1> QED
  BY <1>1, <1>2 DEF RemainingIsTrue

\* Each step keeps both.
LEMMA ReportStep ==
  ASSUME IInv, MakersCameBefore, RemainingIsTrue, [Next]_vars
  PROVE  MakersCameBefore' /\ RemainingIsTrue'
PROOF
<1>0. /\ TypeOK /\ qty \in Seq(Int) /\ Ids = 1..Len(qty) /\ Ids \subseteq Nat
      /\ NoOrder \notin Ids
  BY DEF IInv, TypeOK, Ids, NoOrder
<1>1. ASSUME NEW order \in Orders, Submit(order)
      PROVE  MakersCameBefore' /\ RemainingIsTrue'
  <2>1. /\ trades' = trades /\ Ids \subseteq Ids' /\ taker' \notin Ids
        /\ \A o \in Ids : qty'[o] = qty[o]
    BY <1>0, <1>1 DEF Submit, TypeOK, Ids
  <2> QED
    BY <2>1, NoTrade
<1>2. ASSUME NEW p \in Prices, ExhaustEntry(p)
      PROVE  MakersCameBefore' /\ RemainingIsTrue'
  <2> DEFINE entry == Head(queue[Against][p])
             trade == MakeTrade(entry, qty[entry])
  <2>1. /\ taker \in Ids /\ entry \in Ids /\ entry # taker
        /\ qty[taker] \in Int /\ qty[entry] \in Int
    BY <1>2, BestEntry DEF ExhaustEntry
  <2>2. /\ qty' = [qty EXCEPT ![taker] = qty[taker] - qty[entry], ![entry] = 0]
        /\ trades' = Append(trades, trade)
        /\ UNCHANGED <<placed, taker>>
    BY <1>2 DEF ExhaustEntry
  <2>3. /\ trade \in Trade /\ trade.maker = entry
        /\ trade.makerRemaining = qty[entry] - qty[entry]
    BY <1>0, <2>1, TradeFields DEF MakeTrade
  <2> HIDE DEF entry, trade
  <2>4. \A o \in Ids : qty'[o] = IF o = entry THEN 0
                                 ELSE IF o = taker THEN qty[taker] - qty[entry] ELSE qty[o]
    BY <1>0, <2>1, <2>2, ReplaceTwo
  <2>5. trade.makerRemaining = qty'[entry]
    BY <2>1, <2>3, <2>4
  <2>6. \A o \in Ids \ {taker, entry} : qty'[o] = qty[o]
    BY <2>4
  <2> QED
    BY <2>1, <2>2, <2>3, <2>5, <2>6, NewTrade
<1>3. ASSUME NEW p \in Prices, PartlyFillEntry(p)
      PROVE  MakersCameBefore' /\ RemainingIsTrue'
  <2> DEFINE entry == Head(queue[Against][p])
             trade == MakeTrade(entry, qty[taker])
  <2>1. /\ taker \in Ids /\ entry \in Ids /\ entry # taker
        /\ qty[taker] \in Int /\ qty[entry] \in Int
    BY <1>3, BestEntry DEF PartlyFillEntry
  <2>2. /\ qty' = [qty EXCEPT ![entry] = qty[entry] - qty[taker], ![taker] = 0]
        /\ trades' = Append(trades, trade)
        /\ UNCHANGED <<placed, taker>>
    BY <1>3 DEF PartlyFillEntry, FillTaker
  <2>3. /\ trade \in Trade /\ trade.maker = entry
        /\ trade.makerRemaining = qty[entry] - qty[taker]
    BY <1>0, <2>1, TradeFields DEF MakeTrade
  <2> HIDE DEF entry, trade
  <2>4. \A o \in Ids : qty'[o] = IF o = taker THEN 0
                                 ELSE IF o = entry THEN qty[entry] - qty[taker] ELSE qty[o]
    BY <1>0, <2>1, <2>2, ReplaceTwo
  <2>5. trade.makerRemaining = qty'[entry]
    BY <2>1, <2>3, <2>4
  <2>6. \A o \in Ids \ {taker, entry} : qty'[o] = qty[o]
    BY <2>4
  <2> QED
    BY <2>1, <2>2, <2>3, <2>5, <2>6, NewTrade
<1>4. ASSUME NEW p \in Prices, DropEmptyLevel(p)
      PROVE  MakersCameBefore' /\ RemainingIsTrue'
  BY <1>4, NoTrade DEF DropEmptyLevel, Ids
<1>5. CASE Rest
  BY <1>0, <1>5, NoTrade DEF Rest, Ids
<1>6. CASE Return
  <2>1. /\ taker \in Ids /\ taker' = NoOrder /\ UNCHANGED <<placed, trades>>
        /\ qty' = qty \/ qty' = [qty EXCEPT ![taker] = 0]
    BY <1>0, <1>6, TakerFields DEF Return, NoMatch
  <2>2. \A o \in Ids \ {taker} : qty'[o] = qty[o]
    BY <1>0, <2>1, ExceptSeq
  <2> QED
    BY <1>0, <2>1, <2>2, NoTrade DEF Ids
<1>7. ASSUME NEW o \in Resting, Cancel(o)
      PROVE  MakersCameBefore' /\ RemainingIsTrue'
  BY <1>7, NoTrade DEF Cancel, Ids
<1>8. CASE UNCHANGED vars
  BY <1>8, NoTrade DEF vars, Ids
<1> QED
  BY <1>1, <1>2, <1>3, <1>4, <1>5, <1>6, <1>7, <1>8 DEF Next, HandleStep

\* The last report about a resting order is what is left of it for good, for
\* any prices, quantities and number of orders.
THEOREM ReportsAreTrue == Spec => []RemainingIsTrue
PROOF
<1>1. Init => MakersCameBefore /\ RemainingIsTrue
  <2> SUFFICES ASSUME Init PROVE MakersCameBefore /\ RemainingIsTrue
    OBVIOUS
  <2>1. Len(trades) = 0
    BY DEF Init
  <2> QED
    BY <2>1 DEF MakersCameBefore, RemainingIsTrue
<1>2. IInv /\ MakersCameBefore /\ RemainingIsTrue /\ [Next]_vars
        => MakersCameBefore' /\ RemainingIsTrue'
  BY ReportStep
<1> QED
  BY <1>1, <1>2, Invariant, PTL DEF Spec

-----------------------------------------------------------------------------
(* What the trades add up to *)

\* Both orders of every trade came in.
TradersCameIn ==
  \A i \in 1..Len(trades) : trades[i].maker \in Ids /\ trades[i].taker \in Ids

\* An order that asks for less than nothing never trades.
TakerCounts == taker # NoOrder => qty[taker] >= 0 \/ FilledOf(taker) = 0

CountInv == TradersCameIn /\ TakerCounts /\ FillsAddUp

\* What one trade fills of order o.
FilledBy(o, trade) == IF o \in {trade.maker, trade.taker} THEN trade.filled ELSE 0

\* What the trades filled of an order is a number, and one more trade adds to
\* it.
LEMMA FilledOfMore ==
  ASSUME TypeOK, NEW o
  PROVE  /\ FilledOf(o) \in Int
         /\ \A trade \in Trade : trades' = Append(trades, trade) =>
              FilledOf(o)' = FilledOf(o) + FilledBy(o, trade)
         /\ (\A i \in 1..Len(trades) : o \notin {trades[i].maker, trades[i].taker}) =>
              FilledOf(o) = 0
PROOF
<1> DEFINE f == [i \in 1..Len(trades) |-> FilledBy(o, trades[i])]
<1>1. FilledOf(o) = SumFunction(f)
  BY DEF FilledOf, FilledBy
<1>2. Len(trades) \in Nat /\ \A i \in 1..Len(trades) : trades[i] \in Trade
  BY DEF TypeOK
<1>3. f \in [1..Len(trades) -> Int]
  BY <1>2 DEF Trade, FilledBy
<1>4. IsFiniteSet(1..Len(trades))
  BY <1>2, FS_Interval
<1>5. FilledOf(o) \in Int
  <2> HIDE DEF f
  <2> QED
    BY <1>1, <1>3, <1>4, SumIsNumber
<1>6. ASSUME NEW trade \in Trade, trades' = Append(trades, trade)
      PROVE  FilledOf(o)' = FilledOf(o) + FilledBy(o, trade)
  <2> DEFINE g == [i \in 1..Len(trades') |-> FilledBy(o, trades'[i])]
  <2>1. /\ trades' \in Seq(Trade) /\ Len(trades') = Len(trades) + 1
        /\ \A i \in 1..Len(trades) : trades'[i] = trades[i]
        /\ trades'[Len(trades) + 1] = trade
    <3>1. trades \in Seq(Trade)
      BY DEF TypeOK
    <3> HIDE DEF Trade
    <3> QED
      BY <1>6, <3>1, OneMore
  <2>2. FilledOf(o)' = SumFunction(g)
    BY DEF FilledOf, FilledBy
  <2>3. \A i \in 1..Len(trades') : FilledBy(o, trades'[i]) \in Int
    <3>1. \A i \in 1..Len(trades') : trades'[i] \in Trade
      <4> HIDE DEF Trade
      <4> QED
        BY <2>1
    <3> QED
      BY <3>1 DEF FilledBy, Trade
  <2>4. g \in [1..(Len(trades) + 1) -> Int]
    BY <2>1, <2>3
  <2>5. \A i \in 1..Len(trades) : g[i] = f[i]
    BY <1>2, <2>1
  <2>6. g[Len(trades) + 1] = FilledBy(o, trade)
    BY <1>2, <2>1
  <2> HIDE DEF f, g
  <2> QED
    BY <1>1, <1>2, <1>3, <2>2, <2>4, <2>5, <2>6, SumOfOneMore
<1>7. ASSUME \A i \in 1..Len(trades) : o \notin {trades[i].maker, trades[i].taker}
      PROVE  FilledOf(o) = 0
  <2>1. \A i \in 1..Len(trades) : f[i] = 0
    BY <1>7 DEF FilledBy
  <2> HIDE DEF f
  <2> QED
    BY <1>1, <1>3, <1>4, <2>1, SumOfNothing
<1> QED
  BY <1>5, <1>6, <1>7

\* A step without a trade that leaves all quantities alone, or drops the rest
\* of a market order when it is done.
LEMMA CountFrame ==
  ASSUME TypeOK, CountInv, UNCHANGED <<placed, trades>>,
         \/ UNCHANGED <<qty, taker>>
         \/ taker \in Ids /\ taker' = NoOrder /\ placed[taker].type = Limit /\ qty' = qty
         \/ /\ taker \in Ids /\ taker' = NoOrder /\ placed[taker].type = Market
            /\ qty' = [qty EXCEPT ![taker] = 0]
  PROVE  CountInv'
PROOF
<1>1. Ids' = Ids /\ NoOrder \notin Ids /\ qty \in Seq(Int) /\ Ids = 1..Len(qty)
  BY DEF Ids, NoOrder, TypeOK
<1>2. \A o : FilledOf(o)' = FilledOf(o)
  BY DEF FilledOf
<1>3. TradersCameIn' /\ \A i \in 1..Len(trades) : trades'[i].filled > 0
  BY <1>1 DEF CountInv, TradersCameIn, FillsAddUp
<1>4. CASE UNCHANGED <<qty, taker>>
  BY <1>1, <1>2, <1>3, <1>4 DEF CountInv, TakerCounts, FillsAddUp
<1>5. CASE taker \in Ids /\ taker' = NoOrder /\ placed[taker].type = Limit /\ qty' = qty
  <2>1. \A o \in Ids : placed[o].type = Market => o # taker /\ o # taker'
    BY <1>1, <1>5 DEF Market, Limit
  <2> QED
    BY <1>1, <1>2, <1>3, <1>5, <2>1 DEF CountInv, TakerCounts, FillsAddUp
<1>6. CASE /\ taker \in Ids /\ taker' = NoOrder /\ placed[taker].type = Market
           /\ qty' = [qty EXCEPT ![taker] = 0]
  <2>1. /\ qty'[taker] = 0 /\ \A o \in Ids \ {taker} : qty'[o] = qty[o]
        /\ qty[taker] \in Int
    BY <1>1, <1>6, ExceptSeq
  <2>2. FilledOf(taker) + qty[taker] = placed[taker].size
        /\ (qty[taker] >= 0 \/ FilledOf(taker) = 0)
    BY <1>1, <1>6 DEF CountInv, TakerCounts, FillsAddUp
  <2>3. FilledOf(taker) \in Int
    BY FilledOfMore
  <2>4. FilledOf(taker) <= placed[taker].size \/ FilledOf(taker) = 0
    BY <2>1, <2>2, <2>3
  <2>5. ASSUME NEW o \in Ids
        PROVE  IF placed[o].type = Market
               THEN qty'[o] = 0 /\ (FilledOf(o) <= placed[o].size \/ FilledOf(o) = 0)
               ELSE FilledOf(o) + qty'[o] = placed[o].size
    <3>1. CASE o = taker
      BY <1>6, <2>1, <2>4, <3>1
    <3>2. CASE o # taker
      BY <2>1, <3>2 DEF CountInv, FillsAddUp
    <3> QED
      BY <3>1, <3>2
  <2>6. \A o \in Ids' : o # taker' /\ placed'[o] = placed[o]
    BY <1>1, <1>6
  <2>7. FillsAddUp'
    BY <1>1, <1>2, <1>3, <2>5, <2>6 DEF FillsAddUp
  <2> QED
    BY <1>3, <1>6, <2>7 DEF CountInv, TakerCounts
<1> QED
  BY <1>4, <1>5, <1>6

\* A trade between the order being handled and the first one it can trade
\* with takes from both quantities what it records.
LEMMA CountTrade ==
  ASSUME TypeOK, CountInv, taker \in Ids, NEW entry \in Ids \ {taker},
         placed[entry].type = Limit,
         NEW trade \in Trade, trades' = Append(trades, trade),
         trade.maker = entry, trade.taker = taker, trade.filled > 0,
         qty'[taker] = qty[taker] - trade.filled, qty'[taker] >= 0,
         qty'[entry] = qty[entry] - trade.filled,
         \A o \in Ids \ {taker, entry} : qty'[o] = qty[o],
         UNCHANGED <<placed, taker>>
  PROVE  CountInv'
PROOF
<1>1. Ids' = Ids /\ NoOrder \notin Ids /\ \A o \in Ids : qty[o] \in Int
  BY DEF Ids, NoOrder, TypeOK
<1>2. /\ Len(trades) \in Nat /\ Len(trades') = Len(trades) + 1
      /\ \A i \in 1..Len(trades) : trades'[i] = trades[i]
      /\ trades'[Len(trades) + 1] = trade
  <2>1. trades \in Seq(Trade)
    BY DEF TypeOK
  <2> HIDE DEF Trade
  <2> QED
    BY <2>1, OneMore
<1>3. ASSUME NEW i \in 1..Len(trades')
      PROVE  /\ trades'[i].maker \in Ids /\ trades'[i].taker \in Ids
             /\ trades'[i].filled > 0
  <2>1. CASE i \in 1..Len(trades)
    BY <1>2, <2>1 DEF CountInv, TradersCameIn, FillsAddUp
  <2>2. CASE i = Len(trades) + 1
    BY <1>2, <2>2
  <2> QED
    BY <1>2, <2>1, <2>2
<1>4. trade.filled \in Int
  BY DEF Trade
<1>5. ASSUME NEW o \in Ids
      PROVE  IF placed[o].type = Market /\ o # taker
             THEN /\ qty'[o] = 0
                  /\ FilledOf(o)' <= placed[o].size \/ FilledOf(o)' = 0
             ELSE FilledOf(o)' + qty'[o] = placed[o].size
  <2>1. FilledOf(o)' = FilledOf(o) + FilledBy(o, trade) /\ FilledOf(o) \in Int
    BY FilledOfMore
  <2>2. CASE o \in {taker, entry}
    <3>1. FilledOf(o)' = FilledOf(o) + trade.filled /\ qty'[o] = qty[o] - trade.filled
      BY <2>1, <2>2 DEF FilledBy
    <3>2. ~(placed[o].type = Market /\ o # taker)
      BY <2>2 DEF Market, Limit
    <3>3. FilledOf(o) + qty[o] = placed[o].size
      BY <3>2 DEF CountInv, FillsAddUp
    <3>4. FilledOf(o)' + qty'[o] = FilledOf(o) + qty[o]
      BY <1>1, <1>4, <2>1, <3>1
    <3> QED
      BY <3>2, <3>3, <3>4
  <2>3. CASE o \notin {taker, entry}
    <3>1. FilledBy(o, trade) = 0 /\ qty'[o] = qty[o]
      BY <2>3 DEF FilledBy
    <3>2. FilledOf(o)' = FilledOf(o)
      BY <2>1, <3>1
    <3> QED
      BY <3>1, <3>2 DEF CountInv, FillsAddUp
  <2> QED
    BY <2>2, <2>3
<1>6. FillsAddUp'
  BY <1>1, <1>3, <1>5 DEF FillsAddUp
<1>7. TradersCameIn' /\ TakerCounts'
  BY <1>1, <1>3 DEF TradersCameIn, TakerCounts
<1> QED
  BY <1>6, <1>7 DEF CountInv

\* Each step keeps the count.
LEMMA CountStep ==
  ASSUME IInv, CountInv, [Next]_vars
  PROVE  CountInv'
PROOF
<1>0. /\ TypeOK /\ qty \in Seq(Int) /\ Ids = 1..Len(qty) /\ Ids \subseteq Nat
      /\ NoOrder \notin Ids
  BY DEF IInv, TypeOK, Ids, NoOrder
<1>1. ASSUME NEW order \in Orders, Submit(order)
      PROVE  CountInv'
  <2> DEFINE new == Len(placed) + 1
  <2>1. /\ trades' = trades /\ taker' = new /\ taker = NoOrder
        /\ placed' = Append(placed, order) /\ qty' = Append(qty, order.size)
    BY <1>1 DEF Submit
  <2>2. /\ Ids' = Ids \cup {new} /\ new \notin Ids
        /\ \A o \in Ids : qty'[o] = qty[o] /\ placed'[o] = placed[o]
        /\ qty'[new] = order.size /\ placed'[new] = order
    <3>1. placed \in Seq(Orders) /\ Len(placed) \in Nat /\ Len(qty) = Len(placed)
      BY <1>0 DEF TypeOK
    <3>2. order.size \in Int
      BY OrderFields
    <3>3. /\ Len(placed') = Len(placed) + 1 /\ placed'[new] = order
          /\ \A o \in 1..Len(placed) : placed'[o] = placed[o]
      <4> HIDE DEF Orders
      <4> QED
        BY <2>1, <3>1, OneMore
    <3>4. qty'[new] = order.size /\ \A o \in 1..Len(placed) : qty'[o] = qty[o]
      BY <1>0, <2>1, <3>1, <3>2, OneMore
    <3> QED
      BY <3>1, <3>3, <3>4 DEF Ids
  <2>3. \A o : FilledOf(o)' = FilledOf(o)
    BY <2>1 DEF FilledOf
  <2>4. FilledOf(new) = 0
    <3>1. \A i \in 1..Len(trades) : new \notin {trades[i].maker, trades[i].taker}
      BY <2>2 DEF CountInv, TradersCameIn
    <3> QED
      BY <1>0, <3>1, FilledOfMore
  <2> HIDE DEF new
  <2>5. ASSUME NEW o \in Ids'
        PROVE  IF placed'[o].type = Market /\ o # taker'
               THEN /\ qty'[o] = 0
                    /\ FilledOf(o) <= placed'[o].size \/ FilledOf(o) = 0
               ELSE FilledOf(o) + qty'[o] = placed'[o].size
    <3>1. CASE o = new
      <4>1. order.size \in Int
        BY OrderFields
      <4>2. FilledOf(o) + qty'[o] = placed'[o].size
        BY <2>2, <2>4, <3>1, <4>1
      <4> QED
        BY <2>1, <3>1, <4>2
    <3>2. CASE o # new
      <4>1. o \in Ids /\ o # taker
        BY <1>0, <2>1, <2>2, <3>2
      <4> QED
        BY <2>1, <2>2, <3>2, <4>1 DEF CountInv, FillsAddUp
    <3> QED
      BY <3>1, <3>2
  <2>6. FillsAddUp'
    BY <2>1, <2>3, <2>5 DEF CountInv, FillsAddUp
  <2>7. TradersCameIn' /\ TakerCounts'
    BY <2>1, <2>2, <2>3, <2>4 DEF CountInv, TradersCameIn, TakerCounts
  <2> QED
    BY <2>6, <2>7 DEF CountInv
<1>2. ASSUME NEW p \in Prices, ExhaustEntry(p)
      PROVE  CountInv'
  <2> DEFINE entry == Head(queue[Against][p])
             trade == MakeTrade(entry, qty[entry])
  <2>1. /\ taker \in Ids /\ entry \in Ids /\ entry # taker
        /\ qty[taker] \in Int /\ qty[entry] \in Int /\ qty[entry] > 0
    BY <1>2, BestEntry DEF ExhaustEntry
  <2>2. /\ qty' = [qty EXCEPT ![taker] = qty[taker] - qty[entry], ![entry] = 0]
        /\ trades' = Append(trades, trade) /\ qty[entry] <= qty[taker]
        /\ UNCHANGED <<placed, taker>>
    BY <1>2 DEF ExhaustEntry
  <2>3. /\ trade \in Trade /\ trade.maker = entry /\ trade.taker = taker
        /\ trade.filled = qty[entry]
    BY <1>0, <2>1, TradeFields DEF MakeTrade
  <2>4. placed[entry].type = Limit
    BY <1>2, EntryIsLimit DEF ExhaustEntry
  <2> HIDE DEF entry, trade
  <2>5. \A o \in Ids : qty'[o] = IF o = entry THEN 0
                                 ELSE IF o = taker THEN qty[taker] - qty[entry] ELSE qty[o]
    BY <1>0, <2>1, <2>2, ReplaceTwo
  <2>6. /\ qty'[taker] = qty[taker] - qty[entry] /\ qty'[entry] = 0
    BY <2>1, <2>5
  <2>7. \A o \in Ids \ {taker, entry} : qty'[o] = qty[o]
    BY <2>5
  <2> QED
    <3>1. /\ qty'[taker] = qty[taker] - trade.filled /\ qty'[taker] >= 0
          /\ qty'[entry] = qty[entry] - trade.filled /\ trade.filled > 0
      <4>1. qty[entry] <= qty[taker]
        BY <2>2
      <4> QED
        BY <2>1, <2>3, <2>6, <4>1
    <3> QED
      BY <1>0, <2>1, <2>2, <2>3, <2>4, <2>7, <3>1, CountTrade
<1>3. ASSUME NEW p \in Prices, PartlyFillEntry(p)
      PROVE  CountInv'
  <2> DEFINE entry == Head(queue[Against][p])
             trade == MakeTrade(entry, qty[taker])
  <2>1. /\ taker \in Ids /\ entry \in Ids /\ entry # taker
        /\ qty[taker] \in Int /\ qty[entry] \in Int /\ qty[taker] > 0
    BY <1>3, BestEntry DEF PartlyFillEntry
  <2>2. /\ qty' = [qty EXCEPT ![entry] = qty[entry] - qty[taker], ![taker] = 0]
        /\ trades' = Append(trades, trade)
        /\ UNCHANGED <<placed, taker>>
    BY <1>3 DEF PartlyFillEntry, FillTaker
  <2>3. /\ trade \in Trade /\ trade.maker = entry /\ trade.taker = taker
        /\ trade.filled = qty[taker]
    BY <1>0, <2>1, TradeFields DEF MakeTrade
  <2>4. placed[entry].type = Limit
    BY <1>3, EntryIsLimit DEF PartlyFillEntry
  <2> HIDE DEF entry, trade
  <2>5. \A o \in Ids : qty'[o] = IF o = taker THEN 0
                                 ELSE IF o = entry THEN qty[entry] - qty[taker] ELSE qty[o]
    BY <1>0, <2>1, <2>2, ReplaceTwo
  <2>6. /\ qty'[taker] = 0 /\ 0 = qty[taker] - qty[taker]
        /\ qty'[entry] = qty[entry] - qty[taker]
    BY <2>1, <2>5
  <2>7. \A o \in Ids \ {taker, entry} : qty'[o] = qty[o]
    BY <2>5
  <2> QED
    <3>1. /\ qty'[taker] = qty[taker] - trade.filled /\ qty'[taker] >= 0
          /\ qty'[entry] = qty[entry] - trade.filled /\ trade.filled > 0
      BY <2>1, <2>3, <2>6
    <3> QED
      BY <1>0, <2>1, <2>2, <2>3, <2>4, <2>7, <3>1, CountTrade
<1>4. ASSUME NEW p \in Prices, DropEmptyLevel(p)
      PROVE  CountInv'
  BY <1>0, <1>4, CountFrame DEF DropEmptyLevel
<1>5. CASE Rest
  BY <1>0, <1>5, TakerFields, CountFrame DEF Rest, MayRest, NoMatch
<1>6. CASE Return
  BY <1>0, <1>6, TakerFields, CountFrame DEF Return, NoMatch
<1>7. ASSUME NEW o \in Resting, Cancel(o)
      PROVE  CountInv'
  BY <1>0, <1>7, CountFrame DEF Cancel
<1>8. CASE UNCHANGED vars
  BY <1>0, <1>8, CountFrame DEF vars
<1> QED
  BY <1>1, <1>2, <1>3, <1>4, <1>5, <1>6, <1>7, <1>8 DEF Next, HandleStep

\* fillOrder makes and loses no quantity, over any number of trades: what the
\* trades filled of an order and what is left of it add up to its size.
THEOREM QuantitiesAddUp == Spec => []FillsAddUp
PROOF
<1>1. ASSUME Init PROVE CountInv
  <2>1. Len(trades) = 0 /\ Ids = {} /\ taker = NoOrder
    BY <1>1 DEF Init, Ids
  <2> QED
    BY <2>1 DEF CountInv, TradersCameIn, TakerCounts, FillsAddUp
<1>2. IInv /\ CountInv /\ [Next]_vars => CountInv'
  BY CountStep
<1>3. CountInv => FillsAddUp
  BY DEF CountInv
<1> QED
  BY <1>1, <1>2, <1>3, Invariant, PTL DEF Spec

-----------------------------------------------------------------------------
(* OrderBook implements PriceTimeBook.  A turn of the loop of handleOrder  *)
(* that trades is a Match, its end is a Finish, cancelOrder is a Withdraw, *)
(* and dropping a level that a cancel emptied is not visible.              *)

\* Both modules compare prices and sides alike.
LEMMA SameOrderTypes ==
  /\ \A side : Abstract!Opposite(side) = Opposite(side)
  /\ \A side, p, q : Abstract!Better(side, p, q) <=> Better(side, p, q)
  /\ \A order, p : Abstract!Acceptable(order, p) <=> Acceptable(order, p)
  /\ Abstract!Orders = Orders
  /\ Abstract!Limit = Limit /\ Abstract!Market = Market
  /\ Abstract!NoOrder = NoOrder
BY DEF Abstract!Opposite, Opposite, Abstract!Better, Better, Abstract!Buy, Buy,
       Abstract!Sell, Sell, Abstract!Acceptable, Acceptable, Abstract!Orders, Orders,
       Abstract!Limit, Limit, Abstract!Market, Market, Abstract!Sides, Sides,
       Abstract!MarketPrice, MarketPrice, Abstract!NoOrder, NoOrder

\* What it is for an order to rest in the book.
LEMMA RestingOrder ==
  ASSUME IInv, NEW o
  PROVE  o \in Resting <=>
           \E side \in Sides, p \in Prices :
             \E i \in 1..Len(queue[side][p]) : queue[side][p][i] = o
PROOF
<1>1. ASSUME NEW side \in Sides, NEW p \in Prices,
             NEW i \in 1..Len(queue[side][p]), queue[side][p][i] = o
      PROVE  o \in Ids
  BY <1>1, ListedOrder
<1> QED
  BY <1>1 DEF Resting, InQueue

\* A resting order is not the one being handled and rests at its own price,
\* which is a level of its side.
LEMMA RestingFields ==
  ASSUME IInv, NEW o \in Resting
  PROVE  /\ o \in Ids
         /\ o # taker
         /\ placed[o].side \in Sides
         /\ placed[o].price \in Prices
         /\ placed[o].price \in levels[placed[o].side]
         /\ \E i \in 1..Len(queue[placed[o].side][placed[o].price]) :
              queue[placed[o].side][placed[o].price][i] = o
PROOF
<1>1. PICK side \in Sides, p \in Prices :
        \E i \in 1..Len(queue[side][p]) : queue[side][p][i] = o
  BY RestingOrder
<1>2. PICK i \in 1..Len(queue[side][p]) : queue[side][p][i] = o
  BY <1>1
<1>3. /\ o \in Ids /\ o # taker
      /\ placed[o].side = side /\ placed[o].price = p
      /\ p \in levels[side]
  BY <1>2, ListedOrder
<1> QED
  BY <1>2, <1>3

\* The order fillOrder takes is, of all orders the incoming one could trade
\* with, the first in price-time priority.
LEMMA HeadOfBestIsFirst ==
  ASSUME IInv, NEW p \in Prices, Matching(p), queue[Against][p] # << >>,
         NEW entry, entry = Head(queue[Against][p])
  PROVE  /\ entry \in Resting
         /\ entry \in Abstract!Candidates
         /\ \A other \in Abstract!Candidates \ {entry} :
              Abstract!Precedes(entry, other)
PROOF
<1>1. /\ Against \in Sides /\ Against = Opposite(placed[taker].side)
      /\ entry \in Ids
      /\ placed[entry].side = Against /\ placed[entry].price = p
  BY BestEntry, TakerFields DEF Matching, IInv
<1>2. 1 \in 1..Len(queue[Against][p]) /\ queue[Against][p][1] = entry
  BY <1>1, FirstEntry DEF IInv
<1>3. entry \in Resting
  BY <1>1, <1>2, RestingOrder
<1>4. entry \in Abstract!Candidates
  BY <1>1, <1>3, SameOrderTypes DEF Abstract!Candidates, Abstract!OnSide, Matching
<1>5. ASSUME NEW other \in Abstract!Candidates \ {entry}
      PROVE  Abstract!Precedes(entry, other)
  <2> DEFINE q == placed[other].price
  <2>1. other \in Resting /\ placed[other].side = Against /\ other # entry
    BY <1>1, SameOrderTypes DEF Abstract!Candidates, Abstract!OnSide
  <2>2. /\ other \in Ids /\ q \in levels[Against] /\ q \in Prices
        /\ \E i \in 1..Len(queue[Against][q]) : queue[Against][q][i] = other
    BY <2>1, RestingFields
  <2> HIDE DEF q
  <2>3. CASE q = p
    <3>1. PICK i \in 1..Len(queue[Against][p]) : queue[Against][p][i] = other
      BY <2>2, <2>3
    <3>2. 1 < i
      BY <1>2, <2>1, <3>1
    <3>3. entry < other
      BY <1>1, <1>2, <3>1, <3>2 DEF IInv, InArrivalOrder
    <3> QED
      BY <1>1, <2>3, <3>3 DEF Abstract!Precedes, q
  <2>4. CASE q # p
    <3>1. Better(Against, p, q)
      BY <2>2, <2>4 DEF Matching, IsBest
    <3> QED
      BY <1>1, <3>1, SameOrderTypes DEF Abstract!Precedes, q
  <2> QED
    BY <2>3, <2>4
<1> QED
  BY <1>3, <1>4, <1>5

\* The order being handled does not rest.
LEMMA TakerNotResting ==
  ASSUME IInv
  PROVE  taker \notin Resting
BY RestingFields

\* A turn of the loop that exhausts a resting order is a Match.
LEMMA ExhaustIsMatch ==
  ASSUME IInv, IInv', NEW p \in Prices, ExhaustEntry(p)
  PROVE  \E maker \in Resting : Abstract!Match(maker)
PROOF
<1> DEFINE entry == Head(queue[Against][p])
           left  == Tail(queue[Against][p])
<1>1. /\ Matching(p)
      /\ queue[Against][p] # << >>
      /\ qty[entry] <= qty[taker]
      /\ qty' = [qty EXCEPT ![taker] = qty[taker] - qty[entry], ![entry] = 0]
      /\ trades' = Append(trades, MakeTrade(entry, qty[entry]))
      /\ queue' = [queue EXCEPT ![Against][p] = left]
      /\ UNCHANGED <<placed, taker>>
  BY DEF ExhaustEntry
<1>2. /\ Against \in Sides /\ taker \in Ids /\ entry \in Ids /\ entry # taker
      /\ qty[entry] \in Int /\ qty[taker] \in Int /\ qty[taker] > 0
      /\ \A s \in Sides, q \in Prices : \A j \in 1..Len(queue[s][q]) :
           queue[s][q][j] = entry => s = Against /\ q = p /\ j = 1
  BY <1>1, BestEntry
<1>3. /\ entry \in Resting
      /\ entry \in Abstract!Candidates
      /\ \A other \in Abstract!Candidates \ {entry} :
           Abstract!Precedes(entry, other)
  BY <1>1, HeadOfBestIsFirst
<1>4. /\ Len(queue[Against][p]) \in Nat
      /\ queue[Against][p][1] = entry
      /\ Len(left) = Len(queue[Against][p]) - 1
      /\ \A i \in 1..(Len(queue[Against][p]) - 1) :
           left[i] = queue[Against][p][i + 1]
  BY <1>1, <1>2, FirstEntry DEF IInv
<1> HIDE DEF entry, left
<1>5. \A s \in Sides, q \in Prices :
        queue'[s][q] = IF s = Against /\ q = p THEN left ELSE queue[s][q]
  BY <1>1, <1>2 DEF IInv, TypeOK
<1>6. Resting' = Resting \ {entry}
  <2>1. ASSUME NEW o \in Resting'
        PROVE  o \in Resting \ {entry}
    <3>1. PICK s \in Sides, q \in Prices : \E i \in 1..Len(queue'[s][q]) :
            queue'[s][q][i] = o
      BY <2>1 DEF Resting, InQueue
    <3>2. PICK i \in 1..Len(queue'[s][q]) : queue'[s][q][i] = o
      BY <3>1
    <3>3. \E j \in 1..Len(queue[s][q]) :
            /\ queue[s][q][j] = o
            /\ s = Against /\ q = p => j # 1
      <4>1. CASE s = Against /\ q = p
        <5>1. i \in 1..(Len(queue[s][q]) - 1)
          BY <1>4, <1>5, <3>2, <4>1
        <5>2. i + 1 \in 1..Len(queue[s][q]) /\ i + 1 # 1
          BY <1>4, <4>1, <5>1
        <5> QED
          BY <1>4, <1>5, <3>2, <4>1, <5>1, <5>2
      <4>2. CASE ~(s = Against /\ q = p)
        BY <1>5, <3>2, <4>2
      <4> QED
        BY <4>1, <4>2
    <3> QED
      BY <1>2, <3>3, RestingOrder
  <2>2. ASSUME NEW o \in Resting, o # entry
        PROVE  o \in Resting'
    <3>1. PICK s \in Sides, q \in Prices : \E j \in 1..Len(queue[s][q]) :
            queue[s][q][j] = o
      BY RestingOrder
    <3>2. PICK j \in 1..Len(queue[s][q]) : queue[s][q][j] = o
      BY <3>1
    <3>3. \E i \in 1..Len(queue'[s][q]) : queue'[s][q][i] = o
      <4>1. CASE s = Against /\ q = p
        <5>1. j # 1
          BY <1>4, <2>2, <3>2, <4>1
        <5>2. j - 1 \in 1..(Len(queue[s][q]) - 1)
          BY <1>4, <3>2, <4>1, <5>1
        <5>3. j - 1 \in 1..Len(queue'[s][q]) /\ queue'[s][q][j - 1] = o
          BY <1>4, <1>5, <3>2, <4>1, <5>2
        <5> QED
          BY <5>3
      <4>2. CASE ~(s = Against /\ q = p)
        BY <1>5, <3>2, <4>2
      <4> QED
        BY <4>1, <4>2
    <3>4. o \in Ids'
      BY <1>1 DEF Resting, Ids
    <3> QED
      BY <3>3, <3>4 DEF Resting, InQueue
  <2>3. entry \notin Resting'
    BY <2>1
  <2> QED
    BY <2>1, <2>2, <2>3
<1>7. Abstract!Smaller(qty[entry], qty[taker]) = qty[entry]
  BY <1>1, <1>2 DEF Abstract!Smaller
<1>8. qty' = [qty EXCEPT ![entry] = @ - qty[entry], ![taker] = @ - qty[entry]]
  <2>1. qty[entry] - qty[entry] = 0
    BY <1>2
  <2> QED
    BY <1>1, <1>2, <2>1
<1>9. Abstract!Match(entry)
  BY <1>1, <1>2, <1>3, <1>6, <1>7, <1>8
     DEF Abstract!Match, Abstract!NoOrder, Matching, NoOrder, MakeTrade
<1> QED
  BY <1>3, <1>9

\* Where no list changes, the same orders rest.
LEMMA RestingSame ==
  ASSUME IInv, queue' = queue, Ids \subseteq Ids'
  PROVE  Resting' = Resting
PROOF
<1>1. ASSUME NEW o
      PROVE  o \in Resting' <=> o \in Resting
  <2>1. o \in Resting' =>
          \E side \in Sides, p \in Prices :
            \E i \in 1..Len(queue[side][p]) : queue[side][p][i] = o
    BY DEF Resting, InQueue
  <2>2. o \in Resting => o \in Resting'
    BY DEF Resting, InQueue
  <2> QED
    BY <2>1, <2>2, RestingOrder
<1> QED
  BY <1>1

\* A turn of the loop in which a resting order fills the incoming one is a
\* Match.
LEMMA PartlyFillIsMatch ==
  ASSUME IInv, NEW p \in Prices, PartlyFillEntry(p)
  PROVE  \E maker \in Resting : Abstract!Match(maker)
PROOF
<1> DEFINE entry == Head(queue[Against][p])
<1>1. /\ Matching(p)
      /\ queue[Against][p] # << >>
      /\ qty[entry] > qty[taker]
      /\ qty' = [qty EXCEPT ![entry] = qty[entry] - qty[taker], ![taker] = 0]
      /\ trades' = Append(trades, MakeTrade(entry, qty[taker]))
      /\ UNCHANGED <<placed, queue, taker>>
  BY DEF PartlyFillEntry, FillTaker
<1>2. /\ taker \in Ids /\ entry \in Ids /\ entry # taker
      /\ qty[entry] \in Int /\ qty[taker] \in Int /\ qty[taker] > 0
  BY <1>1, BestEntry
<1>3. /\ entry \in Resting
      /\ entry \in Abstract!Candidates
      /\ \A other \in Abstract!Candidates \ {entry} :
           Abstract!Precedes(entry, other)
  BY <1>1, HeadOfBestIsFirst
<1>4. Resting' = Resting
  BY <1>1, RestingSame DEF Ids
<1> HIDE DEF entry
<1>5. Abstract!Smaller(qty[entry], qty[taker]) = qty[taker] /\ qty[entry] # qty[taker]
  BY <1>1, <1>2 DEF Abstract!Smaller
<1>6. qty' = [qty EXCEPT ![entry] = @ - qty[taker], ![taker] = @ - qty[taker]]
  <2>1. qty[taker] - qty[taker] = 0
    BY <1>2
  <2> QED
    BY <1>1, <1>2, <2>1
<1>7. Abstract!Match(entry)
  BY <1>1, <1>2, <1>3, <1>4, <1>5, <1>6
     DEF Abstract!Match, Abstract!NoOrder, Matching, NoOrder, MakeTrade
<1> QED
  BY <1>3, <1>7

\* When the loop ends, nothing that rests could still trade.
LEMMA NoMatchNoCandidate ==
  ASSUME IInv, NoMatch
  PROVE  qty[taker] <= 0 \/ Abstract!Candidates = {}
PROOF
<1>1. ASSUME qty[taker] > 0, NEW o \in Abstract!Candidates
      PROVE  FALSE
  <2>1. /\ o \in Resting
        /\ placed[o].side = Against
        /\ Acceptable(placed[taker], placed[o].price)
    BY SameOrderTypes DEF Abstract!Candidates, Abstract!OnSide, Against
  <2>2. placed[o].price \in levels[Against]
    BY <2>1, RestingFields
  <2>3. qty[taker] \in Int
    BY TakerFields DEF IInv, NoMatch
  <2> QED
    BY <1>1, <2>1, <2>2, <2>3 DEF NoMatch
<1>2. qty[taker] \in Int
  BY TakerFields DEF IInv, NoMatch
<1> QED
  BY <1>1, <1>2

\* insertOrder is a Finish that lets the order rest.
LEMMA RestIsFinish ==
  ASSUME IInv, Rest
  PROVE  Abstract!Finish
PROOF
<1> DEFINE side == placed[taker].side
           p    == placed[taker].price
<1>1. /\ taker # NoOrder /\ taker' = NoOrder
      /\ qty[taker] > 0 /\ placed[taker].type = Limit
      /\ queue' = [queue EXCEPT ![side][p] = Append(@, taker)]
      /\ UNCHANGED <<placed, qty, trades>>
  BY DEF Rest, MayRest, Enqueue, NoMatch
<1>2. taker \in Ids /\ side \in Sides /\ p \in Prices /\ queue[side][p] \in Seq(Ids)
  BY <1>1, TakerFields, OrderFields DEF IInv, TypeOK
<1>3. qty[taker] <= 0 \/ Abstract!Candidates = {}
  BY NoMatchNoCandidate DEF Rest
<1> HIDE DEF side, p
<1>4. /\ Len(queue[side][p]) \in Nat
      /\ Len(queue'[side][p]) = Len(queue[side][p]) + 1
      /\ queue'[side][p][Len(queue[side][p]) + 1] = taker
      /\ \A i \in 1..Len(queue[side][p]) :
           queue'[side][p][i] = queue[side][p][i]
      /\ \A s \in Sides, q \in Prices :
           ~(s = side /\ q = p) => queue'[s][q] = queue[s][q]
  <2>1. queue \in [Sides -> [Prices -> Seq(Ids)]]
    BY DEF IInv, TypeOK
  <2>2. queue'[side][p] = Append(queue[side][p], taker)
    BY <1>1, <1>2, <2>1
  <2>3. \A s \in Sides, q \in Prices :
          ~(s = side /\ q = p) => queue'[s][q] = queue[s][q]
    BY <1>1, <1>2, <2>1
  <2> QED
    BY <1>2, <2>2, <2>3, AppendProperties
<1>5. Resting' = Resting \cup {taker}
  <2>1. ASSUME NEW o \in Resting'
        PROVE  o \in Resting \cup {taker}
    <3>1. PICK s \in Sides, q \in Prices : \E i \in 1..Len(queue'[s][q]) :
            queue'[s][q][i] = o
      BY <2>1 DEF Resting, InQueue
    <3>2. PICK i \in 1..Len(queue'[s][q]) : queue'[s][q][i] = o
      BY <3>1
    <3>3. o = taker \/ \E j \in 1..Len(queue[s][q]) : queue[s][q][j] = o
      <4>1. CASE s = side /\ q = p
        <5>1. i \in 1..Len(queue[s][q]) \/ i = Len(queue[s][q]) + 1
          BY <1>4, <3>2, <4>1
        <5> QED
          BY <1>4, <3>2, <4>1, <5>1
      <4>2. CASE ~(s = side /\ q = p)
        BY <1>4, <3>2, <4>2
      <4> QED
        BY <4>1, <4>2
    <3> QED
      BY <3>3, RestingOrder
  <2>2. ASSUME NEW o \in Resting
        PROVE  o \in Resting'
    <3>1. PICK s \in Sides, q \in Prices : \E j \in 1..Len(queue[s][q]) :
            queue[s][q][j] = o
      BY RestingOrder
    <3>2. PICK j \in 1..Len(queue[s][q]) : queue[s][q][j] = o
      BY <3>1
    <3>3. j \in 1..Len(queue'[s][q]) /\ queue'[s][q][j] = o
      <4>1. CASE s = side /\ q = p
        <5>1. j \in 1..Len(queue'[s][q])
          BY <1>4, <3>2, <4>1
        <5> QED
          BY <1>4, <3>2, <4>1, <5>1
      <4>2. CASE ~(s = side /\ q = p)
        BY <1>4, <3>2, <4>2
      <4> QED
        BY <4>1, <4>2
    <3>4. o \in Ids'
      BY <1>1 DEF Resting, Ids
    <3> QED
      BY <3>3, <3>4 DEF Resting, InQueue
  <2>3. taker \in Resting'
    <3>1. Len(queue[side][p]) + 1 \in 1..Len(queue'[side][p])
      BY <1>2, <1>4
    <3>2. queue'[side][p][Len(queue[side][p]) + 1] = taker
      BY <1>2, <1>4
    <3>3. taker \in Ids'
      BY <1>1, <1>2 DEF Ids
    <3> QED
      BY <1>2, <3>1, <3>2, <3>3 DEF Resting, InQueue
  <2> QED
    BY <2>1, <2>2, <2>3
<1> QED
  BY <1>1, <1>3, <1>5, SameOrderTypes DEF Abstract!Finish

\* A call that ends with nothing to insert is a Finish.
LEMMA ReturnIsFinish ==
  ASSUME IInv, Return
  PROVE  Abstract!Finish
PROOF
<1>1. /\ taker # NoOrder /\ taker' = NoOrder
      /\ UNCHANGED <<placed, queue, trades>>
      /\ \/ placed[taker].type = Limit /\ qty[taker] <= 0 /\ UNCHANGED qty
         \/ placed[taker].type = Market /\ qty' = [qty EXCEPT ![taker] = 0]
  BY DEF Return, NoMatch
<1>2. Resting' = Resting
  BY <1>1, RestingSame DEF Ids
<1>3. qty[taker] <= 0 \/ Abstract!Candidates = {}
  BY NoMatchNoCandidate DEF Return
<1> QED
  BY <1>1, <1>2, <1>3, SameOrderTypes DEF Abstract!Finish

\* cancelOrder of a resting order withdraws it and nothing else.
LEMMA CancelIsWithdraw ==
  ASSUME IInv, NEW o \in Resting, Cancel(o)
  PROVE  Abstract!Withdraw(o)
PROOF
<1> DEFINE side == placed[o].side
           p    == placed[o].price
<1>1. PICK k \in 1..Len(queue[side][p]) :
        /\ queue[side][p][k] = o
        /\ queue' = [queue EXCEPT ![side][p] = RemoveAt(@, k)]
  BY DEF Cancel
<1>2. /\ side \in Sides /\ p \in Prices /\ queue[side][p] \in Seq(Ids)
      /\ Len(queue[side][p]) \in Nat
  BY RestingFields DEF IInv, TypeOK
<1>3. taker = NoOrder /\ UNCHANGED <<placed, qty, taker, trades>>
  BY DEF Cancel
<1> HIDE DEF side, p
<1>4. /\ \A s \in Sides, q \in Prices :
           queue'[s][q] = IF s = side /\ q = p THEN RemoveAt(queue[side][p], k)
                                               ELSE queue[s][q]
      /\ Len(RemoveAt(queue[side][p], k)) = Len(queue[side][p]) - 1
      /\ \A j \in 1..(Len(queue[side][p]) - 1) :
           RemoveAt(queue[side][p], k)[j] =
             IF j < k THEN queue[side][p][j] ELSE queue[side][p][j + 1]
  BY <1>1, <1>2, RemoveAtProperties DEF IInv, TypeOK
<1>5. \A s \in Sides, q \in Prices : \A j \in 1..Len(queue[s][q]) :
        queue[s][q][j] = o => s = side /\ q = p /\ j = k
  BY <1>1, <1>2, ListedOrder
<1>6. Resting' = Resting \ {o}
  <2>1. ASSUME NEW m \in Resting'
        PROVE  m \in Resting \ {o}
    <3>1. PICK s \in Sides, q \in Prices : \E i \in 1..Len(queue'[s][q]) :
            queue'[s][q][i] = m
      BY <2>1 DEF Resting, InQueue
    <3>2. PICK i \in 1..Len(queue'[s][q]) : queue'[s][q][i] = m
      BY <3>1
    <3>3. \E j \in 1..Len(queue[s][q]) :
            /\ queue[s][q][j] = m
            /\ s = side /\ q = p => j # k
      <4>1. CASE s = side /\ q = p
        <5>1. i \in 1..(Len(queue[s][q]) - 1)
          BY <1>4, <3>2, <4>1
        <5>2. i \in 1..Len(queue[s][q]) /\ i + 1 \in 1..Len(queue[s][q])
          BY <1>2, <4>1, <5>1
        <5>3. CASE i < k
          BY <1>4, <3>2, <4>1, <5>1, <5>2, <5>3
        <5>4. CASE ~(i < k)
          <6>1. i + 1 # k
            BY <5>1, <5>4
          <6>2. queue[s][q][i + 1] = m
            BY <1>4, <3>2, <4>1, <5>1, <5>4
          <6> QED
            BY <5>2, <6>1, <6>2
        <5> QED
          BY <5>3, <5>4
      <4>2. CASE ~(s = side /\ q = p)
        BY <1>4, <3>2, <4>2
      <4> QED
        BY <4>1, <4>2
    <3> QED
      BY <1>5, <3>3, RestingOrder
  <2>2. ASSUME NEW m \in Resting, m # o
        PROVE  m \in Resting'
    <3>1. PICK s \in Sides, q \in Prices : \E j \in 1..Len(queue[s][q]) :
            queue[s][q][j] = m
      BY RestingOrder
    <3>2. PICK j \in 1..Len(queue[s][q]) : queue[s][q][j] = m
      BY <3>1
    <3>3. \E i \in 1..Len(queue'[s][q]) : queue'[s][q][i] = m
      <4>1. CASE s = side /\ q = p /\ j < k
        <5>1. j \in 1..(Len(queue[s][q]) - 1)
          BY <1>2, <3>2, <4>1
        <5> QED
          BY <1>4, <3>2, <4>1, <5>1
      <4>2. CASE s = side /\ q = p /\ ~(j < k)
        <5>1. j # k
          BY <1>1, <2>2, <3>2, <4>2
        <5>2. j - 1 \in 1..(Len(queue[s][q]) - 1) /\ ~(j - 1 < k) /\ (j - 1) + 1 = j
          BY <1>2, <3>2, <4>2, <5>1
        <5>3. j - 1 \in 1..Len(queue'[s][q]) /\ queue'[s][q][j - 1] = m
          BY <1>4, <3>2, <4>2, <5>2
        <5> QED
          BY <5>3
      <4>3. CASE ~(s = side /\ q = p)
        BY <1>4, <3>2, <4>3
      <4> QED
        BY <4>1, <4>2, <4>3
    <3>4. m \in Ids'
      BY <1>3 DEF Resting, Ids
    <3> QED
      BY <3>3, <3>4 DEF Resting, InQueue
  <2>3. o \notin Resting'
    BY <2>1
  <2> QED
    BY <2>1, <2>2, <2>3
<1> QED
  BY <1>3, <1>6, SameOrderTypes DEF Abstract!Withdraw

\* Each step of the book is a step of PriceTimeBook, or changes nothing it
\* speaks of.
LEMMA StepRefines ==
  ASSUME IInv, IInv', [Next]_vars
  PROVE  [Abstract!Next]_(Abstract!vars)
PROOF
<1>1. ASSUME NEW order \in Orders, Submit(order)
      PROVE  Abstract!Next
  <2>1. Resting' = Resting
    BY <1>1, RestingSame DEF Submit, Ids, IInv, TypeOK
  <2>2. Abstract!Submit(order)
    BY <1>1, <2>1, SameOrderTypes DEF Submit, Abstract!Submit
  <2> QED
    BY <2>2, SameOrderTypes DEF Abstract!Next
<1>2. ASSUME NEW p \in Prices, ExhaustEntry(p)
      PROVE  Abstract!Next
  BY <1>2, ExhaustIsMatch DEF Abstract!Next
<1>3. ASSUME NEW p \in Prices, PartlyFillEntry(p)
      PROVE  Abstract!Next
  BY <1>3, PartlyFillIsMatch DEF Abstract!Next
<1>4. ASSUME NEW p \in Prices, DropEmptyLevel(p)
      PROVE  UNCHANGED Abstract!vars
  BY <1>4, RestingSame DEF DropEmptyLevel, Abstract!vars, Ids
<1>5. ASSUME Rest
      PROVE  Abstract!Next
  BY <1>5, RestIsFinish DEF Abstract!Next
<1>6. ASSUME Return
      PROVE  Abstract!Next
  BY <1>6, ReturnIsFinish DEF Abstract!Next
<1>7. ASSUME NEW o \in Resting, Cancel(o)
      PROVE  Abstract!Next
  BY <1>7, CancelIsWithdraw DEF Abstract!Next
<1>8. CASE UNCHANGED vars
  BY <1>8, RestingSame DEF vars, Abstract!vars, Ids
<1> QED
  BY <1>1, <1>2, <1>3, <1>4, <1>5, <1>6, <1>7, <1>8 DEF Next, HandleStep

\* The order book of the source keeps price-time priority: OrderBook
\* implements PriceTimeBook.
THEOREM ImplementsPriceTimePriority == Spec => KeepsPriority
PROOF
<1>1. Init => Abstract!Init
  BY DEF Init, Abstract!Init, Resting, Ids, Abstract!NoOrder, NoOrder
<1>2. IInv /\ IInv' /\ [Next]_vars => [Abstract!Next]_(Abstract!vars)
  BY StepRefines
<1>3. Spec => Abstract!Spec
  BY <1>1, <1>2, Invariant, PTL DEF Spec, Abstract!Spec
<1> QED
  BY <1>3 DEF KeepsPriority
=============================================================================
