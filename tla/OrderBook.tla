------------------------------ MODULE OrderBook ------------------------------
(***************************************************************************)
(* One order book (OrderBook.java), as Exchange.placeOrder and             *)
(* Exchange.cancelOrder use it, one call at a time.  handleOrder is        *)
(* modelled one turn of its loop at a time.                                *)
(*                                                                         *)
(* An order object is its number: orders are numbered as they come in.     *)
(* A TreeMap<Long, LinkedList<Order>> is the set of its keys (levels) and  *)
(* a queue for every price; a key whose list is empty is a state of its    *)
(* own, and cancelOrder leaves such keys behind.                           *)
(*                                                                         *)
(* An operator Bad... stands before the one it is a plausible mistake of.  *)
(* None is part of the specification: they show that the properties would  *)
(* notice the mistake.                                                     *)
(***************************************************************************)
EXTENDS OrderTypes, SequencesExt

CONSTANT MaxOrders      \* bound on the orders of a behaviour

ASSUME MaxOrdersAssumption == MaxOrders \in Nat

VARIABLES
  placed,   \* the orders that came in, oldest first (fields that never change)
  qty,      \* qty[o]: the qty field of order object o
  levels,   \* levels[side]: keys of the TreeMap bids or asks
  queue,    \* queue[side][price]: the list under that key, << >> if none
  taker,    \* the order handleOrder works on, NoOrder between two calls
  trades    \* what the calls of handleOrder returned, one after the other

vars == <<placed, qty, levels, queue, taker, trades>>

NoOrder == 0
Ids     == 1..Len(placed)

InQueue(o, side, p) == \E i \in 1..Len(queue[side][p]) : queue[side][p][i] = o
Resting == {o \in Ids : \E side \in Sides, p \in Prices : InQueue(o, side, p)}

-----------------------------------------------------------------------------
\* bestAsk returns lastKey too
BadIsBest(side, p) ==
  /\ p \in levels[side]
  /\ \A other \in levels[side] \ {p} : p > other

\* bestBid and bestAsk: the last key of bids, the first key of asks.
IsBest(side, p) ==
  /\ p \in levels[side]
  /\ \A other \in levels[side] \ {p} : Better(side, p, other)

\* sideBook in handleOrder, the book the incoming order trades against
Against == Opposite(placed[taker].side)

\* the loop does not test the quantity of the order
BadMatching(p) ==
  /\ taker # NoOrder
  /\ IsBest(Against, p)
  /\ Acceptable(placed[taker], p)

\* The condition of the loop in handleOrder, for bestPrice = p.
Matching(p) ==
  /\ taker # NoOrder
  /\ IsBest(Against, p)
  /\ qty[taker] > 0
  /\ Acceptable(placed[taker], p)

\* The negation of that condition.  Prices behind the best are no more
\* acceptable than the best, so one quantifier stands for "best".
NoMatch ==
  /\ taker # NoOrder
  /\ qty[taker] <= 0 \/ \A p \in levels[Against] : ~Acceptable(placed[taker], p)

\* the Trade is made before the quantities are set
BadMakeTrade(maker, filled) ==
  [maker |-> maker, taker |-> taker, price |-> placed[maker].price,
   filled |-> filled, makerRemaining |-> qty[maker], takerRemaining |-> qty[taker]]

\* new Trade(entry, taker, filled), after both quantities were set
MakeTrade(maker, filled) ==
  [maker |-> maker, taker |-> taker, price |-> placed[maker].price,
   filled |-> filled,
   makerRemaining |-> qty[maker] - filled,
   takerRemaining |-> qty[taker] - filled]

\* the quantity of the incoming order is zeroed before it is subtracted
BadFillTaker(entry) == [qty EXCEPT ![taker] = 0]

\* the quantities after a resting order filled the incoming one
FillTaker(entry) == [qty EXCEPT ![entry] = @ - qty[taker], ![taker] = 0]

\* emptied levels are not removed
BadLevelsWithout(p) == levels

\* sideBook.remove(bestPrice)
LevelsWithout(p) == [levels EXCEPT ![Against] = @ \ {p}]

\* a filled order rests too
BadMayRest == qty[taker] >= 0 /\ placed[taker].type = Limit

\* place order if remaining and not a market order
MayRest == qty[taker] > 0 /\ placed[taker].type = Limit

\* a copy of the order, a new object, joins the level
BadEnqueueCopy(entries, o) == Append(entries, Len(placed) + 1)

\* the order joins the front of its level
BadEnqueue(entries, o) == <<o>> \o entries

\* entries.add(order)
Enqueue(entries, o) == Append(entries, o)

-----------------------------------------------------------------------------
Init ==
  /\ placed = << >>
  /\ qty = << >>
  /\ levels = [side \in Sides |-> {}]
  /\ queue = [side \in Sides |-> [p \in Prices |-> << >>]]
  /\ taker = NoOrder
  /\ trades = << >>

\* handleOrder is called.
Submit(order) ==
  /\ taker = NoOrder
  /\ Len(placed) < MaxOrders
  /\ placed' = Append(placed, order)
  /\ qty' = Append(qty, order.size)
  /\ taker' = Len(placed) + 1
  /\ UNCHANGED <<levels, queue, trades>>

\* fillOrder: the first order of the best level is filled and popped; the
\* level goes with its last order.
ExhaustEntry(p) ==
  /\ Matching(p)
  /\ queue[Against][p] # << >>
  /\ LET entry == Head(queue[Against][p])
         left  == Tail(queue[Against][p])
     IN /\ qty[entry] <= qty[taker]
        /\ qty' = [qty EXCEPT ![taker] = @ - qty[entry], ![entry] = 0]
        /\ trades' = Append(trades, MakeTrade(entry, qty[entry]))
        /\ queue' = [queue EXCEPT ![Against][p] = left]
        /\ levels' = IF left = << >> THEN LevelsWithout(p) ELSE levels
  /\ UNCHANGED <<placed, taker>>

\* fillOrder: the first order of the best level fills the incoming one.
PartlyFillEntry(p) ==
  /\ Matching(p)
  /\ queue[Against][p] # << >>
  /\ LET entry == Head(queue[Against][p])
     IN /\ qty[entry] > qty[taker]
        /\ qty' = FillTaker(entry)
        /\ trades' = Append(trades, MakeTrade(entry, qty[taker]))
  /\ UNCHANGED <<placed, levels, queue, taker>>

\* The best level is one a cancel emptied: fillOrder does nothing and
\* handleOrder removes the level.
DropEmptyLevel(p) ==
  /\ Matching(p)
  /\ queue[Against][p] = << >>
  /\ levels' = LevelsWithout(p)
  /\ UNCHANGED <<placed, qty, queue, taker, trades>>

\* insertOrder: what is left of a limit order joins the end of its level.
Rest ==
  /\ NoMatch
  /\ MayRest
  /\ LET side == placed[taker].side
         p    == placed[taker].price
     IN /\ levels' = [levels EXCEPT ![side] = @ \cup {p}]
        /\ queue' = [queue EXCEPT ![side][p] = Enqueue(@, taker)]
  /\ taker' = NoOrder
  /\ UNCHANGED <<placed, qty, trades>>

\* handleOrder returns with nothing to insert: a limit order that is filled
\* (or never asked for a positive quantity) keeps its qty, that of a market
\* order becomes 0.
Return ==
  /\ NoMatch
  /\ \/ placed[taker].type = Limit /\ qty[taker] <= 0 /\ UNCHANGED qty
     \/ placed[taker].type = Market /\ qty' = [qty EXCEPT ![taker] = 0]
  /\ taker' = NoOrder
  /\ UNCHANGED <<placed, levels, queue, trades>>

\* Exchange.cancelOrder finds o through its side and price and removes it
\* from the list there; the key of the list stays.
Cancel(o) ==
  /\ taker = NoOrder
  /\ LET side == placed[o].side
         p    == placed[o].price
     IN \E i \in 1..Len(queue[side][p]) :
          /\ queue[side][p][i] = o
          /\ queue' = [queue EXCEPT ![side][p] = RemoveAt(@, i)]
  /\ UNCHANGED <<placed, qty, levels, taker, trades>>

HandleStep ==
  \/ \E p \in Prices : \/ ExhaustEntry(p)
                       \/ PartlyFillEntry(p)
                       \/ DropEmptyLevel(p)
  \/ Rest
  \/ Return

Next ==
  \/ \E order \in Orders : Submit(order)
  \/ HandleStep
  \/ \E o \in Resting : Cancel(o)

\* A thread that entered handleOrder goes on running.
Fairness == WF_vars(HandleStep)

Spec == Init /\ [][Next]_vars /\ Fairness

-----------------------------------------------------------------------------
(* Properties *)

Trade == [maker : Nat, taker : Nat, price : Int, filled : Int,
          makerRemaining : Int, takerRemaining : Int]

\* Every variable holds what its Java field can hold.
TypeOK ==
  /\ placed \in Seq(Orders)
  /\ qty \in Seq(Int)
  /\ Len(qty) = Len(placed)
  /\ levels \in [Sides -> SUBSET Prices]
  /\ queue \in [Sides -> [Prices -> Seq(Ids)]]
  /\ taker \in Ids \cup {NoOrder}
  /\ trades \in Seq(Trade)

\* After any matching, partial fill, cancel or dropped level, no bid level
\* (bids.lastKey() included) is at or above an ask level: handleOrder never
\* inserts an order that could still have traded.
Uncrossed ==
  \A bid \in levels[Buy], ask \in levels[Sell] : bid < ask

\* An order object in a list of the book is a limit order of that list's
\* side and price with something left to fill, and cancelOrder would look it
\* up there; its list is reachable, and it is not the order being handled.
WellPlaced(o, side, p) ==
  /\ placed[o].type = Limit
  /\ placed[o].side = side
  /\ placed[o].price = p
  /\ qty[o] > 0
  /\ p \in levels[side]
  /\ o # taker

QueuesMatchOrders ==
  \A side \in Sides, p \in Prices :
    \A i \in 1..Len(queue[side][p]) : WellPlaced(queue[side][p][i], side, p)

\* The lists keep arrival order, whatever was popped from the front or
\* removed from the middle: time priority, and no order is listed twice.
InArrivalOrder ==
  \A side \in Sides, p \in Prices :
    \A i, j \in 1..Len(queue[side][p]) :
      i < j => queue[side][p][i] < queue[side][p][j]

\* What fillOrder recorded in Trade objects as filled for order o.
FilledOf(o) ==
  SumFunction([i \in 1..Len(trades) |->
                 IF o \in {trades[i].maker, trades[i].taker} THEN trades[i].filled ELSE 0])

\* No quantity is made or lost by fillOrder: what the trades filled of an
\* order and what is left of it add up to what was asked for, and no trade
\* is empty.  Only the rest of a market order is dropped, when handleOrder
\* sets its qty to 0 in the end.
FillsAddUp ==
  /\ \A o \in Ids :
       IF placed[o].type = Market /\ o # taker
       THEN qty[o] = 0 /\ (FilledOf(o) <= placed[o].size \/ FilledOf(o) = 0)
       ELSE FilledOf(o) + qty[o] = placed[o].size
  /\ \A i \in 1..Len(trades) : trades[i].filled > 0

\* The remaining quantity that a Trade object reports of the resting order:
\* the last report about an order is what is left of it for good, although
\* placeOrder reads the reports only after the whole call, when later trades
\* have changed the order object.
RemainingIsTrue ==
  \A o \in Ids \ {taker}, i \in 1..Len(trades) :
    /\ trades[i].maker = o
    /\ \A j \in (i + 1)..Len(trades) : trades[j].maker # o
    => trades[i].makerRemaining = qty[o]

\* The strengthening that makes Uncrossed inductive.
TakerIsNewest == taker # NoOrder => taker = Len(placed)

IInv ==
  /\ TypeOK
  /\ QueuesMatchOrders
  /\ InArrivalOrder
  /\ TakerIsNewest
  /\ Uncrossed

\* handleOrder returns: each turn of its loop makes progress, on empty
\* levels too.
HandleOrderReturns == taker # NoOrder ~> taker = NoOrder

\* The book keeps price-time priority: handleOrder and cancelOrder do to the
\* set of resting orders what PriceTimeBook says, and nothing else.
Abstract == INSTANCE PriceTimeBook WITH resting <- Resting

KeepsPriority == Abstract!Spec
=============================================================================
