--------------------------- MODULE PriceTimeBook ---------------------------
(***************************************************************************)
(* What an order book promises: price-time priority.  There are no price   *)
(* levels and no queues here, only the set of resting orders.  Orders are  *)
(* numbered as they arrive.  OrderBook implements this module.             *)
(***************************************************************************)
EXTENDS OrderTypes, Sequences

CONSTANT MaxOrders      \* bound on the orders of a behaviour

VARIABLES
  placed,     \* the orders that came in, oldest first
  qty,        \* qty[o]: what is left to fill of order o
  resting,    \* orders waiting in the book
  taker,      \* order being handled, NoOrder between two calls
  trades      \* trades made so far

vars == <<placed, qty, resting, taker, trades>>

NoOrder == 0
Ids     == 1..Len(placed)

Smaller(m, n) == IF m <= n THEN m ELSE n

\* Among the resting orders, m goes before n of the same side.
Precedes(m, n) ==
  \/ Better(placed[m].side, placed[m].price, placed[n].price)
  \/ placed[m].price = placed[n].price /\ m < n

OnSide(side) == {o \in resting : placed[o].side = side}

\* The resting orders the order being handled could trade with.
Candidates == {o \in OnSide(Opposite(placed[taker].side)) :
                 Acceptable(placed[taker], placed[o].price)}

Init ==
  /\ placed = << >>
  /\ qty = << >>
  /\ resting = {}
  /\ taker = NoOrder
  /\ trades = << >>

\* An order comes in.
Submit(order) ==
  /\ taker = NoOrder
  /\ Len(placed) < MaxOrders
  /\ placed' = Append(placed, order)
  /\ qty' = Append(qty, order.size)
  /\ taker' = Len(placed) + 1
  /\ UNCHANGED <<resting, trades>>

\* It trades with the first order it can trade with, at that order's price,
\* for all that both can give.
Match(maker) ==
  /\ taker # NoOrder
  /\ qty[taker] > 0
  /\ maker \in Candidates
  /\ \A other \in Candidates \ {maker} : Precedes(maker, other)
  /\ LET filled == Smaller(qty[maker], qty[taker])
     IN /\ qty' = [qty EXCEPT ![maker] = @ - filled, ![taker] = @ - filled]
        /\ resting' = IF qty[maker] = filled THEN resting \ {maker} ELSE resting
        /\ trades' = Append(trades, [maker |-> maker, taker |-> taker,
                                     price |-> placed[maker].price,
                                     filled |-> filled,
                                     makerRemaining |-> qty[maker] - filled,
                                     takerRemaining |-> qty[taker] - filled])
  /\ UNCHANGED <<placed, taker>>

\* Nothing more can trade: what is left of a limit order rests,
\* what is left of a market order is dropped.
Finish ==
  /\ taker # NoOrder
  /\ qty[taker] <= 0 \/ Candidates = {}
  /\ \/ /\ placed[taker].type = Limit /\ qty[taker] > 0
        /\ resting' = resting \cup {taker}
        /\ UNCHANGED qty
     \/ /\ placed[taker].type = Limit /\ qty[taker] <= 0
        /\ UNCHANGED <<resting, qty>>
     \/ /\ placed[taker].type = Market
        /\ qty' = [qty EXCEPT ![taker] = 0]
        /\ UNCHANGED resting
  /\ taker' = NoOrder
  /\ UNCHANGED <<placed, trades>>

\* A resting order is taken out of the book.
Withdraw(o) ==
  /\ taker = NoOrder
  /\ resting' = resting \ {o}
  /\ UNCHANGED <<placed, qty, taker, trades>>

Next ==
  \/ \E order \in Orders : Submit(order)
  \/ \E maker \in resting : Match(maker)
  \/ Finish
  \/ \E o \in resting : Withdraw(o)

Spec == Init /\ [][Next]_vars
=============================================================================
