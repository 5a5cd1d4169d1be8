----------------------------- MODULE OrderTypes -----------------------------
(***************************************************************************)
(* What an order is (Order.java) and how prices compare.  The integers     *)
(* that stand for sides and order types are those of the source: side 0    *)
(* buys and 1 sells, type 0 is a market order and 1 a limit order.         *)
(***************************************************************************)
EXTENDS Integers

CONSTANTS Prices,       \* prices, in cents, a limit order can name
          Quantities    \* quantities an order can ask for

ASSUME PricesAssumption     == Prices \subseteq Int
ASSUME QuantitiesAssumption == Quantities \subseteq Int

Buy    == 0
Sell   == 1
Sides  == {Buy, Sell}
Opposite(side) == 1 - side

Market == 0
Limit  == 1

\* The price the client puts into a market order; nothing reads it.
MarketPrice == 0

\* The fields of an order that are set when it is placed and never after.
\* size is the quantity asked for; the quantity left is state of its book.
Orders ==
  [side : Sides, type : {Limit},  price : Prices,        size : Quantities] \cup
  [side : Sides, type : {Market}, price : {MarketPrice}, size : Quantities]

\* On a side of the book, price p is served before price q.
Better(side, p, q) == IF side = Buy THEN p > q ELSE p < q

\* A plausible mistake in the next definition, for testing properties: an
\* order trades only at better prices than its own.
BadAcceptable(order, p) ==
  \/ order.type = Market
  \/ order.side = Buy  /\ order.price > p
  \/ order.side = Sell /\ order.price < p

\* An incoming order may trade at price p.
Acceptable(order, p) ==
  \/ order.type = Market
  \/ order.side = Buy  /\ order.price >= p
  \/ order.side = Sell /\ order.price <= p
=============================================================================
