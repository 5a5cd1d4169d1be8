------------------------------ MODULE WebPage ------------------------------
(***************************************************************************)
(* What the scripts of the web page do to its variables (web/js): the      *)
(* orders and money it shows, its counter of order IDs, and the table of   *)
(* past orders, out of which it deletes.  A page is a record; an operator  *)
(* here is what one function of the scripts makes of it.  Trading says     *)
(* when they are called.                                                   *)
(*                                                                         *)
(* Rows of the order tables are numbered as they are made.  Chart, prices, *)
(* value and pnl of a security are left out: nothing depends on them.      *)
(***************************************************************************)
EXTENDS Integers, SequencesExt

CONSTANT MaxPastOrders  \* MAX_PAST_ORDERS, 100 in ui_updating.js

ASSUME MaxPastOrdersAssumption == MaxPastOrders \in Nat

NoRow == 0

Status == <<"Filled", "Partial Filled", "Resting", "Canceled">>

\* The status a message sets, for its action 0, 1, 2 or 3.
StatusOf(action) == Status[action + 1]

Done(entry) == entry.status \in {"Filled", "Canceled"}

\* The variables of a page that was just loaded.  broken tells that a handler
\* of a message threw; the page does not know.
NewPage ==
  [money |-> 0, nextID |-> 1, orders |-> << >>,
   quoted |-> {}, paid |-> << >>, position |-> << >>,
   past |-> << >>, pastCount |-> 0, pastGone |-> FALSE, rows |-> 0,
   broken |-> FALSE]

\* An order the page has just heard of or sent.
NewEntry(remaining) ==
  [filled |-> 0, remaining |-> remaining, status |-> "Pending", row |-> NoRow]

Entered(map, key, value) ==
  [k \in DOMAIN map \cup {key} |-> IF k = key THEN value ELSE map[k]]

\* What is left of the orders when the table of past orders is full: the
\* order of the table's first row, which is the newest, is deleted.
Forgotten(pg) ==
  IF pg.past = << >> THEN pg.orders
  ELSE [id \in DOMAIN pg.orders \ {Head(pg.past).id} |-> pg.orders[id]]

\* prepend and append take a row out of the table it is in.
WithoutRow(past, row) == RemoveFirstMatch(past, LAMBDA r : r.row = row)

\* updateOrdersTable for the order under id.  A row is made for an order that
\* has none; only then is the table of past orders looked after, and when it
\* is full it is removed as a whole.
UpdateOrdersTable(pg, id) ==
  LET entry  == pg.orders[id]
      fresh  == entry.row = NoRow
      row    == IF fresh THEN pg.rows + 1 ELSE entry.row
      ended  == fresh /\ Done(entry)
      full   == ended /\ pg.pastCount >= MaxPastOrders
      kept   == IF full THEN Forgotten(pg) ELSE pg.orders
      gone   == pg.pastGone \/ full
      others == WithoutRow(pg.past, row)
  IN [pg EXCEPT
        !.orders = [i \in DOMAIN kept |->
                      IF i = id THEN [entry EXCEPT !.row = row] ELSE kept[i]],
        !.rows = IF fresh THEN @ + 1 ELSE @,
        !.pastCount = IF ended THEN @ + 1 ELSE @,
        !.pastGone = gone,
        !.past = IF gone THEN << >>
                 ELSE IF Done(entry) THEN <<[row |-> row, id |-> id]>> \o others
                 ELSE others]

\* sendOrder, for an order the page can name a price for: it is entered after
\* it was sent.
SendOrder(pg, quantity) ==
  [UpdateOrdersTable(
     [pg EXCEPT !.orders = Entered(@, pg.nextID, NewEntry(quantity))], pg.nextID)
   EXCEPT !.nextID = @ + 1]

\* sendOrder without a price: nothing is sent, the ID is used up.
SendInvalid(pg) == [pg EXCEPT !.nextID = @ + 1]

\* handleNewUser
HandleNewUser(pg, money) == [pg EXCEPT !.money = money]

\* handleQuote: the first quote of a security makes its entry.
HandleQuote(pg, symbol) ==
  IF symbol \in pg.quoted THEN pg
  ELSE [pg EXCEPT !.quoted = @ \cup {symbol},
                  !.paid = Entered(@, symbol, 0),
                  !.position = Entered(@, symbol, 0)]

Magnitude(n) == IF n < 0 THEN -n ELSE n

\* only the first message about an order counts as a fill
BadHeard(entry, msg) ==
  [entry EXCEPT !.remaining = msg.remaining, !.filled = Magnitude(msg.filled)]

\* what is filled is taken off, not added
BadHeardDown(entry, msg) ==
  [entry EXCEPT !.remaining = msg.remaining, !.filled = @ - Magnitude(msg.filled)]

\* What an order message changes before the security is looked at.
Heard(entry, msg) ==
  [entry EXCEPT !.remaining = msg.remaining, !.filled = @ + Magnitude(msg.filled)]

\* an order the page does not know is not entered
BadHandleOrder(pg, msg) ==
  IF msg.id \notin DOMAIN pg.orders THEN [pg EXCEPT !.money = @ + msg.money]
  ELSE UpdateOrdersTable(
         [pg EXCEPT !.money = @ + msg.money,
                    !.orders[msg.id] = [Heard(@, msg) EXCEPT !.status = StatusOf(msg.action)],
                    !.paid[msg.symbol] = @ + msg.money,
                    !.position[msg.symbol] = @ + msg.filled],
         msg.id)

\* handleOrder.  It throws for a security no quote came of: an order the page
\* knows has been changed by then, one it does not know is not entered.
HandleOrder(pg, msg) ==
  LET known == msg.id \in DOMAIN pg.orders
      entry == Heard(IF known THEN pg.orders[msg.id] ELSE NewEntry(msg.remaining), msg)
      credited == [pg EXCEPT !.money = @ + msg.money]
  IN IF msg.symbol \notin pg.quoted
     THEN [credited EXCEPT !.orders = IF known THEN Entered(@, msg.id, entry) ELSE @,
                        !.broken = TRUE]
     ELSE UpdateOrdersTable(
            [credited EXCEPT
               !.orders = Entered(@, msg.id, [entry EXCEPT !.status = StatusOf(msg.action)]),
               !.paid[msg.symbol] = @ + msg.money,
               !.position[msg.symbol] = @ + msg.filled],
            msg.id)

\* handleCancel
HandleCancel(pg, msg) ==
  IF msg.id \notin DOMAIN pg.orders \/ ~msg.success THEN pg
  ELSE UpdateOrdersTable(
         [pg EXCEPT !.orders[msg.id].status = "Canceled",
                    !.orders[msg.id].remaining = 0],
         msg.id)
=============================================================================
