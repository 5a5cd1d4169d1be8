# FEC-Simulator in TLA+

The FEC-Simulator is a trading game: a Java server (`src/java/Simulator`) keeps
one order book per security and a ledger of users; web pages (`web/`) and Python
trading algos (`algos/`) place and cancel orders over WebSockets. This directory
holds TLA+ modules that model its parts, the TLC configurations that check them
on small instances, and proofs that TLAPS checks.

- [The system](#the-system): its parts, their state, how they interact
- [The modules](#the-modules): what models what, and how
- [The runs](#the-runs): what each shows, bounds and fairness
- [The proofs](#the-proofs)
- [Where code and comments disagree](#where-code-and-comments-disagree)
- [Not modelled](#not-modelled)

Run `tlc -config MCOrderBook.cfg MCOrderBook` for a run and `tlapm
OrderBookProofs.tla` for the proofs of a module.

## The system

### Components

| Part | State | Operations | What makes it correct |
|---|---|---|---|
| Order book, `OrderBook.java` | two `TreeMap`s from price to a list of orders; `qty` of each order | `handleOrder` (with `fillOrder`, `insertOrder`), removal by `Exchange.cancelOrder` from outside, `bestBid`, `bestAsk`, `getLevelQty` | never crossed; price-time priority; quantities add up; a call returns |
| Exchange, `Exchange.java` | the books by symbol, the index `orders` from order ID to order | `placeOrder`, `cancelOrder`, `addSecurity`, `getQuote` | index and books agree; settlement moves what was traded to whom it belongs; messages say what happened |
| User ledger, `User.java` | `money`, `portfolio`, `orders` (never read), session lists | add and subtract | nothing is created or lost |
| Sessions and users, `ClientManager.java` | users by name, names by session ID | `addUser`, `addNonAlgoSessionID`, `addAlgoToUser`, `removeSessionID`, `removeAlgoFromUser`, `removeUser` | both maps agree; a session is listed once, for one user, while it is open |
| Message handlers, `Server.java` | open sessions, the one static exchange, the one feed | `onOpen`, `onMessage` and its handlers, `onClose`, `bootUser` | every response reaches every session of its user once; a connection disturbs no other |
| Algo processes, `Server.AlgoProcessManager` | running process by user and algo ID | run, stop (with a wait of three seconds), remove, kill on reconnect | no process runs unowned; stop ends the process and says so |
| Upload, `Server.handleUploadFile`, `algorithms.js` | one output stream per connection and a flag of success; in the page, files being read | `addAlgorithm`, `onload`; start, data, end | a file called a success is header, one upload, footer; the page is answered |
| Quote feed, `DataFeed.java` | a thread and its `stop_flag`; the exchange it was made with | `run`, `end` | stop reaches a feed that was started, and ends it; a feed goes on while connections and starts change what it iterates over; who stays gets quotes |
| Message format, `MessageFormatter.java`, `websocket.js` | none | `format`, `parse` | parse undoes format |
| Web client, `web/js` | its orders, their rows, positions, money, counter of order IDs | `sendOrder`, `sendCancel`, the handlers of `receiving.js`, `updateOrdersTable` | once all messages have arrived, the table shows what rests, and the money moves with the ledger |
| Algo wrapper, `algos/*.py` | its orders, data, counter of order IDs | register, order, cancel, status, stop | as for the page; ends on stop |

`exchange_simple.java` and `security.java` are unused, `TestOrderBook` and
`TestMessages` are main programs that print, `Examples/Qt Attempt` is an
abandoned earlier program, `build/` is a copy of `web/`.

### How they interact

A client sends `order` with an ID of its own choosing. `Server.handleOrder`
finds the user of the session and calls `Exchange.placeOrder`, which puts the
order into the index, calls `OrderBook.handleOrder`, and then walks through the
trades this returned: for each it updates the ledger of both users
(`updateUsersTrade`), makes two confirmations, and takes the resting order out
of the index if it is filled. The messages go to every session of the user each
belongs to. `cancel` goes to `Exchange.cancelOrder`, which takes the order out
of the list in the book directly. `admin start` puts a new book for every
security and starts a feed thread, which sends a quote of every book to every
session every two seconds.

All of it is plain shared memory. Handlers of different sessions run on
different threads of the container, the feed on another, and nothing is locked.
The container makes a `Server` object for each connection, and the constructor
replaces the static exchange.

### What is hard here

`PROJECT.json` lists every hazard at its line. In short: emptied levels that
stay in the book; orders whose objects change while their trades wait to be
settled; order IDs that clients choose and that collide; exceptions in the
middle of a settlement; a market started twice; quantities and prices nobody
validates; interleaved handlers; a reconnect that loses all books; sessions that
are listed twice or not at all; algos that die, wait or restart; a feed that
cannot be stopped.

## The modules

### `OrderTypes`

Orders, sides, prices; `Better` and `Acceptable`, the two comparisons that
`bestBid`, `bestAsk` and the loop of `handleOrder` are made of. Sides and types
are the integers of the source. A market order carries price 0, as the page
sends it; no code reads that price.

### `PriceTimeBook`: what a book promises

The abstract specification: a set of resting orders, no levels, no queues. An
order comes in (`Submit`), trades with the first order by price and then arrival
(`Match`), and what is left of it rests or is dropped (`Finish`). A resting
order may be taken out (`Withdraw`).

### `OrderBook`: the book as coded

| Model | Code |
|---|---|
| `levels[side]` | keys of `bids`, `asks`; a key may have an empty list |
| `queue[side][price]` | the list under the key |
| `placed[o]`, `qty[o]` | the order object: fields that never change, field `qty` |
| `taker` | the argument of the running `handleOrder`, `NoOrder` between calls |
| `trades` | the `Trade` objects returned so far |
| `Submit` | the call, up to the loop |
| `ExhaustEntry`, `PartlyFillEntry` | one turn of the loop in `fillOrder`, with the removal of the level by `handleOrder` after the last |
| `DropEmptyLevel` | a turn of the outer loop on a level that a cancel emptied |
| `Rest`, `Return` | the end of `handleOrder` with and without `insertOrder` |
| `Cancel` | the removal in `Exchange.cancelOrder` |

The inner loop of `fillOrder` and the outer loop of `handleOrder` make one
sequence of turns here. The order in which the Java code tests and sets things
within a turn cannot be observed, as calls come one at a time.

### `Exchange`: books, index, ledger, messages

| Model | Code |
|---|---|
| `orders` | `Exchange.orders`, the index |
| `book[symbol]` | the orders in the order book of the symbol |
| `money`, `portfolio` | `User.money`, `User.portfolio` |
| `phase`, `taker`, `trades` | how far the running `placeOrder` is: `matching` is `handleOrder`, `settling` the loop over the trades |
| `responses`, `thrown` | what the call returns, or that it ended in an exception |
| `PlaceOrder`, `PlaceUnknown` | the call, up to `handleOrder`; a null user name throws after the order is in the index |
| `Match`, `FinishMatching` | `handleOrder` |
| `Settle`, `SettleThrows` | one turn of the loop over the trades, and the two places where it throws |
| `EndPlaceOrder` | from line 130 on |
| `CancelOrder` | `cancelOrder` |
| `Start` | `addSecurity` for all securities, as `admin start` calls it |
| `nextID`, `OrderID` | the counter `next_orderID` of a page, which starts at 1 when the page is loaded |

A book is the set of its resting orders here, matched by the definitions of
`PriceTimeBook`. That is what `OrderBook` implements, by a theorem
(`ImplementsPriceTimePriority`), so nothing is lost, and a state has no queues
to carry around.

`OwnCounters` chooses between two environments: IDs that are unique, and IDs as
the web page makes them, which collide.

### `ClientManager`, `AlgoProcesses`, `Server`: sessions and algos

`ClientManager` and `AlgoProcesses` hold the state of their classes and one
operator for what a handler makes of it; `Server` puts them together: one action
per handler, with the pages and algos that open, use and close sessions.
`Accounts` holds the names all of them use.

| Model | Code |
|---|---|
| `users`, `nameOf` | `ClientManager.users`, `sessionIds_to_name` |
| `sessionIDs`, `nonAlgoSessionIDs`, `algoSessionIDs` | the fields of `User` |
| `runningAlgos` | `AlgoProcessManager.runningAlgos` |
| `spawned`, `alive` | the processes themselves |
| `sessions` | keys of `Server.sessions` |
| `client`, `greeted` | who opened a session, and whether it has sent `new_user` or `new_algo` (once a session: `websocket.js`, `algo-footer.py`) |
| `stopping` | handlers of `stop` that sleep, with the values they hold across the sleep |
| `OnOpen`, `OnClose`, `NewUser`, `NewAlgo`, `RunAlgo`, `RemoveAlgo`, `BootUser` | the handlers, whole |
| `BeginStop`, `EndStop` | the handler of `stop` before and after `Thread.sleep(3000)` |
| `...Throws` | the same handlers when `removeUser` throws `ConcurrentModificationException`, or when the algo has no session and `containsKey(null)` throws |
| `ProcessExits` | an algo ends, because it was told to or by itself |
| `Receivers(u)` | whom `handleOrder` and `handleCancel` send to |

Other handlers run during the sleep. A session whose own handler sleeps gets no
message, but may close. `removeUser` of `ClientManager` has no operator: its one
caller gives it a session ID, for which there is no user, and it does nothing.
No client sends `remove_algo`; its handler would do what `RemoveAlgo` does.

### `WebPage`, `Trading`: from the page to the exchange and back

`WebPage` has one operator for each function of the scripts that changes what a
page shows, as a function from page to page. `Trading` extends `Exchange` and
`WebPage`, takes the session lists from an instance of `ClientManager`, and puts
queues between them.

| Model | Code |
|---|---|
| `page[p].orders` | `orders` of the page: `filled`, `remaining`, `status`, and the number of its row for `tablepointer` |
| `page[p].money`, `.quoted`, `.paid`, `.position`, `.nextID` | `_money`, the keys of `securities` and two of their fields, `next_orderID` |
| `page[p].past`, `.pastCount`, `.pastGone` | the rows of the table of past orders, `current_past_orders`, whether the table's body was removed |
| `page[p].broken` | whether a handler of a message threw |
| `UpdateOrdersTable`, `SendOrder`, `HandleOrder`, `HandleCancel`, `HandleQuote`, `HandleNewUser` | the functions of those names |
| `outbox[p]`, `inbox[p]` | what is on its way over the socket, in either direction |
| `Open`, `Close` | a page connects, loaded again or not: `NewServer` is the constructor of `Server`, which replaces the exchange; `onClose` |
| `ServeNewUser`, `ServeOrder`, `ExchangeStep`, `SendResponses` | `handleNewUser`; `handleOrder` up to `placeOrder`, the steps of `placeOrder`, and the loops that send |
| `Copies(p, response)` | how often the session of the page is in the session list of the response's user |
| `ServeOrderThrows` | `handleOrder` when `Long.parseLong` of the quantity throws, before anything is placed or sent |
| `PageOrders`, `PageOrdersOffline`, `PageOrdersNothing` | `sendOrder`, over a connection that is open or closed, and without a price |
| `Receive`, `Quote` | `messageHandler`, a quote on its way |
| `OpenBot`, `BotOrders`, `BotCancels` | an algo of a user that was started by hand, with the requests of the `Algo` wrapper and their handlers; it orders any security, traded or not, under IDs of its own, and cancels under any ID, also the orders of others |

The quantity of an order is text until the server parses it. The page's field for
it is empty at first and `sendOrder` looks at the price only, so whether it
parses is a choice of `PageOrders`; the bot's wrapper sends an integer.

`joined`, `since` and `takenAway` remember when a page registered and which of
its orders the server could not parse, when the books were last replaced, and
which orders another user's cancel took out of them; no action reads them. Cancels come from bots only: the page
exchanged the templates of its rows for current and past orders, so its cancel
button is in rows of orders that are over.

### `Market`: feeds, starts, connections

| Model | Code |
|---|---|
| `exchange`, `books[e]` | `Server.exchange`, and the keys of `orderbooks` of each exchange there was |
| `sessions`, `opened` | `Server.sessions`; `Changes` is what the iterator of a `HashMap` compares |
| `start[h]` | how far a handler of "start" is |
| `dataFeed`, `feeds` | `Server.dataFeed`, and every `DataFeed`, with its place in `run` and its iterators |
| `BeginStart`, `AddSecurity`, `MakeFeed`, `StartFeed` | `handleAdmin`, one use of a static field a step |
| `Stop` | `dataFeed.end()` |
| `Connect`, `OnClose` | constructor and `onOpen`; `onClose` |
| `Run`, `NextSecurity`, `SendQuote`, `WakeUp` | `run`: the flag is reset, a security, a session, the end of a round with its sleep |
| `Dies`, `GiveUpQuote` | `ConcurrentModificationException` outside and inside of the `try` |

Here handlers of different sessions interleave with each other and with the
feeds. `whole` remembers that the handler that made a feed found one exchange
all along.

### `Uploads`

| Model | Code |
|---|---|
| `reading` | the `FileReader`s of the page that have not called `onload` |
| `outbox` | messages on their way to the server |
| `uploadedFile`, `isOpen`, `uploadFileSuccess` | `filestream` and the flag of the connection's `Server` object |
| `files[u]` | the file of upload `u`: what was appended to it, as pieces |
| `AddAlgorithm`, `OnLoad`, `ReadFails` | `addAlgorithm`, `reader.onload`, a file that cannot be read |
| `Start`, `Write`, `End` and `...Fails` | the three commands of `handleUploadFile`, and the same with an `IOException` |
| `HandlerThrows` | `filestream` is null |

`overlapped` and `failed` remember which uploads overlapped, and that an access
failed.

### Operators named `Bad...`

Each stands before an operator it is a plausible mistake of: a lost test, a
wrong end of a map, a wrong order of two assignments. No specification uses
them. Putting one in the place of its original must make the property it was
written for fail, which shows that the property says something about the code.
`PROJECT.json` pairs them.

### Proof modules

`OrderBookProofs`, `ExchangeProofs`, `TradingProofs` (which extends
`ExchangeProofs`), `PageTableProofs` (which extends `TradingProofs`),
`ServerProofs`, `MarketProofs` and `UploadsProofs`, see [below](#the-proofs), and `DataFacts`, the lemmas about
sequences, numbers and sums they share.

## The runs

| Run | Bounds | Shows |
|---|---|---|
| `order_book` (`MCOrderBook.cfg`) | 4 orders, prices 1, 2, sizes -1, 1, 2 | all properties of the book, that it implements `PriceTimeBook` (`KeepsPriority`), that calls return |
| `exchange` (`MCExchange.cfg`) | 2 users (symmetric), 1 security, 3 orders, unique IDs, two starts | ledger, index, messages and books agree |
| `exchange_restart` (`MCExchangeRestart.cfg`) | 2 securities, 2 users and a session without one, 2 orders, sizes 0 to 2, two starts | the index with books replaced under resting orders; who makes a call throw |
| `exchange_collisions` (`MCExchangeCollisions.cfg`) | 2 users, 3 orders at one price, IDs 1 and 2 from each page's own counter | what holds even when calls throw halfway |
| `server` (`MCServer.cfg`) | 2 users (symmetric), 3 sessions, 2 processes, 2 algo IDs | who is registered where, who gets messages, which processes can still be found |
| `server_stop` (`MCServerStop.cfg`) | 1 user, 3 sessions, 2 processes, 1 algo ID | a stop ends its algo (liveness, so without symmetry) |
| `trading` (`MCTrading.cfg`) | a page of one user, a bot of each of two, 3 orders, 3 sessions, one start, a table of one past order | what the page shows against what the exchange has |
| `market` (`MCMarket.cfg`) | 2 securities, 2 starts, 2 connections | feeds go on, stop and quote, whatever connects, closes and starts between their steps |
| `uploads` (`MCUploads.cfg`) | 3 uploads | what an answer means when uploads overlap and files fail |
| `exchange_emptied`, `server_reboot`, `trading_reconnect` | as small as shows it | claims of comments that do [not hold](#where-code-and-comments-disagree) |

What the properties of the book say:

- `Uncrossed`: no bid level at or above an ask level, at any point of the loop.
- `QueuesMatchOrders`: a listed order is an open limit order, listed where a
  cancel would look for it.
- `InArrivalOrder`: lists keep arrival order whatever is taken out of them.
- `FillsAddUp`: size = filled by trades + what is left, for every order.
- `RemainingIsTrue`: the last trade of a resting order reports what is left of
  it, although the report is read after the whole call.
- `KeepsPriority`: the refinement of `PriceTimeBook`.
- `HandleOrderReturns`: the loop ends, on emptied levels too.

And of the exchange:

- `Conserved`: money and shares sum to zero after every step, also after an
  exception in the middle of a settlement.
- `IndexCoversBook`, `IndexHasNoFilledOrder`: with unique IDs the index leads to
  every resting order, and holds no filled one.
- `ThrowsForStrangersOnly`: with unique IDs only a session without a user makes
  `placeOrder` throw.
- `LastMessageIsTrue`: a client that believes the last message about an order
  agrees with the book.
- `BuyersPaySellers`, `ConfirmationsTellWhatIsPaid`: four places decide who pays
  whom; they agree. Note the sign: the money of a confirmation is what its user
  paid, while the page adds it to the money it shows.
- `LeavesForAReason`: an order leaves a book by being filled, by a successful
  cancel of its ID, or by a restart.
- `CallEnds`: the call ends, with all its turns and exceptions.

Of sessions and algos:

- `ResponsesReachTheirUser`: name map, session lists and open sessions are three
  structures; messages reach exactly the open sessions registered for the user.
- `StatusReachesPagesOnce`: a status message of an algo reaches each page once.
- `TwiceOnlyTheFirst`: all other messages too, except that the first session of
  a new user is listed twice.
- `LostOnlyIfReplaced`: a process nobody can stop any more was replaced by a run
  under its ID; nothing else loses one.
- `StopEndsTheAlgo`: a stop of a registered algo ends the process it was asked
  for, whatever happens while the handler sleeps.

Of pages and trading. All speak of a page that is registered and has nothing on
its way (`Quiet`), since messages need time:

- `TableTellsWhatRests`: an order of the user that the page was there to hear of
  is live in its table exactly when it rests or another user's cancel took it out
  of its book, with the quantity that is left, whoever of the user placed or
  cancelled it, and although the page deletes orders when its table of past
  orders is full. That exception is the code's: `cancelOrder` looks an order up
  by its ID and asks nobody whose it is, and `handleCancel` tells the user who
  cancelled. The page of the owner goes on showing the order, and nothing ever
  corrects it.
- `FilledOncePerListing`: the page counts fills once for each time its session
  is listed, which is twice for the first session of a new user. So `filled` of
  an order may be twice its size.
- `MoneyMirrorsLedger`: by the same factor, the money it shows moves against the
  ledger: what the server subtracts the page adds.
- `OrdersAreAnswered`: no order the page sent in its session stays `Pending`,
  also when the books were replaced before it was read, unless its quantity did
  not parse: the handler throws then, and no answer is ever sent.

`broken` and colliding IDs are excepted where a comment in the module says so: a
page that got no quote throws in `handleOrder`, and with a collision
`placeOrder` throws. The first two also except users with a second window
(`OnlyWindow`). Its counter starts at 1 like that of the first, and an ID is used
up by an order that was refused, too. When the second window's order 1 was
refused, because a connection had emptied the books, and then the first window
places its own order 1, `sendOrder` replaces the entry the first window had made
for the refused order, but its row stays in the table of past orders. The next
order that fills the table deletes by that row, and takes an order that rests out
of the page. The same happens with one window whose user has a bot counting the
same IDs, when a restart of the books lies between the two orders; so IDs must be
distinct over all orders, and not only over those in the books of now. An entry
also goes on counting what was filled of the older order. And a bot's own order
may have been refused (it was of a security without a book), so that the ID it
used up is nobody's: `OwnIDs` excepts a page that has counted up to the first ID
of its user's bot. With the IDs of a real bot, a million and more, that is an
order no page comes to.

Of feeds:

- `WholeFeedsKeepQuoting`: a feed whose handler of "start" found one exchange
  all along never dies and has all securities, whatever other handlers do.
- `LatestFeedIsStarted`: when the handlers are over, `stop` reaches a feed that
  was started, although a handler may start the feed of another.
- `StopEndsTheFeed`: a feed that was past its first step when stopped ends. A
  stop before that step is lost, as `run` resets the flag.
- `OpenSessionsAreQuoted`: a session that stays open gets a quote of every
  security from a whole feed, although others that come and go make it miss
  some.

Of uploads:

- `SuccessMeansWholeFile`: the file finished by an answer "success" is the
  contents of one upload between header and footer, and stays so.
- `AnswerIsTrueWhenAlone`: for an upload that overlapped with no other, the
  answer is "success" exactly when its file has its contents.
- `UploadsAreAnswered`: it is answered, if no access failed.

**Bounds.** Two prices make an order better, equal or worse than another; a
level can be emptied by a cancel and met by a later order on the same side, on
the other side and beside a level with orders. Four orders are two resting
orders of a level, an incoming order that takes both, and one that comes after.
Sizes 1 and 2 make an order larger, equal or smaller than what it meets, and -1
is a size nobody validates. In the exchange, three orders settle two trades in
one call, which is where a removed ID hurts the next trade; two IDs with three
orders collide in every way (with an order that rests, that is filled, that is
one's own). `MaxStarts` 2 replaces books once. Three sessions are two pages of
one user and an algo, or a page of each user and an algo; two processes run
under different IDs (where `removeUser` throws) or one after the other under the
same. In `trading`, three sessions are a page, its reconnect and a bot, or a
page and both bots. Three orders let the page's order trade twice, with bots of
its own user and of the other or twice with the other's, or once before either
bot's cancel takes it away; bots sell, and what they have resting is what the
page's orders meet. The page sends one order (ID 1), the bot of its user one (4)
and the other bot counts from 2 to 4, so IDs collide when the page was loaded
again, or when the other bot had an order refused and comes to the first bot's.
A bot cancels, or orders what is not traded, when the page has no message
waiting (`MaxInbox` 0), which leaves all orders of page and bot against each
other but keeps inboxes short; a symbol is on its way at most once, as later
quotes change nothing modelled. `market` has two of all that can meet: handlers
of "start", feeds, sessions, securities. Three uploads are two that overlap and
one after or before them. Each bound is a constant of its module.

**Deadlock.** The bounds on orders, sessions and uploads make every behaviour
end, so `CHECK_DEADLOCK` is off. That a call which has begun goes on is
`HandleOrderReturns` and `CallEnds`.

**Fairness.** Weak fairness of the steps of the call that runs: a Java thread
that has entered `handleOrder` or `placeOrder` goes on, as nothing in it waits.
In `Server`, weak fairness says that a sleep of three seconds ends. In `Market`
the thread of each feed goes on, handlers and connections need not. In `Uploads`
the browser ends reading each file, well or not, and the server reads what was
sent. `Trading` has no fairness: that orders are answered is stated of the
moments when nothing is on its way. No fairness is assumed of clients or of algo
processes: an algo that is told to stop may ignore it.

## The proofs

Proved for every value of the constants, finite or infinite where the modules'
assumptions allow:

| Theorem | Says |
|---|---|
| `OrderBookProofs` `TypeCorrect` | `TypeOK` |
| `NeverCrossed` | `Uncrossed` |
| `BookKept` | `QueuesMatchOrders` |
| `ArrivalOrderKept` | `InArrivalOrder` |
| `ReportsAreTrue` | `RemainingIsTrue` |
| `QuantitiesAddUp` | `FillsAddUp` |
| `ImplementsPriceTimePriority` | `KeepsPriority`: `OrderBook` implements `PriceTimeBook` |
| `ExchangeProofs` `TypeCorrect` | `TypeOK`, for unique and colliding IDs |
| `NothingIsLost` | `Conserved`, for unique and colliding IDs |
| `OrdersLeaveForAReason` | `LeavesForAReason`, for unique and colliding IDs |
| `IndexLeadsToBook` | `IndexCoversBook`, for unique IDs |
| `IndexIsClean` | `IndexHasNoFilledOrder`, for unique IDs |
| `NoThrowForUsers` | `ThrowsForStrangersOnly`, for unique IDs |
| `BuyersPay` | `BuyersPaySellers`, for unique IDs |
| `ConfirmationsAreTrue` | `ConfirmationsTellWhatIsPaid`, for unique IDs |
| `LastMessageHolds` | `LastMessageIsTrue`, for unique IDs |
| `TradingProofs` `TradingTypes` | `TradingTypeOK` |
| `PagesAreAnswered` | `OrdersAreAnswered` |
| `PagesMirrorLedger` | `MoneyMirrorsLedger` |
| `TradingConserves` | `Conserved`, of the calls that pages and bots make |
| `TradingIndex` | `IndexCoversBook`, of these calls, while no two orders came under one ID |
| `PageTableProofs` `TableIsTrue` | `TableTellsWhatRests` |
| `FillsAreCounted` | `FilledOncePerListing` |
| `ServerProofs` `TypeCorrect` | `TypeOK` |
| `OnlyRunLoses` | `LostOnlyIfReplaced` |
| `ResponsesArrive` | `ResponsesReachTheirUser` |
| `StatusArrivesOnce` | `StatusReachesPagesOnce` |
| `NoneElseTwice` | `TwiceOnlyTheFirst` |
| `MarketProofs` `TypeCorrect` | `TypeOK` |
| `LatestIsStarted` | `LatestFeedIsStarted` |
| `WholeFeedsGoOn` | `WholeFeedsKeepQuoting` |
| `UploadsProofs` `TypeCorrect` | `TypeOK` |
| `SuccessIsWhole` | `SuccessMeansWholeFile` |
| `AloneIsTold` | `AnswerIsTrueWhenAlone` |

The only assumptions are those the modules declare about their constants (prices
and quantities are integers, bounds are natural numbers, the list of securities
has no duplicates, the users are finitely many, as the keys of a map are, who
has a page or a bot is one who may place orders, a bot's first ID is not 0, a page
has no more orders than there are IDs), and for six theorems `OwnCounters = FALSE`: order IDs are
unique. Without it they are false; `exchange_emptied` shows where that begins.

*The order book.* `Uncrossed` alone is not inductive: an order is inserted when
the loop is over, and that this leaves the book uncrossed needs the loop's exit
condition to speak of all levels of the other side. It also needs the lists to
hold only orders of their own side and price, or a level would not say what the
orders in it accept. `IInv` therefore adds `QueuesMatchOrders` and
`InArrivalOrder`, and `TakerIsNewest`: the order in hand is the one that came
last, so appending it to a list keeps arrival order. `InvStep` proves that every
action keeps `IInv`, one step per action and under it one per conjunct that the
action disturbs. For `ReportsAreTrue` the makers of trades came before the order
in hand, and what is not listed is never traded with again. `FillsAddUp` is a
sum over all trades there were, so the step that adds one needs that its taker
is the order in hand and its maker an earlier one (`CountInv`).

*Sums.* `SumFunction` folds over a finite set in an order nobody knows.
`DataFacts` shows that a running total exists along any numbering of the set,
that it ends at the same number for every numbering (`AnyOrder`), and so what
happens to the sum when an amount moves from one entry to another or an entry
is added. Induction is stated over a set of numbers (`AllNumbers`), which the
provers can be given, instead of over a formula, which they cannot.

*The refinement.* The abstract `resting` is `Resting`, the set of the listed
orders. `HeadOfBestIsFirst` is the heart: the head of the list at the best level
precedes every other candidate, by `InArrivalOrder` within a level and by the
best price between levels. So `ExhaustEntry` and `PartlyFillEntry` are `Match`;
`Rest` and `Return` are `Finish`, since the exit condition leaves no candidate
(`NoMatchNoCandidate`); `Cancel` is `Withdraw`; `DropEmptyLevel` changes nothing
that is visible.

*The exchange.* That no two orders were placed under one ID is a premise of the
invariant, not a part of it: it holds up to the first collision (`InvHolds`),
and with `OwnCounters = FALSE` there is none (`IDsStayUnique`). Until then the
index leads from an ID to the order placed under it, or nowhere (`Indexed`).
`IInv` says of what rests, of the call that runs and of its
pending trades that their orders are in the index and belong to users
(`RestingIsGood`, `CallIsGood`, `TradesAreGood`). The point of `TradesAreGood`
is that pending trades have different makers: the loop goes on only past makers
that are filled, and those no longer rest. So taking a filled maker out of the
index cannot hurt a later trade, `SettleThrows` cannot happen, and
`FilledIsPending` (what is filled and indexed is about to leave) ends with the
call. `BuyersPay` and `ConfirmationsAreTrue` follow: only `Settle` takes the
actions they speak of (`OnlySettle`), and the sides of a trade are opposite
(`SidesOfTrade`). For `LastMessageIsTrue`, pending trades tell what
is left of their makers and the last of them what is left of the incoming order
(`TradesTellRest`), and so do the messages already written
(`MessagesTellRest`).

`Conserved` and `LeavesForAReason` do not need unique IDs. Whatever the index
has under an ID was placed under it (`IndexHasOwnIDs`), so a cancel that
succeeds is one of the right ID; and whoever `updateUsersTrade` takes for the
buyer, it gives to one what it takes from the other, as both are users
(`OfUsers`).

*Sessions and algos.* `LostOnlyIfReplaced` is inductive together with `TypeOK`:
each form of ending a process, also one that ends in an exception, takes it out
of the map and off the living together (`EndLosesNone`); only "run" overwrites
an entry (`RunLosesOne`). That `remove` from a list keeps the list's type rests
on a smallest index, which comes from the well-foundedness of the numbers.
The three properties of the lists are inductive only together (`RegInv`): the
name map, the list of all sessions of a user and that of his pages tell the
same (`WellListed`), registered sessions are open (`RegisteredAreOpen`), what is
registered has sent its `new_user` or `new_algo`, so that no session registers
twice. When the session that is listed twice closes, one entry stays; it is the
closed session, which `handleOrder` skips, so `Receivers` counts open sessions.

*Feeds.* While the feed in `dataFeed` is not started, there is a handler that is
about to start whatever is in `dataFeed` (`SomeoneStartsIt`). For
`WholeFeedsGoOn`, `AddedSoFar` says that a handler which found one exchange so
far has put the securities it passed into its books; a whole feed then iterates
over all securities, to which nothing can be added (`WholeFeeds`).

*Uploads.* A page sends contents and "end" together (`Paired`), and a file is
begun once (`Fresh`). So, while nothing failed, the file of the open stream is
the header alone unless the next message is an "end", and then header and one
contents (`StreamIsGood`); a file that was called a success is not open any
more. For an upload that overlaps with no other, its three messages are next to
each other (`InTurn`), so its contents and its "end" find the stream its "start"
opened, and the flag its "start" set (`FindsItsFile`), whatever failed for
others.

*Trading.* A step of a handler is, for the exchange, a start, a turn of the call
that runs, a call that comes in, or nothing (`HandlersMove`), so what
`ExchangeProofs` shows of each carries over to calls made by pages and bots,
although there IDs come from several counters and books are replaced by
connections. `TInv` holds the types together with what they need: no two pages
share a session, a registered session is listed for its user and for no other, a
page sends `new_user` first and the server registers it when it reads that
(`SessionsAreGood`). An order's entry exists when an answer about it arrives
only because of the order of the messages.

For `OrdersAreAnswered`, which speaks of moments when nothing is on its way, the
invariant follows the answer (`PendingAreAnswered`): of an order that is pending
in its page, the request is unread, or the call runs and will make a message
about it, or the message is among the responses, or in the inbox. Each step
hands it on: `EndPlaceOrder` returns at least one message about the order in
hand, because one that found nobody to trade with is answered by the resting
message and each of its trades made a confirmation for it
(`TakerIsTold`); `SendResponses` sends it to the page as its session
is listed at least once; a message that arrives ends the waiting whatever the
table of past orders does. A restart of the books loses orders but no answers.

For `MoneyMirrorsLedger` the invariant (`MoneyAddsUp`) is an equation that holds
at every moment, not only when nothing is on its way: what a page will show once
it has handled its inbox (`Shows`), and once for each time its session is listed
what the responses that are not sent tell its user (`SumsTo`), is the money it
started with and as many times what the ledger moved. A settlement adds to the
responses what it takes from the ledger (`SettleTells`, `LedgerMoves`), sending
moves that into the inbox once per listing (`ShownSent`), handling a message
changes what is shown but not what will be (`ShownMoves`), and how often a
session is listed stays while it is registered (`RegisteredStays`).

*What a page shows of its orders.* `TableTellsWhatRests` and
`FilledOncePerListing` speak of moments when nothing is on its way; the
invariant (`TableInv`) speaks of every moment. `IsPending(p, w)` says that `w` is
all that will come to page `p`: its inbox, the responses that are not sent, and
the two confirmations of each trade the running call has yet to settle, each as
often as the session of the page is listed. `InStep` relates the entry of an
order, `w`, and the order, in four parts:

- what the entry counts as filled and what the messages in `w` add is what was
  filled of the order, times the listings (`Fills`);
- the last message in `w` about the order, or the entry if there is none, tells
  whether it rests and what is left (`IsTold`), once anything is to be told;
- it is told to be over once: behind a message that ends it come copies of that
  message only, and refusals come before everything else (`ClosesOnce`);
- of an order that has just come in nothing but refusals under its ID was ever
  told (`Unfilled`).

The second copy of a last message may arrive when the order is gone from the
page: the first copy moved it to the table of past orders, and the table may be
full. That is why the end of an order is in the invariant (`Lost`), and why the
rows of that table have to be: each belongs to an entry that is done and has that
row, or to an ID of which the page keeps no count any more (`Sound`). A page may
send an order under an ID it sent before it was loaded again; of the older order
it keeps no count (`Tracked`). If the server accepts the new one, two orders came
under one ID, and the premise is gone; if it refuses or cannot parse it, the
older order is not one of now, as the page has come back since and its coming
emptied the books. With the IDs of its user's bot a page has nothing to do while
it is below them (`OwnIDs`), so every order of now that it was there to hear of
has an ID the page used up or that bot did (`HeardAreKnown`); the bot's are
counted too, because a refusal uses up an ID that no order came under (`SeenIDs`,
`BotsCount`).

Of an order that another user's cancel took away the page is told nothing more.
So for its user it goes on resting (`RestsForItsUser`), which is what the page
shows, and the invariant keeps it in that stage for good: it is in no book and
in no call (`TakenIsGone`), and nothing brings an order back into a book
(`NothingComesBack`). `CancelledInStep` has the three cases of a cancel: it hits
an order of the user who cancels, one of another user, or none.

Per message the heart is `HandledInStep`: taking the first message off `w` and
letting `messageHandler` change the entry keeps the two in step, by what
`updateOrdersTable` does for a row (`TableUpdated`). Adding to `w` is `OthersTold`
(about another order), `ReportTold` (a fill, a rest) and `EndTold` (a cancel).
Of a call, `Match` adds two messages to the end of `w` and takes as much from
both orders (`MatchedInStep`); `Settle` moves two from the pending trades to the
responses and `SendResponses` from there to the inbox, which leaves `w` as it is
(`SettledInStep`, `SentInStep`); `FinishMatching` and `EndPlaceOrder` change
where the incoming order is and, if it found nobody, what is said of it
(`FinishedInStep`, `EndedInStep`). `InStepGoesOn` joins the steps. A page that
misses an order message because it has no quote (`broken`) is excepted, as it is
in the properties.

*Only model-checked.* Liveness (`HandleOrderReturns`, `CallEnds`,
`StopEndsTheAlgo`, `StopEndsTheFeed`, `OpenSessionsAreQuoted`,
`UploadsAreAnswered`), which is out of the prover's reach. Every invariant and
every action property that a passing run checks has a theorem.

## Where code and comments disagree

Three claims of comments have a run that shows a behaviour against them:

- **`removeOrder` removes orders that are not empty** (`RemovedOnlyIfEmpty`,
  `exchange_emptied`; `Exchange.java:124`, `136`). It removes by ID, and the ID
  may have been given to another order since.
- **A user who comes back keeps algos** (`RebootKillsAlgos`, `server_reboot`;
  `Server.java:255`). With two or more running, `AlgoProcessManager.removeUser`
  throws after the first, and the new page is not even registered.
- **A closed connection wipes the orders of all** (`ReconnectKeepsOrders`,
  `trading_reconnect`; `Server.java:160`). `onClose` keeps user data on purpose,
  "accounting for potential of accidental close", but the connection that
  follows makes a `Server` object, whose constructor replaces the exchange
  (`Server.java:44`).

Noticed while reading and modelling, without a run:

- `OrderBook.java:90` says "orders at price exist", and a cancel may have
  emptied the level. `bestBid` and `bestAsk` go on naming its price, with
  quantity 0, until an order trades through it.
- Confirmations carry the wrong side (`Exchange.java:206`): 1 for the buyer.
- A market order that finds nobody to trade with is answered by the resting
  message (`Exchange.java:133`), although `OrderBook.java:78` says "no resting
  orders for market order"; one that is partly filled stays "Partial Filled" in
  the page.
- Stopping an algo that has not registered throws on the null session ID
  (`Server.java:394`), and stopping one may kill another that was started under
  its ID during the sleep (`Server.java:397`). After a stop the handler builds a
  status message and sends the request instead (`Server.java:405`).
- A second page of a user does not "kill first websocket" (`Server.java:259`).
- `sendToAll` removes a map entry from a map of sessions by the entry, not the
  key (`Server.java:66`).
- A feed goes on quoting the exchange it was made with after a connection has
  replaced it, and one made by an earlier "start" cannot be stopped any more.
- The page adds the money that the server subtracts, and adds to a position for
  sales too (`receiving.js:6`, `31`).
- When the table of past orders is full, `last()` takes the table's body: the
  order of its first row, the newest, is deleted, and the body is removed
  (`ui_updating.js:40`). The rows of current and past orders come from each
  other's templates (`ui_updating.js:46`, `48`).
- An answer to an upload names no file, and when uploads overlap, contents go to
  the file of the last "start", of which the page hears nothing.
- `cancelOrder` finds an order by its ID alone (`Exchange.java:226`), so a cancel
  of another user takes it out of the book, and `handleCancel` sends the result
  to the user who cancelled (`Server.java:246`). No comment says otherwise;
  `takenAway` in `Trading` is the set of such orders.
- The field for the quantity starts empty (`index.html:238`) and `sendOrder`
  tests the price only (`sending.js:22`). `handleOrder` throws at such a quantity
  (`Server.java:221`-`225`) and answers nothing, so the page shows the order as
  pending for good; `joined[p].dropped` in `Trading` has their IDs.
- A bot keeps its orders under the text of their ID and looks a canceled one up
  under the number (`algo-footer.py`).

## Not modelled

- **Two handlers of orders at the same time**, and a feed that reads a book
  while it changes. Nothing is locked, so they interleave inside of `TreeMap`,
  `LinkedList` and the additions to `qty` and `money`, for which Java's library
  promises nothing: a model would choose outcomes without a source for them.
  `Exchange` and `Trading` run such calls one after the other. `Market`
  interleaves what is left, where the promise of an iterator to throw is enough.
- **64-bit arithmetic**: integers are unbounded. A product wraps at sizes and
  prices near 2^63 only.
- **What a quote says** (`getQuote`, `getLevelQty`): it reads, and no state
  depends on it.
- **Message format and parsing**: messages are records; the two parsers share no
  state with anything. Of what a user types, whether the server can parse the quantity is
  modelled; the page rounds the price itself. Names and symbols with the format's
  characters are not.
- **`User.orders`** is written and never read. **`simpleMarketMaker`** is
  reached from the manual test only. `addOrderBooks` and `removeUser` of a name
  have no caller, `nextTick` is empty.
- **Chat** passes through. **Charts, prices, value and pnl** of the page, its
  layout and its message pane change nothing that is sent.
- **The bot algo** is a strategy without a protocol of its own, and does not run
  as it is; what a bot could send is in `Trading`.
- **A send that fails** while handlers of orders send; in `Market` sessions come
  and go while a quote is sent.
- Unused or foreign code: the older exchange (`exchange_simple.java`,
  `security.java`), the Qt attempt, the manual tests, `build/`, jQuery and
  Highcharts. Nearly all JavaScript lines of the repository are Highcharts; the
  program's own are some 700, in `web/js`, so that lines modelled are few beside
  lines in the repository although its Java core is covered.
