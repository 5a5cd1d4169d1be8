------------------------------- MODULE Market -------------------------------
(***************************************************************************)
(* Who quotes which books to whom: the quote feeds (DataFeed.java), the    *)
(* "start" and "stop" of the administrator and the connections of          *)
(* Server.java, with everything they share: the static exchange and        *)
(* dataFeed, the map of order books of each exchange, the map of sessions. *)
(*                                                                         *)
(* Handlers of different sessions and the feeds are threads; a step here   *)
(* is one use of a shared variable or map.  A HashMap that gets or loses   *)
(* a key while a thread iterates over it makes the iterator throw when it  *)
(* is next used.                                                           *)
(*                                                                         *)
(* Exchanges and feeds are numbered as they are made, sessions as they     *)
(* open.  What a quote says is left out.                                   *)
(***************************************************************************)
EXTENDS Integers, FiniteSets, SequencesExt

CONSTANTS
  Securities,     \* the symbols that "start" adds, in its order
  MaxStarts,      \* bound on "start" commands
  MaxSessions     \* bound on the sessions of a behaviour

ASSUME SecuritiesAssumption  == /\ Securities \in Seq(ToSet(Securities))
                                /\ IsInjective(Securities)
                                /\ Len(Securities) > 0
ASSUME MaxStartsAssumption   == MaxStarts \in Nat
ASSUME MaxSessionsAssumption == MaxSessions \in Nat

VARIABLES
  exchange,   \* Server.exchange: the newest
  books,      \* books[e]: the keys of orderbooks of exchange e
  sessions,   \* the keys of Server.sessions
  opened,     \* number of sessions opened so far
  start,      \* start[h]: how far the h-th handler of "start" is
  dataFeed,   \* Server.dataFeed, NoFeed for null
  feeds,      \* the DataFeed objects
  quoted      \* the pairs of an open session and a symbol it got a quote of

vars == <<exchange, books, sessions, opened, start, dataFeed, feeds, quoted>>

NoFeed   == 0
Handlers == 1..MaxStarts
Symbols  == ToSet(Securities)

-----------------------------------------------------------------------------
(* The handler of "start" *)

\* The places of the handler: it has not begun, adds the i-th security, makes
\* the feed, starts it, is over.
NotBegun  == 0
MakesFeed == Len(Securities) + 1
Starts    == Len(Securities) + 2
Over      == Len(Securities) + 3

\* A feed of exchange e.  whole tells that e was the exchange when its handler
\* added the first security, too.
NewFeed(e, whole) ==
  [exchange |-> e, whole |-> whole, at |-> "new", stopFlag |-> FALSE,
   keys |-> {}, symbols |-> {}, symbol |-> << >>, changes |-> 0, to |-> {}]

Init ==
  /\ exchange = 1
  /\ books = << {} >>
  /\ sessions = {}
  /\ opened = 0
  /\ start = [h \in Handlers |-> [at |-> NotBegun, began |-> 1]]
  /\ dataFeed = NoFeed
  /\ feeds = << >>
  /\ quoted = {}

Goto(h, place) == start' = [start EXCEPT ![h].at = place]

Finish(h) == start' = [start EXCEPT ![h] = [at |-> Over, began |-> 1]]

\* handleAdmin, "start", is called; handlers are numbered as they begin.
BeginStart(h) ==
  /\ start[h].at = NotBegun
  /\ \A earlier \in 1..(h - 1) : start[earlier].at # NotBegun
  /\ sessions # {}
  /\ start' = [start EXCEPT ![h] = [at |-> 1, began |-> exchange]]
  /\ UNCHANGED <<exchange, books, sessions, opened, dataFeed, feeds, quoted>>

\* every book map is made anew
BadWith(keys, symbol) == {symbol}

With(keys, symbol) == keys \cup {symbol}

\* exchange.addSecurity, on whatever the exchange is now
AddSecurity(h) ==
  /\ start[h].at \in 1..Len(Securities)
  /\ books' = [books EXCEPT ![exchange] = With(@, Securities[start[h].at])]
  /\ Goto(h, start[h].at + 1)
  /\ UNCHANGED <<exchange, sessions, opened, dataFeed, feeds, quoted>>

\* dataFeed = new DataFeed(this, exchange)
MakeFeed(h) ==
  /\ start[h].at = MakesFeed
  /\ feeds' = Append(feeds, NewFeed(exchange, start[h].began = exchange))
  /\ dataFeed' = Len(feeds) + 1
  /\ Goto(h, Starts)
  /\ UNCHANGED <<exchange, books, sessions, opened, quoted>>

\* a feed that is there is kept
BadToStart == 1

\* The feed the handler finds in dataFeed.
ToStart == dataFeed

\* dataFeed.start(): it throws if that feed was started before.
StartFeed(h) ==
  /\ start[h].at = Starts
  /\ feeds' = IF feeds[ToStart].at = "new"
              THEN [feeds EXCEPT ![ToStart].at = "started"] ELSE feeds
  /\ Finish(h)
  /\ UNCHANGED <<exchange, books, sessions, opened, dataFeed, quoted>>

\* "stop"
Stop ==
  /\ sessions # {}
  /\ dataFeed # NoFeed
  /\ feeds' = [feeds EXCEPT ![dataFeed].stopFlag = TRUE]
  /\ UNCHANGED <<exchange, books, sessions, opened, start, dataFeed, quoted>>

-----------------------------------------------------------------------------
(* Connections *)

\* the new exchange comes without a map of books
BadConnect ==
  /\ opened < MaxSessions
  /\ exchange' = exchange + 1
  /\ opened' = opened + 1
  /\ sessions' = sessions \cup {opened + 1}
  /\ UNCHANGED <<books, start, dataFeed, feeds, quoted>>

\* The constructor of Server replaces the exchange, and onOpen enters the
\* session.
Connect ==
  /\ opened < MaxSessions
  /\ exchange' = exchange + 1
  /\ books' = Append(books, {})
  /\ opened' = opened + 1
  /\ sessions' = sessions \cup {opened + 1}
  /\ UNCHANGED <<start, dataFeed, feeds, quoted>>

\* onClose; the quotes of a closed session are forgotten.
OnClose(s) ==
  /\ s \in sessions
  /\ sessions' = sessions \ {s}
  /\ quoted' = {q \in quoted : q[1] # s}
  /\ UNCHANGED <<exchange, books, opened, start, dataFeed, feeds>>

\* How often sessions was changed.
Changes == 2 * opened - Cardinality(sessions)

-----------------------------------------------------------------------------
(* The run method of feed f *)

\* Fields of feed f change.
Becomes(f, feed) ==
  /\ feeds' = [feeds EXCEPT ![f] = feed]
  /\ UNCHANGED <<exchange, books, sessions, opened, start, dataFeed>>

\* the iterator over the securities is made
AtRound(feed) ==
  [feed EXCEPT !.at = "quoting", !.keys = books[feed.exchange],
               !.symbols = books[feed.exchange]]

\* run begins: a stop before this is forgotten.
Run(f) ==
  /\ feeds[f].at = "started"
  /\ Becomes(f, [AtRound(feeds[f]) EXCEPT !.stopFlag = FALSE])
  /\ UNCHANGED quoted

\* The iterator gives the next security, in no known order, and sendToAll
\* begins to iterate over the sessions.
NextSecurity(f) ==
  /\ feeds[f].at = "quoting"
  /\ feeds[f].keys = books[feeds[f].exchange]
  /\ \E symbol \in feeds[f].symbols :
       Becomes(f, [feeds[f] EXCEPT !.at = "sending", !.symbol = <<symbol>>,
                                   !.symbols = @ \ {symbol},
                                   !.changes = Changes, !.to = sessions])
  /\ UNCHANGED quoted

\* The map of books has a new key: the iterator throws, outside of the try, and
\* the thread dies.
Dies(f) ==
  /\ feeds[f].at = "quoting"
  /\ feeds[f].symbols # {}
  /\ feeds[f].keys # books[feeds[f].exchange]
  /\ Becomes(f, [feeds[f] EXCEPT !.at = "dead", !.keys = {}, !.symbols = {}])
  /\ UNCHANGED quoted

Sent(feed) == [feed EXCEPT !.at = "quoting", !.symbol = << >>, !.changes = 0, !.to = {}]

\* sendToAll sends to the next session, in no known order.
SendQuote(f) ==
  /\ feeds[f].at = "sending"
  /\ feeds[f].changes = Changes
  /\ \E s \in feeds[f].to :
       /\ quoted' = quoted \cup {<<s, Head(feeds[f].symbol)>>}
       /\ Becomes(f, IF feeds[f].to = {s} THEN Sent(feeds[f])
                     ELSE [feeds[f] EXCEPT !.to = @ \ {s}])

\* the exception is not caught inside the loop over the securities
BadGivenUp(feed) == [Sent(feed) EXCEPT !.at = "dead"]

GivenUp(feed) == Sent(feed)

\* A session came or went: the iterator throws inside of the try, and the
\* sessions that are left do not get this quote.
GiveUpQuote(f) ==
  /\ feeds[f].at = "sending"
  /\ feeds[f].to = {} \/ feeds[f].changes # Changes
  /\ Becomes(f, GivenUp(feeds[f]))
  /\ UNCHANGED quoted

\* the flag is looked at before the thread sleeps only
BadNextRound(feed) == AtRound([feed EXCEPT !.stopFlag = FALSE])

NextRound(feed) ==
  IF feed.stopFlag THEN [feed EXCEPT !.at = "ended", !.keys = {}] ELSE AtRound(feed)

\* All securities are quoted, and the thread has slept: it ends if it was
\* stopped, or begins another round.
WakeUp(f) ==
  /\ feeds[f].at = "quoting"
  /\ feeds[f].symbols = {}
  /\ Becomes(f, NextRound(feeds[f]))
  /\ UNCHANGED quoted

FeedStep(f) ==
  /\ f \in 1..Len(feeds)
  /\ \/ Run(f) \/ NextSecurity(f) \/ Dies(f) \/ SendQuote(f) \/ GiveUpQuote(f)
     \/ WakeUp(f)

-----------------------------------------------------------------------------
StartStep(h) == AddSecurity(h) \/ MakeFeed(h) \/ StartFeed(h)

Next ==
  \/ Connect
  \/ \E s \in sessions : OnClose(s)
  \/ \E h \in Handlers : BeginStart(h) \/ StartStep(h)
  \/ Stop
  \/ \E f \in 1..Len(feeds) : FeedStep(f)

\* The thread of a feed goes on.
Fairness == \A f \in Handlers : WF_vars(FeedStep(f))

Spec == Init /\ [][Next]_vars /\ Fairness

-----------------------------------------------------------------------------
(* Properties *)

Places == {"new", "started", "quoting", "sending", "ended", "dead"}

Feeds == [exchange : 1..exchange, whole : BOOLEAN, at : Places,
          stopFlag : BOOLEAN, keys : SUBSET Symbols, symbols : SUBSET Symbols,
          symbol : Seq(Symbols), changes : Int, to : SUBSET (1..opened)]

\* Every variable holds what its field can hold.
TypeOK ==
  /\ exchange = Len(books)
  /\ books \in Seq(SUBSET Symbols)
  /\ opened \in Nat
  /\ sessions \subseteq 1..opened
  /\ start \in [Handlers -> [at : NotBegun..Over, began : 1..exchange]]
  /\ dataFeed \in 0..Len(feeds)
  /\ feeds \in Seq(Feeds)
  /\ \A f \in 1..Len(feeds) : feeds[f].at = "sending" => feeds[f].symbol # << >>
  /\ quoted \subseteq (1..opened) \X Symbols

\* A feed whose handler found one exchange all along never dies and has every
\* security to quote, however connections, closes and other starts fall
\* between its steps.  (A connection during "start" leaves a feed that knows
\* some securities only, and that the next start may kill.)
WholeFeedsKeepQuoting ==
  \A f \in 1..Len(feeds) : feeds[f].whole =>
    /\ feeds[f].at # "dead"
    /\ books[feeds[f].exchange] = Symbols

\* When all handlers of "start" are over, the feed "stop" would reach was
\* started, although a handler may find another handler's feed.
LatestFeedIsStarted ==
  (\A h \in Handlers : start[h].at \in {NotBegun, Over}) /\ dataFeed # NoFeed
    => feeds[dataFeed].at # "new"

\* A feed that is there is in a state of which P holds.
IsFeed(f, P(_)) == f \in 1..Len(feeds) /\ P(feeds[f])

\* A feed that runs when "stop" reaches it ends, whatever its thread was
\* doing.  (A stop before the first step of run is forgotten.)
StopEndsTheFeed ==
  \A f \in Handlers :
    IsFeed(f, LAMBDA feed : feed.stopFlag /\ feed.at \notin {"new", "started"})
      ~> IsFeed(f, LAMBDA feed : feed.at \in {"ended", "dead"})

\* A session that stays open gets a quote of every security once a feed goes
\* on, although sessions that come and go make it miss quotes.
OpenSessionsAreQuoted ==
  \A s \in 1..MaxSessions :
    s \in sessions /\ (\E f \in Handlers :
                        IsFeed(f, LAMBDA feed : feed.whole /\ feed.at = "started"))
      ~> \/ s \notin sessions
         \/ \A symbol \in Symbols : <<s, symbol>> \in quoted
         \/ \E f \in Handlers : IsFeed(f, LAMBDA feed : feed.stopFlag)
=============================================================================
