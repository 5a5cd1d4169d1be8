---------------------------- MODULE MarketProofs ----------------------------
(***************************************************************************)
(* Proofs about the quote feeds, for any securities, number of starts and  *)
(* number of sessions.                                                     *)
(***************************************************************************)
EXTENDS Market, DataFacts

\* The securities "start" adds are the symbols.
LEMMA SymbolsAreSecurities ==
  /\ Len(Securities) \in Nat \ {0}
  /\ \A i \in 1..Len(Securities) : Securities[i] \in Symbols
  /\ \A symbol \in Symbols : \E i \in 1..Len(Securities) : symbol = Securities[i]
PROOF
<1>1. Len(Securities) \in Nat \ {0} /\ DOMAIN Securities = 1..Len(Securities)
  BY SecuritiesAssumption
<1> QED
  BY <1>1 DEF Symbols, ToSet

\* The number of changes of the map of sessions is a number.
LEMMA ChangesIsInt ==
  ASSUME opened \in Nat, sessions \subseteq 1..opened
  PROVE  Changes \in Int
PROOF
<1>1. IsFiniteSet(1..opened)
  BY FS_Interval
<1>2. IsFiniteSet(sessions)
  BY <1>1, FS_Subset
<1>3. Cardinality(sessions) \in Nat
  BY <1>2, FS_CardinalityType
<1> QED
  BY <1>3 DEF Changes

\* Feeds stay feeds when exchanges and sessions are added.
LEMMA MoreFeeds ==
  ASSUME exchange \in Nat, exchange' \in Nat, exchange <= exchange',
         opened \in Nat, opened' \in Nat, opened <= opened'
  PROVE  Feeds \subseteq Feeds'
PROOF
<1>1. 1..exchange \subseteq 1..exchange' /\ 1..opened \subseteq 1..opened'
  OBVIOUS
<1> QED
  BY <1>1 DEF Feeds, Places, Symbols

\* What is known of a feed that is there.
LEMMA FeedFacts ==
  ASSUME TypeOK, NEW f \in 1..Len(feeds)
  PROVE  /\ feeds[f] \in Feeds
         /\ feeds[f].exchange \in 1..Len(books)
         /\ books[feeds[f].exchange] \subseteq Symbols
PROOF
<1>1. feeds[f] \in Feeds
  BY DEF TypeOK
<1>2. feeds[f].exchange \in 1..Len(books)
  BY <1>1 DEF Feeds, TypeOK
<1> QED
  BY <1>1, <1>2 DEF TypeOK

\* A feed that changes to another feed keeps the types.
LEMMA BecomesType ==
  ASSUME TypeOK, NEW f \in 1..Len(feeds), NEW feed \in Feeds, Becomes(f, feed),
         feed.at = "sending" => feed.symbol # << >>,
         quoted' \subseteq (1..opened) \X Symbols
  PROVE  /\ TypeOK'
         /\ Len(feeds') = Len(feeds)
         /\ feeds'[f] = feed
         /\ \A g \in 1..Len(feeds) : g # f => feeds'[g] = feeds[g]
PROOF
<1>1. /\ feeds' = [feeds EXCEPT ![f] = feed]
      /\ UNCHANGED <<exchange, books, sessions, opened, start, dataFeed>>
  BY DEF Becomes
<1>2. Feeds' = Feeds
  BY <1>1 DEF Feeds
<1>3. /\ feeds' \in Seq(Feeds)
      /\ Len(feeds') = Len(feeds)
      /\ feeds'[f] = feed
      /\ \A g \in 1..Len(feeds) : g # f => feeds'[g] = feeds[g]
  BY <1>1, ExceptSeq DEF TypeOK
<1>4. \A g \in 1..Len(feeds') : feeds'[g].at = "sending" => feeds'[g].symbol # << >>
  BY <1>3 DEF TypeOK
<1> HIDE DEF Feeds
<1> QED
  BY <1>1, <1>2, <1>3, <1>4 DEF TypeOK

\* What the steps of a feed make of it is a feed.
LEMMA FeedType ==
  ASSUME TypeOK, NEW f, FeedStep(f)
  PROVE  /\ f \in 1..Len(feeds)
         /\ feeds'[f] \in Feeds
         /\ Becomes(f, feeds'[f])
         /\ feeds'[f].at = "sending" => feeds'[f].symbol # << >>
         /\ quoted' \subseteq (1..opened) \X Symbols
         /\ feeds'[f].at # "new"
         /\ feeds'[f].exchange = feeds[f].exchange
         /\ feeds'[f].whole = feeds[f].whole
         /\ feeds'[f].at \in {"quoting", "sending"} =>
              \/ feeds'[f].keys = books[feeds[f].exchange]
              \/ feeds[f].at \in {"quoting", "sending"} /\ feeds'[f].keys = feeds[f].keys
         /\ feeds'[f].at = "dead" =>
              feeds[f].at = "quoting" /\ feeds[f].keys # books[feeds[f].exchange]
PROOF
<1>1. f \in 1..Len(feeds)
  BY DEF FeedStep
<1>2. ASSUME NEW feed, Becomes(f, feed)
      PROVE  feeds'[f] = feed
  BY <1>1, <1>2 DEF Becomes, TypeOK
<1>3. /\ feeds[f] \in Feeds
      /\ books[feeds[f].exchange] \subseteq Symbols
      /\ feeds[f].at = "sending" => feeds[f].symbol # << >>
  BY <1>1, FeedFacts DEF TypeOK
<1>4. /\ quoted \subseteq (1..opened) \X Symbols
      /\ opened \in Nat /\ sessions \subseteq 1..opened
  BY DEF TypeOK
<1>5. CASE Run(f)
  <2> DEFINE feed == [AtRound(feeds[f]) EXCEPT !.stopFlag = FALSE]
  <2>1. Becomes(f, feed) /\ feeds'[f] = feed /\ quoted' = quoted
    BY <1>2, <1>5 DEF Run
  <2>2. /\ feed \in Feeds /\ feed.at = "quoting"
        /\ feed.exchange = feeds[f].exchange /\ feed.whole = feeds[f].whole
        /\ feed.keys = books[feeds[f].exchange]
    BY <1>3 DEF AtRound, Feeds, Places
  <2> HIDE DEF feed
  <2> QED
    BY <1>1, <1>4, <2>1, <2>2
<1>6. CASE NextSecurity(f)
  <2>1. PICK symbol \in feeds[f].symbols :
          Becomes(f, [feeds[f] EXCEPT !.at = "sending", !.symbol = <<symbol>>,
                                      !.symbols = @ \ {symbol},
                                      !.changes = Changes, !.to = sessions])
    BY <1>6 DEF NextSecurity
  <2> DEFINE feed == [feeds[f] EXCEPT !.at = "sending", !.symbol = <<symbol>>,
                                      !.symbols = @ \ {symbol},
                                      !.changes = Changes, !.to = sessions]
  <2>2. Becomes(f, feed) /\ feeds'[f] = feed /\ quoted' = quoted
    BY <1>2, <1>6, <2>1 DEF NextSecurity
  <2>3. symbol \in Symbols /\ Changes \in Int
    BY <1>3, <1>4, ChangesIsInt DEF Feeds
  <2>4. <<symbol>> \in Seq(Symbols) /\ <<symbol>> # << >>
    BY <2>3
  <2>5. /\ feed \in Feeds /\ feed.at = "sending" /\ feed.symbol = <<symbol>>
        /\ feed.exchange = feeds[f].exchange /\ feed.whole = feeds[f].whole
        /\ feed.keys = feeds[f].keys
    BY <1>3, <1>4, <2>3, <2>4 DEF Feeds, Places
  <2>6. feeds[f].at = "quoting"
    BY <1>6 DEF NextSecurity
  <2> HIDE DEF feed
  <2> QED
    BY <1>1, <1>4, <2>2, <2>4, <2>5, <2>6
<1>7. CASE Dies(f)
  <2> DEFINE feed == [feeds[f] EXCEPT !.at = "dead", !.keys = {}, !.symbols = {}]
  <2>1. Becomes(f, feed) /\ feeds'[f] = feed /\ quoted' = quoted
    BY <1>2, <1>7 DEF Dies
  <2>2. /\ feed \in Feeds /\ feed.at = "dead"
        /\ feed.exchange = feeds[f].exchange /\ feed.whole = feeds[f].whole
    BY <1>3 DEF Feeds, Places
  <2>3. feeds[f].at = "quoting" /\ feeds[f].keys # books[feeds[f].exchange]
    BY <1>7 DEF Dies
  <2> HIDE DEF feed
  <2> QED
    BY <1>1, <1>4, <2>1, <2>2, <2>3
<1>8. Sent(feeds[f]) \in Feeds
  <2> DEFINE none == << >>
  <2>1. none \in Seq(Symbols) /\ {} \in SUBSET (1..opened) /\ 0 \in Int
    OBVIOUS
  <2>2. Sent(feeds[f]) = [feeds[f] EXCEPT !.at = "quoting", !.symbol = none,
                                          !.changes = 0, !.to = {}]
    BY DEF Sent
  <2> HIDE DEF none
  <2> QED
    BY <1>3, <2>1, <2>2 DEF Feeds, Places
<1>9. /\ Sent(feeds[f]).at = "quoting"
      /\ Sent(feeds[f]).exchange = feeds[f].exchange
      /\ Sent(feeds[f]).whole = feeds[f].whole
      /\ Sent(feeds[f]).keys = feeds[f].keys
  BY <1>3 DEF Sent, Feeds
<1>10. CASE SendQuote(f)
  <2>1. PICK s \in feeds[f].to :
          /\ quoted' = quoted \cup {<<s, Head(feeds[f].symbol)>>}
          /\ Becomes(f, IF feeds[f].to = {s} THEN Sent(feeds[f])
                        ELSE [feeds[f] EXCEPT !.to = @ \ {s}])
    BY <1>10 DEF SendQuote
  <2>2. feeds[f].at = "sending"
    BY <1>10 DEF SendQuote
  <2>3. s \in 1..opened /\ Head(feeds[f].symbol) \in Symbols
    BY <1>3, <2>2, HeadTailProperties DEF Feeds
  <2>4. quoted' \subseteq (1..opened) \X Symbols
    BY <1>4, <2>1, <2>3
  <2>5. CASE feeds[f].to = {s}
    BY <1>1, <1>2, <1>8, <1>9, <2>1, <2>2, <2>4, <2>5
  <2>6. CASE feeds[f].to # {s}
    <3> DEFINE feed == [feeds[f] EXCEPT !.to = @ \ {s}]
    <3>1. Becomes(f, feed) /\ feeds'[f] = feed
      BY <1>2, <2>1, <2>6
    <3>2. /\ feed \in Feeds /\ feed.at = "sending" /\ feed.symbol = feeds[f].symbol
          /\ feed.exchange = feeds[f].exchange /\ feed.whole = feeds[f].whole
          /\ feed.keys = feeds[f].keys
      BY <1>3, <2>2 DEF Feeds
    <3> HIDE DEF feed
    <3> QED
      BY <1>1, <1>3, <2>2, <2>4, <3>1, <3>2
  <2> QED
    BY <2>5, <2>6
<1>11. CASE GiveUpQuote(f)
  <2>1. /\ Becomes(f, Sent(feeds[f])) /\ quoted' = quoted
        /\ feeds[f].at = "sending"
    BY <1>11 DEF GiveUpQuote, GivenUp
  <2> QED
    BY <1>1, <1>2, <1>4, <1>8, <1>9, <2>1
<1>12. CASE WakeUp(f)
  <2> DEFINE feed == NextRound(feeds[f])
  <2>1. Becomes(f, feed) /\ feeds'[f] = feed /\ quoted' = quoted
    BY <1>2, <1>12 DEF WakeUp
  <2>2. /\ feed \in Feeds
        /\ \/ feed.at = "ended"
           \/ feed.at = "quoting" /\ feed.keys = books[feeds[f].exchange]
        /\ feed.exchange = feeds[f].exchange /\ feed.whole = feeds[f].whole
    BY <1>3 DEF NextRound, AtRound, Feeds, Places
  <2> HIDE DEF feed
  <2> QED
    BY <1>1, <1>4, <2>1, <2>2
<1> QED
  BY <1>5, <1>6, <1>7, <1>10, <1>11, <1>12 DEF FeedStep

\* The place of a handler stays one when it goes on.
LEMMA PlacesOfStart ==
  ASSUME TypeOK, NEW h \in Handlers, NEW place \in NotBegun..Over, Goto(h, place)
  PROVE  /\ start' \in [Handlers -> [at : NotBegun..Over, began : 1..exchange]]
         /\ start'[h].at = place /\ start'[h].began = start[h].began
         /\ \A g \in Handlers : g # h => start'[g] = start[g]
PROOF
  BY DEF TypeOK, Goto

\* The places of a handler are numbers in this order.
LEMMA PlacesAreNumbers ==
  /\ Len(Securities) \in Nat
  /\ NotBegun = 0 /\ MakesFeed = Len(Securities) + 1
  /\ Starts = Len(Securities) + 2 /\ Over = Len(Securities) + 3
PROOF
  BY SymbolsAreSecurities DEF NotBegun, MakesFeed, Starts, Over

\* The exchange grows, the feeds are what they were, and the types hold.
LEMMA ConnectType ==
  ASSUME TypeOK, Connect
  PROVE  /\ TypeOK'
         /\ exchange' = exchange + 1
         /\ \A e \in 1..exchange : books'[e] = books[e]
PROOF
<1>1. /\ exchange \in Nat /\ exchange = Len(books)
      /\ exchange' = exchange + 1 /\ opened' = opened + 1
      /\ books' = Append(books, {}) /\ sessions' = sessions \cup {opened + 1}
      /\ UNCHANGED <<start, dataFeed, feeds, quoted>>
  BY DEF Connect, TypeOK
<1>2. /\ books' \in Seq(SUBSET Symbols) /\ Len(books') = Len(books) + 1
      /\ \A e \in 1..exchange : books'[e] = books[e]
  BY <1>1, AppendProperties DEF TypeOK
<1>3. feeds' \in Seq(Feeds')
  <2>1. Feeds \subseteq Feeds'
    BY <1>1, MoreFeeds DEF TypeOK
  <2> HIDE DEF Feeds
  <2> QED
    BY <1>1, <2>1, LargerSet DEF TypeOK
<1>4. \A f \in 1..Len(feeds') : feeds'[f].at = "sending" => feeds'[f].symbol # << >>
  BY <1>1 DEF TypeOK
<1>5. start' \in [Handlers -> [at : NotBegun..Over, began : 1..exchange']]
  BY <1>1 DEF TypeOK
<1>6. sessions' \subseteq 1..opened' /\ quoted' \subseteq (1..opened') \X Symbols
  BY <1>1 DEF TypeOK
<1> HIDE DEF Feeds
<1> QED
  BY <1>1, <1>2, <1>3, <1>4, <1>5, <1>6 DEF TypeOK

\* Each step keeps the types.
LEMMA TypeStep ==
  ASSUME TypeOK, [Next]_vars
  PROVE  TypeOK'
PROOF
<1>0. /\ exchange \in Nat /\ exchange = Len(books)
      /\ books \in Seq(SUBSET Symbols)
      /\ opened \in Nat
      /\ feeds \in Seq(Feeds) /\ Len(feeds) \in Nat
      /\ \A f \in 1..Len(feeds) : feeds[f].at = "sending" => feeds[f].symbol # << >>
      /\ start \in [Handlers -> [at : NotBegun..Over, began : 1..exchange]]
      /\ quoted \subseteq (1..opened) \X Symbols
      /\ \A h \in Handlers : start[h].began \in 1..exchange
  BY DEF TypeOK
<1>1. CASE Connect
  BY <1>1, ConnectType
<1>2. ASSUME NEW s \in sessions, OnClose(s)
      PROVE  TypeOK'
  <2>1. UNCHANGED <<exchange, books, opened, start, dataFeed, feeds>>
    BY <1>2 DEF OnClose
  <2>2. Feeds' = Feeds
    BY <2>1 DEF Feeds
  <2>3. sessions' \subseteq 1..opened /\ quoted' \subseteq (1..opened) \X Symbols
    BY <1>0, <1>2 DEF OnClose, TypeOK
  <2> HIDE DEF Feeds
  <2> QED
    BY <2>1, <2>2, <2>3 DEF TypeOK
<1>3. ASSUME UNCHANGED <<exchange, books, sessions, opened, dataFeed, feeds, quoted>>,
             start' \in [Handlers -> [at : NotBegun..Over, began : 1..exchange]]
      PROVE  TypeOK'
  <2>1. Feeds' = Feeds
    BY <1>3 DEF Feeds
  <2> HIDE DEF Feeds
  <2> QED
    BY <1>3, <2>1 DEF TypeOK
<1>4. ASSUME NEW h \in Handlers, BeginStart(h)
      PROVE  TypeOK'
  <2>1. 1 \in NotBegun..Over /\ exchange \in 1..exchange
    BY <1>0, PlacesAreNumbers, SymbolsAreSecurities
       DEF TypeOK
  <2>2. start' \in [Handlers -> [at : NotBegun..Over, began : 1..exchange]]
    BY <1>0, <1>4, <2>1 DEF BeginStart
  <2> QED
    BY <1>3, <1>4, <2>2 DEF BeginStart
<1>5. ASSUME NEW h \in Handlers, AddSecurity(h)
      PROVE  TypeOK'
  <2> DEFINE i == start[h].at
  <2>1. /\ i \in 1..Len(Securities)
        /\ books' = [books EXCEPT ![exchange] = @ \cup {Securities[i]}]
        /\ UNCHANGED <<exchange, sessions, opened, dataFeed, feeds, quoted>>
        /\ Goto(h, i + 1)
    BY <1>5 DEF AddSecurity, With
  <2> HIDE DEF i
  <2>2. i + 1 \in NotBegun..Over
    BY <2>1, PlacesAreNumbers
  <2>3. start' \in [Handlers -> [at : NotBegun..Over, began : 1..exchange]]
    BY <2>1, <2>2, PlacesOfStart
  <2>4. Securities[i] \in Symbols
    BY <2>1, SymbolsAreSecurities
  <2>5. exchange \in 1..Len(books)
    BY <1>0, SymbolsAreSecurities, <1>5 DEF TypeOK
  <2>6. books' \in Seq(SUBSET Symbols) /\ Len(books') = Len(books)
    <3>1. books[exchange] \cup {Securities[i]} \in SUBSET Symbols
      BY <1>0, <2>4, <2>5
    <3> QED
      BY <1>0, <2>1, <2>5, <3>1, ExceptSeq
  <2>7. Feeds' = Feeds
    BY <2>1 DEF Feeds
  <2> HIDE DEF Feeds
  <2> QED
    BY <2>1, <2>3, <2>6, <2>7 DEF TypeOK
<1>6. ASSUME NEW h \in Handlers, MakeFeed(h)
      PROVE  TypeOK'
  <2> DEFINE feed == NewFeed(exchange, start[h].began = exchange)
  <2>1. /\ feeds' = Append(feeds, feed)
        /\ dataFeed' = Len(feeds) + 1
        /\ Goto(h, Starts)
        /\ UNCHANGED <<exchange, books, sessions, opened, quoted>>
    BY <1>6 DEF MakeFeed
  <2>2. start' \in [Handlers -> [at : NotBegun..Over, began : 1..exchange]]
    <3>1. Starts \in NotBegun..Over
      BY PlacesAreNumbers
    <3> QED
      BY <2>1, <3>1, PlacesOfStart
  <2>3. feed \in Feeds /\ feed.at = "new"
    <3>1. exchange \in 1..exchange
      BY <1>0
    <3>2. (start[h].began = exchange) \in BOOLEAN
      OBVIOUS
    <3> QED
      BY <3>1, <3>2 DEF NewFeed, Feeds, Places
  <2>4. Feeds' = Feeds
    BY <2>1 DEF Feeds
  <2> HIDE DEF Feeds, feed
  <2>5. /\ feeds' \in Seq(Feeds) /\ Len(feeds') = Len(feeds) + 1
        /\ \A f \in 1..Len(feeds) : feeds'[f] = feeds[f]
        /\ feeds'[Len(feeds) + 1] = feed
    BY <1>0, <2>1, <2>3, AppendProperties
  <2>6. ASSUME NEW f \in 1..Len(feeds'), feeds'[f].at = "sending"
        PROVE  feeds'[f].symbol # << >>
    <3>1. f \in 1..Len(feeds)
      BY <1>0, <2>3, <2>5, <2>6
    <3> QED
      BY <1>0, <2>5, <2>6, <3>1
  <2> QED
    BY <1>0, <2>1, <2>2, <2>4, <2>5, <2>6 DEF TypeOK
<1>7. ASSUME NEW f \in 1..Len(feeds), NEW feed \in Feeds, feed.at # "sending",
             feeds' = [feeds EXCEPT ![f] = feed],
             UNCHANGED <<exchange, books, sessions, opened, dataFeed, quoted>>,
             start' \in [Handlers -> [at : NotBegun..Over, began : 1..exchange]]
      PROVE  TypeOK'
  <2>1. Feeds' = Feeds
    BY <1>7 DEF Feeds
  <2> HIDE DEF Feeds
  <2>2. /\ feeds' \in Seq(Feeds) /\ Len(feeds') = Len(feeds)
        /\ feeds'[f] = feed
        /\ \A g \in 1..Len(feeds) : g # f => feeds'[g] = feeds[g]
    BY <1>0, <1>7, ExceptSeq
  <2>3. \A g \in 1..Len(feeds') : feeds'[g].at = "sending" => feeds'[g].symbol # << >>
    BY <1>0, <1>7, <2>2
  <2> QED
    BY <1>7, <2>1, <2>2, <2>3 DEF TypeOK
<1>8. ASSUME NEW h \in Handlers, StartFeed(h)
      PROVE  TypeOK'
  <2>1. start' \in [Handlers -> [at : NotBegun..Over, began : 1..exchange]]
    <3>1. Over \in NotBegun..Over /\ 1 \in 1..exchange
      BY <1>0, PlacesAreNumbers
    <3> QED
      BY <1>0, <1>8, <3>1 DEF StartFeed, Finish
  <2>2. UNCHANGED <<exchange, books, sessions, opened, dataFeed, quoted>>
    BY <1>8 DEF StartFeed
  <2>3. CASE feeds' = feeds
    BY <1>3, <2>1, <2>2, <2>3
  <2>4. CASE feeds' = [feeds EXCEPT ![dataFeed].at = "started"]
    <3>1. CASE dataFeed \in 1..Len(feeds)
      <4> DEFINE feed == [feeds[dataFeed] EXCEPT !.at = "started"]
      <4>1. feeds' = [feeds EXCEPT ![dataFeed] = feed]
        BY <2>4
      <4>2. feed \in Feeds /\ feed.at = "started"
        BY <3>1, FeedFacts DEF Feeds, Places
      <4> HIDE DEF feed, Feeds
      <4> QED
        BY <1>7, <2>1, <2>2, <3>1, <4>1, <4>2
    <3>2. CASE dataFeed \notin 1..Len(feeds)
      <4>1. feeds \in [1..Len(feeds) -> Feeds]
        BY <1>0
      <4>2. feeds' = feeds
        BY <2>4, <3>2, <4>1
      <4> QED
        BY <2>3, <4>2
    <3> QED
      BY <3>1, <3>2
  <2> QED
    BY <1>8, <2>3, <2>4 DEF StartFeed, ToStart
<1>9. CASE Stop
  <2> DEFINE feed == [feeds[dataFeed] EXCEPT !.stopFlag = TRUE]
  <2>1. /\ dataFeed \in 1..Len(feeds)
        /\ feeds' = [feeds EXCEPT ![dataFeed] = feed]
        /\ UNCHANGED <<exchange, books, sessions, opened, start, dataFeed, quoted>>
    BY <1>9 DEF Stop, NoFeed, TypeOK
  <2>2. /\ feed \in Feeds /\ feed.at = feeds[dataFeed].at
        /\ feed.symbol = feeds[dataFeed].symbol
    BY <2>1, FeedFacts DEF Feeds
  <2> HIDE DEF feed
  <2> QED
    BY <1>0, <2>1, <2>2, BecomesType DEF Becomes
<1>10. ASSUME NEW f, FeedStep(f)
       PROVE  TypeOK'
  BY <1>10, FeedType, BecomesType
<1>11. CASE UNCHANGED vars
  <2>1. /\ UNCHANGED <<exchange, books, sessions, opened, dataFeed, feeds, quoted>>
        /\ UNCHANGED start
    BY <1>11 DEF vars
  <2> QED
    BY <1>0, <1>3, <2>1
<1> QED
  BY <1>1, <1>2, <1>4, <1>5, <1>6, <1>8, <1>9, <1>10, <1>11 DEF Next, StartStep

\* Types of the initial state.
LEMMA InitType ==
  ASSUME Init
  PROVE  TypeOK
PROOF
<1>1. /\ books \in Seq(SUBSET Symbols) /\ Len(books) = 1
      /\ feeds = << >> /\ Len(feeds) = 0
  BY DEF Init
<1>2. feeds \in Seq(Feeds)
  BY <1>1
<1>3. start \in [Handlers -> [at : NotBegun..Over, began : 1..exchange]]
  BY PlacesAreNumbers DEF Init
<1>4. /\ exchange = 1 /\ opened = 0 /\ sessions = {} /\ quoted = {}
      /\ dataFeed \in 0..Len(feeds)
  BY <1>1 DEF Init, NoFeed
<1> HIDE DEF Feeds
<1> QED
  BY <1>1, <1>2, <1>3, <1>4 DEF TypeOK

\* Every variable keeps its type: the type invariant holds throughout.
THEOREM TypeCorrect == Spec => []TypeOK
PROOF
<1>1. Init => TypeOK
  BY InitType
<1>2. TypeOK /\ [Next]_vars => TypeOK'
  BY TypeStep
<1> QED
  BY <1>1, <1>2, PTL DEF Spec

-----------------------------------------------------------------------------
(* The feed "stop" reaches *)

\* A handler that is about to start a feed finds one, and while the feed it
\* finds is not started there is such a handler.
SomeoneStartsIt ==
  /\ \A h \in Handlers : start[h].at = Starts => dataFeed # NoFeed
  /\ dataFeed # NoFeed /\ feeds[dataFeed].at = "new"
       => \E h \in Handlers : start[h].at = Starts

\* Each step keeps that.
LEMMA StarterStep ==
  ASSUME TypeOK, SomeoneStartsIt, [Next]_vars
  PROVE  SomeoneStartsIt'
PROOF
<1>0. /\ dataFeed \in 0..Len(feeds) /\ Len(feeds) \in Nat
      /\ feeds \in Seq(Feeds)
      /\ start \in [Handlers -> [at : NotBegun..Over, began : 1..exchange]]
  BY DEF TypeOK
<1>1. CASE UNCHANGED <<start, dataFeed, feeds>>
  BY <1>1 DEF SomeoneStartsIt
<1>2. ASSUME NEW h \in Handlers, UNCHANGED <<dataFeed, feeds>>,
             start[h].at # Starts, start'[h].at # Starts,
             \A g \in Handlers : g # h => start'[g] = start[g]
      PROVE  SomeoneStartsIt'
  <2>1. \A g \in Handlers : start'[g].at = Starts <=> start[g].at = Starts
    BY <1>2
  <2> QED
    BY <1>2, <2>1 DEF SomeoneStartsIt
<1>3. ASSUME NEW h \in Handlers, BeginStart(h)
      PROVE  SomeoneStartsIt'
  <2>1. /\ start[h].at = NotBegun /\ start'[h].at = 1
        /\ \A g \in Handlers : g # h => start'[g] = start[g]
        /\ UNCHANGED <<dataFeed, feeds>>
    BY <1>0, <1>3 DEF BeginStart
  <2>2. NotBegun # Starts /\ 1 # Starts
    BY PlacesAreNumbers
  <2> QED
    BY <1>2, <2>1, <2>2
<1>4. ASSUME NEW h \in Handlers, AddSecurity(h)
      PROVE  SomeoneStartsIt'
  <2>1. start[h].at \in 1..Len(Securities)
    BY <1>4 DEF AddSecurity
  <2>2. start[h].at + 1 \in NotBegun..Over /\ start[h].at # Starts /\ start[h].at + 1 # Starts
    BY <2>1, PlacesAreNumbers
  <2>3. /\ start'[h].at = start[h].at + 1
        /\ \A g \in Handlers : g # h => start'[g] = start[g]
    BY <1>4, <2>2, PlacesOfStart DEF AddSecurity
  <2>4. UNCHANGED <<dataFeed, feeds>>
    BY <1>4 DEF AddSecurity
  <2> QED
    BY <1>2, <2>2, <2>3, <2>4
<1>5. ASSUME NEW h \in Handlers, MakeFeed(h)
      PROVE  SomeoneStartsIt'
  <2>1. Starts \in NotBegun..Over
    BY PlacesAreNumbers
  <2>2. start'[h].at = Starts
    BY <1>5, <2>1, PlacesOfStart DEF MakeFeed
  <2>3. dataFeed' # NoFeed
    BY <1>0, <1>5 DEF MakeFeed, NoFeed
  <2> QED
    BY <2>2, <2>3 DEF SomeoneStartsIt
<1>6. ASSUME NEW h \in Handlers, StartFeed(h)
      PROVE  SomeoneStartsIt'
  <2>1. dataFeed \in 1..Len(feeds) /\ dataFeed' = dataFeed
    BY <1>0, <1>6 DEF StartFeed, SomeoneStartsIt, NoFeed
  <2>2. feeds'[dataFeed].at # "new"
    BY <1>0, <1>6, <2>1, FeedFacts DEF StartFeed, ToStart, Feeds
  <2>3. dataFeed' # NoFeed
    BY <1>0, <2>1 DEF NoFeed
  <2> QED
    BY <2>1, <2>2, <2>3 DEF SomeoneStartsIt
<1>7. ASSUME NEW f \in 1..Len(feeds), NEW feed,
             feeds' = [feeds EXCEPT ![f] = feed],
             feed.at = "new" => feeds[f].at = "new",
             UNCHANGED <<start, dataFeed>>
      PROVE  SomeoneStartsIt'
  <2>1. dataFeed # NoFeed /\ feeds'[dataFeed].at = "new" => feeds[dataFeed].at = "new"
    BY <1>0, <1>7 DEF NoFeed
  <2> QED
    BY <1>7, <2>1 DEF SomeoneStartsIt
<1>8. CASE Stop
  <2>1. /\ dataFeed \in 1..Len(feeds)
        /\ feeds' = [feeds EXCEPT ![dataFeed] = [feeds[dataFeed] EXCEPT !.stopFlag = TRUE]]
        /\ UNCHANGED <<start, dataFeed>>
    BY <1>0, <1>8 DEF Stop, NoFeed
  <2>2. [feeds[dataFeed] EXCEPT !.stopFlag = TRUE].at = feeds[dataFeed].at
    BY <2>1, FeedFacts DEF Feeds
  <2> QED
    BY <1>7, <2>1, <2>2
<1>9. ASSUME NEW f, FeedStep(f)
      PROVE  SomeoneStartsIt'
  <2>1. /\ f \in 1..Len(feeds) /\ Becomes(f, feeds'[f]) /\ feeds'[f].at # "new"
    BY <1>9, FeedType
  <2> QED
    BY <1>7, <2>1 DEF Becomes
<1> QED
  BY <1>1, <1>3, <1>4, <1>5, <1>6, <1>8, <1>9
     DEF Next, StartStep, Connect, OnClose, vars

\* When the handlers of "start" are over, the feed that "stop" would reach was
\* started, for any number of handlers.
THEOREM LatestIsStarted == Spec => []LatestFeedIsStarted
PROOF
<1>1. Init => TypeOK /\ SomeoneStartsIt
  <2> SUFFICES ASSUME Init PROVE TypeOK /\ SomeoneStartsIt
    OBVIOUS
  <2>1. dataFeed = NoFeed /\ \A h \in Handlers : start[h].at = NotBegun
    BY DEF Init
  <2> QED
    BY <2>1, InitType, PlacesAreNumbers DEF SomeoneStartsIt
<1>2. TypeOK /\ SomeoneStartsIt /\ [Next]_vars => TypeOK' /\ SomeoneStartsIt'
  BY TypeStep, StarterStep
<1>3. SomeoneStartsIt => LatestFeedIsStarted
  BY PlacesAreNumbers DEF SomeoneStartsIt, LatestFeedIsStarted
<1> QED
  BY <1>1, <1>2, <1>3, PTL DEF Spec

-----------------------------------------------------------------------------
(* Feeds that know every security *)

\* While the exchange is the one it found first, the securities a handler has
\* passed have books.
AddedSoFar ==
  \A h \in Handlers :
    start[h].at \in 1..Starts /\ start[h].began = exchange =>
      \A i \in 1..Len(Securities) : i < start[h].at => Securities[i] \in books[exchange]

\* A whole feed has every security to quote, and iterates over all of them.
WholeFeeds ==
  \A f \in 1..Len(feeds) : feeds[f].whole =>
    /\ feeds[f].at # "dead"
    /\ books[feeds[f].exchange] = Symbols
    /\ feeds[f].at \in {"quoting", "sending"} => feeds[f].keys = Symbols

\* A step that changes neither books nor feeds nor the places of handlers, or
\* moves one handler to a place that has nothing to show, keeps both.
LEMMA SameBooks ==
  ASSUME TypeOK, AddedSoFar, WholeFeeds, UNCHANGED <<exchange, books, feeds>>,
         NEW h \in Handlers,
         start'[h].at \in 1..Starts => start'[h].at = 1,
         \A g \in Handlers : g # h => start'[g] = start[g]
  PROVE  AddedSoFar' /\ WholeFeeds'
PROOF
<1>1. WholeFeeds'
  BY DEF WholeFeeds
<1>2. ASSUME NEW g \in Handlers, start'[g].at \in 1..Starts, start'[g].began = exchange',
             NEW i \in 1..Len(Securities), i < start'[g].at
      PROVE  Securities[i] \in books'[exchange']
  <2>1. g # h
    BY <1>2, SymbolsAreSecurities
  <2> QED
    BY <1>2, <2>1 DEF AddedSoFar
<1> QED
  BY <1>1, <1>2 DEF AddedSoFar

\* Each step keeps both.
LEMMA WholeStep ==
  ASSUME TypeOK, AddedSoFar, WholeFeeds, [Next]_vars
  PROVE  AddedSoFar' /\ WholeFeeds'
PROOF
<1>0. /\ exchange \in 1..Len(books) \/ Len(books) = 0
      /\ exchange \in Nat /\ exchange = Len(books)
      /\ books \in Seq(SUBSET Symbols)
      /\ feeds \in Seq(Feeds) /\ Len(feeds) \in Nat
      /\ dataFeed \in 0..Len(feeds)
      /\ start \in [Handlers -> [at : NotBegun..Over, began : 1..exchange]]
      /\ \A h \in Handlers : start[h].began \in 1..exchange
  BY DEF TypeOK
<1>1. CASE Connect
  <2>1. /\ exchange' = exchange + 1 /\ UNCHANGED <<start, feeds>>
        /\ \A e \in 1..exchange : books'[e] = books[e]
    BY <1>1, ConnectType DEF Connect
  <2>2. \A h \in Handlers : start'[h].began # exchange'
    BY <1>0, <2>1
  <2>3. \A f \in 1..Len(feeds) : books'[feeds[f].exchange] = books[feeds[f].exchange]
    BY <1>0, <2>1, FeedFacts
  <2> QED
    BY <2>1, <2>2, <2>3 DEF AddedSoFar, WholeFeeds
<1>2. CASE UNCHANGED <<exchange, books, feeds, start>>
  BY <1>2 DEF AddedSoFar, WholeFeeds
<1>3. ASSUME NEW h \in Handlers, BeginStart(h)
      PROVE  AddedSoFar' /\ WholeFeeds'
  <2>1. /\ start'[h].at = 1 /\ UNCHANGED <<exchange, books, feeds>>
        /\ \A g \in Handlers : g # h => start'[g] = start[g]
    BY <1>0, <1>3 DEF BeginStart
  <2> QED
    BY <2>1, SameBooks
<1>4. ASSUME NEW h \in Handlers, AddSecurity(h)
      PROVE  AddedSoFar' /\ WholeFeeds'
  <2> DEFINE i == start[h].at
  <2>1. /\ i \in 1..Len(Securities)
        /\ books' = [books EXCEPT ![exchange] = @ \cup {Securities[i]}]
        /\ UNCHANGED <<exchange, feeds>>
        /\ Goto(h, i + 1)
    BY <1>4 DEF AddSecurity, With
  <2> HIDE DEF i
  <2>2. i + 1 \in NotBegun..Over /\ i = start[h].at
    BY <2>1, PlacesAreNumbers DEF i
  <2>3. /\ start'[h].at = i + 1 /\ start'[h].began = start[h].began
        /\ \A g \in Handlers : g # h => start'[g] = start[g]
    BY <2>1, <2>2, PlacesOfStart
  <2>4. /\ exchange \in 1..Len(books)
        /\ books'[exchange] = books[exchange] \cup {Securities[i]}
        /\ \A e \in 1..Len(books) : e # exchange => books'[e] = books[e]
        /\ Securities[i] \in Symbols
    BY <1>0, <2>1, SymbolsAreSecurities
  <2>5. ASSUME NEW g \in Handlers, start'[g].at \in 1..Starts,
               start'[g].began = exchange',
               NEW j \in 1..Len(Securities), j < start'[g].at
        PROVE  Securities[j] \in books'[exchange']
    <3>1. CASE g = h
      <4>1. start[h].at \in 1..Starts /\ start[h].began = exchange
        BY <2>1, <2>2, <2>3, <2>5, <3>1, PlacesAreNumbers
      <4>2. j < i \/ j = i
        BY <2>1, <2>3, <2>5, <3>1, SymbolsAreSecurities
      <4>3. j < i => Securities[j] \in books[exchange]
        BY <2>2, <4>1 DEF AddedSoFar
      <4> QED
        BY <2>1, <2>4, <4>2, <4>3
    <3>2. CASE g # h
      <4>1. Securities[j] \in books[exchange]
        BY <2>1, <2>3, <2>5, <3>2 DEF AddedSoFar
      <4> QED
        BY <2>1, <2>4, <4>1
    <3> QED
      BY <3>1, <3>2
  <2>6. ASSUME NEW f \in 1..Len(feeds'), feeds'[f].whole
        PROVE  /\ feeds'[f].at # "dead"
               /\ books'[feeds'[f].exchange] = Symbols
               /\ feeds'[f].at \in {"quoting", "sending"} => feeds'[f].keys = Symbols
    <3>1. /\ feeds[f].exchange \in 1..Len(books)
          /\ books[feeds[f].exchange] = Symbols
      BY <2>1, <2>6, FeedFacts DEF WholeFeeds
    <3>2. books'[feeds[f].exchange] = Symbols
      BY <2>4, <3>1
    <3> QED
      BY <2>1, <2>6, <3>2 DEF WholeFeeds
  <2> QED
    BY <2>5, <2>6 DEF AddedSoFar, WholeFeeds
<1>5. ASSUME NEW h \in Handlers, MakeFeed(h)
      PROVE  AddedSoFar' /\ WholeFeeds'
  <2> DEFINE feed == NewFeed(exchange, start[h].began = exchange)
  <2>1. /\ feeds' = Append(feeds, feed)
        /\ Goto(h, Starts) /\ start[h].at = MakesFeed
        /\ UNCHANGED <<exchange, books>>
    BY <1>5 DEF MakeFeed
  <2>2. /\ feed.exchange = exchange /\ feed.at = "new"
        /\ feed.whole => start[h].began = exchange
    BY DEF NewFeed
  <2> HIDE DEF feed
  <2>3. /\ Len(feeds') = Len(feeds) + 1
        /\ \A f \in 1..Len(feeds) : feeds'[f] = feeds[f]
        /\ feeds'[Len(feeds) + 1] = feed
    BY <1>0, <2>1, AppendProperties
  <2>4. /\ start'[h].at = Starts /\ start'[h].began = start[h].began
        /\ \A g \in Handlers : g # h => start'[g] = start[g]
    BY <2>1, PlacesOfStart, PlacesAreNumbers
  <2>5. ASSUME start[h].began = exchange
        PROVE  \A i \in 1..Len(Securities) : Securities[i] \in books[exchange]
    BY <2>1, <2>5, PlacesAreNumbers DEF AddedSoFar
  <2>6. AddedSoFar'
    BY <2>1, <2>4, <2>5 DEF AddedSoFar
  <2>7. ASSUME NEW f \in 1..Len(feeds'), feeds'[f].whole
        PROVE  /\ feeds'[f].at # "dead"
               /\ books'[feeds'[f].exchange] = Symbols
               /\ feeds'[f].at \in {"quoting", "sending"} => feeds'[f].keys = Symbols
    <3>1. CASE f \in 1..Len(feeds)
      BY <2>1, <2>3, <2>7, <3>1 DEF WholeFeeds
    <3>2. CASE f = Len(feeds) + 1
      <4>1. start[h].began = exchange
        BY <2>2, <2>3, <2>7, <3>2
      <4>2. Symbols \subseteq books[exchange]
        BY <2>5, <4>1, SymbolsAreSecurities
      <4>3. exchange \in 1..Len(books)
        BY <1>0
      <4>4. books[exchange] = Symbols
        <5>1. books[exchange] \in SUBSET Symbols
          BY <1>0, <4>3
        <5> QED
          BY <4>2, <5>1
      <4> QED
        BY <2>1, <2>2, <2>3, <3>2, <4>4
    <3> QED
      BY <1>0, <2>3, <3>1, <3>2
  <2> QED
    BY <2>6, <2>7 DEF WholeFeeds
<1>6. ASSUME NEW f \in 1..Len(feeds), NEW feed,
             feeds' = [feeds EXCEPT ![f] = feed],
             UNCHANGED <<exchange, books>>,
             feed.whole = feeds[f].whole, feed.exchange = feeds[f].exchange,
             feed.at = "dead" =>
                \/ feeds[f].at = "dead"
                \/ feeds[f].at = "quoting" /\ feeds[f].keys # books[feeds[f].exchange],
             feed.at \in {"quoting", "sending"} =>
                \/ feed.keys = books[feeds[f].exchange]
                \/ feeds[f].at \in {"quoting", "sending"} /\ feed.keys = feeds[f].keys
      PROVE  WholeFeeds'
  <2>1. /\ Len(feeds') = Len(feeds) /\ feeds'[f] = feed
        /\ \A g \in 1..Len(feeds) : g # f => feeds'[g] = feeds[g]
    BY <1>0, <1>6, ExceptSeq
  <2>2. ASSUME NEW g \in 1..Len(feeds'), feeds'[g].whole
        PROVE  /\ feeds'[g].at # "dead"
               /\ books'[feeds'[g].exchange] = Symbols
               /\ feeds'[g].at \in {"quoting", "sending"} => feeds'[g].keys = Symbols
    <3>1. CASE g = f
      BY <1>6, <2>1, <2>2, <3>1 DEF WholeFeeds
    <3>2. CASE g # f
      BY <1>6, <2>1, <2>2, <3>2 DEF WholeFeeds
    <3> QED
      BY <3>1, <3>2
  <2> QED
    BY <2>2 DEF WholeFeeds
<1>7. ASSUME NEW f, FeedStep(f)
      PROVE  AddedSoFar' /\ WholeFeeds'
  <2>1. UNCHANGED <<exchange, books, start>> /\ f \in 1..Len(feeds)
    BY <1>7, FeedType DEF Becomes
  <2>2. AddedSoFar'
    BY <2>1 DEF AddedSoFar
  <2>3. WholeFeeds'
    BY <1>6, <1>7, <2>1, FeedType DEF Becomes
  <2> QED
    BY <2>2, <2>3
<1>8. CASE Stop
  <2>1. /\ dataFeed \in 1..Len(feeds)
        /\ feeds' = [feeds EXCEPT ![dataFeed] = [feeds[dataFeed] EXCEPT !.stopFlag = TRUE]]
        /\ UNCHANGED <<exchange, books, start>>
    BY <1>0, <1>8 DEF Stop, NoFeed
  <2> DEFINE feed == [feeds[dataFeed] EXCEPT !.stopFlag = TRUE]
  <2>2. /\ feed.at = feeds[dataFeed].at /\ feed.keys = feeds[dataFeed].keys
        /\ feed.whole = feeds[dataFeed].whole /\ feed.exchange = feeds[dataFeed].exchange
    BY <2>1, FeedFacts DEF Feeds
  <2>3. AddedSoFar'
    BY <2>1 DEF AddedSoFar
  <2>4. feeds' = [feeds EXCEPT ![dataFeed] = feed]
    BY <2>1
  <2> HIDE DEF feed
  <2>5. /\ feed.at = "dead" => feeds[dataFeed].at = "dead"
        /\ feed.at \in {"quoting", "sending"} =>
             feeds[dataFeed].at \in {"quoting", "sending"} /\ feed.keys = feeds[dataFeed].keys
    BY <2>2
  <2>6. dataFeed \in 1..Len(feeds) /\ UNCHANGED <<exchange, books>>
    BY <2>1
  <2>7. /\ Len(feeds') = Len(feeds) /\ feeds'[dataFeed] = feed
        /\ \A g \in 1..Len(feeds) : g # dataFeed => feeds'[g] = feeds[g]
    BY <1>0, <2>4, <2>6, ExceptSeq
  <2>8. ASSUME NEW g \in 1..Len(feeds), feeds'[g].whole
        PROVE  /\ feeds'[g].at # "dead"
               /\ books[feeds'[g].exchange] = Symbols
               /\ feeds'[g].at \in {"quoting", "sending"} => feeds'[g].keys = Symbols
    <3>1. /\ feeds'[g].at = feeds[g].at /\ feeds'[g].keys = feeds[g].keys
          /\ feeds'[g].whole = feeds[g].whole
          /\ feeds'[g].exchange = feeds[g].exchange
      BY <2>2, <2>7
    <3> QED
      BY <2>8, <3>1 DEF WholeFeeds
  <2>9. WholeFeeds'
    BY <2>6, <2>7, <2>8 DEF WholeFeeds
  <2> QED
    BY <2>3, <2>9
<1>9. ASSUME NEW h \in Handlers, StartFeed(h)
      PROVE  AddedSoFar' /\ WholeFeeds'
  <2>1. /\ start'[h].at = Over
        /\ \A g \in Handlers : g # h => start'[g] = start[g]
        /\ UNCHANGED <<exchange, books>>
    BY <1>0, <1>9 DEF StartFeed, Finish
  <2>2. ~(start'[h].at \in 1..Starts)
    BY <2>1, PlacesAreNumbers
  <2>3. AddedSoFar'
    BY <2>1, <2>2 DEF AddedSoFar
  <2>4. WholeFeeds'
    <3>1. CASE feeds' = feeds
      BY <2>1, <3>1 DEF WholeFeeds
    <3>2. CASE feeds' = [feeds EXCEPT ![dataFeed].at = "started"]
      <4>1. CASE dataFeed \in 1..Len(feeds)
        <5> DEFINE feed == [feeds[dataFeed] EXCEPT !.at = "started"]
        <5>1. feeds' = [feeds EXCEPT ![dataFeed] = feed]
          BY <3>2
        <5>2. /\ feed.at = "started"
              /\ feed.whole = feeds[dataFeed].whole
              /\ feed.exchange = feeds[dataFeed].exchange
          BY <4>1, FeedFacts DEF Feeds
        <5> HIDE DEF feed
        <5> QED
          BY <1>6, <2>1, <4>1, <5>1, <5>2
      <4>2. CASE dataFeed \notin 1..Len(feeds)
        <5>1. feeds \in [1..Len(feeds) -> Feeds]
          BY <1>0
        <5>2. feeds' = feeds
          BY <3>2, <4>2, <5>1
        <5> QED
          BY <3>1, <5>2
      <4> QED
        BY <4>1, <4>2
    <3> QED
      BY <1>9, <3>1, <3>2 DEF StartFeed, ToStart
  <2> QED
    BY <2>3, <2>4
<1> QED
  BY <1>1, <1>2, <1>3, <1>4, <1>5, <1>7, <1>8, <1>9 DEF Next, StartStep, OnClose, vars

\* A feed whose handler found one exchange all along never dies and has every
\* security to quote, for any securities, sessions and starts.
THEOREM WholeFeedsGoOn == Spec => []WholeFeedsKeepQuoting
PROOF
<1>1. Init => TypeOK /\ AddedSoFar /\ WholeFeeds
  <2> SUFFICES ASSUME Init PROVE TypeOK /\ AddedSoFar /\ WholeFeeds
    OBVIOUS
  <2>1. (\A h \in Handlers : start[h].at = NotBegun) /\ Len(feeds) = 0
    BY DEF Init
  <2> QED
    BY <2>1, InitType, PlacesAreNumbers DEF AddedSoFar, WholeFeeds
<1>2. TypeOK /\ AddedSoFar /\ WholeFeeds /\ [Next]_vars
        => TypeOK' /\ AddedSoFar' /\ WholeFeeds'
  BY TypeStep, WholeStep
<1>3. WholeFeeds => WholeFeedsKeepQuoting
  BY DEF WholeFeeds, WholeFeedsKeepQuoting
<1> QED
  BY <1>1, <1>2, <1>3, PTL DEF Spec
=============================================================================
