--------------------------- MODULE TradingProofs ----------------------------
(***************************************************************************)
(* Proofs about Trading, for any pages, users, bots, menus of orders and   *)
(* bounds.  What the exchange does on its own is ExchangeProofs; here it   *)
(* is driven by the handlers of the server.                                *)
(***************************************************************************)
EXTENDS Trading, ExchangeProofs

-----------------------------------------------------------------------------
(* Sessions *)

\* What a page sends.
Requests ==
  [kind : {"new_user"}] \cup
  [kind : {"order"}, symbol : Symbols, order : Orders, id : OrderIDs, parses : BOOLEAN]

SessionTypes ==
  /\ opened \in 0..MaxSessions
  /\ session \in [Pages -> 0..opened]
  /\ users \subseteq Users
  /\ DOMAIN nameOf \subseteq 1..opened
  /\ \A s \in DOMAIN nameOf : nameOf[s] \in users
  /\ sessionIDs \in [Users -> Seq(1..opened)]
  /\ outbox \in [Pages -> Seq(Requests)]

\* No two pages share a session.
OwnSessions ==
  \A p, q \in Pages : session[p] # NoSession /\ session[p] = session[q] => p = q

\* p's session is registered.
Registered(p) == session[p] \in DOMAIN nameOf

\* A page is registered under its user, and listed there and only there.
ListsAreGood ==
  /\ \A p \in Pages : Registered(p) =>
       /\ nameOf[session[p]] = UserOf[p]
       /\ session[p] \in ToSet(sessionIDs[UserOf[p]])
  /\ \A p \in Pages, u \in Users :
       session[p] # NoSession /\ session[p] \in ToSet(sessionIDs[u]) =>
         Registered(p) /\ u = UserOf[p]
  /\ \A u \in Users \ users : sessionIDs[u] = << >>

\* new_user is what a page sends first, and the server registers it when it
\* reads that.
FirstIsNewUser ==
  \A p \in Pages :
    /\ session[p] = NoSession => outbox[p] = << >>
    /\ session[p] # NoSession /\ ~Registered(p) => outbox[p] # << >>
    /\ \A i \in 1..Len(outbox[p]) :
         outbox[p][i].kind = "new_user" <=> i = 1 /\ ~Registered(p)

SessionsAreGood == SessionTypes /\ OwnSessions /\ ListsAreGood /\ FirstIsNewUser

\* A session that is open and no other is p's.
LEMMA SessionOf ==
  ASSUME SessionsAreGood, NEW p \in Pages
  PROVE  /\ UserOf[p] \in Users
         /\ session[p] \in 0..opened /\ opened \in Nat /\ 0 \notin DOMAIN nameOf
         /\ Registered(p) => session[p] # NoSession
         /\ outbox[p] \in Seq(Requests)
PROOF
<1>1. UserOf[p] \in Users
  BY UserOfAssumption
<1>2. /\ session[p] \in 0..opened /\ opened \in Nat /\ 0 \notin DOMAIN nameOf
      /\ outbox[p] \in Seq(Requests)
  <2>1. /\ opened \in 0..MaxSessions /\ session \in [Pages -> 0..opened]
        /\ DOMAIN nameOf \subseteq 1..opened /\ outbox \in [Pages -> Seq(Requests)]
    BY DEF SessionsAreGood, SessionTypes
  <2> HIDE DEF Requests
  <2> QED
    BY <2>1, MaxSessionsAssumption
<1> QED
  BY <1>1, <1>2 DEF Registered, NoSession

\* The sessions listed for a user.
LEMMA ListedAreOpened ==
  ASSUME SessionsAreGood, NEW u \in Users
  PROVE  sessionIDs[u] \in Seq(1..opened) /\ ToSet(sessionIDs[u]) \subseteq 1..opened
PROOF
<1>1. sessionIDs[u] \in Seq(1..opened)
  BY DEF SessionsAreGood, SessionTypes
<1> QED
  BY <1>1, ElementsInSet

\* A session is opened for page p.
LEMMA SessionsOpen ==
  ASSUME SessionsAreGood, NEW p \in Pages, Open(p)
  PROVE  SessionsAreGood'
PROOF
<1> DEFINE s == opened + 1
           m == [kind |-> "new_user"]
<1>1. /\ session[p] = NoSession /\ opened < MaxSessions /\ opened' = s
      /\ session' = [session EXCEPT ![p] = s]
      /\ outbox' = [outbox EXCEPT ![p] = <<m>>]
      /\ UNCHANGED <<users, nameOf, sessionIDs>>
  BY DEF Open, clientVars
<1>2. /\ opened \in 0..MaxSessions /\ opened \in Nat /\ s \in 0..MaxSessions
      /\ s \notin 1..opened /\ s # 0 /\ 1..opened \subseteq 1..s /\ 0..opened \subseteq 0..s
      /\ s \in 0..s
  BY <1>1, MaxSessionsAssumption DEF SessionsAreGood, SessionTypes
<1>3. /\ session \in [Pages -> 0..opened] /\ users \subseteq Users
      /\ DOMAIN nameOf \subseteq 1..opened
      /\ sessionIDs \in [Users -> Seq(1..opened)]
      /\ \A u \in Users : ToSet(sessionIDs[u]) \subseteq 1..opened
  <2>1. sessionIDs \in [Users -> Seq(1..opened)]
    BY DEF SessionsAreGood, SessionTypes
  <2>2. \A u \in Users : ToSet(sessionIDs[u]) \subseteq 1..opened
    BY ListedAreOpened
  <2> QED
    BY <2>1, <2>2 DEF SessionsAreGood, SessionTypes
<1>4. /\ session'[p] = s /\ \A q \in Pages \ {p} : session'[q] = session[q]
      /\ \A q \in Pages : session[q] # s
      /\ \A q \in Pages \ {p} : outbox'[q] = outbox[q]
      /\ outbox'[p] = <<m>>
      /\ \A q \in Pages : Registered(q)' <=> q # p /\ Registered(q)
  <2>1. session'[p] = s /\ \A q \in Pages \ {p} : session'[q] = session[q]
    BY <1>1, <1>3
  <2>2. \A q \in Pages : session[q] # s
    BY <1>2, <1>3
  <2>3. /\ \A q \in Pages \ {p} : outbox'[q] = outbox[q]
        /\ outbox'[p] = <<m>>
    BY <1>1 DEF SessionsAreGood, SessionTypes
  <2>4. \A q \in Pages : Registered(q)' <=> q # p /\ Registered(q)
    BY <1>1, <1>2, <1>3, <2>1 DEF Registered
  <2> QED
    BY <2>1, <2>2, <2>3, <2>4
<1> HIDE DEF s
<1>5. SessionTypes'
  <2>1. session' \in [Pages -> 0..s]
    BY <1>1, <1>2, <1>3
  <2>2. sessionIDs' \in [Users -> Seq(1..s)]
    <3>1. \A u \in Users : sessionIDs[u] \in Seq(1..s)
      BY <1>2, <1>3, LargerSet
    <3> QED
      BY <1>1, <1>3, <3>1
  <2>3. outbox' \in [Pages -> Seq(Requests)]
    <3>1. m \in Requests
      BY DEF Requests
    <3> HIDE DEF Requests, m
    <3>2. <<m>> \in Seq(Requests)
      BY <3>1
    <3> QED
      BY <1>1, <3>2 DEF SessionsAreGood, SessionTypes
  <2>4. Requests' = Requests
    BY DEF Requests, OrderIDs
  <2>5. /\ users' \subseteq Users /\ DOMAIN nameOf' \subseteq 1..s
        /\ \A t \in DOMAIN nameOf' : nameOf'[t] \in users'
    BY <1>1, <1>2, <1>3 DEF SessionsAreGood, SessionTypes
  <2> HIDE DEF Requests
  <2> QED
    BY <1>1, <1>2, <2>1, <2>2, <2>3, <2>4, <2>5 DEF SessionTypes
<1>6. OwnSessions'
  BY <1>4 DEF SessionsAreGood, OwnSessions
<1>7. ListsAreGood'
  <2>1. ASSUME NEW q \in Pages, Registered(q)'
        PROVE  /\ nameOf'[session'[q]] = UserOf[q]
               /\ session'[q] \in ToSet(sessionIDs'[UserOf[q]])
    BY <1>1, <1>4, <2>1 DEF SessionsAreGood, ListsAreGood
  <2>2. ASSUME NEW q \in Pages, NEW u \in Users,
               session'[q] # NoSession, session'[q] \in ToSet(sessionIDs'[u])
        PROVE  Registered(q)' /\ u = UserOf[q]
    <3>1. q # p
      BY <1>1, <1>2, <1>3, <1>4, <2>2
    <3> QED
      BY <1>1, <1>4, <2>2, <3>1 DEF SessionsAreGood, ListsAreGood
  <2>3. \A u \in Users \ users' : sessionIDs'[u] = << >>
    BY <1>1 DEF SessionsAreGood, ListsAreGood
  <2> QED
    BY <2>1, <2>2, <2>3 DEF ListsAreGood
<1>8. FirstIsNewUser'
  <2>1. ASSUME NEW q \in Pages, q # p
        PROVE  /\ session'[q] = NoSession => outbox'[q] = << >>
               /\ session'[q] # NoSession /\ ~Registered(q)' => outbox'[q] # << >>
               /\ \A i \in 1..Len(outbox'[q]) :
                    outbox'[q][i].kind = "new_user" <=> i = 1 /\ ~Registered(q)'
    BY <1>4, <2>1 DEF SessionsAreGood, FirstIsNewUser
  <2>2. /\ session'[p] # NoSession /\ ~Registered(p)' /\ outbox'[p] # << >>
        /\ \A i \in 1..Len(outbox'[p]) : i = 1 /\ outbox'[p][i].kind = "new_user"
    BY <1>2, <1>4 DEF NoSession
  <2> QED
    BY <2>1, <2>2 DEF FirstIsNewUser
<1> QED
  BY <1>5, <1>6, <1>7, <1>8 DEF SessionsAreGood

\* A bot opens a session and registers.
LEMMA SessionsOpenBot ==
  ASSUME SessionsAreGood, NEW u \in Bots, OpenBot(u)
  PROVE  SessionsAreGood'
PROOF
<1> DEFINE s == opened + 1
           list == Clients!ListOf(u, s)
<1>0. u \in Users
  BY BotsAssumption
<1>1. /\ opened < MaxSessions /\ opened' = s
      /\ users' = users \cup {u}
      /\ nameOf' = [k \in DOMAIN nameOf \cup {s} |-> IF k = s THEN u ELSE nameOf[k]]
      /\ sessionIDs' = [sessionIDs EXCEPT ![u] = Append(list, s)]
      /\ UNCHANGED <<session, outbox>>
  BY DEF OpenBot, Clients!RegisterAlgo, Clients!Put, Clients!WithAlgoSession
<1>2. /\ opened \in 0..MaxSessions /\ opened \in Nat /\ s \in 0..MaxSessions
      /\ s \notin 1..opened /\ s # 0 /\ 1..opened \subseteq 1..s /\ 0..opened \subseteq 0..s
      /\ s \in 1..s /\ s \notin 0..opened
  BY <1>1, MaxSessionsAssumption DEF SessionsAreGood, SessionTypes
<1>3. /\ session \in [Pages -> 0..opened] /\ users \subseteq Users
      /\ DOMAIN nameOf \subseteq 1..opened
      /\ sessionIDs \in [Users -> Seq(1..opened)]
      /\ outbox \in [Pages -> Seq(Requests)]
  BY DEF SessionsAreGood, SessionTypes
<1>4. /\ \A q \in Pages : session[q] # s
      /\ \A q \in Pages : Registered(q)' <=> Registered(q)
      /\ \A t \in DOMAIN nameOf : nameOf'[t] = nameOf[t]
      /\ nameOf'[s] = u
      /\ DOMAIN nameOf' = DOMAIN nameOf \cup {s}
  <2>1. \A q \in Pages : session[q] # s
    BY <1>2, <1>3
  <2>2. /\ DOMAIN nameOf' = DOMAIN nameOf \cup {s}
        /\ nameOf'[s] = u
        /\ \A t \in DOMAIN nameOf : nameOf'[t] = nameOf[t]
    BY <1>1, <1>2, <1>3
  <2> QED
    BY <1>1, <2>1, <2>2 DEF Registered
<1>5. /\ list \in Seq(1..s)
      /\ ToSet(list) \subseteq ToSet(sessionIDs[u]) \cup {s}
      /\ ToSet(sessionIDs[u]) \subseteq ToSet(list)
  <2>1. CASE u \in users
    <3>1. list = sessionIDs[u]
      BY <2>1 DEF Clients!ListOf
    <3>2. list \in Seq(1..opened)
      BY <1>0, <3>1, ListedAreOpened
    <3>3. list \in Seq(1..s)
      BY <1>2, <3>2, LargerSet
    <3> QED
      BY <3>1, <3>3
  <2>2. CASE u \notin users
    <3>1. list = <<s>> /\ sessionIDs[u] = << >>
      BY <1>0, <2>2 DEF Clients!ListOf, SessionsAreGood, ListsAreGood
    <3> HIDE DEF s
    <3>2. <<s>> \in Seq(1..s) /\ ToSet(<<s>>) = {s} /\ ToSet(<< >>) = {}
      BY <1>2 DEF ToSet
    <3> QED
      BY <3>1, <3>2
  <2> QED
    BY <2>1, <2>2
<1>6. /\ Append(list, s) \in Seq(1..s)
      /\ ToSet(Append(list, s)) = ToSet(list) \cup {s}
  BY <1>2, <1>5, OneMoreInSet
<1> HIDE DEF list, s
<1>7. SessionTypes'
  <2>1. session' \in [Pages -> 0..s]
    BY <1>1, <1>2, <1>3
  <2>2. sessionIDs' \in [Users -> Seq(1..s)]
    <3>1. \A v \in Users : sessionIDs[v] \in Seq(1..s)
      BY <1>2, <1>3, LargerSet
    <3> QED
      BY <1>1, <1>3, <1>6, <3>1
  <2>3. Requests' = Requests
    BY DEF Requests, OrderIDs
  <2>4. /\ users' \subseteq Users /\ DOMAIN nameOf' \subseteq 1..s
        /\ \A t \in DOMAIN nameOf' : nameOf'[t] \in users'
    BY <1>0, <1>1, <1>2, <1>3, <1>4 DEF SessionsAreGood, SessionTypes
  <2> HIDE DEF Requests
  <2> QED
    BY <1>1, <1>2, <1>3, <2>1, <2>2, <2>3, <2>4 DEF SessionTypes
<1>8. OwnSessions'
  BY <1>1 DEF SessionsAreGood, OwnSessions
<1>9. ListsAreGood'
  <2>0. \A v \in Users : sessionIDs'[v] = IF v = u THEN Append(list, s) ELSE sessionIDs[v]
    BY <1>1, <1>3
  <2>1. ASSUME NEW q \in Pages, Registered(q)'
        PROVE  /\ nameOf'[session'[q]] = UserOf[q]
               /\ session'[q] \in ToSet(sessionIDs'[UserOf[q]])
    <3>1. /\ Registered(q) /\ nameOf[session[q]] = UserOf[q] /\ UserOf[q] \in Users
          /\ session[q] \in ToSet(sessionIDs[UserOf[q]])
      BY <1>4, <2>1, UserOfAssumption DEF SessionsAreGood, ListsAreGood
    <3> QED
      BY <1>1, <1>4, <1>5, <1>6, <2>0, <3>1 DEF Registered
  <2>2. ASSUME NEW q \in Pages, NEW v \in Users,
               session'[q] # NoSession, session'[q] \in ToSet(sessionIDs'[v])
        PROVE  Registered(q)' /\ v = UserOf[q]
    <3>1. session[q] \in ToSet(sessionIDs[v])
      BY <1>1, <1>4, <1>5, <1>6, <2>0, <2>2
    <3> QED
      BY <1>1, <1>4, <2>2, <3>1 DEF SessionsAreGood, ListsAreGood
  <2>3. \A v \in Users \ users' : sessionIDs'[v] = << >>
    BY <1>1, <2>0 DEF SessionsAreGood, ListsAreGood
  <2> QED
    BY <2>1, <2>2, <2>3 DEF ListsAreGood
<1>10. FirstIsNewUser'
  BY <1>1, <1>4 DEF SessionsAreGood, FirstIsNewUser
<1> QED
  BY <1>7, <1>8, <1>9, <1>10 DEF SessionsAreGood

\* RemoveFirst, as ClientManager takes it from the library, is RemoveFirst.
LEMMA SameRemoveFirst ==
  ASSUME NEW list, NEW e
  PROVE  Clients!RemoveFirst(list, e) = RemoveFirst(list, e)
PROOF
  BY DEF RemoveFirst, RemoveAt, SelectInSeq, Min, Clients!RemoveFirst,
         Clients!RemoveAt, Clients!SelectInSeq, Clients!Min

\* What RemoveFirst leaves of the other elements.
LEMMA OthersStay ==
  ASSUME NEW S, NEW list \in Seq(S), NEW e, NEW x, x # e
  PROVE  /\ RemoveFirst(list, e) \in Seq(S)
         /\ x \in ToSet(RemoveFirst(list, e)) <=> x \in ToSet(list)
PROOF
<1>1. RemoveFirst(list, e) \in Seq(S)
  BY RemoveFirstType
<1> QED
  BY <1>1, PlacesRemoved, PlacesAreFinite

\* The session of page p closes.
LEMMA SessionsClose ==
  ASSUME SessionsAreGood, NEW p \in Pages, Close(p)
  PROVE  SessionsAreGood'
PROOF
<1> DEFINE s == session[p]
           u == nameOf[s]
<1>1. /\ s # NoSession /\ opened' = opened /\ users' = users
      /\ session' = [session EXCEPT ![p] = NoSession]
      /\ outbox' = [outbox EXCEPT ![p] = << >>]
      /\ \/ s \notin DOMAIN nameOf /\ UNCHANGED <<nameOf, sessionIDs>>
         \/ /\ s \in DOMAIN nameOf
            /\ sessionIDs' = [sessionIDs EXCEPT ![u] = RemoveFirst(@, s)]
            /\ nameOf' = [k \in DOMAIN nameOf \ {s} |-> nameOf[k]]
  BY SameRemoveFirst DEF Close, Clients!RemoveSessionID, Clients!WithoutKey, Clients!clientVars
<1>2. /\ opened \in 0..MaxSessions /\ 0 \in 0..opened
      /\ session \in [Pages -> 0..opened] /\ users \subseteq Users
      /\ DOMAIN nameOf \subseteq 1..opened
      /\ \A t \in DOMAIN nameOf : nameOf[t] \in users
      /\ sessionIDs \in [Users -> Seq(1..opened)]
      /\ outbox \in [Pages -> Seq(Requests)]
  BY MaxSessionsAssumption DEF SessionsAreGood, SessionTypes
<1>3. /\ session'[p] = NoSession /\ outbox'[p] = << >>
      /\ \A q \in Pages \ {p} : session'[q] = session[q] /\ outbox'[q] = outbox[q]
      /\ NoSession = 0
  BY <1>1, <1>2 DEF NoSession
<1>4. /\ DOMAIN nameOf' = DOMAIN nameOf \ {s}
      /\ \A t \in DOMAIN nameOf' : nameOf'[t] = nameOf[t]
  BY <1>1
<1>5. \A q \in Pages \ {p} : session[q] # s
  BY <1>1 DEF SessionsAreGood, OwnSessions
<1>6. ASSUME NEW v \in Users
      PROVE  /\ sessionIDs'[v] \in Seq(1..opened)
             /\ \A x : x # s => (x \in ToSet(sessionIDs'[v]) <=> x \in ToSet(sessionIDs[v]))
             /\ sessionIDs'[v] = sessionIDs[v] \/ v \in users
  <2>1. sessionIDs[v] \in Seq(1..opened)
    BY <1>2
  <2>2. CASE sessionIDs'[v] = sessionIDs[v]
    BY <2>1, <2>2
  <2>3. CASE sessionIDs'[v] # sessionIDs[v]
    <3>1. v = u /\ u \in users /\ sessionIDs'[v] = RemoveFirst(sessionIDs[v], s)
      BY <1>1, <1>2, <2>3
    <3> HIDE DEF s, u
    <3>2. RemoveFirst(sessionIDs[v], s) \in Seq(1..opened)
      BY <2>1, RemoveFirstType
    <3>3. \A x : x # s => (x \in ToSet(RemoveFirst(sessionIDs[v], s))
                              <=> x \in ToSet(sessionIDs[v]))
      BY <2>1, OthersStay
    <3> QED
      BY <3>1, <3>2, <3>3
  <2> QED
    BY <2>2, <2>3
<1>7. \A q \in Pages : Registered(q)' <=> q # p /\ Registered(q)
  BY <1>2, <1>3, <1>4, <1>5 DEF Registered
<1>8. SessionTypes'
  <2>1. sessionIDs' \in [Users -> Seq(1..opened)]
    <3>1. DOMAIN sessionIDs' = Users /\ sessionIDs' = [v \in Users |-> sessionIDs'[v]]
      BY <1>1, <1>2
    <3> QED
      BY <1>6, <3>1
  <2>2. session' \in [Pages -> 0..opened]
    BY <1>1, <1>2, <1>3
  <2>3. Requests' = Requests
    BY DEF Requests, OrderIDs
  <2> HIDE DEF Requests
  <2>4. outbox' \in [Pages -> Seq(Requests)]
    <3>1. << >> \in Seq(Requests)
      OBVIOUS
    <3> QED
      BY <1>1, <1>2, <3>1
  <2> QED
    BY <1>1, <1>2, <1>4, <2>1, <2>2, <2>3, <2>4 DEF SessionTypes
<1> HIDE DEF s, u
<1>9. OwnSessions'
  BY <1>3 DEF SessionsAreGood, OwnSessions
<1>10. ListsAreGood'
  <2>1. ASSUME NEW q \in Pages, Registered(q)'
        PROVE  /\ nameOf'[session'[q]] = UserOf[q]
               /\ session'[q] \in ToSet(sessionIDs'[UserOf[q]])
    <3>1. /\ q # p /\ Registered(q) /\ nameOf[session[q]] = UserOf[q]
          /\ session[q] \in ToSet(sessionIDs[UserOf[q]]) /\ UserOf[q] \in Users
      BY <1>7, <2>1, UserOfAssumption DEF SessionsAreGood, ListsAreGood
    <3> QED
      BY <1>3, <1>4, <1>5, <1>6, <2>1, <3>1 DEF Registered
  <2>2. ASSUME NEW q \in Pages, NEW v \in Users,
               session'[q] # NoSession, session'[q] \in ToSet(sessionIDs'[v])
        PROVE  Registered(q)' /\ v = UserOf[q]
    <3>1. q # p /\ session'[q] = session[q]
      BY <1>3, <2>2
    <3>2. session[q] \in ToSet(sessionIDs[v])
      BY <1>5, <1>6, <2>2, <3>1
    <3> QED
      BY <1>7, <2>2, <3>1, <3>2 DEF SessionsAreGood, ListsAreGood
  <2>3. \A v \in Users \ users' : sessionIDs'[v] = << >>
    BY <1>1, <1>6 DEF SessionsAreGood, ListsAreGood
  <2> QED
    BY <2>1, <2>2, <2>3 DEF ListsAreGood
<1>11. FirstIsNewUser'
  <2>1. ASSUME NEW q \in Pages, q # p
        PROVE  /\ session'[q] = NoSession => outbox'[q] = << >>
               /\ session'[q] # NoSession /\ ~Registered(q)' => outbox'[q] # << >>
               /\ \A i \in 1..Len(outbox'[q]) :
                    outbox'[q][i].kind = "new_user" <=> i = 1 /\ ~Registered(q)'
    BY <1>3, <1>7, <2>1 DEF SessionsAreGood, FirstIsNewUser
  <2> QED
    BY <1>3, <2>1 DEF FirstIsNewUser
<1> QED
  BY <1>8, <1>9, <1>10, <1>11 DEF SessionsAreGood

\* What the server has read of page p leaves its queue.
LEMMA OutboxRead ==
  ASSUME SessionsAreGood, NEW p \in Pages, outbox[p] # << >>,
         outbox' = [outbox EXCEPT ![p] = Tail(@)]
  PROVE  /\ Head(outbox[p]) \in Requests /\ Head(outbox[p]) = outbox[p][1]
         /\ 1 \in 1..Len(outbox[p])
         /\ outbox' \in [Pages -> Seq(Requests)]
         /\ \A q \in Pages \ {p} : outbox'[q] = outbox[q]
         /\ \A i \in 1..Len(outbox'[p]) :
              i + 1 \in 1..Len(outbox[p]) /\ i + 1 # 1 /\ outbox'[p][i] = outbox[p][i + 1]
PROOF
<1> HIDE DEF Requests
<1>1. outbox \in [Pages -> Seq(Requests)]
  BY DEF SessionsAreGood, SessionTypes
<1>2. outbox'[p] = Tail(outbox[p]) /\ \A q \in Pages \ {p} : outbox'[q] = outbox[q]
  BY <1>1
<1>3. /\ outbox[p] \in Seq(Requests) /\ Tail(outbox[p]) \in Seq(Requests)
      /\ Len(outbox[p]) \in Nat \ {0}
      /\ Len(Tail(outbox[p])) = Len(outbox[p]) - 1
      /\ Head(outbox[p]) \in Requests
      /\ Head(outbox[p]) = outbox[p][1]
      /\ \A i \in 1..(Len(outbox[p]) - 1) : Tail(outbox[p])[i] = outbox[p][i + 1]
  BY <1>1, HeadAndTail
<1>4. outbox' \in [Pages -> Seq(Requests)]
  BY <1>1, <1>3
<1> QED
  BY <1>2, <1>3, <1>4

\* Sessions and what ClientManager holds stay, and so does what the queues
\* to the server have, up to an order.
LEMMA SessionsStay ==
  ASSUME SessionsAreGood, UNCHANGED <<opened, session, users, nameOf, sessionIDs>>,
         outbox' \in [Pages -> Seq(Requests)], FirstIsNewUser'
  PROVE  SessionsAreGood'
PROOF
<1>1. Requests' = Requests
  BY DEF Requests, OrderIDs
<1> HIDE DEF Requests
<1>2. SessionTypes'
  BY <1>1 DEF SessionsAreGood, SessionTypes
<1>3. OwnSessions' /\ ListsAreGood'
  BY DEF SessionsAreGood, OwnSessions, ListsAreGood, Registered
<1> QED
  BY <1>2, <1>3 DEF SessionsAreGood

\* Page p sends an order.
LEMMA SessionsSend ==
  ASSUME SessionsAreGood, NEW p \in Pages, session[p] # NoSession,
         NEW m \in Requests, m.kind = "order",
         outbox' = [outbox EXCEPT ![p] = Append(@, m)],
         UNCHANGED <<opened, session, users, nameOf, sessionIDs>>
  PROVE  SessionsAreGood'
PROOF
<1> HIDE DEF Requests
<1>1. outbox \in [Pages -> Seq(Requests)]
  BY DEF SessionsAreGood, SessionTypes
<1>2. outbox'[p] = Append(outbox[p], m) /\ \A q \in Pages \ {p} : outbox'[q] = outbox[q]
  BY <1>1
<1>3. /\ Append(outbox[p], m) \in Seq(Requests) /\ Len(outbox[p]) \in Nat
      /\ Len(Append(outbox[p], m)) = Len(outbox[p]) + 1
      /\ \A i \in 1..Len(outbox[p]) : Append(outbox[p], m)[i] = outbox[p][i]
      /\ Append(outbox[p], m)[Len(outbox[p]) + 1] = m
  BY <1>1, OneMore
<1>4. outbox' \in [Pages -> Seq(Requests)]
  BY <1>1, <1>3
<1>5. FirstIsNewUser'
  <2>1. ASSUME NEW q \in Pages, q # p
        PROVE  /\ session'[q] = NoSession => outbox'[q] = << >>
               /\ session'[q] # NoSession /\ ~Registered(q)' => outbox'[q] # << >>
               /\ \A i \in 1..Len(outbox'[q]) :
                    outbox'[q][i].kind = "new_user" <=> i = 1 /\ ~Registered(q)'
    BY <1>2, <2>1 DEF SessionsAreGood, FirstIsNewUser, Registered
  <2>2. session'[p] # NoSession /\ outbox'[p] # << >>
    BY <1>2, <1>3
  <2>3. ASSUME NEW i \in 1..Len(outbox'[p])
        PROVE  outbox'[p][i].kind = "new_user" <=> i = 1 /\ ~Registered(p)'
    <3>1. CASE i \in 1..Len(outbox[p])
      BY <1>2, <1>3, <3>1 DEF SessionsAreGood, FirstIsNewUser, Registered
    <3>2. CASE i = Len(outbox[p]) + 1
      <4>1. outbox'[p][i].kind = "order"
        BY <1>2, <1>3, <3>2
      <4>2. ~Registered(p) => outbox[p] # << >>
        BY DEF SessionsAreGood, FirstIsNewUser
      <4>3. i = 1 => outbox[p] = << >>
        BY <1>1, <1>3, <3>2
      <4> QED
        BY <4>1, <4>2, <4>3 DEF Registered
    <3> QED
      BY <1>2, <1>3, <3>1, <3>2
  <2> QED
    BY <2>1, <2>2, <2>3 DEF FirstIsNewUser
<1> QED
  BY <1>4, <1>5, SessionsStay

\* The server reads an order of page p.
LEMMA SessionsRead ==
  ASSUME SessionsAreGood, NEW p \in Pages, outbox[p] # << >>,
         Head(outbox[p]).kind = "order",
         outbox' = [outbox EXCEPT ![p] = Tail(@)],
         UNCHANGED <<opened, session, users, nameOf, sessionIDs>>
  PROVE  /\ SessionsAreGood'
         /\ Registered(p) /\ nameOf[session[p]] = UserOf[p]
         /\ Head(outbox[p]).order \in Orders /\ Head(outbox[p]).symbol \in Symbols
         /\ Head(outbox[p]).id \in OrderIDs
PROOF
<1>1. /\ Head(outbox[p]) \in Requests /\ Head(outbox[p]) = outbox[p][1]
      /\ 1 \in 1..Len(outbox[p])
      /\ outbox' \in [Pages -> Seq(Requests)]
      /\ \A q \in Pages \ {p} : outbox'[q] = outbox[q]
      /\ \A i \in 1..Len(outbox'[p]) :
           i + 1 \in 1..Len(outbox[p]) /\ i + 1 # 1 /\ outbox'[p][i] = outbox[p][i + 1]
  BY OutboxRead
<1>2. Registered(p) /\ session[p] # NoSession
  BY <1>1 DEF SessionsAreGood, FirstIsNewUser
<1>3. /\ Head(outbox[p]).order \in Orders /\ Head(outbox[p]).symbol \in Symbols
      /\ Head(outbox[p]).id \in OrderIDs
  BY <1>1 DEF Requests
<1>4. nameOf[session[p]] = UserOf[p]
  BY <1>2 DEF SessionsAreGood, ListsAreGood
<1> HIDE DEF Requests
<1>5. FirstIsNewUser'
  <2>1. ASSUME NEW q \in Pages, q # p
        PROVE  /\ session'[q] = NoSession => outbox'[q] = << >>
               /\ session'[q] # NoSession /\ ~Registered(q)' => outbox'[q] # << >>
               /\ \A i \in 1..Len(outbox'[q]) :
                    outbox'[q][i].kind = "new_user" <=> i = 1 /\ ~Registered(q)'
    BY <1>1, <2>1 DEF SessionsAreGood, FirstIsNewUser, Registered
  <2>2. session'[p] # NoSession /\ Registered(p)'
    BY <1>2 DEF Registered
  <2>3. \A i \in 1..Len(outbox'[p]) : outbox'[p][i].kind # "new_user"
    BY <1>1 DEF SessionsAreGood, FirstIsNewUser
  <2> QED
    BY <2>1, <2>2, <2>3 DEF FirstIsNewUser
<1>6. SessionsAreGood'
  BY <1>1, <1>5, SessionsStay
<1> QED
  BY <1>2, <1>3, <1>4, <1>6

\* The server reads new_user and registers page p.
LEMMA SessionsRegister ==
  ASSUME SessionsAreGood, NEW p \in Pages, ServeNewUser(p)
  PROVE  /\ SessionsAreGood' /\ ~Registered(p) /\ Registered(p)'
         /\ session[p] # NoSession
         /\ \A q \in Pages \ {p} : Registered(q)' <=> Registered(q)
PROOF
<1> DEFINE s == session[p]
           u == UserOf[p]
           list == Clients!ListOf(u, s)
<1>0. u \in Users
  BY UserOfAssumption
<1>1. /\ outbox[p] # << >> /\ Head(outbox[p]).kind = "new_user"
      /\ outbox' = [outbox EXCEPT ![p] = Tail(@)]
      /\ users' = users \cup {u}
      /\ nameOf' = [k \in DOMAIN nameOf \cup {s} |-> IF k = s THEN u ELSE nameOf[k]]
      /\ sessionIDs' = [sessionIDs EXCEPT ![u] = Append(list, s)]
      /\ UNCHANGED <<session, opened>>
  BY DEF ServeNewUser, Clients!RegisterPage, Clients!Put
<1>2. /\ Head(outbox[p]) = outbox[p][1] /\ 1 \in 1..Len(outbox[p])
      /\ outbox' \in [Pages -> Seq(Requests)]
      /\ \A q \in Pages \ {p} : outbox'[q] = outbox[q]
      /\ \A i \in 1..Len(outbox'[p]) :
           i + 1 \in 1..Len(outbox[p]) /\ i + 1 # 1 /\ outbox'[p][i] = outbox[p][i + 1]
  BY <1>1, OutboxRead
<1>3. ~Registered(p) /\ s # NoSession
  BY <1>1, <1>2 DEF SessionsAreGood, FirstIsNewUser
<1>4. /\ opened \in 0..MaxSessions /\ opened \in Nat
      /\ session \in [Pages -> 0..opened] /\ users \subseteq Users
      /\ DOMAIN nameOf \subseteq 1..opened
      /\ \A t \in DOMAIN nameOf : nameOf[t] \in users
      /\ sessionIDs \in [Users -> Seq(1..opened)]
      /\ s \in 1..opened
  BY <1>3, MaxSessionsAssumption DEF SessionsAreGood, SessionTypes, NoSession
<1>5. /\ DOMAIN nameOf' = DOMAIN nameOf \cup {s}
      /\ nameOf'[s] = u
      /\ \A t \in DOMAIN nameOf : nameOf'[t] = nameOf[t]
  BY <1>1, <1>3 DEF Registered
<1>6. \A q \in Pages \ {p} : session[q] # s
  BY <1>3 DEF SessionsAreGood, OwnSessions
<1>7. \A q \in Pages : Registered(q)' <=> q = p \/ Registered(q)
  BY <1>1, <1>5, <1>6 DEF Registered
<1>8. /\ list \in Seq(1..opened)
      /\ ToSet(list) \subseteq ToSet(sessionIDs[u]) \cup {s}
      /\ ToSet(sessionIDs[u]) \subseteq ToSet(list)
  <2>1. CASE u \in users
    BY <1>0, <1>4, <2>1 DEF Clients!ListOf
  <2>2. CASE u \notin users
    <3>1. list = <<s>> /\ sessionIDs[u] = << >>
      BY <1>0, <2>2 DEF Clients!ListOf, SessionsAreGood, ListsAreGood
    <3> HIDE DEF s
    <3>2. <<s>> \in Seq(1..opened) /\ ToSet(<<s>>) = {s} /\ ToSet(<< >>) = {}
      BY <1>4 DEF ToSet
    <3> QED
      BY <3>1, <3>2
  <2> QED
    BY <2>1, <2>2
<1>9. /\ Append(list, s) \in Seq(1..opened)
      /\ ToSet(Append(list, s)) = ToSet(list) \cup {s}
  BY <1>4, <1>8, OneMoreInSet
<1> HIDE DEF list, s, u
<1>10. SessionTypes'
  <2>1. sessionIDs' \in [Users -> Seq(1..opened)]
    BY <1>1, <1>4, <1>9
  <2>2. Requests' = Requests
    BY DEF Requests, OrderIDs
  <2>3. /\ users' \subseteq Users /\ DOMAIN nameOf' \subseteq 1..opened
        /\ \A t \in DOMAIN nameOf' : nameOf'[t] \in users'
    BY <1>0, <1>1, <1>4, <1>5
  <2> HIDE DEF Requests
  <2> QED
    BY <1>1, <1>2, <1>4, <2>1, <2>2, <2>3 DEF SessionTypes
<1>11. OwnSessions'
  BY <1>1 DEF SessionsAreGood, OwnSessions
<1>12. ListsAreGood'
  <2>0. \A v \in Users : sessionIDs'[v] = IF v = u THEN Append(list, s) ELSE sessionIDs[v]
    BY <1>1, <1>4
  <2>1. ASSUME NEW q \in Pages, Registered(q)'
        PROVE  /\ nameOf'[session'[q]] = UserOf[q]
               /\ session'[q] \in ToSet(sessionIDs'[UserOf[q]])
    <3>1. CASE q = p
      BY <1>0, <1>1, <1>5, <1>9, <2>0, <3>1 DEF s, u
    <3>2. CASE q # p
      <4>1. /\ Registered(q) /\ nameOf[session[q]] = UserOf[q] /\ UserOf[q] \in Users
            /\ session[q] \in ToSet(sessionIDs[UserOf[q]])
        BY <1>7, <2>1, <3>2, UserOfAssumption DEF SessionsAreGood, ListsAreGood
      <4> QED
        BY <1>1, <1>5, <1>8, <1>9, <2>0, <4>1 DEF Registered
    <3> QED
      BY <3>1, <3>2
  <2>2. ASSUME NEW q \in Pages, NEW v \in Users,
               session'[q] # NoSession, session'[q] \in ToSet(sessionIDs'[v])
        PROVE  Registered(q)' /\ v = UserOf[q]
    <3>1. CASE session[q] \in ToSet(sessionIDs[v])
      <4>1. Registered(q) /\ v = UserOf[q]
        BY <1>1, <2>2, <3>1 DEF SessionsAreGood, ListsAreGood
      <4> QED
        BY <1>7, <4>1
    <3>2. CASE session[q] \notin ToSet(sessionIDs[v])
      <4>1. session[q] = s /\ v = u
        BY <1>1, <1>8, <1>9, <2>0, <2>2, <3>2
      <4> QED
        BY <1>6, <1>7, <4>1 DEF u
    <3> QED
      BY <3>1, <3>2
  <2>3. \A v \in Users \ users' : sessionIDs'[v] = << >>
    BY <1>1, <2>0 DEF SessionsAreGood, ListsAreGood
  <2> QED
    BY <2>1, <2>2, <2>3 DEF ListsAreGood
<1>13. FirstIsNewUser'
  <2>1. ASSUME NEW q \in Pages, q # p
        PROVE  /\ session'[q] = NoSession => outbox'[q] = << >>
               /\ session'[q] # NoSession /\ ~Registered(q)' => outbox'[q] # << >>
               /\ \A i \in 1..Len(outbox'[q]) :
                    outbox'[q][i].kind = "new_user" <=> i = 1 /\ ~Registered(q)'
    BY <1>1, <1>2, <1>7, <2>1 DEF SessionsAreGood, FirstIsNewUser
  <2>2. session'[p] # NoSession /\ Registered(p)'
    BY <1>1, <1>3, <1>7 DEF s
  <2>3. \A i \in 1..Len(outbox'[p]) : outbox'[p][i].kind # "new_user"
    BY <1>2 DEF SessionsAreGood, FirstIsNewUser
  <2> QED
    BY <2>1, <2>2, <2>3 DEF FirstIsNewUser
<1> QED
  BY <1>3, <1>7, <1>10, <1>11, <1>12, <1>13 DEF SessionsAreGood, s

-----------------------------------------------------------------------------
(* What a page shows *)

PageFields == {"money", "nextID", "orders", "quoted", "paid", "position", "past",
               "pastCount", "pastGone", "rows", "broken"}

PastRow(n) == [row : 1..n, id : OrderIDs]

\* The orders a page shows.
GoodOrders(map, rows) ==
  /\ DOMAIN map \subseteq OrderIDs
  /\ \A id \in DOMAIN map : map[id] \in Entry /\ map[id].row =< rows

\* Its variables, the orders apart.
GoodRest(pg) ==
  /\ DOMAIN pg = PageFields
  /\ pg.quoted \subseteq Symbols
  /\ pg.paid \in [pg.quoted -> Int]
  /\ pg.position \in [pg.quoted -> Nat]
  /\ pg.money \in Int
  /\ pg.nextID \in 1..(MaxPageOrders + 1)
  /\ pg.rows \in Nat
  /\ pg.past \in Seq(PastRow(pg.rows))

GoodPage(pg) == GoodRest(pg) /\ GoodOrders(pg.orders, pg.rows)

\* pg1 is pg with other order tables.
SamePage(pg, pg1) ==
  /\ DOMAIN pg1 = DOMAIN pg
  /\ pg1.quoted = pg.quoted /\ pg1.paid = pg.paid /\ pg1.position = pg.position
  /\ pg1.money = pg.money /\ pg1.nextID = pg.nextID /\ pg1.broken = pg.broken

\* Apart from its row, an entry of map1 is that of map.
SameEntries(map, map1) ==
  /\ DOMAIN map1 \subseteq DOMAIN map
  /\ \A id \in DOMAIN map1 : /\ map1[id].filled = map[id].filled
                             /\ map1[id].remaining = map[id].remaining
                             /\ map1[id].status = map[id].status

\* An entry gets a row.
LEMMA EntryRow ==
  ASSUME NEW e \in Entry, NEW row \in Nat
  PROVE  /\ [e EXCEPT !.row = row] \in Entry
         /\ [e EXCEPT !.row = row].row = row
         /\ [e EXCEPT !.row = row].filled = e.filled
         /\ [e EXCEPT !.row = row].remaining = e.remaining
         /\ [e EXCEPT !.row = row].status = e.status
PROOF
  BY DEF Entry

\* A row taken out of the table of past orders.
LEMMA RowOut ==
  ASSUME NEW S, NEW past \in Seq(S), NEW row
  PROVE  WithoutRow(past, row) \in Seq(S)
PROOF
<1> DEFINE I == {i \in 1..Len(past) : past[i].row = row}
<1>1. CASE I = {}
  BY <1>1 DEF WithoutRow, RemoveFirstMatch
<1>2. CASE I # {}
  <2>1. Min(I) \in I
    <3>1. I \in SUBSET Nat
      OBVIOUS
    <3> HIDE DEF I
    <3> QED
      BY <1>2, <3>1, SmallestNumber
  <2>2. WithoutRow(past, row) = RemoveAt(past, Min(I))
    BY <1>2 DEF WithoutRow, RemoveFirstMatch, SelectInSeq
  <2> QED
    BY <2>1, <2>2, RemoveAtProperties
<1> QED
  BY <1>1, <1>2

\* updateOrdersTable keeps the types and looks after the tables only.
LEMMA UpdateTable ==
  ASSUME NEW pg, GoodPage(pg), NEW id \in DOMAIN pg.orders
  PROVE  /\ GoodPage(UpdateOrdersTable(pg, id))
         /\ SamePage(pg, UpdateOrdersTable(pg, id))
         /\ SameEntries(pg.orders, UpdateOrdersTable(pg, id).orders)
PROOF
<1> DEFINE entry  == pg.orders[id]
           fresh  == entry.row = NoRow
           row    == IF fresh THEN pg.rows + 1 ELSE entry.row
           ended  == fresh /\ Done(entry)
           full   == ended /\ pg.pastCount >= MaxPastOrders
           kept   == IF full THEN Forgotten(pg) ELSE pg.orders
           gone   == pg.pastGone \/ full
           others == WithoutRow(pg.past, row)
           new    == UpdateOrdersTable(pg, id)
           rows1  == IF fresh THEN pg.rows + 1 ELSE pg.rows
           count1 == IF ended THEN pg.pastCount + 1 ELSE pg.pastCount
           map1   == [i \in DOMAIN kept |->
                        IF i = id THEN [entry EXCEPT !.row = row] ELSE kept[i]]
           past1  == IF gone THEN << >>
                     ELSE IF Done(entry) THEN <<[row |-> row, id |-> id]>> \o others
                     ELSE others
<1>1. new = [pg EXCEPT !.orders = map1, !.rows = rows1, !.pastCount = count1,
                       !.pastGone = gone, !.past = past1]
  BY DEF UpdateOrdersTable
<1>2. /\ DOMAIN kept \subseteq DOMAIN pg.orders
      /\ \A i \in DOMAIN kept : kept[i] = pg.orders[i]
  BY DEF Forgotten
<1>3. /\ entry \in Entry /\ id \in OrderIDs /\ entry.row \in Nat
      /\ pg.rows \in Nat /\ entry.row =< pg.rows
  BY DEF GoodPage, GoodRest, GoodOrders, Entry
<1>4. /\ rows1 \in Nat /\ row \in 1..rows1 /\ pg.rows =< rows1
      /\ \A n \in Nat : n =< pg.rows => n =< rows1
  BY <1>3 DEF NoRow
<1>5. past1 \in Seq(PastRow(rows1))
  <2>1. PastRow(pg.rows) \subseteq PastRow(rows1) /\ [row |-> row, id |-> id] \in PastRow(rows1)
    BY <1>3, <1>4 DEF PastRow
  <2> HIDE DEF rows1, row, entry
  <2> HIDE DEF PastRow
  <2>2. pg.past \in Seq(PastRow(rows1))
    BY <2>1, LargerSet DEF GoodPage, GoodRest
  <2>3. others \in Seq(PastRow(rows1))
    BY <2>2, RowOut
  <2> HIDE DEF others
  <2>4. <<[row |-> row, id |-> id]>> \o others \in Seq(PastRow(rows1))
    <3>1. \A r \in PastRow(rows1) : <<r>> \in Seq(PastRow(rows1))
      OBVIOUS
    <3> QED
      BY <2>1, <2>3, <3>1, ConcatProperties
  <2> QED
    BY <2>3, <2>4
<1>6. GoodOrders(map1, rows1) /\ SameEntries(pg.orders, map1)
  <2> HIDE DEF kept, rows1, row
  <2>1. /\ [entry EXCEPT !.row = row] \in Entry
        /\ [entry EXCEPT !.row = row].row = row
        /\ [entry EXCEPT !.row = row].filled = entry.filled
        /\ [entry EXCEPT !.row = row].remaining = entry.remaining
        /\ [entry EXCEPT !.row = row].status = entry.status
    <3>1. row \in Nat
      BY <1>4
    <3> QED
      BY <1>3, <3>1, EntryRow
  <2>2. /\ DOMAIN map1 = DOMAIN kept /\ DOMAIN pg.orders \subseteq OrderIDs
        /\ \A i \in DOMAIN map1 : map1[i] = IF i = id THEN [entry EXCEPT !.row = row]
                                             ELSE pg.orders[i]
    BY <1>2 DEF GoodPage, GoodOrders
  <2>3. \A i \in DOMAIN pg.orders : /\ pg.orders[i] \in Entry /\ pg.orders[i].row \in Nat
                                     /\ pg.orders[i].row =< rows1
    BY <1>4 DEF GoodPage, GoodOrders, Entry
  <2> HIDE DEF map1
  <2>4. GoodOrders(map1, rows1)
    <3>1. row =< rows1
      BY <1>4
    <3>2. \A i \in DOMAIN map1 : map1[i] \in Entry /\ map1[i].row =< rows1
      BY <1>2, <2>1, <2>2, <2>3, <3>1
    <3> QED
      BY <1>2, <2>2, <3>2 DEF GoodOrders
  <2>5. SameEntries(pg.orders, map1)
    BY <1>2, <2>1, <2>2 DEF SameEntries
  <2> QED
    BY <2>4, <2>5
<1> HIDE DEF map1, rows1, count1, gone, past1, new
<1>7. /\ DOMAIN new = DOMAIN pg
      /\ new.orders = map1 /\ new.rows = rows1 /\ new.past = past1
      /\ new.quoted = pg.quoted /\ new.paid = pg.paid /\ new.position = pg.position
      /\ new.money = pg.money /\ new.nextID = pg.nextID /\ new.broken = pg.broken
  <2>1. DOMAIN pg = PageFields
    BY DEF GoodPage, GoodRest
  <2> QED
    BY <1>1, <2>1 DEF PageFields
<1>8. SamePage(pg, new)
  BY <1>7 DEF SamePage
<1>9. GoodRest(new)
  BY <1>4, <1>5, <1>7 DEF GoodPage, GoodRest
<1> QED
  BY <1>6, <1>7, <1>8, <1>9 DEF GoodPage, new

\* Messages about orders that tell of no negative fill.
Reports == {m \in OrderMessage : m.filled \in Nat}

\* What a page is sent.
Mail ==
  [kind : {"new_user"}, money : Int] \cup
  [kind : {"quote"}, symbol : Symbols] \cup
  [kind : {"order"}, response : Reports] \cup
  [kind : {"cancel"}, response : CancelMessages]

\* An order message about the order id, for a security the page knows.
Answers(msg, id, pg) ==
  msg.kind = "order" /\ msg.response.id = id /\ msg.response.symbol \in pg.quoted

Pending(pg, id) == id \in DOMAIN pg.orders /\ pg.orders[id].status = "Pending"

\* Another map of orders of the right type.
LEMMA OtherOrders ==
  ASSUME NEW pg, GoodPage(pg), NEW map, GoodOrders(map, pg.rows)
  PROVE  /\ GoodPage([pg EXCEPT !.orders = map])
         /\ SamePage(pg, [pg EXCEPT !.orders = map])
         /\ [pg EXCEPT !.orders = map].orders = map
PROOF
<1> DEFINE new == [pg EXCEPT !.orders = map]
<1>1. DOMAIN pg = PageFields
  BY DEF GoodPage, GoodRest
<1>2. /\ DOMAIN new = DOMAIN pg /\ new.orders = map
      /\ new.rows = pg.rows /\ new.past = pg.past
      /\ new.quoted = pg.quoted /\ new.paid = pg.paid /\ new.position = pg.position
      /\ new.money = pg.money /\ new.nextID = pg.nextID /\ new.broken = pg.broken
  BY <1>1 DEF PageFields
<1> HIDE DEF new
<1>3. SamePage(pg, new)
  BY <1>2 DEF SamePage
<1>4. GoodPage(new)
  BY <1>2 DEF GoodPage, GoodRest
<1> QED
  BY <1>2, <1>3, <1>4 DEF new

\* sendOrder
LEMMA PageSends ==
  ASSUME NEW pg, GoodPage(pg), pg.nextID <= MaxPageOrders, NEW quantity \in Int
  PROVE  /\ GoodPage(SendOrder(pg, quantity))
         /\ pg.nextID \in OrderIDs
         /\ SendOrder(pg, quantity).nextID = pg.nextID + 1
         /\ SendOrder(pg, quantity).quoted = pg.quoted
         /\ SendOrder(pg, quantity).money = pg.money
         /\ \A i : Pending(SendOrder(pg, quantity), i) => i = pg.nextID \/ Pending(pg, i)
PROOF
<1> DEFINE id    == pg.nextID
           entry == NewEntry(quantity)
           map   == Entered(pg.orders, id, entry)
           mid   == [pg EXCEPT !.orders = map]
           table == UpdateOrdersTable(mid, id)
           new   == SendOrder(pg, quantity)
<1>1. /\ id \in OrderIDs /\ id + 1 \in 1..(MaxPageOrders + 1)
      /\ pg.rows \in Nat
  BY MaxPageOrdersAssumption, MaxIDAssumption DEF GoodPage, GoodRest, OrderIDs
<1>2. entry \in Entry /\ entry.row =< pg.rows
  BY <1>1 DEF NewEntry, Entry, NoRow
<1> HIDE DEF entry
<1>0. GoodOrders(pg.orders, pg.rows)
  BY DEF GoodPage
<1> HIDE DEF id
<1>3. /\ GoodOrders(map, pg.rows) /\ id \in DOMAIN map
      /\ DOMAIN map = DOMAIN pg.orders \cup {id}
      /\ \A i \in DOMAIN pg.orders \ {id} : map[i] = pg.orders[i]
  <2>1. GoodOrders(map, pg.rows)
    BY <1>0, <1>1, <1>2 DEF GoodOrders, Entered
  <2> QED
    BY <1>1, <2>1 DEF Entered
<1> HIDE DEF map
<1>4. GoodPage(mid) /\ SamePage(pg, mid) /\ mid.orders = map
  BY <1>3, OtherOrders
<1> HIDE DEF mid
<1>5. GoodPage(table) /\ SamePage(mid, table) /\ SameEntries(map, table.orders)
  BY <1>3, <1>4, UpdateTable
<1>6. new = [table EXCEPT !.nextID = @ + 1]
  BY DEF SendOrder, mid, map, entry, id
<1> HIDE DEF table, new
<1>7. /\ DOMAIN new = DOMAIN table /\ new.orders = table.orders
      /\ new.rows = table.rows /\ new.past = table.past
      /\ new.quoted = table.quoted /\ new.paid = table.paid
      /\ new.position = table.position
      /\ new.money = table.money /\ new.nextID = table.nextID + 1
  BY <1>5, <1>6 DEF GoodPage, GoodRest, PageFields
<1>8. table.nextID = id /\ table.quoted = pg.quoted /\ table.money = pg.money
  BY <1>4, <1>5 DEF SamePage, id
<1>9. GoodPage(new)
  BY <1>1, <1>5, <1>7, <1>8 DEF GoodPage, GoodRest
<1>10. ASSUME NEW i, Pending(new, i), i # id PROVE Pending(pg, i)
  <2>1. i \in DOMAIN map /\ map[i].status = "Pending"
    BY <1>5, <1>7, <1>10 DEF Pending, SameEntries
  <2> QED
    BY <1>3, <1>10, <2>1 DEF Pending
<1> QED
  BY <1>1, <1>7, <1>8, <1>9, <1>10 DEF new, id

\* sendOrder without a price
LEMMA PageSendsNothing ==
  ASSUME NEW pg, GoodPage(pg), pg.nextID <= MaxPageOrders
  PROVE  /\ GoodPage(SendInvalid(pg))
         /\ SendInvalid(pg).nextID = pg.nextID + 1
         /\ SendInvalid(pg).quoted = pg.quoted
         /\ SendInvalid(pg).money = pg.money
         /\ SendInvalid(pg).orders = pg.orders
PROOF
<1> DEFINE new == SendInvalid(pg)
<1>1. DOMAIN pg = PageFields /\ pg.nextID + 1 \in 1..(MaxPageOrders + 1)
  BY MaxPageOrdersAssumption, MaxIDAssumption DEF GoodPage, GoodRest
<1>2. new = [pg EXCEPT !.nextID = pg.nextID + 1]
  BY DEF SendInvalid
<1>3. /\ DOMAIN new = DOMAIN pg /\ new.orders = pg.orders
      /\ new.rows = pg.rows /\ new.past = pg.past
      /\ new.quoted = pg.quoted /\ new.paid = pg.paid /\ new.position = pg.position
      /\ new.money = pg.money /\ new.nextID = pg.nextID + 1
  BY <1>1, <1>2 DEF PageFields
<1> HIDE DEF new
<1>4. GoodPage(new)
  BY <1>1, <1>3 DEF GoodPage, GoodRest
<1> QED
  BY <1>3, <1>4 DEF new

\* The page that was just loaded.
LEMMA FreshPage == GoodPage(NewPage) /\ NewPage.orders = << >> /\ NewPage.nextID = 1
PROOF
<1>1. /\ DOMAIN NewPage = PageFields /\ NewPage.orders = << >> /\ NewPage.quoted = {}
      /\ NewPage.paid = << >> /\ NewPage.position = << >> /\ NewPage.money = 0
      /\ NewPage.nextID = 1 /\ NewPage.rows = 0 /\ NewPage.past = << >>
  BY DEF NewPage, PageFields
<1>2. /\ << >> \in [{} -> Int] /\ << >> \in [{} -> Nat] /\ << >> \in Seq(PastRow(0))
      /\ 1 \in 1..(MaxPageOrders + 1)
  BY MaxPageOrdersAssumption, MaxIDAssumption
<1>3. DOMAIN << >> = {}
  OBVIOUS
<1> QED
  BY <1>1, <1>2, <1>3 DEF GoodPage, GoodRest, GoodOrders

\* What a message adds to the money a page shows.
MoneyOf(msg) == IF msg.kind = "order" THEN msg.response.money ELSE 0

\* What is so of a page that has handled a message.
WellHandled(pg, msg, new) ==
  /\ GoodPage(new)
  /\ new.nextID = pg.nextID
  /\ pg.quoted \subseteq new.quoted
  /\ msg.kind = "quote" => msg.symbol \in new.quoted
  /\ new.money = IF msg.kind = "new_user" THEN msg.money ELSE pg.money + MoneyOf(msg)
  /\ \A i : Pending(new, i) => Pending(pg, i) /\ ~Answers(msg, i, pg)

\* handleNewUser
LEMMA HandlesNewUser ==
  ASSUME NEW pg, GoodPage(pg), NEW msg \in Mail, msg.kind = "new_user"
  PROVE  WellHandled(pg, msg, HandleNewUser(pg, msg.money))
PROOF
<1> DEFINE new == HandleNewUser(pg, msg.money)
<1>1. DOMAIN pg = PageFields
  BY DEF GoodPage, GoodRest
<1>2. msg.money \in Int
  BY DEF Mail
<1>3. new = [pg EXCEPT !.money = msg.money]
  BY DEF HandleNewUser
<1>4. /\ DOMAIN new = DOMAIN pg /\ new.orders = pg.orders
      /\ new.rows = pg.rows /\ new.past = pg.past
      /\ new.quoted = pg.quoted /\ new.paid = pg.paid /\ new.position = pg.position
      /\ new.money = msg.money /\ new.nextID = pg.nextID
  BY <1>1, <1>3 DEF PageFields
<1> HIDE DEF new
<1>5. GoodPage(new)
  BY <1>2, <1>4 DEF GoodPage, GoodRest
<1>6. \A i : Pending(new, i) => Pending(pg, i) /\ ~Answers(msg, i, pg)
  BY <1>4 DEF Pending, Answers
<1> QED
  BY <1>4, <1>5, <1>6 DEF WellHandled, new

\* handleQuote
LEMMA HandlesQuote ==
  ASSUME NEW pg, GoodPage(pg), NEW msg \in Mail, msg.kind = "quote"
  PROVE  WellHandled(pg, msg, HandleQuote(pg, msg.symbol))
PROOF
<1> DEFINE symbol == msg.symbol
           new    == HandleQuote(pg, symbol)
           paid1  == Entered(pg.paid, symbol, 0)
           pos1   == Entered(pg.position, symbol, 0)
<1>1. /\ DOMAIN pg = PageFields /\ pg.quoted \subseteq Symbols
      /\ pg.paid \in [pg.quoted -> Int] /\ pg.position \in [pg.quoted -> Nat]
      /\ pg.money \in Int
  BY DEF GoodPage, GoodRest
<1>2. symbol \in Symbols
  BY DEF Mail
<1>3. MoneyOf(msg) = 0 /\ \A i : ~Answers(msg, i, pg)
  BY DEF MoneyOf, Answers
<1>4. CASE symbol \in pg.quoted
  <2>1. new = pg
    BY <1>4 DEF HandleQuote
  <2> QED
    BY <1>1, <1>3, <1>4, <2>1 DEF WellHandled
<1>5. CASE symbol \notin pg.quoted
  <2>1. /\ paid1 \in [pg.quoted \cup {symbol} -> Int]
        /\ pos1 \in [pg.quoted \cup {symbol} -> Nat]
    BY <1>1 DEF Entered
  <2>2. new = [pg EXCEPT !.quoted = pg.quoted \cup {symbol}, !.paid = paid1,
                         !.position = pos1]
    BY <1>5 DEF HandleQuote
  <2> HIDE DEF paid1, pos1, symbol
  <2>3. /\ DOMAIN new = DOMAIN pg /\ new.orders = pg.orders
        /\ new.rows = pg.rows /\ new.past = pg.past
        /\ new.quoted = pg.quoted \cup {symbol} /\ new.paid = paid1
        /\ new.position = pos1 /\ new.money = pg.money /\ new.nextID = pg.nextID
    BY <1>1, <2>2 DEF PageFields
  <2> HIDE DEF new
  <2>4. GoodPage(new)
    BY <1>2, <2>1, <2>3 DEF GoodPage, GoodRest
  <2>5. \A i : Pending(new, i) => Pending(pg, i)
    BY <2>3 DEF Pending
  <2>6. new.money = pg.money + MoneyOf(msg)
    BY <1>1, <1>3, <2>3
  <2> QED
    BY <1>3, <2>3, <2>4, <2>5, <2>6 DEF WellHandled, new, symbol
<1> QED
  BY <1>4, <1>5

\* An entry is cancelled.
LEMMA EntryCancelled ==
  ASSUME NEW e \in Entry
  PROVE  /\ [e EXCEPT !.status = "Canceled", !.remaining = 0] \in Entry
         /\ [e EXCEPT !.status = "Canceled", !.remaining = 0].row = e.row
         /\ [e EXCEPT !.status = "Canceled", !.remaining = 0].status = "Canceled"
PROOF
<1>1. \A d \in Entry : /\ [d EXCEPT !.status = "Canceled"] \in Entry
                       /\ [d EXCEPT !.status = "Canceled"].row = d.row
                       /\ [d EXCEPT !.status = "Canceled"].status = "Canceled"
  BY DEF Entry
<1>2. \A d \in Entry, n \in Int : /\ [d EXCEPT !.remaining = n] \in Entry
                                  /\ [d EXCEPT !.remaining = n].row = d.row
                                  /\ [d EXCEPT !.remaining = n].status = d.status
  BY DEF Entry
<1>3. PICK mid : mid = [e EXCEPT !.status = "Canceled"]
  OBVIOUS
<1>4. mid \in Entry /\ mid.row = e.row /\ mid.status = "Canceled"
  BY <1>1, <1>3
<1>5. /\ [mid EXCEPT !.remaining = 0] \in Entry
      /\ [mid EXCEPT !.remaining = 0].row = e.row
      /\ [mid EXCEPT !.remaining = 0].status = "Canceled"
  BY <1>2, <1>4
<1>6. [mid EXCEPT !.remaining = 0] = [e EXCEPT !.status = "Canceled", !.remaining = 0]
  BY <1>3
<1> QED
  BY <1>5, <1>6

\* An entry is told of a fill.
LEMMA EntryHeard ==
  ASSUME NEW e \in Entry, NEW msg \in OrderMessage
  PROVE  /\ Heard(e, msg) \in Entry
         /\ Heard(e, msg).row = e.row
         /\ Heard(e, msg).status = e.status
         /\ [Heard(e, msg) EXCEPT !.status = StatusOf(msg.action)] \in Entry
         /\ [Heard(e, msg) EXCEPT !.status = StatusOf(msg.action)].row = e.row
         /\ [Heard(e, msg) EXCEPT !.status = StatusOf(msg.action)].status # "Pending"
PROOF
<1>1. /\ msg.remaining \in Int /\ msg.filled \in Int
      /\ msg.action \in {Filled, Partly, Rests, Failed} /\ e.filled \in Nat
  BY DEF OrderMessage, Entry
<1> DEFINE n == e.filled + Magnitude(msg.filled)
           s == StatusOf(msg.action)
           h == Heard(e, msg)
<1>2. n \in Nat
  <2>1. \A f \in Int : Magnitude(f) \in Nat
    BY DEF Magnitude
  <2> QED
    BY <1>1, <2>1
<1>3. s \in {"Filled", "Partial Filled", "Resting", "Canceled"}
  <2>1. /\ StatusOf(0) = "Filled" /\ StatusOf(1) = "Partial Filled"
        /\ StatusOf(2) = "Resting" /\ StatusOf(3) = "Canceled"
    BY DEF StatusOf, Status
  <2>2. msg.action \in {0, 1, 2, 3}
    BY <1>1 DEF Filled, Partly, Rests, Failed
  <2> QED
    BY <2>1, <2>2
<1>4. h = [e EXCEPT !.remaining = msg.remaining, !.filled = n]
  BY DEF Heard
<1> HIDE DEF n, s, h
<1>5. h \in Entry /\ h.row = e.row /\ h.status = e.status
  BY <1>1, <1>2, <1>4 DEF Entry
<1>6. /\ [h EXCEPT !.status = s] \in Entry /\ [h EXCEPT !.status = s].row = h.row
      /\ [h EXCEPT !.status = s].status = s
  BY <1>3, <1>5 DEF Entry
<1>7. s # "Pending"
  BY <1>3
<1> QED
  BY <1>5, <1>6, <1>7 DEF h, s

\* handleCancel
LEMMA HandlesCancel ==
  ASSUME NEW pg, GoodPage(pg), NEW msg \in Mail, msg.kind = "cancel"
  PROVE  WellHandled(pg, msg, HandleCancel(pg, msg.response))
PROOF
<1> DEFINE id    == msg.response.id
           entry == [pg.orders[id] EXCEPT !.status = "Canceled", !.remaining = 0]
           map   == [pg.orders EXCEPT ![id] = entry]
           mid   == [pg EXCEPT !.orders = map]
           new   == HandleCancel(pg, msg.response)
<1>1. DOMAIN pg = PageFields /\ pg.money \in Int /\ GoodOrders(pg.orders, pg.rows)
  BY DEF GoodPage, GoodRest
<1>2. MoneyOf(msg) = 0 /\ \A i : ~Answers(msg, i, pg)
  BY DEF MoneyOf, Answers
<1>3. CASE new = pg
  BY <1>1, <1>2, <1>3 DEF WellHandled
<1>4. CASE new # pg
  <2>1. id \in DOMAIN pg.orders /\ new = UpdateOrdersTable(mid, id)
    <3>1. /\ id \in DOMAIN pg.orders
          /\ new = UpdateOrdersTable([pg EXCEPT !.orders[id].status = "Canceled",
                                                !.orders[id].remaining = 0], id)
      BY <1>4 DEF HandleCancel
    <3>2. mid = [pg EXCEPT !.orders[id].status = "Canceled", !.orders[id].remaining = 0]
      BY <1>1, <3>1 DEF PageFields
    <3> QED
      BY <3>1, <3>2
  <2>2. pg.orders[id] \in Entry /\ pg.orders[id].row =< pg.rows
    BY <1>1, <2>1 DEF GoodOrders
  <2>3. entry \in Entry /\ entry.row =< pg.rows /\ entry.status = "Canceled"
    <3>1. /\ entry \in Entry /\ entry.status = "Canceled"
          /\ entry.row = pg.orders[id].row
      BY <2>2, EntryCancelled
    <3> QED
      BY <2>2, <3>1
  <2> HIDE DEF entry
  <2>4. GoodOrders(map, pg.rows) /\ DOMAIN map = DOMAIN pg.orders /\ map[id] = entry
    BY <1>1, <2>1, <2>3 DEF GoodOrders
  <2>5. \A i \in DOMAIN map : i # id => map[i] = pg.orders[i]
    BY <2>1
  <2> HIDE DEF map
  <2>6. GoodPage(mid) /\ SamePage(pg, mid) /\ mid.orders = map
    BY <2>4, OtherOrders
  <2> HIDE DEF mid, id
  <2>7. GoodPage(new) /\ SamePage(mid, new) /\ SameEntries(map, new.orders)
    BY <2>1, <2>4, <2>6, UpdateTable
  <2> HIDE DEF new
  <2>8. \A i : Pending(new, i) => Pending(pg, i)
    BY <2>3, <2>4, <2>5, <2>7 DEF Pending, SameEntries
  <2>9. /\ new.nextID = pg.nextID /\ new.quoted = pg.quoted
        /\ new.money = pg.money + MoneyOf(msg)
    BY <1>1, <1>2, <2>6, <2>7 DEF SamePage
  <2> QED
    BY <1>2, <2>7, <2>8, <2>9 DEF WellHandled, new
<1> QED
  BY <1>3, <1>4

\* handleOrder of a security the page has no quote of
LEMMA HandlesUnquoted ==
  ASSUME NEW pg, GoodPage(pg), NEW msg \in Mail, msg.kind = "order",
         msg.response.symbol \notin pg.quoted
  PROVE  WellHandled(pg, msg, HandleOrder(pg, msg.response))
PROOF
<1> DEFINE m     == msg.response
           id    == m.id
           known == id \in DOMAIN pg.orders
           entry == Heard(pg.orders[id], m)
           map   == IF known THEN Entered(pg.orders, id, entry) ELSE pg.orders
           mid   == [pg EXCEPT !.orders = map]
           new   == HandleOrder(pg, m)
<1>1. m \in OrderMessage /\ m.money \in Int /\ id \in OrderIDs
  BY DEF Mail, Reports, OrderMessage
<1>2. DOMAIN pg = PageFields /\ pg.money \in Int /\ GoodOrders(pg.orders, pg.rows)
  BY DEF GoodPage, GoodRest
<1>3. /\ MoneyOf(msg) = m.money
      /\ \A i : ~Answers(msg, i, pg)
  BY DEF MoneyOf, Answers
<1>4. new = [pg EXCEPT !.money = pg.money + m.money, !.orders = map, !.broken = TRUE]
  <2>1. new = [[pg EXCEPT !.money = @ + m.money] EXCEPT
                  !.orders = IF known THEN Entered(@, id, entry) ELSE @,
                  !.broken = TRUE]
    BY DEF HandleOrder
  <2> HIDE DEF entry
  <2> QED
    BY <1>2, <2>1 DEF PageFields
<1>5. /\ GoodOrders(map, pg.rows) /\ DOMAIN map = DOMAIN pg.orders
      /\ \A i \in DOMAIN map : map[i].status = pg.orders[i].status
  <2>1. CASE ~known
    BY <1>2, <2>1
  <2>2. CASE known
    <3>1. pg.orders[id] \in Entry /\ pg.orders[id].row =< pg.rows
      BY <1>2, <2>2 DEF GoodOrders
    <3>2. /\ entry \in Entry /\ entry.row =< pg.rows
          /\ entry.status = pg.orders[id].status
      BY <1>1, <3>1, EntryHeard
    <3> HIDE DEF entry
    <3> QED
      BY <1>1, <1>2, <2>2, <3>2 DEF GoodOrders, Entered
  <2> QED
    BY <2>1, <2>2
<1> HIDE DEF map, m, new
<1>6. /\ DOMAIN new = DOMAIN pg /\ new.orders = map
      /\ new.rows = pg.rows /\ new.past = pg.past
      /\ new.quoted = pg.quoted /\ new.paid = pg.paid /\ new.position = pg.position
      /\ new.money = pg.money + m.money /\ new.nextID = pg.nextID
  BY <1>2, <1>4 DEF PageFields
<1>7. GoodPage(new)
  BY <1>1, <1>2, <1>5, <1>6 DEF GoodPage, GoodRest
<1>8. \A i : Pending(new, i) => Pending(pg, i)
  BY <1>5, <1>6 DEF Pending
<1> QED
  BY <1>3, <1>6, <1>7, <1>8 DEF WellHandled, new, m

\* handleOrder of a security the page has a quote of
LEMMA HandlesOrder ==
  ASSUME NEW pg, GoodPage(pg), NEW msg \in Mail, msg.kind = "order",
         msg.response.symbol \in pg.quoted
  PROVE  WellHandled(pg, msg, HandleOrder(pg, msg.response))
PROOF
<1> DEFINE m     == msg.response
           id    == m.id
           sym   == m.symbol
           known == id \in DOMAIN pg.orders
           heard == Heard(IF known THEN pg.orders[id] ELSE NewEntry(m.remaining), m)
           entry == [heard EXCEPT !.status = StatusOf(m.action)]
           map   == Entered(pg.orders, id, entry)
           paid1 == [pg.paid EXCEPT ![sym] = @ + m.money]
           pos1  == [pg.position EXCEPT ![sym] = @ + m.filled]
           mid   == [pg EXCEPT !.money = pg.money + m.money, !.orders = map,
                               !.paid = paid1, !.position = pos1]
           new   == HandleOrder(pg, m)
<1>1. /\ m \in OrderMessage /\ m.money \in Int /\ id \in OrderIDs /\ m.filled \in Nat
      /\ m.remaining \in Int
  BY DEF Mail, Reports, OrderMessage
<1>2. /\ DOMAIN pg = PageFields /\ pg.money \in Int /\ GoodOrders(pg.orders, pg.rows)
      /\ pg.paid \in [pg.quoted -> Int] /\ pg.position \in [pg.quoted -> Nat]
      /\ pg.rows \in Nat
  BY DEF GoodPage, GoodRest
<1>3. /\ MoneyOf(msg) = m.money
      /\ \A i : Answers(msg, i, pg) => i = id
  BY DEF MoneyOf, Answers
<1>4. new = UpdateOrdersTable(mid, id)
  <2>1. new = UpdateOrdersTable(
                [[pg EXCEPT !.money = @ + m.money] EXCEPT
                   !.orders = Entered(@, id, entry),
                   !.paid[sym] = @ + m.money,
                   !.position[sym] = @ + m.filled], id)
    BY DEF HandleOrder
  <2>2. [[pg EXCEPT !.money = @ + m.money] EXCEPT
           !.orders = Entered(@, id, entry),
           !.paid[sym] = @ + m.money,
           !.position[sym] = @ + m.filled] = mid
    <3> HIDE DEF entry, m, sym, id
    <3> QED
      BY <1>2 DEF PageFields
  <2> QED
    BY <2>1, <2>2
<1>5. entry \in Entry /\ entry.row =< pg.rows /\ entry.status # "Pending"
  <2>1. PICK e : e = IF known THEN pg.orders[id] ELSE NewEntry(m.remaining)
    OBVIOUS
  <2>2. e \in Entry /\ e.row =< pg.rows
    <3>1. CASE known
      BY <1>2, <2>1, <3>1 DEF GoodOrders
    <3>2. CASE ~known
      BY <1>1, <1>2, <2>1, <3>2 DEF NewEntry, Entry, NoRow
    <3> QED
      BY <3>1, <3>2
  <2>3. entry = [Heard(e, m) EXCEPT !.status = StatusOf(m.action)]
    BY <2>1
  <2> HIDE DEF entry, m
  <2> QED
    BY <1>1, <2>2, <2>3, EntryHeard
<1> HIDE DEF entry
<1>6. /\ GoodOrders(map, pg.rows) /\ id \in DOMAIN map /\ map[id] = entry
      /\ DOMAIN map = DOMAIN pg.orders \cup {id}
      /\ \A i \in DOMAIN pg.orders \ {id} : map[i] = pg.orders[i]
  BY <1>1, <1>2, <1>5 DEF GoodOrders, Entered
<1>7. paid1 \in [pg.quoted -> Int] /\ pos1 \in [pg.quoted -> Nat]
  BY <1>1, <1>2
<1> HIDE DEF map, paid1, pos1, m, id
<1>8. /\ DOMAIN mid = DOMAIN pg /\ mid.orders = map
      /\ mid.rows = pg.rows /\ mid.past = pg.past
      /\ mid.quoted = pg.quoted /\ mid.paid = paid1 /\ mid.position = pos1
      /\ mid.money = pg.money + m.money /\ mid.nextID = pg.nextID
  BY <1>2 DEF PageFields
<1> HIDE DEF mid, new
<1>9. GoodPage(mid)
  BY <1>1, <1>2, <1>6, <1>7, <1>8 DEF GoodPage, GoodRest
<1>10. GoodPage(new) /\ SamePage(mid, new) /\ SameEntries(map, new.orders)
  BY <1>4, <1>6, <1>8, <1>9, UpdateTable
<1>11. ASSUME NEW i, Pending(new, i) PROVE Pending(pg, i) /\ ~Answers(msg, i, pg)
  <2>1. i \in DOMAIN map /\ map[i].status = "Pending"
    BY <1>10, <1>11 DEF Pending, SameEntries
  <2>2. i # id
    BY <1>5, <1>6, <2>1
  <2> QED
    BY <1>3, <1>6, <2>1, <2>2 DEF Pending
<1>12. /\ new.nextID = pg.nextID /\ new.quoted = pg.quoted
       /\ new.money = pg.money + MoneyOf(msg)
  BY <1>3, <1>8, <1>10 DEF SamePage
<1> QED
  BY <1>10, <1>11, <1>12 DEF WellHandled, new, m

\* messageHandler
LEMMA PageHandles ==
  ASSUME NEW pg, GoodPage(pg), NEW msg \in Mail
  PROVE  WellHandled(pg, msg, Handled(pg, msg))
PROOF
<1>1. CASE msg.kind = "new_user"
  BY <1>1, HandlesNewUser DEF Handled
<1>2. CASE msg.kind = "quote"
  BY <1>2, HandlesQuote DEF Handled
<1>3. CASE msg.kind = "order"
  BY <1>3, HandlesOrder, HandlesUnquoted DEF Handled
<1>4. CASE msg.kind = "cancel"
  BY <1>4, HandlesCancel DEF Handled
<1> QED
  BY <1>1, <1>2, <1>3, <1>4 DEF Mail

-----------------------------------------------------------------------------
(* The exchange under the handlers *)

\* The exchange is replaced.
Replaced ==
  /\ phase = "idle"
  /\ orders' = << >> /\ book' = [symbol \in Symbols |-> {}] /\ listed' = {}
  /\ UNCHANGED <<placed, qty, money, portfolio, nextID, starts, phase, taker,
                 trades, responses, thrown>>

\* The responses are sent.
Cleared ==
  /\ phase = "idle"
  /\ responses' = << >>
  /\ UNCHANGED <<placed, qty, book, money, portfolio, nextID, listed, starts,
                 orders, phase, taker, trades, thrown>>

\* placeOrder is called.
Called(user, order, symbol, id) ==
  /\ IF symbol \in listed THEN AcceptOrder(user, order, symbol, id)
     ELSE RejectOrder(user, order, symbol, id)
  /\ UNCHANGED envVars

\* What the handlers can do to the exchange.
ExchangeMove ==
  \/ UNCHANGED exchangeVars
  \/ Replaced
  \/ Cleared
  \/ Start
  \/ \E user \in Users, order \in Orders, symbol \in Symbols, id \in OrderIDs :
       Called(user, order, symbol, id)
  \/ \E user \in Users, id \in OrderIDs : CancelOrder(user, id)
  \/ CallStep

\* They do no more.
LEMMA HandlersMove ==
  ASSUME TypeOK, SessionsAreGood, [TradingNext]_tradingVars
  PROVE  ExchangeMove
PROOF
<1>1. CASE UNCHANGED tradingVars
  BY <1>1 DEF ExchangeMove, tradingVars
<1>2. ASSUME NEW p \in Pages,
             \/ Close(p) \/ PageOrdersNothing(p) \/ ServeNewUser(p) \/ Receive(p)
             \/ ServeOrderThrows(p)
             \/ \E order \in PageMenu : PageOrders(p, order) \/ PageOrdersOffline(p, order)
      PROVE  ExchangeMove
  BY <1>2 DEF ExchangeMove, Close, PageOrdersNothing, PageOrdersOffline, PageOrders,
     ServeNewUser, ServeOrderThrows, Receive
<1>3. ASSUME NEW p \in Pages, Open(p) PROVE ExchangeMove
  <2>1. Replaced
    BY <1>3 DEF Open, NewServer, Idle, Replaced, ledgerVars
  <2> QED
    BY <2>1 DEF ExchangeMove
<1>4. ASSUME NEW u \in Bots, OpenBot(u) PROVE ExchangeMove
  <2>1. Replaced
    BY <1>4 DEF OpenBot, NewServer, Idle, Replaced, ledgerVars
  <2> QED
    BY <2>1 DEF ExchangeMove
<1>5. ASSUME NEW p \in Pages, ServeOrder(p) PROVE ExchangeMove
  <2> DEFINE m == Head(outbox[p])
             u == nameOf[session[p]]
  <2>1. /\ outbox[p] # << >> /\ m.kind = "order"
        /\ outbox' = [outbox EXCEPT ![p] = Tail(@)]
        /\ UNCHANGED <<opened, session, users, nameOf, sessionIDs>>
        /\ Called(u, m.order, m.symbol, m.id)
    BY <1>5 DEF ServeOrder, Place, Called, clientVars
  <2>2. /\ m.order \in Orders /\ m.symbol \in Symbols /\ m.id \in OrderIDs
        /\ u = UserOf[p] /\ u \in Users
    BY <2>1, SessionsRead, UserOfAssumption
  <2> HIDE DEF m, u
  <2> QED
    BY <2>1, <2>2 DEF ExchangeMove
<1>6. ASSUME NEW u \in Bots, NEW order \in BotMenu, BotOrders(u, order)
      PROVE  ExchangeMove
  <2>1. PICK symbol \in Symbols : Called(u, order, symbol, botID[u])
    BY <1>6 DEF BotOrders, Place, Called
  <2>2. u \in Users /\ order \in Orders /\ botID[u] \in OrderIDs
    BY <1>6, BotsAssumption, MenuAssumption DEF BotOrders
  <2> QED
    BY <2>1, <2>2 DEF ExchangeMove
<1>7. ASSUME NEW u \in Bots, NEW id \in OrderIDs, BotCancels(u, id)
      PROVE  ExchangeMove
  BY <1>7, BotsAssumption DEF BotCancels, ExchangeMove
<1>8. CASE StartMarket
  BY <1>8 DEF StartMarket, ExchangeMove
<1>9. ASSUME NEW symbol, Quote(symbol) PROVE ExchangeMove
  BY <1>9 DEF Quote, ExchangeMove
<1>10. CASE ExchangeStep
  BY <1>10 DEF ExchangeStep, ExchangeMove
<1>11. CASE SendResponses
  <2>1. Cleared
    BY <1>11 DEF SendResponses, Cleared, bookVars, ledgerVars, envVars
  <2> QED
    BY <2>1 DEF ExchangeMove
<1>12. ASSUME NEW p \in Pages,
              \/ Open(p) \/ Close(p)
              \/ PageOrdersNothing(p)
              \/ \E order \in PageMenu : PageOrders(p, order) \/ PageOrdersOffline(p, order)
              \/ ServeNewUser(p) \/ ServeOrder(p) \/ ServeOrderThrows(p) \/ Receive(p)
       PROVE  ExchangeMove
  BY <1>2, <1>3, <1>5, <1>12
<1>13. ASSUME NEW u \in Bots,
              \/ OpenBot(u) \/ \E order \in BotMenu : BotOrders(u, order)
              \/ \E id \in OrderIDs : BotCancels(u, id)
       PROVE  ExchangeMove
  BY <1>4, <1>6, <1>7, <1>13
<1>14. CASE TradingNext
  BY <1>8, <1>9, <1>10, <1>11, <1>12, <1>13, <1>14 DEF TradingNext
<1> QED
  BY <1>1, <1>14

\* They keep the types of the exchange.
LEMMA MovesType ==
  ASSUME TypeOK, ExchangeMove
  PROVE  TypeOK'
PROOF
<1>1. CASE UNCHANGED exchangeVars
  <2>1. UNCHANGED vars
    BY <1>1 DEF exchangeVars, vars
  <2> QED
    BY <2>1, TypeStep
<1>2. CASE Replaced
  <2>1. /\ DOMAIN orders' = {} /\ listed' \subseteq Symbols
        /\ Ids' = Ids /\ Trade' = Trade
    BY <1>2 DEF Replaced, Ids, Trade
  <2>2. book' \in [Symbols -> SUBSET Ids']
    BY <1>2 DEF Replaced
  <2> HIDE DEF Trade
  <2> QED
    BY <1>2, <2>1, <2>2 DEF Replaced, TypeOK
<1>3. CASE Cleared
  <2>1. << >> \in Seq(Messages)
    OBVIOUS
  <2> HIDE DEF Messages
  <2> QED
    BY <1>3, <2>1, TypeFrame, TypeParts DEF Cleared
<1>4. CASE Start
  BY <1>4, CallTypes
<1>5. ASSUME NEW user \in Users, NEW order \in Orders, NEW symbol \in Symbols,
             NEW id \in OrderIDs, Called(user, order, symbol, id)
      PROVE  TypeOK'
  <2>1. EnvType'
    BY <1>5 DEF Called, envVars, EnvType, TypeOK
  <2>2. user \in Senders
    BY SendersAreUsers
  <2> QED
    BY <1>5, <2>1, <2>2, AcceptType, RejectType DEF Called
<1>6. ASSUME NEW user \in Users, NEW id \in OrderIDs, CancelOrder(user, id)
      PROVE  TypeOK'
  BY <1>6, SendersAreUsers, CallTypes
<1>7. CASE CallStep
  BY <1>7, TypeStep DEF Next
<1> QED
  BY <1>1, <1>2, <1>3, <1>4, <1>5, <1>6, <1>7 DEF ExchangeMove

\* Orders are only added.
LEMMA OrdersStay ==
  ASSUME TypeOK, ExchangeMove
  PROVE  /\ Ids \subseteq Ids' /\ Len(placed) =< Len(placed')
         /\ \A o \in Ids : placed'[o] = placed[o]
PROOF
<1>0. Len(placed) \in Nat
  BY DEF TypeOK
<1>1. CASE placed' = placed
  BY <1>0, <1>1 DEF Ids
<1>2. ASSUME NEW user \in Users, NEW order \in Orders, NEW symbol \in listed,
             NEW id \in OrderIDs, AcceptOrder(user, order, symbol, id)
      PROVE  /\ Ids \subseteq Ids' /\ Len(placed) =< Len(placed')
             /\ \A o \in Ids : placed'[o] = placed[o]
  <2>1. user \in Senders
    BY SendersAreUsers
  <2>2. /\ Ids' = Ids \cup {Len(placed) + 1} /\ Len(placed') = Len(placed) + 1
        /\ \A o \in Ids : placed'[o] = placed[o] /\ qty'[o] = qty[o]
    <3>1. Accepts(user, order, symbol, id)
      BY <1>2, <2>1, Accepted
    <3> QED
      BY <3>1 DEF Accepts
  <2> QED
    BY <1>0, <2>2
<1>3. \/ placed' = placed
      \/ \E user \in Users, order \in Orders, symbol \in listed, id \in OrderIDs :
           AcceptOrder(user, order, symbol, id)
  <2>1. ASSUME NEW user \in Users, NEW order \in Orders, NEW symbol \in Symbols,
               NEW id \in OrderIDs, Called(user, order, symbol, id), placed' # placed
        PROVE  symbol \in listed /\ AcceptOrder(user, order, symbol, id)
    BY <2>1 DEF Called, RejectOrder, bookVars
  <2>2. \/ placed' = placed
        \/ \E user \in Users, order \in Orders, symbol \in Symbols, id \in OrderIDs :
             Called(user, order, symbol, id)
    BY DEF ExchangeMove, Replaced, Cleared, Start, CancelOrder, CallStep, Match,
       FinishMatching, Settle, SettleThrows, EndPlaceOrder, exchangeVars, bookVars
  <2> QED
    BY <2>1, <2>2
<1> QED
  BY <1>1, <1>2, <1>3

\* Orders that share an ID go on sharing it.
LEMMA SharedStays ==
  ASSUME TypeOK, ExchangeMove, UniqueIDs'
  PROVE  UniqueIDs
PROOF
  BY OrdersStay DEF UniqueIDs

\* They keep the invariant of the exchange as long as no two orders came under
\* the same ID.
LEMMA MovesInv ==
  ASSUME TypeOK, UniqueIDs => IInv, ExchangeMove
  PROVE  (UniqueIDs => IInv)'
PROOF
<1> SUFFICES ASSUME UniqueIDs' PROVE IInv'
  OBVIOUS
<1>1. IInv /\ TypeOK'
  BY SharedStays, MovesType
<1>2. CASE UNCHANGED exchangeVars
  <2>1. UNCHANGED vars
    BY <1>2 DEF exchangeVars, vars
  <2> QED
    BY <1>1, <2>1, InvStep
<1>3. CASE Replaced
  <2>1. /\ DOMAIN orders' = {} /\ \A symbol \in Symbols : book'[symbol] = {}
        /\ phase = "idle"
        /\ UNCHANGED <<placed, qty, phase, taker, trades, thrown>>
    BY <1>3 DEF Replaced
  <2>2. IDsAreGood'
    BY <2>1 DEF IDsAreGood, UniqueIDs, IndexHasOwnIDs
  <2>3. RestingIsGood' /\ FilledIsPending'
    BY <2>1 DEF RestingIsGood, FilledIsPending, Indexed
  <2>4. CallIsGood'
    BY <1>1, <2>1 DEF IInv, CallIsGood
  <2>5. trades = << >>
    BY <1>1, <2>1 DEF IInv, CallIsGood
  <2>6. TradesAreGood'
    BY <2>1, <2>5 DEF TradesAreGood
  <2>7. ThrowsForStrangersOnly'
    BY <1>1, <2>1 DEF IInv, ThrowsForStrangersOnly
  <2> QED
    BY <1>1, <2>2, <2>3, <2>4, <2>6, <2>7 DEF IInv
<1>4. CASE Cleared
  <2>1. /\ UNCHANGED <<placed, qty, book, orders, phase, taker, trades, thrown>>
    BY <1>4 DEF Cleared
  <2>2. IDsAreGood' /\ RestingIsGood' /\ CallIsGood'
    BY <1>1, <2>1 DEF IInv, IDsAreGood, UniqueIDs, IndexHasOwnIDs, Ids, RestingIsGood,
       CallIsGood, Indexed
  <2>3. TradesAreGood'
    BY <1>1, <2>1 DEF IInv, TradesAreGood, GoodTrade, Indexed
  <2>4. FilledIsPending' /\ ThrowsForStrangersOnly'
    BY <1>1, <2>1 DEF IInv, FilledIsPending, ThrowsForStrangersOnly, Indexed, Ids
  <2> QED
    BY <1>1, <2>2, <2>3, <2>4 DEF IInv
<1>5. ASSUME NEW user \in Users, NEW order \in Orders, NEW symbol \in Symbols,
             NEW id \in OrderIDs, Called(user, order, symbol, id)
      PROVE  IInv'
  BY <1>1, <1>5, SendersAreUsers, InvAccept, InvCalls DEF Called
<1> QED
  BY <1>1, <1>2, <1>3, <1>4, <1>5, InvCalls, InvTurns DEF ExchangeMove

\* What the exchange answers: to users, and of no negative fill.
Responses == {m \in Reports \cup CancelMessages : m.user \in Users}

\* Orders are those of users.  What rests has something left of it and rests in
\* the book of its security; what trades is not negative.
FillsAreGood ==
  /\ \A o \in Ids : placed[o].user \in Users
  /\ \A symbol \in Symbols : \A o \in book[symbol] :
       placed[o].symbol = symbol /\ qty[o] > 0 /\ (phase = "matching" => o # taker)
  /\ \A i \in 1..Len(trades) : trades[i].filled \in Nat
  /\ responses \in Seq(Responses)

\* A step that starts no matching and adds to no book.
LEMMA FillsFrame ==
  ASSUME FillsAreGood, TypeOK, phase' # "matching" \/ phase' = phase, taker' = taker \/ phase' = "idle",
         UNCHANGED <<placed, qty>>,
         \A symbol \in Symbols : book'[symbol] \subseteq book[symbol],
         trades' = trades \/ trades' = << >> \/ (trades # << >> /\ trades' = Tail(trades)),
         responses' \in Seq(Responses)
  PROVE  FillsAreGood'
PROOF
<1>1. Responses' = Responses
  BY DEF Responses, Reports, CancelMessages, OrderMessage, OrderIDs
<1>2. \A i \in 1..Len(trades') : trades'[i].filled \in Nat
  <2>1. CASE trades' = trades
    BY <2>1 DEF FillsAreGood
  <2>2. CASE trades' = << >>
    BY <2>2
  <2>3. CASE trades # << >> /\ trades' = Tail(trades)
    <3> HIDE DEF Trade
    <3>1. trades \in Seq(Trade)
      BY DEF TypeOK
    <3>2. /\ Len(trades') = Len(trades) - 1 /\ Len(trades) \in Nat
          /\ \A i \in 1..(Len(trades) - 1) : trades'[i] = trades[i + 1]
      BY <2>3, <3>1, HeadAndTail
    <3> QED
      BY <3>2 DEF FillsAreGood
  <2> QED
    BY <2>1, <2>2, <2>3
<1>3. ASSUME NEW symbol \in Symbols, NEW o \in book'[symbol]
      PROVE  placed'[o].symbol = symbol /\ qty'[o] > 0 /\ (phase' = "matching" => o # taker')
  <2>1. o \in book[symbol]
    BY <1>3
  <2> QED
    BY <2>1 DEF FillsAreGood
<1> QED
  BY <1>1, <1>2, <1>3 DEF FillsAreGood, Ids

\* A turn of the matching trades no negative quantity.
LEMMA FillsMatch ==
  ASSUME FillsAreGood, TypeOK, NEW maker \in Ids, Match(maker)
  PROVE  FillsAreGood'
PROOF
<1>1. /\ phase = "matching" /\ taker \in Ids /\ maker \in book[placed[taker].symbol]
      /\ maker # taker /\ qty[taker] > 0
      /\ UNCHANGED <<placed, phase, taker, responses>>
  BY MatchFacts DEF ledgerVars, envVars
<1>2. PICK filled \in Int :
        /\ filled = qty[maker] \/ filled = qty[taker]
        /\ filled <= qty[maker] /\ filled <= qty[taker]
        /\ qty' = [qty EXCEPT ![maker] = qty[maker] - filled, ![taker] = qty[taker] - filled]
        /\ book' = IF qty[maker] = filled
                   THEN [book EXCEPT ![placed[taker].symbol] = @ \ {maker}] ELSE book
        /\ trades' = Append(trades, MakeTrade(maker, filled))
  BY MatchFacts
<1>3. /\ placed[taker].symbol \in Symbols /\ qty[maker] \in Int /\ qty[taker] \in Int
      /\ book \in [Symbols -> SUBSET Ids]
  BY <1>1, ObjectFields, TypeParts
<1>4. qty[maker] > 0 /\ filled \in Nat
  <2>1. qty[maker] > 0
    BY <1>1, <1>3 DEF FillsAreGood
  <2> QED
    BY <1>1, <1>2, <1>3, <2>1
<1>5. /\ \A o \in Ids : o # maker /\ o # taker => qty'[o] = qty[o]
      /\ qty'[maker] = qty[maker] - filled
  <2>1. qty \in Seq(Int) /\ maker \in 1..Len(qty) /\ taker \in 1..Len(qty) /\ Ids = 1..Len(qty)
    BY <1>1 DEF TypeOK, Ids
  <2>2. qty[maker] - filled \in Int /\ qty[taker] - filled \in Int
    BY <1>3
  <2> QED
    BY <1>1, <1>2, <2>1, <2>2, ReplaceTwo
<1>6. ASSUME NEW symbol \in Symbols, NEW o \in book'[symbol]
      PROVE  placed'[o].symbol = symbol /\ qty'[o] > 0 /\ o # taker'
  <2>1. /\ o \in book[symbol] /\ o \in Ids
        /\ qty[maker] = filled /\ symbol = placed[taker].symbol => o # maker
    BY <1>2, <1>3, <1>6
  <2>2. placed[o].symbol = symbol /\ qty[o] > 0 /\ o # taker
    BY <1>1, <2>1 DEF FillsAreGood
  <2>3. CASE o = maker
    <3>1. placed[maker].symbol = placed[taker].symbol
      BY <1>1, <1>3 DEF FillsAreGood
    <3>2. qty[maker] # filled
      BY <2>1, <2>2, <2>3, <3>1
    <3> QED
      BY <1>1, <1>2, <1>3, <1>5, <2>2, <2>3, <3>2
  <2>4. CASE o # maker
    BY <1>1, <1>5, <2>1, <2>2, <2>4
  <2> QED
    BY <2>3, <2>4
<1>7. \A i \in 1..Len(trades') : trades'[i].filled \in Nat
  <2>1. MakeTrade(maker, filled) \in Trade /\ MakeTrade(maker, filled).filled = filled
    BY <1>1, TradeFields DEF MakeTrade
  <2> HIDE DEF Trade
  <2>2. /\ trades \in Seq(Trade) /\ Len(trades) \in Nat
        /\ Len(trades') = Len(trades) + 1
        /\ \A i \in 1..Len(trades) : trades'[i] = trades[i]
        /\ trades'[Len(trades) + 1] = MakeTrade(maker, filled)
    <3>1. trades \in Seq(Trade)
      BY DEF TypeOK
    <3> QED
      BY <1>2, <2>1, <3>1, OneMore
  <2>3. \A i \in 1..Len(trades) : trades[i].filled \in Nat
    BY DEF FillsAreGood
  <2> QED
    BY <1>4, <2>1, <2>2, <2>3
<1>8. Responses' = Responses
  BY DEF Responses, Reports, CancelMessages, OrderMessage, OrderIDs
<1> QED
  BY <1>1, <1>6, <1>7, <1>8 DEF FillsAreGood, Ids

\* handleOrder returns.
LEMMA FillsFinish ==
  ASSUME FillsAreGood, TypeOK, FinishMatching
  PROVE  FillsAreGood'
PROOF
<1>1. /\ phase = "matching" /\ phase' = "settling"
      /\ UNCHANGED <<placed, taker, trades, responses>>
      /\ \/ /\ qty[taker] > 0 /\ UNCHANGED qty
            /\ book' = [book EXCEPT ![placed[taker].symbol] = @ \cup {taker}]
         \/ UNCHANGED <<book, qty>>
         \/ qty' = [qty EXCEPT ![taker] = 0] /\ UNCHANGED book
  BY DEF FinishMatching
<1>2. /\ taker \in Ids /\ placed[taker].symbol \in Symbols /\ qty \in Seq(Int)
      /\ Ids = 1..Len(qty) /\ book \in [Symbols -> SUBSET Ids]
  BY <1>1, ObjectFields, TypeParts DEF TypeOK, Ids
<1>3. \A o \in Ids : o # taker => qty'[o] = qty[o]
  BY <1>1, <1>2
<1>4. ASSUME NEW symbol \in Symbols, NEW o \in book'[symbol]
      PROVE  placed'[o].symbol = symbol /\ qty'[o] > 0 /\ phase' # "matching"
  <2>1. CASE o \in book[symbol]
    <3>1. placed[o].symbol = symbol /\ qty[o] > 0 /\ o # taker /\ o \in Ids
      BY <1>1, <1>2, <2>1 DEF FillsAreGood
    <3> QED
      BY <1>1, <1>3, <3>1
  <2>2. CASE o \notin book[symbol]
    <3>1. o = taker /\ symbol = placed[taker].symbol /\ qty[taker] > 0 /\ qty' = qty
      BY <1>1, <1>2, <1>4, <2>2
    <3> QED
      BY <1>1, <3>1
  <2> QED
    BY <2>1, <2>2
<1>5. Responses' = Responses
  BY DEF Responses, Reports, CancelMessages, OrderMessage, OrderIDs
<1> QED
  BY <1>1, <1>4, <1>5 DEF FillsAreGood, Ids

\* The confirmations of a trade tell of no negative fill.
LEMMA ConfirmationsReport ==
  ASSUME FillsAreGood, TypeOK, NEW trade \in Trade, trade.filled \in Nat,
         MakerID(trade) \in DOMAIN orders, TakerID(trade) \in DOMAIN orders
  PROVE  Confirmations(trade) \in Seq(Responses)
PROOF
<1>1. Confirmations(trade) \in Seq(Messages) /\ Len(Confirmations(trade)) = 2
  BY ConfirmationsType
<1> PICK amount : amount = Sidemult(trade) * trade.filled * trade.price
  OBVIOUS
<1>2. /\ Confirmations(trade)[1] =
           Confirmation(placed[trade.maker].user, MakerID(trade), trade.filled,
                        trade.makerRemaining, -amount)
      /\ Confirmations(trade)[2] =
           Confirmation(placed[trade.taker].user, TakerID(trade), trade.filled,
                        trade.takerRemaining, amount)
  BY DEF Confirmations
<1>3. \A i \in 1..2 : Confirmations(trade)[i] \in Messages
  <2> HIDE DEF Messages
  <2> QED
    BY <1>1, ElementsInSet
<1>4. \A i \in 1..2 : /\ DOMAIN Confirmations(trade)[i] # DOMAIN CancelMessage(0, 0, 0)
                      /\ Confirmations(trade)[i].filled = trade.filled
                      /\ Confirmations(trade)[i].user \in Users
  <2>1. \A u, id, r, m :
          /\ "filled" \in DOMAIN Confirmation(u, id, trade.filled, r, m)
          /\ Confirmation(u, id, trade.filled, r, m).filled = trade.filled
          /\ Confirmation(u, id, trade.filled, r, m).user = u
    BY DEF Confirmation
  <2>2. "filled" \notin DOMAIN CancelMessage(0, 0, 0)
    BY DEF CancelMessage
  <2>3. placed[trade.maker].user \in Users /\ placed[trade.taker].user \in Users
    BY DEF Trade, FillsAreGood
  <2> QED
    BY <1>2, <2>1, <2>2, <2>3
<1>5. ASSUME NEW m \in Messages, m.filled \in Nat, m.user \in Users,
             DOMAIN m # DOMAIN CancelMessage(0, 0, 0)
      PROVE  m \in Responses
  BY <1>5 DEF Messages, Responses, Reports, CancelMessages, CancelMessage
<1>6. \A i \in 1..2 : Confirmations(trade)[i] \in Responses
  BY <1>3, <1>4, <1>5
<1> HIDE DEF Messages
<1> QED
  BY <1>1, <1>6, OverTheSet

\* A turn of the loop over the trades.
LEMMA FillsSettle ==
  ASSUME FillsAreGood, TypeOK, Settle
  PROVE  FillsAreGood'
PROOF
<1>1. /\ trades # << >> /\ trades' = Tail(trades)
      /\ MakerID(Head(trades)) \in DOMAIN orders /\ TakerID(Head(trades)) \in DOMAIN orders
      /\ responses' = responses \o Confirmations(Head(trades))
      /\ UNCHANGED <<placed, qty, book, phase, taker>>
  BY DEF Settle, bookVars
<1>2. Head(trades) \in Trade /\ Head(trades).filled \in Nat
  <2>1. trades \in Seq(Trade)
    BY DEF TypeOK
  <2> HIDE DEF Trade
  <2>2. Head(trades) \in Trade /\ Head(trades) = trades[1] /\ 1 \in 1..Len(trades)
    BY <1>1, <2>1, HeadAndTail
  <2> QED
    BY <2>2 DEF FillsAreGood
<1>3. Confirmations(Head(trades)) \in Seq(Responses)
  BY <1>1, <1>2, ConfirmationsReport
<1>4. responses' \in Seq(Responses)
  BY <1>1, <1>3, ConcatInSet DEF FillsAreGood
<1> QED
  BY <1>1, <1>4, FillsFrame

\* The other steps of a call and of the administrator.
LEMMA FillsOthers ==
  ASSUME FillsAreGood, TypeOK,
         \/ SettleThrows \/ EndPlaceOrder \/ Start \/ Replaced \/ Cleared
         \/ UNCHANGED exchangeVars
         \/ \E user \in Users, id \in OrderIDs : CancelOrder(user, id)
         \/ \E user \in Users, order \in Orders, symbol \in Symbols, id \in OrderIDs :
              RejectOrder(user, order, symbol, id)
  PROVE  FillsAreGood'
PROOF
<1> DEFINE R == Responses
<1>0. responses \in Seq(R) /\ << >> \in Seq(R) /\ \A m \in R : <<m>> \in Seq(R)
  BY DEF FillsAreGood
<1>1. CASE SettleThrows
  <2>1. /\ responses' = << >> /\ phase' = "idle" /\ trades' = << >>
        /\ UNCHANGED <<placed, qty, book>>
    BY <1>1 DEF SettleThrows, bookVars
  <2> QED
    BY <1>0, <2>1, FillsFrame
<1>2. CASE EndPlaceOrder
  <2>1. /\ phase = "settling" /\ phase' = "idle"
        /\ responses' = <<RestingMessage(taker)>> \/ responses' = responses
        /\ UNCHANGED <<placed, qty, book, trades>>
    BY <1>2 DEF EndPlaceOrder, bookVars
  <2>2. RestingMessage(taker) \in R
    <3>1. taker \in Ids
      BY <2>1, TypeParts
    <3> QED
      BY <3>1, ObjectFields DEF RestingMessage, Responses, Reports, OrderMessage, FillsAreGood
  <2> HIDE DEF R
  <2>3. responses' \in Seq(R)
    BY <1>0, <2>1, <2>2
  <2> QED
    BY <2>1, <2>3, FillsFrame DEF R
<1>3. CASE Start \/ Replaced
  <2>1. /\ phase = "idle" /\ UNCHANGED <<placed, qty, phase, taker, trades>>
        /\ \A symbol \in Symbols : book'[symbol] = {}
        /\ responses' = << >> \/ responses' = responses
    BY <1>3 DEF Start, Replaced
  <2>2. responses' \in Seq(R)
    BY <1>0, <2>1
  <2> QED
    BY <2>1, <2>2, FillsFrame
<1>4. CASE Cleared \/ UNCHANGED exchangeVars
  <2>1. /\ UNCHANGED <<placed, qty, book, phase, taker, trades>>
        /\ responses' = << >> \/ responses' = responses
    BY <1>4 DEF Cleared, exchangeVars, bookVars
  <2>2. responses' \in Seq(R)
    BY <1>0, <2>1
  <2> QED
    BY <2>1, <2>2, FillsFrame
<1>5. ASSUME NEW user \in Users, NEW id \in OrderIDs, CancelOrder(user, id)
      PROVE  FillsAreGood'
  <2>1. PICK success \in BOOLEAN : responses' = <<CancelMessage(user, id, success)>>
    <3>1. CASE id \notin DOMAIN orders
      BY <1>5, <3>1 DEF CancelOrder
    <3>2. CASE id \in DOMAIN orders
      <4> DEFINE success == orders[id] \in book[placed[orders[id]].symbol]
      <4>1. responses' = <<CancelMessage(user, id, success)>>
        BY <1>5, <3>2 DEF CancelOrder
      <4>2. success \in BOOLEAN
        OBVIOUS
      <4> HIDE DEF success
      <4> QED
        BY <4>1, <4>2
    <3> QED
      BY <3>1, <3>2
  <2>2. CancelMessage(user, id, success) \in R
    BY SendersAreUsers DEF CancelMessage, CancelMessages, Responses
  <2>3. UNCHANGED <<placed, qty, phase, taker, trades>>
    BY <1>5 DEF CancelOrder
  <2>4. \A symbol \in Symbols : book'[symbol] \subseteq book[symbol]
    <3>1. book \in [Symbols -> SUBSET Ids]
      BY TypeParts
    <3>2. \/ book' = book
          \/ book' = [book EXCEPT ![placed[orders[id]].symbol] = @ \ {orders[id]}]
      BY <1>5 DEF CancelOrder, Withdrawn
    <3> QED
      BY <3>1, <3>2
  <2> HIDE DEF R
  <2>5. responses' \in Seq(R)
    BY <1>0, <2>1, <2>2
  <2> QED
    BY <2>3, <2>4, <2>5, FillsFrame DEF R
<1>6. ASSUME NEW user \in Users, NEW order \in Orders, NEW symbol \in Symbols,
             NEW id \in OrderIDs, RejectOrder(user, order, symbol, id)
      PROVE  FillsAreGood'
  <2> DEFINE m == FailureMessage(NewOrder(id, user, symbol, order))
  <2>1. responses' = <<m>> /\ UNCHANGED <<placed, qty, book, phase, taker, trades>>
    BY <1>6 DEF RejectOrder, bookVars
  <2>2. m \in R
    <3>1. order.side \in Sides /\ order.type \in {Market, Limit} /\ user \in Senders
      BY OrderFields, SendersAreUsers
    <3> QED
      BY <3>1 DEF FailureMessage, NewOrder, Responses, Reports, OrderMessage
  <2> HIDE DEF R, m
  <2>3. responses' \in Seq(R)
    BY <1>0, <2>1, <2>2
  <2> QED
    BY <2>1, <2>3, FillsFrame DEF R
<1> QED
  BY <1>1, <1>2, <1>3, <1>4, <1>5, <1>6

\* An order comes in: it does not rest yet.
LEMMA FillsAccept ==
  ASSUME FillsAreGood, TypeOK, NEW user \in Users, NEW order \in Orders,
         NEW symbol \in listed, NEW id \in OrderIDs, AcceptOrder(user, order, symbol, id)
  PROVE  FillsAreGood'
PROOF
<1>1. user \in Senders /\ user # NoUser
  BY SendersAreUsers, UsersAssumption
<1>2. /\ Ids' = Ids \cup {Len(placed) + 1} /\ Len(placed) + 1 \notin Ids
      /\ \A o \in Ids : placed'[o] = placed[o] /\ qty'[o] = qty[o]
      /\ placed'[Len(placed) + 1] = NewOrder(id, user, symbol, order)
  <2>1. Accepts(user, order, symbol, id)
    BY <1>1, Accepted
  <2> QED
    BY <2>1 DEF Accepts
<1>3. /\ taker' = Len(placed) + 1 /\ responses' = << >> /\ UNCHANGED <<book, trades>>
  BY <1>1 DEF AcceptOrder
<1>4. \A s \in Symbols : book[s] \subseteq Ids
  BY TypeParts
<1>5. ASSUME NEW s \in Symbols, NEW o \in book'[s]
      PROVE  placed'[o].symbol = s /\ qty'[o] > 0 /\ o # taker'
  <2>1. o \in Ids /\ placed[o].symbol = s /\ qty[o] > 0
    BY <1>3, <1>4, <1>5 DEF FillsAreGood
  <2> QED
    BY <1>2, <1>3, <2>1
<1>6. responses' \in Seq(Responses')
  BY <1>3
<1>7. \A i \in 1..Len(trades') : trades'[i].filled \in Nat
  BY <1>3 DEF FillsAreGood
<1>8. \A o \in Ids' : placed'[o].user \in Users
  BY <1>2 DEF FillsAreGood, NewOrder
<1> QED
  BY <1>5, <1>6, <1>7, <1>8 DEF FillsAreGood

\* What the handlers do keeps fills from being negative.
LEMMA MovesFills ==
  ASSUME FillsAreGood, TypeOK, ExchangeMove
  PROVE  FillsAreGood'
PROOF
<1>1. CASE CallStep
  BY <1>1, FillsMatch, FillsFinish, FillsSettle, FillsOthers DEF CallStep
<1>2. ASSUME NEW user \in Users, NEW order \in Orders, NEW symbol \in Symbols,
             NEW id \in OrderIDs, Called(user, order, symbol, id)
      PROVE  FillsAreGood'
  BY <1>2, FillsAccept, FillsOthers DEF Called
<1> QED
  BY <1>1, <1>2, FillsOthers DEF ExchangeMove

-----------------------------------------------------------------------------
(* Types *)

\* A call of the exchange runs in a handler, which sends the responses.
HandlersAreGood ==
  /\ handling \in BOOLEAN
  /\ phase # "idle" => handling
  /\ ~handling => responses = << >>

PagesAreGood == DOMAIN page = Pages /\ \A p \in Pages : GoodPage(page[p])

MailIsGood == inbox \in [Pages -> Seq(Mail)]

JoinedIsGood ==
  joined \in [Pages -> [firstID : Nat \ {0}, money : Int, orders : Nat,
                        dropped : SUBSET OrderIDs]]

TInv ==
  /\ TypeOK
  /\ SessionsAreGood
  /\ FillsAreGood
  /\ HandlersAreGood
  /\ PagesAreGood
  /\ MailIsGood
  /\ JoinedIsGood
  /\ since \in 0..Len(placed)
  /\ takenAway \subseteq Ids

\* The steps of pages and bots, the feed and the server, one by one.
LEMMA TradingSteps ==
  ASSUME TradingNext
  PROVE  \/ \E p \in Pages : Open(p)
         \/ \E p \in Pages : Close(p)
         \/ \E p \in Pages : PageOrdersNothing(p)
         \/ \E p \in Pages, order \in PageMenu : PageOrders(p, order)
         \/ \E p \in Pages, order \in PageMenu : PageOrdersOffline(p, order)
         \/ \E p \in Pages : ServeNewUser(p)
         \/ \E p \in Pages : ServeOrder(p)
         \/ \E p \in Pages : ServeOrderThrows(p)
         \/ \E p \in Pages : Receive(p)
         \/ \E u \in Bots : OpenBot(u)
         \/ \E u \in Bots, order \in BotMenu : BotOrders(u, order)
         \/ \E u \in Bots, id \in OrderIDs : BotCancels(u, id)
         \/ StartMarket
         \/ \E symbol \in Symbols : Quote(symbol)
         \/ ExchangeStep
         \/ SendResponses
PROOF
  BY Zenon DEF TradingNext

\* Calls run in handlers.
LEMMA HandlersStep ==
  ASSUME HandlersAreGood, TradingNext
  PROVE  HandlersAreGood'
PROOF
<1>0. handling' \in BOOLEAN
  BY TradingSteps DEF HandlersAreGood, Open, Close, PageOrdersNothing,
     PageOrdersOffline, PageOrders, ServeNewUser, ServeOrder, ServeOrderThrows,
     Receive, OpenBot, BotOrders, BotCancels, StartMarket, Quote, ExchangeStep,
     SendResponses, Place
<1>1. CASE handling' = TRUE
  BY <1>0, <1>1 DEF HandlersAreGood
<1>2. CASE handling' # TRUE
  <2>1. \/ UNCHANGED <<phase, responses, handling>>
        \/ StartMarket
        \/ ExchangeStep
        \/ SendResponses
    BY <1>2, TradingSteps DEF Open, Close, PageOrdersNothing, PageOrdersOffline,
       PageOrders, ServeNewUser, ServeOrder, ServeOrderThrows, Receive, OpenBot,
       BotOrders, BotCancels, Quote, Place, exchangeVars
  <2>2. CASE StartMarket
    BY <2>2 DEF StartMarket, Start, HandlersAreGood, Idle
  <2>3. CASE ExchangeStep
    BY <1>2, <2>3 DEF ExchangeStep, CallStep, Match, FinishMatching, Settle,
       SettleThrows, EndPlaceOrder, HandlersAreGood
  <2>4. CASE SendResponses
    BY <2>4 DEF SendResponses, HandlersAreGood
  <2> QED
    BY <2>1, <2>2, <2>3, <2>4 DEF HandlersAreGood
<1> QED
  BY <1>1, <1>2

\* The books are replaced behind orders that are there.
LEMMA SinceStep ==
  ASSUME TypeOK, ExchangeMove, since \in 0..Len(placed), [TradingNext]_tradingVars
  PROVE  since' \in 0..Len(placed')
PROOF
<1>1. Len(placed) \in Nat /\ Len(placed) =< Len(placed') /\ Len(placed') \in Nat
  BY OrdersStay, MovesType DEF TypeOK
<1>2. since' = since \/ since' = Len(placed)
  <2>1. CASE TradingNext
    BY <2>1, TradingSteps DEF Open, Close, PageOrdersNothing, PageOrdersOffline,
       PageOrders, ServeNewUser, ServeOrder, ServeOrderThrows, Receive, OpenBot,
       BotOrders, BotCancels, StartMarket, Quote, ExchangeStep, SendResponses,
       NewServer
  <2> QED
    BY <2>1 DEF tradingVars
<1> QED
  BY <1>1, <1>2

\* What is taken away are orders.
LEMMA TakenStep ==
  ASSUME TypeOK, ExchangeMove, takenAway \subseteq Ids, [TradingNext]_tradingVars
  PROVE  takenAway' \subseteq Ids'
PROOF
<1>1. Ids \subseteq Ids'
  <2>1. Len(placed) \in Nat /\ Len(placed) =< Len(placed') /\ Len(placed') \in Nat
    BY OrdersStay, MovesType DEF TypeOK
  <2> QED
    BY <2>1 DEF Ids
<1>2. ASSUME NEW u \in Bots, NEW id \in OrderIDs, BotCancels(u, id)
      PROVE  takenAway' \subseteq Ids
  BY <1>2 DEF BotCancels, TakenFrom
<1>3. CASE TradingNext
  <2>1. takenAway' = takenAway \/ \E u \in Bots, id \in OrderIDs : BotCancels(u, id)
    BY <1>3, TradingSteps DEF Open, Close, PageOrdersNothing, PageOrdersOffline,
       PageOrders, ServeNewUser, ServeOrder, ServeOrderThrows, Receive, OpenBot,
       BotOrders, StartMarket, Quote, ExchangeStep, SendResponses
  <2> QED
    BY <1>1, <1>2, <2>1
<1> QED
  BY <1>1, <1>3 DEF tradingVars

\* What a page sends when it orders.
LEMMA RequestOfPage ==
  ASSUME PagesAreGood, NEW p \in Pages, NEW order \in PageMenu, PageOrders(p, order)
  PROVE  /\ page[p].nextID <= MaxPageOrders /\ session[p] # NoSession
         /\ \E m \in Requests :
              /\ m.kind = "order" /\ m.id = page[p].nextID
              /\ m.symbol \in page[p].quoted
              /\ outbox' = [outbox EXCEPT ![p] = Append(@, m)]
PROOF
<1>1. PICK symbol \in page[p].quoted, parses \in BOOLEAN :
        outbox' = [outbox EXCEPT ![p] =
          Append(@, [kind |-> "order", symbol |-> symbol, order |-> order,
                     id |-> page[p].nextID, parses |-> parses])]
  BY DEF PageOrders
<1>2. page[p].nextID <= MaxPageOrders /\ session[p] # NoSession
  BY DEF PageOrders
<1>3. symbol \in Symbols /\ order \in Orders /\ page[p].nextID \in OrderIDs
  <2>1. GoodPage(page[p])
    BY DEF PagesAreGood
  <2>2. page[p].nextID \in OrderIDs
    BY <1>2, <2>1, 0 \in Int, PageSends
  <2> QED
    BY <2>1, <2>2, MenuAssumption DEF GoodPage, GoodRest
<1> DEFINE m == [kind |-> "order", symbol |-> symbol, order |-> order,
                 id |-> page[p].nextID, parses |-> parses]
<1>4. m \in Requests /\ m.kind = "order" /\ m.id = page[p].nextID /\ m.symbol = symbol
  BY <1>3 DEF Requests
<1> HIDE DEF Requests, m
<1>5. outbox' = [outbox EXCEPT ![p] = Append(@, m)]
  BY <1>1 DEF m
<1> QED
  BY <1>2, <1>4, <1>5

\* Sessions and what pages sent stay as they should be.
LEMMA SessionsStep ==
  ASSUME SessionsAreGood, PagesAreGood, [TradingNext]_tradingVars
  PROVE  SessionsAreGood'
PROOF
<1>1. CASE UNCHANGED <<opened, session, users, nameOf, sessionIDs, outbox>>
  <2>1. outbox' \in [Pages -> Seq(Requests)]
    <3> HIDE DEF Requests
    <3> QED
      BY <1>1 DEF SessionsAreGood, SessionTypes
  <2>2. FirstIsNewUser'
    BY <1>1 DEF SessionsAreGood, FirstIsNewUser, Registered
  <2> QED
    BY <1>1, <2>1, <2>2, SessionsStay
<1>2. ASSUME NEW p \in Pages, NEW order \in PageMenu, PageOrders(p, order)
      PROVE  SessionsAreGood'
  <2>1. PICK m \in Requests :
          m.kind = "order" /\ outbox' = [outbox EXCEPT ![p] = Append(@, m)]
    BY <1>2, RequestOfPage
  <2>2. /\ session[p] # NoSession
        /\ UNCHANGED <<opened, session, users, nameOf, sessionIDs>>
    BY <1>2 DEF PageOrders, clientVars
  <2> QED
    BY <2>1, <2>2, SessionsSend
<1>3. ASSUME NEW p \in Pages, ServeOrder(p) \/ ServeOrderThrows(p)
      PROVE  SessionsAreGood'
  <2>1. /\ outbox[p] # << >> /\ Head(outbox[p]).kind = "order"
        /\ outbox' = [outbox EXCEPT ![p] = Tail(@)]
        /\ UNCHANGED <<opened, session, users, nameOf, sessionIDs>>
    BY <1>3 DEF ServeOrder, ServeOrderThrows, clientVars
  <2> QED
    BY <2>1, SessionsRead
<1>4. CASE TradingNext
  <2>1. \/ \E p \in Pages : Open(p) \/ Close(p) \/ ServeNewUser(p)
        \/ \E p \in Pages : ServeOrder(p) \/ ServeOrderThrows(p)
        \/ \E p \in Pages, order \in PageMenu : PageOrders(p, order)
        \/ \E u \in Bots : OpenBot(u)
        \/ UNCHANGED <<opened, session, users, nameOf, sessionIDs, outbox>>
    BY <1>4, TradingSteps DEF PageOrdersNothing, PageOrdersOffline, Receive,
       BotOrders, BotCancels, StartMarket, Quote, ExchangeStep, SendResponses,
       clientVars
  <2> QED
    BY <1>1, <1>2, <1>3, <2>1, SessionsOpen, SessionsClose, SessionsOpenBot, SessionsRegister
<1> QED
  BY <1>1, <1>4 DEF tradingVars, clientVars

\* The pages stay as they should be.
LEMMA PagesStep ==
  ASSUME PagesAreGood, MailIsGood, [TradingNext]_tradingVars
  PROVE  PagesAreGood'
PROOF
<1>1. ASSUME NEW p \in Pages, NEW pg, GoodPage(pg), page' = [page EXCEPT ![p] = pg]
      PROVE  PagesAreGood'
  BY <1>1 DEF PagesAreGood
<1>2. ASSUME NEW p \in Pages, Open(p) PROVE PagesAreGood'
  <2>1. PICK pg \in {page[p], NewPage} : page' = [page EXCEPT ![p] = pg]
    BY <1>2 DEF Open
  <2>2. GoodPage(pg)
    BY <2>1, FreshPage DEF PagesAreGood
  <2> QED
    BY <1>1, <2>1, <2>2
<1>3. ASSUME NEW p \in Pages, PageOrdersNothing(p) PROVE PagesAreGood'
  <2>1. page' = [page EXCEPT ![p] = SendInvalid(page[p])] /\ page[p].nextID <= MaxPageOrders
    BY <1>3 DEF PageOrdersNothing, PageOrdersOffline
  <2>2. GoodPage(SendInvalid(page[p]))
    BY <2>1, PageSendsNothing DEF PagesAreGood
  <2> QED
    BY <1>1, <2>1, <2>2
<1>4. ASSUME NEW p \in Pages, NEW order \in PageMenu,
             PageOrders(p, order) \/ PageOrdersOffline(p, order)
      PROVE  PagesAreGood'
  <2>1. /\ page' = [page EXCEPT ![p] = SendOrder(page[p], order.size)]
        /\ page[p].nextID <= MaxPageOrders
    BY <1>4 DEF PageOrders, PageOrdersOffline
  <2>2. order.size \in Int
    BY MenuAssumption, OrderFields
  <2>3. GoodPage(SendOrder(page[p], order.size))
    BY <2>1, <2>2, PageSends DEF PagesAreGood
  <2> QED
    BY <1>1, <2>1, <2>3
<1>5. ASSUME NEW p \in Pages, Receive(p) PROVE PagesAreGood'
  <2>1. /\ page' = [page EXCEPT ![p] = Handled(page[p], Head(inbox[p]))]
        /\ inbox[p] # << >>
    BY <1>5 DEF Receive
  <2>2. Head(inbox[p]) \in Mail
    <3> HIDE DEF Mail
    <3> QED
      BY <2>1, HeadAndTail DEF MailIsGood
  <2>3. GoodPage(Handled(page[p], Head(inbox[p])))
    BY <2>2, PageHandles DEF PagesAreGood, WellHandled
  <2> QED
    BY <1>1, <2>1, <2>3
<1>6. CASE UNCHANGED page
  BY <1>6 DEF PagesAreGood
<1>7. CASE TradingNext
  <2>1. \/ \E p \in Pages : Open(p) \/ PageOrdersNothing(p) \/ Receive(p)
        \/ \E p \in Pages, order \in PageMenu :
             PageOrders(p, order) \/ PageOrdersOffline(p, order)
        \/ UNCHANGED page
    BY <1>7, TradingSteps DEF Close, ServeNewUser, ServeOrder, ServeOrderThrows,
       OpenBot, BotOrders, BotCancels, StartMarket, Quote, ExchangeStep,
       SendResponses, webVars
  <2> QED
    BY <1>2, <1>3, <1>4, <1>5, <1>6, <2>1
<1> QED
  BY <1>6, <1>7 DEF tradingVars, webVars

\* How often a page is told.
LEMMA CopiesType ==
  ASSUME SessionsAreGood, NEW p \in Pages, NEW response, response.user \in Users
  PROVE  Copies(p, response) \in Nat
PROOF
<1>1. CASE session[p] = NoSession
  BY <1>1 DEF Copies
<1>2. CASE session[p] # NoSession
  <2>1. sessionIDs[response.user] \in Seq(1..opened)
    BY ListedAreOpened
  <2>2. Copies(p, response) = Cardinality(PlacesIn(sessionIDs[response.user], session[p]))
    BY <1>2 DEF Copies, Listings, PlacesIn
  <2> QED
    BY <2>1, <2>2, PlacesAreFinite
<1> QED
  BY <1>1, <1>2

\* The messages in which page p is sent the i-th response.
CopiesFor(p, i) == [copy \in 1..Copies(p, responses[i]) |-> Packed(responses[i])]

\* A response goes into a message of its kind.
LEMMA PackedType ==
  ASSUME NEW response \in Responses
  PROVE  /\ Packed(response) \in Mail
         /\ Packed(response).response = response
         /\ Packed(response).kind = "order" <=> response \in Reports
         /\ Packed(response).kind \in {"order", "cancel"}
PROOF
<1>1. CASE response \in Reports
  <2>1. "success" \notin DOMAIN response
    BY <1>1 DEF Reports, OrderMessage
  <2>2. Packed(response) = [kind |-> "order", response |-> response]
    BY <2>1 DEF Packed
  <2> QED
    BY <1>1, <2>2 DEF Mail
<1>2. CASE response \in CancelMessages
  <2>1. "success" \in DOMAIN response
    BY <1>2 DEF CancelMessages
  <2>2. Packed(response) = [kind |-> "cancel", response |-> response]
    BY <2>1 DEF Packed
  <2>3. response \notin Reports
    BY <2>1 DEF Reports, OrderMessage
  <2> QED
    BY <1>2, <2>2, <2>3 DEF Mail
<1> QED
  BY <1>1, <1>2 DEF Responses

\* The loops of handleOrder and handleCancel add to what waits for a page, and
\* what a page is to be told at all it is told.
LEMMA SentToPage ==
  ASSUME SessionsAreGood, FillsAreGood, MailIsGood, SendResponses, NEW p \in Pages
  PROVE  \E list \in Seq(Mail) :
           /\ inbox'[p] = inbox[p] \o list
           /\ \A i \in 1..Len(responses) :
                Copies(p, responses[i]) # 0 => Packed(responses[i]) \in ToSet(list)
PROOF
<1> DEFINE lists == [i \in 1..Len(responses) |-> CopiesFor(p, i)]
           list  == FlattenSeq(lists)
<1>1. inbox'[p] = inbox[p] \o list
  BY DEF SendResponses, CopiesFor
<1>2. Len(responses) \in Nat /\ \A i \in 1..Len(responses) : responses[i] \in Responses
  <2> HIDE DEF Responses
  <2> QED
    BY DEF FillsAreGood
<1>3. ASSUME NEW i \in 1..Len(responses)
      PROVE  /\ CopiesFor(p, i) \in Seq(Mail)
             /\ Copies(p, responses[i]) # 0 => Packed(responses[i]) \in ToSet(CopiesFor(p, i))
  <2> HIDE DEF lists, list
  <2>1. responses[i].user \in Users
    BY <1>2 DEF Responses
  <2> HIDE DEF Responses, Mail
  <2>2. PICK n : n = Copies(p, responses[i])
    OBVIOUS
  <2>3. PICK m : m = Packed(responses[i])
    OBVIOUS
  <2>4. n \in Nat /\ m \in Mail
    BY <1>2, <2>1, <2>2, <2>3, CopiesType, PackedType
  <2>5. CopiesFor(p, i) = [copy \in 1..n |-> m]
    BY <2>2, <2>3 DEF CopiesFor
  <2>6. [copy \in 1..n |-> m] \in Seq(Mail)
    BY <2>4
  <2>7. n # 0 => m \in ToSet([copy \in 1..n |-> m])
    BY <2>4 DEF ToSet
  <2> QED
    BY <2>2, <2>3, <2>5, <2>6, <2>7
<1> HIDE DEF Mail, Responses
<1>4. lists \in Seq(Seq(Mail)) /\ Len(lists) = Len(responses)
  BY <1>2, <1>3
<1>5. \A i \in 1..Len(responses) : lists[i] = CopiesFor(p, i)
  OBVIOUS
<1> HIDE DEF lists
<1>6. /\ list \in Seq(Mail)
      /\ \A i \in 1..Len(responses) : ToSet(lists[i]) \subseteq ToSet(list)
  BY <1>4, FlattenHas
<1> HIDE DEF list
<1> QED
  BY <1>1, <1>3, <1>5, <1>6

\* What waits for the pages.
LEMMA MailStep ==
  ASSUME TypeOK, SessionsAreGood, FillsAreGood, MailIsGood, [TradingNext]_tradingVars
  PROVE  MailIsGood'
PROOF
<1>0. Mail' = Mail
  BY DEF Mail, Reports, CancelMessages, OrderMessage, OrderIDs
<1>1. ASSUME NEW p \in Pages, NEW list \in Seq(Mail), inbox' = [inbox EXCEPT ![p] = list]
      PROVE  MailIsGood'
  <2> HIDE DEF Mail
  <2> QED
    BY <1>0, <1>1 DEF MailIsGood
<1>2. ASSUME NEW p \in Pages, Close(p) PROVE MailIsGood'
  <2>1. inbox' = [inbox EXCEPT ![p] = << >>] /\ << >> \in Seq(Mail)
    BY <1>2 DEF Close
  <2> QED
    BY <1>1, <2>1
<1>3. ASSUME NEW p \in Pages, ServeNewUser(p) PROVE MailIsGood'
  <2>1. PICK m : m = [kind |-> "new_user", money |-> money[UserOf[p]]]
    OBVIOUS
  <2>2. inbox' = [inbox EXCEPT ![p] = Append(inbox[p], m)]
    BY <1>3, <2>1 DEF ServeNewUser
  <2>3. money[UserOf[p]] \in Int
    BY UserOfAssumption DEF TypeOK
  <2>4. m \in Mail
    BY <2>1, <2>3 DEF Mail
  <2>5. Append(inbox[p], m) \in Seq(Mail)
    <3> HIDE DEF Mail
    <3> QED
      BY <2>4 DEF MailIsGood
  <2> QED
    BY <1>1, <2>2, <2>5
<1>4. ASSUME NEW p \in Pages, Receive(p) PROVE MailIsGood'
  <2>1. inbox' = [inbox EXCEPT ![p] = Tail(inbox[p])] /\ inbox[p] # << >>
    BY <1>4 DEF Receive
  <2>2. Tail(inbox[p]) \in Seq(Mail)
    <3> HIDE DEF Mail
    <3> QED
      BY <2>1, HeadAndTail DEF MailIsGood
  <2> QED
    BY <1>1, <2>1, <2>2
<1>5. ASSUME NEW symbol \in Symbols, Quote(symbol) PROVE MailIsGood'
  <2>1. PICK m : m = [kind |-> "quote", symbol |-> symbol]
    OBVIOUS
  <2>2. m \in Mail
    BY <2>1 DEF Mail
  <2>3. /\ DOMAIN inbox' = Pages
        /\ \A p \in Pages : inbox'[p] = Append(inbox[p], m) \/ inbox'[p] = inbox[p]
        /\ inbox' = [p \in Pages |-> inbox'[p]]
    BY <1>5, <2>1 DEF Quote
  <2> HIDE DEF Mail
  <2>4. ASSUME NEW p \in Pages PROVE inbox'[p] \in Seq(Mail)
    <3>1. inbox[p] \in Seq(Mail)
      BY DEF MailIsGood
    <3>2. Append(inbox[p], m) \in Seq(Mail)
      BY <2>2, <3>1
    <3> QED
      BY <2>3, <3>1, <3>2
  <2> QED
    BY <1>0, <2>3, <2>4 DEF MailIsGood
<1>6. CASE SendResponses
  <2>1. inbox' = [p \in Pages |-> inbox'[p]]
    BY <1>6 DEF SendResponses
  <2>2. ASSUME NEW p \in Pages PROVE inbox'[p] \in Seq(Mail)
    <3>1. PICK list \in Seq(Mail) : inbox'[p] = inbox[p] \o list
      BY <1>6, SentToPage
    <3> HIDE DEF Mail
    <3> QED
      BY <3>1 DEF MailIsGood
  <2> HIDE DEF Mail
  <2> QED
    BY <1>0, <2>1, <2>2 DEF MailIsGood
<1>7. CASE UNCHANGED inbox
  <2> HIDE DEF Mail
  <2> QED
    BY <1>0, <1>7 DEF MailIsGood
<1>8. CASE TradingNext
  <2>1. \/ \E p \in Pages : Close(p) \/ ServeNewUser(p) \/ Receive(p)
        \/ \E symbol \in Symbols : Quote(symbol)
        \/ SendResponses
        \/ UNCHANGED inbox
    BY <1>8, TradingSteps DEF Open, PageOrdersNothing, PageOrdersOffline, PageOrders,
       ServeOrder, ServeOrderThrows, OpenBot, BotOrders, BotCancels, StartMarket,
       ExchangeStep, webVars
  <2> QED
    BY <1>2, <1>3, <1>4, <1>5, <1>6, <1>7, <2>1
<1> QED
  BY <1>7, <1>8 DEF tradingVars, webVars

\* What is remembered of the time a page connected.
LEMMA JoinedStep ==
  ASSUME TypeOK, SessionsAreGood, PagesAreGood, JoinedIsGood, [TradingNext]_tradingVars
  PROVE  JoinedIsGood'
PROOF
<1> DEFINE J == [firstID : Nat \ {0}, money : Int, orders : Nat,
                 dropped : SUBSET OrderIDs]
<1>1. ASSUME NEW p \in Pages, NEW j \in J, joined' = [joined EXCEPT ![p] = j]
      PROVE  JoinedIsGood'
  <2> HIDE DEF J
  <2> QED
    BY <1>1 DEF JoinedIsGood, J, OrderIDs
<1>2. ASSUME NEW p \in Pages, Open(p) PROVE JoinedIsGood'
  <2>1. PICK pg \in {page[p], NewPage} :
          joined' = [joined EXCEPT ![p].firstID = pg.nextID, ![p].dropped = {}]
    BY <1>2 DEF Open
  <2>2. GoodPage(pg)
    BY <2>1, FreshPage DEF PagesAreGood
  <2>3. pg.nextID \in Nat \ {0}
    BY <2>2 DEF GoodPage, GoodRest
  <2>4. [joined[p] EXCEPT !.firstID = pg.nextID, !.dropped = {}] \in J
    BY <2>3 DEF JoinedIsGood
  <2> HIDE DEF J
  <2> QED
    BY <1>1, <2>1, <2>4
<1>3. ASSUME NEW p \in Pages, ServeNewUser(p) PROVE JoinedIsGood'
  <2>1. joined' = [joined EXCEPT ![p] =
                     [joined[p] EXCEPT !.money = money[UserOf[p]], !.orders = Len(placed)]]
    BY <1>3 DEF ServeNewUser
  <2>2. money[UserOf[p]] \in Int /\ Len(placed) \in Nat
    BY UserOfAssumption DEF TypeOK
  <2>3. [joined[p] EXCEPT !.money = money[UserOf[p]], !.orders = Len(placed)] \in J
    BY <2>2 DEF JoinedIsGood
  <2> HIDE DEF J
  <2> QED
    BY <1>1, <2>1, <2>3
<1>4. CASE UNCHANGED joined
  BY <1>4 DEF JoinedIsGood, OrderIDs
<1>6. ASSUME NEW p \in Pages, ServeOrderThrows(p) PROVE JoinedIsGood'
  <2>1. PICK id : /\ id = Head(outbox[p]).id
                  /\ joined' = [joined EXCEPT ![p] =
                                  [joined[p] EXCEPT !.dropped = @ \cup {id}]]
    BY <1>6 DEF ServeOrderThrows
  <2>2. id \in OrderIDs
    BY <1>6, <2>1, SessionsRead DEF ServeOrderThrows, clientVars
  <2>3. [joined[p] EXCEPT !.dropped = @ \cup {id}] \in J
    BY <2>2 DEF JoinedIsGood
  <2> HIDE DEF J
  <2> QED
    BY <1>1, <2>1, <2>3
<1>5. CASE TradingNext
  <2>1. \/ \E p \in Pages : Open(p) \/ ServeNewUser(p) \/ ServeOrderThrows(p)
        \/ UNCHANGED joined
    BY <1>5, TradingSteps DEF Close, PageOrdersNothing, PageOrdersOffline, PageOrders,
       ServeOrder, Receive, OpenBot, BotOrders, BotCancels,
       StartMarket, Quote, ExchangeStep, SendResponses
  <2> QED
    BY <1>2, <1>3, <1>4, <1>6, <2>1
<1> QED
  BY <1>4, <1>5 DEF tradingVars

\* The initial state.
LEMMA TradingStarts ==
  ASSUME TradingInit
  PROVE  TInv
PROOF
<1>1. TypeOK
  BY InitType DEF TradingInit
<1>2. SessionsAreGood
  <2>1. /\ opened = 0 /\ users = {} /\ nameOf = << >> /\ DOMAIN nameOf = {}
        /\ session = [p \in Pages |-> 0]
        /\ sessionIDs = [u \in Users |-> << >>] /\ outbox = [p \in Pages |-> << >>]
    BY DEF TradingInit, Clients!InitClients, NoSession
  <2>2. SessionTypes
    BY <2>1, MaxSessionsAssumption DEF SessionTypes
  <2> QED
    BY <2>1, <2>2 DEF SessionsAreGood, OwnSessions, ListsAreGood, FirstIsNewUser, Registered,
       NoSession
<1>3. FillsAreGood /\ HandlersAreGood
  <2>1. /\ placed = << >> /\ trades = << >> /\ responses = << >> /\ phase = "idle"
        /\ \A symbol \in Symbols : book[symbol] = {}
        /\ handling = FALSE
    BY DEF TradingInit, Init
  <2>2. Ids = {}
    BY <2>1 DEF Ids
  <2>3. /\ \A i \in 1..Len(trades) : trades[i].filled \in Nat
        /\ responses \in Seq(Responses)
    <3> HIDE DEF Responses
    <3> QED
      BY <2>1
  <2>4. FillsAreGood
    BY <2>1, <2>2, <2>3 DEF FillsAreGood
  <2> QED
    BY <2>1, <2>4 DEF HandlersAreGood
<1>4. PagesAreGood
  BY FreshPage DEF TradingInit, PagesAreGood
<1>5. MailIsGood
  <2> HIDE DEF Mail
  <2> QED
    BY DEF TradingInit, MailIsGood
<1>6. JoinedIsGood /\ since \in 0..Len(placed) /\ takenAway \subseteq Ids
  BY DEF TradingInit, Init, JoinedIsGood
<1> QED
  BY <1>1, <1>2, <1>3, <1>4, <1>5, <1>6 DEF TInv

\* Every step keeps it.
LEMMA TradingKeeps ==
  ASSUME TInv, [TradingNext]_tradingVars
  PROVE  TInv'
PROOF
<1>1. /\ TypeOK /\ SessionsAreGood /\ FillsAreGood /\ HandlersAreGood
      /\ PagesAreGood /\ MailIsGood /\ JoinedIsGood /\ since \in 0..Len(placed)
      /\ takenAway \subseteq Ids
  BY DEF TInv
<1>2. ExchangeMove
  BY <1>1, HandlersMove
<1>3. TypeOK' /\ FillsAreGood'
  BY <1>1, <1>2, MovesType, MovesFills
<1>4. HandlersAreGood'
  BY <1>1, HandlersStep DEF tradingVars, exchangeVars, HandlersAreGood
<1>5. /\ SessionsAreGood' /\ PagesAreGood' /\ MailIsGood' /\ JoinedIsGood'
      /\ since' \in 0..Len(placed') /\ takenAway' \subseteq Ids'
  BY <1>1, <1>2, SessionsStep, PagesStep, MailStep, JoinedStep, SinceStep, TakenStep
<1> QED
  BY <1>3, <1>4, <1>5 DEF TInv

\* What the types ask for is part of it.
LEMMA TradingTyped ==
  ASSUME TInv
  PROVE  TradingTypeOK
PROOF
<1>1. ASSUME NEW p \in Pages
      PROVE  /\ DOMAIN page[p].orders \subseteq OrderIDs
             /\ \A id \in DOMAIN page[p].orders : page[p].orders[id] \in Entry
             /\ page[p].quoted \subseteq Symbols
             /\ page[p].paid \in [page[p].quoted -> Int]
             /\ page[p].position \in [page[p].quoted -> Nat]
             /\ page[p].money \in Int
             /\ page[p].nextID \in 1..(MaxPageOrders + 1)
             /\ page[p].past \in Seq([row : 1..page[p].rows, id : OrderIDs])
  BY DEF TInv, PagesAreGood, GoodPage, GoodRest, GoodOrders, PastRow
<1>2. /\ session \in [Pages -> 0..opened]
      /\ opened \in 0..MaxSessions
      /\ since \in 0..Len(placed)
      /\ takenAway \subseteq Ids
      /\ handling \in BOOLEAN
  BY DEF TInv, SessionsAreGood, SessionTypes, HandlersAreGood
<1> QED
  BY <1>1, <1>2 DEF TradingTypeOK

\* The invariant holds throughout.
LEMMA TInvHolds == TradingSpec => []TInv
PROOF
<1>1. TradingInit => TInv
  BY TradingStarts
<1>2. TInv /\ [TradingNext]_tradingVars => TInv'
  BY TradingKeeps
<1> QED
  BY <1>1, <1>2, PTL DEF TradingSpec

\* Every variable of the pages, the sessions and the handlers keeps its type,
\* whatever the pages and the bots send.
THEOREM TradingTypes == TradingSpec => []TradingTypeOK
PROOF
<1>1. TInv => TradingTypeOK
  BY TradingTyped
<1> QED
  BY <1>1, TInvHolds, PTL

-----------------------------------------------------------------------------
(* Every order is answered *)

\* A response that is an order message about the order o.
About(m, o) ==
  /\ "success" \notin DOMAIN m
  /\ m.user = placed[o].user
  /\ m.id = placed[o].id
  /\ m.symbol = placed[o].symbol

\* Whatever placeOrder has to return, something of it is about the order that
\* came in.
TakerIsTold ==
  /\ phase = "matching" => responses = << >>
  /\ phase = "settling" /\ responses # << >> =>
       \E i \in 1..Len(responses) : About(responses[i], taker)

\* A turn of placeOrder keeps that, and when it returns it has told.
LEMMA ToldTurns ==
  ASSUME IInv, TypeOK', TakerIsTold, CallStep
  PROVE  /\ TakerIsTold'
         /\ phase # "idle" /\ UNCHANGED placed
         /\ phase' # "idle" => taker' = taker
         /\ phase' = "idle" => \E i \in 1..Len(responses') : About(responses'[i], taker)
PROOF
<1>0. TypeOK
  BY DEF IInv
<1>1. ASSUME NEW maker \in Ids, Match(maker)
      PROVE  /\ TakerIsTold' /\ phase # "idle" /\ UNCHANGED placed
             /\ phase' # "idle" /\ taker' = taker
  BY <1>1 DEF Match, TakerIsTold
<1>2. CASE FinishMatching
  BY <1>2 DEF FinishMatching, TakerIsTold
<1>3. CASE Settle
  <2> DEFINE t == Head(trades)
             two == Confirmations(t)
             all == responses \o two
  <2>1. /\ phase = "settling" /\ trades # << >> /\ responses' = all
        /\ UNCHANGED <<placed, phase, taker>>
    BY <1>3 DEF Settle, bookVars
  <2>2. t.taker = taker /\ Indexed(taker) /\ t \in Trade
    BY <1>0, <2>1, HeadFacts, PendingTrade
  <2>3. two \in Seq(Messages) /\ Len(two) = 2
    BY <1>0, <1>3, <2>2, ConfirmationsType DEF Settle
  <2>4. About(two[2], taker)
    <3>1. two[2] = Confirmation(placed[t.taker].user, TakerID(t), t.filled,
                                t.takerRemaining, Sidemult(t) * t.filled * t.price)
      BY DEF Confirmations
    <3>2. TakerID(t) = placed[taker].id /\ orders[placed[taker].id] = taker
      BY <2>2 DEF TakerID, Indexed
    <3>3. \A u, id, f, r, m : LET c == Confirmation(u, id, f, r, m)
                              IN /\ "success" \notin DOMAIN c /\ c.user = u /\ c.id = id
                                 /\ c.symbol = placed[orders[id]].symbol
      BY DEF Confirmation
    <3> HIDE DEF two, t
    <3> QED
      BY <2>2, <3>1, <3>2, <3>3 DEF About
  <2>5. Len(responses) \in Nat /\ Len(responses) + 2 \in 1..Len(all)
        /\ all[Len(responses) + 2] = two[2]
    <3>1. responses \in Seq(Messages)
      BY <1>0, TypeParts
    <3>2. PICK n : n = Len(responses)
      OBVIOUS
    <3>3. n \in Nat
      BY <3>1, <3>2
    <3> HIDE DEF two, Messages
    <3> QED
      BY <2>3, <3>1, <3>2, <3>3, LastOfTwo
  <2>6. About(all[Len(responses) + 2], taker)
    BY <2>4, <2>5
  <2> HIDE DEF all
  <2>7. \E i \in 1..Len(all) : About(all[i], taker)
    BY <2>5, <2>6
  <2>8. phase' = "settling" /\ (\E i \in 1..Len(responses) : About(responses[i], taker))'
    BY <2>1, <2>7 DEF About
  <2> QED
    BY <2>1, <2>8 DEF TakerIsTold
<1>4. ~SettleThrows
  BY NothingThrows
<1>5. CASE EndPlaceOrder
  <2>1. /\ phase = "settling" /\ phase' = "idle" /\ UNCHANGED placed
        /\ responses' = IF responses = << >> THEN <<RestingMessage(taker)>> ELSE responses
    BY <1>5 DEF EndPlaceOrder, bookVars
  <2>2. About(RestingMessage(taker), taker)
    BY DEF About, RestingMessage
  <2>3. CASE responses = << >>
    <3>1. responses' = <<RestingMessage(taker)>>
      BY <2>1, <2>3
    <3>2. Len(responses') = 1 /\ responses'[1] = RestingMessage(taker)
      BY <3>1
    <3> QED
      BY <2>1, <2>2, <3>2 DEF TakerIsTold
  <2>4. CASE responses # << >>
    BY <2>1, <2>4 DEF TakerIsTold
  <2> QED
    BY <2>3, <2>4
<1> QED
  BY <1>1, <1>2, <1>3, <1>4, <1>5 DEF CallStep

\* No other step disturbs it.
LEMMA ToldMoves ==
  ASSUME IInv, TypeOK', TakerIsTold, ExchangeMove
  PROVE  TakerIsTold'
PROOF
<1>1. CASE CallStep
  BY <1>1, ToldTurns
<1>2. CASE UNCHANGED exchangeVars
  BY <1>2 DEF exchangeVars, bookVars, TakerIsTold, About
<1>3. ASSUME NEW user \in Users, NEW order \in Orders, NEW symbol \in Symbols,
             NEW id \in OrderIDs, Called(user, order, symbol, id)
      PROVE  TakerIsTold'
  <2>1. phase' # "idle" => phase' = "matching" /\ responses' = << >>
    BY <1>3 DEF Called, AcceptOrder, RejectOrder
  <2> QED
    BY <2>1 DEF TakerIsTold
<1>4. CASE Replaced \/ Cleared \/ Start \/ \E user \in Users, id \in OrderIDs : CancelOrder(user, id)
  <2>1. phase' = "idle"
    BY <1>4 DEF Replaced, Cleared, Start, CancelOrder
  <2> QED
    BY <2>1 DEF TakerIsTold
<1> QED
  BY <1>1, <1>2, <1>3, <1>4 DEF ExchangeMove

\* An order of page p for a security it knows, under this ID.
RequestOf(p, id, m) ==
  m.kind = "order" /\ m.id = id /\ m.symbol \in page[p].quoted

\* A response about it.
ResponseTo(p, id, m) ==
  /\ "success" \notin DOMAIN m
  /\ m.user = UserOf[p] /\ m.id = id /\ m.symbol \in page[p].quoted

\* It has not reached the server, is being handled, was handled, or the answer
\* waits for the page.
Unread(p, id)   == \E m \in ToSet(outbox[p]) : RequestOf(p, id, m)
Running(p, id)  == /\ phase # "idle"
                   /\ placed[taker].user = UserOf[p] /\ placed[taker].id = id
                   /\ placed[taker].symbol \in page[p].quoted
Returned(p, id) == /\ phase = "idle" /\ handling
                   /\ \E i \in 1..Len(responses) : ResponseTo(p, id, responses[i])
Waiting(p, id)  == \E m \in ToSet(inbox[p]) : Answers(m, id, page[p])

OnItsWay(p, id) ==
  \/ Unread(p, id)
  \/ Registered(p) /\ (Running(p, id) \/ Returned(p, id))
  \/ Waiting(p, id)

\* An order that is pending at a page was given an ID by it, and if that was in
\* the session the page has, the answer is on its way.
PendingAreAnswered ==
  \A p \in Pages, id \in OrderIDs : Pending(page[p], id) =>
    /\ id < page[p].nextID
    /\ /\ session[p] # NoSession
       /\ id >= joined[p].firstID /\ id \notin joined[p].dropped
       => OnItsWay(p, id)

\* The whole invariant.
AnswerInv ==
  /\ TInv
  /\ UniqueIDs => IInv /\ TakerIsTold /\ PendingAreAnswered

\* p's session is open before and after a step.
Connected(p) == session[p] # NoSession /\ session'[p] # NoSession

\* What such a step can do to the queue out of a page.
LEMMA OutboxMoves ==
  ASSUME SessionsAreGood, PagesAreGood, NEW p \in Pages, Connected(p), TradingNext
  PROVE  \/ outbox'[p] = outbox[p]
         \/ \E m \in Requests : outbox'[p] = Append(outbox[p], m)
         \/ /\ ServeNewUser(p) \/ ServeOrder(p) \/ ServeOrderThrows(p)
            /\ outbox[p] # << >> /\ outbox'[p] = Tail(outbox[p])
PROOF
<1>0. DOMAIN outbox = Pages
  BY DEF SessionsAreGood, SessionTypes
<1>1. ASSUME NEW q \in Pages, Open(q) \/ Close(q)
      PROVE  outbox'[p] = outbox[p]
  <2>1. q # p
    BY <1>1 DEF Open, Close, Connected, SessionsAreGood, SessionTypes
  <2> QED
    BY <1>0, <1>1, <2>1 DEF Open, Close
<1>2. ASSUME NEW q \in Pages, NEW order \in PageMenu, PageOrders(q, order)
      PROVE  outbox'[p] = outbox[p] \/ \E m \in Requests : outbox'[p] = Append(outbox[p], m)
  <2>1. PICK m \in Requests : outbox' = [outbox EXCEPT ![q] = Append(@, m)]
    BY <1>2, RequestOfPage
  <2> HIDE DEF Requests
  <2> QED
    BY <1>0, <2>1
<1>3. ASSUME NEW q \in Pages, ServeNewUser(q) \/ ServeOrder(q) \/ ServeOrderThrows(q)
      PROVE  \/ outbox'[p] = outbox[p]
             \/ q = p /\ outbox[p] # << >> /\ outbox'[p] = Tail(outbox[p])
  BY <1>0, <1>3 DEF ServeNewUser, ServeOrder, ServeOrderThrows
<1>4. \/ \E q \in Pages : Open(q) \/ Close(q) \/ ServeNewUser(q)
      \/ \E q \in Pages : ServeOrder(q) \/ ServeOrderThrows(q)
      \/ \E q \in Pages, order \in PageMenu : PageOrders(q, order)
      \/ UNCHANGED outbox
  BY TradingSteps DEF PageOrdersNothing, PageOrdersOffline, Receive, OpenBot,
     BotOrders, BotCancels, StartMarket, Quote, ExchangeStep, SendResponses
<1> QED
  BY <1>1, <1>2, <1>3, <1>4

\* To the queue to a page.
LEMMA InboxMoves ==
  ASSUME TInv, NEW p \in Pages, Connected(p), TradingNext
  PROVE  \/ ToSet(inbox[p]) \subseteq ToSet(inbox'[p])
         \/ /\ Receive(p) /\ Head(inbox[p]) \in Mail
            /\ ToSet(inbox[p]) = {Head(inbox[p])} \cup ToSet(inbox'[p])
PROOF
<1>0. DOMAIN inbox = Pages /\ inbox[p] \in Seq(Mail)
  <2> HIDE DEF Mail
  <2> QED
    BY DEF TInv, MailIsGood
<1>1. CASE inbox'[p] = inbox[p]
  BY <1>1
<1>2. ASSUME NEW m \in Mail, inbox'[p] = Append(inbox[p], m)
      PROVE  ToSet(inbox[p]) \subseteq ToSet(inbox'[p])
  <2> HIDE DEF Mail
  <2> QED
    BY <1>0, <1>2, OneMoreInSet
<1>3. ASSUME NEW q \in Pages, Close(q) PROVE inbox'[p] = inbox[p]
  <2>1. q # p
    BY <1>3 DEF Close, Connected, TInv, SessionsAreGood, SessionTypes
  <2> QED
    BY <1>0, <1>3, <2>1 DEF Close
<1>4. ASSUME NEW q \in Pages, ServeNewUser(q)
      PROVE  inbox'[p] = inbox[p] \/ \E m \in Mail : inbox'[p] = Append(inbox[p], m)
  <2>1. PICK m : m = [kind |-> "new_user", money |-> money[UserOf[q]]]
    OBVIOUS
  <2>2. inbox' = [inbox EXCEPT ![q] = Append(inbox[q], m)]
    BY <1>4, <2>1 DEF ServeNewUser
  <2>3. m \in Mail
    BY <2>1, UserOfAssumption DEF Mail, TInv, TypeOK
  <2> HIDE DEF Mail
  <2> QED
    BY <1>0, <2>2, <2>3
<1>5. ASSUME NEW symbol \in Symbols, Quote(symbol)
      PROVE  inbox'[p] = inbox[p] \/ \E m \in Mail : inbox'[p] = Append(inbox[p], m)
  <2>1. [kind |-> "quote", symbol |-> symbol] \in Mail
    BY DEF Mail
  <2>2. \/ inbox'[p] = inbox[p]
        \/ inbox'[p] = Append(inbox[p], [kind |-> "quote", symbol |-> symbol])
    BY <1>5 DEF Quote
  <2> HIDE DEF Mail
  <2> QED
    BY <2>1, <2>2
<1>6. CASE SendResponses
  <2>1. PICK list \in Seq(Mail) : inbox'[p] = inbox[p] \o list
    BY <1>6, SentToPage DEF TInv
  <2> HIDE DEF Mail
  <2> QED
    BY <1>0, <2>1, ConcatInSet
<1>7. ASSUME NEW q \in Pages, Receive(q), q # p PROVE inbox'[p] = inbox[p]
  BY <1>0, <1>7 DEF Receive
<1>8. CASE Receive(p)
  <2>1. inbox[p] # << >> /\ inbox'[p] = Tail(inbox[p])
    BY <1>0, <1>8 DEF Receive
  <2> HIDE DEF Mail
  <2> QED
    BY <1>0, <1>8, <2>1, HeadAndTail, HeadOrTail
<1>9. \/ \E q \in Pages : Close(q) \/ ServeNewUser(q) \/ Receive(q)
      \/ \E symbol \in Symbols : Quote(symbol)
      \/ SendResponses
      \/ UNCHANGED inbox
  BY TradingSteps DEF Open, PageOrdersNothing, PageOrdersOffline, PageOrders,
     ServeOrder, ServeOrderThrows, OpenBot, BotOrders, BotCancels, StartMarket,
     ExchangeStep, webVars
<1> QED
  BY <1>1, <1>2, <1>3, <1>4, <1>5, <1>6, <1>7, <1>8, <1>9

\* To the page.
LEMMA PageMoves ==
  ASSUME TInv, NEW p \in Pages, TradingNext
  PROVE  \/ page'[p] = page[p]
         \/ Open(p) /\ page'[p] \in {page[p], NewPage}
         \/ /\ PageOrdersNothing(p) /\ page[p].nextID <= MaxPageOrders
            /\ page'[p] = SendInvalid(page[p])
         \/ \E order \in PageMenu : /\ PageOrders(p, order) \/ PageOrdersOffline(p, order)
                                    /\ page[p].nextID <= MaxPageOrders /\ order.size \in Int
                                    /\ page'[p] = SendOrder(page[p], order.size)
         \/ /\ Receive(p) /\ Head(inbox[p]) \in Mail
            /\ WellHandled(page[p], Head(inbox[p]), page'[p])
PROOF
<1>0. DOMAIN page = Pages /\ GoodPage(page[p])
  BY DEF TInv, PagesAreGood
<1>1. ASSUME NEW q \in Pages, Open(q)
      PROVE  page'[p] = page[p] \/ (q = p /\ page'[p] \in {page[p], NewPage})
  BY <1>0, <1>1 DEF Open
<1>2. ASSUME NEW q \in Pages, PageOrdersNothing(q)
      PROVE  \/ page'[p] = page[p]
             \/ q = p /\ page[p].nextID <= MaxPageOrders /\ page'[p] = SendInvalid(page[p])
  BY <1>0, <1>2 DEF PageOrdersNothing, PageOrdersOffline
<1>3. ASSUME NEW q \in Pages, NEW order \in PageMenu,
             PageOrders(q, order) \/ PageOrdersOffline(q, order)
      PROVE  \/ page'[p] = page[p]
             \/ /\ q = p /\ page[p].nextID <= MaxPageOrders /\ order.size \in Int
                /\ page'[p] = SendOrder(page[p], order.size)
  <2>1. order.size \in Int
    BY MenuAssumption, OrderFields
  <2> QED
    BY <1>0, <1>3, <2>1 DEF PageOrders, PageOrdersOffline
<1>4. ASSUME NEW q \in Pages, Receive(q)
      PROVE  \/ page'[p] = page[p]
             \/ /\ q = p /\ Head(inbox[p]) \in Mail
                /\ WellHandled(page[p], Head(inbox[p]), page'[p])
  <2>1. CASE q # p
    BY <1>0, <1>4, <2>1 DEF Receive
  <2>2. CASE q = p
    <3>1. inbox[p] # << >> /\ page'[p] = Handled(page[p], Head(inbox[p]))
      BY <1>0, <1>4, <2>2 DEF Receive
    <3>2. Head(inbox[p]) \in Mail
      <4> HIDE DEF Mail
      <4> QED
        BY <3>1, HeadAndTail DEF TInv, MailIsGood
    <3> QED
      BY <1>0, <2>2, <3>1, <3>2, PageHandles
  <2> QED
    BY <2>1, <2>2
<1>5. \/ \E q \in Pages : Open(q) \/ PageOrdersNothing(q) \/ Receive(q)
      \/ \E q \in Pages, order \in PageMenu :
           PageOrders(q, order) \/ PageOrdersOffline(q, order)
      \/ UNCHANGED page
  BY TradingSteps DEF Close, ServeNewUser, ServeOrder, ServeOrderThrows, OpenBot,
     BotOrders, BotCancels, StartMarket, Quote, ExchangeStep, SendResponses, webVars
<1> QED
  BY <1>1, <1>2, <1>3, <1>4, <1>5

\* The server reads the order of a page: it is handled, or refused at once.
LEMMA OrderServed ==
  ASSUME TInv, NEW p \in Pages, ServeOrder(p), NEW id,
         RequestOf(p, id, Head(outbox[p])), page[p].quoted \subseteq page'[p].quoted
  PROVE  Registered(p)' /\ (Running(p, id)' \/ Returned(p, id)')
PROOF
<1> DEFINE m == Head(outbox[p])
           u == UserOf[p]
<1>1. /\ outbox[p] # << >> /\ m.kind = "order"
      /\ outbox' = [outbox EXCEPT ![p] = Tail(@)]
      /\ UNCHANGED <<opened, session, users, nameOf, sessionIDs>>
      /\ Place(nameOf[session[p]], m.order, m.symbol, m.id)
  BY DEF ServeOrder, clientVars
<1>2. /\ Registered(p) /\ nameOf[session[p]] = u /\ u \in Users
      /\ m.order \in Orders /\ m.symbol \in Symbols /\ m.id \in OrderIDs
  BY <1>1, SessionsRead, UserOfAssumption DEF TInv
<1>3. Registered(p)'
  BY <1>1, <1>2 DEF Registered
<1>4. m.id = id /\ m.symbol \in page'[p].quoted
  BY DEF RequestOf
<1>5. Place(u, m.order, m.symbol, id)
  BY <1>1, <1>2, <1>4
<1> HIDE DEF m, u
<1>6. CASE m.symbol \in listed
  <2> DEFINE o == NewOrder(id, u, m.symbol, m.order)
             n == Len(placed) + 1
  <2>1. /\ phase' = "matching" /\ taker' = n /\ placed' = Append(placed, o)
    BY <1>2, <1>5, <1>6, UsersAssumption DEF Place, AcceptOrder
  <2>2. o.user = u /\ o.id = id /\ o.symbol = m.symbol
    BY DEF NewOrder
  <2>3. placed'[n] = o
    <3>1. placed \in Seq(OrderObject)
      BY DEF TInv, TypeOK
    <3> HIDE DEF o, OrderObject
    <3> QED
      BY <2>1, <3>1
  <2> HIDE DEF o, n
  <2> QED
    BY <1>3, <1>4, <2>1, <2>2, <2>3 DEF Running, u
<1>7. CASE m.symbol \notin listed
  <2> DEFINE f == FailureMessage(NewOrder(id, u, m.symbol, m.order))
  <2>1. /\ phase' = "idle" /\ responses' = <<f>> /\ handling' = TRUE
    BY <1>5, <1>7 DEF Place, RejectOrder
  <2>2. "success" \notin DOMAIN f /\ f.user = u /\ f.id = id /\ f.symbol = m.symbol
    BY DEF FailureMessage, NewOrder
  <2> HIDE DEF f
  <2>3. Len(responses') = 1 /\ responses'[1] = f
    BY <2>1
  <2>4. /\ "success" \notin DOMAIN responses'[1]
        /\ responses'[1].user = UserOf[p] /\ responses'[1].id = id
        /\ responses'[1].symbol \in page'[p].quoted
    BY <1>4, <2>2, <2>3 DEF u
  <2>5. (\E i \in 1..Len(responses) : ResponseTo(p, id, responses[i]))'
    BY <2>3, <2>4 DEF ResponseTo
  <2> QED
    BY <1>3, <2>1, <2>5 DEF Returned
<1> QED
  BY <1>6, <1>7

\* An order that waits for the server goes on waiting until it is read.
LEMMA UnreadStays ==
  ASSUME TInv, NEW p \in Pages, Connected(p), TradingNext, NEW id, Unread(p, id),
         id \notin joined'[p].dropped, page[p].quoted \subseteq page'[p].quoted
  PROVE  OnItsWay(p, id)'
PROOF
<1>0. SessionsAreGood /\ PagesAreGood /\ outbox[p] \in Seq(Requests)
  BY SessionOf DEF TInv
<1>1. PICK m \in ToSet(outbox[p]) : RequestOf(p, id, m)
  BY DEF Unread
<1>2. RequestOf(p, id, m)'
  BY <1>1 DEF RequestOf
<1>3. CASE m \in ToSet(outbox'[p])
  BY <1>2, <1>3 DEF OnItsWay, Unread
<1>4. CASE m \notin ToSet(outbox'[p])
  <2> HIDE DEF Requests
  <2>1. ASSUME NEW r \in Requests, outbox'[p] = Append(outbox[p], r) PROVE FALSE
    <3>1. ToSet(Append(outbox[p], r)) = ToSet(outbox[p]) \cup {r}
      BY <1>0, OneMoreInSet
    <3> QED
      BY <1>1, <1>4, <2>1, <3>1
  <2>2. /\ ServeNewUser(p) \/ ServeOrder(p) \/ ServeOrderThrows(p)
        /\ outbox[p] # << >> /\ outbox'[p] = Tail(outbox[p])
    BY <1>0, <1>1, <1>4, <2>1, OutboxMoves
  <2>3. m = Head(outbox[p])
    BY <1>0, <1>1, <1>4, <2>2, HeadOrTail
  <2>4. ~ServeNewUser(p)
    BY <1>1, <2>2, <2>3 DEF RequestOf, ServeNewUser
  <2>5. ~ServeOrderThrows(p)
    BY <1>1, <2>3 DEF RequestOf, ServeOrderThrows, TInv, JoinedIsGood
  <2> QED
    BY <1>1, <2>2, <2>3, <2>4, <2>5, OrderServed DEF OnItsWay
<1> QED
  BY <1>3, <1>4

\* What is being handled is told of when the call returns.
LEMMA RunningStays ==
  ASSUME TInv, IInv, TakerIsTold, NEW p \in Pages, TradingNext, NEW id,
         Registered(p), Running(p, id),
         page[p].quoted \subseteq page'[p].quoted
  PROVE  OnItsWay(p, id)'
PROOF
<1>1. phase # "idle" /\ handling
  BY DEF Running, TInv, HandlersAreGood
<1>2. ExchangeStep
  BY <1>1, TradingSteps DEF Open, Close, PageOrdersNothing, PageOrdersOffline,
     PageOrders, ServeNewUser, ServeOrder, ServeOrderThrows, Receive, OpenBot,
     BotOrders, BotCancels, StartMarket, Quote, SendResponses, Idle
<1>3. CallStep /\ UNCHANGED <<handling, session, nameOf>>
  BY <1>2 DEF ExchangeStep, clientVars
<1>4. TypeOK'
  <2>1. ExchangeMove
    BY <1>3 DEF ExchangeMove
  <2> QED
    BY <2>1, MovesType DEF TInv
<1>5. /\ UNCHANGED placed
      /\ phase' # "idle" => taker' = taker
      /\ phase' = "idle" => \E i \in 1..Len(responses') : About(responses'[i], taker)
  BY <1>3, <1>4, ToldTurns
<1>6. Registered(p)'
  BY <1>3 DEF Registered
<1>7. CASE phase' # "idle"
  <2>1. Running(p, id)'
    BY <1>5, <1>7 DEF Running
  <2> QED
    BY <1>6, <2>1 DEF OnItsWay
<1>8. CASE phase' = "idle"
  <2>1. PICK i \in 1..Len(responses') : About(responses'[i], taker)
    BY <1>5, <1>8
  <2>2. /\ "success" \notin DOMAIN responses'[i]
        /\ responses'[i].user = UserOf[p] /\ responses'[i].id = id
        /\ responses'[i].symbol \in page'[p].quoted
    BY <2>1 DEF About, Running
  <2>3. (\E j \in 1..Len(responses) : ResponseTo(p, id, responses[j]))'
    BY <2>2 DEF ResponseTo
  <2> QED
    BY <1>1, <1>3, <1>6, <1>8, <2>3 DEF OnItsWay, Returned
<1> QED
  BY <1>7, <1>8

\* What was returned arrives: the session is listed for its user.
LEMMA ReturnedArrives ==
  ASSUME TInv, NEW p \in Pages, TradingNext, NEW id, Registered(p), Returned(p, id),
         page[p].quoted \subseteq page'[p].quoted
  PROVE  OnItsWay(p, id)'
PROOF
<1>1. phase = "idle" /\ handling
  BY DEF Returned
<1>2. SendResponses
  BY <1>1, TradingSteps DEF Open, Close, PageOrdersNothing, PageOrdersOffline,
     PageOrders, ServeNewUser, ServeOrder, ServeOrderThrows, Receive, OpenBot,
     BotOrders, BotCancels, StartMarket, Quote, ExchangeStep, CallStep, Match,
     FinishMatching, Settle, SettleThrows, EndPlaceOrder, Idle
<1>3. PICK i \in 1..Len(responses) : ResponseTo(p, id, responses[i])
  BY DEF Returned
<1>4. PICK list \in Seq(Mail) :
        /\ inbox'[p] = inbox[p] \o list
        /\ Copies(p, responses[i]) # 0 => Packed(responses[i]) \in ToSet(list)
  BY <1>2, SentToPage DEF TInv
<1>5. Copies(p, responses[i]) # 0
  <2>1. session[p] # NoSession /\ session[p] \in ToSet(sessionIDs[UserOf[p]])
    BY SessionOf DEF TInv, SessionsAreGood, ListsAreGood
  <2>2. sessionIDs[UserOf[p]] \in Seq(1..opened)
    BY UserOfAssumption DEF TInv, SessionsAreGood, SessionTypes
  <2>3. Copies(p, responses[i]) = Cardinality(PlacesIn(sessionIDs[UserOf[p]], session[p]))
    BY <1>3, <2>1 DEF Copies, Listings, PlacesIn, ResponseTo
  <2> QED
    BY <2>1, <2>2, <2>3, PlacesAreFinite
<1>6. Packed(responses[i]) \in ToSet(inbox'[p])
  <2>1. inbox[p] \in Seq(Mail)
    <3> HIDE DEF Mail
    <3> QED
      BY DEF TInv, MailIsGood
  <2> HIDE DEF Mail
  <2> QED
    BY <1>4, <1>5, <2>1, ConcatInSet
<1>7. Answers(Packed(responses[i]), id, page'[p])
  BY <1>3 DEF Answers, Packed, ResponseTo
<1> QED
  BY <1>6, <1>7 DEF OnItsWay, Waiting

\* What waits for the page goes on waiting until the page has handled it.
LEMMA WaitingStays ==
  ASSUME TInv, NEW p \in Pages, Connected(p), TradingNext, NEW id, Waiting(p, id),
         page[p].quoted \subseteq page'[p].quoted, Pending(page'[p], id)
  PROVE  OnItsWay(p, id)'
PROOF
<1>1. PICK m \in ToSet(inbox[p]) : Answers(m, id, page[p])
  BY DEF Waiting
<1>2. Answers(m, id, page'[p])
  BY <1>1 DEF Answers
<1>3. CASE m \in ToSet(inbox'[p])
  BY <1>2, <1>3 DEF OnItsWay, Waiting
<1>4. CASE m \notin ToSet(inbox'[p])
  <2>1. Receive(p) /\ m = Head(inbox[p])
    BY <1>1, <1>4, InboxMoves
  <2>2. inbox[p] # << >> /\ page'[p] = Handled(page[p], m) /\ m \in Mail /\ GoodPage(page[p])
    <3>1. inbox[p] \in Seq(Mail) /\ inbox[p] # << >> /\ page'[p] = Handled(page[p], m)
      <4> HIDE DEF Mail
      <4> QED
        BY <2>1 DEF Receive, TInv, PagesAreGood, MailIsGood
    <3> HIDE DEF Mail
    <3> QED
      BY <2>1, <3>1, HeadAndTail DEF TInv, PagesAreGood
  <2>3. WellHandled(page[p], m, page'[p])
    BY <2>2, PageHandles
  <2> QED
    BY <1>1, <2>3 DEF WellHandled
<1> QED
  BY <1>3, <1>4

\* The page goes on knowing the securities it knows, and what is pending after
\* a step was pending before or has just been given the page's next ID.
LEMMA PendingMoves ==
  ASSUME TInv, NEW p \in Pages, TradingNext
  PROVE  /\ Connected(p) => page[p].quoted \subseteq page'[p].quoted
         /\ \A id : Pending(page'[p], id) =>
              \/ /\ Pending(page[p], id)
                 /\ page[p].nextID =< page'[p].nextID
              \/ /\ id = page[p].nextID /\ page'[p].nextID = page[p].nextID + 1
                 /\ page'[p].quoted = page[p].quoted
                 /\ Connected(p) => \E order \in PageMenu : PageOrders(p, order)
PROOF
<1>0. GoodPage(page[p]) /\ page[p].nextID \in Nat
  BY DEF TInv, PagesAreGood, GoodPage, GoodRest
<1>1. CASE page'[p] = page[p]
  BY <1>0, <1>1
<1>2. CASE Open(p) /\ page'[p] \in {page[p], NewPage}
  <2>1. ~Connected(p)
    BY <1>2 DEF Open, Connected
  <2>2. \A id : ~Pending(NewPage, id)
    BY FreshPage DEF Pending
  <2> QED
    BY <1>0, <1>2, <2>1, <2>2
<1>3. CASE /\ page[p].nextID <= MaxPageOrders
           /\ page'[p] = SendInvalid(page[p])
  BY <1>0, <1>3, PageSendsNothing DEF Pending
<1>4. ASSUME NEW order \in PageMenu, PageOrders(p, order) \/ PageOrdersOffline(p, order),
             page[p].nextID <= MaxPageOrders, order.size \in Int,
             page'[p] = SendOrder(page[p], order.size)
      PROVE  /\ page[p].quoted \subseteq page'[p].quoted
             /\ \A id : Pending(page'[p], id) =>
                  \/ /\ Pending(page[p], id)
                     /\ page[p].nextID =< page'[p].nextID
                  \/ /\ id = page[p].nextID /\ page'[p].nextID = page[p].nextID + 1
                     /\ page'[p].quoted = page[p].quoted
                     /\ Connected(p) => \E ord \in PageMenu : PageOrders(p, ord)
  <2>1. Connected(p) => PageOrders(p, order)
    BY <1>4 DEF PageOrdersOffline, Connected
  <2> QED
    BY <1>0, <1>4, <2>1, PageSends
<1>5. CASE Receive(p) /\ WellHandled(page[p], Head(inbox[p]), page'[p])
  BY <1>0, <1>5 DEF WellHandled
<1> QED
  BY <1>1, <1>2, <1>3, <1>4, <1>5, PageMoves

\* A page sends an order: it waits for the server.
LEMMA OrderIsUnread ==
  ASSUME TInv, NEW p \in Pages, NEW order \in PageMenu, PageOrders(p, order),
         page'[p].quoted = page[p].quoted, NEW id, id = page[p].nextID
  PROVE  Unread(p, id)'
PROOF
<1>1. PICK m \in Requests :
        /\ m.kind = "order" /\ m.id = page[p].nextID /\ m.symbol \in page[p].quoted
        /\ outbox' = [outbox EXCEPT ![p] = Append(@, m)]
  BY RequestOfPage DEF TInv
<1> HIDE DEF Requests
<1>2. outbox[p] \in Seq(Requests) /\ outbox'[p] = Append(outbox[p], m)
  BY <1>1 DEF TInv, SessionsAreGood, SessionTypes
<1>3. ToSet(Append(outbox[p], m)) = ToSet(outbox[p]) \cup {m}
  BY <1>2, OneMoreInSet
<1>4. RequestOf(p, id, m)'
  BY <1>1 DEF RequestOf
<1> QED
  BY <1>2, <1>3, <1>4 DEF Unread

\* Every step leaves the answers of pending orders on their way.
LEMMA AnswersStep ==
  ASSUME TInv, IInv, TakerIsTold, PendingAreAnswered, TradingNext
  PROVE  PendingAreAnswered'
PROOF
<1> SUFFICES ASSUME NEW p \in Pages, NEW id \in OrderIDs, Pending(page'[p], id)
             PROVE  /\ id < page'[p].nextID
                    /\ /\ session'[p] # NoSession
                       /\ id >= joined'[p].firstID /\ id \notin joined'[p].dropped
                       => OnItsWay(p, id)'
  BY DEF PendingAreAnswered, OrderIDs
<1>0. page[p].nextID \in Nat /\ id \in Nat /\ page'[p].nextID \in Int
  <2>1. PagesAreGood'
    BY PagesStep DEF TInv
  <2> QED
    BY <2>1 DEF TInv, PagesAreGood, GoodPage, GoodRest, OrderIDs
<1>1. Pending(page[p], id) => id < page[p].nextID
  BY DEF PendingAreAnswered
<1>2. id < page'[p].nextID
  BY <1>0, <1>1, PendingMoves
<1>3. ASSUME session[p] = NoSession, session'[p] # NoSession
      PROVE  id < joined'[p].firstID
  <2>1. DOMAIN session = Pages
    BY DEF TInv, SessionsAreGood, SessionTypes
  <2>2. Open(p)
    <3>1. \A q \in Pages : Open(q) \/ Close(q) => q = p \/ session'[p] = session[p]
      BY <2>1 DEF Open, Close
    <3>2. \/ \E q \in Pages : Open(q) \/ Close(q)
          \/ UNCHANGED session
      BY TradingSteps DEF PageOrdersNothing, PageOrdersOffline, PageOrders,
         ServeNewUser, ServeOrder, ServeOrderThrows, Receive, OpenBot, BotOrders,
         BotCancels, StartMarket, Quote, ExchangeStep, SendResponses
    <3> QED
      BY <1>3, <3>1, <3>2 DEF Close
  <2>3. PICK pg : /\ page' = [page EXCEPT ![p] = pg]
                  /\ joined' = [joined EXCEPT ![p].firstID = pg.nextID, ![p].dropped = {}]
    BY <2>2 DEF Open
  <2>4. joined'[p].firstID = page'[p].nextID
    BY <2>3 DEF TInv, PagesAreGood, JoinedIsGood
  <2> QED
    BY <1>2, <2>4
<1>4. ASSUME Connected(p)
      PROVE  /\ joined'[p].firstID = joined[p].firstID
             /\ joined[p].dropped \subseteq joined'[p].dropped
  <2>1. ASSUME NEW q \in Pages, Open(q) PROVE q # p
    BY <1>4, <2>1 DEF Open, Connected
  <2>2. \/ \E q \in Pages : Open(q) \/ ServeNewUser(q) \/ ServeOrderThrows(q)
        \/ UNCHANGED joined
    BY TradingSteps DEF Close, PageOrdersNothing, PageOrdersOffline, PageOrders, ServeOrder,
       Receive, OpenBot, BotOrders, BotCancels, StartMarket, Quote, ExchangeStep,
       SendResponses
  <2>3. ASSUME NEW q \in Pages, Open(q) PROVE joined'[p] = joined[p]
    BY <2>1, <2>3 DEF Open, JoinedIsGood, TInv
  <2>4. ASSUME NEW q \in Pages, ServeNewUser(q) \/ ServeOrderThrows(q)
        PROVE  /\ joined'[p].firstID = joined[p].firstID
               /\ joined[p].dropped \subseteq joined'[p].dropped
    <3>1. CASE ServeNewUser(q)
      BY <3>1 DEF ServeNewUser, JoinedIsGood, TInv
    <3>2. CASE ServeOrderThrows(q)
      <4>1. PICK i : joined' = [joined EXCEPT ![q].dropped = @ \cup {i}]
        BY <3>2 DEF ServeOrderThrows
      <4> QED
        BY <4>1 DEF JoinedIsGood, TInv
    <3> QED
      BY <2>4, <3>1, <3>2
  <2> QED
    BY <2>2, <2>3, <2>4
<1>5. ASSUME Connected(p), id >= joined[p].firstID, id \notin joined'[p].dropped
      PROVE  OnItsWay(p, id)'
  <2>1. page[p].quoted \subseteq page'[p].quoted
    BY <1>5, PendingMoves
  <2>2. CASE Pending(page[p], id)
    <3>1. OnItsWay(p, id)
      BY <1>4, <1>5, <2>2 DEF PendingAreAnswered, Connected
    <3> QED
      BY <1>5, <2>1, <3>1, UnreadStays, RunningStays, ReturnedArrives, WaitingStays
         DEF OnItsWay
  <2>3. CASE ~Pending(page[p], id)
    <3>1. /\ id = page[p].nextID /\ page'[p].quoted = page[p].quoted
          /\ \E order \in PageMenu : PageOrders(p, order)
      BY <1>5, <2>3, PendingMoves
    <3> QED
      BY <3>1, OrderIsUnread DEF OnItsWay
  <2> QED
    BY <2>2, <2>3
<1>6. ASSUME session'[p] # NoSession, id >= joined'[p].firstID, id \notin joined'[p].dropped
      PROVE  OnItsWay(p, id)'
  <2>1. joined'[p].firstID \in Nat
    <3>1. JoinedIsGood'
      BY JoinedStep DEF TInv
    <3> QED
      BY <3>1 DEF JoinedIsGood
  <2>2. session[p] # NoSession
    BY <1>0, <1>3, <1>6, <2>1
  <2> QED
    BY <1>4, <1>5, <1>6, <2>2 DEF Connected
<1> QED
  BY <1>2, <1>6

\* The initial state.
LEMMA AnswersStart ==
  ASSUME TradingInit
  PROVE  AnswerInv
PROOF
<1>1. TInv
  BY TradingStarts
<1>2. IInv
  BY InitInv DEF TradingInit
<1>3. TakerIsTold
  BY DEF TradingInit, Init, TakerIsTold
<1>4. PendingAreAnswered
  <2>1. \A p \in Pages : page[p].orders = << >>
    BY FreshPage DEF TradingInit
  <2> QED
    BY <2>1 DEF PendingAreAnswered, Pending
<1> QED
  BY <1>1, <1>2, <1>3, <1>4 DEF AnswerInv

\* Every step keeps it.
LEMMA AnswersKept ==
  ASSUME AnswerInv, [TradingNext]_tradingVars
  PROVE  AnswerInv'
PROOF
<1>0. TInv /\ TypeOK /\ TInv' /\ TypeOK'
  BY TradingKeeps DEF AnswerInv, TInv
<1>1. ExchangeMove
  BY <1>0, HandlersMove DEF TInv
<1>2. SUFFICES ASSUME UniqueIDs' PROVE IInv' /\ TakerIsTold' /\ PendingAreAnswered'
  BY <1>0 DEF AnswerInv
<1>3. UniqueIDs
  BY <1>0, <1>1, <1>2, SharedStays
<1>4. IInv /\ TakerIsTold /\ PendingAreAnswered
  BY <1>3 DEF AnswerInv
<1>5. IInv' /\ TakerIsTold'
  BY <1>0, <1>1, <1>2, <1>4, MovesInv, ToldMoves
<1>6. CASE TradingNext
  BY <1>0, <1>4, <1>5, <1>6, AnswersStep
<1>7. CASE UNCHANGED tradingVars
  <2>1. PendingAreAnswered'
    BY <1>4, <1>7 DEF PendingAreAnswered, tradingVars, exchangeVars, clientVars, webVars,
       bookVars, OnItsWay, Unread, Running, Returned, Waiting, RequestOf, ResponseTo,
       Registered, OrderIDs
  <2> QED
    BY <1>5, <2>1
<1> QED
  BY <1>6, <1>7

\* When everything is handled, nothing is on its way.
LEMMA QuietIsAnswered ==
  ASSUME AnswerInv
  PROVE  OrdersAreAnswered
PROOF
<1> SUFFICES ASSUME NEW p \in Pages, Quiet(p), DistinctIDs,
                    NEW id \in DOMAIN page[p].orders, id >= joined[p].firstID,
                    page[p].orders[id].status = "Pending", id \notin joined[p].dropped
             PROVE  FALSE
  BY DEF OrdersAreAnswered
<1>1. UniqueIDs
  BY DEF DistinctIDs, UniqueIDs
<1>2. PendingAreAnswered /\ TInv
  BY <1>1 DEF AnswerInv
<1>3. Pending(page[p], id) /\ id \in OrderIDs
  BY <1>2 DEF Pending, TInv, PagesAreGood, GoodPage, GoodOrders
<1>4. session[p] # NoSession /\ phase = "idle" /\ ~handling
  BY <1>2, SessionOf DEF Quiet, Idle, Registered, TInv
<1>5. OnItsWay(p, id)
  BY <1>2, <1>3, <1>4 DEF PendingAreAnswered
<1>6. ToSet(outbox[p]) = {} /\ ToSet(inbox[p]) = {}
  BY DEF Quiet, ToSet
<1> QED
  BY <1>4, <1>5, <1>6 DEF OnItsWay, Unread, Running, Returned, Waiting

\* When everything sent either way has been handled, the page has heard of every
\* order it sent in its session, whatever became of the books and the security
\* meanwhile, as long as no two orders came under the same ID; only those stay
\* pending for which handleOrder threw, as their quantity did not parse.
THEOREM PagesAreAnswered == TradingSpec => []OrdersAreAnswered
PROOF
<1>1. TradingInit => AnswerInv
  BY AnswersStart
<1>2. AnswerInv /\ [TradingNext]_tradingVars => AnswerInv'
  BY AnswersKept
<1>3. AnswerInv => OrdersAreAnswered
  BY QuietIsAnswered
<1> QED
  BY <1>1, <1>2, <1>3, PTL DEF TradingSpec

-----------------------------------------------------------------------------
(* What holds of the exchange under the handlers *)

\* The steps of the handlers take no money and no shares away.
LEMMA MovesConserve ==
  ASSUME AnyInv, TypeOK', ExchangeMove
  PROVE  AnyInv'
PROOF
<1>0. TypeOK /\ IndexHasOwnIDs /\ OfUsers /\ Conserved
  BY DEF AnyInv
<1>1. CASE UNCHANGED exchangeVars \/ Replaced \/ Cleared
  <2>1. /\ UNCHANGED <<placed, phase, taker, trades>> /\ UNCHANGED ledgerVars
        /\ \A id \in DOMAIN orders' : id \in DOMAIN orders /\ orders'[id] = orders[id]
        /\ \A symbol \in Symbols : book'[symbol] \subseteq book[symbol]
    BY <1>1 DEF exchangeVars, bookVars, ledgerVars, Replaced, Cleared
  <2>2. IndexHasOwnIDs' /\ OfUsers'
    BY <1>0, <2>1 DEF IndexHasOwnIDs, OfUsers
  <2> QED
    BY <1>0, <2>1, <2>2, LedgerKept DEF AnyInv
<1>2. ASSUME NEW user \in Users, NEW order \in Orders, NEW symbol \in Symbols,
             NEW id \in OrderIDs, Called(user, order, symbol, id)
      PROVE  AnyInv'
  BY <1>2, SendersAreUsers, AnyCalls DEF Called
<1> QED
  BY <1>1, <1>2, AnyCalls, AnyTurns DEF ExchangeMove

\* No cent and no share is made or lost when pages and bots trade, though the
\* exchange is replaced with every connection: the ledger is not.
THEOREM TradingConserves == TradingSpec => []Conserved
PROOF
<1>1. ASSUME TradingInit PROVE AnyInv
  BY <1>1, AnyStarts DEF TradingInit
<1>2. TInv /\ AnyInv /\ [TradingNext]_tradingVars => AnyInv'
  BY HandlersMove, MovesType, MovesConserve DEF TInv
<1>3. AnyInv => Conserved
  BY DEF AnyInv
<1> QED
  BY <1>1, <1>2, <1>3, TInvHolds, PTL DEF TradingSpec

\* As long as no two orders came under the same ID, the index leads to every
\* order that rests, and it does so through every new server and every start
\* of the market: what rests can be cancelled and its trades can be settled.
THEOREM TradingIndex == TradingSpec => [](DistinctIDs => IndexCoversBook)
PROOF
<1>1. TradingInit => AnswerInv
  BY AnswersStart
<1>2. AnswerInv /\ [TradingNext]_tradingVars => AnswerInv'
  BY AnswersKept
<1>3. AnswerInv => (DistinctIDs => IndexCoversBook)
  BY InvCoversBook DEF AnswerInv, DistinctIDs, UniqueIDs
<1> QED
  BY <1>1, <1>2, <1>3, PTL DEF TradingSpec

-----------------------------------------------------------------------------
(* The money a page shows *)

\* What a message makes of the money that is shown.
Step(n, msg) == IF msg.kind = "new_user" THEN msg.money ELSE n + MoneyOf(msg)

\* f goes through the first k messages of the list and starts at a.
GoesTo(f, list, a, k) ==
  /\ f \in [0..k -> Int]
  /\ f[0] = a
  /\ \A i \in 0..(k - 1) : f[i + 1] = Step(f[i], list[i + 1])

Goes(f, list, a) == GoesTo(f, list, a, Len(list))

\* A page that shows a shows b when it has handled these messages.
Shows(list, a, b) == \E f : Goes(f, list, a) /\ f[Len(list)] = b

\* It is always a number.
LEMMA StepType ==
  ASSUME NEW n \in Int, NEW msg \in Mail
  PROVE  Step(n, msg) \in Int
PROOF
  BY DEF Step, MoneyOf, Mail, Reports, OrderMessage

\* Without messages nothing changes.
LEMMA ShowsNothing ==
  ASSUME NEW a \in Int
  PROVE  /\ Shows(<< >>, a, a)
         /\ \A b : Shows(<< >>, a, b) => b = a
PROOF
<1>1. Goes([i \in 0..0 |-> a], << >>, a)
  BY DEF Goes, GoesTo
<1> QED
  BY <1>1 DEF Shows, Goes, GoesTo

\* One more message.
LEMMA ShowsMore ==
  ASSUME NEW list \in Seq(Mail), NEW msg \in Mail, NEW a, NEW b, Shows(list, a, b)
  PROVE  Shows(Append(list, msg), a, Step(b, msg))
PROOF
<1> DEFINE n == Len(list)
           all == Append(list, msg)
<1>1. /\ n \in Nat /\ Len(all) = n + 1 /\ all[n + 1] = msg
      /\ \A i \in 1..n : all[i] = list[i]
  <2> HIDE DEF Mail
  <2> QED
    BY OneMore
<1>2. PICK f : Goes(f, list, a) /\ f[n] = b
  BY DEF Shows
<1>3. /\ f \in [0..n -> Int] /\ f[0] = a
      /\ \A i \in 0..(n - 1) : f[i + 1] = Step(f[i], list[i + 1])
  BY <1>2 DEF Goes, GoesTo
<1>4. Step(b, msg) \in Int
  BY <1>1, <1>2, <1>3, StepType
<1> HIDE DEF n, all, Mail
<1> DEFINE g == [i \in 0..(n + 1) |-> IF i = n + 1 THEN Step(b, msg) ELSE f[i]]
<1>5. g \in [0..(n + 1) -> Int] /\ g[0] = a /\ g[n + 1] = Step(b, msg)
  BY <1>1, <1>3, <1>4
<1>6. ASSUME NEW i \in 0..n PROVE g[i + 1] = Step(g[i], all[i + 1])
  <2>1. CASE i = n
    <3>1. g[i + 1] = Step(b, msg) /\ g[i] = f[n]
      BY <1>1, <2>1
    <3> QED
      BY <1>1, <1>2, <2>1, <3>1
  <2>2. CASE i # n
    <3>1. i \in 0..(n - 1) /\ g[i + 1] = f[i + 1] /\ g[i] = f[i] /\ i + 1 \in 1..n
      BY <1>1, <2>2
    <3> QED
      BY <1>1, <1>3, <3>1
  <2> QED
    BY <2>1, <2>2
<1> HIDE DEF g
<1>7. (n + 1) - 1 = n
  BY <1>1
<1> QED
  BY <1>1, <1>5, <1>6, <1>7 DEF Shows, Goes, GoesTo, all

\* The first message is handled.
LEMMA ShowsHandled ==
  ASSUME NEW list \in Seq(Mail), list # << >>, NEW a, NEW b, Shows(list, a, b)
  PROVE  Shows(Tail(list), Step(a, Head(list)), b)
PROOF
<1> DEFINE n == Len(list)
           rest == Tail(list)
<1>1. /\ n \in Nat \ {0} /\ Len(rest) = n - 1 /\ Head(list) = list[1]
      /\ \A i \in 1..(n - 1) : rest[i] = list[i + 1]
  <2> HIDE DEF Mail
  <2> QED
    BY HeadAndTail
<1>2. PICK f : Goes(f, list, a) /\ f[n] = b
  BY DEF Shows
<1>3. /\ f \in [0..n -> Int] /\ f[0] = a
      /\ \A i \in 0..(n - 1) : f[i + 1] = Step(f[i], list[i + 1])
  BY <1>2 DEF Goes, GoesTo
<1> HIDE DEF n, rest, Mail
<1> DEFINE g == [i \in 0..(n - 1) |-> f[i + 1]]
<1>4. g \in [0..(n - 1) -> Int] /\ g[0] = f[1] /\ g[n - 1] = b
  BY <1>1, <1>2, <1>3
<1>5. f[1] = Step(a, list[1])
  <2>1. 0 \in 0..(n - 1) /\ 0 + 1 = 1
    BY <1>1
  <2> QED
    BY <1>3, <2>1
<1>6. ASSUME NEW i \in 0..((n - 1) - 1) PROVE g[i + 1] = Step(g[i], rest[i + 1])
  <2>1. /\ i + 1 \in 0..(n - 1) /\ i + 1 \in 1..(n - 1) /\ i \in 0..(n - 1)
        /\ g[i + 1] = f[(i + 1) + 1] /\ g[i] = f[i + 1]
    BY <1>1
  <2>2. rest[i + 1] = list[(i + 1) + 1]
    BY <1>1, <2>1
  <2> QED
    BY <1>3, <2>1, <2>2
<1> HIDE DEF g
<1>7. Goes(g, rest, Step(a, list[1])) /\ g[Len(rest)] = b
  BY <1>1, <1>4, <1>5, <1>6 DEF Goes, GoesTo
<1> QED
  BY <1>1, <1>7 DEF Shows, rest

\* Messages behind others.
LEMMA ShowsBoth ==
  ASSUME NEW list \in Seq(Mail), NEW more \in Seq(Mail), NEW a, NEW b, NEW c,
         Shows(list, a, b), Shows(more, b, c)
  PROVE  Shows(Follow(list, more), a, c)
PROOF
<1> DEFINE m == Len(list)
           n == Len(more)
           all == Follow(list, more)
<1> HIDE DEF Mail
<1>1. /\ m \in Nat /\ n \in Nat /\ Len(all) = m + n
      /\ \A i \in 1..(m + n) : all[i] = IF i =< m THEN list[i] ELSE more[i - m]
  BY ConcatProperties DEF Follow
<1>2. PICK f : Goes(f, list, a) /\ f[m] = b
  BY DEF Shows
<1>3. PICK g : Goes(g, more, b) /\ g[n] = c
  BY DEF Shows
<1>4. /\ f \in [0..m -> Int] /\ f[0] = a
      /\ \A i \in 0..(m - 1) : f[i + 1] = Step(f[i], list[i + 1])
      /\ g \in [0..n -> Int] /\ g[0] = b
      /\ \A i \in 0..(n - 1) : g[i + 1] = Step(g[i], more[i + 1])
  BY <1>2, <1>3 DEF Goes, GoesTo
<1> HIDE DEF m, n, all
<1> DEFINE h == [i \in 0..(m + n) |-> IF i =< m THEN f[i] ELSE g[i - m]]
<1>5. h \in [0..(m + n) -> Int] /\ h[0] = a
  BY <1>1, <1>4
<1>6. h[m + n] = c
  <2>1. CASE n = 0
    BY <1>1, <1>2, <1>3, <1>4, <2>1
  <2>2. CASE n # 0
    <3>1. ~(m + n =< m) /\ (m + n) - m = n /\ m + n \in 0..(m + n)
      BY <1>1, <2>2
    <3> QED
      BY <1>3, <3>1
  <2> QED
    BY <2>1, <2>2
<1>7. ASSUME NEW i \in 0..((m + n) - 1) PROVE h[i + 1] = Step(h[i], all[i + 1])
  <2>1. i \in 0..(m + n) /\ i + 1 \in 0..(m + n) /\ i + 1 \in 1..(m + n)
    BY <1>1
  <2>2. CASE i + 1 =< m
    <3>1. i \in 0..(m - 1) /\ i =< m
      BY <1>1, <2>2
    <3>2. h[i + 1] = f[i + 1] /\ h[i] = f[i] /\ all[i + 1] = list[i + 1]
      BY <1>1, <2>1, <2>2, <3>1
    <3> QED
      BY <1>4, <3>1, <3>2
  <2>3. CASE i = m
    <3>1. ~(i + 1 =< m) /\ (i + 1) - m = 1 /\ 0 \in 0..(n - 1) /\ 0 + 1 = 1
      BY <1>1, <2>3
    <3>2. h[i + 1] = g[1] /\ h[i] = f[m] /\ all[i + 1] = more[1]
      BY <1>1, <2>1, <2>3, <3>1
    <3>3. g[1] = Step(g[0], more[1])
      BY <1>4, <3>1
    <3> QED
      BY <1>2, <1>4, <3>2, <3>3
  <2>4. CASE i > m
    <3>1. ~(i + 1 =< m) /\ ~(i =< m) /\ (i + 1) - m = (i - m) + 1 /\ i - m \in 0..(n - 1)
      BY <1>1, <2>4
    <3>2. h[i + 1] = g[(i - m) + 1] /\ h[i] = g[i - m] /\ all[i + 1] = more[(i - m) + 1]
      BY <1>1, <2>1, <3>1
    <3> QED
      BY <1>4, <3>1, <3>2
  <2> QED
    BY <1>1, <2>2, <2>3, <2>4
<1> HIDE DEF h
<1> QED
  BY <1>1, <1>5, <1>6, <1>7 DEF Shows, Goes, GoesTo, all

\* Some amount is always shown in the end.
LEMMA ShowsSomething ==
  ASSUME NEW list \in Seq(Mail), NEW a \in Int
  PROVE  \E b \in Int : Shows(list, a, b)
PROOF
<1> DEFINE n == Len(list)
           I == {k \in Nat : k =< n => \E f : GoesTo(f, list, a, k)}
<1>0. n \in Nat /\ \A i \in 1..n : list[i] \in Mail
  <2> HIDE DEF Mail
  <2> QED
    OBVIOUS
<1> HIDE DEF n
<1>1. 0 \in I
  <2>1. GoesTo([i \in 0..0 |-> a], list, a, 0)
    BY DEF GoesTo
  <2> QED
    BY <2>1
<1>2. ASSUME NEW k \in I PROVE k + 1 \in I
  <2>1. k \in Nat
    OBVIOUS
  <2>2. ASSUME k + 1 =< n PROVE \E f : GoesTo(f, list, a, k + 1)
    <3>1. PICK f : GoesTo(f, list, a, k)
      BY <1>0, <2>1, <2>2
    <3>2. list[k + 1] \in Mail
      BY <1>0, <2>1, <2>2
    <3>3. Step(f[k], list[k + 1]) \in Int
      <4>1. f[k] \in Int
        BY <2>1, <3>1 DEF GoesTo
      <4> QED
        BY <3>2, <4>1, StepType
    <3> DEFINE more == [i \in 0..(k + 1) |-> IF i = k + 1 THEN Step(f[k], list[k + 1]) ELSE f[i]]
    <3>4. more \in [0..(k + 1) -> Int] /\ more[0] = a
      BY <2>1, <3>1, <3>3 DEF GoesTo
    <3>5. ASSUME NEW i \in 0..k PROVE more[i + 1] = Step(more[i], list[i + 1])
      <4>1. CASE i = k
        <5>1. more[i + 1] = Step(f[k], list[k + 1]) /\ more[i] = f[k]
          BY <2>1, <4>1
        <5> QED
          BY <4>1, <5>1
      <4>2. CASE i # k
        <5>1. i \in 0..(k - 1) /\ more[i + 1] = f[i + 1] /\ more[i] = f[i]
          BY <2>1, <4>2
        <5> QED
          BY <3>1, <5>1 DEF GoesTo
      <4> QED
        BY <4>1, <4>2
    <3> HIDE DEF more
    <3>6. GoesTo(more, list, a, k + 1)
      BY <2>1, <3>4, <3>5 DEF GoesTo
    <3> QED
      BY <3>6
  <2> QED
    BY <2>1, <2>2
<1>3. I = Nat
  <2>1. I \in SUBSET Nat
    OBVIOUS
  <2> HIDE DEF I
  <2> QED
    BY <1>1, <1>2, <2>1, AllNumbers
<1>4. PICK f : GoesTo(f, list, a, n)
  BY <1>0, <1>3
<1>5. f[n] \in Int /\ Goes(f, list, a)
  BY <1>0, <1>4 DEF Goes, GoesTo, n
<1> QED
  BY <1>5 DEF Shows, n

\* The same message n times.
LEMMA ShowsCopies ==
  ASSUME NEW msg \in Mail, msg.kind # "new_user", NEW n \in Nat, NEW a \in Int
  PROVE  LET list == [copy \in 1..n |-> msg]
         IN  list \in Seq(Mail) /\ Shows(list, a, a + n * MoneyOf(msg))
PROOF
<1> DEFINE list == [copy \in 1..n |-> msg]
<1>1. PICK w : w = MoneyOf(msg)
  OBVIOUS
<1>2. w \in Int /\ \A k : Step(k, msg) = k + w
  BY <1>1 DEF Step, MoneyOf, Mail, Reports, OrderMessage
<1>3. list \in Seq(Mail) /\ Len(list) = n /\ \A i \in 1..n : list[i] = msg
  <2> HIDE DEF Mail
  <2> QED
    OBVIOUS
<1> HIDE DEF list, Mail
<1> DEFINE f == [i \in 0..n |-> a + i * w]
<1>4. f \in [0..n -> Int] /\ f[0] = a /\ f[n] = a + n * w
  BY <1>2
<1>5. ASSUME NEW i \in 0..(n - 1) PROVE f[i + 1] = Step(f[i], list[i + 1])
  <2>1. i \in Int /\ i \in 0..n /\ i + 1 \in 0..n /\ i + 1 \in 1..n
    OBVIOUS
  <2>2. (i + 1) * w = i * w + w
    BY <1>2, <2>1
  <2>3. f[i + 1] = a + (i + 1) * w /\ f[i] = a + i * w
    BY <2>1
  <2>4. i * w \in Int
    BY <1>2, <2>1
  <2> QED
    BY <1>2, <1>3, <2>1, <2>2, <2>3, <2>4
<1> HIDE DEF f
<1>6. Goes(f, list, a) /\ f[Len(list)] = a + n * w
  BY <1>3, <1>4, <1>5 DEF Goes, GoesTo
<1> QED
  BY <1>1, <1>3, <1>6 DEF Shows, list

\* Lists of messages one behind the other.
LEMMA ShowsAll ==
  ASSUME NEW lists \in Seq(Seq(Mail)), NEW f \in [0..Len(lists) -> Int],
         \A i \in 0..(Len(lists) - 1) : Shows(lists[i + 1], f[i], f[i + 1])
  PROVE  FlattenSeq(lists) \in Seq(Mail) /\ Shows(FlattenSeq(lists), f[0], f[Len(lists)])
PROOF
<1> HIDE DEF Mail
<1> DEFINE n == Len(lists)
<1>0. n \in Nat /\ \A i \in 1..n : lists[i] \in Seq(Mail)
  OBVIOUS
<1>1. PICK g : IsJoining(g, lists, Mail, n)
  BY JoiningExists
<1>2. /\ g \in [0..n -> Seq(Mail)] /\ g[0] = << >>
      /\ \A i \in 0..(n - 1) : g[i + 1] = Follow(g[i], lists[i + 1])
  BY <1>1 DEF IsJoining
<1>3. FlattenSeq(lists) = g[n]
  BY <1>1, FlattenJoins
<1>4. \A i \in 0..(n - 1) : Shows(lists[i + 1], f[i], f[i + 1])
  OBVIOUS
<1>5. f \in [0..n -> Int]
  OBVIOUS
<1> HIDE DEF n
<1> DEFINE I == {k \in Nat : k =< n => Shows(g[k], f[0], f[k])}
<1>6. 0 \in I
  BY <1>0, <1>2, <1>5, ShowsNothing
<1>7. ASSUME NEW k \in I PROVE k + 1 \in I
  <2>1. k \in Nat
    OBVIOUS
  <2>2. ASSUME k + 1 =< n PROVE Shows(g[k + 1], f[0], f[k + 1])
    <3>1. k \in 0..(n - 1) /\ k \in 0..n /\ k + 1 \in 1..n
      BY <1>0, <2>1, <2>2
    <3>2. Shows(g[k], f[0], f[k]) /\ Shows(lists[k + 1], f[k], f[k + 1])
      BY <1>0, <1>4, <2>1, <2>2, <3>1
    <3>3. g[k] \in Seq(Mail) /\ lists[k + 1] \in Seq(Mail)
      BY <1>0, <1>2, <3>1
    <3>4. g[k + 1] = Follow(g[k], lists[k + 1])
      BY <1>2, <3>1
    <3> QED
      BY <3>2, <3>3, <3>4, ShowsBoth
  <2> QED
    BY <2>1, <2>2
<1>8. I = Nat
  <2>1. I \in SUBSET Nat
    OBVIOUS
  <2> HIDE DEF I
  <2> QED
    BY <1>6, <1>7, <2>1, AllNumbers
<1>9. Shows(g[n], f[0], f[n]) /\ g[n] \in Seq(Mail)
  <2>1. n \in I /\ n \in 0..n /\ n =< n
    BY <1>0, <1>8
  <2> QED
    BY <1>2, <2>1
<1> QED
  BY <1>3, <1>9 DEF n

\* What a response tells user u to have paid.
WorthTo(m, u) == IF "success" \notin DOMAIN m /\ m.user = u THEN m.money ELSE 0

\* f adds up what the list of responses tells u.
Adds(f, list, u) ==
  /\ f \in [0..Len(list) -> Int]
  /\ f[0] = 0
  /\ \A i \in 0..(Len(list) - 1) : f[i + 1] = f[i] + WorthTo(list[i + 1], u)

SumsTo(list, u, s) == \E f : Adds(f, list, u) /\ f[Len(list)] = s

\* Nothing, and one more response.
LEMMA SumsNothing ==
  ASSUME NEW u
  PROVE  SumsTo(<< >>, u, 0)
PROOF
<1>1. Adds([i \in 0..0 |-> 0], << >>, u)
  BY DEF Adds
<1> QED
  BY <1>1 DEF SumsTo

\* With one response more, the sum grows by what it adds.
LEMMA SumsMore ==
  ASSUME NEW list \in Seq(Responses), NEW m \in Responses, NEW u, NEW s, SumsTo(list, u, s)
  PROVE  /\ Append(list, m) \in Seq(Responses)
         /\ WorthTo(m, u) \in Int /\ s \in Int
         /\ SumsTo(Append(list, m), u, s + WorthTo(m, u))
PROOF
<1> DEFINE n == Len(list)
           all == Append(list, m)
<1>0. WorthTo(m, u) \in Int
  BY DEF WorthTo, Responses, Reports, OrderMessage, CancelMessages
<1> HIDE DEF Responses
<1>1. /\ n \in Nat /\ Len(all) = n + 1 /\ all[n + 1] = m /\ all \in Seq(Responses)
      /\ \A i \in 1..n : all[i] = list[i]
  BY OneMore
<1>2. PICK f : Adds(f, list, u) /\ f[n] = s
  BY DEF SumsTo
<1>3. /\ f \in [0..n -> Int] /\ f[0] = 0
      /\ \A i \in 0..(n - 1) : f[i + 1] = f[i] + WorthTo(list[i + 1], u)
  BY <1>2 DEF Adds
<1>4. PICK w : w = WorthTo(m, u)
  OBVIOUS
<1>5. s \in Int /\ w \in Int
  BY <1>0, <1>1, <1>2, <1>3, <1>4
<1> HIDE DEF n, all
<1> DEFINE g == [i \in 0..(n + 1) |-> IF i = n + 1 THEN s + w ELSE f[i]]
<1>6. g \in [0..(n + 1) -> Int] /\ g[0] = 0 /\ g[n + 1] = s + w
  BY <1>1, <1>3, <1>5
<1>7. ASSUME NEW i \in 0..n PROVE g[i + 1] = g[i] + WorthTo(all[i + 1], u)
  <2>1. CASE i = n
    <3>1. g[i + 1] = s + w /\ g[i] = f[n]
      BY <1>1, <2>1
    <3> QED
      BY <1>1, <1>2, <1>4, <2>1, <3>1
  <2>2. CASE i # n
    <3>1. i \in 0..(n - 1) /\ g[i + 1] = f[i + 1] /\ g[i] = f[i] /\ i + 1 \in 1..n
      BY <1>1, <2>2
    <3> QED
      BY <1>1, <1>3, <3>1
  <2> QED
    BY <2>1, <2>2
<1> HIDE DEF g
<1>8. (n + 1) - 1 = n
  BY <1>1
<1>9. Adds(g, all, u) /\ g[Len(all)] = s + w
  BY <1>1, <1>6, <1>7, <1>8 DEF Adds
<1> QED
  BY <1>1, <1>4, <1>5, <1>9 DEF SumsTo, all

\* How often page p is told what its user is told.
ListedTimes(p) == Cardinality(PlacesIn(sessionIDs[UserOf[p]], session[p]))

\* A page that is registered after a step was registered before, and is told as
\* often, or has just been registered.
LEMMA RegisteredStays ==
  ASSUME SessionsAreGood, TradingNext, NEW p \in Pages, Registered(p)'
  PROVE  \/ /\ Registered(p) /\ session'[p] = session[p]
            /\ ListedTimes(p)' = ListedTimes(p)
         \/ ServeNewUser(p)
PROOF
<1> DEFINE u == UserOf[p]
           s == session[p]
<1>0. /\ session \in [Pages -> 0..opened] /\ opened \in Nat
      /\ DOMAIN nameOf \subseteq 1..opened
      /\ sessionIDs \in [Users -> Seq(1..opened)] /\ u \in Users
      /\ sessionIDs[u] \in Seq(1..opened)
  BY UserOfAssumption, MaxSessionsAssumption DEF SessionsAreGood, SessionTypes
<1>1. Registered(p) => u \in users
  BY DEF SessionsAreGood, SessionTypes, ListsAreGood, Registered
<1>2. ASSUME NEW q \in Pages, Open(q)
      PROVE  Registered(p) /\ session'[p] = s /\ UNCHANGED sessionIDs
  <2>1. /\ session' = [session EXCEPT ![q] = opened + 1]
        /\ UNCHANGED <<nameOf, sessionIDs>>
    BY <1>2 DEF Open, clientVars
  <2>2. q # p
    BY <1>0, <2>1 DEF Registered
  <2> QED
    BY <1>0, <2>1, <2>2 DEF Registered
<1>3. ASSUME NEW q \in Pages, Close(q)
      PROVE  /\ Registered(p) /\ session'[p] = s
             /\ \/ sessionIDs'[u] = sessionIDs[u]
                \/ \E t : t # s /\ sessionIDs'[u] = RemoveFirst(sessionIDs[u], t)
  <2>1. /\ session[q] # NoSession
        /\ session' = [session EXCEPT ![q] = NoSession]
        /\ \/ UNCHANGED <<nameOf, sessionIDs>>
           \/ \E v : /\ sessionIDs' = [sessionIDs EXCEPT ![v] = RemoveFirst(@, session[q])]
                     /\ nameOf' = [k \in DOMAIN nameOf \ {session[q]} |-> nameOf[k]]
    BY <1>3, SameRemoveFirst DEF Close, Clients!RemoveSessionID, Clients!WithoutKey,
       Clients!clientVars
  <2>2. q # p
    BY <1>0, <2>1 DEF Registered, NoSession
  <2>3. session'[p] = s /\ Registered(p) /\ session[q] # s
    BY <1>0, <2>1, <2>2 DEF Registered, SessionsAreGood, OwnSessions
  <2>4. \/ sessionIDs'[u] = sessionIDs[u]
        \/ sessionIDs'[u] = RemoveFirst(sessionIDs[u], session[q])
    BY <1>0, <2>1
  <2> QED
    BY <2>3, <2>4
<1>4. ASSUME NEW v \in Bots, OpenBot(v)
      PROVE  /\ Registered(p) /\ session'[p] = s
             /\ \/ sessionIDs'[u] = sessionIDs[u]
                \/ \E t : t # s /\ sessionIDs'[u] = Append(sessionIDs[u], t)
  <2>1. /\ nameOf' = [k \in DOMAIN nameOf \cup {opened + 1} |->
                        IF k = opened + 1 THEN v ELSE nameOf[k]]
        /\ sessionIDs' = [sessionIDs EXCEPT ![v] =
                            Append(Clients!ListOf(v, opened + 1), opened + 1)]
        /\ UNCHANGED session
    BY <1>4 DEF OpenBot, Clients!RegisterAlgo, Clients!Put, Clients!WithAlgoSession
  <2>2. s # opened + 1
    BY <1>0
  <2>3. Registered(p)
    BY <2>1, <2>2 DEF Registered
  <2>4. v = u => Clients!ListOf(v, opened + 1) = sessionIDs[u]
    BY <1>1, <2>3 DEF Clients!ListOf
  <2>5. v \in Users
    BY BotsAssumption
  <2> QED
    BY <1>0, <2>1, <2>2, <2>3, <2>4, <2>5
<1>5. ASSUME NEW q \in Pages, ServeNewUser(q), q # p
      PROVE  /\ Registered(p) /\ session'[p] = s
             /\ \/ sessionIDs'[u] = sessionIDs[u]
                \/ \E t : t # s /\ sessionIDs'[u] = Append(sessionIDs[u], t)
  <2>1. /\ sessionIDs' = [sessionIDs EXCEPT ![UserOf[q]] =
                            Append(Clients!ListOf(UserOf[q], session[q]), session[q])]
        /\ UNCHANGED session
    BY <1>5 DEF ServeNewUser, Clients!RegisterPage
  <2>2. Registered(p) /\ session[q] # NoSession
    BY <1>5, SessionsRegister
  <2>3. session[q] # s
    BY <1>5, <2>2 DEF SessionsAreGood, OwnSessions
  <2>4. UserOf[q] = u => Clients!ListOf(UserOf[q], session[q]) = sessionIDs[u]
    BY <1>1, <2>2 DEF Clients!ListOf
  <2>5. UserOf[q] \in Users
    BY UserOfAssumption
  <2> QED
    BY <1>0, <2>1, <2>2, <2>3, <2>4, <2>5
<1>6. \/ ServeNewUser(p)
      \/ /\ Registered(p) /\ session'[p] = s
         /\ \/ sessionIDs'[u] = sessionIDs[u]
            \/ \E t : t # s /\ sessionIDs'[u] = RemoveFirst(sessionIDs[u], t)
            \/ \E t : t # s /\ sessionIDs'[u] = Append(sessionIDs[u], t)
  <2>1. \/ \E q \in Pages : Open(q) \/ Close(q) \/ ServeNewUser(q)
        \/ \E v \in Bots : OpenBot(v)
        \/ UNCHANGED <<session, nameOf, sessionIDs>>
    BY TradingSteps DEF PageOrdersNothing, PageOrdersOffline, PageOrders, ServeOrder,
       ServeOrderThrows, Receive, BotOrders, BotCancels, StartMarket, Quote,
       ExchangeStep, SendResponses, clientVars
  <2> HIDE DEF u, s
  <2>2. CASE UNCHANGED <<session, nameOf, sessionIDs>>
    BY <2>2 DEF Registered, s
  <2> QED
    BY <1>2, <1>3, <1>4, <1>5, <2>1, <2>2
<1>7. ASSUME NEW t, t # s, sessionIDs'[u] = RemoveFirst(sessionIDs[u], t)
      PROVE  Cardinality(PlacesIn(sessionIDs'[u], s)) = Cardinality(PlacesIn(sessionIDs[u], s))
  BY <1>0, <1>7, PlacesRemoved
<1>8. ASSUME NEW t, t # s, sessionIDs'[u] = Append(sessionIDs[u], t)
      PROVE  Cardinality(PlacesIn(sessionIDs'[u], s)) = Cardinality(PlacesIn(sessionIDs[u], s))
  <2>1. sessionIDs[u] \in Seq((1..opened) \cup {t}) /\ t \in (1..opened) \cup {t}
    BY <1>0, LargerSet
  <2> HIDE DEF u, s
  <2> QED
    BY <1>8, <2>1, PlacesAppend
<1> HIDE DEF u, s
<1>9. \/ ServeNewUser(p)
      \/ /\ Registered(p) /\ session'[p] = s
         /\ Cardinality(PlacesIn(sessionIDs'[u], s)) = Cardinality(PlacesIn(sessionIDs[u], s))
  BY <1>6, <1>7, <1>8
<1> QED
  BY <1>9 DEF ListedTimes, u, s

\* The money of the sides of a trade moves by what they are told, whoever is on
\* which.
LEMMA SettleTells ==
  ASSUME IInv, FillsAreGood, Settle, NEW u \in Users, NEW due, SumsTo(responses, u, due)
  PROVE  SumsTo(responses', u, due + (money[u] - money'[u])) /\ due \in Int
PROOF
<1> DEFINE t == Head(trades)
           amount == Sidemult(t) * t.filled * t.price
           c1 == Confirmation(placed[t.maker].user, MakerID(t), t.filled,
                              t.makerRemaining, -amount)
           c2 == Confirmation(placed[t.taker].user, TakerID(t), t.filled,
                              t.takerRemaining, amount)
<1>0. TypeOK /\ trades # << >>
  BY DEF IInv, Settle
<1>1. /\ responses' = responses \o <<c1, c2>>
      /\ money' = [user \in Users |-> money[user] - Share(t, user, t.filled * t.price)]
  BY DEF Settle, UpdateUsers, Confirmations
<1>2. c1 \in Responses /\ c2 \in Responses
  <2>1. Confirmations(t) = <<c1, c2>>
    BY DEF Confirmations
  <2>2. t \in Trade /\ t.filled \in Nat
    <3>1. trades \in Seq(Trade)
      BY <1>0 DEF TypeOK
    <3> HIDE DEF Trade
    <3>2. t \in Trade /\ t = trades[1] /\ 1 \in 1..Len(trades)
      BY <1>0, <3>1, HeadAndTail
    <3> QED
      BY <3>2 DEF FillsAreGood
  <2>3. MakerID(t) \in DOMAIN orders /\ TakerID(t) \in DOMAIN orders
    BY DEF Settle
  <2> HIDE DEF t, c1, c2
  <2>4. <<c1, c2>> \in Seq(Responses)
    BY <1>0, <2>1, <2>2, <2>3, ConfirmationsReport
  <2> HIDE DEF Responses
  <2>5. <<c1, c2>>[1] \in Responses /\ <<c1, c2>>[2] \in Responses
    BY <2>4, ElementsInSet
  <2> QED
    BY <2>5
<1>3. /\ t.taker = taker
      /\ t.filled \in Int /\ t.price \in Int
      /\ \/ /\ placed[taker].side = Sell
            /\ Buyer(t) = placed[t.maker].user
            /\ Seller(t) = placed[taker].user
         \/ /\ placed[taker].side = Buy
            /\ Buyer(t) = placed[taker].user
            /\ Seller(t) = placed[t.maker].user
  BY SidesOfTrade
<1>4. money[u] \in Int
  BY <1>0 DEF TypeOK
<1>5. /\ WorthTo(c1, u) = IF placed[t.maker].user = u THEN -amount ELSE 0
      /\ WorthTo(c2, u) = IF placed[t.taker].user = u THEN amount ELSE 0
  BY DEF WorthTo, Confirmation
<1>6. PICK n : n = t.filled * t.price
  OBVIOUS
<1>7. n \in Int /\ money'[u] = money[u] - Share(t, u, n)
  BY <1>1, <1>3, <1>6
<1>8. /\ placed[taker].side = Buy => amount = n
      /\ placed[taker].side = Sell => amount = -n
  <2>1. 1 * t.filled = t.filled /\ (-1) * t.filled = -t.filled /\ (-t.filled) * t.price = -n
    BY <1>3, <1>6
  <2>2. /\ placed[taker].side = Buy => Sidemult(t) = 1
        /\ placed[taker].side = Sell => Sidemult(t) = -1
    BY <1>3 DEF Sidemult, Buy, Sell
  <2> HIDE DEF t
  <2> QED
    BY <1>3, <1>6, <2>1, <2>2
<1>9. WorthTo(c1, u) + WorthTo(c2, u) = money[u] - money'[u]
  <2> HIDE DEF t, c1, c2, amount
  <2>1. Share(t, u, n) = (IF u = Buyer(t) THEN n ELSE 0) - (IF u = Seller(t) THEN n ELSE 0)
    BY DEF Share
  <2>2. -(-n) = n
    BY <1>7
  <2>3. CASE placed[taker].side = Buy
    <3>1. Buyer(t) = placed[taker].user /\ Seller(t) = placed[t.maker].user /\ amount = n
      BY <1>3, <1>8, <2>3 DEF Buy, Sell
    <3>2. /\ WorthTo(c1, u) = IF u = Seller(t) THEN -n ELSE 0
          /\ WorthTo(c2, u) = IF u = Buyer(t) THEN n ELSE 0
      BY <1>3, <1>5, <3>1
    <3> QED
      BY <1>4, <1>7, <2>1, <3>2
  <2>4. CASE placed[taker].side = Sell
    <3>1. Buyer(t) = placed[t.maker].user /\ Seller(t) = placed[taker].user /\ amount = -n
      BY <1>3, <1>8, <2>4 DEF Buy, Sell
    <3>2. /\ WorthTo(c1, u) = IF u = Buyer(t) THEN n ELSE 0
          /\ WorthTo(c2, u) = IF u = Seller(t) THEN -n ELSE 0
      BY <1>3, <1>5, <2>2, <3>1
    <3> QED
      BY <1>4, <1>7, <2>1, <3>2
  <2> QED
    BY <1>3, <2>3, <2>4
<1> HIDE DEF t, c1, c2, amount
<1>10. responses \in Seq(Responses)
  BY DEF FillsAreGood
<1> HIDE DEF Responses
<1>11. responses' = Append(Append(responses, c1), c2)
  BY <1>1, <1>2, <1>10
<1>12. /\ Append(responses, c1) \in Seq(Responses) /\ due \in Int /\ WorthTo(c1, u) \in Int
       /\ SumsTo(Append(responses, c1), u, due + WorthTo(c1, u))
  BY <1>2, <1>10, SumsMore
<1>13. WorthTo(c2, u) \in Int
       /\ SumsTo(responses', u, (due + WorthTo(c1, u)) + WorthTo(c2, u))
  BY <1>2, <1>11, <1>12, SumsMore
<1>14. (due + WorthTo(c1, u)) + WorthTo(c2, u) = due + (money[u] - money'[u])
  BY <1>9, <1>12, <1>13
<1> QED
  BY <1>12, <1>13, <1>14

\* A message that is no confirmation tells of no money.
LEMMA SumsOne ==
  ASSUME NEW m, NEW u, WorthTo(m, u) = 0
  PROVE  SumsTo(<<m>>, u, 0)
PROOF
<1>1. Adds([i \in 0..1 |-> 0], <<m>>, u)
  BY DEF Adds
<1> QED
  BY <1>1 DEF SumsTo

\* Only the two confirmations tell of money.
LEMMA NoMoney ==
  ASSUME NEW u
  PROVE  /\ \A o : WorthTo(RestingMessage(o), u) = 0 /\ WorthTo(FailureMessage(o), u) = 0
         /\ \A v, id, success : WorthTo(CancelMessage(v, id, success), u) = 0
PROOF
  BY DEF WorthTo, RestingMessage, FailureMessage, CancelMessage

\* Until the responses are sent, they tell each user how his money moved.
LEMMA LedgerMoves ==
  ASSUME TInv, IInv, TradingNext, ~SendResponses, NEW u \in Users, NEW due,
         SumsTo(responses, u, due)
  PROVE  SumsTo(responses', u, due + (money[u] - money'[u])) /\ due \in Int
PROOF
<1>0. money[u] \in Int /\ due \in Int
  <2>1. money[u] \in Int
    BY DEF TInv, TypeOK
  <2>2. Len(responses) \in Nat
    <3>1. responses \in Seq(Responses)
      BY DEF TInv, FillsAreGood
    <3> HIDE DEF Responses
    <3> QED
      BY <3>1
  <2> QED
    BY <2>1, <2>2 DEF SumsTo, Adds
<1>1. CASE UNCHANGED <<responses, money>>
  BY <1>0, <1>1
<1>2. ASSUME responses = << >>, money' = money, SumsTo(responses', u, 0)
      PROVE  SumsTo(responses', u, due + (money[u] - money'[u]))
  <2>1. due = 0
    BY <1>2 DEF SumsTo, Adds
  <2> QED
    BY <1>0, <1>2, <2>1
<1>3. Idle => responses = << >>
  BY DEF Idle, TInv, HandlersAreGood
<1>4. ASSUME NEW user, NEW order, NEW symbol, NEW id, Place(user, order, symbol, id), Idle
      PROVE  SumsTo(responses', u, due + (money[u] - money'[u]))
  <2>1. money' = money /\ (responses' = << >> \/ \E o : responses' = <<FailureMessage(o)>>)
    BY <1>4 DEF Place, AcceptOrder, RejectOrder, ledgerVars
  <2>2. SumsTo(responses', u, 0)
    BY <2>1, SumsNothing, SumsOne, NoMoney
  <2> QED
    BY <1>2, <1>3, <1>4, <2>1, <2>2
<1>5. ASSUME NEW user, NEW id, CancelOrder(user, id), Idle
      PROVE  SumsTo(responses', u, due + (money[u] - money'[u]))
  <2>1. money' = money /\ \E v, i, success : responses' = <<CancelMessage(v, i, success)>>
    BY <1>5 DEF CancelOrder, ledgerVars
  <2>2. SumsTo(responses', u, 0)
    BY <2>1, SumsOne, NoMoney
  <2> QED
    BY <1>2, <1>3, <1>5, <2>1, <2>2
<1>6. CASE StartMarket
  <2>1. Idle /\ money' = money /\ responses' = << >>
    BY <1>6 DEF StartMarket, Start, ledgerVars
  <2> QED
    BY <1>0, <1>2, <1>3, <2>1, SumsNothing
<1>7. CASE ExchangeStep
  <2>1. CASE Settle
    BY <2>1, SettleTells DEF TInv
  <2>2. CASE EndPlaceOrder
    <3>1. money' = money
      BY <2>2 DEF EndPlaceOrder, ledgerVars
    <3>2. CASE responses = << >>
      <4>1. responses' = <<RestingMessage(taker)>>
        BY <2>2, <3>2 DEF EndPlaceOrder
      <4> QED
        BY <1>0, <1>2, <3>1, <3>2, <4>1, SumsOne, NoMoney
    <3>3. CASE responses # << >>
      BY <1>1, <2>2, <3>1, <3>3 DEF EndPlaceOrder
    <3> QED
      BY <3>2, <3>3
  <2>3. ~SettleThrows
    BY NothingThrows
  <2>4. ASSUME FinishMatching \/ \E maker \in Ids : Match(maker)
        PROVE  UNCHANGED <<responses, money>>
    BY <2>4 DEF FinishMatching, Match, ledgerVars
  <2> QED
    BY <1>1, <1>7, <2>1, <2>2, <2>3, <2>4 DEF ExchangeStep, CallStep
<1>8. \/ UNCHANGED <<responses, money>>
      \/ Idle /\ \E user, order, symbol, id : Place(user, order, symbol, id)
      \/ Idle /\ \E user, id : CancelOrder(user, id)
      \/ StartMarket
      \/ ExchangeStep
  BY TradingSteps DEF Open, Close, PageOrdersNothing, PageOrdersOffline, PageOrders,
     ServeNewUser, ServeOrder, ServeOrderThrows, Receive, OpenBot, BotOrders,
     BotCancels, Quote, exchangeVars, ledgerVars
<1> QED
  BY <1>0, <1>1, <1>4, <1>5, <1>6, <1>7, <1>8

\* What a registered page will show stays, unless responses are sent to it.
LEMMA ShownMoves ==
  ASSUME TInv, TradingNext, ~SendResponses, NEW p \in Pages,
         Registered(p), session'[p] = session[p],
         NEW shown, Shows(inbox[p], page[p].money, shown)
  PROVE  Shows(inbox'[p], page'[p].money, shown)
PROOF
<1>0. /\ DOMAIN inbox = Pages /\ inbox[p] \in Seq(Mail) /\ GoodPage(page[p])
      /\ page[p].money \in Int
      /\ session \in [Pages -> 0..opened] /\ opened \in Nat /\ session[p] # NoSession
  <2> HIDE DEF Mail
  <2> QED
    BY SessionOf DEF TInv, MailIsGood, PagesAreGood, GoodPage, GoodRest, SessionsAreGood,
       SessionTypes
<1>1. CASE Receive(p)
  <2>1. inbox[p] # << >> /\ inbox'[p] = Tail(inbox[p]) /\ page'[p] = Handled(page[p], Head(inbox[p]))
    BY <1>0, <1>1 DEF Receive, TInv, PagesAreGood
  <2>2. Head(inbox[p]) \in Mail
    <3> HIDE DEF Mail
    <3> QED
      BY <1>0, <2>1, HeadAndTail
  <2>3. page'[p].money = Step(page[p].money, Head(inbox[p]))
    BY <1>0, <2>1, <2>2, PageHandles DEF WellHandled, Step
  <2> HIDE DEF Mail
  <2> QED
    BY <1>0, <2>1, <2>3, ShowsHandled
<1>2. CASE ~Receive(p)
  <2>1. page'[p].money = page[p].money
    <3>1. ~(Open(p))
      BY <1>0 DEF Open
    <3>2. ASSUME page[p].nextID <= MaxPageOrders, page'[p] = SendInvalid(page[p])
          PROVE  page'[p].money = page[p].money
      BY <1>0, <3>2, PageSendsNothing
    <3>3. ASSUME NEW order \in PageMenu, page[p].nextID <= MaxPageOrders,
                 order.size \in Int, page'[p] = SendOrder(page[p], order.size)
          PROVE  page'[p].money = page[p].money
      BY <1>0, <3>3, PageSends
    <3> QED
      BY <1>2, <3>1, <3>2, <3>3, PageMoves
  <2>2. ASSUME NEW q \in Pages, Close(q) \/ ServeNewUser(q)
        PROVE  inbox'[p] = inbox[p]
    <3>1. q # p
      BY <1>0, <2>2, SessionsRegister DEF Close, TInv, NoSession
    <3> QED
      BY <1>0, <2>2, <3>1 DEF Close, ServeNewUser
  <2>3. ASSUME NEW q \in Pages, Receive(q) PROVE inbox'[p] = inbox[p]
    BY <1>0, <1>2, <2>3 DEF Receive
  <2>4. ASSUME NEW symbol \in Symbols, Quote(symbol)
        PROVE  Shows(inbox'[p], page[p].money, shown)
    <3>1. PICK m : m = [kind |-> "quote", symbol |-> symbol]
      OBVIOUS
    <3>2. m \in Mail /\ m.kind = "quote"
      BY <3>1 DEF Mail
    <3>3. inbox'[p] = inbox[p] \/ inbox'[p] = Append(inbox[p], m)
      BY <2>4, <3>1 DEF Quote
    <3>4. shown \in Int
      <4>1. Len(inbox[p]) \in Nat
        <5> HIDE DEF Mail
        <5> QED
          BY <1>0
      <4> QED
        BY <4>1 DEF Shows, Goes, GoesTo
    <3>5. Step(shown, m) = shown
      BY <3>2, <3>4 DEF Step, MoneyOf
    <3> HIDE DEF Mail
    <3>6. Shows(Append(inbox[p], m), page[p].money, Step(shown, m))
      BY <1>0, <3>2, ShowsMore
    <3> QED
      BY <3>3, <3>5, <3>6
  <2>5. \/ \E q \in Pages : Close(q) \/ ServeNewUser(q) \/ Receive(q)
        \/ \E symbol \in Symbols : Quote(symbol)
        \/ UNCHANGED inbox
    BY TradingSteps DEF Open, PageOrdersNothing, PageOrdersOffline, PageOrders,
       ServeOrder, ServeOrderThrows, OpenBot, BotOrders, BotCancels, StartMarket,
       ExchangeStep, webVars
  <2> QED
    BY <2>1, <2>2, <2>3, <2>4, <2>5
<1> QED
  BY <1>1, <1>2

\* Sending tells a registered page, once for each time it is listed, what the
\* responses tell its user.
LEMMA ShownSent ==
  ASSUME TInv, SendResponses, NEW p \in Pages, Registered(p),
         NEW shown, Shows(inbox[p], page[p].money, shown),
         NEW due, SumsTo(responses, UserOf[p], due)
  PROVE  Shows(inbox'[p], page[p].money, shown + ListedTimes(p) * due)
PROOF
<1> DEFINE u == UserOf[p]
           k == ListedTimes(p)
           n == Len(responses)
           lists == [i \in 1..n |-> CopiesFor(p, i)]
<1>0. /\ inbox[p] \in Seq(Mail) /\ session[p] # NoSession /\ u \in Users
      /\ sessionIDs[u] \in Seq(1..opened)
  <2> HIDE DEF Mail
  <2> QED
    BY SessionOf, ListedAreOpened DEF TInv, MailIsGood
<1>1. k \in Nat
  BY <1>0, PlacesAreFinite DEF ListedTimes
<1>2. n \in Nat /\ \A i \in 1..n : responses[i] \in Responses
  <2> HIDE DEF Responses
  <2> QED
    BY DEF TInv, FillsAreGood
<1>3. inbox'[p] = Follow(inbox[p], FlattenSeq(lists))
  BY DEF SendResponses, CopiesFor, Follow
<1>4. PICK h : /\ h \in [0..n -> Int] /\ h[0] = 0 /\ h[n] = due
               /\ \A i \in 0..(n - 1) : h[i + 1] = h[i] + WorthTo(responses[i + 1], u)
  BY DEF SumsTo, Adds
<1>5. shown \in Int
  <2>1. Len(inbox[p]) \in Nat
    <3> HIDE DEF Mail
    <3> QED
      BY <1>0
  <2> QED
    BY <2>1 DEF Shows, Goes, GoesTo
<1>6. ASSUME NEW i \in 1..n
      PROVE  /\ CopiesFor(p, i) \in Seq(Mail)
             /\ \A a \in Int : Shows(CopiesFor(p, i), a, a + k * WorthTo(responses[i], u))
  <2> HIDE DEF lists
  <2>1. PICK m : m = Packed(responses[i])
    OBVIOUS
  <2>2. /\ m \in Mail /\ m.kind # "new_user" /\ m.response = responses[i]
        /\ m.kind = "order" <=> responses[i] \in Reports
    BY <1>2, <2>1, PackedType
  <2>3. PICK c : c = Copies(p, responses[i])
    OBVIOUS
  <2>4. responses[i].user \in Users
    BY <1>2 DEF Responses
  <2>5. c \in Nat
    BY <2>3, <2>4, CopiesType DEF TInv
  <2>6. CopiesFor(p, i) = [copy \in 1..c |-> m]
    BY <2>1, <2>3 DEF CopiesFor
  <2>7. c * MoneyOf(m) = k * WorthTo(responses[i], u)
    <3>1. "success" \notin DOMAIN responses[i] <=> responses[i] \in Reports
      BY <1>2 DEF Responses, Reports, OrderMessage, CancelMessages
    <3>2. CASE responses[i].user = u
      <4>1. c = k
        BY <1>0, <2>3, <3>2 DEF Copies, Listings, ListedTimes, PlacesIn
      <4>2. MoneyOf(m) = WorthTo(responses[i], u)
        BY <2>2, <3>1, <3>2 DEF MoneyOf, WorthTo
      <4> QED
        BY <4>1, <4>2
    <3>3. CASE responses[i].user # u
      <4>1. WorthTo(responses[i], u) = 0
        BY <3>3 DEF WorthTo
      <4>2. c = 0
        <5>1. session[p] \notin ToSet(sessionIDs[responses[i].user])
          BY <1>0, <2>4, <3>3 DEF TInv, SessionsAreGood, ListsAreGood
        <5>2. sessionIDs[responses[i].user] \in Seq(1..opened)
          BY <2>4, ListedAreOpened DEF TInv
        <5>3. c = Cardinality(PlacesIn(sessionIDs[responses[i].user], session[p]))
          BY <1>0, <2>3 DEF Copies, Listings, PlacesIn
        <5> QED
          BY <5>1, <5>2, <5>3, PlacesAreFinite
      <4>3. MoneyOf(m) \in Int
        BY <2>2 DEF MoneyOf, Mail, Reports, OrderMessage
      <4> QED
        BY <1>1, <4>1, <4>2, <4>3
    <3> QED
      BY <3>2, <3>3
  <2> HIDE DEF Mail, k, u
  <2>8. [copy \in 1..c |-> m] \in Seq(Mail)
    BY <2>2, <2>5
  <2>9. \A a \in Int : Shows([copy \in 1..c |-> m], a, a + c * MoneyOf(m))
    BY <2>2, <2>5, ShowsCopies
  <2> QED
    BY <2>6, <2>7, <2>8, <2>9
<1>7. lists \in Seq(Seq(Mail)) /\ Len(lists) = n /\ \A i \in 1..n : lists[i] = CopiesFor(p, i)
  <2> HIDE DEF Mail
  <2> QED
    BY <1>2, <1>6
<1> HIDE DEF lists, n, k, u, Mail, Responses
<1> DEFINE f == [i \in 0..n |-> shown + k * h[i]]
<1>8. f \in [0..n -> Int] /\ f[0] = shown /\ f[n] = shown + k * due
  <2>1. \A i \in 0..n : k * h[i] \in Int
    BY <1>1, <1>4
  <2>2. k * 0 = 0
    BY <1>1
  <2> QED
    BY <1>2, <1>4, <1>5, <2>1, <2>2
<1>9. ASSUME NEW i \in 0..(n - 1) PROVE Shows(lists[i + 1], f[i], f[i + 1])
  <2>1. PICK w : w = WorthTo(responses[i + 1], u)
    OBVIOUS
  <2>2. /\ i \in 0..n /\ i + 1 \in 0..n /\ i + 1 \in 1..n
        /\ h[i] \in Int /\ h[i + 1] \in Int /\ h[i + 1] = h[i] + w
    BY <1>2, <1>4, <2>1
  <2>3. w \in Int
    <3>1. responses[i + 1] \in Responses
      BY <1>2, <2>2
    <3> QED
      BY <2>1, <3>1 DEF WorthTo, Responses, Reports, OrderMessage, CancelMessages
  <2>4. f[i] = shown + k * h[i] /\ f[i + 1] = shown + k * h[i + 1] /\ f[i] \in Int
    BY <1>8, <2>2
  <2>5. f[i + 1] = f[i] + k * w
    <3>1. k * (h[i] + w) = k * h[i] + k * w /\ k * h[i] \in Int /\ k * w \in Int
      BY <1>1, <2>2, <2>3
    <3> HIDE DEF f
    <3> QED
      BY <1>5, <2>2, <2>4, <3>1
  <2> HIDE DEF f
  <2> QED
    BY <1>6, <1>7, <2>1, <2>2, <2>4, <2>5
<1> HIDE DEF f
<1>10. FlattenSeq(lists) \in Seq(Mail) /\ Shows(FlattenSeq(lists), f[0], f[n])
  BY <1>7, <1>8, <1>9, ShowsAll
<1>11. Shows(inbox'[p], page[p].money, f[n])
  BY <1>0, <1>3, <1>8, <1>10, ShowsBoth
<1> QED
  BY <1>8, <1>11 DEF k

\* What a registered page will show when it has handled what waits for it and
\* what is about to be sent: the money moved against the ledger since it
\* registered, once for each time it is listed.
MoneyAddsUp ==
  \A p \in Pages : Registered(p) =>
    \E shown, due \in Int :
      /\ Shows(inbox[p], page[p].money, shown)
      /\ SumsTo(responses, UserOf[p], due)
      /\ shown + ListedTimes(p) * due =
           joined[p].money + ListedTimes(p) * (joined[p].money - money[UserOf[p]])

\* A page that has just been registered.
LEMMA MoneyStarts ==
  ASSUME TInv, NEW p \in Pages, ServeNewUser(p), ListedTimes(p)' \in Nat
  PROVE  \E shown, due \in Int :
           /\ Shows(inbox'[p], page'[p].money, shown)
           /\ SumsTo(responses', UserOf[p], due)
           /\ shown + ListedTimes(p)' * due =
                joined'[p].money + ListedTimes(p)' * (joined'[p].money - money'[UserOf[p]])
PROOF
<1>1. PICK m : m = [kind |-> "new_user", money |-> money[UserOf[p]]]
  OBVIOUS
<1>2. /\ inbox' = [inbox EXCEPT ![p] = Append(inbox[p], m)]
      /\ joined' = [joined EXCEPT ![p] =
                      [joined[p] EXCEPT !.money = money[UserOf[p]], !.orders = Len(placed)]]
      /\ UNCHANGED <<page, money, responses>> /\ Idle
  BY <1>1 DEF ServeNewUser, exchangeVars, ledgerVars
<1>3. /\ inbox[p] \in Seq(Mail) /\ DOMAIN inbox = Pages /\ page[p].money \in Int
      /\ money[UserOf[p]] \in Int
  <2> HIDE DEF Mail
  <2> QED
    BY UserOfAssumption DEF TInv, MailIsGood, PagesAreGood, GoodPage, GoodRest, TypeOK
<1>4. m \in Mail /\ m.kind = "new_user" /\ m.money = money[UserOf[p]]
  BY <1>1, <1>3 DEF Mail
<1>5. joined'[p].money = money[UserOf[p]]
  BY <1>2 DEF TInv, JoinedIsGood
<1>6. PICK b \in Int : Shows(inbox[p], page[p].money, b)
  BY <1>3, ShowsSomething
<1>7. Shows(Append(inbox[p], m), page[p].money, Step(b, m)) /\ Step(b, m) = money[UserOf[p]]
  BY <1>3, <1>4, <1>6, ShowsMore DEF Step
<1>8. Shows(inbox'[p], page'[p].money, money[UserOf[p]])
  <2> HIDE DEF Mail
  <2> QED
    BY <1>2, <1>3, <1>7
<1>9. SumsTo(responses', UserOf[p], 0)
  <2>1. responses = << >>
    BY <1>2 DEF Idle, TInv, HandlersAreGood
  <2> QED
    BY <1>2, <2>1, SumsNothing
<1>10. money[UserOf[p]] + ListedTimes(p)' * 0 =
         joined'[p].money + ListedTimes(p)' * (joined'[p].money - money'[UserOf[p]])
  <2>1. joined'[p].money - money'[UserOf[p]] = 0
    BY <1>2, <1>3, <1>5
  <2>2. ListedTimes(p)' * 0 = 0
    OBVIOUS
  <2> QED
    BY <1>3, <1>5, <2>1, <2>2
<1> QED
  BY <1>3, <1>8, <1>9, <1>10

\* How often a page is told is a number.
LEMMA ListedTimesType ==
  ASSUME SessionsAreGood, NEW p \in Pages
  PROVE  ListedTimes(p) \in Nat
PROOF
<1>1. sessionIDs[UserOf[p]] \in Seq(1..opened)
  BY UserOfAssumption, ListedAreOpened
<1> QED
  BY <1>1, PlacesAreFinite DEF ListedTimes

\* Every step keeps that.
LEMMA MoneyStep ==
  ASSUME TInv, TInv', IInv, MoneyAddsUp, TradingNext
  PROVE  MoneyAddsUp'
PROOF
<1> SUFFICES ASSUME NEW p \in Pages, Registered(p)'
             PROVE  \E shown, due \in Int :
                      /\ Shows(inbox'[p], page'[p].money, shown)
                      /\ SumsTo(responses', UserOf[p], due)
                      /\ shown + ListedTimes(p)' * due =
                           joined'[p].money
                             + ListedTimes(p)' * (joined'[p].money - money'[UserOf[p]])
  BY DEF MoneyAddsUp
<1>1. ListedTimes(p) \in Nat /\ ListedTimes(p)' \in Nat
  <2>1. ListedTimes(p) \in Nat
    BY ListedTimesType DEF TInv
  <2>2. SessionsAreGood'
    BY DEF TInv
  <2>3. sessionIDs'[UserOf[p]] \in Seq(1..opened')
    BY <2>2, UserOfAssumption DEF SessionsAreGood, SessionTypes
  <2> QED
    BY <2>1, <2>3, PlacesAreFinite DEF ListedTimes
<1>2. CASE ServeNewUser(p)
  BY <1>1, <1>2, MoneyStarts
<1>3. CASE ~ServeNewUser(p)
  <2> DEFINE u == UserOf[p]
             k == ListedTimes(p)
             j == joined[p].money
             old == money[u]
             new == money'[u]
  <2>1. Registered(p) /\ session'[p] = session[p] /\ ListedTimes(p)' = k
    BY <1>3, RegisteredStays DEF TInv
  <2>2. PICK shown, due \in Int :
          /\ Shows(inbox[p], page[p].money, shown)
          /\ SumsTo(responses, u, due)
          /\ shown + k * due = j + k * (j - old)
    BY <2>1 DEF MoneyAddsUp
  <2>3. /\ u \in Users /\ j \in Int /\ old \in Int /\ new \in Int
        /\ session[p] # NoSession
    BY <2>1, UserOfAssumption, SessionOf DEF TInv, TypeOK, JoinedIsGood
  <2>4. joined'[p].money = j
    <3>1. ASSUME NEW q \in Pages, Open(q) \/ ServeNewUser(q) PROVE q # p
      BY <1>3, <2>3, <3>1 DEF Open
    <3>2. \/ \E q \in Pages : Open(q) \/ ServeNewUser(q) \/ ServeOrderThrows(q)
          \/ UNCHANGED joined
      BY TradingSteps DEF Close, PageOrdersNothing, PageOrdersOffline, PageOrders,
         ServeOrder, Receive, OpenBot, BotOrders, BotCancels, StartMarket, Quote,
         ExchangeStep, SendResponses
    <3>3. ASSUME NEW q \in Pages, ServeOrderThrows(q) PROVE joined'[p].money = j
      <4>1. PICK i : joined' = [joined EXCEPT ![q].dropped = @ \cup {i}]
        BY <3>3 DEF ServeOrderThrows
      <4> QED
        BY <4>1 DEF JoinedIsGood, TInv
    <3> QED
      BY <3>1, <3>2, <3>3 DEF Open, ServeNewUser, TInv, JoinedIsGood
  <2> HIDE DEF u, k, j, old, new
  <2>5. CASE SendResponses
    <3>1. /\ responses' = << >> /\ UNCHANGED <<page, money>>
      BY <2>5 DEF SendResponses, ledgerVars
    <3>2. Shows(inbox'[p], page'[p].money, shown + k * due)
      BY <2>1, <2>2, <2>5, <3>1, ShownSent DEF u, k
    <3>3. SumsTo(responses', u, 0)
      BY <3>1, SumsNothing
    <3>4. /\ k * due \in Int /\ k * 0 = 0 /\ new = old
      BY <1>1, <2>2, <3>1 DEF k, new, old
    <3>5. (shown + k * due) + k * 0 = j + k * (j - new)
      BY <2>2, <3>4
    <3>6. shown + k * due \in Int
      BY <2>2, <3>4
    <3> QED
      BY <2>1, <2>4, <3>2, <3>3, <3>5, <3>6 DEF u, new
  <2>6. CASE ~SendResponses
    <3>1. Shows(inbox'[p], page'[p].money, shown)
      BY <2>1, <2>2, <2>6, ShownMoves
    <3>2. PICK more : more = due + (old - new)
      OBVIOUS
    <3>3. SumsTo(responses', u, more) /\ more \in Int
      BY <2>2, <2>3, <2>6, <3>2, LedgerMoves DEF old, new
    <3>4. shown + k * more = j + k * (j - new)
      <4>1. /\ k * more = k * due + k * old - k * new
            /\ k * (j - old) = k * j - k * old
            /\ k * (j - new) = k * j - k * new
            /\ k * due \in Int /\ k * old \in Int /\ k * new \in Int /\ k * j \in Int
        BY <1>1, <2>2, <2>3, <3>2 DEF k
      <4> QED
        BY <2>2, <2>3, <4>1
    <3> QED
      BY <2>1, <2>2, <2>4, <3>1, <3>3, <3>4 DEF u, new
  <2> QED
    BY <2>5, <2>6
<1> QED
  BY <1>2, <1>3

\* When everything is handled, the page shows it.
LEMMA QuietIsMirrored ==
  ASSUME TInv, MoneyAddsUp, NEW p \in Pages, Quiet(p)
  PROVE  page[p].money - joined[p].money =
           Cardinality(Listings(session[p], UserOf[p]))
             * (joined[p].money - money[UserOf[p]])
PROOF
<1>1. Registered(p) /\ inbox[p] = << >> /\ responses = << >>
  BY DEF Quiet, Registered, Idle, TInv, HandlersAreGood
<1>2. PICK shown, due \in Int :
        /\ Shows(inbox[p], page[p].money, shown)
        /\ SumsTo(responses, UserOf[p], due)
        /\ shown + ListedTimes(p) * due =
             joined[p].money + ListedTimes(p) * (joined[p].money - money[UserOf[p]])
  BY <1>1 DEF MoneyAddsUp
<1>3. /\ page[p].money \in Int /\ joined[p].money \in Int /\ money[UserOf[p]] \in Int
  BY UserOfAssumption DEF TInv, PagesAreGood, GoodPage, GoodRest, TypeOK, JoinedIsGood
<1>4. shown = page[p].money
  BY <1>1, <1>2, <1>3, ShowsNothing
<1>5. due = 0
  BY <1>1, <1>2 DEF SumsTo, Adds
<1>6. PICK k : k = ListedTimes(p)
  OBVIOUS
<1>7. k \in Nat
  BY <1>6, ListedTimesType DEF TInv
<1>8. Cardinality(Listings(session[p], UserOf[p])) = k
  BY <1>6 DEF ListedTimes, Listings, PlacesIn
<1>9. PICK w : w = k * (joined[p].money - money[UserOf[p]])
  OBVIOUS
<1>10. w \in Int /\ k * due = 0
  BY <1>3, <1>5, <1>7, <1>9
<1>11. page[p].money + 0 = joined[p].money + w
  BY <1>2, <1>4, <1>6, <1>9, <1>10
<1> QED
  BY <1>3, <1>8, <1>9, <1>10, <1>11

\* The money that a page shows moves against the ledger, once for each time
\* its session is listed, whatever trades, cancels, restarts of the books and
\* other connections there were since it registered, as long as no two orders
\* came under the same ID.
THEOREM PagesMirrorLedger == TradingSpec => []MoneyMirrorsLedger
PROOF
<1> DEFINE Inv == AnswerInv /\ (UniqueIDs => MoneyAddsUp)
<1>1. TradingInit => Inv
  <2>1. ASSUME TradingInit PROVE MoneyAddsUp
    <3>1. DOMAIN nameOf = {}
      BY <2>1 DEF TradingInit, Clients!InitClients
    <3> QED
      BY <3>1 DEF MoneyAddsUp, Registered
  <2> QED
    BY <2>1, AnswersStart
<1>2. Inv /\ [TradingNext]_tradingVars => Inv'
  <2> SUFFICES ASSUME Inv, [TradingNext]_tradingVars PROVE Inv'
    OBVIOUS
  <2>1. AnswerInv' /\ TInv /\ TInv' /\ TypeOK
    BY AnswersKept DEF AnswerInv, TInv
  <2>2. SUFFICES ASSUME UniqueIDs' PROVE MoneyAddsUp'
    BY <2>1
  <2>3. UniqueIDs
    BY <2>1, <2>2, HandlersMove, SharedStays DEF TInv
  <2>4. IInv /\ MoneyAddsUp
    BY <2>3 DEF AnswerInv
  <2>5. CASE TradingNext
    BY <2>1, <2>4, <2>5, MoneyStep
  <2>6. CASE UNCHANGED tradingVars
    BY <2>4, <2>6 DEF MoneyAddsUp, tradingVars, exchangeVars, clientVars, webVars, ledgerVars,
       Registered, ListedTimes
  <2> QED
    BY <2>5, <2>6
<1>3. Inv => MoneyMirrorsLedger
  <2> SUFFICES ASSUME Inv, NEW p \in Pages, Quiet(p), DistinctIDs
               PROVE  page[p].money - joined[p].money =
                        Cardinality(Listings(session[p], UserOf[p]))
                          * (joined[p].money - money[UserOf[p]])
    BY DEF MoneyMirrorsLedger
  <2>1. UniqueIDs
    BY DEF DistinctIDs, UniqueIDs
  <2> QED
    BY <2>1, QuietIsMirrored DEF AnswerInv
<1> QED
  BY <1>1, <1>2, <1>3, PTL DEF TradingSpec
=============================================================================
