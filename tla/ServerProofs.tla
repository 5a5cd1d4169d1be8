---------------------------- MODULE ServerProofs ----------------------------
(***************************************************************************)
(* Proofs about Server, for any users, algos, sessions and processes.      *)
(***************************************************************************)
EXTENDS Server, DataFacts

-----------------------------------------------------------------------------
(* Maps with a key more or less *)

\* A partial function is a function on its domain.
LEMMA PartialFunction ==
  ASSUME NEW S, NEW T, NEW f
  PROVE  f \in PartialFunctions(S, T) <=> DOMAIN f \subseteq S /\ f \in [DOMAIN f -> T]
PROOF
<1>1. ASSUME f \in PartialFunctions(S, T)
      PROVE  DOMAIN f \subseteq S /\ f \in [DOMAIN f -> T]
  <2>1. PICK D \in SUBSET S : f \in [D -> T]
    BY <1>1 DEF PartialFunctions
  <2> QED
    BY <2>1
<1>2. ASSUME DOMAIN f \subseteq S, f \in [DOMAIN f -> T]
      PROVE  f \in PartialFunctions(S, T)
  BY <1>2 DEF PartialFunctions
<1> QED
  BY <1>1, <1>2

\* put
LEMMA PutType ==
  ASSUME NEW S, NEW T, NEW f \in PartialFunctions(S, T), NEW key \in S, NEW value \in T
  PROVE  Put(f, key, value) \in PartialFunctions(S, T)
PROOF
<1>1. DOMAIN f \subseteq S /\ f \in [DOMAIN f -> T]
  BY PartialFunction
<1>2. Put(f, key, value) \in [DOMAIN f \cup {key} -> T]
  BY <1>1 DEF Put
<1> QED
  BY <1>1, <1>2 DEF PartialFunctions

\* remove
LEMMA WithoutKeyType ==
  ASSUME NEW S, NEW T, NEW f \in PartialFunctions(S, T), NEW key
  PROVE  WithoutKey(f, key) \in PartialFunctions(S, T)
PROOF
<1>1. DOMAIN f \subseteq S /\ f \in [DOMAIN f -> T]
  BY PartialFunction
<1>2. WithoutKey(f, key) \in [DOMAIN f \ {key} -> T]
  BY <1>1 DEF WithoutKey
<1> QED
  BY <1>1, <1>2 DEF PartialFunctions

\* Keys and values from larger sets.
LEMMA LargerMap ==
  ASSUME NEW S1, NEW T1, NEW S2, NEW T2, S1 \subseteq S2, T1 \subseteq T2,
         NEW f \in PartialFunctions(S1, T1)
  PROVE  f \in PartialFunctions(S2, T2)
PROOF
<1>1. DOMAIN f \subseteq S1 /\ f \in [DOMAIN f -> T1]
  BY PartialFunction
<1>2. DOMAIN f \subseteq S2 /\ f \in [DOMAIN f -> T2]
  BY <1>1
<1> QED
  BY <1>2, PartialFunction

-----------------------------------------------------------------------------
(* Types *)

\* The parts of TypeOK, for the sessions o and the processes p.
ClientTypes(o) ==
  /\ users \subseteq Users
  /\ nameOf \in PartialFunctions(o, users)
  /\ sessionIDs \in [Users -> Seq(o)]
  /\ nonAlgoSessionIDs \in [Users -> Seq(o)]
  /\ algoSessionIDs \in [Users -> PartialFunctions(Algos, o)]

AlgoTypes ==
  /\ spawned \in Seq([user : Users, algo : Algos])
  /\ alive \subseteq Processes
  /\ runningAlgos \in [Users -> PartialFunctions(Algos, Processes)]

ServerTypes(o, p) ==
  /\ client \in Seq(p \cup {Page})
  /\ sessions \subseteq o
  /\ greeted \subseteq o
  /\ stopping \subseteq [session : o, user : Users, algo : Algos,
                         algoSession : o \cup {NoSession},
                         target : p \cup {NoProcess}]

\* They make up TypeOK.
LEMMA TypeParts ==
  TypeOK <=> ClientTypes(Opened) /\ AlgoTypes /\ ServerTypes(Opened, Processes)
PROOF
  BY DEF TypeOK, ClientTypes, AlgoTypes, ServerTypes, Stop

\* More sessions open: what ClientManager holds keeps its type.
LEMMA MoreSessions ==
  ASSUME NEW o1, NEW o2, o1 \subseteq o2, ClientTypes(o1)
  PROVE  ClientTypes(o2)
PROOF
<1>1. nameOf \in PartialFunctions(o2, users)
  BY LargerMap DEF ClientTypes
<1>2. \A u \in Users : /\ sessionIDs[u] \in Seq(o2)
                       /\ nonAlgoSessionIDs[u] \in Seq(o2)
                       /\ algoSessionIDs[u] \in PartialFunctions(Algos, o2)
  <2>1. ASSUME NEW u \in Users
        PROVE  /\ sessionIDs[u] \in Seq(o2)
               /\ nonAlgoSessionIDs[u] \in Seq(o2)
               /\ algoSessionIDs[u] \in PartialFunctions(Algos, o2)
    <3>1. /\ sessionIDs[u] \in Seq(o1) /\ nonAlgoSessionIDs[u] \in Seq(o1)
          /\ algoSessionIDs[u] \in PartialFunctions(Algos, o1)
      BY DEF ClientTypes
    <3>2. sessionIDs[u] \in Seq(o2) /\ nonAlgoSessionIDs[u] \in Seq(o2)
      BY <3>1, LargerSet
    <3>3. algoSessionIDs[u] \in PartialFunctions(Algos, o2)
      BY <3>1, LargerMap
    <3> QED
      BY <3>2, <3>3
  <2> QED
    BY <2>1
<1> QED
  BY <1>1, <1>2 DEF ClientTypes

\* A page registers.
LEMMA PageTypes ==
  ASSUME NEW o, ClientTypes(o), NEW s \in o, NEW u \in Users, RegisterPage(s, u)
  PROVE  ClientTypes(o)'
PROOF
<1>1. /\ users' = users \cup {u}
      /\ nameOf' = Put(nameOf, s, u)
      /\ sessionIDs' = [sessionIDs EXCEPT ![u] = Append(ListOf(u, s), s)]
      /\ nonAlgoSessionIDs' = [nonAlgoSessionIDs EXCEPT ![u] = Append(@, s)]
      /\ algoSessionIDs' = algoSessionIDs
  BY DEF RegisterPage
<1>2. nameOf' \in PartialFunctions(o, users')
  <2>1. nameOf \in PartialFunctions(o, users')
    BY <1>1, LargerMap DEF ClientTypes
  <2> QED
    BY <1>1, <2>1, PutType
<1>3. sessionIDs[u] \in Seq(o) /\ nonAlgoSessionIDs[u] \in Seq(o)
  BY DEF ClientTypes
<1>4. ListOf(u, s) \in Seq(o)
  BY <1>3 DEF ListOf
<1>5. Append(ListOf(u, s), s) \in Seq(o) /\ Append(nonAlgoSessionIDs[u], s) \in Seq(o)
  BY <1>3, <1>4, OneMore
<1> QED
  BY <1>1, <1>2, <1>5 DEF ClientTypes

\* An algo registers.
LEMMA AlgoRegistersTypes ==
  ASSUME NEW o, ClientTypes(o), NEW s \in o, NEW u \in Users, NEW a \in Algos,
         RegisterAlgo(s, u, a)
  PROVE  ClientTypes(o)'
PROOF
<1>1. /\ users' = users \cup {u}
      /\ nameOf' = Put(nameOf, s, u)
      /\ sessionIDs' = [sessionIDs EXCEPT ![u] = Append(ListOf(u, s), s)]
      /\ algoSessionIDs' = [algoSessionIDs EXCEPT ![u] = Put(@, a, s)]
      /\ nonAlgoSessionIDs' = nonAlgoSessionIDs
  BY DEF RegisterAlgo, WithAlgoSession
<1>2. nameOf' \in PartialFunctions(o, users')
  <2>1. nameOf \in PartialFunctions(o, users')
    BY <1>1, LargerMap DEF ClientTypes
  <2> QED
    BY <1>1, <2>1, PutType
<1>3. sessionIDs[u] \in Seq(o) /\ algoSessionIDs[u] \in PartialFunctions(Algos, o)
  BY DEF ClientTypes
<1>4. ListOf(u, s) \in Seq(o)
  BY <1>3 DEF ListOf
<1>5. /\ Append(ListOf(u, s), s) \in Seq(o)
      /\ Put(algoSessionIDs[u], a, s) \in PartialFunctions(Algos, o)
  BY <1>3, <1>4, OneMore, PutType
<1> QED
  BY <1>1, <1>2, <1>5 DEF ClientTypes

\* A session closes.
LEMMA CloseTypes ==
  ASSUME NEW o, ClientTypes(o), NEW s, RemoveSessionID(s)
  PROVE  ClientTypes(o)'
PROOF
<1>1. CASE UNCHANGED clientVars
  BY <1>1 DEF clientVars, ClientTypes
<1>2. CASE s \in DOMAIN nameOf /\ ~UNCHANGED clientVars
  <2> DEFINE u == nameOf[s]
  <2>1. /\ sessionIDs' = [sessionIDs EXCEPT ![u] = RemoveFirst(@, s)]
        /\ nonAlgoSessionIDs' = [nonAlgoSessionIDs EXCEPT ![u] = RemoveFirst(@, s)]
        /\ nameOf' = WithoutKey(nameOf, s)
        /\ users' = users /\ algoSessionIDs' = algoSessionIDs
    BY <1>2 DEF RemoveSessionID, NonAlgoAfterClose
  <2>2. u \in Users
    <3>1. nameOf \in [DOMAIN nameOf -> users] /\ users \subseteq Users
      BY PartialFunction DEF ClientTypes
    <3> QED
      BY <1>2, <3>1
  <2> HIDE DEF u
  <2>3. sessionIDs[u] \in Seq(o) /\ nonAlgoSessionIDs[u] \in Seq(o)
    BY <2>2 DEF ClientTypes
  <2>4. /\ RemoveFirst(sessionIDs[u], s) \in Seq(o)
        /\ RemoveFirst(nonAlgoSessionIDs[u], s) \in Seq(o)
    BY <2>3, RemoveFirstType
  <2>5. nameOf' \in PartialFunctions(o, users)
    BY <2>1, WithoutKeyType DEF ClientTypes
  <2> QED
    BY <2>1, <2>4, <2>5 DEF ClientTypes
<1> QED
  BY <1>1, <1>2 DEF RemoveSessionID

\* A stopped algo is forgotten.
LEMMA ForgetTypes ==
  ASSUME NEW o, ClientTypes(o), NEW u \in Users, NEW s, NEW a, RemoveAlgoFromUser(u, s, a)
  PROVE  ClientTypes(o)'
PROOF
<1>1. CASE UNCHANGED clientVars
  BY <1>1 DEF clientVars, ClientTypes
<1>2. CASE ~UNCHANGED clientVars
  <2>1. /\ nameOf' = WithoutKey(nameOf, s)
        /\ sessionIDs' = [sessionIDs EXCEPT ![u] = RemoveFirst(@, s)]
        /\ users' = users /\ nonAlgoSessionIDs' = nonAlgoSessionIDs
    BY <1>2 DEF RemoveAlgoFromUser
  <2>2. \/ algoSessionIDs' = algoSessionIDs
        \/ algoSessionIDs' = [algoSessionIDs EXCEPT ![u] = WithoutKey(@, a)]
    BY <1>2 DEF RemoveAlgoFromUser
  <2>3. /\ sessionIDs[u] \in Seq(o)
        /\ algoSessionIDs[u] \in PartialFunctions(Algos, o)
    BY DEF ClientTypes
  <2>4. RemoveFirst(sessionIDs[u], s) \in Seq(o)
    BY <2>3, RemoveFirstType
  <2>5. WithoutKey(algoSessionIDs[u], a) \in PartialFunctions(Algos, o)
    BY <2>3, WithoutKeyType
  <2>6. nameOf' \in PartialFunctions(o, users)
    BY <2>1, WithoutKeyType DEF ClientTypes
  <2>7. algoSessionIDs' \in [Users -> PartialFunctions(Algos, o)]
    BY <2>2, <2>5 DEF ClientTypes
  <2> QED
    BY <2>1, <2>4, <2>6, <2>7 DEF ClientTypes
<1> QED
  BY <1>1, <1>2

\* An algo starts.
LEMMA StartTypes ==
  ASSUME AlgoTypes, NEW u \in Users, NEW a \in Algos, AddAlgo(u, a)
  PROVE  /\ AlgoTypes'
         /\ Len(spawned) \in Nat
         /\ Processes' = Processes \cup {Len(spawned) + 1}
         /\ \A p \in Processes : spawned'[p] = spawned[p]
         /\ spawned'[Len(spawned) + 1] = [user |-> u, algo |-> a]
         /\ alive' = alive \cup {Len(spawned) + 1}
         /\ Len(spawned) + 1 \notin Processes
PROOF
<1> DEFINE p == Len(spawned) + 1
<1>1. /\ spawned' = Append(spawned, [user |-> u, algo |-> a])
      /\ alive' = alive \cup {p}
      /\ runningAlgos' = [runningAlgos EXCEPT ![u] =
           [b \in DOMAIN @ \cup {a} |-> IF b = a THEN p ELSE @[b]]]
  BY DEF AddAlgo
<1>2. spawned \in Seq([user : Users, algo : Algos]) /\ Len(spawned) \in Nat
  BY DEF AlgoTypes
<1>3. /\ spawned' \in Seq([user : Users, algo : Algos])
      /\ Len(spawned') = Len(spawned) + 1
      /\ \A q \in Processes : spawned'[q] = spawned[q]
      /\ spawned'[p] = [user |-> u, algo |-> a]
  <2>1. [user |-> u, algo |-> a] \in [user : Users, algo : Algos]
    OBVIOUS
  <2> QED
    BY <1>1, <1>2, <2>1, OneMore DEF Processes
<1>4. Processes' = Processes \cup {p} /\ p \notin Processes
  BY <1>2, <1>3 DEF Processes
<1>5. alive' \subseteq Processes'
  BY <1>1, <1>4 DEF AlgoTypes
<1> HIDE DEF p
<1>6. ASSUME NEW v \in Users
      PROVE  runningAlgos[v] \in PartialFunctions(Algos, Processes')
  <2>1. runningAlgos[v] \in PartialFunctions(Algos, Processes)
    BY DEF AlgoTypes
  <2> QED
    BY <1>4, <2>1, LargerMap
<1>7. Put(runningAlgos[u], a, p) \in PartialFunctions(Algos, Processes')
  BY <1>4, <1>6, PutType
<1>8. runningAlgos' = [runningAlgos EXCEPT ![u] = Put(runningAlgos[u], a, p)]
  BY <1>1 DEF Put
<1>9. runningAlgos' \in [Users -> PartialFunctions(Algos, Processes')]
  BY <1>6, <1>7, <1>8 DEF AlgoTypes
<1> QED
  BY <1>1, <1>2, <1>3, <1>4, <1>5, <1>9 DEF AlgoTypes, p

\* Algos end.
LEMMA EndTypes ==
  ASSUME AlgoTypes, NEW u \in Users, NEW algos, End(u, algos)
  PROVE  AlgoTypes' /\ spawned' = spawned
PROOF
<1>1. /\ alive' = alive \ {runningAlgos[u][a] : a \in algos}
      /\ runningAlgos' = [runningAlgos EXCEPT ![u] =
                            [a \in DOMAIN runningAlgos[u] \ algos |-> runningAlgos[u][a]]]
      /\ spawned' = spawned
  BY DEF End, Destroy, Remaining
<1>2. Processes' = Processes
  BY <1>1 DEF Processes
<1>3. runningAlgos[u] \in PartialFunctions(Algos, Processes)
  BY DEF AlgoTypes
<1>4. /\ DOMAIN runningAlgos[u] \subseteq Algos
      /\ runningAlgos[u] \in [DOMAIN runningAlgos[u] -> Processes]
  BY <1>3, PartialFunction
<1> DEFINE left == [a \in DOMAIN runningAlgos[u] \ algos |-> runningAlgos[u][a]]
<1>5. left \in PartialFunctions(Algos, Processes)
  <2>1. left \in [DOMAIN runningAlgos[u] \ algos -> Processes]
    BY <1>4
  <2> QED
    BY <1>4, <2>1 DEF PartialFunctions
<1> HIDE DEF left
<1>6. runningAlgos' \in [Users -> PartialFunctions(Algos, Processes)]
  BY <1>1, <1>5 DEF AlgoTypes, left
<1> QED
  BY <1>1, <1>2, <1>6 DEF AlgoTypes

\* What removeUser and stopAlgo do of End.
LEMMA EndForms ==
  ASSUME AlgoTypes, NEW u \in Users
  PROVE  /\ \A a : StopAlgo(u, a) => AlgoTypes' /\ spawned' = spawned
         /\ RemoveUser(u) => AlgoTypes' /\ spawned' = spawned
         /\ RemoveUserThrows(u) => AlgoTypes' /\ spawned' = spawned
PROOF
<1>1. ASSUME NEW a, StopAlgo(u, a) PROVE AlgoTypes' /\ spawned' = spawned
  BY <1>1, EndTypes DEF StopAlgo
<1> QED
  BY <1>1, EndTypes DEF RemoveUser, RemoveUserThrows

\* The "stop" handlers there can be.
Stops(o, p) == [session : o, user : Users, algo : Algos,
                algoSession : o \cup {NoSession}, target : p \cup {NoProcess}]

\* A step that opens no session and starts no algo.
LEMMA TypeFrame ==
  ASSUME NEW o, NEW p, o = Opened, p = Processes, TypeOK,
         UNCHANGED <<client, spawned>>,
         ClientTypes(o)', AlgoTypes',
         sessions' \subseteq o, greeted' \subseteq o, stopping' \subseteq Stops(o, p)
  PROVE  TypeOK'
PROOF
<1>1. Opened' = o /\ Processes' = p
  BY DEF Opened, Processes
<1>2. client' \in Seq(Processes' \cup {Page})
  BY <1>1 DEF TypeOK
<1>3. Stop' = Stops(o, p)
  BY <1>1 DEF Stop, Stops
<1> QED
  BY <1>1, <1>2, <1>3 DEF TypeOK, ClientTypes, AlgoTypes

\* What a step leaves alone keeps its type.
LEMMA SameTypes ==
  ASSUME NEW o, NEW p, o = Opened, p = Processes, TypeOK
  PROVE  /\ ClientTypes(o) /\ AlgoTypes
         /\ UNCHANGED clientVars => ClientTypes(o)'
         /\ UNCHANGED algoVars => AlgoTypes' /\ spawned' = spawned
         /\ sessions \subseteq o /\ greeted \subseteq o /\ stopping \subseteq Stops(o, p)
PROOF
<1>1. /\ ClientTypes(o) /\ AlgoTypes
      /\ sessions \subseteq o /\ greeted \subseteq o /\ stopping \subseteq Stops(o, p)
  BY DEF TypeOK, ClientTypes, AlgoTypes, Stop, Stops
<1>2. ASSUME UNCHANGED clientVars PROVE ClientTypes(o)'
  BY <1>1, <1>2 DEF clientVars, ClientTypes
<1>3. ASSUME UNCHANGED algoVars PROVE AlgoTypes' /\ spawned' = spawned
  BY <1>1, <1>3 DEF algoVars, AlgoTypes, Processes
<1> QED
  BY <1>1, <1>2, <1>3

\* Whom a session is registered for, and what is behind it.
LEMMA SessionFacts ==
  ASSUME TypeOK
  PROVE  /\ \A s \in DOMAIN nameOf : nameOf[s] \in Users
         /\ \A s \in Opened : client[s] # Page =>
              /\ client[s] \in Processes
              /\ spawned[client[s]].user \in Users /\ spawned[client[s]].algo \in Algos
         /\ \A u \in Users : \A a :
              /\ AlgoSessionID(u, a) \in Opened \cup {NoSession}
              /\ Target(u, a) \in Processes \cup {NoProcess}
PROOF
<1>1. \A s \in DOMAIN nameOf : nameOf[s] \in Users
  <2>1. nameOf \in [DOMAIN nameOf -> users] /\ users \subseteq Users
    BY PartialFunction DEF TypeOK
  <2> QED
    BY <2>1
<1>2. ASSUME NEW s \in Opened, client[s] # Page
      PROVE  /\ client[s] \in Processes
             /\ spawned[client[s]].user \in Users /\ spawned[client[s]].algo \in Algos
  <2>1. client[s] \in Processes
    BY <1>2 DEF TypeOK, Opened
  <2> DEFINE Started == [user : Users, algo : Algos]
  <2>2. \A q \in Processes : spawned[q] \in Started
    <3>1. spawned \in Seq(Started)
      BY DEF TypeOK
    <3> HIDE DEF Started
    <3> QED
      BY <3>1 DEF Processes
  <2> QED
    BY <2>1, <2>2
<1>3. ASSUME NEW u \in Users, NEW a
      PROVE  /\ AlgoSessionID(u, a) \in Opened \cup {NoSession}
             /\ Target(u, a) \in Processes \cup {NoProcess}
  <2>1. /\ algoSessionIDs[u] \in [DOMAIN algoSessionIDs[u] -> Opened]
        /\ runningAlgos[u] \in [DOMAIN runningAlgos[u] -> Processes]
    <3>1. /\ algoSessionIDs[u] \in PartialFunctions(Algos, Opened)
          /\ runningAlgos[u] \in PartialFunctions(Algos, Processes)
      BY DEF TypeOK
    <3> QED
      BY <3>1, PartialFunction
  <2> QED
    BY <2>1 DEF AlgoSessionID, Target
<1> QED
  BY <1>1, <1>2, <1>3

\* A session opens.
LEMMA OpenTypes ==
  ASSUME TypeOK, NEW c \in {Page} \cup alive, OnOpen(c)
  PROVE  TypeOK'
PROOF
<1> DEFINE s == Len(client) + 1
<1>1. /\ client' = Append(client, c) /\ sessions' = sessions \cup {s}
      /\ UNCHANGED <<clientVars, algoVars, greeted, stopping>>
  BY DEF OnOpen
<1>2. /\ client' \in Seq(Processes \cup {Page}) /\ Len(client') = s
      /\ Len(client) \in Nat
  <2>1. c \in Processes \cup {Page} /\ client \in Seq(Processes \cup {Page})
    BY DEF TypeOK
  <2> QED
    BY <1>1, <2>1, OneMore
<1>3. Opened' = Opened \cup {s}
  BY <1>2 DEF Opened
<1> HIDE DEF s
<1>4. PICK o : o = Opened'
  OBVIOUS
<1>5. ClientTypes(o)
  BY <1>3, <1>4, TypeParts, MoreSessions
<1>6. Processes' = Processes
  BY <1>1 DEF algoVars, Processes
<1>7. ClientTypes(o)' /\ AlgoTypes'
  BY <1>1, <1>5, <1>6, TypeParts DEF clientVars, algoVars, ClientTypes, AlgoTypes
<1>8. stopping' \subseteq Stop'
  BY <1>1, <1>3, <1>6 DEF TypeOK, Stop
<1> QED
  BY <1>1, <1>2, <1>3, <1>4, <1>6, <1>7, <1>8 DEF TypeOK, ClientTypes, AlgoTypes

\* An algo is run.
LEMMA RunTypes ==
  ASSUME TypeOK, NEW s, NEW a \in Algos, RunAlgo(s, a)
  PROVE  TypeOK'
PROOF
<1>1. /\ s \in DOMAIN nameOf /\ AddAlgo(nameOf[s], a)
      /\ UNCHANGED <<clientVars, serverVars>>
  BY DEF RunAlgo, RegisteredPage
<1>2. nameOf[s] \in Users /\ AlgoTypes
  BY <1>1, SessionFacts, TypeParts
<1>3. AlgoTypes' /\ Processes \subseteq Processes'
  BY <1>1, <1>2, StartTypes
<1>4. Opened' = Opened
  BY <1>1 DEF serverVars, Opened
<1>5. client' \in Seq(Processes' \cup {Page})
  <2>1. client \in Seq(Processes \cup {Page}) /\ client' = client
    BY <1>1 DEF TypeOK, serverVars
  <2> QED
    BY <1>3, <2>1, LargerSet
<1>6. stopping' \subseteq Stop'
  BY <1>1, <1>3, <1>4 DEF TypeOK, Stop, serverVars
<1> QED
  BY <1>1, <1>3, <1>4, <1>5, <1>6 DEF TypeOK, AlgoTypes, clientVars, serverVars

\* Every step keeps the types.
LEMMA TypeStep ==
  ASSUME TypeOK, [Next]_vars
  PROVE  TypeOK'
PROOF
<1>1. PICK o : o = Opened
  OBVIOUS
<1>2. PICK p : p = Processes
  OBVIOUS
<1>3. /\ ClientTypes(o) /\ AlgoTypes
      /\ UNCHANGED clientVars => ClientTypes(o)'
      /\ UNCHANGED algoVars => AlgoTypes' /\ spawned' = spawned
      /\ sessions \subseteq o /\ greeted \subseteq o /\ stopping \subseteq Stops(o, p)
  BY <1>1, <1>2, SameTypes
<1>4. \A s \in DOMAIN nameOf : nameOf[s] \in Users
  BY SessionFacts
<1>5. ASSUME NEW s \in sessions, NEW u \in Users, NewUser(s, u) PROVE TypeOK'
  <2>1. /\ RemoveUser(u) /\ RegisterPage(s, u)
        /\ greeted' = greeted \cup {s} /\ UNCHANGED <<client, sessions, stopping>>
    BY <1>5 DEF NewUser, Greet
  <2>2. s \in o
    BY <1>3
  <2>3. ClientTypes(o)'
    BY <1>3, <2>1, <2>2, PageTypes
  <2>4. AlgoTypes' /\ spawned' = spawned
    BY <1>3, <2>1, EndForms
  <2> QED
    BY <1>1, <1>2, <1>3, <2>1, <2>2, <2>3, <2>4, TypeFrame
<1>6. ASSUME NEW s \in sessions, NEW u \in Users, NewUserThrows(s, u) PROVE TypeOK'
  <2>1. /\ RemoveUserThrows(u) /\ UNCHANGED clientVars
        /\ greeted' = greeted \cup {s} /\ UNCHANGED <<client, sessions, stopping>>
    BY <1>6 DEF NewUserThrows, Greet
  <2>2. AlgoTypes' /\ spawned' = spawned
    BY <1>3, <2>1, EndForms
  <2> QED
    BY <1>1, <1>2, <1>3, <2>1, <2>2, TypeFrame
<1>7. ASSUME NEW s \in sessions, NewAlgo(s) PROVE TypeOK'
  <2>1. /\ client[s] # Page /\ UNCHANGED algoVars
        /\ RegisterAlgo(s, spawned[client[s]].user, spawned[client[s]].algo)
        /\ greeted' = greeted \cup {s} /\ UNCHANGED <<client, sessions, stopping>>
    BY <1>7 DEF NewAlgo, Greet
  <2>2. s \in o
    BY <1>3
  <2>3. spawned[client[s]].user \in Users /\ spawned[client[s]].algo \in Algos
    BY <1>1, <2>1, <2>2, SessionFacts
  <2>4. ClientTypes(o)'
    BY <1>3, <2>1, <2>2, <2>3, AlgoRegistersTypes
  <2> QED
    BY <1>1, <1>2, <1>3, <2>1, <2>2, <2>4, TypeFrame
<1>8. ASSUME NEW s \in sessions, NEW a \in Algos, BeginStop(s, a) PROVE TypeOK'
  <2> DEFINE u == nameOf[s]
             h == [session |-> s, user |-> u, algo |-> a,
                   algoSession |-> AlgoSessionID(u, a), target |-> Target(u, a)]
  <2>1. /\ s \in DOMAIN nameOf /\ stopping' = stopping \cup {h}
        /\ UNCHANGED <<clientVars, algoVars, client, sessions, greeted>>
    BY <1>8 DEF BeginStop, RegisteredPage
  <2>2. u \in Users /\ s \in o
    BY <1>3, <1>4, <2>1
  <2> HIDE DEF u
  <2>3. /\ AlgoSessionID(u, a) \in o \cup {NoSession}
        /\ Target(u, a) \in p \cup {NoProcess}
    BY <1>1, <1>2, <2>2, SessionFacts
  <2>4. h \in Stops(o, p)
    BY <2>2, <2>3 DEF Stops
  <2> HIDE DEF h
  <2> QED
    BY <1>1, <1>2, <1>3, <2>1, <2>4, TypeFrame
<1>9. ASSUME NEW h \in stopping, EndStop(h) PROVE TypeOK'
  <2>1. /\ RemoveAlgoFromUser(h.user, h.algoSession, h.algo)
        /\ StopAlgo(h.user, h.algo)
        /\ stopping' = stopping \ {h} /\ UNCHANGED <<client, sessions, greeted>>
    BY <1>9 DEF EndStop
  <2>2. h.user \in Users
    BY <1>3 DEF Stops
  <2>3. ClientTypes(o)'
    BY <1>3, <2>1, <2>2, ForgetTypes
  <2>4. AlgoTypes' /\ spawned' = spawned
    BY <1>3, <2>1, <2>2, EndForms
  <2> QED
    BY <1>1, <1>2, <1>3, <2>1, <2>3, <2>4, TypeFrame
<1>10. ASSUME NEW h \in stopping, EndStopThrows(h) PROVE TypeOK'
  <2>1. /\ stopping' = stopping \ {h}
        /\ UNCHANGED <<clientVars, algoVars, client, sessions, greeted>>
    BY <1>10 DEF EndStopThrows
  <2> QED
    BY <1>1, <1>2, <1>3, <2>1, TypeFrame
<1>11. ASSUME NEW s \in sessions, NEW a \in Algos, RemoveAlgo(s, a) PROVE TypeOK'
  <2>1. /\ s \in DOMAIN nameOf /\ StopAlgo(nameOf[s], a)
        /\ UNCHANGED <<clientVars, client, sessions, greeted, stopping>>
    BY <1>11 DEF RemoveAlgo, RegisteredPage, serverVars
  <2>2. AlgoTypes' /\ spawned' = spawned
    BY <1>3, <1>4, <2>1, EndForms
  <2> QED
    BY <1>1, <1>2, <1>3, <2>1, <2>2, TypeFrame
<1>12. ASSUME NEW s \in sessions, Closed(s), AlgoTypes', spawned' = spawned PROVE TypeOK'
  <2>1. /\ RemoveSessionID(s) /\ sessions' = sessions \ {s}
        /\ UNCHANGED <<client, greeted, stopping>>
    BY <1>12 DEF Closed
  <2>2. ClientTypes(o)'
    BY <1>3, <2>1, CloseTypes
  <2> QED
    BY <1>1, <1>2, <1>3, <1>12, <2>1, <2>2, TypeFrame
<1>13. ASSUME NEW s \in sessions, OnClose(s) PROVE TypeOK'
  BY <1>3, <1>12, <1>13 DEF OnClose
<1>14. ASSUME NEW s \in sessions, BootUser(s) PROVE TypeOK'
  <2>1. AlgoTypes' /\ spawned' = spawned
    <3>1. CASE s \in DOMAIN nameOf
      BY <1>3, <1>4, <1>14, <3>1, EndForms DEF BootUser
    <3>2. CASE s \notin DOMAIN nameOf
      BY <1>3, <1>14, <3>2 DEF BootUser
    <3> QED
      BY <3>1, <3>2
  <2> QED
    BY <1>12, <1>14, <2>1 DEF BootUser
<1>15. ASSUME NEW s \in sessions, BootUserThrows(s) PROVE TypeOK'
  <2>1. /\ s \in DOMAIN nameOf /\ RemoveUserThrows(nameOf[s])
        /\ UNCHANGED <<clientVars, client, sessions, greeted, stopping>>
    BY <1>15 DEF BootUserThrows, serverVars
  <2>2. AlgoTypes' /\ spawned' = spawned
    BY <1>3, <1>4, <2>1, EndForms
  <2> QED
    BY <1>1, <1>2, <1>3, <2>1, <2>2, TypeFrame
<1>16. ASSUME NEW q \in alive, ProcessExits(q) PROVE TypeOK'
  <2>1. /\ alive' = alive \ {q} /\ UNCHANGED <<spawned, runningAlgos>>
        /\ UNCHANGED <<clientVars, client, sessions, greeted, stopping>>
    BY <1>16 DEF ProcessExits, Exit, serverVars
  <2>2. AlgoTypes' /\ spawned' = spawned
    BY <1>3, <2>1 DEF AlgoTypes, Processes
  <2> QED
    BY <1>1, <1>2, <1>3, <2>1, <2>2, TypeFrame
<1>17. CASE UNCHANGED vars
  <2>1. UNCHANGED <<clientVars, algoVars, client, sessions, greeted, stopping>>
    BY <1>17 DEF vars, serverVars
  <2> QED
    BY <1>1, <1>2, <1>3, <2>1, TypeFrame
<1> QED
  BY <1>5, <1>6, <1>7, <1>8, <1>9, <1>10, <1>11, <1>13, <1>14, <1>15, <1>16, <1>17,
     OpenTypes, RunTypes DEF Next

\* The initial state has the types.
LEMMA InitType ==
  ASSUME Init
  PROVE  TypeOK
PROOF
<1>1. /\ users = {} /\ nameOf = << >> /\ sessionIDs = [u \in Users |-> << >>]
      /\ nonAlgoSessionIDs = [u \in Users |-> << >>]
      /\ algoSessionIDs = [u \in Users |-> << >>]
      /\ spawned = << >> /\ alive = {} /\ runningAlgos = [u \in Users |-> << >>]
      /\ client = << >> /\ sessions = {} /\ greeted = {} /\ stopping = {}
  BY DEF Init, InitClients, InitAlgos
<1>2. \A S, T : << >> \in PartialFunctions(S, T)
  <2>1. ASSUME NEW S, NEW T PROVE << >> \in PartialFunctions(S, T)
    <3>1. << >> \in [{} -> T] /\ {} \in SUBSET S
      OBVIOUS
    <3> QED
      BY <3>1 DEF PartialFunctions
  <2> QED
    BY <2>1
<1> QED
  BY <1>1, <1>2 DEF TypeOK

\* Every variable keeps its type: the type invariant holds throughout.
THEOREM TypeCorrect == Spec => []TypeOK
PROOF
<1>1. Init => TypeOK
  BY InitType
<1>2. TypeOK /\ [Next]_vars => TypeOK'
  BY TypeStep
<1> QED
  BY <1>1, <1>2, PTL DEF Spec

-----------------------------------------------------------------------------
(* No process is lost *)

\* Stop, remove, a reconnect and a boot find process p under its ID.
Found(p) == Target(spawned[p].user, spawned[p].algo) = p

\* The algos a step ends are the ones whose entries it drops.
LEMMA EndLosesNone ==
  ASSUME TypeOK, LostOnlyIfReplaced, NEW u \in Users, NEW algos, End(u, algos)
  PROVE  LostOnlyIfReplaced'
PROOF
<1>1. /\ alive' = alive \ {runningAlgos[u][a] : a \in algos}
      /\ runningAlgos' = [runningAlgos EXCEPT ![u] =
                            [a \in DOMAIN runningAlgos[u] \ algos |-> runningAlgos[u][a]]]
      /\ spawned' = spawned /\ Processes' = Processes
  BY DEF End, Destroy, Remaining, Processes
<1>2. \A v \in Users : runningAlgos'[v] =
        IF v = u THEN [a \in DOMAIN runningAlgos[u] \ algos |-> runningAlgos[u][a]]
        ELSE runningAlgos[v]
  BY <1>1 DEF TypeOK
<1>3. ASSUME NEW p \in alive', ~Replaced(p)
      PROVE  Found(p)'
  <2> DEFINE v == spawned[p].user
             b == spawned[p].algo
  <2>1. p \in alive /\ p \in Processes /\ p # NoProcess
    BY <1>1 DEF TypeOK, Processes, NoProcess
  <2>2. v \in Users
    <3> DEFINE Started == [user : Users, algo : Algos]
    <3>1. spawned \in Seq(Started)
      BY DEF TypeOK
    <3> HIDE DEF Started
    <3>2. spawned[p] \in Started
      BY <2>1, <3>1 DEF Processes
    <3> QED
      BY <3>2 DEF Started
  <2>3. Target(v, b) = p
    BY <1>3, <2>1 DEF LostOnlyIfReplaced
  <2> HIDE DEF v, b
  <2>4. b \in DOMAIN runningAlgos[v] /\ runningAlgos[v][b] = p
    BY <2>1, <2>3 DEF Target
  <2>5. b \in DOMAIN runningAlgos'[v] /\ runningAlgos'[v][b] = p
    <3>1. CASE v # u
      BY <1>2, <2>2, <2>4, <3>1
    <3>2. CASE v = u
      <4>1. b \notin algos
        BY <1>1, <2>4, <3>2
      <4> QED
        BY <1>2, <2>2, <2>4, <3>2, <4>1
    <3> QED
      BY <3>1, <3>2
  <2> QED
    BY <1>1, <2>5 DEF Found, Target, v, b
<1>4. \A p \in alive' : Replaced(p) => Replaced(p)'
  BY <1>1 DEF Replaced
<1> QED
  BY <1>3, <1>4 DEF LostOnlyIfReplaced, Found

\* What removeUser and stopAlgo do of End.
LEMMA EndFormsLoseNone ==
  ASSUME TypeOK, LostOnlyIfReplaced, NEW u \in Users
  PROVE  /\ \A a : StopAlgo(u, a) => LostOnlyIfReplaced'
         /\ RemoveUser(u) => LostOnlyIfReplaced'
         /\ RemoveUserThrows(u) => LostOnlyIfReplaced'
PROOF
<1>1. ASSUME NEW a, StopAlgo(u, a) PROVE LostOnlyIfReplaced'
  BY <1>1, EndLosesNone DEF StopAlgo
<1> QED
  BY <1>1, EndLosesNone DEF RemoveUser, RemoveUserThrows

\* "run" loses only the process it replaces.
LEMMA RunLosesOne ==
  ASSUME TypeOK, LostOnlyIfReplaced, NEW u \in Users, NEW a \in Algos, AddAlgo(u, a)
  PROVE  LostOnlyIfReplaced'
PROOF
<1>0. PICK n : n = Len(spawned) + 1
  OBVIOUS
<1>1. AlgoTypes
  BY TypeParts
<1>2. /\ Len(spawned) \in Nat
      /\ Processes' = Processes \cup {n}
      /\ \A p \in Processes : spawned'[p] = spawned[p]
      /\ spawned'[n] = [user |-> u, algo |-> a]
      /\ alive' = alive \cup {n}
  BY <1>0, <1>1, StartTypes
<1>3. runningAlgos' = [runningAlgos EXCEPT ![u] = Put(runningAlgos[u], a, n)]
  BY <1>0 DEF AddAlgo, Put
<1>4. \A p \in Processes : p < n /\ p # NoProcess
  BY <1>0, <1>2 DEF Processes, NoProcess
<1>5. \A v \in Users : runningAlgos'[v] =
        IF v = u THEN Put(runningAlgos[u], a, n) ELSE runningAlgos[v]
  BY <1>3 DEF TypeOK
<1>6. Found(n)'
  <2>1. a \in DOMAIN runningAlgos'[u] /\ runningAlgos'[u][a] = n
    BY <1>5 DEF Put
  <2> QED
    BY <1>2, <2>1 DEF Found, Target
<1>7. ASSUME NEW p \in alive
      PROVE  Replaced(p)' \/ Found(p)'
  <2>1. p \in Processes
    BY DEF TypeOK
  <2>2. CASE Replaced(p)
    <3>1. PICK q \in Processes : q > p /\ spawned[q] = spawned[p]
      BY <2>2 DEF Replaced
    <3> QED
      BY <1>2, <2>1, <3>1 DEF Replaced
  <2>3. CASE spawned[p] = [user |-> u, algo |-> a]
    <3>1. n \in Processes' /\ n > p /\ spawned'[n] = spawned'[p]
      BY <1>2, <1>4, <2>1, <2>3
    <3> QED
      BY <3>1 DEF Replaced
  <2>4. CASE ~Replaced(p) /\ spawned[p] # [user |-> u, algo |-> a]
    <3> DEFINE v == spawned[p].user
               b == spawned[p].algo
    <3>1. v \in Users /\ (v # u \/ b # a)
      <4> DEFINE Started == [user : Users, algo : Algos]
      <4>1. spawned \in Seq(Started)
        BY DEF TypeOK
      <4> HIDE DEF Started
      <4>2. spawned[p] \in Started
        BY <2>1, <4>1 DEF Processes
      <4> QED
        BY <2>4, <4>2 DEF Started
    <3>2. Target(v, b) = p
      BY <2>4 DEF LostOnlyIfReplaced
    <3> HIDE DEF v, b
    <3>3. b \in DOMAIN runningAlgos[v] /\ runningAlgos[v][b] = p
      BY <1>4, <2>1, <3>2 DEF Target
    <3>4. b \in DOMAIN runningAlgos'[v] /\ runningAlgos'[v][b] = p
      BY <1>5, <3>1, <3>3 DEF Put
    <3> QED
      BY <1>2, <2>1, <3>4 DEF Found, Target, v, b
  <2> QED
    BY <2>2, <2>3, <2>4
<1> QED
  BY <1>2, <1>6, <1>7 DEF LostOnlyIfReplaced, Found

\* Every step keeps LostOnlyIfReplaced.
LEMMA LosesNone ==
  ASSUME TypeOK, LostOnlyIfReplaced, [Next]_vars
  PROVE  LostOnlyIfReplaced'
PROOF
<1>1. \A s \in DOMAIN nameOf : nameOf[s] \in Users
  BY SessionFacts
<1>2. ASSUME UNCHANGED algoVars PROVE LostOnlyIfReplaced'
  BY <1>2 DEF algoVars, LostOnlyIfReplaced, Replaced, Target, Processes
<1>3. ASSUME NEW s \in sessions, NEW u \in Users, NewUser(s, u) \/ NewUserThrows(s, u)
      PROVE  LostOnlyIfReplaced'
  BY <1>3, EndFormsLoseNone DEF NewUser, NewUserThrows
<1>4. ASSUME NEW s \in sessions, NEW a \in Algos, RunAlgo(s, a)
      PROVE  LostOnlyIfReplaced'
  BY <1>1, <1>4, RunLosesOne DEF RunAlgo, RegisteredPage
<1>5. ASSUME NEW s \in sessions, NEW a \in Algos, RemoveAlgo(s, a)
      PROVE  LostOnlyIfReplaced'
  BY <1>1, <1>5, EndFormsLoseNone DEF RemoveAlgo, RegisteredPage
<1>6. ASSUME NEW h \in stopping, EndStop(h) PROVE LostOnlyIfReplaced'
  <2>1. h.user \in Users
    BY DEF TypeOK, Stop
  <2> QED
    BY <1>6, <2>1, EndFormsLoseNone DEF EndStop
<1>7. ASSUME NEW s \in sessions, BootUser(s) PROVE LostOnlyIfReplaced'
  <2>1. CASE s \in DOMAIN nameOf
    BY <1>1, <1>7, <2>1, EndFormsLoseNone DEF BootUser
  <2>2. CASE s \notin DOMAIN nameOf
    BY <1>2, <1>7, <2>2 DEF BootUser
  <2> QED
    BY <2>1, <2>2
<1>8. ASSUME NEW s \in sessions, BootUserThrows(s) PROVE LostOnlyIfReplaced'
  BY <1>1, <1>8, EndFormsLoseNone DEF BootUserThrows
<1>9. ASSUME NEW q \in alive, ProcessExits(q) PROVE LostOnlyIfReplaced'
  BY <1>9 DEF ProcessExits, Exit, LostOnlyIfReplaced, Replaced, Target, Processes
<1>10. ASSUME NEW c, OnOpen(c) PROVE LostOnlyIfReplaced'
  BY <1>2, <1>10 DEF OnOpen
<1>11. ASSUME NEW s \in sessions,
              NewAlgo(s) \/ OnClose(s) \/ \E a \in Algos : BeginStop(s, a)
       PROVE  LostOnlyIfReplaced'
  BY <1>2, <1>11 DEF NewAlgo, OnClose, BeginStop
<1>12. ASSUME NEW h \in stopping, EndStopThrows(h) PROVE LostOnlyIfReplaced'
  BY <1>2, <1>12 DEF EndStopThrows
<1>13. CASE UNCHANGED vars
  BY <1>2, <1>13 DEF vars
<1> QED
  BY <1>3, <1>4, <1>5, <1>6, <1>7, <1>8, <1>9, <1>10, <1>11, <1>12, <1>13 DEF Next

\* A process that nobody can stop any more was replaced under its ID by
\* "run": stop, remove, a reconnect, a boot, even when they throw, and a
\* process that exits lose none.
THEOREM OnlyRunLoses == Spec => []LostOnlyIfReplaced
PROOF
<1>1. Init => LostOnlyIfReplaced
  BY DEF Init, InitAlgos, LostOnlyIfReplaced
<1>2. TypeOK /\ LostOnlyIfReplaced /\ [Next]_vars => LostOnlyIfReplaced'
  BY LosesNone
<1> QED
  BY <1>1, <1>2, TypeCorrect, PTL DEF Spec
-----------------------------------------------------------------------------
(* Who gets a message *)

\* Element e is in the list once, or not at all.
Once(list, e) ==
  \A i, j \in 1..Len(list) : list[i] = e /\ list[j] = e => i = j

\* Only the first element may be there again, and then it is the second.
TwiceFirst(list) ==
  \A i, j \in 1..Len(list) : i < j /\ list[i] = list[j] => i = 1 /\ j = 2

\* What is sent to user u reaches the sessions it is meant for; a session that
\* is listed has sent new_user or new_algo and will not do it again.
WellListed(u) ==
  /\ ToSet(sessionIDs[u]) \subseteq greeted
  /\ TwiceFirst(sessionIDs[u])
  /\ \A s \in Opened : client[s] # Page => Once(sessionIDs[u], s)
  /\ Receivers(u) = {s \in DOMAIN nameOf : nameOf[s] = u}
  /\ IsInjective(nonAlgoSessionIDs[u])
  /\ ToSet(nonAlgoSessionIDs[u]) =
       {s \in DOMAIN nameOf : nameOf[s] = u /\ client[s] = Page}

\* A session that was entered as an algo of the user: it is not a page, and
\* whom it is registered for will not change.
IsAlgoOf(s, u) ==
  /\ s \in greeted
  /\ client[s] # Page
  /\ s \in DOMAIN nameOf => nameOf[s] = u

RegisteredAreOpen == DOMAIN nameOf \subseteq sessions \cap greeted

\* Algos are started by pages of users that ClientManager knows.
StartedForKnown == \A p \in Processes : spawned[p].user \in users

AlgoSessionsAreAlgos ==
  /\ \A u \in Users : \A a \in DOMAIN algoSessionIDs[u] : IsAlgoOf(algoSessionIDs[u][a], u)
  /\ \A h \in stopping : h.algoSession # NoSession => IsAlgoOf(h.algoSession, h.user)

RegInv ==
  /\ TypeOK
  /\ RegisteredAreOpen
  /\ StartedForKnown
  /\ AlgoSessionsAreAlgos
  /\ \A u \in Users : WellListed(u)

\* A session that is new to a list is appended.
LEMMA NewInList ==
  ASSUME NEW S, NEW list \in Seq(S), NEW e \in S, e \notin ToSet(list)
  PROVE  /\ ToSet(Append(list, e)) = ToSet(list) \cup {e}
         /\ TwiceFirst(list) => TwiceFirst(Append(list, e))
         /\ \A x : Once(list, x) => Once(Append(list, e), x)
         /\ IsInjective(list) => IsInjective(Append(list, e))
PROOF
<1> DEFINE n == Len(list)
           more == Append(list, e)
<1>1. /\ n \in Nat /\ DOMAIN list = 1..n
      /\ Len(more) = n + 1 /\ DOMAIN more = 1..(n + 1)
      /\ \A i \in 1..n : more[i] = list[i]
      /\ more[n + 1] = e
      /\ \A i \in 1..(n + 1) : i \in 1..n \/ i = n + 1
  BY OneMore
<1>2. \A i \in 1..n : list[i] # e
  BY <1>1 DEF ToSet
<1>3. ToSet(list) = {list[i] : i \in 1..n}
  BY <1>1 DEF ToSet
<1>4. ToSet(more) = {more[i] : i \in 1..(n + 1)}
  BY <1>1 DEF ToSet
<1> HIDE DEF more
<1>5. ToSet(more) = ToSet(list) \cup {e}
  <2>1. ASSUME NEW x \in ToSet(more) PROVE x \in ToSet(list) \cup {e}
    BY <1>1, <1>3, <1>4, <2>1
  <2>2. ASSUME NEW x \in ToSet(list) \cup {e} PROVE x \in ToSet(more)
    <3>1. n + 1 \in 1..(n + 1) /\ 1..n \subseteq 1..(n + 1)
      BY <1>1
    <3> QED
      BY <1>1, <1>3, <1>4, <2>2, <3>1
  <2> QED
    BY <2>1, <2>2
<1>6. TwiceFirst(list) => TwiceFirst(more)
  BY <1>1, <1>2 DEF TwiceFirst
<1>7. ASSUME NEW x, Once(list, x) PROVE Once(more, x)
  BY <1>1, <1>2, <1>7 DEF Once
<1>8. IsInjective(list) => IsInjective(more)
  BY <1>1, <1>2 DEF IsInjective
<1> QED
  BY <1>5, <1>6, <1>7, <1>8 DEF more

\* What RemoveFirst makes of a list of sessions.
LEMMA OutOfList ==
  ASSUME NEW S, NEW list \in Seq(S), NEW e
  PROVE  /\ ToSet(RemoveFirst(list, e)) \subseteq ToSet(list)
         /\ ToSet(list) \ {e} \subseteq ToSet(RemoveFirst(list, e))
         /\ Once(list, e) => e \notin ToSet(RemoveFirst(list, e))
         /\ TwiceFirst(list) => TwiceFirst(RemoveFirst(list, e))
         /\ \A x : Once(list, x) => Once(RemoveFirst(list, e), x)
         /\ IsInjective(list) =>
              /\ IsInjective(RemoveFirst(list, e))
              /\ e \notin ToSet(RemoveFirst(list, e))
PROOF
<1> DEFINE n == Len(list)
           less == RemoveFirst(list, e)
<1>0. n \in Nat /\ DOMAIN list = 1..n /\ ToSet(list) = {list[i] : i \in 1..n}
  BY DEF ToSet
<1>1. CASE e \notin ToSet(list) /\ less = list
  BY <1>1
<1>2. ASSUME NEW k \in 1..n, list[k] = e, Len(less) = n - 1, DOMAIN less = 1..(n - 1),
             \A j \in 1..(n - 1) : less[j] = IF j < k THEN list[j] ELSE list[j + 1]
      PROVE  /\ ToSet(less) \subseteq ToSet(list)
             /\ ToSet(list) \ {e} \subseteq ToSet(less)
             /\ Once(list, e) => e \notin ToSet(less)
             /\ TwiceFirst(list) => TwiceFirst(less)
             /\ \A x : Once(list, x) => Once(less, x)
             /\ IsInjective(list) => IsInjective(less) /\ e \notin ToSet(less)
  <2> HIDE DEF less
  <2> DEFINE at(j) == IF j < k THEN j ELSE j + 1
  <2>1. \A j \in 1..(n - 1) : at(j) \in 1..n /\ at(j) # k /\ less[j] = list[at(j)]
    BY <1>0, <1>2
  <2>2. \A i, j \in 1..(n - 1) :
          /\ i < j => at(i) < at(j)
          /\ at(i) = at(j) => i = j
          /\ at(i) = 1 /\ at(j) = 2 /\ i < j => i = 1 /\ j = 2
    BY <1>0
  <2>3. ASSUME NEW i \in 1..n, i # k
        PROVE  \E j \in 1..(n - 1) : at(j) = i
    <3>1. CASE i < k
      BY <1>0, <3>1
    <3>2. CASE i > k
      <4>1. i - 1 \in 1..(n - 1) /\ at(i - 1) = i
        BY <1>0, <3>2
      <4> QED
        BY <4>1
    <3> QED
      BY <1>0, <2>3, <3>1, <3>2
  <2> HIDE DEF at
  <2>4. ToSet(less) = {less[j] : j \in 1..(n - 1)}
    BY <1>2 DEF ToSet
  <2>5. ToSet(less) \subseteq ToSet(list)
    BY <1>0, <2>1, <2>4
  <2>6. ASSUME NEW x \in ToSet(list) \ {e} PROVE x \in ToSet(less)
    <3>1. PICK i \in 1..n : list[i] = x
      BY <1>0, <2>6
    <3>2. i # k
      BY <1>2, <2>6, <3>1
    <3>3. PICK j \in 1..(n - 1) : at(j) = i
      BY <2>3, <3>2
    <3>4. less[j] = x
      BY <2>1, <3>1, <3>3
    <3> QED
      BY <2>4, <3>4
  <2>7. Once(list, e) => e \notin ToSet(less)
    BY <1>2, <2>1, <2>4 DEF Once
  <2>8. TwiceFirst(list) => TwiceFirst(less)
    <3> SUFFICES ASSUME TwiceFirst(list), NEW i \in 1..(n - 1), NEW j \in 1..(n - 1),
                        i < j, less[i] = less[j]
                 PROVE  i = 1 /\ j = 2
      BY <1>2 DEF TwiceFirst
    <3>1. /\ at(i) \in 1..n /\ at(j) \in 1..n /\ at(i) < at(j)
          /\ list[at(i)] = list[at(j)]
      BY <2>1, <2>2
    <3>2. at(i) = 1 /\ at(j) = 2
      BY <3>1 DEF TwiceFirst
    <3> QED
      BY <2>2, <3>2
  <2>9. ASSUME NEW x, Once(list, x) PROVE Once(less, x)
    BY <1>2, <2>1, <2>2, <2>9 DEF Once
  <2>10. IsInjective(list) => IsInjective(less) /\ e \notin ToSet(less)
    <3>1. IsInjective(list) => Once(list, e)
      BY <1>0 DEF IsInjective, Once
    <3>2. IsInjective(list) => IsInjective(less)
      BY <1>0, <1>2, <2>1, <2>2 DEF IsInjective
    <3> QED
      BY <2>7, <3>1, <3>2
  <2> QED
    BY <2>5, <2>6, <2>7, <2>8, <2>9, <2>10
<1> QED
  BY <1>1, <1>2, RemovedOne

\* A user that comes is listed twice.
LEMMA FirstInList ==
  ASSUME NEW s
  PROVE  /\ ToSet(Append(<<s>>, s)) = {s}
         /\ TwiceFirst(Append(<<s>>, s))
         /\ \A x : x # s => Once(Append(<<s>>, s), x)
PROOF
<1> DEFINE list == Append(<<s>>, s)
<1>1. <<s>> \in Seq({s}) /\ Len(<<s>>) = 1 /\ <<s>>[1] = s /\ s \in {s}
  OBVIOUS
<1>2. /\ list \in Seq({s}) /\ Len(list) = 2 /\ list[1] = s /\ list[2] = s
  BY <1>1, OneMore
<1>3. DOMAIN list = 1..2
  BY <1>2
<1> HIDE DEF list
<1>4. ToSet(list) = {s}
  BY <1>2, <1>3 DEF ToSet
<1>5. TwiceFirst(list)
  BY <1>2 DEF TwiceFirst
<1>6. \A x : x # s => Once(list, x)
  BY <1>2 DEF Once
<1> QED
  BY <1>4, <1>5, <1>6 DEF list

\* The facts about sessions that the proofs below need.
LEMMA RegFacts ==
  ASSUME RegInv
  PROVE  /\ users \subseteq Users
         /\ \A s \in DOMAIN nameOf : /\ nameOf[s] \in users /\ nameOf[s] \in Users
                                     /\ s \in sessions /\ s \in greeted /\ s \in Opened
         /\ sessions \subseteq Opened
         /\ greeted \subseteq Opened
         /\ \A u \in Users : /\ sessionIDs[u] \in Seq(Opened)
                             /\ nonAlgoSessionIDs[u] \in Seq(Opened)
                             /\ algoSessionIDs[u] \in PartialFunctions(Algos, Opened)
         /\ \A s \in Opened \ greeted : \A u \in Users :
              /\ s \notin ToSet(sessionIDs[u])
              /\ s \notin ToSet(nonAlgoSessionIDs[u])
              /\ s \notin DOMAIN nameOf
PROOF
<1>1. TypeOK
  BY DEF RegInv
<1>2. nameOf \in [DOMAIN nameOf -> users] /\ users \subseteq Users
  BY <1>1, PartialFunction DEF TypeOK
<1>3. DOMAIN nameOf \subseteq sessions \cap greeted
  BY DEF RegInv, RegisteredAreOpen
<1>4. sessions \subseteq Opened /\ greeted \subseteq Opened
  BY <1>1 DEF TypeOK
<1>5. \A u \in Users : /\ sessionIDs[u] \in Seq(Opened)
                       /\ nonAlgoSessionIDs[u] \in Seq(Opened)
                       /\ algoSessionIDs[u] \in PartialFunctions(Algos, Opened)
  BY <1>1 DEF TypeOK
<1>6. ASSUME NEW s \in Opened \ greeted, NEW u \in Users
      PROVE  /\ s \notin ToSet(sessionIDs[u])
             /\ s \notin ToSet(nonAlgoSessionIDs[u])
             /\ s \notin DOMAIN nameOf
  BY <1>3, <1>6 DEF RegInv, WellListed
<1> QED
  BY <1>2, <1>3, <1>4, <1>5, <1>6

\* Sessions that greet, handlers that go to sleep or wake up, sessions that open.
LEMMA RegFrame ==
  ASSUME RegInv, TypeOK', UNCHANGED clientVars,
         UNCHANGED spawned \/ StartedForKnown',
         Opened \subseteq Opened', \A s \in Opened : client'[s] = client[s],
         \A s \in Opened' \ Opened : s \in sessions',
         sessions' \cap Opened = sessions,
         greeted \subseteq greeted',
         \A h \in stopping' \ stopping :
           h.algoSession # NoSession => IsAlgoOf(h.algoSession, h.user)
  PROVE  RegInv'
PROOF
<1>1. /\ users' = users /\ nameOf' = nameOf /\ sessionIDs' = sessionIDs
      /\ nonAlgoSessionIDs' = nonAlgoSessionIDs /\ algoSessionIDs' = algoSessionIDs
  BY DEF clientVars
<1>2. /\ \A s \in DOMAIN nameOf : s \in sessions /\ s \in greeted /\ s \in Opened
      /\ greeted \subseteq Opened
  BY RegFacts
<1>3. RegisteredAreOpen'
  BY <1>1, <1>2 DEF RegisteredAreOpen
<1>4. StartedForKnown'
  BY <1>1 DEF RegInv, StartedForKnown, Processes
<1>5. ASSUME NEW s, NEW u, IsAlgoOf(s, u) PROVE IsAlgoOf(s, u)'
  BY <1>1, <1>2, <1>5 DEF IsAlgoOf
<1>6. AlgoSessionsAreAlgos'
  <2>1. ASSUME NEW u \in Users, NEW a \in DOMAIN algoSessionIDs'[u]
        PROVE  IsAlgoOf(algoSessionIDs[u][a], u)'
    <3>1. IsAlgoOf(algoSessionIDs[u][a], u)
      BY <1>1, <2>1 DEF RegInv, AlgoSessionsAreAlgos
    <3>2. PICK s : s = algoSessionIDs[u][a]
      OBVIOUS
    <3>3. IsAlgoOf(s, u)'
      BY <1>5, <3>1, <3>2
    <3> QED
      BY <1>1, <3>2, <3>3
  <2>2. ASSUME NEW h \in stopping', h.algoSession # NoSession
        PROVE  IsAlgoOf(h.algoSession, h.user)'
    <3>1. IsAlgoOf(h.algoSession, h.user)
      BY <2>2 DEF RegInv, AlgoSessionsAreAlgos
    <3> QED
      BY <1>5, <3>1
  <2> QED
    BY <2>1, <2>2 DEF AlgoSessionsAreAlgos
<1>7. ASSUME NEW u \in Users PROVE WellListed(u)'
  <2>1. WellListed(u)
    BY <1>7 DEF RegInv
  <2>2. ToSet(sessionIDs[u]) \subseteq greeted /\ ToSet(sessionIDs[u]) \subseteq Opened
    BY <1>2, <2>1 DEF WellListed
  <2>3. ASSUME NEW s \in Opened', client'[s] # Page PROVE Once(sessionIDs[u], s)
    <3>1. CASE s \in Opened
      BY <2>1, <2>3, <3>1 DEF WellListed
    <3>2. CASE s \notin Opened
      <4>1. s \notin ToSet(sessionIDs[u])
        BY <2>2, <3>2
      <4>2. sessionIDs[u] \in Seq(Opened)
        BY RegFacts
      <4>3. \A i \in 1..Len(sessionIDs[u]) : sessionIDs[u][i] # s
        BY <4>1, <4>2 DEF ToSet
      <4> QED
        BY <4>3 DEF Once
    <3> QED
      BY <3>1, <3>2
  <2>4. ToSet(sessionIDs[u]) \cap sessions' = {s \in DOMAIN nameOf : nameOf[s] = u}
    <3>1. ToSet(sessionIDs[u]) \cap sessions' = ToSet(sessionIDs[u]) \cap sessions
      BY <2>2
    <3> QED
      BY <2>1, <3>1 DEF WellListed, Receivers
  <2>5. ToSet(nonAlgoSessionIDs[u]) =
          {s \in DOMAIN nameOf : nameOf[s] = u /\ client'[s] = Page}
    BY <1>2, <2>1 DEF WellListed
  <2> QED
    BY <1>1, <2>1, <2>2, <2>3, <2>4, <2>5 DEF WellListed, Receivers
<1> QED
  BY <1>3, <1>4, <1>6, <1>7 DEF RegInv

\* A page registers.
LEMMA RegPage ==
  ASSUME RegInv, TypeOK', NEW s \in sessions \ greeted, client[s] = Page,
         NEW u \in Users, RegisterPage(s, u), greeted' = greeted \cup {s},
         UNCHANGED <<client, sessions, stopping, spawned>>
  PROVE  RegInv'
PROOF
<1>1. /\ users' = users \cup {u}
      /\ nameOf' = Put(nameOf, s, u)
      /\ sessionIDs' = [sessionIDs EXCEPT ![u] = Append(ListOf(u, s), s)]
      /\ nonAlgoSessionIDs' = [nonAlgoSessionIDs EXCEPT ![u] = Append(@, s)]
      /\ algoSessionIDs' = algoSessionIDs
      /\ Opened' = Opened /\ Processes' = Processes
  BY DEF RegisterPage, Opened, Processes
<1>2. /\ s \in Opened /\ s \in sessions /\ s \notin DOMAIN nameOf
      /\ sessionIDs[u] \in Seq(Opened) /\ nonAlgoSessionIDs[u] \in Seq(Opened)
      /\ \A t \in DOMAIN nameOf : nameOf[t] \in users /\ t \in sessions /\ t \in greeted
      /\ \A v \in Users : /\ s \notin ToSet(sessionIDs[v])
                          /\ s \notin ToSet(nonAlgoSessionIDs[v])
  BY RegFacts
<1>3. /\ DOMAIN nameOf' = DOMAIN nameOf \cup {s}
      /\ nameOf'[s] = u
      /\ \A t \in DOMAIN nameOf : t # s /\ nameOf'[t] = nameOf[t]
  BY <1>1, <1>2 DEF Put
<1>4. RegisteredAreOpen'
  BY <1>2, <1>3 DEF RegisteredAreOpen
<1>5. StartedForKnown'
  BY <1>1 DEF RegInv, StartedForKnown
<1>6. AlgoSessionsAreAlgos'
  <2>1. ASSUME NEW t, NEW v, IsAlgoOf(t, v) PROVE IsAlgoOf(t, v)'
    BY <1>3, <2>1 DEF IsAlgoOf
  <2> QED
    BY <1>1, <2>1 DEF RegInv, AlgoSessionsAreAlgos
<1>7. ASSUME NEW v \in Users PROVE WellListed(v)'
  <2>0. WellListed(v)
    BY <1>7 DEF RegInv
  <2>1. CASE v # u
    <3>1. sessionIDs'[v] = sessionIDs[v] /\ nonAlgoSessionIDs'[v] = nonAlgoSessionIDs[v]
      BY <1>1, <2>1 DEF RegInv, TypeOK
    <3>2. {t \in DOMAIN nameOf' : nameOf'[t] = v} = {t \in DOMAIN nameOf : nameOf[t] = v}
      BY <1>3, <2>1
    <3>3. {t \in DOMAIN nameOf' : nameOf'[t] = v /\ client'[t] = Page}
            = {t \in DOMAIN nameOf : nameOf[t] = v /\ client[t] = Page}
      BY <1>3, <2>1
    <3> QED
      BY <1>1, <2>0, <3>1, <3>2, <3>3 DEF WellListed, Receivers
  <2>2. CASE v = u
    <3>1. /\ sessionIDs'[v] = Append(ListOf(v, s), s)
          /\ nonAlgoSessionIDs'[v] = Append(nonAlgoSessionIDs[v], s)
      BY <1>1, <2>2 DEF RegInv, TypeOK
    <3>2. {t \in DOMAIN nameOf' : nameOf'[t] = v}
            = {t \in DOMAIN nameOf : nameOf[t] = v} \cup {s}
      BY <1>3, <2>2
    <3>3. {t \in DOMAIN nameOf' : nameOf'[t] = v /\ client'[t] = Page}
            = {t \in DOMAIN nameOf : nameOf[t] = v /\ client[t] = Page} \cup {s}
      BY <1>3, <2>2
    <3>4. /\ IsInjective(nonAlgoSessionIDs'[v])
          /\ ToSet(nonAlgoSessionIDs'[v]) = ToSet(nonAlgoSessionIDs[v]) \cup {s}
      BY <1>2, <2>0, <2>2, <3>1, NewInList DEF WellListed
    <3>5. CASE v \in users
      <4>1. sessionIDs'[v] = Append(sessionIDs[v], s)
        BY <3>1, <3>5 DEF ListOf
      <4>2. /\ ToSet(sessionIDs'[v]) = ToSet(sessionIDs[v]) \cup {s}
            /\ TwiceFirst(sessionIDs'[v])
            /\ \A x : Once(sessionIDs[v], x) => Once(sessionIDs'[v], x)
        BY <1>2, <2>0, <2>2, <4>1, NewInList DEF WellListed
      <4> QED
        BY <1>1, <1>2, <2>0, <3>2, <3>3, <3>4, <4>2 DEF WellListed, Receivers
    <3>6. CASE v \notin users
      <4>1. sessionIDs'[v] = Append(<<s>>, s)
        BY <3>1, <3>6 DEF ListOf
      <4>2. /\ ToSet(sessionIDs'[v]) = {s}
            /\ TwiceFirst(sessionIDs'[v])
            /\ \A x : x # s => Once(sessionIDs'[v], x)
        BY <4>1, FirstInList
      <4>3. {t \in DOMAIN nameOf : nameOf[t] = v} = {}
        BY <1>2, <3>6
      <4> QED
        BY <1>1, <1>2, <2>0, <3>2, <3>3, <3>4, <4>2, <4>3 DEF WellListed, Receivers
    <3> QED
      BY <3>5, <3>6
  <2> QED
    BY <2>1, <2>2
<1> QED
  BY <1>4, <1>5, <1>6, <1>7 DEF RegInv

\* An algo registers.
LEMMA RegAlgo ==
  ASSUME RegInv, TypeOK', NEW s \in sessions \ greeted, client[s] # Page,
         NEW u \in users, NEW a, RegisterAlgo(s, u, a), greeted' = greeted \cup {s},
         UNCHANGED <<client, sessions, stopping, spawned>>
  PROVE  RegInv'
PROOF
<1>0. u \in Users
  BY RegFacts
<1>1. /\ users' = users
      /\ nameOf' = Put(nameOf, s, u)
      /\ sessionIDs' = [sessionIDs EXCEPT ![u] = Append(@, s)]
      /\ nonAlgoSessionIDs' = nonAlgoSessionIDs
      /\ algoSessionIDs' = [algoSessionIDs EXCEPT ![u] = Put(@, a, s)]
      /\ Opened' = Opened /\ Processes' = Processes
  BY DEF RegisterAlgo, WithAlgoSession, ListOf, Opened, Processes
<1>2. /\ s \in Opened /\ s \in sessions /\ s \notin DOMAIN nameOf
      /\ sessionIDs[u] \in Seq(Opened)
      /\ \A t \in DOMAIN nameOf : nameOf[t] \in users /\ t \in sessions /\ t \in greeted
      /\ \A v \in Users : s \notin ToSet(sessionIDs[v])
  BY <1>0, RegFacts
<1>3. /\ DOMAIN nameOf' = DOMAIN nameOf \cup {s}
      /\ nameOf'[s] = u
      /\ \A t \in DOMAIN nameOf : t # s /\ nameOf'[t] = nameOf[t]
  BY <1>1, <1>2 DEF Put
<1>4. RegisteredAreOpen'
  BY <1>2, <1>3 DEF RegisteredAreOpen
<1>5. StartedForKnown'
  BY <1>1 DEF RegInv, StartedForKnown
<1>6. AlgoSessionsAreAlgos'
  <2>1. ASSUME NEW t, NEW v, IsAlgoOf(t, v) PROVE IsAlgoOf(t, v)'
    BY <1>3, <2>1 DEF IsAlgoOf
  <2>2. IsAlgoOf(s, u)'
    BY <1>3 DEF IsAlgoOf
  <2>3. ASSUME NEW v \in Users, NEW b \in DOMAIN algoSessionIDs'[v]
        PROVE  IsAlgoOf(algoSessionIDs[v][b], v)'
    <3>1. PICK t : t = algoSessionIDs'[v][b]
      OBVIOUS
    <3>2. \/ t = s /\ v = u
          \/ b \in DOMAIN algoSessionIDs[v] /\ t = algoSessionIDs[v][b]
      <4>1. algoSessionIDs'[v] =
              IF v = u THEN Put(algoSessionIDs[v], a, s) ELSE algoSessionIDs[v]
        BY <1>1 DEF RegInv, TypeOK
      <4>2. CASE v = u
        BY <2>3, <3>1, <4>1, <4>2 DEF Put
      <4>3. CASE v # u
        BY <2>3, <3>1, <4>1, <4>3
      <4> QED
        BY <4>2, <4>3
    <3>3. IsAlgoOf(t, v)'
      BY <2>1, <2>2, <3>2 DEF RegInv, AlgoSessionsAreAlgos
    <3> QED
      BY <3>1, <3>3
  <2>4. ASSUME NEW h \in stopping', h.algoSession # NoSession
        PROVE  IsAlgoOf(h.algoSession, h.user)'
    BY <2>1, <2>4 DEF RegInv, AlgoSessionsAreAlgos
  <2> QED
    BY <2>3, <2>4 DEF AlgoSessionsAreAlgos
<1>7. ASSUME NEW v \in Users PROVE WellListed(v)'
  <2>0. WellListed(v)
    BY <1>7 DEF RegInv
  <2>3. {t \in DOMAIN nameOf' : nameOf'[t] = v /\ client'[t] = Page}
          = {t \in DOMAIN nameOf : nameOf[t] = v /\ client[t] = Page}
    BY <1>3
  <2>1. CASE v # u
    <3>1. sessionIDs'[v] = sessionIDs[v]
      BY <1>1, <2>1 DEF RegInv, TypeOK
    <3>2. {t \in DOMAIN nameOf' : nameOf'[t] = v} = {t \in DOMAIN nameOf : nameOf[t] = v}
      BY <1>3, <2>1
    <3> QED
      BY <1>1, <2>0, <2>3, <3>1, <3>2 DEF WellListed, Receivers
  <2>2. CASE v = u
    <3>1. sessionIDs'[v] = Append(sessionIDs[v], s)
      BY <1>1, <2>2 DEF RegInv, TypeOK
    <3>2. {t \in DOMAIN nameOf' : nameOf'[t] = v}
            = {t \in DOMAIN nameOf : nameOf[t] = v} \cup {s}
      BY <1>3, <2>2
    <3>3. /\ ToSet(sessionIDs'[v]) = ToSet(sessionIDs[v]) \cup {s}
          /\ TwiceFirst(sessionIDs'[v])
          /\ \A x : Once(sessionIDs[v], x) => Once(sessionIDs'[v], x)
      BY <1>2, <2>0, <2>2, <3>1, NewInList DEF WellListed
    <3> QED
      BY <1>1, <1>2, <2>0, <2>3, <3>2, <3>3 DEF WellListed, Receivers
  <2> QED
    BY <2>1, <2>2
<1> QED
  BY <1>4, <1>5, <1>6, <1>7 DEF RegInv

\* The names when one was taken out.
LEMMA NameTaken ==
  ASSUME NEW map, NEW s
  PROVE  /\ DOMAIN WithoutKey(map, s) = DOMAIN map \ {s}
         /\ \A t \in DOMAIN map \ {s} : WithoutKey(map, s)[t] = map[t]
PROOF
  BY DEF WithoutKey

\* A session closes.
LEMMA RegClose ==
  ASSUME RegInv, TypeOK', NEW s \in sessions, Closed(s), spawned' = spawned
  PROVE  RegInv'
PROOF
<1>0. /\ sessions' = sessions \ {s} /\ client' = client
      /\ greeted' = greeted /\ stopping' = stopping
      /\ Opened' = Opened /\ Processes' = Processes
      /\ RemoveSessionID(s)
  BY DEF Closed, Opened, Processes
<1>1. CASE s \notin DOMAIN nameOf
  <2>1. /\ users' = users /\ nameOf' = nameOf /\ sessionIDs' = sessionIDs
        /\ nonAlgoSessionIDs' = nonAlgoSessionIDs /\ algoSessionIDs' = algoSessionIDs
    BY <1>0, <1>1 DEF RemoveSessionID, clientVars
  <2>2. RegisteredAreOpen' /\ StartedForKnown'
    BY <1>0, <1>1, <2>1 DEF RegInv, RegisteredAreOpen, StartedForKnown
  <2>3. AlgoSessionsAreAlgos'
    BY <1>0, <2>1 DEF RegInv, AlgoSessionsAreAlgos, IsAlgoOf
  <2>4. ASSUME NEW v \in Users PROVE WellListed(v)'
    <3>1. WellListed(v)
      BY <2>4 DEF RegInv
    <3>2. ToSet(sessionIDs[v]) \cap sessions = {t \in DOMAIN nameOf : nameOf[t] = v}
      BY <3>1 DEF WellListed, Receivers
    <3>3. s \notin ToSet(sessionIDs[v])
      BY <1>1, <3>2
    <3>4. ToSet(sessionIDs[v]) \cap sessions' = ToSet(sessionIDs[v]) \cap sessions
      BY <1>0, <3>3
    <3> QED
      BY <1>0, <2>1, <3>1, <3>4 DEF WellListed, Receivers
  <2> QED
    BY <2>2, <2>3, <2>4 DEF RegInv
<1>2. CASE s \in DOMAIN nameOf
  <2>0. PICK u : u = nameOf[s]
    OBVIOUS
  <2>1. /\ users' = users
        /\ nameOf' = WithoutKey(nameOf, s)
        /\ sessionIDs' = [sessionIDs EXCEPT ![u] = RemoveFirst(@, s)]
        /\ nonAlgoSessionIDs' = [nonAlgoSessionIDs EXCEPT ![u] = RemoveFirst(@, s)]
        /\ algoSessionIDs' = algoSessionIDs
    BY <1>0, <1>2, <2>0 DEF RemoveSessionID, NonAlgoAfterClose
  <2>2. /\ DOMAIN nameOf' = DOMAIN nameOf \ {s}
        /\ \A t \in DOMAIN nameOf \ {s} : nameOf'[t] = nameOf[t]
    BY <2>1, NameTaken
  <2>3. RegisteredAreOpen' /\ StartedForKnown'
    BY <1>0, <2>1, <2>2 DEF RegInv, RegisteredAreOpen, StartedForKnown
  <2>4. AlgoSessionsAreAlgos'
    <3>1. ASSUME NEW t, NEW v, IsAlgoOf(t, v) PROVE IsAlgoOf(t, v)'
      BY <1>0, <2>2, <3>1 DEF IsAlgoOf
    <3> QED
      BY <1>0, <2>1, <3>1 DEF RegInv, AlgoSessionsAreAlgos
  <2>5. u \in Users /\ sessionIDs[u] \in Seq(Opened) /\ nonAlgoSessionIDs[u] \in Seq(Opened)
    BY <1>2, <2>0, RegFacts
  <2>6. ASSUME NEW v \in Users PROVE WellListed(v)'
    <3>0. /\ WellListed(v)
          /\ ToSet(sessionIDs[v]) \cap sessions = {t \in DOMAIN nameOf : nameOf[t] = v}
      BY <2>6 DEF RegInv, WellListed, Receivers
    <3>1. CASE v # u
      <4>1. sessionIDs'[v] = sessionIDs[v] /\ nonAlgoSessionIDs'[v] = nonAlgoSessionIDs[v]
        BY <2>1, <3>1 DEF RegInv, TypeOK
      <4>2. {t \in DOMAIN nameOf' : nameOf'[t] = v} = {t \in DOMAIN nameOf : nameOf[t] = v}
        BY <2>0, <2>2, <3>1
      <4>3. {t \in DOMAIN nameOf' : nameOf'[t] = v /\ client'[t] = Page}
              = {t \in DOMAIN nameOf : nameOf[t] = v /\ client[t] = Page}
        BY <1>0, <2>0, <2>2, <3>1
      <4>4. s \notin ToSet(sessionIDs[v])
        BY <2>0, <3>0, <3>1
      <4>5. ToSet(sessionIDs[v]) \cap sessions' = ToSet(sessionIDs[v]) \cap sessions
        BY <1>0, <4>4
      <4> QED
        BY <1>0, <3>0, <4>1, <4>2, <4>3, <4>5 DEF WellListed, Receivers
    <3>2. CASE v = u
      <4>1. /\ sessionIDs'[v] = RemoveFirst(sessionIDs[v], s)
            /\ nonAlgoSessionIDs'[v] = RemoveFirst(nonAlgoSessionIDs[v], s)
        BY <2>1, <3>2 DEF RegInv, TypeOK
      <4>2. {t \in DOMAIN nameOf' : nameOf'[t] = v}
              = {t \in DOMAIN nameOf : nameOf[t] = v} \ {s}
        BY <2>2
      <4>3. {t \in DOMAIN nameOf' : nameOf'[t] = v /\ client'[t] = Page}
              = {t \in DOMAIN nameOf : nameOf[t] = v /\ client[t] = Page} \ {s}
        BY <1>0, <2>2
      <4>4. /\ ToSet(sessionIDs'[v]) \subseteq ToSet(sessionIDs[v])
            /\ ToSet(sessionIDs[v]) \ {s} \subseteq ToSet(sessionIDs'[v])
            /\ TwiceFirst(sessionIDs'[v])
            /\ \A x : Once(sessionIDs[v], x) => Once(sessionIDs'[v], x)
        BY <2>5, <3>0, <3>2, <4>1, OutOfList DEF WellListed
      <4>5. /\ IsInjective(nonAlgoSessionIDs'[v])
            /\ ToSet(nonAlgoSessionIDs'[v]) = ToSet(nonAlgoSessionIDs[v]) \ {s}
        <5>1. /\ ToSet(nonAlgoSessionIDs'[v]) \subseteq ToSet(nonAlgoSessionIDs[v])
              /\ ToSet(nonAlgoSessionIDs[v]) \ {s} \subseteq ToSet(nonAlgoSessionIDs'[v])
              /\ IsInjective(nonAlgoSessionIDs'[v])
              /\ s \notin ToSet(nonAlgoSessionIDs'[v])
          BY <2>5, <3>0, <3>2, <4>1, OutOfList DEF WellListed
        <5> QED
          BY <5>1
      <4>6. ToSet(sessionIDs'[v]) \cap sessions' = (ToSet(sessionIDs[v]) \cap sessions) \ {s}
        BY <1>0, <4>4
      <4> QED
        BY <1>0, <3>0, <4>2, <4>3, <4>4, <4>5, <4>6 DEF WellListed, Receivers
    <3> QED
      BY <3>1, <3>2
  <2> QED
    BY <2>3, <2>4, <2>6 DEF RegInv
<1> QED
  BY <1>1, <1>2

\* A stopped algo is forgotten.
LEMMA RegForget ==
  ASSUME RegInv, TypeOK', NEW u \in Users, NEW s, NEW a, IsAlgoOf(s, u),
         RemoveAlgoFromUser(u, s, a), stopping' \subseteq stopping,
         UNCHANGED <<client, sessions, greeted, spawned>>
  PROVE  RegInv'
PROOF
<1>0. Opened' = Opened /\ Processes' = Processes
  BY DEF Opened, Processes
<1>1. CASE UNCHANGED clientVars
  <2>1. /\ \A t \in Opened' \ Opened : t \in sessions'
        /\ sessions' \cap Opened = sessions
        /\ \A h \in stopping' \ stopping :
             h.algoSession # NoSession => IsAlgoOf(h.algoSession, h.user)
    BY <1>0, RegFacts
  <2> QED
    BY <1>0, <1>1, <2>1, RegFrame
<1>2. CASE s \in DOMAIN nameOf /\ ~UNCHANGED clientVars
  <2>1. /\ users' = users
        /\ nameOf' = WithoutKey(nameOf, s)
        /\ sessionIDs' = [sessionIDs EXCEPT ![u] = RemoveFirst(@, s)]
        /\ nonAlgoSessionIDs' = nonAlgoSessionIDs
        /\ \/ algoSessionIDs' = algoSessionIDs
           \/ algoSessionIDs' = [algoSessionIDs EXCEPT ![u] = WithoutKey(@, a)]
    BY <1>2 DEF RemoveAlgoFromUser
  <2>2. /\ DOMAIN nameOf' = DOMAIN nameOf \ {s}
        /\ \A t \in DOMAIN nameOf \ {s} : nameOf'[t] = nameOf[t]
        /\ nameOf[s] = u /\ client[s] # Page /\ s \in Opened
    BY <1>2, <2>1, NameTaken, RegFacts DEF IsAlgoOf
  <2>3. RegisteredAreOpen' /\ StartedForKnown'
    BY <1>0, <2>1, <2>2 DEF RegInv, RegisteredAreOpen, StartedForKnown
  <2>4. AlgoSessionsAreAlgos'
    <3>1. ASSUME NEW t, NEW v, IsAlgoOf(t, v) PROVE IsAlgoOf(t, v)'
      BY <2>2, <3>1 DEF IsAlgoOf
    <3>2. ASSUME NEW v \in Users, NEW b \in DOMAIN algoSessionIDs'[v]
          PROVE  IsAlgoOf(algoSessionIDs[v][b], v)'
      <4>1. b \in DOMAIN algoSessionIDs[v] /\ algoSessionIDs'[v][b] = algoSessionIDs[v][b]
        <5>1. \/ algoSessionIDs'[v] = algoSessionIDs[v]
              \/ algoSessionIDs'[v] = WithoutKey(algoSessionIDs[v], a)
          BY <2>1 DEF RegInv, TypeOK
        <5>2. CASE algoSessionIDs'[v] = algoSessionIDs[v]
          BY <3>2, <5>2
        <5>3. CASE algoSessionIDs'[v] = WithoutKey(algoSessionIDs[v], a)
          BY <3>2, <5>3 DEF WithoutKey
        <5> QED
          BY <5>1, <5>2, <5>3
      <4>2. PICK t : t = algoSessionIDs[v][b]
        OBVIOUS
      <4>3. IsAlgoOf(t, v)'
        BY <3>1, <4>1, <4>2 DEF RegInv, AlgoSessionsAreAlgos
      <4> QED
        BY <4>1, <4>2, <4>3
    <3>3. ASSUME NEW h \in stopping', h.algoSession # NoSession
          PROVE  IsAlgoOf(h.algoSession, h.user)'
      BY <3>1, <3>3 DEF RegInv, AlgoSessionsAreAlgos
    <3> QED
      BY <3>2, <3>3 DEF AlgoSessionsAreAlgos
  <2>5. sessionIDs[u] \in Seq(Opened)
    BY RegFacts
  <2>6. ASSUME NEW v \in Users PROVE WellListed(v)'
    <3>0. /\ WellListed(v)
          /\ ToSet(sessionIDs[v]) \cap sessions = {t \in DOMAIN nameOf : nameOf[t] = v}
      BY <2>6 DEF RegInv, WellListed, Receivers
    <3>3. {t \in DOMAIN nameOf' : nameOf'[t] = v /\ client'[t] = Page}
            = {t \in DOMAIN nameOf : nameOf[t] = v /\ client[t] = Page}
      BY <2>2
    <3>1. CASE v # u
      <4>1. sessionIDs'[v] = sessionIDs[v]
        BY <2>1, <3>1 DEF RegInv, TypeOK
      <4>2. {t \in DOMAIN nameOf' : nameOf'[t] = v} = {t \in DOMAIN nameOf : nameOf[t] = v}
        BY <2>2, <3>1
      <4> QED
        BY <1>0, <2>1, <3>0, <3>3, <4>1, <4>2 DEF WellListed, Receivers
    <3>2. CASE v = u
      <4>1. sessionIDs'[v] = RemoveFirst(sessionIDs[v], s) /\ Once(sessionIDs[v], s)
        BY <2>1, <2>2, <3>0, <3>2 DEF RegInv, TypeOK, WellListed
      <4>2. {t \in DOMAIN nameOf' : nameOf'[t] = v}
              = {t \in DOMAIN nameOf : nameOf[t] = v} \ {s}
        BY <2>2
      <4>3. /\ ToSet(sessionIDs'[v]) \subseteq ToSet(sessionIDs[v])
            /\ ToSet(sessionIDs[v]) \ {s} \subseteq ToSet(sessionIDs'[v])
            /\ s \notin ToSet(sessionIDs'[v])
            /\ TwiceFirst(sessionIDs'[v])
            /\ \A x : Once(sessionIDs[v], x) => Once(sessionIDs'[v], x)
        BY <2>5, <3>0, <3>2, <4>1, OutOfList DEF WellListed
      <4>4. ToSet(sessionIDs'[v]) \cap sessions' = (ToSet(sessionIDs[v]) \cap sessions) \ {s}
        BY <4>3
      <4> QED
        BY <1>0, <2>1, <3>0, <3>3, <4>2, <4>3, <4>4 DEF WellListed, Receivers
    <3> QED
      BY <3>1, <3>2
  <2> QED
    BY <2>3, <2>4, <2>6 DEF RegInv
<1> QED
  BY <1>1, <1>2 DEF RemoveAlgoFromUser

\* Every step keeps the invariant.
LEMMA RegStep ==
  ASSUME RegInv, [Next]_vars
  PROVE  RegInv'
PROOF
<1>0. TypeOK /\ TypeOK'
  BY TypeStep DEF RegInv
<1>1. /\ \A s \in DOMAIN nameOf : /\ nameOf[s] \in users /\ nameOf[s] \in Users
                                  /\ s \in Opened
      /\ sessions \subseteq Opened
  BY RegFacts
<1>2. AlgoTypes
  BY <1>0, TypeParts
<1>3. ASSUME UNCHANGED <<clientVars, client, sessions, stopping>>,
             spawned' = spawned \/ StartedForKnown', greeted \subseteq greeted'
      PROVE  RegInv'
  <2>1. /\ Opened' = Opened /\ \A t \in Opened' \ Opened : t \in sessions'
        /\ sessions' \cap Opened = sessions
        /\ \A h \in stopping' \ stopping :
             h.algoSession # NoSession => IsAlgoOf(h.algoSession, h.user)
    BY <1>1, <1>3 DEF Opened
  <2> QED
    BY <1>0, <1>3, <2>1, RegFrame
<1>4. ASSUME NEW c \in {Page} \cup alive, OnOpen(c) PROVE RegInv'
  <2> DEFINE s == Len(client) + 1
  <2>1. /\ client' = Append(client, c) /\ sessions' = sessions \cup {s}
        /\ UNCHANGED <<clientVars, algoVars, greeted, stopping>>
    BY <1>4 DEF OnOpen
  <2>2. c \in Processes \cup {Page} /\ client \in Seq(Processes \cup {Page})
    BY <1>0 DEF TypeOK
  <2>3. /\ Len(client) \in Nat /\ Len(client') = s
        /\ \A t \in Opened : client'[t] = client[t]
    BY <2>1, <2>2, OneMore DEF Opened
  <2>4. Opened' = Opened \cup {s} /\ s \notin Opened
    BY <2>3 DEF Opened
  <2>5. UNCHANGED spawned
    BY <2>1 DEF algoVars
  <2> HIDE DEF s
  <2>6. /\ Opened \subseteq Opened'
        /\ \A t \in Opened' \ Opened : t \in sessions'
        /\ sessions' \cap Opened = sessions
        /\ greeted \subseteq greeted'
        /\ \A h \in stopping' \ stopping :
             h.algoSession # NoSession => IsAlgoOf(h.algoSession, h.user)
    BY <1>1, <2>1, <2>4
  <2> QED
    BY <1>0, <2>1, <2>3, <2>5, <2>6, RegFrame
<1>5. ASSUME NEW s \in sessions, NEW u \in Users, NewUser(s, u) PROVE RegInv'
  <2>1. /\ client[s] = Page /\ s \in sessions \ greeted /\ greeted' = greeted \cup {s}
        /\ UNCHANGED <<client, sessions, stopping>>
        /\ RemoveUser(u) /\ RegisterPage(s, u)
    BY <1>5 DEF NewUser, Greet, PageMaySend
  <2>2. spawned' = spawned
    BY <1>2, <2>1, EndForms
  <2> QED
    BY <1>0, <2>1, <2>2, RegPage
<1>6. ASSUME NEW s \in sessions, NEW u \in Users, NewUserThrows(s, u) PROVE RegInv'
  <2>1. /\ greeted' = greeted \cup {s} /\ UNCHANGED <<client, sessions, stopping>>
        /\ RemoveUserThrows(u) /\ UNCHANGED clientVars
    BY <1>6 DEF NewUserThrows, Greet
  <2>2. spawned' = spawned
    BY <1>2, <2>1, EndForms
  <2> QED
    BY <1>3, <2>1, <2>2
<1>7. ASSUME NEW s \in sessions, NewAlgo(s) PROVE RegInv'
  <2>1. /\ client[s] # Page /\ s \in sessions \ greeted /\ greeted' = greeted \cup {s}
        /\ UNCHANGED <<client, sessions, stopping>>
        /\ RegisterAlgo(s, spawned[client[s]].user, spawned[client[s]].algo)
        /\ UNCHANGED algoVars
    BY <1>7 DEF NewAlgo, Greet
  <2>2. spawned[client[s]].user \in users
    <3>1. client[s] \in Processes
      BY <1>0, <1>1, <2>1, SessionFacts
    <3> QED
      BY <3>1 DEF RegInv, StartedForKnown
  <2>3. spawned' = spawned
    BY <2>1 DEF algoVars
  <2> QED
    BY <1>0, <2>1, <2>2, <2>3, RegAlgo
<1>8. ASSUME NEW s \in sessions, NEW a \in Algos, RunAlgo(s, a) PROVE RegInv'
  <2>1. /\ s \in DOMAIN nameOf /\ AddAlgo(nameOf[s], a)
        /\ UNCHANGED <<clientVars, client, sessions, greeted, stopping>>
    BY <1>8 DEF RunAlgo, RegisteredPage, serverVars
  <2>2. PICK u : u = nameOf[s]
    OBVIOUS
  <2>3. u \in users /\ u \in Users /\ users' = users
    BY <1>1, <2>1, <2>2 DEF clientVars
  <2>4. PICK n : n = Len(spawned) + 1
    OBVIOUS
  <2>5. /\ Processes' = Processes \cup {n}
        /\ \A p \in Processes : spawned'[p] = spawned[p]
        /\ spawned'[n] = [user |-> u, algo |-> a]
    BY <1>2, <2>1, <2>2, <2>3, <2>4, StartTypes
  <2>6. ASSUME NEW p \in Processes' PROVE spawned'[p].user \in users'
    <3>1. CASE p = n
      <4>1. spawned'[p].user = u
        BY <2>5, <3>1
      <4> QED
        BY <2>3, <4>1
    <3>2. CASE p # n
      BY <2>3, <2>5, <3>2 DEF RegInv, StartedForKnown
    <3> QED
      BY <3>1, <3>2
  <2>7. StartedForKnown'
    BY <2>6 DEF StartedForKnown
  <2> QED
    BY <1>3, <2>1, <2>7
<1>9. ASSUME NEW s \in sessions, NEW a \in Algos, BeginStop(s, a) PROVE RegInv'
  <2> DEFINE u == nameOf[s]
             h == [session |-> s, user |-> u, algo |-> a,
                   algoSession |-> AlgoSessionID(u, a), target |-> Target(u, a)]
  <2>1. /\ s \in DOMAIN nameOf /\ stopping' = stopping \cup {h}
        /\ UNCHANGED <<clientVars, algoVars, client, sessions, greeted>>
    BY <1>9 DEF BeginStop, RegisteredPage
  <2>2. u \in Users /\ h.algoSession = AlgoSessionID(u, a) /\ h.user = u
    BY <1>1, <2>1
  <2> HIDE DEF u, h
  <2>3. h.algoSession # NoSession => IsAlgoOf(h.algoSession, h.user)
    BY <2>2 DEF RegInv, AlgoSessionsAreAlgos, AlgoSessionID
  <2>4. /\ Opened' = Opened /\ \A t \in Opened' \ Opened : t \in sessions'
        /\ sessions' \cap Opened = sessions
        /\ \A g \in stopping' \ stopping :
             g.algoSession # NoSession => IsAlgoOf(g.algoSession, g.user)
        /\ UNCHANGED spawned
    BY <1>1, <2>1, <2>3 DEF Opened, algoVars
  <2> QED
    BY <1>0, <2>1, <2>4, RegFrame
<1>10. ASSUME NEW h \in stopping, EndStop(h) PROVE RegInv'
  <2>1. /\ h.algoSession # NoSession
        /\ RemoveAlgoFromUser(h.user, h.algoSession, h.algo)
        /\ StopAlgo(h.user, h.algo)
        /\ stopping' = stopping \ {h} /\ UNCHANGED <<client, sessions, greeted>>
    BY <1>10 DEF EndStop
  <2>2. h.user \in Users
    BY <1>0 DEF TypeOK, Stop
  <2>3. spawned' = spawned
    BY <1>2, <2>1, <2>2, EndForms
  <2>4. IsAlgoOf(h.algoSession, h.user)
    BY <2>1 DEF RegInv, AlgoSessionsAreAlgos
  <2> QED
    BY <1>0, <2>1, <2>2, <2>3, <2>4, RegForget
<1>11. ASSUME NEW h \in stopping, EndStopThrows(h) PROVE RegInv'
  <2>1. /\ stopping' = stopping \ {h}
        /\ UNCHANGED <<clientVars, algoVars, client, sessions, greeted>>
    BY <1>11 DEF EndStopThrows
  <2>2. /\ Opened' = Opened /\ \A t \in Opened' \ Opened : t \in sessions'
        /\ sessions' \cap Opened = sessions
        /\ \A g \in stopping' \ stopping :
             g.algoSession # NoSession => IsAlgoOf(g.algoSession, g.user)
        /\ UNCHANGED spawned
    BY <1>1, <2>1 DEF Opened, algoVars
  <2> QED
    BY <1>0, <2>1, <2>2, RegFrame
<1>12. ASSUME NEW s \in sessions, NEW a \in Algos, RemoveAlgo(s, a) PROVE RegInv'
  <2>1. /\ s \in DOMAIN nameOf /\ StopAlgo(nameOf[s], a)
        /\ UNCHANGED <<clientVars, client, sessions, greeted, stopping>>
    BY <1>12 DEF RemoveAlgo, RegisteredPage, serverVars
  <2>2. spawned' = spawned
    BY <1>1, <1>2, <2>1, EndForms
  <2> QED
    BY <1>3, <2>1, <2>2
<1>13. ASSUME NEW s \in sessions, OnClose(s) \/ BootUser(s) PROVE RegInv'
  <2>1. Closed(s)
    BY <1>13 DEF OnClose, BootUser
  <2>2. spawned' = spawned
    <3>1. CASE UNCHANGED algoVars
      BY <3>1 DEF algoVars
    <3>2. CASE s \in DOMAIN nameOf /\ RemoveUser(nameOf[s])
      BY <1>1, <1>2, <3>2, EndForms
    <3> QED
      BY <1>13, <3>1, <3>2 DEF OnClose, BootUser
  <2> QED
    BY <1>0, <2>1, <2>2, RegClose
<1>14. ASSUME NEW s \in sessions, BootUserThrows(s) PROVE RegInv'
  <2>1. /\ s \in DOMAIN nameOf /\ RemoveUserThrows(nameOf[s])
        /\ UNCHANGED <<clientVars, client, sessions, greeted, stopping>>
    BY <1>14 DEF BootUserThrows, serverVars
  <2>2. spawned' = spawned
    BY <1>1, <1>2, <2>1, EndForms
  <2> QED
    BY <1>3, <2>1, <2>2
<1>15. ASSUME NEW q \in alive, ProcessExits(q) PROVE RegInv'
  <2>1. UNCHANGED <<clientVars, client, sessions, greeted, stopping, spawned>>
    BY <1>15 DEF ProcessExits, Exit, serverVars
  <2> QED
    BY <1>3, <2>1
<1>16. CASE UNCHANGED vars
  <2>1. UNCHANGED <<clientVars, client, sessions, greeted, stopping, spawned>>
    BY <1>16 DEF vars, serverVars, algoVars
  <2> QED
    BY <1>3, <2>1
<1> QED
  BY <1>4, <1>5, <1>6, <1>7, <1>8, <1>9, <1>10, <1>11, <1>12, <1>13, <1>14, <1>15, <1>16
     DEF Next

\* It holds of the initial state.
LEMMA RegInit ==
  ASSUME Init
  PROVE  RegInv
PROOF
<1>1. TypeOK
  BY InitType
<1>2. /\ users = {} /\ nameOf = << >> /\ stopping = {} /\ spawned = << >>
      /\ \A u \in Users : /\ sessionIDs[u] = << >> /\ nonAlgoSessionIDs[u] = << >>
                          /\ algoSessionIDs[u] = << >>
  BY DEF Init, InitClients, InitAlgos
<1>3. DOMAIN nameOf = {} /\ Processes = {}
  BY <1>2 DEF Processes
<1>4. RegisteredAreOpen /\ StartedForKnown
  BY <1>3 DEF RegisteredAreOpen, StartedForKnown
<1>5. AlgoSessionsAreAlgos
  BY <1>2 DEF AlgoSessionsAreAlgos
<1>6. Len(<< >>) = 0 /\ ToSet(<< >>) = {} /\ DOMAIN << >> = {}
  BY DEF ToSet
<1>7. ASSUME NEW u \in Users PROVE WellListed(u)
  <2>1. /\ Len(sessionIDs[u]) = 0 /\ ToSet(sessionIDs[u]) = {}
        /\ DOMAIN nonAlgoSessionIDs[u] = {} /\ ToSet(nonAlgoSessionIDs[u]) = {}
    BY <1>2, <1>6
  <2>2. TwiceFirst(sessionIDs[u]) /\ \A s : Once(sessionIDs[u], s)
    BY <2>1 DEF TwiceFirst, Once
  <2>3. IsInjective(nonAlgoSessionIDs[u])
    BY <2>1 DEF IsInjective
  <2> QED
    BY <1>3, <2>1, <2>2, <2>3 DEF WellListed, Receivers
<1> QED
  BY <1>1, <1>4, <1>5, <1>7 DEF RegInv

\* RegInv holds throughout.
LEMMA Registered == Spec => []RegInv
PROOF
<1>1. Init => RegInv
  BY RegInit
<1>2. RegInv /\ [Next]_vars => RegInv'
  BY RegStep
<1> QED
  BY <1>1, <1>2, PTL DEF Spec

\* The messages about a user's orders reach every open session that is registered
\* for the user and no other, for any users, algos, sessions and processes.
THEOREM ResponsesArrive == Spec => []ResponsesReachTheirUser
PROOF
<1>1. RegInv => ResponsesReachTheirUser
  BY DEF RegInv, WellListed, ResponsesReachTheirUser
<1> QED
  BY <1>1, Registered, PTL

\* A status message of an algo reaches each registered page of the user once, and
\* no algo.
THEOREM StatusArrivesOnce == Spec => []StatusReachesPagesOnce
PROOF
<1>1. RegInv => StatusReachesPagesOnce
  BY DEF RegInv, WellListed, StatusReachesPagesOnce
<1> QED
  BY <1>1, Registered, PTL

\* No session but the one a user came with gets a message twice.
THEOREM NoneElseTwice == Spec => []TwiceOnlyTheFirst
PROOF
<1>1. RegInv => TwiceOnlyTheFirst
  BY DEF RegInv, WellListed, TwiceFirst, TwiceOnlyTheFirst
<1> QED
  BY <1>1, Registered, PTL
=============================================================================
