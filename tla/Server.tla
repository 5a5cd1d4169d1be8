------------------------------- MODULE Server -------------------------------
(***************************************************************************)
(* The handlers of Server.java that open, register, stop and close         *)
(* sessions, with ClientManager and AlgoProcessManager behind them, and    *)
(* the pages and algos in front of them.  Orders do not change this state; *)
(* Receivers says who gets the messages about them.                        *)
(*                                                                         *)
(* Handlers run one at a time, except that the one for "stop" sleeps for   *)
(* three seconds, in which others run.                                     *)
(*                                                                         *)
(* A page registers once a session, when the socket opens                  *)
(* (websocket.js), and so does an algo (algo-footer.py).                   *)
(***************************************************************************)
EXTENDS ClientManager, AlgoProcesses

CONSTANTS MaxSessions,    \* bound on the sessions of a behaviour
          MaxProcesses    \* bound on the processes of a behaviour

ASSUME MaxSessionsAssumption  == MaxSessions \in Nat
ASSUME MaxProcessesAssumption == MaxProcesses \in Nat

VARIABLES
  client,     \* client[s]: the process that opened session s, or Page
  sessions,   \* keys of Server.sessions: the open ones
  greeted,    \* sessions whose client sent new_user or new_algo
  stopping    \* "stop" handlers that sleep

serverVars == <<client, sessions, greeted, stopping>>
vars == <<clientVars, algoVars, serverVars>>

Page      == 0
NoProcess == 0

\* A session whose "stop" handler sleeps: the container hands it no message.
Busy(s) == \E h \in stopping : h.session = s

\* An open page, registered or not, that may send a message.
PageMaySend(s) == s \in sessions /\ client[s] = Page /\ ~Busy(s)

\* A page that may send and is registered; without a user name, run and stop
\* throw before they change anything.
RegisteredPage(s) == PageMaySend(s) /\ s \in DOMAIN nameOf

\* What handleOrder and handleCancel send to: the sessions of the user that
\* are still open.
Receivers(u) == ToSet(sessionIDs[u]) \cap sessions

-----------------------------------------------------------------------------
Init ==
  /\ InitClients
  /\ InitAlgos
  /\ client = << >>
  /\ sessions = {}
  /\ greeted = {}
  /\ stopping = {}

\* onOpen
OnOpen(c) ==
  /\ Len(client) < MaxSessions
  /\ \/ c = Page
     \/ c \in alive /\ \A s \in 1..Len(client) : client[s] # c
  /\ client' = Append(client, c)
  /\ sessions' = sessions \cup {Len(client) + 1}
  /\ UNCHANGED <<clientVars, algoVars, greeted, stopping>>

Greet(s) ==
  /\ s \in sessions \ greeted
  /\ greeted' = greeted \cup {s}
  /\ UNCHANGED <<client, sessions, stopping>>

\* handleNewUser: the user's algos are killed, the page is registered.
NewUser(s, u) ==
  /\ PageMaySend(s)
  /\ Greet(s)
  /\ RemoveUser(u)
  /\ RegisterPage(s, u)

\* handleNewUser, when killing the algos throws: the page is not registered.
NewUserThrows(s, u) ==
  /\ PageMaySend(s)
  /\ Greet(s)
  /\ RemoveUserThrows(u)
  /\ UNCHANGED clientVars

\* handleNewAlgo: the process behind the session registers.
NewAlgo(s) ==
  /\ s \in sessions /\ client[s] # Page
  /\ Greet(s)
  /\ RegisterAlgo(s, spawned[client[s]].user, spawned[client[s]].algo)
  /\ UNCHANGED algoVars

\* handleAlgoCommand, "run"
RunAlgo(s, a) ==
  /\ RegisteredPage(s)
  /\ Len(spawned) < MaxProcesses
  /\ AddAlgo(nameOf[s], a)
  /\ UNCHANGED <<clientVars, serverVars>>

\* The process under an algo ID when "stop" is asked.
Target(u, a) ==
  IF a \in DOMAIN runningAlgos[u] THEN runningAlgos[u][a] ELSE NoProcess

\* handleAlgoCommand, "stop": the algo's session is told to stop, if it has
\* one, and the handler goes to sleep.
BeginStop(s, a) ==
  /\ RegisteredPage(s)
  /\ LET u == nameOf[s]
     IN stopping' = stopping \cup
          {[session |-> s, user |-> u, algo |-> a,
            algoSession |-> AlgoSessionID(u, a), target |-> Target(u, a)]}
  /\ UNCHANGED <<clientVars, algoVars, client, sessions, greeted>>

\* It wakes up and ends the algo.
EndStop(h) ==
  /\ h \in stopping
  /\ h.algoSession # NoSession
  /\ RemoveAlgoFromUser(h.user, h.algoSession, h.algo)
  /\ StopAlgo(h.user, h.algo)
  /\ stopping' = stopping \ {h}
  /\ UNCHANGED <<client, sessions, greeted>>

\* It wakes up, and had found no session: containsKey(null) throws.
EndStopThrows(h) ==
  /\ h \in stopping
  /\ h.algoSession = NoSession
  /\ stopping' = stopping \ {h}
  /\ UNCHANGED <<clientVars, algoVars, client, sessions, greeted>>

\* handleAlgoCommand, "remove"
RemoveAlgo(s, a) ==
  /\ RegisteredPage(s)
  /\ StopAlgo(nameOf[s], a)
  /\ UNCHANGED <<clientVars, serverVars>>

Closed(s) ==
  /\ RemoveSessionID(s)
  /\ sessions' = sessions \ {s}
  /\ UNCHANGED <<client, greeted, stopping>>

\* onClose: a client closes its session, or goes away.
OnClose(s) ==
  /\ s \in sessions
  /\ Closed(s)
  /\ UNCHANGED algoVars

\* bootUser: the algos of the session's user are killed, the session is
\* closed.  removeUser, given a session ID, finds no such user.
BootUser(s) ==
  /\ s \in sessions
  /\ IF s \in DOMAIN nameOf THEN RemoveUser(nameOf[s]) ELSE UNCHANGED algoVars
  /\ Closed(s)

\* bootUser, when killing the algos throws: the session stays.
BootUserThrows(s) ==
  /\ s \in sessions \cap DOMAIN nameOf
  /\ RemoveUserThrows(nameOf[s])
  /\ UNCHANGED <<clientVars, serverVars>>

ProcessExits(p) ==
  /\ Exit(p)
  /\ UNCHANGED <<clientVars, serverVars>>

Next ==
  \/ \E c \in {Page} \cup alive : OnOpen(c)
  \/ \E s \in sessions :
       \/ \E u \in Users : NewUser(s, u) \/ NewUserThrows(s, u)
       \/ NewAlgo(s)
       \/ \E a \in Algos : RunAlgo(s, a) \/ BeginStop(s, a) \/ RemoveAlgo(s, a)
       \/ OnClose(s)
       \/ BootUser(s)
       \/ BootUserThrows(s)
  \/ \E h \in stopping : EndStop(h) \/ EndStopThrows(h)
  \/ \E p \in alive : ProcessExits(p)

\* Thread.sleep(3000) ends.
WakeUp(s) == \E h \in stopping : h.session = s /\ (EndStop(h) \/ EndStopThrows(h))

Fairness == \A s \in 1..MaxSessions : WF_vars(WakeUp(s))

Spec == Init /\ [][Next]_vars /\ Fairness

-----------------------------------------------------------------------------
(* Properties *)

PartialFunctions(S, T) == UNION {[D -> T] : D \in SUBSET S}

Opened == 1..Len(client)

Stop == [session : Opened, user : Users, algo : Algos,
         algoSession : Opened \cup {NoSession},
         target : Processes \cup {NoProcess}]

\* Every variable holds what its Java field can hold.
TypeOK ==
  /\ users \subseteq Users
  /\ nameOf \in PartialFunctions(Opened, users)
  /\ sessionIDs \in [Users -> Seq(Opened)]
  /\ nonAlgoSessionIDs \in [Users -> Seq(Opened)]
  /\ algoSessionIDs \in [Users -> PartialFunctions(Algos, Opened)]
  /\ spawned \in Seq([user : Users, algo : Algos])
  /\ alive \subseteq Processes
  /\ runningAlgos \in [Users -> PartialFunctions(Algos, Processes)]
  /\ client \in Seq(Processes \cup {Page})
  /\ sessions \subseteq Opened
  /\ greeted \subseteq Opened
  /\ stopping \subseteq Stop

\* The messages about a user's orders reach every open session that is
\* registered for the user and no other, although name map, session list and
\* open sessions are kept apart and closes, stops and boots come in any order.
ResponsesReachTheirUser ==
  \A u \in Users :
    Receivers(u) = {s \in DOMAIN nameOf : nameOf[s] = u}

\* "relay algo status message to other clients linked to this algo"
\* (Server.java:431): it reaches each registered page of the user, once, and
\* no algo.
StatusReachesPagesOnce ==
  \A u \in Users :
    /\ IsInjective(nonAlgoSessionIDs[u])
    /\ ToSet(nonAlgoSessionIDs[u]) =
         {s \in DOMAIN nameOf : nameOf[s] = u /\ client[s] = Page}

\* No session gets a message twice but the one a user came with: addUser and
\* addNonAlgoSessionID both list it.
TwiceOnlyTheFirst ==
  \A u \in Users : \A i, j \in 1..Len(sessionIDs[u]) :
    i < j /\ sessionIDs[u][i] = sessionIDs[u][j] => i = 1 /\ j = 2

\* A later process runs, or ran, under the ID of p.
Replaced(p) == \E q \in Processes : q > p /\ spawned[q] = spawned[p]

\* A process that stop, remove, a reconnect and boot cannot find any more was
\* replaced under its ID by "run": no other step loses one.
LostOnlyIfReplaced ==
  \A p \in alive :
    \/ Replaced(p)
    \/ Target(spawned[p].user, spawned[p].algo) = p

\* Stopping an algo that has registered ends the process that ran when stop
\* was asked, whatever closes, registers or starts during the three seconds,
\* unless "run" replaced it meanwhile.
StopEndsTheAlgo ==
  \A s \in 1..MaxSessions, p \in 1..MaxProcesses :
    (\E h \in stopping : h.session = s /\ h.target = p /\ h.algoSession # NoSession)
      ~> (p \notin alive \/ Replaced(p))

-----------------------------------------------------------------------------
(* What comments say, and what does not hold *)

\* "kill running algos if user rebooting" (Server.java:255): after new_user,
\* no process of the user runs.
RebootKillsAlgos ==
  [][\A s \in sessions, u \in Users :
       NewUser(s, u) \/ NewUserThrows(s, u)
         => \A p \in alive' : spawned[p].user # u]_vars

=============================================================================
