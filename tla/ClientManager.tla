--------------------------- MODULE ClientManager ---------------------------
(***************************************************************************)
(* ClientManager.java and the session lists of User.java: which users      *)
(* there are, which session belongs to whom.  An operation here is what    *)
(* one handler of the server makes of this state, with all the calls the   *)
(* handler makes; Server says when.                                        *)
(*                                                                         *)
(* Sessions are numbered as they open.  A user is his name: a User object  *)
(* is made once for a name and stays.                                      *)
(***************************************************************************)
EXTENDS Accounts

VARIABLES
  users,               \* keys of ClientManager.users
  nameOf,              \* sessionIds_to_name
  sessionIDs,          \* sessionIDs[u]: User.sessionIDs
  nonAlgoSessionIDs,   \* nonAlgoSessionIDs[u]: User.nonAlgoSessionIDs
  algoSessionIDs       \* algoSessionIDs[u]: User.algoSessionIDs

clientVars == <<users, nameOf, sessionIDs, nonAlgoSessionIDs, algoSessionIDs>>

\* null where a session ID is expected
NoSession == 0

-----------------------------------------------------------------------------
(* Maps *)

Put(map, key, value) ==
  [k \in DOMAIN map \cup {key} |-> IF k = key THEN value ELSE map[k]]

\* null takes the place of the value
BadWithoutKey(map, key) == [k \in DOMAIN map |-> IF k = key THEN NoSession ELSE map[k]]

WithoutKey(map, key) == [k \in DOMAIN map \ {key} |-> map[k]]

-----------------------------------------------------------------------------
InitClients ==
  /\ users = {}
  /\ nameOf = << >>
  /\ sessionIDs = [u \in Users |-> << >>]
  /\ nonAlgoSessionIDs = [u \in Users |-> << >>]
  /\ algoSessionIDs = [u \in Users |-> << >>]

\* addUser lists the session for users it knows, too
BadListOf(u, s) == Append(sessionIDs[u], s)

\* The session list of the user that addUser finds or makes: the constructor
\* of User lists the session already.
ListOf(u, s) == IF u \in users THEN sessionIDs[u] ELSE <<s>>

\* addUser, then addNonAlgoSessionID: a page registers.
RegisterPage(s, u) ==
  /\ users' = users \cup {u}
  /\ nameOf' = Put(nameOf, s, u)
  /\ sessionIDs' = [sessionIDs EXCEPT ![u] = Append(ListOf(u, s), s)]
  /\ nonAlgoSessionIDs' = [nonAlgoSessionIDs EXCEPT ![u] = Append(@, s)]
  /\ UNCHANGED algoSessionIDs

\* the session is kept under its algo only
BadWithAlgoSession(list, s) == list

\* addAlgoSessionId
WithAlgoSession(list, s) == Append(list, s)

\* addAlgoToUser, for a session that is not registered: an algo registers.
RegisterAlgo(s, u, a) ==
  /\ users' = users \cup {u}
  /\ nameOf' = Put(nameOf, s, u)
  /\ sessionIDs' = [sessionIDs EXCEPT ![u] = WithAlgoSession(ListOf(u, s), s)]
  /\ algoSessionIDs' = [algoSessionIDs EXCEPT ![u] = Put(@, a, s)]
  /\ UNCHANGED nonAlgoSessionIDs

\* only the list of all sessions is looked after
BadNonAlgoAfterClose(list, s) == list

\* removeSessionId, for nonAlgoSessionIDs
NonAlgoAfterClose(list, s) == RemoveFirst(list, s)

\* removeSessionID: a session closes.  What algoSessionIDs says stays.
RemoveSessionID(s) ==
  \/ /\ s \notin DOMAIN nameOf
     /\ UNCHANGED clientVars
  \/ /\ s \in DOMAIN nameOf
     /\ LET u == nameOf[s]
        IN /\ sessionIDs' = [sessionIDs EXCEPT ![u] = RemoveFirst(@, s)]
           /\ nonAlgoSessionIDs' =
                [nonAlgoSessionIDs EXCEPT ![u] = NonAlgoAfterClose(@, s)]
     /\ nameOf' = WithoutKey(nameOf, s)
     /\ UNCHANGED <<users, algoSessionIDs>>

\* getAlgoSessionID
AlgoSessionID(u, a) ==
  IF a \in DOMAIN algoSessionIDs[u] THEN algoSessionIDs[u][a] ELSE NoSession

\* removeAlgoFromUser: nothing happens if the session closed before.
RemoveAlgoFromUser(u, s, a) ==
  \/ /\ s \notin DOMAIN nameOf
     /\ UNCHANGED clientVars
  \/ /\ s \in DOMAIN nameOf
     /\ nameOf' = WithoutKey(nameOf, s)
     /\ sessionIDs' = [sessionIDs EXCEPT ![u] = RemoveFirst(@, s)]
     /\ algoSessionIDs' = IF AlgoSessionID(u, a) = s
                          THEN [algoSessionIDs EXCEPT ![u] = WithoutKey(@, a)]
                          ELSE algoSessionIDs
     /\ UNCHANGED <<users, nonAlgoSessionIDs>>
=============================================================================
