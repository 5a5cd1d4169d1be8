--------------------------- MODULE AlgoProcesses ---------------------------
(***************************************************************************)
(* Server.AlgoProcessManager: the running algos of each user, and the      *)
(* processes themselves.  Processes are numbered as they are started.      *)
(***************************************************************************)
EXTENDS Accounts

VARIABLES
  spawned,        \* spawned[p]: the user and the algo process p was started for
  alive,          \* processes that run
  runningAlgos    \* runningAlgos[u]: from algo IDs to processes, no entry for none

algoVars == <<spawned, alive, runningAlgos>>

Processes == 1..Len(spawned)

InitAlgos ==
  /\ spawned = << >>
  /\ alive = {}
  /\ runningAlgos = [u \in Users |-> << >>]

\* pb.start() and addAlgo: a process that ran under the same ID is forgotten.
AddAlgo(u, a) ==
  LET p == Len(spawned) + 1
  IN /\ spawned' = Append(spawned, [user |-> u, algo |-> a])
     /\ alive' = alive \cup {p}
     /\ runningAlgos' = [runningAlgos EXCEPT ![u] =
          [b \in DOMAIN @ \cup {a} |-> IF b = a THEN p ELSE @[b]]]

\* the entry is dropped, the process runs on
BadDestroy(u, algos) == alive

\* p.destroy() of the processes that are entered for these algos
Destroy(u, algos) == alive \ {runningAlgos[u][a] : a \in algos}

\* the entries userAlgos.remove leaves
Remaining(u, algos) ==
  [a \in DOMAIN runningAlgos[u] \ algos |-> runningAlgos[u][a]]

End(u, algos) ==
  /\ alive' = Destroy(u, algos)
  /\ runningAlgos' = [runningAlgos EXCEPT ![u] = Remaining(u, algos)]
  /\ UNCHANGED spawned

\* stopAlgo
StopAlgo(u, a) == End(u, {a} \cap DOMAIN runningAlgos[u])

\* removeUser goes through the keys of the map that stopAlgo removes from:
\* with one key it ends before it notices.
RemoveUser(u) ==
  /\ Cardinality(DOMAIN runningAlgos[u]) <= 1
  /\ End(u, DOMAIN runningAlgos[u])

\* With more, it stops one algo (the first of a HashMap) and throws a
\* ConcurrentModificationException.
RemoveUserThrows(u) ==
  /\ Cardinality(DOMAIN runningAlgos[u]) > 1
  /\ \E a \in DOMAIN runningAlgos[u] : StopAlgo(u, a)

\* A process ends by itself: the algo was told to stop, or failed.
Exit(p) ==
  /\ p \in alive
  /\ alive' = alive \ {p}
  /\ UNCHANGED <<spawned, runningAlgos>>
=============================================================================
