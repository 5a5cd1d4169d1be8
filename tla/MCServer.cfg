\* Two users, three sessions of pages and algos, two processes.
SPECIFICATION Spec
SYMMETRY MCSymmetry
CONSTANTS
  alice = alice
  bob = bob
  Users <- MCUsers
  Algos <- MCAlgos
  MaxSessions = 3
  MaxProcesses = 2
INVARIANTS
  TypeOK
  ResponsesReachTheirUser
  StatusReachesPagesOnce
  TwiceOnlyTheFirst
  LostOnlyIfReplaced
CHECK_DEADLOCK FALSE
