\* A comment's claim: RebootKillsAlgos.
SPECIFICATION Spec
CONSTANTS
  alice = alice
  bob = bob
  Users <- MCOneUser
  Algos <- MCAlgos
  MaxSessions = 3
  MaxProcesses = 2
PROPERTY RebootKillsAlgos
CHECK_DEADLOCK FALSE
