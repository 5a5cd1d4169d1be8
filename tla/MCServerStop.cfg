\* One user, one algo ID, run and stopped from several pages: what becomes of a stop.
SPECIFICATION Spec
CONSTANTS
  alice = alice
  bob = bob
  Users <- MCOneUser
  Algos <- MCOneAlgo
  MaxSessions = 3
  MaxProcesses = 2
PROPERTY StopEndsTheAlgo
CHECK_DEADLOCK FALSE
