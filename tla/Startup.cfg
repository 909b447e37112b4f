SPECIFICATION Spec
CONSTANTS
  Procs = {p1, p2, p3}
  NULL = NULL
  GroupConfigs <- MCGroupConfigs
  NodeConfigs <- MCNodeConfigs
  MAX_GROUPS = 2
  MAX_NODE_GROUPS = 2
  MaxKills = 2
SYMMETRY Symmetry
INVARIANTS
  TypeOK
  OneDaemon
  PidFileNamesDaemon
  GroupsMatch
\* Every instance may have been started, and serve or have ended.
CHECK_DEADLOCK FALSE
