SPECIFICATION FairSpec
CONSTANTS
  NULL = NULL
  Nodes = {a}
  BASE = BASE
  Conns = {c1, c2, c3, c4}
  MaxRequests = 3
INVARIANTS
  TypeOK
  ActiveIsConfigured
  GrantedIsConfigured
  LingersOnlyIfLate
  OnlyBaseLeftOpen
PROPERTIES
  MainLoopResumes
  ThreadsEnd
\* The requests are bounded.
CHECK_DEADLOCK FALSE
