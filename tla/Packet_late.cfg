\* The bridge may answer after the writer has given up waiting.
SPECIFICATION Spec
CONSTANTS
  Clients = {c1, c2}
  Nodes = {n1}
  NULL = NULL
  LateAnswers = TRUE
  MaxPosts = 3
  MaxPackets = 0
SYMMETRY Symmetry
INVARIANT StatusBacklog
\* Next stops at rpc = "segfault", which is the end of the daemon.
CHECK_DEADLOCK FALSE
