\* Answers are lost or arrive within the two seconds the writer waits.
SPECIFICATION Spec
CONSTANTS
  Clients = {c1, c2}
  Nodes = {n1, n2}
  NULL = NULL
  LateAnswers = FALSE
  MaxPosts = 3
  MaxPackets = 1
SYMMETRY Symmetry
INVARIANTS
  AnswersReachTheirClient
  RepliesReachTheirClient
  NoSegfault
  IInv
PROPERTY ImplementsStreamService
