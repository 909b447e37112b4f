\* Liveness when messages and answers are lost.
SPECIFICATION FairSpec
CONSTANTS
  Clients = {c1, c2}
  Nodes = {n1}
  NULL = NULL
  LateAnswers = FALSE
  MaxPosts = 3
  MaxPackets = 0
PROPERTIES
  EveryCommandAnswered
  QueueDrains
