SPECIFICATION Spec
CONSTANTS
  Conns = {c1, c2}
  Streams = {m1, m2}
  NULL = NULL
  NCLASSES = 2
  ClassLists <- MCClassLists
  PacketClasses <- MCPacketClasses
  UB_PACKET_DATA = 1
  MAX_BUF = 2
  NodeFrames <- MCNodeFrames
  ControlFrames <- MCControlFrames
  MaxFrames = 2
  MaxDiscoveries = 1
SYMMETRY Symmetry
INVARIANT AnswersReachTheAsker
\* The daemon may end, and the sessions are bounded.
CHECK_DEADLOCK FALSE
