SPECIFICATION FairSpec
CONSTANTS
  a = a
  b = b
  bridge = bridge
  NULL = NULL
  Ids = {a, b}
  BridgeId = bridge
  Configured <- MCConfigured
  Groups <- MCGroups
  MAX_NODE = 3
  LastAdr = 4
  Sources = {3, 4}
  nodetimeout = 1
  MaxPackets = 5
INVARIANTS
  NInv
  UniqueBusAddress
  CommandsMatchTable
  NoAddressOnlyIfFull
  ReadyWhenFirstConfirmed
PROPERTIES
  RemovedOnlyWhenQuiet
  SilentNodesRemoved
\* Next stops when a null or released pointer was followed.
CHECK_DEADLOCK FALSE
