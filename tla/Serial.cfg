SPECIFICATION FairSpec
CONSTANTS
  Others = {}
  Messages <- MCMessages
  NULL = NULL
  UB_PACKETLEN = 2
  SERIAL_BUFFERLEN = 7
  MaxLost = 2
  MaxFrames = 3
INVARIANTS
  WholeFrameReturned
  FillBound
PROPERTIES
  SwitchedByAnswer
  SwitchEnds
\* The frames are bounded, and a failed assertion ends the daemon.
CHECK_DEADLOCK FALSE
