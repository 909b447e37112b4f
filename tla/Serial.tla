------------------------------ MODULE Serial ------------------------------
(***************************************************************************)
(* The framing of messages on the serial line, serial.c.                   *)
(*                                                                         *)
(* One direction of the line: a sender runs serial_writeMessage, one byte  *)
(* at a time; every byte reaches serial_in of the receiver or is lost (the *)
(* line is set to IGNPAR: a byte with an error is dropped).  The order of  *)
(* the bytes is all a reader can observe, so a byte is received when it is *)
(* sent.  The sender is the bridge, which frames its messages like ubd     *)
(* does, and the receiver is ubd, from serial_switch on.                   *)
(***************************************************************************)
EXTENDS Integers, Sequences

CONSTANTS
  Others,            \* bytes without a meaning for the framing
  Messages,          \* the messages the sender may write
  NULL,
  UB_PACKETLEN,      \* size of struct message
  SERIAL_BUFFERLEN,  \* size of the buffer of the receiver
  MaxLost,           \* bound: lost bytes
  MaxFrames          \* bound: frames

SERIAL_ESCAPE == "\\"
SERIAL_START == "1"
SERIAL_END == "2"
Byte == {SERIAL_ESCAPE, SERIAL_START, SERIAL_END, "B"} \cup Others

\* The answer of the bridge to serial_switch.
Switched == <<"B">>

ASSUME SerialAssumption ==
  /\ UB_PACKETLEN \in Nat \ {0}
  /\ SERIAL_BUFFERLEN \in UB_PACKETLEN..255
  /\ Messages \subseteq {m \in Seq(Byte) : Len(m) <= UB_PACKETLEN}
  /\ Switched \in Messages
  /\ NULL \notin Seq(Byte)
  /\ MaxLost \in Nat /\ MaxFrames \in Nat

VARIABLES
  pc,       \* sender: the part of the frame that is written next
  out,      \* sender: the message of the frame
  i,        \* sender: index of the next byte of out
  doubled,  \* sender: the escape before that byte is written
  heard,    \* sender: the bridge was told to switch, and did not answer yet
  rx,       \* receiver: what the thread that reads does
  escaped,  \* receiver: the last byte was an escape
  fill,     \* receiver: bytes in the buffer, -1 outside a frame
  buffer,   \* receiver: those bytes
  msg,      \* what serial_readMessage returned in this step
  lost,     \* how many bytes were lost
  frames,   \* how many frames were begun
  intact,   \* history: no byte of this frame was lost so far
  synced    \* history: nor was one of the frame before

sender == <<pc, out, i, doubled>>
receiver == <<rx, escaped, fill, buffer, msg>>
history == <<lost, frames, intact, synced>>
vars == <<sender, heard, receiver, history>>

\* Between two frames; before the escape and the second byte of the START; in
\* the data, up to the escape of the END; before the second byte of the END.
Part == {"idle", "escape", "start", "data", "stop"}

TypeOK ==
  /\ pc \in Part
  /\ out \in Messages
  /\ i \in 1..Len(out) + 1
  /\ doubled \in BOOLEAN
  /\ heard \in {"no", "yes", "answered"}
  /\ rx \in {"switch", "read", "exit", "overrun"}
  /\ escaped \in BOOLEAN
  /\ fill \in -1..SERIAL_BUFFERLEN
  /\ buffer \in Seq(Byte)
  /\ fill >= 0 => fill = Len(buffer)
  /\ msg \in Seq(Byte) \cup {NULL}
  /\ lost \in Nat
  /\ frames \in Nat
  /\ intact \in BOOLEAN
  /\ synced \in BOOLEAN

\* serial_open discards what was received before: ubd may come in anywhere in
\* a frame.  What it missed counts as one lost byte.
Init ==
  /\ pc \in Part /\ out \in Messages
  /\ i \in 1..Len(out) + 1 /\ doubled = FALSE
  /\ pc = "stop" => i = Len(out) + 1
  /\ pc \in {"idle", "escape", "start"} => i = 1
  /\ heard = "no" /\ out # Switched
  /\ rx = "switch" /\ escaped = FALSE /\ fill = -1 /\ buffer = <<>> /\ msg = NULL
  /\ lost = (IF pc \in {"idle", "escape"} THEN 0 ELSE 1)
  /\ frames = 0
  /\ intact = (lost = 0) /\ synced = intact

-----------------------------------------------------------------------------
(* serial_writeMessage *)

Running == rx \in {"switch", "read"}

\* The "B" of serial_switch reaches the node.  Nobody repeats it.
BridgeHears ==
  /\ rx = "switch" /\ heard = "no"
  /\ heard' = "yes"
  /\ UNCHANGED <<sender, receiver, history>>

\* A frame is begun.  The first one after the switch is the answer to it.
Begin(m) ==
  /\ Running
  /\ pc = "idle" /\ (frames < MaxFrames \/ m = Switched)
  /\ m = Switched <=> heard = "yes"
  /\ heard' = IF heard = "yes" THEN "answered" ELSE heard
  /\ pc' = "escape" /\ out' = m /\ i' = 1 /\ doubled' = FALSE
  /\ msg' = NULL
  /\ frames' = frames + 1
  /\ synced' = intact /\ intact' = TRUE
  /\ UNCHANGED <<rx, escaped, fill, buffer, lost>>

\* serial_putenc: an escape is written twice.
\* (mutant) but not the last byte of a message
DoublesBeforeEnd == pc = "data" /\ i < Len(out) /\ out[i] = SERIAL_ESCAPE /\ ~doubled
Doubles == pc = "data" /\ i <= Len(out) /\ out[i] = SERIAL_ESCAPE /\ ~doubled
AtEnd == pc = "data" /\ i > Len(out)

\* The byte serial_putc writes.
NextByte ==
  CASE pc = "escape" \/ Doubles \/ AtEnd -> SERIAL_ESCAPE
    [] pc = "start" -> SERIAL_START
    [] pc = "stop" -> SERIAL_END
    [] OTHER -> out[i]

serial_putc ==
  /\ pc # "idle"
  /\ doubled' = Doubles
  /\ i' = IF pc = "data" /\ ~Doubles /\ ~AtEnd THEN i + 1 ELSE i
  /\ pc' = CASE pc = "escape" -> "start"
             [] pc = "start" -> "data"
             [] pc = "stop" -> "idle"
             [] OTHER -> IF AtEnd THEN "stop" ELSE "data"
  /\ UNCHANGED <<out, heard, frames>>

-----------------------------------------------------------------------------
(* serial_in, serial_readMessage *)

Escapes(b) == b = SERIAL_ESCAPE /\ ~escaped
Starts(b) == escaped /\ b = SERIAL_START
Ends(b) == escaped /\ b = SERIAL_END

\* The byte is stored in a frame and ignored outside of one.  The test for a
\* full buffer is in the branch of fill = -1 and never taken.
Store(b) ==
  /\ ~Escapes(b) /\ ~Starts(b) /\ ~Ends(b)
  /\ escaped' = FALSE /\ msg' = NULL
  /\ \/ fill = -1 /\ UNCHANGED <<rx, fill, buffer>>
     \/ /\ fill \in 0..SERIAL_BUFFERLEN - 1
        /\ fill' = fill + 1 /\ buffer' = Append(buffer, b)
        /\ UNCHANGED rx
     \/ fill = SERIAL_BUFFERLEN /\ rx' = "overrun" /\ UNCHANGED <<fill, buffer>>

\* A new frame, whether the one before was ended or not.
Start(b) ==
  /\ Starts(b)
  /\ escaped' = FALSE /\ fill' = 0 /\ buffer' = <<>> /\ msg' = NULL
  /\ UNCHANGED rx

\* (mutant) without the test of the length
BeginsWithB(m) == m[1] = "B"
IsAnswer(m) == m = Switched

\* (mutant) a message of one byte counts as empty
ReturnsLong(m) ==
  \/ Len(m) <= 1 /\ msg' = NULL /\ UNCHANGED rx
  \/ Len(m) > UB_PACKETLEN /\ msg' = NULL /\ rx' = "exit"
  \/ /\ Len(m) \in 2..UB_PACKETLEN
     /\ msg' = m
     /\ rx' = IF rx = "switch" /\ ~IsAnswer(m) THEN "switch" ELSE "read"
\* serial_readMessage returns a message that is not empty and fits; until the
\* switch is done serial_switch drops it.  A failed assertion ends the daemon.
Returns(m) ==
  \/ Len(m) = 0 /\ msg' = NULL /\ UNCHANGED rx
  \/ Len(m) > UB_PACKETLEN /\ msg' = NULL /\ rx' = "exit"
  \/ /\ Len(m) \in 1..UB_PACKETLEN
     /\ msg' = m
     /\ rx' = IF rx = "switch" /\ ~IsAnswer(m) THEN "switch" ELSE "read"

End(b) ==
  /\ Ends(b)
  /\ escaped' = FALSE
  /\ \/ fill = -1 /\ rx' = "exit" /\ msg' = NULL
     \/ fill >= 0 /\ Returns(buffer)
  /\ fill' = -1 /\ buffer' = <<>>

\* (mutant) the escape is stored as well
EscapeStored(b) ==
  /\ Escapes(b)
  /\ escaped' = TRUE /\ msg' = NULL
  /\ fill' = IF fill = -1 THEN -1 ELSE fill + 1
  /\ buffer' = IF fill = -1 THEN buffer ELSE Append(buffer, b)
  /\ UNCHANGED rx
Escape(b) ==
  /\ Escapes(b)
  /\ escaped' = TRUE /\ msg' = NULL
  /\ UNCHANGED <<rx, fill, buffer>>

serial_in(b) == Escape(b) \/ Start(b) \/ End(b) \/ Store(b)

-----------------------------------------------------------------------------
Receive ==
  /\ Running
  /\ serial_putc /\ serial_in(NextByte)
  /\ UNCHANGED history

Lose ==
  /\ Running /\ lost < MaxLost
  /\ serial_putc
  /\ lost' = lost + 1 /\ intact' = FALSE
  /\ msg' = NULL
  /\ UNCHANGED <<rx, escaped, fill, buffer, synced>>

Next == BridgeHears \/ (\E m \in Messages : Begin(m)) \/ Receive \/ Lose

Spec == Init /\ [][Next]_vars

\* The thread that writes goes on, and the bridge answers what it has heard.
FairSpec == Spec /\ WF_vars(Receive) /\ WF_vars(Begin(Switched))

-----------------------------------------------------------------------------
(* Properties *)

\* Whatever bytes a message consists of: of two frames that arrive whole, one
\* after the other, the second is returned by serial_readMessage exactly once
\* and as it was written, and does not fail an assertion, however many bytes
\* were lost before, in the middle of an escape or of a START.
WholeFrameReturned ==
  intact /\ synced =>
    /\ Running
    /\ msg # NULL => pc = "idle" /\ msg = out
    /\ pc = "idle" /\ frames > 0 /\ out # <<>> => msg = out

\* The daemon does not end and its buffer does not overflow by itself: a lost
\* byte joins at most two frames and the START between them ("TODO: prevent
\* overflow!" of serial_in).
FillBound ==
  /\ rx = "exit" => lost > 0
  /\ (IF rx = "overrun" THEN SERIAL_BUFFERLEN + 1 ELSE fill)
       <= UB_PACKETLEN + lost * (UB_PACKETLEN + 2)

\* A frame that arrives whole ends serial_switch only if it is the answer of the
\* bridge, whatever was lost before it and wherever in a frame ubd came in.
\* (What is left of a frame that lost a byte may look like the answer.)
SwitchedByAnswer ==
  [][rx = "switch" /\ rx' = "read" /\ intact => heard = "answered"]_vars

\* A bridge that has heard the "B" is waited for no longer than its answer
\* takes, unless a byte is lost, although bytes were lost before.
SwitchEnds == heard = "yes" /\ intact ~> rx # "switch" \/ ~intact
=============================================================================
