---------------------------- MODULE SerialProofs ----------------------------
(***************************************************************************)
(* Proofs about the framing, for any messages, sizes and losses.           *)
(***************************************************************************)
EXTENDS Serial, SequenceTheorems, TLAPS

\* Only an escape is doubled, the data starts with the first byte, and the END
\* follows the last.
SenderOK ==
  /\ pc \in {"escape", "start"} => i = 1
  /\ doubled => pc = "data" /\ i <= Len(out) /\ out[i] = SERIAL_ESCAPE
  /\ pc = "stop" => i = Len(out) + 1

\* From its START on the receiver reads a frame in step with the sender,
\* whatever it had read before.
InStep ==
  intact =>
    /\ pc = "data" => escaped = doubled
    /\ pc = "stop" => escaped
    /\ pc = "idle" => ~escaped /\ fill = -1

\* After one whole frame it has stored just what the sender has sent of the
\* next one.
Copied ==
  intact /\ synced =>
    /\ Running
    /\ pc = "escape" => ~escaped /\ fill = -1
    /\ pc = "start" => escaped /\ fill = -1
    /\ pc \in {"data", "stop"} =>
         fill = i - 1 /\ \A k \in 1..i - 1 : buffer[k] = out[k]
    /\ msg # NULL => pc = "idle" /\ msg = out
    /\ pc = "idle" /\ frames > 0 /\ out # <<>> => msg = out

\* While nothing is lost every frame is whole, and the bridge writes its answer
\* when it was asked.
Answered ==
  /\ out = Switched => heard = "answered"
  /\ lost = 0 => intact /\ synced

\* The buffer holds what the sender has sent of its message.
Prefix == fill = i - 1 /\ \A k \in 1..i - 1 : buffer[k] = out[k]

\* What is stored of a frame whose bytes arrive is the message or nothing or,
\* behind an escape that lost its second byte, more than the answer of the
\* bridge: the escape of the START and its second byte.
Joined ==
  intact /\ Running =>
    /\ pc = "start" /\ ~escaped => fill # 0
    /\ pc \in {"data", "stop"} => Prefix \/ fill = -1 \/ fill >= 2

\* What was stored since the START, the byte that overran the buffer included.
Stored == IF rx = "overrun" THEN SERIAL_BUFFERLEN + 1 ELSE fill

\* What the lost bytes allow for: each joins one more frame, with its START.
Allowance == lost * (UB_PACKETLEN + 2)

\* A frame can only be stored behind another one if a byte was lost since, in
\* the END or in the middle of an escape: its allowance is not used yet.  An
\* escape that is not yet stored leaves room for one more byte.
Filled ==
  Stored >= 0 =>
    /\ pc \in {"idle", "escape"} => Stored <= Allowance - 1
    /\ pc \in {"idle", "escape"} /\ escaped => Stored <= Allowance - 2
    /\ pc = "start" => Stored <= Allowance - 1
    /\ pc = "data" => Stored <= Allowance + i - 1
    /\ pc = "data" /\ ~(escaped <=> doubled) =>
         Stored <= Allowance - (UB_PACKETLEN + 2) + i - 1
    /\ pc = "data" /\ escaped /\ ~doubled =>
         Stored <= Allowance - (UB_PACKETLEN + 2) + i - 2
    /\ pc = "stop" => Stored <= Allowance + Len(out)
    /\ pc = "stop" /\ ~escaped => Stored <= Allowance - 2

SInv == TypeOK /\ SenderOK /\ InStep /\ Copied /\ Joined /\ Answered /\ Filled

-----------------------------------------------------------------------------
(* Types *)

\* What the constants have in common.
LEMMA Sizes ==
  /\ UB_PACKETLEN \in Nat \ {0} /\ SERIAL_BUFFERLEN \in Nat
  /\ UB_PACKETLEN <= SERIAL_BUFFERLEN
  /\ Switched \in Messages
  /\ NULL \notin Seq(Byte)
BY SerialAssumption

\* A message is made of bytes and fits into a packet.
LEMMA MessageType ==
  ASSUME NEW m \in Messages
  PROVE  m \in Seq(Byte) /\ Len(m) \in Nat /\ Len(m) <= UB_PACKETLEN
BY SerialAssumption

\* Whatever part of the frame is written, it is written in bytes.
LEMMA NextByteType == ASSUME TypeOK, pc # "idle" PROVE NextByte \in Byte
<1>1. CASE pc = "data" /\ ~AtEnd
  <2>1. out \in Seq(Byte) /\ i \in 1..Len(out)
    BY <1>1, MessageType DEF TypeOK, AtEnd
  <2> QED BY <1>1, <2>1 DEF NextByte, Byte
<1>2. CASE ~(pc = "data" /\ ~AtEnd)
  BY <1>2 DEF NextByte, Byte, TypeOK, Part, AtEnd
<1> QED BY <1>1, <1>2

\* The sender keeps its types.
LEMMA SenderTypeStep ==
  ASSUME TypeOK, serial_putc
  PROVE  pc' \in Part /\ i' \in 1..Len(out) + 1 /\ doubled' \in BOOLEAN
<1>1. Len(out) \in Nat
  BY MessageType DEF TypeOK
<1>2. i' \in 1..Len(out) + 1
  BY <1>1 DEF TypeOK, serial_putc, Doubles, AtEnd
<1> QED BY <1>2 DEF TypeOK, Part, serial_putc, Doubles

\* The receiver keeps its types.
LEMMA ReceiverTypeStep ==
  ASSUME TypeOK, NEW b \in Byte, serial_in(b)
  PROVE  /\ rx' \in {"switch", "read", "exit", "overrun"}
         /\ escaped' \in BOOLEAN
         /\ fill' \in -1..SERIAL_BUFFERLEN
         /\ buffer' \in Seq(Byte)
         /\ fill' >= 0 => fill' = Len(buffer')
         /\ msg' \in Seq(Byte) \cup {NULL}
<1> USE DEF TypeOK, serial_in, Escape, Start, End, Store
<1>0. SERIAL_BUFFERLEN \in Nat
  BY Sizes
<1>1. <<>> \in Seq(Byte) /\ Len(<<>>) = 0
  BY EmptySeq
<1>2. Append(buffer, b) \in Seq(Byte) /\ Len(Append(buffer, b)) = Len(buffer) + 1
  BY AppendProperties
<1>3. rx' \in {"switch", "read", "exit", "overrun"}
  BY DEF Returns
<1>4. escaped' \in BOOLEAN
  OBVIOUS
<1>5. fill' \in -1..SERIAL_BUFFERLEN
  BY <1>0
<1>6. buffer' \in Seq(Byte)
  BY <1>1, <1>2
<1>7. fill' >= 0 => fill' = Len(buffer')
  BY <1>1, <1>2
<1>8. msg' \in Seq(Byte) \cup {NULL}
  BY DEF Returns
<1> QED BY <1>3, <1>4, <1>5, <1>6, <1>7, <1>8

\* Every step keeps the types.
LEMMA TypeStep == TypeOK /\ [Next]_vars => TypeOK'
<1> SUFFICES ASSUME TypeOK, [Next]_vars PROVE TypeOK'
    OBVIOUS
<1>1. CASE BridgeHears
  BY <1>1 DEF BridgeHears, TypeOK, sender, receiver, history
<1>2. ASSUME NEW m \in Messages, Begin(m) PROVE TypeOK'
  <2> USE <1>2 DEF Begin, TypeOK
  <2>1. pc' \in Part /\ out' \in Messages /\ doubled' \in BOOLEAN
    BY DEF Part
  <2>2. i' \in 1..Len(out') + 1
    BY MessageType
  <2>3. heard' \in {"no", "yes", "answered"}
    OBVIOUS
  <2>4. /\ rx' \in {"switch", "read", "exit", "overrun"} /\ escaped' \in BOOLEAN
        /\ fill' \in -1..SERIAL_BUFFERLEN /\ buffer' \in Seq(Byte)
    OBVIOUS
  <2>5. fill' >= 0 => fill' = Len(buffer')
    OBVIOUS
  <2>6. msg' \in Seq(Byte) \cup {NULL} /\ lost' \in Nat /\ frames' \in Nat
    OBVIOUS
  <2>7. intact' \in BOOLEAN /\ synced' \in BOOLEAN
    OBVIOUS
  <2> QED BY ONLY <2>1, <2>2, <2>3, <2>4, <2>5, <2>6, <2>7 DEF TypeOK
<1>3. CASE Receive
  <2>1. pc # "idle" /\ NextByte \in Byte
    BY <1>3, NextByteType DEF Receive, serial_putc
  <2> QED BY <1>3, <2>1, SenderTypeStep, ReceiverTypeStep
      DEF Receive, serial_putc, history, TypeOK
<1>4. CASE Lose
  <2> USE <1>4 DEF Lose, TypeOK
  <2>1. pc' \in Part /\ i' \in 1..Len(out) + 1 /\ doubled' \in BOOLEAN
    BY SenderTypeStep
  <2>2. out' = out /\ out' \in Messages /\ heard' \in {"no", "yes", "answered"}
    BY DEF serial_putc
  <2>3. /\ rx' \in {"switch", "read", "exit", "overrun"} /\ escaped' \in BOOLEAN
        /\ fill' \in -1..SERIAL_BUFFERLEN /\ buffer' \in Seq(Byte)
    OBVIOUS
  <2>4. fill' >= 0 => fill' = Len(buffer')
    OBVIOUS
  <2>5. msg' \in Seq(Byte) \cup {NULL} /\ lost' \in Nat /\ frames' \in Nat
    BY DEF serial_putc
  <2>6. intact' \in BOOLEAN /\ synced' \in BOOLEAN
    OBVIOUS
  <2> QED BY ONLY <2>1, <2>2, <2>3, <2>4, <2>5, <2>6 DEF TypeOK
<1>5. CASE UNCHANGED vars
  BY <1>5 DEF vars, sender, receiver, history, TypeOK
<1> QED BY <1>1, <1>2, <1>3, <1>4, <1>5 DEF Next

-----------------------------------------------------------------------------
(* One byte *)

\* Every step keeps SenderOK.
LEMMA SenderStep == TypeOK /\ SenderOK /\ [Next]_vars => SenderOK'
<1> SUFFICES ASSUME TypeOK, SenderOK, [Next]_vars PROVE SenderOK'
    OBVIOUS
<1>1. ASSUME serial_putc PROVE SenderOK'
  <2>1. Len(out) \in Nat /\ i \in 1..Len(out) + 1
    BY MessageType DEF TypeOK
  <2>2. doubled' => pc' = "data" /\ i' <= Len(out') /\ out'[i'] = SERIAL_ESCAPE
    <3>1. ASSUME Doubles
          PROVE  pc' = "data" /\ i' = i /\ out' = out
      BY <1>1, <2>1, <3>1 DEF serial_putc, Doubles, AtEnd
    <3> QED BY <1>1, <3>1 DEF serial_putc, Doubles
  <2>3. pc' = "stop" => i' = Len(out') + 1
    BY <1>1, <2>1 DEF serial_putc, Doubles, AtEnd
  <2>4. pc' \in {"escape", "start"} => i' = 1
    BY <1>1, <2>1 DEF serial_putc, Doubles, AtEnd, SenderOK, TypeOK, Part
  <2> QED BY <2>2, <2>3, <2>4 DEF SenderOK
<1>2. ASSUME NEW m \in Messages, Begin(m) PROVE SenderOK'
  BY <1>2 DEF Begin, SenderOK
<1>3. CASE BridgeHears \/ UNCHANGED vars
  BY <1>3 DEF BridgeHears, vars, sender, SenderOK
<1> QED BY <1>1, <1>2, <1>3 DEF Next, Receive, Lose

\* The byte that follows is the one the receiver has to expect: an escape that
\* is not the second one, then what the escape stands for, or plain data.
LEMMA NextByteIs ==
  ASSUME TypeOK, SenderOK
  PROVE  /\ pc = "escape" \/ Doubles \/ AtEnd => NextByte = SERIAL_ESCAPE /\ ~doubled
         /\ pc = "start" => NextByte = SERIAL_START
         /\ pc = "stop" => NextByte = SERIAL_END
         /\ pc = "data" /\ ~Doubles /\ ~AtEnd =>
              /\ i \in 1..Len(out) /\ NextByte = out[i]
              /\ doubled <=> NextByte = SERIAL_ESCAPE
<1>1. Len(out) \in Nat /\ i \in 1..Len(out) + 1 /\ doubled \in BOOLEAN
  BY MessageType DEF TypeOK
<1>2. pc = "escape" \/ Doubles \/ AtEnd => NextByte = SERIAL_ESCAPE /\ ~doubled
  BY <1>1 DEF NextByte, SenderOK, Doubles, AtEnd
<1>3. /\ pc = "start" => NextByte = SERIAL_START
      /\ pc = "stop" => NextByte = SERIAL_END
  BY DEF NextByte, Doubles, AtEnd
<1>4. ASSUME pc = "data", ~Doubles, ~AtEnd
      PROVE  /\ i \in 1..Len(out) /\ NextByte = out[i]
             /\ doubled <=> NextByte = SERIAL_ESCAPE
  <2>1. NextByte = out[i]
    BY <1>4 DEF NextByte
  <2> QED BY <1>1, <1>4, <2>1 DEF Doubles, AtEnd, SenderOK
<1> QED BY <1>2, <1>3, <1>4

Distinct == SERIAL_ESCAPE # SERIAL_START /\ SERIAL_ESCAPE # SERIAL_END
            /\ SERIAL_START # SERIAL_END

\* The bytes with a meaning differ.
LEMMA DistinctBytes == Distinct
BY DEF Distinct, SERIAL_ESCAPE, SERIAL_START, SERIAL_END

\* In step, data is stored, an escape that is doubled or of the END is not, and
\* the END is recognised.
LEMMA InStepReceives ==
  ASSUME TypeOK, SenderOK, InStep, intact, serial_in(NextByte)
  PROVE  /\ pc = "data" /\ ~Doubles /\ ~AtEnd => Store(NextByte)
         /\ pc = "data" /\ (Doubles \/ AtEnd) => Escape(NextByte)
         /\ pc = "stop" => End(NextByte)
         /\ pc = "start" => ~escaped'
<1> USE DistinctBytes DEF Distinct, serial_in, Escapes, Starts, Ends
<1>1. ASSUME pc = "data", ~Doubles, ~AtEnd PROVE Store(NextByte)
  <2>1. escaped <=> NextByte = SERIAL_ESCAPE
    BY <1>1, NextByteIs DEF InStep
  <2> QED BY <2>1 DEF Escape, Start, End
<1>2. ASSUME pc = "data", Doubles \/ AtEnd PROVE Escape(NextByte)
  <2>1. ~escaped /\ NextByte = SERIAL_ESCAPE
    BY <1>2, NextByteIs DEF InStep
  <2> QED BY <2>1 DEF Start, End, Store
<1>3. ASSUME pc = "stop" PROVE End(NextByte)
  <2>1. escaped /\ NextByte = SERIAL_END
    BY <1>3, NextByteIs DEF InStep
  <2> QED BY <2>1 DEF Escape, Start, Store
<1>4. ASSUME pc = "start" PROVE ~escaped'
  <2>1. NextByte = SERIAL_START
    BY <1>4, NextByteIs
  <2> QED BY <2>1 DEF Escape, Start, End, Store
<1> QED BY <1>1, <1>2, <1>3, <1>4

\* From its START on the receiver stays in step.
LEMMA InStepStep == TypeOK /\ SenderOK /\ InStep /\ [Next]_vars => InStep'
<1> SUFFICES ASSUME TypeOK, SenderOK, InStep, [Next]_vars, intact'
             PROVE  /\ pc' = "data" => escaped' = doubled'
                    /\ pc' = "stop" => escaped'
                    /\ pc' = "idle" => ~escaped' /\ fill' = -1
    BY DEF InStep
<1>1. ASSUME NEW m \in Messages, Begin(m)
      PROVE  pc' = "escape"
  BY <1>1 DEF Begin
<1>2. CASE Receive
  <2> USE <1>2 DEF Receive, serial_putc, history
  <2>1. intact /\ serial_in(NextByte)
    OBVIOUS
  <2>2. CASE pc = "data" /\ ~Doubles /\ ~AtEnd
    <3>1. ~escaped' /\ doubled' = FALSE /\ pc' = "data"
      BY <2>1, <2>2, InStepReceives DEF Store
    <3>2. escaped' = FALSE
      BY <2>1, <2>2, InStepReceives DEF Store
    <3> QED BY <3>1, <3>2
  <2>3. CASE pc = "data" /\ (Doubles \/ AtEnd)
    <3>1. escaped' = TRUE
      BY <2>1, <2>3, InStepReceives DEF Escape
    <3>2. CASE AtEnd
      BY <2>3, <3>1, <3>2
    <3>3. CASE ~AtEnd
      <4>1. doubled' = TRUE /\ pc' = "data"
        BY <2>3, <3>3
      <4> QED BY <3>1, <4>1
    <3> QED BY <3>2, <3>3
  <2>4. CASE pc = "stop"
    <3>1. pc' = "idle" /\ escaped' = FALSE /\ fill' = -1
      BY <2>1, <2>4, InStepReceives DEF End
    <3> QED BY <3>1
  <2>5. CASE pc = "start"
    <3>1. pc' = "data" /\ doubled' = FALSE /\ ~escaped'
      BY <2>1, <2>5, InStepReceives DEF Doubles
    <3>2. escaped' \in BOOLEAN
      BY NextByteType, ReceiverTypeStep
    <3> QED BY <3>1, <3>2
  <2>6. CASE pc = "escape"
    BY <2>6
  <2> QED BY <2>2, <2>3, <2>4, <2>5, <2>6 DEF TypeOK, Part
<1>3. CASE Lose
  BY <1>3 DEF Lose
<1>4. CASE BridgeHears \/ UNCHANGED vars
  <2>1. UNCHANGED <<pc, doubled, escaped, fill, intact>>
    BY <1>4 DEF BridgeHears, vars, sender, receiver, history
  <2> QED BY <2>1 DEF InStep
<1> QED BY <1>1, <1>2, <1>3, <1>4 DEF Next

-----------------------------------------------------------------------------
(* Two frames that arrive whole *)

\* The bytes that were stored are those that were sent.
LEMMA StoredFrame ==
  ASSUME TypeOK, SenderOK, Copied, intact, synced, pc = "stop"
  PROVE  fill = Len(out) /\ buffer = out
<1>1. out \in Seq(Byte) /\ Len(out) \in Nat /\ buffer \in Seq(Byte)
  BY MessageType DEF TypeOK
<1>2. fill = Len(out) /\ \A k \in 1..Len(out) : buffer[k] = out[k]
  BY <1>1 DEF SenderOK, Copied
<1>3. Len(buffer) = Len(out)
  BY <1>1, <1>2 DEF TypeOK
<1>4. buffer = out
  BY <1>1, <1>2, <1>3, SeqEqual
<1> QED BY <1>2, <1>4

\* A byte of the data, when the receiver is in step.
LEMMA StoredByte ==
  ASSUME TypeOK, SenderOK, InStep, Copied, intact, synced, Receive,
         pc = "data", ~Doubles, ~AtEnd
  PROVE  /\ pc' = "data" /\ i' = i + 1 /\ rx' = rx /\ msg' = NULL
         /\ fill' = i' - 1 /\ \A k \in 1..i' - 1 : buffer'[k] = out[k]
<1>1. /\ out \in Seq(Byte) /\ Len(out) \in Nat /\ Len(out) <= UB_PACKETLEN
      /\ i \in 1..Len(out) /\ NextByte = out[i] /\ NextByte \in Byte
      /\ buffer \in Seq(Byte)
  BY MessageType, NextByteIs, NextByteType DEF TypeOK
<1>2. fill = i - 1 /\ (\A k \in 1..i - 1 : buffer[k] = out[k])
  BY DEF Copied
<1>3. fill \in 0..SERIAL_BUFFERLEN - 1 /\ fill = Len(buffer)
  BY <1>1, <1>2, Sizes DEF TypeOK
<1>4. Store(NextByte)
  BY InStepReceives DEF Receive
<1>5. /\ fill' = fill + 1 /\ buffer' = Append(buffer, NextByte)
      /\ rx' = rx /\ msg' = NULL
  BY <1>3, <1>4, Sizes DEF Store
<1>6. pc' = "data" /\ i' = i + 1
  BY DEF Receive, serial_putc
<1>7. ASSUME NEW k \in 1..i' - 1 PROVE buffer'[k] = out[k]
  <2>1. \A j \in 1..Len(buffer) : Append(buffer, NextByte)[j] = buffer[j]
    BY <1>1, AppendProperties
  <2>2. Append(buffer, NextByte)[Len(buffer) + 1] = NextByte
    BY <1>1, AppendProperties
  <2>3. CASE k \in 1..i - 1
    BY <1>1, <1>2, <1>3, <1>5, <2>1, <2>3
  <2>4. CASE k = i
    BY <1>1, <1>2, <1>3, <1>5, <2>2, <2>4
  <2> QED BY <1>1, <1>6, <1>7, <2>3, <2>4
<1>8. fill' = i' - 1
  BY <1>1, <1>2, <1>5, <1>6
<1> QED BY <1>5, <1>6, <1>7, <1>8

\* A byte of START or END, when the receiver is in step.
LEMMA OtherBytes ==
  ASSUME TypeOK, SenderOK, InStep, Copied, intact, synced, Receive
  PROVE  /\ pc = "escape" => /\ pc' = "start" /\ escaped' /\ fill' = -1
                             /\ rx' = rx /\ msg' = NULL
         /\ pc = "start" => /\ pc' = "data" /\ i' = 1 /\ fill' = 0
                            /\ rx' = rx /\ msg' = NULL
         /\ pc = "data" /\ (Doubles \/ AtEnd) =>
              /\ pc' \in {"data", "stop"}
              /\ UNCHANGED <<i, fill, buffer, rx>> /\ msg' = NULL
         /\ pc = "stop" => /\ pc' = "idle"
                           /\ msg' = IF out = <<>> THEN NULL ELSE out
                           /\ rx' = rx \/ (rx' = "read" /\ (rx = "read" \/ out = Switched))
<1> USE DistinctBytes DEF Distinct, Receive, serial_putc
<1>1. serial_in(NextByte)
  OBVIOUS
<1>2. ASSUME pc = "escape"
      PROVE  /\ pc' = "start" /\ escaped' /\ fill' = -1
             /\ rx' = rx /\ msg' = NULL
  <2>1. NextByte = SERIAL_ESCAPE /\ ~escaped /\ fill = -1
    BY <1>2, NextByteIs DEF Copied
  <2>2. Escape(NextByte)
    BY <1>1, <2>1 DEF serial_in, Start, Starts, End, Ends, Store, Escapes
  <2> QED BY <1>2, <2>1, <2>2 DEF Escape
<1>3. ASSUME pc = "start"
      PROVE  /\ pc' = "data" /\ i' = 1 /\ fill' = 0
             /\ rx' = rx /\ msg' = NULL
  <2>1. NextByte = SERIAL_START /\ escaped
    BY <1>3, NextByteIs DEF Copied
  <2>2. Start(NextByte)
    BY <1>1, <2>1 DEF serial_in, Escape, Starts, End, Ends, Store, Escapes
  <2>3. i' = 1
    BY <1>3 DEF SenderOK, Doubles, AtEnd
  <2> QED BY <1>3, <2>2, <2>3 DEF Start
<1>4. ASSUME pc = "data", Doubles \/ AtEnd
      PROVE  /\ pc' \in {"data", "stop"}
             /\ UNCHANGED <<i, fill, buffer, rx>> /\ msg' = NULL
  BY <1>1, <1>4, InStepReceives DEF Escape
<1>5. ASSUME pc = "stop"
      PROVE  /\ pc' = "idle"
             /\ msg' = IF out = <<>> THEN NULL ELSE out
             /\ rx' = rx \/ (rx' = "read" /\ (rx = "read" \/ out = Switched))
  <2>1. fill = Len(out) /\ buffer = out
    BY <1>5, StoredFrame
  <2>2. End(NextByte)
    BY <1>1, <1>5, InStepReceives
  <2>3. /\ out \in Seq(Byte) /\ Len(out) \in Nat /\ Len(out) <= UB_PACKETLEN
        /\ (Len(out) = 0 <=> out = <<>>)
    BY MessageType, EmptySeq DEF TypeOK
  <2>4. Returns(out)
    BY <2>1, <2>2, <2>3 DEF End
  <2>5. rx \in {"switch", "read"}
    BY DEF Copied, Running
  <2>6. CASE out = <<>>
    BY <1>5, <2>3, <2>4, <2>6, Sizes DEF Returns
  <2>7. CASE out # <<>>
    <3>1. /\ msg' = out
          /\ rx' = IF rx = "switch" /\ ~IsAnswer(out) THEN "switch" ELSE "read"
      BY <2>3, <2>4, <2>7, Sizes DEF Returns
    <3> QED BY <1>5, <2>5, <2>7, <3>1 DEF IsAnswer
  <2> QED BY <2>6, <2>7
<1> QED BY <1>2, <1>3, <1>4, <1>5

\* The buffer grows with what is sent.
LEMMA CopiedStep ==
  TypeOK /\ SenderOK /\ InStep /\ Copied /\ [Next]_vars => Copied'
<1> SUFFICES ASSUME TypeOK, SenderOK, InStep, Copied, [Next]_vars, intact', synced'
             PROVE  /\ Running'
                    /\ pc' = "escape" => ~escaped' /\ fill' = -1
                    /\ pc' = "start" => escaped' /\ fill' = -1
                    /\ pc' \in {"data", "stop"} =>
                         fill' = i' - 1 /\ \A k \in 1..i' - 1 : buffer'[k] = out'[k]
                    /\ msg' # NULL => pc' = "idle" /\ msg' = out'
                    /\ pc' = "idle" /\ frames' > 0 /\ out' # <<>> => msg' = out'
    BY DEF Copied
<1>1. ASSUME NEW m \in Messages, Begin(m)
      PROVE  /\ Running' /\ pc' = "escape" /\ ~escaped' /\ fill' = -1 /\ msg' = NULL
  BY <1>1 DEF Begin, Running, InStep
<1>2. CASE Receive
  <2>1. intact /\ synced /\ out' = out /\ Running
    BY <1>2 DEF Receive, serial_putc, history
  <2>2. CASE pc = "data" /\ ~Doubles /\ ~AtEnd
    <3>1. /\ pc' = "data" /\ rx' = rx /\ msg' = NULL
          /\ fill' = i' - 1 /\ \A k \in 1..i' - 1 : buffer'[k] = out[k]
      BY <1>2, <2>1, <2>2, StoredByte
    <3> QED BY <2>1, <3>1 DEF Running
  <2>3. CASE pc = "data" /\ (Doubles \/ AtEnd)
    <3>1. /\ pc' \in {"data", "stop"}
          /\ UNCHANGED <<i, fill, buffer, rx>> /\ msg' = NULL
      BY <1>2, <2>1, <2>3, OtherBytes
    <3>2. fill = i - 1 /\ \A k \in 1..i - 1 : buffer[k] = out[k]
      BY <2>1, <2>3 DEF Copied
    <3> QED BY <2>1, <3>1, <3>2 DEF Running
  <2>4. CASE pc = "stop"
    <3>1. /\ pc' = "idle"
          /\ msg' = IF out = <<>> THEN NULL ELSE out
          /\ rx' = rx \/ rx' = "read"
      BY <1>2, <2>1, <2>4, OtherBytes
    <3> QED BY <2>1, <3>1 DEF Running
  <2>5. CASE pc = "start"
    <3>1. pc' = "data" /\ i' = 1 /\ fill' = 0 /\ rx' = rx /\ msg' = NULL
      BY <1>2, <2>1, <2>5, OtherBytes
    <3> QED BY <2>1, <3>1 DEF Running
  <2>6. CASE pc = "escape"
    <3>1. pc' = "start" /\ escaped' /\ fill' = -1 /\ rx' = rx /\ msg' = NULL
      BY <1>2, <2>1, <2>6, OtherBytes
    <3> QED BY <2>1, <3>1 DEF Running
  <2>7. pc # "idle"
    BY <1>2 DEF Receive, serial_putc
  <2> QED BY <2>2, <2>3, <2>4, <2>5, <2>6, <2>7 DEF TypeOK, Part
<1>3. CASE Lose
  BY <1>3 DEF Lose
<1>4. CASE BridgeHears \/ UNCHANGED vars
  <2>1. UNCHANGED <<pc, out, i, escaped, fill, buffer, rx, msg, frames, intact, synced>>
    BY <1>4 DEF BridgeHears, vars, sender, receiver, history
  <2> QED BY <2>1 DEF Copied, Running
<1> QED BY <1>1, <1>2, <1>3, <1>4 DEF Next

-----------------------------------------------------------------------------
(* The answer of the bridge *)

\* The bridge answers what it has heard.
LEMMA AnsweredStep == TypeOK /\ Answered /\ [Next]_vars => Answered'
<1> SUFFICES ASSUME TypeOK, Answered, [Next]_vars PROVE Answered'
    OBVIOUS
<1>1. ASSUME NEW m \in Messages, Begin(m) PROVE Answered'
  <2>1. out' = Switched => heard' = "answered"
    BY <1>1 DEF Begin
  <2>2. ASSUME lost' = 0 PROVE intact' /\ synced'
    BY <1>1, <2>2 DEF Begin, Answered
  <2> QED BY <2>1, <2>2 DEF Answered
<1>2. CASE Receive
  BY <1>2 DEF Receive, serial_putc, history, Answered
<1>3. CASE Lose
  <2>1. lost' # 0
    BY <1>3 DEF Lose, TypeOK
  <2> QED BY <1>3, <2>1 DEF Lose, serial_putc, Answered
<1>4. CASE BridgeHears
  BY <1>4 DEF BridgeHears, sender, receiver, history, Answered
<1>5. CASE UNCHANGED vars
  BY <1>5 DEF vars, sender, receiver, history, Answered
<1> QED BY <1>1, <1>2, <1>3, <1>4, <1>5 DEF Next

-----------------------------------------------------------------------------
(* How much is stored *)

\* An allowance is a number.
LEMMA AllowanceType ==
  ASSUME TypeOK
  PROVE  /\ Allowance \in Nat
         /\ UNCHANGED lost => Allowance' = Allowance
         /\ lost' = lost + 1 => Allowance' = Allowance + (UB_PACKETLEN + 2)
<1>1. lost \in Nat /\ UB_PACKETLEN \in Nat
  BY Sizes DEF TypeOK
<1>2. \A n \in Nat : n * (UB_PACKETLEN + 2) \in Nat
  BY <1>1
<1>3. (lost + 1) * (UB_PACKETLEN + 2) = lost * (UB_PACKETLEN + 2) + (UB_PACKETLEN + 2)
  BY <1>1
<1> QED BY <1>1, <1>2, <1>3 DEF Allowance

\* What is stored is a number.
LEMMA StoredType ==
  ASSUME TypeOK
  PROVE  /\ Stored \in Int /\ Stored >= -1
         /\ Running => Stored = fill
         /\ SERIAL_BUFFERLEN \in Nat
BY Sizes DEF TypeOK, Stored, Running

\* What a byte does to the receiver, whatever it is.
LEMMA ReceivesByte ==
  ASSUME TypeOK, Running, NEW b, serial_in(b)
  PROVE  /\ Escapes(b) => escaped' /\ Stored' = Stored
         /\ Starts(b) => ~escaped' /\ Stored' = 0
         /\ Ends(b) => ~escaped' /\ Stored' = -1
         /\ ~Escapes(b) /\ ~Starts(b) /\ ~Ends(b) =>
              /\ ~escaped'
              /\ Stored >= 0 => Stored' = Stored + 1
              /\ Stored < 0 => Stored' = Stored
<1> USE DistinctBytes, StoredType DEF Distinct, Escapes, Starts, Ends
<1>1. CASE Escape(b)
  BY <1>1 DEF Escape, Stored
<1>2. CASE Start(b)
  BY <1>2 DEF Start, Stored, Running
<1>3. CASE End(b)
  BY <1>3 DEF End, Returns, Stored, Running
<1>4. CASE Store(b)
  BY <1>4 DEF Store, Stored, TypeOK
<1> QED BY <1>1, <1>2, <1>3, <1>4 DEF serial_in

\* What a byte does to the sender, whether it arrives or not.
LEMMA SendsByte ==
  ASSUME TypeOK, SenderOK, serial_putc
  PROVE  /\ pc # "idle" /\ out' = out
         /\ pc = "escape" => pc' = "start"
         /\ pc = "start" => pc' = "data" /\ i' = 1 /\ ~doubled'
         /\ pc = "data" /\ Doubles => pc' = "data" /\ i' = i /\ doubled' /\ ~doubled
         /\ pc = "data" /\ AtEnd => pc' = "stop" /\ i' = i /\ i = Len(out) + 1 /\ ~doubled
         /\ pc = "data" /\ ~Doubles /\ ~AtEnd => pc' = "data" /\ i' = i + 1 /\ ~doubled'
         /\ pc = "stop" => pc' = "idle"
<1> USE DEF serial_putc
<1>1. Len(out) \in Nat /\ i \in 1..Len(out) + 1 /\ doubled \in BOOLEAN
  BY MessageType DEF TypeOK
<1>2. CASE pc \in {"escape", "start", "stop"}
  BY <1>2 DEF Doubles, AtEnd, SenderOK
<1>3. CASE pc = "data" /\ Doubles
  <2>1. ~AtEnd /\ ~doubled
    BY <1>1, <1>3 DEF Doubles, AtEnd
  <2> QED BY <1>3, <2>1
<1>4. CASE pc = "data" /\ AtEnd
  <2>1. ~Doubles /\ i = Len(out) + 1 /\ ~doubled
    BY <1>1, <1>4 DEF Doubles, AtEnd, SenderOK
  <2> QED BY <1>4, <2>1
<1>5. CASE pc = "data" /\ ~Doubles /\ ~AtEnd
  BY <1>5
<1> QED BY <1>2, <1>3, <1>4, <1>5 DEF TypeOK, Part

\* What is stored of a frame whose bytes arrive, whatever was stored before.
LEMMA JoinedStep == TypeOK /\ SenderOK /\ InStep /\ Joined /\ [Next]_vars => Joined'
<1> SUFFICES ASSUME TypeOK, SenderOK, InStep, Joined, [Next]_vars, intact', Running'
             PROVE  /\ pc' = "start" /\ ~escaped' => fill' # 0
                    /\ pc' \in {"data", "stop"} => Prefix' \/ fill' = -1 \/ fill' >= 2
    BY DEF Joined
<1>1. ASSUME NEW m \in Messages, Begin(m)
      PROVE  pc' = "escape"
  BY <1>1 DEF Begin
<1>2. CASE Receive
  <2>1. /\ intact /\ Running /\ out' = out /\ serial_putc /\ serial_in(NextByte)
        /\ out \in Seq(Byte) /\ Len(out) \in Nat /\ i \in 1..Len(out) + 1
        /\ buffer \in Seq(Byte) /\ NextByte \in Byte /\ pc # "idle"
        /\ fill \in Int /\ fill >= -1 /\ (fill >= 0 => fill = Len(buffer))
    BY <1>2, MessageType, NextByteType, Sizes DEF Receive, serial_putc, history, TypeOK
  <2>2. CASE pc = "escape"
    <3>1. pc' = "start" /\ NextByte = SERIAL_ESCAPE
      BY <2>1, <2>2, SendsByte, NextByteIs
    <3>2. escaped' \/ fill' # 0
      BY <2>1, <3>1, DistinctBytes
         DEF Distinct, serial_in, Escape, Start, End, Store, Escapes, Starts, Ends, Running
    <3> QED BY <3>1, <3>2
  <2>3. CASE pc = "start"
    <3>1. pc' = "data" /\ i' = 1 /\ NextByte = SERIAL_START
      BY <2>1, <2>3, SendsByte, NextByteIs
    <3>2. CASE escaped
      <4>1. fill' = 0
        BY <2>1, <3>1, <3>2, DistinctBytes
           DEF Distinct, serial_in, Escape, Start, End, Store, Escapes, Starts, Ends
      <4> QED BY <3>1, <4>1 DEF Prefix
    <3>3. CASE ~escaped
      <4>1. fill # 0
        BY <2>1, <2>3, <3>3 DEF Joined
      <4>2. Store(NextByte)
        BY <2>1, <3>1, <3>3, DistinctBytes
           DEF Distinct, serial_in, Escape, Start, End, Escapes, Starts, Ends
      <4>3. fill' = -1 \/ fill' >= 2
        BY <2>1, <4>1, <4>2 DEF Store, Running
      <4> QED BY <3>1, <4>3
    <3> QED BY <3>2, <3>3
  <2>4. CASE pc = "data" /\ ~Doubles /\ ~AtEnd
    <3>1. Store(NextByte) /\ NextByte = out[i] /\ pc' = "data" /\ i' = i + 1
      BY <2>1, <2>4, InStepReceives, NextByteIs, SendsByte
    <3>2. \/ fill = -1 /\ fill' = -1
          \/ fill >= 0 /\ fill' = fill + 1 /\ buffer' = Append(buffer, out[i])
      BY <2>1, <3>1 DEF Store, Running
    <3>3. ASSUME Prefix, fill >= 0 PROVE Prefix'
      <4>1. \A j \in 1..Len(buffer) : Append(buffer, out[i])[j] = buffer[j]
        BY <2>1, <3>1, AppendProperties
      <4>2. Append(buffer, out[i])[Len(buffer) + 1] = out[i]
        BY <2>1, <3>1, AppendProperties
      <4>3. fill = i - 1 /\ \A k \in 1..i - 1 : buffer[k] = out[k]
        BY <3>3 DEF Prefix
      <4>4. fill' = i' - 1 /\ buffer' = Append(buffer, out[i]) /\ Len(buffer) = i - 1
        BY <2>1, <3>1, <3>2, <3>3, <4>3
      <4>5. ASSUME NEW k \in 1..i' - 1 PROVE buffer'[k] = out'[k]
        <5>1. CASE k \in 1..i - 1
          BY <2>1, <4>1, <4>3, <4>4, <5>1
        <5>2. CASE k = i
          BY <2>1, <4>2, <4>4, <5>2
        <5> QED BY <2>1, <3>1, <5>1, <5>2
      <4> QED BY <4>4, <4>5 DEF Prefix
    <3>4. Prefix \/ fill = -1 \/ fill >= 2
      BY <2>1, <2>4 DEF Joined
    <3> QED BY <2>1, <3>1, <3>2, <3>3, <3>4
  <2>5. CASE pc = "data" /\ (Doubles \/ AtEnd)
    <3>1. Escape(NextByte) /\ i' = i
      BY <2>1, <2>5, InStepReceives, SendsByte
    <3>2. UNCHANGED <<fill, buffer>>
      BY <3>1 DEF Escape
    <3>3. Prefix \/ fill = -1 \/ fill >= 2
      BY <2>1, <2>5 DEF Joined
    <3>4. pc' \in {"data", "stop"}
      BY <2>1, <2>5, SendsByte
    <3> QED BY <2>1, <3>1, <3>2, <3>3, <3>4 DEF Prefix
  <2>6. CASE pc = "stop"
    BY <2>1, <2>6, SendsByte
  <2> QED BY <2>1, <2>2, <2>3, <2>4, <2>5, <2>6 DEF TypeOK, Part
<1>3. CASE Lose
  BY <1>3 DEF Lose
<1>4. CASE BridgeHears \/ UNCHANGED vars
  <2>1. UNCHANGED <<pc, out, i, escaped, fill, buffer, rx, intact>>
    BY <1>4 DEF BridgeHears, vars, sender, receiver, history
  <2>2. intact /\ Running
    BY <2>1 DEF Running
  <2> QED BY <2>1, <2>2 DEF Joined, Prefix
<1> QED BY <1>1, <1>2, <1>3, <1>4 DEF Next

\* A byte that arrives stays within the allowance.
LEMMA FilledReceive ==
  ASSUME TypeOK, SenderOK, Filled, Receive, Stored' >= 0
  PROVE  Filled'
<1> USE DEF Filled
<1>1. /\ Len(out) \in Nat /\ Len(out) <= UB_PACKETLEN /\ i \in 1..Len(out) + 1
      /\ UB_PACKETLEN \in Nat /\ out' = out
      /\ Allowance \in Nat /\ Allowance' = Allowance /\ pc # "idle"
      /\ doubled \in BOOLEAN /\ escaped \in BOOLEAN
      /\ Stored \in Int /\ Stored >= -1
  BY MessageType, Sizes, AllowanceType, StoredType
     DEF TypeOK, Receive, serial_putc, history
<1>2. serial_putc
  BY DEF Receive
<1>3. /\ Escapes(NextByte) => escaped' /\ Stored' = Stored
      /\ Starts(NextByte) => ~escaped' /\ Stored' = 0
      /\ Ends(NextByte) => ~escaped' /\ Stored' = -1
      /\ ~Escapes(NextByte) /\ ~Starts(NextByte) /\ ~Ends(NextByte) =>
           /\ ~escaped'
           /\ Stored >= 0 => Stored' = Stored + 1
           /\ Stored < 0 => Stored' = Stored
  BY ReceivesByte DEF Receive
<1>4. NextByte = SERIAL_ESCAPE => (Escapes(NextByte) <=> ~escaped)
        /\ ~Starts(NextByte) /\ ~Ends(NextByte)
  BY DistinctBytes DEF Distinct, Escapes, Starts, Ends
<1>5. CASE pc = "escape"
  BY <1>1, <1>2, SendsByte, <1>3, <1>4, <1>5, NextByteIs
<1>6. CASE pc = "start"
  <2>1. escaped => Starts(NextByte)
    BY <1>6, NextByteIs DEF Starts
  <2>2. ~escaped => ~Escapes(NextByte) /\ ~Starts(NextByte) /\ ~Ends(NextByte)
    BY <1>6, NextByteIs, DistinctBytes DEF Distinct, Escapes, Starts, Ends
  <2> QED BY <1>1, <1>2, SendsByte, <1>3, <1>6, <2>1, <2>2
<1>7. CASE pc = "data" /\ Doubles
  BY <1>1, <1>2, SendsByte, <1>3, <1>4, <1>7, NextByteIs
<1>8. CASE pc = "data" /\ AtEnd
  BY <1>1, <1>2, SendsByte, <1>3, <1>4, <1>8, NextByteIs
<1>9. CASE pc = "data" /\ ~Doubles /\ ~AtEnd
  <2>1. CASE doubled
    <3>1. NextByte = SERIAL_ESCAPE
      BY <1>9, <2>1, NextByteIs
    <3> QED BY <1>1, <1>2, SendsByte, <1>3, <1>4, <1>9, <2>1, <3>1
  <2>2. CASE ~doubled
    <3>1. ~Escapes(NextByte)
      BY <1>9, <2>2, NextByteIs DEF Escapes
    <3> QED BY <1>1, <1>2, SendsByte, <1>3, <1>9, <2>2, <3>1
  <2> QED BY <2>1, <2>2
<1>10. CASE pc = "stop"
  <2>1. escaped => Ends(NextByte)
    BY <1>10, NextByteIs DEF Ends
  <2>2. ~escaped => ~Escapes(NextByte) /\ ~Starts(NextByte) /\ ~Ends(NextByte)
    BY <1>10, NextByteIs, DistinctBytes DEF Distinct, Escapes, Starts, Ends
  <2> QED BY <1>1, <1>2, SendsByte, <1>3, <1>10, <2>1, <2>2
<1> QED BY <1>1, <1>5, <1>6, <1>7, <1>8, <1>9, <1>10 DEF TypeOK, Part

\* Every step stays within the allowance.
LEMMA FilledStep == TypeOK /\ SenderOK /\ Filled /\ [Next]_vars => Filled'
<1> SUFFICES ASSUME TypeOK, SenderOK, Filled, [Next]_vars PROVE Filled'
    OBVIOUS
<1> USE DEF Filled
<1>1. /\ Len(out) \in Nat /\ Len(out) <= UB_PACKETLEN /\ i \in 1..Len(out) + 1
      /\ UB_PACKETLEN \in Nat /\ Allowance \in Nat
      /\ Stored \in Int /\ Stored >= -1
  BY MessageType, Sizes, AllowanceType, StoredType DEF TypeOK
<1>2. ASSUME NEW m \in Messages, Begin(m) PROVE Filled'
  <2>1. pc = "idle" /\ pc' = "escape" /\ Allowance' = Allowance /\ Stored' = Stored
        /\ escaped' = escaped
    BY <1>2, AllowanceType DEF Begin, Stored
  <2> QED BY <1>1, <2>1
<1>3. CASE Receive
  BY <1>3, FilledReceive
<1>4. CASE Lose
  <2>1. /\ Allowance' = Allowance + (UB_PACKETLEN + 2)
        /\ Stored' = Stored /\ escaped' = escaped /\ out' = out /\ pc # "idle"
        /\ doubled \in BOOLEAN /\ escaped \in BOOLEAN
    BY <1>4, AllowanceType DEF Lose, Stored, serial_putc, TypeOK
  <2>2. serial_putc
    BY <1>4 DEF Lose
  <2>3. CASE pc = "escape" \/ pc = "stop"
    BY <1>1, <2>1, <2>2, SendsByte, <2>3
  <2>4. CASE pc = "start"
    BY <1>1, <2>1, <2>2, SendsByte, <2>4
  <2>5. CASE pc = "data" /\ Doubles
    BY <1>1, <2>1, <2>2, SendsByte, <2>5
  <2>6. CASE pc = "data" /\ AtEnd
    BY <1>1, <2>1, <2>2, SendsByte, <2>6
  <2>7. CASE pc = "data" /\ ~Doubles /\ ~AtEnd
    BY <1>1, <2>1, <2>2, SendsByte, <2>7
  <2> QED BY <2>1, <2>3, <2>4, <2>5, <2>6, <2>7 DEF TypeOK, Part
<1>5. CASE BridgeHears \/ UNCHANGED vars
  <2>1. UNCHANGED <<pc, out, i, doubled, escaped, fill, rx, lost>>
    BY <1>5 DEF BridgeHears, vars, sender, receiver, history
  <2> QED BY <2>1 DEF Stored, Allowance
<1> QED BY <1>2, SendsByte, <1>3, <1>4, <1>5 DEF Next

-----------------------------------------------------------------------------
\* Nothing is stored before the first START.
LEMMA InitInv == Init => SInv
<1> SUFFICES ASSUME Init PROVE SInv
    OBVIOUS
<1>1. TypeOK
  <2>1. Switched \in Seq(Byte) /\ <<>> \in Seq(Byte) /\ SERIAL_BUFFERLEN \in Nat
    BY Sizes, EmptySeq, MessageType
  <2>2. lost \in Nat /\ frames \in Nat /\ intact \in BOOLEAN /\ synced \in BOOLEAN
    BY DEF Init
  <2>3. fill \in -1..SERIAL_BUFFERLEN /\ (fill >= 0 => fill = Len(buffer))
    BY <2>1 DEF Init
  <2>4. /\ pc \in Part /\ out \in Messages /\ i \in 1..Len(out) + 1
        /\ doubled \in BOOLEAN /\ escaped \in BOOLEAN
    BY DEF Init
  <2>5. /\ heard \in {"no", "yes", "answered"}
        /\ rx \in {"switch", "read", "exit", "overrun"}
    BY DEF Init
  <2>6. buffer \in Seq(Byte) /\ msg \in Seq(Byte) \cup {NULL}
    BY <2>1 DEF Init
  <2> QED BY <2>2, <2>3, <2>4, <2>5, <2>6 DEF TypeOK
<1>2. SenderOK
  BY DEF Init, SenderOK
<1>3. ASSUME intact PROVE pc \in {"idle", "escape"} /\ lost = 0 /\ synced
  <2>1. lost = 0 /\ synced
    BY <1>3, Zenon DEF Init
  <2>2. pc \in {"idle", "escape"}
    BY <2>1 DEF Init
  <2> QED BY <2>1, <2>2
<1>4. InStep
  BY <1>3 DEF Init, InStep
<1>5. Copied
  BY <1>3 DEF Init, Copied, Running
<1>6. Answered
  BY DEF Init, Answered
<1>7. Filled
  BY DEF Init, Filled, Stored
<1>8. Joined
  BY <1>3 DEF Init, Joined
<1> QED BY <1>1, <1>2, <1>4, <1>5, <1>6, <1>7, <1>8 DEF SInv

\* SInv is inductive.
THEOREM SerialInvariance == Spec => []SInv
<1>1. Init => SInv
  BY InitInv
<1>2. SInv /\ [Next]_vars => SInv'
  BY TypeStep, SenderStep, InStepStep, CopiedStep, JoinedStep,
     AnsweredStep, FilledStep DEF SInv
<1> QED BY <1>1, <1>2, PTL DEF Spec

\* Sender, receiver and buffer keep their types: nothing is stored past the
\* end of the buffer, which serial_in would do next at "overrun".
THEOREM SerialTyped == Spec => []TypeOK
<1>1. SInv => TypeOK
  BY DEF SInv
<1> QED BY <1>1, SerialInvariance, PTL

\* serial_readMessage returns what serial_writeMessage was given, for messages
\* of any bytes and any length up to UB_PACKETLEN.
THEOREM WholeFrames == Spec => []WholeFrameReturned
<1>1. SInv => WholeFrameReturned
  BY DEF SInv, Copied, WholeFrameReturned
<1> QED BY <1>1, SerialInvariance, PTL

\* serial_switch waits for the answer of the bridge: no other frame that arrives
\* whole is taken for it, whatever was lost before.
THEOREM AnswerSwitches == Spec => SwitchedByAnswer
<1>1. SInv /\ [Next]_vars =>
        [rx = "switch" /\ rx' = "read" /\ intact => heard = "answered"]_vars
  <2> SUFFICES ASSUME SInv, [Next]_vars, rx = "switch", rx' = "read", intact
               PROVE  heard = "answered"
    OBVIOUS
  <2>1. TypeOK /\ SenderOK /\ InStep /\ Joined /\ Answered
    BY DEF SInv
  <2>2. Receive
    BY DEF Next, Begin, BridgeHears, Lose, vars, receiver
  <2>3. serial_in(NextByte) /\ pc # "idle" /\ Running
    BY <2>2 DEF Receive, serial_putc
  <2>4. End(NextByte) /\ fill >= 0 /\ IsAnswer(buffer)
    BY <2>3, Zenon DEF serial_in, Escape, Start, Store, End, Returns
  <2>5. pc = "stop"
    <3>1. Ends(NextByte)
      BY <2>4 DEF End
    <3>2. pc = "escape" => NextByte = SERIAL_ESCAPE
      BY <2>1, NextByteIs
    <3>3. pc = "start" => NextByte = SERIAL_START
      BY <2>1, NextByteIs
    <3>4. pc # "data"
      BY <2>1, <2>3, <3>1, InStepReceives, DistinctBytes
         DEF Store, Escape, Escapes, Ends, Distinct
    <3> QED BY <2>1, <2>3, <3>1, <3>2, <3>3, <3>4, DistinctBytes DEF Ends, Distinct, TypeOK, Part
  <2>6. Len(buffer) = 1 /\ fill = Len(buffer) /\ buffer = Switched
    BY <2>1, <2>4 DEF IsAnswer, Switched, TypeOK
  <2>7. Prefix
    BY <2>1, <2>3, <2>5, <2>6 DEF Joined
  <2>8. out = buffer
    <3>1. /\ out \in Seq(Byte) /\ Len(out) \in Nat /\ buffer \in Seq(Byte)
          /\ i = Len(out) + 1
      BY <2>1, <2>5, MessageType DEF TypeOK, SenderOK
    <3> QED BY <2>6, <2>7, <3>1, SeqEqual DEF Prefix
  <2> QED BY <2>1, <2>6, <2>8 DEF Answered
<1> QED BY <1>1, SerialInvariance, PTL DEF Spec, SwitchedByAnswer

\* The daemon ends itself for no frame that arrives whole, and a buffer of
\* SERIAL_BUFFERLEN bytes takes as many joined frames as bytes were lost.
THEOREM FillBounded == Spec => []FillBound
<1>1. SInv => FillBound
  <2> SUFFICES ASSUME SInv PROVE FillBound
      OBVIOUS
  <2>1. /\ Len(out) \in Nat /\ Len(out) <= UB_PACKETLEN /\ i \in 1..Len(out) + 1
        /\ UB_PACKETLEN \in Nat /\ Allowance \in Nat
        /\ Stored \in Int /\ Stored >= -1
        /\ escaped \in BOOLEAN /\ doubled \in BOOLEAN /\ pc \in Part
    BY MessageType, Sizes, AllowanceType, StoredType DEF SInv, TypeOK
  <2>2. rx = "exit" => lost > 0
    BY DEF SInv, TypeOK, Answered, Copied, Running
  <2>3. Stored <= UB_PACKETLEN + Allowance
    BY <2>1 DEF SInv, Filled, Part
  <2> QED BY <2>2, <2>3 DEF FillBound, Stored, Allowance
<1> QED BY <1>1, SerialInvariance, PTL
=============================================================================
