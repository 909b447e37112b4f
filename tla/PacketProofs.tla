---------------------------- MODULE PacketProofs ----------------------------
(***************************************************************************)
(* Proofs about the packet layer, for any number of clients, nodes,        *)
(* messages and packets.                                                   *)
(***************************************************************************)
EXTENDS PacketService, SeqFilterProofs, FiniteSetTheorems, FunctionTheorems, TLAPS

(* TInv is inductive: type correctness. *)

\* Nothing is queued.
LEMMA TInvInit == Init => TInv
  BY PacketAssumption
     DEF Init, TInv, TypeOK, Plain, Message, Paired, StatusFor, PacketStream,
         Stream, Callback, IsStatus

\* The main loop keeps the types.
LEMMA TInvMainLoop == ASSUME TInv, MainLoop PROVE TInv'
<1> USE PacketAssumption
<1>1. /\ packet_out' \in Seq(Message)
      /\ idle' \in Seq(PacketStream)
      /\ posts' \in 0..MaxPosts
      /\ asked' \in [Clients -> Nat]
      /\ answered' \in [Clients -> Nat]
  <2>1. ASSUME NEW c \in Clients, NEW n \in Nodes, packet_streamPacket(c, n)
        PROVE  <1>1!:
    <3>1. [n |-> n, data |-> c] \in Message
      BY DEF Message
    <3>2. packet_out' \in Seq(Message)
      BY <2>1, <3>1 DEF packet_streamPacket, TInv, TypeOK
    <3>3. posts' \in 0..MaxPosts
      BY <2>1 DEF packet_streamPacket, TInv, TypeOK
    <3>4. asked' \in [Clients -> Nat]
      BY <2>1 DEF packet_streamPacket, TInv, TypeOK
    <3> QED BY <2>1, <3>2, <3>3, <3>4 DEF packet_streamPacket, TInv, TypeOK
  <2>2. ASSUME NEW k \in 0..(MaxPosts - posts), Outpackets(k)
        PROVE  /\ packet_out' \in Seq(Message)
               /\ posts' \in 0..MaxPosts
               /\ asked' = asked
    <3>1. Plain \in Message
      BY DEF Plain, Message
    <3>2. k \in Nat /\ [i \in 1..k |-> Plain] \in Seq(Message)
      BY <3>1 DEF TInv, TypeOK
    <3> QED BY <2>2, <3>2 DEF Outpackets, TInv, TypeOK
  <2>3. CASE packet_outpacket
    BY <2>2, <2>3 DEF packet_outpacket, TInv, TypeOK
  <2>4. CASE packet_inpacket
    <3>1. PICK k \in 0..(MaxPosts - posts) : Outpackets(k)
      BY <2>4 DEF packet_inpacket, TInv, TypeOK
    <3> QED BY <2>2, <2>4, <3>1 DEF packet_inpacket, TInv, TypeOK
  <2> QED BY <2>1, <2>3, <2>4 DEF MainLoop
<1> QED BY <1>1 DEF MainLoop, MainFrame, TInv, TypeOK, next, current, reader, bridge

\* The parts of messages and packets.
LEMMA RecordsTyped ==
  /\ \A type \in {"DONE", "ABORT"}, m \in Message : StatusFor(type, m) \in BridgeMessage
  /\ \A m \in BridgeMessage \cup PacketStream, cb \in Callback, d \in Stream :
       Paired(m, cb, d) \in PacketStream
<1>1. ASSUME NEW type \in {"DONE", "ABORT"}, NEW m \in Message
      PROVE  StatusFor(type, m) \in BridgeMessage
  <2>1. m.data \in Stream
    BY DEF Message, Stream
  <2> QED BY <2>1 DEF StatusFor, BridgeMessage, Stream
<1>2. ASSUME NEW m \in BridgeMessage \cup PacketStream, NEW cb \in Callback,
             NEW d \in Stream
      PROVE  Paired(m, cb, d) \in PacketStream
  BY <1>2 DEF Paired, BridgeMessage, PacketStream, Stream
<1> QED BY <1>1, <1>2

\* The writer keeps the types.
LEMMA TInvWriter == ASSUME TInv, Writer PROVE TInv'
<1> USE PacketAssumption DEF TInv, Writer, queues, next, current, reader
<1>1. wmsg.n \in Nodes \cup {NULL} /\ wmsg.data \in Stream
  BY DEF TypeOK, Message, Stream
<1>2. CASE WriterPop
  <2>1. Head(packet_out) \in Message /\ Tail(packet_out) \in Seq(Message)
    BY <1>2 DEF WriterPop, TypeOK
  <2>2. Head(packet_out).n \in Nodes \cup {NULL}
    BY <2>1 DEF Message
  <2> QED BY <1>2, <2>1, <2>2 DEF WriterPop, TypeOK
<1>3. CASE WriterCallback
  BY <1>1, <1>3 DEF WriterCallback, TypeOK, Callback
<1>4. CASE WriterData
  BY <1>1, <1>4 DEF WriterData, TypeOK
<1>5. CASE WriterWrite
  BY <1>5 DEF WriterWrite, TypeOK
<1>6. CASE WriterStatus
  BY <1>6 DEF WriterStatus, TypeOK
<1>7. CASE WriterTimeout
  BY <1>7 DEF WriterTimeout, AfterTimeout, TypeOK
<1>8. CASE WriterAbort
  <2>1. StatusFor("ABORT", wmsg) \in BridgeMessage
    BY RecordsTyped DEF TypeOK
  <2>2. nextcallback[nextnode] \in Callback /\ nextdata[nextnode] \in Stream
    BY <1>1, <1>8 DEF WriterAbort, TypeOK
  <2>3. Paired(StatusFor("ABORT", wmsg), nextcallback[nextnode],
               nextdata[nextnode]) \in PacketStream
    BY <2>1, <2>2, RecordsTyped
  <2> QED BY <1>8, <2>3 DEF WriterAbort, TypeOK
<1>9. CASE WriterClear
  BY <1>9 DEF WriterClear, ClearCallbacks, TypeOK, Callback
<1> QED BY <1>2, <1>3, <1>4, <1>5, <1>6, <1>7, <1>8, <1>9

\* The reader keeps the types.
LEMMA TInvReader == ASSUME TInv, Reader PROVE TInv'
<1> USE PacketAssumption DEF TInv, Reader, queues, next, current, reader
<1>1. ASSUME fromBridge # <<>>
      PROVE  /\ Head(fromBridge) \in BridgeMessage
             /\ Tail(fromBridge) \in Seq(BridgeMessage)
             /\ Paired(Head(fromBridge), "null", NULL) \in PacketStream
             /\ PairWithNode(Head(fromBridge)) \in PacketStream
  <2>1. Head(fromBridge) \in BridgeMessage /\ Tail(fromBridge) \in Seq(BridgeMessage)
    BY <1>1 DEF TypeOK
  <2>2. "null" \in Callback /\ NULL \in Stream
    BY DEF Callback, Stream
  <2>3. Head(fromBridge).n \in Nodes \cup {NULL}
    BY <2>1 DEF BridgeMessage
  <2>4. Head(fromBridge).n # NULL =>
          /\ currentcallback[Head(fromBridge).n] \in Callback
          /\ currentdata[Head(fromBridge).n] \in Stream
    BY <2>3 DEF TypeOK
  <2> QED BY <2>1, <2>2, <2>4, RecordsTyped DEF PairWithNode
<1>2. CASE ReadPacket
  <2>1. IsStatus(rps') <=> IsStatus(Head(fromBridge))
    BY <1>2 DEF ReadPacket, IsStatus, PairWithNode, Paired
  <2> QED BY <1>1, <1>2, <2>1 DEF ReadPacket, TypeOK
<1>3. CASE ReadStatus
  <2>1. IsStatus(rps') <=> IsStatus(Head(fromBridge))
    BY <1>3 DEF ReadStatus, IsStatus, Paired
  <2> QED BY <1>1, <1>3, <2>1 DEF ReadStatus, TypeOK
<1>4. CASE ReadCallback
  <2>1. nextcallback[nextnode] \in Callback
    BY <1>4 DEF ReadCallback, TypeOK
  <2>2. rps' \in PacketStream /\ rps'.type = rps.type
    BY <1>4, <2>1 DEF ReadCallback, TypeOK, PacketStream
  <2> QED BY <1>4, <2>2 DEF ReadCallback, TypeOK, IsStatus
<1>5. CASE StoreCallback
  <2>1. rps.callback \in Callback
    BY DEF TypeOK, PacketStream
  <2> QED BY <1>5, <2>1 DEF StoreCallback, TypeOK, IsStatus
<1>6. CASE ReadData
  <2>1. AnsweredStream \in Stream
    BY <1>6 DEF ReadData, AnsweredStream, TypeOK
  <2>2. rps' \in PacketStream /\ rps'.type = rps.type
    BY <1>6, <2>1 DEF ReadData, TypeOK, PacketStream
  <2> QED BY <1>6, <2>1, <2>2 DEF ReadData, TypeOK, IsStatus
<1>7. CASE ReaderQueue
  <2>1. rps.type \in {"DONE", "ABORT", "PACKET"}
    BY DEF TypeOK, PacketStream
  <2> QED BY <1>7, <2>1 DEF ReaderQueue, AfterQueue, TypeOK, IsStatus
<1>8. CASE ReaderClear
  BY <1>8 DEF ReaderClear, ClearCallbacks, TypeOK, Callback, IsStatus
<1>9. CASE ReaderPush
  <2>1. rps.type \in {"DONE", "ABORT"}
    BY <1>9 DEF ReaderPush, TypeOK, PacketStream, IsStatus
  <2> QED BY <1>9, <2>1 DEF ReaderPush, TypeOK, IsStatus
<1>10. CASE Segfault
  BY <1>10 DEF Segfault, TypeOK, IsStatus
<1> QED BY <1>2, <1>3, <1>4, <1>5, <1>6, <1>7, <1>8, <1>9, <1>10

\* Bridge and bus keep the types.
LEMMA TInvBridge == ASSUME TInv, Bridge \/ Bus PROVE TInv'
<1> USE PacketAssumption
        DEF TInv, BridgeFrame, queues, next, current, reader
<1>1. ASSUME toBridge # <<>>
      PROVE  /\ Head(toBridge) \in Message /\ Tail(toBridge) \in Seq(Message)
             /\ Head(toBridge).data \in Stream
  BY <1>1 DEF TypeOK, Message, Stream
<1>2. CASE Bridge
  <2>1. CASE BridgeLose
    BY <1>1, <1>2, <2>1 DEF Bridge, BridgeLose, TypeOK
  <2>3. ASSUME NEW m, NEW lost \in BOOLEAN, m.data \in Stream, Acknowledge(m, lost)
        PROVE  acked' \in [Nodes -> Stream] /\ missed' \in [Nodes -> BOOLEAN]
    BY <2>3 DEF Acknowledge, TypeOK
  <2>4. CASE BridgeLoseDone
    BY <1>1, <1>2, <2>3, <2>4 DEF Bridge, BridgeLoseDone, TypeOK
  <2>2. ASSUME NEW type \in {"DONE", "ABORT"}, BridgeAnswer(type) PROVE TInv'
    <3>1. StatusFor(type, Head(toBridge)) \in BridgeMessage
      BY <1>1, <2>2, RecordsTyped DEF BridgeAnswer
    <3>2. fromBridge' \in Seq(BridgeMessage)
      BY <2>2, <3>1 DEF BridgeAnswer, TypeOK
    <3>3. acked' \in [Nodes -> Stream] /\ missed' \in [Nodes -> BOOLEAN]
      BY <1>1, <2>2, <2>3 DEF BridgeAnswer, TypeOK
    <3> QED BY <1>1, <1>2, <2>2, <3>2, <3>3 DEF Bridge, BridgeAnswer, TypeOK
  <2> QED BY <1>2, <2>1, <2>2, <2>4 DEF Bridge
<1>3. CASE Bus
  <2>1. PICK n \in Nodes \cup {NULL}, flags \in SUBSET Flags : NodePacket(n, flags)
    BY <1>3 DEF Bus
  <2>2. (IF n = NULL THEN NULL ELSE acked[n]) \in Stream
    BY <2>1 DEF TypeOK, Stream
  <2>3. [type |-> "PACKET", n |-> n, flags |-> flags,
         to |-> IF n = NULL THEN NULL ELSE acked[n],
         missed |-> n # NULL /\ missed[n]] \in BridgeMessage
    BY <2>1, <2>2 DEF BridgeMessage
  <2>4. fromBridge' \in Seq(BridgeMessage)
    BY <2>1, <2>3 DEF NodePacket, TypeOK
  <2> QED BY <1>3, <2>1, <2>4 DEF Bus, NodePacket, TypeOK
<1> QED BY <1>2, <1>3

\* Every step keeps the types.
LEMMA TInvStep == TInv /\ [Next]_vars => TInv'
<1> SUFFICES ASSUME TInv, [Next]_vars PROVE TInv'
  OBVIOUS
<1>1. CASE UNCHANGED vars
  BY <1>1 DEF vars, queues, next, current, reader, bridge, TInv, TypeOK, IsStatus
<1> QED BY <1>1, TInvMainLoop, TInvWriter, TInvReader, TInvBridge DEF Next, Quiescent

\* The types of the packet layer: among them that only PACKET_DONE and
\* PACKET_ABORT ever reach the writer as statuses.
THEOREM TypeCorrect == Spec => []TypeOK
<1>1. TInv => TypeOK
  BY DEF TInv
<1> QED BY <1>1, TInvInit, TInvStep, PTL DEF Spec

-----------------------------------------------------------------------------
(* Sequences with at most one status. *)

\* No status, with one more message.
LEMMA NoStatusAppend ==
  ASSUME NEW s \in Seq(BridgeMessage), NEW m \in BridgeMessage, NoStatusIn(s)
  PROVE  /\ ~IsStatus(m) => NoStatusIn(Append(s, m))
         /\ IsStatus(m) => OneStatusIn(Append(s, m), m.to)
<1> DEFINE t == Append(s, m)
<1>1. /\ Len(t) = Len(s) + 1 /\ DOMAIN t = 1..Len(s) + 1 /\ DOMAIN s = 1..Len(s)
      /\ Len(s) \in Nat
      /\ \A i \in 1..Len(s) : t[i] = s[i]
      /\ t[Len(s) + 1] = m
  OBVIOUS
<1> HIDE DEF t
<1>2. \A i \in DOMAIN t : i # Len(s) + 1 => ~IsStatus(t[i])
  BY <1>1 DEF NoStatusIn
<1>3. CASE ~IsStatus(m)
  BY <1>1, <1>2, <1>3 DEF NoStatusIn, t
<1>4. CASE IsStatus(m)
  <2>1. Len(s) + 1 \in DOMAIN t /\ IsStatus(t[Len(s) + 1]) /\ t[Len(s) + 1].to = m.to
    BY <1>1, <1>4
  <2> QED BY <1>2, <1>4, <2>1 DEF OneStatusIn, t
<1> QED BY <1>3, <1>4

\* The only status, with one more message.
LEMMA OneStatusAppend ==
  ASSUME NEW s \in Seq(BridgeMessage), NEW m \in BridgeMessage, NEW d,
         OneStatusIn(s, d), ~IsStatus(m)
  PROVE  OneStatusIn(Append(s, m), d)
<1> DEFINE t == Append(s, m)
<1>1. /\ DOMAIN t = 1..Len(s) + 1 /\ DOMAIN s = 1..Len(s) /\ Len(s) \in Nat
      /\ \A i \in 1..Len(s) : t[i] = s[i]
      /\ t[Len(s) + 1] = m
  OBVIOUS
<1> HIDE DEF t
<1>2. PICK i \in DOMAIN s : /\ IsStatus(s[i]) /\ s[i].to = d
                            /\ \A j \in DOMAIN s : IsStatus(s[j]) => j = i
  BY DEF OneStatusIn
<1>3. i \in DOMAIN t /\ IsStatus(t[i]) /\ t[i].to = d
  BY <1>1, <1>2
<1>4. \A j \in DOMAIN t : IsStatus(t[j]) => j = i
  BY <1>1, <1>2
<1> QED BY <1>3, <1>4 DEF OneStatusIn, t

\* No status, with one message less.
LEMMA NoStatusTail ==
  ASSUME NEW s \in Seq(BridgeMessage), s # <<>>, NoStatusIn(s)
  PROVE  ~IsStatus(Head(s)) /\ NoStatusIn(Tail(s))
<1>1. /\ Len(s) \in Nat \ {0} /\ DOMAIN s = 1..Len(s)
      /\ DOMAIN Tail(s) = 1..Len(s) - 1
      /\ \A i \in 1..Len(s) - 1 : Tail(s)[i] = s[i + 1]
      /\ Head(s) = s[1]
  OBVIOUS
<1> QED BY <1>1 DEF NoStatusIn

\* The only status, with one message less.
LEMMA OneStatusTail ==
  ASSUME NEW s \in Seq(BridgeMessage), NEW d, s # <<>>, OneStatusIn(s, d)
  PROVE  /\ IsStatus(Head(s)) => NoStatusIn(Tail(s)) /\ Head(s).to = d
         /\ ~IsStatus(Head(s)) => OneStatusIn(Tail(s), d)
<1>1. /\ Len(s) \in Nat \ {0} /\ DOMAIN s = 1..Len(s)
      /\ DOMAIN Tail(s) = 1..Len(s) - 1
      /\ \A i \in 1..Len(s) - 1 : Tail(s)[i] = s[i + 1]
      /\ Head(s) = s[1]
  OBVIOUS
<1>2. PICK i \in DOMAIN s : /\ IsStatus(s[i]) /\ s[i].to = d
                            /\ \A j \in DOMAIN s : IsStatus(s[j]) => j = i
  BY DEF OneStatusIn
<1>3. CASE IsStatus(Head(s))
  <2>1. i = 1
    BY <1>1, <1>2, <1>3
  <2>2. NoStatusIn(Tail(s))
    BY <1>1, <1>2, <2>1 DEF NoStatusIn
  <2> QED BY <1>1, <1>2, <1>3, <2>1, <2>2
<1>4. CASE ~IsStatus(Head(s))
  <2>1. i - 1 \in DOMAIN Tail(s) /\ Tail(s)[i - 1] = s[i]
    BY <1>1, <1>2, <1>4
  <2>2. \A j \in DOMAIN Tail(s) : IsStatus(Tail(s)[j]) => j = i - 1
    BY <1>1, <1>2
  <2>3. OneStatusIn(Tail(s), d)
    BY <1>2, <2>1, <2>2 DEF OneStatusIn
  <2> QED BY <1>4, <2>3
<1> QED BY <1>3, <1>4

\* The idle sources, with one more.
LEMMA AnswersMatchAppend ==
  ASSUME NEW m \in PacketStream, TypeOK, AnswersMatch, idle' = Append(idle, m),
         IsStatus(m) => m.callback = "tcp_reply" /\ m.data = m.to
  PROVE  AnswersMatch'
<1>1. /\ DOMAIN idle' = 1..Len(idle) + 1 /\ DOMAIN idle = 1..Len(idle)
      /\ Len(idle) \in Nat
      /\ \A i \in 1..Len(idle) : idle'[i] = idle[i]
      /\ idle'[Len(idle) + 1] = m
  BY DEF TypeOK
<1> QED BY <1>1 DEF AnswersMatch, IsStatus

-----------------------------------------------------------------------------
(* The handshake between the writer, the bridge and the reader. *)

\* The writer waits for nothing.
LEMMA HandshakeInit == Init => Handshake
  BY DEF Init, Handshake, Lost, ReadingStatus, NoStatusIn, FieldsMatch, CallbackSet,
         AnswersMatch, Plain

\* The main loop does not touch what the threads share.
LEMMA HandshakeMainLoop == ASSUME TInv, Handshake, MainLoop PROVE Handshake'
<1>1. AnswersMatch'
  <2>1. CASE idle' = idle
    BY <2>1 DEF AnswersMatch, Handshake, IsStatus
  <2>2. CASE idle # <<>> /\ idle' = Tail(idle)
    <3>1. /\ Len(idle) \in Nat \ {0} /\ DOMAIN idle = 1..Len(idle)
          /\ DOMAIN idle' = 1..Len(idle) - 1
          /\ \A i \in 1..Len(idle) - 1 : idle'[i] = idle[i + 1]
      BY <2>2 DEF TInv, TypeOK
    <3> QED BY <3>1 DEF AnswersMatch, Handshake, IsStatus
  <2> QED BY <2>1, <2>2 DEF MainLoop, packet_streamPacket, packet_outpacket,
                            packet_inpacket
<1>2. UNCHANGED <<packet_status, nextcallback, nextdata, wpc, wmsg, rpc, rps,
                  toBridge, fromBridge>>
  BY DEF MainLoop, MainFrame, next, reader, bridge
<1>3. (OneStatus <=> OneStatus') /\ (Lost <=> Lost') /\ (FieldsMatch <=> FieldsMatch')
  BY <1>2 DEF OneStatus, Lost, Unanswered, OnTheLine, BeingRead, Queued,
              FieldsMatch, CallbackSet, CallbackRead,
              DataRead, ReadingStatus, NoStatusIn, OneStatusIn, IsStatus
<1> QED BY <1>1, <1>2, <1>3 DEF Handshake

\* The writer stores the fields of a message before it writes it.
LEMMA HandshakeWriter ==
  ASSUME TInv, TInv', Handshake, Writer, Calm'
  PROVE  Handshake'
<1> USE DEF Writer, reader
<1>1. UNCHANGED <<rpc, rps, fromBridge>>
  OBVIOUS
<1>2. ReadingStatus' = ReadingStatus /\ NoStatusIn(fromBridge)' = NoStatusIn(fromBridge)
  BY <1>1 DEF ReadingStatus, NoStatusIn, IsStatus
<1>3. idle' = idle => AnswersMatch'
  BY DEF AnswersMatch, Handshake, IsStatus
<1>4. CASE WriterPop
  <2>1. Lost /\ Lost' /\ wpc' \in {"write", "callback"}
    BY <1>2, <1>4 DEF WriterPop, ReadyToPop, Handshake, Lost
  <2>2. FieldsMatch'
    BY <1>4 DEF WriterPop, FieldsMatch, CallbackSet
  <2> QED BY <1>1, <1>3, <1>4, <2>1, <2>2 DEF WriterPop, Handshake
<1>5. CASE WriterCallback
  <2>1. Lost /\ Lost' /\ wpc' = "data"
    BY <1>2, <1>5 DEF WriterCallback, Handshake, Lost, queues
  <2>2. FieldsMatch'
    BY <1>5 DEF WriterCallback, FieldsMatch, CallbackSet, TInv, TypeOK, Message
  <2> QED BY <1>1, <1>3, <1>5, <2>1, <2>2 DEF WriterCallback, Handshake, queues
<1>6. CASE WriterData
  <2>1. Lost /\ Lost' /\ wpc' = "write"
    BY <1>2, <1>6 DEF WriterData, Handshake, Lost, queues
  <2>2. FieldsMatch'
    BY <1>6 DEF WriterData, Handshake, FieldsMatch, CallbackSet, TInv, TypeOK, Message
  <2> QED BY <1>1, <1>3, <1>6, <2>1, <2>2 DEF WriterData, Handshake, queues
<1>7. CASE WriterWrite
  <2>1. Lost /\ wpc' = "wait"
    BY <1>7 DEF WriterWrite, Handshake
  <2>2. Unanswered'
    BY <1>2, <1>7, <2>1 DEF WriterWrite, Lost, Unanswered, queues
  <2>3. FieldsMatch'
    BY <1>7, <2>1 DEF WriterWrite, Handshake, Lost, FieldsMatch, CallbackSet, next
  <2> QED BY <1>1, <1>3, <1>7, <2>1, <2>2, <2>3
          DEF WriterWrite, Handshake, OneStatus, queues
<1>8. CASE WriterStatus
  <2>1. Queued
    BY <1>8 DEF WriterStatus, Handshake, OneStatus, Lost, Unanswered, OnTheLine,
                BeingRead
  <2>2. packet_status' = <<>>
    <3>1. packet_status \in Seq({"DONE", "ABORT"}) /\ Len(packet_status) = 1
          /\ packet_status' = Tail(packet_status)
      BY <1>8, <2>1 DEF WriterStatus, Queued, TInv, TypeOK
    <3>2. packet_status' \in Seq({"DONE", "ABORT"}) /\ Len(packet_status') = 0
      BY <3>1
    <3> QED BY <3>2
  <2>3. Lost' /\ wpc' = "pop"
    BY <1>2, <1>8, <2>1, <2>2 DEF WriterStatus, Queued, Lost
  <2>4. FieldsMatch'
    BY <2>3 DEF FieldsMatch, CallbackSet
  <2> QED BY <1>1, <1>3, <1>8, <2>3, <2>4 DEF WriterStatus, Handshake
<1>9. CASE WriterTimeout
  <2>1. ~LateAnswers
    BY <1>9 DEF WriterTimeout, Calm, TInv, TypeOK
  <2>2. toBridge = <<>> /\ NoStatusIn(fromBridge) /\ ~ReadingStatus
        /\ packet_status = <<>>
    BY <1>9, <2>1 DEF WriterTimeout, TimedOut, StatusUnderway, NoStatusIn
  <2>3. Lost' /\ wpc' \in {"pop", "abort"} /\ wpc = "wait"
    BY <1>2, <1>9, <2>2 DEF WriterTimeout, AfterTimeout, Lost, queues
  <2>4. FieldsMatch'
    BY <1>9, <2>2, <2>3 DEF WriterTimeout, Handshake, FieldsMatch, CallbackSet, next
  <2> QED BY <1>1, <1>3, <1>9, <2>3, <2>4 DEF WriterTimeout, Handshake, queues
<1>10. CASE WriterAbort
  <2>1. Lost /\ Lost' /\ wpc' = "clear"
    BY <1>2, <1>10 DEF WriterAbort, Handshake, Lost
  <2>2. nextcallback[nextnode] = "tcp_reply" /\ nextdata[nextnode] = wmsg.data
    BY <1>10 DEF WriterAbort, Handshake, FieldsMatch, CallbackSet, TInv
  <2> DEFINE ps == Paired(StatusFor("ABORT", wmsg), nextcallback[nextnode],
                          nextdata[nextnode])
  <2>3. ps.callback = "tcp_reply" /\ ps.data = ps.to
    BY <2>2 DEF Paired, StatusFor
  <2>4. ps \in PacketStream
    <3>1. StatusFor("ABORT", wmsg) \in BridgeMessage
      BY RecordsTyped DEF TInv, TypeOK
    <3>2. wmsg.data \in Stream /\ "tcp_reply" \in Callback
      BY DEF TInv, TypeOK, Message, Stream, Callback
    <3> QED BY <2>2, <3>1, <3>2, RecordsTyped
  <2>5. idle' = Append(idle, ps)
    BY <1>10 DEF WriterAbort
  <2> HIDE DEF ps
  <2>6. AnswersMatch'
    BY <2>3, <2>4, <2>5, AnswersMatchAppend DEF TInv, Handshake
  <2>7. FieldsMatch'
    BY <2>1 DEF FieldsMatch, CallbackSet
  <2> QED BY <1>1, <2>1, <2>6, <2>7 DEF Handshake
<1>11. CASE WriterClear
  <2>1. Lost /\ Lost' /\ wpc' = "pop"
    BY <1>2, <1>11 DEF WriterClear, Handshake, Lost, queues
  <2>2. FieldsMatch'
    BY <2>1 DEF FieldsMatch, CallbackSet
  <2> QED BY <1>1, <1>3, <1>11, <2>1, <2>2 DEF WriterClear, Handshake, queues
<1> QED BY <1>4, <1>5, <1>6, <1>7, <1>8, <1>9, <1>10, <1>11

\* The reader takes the fields of the message its status answers.
LEMMA HandshakeReader == ASSUME TInv, TInv', Handshake, Reader PROVE Handshake'
<1> USE DEF Reader
<1>1. UNCHANGED <<packet_out, nextnode, nextdata, wpc, wmsg, toBridge>>
  OBVIOUS
<1>2. idle' = idle => AnswersMatch'
  BY DEF AnswersMatch, Handshake, IsStatus
<1>3. CASE ReadPacket
  <2>1. fromBridge \in Seq(BridgeMessage) /\ fromBridge # <<>>
        /\ ~IsStatus(Head(fromBridge)) /\ ~ReadingStatus
    BY <1>3 DEF ReadPacket, TInv, TypeOK, ReadingStatus
  <2>2. ~IsStatus(rps') /\ ~ReadingStatus'
    BY <1>3 DEF ReadPacket, PairWithNode, Paired, IsStatus, ReadingStatus
  <2>3. /\ NoStatusIn(fromBridge) => NoStatusIn(fromBridge')
        /\ \A d : OneStatusIn(fromBridge, d) => OneStatusIn(fromBridge', d)
    BY <1>3, <2>1, NoStatusTail, OneStatusTail DEF ReadPacket
  <2>4. (Lost => Lost') /\ (OneStatus => OneStatus')
    <3>1. UNCHANGED packet_status
      BY <1>3 DEF ReadPacket
    <3>2. NoStatusIn(fromBridge)' = NoStatusIn(fromBridge')
          /\ OneStatusIn(fromBridge, wmsg.data)' = OneStatusIn(fromBridge', wmsg.data)
      BY <1>1 DEF NoStatusIn, OneStatusIn, IsStatus
    <3> QED BY <1>1, <2>1, <2>2, <2>3, <3>1, <3>2
            DEF Lost, OneStatus, Unanswered, OnTheLine, BeingRead, Queued
  <2>5. FieldsMatch'
    BY <1>1, <1>3, <2>1, <2>2 DEF ReadPacket, Handshake, FieldsMatch, CallbackSet
  <2> QED BY <1>1, <1>2, <1>3, <2>4, <2>5 DEF ReadPacket, Handshake
<1>4. CASE ReadStatus
  <2>1. fromBridge \in Seq(BridgeMessage) /\ fromBridge # <<>>
        /\ IsStatus(Head(fromBridge)) /\ ~ReadingStatus
    BY <1>4 DEF ReadStatus, TInv, TypeOK, ReadingStatus
  <2>2. ~NoStatusIn(fromBridge)
    BY <2>1, NoStatusTail
  <2>3. OnTheLine /\ wpc = "wait"
    BY <2>1, <2>2 DEF Handshake, OneStatus, Lost, Unanswered, BeingRead, Queued
  <2>4. NoStatusIn(fromBridge') /\ Head(fromBridge).to = wmsg.data
    BY <1>4, <2>1, <2>3, OneStatusTail DEF ReadStatus, OnTheLine
  <2>5. NoStatusIn(fromBridge)'
    BY <2>4 DEF NoStatusIn, IsStatus
  <2>6. /\ ReadingStatus' /\ rps'.to = wmsg.data /\ rps'.type = Head(fromBridge).type
        /\ rpc' = IF wmsg.n = NULL THEN "push"
                  ELSE IF rps'.type = "DONE" THEN "callback" ELSE "data"
    BY <1>4, <2>1, <2>4 DEF ReadStatus, Paired, ReadingStatus, IsStatus, TInv
  <2>7. BeingRead'
    BY <1>1, <1>4, <2>3, <2>5, <2>6
       DEF ReadStatus, OnTheLine, BeingRead, CallbackRead, DataRead
  <2>8. FieldsMatch'
    BY <1>1, <1>4, <2>1, <2>3 DEF ReadStatus, Handshake, FieldsMatch, CallbackSet
  <2> QED BY <1>1, <1>2, <1>4, <2>3, <2>6, <2>7, <2>8
          DEF ReadStatus, Handshake, OneStatus
<1>5. ReadingStatus => BeingRead /\ wpc = "wait"
  BY DEF Handshake, OneStatus, Lost, Unanswered, OnTheLine, Queued
<1>6. rpc \notin {"read", "queue"} => ReadingStatus
  BY DEF TInv, ReadingStatus
<1>7. ASSUME fromBridge' = fromBridge
      PROVE  NoStatusIn(fromBridge)' = NoStatusIn(fromBridge)
  BY <1>7 DEF NoStatusIn, IsStatus
<1>8. CASE ReadCallback
  <2>1. BeingRead /\ wpc = "wait" /\ nextnode = wmsg.n /\ wmsg.n # NULL
    BY <1>5, <1>6, <1>8 DEF ReadCallback, TInv
  <2>2. nextcallback[nextnode] = "tcp_reply"
    BY <1>5, <1>6, <1>8, <2>1 DEF ReadCallback, BeingRead, Handshake, FieldsMatch,
                                  CallbackSet
  <2>3. /\ rps'.callback = "tcp_reply" /\ rps'.type = rps.type
        /\ rps'.to = rps.to /\ rps'.data = rps.data
        /\ rps.type \in {"DONE", "ABORT", "PACKET"}
    BY <1>8, <2>2 DEF ReadCallback, TInv, TypeOK, PacketStream
  <2>4. BeingRead' /\ ReadingStatus'
    BY <1>1, <1>6, <1>7, <1>8, <2>1, <2>3
       DEF ReadCallback, BeingRead, ReadingStatus, IsStatus, CallbackRead, DataRead
  <2>5. FieldsMatch'
    BY <1>1, <1>6, <1>8, <2>1, <2>4 DEF ReadCallback, Handshake, FieldsMatch, CallbackSet
  <2> QED BY <1>1, <1>2, <1>8, <2>1, <2>4, <2>5 DEF ReadCallback, Handshake, OneStatus
<1>9. CASE StoreCallback
  <2>1. BeingRead /\ wpc = "wait"
    BY <1>5, <1>6, <1>9 DEF StoreCallback
  <2>2. BeingRead' /\ ReadingStatus'
    BY <1>1, <1>6, <1>7, <1>9, <2>1
       DEF StoreCallback, BeingRead, ReadingStatus, IsStatus, CallbackRead, DataRead
  <2>3. FieldsMatch'
    BY <1>1, <1>6, <1>9, <2>1, <2>2 DEF StoreCallback, Handshake, FieldsMatch, CallbackSet
  <2> QED BY <1>1, <1>2, <1>9, <2>1, <2>2, <2>3 DEF StoreCallback, Handshake, OneStatus
<1>10. CASE ReadData
  <2>1. BeingRead /\ wpc = "wait" /\ nextnode = wmsg.n /\ wmsg.n # NULL
    BY <1>5, <1>6, <1>10 DEF ReadData, TInv
  <2>2. AnsweredStream = wmsg.data
    BY <2>1 DEF AnsweredStream, Handshake, FieldsMatch
  <2>3. /\ rps'.data = wmsg.data /\ rps'.type = rps.type
        /\ rps'.to = rps.to /\ rps'.callback = rps.callback
    BY <1>10, <2>2 DEF ReadData, TInv, TypeOK, PacketStream
  <2>4. BeingRead' /\ ReadingStatus'
    BY <1>1, <1>6, <1>7, <1>10, <2>1, <2>3
       DEF ReadData, BeingRead, ReadingStatus, IsStatus, CallbackRead, DataRead
  <2>5. FieldsMatch'
    BY <1>1, <1>6, <1>10, <2>1, <2>4 DEF ReadData, Handshake, FieldsMatch, CallbackSet
  <2> QED BY <1>1, <1>2, <1>10, <2>1, <2>4, <2>5 DEF ReadData, Handshake, OneStatus
<1>11. CASE ReaderQueue
  <2>1. IsStatus(rps) => BeingRead /\ wpc = "wait" /\ rps.callback = "tcp_reply"
                         /\ rps.data = rps.to /\ ReadingStatus
    BY <1>5, <1>11 DEF ReaderQueue, ReadingStatus, BeingRead, CallbackRead, DataRead
  <2>2. AnswersMatch'
    BY <1>11, <2>1, AnswersMatchAppend DEF ReaderQueue, TInv, TypeOK, Handshake
  <2>3. UNCHANGED <<packet_status, nextcallback, rps, fromBridge>>
    BY <1>11 DEF ReaderQueue
  <2>4. CASE IsStatus(rps)
    <3>1. rpc' \in {"push", "clear"} /\ wmsg.n # NULL
      BY <1>11, <2>1, <2>4
         DEF ReaderQueue, AfterQueue, IsStatus, BeingRead, TInv, TypeOK, PacketStream
    <3>2. BeingRead' /\ ReadingStatus'
      BY <1>1, <1>7, <2>1, <2>3, <2>4, <3>1
         DEF BeingRead, ReadingStatus, IsStatus, CallbackRead, DataRead
    <3>3. FieldsMatch'
      BY <1>1, <1>11, <2>1, <2>3, <2>4, <3>1
         DEF ReaderQueue, Handshake, FieldsMatch, CallbackSet
    <3> QED BY <1>1, <2>1, <2>2, <2>4, <3>1, <3>2, <3>3 DEF Handshake, OneStatus
  <2>5. CASE ~IsStatus(rps)
    <3>1. rpc' = "read" /\ ~ReadingStatus /\ ~ReadingStatus'
      BY <1>11, <2>5 DEF ReaderQueue, AfterQueue, IsStatus, ReadingStatus
    <3>2. (Lost => Lost') /\ (OneStatus => OneStatus')
      BY <1>1, <1>7, <2>3, <3>1
         DEF Lost, OneStatus, Unanswered, OnTheLine, BeingRead, Queued, OneStatusIn,
             IsStatus
    <3>3. FieldsMatch'
      BY <1>1, <2>3, <3>1 DEF Handshake, FieldsMatch, CallbackSet
    <3> QED BY <1>1, <2>2, <3>1, <3>2, <3>3 DEF Handshake
  <2> QED BY <2>4, <2>5
<1>12. CASE ReaderClear
  <2>1. BeingRead /\ wpc = "wait"
    BY <1>5, <1>6, <1>12 DEF ReaderClear
  <2>2. BeingRead' /\ ReadingStatus' /\ rpc' = "push"
    BY <1>1, <1>6, <1>7, <1>12, <2>1
       DEF ReaderClear, BeingRead, ReadingStatus, IsStatus, CallbackRead, DataRead
  <2>3. FieldsMatch'
    BY <1>1, <2>1, <2>2 DEF Handshake, FieldsMatch, CallbackSet
  <2> QED BY <1>1, <1>2, <1>12, <2>1, <2>2, <2>3 DEF ReaderClear, Handshake, OneStatus
<1>13. CASE ReaderPush
  <2>1. BeingRead /\ wpc = "wait"
    BY <1>5, <1>6, <1>13 DEF ReaderPush
  <2>2. Len(packet_status') = 1 /\ packet_status' # <<>>
    BY <1>13, <2>1 DEF ReaderPush, BeingRead
  <2>3. Queued'
    BY <1>1, <1>7, <1>13, <2>1, <2>2 DEF ReaderPush, BeingRead, Queued, ReadingStatus
  <2>4. FieldsMatch'
    BY <1>1, <2>1, <2>2 DEF Handshake, FieldsMatch, CallbackSet
  <2> QED BY <1>1, <1>2, <1>13, <2>1, <2>3, <2>4 DEF ReaderPush, Handshake, OneStatus
<1>14. ~Segfault
  <2> SUFFICES ASSUME Segfault PROVE FALSE
    OBVIOUS
  <2>1. BeingRead /\ nextnode = NULL /\ rpc # "push"
    BY <1>5, <1>6 DEF Segfault
  <2> QED BY <2>1 DEF BeingRead, TInv
<1> QED BY <1>3, <1>4, <1>8, <1>9, <1>10, <1>11, <1>12, <1>13, <1>14

\* The bridge answers, or loses, the one message it has.
LEMMA HandshakeBridge ==
  ASSUME TInv, TInv', Handshake, Bridge \/ Bus
  PROVE  Handshake'
<1>1. UNCHANGED <<idle, packet_status, nextcallback, nextdata, wpc, wmsg, rpc, rps>>
  BY DEF Bridge, Bus, BridgeFrame, queues, next, reader
<1>2. /\ AnswersMatch' /\ FieldsMatch' /\ ReadingStatus' = ReadingStatus
      /\ NoStatusIn(fromBridge)' = NoStatusIn(fromBridge')
      /\ OneStatusIn(fromBridge, wmsg.data)' = OneStatusIn(fromBridge', wmsg.data)
  BY <1>1 DEF Handshake, AnswersMatch, FieldsMatch, CallbackSet, ReadingStatus,
              NoStatusIn, OneStatusIn, IsStatus
<1>3. CASE Bridge
  <2>1. toBridge # <<>>
    BY <1>3 DEF Bridge, BridgeLose, BridgeLoseDone, BridgeAnswer
  <2>2. Unanswered /\ wpc = "wait"
    BY <2>1 DEF Handshake, OneStatus, Lost, OnTheLine, BeingRead, Queued
  <2>3. Head(toBridge) = wmsg /\ Tail(toBridge) = <<>>
    BY <2>2 DEF Unanswered
  <2>4. CASE BridgeLose \/ BridgeLoseDone
    <3>1. Lost'
      BY <1>1, <1>2, <2>2, <2>3, <2>4 DEF BridgeLose, BridgeLoseDone, Unanswered, Lost
    <3> QED BY <1>1, <1>2, <2>2, <3>1 DEF Handshake, OneStatus
  <2>5. ASSUME NEW type \in {"DONE", "ABORT"}, BridgeAnswer(type) PROVE Handshake'
    <3> DEFINE m == StatusFor(type, wmsg)
    <3>1. m \in BridgeMessage /\ IsStatus(m) /\ m.to = wmsg.data
      BY RecordsTyped DEF StatusFor, IsStatus, TInv, TypeOK
    <3>2. fromBridge' = Append(fromBridge, m)
      BY <2>3, <2>5 DEF BridgeAnswer
    <3> HIDE DEF m
    <3>3. OneStatusIn(fromBridge', wmsg.data)
      BY <2>2, <3>1, <3>2, NoStatusAppend DEF Unanswered, TInv, TypeOK
    <3>4. OnTheLine'
      BY <1>1, <1>2, <2>2, <2>3, <2>5, <3>3 DEF BridgeAnswer, Unanswered, OnTheLine
    <3> QED BY <1>1, <1>2, <2>2, <3>4 DEF Handshake, OneStatus
  <2> QED BY <1>3, <2>4, <2>5 DEF Bridge
<1>4. CASE Bus
  <2>1. PICK n \in Nodes \cup {NULL}, flags \in SUBSET Flags : NodePacket(n, flags)
    BY <1>4 DEF Bus
  <2> DEFINE m == [type |-> "PACKET", n |-> n, flags |-> flags,
                   to |-> IF n = NULL THEN NULL ELSE acked[n],
                   missed |-> n # NULL /\ missed[n]]
  <2>2. m \in BridgeMessage /\ ~IsStatus(m)
    BY <2>1 DEF BridgeMessage, IsStatus, TInv, TypeOK, Stream
  <2>3. fromBridge' = Append(fromBridge, m) /\ toBridge' = toBridge
    BY <2>1 DEF NodePacket
  <2> HIDE DEF m
  <2>4. /\ NoStatusIn(fromBridge) => NoStatusIn(fromBridge')
        /\ \A d : OneStatusIn(fromBridge, d) => OneStatusIn(fromBridge', d)
    BY <2>2, <2>3, NoStatusAppend, OneStatusAppend DEF TInv, TypeOK
  <2>5. (Lost => Lost') /\ (OneStatus => OneStatus')
    BY <1>1, <1>2, <2>3, <2>4
       DEF Lost, OneStatus, Unanswered, OnTheLine, BeingRead, Queued,
           CallbackRead, DataRead
  <2> QED BY <1>1, <1>2, <2>5 DEF Handshake
<1> QED BY <1>3, <1>4

-----------------------------------------------------------------------------
(* Replies: packets and the stream they meet. *)

\* Replies is a statement about these variables.
RepliesVars == <<wmsg, rpc, rps, currentcallback, currentdata, acked, missed,
                 fromBridge, idle>>

\* Replies depends on these variables only.
LEMMA RepliesFrame == Replies /\ UNCHANGED RepliesVars => Replies'
  BY DEF RepliesVars, Replies, LineInOrder, CurrentAt, ReadingDone, DoneBefore, ReplyOK,
         IsStatus

\* No packet is on the line.
LEMMA RepliesInit == Init => Replies
<1> SUFFICES ASSUME Init PROVE Replies
  OBVIOUS
<1>1. LineInOrder
  BY PacketAssumption DEF Init, LineInOrder, CurrentAt, ReadingDone, DoneBefore, Plain
<1> QED BY <1>1 DEF Init, Replies

\* A member of the idle sources, with one more.
LEMMA IdleAppend ==
  ASSUME NEW m, TypeOK, \A i \in DOMAIN idle : ReplyOK(idle[i]), idle' = Append(idle, m),
         ReplyOK(m), m \in PacketStream
  PROVE  \A i \in DOMAIN idle' : ReplyOK(idle'[i])
<1>1. /\ DOMAIN idle' = 1..Len(idle) + 1 /\ DOMAIN idle = 1..Len(idle)
      /\ Len(idle) \in Nat
      /\ \A i \in 1..Len(idle) : idle'[i] = idle[i]
      /\ idle'[Len(idle) + 1] = m
  BY DEF TypeOK
<1> QED BY <1>1

\* The main loop only takes from the idle sources.
LEMMA RepliesMainLoop == ASSUME TInv, Replies, MainLoop PROVE Replies'
<1>1. UNCHANGED <<wmsg, rpc, rps, currentcallback, currentdata, acked, missed, fromBridge>>
  BY DEF MainLoop, MainFrame, current, reader, bridge
<1>2. CASE idle' = idle
  BY <1>1, <1>2, RepliesFrame DEF RepliesVars
<1>3. CASE idle # <<>> /\ idle' = Tail(idle)
  <2>1. /\ Len(idle) \in Nat \ {0} /\ DOMAIN idle = 1..Len(idle)
        /\ DOMAIN idle' = 1..Len(idle) - 1
        /\ \A i \in 1..Len(idle) - 1 : idle'[i] = idle[i + 1]
    BY <1>3 DEF TInv, TypeOK
  <2>2. \A i \in DOMAIN idle' : ReplyOK(idle'[i])
    BY <2>1 DEF Replies
  <2>3. LineInOrder'
    BY <1>1 DEF Replies, LineInOrder, CurrentAt, ReadingDone, DoneBefore, IsStatus
  <2> QED BY <1>1, <2>2, <2>3 DEF Replies, ReplyOK, IsStatus
<1> QED BY <1>2, <1>3 DEF MainLoop, packet_streamPacket, packet_outpacket, packet_inpacket

\* No PACKET_DONE is on the line and none is being read: the current streams
\* are what packets meet.
LEMMA LineSettled ==
  ASSUME NoStatusIn(fromBridge), ~ReadingDone
  PROVE  LineInOrder <=>
           \A n \in Nodes : currentcallback[n] = "tcp_reply" =>
             /\ missed[n] \/ acked[n] = currentdata[n]
             /\ \A i \in DOMAIN fromBridge :
                  ~IsStatus(fromBridge[i]) /\ fromBridge[i].n = n
                     => fromBridge[i].missed \/ fromBridge[i].to = currentdata[n]
<1>1. \A i : ~DoneBefore(i)
  BY DEF NoStatusIn, IsStatus, DoneBefore
<1> QED BY <1>1 DEF LineInOrder, CurrentAt

\* A line without a PACKET_DONE, in the next state.
LEMMA LineSettledNext ==
  ASSUME NoStatusIn(fromBridge)', ~ReadingDone'
  PROVE  (LineInOrder <=>
           \A n \in Nodes : currentcallback[n] = "tcp_reply" =>
             /\ missed[n] \/ acked[n] = currentdata[n]
             /\ \A i \in DOMAIN fromBridge :
                  ~IsStatus(fromBridge[i]) /\ fromBridge[i].n = n
                     => fromBridge[i].missed \/ fromBridge[i].to = currentdata[n])'
<1>1. \A i : ~DoneBefore(i)'
  BY DEF NoStatusIn, IsStatus, DoneBefore
<1> QED BY <1>1 DEF LineInOrder, CurrentAt

\* The writer changes its message while no PACKET_DONE is under way.
LEMMA RepliesWriter ==
  ASSUME TInv, TInv', Handshake, Replies, Writer
  PROVE  Replies'
<1>1. UNCHANGED <<rpc, rps, currentdata, acked, fromBridge>>
  BY DEF Writer, reader
<1>6. wpc # "clear" => UNCHANGED missed
  BY DEF Writer, TInv, TypeOK
<1>2. CASE WriterPop
  <2>1. Lost /\ UNCHANGED missed
    BY <1>2, <1>6 DEF WriterPop, ReadyToPop, Handshake
  <2>2. NoStatusIn(fromBridge) /\ ~ReadingDone /\ NoStatusIn(fromBridge)' /\ ~ReadingDone'
    BY <1>1, <2>1 DEF Lost, NoStatusIn, ReadingDone, ReadingStatus, IsStatus
  <2>3. UNCHANGED <<currentcallback, idle>>
    BY <1>2 DEF WriterPop
  <2>4. LineInOrder'
    BY <1>1, <2>1, <2>2, <2>3, LineSettled, LineSettledNext DEF Replies, IsStatus
  <2> QED BY <1>1, <2>3, <2>4 DEF Replies, ReplyOK, IsStatus
<1>3. CASE WriterCallback \/ WriterData \/ WriterWrite \/ WriterStatus \/ WriterTimeout
  BY <1>1, <1>3, <1>6, RepliesFrame DEF WriterCallback, WriterData, WriterWrite, WriterStatus,
     WriterTimeout, RepliesVars, queues
<1>4. CASE WriterAbort
  <2> DEFINE ps == Paired(StatusFor("ABORT", wmsg), nextcallback[nextnode],
                          nextdata[nextnode])
  <2>1. idle' = Append(idle, ps) /\ UNCHANGED <<currentcallback, wmsg, missed>>
    BY <1>4, <1>6 DEF WriterAbort
  <2>2. ReplyOK(ps)
    BY DEF ReplyOK, IsStatus, Paired, StatusFor
  <2> HIDE DEF ps
  <2>3. \A i \in DOMAIN idle' : ReplyOK(idle'[i])
    BY <2>1, <2>2, IdleAppend DEF Replies, TInv
  <2> QED BY <1>1, <2>1, <2>3 DEF Replies, LineInOrder, CurrentAt, ReadingDone,
             DoneBefore, ReplyOK, IsStatus
<1>5. CASE WriterClear
  <2>1. Lost
    BY <1>5 DEF WriterClear, Handshake
  <2>2. NoStatusIn(fromBridge) /\ ~ReadingDone /\ NoStatusIn(fromBridge)' /\ ~ReadingDone'
    BY <1>1, <2>1 DEF Lost, NoStatusIn, ReadingDone, ReadingStatus, IsStatus
  <2>3. UNCHANGED <<wmsg, idle>>
    BY <1>5 DEF WriterClear, queues
  <2>4. \A n \in Nodes : currentcallback'[n] = "tcp_reply"
           => currentcallback[n] = "tcp_reply" /\ missed'[n] = missed[n]
    BY <1>5, PacketAssumption DEF Writer, WriterClear, ClearCallbacks, TInv, TypeOK
  <2>5. LineInOrder'
    BY <1>1, <2>2, <2>4, LineSettled, LineSettledNext DEF Replies, IsStatus
  <2> QED BY <1>1, <2>3, <2>5 DEF Replies, ReplyOK, IsStatus
<1> QED BY <1>2, <1>3, <1>4, <1>5 DEF Writer

\* Reading the line: what is left of it keeps its order.
LEMMA LineTail ==
  ASSUME TInv, LineInOrder, fromBridge # <<>>, fromBridge' = Tail(fromBridge),
         UNCHANGED <<wmsg, currentcallback, currentdata, acked, missed>>, rpc = "read",
         IF Head(fromBridge).type = "DONE" THEN wmsg.n \in Nodes => ReadingDone'
                                           ELSE ~ReadingDone'
  PROVE  LineInOrder'
<1>1. /\ Len(fromBridge) \in Nat \ {0} /\ DOMAIN fromBridge = 1..Len(fromBridge)
      /\ DOMAIN fromBridge' = 1..Len(fromBridge) - 1
      /\ Len(fromBridge') = Len(fromBridge) - 1
      /\ \A i \in 1..Len(fromBridge) - 1 : fromBridge'[i] = fromBridge[i + 1]
      /\ Head(fromBridge) = fromBridge[1]
  BY DEF TInv, TypeOK
<1>2. ASSUME NEW n \in Nodes, NEW i \in 1..Len(fromBridge), NEW d,
             CurrentAt(n, i + 1, d)
      PROVE  CurrentAt(n, i, d)'
  <2>1. ~ReadingDone
    BY DEF ReadingDone
  <2>2. DoneBefore(i + 1) <=> Head(fromBridge).type = "DONE" \/ DoneBefore(i)'
    <3>1. ASSUME DoneBefore(i + 1), Head(fromBridge).type # "DONE"
          PROVE  DoneBefore(i)'
      <4>1. PICK j \in DOMAIN fromBridge : j < i + 1 /\ fromBridge[j].type = "DONE"
        BY <3>1 DEF DoneBefore
      <4>2. j - 1 \in DOMAIN fromBridge' /\ j - 1 < i /\ fromBridge'[j - 1] = fromBridge[j]
        BY <1>1, <3>1, <4>1
      <4> QED BY <4>1, <4>2 DEF DoneBefore
    <3>2. ASSUME DoneBefore(i)' PROVE DoneBefore(i + 1)
      <4>1. PICK j \in DOMAIN fromBridge' : j < i /\ fromBridge'[j].type = "DONE"
        BY <3>2 DEF DoneBefore
      <4>2. j + 1 \in DOMAIN fromBridge /\ j + 1 < i + 1 /\ fromBridge'[j] = fromBridge[j + 1]
        BY <1>1, <4>1
      <4> QED BY <4>1, <4>2 DEF DoneBefore
    <3>3. Head(fromBridge).type = "DONE" => DoneBefore(i + 1)
      BY <1>1 DEF DoneBefore
    <3> QED BY <3>1, <3>2, <3>3
  <2> QED BY <1>2, <2>1, <2>2 DEF CurrentAt
<1>3. ASSUME NEW n \in Nodes, ~missed[n]
      PROVE  CurrentAt(n, Len(fromBridge) + 1, acked[n])'
  <2>1. CurrentAt(n, Len(fromBridge) + 1, acked[n]) /\ Len(fromBridge) \in 1..Len(fromBridge)
    BY <1>1, <1>3 DEF LineInOrder
  <2> DEFINE k == Len(fromBridge)
             d == acked[n]
  <2>2. \A i \in 1..Len(fromBridge) : \A e : CurrentAt(n, i + 1, e) => CurrentAt(n, i, e)'
    BY <1>2
  <2>3. PICK i \in 1..Len(fromBridge) : \E e : i = k /\ e = d /\ CurrentAt(n, i, e)'
    BY <2>1, <2>2
  <2>4. PICK e : i = k /\ e = d /\ CurrentAt(n, i, e)'
    BY <2>3
  <2>5. i = Len(fromBridge') + 1 /\ e = acked'[n]
    BY <1>1, <2>4
  <2> QED BY <2>4, <2>5 DEF CurrentAt, DoneBefore, ReadingDone
<1>4. ASSUME NEW n \in Nodes, NEW i \in DOMAIN fromBridge',
             ~IsStatus(fromBridge'[i]), fromBridge'[i].n = n, ~fromBridge'[i].missed
      PROVE  CurrentAt(n, i, fromBridge[i].to)'
  <2>1. i + 1 \in DOMAIN fromBridge /\ fromBridge'[i] = fromBridge[i + 1]
        /\ i \in 1..Len(fromBridge)
    BY <1>1
  <2>2. CurrentAt(n, i + 1, fromBridge[i + 1].to)
    BY <1>4, <2>1 DEF LineInOrder
  <2> QED BY <1>2, <2>1, <2>2 DEF CurrentAt, DoneBefore, ReadingDone
<1> QED BY <1>3, <1>4 DEF LineInOrder, IsStatus

\* The reader moves to the next position of the line.
LEMMA RepliesReader ==
  ASSUME TInv, TInv', Handshake, Replies, Reader
  PROVE  Replies'
<1>1. UNCHANGED <<wmsg, acked, missed>>
  BY DEF Reader
<1>2. ReadingStatus => BeingRead /\ wpc = "wait"
  BY DEF Handshake, OneStatus, Lost, Unanswered, OnTheLine, Queued
<1>3. rpc \notin {"read", "queue"} => ReadingStatus
  BY DEF TInv, ReadingStatus
<1>4. ASSUME idle' = idle PROVE \A i \in DOMAIN idle' : ReplyOK(idle'[i])
  BY <1>4 DEF Replies
<1>5. \A i \in DOMAIN idle' : ReplyOK(idle[i])' <=> ReplyOK(idle'[i])
  BY DEF ReplyOK, IsStatus
<1>6. CASE ReadPacket
  <2> DEFINE m == Head(fromBridge)
  <2>1. /\ fromBridge # <<>> /\ fromBridge' = Tail(fromBridge) /\ ~IsStatus(m)
        /\ rpc = "read" /\ rpc' = "queue" /\ rps' = PairWithNode(m)
        /\ UNCHANGED <<idle, currentcallback, currentdata>>
    BY <1>6 DEF ReadPacket, current
  <2>2. LineInOrder'
    BY <1>1, <2>1, LineTail DEF Replies, IsStatus, ReadingDone
  <2>3. ReplyOK(rps')
    <3>1. m.n \in Nodes \cup {NULL} /\ 1 \in DOMAIN fromBridge /\ m = fromBridge[1]
      <4>1. fromBridge \in Seq(BridgeMessage)
        BY DEF TInv, TypeOK
      <4>2. m \in BridgeMessage /\ 1 \in DOMAIN fromBridge /\ m = fromBridge[1]
        BY <2>1, <4>1
      <4> QED BY <4>2 DEF BridgeMessage
    <3>2. CASE m.n = NULL
      BY <2>1, <3>2 DEF PairWithNode, Paired, ReplyOK
    <3>3. CASE m.n \in Nodes
      <4>1. m.missed \/ CurrentAt(m.n, 1, m.to)
        BY <2>1, <3>1, <3>3 DEF Replies, LineInOrder
      <4>2. ~ReadingDone /\ ~DoneBefore(1)
        BY <2>1 DEF ReadingDone, DoneBefore, TInv, TypeOK
      <4>3. /\ rps'.callback = currentcallback[m.n] /\ rps'.data = currentdata[m.n]
            /\ rps'.to = m.to /\ rps'.missed = m.missed
        BY <2>1, <3>3, PacketAssumption DEF PairWithNode, Paired
      <4> QED BY <4>1, <4>2, <4>3 DEF CurrentAt, ReplyOK
    <3> QED BY <3>1, <3>2, <3>3
  <2> QED BY <1>4, <1>5, <2>1, <2>2, <2>3 DEF Replies, ReplyOK, IsStatus
<1>7. CASE ReadStatus
  <2>1. /\ fromBridge # <<>> /\ fromBridge' = Tail(fromBridge) /\ IsStatus(Head(fromBridge))
        /\ rpc = "read" /\ rpc' \in {"push", "callback", "data"}
        /\ rps'.type = Head(fromBridge).type
        /\ Head(fromBridge).type = "DONE" /\ nextnode # NULL => rpc' = "callback"
        /\ UNCHANGED <<idle, currentcallback, currentdata>>
    BY <1>7 DEF ReadStatus, Paired, current
  <2>2. LineInOrder'
    BY <1>1, <2>1, LineTail, PacketAssumption DEF Replies, ReadingDone, TInv
  <2> QED BY <1>4, <1>5, <2>1, <2>2 DEF Replies
<1>8. CASE ReadCallback
  <2>1. /\ UNCHANGED <<idle, currentcallback, currentdata, fromBridge>>
        /\ rps'.type = rps.type /\ rpc = "callback" /\ IsStatus(rps)
        /\ rpc' = IF rps.type = "DONE" THEN "store" ELSE "queue"
    BY <1>3, <1>8 DEF ReadCallback, current, TInv, TypeOK, PacketStream, ReadingStatus
  <2>2. LineInOrder'
    BY <1>1, <2>1 DEF Replies, LineInOrder, CurrentAt, ReadingDone, DoneBefore, IsStatus
  <2> QED BY <1>4, <1>5, <2>1, <2>2 DEF Replies, ReplyOK, IsStatus
<1>9. CASE StoreCallback
  <2>1. /\ UNCHANGED <<idle, currentdata, fromBridge, rps>> /\ rpc = "store" /\ rpc' = "data"
        /\ rps.type = "DONE" /\ nextnode = wmsg.n
        /\ currentcallback' = [currentcallback EXCEPT ![nextnode] = rps.callback]
    BY <1>9 DEF StoreCallback, Replies, TInv
  <2>2. ReadingDone /\ ReadingDone' /\ \A i : DoneBefore(i)' <=> DoneBefore(i)
    BY <2>1 DEF ReadingDone, DoneBefore
  <2>3. \A n \in Nodes : n # wmsg.n => currentcallback'[n] = currentcallback[n]
    BY <2>1 DEF TInv, TypeOK
  <2>4. LineInOrder'
    BY <1>1, <2>1, <2>2, <2>3 DEF Replies, LineInOrder, CurrentAt, IsStatus
  <2> QED BY <1>4, <1>5, <2>1, <2>4 DEF Replies
<1>10. CASE ReadData
  <2>1. BeingRead /\ wpc = "wait" /\ nextnode = wmsg.n /\ wmsg.n \in Nodes
    BY <1>2, <1>3, <1>10 DEF ReadData, TInv, TypeOK
  <2>2. AnsweredStream = wmsg.data
    BY <2>1, PacketAssumption DEF AnsweredStream, Handshake, FieldsMatch
  <2>3. /\ UNCHANGED <<idle, currentcallback, fromBridge>> /\ rpc = "data"
        /\ rps'.type = rps.type /\ rps.type \in {"DONE", "ABORT"}
        /\ rpc' = IF rps.type = "DONE" THEN "queue" ELSE "callback"
        /\ currentdata' = IF rps.type = "ABORT" THEN currentdata
                          ELSE [currentdata EXCEPT ![wmsg.n] = wmsg.data]
    BY <1>3, <1>10, <2>1, <2>2
       DEF ReadData, TInv, TypeOK, PacketStream, ReadingStatus, IsStatus
  <2>4. NoStatusIn(fromBridge) /\ NoStatusIn(fromBridge)'
    BY <2>1, <2>3 DEF BeingRead, NoStatusIn, IsStatus
  <2>5. ~ReadingDone'
    BY <2>3 DEF ReadingDone
  <2>6. LineInOrder'
    <3>1. CASE rps.type = "ABORT"
      <4>1. ~ReadingDone
        BY <3>1 DEF ReadingDone
      <4> QED BY <1>1, <2>3, <2>4, <2>5, <3>1, <4>1, LineSettled, LineSettledNext
              DEF Replies, IsStatus
    <3>2. CASE rps.type = "DONE"
      <4>1. ReadingDone /\ \A i : ~DoneBefore(i)
        BY <2>3, <2>4, <3>2 DEF ReadingDone, DoneBefore, NoStatusIn, IsStatus
      <4>2. ASSUME NEW n \in Nodes, NEW i, NEW d, CurrentAt(n, i, d)
            PROVE  currentcallback[n] = "tcp_reply" => d = currentdata'[n]
        BY <2>1, <2>3, <3>2, <4>1, <4>2 DEF CurrentAt, TInv, TypeOK
      <4>3. \A n \in Nodes : currentcallback[n] = "tcp_reply" =>
               /\ missed[n] \/ acked[n] = currentdata'[n]
               /\ \A i \in DOMAIN fromBridge :
                    ~IsStatus(fromBridge[i]) /\ fromBridge[i].n = n
                       => fromBridge[i].missed \/ fromBridge[i].to = currentdata'[n]
        BY <4>2 DEF Replies, LineInOrder
      <4> QED BY <1>1, <2>3, <2>4, <2>5, <4>3, LineSettledNext DEF IsStatus
    <3> QED BY <2>3, <3>1, <3>2
  <2> QED BY <1>4, <1>5, <2>3, <2>6 DEF Replies, ReplyOK, IsStatus
<1>11. CASE ReaderQueue
  <2>1. /\ UNCHANGED <<currentcallback, currentdata, fromBridge, rps>>
        /\ idle' = Append(idle, rps) /\ rpc = "queue" /\ rpc' \in {"read", "push", "clear"}
    BY <1>11 DEF ReaderQueue, AfterQueue, current, TInv, TypeOK, PacketStream
  <2>2. \A i \in DOMAIN idle' : ReplyOK(idle'[i])
    BY <2>1, IdleAppend DEF Replies, TInv, TypeOK
  <2>3. LineInOrder'
    BY <1>1, <2>1 DEF Replies, LineInOrder, CurrentAt, ReadingDone, DoneBefore, IsStatus
  <2> QED BY <1>5, <2>1, <2>2, <2>3 DEF Replies
<1>12. CASE ReaderClear
  <2>1. BeingRead
    BY <1>2, <1>3, <1>12 DEF ReaderClear
  <2>2. UNCHANGED <<idle, currentdata, fromBridge, rps>> /\ rpc = "clear" /\ rpc' = "push"
    BY <1>12 DEF ReaderClear
  <2>3. NoStatusIn(fromBridge) /\ ~ReadingDone /\ NoStatusIn(fromBridge)' /\ ~ReadingDone'
    BY <2>1, <2>2 DEF BeingRead, NoStatusIn, ReadingDone, IsStatus
  <2>4. \A n \in Nodes : currentcallback'[n] = "tcp_reply" => currentcallback[n] = "tcp_reply"
    BY <1>12 DEF ReaderClear, ClearCallbacks, TInv, TypeOK
  <2>5. LineInOrder'
    BY <1>1, <2>2, <2>3, <2>4, LineSettled, LineSettledNext DEF Replies, IsStatus
  <2> QED BY <1>4, <1>5, <2>2, <2>5 DEF Replies
<1>13. CASE ReaderPush
  <2>1. UNCHANGED <<idle, current, fromBridge, rps>> /\ rpc = "push" /\ rpc' = "read"
    BY <1>13 DEF ReaderPush
  <2>2. LineInOrder'
    BY <1>1, <2>1
       DEF Replies, LineInOrder, CurrentAt, ReadingDone, DoneBefore, IsStatus, current
  <2> QED BY <1>4, <1>5, <2>1, <2>2 DEF Replies
<1>14. ~Segfault
  <2> SUFFICES ASSUME Segfault PROVE FALSE
    OBVIOUS
  <2>1. BeingRead /\ nextnode = NULL /\ rpc # "push"
    BY <1>2, <1>3 DEF Segfault
  <2> QED BY <2>1 DEF BeingRead, TInv
<1> QED BY <1>6, <1>7, <1>8, <1>9, <1>10, <1>11, <1>12, <1>13, <1>14 DEF Reader

\* The bridge adds to the line what is current at its end.
LEMMA RepliesBridge ==
  ASSUME TInv, TInv', Handshake, Replies, Bridge \/ Bus
  PROVE  Replies'
<1>1. UNCHANGED <<idle, rpc, rps, wmsg, wpc, currentcallback, currentdata>>
  BY DEF Bridge, Bus, BridgeFrame, queues, reader, current
<1>2. SUFFICES LineInOrder'
  BY <1>1 DEF Replies, ReplyOK, IsStatus
<1>3. CASE BridgeLose
  BY <1>1, <1>3 DEF BridgeLose, Replies, LineInOrder, CurrentAt, ReadingDone, DoneBefore,
                    IsStatus
<1>7. CASE BridgeLoseDone
  <2>1. /\ fromBridge' = fromBridge
        /\ \A n \in Nodes : ~missed'[n] => ~missed[n] /\ acked'[n] = acked[n]
    BY <1>7 DEF BridgeLoseDone, Acknowledge
  <2> QED BY <1>1, <2>1 DEF Replies, LineInOrder, CurrentAt, ReadingDone, DoneBefore,
                            IsStatus
<1>4. ASSUME NEW m \in BridgeMessage, fromBridge' = Append(fromBridge, m)
      PROVE  /\ Len(fromBridge) \in Nat /\ DOMAIN fromBridge = 1..Len(fromBridge)
             /\ Len(fromBridge') = Len(fromBridge) + 1
             /\ DOMAIN fromBridge' = 1..Len(fromBridge) + 1
             /\ \A i \in 1..Len(fromBridge) : fromBridge'[i] = fromBridge[i]
             /\ fromBridge'[Len(fromBridge) + 1] = m
             /\ \A i \in 1..Len(fromBridge) + 1 : DoneBefore(i)' <=> DoneBefore(i)
             /\ DoneBefore(Len(fromBridge) + 2)'
                  <=> DoneBefore(Len(fromBridge) + 1) \/ m.type = "DONE"
  <2>1. /\ Len(fromBridge) \in Nat /\ DOMAIN fromBridge = 1..Len(fromBridge)
        /\ Len(fromBridge') = Len(fromBridge) + 1
        /\ DOMAIN fromBridge' = 1..Len(fromBridge) + 1
        /\ \A i \in 1..Len(fromBridge) : fromBridge'[i] = fromBridge[i]
        /\ fromBridge'[Len(fromBridge) + 1] = m
    BY <1>4 DEF TInv, TypeOK
  <2>2. \A i \in 1..Len(fromBridge) + 1 : DoneBefore(i)' <=> DoneBefore(i)
    BY <2>1 DEF DoneBefore
  <2>3. DoneBefore(Len(fromBridge) + 2)'
          <=> DoneBefore(Len(fromBridge) + 1) \/ m.type = "DONE"
    BY <2>1 DEF DoneBefore
  <2> QED BY <2>1, <2>2, <2>3
<1>5. ASSUME NEW type \in {"DONE", "ABORT"}, BridgeAnswer(type) PROVE LineInOrder'
  <2>1. Unanswered /\ Head(toBridge) = wmsg
    <3>1. Unanswered
      BY <1>5 DEF BridgeAnswer, Handshake, OneStatus, Lost, OnTheLine, BeingRead, Queued
    <3> QED BY <3>1 DEF Unanswered
  <2> DEFINE m == StatusFor(type, wmsg)
  <2>2. m \in BridgeMessage /\ IsStatus(m) /\ m.type = type
    BY RecordsTyped DEF StatusFor, IsStatus, TInv, TypeOK
  <2>3. /\ fromBridge' = Append(fromBridge, m)
        /\ \A n \in Nodes : IF type = "DONE" /\ wmsg.n = n
                               THEN acked'[n] = wmsg.data
                               ELSE acked'[n] = acked[n] /\ missed'[n] = missed[n]
    BY <1>5, <2>1 DEF BridgeAnswer, Acknowledge
  <2> HIDE DEF m
  <2>4. ~ReadingDone /\ ~ReadingDone'
    BY <1>1, <2>1 DEF Unanswered, ReadingStatus, ReadingDone, IsStatus
  <2>5. ASSUME NEW n \in Nodes, ~missed'[n]
        PROVE  CurrentAt(n, Len(fromBridge) + 1, acked[n])'
    <3>1. (type = "DONE" /\ wmsg.n = n) \/ CurrentAt(n, Len(fromBridge) + 1, acked[n])
      BY <2>3, <2>5 DEF Replies, LineInOrder
    <3>2. Len(fromBridge') + 1 = Len(fromBridge) + 2
      BY <1>4, <2>2, <2>3
    <3>3. DoneBefore(Len(fromBridge) + 2)'
            <=> DoneBefore(Len(fromBridge) + 1) \/ type = "DONE"
      BY <1>4, <2>2, <2>3
    <3>4. DoneBefore(Len(fromBridge) + 1)' <=> DoneBefore(Len(fromBridge) + 2)'
      BY <3>2 DEF DoneBefore
    <3> QED BY <1>1, <2>3, <2>4, <3>1, <3>3 DEF CurrentAt, DoneBefore
  <2>6. ASSUME NEW n \in Nodes, NEW i \in DOMAIN fromBridge',
               ~IsStatus(fromBridge'[i]), fromBridge'[i].n = n, ~fromBridge'[i].missed
        PROVE  CurrentAt(n, i, fromBridge[i].to)'
    <3>1. i \in DOMAIN fromBridge /\ fromBridge'[i] = fromBridge[i]
          /\ (DoneBefore(i)' <=> DoneBefore(i))
      BY <1>4, <2>2, <2>3, <2>6
    <3>2. CurrentAt(n, i, fromBridge[i].to)
      BY <2>6, <3>1 DEF Replies, LineInOrder
    <3> QED BY <1>1, <2>4, <3>1, <3>2 DEF CurrentAt
  <2> QED BY <2>5, <2>6 DEF LineInOrder, IsStatus
<1>6. CASE Bus
  <2>1. PICK k \in Nodes \cup {NULL}, flags \in SUBSET Flags : NodePacket(k, flags)
    BY <1>6 DEF Bus
  <2> DEFINE m == [type |-> "PACKET", n |-> k, flags |-> flags,
                   to |-> IF k = NULL THEN NULL ELSE acked[k],
                   missed |-> k # NULL /\ missed[k]]
  <2>2. /\ m \in BridgeMessage /\ m.type = "PACKET" /\ m.n = k
        /\ k \in Nodes => m.to = acked[k] /\ m.missed = missed[k]
    BY <2>1, PacketAssumption DEF BridgeMessage, TInv, TypeOK, Stream
  <2>3. fromBridge' = Append(fromBridge, m) /\ UNCHANGED <<acked, missed>>
    BY <2>1 DEF NodePacket
  <2> HIDE DEF m
  <2>4. ReadingDone' <=> ReadingDone
    BY <1>1 DEF ReadingDone
  <2>5. ASSUME NEW n \in Nodes, NEW d
        PROVE  /\ CurrentAt(n, Len(fromBridge) + 1, d)
                    => CurrentAt(n, Len(fromBridge) + 1, d)'
               /\ \A i \in 1..Len(fromBridge) + 1 : CurrentAt(n, i, d) => CurrentAt(n, i, d)'
    <3>1. \A i \in 1..Len(fromBridge) + 1 : CurrentAt(n, i, d) => CurrentAt(n, i, d)'
      BY <1>1, <1>4, <2>2, <2>3, <2>4 DEF CurrentAt
    <3>2. DoneBefore(Len(fromBridge) + 1)' <=> DoneBefore(Len(fromBridge) + 1)
      BY <1>4, <2>2, <2>3 DEF DoneBefore
    <3>3. CurrentAt(n, Len(fromBridge) + 1, d) => CurrentAt(n, Len(fromBridge) + 1, d)'
      BY <1>1, <2>4, <3>2 DEF CurrentAt, DoneBefore
    <3> QED BY <3>1, <3>3
  <2>6. ASSUME NEW n \in Nodes, ~missed'[n]
        PROVE  CurrentAt(n, Len(fromBridge) + 1, acked[n])'
    BY <2>3, <2>5, <2>6 DEF Replies, LineInOrder, CurrentAt
  <2>7. ASSUME NEW n \in Nodes, NEW i \in DOMAIN fromBridge',
               ~IsStatus(fromBridge'[i]), fromBridge'[i].n = n, ~fromBridge'[i].missed
        PROVE  CurrentAt(n, i, fromBridge[i].to)'
    <3>1. CASE i \in DOMAIN fromBridge
      <4>1. fromBridge'[i] = fromBridge[i] /\ i \in 1..Len(fromBridge) + 1
        BY <1>4, <2>2, <2>3, <3>1
      <4>2. CurrentAt(n, i, fromBridge[i].to)
        BY <2>7, <3>1, <4>1 DEF Replies, LineInOrder
      <4> QED BY <2>5, <4>1, <4>2 DEF CurrentAt, DoneBefore, ReadingDone
    <3>2. CASE i = Len(fromBridge) + 1
      <4>1. /\ fromBridge'[i] = m /\ n = k /\ m.to = acked[n] /\ ~missed[n]
            /\ i \in 1..Len(fromBridge) + 1
        BY <1>4, <2>2, <2>3, <2>7, <3>2
      <4>2. CurrentAt(n, i, acked[n])
        BY <3>2, <4>1 DEF Replies, LineInOrder
      <4> QED BY <2>5, <4>1, <4>2 DEF CurrentAt, DoneBefore, ReadingDone
    <3> QED BY <1>4, <2>2, <2>3, <3>1, <3>2
  <2> QED BY <2>6, <2>7 DEF LineInOrder, IsStatus
<1> QED BY <1>3, <1>5, <1>6, <1>7 DEF Bridge

-----------------------------------------------------------------------------
(* The invariant and the theorems. *)

\* Every step keeps IInv.
LEMMA IInvStep == IInv /\ [Next]_vars => IInv'
<1> SUFFICES ASSUME IInv, [Next]_vars, Calm' PROVE Handshake' /\ Replies'
  BY TInvStep DEF IInv
<1>1. TInv /\ TInv'
  BY TInvStep DEF IInv
<1>2. Calm
  BY <1>1 DEF Calm, TInv, TypeOK, Next, Quiescent, MainLoop, MainFrame, Writer,
              Reader, Bridge, Bus, BridgeFrame, vars, WriterPop, WriterCallback,
              WriterData, WriterWrite, WriterStatus, WriterTimeout, WriterAbort,
              WriterClear
<1>3. Handshake /\ Replies
  BY <1>2 DEF IInv
<1>4. ASSUME UNCHANGED vars PROVE Handshake'
  BY <1>3, <1>4 DEF vars, queues, next, current, reader, bridge, Handshake,
       OneStatus, Lost, Unanswered, OnTheLine, BeingRead, Queued, FieldsMatch,
       AnswersMatch, CallbackSet, CallbackRead, DataRead, ReadingStatus, NoStatusIn,
       OneStatusIn, IsStatus
<1>5. ASSUME UNCHANGED vars PROVE Replies'
  BY <1>3, <1>5, RepliesFrame DEF RepliesVars, vars, queues, current, reader, bridge
<1>6. Handshake'
  BY <1>1, <1>3, <1>4, HandshakeMainLoop, HandshakeWriter, HandshakeReader,
     HandshakeBridge DEF Next, Quiescent
<1>7. Replies'
  BY <1>1, <1>3, <1>5, RepliesMainLoop, RepliesWriter, RepliesReader, RepliesBridge
     DEF Next, Quiescent
<1> QED BY <1>6, <1>7

\* IInv is inductive: the fields the two threads share are owned by turns.
THEOREM Invariance == Spec => []IInv
<1>1. Init => IInv
  BY TInvInit, HandshakeInit, RepliesInit DEF IInv
<1> QED BY <1>1, IInvStep, PTL DEF Spec

\* With prompt answers, and until the first timeout in any case, the shared
\* fields need no mutex: no status goes to the wrong connection.
THEOREM AnswersCorrect == Spec => []AnswersReachTheirClient
<1>1. IInv => AnswersReachTheirClient
  BY DEF IInv, Handshake, AnswersMatch, AnswersReachTheirClient
<1> QED BY <1>1, Invariance, PTL

\* Under the same premise a reply goes to the client whose command its node
\* had acknowledged when it sent the reply, although nothing orders the
\* packets on the line and what the writer notes for the next command; only a
\* reply sent while that acknowledgement was missed may go to the client of
\* an earlier command.
THEOREM RepliesCorrect == Spec => []RepliesReachTheirClient
<1>1. IInv => RepliesReachTheirClient
  BY DEF IInv, Replies, ReplyOK, RepliesReachTheirClient
<1> QED BY <1>1, Invariance, PTL

\* Under the same premise the reader never follows a null nextnode.
THEOREM ReaderSafe == Spec => []NoSegfault
<1>1. IInv => NoSegfault
  BY DEF IInv, Handshake, NoSegfault
<1> QED BY <1>1, Invariance, PTL

-----------------------------------------------------------------------------
(* Statuses are neither made nor doubled on their way to the writer. *)

StatusCount(s) == Cardinality({i \in DOMAIN s : IsStatus(s[i])})

\* A line has finitely many statuses.
LEMMA StatusCountNat ==
  ASSUME NEW s \in Seq(BridgeMessage)
  PROVE  /\ IsFiniteSet({i \in DOMAIN s : IsStatus(s[i])})
         /\ StatusCount(s) \in Nat
         /\ NoStatusIn(s) => StatusCount(s) = 0
<1> DEFINE S == {i \in DOMAIN s : IsStatus(s[i])}
<1>1. DOMAIN s = 1..Len(s) /\ Len(s) \in Nat /\ S \in SUBSET (1..Len(s))
  OBVIOUS
<1>2. NoStatusIn(s) => S = {}
  BY DEF NoStatusIn
<1>3. StatusCount(s) = Cardinality(S)
  BY DEF StatusCount
<1> HIDE DEF S
<1>4. IsFiniteSet(1..Len(s))
  BY <1>1, FS_Interval
<1>5. IsFiniteSet(S)
  BY <1>1, <1>4, FS_Subset
<1>6. IsFiniteSet(S) /\ StatusCount(s) \in Nat /\ (NoStatusIn(s) => StatusCount(s) = 0)
  BY <1>2, <1>3, <1>5, FS_CardinalityType, FS_EmptySet
<1> QED BY <1>6 DEF S

\* The statuses of a line, with one more message.
LEMMA StatusCountAppend ==
  ASSUME NEW s \in Seq(BridgeMessage), NEW m \in BridgeMessage
  PROVE  StatusCount(Append(s, m)) = StatusCount(s) + (IF IsStatus(m) THEN 1 ELSE 0)
<1> DEFINE t == Append(s, m)
           S == {i \in DOMAIN s : IsStatus(s[i])}
           T == {i \in DOMAIN t : IsStatus(t[i])}
<1>1. /\ Len(s) \in Nat /\ DOMAIN s = 1..Len(s) /\ DOMAIN t = 1..Len(s) + 1
      /\ \A i \in 1..Len(s) : t[i] = s[i]
      /\ t[Len(s) + 1] = m
  OBVIOUS
<1> HIDE DEF t
<1>2. T = IF IsStatus(m) THEN S \cup {Len(s) + 1} ELSE S
  BY <1>1
<1>3. Len(s) + 1 \notin S
  BY <1>1
<1>4. IsFiniteSet(S) /\ Cardinality(S) \in Nat
  BY StatusCountNat DEF StatusCount
<1> HIDE DEF S, T
<1>5. Cardinality(S \cup {Len(s) + 1}) = Cardinality(S) + 1
  BY <1>3, <1>4, FS_AddElement
<1>6. Cardinality(T) = Cardinality(S) + (IF IsStatus(m) THEN 1 ELSE 0)
  BY <1>2, <1>4, <1>5
<1> QED BY <1>6 DEF StatusCount, S, T, t

\* The statuses of a line, with one message less.
LEMMA StatusCountTail ==
  ASSUME NEW s \in Seq(BridgeMessage), s # <<>>
  PROVE  StatusCount(s) = StatusCount(Tail(s)) + (IF IsStatus(Head(s)) THEN 1 ELSE 0)
<1> DEFINE t == Tail(s)
           S == {i \in DOMAIN s : IsStatus(s[i])}
           T == {i \in DOMAIN t : IsStatus(t[i])}
           f == [i \in T |-> i + 1]
<1>1. /\ Len(s) \in Nat \ {0} /\ DOMAIN s = 1..Len(s) /\ DOMAIN t = 1..Len(s) - 1
      /\ \A i \in 1..Len(s) - 1 : t[i] = s[i + 1]
      /\ t \in Seq(BridgeMessage)
      /\ Head(s) = s[1]
  OBVIOUS
<1>2. IsFiniteSet(S) /\ Cardinality(S) \in Nat /\ IsFiniteSet(T)
  BY <1>1, StatusCountNat DEF StatusCount
<1> HIDE DEF t
<1>3. \A i \in T : i + 1 \in S \ {1}
  BY <1>1
<1>4. \A j \in S \ {1} : j - 1 \in T /\ j \in Int
  BY <1>1
<1>5. T \subseteq Int
  BY <1>1
<1> HIDE DEF S, T
<1>6. f \in Bijection(T, S \ {1})
  <2>1. f \in [T -> S \ {1}]
    BY <1>3
  <2>2. \A a, b \in T : f[a] = f[b] => a = b
    BY <1>5
  <2>3. \A j \in S \ {1} : \E i \in T : f[i] = j
    BY <1>4
  <2> HIDE DEF f
  <2> QED BY <2>1, <2>2, <2>3, Fun_IsBij
<1>7. Cardinality(S \ {1}) = Cardinality(T)
  <2>1. ExistsBijection(T, S \ {1})
    BY <1>6, Fun_ExistsBij
  <2> QED BY <1>2, <2>1, FS_Bijection
<1>8. Cardinality(S \ {1}) = Cardinality(S) - (IF IsStatus(Head(s)) THEN 1 ELSE 0)
  <2>1. 1 \in S <=> IsStatus(Head(s))
    BY <1>1 DEF S
  <2>2. Cardinality(S \ {1}) = IF 1 \in S THEN Cardinality(S) - 1 ELSE Cardinality(S)
    BY <1>2, FS_RemoveElement
  <2> QED BY <1>2, <2>1, <2>2
<1>9. Cardinality(T) \in Nat
  BY <1>2, FS_CardinalityType
<1>10. StatusCount(s) = Cardinality(S) /\ StatusCount(t) = Cardinality(T)
  BY DEF StatusCount, S, T
<1>11. Cardinality(S) = Cardinality(T) + (IF IsStatus(Head(s)) THEN 1 ELSE 0)
  BY <1>2, <1>7, <1>8, <1>9
<1> QED BY <1>10, <1>11 DEF t

\* No status is under way.
LEMMA BacklogInit == Init => StatusBacklog
<1> SUFFICES ASSUME Init PROVE StatusBacklog
  OBVIOUS
<1>1. StatusCount(fromBridge) = 0
  <2>1. fromBridge \in Seq(BridgeMessage) /\ NoStatusIn(fromBridge)
    BY DEF Init, NoStatusIn
  <2> QED BY <2>1, StatusCountNat
<1>2. Statuses = 0
  BY <1>1 DEF Init, Statuses, StatusCount, ReadingStatus
<1> QED BY <1>2 DEF Init, StatusBacklog

SumOfStatuses ==
  /\ Statuses = Len(toBridge) + StatusCount(fromBridge)
                  + (IF ReadingStatus THEN 1 ELSE 0) + Len(packet_status)
  /\ StatusCount(fromBridge) \in Nat
  /\ Len(toBridge) \in Nat /\ Len(packet_status) \in Nat
  /\ timeouts \in Nat
  /\ LateAnswers \in BOOLEAN

\* The summands of the backlog are numbers.
LEMMA StatusesTyped == (TInv => SumOfStatuses) /\ (TInv' => SumOfStatuses')
<1>1. ASSUME TInv PROVE SumOfStatuses
  <2>1. /\ fromBridge \in Seq(BridgeMessage) /\ timeouts \in Nat
        /\ Len(toBridge) \in Nat /\ Len(packet_status) \in Nat
    BY <1>1 DEF TInv, TypeOK
  <2>2. StatusCount(fromBridge) \in Nat
    BY <2>1, StatusCountNat
  <2> QED BY <2>1, <2>2, PacketAssumption DEF SumOfStatuses, Statuses, StatusCount
<1>2. ASSUME TInv' PROVE SumOfStatuses'
  <2>1. /\ fromBridge' \in Seq(BridgeMessage) /\ timeouts' \in Nat
        /\ Len(toBridge') \in Nat /\ Len(packet_status') \in Nat
    BY <1>2 DEF TInv, TypeOK
  <2>2. StatusCount(fromBridge') \in Nat
    BY <2>1, StatusCountNat
  <2>3. StatusCount(fromBridge)' \in Nat
    BY <2>2 DEF StatusCount, IsStatus
  <2> QED BY <2>1, <2>3, PacketAssumption DEF SumOfStatuses, Statuses, StatusCount
<1> QED BY <1>1, <1>2

\* The writer adds a place for a status, or gives up on one.
LEMMA BacklogWriter ==
  ASSUME TInv, TInv', StatusBacklog, Writer
  PROVE  StatusBacklog'
<1> USE StatusesTyped DEF SumOfStatuses
<1>1. UNCHANGED <<fromBridge, rpc, rps>>
  BY DEF Writer, reader
<1>2. StatusCount(fromBridge)' = StatusCount(fromBridge) /\ ReadingStatus' = ReadingStatus
  BY <1>1 DEF StatusCount, ReadingStatus, IsStatus
<1>3. CASE WriterPop \/ WriterCallback \/ WriterData \/ WriterAbort \/ WriterClear
  <2>1. UNCHANGED <<toBridge, packet_status, timeouts>> /\ wpc # "wait" /\ wpc' # "wait"
    BY <1>3 DEF WriterPop, ReadyToPop, WriterCallback, WriterData, WriterAbort,
                WriterClear, queues
  <2> QED BY <1>2, <2>1 DEF StatusBacklog, StatusCount
<1>4. CASE WriterWrite
  <2>1. /\ UNCHANGED <<packet_status, timeouts>> /\ wpc = "write" /\ wpc' = "wait"
        /\ Len(toBridge') = Len(toBridge) + 1
    BY <1>4 DEF WriterWrite, queues, TInv, TypeOK
  <2>2. Statuses' = Statuses + 1 /\ Statuses \in Nat
    BY <1>2, <2>1
  <2> QED BY <2>1, <2>2 DEF StatusBacklog
<1>5. CASE WriterStatus
  <2>1. /\ UNCHANGED <<toBridge, timeouts>> /\ wpc = "wait" /\ wpc' = "pop"
        /\ Len(packet_status') = Len(packet_status) - 1
    BY <1>5 DEF WriterStatus, TInv, TypeOK
  <2>2. Statuses' = Statuses - 1 /\ Statuses \in Nat
    BY <1>2, <2>1
  <2> QED BY <2>1, <2>2 DEF StatusBacklog
<1>6. CASE WriterTimeout
  <2>1. /\ UNCHANGED <<toBridge, packet_status>> /\ wpc = "wait" /\ wpc' # "wait"
        /\ timeouts' = timeouts + 1
    BY <1>6 DEF WriterTimeout, AfterTimeout, queues
  <2>2. Statuses' = Statuses /\ Statuses \in Nat
    BY <1>2, <2>1
  <2>3. CASE LateAnswers
    BY <2>1, <2>2, <2>3 DEF StatusBacklog
  <2>4. CASE ~LateAnswers
    <3>1. toBridge = <<>> /\ NoStatusIn(fromBridge) /\ ~ReadingStatus
          /\ packet_status = <<>>
      BY <1>6, <2>4 DEF WriterTimeout, TimedOut, StatusUnderway, NoStatusIn
    <3>2. fromBridge \in Seq(BridgeMessage)
      BY DEF TInv, TypeOK
    <3>3. StatusCount(fromBridge) = 0
      BY <3>1, <3>2, StatusCountNat
    <3>4. Statuses = 0
      BY <3>1, <3>3
    <3> QED BY <2>1, <2>2, <2>4, <3>4 DEF StatusBacklog
  <2> QED BY <2>3, <2>4
<1> QED BY <1>3, <1>4, <1>5, <1>6 DEF Writer

\* The reader moves a status from the line to packet_status.
LEMMA BacklogReader ==
  ASSUME TInv, TInv', StatusBacklog, Reader
  PROVE  StatusBacklog'
<1> USE StatusesTyped DEF SumOfStatuses
<1>1. UNCHANGED <<wpc, toBridge, timeouts>>
  BY DEF Reader
<1>2. SUFFICES Statuses' = Statuses
  BY <1>1 DEF StatusBacklog
<1>3. ASSUME UNCHANGED <<fromBridge, packet_status>>, ReadingStatus' = ReadingStatus
      PROVE  Statuses' = Statuses
  BY <1>1, <1>3 DEF Statuses, IsStatus
<1>4. CASE ReadPacket \/ ReadStatus
  <2>1. /\ fromBridge \in Seq(BridgeMessage) /\ fromBridge # <<>>
        /\ fromBridge' = Tail(fromBridge) /\ packet_status' = packet_status
        /\ ~ReadingStatus
        /\ ReadingStatus' <=> IsStatus(Head(fromBridge))
    <3>1. /\ fromBridge # <<>> /\ fromBridge' = Tail(fromBridge)
          /\ packet_status' = packet_status /\ rpc = "read"
      BY <1>4 DEF ReadPacket, ReadStatus
    <3>2. rps'.type = Head(fromBridge).type
      BY <1>4 DEF ReadPacket, ReadStatus, PairWithNode, Paired
    <3>3. rpc' # "read"
      BY <1>4 DEF ReadPacket, ReadStatus
    <3>4. fromBridge \in Seq(BridgeMessage)
      BY DEF TInv, TypeOK
    <3> QED BY <3>1, <3>2, <3>3, <3>4 DEF ReadingStatus, IsStatus
  <2>2. StatusCount(fromBridge) = StatusCount(fromBridge')
                                    + (IF IsStatus(Head(fromBridge)) THEN 1 ELSE 0)
    BY <2>1, StatusCountTail
  <2>3. StatusCount(fromBridge') = StatusCount(fromBridge)'
    BY DEF StatusCount, IsStatus
  <2> QED BY <1>1, <2>1, <2>2, <2>3
<1>5. CASE ReaderPush
  <2>1. /\ ReadingStatus /\ ~ReadingStatus' /\ fromBridge' = fromBridge
        /\ Len(packet_status') = Len(packet_status) + 1
    BY <1>5 DEF ReaderPush, ReadingStatus, TInv, TypeOK
  <2>2. StatusCount(fromBridge)' = StatusCount(fromBridge)
    BY <2>1 DEF StatusCount, IsStatus
  <2> QED BY <1>1, <2>1, <2>2
<1>6. CASE ReaderQueue
  BY <1>3, <1>6 DEF ReaderQueue, AfterQueue, ReadingStatus, IsStatus, TInv, TypeOK,
                    PacketStream
<1>7. CASE ReadCallback \/ ReadData
  <2>1. rps'.type = rps.type
    BY <1>7 DEF ReadCallback, ReadData, TInv, TypeOK, PacketStream
  <2> QED BY <1>3, <1>7, <2>1 DEF ReadCallback, ReadData, ReadingStatus, IsStatus
<1>8. CASE StoreCallback \/ ReaderClear \/ Segfault
  BY <1>3, <1>8 DEF StoreCallback, ReaderClear, Segfault, ReadingStatus, IsStatus
<1> QED BY <1>4, <1>5, <1>6, <1>7, <1>8 DEF Reader

\* The bridge turns a message into a status, or loses it.
LEMMA BacklogBridge ==
  ASSUME TInv, TInv', StatusBacklog, Bridge \/ Bus
  PROVE  StatusBacklog'
<1> USE StatusesTyped DEF SumOfStatuses
<1>1. UNCHANGED <<wpc, packet_status, rpc, rps, timeouts>>
  BY DEF Bridge, Bus, BridgeFrame, queues, reader
<1>2. /\ ReadingStatus' = ReadingStatus
      /\ StatusCount(fromBridge)' = StatusCount(fromBridge')
      /\ fromBridge \in Seq(BridgeMessage)
  BY <1>1 DEF ReadingStatus, IsStatus, StatusCount, TInv, TypeOK
<1>3. SUFFICES Len(toBridge') + StatusCount(fromBridge')
                 <= Len(toBridge) + StatusCount(fromBridge)
  BY <1>1, <1>2 DEF StatusBacklog
<1>4. toBridge # <<>> => Len(Tail(toBridge)) = Len(toBridge) - 1
  BY DEF TInv, TypeOK
<1>5. CASE BridgeLose \/ BridgeLoseDone
  <2>1. toBridge # <<>> /\ toBridge' = Tail(toBridge) /\ fromBridge' = fromBridge
    BY <1>5 DEF BridgeLose, BridgeLoseDone
  <2> QED BY <1>4, <2>1
<1>6. ASSUME NEW type \in {"DONE", "ABORT"}, BridgeAnswer(type)
      PROVE  <1>3!1
  <2> DEFINE m == StatusFor(type, Head(toBridge))
  <2>1. m \in BridgeMessage /\ IsStatus(m)
    BY <1>6, RecordsTyped DEF BridgeAnswer, StatusFor, IsStatus, TInv, TypeOK
  <2>2. fromBridge' = Append(fromBridge, m)
    BY <1>6 DEF BridgeAnswer
  <2> HIDE DEF m
  <2>3. StatusCount(fromBridge') = StatusCount(fromBridge) + 1
    BY <1>2, <2>1, <2>2, StatusCountAppend
  <2> QED BY <1>4, <1>6, <2>3 DEF BridgeAnswer
<1>7. CASE Bus
  <2>1. PICK n \in Nodes \cup {NULL}, flags \in SUBSET Flags : NodePacket(n, flags)
    BY <1>7 DEF Bus
  <2> DEFINE m == [type |-> "PACKET", n |-> n, flags |-> flags,
                   to |-> IF n = NULL THEN NULL ELSE acked[n],
                   missed |-> n # NULL /\ missed[n]]
  <2>2. m \in BridgeMessage /\ ~IsStatus(m)
    BY <2>1 DEF BridgeMessage, IsStatus, TInv, TypeOK, Stream
  <2>3. fromBridge' = Append(fromBridge, m) /\ toBridge' = toBridge
    BY <2>1 DEF NodePacket
  <2> HIDE DEF m
  <2>4. StatusCount(fromBridge') = StatusCount(fromBridge)
    BY <1>2, <2>2, <2>3, StatusCountAppend
  <2> QED BY <2>3, <2>4
<1> QED BY <1>5, <1>6, <1>7 DEF Bridge

\* The statuses nobody waits for never outnumber the messages that timed out,
\* however late the answers are.
THEOREM BacklogBounded == Spec => []StatusBacklog
<1>1. TInv /\ StatusBacklog /\ [Next]_vars => (TInv /\ StatusBacklog)'
  <2> SUFFICES ASSUME TInv, StatusBacklog, [Next]_vars PROVE StatusBacklog'
    BY TInvStep
  <2>1. TInv'
    BY TInvStep
  <2>2. CASE MainLoop \/ UNCHANGED vars
    BY <2>2 DEF MainLoop, MainFrame, vars, queues, reader, bridge, StatusBacklog, Statuses,
                ReadingStatus, IsStatus
  <2> QED BY <2>1, <2>2, BacklogWriter, BacklogReader, BacklogBridge DEF Next, Quiescent
<1> QED BY <1>1, TInvInit, BacklogInit, PTL DEF Spec

-----------------------------------------------------------------------------
(* The packet layer implements the queue of commands that StreamService is *)

\* Streams keeps the form of a sequence of messages.
LEMMA StreamsOf ==
  ASSUME NEW S, NEW s \in Seq(S), \A e \in S : e.data \in Stream
  PROVE  /\ Streams(s) \in Seq(Stream)
         /\ \A e \in S : Streams(<<e>> \o s) = <<e.data>> \o Streams(s)
         /\ \A e \in S : Streams(Append(s, e)) = Append(Streams(s), e.data)
<1>1. Streams(s) \in Seq(Stream)
  BY DEF Streams
<1>2. ASSUME NEW e \in S PROVE Streams(<<e>> \o s) = <<e.data>> \o Streams(s)
  <2> DEFINE t == <<e>> \o s
             u == <<e.data>> \o Streams(s)
  <2>1. t \in Seq(S) /\ Len(t) = Len(s) + 1 /\ t[1] = e
        /\ \A i \in 1..Len(s) : t[i + 1] = s[i]
    OBVIOUS
  <2>2. Streams(t) \in Seq(Stream) /\ Len(Streams(t)) = Len(s) + 1
        /\ \A i \in 1..Len(s) + 1 : Streams(t)[i] = t[i].data
    BY <2>1 DEF Streams
  <2>3. u \in Seq(Stream) /\ Len(u) = Len(s) + 1 /\ u[1] = e.data
        /\ \A i \in 1..Len(s) : u[i + 1] = s[i].data
    BY <1>1 DEF Streams
  <2> HIDE DEF t, u
  <2>4. ASSUME NEW i \in 1..Len(Streams(t)) PROVE Streams(t)[i] = u[i]
    <3>1. CASE i = 1
      BY <2>1, <2>2, <2>3, <3>1
    <3>2. CASE i # 1
      <4>1. PICK j \in 1..Len(s) : i = j + 1
        <5>1. i - 1 \in 1..Len(s) /\ i = (i - 1) + 1
          BY <2>2, <3>2
        <5> QED BY <5>1
      <4> QED BY <2>1, <2>2, <2>3, <4>1
    <3> QED BY <3>1, <3>2
  <2>5. Streams(t) = u
    BY <2>2, <2>3, <2>4, SeqEqual
  <2> QED BY <2>5 DEF t, u
<1>3. ASSUME NEW e \in S PROVE Streams(Append(s, e)) = Append(Streams(s), e.data)
  <2> DEFINE t == Append(s, e)
             u == Append(Streams(s), e.data)
  <2>1. t \in Seq(S) /\ Len(t) = Len(s) + 1 /\ t[Len(s) + 1] = e
        /\ \A i \in 1..Len(s) : t[i] = s[i]
    OBVIOUS
  <2>2. Streams(t) \in Seq(Stream) /\ Len(Streams(t)) = Len(s) + 1
        /\ \A i \in 1..Len(s) + 1 : Streams(t)[i] = t[i].data
    BY <2>1 DEF Streams
  <2>3. u \in Seq(Stream) /\ Len(u) = Len(s) + 1 /\ u[Len(s) + 1] = e.data
        /\ \A i \in 1..Len(s) : u[i] = s[i].data
    BY <1>1 DEF Streams
  <2> HIDE DEF t, u
  <2>4. \A i \in 1..Len(Streams(t)) : Streams(t)[i] = u[i]
    BY <2>1, <2>2, <2>3
  <2>5. Streams(t) = u
    BY <2>2, <2>3, <2>4, SeqEqual
  <2> QED BY <2>5 DEF t, u
<1> QED BY <1>1, <1>2, <1>3

\* The three parts of Outstanding: answers on their way to the clients, the
\* command the writer handles, and what it has not begun.
Told == Streams(Kept(idle, StatusesForClients))
Handled == Streams(InFlight)
Waiting == Streams(Kept(packet_out, Commands))

Parts ==
  /\ Told \in Seq(Stream) /\ Handled \in Seq(Stream) /\ Waiting \in Seq(Stream)
  /\ Outstanding = Told \o Handled \o Waiting
  /\ Handled = IF InFlight = <<>> THEN <<>> ELSE <<wmsg.data>>

\* The three parts of the queue are sequences.
LEMMA PartsTyped == TypeOK => Parts
<1> SUFFICES ASSUME TypeOK PROVE Parts
  OBVIOUS
<1>1. /\ \A m \in Message : m.data \in Stream
      /\ \A ps \in PacketStream : ps.data \in Stream
  BY DEF Message, PacketStream, Stream
<1>2. Kept(idle, StatusesForClients) \in Seq(PacketStream)
      /\ Kept(packet_out, Commands) \in Seq(Message)
  BY KeptTyped DEF TypeOK
<1>3. Told \in Seq(Stream)
  BY <1>1, <1>2, StreamsOf DEF Told
<1>4. Waiting \in Seq(Stream)
  BY <1>1, <1>2, StreamsOf DEF Waiting
<1>5. wmsg.data \in Stream
  BY <1>1 DEF TypeOK
<1>6. InFlight = <<>> \/ InFlight = <<wmsg>>
  BY DEF InFlight
<1>7. CASE InFlight = <<>>
  BY <1>3, <1>4, <1>7 DEF Parts, Handled, Streams, Outstanding, Told, Waiting
<1>8. CASE InFlight = <<wmsg>>
  <2>1. Handled = <<wmsg.data>> /\ InFlight # <<>>
    BY <1>8 DEF Handled, Streams
  <2> QED BY <1>3, <1>4, <1>5, <2>1 DEF Parts, Outstanding, Told, Handled, Waiting
<1> QED BY <1>6, <1>7, <1>8

\* What a step does to each of the three parts.
LEMMA ToldAppend ==
  ASSUME TypeOK, NEW ps \in PacketStream, idle' = Append(idle, ps)
  PROVE  Told' = IF ps \in StatusesForClients THEN Append(Told, ps.data) ELSE Told
<1>1. idle \in Seq(PacketStream) /\ \A e \in PacketStream : e.data \in Stream
  BY DEF TypeOK, PacketStream
<1>2. Kept(idle', StatusesForClients)
        = IF ps \in StatusesForClients THEN Append(Kept(idle, StatusesForClients), ps)
                                       ELSE Kept(idle, StatusesForClients)
  BY <1>1, KeptAppend
<1>3. Kept(idle, StatusesForClients) \in Seq(PacketStream)
  BY <1>1, KeptTyped
<1>4. Streams(Append(Kept(idle, StatusesForClients), ps))
        = Append(Streams(Kept(idle, StatusesForClients)), ps.data)
  BY <1>1, <1>3, StreamsOf
<1> QED BY <1>2, <1>4 DEF Told

\* The main loop dispatches an idle source.
LEMMA ToldTail ==
  ASSUME TypeOK, idle # <<>>, idle' = Tail(idle)
  PROVE  Told = IF Head(idle) \in StatusesForClients THEN <<Head(idle).data>> \o Told'
                                                     ELSE Told'
<1>0. idle \in Seq(PacketStream) /\ \A e \in PacketStream : e.data \in Stream
  BY DEF TypeOK, PacketStream
<1>1. /\ idle \in Seq(PacketStream) /\ \A e \in PacketStream : e.data \in Stream
      /\ Head(idle) \in PacketStream /\ idle' \in Seq(PacketStream)
  BY <1>0
<1>2. Kept(idle, StatusesForClients)
        = IF Head(idle) \in StatusesForClients
            THEN <<Head(idle)>> \o Kept(idle', StatusesForClients)
            ELSE Kept(idle', StatusesForClients)
  BY <1>1, KeptHead
<1>3. Kept(idle', StatusesForClients) \in Seq(PacketStream)
  BY <1>1, KeptTyped
<1>4. Streams(<<Head(idle)>> \o Kept(idle', StatusesForClients))
        = <<Head(idle).data>> \o Streams(Kept(idle', StatusesForClients))
  BY <1>1, <1>3, StreamsOf
<1> QED BY <1>2, <1>4 DEF Told

\* A message is queued.
LEMMA WaitingAppend ==
  ASSUME TypeOK, NEW m \in Message, packet_out' = Append(packet_out, m)
  PROVE  Waiting' = IF m \in Commands THEN Append(Waiting, m.data) ELSE Waiting
<1>1. packet_out \in Seq(Message) /\ \A e \in Message : e.data \in Stream
  BY DEF TypeOK, Message, Stream
<1>2. Kept(packet_out', Commands)
        = IF m \in Commands THEN Append(Kept(packet_out, Commands), m)
                            ELSE Kept(packet_out, Commands)
  BY <1>1, KeptAppend
<1>3. Kept(packet_out, Commands) \in Seq(Message)
  BY <1>1, KeptTyped
<1>4. Streams(Append(Kept(packet_out, Commands), m))
        = Append(Streams(Kept(packet_out, Commands)), m.data)
  BY <1>1, <1>3, StreamsOf
<1> QED BY <1>2, <1>4 DEF Waiting

\* The writer takes a message.
LEMMA WaitingTail ==
  ASSUME TypeOK, packet_out # <<>>, packet_out' = Tail(packet_out)
  PROVE  Waiting = IF Head(packet_out) \in Commands
                     THEN <<Head(packet_out).data>> \o Waiting' ELSE Waiting'
<1>1. /\ packet_out \in Seq(Message) /\ \A e \in Message : e.data \in Stream
      /\ Head(packet_out) \in Message /\ packet_out' \in Seq(Message)
  BY DEF TypeOK, Message, Stream
<1>2. Kept(packet_out, Commands)
        = IF Head(packet_out) \in Commands
            THEN <<Head(packet_out)>> \o Kept(packet_out', Commands)
            ELSE Kept(packet_out', Commands)
  BY <1>1, KeptHead
<1>3. Kept(packet_out', Commands) \in Seq(Message)
  BY <1>1, KeptTyped
<1>4. Streams(<<Head(packet_out)>> \o Kept(packet_out', Commands))
        = <<Head(packet_out).data>> \o Streams(Kept(packet_out', Commands))
  BY <1>1, <1>3, StreamsOf
<1> QED BY <1>2, <1>4 DEF Waiting

\* Messages for the daemon itself are nobody's command.
LEMMA WaitingPlain ==
  ASSUME TypeOK, NEW k \in Nat, packet_out' = packet_out \o [i \in 1..k |-> Plain]
  PROVE  Waiting' = Waiting
<1> DEFINE plain == [i \in 1..k |-> Plain]
<1>1. Plain \in Message /\ Plain \notin Commands /\ packet_out \in Seq(Message)
  BY DEF Plain, Message, Commands, TypeOK
<1>2. plain \in Seq(Message) /\ packet_out' = packet_out \o plain
      /\ \A i \in DOMAIN plain : plain[i] \notin Commands
  BY <1>1
<1> HIDE DEF plain
<1>3. Kept(packet_out \o plain, Commands) = Kept(packet_out, Commands)
  BY <1>1, <1>2, KeptNone
<1> QED BY <1>2, <1>3 DEF Waiting

\* PartsTyped, in the next state.
LEMMA PartsTypedNext == TypeOK' => Parts'
  BY PartsTyped, PTL

\* A step that changes none of the parts is a stutter.
LEMMA PartsUnchanged ==
  /\ UNCHANGED idle => UNCHANGED Told
  /\ UNCHANGED packet_out => UNCHANGED Waiting
  BY DEF Told, Waiting

\* A post is a command, a status that is dispatched an answer.
LEMMA ServiceMainLoop ==
  ASSUME TInv, TInv', MainLoop
  PROVE  Service!Next \/ UNCHANGED <<Outstanding, answered>>
<1>1. Parts /\ Parts' /\ TypeOK
  BY PartsTyped, PartsTypedNext DEF TInv
<1>2. InFlight' = InFlight /\ wmsg' = wmsg
  BY DEF MainLoop, MainFrame, reader, InFlight, StatusQueued
<1>3. Handled' = Handled
  BY <1>2 DEF Handled
<1>4. ASSUME NEW c \in Clients, NEW n \in Nodes, packet_streamPacket(c, n)
      PROVE  Service!Command(c)
  <2> DEFINE m == [n |-> n, data |-> c]
  <2>1. m \in Message /\ m \in Commands /\ m.data = c /\ c \in Stream
    BY PacketAssumption DEF Message, Commands, Stream
  <2>2. packet_out' = Append(packet_out, m) /\ UNCHANGED <<idle, answered>>
    BY <1>4 DEF packet_streamPacket
  <2> HIDE DEF m
  <2>3. Waiting' = Append(Waiting, c) /\ Told' = Told
    BY <1>1, <2>1, <2>2, WaitingAppend, PartsUnchanged
  <2>4. Outstanding' = Append(Outstanding, c)
    <3>1. /\ Told \in Seq(Stream) /\ Handled \in Seq(Stream) /\ Waiting \in Seq(Stream)
          /\ Outstanding = (Told \o Handled) \o Waiting
          /\ Outstanding' = (Told \o Handled) \o Append(Waiting, c)
      BY <1>1, <1>3, <2>3 DEF Parts
    <3> DEFINE x == Told \o Handled
    <3>2. x \in Seq(Stream)
      BY <3>1
    <3> HIDE DEF x
    <3>3. x \o Append(Waiting, c) = Append(x \o Waiting, c)
      BY <2>1, <3>1, <3>2
    <3> QED BY <3>1, <3>3 DEF x
  <2> QED BY <2>2, <2>4 DEF Service!Command
<1>5. ASSUME NEW k \in Nat, Outpackets(k) PROVE Waiting' = Waiting
  BY <1>1, <1>5, WaitingPlain DEF Outpackets
<1>6. CASE packet_outpacket
  <2>1. Waiting' = Waiting /\ Told' = Told /\ answered' = answered
    BY <1>5, <1>6, PartsUnchanged DEF packet_outpacket
  <2> QED BY <1>1, <1>3, <2>1 DEF Parts
<1>7. CASE packet_inpacket
  <2> DEFINE ps == Head(idle)
  <2>1. /\ idle # <<>> /\ idle' = Tail(idle)
        /\ answered' = [c \in Clients |-> answered[c] + (IF Answers(ps, c) THEN 1 ELSE 0)]
        /\ \E k \in Nat : Outpackets(k)
    <3>1. \E k \in 0..(MaxPosts - posts) \cup {0} : Outpackets(k)
      BY <1>7 DEF packet_inpacket
    <3> QED BY <1>7, <3>1 DEF packet_inpacket
  <2>2. ps \in PacketStream /\ answered \in [Clients -> Nat]
    BY <1>1, <2>1 DEF TypeOK
  <2>3. Waiting' = Waiting
    BY <1>5, <2>1
  <2>4. Told = IF ps \in StatusesForClients THEN <<ps.data>> \o Told' ELSE Told'
    BY <1>1, <2>1, ToldTail
  <2>5. \A c \in Clients : Answers(ps, c) <=> ps \in StatusesForClients /\ ps.data = c
    BY <2>2 DEF Answers, StatusesForClients
  <2>6. ps.data \in Stream
    BY <2>2 DEF PacketStream
  <2> HIDE DEF ps
  <2>7. CASE ps \in StatusesForClients
    <3>1. Outstanding = <<ps.data>> \o Outstanding'
      <4>1. /\ Told' \in Seq(Stream) /\ Handled \in Seq(Stream) /\ Waiting \in Seq(Stream)
            /\ Outstanding = (<<ps.data>> \o Told') \o Handled \o Waiting
            /\ Outstanding' = Told' \o Handled \o Waiting
        BY <1>1, <1>3, <2>3, <2>4, <2>7 DEF Parts
      <4>2. <<ps.data>> \in Seq(Stream) /\ Told' \o Handled \in Seq(Stream)
        BY <2>6, <4>1
      <4>3. (<<ps.data>> \o Told') \o Handled = <<ps.data>> \o (Told' \o Handled)
        BY <4>1, <4>2, ConcatAssociative
      <4>4. (<<ps.data>> \o (Told' \o Handled)) \o Waiting
              = <<ps.data>> \o ((Told' \o Handled) \o Waiting)
        BY <4>1, <4>2, ConcatAssociative
      <4> QED BY <4>1, <4>3, <4>4
    <3>2. Outstanding' \in Seq(Stream)
      BY <1>1 DEF Parts
    <3>3. Outstanding # <<>> /\ Head(Outstanding) = ps.data /\ Outstanding' = Tail(Outstanding)
      BY <2>6, <3>1, <3>2
    <3>4. answered' = [answered EXCEPT ![ps.data] = @ + 1]
      <4> DEFINE f == [answered EXCEPT ![ps.data] = @ + 1]
      <4>1. f = [c \in Clients |-> IF c = ps.data THEN answered[c] + 1 ELSE answered[c]]
        BY <2>2
      <4>2. \A c \in Clients : answered[c] \in Nat
        BY <2>2
      <4>3. \A c \in Clients : answered'[c] = IF c = ps.data THEN answered[c] + 1 ELSE answered[c]
        BY <2>1, <2>5, <2>7, <4>2
      <4> QED BY <2>1, <4>1, <4>3
    <3> QED BY <3>3, <3>4 DEF Service!Next, Service!Answer
  <2>8. CASE ps \notin StatusesForClients
    <3>1. Outstanding' = Outstanding
      BY <1>1, <1>3, <2>3, <2>4, <2>8 DEF Parts
    <3>2. answered' = answered
      BY <2>1, <2>2, <2>5, <2>8
    <3> QED BY <3>1, <3>2
  <2> QED BY <2>7, <2>8
<1> QED BY <1>4, <1>6, <1>7 DEF MainLoop, Service!Next

\* The command the writer handles leaves its queue, and its answer comes to
\* the end of the answers.
LEMMA ServiceWriter ==
  ASSUME TInv, TInv', Handshake, Writer, Calm'
  PROVE  UNCHANGED <<Outstanding, answered>>
<1>1. Parts /\ Parts' /\ TypeOK
  BY PartsTyped, PartsTypedNext DEF TInv
<1>2. UNCHANGED <<rpc, rps, answered>>
  BY DEF Writer, reader
<1>3. wpc # "wait" => ~StatusQueued
  BY DEF Handshake, Lost, StatusQueued, TInv, ReadingStatus
<1>4. wmsg.data \in Stream /\ wmsg'.data \in Stream
  BY DEF TInv, TypeOK, Message, Stream
<1>5. ASSUME UNCHANGED <<Told, Waiting, Handled>> PROVE Outstanding' = Outstanding
  BY <1>1, <1>5 DEF Parts
<1>6. CASE WriterPop
  <2>1. InFlight = <<>> /\ Handled = <<>> /\ Told' = Told
    BY <1>1, <1>6, PartsUnchanged DEF WriterPop, ReadyToPop, InFlight, Parts
  <2>2. Waiting = IF wmsg' \in Commands THEN <<wmsg'.data>> \o Waiting' ELSE Waiting'
    BY <1>1, <1>6, WaitingTail DEF WriterPop
  <2>3. InFlight' = IF wmsg' \in Commands THEN <<wmsg'>> ELSE <<>>
    BY <1>6 DEF WriterPop, InFlight, Commands, TInv, TypeOK
  <2>4. Handled' = IF wmsg' \in Commands THEN <<wmsg'.data>> ELSE <<>>
    BY <1>1, <2>3 DEF Parts
  <2>5. Outstanding' = Outstanding
    <3>1. CASE wmsg' \in Commands
      <4>1. Outstanding' = Told \o <<wmsg'.data>> \o Waiting'
            /\ Outstanding = Told \o <<>> \o (<<wmsg'.data>> \o Waiting')
        BY <1>1, <2>1, <2>2, <2>4, <3>1 DEF Parts
      <4>2. Told \in Seq(Stream) /\ Waiting' \in Seq(Stream) /\ <<wmsg'.data>> \in Seq(Stream)
        BY <1>1, <1>4 DEF Parts
      <4>3. Told \o <<>> = Told
        BY <4>2, ConcatEmptySeq
      <4> QED BY <4>1, <4>2, <4>3, ConcatAssociative
    <3>2. CASE wmsg' \notin Commands
      BY <1>1, <2>1, <2>2, <2>4, <3>2 DEF Parts
    <3> QED BY <3>1, <3>2
  <2> QED BY <1>2, <2>5
<1>7. CASE WriterCallback \/ WriterData
  <2>1. InFlight' = InFlight /\ UNCHANGED <<idle, packet_out, wmsg>>
    BY <1>7 DEF WriterCallback, WriterData, InFlight, queues
  <2> QED BY <1>2, <1>5, <2>1, PartsUnchanged DEF Handled
<1>8. CASE WriterWrite
  <2>1. ~StatusQueued' /\ wpc = "write" /\ wpc' = "wait"
        /\ UNCHANGED <<idle, packet_out, wmsg>>
    BY <1>2, <1>3, <1>8 DEF WriterWrite, StatusQueued, queues
  <2>2. InFlight' = InFlight
    BY <2>1 DEF InFlight
  <2> QED BY <1>2, <1>5, <2>1, <2>2, PartsUnchanged DEF Handled
<1>9. CASE WriterStatus
  <2>1. InFlight = <<>> /\ InFlight' = <<>> /\ UNCHANGED <<idle, packet_out, wmsg>>
    BY <1>9 DEF WriterStatus, InFlight, StatusQueued
  <2> QED BY <1>2, <1>5, <2>1, PartsUnchanged DEF Handled
<1>10. CASE WriterTimeout
  <2>1. ~LateAnswers
    BY <1>10 DEF WriterTimeout, Calm, TInv, TypeOK
  <2>2. ~StatusQueued
    BY <1>10, <2>1
       DEF WriterTimeout, TimedOut, StatusUnderway, StatusQueued, ReadingStatus, TInv
  <2>3. /\ UNCHANGED <<idle, packet_out, wmsg>> /\ wpc = "wait"
        /\ wpc' = IF wmsg.n = NULL THEN "pop" ELSE "abort"
    BY <1>10 DEF WriterTimeout, AfterTimeout, queues, TInv
  <2>4. InFlight' = InFlight
    BY <2>2, <2>3 DEF InFlight
  <2> QED BY <1>2, <1>5, <2>3, <2>4, PartsUnchanged DEF Handled
<1>11. CASE WriterAbort
  <2> DEFINE ps == Paired(StatusFor("ABORT", wmsg), nextcallback[nextnode],
                          nextdata[nextnode])
  <2>1. nextcallback[nextnode] = "tcp_reply" /\ nextdata[nextnode] = wmsg.data
    BY <1>11 DEF WriterAbort, Handshake, FieldsMatch, CallbackSet, TInv
  <2>2. ps \in PacketStream
    <3>1. StatusFor("ABORT", wmsg) \in BridgeMessage
      BY RecordsTyped DEF TInv, TypeOK
    <3>2. "tcp_reply" \in Callback
      BY DEF Callback
    <3> QED BY <1>4, <2>1, <3>1, <3>2, RecordsTyped
  <2>3. ps \in StatusesForClients /\ ps.data = wmsg.data
    BY <2>1, <2>2 DEF StatusesForClients, ToCallback, IsStatus, Paired, StatusFor
  <2>4. idle' = Append(idle, ps) /\ UNCHANGED packet_out
    BY <1>11 DEF WriterAbort
  <2> HIDE DEF ps
  <2>5. Told' = Append(Told, wmsg.data) /\ Waiting' = Waiting
    BY <1>1, <2>2, <2>3, <2>4, ToldAppend, PartsUnchanged
  <2>6. InFlight = <<wmsg>> /\ InFlight' = <<>>
    BY <1>11 DEF WriterAbort, InFlight, TInv
  <2>7. Handled = <<wmsg.data>> /\ Handled' = <<>>
    BY <1>1, <2>6 DEF Parts
  <2>8. Told \in Seq(Stream) /\ Waiting \in Seq(Stream)
    BY <1>1 DEF Parts
  <2>9. Append(Told, wmsg.data) \o <<>> = Told \o <<wmsg.data>>
    BY <1>4, <2>8
  <2> QED BY <1>1, <1>2, <2>5, <2>7, <2>9 DEF Parts
<1>12. CASE WriterClear
  <2>1. InFlight = <<>> /\ InFlight' = <<>> /\ UNCHANGED <<idle, packet_out, wmsg>>
    BY <1>12 DEF WriterClear, InFlight, queues
  <2> QED BY <1>2, <1>5, <2>1, PartsUnchanged DEF Handled
<1> QED BY <1>6, <1>7, <1>8, <1>9, <1>10, <1>11, <1>12 DEF Writer

\* The reader moves a command from the writer to the idle sources.
LEMMA ServiceReader ==
  ASSUME TInv, TInv', Handshake, Reader
  PROVE  UNCHANGED <<Outstanding, answered>>
<1>1. Parts /\ Parts' /\ TypeOK
  BY PartsTyped, PartsTypedNext DEF TInv
<1>2. UNCHANGED <<packet_out, wpc, wmsg, answered>>
  BY DEF Reader
<1>3. ASSUME UNCHANGED idle, InFlight' = InFlight
      PROVE  UNCHANGED <<Outstanding, answered>>
  <2>1. UNCHANGED <<Told, Waiting, Handled>>
    BY <1>2, <1>3, PartsUnchanged DEF Handled
  <2> QED BY <1>1, <1>2, <2>1 DEF Parts
<1>4. ReadingStatus => BeingRead /\ wpc = "wait"
  BY DEF Handshake, OneStatus, Lost, Unanswered, OnTheLine, Queued
<1>5. CASE ReaderQueue
  <2>1. idle' = Append(idle, rps) /\ rps \in PacketStream /\ UNCHANGED packet_status
        /\ rpc = "queue" /\ rpc' = AfterQueue
    BY <1>5 DEF ReaderQueue, TInv, TypeOK
  <2>2. CASE ~IsStatus(rps)
    <3>1. Told' = Told /\ Waiting' = Waiting
      BY <1>1, <1>2, <2>1, <2>2, ToldAppend, PartsUnchanged DEF StatusesForClients
    <3>2. rpc' = "read"
      BY <2>1, <2>2 DEF AfterQueue, IsStatus
    <3>3. InFlight' = InFlight
      BY <1>2, <2>1, <3>2 DEF InFlight, StatusQueued
    <3>4. Handled' = Handled
      BY <3>3 DEF Handled
    <3> QED BY <1>1, <1>2, <3>1, <3>4 DEF Parts
  <2>3. CASE IsStatus(rps)
    <3>1. BeingRead /\ wpc = "wait" /\ rps.callback = "tcp_reply" /\ rps.data = wmsg.data
          /\ packet_status = <<>> /\ wmsg.n # NULL
      BY <1>4, <2>1, <2>3 DEF ReadingStatus, BeingRead, CallbackRead, DataRead
    <3>2. rpc' \in {"push", "clear"}
      BY <2>1, <2>3 DEF AfterQueue, IsStatus, PacketStream
    <3>3. rps \in StatusesForClients
      BY <2>1, <2>3, <3>1 DEF StatusesForClients, ToCallback
    <3>4. Told' = Append(Told, wmsg.data) /\ Waiting' = Waiting
      BY <1>1, <1>2, <2>1, <3>1, <3>3, ToldAppend, PartsUnchanged
    <3>5. InFlight = <<wmsg>> /\ InFlight' = <<>>
      BY <1>2, <2>1, <3>1, <3>2 DEF InFlight, StatusQueued
    <3>6. Handled = <<wmsg.data>> /\ Handled' = <<>>
      BY <1>1, <3>5 DEF Parts
    <3>7. Told \in Seq(Stream) /\ wmsg.data \in Stream
      BY <1>1 DEF Parts, TypeOK, Message, Stream
    <3>8. Append(Told, wmsg.data) \o <<>> = Told \o <<wmsg.data>>
      BY <3>7
    <3> QED BY <1>1, <1>2, <3>4, <3>6, <3>8 DEF Parts
  <2> QED BY <2>2, <2>3
<1>6. CASE ReaderPush
  <2>1. rpc = "push" /\ idle' = idle /\ packet_status' = Append(packet_status, rps.type)
    BY <1>6 DEF ReaderPush
  <2>2. packet_status' # <<>>
    <3>1. rps.type \in {"DONE", "ABORT"} /\ packet_status \in Seq({"DONE", "ABORT"})
      BY <2>1 DEF TInv, TypeOK, ReadingStatus, IsStatus, PacketStream
    <3> QED BY <2>1, <3>1
  <2>3. StatusQueued /\ StatusQueued'
    BY <2>1, <2>2 DEF StatusQueued
  <2> QED BY <1>2, <1>3, <2>1, <2>3 DEF InFlight
<1>7. CASE ReadStatus
  <2>1. wmsg.n # NULL => rpc = "read" /\ rpc' \in {"callback", "data"}
    BY <1>7 DEF ReadStatus, TInv
  <2> QED BY <1>2, <1>3, <1>7, <2>1 DEF ReadStatus, InFlight, StatusQueued
<1>8. CASE ReadPacket \/ ReadCallback \/ StoreCallback \/ ReadData \/ ReaderClear
  BY <1>2, <1>3, <1>8 DEF ReadPacket, ReadCallback, StoreCallback, ReadData, ReaderClear,
                          InFlight, StatusQueued
<1>9. CASE Segfault
  <2>1. ReadingStatus /\ rpc \in {"callback", "store", "data", "clear"} /\ nextnode = NULL
    BY <1>9 DEF Segfault, ReadingStatus, TInv
  <2> QED BY <1>4, <2>1 DEF TInv, BeingRead
<1> QED BY <1>5, <1>6, <1>7, <1>8, <1>9 DEF Reader

\* No command is unanswered.
LEMMA ServiceInit == Init => Service!Init
<1> SUFFICES ASSUME Init PROVE Service!Init
  OBVIOUS
<1>1. Kept(idle, StatusesForClients) = <<>> /\ Kept(packet_out, Commands) = <<>>
  BY KeptEmpty DEF Init
<1>2. InFlight = <<>>
  BY DEF Init, InFlight, Plain
<1>3. Outstanding = <<>>
  BY <1>1, <1>2 DEF Outstanding, Streams
<1> QED BY <1>3 DEF Init, Service!Init

\* As long as no message has timed out under late answers (never, when every
\* answer is lost or prompt), the three threads, the shared fields and the
\* lossy line implement the queue of commands that StreamService is: every
\* command is answered at most once, on its own connection, in order.
THEOREM ServiceImplemented == Spec /\ []Calm => ImplementsStreamService
<1>1. IInv /\ IInv' /\ Calm /\ Calm' /\ [Next]_vars => [Service!Next]_<<Outstanding, answered>>
  <2> SUFFICES ASSUME IInv, IInv', Calm, Calm', [Next]_vars
               PROVE  Service!Next \/ UNCHANGED <<Outstanding, answered>>
    OBVIOUS
  <2>1. TInv /\ TInv' /\ Handshake
    BY DEF IInv
  <2>2. CASE Bridge \/ Bus \/ UNCHANGED vars
    <3>1. UNCHANGED <<idle, packet_out, wpc, wmsg, rpc, packet_status, answered>>
      BY <2>2 DEF Bridge, Bus, BridgeFrame, vars, queues, reader
    <3> QED BY <3>1 DEF Outstanding, InFlight, StatusQueued
  <2> QED BY <2>1, <2>2, ServiceMainLoop, ServiceWriter, ServiceReader DEF Next, Quiescent
<1> QED BY <1>1, ServiceInit, Invariance, PTL DEF Spec, ImplementsStreamService, Service!Spec
=============================================================================
