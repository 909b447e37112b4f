------------------------------- MODULE Packet -------------------------------
(***************************************************************************)
(* The packet layer of ubd (packet.c): the main loop, the writer thread    *)
(* and the reader thread that share the serial line to the bridge.         *)
(*                                                                         *)
(* The main loop queues messages on packet_out.  The writer pops one,      *)
(* notes its node in the global nextnode and its callback in that node,    *)
(* writes it to the line and waits up to two seconds on packet_status.     *)
(* The reader takes statuses and packets from the line, pairs them with    *)
(* the callback it finds in the shared fields and hands them to the main   *)
(* loop as idle sources.  No lock protects the shared fields: every read   *)
(* and every write of one is a step of its own.                            *)
(***************************************************************************)
EXTENDS Naturals, Sequences, FiniteSets

CONSTANTS
  Clients,      \* output streams of TCP connections: the "data" of a stream
  Nodes,        \* entries of the node table
  NULL,         \* the null pointer
  LateAnswers,  \* may the bridge answer after the writer has stopped waiting?
  MaxPosts,     \* bound: messages the main loop queues
  MaxPackets    \* bound: packets nodes send

ASSUME PacketAssumption ==
  /\ NULL \notin Clients \cup Nodes
  /\ LateAnswers \in BOOLEAN
  /\ MaxPosts \in Nat
  /\ MaxPackets \in Nat

VARIABLES
  packet_out,       \* queue of messages: main loop to writer
  packet_status,    \* queue of statuses: reader to writer
  idle,             \* idle sources of the main loop, oldest first
  nextnode,         \* node of the message the writer handles
  nextcallback,     \* per node: callback of the last message written to it
  nextdata,
  currentcallback,  \* per node: callback of the last message acknowledged
  currentdata,
  wpc, wmsg,        \* writer thread: next statement, local msg
  rpc, rps,         \* reader thread: next statement, local ps
  toBridge,         \* messages on the line the bridge has not answered
  fromBridge,       \* what the bridge sent and the reader has not read
  posts, heard,     \* how many messages were queued, how many packets sent
  asked,            \* history: commands each client streamed
  answered,         \* history: 'A' and 'N' written to each client
  acked,            \* history: whose command the node acknowledged last
  missed,           \* history: the acknowledgement of the last one was lost
                    \* and the writer has not given up waiting for it
  timeouts          \* history: how often the writer gave up waiting

queues == <<packet_out, packet_status, idle>>
next == <<nextnode, nextcallback, nextdata>>
current == <<currentcallback, currentdata>>
reader == <<rpc, rps>>
bridge == <<toBridge, fromBridge, heard, acked, missed>>
vars == <<queues, next, current, wpc, wmsg, reader, bridge, posts, asked,
          answered, timeouts>>

-----------------------------------------------------------------------------
(* Data *)

Flags == {"MGT", "UNSOLICITED"}
Callback == {"tcp_reply", "null"}
Stream == Clients \cup {NULL}

\* struct messagestream: a stream to a node has the callback tcp_reply, a
\* packet_outpacket() has no node, no callback and no data.
Message == [n : Nodes, data : Clients] \cup [n : {NULL}, data : {NULL}]
Plain == [n |-> NULL, data |-> NULL]

\* What the bridge sends: PACKET_DONE, PACKET_ABORT or a packet of a node.
\* "to" is history: whose message a status answers, whose command a node had
\* acknowledged last when it sent a packet.  So is "missed": the packet was
\* sent while that acknowledgement was missed.
BridgeMessage == [type : {"DONE", "ABORT", "PACKET"}, n : Nodes \cup {NULL},
                  flags : SUBSET Flags, to : Stream, missed : BOOLEAN]

\* struct packetstream
PacketStream == [type : {"DONE", "ABORT", "PACKET"}, n : Nodes \cup {NULL},
                 flags : SUBSET Flags, to : Stream, missed : BOOLEAN,
                 callback : Callback, data : Stream]

IsStatus(m) == m.type # "PACKET"
StatusFor(type, m) == [type |-> type, n |-> NULL, flags |-> {}, to |-> m.data,
                       missed |-> FALSE]
Paired(m, cb, d) == [type |-> m.type, n |-> m.n, flags |-> m.flags,
                     to |-> m.to, missed |-> m.missed, callback |-> cb, data |-> d]

TypeOK ==
  /\ packet_out \in Seq(Message)
  /\ packet_status \in Seq({"DONE", "ABORT"})
  /\ idle \in Seq(PacketStream)
  /\ nextnode \in Nodes \cup {NULL}
  /\ nextcallback \in [Nodes -> Callback]
  /\ nextdata \in [Nodes -> Stream]
  /\ currentcallback \in [Nodes -> Callback]
  /\ currentdata \in [Nodes -> Stream]
  /\ wpc \in {"pop", "callback", "data", "write", "wait", "abort", "clear"}
  /\ wmsg \in Message
  /\ rpc \in {"read", "callback", "store", "data", "queue", "clear", "push",
              "segfault"}
  /\ rps \in PacketStream
  /\ toBridge \in Seq(Message)
  /\ fromBridge \in Seq(BridgeMessage)
  /\ posts \in 0..MaxPosts
  /\ heard \in 0..MaxPackets
  /\ asked \in [Clients -> Nat]
  /\ answered \in [Clients -> Nat]
  /\ acked \in [Nodes -> Stream]
  /\ missed \in [Nodes -> BOOLEAN]
  /\ timeouts \in Nat

Init ==
  /\ packet_out = <<>> /\ packet_status = <<>> /\ idle = <<>>
  /\ nextnode = NULL
  /\ nextcallback = [n \in Nodes |-> "null"]
  /\ nextdata = [n \in Nodes |-> NULL]
  /\ currentcallback = nextcallback /\ currentdata = nextdata
  /\ wpc = "pop" /\ wmsg = Plain
  /\ rpc = "read" /\ rps = Paired(StatusFor("DONE", Plain), "null", NULL)
  /\ toBridge = <<>> /\ fromBridge = <<>>
  /\ posts = 0 /\ heard = 0 /\ timeouts = 0
  /\ asked = [c \in Clients |-> 0] /\ answered = asked
  /\ acked = [n \in Nodes |-> NULL] /\ missed = [n \in Nodes |-> FALSE]

-----------------------------------------------------------------------------
(* Main loop *)

\* tcp_queueNewCommand, tcp_queueNewMgt: stream a client's command to a node.
packet_streamPacket(c, n) ==
  /\ posts < MaxPosts
  /\ posts' = posts + 1
  /\ packet_out' = Append(packet_out, [n |-> n, data |-> c])
  /\ asked' = [asked EXCEPT ![c] = @ + 1]
  /\ UNCHANGED <<idle, answered>>

\* k times packet_outpacket: datagrams for the bus, bus management commands.
Outpackets(k) ==
  /\ posts' = posts + k
  /\ packet_out' = packet_out \o [i \in 1..k |-> Plain]
  /\ UNCHANGED asked

packet_outpacket ==
  /\ posts < MaxPosts
  /\ Outpackets(1)
  /\ UNCHANGED <<idle, answered>>

ToCallback(ps) ==
  /\ ps.callback = "tcp_reply"
  /\ IsStatus(ps) \/ "UNSOLICITED" \notin ps.flags

ToBusmgt(ps) == ~ToCallback(ps) /\ ~IsStatus(ps) /\ "MGT" \in ps.flags

\* tcp_reply writes 'A' or 'N' for a status and relays a packet.
Answers(ps, c) == ToCallback(ps) /\ IsStatus(ps) /\ ps.data = c

\* The idle source: reply to a client, let the bus management handle the
\* packet (it may queue commands of its own), or pass it to the listeners.
packet_inpacket ==
  /\ idle # <<>>
  /\ idle' = Tail(idle)
  /\ answered' = [c \in Clients |->
                    answered[c] + (IF Answers(Head(idle), c) THEN 1 ELSE 0)]
  /\ \E k \in IF ToBusmgt(Head(idle)) THEN 0..(MaxPosts - posts) ELSE {0} :
       Outpackets(k)

MainFrame ==
  UNCHANGED <<packet_status, next, current, wpc, wmsg, reader, bridge, timeouts>>
MainLoop ==
  /\ \/ \E c \in Clients, n \in Nodes : packet_streamPacket(c, n)
     \/ packet_outpacket
     \/ packet_inpacket
  /\ MainFrame

-----------------------------------------------------------------------------
(* Writer thread *)

\* Mutant: the writer does not wait for the status of the last message.
NeverWaits == wpc \in {"pop", "wait"}
ReadyToPop == wpc = "pop"

\* nextnode = msg->n
WriterPop ==
  /\ ReadyToPop /\ packet_out # <<>>
  /\ wmsg' = Head(packet_out)
  /\ packet_out' = Tail(packet_out)
  /\ nextnode' = wmsg'.n
  /\ wpc' = IF wmsg'.n = NULL THEN "write" ELSE "callback"
  /\ UNCHANGED <<packet_status, idle, nextcallback, nextdata, currentcallback,
                 toBridge, timeouts>>

\* msg->n->nextcallback = msg->callback
WriterCallback ==
  /\ wpc = "callback"
  /\ nextcallback' = [nextcallback EXCEPT ![wmsg.n] = "tcp_reply"]
  /\ wpc' = "data"
  /\ UNCHANGED <<queues, nextnode, nextdata, currentcallback, wmsg, toBridge,
                 timeouts>>

WriterData ==
  /\ wpc = "data"
  /\ nextdata' = [nextdata EXCEPT ![wmsg.n] = wmsg.data]
  /\ wpc' = "write"
  /\ UNCHANGED <<queues, nextnode, nextcallback, currentcallback, wmsg,
                 toBridge, timeouts>>

\* serial_writeMessage
WriterWrite ==
  /\ wpc = "write"
  /\ toBridge' = Append(toBridge, wmsg)
  /\ wpc' = "wait"
  /\ UNCHANGED <<queues, next, currentcallback, wmsg, timeouts>>

\* g_async_queue_timed_pop returned a status: whichever it is, go on.
WriterStatus ==
  /\ wpc = "wait" /\ packet_status # <<>>
  /\ packet_status' = Tail(packet_status)
  /\ wpc' = "pop"
  /\ UNCHANGED <<packet_out, idle, next, currentcallback, wmsg, toBridge,
                 timeouts>>

\* A status for the message the writer waits for is still under way.
ReadingStatus == rpc # "read" /\ IsStatus(rps)
StatusUnderway ==
  \/ toBridge # <<>>
  \/ \E i \in DOMAIN fromBridge : IsStatus(fromBridge[i])
  \/ ReadingStatus

\* Mutant: g_async_queue_pop instead of g_async_queue_timed_pop.
BlockingPop == FALSE
\* g_async_queue_timed_pop returned NULL.  Unless LateAnswers, two seconds
\* are longer than any answer takes: the answer, or the message, was lost.
TimedOut == packet_status = <<>> /\ (LateAnswers \/ ~StatusUnderway)
\* Mutant: no PACKET_ABORT for the client of a message that timed out.
SilentTimeout == IF nextnode = NULL THEN "pop" ELSE "clear"
AfterTimeout == IF nextnode = NULL THEN "pop" ELSE "abort"

WriterTimeout ==
  /\ wpc = "wait" /\ TimedOut
  /\ timeouts' = timeouts + 1
  /\ wpc' = AfterTimeout
  /\ UNCHANGED <<queues, next, currentcallback, wmsg, toBridge>>

WriterAbort ==
  /\ wpc = "abort"
  /\ idle' = Append(idle, Paired(StatusFor("ABORT", wmsg),
                                 nextcallback[nextnode], nextdata[nextnode]))
  /\ wpc' = "clear"
  /\ UNCHANGED <<packet_out, packet_status, next, currentcallback, wmsg,
                 toBridge, timeouts>>

\* nextnode->currentcallback = nextnode->nextcallback = NULL
ClearCallbacks ==
  /\ nextcallback' = [nextcallback EXCEPT ![nextnode] = "null"]
  /\ currentcallback' = [currentcallback EXCEPT ![nextnode] = "null"]

WriterClear ==
  /\ wpc = "clear"
  /\ ClearCallbacks
  /\ wpc' = "pop"
  /\ UNCHANGED <<queues, nextnode, nextdata, wmsg, toBridge, timeouts>>

Writer ==
  /\ \/ WriterPop \/ WriterCallback \/ WriterData \/ WriterWrite
     \/ WriterStatus \/ WriterTimeout \/ WriterAbort \/ WriterClear
  /\ missed' = [n \in Nodes |-> missed[n] /\ ~(wpc = "clear" /\ n = nextnode)]
  /\ UNCHANGED <<currentdata, reader, fromBridge, heard, acked, posts, asked,
                 answered>>

-----------------------------------------------------------------------------
(* Reader thread *)

\* Mutant: packets are paired with the last message written, not acknowledged.
PairWithNext(m) == IF m.n = NULL THEN Paired(m, "null", NULL)
                   ELSE Paired(m, nextcallback[m.n], nextdata[m.n])
\* nodes_getNodeByBusAdr(p.src): the stream last acknowledged on the node.
\* Only the reader writes currentdata, so the two fields are read together.
PairWithNode(m) == IF m.n = NULL THEN Paired(m, "null", NULL)
                   ELSE Paired(m, currentcallback[m.n], currentdata[m.n])

ReadPacket ==
  /\ rpc = "read" /\ fromBridge # <<>> /\ ~IsStatus(Head(fromBridge))
  /\ rps' = PairWithNode(Head(fromBridge))
  /\ fromBridge' = Tail(fromBridge)
  /\ rpc' = "queue"
  /\ UNCHANGED <<packet_status, idle, nextcallback, current>>

\* A status: "if( nextnode )" decides whether anybody is told.
ReadStatus ==
  /\ rpc = "read" /\ fromBridge # <<>> /\ IsStatus(Head(fromBridge))
  /\ rps' = Paired(Head(fromBridge), "null", NULL)
  /\ fromBridge' = Tail(fromBridge)
  /\ rpc' = IF nextnode = NULL THEN "push"
            ELSE IF rps'.type = "DONE" THEN "callback" ELSE "data"
  /\ UNCHANGED <<packet_status, idle, nextcallback, current>>

\* ps->callback = ... nextnode->nextcallback
ReadCallback ==
  /\ rpc = "callback" /\ nextnode # NULL
  /\ rps' = [rps EXCEPT !.callback = nextcallback[nextnode]]
  /\ rpc' = IF rps.type = "DONE" THEN "store" ELSE "queue"
  /\ UNCHANGED <<packet_status, idle, nextcallback, current, fromBridge>>

\* ... nextnode->currentcallback = ...
StoreCallback ==
  /\ rpc = "store" /\ nextnode # NULL
  /\ currentcallback' = [currentcallback EXCEPT ![nextnode] = rps.callback]
  /\ rpc' = "data"
  /\ UNCHANGED <<packet_status, idle, nextcallback, currentdata, rps, fromBridge>>

\* Mutant: the stream that was current before the acknowledgement.
StaleStream == currentdata[nextnode]
\* ps->data = nextnode->nextdata, by way of nextnode->currentdata for a
\* PACKET_DONE.  PACKET_ABORT takes the data first and the callback next.
AnsweredStream == nextdata[nextnode]
ReadData ==
  /\ rpc = "data" /\ nextnode # NULL
  /\ rps' = [rps EXCEPT !.data = AnsweredStream]
  /\ currentdata' = IF rps.type = "ABORT" THEN currentdata
                    ELSE [currentdata EXCEPT ![nextnode] = AnsweredStream]
  /\ rpc' = IF rps.type = "DONE" THEN "queue" ELSE "callback"
  /\ UNCHANGED <<packet_status, idle, nextcallback, currentcallback, fromBridge>>

\* g_idle_add(packet_inpacket, ps)
AfterQueue == CASE rps.type = "PACKET" -> "read"
                [] rps.type = "DONE" -> "push"
                [] rps.type = "ABORT" -> "clear"
ReaderQueue ==
  /\ rpc = "queue"
  /\ idle' = Append(idle, rps)
  /\ rpc' = AfterQueue
  /\ UNCHANGED <<packet_status, nextcallback, current, rps, fromBridge>>

ReaderClear ==
  /\ rpc = "clear" /\ nextnode # NULL
  /\ ClearCallbacks
  /\ rpc' = "push"
  /\ UNCHANGED <<packet_status, idle, currentdata, rps, fromBridge>>

\* g_async_queue_push(packet_status, ...)
ReaderPush ==
  /\ rpc = "push"
  /\ packet_status' = Append(packet_status, rps.type)
  /\ rpc' = "read"
  /\ UNCHANGED <<idle, nextcallback, current, rps, fromBridge>>

\* The writer moved on to a message without a node after the reader's test
\* of nextnode: the reader follows a null pointer and the daemon ends.
Segfault ==
  /\ rpc \in {"callback", "store", "data", "clear"} /\ nextnode = NULL
  /\ rpc' = "segfault"
  /\ UNCHANGED <<packet_status, idle, nextcallback, current, rps, fromBridge>>

Reader ==
  /\ \/ ReadPacket \/ ReadStatus \/ ReadCallback \/ StoreCallback
     \/ ReadData \/ ReaderQueue \/ ReaderClear \/ ReaderPush \/ Segfault
  /\ UNCHANGED <<packet_out, nextnode, nextdata, wpc, wmsg, toBridge, posts,
                 heard, asked, answered, acked, missed, timeouts>>

-----------------------------------------------------------------------------
(* The bridge at the other end of the line (firmware, not in this tree) *)

\* The node of message m, if it has one, acknowledged it.
Acknowledge(m, lost) ==
  /\ acked' = [n \in Nodes |-> IF m.n = n THEN m.data ELSE acked[n]]
  /\ missed' = [n \in Nodes |-> IF m.n = n THEN lost ELSE missed[n]]

\* Messages are sent on the bus in order; each ends acknowledged or aborted.
BridgeAnswer(type) ==
  /\ toBridge # <<>>
  /\ toBridge' = Tail(toBridge)
  /\ fromBridge' = Append(fromBridge, StatusFor(type, Head(toBridge)))
  /\ IF type = "DONE" THEN Acknowledge(Head(toBridge), FALSE)
                      ELSE UNCHANGED <<acked, missed>>
  /\ UNCHANGED heard

\* The message, or the status of one that was aborted, is lost on the line.
BridgeLose ==
  /\ toBridge # <<>>
  /\ toBridge' = Tail(toBridge)
  /\ UNCHANGED <<fromBridge, acked, missed, heard>>

\* The node acknowledged the message and only the PACKET_DONE is lost.
BridgeLoseDone ==
  /\ toBridge # <<>>
  /\ toBridge' = Tail(toBridge)
  /\ Acknowledge(Head(toBridge), TRUE)
  /\ UNCHANGED <<fromBridge, heard>>

\* A node, known to the daemon or not, sends a packet.
NodePacket(n, flags) ==
  /\ heard < MaxPackets
  /\ heard' = heard + 1
  /\ fromBridge' = Append(fromBridge,
                     [type |-> "PACKET", n |-> n, flags |-> flags,
                      to |-> IF n = NULL THEN NULL ELSE acked[n],
                      missed |-> n # NULL /\ missed[n]])
  /\ UNCHANGED <<toBridge, acked, missed>>

BridgeFrame ==
  UNCHANGED <<queues, next, current, wpc, wmsg, reader, posts, asked, answered,
              timeouts>>
Bridge ==
  /\ BridgeLose \/ BridgeLoseDone \/ \E type \in {"DONE", "ABORT"} : BridgeAnswer(type)
  /\ BridgeFrame
Bus ==
  /\ \E n \in Nodes \cup {NULL}, flags \in SUBSET Flags : NodePacket(n, flags)
  /\ BridgeFrame

-----------------------------------------------------------------------------
\* Nothing is left to do and nothing more will come: the threads block in
\* read() and g_async_queue_pop().
Quiescent ==
  /\ posts = MaxPosts /\ heard = MaxPackets
  /\ packet_out = <<>> /\ idle = <<>> /\ toBridge = <<>> /\ fromBridge = <<>>
  /\ wpc = "pop" /\ rpc = "read"
  /\ UNCHANGED vars

Alive == rpc # "segfault"
Next ==
  \/ Alive /\ (MainLoop \/ Writer \/ Reader \/ Bridge \/ Bus)
  \/ Quiescent

Spec == Init /\ [][Next]_vars

\* The kernel schedules both threads and the main loop dispatches its idle
\* sources; the bridge works off what it is sent.  Nobody has to send anything.
Dispatch == Alive /\ packet_inpacket /\ MainFrame
Fairness ==
  /\ WF_vars(Alive /\ Writer)
  /\ WF_vars(Alive /\ Reader)
  /\ WF_vars(Dispatch)
  /\ WF_vars(Alive /\ Bridge)

FairSpec == Spec /\ Fairness
-----------------------------------------------------------------------------
(* Properties *)

\* The stop-and-wait discipline has not been broken: every answer is either
\* lost or faster than the timeout of the writer, or no message timed out yet.
Calm == ~LateAnswers \/ timeouts = 0

\* The shared fields need no mutex (the comment in packet_writerThread): the
\* status of a command is handed to the connection that sent the command,
\* and to nobody when a command of the daemon itself was answered.
AnswersReachTheirClient ==
  Calm => \A i \in DOMAIN idle :
            IsStatus(idle[i]) => /\ idle[i].callback = "tcp_reply"
                                 /\ idle[i].data = idle[i].to

\* "this becomes the current stream after receiving the ack": a packet that
\* is relayed as a reply goes to the client whose command the node had
\* acknowledged last when it sent the packet, though the writer may already
\* have noted the next command for the same node.  The one exception: when
\* only the acknowledgement was lost, the daemon cannot know of it, and what
\* the node sends may go to the client of an earlier command.
RepliesReachTheirClient ==
  Calm => \A i \in DOMAIN idle :
            ~IsStatus(idle[i]) /\ idle[i].callback = "tcp_reply"
               => idle[i].data = idle[i].to \/ idle[i].missed

\* Statuses that are queued, being handled, on the line or still to come.
Statuses == Len(toBridge) + Cardinality({i \in DOMAIN fromBridge : IsStatus(fromBridge[i])})
              + (IF ReadingStatus THEN 1 ELSE 0) + Len(packet_status)

\* A status the writer does not wait for is taken for the answer to a later
\* message.  There are never more of them than messages that timed out, and
\* none while answers are prompt, whatever is lost.
StatusBacklog ==
  Statuses <= (IF LateAnswers THEN timeouts ELSE 0) + (IF wpc = "wait" THEN 1 ELSE 0)

\* The reader tests nextnode and follows it several statements later: the
\* writer never replaces it by NULL in between.
NoSegfault == Calm => rpc # "segfault"

\* What the comment in packet_writerThread says, with no premise.
NoMutexNeeded ==
  \A i \in DOMAIN idle : IsStatus(idle[i]) => idle[i].data = idle[i].to

\* Every command a client streams to a node is answered, with 'A' or 'N',
\* whatever is lost on the line.
EveryCommandAnswered ==
  \A c \in Clients, k \in 1..MaxPosts : asked[c] >= k ~> answered[c] >= k

\* The writer never waits for ever: what is queued for the bus is written,
\* however many answers are lost or late, as long as the daemon runs.
QueueDrains == packet_out # <<>> ~> packet_out = <<>> \/ rpc = "segfault"
=============================================================================
