------------------------------ MODULE PacketInv ------------------------------
(***************************************************************************)
(* The inductive invariant behind AnswersReachTheirClient, NoSegfault and  *)
(* RepliesReachTheirClient.                                                *)
(*                                                                         *)
(* While the stop-and-wait discipline holds, the fields shared by the two  *)
(* threads are owned by turns: by the writer until it has written the      *)
(* message, then by whoever holds the one status of that message.  The     *)
(* line from the bridge is read in order, so that the stream of a packet   *)
(* is current when the reader comes to the packet.                         *)
(***************************************************************************)
EXTENDS Packet

NoStatusIn(s) == \A i \in DOMAIN s : ~IsStatus(s[i])

\* s holds one status, and it answers a message of stream d.
OneStatusIn(s, d) ==
  \E i \in DOMAIN s : /\ IsStatus(s[i]) /\ s[i].to = d
                      /\ \A j \in DOMAIN s : IsStatus(s[j]) => j = i

\* Where the status of the message the writer handles is.  The disjuncts of
\* OneStatus exclude each other.
Lost == /\ toBridge = <<>> /\ NoStatusIn(fromBridge) /\ ~ReadingStatus
        /\ packet_status = <<>>
Unanswered == /\ toBridge = <<wmsg>> /\ NoStatusIn(fromBridge) /\ ~ReadingStatus
              /\ packet_status = <<>>
OnTheLine == /\ toBridge = <<>> /\ OneStatusIn(fromBridge, wmsg.data)
             /\ ~ReadingStatus /\ packet_status = <<>>
Queued == /\ toBridge = <<>> /\ NoStatusIn(fromBridge) /\ ~ReadingStatus
          /\ Len(packet_status) = 1

\* The reader handles it: what it has read so far is the message's.  A
\* PACKET_DONE takes the callback first, a PACKET_ABORT the data.
CallbackRead == rpc \in {"store", "queue"} \/ (rpc = "data" /\ rps.type = "DONE")
DataRead == rpc = "queue" \/ (rpc = "callback" /\ rps.type = "ABORT")
BeingRead ==
  /\ toBridge = <<>> /\ NoStatusIn(fromBridge) /\ ReadingStatus
  /\ packet_status = <<>>
  /\ rps.to = wmsg.data
  /\ rpc # "push" => wmsg.n # NULL
  /\ CallbackRead => rps.callback = "tcp_reply"
  /\ DataRead => rps.data = wmsg.data

OneStatus == Lost \/ Unanswered \/ OnTheLine \/ BeingRead \/ Queued

\* The shared fields of the node are those of the message, from the moment
\* the writer wrote them until the reader clears the callback.
CallbackSet ==
  \/ wpc \in {"data", "write", "abort"}
  \/ wpc = "wait" /\ packet_status = <<>> /\ ~(ReadingStatus /\ rpc = "push")
FieldsMatch ==
  wmsg.n # NULL =>
    /\ CallbackSet => nextcallback[wmsg.n] = "tcp_reply"
    /\ wpc \in {"write", "wait", "abort"} => nextdata[wmsg.n] = wmsg.data

AnswersMatch ==
  \A i \in DOMAIN idle : IsStatus(idle[i]) => /\ idle[i].callback = "tcp_reply"
                                              /\ idle[i].data = idle[i].to

Handshake ==
  /\ rpc # "segfault"
  /\ wpc = "wait" => OneStatus
  /\ wpc # "wait" => Lost
  /\ FieldsMatch
  /\ AnswersMatch

\* A PACKET_DONE comes before position i of the line, or is in the reader's
\* hands and the node's current stream not replaced yet.
DoneBefore(i) == \E j \in DOMAIN fromBridge : j < i /\ fromBridge[j].type = "DONE"
ReadingDone == rps.type = "DONE" /\ rpc \in {"callback", "store", "data"}

\* The current stream of node n is d, if it has one, by the time the reader
\* comes to position i of the line.
CurrentAt(n, i, d) ==
  IF wmsg.n = n /\ (ReadingDone \/ DoneBefore(i))
    THEN d = wmsg.data
    ELSE currentcallback[n] = "tcp_reply" => d = currentdata[n]

\* Of every packet on the line, and of the next one a node will send, unless
\* it is sent while an acknowledgement of the node is missed.
LineInOrder ==
  \A n \in Nodes :
    /\ ~missed[n] => CurrentAt(n, Len(fromBridge) + 1, acked[n])
    /\ \A i \in DOMAIN fromBridge :
         ~IsStatus(fromBridge[i]) /\ fromBridge[i].n = n
            => fromBridge[i].missed \/ CurrentAt(n, i, fromBridge[i].to)

ReplyOK(ps) ==
  ~IsStatus(ps) /\ ps.callback = "tcp_reply" => ps.data = ps.to \/ ps.missed

Replies ==
  /\ LineInOrder
  /\ rpc = "store" => rps.type = "DONE"
  /\ rpc = "queue" => ReplyOK(rps)
  /\ \A i \in DOMAIN idle : ReplyOK(idle[i])

\* The writer's local message and the global nextnode agree, and only a
\* status goes through the steps the reader takes for one.
TInv ==
  /\ TypeOK
  /\ nextnode = wmsg.n
  /\ wpc \in {"callback", "data", "abort", "clear"} => wmsg.n # NULL
  /\ ~IsStatus(rps) => rpc \in {"read", "queue"}

\* In every state of the packet layer no status but the one of the message
\* the writer waits for is under way, the shared fields are that message's,
\* and packets meet the stream their node had acknowledged.
IInv == TInv /\ (Calm => Handshake /\ Replies)
=============================================================================
