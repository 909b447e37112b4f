---------------------------- MODULE PacketService ----------------------------
(***************************************************************************)
(* The packet layer implements StreamService as long as answers are lost   *)
(* or prompt: the unanswered commands are those whose status waits in an   *)
(* idle source, the one the writer handles, and those in packet_out.       *)
(***************************************************************************)
EXTENDS PacketInv, SeqFilter

Streams(s) == [i \in DOMAIN s |-> s[i].data]

StatusQueued == packet_status # <<>> \/ rpc \in {"clear", "push"}

InFlight ==
  IF /\ wmsg.n # NULL
     /\ wpc \in {"callback", "data", "write", "wait", "abort"}
     /\ wpc = "wait" => ~StatusQueued
    THEN <<wmsg>> ELSE <<>>

\* What the main loop will write to a client as 'A' or 'N', and what a client
\* has queued.
StatusesForClients == {ps \in PacketStream : IsStatus(ps) /\ ToCallback(ps)}
Commands == {m \in Message : m.n # NULL}

Outstanding ==
  Streams(Kept(idle, StatusesForClients))
    \o Streams(InFlight)
    \o Streams(Kept(packet_out, Commands))

Service == INSTANCE StreamService WITH outstanding <- Outstanding

\* Two threads and the main loop, the shared fields and the lossy line look to
\* the clients like one queue of commands: answered once each and in order.
ImplementsStreamService == Service!Spec
=============================================================================
