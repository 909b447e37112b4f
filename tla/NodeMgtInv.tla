----------------------------- MODULE NodeMgtInv -----------------------------
(***************************************************************************)
(* The inductive invariant of the node table: what holds of every entry by *)
(* itself, and that no two entries share an id or, while active, an        *)
(* address.                                                                *)
(***************************************************************************)
EXTENDS NodeMgt

SocketsOf(n) == {n.udp, n.tcp, n.mgt}

\* n is an entry that was last heard of q ticks ago, i: by a packet that did
\* not restart its time-out.  Otherwise the counter and the ticks add up to the
\* time-out, so that it is zero when the time-out is over; netup says that the
\* sockets were open once, not that they still are.
EntryOK(n, q, i) ==
  /\ n.active <=> Tracked(n)
  /\ Tracked(n) => n.timeout >= 0 /\ (i \/ n.timeout + q = nodetimeout)
  /\ ~n.free /\ n.busadr = UB_ADDRESS_BRIDGE => n.id = BridgeId
  /\ n.netup => "null" \notin SocketsOf(n)
  /\ n.state = "NORMAL" /\ n.id # BridgeId => n.netup
  /\ n.announced => SocketsOf(n) = {"open"}

\* In every state every entry is consistent by itself, whatever the bus sends
\* and whatever becomes of its sockets, and the entries exclude each other.
NInv ==
  /\ TypeOK
  /\ \A s \in Slots : EntryOK(nodes[s], quiet[s], s \in ignored)
  /\ UniqueId
  /\ UniqueBusAddress
=============================================================================
