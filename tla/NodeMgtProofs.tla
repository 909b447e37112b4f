--------------------------- MODULE NodeMgtProofs ---------------------------
(***************************************************************************)
(* Proofs about the node table, for tables, ids, addresses and timeouts of *)
(* any size.                                                               *)
(***************************************************************************)
EXTENDS NodeMgtInv, SequenceTheorems, FiniteSetTheorems, FunctionTheorems, TLAPS

\* An entry whose time-out was just restarted.
HeardOK(n) == EntryOK(n, 0, FALSE)

\* At the start no entry is used.
LEMMA NInvInit == Init => NInv
<1> SUFFICES ASSUME Init PROVE NInv
  OBVIOUS
<1> USE NodeMgtAssumption
<1>1. TypeOK
  <2>1. nodes \in [Slots -> Node]
    BY DEF Init, Slots, Node, AllIds, BusAdr, Pointer
  <2>2. sent \in Seq(Command)
    <3>1. Cmd("r", Broadcast) \in Command
      BY DEF Cmd, CmdData, Command, Broadcast
    <3> QED BY <3>1 DEF Init
  <2>3. crashed \in BOOLEAN
    BY Zenon DEF Init
  <2>4. packets \in 0..MaxPackets
    <3>1. packets = 0
      BY Zenon DEF Init
    <3> QED BY <3>1
  <2>5. quiet \in [Slots -> Nat]
    <3>1. quiet = [s \in Slots |-> 0]
      BY Zenon DEF Init
    <3> QED BY <3>1
  <2>6. ignored \subseteq Slots
    BY Zenon DEF Init
  <2> QED BY <2>1, <2>2, <2>3, <2>4, <2>5, <2>6, Zenon DEF TypeOK
<1>2. \A s \in Slots : EntryOK(nodes[s], quiet[s], s \in ignored)
  BY DEF Init, EntryOK, Tracked, UB_ADDRESS_BRIDGE
<1>3. UniqueId
  BY DEF Init, UniqueId, Used
<1>4. UniqueBusAddress
  BY DEF Init, UniqueBusAddress, Known
<1> QED BY <1>1, <1>2, <1>3, <1>4 DEF NInv

\* An entry is replaced by one that is consistent by itself and with the
\* others: the table stays consistent.
LEMMA UpdateKeeps ==
  ASSUME NInv, NEW s \in Slots, NEW n \in Node, NEW cmds \in Seq(Command),
         HeardOK(n),
         \A t \in Slots : Known(t) /\ nodes[t].id = n.id => s <= t,
         \A t \in Slots \ {s} : Used(nodes[t]) => nodes[t].id # n.id, ~n.free,
         \A t \in Slots \ {s} : Known(t) /\ nodes[t].active
            => nodes[t].busadr # n.busadr \/ n.busadr = -1,
         Update(s, n, cmds), packets' \in 0..MaxPackets
  PROVE  NInv'
<1>1. /\ nodes' \in [Slots -> Node] /\ nodes'[s] = n
      /\ \A t \in Slots \ {s} : nodes'[t] = nodes[t]
  BY DEF Update, NInv, TypeOK
<1>2. /\ quiet' \in [Slots -> Nat] /\ quiet'[s] = 0
      /\ \A t \in Slots \ {s} : quiet'[t] = quiet[t]
      /\ ignored' \subseteq Slots /\ s \notin ignored'
      /\ \A t \in Slots \ {s} : t \in ignored' <=> t \in ignored
  BY DEF Update, NInv, TypeOK
<1>3. TypeOK'
  BY <1>1, <1>2 DEF Update, NInv, TypeOK
<1>4. \A t \in Slots : EntryOK(nodes'[t], quiet'[t], t \in ignored')
  <2> TAKE t \in Slots
  <2>1. CASE t = s
    BY <1>1, <1>2, <2>1 DEF HeardOK, EntryOK
  <2>2. CASE t # s
    BY <1>1, <1>2, <2>2 DEF NInv, EntryOK
  <2> QED BY <2>1, <2>2
<1>5. UniqueId'
  <2> SUFFICES ASSUME NEW t \in Slots, Used(nodes'[t])
               PROVE  First(t, {u \in Slots : ~nodes'[u].free /\ nodes'[u].id = nodes'[t].id})
    BY DEF UniqueId, IsNodeById, Known, First, Used
  <2>1. \A u, v \in Slots : u \in Nat /\ (u <= v \/ v <= u)
    BY DEF Slots
  <2>2. CASE t = s
    BY <1>1, <2>1, <2>2 DEF First, Known
  <2>3. CASE t # s
    <3>1. IsNodeById(t, nodes[t].id) /\ nodes[t].id # n.id /\ nodes'[t] = nodes[t]
      BY <1>1, <2>3 DEF NInv, UniqueId
    <3> QED BY <1>1, <3>1 DEF IsNodeById, First, Known
  <2> QED BY <2>2, <2>3
<1>6. UniqueBusAddress'
  BY <1>1 DEF NInv, UniqueBusAddress, Known
<1> QED BY <1>3, <1>4, <1>5, <1>6 DEF NInv

\* Commands alone leave the table as it is.
LEMMA IgnoreKeeps ==
  ASSUME NInv, NEW S \in SUBSET Slots, NEW cmds \in Seq(Command),
         Ignore(S, cmds) \/ Crash, packets' \in 0..MaxPackets
  PROVE  NInv'
<1>1. /\ nodes' = nodes
      /\ \A t \in Slots :
           \/ quiet'[t] = quiet[t] /\ (t \in ignored' <=> t \in ignored)
           \/ quiet'[t] = 0 /\ t \in ignored'
      /\ quiet' \in [Slots -> Nat] /\ ignored' \subseteq Slots
  BY DEF Ignore, Crash, heard, NInv, TypeOK
<1>2. sent' \in Seq(Command)
  <2>1. <<>> \in Seq(Command)
    OBVIOUS
  <2> QED BY <2>1, Zenon DEF Ignore, Crash
<1>3. crashed' \in BOOLEAN
  BY Zenon DEF Ignore, Crash, NInv, TypeOK
<1>4. TypeOK'
  BY <1>1, <1>2, <1>3 DEF NInv, TypeOK
<1>5. \A t \in Slots : EntryOK(nodes'[t], quiet'[t], t \in ignored')
  BY <1>1 DEF NInv, EntryOK
<1>6. UniqueId' /\ UniqueBusAddress'
  BY <1>1 DEF NInv, UniqueId, UniqueBusAddress, Known, IsNodeById, First
<1> QED BY <1>4, <1>5, <1>6 DEF NInv

-----------------------------------------------------------------------------
\* busmgt_inpacket: the helpers are well typed.

\* Commands are commands.
LEMMA CmdTyped ==
  ASSUME NEW cmd \in {"r", "q", "S", "O", "V", "A"}, NEW to \in 0..Broadcast
  PROVE  Cmd(cmd, to) \in Command
BY DEF Cmd, CmdData, Command, Broadcast

\* An address is sent in a byte.
LEMMA Uint8Typed == ASSUME NEW a \in BusAdr PROVE Uint8(a) \in 0..Broadcast
BY NodeMgtAssumption DEF Uint8, BusAdr, Broadcast, FirstAdr, UB_ADDRESS_BRIDGE

\* An element of a sequence.
LEMMA SeqElement ==
  ASSUME NEW S, NEW q \in Seq(S), NEW i \in DOMAIN q PROVE q[i] \in S
OBVIOUS

\* The commands of a confirmation.
LEMMA ConfirmTyped ==
  ASSUME NEW n \in Node, n.id \in AllIds, NEW src \in 0..Broadcast
  PROVE  Confirm(n, src) \in Seq(Command)
<1>1. Groups[n.id] \in Seq(0..Broadcast)
  BY NodeMgtAssumption
<1>2. n.busadr \in BusAdr
  BY DEF Node
<1>3. GroupCmds(n) \in Seq(Command)
  <2> DEFINE g == Groups[n.id]
             c(i) == CmdData("A", Uint8(n.busadr), g[i], NULL)
  <2>1. g \in Seq(0..Broadcast)
    BY <1>1
  <2>2. \A i \in DOMAIN g : c(i) \in Command
    <3> HIDE DEF g
    <3> TAKE i \in DOMAIN g
    <3>1. g[i] \in 0..Broadcast
      BY <2>1, SeqElement, Zenon
    <3>2. Uint8(n.busadr) \in 0..Broadcast
      BY <1>2, Uint8Typed
    <3> QED BY <3>1, <3>2 DEF CmdData, Command
  <2>3. GroupCmds(n) = [i \in DOMAIN g |-> c(i)]
    BY DEF GroupCmds
  <2> HIDE DEF g, c
  <2>4. DOMAIN g = 1..Len(g) /\ Len(g) \in Nat
    BY <2>1
  <2> QED BY <2>2, <2>3, <2>4
<1>4. <<Cmd("O", src), Cmd("V", src)>> \in Seq(Command)
  BY CmdTyped
<1> QED BY <1>3, <1>4 DEF Confirm

\* The entry for an id is the first with that id, and no other is used.
LEMMA EntryIsUnique ==
  ASSUME NInv, NEW id \in AllIds, NEW s \in Slots, IsEntryFor(s, id)
  PROVE  /\ \A t \in Slots : Known(t) /\ nodes[t].id = id => s <= t
         /\ \A t \in Slots \ {s} : Used(nodes[t]) => nodes[t].id # id
<1>1. \A t \in Slots : Known(t) /\ nodes[t].id = id => s <= t
  BY DEF IsEntryFor, IsNodeById, First
<1>2. ASSUME NEW t \in Slots, Used(nodes[t]), nodes[t].id = id PROVE t = s
  <2>1. IsNodeById(t, id)
    BY <1>2 DEF NInv, UniqueId
  <2>2. IsNodeById(s, id)
    BY <1>2, <2>1 DEF IsEntryFor, IsNodeById, First
  <2>3. s <= t /\ t <= s /\ s \in Nat /\ t \in Nat
    BY <2>1, <2>2 DEF IsNodeById, First, Slots
  <2> QED BY <2>3
<1> QED BY <1>1, <1>2

\* An entry that is registered is not free.
LEMMA RegisteredKnown ==
  ASSUME NEW s, NEW id, NEW a, NEW p, NEW state, nodes[s] \in Node
  PROVE  ~Registered(s, id, a, p, state).free
BY DEF Registered, Node

\* The entry after mgt_registerNode and its caller.
LEMMA RegisteredTyped ==
  ASSUME NInv, NEW id \in AllIds, NEW s \in Slots, NEW a \in BusAdr,
         NEW p \in Reconnect(nodes[s].ubnetd),
         NEW state \in {"IDENTIFY", "NORMAL"}, NEW n,
         n = Registered(s, id, a, p, state)
  PROVE  /\ n \in Node /\ n.id = id /\ n.busadr = a /\ n.state = state
         /\ (n.state = "NORMAL" => id = BridgeId) /\ (a = UB_ADDRESS_BRIDGE => id = BridgeId)
              => HeardOK(n)
<1>1. nodes[s] \in Node /\ EntryOK(nodes[s], quiet[s], s \in ignored)
  BY DEF NInv, TypeOK
<1>2. p \in Pointer
  BY DEF Reconnect, Pointer
<1>3. (Known(s) /\ nodes[s].netup) \in BOOLEAN
  OBVIOUS
<1>4. nodetimeout \in -1..nodetimeout /\ nodetimeout \in Nat
  BY NodeMgtAssumption
<1> DEFINE up == Known(s) /\ nodes[s].netup
<1>5. up \in BOOLEAN /\ (up => nodes[s].netup)
  BY <1>3
<1> HIDE DEF up
<1> DEFINE m == [nodes[s] EXCEPT !.free = FALSE, !.id = id, !.busadr = a,
                                 !.active = TRUE, !.netup = up, !.ubnetd = p]
<1>6. n = [m EXCEPT !.state = state, !.timeout = nodetimeout]
  BY Zenon DEF Registered, up
<1>7. /\ m \in Node /\ m.id = id /\ m.busadr = a /\ m.free = FALSE
      /\ m.active = TRUE /\ m.netup = up
  BY <1>1, <1>2, <1>4, <1>5 DEF Node
<1>8. /\ m.udp = nodes[s].udp /\ m.tcp = nodes[s].tcp /\ m.mgt = nodes[s].mgt
      /\ m.announced = nodes[s].announced
  BY <1>1 DEF Node
<1> HIDE DEF m
<1>9. /\ n \in Node /\ n.id = id /\ n.busadr = a /\ n.state = state /\ n.free = FALSE
      /\ n.active = TRUE /\ n.timeout = nodetimeout /\ n.netup = up
      /\ n.udp = nodes[s].udp /\ n.tcp = nodes[s].tcp /\ n.mgt = nodes[s].mgt
      /\ n.announced = nodes[s].announced
  BY <1>4, <1>6, <1>7, <1>8 DEF Node
<1>10. ASSUME n.state = "NORMAL" => id = BridgeId, a = UB_ADDRESS_BRIDGE => id = BridgeId
      PROVE  HeardOK(n)
  BY <1>1, <1>4, <1>5, <1>9, <1>10 DEF HeardOK, EntryOK, Tracked, SocketsOf
<1> QED BY <1>9, <1>10

-----------------------------------------------------------------------------
\* busmgt_inpacket, packet by packet.

\* A node asks for an address.
LEMMA DiscoverKeeps ==
  ASSUME NInv, packets' \in 0..MaxPackets, NEW id \in Ids, Discover(id)
  PROVE  NInv'
<1>1. CASE TableFull(id) /\ Ignore({}, <<>>)
  <2>1. <<>> \in Seq(Command)
    OBVIOUS
  <2> QED BY <1>1, <2>1, IgnoreKeeps
<1>2. ASSUME NEW s \in Slots, NEW a \in BusAdr, Assign(s, id, a)
      PROVE  NInv'
  <2>1. CASE ReleasedTwice(s)
    <3>1. <<>> \in Seq(Command)
      OBVIOUS
    <3> QED BY <2>1, <3>1, IgnoreKeeps DEF ReleasedTwice
  <2>2. ASSUME NEW p \in Reconnect(nodes[s].ubnetd),
               Update(s, Registered(s, id, a, p, "IDENTIFY"), AddressCmds(id, a))
        PROVE  NInv'
    <3> DEFINE n == Registered(s, id, a, p, "IDENTIFY")
    <3>1. id \in AllIds /\ id # BridgeId
      BY NodeMgtAssumption DEF AllIds
    <3>2. a # -1 => AtBusAdr(a) = {}
      BY <1>2 DEF Assign, IsFreeBusAdr, First, FreeBusAdrs
    <3>3. a # UB_ADDRESS_BRIDGE
      BY <1>2 DEF Assign, IsFreeBusAdr, First, FreeBusAdrs, FirstAdr, UB_ADDRESS_BRIDGE
    <3>4. n \in Node /\ n.id = id /\ n.busadr = a /\ n.state = "IDENTIFY"
      BY <3>1, RegisteredTyped
    <3>5. HeardOK(n)
      BY <3>1, <3>3, <3>4, RegisteredTyped
    <3>6. AddressCmds(id, a) \in Seq(Command)
      <4>1. Uint8(a) \in 0..Broadcast
        BY Uint8Typed
      <4>2. /\ CmdData("q", UB_ADDRESS_BRIDGE, Uint8(a), NULL) \in Command
            /\ CmdData("S", Broadcast, Uint8(a), id) \in Command
        BY <3>1, <4>1 DEF CmdData, Command, UB_ADDRESS_BRIDGE, Broadcast
      <4> QED BY <4>2 DEF AddressCmds
    <3>7. /\ \A t \in Slots : Known(t) /\ nodes[t].id = n.id => s <= t
          /\ \A t \in Slots \ {s} : Used(nodes[t]) => nodes[t].id # n.id
      BY <1>2, <3>1, <3>4, EntryIsUnique DEF Assign
    <3>8. \A t \in Slots \ {s} : Known(t) /\ nodes[t].active
             => nodes[t].busadr # n.busadr \/ n.busadr = -1
      BY <3>2, <3>4 DEF AtBusAdr
    <3>9. ~n.free
      BY RegisteredKnown DEF NInv, TypeOK
    <3> QED BY <2>2, <3>4, <3>5, <3>6, <3>7, <3>8, <3>9, UpdateKeeps
  <2> QED BY <1>2, <2>1, <2>2 DEF Assign
<1> QED BY <1>1, <1>2 DEF Discover

\* The entry of a node that is confirmed or gives a sign of life: only its
\* state, its activity and its timeout change.
LEMMA HeardKeeps ==
  ASSUME NInv, packets' \in 0..MaxPackets, NEW s \in Slots, Known(s),
         nodes[s].active, NEW n \in Node, NEW cmds \in Seq(Command),
         Update(s, n, cmds), HeardOK(n), ~n.free,
         n.id = nodes[s].id, n.busadr = nodes[s].busadr
  PROVE  NInv'
<1>1. /\ \A t \in Slots : Known(t) /\ nodes[t].id = n.id => s <= t
      /\ \A t \in Slots \ {s} : Used(nodes[t]) => nodes[t].id # n.id
  <2>1. IsNodeById(s, n.id) /\ n.id \in AllIds \cup {NULL}
    BY DEF NInv, UniqueId, Used, Node
  <2>2. ASSUME NEW t \in Slots, Used(nodes[t]), nodes[t].id = n.id PROVE t = s
    <3>1. IsNodeById(t, n.id)
      BY <2>2 DEF NInv, UniqueId
    <3>2. s <= t /\ t <= s /\ s \in Nat /\ t \in Nat
      BY <2>1, <3>1 DEF IsNodeById, First, Slots
    <3> QED BY <3>2
  <2> QED BY <2>1, <2>2 DEF IsNodeById, First
<1>2. \A t \in Slots \ {s} : Known(t) /\ nodes[t].active
         => nodes[t].busadr # n.busadr \/ n.busadr = -1
  BY DEF NInv, UniqueBusAddress
<1> QED BY <1>1, <1>2, UpdateKeeps

\* The entry of a node that is confirmed.
LEMMA ConfirmedEntry ==
  ASSUME NEW m \in Node, NEW q \in Nat, NEW i, EntryOK(m, q, i), m.active, m.netup,
         NEW n, n = [m EXCEPT !.state = "NORMAL", !.active = TRUE, !.timeout = nodetimeout]
  PROVE  n \in Node /\ HeardOK(n) /\ n.id = m.id /\ n.busadr = m.busadr /\ n.free = m.free
<1>1. nodetimeout \in -1..nodetimeout /\ nodetimeout \in Nat
  BY NodeMgtAssumption
<1>2. /\ n \in Node /\ n.id = m.id /\ n.busadr = m.busadr /\ n.free = m.free
      /\ n.active = TRUE /\ n.state = "NORMAL" /\ n.timeout = nodetimeout
  BY <1>1 DEF Node
<1>3. /\ n.netup = m.netup /\ n.udp = m.udp /\ n.tcp = m.tcp /\ n.mgt = m.mgt
      /\ n.announced = m.announced
  BY DEF Node
<1>4. HeardOK(n)
  BY <1>1, <1>2, <1>3 DEF HeardOK, EntryOK, Tracked, SocketsOf
<1> QED BY <1>2, <1>4

\* The entry of a node that was heard of.
LEMMA HeardEntry ==
  ASSUME NEW m \in Node, NEW q \in Nat, NEW i, EntryOK(m, q, i), m.active,
         NEW n, n = [m EXCEPT !.timeout = nodetimeout]
  PROVE  n \in Node /\ HeardOK(n) /\ n.id = m.id /\ n.busadr = m.busadr /\ n.free = m.free
<1>1. nodetimeout \in -1..nodetimeout /\ nodetimeout \in Nat
  BY NodeMgtAssumption
<1>2. /\ n \in Node /\ n.id = m.id /\ n.busadr = m.busadr /\ n.free = m.free
      /\ n.active = m.active /\ n.state = m.state /\ n.timeout = nodetimeout
  BY <1>1 DEF Node
<1>3. /\ n.netup = m.netup /\ n.udp = m.udp /\ n.tcp = m.tcp /\ n.mgt = m.mgt
      /\ n.announced = m.announced
  BY DEF Node
<1>4. HeardOK(n)
  BY <1>1, <1>2, <1>3 DEF HeardOK, EntryOK, Tracked, SocketsOf
<1> QED BY <1>2, <1>4

\* A node says who it is.
LEMMA IdentifyKeeps ==
  ASSUME NInv, packets' \in 0..MaxPackets, NEW id \in Ids,
         NEW src \in 0..Broadcast, Identify(id, src)
  PROVE  NInv'
<1>1. ASSUME NEW S \in SUBSET Slots, Ignore(S, <<Cmd("r", src)>>) PROVE NInv'
  <2>1. <<Cmd("r", src)>> \in Seq(Command)
    BY CmdTyped
  <2> QED BY <1>1, <2>1, IgnoreKeeps
<1>2. ASSUME NEW S \in SUBSET Slots, Ignore(S, <<>>) PROVE NInv'
  <2>1. <<>> \in Seq(Command)
    OBVIOUS
  <2> QED BY <1>2, <2>1, IgnoreKeeps
<1>3. ASSUME NEW s \in Slots, IsNodeById(s, id), nodes[s].state = "IDENTIFY",
             InterfaceReady(s), Update(s, Confirmed(s), Confirm(nodes[s], src))
      PROVE  NInv'
  <2> DEFINE n == Confirmed(s)
  <2>1. nodes[s] \in Node /\ EntryOK(nodes[s], quiet[s], s \in ignored)
    BY DEF NInv, TypeOK
  <2>2. Known(s) /\ nodes[s].id = id /\ id \in AllIds
    BY <1>3 DEF IsNodeById, First, AllIds
  <2>3. nodes[s].active
    BY <1>3, <2>1 DEF EntryOK, Tracked
  <2>4. n \in Node /\ HeardOK(n) /\ n.id = nodes[s].id
        /\ n.busadr = nodes[s].busadr /\ n.free = nodes[s].free
    <3>1. nodes[s].netup /\ quiet[s] \in Nat
      BY <1>3 DEF InterfaceReady, NInv, TypeOK
    <3> QED BY <2>1, <2>3, <3>1, ConfirmedEntry DEF Confirmed
  <2>5. ~n.free
    BY <2>2, <2>4, Zenon DEF Known
  <2>6. Confirm(nodes[s], src) \in Seq(Command)
    BY <2>1, <2>2, ConfirmTyped
  <2> QED BY <1>3, <2>2, <2>3, <2>4, <2>5, <2>6, HeardKeeps
<1> QED BY <1>1, <1>2, <1>3 DEF Identify

\* A node sends its version.
LEMMA VersionKeeps ==
  ASSUME NInv, packets' \in 0..MaxPackets, NEW src, Version(src)
  PROVE  NInv'
<1>1. <<>> \in Seq(Command)
  OBVIOUS
<1>2. AtBusAdr(src) \in SUBSET Slots
  BY DEF AtBusAdr
<1> QED BY <1>1, <1>2, IgnoreKeeps DEF Version

\* A node says that it is there.
LEMMA KeepAliveKeeps ==
  ASSUME NInv, packets' \in 0..MaxPackets, NEW src \in 0..Broadcast, KeepAlive(src)
  PROVE  NInv'
<1>1. CASE Ignore({}, <<Cmd("r", src)>>)
  <2>1. <<Cmd("r", src)>> \in Seq(Command)
    BY CmdTyped
  <2> QED BY <1>1, <2>1, IgnoreKeeps
<1>2. ASSUME NEW s \in Slots, IsNodeByBusAdr(s, src),
             Update(s, [nodes[s] EXCEPT !.timeout = nodetimeout], <<>>)
      PROVE  NInv'
  <2> DEFINE n == [nodes[s] EXCEPT !.timeout = nodetimeout]
  <2>1. nodes[s] \in Node /\ EntryOK(nodes[s], quiet[s], s \in ignored)
    BY DEF NInv, TypeOK
  <2>2. Known(s) /\ nodes[s].active
    BY <1>2 DEF IsNodeByBusAdr, AtBusAdr, First
  <2>3. n \in Node /\ HeardOK(n) /\ n.id = nodes[s].id
        /\ n.busadr = nodes[s].busadr /\ n.free = nodes[s].free
    <3>1. quiet[s] \in Nat
      BY DEF NInv, TypeOK
    <3> QED BY <2>1, <2>2, <3>1, HeardEntry
  <2>4. ~n.free
    BY <2>2, <2>3, Zenon DEF Known
  <2>5. <<>> \in Seq(Command)
    OBVIOUS
  <2> QED BY <1>2, <2>2, <2>3, <2>4, <2>5, HeardKeeps
<1> QED BY <1>1, <1>2 DEF KeepAlive

\* The bridge is identified.
LEMMA BridgeKeeps ==
  ASSUME NInv, packets' \in 0..MaxPackets, Bridge
  PROVE  NInv'
<1> <<>> \in Seq(Command)
  OBVIOUS
<1>1. CASE Crash
  BY <1>1, IgnoreKeeps
<1>2. ASSUME NEW s \in Slots, IsEntryFor(s, BridgeId), NEW p \in Reconnect(nodes[s].ubnetd),
             NEW n, n = Registered(s, BridgeId, UB_ADDRESS_BRIDGE, p, "NORMAL"),
             Update(s, n, Confirm(n, UB_ADDRESS_BRIDGE))
      PROVE  NInv'
  <2>1. BridgeId \in AllIds /\ UB_ADDRESS_BRIDGE \in BusAdr /\ UB_ADDRESS_BRIDGE \in 0..Broadcast
    BY DEF AllIds, BusAdr, UB_ADDRESS_BRIDGE, Broadcast
  <2>2. n \in Node /\ n.id = BridgeId /\ n.busadr = UB_ADDRESS_BRIDGE /\ HeardOK(n)
    BY <1>2, <2>1, RegisteredTyped
  <2>3. Confirm(n, UB_ADDRESS_BRIDGE) \in Seq(Command)
    BY <2>1, <2>2, ConfirmTyped
  <2>4. /\ \A t \in Slots : Known(t) /\ nodes[t].id = BridgeId => s <= t
        /\ \A t \in Slots \ {s} : Used(nodes[t]) => nodes[t].id # BridgeId
    BY <1>2, <2>1, EntryIsUnique
  <2>5. \A t \in Slots \ {s} : Known(t) /\ nodes[t].active
           => nodes[t].busadr # UB_ADDRESS_BRIDGE
    BY <2>4 DEF NInv, EntryOK, Known, Used
  <2>6. ~n.free
    BY <1>2, RegisteredKnown DEF NInv, TypeOK
  <2> QED BY <1>2, <2>2, <2>3, <2>4, <2>5, <2>6, UpdateKeeps
<1> QED BY <1>1, <1>2 DEF Bridge, Welcome, ReleasedTwice

-----------------------------------------------------------------------------
\* mgt_tick

\* What the tick may do to an entry besides counting.
SameEntry(n, m) == n.id = m.id /\ n.busadr = m.busadr /\ n.free = m.free
                     /\ (n.active => m.active)

\* An entry that is counted down.
LEMMA TimeoutEntry ==
  ASSUME NEW m \in Node, NEW q \in Nat, NEW i, EntryOK(m, q, i)
  PROVE  /\ CheckTimeout(m) \in Node
         /\ EntryOK(CheckTimeout(m), IF Tracked(m) THEN q + 1 ELSE q, i)
         /\ SameEntry(CheckTimeout(m), m)
         /\ Used(CheckTimeout(m)) => Used(m)
<1>0. Tracked(m) => Used(m)
  BY DEF EntryOK, Used
<1>1. CASE Expires(m)
  <2> DEFINE r == RemoveSockets(m)
             n == [r EXCEPT !.active = FALSE, !.state = "TIMEOUT", !.timeout = -1]
  <2>0. /\ Release(m.udp) \in Pointer /\ Release(m.tcp) \in Pointer
        /\ Release(m.mgt) \in Pointer
    BY DEF Release, Pointer
  <2>1. /\ r \in Node /\ r.id = m.id /\ r.busadr = m.busadr /\ r.free = m.free
        /\ r.announced = FALSE /\ r.netup = m.netup
    BY <2>0 DEF RemoveSockets, Node
  <2>2. r.udp = Release(m.udp) /\ r.tcp = Release(m.tcp) /\ r.mgt = Release(m.mgt)
    BY DEF RemoveSockets, Node
  <2> HIDE DEF r
  <2>3. -1 \in -1..nodetimeout
    BY NodeMgtAssumption
  <2>4. /\ n \in Node /\ n.id = r.id /\ n.busadr = r.busadr /\ n.free = r.free
        /\ n.active = FALSE /\ n.state = "TIMEOUT"
    BY <2>1, <2>3 DEF Node
  <2>5. /\ n.announced = r.announced /\ n.netup = r.netup
        /\ n.udp = r.udp /\ n.tcp = r.tcp /\ n.mgt = r.mgt
    BY <2>1 DEF Node
  <2>6. CheckTimeout(m) = n
    BY <1>1, Zenon DEF CheckTimeout, r
  <2> HIDE DEF n
  <2>7. \A k : EntryOK(n, k, i)
    BY <2>1, <2>2, <2>4, <2>5 DEF EntryOK, Tracked, SocketsOf, Release
  <2> QED BY <1>0, <1>1, <2>1, <2>4, <2>6, <2>7 DEF SameEntry, Expires
<1>2. CASE ~Expires(m) /\ Tracked(m)
  <2> DEFINE n == [m EXCEPT !.timeout = @ - 1]
  <2>1. m.timeout \in Nat /\ m.timeout # 0 /\ m.timeout - 1 \in -1..nodetimeout
    BY <1>2, NodeMgtAssumption DEF Expires, EntryOK, Node
  <2>2. /\ n \in Node /\ n.id = m.id /\ n.busadr = m.busadr /\ n.free = m.free
        /\ n.active = m.active /\ n.state = m.state /\ n.timeout = m.timeout - 1
    BY <2>1 DEF Node
  <2>3. /\ n.netup = m.netup /\ n.udp = m.udp /\ n.tcp = m.tcp /\ n.mgt = m.mgt
        /\ n.announced = m.announced
    BY DEF Node
  <2>4. CheckTimeout(m) = n
    BY <1>2, Zenon DEF CheckTimeout
  <2> HIDE DEF n
  <2>5. EntryOK(n, q + 1, i)
    <3>1. Tracked(n) /\ Tracked(m) /\ n.active
      BY <1>2, <2>2, Zenon DEF Tracked, EntryOK
    <3>2. n.timeout >= 0 /\ (i \/ n.timeout + (q + 1) = nodetimeout)
      <4>1. i \/ m.timeout + q = nodetimeout
        BY <3>1 DEF EntryOK
      <4>2. n.timeout = m.timeout - 1
        BY <2>2
      <4> QED BY <2>1, <4>1, <4>2
    <3>3. SocketsOf(n) = SocketsOf(m)
      BY <2>3, Zenon DEF SocketsOf
    <3> QED BY <2>2, <2>3, <3>1, <3>2, <3>3, Zenon DEF EntryOK
  <2> QED BY <1>0, <1>2, <2>2, <2>4, <2>5 DEF SameEntry
<1>3. CASE ~Tracked(m)
  <2>1. CheckTimeout(m) = m
    BY <1>3, Zenon DEF CheckTimeout, Expires
  <2> QED BY <1>3, <2>1 DEF SameEntry
<1> QED BY <1>1, <1>2, <1>3

\* Sockets are opened and announced, the connection to ubnetd is closed.
LEMMA CreateEntry ==
  ASSUME NEW m \in Node, NEW q, NEW i, EntryOK(m, q, i), NEW outcome \in {"udp", "tcp", "mgt", "up"}
  PROVE  /\ CreateSockets(m, outcome) \in Node
         /\ EntryOK(CreateSockets(m, outcome), q, i)
         /\ SameEntry(CreateSockets(m, outcome), m)
         /\ CreateSockets(m, outcome).state = m.state
<1>1. CASE outcome = "udp"
  <2>1. CreateSockets(m, outcome) = m
    BY <1>1 DEF CreateSockets
  <2> QED BY <2>1 DEF SameEntry
<1>2. CASE outcome = "tcp" \/ (outcome # "udp" /\ m.tcp = "open")
  <2> DEFINE n == [m EXCEPT !.udp = "open"]
  <2>1. CreateSockets(m, outcome) = n
    BY <1>2 DEF CreateSockets
  <2>2. /\ n \in Node /\ n.id = m.id /\ n.busadr = m.busadr /\ n.free = m.free
        /\ n.active = m.active /\ n.state = m.state /\ n.timeout = m.timeout
    BY DEF Node, Pointer
  <2>3. /\ n.netup = m.netup /\ n.udp = "open" /\ n.tcp = m.tcp /\ n.mgt = m.mgt
        /\ n.announced = m.announced
    BY DEF Node
  <2> HIDE DEF n
  <2>4. EntryOK(n, q, i)
    BY <2>2, <2>3 DEF EntryOK, Tracked, SocketsOf
  <2> QED BY <2>1, <2>2, <2>4 DEF SameEntry
<1>3. CASE outcome = "mgt" /\ m.tcp # "open"
  <2> DEFINE n == [m EXCEPT !.udp = "open", !.tcp = "open"]
  <2>1. CreateSockets(m, outcome) = n
    BY <1>3 DEF CreateSockets
  <2>2. /\ n \in Node /\ n.id = m.id /\ n.busadr = m.busadr /\ n.free = m.free
        /\ n.active = m.active /\ n.state = m.state /\ n.timeout = m.timeout
    BY DEF Node, Pointer
  <2>3. /\ n.netup = m.netup /\ n.udp = "open" /\ n.tcp = "open" /\ n.mgt = m.mgt
        /\ n.announced = m.announced
    BY DEF Node
  <2> HIDE DEF n
  <2>4. EntryOK(n, q, i)
    BY <2>2, <2>3 DEF EntryOK, Tracked, SocketsOf
  <2> QED BY <2>1, <2>2, <2>4 DEF SameEntry
<1>4. CASE outcome = "up" /\ m.tcp # "open"
  <2> DEFINE n == [m EXCEPT !.udp = "open", !.tcp = "open", !.mgt = "open",
                            !.announced = TRUE, !.netup = TRUE]
  <2>1. CreateSockets(m, outcome) = n
    BY <1>4 DEF CreateSockets
  <2>2. /\ n \in Node /\ n.id = m.id /\ n.busadr = m.busadr /\ n.free = m.free
        /\ n.active = m.active /\ n.state = m.state /\ n.timeout = m.timeout
    BY DEF Node, Pointer
  <2>3. n.udp = "open" /\ n.tcp = "open" /\ n.mgt = "open" /\ n.netup = TRUE
    BY DEF Node
  <2> HIDE DEF n
  <2>4. EntryOK(n, q, i)
    BY <2>2, <2>3 DEF EntryOK, Tracked, SocketsOf
  <2> QED BY <2>1, <2>2, <2>4 DEF SameEntry
<1> QED BY <1>1, <1>2, <1>3, <1>4

\* An entry that waits for ubnetd.
LEMMA PollEntry ==
  ASSUME NEW m \in Node, NEW q, NEW i, EntryOK(m, q, i), NEW outcome \in Outcome
  PROVE  /\ PollInterface(m, outcome) \in Node
         /\ EntryOK(PollInterface(m, outcome), q, i)
         /\ SameEntry(PollInterface(m, outcome), m)
         /\ PollInterface(m, outcome).state = m.state
<1>1. CASE outcome = "none"
  <2>1. PollInterface(m, outcome) = m
    BY <1>1 DEF PollInterface
  <2> QED BY <2>1 DEF SameEntry
<1>2. CASE outcome # "none"
  <2> DEFINE n == [m EXCEPT !.ubnetd = "null"]
  <2>1. /\ n \in Node /\ n.id = m.id /\ n.busadr = m.busadr /\ n.free = m.free
        /\ n.active = m.active /\ n.state = m.state /\ n.timeout = m.timeout
        /\ n.netup = m.netup /\ n.udp = m.udp /\ n.tcp = m.tcp /\ n.mgt = m.mgt
        /\ n.announced = m.announced
    BY DEF Node, Pointer
  <2>2. CASE outcome = "N"
    <3>1. PollInterface(m, outcome) = n
      BY <2>2 DEF PollInterface
    <3> HIDE DEF n
    <3> QED BY <2>1, <3>1 DEF EntryOK, Tracked, SocketsOf, SameEntry
  <2>3. CASE outcome # "N"
    <3>1. PollInterface(m, outcome) = CreateSockets(n, outcome)
      BY <1>2, <2>3 DEF PollInterface
    <3> HIDE DEF n
    <3>2. EntryOK(n, q, i)
      BY <2>1 DEF EntryOK, Tracked, SocketsOf
    <3>3. outcome \in {"udp", "tcp", "mgt", "up"}
      BY <1>2, <2>3 DEF Outcome
    <3>4. /\ CreateSockets(n, outcome) \in Node
          /\ EntryOK(CreateSockets(n, outcome), q, i)
          /\ SameEntry(CreateSockets(n, outcome), n)
          /\ CreateSockets(n, outcome).state = n.state
      BY <2>1, <3>2, <3>3, CreateEntry
    <3> QED BY <2>1, <3>1, <3>4 DEF SameEntry
  <2> QED BY <2>2, <2>3
<1> QED BY <1>1, <1>2

\* A tick treats every entry by itself and gives nobody an id or an address.
LEMMA TickKeeps ==
  ASSUME NInv, mgt_tick
  PROVE  NInv'
<1>1. CASE Crash
  <2>1. <<>> \in Seq(Command)
    OBVIOUS
  <2>2. packets' \in 0..MaxPackets
    BY DEF mgt_tick, NInv, TypeOK
  <2> QED BY <1>1, <2>1, <2>2, IgnoreKeeps
<1>2. ASSUME NEW outcome \in [Waiting -> Outcome],
             nodes' = [s \in Slots |->
                         LET n == CheckTimeout(nodes[s]) IN
                           IF s \in Waiting THEN PollInterface(n, outcome[s]) ELSE n],
             quiet' = [s \in Slots |-> IF Tracked(nodes[s]) THEN quiet[s] + 1 ELSE quiet[s]],
             sent' = <<>>, UNCHANGED <<crashed, packets, ignored>>
      PROVE  NInv'
  <2>1. /\ nodes' = [s \in Slots |-> nodes'[s]]
        /\ \A s \in Slots : nodes'[s] \in Node /\ EntryOK(nodes'[s], quiet'[s], s \in ignored)
                                /\ SameEntry(nodes'[s], nodes[s])
                                /\ (Used(nodes'[s]) => Used(nodes[s]))
    <3>1. nodes' = [s \in Slots |-> nodes'[s]]
      BY <1>2
    <3>2. ASSUME NEW s \in Slots
          PROVE  nodes'[s] \in Node /\ EntryOK(nodes'[s], quiet'[s], s \in ignored)
                   /\ SameEntry(nodes'[s], nodes[s])
                   /\ (Used(nodes'[s]) => Used(nodes[s]))
      <4> DEFINE n == CheckTimeout(nodes[s])
      <4>1. nodes[s] \in Node /\ quiet[s] \in Nat /\ EntryOK(nodes[s], quiet[s], s \in ignored)
        BY DEF NInv, TypeOK
      <4>2. quiet'[s] = IF Tracked(nodes[s]) THEN quiet[s] + 1 ELSE quiet[s]
        BY <1>2
      <4>3. n \in Node /\ EntryOK(n, quiet'[s], s \in ignored) /\ SameEntry(n, nodes[s])
              /\ (Used(n) => Used(nodes[s]))
        BY <4>1, <4>2, TimeoutEntry
      <4>4. nodes'[s] = IF s \in Waiting THEN PollInterface(n, outcome[s]) ELSE n
        BY <1>2
      <4> HIDE DEF n
      <4>5. CASE s \in Waiting
        <5>1. outcome[s] \in Outcome
          BY <1>2, <4>5
        <5>2. /\ PollInterface(n, outcome[s]) \in Node
              /\ EntryOK(PollInterface(n, outcome[s]), quiet'[s], s \in ignored)
              /\ SameEntry(PollInterface(n, outcome[s]), n)
          BY <4>3, <5>1, PollEntry
        <5>3. Used(nodes[s])
          BY <4>5 DEF Waiting, Used
        <5> QED BY <4>3, <4>4, <4>5, <5>2, <5>3, Zenon DEF SameEntry
      <4>6. CASE s \notin Waiting
        BY <4>3, <4>4, <4>6, Zenon
      <4> QED BY <4>5, <4>6
    <3> QED BY <3>1, <3>2
  <2>2. nodes' \in [Slots -> Node]
    BY <2>1
  <2>3. quiet' \in [Slots -> Nat]
    BY <1>2 DEF NInv, TypeOK
  <2>4. sent' \in Seq(Command)
    BY <1>2
  <2>5. TypeOK'
    BY <1>2, <2>2, <2>3, <2>4 DEF NInv, TypeOK
  <2>6. UniqueId'
    BY <2>1 DEF NInv, UniqueId, IsNodeById, First, Known, SameEntry
  <2>8. \A s \in Slots : EntryOK(nodes'[s], quiet'[s], s \in ignored')
    BY <1>2, <2>1, Zenon
  <2>7. UniqueBusAddress'
    BY <2>1 DEF NInv, UniqueBusAddress, Known, SameEntry
  <2> QED BY <2>5, <2>6, <2>7, <2>8 DEF NInv
<1> QED BY <1>1, <1>2 DEF mgt_tick

\* Every step keeps the invariant.
LEMMA NInvStep == NInv /\ [Next]_vars => NInv'
<1> SUFFICES ASSUME NInv, [Next]_vars PROVE NInv'
  OBVIOUS
<1>1. CASE busmgt_inpacket
  <2>1. packets' \in 0..MaxPackets
    BY <1>1, NodeMgtAssumption DEF busmgt_inpacket, NInv, TypeOK
  <2>2. \A src \in Sources : src \in 0..Broadcast
    BY NodeMgtAssumption
  <2>3. CASE \E id \in Ids : Discover(id)
    BY <2>1, <2>3, DiscoverKeeps
  <2>4. CASE \E id \in Ids, src \in Sources : Identify(id, src)
    BY <2>1, <2>2, <2>4, IdentifyKeeps
  <2>5. CASE \E src \in Sources : Version(src) \/ KeepAlive(src)
    BY <2>1, <2>2, <2>5, VersionKeeps, KeepAliveKeeps
  <2>6. CASE Bridge
    BY <2>1, <2>6, BridgeKeeps
  <2> QED BY <1>1, <2>3, <2>4, <2>5, <2>6 DEF busmgt_inpacket
<1>2. CASE mgt_tick
  BY <1>2, TickKeeps
<1>3. CASE UNCHANGED vars
  BY <1>3 DEF vars, heard, NInv, TypeOK, UniqueId, UniqueBusAddress, Known, IsNodeById,
              First
<1> QED BY <1>1, <1>2, <1>3 DEF Next

-----------------------------------------------------------------------------
\* The node table is consistent in every reachable state: whatever packets
\* arrive from the bus, whatever ubnetd replies and whatever cannot be bound.
THEOREM TableInvariance == Spec => []NInv
BY NInvInit, NInvStep, PTL DEF Spec

\* The entries keep their types; in particular no timeout counts below -1.
THEOREM TableTyped == Spec => []TypeOK
<1>1. NInv => TypeOK
  BY DEF NInv
<1> QED BY <1>1, TableInvariance, PTL

\* busmgt_getFreeBusAdr and mgt_registerNode give an active node an address of
\* its own, for a bus of any size.
THEOREM AddressesUnique == Spec => []UniqueBusAddress
<1>1. NInv => UniqueBusAddress
  BY DEF NInv
<1> QED BY <1>1, TableInvariance, PTL

\* nodes_getNodeById finds the entry of every node that ever registered, even
\* if the configuration has its id several times.
THEOREM IdsUnique == Spec => []UniqueId
<1>1. NInv => UniqueId
  BY DEF NInv
<1> QED BY <1>1, TableInvariance, PTL

\* mgt_checkTimeout counts for the active entries and for no other.
THEOREM ActiveTracked == Spec => []ActiveIffTracked
<1>1. NInv => ActiveIffTracked
  BY DEF NInv, ActiveIffTracked, EntryOK
<1> QED BY <1>1, TableInvariance, PTL

\* The services in the directory are those of open sockets, and a node is
\* confirmed for the first time when its sockets are open.
THEOREM SocketsReady == Spec => [](AnnouncedIsOpen /\ ReadyWhenFirstConfirmed)
<1>1. NInv => AnnouncedIsOpen
  BY DEF NInv, AnnouncedIsOpen, EntryOK, SocketsOf
<1>2. NInv => ReadyWhenFirstConfirmed
  <2> SUFFICES ASSUME NInv, NEW s \in Slots, nodes[s].state = "NORMAL", nodes[s].id # BridgeId,
                      "dangling" \notin {nodes[s].udp, nodes[s].tcp, nodes[s].mgt}
               PROVE  nodes[s].udp = "open" /\ nodes[s].tcp = "open" /\ nodes[s].mgt = "open"
    BY DEF ReadyWhenFirstConfirmed
  <2>1. "null" \notin {nodes[s].udp, nodes[s].tcp, nodes[s].mgt}
    BY DEF NInv, EntryOK, SocketsOf
  <2>2. nodes[s] \in Node
    BY DEF NInv, TypeOK
  <2> QED BY <2>1, <2>2 DEF Node, Pointer
<1> QED BY <1>1, <1>2, TableInvariance, PTL

-----------------------------------------------------------------------------
\* When an entry ceases to be tracked, nothing was heard of it for the timeout,
\* or only what does not restart it.
QuietRemoval == \A s \in Slots : Tracked(nodes[s]) /\ ~Tracked(nodes'[s])
                                   => quiet[s] = nodetimeout \/ s \in ignored

\* A packet leaves the entry it is about tracked, and the others alone.
LEMMA UpdateTracks ==
  ASSUME NInv, NEW s \in Slots, NEW n, NEW cmds, Update(s, n, cmds),
         Tracked(nodes[s]) => Tracked(n)
  PROVE  QuietRemoval
<1>1. nodes'[s] = n /\ \A t \in Slots \ {s} : nodes'[t] = nodes[t]
  BY DEF Update, NInv, TypeOK
<1> QED BY <1>1, Zenon DEF QuietRemoval

\* A tick only ends the tracking of an entry whose counter is zero: by the
\* invariant it was last heard of nodetimeout ticks ago, or by a packet that
\* did not restart the time-out.
LEMMA TickRemoves ==
  ASSUME NInv, mgt_tick PROVE QuietRemoval
<1>1. CASE Crash
  BY <1>1, Zenon DEF Crash, QuietRemoval
<1>2. ASSUME NEW outcome \in [Waiting -> Outcome],
             nodes' = [s \in Slots |->
                         LET n == CheckTimeout(nodes[s]) IN
                           IF s \in Waiting THEN PollInterface(n, outcome[s]) ELSE n],
             NEW s \in Slots, Tracked(nodes[s]), ~Tracked(nodes'[s])
      PROVE  quiet[s] = nodetimeout \/ s \in ignored
  <2> DEFINE n == CheckTimeout(nodes[s])
  <2>1. nodes[s] \in Node /\ quiet[s] \in Nat /\ EntryOK(nodes[s], quiet[s], s \in ignored)
    BY DEF NInv, TypeOK
  <2>2. nodes'[s] = IF s \in Waiting THEN PollInterface(n, outcome[s]) ELSE n
    BY <1>2
  <2>3. n \in Node /\ \E q \in Nat : EntryOK(n, q, s \in ignored)
    BY <2>1, TimeoutEntry
  <2>4. CASE ~Expires(nodes[s])
    <3>1. n = [nodes[s] EXCEPT !.timeout = @ - 1]
      BY <1>2, <2>4, Zenon DEF CheckTimeout
    <3>2. n.state = nodes[s].state
      BY <2>1, <3>1 DEF Node
    <3> HIDE DEF n
    <3>3. nodes'[s].state = n.state
      BY <1>2, <2>2, <2>3, PollEntry
    <3> QED BY <1>2, <3>2, <3>3, Zenon DEF Tracked
  <2>5. CASE Expires(nodes[s])
    BY <1>2, <2>1, <2>5, NodeMgtAssumption DEF Expires, EntryOK, Tracked
  <2> QED BY <2>4, <2>5
<1> QED BY <1>1, <1>2 DEF mgt_tick, QuietRemoval

\* No step but the tick that ends a timeout removes a node.
LEMMA RemovalStep ==
  ASSUME NInv, [Next]_vars PROVE QuietRemoval
<1>1. CASE UNCHANGED nodes
  BY <1>1, Zenon DEF QuietRemoval
<1>2. ASSUME NEW id \in Ids, Discover(id) PROVE QuietRemoval
  <2>1. ASSUME NEW s \in Slots, NEW a \in BusAdr, NEW p \in Reconnect(nodes[s].ubnetd),
               Update(s, Registered(s, id, a, p, "IDENTIFY"), AddressCmds(id, a))
        PROVE  QuietRemoval
    <3>1. Registered(s, id, a, p, "IDENTIFY").state = "IDENTIFY"
      BY <2>1, RegisteredTyped DEF AllIds
    <3> QED BY <2>1, <3>1, UpdateTracks DEF Tracked
  <2> QED BY <1>1, <1>2, <2>1 DEF Discover, Assign, ReleasedTwice, Ignore, Crash
<1>3. ASSUME NEW id \in Ids, NEW src, Identify(id, src) PROVE QuietRemoval
  <2>1. ASSUME NEW s \in Slots, Update(s, Confirmed(s), Confirm(nodes[s], src))
        PROVE  QuietRemoval
    <3>1. nodes[s] \in Node
      BY DEF NInv, TypeOK
    <3>2. Confirmed(s).state = "NORMAL"
      BY <3>1 DEF Confirmed, Node
    <3> QED BY <2>1, <3>2, UpdateTracks DEF Tracked
  <2> QED BY <1>1, <1>3, <2>1 DEF Identify, Ignore
<1>4. ASSUME NEW src, KeepAlive(src) PROVE QuietRemoval
  <2>1. ASSUME NEW s \in Slots, Update(s, [nodes[s] EXCEPT !.timeout = nodetimeout], <<>>)
        PROVE  QuietRemoval
    <3>1. nodes[s] \in Node
      BY DEF NInv, TypeOK
    <3>2. [nodes[s] EXCEPT !.timeout = nodetimeout].state = nodes[s].state
      BY <3>1 DEF Node
    <3> QED BY <2>1, <3>2, UpdateTracks DEF Tracked
  <2> QED BY <1>1, <1>4, <2>1 DEF KeepAlive, Ignore
<1>5. CASE Bridge
  <2>1. ASSUME NEW s \in Slots, NEW p \in Reconnect(nodes[s].ubnetd), NEW n,
               n = Registered(s, BridgeId, UB_ADDRESS_BRIDGE, p, "NORMAL"),
               Update(s, n, Confirm(n, UB_ADDRESS_BRIDGE))
        PROVE  QuietRemoval
    <3>1. n.state = "NORMAL"
      <4>1. BridgeId \in AllIds /\ UB_ADDRESS_BRIDGE \in BusAdr
        BY DEF AllIds, BusAdr
      <4> QED BY <2>1, <4>1, RegisteredTyped
    <3> QED BY <2>1, <3>1, UpdateTracks DEF Tracked
  <2> QED BY <1>1, <1>5, <2>1 DEF Bridge, Welcome, ReleasedTwice, Crash
<1>6. CASE busmgt_inpacket
  BY <1>1, <1>2, <1>3, <1>4, <1>5, <1>6 DEF busmgt_inpacket, Version, Crash, Ignore
<1> QED BY <1>1, <1>6, TickRemoves DEF Next, vars

\* mgt_checkTimeout removes a node when nodetimeout ticks have passed since
\* any packet of it arrived, neither earlier nor later, for a timeout of any
\* length, unless the last packets were of those that do not restart it.
THEOREM RemovedWhenQuiet == Spec => RemovedOnlyWhenQuiet
<1>1. NInv /\ [Next]_vars => [QuietRemoval]_vars
  BY RemovalStep
<1> QED BY <1>1, TableInvariance, PTL DEF Spec, RemovedOnlyWhenQuiet, QuietRemoval

-----------------------------------------------------------------------------
\* The commands of a step agree with the table it leaves behind.

\* A command that is neither an address nor a group says nothing of the table.
Plainly(cmds) == \A i \in DOMAIN cmds : cmds[i].cmd \notin {"S", "A"}

\* The commands that are no address and no group.
LEMMA PlainCommands ==
  ASSUME NEW src
  PROVE  Plainly(<<>>) /\ Plainly(<<Cmd("r", src)>>)
                       /\ Plainly(<<Cmd("O", src), Cmd("V", src)>>)
BY DEF Plainly, Cmd, CmdData

\* A number modulo the values of a byte.
LEMMA ByteOf ==
  ASSUME NEW x \in Int
  PROVE  /\ x % 256 \in 0..255 /\ x \div 256 \in Int
         /\ x = 256 * (x \div 256) + (x % 256)
OBVIOUS

\* No address is the broadcast address in a byte.
LEMMA Uint8Address ==
  ASSUME NEW a \in BusAdr
  PROVE  IF a = -1 THEN Uint8(a) = Broadcast ELSE Uint8(a) = a /\ a # Broadcast
<1>1. CASE a = -1
  <2>1. a \in Int
    BY <1>1
  <2>2. Uint8(a) \in 0..255 /\ a = 256 * (a \div 256) + Uint8(a) /\ a \div 256 \in Int
    BY <2>1, ByteOf DEF Uint8
  <2> QED BY <1>1, <2>2 DEF Broadcast
<1>2. CASE a # -1
  <2>1. a \in 0..254
    BY <1>2, NodeMgtAssumption DEF BusAdr, Broadcast, FirstAdr, UB_ADDRESS_BRIDGE
  <2> QED BY <1>2, <2>1 DEF Uint8, Broadcast
<1> QED BY <1>1, <1>2

\* What Assign sends is the new address of the entry, or none when all are taken.
LEMMA AssignSends ==
  ASSUME NInv, NInv', NEW id \in Ids, NEW s \in Slots, NEW a \in BusAdr,
         NEW n \in Node, n.id = id, n.busadr = a, n.active,
         IsFreeBusAdr(a), Update(s, n, AddressCmds(id, a)), ~n.free
  PROVE  CommandsMatchTable' /\ NoAddressOnlyIfFull'
<1>1. /\ nodes'[s] = n /\ Known(s)'
      /\ \A t \in Slots \ {s} : nodes'[t] = nodes[t]
  BY DEF Update, NInv, TypeOK, Known
<1>2. /\ sent' = AddressCmds(id, a) /\ DOMAIN sent' = {1, 2}
      /\ sent'[1].cmd = "q" /\ sent'[2].cmd = "S"
      /\ sent'[2].id = id /\ sent'[2].a = Uint8(a)
  BY DEF Update, AddressCmds, CmdData
<1>3. AtBusAdr(Uint8(a))' \subseteq {s}
  <2> SUFFICES ASSUME NEW t \in Slots, Known(t)', nodes'[t].active,
                      nodes'[t].busadr = Uint8(a)
               PROVE  t = s
    BY DEF AtBusAdr
  <2>1. Uint8(a) = a /\ a # -1
    <3>1. nodes'[t].busadr \in BusAdr
      BY DEF NInv, TypeOK, Node
    <3> QED BY <3>1, Uint8Address
       DEF BusAdr, Broadcast, FirstAdr, UB_ADDRESS_BRIDGE
  <2> QED BY <1>1, <2>1 DEF NInv, UniqueBusAddress
<1>7. IsNodeById(s, id)' /\ Told(Uint8(a)) = a
  BY <1>1, Uint8Address DEF NInv, UniqueId, Used, Told
<1>4. CommandsMatchTable'
  BY <1>1, <1>2, <1>3, <1>7 DEF CommandsMatchTable
<1>5. ASSUME Uint8(a) = Broadcast
      PROVE  Cardinality({t \in Slots : nodes'[t].active}) >= LastAdr - FirstAdr + 1
  <2> DEFINE S == {t \in Slots : nodes'[t].active}
             A == FirstAdr..LastAdr
             f == [b \in A |-> CHOOSE t \in AtBusAdr(b) : TRUE]
  <2>1. a = -1 /\ \A b \in A : b # -1
    BY <1>5, Uint8Address DEF FirstAdr
  <2>2. FreeBusAdrs = {}
    BY <2>1 DEF IsFreeBusAdr, First, FreeBusAdrs
  <2>3. \A b \in A : AtBusAdr(b) # {}
    BY <2>2 DEF FreeBusAdrs
  <2>4. \A b \in A : f[b] \in AtBusAdr(b)
    BY <2>3
  <2>5. \A b \in A : f[b] \in S /\ nodes[f[b]].busadr = b
    BY <1>1, <2>4 DEF AtBusAdr
  <2> HIDE DEF f
  <2>6. f \in Injection(A, S)
    <3>1. f \in [A -> S]
      BY <2>5 DEF f
    <3>2. \A b, c \in A : f[b] = f[c] => b = c
      BY <2>5
    <3> QED BY <3>1, <3>2, Fun_IsInj
  <2>7. IsFiniteSet(S) /\ Cardinality(S) \in Nat
    <3>1. IsFiniteSet(Slots) /\ S \in SUBSET Slots
      BY NodeMgtAssumption, FS_Interval DEF Slots
    <3> QED BY <3>1, FS_Subset, FS_CardinalityType
  <2>8. LastAdr \in Int /\ Cardinality(A) = IF FirstAdr > LastAdr THEN 0 ELSE LastAdr - FirstAdr + 1
    BY NodeMgtAssumption, FS_Interval DEF FirstAdr, Broadcast
  <2>9. Cardinality(A) <= Cardinality(S)
    BY <2>6, <2>7, FS_Injection
  <2> HIDE DEF S, A
  <2>10. Cardinality(S) >= LastAdr - FirstAdr + 1
    BY <2>7, <2>8, <2>9 DEF FirstAdr
  <2> QED BY <2>10 DEF S
<1>6. NoAddressOnlyIfFull'
  BY <1>2, <1>5 DEF NoAddressOnlyIfFull
<1> QED BY <1>4, <1>6

\* The groups of an entry go to its own address, whatever the source of the
\* packet that is answered.
LEMMA ConfirmSends ==
  ASSUME NInv, NEW s \in Slots, NEW n \in Node, n.id \in AllIds, NEW m, NEW src \in 0..Broadcast,
         Update(s, n, Confirm(m, src)), n.active, m.id = n.id, m.busadr = n.busadr
  PROVE  CommandsMatchTable' /\ NoAddressOnlyIfFull'
<1> DEFINE g == GroupCmds(m)
           h == <<Cmd("O", src), Cmd("V", src)>>
<1>1. nodes'[s] = n /\ sent' = g \o h
  BY DEF Update, Confirm, NInv, TypeOK
<1>2. /\ Groups[n.id] \in Seq(0..Broadcast)
      /\ DOMAIN g = DOMAIN Groups[n.id]
      /\ \A i \in DOMAIN g : g[i].cmd = "A" /\ g[i].to = Uint8(n.busadr)
                                /\ g[i].a = Groups[n.id][i]
  BY NodeMgtAssumption DEF GroupCmds, CmdData
<1>3. DOMAIN h = 1..2 /\ h[1].cmd = "O" /\ h[2].cmd = "V"
  BY DEF Cmd, CmdData
<1>4. g \in Seq(Command) /\ h \in Seq(Command) /\ Len(h) = 2
  <2>1. \A i \in DOMAIN Groups[n.id] : Groups[n.id][i] \in 0..Broadcast
    BY <1>2, SeqElement
  <2>2. Uint8(n.busadr) \in 0..Broadcast /\ NULL \in AllIds \cup {NULL}
    BY Uint8Typed DEF Node
  <2>3. \A i \in DOMAIN g : g[i] \in Command
    BY <1>2, <2>1, <2>2 DEF GroupCmds, CmdData, Command
  <2>4. DOMAIN g = 1..Len(Groups[n.id]) /\ Len(Groups[n.id]) \in Nat
    BY <1>2
  <2>5. g = [i \in DOMAIN g |-> g[i]]
    BY DEF GroupCmds
  <2> HIDE DEF g
  <2>6. g \in Seq(Command)
    BY <2>3, <2>4, <2>5
  <2>7. h \in Seq(Command)
    BY CmdTyped
  <2> QED BY <2>6, <2>7
<1> HIDE DEF g, h
<1>5. ASSUME NEW i \in DOMAIN sent'
      PROVE  \/ i \in DOMAIN g /\ sent'[i] = g[i]
             \/ sent'[i].cmd \in {"O", "V"}
  <2>1. Len(sent') = Len(g) + 2 /\ i \in 1..Len(sent')
    <3>1. g \o h \in Seq(Command) /\ Len(g \o h) = Len(g) + 2 /\ Len(g) \in Nat
      <4>1. g \in Seq(Command) /\ h \in Seq(Command)
        BY <1>4
      <4>2. g \o h \in Seq(Command) /\ Len(g \o h) = Len(g) + Len(h) /\ Len(g) \in Nat
        BY <4>1, ConcatProperties
      <4> QED BY <1>4, <4>2
    <3> QED BY <1>1, <3>1
  <2>2. CASE i <= Len(g)
    BY <1>1, <1>4, <2>1, <2>2
  <2>3. CASE ~(i <= Len(g))
    <3>1. i - Len(g) \in 1..2 /\ sent'[i] = h[i - Len(g)]
      BY <1>1, <1>4, <2>1, <2>3
    <3> QED BY <1>3, <3>1
  <2> QED BY <2>2, <2>3
<1>6. ASSUME NEW i \in DOMAIN sent'
      PROVE  /\ sent'[i].cmd # "S"
             /\ sent'[i].cmd = "A" =>
                  /\ nodes'[s].active /\ nodes'[s].busadr = Told(sent'[i].to)
                  /\ sent'[i].a \in Members(nodes'[s].id)
  <2>1. CASE sent'[i].cmd \in {"O", "V"}
    BY <2>1
  <2>2. CASE i \in DOMAIN g /\ sent'[i] = g[i]
    <3>1. n.busadr = Told(Uint8(n.busadr))
      BY Uint8Address DEF Node, Told
    <3> QED BY <1>1, <1>2, <2>2, <3>1 DEF Members
  <2> QED BY <1>5, <2>1, <2>2
<1> QED BY <1>6 DEF CommandsMatchTable, NoAddressOnlyIfFull

\* Such commands agree with any table.
LEMMA PlainSends ==
  ASSUME Plainly(sent') PROVE CommandsMatchTable' /\ NoAddressOnlyIfFull'
BY DEF Plainly, CommandsMatchTable, NoAddressOnlyIfFull

\* Every step sends what agrees with the table.
LEMMA CommandsStep ==
  ASSUME NInv, NInv', Next
  PROVE  CommandsMatchTable' /\ NoAddressOnlyIfFull'
<1> DEFINE Goal == CommandsMatchTable' /\ NoAddressOnlyIfFull'
<1> SUFFICES Goal
  OBVIOUS
<1>0. ASSUME sent' = <<>> PROVE Goal
  BY <1>0, PlainCommands, PlainSends
<1>1. ASSUME NEW src, sent' = <<Cmd("r", src)>> PROVE Goal
  BY <1>1, PlainCommands, PlainSends
<1>2. \A src \in Sources : src \in 0..Broadcast
  BY NodeMgtAssumption
<1> HIDE DEF Goal
<1>3. ASSUME NEW id \in Ids, Discover(id) PROVE Goal
  <2>1. ASSUME NEW s \in Slots, NEW a \in BusAdr, IsFreeBusAdr(a),
               NEW p \in Reconnect(nodes[s].ubnetd), NEW n,
               n = Registered(s, id, a, p, "IDENTIFY"),
               Update(s, n, AddressCmds(id, a))
        PROVE  Goal
    <3>1. id \in AllIds
      BY DEF AllIds
    <3>2. n \in Node /\ n.id = id /\ n.busadr = a
      BY <2>1, <3>1, RegisteredTyped
    <3>3. n.active /\ ~n.free
      <4>1. nodes[s] \in Node
        BY DEF NInv, TypeOK
      <4> QED BY <2>1, <4>1 DEF Registered, Node
    <3> QED BY <2>1, <3>2, <3>3, AssignSends DEF Goal
  <2> QED BY <1>0, <1>3, <2>1 DEF Discover, Assign, ReleasedTwice, Ignore, Crash
<1>4. ASSUME NEW id \in Ids, NEW src \in Sources, Identify(id, src) PROVE Goal
  <2>1. ASSUME NEW s \in Slots, IsNodeById(s, id), nodes[s].state = "IDENTIFY",
               InterfaceReady(s), Update(s, Confirmed(s), Confirm(nodes[s], src))
        PROVE  Goal
    <3>1. /\ nodes[s] \in Node /\ quiet[s] \in Nat /\ EntryOK(nodes[s], quiet[s], s \in ignored)
          /\ nodes[s].active /\ nodes[s].netup
      BY <2>1 DEF NInv, TypeOK, EntryOK, Tracked, InterfaceReady
    <3>2. nodes[s].id = id /\ id \in AllIds
      BY <2>1 DEF IsNodeById, First, AllIds
    <3>3. /\ Confirmed(s) \in Node /\ Confirmed(s).id = nodes[s].id
          /\ Confirmed(s).busadr = nodes[s].busadr
      BY <3>1, ConfirmedEntry DEF Confirmed
    <3>4. Confirmed(s).active
      BY <3>1 DEF Confirmed, Node
    <3> QED BY <1>2, <2>1, <3>1, <3>2, <3>3, <3>4, ConfirmSends DEF Goal
  <2> QED BY <1>0, <1>1, <1>4, <2>1 DEF Identify, Ignore
<1>5. ASSUME NEW src, Version(src) \/ KeepAlive(src) PROVE Goal
  BY <1>0, <1>1, <1>5 DEF Version, KeepAlive, Ignore, Crash, Update
<1>6. CASE Bridge
  <2>1. ASSUME NEW s \in Slots, NEW p \in Reconnect(nodes[s].ubnetd), NEW n,
               n = Registered(s, BridgeId, UB_ADDRESS_BRIDGE, p, "NORMAL"),
               Update(s, n, Confirm(n, UB_ADDRESS_BRIDGE))
        PROVE  Goal
    <3>1. BridgeId \in AllIds /\ UB_ADDRESS_BRIDGE \in BusAdr
          /\ UB_ADDRESS_BRIDGE \in 0..Broadcast
      BY DEF AllIds, BusAdr, UB_ADDRESS_BRIDGE, Broadcast
    <3>2. n \in Node /\ n.id = BridgeId
      BY <2>1, <3>1, RegisteredTyped
    <3>3. n.active
      <4>1. nodes[s] \in Node
        BY DEF NInv, TypeOK
      <4> QED BY <2>1, <4>1 DEF Registered, Node
    <3> QED BY <2>1, <3>1, <3>2, <3>3, ConfirmSends DEF Goal
  <2> QED BY <1>0, <1>6, <2>1 DEF Bridge, Welcome, ReleasedTwice, Crash
<1>7. CASE mgt_tick
  <2>1. sent' = <<>>
    BY <1>7, Zenon DEF mgt_tick, Crash
  <2> QED BY <1>0, <2>1
<1>8. CASE busmgt_inpacket
  BY <1>3, <1>4, <1>5, <1>6, <1>8, Zenon DEF busmgt_inpacket
<1> QED BY <1>7, <1>8 DEF Next

\* Nothing was sent yet.
LEMMA CommandsInit == Init => CommandsMatchTable /\ NoAddressOnlyIfFull
BY DEF Init, CommandsMatchTable, NoAddressOnlyIfFull, Cmd, CmdData

\* Nothing is sent, and the table stays.
LEMMA CommandsUnchanged ==
  ASSUME CommandsMatchTable, NoAddressOnlyIfFull, UNCHANGED vars
  PROVE  CommandsMatchTable' /\ NoAddressOnlyIfFull'
BY DEF vars, heard, CommandsMatchTable, NoAddressOnlyIfFull, AtBusAdr, Known, IsNodeById,
       First

\* Addresses and groups are sent to the node the table has for them, on a bus
\* of any size: 'S' names the one active entry with the address, 'A' goes to
\* the address the entry has now, not to the one a packet came from.  To the
\* broadcast address go the groups of entries without an address, and no
\* others.
THEOREM CommandsMatch == Spec => []CommandsMatchTable
<1>1. NInv /\ NInv' /\ CommandsMatchTable /\ NoAddressOnlyIfFull /\ [Next]_vars
        => CommandsMatchTable' /\ NoAddressOnlyIfFull'
  BY CommandsStep, CommandsUnchanged
<1> QED BY <1>1, CommandsInit, TableInvariance, PTL DEF Spec

\* A node is told that there is no address for it only when there are as many
\* active entries as addresses.
THEOREM AddressesDoNotLeak == Spec => []NoAddressOnlyIfFull
<1>1. NInv /\ NInv' /\ CommandsMatchTable /\ NoAddressOnlyIfFull /\ [Next]_vars
        => CommandsMatchTable' /\ NoAddressOnlyIfFull'
  BY CommandsStep, CommandsUnchanged
<1> QED BY <1>1, CommandsInit, TableInvariance, PTL DEF Spec
=============================================================================
