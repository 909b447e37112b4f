------------------------------ MODULE NodeMgt ------------------------------
(***************************************************************************)
(* The node table of ubd and what its main loop does with it: nodes.c, the *)
(* management packets of busmgt.c, the one-second tick of mgt.c, and the   *)
(* network side of a node (net.c, address6.c, interface.c).                *)
(*                                                                         *)
(* Everything here runs in the main loop, so a handler is one step.  The   *)
(* bus is any bus: management packets of any node, from any address, may   *)
(* arrive at any time, may be repeated and may be missing.                 *)
(***************************************************************************)
EXTENDS Integers, Sequences, FiniteSets

CONSTANTS
  Ids,          \* ids of nodes
  BridgeId,     \* id of the bridge
  NULL,
  Configured,   \* ids in the configuration file, in order
  Groups,       \* per id: bus addresses of its multicast groups
  MAX_NODE,     \* size of the table
  LastAdr,      \* the addresses for nodes are FirstAdr..LastAdr
  Sources,      \* addresses packets come from
  nodetimeout,
  MaxPackets    \* bound: management packets that arrive

FirstAdr == 3           \* 1 is the host
UB_ADDRESS_BRIDGE == 2
Broadcast == 255
Slots == 1..MAX_NODE
AllIds == Ids \cup {BridgeId}

ASSUME NodeMgtAssumption ==
  /\ NULL \notin AllIds /\ BridgeId \notin Ids
  /\ MAX_NODE \in Nat \ {0}
  /\ LastAdr \in FirstAdr - 1 .. Broadcast - 1
  /\ Configured \in Seq(Ids) /\ Len(Configured) <= MAX_NODE
  /\ Groups \in [AllIds -> Seq(0..Broadcast)]
  /\ Sources \subseteq 0..Broadcast
  /\ nodetimeout \in Nat
  /\ MaxPackets \in Nat

VARIABLES
  nodes,    \* the table
  crashed,  \* a null or a freed pointer was followed
  sent,     \* commands the last step handed to packet_outpacket
  packets,  \* how many management packets arrived
  quiet,    \* history: ticks since any packet of an entry's node arrived
  ignored   \* history: entries heard of by packets that do not restart the
            \* time-out, since the last one that did

heard == <<quiet, ignored>>
vars == <<nodes, crashed, sent, packets, heard>>

-----------------------------------------------------------------------------
(* Data *)

\* A pointer to an object: none yet, an open one, or one that was released
\* (no pointer is ever set back to NULL, except ubnetd when a reply is read).
Pointer == {"null", "open", "dangling"}

\* struct node, for nodes with one class.  "announced" is the entry of the
\* node in the services of directory-client.c.
BusAdr == {-1, 0, UB_ADDRESS_BRIDGE} \cup FirstAdr..LastAdr
Node == [free : BOOLEAN, id : AllIds \cup {NULL}, active : BOOLEAN,
         state : {"TIMEOUT", "IDENTIFY", "NORMAL"}, busadr : BusAdr,
         timeout : -1..nodetimeout, netup : BOOLEAN, ubnetd : Pointer,
         udp : Pointer, tcp : Pointer, mgt : Pointer, announced : BOOLEAN]

\* A management command: a reset 'r', the query interval 'q' of address a, the
\* address assignment 'S' of a to id, 'O', 'V', or the group 'A' a.
Command == [cmd : {"r", "q", "S", "O", "V", "A"}, to : 0..Broadcast,
            a : 0..Broadcast, id : AllIds \cup {NULL}]
CmdData(cmd, to, a, id) == [cmd |-> cmd, to |-> to, a |-> a, id |-> id]
Cmd(cmd, to) == CmdData(cmd, to, 0, NULL)

TypeOK ==
  /\ nodes \in [Slots -> Node]
  /\ crashed \in BOOLEAN
  /\ sent \in Seq(Command)
  /\ packets \in 0..MaxPackets
  /\ quiet \in [Slots -> Nat]
  /\ ignored \subseteq Slots

Known(s) == ~nodes[s].free
Tracked(n) == n.state \in {"IDENTIFY", "NORMAL"}

\* n is the first index in S: the result of a loop over an array.
First(n, S) == n \in S /\ \A m \in S : n <= m

IsNodeById(s, id) == First(s, {t \in Slots : Known(t) /\ nodes[t].id = id})
IsFreeNode(s) == First(s, {t \in Slots : ~Known(t)})

\* (mutant) a node that timed out keeps its address
KeepsAddress(a) == {t \in Slots : Known(t) /\ nodes[t].busadr = a}
AtBusAdr(a) == {t \in Slots : Known(t) /\ nodes[t].active /\ nodes[t].busadr = a}
IsNodeByBusAdr(s, a) == First(s, AtBusAdr(a))

\* (mutant) the address of a node that did not confirm it yet counts as free
UnconfirmedIsFree ==
  {a \in FirstAdr..LastAdr : \A s \in AtBusAdr(a) : nodes[s].state # "NORMAL"}
FreeBusAdrs == {a \in FirstAdr..LastAdr : AtBusAdr(a) = {}}
IsFreeBusAdr(a) == First(a, FreeBusAdrs) \/ (FreeBusAdrs = {} /\ a = -1)

-----------------------------------------------------------------------------
\* Configured nodes have their entries before the bus is started.
Init ==
  /\ nodes = [s \in Slots |->
                [free |-> s > Len(Configured),
                 id |-> IF s > Len(Configured) THEN NULL ELSE Configured[s],
                 active |-> FALSE, state |-> "TIMEOUT", busadr |-> 0,
                 timeout |-> 0, netup |-> FALSE, ubnetd |-> "null",
                 udp |-> "null", tcp |-> "null", mgt |-> "null",
                 announced |-> FALSE]]
  /\ crashed = FALSE
  /\ sent = <<Cmd("r", Broadcast)>>
  /\ packets = 0
  /\ quiet = [s \in Slots |-> 0]
  /\ ignored = {}

\* A handler follows a null pointer, or uses a released object and fails.
Crash == crashed' = TRUE /\ sent' = <<>> /\ UNCHANGED <<nodes, heard>>

\* The packet is answered, the table stays: the nodes of the entries S that
\* sent it are heard of, and their time-out is not restarted.
Ignore(S, cmds) ==
  /\ quiet' = [s \in Slots |-> IF s \in S THEN 0 ELSE quiet[s]]
  /\ ignored' = ignored \cup S
  /\ sent' = cmds
  /\ UNCHANGED <<nodes, crashed>>

Update(s, n, cmds) ==
  /\ nodes' = [nodes EXCEPT ![s] = n]
  /\ quiet' = [quiet EXCEPT ![s] = 0]
  /\ ignored' = ignored \ {s}
  /\ sent' = cmds
  /\ UNCHANGED crashed

-----------------------------------------------------------------------------
(* mgt_registerNode *)

\* (mutant) a node that asks for an address is always new
AlwaysNew(s, id) == IsFreeNode(s)
\* The entry with this id, or else the first free one; none if neither exists.
IsEntryFor(s, id) ==
  \/ IsNodeById(s, id)
  \/ IsFreeNode(s) /\ \A t \in Slots : Known(t) => nodes[t].id # id
TableFull(id) == \A t \in Slots : Known(t) /\ nodes[t].id # id

\* interface_createAddress: a new connection to ubnetd replaces the old one.
\* When it cannot be made, n->ubnetd still points to the old one, released.
Reconnect(p) == {"open", IF p = "null" THEN "null" ELSE "dangling"}

\* The entry when its handler is done; netup is cleared for a free entry only.
Registered(s, id, a, ubnetd, state) ==
  [nodes[s] EXCEPT !.free = FALSE, !.id = id, !.busadr = a, !.active = TRUE,
                   !.netup = Known(s) /\ nodes[s].netup, !.ubnetd = ubnetd,
                   !.state = state, !.timeout = nodetimeout]

\* The old connection to ubnetd is closed a second time.
ReleasedTwice(s) == nodes[s].ubnetd = "dangling" /\ Crash

-----------------------------------------------------------------------------
(* busmgt_inpacket *)

Uint8(a) == a % 256

\* busmgt_setQueryInterval, busmgt_setAddress
AddressCmds(id, a) == <<CmdData("q", UB_ADDRESS_BRIDGE, Uint8(a), NULL),
                        CmdData("S", Broadcast, Uint8(a), id)>>

\* 'D': a node asks for an address and gets a new one, known or not.
Assign(s, id, a) ==
  /\ IsEntryFor(s, id) /\ IsFreeBusAdr(a)
  /\ \/ ReleasedTwice(s)
     \/ \E p \in Reconnect(nodes[s].ubnetd) :
          Update(s, Registered(s, id, a, p, "IDENTIFY"), AddressCmds(id, a))
Discover(id) ==
  \/ TableFull(id) /\ Ignore({}, <<>>)
  \/ \E s \in Slots, a \in BusAdr : Assign(s, id, a)

\* busmgt_sendMulticastGroups, busmgt_sendOK
GroupCmds(n) == [i \in DOMAIN Groups[n.id] |->
                   CmdData("A", Uint8(n.busadr), Groups[n.id][i], NULL)]
\* (mutant) the groups are sent where the packet came from
ConfirmSource(n, src) ==
  [i \in DOMAIN Groups[n.id] |-> CmdData("A", src, Groups[n.id][i], NULL)]
  \o <<Cmd("O", src), Cmd("V", src)>>
Confirm(n, src) == GroupCmds(n) \o <<Cmd("O", src), Cmd("V", src)>>

\* (mutant) the reply of ubnetd was read
ReplyRead(s) == nodes[s].ubnetd = "null"
InterfaceReady(s) == nodes[s].netup

\* 'I': a node confirms its address.
Confirmed(s) == [nodes[s] EXCEPT !.state = "NORMAL", !.active = TRUE,
                                 !.timeout = nodetimeout]
Identify(id, src) ==
  \/ /\ \A s \in Slots : IsNodeById(s, id) => nodes[s].state # "IDENTIFY"
     /\ Ignore({s \in Slots : IsNodeById(s, id)}, <<Cmd("r", src)>>)
  \/ \E s \in Slots :
       /\ IsNodeById(s, id) /\ nodes[s].state = "IDENTIFY"
       /\ \/ InterfaceReady(s) /\ Update(s, Confirmed(s), Confirm(nodes[s], src))
          \/ ~InterfaceReady(s) /\ Ignore({s}, <<>>)

\* 'V': the version is copied into the entry, without a test for NULL.
Version(src) ==
  IF AtBusAdr(src) = {} THEN Crash ELSE Ignore(AtBusAdr(src), <<>>)

\* 'A': a keep-alive.
KeepAlive(src) ==
  \/ AtBusAdr(src) = {} /\ Ignore({}, <<Cmd("r", src)>>)
  \/ \E s \in Slots :
       /\ IsNodeByBusAdr(s, src)
       /\ Update(s, [nodes[s] EXCEPT !.timeout = nodetimeout], <<>>)

\* 'B': the bridge tells its id.  It always has UB_ADDRESS_BRIDGE.
Welcome(s) ==
  /\ IsEntryFor(s, BridgeId)
  /\ \/ ReleasedTwice(s)
     \/ \E p \in Reconnect(nodes[s].ubnetd) :
          LET n == Registered(s, BridgeId, UB_ADDRESS_BRIDGE, p, "NORMAL") IN
            Update(s, n, Confirm(n, UB_ADDRESS_BRIDGE))
Bridge ==
  \/ TableFull(BridgeId) /\ Crash
  \/ \E s \in Slots : Welcome(s)

busmgt_inpacket ==
  /\ packets < MaxPackets
  /\ packets' = packets + 1
  /\ \/ \E id \in Ids : Discover(id)
     \/ \E id \in Ids, src \in Sources : Identify(id, src)
     \/ \E src \in Sources : Version(src) \/ KeepAlive(src)
     \/ Bridge

-----------------------------------------------------------------------------
(* mgt_tick *)

\* net_removeSockets: nothing remembers that the sockets are gone.
Release(p) == IF p = "null" THEN "null" ELSE "dangling"
\* (mutant) the services stay in the directory
KeepsAnnouncing(n) ==
  [n EXCEPT !.udp = Release(@), !.tcp = Release(@), !.mgt = Release(@)]
RemoveSockets(n) ==
  [n EXCEPT !.udp = Release(@), !.tcp = Release(@), !.mgt = Release(@),
            !.announced = FALSE]

\* mgt_checkTimeout: "n->timeout-- == 0"
\* (mutant) "--n->timeout == 0"
ExpiresEarly(n) == Tracked(n) /\ n.timeout = 1
Expires(n) == Tracked(n) /\ n.timeout = 0
\* (mutant) without nodes_deactivateNode
KeepsActive(n) ==
  IF Expires(n)
    THEN [RemoveSockets(n) EXCEPT !.state = "TIMEOUT", !.timeout = -1]
    ELSE IF Tracked(n) THEN [n EXCEPT !.timeout = @ - 1] ELSE n
CheckTimeout(n) ==
  IF Expires(n)
    THEN [RemoveSockets(n) EXCEPT !.active = FALSE, !.state = "TIMEOUT",
                                  !.timeout = -1]
    ELSE IF Tracked(n) THEN [n EXCEPT !.timeout = @ - 1] ELSE n

\* What interface_getConfiguredAddress and net_createSockets come to: no reply
\* of ubnetd yet, 'N', or 'A' and the first socket that cannot be bound.
Outcome == {"none", "N", "udp", "tcp", "mgt", "up"}

\* A listener of this node that is still open keeps its port.
CreateSockets(n, outcome) ==
  CASE outcome = "udp" -> n
    [] outcome = "tcp" \/ (outcome # "udp" /\ n.tcp = "open") ->
         [n EXCEPT !.udp = "open"]
    [] outcome = "mgt" /\ n.tcp # "open" ->
         [n EXCEPT !.udp = "open", !.tcp = "open"]
    [] outcome = "up" /\ n.tcp # "open" ->
         [n EXCEPT !.udp = "open", !.tcp = "open", !.mgt = "open",
                   !.announced = TRUE, !.netup = TRUE]

PollInterface(n, outcome) ==
  CASE outcome = "none" -> n
    [] outcome = "N" -> [n EXCEPT !.ubnetd = "null"]
    [] OTHER -> CreateSockets([n EXCEPT !.ubnetd = "null"], outcome)

\* Sockets, or a connection to ubnetd, are used after they were released.
UsedReleased ==
  \E s \in Slots :
    \/ Expires(nodes[s]) /\ "dangling" \in {nodes[s].udp, nodes[s].tcp, nodes[s].mgt}
    \/ Known(s) /\ nodes[s].ubnetd = "dangling"

Waiting == {s \in Slots : Known(s) /\ nodes[s].ubnetd = "open"}

mgt_tick ==
  /\ UNCHANGED packets
  /\ \/ UsedReleased /\ Crash
     \/ \E outcome \in [Waiting -> Outcome] :
          /\ nodes' = [s \in Slots |->
                         LET n == CheckTimeout(nodes[s]) IN
                           IF s \in Waiting THEN PollInterface(n, outcome[s]) ELSE n]
          /\ quiet' = [s \in Slots |-> IF Tracked(nodes[s]) THEN quiet[s] + 1 ELSE quiet[s]]
          /\ sent' = <<>>
          /\ UNCHANGED <<crashed, ignored>>

-----------------------------------------------------------------------------
Next == ~crashed /\ (busmgt_inpacket \/ mgt_tick)

Spec == Init /\ [][Next]_vars

\* g_timeout_add_seconds(1, mgt_tick, NULL); nobody has to send anything.
FairSpec == Spec /\ WF_vars(~crashed /\ mgt_tick)

-----------------------------------------------------------------------------
(* Properties *)

\* busmgt_getFreeBusAdr never hands out an address another active node uses,
\* so that the node a packet came from is the one found by its address.
UniqueBusAddress ==
  \A s, t \in Slots :
    (/\ Known(s) /\ nodes[s].active /\ Known(t) /\ nodes[t].active
     /\ nodes[s].busadr = nodes[t].busadr
     /\ nodes[s].busadr # -1)
      => s = t

\* The address in the table that is a on the bus.
Told(a) == IF a = Broadcast THEN -1 ELSE a
Members(id) == {Groups[id][j] : j \in DOMAIN Groups[id]}

\* Every assignment and every group command agrees with the table when it is
\* sent, although 'I' is answered at the address it came from and the address
\* of a node changes with every 'D'.  An address is assigned to the one active
\* node that has it in the table.  A node is added to its own groups, under its
\* own address.  The broadcast address stands for "none": it is assigned to a
\* node without an address only, and the groups of such a node, and of no
\* other, are sent to it, which adds every node of the bus to them.
CommandsMatchTable ==
  \A i \in DOMAIN sent :
    /\ sent[i].cmd = "S" =>
         \E s \in Slots : /\ IsNodeById(s, sent[i].id) /\ nodes[s].active
                         /\ nodes[s].busadr = Told(sent[i].a)
                         /\ AtBusAdr(sent[i].a) \subseteq {s}
    /\ sent[i].cmd = "A" =>
         \E s \in Slots : /\ nodes[s].active /\ nodes[s].busadr = Told(sent[i].to)
                         /\ sent[i].a \in Members(nodes[s].id)

\* Addresses do not leak: a node is told that it has none (-1 becomes the
\* broadcast address) only when as many nodes are active as there are addresses,
\* however often nodes were given another one, timed out and came back.
NoAddressOnlyIfFull ==
  (\E i \in DOMAIN sent : sent[i].cmd = "S" /\ sent[i].a = Broadcast)
    => Cardinality({s \in Slots : nodes[s].active}) >= LastAdr - FirstAdr + 1

\* The sockets of a node point to its entry and bus_sendToID looks the entry up
\* by id again: it finds the same one (its ub_assert never fails), although
\* nodes time out and come back and the configuration may name one twice.
Used(n) == n.active \/ {n.ubnetd, n.udp, n.tcp, n.mgt} # {"null"}
UniqueId ==
  \A s \in Slots : Used(nodes[s]) => IsNodeById(s, nodes[s].id)

\* An entry is active exactly while mgt_checkTimeout counts for it: no node
\* keeps its bus address for ever, none is tracked after it was deactivated.
ActiveIffTracked ==
  \A s \in Slots : nodes[s].active <=> Tracked(nodes[s])

\* net_createSockets announces a node last, net_removeSockets withdraws it
\* first: the directory only lists nodes whose sockets are open.
AnnouncedIsOpen ==
  \A s \in Slots : nodes[s].announced =>
    nodes[s].udp = "open" /\ nodes[s].tcp = "open" /\ nodes[s].mgt = "open"

\* A node that is confirmed for the first time has its sockets, whatever the
\* order of the reply of ubnetd, failing binds and repeated packets.
ReadyWhenFirstConfirmed ==
  \A s \in Slots :
    (/\ nodes[s].state = "NORMAL" /\ nodes[s].id # BridgeId
     /\ "dangling" \notin {nodes[s].udp, nodes[s].tcp, nodes[s].mgt})
      => nodes[s].udp = "open" /\ nodes[s].tcp = "open" /\ nodes[s].mgt = "open"

\* A node is removed after nodetimeout + 1 ticks without any packet of it, and
\* never before, unless what it sent did not restart the time-out: a version,
\* or an 'I' that was not answered with 'O' because its sockets were not there
\* or it was not expected to identify itself.
RemovedOnlyWhenQuiet ==
  [][\A s \in Slots : Tracked(nodes[s]) /\ ~Tracked(nodes'[s])
       => quiet[s] = nodetimeout \/ s \in ignored]_vars

\* When the bus falls silent every node is removed.
SilentNodesRemoved == <>[](crashed \/ \A s \in Slots : ~nodes[s].active)

\* "send the OK if we have our interface ready" (busmgt_inpacket)
OKWhenReady ==
  \A s \in Slots : nodes[s].state = "NORMAL" /\ nodes[s].id # BridgeId =>
    nodes[s].udp = "open" /\ nodes[s].tcp = "open" /\ nodes[s].mgt = "open"
=============================================================================
