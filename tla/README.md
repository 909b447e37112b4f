# Verification of ubd, the uberbus daemon

ubd connects a bus of microcontroller nodes to an IP network. The bus hangs off
one serial line, with a *bridge* (a microcontroller whose firmware is not in
this repository) at the far end. Every node of the bus gets an IPv6 address of
its own, sockets on it for each of its classes of service, and an entry in a
directory of services. This project models the daemon in TLA+, checks the models
with TLC and proves the main invariants with TLAPS.

All line numbers are those of the files in `src/src`.

## 1. The system

### Components, state, operations

| component | state | operations | interacts with |
|---|---|---|---|
| packet layer (`packet.c`) | queues `packet_out`, `packet_status`; global `nextnode`; per node `nextcallback/nextdata`, `currentcallback/currentdata` | `packet_streamPacket`, `packet_outpacket` (main loop), `packet_writerThread`, `packet_readerThread`, `packet_inpacket` (idle source) | serial line, TCP sessions (callback `tcp_reply`), bus management, listeners |
| serial framing (`serial.c`) | framing automaton (`fill`, `escaped`), buffer | `serial_in`, `serial_readMessage`, `serial_writeMessage`, `serial_switch` | packet layer, line |
| bus management (`busmgt.c`) | none of its own | `busmgt_inpacket` (packets D, I, V, A, B), the commands r, q, S, O, V, A | node table, packet layer |
| node table (`nodes.c`) | `nodes[MAX_NODE]` | lookups, allocation, activation | everything |
| registration and timeout (`mgt.c`) | state and counter of each entry | `mgt_registerNode`, `mgt_tick`, `mgt_checkTimeout` | node table, sockets, ubnetd |
| sockets of a node (`net.c`, `net_udp.c`, `net_tcp.c`) | UDP sockets and TCP listeners per class, the management listener | create, remove, read | node table, directory client |
| client of ubnetd (`interface.c`, `address6.c`) | `n->ubnetd`, a connection that awaits a reply | ask for an address, give it back, poll the reply | ubnetd |
| ubnetd (`ubnetd.c`) | addresses of the interface (kernel) | one thread per request, `A`dd and `D`elete | kernel, ubd |
| TCP sessions (`net_tcp.c`, `listen.c`) | parser state per connection, listener lists | `tcp_parse`, `tcp_reply`, register, unregister | packet layer |
| directory client (`directory-client.c`) | table of announced services | register, remove, announce every 15 s | directory server |
| directory server (`directory-server.c`) | table of services with a time to live | update, delete, tick every second, answer queries | network |
| multicast groups (`groups.c`, `net_multicast.c`, `classes.c`) | table of groups | create, join | bus, sockets |
| process set-up (`main.c`, `daemon.c`) | the PID file and its lock | the steps of `main`, `daemon_init` | kernel, other instances |
| configuration (`xmlconfig.c`) | - | groups and nodes, read once | multicast groups, node table |
| control commands (`cmdparser.c`, `cmd.c`) | a line | parsing, answers | TCP sessions |

### Threads and interactions

ubd has three threads. The *main loop* (glib) runs every handler, one at a time:
sockets, timers, and the idle sources the other threads queue with `g_idle_add`.
The *writer* thread pops messages off `packet_out`, writes one to the serial
line and waits up to two seconds for its status on `packet_status`. The *reader*
thread reads the line; it hands packets and statuses to the main loop and
statuses to the writer. Reader and writer share `nextnode` and the callback
fields of the nodes **without a lock**. ubnetd is a process of its own with a
thread per connection.

### Behaviours that are hard

* The lock-free hand-over between writer and reader, which is correct only
  because one message is under way at a time (packet.c:107-115), and what
  happens to it when the writer gives up waiting (packet.c:132).
* Lost messages and statuses, late statuses, packets of nodes at any time.
* Nodes that ask for an address again, announce other classes while clients are
  connected, time out, come back, or answer from an old address; ubnetd replying
  late or not at all; sockets that cannot be bound.
* Table and address space at their limits.
* Replies that arrive after the connection, or the node, is gone.
* Bytes that are lost anywhere in a frame, and the one message, the switch of
  the bridge, that is waited for without a timeout and never repeated.
* Commands the network splits anywhere, and sessions that end in the middle.
* Instances that are started at the same time, fail, or are killed between two
  system calls.

### What makes each component correct

* Packet layer: each command gets one answer, on the connection it came from, in
  order, and it gets one eventually; replies of a node go to the client whose
  command the daemon knows to be acknowledged last; the bus never stands still.
* Node table and bus management: one entry per id, one address per active node,
  commands that agree with the table; a node that is silent is removed after the
  timeout, and a node that sends keep-alives is not.
* Sockets: what the directory lists is open; a node is confirmed only with its
  sockets open.
* ubnetd: whatever its threads do first, a registered node ends up with its
  address on the interface; ubd is answered, and the threads of nodes end.
* Directory: a service is listed while its node is up and disappears within its
  time to live afterwards.
* TCP sessions: the parser recovers the commands however the bytes are split;
  answers go to the session that asked, unsolicited packets to all sessions of
  their class, and neither to a session that is gone: as far as clients wait for
  their answers and nodes keep their classes.
* Serial framing: what was framed is read back, and after a loss the automaton
  is in step again one whole frame later.
* Process set-up: one daemon at a time serves the bus, and the PID file names
  it; nodes and sockets agree on the addresses of the groups.

## 2. Modules

| module | models | |
|---|---|---|
| `Packet` | packet.c, the callers of `packet_streamPacket` and `tcp_reply` | main loop, writer, reader and an external bridge; one action per access to a shared field |
| `PacketInv` | - | the inductive invariant of `Packet` |
| `StreamService` | - | abstract: what the packet layer promises TCP clients |
| `PacketService` | - | the refinement mapping from `Packet` to `StreamService` |
| `PacketProofs` | - | theorems about `Packet`, the refinement of `StreamService` among them |
| `SeqFilter` | - | the members of a sequence that belong to a set, as a recursive function |
| `SeqFilterProofs` | - | lemmas: induction over numbers and sequences, recursive functions, `Kept` |
| `MCPacket` | - | instances for TLC |
| `NodeMgt` | nodes.c, busmgt.c, mgt.c, and the node's side of net.c, address6.c, interface.c | one action per management packet, and the tick |
| `NodeMgtInv` | - | the inductive invariant of `NodeMgt` |
| `NodeMgtProofs` | - | theorems about `NodeMgt` |
| `MCNodeMgt` | - | instances for TLC |
| `Directory` | directory-client.c, directory-server.c | the tables of both sides, the timers, and the datagrams between them |
| `DirectoryProofs` | - | theorems about `Directory`, with its inductive invariant |
| `MCDirectory` | - | instances for TLC |
| `Ubnetd` | ubnetd.c, interface.c, address6.c | a thread per connection, the requests of ubd, the addresses of the interface |
| `UbnetdProofs` | - | theorems about `Ubnetd`, with its inductive invariant |
| `MCUbnetd` | - | instances for TLC |
| `Serial` | serial.c | one direction of the line, byte by byte, from the bridge to ubd, with the switch of the bridge at the start |
| `SerialProofs` | - | theorems about `Serial`, with its inductive invariant |
| `MCSerial` | - | instances for TLC |
| `Tcp` | net_tcp.c, cmdparser.c, listen.c, and what bus.c and busmgt.c make of a command | the sessions of a node and of the control port, their parsers and listeners |
| `TcpProofs` | - | theorems about `Tcp`, with its inductive invariants |
| `MCTcp` | - | instances for TLC |
| `Startup` | main.c, daemon.c, xmlconfig.c, groups.c | the system calls of instances that start, and the groups and nodes each of them configures |
| `StartupProofs` | - | theorems about `Startup`, with its inductive invariant |
| `MCStartup` | - | instances for TLC |

### Packet

The variables have the names of the code: `packet_out`, `packet_status`,
`nextnode`, and the callback fields as functions of the node. `idle` is the
queue of idle sources (glib dispatches those of one priority in order). `wpc`
and `rpc` say which statement each thread executes next, `wmsg` and `rps` are
their locals. `toBridge` and `fromBridge` are the two directions of the line.
Each read or write of a field that another thread writes is an action:
`WriterPop` (with the store to `nextnode`), `WriterCallback`, `WriterData`,
`WriterWrite`; on the reader's side the test of `nextnode` (`ReadStatus`) is
separate from `ReadCallback`, `StoreCallback`, `ReadData` and `ReaderClear`,
which follow it again. The two accesses of one field pair that nobody can
separate are one step: `PairWithNode` (only the reader writes `currentdata`) and
`ClearCallbacks` (the second store cannot be told from the first by the other
thread, which reads `nextcallback` only).

Messages carry the node and the stream (`data`) of the client, nothing else.
`packet_outpacket` is a message without a node. A management packet may make the
main loop queue any number of messages (`packet_inpacket`). The bridge is
external: it acknowledges or aborts messages in order; nodes send packets with
any flags at any time. What is lost is the message or an abort (`BridgeLose`),
or the acknowledgement of a message the node has received (`BridgeLoseDone`). In
the second case the node takes the command for the one it answers next, but the
daemon, which can learn that from the acknowledgement only, still pairs what the
node sends with the client of the command before (packet.c:42-44).

`asked`, `answered`, `acked`, `missed`, `timeouts` and the field `to` are
history: they are written and never read by the code's actions. `missed` marks
the nodes, and the packets, for which an acknowledgement was lost.

The premise of the safety properties is `Calm`: no status comes later than the
two seconds of the writer (`LateAnswers = FALSE`), or none timed out yet. This
is an assumption about the bridge, and one the repository does not support:
ubconfig.h:37-38 allows a message 2500 ms and five retries, longer than the
writer waits. The two runs with late answers show what happens without it: one
bounds the damage, the other is a finding.

### NodeMgt

`nodes` is the table: for each slot the fields of `struct node`, for nodes with
one class. Pointers to sockets and to the connection to ubnetd are `"null"`,
`"open"` or `"dangling"`, because the code closes and unreferences objects
without resetting the pointer. `announced` is the node's entry in the directory
client. `sent` is the list of commands the last step passed to
`packet_outpacket`. `crashed` records that a null or released pointer was
followed; the behaviour is not followed any further. `quiet` and `ignored` are
history: the ticks since any packet of the node of an entry arrived, and the
entries whose node sent a packet that does not restart the counter of the code
(a version, or an 'I' that is not answered with 'O').

The bus is arbitrary: every management packet, from any id and any address in
`Sources`, may arrive in any state. `Discover`, `Identify`, `Version`,
`KeepAlive` and `Bridge` are the five cases of `busmgt_inpacket`; `mgt_tick` is
the one-second timer with `mgt_checkTimeout`, and for each entry that waits for
ubnetd one of the outcomes of `net_createSockets`. Lookups return the first
match in the table, as the loops do; the ids of the configuration may repeat.
`busmgt_getFreeBusAdr` returning -1 and the truncation of an address to eight
bits when it is sent are kept.

Not modelled of these files: names, version strings and the length checks of the
packets; classes beyond the first; `busmgt_addToMulticast`, `busmgt_setName` and
`busmgt_streamData`, which send without touching the table.

### Directory

`services` is the table of the client, with a slot for each class of each node
and each group; `table` is the table of the server, with the time to live of
each entry. A key of the server is id and service type: the code concatenates
the two, which determines them because no name in classes.c is the suffix of
another one. `net` is the set of datagrams under way; one may be lost, handed
over more than once (`arrived`), overtaken, and is at most `Delay` seconds old.
`dirserver_tick`, once a second, is the unit of time; `due` counts down to the
next `dirclient_tick`. ubd and the server may be restarted at any time.

`registerServices` and `removeServices` are what `net_createSockets` and
`net_removeSockets` make of a node; the first needs that its sockets are not
open (their listening ports cannot be bound twice), the second happens to nodes
that never had sockets, too. `SetClasses` is `busmgt_setClasses`, which does not
look at the sockets. Names, addresses and ports of an announcement are one value
(`url`); invalid announcements are ignored by the code and left out.

`told` is what an HTTP client knows that reads the list at every
`updated-service`, `since` the time since a key was last announced or withdrawn
for the first time, `lost` how many of its announcements were lost in a row; all
three are history.

### Ubnetd

`addrs` is the set of addresses on the interface; a node stands for its address.
`conns` are the connections to ubnetd, each with its thread: `backlog` until it
is accepted, then one step for each `ip addr` command, the sleep, the reply, and
the receive (`wait`) that ends when ubd closes its end. `net_init` is the
request of the base address at the start of ubd, `BASE`: its connection is in a
local variable, and is neither polled nor closed. `main` is what the main loop
of ubd waits for in `interface_removeAddress`; nothing else of ubd happens
meanwhile. `address6_createAddress` is therefore two actions, the request of the
removal and, when it is answered, `Recreate`, which closes the connection of an
older request and leaves the reply to `interface_getConfiguredAddress`. `ip addr
del` fails when the address is not there and `ip addr add` when it is. `late`
and `overslept` are history. The second collects the nodes for which a thread
woke up from its three seconds of sleep before the commands of an older one were
done; only `GrantedIsConfigured` excepts them. All else holds for threads of any
speed.

Not modelled: ubnetd crashing or not running (`Reconnect` of `NodeMgt` is what
interface.c does then), its start, and the end of ubd, which closes every
connection.

### Serial

A sender runs `serial_writeMessage`: `pc` is the part of the frame, `out` the
message, `i` and `doubled` the position in it. Each byte is received by
`serial_in` when it is written (`Receive`) or lost (`Lose`; the line is set to
IGNPAR); nothing else observes the time in between. The sender is the bridge,
whose firmware is external: it frames its messages as ubd does and answers the
"B" of `serial_switch` with a message that is just "B". `Init` is any place in a
frame, because `serial_open` discards what was received before. `fill`,
`escaped` and `buffer` are those of the code, and the branches of `serial_in`
are `Start`, `End`, `Escape` and `Store`. The test for a full buffer is in a
branch it is never true in, as in the code: `rx = "overrun"` is the write past
the end, `rx = "exit"` the failed assertions. `lost`, `intact` and `synced` are
history. Where ubd comes in in the middle of a frame, or a byte of a frame is
lost, the rest of it may look like the answer to the "B" (`SwitchedByAnswer` is
about frames that arrive whole).

The other direction is the same code; in `Packet` a message that is lost there
is one the bridge does not answer. Messages are assumed to fit in `struct
message`.

### Tcp

A session has a `port` (the index of a class, management or control), a parser
`nb` with the states of the code, and the address `out` of its output stream,
which is all that the packet layer and the lists of listeners know of it.
Addresses are a small set and used again when a session is closed. `unread` is
what the client has sent and was not read; a read takes any number of bytes of
it and folds `tcp_parse`, or `cmdparser_parse`, over them. `queue` and `current`
stand for the packet layer: commands are answered in order (the service of
`Packet`), and later packets of the node are replies to the last one
acknowledged. A write to an address where there is no stream ends the daemon or
fails.

The node may announce any list of classes at any time (`busmgt_setClasses`); the
code stores it without comparing it with the one before. When the address is
added, `net_createSockets` makes a listening socket for each index until one
cannot be bound, and replaces, but does not close, what was there (`strays`).
`portclass` is the class of the port a client connected to. The class of an
unsolicited packet is looked up in the list as it is then (`IndexOf`): the last
index that has it, or 0. A client that connects to a replaced socket meets
`ub_assert(FALSE)` (`ShouldNotHappen`).

Frames are what clients send: texts, binary commands with proper and improper
lengths, listen commands, control lines, which may begin with control characters
that cmdparser_parse skips (`lead`). The bytes are numbers, and only those
the parsers compare with matter. Two lines have an effect of their own: "exit",
and "list nodes", which allocates 300 bytes for each node and writes a header
even if there is none (cmd.c:10-19). `did`, `proper`, `careful` and `wrote` are
history. Texts of answers and their encoding are one write.

`crashed` names what ended the daemon, or made it write where it must not: a
write to a released stream ("status", "reply", "unsolicited"), a buffer
("memory"), the list of an empty table ("listing"), the end of a session of the
control port ("nonode"), a replaced socket ("service").

Not modelled here: `net_removeSockets` (the node of `NodeMgt` is removed, its
sessions stay), and the class a command is sent under, which is the present one
of the index (bus.c:48).

### Startup

The steps of an instance are the system calls of `main` and `daemon_init` whose
order matters: opening the line and the sockets, fork, lock, truncation, write
of the PID file, configuration, switch of the bridge. Each may fail where the
code tests for it, and an instance may be killed between any two. `mode` says
how it was started: the lock is taken by the child of a user's shell only, not
under init or systemd and not in the foreground with a configuration file as
argument. The kernel releases the lock of a process that ends (`holder`), but
keeps the contents of the file (`pidfile`). `groups` and `members` are the
tables an instance makes of its configuration, with sockets of groups that
cannot be made (`bound`). An entry of the table of nodes has room for
`MAX_NODE_GROUPS` groups (32, nodes.h:32); `xml_parseNode` stores further ones
behind it (xmlconfig.c:131-139) and only the first 32 are sent (busmgt.c:218).
What the overrun destroys is not followed. The init script, which removes the
PID file on its own (contrib/initscripts/ubd:80), is not considered.

## 3. Runs

| run | instance | checks |
|---|---|---|
| `packet_prompt` | 2 clients, 2 nodes, 3 messages, 1 packet, prompt answers | the pairing of statuses and of replies with clients, no null pointer, the inductive invariant (with the types), refinement of `StreamService` |
| `packet_late` | 2 clients, 1 node, 3 messages, late answers | the backlog of stray statuses is bounded by the timeouts |
| `packet_late_answers` | 2 clients, 1 node, late answers | violation: a late status goes to the wrong client |
| `packet_answered` | 2 clients, 1 node, 3 messages, losses but no late answers, fairness | every command is answered, the writer never gets stuck |
| `node_table` | 2 ids and the bridge, 3 slots, 2 of them configured for the same id, 2 addresses, timeout 1, 5 packets, fairness of the tick | the inductive invariant (with the types and with `UniqueId`, one entry per id), unique addresses, commands that agree with the table, no leak of addresses, sockets of confirmed nodes, when a node is removed, and that silent nodes are |
| `node_ok` | as above | violation: a node is confirmed without open sockets |
| `directory_lossy` | a node with one class of two, which changes, a group, 2 urls; announcements every 2 s, time to live 6 s, delay up to 1 s, one loss in a row; 5 changes | types, services are listed, dropped and told in time |
| `ubnetd` | 1 node and the base address, 4 connections, 3 requests, fairness | types and ownership of connections, registered nodes get their address, removed ones lose it, what ubd binds sockets to is there, no connection is lost but that of the base address, the main loop resumes, threads of nodes end |
| `serial` | packets of 2 bytes, buffer of 7, all messages of up to 2 of the 4 bytes with a meaning, 2 losses, 3 frames, fairness | frames are returned as written, what it takes to fill the buffer or fail an assertion, no whole frame but the answer ends the switch, and the answer does |
| `tcp_sessions` | 2 connections, 2 stream addresses, 2 lists of 2 classes, 2 announcements, buffer of 2, packets of 1, 2 frames of 10 | types, the parser is in step with what clients mean, listeners are connected, statuses go to the asker while clients wait, what is left that ends the daemon if clients are careful, and every session hears its class |
| `tcp_late_answers` | as above, 1 announcement | violation: the answer to a session that was closed is written to another one |
| `startup` | 3 instances in any modes, 2 kills, 2 groups at most, 2 of them for a node, 2 configurations of groups | types, one daemon, the PID file names it, groups of nodes agree with the sockets |

**Bounds.** `MaxPosts` bounds how many messages the main loop ever queues and
`MaxPackets` how many packets arrive. Three messages are enough for one to be
handled, one to follow it with the same node or without one, and one more to be
confused with; all interleavings of the threads happen. Three slots for three
ids, two of them taken by a configuration that names one id twice, make the
table full; two addresses run out after three discoveries; a timeout of one tick
distinguishes "after n" from "after n plus one"; five packets allow a node to
come, be confirmed, time out, return and be confirmed again. In `Directory`,
`MaxChanges` bounds what happens to nodes and daemons: five changes allow
classes to be told, announced, changed, withdrawn and announced again, or a
restart in between; the timers are scaled down so that `AnnouncedIsListed` is
not vacuous (`Gap` < `dirttl`) by exactly one tick. In `Ubnetd`, three requests
and four connections, one of which the base address keeps, let three threads of
one node interleave with the next removal; the main loop needs a free connection
besides one for each node and one for the removal. One node is enough because
threads of different nodes share nothing but the main loop, and the proofs do
not bound the nodes. In `Serial`, two lost bytes and three frames let two frames
be joined, and one come whole afterwards; `SERIAL_BUFFERLEN` 7 for packets of 2
bytes lets one joint frame fit (2 + 2 + 2) and two overflow, while with the
code's 100 for 50 one does already: `FillBound` counts it exactly. All messages
of up to the packet length are written. In `Tcp`, the frames are one of each way
through the parsers, at the length of the buffer and one beyond the packet; two
of them let one follow another in a session, or one session be closed while its
command is under way. Two sessions at two addresses are enough for one to take
over the address of another; two lists of classes, announced in turn, for a
class to move, to occur twice, and for a socket to be replaced. In `Startup`, a
third instance may start while one fails and one runs, one configuration has a
group more than the limit of two, and one node is configured for more than two.
Clients and nodes of `Packet`, connections and addresses of `Tcp` and instances
of `Startup` are symmetric where no liveness is checked.

**Deadlock** is checked in `packet_prompt`, `packet_answered` (`Quiescent` is
the state in which both threads block in their reads because nothing is left to
do), and in the runs of `Directory`, where time always passes. It is not checked
with late answers, where the reader may crash, nor where the model is bounded
and may be done: `NodeMgt` (packets), `Ubnetd` (requests), `Serial` (frames),
`Tcp` (sessions) and `Startup` (instances). `NodeMgt`, `Serial` and `Tcp` also
stop when the daemon has ended.

**Fairness.** `Fairness` of `Packet` is weak fairness of the writer, of the
reader, of dispatching idle sources and of the bridge: two kernel threads and a
main loop whose handlers do not block on each other, and a bridge that answers
or loses what it has received. Nothing has to be sent: posts and packets of
nodes are not fair. In `NodeMgt` only the tick is fair
(`g_timeout_add_seconds`). In `Ubnetd` each thread, the accept loop and the tick
of ubd are fair; requests are not, and no thread is faster than another. In
`Serial` the sender goes on with a frame it began, and the bridge answers the
switch it has heard; that it hears the "B" is not fair, because the code sends
it once and a byte may be lost.

Every property has a mutant (operators marked as such, next to the definition
they replace) that the same run refutes: a writer that does not wait, a timeout
without an abort, the stream of the wrong message, an address
search that ignores unconfirmed nodes, an off-by-one in the timeout, an escape
that is not doubled, a length compared with `<`, a lock taken before the fork,
and so on.

## 4. Proofs

The modules `...Proofs` are checked by TLAPS for every value of the constants
that satisfies the assumptions of the module they are about. Every invariant a
run checks is the consequence of a theorem, and so is each action property.

**Assumptions.** `PacketAssumption`, `NodeMgtAssumption`, `DirectoryAssumption`,
`UbnetdAssumption`, `SerialAssumption`, `StartupAssumption` and `TcpAssumption`
type the constants and say what the constant tables of the code have in common:
a table of groups fits below the broadcast address, a packet fits in the buffer.
Neither the ids of a configuration nor the classes a node announces are assumed
to differ. `FrameAssumption` says what a frame of a
client is: a text without a line end, a binary command as long as it says (or a
length that is wrong, `badlength`), a line that begins with a printable
character after any control characters. None of them bounds how many nodes,
clients, threads, bytes or frames there are.

**Induction over data.** The library's induction theorems take an operator,
which the provers cannot instantiate. `SeqFilterProofs` states them for a set
instead: `InductionUpTo` (from the least member of a set of numbers) and
`SeqInduction` (a set with the empty sequence that is closed under appending
contains every sequence), and `RecursionUpTo`, by which a recursive function
exists and obeys its equation. `Kept` (a filter), `Parsed` (the parsers over the
bytes of a read) and `xml_parseGroups` (the list of a configuration) are
therefore recursive functions, and what they compute is proved for inputs of any
length.

**Packet.** `IInv` states the argument the comment in the writer thread hints
at: while the discipline holds, the one status of the message under way is in
exactly one place (lost, at the bridge, on the line, in the reader's hands, in
`packet_status`), no other status exists, and the shared fields hold that
message's stream from the store until the status is handed over. Without the
part about where the status is, pairing is not inductive: a second status could
meet the fields of the next message. `AnswersCorrect` and `ReaderSafe` follow.

* `RepliesCorrect` needs `Replies`: for every position of the line from the
  bridge, the current stream of a node by the time the reader comes to that
  position is the one its node had acknowledged when it sent the packet, unless
  that acknowledgement was lost (`missed`). This is
  not true of the current stream as it is now; a PACKET_DONE that is still ahead
  of the packet changes it first.
* `BacklogBounded` holds for late answers as well. It is inductive with the
  types: writing a message adds one place for a status and the wait for it, a
  timeout trades the wait for a stray status. The cardinality of the statuses on
  the line changes by one with each that is appended or read.
* `ServiceImplemented`: under `[]Calm`, every step of `Packet` is a step of
  `StreamService` or a stutter. The unanswered commands are the concatenation of
  three filtered queues; each action moves at most one element from one part to
  the next. `Service!Command` is `packet_streamPacket` of a client,
  `Service!Answer` the idle source that calls `tcp_reply`, and `IInv` is needed
  where the reader takes the stream of the status out of the shared fields.

**NodeMgt.** `NInv` is inductive. `EntryOK` strengthens the properties: the
counter and the ticks since the last packet that restarts it add up to the
timeout; only the bridge has the bridge's address (so that its fixed address
cannot collide); `netup` implies the sockets were opened once. `TableTyped`,
`AddressesUnique`, `IdsUnique` (of the entries that are active: an id that the
configuration repeats is in the table twice, and its first entry is the one that
is used), `ActiveTracked`, `SocketsReady` follow. `RemovedWhenQuiet` is an
action property: a node is removed after `nodetimeout` + 1 ticks without any
packet, unless it sent one of those that are ignored.

* `CommandsMatch`: what is sent in a step agrees with the table the step leaves
  behind, also where the table was changed between two commands. A node without
  an address, and no other, has its groups sent to the broadcast address.
* `AddressesDoNotLeak`: when the search for an address fails every address is
  that of an active entry, and addresses are unique, so there is an injection of
  the addresses into the active entries.

**Directory.** `DInv` adds to the types what keeps a withdrawn service alive:
the time to live left and the ticks since the withdrawal add up to at most
`dirttl + Delay`, and an announcement still under way is as old as the
withdrawal at least. Without the datagrams it is not inductive, for one of them
could renew an entry at any time. `WithdrawnDropped` follows; `ReadersTold`
needs the types only. `AnnouncedListed` is proved with `Living`: announcements
of a service were due at known times, and of those since the last that arrived,
as far as the list tells, every one is under way or missing; no more are missing
than were lost in a row. So the gap is short enough. What ubd announced before a
withdrawal or a restart may still arrive `Delay` ticks later, which is what the
age in `Elapsed` is for.

**Ubnetd.** `UInv` says of each node that is not in the main loop's hands:
registered, it has its address or a thread that will add it; removed, the
address, or such a thread, is left only if it was late. The first is not
inductive without `OneRemoval`: the only thread that may still remove an address
without adding it again is the one the main loop waits for. That is what the
wait in `interface_removeAddress` is for. `UbnetdTyped`, `ActiveConfigured` and
`LingersIfLate` follow; `NoneLost` says which connections ubd keeps open.
`GrantedConfigured` rests on `Granting`: when the request that ubd polls
succeeded, the address is there or an older thread puts it back, and once the
reply is sent no older thread is left.

**Serial.** `SInv` relates receiver and sender. `InStep` says where the receiver
is in a frame of which nothing was lost, from its START on, whatever it had in
its buffer: a START is recognised only if `escaped` is right, which a loss in
the frame before may have spoiled, so one frame may be misread after a loss and
the next is not. `Copied` adds, for two whole frames in a row, that the buffer
is the part of the message sent so far. `Answered` is needed because the
receiver, not yet switched, compares with "B" only. `SerialTyped`, `WholeFrames`
and `AnswerSwitches` follow; the second and third for any place in a frame where
ubd comes in and any bytes lost before the frame. `FillBounded` is proved with
`Filled`, an allowance of one frame and a START for each lost byte. It is spent
only when a START is not recognised; a receiver out of step with the sender's
escapes still has an unspent allowance.

**Startup.** `LockInv`: an instance past the lock holds it until it ends, so
nobody else has truncated or written the PID file since. `OneDaemonRuns` and
`PidFileCorrect` follow, for any number of instances and kills. `GroupsInv` says
that a table of groups is in order (each name once, each address one more than
the one before), which `groups_addGroup` keeps and the induction over the
configuration needs; `StartupTyped` and `GroupsCorrect` follow, the latter for
any number of groups of a node, of which those beyond `MAX_NODE_GROUPS` are not
sent.

**Tcp.** Four layers, each inductive relative to those before it:

* `Sessions`: the types (`SessionsTyped`), parsers that belong to their ports,
  a session that asked is not on the control port.
* `OneOwner`, `ListenersAreLive`, `Listening`: two stream objects that exist do
  not overlap, every listener is the stream of a connected session on a port of
  its class, and every such session listens. The first is what makes removing
  all entries of an address in `listen_unregister` right. `ListenersLive` and
  `ListenersTold` follow. Nothing is assumed of the classes the node announces;
  the second says when the lookup comes to the port the client connected to.
* `Understanding`: what the parser still makes of the unread bytes completes
  what the frame means. A read takes a prefix of them, and `ParsedConcat` says
  that parsing in two parts is parsing at once; that a whole frame is understood
  from a new parser (`FrameRead`) is an induction over the bytes of a text, a
  binary command and a line. `ParsersInStep` follows.
* `Careful`: who waits for a status is connected, and frames fit. What a read
  does is a part of what a frame means (`DoneIsMeant`), so no command overruns a
  buffer or a packet, the table that is listed is not empty, and every address a
  status or an unsolicited packet is written to has an owner. `CarefulAreSafe`
  follows, and with `OneOwner` `StatusesReach`. The client of the last command,
  to which the later packets of the node are written, need not be connected.

All these invariants were checked with TLC on the instances of the runs before
they were proved; `IInv` and `NInv` are invariants of runs themselves.

**Only model-checked:** the liveness properties `EveryCommandAnswered`,
`QueueDrains`, `SilentNodesRemoved`, `MainLoopResumes`, `ThreadsEnd` and
`SwitchEnds` (fairness and ENABLED are out of the provers' reach), and the three
runs that refute something. No module declares a recursive operator.

## 5. Findings

* `packet_late_answers`: packet.c:108-110 says "no mutex seems to be needed"
  because the reader reads the fields after the acknowledgement of the message.
  Statuses carry no identification: after a timeout the status of the old
  message is taken for that of the new one, for which the fields have been
  overwritten; its client is told 'A' or 'N' for a command it did not send. The
  backlog never resolves by itself (`StatusBacklog` bounds it by the number of
  timeouts). The same run may reach the null dereference of `nextnode`
  (packet.c:60).
* `node_ok`: busmgt.c:102 says "send the OK if we have our interface ready", but
  `netup` is never reset when `net_removeSockets` closes the sockets. A node
  that returns after a timeout is confirmed at once, before, or without,
  sockets.
* `tcp_late_answers`: net_tcp.c:83-86 says of the calls of `tcp_reply` that they
  "wil fail if the remote closed the connection before we could answer". The
  stream is released when the client closes (net_tcp.c:184) and a session that
  is opened then may have its stream at the same address: the answer, the status
  of a command it did not send, is written to the new session.

Observations without a run of their own, most of which contradict nothing the
repository says:

* directory-server.c:273 says the answer to `discover-directory` is sent
  "directly to the source of the command". Its destination is made from `sa`,
  the group, instead of `src` (directory-server.c:275): the group gets the
  answer twice and the source none of its own (`dirserver_announce`).
* A node announces other classes, and its sockets are made again: those of the
  old classes go on listening, and a client that connects to one meets the
  assertion under "should not happen" (net_tcp.c:225-226). Packets of a class
  that moved, or that occurs twice, reach the listeners of its last index only;
  those of a class the node no longer announces the listeners of index 0.
  `EveryListenerTold` says which sessions hear their class all the same.
* The groups of a node without an address are sent to the broadcast address
  (`busmgt_sendMulticastGroups`, busmgt.c:214-225): every node of the bus is
  added to them. `CommandsMatchTable` says that only these are.
* A node that repeats 'I' because its sockets cannot be bound, or sends versions
  only, is removed while it talks: neither restarts the counter
  (busmgt.c:102-121). `RemovedOnlyWhenQuiet` says that nothing else does this.
* When only the acknowledgement of a command is lost, what the node answers goes
  to the client of an earlier command (packet.c:42-44).
* `net_init` keeps its connection to ubnetd in a local variable (net.c:35-39): a
  thread of ubnetd waits for its end as long as ubd runs.
* The configuration may name an id twice (xmlconfig.c:112-113); the second entry
  takes a slot and is never found.
* A node that is configured for more than 32 groups overwrites what follows them
  in its entry (xmlconfig.c:134).
* With the real timers, 15 s and 30 s, `Gap` < `dirttl` holds only without
  losses: after one lost announcement the next is due when the entry expires, so
  a service that is up may be dropped until it arrives.
* When the classes of a node change between `registerServices` and
  `removeServices`, the entries of the old classes stay in the client's table
  and are announced for ever.
* An address stays on the interface after its node was removed if the thread
  that adds it is overtaken by the one that removes it (`LingersOnlyIfLate`).
* groups.h:6 reserves the bus addresses from 0x80 for groups, but
  `busmgt_getFreeBusAdr` hands out 3 to 254 to nodes: the 126th active node gets
  the address of a group.
* When the second byte of an END is lost, the two escapes around it are read as
  one of the data, and the frame goes on with the START and the data of the
  next. Two full ones are 50 + 2 + 50 bytes, more than `SERIAL_BUFFERLEN`, which
  is 100, and the test for a full buffer is in the wrong branch ("TODO: prevent
  overflow!", serial.c:107).
* A START that is lost, or that was sent before ubd opened the line, makes the
  END fail `ub_assert(fill != -1)`: the daemon ends. A "B" of `serial_switch`,
  or its answer, that is lost is waited for for ever.
* A client that closes the control port without "exit" makes `listen_unregister`
  follow a null node; a command that is longer than a packet is copied before
  its length is tested (bus.c:51); a binary length of 0 becomes negative and
  fills the buffer; "list nodes" before the first node is known writes into a
  buffer of no bytes (cmd.c:10-19; with nodes, 300 bytes for each are not
  checked either); a status may be written to a session that closed in the
  meantime. `CarefulClientsAreSafe` says that clients which avoid these end the
  daemon only by a replaced socket, or by a node that sends another packet when
  the client it answered has left, which none of them can avoid.
* A management command that is too long is dropped without an answer, and the
  listeners of a session whose read failed stay (`life = "stuck"`).
* Under init or systemd, or with a configuration file as argument, there is
  neither lock nor PID file. In all modes the line is opened, and its input
  discarded, before the lock is asked for: a second instance disturbs the first.
* After an accept that fails, ubnetd never resets its error (ubnetd.c:275), and
  drops every later connection.

## 6. Plan

Done, in the order of importance: `Packet`, `NodeMgt`, `Ubnetd`, `Directory`,
`Tcp`, `Serial`, `Startup`, each with its runs, its invariants and their proofs,
and the refinement of `StreamService`. Left:

1. `Bus`: `NodeMgt` composed with the nodes' side of the address protocol and a
   lossy FIFO: repeated discovery, stale addresses, resets; after the bus calms
   down every node is confirmed with an address of its own (liveness). The
   nodes' side is external, and the FIFOs need a bound that keeps retransmitted
   discoveries apart without growing out of hand: on a half-duplex bus one
   message at a time.
2. `Daemon`: `Packet` with `NodeMgt`'s table: a node that is deactivated between
   the reader's lookup and the main loop's use of it.
3. Proofs: that `Tcp`'s queue is the service of `Packet` (a refinement between
   the two modules, with `StreamService` in between); safety parts of the
   liveness properties, such as that a variant decreases with every step of a
   thread of `Ubnetd` or with every tick for a silent node.

## 7. Not modelled, and why

* `address6db.c`: the MD5 of an id, a pure computation, and its prefixes, which
  do not change. `classes.c`: a constant table, a parameter of `Tcp` and
  `Directory`.
* `cmd.c`: the texts of answers. `cmdparser_cmd` is modelled by what becomes of
  the session, and `cmd_list_nodes` by what it does when there are no nodes.
* `net_udp.c`, `broadcast.c`, the reads of `groups.c` and `net_multicast.c`:
  each passes a datagram to `bus_send*`, which is one post of `Packet`.
* `busmgt_addToMulticast`, `busmgt_setName`: they send and keep nothing.
* `xmlconfig.c` but for groups and nodes: options read once at the start. The
  configuration is assumed to fit into the table of nodes (`NodeMgtAssumption`);
  the code follows a null pointer where it does not.
* `debug.c`, `segfault.c`: logging. Names and version strings of nodes.
* The daemons on the nodes and the firmware of the bridge: external. `NodeMgt`
  takes any packets from them, `Packet` and `Serial` a bridge that keeps order.
* Failing accepts of ubnetd, and its crash: nothing in the code bounds or
  handles them.

Of the listed hazards these have no property: the dereference of a node that was
removed (busmgt.c:118), pointers that are not reset (interface.c:26, net.c:219)
and the late reply of ubnetd to a node that is gone (mgt.c:33) are modelled in
`NodeMgt` and end in `crashed` or in open sockets of an inactive node, which no
line of the repository rules out; the reader's use of the table (packet.c:39)
awaits `Daemon`.
