-------------------------------- MODULE Tcp --------------------------------
(***************************************************************************)
(* The TCP sessions of one node and of the control port: net_tcp.c,        *)
(* cmdparser.c, cmd.c and listen.c, with the classes of the node and the   *)
(* listening sockets they depend on (busmgt_setClasses, net_createSockets).*)
(*                                                                         *)
(* A session is on the port of a class of the node, on its management port *)
(* or on the control port of ubd.  The node announces its classes again    *)
(* and again, and they need not be those its ports were made for.  What    *)
(* a client sends is read in pieces, as the network delivers them, and     *)
(* parsed byte by byte.  A command goes to the packet layer together with  *)
(* the address of the output stream of the session; the answer is written  *)
(* to that address, whenever it comes.                                     *)
(* Everything here runs in the main loop, so a handler is one step.        *)
(***************************************************************************)
EXTENDS Integers, Sequences, SequencesExt, SeqFilter

CONSTANTS
  Conns,           \* connections of clients
  Streams,         \* addresses in memory of output streams
  NULL,
  NCLASSES,        \* classes of a node
  ClassLists,      \* what a node announces: per index a class, or 0
  UB_PACKET_DATA,  \* bytes that fit in a packet
  MAX_BUF,         \* size of the buffer for a command
  NodeFrames,      \* what clients of the node send
  ControlFrames,   \* what clients of the control port send
  PacketClasses,   \* classes of the packets the node sends
  MaxFrames,       \* bound: how much of that
  MaxDiscoveries   \* bound: how often the node announces its classes

ASSUME TcpAssumption ==
  /\ NULL \notin Conns \cup Streams \cup NodeFrames \cup ControlFrames
  /\ NCLASSES \in Nat \ {0}
  /\ ClassLists \subseteq [0..NCLASSES - 1 -> Nat]
  /\ UB_PACKET_DATA \in Nat /\ MAX_BUF \in Nat \ {0}
  /\ MaxFrames \in Nat /\ MaxDiscoveries \in Nat

\* Bytes with a meaning.
LF == 10   CR == 13   B == 66   C == 67   L == 76
Newline == {LF, CR}
Space == 32
Byte == 0..255
Ascii == 0..127

\* A port: the index of a class, or one of these.  The management port of a
\* node has the number a class 24 would have.
MGT == -1
CONTROL == -2
Index == 0..NCLASSES - 1
NodePort == {MGT} \cup Index
Port == {CONTROL} \cup NodePort
MgtClass == 24

\* What a client sends, and the bytes it consists of.
Frame == NodeFrames \cup ControlFrames
Bytes(f) ==
  CASE f.kind = "text" -> <<C>> \o f.data \o <<CR, LF>>
    [] f.kind \in {"binary", "badlength"} -> <<B, f.len>> \o f.data
    [] f.kind = "listen" -> <<L>>
    [] f.kind = "line" -> f.lead \o f.data \o <<LF>>

\* A text has no line end, a binary command the length it says.  A line may
\* begin with control characters; whether char is signed, so that what is not
\* ASCII is a control character as well, is left to the build.
ASSUME FrameAssumption ==
  /\ \A f \in NodeFrames :
       \/ f.kind = "text" /\ f.data \in Seq(Byte \ Newline)
       \/ f.kind = "binary" /\ f.data \in Seq(Byte) /\ f.len = Len(f.data)
          /\ f.len \in 1..MAX_BUF /\ f.len \in Byte
       \/ f.kind = "badlength" /\ f.data \in Seq(Byte) /\ f.len \in Byte
       \/ f.kind = "listen"
  /\ \A f \in ControlFrames :
       /\ f.kind = "line" /\ f.data \in Seq(Ascii \ Newline)
       /\ f.lead \in Seq(0..Space - 1 \ Newline)
       /\ f.data # <<>> => Head(f.data) >= Space

VARIABLES
  classes,    \* of the node: per index a class, or 0
  bound,      \* per port of the node: class whose number it has, 0 if closed
  strays,     \* such numbers of listening sockets that were replaced
  asked,      \* ubnetd was asked for the address of the node
  discovered, \* how often the node announced itself
  life,       \* of a session; it is stuck after a read that failed
  port,       \* of a session
  portclass,  \* of a session: class of the port its client connected to
  out,        \* address of the output stream of a session
  nb,         \* parser of a session
  frame,      \* client: the last frame it sent
  unread,     \* client: the bytes of the frame that were not read yet
  did,        \* history: what the parser did since the frame was sent
  proper,     \* history: every length the client sent was proper
  frames,     \* how many frames were sent
  listeners,  \* per class: addresses of the streams that listen
  queue,      \* sessions whose command was not acknowledged or aborted yet
  current,    \* session whose command was acknowledged last
  wrote,      \* what the last step wrote: to which session, and why; what is
              \* written to the control port by its own handler is left out
  careful,    \* history: no client did what the daemon is not prepared for
  crashed     \* what ended the daemon, or made it overwrite memory, or "no"

node == <<classes, bound, strays, asked, discovered>>
client == <<frame, unread, proper, frames, careful>>
packets == <<queue, current>>
vars == <<node, life, port, portclass, out, nb, client, did, listeners, packets,
          wrote, crashed>>

\* struct nodebuffer: cmdlen is Len(cmd), left is cmdbinlen.
Parser == [state : 0..4 \cup {-1}, cmd : Seq(Byte), left : Int]
NewParser == [state |-> 0, cmd |-> <<>>, left |-> 0]

\* What a parser does for a byte.
Deed == [op : {"listen", "command", "line", "list", "exit", "overrun"},
         data : Seq(Byte)]
Do(op, data) == [op |-> op, data |-> data]

\* What is written to a session, and what can end the daemon: writing that
\* where there is no stream any more, a buffer that is overrun, the end of a
\* session that has no node, the list of an empty table, or a connection to a
\* listening socket that was replaced.
What == {"status", "reply", "unsolicited"}
Cause == What \cup {"memory", "nonode", "listing", "service"}

Live(c) == life[c] \in {"open", "stuck"}
\* The session whose stream object is at this address now.
Owners(m) == {c \in Conns : Live(c) /\ out[c] = m}

NodeTypes ==
  /\ classes \in [Index -> Nat]
  /\ bound \in [NodePort -> Nat]
  /\ strays \in SUBSET Nat
  /\ asked \in BOOLEAN
  /\ discovered \in 0..MaxDiscoveries
  /\ portclass \in [Conns -> Nat]
SessionTypes ==
  /\ life \in [Conns -> {"none", "open", "stuck", "closed"}]
  /\ port \in [Conns -> Port]
  /\ out \in [Conns -> Streams \cup {NULL}]
  /\ nb \in [Conns -> Parser]
  /\ \A c \in Conns : Len(nb[c].cmd) <= MAX_BUF
  /\ frame \in [Conns -> Frame \cup {NULL}]
  /\ unread \in [Conns -> Seq(Byte)]
  /\ did \in [Conns -> Seq(Deed)]
  /\ proper \in [Conns -> BOOLEAN]
  /\ frames \in 0..MaxFrames
  /\ listeners \in [Index -> Seq(Streams)]
  /\ queue \in Seq(Conns)
  /\ current \in Conns \cup {NULL}
  /\ wrote \in Seq([to : Conns, what : What, asker : Conns \cup {NULL}])
  /\ careful \in BOOLEAN
  /\ crashed \in Cause \cup {"no"}
TypeOK == NodeTypes /\ SessionTypes

Init ==
  /\ classes = [i \in Index |-> 0]
  /\ bound = [p \in NodePort |-> 0]
  /\ strays = {}
  /\ asked = FALSE
  /\ discovered = 0
  /\ life = [c \in Conns |-> "none"]
  /\ port = [c \in Conns |-> CONTROL]
  /\ portclass = [c \in Conns |-> 0]
  /\ out = [c \in Conns |-> NULL]
  /\ nb = [c \in Conns |-> NewParser]
  /\ frame = [c \in Conns |-> NULL]
  /\ unread = [c \in Conns |-> <<>>]
  /\ did = [c \in Conns |-> <<>>]
  /\ proper = [c \in Conns |-> TRUE]
  /\ frames = 0
  /\ listeners = [i \in Index |-> <<>>]
  /\ queue = <<>>
  /\ current = NULL
  /\ wrote = <<>>
  /\ careful = TRUE
  /\ crashed = "no"

-----------------------------------------------------------------------------
(* tcp_parse.  The bytes of a command are not kept when it is done.  *)

\* A parser after a byte, and what it did.
Then(p, deeds) == [p |-> p, did |-> deeds]

Idle(p) == [p EXCEPT !.state = 0, !.cmd = <<>>, !.left = 0]

Begin(p, b) ==
  CASE b = C -> Then([p EXCEPT !.state = 1], <<>>)
    [] b = B -> Then([p EXCEPT !.state = 2], <<>>)
    [] b = L -> Then(p, <<Do("listen", <<>>)>>)
    [] OTHER -> Then(p, <<>>)

\* (mutant) without the test for a full buffer
TextUnbounded(p, b) ==
  IF b \in Newline
    THEN Then(Idle(p), <<Do("command", p.cmd)>>)
    ELSE Then([p EXCEPT !.cmd = Append(@, b)], <<>>)
Text(p, b) ==
  CASE b \in Newline -> Then(Idle(p), <<Do("command", p.cmd)>>)
    [] b \notin Newline /\ Len(p.cmd) + 1 < MAX_BUF ->
         Then([p EXCEPT !.cmd = Append(@, b)], <<>>)
    [] OTHER -> Then([Idle(p) EXCEPT !.state = 4], <<>>)

\* (mutant) "data < sizeof(nb->cmd)"
LengthBelow(p, b) ==
  IF b < MAX_BUF THEN Then([p EXCEPT !.state = 3, !.left = b], <<>>)
                 ELSE Then(Idle(p), <<>>)
Length(p, b) ==
  IF b <= MAX_BUF THEN Then([p EXCEPT !.state = 3, !.left = b], <<>>)
                  ELSE Then(Idle(p), <<>>)

\* A length of 0 has become negative when it is tested.
Binary(p, b) ==
  CASE Len(p.cmd) = MAX_BUF -> Then(p, <<Do("overrun", <<>>)>>)
    [] Len(p.cmd) < MAX_BUF /\ p.left = 1 ->
         Then(Idle(p), <<Do("command", Append(p.cmd, b))>>)
    [] OTHER -> Then([p EXCEPT !.cmd = Append(@, b), !.left = @ - 1], <<>>)

SkipLine(p, b) == Then(IF b \in Newline THEN Idle(p) ELSE p, <<>>)

tcp_parse(p, b) ==
  CASE p.state = 0 -> Begin(p, b)
    [] p.state = 1 -> Text(p, b)
    [] p.state = 2 -> Length(p, b)
    [] p.state = 3 -> Binary(p, b)
    [] p.state = 4 -> SkipLine(p, b)

-----------------------------------------------------------------------------
(* cmdparser_parse *)

\* "exit" and "list nodes"; a word is one byte here.
Exit == <<101>>
ListNodes == <<110>>

\* cmdparser_cmd has an answer to every line.
cmdparser_cmd(cmd) ==
  Do(IF cmd = Exit THEN "exit" ELSE IF cmd = ListNodes THEN "list" ELSE "line", cmd)

Line(p, b) ==
  CASE b \in Newline ->
         Then([Idle(p) EXCEPT !.state = IF p.cmd = Exit THEN -1 ELSE 0],
              <<cmdparser_cmd(p.cmd)>>)
    [] b >= Space /\ Len(p.cmd) + 1 < MAX_BUF ->
         Then([p EXCEPT !.state = 1, !.cmd = Append(@, b)], <<>>)
    [] OTHER -> Then([Idle(p) EXCEPT !.state = 2], <<>>)

\* State 0 goes on with state 1 when a line begins; -1 is a closed session.
cmdparser_parse(p, b) ==
  CASE p.state = -1 \/ (p.state = 0 /\ b < Space) -> Then(p, <<>>)
    [] p.state = 1 \/ (p.state = 0 /\ b >= Space) -> Line(p, b)
    [] p.state = 2 -> SkipLine(p, b)

parse(q, p, b) == IF q = CONTROL THEN cmdparser_parse(p, b) ELSE tcp_parse(p, b)

\* What the parser p of a session on port q makes of the bytes of one read.
Onward(q, r, b) == LET t == parse(q, r.p, b) IN Then(t.p, r.did \o t.did)
Parsed(q, p, bytes) ==
  LET after[j \in 0..Len(bytes)] ==
        IF j = 0 THEN Then(p, <<>>) ELSE Onward(q, after[j - 1], bytes[j])
  IN  after[Len(bytes)]

-----------------------------------------------------------------------------
(* Writing to a stream *)

\* The stream object at this address is written to.
Written(m, what, asker) ==
  [to |-> CHOOSE c \in Owners(m) : TRUE, what |-> what, asker |-> asker]

\* A sequence of addresses is written to.  Where there is no object any more
\* the daemon ends, or the call fails with a message.
WriteTo(ms, what, asker) ==
  LET live == Kept(ms, {m \in Streams : Owners(m) # {}}) IN
    /\ wrote' = [j \in DOMAIN live |-> Written(live[j], what, asker)]
    /\ \/ UNCHANGED crashed
       \/ live # ms /\ crashed' = what

-----------------------------------------------------------------------------
(* The node: its classes and its listening sockets *)

sessions == <<life, port, portclass, out, nb, client, did, listeners>>

\* The node announces itself (a "D" or a "B"): its classes are stored, what
\* they were before does not matter, and its address is asked for again.
busmgt_setClasses(list) ==
  /\ discovered < MaxDiscoveries
  /\ classes' = list
  /\ discovered' = discovered + 1
  /\ asked' = TRUE
  /\ wrote' = <<>>
  /\ UNCHANGED <<bound, strays, sessions, packets, crashed>>

\* The numbers of ports that are in use.
InUse == ({bound[p] : p \in NodePort} \cup strays) \ {0}
\* The indices below n get a listening socket for their class.
Made(n) == {i \in Index : i < n /\ classes[i] # 0}

\* The address was added.  The socket at index n cannot be bound; what was
\* there before is replaced up to n, and goes on listening.  The management
\* port is the last one.
net_createSockets(n) ==
  LET made == {classes[i] : i \in Made(n)} IN
  /\ asked /\ asked' = FALSE
  /\ made \cap InUse = {}
  /\ \A i, j \in Made(n) : classes[i] = classes[j] => i = j
  /\ \E mgt \in BOOLEAN :
       /\ mgt => n = NCLASSES /\ MgtClass \notin InUse \cup made
       /\ bound' = [p \in NodePort |->
                      IF p \in Made(n) THEN classes[p]
                      ELSE IF p = MGT /\ mgt THEN MgtClass ELSE bound[p]]
  /\ strays' = strays \cup ({bound[i] : i \in Made(n)} \ {0})
  /\ wrote' = <<>>
  /\ UNCHANGED <<classes, discovered, sessions, packets, crashed>>

-----------------------------------------------------------------------------
(* tcp_listener, tcp_listener_read *)

\* listen_register
Registered(c, p, m) ==
  listeners' = [i \in Index |->
                  IF i = p THEN <<m>> \o listeners[i] ELSE listeners[i]]

tcp_listener(c, p, m) ==
  /\ life[c] = "none" /\ Owners(m) = {}
  /\ p \in NodePort => bound[p] # 0
  /\ life' = [life EXCEPT ![c] = "open"]
  /\ port' = [port EXCEPT ![c] = p]
  /\ portclass' = [portclass EXCEPT ![c] = IF p = CONTROL THEN 0 ELSE bound[p]]
  /\ out' = [out EXCEPT ![c] = m]
  /\ wrote' = <<>>
  /\ Registered(c, p, m)
  /\ UNCHANGED <<node, nb, client, did, packets, crashed>>

\* A client connects to a socket that was replaced: ub_assert(FALSE).
ShouldNotHappen(c) ==
  /\ life[c] = "none" /\ strays # {}
  /\ crashed' = "service"
  /\ UNCHANGED <<node, sessions, packets, wrote>>

\* A client sends something.
Send(c, f) ==
  /\ life[c] = "open" /\ unread[c] = <<>> /\ frames < MaxFrames
  /\ f \in IF port[c] = CONTROL THEN ControlFrames ELSE NodeFrames
  /\ frame' = [frame EXCEPT ![c] = f]
  /\ unread' = [unread EXCEPT ![c] = Bytes(f)]
  /\ did' = [did EXCEPT ![c] = <<>>]
  /\ frames' = frames + 1
  /\ proper' = [proper EXCEPT ![c] = @ /\ f.kind # "badlength"]
  /\ careful' = (careful /\ f.kind # "badlength"
                  /\ (f.kind \in {"text", "binary"} /\ port[c] # MGT
                        => Len(f.data) <= UB_PACKET_DATA)
                  /\ (f.kind = "line" /\ f.data = ListNodes => discovered > 0))
  /\ wrote' = <<>>
  /\ UNCHANGED <<node, life, port, portclass, out, nb, listeners, packets, crashed>>

\* The class of a node that is not registered is 0: that of the mgt port.
ClassId(c) == IF port[c] = MGT THEN 0 ELSE port[c]

\* When the parser did this.
Deeds(op, r) == {j \in DOMAIN r.did : r.did[j].op = op}
\* bus_streamToID copies the command before its length is tested,
\* busmgt_streamData drops one that is too long and never answers it.
Fits(r, j) == Len(r.did[j].data) <= UB_PACKET_DATA
Overwrites(c, r) ==
  \/ Deeds("overrun", r) # {}
  \/ port[c] # MGT /\ \E j \in Deeds("command", r) : ~Fits(r, j)
\* cmd_list_nodes allocates nothing when the table is empty, and writes a header
\* all the same.
ListsNothing(r) == Deeds("list", r) # {} /\ discovered = 0
Commands(r) == {j \in Deeds("command", r) : Fits(r, j)}

\* As often as there are such deeds.
Times(deeds, x) == [j \in 1..Cardinality(deeds) |-> x]

\* The next bytes arrive.  An "exit" drops the session.
Read(c, n) ==
  LET r == Parsed(port[c], nb[c], SubSeq(unread[c], 1, n)) IN
  /\ life[c] = "open" /\ n \in 1..Len(unread[c])
  /\ \/ /\ \/ Overwrites(c, r) /\ crashed' = "memory"
           \/ ListsNothing(r) /\ crashed' = "listing"
        /\ UNCHANGED <<life, nb, unread, did, listeners, queue, wrote>>
     \/ /\ ~Overwrites(c, r) /\ ~ListsNothing(r)
        /\ nb' = [nb EXCEPT ![c] = r.p]
        /\ did' = [did EXCEPT ![c] = @ \o r.did]
        /\ unread' = [unread EXCEPT ![c] = SubSeq(@, n + 1, Len(@))]
        /\ listeners' =
             [i \in Index |->
                IF i = ClassId(c)
                  THEN Times(Deeds("listen", r), out[c]) \o listeners[i]
                  ELSE listeners[i]]
        /\ queue' = queue \o Times(Commands(r), c)
        /\ wrote' = <<>>
        /\ life' = [life EXCEPT ![c] = IF r.p.state = -1 THEN "closed" ELSE @]
        /\ UNCHANGED crashed
  /\ UNCHANGED <<node, port, portclass, out, frame, proper, frames, careful, current>>

\* listen_unregister, with g_slist_remove_all
\* (mutant) with g_slist_remove
FirstRemoved(i, m) == RemoveFirst(listeners[i], m)
AllRemoved(i, m) == Kept(listeners[i], Streams \ {m})

\* Nothing is read from the session any more.
Ends(c, how) ==
  /\ life' = [life EXCEPT ![c] = how]
  /\ nb' = [nb EXCEPT ![c] = NewParser]
  /\ frame' = [frame EXCEPT ![c] = NULL]
  /\ unread' = [unread EXCEPT ![c] = <<>>]
  /\ did' = [did EXCEPT ![c] = <<>>]

\* The client closes the connection; a careful one has the status of each of
\* its commands.  The control port has no node, and its listeners are removed
\* all the same.
Eof(c) ==
  /\ life[c] = "open"
  /\ wrote' = <<>>
  /\ careful' = (careful /\ port[c] # CONTROL /\ c \notin ToSet(queue))
  /\ \/ /\ port[c] = CONTROL
        /\ crashed' = "nonode"
        /\ UNCHANGED <<life, listeners, unread, nb, frame, did>>
     \/ /\ port[c] # CONTROL
        /\ listeners' = [listeners EXCEPT ![ClassId(c)] = AllRemoved(ClassId(c), out[c])]
        /\ Ends(c, "closed")
        /\ UNCHANGED crashed
  /\ UNCHANGED <<node, port, portclass, out, proper, frames, packets>>

\* (mutant) the session is released when a read fails
ReadErrorReleases(c) ==
  /\ life[c] = "open"
  /\ listeners' = [listeners EXCEPT ![ClassId(c)] = AllRemoved(ClassId(c), out[c])]
  /\ Ends(c, "closed")
  /\ wrote' = <<>>
  /\ UNCHANGED <<node, port, portclass, out, proper, frames, careful, packets, crashed>>
\* The read fails: the session and its listeners stay, and are read no more.
ReadError(c) ==
  /\ life[c] = "open"
  /\ Ends(c, "stuck")
  /\ wrote' = <<>>
  /\ UNCHANGED <<node, port, portclass, out, proper, frames, careful, listeners, packets,
                 crashed>>

-----------------------------------------------------------------------------
(* The packet layer: commands are sent one after the other, the bridge     *)
(* acknowledges or aborts each of them, and later packets of the node that *)
(* are not unsolicited answer the one acknowledged last.                   *)

\* tcp_reply for PACKET_DONE, PACKET_ABORT
packet_done ==
  /\ queue # <<>>
  /\ current' = Head(queue) /\ queue' = Tail(queue)
  /\ WriteTo(<<out[Head(queue)]>>, "status", Head(queue))
  /\ UNCHANGED <<node, sessions>>
packet_abort ==
  /\ queue # <<>>
  /\ current' = NULL /\ queue' = Tail(queue)
  /\ WriteTo(<<out[Head(queue)]>>, "status", Head(queue))
  /\ UNCHANGED <<node, sessions>>

\* tcp_reply for PACKET_PACKET
tcp_reply == WriteTo(<<out[current]>>, "reply", current)

node_replies ==
  /\ current # NULL
  /\ tcp_reply
  /\ UNCHANGED <<node, sessions, packets>>

\* (mutant) the loop ends at the first index with this class
FirstIndex(class) ==
  CHOOSE i \in Index :
    \/ classes[i] = class /\ \A j \in Index : classes[j] = class => i <= j
    \/ i = 0 /\ \A j \in Index : classes[j] # class
\* The last index with this class, or 0.
IndexOf(class) ==
  CHOOSE i \in Index :
    \/ classes[i] = class /\ \A j \in Index : classes[j] = class => j <= i
    \/ i = 0 /\ \A j \in Index : classes[j] # class

listen_newMessage(class) ==
  /\ WriteTo(listeners[IndexOf(class)], "unsolicited", NULL)
  /\ UNCHANGED <<node, sessions, packets>>

-----------------------------------------------------------------------------
tcp_listener_read(c) == Eof(c) \/ ReadError(c) \/ \E n \in 1..Len(unread[c]) : Read(c, n)

packet_inpacket ==
  packet_done \/ packet_abort \/ node_replies \/
  \E class \in PacketClasses : listen_newMessage(class)

Next ==
  /\ crashed = "no"
  /\ \/ \E c \in Conns :
          \/ \E p \in Port, m \in Streams : tcp_listener(c, p, m)
          \/ ShouldNotHappen(c)
          \/ \E f \in Frame : Send(c, f)
          \/ tcp_listener_read(c)
     \/ packet_inpacket
     \/ \E list \in ClassLists : busmgt_setClasses(list)
     \/ \E n \in 0..NCLASSES : net_createSockets(n)

Spec == Init /\ [][Next]_vars

-----------------------------------------------------------------------------
(* Properties *)

\* What a client means by a frame.
Meaning(f) ==
  CASE f.kind = "text" /\ Len(f.data) < MAX_BUF -> <<Do("command", f.data)>>
    [] f.kind = "binary" -> <<Do("command", f.data)>>
    [] f.kind = "listen" -> <<Do("listen", <<>>)>>
    [] f.kind = "line" /\ f.data # <<>> /\ Len(f.data) < MAX_BUF
         /\ (\A j \in DOMAIN f.data : f.data[j] >= Space) -> <<cmdparser_cmd(f.data)>>
    [] OTHER -> <<>>

\* However the network splits what a client sends, when a frame was read the
\* parser has done what it means, once, and is ready for the next frame: after
\* commands that are too long, line ends of two bytes and binary
\* commands that contain line ends or look like commands.
ParserInStep ==
  \A c \in Conns :
    life[c] = "open" /\ proper[c] /\ unread[c] = <<>> /\ frame[c] # NULL =>
      nb[c].state = 0 /\ did[c] = Meaning(frame[c])

\* A listener is a session that is connected, on a port of its class, however
\* often it registered: an unsolicited packet is never written to a stream
\* that was released.
ListenersAreLive ==
  \A i \in Index : \A m \in ToSet(listeners[i]) :
    \E c \in Owners(m) : ClassId(c) = i /\ port[c] # CONTROL

\* Clients that wait for the status of each command, send proper lengths and
\* commands that fit in a packet, leave the control port with "exit" and list
\* nodes only when there are any do not end the daemon by what they send or by
\* when they leave: no buffer is overrun, and no status and no unsolicited
\* packet is written to a stream that was released, whatever sessions come, go
\* or break.  Two causes are left that no client can avoid: a node sends
\* another packet after its client left ("reply"), and a client finds the
\* listening socket of a class the node has no longer ("service").
CarefulClientsAreSafe == careful => crashed \in {"no", "reply", "service"}

\* A session on the port of a class hears every packet of this class, whether
\* it sent an "L" or not and whatever the node announced in between, as long
\* as the node still has this class at the index of the port and at no later
\* one.
EveryListenerTold ==
  [][\A c \in Conns :
       /\ Live(c) /\ port[c] \in Index
       /\ classes[port[c]] = portclass[c]
       /\ \A j \in Index : classes[j] = portclass[c] => j <= port[c]
       /\ listen_newMessage(portclass[c]) /\ crashed' = "no"
       => \E j \in DOMAIN wrote' : wrote'[j].to = c /\ wrote'[j].what = "unsolicited"
    ]_vars

\* As long as every client waits for the status of each of its commands, a
\* status is written to the session that asked, although the packet layer knows
\* only the address of a stream: also when the read of that session failed, or
\* other sessions come and go meanwhile.
StatusesReachTheAsker ==
  careful => \A j \in DOMAIN wrote :
               wrote[j].what = "status" => wrote[j].to = wrote[j].asker

\* An answer is written to the session that asked or, when that one is closed,
\* to none: "these calls wil fail if the remote closed the connection before we
\* could answer" (tcp_reply, net_tcp.c:83-86).
AnswersReachTheAsker ==
  \A j \in DOMAIN wrote :
    wrote[j].what # "unsolicited" => wrote[j].to = wrote[j].asker
=============================================================================
