------------------------------- MODULE Ubnetd -------------------------------
(***************************************************************************)
(* The addresses of the nodes on the network interface.  ubd asks ubnetd,  *)
(* which may change them: interface.c and address6.c in the main loop of   *)
(* ubd, and ubnetd.c, with a thread for each connection.                   *)
(*                                                                         *)
(* Every "ip addr" is a step of its own; the threads take theirs in any    *)
(* order.  A node has one address, so it stands for its address.           *)
(***************************************************************************)
EXTENDS Naturals

CONSTANTS
  Nodes,
  BASE,        \* the base address, which is asked for like that of a node
  Conns,       \* bound: connections that exist at a time
  NULL,
  MaxRequests  \* bound: registrations and timeouts

\* A connection: "wait" is the receive after the reply, in which the thread
\* waits until ubd closes the connection.
Request == [node : Nodes \cup {BASE}, cmd : {"A", "D"},
            phase : {"backlog", "del", "add", "sleep", "reply", "wait"},
            reply : {"A", "N"}, open : BOOLEAN]
Blocked == [node : Nodes, conn : Conns, create : BOOLEAN]

ASSUME UbnetdAssumption ==
  /\ NULL \notin Conns \cup Request \cup Blocked /\ BASE \notin Nodes
  /\ MaxRequests \in Nat

VARIABLES
  addrs,    \* addresses of the interface
  conns,    \* connections to ubnetd and their threads, NULL when over
  ubnetd,   \* n->ubnetd
  main,     \* the request the main loop of ubd waits for, or NULL
  active,   \* registered nodes
  late,     \* history: nodes whose last removal overtook a command that adds it
  overslept, \* history: nodes with a thread that took longer than 3 s
  requests

vars == <<addrs, conns, ubnetd, main, active, late, overslept, requests>>

\* Types, and who uses which connection: a node its own request, until it is
\* answered and read.
TypeOK ==
  /\ addrs \subseteq Nodes \cup {BASE}
  /\ conns \in [Conns -> Request \cup {NULL}]
  /\ ubnetd \in [Nodes -> Conns \cup {NULL}]
  /\ main \in Blocked \cup {NULL}
  /\ active \in [Nodes -> BOOLEAN]
  /\ late \subseteq Nodes \cup {BASE} /\ overslept \subseteq Nodes
  /\ requests \in 0..MaxRequests
  /\ \A n \in Nodes : ubnetd[n] # NULL =>
       LET r == conns[ubnetd[n]] IN r # NULL /\ r.node = n /\ r.cmd = "A" /\ r.open
  /\ main # NULL =>
       LET r == conns[main.conn] IN
         r # NULL /\ r.node = main.node /\ r.cmd = "D" /\ r.open

Free(c) == conns[c] = NULL
\* The connection that is made next: which one it is called makes no difference.
Unused(c) == Free(c) /\ c = CHOOSE d \in Conns : Free(d)
New(n, cmd) == [node |-> n, cmd |-> cmd, phase |-> "backlog", reply |-> "N",
                open |-> TRUE]
Closed(r) == [r EXCEPT !.open = FALSE]

\* A thread that may still change the addresses.
Commanding(c) == ~Free(c) /\ conns[c].phase \in {"backlog", "del", "add"}
Adding(c, n) == Commanding(c) /\ conns[c].node = n /\ conns[c].cmd = "A"

-----------------------------------------------------------------------------
(* ubd *)

\* interface_removeAddress: the main loop waits for the reply.
RequestRemoval(n, create) ==
  /\ main = NULL
  /\ requests < MaxRequests /\ requests' = requests + 1
  /\ \E c \in Conns :
       /\ Unused(c)
       /\ conns' = [conns EXCEPT ![c] = New(n, "D")]
       /\ main' = [node |-> n, conn |-> c, create |-> create]
  /\ UNCHANGED <<addrs, ubnetd, active, late, overslept>>

\* mgt_registerNode, at any time; mgt_checkTimeout
address6_createAddress(n) == RequestRemoval(n, TRUE)
address6_removeAddress(n) == active[n] /\ RequestRemoval(n, FALSE)

Answered(c) == conns[c].phase = "wait"

\* (mutant) interface_removeAddress does not wait for its reply
NoWait(c) == TRUE
\* g_socket_receive returns
RemovalAnswered(c) == Answered(c)

\* The reply to a removal, of whatever kind; mgt_checkTimeout deactivates.
Removed ==
  /\ main # NULL /\ ~main.create /\ RemovalAnswered(main.conn)
  /\ conns' = [conns EXCEPT ![main.conn] = Closed(@)]
  /\ active' = [active EXCEPT ![main.node] = FALSE]
  /\ main' = NULL
  /\ UNCHANGED <<addrs, ubnetd, late, overslept, requests>>

\* (mutant) the first connection of a node is kept
KeepsFirst(n, c) == IF ubnetd[n] = NULL THEN c ELSE ubnetd[n]
\* interface_createAddress: the new connection replaces the old one.
Replaced(n, c) == c

\* The reply to the removal before a creation, whose reply is left for later.
Recreate ==
  /\ main # NULL /\ main.create /\ RemovalAnswered(main.conn)
  /\ \E c \in Conns :
       /\ Unused(c)
       /\ ubnetd' = [ubnetd EXCEPT ![main.node] = Replaced(main.node, c)]
       /\ conns' = [d \in Conns |->
            IF d = c THEN New(main.node, "A")
            ELSE IF d \in {main.conn, ubnetd[main.node]} /\ d # ubnetd'[main.node]
                   THEN Closed(conns[d]) ELSE conns[d]]
  /\ active' = [active EXCEPT ![main.node] = TRUE]
  /\ main' = NULL
  /\ UNCHANGED <<addrs, late, overslept, requests>>

\* (mutants) the socket is not closed; n->ubnetd is not set to NULL
NotClosed(n) == conns' = conns /\ ubnetd' = [ubnetd EXCEPT ![n] = NULL]
NotForgotten(n) ==
  conns' = [conns EXCEPT ![ubnetd[n]] = Closed(@)] /\ ubnetd' = ubnetd
\* The reply is read, the socket closed and forgotten.
Read(n) ==
  /\ conns' = [conns EXCEPT ![ubnetd[n]] = Closed(@)]
  /\ ubnetd' = [ubnetd EXCEPT ![n] = NULL]

\* Once a second, from mgt_tick.
interface_getConfiguredAddress(n) ==
  /\ main = NULL
  /\ ubnetd[n] # NULL /\ Answered(ubnetd[n])
  /\ Read(n)
  /\ UNCHANGED <<addrs, main, active, late, overslept, requests>>

-----------------------------------------------------------------------------
(* ubnetd *)

Step(c, r) ==
  /\ conns' = [conns EXCEPT ![c] = r]
  /\ UNCHANGED <<ubnetd, main, active, requests>>

At(c, phase) == ~Free(c) /\ conns[c].phase = phase

\* The accept loop starts the thread, which receives the request.
Accept(c) ==
  /\ At(c, "backlog")
  /\ Step(c, [conns[c] EXCEPT !.phase = "del"])
  /\ UNCHANGED <<addrs, late, overslept>>

\* "ip addr del": the only command of 'D', whose result is the reply.
IpAddrDel(c) ==
  /\ At(c, "del")
  /\ addrs' = addrs \ {conns[c].node} /\ UNCHANGED overslept
  /\ \/ /\ conns[c].cmd = "A"
        /\ Step(c, [conns[c] EXCEPT !.phase = "add"])
        /\ UNCHANGED late
     \/ /\ conns[c].cmd = "D"
        /\ late' = IF \E d \in Conns : Adding(d, conns[c].node)
                     THEN late \cup {conns[c].node} ELSE late \ {conns[c].node}
        /\ Step(c, [conns[c] EXCEPT !.phase = "reply",
                      !.reply = IF conns[c].node \in addrs THEN "A" ELSE "N"])

\* "ip addr add" fails when another thread has added the address.
IpAddrAdd(c) ==
  /\ At(c, "add")
  /\ addrs' = addrs \cup {conns[c].node}
  /\ UNCHANGED <<late, overslept>>
  /\ \/ conns[c].node \in addrs /\ Step(c, [conns[c] EXCEPT !.phase = "reply"])
     \/ /\ conns[c].node \notin addrs
        /\ Step(c, [conns[c] EXCEPT !.phase = "sleep", !.reply = "A"])

\* (mutant) no "N" is sent
OnlySuccess(c) == At(c, "sleep")
\* The reply, after the sleep of 3 s that follows a command that succeeded.
ReplyReady(c) == At(c, "reply") \/ At(c, "sleep")

\* A thread wakes up before one of an older request is done.
Overslept(c) ==
  /\ At(c, "sleep")
  /\ \E d \in Conns \ {c, ubnetd[conns[c].node]} : Adding(d, conns[c].node)

Reply(c) ==
  /\ ReplyReady(c)
  /\ Step(c, [conns[c] EXCEPT !.phase = "wait"])
  /\ overslept' = overslept \cup {n \in Nodes : n = conns[c].node /\ Overslept(c)}
  /\ UNCHANGED <<addrs, late>>

End(c) ==
  /\ At(c, "wait") /\ ~conns[c].open
  /\ Step(c, NULL)
  /\ UNCHANGED <<addrs, late, overslept>>

connection_handler(c) ==
  IpAddrDel(c) \/ IpAddrAdd(c) \/ Reply(c) \/ End(c)

-----------------------------------------------------------------------------
\* interface_createAddress for the base address, in net_init: its connection is
\* that of a local "struct node", which is neither read nor closed.
net_init ==
  LET b == CHOOSE c \in Conns : TRUE IN
  conns = [c \in Conns |-> IF c = b THEN New(BASE, "A") ELSE NULL]

Init ==
  /\ addrs \in SUBSET (Nodes \cup {BASE})
  /\ net_init
  /\ ubnetd = [n \in Nodes |-> NULL]
  /\ main = NULL
  /\ active = [n \in Nodes |-> FALSE]
  /\ late = addrs /\ overslept = {}
  /\ requests = 0

Next ==
  \/ \E n \in Nodes : \/ address6_createAddress(n)
                      \/ address6_removeAddress(n)
                      \/ interface_getConfiguredAddress(n)
  \/ Removed \/ Recreate
  \/ \E c \in Conns : Accept(c) \/ connection_handler(c)

Spec == Init /\ [][Next]_vars

\* Threads are scheduled, connections accepted, and mgt_tick runs.
Fairness ==
  /\ WF_vars(Removed) /\ WF_vars(Recreate)
  /\ \A n \in Nodes : WF_vars(interface_getConfiguredAddress(n))
  /\ \A c \in Conns : WF_vars(Accept(c)) /\ WF_vars(connection_handler(c))

FairSpec == Spec /\ Fairness

-----------------------------------------------------------------------------
(* Properties *)

\* However the threads of repeated registrations interleave, a registered node
\* has its address as soon as none of them is about to change it.
ActiveIsConfigured ==
  \A n \in Nodes :
    (main = NULL /\ active[n] /\ ~\E c \in Conns : Adding(c, n)) => n \in addrs

\* When ubd is told that the address of a node is there, and is about to bind
\* sockets to it, it is there, while the sleep outlasts threads of older requests.
GrantedIsConfigured ==
  \A n \in Nodes \ overslept :
    (/\ main = NULL /\ active[n] /\ ubnetd[n] # NULL
     /\ Answered(ubnetd[n]) /\ conns[ubnetd[n]].reply = "A")
      => n \in addrs

\* An address outlives its node only if the removal overtook a thread that was
\* still to add it, or a former ubd left it.
LingersOnlyIfLate ==
  \A n \in Nodes : main = NULL /\ ~active[n] /\ n \in addrs => n \in late

\* The main loop, which waits for ubnetd without a timeout, always goes on.
MainLoopResumes == main # NULL ~> main = NULL

\* ubd loses no connection: those it has open are the last of each node, the one
\* it waits for, and that of the base address, which nobody will ever close.
OnlyBaseLeftOpen ==
  \A c \in Conns :
    conns[c] # NULL /\ conns[c].open =>
      \/ conns[c].node = BASE
      \/ main # NULL /\ main.conn = c
      \/ \E n \in Nodes : ubnetd[n] = c

\* No thread of ubnetd that serves a node stays for ever: each is answered and
\* its end closed.  (That of the base address stays as long as ubd runs.)
ThreadsEnd ==
  \A c \in Conns : conns[c] # NULL /\ conns[c].node # BASE ~> conns[c] = NULL
=============================================================================
