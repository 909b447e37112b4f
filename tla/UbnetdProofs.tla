---------------------------- MODULE UbnetdProofs ----------------------------
(***************************************************************************)
(* Proofs about the address daemon, for any number of nodes, connections   *)
(* and requests, and threads of any speed.                                 *)
(***************************************************************************)
EXTENDS Ubnetd, TLAPS

\* The only thread that still removes an address without adding it again is
\* the one the main loop waits for.
OneRemoval ==
  \A c \in Conns :
    /\ Commanding(c) /\ conns[c].cmd = "D" => main # NULL /\ main.conn = c
    /\ At(c, "add") \/ At(c, "sleep") => conns[c].cmd = "A"

\* Nobody is at work on the node in the main loop.
Idle(n) == main # NULL => main.node # n

\* The node has its address, or a thread will add it.
Has(n) == n \in addrs \/ \E c \in Conns : Adding(c, n)

\* A registered node has its address, or gets it.
Covered == \A n \in Nodes : active[n] /\ Idle(n) => Has(n)

\* The address of the node was removed, and no creation follows.
Deleted(n) ==
  /\ main # NULL /\ main.node = n /\ ~main.create
  /\ conns[main.conn].phase \in {"reply", "wait"}

\* A node that is gone comes back only through a thread that is late.
Uncovered == \A n \in Nodes : ~active[n] \/ Deleted(n) => (Has(n) => n \in late)

UInv == TypeOK /\ OneRemoval /\ Covered /\ Uncovered

-----------------------------------------------------------------------------
\* What a thread does to its own connection keeps its request and its end.
LEMMA OwnStep ==
  ASSUME TypeOK, NEW c \in Conns, conns[c] # NULL, NEW r \in Request,
         r.node = conns[c].node, r.cmd = conns[c].cmd, r.open = conns[c].open,
         Step(c, r), addrs' \subseteq Nodes \cup {BASE}, late' \subseteq Nodes \cup {BASE},
         overslept' \subseteq Nodes
  PROVE  TypeOK'
<1>1. /\ conns' \in [Conns -> Request \cup {NULL}]
      /\ conns'[c] = r /\ r # NULL
      /\ \A d \in Conns \ {c} : conns'[d] = conns[d]
  BY UbnetdAssumption DEF Step, TypeOK
<1>2. ubnetd' = ubnetd /\ main' = main /\ active' = active /\ requests' = requests
  BY DEF Step
<1>3. ASSUME NEW n \in Nodes, ubnetd[n] # NULL
      PROVE  LET q == conns'[ubnetd[n]] IN
               q # NULL /\ q.node = n /\ q.cmd = "A" /\ q.open
  BY <1>1, <1>3 DEF TypeOK
<1>4. ASSUME main # NULL
      PROVE  LET q == conns'[main.conn] IN
               q # NULL /\ q.node = main.node /\ q.cmd = "D" /\ q.open
  BY <1>1, <1>4 DEF TypeOK, Blocked
<1> QED BY <1>1, <1>2, <1>3, <1>4 DEF TypeOK

\* Only nodes oversleep.
LEMMA OversleptType == TypeOK /\ [Next]_vars => overslept' \subseteq Nodes
<1> SUFFICES ASSUME TypeOK, [Next]_vars PROVE overslept' \subseteq Nodes
  OBVIOUS
<1>1. CASE UNCHANGED overslept
  BY <1>1 DEF TypeOK
<1>2. ASSUME NEW c \in Conns, Reply(c) PROVE overslept' \subseteq Nodes
  BY <1>2 DEF Reply, TypeOK
<1> QED BY <1>1, <1>2 DEF Next, vars, address6_createAddress, address6_removeAddress,
  RequestRemoval, interface_getConfiguredAddress, Removed, Recreate, Accept,
  connection_handler, IpAddrDel, IpAddrAdd, End

\* Every action keeps the types and the ownership of the connections.
LEMMA TypeStep == TypeOK /\ [Next]_vars => TypeOK'
<1> SUFFICES ASSUME TypeOK, [Next]_vars PROVE TypeOK'
  OBVIOUS
<1> USE UbnetdAssumption
<1>0. overslept' \subseteq Nodes
  BY OversleptType
<1>1. CASE UNCHANGED vars
  BY <1>1 DEF vars, TypeOK
<1>2. ASSUME NEW n \in Nodes, NEW create \in BOOLEAN, RequestRemoval(n, create)
      PROVE  TypeOK'
  <2>1. PICK c \in Conns :
          /\ Free(c)
          /\ conns' = [conns EXCEPT ![c] = New(n, "D")]
          /\ main' = [node |-> n, conn |-> c, create |-> create]
    BY <1>2 DEF RequestRemoval, Unused
  <2>2. New(n, "D") \in Request
    BY DEF New, Request
  <2>3. conns'[c] = New(n, "D") /\ \A d \in Conns \ {c} : conns'[d] = conns[d]
    BY <2>1 DEF TypeOK
  <2>4. main' \in Blocked /\ conns' \in [Conns -> Request \cup {NULL}]
    BY <2>1, <2>2 DEF TypeOK, Blocked
  <2>5. \A m \in Nodes : ubnetd[m] # NULL => ubnetd[m] # c
    BY <2>1 DEF TypeOK, Free
  <2>6. requests' \in 0..MaxRequests
    BY <1>2 DEF RequestRemoval, TypeOK
  <2>7. UNCHANGED <<addrs, ubnetd, active, late>>
    BY <1>2 DEF RequestRemoval
  <2>8. /\ New(n, "D") # NULL /\ New(n, "D").node = n
        /\ New(n, "D").cmd = "D" /\ New(n, "D").open
    BY <2>2 DEF New
  <2>9. \A m \in Nodes : ubnetd[m] # NULL => conns'[ubnetd[m]] = conns[ubnetd[m]]
    BY <2>3, <2>5 DEF TypeOK
  <2> QED BY <1>0, <2>1, <2>3, <2>4, <2>6, <2>7, <2>8, <2>9 DEF TypeOK
<1>3. CASE Removed
  <2>1. /\ main # NULL /\ main \in Blocked /\ main' = NULL
        /\ conns' = [conns EXCEPT ![main.conn] = Closed(@)]
        /\ active' = [active EXCEPT ![main.node] = FALSE]
        /\ UNCHANGED <<addrs, ubnetd, late, requests>>
    BY <1>3 DEF Removed, TypeOK
  <2>2. conns[main.conn] \in Request /\ conns[main.conn].cmd = "D"
    BY <2>1 DEF TypeOK, Blocked
  <2>3. Closed(conns[main.conn]) \in Request
    BY <2>2 DEF Closed, Request
  <2>4. conns' \in [Conns -> Request \cup {NULL}] /\ active' \in [Nodes -> BOOLEAN]
    BY <2>1, <2>3 DEF TypeOK
  <2>5. \A n \in Nodes : ubnetd[n] # NULL => ubnetd[n] # main.conn
    BY <2>2 DEF TypeOK
  <2>6. \A d \in Conns \ {main.conn} : conns'[d] = conns[d]
    BY <2>1 DEF TypeOK
  <2> QED BY <1>0, <2>1, <2>4, <2>5, <2>6 DEF TypeOK
<1>4. CASE Recreate
  <2>1. /\ main # NULL /\ main \in Blocked /\ main' = NULL
        /\ active' = [active EXCEPT ![main.node] = TRUE]
        /\ UNCHANGED <<addrs, late, requests>>
    BY <1>4 DEF Recreate, TypeOK
  <2> DEFINE n == main.node
  <2>2. PICK c \in Conns :
          /\ Free(c)
          /\ ubnetd' = [ubnetd EXCEPT ![n] = c]
          /\ conns' = [d \in Conns |->
               IF d = c THEN New(n, "A")
               ELSE IF d \in {main.conn, ubnetd[n]} /\ d # ubnetd'[n]
                      THEN Closed(conns[d]) ELSE conns[d]]
    BY <1>4, Zenon DEF Recreate, Replaced, Unused
  <2>3. n \in Nodes /\ main.conn \in Conns
    BY <2>1 DEF Blocked
  <2>4. New(n, "A") \in Request /\ \A r \in Request : Closed(r) \in Request
    BY <2>3 DEF New, Closed, Request
  <2>5. conns[main.conn] # NULL /\ (ubnetd[n] # NULL => conns[ubnetd[n]] # NULL)
    BY <2>1, <2>3 DEF TypeOK
  <2>6. conns' \in [Conns -> Request \cup {NULL}]
    BY <2>2, <2>4, <2>5 DEF TypeOK
  <2>7. ubnetd' \in [Nodes -> Conns \cup {NULL}] /\ active' \in [Nodes -> BOOLEAN]
    BY <2>1, <2>2 DEF TypeOK
  <2>8. ASSUME NEW m \in Nodes, ubnetd'[m] # NULL
        PROVE  LET q == conns'[ubnetd'[m]] IN
                 q # NULL /\ q.node = m /\ q.cmd = "A" /\ q.open
    <3>1. CASE m = n
      <4>1. ubnetd'[m] = c /\ conns'[c] = New(n, "A")
        BY <2>2, <2>3, <3>1 DEF TypeOK
      <4>2. /\ New(n, "A") # NULL /\ New(n, "A").node = m
            /\ New(n, "A").cmd = "A" /\ New(n, "A").open
        BY <2>4, <3>1 DEF New
      <4> QED BY <4>1, <4>2
    <3>2. CASE m # n
      <4>1. ubnetd'[m] = ubnetd[m] /\ ubnetd[m] \in Conns
        BY <2>2, <2>8, <3>2 DEF TypeOK
      <4>2. /\ conns[ubnetd[m]] # NULL /\ conns[ubnetd[m]].node = m
            /\ conns[ubnetd[m]].cmd = "A" /\ conns[ubnetd[m]].open
        BY <2>8, <4>1 DEF TypeOK
      <4>3. ubnetd[m] # c /\ ubnetd[m] # main.conn /\ ubnetd[m] # ubnetd[n]
        BY <2>1, <2>2, <2>3, <3>2, <4>1, <4>2 DEF TypeOK, Free
      <4>4. conns'[ubnetd[m]] = conns[ubnetd[m]]
        BY <2>2, <4>1, <4>3
      <4> QED BY <4>1, <4>2, <4>4
    <3> QED BY <3>1, <3>2
  <2> HIDE DEF n
  <2> QED BY <1>0, <2>1, <2>6, <2>7, <2>8 DEF TypeOK
<1>5. ASSUME NEW n \in Nodes, interface_getConfiguredAddress(n) PROVE TypeOK'
  <2>1. /\ main = NULL /\ ubnetd[n] # NULL
        /\ conns' = [conns EXCEPT ![ubnetd[n]] = Closed(@)]
        /\ ubnetd' = [ubnetd EXCEPT ![n] = NULL]
        /\ UNCHANGED <<addrs, main, active, late, requests>>
    BY <1>5 DEF interface_getConfiguredAddress, Read
  <2>2. ubnetd[n] \in Conns /\ conns[ubnetd[n]] \in Request
    BY <2>1 DEF TypeOK
  <2>3. conns' \in [Conns -> Request \cup {NULL}]
    BY <2>1, <2>2 DEF TypeOK, Closed, Request
  <2>4. \A m \in Nodes : ubnetd[m] # NULL /\ m # n => ubnetd[m] # ubnetd[n]
    BY <2>1 DEF TypeOK
  <2> QED BY <1>0, <2>1, <2>3, <2>4 DEF TypeOK
<1>6. ASSUME NEW c \in Conns, Accept(c) \/ Reply(c) PROVE TypeOK'
  <2>1. PICK phase \in {"del", "wait"} :
          conns[c] # NULL /\ Step(c, [conns[c] EXCEPT !.phase = phase])
    BY <1>6 DEF Accept, Reply, At, Free, ReplyReady
  <2>2. [conns[c] EXCEPT !.phase = phase] \in Request
    BY <2>1 DEF TypeOK, Request
  <2>3. UNCHANGED <<addrs, late>>
    BY <1>6 DEF Accept, Reply
  <2>4. conns[c] \in Request
    BY <2>1 DEF TypeOK
  <2> DEFINE r == [conns[c] EXCEPT !.phase = phase]
  <2>5. r.node = conns[c].node /\ r.cmd = conns[c].cmd /\ r.open = conns[c].open
    BY <2>4 DEF Request
  <2>6. addrs' \subseteq Nodes \cup {BASE} /\ late' \subseteq Nodes \cup {BASE}
    BY <2>3 DEF TypeOK
  <2>7. r \in Request /\ Step(c, r)
    BY <2>1, <2>2
  <2> HIDE DEF r
  <2> QED BY <1>0, <2>1, <2>5, <2>6, <2>7, OwnStep
<1>7. ASSUME NEW c \in Conns, IpAddrDel(c) \/ IpAddrAdd(c) PROVE TypeOK'
  <2>1. conns[c] # NULL /\ conns[c] \in Request
    BY <1>7 DEF IpAddrDel, IpAddrAdd, At, Free, TypeOK
  <2>2. PICK phase \in {"add", "sleep", "reply"}, reply \in {"A", "N"} :
          Step(c, [conns[c] EXCEPT !.phase = phase, !.reply = reply])
    <3>1. CASE IpAddrDel(c) /\ conns[c].cmd = "A"
      <4>1. Step(c, [conns[c] EXCEPT !.phase = "add"])
        BY <3>1 DEF IpAddrDel
      <4>2. [conns[c] EXCEPT !.phase = "add"]
              = [conns[c] EXCEPT !.phase = "add", !.reply = conns[c].reply]
        BY <2>1 DEF Request
      <4> QED BY <2>1, <4>1, <4>2 DEF Request
    <3>2. CASE IpAddrDel(c) /\ conns[c].cmd = "D"
      BY <3>2 DEF IpAddrDel
    <3>3. CASE IpAddrAdd(c) /\ conns[c].node \in addrs
      <4>1. Step(c, [conns[c] EXCEPT !.phase = "reply"])
        BY <3>3 DEF IpAddrAdd
      <4>2. [conns[c] EXCEPT !.phase = "reply"]
              = [conns[c] EXCEPT !.phase = "reply", !.reply = conns[c].reply]
        BY <2>1 DEF Request
      <4> QED BY <2>1, <4>1, <4>2 DEF Request
    <3>4. CASE IpAddrAdd(c) /\ conns[c].node \notin addrs
      BY <3>4 DEF IpAddrAdd
    <3> QED BY <1>7, <2>1, <3>1, <3>2, <3>3, <3>4 DEF Request
  <2> DEFINE r == [conns[c] EXCEPT !.phase = phase, !.reply = reply]
  <2>3. /\ r \in Request /\ Step(c, r)
        /\ r.node = conns[c].node /\ r.cmd = conns[c].cmd /\ r.open = conns[c].open
    BY <2>1, <2>2 DEF Request
  <2>4. addrs' \subseteq Nodes \cup {BASE}
    BY <1>7, <2>1 DEF IpAddrDel, IpAddrAdd, Request, TypeOK
  <2>5. late' \subseteq Nodes \cup {BASE}
    BY <1>7, <2>1, <2>4 DEF IpAddrDel, IpAddrAdd, Request, TypeOK
  <2> HIDE DEF r
  <2> QED BY <1>0, <2>1, <2>3, <2>4, <2>5, OwnStep
<1>8. ASSUME NEW c \in Conns, End(c) PROVE TypeOK'
  <2>1. /\ conns' = [conns EXCEPT ![c] = NULL] /\ ~conns[c].open
        /\ UNCHANGED <<addrs, ubnetd, main, active, late, requests>>
    BY <1>8 DEF End, Step
  <2>2. /\ \A n \in Nodes : ubnetd[n] # NULL => ubnetd[n] # c
        /\ main # NULL => main.conn # c
    BY <2>1 DEF TypeOK
  <2> QED BY <1>0, <2>1, <2>2 DEF TypeOK, Blocked
<1> QED BY <1>1, <1>2, <1>3, <1>4, <1>5, <1>6, <1>7, <1>8
  DEF Next, address6_createAddress, address6_removeAddress, connection_handler

-----------------------------------------------------------------------------
\* What leaves the main loop, and who has an address, as they are.
LEMMA HasKeeps ==
  ASSUME Covered, Uncovered, UNCHANGED <<main, active, late>>,
         \A n \in Nodes : Has(n)' <=> Has(n),
         \A n \in Nodes : Deleted(n)' => Deleted(n)
  PROVE  Covered' /\ Uncovered'
<1>1. Covered'
  BY Zenon DEF Covered, Idle
<1>2. Uncovered'
  BY Zenon DEF Uncovered
<1> QED BY <1>1, <1>2

\* A thread's step that goes on, in its own connection.
LEMMA OwnConns ==
  ASSUME TypeOK, NEW c \in Conns, conns[c] # NULL, NEW r \in Request, Step(c, r)
  PROVE  conns'[c] = r /\ r # NULL /\ \A d \in Conns \ {c} : conns'[d] = conns[d]
BY UbnetdAssumption DEF Step, TypeOK

\* No step of the main loop or of a thread breaks the invariant.
LEMMA ThreadStep ==
  ASSUME UInv, NEW c \in Conns, Accept(c) \/ connection_handler(c)
  PROVE  OneRemoval' /\ Covered' /\ Uncovered'
<1> USE UbnetdAssumption
<1>1. TypeOK /\ OneRemoval /\ Covered /\ Uncovered
  BY DEF UInv
<1>2. conns[c] # NULL /\ conns[c] \in Request
  BY <1>1 DEF connection_handler, Accept, IpAddrDel, IpAddrAdd, Reply, ReplyReady,
              End, At, Free, TypeOK
<1>3. UNCHANGED <<main, active>>
  BY DEF connection_handler, Accept, IpAddrDel, IpAddrAdd, Reply, End, Step
<1>4. main # NULL => main.conn \in Conns /\ conns[main.conn].cmd = "D"
                     /\ conns[main.conn].node = main.node
  BY <1>1 DEF TypeOK, Blocked
<1>5. CASE Accept(c)
  <2>1. /\ conns[c].phase = "backlog" /\ UNCHANGED <<addrs, late>>
        /\ conns'[c] # NULL /\ conns'[c].phase = "del"
        /\ conns'[c].node = conns[c].node /\ conns'[c].cmd = conns[c].cmd
        /\ \A d \in Conns \ {c} : conns'[d] = conns[d]
    <3>1. conns[c].phase = "backlog" /\ Step(c, [conns[c] EXCEPT !.phase = "del"])
          /\ UNCHANGED <<addrs, late>>
      BY <1>5 DEF Accept, At
    <3>2. [conns[c] EXCEPT !.phase = "del"] \in Request
      BY <1>2 DEF Request
    <3> QED BY <1>1, <1>2, <3>1, <3>2, OwnConns DEF Request
  <2>2. \A n \in Nodes : Has(n)' <=> Has(n)
    BY <1>2, <2>1 DEF Has, Adding, Commanding, Free
  <2>3. \A n \in Nodes : Deleted(n)' => Deleted(n)
    BY <1>3, <1>4, <2>1 DEF Deleted
  <2>4. OneRemoval'
    BY <1>1, <1>2, <1>3, <2>1 DEF OneRemoval, Commanding, At, Free
  <2> QED BY <1>1, <1>3, <2>1, <2>2, <2>3, <2>4, HasKeeps
<1>6. CASE IpAddrDel(c) /\ conns[c].cmd = "A"
  <2>1. /\ conns[c].phase = "del" /\ UNCHANGED late
        /\ addrs' = addrs \ {conns[c].node}
        /\ conns'[c] # NULL /\ conns'[c].phase = "add"
        /\ conns'[c].node = conns[c].node /\ conns'[c].cmd = conns[c].cmd
        /\ \A d \in Conns \ {c} : conns'[d] = conns[d]
    <3>1. /\ conns[c].phase = "del" /\ Step(c, [conns[c] EXCEPT !.phase = "add"])
          /\ addrs' = addrs \ {conns[c].node} /\ UNCHANGED late
      BY <1>6 DEF IpAddrDel, At
    <3>2. [conns[c] EXCEPT !.phase = "add"] \in Request
      BY <1>2 DEF Request
    <3> QED BY <1>1, <1>2, <3>1, <3>2, OwnConns DEF Request
  <2>2. Adding(c, conns[c].node) /\ Adding(c, conns[c].node)'
    BY <1>2, <1>6, <2>1 DEF Adding, Commanding, Free
  <2>3. \A d \in Conns, n \in Nodes : Adding(d, n)' <=> Adding(d, n)
    BY <1>2, <2>1 DEF Adding, Commanding, Free
  <2>4. \A n \in Nodes : Has(n)' <=> Has(n)
    BY <2>1, <2>2, <2>3 DEF Has
  <2>5. \A n \in Nodes : Deleted(n)' => Deleted(n)
    BY <1>3, <1>4, <1>6, <2>1 DEF Deleted
  <2>6. OneRemoval'
    BY <1>1, <1>2, <1>3, <1>6, <2>1 DEF OneRemoval, Commanding, At, Free
  <2> QED BY <1>1, <1>3, <2>1, <2>4, <2>5, <2>6, HasKeeps
<1>7. CASE IpAddrDel(c) /\ conns[c].cmd = "D"
  <2> DEFINE n == conns[c].node
  <2>1. /\ conns[c].phase = "del" /\ addrs' = addrs \ {n}
        /\ conns'[c] # NULL /\ conns'[c].phase = "reply"
        /\ conns'[c].node = n /\ conns'[c].cmd = conns[c].cmd
        /\ \A d \in Conns \ {c} : conns'[d] = conns[d]
    <3> DEFINE r == [conns[c] EXCEPT !.phase = "reply",
                       !.reply = IF conns[c].node \in addrs THEN "A" ELSE "N"]
    <3>1. conns[c].phase = "del" /\ addrs' = addrs \ {n} /\ Step(c, r)
      BY <1>7 DEF IpAddrDel, At
    <3>2. r \in Request /\ r.phase = "reply" /\ r.node = n /\ r.cmd = conns[c].cmd
      BY <1>2 DEF Request
    <3> HIDE DEF r
    <3> QED BY <1>1, <1>2, <3>1, <3>2, OwnConns
  <2>2. late' = IF \E d \in Conns : Adding(d, n) THEN late \cup {n} ELSE late \ {n}
    BY <1>7 DEF IpAddrDel
  <2>3. main # NULL /\ main.conn = c /\ main.node = n /\ n \in Nodes
    <3>1. main # NULL /\ main.conn = c
      BY <1>1, <1>2, <1>7, <2>1 DEF OneRemoval, Commanding, Free
    <3>2. main.node \in Nodes
      BY <1>1, <3>1 DEF TypeOK, Blocked
    <3> QED BY <1>4, <3>1, <3>2
  <2>4. \A d \in Conns, m \in Nodes : Adding(d, m)' <=> Adding(d, m)
    BY <1>2, <1>7, <2>1 DEF Adding, Commanding, Free
  <2>5. \A m \in Nodes \ {n} : Has(m)' <=> Has(m)
    BY <2>1, <2>4 DEF Has
  <2>6. \A m \in Nodes : m = n /\ Has(m)' => \E d \in Conns : Adding(d, n)
    BY <2>1, <2>3, <2>4 DEF Has
  <2>7. (\E d \in Conns : Adding(d, n)) => n \in late'
    BY <2>2
  <2>8. \A m \in Nodes \ {n} : m \in late' <=> m \in late
    BY <2>2
  <2>9. Covered'
    BY <1>1, <1>3, <2>3, <2>5 DEF Covered, Idle
  <2>10. \A m \in Nodes \ {n} : ~Deleted(m)'
    BY <1>3, <2>3 DEF Deleted
  <2>11. Uncovered'
    <3> SUFFICES ASSUME NEW m \in Nodes, ~active'[m] \/ Deleted(m)', Has(m)'
                 PROVE  m \in late'
      BY DEF Uncovered
    <3>1. CASE m = n
      BY <2>6, <2>7, <3>1
    <3>2. CASE m # n
      BY <1>1, <1>3, <2>5, <2>8, <2>10, <3>2 DEF Uncovered
    <3> QED BY <3>1, <3>2
  <2>12. OneRemoval'
    BY <1>1, <1>2, <1>3, <1>7, <2>1 DEF OneRemoval, Commanding, At, Free
  <2> QED BY <2>9, <2>11, <2>12
<1>8. CASE IpAddrAdd(c)
  <2>1. /\ conns[c].phase = "add" /\ UNCHANGED late
        /\ addrs' = addrs \cup {conns[c].node}
        /\ conns'[c] # NULL /\ conns'[c].phase \in {"sleep", "reply"}
        /\ conns'[c].node = conns[c].node /\ conns'[c].cmd = conns[c].cmd
        /\ \A d \in Conns \ {c} : conns'[d] = conns[d]
    <3>1. /\ conns[c].phase = "add" /\ UNCHANGED late
          /\ addrs' = addrs \cup {conns[c].node}
      BY <1>8 DEF IpAddrAdd, At
    <3>2. CASE conns[c].node \in addrs
      <4>1. Step(c, [conns[c] EXCEPT !.phase = "reply"])
        BY <1>8, <3>2 DEF IpAddrAdd
      <4>2. [conns[c] EXCEPT !.phase = "reply"] \in Request
        BY <1>2 DEF Request
      <4> QED BY <1>1, <1>2, <3>1, <4>1, <4>2, OwnConns DEF Request
    <3>3. CASE conns[c].node \notin addrs
      <4>1. Step(c, [conns[c] EXCEPT !.phase = "sleep", !.reply = "A"])
        BY <1>8, <3>3 DEF IpAddrAdd
      <4>2. [conns[c] EXCEPT !.phase = "sleep", !.reply = "A"] \in Request
        BY <1>2 DEF Request
      <4>3. /\ conns'[c] = [conns[c] EXCEPT !.phase = "sleep", !.reply = "A"]
            /\ conns'[c] # NULL /\ \A d \in Conns \ {c} : conns'[d] = conns[d]
        BY <1>1, <1>2, <4>1, <4>2, OwnConns
      <4> QED BY <1>2, <3>1, <4>3 DEF Request
    <3> QED BY <3>2, <3>3
  <2>2. conns[c].cmd = "A"
    BY <1>1, <1>2, <2>1 DEF OneRemoval, At, Free
  <2>3. Adding(c, conns[c].node) /\ conns[c].node \in addrs'
    BY <1>2, <2>1, <2>2 DEF Adding, Commanding, Free
  <2>4. \A n \in Nodes : ~Adding(c, n)' /\ (Adding(c, n) => n = conns[c].node)
    BY <2>1 DEF Adding, Commanding, Free
  <2>5. \A d \in Conns \ {c}, n \in Nodes : Adding(d, n)' <=> Adding(d, n)
    BY <2>1 DEF Adding, Commanding, Free
  <2>6. \A n \in Nodes : Has(n)' <=> Has(n)
    BY <2>1, <2>3, <2>4, <2>5 DEF Has
  <2>7. \A n \in Nodes : Deleted(n)' => Deleted(n)
    BY <1>3, <1>4, <2>1, <2>2 DEF Deleted
  <2>8. OneRemoval'
    BY <1>1, <1>2, <1>3, <2>1, <2>2 DEF OneRemoval, Commanding, At, Free
  <2> QED BY <1>1, <1>3, <2>1, <2>6, <2>7, <2>8, HasKeeps
<1>9. CASE Reply(c)
  <2>1. /\ conns[c].phase \in {"reply", "sleep"} /\ UNCHANGED <<addrs, late>>
        /\ conns'[c] # NULL /\ conns'[c].phase = "wait"
        /\ conns'[c].node = conns[c].node /\ conns'[c].cmd = conns[c].cmd
        /\ \A d \in Conns \ {c} : conns'[d] = conns[d]
    <3>1. /\ conns[c].phase \in {"reply", "sleep"} /\ UNCHANGED <<addrs, late>>
          /\ Step(c, [conns[c] EXCEPT !.phase = "wait"])
      BY <1>9 DEF Reply, ReplyReady, At
    <3>2. [conns[c] EXCEPT !.phase = "wait"] \in Request
      BY <1>2 DEF Request
    <3> QED BY <1>1, <1>2, <3>1, <3>2, OwnConns DEF Request
  <2>2. \A n \in Nodes : Has(n)' <=> Has(n)
    BY <1>2, <2>1 DEF Has, Adding, Commanding, Free
  <2>3. conns[c].cmd = "D" => conns[c].phase = "reply"
    BY <1>1, <1>2, <2>1 DEF OneRemoval, At, Free
  <2>4. \A n \in Nodes : Deleted(n)' => Deleted(n)
    BY <1>3, <1>4, <2>1, <2>3 DEF Deleted
  <2>5. OneRemoval'
    BY <1>1, <1>2, <1>3, <2>1 DEF OneRemoval, Commanding, At, Free
  <2> QED BY <1>1, <1>3, <2>1, <2>2, <2>4, <2>5, HasKeeps
<1>10. CASE End(c)
  <2>1. /\ conns[c].phase = "wait" /\ ~conns[c].open /\ UNCHANGED <<addrs, late>>
        /\ conns'[c] = NULL /\ \A d \in Conns \ {c} : conns'[d] = conns[d]
    BY <1>1, <1>10 DEF End, At, Step, TypeOK
  <2>2. \A n \in Nodes : Has(n)' <=> Has(n)
    BY <1>2, <2>1 DEF Has, Adding, Commanding, Free
  <2>3. main # NULL => main.conn # c
    BY <1>1, <2>1 DEF TypeOK
  <2>4. \A n \in Nodes : Deleted(n)' => Deleted(n)
    BY <1>3, <1>4, <2>1, <2>3 DEF Deleted
  <2>5. OneRemoval'
    BY <1>1, <1>2, <1>3, <2>1 DEF OneRemoval, Commanding, At, Free
  <2> QED BY <1>1, <1>3, <2>1, <2>2, <2>4, <2>5, HasKeeps
<1> QED BY <1>2, <1>5, <1>6, <1>7, <1>8, <1>9, <1>10
  DEF connection_handler, IpAddrDel, Request

\* The main loop's steps: a removal is awaited before anything else is asked.
LEMMA MainStep ==
  ASSUME UInv,
         \/ \E n \in Nodes : \/ \E create \in BOOLEAN : RequestRemoval(n, create)
                             \/ interface_getConfiguredAddress(n)
         \/ Removed \/ Recreate
  PROVE  OneRemoval' /\ Covered' /\ Uncovered'
<1> USE UbnetdAssumption
<1>1. TypeOK /\ OneRemoval /\ Covered /\ Uncovered
  BY DEF UInv
<1>2. ASSUME NEW n \in Nodes, NEW create \in BOOLEAN, RequestRemoval(n, create)
      PROVE  OneRemoval' /\ Covered' /\ Uncovered'
  <2>1. PICK c \in Conns :
          /\ conns[c] = NULL
          /\ conns' = [conns EXCEPT ![c] = New(n, "D")]
          /\ main' = [node |-> n, conn |-> c, create |-> create]
    BY <1>2 DEF RequestRemoval, Unused, Free
  <2>2. main = NULL /\ UNCHANGED <<addrs, active, late>>
    BY <1>2 DEF RequestRemoval
  <2>3. New(n, "D") \in Request
    BY DEF New, Request
  <2>4. /\ main' # NULL /\ main'.node = n /\ main'.conn = c
        /\ conns'[c] # NULL /\ conns'[c].cmd = "D" /\ conns'[c].phase = "backlog"
        /\ \A d \in Conns \ {c} : conns'[d] = conns[d]
    <3>1. main' \in Blocked /\ main'.node = n /\ main'.conn = c
      BY <2>1 DEF Blocked
    <3>2. conns'[c] = New(n, "D") /\ \A d \in Conns \ {c} : conns'[d] = conns[d]
      BY <1>1, <2>1 DEF TypeOK
    <3>3. New(n, "D").cmd = "D" /\ New(n, "D").phase = "backlog"
      BY DEF New
    <3> QED BY <2>3, <3>1, <3>2, <3>3
  <2>5. \A m \in Nodes : Has(m)' <=> Has(m)
    BY <2>1, <2>2, <2>4 DEF Has, Adding, Commanding, Free
  <2>6. \A m \in Nodes : ~Deleted(m)'
    BY <2>4 DEF Deleted
  <2>7. \A m \in Nodes : Idle(m)
    BY <2>2 DEF Idle
  <2>8. Covered'
    BY <1>1, <2>2, <2>5, <2>7, Zenon DEF Covered
  <2>9. Uncovered'
    BY <1>1, <2>2, <2>5, <2>6, Zenon DEF Uncovered
  <2>10. OneRemoval'
    BY <1>1, <2>2, <2>4 DEF OneRemoval, Commanding, At, Free
  <2> QED BY <2>8, <2>9, <2>10
<1>3. ASSUME NEW n \in Nodes, interface_getConfiguredAddress(n)
      PROVE  OneRemoval' /\ Covered' /\ Uncovered'
  <2> DEFINE c == ubnetd[n]
  <2>1. /\ main = NULL /\ c # NULL /\ conns[c].phase = "wait"
        /\ conns' = [conns EXCEPT ![c] = Closed(@)]
        /\ UNCHANGED <<addrs, main, active, late>>
    BY <1>3 DEF interface_getConfiguredAddress, Read, Answered
  <2>2. c \in Conns /\ conns[c] \in Request
    BY <1>1, <2>1 DEF TypeOK
  <2>3. Closed(conns[c]) \in Request /\ Closed(conns[c]).phase = "wait"
    BY <2>1, <2>2 DEF Closed, Request
  <2>4. /\ conns'[c] # NULL /\ conns'[c].phase = "wait"
        /\ \A d \in Conns \ {c} : conns'[d] = conns[d]
    BY <1>1, <2>1, <2>2, <2>3 DEF TypeOK
  <2> HIDE DEF c
  <2>5. \A m \in Nodes : Has(m)' <=> Has(m)
    BY <2>1, <2>2, <2>4 DEF Has, Adding, Commanding, Free
  <2>6. \A m \in Nodes : Deleted(m)' => Deleted(m)
    BY <2>1 DEF Deleted
  <2>7. OneRemoval'
    BY <1>1, <2>1, <2>2, <2>4 DEF OneRemoval, Commanding, At, Free
  <2> QED BY <1>1, <2>1, <2>5, <2>6, <2>7, HasKeeps
<1>4. CASE Removed
  <2> DEFINE n == main.node
             c == main.conn
  <2>1. /\ main # NULL /\ ~main.create /\ conns[c].phase = "wait"
        /\ conns' = [conns EXCEPT ![c] = Closed(@)]
        /\ active' = [active EXCEPT ![n] = FALSE]
        /\ main' = NULL /\ UNCHANGED <<addrs, late>>
    BY <1>4 DEF Removed, RemovalAnswered, Answered
  <2>2. n \in Nodes /\ c \in Conns /\ conns[c] \in Request
    BY <1>1, <2>1 DEF TypeOK, Blocked
  <2>3. Closed(conns[c]) \in Request /\ Closed(conns[c]).phase = "wait"
    BY <2>1, <2>2 DEF Closed, Request
  <2>4. /\ conns'[c] # NULL /\ conns'[c].phase = "wait"
        /\ \A d \in Conns \ {c} : conns'[d] = conns[d]
    BY <1>1, <2>1, <2>2, <2>3 DEF TypeOK
  <2>5. /\ ~active'[n] /\ \A m \in Nodes \ {n} : active'[m] = active[m] /\ Idle(m)
    BY <1>1, <2>1, <2>2 DEF TypeOK, Idle
  <2>6. Deleted(n)
    BY <2>1 DEF Deleted
  <2> HIDE DEF c
  <2>7. \A m \in Nodes : Has(m)' <=> Has(m)
    BY <2>1, <2>2, <2>4 DEF Has, Adding, Commanding, Free
  <2>8. \A m \in Nodes : ~Deleted(m)'
    BY <2>1 DEF Deleted
  <2> HIDE DEF n
  <2>9. Covered'
    <3> SUFFICES ASSUME NEW m \in Nodes, active'[m] PROVE Has(m)'
      BY DEF Covered
    <3>1. m # n /\ active[m] /\ Idle(m)
      BY <2>5
    <3> QED BY <1>1, <2>7, <3>1, Zenon DEF Covered
  <2>10. Uncovered'
    <3> SUFFICES ASSUME NEW m \in Nodes, ~active'[m], Has(m)' PROVE m \in late'
      BY <2>8 DEF Uncovered
    <3>1. ~active[m] \/ Deleted(m)
      BY <2>5, <2>6
    <3> QED BY <1>1, <2>1, <2>7, <3>1, Zenon DEF Uncovered
  <2>11. OneRemoval'
    <3>1. \A d \in Conns : Commanding(d) /\ conns[d].cmd = "D" => d = c
      BY <1>1 DEF OneRemoval, c
    <3> QED BY <1>1, <2>1, <2>2, <2>4, <3>1 DEF OneRemoval, Commanding, At, Free
  <2> QED BY <2>9, <2>10, <2>11
<1>5. CASE Recreate
  <2> DEFINE n == main.node
             b == main.conn
  <2>1. /\ main # NULL /\ main.create /\ conns[b].phase = "wait"
        /\ active' = [active EXCEPT ![n] = TRUE]
        /\ main' = NULL /\ UNCHANGED <<addrs, late>>
    BY <1>5 DEF Recreate, RemovalAnswered, Answered
  <2>2. n \in Nodes /\ b \in Conns /\ conns[b] \in Request
    BY <1>1, <2>1 DEF TypeOK, Blocked
  <2>3. PICK c \in Conns :
          /\ conns[c] = NULL
          /\ conns' = [d \in Conns |->
               IF d = c THEN New(n, "A")
               ELSE IF d \in {b, ubnetd[n]} /\ d # ubnetd'[n]
                      THEN Closed(conns[d]) ELSE conns[d]]
    BY <1>5, Zenon DEF Recreate, Unused, Free
  <2>4. New(n, "A") \in Request
    BY <2>2 DEF New, Request
  <2>5. conns'[c] # NULL /\ conns'[c].node = n /\ conns'[c].cmd = "A"
        /\ conns'[c].phase = "backlog"
    BY <2>3, <2>4 DEF New
  <2>6. \A d \in Conns \ {c} :
          \/ conns'[d] = conns[d]
          \/ d \in {b, ubnetd[n]} /\ conns'[d] = Closed(conns[d])
    BY <2>3
  <2>7. \A d \in {b, ubnetd[n]} \cap Conns : conns[d] \in Request
    BY <1>1, <2>2 DEF TypeOK
  <2>8. \A r \in Request : /\ Closed(r) # NULL /\ Closed(r).node = r.node
                          /\ Closed(r).cmd = r.cmd /\ Closed(r).phase = r.phase
    <3>1. \A r \in Request : Closed(r) \in Request
      BY DEF Closed, Request
    <3>2. \A r \in Request : /\ Closed(r).node = r.node
                            /\ Closed(r).cmd = r.cmd /\ Closed(r).phase = r.phase
      BY DEF Closed, Request
    <3> QED BY <3>1, <3>2
  <2>9. \A d \in Conns \ {c} :
          \/ conns'[d] = conns[d]
          \/ /\ conns[d] # NULL /\ conns'[d] # NULL
             /\ conns'[d].node = conns[d].node /\ conns'[d].cmd = conns[d].cmd
             /\ conns'[d].phase = conns[d].phase
    BY <2>6, <2>7, <2>8
  <2>10. active'[n] /\ \A m \in Nodes \ {n} : active'[m] = active[m] /\ Idle(m)
    BY <1>1, <2>1, <2>2 DEF TypeOK, Idle
  <2> HIDE DEF n, b
  <2>11. \A d \in Conns \ {c}, m \in Nodes : Adding(d, m)' <=> Adding(d, m)
    BY <2>9 DEF Adding, Commanding, Free
  <2>12. \A m \in Nodes : /\ Adding(c, m)' <=> m = n
                          /\ ~Adding(c, m)
    BY <2>3, <2>5 DEF Adding, Commanding, Free
  <2>13. \A m \in Nodes : m = n => Has(m)'
    BY <2>12 DEF Has
  <2>14. \A m \in Nodes \ {n} : Has(m)' <=> Has(m)
    BY <2>1, <2>11, <2>12 DEF Has
  <2>15. \A m \in Nodes : ~Deleted(m)'
    BY <2>1 DEF Deleted
  <2>16. Covered'
    <3> SUFFICES ASSUME NEW m \in Nodes, active'[m] PROVE Has(m)'
      BY DEF Covered
    <3>1. CASE m = n
      BY <2>13, <3>1
    <3>2. CASE m # n
      BY <1>1, <2>10, <2>14, <3>2, Zenon DEF Covered
    <3> QED BY <3>1, <3>2
  <2>17. Uncovered'
    <3> SUFFICES ASSUME NEW m \in Nodes, ~active'[m], Has(m)' PROVE m \in late'
      BY <2>15 DEF Uncovered
    <3>1. m # n /\ ~active[m]
      BY <2>10
    <3> QED BY <1>1, <2>1, <2>14, <3>1 DEF Uncovered
  <2>18. OneRemoval'
    <3>1. \A d \in Conns : ~(Commanding(d) /\ conns[d].cmd = "D")
      BY <1>1, <2>1 DEF OneRemoval, Commanding, b
    <3> QED BY <1>1, <2>5, <2>9, <3>1 DEF OneRemoval, Commanding, At, Free
  <2> QED BY <2>16, <2>17, <2>18
<1> QED BY <1>2, <1>3, <1>4, <1>5

\* UInv is inductive.
THEOREM UbnetdInvariance == Spec => []UInv
<1>1. Init => UInv
  <2> SUFFICES ASSUME Init PROVE UInv
    OBVIOUS
  <2>0. New(BASE, "A") \in Request
    BY DEF New, Request
  <2>1. TypeOK
    BY <2>0, UbnetdAssumption DEF Init, net_init, TypeOK
  <2>2. \A c \in Conns :
          conns[c] # NULL => conns[c] = New(BASE, "A")
    BY DEF Init, net_init
  <2>3. \A n \in Nodes : Has(n) => n \in late
    BY <2>2, UbnetdAssumption DEF Init, Has, Adding, Commanding, Free, New
  <2>4. \A n \in Nodes : ~active[n] /\ ~Deleted(n)
    BY DEF Init, Deleted
  <2>5. OneRemoval
    BY <2>2 DEF OneRemoval, Commanding, At, Free, New
  <2>6. Covered
    BY <2>4, Zenon DEF Covered
  <2>7. Uncovered
    BY <2>3, Zenon DEF Uncovered
  <2> QED BY <2>1, <2>5, <2>6, <2>7 DEF UInv
<1>2. UInv /\ [Next]_vars => UInv'
  <2> SUFFICES ASSUME UInv, [Next]_vars PROVE UInv'
    OBVIOUS
  <2>1. TypeOK'
    BY TypeStep DEF UInv
  <2>2. CASE UNCHANGED vars
    BY <2>1, <2>2 DEF UInv, vars, OneRemoval, Covered, Uncovered, Has, Deleted,
                      Idle, Adding, Commanding, At, Free
  <2>3. CASE \E c \in Conns : Accept(c) \/ connection_handler(c)
    BY <2>1, <2>3, ThreadStep DEF UInv
  <2>4. CASE \/ \E n \in Nodes : \/ \E create \in BOOLEAN : RequestRemoval(n, create)
                                 \/ interface_getConfiguredAddress(n)
             \/ Removed \/ Recreate
    BY <2>1, <2>4, MainStep DEF UInv
  <2> QED BY <2>2, <2>3, <2>4
    DEF Next, address6_createAddress, address6_removeAddress
<1> QED BY <1>1, <1>2, PTL DEF Spec

\* A request is only ever waited for, or read, on the connection it was sent
\* on: of its node, its kind, and not closed yet.
THEOREM UbnetdTyped == Spec => []TypeOK
<1>1. UInv => TypeOK
  BY DEF UInv
<1> QED BY <1>1, UbnetdInvariance, PTL

\* A registered node has its address once no thread is about to change it.
THEOREM ActiveConfigured == Spec => []ActiveIsConfigured
<1>1. UInv => ActiveIsConfigured
  BY DEF UInv, Covered, Idle, Has, ActiveIsConfigured
<1> QED BY <1>1, UbnetdInvariance, PTL

\* An address outlives its node only if a thread was late to add it.
THEOREM LingersIfLate == Spec => []LingersOnlyIfLate
<1>1. UInv => LingersOnlyIfLate
  BY DEF UInv, Uncovered, Has, LingersOnlyIfLate
<1> QED BY <1>1, UbnetdInvariance, PTL

-----------------------------------------------------------------------------
(* Connections that ubd has open *)

\* A step of a thread neither opens a connection nor makes ubd forget one.
LEMMA ThreadKeepsKnown ==
  ASSUME TypeOK, OnlyBaseLeftOpen, NEW c \in Conns, Accept(c) \/ connection_handler(c)
  PROVE  OnlyBaseLeftOpen'
<1>1. conns[c] \in Request /\ conns[c] # NULL
  BY UbnetdAssumption DEF connection_handler, Accept, IpAddrDel, IpAddrAdd, Reply,
     ReplyReady, End, At, Free, TypeOK
<1>2. PICK r : Step(c, r) /\ (r # NULL => r.node = conns[c].node /\ r.open = conns[c].open)
  <2>1. \A phase \in {"del", "add", "reply", "sleep", "wait"}, reply \in {"A", "N"} :
          LET r == [conns[c] EXCEPT !.phase = phase]
              q == [conns[c] EXCEPT !.phase = phase, !.reply = reply]
          IN /\ r.node = conns[c].node /\ r.open = conns[c].open
             /\ q.node = conns[c].node /\ q.open = conns[c].open
    BY <1>1 DEF Request
  <2>2. CASE Accept(c) \/ Reply(c)
    BY <2>1, <2>2 DEF Accept, Reply
  <2>3. CASE IpAddrDel(c)
    <3>1. (IF conns[c].node \in addrs THEN "A" ELSE "N") \in {"A", "N"}
      OBVIOUS
    <3> QED BY <2>1, <2>3, <3>1 DEF IpAddrDel
  <2>4. CASE IpAddrAdd(c)
    BY <2>1, <2>4 DEF IpAddrAdd
  <2>5. CASE End(c)
    <3>1. Step(c, NULL)
      BY <2>5 DEF End
    <3> QED BY <3>1
  <2> QED BY <2>2, <2>3, <2>4, <2>5 DEF connection_handler
<1>3. conns'[c] = r /\ \A d \in Conns \ {c} : conns'[d] = conns[d]
  BY <1>2 DEF Step, TypeOK
<1>4. UNCHANGED <<main, ubnetd>>
  BY <1>2 DEF Step
<1> QED BY <1>1, <1>2, <1>3, <1>4 DEF OnlyBaseLeftOpen

\* The main loop closes what it forgets.
LEMMA MainKeepsKnown ==
  ASSUME TypeOK, OnlyBaseLeftOpen,
         \/ \E n \in Nodes : \/ \E create \in BOOLEAN : RequestRemoval(n, create)
                             \/ interface_getConfiguredAddress(n)
         \/ Removed \/ Recreate
  PROVE  OnlyBaseLeftOpen'
<1> USE UbnetdAssumption
<1>1. \A r \in Request : Closed(r).open = FALSE
  BY DEF Closed, Request
<1>2. \A c \in Conns : conns[c] # NULL => conns[c] \in Request
  BY DEF TypeOK
<1>3. ASSUME NEW n \in Nodes, NEW create \in BOOLEAN, RequestRemoval(n, create)
      PROVE  OnlyBaseLeftOpen'
  <2>1. PICK c \in Conns :
          /\ conns' = [conns EXCEPT ![c] = New(n, "D")]
          /\ main' = [node |-> n, conn |-> c, create |-> create]
    BY <1>3 DEF RequestRemoval
  <2>2. main' \in Blocked
    BY <2>1 DEF Blocked
  <2>3. main' # NULL /\ main'.conn = c /\ main = NULL /\ ubnetd' = ubnetd
    BY <1>3, <2>1, <2>2 DEF RequestRemoval
  <2>4. \A d \in Conns \ {c} : conns'[d] = conns[d]
    BY <2>1 DEF TypeOK
  <2> QED BY <2>3, <2>4 DEF OnlyBaseLeftOpen
<1>4. ASSUME NEW n \in Nodes, interface_getConfiguredAddress(n)
      PROVE  OnlyBaseLeftOpen'
  <2>1. /\ ubnetd[n] # NULL /\ main' = main
        /\ conns' = [conns EXCEPT ![ubnetd[n]] = Closed(@)]
        /\ ubnetd' = [ubnetd EXCEPT ![n] = NULL]
    BY <1>4 DEF interface_getConfiguredAddress, Read
  <2>2. ubnetd[n] \in Conns /\ conns[ubnetd[n]] \in Request
    BY <2>1 DEF TypeOK
  <2>3. conns'[ubnetd[n]] = Closed(conns[ubnetd[n]])
        /\ \A d \in Conns \ {ubnetd[n]} : conns'[d] = conns[d]
    BY <2>1, <2>2 DEF TypeOK
  <2>4. \A m \in Nodes \ {n} : ubnetd'[m] = ubnetd[m]
    BY <2>1 DEF TypeOK
  <2>5. ~conns'[ubnetd[n]].open
    BY <1>1, <2>2, <2>3
  <2> QED BY <2>1, <2>3, <2>4, <2>5 DEF OnlyBaseLeftOpen
<1>5. CASE Removed
  <2>1. /\ main # NULL /\ ubnetd' = ubnetd
        /\ conns' = [conns EXCEPT ![main.conn] = Closed(@)]
    BY <1>5 DEF Removed
  <2>2. main.conn \in Conns /\ conns[main.conn] \in Request
    BY <2>1 DEF TypeOK, Blocked
  <2>3. conns'[main.conn] = Closed(conns[main.conn])
        /\ \A d \in Conns \ {main.conn} : conns'[d] = conns[d]
    BY <2>1, <2>2 DEF TypeOK
  <2>4. ~conns'[main.conn].open
    BY <1>1, <2>2, <2>3
  <2> QED BY <2>1, <2>3, <2>4 DEF OnlyBaseLeftOpen
<1>6. CASE Recreate
  <2>1. main # NULL
    BY <1>6 DEF Recreate
  <2> DEFINE n == main.node
             b == main.conn
  <2>2. n \in Nodes /\ b \in Conns /\ conns[b] # NULL
    BY <2>1 DEF TypeOK, Blocked
  <2>3. PICK c \in Conns :
          /\ conns[c] = NULL
          /\ ubnetd' = [ubnetd EXCEPT ![n] = c]
          /\ conns' = [d \in Conns |->
               IF d = c THEN New(n, "A")
               ELSE IF d \in {b, ubnetd[n]} /\ d # ubnetd'[n]
                      THEN Closed(conns[d]) ELSE conns[d]]
    BY <1>6, Zenon DEF Recreate, Replaced, Unused, Free
  <2>4. ubnetd'[n] = c /\ \A m \in Nodes \ {n} : ubnetd'[m] = ubnetd[m]
    BY <2>2, <2>3 DEF TypeOK
  <2>5. ubnetd[n] # NULL => conns[ubnetd[n]] # NULL /\ ubnetd[n] \in Conns
    BY <2>2 DEF TypeOK
  <2> HIDE DEF n, b
  <2> SUFFICES ASSUME NEW d \in Conns, conns'[d] # NULL, conns'[d].open,
                      ~\E m \in Nodes : ubnetd'[m] = d
               PROVE  conns'[d].node = BASE
    BY DEF OnlyBaseLeftOpen
  <2>6. d # c
    BY <2>2, <2>4 DEF n
  <2>7. d \notin {b, ubnetd[n]}
    <3>1. SUFFICES ASSUME d \in {b, ubnetd[n]} PROVE FALSE
      OBVIOUS
    <3>2. conns[d] \in Request
      BY <1>2, <2>2, <2>5, <3>1
    <3>3. conns'[d] = Closed(conns[d])
      BY <2>3, <2>4, <2>6, <3>1
    <3> QED BY <1>1, <3>2, <3>3
  <2>8. conns'[d] = conns[d]
    BY <2>3, <2>6, <2>7
  <2>9. ~\E m \in Nodes : ubnetd[m] = d
    BY <2>4, <2>7
  <2> QED BY <2>7, <2>8, <2>9 DEF OnlyBaseLeftOpen, b
<1> QED BY <1>3, <1>4, <1>5, <1>6

\* No connection is lost: each that is open is known to ubd, but for the one of
\* the base address.
THEOREM NoneLost == Spec => []OnlyBaseLeftOpen
<1>1. Init => OnlyBaseLeftOpen
  BY DEF Init, net_init, New, OnlyBaseLeftOpen
<1>2. TypeOK /\ OnlyBaseLeftOpen /\ [Next]_vars => OnlyBaseLeftOpen'
  <2> SUFFICES ASSUME TypeOK, OnlyBaseLeftOpen, [Next]_vars PROVE OnlyBaseLeftOpen'
    OBVIOUS
  <2>1. CASE UNCHANGED vars
    BY <2>1 DEF vars, OnlyBaseLeftOpen
  <2>2. CASE \E c \in Conns : Accept(c) \/ connection_handler(c)
    BY <2>2, ThreadKeepsKnown
  <2>3. CASE \/ \E n \in Nodes : \/ \E create \in BOOLEAN : RequestRemoval(n, create)
                                 \/ interface_getConfiguredAddress(n)
             \/ Removed \/ Recreate
    BY <2>3, MainKeepsKnown
  <2> QED BY <2>1, <2>2, <2>3
    DEF Next, address6_createAddress, address6_removeAddress
<1> QED BY <1>1, <1>2, UbnetdTyped, PTL DEF Spec

-----------------------------------------------------------------------------
(* Granting: what ubd is told is true *)

\* A thread that adds an address has its reply when that succeeded.
Succeeded ==
  \A c \in Conns : conns[c] # NULL /\ conns[c].cmd = "A" /\ conns[c].reply = "A"
    => conns[c].phase \in {"sleep", "wait"}

\* A thread of an older request of the node may still change its address.
Older(n) == \E d \in Conns \ {ubnetd[n]} : Adding(d, n)

\* The last request of the node succeeded: the address is there, or comes back,
\* and when the reply was sent nobody was left who may remove it.
Granted(n) ==
  conns[ubnetd[n]].reply = "A" =>
    (n \in addrs \/ Older(n)) /\ (Answered(ubnetd[n]) => ~Older(n))
Granting ==
  \A n \in Nodes \ overslept :
    active[n] /\ Idle(n) /\ ubnetd[n] # NULL => Granted(n)

\* What a thread does to its connection, its node and its request being given.
LEMMA ThreadConn ==
  ASSUME TypeOK, NEW c \in Conns, connection_handler(c) \/ Accept(c)
  PROVE  /\ conns[c] \in Request /\ UNCHANGED <<ubnetd, main, active>>
         /\ overslept \subseteq overslept'
         /\ \A d \in Conns \ {c} : conns'[d] = conns[d]
         /\ \/ /\ conns'[c] \in Request
               /\ conns'[c].node = conns[c].node /\ conns'[c].cmd = conns[c].cmd
            \/ End(c) /\ conns'[c] = NULL
<1> USE UbnetdAssumption
<1>1. conns[c] # NULL /\ conns[c] \in Request
  BY DEF connection_handler, Accept, IpAddrDel, IpAddrAdd, Reply, ReplyReady,
         End, At, Free, TypeOK
<1>2. PICK r : /\ Step(c, r)
               /\ \/ r = NULL /\ End(c)
                  \/ r \in Request /\ r.node = conns[c].node /\ r.cmd = conns[c].cmd
  <2>1. \A phase \in {"del", "add", "reply", "sleep", "wait"}, reply \in {"A", "N"} :
          LET r == [conns[c] EXCEPT !.phase = phase]
              q == [conns[c] EXCEPT !.phase = phase, !.reply = reply]
          IN /\ r \in Request /\ r.node = conns[c].node /\ r.cmd = conns[c].cmd
             /\ q \in Request /\ q.node = conns[c].node /\ q.cmd = conns[c].cmd
    BY <1>1 DEF Request
  <2>2. CASE Accept(c) \/ Reply(c)
    BY <2>1, <2>2 DEF Accept, Reply
  <2>3. CASE IpAddrDel(c)
    <3>1. (IF conns[c].node \in addrs THEN "A" ELSE "N") \in {"A", "N"}
      OBVIOUS
    <3> QED BY <2>1, <2>3, <3>1 DEF IpAddrDel
  <2>4. CASE IpAddrAdd(c)
    BY <2>1, <2>4 DEF IpAddrAdd
  <2>5. CASE End(c)
    <3>1. Step(c, NULL)
      BY <2>5 DEF End
    <3> QED BY <2>5, <3>1
  <2> QED BY <2>2, <2>3, <2>4, <2>5 DEF connection_handler
<1>3. conns'[c] = r /\ \A d \in Conns \ {c} : conns'[d] = conns[d]
  BY <1>2 DEF Step, TypeOK
<1>4. overslept \subseteq overslept'
  BY DEF connection_handler, Accept, IpAddrDel, IpAddrAdd, Reply, End
<1> QED BY <1>1, <1>2, <1>3, <1>4 DEF Step

\* Threads keep what was granted: the reply of the last request is only sent
\* while an older one is at work if that thread overslept.
LEMMA GrantThread ==
  ASSUME UInv, Succeeded, Granting, NEW c \in Conns, Accept(c) \/ connection_handler(c)
  PROVE  Succeeded' /\ Granting'
<1> USE UbnetdAssumption
<1>1. TypeOK /\ OneRemoval
  BY DEF UInv
<1>2. /\ conns[c] \in Request /\ conns[c] # NULL /\ UNCHANGED <<ubnetd, main, active>>
      /\ overslept \subseteq overslept'
      /\ \A d \in Conns \ {c} : conns'[d] = conns[d]
  BY <1>1, ThreadConn
<1>3. \/ /\ conns'[c] \in Request /\ conns'[c] # NULL
         /\ conns'[c].node = conns[c].node /\ conns'[c].cmd = conns[c].cmd
      \/ End(c) /\ conns'[c] = NULL
  BY <1>1, ThreadConn
<1> DEFINE Moved ==
        \/ Accept(c) /\ conns[c].phase = "backlog" /\ conns'[c].phase = "del"
           /\ conns'[c].reply = conns[c].reply /\ UNCHANGED addrs
        \/ IpAddrDel(c) /\ conns[c].phase = "del" /\ conns[c].cmd = "A"
           /\ conns'[c].phase = "add" /\ conns'[c].reply = conns[c].reply
           /\ addrs' = addrs \ {conns[c].node}
        \/ IpAddrDel(c) /\ conns[c].phase = "del" /\ conns[c].cmd = "D"
           /\ conns'[c].phase = "reply"
           /\ addrs' = addrs \ {conns[c].node}
        \/ IpAddrAdd(c) /\ conns[c].phase = "add" /\ conns'[c].phase = "reply"
           /\ conns'[c].reply = conns[c].reply /\ addrs' = addrs \cup {conns[c].node}
        \/ IpAddrAdd(c) /\ conns[c].phase = "add" /\ conns'[c].phase = "sleep"
           /\ addrs' = addrs \cup {conns[c].node}
        \/ Reply(c) /\ conns[c].phase \in {"reply", "sleep"} /\ conns'[c].phase = "wait"
           /\ conns'[c].reply = conns[c].reply /\ UNCHANGED addrs
<1>4. conns'[c] # NULL => Moved
  <2> SUFFICES ASSUME conns'[c] # NULL PROVE Moved
    OBVIOUS
  <2>1. \A r : Step(c, r) => conns'[c] = r
    BY <1>1 DEF Step, TypeOK
  <2>2. \A phase \in {"del", "add", "reply", "sleep", "wait"}, reply \in {"A", "N"} :
          LET r == [conns[c] EXCEPT !.phase = phase]
              q == [conns[c] EXCEPT !.phase = phase, !.reply = reply]
          IN r.phase = phase /\ r.reply = conns[c].reply /\ q.phase = phase
    BY <1>2 DEF Request
  <2>3. CASE Accept(c)
    <3>1. conns[c].phase = "backlog" /\ Step(c, [conns[c] EXCEPT !.phase = "del"])
          /\ UNCHANGED addrs
      BY <2>3 DEF Accept, At
    <3>2. conns'[c].phase = "del" /\ conns'[c].reply = conns[c].reply
      <4>1. conns'[c] = [conns[c] EXCEPT !.phase = "del"]
        BY <2>1, <3>1
      <4> QED BY <1>2, <4>1 DEF Request
    <3> QED BY <2>3, <3>1, <3>2
  <2>4. CASE Reply(c)
    BY <2>1, <2>2, <2>4 DEF Reply, ReplyReady, At
  <2>5. CASE IpAddrDel(c)
    <3>1. (IF conns[c].node \in addrs THEN "A" ELSE "N") \in {"A", "N"}
      OBVIOUS
    <3>2. conns[c].phase = "del" /\ addrs' = addrs \ {conns[c].node}
      BY <2>5 DEF IpAddrDel, At
    <3>3. CASE conns[c].cmd = "A"
      <4>1. Step(c, [conns[c] EXCEPT !.phase = "add"])
        BY <2>5, <3>3 DEF IpAddrDel
      <4>2. conns'[c].phase = "add" /\ conns'[c].reply = conns[c].reply
        BY <2>1, <2>2, <4>1
      <4> QED BY <2>5, <3>2, <3>3, <4>2
    <3>4. CASE conns[c].cmd = "D"
      <4>1. PICK reply \in {"A", "N"} :
              Step(c, [conns[c] EXCEPT !.phase = "reply", !.reply = reply])
        BY <2>5, <3>1, <3>4 DEF IpAddrDel
      <4>2. conns'[c].phase = "reply"
        <5>1. conns'[c] = [conns[c] EXCEPT !.phase = "reply", !.reply = reply]
          BY <2>1, <4>1
        <5> QED BY <1>2, <5>1 DEF Request
      <4> QED BY <2>5, <3>2, <3>4, <4>2
    <3> QED BY <1>2, <3>3, <3>4 DEF Request
  <2>6. CASE IpAddrAdd(c)
    BY <2>1, <2>2, <2>6 DEF IpAddrAdd, At
  <2>7. ~End(c)
    BY <1>2, <2>1 DEF End
  <2> QED BY <2>3, <2>4, <2>5, <2>6, <2>7 DEF connection_handler
<1> HIDE DEF Moved
<1>5. Succeeded'
  <2> SUFFICES ASSUME NEW d \in Conns, conns'[d] # NULL, conns'[d].cmd = "A",
                      conns'[d].reply = "A"
               PROVE  conns'[d].phase \in {"sleep", "wait"}
    BY DEF Succeeded
  <2>1. CASE d # c
    BY <1>2, <2>1 DEF Succeeded
  <2>2. CASE d = c
    <3>1. conns[c].cmd = "A"
      BY <1>3, <2>2
    <3>2. conns'[c].reply = conns[c].reply => conns[c].phase \in {"sleep", "wait"}
      BY <1>2, <2>2, <3>1 DEF Succeeded
    <3> QED BY <1>4, <2>2, <3>1, <3>2 DEF Moved
  <2> QED BY <2>1, <2>2
<1>6. Granting'
  <2> SUFFICES ASSUME NEW n \in Nodes, n \notin overslept', active'[n], Idle(n)',
                      ubnetd'[n] # NULL, conns'[ubnetd'[n]].reply = "A"
               PROVE  (n \in addrs' \/ Older(n)') /\ (Answered(ubnetd[n])' => ~Older(n)')
    BY DEF Granting, Granted
  <2> DEFINE u == ubnetd[n]
  <2>1. /\ ubnetd'[n] = u /\ u \in Conns /\ conns[u] # NULL /\ conns[u].node = n
        /\ conns[u].cmd = "A" /\ conns[u].open /\ Idle(n) /\ active[n] /\ n \notin overslept
    BY <1>1, <1>2 DEF TypeOK, Idle
  <2>2. Granted(n)
    BY <2>1 DEF Granting
  <2> HIDE DEF u
  <2>3. conns'[c] # NULL \/ conns[c].phase = "wait"
    BY <1>3 DEF End, At
  <2>4. \A d \in Conns \ {c} : Adding(d, n)' <=> Adding(d, n)
    BY <1>2 DEF Adding, Commanding, Free
  <2>5. Adding(c, n)' => Adding(c, n)
    BY <1>2, <1>3, <1>4 DEF Moved, Adding, Commanding, Free
  <2>6. Older(n)' => Older(n)
    BY <2>1, <2>4, <2>5 DEF Older, u
  <2>7. CASE u = c
    <3>1. conns'[c] # NULL
      BY <1>3, <2>1, <2>7 DEF End
    <3>2. Older(n)' <=> Older(n)
      BY <2>1, <2>4, <2>7 DEF Older, u
    <3>3. conns'[c].reply = conns[c].reply => conns[c].phase \in {"sleep", "wait"}
      BY <1>2, <2>1, <2>7 DEF Succeeded
    <3>4. CASE IpAddrAdd(c) /\ conns'[c].phase = "sleep" /\ addrs' = addrs \cup {conns[c].node}
      BY <2>1, <2>7, <3>4 DEF Answered
    <3>5. CASE Reply(c) /\ conns[c].phase = "sleep" /\ conns'[c].reply = conns[c].reply
               /\ UNCHANGED addrs
      <4>1. ~Overslept(c)
        BY <2>1, <2>7, <3>5 DEF Reply
      <4>2. ~Older(n)
        BY <1>2, <2>1, <2>7, <3>5, <4>1 DEF Overslept, Older, At, Free, u
      <4>3. conns[u].reply = "A"
        BY <2>1, <2>7, <3>5
      <4> QED BY <2>2, <3>2, <3>5, <4>2, <4>3 DEF Granted, u
    <3> QED BY <1>4, <2>1, <2>7, <3>1, <3>3, <3>4, <3>5 DEF Moved
  <2>8. CASE u # c
    <3>1. conns'[u] = conns[u] /\ conns[u].reply = "A"
      BY <1>2, <2>1, <2>8
    <3>2. (n \in addrs \/ Older(n)) /\ (Answered(u) => ~Older(n))
      BY <2>2, <3>1 DEF Granted, u
    <3>3. Answered(u)' => Answered(u)
      BY <3>1, <1>2 DEF Answered, u
    <3>4. n \in addrs' \/ Older(n)'
      <4>1. CASE conns[c].node # n
        <5>1. n \in addrs => n \in addrs'
          BY <1>2, <1>4, <2>3, <4>1 DEF Moved, connection_handler, End, Accept, IpAddrDel,
             IpAddrAdd, Reply, At, ReplyReady
        <5>2. ~Adding(c, n)
          BY <4>1 DEF Adding
        <5>3. Older(n) => Older(n)'
          BY <2>1, <2>4, <5>2 DEF Older, u
        <5> QED BY <3>2, <5>1, <5>3
      <4>2. CASE conns[c].node = n /\ IpAddrAdd(c)
        BY <4>2 DEF IpAddrAdd
      <4>3. CASE conns[c].node = n /\ IpAddrDel(c) /\ conns[c].cmd = "A"
        <5>1. conns'[c] # NULL /\ conns'[c].phase = "add"
          BY <1>3, <1>4, <4>3 DEF Moved, IpAddrDel, At, End, IpAddrAdd, Accept, Reply, ReplyReady
        <5>2. Adding(c, n)'
          BY <1>3, <4>3, <5>1 DEF Adding, Commanding, Free
        <5> QED BY <2>1, <2>8, <5>2 DEF Older
      <4>4. CASE conns[c].node = n /\ IpAddrDel(c) /\ conns[c].cmd = "D"
        <5>1. Commanding(c)
          BY <1>2, <4>4 DEF IpAddrDel, At, Commanding, Free
        <5>2. main # NULL /\ main.conn = c
          BY <1>1, <4>4, <5>1 DEF OneRemoval
        <5> QED BY <1>1, <2>1, <4>4, <5>2 DEF TypeOK, Idle
      <4>5. CASE Accept(c) \/ Reply(c) \/ End(c)
        <5>1. UNCHANGED addrs
          BY <4>5 DEF Accept, Reply, End
        <5>2. Adding(c, n) => Adding(c, n)'
          BY <1>2, <1>3, <1>4, <4>5 DEF Moved, Adding, Commanding, Free, Reply, ReplyReady, At,
             End, Accept
        <5>3. Older(n) => Older(n)'
          BY <2>1, <2>4, <5>2 DEF Older, u
        <5> QED BY <3>2, <5>1, <5>3
      <4> QED BY <1>2, <4>1, <4>2, <4>3, <4>4, <4>5 DEF connection_handler, Request
    <3> QED BY <2>1, <2>6, <3>2, <3>3, <3>4 DEF u, Answered
  <2> QED BY <2>7, <2>8
<1> QED BY <1>5, <1>6

\* The main loop keeps what was granted: while it works on a node nothing is
\* said of it, and after that the request of the node is a new one.
LEMMA GrantMain ==
  ASSUME UInv, Succeeded, Granting,
         \/ \E n \in Nodes : \/ \E create \in BOOLEAN : RequestRemoval(n, create)
                             \/ interface_getConfiguredAddress(n)
         \/ Removed \/ Recreate
  PROVE  Succeeded' /\ Granting'
<1> USE UbnetdAssumption
<1>1. TypeOK
  BY DEF UInv
\* A new connection at c, or none, and others that may have been closed.
<1> DEFINE Kept(d) == /\ conns[d] # NULL => conns'[d] # NULL
                      /\ conns'[d] # NULL =>
                           /\ conns[d] # NULL /\ conns'[d].node = conns[d].node
                           /\ conns'[d].cmd = conns[d].cmd
                           /\ conns'[d].phase = conns[d].phase
                           /\ conns'[d].reply = conns[d].reply
           Fresh(c) == /\ conns[c] = NULL /\ conns'[c] # NULL
                       /\ conns'[c].phase = "backlog" /\ conns'[c].reply = "N"
<1>2. UNCHANGED <<addrs, overslept>>
  BY DEF RequestRemoval, interface_getConfiguredAddress, Removed, Recreate
<1>3. \A r \in Request : /\ Closed(r) \in Request /\ Closed(r).node = r.node
                         /\ Closed(r).cmd = r.cmd /\ Closed(r).phase = r.phase
                         /\ Closed(r).reply = r.reply
  BY DEF Closed, Request
<1>4. \A d \in Conns : conns'[d] = conns[d] \/
                       (conns[d] # NULL /\ conns'[d] = Closed(conns[d])) => Kept(d)
  <2> SUFFICES ASSUME NEW d \in Conns, conns[d] # NULL, conns'[d] = Closed(conns[d])
               PROVE  Kept(d)
    OBVIOUS
  <2>1. conns[d] \in Request
    BY <1>1 DEF TypeOK
  <2>2. conns'[d] \in Request
    BY <1>3, <2>1
  <2>3. conns'[d] # NULL
    BY <2>2
  <2> QED BY <1>3, <2>1, <2>3
<1>5. ASSUME \A d \in Conns : Kept(d) \/ (Fresh(d) /\ conns'[d].cmd = "D"),
             NEW n \in Nodes, Granted(n), ubnetd[n] # NULL, ubnetd'[n] = ubnetd[n]
      PROVE  Granted(n)'
  <2>1. Kept(ubnetd[n]) /\ ubnetd[n] \in Conns /\ conns[ubnetd[n]] # NULL
    BY <1>1, <1>5 DEF TypeOK
  <2>2. \A d \in Conns : Adding(d, n)' <=> Adding(d, n)
    BY <1>5 DEF Adding, Commanding, Free
  <2>3. Older(n)' <=> Older(n)
    BY <1>5, <2>2 DEF Older
  <2> QED BY <1>2, <1>5, <2>1, <2>3 DEF Granted, Answered
<1>6. ASSUME \A d \in Conns : Kept(d) \/ Fresh(d)
      PROVE  Succeeded'
  BY <1>6 DEF Succeeded
<1>7. ASSUME NEW n \in Nodes, NEW create \in BOOLEAN, RequestRemoval(n, create)
      PROVE  Succeeded' /\ Granting'
  <2>1. PICK c \in Conns :
          /\ conns[c] = NULL
          /\ conns' = [conns EXCEPT ![c] = New(n, "D")]
          /\ main' = [node |-> n, conn |-> c, create |-> create]
    BY <1>7 DEF RequestRemoval, Unused, Free
  <2>2. main = NULL /\ UNCHANGED <<ubnetd, active>>
    BY <1>7 DEF RequestRemoval
  <2>3. New(n, "D") \in Request /\ New(n, "D").phase = "backlog"
        /\ New(n, "D").reply = "N" /\ New(n, "D").cmd = "D"
    BY DEF New, Request
  <2>4. conns'[c] = New(n, "D") /\ \A d \in Conns \ {c} : conns'[d] = conns[d]
    BY <1>1, <2>1 DEF TypeOK
  <2>5. Fresh(c) /\ conns'[c].cmd = "D" /\ \A d \in Conns \ {c} : Kept(d)
    BY <2>1, <2>3, <2>4
  <2> HIDE DEF Kept, Fresh
  <2>6. Granting'
    BY <1>2, <1>5, <2>2, <2>5 DEF Granting, Idle
  <2> QED BY <1>6, <2>5, <2>6
<1>8. ASSUME NEW n \in Nodes, interface_getConfiguredAddress(n)
      PROVE  Succeeded' /\ Granting'
  <2>1. /\ main = NULL /\ ubnetd[n] # NULL
        /\ conns' = [conns EXCEPT ![ubnetd[n]] = Closed(@)]
        /\ ubnetd' = [ubnetd EXCEPT ![n] = NULL]
        /\ UNCHANGED <<main, active>>
    BY <1>8 DEF interface_getConfiguredAddress, Read
  <2>2. \A d \in Conns : Kept(d)
    <3>1. ubnetd[n] \in Conns /\ conns[ubnetd[n]] # NULL
      BY <1>1, <2>1 DEF TypeOK
    <3>2. \A d \in Conns : conns'[d] = conns[d] \/
                       (conns[d] # NULL /\ conns'[d] = Closed(conns[d]))
      BY <1>1, <2>1, <3>1 DEF TypeOK
    <3> HIDE DEF Kept
    <3> QED BY <1>4, <3>2
  <2>3. \A m \in Nodes : ubnetd'[m] # NULL => ubnetd'[m] = ubnetd[m]
    BY <1>1, <2>1 DEF TypeOK
  <2> HIDE DEF Kept, Fresh
  <2>4. Granting'
    BY <1>2, <1>5, <2>1, <2>2, <2>3 DEF Granting, Idle
  <2> QED BY <1>6, <2>2, <2>4
<1>9. CASE Removed
  <2>1. /\ main # NULL /\ conns' = [conns EXCEPT ![main.conn] = Closed(@)]
        /\ active' = [active EXCEPT ![main.node] = FALSE]
        /\ UNCHANGED ubnetd
    BY <1>9 DEF Removed
  <2>2. main.node \in Nodes /\ main.conn \in Conns /\ conns[main.conn] # NULL
    BY <1>1, <2>1 DEF TypeOK, Blocked
  <2>3. \A d \in Conns : Kept(d)
    <3>1. \A d \in Conns : conns'[d] = conns[d] \/
                       (conns[d] # NULL /\ conns'[d] = Closed(conns[d]))
      BY <1>1, <2>1, <2>2 DEF TypeOK
    <3> HIDE DEF Kept
    <3> QED BY <1>4, <3>1
  <2>4. \A m \in Nodes : active'[m] => active[m] /\ Idle(m)
    BY <1>1, <2>1, <2>2 DEF TypeOK, Idle
  <2> HIDE DEF Kept, Fresh
  <2>5. Granting'
    BY <1>2, <1>5, <2>1, <2>3, <2>4 DEF Granting
  <2> QED BY <1>6, <2>3, <2>5
<1>10. CASE Recreate
  <2>1. main # NULL /\ active' = [active EXCEPT ![main.node] = TRUE]
    BY <1>10 DEF Recreate
  <2>2. PICK n \in Nodes, b \in Conns : n = main.node /\ b = main.conn /\ conns[b] # NULL
    BY <1>1, <2>1 DEF TypeOK, Blocked
  <2>3. PICK c \in Conns :
          /\ conns[c] = NULL
          /\ ubnetd' = [ubnetd EXCEPT ![n] = Replaced(n, c)]
          /\ conns' = [d \in Conns |->
               IF d = c THEN New(n, "A")
               ELSE IF d \in {b, ubnetd[n]} /\ d # ubnetd'[n]
                      THEN Closed(conns[d]) ELSE conns[d]]
    BY <1>10, <2>2, Zenon DEF Recreate, Unused, Free
  <2>4. /\ New(n, "A") \in Request /\ New(n, "A").phase = "backlog"
        /\ New(n, "A").reply = "N" /\ New(n, "A").node = n
    BY <2>2 DEF New, Request
  <2>5. Fresh(c) /\ conns'[c].node = n
    BY <2>3, <2>4
  <2>6. \A d \in Conns \ {c} : conns'[d] = conns[d] \/
          (conns[d] # NULL /\ conns'[d] = Closed(conns[d]))
    <3>1. \A d \in Conns : d \in {b, ubnetd[n]} => conns[d] # NULL
      BY <1>1, <2>2 DEF TypeOK
    <3> QED BY <2>3, <3>1
  <2>7. \A d \in Conns \ {c} : Kept(d)
    <3> HIDE DEF Kept
    <3> QED BY <1>4, <2>6
  <2>8. ubnetd'[n] = c /\ \A m \in Nodes \ {n} : ubnetd'[m] = ubnetd[m]
    BY <1>1, <2>2, <2>3 DEF TypeOK, Replaced
  <2>9. \A m \in Nodes \ {n} : active'[m] = active[m] /\ Idle(m)
    BY <1>1, <2>1, <2>2 DEF TypeOK, Idle
  <2>10. ASSUME NEW m \in Nodes \ {n}, ubnetd[m] # NULL, Granted(m) PROVE Granted(m)'
    <3>1. ubnetd'[m] = ubnetd[m] /\ ubnetd[m] \in Conns /\ conns[ubnetd[m]] # NULL
      BY <1>1, <2>8, <2>10 DEF TypeOK
    <3>2. Kept(ubnetd[m])
      BY <2>3, <2>7, <3>1
    <3>3. \A d \in Conns : Adding(d, m)' <=> Adding(d, m)
      <4>1. \A d \in Conns \ {c} : Adding(d, m)' <=> Adding(d, m)
        BY <2>7 DEF Adding, Commanding, Free
      <4>2. ~Adding(c, m)' /\ ~Adding(c, m)
        BY <2>5 DEF Adding, Commanding, Free
      <4> QED BY <4>1, <4>2
    <3>4. Older(m)' <=> Older(m)
      BY <3>1, <3>3 DEF Older
    <3> QED BY <1>2, <2>10, <3>1, <3>2, <3>4 DEF Granted, Answered
  <2>11. Granted(n)'
    BY <2>5, <2>8 DEF Granted
  <2> HIDE DEF Kept, Fresh
  <2>12. Granting'
    <3> SUFFICES ASSUME NEW m \in Nodes \ overslept', active'[m], ubnetd'[m] # NULL
                 PROVE  Granted(m)'
      BY DEF Granting
    <3>1. CASE m = n
      BY <2>11, <3>1
    <3>2. CASE m # n
      <4>1. active[m] /\ Idle(m) /\ ubnetd[m] # NULL /\ m \notin overslept
        BY <1>2, <2>8, <2>9, <3>2
      <4>2. Granted(m)
        BY <4>1 DEF Granting
      <4> QED BY <2>10, <3>2, <4>1, <4>2
    <3> QED BY <3>1, <3>2
  <2> QED BY <1>6, <2>5, <2>7, <2>12
<1> QED BY <1>7, <1>8, <1>9, <1>10

\* What ubd is told: the address of a node that was granted is there, unless a
\* thread of the node took longer than the sleep before the reply.
THEOREM GrantedConfigured == Spec => []GrantedIsConfigured
<1>1. Init => Succeeded /\ Granting
  BY DEF Init, net_init, New, Succeeded, Granting
<1>2. UInv /\ Succeeded /\ Granting /\ [Next]_vars => Succeeded' /\ Granting'
  <2> SUFFICES ASSUME UInv, Succeeded, Granting, [Next]_vars PROVE Succeeded' /\ Granting'
    OBVIOUS
  <2>1. CASE UNCHANGED vars
    <3>1. \A n \in Nodes : (Older(n)' <=> Older(n)) /\ (Idle(n)' <=> Idle(n))
      BY <2>1 DEF vars, Older, Idle, Adding, Commanding, Free
    <3>2. \A n \in Nodes : Granted(n) => Granted(n)'
      BY <2>1, <3>1 DEF vars, Granted, Answered
    <3> QED BY <2>1, <3>1, <3>2 DEF vars, Succeeded, Granting
  <2>2. CASE \E c \in Conns : Accept(c) \/ connection_handler(c)
    BY <2>2, GrantThread
  <2>3. CASE \/ \E n \in Nodes : \/ \E create \in BOOLEAN : RequestRemoval(n, create)
                                 \/ interface_getConfiguredAddress(n)
             \/ Removed \/ Recreate
    BY <2>3, GrantMain
  <2> QED BY <2>1, <2>2, <2>3
    DEF Next, address6_createAddress, address6_removeAddress
<1>3. UInv /\ Granting => GrantedIsConfigured
  BY DEF Granting, Granted, Idle, GrantedIsConfigured
<1> QED BY <1>1, <1>2, <1>3, UbnetdInvariance, PTL DEF Spec
=============================================================================
