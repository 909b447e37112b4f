--------------------------- MODULE StartupProofs ---------------------------
(***************************************************************************)
(* Proofs about the start of ubd, for any number of instances and kills    *)
(* and any configuration.                                                  *)
(***************************************************************************)
EXTENDS Startup, SeqFilterProofs, TLAPS

\* An instance that is past the lock holds it, from then on until it ends; so
\* nobody else has written to the PID file since it did itself.
LockInv ==
  /\ pc \in [Procs -> Before \cup Served \cup {"exit"}]
  /\ mode \in [Procs -> {"user", "init", "foreground"}]
  /\ \A p \in Procs : pc[p] \in {"lock", "truncate", "write"} => mode[p] = "user"
  /\ \A p \in Procs : mode[p] = "user" /\ pc[p] \in Locked => holder = p
  /\ \A p \in Procs : mode[p] = "user" /\ pc[p] \in Served => pidfile = p

USE DEF Before, Locked, Served, At, GoTo

\* No instance was started.
LEMMA InitInv == Init => LockInv
BY StartupAssumption DEF Init, LockInv

\* The end of an instance releases its own lock only.
LEMMA EndStep == ASSUME LockInv, NEW p \in Procs, End(p) PROVE LockInv'
<1>1. ASSUME NEW q \in Procs, mode'[q] = "user", pc'[q] \in Locked
      PROVE  holder' = q
  <2>1. q # p /\ holder = q
    BY <1>1 DEF LockInv, End
  <2> QED BY <2>1 DEF End
<1> QED BY <1>1 DEF LockInv, End

\* Every action keeps the lock and the PID file together.
LEMMA LockStep == LockInv /\ [Next]_vars => LockInv'
<1> SUFFICES ASSUME LockInv, [Next]_vars PROVE LockInv'
    OBVIOUS
<1>1. ASSUME NEW p \in Procs, Start(p) PROVE LockInv'
  BY <1>1 DEF Start, LockInv
<1>2. ASSUME NEW p \in Procs, Open(p) PROVE LockInv'
  BY <1>2, EndStep DEF Open, LockInv
<1>3. ASSUME NEW p \in Procs, fork(p) PROVE LockInv'
  BY <1>3 DEF fork, LockInv
<1>4. ASSUME NEW p \in Procs, lockRegion(p) PROVE LockInv'
  <2>1. CASE End(p)
    BY <2>1, EndStep
  <2>2. CASE ~End(p)
    <3>1. /\ holder = NULL /\ holder' = p /\ pc' = [pc EXCEPT ![p] = "truncate"]
          /\ UNCHANGED <<mode, pidfile>> /\ mode[p] = "user"
      BY <1>4, <2>2 DEF lockRegion, LockInv
    <3>2. \A q \in Procs : mode[q] = "user" => pc[q] \notin Locked
      BY <3>1, StartupAssumption DEF LockInv
    <3> QED BY <3>1, <3>2 DEF LockInv
  <2> QED BY <2>1, <2>2
<1>5. ASSUME NEW p \in Procs, ftruncate(p) \/ WritePid(p) PROVE LockInv'
  <2>1. CASE End(p)
    BY <2>1, EndStep
  <2>2. CASE ~End(p)
    <3>1. mode[p] = "user" /\ holder = p
      BY <1>5 DEF ftruncate, WritePid, LockInv
    <3>2. \A q \in Procs : mode[q] = "user" /\ pc[q] \in Served => q = p
      BY <3>1 DEF LockInv
    <3> QED BY <1>5, <2>2, <3>1, <3>2 DEF ftruncate, WritePid, LockInv
  <2> QED BY <2>1, <2>2
<1>6. ASSUME NEW p \in Procs, xml_parsegroupsandnodes(p) PROVE LockInv'
  BY <1>6 DEF xml_parsegroupsandnodes, LockInv
<1>7. ASSUME NEW p \in Procs, serial_switch(p) PROVE LockInv'
  BY <1>7 DEF serial_switch, LockInv
<1>8. ASSUME NEW p \in Procs, Kill(p) PROVE LockInv'
  BY <1>8, EndStep DEF Kill
<1>9. CASE UNCHANGED vars
  BY <1>9 DEF vars, LockInv
<1> QED BY <1>1, <1>2, <1>3, <1>4, <1>5, <1>6, <1>7, <1>8, <1>9 DEF Next

-----------------------------------------------------------------------------
\* LockInv is inductive.
THEOREM LockInvariance == Spec => []LockInv
<1>1. Init => LockInv
  BY InitInv
<1>2. LockInv /\ [Next]_vars => LockInv'
  BY LockStep
<1> QED BY <1>1, <1>2, PTL DEF Spec

\* daemon_init lets one daemon past the lock, however many are started, fail
\* or are killed at any point.
THEOREM OneDaemonRuns == Spec => []OneDaemon
<1>1. LockInv => OneDaemon
  BY DEF LockInv, OneDaemon
<1> QED BY <1>1, LockInvariance, PTL

\* While a daemon runs the PID file contains its process and is not empty.
THEOREM PidFileCorrect == Spec => []PidFileNamesDaemon
<1>1. LockInv => PidFileNamesDaemon
  BY DEF LockInv, PidFileNamesDaemon
<1> QED BY <1>1, LockInvariance, PTL

-----------------------------------------------------------------------------
(* Groups and members *)

\* A table of groups: every group once, each at the next address.
GoodTable(table) ==
  /\ table \in Seq(Group) /\ Len(table) <= MAX_GROUPS
  /\ \A j \in DOMAIN table : table[j].busadr = j - 1 + GROUPS_STARTADDRESS
  /\ \A j, k \in DOMAIN table : table[j].name = table[k].name => j = k

Tables == {table \in Seq(Group) : GoodTable(table)}

\* The addresses of MAX_GROUPS groups are those of the bus.
LEMMA Addresses ==
  MAX_GROUPS \in 1..127
  /\ \A j \in 1..MAX_GROUPS : j - 1 + GROUPS_STARTADDRESS \in GROUPS_STARTADDRESS..Broadcast - 1
<1>1. MAX_GROUPS \in 1..127
  BY StartupAssumption DEF GROUPS_STARTADDRESS, Broadcast
<1> QED BY <1>1 DEF GROUPS_STARTADDRESS, Broadcast

\* groups_getBusAddress finds the address of a group, or that there is none.
LEMMA AddressFound ==
  ASSUME NEW table \in Tables, NEW name
  PROVE  \/ /\ BusAddress(table, name) = -1
            /\ \A j \in DOMAIN table : table[j].name # name
         \/ \E j \in DOMAIN table :
              table[j].name = name /\ table[j].busadr = BusAddress(table, name)
              /\ table[j].busadr \in GROUPS_STARTADDRESS..Broadcast - 1
<1> DEFINE named == {j \in DOMAIN table : table[j].name = name}
           first == CHOOSE j \in named : \A k \in named : j <= k
<1>1. /\ GoodTable(table) /\ table \in Seq(Group) /\ Len(table) \in Nat
      /\ DOMAIN table = 1..Len(table)
  BY DEF Tables
<1>2. CASE named = {}
  BY <1>2 DEF BusAddress
<1>3. CASE named # {}
  <2>1. PICK j \in named : TRUE
    BY <1>3
  <2>2. \A k \in named : k = j
    BY <1>1, <2>1 DEF GoodTable
  <2>3. j \in 1..Len(table)
    BY <1>1, <2>1
  <2>4. \E i \in named : \A k \in named : i <= k
    BY <2>1, <2>2, <2>3
  <2>5. first \in named
    <3> HIDE DEF named
    <3> QED BY <2>4
  <2>6. first = j
    <3> HIDE DEF named, first
    <3> QED BY <2>2, <2>5
  <2>7. BusAddress(table, name) = table[j].busadr
    <3>1. BusAddress(table, name) = table[first].busadr
      BY <1>3 DEF BusAddress
    <3> HIDE DEF first
    <3> QED BY <2>6, <3>1
  <2>8. table[j].busadr \in GROUPS_STARTADDRESS..Broadcast - 1
    <3>1. j \in 1..MAX_GROUPS
      BY <1>1, <2>3, Addresses DEF GoodTable
    <3>2. table[j].busadr = j - 1 + GROUPS_STARTADDRESS
      BY <1>1, <2>1 DEF GoodTable
    <3> QED BY <3>1, <3>2, Addresses
  <2> QED BY <2>1, <2>7, <2>8
<1> QED BY <1>2, <1>3

\* groups_addGroup keeps the table in order.
LEMMA AddGroupGood ==
  ASSUME NEW table \in Tables, NEW name \in Names, NEW bound
  PROVE  AddGroup(table, name, bound) \in Tables
<1> DEFINE g == [name |-> name, busadr |-> Len(table) + GROUPS_STARTADDRESS]
           t == Append(table, g)
<1>1. CASE BusAddress(table, name) = -1 /\ Len(table) < MAX_GROUPS /\ name \in bound
  <2>1. AddGroup(table, name, bound) = t
    BY <1>1 DEF AddGroup
  <2>2. table \in Seq(Group) /\ GoodTable(table) /\ Len(table) \in Nat /\ g \in Group
    BY DEF Tables, Group, GROUPS_STARTADDRESS
  <2>3. /\ t \in Seq(Group) /\ Len(t) = Len(table) + 1 /\ DOMAIN t = 1..Len(table) + 1
        /\ DOMAIN table = 1..Len(table) /\ t[Len(table) + 1] = g
        /\ \A j \in 1..Len(table) : t[j] = table[j]
    <3> HIDE DEF g
    <3> QED BY <2>2
  <2>4. \A j \in DOMAIN table : table[j].name # name
    <3>1. -1 \notin GROUPS_STARTADDRESS..Broadcast - 1
      BY DEF GROUPS_STARTADDRESS
    <3> QED BY <1>1, <3>1, AddressFound
  <2>5. g.name = name /\ g.busadr = Len(table) + GROUPS_STARTADDRESS
    OBVIOUS
  <2> HIDE DEF t, g
  <2>6. \A j \in DOMAIN t : t[j].busadr = j - 1 + GROUPS_STARTADDRESS
    <3> SUFFICES ASSUME NEW j \in DOMAIN t PROVE t[j].busadr = j - 1 + GROUPS_STARTADDRESS
      OBVIOUS
    <3>1. CASE j \in 1..Len(table)
      BY <2>2, <2>3, <3>1 DEF GoodTable
    <3>2. CASE j = Len(table) + 1
      BY <2>2, <2>3, <2>5, <3>2 DEF GROUPS_STARTADDRESS
    <3> QED BY <2>2, <2>3, <3>1, <3>2
  <2>7. \A j, k \in DOMAIN t : t[j].name = t[k].name => j = k
    <3>1. \A j \in DOMAIN t : j \in DOMAIN table \/ j = Len(table) + 1
      BY <2>2, <2>3
    <3>2. \A j \in DOMAIN table : t[j].name = table[j].name /\ t[j].name # name
      BY <2>3, <2>4
    <3>3. t[Len(table) + 1].name = name
      BY <2>3, <2>5
    <3> QED BY <2>2, <3>1, <3>2, <3>3 DEF GoodTable
  <2>8. Len(t) <= MAX_GROUPS
    BY <1>1, <2>2, <2>3, StartupAssumption
  <2> QED BY <2>1, <2>3, <2>6, <2>7, <2>8 DEF Tables, GoodTable
<1>2. CASE ~(BusAddress(table, name) = -1 /\ Len(table) < MAX_GROUPS /\ name \in bound)
  BY <1>2 DEF AddGroup
<1> QED BY <1>1, <1>2

\* xml_parseGroups makes a table in order of any configuration.
LEMMA ParseGroupsGood ==
  ASSUME NEW config \in GroupConfigs, NEW bound
  PROVE  xml_parseGroups(config, bound) \in Tables
<1> DEFINE n == Len(config)
           Makes(f) == f = [i \in 0..n |-> IF i = 0 THEN <<>>
                              ELSE AddGroup(f[i - 1], config[i], bound)]
           F == CHOOSE f : Makes(f)
           g == [i \in 1..n |-> [t \in Tables |-> AddGroup(t, config[i], bound)]]
<1>1. n \in Nat /\ \A i \in 1..n : config[i] \in Names
  BY StartupAssumption
<1>2. <<>> \in Tables
  <2>1. <<>> \in Seq(Group) /\ Len(<<>>) <= MAX_GROUPS /\ DOMAIN <<>> = {}
    BY StartupAssumption
  <2> QED BY <2>1 DEF Tables, GoodTable
<1>3. g \in [1..n -> [Tables -> Tables]]
  <2>1. \A i \in 1..n, t \in Tables : AddGroup(t, config[i], bound) \in Tables
    BY <1>1, AddGroupGood
  <2> QED BY <2>1
<1>4. PICK f \in [0..n -> Tables] : FollowsSteps(f, n, <<>>, g)
  <2> HIDE DEF g, n
  <2> QED BY <1>1, <1>2, <1>3, RecursionUpTo
<1>5. Makes(f)
  <2>1. \A i \in 1..n : i - 1 \in 0..n
    BY <1>1
  <2>2. \A i \in 1..n : f[i] = AddGroup(f[i - 1], config[i], bound)
    BY <1>4, <2>1 DEF FollowsSteps
  <2>3. \A i \in 0..n : f[i] = IF i = 0 THEN <<>> ELSE AddGroup(f[i - 1], config[i], bound)
    <3>1. \A i \in 0..n : i # 0 => i \in 1..n
      BY <1>1
    <3>2. f[0] = <<>>
      BY <1>4 DEF FollowsSteps
    <3> HIDE DEF n
    <3> QED BY <2>2, <3>1, <3>2
  <2>4. f = [i \in 0..n |-> f[i]]
    OBVIOUS
  <2> QED BY <2>3, <2>4
<1>6. Makes(F)
  BY <1>5
<1>7. xml_parseGroups(config, bound) = F[n]
  BY DEF xml_parseGroups
<1> HIDE DEF F
<1> DEFINE T == {i \in 0..n : F[i] \in Tables}
<1>8. 0 \in T
  BY <1>1, <1>2, <1>6
<1>9. ASSUME NEW i \in 1..n, i - 1 \in T PROVE i \in T
  <2>1. i \in 0..n /\ i # 0 /\ config[i] \in Names /\ F[i - 1] \in Tables
    BY <1>1, <1>9
  <2>2. F[i] = AddGroup(F[i - 1], config[i], bound)
    BY <1>6, <2>1
  <2>3. F[i] \in Tables
    BY <2>1, <2>2, AddGroupGood
  <2> QED BY <2>1, <2>3
<1>10. n \in T
  <2> HIDE DEF T, n
  <2>1. 0..n \subseteq T
    BY <1>1, <1>8, <1>9, InductionUpTo
  <2> QED BY <1>1, <2>1
<1> QED BY <1>7, <1>10

\* Members as GroupsMatch wants them.
MatchesNode(table, node, addresses) ==
  /\ ToSet(addresses) \subseteq {g.busadr : g \in ToSet(table)} \cup {-1}
  /\ \A g \in ToSet(table) :
       /\ g.busadr \in ToSet(addresses) => g.name \in ToSet(node)
       /\ g.name \in ToSet(node) =>
            g.busadr \in ToSet(addresses) \/ Len(node) > MAX_NODE_GROUPS
Matches(table, config, added) ==
  \A n \in DOMAIN config : MatchesNode(table, config[n], added[n])

\* groups_getBusAddress tells the groups of a table apart.
LEMMA AddressOfGroup ==
  ASSUME NEW table \in Tables, NEW name
  PROVE  /\ BusAddress(table, name) \in Int
         /\ BusAddress(table, name) \in {g.busadr : g \in ToSet(table)} \cup {-1}
         /\ \A g \in ToSet(table) : g.busadr = BusAddress(table, name) <=> g.name = name
<1>1. /\ GoodTable(table) /\ Len(table) \in Nat /\ DOMAIN table = 1..Len(table)
  BY DEF Tables
<1>2. \A k \in DOMAIN table : table[k].busadr \in GROUPS_STARTADDRESS..Broadcast - 1
  <2> SUFFICES ASSUME NEW k \in DOMAIN table
               PROVE  table[k].busadr \in GROUPS_STARTADDRESS..Broadcast - 1
    OBVIOUS
  <2>1. k \in 1..MAX_GROUPS
    BY <1>1, Addresses DEF GoodTable
  <2> QED BY <1>1, <2>1, Addresses DEF GoodTable
<1>3. \A j, k \in DOMAIN table : table[j].busadr = table[k].busadr => j = k
  BY <1>1 DEF GoodTable, GROUPS_STARTADDRESS
<1>4. -1 \notin GROUPS_STARTADDRESS..Broadcast - 1
      /\ \A i \in GROUPS_STARTADDRESS..Broadcast - 1 : i \in Int
  BY DEF GROUPS_STARTADDRESS, Broadcast
<1> DEFINE b == BusAddress(table, name)
<1>5. \/ b = -1 /\ \A k \in DOMAIN table : table[k].name # name
      \/ \E k \in DOMAIN table : table[k].name = name /\ table[k].busadr = b
                                 /\ b \in GROUPS_STARTADDRESS..Broadcast - 1
  BY AddressFound
<1> HIDE DEF b
<1>6. \A j \in DOMAIN table : table[j].busadr = b <=> table[j].name = name
  <2>1. CASE b = -1 /\ \A k \in DOMAIN table : table[k].name # name
    BY <1>2, <1>4, <2>1
  <2>2. ASSUME NEW k \in DOMAIN table, table[k].name = name, table[k].busadr = b
        PROVE  \A j \in DOMAIN table : table[j].busadr = b <=> table[j].name = name
    BY <1>1, <1>3, <2>2 DEF GoodTable
  <2> QED BY <1>5, <2>1, <2>2
<1>7. b \in Int /\ b \in {g.busadr : g \in ToSet(table)} \cup {-1}
  BY <1>4, <1>5 DEF ToSet
<1> QED BY <1>6, <1>7 DEF b, ToSet

\* xml_parseNode adds a node to its groups, as far as there is room.
LEMMA ParseNodeMatches ==
  ASSUME NEW table \in Tables, NEW node \in Seq(Names)
  PROVE  /\ xml_parseNode(node, table) \in Seq(Int)
         /\ MatchesNode(table, node, xml_parseNode(node, table))
<1> DEFINE D == {k \in DOMAIN node : k <= MAX_NODE_GROUPS}
           m == xml_parseNode(node, table)
<1>1. MAX_NODE_GROUPS \in Nat
  BY StartupAssumption
<1>2. Len(node) \in Nat /\ DOMAIN node = 1..Len(node)
  OBVIOUS
<1>3. DOMAIN m = D /\ \A j \in D : m[j] = BusAddress(table, node[j])
  BY DEF xml_parseNode
<1>4. m \in Seq(Int)
  <2>1. PICK l \in Nat : D = 1..l
    <3>1. CASE Len(node) <= MAX_NODE_GROUPS
      BY <1>1, <1>2, <3>1
    <3>2. CASE Len(node) > MAX_NODE_GROUPS
      BY <1>1, <1>2, <3>2
    <3> QED BY <1>1, <1>2, <3>1, <3>2
  <2>2. m = [j \in D |-> BusAddress(table, node[j])]
    BY DEF xml_parseNode
  <2>3. \A j \in D : BusAddress(table, node[j]) \in Int
    BY AddressOfGroup
  <2> HIDE DEF m, D
  <2>4. m \in [1..l -> Int]
    BY <2>1, <2>2, <2>3
  <2> QED BY <2>4
<1>5. \A j \in D : m[j] \in {g.busadr : g \in ToSet(table)} \cup {-1}
  BY <1>3, AddressOfGroup
<1>6. \A j \in D, g \in ToSet(table) : g.busadr = m[j] <=> g.name = node[j]
  BY <1>3, AddressOfGroup
<1>7. Len(node) <= MAX_NODE_GROUPS => D = DOMAIN node
  BY <1>1, <1>2
<1> HIDE DEF m
<1>8. ASSUME NEW g \in ToSet(table)
      PROVE  /\ g.busadr \in ToSet(m) => g.name \in ToSet(node)
             /\ g.name \in ToSet(node) => g.busadr \in ToSet(m) \/ Len(node) > MAX_NODE_GROUPS
  <2>1. ASSUME g.busadr \in ToSet(m) PROVE g.name \in ToSet(node)
    BY <1>3, <1>6, <2>1 DEF ToSet
  <2>2. ASSUME g.name \in ToSet(node), Len(node) <= MAX_NODE_GROUPS
        PROVE  g.busadr \in ToSet(m)
    BY <1>3, <1>6, <1>7, <2>2 DEF ToSet
  <2> QED BY <1>1, <1>2, <2>1, <2>2
<1> QED BY <1>3, <1>4, <1>5, <1>8 DEF MatchesNode, ToSet, m

\* xml_parseNodes makes members that match the table.
LEMMA ParseNodesMatch ==
  ASSUME NEW table \in Tables, NEW config \in NodeConfigs
  PROVE  /\ config \in Seq(Seq(Names))
         /\ xml_parseNodes(config, table) \in Seq(Seq(Int))
         /\ Matches(table, config, xml_parseNodes(config, table))
<1> DEFINE ms == xml_parseNodes(config, table)
<1>1. config \in Seq(Seq(Names)) /\ Len(config) \in Nat /\ DOMAIN config = 1..Len(config)
  BY StartupAssumption
<1>2. ASSUME NEW n \in DOMAIN config
      PROVE  ms[n] \in Seq(Int) /\ MatchesNode(table, config[n], ms[n])
  <2>1. config[n] \in Seq(Names)
    BY <1>1
  <2>2. ms[n] = xml_parseNode(config[n], table)
    BY DEF xml_parseNodes
  <2> QED BY <2>1, <2>2, ParseNodeMatches
<1>3. ms = [n \in DOMAIN config |-> ms[n]]
  BY DEF xml_parseNodes
<1> HIDE DEF ms
<1>4. ms \in Seq(Seq(Int))
  BY <1>1, <1>2, <1>3
<1> QED BY <1>1, <1>2, <1>4 DEF Matches, ms

\* What an instance has are tables in order, and members that match them.
GroupsInv ==
  /\ TypeOK
  /\ \A p \in Procs : groups[p] \in Tables /\ Matches(groups[p], nodes[p], members[p])

\* The end of an instance keeps the types.
LEMMA TypeEnd == ASSUME TypeOK, NEW p \in Procs, End(p), kills' \in 0..MaxKills PROVE TypeOK'
BY DEF TypeOK, End

\* Every action keeps the types, and only the configuration makes groups.
LEMMA GroupsStep == GroupsInv /\ [Next]_vars => GroupsInv'
<1> SUFFICES ASSUME GroupsInv, [Next]_vars PROVE GroupsInv'
  OBVIOUS
<1>0. TypeOK
  BY DEF GroupsInv
<1>1. ASSUME TypeOK', UNCHANGED <<groups, nodes, members>> PROVE GroupsInv'
  BY <1>1 DEF GroupsInv
<1>2. ASSUME NEW p \in Procs, xml_parsegroupsandnodes(p) PROVE GroupsInv'
  <2>1. PICK gs \in GroupConfigs, ns \in NodeConfigs, bound \in SUBSET Names :
          /\ groups' = [groups EXCEPT ![p] = xml_parseGroups(gs, bound)]
          /\ nodes' = [nodes EXCEPT ![p] = ns]
          /\ members' = [members EXCEPT ![p] = xml_parseNodes(ns, xml_parseGroups(gs, bound))]
    BY <1>2, Zenon DEF xml_parsegroupsandnodes
  <2> DEFINE table == xml_parseGroups(gs, bound)
             added == xml_parseNodes(ns, table)
  <2>2. table \in Tables
    BY ParseGroupsGood
  <2>3. ns \in Seq(Seq(Names)) /\ added \in Seq(Seq(Int)) /\ Matches(table, ns, added)
    <3> HIDE DEF table
    <3> QED BY <2>2, ParseNodesMatch
  <2>4. groups' = [groups EXCEPT ![p] = table] /\ nodes' = [nodes EXCEPT ![p] = ns]
        /\ members' = [members EXCEPT ![p] = added]
    BY <2>1
  <2> HIDE DEF table, added
  <2>5. table \in Seq(Group) /\ Len(table) <= MAX_GROUPS
    BY <2>2 DEF Tables, GoodTable
  <2>6. TypeOK'
    BY <1>0, <1>2, <2>3, <2>4, <2>5 DEF xml_parsegroupsandnodes, TypeOK
  <2>7. /\ groups'[p] = table /\ nodes'[p] = ns /\ members'[p] = added
        /\ \A q \in Procs \ {p} : /\ groups'[q] = groups[q] /\ nodes'[q] = nodes[q]
                                 /\ members'[q] = members[q]
    BY <1>0, <2>4 DEF TypeOK
  <2>8. \A q \in Procs : groups'[q] \in Tables /\ Matches(groups'[q], nodes'[q], members'[q])
    BY <2>2, <2>3, <2>7 DEF GroupsInv
  <2> QED BY <2>6, <2>8 DEF GroupsInv
<1>3. ASSUME NEW p \in Procs, End(p), kills' \in 0..MaxKills PROVE GroupsInv'
  BY <1>0, <1>1, <1>3, TypeEnd DEF End
<1>4. ASSUME NEW p \in Procs, Kill(p) PROVE GroupsInv'
  <2>1. kills' \in 0..MaxKills
    BY <1>0, <1>4, StartupAssumption DEF Kill, TypeOK
  <2> QED BY <1>3, <1>4, <2>1 DEF Kill
<1>5. ASSUME NEW p \in Procs, Start(p) \/ fork(p) \/ serial_switch(p) PROVE GroupsInv'
  BY <1>0, <1>1, <1>5 DEF Start, fork, serial_switch, TypeOK
<1>6. ASSUME NEW p \in Procs, Open(p) \/ lockRegion(p) \/ ftruncate(p) \/ WritePid(p)
      PROVE  GroupsInv'
  <2>1. kills' \in 0..MaxKills
    BY <1>0, <1>6 DEF Open, lockRegion, ftruncate, WritePid, TypeOK
  <2>2. CASE End(p)
    BY <1>3, <2>1, <2>2
  <2>3. CASE ~End(p)
    <3>1. TypeOK' /\ UNCHANGED <<groups, nodes, members>>
      BY <1>0, <1>6, <2>3 DEF Open, lockRegion, ftruncate, WritePid, TypeOK
    <3> QED BY <1>1, <3>1
  <2> QED BY <2>2, <2>3
<1>7. CASE UNCHANGED vars
  BY <1>0, <1>1, <1>7 DEF vars, TypeOK
<1> QED BY <1>2, <1>4, <1>5, <1>6, <1>7 DEF Next

\* GroupsInv is inductive.
THEOREM GroupsInvariance == Spec => []GroupsInv
<1>1. Init => GroupsInv
  <2> SUFFICES ASSUME Init PROVE GroupsInv
    OBVIOUS
  <2>1. <<>> \in Seq(Group) /\ <<>> \in Seq(Seq(Int)) /\ <<>> \in Seq(Seq(Names))
        /\ Len(<<>>) = 0 /\ DOMAIN <<>> = {}
    OBVIOUS
  <2>2. <<>> \in Tables /\ Matches(<<>>, <<>>, <<>>)
    BY <2>1, StartupAssumption DEF Tables, GoodTable, Matches
  <2>3. TypeOK
    BY <2>1, StartupAssumption DEF Init, TypeOK
  <2> QED BY <2>2, <2>3 DEF Init, GroupsInv
<1>2. GroupsInv /\ [Next]_vars => GroupsInv'
  BY GroupsStep
<1> QED BY <1>1, <1>2, PTL DEF Spec

\* Every variable keeps its type, and the groups their limit.
THEOREM StartupTyped == Spec => []TypeOK
<1>1. GroupsInv => TypeOK
  BY DEF GroupsInv
<1> QED BY <1>1, GroupsInvariance, PTL

\* The sockets of the groups have different addresses, and a node is added to
\* those of its configuration, and to no other: for any configuration and any
\* sockets, and all of them for a node that is configured for MAX_NODE_GROUPS
\* at most.
THEOREM GroupsCorrect == Spec => []GroupsMatch
<1>1. GroupsInv => GroupsMatch
  <2> SUFFICES ASSUME GroupsInv, NEW p \in Procs
               PROVE  /\ \A j, k \in DOMAIN groups[p] :
                           groups[p][j].name = groups[p][k].name
                           \/ groups[p][j].busadr = groups[p][k].busadr => j = k
                      /\ \A g \in ToSet(groups[p]) :
                           g.busadr \in GROUPS_STARTADDRESS..Broadcast - 1
                      /\ Matches(groups[p], nodes[p], members[p])
    BY DEF GroupsMatch, Matches, MatchesNode
  <2> DEFINE t == groups[p]
  <2>1. GoodTable(t) /\ DOMAIN t = 1..Len(t) /\ Len(t) \in Nat
    BY DEF GroupsInv, Tables
  <2> HIDE DEF t
  <2>2. \A j \in DOMAIN t : t[j].busadr = j - 1 + GROUPS_STARTADDRESS /\ j \in 1..MAX_GROUPS
    BY <2>1, StartupAssumption DEF GoodTable
  <2>3. \A j, k \in DOMAIN t : t[j].busadr = t[k].busadr => j = k
    BY <2>2 DEF GROUPS_STARTADDRESS
  <2>4. \A g \in ToSet(t) : g.busadr \in GROUPS_STARTADDRESS..Broadcast - 1
    BY <2>2, Addresses DEF ToSet
  <2>5. \A j, k \in DOMAIN t : t[j].name = t[k].name => j = k
    BY <2>1 DEF GoodTable
  <2> QED BY <2>3, <2>4, <2>5 DEF GroupsInv, t
<1> QED BY <1>1, GroupsInvariance, PTL
=============================================================================
