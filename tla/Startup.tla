------------------------------ MODULE Startup ------------------------------
(***************************************************************************)
(* How ubd starts: main.c, daemon.c, and what it makes of the groups and   *)
(* the nodes of its configuration (xmlconfig.c, groups.c).                 *)
(*                                                                         *)
(* Any number of instances may be started, by a user, who gets a daemon,   *)
(* by init or systemd (the parent is process 1) or in the foreground with  *)
(* a configuration file as argument, while others start, run or end.  The  *)
(* system calls of an instance are its steps.                              *)
(***************************************************************************)
EXTENDS Integers, Sequences, SequencesExt

CONSTANTS
  Procs,         \* instances of ubd; the value is the id of its process
  NULL,
  GroupConfigs,  \* lists of groups in configuration files, by name
  NodeConfigs,   \* lists of nodes; a node is the list of its groups
  MAX_GROUPS,
  MAX_NODE_GROUPS,  \* size of n->groups
  MaxKills       \* bound: instances that are killed

GROUPS_STARTADDRESS == 128
Broadcast == 255

Names == UNION {ToSet(c) : c \in GroupConfigs}
           \cup UNION {ToSet(n) : n \in UNION {ToSet(c) : c \in NodeConfigs}}

ASSUME StartupAssumption ==
  /\ NULL \notin Procs
  /\ GroupConfigs \subseteq Seq(Names) /\ NodeConfigs \subseteq Seq(Seq(Names))
  /\ MAX_GROUPS \in 1..Broadcast - GROUPS_STARTADDRESS
  /\ MAX_NODE_GROUPS \in Nat /\ MaxKills \in Nat

VARIABLES
  pc,       \* the next step of an instance
  mode,     \* how it was started
  groups,   \* its groups
  nodes,    \* history: its nodes in the configuration
  members,  \* its nodes in the table: n->groups of each, addresses on the bus
  holder,   \* who holds the lock on the PID file
  pidfile,  \* what the PID file contains: a process, NULL if it is empty
  kills     \* how many instances were killed

vars == <<pc, mode, groups, nodes, members, holder, pidfile, kills>>

\* In the order of main.
Before == {"off", "open", "fork", "lock", "truncate", "write"}
Locked == {"truncate", "write", "config", "switch", "loop"}
Served == {"config", "switch", "loop"}

Group == [name : Names, busadr : Int]

TypeOK ==
  /\ pc \in [Procs -> Before \cup Served \cup {"exit"}]
  /\ mode \in [Procs -> {"user", "init", "foreground"}]
  /\ groups \in [Procs -> Seq(Group)]
  /\ \A p \in Procs : Len(groups[p]) <= MAX_GROUPS
  /\ nodes \in [Procs -> Seq(Seq(Names))]
  /\ members \in [Procs -> Seq(Seq(Int))]
  /\ holder \in Procs \cup {NULL}
  /\ pidfile \in Procs \cup {NULL}
  /\ kills \in 0..MaxKills

Init ==
  /\ pc = [p \in Procs |-> "off"]
  /\ mode \in [Procs -> {"user", "init", "foreground"}]
  /\ groups = [p \in Procs |-> <<>>]
  /\ nodes = [p \in Procs |-> <<>>] /\ members = [p \in Procs |-> <<>>]
  /\ holder = NULL /\ pidfile = NULL /\ kills = 0

-----------------------------------------------------------------------------
At(p, l) == pc[p] = l
GoTo(p, l) == pc' = [pc EXCEPT ![p] = l]

\* The kernel releases what a process that ends has, the lock on the PID file
\* among it, but not what the file contains.
End(p) ==
  /\ GoTo(p, "exit")
  /\ holder' = IF holder = p THEN NULL ELSE holder
  /\ UNCHANGED <<mode, groups, nodes, members, pidfile>>

\* net_init and serial_open come before the lock: they can fail, but not
\* because of another instance.
Start(p) ==
  /\ At(p, "off") /\ GoTo(p, "open")
  /\ UNCHANGED <<mode, groups, nodes, members, holder, pidfile, kills>>
Open(p) ==
  /\ At(p, "open") /\ UNCHANGED kills
  /\ \/ End(p)
     \/ GoTo(p, "fork") /\ UNCHANGED <<mode, groups, nodes, members, holder, pidfile>>

\* daemon_init up to the fork.  The parent exits; the child goes on with its
\* sockets.  A child of process 1 counts as a daemon already.
\* (mutant) the PID file is opened with O_TRUNC
TruncatedByOpen(p) ==
  /\ At(p, "fork")
  /\ GoTo(p, IF mode[p] = "user" THEN "lock" ELSE "config")
  /\ pidfile' = IF mode[p] = "user" THEN NULL ELSE pidfile
  /\ UNCHANGED <<mode, groups, nodes, members, holder, kills>>
fork(p) ==
  /\ At(p, "fork")
  /\ GoTo(p, IF mode[p] = "user" THEN "lock" ELSE "config")
  /\ UNCHANGED <<mode, groups, nodes, members, holder, pidfile, kills>>

\* (mutant) the lock is taken before the fork, and the child does not inherit it
LockOfParent(p) ==
  /\ At(p, "lock") /\ UNCHANGED kills
  /\ \/ holder # NULL /\ End(p)
     \/ /\ holder = NULL /\ GoTo(p, "truncate")
        /\ UNCHANGED <<mode, groups, nodes, members, holder, pidfile>>
lockRegion(p) ==
  /\ At(p, "lock") /\ UNCHANGED kills
  /\ \/ holder # NULL /\ End(p)
     \/ /\ holder = NULL /\ holder' = p /\ GoTo(p, "truncate")
        /\ UNCHANGED <<mode, groups, nodes, members, pidfile>>

ftruncate(p) ==
  /\ At(p, "truncate") /\ UNCHANGED kills
  /\ \/ End(p)
     \/ /\ pidfile' = NULL /\ GoTo(p, "write")
        /\ UNCHANGED <<mode, groups, nodes, members, holder>>

WritePid(p) ==
  /\ At(p, "write") /\ UNCHANGED kills
  /\ \/ End(p)
     \/ /\ pidfile' = p /\ GoTo(p, "config")
        /\ UNCHANGED <<mode, groups, nodes, members, holder>>

-----------------------------------------------------------------------------
(* xml_parsegroupsandnodes *)

\* groups_getBusAddress: the first group of this name, -1 if there is none.
BusAddress(table, name) ==
  LET named == {j \in DOMAIN table : table[j].name = name} IN
    IF named = {} THEN -1
    ELSE table[CHOOSE j \in named : \A k \in named : j <= k].busadr

\* (mutant) groupcount <= MAX_GROUPS
AddsOneMore(table, name, bound) ==
  IF BusAddress(table, name) = -1 /\ Len(table) <= MAX_GROUPS /\ name \in bound
    THEN Append(table, [name |-> name, busadr |-> Len(table) + GROUPS_STARTADDRESS])
    ELSE table
\* groups_addGroup: a group gets the next address, unless it exists, there are
\* MAX_GROUPS of them, or its socket cannot be made.
AddGroup(table, name, bound) ==
  IF BusAddress(table, name) = -1 /\ Len(table) < MAX_GROUPS /\ name \in bound
    THEN Append(table, [name |-> name, busadr |-> Len(table) + GROUPS_STARTADDRESS])
    ELSE table

xml_parseGroups(config, bound) ==
  LET table[n \in 0..Len(config)] ==
        IF n = 0 THEN <<>> ELSE AddGroup(table[n - 1], config[n], bound)
  IN  table[Len(config)]

\* (mutant) the last place stays empty
StopsEarly(node, table) ==
  [j \in {k \in DOMAIN node : k < MAX_NODE_GROUPS} |-> BusAddress(table, node[j])]
\* xml_parseNode: the address of each group of a node, in its order.  There is
\* room for MAX_NODE_GROUPS, and no test: further ones are written over what
\* follows n->groups, and never sent.  (A crash because of them is a Kill.)
xml_parseNode(node, table) ==
  [j \in {k \in DOMAIN node : k <= MAX_NODE_GROUPS} |-> BusAddress(table, node[j])]

xml_parseNodes(config, table) ==
  [n \in DOMAIN config |-> xml_parseNode(config[n], table)]

xml_parsegroupsandnodes(p) ==
  /\ At(p, "config") /\ GoTo(p, "switch")
  /\ \E gs \in GroupConfigs, ns \in NodeConfigs, bound \in SUBSET Names :
       LET table == xml_parseGroups(gs, bound) IN
         /\ groups' = [groups EXCEPT ![p] = table]
         /\ nodes' = [nodes EXCEPT ![p] = ns]
         /\ members' = [members EXCEPT ![p] = xml_parseNodes(ns, table)]
  /\ UNCHANGED <<mode, holder, pidfile, kills>>

\* serial_switch returns when the bridge has answered.
serial_switch(p) ==
  /\ At(p, "switch") /\ GoTo(p, "loop")
  /\ UNCHANGED <<mode, groups, nodes, members, holder, pidfile, kills>>

Kill(p) ==
  /\ pc[p] \notin {"off", "exit"} /\ kills < MaxKills
  /\ kills' = kills + 1
  /\ End(p)

-----------------------------------------------------------------------------
Next ==
  \E p \in Procs :
    \/ Start(p) \/ Open(p) \/ fork(p)
    \/ lockRegion(p) \/ ftruncate(p) \/ WritePid(p)
    \/ xml_parsegroupsandnodes(p) \/ serial_switch(p)
    \/ Kill(p)

Spec == Init /\ [][Next]_vars

-----------------------------------------------------------------------------
(* Properties *)

\* However starts, failures and kills interleave, one daemon at most is past
\* the lock, talks to the bridge and has the sockets of the nodes.  (init and
\* the foreground do not take part in this.)
OneDaemon ==
  \A p, q \in Procs :
    mode[p] = "user" /\ mode[q] = "user" /\ pc[p] \in Locked /\ pc[q] \in Locked
      => p = q

\* The PID file names the daemon that runs: another instance that fails to
\* start, or is killed halfway, leaves the file alone.
PidFileNamesDaemon ==
  \A p \in Procs : mode[p] = "user" /\ pc[p] \in Served => pidfile = p

\* The groups with a socket have different addresses, none of them that of a
\* broadcast, although groups are repeated, exceed the limit or cannot be bound
\* and are skipped; and a node is added, at the address the socket sends to,
\* to just those of them it is configured for.  A node that is configured for
\* more than MAX_NODE_GROUPS is added to none it is not configured for, but
\* may miss some, and its entry in the table is overwritten.
GroupsMatch ==
  \A p \in Procs :
    /\ \A j, k \in DOMAIN groups[p] :
         groups[p][j].name = groups[p][k].name \/ groups[p][j].busadr = groups[p][k].busadr
           => j = k
    /\ \A g \in ToSet(groups[p]) : g.busadr \in GROUPS_STARTADDRESS..Broadcast - 1
    /\ \A n \in DOMAIN nodes[p] :
         LET added == ToSet(members[p][n]) IN
         /\ added \subseteq {g.busadr : g \in ToSet(groups[p])} \cup {-1}
         /\ \A g \in ToSet(groups[p]) :
              /\ g.busadr \in added => g.name \in ToSet(nodes[p][n])
              /\ g.name \in ToSet(nodes[p][n]) =>
                   g.busadr \in added \/ Len(nodes[p][n]) > MAX_NODE_GROUPS
=============================================================================
