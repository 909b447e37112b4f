----------------------------- MODULE Directory -----------------------------
(***************************************************************************)
(* The service directory: directory-client.c, by which ubd announces the   *)
(* services of its nodes and multicast groups, and directory-server.c,     *)
(* which keeps the list of services for HTTP clients.                      *)
(*                                                                         *)
(* The two talk in datagrams that may be lost, duplicated, delayed and     *)
(* reordered.  One tick of the server, a second, is the unit of time.      *)
(***************************************************************************)
EXTENDS Integers

CONSTANTS
  Nodes,      \* nodes of one ubd, by id
  Groups,     \* its multicast groups, by name
  MaxClasses, \* classes of a node
  Types,      \* names of the classes
  GroupType,  \* the type of each group
  Urls,       \* what the rest of an announcement says
  NULL,
  Period,     \* of dirclient_tick (15 in the code)
  dirttl,     \* of config.c (30)
  Delay,      \* bound: how long a datagram may be under way
  MaxLost,    \* bound: announcements of a service that are lost in a row
  MaxChanges  \* bound: what happens to the nodes and the daemons

Ids == Nodes \cup Groups
Index == 1..MaxClasses

\* Keys of the client's table, pointers to a socketdata or a multicastgroup.
Slots == (Nodes \X Index) \cup Groups

\* "%s%s" of id and service-type.  No name in classes.c is the suffix of
\* another one, so the concatenation determines the two.
Keys == Ids \X Types

ASSUME DirectoryAssumption ==
  /\ Nodes \cap Groups = {} /\ (Nodes \X Index) \cap Groups = {}
  /\ MaxClasses \in Nat
  /\ GroupType \in [Groups -> Types]
  /\ NULL \notin Types /\ NULL \notin Urls
  /\ NULL \notin [key : Keys, url : Urls] /\ NULL \notin [url : Urls, ttl : 1..dirttl]
  /\ Period \in Nat \ {0} /\ dirttl \in Nat \ {0}
  /\ Delay \in Nat /\ MaxLost \in Nat /\ MaxChanges \in Nat

VARIABLES
  up,        \* ubd runs
  url,       \* its configuration
  classes,   \* the classes a node told, NULL for 0
  open,      \* the sockets of a node were created and not removed since
  services,  \* of directory-client.c
  due,       \* ticks until the next dirclient_tick
  net,       \* datagrams under way
  table,     \* services of directory-server.c
  told,      \* history: the list when its last change was announced
  replies,   \* where the last answer to discover-directory was sent
  since,     \* history: ticks since a key was announced or withdrawn, or
             \* since the server or ubd was started
  lost,      \* history: announcements of a key lost since one arrived
  changes

client == <<up, url, classes, open, services>>
server == <<table, told, replies>>
vars == <<client, server, due, net, since, lost, changes>>

Service == [key : Keys, url : Urls]
Entry == [url : Urls, ttl : 1..dirttl]
Datagram ==
  [cmd : {"update-service"}, key : Keys, url : Urls,
   age : 0..Delay, arrived : BOOLEAN]
  \cup [cmd : {"delete-service"}, key : Keys, age : 0..Delay, arrived : BOOLEAN]

\* Ticks from one announcement that arrives to the next one, at most.
Gap == (MaxLost + 1) * Period + Delay

\* After Settled ticks announcements, after Gone ticks withdrawals are done: a
\* withdrawal may arrive Delay ticks late, and so may what makes up for it.
Settled == Gap + Delay
Gone == dirttl + Delay
Horizon == 1 + (IF Settled > Gone THEN Settled ELSE Gone)

Announced(k) == \E s \in Slots : services[s] # NULL /\ services[s].key = k

TypeOK ==
  /\ up \in BOOLEAN
  /\ url \in Urls
  /\ classes \in [Nodes -> [Index -> Types \cup {NULL}]]
  /\ open \in [Nodes -> BOOLEAN]
  /\ services \in [Slots -> Service \cup {NULL}]
  /\ due \in 0..Period
  /\ net \subseteq Datagram
  /\ table \in [Keys -> Entry \cup {NULL}]
  /\ told \in [Keys -> Urls \cup {NULL}]
  /\ replies \subseteq {"group", "source"}
  /\ since \in [Keys -> 0..Horizon]
  /\ lost \in [Keys -> 0..MaxLost]
  /\ changes \in 0..MaxChanges

-----------------------------------------------------------------------------
(* directory-client.c *)

Update(sv) == [cmd |-> "update-service", key |-> sv.key, url |-> sv.url,
               age |-> 0, arrived |-> FALSE]
Delete(k) == [cmd |-> "delete-service", key |-> k, age |-> 0, arrived |-> FALSE]

Send(datagrams) == net' = net \cup datagrams

Reset(ks) == since' = [k \in Keys |-> IF k \in ks THEN 0 ELSE since[k]]

\* Keys that are announced, or are no longer, after this step.
Touched == LET changed == {s \in Slots : services'[s] # services[s]} IN
  {services[s].key : s \in {r \in changed : services[r] # NULL}}
  \cup {services'[s].key : s \in {r \in changed : services'[r] # NULL}}

Change == changes < MaxChanges /\ changes' = changes + 1

\* dirclient_registerMulticastGroup
GroupService(g) == [key |-> <<g, GroupType[g]>>, url |-> url']

\* dirclient_init, and the groups of the configuration; no node is known yet.
Start ==
  /\ Change /\ ~up /\ up' = TRUE
  /\ url' \in Urls
  /\ classes' = [n \in Nodes |-> [i \in Index |-> NULL]]
  /\ open' = [n \in Nodes |-> FALSE]
  /\ services' = [s \in Slots |-> IF s \in Groups THEN GroupService(s) ELSE NULL]
  /\ due' = Period
  /\ Send({Update(GroupService(g)) : g \in Groups})
  /\ Reset(Keys)
  /\ UNCHANGED <<server, lost>>

\* ubd crashes or is stopped: its table is gone and nothing is withdrawn.
Stop ==
  /\ Change /\ up /\ up' = FALSE
  /\ services' = [s \in Slots |-> NULL]
  /\ Reset(Keys)
  /\ UNCHANGED <<url, classes, open, server, due, net, lost>>

\* A node tells its classes: busmgt_setClasses, its sockets open or not.
SetClasses(n) ==
  /\ Change /\ up
  /\ \E cs \in [Index -> Types \cup {NULL}] : classes' = [classes EXCEPT ![n] = cs]
  /\ UNCHANGED <<up, url, open, services, server, due, net, since, lost>>

InUse(n) == {i \in Index : classes[n][i] # NULL}
NodeService(n, i) == [key |-> <<n, classes[n][i]>>, url |-> url]

\* dirclient_addService for each class, when all sockets are open.
registerServices(n) ==
  /\ Change /\ up /\ ~open[n]
  /\ open' = [open EXCEPT ![n] = TRUE]
  /\ services' = [s \in Slots |-> IF \E i \in InUse(n) : s = <<n, i>>
                                   THEN NodeService(n, s[2]) ELSE services[s]]
  /\ Send({Update(NodeService(n, i)) : i \in InUse(n)})
  /\ Reset(Touched)
  /\ UNCHANGED <<up, url, classes, server, due, lost>>

\* dirclient_removeService for each class the node has now.
AfterRemoval(n, s) ==
  IF \E i \in InUse(n) : s = <<n, i>> THEN NULL ELSE services[s]

\* From net_removeSockets, also when the sockets were never created.
removeServices(n) ==
  /\ Change /\ up
  /\ open' = [open EXCEPT ![n] = FALSE]
  /\ services' = [s \in Slots |-> AfterRemoval(n, s)]
  /\ Send({Delete(<<n, classes[n][i]>>) : i \in InUse(n)})
  /\ Reset(Touched \cup {<<n, classes[n][i]>> : i \in InUse(n)})
  /\ UNCHANGED <<up, url, classes, server, due, lost>>

dirclient_tick ==
  /\ up /\ due = 0
  /\ due' = Period
  /\ Send({Update(services[s]) : s \in {t \in Slots : services[t] # NULL}})
  /\ UNCHANGED <<client, server, since, lost, changes>>

-----------------------------------------------------------------------------
(* directory-server.c *)

Listed(t) == [k \in Keys |-> IF t[k] = NULL THEN NULL ELSE t[k].url]

\* (mutant) only new services are announced
AnnouncesNew(k, u) == table[k] = NULL
\* New and changed services are announced to the readers of the list.
Announces(k, u) == table[k] = NULL \/ table[k].url # u

\* (mutant) the time to live of a known service is not renewed
RenewsNew(k) == IF table[k] = NULL THEN dirttl ELSE table[k].ttl
Renewed(k) == dirttl

updateServiceCmd(k, u) ==
  /\ table' = [table EXCEPT ![k] = [url |-> u, ttl |-> Renewed(k)]]
  /\ told' = IF Announces(k, u) THEN Listed(table') ELSE told
  /\ lost' = [lost EXCEPT ![k] = 0]

deleteServiceCmd(k) ==
  /\ table' = [table EXCEPT ![k] = NULL]
  /\ UNCHANGED <<told, lost>>

\* The network hands a datagram to the server and drops it, or keeps a copy.
dirserver_read(m) ==
  /\ \/ m.cmd = "update-service" /\ updateServiceCmd(m.key, m.url)
     \/ m.cmd = "delete-service" /\ deleteServiceCmd(m.key)
  /\ \/ net' = net \ {m}
     \/ net' = (net \ {m}) \cup {[m EXCEPT !.arrived = TRUE]}
  /\ UNCHANGED <<client, replies, due, since, changes>>

\* discover-directory: "sa", the group, and the address of "sa", again.
dirserver_announce ==
  /\ replies' = {"group"}
  /\ UNCHANGED <<client, table, told, due, net, since, lost, changes>>

\* Datagrams that never arrived are lost; copies just disappear.
Lose(m) ==
  /\ net' = net \ {m}
  /\ \/ (m.arrived \/ m.cmd = "delete-service") /\ UNCHANGED lost
     \/ /\ ~m.arrived /\ m.cmd = "update-service"
        /\ lost[m.key] < MaxLost /\ lost' = [lost EXCEPT ![m.key] = @ + 1]
  /\ UNCHANGED <<client, server, due, since, changes>>

\* dirserver_init: the table is empty.
RestartServer ==
  /\ Change
  /\ table' = [k \in Keys |-> NULL]
  /\ Reset(Keys)
  /\ UNCHANGED <<client, told, replies, due, net, lost>>

\* (mutant) what reached zero is deleted before the others are counted down
DeletesFirst(e) ==
  IF e = NULL \/ e.ttl = 0 THEN NULL ELSE [e EXCEPT !.ttl = @ - 1]
\* One round of dirserver_tick: count down, and delete what reached zero.
CountDown(e) ==
  IF e = NULL \/ e.ttl = 1 THEN NULL ELSE [e EXCEPT !.ttl = @ - 1]

Aged(m) == [m EXCEPT !.age = @ + 1]

\* A second passes, when nothing is overdue.
dirserver_tick ==
  /\ \A m \in net : m.age < Delay
  /\ up => due > 0
  /\ table' = [k \in Keys |-> CountDown(table[k])]
  /\ due' = IF up THEN due - 1 ELSE due
  /\ net' = {Aged(m) : m \in net}
  /\ since' = [k \in Keys |-> IF since[k] < Horizon THEN since[k] + 1 ELSE since[k]]
  /\ UNCHANGED <<client, told, replies, lost, changes>>

-----------------------------------------------------------------------------
Init ==
  /\ up = FALSE /\ url \in Urls
  /\ classes = [n \in Nodes |-> [i \in Index |-> NULL]]
  /\ open = [n \in Nodes |-> FALSE]
  /\ services = [s \in Slots |-> NULL]
  /\ due = Period
  /\ net = {}
  /\ table = [k \in Keys |-> NULL]
  /\ told = Listed(table)
  /\ replies = {}
  /\ since = [k \in Keys |-> 0]
  /\ lost = [k \in Keys |-> 0]
  /\ changes = 0

Next ==
  \/ Start \/ Stop \/ dirclient_tick
  \/ \E n \in Nodes : SetClasses(n) \/ registerServices(n) \/ removeServices(n)
  \/ \E m \in net : dirserver_read(m) \/ Lose(m)
  \/ dirserver_announce \/ RestartServer \/ dirserver_tick

Spec == Init /\ [][Next]_vars

-----------------------------------------------------------------------------
(* Properties *)

\* What ubd announces is listed, as it is announced: at most Settled ticks
\* after the first announcement, the last withdrawal or a restart, for good,
\* if the time to live is longer than the announcements take that may fail.
AnnouncedIsListed ==
  Gap < dirttl =>
    \A s \in Slots :
      services[s] # NULL => LET sv == services[s] IN
        since[sv.key] > Settled =>
          table[sv.key] # NULL /\ table[sv.key].url = sv.url

\* What ubd no longer announces is dropped after Gone ticks, although the
\* withdrawal was lost, overtaken, never sent, or named another class.
WithdrawnIsDropped ==
  \A k \in Keys : ~Announced(k) /\ since[k] >= Gone => table[k] = NULL

\* Who reads the list whenever a change is announced knows every service that
\* is listed, as it is listed: also the ones that expired and came back.
ReadersAreTold ==
  \A k \in Keys : table[k] # NULL => told[k] = table[k].url
=============================================================================
