-------------------------- MODULE DirectoryProofs --------------------------
(* Proofs about the directory, for any nodes, losses, delays and periods. *)
EXTENDS Directory, SeqFilterProofs, FiniteSetTheorems, FunctionTheorems, TLAPS

\* An entry for what ubd no longer announces has Gone - since ticks to live at
\* most, and announcements of it that are under way were sent before the last.
DyingAt(k) ==
  /\ table[k] # NULL => since[k] + table[k].ttl <= Gone
  /\ \A m \in net : m.cmd = "update-service" /\ m.key = k => since[k] <= m.age
Dying == \A k \in Keys : ~Announced(k) => DyingAt(k)

DInv == TypeOK /\ Dying

USE DirectoryAssumption

-----------------------------------------------------------------------------
\* The bounds of the clocks are numbers, in this order.
LEMMA Bounds == Horizon \in Nat /\ Gone \in Nat /\ Gone < Horizon
                /\ dirttl <= Gone /\ Gone = dirttl + Delay
BY DEF Horizon, Gone, Settled, Gap

\* What is listed are urls.
LEMMA ListedType ==
  ASSUME NEW t \in [Keys -> Entry \cup {NULL}]
  PROVE  Listed(t) \in [Keys -> Urls \cup {NULL}]
BY DEF Listed, Entry

\* The announcement of a service is a datagram.
LEMMA UpdateType == ASSUME NEW sv \in Service PROVE Update(sv) \in Datagram
BY DEF Service, Update, Datagram

\* The withdrawal of a service is a datagram.
LEMMA DeleteType == ASSUME NEW k \in Keys PROVE Delete(k) \in Datagram
BY DEF Delete, Datagram

\* The service of a class of a node, with its slot and its key.
LEMMA NodeServiceType ==
  ASSUME TypeOK, NEW n \in Nodes, NEW i \in InUse(n)
  PROVE  /\ NodeService(n, i) \in Service
         /\ <<n, i>> \in Slots
         /\ <<n, classes[n][i]>> \in Keys
         /\ NodeService(n, i).key = <<n, classes[n][i]>>
BY DEF TypeOK, InUse, NodeService, Service, Slots, Keys, Ids

\* The service of a group.
LEMMA GroupServiceType ==
  ASSUME url' \in Urls, NEW g \in Groups
  PROVE  GroupService(g) \in Service
BY DEF GroupService, Service, Keys, Ids

\* Nothing is announced and nothing listed.
LEMMA InitInv == Init => DInv
<1> SUFFICES ASSUME Init PROVE DInv
    OBVIOUS
<1>1. told \in [Keys -> Urls \cup {NULL}]
  BY DEF Init, Listed
<1>2. TypeOK
  <2>1. classes \in [Nodes -> [Index -> Types \cup {NULL}]]
    BY DEF Init
  <2>2. services \in [Slots -> Service \cup {NULL}] /\ net \subseteq Datagram
    BY DEF Init
  <2>3. table \in [Keys -> Entry \cup {NULL}] /\ lost \in [Keys -> 0..MaxLost]
    BY DEF Init
  <2>4. since \in [Keys -> 0..Horizon]
    BY Bounds DEF Init
  <2>5. due \in 0..Period /\ changes \in 0..MaxChanges
    BY DEF Init
  <2>6. open \in [Nodes -> BOOLEAN] /\ replies \subseteq {"group", "source"}
    BY DEF Init
  <2>7. up \in BOOLEAN /\ url \in Urls
    BY Zenon DEF Init
  <2> QED BY <1>1, <2>1, <2>2, <2>3, <2>4, <2>5, <2>6, <2>7 DEF TypeOK
<1>3. Dying
  BY DEF Init, Dying, DyingAt
<1> QED BY <1>2, <1>3 DEF DInv

-----------------------------------------------------------------------------
(* Types *)

\* Clocks that start again.
LEMMA ResetType ==
  ASSUME TypeOK, NEW ks, Reset(ks)
  PROVE  since' \in [Keys -> 0..Horizon]
BY Bounds DEF TypeOK, Reset

\* A change is counted.
LEMMA ChangeType == ASSUME TypeOK, Change PROVE changes' \in 0..MaxChanges
BY DEF TypeOK, Change

\* Every action keeps the types.
LEMMA TypeStep == TypeOK /\ [Next]_vars => TypeOK'
<1> SUFFICES ASSUME TypeOK, [Next]_vars PROVE TypeOK'
    OBVIOUS
<1> USE DEF TypeOK
<1>1. CASE Start
  <2>1. services' \in [Slots -> Service \cup {NULL}]
    BY <1>1, GroupServiceType DEF Start
  <2>2. net' \subseteq Datagram
    BY <1>1, GroupServiceType, UpdateType DEF Start, Send
  <2>3. since' \in [Keys -> 0..Horizon] /\ changes' \in 0..MaxChanges
    BY <1>1, ResetType, ChangeType DEF Start
  <2> QED BY <1>1, <2>1, <2>2, <2>3 DEF Start, server
<1>2. CASE Stop
  <2>1. since' \in [Keys -> 0..Horizon] /\ changes' \in 0..MaxChanges
    BY <1>2, ResetType, ChangeType DEF Stop
  <2> QED BY <1>2, <2>1 DEF Stop, server
<1>3. CASE dirclient_tick
  <2>1. net' \subseteq Datagram
    BY <1>3, UpdateType DEF dirclient_tick, Send
  <2> QED BY <1>3, <2>1 DEF dirclient_tick, client, server
<1>4. ASSUME NEW n \in Nodes, SetClasses(n) PROVE TypeOK'
  <2>1. changes' \in 0..MaxChanges
    BY <1>4, ChangeType DEF SetClasses
  <2> QED BY <1>4, <2>1 DEF SetClasses, server
<1>5. ASSUME NEW n \in Nodes, registerServices(n) PROVE TypeOK'
  <2>1. services' \in [Slots -> Service \cup {NULL}]
    <3> SUFFICES ASSUME NEW s \in Slots PROVE services'[s] \in Service \cup {NULL}
        BY <1>5 DEF registerServices
    <3>1. CASE \E i \in InUse(n) : s = <<n, i>>
      <4>1. PICK i \in InUse(n) : s = <<n, i>>
        BY <3>1
      <4>2. services'[s] = NodeService(n, i)
        BY <1>5, <4>1 DEF registerServices
      <4>3. NodeService(n, i) \in Service
        BY NodeServiceType
      <4> QED BY <4>2, <4>3
    <3>2. CASE ~\E i \in InUse(n) : s = <<n, i>>
      BY <1>5, <3>2 DEF registerServices
    <3> QED BY <3>1, <3>2
  <2>2. net' \subseteq Datagram
    BY <1>5, NodeServiceType, UpdateType DEF registerServices, Send
  <2>3. since' \in [Keys -> 0..Horizon] /\ changes' \in 0..MaxChanges
    BY <1>5, ResetType, ChangeType DEF registerServices
  <2> QED BY <1>5, <2>1, <2>2, <2>3 DEF registerServices, server
<1>6. ASSUME NEW n \in Nodes, removeServices(n) PROVE TypeOK'
  <2>1. services' \in [Slots -> Service \cup {NULL}]
    BY <1>6 DEF removeServices, AfterRemoval
  <2>2. net' \subseteq Datagram
    <3>1. \A i \in InUse(n) : Delete(<<n, classes[n][i]>>) \in Datagram
      BY NodeServiceType, DeleteType
    <3> QED BY <1>6, <3>1 DEF removeServices, Send
  <2>3. since' \in [Keys -> 0..Horizon] /\ changes' \in 0..MaxChanges
    BY <1>6, ResetType, ChangeType DEF removeServices
  <2> QED BY <1>6, <2>1, <2>2, <2>3 DEF removeServices, server
<1>7. ASSUME NEW m \in net, dirserver_read(m) PROVE TypeOK'
  <2>1. m \in Datagram /\ [m EXCEPT !.arrived = TRUE] \in Datagram
    <3>1. CASE m \in [cmd : {"update-service"}, key : Keys, url : Urls,
                      age : 0..Delay, arrived : BOOLEAN]
      BY <3>1 DEF Datagram
    <3>2. CASE m \in [cmd : {"delete-service"}, key : Keys,
                      age : 0..Delay, arrived : BOOLEAN]
      BY <3>2 DEF Datagram
    <3> QED BY <3>1, <3>2 DEF Datagram
  <2>2. net' \subseteq Datagram
    BY <1>7, <2>1 DEF dirserver_read
  <2>3. CASE m.cmd = "update-service" /\ updateServiceCmd(m.key, m.url)
    <3>1. m.key \in Keys /\ m.url \in Urls
      BY <2>1, <2>3 DEF Datagram
    <3>2. table' \in [Keys -> Entry \cup {NULL}]
      BY <2>3, <3>1 DEF updateServiceCmd, Renewed, Entry
    <3>3. told' \in [Keys -> Urls \cup {NULL}]
      BY <2>3, <3>2, ListedType DEF updateServiceCmd
    <3>4. lost' \in [Keys -> 0..MaxLost]
      BY <2>3, <3>1 DEF updateServiceCmd
    <3> QED BY <1>7, <2>2, <3>2, <3>3, <3>4 DEF dirserver_read, client
  <2>4. CASE m.cmd = "delete-service" /\ deleteServiceCmd(m.key)
    <3>1. table' \in [Keys -> Entry \cup {NULL}]
      BY <2>4 DEF deleteServiceCmd
    <3> QED BY <1>7, <2>2, <2>4, <3>1 DEF dirserver_read, deleteServiceCmd, client
  <2> QED BY <1>7, <2>3, <2>4 DEF dirserver_read
<1>8. ASSUME NEW m \in net, Lose(m) PROVE TypeOK'
  <2>1. lost' \in [Keys -> 0..MaxLost]
    BY <1>8 DEF Lose, Datagram
  <2> QED BY <1>8, <2>1 DEF Lose, client, server
<1>9. CASE dirserver_announce
  BY <1>9 DEF dirserver_announce, client
<1>10. CASE RestartServer
  <2>1. since' \in [Keys -> 0..Horizon] /\ changes' \in 0..MaxChanges
    BY <1>10, ResetType, ChangeType DEF RestartServer
  <2> QED BY <1>10, <2>1 DEF RestartServer, client
<1>11. CASE dirserver_tick
  <2>1. table' \in [Keys -> Entry \cup {NULL}]
    BY <1>11 DEF dirserver_tick, CountDown, Entry
  <2>2. net' \subseteq Datagram
    BY <1>11 DEF dirserver_tick, Aged, Datagram
  <2>3. since' \in [Keys -> 0..Horizon]
    BY <1>11, Bounds DEF dirserver_tick
  <2>4. due' \in 0..Period
    BY <1>11 DEF dirserver_tick
  <2> QED BY <1>11, <2>1, <2>2, <2>3, <2>4 DEF dirserver_tick, client
<1>12. CASE UNCHANGED vars
  BY <1>12 DEF vars, client, server
<1> QED BY <1>1, <1>2, <1>3, <1>4, <1>5, <1>6, <1>7, <1>8, <1>9, <1>10, <1>11, <1>12 DEF Next

-----------------------------------------------------------------------------
(* Dying *)

\* A key that stops being announced is touched.
LEMMA StopsTouched ==
  ASSUME NEW k \in Keys, Announced(k), ~Announced(k)'
  PROVE  k \in Touched
<1>1. PICK s \in Slots : services[s] # NULL /\ services[s].key = k
  BY DEF Announced
<1>2. services'[s] # services[s]
  BY <1>1 DEF Announced
<1> QED BY <1>1, <1>2 DEF Touched

\* The clock of k is set back and the entry of k is not written.
LEMMA DyingReset ==
  ASSUME TypeOK, TypeOK', NEW k \in Keys, table'[k] \in {table[k], NULL},
         NEW ks, k \in ks, Reset(ks)
  PROVE  DyingAt(k)'
<1>1. since'[k] = 0
  BY DEF Reset
<1>2. \A m \in net' : m.age \in Nat
  BY DEF TypeOK, Datagram
<1>3. table[k] # NULL => table[k].ttl \in 1..dirttl
  BY DEF TypeOK, Entry
<1> QED BY <1>1, <1>2, <1>3, Bounds DEF DyingAt

\* Announcements of k may only have gone away.
LEMMA DyingSame ==
  ASSUME Dying, NEW k \in Keys, ~Announced(k),
         table'[k] = table[k], since'[k] = since[k],
         \A m \in net' : m.cmd = "update-service" /\ m.key = k => m \in net
  PROVE  DyingAt(k)'
BY DEF Dying, DyingAt

\* What is withdrawn stays dying in every step.
LEMMA DyingStep == TypeOK /\ TypeOK' /\ Dying /\ [Next]_vars => Dying'
<1> SUFFICES ASSUME TypeOK, TypeOK', Dying, [Next]_vars,
                    NEW k \in Keys, ~Announced(k)'
             PROVE  DyingAt(k)'
    BY DEF Dying
<1>0. services' = services => ~Announced(k)
  BY DEF Announced
<1>1. CASE Start
  BY <1>1, DyingReset DEF Start, server
<1>2. CASE Stop
  BY <1>2, DyingReset DEF Stop, server
<1>3. CASE dirclient_tick
  <2>1. \A m \in net' : m.cmd = "update-service" /\ m.key = k => m \in net
    BY <1>3, <1>0 DEF dirclient_tick, client, Send, Update, Announced
  <2> QED BY <1>3, <1>0, <2>1, DyingSame DEF dirclient_tick, client, server
<1>4. ASSUME NEW n \in Nodes, SetClasses(n) PROVE DyingAt(k)'
  BY <1>4, <1>0, DyingSame DEF SetClasses, server
<1>5. ASSUME NEW n \in Nodes, registerServices(n) PROVE DyingAt(k)'
  <2>1. CASE k \in Touched
    BY <1>5, <2>1, DyingReset DEF registerServices, server
  <2>2. CASE k \notin Touched
    <3>1. ~Announced(k)
      BY <2>2, StopsTouched
    <3>2. ASSUME NEW i \in InUse(n) PROVE NodeService(n, i).key # k
      <4>1. services'[<<n, i>>] = NodeService(n, i) /\ <<n, i>> \in Slots
        BY <1>5, NodeServiceType DEF registerServices, TypeOK
      <4>2. NodeService(n, i) # NULL
        BY NodeServiceType DEF Service
      <4> QED BY <4>1, <4>2 DEF Announced
    <3>3. \A m \in net' : m.cmd = "update-service" /\ m.key = k => m \in net
      BY <1>5, <3>2 DEF registerServices, Send, Update
    <3>4. since'[k] = since[k]
      BY <1>5, <2>2 DEF registerServices, Reset
    <3> QED BY <1>5, <3>1, <3>3, <3>4, DyingSame DEF registerServices, server
  <2> QED BY <2>1, <2>2
<1>6. ASSUME NEW n \in Nodes, removeServices(n) PROVE DyingAt(k)'
  <2> DEFINE ks == Touched \cup {<<n, classes[n][i]>> : i \in InUse(n)}
  <2>1. CASE k \in ks
    BY <1>6, <2>1, DyingReset DEF removeServices, server
  <2>2. CASE k \notin ks
    <3>1. ~Announced(k)
      BY <2>2, StopsTouched
    <3>2. \A m \in net' : m.cmd = "update-service" /\ m.key = k => m \in net
      BY <1>6 DEF removeServices, Send, Delete
    <3>3. since'[k] = since[k]
      BY <1>6, <2>2 DEF removeServices, Reset
    <3> QED BY <1>6, <3>1, <3>2, <3>3, DyingSame DEF removeServices, server
  <2> QED BY <2>1, <2>2
<1>7. ASSUME NEW m \in net, dirserver_read(m) PROVE DyingAt(k)'
  <2>1. ~Announced(k) /\ since' = since
    BY <1>7, <1>0 DEF dirserver_read, client
  <2>2. m \in Datagram /\ m.age \in 0..Delay /\ m.key \in Keys
    BY DEF TypeOK, Datagram
  <2>3. ASSUME NEW l \in net', l.cmd = "update-service", l.key = k
        PROVE  since[k] <= l.age
    <3>1. CASE l \in net
      BY <2>1, <2>3, <3>1 DEF Dying, DyingAt
    <3>2. CASE l = [m EXCEPT !.arrived = TRUE]
      <4>1. m.cmd = "update-service" /\ m.key = k /\ l.age = m.age
        BY <2>2, <2>3, <3>2 DEF Datagram
      <4> QED BY <2>1, <4>1 DEF Dying, DyingAt
    <3> QED BY <1>7, <3>1, <3>2 DEF dirserver_read
  <2>4. ASSUME table'[k] # NULL PROVE since[k] + table'[k].ttl <= Gone
    <3>1. CASE table'[k] = table[k]
      BY <2>1, <2>4, <3>1 DEF Dying, DyingAt
    <3>2. CASE table'[k] # table[k]
      <4>1. m.cmd = "update-service" /\ m.key = k /\ table'[k].ttl = dirttl
        BY <1>7, <2>2, <2>4, <3>2
           DEF dirserver_read, updateServiceCmd, deleteServiceCmd, Renewed, TypeOK
      <4>2. since[k] <= m.age /\ since[k] \in Nat
        BY <2>1, <4>1 DEF Dying, DyingAt, TypeOK
      <4> QED BY <2>2, <4>1, <4>2, Bounds
    <3> QED BY <3>1, <3>2
  <2> QED BY <2>1, <2>3, <2>4 DEF DyingAt
<1>8. ASSUME NEW m \in net, Lose(m) PROVE DyingAt(k)'
  BY <1>8, <1>0, DyingSame DEF Lose, client, server
<1>9. CASE dirserver_announce
  BY <1>9, <1>0, DyingSame DEF dirserver_announce, client
<1>10. CASE RestartServer
  BY <1>10, DyingReset DEF RestartServer
<1>11. CASE dirserver_tick
  <2>1. ~Announced(k)
    BY <1>11, <1>0 DEF dirserver_tick, client
  <2>2. since[k] \in Nat /\ since'[k] \in Nat /\ since'[k] <= since[k] + 1
    BY <1>11, Bounds DEF dirserver_tick, TypeOK
  <2>3. ASSUME NEW l \in net', l.cmd = "update-service", l.key = k
        PROVE  since'[k] <= l.age
    <3>1. PICK m \in net : l = Aged(m)
      BY <1>11 DEF dirserver_tick
    <3>2. /\ m \in Datagram /\ m.age \in 0..Delay
          /\ l.cmd = m.cmd /\ l.key = m.key /\ l.age = m.age + 1
      BY <3>1 DEF TypeOK, Datagram, Aged
    <3>3. since[k] <= m.age
      BY <2>1, <2>3, <3>2 DEF Dying, DyingAt
    <3> QED BY <2>2, <3>2, <3>3
  <2>4. ASSUME table'[k] # NULL PROVE since'[k] + table'[k].ttl <= Gone
    <3>1. table[k] # NULL /\ table[k] \in Entry /\ table'[k].ttl = table[k].ttl - 1
      BY <1>11, <2>4 DEF dirserver_tick, CountDown, TypeOK, Entry
    <3>2. since[k] + table[k].ttl <= Gone /\ table[k].ttl \in Nat
      BY <2>1, <3>1 DEF Dying, DyingAt, Entry
    <3> QED BY <2>2, <3>1, <3>2, Bounds
  <2> QED BY <2>3, <2>4 DEF DyingAt
<1>12. CASE UNCHANGED vars
  BY <1>12, <1>0, DyingSame DEF vars, client, server
<1> QED BY <1>1, <1>2, <1>3, <1>4, <1>5, <1>6, <1>7, <1>8, <1>9, <1>10, <1>11, <1>12 DEF Next

-----------------------------------------------------------------------------
\* Readers know what is listed: every write of the table that lists something
\* new is announced, and the others do not matter.
LEMMA ReadersStep == TypeOK /\ ReadersAreTold /\ [Next]_vars => ReadersAreTold'
<1> SUFFICES ASSUME TypeOK, ReadersAreTold, [Next]_vars,
                    NEW k \in Keys, table'[k] # NULL
             PROVE  told'[k] = table'[k].url
    BY DEF ReadersAreTold
<1>1. CASE table' = table /\ told' = told
  BY <1>1 DEF ReadersAreTold
<1>2. ASSUME NEW m \in net, dirserver_read(m) PROVE told'[k] = table'[k].url
  <2>1. CASE updateServiceCmd(m.key, m.url)
    <3>1. CASE Announces(m.key, m.url)
      BY <2>1, <3>1 DEF updateServiceCmd, Listed
    <3>2. CASE ~Announces(m.key, m.url)
      BY <2>1, <3>2 DEF updateServiceCmd, Announces, ReadersAreTold, TypeOK
    <3> QED BY <3>1, <3>2
  <2>2. CASE deleteServiceCmd(m.key)
    BY <2>2 DEF deleteServiceCmd, ReadersAreTold, TypeOK
  <2> QED BY <1>2, <2>1, <2>2 DEF dirserver_read
<1>3. CASE RestartServer
  BY <1>3 DEF RestartServer
<1>4. CASE dirserver_tick
  BY <1>4 DEF dirserver_tick, CountDown, ReadersAreTold, TypeOK, Entry
<1> QED BY <1>1, <1>2, <1>3, <1>4
  DEF Next, Start, Stop, dirclient_tick, SetClasses, registerServices,
      removeServices, Lose, dirserver_announce, vars, client, server

\* DInv is inductive.
THEOREM DirectoryInvariance == Spec => []DInv
<1>1. Init => DInv
  BY InitInv
<1>2. DInv /\ [Next]_vars => DInv'
  BY TypeStep, DyingStep DEF DInv
<1> QED BY <1>1, <1>2, PTL DEF Spec

\* Every variable keeps its type, time to live and clocks their bounds.
THEOREM DirectoryTyped == Spec => []TypeOK
<1>1. DInv => TypeOK
  BY DEF DInv
<1> QED BY <1>1, DirectoryInvariance, PTL

\* What ubd stopped announcing is dropped after dirttl + Delay ticks.
THEOREM WithdrawnDropped == Spec => []WithdrawnIsDropped
<1>1. DInv => WithdrawnIsDropped
  <2> SUFFICES ASSUME DInv, NEW k \in Keys, ~Announced(k), since[k] >= Gone,
                      table[k] # NULL
               PROVE  FALSE
      BY DEF WithdrawnIsDropped
  <2>1. table[k].ttl \in Nat \ {0} /\ since[k] \in Nat
    BY Bounds DEF DInv, TypeOK, Entry
  <2>2. since[k] + table[k].ttl <= Gone
    BY DEF DInv, Dying, DyingAt
  <2> QED BY <2>1, <2>2, Bounds
<1> QED BY <1>1, DirectoryInvariance, PTL

\* Who reads the list at every announcement knows every listed service.
THEOREM ReadersTold == Spec => []ReadersAreTold
<1>1. Init => ReadersAreTold
  BY DEF Init, ReadersAreTold
<1>2. TypeOK /\ ReadersAreTold /\ [Next]_vars => ReadersAreTold'
  BY ReadersStep
<1> QED BY <1>1, <1>2, DirectoryTyped, PTL DEF Spec

-----------------------------------------------------------------------------
(* Living: what is announced is listed *)

\* ubd runs when it announces something, and announces one url.
OneUrl == \A s \in Slots : services[s] # NULL => up /\ services[s].url = url

\* How long ago the last announcement but j was due.
Sent(j) == Period - due + j * Period

\* How long, as far as the list tells, nothing of what is announced under k
\* has arrived.  Before since[k] = Delay an old datagram may undo an arrival.
Elapsed(k) ==
  IF /\ table[k] # NULL /\ table[k].url = url
     /\ dirttl - table[k].ttl < since[k] - Delay
    THEN dirttl - table[k].ttl ELSE since[k] - Delay

Underway(k, a) ==
  \E m \in net : m.cmd = "update-service" /\ m.key = k /\ ~m.arrived /\ m.age = a

\* The announcements of k since then that are lost.
Missing(k) == {j \in 0..Horizon : Sent(j) < Elapsed(k) /\ ~Underway(k, Sent(j))}

\* Withdrawals and what ubd announced before it was started again are older
\* than the clock of k, and no more announcements are missing than were lost.
LivingAt(k) ==
  /\ \A m \in net : m.key = k /\ (m.cmd = "delete-service" \/ m.url # url)
       => since[k] <= m.age
  /\ Cardinality(Missing(k)) <= lost[k]
Living == Gap < dirttl => \A k \in Keys : Announced(k) => LivingAt(k)

\* Multiples of a positive number, which the provers know little about.
LEMMA Multiples ==
  ASSUME NEW p \in Nat \ {0}, NEW j \in Nat
  PROVE  /\ j * p \in Nat /\ j <= j * p /\ (j + 1) * p = j * p + p
         /\ \A i \in Nat : i <= j => i * p <= j * p
<1>1. \A i \in Nat : i * p \in Nat /\ i <= i * p
  OBVIOUS
<1>2. (j + 1) * p = j * p + p
  OBVIOUS
<1>3. ASSUME NEW i \in Nat, i <= j PROVE i * p <= j * p
  <2>1. j - i \in Nat /\ (j - i) * p \in Nat
    BY <1>1, <1>3
  <2>2. (j - i) * p = j * p - i * p
    OBVIOUS
  <2> QED BY <1>1, <2>1, <2>2
<1> QED BY <1>1, <1>2, <1>3

\* Multiplying by a positive number is injective.
LEMMA Distinct ==
  ASSUME NEW p \in Nat \ {0}, NEW i \in Nat, NEW j \in Nat, i * p = j * p
  PROVE  i = j
<1>1. \A a, b \in Nat : a < b => a * p < b * p
  <2> SUFFICES ASSUME NEW a \in Nat, NEW b \in Nat, a < b PROVE a * p < b * p
    OBVIOUS
  <2>1. a + 1 \in Nat /\ a + 1 <= b
    OBVIOUS
  <2>2. (a + 1) * p = a * p + p /\ (a + 1) * p <= b * p /\ a * p \in Nat /\ b * p \in Nat
    BY <2>1, Multiples
  <2> QED BY <2>2
<1>2. i * p \in Nat /\ j * p \in Nat
  BY Multiples
<1>3. ~(i < j)
  BY <1>1, <1>2
<1>4. ~(j < i)
  BY <1>1, <1>2
<1> QED BY <1>3, <1>4

\* Division with a remainder.
LEMMA Quotient ==
  ASSUME NEW p \in Nat \ {0}, NEW d \in Nat
  PROVE  \E q \in Nat : q * p <= d /\ d < q * p + p
<1> DEFINE T == {q \in Nat : d < q * p + p}
<1>1. d \in T
  <2>1. d <= d * p
    BY Multiples
  <2> QED BY <2>1
<1>2. PICK q \in T : \A m \in T : ~(m < q)
  BY <1>1, LeastMember
<1>3. CASE q = 0
  BY <1>2, <1>3
<1>4. CASE q # 0
  <2>1. q - 1 \in Nat /\ q - 1 < q /\ q - 1 \notin T
    BY <1>2, <1>4
  <2>2. ((q - 1) + 1) * p = (q - 1) * p + p /\ (q - 1) + 1 = q
    BY <1>4, Multiples, <2>1
  <2>3. q * p <= d
    BY <2>1, <2>2, Multiples
  <2> QED BY <1>2, <2>3
<1> QED BY <1>3, <1>4

\* The numbers an invariant is about.
Numbers(k) ==
  /\ due \in 0..Period /\ since[k] \in 0..Horizon /\ lost[k] \in 0..MaxLost
  /\ table[k] # NULL => table[k].ttl \in 1..dirttl
  /\ Elapsed(k) \in Int /\ Elapsed(k) <= since[k] - Delay /\ Elapsed(k) <= Horizon
  /\ \A j \in Nat : j * Period \in Nat /\ Sent(j) \in Nat /\ j <= Sent(j)
                    /\ Sent(j + 1) = Sent(j) + Period
  /\ IsFiniteSet(Missing(k)) /\ Cardinality(Missing(k)) \in Nat

AllNumbers == \A k \in Keys : Numbers(k)

\* They follow from the types.
LEMMA NumbersOK == TypeOK => AllNumbers
<1> SUFFICES ASSUME TypeOK, NEW k \in Keys PROVE Numbers(k)
  BY DEF AllNumbers
<1>1. due \in 0..Period /\ since[k] \in 0..Horizon /\ lost[k] \in 0..MaxLost
  BY DEF TypeOK
<1>2. table[k] # NULL => table[k].ttl \in 1..dirttl
  BY DEF TypeOK, Entry
<1>3. Elapsed(k) \in Int /\ Elapsed(k) <= since[k] - Delay /\ Elapsed(k) <= Horizon
  BY <1>1, <1>2, Bounds DEF Elapsed
<1>4. ASSUME NEW j \in Nat
      PROVE  j * Period \in Nat /\ Sent(j) \in Nat /\ j <= Sent(j)
             /\ Sent(j + 1) = Sent(j) + Period
  BY <1>1, Multiples DEF Sent
<1>5. IsFiniteSet(Missing(k)) /\ Cardinality(Missing(k)) \in Nat
  <2>1. 0 \in Int /\ Horizon \in Int
    BY Bounds
  <2>2. IsFiniteSet(0..Horizon)
    BY <2>1, FS_Interval
  <2>3. Missing(k) \in SUBSET (0..Horizon)
    BY DEF Missing
  <2> QED BY <2>2, <2>3, FS_Subset, FS_CardinalityType
<1> QED BY <1>1, <1>2, <1>3, <1>4, <1>5 DEF Numbers

\* The same of the next state.
LEMMA NumbersNext == TypeOK' => AllNumbers'
BY NumbersOK, PTL

\* No more than MaxLost announcements are missing, so one has arrived.
LEMMA ElapsedBounded ==
  ASSUME TypeOK, NEW k \in Keys, NEW d \in Int, due + d \in Nat,
         Cardinality(Missing(k)) <= lost[k], \A m \in net : m.age <= d
  PROVE  Elapsed(k) <= (MaxLost + 1) * Period + d
<1> SUFFICES ASSUME Elapsed(k) > (MaxLost + 1) * Period + d PROVE FALSE
  BY Multiples, NumbersOK DEF AllNumbers, Numbers
<1>1. Numbers(k)
  BY NumbersOK DEF AllNumbers
<1>2. PICK q \in Nat : q * Period <= due + d /\ due + d < q * Period + Period
  BY Quotient
<1>3. ASSUME NEW j \in q..q + MaxLost PROVE j \in Missing(k)
  <2>1. PICK i \in 0..MaxLost : j = q + i
    <3>1. j - q \in 0..MaxLost /\ j = q + (j - q)
      BY <1>3
    <3> QED BY <3>1
  <2>2. j * Period = q * Period + i * Period
    BY <2>1
  <2>3. /\ i * Period \in Nat /\ i * Period <= MaxLost * Period /\ q * Period \in Nat
        /\ (MaxLost + 1) * Period = MaxLost * Period + Period /\ MaxLost * Period \in Nat
    BY Multiples
  <2>4. Sent(j) = Period - due + q * Period + i * Period
    BY <1>1, <2>2, <2>3 DEF Sent, Numbers
  <2>5. due \in Nat
    BY <1>1 DEF Numbers
  <2>6. Sent(j) > d /\ Sent(j) <= (MaxLost + 1) * Period + d
    BY <1>2, <2>3, <2>4, <2>5
  <2>7. j \in Nat /\ j <= Sent(j) /\ Sent(j) \in Nat
    BY <1>1 DEF Numbers
  <2>8. Sent(j) < Elapsed(k) /\ j \in 0..Horizon
    <3>1. (MaxLost + 1) * Period \in Int
      BY <2>3
    <3> QED BY <1>1, <2>6, <2>7, <3>1, Bounds DEF Numbers
  <2>9. ~Underway(k, Sent(j))
    <3>1. ASSUME NEW m \in net, m.age = Sent(j) PROVE FALSE
      BY <2>6, <2>7, <3>1
    <3> QED BY <3>1 DEF Underway
  <2> QED BY <2>8, <2>9 DEF Missing
<1>4. Cardinality(q..q + MaxLost) = MaxLost + 1
  <2>1. q \in Int /\ q + MaxLost \in Int /\ ~(q > q + MaxLost) /\ (q + MaxLost) - q + 1 = MaxLost + 1
    OBVIOUS
  <2> QED BY <2>1, FS_Interval
<1>5. Cardinality(q..q + MaxLost) <= Cardinality(Missing(k))
  <2>1. q..q + MaxLost \in SUBSET Missing(k)
    BY <1>3
  <2>2. IsFiniteSet(Missing(k))
    BY <1>1 DEF Numbers
  <2> QED BY <2>1, <2>2, FS_Subset
<1>6. Cardinality(Missing(k)) \in Nat /\ lost[k] \in 0..MaxLost
  BY <1>1 DEF Numbers
<1> QED BY <1>4, <1>5, <1>6

\* Nothing is missing before since[k] has passed Delay, or when an announcement
\* has just arrived.
NoneMissing == \A k \in Keys : Elapsed(k) <= 0 => Cardinality(Missing(k)) <= lost[k]

\* Now, and in the next state.
LEMMA NoneMissingNow == TypeOK => NoneMissing
<1> SUFFICES ASSUME TypeOK, NEW k \in Keys, Elapsed(k) <= 0
             PROVE  Cardinality(Missing(k)) <= lost[k]
  BY DEF NoneMissing
<1>1. Numbers(k)
  BY NumbersOK DEF AllNumbers
<1>2. Missing(k) = {}
  BY <1>1, Bounds DEF Missing, Numbers
<1> QED BY <1>1, <1>2, FS_EmptySet DEF Numbers

\* NoneMissing, in the next state.
LEMMA NoneMissingNext == TypeOK' => NoneMissing'
BY NoneMissingNow, PTL

\* The clock of k is set back.
LEMMA LivingReset ==
  ASSUME TypeOK', NEW k \in Keys, NEW ks, k \in ks, Reset(ks)
  PROVE  LivingAt(k)'
<1>1. since'[k] = 0
  BY DEF Reset
<1>2. Elapsed(k)' <= 0
  <2>1. Numbers(k)'
    BY NumbersNext DEF AllNumbers
  <2> QED BY <1>1, <2>1 DEF Numbers
<1>3. \A m \in net' : m.age \in Nat
  BY DEF TypeOK, Datagram
<1> QED BY <1>1, <1>2, <1>3, NoneMissingNext DEF NoneMissing, LivingAt

\* Nothing changes for k but that something is sent, or a copy disappears.
LEMMA LivingSame ==
  ASSUME TypeOK, NEW k \in Keys, LivingAt(k),
         table'[k] = table[k], since'[k] = since[k], lost'[k] = lost[k],
         url' = url, due' = due,
         \A m \in net' : m.key = k /\ (m.cmd = "delete-service" \/ m.url # url) => m \in net,
         \A m \in net : m.cmd = "update-service" /\ m.key = k /\ ~m.arrived => m \in net'
  PROVE  LivingAt(k)'
<1>1. Missing(k)' \in SUBSET Missing(k)
  BY DEF Missing, Sent, Elapsed, Underway
<1>2. Numbers(k)
  BY NumbersOK DEF AllNumbers
<1>3. Cardinality(Missing(k)') <= Cardinality(Missing(k)) /\ Cardinality(Missing(k)') \in Nat
  BY <1>1, <1>2, FS_Subset, FS_CardinalityType DEF Numbers
<1>4. Cardinality(Missing(k)') <= lost'[k]
  BY <1>2, <1>3 DEF LivingAt, Numbers
<1> QED BY <1>4 DEF LivingAt

\* A key that starts being announced is touched.
LEMMA StartsTouched ==
  ASSUME NEW k \in Keys, ~Announced(k), Announced(k)'
  PROVE  k \in Touched
<1>1. PICK s \in Slots : services'[s] # NULL /\ services'[s].key = k
  BY DEF Announced
<1>2. services'[s] # services[s]
  BY <1>1 DEF Announced
<1> QED BY <1>1, <1>2 DEF Touched

\* ubd announces its present configuration.
LEMMA OneUrlStep == TypeOK /\ OneUrl /\ [Next]_vars => OneUrl'
<1> SUFFICES ASSUME TypeOK, OneUrl, [Next]_vars, NEW s \in Slots, services'[s] # NULL
             PROVE  up' /\ services'[s].url = url'
  BY DEF OneUrl
<1>1. CASE Start
  BY <1>1 DEF Start, GroupService
<1>2. CASE Stop
  BY <1>2 DEF Stop
<1>3. ASSUME NEW n \in Nodes, registerServices(n) PROVE up' /\ services'[s].url = url'
  BY <1>3 DEF registerServices, NodeService, OneUrl
<1>4. ASSUME NEW n \in Nodes, removeServices(n) PROVE up' /\ services'[s].url = url'
  BY <1>4 DEF removeServices, AfterRemoval, OneUrl
<1>5. CASE UNCHANGED <<up, url, services>>
  BY <1>5 DEF OneUrl
<1> QED BY <1>1, <1>2, <1>3, <1>4, <1>5
  DEF Next, dirclient_tick, SetClasses, dirserver_read, Lose, dirserver_announce,
      RestartServer, dirserver_tick, vars, client

\* dirclient_tick: the announcements move up by one, and the new one is sent.
LEMMA LivingTicked ==
  ASSUME TypeOK, TypeOK', OneUrl, NEW k \in Keys, Announced(k), LivingAt(k),
         dirclient_tick
  PROVE  LivingAt(k)'
<1>1. Numbers(k) /\ Numbers(k)'
  BY NumbersOK, NumbersNext DEF AllNumbers
<1>2. /\ UNCHANGED <<client, server, since, lost, changes>>
      /\ due = 0 /\ due' = Period
  BY DEF dirclient_tick
<1>3. Elapsed(k)' = Elapsed(k)
  BY <1>2 DEF Elapsed, client, server
<1>4. Underway(k, 0)'
  <2>1. PICK s \in Slots : services[s] # NULL /\ services[s].key = k
    BY DEF Announced
  <2>2. Update(services[s]) \in net'
    BY <2>1 DEF dirclient_tick, Send
  <2> QED BY <2>1, <2>2 DEF Update, Underway
<1>5. Sent(0)' = 0
  BY <1>2, Multiples DEF Sent
<1>6. ASSUME NEW j \in Missing(k)'
      PROVE  j \in Nat \ {0} /\ j - 1 \in Missing(k)
  <2>1. j \in 0..Horizon /\ Sent(j)' < Elapsed(k)' /\ ~Underway(k, Sent(j))'
    BY DEF Missing
  <2>2. j # 0
    BY <1>4, <1>5, <2>1
  <2>3. j \in Nat \ {0} /\ j - 1 \in Nat /\ j - 1 \in 0..Horizon
    BY <2>1, <2>2, Bounds
  <2>4. Sent(j)' = j * Period /\ Sent(j - 1) = Period + (j - 1) * Period
    BY <1>2, Multiples, <2>3 DEF Sent
  <2>5. ((j - 1) + 1) * Period = (j - 1) * Period + Period
        /\ (j - 1) * Period \in Nat /\ (j - 1) + 1 = j
    BY <2>3, Multiples
  <2>6. Sent(j - 1) = Sent(j)'
    BY <2>4, <2>5
  <2>7. ~Underway(k, Sent(j - 1))
    BY <2>1, <2>6 DEF Underway, dirclient_tick, Send
  <2> QED BY <1>3, <2>1, <2>3, <2>6, <2>7 DEF Missing
<1>7. Cardinality(Missing(k)') <= Cardinality(Missing(k))
  <2> DEFINE S == Missing(k)'
             T == Missing(k)
             f == [j \in S |-> j - 1]
  <2>1. IsFiniteSet(T)
    BY <1>1 DEF Numbers
  <2>2. f \in [S -> T] /\ \A a, b \in S : f[a] = f[b] => a = b
    BY <1>6
  <2> HIDE DEF S, T, f
  <2>3. f \in Injection(S, T)
    BY <2>2, Fun_IsInj
  <2>4. Cardinality(S) <= Cardinality(T)
    BY <2>1, <2>3, FS_Injection
  <2> QED BY <2>4 DEF S, T
<1>8. Cardinality(Missing(k)') <= lost'[k]
  BY <1>1, <1>2, <1>7 DEF LivingAt, Numbers
<1>9. ASSUME NEW m \in net', m.key = k, m.cmd = "delete-service" \/ m.url # url'
      PROVE  since'[k] <= m.age
  <2>1. m \in net
    BY <1>9, <1>2 DEF dirclient_tick, Send, Update, OneUrl, client
  <2> QED BY <1>2, <1>9, <2>1 DEF LivingAt, client
<1> QED BY <1>8, <1>9 DEF LivingAt

\* dirserver_read: what arrives is the announcement of k, or was sent before
\* the last change of k, or is about another key.
LEMMA LivingRead ==
  ASSUME TypeOK, TypeOK', NEW k \in Keys, LivingAt(k), NEW m \in net, dirserver_read(m)
  PROVE  LivingAt(k)'
<1>1. Numbers(k) /\ Numbers(k)'
  BY NumbersOK, NumbersNext DEF AllNumbers
<1>2. UNCHANGED <<client, replies, due, since, changes>>
  BY DEF dirserver_read
<1>3. m \in Datagram /\ m.age \in 0..Delay /\ m.key \in Keys
  BY DEF TypeOK, Datagram
<1>4. net' \subseteq net \cup {[m EXCEPT !.arrived = TRUE]}
  BY DEF dirserver_read
<1>5. ASSUME NEW l \in net', l.key = k, l.cmd = "delete-service" \/ l.url # url'
      PROVE  since'[k] <= l.age
  <2>1. CASE l \in net
    BY <1>2, <1>5, <2>1 DEF LivingAt, client
  <2>2. CASE l = [m EXCEPT !.arrived = TRUE]
    <3>1. l.cmd = m.cmd /\ l.key = m.key /\ l.age = m.age
          /\ (m.cmd = "update-service" => l.url = m.url)
      BY <1>3, <2>2 DEF Datagram
    <3>2. m.cmd = "delete-service" \/ m.url # url
      BY <1>2, <1>3, <1>5, <3>1 DEF client, Datagram
    <3> QED BY <1>2, <1>5, <3>1, <3>2 DEF LivingAt, client
  <2> QED BY <1>4, <2>1, <2>2
<1>6. CASE m.key # k
  <2>1. table'[k] = table[k] /\ lost'[k] = lost[k]
    BY <1>6 DEF dirserver_read, updateServiceCmd, deleteServiceCmd, TypeOK
  <2>2. ASSUME NEW l \in net, l.cmd = "update-service", l.key = k, ~l.arrived
        PROVE  l \in net'
    BY <1>6, <2>2 DEF dirserver_read
  <2>3. \A a : Underway(k, a) => Underway(k, a)'
    BY <2>2 DEF Underway
  <2>4. Missing(k)' \in SUBSET Missing(k)
    <3>1. Elapsed(k)' = Elapsed(k)
      BY <1>2, <2>1 DEF Elapsed, client
    <3>2. \A j \in 0..Horizon : Sent(j)' = Sent(j)
      BY <1>2 DEF Sent
    <3> QED BY <2>3, <3>1, <3>2 DEF Missing
  <2>5. IsFiniteSet(Missing(k))
    BY <1>1 DEF Numbers
  <2>6. Cardinality(Missing(k)') <= Cardinality(Missing(k))
    BY <2>4, <2>5, FS_Subset
  <2>7. Cardinality(Missing(k)') <= lost'[k]
    BY <1>1, <2>1, <2>6 DEF LivingAt, Numbers
  <2> QED BY <1>5, <2>7 DEF LivingAt
<1>7. CASE m.key = k
  <2>1. Elapsed(k)' <= 0
    <3>1. CASE m.cmd = "update-service" /\ m.url = url
      <4>1. table'[k] = [url |-> url, ttl |-> dirttl]
        BY <1>3, <1>7, <3>1 DEF dirserver_read, updateServiceCmd, Renewed, TypeOK
      <4>2. table'[k] # NULL /\ table'[k].url = url' /\ table'[k].ttl = dirttl
        BY <1>1, <1>2, <4>1 DEF client, TypeOK, Entry
      <4> QED BY <1>1, <1>2, <4>2 DEF Elapsed, Numbers
    <3>2. CASE ~(m.cmd = "update-service" /\ m.url = url)
      <4>1. since[k] <= m.age
        BY <1>3, <1>7, <3>2 DEF LivingAt, Datagram
      <4> QED BY <1>1, <1>2, <1>3, <4>1 DEF Numbers
    <3> QED BY <3>1, <3>2
  <2> QED BY <1>5, <2>1, NoneMissingNext DEF NoneMissing, LivingAt
<1> QED BY <1>6, <1>7

\* Lose: one more is missing, and counted, or nothing is missing for it.
LEMMA LivingLost ==
  ASSUME TypeOK, TypeOK', NEW k \in Keys, LivingAt(k), NEW m \in net, Lose(m)
  PROVE  LivingAt(k)'
<1>1. Numbers(k) /\ Numbers(k)'
  BY NumbersOK, NumbersNext DEF AllNumbers
<1>2. UNCHANGED <<client, server, due, since, changes>> /\ net' = net \ {m}
  BY DEF Lose
<1>3. \A l \in net' : l.key = k /\ (l.cmd = "delete-service" \/ l.url # url') => l \in net
  BY <1>2
<1>4. Elapsed(k)' = Elapsed(k) /\ \A j \in 0..Horizon : Sent(j)' = Sent(j)
  BY <1>2 DEF Elapsed, Sent, client, server
<1>5. CASE m.arrived \/ m.cmd # "update-service" \/ m.key # k
  <2>1. lost'[k] = lost[k]
    BY <1>5 DEF Lose, TypeOK, Datagram
  <2>2. \A l \in net : l.cmd = "update-service" /\ l.key = k /\ ~l.arrived => l \in net'
    BY <1>2, <1>5
  <2> QED BY <1>2, <1>3, <2>1, <2>2, LivingSame DEF client, server
<1>6. CASE ~m.arrived /\ m.cmd = "update-service" /\ m.key = k
  <2>1. lost'[k] = lost[k] + 1
    BY <1>6 DEF Lose, TypeOK
  <2>2. PICK x : \A j \in Missing(k)' : j \notin Missing(k) => j = x
    <3>1. \A j \in Missing(k)' : j \notin Missing(k) => j \in Nat /\ Sent(j) = m.age
      <4> SUFFICES ASSUME NEW j \in Missing(k)', j \notin Missing(k)
                   PROVE  j \in Nat /\ Sent(j) = m.age
        OBVIOUS
      <4>1. j \in 0..Horizon /\ Sent(j) < Elapsed(k) /\ ~Underway(k, Sent(j))'
        BY <1>4 DEF Missing
      <4>2. Underway(k, Sent(j))
        BY <4>1 DEF Missing
      <4>3. Sent(j)' = Sent(j)
        BY <1>4, <4>1
      <4> QED BY <1>2, <4>1, <4>2, <4>3, Bounds DEF Underway
    <3>2. \A i, j \in Nat : Sent(i) = Sent(j) => i = j
      <4> SUFFICES ASSUME NEW i \in Nat, NEW j \in Nat, Sent(i) = Sent(j) PROVE i = j
        OBVIOUS
      <4>1. i * Period \in Nat /\ j * Period \in Nat /\ due \in Int
        BY <1>1 DEF Numbers
      <4>2. i * Period = j * Period
        BY <4>1 DEF Sent
      <4> QED BY <4>2, Distinct
    <3>3. CASE \E x \in Missing(k)' : x \notin Missing(k)
      BY <3>1, <3>2, <3>3
    <3> QED BY <3>3
  <2>3. Missing(k)' \in SUBSET (Missing(k) \cup {x})
    BY <2>2
  <2>4. IsFiniteSet(Missing(k)) /\ Cardinality(Missing(k)) \in Nat
    BY <1>1 DEF Numbers
  <2>5. /\ IsFiniteSet(Missing(k) \cup {x})
        /\ Cardinality(Missing(k) \cup {x}) =
             IF x \in Missing(k) THEN Cardinality(Missing(k)) ELSE Cardinality(Missing(k)) + 1
    BY <2>4, FS_AddElement
  <2>6. Cardinality(Missing(k)') <= Cardinality(Missing(k) \cup {x})
    BY <2>3, <2>5, FS_Subset
  <2>7. Cardinality(Missing(k)') <= lost'[k]
    BY <1>1, <2>1, <2>4, <2>5, <2>6 DEF LivingAt, Numbers
  <2> QED BY <1>2, <1>3, <2>7 DEF LivingAt, client
<1> QED BY <1>5, <1>6

\* dirserver_tick: a second passes for the announcements and for the list.
LEMMA LivingCounted ==
  ASSUME TypeOK, TypeOK', OneUrl, Gap < dirttl, NEW k \in Keys, Announced(k),
         LivingAt(k), dirserver_tick
  PROVE  LivingAt(k)'
<1>1. Numbers(k) /\ Numbers(k)'
  BY NumbersOK, NumbersNext DEF AllNumbers
<1>2. up /\ due > 0 /\ due' = due - 1
  BY DEF Announced, OneUrl, dirserver_tick
<1>3. /\ UNCHANGED <<client, told, replies, lost, changes>>
      /\ table'[k] = CountDown(table[k]) /\ net' = {Aged(m) : m \in net}
      /\ \A m \in net : m.age < Delay
      /\ since'[k] = IF since[k] < Horizon THEN since[k] + 1 ELSE since[k]
  BY DEF dirserver_tick
<1>4. \A m \in net : m \in Datagram /\ m.age \in 0..Delay
  BY DEF TypeOK, Datagram
<1>5. \A m \in net : m.age <= Delay - 1
  BY <1>3, <1>4
<1>6. Elapsed(k) <= Gap - 1 /\ Gap \in Nat
  <2>1. Elapsed(k) <= (MaxLost + 1) * Period + (Delay - 1)
    <3>1. Delay - 1 \in Int /\ due + (Delay - 1) \in Nat
      BY <1>1, <1>2 DEF Numbers
    <3>2. Cardinality(Missing(k)) <= lost[k]
      BY DEF LivingAt
    <3> QED BY <1>5, <3>1, <3>2, ElapsedBounded
  <2>2. (MaxLost + 1) * Period \in Nat
    BY Multiples
  <2> QED BY <1>1, <2>1, <2>2 DEF Gap, Numbers
<1>7. Elapsed(k)' <= Elapsed(k) + 1
  <2>1. since'[k] <= since[k] + 1 /\ since[k] \in Nat /\ since'[k] \in Nat
    BY <1>1, <1>3, Bounds DEF Numbers
  <2>2. CASE table[k] # NULL /\ table[k].url = url /\ dirttl - table[k].ttl < since[k] - Delay
    <3>1. Elapsed(k) = dirttl - table[k].ttl /\ table[k].ttl \in 1..dirttl
      BY <1>1, <2>2 DEF Elapsed, Numbers
    <3>2. table[k].ttl # 1
      BY <1>6, <3>1
    <3>3. table'[k] # NULL /\ table'[k].url = url' /\ table'[k].ttl = table[k].ttl - 1
      <4>1. table[k] \in Entry
        BY <2>2 DEF TypeOK
      <4>2. table'[k] = [table[k] EXCEPT !.ttl = @ - 1]
        BY <1>3, <2>2, <3>2 DEF CountDown
      <4>3. table'[k] = [url |-> table[k].url, ttl |-> table[k].ttl - 1]
        BY <4>1, <4>2 DEF Entry
      <4>4. table'[k] \in [url : Urls, ttl : 1..dirttl]
        BY <3>1, <3>2, <4>1, <4>3 DEF Entry
      <4> QED BY <1>3, <2>2, <4>3, <4>4 DEF client
    <3> QED BY <2>1, <3>1, <3>3 DEF Elapsed
  <2>3. CASE ~(table[k] # NULL /\ table[k].url = url /\ dirttl - table[k].ttl < since[k] - Delay)
    <3>1. Elapsed(k) = since[k] - Delay
      BY <2>3 DEF Elapsed
    <3> QED BY <1>1, <2>1, <3>1 DEF Numbers
  <2> QED BY <2>2, <2>3
<1>8. \A j \in Nat : Sent(j)' = Sent(j) + 1
  BY <1>1, <1>2 DEF Sent, Numbers
<1>9. ASSUME NEW j \in Missing(k)' PROVE j \in Missing(k)
  <2>1. j \in 0..Horizon /\ Sent(j)' < Elapsed(k)' /\ ~Underway(k, Sent(j))'
    BY DEF Missing
  <2>2. j \in Nat /\ Sent(j) \in Nat
    BY <1>1, <2>1, Bounds DEF Numbers
  <2>3. Sent(j) < Elapsed(k)
    BY <1>1, <1>7, <1>8, <2>1, <2>2 DEF Numbers
  <2>4. ASSUME Underway(k, Sent(j)) PROVE FALSE
    <3>1. PICK m \in net : m.cmd = "update-service" /\ m.key = k /\ ~m.arrived /\ m.age = Sent(j)
      BY <2>4 DEF Underway
    <3>2. Aged(m) \in net'
      BY <1>3
    <3>3. /\ Aged(m).cmd = "update-service" /\ Aged(m).key = k /\ ~Aged(m).arrived
          /\ Aged(m).age = Sent(j)'
      BY <1>4, <1>8, <2>2, <3>1 DEF Aged, Datagram
    <3> QED BY <2>1, <3>2, <3>3 DEF Underway
  <2> QED BY <2>1, <2>3, <2>4 DEF Missing
<1>10. Cardinality(Missing(k)') <= lost'[k]
  <2>1. Missing(k)' \in SUBSET Missing(k) /\ IsFiniteSet(Missing(k))
    BY <1>1, <1>9 DEF Numbers
  <2>2. Cardinality(Missing(k)') <= Cardinality(Missing(k))
    BY <2>1, FS_Subset
  <2> QED BY <1>1, <1>3, <2>2 DEF LivingAt, Numbers
<1>11. ASSUME NEW l \in net', l.key = k, l.cmd = "delete-service" \/ l.url # url'
       PROVE  since'[k] <= l.age
  <2>1. PICK m \in net : l = Aged(m)
    BY <1>3
  <2>2. l.cmd = m.cmd /\ l.key = m.key /\ l.age = m.age + 1
        /\ (m.cmd = "update-service" => l.url = m.url)
    BY <1>4, <2>1 DEF Aged, Datagram
  <2>3. m.cmd = "delete-service" \/ m.url # url
    BY <1>3, <1>4, <1>11, <2>2 DEF client, Datagram
  <2>4. since[k] <= m.age
    BY <1>11, <2>2, <2>3 DEF LivingAt
  <2> QED BY <1>1, <1>3, <1>4, <2>2, <2>4 DEF Numbers
<1> QED BY <1>10, <1>11 DEF LivingAt

\* What is announced stays alive in every step.
LEMMA LivingStep ==
  TypeOK /\ TypeOK' /\ OneUrl /\ Living /\ [Next]_vars => Living'
<1> SUFFICES ASSUME TypeOK, TypeOK', OneUrl, Living, [Next]_vars, Gap < dirttl,
                    NEW k \in Keys, Announced(k)'
             PROVE  LivingAt(k)'
  BY DEF Living
<1>0. /\ Announced(k) => LivingAt(k)
      /\ services' = services => Announced(k)
  BY DEF Living, Announced
<1>1. CASE Start
  BY <1>1, LivingReset DEF Start
<1>2. CASE Stop
  BY <1>2, LivingReset DEF Stop
<1>3. CASE dirclient_tick
  BY <1>3, <1>0, LivingTicked DEF dirclient_tick, client
<1>4. ASSUME NEW n \in Nodes, SetClasses(n) PROVE LivingAt(k)'
  BY <1>4, <1>0, LivingSame DEF SetClasses, server
<1>5. ASSUME NEW n \in Nodes, registerServices(n) PROVE LivingAt(k)'
  <2>1. CASE k \in Touched
    BY <1>5, <2>1, LivingReset DEF registerServices
  <2>2. CASE k \notin Touched
    <3>1. LivingAt(k)
      BY <1>0, <2>2, StartsTouched
    <3>2. since'[k] = since[k]
      BY <1>5, <2>2 DEF registerServices, Reset
    <3>3. \A m \in net' : m.key = k /\ (m.cmd = "delete-service" \/ m.url # url) => m \in net
      BY <1>5 DEF registerServices, Send, Update, NodeService
    <3>4. \A m \in net : m \in net'
      BY <1>5 DEF registerServices, Send
    <3> QED BY <1>5, <3>1, <3>2, <3>3, <3>4, LivingSame DEF registerServices, server
  <2> QED BY <2>1, <2>2
<1>6. ASSUME NEW n \in Nodes, removeServices(n) PROVE LivingAt(k)'
  <2> DEFINE ks == Touched \cup {<<n, classes[n][i]>> : i \in InUse(n)}
  <2>1. CASE k \in ks
    BY <1>6, <2>1, LivingReset DEF removeServices
  <2>2. CASE k \notin ks
    <3>1. LivingAt(k)
      BY <1>0, <2>2, StartsTouched
    <3>2. since'[k] = since[k]
      BY <1>6, <2>2 DEF removeServices, Reset
    <3>3. \A m \in net' : m.key = k /\ (m.cmd = "delete-service" \/ m.url # url) => m \in net
      BY <1>6, <2>2 DEF removeServices, Send, Delete
    <3>4. \A m \in net : m \in net'
      BY <1>6 DEF removeServices, Send
    <3> QED BY <1>6, <3>1, <3>2, <3>3, <3>4, LivingSame DEF removeServices, server
  <2> QED BY <2>1, <2>2
<1>7. ASSUME NEW m \in net, dirserver_read(m) PROVE LivingAt(k)'
  BY <1>7, <1>0, LivingRead DEF dirserver_read, client
<1>8. ASSUME NEW m \in net, Lose(m) PROVE LivingAt(k)'
  BY <1>8, <1>0, LivingLost DEF Lose, client
<1>9. CASE dirserver_announce
  BY <1>9, <1>0, LivingSame DEF dirserver_announce, client
<1>10. CASE RestartServer
  BY <1>10, LivingReset DEF RestartServer
<1>11. CASE dirserver_tick
  BY <1>11, <1>0, LivingCounted DEF dirserver_tick, client
<1>12. CASE UNCHANGED vars
  BY <1>12, <1>0, LivingSame DEF vars, client, server
<1> QED BY <1>1, <1>2, <1>3, <1>4, <1>5, <1>6, <1>7, <1>8, <1>9, <1>10, <1>11, <1>12 DEF Next

\* What ubd announces is listed: at most MaxLost announcements in a row are
\* lost, so one arrived less than Gap ticks ago, which is less than dirttl.
THEOREM AnnouncedListed == Spec => []AnnouncedIsListed
<1>1. Init => OneUrl /\ Living
  BY DEF Init, OneUrl, Living, Announced
<1>2. DInv /\ DInv' /\ OneUrl /\ Living /\ [Next]_vars => OneUrl' /\ Living'
  BY OneUrlStep, LivingStep DEF DInv
<1>3. DInv /\ OneUrl /\ Living => AnnouncedIsListed
  <2> SUFFICES ASSUME DInv, OneUrl, Living, Gap < dirttl, NEW s \in Slots,
                      services[s] # NULL, since[services[s].key] > Settled
               PROVE  LET k == services[s].key IN
                        table[k] # NULL /\ table[k].url = services[s].url
    BY DEF AnnouncedIsListed
  <2> DEFINE k == services[s].key
  <2>1. TypeOK /\ k \in Keys /\ services[s].url = url
    BY DEF DInv, OneUrl, TypeOK, Service
  <2>2. LivingAt(k)
    BY <2>1 DEF Living, Announced
  <2>3. Numbers(k)
    BY <2>1, NumbersOK DEF AllNumbers
  <2> HIDE DEF k
  <2>4. Elapsed(k) <= (MaxLost + 1) * Period + Delay
    <3>1. Delay \in Int /\ due + Delay \in Nat
      BY <2>3 DEF Numbers
    <3>2. \A m \in net : m.age <= Delay
      BY <2>1 DEF TypeOK, Datagram
    <3> QED BY <2>1, <2>2, <3>1, <3>2, ElapsedBounded DEF LivingAt
  <2>5. (MaxLost + 1) * Period \in Nat
    BY Multiples
  <2>6. Elapsed(k) <= Gap /\ Gap < since[k] - Delay
    BY <2>3, <2>4, <2>5 DEF Gap, Settled, Numbers, k
  <2> QED BY <2>1, <2>3, <2>5, <2>6 DEF Elapsed, Gap, k, Numbers
<1> QED BY <1>1, <1>2, <1>3, DirectoryInvariance, PTL DEF Spec
=============================================================================
