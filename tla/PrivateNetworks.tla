--------------------------- MODULE PrivateNetworks ---------------------------
(***************************************************************************)
(* Private networks, their peerings and the firewall between peered        *)
(* networks: api/src/handlers/private_networks.rs over the tables of       *)
(* private_network_repo.rs and the Docker calls of provisioner.rs.         *)
(*                                                                         *)
(* A private network is a row, and a Docker network made when the first    *)
(* database is attached.  A peering is a row, and a bridge a spawned task  *)
(* makes and connects the members of both networks to.  Nothing ties rows  *)
(* to Docker but the order in which handlers and tasks write them; a step  *)
(* is what happens between two awaits, but for the reads in a row and the  *)
(* loops over members when a bridge or network is taken down: one step.    *)
(*                                                                         *)
(* Members of Nets, Peerings and Dbs are row ids, used once.  Members of   *)
(* Calls are requests in progress.                                         *)
(***************************************************************************)
EXTENDS Integers, FiniteSets

CONSTANTS
  Dbs, Nets, Peerings,
  Rules,           \* firewall rules, as (content, id) of a peering
  Users, Calls,
  Servers,         \* remote docker servers
  Local,           \* the local docker daemon (docker_server_id is NULL)
  Owner,           \* user_id of databases and networks: never updated
  Host,            \* docker_server_id of databases: never updated
  Ends,            \* <<network_a_id, network_b_id>> of peerings
  MaxMembers,      \* MAX_MEMBERS_PER_NETWORK
  MaxNetworks,     \* MAX_NETWORKS_PER_USER
  MaxPeerings,     \* MAX_PEERINGS_PER_USER
  MaxRules,        \* MAX_RULES_PER_PEERING
  Doomed,          \* bound: databases and networks whose deletion is explored
  MaxDocks,        \* bound: Docker networks made for one private network
  MaxFaults        \* bound: failing calls and statements, and crashes

ASSUME NetworksAssumption ==
  /\ Local \notin Servers
  /\ {"unmade", "removed"} \cap (Servers \cup {Local}) = {}   \* see docks
  /\ Owner \in [Dbs \cup Nets -> Users]
  /\ Host \in [Dbs -> Servers \cup {Local}]
  /\ Ends \in [Peerings -> Nets \X Nets]
  /\ "none" \notin Rules
  /\ {MaxMembers, MaxNetworks, MaxPeerings, MaxRules} \subseteq Nat
  /\ MaxDocks \in Nat /\ MaxFaults \in Nat
  /\ IsFiniteSet(Calls) /\ Calls # {}

VARIABLES
  (* rows *)
  db,        \* database_instances: is it running, how far is its removal;
             \* "stuck", and "orphan" without a row, if its container was left
  net,       \* private_networks: "unborn", "live", "gone"
  server,    \* docker_server_id of a network, Local for NULL
  dock,      \* docker_network_id of a network, NoDock for NULL
  subnet,    \* subnet of a network, as the Docker network it is that of
  members,   \* private_network_members
  peer,      \* network_peerings: status, "unborn", "gone"
  pserver,   \* docker_server_id of a peering
  bridge,    \* docker_bridge_id of a peering is set
  rules,     \* firewall_rules of a peering
  (* Docker *)
  docks,     \* where a Docker network sb-pn-{id} exists, if anywhere
  joined,    \* containers connected to such networks: <<database, dock>>
  bridges,   \* peerings whose bridge sb-peer-{id} exists
  bridged,   \* containers connected to bridges: <<database, peering>>
  table,     \* the nftables table sb_peer_{id}: the rules it was made from,
  scope,     \* and the subnets of both networks it was made with
  (* control *)
  call,      \* the request in a slot
  task,      \* the task a create_peering spawned
  todo,      \* members that task has yet to connect
  faults,
  (* history *)
  disturbed, \* networks and peerings on which calls overlapped, a step
             \* failed, whose rows moved to another server, or that a member
             \* of both networks left by one
  outdated   \* peerings a network of which got its subnet after the rules
             \* were read last

netRows  == <<net, server, dock, subnet, members>>
peerRows == <<peer, pserver, bridge, rules>>
dockerNets == <<docks, joined>>
dockerPeer == <<bridges, bridged, table, scope, outdated>>
tasks == <<task, todo>>
vars == <<db, net, server, dock, subnet, members, peer, pserver, bridge, rules,
          docks, joined, bridges, bridged, table, scope, call, task, todo, faults,
          disturbed, outdated>>

NoDock == <<>>
None    == "none"
NoTable == {None}   \* there is no nftables table

Hosts   == Servers \cup {Local}
DockIds == Nets \X (1..MaxDocks)
Subnets == DockIds \cup {NoDock}   \* NoDock: NULL, which the rules have as 0.0.0.0/0
Anywhere == <<NoDock, NoDock>>

NetCalls  == {"attach", "detach", "drop"}
PeerCalls == {"unpeer", "allow", "revoke"}
Steps == {"found", "serve", "dock", "save", "subnet", "join", "add",
          "sync", "leave", "unbridge", "remove", "list", "peerings", "undock", "row",
          "insert", "read", "apply"}
TaskSteps == {"spawned", "made", "saved", "first", "second"}

(* A request: what it does, how far it is, its parameters, and its copies  *)
(* of docker_server_id, docker_network_id, subnets, status and other rows. *)
Idle == [op |-> None, at |-> None, n |-> None, d |-> None, p |-> None,
         r |-> None, host |-> Local, dock |-> NoDock, active |-> FALSE,
         list |-> {}, rules |-> {}, subnets |-> Anywhere]

CallType ==
  [op : {None, "create", "peer"} \cup NetCalls \cup PeerCalls,
   at : {None} \cup Steps, n : Nets \cup {None}, d : Dbs \cup {None},
   p : Peerings \cup {None}, r : Rules \cup {None}, host : Hosts,
   dock : DockIds \cup {NoDock}, active : BOOLEAN,
   list : SUBSET (Peerings \X BOOLEAN), rules : SUBSET Rules,
   subnets : Subnets \X Subnets]

TypeOK ==
  /\ db \in [Dbs -> {"running", "deleting", "detached", "removed", "stuck", "gone", "orphan"}]
  /\ net \in [Nets -> {"unborn", "live", "gone"}]
  /\ server \in [Nets -> Hosts]
  /\ dock \in [Nets -> DockIds \cup {NoDock}]
  /\ subnet \in [Nets -> Subnets]
  /\ members \in [Nets -> SUBSET Dbs]
  /\ peer \in [Peerings -> {"unborn", "pending", "active", "error", "gone"}]
  /\ pserver \in [Peerings -> Hosts]
  /\ bridge \in [Peerings -> BOOLEAN]
  /\ rules \in [Peerings -> SUBSET Rules]
  /\ docks \in [DockIds -> Hosts \cup {"unmade", "removed"}]
  /\ joined \subseteq Dbs \X DockIds
  /\ bridges \subseteq Peerings
  /\ bridged \subseteq Dbs \X Peerings
  /\ table \in [Peerings -> {NoTable} \cup SUBSET Rules]
  /\ scope \in [Peerings -> Subnets \X Subnets]
  /\ call \in [Calls -> CallType]
  /\ task \in [Peerings -> {None, "done", "lost"} \cup TaskSteps]
  /\ todo \in [Peerings -> SUBSET Dbs]
  /\ faults \in 0..MaxFaults
  /\ disturbed \subseteq Nets \cup Peerings /\ outdated \subseteq Peerings

Init ==
  /\ db = [d \in Dbs |-> "running"]
  /\ net = [n \in Nets |-> "unborn"]
  /\ server = [n \in Nets |-> Local]
  /\ dock = [n \in Nets |-> NoDock]
  /\ subnet = [n \in Nets |-> NoDock]
  /\ members = [n \in Nets |-> {}]
  /\ peer = [p \in Peerings |-> "unborn"]
  /\ pserver = [p \in Peerings |-> Local]
  /\ bridge = [p \in Peerings |-> FALSE]
  /\ rules = [p \in Peerings |-> {}]
  /\ docks = [i \in DockIds |-> "unmade"]
  /\ joined = {}
  /\ bridges = {}
  /\ bridged = {}
  /\ table = [p \in Peerings |-> NoTable]
  /\ scope = [p \in Peerings |-> Anywhere]
  /\ call = [c \in Calls |-> Idle]
  /\ task = [p \in Peerings |-> None]
  /\ todo = [p \in Peerings |-> {}]
  /\ faults = 0
  /\ disturbed = {} /\ outdated = {}

-----------------------------------------------------------------------------
(* What a request or a task works on, and the history of overlaps *)

PeerRow(p) == peer[p] \in {"pending", "active", "error"}
EndsOf(p)  == {Ends[p][1], Ends[p][2]}
PeeringsBy(u)  == {p \in Peerings : PeerRow(p) /\ Owner[Ends[p][1]] = u}
PeeringsOf(n) == {p \in Peerings : PeerRow(p) /\ n \in EndsOf(p)}

Uses(k) ==
  CASE k.op \in {"attach", "detach"} -> {k.n}
    [] k.op = "drop" ->
         {k.n} \cup PeeringsOf(k.n) \cup UNION {EndsOf(p) : p \in PeeringsOf(k.n)}
    [] k.op \in {"peer", "unpeer"} -> {k.p} \cup EndsOf(k.p)
    [] k.op \in {"allow", "revoke"} -> {k.p}
    [] OTHER -> {}

Working(p) == task[p] \in TaskSteps
TaskUses(p) == IF Working(p) THEN {p} \cup EndsOf(p) ELSE {}
InUse == (UNION {Uses(call[c]) : c \in Calls}) \cup (UNION {TaskUses(p) : p \in Peerings})

NoFault == UNCHANGED <<faults, disturbed>>
FaultOn(S) ==
  /\ faults < MaxFaults
  /\ faults' = faults + 1
  /\ disturbed' = disturbed \cup S

(* A request found the rows it is about, which belong to its user.         *)
Start(c, k) ==
  /\ call[c] = Idle
  /\ call' = [call EXCEPT ![c] = k]
  /\ disturbed' = disturbed \cup (Uses(k) \cap InUse)
  /\ UNCHANGED faults

Goto(c, step) == call' = [call EXCEPT ![c].at = step]
Finish(c) == call' = [call EXCEPT ![c] = Idle]
At(c, o, step) == call[c].op = o /\ call[c].at = step

(* An error that a `?` returns: the steps that are left are not taken.     *)
CallFails(c) ==
  /\ call[c] # Idle
  /\ FaultOn(Uses(call[c]))
  /\ Finish(c)
  /\ UNCHANGED <<db, netRows, peerRows, dockerNets, dockerPeer, tasks>>

-----------------------------------------------------------------------------
(* create_network *)

CountNetworks(c, n) ==
  /\ net[n] = "unborn"
  /\ \A e \in Calls : call[e].n # n
  /\ Cardinality({m \in Nets : net[m] = "live" /\ Owner[m] = Owner[n]}) < MaxNetworks
  /\ Start(c, [Idle EXCEPT !.op = "create", !.at = "insert", !.n = n])
  /\ UNCHANGED <<db, netRows, peerRows, dockerNets, dockerPeer, tasks>>

InsertNetwork(c) ==
  /\ At(c, "create", "insert")
  /\ net' = [net EXCEPT ![call[c].n] = "live"]
  /\ Finish(c)
  /\ NoFault
  /\ UNCHANGED <<db, server, dock, subnet, members, peerRows, dockerNets, dockerPeer, tasks>>

-----------------------------------------------------------------------------
(* Docker: connect_network, disconnect_network *)

HasContainer(d) == db[d] \in {"running", "deleting", "detached", "stuck", "orphan"}
HasRow(d) == db[d] \notin {"gone", "orphan"}

CanJoin(d, i, host) ==
  HasContainer(d) /\ Host[d] = host /\ docks[i] = host /\ <<d, i>> \notin joined

(* Those of dbs that a request to the docker of host takes off network i;  *)
(* their container_id is read first.                                       *)
Leaving(dbs, i, host) ==
  {<<d, i>> : d \in {e \in dbs : /\ HasRow(e) /\ HasContainer(e)
                                /\ Host[e] = host /\ docks[i] = host}}

CanBridge(d, p, host) ==
  HasContainer(d) /\ Host[d] = host /\ pserver[p] = host /\ p \in bridges

Unbridging(dbs, p, host) ==
  {<<d, p>> : d \in {e \in dbs : CanBridge(e, p, host)}}

-----------------------------------------------------------------------------
(* attach_database, detach_database, delete_network: the copy of the row   *)

FindNetwork(c, o, n, d) ==
  /\ net[n] = "live"
  /\ o = "drop" <=> d = None
  /\ o = "drop" => n \in Doomed
  /\ Start(c, [Idle EXCEPT !.op = o, !.at = "found", !.n = n, !.d = d,
                           !.host = server[n], !.dock = dock[n]])
  /\ UNCHANGED <<db, netRows, peerRows, dockerNets, dockerPeer, tasks>>

AttachableToAny(k) ==
  /\ db[k.d] = "running"
  /\ k.host # Local => Host[k.d] = k.host
  /\ k.d \notin members[k.n]
  /\ Cardinality(members[k.n]) < MaxMembers

AttachableUnlimited(k) ==
  /\ Owner[k.d] = Owner[k.n]
  /\ db[k.d] = "running"
  /\ k.host # Local => Host[k.d] = k.host
  /\ k.d \notin members[k.n]

(* The user owns both, the database runs, is on the network's server and   *)
(* no member yet, and the network is not full.                             *)
Attachable(k) ==
  /\ Owner[k.d] = Owner[k.n]
  /\ db[k.d] = "running"
  /\ k.host # Local => Host[k.d] = k.host
  /\ k.d \notin members[k.n]
  /\ Cardinality(members[k.n]) < MaxMembers

CheckDatabase(c) ==
  /\ At(c, "attach", "found")
  /\ \/ /\ Attachable(call[c])
        /\ Goto(c, IF call[c].host = Local /\ Host[call[c].d] # Local
                   THEN "serve" ELSE "dock")
     \/ ~Attachable(call[c]) /\ Finish(c)
  /\ NoFault
  /\ UNCHANGED <<db, netRows, peerRows, dockerNets, dockerPeer, tasks>>

(* The first database decides about the server of a network that has none. *)
(* One that has a Docker network keeps it where it is.                     *)
SetServer(c) ==
  LET k == call[c] IN
  /\ At(c, "attach", "serve")
  /\ server' = IF net[k.n] = "live" THEN [server EXCEPT ![k.n] = Host[k.d]] ELSE server
  /\ call' = [call EXCEPT ![c].at = "dock", ![c].host = Host[k.d]]
  /\ disturbed' = disturbed \cup (IF dock[k.n] = NoDock THEN {} ELSE {k.n})
  /\ UNCHANGED <<db, net, dock, subnet, members, peerRows, dockerNets, dockerPeer, tasks, faults>>

(* The network's Docker network is made when its copy of the row has none. *)
MakeDock(c) ==
  LET k == call[c] IN
  /\ At(c, "attach", "dock")
  /\ \/ /\ k.dock # NoDock
        /\ Goto(c, "join")
        /\ UNCHANGED docks
     \/ /\ k.dock = NoDock
        /\ \E j \in 1..MaxDocks :
             /\ docks[<<k.n, j>>] = "unmade"
             /\ \A i \in 1..(j - 1) : docks[<<k.n, i>>] # "unmade"
             /\ docks' = [docks EXCEPT ![<<k.n, j>>] = k.host]
             /\ call' = [call EXCEPT ![c].at = "save", ![c].dock = <<k.n, j>>]
  /\ NoFault
  /\ UNCHANGED <<db, netRows, peerRows, joined, dockerPeer, tasks>>

SaveDock(c) ==
  LET k == call[c] IN
  /\ At(c, "attach", "save")
  /\ dock' = IF net[k.n] = "live" THEN [dock EXCEPT ![k.n] = k.dock] ELSE dock
  /\ Goto(c, "subnet")
  /\ NoFault
  /\ UNCHANGED <<db, net, server, subnet, members, peerRows, dockerNets, dockerPeer, tasks>>

(* The rules and subnets for the firewall of p were read.                  *)
FirewallRead(p) ==
  table[p] # NoTable \/ \E e \in Calls : call[e].p = p /\ call[e].at = "apply"

(* The subnet is what inspecting the new Docker network gave, if anything. *)
(* The firewalls of the network's peerings are not made anew.              *)
SaveSubnet(c) ==
  LET n == call[c].n
      Save(s) == subnet' = IF net[n] = "live" THEN [subnet EXCEPT ![n] = s] ELSE subnet IN
  /\ At(c, "attach", "subnet")
  /\ \/ Save(call[c].dock) /\ NoFault
     \/ Save(NoDock) /\ FaultOn({})
  /\ outdated' = outdated \cup {p \in PeeringsOf(n) : FirewallRead(p)}
  /\ Goto(c, "join")
  /\ UNCHANGED <<db, net, server, dock, members, peerRows, dockerNets,
                 bridges, bridged, table, scope, tasks>>

Join(c) ==
  LET k == call[c] IN
  /\ At(c, "attach", "join")
  /\ \/ /\ CanJoin(k.d, k.dock, k.host)
        /\ joined' = joined \cup {<<k.d, k.dock>>}
        /\ Goto(c, "add")
     \/ /\ ~CanJoin(k.d, k.dock, k.host)
        /\ Finish(c)
        /\ UNCHANGED joined
  /\ NoFault
  /\ UNCHANGED <<db, netRows, peerRows, docks, dockerPeer, tasks>>

(* The INSERT needs both rows and refuses a second membership.             *)
AddMember(c) ==
  LET k == call[c]
      ok == net[k.n] = "live" /\ HasRow(k.d) /\ k.d \notin members[k.n] IN
  /\ At(c, "attach", "add")
  /\ \/ ok /\ members' = [members EXCEPT ![k.n] = @ \cup {k.d}] /\ Goto(c, "sync")
     \/ ~ok /\ Finish(c) /\ UNCHANGED members
  /\ NoFault
  /\ UNCHANGED <<db, net, server, dock, subnet, peerRows, dockerNets, dockerPeer, tasks>>

ActiveBridges(n) == {p \in PeeringsOf(n) : peer[p] = "active" /\ bridge[p]}

SyncNothing(c) ==
  /\ At(c, "attach", "sync")
  /\ Finish(c)
  /\ NoFault
  /\ UNCHANGED <<db, netRows, peerRows, dockerNets, dockerPeer, tasks>>

(* A member is connected to the bridges of active peerings only.           *)
SyncBridges(c) ==
  LET k == call[c] IN
  /\ At(c, "attach", "sync")
  /\ \/ /\ bridged' = bridged \cup
             {<<k.d, p>> : p \in {q \in ActiveBridges(k.n) : CanBridge(k.d, q, k.host)}}
        /\ NoFault
     \/ FaultOn({k.n} \cup ActiveBridges(k.n)) /\ UNCHANGED bridged
  /\ Finish(c)
  /\ UNCHANGED <<db, netRows, peerRows, dockerNets, bridges, table, scope, outdated, tasks>>

-----------------------------------------------------------------------------
(* detach_database *)

LeaveLocalNetwork(c) ==
  LET k == call[c] IN
  /\ At(c, "detach", "found")
  /\ joined' = IF k.dock = NoDock THEN joined ELSE joined \ Leaving({k.d}, k.dock, Local)
  /\ Goto(c, "unbridge")
  /\ NoFault
  /\ UNCHANGED <<db, netRows, peerRows, docks, dockerPeer, tasks>>

(* Nothing is asked of Docker for a network without one, or for a database *)
(* whose row is gone; an error of Docker is ignored.                       *)
Leave(c) ==
  LET k == call[c] IN
  /\ At(c, "detach", "found")
  /\ \/ /\ k.dock # NoDock /\ HasRow(k.d)
        /\ Goto(c, "unbridge")
        /\ \/ joined' = joined \ Leaving({k.d}, k.dock, k.host) /\ NoFault
           \/ FaultOn({k.n}) /\ UNCHANGED joined
     \/ /\ k.dock = NoDock \/ ~HasRow(k.d)
        /\ Goto(c, "remove")
        /\ NoFault
        /\ UNCHANGED joined
  /\ UNCHANGED <<db, netRows, peerRows, docks, dockerPeer, tasks>>

(* It leaves the bridges even if it is a member of the other network too.  *)
Unbridge(c) ==
  LET k == call[c]
      both == {p \in ActiveBridges(k.n) : \E m \in EndsOf(p) \ {k.n} : k.d \in members[m]} IN
  /\ At(c, "detach", "unbridge")
  /\ \/ /\ bridged' = bridged \ UNION {Unbridging({k.d}, p, k.host) : p \in ActiveBridges(k.n)}
        /\ disturbed' = disturbed \cup both
        /\ UNCHANGED faults
     \/ FaultOn({k.n} \cup ActiveBridges(k.n)) /\ UNCHANGED bridged
  /\ Goto(c, "remove")
  /\ UNCHANGED <<db, netRows, peerRows, dockerNets, bridges, table, scope, outdated, tasks>>

RemoveMember(c) ==
  /\ At(c, "detach", "remove")
  /\ members' = [members EXCEPT ![call[c].n] = @ \ {call[c].d}]
  /\ Finish(c)
  /\ NoFault
  /\ UNCHANGED <<db, net, server, dock, subnet, peerRows, dockerNets, dockerPeer, tasks>>

-----------------------------------------------------------------------------
(* create_peering and its task *)

SameServer(a, b) == server[a] = Local \/ server[b] = Local \/ server[a] = server[b]

(* Both networks belong to the user, are not on different servers and not  *)
(* peered yet, and the user may have another peering.                      *)
FindPair(c, p) ==
  LET a == Ends[p][1]
      b == Ends[p][2] IN
  /\ peer[p] = "unborn" /\ a # b
  /\ \A e \in Calls : call[e].p # p
  /\ net[a] = "live" /\ net[b] = "live" /\ Owner[a] = Owner[b]
  /\ SameServer(a, b)
  /\ \A q \in Peerings : PeerRow(q) => EndsOf(q) # EndsOf(p)
  /\ Cardinality(PeeringsBy(Owner[a])) < MaxPeerings
  /\ Start(c, [Idle EXCEPT !.op = "peer", !.at = "insert", !.p = p,
                           !.host = IF server[a] = Local THEN server[b] ELSE server[a]])
  /\ UNCHANGED <<db, netRows, peerRows, dockerNets, dockerPeer, tasks>>

(* The INSERT needs both networks and refuses a second row for the pair.   *)
InsertPeering(c) ==
  LET p == call[c].p
      ok == /\ \A n \in EndsOf(p) : net[n] = "live"
            /\ \A q \in Peerings : PeerRow(q) => EndsOf(q) # EndsOf(p) IN
  /\ At(c, "peer", "insert")
  /\ \/ /\ ok
        /\ peer' = [peer EXCEPT ![p] = "pending"]
        /\ pserver' = [pserver EXCEPT ![p] = call[c].host]
        /\ task' = [task EXCEPT ![p] = "spawned"]
     \/ ~ok /\ UNCHANGED <<peer, pserver, task>>
  /\ Finish(c)
  /\ NoFault
  /\ UNCHANGED <<db, netRows, bridge, rules, dockerNets, dockerPeer, todo>>

(* UPDATE network_peerings SET status: nothing when the row is gone.       *)
SetPeerStatus(p, s) ==
  /\ peer' = IF PeerRow(p) THEN [peer EXCEPT ![p] = s] ELSE peer
  /\ task' = [task EXCEPT ![p] = "done"]

MakeBridgeOrStop(p) ==
  /\ task[p] = "spawned"
  /\ \/ bridges' = bridges \cup {p} /\ task' = [task EXCEPT ![p] = "made"]
     \/ task' = [task EXCEPT ![p] = "done"] /\ UNCHANGED bridges
  /\ NoFault
  /\ UNCHANGED <<db, netRows, peerRows, dockerNets, bridged, table, scope, outdated, call, todo>>

(* The task reaches Docker and makes the bridge, or the peering gets the   *)
(* status error, if that can be written.                                   *)
MakeBridge(p) ==
  /\ task[p] = "spawned"
  /\ \/ /\ bridges' = bridges \cup {p}
        /\ task' = [task EXCEPT ![p] = "made"]
        /\ UNCHANGED peer
        /\ NoFault
     \/ SetPeerStatus(p, "error") /\ NoFault /\ UNCHANGED bridges
     \/ FaultOn(TaskUses(p)) /\ task' = [task EXCEPT ![p] = "lost"] /\ UNCHANGED <<peer, bridges>>
  /\ UNCHANGED <<db, netRows, pserver, bridge, rules, dockerNets, bridged, table, scope, outdated, call, todo>>

(* Errors of the task's statements are ignored.                            *)
SaveBridge(p) ==
  /\ task[p] = "made"
  /\ \/ NoFault /\ bridge' = [bridge EXCEPT ![p] = PeerRow(p)]
     \/ FaultOn(TaskUses(p)) /\ UNCHANGED bridge
  /\ task' = [task EXCEPT ![p] = "saved"]
  /\ UNCHANGED <<db, netRows, peer, pserver, rules, dockerNets, dockerPeer, call, todo>>

(* The members of the first network are read, connected one by one, then   *)
(* those of the second.                                                    *)
ReadMembers(p) ==
  /\ todo[p] = {}
  /\ \/ /\ task[p] = "saved"
        /\ task' = [task EXCEPT ![p] = "first"]
        /\ todo' = [todo EXCEPT ![p] = members[Ends[p][1]]]
     \/ /\ task[p] = "first"
        /\ task' = [task EXCEPT ![p] = "second"]
        /\ todo' = [todo EXCEPT ![p] = members[Ends[p][2]]]
  /\ NoFault
  /\ UNCHANGED <<db, netRows, peerRows, dockerNets, dockerPeer, call>>

ConnectMember(p, d) ==
  /\ d \in todo[p]
  /\ todo' = [todo EXCEPT ![p] = @ \ {d}]
  /\ \/ NoFault /\ bridged' = IF HasRow(d) /\ CanBridge(d, p, pserver[p])
                              THEN bridged \cup {<<d, p>>} ELSE bridged
     \/ FaultOn(TaskUses(p)) /\ UNCHANGED bridged
  /\ UNCHANGED <<db, netRows, peerRows, dockerNets, bridges, table, scope, outdated, call, task>>

Activate(p) ==
  /\ task[p] = "second" /\ todo[p] = {}
  /\ \/ NoFault /\ SetPeerStatus(p, "active")
     \/ FaultOn(TaskUses(p)) /\ task' = [task EXCEPT ![p] = "lost"] /\ UNCHANGED peer
  /\ UNCHANGED <<db, netRows, pserver, bridge, rules, dockerNets, dockerPeer, call, todo>>

ProvisionPeering(p) ==
  /\ Working(p)
  /\ \/ MakeBridge(p) \/ SaveBridge(p) \/ ReadMembers(p) \/ Activate(p)
     \/ \E d \in Dbs : ConnectMember(p, d)

-----------------------------------------------------------------------------
(* delete_peering, and delete_network for each peering of the network *)

(* The copies of the rows: their status, and whether a bridge was saved.   *)
(* A rule is only added to a peering with fewer than the limit.            *)
FindPeering(c, o, p, r) ==
  /\ PeerRow(p)
  /\ o = "unpeer" <=> r = None
  /\ o = "allow" => Cardinality(rules[p]) < MaxRules
  /\ Start(c, [Idle EXCEPT !.op = o, !.p = p, !.r = r,
                           !.at = IF o = "unpeer" THEN "peerings" ELSE "insert",
                           !.active = (peer[p] = "active"),
                           !.list = IF o = "unpeer" THEN {<<p, bridge[p]>>} ELSE {}])
  /\ UNCHANGED <<db, netRows, peerRows, dockerNets, dockerPeer, tasks>>

ListPeerings(c) ==
  /\ At(c, "drop", "found")
  /\ call' = [call EXCEPT ![c].at = "peerings",
                          ![c].list = {<<p, bridge[p]>> : p \in PeeringsOf(call[c].n)}]
  /\ NoFault
  /\ UNCHANGED <<db, netRows, peerRows, dockerNets, dockerPeer, tasks>>

(* Docker refuses to remove a network with a container connected; its      *)
(* errors are ignored.                                                     *)
TakeDownBridge(c, p) ==
  LET known == {d \in UNION {members[n] : n \in EndsOf(p)} : HasRow(d)}
      rest  == bridged \ Unbridging(known, p, pserver[p]) IN
  /\ call[c].at = "peerings" /\ <<p, TRUE>> \in call[c].list
  /\ call' = [call EXCEPT ![c].list = (@ \ {<<p, TRUE>>}) \cup {<<p, FALSE>>}]
  /\ \/ /\ table' = [table EXCEPT ![p] = NoTable]
        /\ scope' = [scope EXCEPT ![p] = Anywhere]
        /\ bridged' = rest
        /\ bridges' = IF \E d \in Dbs : <<d, p>> \in rest THEN bridges ELSE bridges \ {p}
        /\ NoFault
     \/ FaultOn({p}) /\ UNCHANGED <<bridges, bridged, table, scope>>
  /\ UNCHANGED <<db, netRows, peerRows, dockerNets, outdated, tasks>>

DeletePeeringSoftly(c, p) ==
  /\ call[c].at = "peerings" /\ <<p, FALSE>> \in call[c].list
  /\ peer' = [peer EXCEPT ![p] = "deleted"]
  /\ call' = [call EXCEPT ![c].list = @ \ {<<p, FALSE>>}]
  /\ NoFault
  /\ UNCHANGED <<db, netRows, pserver, bridge, rules, dockerNets, dockerPeer, tasks>>

DeletePeering(c, p) ==
  /\ call[c].at = "peerings" /\ <<p, FALSE>> \in call[c].list
  /\ peer' = [peer EXCEPT ![p] = "gone"]
  /\ bridge' = [bridge EXCEPT ![p] = FALSE]
  /\ rules' = [rules EXCEPT ![p] = {}]
  /\ call' = [call EXCEPT ![c].list = @ \ {<<p, FALSE>>}]
  /\ NoFault
  /\ UNCHANGED <<db, netRows, pserver, dockerNets, dockerPeer, tasks>>

PeeringsDeleted(c) ==
  /\ call[c].at = "peerings" /\ call[c].list = {}
  /\ \/ call[c].op = "unpeer" /\ Finish(c)
     \/ call[c].op = "drop" /\ Goto(c, "undock")
  /\ NoFault
  /\ UNCHANGED <<db, netRows, peerRows, dockerNets, dockerPeer, tasks>>

TakeDownNetworkFirst(c) ==
  LET k == call[c]
      left == joined \ Leaving(members[k.n], k.dock, k.host) IN
  /\ At(c, "drop", "undock")
  /\ joined' = left
  /\ docks' = IF k.dock = NoDock \/ \E d \in Dbs : <<d, k.dock>> \in joined
              THEN docks ELSE [docks EXCEPT ![k.dock] = "removed"]
  /\ NoFault
  /\ Goto(c, "row")
  /\ UNCHANGED <<db, netRows, peerRows, dockerPeer, tasks>>

(* delete_network: the members leave the Docker network and it is removed. *)
TakeDownNetwork(c) ==
  LET k == call[c]
      rest == joined \ Leaving(members[k.n], k.dock, k.host) IN
  /\ At(c, "drop", "undock")
  /\ \/ k.dock = NoDock /\ NoFault /\ UNCHANGED dockerNets
     \/ /\ k.dock # NoDock /\ NoFault
        /\ joined' = rest
        /\ docks' = IF docks[k.dock] # k.host \/ \E d \in Dbs : <<d, k.dock>> \in rest
                    THEN docks ELSE [docks EXCEPT ![k.dock] = "removed"]
     \/ k.dock # NoDock /\ FaultOn({k.n}) /\ UNCHANGED dockerNets
  /\ Goto(c, "row")
  /\ UNCHANGED <<db, netRows, peerRows, dockerPeer, tasks>>

(* The row goes, and with it its memberships, peerings and their rules.    *)
DeleteNetwork(c) ==
  LET n == call[c].n IN
  /\ At(c, "drop", "row")
  /\ net' = [net EXCEPT ![n] = "gone"]
  /\ subnet' = [subnet EXCEPT ![n] = NoDock]
  /\ members' = [members EXCEPT ![n] = {}]
  /\ peer' = [p \in Peerings |-> IF p \in PeeringsOf(n) THEN "gone" ELSE peer[p]]
  /\ bridge' = [p \in Peerings |-> bridge[p] /\ p \notin PeeringsOf(n)]
  /\ rules' = [p \in Peerings |-> IF p \in PeeringsOf(n) THEN {} ELSE rules[p]]
  /\ Finish(c)
  /\ NoFault
  /\ UNCHANGED <<db, server, dock, pserver, dockerNets, dockerPeer, tasks>>

-----------------------------------------------------------------------------
(* create_firewall_rule, delete_firewall_rule *)

AfterRuleChange(c) == IF call[c].active THEN Goto(c, "read") ELSE Finish(c)

InsertRule(c) ==
  LET k == call[c] IN
  /\ At(c, "allow", "insert")
  /\ \/ /\ PeerRow(k.p) /\ k.r \notin rules[k.p]
        /\ rules' = [rules EXCEPT ![k.p] = @ \cup {k.r}]
        /\ AfterRuleChange(c)
     \/ ~PeerRow(k.p) /\ Finish(c) /\ UNCHANGED rules
  /\ NoFault
  /\ UNCHANGED <<db, netRows, peer, pserver, bridge, dockerNets, dockerPeer, tasks>>

DeleteRule(c) ==
  LET k == call[c] IN
  /\ At(c, "revoke", "insert")
  /\ \/ /\ k.r \in rules[k.p]
        /\ rules' = [rules EXCEPT ![k.p] = @ \ {k.r}]
        /\ AfterRuleChange(c)
     \/ k.r \notin rules[k.p] /\ Finish(c) /\ UNCHANGED rules
  /\ NoFault
  /\ UNCHANGED <<db, netRows, peer, pserver, bridge, dockerNets, dockerPeer, tasks>>

ReadFirstSubnet(c) ==
  LET p == call[c].p IN
  /\ call[c].op \in {"allow", "revoke"} /\ call[c].at = "read"
  /\ call' = [call EXCEPT ![c].at = "apply", ![c].rules = rules[p],
                          ![c].subnets = <<subnet[Ends[p][1]], subnet[Ends[p][1]]>>]
  /\ outdated' = outdated \ {p}
  /\ NoFault
  /\ UNCHANGED <<db, netRows, peerRows, dockerNets, bridges, bridged, table, scope, tasks>>

(* apply_peering_iptables: the rules are read, in the order of priority    *)
(* and creation that the set determines, and the subnets of both networks. *)
ReadRules(c) ==
  LET p == call[c].p IN
  /\ call[c].op \in {"allow", "revoke"} /\ call[c].at = "read"
  /\ call' = [call EXCEPT ![c].at = "apply", ![c].rules = rules[p],
                          ![c].subnets = <<subnet[Ends[p][1]], subnet[Ends[p][2]]>>]
  /\ outdated' = outdated \ {p}
  /\ NoFault
  /\ UNCHANGED <<db, netRows, peerRows, dockerNets, bridges, bridged, table, scope, tasks>>

(* apply_firewall_rules deletes the table and writes it anew, by a script  *)
(* whose commands may be refused one by one without anybody noticing.      *)
ApplyRules(c) ==
  LET k == call[c] IN
  /\ k.op \in {"allow", "revoke"} /\ k.at = "apply"
  /\ \/ /\ table' = [table EXCEPT ![k.p] = k.rules]
        /\ scope' = [scope EXCEPT ![k.p] = k.subnets]
        /\ NoFault
     \/ /\ \E some \in {NoTable} \cup SUBSET k.rules : table' = [table EXCEPT ![k.p] = some]
        /\ scope' = [scope EXCEPT ![k.p] = k.subnets]
        /\ FaultOn({k.p})
     \/ FaultOn({k.p}) /\ UNCHANGED <<table, scope>>
  /\ Finish(c)
  /\ UNCHANGED <<db, netRows, peerRows, dockerNets, bridges, bridged, outdated, tasks>>

-----------------------------------------------------------------------------
(* delete_database, as far as networks are concerned *)

MarkDeleting(d) ==
  /\ d \in Doomed /\ db[d] = "running"
  /\ db' = [db EXCEPT ![d] = "deleting"]
  /\ UNCHANGED <<netRows, peerRows, dockerNets, dockerPeer, call, tasks, faults, disturbed>>

(* Docker may refuse to take it off any of them, which is ignored.         *)
LeaveNetworks(d) ==
  LET links == UNION {Leaving({d}, dock[n], Host[d]) :
                        n \in {m \in Nets : d \in members[m] /\ dock[m] # NoDock}} IN
  /\ db[d] = "deleting"
  /\ db' = [db EXCEPT ![d] = "detached"]
  /\ \/ joined' = joined \ links /\ NoFault
     \/ \E left \in SUBSET links : joined' = joined \ left /\ FaultOn({})
  /\ UNCHANGED <<netRows, peerRows, docks, dockerPeer, call, tasks>>

(* A container that is stopped or removed leaves every network.  When      *)
(* Docker does neither, it stays where it is, and the removal goes on.     *)
RemoveContainer(d) ==
  /\ db[d] = "detached"
  /\ \/ /\ db' = [db EXCEPT ![d] = "removed"]
        /\ joined' = {l \in joined : l[1] # d}
        /\ bridged' = {l \in bridged : l[1] # d}
        /\ NoFault
     \/ db' = [db EXCEPT ![d] = "stuck"] /\ FaultOn({}) /\ UNCHANGED <<joined, bridged>>
  /\ UNCHANGED <<netRows, peerRows, docks, bridges, table, scope, outdated, call, tasks>>

DeleteDatabaseRow(d) ==
  /\ db[d] \in {"removed", "stuck"}
  /\ db' = [db EXCEPT ![d] = IF HasContainer(d) THEN "orphan" ELSE "gone"]
  /\ members' = [n \in Nets |-> members[n] \ {d}]
  /\ UNCHANGED <<net, server, dock, subnet, peerRows, dockerNets, dockerPeer,
                 call, tasks, faults, disturbed>>

DeleteDatabase(d) ==
  MarkDeleting(d) \/ LeaveNetworks(d) \/ RemoveContainer(d) \/ DeleteDatabaseRow(d)

(* The process stops: requests and tasks are lost.                         *)
Crash ==
  /\ FaultOn(InUse)
  /\ call' = [c \in Calls |-> Idle]
  /\ task' = [p \in Peerings |-> IF Working(p) THEN "lost" ELSE task[p]]
  /\ todo' = [p \in Peerings |-> {}]
  /\ UNCHANGED <<db, netRows, peerRows, dockerNets, dockerPeer>>

-----------------------------------------------------------------------------
Attach(c) ==
  \/ CheckDatabase(c) \/ SetServer(c) \/ MakeDock(c) \/ SaveDock(c) \/ SaveSubnet(c)
  \/ Join(c) \/ AddMember(c) \/ SyncBridges(c)

Detach(c) == Leave(c) \/ Unbridge(c) \/ RemoveMember(c)

Delete(c) ==
  \/ ListPeerings(c) \/ PeeringsDeleted(c) \/ TakeDownNetwork(c) \/ DeleteNetwork(c)
  \/ \E p \in Peerings : TakeDownBridge(c, p) \/ DeletePeering(c, p)

ChangeRule(c) == InsertRule(c) \/ DeleteRule(c) \/ ReadRules(c) \/ ApplyRules(c)

Request(c) ==
  \/ \E n \in Nets : \/ CountNetworks(c, n)
                     \/ FindNetwork(c, "drop", n, None)
                     \/ \E d \in Dbs, o \in {"attach", "detach"} : FindNetwork(c, o, n, d)
  \/ \E p \in Peerings : \/ FindPair(c, p)
                         \/ FindPeering(c, "unpeer", p, None)
                         \/ \E r \in Rules, o \in {"allow", "revoke"} : FindPeering(c, o, p, r)

Next ==
  \/ \E c \in Calls : \/ Request(c) \/ InsertNetwork(c) \/ InsertPeering(c)
                      \/ Attach(c) \/ Detach(c) \/ Delete(c) \/ ChangeRule(c)
                      \/ CallFails(c)
  \/ \E p \in Peerings : ProvisionPeering(p)
  \/ \E d \in Dbs : DeleteDatabase(d)
  \/ Crash

Spec == Init /\ [][Next]_vars

(* Spawned tasks run to their end: Docker and the platform's database      *)
(* answer or time out.  Nobody else has to act.                            *)
LiveSpec == Spec /\ \A p \in Peerings : WF_vars(ProvisionPeering(p))

-----------------------------------------------------------------------------
(* Networks connect a user's own databases: two containers on one Docker   *)
(* network, or on one bridge, have the same owner.  attach_database and    *)
(* create_peering compare owners once, at their beginning.                 *)
OwnersAreIsolated ==
  /\ \A l \in joined : \A m \in joined : l[2] = m[2] => Owner[l[1]] = Owner[m[1]]
  /\ \A l \in bridged : \A m \in bridged : l[2] = m[2] => Owner[l[1]] = Owner[m[1]]

Quiet(x) == x \notin disturbed /\ x \notin InUse
QuietPair(p) == \A x \in {p} \cup EndsOf(p) : Quiet(x)

(* When nothing is under way on a network, and nothing ever overlapped or  *)
(* failed there, its members are the containers on its Docker network.     *)
MembersAreConnected ==
  \A n \in Nets : Quiet(n) /\ net[n] = "live" =>
    \A d \in Dbs : db[d] = "running" => (d \in members[n] <=> <<d, dock[n]>> \in joined)

(* The container of a database that was removed without it, on network i   *)
(* or on the bridge of p.                                                  *)
HoldsDock(i)   == \E d \in Dbs : db[d] = "orphan" /\ <<d, i>> \in joined
HoldsBridge(p) == \E d \in Dbs : db[d] = "orphan" /\ <<d, p>> \in bridged

(* In the same conditions the Docker networks of a network are the one its *)
(* row names and those that the container of a removed database keeps from *)
(* being removed, and so are bridges: delete_database goes on when Docker  *)
(* does not remove the container, whose network nobody can take down then. *)
NoOrphanInDocker ==
  /\ \A n \in Nets : Quiet(n) =>
       \A i \in DockIds : i[1] = n =>
         (docks[i] \in Hosts <=> (net[n] = "live" /\ dock[n] = i) \/ HoldsDock(i))
  /\ \A p \in Peerings : QuietPair(p) =>
       (p \in bridges <=> (PeerRow(p) /\ bridge[p]) \/ HoldsBridge(p))

(* An active peering reaches the members of both networks that are on its  *)
(* server, and nobody else, however attaching, detaching and deleting      *)
(* alternate.  (A network without server may have a member on the local    *)
(* docker when it is peered with one on a server.)                         *)
PeeringReachesMembers ==
  \A p \in Peerings : peer[p] = "active" /\ QuietPair(p) =>
    \A d \in Dbs : db[d] = "running" =>
      (<<d, p>> \in bridged <=>
         Host[d] = pserver[p] /\ \E n \in EndsOf(p) : d \in members[n])

(* The firewall of an active peering is made of the rules of its rows and  *)
(* the subnets of its networks.  One that was made before a network got    *)
(* its subnet, which attach_database does not make anew, has the rules for *)
(* any address (0.0.0.0/0) in its place, and never for a wrong one.        *)
FirewallIsOfRules ==
  \A p \in Peerings : peer[p] = "active" /\ Quiet(p) =>
    IF table[p] = NoTable THEN rules[p] = {}
    ELSE /\ table[p] = rules[p]
         /\ \A i \in 1..2 :
              \/ scope[p][i] = subnet[Ends[p][i]]
              \/ p \in outdated /\ (scope[p][i] = NoDock \/ Ends[p][i] \in disturbed)

(* The limits are counted before rows are inserted: concurrent requests    *)
(* can exceed them, but by no more than there are requests.                *)
LimitsHoldButForOverlaps ==
  /\ \A n \in Nets : Cardinality(members[n]) <= MaxMembers + Cardinality(Calls) - 1
  /\ \A u \in Users : Cardinality({n \in Nets : net[n] = "live" /\ Owner[n] = u})
                        <= MaxNetworks + Cardinality(Calls) - 1
  /\ \A u \in Users : Cardinality(PeeringsBy(u)) <= MaxPeerings + Cardinality(Calls) - 1
  /\ \A p \in Peerings : Cardinality(rules[p]) <= MaxRules + Cardinality(Calls) - 1

(* A peering does not stay pending, unless its task was lost in a crash or *)
(* could not write its result.                                             *)
PeeringSettles ==
  \A p \in Peerings : Working(p) ~> (peer[p] # "pending" \/ task[p] = "lost")

-----------------------------------------------------------------------------
(* The invariant behind OwnersAreIsolated: what a request knows of its     *)
(* parameters, and that whatever refers to a network has its owner.        *)

CallOK(k) ==
  /\ k.op \in NetCalls \cup {"create"} => k.n \in Nets
  /\ k.op \in {"attach", "detach"} => k.d \in Dbs
  /\ k.op \in PeerCalls \cup {"peer"} => k.p \in Peerings
  /\ k.op \in {"allow", "revoke"} => k.r \in Rules
  /\ k.dock # NoDock => k.dock[1] = k.n
  /\ k.op = "attach" /\ k.at # "found" => Owner[k.d] = Owner[k.n]
  /\ k.op = "attach" /\ k.at \in {"save", "subnet", "join"} => k.dock # NoDock
  /\ k.op = "peer" => Owner[Ends[k.p][1]] = Owner[Ends[k.p][2]]

RowOwners ==
  /\ \A n \in Nets : dock[n] # NoDock => dock[n][1] = n
  /\ \A n \in Nets : \A d \in members[n] : Owner[d] = Owner[n]
  /\ \A p \in Peerings : PeerRow(p) \/ Working(p) =>
       Owner[Ends[p][1]] = Owner[Ends[p][2]]
  /\ \A p \in Peerings : \A d \in todo[p] : Owner[d] = Owner[Ends[p][1]]

DockerOwners ==
  /\ \A l \in joined : Owner[l[1]] = Owner[l[2][1]]
  /\ \A l \in bridged : Owner[l[1]] = Owner[Ends[l[2]][1]]

NetworksInv ==
  /\ TypeOK
  /\ \A c \in Calls : CallOK(call[c])
  /\ RowOwners /\ DockerOwners
=============================================================================
