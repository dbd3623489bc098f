------------------------- MODULE PrivateNetworksProofs -------------------------
(***************************************************************************)
(* Proofs about PrivateNetworks, for any users, databases, networks,       *)
(* peerings, servers, limits and number of concurrent requests, faults and *)
(* crashes.                                                                *)
(*                                                                         *)
(* NetworksInv: types, and why containers on one Docker network or bridge  *)
(* have the same owner.  The comparison of owners that a request made at   *)
(* its beginning still holds when it acts, since owners do not change, and *)
(* everything a row, a task or a container refers to belongs to the owner  *)
(* of the network.                                                         *)
(*                                                                         *)
(* FirewallInv: the firewall of an undisturbed peering is that of its      *)
(* rules, or about to be.                                                  *)
(*                                                                         *)
(* ConnectionsInv: on an undisturbed network one request at a time is at   *)
(* work, and how far it is says where rows and Docker differ.  Containers  *)
(* of databases whose removal failed may stay wherever they were: what is  *)
(* said of connections is said of those whose database has a row.          *)
(*                                                                         *)
(* BridgesInv: on an undisturbed peering the request that makes it, its    *)
(* task and the requests about its networks exclude each other, and the    *)
(* bridge exists, and has the members, as far as these have come.  A       *)
(* bridge without row has such a container left on it.                     *)
(*                                                                         *)
(* ScopeInv: the firewall of an undisturbed peering is that of its rules   *)
(* for the subnets its networks had when the rules were last read; these   *)
(* have changed since only if the peering is among the outdated.           *)
(*                                                                         *)
(* LimitsInv: rows, counted with the requests about to add one, exceed the *)
(* limit by less than the number of requests.                              *)
(***************************************************************************)
EXTENDS PrivateNetworks, FiniteSetTheorems, TLAPS

(* The conjuncts of TypeOK, in groups that actions change together.        *)
RowTypes ==
  /\ db \in [Dbs -> {"running", "deleting", "detached", "removed", "stuck", "gone", "orphan"}]
  /\ net \in [Nets -> {"unborn", "live", "gone"}]
  /\ server \in [Nets -> Hosts]
  /\ dock \in [Nets -> DockIds \cup {NoDock}]
  /\ subnet \in [Nets -> Subnets]
  /\ members \in [Nets -> SUBSET Dbs]

PeerTypes ==
  /\ peer \in [Peerings -> {"unborn", "pending", "active", "error", "gone"}]
  /\ pserver \in [Peerings -> Hosts]
  /\ bridge \in [Peerings -> BOOLEAN]
  /\ rules \in [Peerings -> SUBSET Rules]
  /\ task \in [Peerings -> {None, "done", "lost"} \cup TaskSteps]
  /\ todo \in [Peerings -> SUBSET Dbs]

DockerTypes ==
  /\ docks \in [DockIds -> Hosts \cup {"unmade", "removed"}]
  /\ joined \subseteq Dbs \X DockIds
  /\ bridges \subseteq Peerings
  /\ bridged \subseteq Dbs \X Peerings
  /\ table \in [Peerings -> {NoTable} \cup SUBSET Rules]
  /\ scope \in [Peerings -> Subnets \X Subnets]
  /\ outdated \subseteq Peerings

HistoryTypes == faults \in 0..MaxFaults /\ disturbed \subseteq Nets \cup Peerings

CallsOK ==
  /\ call \in [Calls -> CallType]
  /\ \A c \in Calls : CallOK(call[c])

LEMMA InvParts ==
  NetworksInv <=> RowTypes /\ PeerTypes /\ DockerTypes /\ HistoryTypes /\ CallsOK
                  /\ RowOwners /\ DockerOwners
BY DEF NetworksInv, TypeOK, RowTypes, PeerTypes, DockerTypes, HistoryTypes, CallsOK

LEMMA InvPartsNext ==
  ASSUME (RowTypes /\ PeerTypes /\ DockerTypes /\ HistoryTypes /\ CallsOK
          /\ RowOwners /\ DockerOwners)'
  PROVE  NetworksInv'
BY DEF NetworksInv, TypeOK, RowTypes, PeerTypes, DockerTypes, HistoryTypes, CallsOK

(* A Docker network is a pair, and no pair is empty.                       *)
LEMMA DockFacts ==
  /\ \A i \in DockIds : i # NoDock /\ i[1] \in Nets
  /\ \A n \in Nets, j \in 1..MaxDocks : <<n, j>> \in DockIds /\ <<n, j>>[1] = n
BY DEF DockIds, NoDock

LEMMA StepFacts ==
  /\ NetCalls = {"attach", "detach", "drop"} /\ PeerCalls = {"unpeer", "allow", "revoke"}
  /\ Steps = {"found", "serve", "dock", "save", "subnet", "join", "add", "sync",
          "leave", "unbridge", "remove", "list", "peerings", "undock", "row",
          "insert", "read", "apply"}
  /\ TaskSteps = {"spawned", "made", "saved", "first", "second"}
  /\ None = "none" /\ Local \in Hosts
  /\ NoDock \in Subnets /\ DockIds \subseteq Subnets /\ Anywhere \in Subnets \X Subnets
BY DEF NetCalls, PeerCalls, Steps, TaskSteps, None, Hosts, Subnets, Anywhere

LEMMA EndFacts ==
  ASSUME NEW p \in Peerings
  PROVE  Ends[p][1] \in Nets /\ Ends[p][2] \in Nets /\ EndsOf(p) = {Ends[p][1], Ends[p][2]}
BY NetworksAssumption DEF EndsOf

LEMMA IdleFacts ==
  Idle \in CallType /\ CallOK(Idle) /\ Idle.op = None /\ Idle.at = None
<1>1. Idle \in CallType
  BY StepFacts DEF Idle, CallType
<1>2. Idle.op = None /\ Idle.at = None /\ Idle.dock = NoDock
  BY DEF Idle
<1>3. CallOK(Idle)
  BY <1>2, StepFacts DEF CallOK
<1>4. QED
  BY <1>1, <1>2, <1>3

LEMMA InitInv == Init => NetworksInv
<1> SUFFICES ASSUME Init PROVE NetworksInv
  OBVIOUS
<1> USE DEF Init
<1>1. RowTypes
  BY StepFacts DEF RowTypes
<1>2. PeerTypes
  BY StepFacts DEF PeerTypes
<1>3. DockerTypes
  BY StepFacts DEF DockerTypes
<1>4. HistoryTypes
  BY NetworksAssumption DEF HistoryTypes
<1>5. CallsOK
  BY IdleFacts DEF CallsOK
<1>6. RowOwners /\ DockerOwners
  BY StepFacts DEF RowOwners, PeerRow, Working, DockerOwners
<1>7. QED
  BY <1>1, <1>2, <1>3, <1>4, <1>5, <1>6, InvParts

-----------------------------------------------------------------------------
(* Requests *)

LEMMA UsesTyped ==
  ASSUME NEW k \in CallType, CallOK(k)
  PROVE  Uses(k) \subseteq Nets \cup Peerings
<1>1. \A p \in Peerings : EndsOf(p) \subseteq Nets
  BY EndFacts
<1>2. \A n : PeeringsOf(n) \subseteq Peerings
  BY DEF PeeringsOf
<1>3. CASE k.op \in {"attach", "detach"}
  BY <1>3, StepFacts DEF Uses, CallOK
<1>4. CASE k.op = "drop"
  BY <1>1, <1>2, <1>4, StepFacts DEF Uses, CallOK
<1>5. CASE k.op \in {"peer", "unpeer"}
  BY <1>1, <1>5, StepFacts DEF Uses, CallOK
<1>6. CASE k.op \in {"allow", "revoke"}
  BY <1>6, StepFacts DEF Uses, CallOK
<1>7. CASE k.op \in {None, "create"}
  BY <1>7, StepFacts DEF Uses
<1>8. QED
  BY <1>3, <1>4, <1>5, <1>6, <1>7, StepFacts DEF CallType

LEMMA InUseTyped ==
  ASSUME CallsOK
  PROVE  /\ InUse \subseteq Nets \cup Peerings
         /\ \A p \in Peerings : TaskUses(p) \subseteq Nets \cup Peerings
<1>1. \A c \in Calls : Uses(call[c]) \subseteq Nets \cup Peerings
  BY UsesTyped DEF CallsOK
<1>2. \A p \in Peerings : TaskUses(p) \subseteq Nets \cup Peerings
  BY EndFacts DEF TaskUses
<1>3. QED
  BY <1>1, <1>2 DEF InUse

LEMMA HistoryStep ==
  ASSUME HistoryTypes, NoFault \/ \E S \in SUBSET (Nets \cup Peerings) : FaultOn(S)
  PROVE  HistoryTypes'
<1>1. CASE NoFault
  BY <1>1 DEF NoFault, HistoryTypes
<1>2. CASE \E S \in SUBSET (Nets \cup Peerings) : FaultOn(S)
  <2>1. PICK S \in SUBSET (Nets \cup Peerings) : FaultOn(S)
    BY <1>2
  <2>2. faults' \in 0..MaxFaults
    BY <2>1, NetworksAssumption DEF FaultOn, HistoryTypes
  <2>3. disturbed' \subseteq Nets \cup Peerings
    BY <2>1 DEF FaultOn, HistoryTypes
  <2>4. QED
    BY <2>2, <2>3 DEF HistoryTypes
<1>3. QED
  BY <1>1, <1>2

LEMMA FinishStep ==
  ASSUME CallsOK, NEW c \in Calls, Finish(c)
  PROVE  CallsOK'
BY IdleFacts DEF Finish, CallsOK

(* Some of its fields get values of their types.                           *)
LEMMA RecordStep ==
  ASSUME NEW k \in CallType, NEW s \in Steps, NEW h \in Hosts
  PROVE  [k EXCEPT !.at = s, !.host = h] \in CallType
BY DEF CallType

LEMMA DockStep ==
  ASSUME NEW k \in CallType, NEW s \in Steps, NEW i \in DockIds \cup {NoDock}
  PROVE  [k EXCEPT !.at = s, !.dock = i] \in CallType
BY DEF CallType

LEMMA ListStep ==
  ASSUME NEW k \in CallType, NEW s \in Steps, NEW l \in SUBSET (Peerings \X BOOLEAN)
  PROVE  [k EXCEPT !.at = s, !.list = l] \in CallType
<1>1. s \in {None} \cup Steps
  OBVIOUS
<1>2. QED
  BY <1>1 DEF CallType

LEMMA FreshRecord ==
  ASSUME NEW k \in CallType, NEW o \in PeerCalls, NEW p \in Peerings,
         NEW r \in Rules \cup {None}, NEW s \in Steps,
         NEW a \in BOOLEAN, NEW l \in SUBSET (Peerings \X BOOLEAN)
  PROVE  [k EXCEPT !.op = o, !.p = p, !.r = r, !.at = s, !.active = a, !.list = l]
           \in CallType
<1>1. PICK m : m = [k EXCEPT !.op = o, !.p = p, !.r = r, !.at = s, !.active = a, !.list = l]
  OBVIOUS
<1>2. /\ m.op = o /\ m.at = s /\ m.n = k.n /\ m.d = k.d /\ m.p = p /\ m.r = r
      /\ m.host = k.host /\ m.dock = k.dock /\ m.active = a /\ m.list = l
      /\ m.rules = k.rules /\ m.subnets = k.subnets
  BY <1>1 DEF CallType
<1>3. m = [op |-> m.op, at |-> m.at, n |-> m.n, d |-> m.d, p |-> m.p, r |-> m.r,
           host |-> m.host, dock |-> m.dock, active |-> m.active, list |-> m.list,
           rules |-> m.rules, subnets |-> m.subnets]
  BY <1>1 DEF CallType
<1>4. /\ k.n \in Nets \cup {None} /\ k.d \in Dbs \cup {None} /\ k.host \in Hosts
      /\ k.dock \in DockIds \cup {NoDock} /\ k.rules \in SUBSET Rules
      /\ k.subnets \in Subnets \X Subnets
  BY DEF CallType
<1>5. m \in CallType
  BY <1>2, <1>3, <1>4 DEF CallType
<1>6. QED
  BY <1>1, <1>5

(* A request gets a new record.                                            *)
LEMMA PutStep ==
  ASSUME CallsOK, NEW c \in Calls, NEW k \in CallType, CallOK(k), call' = [call EXCEPT ![c] = k]
  PROVE  CallsOK'
BY DEF CallsOK

(* It goes on to its next step.                                            *)
LEMMA GotoStep ==
  ASSUME CallsOK, NEW c \in Calls, NEW s \in Steps, Goto(c, s),
         call[c].op = "attach" /\ s # "found" => Owner[call[c].d] = Owner[call[c].n],
         call[c].op = "attach" /\ s \in {"save", "subnet", "join"} => call[c].dock # NoDock
  PROVE  CallsOK'
<1>1. PICK k : k = [call[c] EXCEPT !.at = s]
  OBVIOUS
<1>2. call[c] \in CallType /\ CallOK(call[c])
  BY DEF CallsOK
<1>3. k \in CallType /\ k.at = s
  BY <1>1, <1>2 DEF CallType
<1>4. /\ k.op = call[c].op /\ k.n = call[c].n /\ k.d = call[c].d /\ k.p = call[c].p
      /\ k.r = call[c].r /\ k.dock = call[c].dock
  BY <1>1, <1>2 DEF CallType
<1>5. CallOK(k)
  BY <1>2, <1>3, <1>4 DEF CallOK
<1>6. call' = [call EXCEPT ![c] = k]
  BY <1>1 DEF Goto, CallsOK
<1>7. QED
  BY <1>3, <1>5, <1>6, PutStep

(* A new request, with the history of overlaps.                            *)
LEMMA StartStep ==
  ASSUME CallsOK, HistoryTypes, NEW c \in Calls, NEW k \in CallType, CallOK(k), Start(c, k)
  PROVE  CallsOK' /\ HistoryTypes'
<1>1. CallsOK'
  BY PutStep DEF Start
<1>2. HistoryTypes'
  BY UsesTyped DEF Start, HistoryTypes
<1>3. QED
  BY <1>1, <1>2

-----------------------------------------------------------------------------
(* What a step that leaves the rows, the peerings or Docker alone keeps    *)

LEMMA SameRows ==
  ASSUME RowTypes, UNCHANGED <<db, netRows>>
  PROVE  RowTypes'
BY DEF RowTypes, netRows

LEMMA SamePeerings ==
  ASSUME PeerTypes, UNCHANGED <<peerRows, tasks>>
  PROVE  PeerTypes'
BY DEF PeerTypes, peerRows, tasks

LEMMA SameDocker ==
  ASSUME DockerTypes, UNCHANGED <<dockerNets, dockerPeer>>
  PROVE  DockerTypes'
BY DEF DockerTypes, dockerNets, dockerPeer

LEMMA SameOwners ==
  ASSUME RowOwners, UNCHANGED <<dock, members, peer, task, todo>>
  PROVE  RowOwners'
BY DEF RowOwners, PeerRow, Working

(* Containers that leave, or stay.                                         *)
LEMMA FewerContainers ==
  ASSUME DockerOwners, joined' \subseteq joined, bridged' \subseteq bridged
  PROVE  DockerOwners'
BY DEF DockerOwners

(* A step that only moves requests on.                                     *)
LEMMA OnlyRequests ==
  ASSUME NetworksInv, CallsOK', HistoryTypes',
         UNCHANGED <<db, netRows, peerRows, dockerNets, dockerPeer, tasks>>
  PROVE  NetworksInv'
<1>1. RowTypes' /\ PeerTypes' /\ DockerTypes'
  BY InvParts, SameRows, SamePeerings, SameDocker
<1>2. RowOwners'
  BY InvParts, SameOwners DEF netRows, peerRows, tasks
<1>3. DockerOwners'
  BY InvParts, FewerContainers DEF dockerNets, dockerPeer
<1>4. QED
  BY <1>1, <1>2, <1>3, InvPartsNext

-----------------------------------------------------------------------------
(* Requests begin, and fail *)

LEMMA FailsInv ==
  ASSUME NetworksInv, NEW c \in Calls, CallFails(c)
  PROVE  NetworksInv'
<1>1. CallsOK /\ HistoryTypes
  BY InvParts
<1>2. CallsOK'
  BY <1>1, FinishStep DEF CallFails
<1>3. Uses(call[c]) \subseteq Nets \cup Peerings
  BY <1>1, UsesTyped DEF CallsOK
<1>4. HistoryTypes'
  BY <1>1, <1>3, HistoryStep DEF CallFails
<1>5. QED
  BY <1>2, <1>4, OnlyRequests DEF CallFails

LEMMA CountInv ==
  ASSUME NetworksInv, NEW c \in Calls, NEW n \in Nets, CountNetworks(c, n)
  PROVE  NetworksInv'
<1>1. PICK k : k = [Idle EXCEPT !.op = "create", !.at = "insert", !.n = n]
  OBVIOUS
<1>2. k \in CallType
  <2>1. "create" \in {None, "create", "peer"} \cup NetCalls \cup PeerCalls
        /\ "insert" \in {None} \cup Steps
    BY StepFacts
  <2>2. QED
    BY <1>1, <2>1, IdleFacts DEF CallType
<1>3. k.op = "create" /\ k.n = n /\ k.dock = NoDock
  BY <1>1 DEF Idle
<1>4. CallOK(k)
  BY <1>3, StepFacts DEF CallOK
<1>5. Start(c, k)
  BY <1>1 DEF CountNetworks
<1>6. QED
  BY <1>2, <1>4, <1>5, InvParts, StartStep, OnlyRequests DEF CountNetworks

LEMMA FindNetworkInv ==
  ASSUME NetworksInv, NEW c \in Calls, NEW o \in NetCalls, NEW n \in Nets, NEW d,
         (o = "drop" /\ d = None) \/ (o # "drop" /\ d \in Dbs), FindNetwork(c, o, n, d)
  PROVE  NetworksInv'
<1>1. PICK k : k = [Idle EXCEPT !.op = o, !.at = "found", !.n = n, !.d = d,
                                !.host = server[n], !.dock = dock[n]]
  OBVIOUS
<1>2. server[n] \in Hosts /\ dock[n] \in DockIds \cup {NoDock}
  BY InvParts DEF RowTypes
<1>3. k \in CallType
  <2>1. /\ k.op = o /\ k.at = "found" /\ k.n = n /\ k.d = d /\ k.p = Idle.p /\ k.r = Idle.r
        /\ k.host = server[n] /\ k.dock = dock[n] /\ k.active = Idle.active
        /\ k.list = Idle.list /\ k.rules = Idle.rules /\ k.subnets = Idle.subnets
    BY <1>1 DEF Idle
  <2>2. k = [op |-> k.op, at |-> k.at, n |-> k.n, d |-> k.d, p |-> k.p, r |-> k.r,
             host |-> k.host, dock |-> k.dock, active |-> k.active, list |-> k.list,
             rules |-> k.rules, subnets |-> k.subnets]
    BY <1>1 DEF Idle
  <2>3. /\ Idle.p \in Peerings \cup {None} /\ Idle.r \in Rules \cup {None}
        /\ Idle.active \in BOOLEAN /\ Idle.list \in SUBSET (Peerings \X BOOLEAN)
        /\ Idle.rules \in SUBSET Rules /\ Idle.subnets \in Subnets \X Subnets
    BY IdleFacts DEF CallType
  <2>4. /\ k.op \in {None, "create", "peer"} \cup NetCalls \cup PeerCalls
        /\ k.at \in {None} \cup Steps /\ k.d \in Dbs \cup {None}
    BY <2>1, StepFacts
  <2>5. QED
    BY <2>1, <2>2, <2>3, <2>4, <1>2 DEF CallType
<1>4. k.op = o /\ k.at = "found" /\ k.n = n /\ k.d = d /\ k.dock = dock[n]
  BY <1>1 DEF Idle
<1>5. dock[n] # NoDock => dock[n][1] = n
  BY InvParts DEF RowOwners
<1>6. CallOK(k)
  BY <1>4, <1>5, StepFacts DEF CallOK
<1>7. Start(c, k)
  BY <1>1 DEF FindNetwork
<1>8. QED
  BY <1>3, <1>6, <1>7, InvParts, StartStep, OnlyRequests DEF FindNetwork

LEMMA FindPairInv ==
  ASSUME NetworksInv, NEW c \in Calls, NEW p \in Peerings, FindPair(c, p)
  PROVE  NetworksInv'
<1> DEFINE a == Ends[p][1]
           b == Ends[p][2]
           host == IF server[a] = Local THEN server[b] ELSE server[a]
<1>1. PICK k : k = [Idle EXCEPT !.op = "peer", !.at = "insert", !.p = p, !.host = host]
  OBVIOUS
<1>2. host \in Hosts
  BY InvParts, EndFacts DEF RowTypes
<1>3. k \in CallType
  <2> HIDE DEF host
  <2>1. "peer" \in {None, "create", "peer"} \cup NetCalls \cup PeerCalls
        /\ "insert" \in {None} \cup Steps
    BY StepFacts
  <2>2. QED
    BY <1>1, <1>2, <2>1, IdleFacts DEF CallType
<1>4. k.op = "peer" /\ k.p = p /\ k.dock = NoDock
  BY <1>1 DEF Idle
<1>5. Owner[a] = Owner[b] /\ Start(c, k)
  BY <1>1 DEF FindPair
<1>6. CallOK(k)
  BY <1>4, <1>5, StepFacts DEF CallOK
<1>7. QED
  BY <1>3, <1>5, <1>6, InvParts, StartStep, OnlyRequests DEF FindPair

LEMMA FindPeeringInv ==
  ASSUME NetworksInv, NEW c \in Calls, NEW o \in PeerCalls, NEW p \in Peerings, NEW r,
         (o = "unpeer" /\ r = None) \/ (o # "unpeer" /\ r \in Rules), FindPeering(c, o, p, r)
  PROVE  NetworksInv'
<1> DEFINE step == IF o = "unpeer" THEN "peerings" ELSE "insert"
           active == (peer[p] = "active")
           list == IF o = "unpeer" THEN {<<p, bridge[p]>>} ELSE {}
<1>1. PICK k : k = [Idle EXCEPT !.op = o, !.p = p, !.r = r, !.at = step,
                                !.active = active, !.list = list]
  OBVIOUS
<1>2. bridge[p] \in BOOLEAN
  BY InvParts DEF PeerTypes
<1>3. /\ list \in SUBSET (Peerings \X BOOLEAN) /\ active \in BOOLEAN
      /\ step \in Steps /\ r \in Rules \cup {None}
  BY <1>2, StepFacts
<1>4. k \in CallType
  <2> HIDE DEF step, active, list
  <2>1. QED
    BY <1>1, <1>3, IdleFacts, FreshRecord
<1>5. k.op = o /\ k.p = p /\ k.r = r /\ k.dock = NoDock
  BY <1>1 DEF Idle
<1>6. CallOK(k)
  BY <1>5, StepFacts DEF CallOK
<1>7. Start(c, k)
  BY <1>1 DEF FindPeering
<1>8. QED
  BY <1>4, <1>6, <1>7, InvParts, StartStep, OnlyRequests DEF FindPeering

LEMMA InsertNetworkInv ==
  ASSUME NetworksInv, NEW c \in Calls, InsertNetwork(c)
  PROVE  NetworksInv'
<1>1. CallsOK' /\ HistoryTypes'
  BY InvParts, FinishStep, HistoryStep DEF InsertNetwork
<1>2. RowTypes'
  BY InvParts DEF InsertNetwork, RowTypes
<1>3. PeerTypes' /\ DockerTypes'
  BY InvParts, SamePeerings, SameDocker DEF InsertNetwork
<1>4. RowOwners' /\ DockerOwners'
  BY InvParts, SameOwners, FewerContainers DEF InsertNetwork, peerRows, tasks, dockerNets, dockerPeer
<1>5. QED
  BY <1>1, <1>2, <1>3, <1>4, InvPartsNext

-----------------------------------------------------------------------------
(* attach_database *)

LEMMA CheckInv ==
  ASSUME NetworksInv, NEW c \in Calls, CheckDatabase(c)
  PROVE  NetworksInv'
<1>1. call[c].op = "attach" /\ CallsOK
  BY InvParts DEF CheckDatabase, At
<1>2. ASSUME Attachable(call[c]), NEW s \in {"serve", "dock"}, Goto(c, s)
      PROVE  CallsOK'
  <2>1. Owner[call[c].d] = Owner[call[c].n]
    BY <1>2 DEF Attachable
  <2>2. QED
    BY <1>1, <1>2, <2>1, GotoStep, StepFacts
<1>3. CallsOK'
  BY <1>1, <1>2, FinishStep DEF CheckDatabase
<1>4. HistoryTypes'
  BY InvParts, HistoryStep DEF CheckDatabase
<1>5. QED
  BY <1>3, <1>4, OnlyRequests DEF CheckDatabase

(* The parameters of an attachment past its check.                         *)
LEMMA Attaching ==
  ASSUME NetworksInv, NEW c \in Calls, NEW s \in Steps \ {"found"}, At(c, "attach", s)
  PROVE  /\ call[c].op = "attach" /\ call[c].n \in Nets /\ call[c].d \in Dbs
         /\ Owner[call[c].d] = Owner[call[c].n] /\ call[c] \in CallType
         /\ call[c].dock # NoDock => call[c].dock \in DockIds /\ call[c].dock[1] = call[c].n
BY InvParts, StepFacts DEF At, CallsOK, CallOK, CallType

LEMMA SetServerInv ==
  ASSUME NetworksInv, NEW c \in Calls, SetServer(c)
  PROVE  NetworksInv'
<1> DEFINE k == call[c]
<1>1. /\ k.op = "attach" /\ k.n \in Nets /\ k.d \in Dbs /\ Owner[k.d] = Owner[k.n]
      /\ k \in CallType /\ CallsOK /\ CallOK(k) /\ Host[k.d] \in Hosts
  BY Attaching, InvParts, StepFacts, NetworksAssumption DEF SetServer, CallsOK, Hosts
<1>2. CallsOK'
  <2>1. PICK m : m = [k EXCEPT !.at = "dock", !.host = Host[k.d]]
    OBVIOUS
  <2>2. m \in CallType
    BY <1>1, <2>1, StepFacts, RecordStep
  <2>3. /\ m.op = "attach" /\ m.at = "dock" /\ m.n = k.n /\ m.d = k.d /\ m.dock = k.dock
    BY <1>1, <2>1 DEF CallType
  <2>4. CallOK(m)
    BY <1>1, <2>3, StepFacts DEF CallOK
  <2>5. call' = [call EXCEPT ![c] = m]
    BY <1>1, <2>1 DEF SetServer, CallsOK
  <2>6. QED
    BY <1>1, <2>2, <2>4, <2>5, PutStep
<1>3. HistoryTypes'
  <2>1. PeeringsOf(k.n) \subseteq Peerings
    BY DEF PeeringsOf
  <2>2. disturbed' \subseteq Nets \cup Peerings
    BY <1>1, <2>1, InvParts DEF SetServer, HistoryTypes
  <2>3. QED
    BY <2>2, InvParts DEF SetServer, HistoryTypes
<1>4. RowTypes'
  BY <1>1, InvParts DEF SetServer, RowTypes
<1>5. PeerTypes' /\ DockerTypes'
  BY InvParts, SamePeerings, SameDocker DEF SetServer
<1>6. RowOwners' /\ DockerOwners'
  BY InvParts, SameOwners, FewerContainers DEF SetServer, peerRows, tasks, dockerNets, dockerPeer
<1>7. QED
  BY <1>2, <1>3, <1>4, <1>5, <1>6, InvPartsNext

LEMMA MakeDockInv ==
  ASSUME NetworksInv, NEW c \in Calls, MakeDock(c)
  PROVE  NetworksInv'
<1> DEFINE k == call[c]
<1>1. /\ k.op = "attach" /\ k.n \in Nets /\ k.d \in Dbs /\ Owner[k.d] = Owner[k.n]
      /\ k \in CallType /\ CallsOK /\ CallOK(k) /\ k.host \in Hosts
  BY Attaching, InvParts, StepFacts DEF MakeDock, CallsOK, CallType
<1>2. CASE k.dock # NoDock /\ Goto(c, "join") /\ UNCHANGED docks
  <2>1. CallsOK' /\ HistoryTypes'
    BY <1>1, <1>2, GotoStep, InvParts, HistoryStep, StepFacts DEF MakeDock
  <2>2. QED
    BY <1>2, <2>1, OnlyRequests DEF MakeDock, dockerNets
<1>3. ASSUME NEW j \in 1..MaxDocks, docks' = [docks EXCEPT ![<<k.n, j>>] = k.host],
             call' = [call EXCEPT ![c].at = "save", ![c].dock = <<k.n, j>>]
      PROVE  NetworksInv'
  <2>1. PICK i : i = <<k.n, j>>
    OBVIOUS
  <2>2. i \in DockIds /\ i[1] = k.n /\ i # NoDock
    BY <1>1, <1>3, <2>1, DockFacts
  <2>3. PICK m : m = [k EXCEPT !.at = "save", !.dock = i]
    OBVIOUS
  <2>4. m \in CallType
    <3>1. i \in DockIds \cup {NoDock} /\ "save" \in Steps
      BY <2>2, StepFacts
    <3> HIDE DEF k
    <3>2. QED
      BY <1>1, <2>3, <3>1, DockStep
  <2>5. m.op = "attach" /\ m.at = "save" /\ m.n = k.n /\ m.d = k.d /\ m.dock = i
    BY <1>1, <2>3 DEF CallType
  <2>6. CallOK(m)
    BY <1>1, <2>2, <2>5, StepFacts DEF CallOK
  <2>7. call' = [call EXCEPT ![c] = m]
    BY <1>1, <1>3, <2>1, <2>3 DEF CallsOK
  <2>8. CallsOK'
    BY <1>1, <2>4, <2>6, <2>7, PutStep
  <2>9. DockerTypes'
    BY <1>1, <1>3, InvParts DEF MakeDock, DockerTypes, dockerPeer
  <2>10. RowTypes' /\ PeerTypes' /\ HistoryTypes'
    BY InvParts, SameRows, SamePeerings, HistoryStep DEF MakeDock
  <2>11. RowOwners' /\ DockerOwners'
    BY InvParts, SameOwners, FewerContainers DEF MakeDock, netRows, peerRows, tasks, dockerPeer
  <2>12. QED
    BY <2>8, <2>9, <2>10, <2>11, InvPartsNext
<1>4. QED
  BY <1>2, <1>3 DEF MakeDock

LEMMA SaveDockInv ==
  ASSUME NetworksInv, NEW c \in Calls, SaveDock(c)
  PROVE  NetworksInv'
<1> DEFINE k == call[c]
<1>1. /\ k.op = "attach" /\ k.at = "save" /\ k.n \in Nets /\ Owner[k.d] = Owner[k.n]
      /\ CallsOK /\ CallOK(k)
  BY Attaching, InvParts, StepFacts DEF SaveDock, CallsOK, At
<1>2. k.dock \in DockIds /\ k.dock[1] = k.n /\ k.dock # NoDock
  BY <1>1, Attaching, StepFacts DEF SaveDock, CallOK
<1>3. CallsOK' /\ HistoryTypes'
  BY <1>1, <1>2, GotoStep, InvParts, HistoryStep, StepFacts DEF SaveDock
<1>4. RowTypes'
  BY <1>2, InvParts DEF SaveDock, RowTypes
<1>5. PeerTypes' /\ DockerTypes' /\ DockerOwners'
  BY InvParts, SamePeerings, SameDocker, FewerContainers DEF SaveDock, dockerNets, dockerPeer
<1>6. RowOwners'
  <2>1. \A n \in Nets : dock'[n] = dock[n] \/ (n = k.n /\ dock'[n] = k.dock)
    BY InvParts DEF SaveDock, RowTypes
  <2>2. \A n \in Nets : dock'[n] # NoDock => dock'[n][1] = n
    BY <1>2, <2>1, InvParts DEF RowOwners
  <2>3. QED
    BY <2>2, InvParts DEF RowOwners, PeerRow, Working, SaveDock, peerRows, tasks
<1>7. QED
  BY <1>3, <1>4, <1>5, <1>6, InvPartsNext

LEMMA SaveSubnetInv ==
  ASSUME NetworksInv, NEW c \in Calls, SaveSubnet(c)
  PROVE  NetworksInv'
<1> DEFINE k == call[c]
<1>1. /\ k.op = "attach" /\ k.at = "subnet" /\ k.n \in Nets /\ Owner[k.d] = Owner[k.n]
      /\ CallsOK /\ CallOK(k)
  BY Attaching, InvParts, StepFacts DEF SaveSubnet, CallsOK, At
<1>2. k.dock \in Subnets /\ k.dock # NoDock
  BY <1>1, Attaching, StepFacts DEF SaveSubnet, CallOK
<1>3. CallsOK' /\ HistoryTypes'
  BY <1>1, <1>2, GotoStep, InvParts, HistoryStep, StepFacts DEF SaveSubnet
<1>4. RowTypes'
  BY <1>2, InvParts, StepFacts DEF SaveSubnet, RowTypes
<1>5. outdated' \subseteq Peerings
  BY InvParts DEF SaveSubnet, PeeringsOf, DockerTypes
<1>6. PeerTypes' /\ DockerTypes' /\ DockerOwners'
  BY <1>5, InvParts, SamePeerings, FewerContainers DEF SaveSubnet, DockerTypes, dockerNets
<1>7. RowOwners'
  BY InvParts, SameOwners DEF SaveSubnet, peerRows, tasks
<1>8. QED
  BY <1>3, <1>4, <1>6, <1>7, InvPartsNext

LEMMA JoinInv ==
  ASSUME NetworksInv, NEW c \in Calls, Join(c)
  PROVE  NetworksInv'
<1> DEFINE k == call[c]
<1>1. /\ k.op = "attach" /\ k.at = "join" /\ k.n \in Nets /\ k.d \in Dbs
      /\ Owner[k.d] = Owner[k.n] /\ CallsOK /\ CallOK(k)
  BY Attaching, InvParts, StepFacts DEF Join, CallsOK, At
<1>2. k.dock \in DockIds /\ k.dock[1] = k.n
  BY <1>1, Attaching, StepFacts DEF Join, CallOK
<1>3. CallsOK' /\ HistoryTypes'
  BY <1>1, FinishStep, GotoStep, InvParts, HistoryStep, StepFacts DEF Join
<1>4. joined' \subseteq joined \cup {<<k.d, k.dock>>}
  BY DEF Join
<1>5. DockerTypes'
  <2>1. joined' \subseteq Dbs \X DockIds
    BY <1>1, <1>2, <1>4, InvParts DEF DockerTypes
  <2>2. QED
    BY <2>1, InvParts DEF Join, DockerTypes, dockerPeer
<1>6. DockerOwners'
  <2>1. <<k.d, k.dock>>[1] = k.d /\ <<k.d, k.dock>>[2] = k.dock
    OBVIOUS
  <2>2. \A l \in joined' : Owner[l[1]] = Owner[l[2][1]]
    BY <1>1, <1>2, <1>4, <2>1, InvParts DEF DockerOwners
  <2>3. QED
    BY <2>2, InvParts DEF Join, DockerOwners, dockerPeer
<1>7. RowTypes' /\ PeerTypes' /\ RowOwners'
  BY InvParts, SameRows, SamePeerings, SameOwners DEF Join, netRows, peerRows, tasks
<1>8. QED
  BY <1>3, <1>5, <1>6, <1>7, InvPartsNext

LEMMA AddMemberInv ==
  ASSUME NetworksInv, NEW c \in Calls, AddMember(c)
  PROVE  NetworksInv'
<1> DEFINE k == call[c]
<1>1. /\ k.op = "attach" /\ k.n \in Nets /\ k.d \in Dbs
      /\ Owner[k.d] = Owner[k.n] /\ CallsOK
  BY Attaching, InvParts, StepFacts DEF AddMember
<1>2. CallsOK' /\ HistoryTypes'
  BY <1>1, FinishStep, GotoStep, InvParts, HistoryStep, StepFacts DEF AddMember
<1>3. members' = members \/ members' = [members EXCEPT ![k.n] = @ \cup {k.d}]
  BY DEF AddMember
<1>4. RowTypes'
  BY <1>1, <1>3, InvParts DEF AddMember, RowTypes
<1>5. RowOwners'
  <2>1. \A n \in Nets : \A d \in members'[n] : d \in members[n] \/ (n = k.n /\ d = k.d)
    BY <1>3, InvParts DEF RowTypes
  <2>2. \A n \in Nets : \A d \in members'[n] : Owner[d] = Owner[n]
    BY <1>1, <2>1, InvParts DEF RowOwners
  <2>3. QED
    BY <2>2, InvParts DEF RowOwners, PeerRow, Working, AddMember, peerRows, tasks
<1>6. PeerTypes' /\ DockerTypes' /\ DockerOwners'
  BY InvParts, SamePeerings, SameDocker, FewerContainers DEF AddMember, dockerNets, dockerPeer
<1>7. QED
  BY <1>2, <1>4, <1>5, <1>6, InvPartsNext

(* A step that moves requests on and changes Docker.                       *)
LEMMA OnlyDocker ==
  ASSUME NetworksInv, CallsOK', HistoryTypes', DockerTypes', DockerOwners',
         UNCHANGED <<db, netRows, peerRows, tasks>>
  PROVE  NetworksInv'
<1>1. RowTypes' /\ PeerTypes'
  BY InvParts, SameRows, SamePeerings
<1>2. RowOwners'
  BY InvParts, SameOwners DEF netRows, peerRows, tasks
<1>3. QED
  BY <1>1, <1>2, InvPartsNext

(* One that moves requests on and takes containers off networks.           *)
LEMMA OnlyLeaving ==
  ASSUME NetworksInv, CallsOK', HistoryTypes', joined' \subseteq joined,
         bridged' \subseteq bridged,
         UNCHANGED <<db, netRows, peerRows, docks, bridges, table, scope, outdated, tasks>>
  PROVE  NetworksInv'
<1>1. DockerTypes'
  BY InvParts DEF DockerTypes
<1>2. DockerOwners'
  BY InvParts, FewerContainers
<1>3. QED
  BY <1>1, <1>2, OnlyDocker

(* Peerings that have a row connect networks of one owner.                 *)
LEMMA PeeringOwners ==
  ASSUME NetworksInv, NEW n \in Nets, NEW p \in PeeringsOf(n)
  PROVE  p \in Peerings /\ Owner[Ends[p][1]] = Owner[n]
<1>1. p \in Peerings /\ PeerRow(p) /\ n \in EndsOf(p)
  BY DEF PeeringsOf
<1>2. Owner[Ends[p][1]] = Owner[Ends[p][2]]
  BY <1>1, InvParts DEF PeerRow, RowOwners
<1>3. QED
  BY <1>1, <1>2, EndFacts

LEMMA SyncInv ==
  ASSUME NetworksInv, NEW c \in Calls, SyncBridges(c)
  PROVE  NetworksInv'
<1> DEFINE k == call[c]
           new == {<<k.d, p>> : p \in {q \in ActiveBridges(k.n) : CanBridge(k.d, q, k.host)}}
<1>1. /\ k.op = "attach" /\ k.n \in Nets /\ k.d \in Dbs
      /\ Owner[k.d] = Owner[k.n] /\ CallsOK /\ HistoryTypes
  BY Attaching, InvParts, StepFacts DEF SyncBridges
<1>2. CallsOK'
  BY <1>1, FinishStep DEF SyncBridges
<1>3. {k.n} \cup ActiveBridges(k.n) \subseteq Nets \cup Peerings
  BY <1>1 DEF ActiveBridges, PeeringsOf
<1>4. HistoryTypes'
  BY <1>1, <1>3, HistoryStep DEF SyncBridges
<1>5. \A l \in new : l \in Dbs \X Peerings /\ Owner[l[1]] = Owner[Ends[l[2]][1]]
  <2>1. SUFFICES ASSUME NEW p \in ActiveBridges(k.n)
                 PROVE  /\ <<k.d, p>> \in Dbs \X Peerings
                        /\ Owner[<<k.d, p>>[1]] = Owner[Ends[<<k.d, p>>[2]][1]]
    OBVIOUS
  <2>2. p \in PeeringsOf(k.n)
    BY <2>1 DEF ActiveBridges
  <2>3. QED
    BY <1>1, <2>2, PeeringOwners
<1>6. bridged' \subseteq bridged \cup new
  <2>1. bridged' = bridged \cup new \/ bridged' = bridged
    BY DEF SyncBridges
  <2>2. QED
    BY <2>1
<1>7. DockerTypes' /\ DockerOwners'
  <2> HIDE DEF new
  <2>1. bridged' \subseteq Dbs \X Peerings
    BY <1>5, <1>6, InvParts DEF DockerTypes
  <2>2. \A l \in bridged' : Owner[l[1]] = Owner[Ends[l[2]][1]]
    BY <1>5, <1>6, InvParts DEF DockerOwners
  <2>3. QED
    BY <2>1, <2>2, InvParts DEF SyncBridges, DockerTypes, DockerOwners, dockerNets
<1>8. QED
  BY <1>2, <1>4, <1>7, OnlyDocker DEF SyncBridges

-----------------------------------------------------------------------------
(* detach_database *)

(* The parameters of a request about a network or about a peering.         *)
LEMMA CallFacts ==
  ASSUME NetworksInv, NEW c \in Calls
  PROVE  /\ CallsOK /\ HistoryTypes /\ call[c] \in CallType /\ CallOK(call[c])
         /\ call[c].op \in NetCalls => call[c].n \in Nets
         /\ call[c].op \in PeerCalls \cup {"peer"} => call[c].p \in Peerings
BY InvParts DEF CallsOK, CallOK

LEMMA LeaveInv ==
  ASSUME NetworksInv, NEW c \in Calls, Leave(c)
  PROVE  NetworksInv'
<1> DEFINE k == call[c]
<1>1. k.op = "detach" /\ k.n \in Nets /\ CallsOK /\ HistoryTypes
  BY CallFacts, StepFacts DEF Leave, At
<1>2. CallsOK'
  BY <1>1, GotoStep, StepFacts DEF Leave
<1>3. HistoryTypes'
  BY <1>1, HistoryStep DEF Leave
<1>4. joined' \subseteq joined
  BY DEF Leave
<1>5. QED
  BY <1>2, <1>3, <1>4, OnlyLeaving DEF Leave, dockerPeer

LEMMA UnbridgeInv ==
  ASSUME NetworksInv, NEW c \in Calls, Unbridge(c)
  PROVE  NetworksInv'
<1> DEFINE k == call[c]
           both == {p \in ActiveBridges(k.n) : \E m \in EndsOf(p) \ {k.n} : k.d \in members[m]}
<1>1. k.op = "detach" /\ k.n \in Nets /\ CallsOK /\ HistoryTypes
  BY CallFacts, StepFacts DEF Unbridge, At
<1>2. CallsOK'
  BY <1>1, GotoStep, StepFacts DEF Unbridge
<1>3. {k.n} \cup ActiveBridges(k.n) \subseteq Nets \cup Peerings
      /\ both \subseteq Nets \cup Peerings
  BY <1>1 DEF ActiveBridges, PeeringsOf
<1>4. /\ bridged' \subseteq bridged
      /\ \/ disturbed' = disturbed \cup both /\ UNCHANGED faults
         \/ FaultOn({k.n} \cup ActiveBridges(k.n))
  BY DEF Unbridge
<1>5. HistoryTypes'
  <2>1. CASE disturbed' = disturbed \cup both /\ UNCHANGED faults
    BY <1>1, <1>3, <2>1 DEF HistoryTypes
  <2>2. CASE FaultOn({k.n} \cup ActiveBridges(k.n))
    BY <1>1, <1>3, <2>2, HistoryStep
  <2>3. QED
    BY <1>4, <2>1, <2>2
<1>6. QED
  BY <1>2, <1>4, <1>5, OnlyLeaving DEF Unbridge, dockerNets

(* Fewer members.                                                          *)
LEMMA FewerMembers ==
  ASSUME NetworksInv, members' \in [Nets -> SUBSET Dbs],
         \A n \in Nets : members'[n] \subseteq members[n],
         UNCHANGED <<dock, peer, task, todo>>
  PROVE  RowOwners'
<1>1. \A n \in Nets : \A d \in members'[n] : Owner[d] = Owner[n]
  BY InvParts DEF RowOwners
<1>2. QED
  BY <1>1, InvParts DEF RowOwners, PeerRow, Working

LEMMA RemoveMemberInv ==
  ASSUME NetworksInv, NEW c \in Calls, RemoveMember(c)
  PROVE  NetworksInv'
<1>1. CallsOK' /\ HistoryTypes'
  BY InvParts, FinishStep, HistoryStep DEF RemoveMember
<1>2. members' \in [Nets -> SUBSET Dbs] /\ \A n \in Nets : members'[n] \subseteq members[n]
  BY InvParts DEF RemoveMember, RowTypes
<1>3. RowTypes' /\ RowOwners'
  BY <1>2, InvParts, FewerMembers DEF RemoveMember, RowTypes, peerRows, tasks
<1>4. PeerTypes' /\ DockerTypes' /\ DockerOwners'
  BY InvParts, SamePeerings, SameDocker, FewerContainers DEF RemoveMember, dockerNets, dockerPeer
<1>5. QED
  BY <1>1, <1>3, <1>4, InvPartsNext

-----------------------------------------------------------------------------
(* create_peering and its task *)

(* A step on the rows and the task of peerings.                            *)
LEMMA OnlyPeerings ==
  ASSUME NetworksInv, CallsOK', HistoryTypes', PeerTypes', RowOwners',
         UNCHANGED <<db, netRows, dockerNets, dockerPeer>>
  PROVE  NetworksInv'
<1>1. RowTypes' /\ DockerTypes'
  BY InvParts, SameRows, SameDocker
<1>2. DockerOwners'
  BY InvParts, FewerContainers DEF dockerNets, dockerPeer
<1>3. QED
  BY <1>1, <1>2, InvPartsNext

(* Peerings and tasks that begin are those of networks with one owner.     *)
LEMMA PeeringsGoOn ==
  ASSUME NetworksInv, UNCHANGED <<dock, members, todo>>,
         \A p \in Peerings : \/ /\ PeerRow(p)' => PeerRow(p)
                                /\ Working(p)' => Working(p)
                             \/ Owner[Ends[p][1]] = Owner[Ends[p][2]]
  PROVE  RowOwners'
BY InvParts DEF RowOwners

LEMMA InsertPeeringInv ==
  ASSUME NetworksInv, NEW c \in Calls, InsertPeering(c)
  PROVE  NetworksInv'
<1> DEFINE q == call[c].p
<1>1. /\ call[c].op = "peer" /\ q \in Peerings /\ Owner[Ends[q][1]] = Owner[Ends[q][2]]
      /\ call[c].host \in Hosts
  BY CallFacts, StepFacts DEF InsertPeering, At, CallOK, CallType
<1>2. CallsOK' /\ HistoryTypes'
  BY InvParts, FinishStep, HistoryStep DEF InsertPeering
<1>3. \/ /\ peer' = [peer EXCEPT ![q] = "pending"]
         /\ pserver' = [pserver EXCEPT ![q] = call[c].host]
         /\ task' = [task EXCEPT ![q] = "spawned"]
      \/ UNCHANGED <<peer, pserver, task>>
  BY DEF InsertPeering
<1>4. UNCHANGED <<db, netRows, bridge, rules, dockerNets, dockerPeer, todo>>
  BY DEF InsertPeering
<1>5. PeerTypes'
  BY <1>1, <1>3, <1>4, StepFacts, InvParts DEF PeerTypes
<1>6. \A p \in Peerings : p = q \/ (peer'[p] = peer[p] /\ task'[p] = task[p])
  BY <1>3, InvParts DEF PeerTypes
<1>7. RowOwners'
  BY <1>1, <1>4, <1>6, PeeringsGoOn DEF netRows, PeerRow, Working
<1>8. QED
  BY <1>2, <1>4, <1>5, <1>7, OnlyPeerings

(* A task that runs belongs to networks of one owner.                      *)
LEMMA TaskFacts ==
  ASSUME NetworksInv, NEW p \in Peerings
  PROVE  /\ CallsOK /\ HistoryTypes
         /\ TaskUses(p) \subseteq Nets \cup Peerings /\ {p} \subseteq Nets \cup Peerings
         /\ task[p] \in TaskSteps => Owner[Ends[p][1]] = Owner[Ends[p][2]]
BY InvParts, InUseTyped, StepFacts DEF RowOwners, PeerRow, Working

LEMMA TaskHistory ==
  ASSUME NetworksInv, NEW p \in Peerings, UNCHANGED call, NoFault \/ FaultOn(TaskUses(p))
  PROVE  CallsOK' /\ HistoryTypes'
<1>1. CallsOK'
  BY TaskFacts DEF CallsOK
<1>2. HistoryTypes'
  BY TaskFacts, HistoryStep
<1>3. QED
  BY <1>1, <1>2

LEMMA MakeBridgeInv ==
  ASSUME NetworksInv, NEW p \in Peerings, MakeBridge(p)
  PROVE  NetworksInv'
<1>1. CallsOK' /\ HistoryTypes'
  BY TaskHistory DEF MakeBridge
<1>2. /\ UNCHANGED <<db, netRows, pserver, bridge, rules, dockerNets, bridged, todo>>
      /\ UNCHANGED <<table, scope, outdated>>
  BY DEF MakeBridge
<1>3. /\ bridges' = bridges \/ bridges' = bridges \cup {p}
      /\ peer' = peer \/ peer' = [peer EXCEPT ![p] = "error"]
      /\ \/ task' = [task EXCEPT ![p] = "made"] \/ task' = [task EXCEPT ![p] = "done"]
         \/ task' = [task EXCEPT ![p] = "lost"]
  BY DEF MakeBridge, SetPeerStatus
<1>4. PeerTypes'
  <2>1. peer' \in [Peerings -> {"unborn", "pending", "active", "error", "gone"}]
    BY <1>3, InvParts DEF PeerTypes
  <2>2. task' \in [Peerings -> {None, "done", "lost"} \cup TaskSteps]
    BY <1>3, StepFacts, InvParts DEF PeerTypes
  <2>3. QED
    BY <1>2, <2>1, <2>2, InvParts DEF PeerTypes
<1>5. DockerTypes'
  BY <1>2, <1>3, InvParts DEF DockerTypes, dockerNets
<1>6. Owner[Ends[p][1]] = Owner[Ends[p][2]]
  BY TaskFacts, StepFacts DEF MakeBridge
<1>7. \A q \in Peerings : q = p \/ (peer'[q] = peer[q] /\ task'[q] = task[q])
  BY <1>3, InvParts DEF PeerTypes
<1>8. RowOwners'
  BY <1>2, <1>6, <1>7, PeeringsGoOn DEF netRows, PeerRow, Working
<1>9. RowTypes' /\ DockerOwners'
  BY <1>2, InvParts, SameRows, FewerContainers DEF dockerNets
<1>10. QED
  BY <1>1, <1>4, <1>5, <1>8, <1>9, InvPartsNext

LEMMA SaveBridgeInv ==
  ASSUME NetworksInv, NEW p \in Peerings, SaveBridge(p)
  PROVE  NetworksInv'
<1>1. CallsOK' /\ HistoryTypes'
  BY TaskHistory DEF SaveBridge
<1>2. /\ UNCHANGED <<db, netRows, peer, pserver, rules, dockerNets, dockerPeer, todo>>
      /\ task' = [task EXCEPT ![p] = "saved"]
      /\ bridge' = bridge \/ bridge' = [bridge EXCEPT ![p] = PeerRow(p)]
  BY DEF SaveBridge
<1>3. PeerRow(p) \in BOOLEAN
  BY DEF PeerRow
<1>4. bridge' \in [Peerings -> BOOLEAN]
  BY <1>2, <1>3, InvParts DEF PeerTypes
<1>5. PeerTypes'
  BY <1>2, <1>4, StepFacts, InvParts DEF PeerTypes
<1>6. Owner[Ends[p][1]] = Owner[Ends[p][2]]
  BY TaskFacts, StepFacts DEF SaveBridge
<1>7. \A q \in Peerings : q = p \/ (peer'[q] = peer[q] /\ task'[q] = task[q])
  BY <1>2, InvParts DEF PeerTypes
<1>8. RowOwners'
  BY <1>2, <1>6, <1>7, PeeringsGoOn DEF netRows, PeerRow, Working
<1>9. QED
  BY <1>1, <1>2, <1>5, <1>8, OnlyPeerings

LEMMA ReadMembersInv ==
  ASSUME NetworksInv, NEW p \in Peerings, ReadMembers(p)
  PROVE  NetworksInv'
<1>1. CallsOK' /\ HistoryTypes'
  BY TaskHistory DEF ReadMembers
<1>2. UNCHANGED <<db, netRows, peerRows, dockerNets, dockerPeer>> /\ task[p] \in TaskSteps
  BY StepFacts DEF ReadMembers
<1>3. ASSUME NEW n \in {Ends[p][1], Ends[p][2]}, NEW s \in TaskSteps,
             task' = [task EXCEPT ![p] = s], todo' = [todo EXCEPT ![p] = members[n]]
      PROVE  PeerTypes' /\ RowOwners'
  <2>1. n \in Nets /\ members[n] \in SUBSET Dbs
    BY EndFacts, InvParts DEF RowTypes
  <2>2. PeerTypes'
    BY <1>2, <1>3, <2>1, InvParts DEF PeerTypes, peerRows
  <2>3. Owner[Ends[p][1]] = Owner[Ends[p][2]]
    BY <1>2, TaskFacts
  <2>4. \A d \in members[n] : Owner[d] = Owner[Ends[p][1]]
    BY <2>1, <2>3, InvParts DEF RowOwners
  <2>5. \A q \in Peerings : (q = p /\ todo'[q] = members[n])
                            \/ (todo'[q] = todo[q] /\ task'[q] = task[q])
    BY <1>3, InvParts DEF PeerTypes
  <2>6. RowOwners'
    BY <1>2, <2>3, <2>4, <2>5, InvParts DEF RowOwners, PeerRow, Working, netRows, peerRows
  <2>7. QED
    BY <2>2, <2>6
<1>4. PeerTypes' /\ RowOwners'
  BY <1>3, StepFacts DEF ReadMembers
<1>5. QED
  BY <1>1, <1>2, <1>4, OnlyPeerings

LEMMA ConnectMemberInv ==
  ASSUME NetworksInv, NEW p \in Peerings, NEW d \in Dbs, ConnectMember(p, d)
  PROVE  NetworksInv'
<1>1. CallsOK' /\ HistoryTypes'
  BY TaskHistory DEF ConnectMember
<1>2. /\ d \in todo[p] /\ todo' = [todo EXCEPT ![p] = @ \ {d}]
      /\ UNCHANGED <<db, netRows, peerRows, dockerNets, bridges, table, scope, outdated, task>>
  BY DEF ConnectMember
<1>3. bridged' \subseteq bridged \cup {<<d, p>>}
  BY DEF ConnectMember
<1>4. PeerTypes' /\ \A q \in Peerings : todo'[q] \subseteq todo[q]
  BY <1>2, InvParts DEF PeerTypes, peerRows
<1>5. RowOwners'
  BY <1>2, <1>4, InvParts DEF RowOwners, PeerRow, Working, netRows, peerRows
<1>6. Owner[d] = Owner[Ends[p][1]]
  BY <1>2, InvParts DEF RowOwners
<1>7. DockerTypes'
  <2>1. bridged' \subseteq Dbs \X Peerings
    BY <1>3, InvParts DEF DockerTypes
  <2>2. QED
    BY <1>2, <2>1, InvParts DEF DockerTypes, dockerNets
<1>8. DockerOwners'
  <2>1. <<d, p>>[1] = d /\ <<d, p>>[2] = p
    OBVIOUS
  <2>2. \A l \in bridged' : Owner[l[1]] = Owner[Ends[l[2]][1]]
    BY <1>3, <1>6, <2>1, InvParts DEF DockerOwners
  <2>3. QED
    BY <1>2, <2>2, InvParts DEF DockerOwners, dockerNets
<1>9. RowTypes'
  BY <1>2, InvParts, SameRows
<1>10. QED
  BY <1>1, <1>4, <1>5, <1>7, <1>8, <1>9, InvPartsNext

LEMMA ActivateInv ==
  ASSUME NetworksInv, NEW p \in Peerings, Activate(p)
  PROVE  NetworksInv'
<1>1. CallsOK' /\ HistoryTypes'
  BY TaskHistory DEF Activate
<1>2. /\ UNCHANGED <<db, netRows, pserver, bridge, rules, dockerNets, dockerPeer, todo>>
      /\ task[p] = "second"
      /\ peer' = peer \/ peer' = [peer EXCEPT ![p] = "active"]
      /\ task' = [task EXCEPT ![p] = "done"] \/ task' = [task EXCEPT ![p] = "lost"]
  BY DEF Activate, SetPeerStatus
<1>3. PeerTypes'
  BY <1>2, StepFacts, InvParts DEF PeerTypes
<1>4. Owner[Ends[p][1]] = Owner[Ends[p][2]]
  BY <1>2, TaskFacts, StepFacts
<1>5. \A q \in Peerings : q = p \/ (peer'[q] = peer[q] /\ task'[q] = task[q])
  BY <1>2, InvParts DEF PeerTypes
<1>6. RowOwners'
  BY <1>2, <1>4, <1>5, PeeringsGoOn DEF netRows, PeerRow, Working
<1>7. QED
  BY <1>1, <1>2, <1>3, <1>6, OnlyPeerings

-----------------------------------------------------------------------------
(* delete_peering, delete_network *)

LEMMA ListPeeringsInv ==
  ASSUME NetworksInv, NEW c \in Calls, ListPeerings(c)
  PROVE  NetworksInv'
<1> DEFINE k == call[c]
           list == {<<p, bridge[p]>> : p \in PeeringsOf(k.n)}
<1>1. k.op = "drop" /\ k \in CallType /\ CallOK(k) /\ CallsOK /\ HistoryTypes
  BY CallFacts DEF ListPeerings, At
<1>2. list \in SUBSET (Peerings \X BOOLEAN)
  <2>1. \A p \in PeeringsOf(k.n) : <<p, bridge[p]>> \in Peerings \X BOOLEAN
    BY InvParts DEF PeeringsOf, PeerTypes
  <2>2. QED
    BY <2>1
<1>3. PICK m : m = [k EXCEPT !.at = "peerings", !.list = list]
  OBVIOUS
<1>4. m \in CallType
  <2> HIDE DEF list
  <2>1. QED
    BY <1>1, <1>2, <1>3, ListStep, StepFacts
<1>5. m.op = "drop" /\ m.n = k.n /\ m.dock = k.dock
  BY <1>1, <1>3 DEF CallType
<1>6. CallOK(m)
  BY <1>1, <1>5, StepFacts DEF CallOK
<1>7. call' = [call EXCEPT ![c] = m]
  BY <1>1, <1>3 DEF ListPeerings, CallsOK
<1>8. CallsOK'
  BY <1>1, <1>4, <1>6, <1>7, PutStep
<1>9. HistoryTypes'
  BY <1>1, HistoryStep DEF ListPeerings
<1>10. QED
  BY <1>8, <1>9, OnlyRequests DEF ListPeerings

(* The list of a deletion gets shorter, or a bridge is crossed off it.     *)
LEMMA ListShrinks ==
  ASSUME NetworksInv, NEW c \in Calls, NEW l \in SUBSET (Peerings \X BOOLEAN),
         call[c].at = "peerings", call' = [call EXCEPT ![c].list = l]
  PROVE  CallsOK'
<1> DEFINE k == call[c]
<1>1. k \in CallType /\ CallOK(k) /\ CallsOK
  BY CallFacts
<1>2. PICK m : m = [k EXCEPT !.list = l]
  OBVIOUS
<1>3. m \in CallType
  BY <1>1, <1>2 DEF CallType
<1>4. /\ m.op = k.op /\ m.at = k.at /\ m.n = k.n /\ m.d = k.d /\ m.p = k.p /\ m.r = k.r
      /\ m.dock = k.dock
  BY <1>1, <1>2 DEF CallType
<1>5. CallOK(m)
  BY <1>1, <1>4 DEF CallOK
<1>6. call' = [call EXCEPT ![c] = m]
  BY <1>1, <1>2 DEF CallsOK
<1>7. QED
  BY <1>1, <1>3, <1>5, <1>6, PutStep

LEMMA TakeDownBridgeInv ==
  ASSUME NetworksInv, NEW c \in Calls, NEW p \in Peerings, TakeDownBridge(c, p)
  PROVE  NetworksInv'
<1> DEFINE list == (call[c].list \ {<<p, TRUE>>}) \cup {<<p, FALSE>>}
<1>1. call[c] \in CallType /\ CallsOK /\ HistoryTypes
  BY CallFacts
<1>2. list \in SUBSET (Peerings \X BOOLEAN)
  <2>1. call[c].list \subseteq Peerings \X BOOLEAN
    BY <1>1 DEF CallType
  <2>2. <<p, FALSE>> \in Peerings \X BOOLEAN
    OBVIOUS
  <2>3. QED
    BY <2>1, <2>2
<1>3. CallsOK'
  <2>1. call' = [call EXCEPT ![c].list = list]
    BY <1>1 DEF TakeDownBridge, CallsOK
  <2>2. QED
    BY <1>2, <2>1, ListShrinks DEF TakeDownBridge
<1>4. HistoryTypes'
  BY <1>1, HistoryStep DEF TakeDownBridge
<1>5. /\ bridged' \subseteq bridged /\ bridges' \subseteq bridges
      /\ table' = table \/ table' = [table EXCEPT ![p] = NoTable]
      /\ scope' = scope \/ scope' = [scope EXCEPT ![p] = Anywhere]
      /\ outdated' \subseteq outdated
      /\ UNCHANGED <<db, netRows, peerRows, dockerNets, tasks>>
  BY DEF TakeDownBridge, dockerPeer
<1>6. DockerTypes'
  BY <1>5, InvParts, StepFacts DEF DockerTypes, dockerNets
<1>7. DockerOwners'
  BY <1>5, InvParts, FewerContainers DEF dockerNets
<1>8. QED
  BY <1>3, <1>4, <1>5, <1>6, <1>7, OnlyDocker

LEMMA DeletePeeringInv ==
  ASSUME NetworksInv, NEW c \in Calls, NEW p \in Peerings, DeletePeering(c, p)
  PROVE  NetworksInv'
<1> DEFINE list == call[c].list \ {<<p, FALSE>>}
<1>1. call[c] \in CallType /\ CallsOK /\ HistoryTypes
  BY CallFacts
<1>2. list \in SUBSET (Peerings \X BOOLEAN)
  BY <1>1 DEF CallType
<1>3. CallsOK'
  <2>1. call' = [call EXCEPT ![c].list = list]
    BY <1>1 DEF DeletePeering, CallsOK
  <2>2. QED
    BY <1>2, <2>1, ListShrinks DEF DeletePeering
<1>4. HistoryTypes'
  BY <1>1, HistoryStep DEF DeletePeering
<1>5. PeerTypes'
  BY InvParts DEF DeletePeering, PeerTypes, tasks
<1>6. RowOwners'
  <2>1. \A q \in Peerings : (PeerRow(q)' => PeerRow(q)) /\ (Working(q)' => Working(q))
    BY InvParts DEF DeletePeering, PeerTypes, PeerRow, Working, tasks
  <2>2. QED
    BY <2>1, PeeringsGoOn DEF DeletePeering, netRows, tasks
<1>7. QED
  BY <1>3, <1>4, <1>5, <1>6, OnlyPeerings DEF DeletePeering

LEMMA PeeringsDeletedInv ==
  ASSUME NetworksInv, NEW c \in Calls, PeeringsDeleted(c)
  PROVE  NetworksInv'
<1>1. CallsOK /\ HistoryTypes
  BY CallFacts
<1>2. HistoryTypes'
  BY <1>1, HistoryStep DEF PeeringsDeleted
<1>3. CallsOK'
  <2>1. CASE call[c].op = "unpeer" /\ Finish(c)
    BY <1>1, <2>1, FinishStep
  <2>2. CASE call[c].op = "drop" /\ Goto(c, "undock")
    BY <1>1, <2>2, GotoStep, StepFacts
  <2>3. QED
    BY <2>1, <2>2 DEF PeeringsDeleted
<1>4. QED
  BY <1>2, <1>3, OnlyRequests DEF PeeringsDeleted

LEMMA TakeDownNetworkInv ==
  ASSUME NetworksInv, NEW c \in Calls, TakeDownNetwork(c)
  PROVE  NetworksInv'
<1> DEFINE k == call[c]
<1>1. /\ k.op = "drop" /\ k.n \in Nets /\ CallsOK /\ HistoryTypes
      /\ k.dock \in DockIds \cup {NoDock}
  BY CallFacts, StepFacts DEF TakeDownNetwork, At, CallType
<1>2. CallsOK'
  BY <1>1, GotoStep, StepFacts DEF TakeDownNetwork
<1>3. HistoryTypes'
  BY <1>1, HistoryStep DEF TakeDownNetwork
<1>4. /\ joined' \subseteq joined
      /\ docks' = docks \/ (k.dock # NoDock /\ docks' = [docks EXCEPT ![k.dock] = "removed"])
      /\ UNCHANGED <<db, netRows, peerRows, dockerPeer, tasks>>
  BY DEF TakeDownNetwork, dockerNets
<1>5. DockerTypes'
  BY <1>1, <1>4, InvParts DEF DockerTypes, dockerPeer
<1>6. DockerOwners'
  BY <1>4, InvParts, FewerContainers DEF dockerPeer
<1>7. QED
  BY <1>2, <1>3, <1>4, <1>5, <1>6, OnlyDocker

LEMMA DeleteNetworkInv ==
  ASSUME NetworksInv, NEW c \in Calls, DeleteNetwork(c)
  PROVE  NetworksInv'
<1> DEFINE n == call[c].n
<1>1. CallsOK' /\ HistoryTypes'
  BY InvParts, FinishStep, HistoryStep DEF DeleteNetwork
<1>2. RowTypes'
  BY InvParts, StepFacts DEF DeleteNetwork, RowTypes
<1>3. PeerTypes'
  <2>1. peer' \in [Peerings -> {"unborn", "pending", "active", "error", "gone"}]
    BY InvParts DEF DeleteNetwork, PeerTypes
  <2>2. bridge' \in [Peerings -> BOOLEAN]
    <3>1. \A p \in Peerings : (bridge[p] /\ p \notin PeeringsOf(n)) \in BOOLEAN
      OBVIOUS
    <3>2. bridge' = [p \in Peerings |-> bridge[p] /\ p \notin PeeringsOf(n)]
      BY DEF DeleteNetwork
    <3>3. QED
      BY <3>1, <3>2, Zenon
  <2>3. rules' \in [Peerings -> SUBSET Rules]
    BY InvParts DEF DeleteNetwork, PeerTypes
  <2>4. QED
    BY <2>1, <2>2, <2>3, InvParts DEF DeleteNetwork, PeerTypes, tasks
<1>4. RowOwners'
  <2>1. \A m \in Nets : members'[m] \subseteq members[m]
    BY InvParts DEF DeleteNetwork, RowTypes
  <2>2. \A p \in Peerings : (PeerRow(p)' => PeerRow(p)) /\ (Working(p)' <=> Working(p))
    BY DEF DeleteNetwork, PeerRow, Working, tasks
  <2>3. QED
    BY <2>1, <2>2, InvParts DEF DeleteNetwork, RowOwners, tasks
<1>5. DockerTypes' /\ DockerOwners'
  BY InvParts, SameDocker, FewerContainers DEF DeleteNetwork, dockerNets, dockerPeer
<1>6. QED
  BY <1>1, <1>2, <1>3, <1>4, <1>5, InvPartsNext

-----------------------------------------------------------------------------
(* create_firewall_rule, delete_firewall_rule *)

(* A step on the rules of one peering.                                     *)
LEMMA OnlyRules ==
  ASSUME NetworksInv, CallsOK', HistoryTypes', rules' \in [Peerings -> SUBSET Rules],
         UNCHANGED <<db, netRows, peer, pserver, bridge, dockerNets, dockerPeer, tasks>>
  PROVE  NetworksInv'
<1>1. PeerTypes'
  BY InvParts DEF PeerTypes, tasks
<1>2. RowOwners'
  BY InvParts, SameOwners DEF netRows, tasks
<1>3. QED
  BY <1>1, <1>2, OnlyPeerings

LEMMA RuleChangeStep ==
  ASSUME NetworksInv, NEW c \in Calls, call[c].op \in {"allow", "revoke"},
         AfterRuleChange(c) \/ Finish(c)
  PROVE  CallsOK'
BY CallFacts, FinishStep, GotoStep, StepFacts DEF AfterRuleChange

LEMMA InsertRuleInv ==
  ASSUME NetworksInv, NEW c \in Calls, InsertRule(c)
  PROVE  NetworksInv'
<1>1. call[c].op = "allow" /\ call[c].r \in Rules
  BY CallFacts, StepFacts DEF InsertRule, At, CallOK
<1>2. CallsOK' /\ HistoryTypes'
  BY <1>1, CallFacts, RuleChangeStep, HistoryStep DEF InsertRule
<1>3. rules' \in [Peerings -> SUBSET Rules]
  BY <1>1, InvParts DEF InsertRule, PeerTypes
<1>4. QED
  BY <1>2, <1>3, OnlyRules DEF InsertRule

LEMMA DeleteRuleInv ==
  ASSUME NetworksInv, NEW c \in Calls, DeleteRule(c)
  PROVE  NetworksInv'
<1>1. call[c].op = "revoke"
  BY DEF DeleteRule, At
<1>2. CallsOK' /\ HistoryTypes'
  BY <1>1, CallFacts, RuleChangeStep, HistoryStep DEF DeleteRule
<1>3. rules' \in [Peerings -> SUBSET Rules]
  BY InvParts DEF DeleteRule, PeerTypes
<1>4. QED
  BY <1>2, <1>3, OnlyRules DEF DeleteRule

LEMMA ReadRulesInv ==
  ASSUME NetworksInv, NEW c \in Calls, ReadRules(c)
  PROVE  NetworksInv'
<1> DEFINE k == call[c]
           both == <<subnet[Ends[k.p][1]], subnet[Ends[k.p][2]]>>
<1>1. /\ k.op \in {"allow", "revoke"} /\ k.p \in Peerings /\ k \in CallType /\ CallOK(k)
      /\ CallsOK /\ HistoryTypes
  BY CallFacts, StepFacts DEF ReadRules
<1>2. PICK m : m = [k EXCEPT !.at = "apply", !.rules = rules[k.p], !.subnets = both]
  OBVIOUS
<1>3. m \in CallType
  <2>1. rules[k.p] \in SUBSET Rules /\ "apply" \in Steps
    BY <1>1, StepFacts, InvParts DEF PeerTypes
  <2>2. both \in Subnets \X Subnets
    BY <1>1, EndFacts, InvParts DEF RowTypes
  <2> HIDE DEF both
  <2>3. QED
    BY <1>1, <1>2, <2>1, <2>2 DEF CallType
<1>4. m.op = k.op /\ m.n = k.n /\ m.p = k.p /\ m.r = k.r /\ m.dock = k.dock
  BY <1>1, <1>2 DEF CallType
<1>5. CallOK(m)
  BY <1>1, <1>4, StepFacts DEF CallOK
<1>6. call' = [call EXCEPT ![c] = m]
  BY <1>1, <1>2 DEF ReadRules, CallsOK
<1>7. CallsOK' /\ HistoryTypes'
  BY <1>1, <1>3, <1>5, <1>6, PutStep, HistoryStep DEF ReadRules
<1>8. DockerTypes' /\ DockerOwners'
  BY InvParts, FewerContainers DEF ReadRules, DockerTypes, dockerNets
<1>9. QED
  BY <1>7, <1>8, OnlyDocker DEF ReadRules

LEMMA ApplyRulesInv ==
  ASSUME NetworksInv, NEW c \in Calls, ApplyRules(c)
  PROVE  NetworksInv'
<1>1. /\ call[c].rules \in SUBSET Rules /\ call[c].subnets \in Subnets \X Subnets
      /\ call[c].p \in Peerings
  BY CallFacts, StepFacts DEF CallType, ApplyRules
<1>2. CallsOK' /\ HistoryTypes'
  BY <1>1, CallFacts, FinishStep, HistoryStep DEF ApplyRules
<1>3. DockerTypes'
  BY <1>1, InvParts DEF ApplyRules, DockerTypes, dockerNets
<1>4. DockerOwners'
  BY InvParts, FewerContainers DEF ApplyRules, dockerNets
<1>5. QED
  BY <1>2, <1>3, <1>4, OnlyDocker DEF ApplyRules

-----------------------------------------------------------------------------
(* delete_database, crashes *)

LEMMA DeleteDatabaseInv ==
  ASSUME NetworksInv, NEW d \in Dbs, DeleteDatabase(d)
  PROVE  NetworksInv'
<1> USE DEF DeleteDatabase, MarkDeleting, LeaveNetworks, RemoveContainer, DeleteDatabaseRow
<1>1. CallsOK'
  BY CallFacts, InvParts DEF CallsOK
<1>2. HistoryTypes'
  <2>1. NoFault \/ FaultOn({})
    BY DEF NoFault
  <2>2. QED
    BY <2>1, InvParts, HistoryStep
<1>3. PeerTypes'
  BY InvParts, SamePeerings
<1>4. /\ joined' \subseteq joined /\ bridged' \subseteq bridged
      /\ UNCHANGED <<docks, bridges, table, scope, outdated, dock, peer, tasks>>
  BY DEF dockerNets, dockerPeer, netRows, peerRows
<1>5. DockerTypes' /\ DockerOwners'
  BY <1>4, InvParts, FewerContainers DEF DockerTypes
<1>6. members' \in [Nets -> SUBSET Dbs] /\ \A n \in Nets : members'[n] \subseteq members[n]
  BY InvParts DEF netRows, RowTypes
<1>7. /\ db' \in [Dbs -> {"running", "deleting", "detached", "removed", "stuck", "gone", "orphan"}]
      /\ UNCHANGED <<net, server, dock, subnet>>
  BY InvParts DEF netRows, RowTypes
<1>8. RowTypes' /\ RowOwners'
  BY <1>4, <1>6, <1>7, InvParts, FewerMembers DEF RowTypes, tasks
<1>9. QED
  BY <1>1, <1>2, <1>3, <1>5, <1>8, InvPartsNext

LEMMA CrashInv ==
  ASSUME NetworksInv, Crash
  PROVE  NetworksInv'
<1>1. CallsOK'
  BY IdleFacts DEF Crash, CallsOK
<1>2. HistoryTypes'
  BY InvParts, InUseTyped, HistoryStep DEF Crash
<1>3. task' \in [Peerings -> {None, "done", "lost"} \cup TaskSteps]
  BY InvParts DEF Crash, PeerTypes
<1>4. todo' \in [Peerings -> SUBSET Dbs] /\ UNCHANGED <<db, netRows, peerRows, dockerNets, dockerPeer>>
  BY DEF Crash
<1>5. PeerTypes'
  BY <1>3, <1>4, InvParts DEF PeerTypes, peerRows
<1>6. \A p \in Peerings : (PeerRow(p)' <=> PeerRow(p)) /\ ~Working(p)' /\ todo'[p] = {}
  BY StepFacts DEF Crash, PeerRow, Working, peerRows
<1>7. RowOwners'
  BY <1>4, <1>6, InvParts DEF RowOwners, netRows
<1>8. QED
  BY <1>1, <1>2, <1>4, <1>5, <1>7, OnlyPeerings

-----------------------------------------------------------------------------
LEMMA NextInv ==
  ASSUME NetworksInv, [Next]_vars
  PROVE  NetworksInv'
<1>1. ASSUME NEW c \in Calls, Request(c)
      PROVE  NetworksInv'
  <2>1. ASSUME NEW n \in Nets, NEW d \in Dbs, NEW o \in {"attach", "detach"},
               FindNetwork(c, o, n, d)
        PROVE  NetworksInv'
    BY <2>1, FindNetworkInv, StepFacts
  <2>2. ASSUME NEW n \in Nets, FindNetwork(c, "drop", n, None)
        PROVE  NetworksInv'
    BY <2>2, FindNetworkInv, StepFacts
  <2>3. ASSUME NEW p \in Peerings, FindPeering(c, "unpeer", p, None)
        PROVE  NetworksInv'
    BY <2>3, FindPeeringInv, StepFacts
  <2>4. ASSUME NEW p \in Peerings, NEW r \in Rules, NEW o \in {"allow", "revoke"},
               FindPeering(c, o, p, r)
        PROVE  NetworksInv'
    BY <2>4, FindPeeringInv, StepFacts
  <2>5. QED
    BY <1>1, <2>1, <2>2, <2>3, <2>4, CountInv, FindPairInv DEF Request
<1>2. ASSUME NEW c \in Calls, Attach(c)
      PROVE  NetworksInv'
  BY <1>2, CheckInv, SetServerInv, MakeDockInv, SaveDockInv, SaveSubnetInv, JoinInv,
     AddMemberInv, SyncInv
  DEF Attach
<1>3. ASSUME NEW c \in Calls, Detach(c) \/ Delete(c)
      PROVE  NetworksInv'
  BY <1>3, LeaveInv, UnbridgeInv, RemoveMemberInv, ListPeeringsInv, TakeDownBridgeInv,
     DeletePeeringInv, PeeringsDeletedInv, TakeDownNetworkInv, DeleteNetworkInv
  DEF Detach, Delete
<1>4. ASSUME NEW c \in Calls,
             ChangeRule(c) \/ InsertNetwork(c) \/ InsertPeering(c) \/ CallFails(c)
      PROVE  NetworksInv'
  BY <1>4, InsertRuleInv, DeleteRuleInv, ReadRulesInv, ApplyRulesInv, InsertNetworkInv,
     InsertPeeringInv, FailsInv
  DEF ChangeRule
<1>5. ASSUME NEW p \in Peerings, ProvisionPeering(p)
      PROVE  NetworksInv'
  BY <1>5, MakeBridgeInv, SaveBridgeInv, ReadMembersInv, ActivateInv, ConnectMemberInv
  DEF ProvisionPeering
<1>6. CASE UNCHANGED vars
  <2>1. UNCHANGED <<db, netRows, peerRows, dockerNets, dockerPeer, tasks, call>>
        /\ UNCHANGED <<faults, disturbed>>
    BY <1>6 DEF vars, netRows, peerRows, dockerNets, dockerPeer, tasks
  <2>2. CallsOK' /\ HistoryTypes'
    BY <2>1, InvParts DEF CallsOK, HistoryTypes
  <2>3. QED
    BY <2>1, <2>2, OnlyRequests
<1>7. QED
  BY <1>1, <1>2, <1>3, <1>4, <1>5, <1>6, DeleteDatabaseInv, CrashInv DEF Next

(* Rows, requests, tasks and Docker's networks, of which there are any     *)
(* number, have their types.                                               *)
THEOREM TypeCorrect == Spec => []TypeOK
<1>1. NetworksInv => TypeOK
  BY DEF NetworksInv
<1>2. QED
  BY <1>1, InitInv, NextInv, PTL DEF Spec

LEMMA OwnersFollow == NetworksInv => OwnersAreIsolated
BY DEF NetworksInv, DockerOwners, OwnersAreIsolated

(* attach_database, create_peering and its task never put containers of    *)
(* two users on one Docker network or one bridge, however requests, tasks, *)
(* failures and crashes interleave.                                        *)
THEOREM OwnersIsolated == Spec => []OwnersAreIsolated
BY InitInv, NextInv, OwnersFollow, PTL DEF Spec

-----------------------------------------------------------------------------
(* The firewall of a peering on which no calls overlapped and no step      *)
(* failed.  What a request knows of its peering is then still so: it is    *)
(* the only one that changes rules, the status is its copy, and the task   *)
(* has ended.                                                              *)

RuleCall(c, p) == call[c].op \in {"allow", "revoke"} /\ call[c].p = p

(* A deletion of the peering, or of one of its networks.                   *)
TakesDown(c, p) ==
  \/ call[c].op = "unpeer" /\ call[c].p = p
  \/ call[c].op = "drop" /\ call[c].n \in EndsOf(p)

Enforced(p) == IF table[p] = NoTable THEN rules[p] = {} ELSE table[p] = rules[p]

(* Requests are about peerings that have or had a row, once they have been *)
(* found; a deletion ends with its peering gone.                           *)
PeerCallOK(c) ==
  LET k == call[c] IN
  /\ k.op = "peer" => peer[k.p] = "unborn"
  /\ k.op \in PeerCalls => peer[k.p] # "unborn"
  /\ k.at = "peerings" => k.op \in {"unpeer", "drop"}
  /\ k.op = "unpeer" => /\ \A e \in k.list : e[1] = k.p
                        /\ peer[k.p] = "gone" \/ k.list # {}
  /\ k.op = "drop" => \A e \in k.list : k.n \in EndsOf(e[1]) /\ peer[e[1]] # "unborn"
  /\ k.op \in {"allow", "revoke"} /\ k.at \in {"read", "apply"} => k.active

OnePeerCall ==
  \A c \in Calls, d \in Calls :
    call[c].op = "peer" /\ call[d].op = "peer" /\ call[c].p = call[d].p => c = d

OneRuleCall(p) ==
  \A c \in Calls : RuleCall(c, p) =>
    ~Working(p) /\ \A d \in Calls : RuleCall(d, p) => c = d

KnowsPeering(p) ==
  \A c \in Calls : RuleCall(c, p) /\ peer[p] # "gone" =>
    /\ call[c].active => peer[p] = "active"
    /\ peer[p] = "active" => call[c].active
    /\ call[c].at = "apply" => call[c].rules = rules[p]

NoRulesYet(p) ==
  peer[p] = "unborn" \/ (Working(p) /\ peer[p] = "pending") =>
    rules[p] = {} /\ table[p] = NoTable

(* A firewall that differs from the rules is about to be applied or taken  *)
(* down.                                                                   *)
EnforcedOrBusy(p) ==
  peer[p] = "active" =>
    \/ Enforced(p)
    \/ \E c \in Calls : RuleCall(c, p) /\ call[c].at \in {"read", "apply"}
    \/ \E c \in Calls : TakesDown(c, p)

PeeringOK(p) == OneRuleCall(p) /\ KnowsPeering(p) /\ NoRulesYet(p) /\ EnforcedOrBusy(p)

FirewallInv ==
  /\ \A c \in Calls : PeerCallOK(c)
  /\ OnePeerCall
  /\ \A p \in Peerings : Working(p) => peer[p] \in {"pending", "gone"}
  /\ \A p \in Peerings : p \notin disturbed => PeeringOK(p)

LEMMA FirewallFacts ==
  ASSUME FirewallInv
  PROVE  /\ \A c \in Calls : PeerCallOK(c)
         /\ OnePeerCall
         /\ \A p \in Peerings : Working(p) => peer[p] \in {"pending", "gone"}
         /\ \A p \in Peerings : p \notin disturbed => PeeringOK(p)
BY DEF FirewallInv

(* A request uses the peering whose rules it changes or that it takes down.*)
LEMMA PeeringUsed ==
  ASSUME NEW k, NEW p \in Peerings
  PROVE  /\ k.op \in {"allow", "revoke", "unpeer"} /\ k.p = p => p \in Uses(k)
         /\ k.op = "drop" /\ k.n \in EndsOf(p) /\ PeerRow(p) => p \in Uses(k)
<1>1. ASSUME k.op \in {"allow", "revoke"}, k.p = p
      PROVE  p \in Uses(k)
  BY <1>1 DEF Uses
<1>2. ASSUME k.op = "unpeer", k.p = p
      PROVE  p \in Uses(k)
  BY <1>2 DEF Uses
<1>3. ASSUME k.op = "drop", k.n \in EndsOf(p), PeerRow(p)
      PROVE  p \in Uses(k)
  <2>1. p \in PeeringsOf(k.n)
    BY <1>3 DEF PeeringsOf
  <2>2. QED
    BY <1>3, <2>1 DEF Uses
<1>4. QED
  BY <1>1, <1>2, <1>3

LEMMA BusyIsUsed ==
  ASSUME NEW c \in Calls, NEW p \in Peerings, RuleCall(c, p) \/ (TakesDown(c, p) /\ PeerRow(p))
  PROVE  p \in Uses(call[c]) /\ p \in InUse
<1>1. p \in Uses(call[c])
  BY PeeringUsed DEF RuleCall, TakesDown
<1>2. QED
  BY <1>1 DEF InUse

LEMMA TablesFollow ==
  ASSUME NetworksInv, FirewallInv, NEW p \in Peerings, peer[p] = "active", Quiet(p)
  PROVE  Enforced(p)
<1>1. p \notin disturbed /\ p \notin InUse /\ PeerRow(p)
  BY DEF Quiet, PeerRow
<1>2. EnforcedOrBusy(p)
  BY <1>1, FirewallFacts DEF PeeringOK
<1>3. QED
  BY <1>1, <1>2, BusyIsUsed DEF EnforcedOrBusy

LEMMA InitFirewall == Init => FirewallInv
<1> SUFFICES ASSUME Init PROVE FirewallInv
  OBVIOUS
<1> USE DEF Init
<1>1. \A c \in Calls : call[c].op = None /\ call[c].at = None
  BY IdleFacts
<1>2. \A c \in Calls : PeerCallOK(c)
  BY <1>1, StepFacts DEF PeerCallOK
<1>3. OnePeerCall
  BY <1>1, StepFacts DEF OnePeerCall
<1>4. \A p \in Peerings : ~Working(p)
  BY StepFacts DEF Working
<1>5. ASSUME NEW p \in Peerings
      PROVE  PeeringOK(p)
  <2>1. \A c \in Calls : ~RuleCall(c, p)
    BY <1>1, StepFacts DEF RuleCall
  <2>2. OneRuleCall(p) /\ KnowsPeering(p)
    BY <2>1 DEF OneRuleCall, KnowsPeering
  <2>3. NoRulesYet(p) /\ EnforcedOrBusy(p)
    BY DEF NoRulesYet, EnforcedOrBusy
  <2>4. QED
    BY <2>2, <2>3 DEF PeeringOK
<1>6. QED
  BY <1>2, <1>3, <1>4, <1>5 DEF FirewallInv
-----------------------------------------------------------------------------
(* What a step must do so that the invariant holds after it *)

LEMMA PeerCallsKept ==
  ASSUME FirewallInv, CallsOK,
         \A d \in Calls : call'[d] = call[d] \/ (PeerCallOK(d)' /\ call'[d].op # "peer"),
         \A p \in Peerings : /\ peer[p] = "gone" => peer'[p] = "gone"
                             /\ peer[p] = "unborn" <=> peer'[p] = "unborn"
  PROVE  (\A d \in Calls : PeerCallOK(d)') /\ OnePeerCall'
<1>1. ASSUME NEW d \in Calls, call'[d] = call[d]
      PROVE  PeerCallOK(d)'
  <2>1. PeerCallOK(d)
    BY FirewallFacts
  <2>2. call[d].op \in PeerCalls \cup {"peer"} => call[d].p \in Peerings
    BY DEF CallsOK, CallOK
  <2>3. call[d].list \subseteq Peerings \X BOOLEAN
    BY DEF CallsOK, CallType
  <2>4. call[d].op = "drop" => \A e \in call[d].list : e[1] \in Peerings
    BY <2>3
  <2>5. QED
    BY <1>1, <2>1, <2>2, <2>4, StepFacts DEF PeerCallOK
<1>2. OnePeerCall'
  BY FirewallFacts DEF OnePeerCall
<1>3. QED
  BY <1>1, <1>2

(* The peering is as it was, no request about its rules moved, and none    *)
(* that its firewall waits for is gone.                                    *)
LEMMA PeeringKept ==
  ASSUME NEW p \in Peerings, PeeringOK(p),
         peer'[p] = peer[p], Working(p)' => Working(p), rules'[p] = rules[p],
         table'[p] = table[p],
         \A c \in Calls : RuleCall(c, p)' => call'[c] = call[c],
         peer[p] = "active" =>
           \/ Enforced(p)
           \/ \A c \in Calls : /\ RuleCall(c, p) => call'[c] = call[c]
                               /\ TakesDown(c, p) => TakesDown(c, p)'
  PROVE  PeeringOK(p)'
<1> USE DEF PeeringOK
<1>1. \A c \in Calls : RuleCall(c, p)' => RuleCall(c, p) /\ call'[c] = call[c]
  BY DEF RuleCall
<1>2. OneRuleCall(p)'
  BY <1>1 DEF OneRuleCall
<1>3. KnowsPeering(p)'
  BY <1>1 DEF KnowsPeering
<1>4. NoRulesYet(p)'
  BY DEF NoRulesYet
<1>5. EnforcedOrBusy(p)'
  <2> SUFFICES ASSUME peer[p] = "active", ~Enforced(p)
               PROVE  EnforcedOrBusy(p)'
    BY DEF EnforcedOrBusy, Enforced
  <2>1. \A c \in Calls : RuleCall(c, p) => RuleCall(c, p)' /\ call'[c] = call[c]
    BY DEF RuleCall
  <2>2. QED
    BY <2>1 DEF EnforcedOrBusy
<1>6. QED
  BY <1>2, <1>3, <1>4, <1>5

LEMMA PeeringGone ==
  ASSUME NEW p \in Peerings, PeeringOK(p), peer'[p] = "gone", Working(p)' => Working(p),
         \A c \in Calls : RuleCall(c, p)' => call'[c] = call[c]
  PROVE  PeeringOK(p)'
<1>1. \A c \in Calls : RuleCall(c, p)' => RuleCall(c, p)
  BY DEF RuleCall
<1>2. OneRuleCall(p)'
  BY <1>1 DEF PeeringOK, OneRuleCall
<1>3. KnowsPeering(p)' /\ NoRulesYet(p)' /\ EnforcedOrBusy(p)'
  BY DEF KnowsPeering, NoRulesYet, EnforcedOrBusy
<1>4. QED
  BY <1>2, <1>3 DEF PeeringOK

(* Nothing but requests that have no part in rules moves.                  *)
LEMMA RequestsMove ==
  ASSUME NetworksInv, FirewallInv, UNCHANGED <<peer, rules, table, task>>,
         disturbed \subseteq disturbed',
         \A d \in Calls :
           \/ call'[d] = call[d]
           \/ /\ PeerCallOK(d)' /\ call'[d].op # "peer"
              /\ \A p \in Peerings : p \notin disturbed' =>
                   /\ ~RuleCall(d, p)' /\ ~RuleCall(d, p)
                   /\ peer[p] = "active" /\ TakesDown(d, p) => TakesDown(d, p)'
  PROVE  FirewallInv'
<1>1. (\A d \in Calls : PeerCallOK(d)') /\ OnePeerCall'
  BY InvParts, PeerCallsKept
<1>2. \A p \in Peerings : Working(p)' => peer'[p] \in {"pending", "gone"}
  BY FirewallFacts DEF Working
<1>3. ASSUME NEW p \in Peerings, p \notin disturbed'
      PROVE  PeeringOK(p)'
  <2>1. PeeringOK(p)
    BY <1>3, FirewallFacts
  <2>2. \A c \in Calls : /\ RuleCall(c, p)' => call'[c] = call[c]
                         /\ RuleCall(c, p) => call'[c] = call[c]
                         /\ peer[p] = "active" /\ TakesDown(c, p) => TakesDown(c, p)'
    BY <1>3 DEF TakesDown
  <2>3. QED
    BY <2>1, <2>2, PeeringKept DEF Working
<1>4. QED
  BY <1>1, <1>2, <1>3 DEF FirewallInv

-----------------------------------------------------------------------------
(* Requests about networks and databases *)

LEMMA GotoFields ==
  ASSUME CallsOK, NEW c \in Calls, NEW s, Goto(c, s)
  PROVE  /\ \A d \in Calls : d # c => call'[d] = call[d]
         /\ call'[c].at = s /\ call'[c].op = call[c].op /\ call'[c].n = call[c].n
         /\ call'[c].p = call[c].p /\ call'[c].active = call[c].active
         /\ call'[c].list = call[c].list /\ call'[c].rules = call[c].rules
BY DEF Goto, CallsOK, CallType

LEMMA FinishFields ==
  ASSUME CallsOK, NEW c \in Calls, Finish(c)
  PROVE  /\ \A d \in Calls : d # c => call'[d] = call[d]
         /\ call'[c].op = None /\ call'[c].at = None
BY DEF Finish, CallsOK, Idle

(* Operations that have nothing to do with peerings.                       *)
NetworkOps == {None, "create", "attach", "detach"}

LEMMA IdleCall ==
  ASSUME NEW c \in Calls, call'[c].op \in NetworkOps, call'[c].at # "peerings"
  PROVE  /\ PeerCallOK(c)' /\ call'[c].op # "peer"
         /\ \A p : ~RuleCall(c, p)' /\ ~TakesDown(c, p)'
BY StepFacts DEF PeerCallOK, NetworkOps, RuleCall, TakesDown

LEMMA NetworkStep ==
  ASSUME NetworksInv, FirewallInv, UNCHANGED <<peer, rules, table, task>>,
         disturbed \subseteq disturbed', NEW c \in Calls,
         \A d \in Calls : d # c => call'[d] = call[d],
         call[c].op \in NetworkOps, call'[c].op \in NetworkOps, call'[c].at # "peerings"
  PROVE  FirewallInv'
<1>1. \A p : ~RuleCall(c, p) /\ ~TakesDown(c, p)
  BY StepFacts DEF NetworkOps, RuleCall, TakesDown
<1>2. QED
  BY <1>1, IdleCall, RequestsMove

LEMMA HistoryGrows ==
  /\ NoFault => disturbed \subseteq disturbed'
  /\ \A S : FaultOn(S) => disturbed \subseteq disturbed' /\ S \subseteq disturbed'
BY DEF NoFault, FaultOn

(* A request about networks goes on, or ends.                              *)
LEMMA NetworkMoves ==
  ASSUME NetworksInv, FirewallInv, UNCHANGED <<peer, rules, table, task>>,
         disturbed \subseteq disturbed', NEW c \in Calls, call[c].op \in NetworkOps,
         Finish(c) \/ \E s : s # "peerings" /\ Goto(c, s)
  PROVE  FirewallInv'
<1>1. CallsOK
  BY InvParts
<1>2. CASE Finish(c)
  BY <1>1, <1>2, FinishFields, NetworkStep, StepFacts DEF NetworkOps
<1>3. CASE \E s : s # "peerings" /\ Goto(c, s)
  BY <1>1, <1>3, GotoFields, NetworkStep
<1>4. QED
  BY <1>2, <1>3

LEMMA AttachFirewall ==
  ASSUME NetworksInv, FirewallInv, NEW c \in Calls, Attach(c)
  PROVE  FirewallInv'
<1> USE DEF NetworkOps, At, peerRows, dockerPeer, tasks
<1>1. CallsOK
  BY InvParts
<1>2. CASE CheckDatabase(c)
  BY <1>2, HistoryGrows, NetworkMoves DEF CheckDatabase
<1>3. CASE SetServer(c)
  <2>1. /\ call[c].op \in NetworkOps
        /\ \A d \in Calls : d # c => call'[d] = call[d]
        /\ call'[c].op = call[c].op /\ call'[c].at # "peerings"
    BY <1>1, <1>3 DEF SetServer, CallsOK, CallType
  <2>2. UNCHANGED <<peer, rules, table, task>> /\ disturbed \subseteq disturbed'
    BY <1>3 DEF SetServer
  <2>3. QED
    BY <2>1, <2>2, NetworkStep
<1>4. CASE MakeDock(c)
  <2>1. /\ call[c].op \in NetworkOps /\ call[c] \in CallType
        /\ UNCHANGED <<peer, rules, table, task>> /\ disturbed \subseteq disturbed'
    BY <1>1, <1>4, HistoryGrows DEF MakeDock, CallsOK
  <2>2. ASSUME NEW j, call' = [call EXCEPT ![c].at = "save", ![c].dock = <<call[c].n, j>>]
        PROVE  FirewallInv'
    <3>1. PICK k : k = [call[c] EXCEPT !.at = "save", !.dock = <<call[c].n, j>>]
      OBVIOUS
    <3>2. k.op = call[c].op /\ k.at = "save"
      BY <2>1, <3>1 DEF CallType
    <3>3. call' = [call EXCEPT ![c] = k]
      BY <1>1, <2>2, <3>1 DEF CallsOK
    <3>4. call'[c] = k /\ \A d \in Calls : d # c => call'[d] = call[d]
      BY <1>1, <3>3 DEF CallsOK
    <3>5. QED
      BY <2>1, <3>2, <3>4, NetworkStep
  <2>3. Goto(c, "join") => FirewallInv'
    BY <2>1, NetworkMoves
  <2>4. QED
    BY <1>4, <2>2, <2>3 DEF MakeDock
<1>5. CASE SaveDock(c)
  BY <1>5, HistoryGrows, NetworkMoves DEF SaveDock
<1>6. CASE Join(c)
  BY <1>6, HistoryGrows, NetworkMoves DEF Join
<1>7. CASE AddMember(c)
  BY <1>7, HistoryGrows, NetworkMoves DEF AddMember
<1>8. CASE SyncBridges(c)
  BY <1>8, HistoryGrows, NetworkMoves DEF SyncBridges
<1>9. CASE SaveSubnet(c)
  BY <1>9, HistoryGrows, NetworkMoves DEF SaveSubnet
<1>10. QED
  BY <1>2, <1>3, <1>4, <1>5, <1>6, <1>7, <1>8, <1>9 DEF Attach

LEMMA DetachFirewall ==
  ASSUME NetworksInv, FirewallInv, NEW c \in Calls, Detach(c) \/ InsertNetwork(c)
  PROVE  FirewallInv'
<1> USE DEF NetworkOps, At, peerRows, dockerPeer, tasks
<1>1. CASE Leave(c)
  BY <1>1, HistoryGrows, NetworkMoves DEF Leave
<1>2. CASE Unbridge(c)
  BY <1>2, HistoryGrows, NetworkMoves DEF Unbridge
<1>3. CASE RemoveMember(c)
  BY <1>3, HistoryGrows, NetworkMoves DEF RemoveMember
<1>4. CASE InsertNetwork(c)
  BY <1>4, HistoryGrows, NetworkMoves DEF InsertNetwork
<1>5. QED
  BY <1>1, <1>2, <1>3, <1>4 DEF Detach

-----------------------------------------------------------------------------
(* Requests begin and fail *)

LEMMA StartFields ==
  ASSUME CallsOK, NEW c \in Calls, NEW k, Start(c, k)
  PROVE  /\ \A d \in Calls : d # c => call'[d] = call[d]
         /\ call'[c] = k /\ call[c].op = None
         /\ disturbed \subseteq disturbed'
         /\ \A x \in Uses(k) \cap InUse : x \in disturbed'
BY IdleFacts DEF Start, CallsOK

LEMMA StartNetworkCall ==
  ASSUME NetworksInv, FirewallInv, NEW c \in Calls, NEW k, Start(c, k),
         UNCHANGED <<peer, rules, table, task>>, k.op \in NetworkOps, k.at # "peerings"
  PROVE  FirewallInv'
<1>1. CallsOK
  BY InvParts
<1>2. QED
  BY <1>1, StartFields, NetworkStep DEF NetworkOps

LEMMA CountFirewall ==
  ASSUME NetworksInv, FirewallInv, NEW c \in Calls, NEW n \in Nets, CountNetworks(c, n)
  PROVE  FirewallInv'
<1>1. PICK k : k = [Idle EXCEPT !.op = "create", !.at = "insert", !.n = n]
  OBVIOUS
<1>2. Start(c, k) /\ k.op = "create" /\ k.at = "insert"
  BY <1>1 DEF CountNetworks, Idle
<1>3. QED
  BY <1>2, StartNetworkCall DEF CountNetworks, NetworkOps, peerRows, dockerPeer, tasks

LEMMA FindNetworkFirewall ==
  ASSUME NetworksInv, FirewallInv, NEW c \in Calls, NEW o \in {"attach", "detach", "drop"},
         NEW n \in Nets, NEW d, FindNetwork(c, o, n, d)
  PROVE  FirewallInv'
<1>1. PICK k : k = [Idle EXCEPT !.op = o, !.at = "found", !.n = n, !.d = d,
                                !.host = server[n], !.dock = dock[n]]
  OBVIOUS
<1>2. Start(c, k) /\ k.op = o /\ k.at = "found" /\ k.list = {}
  BY <1>1 DEF FindNetwork, Idle
<1>3. UNCHANGED <<peer, rules, table, task>>
  BY DEF FindNetwork, peerRows, dockerPeer, tasks
<1>4. CASE o # "drop"
  BY <1>2, <1>3, <1>4, StartNetworkCall DEF NetworkOps
<1>5. CASE o = "drop"
  <2>1. /\ \A e \in Calls : e # c => call'[e] = call[e]
        /\ call'[c] = k /\ call[c].op = None /\ disturbed \subseteq disturbed'
    BY <1>2, InvParts, StartFields
  <2>2. PeerCallOK(c)'
    BY <1>2, <1>5, <2>1, StepFacts DEF PeerCallOK
  <2>3. \A p : ~RuleCall(c, p)' /\ ~RuleCall(c, p) /\ ~TakesDown(c, p)
    BY <1>2, <1>5, <2>1, StepFacts DEF RuleCall, TakesDown
  <2>4. QED
    BY <1>2, <1>3, <1>5, <2>1, <2>2, <2>3, RequestsMove
<1>6. QED
  BY <1>4, <1>5

LEMMA FindPairFirewall ==
  ASSUME NetworksInv, FirewallInv, NEW c \in Calls, NEW p \in Peerings, FindPair(c, p)
  PROVE  FirewallInv'
<1> DEFINE host == IF server[Ends[p][1]] = Local THEN server[Ends[p][2]] ELSE server[Ends[p][1]]
<1>1. PICK k : k = [Idle EXCEPT !.op = "peer", !.at = "insert", !.p = p, !.host = host]
  OBVIOUS
<1>2. Start(c, k) /\ k.op = "peer" /\ k.at = "insert" /\ k.p = p
  BY <1>1 DEF FindPair, Idle
<1>3. /\ UNCHANGED <<peer, rules, table, task>> /\ peer[p] = "unborn"
      /\ \A e \in Calls : call[e].p # p
  BY DEF FindPair, peerRows, dockerPeer, tasks
<1>4. /\ \A e \in Calls : e # c => call'[e] = call[e]
      /\ call'[c] = k /\ call[c].op = None /\ disturbed \subseteq disturbed'
  BY <1>2, InvParts, StartFields
<1>5. PeerCallOK(c)'
  BY <1>2, <1>3, <1>4, StepFacts DEF PeerCallOK
<1>6. \A d \in Calls : PeerCallOK(d)'
  <2>1. ASSUME NEW d \in Calls, d # c
        PROVE  PeerCallOK(d)'
    BY <1>3, <1>4, <2>1, FirewallFacts DEF PeerCallOK
  <2>2. QED
    BY <1>5, <2>1
<1>7. OnePeerCall'
  BY <1>2, <1>3, <1>4, FirewallFacts DEF OnePeerCall
<1>8. ASSUME NEW q \in Peerings, q \notin disturbed'
      PROVE  PeeringOK(q)'
  <2>1. PeeringOK(q)
    BY <1>4, <1>8, FirewallFacts
  <2>2. ~RuleCall(c, q)' /\ ~RuleCall(c, q) /\ ~TakesDown(c, q)
    BY <1>2, <1>4, StepFacts DEF RuleCall, TakesDown
  <2>3. \A d \in Calls : d # c /\ TakesDown(d, q) => TakesDown(d, q)'
    BY <1>4 DEF TakesDown
  <2>4. QED
    BY <1>3, <1>4, <2>1, <2>2, <2>3, PeeringKept DEF Working
<1>9. \A q \in Peerings : Working(q)' => peer'[q] \in {"pending", "gone"}
  BY <1>3, FirewallFacts DEF Working
<1>10. QED
  BY <1>6, <1>7, <1>8, <1>9 DEF FirewallInv

(* delete_peering, and the two requests about rules: when nothing else is  *)
(* under way on the peering, the copy of its status is right.              *)
LEMMA FindPeeringFirewall ==
  ASSUME NetworksInv, FirewallInv, NEW c \in Calls, NEW o \in {"unpeer", "allow", "revoke"},
         NEW p \in Peerings, NEW r, FindPeering(c, o, p, r)
  PROVE  FirewallInv'
<1> DEFINE step == IF o = "unpeer" THEN "peerings" ELSE "insert"
           active == (peer[p] = "active")
           list == IF o = "unpeer" THEN {<<p, bridge[p]>>} ELSE {}
<1>1. PICK k : k = [Idle EXCEPT !.op = o, !.p = p, !.r = r, !.at = step,
                                !.active = active, !.list = list]
  OBVIOUS
<1>2. Start(c, k)
  BY <1>1 DEF FindPeering
<1>3. /\ k.op = o /\ k.p = p /\ k.at = step /\ k.list = list
      /\ k.active => peer[p] = "active"
      /\ peer[p] = "active" => k.active
  BY <1>1 DEF Idle
<1>4. UNCHANGED <<peer, rules, table, task>> /\ PeerRow(p)
  BY DEF FindPeering, peerRows, dockerPeer, tasks
<1>5. /\ \A e \in Calls : e # c => call'[e] = call[e]
      /\ call'[c] = k /\ call[c].op = None /\ disturbed \subseteq disturbed'
      /\ \A x \in Uses(k) \cap InUse : x \in disturbed'
  BY <1>2, InvParts, StartFields
<1>6. PeerCallOK(c)'
  <2>1. peer'[p] # "unborn"
    BY <1>4 DEF PeerRow
  <2>2. \A e \in list : e[1] = p
    OBVIOUS
  <2>3. o = "unpeer" => list # {}
    OBVIOUS
  <2>4. QED
    BY <1>3, <1>5, <2>1, <2>2, <2>3, StepFacts DEF PeerCallOK
<1>7. \A q : ~RuleCall(c, q) /\ ~TakesDown(c, q)
  BY <1>5, StepFacts DEF RuleCall, TakesDown
<1>8. CASE o = "unpeer"
  <2>1. \A q : ~RuleCall(c, q)'
    BY <1>3, <1>5, <1>8 DEF RuleCall
  <2>2. QED
    BY <1>3, <1>4, <1>5, <1>6, <1>7, <1>8, <2>1, RequestsMove
<1>9. CASE o # "unpeer"
  <2>1. \A q : q # p => ~RuleCall(c, q)'
    BY <1>3, <1>5 DEF RuleCall
  <2>2. ASSUME p \notin disturbed'
        PROVE  PeeringOK(p)'
    <3>1. p \notin InUse
      <4>1. p \in Uses(k)
        BY <1>3, <1>9, PeeringUsed
      <4>2. QED
        BY <1>5, <2>2, <4>1
    <3>2. PeeringOK(p)
      BY <1>5, <2>2, FirewallFacts
    <3>3. \A d \in Calls : ~RuleCall(d, p) /\ ~(TakesDown(d, p) /\ PeerRow(p))
      BY <3>1, BusyIsUsed
    <3>4. ~Working(p)
      BY <3>1 DEF InUse, TaskUses
    <3>5. \A d \in Calls : RuleCall(d, p)' => d = c
      BY <1>5, <3>3 DEF RuleCall
    <3>6. OneRuleCall(p)'
      BY <1>4, <3>4, <3>5 DEF OneRuleCall, Working
    <3>7. KnowsPeering(p)'
      BY <1>3, <1>4, <1>5, <1>9, <3>5 DEF KnowsPeering
    <3>8. NoRulesYet(p)'
      BY <1>4, <3>2 DEF PeeringOK, NoRulesYet, Working
    <3>9. EnforcedOrBusy(p)'
      BY <1>4, <3>2, <3>3 DEF PeeringOK, EnforcedOrBusy, Enforced
    <3>10. QED
      BY <3>6, <3>7, <3>8, <3>9 DEF PeeringOK
  <2>3. ASSUME NEW q \in Peerings, q # p, q \notin disturbed'
        PROVE  PeeringOK(q)'
    <3>1. PeeringOK(q)
      BY <1>5, <2>3, FirewallFacts
    <3>2. \A d \in Calls : d # c /\ TakesDown(d, q) => TakesDown(d, q)'
      BY <1>5 DEF TakesDown
    <3>3. QED
      BY <1>4, <1>5, <1>7, <2>1, <2>3, <3>1, <3>2, PeeringKept DEF Working
  <2>4. (\A d \in Calls : PeerCallOK(d)') /\ OnePeerCall'
    <3>1. call'[c].op # "peer"
      BY <1>3, <1>5
    <3>2. QED
      BY <1>4, <1>5, <1>6, <3>1, InvParts, PeerCallsKept
  <2>5. \A q \in Peerings : Working(q)' => peer'[q] \in {"pending", "gone"}
    BY <1>4, FirewallFacts DEF Working
  <2>6. QED
    BY <2>2, <2>3, <2>4, <2>5 DEF FirewallInv
<1>10. QED
  BY <1>8, <1>9

(* A request that fails disturbs the peering it works on.                  *)
LEMMA FailsFirewall ==
  ASSUME NetworksInv, FirewallInv, NEW c \in Calls, CallFails(c)
  PROVE  FirewallInv'
<1>1. /\ \A d \in Calls : d # c => call'[d] = call[d]
      /\ call'[c].op = None /\ call'[c].at = None
  BY InvParts, FinishFields DEF CallFails
<1>2. /\ UNCHANGED <<peer, rules, table, task>>
      /\ disturbed \subseteq disturbed' /\ Uses(call[c]) \subseteq disturbed'
  BY HistoryGrows DEF CallFails, peerRows, dockerPeer, tasks
<1>3. /\ PeerCallOK(c)' /\ call'[c].op # "peer"
      /\ \A p : ~RuleCall(c, p)'
  BY <1>1, IdleCall, StepFacts DEF NetworkOps
<1>4. ASSUME NEW p \in Peerings, p \notin disturbed'
      PROVE  ~RuleCall(c, p) /\ ~(peer[p] = "active" /\ TakesDown(c, p))
  <2>1. p \notin Uses(call[c])
    BY <1>2, <1>4
  <2>2. QED
    BY <2>1, BusyIsUsed DEF PeerRow
<1>5. QED
  BY <1>1, <1>2, <1>3, <1>4, RequestsMove

-----------------------------------------------------------------------------
(* delete_peering, delete_network *)

LEMMA ListPeeringsFirewall ==
  ASSUME NetworksInv, FirewallInv, NEW c \in Calls, ListPeerings(c)
  PROVE  FirewallInv'
<1> DEFINE list == {<<p, bridge[p]>> : p \in PeeringsOf(call[c].n)}
<1>1. PICK k : k = [call[c] EXCEPT !.at = "peerings", !.list = list]
  OBVIOUS
<1>2. call[c] \in CallType /\ call[c].op = "drop" /\ CallsOK
  BY CallFacts DEF ListPeerings, At
<1>3. k.op = "drop" /\ k.at = "peerings" /\ k.n = call[c].n /\ k.list = list
  BY <1>1, <1>2 DEF CallType
<1>4. call' = [call EXCEPT ![c] = k]
  BY <1>1, <1>2 DEF ListPeerings, CallsOK
<1>5. call'[c] = k /\ \A d \in Calls : d # c => call'[d] = call[d]
  BY <1>2, <1>4 DEF CallsOK
<1>6. UNCHANGED <<peer, rules, table, task>> /\ disturbed \subseteq disturbed'
  BY HistoryGrows DEF ListPeerings, peerRows, dockerPeer, tasks
<1>7. PeerCallOK(c)'
  <2>1. \A e \in list : call[c].n \in EndsOf(e[1]) /\ peer[e[1]] # "unborn"
    BY DEF PeeringsOf, PeerRow
  <2>2. QED
    BY <1>3, <1>5, <1>6, <2>1, StepFacts DEF PeerCallOK, EndsOf
<1>8. \A p : /\ ~RuleCall(c, p)' /\ ~RuleCall(c, p)
             /\ TakesDown(c, p) => TakesDown(c, p)'
  BY <1>2, <1>3, <1>5 DEF RuleCall, TakesDown, EndsOf
<1>9. QED
  BY <1>3, <1>5, <1>6, <1>7, <1>8, RequestsMove

(* A deletion that takes a bridge down or deletes a row: the peering is on *)
(* its list, and it goes on with a shorter one.                            *)
LEMMA ListedPeering ==
  ASSUME NetworksInv, FirewallInv, NEW c \in Calls, NEW p \in Peerings, NEW l,
         NEW b \in BOOLEAN, call[c].at = "peerings", <<p, b>> \in call[c].list,
         call' = [call EXCEPT ![c].list = l]
  PROVE  /\ \A d \in Calls : d # c => call'[d] = call[d]
         /\ call'[c].op = call[c].op /\ call'[c].at = "peerings" /\ call'[c].n = call[c].n
         /\ call'[c].p = call[c].p /\ call'[c].list = l
         /\ call[c].op \in {"unpeer", "drop"} /\ peer[p] # "unborn"
         /\ call[c].op = "unpeer" => call[c].p = p
         /\ TakesDown(c, p)
         /\ \A q : /\ ~RuleCall(c, q) /\ ~RuleCall(c, q)'
                   /\ TakesDown(c, q) => TakesDown(c, q)'
<1>1. call[c] \in CallType /\ CallsOK
  BY CallFacts
<1>2. PICK k : k = [call[c] EXCEPT !.list = l]
  OBVIOUS
<1>3. k.op = call[c].op /\ k.at = call[c].at /\ k.n = call[c].n /\ k.p = call[c].p /\ k.list = l
  BY <1>1, <1>2 DEF CallType
<1>4. call' = [call EXCEPT ![c] = k]
  BY <1>1, <1>2 DEF CallsOK
<1>5. call'[c] = k /\ \A d \in Calls : d # c => call'[d] = call[d]
  BY <1>1, <1>4 DEF CallsOK
<1>6. call[c].op \in {"unpeer", "drop"}
  BY FirewallFacts DEF PeerCallOK
<1>7. <<p, b>>[1] = p
  OBVIOUS
<1>8. call[c].op = "unpeer" => call[c].p = p /\ peer[p] # "unborn"
  BY <1>7, FirewallFacts, StepFacts DEF PeerCallOK
<1>9. call[c].op = "drop" => call[c].n \in EndsOf(p) /\ peer[p] # "unborn"
  BY <1>7, FirewallFacts DEF PeerCallOK
<1>10. \A q : /\ ~RuleCall(c, q) /\ ~RuleCall(c, q)'
              /\ TakesDown(c, q) => TakesDown(c, q)'
  BY <1>3, <1>5, <1>6 DEF RuleCall, TakesDown, EndsOf
<1>11. QED
  BY <1>3, <1>5, <1>6, <1>8, <1>9, <1>10 DEF TakesDown

LEMMA TakeDownBridgeFirewall ==
  ASSUME NetworksInv, FirewallInv, NEW c \in Calls, NEW p \in Peerings, TakeDownBridge(c, p)
  PROVE  FirewallInv'
<1> DEFINE l == (call[c].list \ {<<p, TRUE>>}) \cup {<<p, FALSE>>}
<1>1. call[c].at = "peerings" /\ <<p, TRUE>> \in call[c].list
      /\ call' = [call EXCEPT ![c].list = l]
  BY CallFacts DEF TakeDownBridge, CallsOK
<1>2. /\ \A d \in Calls : d # c => call'[d] = call[d]
      /\ call'[c].op = call[c].op /\ call'[c].at = "peerings" /\ call'[c].n = call[c].n
      /\ call'[c].p = call[c].p /\ call'[c].list = l
      /\ call[c].op \in {"unpeer", "drop"} /\ peer[p] # "unborn"
      /\ call[c].op = "unpeer" => call[c].p = p
      /\ TakesDown(c, p)
      /\ \A q : /\ ~RuleCall(c, q) /\ ~RuleCall(c, q)'
                /\ TakesDown(c, q) => TakesDown(c, q)'
  <2> HIDE DEF l
  <2>1. QED
    BY <1>1, ListedPeering
<1>3. /\ UNCHANGED <<peer, rules, task>> /\ disturbed \subseteq disturbed'
      /\ table' = table \/ table' = [table EXCEPT ![p] = NoTable]
  BY HistoryGrows DEF TakeDownBridge, peerRows, dockerPeer, tasks
<1>4. (\A d \in Calls : PeerCallOK(d)') /\ OnePeerCall'
  <2>1. PeerCallOK(c) /\ \A e \in l : e \in call[c].list \/ e[1] = p
    <3>1. <<p, FALSE>>[1] = p
      OBVIOUS
    <3>2. PeerCallOK(c)
      BY FirewallFacts
    <3>3. QED
      BY <3>1, <3>2, Zenon
  <2>2. call[c].op = "unpeer" => (\A e \in l : e[1] = call[c].p) /\ l # {}
    BY <1>2, <2>1 DEF PeerCallOK
  <2>3. call[c].op = "drop" => \A e \in l : call[c].n \in EndsOf(e[1]) /\ peer[e[1]] # "unborn"
    BY <1>2, <2>1 DEF PeerCallOK, TakesDown
  <2>4. PeerCallOK(c)'
    <3> HIDE DEF l
    <3>1. QED
      BY <1>2, <1>3, <2>1, <2>2, <2>3, StepFacts DEF PeerCallOK, EndsOf
  <2>5. QED
    BY <1>2, <1>3, <2>4, InvParts, PeerCallsKept
<1>5. ASSUME NEW q \in Peerings, q \notin disturbed'
      PROVE  PeeringOK(q)'
  <2>1. PeeringOK(q)
    BY <1>3, <1>5, FirewallFacts
  <2>2. \A d \in Calls : /\ RuleCall(d, q)' <=> RuleCall(d, q)
                         /\ RuleCall(d, q) => call'[d] = call[d]
                         /\ TakesDown(d, q) => TakesDown(d, q)'
    BY <1>2 DEF RuleCall, TakesDown, EndsOf
  <2>3. CASE q # p
    <3>1. table'[q] = table[q]
      BY <1>3, <2>3, InvParts DEF DockerTypes
    <3>2. QED
      BY <1>3, <2>1, <2>2, <3>1, PeeringKept DEF Working
  <2>4. CASE q = p
    <3>1. table'[p] \in {table[p], NoTable}
      BY <1>3, InvParts DEF DockerTypes
    <3>2. OneRuleCall(q)'
      BY <1>3, <2>1, <2>2 DEF PeeringOK, OneRuleCall, Working
    <3>3. KnowsPeering(q)'
      BY <1>3, <2>1, <2>2 DEF PeeringOK, KnowsPeering
    <3>4. NoRulesYet(q)'
      BY <1>3, <2>1, <2>4, <3>1 DEF PeeringOK, NoRulesYet, Working
    <3>5. EnforcedOrBusy(q)'
      BY <1>2, <2>4 DEF EnforcedOrBusy
    <3>6. QED
      BY <3>2, <3>3, <3>4, <3>5 DEF PeeringOK
  <2>5. QED
    BY <2>3, <2>4
<1>6. \A q \in Peerings : Working(q)' => peer'[q] \in {"pending", "gone"}
  BY <1>3, FirewallFacts DEF Working
<1>7. QED
  BY <1>4, <1>5, <1>6 DEF FirewallInv

(* Rows of peerings go, everything else about them is as it was.           *)
LEMMA RowsGo ==
  ASSUME NetworksInv, FirewallInv, NEW c \in Calls, NEW S \in SUBSET Peerings,
         UNCHANGED <<table, task>>, disturbed \subseteq disturbed',
         \A p \in S : peer[p] # "unborn" /\ peer'[p] = "gone",
         \A p \in Peerings \ S : peer'[p] = peer[p] /\ rules'[p] = rules[p],
         \A d \in Calls : d # c => call'[d] = call[d],
         PeerCallOK(c)', call'[c].op # "peer",
         \A p \in Peerings : ~RuleCall(c, p) /\ ~RuleCall(c, p)',
         \A p \in Peerings \ S : TakesDown(c, p) /\ peer[p] = "active" => TakesDown(c, p)'
  PROVE  FirewallInv'
<1>1. (\A d \in Calls : PeerCallOK(d)') /\ OnePeerCall'
  <2>1. \A p \in Peerings : /\ peer[p] = "gone" => peer'[p] = "gone"
                            /\ peer[p] = "unborn" <=> peer'[p] = "unborn"
    OBVIOUS
  <2>2. QED
    BY <2>1, InvParts, PeerCallsKept
<1>2. \A p \in Peerings : Working(p)' => peer'[p] \in {"pending", "gone"}
  BY FirewallFacts DEF Working
<1>3. ASSUME NEW p \in Peerings, p \notin disturbed'
      PROVE  PeeringOK(p)'
  <2>1. PeeringOK(p)
    BY <1>3, FirewallFacts
  <2>2. \A d \in Calls : /\ RuleCall(d, p)' => call'[d] = call[d]
                         /\ RuleCall(d, p) => call'[d] = call[d]
    OBVIOUS
  <2>3. CASE p \in S
    BY <2>1, <2>2, <2>3, PeeringGone DEF Working
  <2>4. CASE p \notin S
    <3>1. peer[p] = "active" => \A d \in Calls : TakesDown(d, p) => TakesDown(d, p)'
      BY <2>4 DEF TakesDown
    <3>2. QED
      BY <2>1, <2>2, <2>4, <3>1, PeeringKept DEF Working
  <2>5. QED
    BY <2>3, <2>4
<1>4. QED
  BY <1>1, <1>2, <1>3 DEF FirewallInv

LEMMA DeletePeeringFirewall ==
  ASSUME NetworksInv, FirewallInv, NEW c \in Calls, NEW p \in Peerings, DeletePeering(c, p)
  PROVE  FirewallInv'
<1> DEFINE l == call[c].list \ {<<p, FALSE>>}
<1>1. call[c].at = "peerings" /\ <<p, FALSE>> \in call[c].list
      /\ call' = [call EXCEPT ![c].list = l]
  BY CallFacts DEF DeletePeering, CallsOK
<1>2. /\ \A d \in Calls : d # c => call'[d] = call[d]
      /\ call'[c].op = call[c].op /\ call'[c].at = "peerings" /\ call'[c].n = call[c].n
      /\ call'[c].p = call[c].p /\ call'[c].list = l
      /\ call[c].op \in {"unpeer", "drop"} /\ peer[p] # "unborn"
      /\ call[c].op = "unpeer" => call[c].p = p
      /\ TakesDown(c, p)
      /\ \A q : /\ ~RuleCall(c, q) /\ ~RuleCall(c, q)'
                /\ TakesDown(c, q) => TakesDown(c, q)'
  <2> HIDE DEF l
  <2>1. QED
    BY <1>1, ListedPeering
<1>3. /\ UNCHANGED <<table, task>> /\ disturbed \subseteq disturbed'
      /\ peer' = [peer EXCEPT ![p] = "gone"] /\ rules' = [rules EXCEPT ![p] = {}]
  BY HistoryGrows DEF DeletePeering, dockerPeer, tasks
<1>4. /\ peer'[p] = "gone"
      /\ \A q \in Peerings \ {p} : peer'[q] = peer[q] /\ rules'[q] = rules[q]
  BY <1>3, InvParts DEF PeerTypes
<1>5. PeerCallOK(c)'
  <2>1. PeerCallOK(c) /\ l \subseteq call[c].list
    BY FirewallFacts
  <2>2. \A e \in l : e[1] \in Peerings
    BY CallFacts DEF CallType
  <2>3. \A e \in l : peer[e[1]] # "unborn" => peer'[e[1]] # "unborn"
    BY <1>4, <2>2
  <2>4. CASE call[c].op = "unpeer"
    <3> HIDE DEF l
    <3>1. QED
      BY <1>2, <1>4, <2>1, <2>4, StepFacts DEF PeerCallOK
  <2>5. CASE call[c].op = "drop"
    <3> HIDE DEF l
    <3>1. QED
      BY <1>2, <2>1, <2>3, <2>5, StepFacts DEF PeerCallOK, EndsOf
  <2>6. QED
    BY <1>2, <2>4, <2>5
<1>6. /\ \A q \in Peerings : ~RuleCall(c, q) /\ ~RuleCall(c, q)'
      /\ \A q \in Peerings \ {p} : TakesDown(c, q) /\ peer[q] = "active" => TakesDown(c, q)'
      /\ \A q \in {p} : peer[q] # "unborn" /\ peer'[q] = "gone"
      /\ call'[c].op # "peer" /\ {p} \in SUBSET Peerings
  BY <1>2, <1>4
<1>7. QED
  BY <1>2, <1>3, <1>4, <1>5, <1>6, RowsGo

(* A deletion of a network goes on to another step.                        *)
LEMMA DropGoesOn ==
  ASSUME NetworksInv, FirewallInv, NEW c \in Calls, NEW s, Goto(c, s),
         call[c].op = "drop", s \notin {"peerings", "read", "apply"},
         UNCHANGED <<peer, rules, table, task>>, disturbed \subseteq disturbed'
  PROVE  FirewallInv'
<1>1. /\ \A d \in Calls : d # c => call'[d] = call[d]
      /\ call'[c].at = s /\ call'[c].op = "drop" /\ call'[c].n = call[c].n
      /\ call'[c].list = call[c].list
  BY InvParts, GotoFields
<1>2. PeerCallOK(c)'
  BY <1>1, FirewallFacts, StepFacts DEF PeerCallOK, EndsOf
<1>3. \A p : /\ ~RuleCall(c, p)' /\ ~RuleCall(c, p)
             /\ TakesDown(c, p) => TakesDown(c, p)'
  BY <1>1 DEF RuleCall, TakesDown, EndsOf
<1>4. QED
  BY <1>1, <1>2, <1>3, RequestsMove

LEMMA PeeringsDeletedFirewall ==
  ASSUME NetworksInv, FirewallInv, NEW c \in Calls, PeeringsDeleted(c)
  PROVE  FirewallInv'
<1>1. UNCHANGED <<peer, rules, table, task>> /\ disturbed \subseteq disturbed'
  BY HistoryGrows DEF PeeringsDeleted, peerRows, dockerPeer, tasks
<1>2. CASE call[c].op = "unpeer" /\ Finish(c)
  <2>1. /\ \A d \in Calls : d # c => call'[d] = call[d]
        /\ call'[c].op = None /\ call'[c].at = None
    BY <1>2, InvParts, FinishFields
  <2>2. PeerCallOK(c)' /\ call'[c].op # "peer" /\ \A p : ~RuleCall(c, p)'
    BY <2>1, IdleCall, StepFacts DEF NetworkOps
  <2>3. peer[call[c].p] = "gone"
    BY <1>2, FirewallFacts DEF PeeringsDeleted, PeerCallOK
  <2>4. \A p : ~RuleCall(c, p) /\ ~(peer[p] = "active" /\ TakesDown(c, p))
    BY <1>2, <2>3 DEF RuleCall, TakesDown
  <2>5. QED
    BY <1>1, <2>1, <2>2, <2>4, RequestsMove
<1>3. CASE call[c].op = "drop" /\ Goto(c, "undock")
  BY <1>1, <1>3, DropGoesOn
<1>4. QED
  BY <1>2, <1>3 DEF PeeringsDeleted

LEMMA TakeDownNetworkFirewall ==
  ASSUME NetworksInv, FirewallInv, NEW c \in Calls, TakeDownNetwork(c)
  PROVE  FirewallInv'
<1>1. UNCHANGED <<peer, rules, table, task>> /\ disturbed \subseteq disturbed'
  BY HistoryGrows DEF TakeDownNetwork, peerRows, dockerPeer, tasks
<1>2. call[c].op = "drop" /\ Goto(c, "row")
  BY DEF TakeDownNetwork, At
<1>3. QED
  BY <1>1, <1>2, DropGoesOn

LEMMA DeleteNetworkFirewall ==
  ASSUME NetworksInv, FirewallInv, NEW c \in Calls, DeleteNetwork(c)
  PROVE  FirewallInv'
<1> DEFINE S == PeeringsOf(call[c].n)
<1>1. /\ \A d \in Calls : d # c => call'[d] = call[d]
      /\ call'[c].op = None /\ call'[c].at = None
  BY InvParts, FinishFields DEF DeleteNetwork
<1>2. PeerCallOK(c)' /\ call'[c].op # "peer" /\ \A p : ~RuleCall(c, p)'
  BY <1>1, IdleCall, StepFacts DEF NetworkOps
<1>3. UNCHANGED <<table, task>> /\ disturbed \subseteq disturbed'
  BY HistoryGrows DEF DeleteNetwork, dockerPeer, tasks
<1>4. /\ S \in SUBSET Peerings
      /\ \A p \in S : peer[p] # "unborn" /\ peer'[p] = "gone"
      /\ \A p \in Peerings \ S : peer'[p] = peer[p] /\ rules'[p] = rules[p]
  BY DEF DeleteNetwork, PeeringsOf, PeerRow
<1>5. call[c].op = "drop"
  BY DEF DeleteNetwork, At
<1>6. \A p \in Peerings : ~RuleCall(c, p)
  BY <1>5 DEF RuleCall
<1>7. \A p \in Peerings \ S : ~(TakesDown(c, p) /\ peer[p] = "active")
  BY <1>5 DEF TakesDown, PeeringsOf, PeerRow
<1>8. QED
  BY <1>1, <1>2, <1>3, <1>4, <1>6, <1>7, RowsGo

-----------------------------------------------------------------------------
(* create_firewall_rule, delete_firewall_rule *)

LEMMA RuleStep ==
  ASSUME NetworksInv, FirewallInv, NEW c \in Calls, NEW p \in Peerings, RuleCall(c, p),
         UNCHANGED <<peer, task>>, disturbed \subseteq disturbed',
         \A d \in Calls : d # c => call'[d] = call[d],
         \/ call'[c].op = None
         \/ call'[c].op = call[c].op /\ call'[c].p = p /\ call'[c].active = call[c].active,
         PeerCallOK(c)',
         \A q \in Peerings : q # p => rules'[q] = rules[q] /\ table'[q] = table[q],
         p \notin disturbed' /\ RuleCall(c, p)' /\ call'[c].at = "apply" =>
           call'[c].rules = rules'[p],
         p \notin disturbed' => EnforcedOrBusy(p)'
  PROVE  FirewallInv'
<1>1. call[c].op \in {"allow", "revoke"} /\ call[c].p = p
  BY DEF RuleCall
<1>2. (\A d \in Calls : PeerCallOK(d)') /\ OnePeerCall'
  <2>1. call'[c].op # "peer"
    BY <1>1, StepFacts
  <2>2. QED
    BY <2>1, InvParts, PeerCallsKept
<1>3. \A q \in Peerings : Working(q)' => peer'[q] \in {"pending", "gone"}
  BY FirewallFacts DEF Working
<1>4. \A q : q # p => ~RuleCall(c, q) /\ ~RuleCall(c, q)'
  BY <1>1, StepFacts DEF RuleCall
<1>5. \A q : ~TakesDown(c, q) /\ ~TakesDown(c, q)'
  BY <1>1, StepFacts DEF TakesDown
<1>6. ASSUME NEW q \in Peerings, q # p, q \notin disturbed'
      PROVE  PeeringOK(q)'
  <2>1. PeeringOK(q)
    BY <1>6, FirewallFacts
  <2>2. \A d \in Calls : TakesDown(d, q) => TakesDown(d, q)'
    BY <1>5 DEF TakesDown
  <2>3. QED
    BY <1>4, <1>6, <2>1, <2>2, PeeringKept DEF Working
<1>7. ASSUME p \notin disturbed'
      PROVE  PeeringOK(p)'
  <2>1. PeeringOK(p) /\ p \notin disturbed
    BY <1>7, FirewallFacts
  <2>2. ~Working(p) /\ \A d \in Calls : RuleCall(d, p) => d = c
    BY <2>1 DEF PeeringOK, OneRuleCall
  <2>3. \A d \in Calls : RuleCall(d, p)' => d = c
    BY <2>2 DEF RuleCall
  <2>4. OneRuleCall(p)'
    BY <2>2, <2>3 DEF OneRuleCall, Working
  <2>5. RuleCall(c, p)' => call'[c].active = call[c].active
    BY StepFacts DEF RuleCall
  <2>6. KnowsPeering(p)'
    BY <1>7, <2>1, <2>3, <2>5 DEF PeeringOK, KnowsPeering
  <2>7. NoRulesYet(p)'
    <3>1. peer[p] # "unborn"
      BY <1>1, FirewallFacts, StepFacts DEF PeerCallOK
    <3>2. QED
      BY <2>2, <3>1 DEF NoRulesYet, Working
  <2>8. QED
    BY <1>7, <2>1, <2>4, <2>6, <2>7 DEF PeeringOK
<1>8. QED
  BY <1>2, <1>3, <1>6, <1>7 DEF FirewallInv

(* What a request about rules knows.                                       *)
LEMMA RuleFacts ==
  ASSUME NetworksInv, FirewallInv, NEW c \in Calls, call[c].op \in {"allow", "revoke"}
  PROVE  /\ call[c].p \in Peerings /\ RuleCall(c, call[c].p)
         /\ peer[call[c].p] # "unborn"
         /\ call[c].at \in {"read", "apply"} => call[c].active
         /\ call[c].p \notin disturbed /\ peer[call[c].p] = "active" =>
              /\ call[c].active
              /\ call[c].at = "apply" => call[c].rules = rules[call[c].p]
<1>1. call[c].p \in Peerings /\ RuleCall(c, call[c].p)
  BY CallFacts, StepFacts DEF RuleCall
<1>2. PeerCallOK(c)
  BY FirewallFacts
<1>3. call[c].p \notin disturbed => KnowsPeering(call[c].p)
  BY <1>1, FirewallFacts DEF PeeringOK
<1>4. QED
  BY <1>1, <1>2, <1>3, StepFacts DEF PeerCallOK, KnowsPeering

(* After a change of the rows a request goes on when its copy says active. *)
LEMMA RuleCallMoves ==
  ASSUME NetworksInv, FirewallInv, NEW c \in Calls, NEW p, RuleCall(c, p),
         UNCHANGED peer, Finish(c) \/ AfterRuleChange(c)
  PROVE  /\ \A d \in Calls : d # c => call'[d] = call[d]
         /\ \/ call'[c].op = None
            \/ call'[c].op = call[c].op /\ call'[c].p = p /\ call'[c].active = call[c].active
         /\ call'[c].at # "apply"
         /\ AfterRuleChange(c) /\ call[c].active => RuleCall(c, p)' /\ call'[c].at = "read"
         /\ PeerCallOK(c)'
<1>1. call[c].op \in {"allow", "revoke"} /\ call[c].p = p
  BY DEF RuleCall
<1>2. CASE Finish(c)
  <2>1. /\ \A d \in Calls : d # c => call'[d] = call[d]
        /\ call'[c].op = None /\ call'[c].at = None
    BY <1>2, InvParts, FinishFields
  <2>2. PeerCallOK(c)'
    BY <2>1, IdleCall, StepFacts DEF NetworkOps
  <2>3. AfterRuleChange(c) /\ call[c].active => call'[c].at = "read"
    BY InvParts, GotoFields DEF AfterRuleChange
  <2>4. ~(AfterRuleChange(c) /\ call[c].active)
    BY <2>1, <2>3, StepFacts
  <2>5. QED
    BY <2>1, <2>2, <2>4, StepFacts
<1>3. CASE call[c].active /\ Goto(c, "read")
  <2>1. /\ \A d \in Calls : d # c => call'[d] = call[d]
        /\ call'[c].at = "read" /\ call'[c].op = call[c].op
        /\ call'[c].p = call[c].p /\ call'[c].active = call[c].active
    BY <1>3, InvParts, GotoFields
  <2>2. PeerCallOK(c)'
    BY <1>1, <1>3, <2>1, RuleFacts, StepFacts DEF PeerCallOK
  <2>3. RuleCall(c, p)'
    BY <1>1, <2>1 DEF RuleCall
  <2>4. QED
    BY <1>1, <2>1, <2>2, <2>3
<1>4. QED
  BY <1>2, <1>3 DEF AfterRuleChange

LEMMA ChangeRuleFirewall ==
  ASSUME NetworksInv, FirewallInv, NEW c \in Calls, InsertRule(c) \/ DeleteRule(c)
  PROVE  FirewallInv'
<1>1. call[c].op \in {"allow", "revoke"} /\ call[c].at = "insert"
  BY DEF InsertRule, DeleteRule, At
<1>2. PICK p \in Peerings : p = call[c].p /\ RuleCall(c, p)
  BY <1>1, RuleFacts
<1>3. UNCHANGED <<peer, task, table>> /\ disturbed \subseteq disturbed'
  BY HistoryGrows DEF InsertRule, DeleteRule, dockerPeer, tasks
<1>4. Finish(c) \/ AfterRuleChange(c)
  BY DEF InsertRule, DeleteRule
<1>5. /\ \A d \in Calls : d # c => call'[d] = call[d]
      /\ \/ call'[c].op = None
         \/ call'[c].op = call[c].op /\ call'[c].p = p /\ call'[c].active = call[c].active
      /\ call'[c].at # "apply"
      /\ AfterRuleChange(c) /\ call[c].active => RuleCall(c, p)' /\ call'[c].at = "read"
      /\ PeerCallOK(c)'
  <2>1. UNCHANGED peer
    BY <1>3
  <2>2. QED
    BY <1>2, <1>4, <2>1, RuleCallMoves, Zenon
<1>6. \A q \in Peerings : q # p => rules'[q] = rules[q] /\ table'[q] = table[q]
  BY <1>2, <1>3, InvParts DEF PeerTypes, InsertRule, DeleteRule
<1>7. ASSUME p \notin disturbed
      PROVE  EnforcedOrBusy(p)'
  <2>0. peer[p] # "active" => EnforcedOrBusy(p)'
    BY <1>3 DEF EnforcedOrBusy
  <2>1. SUFFICES ASSUME peer[p] = "active"
                 PROVE  EnforcedOrBusy(p)'
    BY <2>0
  <2>2. call[c].active
    BY <1>1, <1>2, <1>7, <2>1, RuleFacts
  <2>3. CASE AfterRuleChange(c)
    BY <1>5, <2>2, <2>3 DEF EnforcedOrBusy
  <2>4. CASE rules' = rules /\ Finish(c)
    <3>1. EnforcedOrBusy(p) /\ OneRuleCall(p)
      BY <1>2, <1>7, FirewallFacts DEF PeeringOK
    <3>2. \A d \in Calls : ~(RuleCall(d, p) /\ call[d].at \in {"read", "apply"})
      BY <1>1, <1>2, <3>1 DEF OneRuleCall
    <3>3. CASE Enforced(p)
      BY <1>3, <2>4, <3>3 DEF EnforcedOrBusy, Enforced
    <3>4. ASSUME NEW d \in Calls, TakesDown(d, p)
          PROVE  EnforcedOrBusy(p)'
      <4>1. d # c
        BY <1>1, <3>4 DEF TakesDown
      <4>2. TakesDown(d, p)'
        BY <1>5, <3>4, <4>1 DEF TakesDown, EndsOf
      <4>3. QED
        BY <4>2 DEF EnforcedOrBusy
    <3>5. QED
      BY <2>1, <3>1, <3>2, <3>3, <3>4 DEF EnforcedOrBusy
  <2>5. AfterRuleChange(c) \/ (rules' = rules /\ Finish(c))
    BY DEF InsertRule, DeleteRule
  <2>6. QED
    BY <2>3, <2>4, <2>5
<1>8. p \notin disturbed' => EnforcedOrBusy(p)'
  BY <1>3, <1>7
<1>9. QED
  BY <1>2, <1>3, <1>5, <1>6, <1>8, RuleStep

(* The subnets of its networks, as its rows have them.                     *)
SubnetsOf(p) == <<subnet[Ends[p][1]], subnet[Ends[p][2]]>>

LEMMA ReadRulesFirewall ==
  ASSUME NetworksInv, FirewallInv, NEW c \in Calls, ReadRules(c)
  PROVE  FirewallInv'
<1>1. call[c].op \in {"allow", "revoke"} /\ call[c].at = "read"
      /\ call' = [call EXCEPT ![c].at = "apply", ![c].rules = rules[call[c].p],
                              ![c].subnets = SubnetsOf(call[c].p)]
  BY DEF ReadRules, SubnetsOf
<1>2. PICK p \in Peerings :
        /\ p = call[c].p /\ RuleCall(c, p) /\ call[c].active /\ peer[p] # "unborn"
        /\ call[c] \in CallType /\ CallsOK
  BY <1>1, RuleFacts, CallFacts
<1>3. UNCHANGED <<peer, task, table, rules>> /\ disturbed \subseteq disturbed'
  BY HistoryGrows DEF ReadRules, peerRows, tasks
<1>4. PICK k : k = [call[c] EXCEPT !.at = "apply", !.rules = rules[p],
                                   !.subnets = SubnetsOf(p)]
  OBVIOUS
<1>5. /\ k.op = call[c].op /\ k.at = "apply" /\ k.p = p /\ k.active = call[c].active
      /\ k.rules = rules[p]
  BY <1>2, <1>4 DEF CallType
<1>6. call' = [call EXCEPT ![c] = k]
  BY <1>1, <1>2, <1>4 DEF CallsOK
<1>7. call'[c] = k /\ \A d \in Calls : d # c => call'[d] = call[d]
  BY <1>2, <1>6 DEF CallsOK
<1>8. PeerCallOK(c)'
  BY <1>1, <1>2, <1>3, <1>5, <1>7, StepFacts DEF PeerCallOK
<1>9. EnforcedOrBusy(p)'
  <2>1. RuleCall(c, p)' /\ call'[c].at = "apply"
    BY <1>1, <1>5, <1>7 DEF RuleCall
  <2>2. QED
    BY <2>1 DEF EnforcedOrBusy
<1>10. QED
  BY <1>2, <1>3, <1>5, <1>7, <1>8, <1>9, RuleStep

LEMMA ApplyRulesFirewall ==
  ASSUME NetworksInv, FirewallInv, NEW c \in Calls, ApplyRules(c)
  PROVE  FirewallInv'
<1>1. call[c].op \in {"allow", "revoke"} /\ call[c].at = "apply"
  BY DEF ApplyRules
<1>2. PICK p \in Peerings : p = call[c].p /\ RuleCall(c, p)
  BY <1>1, RuleFacts
<1>3. UNCHANGED <<peer, task, rules>> /\ disturbed \subseteq disturbed'
  BY HistoryGrows DEF ApplyRules, peerRows, tasks
<1>4. /\ \A d \in Calls : d # c => call'[d] = call[d]
      /\ call'[c].op = None /\ call'[c].at = None
  BY InvParts, FinishFields DEF ApplyRules
<1>5. PeerCallOK(c)' /\ ~RuleCall(c, p)'
  BY <1>4, IdleCall, StepFacts DEF NetworkOps
<1>6. /\ \A q \in Peerings : q # p => rules'[q] = rules[q] /\ table'[q] = table[q]
      /\ p \in disturbed' \/ table'[p] = call[c].rules
  BY <1>2, <1>3, InvParts DEF DockerTypes, ApplyRules, FaultOn
<1>7. ASSUME p \notin disturbed'
      PROVE  EnforcedOrBusy(p)'
  <2>0. peer[p] # "active" \/ Enforced(p)' => EnforcedOrBusy(p)'
    BY <1>3 DEF EnforcedOrBusy
  <2>1. SUFFICES ASSUME peer[p] = "active"
                 PROVE  Enforced(p)'
    BY <2>0
  <2>2. table'[p] = rules'[p]
    BY <1>1, <1>2, <1>3, <1>6, <1>7, <2>1, RuleFacts
  <2>3. NoTable # rules'[p]
    <3>1. rules[p] \in SUBSET Rules
      BY <1>2, InvParts DEF PeerTypes
    <3>2. None \notin Rules
      BY NetworksAssumption, StepFacts
    <3>3. QED
      BY <1>3, <3>1, <3>2 DEF NoTable
  <2>4. QED
    BY <2>2, <2>3 DEF Enforced
<1>8. QED
  BY <1>2, <1>3, <1>4, <1>5, <1>6, <1>7, RuleStep

-----------------------------------------------------------------------------
(* The task of a peering *)

(* Steps of tasks and of delete_database that change no status.            *)
LEMMA OthersMove ==
  ASSUME NetworksInv, FirewallInv, UNCHANGED <<call, peer, rules, table>>,
         disturbed \subseteq disturbed', \A q \in Peerings : Working(q)' => Working(q)
  PROVE  FirewallInv'
<1>1. (\A d \in Calls : PeerCallOK(d)') /\ OnePeerCall'
  BY InvParts, PeerCallsKept
<1>2. \A q \in Peerings : Working(q)' => peer'[q] \in {"pending", "gone"}
  BY FirewallFacts
<1>3. ASSUME NEW q \in Peerings, q \notin disturbed'
      PROVE  PeeringOK(q)'
  <2>1. PeeringOK(q)
    BY <1>3, FirewallFacts
  <2>2. \A d \in Calls : TakesDown(d, q) => TakesDown(d, q)'
    BY DEF TakesDown, EndsOf
  <2>3. QED
    BY <1>3, <2>1, <2>2, PeeringKept
<1>4. QED
  BY <1>1, <1>2, <1>3 DEF FirewallInv

(* The task sets a status and ends: nobody had added a rule.               *)
LEMMA StatusSet ==
  ASSUME NetworksInv, FirewallInv, NEW p \in Peerings, NEW s \in {"active", "error"},
         Working(p), SetPeerStatus(p, s), UNCHANGED <<call, rules, table, disturbed>>
  PROVE  FirewallInv'
<1>1. /\ task' = [task EXCEPT ![p] = "done"]
      /\ peer' = IF PeerRow(p) THEN [peer EXCEPT ![p] = s] ELSE peer
      /\ peer[p] \in {"pending", "gone"}
  BY FirewallFacts DEF SetPeerStatus
<1>2. /\ ~Working(p)'
      /\ \A q \in Peerings : q # p => peer'[q] = peer[q] /\ (Working(q)' <=> Working(q))
      /\ peer[p] = "gone" => peer'[p] = "gone"
      /\ peer[p] = "pending" => peer'[p] = s
  BY <1>1, StepFacts, InvParts DEF PeerTypes, Working, PeerRow
<1>3. (\A d \in Calls : PeerCallOK(d)') /\ OnePeerCall'
  <2>1. \A q \in Peerings : /\ peer[q] = "gone" => peer'[q] = "gone"
                            /\ peer[q] = "unborn" <=> peer'[q] = "unborn"
    BY <1>1, <1>2
  <2>2. QED
    BY <2>1, InvParts, PeerCallsKept
<1>4. \A q \in Peerings : Working(q)' => peer'[q] \in {"pending", "gone"}
  BY <1>2, FirewallFacts
<1>5. ASSUME NEW q \in Peerings, q # p, q \notin disturbed
      PROVE  PeeringOK(q)'
  <2>1. PeeringOK(q)
    BY <1>5, FirewallFacts
  <2>2. \A d \in Calls : TakesDown(d, q) => TakesDown(d, q)'
    BY DEF TakesDown, EndsOf
  <2>3. QED
    BY <1>2, <1>5, <2>1, <2>2, PeeringKept
<1>6. ASSUME p \notin disturbed
      PROVE  PeeringOK(p)'
  <2>1. PeeringOK(p)
    BY <1>6, FirewallFacts
  <2>2. \A d \in Calls : ~RuleCall(d, p)
    BY <2>1 DEF PeeringOK, OneRuleCall
  <2>3. \A d \in Calls : ~RuleCall(d, p)'
    BY <2>2 DEF RuleCall
  <2>4. OneRuleCall(p)' /\ KnowsPeering(p)'
    BY <2>3 DEF OneRuleCall, KnowsPeering
  <2>5. NoRulesYet(p)'
    BY <1>1, <1>2 DEF NoRulesYet
  <2>6. EnforcedOrBusy(p)'
    <3>1. CASE peer[p] = "gone"
      BY <1>2, <3>1 DEF EnforcedOrBusy
    <3>2. CASE peer[p] = "pending"
      <4>1. rules[p] = {} /\ table[p] = NoTable
        BY <2>1, <3>2 DEF PeeringOK, NoRulesYet
      <4>2. QED
        BY <4>1 DEF EnforcedOrBusy, Enforced
    <3>3. QED
      BY <1>1, <3>1, <3>2
  <2>7. QED
    BY <2>4, <2>5, <2>6 DEF PeeringOK
<1>7. QED
  BY <1>3, <1>4, <1>5, <1>6 DEF FirewallInv

LEMMA TaskFirewall ==
  ASSUME NetworksInv, FirewallInv, NEW p \in Peerings, ProvisionPeering(p)
  PROVE  FirewallInv'
<1> USE DEF dockerPeer, peerRows, tasks
<1>1. \A q \in Peerings : Working(q) <=> task[q] \in TaskSteps
  BY DEF Working
<1>2. CASE UNCHANGED peer
  <2>1. UNCHANGED <<call, rules, table>> /\ disturbed \subseteq disturbed'
    BY HistoryGrows
    DEF ProvisionPeering, MakeBridge, SaveBridge, ReadMembers, Activate, ConnectMember
  <2>2. /\ \A q \in Peerings : q # p => task'[q] = task[q]
        /\ task[p] \in TaskSteps \/ task' = task
    BY StepFacts, InvParts
    DEF ProvisionPeering, MakeBridge, SaveBridge, ReadMembers, Activate, ConnectMember,
        PeerTypes, SetPeerStatus
  <2>3. \A q \in Peerings : Working(q)' => Working(q)
    BY <2>2 DEF Working
  <2>4. QED
    BY <1>2, <2>1, <2>3, OthersMove
<1>3. CASE ~UNCHANGED peer
  <2>1. CASE MakeBridge(p)
    <3>1. task[p] = "spawned" /\ SetPeerStatus(p, "error") /\ NoFault
      BY <1>3, <2>1 DEF MakeBridge
    <3>2. UNCHANGED <<call, rules, table, disturbed>>
      BY <2>1, <3>1 DEF MakeBridge, NoFault
    <3>3. Working(p)
      BY <3>1, StepFacts DEF Working
    <3>4. QED
      BY <3>1, <3>2, <3>3, StatusSet
  <2>2. CASE Activate(p)
    <3>1. task[p] = "second" /\ SetPeerStatus(p, "active") /\ NoFault
      BY <1>3, <2>2 DEF Activate
    <3>2. UNCHANGED <<call, rules, table, disturbed>>
      BY <2>2, <3>1 DEF Activate, NoFault
    <3>3. Working(p)
      BY <3>1, StepFacts DEF Working
    <3>4. QED
      BY <3>1, <3>2, <3>3, StatusSet
  <2>3. QED
    BY <1>3, <2>1, <2>2 DEF ProvisionPeering, SaveBridge, ReadMembers, ConnectMember
<1>4. QED
  BY <1>2, <1>3

(* A peering that gets its row has never had a rule.                       *)
LEMMA InsertPeeringFirewall ==
  ASSUME NetworksInv, FirewallInv, NEW c \in Calls, InsertPeering(c)
  PROVE  FirewallInv'
<1>1. PICK p \in Peerings : p = call[c].p /\ call[c].op = "peer" /\ peer[p] = "unborn"
  BY CallFacts, FirewallFacts DEF InsertPeering, At, PeerCallOK
<1>2. /\ \A d \in Calls : d # c => call'[d] = call[d]
      /\ call'[c].op = None /\ call'[c].at = None
  BY InvParts, FinishFields DEF InsertPeering
<1>3. PeerCallOK(c)' /\ call'[c].op # "peer" /\ \A q : ~RuleCall(c, q)'
  BY <1>2, IdleCall, StepFacts DEF NetworkOps
<1>4. UNCHANGED <<rules, table>> /\ disturbed \subseteq disturbed'
  BY HistoryGrows DEF InsertPeering, dockerPeer
<1>5. \A q \in Peerings : ~RuleCall(c, q) /\ ~TakesDown(c, q)
  BY <1>1 DEF RuleCall, TakesDown
<1>6. CASE UNCHANGED <<peer, task>>
  BY <1>2, <1>3, <1>4, <1>5, <1>6, RequestsMove
<1>7. CASE /\ peer' = [peer EXCEPT ![p] = "pending"]
           /\ task' = [task EXCEPT ![p] = "spawned"]
  <2>1. /\ peer'[p] = "pending"
        /\ \A q \in Peerings : q # p => peer'[q] = peer[q] /\ task'[q] = task[q]
    BY <1>1, <1>7, InvParts DEF PeerTypes
  <2>2. ASSUME NEW d \in Calls, d # c
        PROVE  PeerCallOK(d)'
    <3>1. PeerCallOK(d) /\ call'[d] = call[d]
      BY <1>2, <2>2, FirewallFacts
    <3>2. call[d].op \in PeerCalls \cup {"peer"} => call[d].p \in Peerings
      BY CallFacts
    <3>3. call[d].op = "peer" => call[d].p # p
      BY <1>1, <2>2, FirewallFacts DEF OnePeerCall
    <3>4. \A e \in call[d].list : e[1] \in Peerings
      BY CallFacts DEF CallType
    <3>5. \A q \in Peerings : /\ peer[q] # "unborn" => peer'[q] # "unborn"
                              /\ peer[q] = "gone" => peer'[q] = "gone"
      BY <1>1, <2>1
    <3>6. \A e \in call[d].list : peer[e[1]] # "unborn" => peer'[e[1]] # "unborn"
      BY <3>4, <3>5
    <3>7. call[d].op = "peer" => peer'[call[d].p] = peer[call[d].p]
      BY <2>1, <3>2, <3>3
    <3>8. QED
      BY <3>1, <3>2, <3>5, <3>6, <3>7, StepFacts DEF PeerCallOK, EndsOf
  <2>3. OnePeerCall'
    BY <1>2, <1>3, FirewallFacts DEF OnePeerCall
  <2>4. \A q \in Peerings : Working(q)' => peer'[q] \in {"pending", "gone"}
    BY <2>1, FirewallFacts DEF Working
  <2>5. ASSUME NEW q \in Peerings, q # p, q \notin disturbed'
        PROVE  PeeringOK(q)'
    <3>1. PeeringOK(q)
      BY <1>4, <2>5, FirewallFacts
    <3>2. \A d \in Calls : TakesDown(d, q) => TakesDown(d, q)'
      BY <1>2, <1>5, <2>5 DEF TakesDown, EndsOf
    <3>3. \A d \in Calls : RuleCall(d, q) \/ RuleCall(d, q)' => call'[d] = call[d]
      BY <1>2, <1>3, <1>5
    <3>4. QED
      BY <1>4, <2>1, <2>5, <3>1, <3>2, <3>3, PeeringKept DEF Working
  <2>6. ASSUME p \notin disturbed'
        PROVE  PeeringOK(p)'
    <3>1. PeeringOK(p)
      BY <1>1, <1>4, <2>6, FirewallFacts
    <3>2. \A d \in Calls : ~RuleCall(d, p)
      BY <1>1, RuleFacts DEF RuleCall
    <3>3. \A d \in Calls : ~RuleCall(d, p)'
      BY <1>2, <1>3, <3>2 DEF RuleCall
    <3>4. OneRuleCall(p)' /\ KnowsPeering(p)'
      BY <3>3 DEF OneRuleCall, KnowsPeering
    <3>5. NoRulesYet(p)'
      BY <1>1, <1>4, <3>1 DEF PeeringOK, NoRulesYet
    <3>6. EnforcedOrBusy(p)'
      BY <2>1 DEF EnforcedOrBusy
    <3>7. QED
      BY <3>4, <3>5, <3>6 DEF PeeringOK
  <2>7. QED
    BY <1>3, <2>2, <2>3, <2>4, <2>5, <2>6 DEF FirewallInv
<1>8. QED
  BY <1>1, <1>6, <1>7 DEF InsertPeering

-----------------------------------------------------------------------------
(* delete_database, crashes *)

LEMMA DatabaseFirewall ==
  ASSUME NetworksInv, FirewallInv, NEW d \in Dbs, DeleteDatabase(d)
  PROVE  FirewallInv'
<1>1. UNCHANGED <<call, peer, rules, table, task, disturbed>>
  BY DEF DeleteDatabase, MarkDeleting, LeaveNetworks, RemoveContainer, DeleteDatabaseRow,
         peerRows, dockerPeer, tasks, NoFault, FaultOn
<1>2. QED
  BY <1>1, OthersMove DEF Working

LEMMA CrashFirewall ==
  ASSUME NetworksInv, FirewallInv, Crash
  PROVE  FirewallInv'
<1>1. /\ UNCHANGED <<peer, rules, table>> /\ \A c \in Calls : call'[c] = Idle
      /\ disturbed \subseteq disturbed' /\ InUse \subseteq disturbed'
  BY HistoryGrows DEF Crash, peerRows, dockerPeer
<1>2. \A q \in Peerings : ~Working(q)'
  BY StepFacts DEF Crash, Working
<1>3. \A c \in Calls : /\ PeerCallOK(c)' /\ call'[c].op # "peer"
                       /\ \A q : ~RuleCall(c, q)'
  BY <1>1, IdleFacts, IdleCall, StepFacts DEF NetworkOps
<1>4. (\A c \in Calls : PeerCallOK(c)') /\ OnePeerCall'
  BY <1>3 DEF OnePeerCall
<1>5. ASSUME NEW q \in Peerings, q \notin disturbed'
      PROVE  PeeringOK(q)'
  <2>1. PeeringOK(q) /\ q \notin InUse
    BY <1>1, <1>5, FirewallFacts
  <2>2. peer[q] = "active" => Enforced(q)
    BY <2>1, BusyIsUsed DEF PeeringOK, EnforcedOrBusy, PeerRow
  <2>3. QED
    BY <1>1, <1>2, <1>3, <2>1, <2>2, PeeringKept
<1>6. QED
  BY <1>2, <1>4, <1>5 DEF FirewallInv

-----------------------------------------------------------------------------
LEMMA NextFirewall ==
  ASSUME NetworksInv, FirewallInv, [Next]_vars
  PROVE  FirewallInv'
<1>1. ASSUME NEW c \in Calls, Request(c)
      PROVE  FirewallInv'
  BY <1>1, CountFirewall, FindNetworkFirewall, FindPairFirewall, FindPeeringFirewall
  DEF Request
<1>2. ASSUME NEW c \in Calls, Attach(c) \/ Detach(c) \/ InsertNetwork(c)
      PROVE  FirewallInv'
  BY <1>2, AttachFirewall, DetachFirewall
<1>3. ASSUME NEW c \in Calls, Delete(c)
      PROVE  FirewallInv'
  BY <1>3, ListPeeringsFirewall, TakeDownBridgeFirewall, DeletePeeringFirewall,
     PeeringsDeletedFirewall, TakeDownNetworkFirewall, DeleteNetworkFirewall
  DEF Delete
<1>4. ASSUME NEW c \in Calls, ChangeRule(c) \/ InsertPeering(c) \/ CallFails(c)
      PROVE  FirewallInv'
  BY <1>4, ChangeRuleFirewall, ReadRulesFirewall, ApplyRulesFirewall,
     InsertPeeringFirewall, FailsFirewall
  DEF ChangeRule
<1>5. CASE UNCHANGED vars
  <2>1. UNCHANGED <<call, peer, rules, table, task, disturbed>>
    BY <1>5 DEF vars
  <2>2. QED
    BY <2>1, OthersMove DEF Working
<1>6. QED
  BY <1>1, <1>2, <1>3, <1>4, <1>5, TaskFirewall, DatabaseFirewall, CrashFirewall DEF Next

-----------------------------------------------------------------------------
(* A network on which no calls overlapped and no step failed, and its      *)
(* Docker network.  The request at work on it is the only one, so that its *)
(* copy of the row is still right, and how far it is says in which member, *)
(* or in which Docker network, the rows and Docker differ.                 *)

NetCall(c, n) == call[c].op \in NetCalls /\ call[c].n = n

Is(k, o, steps) == k.op = o /\ k.at \in steps

(* What the request knows.                                                 *)
Knows(n, k) ==
  k.op # None =>
    /\ net[n] = "live" /\ k.host = server[n]
    /\ IF Is(k, "attach", {"save"}) THEN dock[n] = NoDock ELSE k.dock = dock[n]
    /\ Is(k, "attach", {"add"}) =>
         /\ Host[k.d] = server[n] /\ dock[n] # NoDock
         /\ db[k.d] = "running" => <<k.d, dock[n]>> \in joined
    /\ Is(k, "attach", {"sync"}) => k.d \in members[n] \/ ~HasRow(k.d)
    /\ Is(k, "detach", {"unbridge", "remove"}) =>
         <<k.d, dock[n]>> \notin joined \/ db[k.d] = "orphan"

Docked(n, k) ==
  \A i \in DockIds : i[1] = n =>
    /\ docks[i] \in Hosts <=>
         IF Is(k, "attach", {"save"}) THEN i = k.dock
         ELSE \/ net[n] = "live" /\ dock[n] = i /\ ~Is(k, "drop", {"row"})
              \/ HoldsDock(i)
    /\ docks[i] \in Hosts => docks[i] = server[n]

(* Who is connected is a member, or about to become one, or has no row.    *)
JoinedAreMembers(n, k) ==
  \A l \in joined : l[2][1] = n =>
    /\ l[2] = dock[n]
    /\ \/ l[1] \in members[n] /\ ~Is(k, "drop", {"row"})
       \/ Is(k, "attach", {"add"}) /\ k.d = l[1]
       \/ db[l[1]] = "orphan"

MembersAreJoined(n, k) ==
  \A d \in members[n] :
    /\ Host[d] = server[n] /\ dock[n] # NoDock
    /\ db[d] = "running" => \/ <<d, dock[n]>> \in joined
                            \/ Is(k, "detach", {"unbridge", "remove"}) /\ k.d = d
                            \/ Is(k, "drop", {"row"})

Matches(n, k) ==
  Knows(n, k) /\ Docked(n, k) /\ JoinedAreMembers(n, k) /\ MembersAreJoined(n, k)

NetworkOK(n) ==
  /\ \A c \in Calls, e \in Calls : NetCall(c, n) /\ NetCall(e, n) => c = e
  /\ \A c \in Calls : NetCall(c, n) => Matches(n, call[c])
  /\ (\A c \in Calls : ~NetCall(c, n)) => Matches(n, Idle)

(* A container that is connected exists, where the Docker network is.      *)
JoinedExist == \A l \in joined : HasContainer(l[1]) /\ docks[l[2]] = Host[l[1]]

(* Before its row there is nothing, and its request is the only one.       *)
NothingYet(n) ==
  net[n] = "unborn" =>
    /\ members[n] = {} /\ dock[n] = NoDock
    /\ \A i \in DockIds : i[1] = n => docks[i] \notin Hosts

NetCallOK(c) ==
  /\ call[c].op = "create" => net[call[c].n] = "unborn"
  /\ call[c].op \in NetCalls => net[call[c].n] # "unborn"

OneCreate ==
  \A c \in Calls, e \in Calls :
    call[c].op = "create" /\ call[e].op = "create" /\ call[c].n = call[e].n => c = e

ConnectionsInv ==
  /\ JoinedExist
  /\ \A n \in Nets : NothingYet(n)
  /\ \A c \in Calls : NetCallOK(c)
  /\ OneCreate
  /\ \A n \in Nets : n \notin disturbed => NetworkOK(n)
-----------------------------------------------------------------------------
(* What a step must do so that the invariant holds after it *)

LEMMA ConnectionFacts ==
  ASSUME ConnectionsInv
  PROVE  /\ JoinedExist /\ OneCreate
         /\ \A n \in Nets : NothingYet(n)
         /\ \A c \in Calls : NetCallOK(c)
         /\ \A n \in Nets : n \notin disturbed => NetworkOK(n)
BY DEF ConnectionsInv

LEMMA NetCallFacts ==
  ASSUME NetworksInv, NEW c \in Calls, call[c].op \in NetCalls
  PROVE  /\ call[c].n \in Nets /\ call[c].n \in Uses(call[c]) /\ call[c].n \in InUse
         /\ call[c] \in CallType /\ CallOK(call[c])
<1>1. call[c] \in CallType /\ CallOK(call[c]) /\ call[c].n \in Nets
  BY CallFacts
<1>2. call[c].n \in Uses(call[c])
  BY StepFacts DEF Uses
<1>3. QED
  BY <1>1, <1>2 DEF InUse

LEMMA JoinedFacts ==
  ASSUME NetworksInv, NEW l \in joined
  PROVE  /\ l = <<l[1], l[2]>> /\ l[1] \in Dbs /\ l[2] \in DockIds /\ l[2] # NoDock
         /\ l[2][1] \in Nets /\ Host[l[1]] \in Hosts
<1>1. l \in Dbs \X DockIds
  BY InvParts DEF DockerTypes
<1>2. l = <<l[1], l[2]>> /\ l[1] \in Dbs /\ l[2] \in DockIds
  BY <1>1
<1>3. QED
  BY <1>2, DockFacts, NetworksAssumption DEF Hosts

LEMMA NotHosts ==
  Local \in Hosts /\ "unmade" \notin Hosts /\ "removed" \notin Hosts
BY NetworksAssumption DEF Hosts

(* Nothing of a network changes, in rows or in Docker.                     *)
NetworkStays(n) ==
  /\ net'[n] = net[n] /\ server'[n] = server[n] /\ dock'[n] = dock[n]
  /\ members'[n] = members[n]
  /\ \A i \in DockIds : i[1] = n => docks'[i] = docks[i]
  /\ \A l \in joined' \cup joined : l[2][1] = n => (l \in joined' <=> l \in joined)

(* The Docker network a row names is one of that network.                  *)
LEMMA NamedDock ==
  ASSUME NetworksInv, NEW n \in Nets
  PROVE  /\ dock[n] # NoDock => dock[n] \in DockIds /\ dock[n][1] = n
         /\ dock[n] = NoDock => \A d : <<d, dock[n]>> \notin joined
<1>1. dock[n] \in DockIds \cup {NoDock}
  BY InvParts DEF RowTypes
<1>2. ASSUME NEW d, <<d, NoDock>> \in joined
      PROVE  FALSE
  <2>1. <<d, NoDock>> \in Dbs \X DockIds
    BY <1>2, InvParts DEF DockerTypes
  <2>2. QED
    BY <2>1, DockFacts
<1>3. QED
  BY <1>1, <1>2, InvParts DEF RowOwners

LEMMA SameConnections ==
  ASSUME NetworksInv, NetworksInv', NEW n \in Nets, NetworkStays(n)
  PROVE  \A d : <<d, dock'[n]>> \in joined' <=> <<d, dock[n]>> \in joined
<1>1. dock'[n] = dock[n]
  BY DEF NetworkStays
<1>2. CASE dock[n] = NoDock
  <2>1. \A d : <<d, NoDock>> \notin joined'
    <3>1. joined' \subseteq Dbs \X DockIds
      BY DEF NetworksInv, TypeOK
    <3>2. \A d : <<d, NoDock>> \notin Dbs \X DockIds
      BY DockFacts
    <3>3. QED
      BY <3>1, <3>2
  <2>2. QED
    BY <1>1, <1>2, <2>1, NamedDock
<1>3. CASE dock[n] # NoDock
  <2>1. dock[n][1] = n
    BY <1>3, NamedDock
  <2>2. ASSUME NEW d
        PROVE  <<d, dock[n]>> \in joined' <=> <<d, dock[n]>> \in joined
    <3>1. PICK l : l = <<d, dock[n]>>
      OBVIOUS
    <3>2. l[2][1] = n
      BY <2>1, <3>1
    <3>3. QED
      BY <3>1, <3>2 DEF NetworkStays
  <2>3. QED
    BY <1>1, <2>2
<1>4. QED
  BY <1>2, <1>3

(* The containers of removed databases are where they were.                *)
LEMMA SameHeld ==
  ASSUME NEW i, db' = db,
         \A l \in joined' \cup joined : l[2] = i => (l \in joined' <=> l \in joined)
  PROVE  HoldsDock(i)' <=> HoldsDock(i)
<1>1. ASSUME NEW d
      PROVE  <<d, i>> \in joined' <=> <<d, i>> \in joined
  <2>1. PICK l : l = <<d, i>>
    OBVIOUS
  <2>2. l[2] = i
    BY <2>1
  <2>3. QED
    BY <2>1, <2>2
<1>2. QED
  BY <1>1 DEF HoldsDock

LEMMA NobodyHolds ==
  ASSUME NEW i, \A l \in joined : l[2] # i
  PROVE  ~HoldsDock(i)
<1>1. ASSUME NEW d, <<d, i>> \in joined
      PROVE  FALSE
  <2>1. PICK l \in joined : l = <<d, i>>
    BY <1>1
  <2>2. QED
    BY <2>1
<1>2. QED
  BY <1>1 DEF HoldsDock

LEMMA MatchesKept ==
  ASSUME NetworksInv, NetworksInv', NEW n \in Nets, NEW k, Matches(n, k),
         NetworkStays(n), db' = db
  PROVE  Matches(n, k)'
<1> USE DEF Matches, NetworkStays
<1>1. \A d : HasRow(d)' <=> HasRow(d)
  BY DEF HasRow
<1>2. \A d : <<d, dock'[n]>> \in joined' <=> <<d, dock[n]>> \in joined
  BY SameConnections
<1>3. JoinedAreMembers(n, k)'
  BY DEF JoinedAreMembers, Is
<1>4. Docked(n, k)'
  <2>1. ASSUME NEW i \in DockIds, i[1] = n
        PROVE  HoldsDock(i)' <=> HoldsDock(i)
    BY <2>1, SameHeld
  <2>2. QED
    BY <2>1 DEF Docked, Is
<1>5. MembersAreJoined(n, k)'
  BY <1>2 DEF MembersAreJoined, Is
<1>6. Knows(n, k)'
  BY <1>1, <1>2 DEF Knows, Is
<1>7. QED
  BY <1>3, <1>4, <1>5, <1>6

(* No request about the network moves.                                     *)
CallsStay(n) == \A c \in Calls : NetCall(c, n) \/ NetCall(c, n)' => call'[c] = call[c]

LEMMA NetworkKept ==
  ASSUME NetworksInv, NetworksInv', NEW n \in Nets, NetworkOK(n),
         NetworkStays(n), db' = db, CallsStay(n)
  PROVE  NetworkOK(n)'
<1>1. \A c \in Calls : NetCall(c, n)' <=> NetCall(c, n)
  BY DEF CallsStay, NetCall
<1>2. ASSUME NEW c \in Calls, NetCall(c, n)'
      PROVE  Matches(n, call[c])'
  <2>1. PICK k : k = call[c]
    OBVIOUS
  <2>2. k = call'[c] /\ Matches(n, k)
    BY <1>1, <1>2, <2>1 DEF CallsStay, NetworkOK
  <2>3. Matches(n, k)'
    BY <2>2, MatchesKept
  <2>4. QED
    BY <2>2, <2>3
<1>3. Matches(n, Idle) => Matches(n, Idle)'
  BY MatchesKept
<1>4. QED
  BY <1>1, <1>2, <1>3 DEF NetworkOK

(* The request at work on a network moves, and what it changes there fits. *)
LEMMA NetworkMoved ==
  ASSUME NEW n \in Nets, NetworkOK(n), NEW c \in Calls,
         \A e \in Calls : e # c => call'[e] = call[e],
         \A e \in Calls : NetCall(e, n) => e = c,
         NetCall(c, n)' => Matches(n, call[c])',
         ~NetCall(c, n)' => Matches(n, Idle)'
  PROVE  NetworkOK(n)'
<1>1. \A e \in Calls : NetCall(e, n)' => e = c
  BY DEF NetCall
<1>2. QED
  BY <1>1 DEF NetworkOK

(* Requests that went on, ended, or began about a network that fits.       *)
LEMMA CallsKept ==
  ASSUME NetworksInv, ConnectionsInv,
         \A n \in Nets : net'[n] = "unborn" <=> net[n] = "unborn",
         \A c \in Calls :
           \/ call'[c] = call[c]
           \/ call'[c].op = call[c].op /\ call'[c].n = call[c].n
           \/ call'[c].op \notin NetCalls \cup {"create"}
           \/ call'[c].op \in NetCalls /\ call'[c].n \in Nets /\ net[call'[c].n] # "unborn"
  PROVE  (\A c \in Calls : NetCallOK(c)') /\ OneCreate'
<1>1. ASSUME NEW c \in Calls
      PROVE  NetCallOK(c)'
  <2>1. call[c].op \in NetCalls \cup {"create"} => call[c].n \in Nets
    BY InvParts DEF CallsOK, CallOK
  <2>2. QED
    BY <2>1, ConnectionFacts, StepFacts DEF NetCallOK
<1>2. OneCreate'
  BY ConnectionFacts, StepFacts DEF OneCreate
<1>3. QED
  BY <1>1, <1>2

(* The rest of the invariant: what exists in Docker, and before a row.     *)
LEMMA RestKept ==
  ASSUME ConnectionsInv, UNCHANGED <<db, dockerNets, dock, members>>,
         \A n \in Nets : net'[n] = "unborn" => net[n] = "unborn"
  PROVE  JoinedExist' /\ \A n \in Nets : NothingYet(n)'
<1>1. JoinedExist'
  BY ConnectionFacts DEF JoinedExist, HasContainer, dockerNets
<1>2. QED
  BY <1>1, ConnectionFacts DEF NothingYet, dockerNets

LEMMA AllStay ==
  ASSUME UNCHANGED <<netRows, dockerNets>>
  PROVE  \A n \in Nets : NetworkStays(n)
BY DEF NetworkStays, netRows, dockerNets

(* Operations that do not read or write networks.                          *)
Aside(k) == k.op \notin NetCalls \cup {"create"}

(* A step of requests and tasks that have nothing to do with networks.     *)
LEMMA ElsewhereMoves ==
  ASSUME NetworksInv, NetworksInv', ConnectionsInv,
         UNCHANGED <<db, netRows, dockerNets>>, disturbed \subseteq disturbed',
         \A c \in Calls : call'[c] = call[c] \/ (Aside(call[c]) /\ Aside(call'[c]))
  PROVE  ConnectionsInv'
<1>1. JoinedExist' /\ \A n \in Nets : NothingYet(n)'
  BY RestKept DEF netRows
<1>2. (\A c \in Calls : NetCallOK(c)') /\ OneCreate'
  BY CallsKept DEF netRows, Aside
<1>3. ASSUME NEW n \in Nets, n \notin disturbed'
      PROVE  NetworkOK(n)'
  <2>1. NetworkOK(n)
    BY <1>3, ConnectionFacts
  <2>2. CallsStay(n)
    BY DEF CallsStay, NetCall, Aside
  <2>3. QED
    BY <2>1, <2>2, AllStay, NetworkKept
<1>4. QED
  BY <1>1, <1>2, <1>3 DEF ConnectionsInv

(* A step of a request about a network, which changes nothing elsewhere.   *)
LEMMA OnNetwork ==
  ASSUME NetworksInv, NetworksInv', ConnectionsInv, NEW c \in Calls, NEW k, NEW m,
         k = call[c], m = call'[c], k.op \in NetCalls,
         m = Idle \/ (m.op = k.op /\ m.n = k.n),
         \A e \in Calls : e # c => call'[e] = call[e],
         db' = db, disturbed \subseteq disturbed', JoinedExist',
         \A n \in Nets : n # k.n => NetworkStays(n),
         net'[k.n] # "unborn",
         k.n \notin disturbed' /\ Matches(k.n, k) => Matches(k.n, m)'
  PROVE  ConnectionsInv'
<1>1. k.n \in Nets /\ net[k.n] # "unborn"
  BY NetCallFacts, ConnectionFacts DEF NetCallOK
<1>2. \A n \in Nets : net'[n] = "unborn" <=> net[n] = "unborn"
  BY <1>1 DEF NetworkStays
<1>3. \A n \in Nets : NothingYet(n)'
  BY <1>1, <1>2, ConnectionFacts DEF NothingYet, NetworkStays
<1>4. (\A e \in Calls : NetCallOK(e)') /\ OneCreate'
  BY <1>2, CallsKept, IdleFacts, StepFacts
<1>5. ASSUME NEW n \in Nets, n # k.n, n \notin disturbed'
      PROVE  NetworkOK(n)'
  <2>1. NetworkOK(n) /\ NetworkStays(n)
    BY <1>5, ConnectionFacts
  <2>2. CallsStay(n)
    BY <1>5, IdleFacts, StepFacts DEF CallsStay, NetCall
  <2>3. QED
    BY <2>1, <2>2, NetworkKept
<1>6. ASSUME k.n \notin disturbed'
      PROVE  NetworkOK(k.n)'
  <2>1. PICK n : n = k.n
    OBVIOUS
  <2>2. NetworkOK(n) /\ NetCall(c, n)
    BY <1>1, <1>6, <2>1, ConnectionFacts DEF NetCall
  <2>3. \A e \in Calls : NetCall(e, n) => e = c
    BY <2>2 DEF NetworkOK
  <2>4. Matches(n, m)'
    BY <1>6, <2>1, <2>2 DEF NetworkOK
  <2>5. CASE m = Idle
    <3>1. ~NetCall(c, n)'
      BY <2>5, IdleFacts, StepFacts DEF NetCall
    <3>2. Matches(n, Idle)'
      BY <2>4, <2>5
    <3>3. QED
      BY <1>1, <2>1, <2>2, <2>3, <3>1, <3>2, NetworkMoved
  <2>6. CASE m.op = k.op /\ m.n = k.n
    <3>1. NetCall(c, n)'
      BY <2>1, <2>6 DEF NetCall
    <3>2. Matches(n, call[c])'
      BY <2>4
    <3>3. QED
      BY <1>1, <2>1, <2>2, <2>3, <3>1, <3>2, NetworkMoved
  <2>7. QED
    BY <2>5, <2>6
<1>7. QED
  BY <1>1, <1>3, <1>4, <1>5, <1>6 DEF ConnectionsInv

(* Positions at which rows and Docker agree.                               *)
Plain(k) ==
  /\ ~Is(k, "attach", {"save", "add", "sync"})
  /\ ~Is(k, "detach", {"unbridge", "remove"})
  /\ ~Is(k, "drop", {"row"})

LEMMA PlainIdle == Plain(Idle)
BY IdleFacts, StepFacts DEF Plain, Is

LEMMA PlainMatches ==
  ASSUME NEW n, NEW k, NEW m, Matches(n, k), Plain(k), Plain(m),
         m.op # None =>
           /\ m.host = server[n] /\ m.dock = dock[n] /\ net[n] = "live"
  PROVE  Matches(n, m)
<1> USE DEF Matches, Plain, Is
<1>1. Knows(n, m)
  BY DEF Knows
<1>2. Docked(n, m)
  BY DEF Docked
<1>3. JoinedAreMembers(n, m)
  BY DEF JoinedAreMembers
<1>4. MembersAreJoined(n, m)
  BY DEF MembersAreJoined
<1>5. QED
  BY <1>1, <1>2, <1>3, <1>4

(* A request about a network goes on from one such position to another, or *)
(* ends, without changing anything.                                        *)
LEMMA PlainStep ==
  ASSUME NetworksInv, NetworksInv', ConnectionsInv, NEW c \in Calls, NEW k, NEW m,
         k = call[c], m = call'[c], k.op \in NetCalls,
         m = Idle \/ (m.op = k.op /\ m.n = k.n /\ m.host = k.host /\ m.dock = k.dock),
         \A e \in Calls : e # c => call'[e] = call[e],
         UNCHANGED <<db, net, server, dock, members, dockerNets>>, disturbed \subseteq disturbed',
         Plain(k), Plain(m)
  PROVE  ConnectionsInv'
<1>1. JoinedExist' /\ \A n \in Nets : NetworkStays(n)
  BY RestKept DEF NetworkStays, dockerNets
<1>2. k.n \in Nets /\ net'[k.n] # "unborn"
  BY NetCallFacts, ConnectionFacts DEF NetCallOK
<1>3. ASSUME Matches(k.n, k)
      PROVE  Matches(k.n, m)'
  <2>1. k.op # None /\ (m.op # None => m.host = k.host /\ m.dock = k.dock)
    BY IdleFacts, StepFacts
  <2>2. k.host = server[k.n] /\ k.dock = dock[k.n] /\ net[k.n] = "live"
    BY <1>3, <2>1 DEF Matches, Knows, Plain, Is
  <2>3. Matches(k.n, m)
    BY <1>3, <2>1, <2>2, PlainMatches
  <2>4. PICK n : n = k.n
    OBVIOUS
  <2>5. Matches(n, m)'
    BY <1>1, <1>2, <2>3, <2>4, MatchesKept
  <2>6. QED
    BY <2>4, <2>5
<1>4. QED
  BY <1>1, <1>2, <1>3, OnNetwork

-----------------------------------------------------------------------------
(* Requests begin *)

LEMMA InitConnections == Init => ConnectionsInv
<1> SUFFICES ASSUME Init PROVE ConnectionsInv
  OBVIOUS
<1> USE DEF Init
<1>1. \A c \in Calls : call[c] = Idle /\ call[c].op = None
  BY IdleFacts
<1>2. JoinedExist /\ OneCreate /\ \A c \in Calls : NetCallOK(c)
  BY <1>1, StepFacts DEF JoinedExist, OneCreate, NetCallOK
<1>3. ASSUME NEW n \in Nets
      PROVE  NothingYet(n) /\ NetworkOK(n)
  <2>1. members[n] = {} /\ dock[n] = NoDock /\ \A i \in DockIds : docks[i] \notin Hosts
    BY NotHosts
  <2>2. NothingYet(n)
    BY <2>1 DEF NothingYet
  <2>3. \A c \in Calls : ~NetCall(c, n)
    BY <1>1, StepFacts DEF NetCall
  <2>4. Knows(n, Idle) /\ JoinedAreMembers(n, Idle) /\ MembersAreJoined(n, Idle)
    BY <2>1, IdleFacts DEF Knows, JoinedAreMembers, MembersAreJoined
  <2>5. Docked(n, Idle)
    BY <2>1, IdleFacts, DockFacts, StepFacts DEF Docked, Is, HoldsDock
  <2>6. QED
    BY <2>2, <2>3, <2>4, <2>5 DEF NetworkOK, Matches
<1>4. QED
  BY <1>2, <1>3 DEF ConnectionsInv

LEMMA CountConnections ==
  ASSUME NetworksInv, NetworksInv', ConnectionsInv, NEW c \in Calls, NEW n \in Nets,
         CountNetworks(c, n)
  PROVE  ConnectionsInv'
<1>1. PICK k : k = [Idle EXCEPT !.op = "create", !.at = "insert", !.n = n]
  OBVIOUS
<1>2. Start(c, k) /\ k.op = "create" /\ k.n = n
  BY <1>1 DEF CountNetworks, Idle
<1>3. /\ \A e \in Calls : e # c => call'[e] = call[e]
      /\ call'[c] = k /\ call[c].op = None /\ disturbed \subseteq disturbed'
  BY <1>2, InvParts, StartFields
<1>4. /\ UNCHANGED <<db, netRows, dockerNets>> /\ net[n] = "unborn"
      /\ \A e \in Calls : call[e].n # n
  BY DEF CountNetworks
<1>5. JoinedExist' /\ \A x \in Nets : NothingYet(x)'
  BY <1>4, RestKept DEF netRows
<1>6. \A e \in Calls : NetCallOK(e)'
  BY <1>2, <1>3, <1>4, ConnectionFacts, StepFacts DEF NetCallOK, netRows
<1>7. OneCreate'
  BY <1>2, <1>3, <1>4, ConnectionFacts DEF OneCreate
<1>8. ASSUME NEW x \in Nets, x \notin disturbed'
      PROVE  NetworkOK(x)'
  <2>1. NetworkOK(x)
    BY <1>3, <1>8, ConnectionFacts
  <2>2. CallsStay(x)
    BY <1>2, <1>3, StepFacts DEF CallsStay, NetCall
  <2>3. QED
    BY <1>4, <2>1, <2>2, AllStay, NetworkKept
<1>9. QED
  BY <1>5, <1>6, <1>7, <1>8 DEF ConnectionsInv

LEMMA InsertNetworkConnections ==
  ASSUME NetworksInv, NetworksInv', ConnectionsInv, NEW c \in Calls, InsertNetwork(c)
  PROVE  ConnectionsInv'
<1>1. PICK n : n = call[c].n
  OBVIOUS
<1>2. call[c].op = "create" /\ n \in Nets /\ net[n] = "unborn"
  BY <1>1, CallFacts, ConnectionFacts DEF InsertNetwork, At, NetCallOK, CallOK
<1>3. /\ \A e \in Calls : e # c => call'[e] = call[e]
      /\ call'[c].op = None /\ disturbed' = disturbed
  BY InvParts, FinishFields DEF InsertNetwork, NoFault
<1>4. /\ UNCHANGED <<db, dockerNets, server, dock, members>>
      /\ net'[n] = "live" /\ \A x \in Nets : x # n => net'[x] = net[x]
  BY <1>1, <1>2, InvParts DEF InsertNetwork, RowTypes
<1>5. JoinedExist' /\ \A x \in Nets : NothingYet(x)'
  BY <1>2, <1>4, RestKept
<1>6. ASSUME NEW e \in Calls
      PROVE  NetCallOK(e)'
  <2>1. call[e].op = "create" /\ call[e].n = n => e = c
    BY <1>1, <1>2, ConnectionFacts DEF OneCreate
  <2>2. call[e].op \in NetCalls \cup {"create"} => call[e].n \in Nets
    BY InvParts DEF CallsOK, CallOK
  <2>3. QED
    BY <1>2, <1>3, <1>4, <2>1, <2>2, ConnectionFacts, StepFacts DEF NetCallOK
<1>7. OneCreate'
  BY <1>3, ConnectionFacts, StepFacts DEF OneCreate
<1>8. ASSUME NEW x \in Nets, x # n, x \notin disturbed'
      PROVE  NetworkOK(x)'
  <2>1. NetworkOK(x)
    BY <1>3, <1>8, ConnectionFacts
  <2>2. CallsStay(x)
    BY <1>2, <1>3, StepFacts DEF CallsStay, NetCall
  <2>3. NetworkStays(x)
    BY <1>4, <1>8 DEF NetworkStays, dockerNets
  <2>4. QED
    BY <1>4, <2>1, <2>2, <2>3, NetworkKept
<1>9. NetworkOK(n)'
  <2>1. \A e \in Calls : ~NetCall(e, n)
    BY <1>2, ConnectionFacts DEF NetCallOK, NetCall
  <2>2. \A e \in Calls : ~NetCall(e, n)'
    BY <1>3, <2>1, StepFacts DEF NetCall
  <2>3. /\ members[n] = {} /\ dock[n] = NoDock
        /\ \A i \in DockIds : i[1] = n => docks[i] \notin Hosts
    BY <1>2, ConnectionFacts DEF NothingYet
  <2>4. \A l \in joined : l[2][1] # n
    BY <2>3, JoinedFacts, ConnectionFacts DEF JoinedExist
  <2>5. JoinedAreMembers(n, Idle)'
    BY <1>4, <2>4 DEF JoinedAreMembers, dockerNets
  <2>6. Knows(n, Idle)' /\ MembersAreJoined(n, Idle)'
    BY <1>4, <2>3, IdleFacts DEF Knows, MembersAreJoined
  <2>7. Docked(n, Idle)'
    <3>1. \A i \in DockIds : i[1] = n => ~HoldsDock(i)'
      <4>1. ASSUME NEW i \in DockIds, i[1] = n
            PROVE  ~HoldsDock(i)
        BY <2>4, <4>1, NobodyHolds
      <4>2. QED
        BY <1>4, <4>1 DEF HoldsDock, dockerNets
    <3>2. QED
      BY <1>4, <2>3, <3>1, IdleFacts, DockFacts, StepFacts DEF Docked, Is, dockerNets
  <2>8. QED
    BY <2>2, <2>5, <2>6, <2>7 DEF NetworkOK, Matches
<1>10. QED
  BY <1>5, <1>6, <1>7, <1>8, <1>9 DEF ConnectionsInv

(* Nobody is at work on a network that is not in use.                      *)
LEMMA NotInUse ==
  ASSUME NetworksInv, NEW n, n \notin InUse
  PROVE  \A c \in Calls : ~NetCall(c, n)
BY NetCallFacts DEF NetCall

LEMMA FindNetworkConnections ==
  ASSUME NetworksInv, NetworksInv', ConnectionsInv, NEW c \in Calls, NEW o \in NetCalls,
         NEW n \in Nets, NEW d, FindNetwork(c, o, n, d)
  PROVE  ConnectionsInv'
<1>1. PICK k : k = [Idle EXCEPT !.op = o, !.at = "found", !.n = n, !.d = d,
                                !.host = server[n], !.dock = dock[n]]
  OBVIOUS
<1>2. /\ Start(c, k) /\ k.op = o /\ k.at = "found" /\ k.n = n
      /\ k.host = server[n] /\ k.dock = dock[n]
  BY <1>1 DEF FindNetwork, Idle
<1>3. /\ \A e \in Calls : e # c => call'[e] = call[e]
      /\ call'[c] = k /\ call[c].op = None /\ disturbed \subseteq disturbed'
      /\ \A x \in Uses(k) \cap InUse : x \in disturbed'
  BY <1>2, InvParts, StartFields
<1>4. UNCHANGED <<db, netRows, dockerNets>> /\ net[n] = "live"
  BY DEF FindNetwork
<1>5. JoinedExist' /\ \A x \in Nets : NothingYet(x)'
  BY <1>4, RestKept DEF netRows
<1>6. (\A e \in Calls : NetCallOK(e)') /\ OneCreate'
  BY <1>2, <1>3, <1>4, CallsKept, StepFacts DEF netRows
<1>7. ASSUME NEW x \in Nets, x # n, x \notin disturbed'
      PROVE  NetworkOK(x)'
  <2>1. NetworkOK(x)
    BY <1>3, <1>7, ConnectionFacts
  <2>2. CallsStay(x)
    BY <1>2, <1>3, <1>7, StepFacts DEF CallsStay, NetCall
  <2>3. QED
    BY <1>4, <2>1, <2>2, AllStay, NetworkKept
<1>8. ASSUME n \notin disturbed'
      PROVE  NetworkOK(n)'
  <2>1. n \in Uses(k)
    BY <1>2, StepFacts DEF Uses
  <2>2. \A e \in Calls : ~NetCall(e, n)
    BY <1>3, <1>8, <2>1, NotInUse
  <2>3. NetworkOK(n) /\ Matches(n, Idle)
    BY <1>3, <1>8, <2>2, ConnectionFacts DEF NetworkOK
  <2>4. Plain(k)
    BY <1>2 DEF Plain, Is
  <2>5. Matches(n, k)
    BY <1>2, <1>4, <2>3, <2>4, PlainIdle, PlainMatches
  <2>6. Matches(n, k)'
    BY <1>4, <2>5, AllStay, MatchesKept
  <2>7. NetCall(c, n)' /\ Matches(n, call[c])'
    BY <1>2, <1>3, <2>6 DEF NetCall
  <2>8. QED
    BY <1>3, <2>2, <2>3, <2>7, NetworkMoved
<1>9. QED
  BY <1>3, <1>5, <1>6, <1>7, <1>8 DEF ConnectionsInv

(* A request that fails disturbs the network it was at work on.            *)
LEMMA FailsConnections ==
  ASSUME NetworksInv, NetworksInv', ConnectionsInv, NEW c \in Calls, CallFails(c)
  PROVE  ConnectionsInv'
<1>1. \A d \in Calls : d # c => call'[d] = call[d]
  BY InvParts, FinishFields DEF CallFails
<1>2. /\ call'[c].op = None /\ UNCHANGED <<db, netRows, dockerNets>>
      /\ disturbed \subseteq disturbed' /\ Uses(call[c]) \subseteq disturbed'
  BY InvParts, FinishFields, HistoryGrows DEF CallFails
<1>3. JoinedExist' /\ \A n \in Nets : NothingYet(n)'
  BY <1>2, RestKept DEF netRows
<1>4. (\A e \in Calls : NetCallOK(e)') /\ OneCreate'
  BY <1>1, <1>2, CallsKept, StepFacts DEF netRows
<1>5. ASSUME NEW n \in Nets, n \notin disturbed'
      PROVE  NetworkOK(n)'
  <2>1. NetworkOK(n) /\ ~NetCall(c, n)
    BY <1>2, <1>5, ConnectionFacts, NetCallFacts DEF NetCall
  <2>2. CallsStay(n)
    BY <1>1, <1>2, <2>1, StepFacts DEF CallsStay, NetCall
  <2>3. QED
    BY <1>2, <2>1, <2>2, AllStay, NetworkKept
<1>6. QED
  BY <1>3, <1>4, <1>5 DEF ConnectionsInv

-----------------------------------------------------------------------------
(* attach_database *)

LEMMA GotoRecord ==
  ASSUME CallsOK, NEW c \in Calls, NEW s, Goto(c, s)
  PROVE  /\ \A e \in Calls : e # c => call'[e] = call[e]
         /\ call'[c].op = call[c].op /\ call'[c].at = s /\ call'[c].n = call[c].n
         /\ call'[c].d = call[c].d /\ call'[c].host = call[c].host
         /\ call'[c].dock = call[c].dock
BY DEF Goto, CallsOK, CallType

LEMMA FinishRecord ==
  ASSUME CallsOK, NEW c \in Calls, Finish(c)
  PROVE  call'[c] = Idle /\ \A e \in Calls : e # c => call'[e] = call[e]
BY DEF Finish, CallsOK

(* What an undisturbed request knows of its network, and what it may count *)
(* on when the network has no Docker network yet.                          *)
LEMMA KnownNetwork ==
  ASSUME NetworksInv, ConnectionsInv, NEW c \in Calls, NEW k, k = call[c], k.op \in NetCalls
  PROVE  /\ CallsOK /\ k \in CallType /\ CallOK(k) /\ k.n \in Nets /\ net[k.n] # "unborn"
         /\ k.dock # NoDock => k.dock \in DockIds /\ k.dock[1] = k.n
<1>1. CallsOK /\ k \in CallType /\ CallOK(k) /\ k.n \in Nets /\ net[k.n] # "unborn"
  BY CallFacts, NetCallFacts, ConnectionFacts DEF NetCallOK
<1>2. k.dock # NoDock => k.dock \in DockIds /\ k.dock[1] = k.n
  BY <1>1 DEF CallType, CallOK
<1>3. QED
  BY <1>1, <1>2

LEMMA NothingDocked ==
  ASSUME NetworksInv, NEW n \in Nets, NEW k, Matches(n, k), dock[n] = NoDock,
         ~Is(k, "attach", {"save"})
  PROVE  /\ members[n] = {} /\ \A l \in joined : l[2][1] # n
         /\ \A i \in DockIds : i[1] = n => docks[i] \notin Hosts /\ ~HoldsDock(i)
<1>1. members[n] = {}
  BY DEF Matches, MembersAreJoined
<1>2. \A l \in joined : l[2][1] # n
  BY JoinedFacts DEF Matches, JoinedAreMembers
<1>3. ASSUME NEW i \in DockIds, i[1] = n
      PROVE  ~HoldsDock(i)
  BY <1>2, <1>3, NobodyHolds
<1>4. \A i \in DockIds : i[1] = n => docks[i] \notin Hosts
  BY <1>3, DockFacts DEF Matches, Docked
<1>5. QED
  BY <1>1, <1>2, <1>3, <1>4

(* They are on the Docker network that the row names.                      *)
LEMMA NamedHeld ==
  ASSUME NEW n, NEW k, JoinedAreMembers(n, k), NEW i, i[1] = n, HoldsDock(i)
  PROVE  i = dock[n]
<1>1. PICK d : <<d, i>> \in joined
  BY DEF HoldsDock
<1>2. PICK l \in joined : l = <<d, i>>
  BY <1>1
<1>3. l[2] = i
  BY <1>2
<1>4. QED
  BY <1>3 DEF JoinedAreMembers

LEMMA CheckConnections ==
  ASSUME NetworksInv, NetworksInv', ConnectionsInv, NEW c \in Calls, CheckDatabase(c)
  PROVE  ConnectionsInv'
<1>1. PICK k, m : k = call[c] /\ m = call'[c]
  OBVIOUS
<1>2. k.op = "attach" /\ k.at = "found" /\ CallsOK
  BY <1>1, InvParts DEF CheckDatabase, At
<1>3. /\ UNCHANGED <<db, netRows, dockerNets>> /\ disturbed \subseteq disturbed'
      /\ Finish(c) \/ Goto(c, "serve") \/ Goto(c, "dock")
  BY HistoryGrows DEF CheckDatabase
<1>4. /\ \A e \in Calls : e # c => call'[e] = call[e]
      /\ \/ m = Idle
         \/ /\ m.op = k.op /\ m.n = k.n /\ m.host = k.host /\ m.dock = k.dock
            /\ m.at \in {"serve", "dock"}
  BY <1>1, <1>2, <1>3, FinishRecord, GotoRecord
<1>5. Plain(k) /\ Plain(m)
  BY <1>2, <1>4, PlainIdle DEF Plain, Is
<1>6. QED
  BY <1>1, <1>2, <1>3, <1>4, <1>5, PlainStep, StepFacts DEF netRows

LEMMA SetServerConnections ==
  ASSUME NetworksInv, NetworksInv', ConnectionsInv, NEW c \in Calls, SetServer(c)
  PROVE  ConnectionsInv'
<1>1. PICK k, m : k = call[c] /\ m = call'[c]
  OBVIOUS
<1>2. k.op = "attach" /\ k.at = "serve" /\ k.op \in NetCalls
  BY <1>1, StepFacts DEF SetServer, At
<1>3. CallsOK /\ k \in CallType /\ k.n \in Nets /\ net[k.n] # "unborn"
  BY <1>1, <1>2, KnownNetwork
<1>4. /\ \A e \in Calls : e # c => call'[e] = call[e]
      /\ m.op = "attach" /\ m.n = k.n /\ m.at = "dock" /\ m.dock = k.dock
      /\ m.host = Host[k.d]
  BY <1>1, <1>2, <1>3 DEF SetServer, CallsOK, CallType
<1>5. /\ UNCHANGED <<db, net, dock, members, dockerNets>> /\ disturbed \subseteq disturbed'
      /\ k.n \notin disturbed' => dock[k.n] = NoDock
      /\ net[k.n] = "live" => server'[k.n] = Host[k.d]
      /\ \A n \in Nets : n # k.n => server'[n] = server[n]
  BY <1>1, <1>3, InvParts DEF SetServer, RowTypes
<1>6. JoinedExist'
  BY <1>5, RestKept
<1>7. \A n \in Nets : n # k.n => NetworkStays(n)
  BY <1>5 DEF NetworkStays, dockerNets
<1>8. ASSUME k.n \notin disturbed', Matches(k.n, k)
      PROVE  Matches(k.n, m)'
  <2>1. PICK n : n = k.n
    OBVIOUS
  <2>2. net[n] = "live" /\ k.dock = dock[n] /\ dock[n] = NoDock
    BY <1>2, <1>5, <1>8, <2>1, StepFacts DEF Matches, Knows, Is
  <2>3. /\ members[n] = {} /\ \A l \in joined : l[2][1] # n
        /\ \A i \in DockIds : i[1] = n => docks[i] \notin Hosts /\ ~HoldsDock(i)
    BY <1>2, <1>3, <1>8, <2>1, <2>2, NothingDocked DEF Is
  <2>4. Knows(n, m)'
    BY <1>4, <1>5, <2>1, <2>2 DEF Knows, Is
  <2>5. Docked(n, m)'
    BY <1>4, <1>5, <2>2, <2>3, DockFacts DEF Docked, Is, HoldsDock, dockerNets
  <2>6. JoinedAreMembers(n, m)' /\ MembersAreJoined(n, m)'
    BY <1>5, <2>3 DEF JoinedAreMembers, MembersAreJoined, dockerNets
  <2>7. Matches(n, m)'
    BY <2>4, <2>5, <2>6 DEF Matches
  <2>8. QED
    BY <2>1, <2>7
<1>9. net'[k.n] # "unborn"
  BY <1>3, <1>5
<1>10. QED
  BY <1>1, <1>2, <1>4, <1>5, <1>6, <1>7, <1>8, <1>9, OnNetwork

LEMMA MakeDockConnections ==
  ASSUME NetworksInv, NetworksInv', ConnectionsInv, NEW c \in Calls, MakeDock(c)
  PROVE  ConnectionsInv'
<1>1. PICK k, m : k = call[c] /\ m = call'[c]
  OBVIOUS
<1>2. k.op = "attach" /\ k.at = "dock" /\ k.op \in NetCalls
  BY <1>1, StepFacts DEF MakeDock, At
<1>3. CallsOK /\ k \in CallType /\ k.n \in Nets /\ net[k.n] # "unborn"
  BY <1>1, <1>2, KnownNetwork
<1>4. UNCHANGED <<db, netRows, joined>> /\ disturbed \subseteq disturbed'
  BY HistoryGrows DEF MakeDock
<1>5. CASE k.dock # NoDock
  <2>1. Goto(c, "join") /\ UNCHANGED docks
    BY <1>1, <1>5 DEF MakeDock
  <2>2. /\ \A e \in Calls : e # c => call'[e] = call[e]
        /\ m.op = k.op /\ m.n = k.n /\ m.host = k.host /\ m.dock = k.dock /\ m.at = "join"
    BY <1>1, <1>3, <2>1, GotoRecord
  <2>3. Plain(k) /\ Plain(m)
    BY <1>2, <2>2 DEF Plain, Is
  <2>4. UNCHANGED <<db, netRows, dockerNets>>
    BY <1>4, <2>1 DEF dockerNets
  <2>5. QED
    BY <1>1, <1>2, <1>4, <2>2, <2>3, <2>4, PlainStep DEF netRows
<1>6. CASE k.dock = NoDock
  <2>1. PICK j \in 1..MaxDocks :
          /\ docks[<<k.n, j>>] = "unmade"
          /\ docks' = [docks EXCEPT ![<<k.n, j>>] = k.host]
          /\ call' = [call EXCEPT ![c].at = "save", ![c].dock = <<k.n, j>>]
    BY <1>1, <1>6 DEF MakeDock
  <2>2. PICK i : i = <<k.n, j>>
    OBVIOUS
  <2>3. i \in DockIds /\ i[1] = k.n /\ docks[i] = "unmade"
    BY <1>3, <2>1, <2>2, DockFacts
  <2>4. docks'[i] = k.host /\ \A x \in DockIds : x # i => docks'[x] = docks[x]
    BY <2>1, <2>2, <2>3, InvParts DEF DockerTypes
  <2>5. /\ \A e \in Calls : e # c => call'[e] = call[e]
        /\ m.op = k.op /\ m.n = k.n /\ m.host = k.host /\ m.dock = i /\ m.at = "save"
    BY <1>1, <1>3, <2>1, <2>2 DEF CallsOK, CallType
  <2>6. JoinedExist'
    <3>1. ASSUME NEW l \in joined
          PROVE  l[2] # i
      BY <2>3, NotHosts, JoinedFacts, ConnectionFacts DEF JoinedExist
    <3>2. \A l \in joined : docks'[l[2]] = docks[l[2]]
      BY <2>4, <3>1, JoinedFacts
    <3>3. QED
      BY <1>4, <3>2, ConnectionFacts DEF JoinedExist, HasContainer
  <2>7. \A n \in Nets : n # k.n => NetworkStays(n)
    BY <1>4, <2>3, <2>4 DEF NetworkStays, netRows
  <2>8. ASSUME Matches(k.n, k)
        PROVE  Matches(k.n, m)'
    <3>1. PICK n : n = k.n
      OBVIOUS
    <3>2. net[n] = "live" /\ k.dock = dock[n] /\ dock[n] = NoDock /\ k.host = server[n]
      BY <1>2, <1>6, <2>8, <3>1, StepFacts DEF Matches, Knows, Is
    <3>3. /\ members[n] = {} /\ \A l \in joined : l[2][1] # n
          /\ \A x \in DockIds : x[1] = n => docks[x] \notin Hosts
      BY <1>2, <1>3, <2>8, <3>1, <3>2, NothingDocked DEF Is
    <3>4. Knows(n, m)'
      BY <1>2, <1>4, <2>5, <3>1, <3>2 DEF Knows, Is, netRows
    <3>5. k.host \in Hosts
      BY <1>3 DEF CallType
    <3>6. Docked(n, m)'
      BY <1>2, <1>4, <2>4, <2>5, <3>2, <3>3, <3>5 DEF Docked, Is, netRows
    <3>7. JoinedAreMembers(n, m)' /\ MembersAreJoined(n, m)'
      BY <1>4, <3>3 DEF JoinedAreMembers, MembersAreJoined, netRows
    <3>8. Matches(n, m)'
      BY <3>4, <3>6, <3>7 DEF Matches
    <3>9. QED
      BY <3>1, <3>8
  <2>9. net'[k.n] # "unborn"
    BY <1>3, <1>4 DEF netRows
  <2>10. QED
    BY <1>1, <1>2, <1>4, <2>5, <2>6, <2>7, <2>8, <2>9, OnNetwork
<1>7. QED
  BY <1>5, <1>6

LEMMA SaveDockConnections ==
  ASSUME NetworksInv, NetworksInv', ConnectionsInv, NEW c \in Calls, SaveDock(c)
  PROVE  ConnectionsInv'
<1>1. PICK k, m : k = call[c] /\ m = call'[c]
  OBVIOUS
<1>2. k.op = "attach" /\ k.at = "save" /\ k.op \in NetCalls /\ Goto(c, "subnet")
  BY <1>1, StepFacts DEF SaveDock, At
<1>3. /\ CallsOK /\ k \in CallType /\ k.n \in Nets /\ net[k.n] # "unborn"
      /\ k.dock # NoDock => k.dock \in DockIds /\ k.dock[1] = k.n
  BY <1>1, <1>2, KnownNetwork
<1>4. /\ \A e \in Calls : e # c => call'[e] = call[e]
      /\ m.op = k.op /\ m.n = k.n /\ m.host = k.host /\ m.dock = k.dock /\ m.at = "subnet"
  BY <1>1, <1>2, <1>3, GotoRecord
<1>5. /\ UNCHANGED <<db, net, server, members, dockerNets>> /\ disturbed \subseteq disturbed'
      /\ net[k.n] = "live" => dock'[k.n] = k.dock
      /\ \A n \in Nets : n # k.n => dock'[n] = dock[n]
  BY <1>1, <1>3, HistoryGrows, InvParts DEF SaveDock, RowTypes
<1>6. JoinedExist'
  BY <1>5, ConnectionFacts DEF JoinedExist, HasContainer, dockerNets
<1>7. \A n \in Nets : n # k.n => NetworkStays(n)
  BY <1>5 DEF NetworkStays, dockerNets
<1>8. ASSUME Matches(k.n, k)
      PROVE  Matches(k.n, m)'
  <2>1. PICK n : n = k.n
    OBVIOUS
  <2>2. net[n] = "live" /\ dock[n] = NoDock /\ k.host = server[n]
    BY <1>2, <1>8, <2>1, StepFacts DEF Matches, Knows, Is
  <2>3. members[n] = {}
    BY <1>8, <2>1, <2>2 DEF Matches, MembersAreJoined
  <2>4. \A l \in joined : l[2][1] # n
    BY <1>8, <2>1, <2>2, JoinedFacts DEF Matches, JoinedAreMembers
  <2>5. \A i \in DockIds : i[1] = n =>
          (docks[i] \in Hosts <=> i = k.dock) /\ (docks[i] \in Hosts => docks[i] = server[n])
    BY <1>2, <1>8, <2>1 DEF Matches, Docked, Is
  <2>6. Knows(n, m)'
    BY <1>2, <1>4, <1>5, <2>1, <2>2 DEF Knows, Is
  <2>7. Docked(n, m)'
    <3>1. ASSUME NEW i \in DockIds, i[1] = n
          PROVE  ~HoldsDock(i)
      BY <2>4, <3>1, NobodyHolds
    <3>2. \A i \in DockIds : i[1] = n => ~HoldsDock(i)'
      BY <1>5, <3>1 DEF HoldsDock, dockerNets
    <3>3. QED
      BY <1>2, <1>4, <1>5, <2>1, <2>2, <2>5, <3>2 DEF Docked, Is, dockerNets
  <2>8. JoinedAreMembers(n, m)' /\ MembersAreJoined(n, m)'
    BY <1>5, <2>3, <2>4 DEF JoinedAreMembers, MembersAreJoined, dockerNets
  <2>9. Matches(n, m)'
    BY <2>6, <2>7, <2>8 DEF Matches
  <2>10. QED
    BY <2>1, <2>9
<1>9. net'[k.n] # "unborn"
  BY <1>3, <1>5
<1>10. QED
  BY <1>1, <1>2, <1>4, <1>5, <1>6, <1>7, <1>8, <1>9, OnNetwork

LEMMA SaveSubnetConnections ==
  ASSUME NetworksInv, NetworksInv', ConnectionsInv, NEW c \in Calls, SaveSubnet(c)
  PROVE  ConnectionsInv'
<1>1. PICK k, m : k = call[c] /\ m = call'[c]
  OBVIOUS
<1>2. k.op = "attach" /\ k.at = "subnet" /\ k.op \in NetCalls /\ Goto(c, "join")
  BY <1>1, StepFacts DEF SaveSubnet, At
<1>3. CallsOK /\ k \in CallType /\ k.n \in Nets /\ net[k.n] # "unborn"
  BY <1>1, <1>2, KnownNetwork
<1>4. /\ \A e \in Calls : e # c => call'[e] = call[e]
      /\ m.op = k.op /\ m.n = k.n /\ m.host = k.host /\ m.dock = k.dock /\ m.at = "join"
  BY <1>1, <1>2, <1>3, GotoRecord
<1>5. /\ UNCHANGED <<db, net, server, dock, members, dockerNets>>
      /\ disturbed \subseteq disturbed'
  BY HistoryGrows DEF SaveSubnet
<1>6. Plain(k) /\ Plain(m)
  BY <1>2, <1>4 DEF Plain, Is
<1>7. QED
  BY <1>1, <1>2, <1>4, <1>5, <1>6, PlainStep

LEMMA JoinConnections ==
  ASSUME NetworksInv, NetworksInv', ConnectionsInv, NEW c \in Calls, Join(c)
  PROVE  ConnectionsInv'
<1>1. PICK k, m : k = call[c] /\ m = call'[c]
  OBVIOUS
<1>2. k.op = "attach" /\ k.at = "join" /\ k.op \in NetCalls
  BY <1>1, StepFacts DEF Join, At
<1>3. /\ CallsOK /\ k \in CallType /\ CallOK(k) /\ k.n \in Nets /\ net[k.n] # "unborn"
      /\ k.dock # NoDock /\ k.dock[1] = k.n
  BY <1>1, <1>2, KnownNetwork DEF CallOK
<1>4. UNCHANGED <<db, netRows, docks>> /\ disturbed \subseteq disturbed'
  BY HistoryGrows DEF Join
<1>5. CASE ~CanJoin(k.d, k.dock, k.host)
  <2>1. Finish(c) /\ UNCHANGED joined
    BY <1>1, <1>5 DEF Join
  <2>2. m = Idle /\ \A e \in Calls : e # c => call'[e] = call[e]
    BY <1>1, <1>3, <2>1, FinishRecord
  <2>3. Plain(k) /\ Plain(m)
    BY <1>2, <2>2, PlainIdle DEF Plain, Is
  <2>4. UNCHANGED <<db, netRows, dockerNets>>
    BY <1>4, <2>1 DEF dockerNets
  <2>5. QED
    BY <1>1, <1>2, <1>4, <2>2, <2>3, <2>4, PlainStep DEF netRows
<1>6. CASE CanJoin(k.d, k.dock, k.host)
  <2>1. Goto(c, "add") /\ joined' = joined \cup {<<k.d, k.dock>>}
    BY <1>1, <1>6 DEF Join
  <2>2. /\ \A e \in Calls : e # c => call'[e] = call[e]
        /\ m.op = k.op /\ m.n = k.n /\ m.d = k.d /\ m.host = k.host /\ m.dock = k.dock
        /\ m.at = "add"
    BY <1>1, <1>3, <2>1, GotoRecord
  <2>3. HasContainer(k.d) /\ Host[k.d] = k.host /\ docks[k.dock] = k.host
    BY <1>6 DEF CanJoin
  <2>4. PICK l : l = <<k.d, k.dock>>
    OBVIOUS
  <2>5. l[1] = k.d /\ l[2] = k.dock /\ l[2][1] = k.n /\ joined' = joined \cup {l}
    BY <1>3, <2>1, <2>4
  <2>6. JoinedExist'
    BY <1>4, <2>3, <2>5, ConnectionFacts DEF JoinedExist, HasContainer
  <2>7. \A n \in Nets : n # k.n => NetworkStays(n)
    BY <1>4, <2>5 DEF NetworkStays, netRows
  <2>8. ASSUME Matches(k.n, k)
        PROVE  Matches(k.n, m)'
    <3>1. PICK n : n = k.n
      OBVIOUS
    <3>2. net[n] = "live" /\ k.dock = dock[n] /\ k.host = server[n]
      BY <1>2, <2>8, <3>1, StepFacts DEF Matches, Knows, Is
    <3>3. Knows(n, m)'
      BY <1>2, <1>3, <1>4, <2>1, <2>2, <2>3, <3>1, <3>2 DEF Knows, Is, netRows
    <3>4. Docked(n, m)'
      <4>1. \A i \in DockIds : i # dock[n] => (HoldsDock(i)' <=> HoldsDock(i))
        <5>1. ASSUME NEW i \in DockIds, i # dock[n]
              PROVE  HoldsDock(i)' <=> HoldsDock(i)
          BY <1>4, <2>5, <3>2, <5>1, SameHeld
        <5>2. QED
          BY <5>1
      <4>2. QED
        BY <1>2, <1>4, <2>2, <2>8, <3>1, <3>2, <4>1 DEF Matches, Docked, Is, netRows
    <3>5. JoinedAreMembers(n, m)'
      BY <1>2, <1>4, <2>2, <2>5, <2>8, <3>1, <3>2
      DEF Matches, JoinedAreMembers, Is, netRows
    <3>6. MembersAreJoined(n, m)'
      BY <1>2, <1>4, <2>1, <2>2, <2>8, <3>1 DEF Matches, MembersAreJoined, Is, netRows
    <3>7. Matches(n, m)'
      BY <3>3, <3>4, <3>5, <3>6 DEF Matches
    <3>8. QED
      BY <3>1, <3>7
  <2>9. net'[k.n] # "unborn"
    BY <1>3, <1>4 DEF netRows
  <2>10. QED
    BY <1>1, <1>2, <1>4, <2>2, <2>6, <2>7, <2>8, <2>9, OnNetwork
<1>7. QED
  BY <1>5, <1>6

LEMMA AddMemberConnections ==
  ASSUME NetworksInv, NetworksInv', ConnectionsInv, NEW c \in Calls, AddMember(c)
  PROVE  ConnectionsInv'
<1>1. PICK k, m : k = call[c] /\ m = call'[c]
  OBVIOUS
<1>2. k.op = "attach" /\ k.at = "add" /\ k.op \in NetCalls
  BY <1>1, StepFacts DEF AddMember, At
<1>3. CallsOK /\ k \in CallType /\ k.n \in Nets /\ net[k.n] # "unborn"
  BY <1>1, <1>2, KnownNetwork
<1>4. UNCHANGED <<db, net, server, dock, dockerNets>> /\ disturbed \subseteq disturbed'
  BY HistoryGrows DEF AddMember
<1>5. JoinedExist'
  BY <1>4, ConnectionFacts DEF JoinedExist, HasContainer, dockerNets
<1>6. \A n \in Nets : n # k.n => members'[n] = members[n]
  BY <1>1, <1>3, InvParts DEF AddMember, RowTypes
<1>7. \A n \in Nets : n # k.n => NetworkStays(n)
  BY <1>4, <1>6 DEF NetworkStays, dockerNets
<1>8. /\ \A e \in Calls : e # c => call'[e] = call[e]
      /\ \/ /\ m.op = k.op /\ m.n = k.n /\ m.d = k.d /\ m.host = k.host
            /\ m.dock = k.dock /\ m.at = "sync"
            /\ members'[k.n] = members[k.n] \cup {k.d}
         \/ /\ m = Idle /\ members' = members
            /\ net[k.n] # "live" \/ ~HasRow(k.d) \/ k.d \in members[k.n]
  BY <1>1, <1>3, GotoRecord, FinishRecord, InvParts DEF AddMember, RowTypes
<1>9. ASSUME Matches(k.n, k)
      PROVE  Matches(k.n, m)'
  <2>1. PICK n : n = k.n
    OBVIOUS
  <2>2. /\ net[n] = "live" /\ k.host = server[n] /\ k.dock = dock[n]
        /\ Host[k.d] = server[n] /\ dock[n] # NoDock
        /\ db[k.d] = "running" => <<k.d, dock[n]>> \in joined
    BY <1>2, <1>9, <2>1, StepFacts DEF Matches, Knows, Is
  <2>3. \A l \in joined : l[2][1] = n =>
          l[2] = dock[n] /\ (l[1] \in members[n] \/ k.d = l[1] \/ db[l[1]] = "orphan")
    BY <1>9, <2>1 DEF Matches, JoinedAreMembers
  <2>4. \A d \in members[n] :
          /\ Host[d] = server[n] /\ dock[n] # NoDock
          /\ db[d] = "running" => <<d, dock[n]>> \in joined
    BY <1>2, <1>9, <2>1 DEF Matches, MembersAreJoined, Is
  <2>5. CASE /\ m.op = k.op /\ m.n = k.n /\ m.d = k.d /\ m.host = k.host
             /\ m.dock = k.dock /\ m.at = "sync"
             /\ members'[k.n] = members[k.n] \cup {k.d}
    <3>1. Knows(n, m)'
      BY <1>2, <1>4, <2>1, <2>2, <2>5 DEF Knows, Is
    <3>2. Docked(n, m)'
      BY <1>2, <1>4, <1>9, <2>1, <2>5 DEF Matches, Docked, HoldsDock, Is, dockerNets
    <3>3. JoinedAreMembers(n, m)'
      BY <1>2, <1>4, <2>1, <2>3, <2>5 DEF JoinedAreMembers, Is, dockerNets
    <3>4. MembersAreJoined(n, m)'
      BY <1>4, <2>1, <2>2, <2>4, <2>5 DEF MembersAreJoined, dockerNets
    <3>5. Matches(n, m)'
      BY <3>1, <3>2, <3>3, <3>4 DEF Matches
    <3>6. QED
      BY <2>1, <3>5
  <2>6. CASE /\ m = Idle /\ members' = members
             /\ net[k.n] # "live" \/ ~HasRow(k.d) \/ k.d \in members[k.n]
    <3>1. Knows(n, m)'
      BY <2>6, IdleFacts DEF Knows
    <3>2. Docked(n, m)'
      BY <1>2, <1>4, <1>9, <2>1, <2>6, IdleFacts, StepFacts
      DEF Matches, Docked, HoldsDock, Is, dockerNets
    <3>3. ~HasRow(k.d) => \A l \in joined : l[1] = k.d => db[l[1]] = "orphan"
      BY ConnectionFacts DEF JoinedExist, HasContainer, HasRow
    <3>4. JoinedAreMembers(n, m)'
      BY <1>4, <2>1, <2>2, <2>3, <2>6, <3>3, IdleFacts, StepFacts
      DEF JoinedAreMembers, Is, dockerNets
    <3>5. MembersAreJoined(n, m)'
      BY <1>4, <2>4, <2>6 DEF MembersAreJoined, dockerNets
    <3>6. Matches(n, m)'
      BY <3>1, <3>2, <3>4, <3>5 DEF Matches
    <3>7. QED
      BY <2>1, <3>6
  <2>7. QED
    BY <1>8, <2>5, <2>6
<1>10. net'[k.n] # "unborn"
  BY <1>3, <1>4
<1>11. QED
  BY <1>1, <1>2, <1>4, <1>5, <1>7, <1>8, <1>9, <1>10, OnNetwork

(* A request goes on or ends without changing rows or Docker.              *)
LEMMA QuietStep ==
  ASSUME NetworksInv, NetworksInv', ConnectionsInv, NEW c \in Calls, NEW k, NEW m,
         k = call[c], m = call'[c], k.op \in NetCalls,
         m = Idle \/ (m.op = k.op /\ m.n = k.n),
         \A e \in Calls : e # c => call'[e] = call[e],
         UNCHANGED <<db, netRows, dockerNets>>, disturbed \subseteq disturbed',
         Matches(k.n, k) => Matches(k.n, m)
  PROVE  ConnectionsInv'
<1>1. JoinedExist' /\ \A n \in Nets : NetworkStays(n)
  BY RestKept, AllStay DEF netRows
<1>2. k.n \in Nets /\ net'[k.n] # "unborn"
  BY NetCallFacts, ConnectionFacts DEF NetCallOK, netRows
<1>3. ASSUME Matches(k.n, k)
      PROVE  Matches(k.n, m)'
  <2>1. PICK n : n = k.n
    OBVIOUS
  <2>2. Matches(n, m)'
    BY <1>1, <1>2, <1>3, <2>1, MatchesKept
  <2>3. QED
    BY <2>1, <2>2
<1>4. QED
  BY <1>1, <1>2, <1>3, OnNetwork

LEMMA SyncConnections ==
  ASSUME NetworksInv, NetworksInv', ConnectionsInv, NEW c \in Calls, SyncBridges(c)
  PROVE  ConnectionsInv'
<1>1. PICK k, m : k = call[c] /\ m = call'[c]
  OBVIOUS
<1>2. k.op = "attach" /\ k.at = "sync" /\ k.op \in NetCalls
  BY <1>1, StepFacts DEF SyncBridges, At
<1>3. m = Idle /\ \A e \in Calls : e # c => call'[e] = call[e]
  BY <1>1, InvParts, FinishRecord DEF SyncBridges
<1>4. UNCHANGED <<db, netRows, dockerNets>> /\ disturbed \subseteq disturbed'
  BY HistoryGrows DEF SyncBridges
<1>5. ASSUME Matches(k.n, k)
      PROVE  Matches(k.n, m)
  <2>1. Knows(k.n, m)
    BY <1>3, IdleFacts DEF Knows
  <2>2. Docked(k.n, m) /\ JoinedAreMembers(k.n, m) /\ MembersAreJoined(k.n, m)
    BY <1>2, <1>3, <1>5, IdleFacts, StepFacts
    DEF Matches, Docked, JoinedAreMembers, MembersAreJoined, Is
  <2>3. QED
    BY <2>1, <2>2 DEF Matches
<1>6. QED
  BY <1>1, <1>2, <1>3, <1>4, <1>5, QuietStep

-----------------------------------------------------------------------------
(* detach_database *)

LEMMA LeaveConnections ==
  ASSUME NetworksInv, NetworksInv', ConnectionsInv, NEW c \in Calls, Leave(c)
  PROVE  ConnectionsInv'
<1>1. PICK k, m : k = call[c] /\ m = call'[c]
  OBVIOUS
<1>2. k.op = "detach" /\ k.at = "found" /\ k.op \in NetCalls
  BY <1>1, StepFacts DEF Leave, At
<1>3. /\ CallsOK /\ k \in CallType /\ k.n \in Nets /\ net[k.n] # "unborn"
      /\ k.dock # NoDock => k.dock \in DockIds /\ k.dock[1] = k.n
  BY <1>1, <1>2, KnownNetwork
<1>4. UNCHANGED <<db, netRows, docks>> /\ disturbed \subseteq disturbed'
  BY HistoryGrows DEF Leave
<1>5. /\ \A e \in Calls : e # c => call'[e] = call[e]
      /\ m.op = k.op /\ m.n = k.n /\ m.d = k.d /\ m.host = k.host /\ m.dock = k.dock
      /\ m.at \in {"unbridge", "remove"}
  BY <1>1, <1>3, GotoRecord DEF Leave
<1>6. /\ joined' = joined \/ (joined' = joined \ Leaving({k.d}, k.dock, k.host) /\ k.dock # NoDock)
      /\ k.n \notin disturbed' =>
           \/ joined' = joined /\ (k.dock = NoDock \/ ~HasRow(k.d))
           \/ joined' = joined \ Leaving({k.d}, k.dock, k.host)
  BY <1>1, HistoryGrows DEF Leave
<1>7. joined' \subseteq joined /\ \A l \in joined : l \notin joined' => l = <<k.d, k.dock>> /\ k.dock # NoDock
  BY <1>6 DEF Leaving
<1>8. JoinedExist'
  BY <1>4, <1>7, ConnectionFacts DEF JoinedExist, HasContainer
<1>9. \A n \in Nets : n # k.n => NetworkStays(n)
  <2>1. \A l \in joined : l \notin joined' => l[2][1] = k.n /\ l[1] = k.d
    BY <1>3, <1>7
  <2>2. QED
    BY <1>4, <1>7, <2>1 DEF NetworkStays, netRows
<1>10. ASSUME k.n \notin disturbed', Matches(k.n, k)
       PROVE  Matches(k.n, m)'
  <2>1. PICK n : n = k.n
    OBVIOUS
  <2>2. net[n] = "live" /\ k.host = server[n] /\ k.dock = dock[n]
    BY <1>2, <1>10, <2>1, StepFacts DEF Matches, Knows, Is
  <2>3. <<k.d, dock[n]>> \notin joined' \/ db[k.d] = "orphan"
    <3>1. SUFFICES ASSUME <<k.d, dock[n]>> \in joined, db[k.d] # "orphan"
                   PROVE  /\ <<k.d, dock[n]>> \in Leaving({k.d}, k.dock, k.host)
                          /\ HasRow(k.d) /\ k.dock # NoDock
      BY <1>6, <1>7, <1>10, <2>2
    <3>2. PICK l \in joined : l = <<k.d, dock[n]>>
      BY <3>1
    <3>3. l[1] = k.d /\ l[2] = dock[n]
      BY <3>2
    <3>4. HasContainer(k.d) /\ docks[dock[n]] = Host[k.d] /\ dock[n] # NoDock /\ Host[k.d] \in Hosts
      BY <3>3, ConnectionFacts, JoinedFacts DEF JoinedExist
    <3>5. docks[dock[n]] = server[n]
      BY <1>3, <1>10, <2>1, <2>2, <3>4 DEF Matches, Docked
    <3>6. QED
      BY <2>2, <3>1, <3>4, <3>5 DEF Leaving, HasContainer, HasRow
  <2>4. Knows(n, m)'
    BY <1>2, <1>4, <1>5, <2>1, <2>2, <2>3 DEF Knows, Is, netRows
  <2>5. Docked(n, m)'
    <3>1. \A i \in DockIds : HoldsDock(i)' => HoldsDock(i)
      BY <1>4, <1>7 DEF HoldsDock
    <3>2. \A i \in DockIds : HoldsDock(i) /\ i[1] = n => i = dock[n]
      BY <1>10, <2>1, NamedHeld DEF Matches
    <3>3. QED
      BY <1>2, <1>4, <1>5, <1>10, <2>1, <2>2, <3>1, <3>2 DEF Matches, Docked, Is, netRows
  <2>6. JoinedAreMembers(n, m)'
    BY <1>2, <1>4, <1>5, <1>7, <1>10, <2>1 DEF Matches, JoinedAreMembers, Is, netRows
  <2>7. MembersAreJoined(n, m)'
    <3>1. \A d : d # k.d => (<<d, dock[n]>> \in joined => <<d, dock[n]>> \in joined')
      BY <1>7
    <3>2. QED
      BY <1>2, <1>4, <1>5, <1>10, <2>1, <3>1 DEF Matches, MembersAreJoined, Is, netRows
  <2>8. Matches(n, m)'
    BY <2>4, <2>5, <2>6, <2>7 DEF Matches
  <2>9. QED
    BY <2>1, <2>8
<1>11. net'[k.n] # "unborn"
  BY <1>3, <1>4 DEF netRows
<1>12. QED
  BY <1>1, <1>2, <1>4, <1>5, <1>8, <1>9, <1>10, <1>11, OnNetwork

LEMMA UnbridgeConnections ==
  ASSUME NetworksInv, NetworksInv', ConnectionsInv, NEW c \in Calls, Unbridge(c)
  PROVE  ConnectionsInv'
<1>1. PICK k, m : k = call[c] /\ m = call'[c]
  OBVIOUS
<1>2. k.op = "detach" /\ k.at = "unbridge" /\ k.op \in NetCalls
  BY <1>1, StepFacts DEF Unbridge, At
<1>3. /\ \A e \in Calls : e # c => call'[e] = call[e]
      /\ m.op = k.op /\ m.n = k.n /\ m.d = k.d /\ m.host = k.host /\ m.dock = k.dock
      /\ m.at = "remove"
  BY <1>1, InvParts, GotoRecord DEF Unbridge
<1>4. UNCHANGED <<db, netRows, dockerNets>> /\ disturbed \subseteq disturbed'
  BY HistoryGrows DEF Unbridge
<1>5. ASSUME Matches(k.n, k)
      PROVE  Matches(k.n, m)
  <2>1. Knows(k.n, m) /\ Docked(k.n, m)
    BY <1>2, <1>3, <1>5 DEF Matches, Knows, Docked, Is
  <2>2. JoinedAreMembers(k.n, m) /\ MembersAreJoined(k.n, m)
    BY <1>2, <1>3, <1>5 DEF Matches, JoinedAreMembers, MembersAreJoined, Is
  <2>3. QED
    BY <2>1, <2>2 DEF Matches
<1>6. QED
  BY <1>1, <1>2, <1>3, <1>4, <1>5, QuietStep

LEMMA RemoveMemberConnections ==
  ASSUME NetworksInv, NetworksInv', ConnectionsInv, NEW c \in Calls, RemoveMember(c)
  PROVE  ConnectionsInv'
<1>1. PICK k, m : k = call[c] /\ m = call'[c]
  OBVIOUS
<1>2. k.op = "detach" /\ k.at = "remove" /\ k.op \in NetCalls
  BY <1>1, StepFacts DEF RemoveMember, At
<1>3. CallsOK /\ k.n \in Nets /\ net[k.n] # "unborn"
  BY <1>1, <1>2, KnownNetwork
<1>4. m = Idle /\ \A e \in Calls : e # c => call'[e] = call[e]
  BY <1>1, <1>3, FinishRecord DEF RemoveMember
<1>5. /\ UNCHANGED <<db, net, server, dock, dockerNets>> /\ disturbed \subseteq disturbed'
      /\ members'[k.n] = members[k.n] \ {k.d}
      /\ \A n \in Nets : n # k.n => members'[n] = members[n]
  BY <1>1, <1>3, HistoryGrows, InvParts DEF RemoveMember, RowTypes
<1>6. JoinedExist'
  BY <1>5, ConnectionFacts DEF JoinedExist, HasContainer, dockerNets
<1>7. \A n \in Nets : n # k.n => NetworkStays(n)
  BY <1>5 DEF NetworkStays, dockerNets
<1>8. ASSUME Matches(k.n, k)
      PROVE  Matches(k.n, m)'
  <2>1. PICK n : n = k.n
    OBVIOUS
  <2>2. <<k.d, dock[n]>> \notin joined \/ db[k.d] = "orphan"
    BY <1>2, <1>8, <2>1, StepFacts DEF Matches, Knows, Is
  <2>3. ASSUME NEW l \in joined, l[2][1] = n
        PROVE  l[2] = dock[n] /\ (l[1] \in members[n] \ {k.d} \/ db[l[1]] = "orphan")
    <3>1. l[2] = dock[n] /\ (l[1] \in members[n] \/ db[l[1]] = "orphan")
      BY <1>2, <1>8, <2>1, <2>3 DEF Matches, JoinedAreMembers, Is
    <3>2. l = <<l[1], l[2]>>
      BY JoinedFacts
    <3>3. QED
      BY <2>2, <3>1, <3>2
  <2>4. Knows(n, m)'
    BY <1>4, IdleFacts DEF Knows
  <2>5. Docked(n, m)'
    BY <1>2, <1>4, <1>5, <1>8, <2>1, IdleFacts, StepFacts
    DEF Matches, Docked, HoldsDock, Is, dockerNets
  <2>6. JoinedAreMembers(n, m)'
    BY <1>4, <1>5, <2>1, <2>3, IdleFacts, StepFacts DEF JoinedAreMembers, Is, dockerNets
  <2>7. MembersAreJoined(n, m)'
    BY <1>2, <1>5, <1>8, <2>1 DEF Matches, MembersAreJoined, Is, dockerNets
  <2>8. Matches(n, m)'
    BY <2>4, <2>5, <2>6, <2>7 DEF Matches
  <2>9. QED
    BY <2>1, <2>8
<1>9. net'[k.n] # "unborn"
  BY <1>3, <1>5
<1>10. m = Idle \/ (m.op = k.op /\ m.n = k.n)
  BY <1>4
<1>11. (k.n \notin disturbed' /\ Matches(k.n, k)) => Matches(k.n, m)'
  BY <1>8
<1>12. db' = db /\ disturbed \subseteq disturbed' /\ \A e \in Calls : e # c => call'[e] = call[e]
  BY <1>4, <1>5
<1>13. QED
  BY <1>1, <1>2, <1>6, <1>7, <1>9, <1>10, <1>11, <1>12, OnNetwork

-----------------------------------------------------------------------------
(* delete_network, and delete_peering that has no part in networks *)

(* The list of a deletion gets shorter, or is read.                        *)
LEMMA ListRecord ==
  ASSUME CallsOK, NEW c \in Calls, NEW s, NEW l,
         \/ call' = [call EXCEPT ![c].list = l] /\ s = call[c].at
         \/ call' = [call EXCEPT ![c].at = s, ![c].list = l]
  PROVE  /\ \A e \in Calls : e # c => call'[e] = call[e]
         /\ call'[c].op = call[c].op /\ call'[c].at = s /\ call'[c].n = call[c].n
         /\ call'[c].d = call[c].d /\ call'[c].host = call[c].host
         /\ call'[c].dock = call[c].dock /\ call'[c].p = call[c].p
         /\ call'[c].list = l
BY DEF CallsOK, CallType

(* Deletions of networks work on peerings until they reach the Docker      *)
(* network; those of peerings never do.                                    *)
LEMMA PeeringsConnections ==
  ASSUME NetworksInv, NetworksInv', ConnectionsInv, NEW c \in Calls,
         call[c].op \in {"unpeer", "drop"}, call[c].at \in {"found", "peerings"},
         \A e \in Calls : e # c => call'[e] = call[e],
         UNCHANGED <<db, netRows, dockerNets>>, disturbed \subseteq disturbed',
         \/ call[c].op = "unpeer" /\ call'[c].op \in {None, "unpeer"}
         \/ /\ call'[c].op = call[c].op /\ call'[c].n = call[c].n
            /\ call'[c].host = call[c].host /\ call'[c].dock = call[c].dock
            /\ call'[c].at # "row"
  PROVE  ConnectionsInv'
<1>1. PICK k, m : k = call[c] /\ m = call'[c]
  OBVIOUS
<1>2. CASE k.op = "unpeer"
  <2>1. Aside(k) /\ Aside(m)
    BY <1>1, <1>2, StepFacts DEF Aside
  <2>2. QED
    BY <1>1, <2>1, ElsewhereMoves
<1>3. CASE k.op = "drop"
  <2>1. /\ k.op \in NetCalls /\ m.op = k.op /\ m.n = k.n /\ m.host = k.host
        /\ m.dock = k.dock /\ m.at # "row" /\ k.at # "row"
    BY <1>1, <1>3, StepFacts
  <2>2. Plain(k) /\ Plain(m)
    BY <1>3, <2>1 DEF Plain, Is
  <2>3. QED
    BY <1>1, <2>1, <2>2, PlainStep DEF netRows
<1>4. QED
  BY <1>1, <1>2, <1>3

LEMMA ListPeeringsConnections ==
  ASSUME NetworksInv, NetworksInv', ConnectionsInv, NEW c \in Calls, ListPeerings(c)
  PROVE  ConnectionsInv'
<1>1. PICK l : l = {<<p, bridge[p]>> : p \in PeeringsOf(call[c].n)}
  OBVIOUS
<1>2. /\ call[c].op = "drop" /\ call[c].at = "found"
      /\ call' = [call EXCEPT ![c].at = "peerings", ![c].list = l]
      /\ UNCHANGED <<db, netRows, dockerNets>> /\ disturbed \subseteq disturbed'
  BY <1>1, HistoryGrows DEF ListPeerings, At
<1>3. /\ \A e \in Calls : e # c => call'[e] = call[e]
      /\ call'[c].op = call[c].op /\ call'[c].at = "peerings" /\ call'[c].n = call[c].n
      /\ call'[c].host = call[c].host /\ call'[c].dock = call[c].dock
  BY <1>2, InvParts, ListRecord
<1>4. QED
  BY <1>2, <1>3, PeeringsConnections

LEMMA WorkOnListConnections ==
  ASSUME NetworksInv, NetworksInv', FirewallInv, ConnectionsInv, NEW c \in Calls,
         NEW p \in Peerings, TakeDownBridge(c, p) \/ DeletePeering(c, p)
  PROVE  ConnectionsInv'
<1>1. PICK l : call' = [call EXCEPT ![c].list = l]
  BY CallFacts DEF TakeDownBridge, DeletePeering
<1>2. /\ call[c].at = "peerings"
      /\ UNCHANGED <<db, netRows, dockerNets>> /\ disturbed \subseteq disturbed'
  BY HistoryGrows DEF TakeDownBridge, DeletePeering
<1>3. call[c].op \in {"unpeer", "drop"}
  BY <1>2, FirewallFacts DEF PeerCallOK
<1>4. /\ \A e \in Calls : e # c => call'[e] = call[e]
      /\ call'[c].op = call[c].op /\ call'[c].at = "peerings" /\ call'[c].n = call[c].n
      /\ call'[c].host = call[c].host /\ call'[c].dock = call[c].dock
  BY <1>1, <1>2, InvParts, ListRecord
<1>5. QED
  BY <1>2, <1>3, <1>4, PeeringsConnections

LEMMA PeeringsDeletedConnections ==
  ASSUME NetworksInv, NetworksInv', ConnectionsInv, NEW c \in Calls, PeeringsDeleted(c)
  PROVE  ConnectionsInv'
<1>1. /\ call[c].at = "peerings"
      /\ UNCHANGED <<db, netRows, dockerNets>> /\ disturbed \subseteq disturbed'
      /\ \/ call[c].op = "unpeer" /\ Finish(c)
         \/ call[c].op = "drop" /\ Goto(c, "undock")
  BY HistoryGrows DEF PeeringsDeleted
<1>2. /\ \A e \in Calls : e # c => call'[e] = call[e]
      /\ \/ call[c].op = "unpeer" /\ call'[c].op \in {None, "unpeer"}
         \/ /\ call'[c].op = call[c].op /\ call'[c].n = call[c].n
            /\ call'[c].host = call[c].host /\ call'[c].dock = call[c].dock
            /\ call'[c].at # "row"
  <2>1. CASE call[c].op = "unpeer" /\ Finish(c)
    BY <2>1, InvParts, FinishRecord, IdleFacts
  <2>2. CASE call[c].op = "drop" /\ Goto(c, "undock")
    BY <2>2, InvParts, GotoRecord
  <2>3. QED
    BY <1>1, <2>1, <2>2
<1>3. QED
  BY <1>1, <1>2, PeeringsConnections

LEMMA TakeDownNetworkConnections ==
  ASSUME NetworksInv, NetworksInv', ConnectionsInv, NEW c \in Calls, TakeDownNetwork(c)
  PROVE  ConnectionsInv'
<1>1. PICK k, m : k = call[c] /\ m = call'[c]
  OBVIOUS
<1>2. k.op = "drop" /\ k.at = "undock" /\ k.op \in NetCalls
  BY <1>1, StepFacts DEF TakeDownNetwork, At
<1>3. /\ CallsOK /\ k \in CallType /\ k.n \in Nets /\ net[k.n] # "unborn"
      /\ k.dock # NoDock => k.dock \in DockIds /\ k.dock[1] = k.n
  BY <1>1, <1>2, KnownNetwork
<1>4. /\ \A e \in Calls : e # c => call'[e] = call[e]
      /\ m.op = k.op /\ m.n = k.n /\ m.d = k.d /\ m.host = k.host /\ m.dock = k.dock
      /\ m.at = "row"
  BY <1>1, <1>3, GotoRecord DEF TakeDownNetwork
<1>5. UNCHANGED <<db, netRows>> /\ disturbed \subseteq disturbed'
  BY HistoryGrows DEF TakeDownNetwork
<1>6. \/ k.dock = NoDock /\ UNCHANGED dockerNets
      \/ k.n \in disturbed' /\ UNCHANGED dockerNets
      \/ /\ k.dock # NoDock
         /\ joined' = joined \ Leaving(members[k.n], k.dock, k.host)
         /\ docks' = IF docks[k.dock] # k.host \/ \E d \in Dbs : <<d, k.dock>> \in joined'
                     THEN docks ELSE [docks EXCEPT ![k.dock] = "removed"]
  BY <1>1, HistoryGrows DEF TakeDownNetwork
<1>7. /\ joined' \subseteq joined
      /\ \A l \in joined : l \notin joined' => l[2] = k.dock /\ k.dock # NoDock
  BY <1>6 DEF Leaving, dockerNets
<1>8. \A i \in DockIds : docks'[i] # docks[i] => i = k.dock /\ k.dock # NoDock
  BY <1>6, InvParts DEF DockerTypes, dockerNets
<1>9. JoinedExist'
  <2>1. ASSUME NEW l \in joined'
        PROVE  docks'[l[2]] = docks[l[2]]
    <3>1. l \in joined /\ l = <<l[1], l[2]>> /\ l[1] \in Dbs /\ l[2] \in DockIds
      BY <1>7, JoinedFacts
    <3>2. CASE l[2] = k.dock
      <4>1. <<l[1], k.dock>> \in joined' /\ l[1] \in Dbs
        BY <3>1, <3>2
      <4>2. docks' = docks
        BY <1>6, <4>1 DEF dockerNets
      <4>3. QED
        BY <4>2
    <3>3. CASE l[2] # k.dock
      BY <1>8, <3>1, <3>3
    <3>4. QED
      BY <3>2, <3>3
  <2>2. QED
    BY <1>5, <1>7, <2>1, ConnectionFacts DEF JoinedExist, HasContainer
<1>10. \A n \in Nets : n # k.n => NetworkStays(n)
  <2>1. \A l \in joined : l \notin joined' => l[2][1] = k.n
    BY <1>3, <1>7
  <2>2. \A i \in DockIds : docks'[i] # docks[i] => i[1] = k.n
    BY <1>3, <1>8
  <2>3. QED
    BY <1>5, <1>7, <2>1, <2>2 DEF NetworkStays, netRows
<1>11. ASSUME k.n \notin disturbed', Matches(k.n, k)
       PROVE  Matches(k.n, m)'
  <2>1. PICK n : n = k.n
    OBVIOUS
  <2>2. net[n] = "live" /\ k.host = server[n] /\ k.dock = dock[n]
    BY <1>2, <1>11, <2>1, StepFacts DEF Matches, Knows, Is
  <2>3. \A i \in DockIds : i[1] = n =>
          (docks[i] \in Hosts <=> dock[n] = i) /\ (docks[i] \in Hosts => docks[i] = server[n])
    <3>1. \A i \in DockIds : HoldsDock(i) /\ i[1] = n => i = dock[n]
      BY <1>11, <2>1, NamedHeld DEF Matches
    <3>2. QED
      BY <1>2, <1>11, <2>1, <2>2, <3>1 DEF Matches, Docked, Is
  <2>4. \A l \in joined : l[2][1] = n =>
          l[2] = dock[n] /\ (l[1] \in members[n] \/ db[l[1]] = "orphan")
    BY <1>2, <1>11, <2>1 DEF Matches, JoinedAreMembers, Is
  <2>5. k.dock # NoDock =>
          /\ k.dock \in DockIds /\ k.dock[1] = n /\ docks[k.dock] = k.host
          /\ joined' = joined \ Leaving(members[n], k.dock, k.host)
          /\ docks' = IF docks[k.dock] # k.host \/ \E d \in Dbs : <<d, k.dock>> \in joined'
                      THEN docks ELSE [docks EXCEPT ![k.dock] = "removed"]
    BY <1>3, <1>6, <1>11, <2>1, <2>2, <2>3
  <2>6. ASSUME NEW l \in joined', l[2][1] = n
        PROVE  l[2] = dock[n] /\ db[l[1]] = "orphan"
    <3>1. l \in joined /\ l[2] = k.dock /\ k.dock # NoDock /\ l = <<l[1], l[2]>>
      BY <1>7, <2>2, <2>4, <2>6, JoinedFacts
    <3>2. HasContainer(l[1]) /\ Host[l[1]] = k.host
      BY <2>5, <3>1, ConnectionFacts DEF JoinedExist
    <3>3. ASSUME l[1] \in members[n], db[l[1]] # "orphan"
          PROVE  FALSE
      <4>1. HasRow(l[1])
        BY <3>2, <3>3 DEF HasRow, HasContainer
      <4>2. <<l[1], k.dock>> \in Leaving(members[n], k.dock, k.host)
        BY <2>5, <3>1, <3>2, <3>3, <4>1 DEF Leaving
      <4>3. QED
        BY <2>5, <2>6, <3>1, <4>2
    <3>4. QED
      BY <2>2, <2>4, <2>6, <3>1, <3>3
  <2>7. ASSUME NEW i \in DockIds, i[1] = n
        PROVE  /\ docks'[i] \in Hosts <=> HoldsDock(i)'
               /\ docks'[i] \in Hosts => docks'[i] = server[n]
    <3>1. ASSUME HoldsDock(i)'
          PROVE  docks'[i] \in Hosts
      <4>1. PICK d \in Dbs : <<d, i>> \in joined'
        BY <3>1 DEF HoldsDock
      <4>2. PICK l \in joined' : l = <<d, i>>
        BY <4>1
      <4>3. l[1] = d /\ l[2] = i /\ Host[d] \in Hosts
        BY <4>2, NetworksAssumption DEF Hosts
      <4>4. QED
        BY <1>9, <4>3 DEF JoinedExist
    <3>2. ASSUME docks'[i] \in Hosts
          PROVE  HoldsDock(i)' /\ docks'[i] = server[n]
      <4>1. docks'[i] = docks[i]
        BY <1>6, <3>2, NotHosts, InvParts DEF DockerTypes, dockerNets
      <4>2. i = k.dock /\ k.dock # NoDock /\ docks[i] = server[n]
        BY <2>2, <2>3, <2>7, <3>2, <4>1, DockFacts
      <4>3. PICK d \in Dbs : <<d, i>> \in joined'
        BY <2>5, <3>2, <4>2, NotHosts, InvParts DEF DockerTypes
      <4>4. PICK l \in joined' : l = <<d, i>>
        BY <4>3
      <4>5. l[1] = d /\ l[2] = i
        BY <4>4
      <4>6. db[d] = "orphan"
        BY <2>6, <2>7, <4>5
      <4>7. QED
        BY <1>5, <4>1, <4>2, <4>3, <4>6 DEF HoldsDock
    <3>3. QED
      BY <3>1, <3>2
  <2>8. Knows(n, m)'
    BY <1>2, <1>4, <1>5, <2>1, <2>2 DEF Knows, Is, netRows
  <2>9. Docked(n, m)'
    BY <1>2, <1>4, <1>5, <2>7 DEF Docked, Is, netRows
  <2>10. JoinedAreMembers(n, m)'
    BY <1>5, <2>6 DEF JoinedAreMembers, netRows
  <2>11. MembersAreJoined(n, m)'
    BY <1>2, <1>4, <1>5, <1>11, <2>1 DEF Matches, MembersAreJoined, Is, netRows
  <2>12. Matches(n, m)'
    BY <2>8, <2>9, <2>10, <2>11 DEF Matches
  <2>13. QED
    BY <2>1, <2>12
<1>12. net'[k.n] # "unborn"
  BY <1>3, <1>5 DEF netRows
<1>13. QED
  BY <1>1, <1>2, <1>4, <1>5, <1>9, <1>10, <1>11, <1>12, OnNetwork

LEMMA DeleteNetworkConnections ==
  ASSUME NetworksInv, NetworksInv', ConnectionsInv, NEW c \in Calls, DeleteNetwork(c)
  PROVE  ConnectionsInv'
<1>1. PICK k, m : k = call[c] /\ m = call'[c]
  OBVIOUS
<1>2. k.op = "drop" /\ k.at = "row" /\ k.op \in NetCalls
  BY <1>1, StepFacts DEF DeleteNetwork, At
<1>3. CallsOK /\ k.n \in Nets /\ net[k.n] # "unborn"
  BY <1>1, <1>2, KnownNetwork
<1>4. m = Idle /\ \A e \in Calls : e # c => call'[e] = call[e]
  BY <1>1, <1>3, FinishRecord DEF DeleteNetwork
<1>5. /\ UNCHANGED <<db, server, dock, dockerNets>> /\ disturbed \subseteq disturbed'
      /\ net'[k.n] = "gone" /\ members'[k.n] = {}
      /\ \A n \in Nets : n # k.n => net'[n] = net[n] /\ members'[n] = members[n]
  BY <1>1, <1>3, HistoryGrows, InvParts DEF DeleteNetwork, RowTypes
<1>6. JoinedExist'
  BY <1>5, ConnectionFacts DEF JoinedExist, HasContainer, dockerNets
<1>7. \A n \in Nets : n # k.n => NetworkStays(n)
  BY <1>5 DEF NetworkStays, dockerNets
<1>8. ASSUME Matches(k.n, k)
      PROVE  Matches(k.n, m)'
  <2>1. PICK n : n = k.n
    OBVIOUS
  <2>2. \A i \in DockIds : i[1] = n =>
          (docks[i] \in Hosts <=> HoldsDock(i)) /\ (docks[i] \in Hosts => docks[i] = server[n])
    BY <1>2, <1>8, <2>1 DEF Matches, Docked, Is
  <2>3. \A l \in joined : l[2][1] = n => l[2] = dock[n] /\ db[l[1]] = "orphan"
    BY <1>2, <1>8, <2>1 DEF Matches, JoinedAreMembers, Is
  <2>4. Knows(n, m)'
    BY <1>4, IdleFacts DEF Knows
  <2>5. Docked(n, m)'
    BY <1>4, <1>5, <2>1, <2>2, IdleFacts, StepFacts DEF Docked, HoldsDock, Is, dockerNets
  <2>6. JoinedAreMembers(n, m)' /\ MembersAreJoined(n, m)'
    BY <1>5, <2>1, <2>3 DEF JoinedAreMembers, MembersAreJoined, dockerNets
  <2>7. Matches(n, m)'
    BY <2>4, <2>5, <2>6 DEF Matches
  <2>8. QED
    BY <2>1, <2>7
<1>9. net'[k.n] # "unborn" /\ db' = db /\ disturbed \subseteq disturbed'
  BY <1>5
<1>10. m = Idle \/ (m.op = k.op /\ m.n = k.n)
  BY <1>4
<1>11. \A e \in Calls : e # c => call'[e] = call[e]
  BY <1>4
<1>12. k.n \notin disturbed' /\ Matches(k.n, k) => Matches(k.n, m)'
  BY <1>8
<1>13. QED
  BY <1>1, <1>2, <1>6, <1>7, <1>9, <1>10, <1>11, <1>12, OnNetwork

-----------------------------------------------------------------------------
(* delete_database: a container that runs keeps its connections, a row     *)
(* goes after its container, unless that could not be removed.             *)
LEMMA DatabaseStep ==
  ASSUME NetworksInv, ConnectionsInv,
         UNCHANGED <<net, server, dock, docks, call, disturbed>>,
         joined' \subseteq joined,
         \A l \in joined : db'[l[1]] \in {"running", "orphan"} => l \in joined',
         \A l \in joined' : HasContainer(l[1])',
         \A e \in Dbs : /\ db'[e] = "running" => db[e] = "running"
                        /\ HasRow(e)' => HasRow(e)
                        /\ db[e] = "orphan" => db'[e] = "orphan",
         \A n \in Nets : /\ members'[n] \subseteq members[n]
                         /\ \A e \in members[n] : HasRow(e)' => e \in members'[n]
  PROVE  ConnectionsInv'
<1>1. JoinedExist'
  BY ConnectionFacts DEF JoinedExist
<1>2. \A n \in Nets : NothingYet(n)'
  BY ConnectionFacts DEF NothingYet
<1>3. (\A c \in Calls : NetCallOK(c)') /\ OneCreate'
  BY ConnectionFacts DEF NetCallOK, OneCreate
<1>4. ASSUME NEW i
      PROVE  /\ HoldsDock(i) => HoldsDock(i)'
             /\ HoldsDock(i)' => docks'[i] \in Hosts /\ \E l \in joined : l[2] = i
  <2>1. ASSUME HoldsDock(i)
        PROVE  HoldsDock(i)'
    <3>1. PICK d \in Dbs : db[d] = "orphan" /\ <<d, i>> \in joined
      BY <2>1 DEF HoldsDock
    <3>2. PICK l \in joined : l = <<d, i>>
      BY <3>1
    <3>3. l[1] = d /\ db'[d] = "orphan"
      BY <3>1, <3>2
    <3>4. QED
      BY <3>2, <3>3 DEF HoldsDock
  <2>2. ASSUME HoldsDock(i)'
        PROVE  docks'[i] \in Hosts /\ \E l \in joined : l[2] = i
    <3>1. PICK d \in Dbs : <<d, i>> \in joined'
      BY <2>2 DEF HoldsDock
    <3>2. PICK l \in joined' : l = <<d, i>>
      BY <3>1
    <3>3. l[1] = d /\ l[2] = i /\ l \in joined
      BY <3>2
    <3>4. QED
      BY <3>3, JoinedFacts, ConnectionFacts DEF JoinedExist
  <2>3. QED
    BY <2>1, <2>2
<1>5. ASSUME NEW n \in Nets, NEW k, Matches(n, k), k.op \in {"attach", "detach"} => k.d \in Dbs
      PROVE  Matches(n, k)'
  <2>1. members[n] \subseteq Dbs
    BY InvParts DEF RowTypes
  <2>2. ASSUME NEW d, db'[d] = "running", <<d, dock[n]>> \in joined
        PROVE  <<d, dock[n]>> \in joined'
    <3>1. PICK l \in joined : l = <<d, dock[n]>>
      BY <2>2
    <3>2. l[1] = d
      BY <3>1
    <3>3. QED
      BY <2>2, <3>1, <3>2
  <2>3. Knows(n, k)'
    <3>1. Is(k, "attach", {"add"}) => (db'[k.d] = "running" => <<k.d, dock[n]>> \in joined')
      BY <1>5, <2>2, StepFacts DEF Matches, Knows, Is
    <3>2. Is(k, "attach", {"sync"}) => k.d \in members'[n] \/ ~HasRow(k.d)'
      BY <1>5, StepFacts DEF Matches, Knows, Is
    <3>3. Is(k, "detach", {"unbridge", "remove"}) =>
            <<k.d, dock[n]>> \notin joined' \/ db'[k.d] = "orphan"
      BY <1>5, StepFacts DEF Matches, Knows, Is
    <3>4. QED
      BY <1>5, <3>1, <3>2, <3>3 DEF Matches, Knows, Is
  <2>4. Docked(n, k)'
    BY <1>4, <1>5 DEF Matches, Docked, Is
  <2>5. JoinedAreMembers(n, k)'
    <3>1. ASSUME NEW l \in joined'
          PROVE  /\ l \in joined /\ l[1] \in Dbs
                 /\ l[1] \in members[n] => l[1] \in members'[n] \/ db'[l[1]] = "orphan"
      BY <3>1, JoinedFacts DEF HasRow, HasContainer
    <3>2. QED
      BY <1>5, <3>1 DEF Matches, JoinedAreMembers, Is
  <2>6. MembersAreJoined(n, k)'
    BY <1>5, <2>1, <2>2 DEF Matches, MembersAreJoined, Is
  <2>7. QED
    BY <2>3, <2>4, <2>5, <2>6 DEF Matches
<1>6. ASSUME NEW n \in Nets, n \notin disturbed'
      PROVE  NetworkOK(n)'
  <2>1. NetworkOK(n)
    BY <1>6, ConnectionFacts
  <2>2. \A c \in Calls : NetCall(c, n)' <=> NetCall(c, n)
    BY DEF NetCall
  <2>3. ASSUME NEW c \in Calls, NetCall(c, n)'
        PROVE  Matches(n, call[c])'
    <3>1. PICK k : k = call[c]
      OBVIOUS
    <3>2. Matches(n, k)
      BY <2>1, <2>2, <2>3, <3>1 DEF NetworkOK
    <3>3. k.op \in {"attach", "detach"} => k.d \in Dbs
      BY <3>1, CallFacts DEF CallOK
    <3>4. Matches(n, k)'
      BY <1>5, <3>2, <3>3
    <3>5. k = call'[c]
      BY <3>1
    <3>6. QED
      BY <3>4, <3>5
  <2>4. (\A c \in Calls : ~NetCall(c, n)) => Matches(n, Idle)'
    BY <1>5, <2>1, IdleFacts, StepFacts DEF NetworkOK
  <2>5. QED
    BY <2>1, <2>2, <2>3, <2>4 DEF NetworkOK
<1>7. QED
  BY <1>1, <1>2, <1>3, <1>6 DEF ConnectionsInv

(* It disturbs nothing, though its steps may fail.                         *)
LEMMA DatabaseHistory ==
  ASSUME NEW d, DeleteDatabase(d)
  PROVE  disturbed' = disturbed
BY DEF DeleteDatabase, MarkDeleting, LeaveNetworks, RemoveContainer, DeleteDatabaseRow,
       NoFault, FaultOn

LEMMA DatabaseConnections ==
  ASSUME NetworksInv, ConnectionsInv, NEW d \in Dbs, DeleteDatabase(d)
  PROVE  ConnectionsInv'
<1> USE DEF dockerNets, netRows, HasContainer, HasRow
<1>1. db \in [Dbs -> {"running", "deleting", "detached", "removed", "stuck", "gone", "orphan"}]
  BY InvParts DEF RowTypes
<1>2. UNCHANGED <<net, server, dock, docks, call, disturbed>>
  BY DatabaseHistory
  DEF DeleteDatabase, MarkDeleting, LeaveNetworks, RemoveContainer, DeleteDatabaseRow
<1>3. \A l \in joined : HasContainer(l[1]) /\ l[1] \in Dbs
  BY ConnectionFacts, JoinedFacts DEF JoinedExist
<1>4. CASE MarkDeleting(d)
  <2>1. /\ db[d] = "running" /\ db' = [db EXCEPT ![d] = "deleting"]
        /\ UNCHANGED <<members, joined>>
    BY <1>4 DEF MarkDeleting
  <2>2. QED
    BY <1>1, <1>2, <1>3, <2>1, DatabaseStep
<1>5. CASE LeaveNetworks(d)
  <2>1. /\ db[d] = "deleting" /\ db' = [db EXCEPT ![d] = "detached"]
        /\ UNCHANGED members
    BY <1>5 DEF LeaveNetworks
  <2>2. joined' \subseteq joined /\ \A l \in joined : l[1] # d => l \in joined'
    BY <1>5 DEF LeaveNetworks, Leaving
  <2>3. QED
    BY <1>1, <1>2, <1>3, <2>1, <2>2, DatabaseStep
<1>6. CASE RemoveContainer(d)
  <2>1. /\ db[d] = "detached" /\ UNCHANGED members
        /\ \/ /\ db' = [db EXCEPT ![d] = "removed"]
              /\ joined' = {l \in joined : l[1] # d}
           \/ db' = [db EXCEPT ![d] = "stuck"] /\ joined' = joined
    BY <1>6 DEF RemoveContainer
  <2>2. QED
    BY <1>1, <1>2, <1>3, <2>1, DatabaseStep
<1>7. CASE DeleteDatabaseRow(d)
  <2>1. /\ \/ db[d] = "removed" /\ db' = [db EXCEPT ![d] = "gone"]
           \/ db[d] = "stuck" /\ db' = [db EXCEPT ![d] = "orphan"]
        /\ UNCHANGED joined /\ \A n \in Nets : members'[n] = members[n] \ {d}
    BY <1>7 DEF DeleteDatabaseRow
  <2>2. QED
    BY <1>1, <1>2, <1>3, <2>1, DatabaseStep
<1>8. QED
  BY <1>4, <1>5, <1>6, <1>7 DEF DeleteDatabase

-----------------------------------------------------------------------------
(* Peerings, their tasks and rules; crashes *)

LEMMA AsideRecord ==
  /\ \A c \in Calls : call[c].op \in {None, "peer", "unpeer", "allow", "revoke"} => Aside(call[c])
  /\ \A c \in Calls : call'[c].op \in {None, "peer", "unpeer", "allow", "revoke"} => Aside(call'[c])
BY StepFacts DEF Aside

LEMMA PairConnections ==
  ASSUME NetworksInv, NetworksInv', ConnectionsInv, NEW c \in Calls, NEW p \in Peerings,
         \/ FindPair(c, p)
         \/ \E o \in PeerCalls : \E r : FindPeering(c, o, p, r)
  PROVE  ConnectionsInv'
<1>1. PICK k : Start(c, k) /\ k.op \in PeerCalls \cup {"peer"}
  <2>1. CASE FindPair(c, p)
    <3>1. PICK h : h = IF server[Ends[p][1]] = Local THEN server[Ends[p][2]] ELSE server[Ends[p][1]]
      OBVIOUS
    <3>2. PICK k : k = [Idle EXCEPT !.op = "peer", !.at = "insert", !.p = p, !.host = h]
      OBVIOUS
    <3>3. Start(c, k) /\ k.op = "peer"
      BY <2>1, <3>1, <3>2 DEF FindPair, Idle
    <3>4. QED
      BY <3>3
  <2>2. ASSUME NEW o \in PeerCalls, NEW r, FindPeering(c, o, p, r)
        PROVE  \E k : Start(c, k) /\ k.op \in PeerCalls \cup {"peer"}
    <3>1. PICK k : k = [Idle EXCEPT !.op = o, !.p = p, !.r = r,
                           !.at = IF o = "unpeer" THEN "peerings" ELSE "insert",
                           !.active = (peer[p] = "active"),
                           !.list = IF o = "unpeer" THEN {<<p, bridge[p]>>} ELSE {}]
      OBVIOUS
    <3>2. k.op = o
      BY <3>1 DEF Idle
    <3>3. Start(c, k)
      BY <2>2, <3>1 DEF FindPeering
    <3>4. QED
      BY <3>2, <3>3
  <2>3. QED
    BY <2>1, <2>2
<1>2. /\ \A e \in Calls : e # c => call'[e] = call[e]
      /\ call'[c] = k /\ call[c].op = None /\ disturbed \subseteq disturbed'
  BY <1>1, InvParts, StartFields
<1>3. Aside(call[c]) /\ Aside(call'[c])
  BY <1>1, <1>2, StepFacts DEF Aside
<1>4. UNCHANGED <<db, netRows, dockerNets>>
  BY DEF FindPair, FindPeering
<1>5. QED
  BY <1>2, <1>3, <1>4, ElsewhereMoves

LEMMA RuleConnections ==
  ASSUME NetworksInv, NetworksInv', ConnectionsInv, NEW c \in Calls,
         ChangeRule(c) \/ InsertPeering(c)
  PROVE  ConnectionsInv'
<1>1. UNCHANGED <<db, netRows, dockerNets>> /\ disturbed \subseteq disturbed'
  BY HistoryGrows
  DEF ChangeRule, InsertRule, DeleteRule, ReadRules, ApplyRules, InsertPeering
<1>2. call[c].op \in {"allow", "revoke", "peer"}
  BY DEF ChangeRule, InsertRule, DeleteRule, ReadRules, ApplyRules, InsertPeering, At
<1>3. CallsOK
  BY InvParts
<1>4. \/ Finish(c) \/ Goto(c, "read")
      \/ \E R, S : call' = [call EXCEPT ![c].at = "apply", ![c].rules = R, ![c].subnets = S]
  BY DEF ChangeRule, InsertRule, DeleteRule, ReadRules, ApplyRules, InsertPeering,
         AfterRuleChange
<1>5. ASSUME NEW R, NEW S,
             call' = [call EXCEPT ![c].at = "apply", ![c].rules = R, ![c].subnets = S]
      PROVE  call'[c].op = call[c].op /\ \A e \in Calls : e # c => call'[e] = call[e]
  BY <1>3, <1>5 DEF CallsOK, CallType
<1>6. /\ \A e \in Calls : e # c => call'[e] = call[e]
      /\ call'[c].op \in {None, "allow", "revoke", "peer"}
  <2>1. CASE Finish(c)
    BY <1>3, <2>1, FinishRecord, IdleFacts
  <2>2. CASE Goto(c, "read")
    BY <1>2, <1>3, <2>2, GotoRecord
  <2>3. QED
    BY <1>2, <1>4, <1>5, <2>1, <2>2
<1>7. Aside(call[c]) /\ Aside(call'[c])
  BY <1>2, <1>6, StepFacts DEF Aside
<1>8. QED
  BY <1>1, <1>6, <1>7, ElsewhereMoves

LEMMA TaskConnections ==
  ASSUME NetworksInv, NetworksInv', ConnectionsInv,
         UNCHANGED vars \/ \E p \in Peerings : ProvisionPeering(p)
  PROVE  ConnectionsInv'
<1>1. UNCHANGED <<db, netRows, dockerNets, call>> /\ disturbed \subseteq disturbed'
  BY HistoryGrows
  DEF vars, netRows, dockerNets, ProvisionPeering, MakeBridge, SaveBridge, ReadMembers,
      ConnectMember, Activate
<1>2. QED
  BY <1>1, ElsewhereMoves

LEMMA CrashConnections ==
  ASSUME NetworksInv, NetworksInv', ConnectionsInv, Crash
  PROVE  ConnectionsInv'
<1>1. /\ UNCHANGED <<db, netRows, dockerNets>> /\ \A c \in Calls : call'[c] = Idle
      /\ disturbed \subseteq disturbed' /\ InUse \subseteq disturbed'
  BY HistoryGrows DEF Crash
<1>2. JoinedExist' /\ \A n \in Nets : NothingYet(n)'
  BY <1>1, RestKept DEF netRows
<1>3. (\A e \in Calls : NetCallOK(e)') /\ OneCreate'
  BY <1>1, CallsKept, IdleFacts, StepFacts DEF netRows
<1>4. ASSUME NEW n \in Nets, n \notin disturbed'
      PROVE  NetworkOK(n)'
  <2>1. NetworkOK(n) /\ \A c \in Calls : ~NetCall(c, n)
    BY <1>1, <1>4, ConnectionFacts, NotInUse
  <2>2. CallsStay(n)
    BY <1>1, <2>1, IdleFacts, StepFacts DEF CallsStay, NetCall
  <2>3. QED
    BY <1>1, <2>1, <2>2, AllStay, NetworkKept
<1>5. QED
  BY <1>2, <1>3, <1>4 DEF ConnectionsInv

-----------------------------------------------------------------------------
LEMMA NextConnections ==
  ASSUME NetworksInv, NetworksInv', FirewallInv, ConnectionsInv, [Next]_vars
  PROVE  ConnectionsInv'
<1>1. ASSUME NEW c \in Calls, Request(c)
      PROVE  ConnectionsInv'
  BY <1>1, CountConnections, FindNetworkConnections, PairConnections, StepFacts DEF Request
<1>2. ASSUME NEW c \in Calls, Attach(c) \/ Detach(c)
      PROVE  ConnectionsInv'
  BY <1>2, CheckConnections, SetServerConnections, MakeDockConnections, SaveDockConnections,
     SaveSubnetConnections, JoinConnections, AddMemberConnections, SyncConnections, LeaveConnections,
     UnbridgeConnections, RemoveMemberConnections
  DEF Attach, Detach
<1>3. ASSUME NEW c \in Calls, Delete(c)
      PROVE  ConnectionsInv'
  BY <1>3, ListPeeringsConnections, WorkOnListConnections, PeeringsDeletedConnections,
     TakeDownNetworkConnections, DeleteNetworkConnections
  DEF Delete
<1>4. ASSUME NEW c \in Calls,
             InsertNetwork(c) \/ InsertPeering(c) \/ ChangeRule(c) \/ CallFails(c)
      PROVE  ConnectionsInv'
  BY <1>4, InsertNetworkConnections, RuleConnections, FailsConnections
<1>5. QED
  BY <1>1, <1>2, <1>3, <1>4, TaskConnections, DatabaseConnections, CrashConnections DEF Next

LEMMA ConnectionsFollow == NetworksInv /\ ConnectionsInv => MembersAreConnected
<1> SUFFICES ASSUME NetworksInv, ConnectionsInv, NEW n \in Nets, Quiet(n), net[n] = "live",
                    NEW d \in Dbs, db[d] = "running"
             PROVE  d \in members[n] <=> <<d, dock[n]>> \in joined
  BY DEF MembersAreConnected
<1>1. Matches(n, Idle)
  BY NotInUse, ConnectionFacts DEF Quiet, NetworkOK
<1>2. d \in members[n] => <<d, dock[n]>> \in joined
  BY <1>1, IdleFacts, StepFacts DEF Matches, MembersAreJoined, Is
<1>3. ASSUME <<d, dock[n]>> \in joined
      PROVE  d \in members[n]
  <2>1. PICK l \in joined : l = <<d, dock[n]>>
    BY <1>3
  <2>2. l[1] = d /\ l[2] = dock[n]
    BY <2>1
  <2>3. dock[n][1] = n
    BY <2>2, JoinedFacts, NamedDock
  <2>4. QED
    BY <1>1, <2>2, <2>3, IdleFacts, StepFacts DEF Matches, JoinedAreMembers, Is
<1>4. QED
  BY <1>2, <1>3

(* However attaching, detaching, deletions and failures alternate: on a    *)
(* network where nothing is under way, no calls overlapped and no step     *)
(* failed, the running members are the containers on its Docker network.   *)
THEOREM MembersConnected == Spec => []MembersAreConnected
<1>1. Init => NetworksInv /\ FirewallInv /\ ConnectionsInv
  BY InitInv, InitFirewall, InitConnections
<1>2. NetworksInv /\ FirewallInv /\ ConnectionsInv /\ [Next]_vars
        => NetworksInv' /\ FirewallInv' /\ ConnectionsInv'
  BY NextInv, NextFirewall, NextConnections
<1>3. QED
  BY <1>1, <1>2, ConnectionsFollow, PTL DEF Spec
-----------------------------------------------------------------------------
(* The subnets in a firewall.  A network gets its subnet when it gets its  *)
(* Docker network, once, so that a firewall made before has NULL for it    *)
(* and nothing else.                                                       *)

Applying(c, p) == RuleCall(c, p) /\ call[c].at = "apply"

SavesSubnet(c, n) == NetCall(c, n) /\ Is(call[c], "attach", {"subnet"})

SubnetIsFirst(n) ==
  /\ dock[n] = NoDock => subnet[n] = NoDock
  /\ \A c \in Calls : SavesSubnet(c, n) => subnet[n] = NoDock

(* The subnets s are those of the networks, or were before one got its own.*)
Fitting(p, s) ==
  /\ p \notin outdated => s = SubnetsOf(p)
  /\ Ends[p][1] \notin disturbed => s[1] \in {NoDock, subnet[Ends[p][1]]}
  /\ Ends[p][2] \notin disturbed => s[2] \in {NoDock, subnet[Ends[p][2]]}

ScopeFits(p) ==
  /\ table[p] # NoTable => Fitting(p, scope[p]) \/ \E c \in Calls : Applying(c, p)
  /\ \A c \in Calls : Applying(c, p) => Fitting(p, call[c].subnets)

ScopeInv ==
  /\ \A n \in Nets : n \notin disturbed => SubnetIsFirst(n)
  /\ \A p \in Peerings : PeerRow(p) /\ p \notin disturbed => ScopeFits(p)

LEMMA ScopeFacts ==
  ASSUME ScopeInv
  PROVE  /\ \A n \in Nets : n \notin disturbed => SubnetIsFirst(n)
         /\ \A p \in Peerings : PeerRow(p) /\ p \notin disturbed => ScopeFits(p)
BY DEF ScopeInv

LEMMA InitScope == Init => ScopeInv
<1> SUFFICES ASSUME Init PROVE ScopeInv
  OBVIOUS
<1>1. \A c \in Calls : call[c].op = None
  BY IdleFacts DEF Init
<1>2. \A n \in Nets : SubnetIsFirst(n)
  BY <1>1, StepFacts DEF Init, SubnetIsFirst, SavesSubnet, Is
<1>3. \A p \in Peerings : ~PeerRow(p)
  BY DEF Init, PeerRow
<1>4. QED
  BY <1>2, <1>3 DEF ScopeInv

(* Subnets that fit still do when neither they nor the networks' change.   *)
LEMMA FittingKept ==
  ASSUME NEW p \in Peerings, NEW s, Fitting(p, s), disturbed \subseteq disturbed',
         subnet' = subnet, p \notin outdated' => p \notin outdated
  PROVE  Fitting(p, s)'
BY DEF Fitting, SubnetsOf

(* No request about to save a subnet, or to apply rules, comes or goes.    *)
StaysAside(c) ==
  \/ call'[c] = call[c]
  \/ /\ call'[c].at \notin {"subnet", "apply"}
     /\ call[c].at = "apply" => Uses(call[c]) \subseteq disturbed'

(* A peering that gets its row has no firewall.                            *)
LEMMA ScopeKept ==
  ASSUME NetworksInv, FirewallInv, ScopeInv, disturbed \subseteq disturbed',
         UNCHANGED <<subnet, dock, table, scope, outdated>>,
         \A c \in Calls : StaysAside(c),
         \A p \in Peerings : PeerRow(p)' => PeerRow(p) \/ peer[p] = "unborn"
  PROVE  ScopeInv'
<1>1. ASSUME NEW n \in Nets, n \notin disturbed'
      PROVE  SubnetIsFirst(n)'
  <2>1. SubnetIsFirst(n)
    BY <1>1, ScopeFacts
  <2>2. \A c \in Calls : SavesSubnet(c, n)' => SavesSubnet(c, n)
    BY DEF StaysAside, SavesSubnet, NetCall, Is
  <2>3. QED
    BY <2>1, <2>2 DEF SubnetIsFirst
<1>2. ASSUME NEW p \in Peerings, PeerRow(p)', p \notin disturbed'
      PROVE  ScopeFits(p)'
  <2>1. ASSUME NEW c \in Calls, Applying(c, p) \/ Applying(c, p)'
        PROVE  call'[c] = call[c]
    <3>1. CASE Applying(c, p)
      BY <1>2, <3>1, BusyIsUsed DEF StaysAside, Applying
    <3>2. CASE Applying(c, p)'
      BY <3>2 DEF StaysAside, Applying
    <3>3. QED
      BY <2>1, <3>1, <3>2
  <2>2. \A c \in Calls : Applying(c, p)' <=> Applying(c, p)
    BY <2>1 DEF Applying, RuleCall
  <2>3. CASE PeerRow(p)
    <3>1. ScopeFits(p)
      BY <1>2, <2>3, ScopeFacts
    <3>2. Fitting(p, scope[p]) => Fitting(p, scope[p])'
      BY FittingKept
    <3>3. ASSUME NEW c \in Calls, Applying(c, p)'
          PROVE  Fitting(p, call[c].subnets)'
      <4>1. PICK s : s = call[c].subnets
        OBVIOUS
      <4>2. Fitting(p, s) /\ s = call'[c].subnets
        BY <2>1, <2>2, <3>1, <3>3, <4>1 DEF ScopeFits
      <4>3. Fitting(p, s)'
        BY <4>2, FittingKept
      <4>4. QED
        BY <4>2, <4>3
    <3>4. QED
      BY <2>2, <3>1, <3>2, <3>3 DEF ScopeFits
  <2>4. CASE peer[p] = "unborn"
    <3>1. table[p] = NoTable
      BY <1>2, <2>4, FirewallFacts DEF PeeringOK, NoRulesYet
    <3>2. \A c \in Calls : ~Applying(c, p)
      BY <2>4, RuleFacts DEF Applying, RuleCall
    <3>3. QED
      BY <2>2, <3>1, <3>2 DEF ScopeFits
  <2>5. QED
    BY <1>2, <2>3, <2>4
<1>3. QED
  BY <1>1, <1>2 DEF ScopeInv

(* Requests that go on, end, begin or fail elsewhere.                      *)
LEMMA AsideGoto ==
  ASSUME NetworksInv, NEW c \in Calls, NEW s, s \notin {"subnet", "apply"}, Goto(c, s),
         call[c].at # "apply"
  PROVE  \A e \in Calls : StaysAside(e)
BY InvParts, GotoFields DEF StaysAside

LEMMA AsideFinish ==
  ASSUME NetworksInv, NEW c \in Calls, Finish(c),
         call[c].at = "apply" => Uses(call[c]) \subseteq disturbed'
  PROVE  \A e \in Calls : StaysAside(e)
BY InvParts, FinishFields, StepFacts DEF StaysAside

LEMMA AsideList ==
  ASSUME NEW c \in Calls, call[c].at # "apply", call'[c].at \notin {"subnet", "apply"},
         \A e \in Calls : e # c => call'[e] = call[e]
  PROVE  \A e \in Calls : StaysAside(e)
BY DEF StaysAside

LEMMA AsideStart ==
  ASSUME NetworksInv, NEW c \in Calls, NEW k, Start(c, k), k.at \notin {"subnet", "apply"}
  PROVE  disturbed \subseteq disturbed' /\ \A e \in Calls : StaysAside(e)
<1>1. CallsOK /\ call[c] = Idle
  BY InvParts DEF Start
<1>2. call[c].at # "apply"
  BY <1>1, IdleFacts, StepFacts
<1>3. QED
  BY <1>1, <1>2, StartFields DEF StaysAside

(* Operations that do not change subnets, firewalls or the rows of         *)
(* peerings.                                                               *)
FirewallsStay == UNCHANGED <<subnet, dock, table, scope, outdated, peer>>

LEMMA MovesAside ==
  ASSUME NetworksInv, FirewallInv, ScopeInv, FirewallsStay, disturbed \subseteq disturbed',
         \A c \in Calls : StaysAside(c)
  PROVE  ScopeInv'
BY ScopeKept DEF FirewallsStay, PeerRow

LEMMA RequestScope ==
  ASSUME NetworksInv, FirewallInv, ScopeInv, NEW c \in Calls, Request(c)
  PROVE  ScopeInv'
<1> USE DEF FirewallsStay, netRows, peerRows, dockerPeer
<1>1. ASSUME NEW n \in Nets, CountNetworks(c, n)
      PROVE  ScopeInv'
  <2>1. PICK k : k = [Idle EXCEPT !.op = "create", !.at = "insert", !.n = n]
    OBVIOUS
  <2>2. Start(c, k) /\ k.at = "insert"
    BY <1>1, <2>1 DEF CountNetworks, Idle
  <2>3. QED
    BY <1>1, <2>2, AsideStart, MovesAside DEF CountNetworks
<1>2. ASSUME NEW n \in Nets, NEW o, NEW d, FindNetwork(c, o, n, d)
      PROVE  ScopeInv'
  <2>1. PICK k : k = [Idle EXCEPT !.op = o, !.at = "found", !.n = n, !.d = d,
                                  !.host = server[n], !.dock = dock[n]]
    OBVIOUS
  <2>2. Start(c, k) /\ k.at = "found"
    BY <1>2, <2>1 DEF FindNetwork, Idle
  <2>3. QED
    BY <1>2, <2>2, AsideStart, MovesAside DEF FindNetwork
<1>3. ASSUME NEW p \in Peerings, FindPair(c, p)
      PROVE  ScopeInv'
  <2>1. PICK h : h = IF server[Ends[p][1]] = Local THEN server[Ends[p][2]] ELSE server[Ends[p][1]]
    OBVIOUS
  <2>2. PICK k : k = [Idle EXCEPT !.op = "peer", !.at = "insert", !.p = p, !.host = h]
    OBVIOUS
  <2>3. Start(c, k) /\ k.at = "insert"
    BY <1>3, <2>1, <2>2 DEF FindPair, Idle
  <2>4. QED
    BY <1>3, <2>3, AsideStart, MovesAside DEF FindPair
<1>4. ASSUME NEW p \in Peerings, NEW o, NEW r, FindPeering(c, o, p, r)
      PROVE  ScopeInv'
  <2>1. PICK k : k = [Idle EXCEPT !.op = o, !.p = p, !.r = r,
                         !.at = IF o = "unpeer" THEN "peerings" ELSE "insert",
                         !.active = (peer[p] = "active"),
                         !.list = IF o = "unpeer" THEN {<<p, bridge[p]>>} ELSE {}]
    OBVIOUS
  <2>2. k.at \in {"peerings", "insert"}
    BY <2>1 DEF Idle
  <2>3. Start(c, k)
    BY <1>4, <2>1 DEF FindPeering
  <2>4. QED
    BY <1>4, <2>2, <2>3, AsideStart, MovesAside DEF FindPeering
<1>5. QED
  BY <1>1, <1>2, <1>3, <1>4 DEF Request

(* attach_database and detach_database, but for the subnet.                *)
LEMMA AttachScope ==
  ASSUME NetworksInv, FirewallInv, ScopeInv, NEW c \in Calls,
         \/ CheckDatabase(c) \/ SetServer(c) \/ MakeDock(c) \/ Join(c) \/ AddMember(c)
         \/ SyncBridges(c) \/ Detach(c) \/ InsertNetwork(c)
  PROVE  ScopeInv'
<1> USE HistoryGrows, AsideGoto, AsideFinish, MovesAside
    DEF FirewallsStay, netRows, peerRows, dockerPeer, At
<1>1. CASE CheckDatabase(c)
  BY <1>1 DEF CheckDatabase
<1>2. CASE SetServer(c)
  <2>1. CallsOK
    BY InvParts
  <2>2. call'[c].at = "dock" /\ \A e \in Calls : e # c => call'[e] = call[e]
    BY <1>2, <2>1 DEF SetServer, CallsOK, CallType
  <2>3. \A e \in Calls : StaysAside(e)
    BY <1>2, <2>2 DEF StaysAside, SetServer
  <2>4. QED
    BY <1>2, <2>3 DEF SetServer
<1>3. CASE MakeDock(c)
  <2>1. CASE Goto(c, "join")
    BY <1>3, <2>1 DEF MakeDock
  <2>2. ASSUME NEW j, call' = [call EXCEPT ![c].at = "save", ![c].dock = <<call[c].n, j>>]
        PROVE  ScopeInv'
    <3>1. CallsOK
      BY InvParts
    <3>2. call'[c].at = "save" /\ \A e \in Calls : e # c => call'[e] = call[e]
      BY <2>2, <3>1 DEF CallsOK, CallType
    <3>3. \A e \in Calls : StaysAside(e)
      BY <1>3, <3>2 DEF StaysAside, MakeDock
    <3>4. QED
      BY <1>3, <3>3 DEF MakeDock
  <2>3. QED
    BY <1>3, <2>1, <2>2 DEF MakeDock
<1>4. CASE Join(c)
  BY <1>4 DEF Join
<1>5. CASE AddMember(c)
  BY <1>5 DEF AddMember
<1>6. CASE SyncBridges(c)
  BY <1>6 DEF SyncBridges
<1>7. CASE Leave(c)
  BY <1>7 DEF Leave
<1>8. CASE Unbridge(c)
  BY <1>8 DEF Unbridge
<1>9. CASE RemoveMember(c)
  BY <1>9 DEF RemoveMember
<1>10. CASE InsertNetwork(c)
  BY <1>10 DEF InsertNetwork
<1>11. QED
  BY <1>1, <1>2, <1>3, <1>4, <1>5, <1>6, <1>7, <1>8, <1>9, <1>10 DEF Detach

(* A network that gets its Docker network has no subnet yet.               *)
LEMMA SaveDockScope ==
  ASSUME NetworksInv, FirewallInv, ConnectionsInv, ScopeInv, NEW c \in Calls, SaveDock(c)
  PROVE  ScopeInv'
<1> USE DEF netRows, peerRows, dockerPeer
<1>1. PICK n : n = call[c].n
  OBVIOUS
<1>2. call[c].op = "attach" /\ call[c].at = "save" /\ call[c].op \in NetCalls
  BY StepFacts DEF SaveDock, At
<1>3. n \in Nets /\ CallsOK
  BY <1>1, <1>2, KnownNetwork
<1>4. /\ UNCHANGED <<subnet, peer, table, scope, outdated>> /\ disturbed \subseteq disturbed'
      /\ \A x \in Nets : x # n => dock'[x] = dock[x]
  BY <1>1, HistoryGrows, InvParts DEF SaveDock, RowTypes
<1>5. /\ \A e \in Calls : e # c => call'[e] = call[e]
      /\ call'[c].at = "subnet" /\ call'[c].op = "attach" /\ call'[c].n = n
  BY <1>1, <1>2, <1>3, GotoFields DEF SaveDock
<1>6. ASSUME NEW x \in Nets, x \notin disturbed'
      PROVE  SubnetIsFirst(x)'
  <2>1. SubnetIsFirst(x)
    BY <1>4, <1>6, ScopeFacts
  <2>2. CASE x # n
    BY <1>4, <1>5, <2>1, <2>2 DEF SubnetIsFirst, SavesSubnet, NetCall
  <2>3. CASE x = n
    <3>1. Matches(n, call[c])
      BY <1>1, <1>2, <1>4, <1>6, <2>3, ConnectionFacts DEF NetworkOK, NetCall
    <3>2. dock[n] = NoDock
      BY <1>2, <3>1, StepFacts DEF Matches, Knows, Is
    <3>3. subnet'[n] = NoDock
      BY <1>4, <2>1, <2>3, <3>2 DEF SubnetIsFirst
    <3>4. QED
      BY <2>3, <3>3 DEF SubnetIsFirst
  <2>4. QED
    BY <2>2, <2>3
<1>7. ASSUME NEW p \in Peerings, PeerRow(p)', p \notin disturbed'
      PROVE  ScopeFits(p)'
  <2>1. ScopeFits(p)
    BY <1>4, <1>7, ScopeFacts DEF PeerRow
  <2>2. \A e \in Calls : /\ Applying(e, p)' <=> Applying(e, p)
                         /\ Applying(e, p) => call'[e] = call[e]
    BY <1>2, <1>5, StepFacts DEF Applying, RuleCall
  <2>3. Fitting(p, scope[p]) => Fitting(p, scope[p])'
    BY <1>4, FittingKept
  <2>4. ASSUME NEW e \in Calls, Applying(e, p)'
        PROVE  Fitting(p, call[e].subnets)'
    <3>1. PICK s : s = call[e].subnets
      OBVIOUS
    <3>2. Fitting(p, s) /\ s = call'[e].subnets
      BY <2>1, <2>2, <2>4, <3>1 DEF ScopeFits
    <3>3. QED
      BY <1>4, <3>2, FittingKept
  <2>5. QED
    BY <1>4, <2>1, <2>2, <2>3, <2>4 DEF ScopeFits
<1>8. QED
  BY <1>6, <1>7 DEF ScopeInv

(* Firewalls made before are outdated then, and have NULL in its place.    *)
LEMMA SaveSubnetScope ==
  ASSUME NetworksInv, FirewallInv, ConnectionsInv, ScopeInv, NEW c \in Calls, SaveSubnet(c)
  PROVE  ScopeInv'
<1> USE DEF peerRows
<1>1. PICK n : n = call[c].n
  OBVIOUS
<1>2. call[c].op = "attach" /\ call[c].at = "subnet" /\ call[c].op \in NetCalls
  BY StepFacts DEF SaveSubnet, At
<1>3. n \in Nets /\ CallsOK
  BY <1>1, <1>2, KnownNetwork
<1>4. /\ UNCHANGED <<dock, peer, table, scope>> /\ disturbed \subseteq disturbed'
      /\ \A x \in Nets : x # n => subnet'[x] = subnet[x]
      /\ outdated' = outdated \cup {p \in PeeringsOf(n) : FirewallRead(p)}
      /\ net[n] # "live" => subnet'[n] = subnet[n]
  BY <1>1, HistoryGrows, InvParts DEF SaveSubnet, RowTypes
<1>5. /\ \A e \in Calls : e # c => call'[e] = call[e]
      /\ call'[c].at = "join" /\ call'[c].op = "attach" /\ call'[c].n = n
  BY <1>1, <1>2, <1>3, GotoFields DEF SaveSubnet
<1>6. ASSUME n \notin disturbed'
      PROVE  /\ subnet[n] = NoDock /\ dock[n] # NoDock
             /\ \A e \in Calls : ~SavesSubnet(e, n)'
  <2>1. SavesSubnet(c, n) /\ NetCall(c, n)
    BY <1>1, <1>2 DEF SavesSubnet, NetCall, Is
  <2>2. NetworkOK(n) /\ SubnetIsFirst(n)
    BY <1>3, <1>4, <1>6, ConnectionFacts, ScopeFacts
  <2>3. Matches(n, call[c]) /\ \A e \in Calls : NetCall(e, n) => e = c
    BY <2>1, <2>2 DEF NetworkOK
  <2>4. call[c].dock # NoDock
    BY <1>2, CallFacts DEF CallOK
  <2>5. dock[n] # NoDock
    BY <1>2, <2>3, <2>4, StepFacts DEF Matches, Knows, Is
  <2>6. \A e \in Calls : ~SavesSubnet(e, n)'
    BY <1>5, <2>3 DEF SavesSubnet, NetCall, Is
  <2>7. QED
    BY <2>1, <2>2, <2>5, <2>6 DEF SubnetIsFirst
<1>7. ASSUME NEW x \in Nets, x \notin disturbed'
      PROVE  SubnetIsFirst(x)'
  <2>1. CASE x # n
    <3>1. SubnetIsFirst(x)
      BY <1>4, <1>7, ScopeFacts
    <3>2. \A e \in Calls : SavesSubnet(e, x)' => SavesSubnet(e, x)
      BY <1>5 DEF SavesSubnet, NetCall, Is
    <3>3. QED
      BY <1>4, <2>1, <3>1, <3>2 DEF SubnetIsFirst
  <2>2. CASE x = n
    BY <1>4, <1>6, <1>7, <2>2 DEF SubnetIsFirst
  <2>3. QED
    BY <2>1, <2>2
<1>8. ASSUME NEW p \in Peerings, NEW s, Fitting(p, s), PeerRow(p), FirewallRead(p)
      PROVE  Fitting(p, s)'
  <2>1. CASE n \in EndsOf(p)
    <3>1. p \in outdated'
      BY <1>4, <1>8, <2>1 DEF PeeringsOf
    <3>2. Ends[p][1] \notin disturbed' => s[1] \in {NoDock, subnet'[Ends[p][1]]}
      BY <1>4, <1>6, <1>8, EndFacts DEF Fitting
    <3>3. Ends[p][2] \notin disturbed' => s[2] \in {NoDock, subnet'[Ends[p][2]]}
      BY <1>4, <1>6, <1>8, EndFacts DEF Fitting
    <3>4. QED
      BY <3>1, <3>2, <3>3 DEF Fitting
  <2>2. CASE n \notin EndsOf(p)
    <3>1. subnet'[Ends[p][1]] = subnet[Ends[p][1]] /\ subnet'[Ends[p][2]] = subnet[Ends[p][2]]
      BY <1>4, <2>2, EndFacts
    <3>2. QED
      BY <1>4, <1>8, <3>1 DEF Fitting, SubnetsOf
  <2>3. QED
    BY <2>1, <2>2
<1>9. ASSUME NEW p \in Peerings, PeerRow(p)', p \notin disturbed'
      PROVE  ScopeFits(p)'
  <2>1. ScopeFits(p) /\ PeerRow(p)
    BY <1>4, <1>9, ScopeFacts DEF PeerRow
  <2>2. \A e \in Calls : /\ Applying(e, p)' <=> Applying(e, p)
                         /\ Applying(e, p) => call'[e] = call[e] /\ FirewallRead(p)
    BY <1>2, <1>5, StepFacts DEF Applying, RuleCall, FirewallRead
  <2>3. table[p] # NoTable /\ Fitting(p, scope[p]) => Fitting(p, scope[p])'
    <3>1. PICK s : s = scope[p]
      OBVIOUS
    <3>2. s = scope'[p]
      BY <1>4, <3>1
    <3>3. table[p] # NoTable /\ Fitting(p, s) => Fitting(p, s)'
      BY <1>8, <2>1 DEF FirewallRead
    <3>4. QED
      BY <3>1, <3>2, <3>3
  <2>4. ASSUME NEW e \in Calls, Applying(e, p)'
        PROVE  Fitting(p, call[e].subnets)'
    <3>1. PICK s : s = call[e].subnets
      OBVIOUS
    <3>2. Fitting(p, s) /\ s = call'[e].subnets
      BY <2>1, <2>2, <2>4, <3>1 DEF ScopeFits
    <3>3. Fitting(p, s)'
      BY <1>8, <2>1, <2>2, <2>4, <3>2
    <3>4. QED
      BY <3>2, <3>3
  <2>5. QED
    BY <1>4, <2>1, <2>2, <2>3, <2>4 DEF ScopeFits
<1>10. QED
  BY <1>7, <1>9 DEF ScopeInv

LEMMA TakeDownBridgeScope ==
  ASSUME NetworksInv, FirewallInv, ScopeInv, NEW c \in Calls, NEW p \in Peerings,
         TakeDownBridge(c, p)
  PROVE  ScopeInv'
<1> USE DEF netRows, peerRows
<1>1. /\ UNCHANGED <<subnet, dock, peer, outdated>> /\ disturbed \subseteq disturbed'
      /\ call[c].at = "peerings"
      /\ call' = [call EXCEPT ![c].list = (@ \ {<<p, TRUE>>}) \cup {<<p, FALSE>>}]
  BY HistoryGrows DEF TakeDownBridge
<1>2. \A e \in Calls : /\ \A q : Applying(e, q)' <=> Applying(e, q)
                       /\ \A n : SavesSubnet(e, n)' <=> SavesSubnet(e, n)
                       /\ call'[e].subnets = call[e].subnets
  <2>1. CallsOK
    BY InvParts
  <2>2. /\ \A e \in Calls : e # c => call'[e] = call[e]
        /\ call'[c].at = "peerings" /\ call'[c].subnets = call[c].subnets
    BY <1>1, <2>1 DEF CallsOK, CallType
  <2>3. QED
    BY <1>1, <2>2 DEF Applying, RuleCall, SavesSubnet, NetCall, Is
<1>3. ASSUME NEW n \in Nets, n \notin disturbed'
      PROVE  SubnetIsFirst(n)'
  BY <1>1, <1>2, <1>3, ScopeFacts DEF SubnetIsFirst
<1>4. ASSUME NEW q \in Peerings, PeerRow(q)', q \notin disturbed'
      PROVE  ScopeFits(q)'
  <2>1. ScopeFits(q)
    BY <1>1, <1>4, ScopeFacts DEF PeerRow
  <2>2. table'[q] = NoTable \/ (table'[q] = table[q] /\ scope'[q] = scope[q])
    BY <1>4, InvParts DEF TakeDownBridge, DockerTypes, FaultOn
  <2>3. scope'[q] = scope[q] /\ Fitting(q, scope[q]) => Fitting(q, scope[q])'
    <3>1. PICK s : s = scope[q]
      OBVIOUS
    <3>2. Fitting(q, s) => Fitting(q, s)'
      BY <1>1, FittingKept
    <3>3. QED
      BY <3>1, <3>2
  <2>4. ASSUME NEW e \in Calls, Applying(e, q)'
        PROVE  Fitting(q, call[e].subnets)'
    <3>1. PICK s : s = call[e].subnets
      OBVIOUS
    <3>2. Fitting(q, s) /\ s = call'[e].subnets
      BY <1>2, <2>1, <2>4, <3>1 DEF ScopeFits
    <3>3. Fitting(q, s)'
      BY <1>1, <3>2, FittingKept
    <3>4. QED
      BY <3>2, <3>3
  <2>5. QED
    BY <1>2, <2>1, <2>2, <2>3, <2>4 DEF ScopeFits
<1>5. QED
  BY <1>3, <1>4 DEF ScopeInv

(* A network's row goes with those of its peerings.                        *)
LEMMA DeleteNetworkScope ==
  ASSUME NetworksInv, FirewallInv, ScopeInv, NEW c \in Calls, DeleteNetwork(c)
  PROVE  ScopeInv'
<1> USE DEF dockerPeer
<1>1. PICK n : n = call[c].n
  OBVIOUS
<1>2. /\ UNCHANGED <<dock, table, scope, outdated>> /\ disturbed \subseteq disturbed'
      /\ call[c].at = "row" /\ call[c].op = "drop"
      /\ \A x \in Nets : subnet'[x] = IF x = n THEN NoDock ELSE subnet[x]
      /\ \A p \in Peerings : PeerRow(p)' => PeerRow(p) /\ n \notin EndsOf(p)
  BY <1>1, HistoryGrows, InvParts DEF DeleteNetwork, At, RowTypes, PeerRow, PeeringsOf
<1>3. \A e \in Calls : /\ \A q : Applying(e, q)' <=> Applying(e, q)
                       /\ \A x : SavesSubnet(e, x)' => SavesSubnet(e, x)
                       /\ \A q : Applying(e, q) => call'[e] = call[e]
  <2>1. /\ \A e \in Calls : e # c => call'[e] = call[e]
        /\ call'[c].op = None
    BY InvParts, FinishFields DEF DeleteNetwork
  <2>2. QED
    BY <1>2, <2>1, StepFacts DEF Applying, RuleCall, SavesSubnet, NetCall, Is
<1>4. ASSUME NEW x \in Nets, x \notin disturbed'
      PROVE  SubnetIsFirst(x)'
  BY <1>2, <1>3, <1>4, ScopeFacts DEF SubnetIsFirst
<1>5. ASSUME NEW q \in Peerings, PeerRow(q)', q \notin disturbed'
      PROVE  ScopeFits(q)'
  <2>1. ScopeFits(q)
    BY <1>2, <1>5, ScopeFacts
  <2>2. subnet'[Ends[q][1]] = subnet[Ends[q][1]] /\ subnet'[Ends[q][2]] = subnet[Ends[q][2]]
    BY <1>2, <1>5, EndFacts
  <2>3. ASSUME NEW s, Fitting(q, s)
        PROVE  Fitting(q, s)'
    BY <1>2, <2>2, <2>3 DEF Fitting, SubnetsOf
  <2>4. Fitting(q, scope[q]) => Fitting(q, scope[q])'
    BY <1>2, <2>3
  <2>5. ASSUME NEW e \in Calls, Applying(e, q)'
        PROVE  Fitting(q, call[e].subnets)'
    BY <1>3, <2>1, <2>3, <2>5 DEF ScopeFits
  <2>6. QED
    BY <1>2, <1>3, <2>1, <2>4, <2>5 DEF ScopeFits
<1>6. QED
  BY <1>4, <1>5 DEF ScopeInv

LEMMA DeleteScope ==
  ASSUME NetworksInv, FirewallInv, ScopeInv, NEW c \in Calls, Delete(c)
  PROVE  ScopeInv'
<1> USE HistoryGrows DEF FirewallsStay, netRows, peerRows, dockerPeer, At
<1>1. CASE ListPeerings(c)
  <2>1. PICK l : l = {<<p, bridge[p]>> : p \in PeeringsOf(call[c].n)}
    OBVIOUS
  <2>2. call[c].at = "found" /\ call' = [call EXCEPT ![c].at = "peerings", ![c].list = l]
    BY <1>1, <2>1 DEF ListPeerings
  <2>3. call'[c].at = "peerings" /\ \A e \in Calls : e # c => call'[e] = call[e]
    BY <2>2, InvParts, ListRecord
  <2>4. \A e \in Calls : StaysAside(e)
    BY <2>2, <2>3, AsideList
  <2>5. QED
    BY <1>1, <2>4, MovesAside DEF ListPeerings
<1>2. CASE PeeringsDeleted(c)
  BY <1>2, AsideGoto, AsideFinish, MovesAside DEF PeeringsDeleted
<1>3. CASE TakeDownNetwork(c)
  BY <1>3, AsideGoto, MovesAside DEF TakeDownNetwork
<1>4. ASSUME NEW p \in Peerings, DeletePeering(c, p)
      PROVE  ScopeInv'
  <2>1. /\ \A e \in Calls : StaysAside(e)
        /\ disturbed \subseteq disturbed'
        /\ UNCHANGED <<subnet, dock, table, scope, outdated>>
    <3>1. PICK l : call' = [call EXCEPT ![c].list = l]
      BY <1>4, CallFacts DEF DeletePeering
    <3>2. call[c].at = "peerings"
      BY <1>4 DEF DeletePeering
    <3>3. call'[c].at = "peerings" /\ \A e \in Calls : e # c => call'[e] = call[e]
      BY <3>1, <3>2, InvParts, ListRecord
    <3>4. \A e \in Calls : StaysAside(e)
      BY <3>2, <3>3, AsideList
    <3>5. QED
      BY <1>4, <3>4 DEF DeletePeering
  <2>2. \A q \in Peerings : PeerRow(q)' => PeerRow(q)
    BY <1>4, InvParts DEF DeletePeering, PeerRow, PeerTypes
  <2>3. QED
    BY <2>1, <2>2, ScopeKept
<1>5. QED
  BY <1>1, <1>2, <1>3, <1>4, TakeDownBridgeScope, DeleteNetworkScope DEF Delete

(* What is read is what the rows have.                                     *)
LEMMA ReadRulesScope ==
  ASSUME NetworksInv, FirewallInv, ScopeInv, NEW c \in Calls, ReadRules(c)
  PROVE  ScopeInv'
<1> USE DEF netRows, peerRows
<1>1. PICK p : p = call[c].p
  OBVIOUS
<1>2. call[c].op \in {"allow", "revoke"} /\ call[c].at = "read" /\ p \in Peerings
  BY <1>1, RuleFacts DEF ReadRules
<1>3. /\ UNCHANGED <<subnet, dock, peer, table, scope>> /\ disturbed \subseteq disturbed'
      /\ outdated' = outdated \ {p}
  BY <1>1, HistoryGrows DEF ReadRules
<1>4. PICK s : s = SubnetsOf(p)
  OBVIOUS
<1>5. /\ \A e \in Calls : e # c => call'[e] = call[e]
      /\ call'[c].op = call[c].op /\ call'[c].p = p /\ call'[c].at = "apply"
      /\ call'[c].subnets = s
  <2>1. CallsOK
    BY InvParts
  <2>2. call' = [call EXCEPT ![c].at = "apply", ![c].rules = rules[p], ![c].subnets = s]
    BY <1>1, <1>4 DEF ReadRules, SubnetsOf
  <2>3. QED
    BY <1>1, <2>1, <2>2 DEF CallsOK, CallType
<1>6. ASSUME NEW n \in Nets, n \notin disturbed'
      PROVE  SubnetIsFirst(n)'
  <2>1. \A e \in Calls : SavesSubnet(e, n)' => SavesSubnet(e, n)
    BY <1>5 DEF SavesSubnet, NetCall, Is
  <2>2. QED
    BY <1>3, <1>6, <2>1, ScopeFacts DEF SubnetIsFirst
<1>7. ASSUME NEW q \in Peerings, PeerRow(q)', q \notin disturbed'
      PROVE  ScopeFits(q)'
  <2>1. ScopeFits(q)
    BY <1>3, <1>7, ScopeFacts DEF PeerRow
  <2>2. CASE q # p
    <3>1. \A e \in Calls : /\ Applying(e, q)' <=> Applying(e, q)
                           /\ Applying(e, q) => call'[e] = call[e]
      BY <1>1, <1>5, <2>2 DEF Applying, RuleCall
    <3>2. ASSUME NEW t, Fitting(q, t)
          PROVE  Fitting(q, t)'
      BY <1>3, <2>2, <3>2, FittingKept
    <3>3. Fitting(q, scope[q]) => Fitting(q, scope[q])'
      BY <1>3, <3>2
    <3>4. ASSUME NEW e \in Calls, Applying(e, q)'
          PROVE  Fitting(q, call[e].subnets)'
      BY <2>1, <3>1, <3>2, <3>4 DEF ScopeFits
    <3>5. QED
      BY <1>3, <2>1, <3>1, <3>3, <3>4 DEF ScopeFits
  <2>3. CASE q = p
    <3>1. Fitting(p, s)'
      BY <1>3, <1>4 DEF Fitting, SubnetsOf
    <3>2. Applying(c, p)'
      BY <1>2, <1>5 DEF Applying, RuleCall
    <3>3. OneRuleCall(p) /\ RuleCall(c, p)
      BY <1>1, <1>2, <1>3, <1>7, <2>3, FirewallFacts DEF PeeringOK, RuleCall
    <3>4. \A e \in Calls : Applying(e, p)' => e = c
      BY <1>5, <3>3 DEF OneRuleCall, Applying, RuleCall
    <3>5. \A e \in Calls : Applying(e, p)' => Fitting(p, call[e].subnets)'
      BY <1>5, <3>1, <3>4
    <3>6. QED
      BY <2>3, <3>2, <3>5 DEF ScopeFits
  <2>4. QED
    BY <2>2, <2>3
<1>8. QED
  BY <1>6, <1>7 DEF ScopeInv

LEMMA ApplyRulesScope ==
  ASSUME NetworksInv, FirewallInv, ScopeInv, NEW c \in Calls, ApplyRules(c)
  PROVE  ScopeInv'
<1> USE DEF netRows, peerRows
<1>1. PICK p : p = call[c].p
  OBVIOUS
<1>2. call[c].op \in {"allow", "revoke"} /\ call[c].at = "apply" /\ p \in Peerings
  BY <1>1, RuleFacts DEF ApplyRules
<1>3. /\ UNCHANGED <<subnet, dock, peer, outdated>> /\ disturbed \subseteq disturbed'
      /\ p \notin disturbed' => scope'[p] = call[c].subnets
      /\ \A q \in Peerings : q # p => table'[q] = table[q] /\ scope'[q] = scope[q]
  BY <1>1, <1>2, InvParts DEF ApplyRules, NoFault, FaultOn, DockerTypes
<1>4. call'[c].op = None /\ \A e \in Calls : e # c => call'[e] = call[e]
  BY InvParts, FinishFields DEF ApplyRules
<1>5. ASSUME NEW n \in Nets, n \notin disturbed'
      PROVE  SubnetIsFirst(n)'
  <2>1. \A e \in Calls : SavesSubnet(e, n)' => SavesSubnet(e, n)
    BY <1>4, StepFacts DEF SavesSubnet, NetCall, Is
  <2>2. QED
    BY <1>3, <1>5, <2>1, ScopeFacts DEF SubnetIsFirst
<1>6. ASSUME NEW q \in Peerings, PeerRow(q)', q \notin disturbed'
      PROVE  ScopeFits(q)'
  <2>1. ScopeFits(q)
    BY <1>3, <1>6, ScopeFacts DEF PeerRow
  <2>2. \A e \in Calls : Applying(e, q)' => Applying(e, q) /\ call'[e] = call[e]
    BY <1>4, StepFacts DEF Applying, RuleCall
  <2>3. ASSUME NEW s, Fitting(q, s)
        PROVE  Fitting(q, s)'
    BY <1>3, <2>3, FittingKept
  <2>4. ASSUME NEW e \in Calls, Applying(e, q)'
        PROVE  Fitting(q, call[e].subnets)'
    BY <2>1, <2>2, <2>3, <2>4 DEF ScopeFits
  <2>5. CASE q # p
    <3>1. \A e \in Calls : Applying(e, q) => Applying(e, q)'
      BY <1>1, <1>4, <2>5 DEF Applying, RuleCall
    <3>2. Fitting(q, scope[q]) => Fitting(q, scope[q])'
      BY <1>3, <2>3, <2>5
    <3>3. QED
      BY <1>3, <2>1, <2>4, <2>5, <3>1, <3>2 DEF ScopeFits
  <2>6. CASE q = p
    <3>1. Applying(c, p)
      BY <1>1, <1>2 DEF Applying, RuleCall
    <3>2. Fitting(p, call[c].subnets)
      BY <2>1, <2>6, <3>1 DEF ScopeFits
    <3>3. Fitting(p, scope[p])'
      BY <1>3, <1>6, <2>3, <2>6, <3>2
    <3>4. QED
      BY <2>4, <2>6, <3>3 DEF ScopeFits
  <2>7. QED
    BY <2>5, <2>6
<1>7. QED
  BY <1>5, <1>6 DEF ScopeInv

LEMMA OthersScope ==
  ASSUME NetworksInv, FirewallInv, ScopeInv, NEW c \in Calls,
         InsertRule(c) \/ DeleteRule(c) \/ InsertPeering(c) \/ CallFails(c)
  PROVE  ScopeInv'
<1> USE HistoryGrows DEF FirewallsStay, netRows, peerRows, dockerPeer, At
<1>1. CASE InsertRule(c) \/ DeleteRule(c)
  BY <1>1, AsideGoto, AsideFinish, MovesAside DEF InsertRule, DeleteRule, AfterRuleChange
<1>2. CASE InsertPeering(c)
  <2>1. /\ \A e \in Calls : StaysAside(e)
        /\ disturbed \subseteq disturbed'
        /\ UNCHANGED <<subnet, dock, table, scope, outdated>>
    BY <1>2, AsideFinish DEF InsertPeering
  <2>2. peer[call[c].p] = "unborn"
    BY <1>2, FirewallFacts DEF InsertPeering, PeerCallOK
  <2>3. \A q \in Peerings : PeerRow(q)' => PeerRow(q) \/ peer[q] = "unborn"
    BY <1>2, <2>2, InvParts DEF InsertPeering, PeerRow, PeerTypes
  <2>4. QED
    BY <2>1, <2>3, ScopeKept
<1>3. CASE CallFails(c)
  BY <1>3, AsideFinish, MovesAside DEF CallFails
<1>4. QED
  BY <1>1, <1>2, <1>3

LEMMA NextScope ==
  ASSUME NetworksInv, FirewallInv, ConnectionsInv, ScopeInv, [Next]_vars
  PROVE  ScopeInv'
<1> USE DEF netRows, peerRows, dockerPeer
<1>1. ASSUME NEW c \in Calls,
             \/ Request(c) \/ InsertNetwork(c) \/ InsertPeering(c) \/ Attach(c)
             \/ Detach(c) \/ Delete(c) \/ ChangeRule(c) \/ CallFails(c)
      PROVE  ScopeInv'
  BY <1>1, RequestScope, AttachScope, SaveDockScope, SaveSubnetScope, DeleteScope,
     ReadRulesScope, ApplyRulesScope, OthersScope DEF Attach, ChangeRule
<1>2. ASSUME NEW p \in Peerings, ProvisionPeering(p)
      PROVE  ScopeInv'
  <2>1. /\ UNCHANGED <<subnet, dock, table, scope, outdated, call>>
        /\ disturbed \subseteq disturbed'
    BY <1>2, HistoryGrows
    DEF ProvisionPeering, MakeBridge, SaveBridge, ReadMembers, Activate, ConnectMember
  <2>2. \A q \in Peerings : PeerRow(q)' => PeerRow(q)
    BY <1>2, InvParts DEF ProvisionPeering, MakeBridge, SaveBridge, ReadMembers, Activate,
       ConnectMember, SetPeerStatus, PeerRow, PeerTypes
  <2>3. QED
    BY <2>1, <2>2, ScopeKept DEF StaysAside
<1>3. ASSUME NEW d \in Dbs, DeleteDatabase(d)
      PROVE  ScopeInv'
  <2>1. UNCHANGED <<subnet, dock, table, scope, outdated, peer, call, disturbed>>
    BY <1>3, DatabaseHistory
    DEF DeleteDatabase, MarkDeleting, LeaveNetworks, RemoveContainer, DeleteDatabaseRow
  <2>2. QED
    BY <2>1, MovesAside DEF FirewallsStay, StaysAside
<1>4. CASE Crash
  <2>1. /\ UNCHANGED <<subnet, dock, table, scope, outdated, peer>>
        /\ disturbed \subseteq disturbed' /\ InUse \subseteq disturbed'
        /\ \A c \in Calls : call'[c].at = None
    BY <1>4, HistoryGrows, IdleFacts DEF Crash
  <2>2. \A c \in Calls : Uses(call[c]) \subseteq disturbed'
    BY <2>1 DEF InUse
  <2>3. QED
    BY <2>1, <2>2, MovesAside, StepFacts DEF FirewallsStay, StaysAside
<1>5. CASE UNCHANGED vars
  BY <1>5, MovesAside DEF FirewallsStay, StaysAside, vars
<1>6. QED
  BY <1>1, <1>2, <1>3, <1>4, <1>5 DEF Next

LEMMA FirewallFollows ==
  NetworksInv /\ FirewallInv /\ ScopeInv => FirewallIsOfRules
<1> SUFFICES ASSUME NetworksInv, FirewallInv, ScopeInv,
                    NEW p \in Peerings, peer[p] = "active", Quiet(p)
             PROVE  IF table[p] = NoTable THEN rules[p] = {}
                    ELSE /\ table[p] = rules[p]
                         /\ \A i \in 1..2 :
                              \/ scope[p][i] = subnet[Ends[p][i]]
                              \/ /\ p \in outdated
                                 /\ scope[p][i] = NoDock \/ Ends[p][i] \in disturbed
  BY DEF FirewallIsOfRules
<1>1. Enforced(p)
  BY TablesFollow
<1>2. ScopeFits(p) /\ p \notin InUse
  BY ScopeFacts DEF Quiet, PeerRow
<1>3. \A c \in Calls : ~Applying(c, p)
  BY <1>2, BusyIsUsed DEF Applying
<1>4. table[p] # NoTable => Fitting(p, scope[p])
  BY <1>2, <1>3 DEF ScopeFits
<1>5. ASSUME table[p] # NoTable, NEW i \in 1..2
      PROVE  \/ scope[p][i] = subnet[Ends[p][i]]
             \/ p \in outdated /\ (scope[p][i] = NoDock \/ Ends[p][i] \in disturbed)
  <2>1. CASE i = 1
    BY <1>4, <1>5, <2>1 DEF Fitting, SubnetsOf
  <2>2. CASE i = 2
    BY <1>4, <1>5, <2>2 DEF Fitting, SubnetsOf
  <2>3. QED
    BY <2>1, <2>2
<1>6. QED
  BY <1>1, <1>5 DEF Enforced

(* However creating, deleting and attaching alternate with requests that   *)
(* add and remove rules, and whatever of these fails: where nothing is     *)
(* under way on an active peering, no calls overlapped and no step failed, *)
(* its firewall is that of its rules, for the subnets its networks have or *)
(* had when it was made.                                                   *)
THEOREM FirewallEnforced == Spec => []FirewallIsOfRules
<1>1. Init => NetworksInv /\ FirewallInv /\ ConnectionsInv /\ ScopeInv
  BY InitInv, InitFirewall, InitConnections, InitScope
<1>2. NetworksInv /\ FirewallInv /\ ConnectionsInv /\ ScopeInv /\ [Next]_vars
        => NetworksInv' /\ FirewallInv' /\ ConnectionsInv' /\ ScopeInv'
  BY NextInv, NextFirewall, NextConnections, NextScope
<1>3. QED
  BY <1>1, <1>2, FirewallFollows, PTL DEF Spec

-----------------------------------------------------------------------------
(* The bridge of a peering on which, and on whose networks, no calls       *)
(* overlapped and no step failed.  The request that makes it, its task,    *)
(* the one that deletes it and those about its networks exclude each       *)
(* other, but for attaching to or detaching from both networks at once.    *)

PairCall(c, p) == call[c].op \in {"peer", "unpeer"} /\ call[c].p = p

(* A request about one of its networks.                                    *)
Attends(c, p) == call[c].op \in NetCalls /\ call[c].n \in EndsOf(p)

Clean(p) == \A x \in {p} \cup EndsOf(p) : x \notin disturbed

(* A request about to remove a member, or to connect it to bridges.        *)
Removes(k, n, d) == Is(k, "detach", {"remove"}) /\ k.n = n /\ k.d = d
Syncs(k, n, d) == Is(k, "attach", {"sync"}) /\ k.n = n /\ k.d = d

(* A membership that no request is about to remove.                        *)
Stays(n, d) == d \in members[n] /\ \A c \in Calls : ~Removes(call[c], n, d)

Syncing(n, d) == \E c \in Calls : Syncs(call[c], n, d)

TakenDown(p) == \E c \in Calls : TakesDown(c, p) /\ <<p, FALSE>> \in call[c].list

(* Running on the server of the peering.                                   *)
Reachable(d, p) == db[d] = "running" /\ Host[d] = pserver[p]

(* A bridge that nobody takes down any more: the containers of removed     *)
(* databases keep Docker from removing it, and nobody else is on it.       *)
Abandoned(p) ==
  p \in bridges => HoldsBridge(p) /\ \A d : <<d, p>> \in bridged => db[d] = "orphan"

BridgedExist ==
  \A l \in bridged : HasContainer(l[1]) /\ l[2] \in bridges /\ Host[l[1]] = pserver[l[2]]

NoBridgeYet(p) == peer[p] = "unborn" => p \notin bridges /\ ~bridge[p]

NothingToDo(p) == task[p] \notin {"first", "second"} => todo[p] = {}

(* One at a time.                                                          *)
Exclusive(p) ==
  /\ \A c \in Calls, e \in Calls : PairCall(c, p) /\ PairCall(e, p) => c = e
  /\ \A c \in Calls : PairCall(c, p) => ~Working(p)
  /\ \A e \in Calls : Attends(e, p) =>
       ~Working(p) /\ \A c \in Calls : ~PairCall(c, p)
  /\ \A c \in Calls, e \in Calls :
       call[c].op = "drop" /\ Attends(c, p) /\ PeerRow(p)
       /\ Attends(e, p) => c = e

StatusOfBridge(p) ==
  /\ peer[p] = "pending" <=> Working(p)
  /\ peer[p] = "active" => bridge[p] /\ (p \in bridges \/ TakenDown(p))
  /\ peer[p] = "error" => ~bridge[p]
  /\ peer[p] \notin {"pending", "active"} => Abandoned(p)
  /\ task[p] = "spawned" => p \notin bridges
  /\ task[p] \in {"spawned", "made"} => ~bridge[p]
  /\ task[p] \in {"made", "saved", "first", "second"} => p \in bridges
  /\ task[p] \in {"saved", "first", "second"} => bridge[p]

(* What a deletion has still to do.                                        *)
Lists(c, p) ==
  /\ <<p, FALSE>> \in call[c].list => Abandoned(p) /\ call[c].at # "found"
  /\ call[c].at = "peerings" /\ PeerRow(p) => \E b \in BOOLEAN : <<p, b>> \in call[c].list
  /\ call[c].at \in {"undock", "row"} => ~PeerRow(p)

Listed(p) == \A c \in Calls : TakesDown(c, p) => Lists(c, p)

BridgedAreMembers(p) ==
  \A l \in bridged : l[2] = p =>
    db[l[1]] = "orphan" \/ \E n \in EndsOf(p) : Stays(n, l[1])

MembersAreBridged(p) ==
  peer[p] = "active" /\ ~TakenDown(p) =>
    \A n \in EndsOf(p), d \in Dbs :
      Stays(n, d) /\ ~Syncing(n, d) /\ Reachable(d, p) => <<d, p>> \in bridged

(* How far the task is with the members.                                   *)
TaskConnects(p) ==
  /\ \A d \in todo[p] : HasRow(d) => \E n \in EndsOf(p) : d \in members[n]
  /\ task[p] = "first" => \A d \in members[Ends[p][1]] \ todo[p] :
                            Reachable(d, p) => <<d, p>> \in bridged
  /\ task[p] = "second" => \A d \in members[Ends[p][1]] \cup (members[Ends[p][2]] \ todo[p]) :
                             Reachable(d, p) => <<d, p>> \in bridged

BridgeOK(p) ==
  /\ Exclusive(p) /\ StatusOfBridge(p) /\ Listed(p)
  /\ BridgedAreMembers(p) /\ MembersAreBridged(p) /\ TaskConnects(p)

BridgesInv ==
  /\ BridgedExist
  /\ \A p \in Peerings : NoBridgeYet(p) /\ NothingToDo(p)
  /\ \A p \in Peerings : Clean(p) => BridgeOK(p)

-----------------------------------------------------------------------------
(* What a step must do so that the invariant holds after it *)

LEMMA BridgeFacts ==
  ASSUME BridgesInv
  PROVE  /\ BridgedExist
         /\ \A p \in Peerings : NoBridgeYet(p) /\ NothingToDo(p)
         /\ \A p \in Peerings : Clean(p) => BridgeOK(p)
BY DEF BridgesInv

LEMMA CleanBefore ==
  ASSUME disturbed \subseteq disturbed', NEW p \in Peerings, Clean(p)'
  PROVE  /\ Clean(p) /\ p \notin disturbed' /\ p \notin disturbed
         /\ \A n \in EndsOf(p) : n \notin disturbed' /\ n \notin disturbed
BY DEF Clean, EndsOf

LEMMA BridgedFacts ==
  ASSUME NetworksInv, NEW l \in bridged
  PROVE  l = <<l[1], l[2]>> /\ l[1] \in Dbs /\ l[2] \in Peerings
BY InvParts DEF DockerTypes

(* Nothing of a peering and the members of its networks changes.           *)
BridgeStays(p) ==
  /\ peer'[p] = peer[p] /\ pserver'[p] = pserver[p] /\ bridge'[p] = bridge[p]
  /\ task'[p] = task[p] /\ todo'[p] = todo[p] /\ (p \in bridges' <=> p \in bridges)
  /\ \A n \in EndsOf(p) : members'[n] = members[n]
  /\ \A d : <<d, p>> \in bridged' <=> <<d, p>> \in bridged

(* A request is where it was, and has the same to do about the peering.    *)
Alike(c, p) ==
  /\ call'[c].op = call[c].op /\ call'[c].at = call[c].at /\ call'[c].n = call[c].n
  /\ call'[c].p = call[c].p /\ call'[c].d = call[c].d
  /\ \A b \in BOOLEAN : <<p, b>> \in call'[c].list <=> <<p, b>> \in call[c].list

Concerns(c, p) == PairCall(c, p) \/ Attends(c, p)

LEMMA ConcernFacts ==
  ASSUME NEW c \in Calls, NEW p \in Peerings
  PROVE  /\ TakesDown(c, p) => Concerns(c, p)
         /\ TakesDown(c, p)' => Concerns(c, p)'
         /\ \A n \in EndsOf(p) : \A d :
              /\ Removes(call[c], n, d) \/ Syncs(call[c], n, d) => Attends(c, p) /\ Concerns(c, p)
              /\ Removes(call'[c], n, d) \/ Syncs(call'[c], n, d) => Concerns(c, p)'
BY StepFacts DEF TakesDown, Concerns, PairCall, Attends, Removes, Syncs, Is, EndsOf

(* No request about the peering or its networks moves.                     *)
CallsSteady(p) == \A c \in Calls : Concerns(c, p) \/ Concerns(c, p)' => Alike(c, p)

LEMMA SteadyCalls ==
  ASSUME NEW p \in Peerings, CallsSteady(p)
  PROVE  \A c \in Calls :
           /\ PairCall(c, p)' <=> PairCall(c, p)
           /\ Attends(c, p)' <=> Attends(c, p)
           /\ TakesDown(c, p)' <=> TakesDown(c, p)
<1> SUFFICES ASSUME NEW c \in Calls
             PROVE  /\ PairCall(c, p)' <=> PairCall(c, p)
                    /\ Attends(c, p)' <=> Attends(c, p)
                    /\ TakesDown(c, p)' <=> TakesDown(c, p)
  OBVIOUS
<1>1. CASE Alike(c, p)
  BY <1>1 DEF Alike, PairCall, Attends, TakesDown, EndsOf
<1>2. CASE ~Concerns(c, p) /\ ~Concerns(c, p)'
  BY <1>2, ConcernFacts DEF Concerns
<1>3. QED
  BY <1>1, <1>2 DEF CallsSteady

LEMMA SteadyMembers ==
  ASSUME NEW p \in Peerings, CallsSteady(p), NEW n \in EndsOf(p), NEW d,
         d \in members'[n] <=> d \in members[n]
  PROVE  /\ Stays(n, d)' <=> Stays(n, d)
         /\ Syncing(n, d)' <=> Syncing(n, d)
<1>1. ASSUME NEW c \in Calls
      PROVE  /\ Removes(call'[c], n, d) <=> Removes(call[c], n, d)
             /\ Syncs(call'[c], n, d) <=> Syncs(call[c], n, d)
  <2>1. CASE Alike(c, p)
    BY <2>1 DEF Alike, Removes, Syncs, Is
  <2>2. CASE ~Concerns(c, p) /\ ~Concerns(c, p)'
    BY <2>2, ConcernFacts
  <2>3. QED
    BY <2>1, <2>2 DEF CallsSteady
<1>2. QED
  BY <1>1 DEF Stays, Syncing

LEMMA SteadyTakenDown ==
  ASSUME NEW p \in Peerings, CallsSteady(p)
  PROVE  TakenDown(p)' <=> TakenDown(p)
<1>1. ASSUME NEW c \in Calls
      PROVE  /\ TakesDown(c, p)' <=> TakesDown(c, p)
             /\ TakesDown(c, p) => Alike(c, p)
  BY SteadyCalls, ConcernFacts DEF CallsSteady
<1>2. QED
  BY <1>1 DEF TakenDown, Alike

LEMMA ExclusiveKept ==
  ASSUME NEW p \in Peerings, Exclusive(p), Working(p)' => Working(p), PeerRow(p)' => PeerRow(p),
         \A c \in Calls : /\ PairCall(c, p)' => PairCall(c, p)
                          /\ Attends(c, p)' => Attends(c, p)
                          /\ Attends(c, p)' /\ call'[c].op = "drop" => call[c].op = "drop"
  PROVE  Exclusive(p)'
BY DEF Exclusive

LEMMA AbandonedKept ==
  ASSUME NEW p \in Peerings, Abandoned(p), p \in bridges' => p \in bridges,
         \A d : <<d, p>> \in bridged' => <<d, p>> \in bridged,
         \A d : db[d] = "orphan" =>
           db'[d] = "orphan" /\ (<<d, p>> \in bridged => <<d, p>> \in bridged')
  PROVE  Abandoned(p)'
BY DEF Abandoned, HoldsBridge

LEMMA SameAbandoned ==
  ASSUME NEW p \in Peerings, db' = db, p \in bridges' <=> p \in bridges,
         \A d : <<d, p>> \in bridged' <=> <<d, p>> \in bridged
  PROVE  Abandoned(p)' <=> Abandoned(p)
BY DEF Abandoned, HoldsBridge

LEMMA NoBridge ==
  ASSUME NEW p \in Peerings, p \notin bridges
  PROVE  Abandoned(p)
BY DEF Abandoned

LEMMA StatusKept ==
  ASSUME NEW p \in Peerings, StatusOfBridge(p), peer'[p] = peer[p], bridge'[p] = bridge[p],
         task'[p] = task[p], p \in bridges' <=> p \in bridges,
         peer[p] # "active" /\ Abandoned(p) => Abandoned(p)',
         peer[p] = "active" /\ TakenDown(p) => TakenDown(p)'
  PROVE  StatusOfBridge(p)'
BY DEF StatusOfBridge, Working

LEMMA ListedKept ==
  ASSUME NEW p \in Peerings, Listed(p), PeerRow(p)' => PeerRow(p),
         (\E c \in Calls : TakesDown(c, p)') /\ Abandoned(p) => Abandoned(p)',
         \A c \in Calls : TakesDown(c, p)' => (TakesDown(c, p) /\ Alike(c, p)) \/ Lists(c, p)'
  PROVE  Listed(p)'
<1>1. ASSUME NEW c \in Calls, TakesDown(c, p)', Alike(c, p), Lists(c, p)
      PROVE  Lists(c, p)'
  <2>1. Abandoned(p) => Abandoned(p)'
    BY <1>1
  <2>2. QED
    BY <1>1, <2>1 DEF Lists, Alike
<1>2. QED
  BY <1>1 DEF Listed

LEMMA BridgedKept ==
  ASSUME NetworksInv', NEW p \in Peerings, BridgedAreMembers(p),
         \A d : <<d, p>> \in bridged' => <<d, p>> \in bridged,
         \A d : db[d] = "orphan" => db'[d] = "orphan",
         \A n \in EndsOf(p) : \A d : Stays(n, d) /\ <<d, p>> \in bridged' =>
           Stays(n, d)' \/ db[d] = "orphan"
  PROVE  BridgedAreMembers(p)'
<1>1. ASSUME NEW l \in bridged', l[2] = p
      PROVE  db'[l[1]] = "orphan" \/ \E n \in EndsOf(p) : Stays(n, l[1])'
  <2>1. bridged' \subseteq Dbs \X Peerings
    BY DEF NetworksInv, TypeOK
  <2>2. l = <<l[1], p>>
    BY <1>1, <2>1
  <2>3. PICK d : d = l[1]
    OBVIOUS
  <2>4. <<d, p>> \in bridged' /\ <<d, p>> \in bridged
    BY <1>1, <2>2, <2>3
  <2>5. db[d] = "orphan" \/ \E n \in EndsOf(p) : Stays(n, d)
    <3>1. PICK m \in bridged : m = <<d, p>>
      BY <2>4
    <3>2. m[1] = d /\ m[2] = p
      BY <3>1
    <3>3. QED
      BY <3>2 DEF BridgedAreMembers
  <2>6. QED
    BY <2>3, <2>4, <2>5
<1>2. QED
  BY <1>1 DEF BridgedAreMembers, EndsOf

LEMMA MembersKept ==
  ASSUME NEW p \in Peerings, MembersAreBridged(p), peer'[p] = peer[p], pserver'[p] = pserver[p],
         db' = db, peer[p] = "active" /\ TakenDown(p) => TakenDown(p)',
         \A d : <<d, p>> \in bridged => <<d, p>> \in bridged',
         \A n \in EndsOf(p) : \A d : /\ Stays(n, d)' => Stays(n, d)
                                     /\ Syncing(n, d) => Syncing(n, d)'
  PROVE  MembersAreBridged(p)'
BY DEF MembersAreBridged, Reachable, EndsOf

LEMMA TaskKept ==
  ASSUME NEW p \in Peerings, TaskConnects(p), db' = db, pserver'[p] = pserver[p],
         task'[p] = task[p], todo'[p] = todo[p],
         \A n \in EndsOf(p) : members'[n] = members[n],
         \A d : <<d, p>> \in bridged => <<d, p>> \in bridged'
  PROVE  TaskConnects(p)'
<1>1. members'[Ends[p][1]] = members[Ends[p][1]] /\ members'[Ends[p][2]] = members[Ends[p][2]]
  BY DEF EndsOf
<1>2. QED
  BY <1>1 DEF TaskConnects, Reachable, HasRow, EndsOf

(* Nothing about the peering happens.                                      *)
LEMMA BridgeKept ==
  ASSUME NetworksInv', NEW p \in Peerings, BridgeOK(p), BridgeStays(p), db' = db, CallsSteady(p)
  PROVE  BridgeOK(p)'
<1> USE DEF BridgeOK, BridgeStays
<1>1. Exclusive(p)'
  <2>1. \A c \in Calls : Attends(c, p) => Concerns(c, p)
    BY DEF Concerns
  <2>2. QED
    BY <2>1, SteadyCalls, ExclusiveKept DEF Working, PeerRow, CallsSteady, Alike
<1> USE SameAbandoned
<1>2. StatusOfBridge(p)'
  BY SteadyTakenDown, StatusKept
<1>3. Listed(p)'
  BY SteadyCalls, ConcernFacts, ListedKept DEF PeerRow, CallsSteady
<1>4. \A n \in EndsOf(p) : \A d : /\ Stays(n, d)' <=> Stays(n, d)
                                  /\ Syncing(n, d)' <=> Syncing(n, d)
  BY SteadyMembers
<1>5. BridgedAreMembers(p)'
  BY <1>4, BridgedKept
<1>6. MembersAreBridged(p)'
  BY <1>4, SteadyTakenDown, MembersKept
<1>7. TaskConnects(p)'
  BY TaskKept
<1>8. QED
  BY <1>1, <1>2, <1>3, <1>5, <1>6, <1>7

(* Whoever works on a peering or a network uses it.                        *)
LEMMA NobodyConcerned ==
  ASSUME NetworksInv, NEW p \in Peerings, \A x \in {p} \cup EndsOf(p) : x \notin InUse
  PROVE  ~Working(p) /\ \A c \in Calls : ~Concerns(c, p)
<1>1. \A c \in Calls : ~Attends(c, p)
  BY NetCallFacts DEF Attends
<1>2. \A c \in Calls : PairCall(c, p) => p \in Uses(call[c])
  BY DEF PairCall, Uses
<1>3. \A c \in Calls : ~PairCall(c, p)
  BY <1>2 DEF InUse
<1>4. ~Working(p)
  <2>1. Working(p) => p \in TaskUses(p)
    BY DEF TaskUses
  <2>2. QED
    BY <2>1 DEF InUse
<1>5. QED
  BY <1>1, <1>3, <1>4 DEF Concerns

(* A request goes on, which leaves what the invariant says of a peering.   *)
Harmless(c, p) ==
  /\ TakesDown(c, p)' => Lists(c, p)'
  /\ peer[p] = "active" /\ TakesDown(c, p) /\ <<p, FALSE>> \in call[c].list =>
       TakesDown(c, p)' /\ <<p, FALSE>> \in call'[c].list
  /\ \A n \in EndsOf(p) : \A d :
       /\ Removes(call'[c], n, d) =>
            \/ Removes(call[c], n, d) \/ db[d] = "orphan"
            \/ <<d, p>> \notin bridged \/ d \notin members[n]
       /\ Removes(call[c], n, d) => Removes(call'[c], n, d)
       /\ Syncs(call[c], n, d) => Syncs(call'[c], n, d)

OthersStay(c) == \A e \in Calls : e # c => call'[e] = call[e]

LEMMA CallMoves ==
  ASSUME NetworksInv', NEW p \in Peerings, BridgeOK(p), BridgeStays(p), db' = db,
         NEW c \in Calls, OthersStay(c), Exclusive(p)', Harmless(c, p)
  PROVE  BridgeOK(p)'
<1> USE DEF BridgeOK, BridgeStays, OthersStay
<1> USE SameAbandoned
<1>1. peer[p] = "active" /\ TakenDown(p) => TakenDown(p)'
  BY DEF TakenDown, TakesDown, Harmless
<1>2. StatusOfBridge(p)'
  BY <1>1, StatusKept
<1>3. Listed(p)'
  <2>1. \A e \in Calls : e # c => (TakesDown(e, p)' <=> TakesDown(e, p)) /\ Alike(e, p)
    BY DEF TakesDown, Alike
  <2>2. QED
    BY <2>1, ListedKept DEF PeerRow, Harmless
<1>4. \A n \in EndsOf(p) : \A d : /\ Stays(n, d)' => Stays(n, d)
                                  /\ Syncing(n, d) => Syncing(n, d)'
  BY DEF Stays, Syncing, Harmless
<1>5. \A n \in EndsOf(p) : \A d : Stays(n, d) /\ <<d, p>> \in bridged =>
        Stays(n, d)' \/ db[d] = "orphan"
  BY DEF Stays, Harmless
<1>6. BridgedAreMembers(p)'
  BY <1>5, BridgedKept
<1>7. MembersAreBridged(p)'
  BY <1>1, <1>4, MembersKept
<1>8. TaskConnects(p)'
  BY TaskKept
<1>9. QED
  BY <1>2, <1>3, <1>6, <1>7, <1>8

(* It goes on, or ends.                                                    *)
Continues(c) ==
  \/ call'[c].op = None
  \/ call'[c].op = call[c].op /\ call'[c].n = call[c].n /\ call'[c].p = call[c].p

LEMMA ContinuesAlone ==
  ASSUME NEW p \in Peerings, Exclusive(p), Working(p)' => Working(p), PeerRow(p)' => PeerRow(p),
         NEW c \in Calls, OthersStay(c), Continues(c)
  PROVE  Exclusive(p)'
<1>1. \A e \in Calls : /\ PairCall(e, p)' => PairCall(e, p)
                       /\ Attends(e, p)' => Attends(e, p)
                       /\ Attends(e, p)' /\ call'[e].op = "drop" => call[e].op = "drop"
  BY StepFacts DEF PairCall, Attends, OthersStay, Continues
<1>2. QED
  BY <1>1, ExclusiveKept

(* What is about a peering outside of the requests stays as it is.         *)
BridgesStay == UNCHANGED <<db, members, peer, pserver, bridge, bridges, bridged, tasks>>

LEMMA BridgesRest ==
  ASSUME BridgesInv, BridgesStay
  PROVE  /\ BridgedExist' /\ \A p \in Peerings : NoBridgeYet(p)' /\ NothingToDo(p)'
         /\ \A p \in Peerings : BridgeStays(p)
<1> USE BridgeFacts DEF BridgesStay
<1>1. BridgedExist'
  BY DEF BridgedExist, HasContainer
<1>2. \A p \in Peerings : NoBridgeYet(p)' /\ NothingToDo(p)'
  BY DEF NoBridgeYet, NothingToDo, tasks
<1>3. \A p \in Peerings : BridgeStays(p)
  BY DEF BridgeStays, tasks
<1>4. QED
  BY <1>1, <1>2, <1>3

(* Only a request moves.                                                   *)
LEMMA OnlyCallMoves ==
  ASSUME NetworksInv', BridgesInv, BridgesStay, disturbed \subseteq disturbed',
         NEW c \in Calls, OthersStay(c),
         \A p \in Peerings : Clean(p)' /\ Clean(p) /\ BridgeOK(p) =>
           (~Concerns(c, p) /\ ~Concerns(c, p)') \/ (Exclusive(p)' /\ Harmless(c, p))
  PROVE  BridgesInv'
<1>1. ASSUME NEW p \in Peerings, Clean(p)'
      PROVE  BridgeOK(p)'
  <2>1. Clean(p) /\ BridgeOK(p)
    BY <1>1, CleanBefore, BridgeFacts
  <2>2. BridgeStays(p) /\ db' = db
    BY BridgesRest DEF BridgesStay
  <2>3. CASE Exclusive(p)' /\ Harmless(c, p)
    BY <2>1, <2>2, <2>3, CallMoves
  <2>4. CASE ~Concerns(c, p) /\ ~Concerns(c, p)'
    <3>1. CallsSteady(p)
      BY <2>4 DEF CallsSteady, OthersStay, Alike
    <3>2. QED
      BY <2>1, <2>2, <3>1, BridgeKept
  <2>5. QED
    BY <1>1, <2>1, <2>3, <2>4
<1>2. QED
  BY <1>1, BridgesRest DEF BridgesInv

LEMMA ContinuesInv ==
  ASSUME NetworksInv', BridgesInv, BridgesStay, disturbed \subseteq disturbed',
         NEW c \in Calls, OthersStay(c), Continues(c),
         \A p \in Peerings : Clean(p)' /\ BridgeOK(p) /\ Concerns(c, p) => Harmless(c, p)
  PROVE  BridgesInv'
<1>1. ASSUME NEW p \in Peerings, Clean(p)', BridgeOK(p), Concerns(c, p) \/ Concerns(c, p)'
      PROVE  Exclusive(p)' /\ Harmless(c, p)
  <2>1. Concerns(c, p)
    BY <1>1, StepFacts DEF Concerns, PairCall, Attends, Continues
  <2>2. Exclusive(p)'
    BY <1>1, ContinuesAlone DEF BridgeOK, BridgesStay, Working, PeerRow, tasks
  <2>3. QED
    BY <1>1, <2>1, <2>2
<1>2. QED
  BY <1>1, OnlyCallMoves

-----------------------------------------------------------------------------
(* Requests begin *)

(* A request does not begin beside another one at work on the same.        *)
LEMMA StartsAlone ==
  ASSUME NetworksInv, NEW p \in Peerings, Exclusive(p), Clean(p)',
         UNCHANGED <<peer, tasks>>, NEW c \in Calls, NEW k, Start(c, k)
  PROVE  Exclusive(p)'
<1>1. /\ OthersStay(c) /\ call'[c] = k /\ call[c].op = None
      /\ \A x \in Uses(k) \cap InUse : x \in disturbed'
  BY InvParts, StartFields DEF OthersStay
<1>2. \A x \in {p} \cup EndsOf(p) : x \in Uses(k) => x \notin InUse
  BY <1>1 DEF Clean, EndsOf
<1>3. (PeerRow(p)' <=> PeerRow(p)) /\ (Working(p)' <=> Working(p))
  BY DEF PeerRow, Working, tasks
<1>4. \A e \in Calls : e # c => /\ PairCall(e, p)' <=> PairCall(e, p)
                                /\ Attends(e, p)' <=> Attends(e, p)
  BY <1>1 DEF PairCall, Attends, OthersStay
<1>5. CASE \A x \in {p} \cup EndsOf(p) : x \in Uses(k)
  <2>1. ~Working(p) /\ \A e \in Calls : ~PairCall(e, p) /\ ~Attends(e, p)
    BY <1>2, <1>5, NobodyConcerned DEF Concerns
  <2>2. ~PairCall(c, p)' \/ ~Attends(c, p)'
    BY StepFacts DEF PairCall, Attends
  <2>3. QED
    BY <1>3, <1>4, <2>1, <2>2 DEF Exclusive
<1>6. CASE ~PairCall(c, p)' /\ ~Attends(c, p)'
  BY <1>1, <1>3, <1>4, <1>6, ExclusiveKept DEF OthersStay
<1>7. CASE PairCall(c, p)'
  <2>1. k.op \in {"peer", "unpeer"} /\ k.p = p
    BY <1>1, <1>7 DEF PairCall
  <2>2. Uses(k) = {p} \cup EndsOf(p)
    BY <2>1 DEF Uses
  <2>3. QED
    BY <1>5, <2>2
<1>8. CASE Attends(c, p)' /\ PeerRow(p) /\ k.op = "drop"
  <2>1. k.n \in EndsOf(p)
    BY <1>1, <1>8 DEF Attends, EndsOf
  <2>2. p \in PeeringsOf(k.n)
    BY <1>8, <2>1 DEF PeeringsOf
  <2>3. {p} \cup EndsOf(p) \subseteq Uses(k)
    BY <1>8, <2>2 DEF Uses
  <2>4. QED
    BY <1>5, <2>3
<1>9. CASE Attends(c, p)' /\ ~(PeerRow(p) /\ k.op = "drop")
  <2>1. k.n \in EndsOf(p) /\ k.op \in NetCalls
    BY <1>1, <1>9 DEF Attends, EndsOf
  <2>2. k.n \in Uses(k) /\ k.n \notin InUse
    <3>1. k.n \in Uses(k)
      BY <2>1, StepFacts DEF Uses
    <3>2. QED
      BY <1>2, <2>1, <3>1
  <2>3. ~Working(p)
    BY <2>1, <2>2 DEF InUse, TaskUses
  <2>4. \A e \in Calls : ~PairCall(e, p)
    <3>1. \A e \in Calls : PairCall(e, p) => EndsOf(p) \subseteq Uses(call[e])
      BY DEF PairCall, Uses
    <3>2. QED
      BY <2>1, <2>2, <3>1 DEF InUse
  <2>5. \A e \in Calls : PeerRow(p) /\ Attends(e, p) => call[e].op # "drop"
    <3>1. ASSUME NEW e \in Calls, PeerRow(p), Attends(e, p), call[e].op = "drop"
          PROVE  EndsOf(p) \subseteq Uses(call[e])
      <4>1. p \in PeeringsOf(call[e].n)
        BY <3>1 DEF Attends, PeeringsOf
      <4>2. QED
        BY <3>1, <4>1 DEF Uses
    <3>2. QED
      BY <2>1, <2>2, <3>1 DEF InUse
  <2>6. ~PairCall(c, p)'
    BY <1>1, <2>1, StepFacts DEF PairCall
  <2>7. \A e \in Calls : Attends(e, p)' /\ PeerRow(p) => call'[e].op # "drop"
    BY <1>1, <1>4, <1>9, <2>5 DEF OthersStay
  <2>8. QED
    BY <1>3, <1>4, <1>9, <2>3, <2>4, <2>6, <2>7, <1>1 DEF Exclusive
<1>10. QED
  BY <1>5, <1>6, <1>7, <1>8, <1>9

LEMMA StartBridges ==
  ASSUME NetworksInv, NetworksInv', BridgesInv, BridgesStay, NEW c \in Calls, NEW k,
         Start(c, k), k.at \notin {"remove", "sync"},
         \A p \in Peerings : Clean(p)' /\ BridgeOK(p) /\ TakesDown(c, p)' => Lists(c, p)'
  PROVE  BridgesInv'
<1>1. OthersStay(c) /\ call'[c] = k /\ call[c].op = None /\ disturbed \subseteq disturbed'
  BY InvParts, StartFields DEF OthersStay
<1>2. ASSUME NEW p \in Peerings, Clean(p)', BridgeOK(p)
      PROVE  Exclusive(p)' /\ Harmless(c, p)
  <2>1. Exclusive(p)'
    BY <1>2, StartsAlone DEF BridgeOK, BridgesStay
  <2>2. Harmless(c, p)
    BY <1>1, <1>2, StepFacts DEF Harmless, TakesDown, Removes, Syncs, Is
  <2>3. QED
    BY <2>1, <2>2
<1>3. QED
  BY <1>1, <1>2, OnlyCallMoves

LEMMA CountBridges ==
  ASSUME NetworksInv, NetworksInv', BridgesInv, NEW c \in Calls, NEW n \in Nets,
         CountNetworks(c, n)
  PROVE  BridgesInv'
<1>1. PICK k : k = [Idle EXCEPT !.op = "create", !.at = "insert", !.n = n]
  OBVIOUS
<1>2. Start(c, k) /\ k.op = "create" /\ k.at = "insert"
  BY <1>1 DEF CountNetworks, Idle
<1>3. call'[c] = k /\ BridgesStay
  BY <1>2, InvParts, StartFields DEF CountNetworks, BridgesStay, netRows, peerRows, dockerPeer
<1>4. \A p \in Peerings : ~TakesDown(c, p)'
  BY <1>2, <1>3 DEF TakesDown
<1>5. QED
  BY <1>2, <1>3, <1>4, StartBridges

LEMMA FindNetworkBridges ==
  ASSUME NetworksInv, NetworksInv', BridgesInv, NEW c \in Calls, NEW o \in NetCalls,
         NEW n \in Nets, NEW d, FindNetwork(c, o, n, d)
  PROVE  BridgesInv'
<1>1. PICK k : k = [Idle EXCEPT !.op = o, !.at = "found", !.n = n, !.d = d,
                                !.host = server[n], !.dock = dock[n]]
  OBVIOUS
<1>2. Start(c, k) /\ k.op = o /\ k.at = "found" /\ k.list = {}
  BY <1>1 DEF FindNetwork, Idle
<1>3. call'[c] = k /\ BridgesStay
  BY <1>2, InvParts, StartFields DEF FindNetwork, BridgesStay, netRows, peerRows, dockerPeer
<1>4. \A p \in Peerings : Lists(c, p)'
  BY <1>2, <1>3 DEF Lists
<1>5. QED
  BY <1>2, <1>3, <1>4, StartBridges

LEMMA FindPairBridges ==
  ASSUME NetworksInv, NetworksInv', BridgesInv, NEW c \in Calls, NEW p \in Peerings,
         FindPair(c, p)
  PROVE  BridgesInv'
<1>1. PICK h : h = IF server[Ends[p][1]] = Local THEN server[Ends[p][2]] ELSE server[Ends[p][1]]
  OBVIOUS
<1>2. PICK k : k = [Idle EXCEPT !.op = "peer", !.at = "insert", !.p = p, !.host = h]
  OBVIOUS
<1>3. Start(c, k) /\ k.op = "peer" /\ k.at = "insert"
  BY <1>1, <1>2 DEF FindPair, Idle
<1>4. call'[c] = k /\ BridgesStay
  BY <1>3, InvParts, StartFields DEF FindPair, BridgesStay, netRows, peerRows, dockerPeer
<1>5. \A q \in Peerings : ~TakesDown(c, q)'
  BY <1>3, <1>4 DEF TakesDown
<1>6. QED
  BY <1>3, <1>4, <1>5, StartBridges

(* A peering that is found has a bridge or the status error.               *)
LEMMA SavedBridge ==
  ASSUME NEW p \in Peerings, StatusOfBridge(p), ~Working(p), PeerRow(p), ~bridge[p]
  PROVE  Abandoned(p)
BY DEF StatusOfBridge, PeerRow

LEMMA FindPeeringBridges ==
  ASSUME NetworksInv, NetworksInv', BridgesInv, NEW c \in Calls, NEW o \in PeerCalls,
         NEW p \in Peerings, NEW r, FindPeering(c, o, p, r)
  PROVE  BridgesInv'
<1>1. PICK k : k = [Idle EXCEPT !.op = o, !.p = p, !.r = r,
                      !.at = IF o = "unpeer" THEN "peerings" ELSE "insert",
                      !.active = (peer[p] = "active"),
                      !.list = IF o = "unpeer" THEN {<<p, bridge[p]>>} ELSE {}]
  OBVIOUS
<1>2. /\ Start(c, k) /\ k.op = o /\ k.p = p
      /\ k.at = IF o = "unpeer" THEN "peerings" ELSE "insert"
      /\ o = "unpeer" => k.list = {<<p, bridge[p]>>}
  BY <1>1 DEF FindPeering, Idle
<1>3. /\ call'[c] = k /\ BridgesStay /\ PeerRow(p) /\ bridge[p] \in BOOLEAN
      /\ \A x \in Uses(k) \cap InUse : x \in disturbed'
  BY <1>2, InvParts, StartFields
  DEF FindPeering, BridgesStay, netRows, peerRows, dockerPeer, PeerTypes
<1>4. ASSUME NEW q \in Peerings, Clean(q)', BridgeOK(q), TakesDown(c, q)'
      PROVE  Lists(c, q)'
  <2>1. o = "unpeer" /\ q = p
    BY <1>2, <1>3, <1>4, StepFacts DEF TakesDown
  <2>2. Uses(k) = {p} \cup EndsOf(p)
    BY <1>2, <2>1 DEF Uses
  <2>3. \A x \in {p} \cup EndsOf(p) : x \notin InUse
    BY <1>3, <1>4, <2>1, <2>2 DEF Clean, EndsOf
  <2>4. ~Working(p)
    BY <2>3, NobodyConcerned
  <2>5. ~bridge[p] => Abandoned(p)'
    BY <1>3, <1>4, <2>1, <2>4, SavedBridge, SameAbandoned DEF BridgeOK, BridgesStay
  <2>6. k.at = "peerings" /\ k.list = {<<p, bridge[p]>>}
    BY <1>2, <2>1
  <2>7. <<p, FALSE>> \in k.list => ~bridge[p]
    BY <2>6
  <2>8. <<p, bridge[p]>> \in k.list
    BY <2>6
  <2>9. QED
    BY <1>3, <2>1, <2>5, <2>6, <2>7, <2>8 DEF Lists, BridgesStay
<1>5. k.at \notin {"remove", "sync"}
  BY <1>2
<1>6. QED
  BY <1>2, <1>3, <1>4, <1>5, StartBridges

-----------------------------------------------------------------------------
(* Requests that go on, without anything happening to bridges and members  *)

(* Neither a deletion nor a request about to change a membership.          *)
LEMMA HarmlessMove ==
  ASSUME NEW p \in Peerings, NEW c \in Calls, ~TakesDown(c, p), ~TakesDown(c, p)',
         ~Is(call[c], "detach", {"remove"}), ~Is(call[c], "attach", {"sync"}),
         ~Is(call'[c], "detach", {"remove"})
  PROVE  Harmless(c, p)
BY DEF Harmless, Removes, Syncs

LEMMA InsertNetworkBridges ==
  ASSUME NetworksInv, NetworksInv', BridgesInv, NEW c \in Calls, InsertNetwork(c)
  PROVE  BridgesInv'
<1>1. call[c].op = "create"
  BY DEF InsertNetwork, At
<1>2. OthersStay(c) /\ call'[c].op = None /\ disturbed \subseteq disturbed'
  BY InvParts, FinishFields, HistoryGrows DEF InsertNetwork, OthersStay
<1>3. BridgesStay
  BY DEF InsertNetwork, BridgesStay, peerRows, dockerPeer
<1>4. \A p \in Peerings : ~Concerns(c, p) /\ ~Concerns(c, p)'
  BY <1>1, <1>2, StepFacts DEF Concerns, PairCall, Attends
<1>5. QED
  BY <1>2, <1>3, <1>4, OnlyCallMoves

(* A request that fails disturbs the peerings it concerns.                 *)
LEMMA ConcernIsUse ==
  ASSUME NetworksInv, NEW c \in Calls, NEW p \in Peerings, Concerns(c, p)
  PROVE  \E x \in {p} \cup EndsOf(p) : x \in Uses(call[c])
<1>1. CASE PairCall(c, p)
  BY <1>1 DEF PairCall, Uses
<1>2. CASE Attends(c, p)
  BY <1>2, NetCallFacts DEF Attends
<1>3. QED
  BY <1>1, <1>2 DEF Concerns

LEMMA FailsBridges ==
  ASSUME NetworksInv, NetworksInv', BridgesInv, NEW c \in Calls, CallFails(c)
  PROVE  BridgesInv'
<1>1. OthersStay(c) /\ call'[c].op = None
  BY InvParts, FinishFields DEF CallFails, OthersStay
<1>2. disturbed \subseteq disturbed' /\ Uses(call[c]) \subseteq disturbed'
  BY HistoryGrows DEF CallFails
<1>3. BridgesStay
  BY DEF CallFails, BridgesStay, netRows, peerRows, dockerPeer
<1>4. ASSUME NEW p \in Peerings, Clean(p)'
      PROVE  ~Concerns(c, p) /\ ~Concerns(c, p)'
  <2>1. ~Concerns(c, p)
    BY <1>2, <1>4, ConcernIsUse DEF Clean, EndsOf
  <2>2. ~Concerns(c, p)'
    BY <1>1, StepFacts DEF Concerns, PairCall, Attends
  <2>3. QED
    BY <2>1, <2>2
<1>5. QED
  BY <1>1, <1>2, <1>3, <1>4, OnlyCallMoves

(* attach_database, until the member is added.                             *)
LEMMA AttachMoves ==
  ASSUME NetworksInv, NetworksInv', BridgesInv, NEW c \in Calls, NEW k, NEW m,
         k = call[c], m = call'[c], k.op = "attach", k.at # "sync", OthersStay(c),
         m = Idle \/ (m.op = k.op /\ m.n = k.n /\ m.p = k.p),
         BridgesStay, disturbed \subseteq disturbed'
  PROVE  BridgesInv'
<1>1. Continues(c) /\ m.op \in {None, "attach"}
  BY IdleFacts DEF Continues
<1>2. \A p \in Peerings : Harmless(c, p)
  BY <1>1, HarmlessMove, StepFacts DEF TakesDown, Is
<1>3. QED
  BY <1>1, <1>2, ContinuesInv

LEMMA GotoMore ==
  ASSUME CallsOK, NEW c \in Calls, NEW s, Goto(c, s)
  PROVE  /\ OthersStay(c) /\ call'[c].op = call[c].op /\ call'[c].at = s
         /\ call'[c].n = call[c].n /\ call'[c].p = call[c].p /\ call'[c].d = call[c].d
         /\ call'[c].host = call[c].host /\ call'[c].list = call[c].list
BY DEF Goto, CallsOK, CallType, OthersStay

LEMMA FinishMore ==
  ASSUME CallsOK, NEW c \in Calls, Finish(c)
  PROVE  OthersStay(c) /\ call'[c] = Idle
BY DEF Finish, CallsOK, OthersStay

LEMMA CheckBridges ==
  ASSUME NetworksInv, NetworksInv', BridgesInv, NEW c \in Calls, CheckDatabase(c)
  PROVE  BridgesInv'
<1>1. PICK k, m : k = call[c] /\ m = call'[c]
  OBVIOUS
<1>2. k.op = "attach" /\ k.at = "found" /\ CallsOK
  BY <1>1, InvParts DEF CheckDatabase, At
<1>3. OthersStay(c) /\ (m = Idle \/ (m.op = k.op /\ m.n = k.n /\ m.p = k.p))
  BY <1>1, <1>2, GotoMore, FinishMore DEF CheckDatabase
<1>4. BridgesStay /\ disturbed \subseteq disturbed'
  BY HistoryGrows DEF CheckDatabase, BridgesStay, netRows, peerRows, dockerPeer
<1>5. QED
  BY <1>1, <1>2, <1>3, <1>4, AttachMoves

LEMMA SetServerBridges ==
  ASSUME NetworksInv, NetworksInv', BridgesInv, NEW c \in Calls, SetServer(c)
  PROVE  BridgesInv'
<1>1. PICK k, m : k = call[c] /\ m = call'[c]
  OBVIOUS
<1>2. k.op = "attach" /\ k.at = "serve" /\ CallsOK
  BY <1>1, InvParts DEF SetServer, At
<1>3. OthersStay(c) /\ m.op = k.op /\ m.n = k.n /\ m.p = k.p
  BY <1>1, <1>2 DEF SetServer, OthersStay, CallsOK, CallType
<1>4. BridgesStay /\ disturbed \subseteq disturbed'
  BY DEF SetServer, BridgesStay, peerRows, dockerPeer
<1>5. QED
  BY <1>1, <1>2, <1>3, <1>4, AttachMoves

LEMMA MakeDockBridges ==
  ASSUME NetworksInv, NetworksInv', BridgesInv, NEW c \in Calls, MakeDock(c)
  PROVE  BridgesInv'
<1>1. PICK k, m : k = call[c] /\ m = call'[c]
  OBVIOUS
<1>2. k.op = "attach" /\ k.at = "dock" /\ CallsOK
  BY <1>1, InvParts DEF MakeDock, At
<1>3. OthersStay(c) /\ m.op = k.op /\ m.n = k.n /\ m.p = k.p
  <2>1. CASE Goto(c, "join")
    BY <1>1, <1>2, <2>1, GotoMore
  <2>2. CASE \E i : call' = [call EXCEPT ![c].at = "save", ![c].dock = i]
    BY <1>1, <1>2, <2>2 DEF OthersStay, CallsOK, CallType
  <2>3. QED
    BY <2>1, <2>2 DEF MakeDock
<1>4. BridgesStay /\ disturbed \subseteq disturbed'
  BY HistoryGrows DEF MakeDock, BridgesStay, netRows, peerRows, dockerPeer
<1>5. QED
  BY <1>1, <1>2, <1>3, <1>4, AttachMoves

LEMMA SaveDockBridges ==
  ASSUME NetworksInv, NetworksInv', BridgesInv, NEW c \in Calls, SaveDock(c)
  PROVE  BridgesInv'
<1>1. PICK k, m : k = call[c] /\ m = call'[c]
  OBVIOUS
<1>2. k.op = "attach" /\ k.at = "save" /\ CallsOK
  BY <1>1, InvParts DEF SaveDock, At
<1>3. OthersStay(c) /\ m.op = k.op /\ m.n = k.n /\ m.p = k.p
  BY <1>1, <1>2, GotoMore DEF SaveDock
<1>4. BridgesStay /\ disturbed \subseteq disturbed'
  BY HistoryGrows DEF SaveDock, BridgesStay, peerRows, dockerPeer
<1>5. QED
  BY <1>1, <1>2, <1>3, <1>4, AttachMoves

LEMMA SaveSubnetBridges ==
  ASSUME NetworksInv, NetworksInv', BridgesInv, NEW c \in Calls, SaveSubnet(c)
  PROVE  BridgesInv'
<1>1. PICK k, m : k = call[c] /\ m = call'[c]
  OBVIOUS
<1>2. k.op = "attach" /\ k.at = "subnet" /\ CallsOK
  BY <1>1, InvParts DEF SaveSubnet, At
<1>3. OthersStay(c) /\ m.op = k.op /\ m.n = k.n /\ m.p = k.p
  BY <1>1, <1>2, GotoMore DEF SaveSubnet
<1>4. BridgesStay /\ disturbed \subseteq disturbed'
  BY HistoryGrows DEF SaveSubnet, BridgesStay, peerRows
<1>5. QED
  BY <1>1, <1>2, <1>3, <1>4, AttachMoves

LEMMA JoinBridges ==
  ASSUME NetworksInv, NetworksInv', BridgesInv, NEW c \in Calls, Join(c)
  PROVE  BridgesInv'
<1>1. PICK k, m : k = call[c] /\ m = call'[c]
  OBVIOUS
<1>2. k.op = "attach" /\ k.at = "join" /\ CallsOK
  BY <1>1, InvParts DEF Join, At
<1>3. OthersStay(c) /\ (m = Idle \/ (m.op = k.op /\ m.n = k.n /\ m.p = k.p))
  BY <1>1, <1>2, GotoMore, FinishMore DEF Join
<1>4. BridgesStay /\ disturbed \subseteq disturbed'
  BY HistoryGrows DEF Join, BridgesStay, netRows, peerRows, dockerPeer
<1>5. QED
  BY <1>1, <1>2, <1>3, <1>4, AttachMoves

(* A database that is detached from a network without Docker network is no *)
(* member; one whose row is gone is on no bridge, or was left there.       *)
LEMMA LeaveBridges ==
  ASSUME NetworksInv, NetworksInv', ConnectionsInv, BridgesInv, NEW c \in Calls, Leave(c)
  PROVE  BridgesInv'
<1>1. PICK k, m : k = call[c] /\ m = call'[c]
  OBVIOUS
<1>2. k.op = "detach" /\ k.at = "found" /\ CallsOK /\ k.op \in NetCalls
  BY <1>1, InvParts, StepFacts DEF Leave, At
<1>3. /\ OthersStay(c) /\ m.op = k.op /\ m.n = k.n /\ m.p = k.p /\ m.d = k.d
      /\ m.at = "remove" => k.dock = NoDock \/ ~HasRow(k.d)
  BY <1>1, <1>2, GotoMore DEF Leave
<1>4. BridgesStay /\ disturbed \subseteq disturbed'
  BY HistoryGrows DEF Leave, BridgesStay, netRows, peerRows, dockerPeer
<1>5. ASSUME NEW p \in Peerings, Clean(p)', k.n \in EndsOf(p), m.at = "remove"
      PROVE  <<k.d, p>> \notin bridged \/ k.d \notin members[k.n] \/ db[k.d] = "orphan"
  <2>1. CASE db[k.d] = "gone"
    <3>1. ~HasContainer(k.d)
      BY <2>1 DEF HasContainer
    <3>2. PICK l : l = <<k.d, p>>
      OBVIOUS
    <3>3. l \notin bridged
      BY <3>1, <3>2, BridgeFacts DEF BridgedExist
    <3>4. QED
      BY <3>2, <3>3
  <2>2. CASE k.dock = NoDock
    <3>1. PICK n : n = k.n
      OBVIOUS
    <3>2. n \in Nets /\ n \notin disturbed
      BY <1>4, <1>5, <3>1, CleanBefore, EndFacts
    <3>3. Matches(n, k)
      BY <1>1, <1>2, <3>1, <3>2, ConnectionFacts DEF NetworkOK, NetCall
    <3>4. dock[n] = NoDock
      BY <1>2, <2>2, <3>3, StepFacts DEF Matches, Knows, Is
    <3>5. ~Is(k, "attach", {"save"})
      BY <1>2 DEF Is
    <3>6. members[n] = {}
      BY <3>2, <3>3, <3>4, <3>5, NothingDocked
    <3>7. QED
      BY <3>1, <3>6
  <2>3. QED
    BY <1>3, <1>5, <2>1, <2>2 DEF HasRow
<1>6. ASSUME NEW p \in Peerings, Clean(p)'
      PROVE  Harmless(c, p)
  <2>1. ~TakesDown(c, p) /\ ~TakesDown(c, p)'
    BY <1>1, <1>2, <1>3 DEF TakesDown
  <2>2. \A n \in EndsOf(p) : \A d : /\ ~Removes(k, n, d) /\ ~Syncs(k, n, d)
                                    /\ Removes(m, n, d) => m.at = "remove" /\ n = k.n /\ d = k.d
    BY <1>2, <1>3 DEF Removes, Syncs, Is
  <2>3. QED
    BY <1>1, <1>5, <1>6, <2>1, <2>2 DEF Harmless
<1>7. Continues(c)
  BY <1>1, <1>3 DEF Continues
<1>8. QED
  BY <1>3, <1>4, <1>6, <1>7, ContinuesInv

-----------------------------------------------------------------------------
(* delete_peering, delete_network *)

LEMMA ListPeeringsBridges ==
  ASSUME NetworksInv, NetworksInv', BridgesInv, NEW c \in Calls, ListPeerings(c)
  PROVE  BridgesInv'
<1>1. PICK k, m : k = call[c] /\ m = call'[c]
  OBVIOUS
<1>2. k.op = "drop" /\ k.at = "found" /\ CallsOK
  BY <1>1, InvParts DEF ListPeerings, At
<1>3. /\ OthersStay(c) /\ m.op = k.op /\ m.n = k.n /\ m.p = k.p
      /\ m.at = "peerings" /\ m.list = {<<p, bridge[p]>> : p \in PeeringsOf(k.n)}
  BY <1>1, <1>2 DEF ListPeerings, OthersStay, CallsOK, CallType
<1>4. BridgesStay /\ disturbed \subseteq disturbed' /\ bridge \in [Peerings -> BOOLEAN]
  BY HistoryGrows, InvParts DEF ListPeerings, BridgesStay, netRows, peerRows, dockerPeer, PeerTypes
<1>5. ASSUME NEW p \in Peerings, BridgeOK(p), Concerns(c, p)
      PROVE  Harmless(c, p)
  <2>1. Attends(c, p) /\ k.n \in EndsOf(p) /\ ~Working(p) /\ TakesDown(c, p)
    BY <1>1, <1>2, <1>5 DEF Concerns, PairCall, Attends, BridgeOK, Exclusive, TakesDown
  <2>2. <<p, FALSE>> \notin k.list
    BY <1>1, <1>2, <1>5, <2>1 DEF BridgeOK, Listed, Lists
  <2>3. \A e \in m.list : e[1] \in PeeringsOf(k.n) /\ e[2] = bridge[e[1]]
    BY <1>3
  <2>4. <<p, FALSE>> \in m.list => PeerRow(p) /\ ~bridge[p]
    <3>1. PICK e : e = <<p, FALSE>>
      OBVIOUS
    <3>2. e[1] = p /\ e[2] = FALSE
      BY <3>1
    <3>3. QED
      BY <2>3, <3>1, <3>2 DEF PeeringsOf
  <2>5. <<p, FALSE>> \in m.list => Abandoned(p)'
    BY <1>4, <1>5, <2>1, <2>4, SavedBridge, SameAbandoned DEF BridgeOK, BridgesStay
  <2>6. PeerRow(p) => <<p, bridge[p]>> \in m.list /\ bridge[p] \in BOOLEAN
    BY <1>3, <1>4, <2>1 DEF PeeringsOf
  <2>7. Lists(c, p)'
    BY <1>1, <1>3, <1>4, <2>5, <2>6 DEF Lists, PeerRow, BridgesStay
  <2>8. \A n, d : /\ ~Removes(k, n, d) /\ ~Syncs(k, n, d) /\ ~Removes(m, n, d)
    BY <1>2, <1>3 DEF Removes, Syncs, Is
  <2>9. QED
    BY <1>1, <2>2, <2>7, <2>8 DEF Harmless
<1>6. Continues(c)
  BY <1>1, <1>3 DEF Continues
<1>7. QED
  BY <1>3, <1>4, <1>5, <1>6, ContinuesInv

(* When nothing is left on the list, no row is left either.                *)
LEMMA PeeringsDeletedBridges ==
  ASSUME NetworksInv, NetworksInv', BridgesInv, NEW c \in Calls, PeeringsDeleted(c)
  PROVE  BridgesInv'
<1>1. PICK k, m : k = call[c] /\ m = call'[c]
  OBVIOUS
<1>2. k.op \in {"unpeer", "drop"} /\ k.at = "peerings" /\ k.list = {} /\ CallsOK
  BY <1>1, InvParts DEF PeeringsDeleted
<1>3. /\ OthersStay(c)
      /\ \/ m.op = None
         \/ m.op = k.op /\ m.n = k.n /\ m.p = k.p /\ m.at = "undock" /\ m.list = k.list
  BY <1>1, <1>2, GotoMore, FinishMore, IdleFacts DEF PeeringsDeleted
<1>4. BridgesStay /\ disturbed \subseteq disturbed'
  BY HistoryGrows DEF PeeringsDeleted, BridgesStay, netRows, peerRows, dockerPeer
<1>5. ASSUME NEW p \in Peerings, BridgeOK(p), Concerns(c, p)
      PROVE  Harmless(c, p)
  <2>1. TakesDown(c, p)' => TakesDown(c, p) /\ m.at = "undock" /\ m.list = {}
    BY <1>1, <1>2, <1>3, StepFacts DEF TakesDown, EndsOf
  <2>2. TakesDown(c, p) => ~PeerRow(p)
    BY <1>1, <1>2, <1>5 DEF BridgeOK, Listed, Lists
  <2>3. TakesDown(c, p)' => Lists(c, p)'
    BY <1>1, <1>4, <2>1, <2>2 DEF Lists, PeerRow, BridgesStay
  <2>4. \A n, d : /\ ~Removes(k, n, d) /\ ~Syncs(k, n, d) /\ ~Removes(m, n, d)
    BY <1>2, <1>3, StepFacts DEF Removes, Syncs, Is
  <2>5. QED
    BY <1>1, <1>2, <2>3, <2>4 DEF Harmless
<1>6. Continues(c)
  BY <1>1, <1>3 DEF Continues
<1>7. QED
  BY <1>3, <1>4, <1>5, <1>6, ContinuesInv

LEMMA TakeDownNetworkBridges ==
  ASSUME NetworksInv, NetworksInv', BridgesInv, NEW c \in Calls, TakeDownNetwork(c)
  PROVE  BridgesInv'
<1>1. PICK k, m : k = call[c] /\ m = call'[c]
  OBVIOUS
<1>2. k.op = "drop" /\ k.at = "undock" /\ CallsOK
  BY <1>1, InvParts DEF TakeDownNetwork, At
<1>3. /\ OthersStay(c) /\ m.op = k.op /\ m.n = k.n /\ m.p = k.p /\ m.at = "row"
      /\ m.list = k.list
  BY <1>1, <1>2, GotoMore DEF TakeDownNetwork
<1>4. BridgesStay /\ disturbed \subseteq disturbed'
  BY HistoryGrows DEF TakeDownNetwork, BridgesStay, netRows, peerRows, dockerPeer
<1>5. ASSUME NEW p \in Peerings, BridgeOK(p), Concerns(c, p)
      PROVE  Harmless(c, p)
  <2>1. TakesDown(c, p) /\ TakesDown(c, p)'
    BY <1>1, <1>2, <1>3, <1>5 DEF TakesDown, EndsOf, Concerns, PairCall, Attends
  <2>2. Lists(c, p)'
    <3>1. Abandoned(p) => Abandoned(p)'
      BY <1>4, SameAbandoned DEF BridgesStay
    <3>2. QED
      BY <1>1, <1>2, <1>3, <1>4, <1>5, <2>1, <3>1
      DEF BridgeOK, Listed, Lists, PeerRow, BridgesStay
  <2>3. \A n, d : /\ ~Removes(k, n, d) /\ ~Syncs(k, n, d) /\ ~Removes(m, n, d)
    BY <1>2, <1>3 DEF Removes, Syncs, Is
  <2>4. QED
    BY <1>1, <1>3, <2>1, <2>2, <2>3 DEF Harmless
<1>6. Continues(c)
  BY <1>1, <1>3 DEF Continues
<1>7. QED
  BY <1>3, <1>4, <1>5, <1>6, ContinuesInv

-----------------------------------------------------------------------------
(* create_firewall_rule, delete_firewall_rule *)

LEMMA RuleBridges ==
  ASSUME NetworksInv, NetworksInv', BridgesInv, NEW c \in Calls, ChangeRule(c)
  PROVE  BridgesInv'
<1>1. PICK k, m : k = call[c] /\ m = call'[c]
  OBVIOUS
<1>2. k.op \in {"allow", "revoke"} /\ CallsOK
  BY <1>1, InvParts DEF ChangeRule, InsertRule, DeleteRule, ReadRules, ApplyRules, At
<1>3. OthersStay(c) /\ (m = Idle \/ m.op = k.op)
  <2>1. CASE InsertRule(c) \/ DeleteRule(c) \/ ApplyRules(c)
    BY <1>1, <1>2, <2>1, GotoMore, FinishMore
    DEF InsertRule, DeleteRule, ApplyRules, AfterRuleChange
  <2>2. CASE ReadRules(c)
    BY <1>1, <1>2, <2>2 DEF ReadRules, OthersStay, CallsOK, CallType
  <2>3. QED
    BY <2>1, <2>2 DEF ChangeRule
<1>4. BridgesStay /\ disturbed \subseteq disturbed'
  BY HistoryGrows
  DEF ChangeRule, InsertRule, DeleteRule, ReadRules, ApplyRules, BridgesStay, netRows,
      peerRows, dockerPeer
<1>5. \A p \in Peerings : ~Concerns(c, p) /\ ~Concerns(c, p)'
  BY <1>1, <1>2, <1>3, IdleFacts, StepFacts DEF Concerns, PairCall, Attends
<1>6. QED
  BY <1>3, <1>4, <1>5, OnlyCallMoves

-----------------------------------------------------------------------------
(* Members come and go *)

(* A step of attach_database or detach_database: what it has to say is who *)
(* is connected to the bridges of its network.                             *)
LEMMA MemberStep ==
  ASSUME NetworksInv', BridgesInv, NEW c \in Calls, NEW k, NEW m, k = call[c], m = call'[c],
         k.op \in {"attach", "detach"}, m = Idle \/ (m.op = k.op /\ m.n = k.n /\ m.p = k.p),
         OthersStay(c), UNCHANGED <<db, peer, pserver, bridge, bridges, tasks>>,
         disturbed \subseteq disturbed', BridgedExist',
         \A n \in Nets : n # k.n => members'[n] = members[n],
         \A p \in Peerings : Clean(p)' /\ k.n \notin EndsOf(p) =>
           \A d : <<d, p>> \in bridged' <=> <<d, p>> \in bridged,
         \A p \in Peerings : Clean(p)' /\ Clean(p) /\ BridgeOK(p) /\ k.n \in EndsOf(p)
                             /\ ~Working(p) =>
           /\ BridgedAreMembers(p)' /\ MembersAreBridged(p)'
           /\ peer[p] # "active" /\ Abandoned(p) => Abandoned(p)'
  PROVE  BridgesInv'
<1>1. \A p \in Peerings : NoBridgeYet(p)' /\ NothingToDo(p)'
  BY BridgeFacts DEF NoBridgeYet, NothingToDo, tasks
<1>2. Continues(c) /\ m.op \in {None, k.op}
  BY IdleFacts DEF Continues
<1>3. \A p \in Peerings : ~TakesDown(c, p) /\ ~TakesDown(c, p)'
  BY <1>2, StepFacts DEF TakesDown
<1>4. ASSUME NEW p \in Peerings, Clean(p)', k.n \in EndsOf(p)
      PROVE  BridgeOK(p)'
  <2>1. Clean(p) /\ BridgeOK(p)
    BY <1>4, CleanBefore, BridgeFacts
  <2>2. ~Working(p)
    BY <1>4, <2>1, StepFacts DEF BridgeOK, Exclusive, Attends
  <2>3. Exclusive(p)'
    BY <1>2, <2>1, ContinuesAlone DEF BridgeOK, Working, PeerRow, tasks
  <2>4. TakenDown(p) => TakenDown(p)'
    BY <1>3 DEF TakenDown, TakesDown, OthersStay
  <2>5. StatusOfBridge(p)'
    BY <1>4, <2>1, <2>2, <2>4, StatusKept DEF BridgeOK, tasks
  <2>6. Listed(p)'
    <3>1. \A e \in Calls : TakesDown(e, p)' => TakesDown(e, p) /\ Alike(e, p)
      BY <1>3 DEF TakesDown, Alike, OthersStay
    <3>2. CASE peer[p] = "active"
      <4>1. Attends(c, p) /\ PeerRow(p)
        BY <1>4, <3>2, StepFacts DEF Attends, PeerRow
      <4>2. \A e \in Calls : ~TakesDown(e, p)
        BY <2>1, <4>1, StepFacts
        DEF BridgeOK, Exclusive, TakesDown, PairCall, Attends, EndsOf
      <4>3. QED
        BY <3>1, <4>2 DEF Listed
    <3>3. CASE peer[p] # "active"
      BY <1>4, <2>1, <2>2, <3>1, <3>3, ListedKept DEF PeerRow, BridgeOK
    <3>4. QED
      BY <3>2, <3>3
  <2>7. TaskConnects(p)'
    BY <1>1, <2>2, StepFacts DEF TaskConnects, NothingToDo, Working, tasks
  <2>8. BridgedAreMembers(p)' /\ MembersAreBridged(p)'
    BY <1>4, <2>1, <2>2
  <2>9. QED
    BY <2>3, <2>5, <2>6, <2>7, <2>8 DEF BridgeOK
<1>5. ASSUME NEW p \in Peerings, Clean(p)', k.n \notin EndsOf(p)
      PROVE  BridgeOK(p)'
  <2>1. Clean(p) /\ BridgeOK(p)
    BY <1>5, CleanBefore, BridgeFacts
  <2>2. BridgeStays(p)
    BY <1>5, EndFacts DEF BridgeStays, tasks
  <2>3. ~Concerns(c, p) /\ ~Concerns(c, p)'
    BY <1>2, <1>5, IdleFacts, StepFacts DEF Concerns, PairCall, Attends, EndsOf
  <2>4. CallsSteady(p)
    BY <2>3 DEF CallsSteady, OthersStay, Alike
  <2>5. QED
    BY <2>1, <2>2, <2>4, BridgeKept
<1>6. QED
  BY <1>1, <1>4, <1>5 DEF BridgesInv

(* A request about a network disturbs nothing there: it is the only one,   *)
(* and its members are on its server.                                      *)
LEMMA AloneThere ==
  ASSUME NetworksInv, ConnectionsInv, NEW c \in Calls, NEW k, k = call[c],
         k.op \in NetCalls, k.n \notin disturbed
  PROVE  /\ k.n \in Nets /\ \A e \in Calls : NetCall(e, k.n) => e = c
         /\ Matches(k.n, k)
<1>1. PICK n : n = k.n
  OBVIOUS
<1>2. n \in Nets /\ NetCall(c, n)
  BY <1>1, NetCallFacts DEF NetCall
<1>3. NetworkOK(n)
  BY <1>1, <1>2, ConnectionFacts
<1>4. QED
  BY <1>1, <1>2, <1>3 DEF NetworkOK

(* The new member is still to be connected to the bridges.                 *)
LEMMA AddMemberBridges ==
  ASSUME NetworksInv, NetworksInv', BridgesInv, NEW c \in Calls, AddMember(c)
  PROVE  BridgesInv'
<1>1. PICK k, m : k = call[c] /\ m = call'[c]
  OBVIOUS
<1>2. k.op = "attach" /\ k.at = "add" /\ CallsOK
  BY <1>1, InvParts DEF AddMember, At
<1>3. /\ OthersStay(c) /\ UNCHANGED <<db, peer, pserver, bridge, bridges, tasks, bridged>>
      /\ disturbed \subseteq disturbed'
  BY <1>2, HistoryGrows, GotoMore, FinishMore DEF AddMember, peerRows, dockerPeer
<1>4. CASE Finish(c) /\ UNCHANGED members
  <2>1. m = Idle /\ BridgesStay
    BY <1>1, <1>2, <1>3, <1>4, FinishMore DEF BridgesStay
  <2>2. QED
    BY <1>1, <1>2, <1>3, <2>1, AttachMoves
<1>5. CASE members' = [members EXCEPT ![k.n] = @ \cup {k.d}] /\ Goto(c, "sync")
  <2>1. m.op = k.op /\ m.n = k.n /\ m.p = k.p /\ m.d = k.d /\ m.at = "sync"
    BY <1>1, <1>2, <1>5, GotoMore
  <2>2. /\ \A n \in Nets : n # k.n => members'[n] = members[n]
        /\ \A n \in Nets : n = k.n => members'[n] = members[n] \cup {k.d}
    BY <1>5, InvParts DEF RowTypes
  <2>3. BridgedExist'
    BY <1>3, BridgeFacts DEF BridgedExist, HasContainer
  <2>4. ASSUME NEW p \in Peerings, BridgeOK(p)
        PROVE  BridgedAreMembers(p)' /\ MembersAreBridged(p)'
    <3>1. \A n \in EndsOf(p) : n \in Nets
      BY EndFacts
    <3>2. \A e \in Calls : \A n, d : Removes(call'[e], n, d) <=> Removes(call[e], n, d)
      BY <1>1, <1>2, <1>3, <2>1 DEF Removes, Is, OthersStay
    <3>3. \A n \in EndsOf(p) : \A d : Stays(n, d) => Stays(n, d)'
      BY <2>2, <3>1, <3>2 DEF Stays
    <3>4. BridgedAreMembers(p)'
      BY <1>3, <2>4, <3>3, BridgedKept DEF BridgeOK
    <3>5. \A n \in EndsOf(p) : \A d : Stays(n, d)' /\ ~Syncing(n, d)' => Stays(n, d)
      <4>1. Syncs(call'[c], k.n, k.d)
        BY <1>1, <1>2, <2>1 DEF Syncs, Is
      <4>2. Syncing(k.n, k.d)'
        BY <4>1 DEF Syncing
      <4>3. ASSUME NEW n \in EndsOf(p), NEW d, Stays(n, d)', ~(n = k.n /\ d = k.d)
            PROVE  Stays(n, d)
        <5>1. d \in members[n]
          BY <2>2, <3>1, <4>3 DEF Stays
        <5>2. QED
          BY <3>2, <4>3, <5>1 DEF Stays
      <4>4. QED
        BY <4>2, <4>3
    <3>6. \A n, d : Syncing(n, d) => Syncing(n, d)'
      BY <1>1, <1>2, <1>3 DEF Syncing, Syncs, Is, OthersStay
    <3>7. TakenDown(p) => TakenDown(p)'
      BY <1>1, <1>2, <1>3 DEF TakenDown, TakesDown, OthersStay
    <3>8. MembersAreBridged(p)'
      BY <1>3, <2>4, <3>5, <3>6, <3>7 DEF MembersAreBridged, BridgeOK, Reachable, EndsOf
    <3>9. QED
      BY <3>4, <3>8
  <2>5. QED
    BY <1>1, <1>2, <1>3, <2>1, <2>2, <2>3, <2>4, SameAbandoned, MemberStep
<1>6. QED
  BY <1>1, <1>4, <1>5 DEF AddMember

(* The member that goes was no longer counted.                             *)
LEMMA RemoveMemberBridges ==
  ASSUME NetworksInv, NetworksInv', ConnectionsInv, BridgesInv, NEW c \in Calls, RemoveMember(c)
  PROVE  BridgesInv'
<1>1. PICK k, m : k = call[c] /\ m = call'[c]
  OBVIOUS
<1>2. k.op = "detach" /\ k.at = "remove" /\ CallsOK /\ k.op \in NetCalls
  BY <1>1, InvParts, StepFacts DEF RemoveMember, At
<1>3. /\ OthersStay(c) /\ UNCHANGED <<db, peer, pserver, bridge, bridges, tasks, bridged>>
      /\ disturbed \subseteq disturbed' /\ m = Idle
  BY <1>1, <1>2, HistoryGrows, FinishMore DEF RemoveMember, peerRows, dockerPeer
<1>4. /\ \A n \in Nets : n # k.n => members'[n] = members[n]
      /\ \A n \in Nets : n = k.n => members'[n] = members[n] \ {k.d}
  BY <1>1, InvParts DEF RemoveMember, RowTypes
<1>5. BridgedExist'
  BY <1>3, BridgeFacts DEF BridgedExist, HasContainer
<1>6. ASSUME NEW p \in Peerings, BridgeOK(p), k.n \in EndsOf(p)
      PROVE  BridgedAreMembers(p)' /\ MembersAreBridged(p)'
  <2>1. \A n \in EndsOf(p) : n \in Nets
    BY EndFacts
  <2>2. ~Stays(k.n, k.d)
    BY <1>1, <1>2 DEF Stays, Removes, Is
  <2>3. \A e \in Calls : \A n, d : Removes(call'[e], n, d) =>  Removes(call[e], n, d)
    BY <1>1, <1>2, <1>3, IdleFacts, StepFacts DEF Removes, Is, OthersStay
  <2>4. \A e \in Calls : \A n, d : Removes(call[e], n, d) /\ ~(n = k.n /\ d = k.d)
                                 => Removes(call'[e], n, d)
    BY <1>1, <1>2, <1>3 DEF Removes, Is, OthersStay
  <2>5. \A n \in EndsOf(p) : \A d : Stays(n, d)' <=> Stays(n, d)
    BY <1>4, <2>1, <2>2, <2>3, <2>4 DEF Stays
  <2>6. \A n, d : Syncing(n, d) => Syncing(n, d)'
    BY <1>1, <1>2, <1>3 DEF Syncing, Syncs, Is, OthersStay
  <2>7. TakenDown(p) => TakenDown(p)'
    BY <1>1, <1>2, <1>3 DEF TakenDown, TakesDown, OthersStay
  <2>8. BridgedAreMembers(p)'
    BY <1>3, <1>6, <2>5, BridgedKept DEF BridgeOK
  <2>9. MembersAreBridged(p)'
    BY <1>3, <1>6, <2>5, <2>6, <2>7, MembersKept DEF BridgeOK
  <2>10. QED
    BY <2>8, <2>9
<1>7. QED
  BY <1>1, <1>2, <1>3, <1>4, <1>5, <1>6, SameAbandoned, MemberStep

-----------------------------------------------------------------------------
(* Members are connected to bridges, and disconnected *)

(* The server a request knows is the one its members are on.               *)
LEMMA KnownServer ==
  ASSUME NetworksInv, ConnectionsInv, NEW c \in Calls, NEW k, k = call[c], k.op \in NetCalls,
         k.n \notin disturbed, NEW d \in members[k.n]
  PROVE  k.host = Host[d]
<1>1. k.n \in Nets /\ Matches(k.n, k) /\ k.op # None
  BY AloneThere, StepFacts
<1>2. QED
  BY <1>1 DEF Matches, Knows, MembersAreJoined

LEMMA SyncBridgesInv ==
  ASSUME NetworksInv, NetworksInv', ConnectionsInv, BridgesInv, NEW c \in Calls, SyncBridges(c)
  PROVE  BridgesInv'
<1>1. PICK k, m : k = call[c] /\ m = call'[c]
  OBVIOUS
<1>2. k.op = "attach" /\ k.at = "sync" /\ CallsOK /\ k.op \in NetCalls
  BY <1>1, InvParts, StepFacts DEF SyncBridges, At
<1>3. /\ OthersStay(c) /\ UNCHANGED <<db, members, peer, pserver, bridge, bridges, tasks>>
      /\ disturbed \subseteq disturbed' /\ m = Idle
  BY <1>1, <1>2, HistoryGrows, FinishMore DEF SyncBridges, netRows, peerRows
<1>4. CASE FaultOn({k.n} \cup ActiveBridges(k.n)) /\ UNCHANGED bridged
  <2>1. k.n \in disturbed'
    BY <1>4, HistoryGrows
  <2>2. \A p \in Peerings : Clean(p)' => k.n \notin EndsOf(p)
    BY <2>1 DEF Clean, EndsOf
  <2>3. BridgedExist'
    BY <1>3, <1>4, BridgeFacts DEF BridgedExist, HasContainer
  <2>4. QED
    BY <1>1, <1>2, <1>3, <1>4, <2>2, <2>3, MemberStep
<1>5. CASE bridged' = bridged \cup
             {<<k.d, p>> : p \in {q \in ActiveBridges(k.n) : CanBridge(k.d, q, k.host)}}
  <2>1. \A p : \A d : <<d, p>> \in bridged' <=>
          \/ <<d, p>> \in bridged
          \/ d = k.d /\ p \in ActiveBridges(k.n) /\ CanBridge(k.d, p, k.host)
    BY <1>5
  <2>2. \A p : peer[p] # "active" => \A d : <<d, p>> \in bridged' <=> <<d, p>> \in bridged
    BY <2>1 DEF ActiveBridges
  <2>3. BridgedExist'
    <3>1. ASSUME NEW l \in bridged', l \notin bridged
          PROVE  HasContainer(l[1]) /\ l[2] \in bridges /\ Host[l[1]] = pserver[l[2]]
      <4>1. PICK p \in ActiveBridges(k.n) : l = <<k.d, p>> /\ CanBridge(k.d, p, k.host)
        BY <1>5, <3>1
      <4>2. QED
        BY <4>1 DEF CanBridge
    <3>2. \A l \in bridged' : HasContainer(l[1]) /\ l[2] \in bridges /\ Host[l[1]] = pserver[l[2]]
      BY <3>1, BridgeFacts DEF BridgedExist
    <3>3. QED
      BY <1>3, <3>2 DEF BridgedExist, HasContainer
  <2>4. ASSUME NEW p \in Peerings, k.n \notin EndsOf(p)
        PROVE  \A d : <<d, p>> \in bridged' <=> <<d, p>> \in bridged
    BY <2>1, <2>4 DEF ActiveBridges, PeeringsOf
  <2>5. ASSUME NEW p \in Peerings, Clean(p), BridgeOK(p), k.n \in EndsOf(p)
        PROVE  BridgedAreMembers(p)' /\ MembersAreBridged(p)'
    <3>1. k.n \in Nets /\ k.n \notin disturbed
      BY <2>5, EndFacts DEF Clean
    <3>2. /\ \A e \in Calls : NetCall(e, k.n) => e = c
          /\ Matches(k.n, k)
      BY <1>1, <1>2, <3>1, AloneThere
    <3>3. \A e \in Calls : \A n, d : Removes(call'[e], n, d) <=> Removes(call[e], n, d)
      BY <1>1, <1>2, <1>3, IdleFacts, StepFacts DEF Removes, Is, OthersStay
    <3>4. \A n \in EndsOf(p) : \A d : Stays(n, d)' <=> Stays(n, d)
      BY <1>3, <3>3 DEF Stays
    <3>5. BridgedAreMembers(p)'
      <4>1. ASSUME NEW l \in bridged', l[2] = p
            PROVE  db[l[1]] = "orphan" \/ \E n \in EndsOf(p) : Stays(n, l[1])
        <5>1. CASE l \in bridged
          BY <2>5, <4>1, <5>1 DEF BridgeOK, BridgedAreMembers
        <5>2. CASE l \notin bridged /\ db[l[1]] # "orphan"
          <6>1. l[1] = k.d /\ HasContainer(k.d) /\ HasRow(k.d)
            BY <1>5, <4>1, <5>2 DEF CanBridge, HasContainer, HasRow
          <6>2. k.d \in members[k.n]
            BY <1>2, <3>2, <6>1, StepFacts DEF Matches, Knows, Is
          <6>3. \A e \in Calls : ~Removes(call[e], k.n, k.d)
            <7>1. ASSUME NEW e \in Calls, Removes(call[e], k.n, k.d)
                  PROVE  FALSE
              <8>1. NetCall(e, k.n) /\ call[e].op = "detach"
                BY <7>1, StepFacts DEF Removes, Is, NetCall
              <8>2. QED
                BY <1>1, <1>2, <3>2, <8>1
            <7>2. QED
              BY <7>1
          <6>4. QED
            BY <2>5, <6>1, <6>2, <6>3 DEF Stays
        <5>3. QED
          BY <5>1, <5>2
      <4>2. \A l \in bridged' : l[2] = p =>
              db'[l[1]] = "orphan" \/ \E n \in EndsOf(p) : Stays(n, l[1])'
        BY <1>3, <3>4, <4>1
      <4>3. QED
        BY <4>2 DEF BridgedAreMembers, EndsOf
    <3>6. MembersAreBridged(p)'
      <4>1. TakenDown(p) => TakenDown(p)'
        BY <1>1, <1>2, <1>3 DEF TakenDown, TakesDown, OthersStay
      <4>2. ASSUME peer[p] = "active", ~TakenDown(p), NEW n \in EndsOf(p), NEW d \in Dbs,
                   Stays(n, d), ~Syncing(n, d)', Reachable(d, p)
            PROVE  <<d, p>> \in bridged'
        <5>1. CASE ~Syncing(n, d)
          BY <2>1, <2>5, <4>2, <5>1 DEF BridgeOK, MembersAreBridged
        <5>2. CASE Syncing(n, d)
          <6>1. n = k.n /\ d = k.d
            BY <1>1, <1>3, <4>2, <5>2 DEF Syncing, Syncs, OthersStay
          <6>2. d \in members[k.n] /\ k.host = Host[d]
            BY <1>1, <1>2, <3>1, <4>2, <6>1, KnownServer DEF Stays
          <6>3. p \in bridges /\ bridge[p]
            BY <2>5, <4>2 DEF BridgeOK, StatusOfBridge
          <6>4. p \in ActiveBridges(k.n)
            BY <2>5, <4>2, <6>3 DEF ActiveBridges, PeeringsOf, PeerRow
          <6>5. CanBridge(k.d, p, k.host)
            BY <4>2, <6>1, <6>2, <6>3 DEF CanBridge, Reachable, HasContainer
          <6>6. QED
            BY <2>1, <6>1, <6>4, <6>5
        <5>3. QED
          BY <5>1, <5>2
      <4>3. QED
        BY <1>3, <3>4, <4>1, <4>2 DEF MembersAreBridged, Reachable, EndsOf
    <3>7. QED
      BY <3>5, <3>6
  <2>6. QED
    BY <1>1, <1>2, <1>3, <2>2, <2>3, <2>4, <2>5, SameAbandoned, MemberStep
<1>6. QED
  BY <1>1, <1>4, <1>5 DEF SyncBridges

LEMMA UnbridgeBridges ==
  ASSUME NetworksInv, NetworksInv', ConnectionsInv, BridgesInv, NEW c \in Calls, Unbridge(c)
  PROVE  BridgesInv'
<1>1. PICK k, m : k = call[c] /\ m = call'[c]
  OBVIOUS
<1>2. k.op = "detach" /\ k.at = "unbridge" /\ CallsOK /\ k.op \in NetCalls
  BY <1>1, InvParts, StepFacts DEF Unbridge, At
<1>3. /\ OthersStay(c) /\ UNCHANGED <<db, members, peer, pserver, bridge, bridges, tasks>>
      /\ m.op = k.op /\ m.n = k.n /\ m.p = k.p /\ m.d = k.d /\ m.at = "remove"
  BY <1>1, <1>2, GotoMore DEF Unbridge, netRows, peerRows
<1>4. disturbed \subseteq disturbed'
  BY HistoryGrows DEF Unbridge
<1>5. CASE FaultOn({k.n} \cup ActiveBridges(k.n)) /\ UNCHANGED bridged
  <2>1. k.n \in disturbed'
    BY <1>5, HistoryGrows
  <2>2. \A p \in Peerings : Clean(p)' => k.n \notin EndsOf(p)
    BY <2>1 DEF Clean, EndsOf
  <2>3. BridgedExist'
    BY <1>3, <1>5, BridgeFacts DEF BridgedExist, HasContainer
  <2>4. QED
    BY <1>1, <1>2, <1>3, <1>4, <1>5, <2>2, <2>3, MemberStep
<1>6. CASE /\ bridged' = bridged \ UNION {Unbridging({k.d}, p, k.host) : p \in ActiveBridges(k.n)}
           /\ \A p \in ActiveBridges(k.n) : \A e \in EndsOf(p) \ {k.n} :
                k.d \in members[e] => p \in disturbed'
  <2>1. \A p : \A d : <<d, p>> \in bridged' <=>
          /\ <<d, p>> \in bridged
          /\ ~(d = k.d /\ p \in ActiveBridges(k.n) /\ CanBridge(k.d, p, k.host))
    BY <1>6 DEF Unbridging
  <2>2. \A p : peer[p] # "active" => \A d : <<d, p>> \in bridged' <=> <<d, p>> \in bridged
    BY <2>1 DEF ActiveBridges
  <2>3. BridgedExist'
    BY <1>3, <1>6, BridgeFacts DEF BridgedExist, HasContainer
  <2>4. ASSUME NEW p \in Peerings, k.n \notin EndsOf(p)
        PROVE  \A d : <<d, p>> \in bridged' <=> <<d, p>> \in bridged
    BY <2>1, <2>4 DEF ActiveBridges, PeeringsOf
  <2>5. ASSUME NEW p \in Peerings, Clean(p)', Clean(p), BridgeOK(p), k.n \in EndsOf(p), ~Working(p)
        PROVE  BridgedAreMembers(p)' /\ MembersAreBridged(p)'
    <3>1. k.n \in Nets /\ k.n \notin disturbed
      BY <2>5, EndFacts DEF Clean
    <3>2. p \in ActiveBridges(k.n) => \A e \in EndsOf(p) : k.d \in members[e] => e = k.n
      BY <1>6, <2>5 DEF Clean
    <3>3. \A e \in Calls : \A n, d : Removes(call[e], n, d) => Removes(call'[e], n, d)
      BY <1>1, <1>2, <1>3 DEF Removes, Is, OthersStay
    <3>4. Removes(call'[c], k.n, k.d)
      BY <1>1, <1>2, <1>3 DEF Removes, Is
    <3>5. \A e \in Calls : \A n, d : Removes(call'[e], n, d) =>
            Removes(call[e], n, d) \/ (n = k.n /\ d = k.d)
      BY <1>1, <1>2, <1>3 DEF Removes, Is, OthersStay
    <3>6. \A n \in EndsOf(p) : \A d : Stays(n, d)' <=> Stays(n, d) /\ ~(n = k.n /\ d = k.d)
      BY <1>3, <3>3, <3>4, <3>5 DEF Stays
    <3>7. BridgedAreMembers(p)'
      <4>1. ASSUME NEW d, <<d, p>> \in bridged'
            PROVE  \/ db[d] = "orphan"
                   \/ \E n \in EndsOf(p) : Stays(n, d) /\ ~(n = k.n /\ d = k.d)
        <5>1. SUFFICES ASSUME db[d] # "orphan"
                       PROVE  \E n \in EndsOf(p) : Stays(n, d) /\ ~(n = k.n /\ d = k.d)
          OBVIOUS
        <5>2. PICK l : l = <<d, p>>
          OBVIOUS
        <5>3. l \in bridged /\ l[1] = d /\ l[2] = p
          BY <2>1, <4>1, <5>2
        <5>4. PICK n \in EndsOf(p) : Stays(n, d)
          BY <2>5, <5>1, <5>3 DEF BridgeOK, BridgedAreMembers
        <5>5. HasContainer(d) /\ p \in bridges /\ Host[d] = pserver[p]
          BY <5>3, BridgeFacts DEF BridgedExist
        <5>6. ASSUME n = k.n, d = k.d
              PROVE  FALSE
          <6>1. peer[p] = "active" /\ bridge[p]
            BY <2>1, <2>5, <4>1, <5>1, <5>5 DEF BridgeOK, StatusOfBridge, Abandoned, Working
          <6>2. p \in ActiveBridges(k.n)
            BY <2>5, <6>1 DEF ActiveBridges, PeeringsOf, PeerRow
          <6>3. k.host = Host[d]
            BY <1>1, <1>2, <3>1, <5>4, <5>6, KnownServer DEF Stays
          <6>4. CanBridge(k.d, p, k.host)
            BY <5>5, <5>6, <6>3 DEF CanBridge
          <6>5. QED
            BY <2>1, <4>1, <5>6, <6>2, <6>4
        <5>7. QED
          BY <5>4, <5>6
      <4>2. ASSUME NEW l \in bridged', l[2] = p
            PROVE  db'[l[1]] = "orphan" \/ \E n \in EndsOf(p) : Stays(n, l[1])'
        <5>1. l = <<l[1], p>>
          BY <1>6, <4>2, BridgedFacts
        <5>2. QED
          BY <1>3, <3>6, <4>1, <4>2, <5>1
      <4>3. QED
        BY <4>2 DEF BridgedAreMembers, EndsOf
    <3>8. MembersAreBridged(p)'
      <4>1. TakenDown(p) => TakenDown(p)'
        BY <1>1, <1>2, <1>3 DEF TakenDown, TakesDown, OthersStay
      <4>2. \A n, d : Syncing(n, d) => Syncing(n, d)'
        BY <1>1, <1>2, <1>3 DEF Syncing, Syncs, Is, OthersStay
      <4>3. ASSUME peer[p] = "active", ~TakenDown(p), NEW n \in EndsOf(p), NEW d \in Dbs,
                   Stays(n, d), ~(n = k.n /\ d = k.d), ~Syncing(n, d), Reachable(d, p)
            PROVE  <<d, p>> \in bridged'
        <5>1. <<d, p>> \in bridged
          BY <2>5, <4>3 DEF BridgeOK, MembersAreBridged
        <5>2. p \in ActiveBridges(k.n) /\ d = k.d => n = k.n
          BY <3>2, <4>3 DEF Stays
        <5>3. QED
          BY <2>1, <4>3, <5>1, <5>2
      <4>4. QED
        BY <1>3, <3>6, <4>1, <4>2, <4>3 DEF MembersAreBridged, Reachable, EndsOf
    <3>9. QED
      BY <3>7, <3>8
  <2>6. m = Idle \/ (m.op = k.op /\ m.n = k.n /\ m.p = k.p)
    BY <1>3
  <2>7. QED
    BY <1>1, <1>2, <1>3, <1>4, <2>2, <2>3, <2>4, <2>5, <2>6, SameAbandoned, MemberStep
<1>7. \/ FaultOn({k.n} \cup ActiveBridges(k.n)) /\ UNCHANGED bridged
      \/ /\ bridged' = bridged \ UNION {Unbridging({k.d}, p, k.host) : p \in ActiveBridges(k.n)}
         /\ disturbed' = disturbed \cup
              {p \in ActiveBridges(k.n) : \E e \in EndsOf(p) \ {k.n} : k.d \in members[e]}
  <2>1. Unbridge(c)
    OBVIOUS
  <2>2. QED
    BY <1>1, <2>1 DEF Unbridge
<1>8. QED
  BY <1>5, <1>6, <1>7

-----------------------------------------------------------------------------
(* Bridges and rows go *)

LEMMA ListMoves ==
  ASSUME NetworksInv, FirewallInv, NEW c \in Calls, NEW p \in Peerings, NEW l,
         NEW b \in BOOLEAN, call[c].at = "peerings", <<p, b>> \in call[c].list,
         call' = [call EXCEPT ![c].list = l]
  PROVE  /\ OthersStay(c) /\ Continues(c) /\ TakesDown(c, p) /\ Concerns(c, p)
         /\ call[c].op \in {"unpeer", "drop"}
         /\ call'[c].op = call[c].op /\ call'[c].at = "peerings" /\ call'[c].n = call[c].n
         /\ call'[c].p = call[c].p /\ call'[c].d = call[c].d /\ call'[c].list = l
<1>1. CallsOK /\ call[c].op \in {"unpeer", "drop"} /\ TakesDown(c, p)
  BY InvParts, ListedPeering
<1>2. /\ OthersStay(c)
      /\ call'[c].op = call[c].op /\ call'[c].at = call[c].at /\ call'[c].n = call[c].n
      /\ call'[c].p = call[c].p /\ call'[c].d = call[c].d /\ call'[c].list = l
  BY <1>1 DEF CallsOK, CallType, OthersStay
<1>3. QED
  BY <1>1, <1>2, ConcernFacts DEF Continues

(* A deletion works on one of its peerings.                                *)
LEMMA ListStepBridges ==
  ASSUME NetworksInv', BridgesInv, NEW c \in Calls, NEW p \in Peerings,
         OthersStay(c), Concerns(c, p), \A q \in Peerings : q # p => Alike(c, q),
         UNCHANGED <<db, members, pserver, tasks>>, disturbed \subseteq disturbed',
         BridgedExist', NoBridgeYet(p)',
         \A q \in Peerings : q # p =>
           /\ peer'[q] = peer[q] /\ bridge'[q] = bridge[q] /\ (q \in bridges' <=> q \in bridges)
           /\ \A d : <<d, q>> \in bridged' <=> <<d, q>> \in bridged,
         Clean(p)' /\ Clean(p) /\ BridgeOK(p) /\ ~Working(p) =>
           BridgeOK(p)'
  PROVE  BridgesInv'
<1>1. \A q \in Peerings : NoBridgeYet(q)' /\ NothingToDo(q)'
  BY BridgeFacts DEF NoBridgeYet, NothingToDo, tasks
<1>2. ASSUME NEW q \in Peerings, Clean(q)'
      PROVE  BridgeOK(q)'
  <2>1. Clean(q) /\ BridgeOK(q)
    BY <1>2, CleanBefore, BridgeFacts
  <2>2. CASE q = p
    <3>1. ~Working(p)
      BY <2>1, <2>2 DEF BridgeOK, Exclusive, Concerns
    <3>2. QED
      BY <1>2, <2>1, <2>2, <3>1
  <2>3. CASE q # p
    <3>1. BridgeStays(q)
      BY <2>3 DEF BridgeStays, tasks
    <3>2. CallsSteady(q)
      BY <2>3 DEF CallsSteady, OthersStay, Alike
    <3>3. QED
      BY <2>1, <3>1, <3>2, BridgeKept
  <2>4. QED
    BY <2>2, <2>3
<1>3. QED
  BY <1>1, <1>2 DEF BridgesInv

LEMMA PairFacts ==
  ASSUME NEW p, NEW q, NEW x, NEW y
  PROVE  <<p, x>> = <<q, y>> <=> p = q /\ x = y
OBVIOUS

LEMMA TakeDownBridgeBridges ==
  ASSUME NetworksInv, NetworksInv', FirewallInv, BridgesInv, NEW c \in Calls,
         NEW p \in Peerings, TakeDownBridge(c, p)
  PROVE  BridgesInv'
<1>1. PICK l : l = (call[c].list \ {<<p, TRUE>>}) \cup {<<p, FALSE>>}
  OBVIOUS
<1>2. PICK known, rest : /\ known = {d \in UNION {members[n] : n \in EndsOf(p)} : HasRow(d)}
                         /\ rest = bridged \ Unbridging(known, p, pserver[p])
  OBVIOUS
<1>3. /\ call[c].at = "peerings" /\ <<p, TRUE>> \in call[c].list
      /\ call' = [call EXCEPT ![c].list = l]
  BY <1>1, CallFacts DEF TakeDownBridge, CallsOK
<1>4. \A q \in Peerings : q # p =>
        \A x \in BOOLEAN : <<q, x>> \in l <=> <<q, x>> \in call[c].list
  BY <1>1, PairFacts
<1>5. /\ OthersStay(c) /\ Continues(c) /\ TakesDown(c, p)
      /\ call[c].op \in {"unpeer", "drop"}
      /\ call'[c].op = call[c].op /\ call'[c].at = "peerings" /\ call'[c].n = call[c].n
      /\ call'[c].p = call[c].p /\ call'[c].d = call[c].d /\ call'[c].list = l
  BY <1>3, ListMoves
<1>6. Concerns(c, p) /\ \A q \in Peerings : q # p => Alike(c, q)
  BY <1>3, <1>4, <1>5, ConcernFacts DEF Alike
<1>7. UNCHANGED <<db, members, peer, pserver, bridge, tasks>> /\ disturbed \subseteq disturbed'
  BY HistoryGrows DEF TakeDownBridge, netRows, peerRows
<1>8. CASE FaultOn({p}) /\ UNCHANGED <<bridges, bridged>>
  <2>1. p \in disturbed' /\ bridges' = bridges /\ bridged' = bridged
    BY <1>8, HistoryGrows
  <2>2. ~Clean(p)'
    BY <2>1 DEF Clean
  <2>3. BridgedExist' /\ NoBridgeYet(p)'
    BY <1>7, <2>1, BridgeFacts DEF BridgedExist, HasContainer, NoBridgeYet
  <2>4. QED
    BY <1>5, <1>6, <1>7, <2>1, <2>2, <2>3, ListStepBridges
<1>9. CASE /\ bridged' = rest
           /\ bridges' = IF \E d \in Dbs : <<d, p>> \in rest THEN bridges ELSE bridges \ {p}
  <2>1. rest \subseteq bridged /\ \A d, q : q # p /\ <<d, q>> \in bridged => <<d, q>> \in rest
    BY <1>2, PairFacts DEF Unbridging
  <2>2. bridges' \subseteq bridges /\ \A q : q # p => (q \in bridges' <=> q \in bridges)
    BY <1>9
  <2>3. ASSUME NEW e \in rest
        PROVE  HasContainer(e[1]) /\ e[2] \in bridges' /\ Host[e[1]] = pserver[e[2]]
    <3>1. e \in bridged /\ e = <<e[1], e[2]>> /\ e[1] \in Dbs
      BY <2>1, BridgedFacts
    <3>2. e[2] = p => \E d \in Dbs : <<d, p>> \in rest
      BY <2>3, <3>1
    <3>3. HasContainer(e[1]) /\ e[2] \in bridges /\ Host[e[1]] = pserver[e[2]]
      BY <3>1, BridgeFacts DEF BridgedExist
    <3>4. e[2] \in bridges'
      BY <1>9, <3>2, <3>3
    <3>5. QED
      BY <3>3, <3>4
  <2>4. BridgedExist'
    BY <1>7, <1>9, <2>3 DEF BridgedExist, HasContainer
  <2>5. NoBridgeYet(p)'
    BY <1>7, <2>2, BridgeFacts DEF NoBridgeYet
  <2>6. ASSUME Clean(p), BridgeOK(p), ~Working(p)
        PROVE  BridgeOK(p)'
    <3>1. \A d : <<d, p>> \in rest => db[d] = "orphan"
      <4>1. ASSUME NEW d, <<d, p>> \in bridged, db[d] # "orphan"
            PROVE  <<d, p>> \notin rest
        <5>1. PICK e : e = <<d, p>>
          OBVIOUS
        <5>2. e \in bridged /\ e[1] = d /\ e[2] = p
          BY <4>1, <5>1
        <5>3. PICK n \in EndsOf(p) : d \in members[n]
          BY <2>6, <4>1, <5>2 DEF BridgeOK, BridgedAreMembers, Stays
        <5>4. HasContainer(d) /\ p \in bridges /\ Host[d] = pserver[p]
          BY <5>2, BridgeFacts DEF BridgedExist
        <5>5. d \in known
          BY <1>2, <4>1, <5>3, <5>4 DEF HasRow, HasContainer
        <5>6. <<d, p>> \in Unbridging(known, p, pserver[p])
          BY <5>4, <5>5 DEF Unbridging, CanBridge
        <5>7. QED
          BY <1>2, <5>6
      <4>2. QED
        BY <2>1, <4>1
    <3>2. Abandoned(p)'
      BY <1>7, <1>9, <3>1 DEF Abandoned, HoldsBridge
    <3>3. <<p, FALSE>> \in l /\ TakesDown(c, p)'
      BY <1>1, <1>5 DEF TakesDown, EndsOf
    <3>4. TakenDown(p)'
      BY <1>5, <3>3 DEF TakenDown
    <3>5. Exclusive(p)'
      BY <1>5, <1>7, <2>6, ContinuesAlone DEF BridgeOK, Working, PeerRow, tasks
    <3>6. StatusOfBridge(p)'
      BY <1>7, <2>6, <3>2, <3>4, StepFacts DEF BridgeOK, StatusOfBridge, Working, tasks
    <3>7. Listed(p)'
      <4>1. Lists(c, p)'
        BY <1>5, <3>2, <3>3 DEF Lists
      <4>2. \A e \in Calls : e # c => (TakesDown(e, p)' => TakesDown(e, p)) /\ Alike(e, p)
        BY <1>5 DEF TakesDown, Alike, OthersStay
      <4>3. QED
        BY <1>7, <2>6, <3>2, <4>1, <4>2, ListedKept DEF BridgeOK, PeerRow
    <3>8. BridgedAreMembers(p)'
      <4>1. ASSUME NEW e \in bridged'
            PROVE  e[2] = p => db'[e[1]] = "orphan"
        <5>1. e = <<e[1], e[2]>>
          BY <1>9, <2>1, <4>1, BridgedFacts
        <5>2. QED
          BY <1>7, <1>9, <3>1, <4>1, <5>1
      <4>2. QED
        BY <4>1 DEF BridgedAreMembers
    <3>9. MembersAreBridged(p)'
      BY <3>4 DEF MembersAreBridged
    <3>10. TaskConnects(p)'
      BY <1>7, <2>6, BridgeFacts, StepFacts DEF TaskConnects, NothingToDo, Working, tasks
    <3>11. QED
      BY <3>5, <3>6, <3>7, <3>8, <3>9, <3>10 DEF BridgeOK
  <2>7. \A q \in Peerings : q # p =>
           /\ peer'[q] = peer[q] /\ bridge'[q] = bridge[q] /\ (q \in bridges' <=> q \in bridges)
           /\ \A d : <<d, q>> \in bridged' <=> <<d, q>> \in bridged
    BY <1>7, <1>9, <2>1, <2>2
  <2>8. UNCHANGED <<db, members, pserver, tasks>>
    BY <1>7
  <2>9. QED
    BY <1>5, <1>6, <1>7, <2>4, <2>5, <2>6, <2>7, <2>8, ListStepBridges
<1>10. QED
  BY <1>2, <1>8, <1>9 DEF TakeDownBridge

(* The bridge is gone before the row.                                      *)
LEMMA DeletePeeringBridges ==
  ASSUME NetworksInv, NetworksInv', FirewallInv, BridgesInv, NEW c \in Calls,
         NEW p \in Peerings, DeletePeering(c, p)
  PROVE  BridgesInv'
<1>1. PICK l : l = call[c].list \ {<<p, FALSE>>}
  OBVIOUS
<1>2. /\ call[c].at = "peerings" /\ <<p, FALSE>> \in call[c].list
      /\ call' = [call EXCEPT ![c].list = l]
  BY <1>1, CallFacts DEF DeletePeering, CallsOK
<1>3. \A q \in Peerings : q # p =>
        \A x \in BOOLEAN : <<q, x>> \in l <=> <<q, x>> \in call[c].list
  BY <1>1, PairFacts
<1>4. /\ OthersStay(c) /\ Continues(c) /\ TakesDown(c, p)
      /\ call[c].op \in {"unpeer", "drop"}
      /\ call'[c].op = call[c].op /\ call'[c].at = "peerings" /\ call'[c].n = call[c].n
      /\ call'[c].p = call[c].p /\ call'[c].d = call[c].d /\ call'[c].list = l
  BY <1>2, ListMoves
<1>5. Concerns(c, p) /\ \A q \in Peerings : q # p => Alike(c, q)
  BY <1>2, <1>3, <1>4, ConcernFacts DEF Alike
<1>6. /\ UNCHANGED <<db, members, pserver, tasks, bridges, bridged>>
      /\ disturbed \subseteq disturbed'
      /\ peer'[p] = "gone" /\ bridge'[p] = FALSE
      /\ \A q \in Peerings : q # p => peer'[q] = peer[q] /\ bridge'[q] = bridge[q]
  BY HistoryGrows, InvParts DEF DeletePeering, netRows, dockerPeer, PeerTypes
<1>7. BridgedExist'
  BY <1>6, BridgeFacts DEF BridgedExist, HasContainer
<1>8. NoBridgeYet(p)'
  BY <1>6 DEF NoBridgeYet
<1>9. ASSUME BridgeOK(p), ~Working(p)
      PROVE  BridgeOK(p)'
  <2>1. Abandoned(p)'
    BY <1>2, <1>4, <1>6, <1>9, SameAbandoned DEF BridgeOK, Listed, Lists
  <2>2. Exclusive(p)'
    BY <1>4, <1>6, <1>9, ContinuesAlone DEF BridgeOK, Working, PeerRow, tasks
  <2>3. StatusOfBridge(p)'
    BY <1>6, <1>9, <2>1, StepFacts DEF StatusOfBridge, Working, tasks
  <2>4. Listed(p)'
    <3>1. Lists(c, p)'
      BY <1>4, <1>6, <2>1 DEF Lists, PeerRow
    <3>2. \A e \in Calls : e # c => (TakesDown(e, p)' => TakesDown(e, p)) /\ Alike(e, p)
      BY <1>4 DEF TakesDown, Alike, OthersStay
    <3>3. QED
      BY <1>6, <1>9, <2>1, <3>1, <3>2, ListedKept DEF BridgeOK, PeerRow
  <2>5. BridgedAreMembers(p)'
    <3>1. \A n \in EndsOf(p) : \A d : Stays(n, d) => Stays(n, d)'
      BY <1>4, <1>6 DEF Stays, Removes, Is, OthersStay
    <3>2. QED
      BY <1>6, <1>9, <3>1, BridgedKept DEF BridgeOK
  <2>6. MembersAreBridged(p)'
    BY <1>6 DEF MembersAreBridged
  <2>7. TaskConnects(p)'
    BY <1>6, <1>9, BridgeFacts, StepFacts DEF TaskConnects, NothingToDo, Working, tasks
  <2>8. QED
    BY <2>2, <2>3, <2>4, <2>5, <2>6, <2>7 DEF BridgeOK
<1>10. QED
  BY <1>4, <1>5, <1>6, <1>7, <1>8, <1>9, ListStepBridges

(* The row of a network goes when those of its peerings are gone.          *)
LEMMA DeleteNetworkBridges ==
  ASSUME NetworksInv, NetworksInv', BridgesInv, NEW c \in Calls, DeleteNetwork(c)
  PROVE  BridgesInv'
<1>1. PICK k, m : k = call[c] /\ m = call'[c]
  OBVIOUS
<1>2. k.op = "drop" /\ k.at = "row" /\ CallsOK /\ k.op \in NetCalls
  BY <1>1, InvParts, StepFacts DEF DeleteNetwork, At
<1>3. OthersStay(c) /\ m = Idle /\ Continues(c) /\ disturbed \subseteq disturbed'
  BY <1>1, <1>2, FinishMore, IdleFacts, HistoryGrows DEF DeleteNetwork, Continues
<1>4. /\ UNCHANGED <<db, pserver, tasks, bridges, bridged>>
      /\ \A n \in Nets : n # k.n => members'[n] = members[n]
      /\ \A p \in Peerings :
           /\ peer'[p] = IF p \in PeeringsOf(k.n) THEN "gone" ELSE peer[p]
           /\ bridge'[p] <=> bridge[p] /\ p \notin PeeringsOf(k.n)
           /\ p \notin PeeringsOf(k.n) => bridge'[p] = bridge[p]
  BY <1>1, InvParts DEF DeleteNetwork, dockerPeer, RowTypes, PeerTypes
<1>5. BridgedExist' /\ \A p \in Peerings : NoBridgeYet(p)' /\ NothingToDo(p)'
  BY <1>4, BridgeFacts DEF BridgedExist, HasContainer, NoBridgeYet, NothingToDo, tasks
<1>6. \A p \in Peerings : ~Concerns(c, p)' /\ ~TakesDown(c, p)'
  BY <1>1, <1>3, IdleFacts, StepFacts DEF Concerns, PairCall, Attends, TakesDown
<1>7. ASSUME NEW p \in Peerings, Clean(p)', k.n \in EndsOf(p)
      PROVE  BridgeOK(p)'
  <2>1. Clean(p) /\ BridgeOK(p)
    BY <1>3, <1>7, CleanBefore, BridgeFacts
  <2>2. TakesDown(c, p) /\ Attends(c, p)
    BY <1>1, <1>2, <1>7 DEF TakesDown, Attends
  <2>3. ~PeerRow(p) /\ ~Working(p)
    BY <1>1, <1>2, <2>1, <2>2 DEF BridgeOK, Listed, Lists, Exclusive
  <2>4. Abandoned(p)
    BY <2>1, <2>3 DEF BridgeOK, StatusOfBridge, PeerRow
  <2>5. peer'[p] = peer[p] /\ bridge'[p] = bridge[p]
    BY <1>4, <2>3 DEF PeeringsOf
  <2>6. Exclusive(p)'
    BY <1>3, <1>4, <2>1, <2>5, ContinuesAlone DEF BridgeOK, Working, PeerRow, tasks
  <2>7. StatusOfBridge(p)'
    BY <1>4, <2>1, <2>3, <2>5, SameAbandoned, StatusKept DEF BridgeOK, PeerRow, tasks
  <2>8. Listed(p)'
    <3>1. \A e \in Calls : TakesDown(e, p)' => TakesDown(e, p) /\ Alike(e, p)
      BY <1>3, <1>6 DEF TakesDown, Alike, OthersStay
    <3>2. QED
      BY <1>4, <2>1, <2>5, <3>1, SameAbandoned, ListedKept DEF BridgeOK, PeerRow
  <2>9. BridgedAreMembers(p)'
    <3>1. ASSUME NEW l \in bridged, l[2] = p
          PROVE  db[l[1]] = "orphan"
      <4>1. p \in bridges /\ <<l[1], p>> \in bridged
        BY <3>1, BridgeFacts, BridgedFacts DEF BridgedExist
      <4>2. QED
        BY <2>4, <4>1 DEF Abandoned
    <3>2. QED
      BY <1>4, <3>1 DEF BridgedAreMembers
  <2>10. MembersAreBridged(p)'
    BY <2>3, <2>5 DEF MembersAreBridged, PeerRow
  <2>11. TaskConnects(p)'
    BY <1>4, <2>3, BridgeFacts, StepFacts DEF TaskConnects, NothingToDo, Working, tasks
  <2>12. QED
    BY <2>6, <2>7, <2>8, <2>9, <2>10, <2>11 DEF BridgeOK
<1>8. ASSUME NEW p \in Peerings, Clean(p)', k.n \notin EndsOf(p)
      PROVE  BridgeOK(p)'
  <2>1. Clean(p) /\ BridgeOK(p)
    BY <1>3, <1>8, CleanBefore, BridgeFacts
  <2>2. p \notin PeeringsOf(k.n)
    BY <1>8 DEF PeeringsOf
  <2>3. BridgeStays(p)
    BY <1>4, <1>8, <2>2, EndFacts DEF BridgeStays, tasks
  <2>4. ~Concerns(c, p)
    BY <1>1, <1>2, <1>8 DEF Concerns, PairCall, Attends
  <2>5. CallsSteady(p)
    BY <1>3, <1>6, <2>4 DEF CallsSteady, OthersStay, Alike
  <2>6. QED
    BY <1>4, <2>1, <2>3, <2>5, BridgeKept
<1>9. QED
  BY <1>5, <1>7, <1>8 DEF BridgesInv

-----------------------------------------------------------------------------
(* create_peering and its task *)

LEMMA InsertPeeringBridges ==
  ASSUME NetworksInv, NetworksInv', FirewallInv, BridgesInv, NEW c \in Calls, InsertPeering(c)
  PROVE  BridgesInv'
<1>1. PICK k, m : k = call[c] /\ m = call'[c]
  OBVIOUS
<1>2. k.op = "peer" /\ k.at = "insert" /\ CallsOK /\ k.p \in Peerings /\ peer[k.p] = "unborn"
  BY <1>1, CallFacts, InvParts, FirewallFacts DEF InsertPeering, At, PeerCallOK, CallOK
<1>3. OthersStay(c) /\ m = Idle /\ Continues(c) /\ disturbed \subseteq disturbed'
  BY <1>1, <1>2, FinishMore, IdleFacts, HistoryGrows DEF InsertPeering, Continues
<1>4. UNCHANGED <<db, members, bridge, bridges, bridged, todo>>
  BY DEF InsertPeering, netRows, dockerPeer
<1>5. \A p \in Peerings : ~Concerns(c, p)' /\ ~TakesDown(c, p)' /\ ~TakesDown(c, p)
  BY <1>1, <1>2, <1>3, IdleFacts, StepFacts DEF Concerns, PairCall, Attends, TakesDown
<1>6. CASE UNCHANGED <<peer, pserver, task>>
  <2>1. BridgesStay
    BY <1>4, <1>6 DEF BridgesStay, tasks
  <2>2. \A p \in Peerings : Harmless(c, p)
    BY <1>1, <1>2, <1>3, <1>5, IdleFacts, HarmlessMove, StepFacts DEF Is
  <2>3. QED
    BY <1>3, <2>1, <2>2, ContinuesInv
<1>7. CASE /\ peer' = [peer EXCEPT ![k.p] = "pending"]
           /\ pserver' = [pserver EXCEPT ![k.p] = k.host]
           /\ task' = [task EXCEPT ![k.p] = "spawned"]
  <2>1. PICK p \in Peerings : p = k.p
    BY <1>2
  <2>2. /\ peer'[p] = "pending" /\ task'[p] = "spawned"
        /\ \A q \in Peerings : q # p =>
             peer'[q] = peer[q] /\ pserver'[q] = pserver[q] /\ task'[q] = task[q]
    BY <1>7, <2>1, InvParts DEF PeerTypes
  <2>3. p \notin bridges /\ ~bridge[p] /\ ~Working(p) /\ todo[p] = {}
    BY <1>2, <2>1, BridgeFacts, FirewallFacts, StepFacts DEF NoBridgeYet, NothingToDo, Working
  <2>4. \A e \in bridged : e[2] # p /\ e[2] \in Peerings
    BY <2>3, BridgeFacts, BridgedFacts DEF BridgedExist
  <2>5. BridgedExist'
    BY <1>4, <2>2, <2>4, BridgeFacts DEF BridgedExist, HasContainer
  <2>6. ASSUME NEW q \in Peerings
        PROVE  NoBridgeYet(q)' /\ NothingToDo(q)'
    BY <1>4, <2>2, <2>3, BridgeFacts DEF NoBridgeYet, NothingToDo
  <2>7. ASSUME NEW q \in Peerings, q # p, Clean(q)'
        PROVE  BridgeOK(q)'
    <3>1. BridgeOK(q)
      BY <1>3, <2>7, CleanBefore, BridgeFacts
    <3>2. BridgeStays(q)
      BY <1>4, <2>2, <2>7 DEF BridgeStays
    <3>3. ~Concerns(c, q)
      BY <1>1, <1>2, <2>1, <2>7, StepFacts DEF Concerns, PairCall, Attends
    <3>4. CallsSteady(q)
      BY <1>3, <1>5, <3>3 DEF CallsSteady, OthersStay, Alike
    <3>5. QED
      BY <1>4, <3>1, <3>2, <3>4, BridgeKept
  <2>8. ASSUME Clean(p)'
        PROVE  BridgeOK(p)'
    <3>1. BridgeOK(p)
      BY <1>3, <2>8, CleanBefore, BridgeFacts
    <3>2. PairCall(c, p)
      BY <1>1, <1>2, <2>1 DEF PairCall
    <3>3. \A e \in Calls : /\ PairCall(e, p) => e = c
                           /\ ~Attends(e, p)
      BY <3>1, <3>2 DEF BridgeOK, Exclusive
    <3>4. \A e \in Calls : ~PairCall(e, p)' /\ ~Attends(e, p)'
      BY <1>3, <1>5, <3>3 DEF PairCall, Attends, OthersStay, Concerns
    <3>5. Exclusive(p)'
      BY <3>4 DEF Exclusive
    <3>6. StatusOfBridge(p)'
      BY <1>4, <2>2, <2>3, StepFacts DEF StatusOfBridge, Working
    <3>7. \A e \in Calls : ~TakesDown(e, p)'
      BY <3>4 DEF TakesDown, PairCall, Attends, NetCalls
    <3>8. Listed(p)'
      BY <3>7 DEF Listed
    <3>9. BridgedAreMembers(p)'
      BY <1>4, <2>4 DEF BridgedAreMembers
    <3>10. MembersAreBridged(p)'
      BY <2>2 DEF MembersAreBridged
    <3>11. TaskConnects(p)'
      BY <1>4, <2>2, <2>3 DEF TaskConnects
    <3>12. QED
      BY <3>5, <3>6, <3>8, <3>9, <3>10, <3>11 DEF BridgeOK
  <2>9. QED
    BY <2>5, <2>6, <2>7, <2>8 DEF BridgesInv
<1>8. QED
  BY <1>1, <1>6, <1>7 DEF InsertPeering

(* A task is alone with its peering, and with members that stay.           *)
LEMMA TaskAlone ==
  ASSUME NetworksInv, NEW p \in Peerings, BridgeOK(p), Working(p), call' = call
  PROVE  /\ \A c \in Calls : ~Concerns(c, p) /\ ~TakesDown(c, p)
         /\ Exclusive(p)' /\ Listed(p)' /\ ~TakenDown(p) /\ ~TakenDown(p)'
         /\ peer[p] = "pending"
         /\ \A n \in EndsOf(p) : \A d : Stays(n, d) <=> d \in members[n]
<1>1. \A c \in Calls : ~Concerns(c, p)
  BY DEF BridgeOK, Exclusive, Concerns
<1>2. \A c \in Calls : ~TakesDown(c, p) /\ ~TakesDown(c, p)'
  BY <1>1, ConcernFacts DEF TakesDown
<1>3. \A c \in Calls : ~PairCall(c, p)' /\ ~Attends(c, p)'
  BY <1>1 DEF Concerns, PairCall, Attends
<1>4. Exclusive(p)'
  BY <1>3 DEF Exclusive
<1>5. Listed(p)' /\ ~TakenDown(p) /\ ~TakenDown(p)'
  BY <1>2 DEF Listed, TakenDown
<1>6. peer[p] = "pending"
  BY DEF BridgeOK, StatusOfBridge
<1>7. \A n \in EndsOf(p) : \A d : Stays(n, d) <=> d \in members[n]
  BY <1>1, ConcernFacts DEF Stays
<1>8. QED
  BY <1>1, <1>2, <1>4, <1>5, <1>6, <1>7

LEMMA TaskStepBridges ==
  ASSUME NetworksInv, NetworksInv', BridgesInv, NEW p \in Peerings, Working(p),
         UNCHANGED <<db, members, pserver, call>>, disturbed \subseteq disturbed',
         BridgedExist', NoBridgeYet(p)', NothingToDo(p)',
         \A q \in Peerings : q # p =>
           /\ peer'[q] = peer[q] /\ bridge'[q] = bridge[q] /\ task'[q] = task[q]
           /\ todo'[q] = todo[q] /\ (q \in bridges' <=> q \in bridges)
           /\ \A d : <<d, q>> \in bridged' <=> <<d, q>> \in bridged,
         Clean(p)' /\ BridgeOK(p) /\ peer[p] = "pending" =>
           StatusOfBridge(p)' /\ BridgedAreMembers(p)' /\ MembersAreBridged(p)' /\ TaskConnects(p)'
  PROVE  BridgesInv'
<1>1. ASSUME NEW q \in Peerings
      PROVE  NoBridgeYet(q)' /\ NothingToDo(q)'
  BY BridgeFacts DEF NoBridgeYet, NothingToDo
<1>2. ASSUME NEW q \in Peerings, q # p, Clean(q)'
      PROVE  BridgeOK(q)'
  <2>1. BridgeOK(q)
    BY <1>2, CleanBefore, BridgeFacts
  <2>2. BridgeStays(q)
    BY <1>2 DEF BridgeStays
  <2>3. CallsSteady(q)
    BY DEF CallsSteady, Alike
  <2>4. QED
    BY <2>1, <2>2, <2>3, BridgeKept
<1>3. ASSUME Clean(p)'
      PROVE  BridgeOK(p)'
  <2>1. BridgeOK(p)
    BY <1>3, CleanBefore, BridgeFacts
  <2>2. Exclusive(p)' /\ Listed(p)' /\ peer[p] = "pending"
    BY <2>1, TaskAlone
  <2>3. QED
    BY <1>3, <2>1, <2>2 DEF BridgeOK
<1>4. QED
  BY <1>1, <1>2, <1>3 DEF BridgesInv

(* A step that fails disturbs the peering.                                 *)
LEMMA TaskFault ==
  ASSUME NEW p \in Peerings, Working(p), FaultOn(TaskUses(p))
  PROVE  ~Clean(p)'
<1>1. p \in disturbed'
  BY HistoryGrows DEF TaskUses
<1>2. QED
  BY <1>1 DEF Clean

LEMMA TaskNotUnborn ==
  ASSUME FirewallInv, NEW p \in Peerings, Working(p)
  PROVE  peer[p] \in {"pending", "gone"}
BY FirewallFacts

LEMMA MakeBridgeBridges ==
  ASSUME NetworksInv, NetworksInv', FirewallInv, BridgesInv, NEW p \in Peerings, MakeBridge(p)
  PROVE  BridgesInv'
<1>1. task[p] = "spawned" /\ Working(p) /\ peer[p] \in {"pending", "gone"}
  BY TaskNotUnborn, StepFacts DEF MakeBridge, Working
<1>2. /\ UNCHANGED <<db, members, pserver, bridge, bridged, call, todo>>
      /\ disturbed \subseteq disturbed'
  BY HistoryGrows DEF MakeBridge, netRows
<1>3. BridgedExist /\ NothingToDo(p) /\ NoBridgeYet(p)
  BY BridgeFacts
<1>4. todo'[p] = {}
  BY <1>1, <1>2, <1>3 DEF NothingToDo
<1>5. NothingToDo(p)'
  BY <1>4 DEF NothingToDo
<1>6. CASE bridges' = bridges \cup {p} /\ task' = [task EXCEPT ![p] = "made"] /\ UNCHANGED peer
  <2>1. BridgedExist' /\ NoBridgeYet(p)'
    BY <1>1, <1>2, <1>3, <1>6 DEF BridgedExist, HasContainer, NoBridgeYet
  <2>2. task'[p] = "made" /\ \A q \in Peerings : q # p => task'[q] = task[q]
    BY <1>6, InvParts DEF PeerTypes
  <2>3. ASSUME BridgeOK(p), peer[p] = "pending"
        PROVE  StatusOfBridge(p)' /\ BridgedAreMembers(p)' /\ MembersAreBridged(p)' /\ TaskConnects(p)'
    <3>1. StatusOfBridge(p)'
      BY <1>1, <1>2, <1>6, <2>2, <2>3, StepFacts DEF BridgeOK, StatusOfBridge, Working
    <3>2. \A n \in EndsOf(p) : \A d : Stays(n, d)' <=> Stays(n, d)
      BY <1>2 DEF Stays
    <3>3. BridgedAreMembers(p)'
      BY <1>2, <2>3, <3>2, BridgedKept DEF BridgeOK
    <3>4. MembersAreBridged(p)' /\ TaskConnects(p)'
      BY <1>4, <1>6, <2>2, <2>3 DEF MembersAreBridged, TaskConnects
    <3>5. QED
      BY <3>1, <3>3, <3>4
  <2>4. \A q \in Peerings : q # p =>
          /\ peer'[q] = peer[q] /\ bridge'[q] = bridge[q] /\ task'[q] = task[q]
          /\ todo'[q] = todo[q] /\ (q \in bridges' <=> q \in bridges)
          /\ \A d : <<d, q>> \in bridged' <=> <<d, q>> \in bridged
    BY <1>2, <1>6, <2>2
  <2>5. QED
    BY <1>1, <1>2, <1>5, <2>1, <2>3, <2>4, TaskStepBridges
<1>7. CASE SetPeerStatus(p, "error") /\ UNCHANGED bridges
  <2>1. /\ \A q \in Peerings : q # p => peer'[q] = peer[q] /\ task'[q] = task[q]
        /\ task'[p] = "done"
        /\ peer[p] = "pending" => peer'[p] = "error"
        /\ peer'[p] # "unborn"
    BY <1>1, <1>7, InvParts DEF SetPeerStatus, PeerTypes, PeerRow
  <2>2. BridgedExist' /\ NoBridgeYet(p)'
    BY <1>2, <1>3, <1>7, <2>1 DEF BridgedExist, HasContainer, NoBridgeYet
  <2>3. ASSUME BridgeOK(p), peer[p] = "pending"
        PROVE  StatusOfBridge(p)' /\ BridgedAreMembers(p)' /\ MembersAreBridged(p)' /\ TaskConnects(p)'
    <3>1. StatusOfBridge(p)'
      BY <1>1, <1>2, <1>7, <2>1, <2>3, StepFacts
      DEF BridgeOK, StatusOfBridge, Working, Abandoned
    <3>2. \A n \in EndsOf(p) : \A d : Stays(n, d)' <=> Stays(n, d)
      BY <1>2 DEF Stays
    <3>3. BridgedAreMembers(p)'
      BY <1>2, <2>3, <3>2, BridgedKept DEF BridgeOK
    <3>4. MembersAreBridged(p)' /\ TaskConnects(p)'
      BY <1>4, <2>1, <2>3 DEF MembersAreBridged, TaskConnects
    <3>5. QED
      BY <3>1, <3>3, <3>4
  <2>4. \A q \in Peerings : q # p =>
          /\ peer'[q] = peer[q] /\ bridge'[q] = bridge[q] /\ task'[q] = task[q]
          /\ todo'[q] = todo[q] /\ (q \in bridges' <=> q \in bridges)
          /\ \A d : <<d, q>> \in bridged' <=> <<d, q>> \in bridged
    BY <1>2, <1>7, <2>1
  <2>5. QED
    BY <1>1, <1>2, <1>5, <2>2, <2>3, <2>4, TaskStepBridges
<1>8. CASE /\ FaultOn(TaskUses(p)) /\ task' = [task EXCEPT ![p] = "lost"]
           /\ UNCHANGED <<peer, bridges>>
  <2>1. ~Clean(p)'
    BY <1>1, <1>8, TaskFault
  <2>2. BridgedExist' /\ NoBridgeYet(p)'
    BY <1>1, <1>2, <1>3, <1>8 DEF BridgedExist, HasContainer, NoBridgeYet
  <2>3. \A q \in Peerings : q # p =>
          /\ peer'[q] = peer[q] /\ bridge'[q] = bridge[q] /\ task'[q] = task[q]
          /\ todo'[q] = todo[q] /\ (q \in bridges' <=> q \in bridges)
          /\ \A d : <<d, q>> \in bridged' <=> <<d, q>> \in bridged
    BY <1>2, <1>8, InvParts DEF PeerTypes
  <2>4. QED
    BY <1>1, <1>2, <1>5, <2>1, <2>2, <2>3, TaskStepBridges
<1>9. QED
  BY <1>6, <1>7, <1>8 DEF MakeBridge

LEMMA SaveBridgeBridges ==
  ASSUME NetworksInv, NetworksInv', FirewallInv, BridgesInv, NEW p \in Peerings, SaveBridge(p)
  PROVE  BridgesInv'
<1>1. task[p] = "made" /\ Working(p) /\ peer[p] \in {"pending", "gone"}
  BY TaskNotUnborn, StepFacts DEF SaveBridge, Working
<1>2. /\ UNCHANGED <<db, members, peer, pserver, bridges, bridged, call, todo>>
      /\ disturbed \subseteq disturbed'
  BY HistoryGrows DEF SaveBridge, netRows, dockerPeer
<1>3. BridgedExist /\ NothingToDo(p)
  BY BridgeFacts
<1>4. todo'[p] = {}
  BY <1>1, <1>2, <1>3 DEF NothingToDo
<1>5. BridgedExist' /\ NoBridgeYet(p)' /\ NothingToDo(p)'
  BY <1>1, <1>2, <1>3, <1>4 DEF BridgedExist, HasContainer, NoBridgeYet, NothingToDo
<1>6. /\ task'[p] = "saved"
      /\ Clean(p)' => bridge'[p] = PeerRow(p)
      /\ \A q \in Peerings : q # p => bridge'[q] = bridge[q] /\ task'[q] = task[q]
  BY <1>1, InvParts, TaskFault DEF SaveBridge, PeerTypes
<1>7. ASSUME Clean(p)', BridgeOK(p), peer[p] = "pending"
      PROVE  StatusOfBridge(p)' /\ BridgedAreMembers(p)' /\ MembersAreBridged(p)' /\ TaskConnects(p)'
  <2>1. bridge'[p]
    BY <1>6, <1>7 DEF PeerRow
  <2>2. StatusOfBridge(p)'
    BY <1>1, <1>2, <1>6, <1>7, <2>1, StepFacts DEF BridgeOK, StatusOfBridge, Working
  <2>3. \A n \in EndsOf(p) : \A d : Stays(n, d)' <=> Stays(n, d)
    BY <1>2 DEF Stays
  <2>4. BridgedAreMembers(p)'
    BY <1>2, <1>7, <2>3, BridgedKept DEF BridgeOK
  <2>5. MembersAreBridged(p)' /\ TaskConnects(p)'
    BY <1>2, <1>4, <1>6, <1>7 DEF MembersAreBridged, TaskConnects
  <2>6. QED
    BY <2>2, <2>4, <2>5
<1>8. \A q \in Peerings : q # p =>
        /\ peer'[q] = peer[q] /\ bridge'[q] = bridge[q] /\ task'[q] = task[q]
        /\ todo'[q] = todo[q] /\ (q \in bridges' <=> q \in bridges)
        /\ \A d : <<d, q>> \in bridged' <=> <<d, q>> \in bridged
  BY <1>2, <1>6
<1>9. QED
  BY <1>1, <1>2, <1>5, <1>7, <1>8, TaskStepBridges

LEMMA ReadMembersBridges ==
  ASSUME NetworksInv, NetworksInv', FirewallInv, BridgesInv, NEW p \in Peerings, ReadMembers(p)
  PROVE  BridgesInv'
<1>1. task[p] \in {"saved", "first"} /\ todo[p] = {}
  BY DEF ReadMembers
<1>2. Working(p) /\ peer[p] \in {"pending", "gone"}
  BY <1>1, TaskNotUnborn, StepFacts DEF Working
<1>3. /\ UNCHANGED <<db, members, peer, pserver, bridge, bridges, bridged, call>>
      /\ disturbed \subseteq disturbed'
  BY HistoryGrows DEF ReadMembers, netRows, peerRows, dockerPeer
<1>4. /\ \A q \in Peerings : q # p => task'[q] = task[q] /\ todo'[q] = todo[q]
      /\ \/ task[p] = "saved" /\ task'[p] = "first" /\ todo'[p] = members[Ends[p][1]]
         \/ task[p] = "first" /\ task'[p] = "second" /\ todo'[p] = members[Ends[p][2]]
  BY InvParts DEF ReadMembers, PeerTypes
<1>5. BridgedExist' /\ NoBridgeYet(p)' /\ NothingToDo(p)'
  BY <1>2, <1>3, <1>4, BridgeFacts DEF BridgedExist, HasContainer, NoBridgeYet, NothingToDo
<1>6. ASSUME BridgeOK(p), peer[p] = "pending"
      PROVE  StatusOfBridge(p)' /\ BridgedAreMembers(p)' /\ MembersAreBridged(p)' /\ TaskConnects(p)'
  <2>1. StatusOfBridge(p)'
    BY <1>1, <1>3, <1>4, <1>6, StepFacts DEF BridgeOK, StatusOfBridge, Working
  <2>2. \A n \in EndsOf(p) : \A d : Stays(n, d)' <=> Stays(n, d)
    BY <1>3 DEF Stays
  <2>3. BridgedAreMembers(p)'
    BY <1>3, <1>6, <2>2, BridgedKept DEF BridgeOK
  <2>4. MembersAreBridged(p)'
    BY <1>3, <1>6 DEF MembersAreBridged
  <2>5. TaskConnects(p)'
    <3>1. Ends[p][1] \in EndsOf(p) /\ Ends[p][2] \in EndsOf(p)
      BY DEF EndsOf
    <3>2. CASE task[p] = "saved" /\ task'[p] = "first" /\ todo'[p] = members[Ends[p][1]]
      BY <1>3, <3>1, <3>2 DEF TaskConnects, EndsOf
    <3>3. CASE task[p] = "first" /\ task'[p] = "second" /\ todo'[p] = members[Ends[p][2]]
      <4>1. \A d \in members[Ends[p][1]] : Reachable(d, p) => <<d, p>> \in bridged
        BY <1>1, <1>6, <3>3 DEF BridgeOK, TaskConnects
      <4>2. QED
        BY <1>3, <3>1, <3>3, <4>1 DEF TaskConnects, EndsOf, Reachable
    <3>4. QED
      BY <1>4, <3>2, <3>3
  <2>6. QED
    BY <2>1, <2>3, <2>4, <2>5
<1>7. \A q \in Peerings : q # p =>
        /\ peer'[q] = peer[q] /\ bridge'[q] = bridge[q] /\ task'[q] = task[q]
        /\ todo'[q] = todo[q] /\ (q \in bridges' <=> q \in bridges)
        /\ \A d : <<d, q>> \in bridged' <=> <<d, q>> \in bridged
  BY <1>3, <1>4
<1>8. QED
  BY <1>2, <1>3, <1>5, <1>6, <1>7, TaskStepBridges

LEMMA ConnectMemberBridges ==
  ASSUME NetworksInv, NetworksInv', FirewallInv, BridgesInv, NEW p \in Peerings,
         NEW d \in Dbs, ConnectMember(p, d)
  PROVE  BridgesInv'
<1>1. d \in todo[p] /\ task[p] \in {"first", "second"}
  BY BridgeFacts DEF ConnectMember, NothingToDo
<1>2. Working(p) /\ peer[p] \in {"pending", "gone"}
  BY <1>1, TaskNotUnborn, StepFacts DEF Working
<1>3. /\ UNCHANGED <<db, members, peer, pserver, bridge, bridges, call, task>>
      /\ disturbed \subseteq disturbed'
  BY HistoryGrows DEF ConnectMember, netRows, peerRows
<1>4. todo'[p] = todo[p] \ {d} /\ \A q \in Peerings : q # p => todo'[q] = todo[q]
  BY InvParts DEF ConnectMember, PeerTypes
<1>5. \/ FaultOn(TaskUses(p)) /\ UNCHANGED bridged
      \/ bridged' = IF HasRow(d) /\ CanBridge(d, p, pserver[p])
                  THEN bridged \cup {<<d, p>>} ELSE bridged
  BY DEF ConnectMember
<1>6. /\ \A e, q : <<e, q>> \in bridged' =>
           <<e, q>> \in bridged \/ (e = d /\ q = p /\ HasRow(d) /\ CanBridge(d, p, pserver[p]))
      /\ \A e, q : <<e, q>> \in bridged => <<e, q>> \in bridged'
      /\ Clean(p)' /\ HasRow(d) /\ CanBridge(d, p, pserver[p]) => <<d, p>> \in bridged'
  BY <1>2, <1>5, TaskFault, PairFacts
<1>7. BridgedExist'
  <2>1. ASSUME NEW l \in bridged', l \notin bridged
        PROVE  HasContainer(l[1]) /\ l[2] \in bridges /\ Host[l[1]] = pserver[l[2]]
    <3>1. l = <<d, p>> /\ CanBridge(d, p, pserver[p])
      BY <1>5, <2>1
    <3>2. QED
      BY <3>1 DEF CanBridge
  <2>2. QED
    BY <1>3, <2>1, BridgeFacts DEF BridgedExist, HasContainer
<1>8. NoBridgeYet(p)' /\ NothingToDo(p)'
  BY <1>1, <1>2, <1>3 DEF NoBridgeYet, NothingToDo
<1>9. ASSUME Clean(p)', BridgeOK(p), peer[p] = "pending"
      PROVE  StatusOfBridge(p)' /\ BridgedAreMembers(p)' /\ MembersAreBridged(p)' /\ TaskConnects(p)'
  <2>1. ~TakenDown(p) /\ \A n \in EndsOf(p) : \A e : Stays(n, e) <=> e \in members[n]
    BY <1>2, <1>3, <1>9, TaskAlone
  <2>2. StatusOfBridge(p)'
    BY <1>3, <1>9 DEF BridgeOK, StatusOfBridge, Working
  <2>3. \A n \in EndsOf(p) : \A e : Stays(n, e)' <=> Stays(n, e)
    BY <1>3 DEF Stays
  <2>4. BridgedAreMembers(p)'
    <3>1. ASSUME NEW e, <<e, p>> \in bridged'
          PROVE  db[e] = "orphan" \/ \E n \in EndsOf(p) : Stays(n, e)
      <4>1. CASE <<e, p>> \in bridged
        <5>1. PICK l : l = <<e, p>>
          OBVIOUS
        <5>2. l \in bridged /\ l[1] = e /\ l[2] = p
          BY <4>1, <5>1
        <5>3. QED
          BY <1>9, <5>2 DEF BridgeOK, BridgedAreMembers
      <4>2. CASE e = d /\ HasRow(d) /\ CanBridge(d, p, pserver[p])
        <5>1. \E n \in EndsOf(p) : d \in members[n]
          BY <1>1, <1>9, <4>2 DEF BridgeOK, TaskConnects, CanBridge
        <5>2. QED
          BY <2>1, <4>2, <5>1
      <4>3. QED
        BY <1>6, <3>1, <4>1, <4>2
    <3>2. ASSUME NEW l \in bridged', l[2] = p
          PROVE  db'[l[1]] = "orphan" \/ \E n \in EndsOf(p) : Stays(n, l[1])'
      <4>1. bridged' \subseteq Dbs \X Peerings
        BY DEF NetworksInv, TypeOK
      <4>2. l = <<l[1], p>>
        BY <3>2, <4>1
      <4>3. QED
        BY <1>3, <2>3, <3>1, <3>2, <4>2
    <3>3. QED
      BY <3>2 DEF BridgedAreMembers, EndsOf
  <2>5. MembersAreBridged(p)'
    BY <1>3, <1>9 DEF MembersAreBridged
  <2>6. TaskConnects(p)'
    <3>1. Reachable(d, p) => HasRow(d) /\ CanBridge(d, p, pserver[p])
      BY <1>1, <1>9 DEF BridgeOK, StatusOfBridge, Reachable, CanBridge, HasContainer, HasRow
    <3>2. Reachable(d, p) => <<d, p>> \in bridged'
      BY <1>6, <1>9, <3>1
    <3>3. QED
      BY <1>3, <1>4, <1>6, <1>9, <3>2 DEF BridgeOK, TaskConnects, HasRow, Reachable, EndsOf
  <2>7. QED
    BY <2>2, <2>4, <2>5, <2>6
<1>10. \A q \in Peerings : q # p =>
        /\ peer'[q] = peer[q] /\ bridge'[q] = bridge[q] /\ task'[q] = task[q]
        /\ todo'[q] = todo[q] /\ (q \in bridges' <=> q \in bridges)
        /\ \A e : <<e, q>> \in bridged' <=> <<e, q>> \in bridged
  BY <1>3, <1>4, <1>6
<1>11. QED
  BY <1>2, <1>3, <1>7, <1>8, <1>9, <1>10, TaskStepBridges

LEMMA ActivateBridges ==
  ASSUME NetworksInv, NetworksInv', FirewallInv, BridgesInv, NEW p \in Peerings, Activate(p)
  PROVE  BridgesInv'
<1>1. task[p] = "second" /\ todo[p] = {}
  BY DEF Activate
<1>2. Working(p) /\ peer[p] \in {"pending", "gone"}
  BY <1>1, TaskNotUnborn, StepFacts DEF Working
<1>3. /\ UNCHANGED <<db, members, pserver, bridge, bridges, bridged, call, todo>>
      /\ disturbed \subseteq disturbed'
  BY HistoryGrows DEF Activate, netRows, dockerPeer
<1>4. /\ \A q \in Peerings : q # p => peer'[q] = peer[q] /\ task'[q] = task[q]
      /\ task'[p] \in {"done", "lost"} /\ peer'[p] # "unborn"
      /\ Clean(p)' /\ peer[p] = "pending" => peer'[p] = "active"
  BY <1>2, InvParts, TaskFault DEF Activate, SetPeerStatus, PeerTypes, PeerRow
<1>5. BridgedExist' /\ NoBridgeYet(p)' /\ NothingToDo(p)'
  BY <1>1, <1>3, <1>4, BridgeFacts DEF BridgedExist, HasContainer, NoBridgeYet, NothingToDo
<1>6. ASSUME Clean(p)', BridgeOK(p), peer[p] = "pending"
      PROVE  StatusOfBridge(p)' /\ BridgedAreMembers(p)' /\ MembersAreBridged(p)' /\ TaskConnects(p)'
  <2>1. StatusOfBridge(p)'
    BY <1>1, <1>3, <1>4, <1>6, StepFacts DEF BridgeOK, StatusOfBridge, Working
  <2>2. \A n \in EndsOf(p) : \A d : Stays(n, d)' <=> Stays(n, d)
    BY <1>3 DEF Stays
  <2>3. BridgedAreMembers(p)'
    BY <1>3, <1>6, <2>2, BridgedKept DEF BridgeOK
  <2>4. MembersAreBridged(p)'
    <3>1. \A n \in EndsOf(p) : \A d \in members[n] : Reachable(d, p) => <<d, p>> \in bridged
      BY <1>1, <1>6 DEF BridgeOK, TaskConnects, EndsOf
    <3>2. QED
      BY <1>3, <2>2, <3>1 DEF MembersAreBridged, Stays, Reachable, EndsOf
  <2>5. TaskConnects(p)'
    BY <1>1, <1>3, <1>4 DEF TaskConnects
  <2>6. QED
    BY <2>1, <2>3, <2>4, <2>5
<1>7. \A q \in Peerings : q # p =>
        /\ peer'[q] = peer[q] /\ bridge'[q] = bridge[q] /\ task'[q] = task[q]
        /\ todo'[q] = todo[q] /\ (q \in bridges' <=> q \in bridges)
        /\ \A d : <<d, q>> \in bridged' <=> <<d, q>> \in bridged
  BY <1>3, <1>4
<1>8. QED
  BY <1>2, <1>3, <1>5, <1>6, <1>7, TaskStepBridges

-----------------------------------------------------------------------------
(* delete_database: a container that runs keeps its place on the bridges,  *)
(* a membership goes after the container.                                  *)
LEMMA GoingBridges ==
  ASSUME NetworksInv, NetworksInv', BridgesInv, NEW d \in Dbs,
         UNCHANGED <<peer, pserver, bridge, bridges, call, tasks, disturbed>>,
         \A e : e # d => db'[e] = db[e], db[d] # "orphan",
         db'[d] # "running", HasContainer(d)' => HasContainer(d), HasRow(d)' => HasRow(d),
         bridged' \subseteq bridged, \A l \in bridged' : HasContainer(l[1])',
         \A e, q : e # d /\ <<e, q>> \in bridged => <<e, q>> \in bridged',
         \A n \in Nets : /\ members'[n] \subseteq members[n]
                         /\ \A e \in members[n] : HasRow(e)' \/ e # d => e \in members'[n]
  PROVE  BridgesInv'
<1>1. BridgedExist'
  BY BridgeFacts DEF BridgedExist
<1>2. \A p \in Peerings : NoBridgeYet(p)' /\ NothingToDo(p)'
  BY BridgeFacts DEF NoBridgeYet, NothingToDo, tasks
<1>3. \A e : /\ HasRow(e)' => HasRow(e)
             /\ HasContainer(e)' => HasRow(e)' \/ db'[e] = "orphan"
  BY DEF HasRow, HasContainer
<1>4. \A e, q : <<e, q>> \in bridged' => <<e, q>> \in bridged /\ HasContainer(e)'
  <2>1. ASSUME NEW e, NEW q, <<e, q>> \in bridged'
        PROVE  <<e, q>> \in bridged /\ HasContainer(e)'
    <3>1. PICK l \in bridged' : l = <<e, q>>
      BY <2>1
    <3>2. l[1] = e /\ l \in bridged
      BY <3>1
    <3>3. QED
      BY <3>1, <3>2
  <2>2. QED
    BY <2>1
<1>5. ASSUME NEW p \in Peerings, Clean(p)'
      PROVE  BridgeOK(p)'
  <2>1. BridgeOK(p)
    BY <1>5, CleanBefore, BridgeFacts
  <2>2. CallsSteady(p) /\ Ends[p][1] \in Nets /\ Ends[p][2] \in Nets
    BY EndFacts DEF CallsSteady, Alike
  <2>3. Exclusive(p)'
    BY <2>1, ExclusiveKept DEF BridgeOK, PairCall, Attends, Working, PeerRow, tasks
  <2>4. TakenDown(p)' <=> TakenDown(p)
    BY <2>2, SteadyTakenDown
  <2>5. Abandoned(p) => Abandoned(p)'
    BY <1>4, AbandonedKept
  <2>6. StatusOfBridge(p)'
    BY <2>1, <2>4, <2>5, StatusKept DEF BridgeOK, tasks
  <2>7. Listed(p)'
    BY <2>1, <2>5, ListedKept DEF BridgeOK, TakesDown, Alike, PeerRow
  <2>8. \A n \in EndsOf(p) : \A e : /\ Stays(n, e) /\ e \in members'[n] => Stays(n, e)'
                                    /\ Stays(n, e)' => Stays(n, e)
                                    /\ Syncing(n, e)' <=> Syncing(n, e)
    BY EndFacts DEF Stays, Syncing
  <2>9. BridgedAreMembers(p)'
    <3>1. ASSUME NEW e, <<e, p>> \in bridged', BridgedAreMembers(p)
          PROVE  db'[e] = "orphan" \/ \E n \in EndsOf(p) : Stays(n, e)'
      <4>1. <<e, p>> \in bridged /\ HasContainer(e)'
        BY <1>4, <3>1
      <4>2. PICK l \in bridged : l = <<e, p>>
        BY <4>1
      <4>3. l[1] = e /\ l[2] = p
        BY <4>2
      <4>4. db[e] = "orphan" \/ \E n \in EndsOf(p) : Stays(n, e)
        BY <3>1, <4>2, <4>3 DEF BridgedAreMembers
      <4>5. CASE db[e] = "orphan"
        BY <4>5
      <4>6. ASSUME db'[e] # "orphan", NEW n \in EndsOf(p), Stays(n, e)
            PROVE  Stays(n, e)'
        <5>1. HasRow(e)'
          BY <1>3, <4>1, <4>6
        <5>2. e \in members[n] /\ n \in Nets
          BY <4>6, EndFacts DEF Stays
        <5>3. e \in members'[n]
          BY <5>1, <5>2
        <5>4. QED
          BY <2>8, <4>6, <5>3
      <4>7. QED
        BY <4>4, <4>5, <4>6
    <3>2. ASSUME NEW l \in bridged', l[2] = p
          PROVE  db'[l[1]] = "orphan" \/ \E n \in EndsOf(p) : Stays(n, l[1])'
      <4>1. l = <<l[1], p>>
        BY <3>2, BridgedFacts
      <4>2. QED
        BY <2>1, <3>1, <3>2, <4>1 DEF BridgeOK
    <3>3. QED
      BY <3>2 DEF BridgedAreMembers, EndsOf
  <2>10. \A e \in Dbs : Reachable(e, p)' => Reachable(e, p) /\ e # d
    BY DEF Reachable
  <2>11. MembersAreBridged(p)'
    BY <2>1, <2>4, <2>8, <2>10 DEF BridgeOK, MembersAreBridged, EndsOf
  <2>12. TaskConnects(p)'
    <3>1. todo[p] \subseteq Dbs /\ \A n \in Nets : members[n] \subseteq Dbs
      BY InvParts DEF PeerTypes, RowTypes
    <3>2. task' = task /\ todo' = todo
      BY DEF tasks
    <3>3. \A e \in todo'[p] : HasRow(e)' => \E n \in EndsOf(p) : e \in members'[n]
      BY <1>3, <2>1, <3>1, <3>2, EndFacts DEF BridgeOK, TaskConnects
    <3>4. task'[p] = "first" => \A e \in members'[Ends[p][1]] \ todo'[p] :
            Reachable(e, p)' => <<e, p>> \in bridged'
      BY <2>1, <2>2, <2>10, <3>1, <3>2 DEF BridgeOK, TaskConnects
    <3>5. task'[p] = "second" =>
            \A e \in members'[Ends[p][1]] \cup (members'[Ends[p][2]] \ todo'[p]) :
              Reachable(e, p)' => <<e, p>> \in bridged'
      BY <2>1, <2>2, <2>10, <3>1, <3>2 DEF BridgeOK, TaskConnects
    <3>6. QED
      BY <3>3, <3>4, <3>5 DEF TaskConnects, EndsOf
  <2>13. QED
    BY <2>3, <2>6, <2>7, <2>9, <2>11, <2>12 DEF BridgeOK
<1>6. QED
  BY <1>1, <1>2, <1>5 DEF BridgesInv

LEMMA DatabaseBridges ==
  ASSUME NetworksInv, NetworksInv', BridgesInv, NEW d \in Dbs, DeleteDatabase(d)
  PROVE  BridgesInv'
<1>1. db \in [Dbs -> {"running", "deleting", "detached", "removed", "stuck", "gone", "orphan"}]
  BY InvParts DEF RowTypes
<1>2. UNCHANGED <<peer, pserver, bridge, bridges, call, tasks, disturbed>>
  BY DatabaseHistory
  DEF DeleteDatabase, MarkDeleting, LeaveNetworks, RemoveContainer, DeleteDatabaseRow,
      peerRows, dockerPeer
<1>3. \A l \in bridged : HasContainer(l[1]) /\ l[1] \in Dbs
  BY BridgeFacts, BridgedFacts DEF BridgedExist
<1>4. CASE MarkDeleting(d) \/ LeaveNetworks(d) \/ (RemoveContainer(d) /\ db'[d] = "stuck")
  <2>1. /\ db[d] \in {"running", "deleting", "detached"}
        /\ \E s \in {"deleting", "detached", "stuck"} : db' = [db EXCEPT ![d] = s]
        /\ UNCHANGED <<members, bridged>>
    BY <1>1, <1>4 DEF MarkDeleting, LeaveNetworks, RemoveContainer, netRows, dockerPeer
  <2>2. db'[d] \in {"deleting", "detached", "stuck"} /\ \A e : e # d => db'[e] = db[e]
    BY <1>1, <2>1
  <2>3. \A l \in bridged' : HasContainer(l[1])'
    BY <1>3, <2>1, <2>2 DEF HasContainer
  <2>4. HasContainer(d) /\ HasRow(d)
    BY <2>1 DEF HasContainer, HasRow
  <2>5. QED
    BY <1>2, <2>1, <2>2, <2>3, <2>4, GoingBridges
<1>5. CASE RemoveContainer(d) /\ db'[d] # "stuck"
  <2>1. /\ db[d] = "detached" /\ db' = [db EXCEPT ![d] = "removed"]
        /\ UNCHANGED members /\ bridged' = {l \in bridged : l[1] # d}
    BY <1>1, <1>5 DEF RemoveContainer, netRows
  <2>2. db'[d] = "removed" /\ \A e : e # d => db'[e] = db[e]
    BY <1>1, <2>1
  <2>3. ~HasContainer(d)' /\ HasRow(d)
    BY <2>1, <2>2 DEF HasContainer, HasRow
  <2>4. \A l \in bridged' : HasContainer(l[1])'
    BY <1>3, <2>1, <2>2 DEF HasContainer
  <2>5. \A e, q : e # d /\ <<e, q>> \in bridged => <<e, q>> \in bridged'
    BY <2>1
  <2>6. QED
    BY <1>2, <2>1, <2>2, <2>3, <2>4, <2>5, GoingBridges
<1>6. CASE DeleteDatabaseRow(d)
  <2>1. /\ db[d] \in {"removed", "stuck"} /\ UNCHANGED bridged
        /\ db' = [db EXCEPT ![d] = IF HasContainer(d) THEN "orphan" ELSE "gone"]
        /\ \A n \in Nets : members'[n] = members[n] \ {d}
    BY <1>1, <1>6 DEF DeleteDatabaseRow, dockerPeer
  <2>2. /\ db'[d] = (IF HasContainer(d) THEN "orphan" ELSE "gone")
        /\ \A e : e # d => db'[e] = db[e]
    BY <1>1, <2>1
  <2>3. ~HasRow(d)' /\ (HasContainer(d)' <=> HasContainer(d))
    BY <2>2 DEF HasContainer, HasRow
  <2>4. \A l \in bridged' : HasContainer(l[1])'
    <3>1. ASSUME NEW l \in bridged'
          PROVE  HasContainer(l[1])'
      <4>1. HasContainer(l[1])
        BY <1>3, <2>1, <3>1
      <4>2. CASE l[1] = d
        BY <2>3, <4>1, <4>2
      <4>3. CASE l[1] # d
        BY <2>2, <4>1, <4>3 DEF HasContainer
      <4>4. QED
        BY <4>2, <4>3
    <3>2. QED
      BY <3>1
  <2>5. \A n \in Nets : /\ members'[n] \subseteq members[n]
                        /\ \A e \in members[n] : HasRow(e)' \/ e # d => e \in members'[n]
    BY <2>1, <2>3
  <2>6. QED
    BY <1>2, <2>1, <2>2, <2>3, <2>4, <2>5, GoingBridges
<1>7. QED
  BY <1>4, <1>5, <1>6 DEF DeleteDatabase

-----------------------------------------------------------------------------
LEMMA InitBridges == Init => BridgesInv
<1> SUFFICES ASSUME Init PROVE BridgesInv
  OBVIOUS
<1> USE DEF Init
<1>1. /\ \A c \in Calls : call[c] = Idle /\ call[c].op = None
      /\ \A p \in Peerings : peer[p] = "unborn" /\ ~bridge[p] /\ task[p] = None /\ todo[p] = {}
      /\ bridges = {} /\ bridged = {}
  BY IdleFacts
<1>2. BridgedExist /\ \A p \in Peerings : NoBridgeYet(p) /\ NothingToDo(p)
  BY <1>1 DEF BridgedExist, NoBridgeYet, NothingToDo
<1>3. ASSUME NEW p \in Peerings
      PROVE  BridgeOK(p)
  <2>1. ~Working(p) /\ ~PeerRow(p)
    BY <1>1, StepFacts DEF Working, PeerRow
  <2>2. \A c \in Calls : ~PairCall(c, p) /\ ~Attends(c, p) /\ ~TakesDown(c, p)
    BY <1>1, StepFacts DEF PairCall, Attends, TakesDown
  <2>3. Exclusive(p) /\ Listed(p)
    BY <2>1, <2>2 DEF Exclusive, Listed
  <2>4. StatusOfBridge(p)
    BY <1>1, <2>1, StepFacts DEF StatusOfBridge, Abandoned
  <2>5. BridgedAreMembers(p) /\ MembersAreBridged(p) /\ TaskConnects(p)
    BY <1>1, StepFacts DEF BridgedAreMembers, MembersAreBridged, TaskConnects
  <2>6. QED
    BY <2>3, <2>4, <2>5 DEF BridgeOK
<1>4. QED
  BY <1>2, <1>3 DEF BridgesInv

(* A crash takes the requests and tasks, and disturbs what they worked on. *)
LEMMA CrashBridges ==
  ASSUME NetworksInv, NetworksInv', BridgesInv, Crash
  PROVE  BridgesInv'
<1>1. /\ UNCHANGED <<db, members, peer, pserver, bridge, bridges, bridged>>
      /\ disturbed \subseteq disturbed' /\ InUse \subseteq disturbed'
      /\ \A c \in Calls : call'[c] = Idle
      /\ \A p \in Peerings : todo'[p] = {} /\ (~Working(p) => task'[p] = task[p])
  BY HistoryGrows DEF Crash, netRows, peerRows, dockerPeer
<1>2. BridgedExist' /\ \A p \in Peerings : NoBridgeYet(p)' /\ NothingToDo(p)'
  BY <1>1, BridgeFacts DEF BridgedExist, HasContainer, NoBridgeYet, NothingToDo
<1>3. ASSUME NEW p \in Peerings, Clean(p)'
      PROVE  BridgeOK(p)'
  <2>1. BridgeOK(p)
    BY <1>1, <1>3, CleanBefore, BridgeFacts
  <2>2. ~Working(p) /\ \A c \in Calls : ~Concerns(c, p)
    <3>1. \A x \in {p} \cup EndsOf(p) : x \notin InUse
      BY <1>1, <1>3 DEF Clean, EndsOf
    <3>2. QED
      BY <3>1, NobodyConcerned
  <2>3. \A c \in Calls : ~Concerns(c, p)'
    BY <1>1, IdleFacts, StepFacts DEF Concerns, PairCall, Attends
  <2>4. CallsSteady(p)
    BY <2>2, <2>3 DEF CallsSteady
  <2>5. BridgeStays(p)
    <3>1. todo[p] = {}
      BY <2>2, BridgeFacts, StepFacts DEF NothingToDo, Working
    <3>2. QED
      BY <1>1, <2>2, <3>1 DEF BridgeStays
  <2>6. QED
    BY <1>1, <2>1, <2>4, <2>5, BridgeKept
<1>4. QED
  BY <1>2, <1>3 DEF BridgesInv

LEMMA StutterBridges ==
  ASSUME NetworksInv', BridgesInv, UNCHANGED vars
  PROVE  BridgesInv'
<1>1. BridgesStay /\ disturbed' = disturbed /\ call' = call
  BY DEF vars, BridgesStay, tasks
<1>2. ASSUME NEW p \in Peerings, Clean(p)'
      PROVE  BridgeOK(p)'
  <2>1. BridgeOK(p)
    BY <1>1, <1>2, CleanBefore, BridgeFacts
  <2>2. CallsSteady(p)
    BY <1>1 DEF CallsSteady, Alike
  <2>3. BridgeStays(p) /\ db' = db
    BY <1>1, BridgesRest DEF BridgesStay
  <2>4. QED
    BY <2>1, <2>2, <2>3, BridgeKept
<1>3. QED
  BY <1>1, <1>2, BridgesRest DEF BridgesInv

LEMMA NextBridges ==
  ASSUME NetworksInv, NetworksInv', FirewallInv, ConnectionsInv, BridgesInv, [Next]_vars
  PROVE  BridgesInv'
<1>1. ASSUME NEW c \in Calls, Request(c)
      PROVE  BridgesInv'
  BY <1>1, CountBridges, FindNetworkBridges, FindPairBridges, FindPeeringBridges, StepFacts
  DEF Request
<1>2. ASSUME NEW c \in Calls, Attach(c)
      PROVE  BridgesInv'
  BY <1>2, CheckBridges, SetServerBridges, MakeDockBridges, SaveDockBridges,
     SaveSubnetBridges, JoinBridges, AddMemberBridges, SyncBridgesInv
  DEF Attach
<1>3. ASSUME NEW c \in Calls, Detach(c)
      PROVE  BridgesInv'
  BY <1>3, LeaveBridges, UnbridgeBridges, RemoveMemberBridges DEF Detach
<1>4. ASSUME NEW c \in Calls, Delete(c)
      PROVE  BridgesInv'
  BY <1>4, ListPeeringsBridges, PeeringsDeletedBridges, TakeDownNetworkBridges,
     DeleteNetworkBridges, TakeDownBridgeBridges, DeletePeeringBridges
  DEF Delete
<1>5. ASSUME NEW c \in Calls,
             InsertNetwork(c) \/ InsertPeering(c) \/ ChangeRule(c) \/ CallFails(c)
      PROVE  BridgesInv'
  BY <1>5, InsertNetworkBridges, InsertPeeringBridges, RuleBridges, FailsBridges
<1>6. ASSUME NEW p \in Peerings, ProvisionPeering(p)
      PROVE  BridgesInv'
  BY <1>6, MakeBridgeBridges, SaveBridgeBridges, ReadMembersBridges, ConnectMemberBridges,
     ActivateBridges
  DEF ProvisionPeering
<1>7. QED
  BY <1>1, <1>2, <1>3, <1>4, <1>5, <1>6, DatabaseBridges, CrashBridges, StutterBridges DEF Next

-----------------------------------------------------------------------------
(* What is promised where nothing is under way *)

LEMMA QuietFacts ==
  ASSUME NetworksInv, BridgesInv, NEW p \in Peerings, QuietPair(p)
  PROVE  /\ BridgeOK(p) /\ ~Working(p) /\ ~TakenDown(p)
         /\ \A n \in EndsOf(p) : \A d : /\ Stays(n, d) <=> d \in members[n]
                                        /\ ~Syncing(n, d)
<1>1. ~Working(p) /\ \A c \in Calls : ~Concerns(c, p)
  BY NobodyConcerned DEF QuietPair, Quiet
<1>2. BridgeOK(p)
  BY BridgeFacts DEF QuietPair, Quiet, Clean
<1>3. ~TakenDown(p)
  BY <1>1, ConcernFacts DEF TakenDown
<1>4. \A n \in EndsOf(p) : \A d : (Stays(n, d) <=> d \in members[n]) /\ ~Syncing(n, d)
  BY <1>1, ConcernFacts DEF Stays, Syncing
<1>5. QED
  BY <1>1, <1>2, <1>3, <1>4

LEMMA BridgesFollow == NetworksInv /\ BridgesInv => PeeringReachesMembers
<1> SUFFICES ASSUME NetworksInv, BridgesInv, NEW p \in Peerings, peer[p] = "active",
                    QuietPair(p), NEW d \in Dbs, db[d] = "running"
             PROVE  <<d, p>> \in bridged <=>
                      Host[d] = pserver[p] /\ \E n \in EndsOf(p) : d \in members[n]
  BY DEF PeeringReachesMembers
<1>1. ASSUME <<d, p>> \in bridged
      PROVE  Host[d] = pserver[p] /\ \E n \in EndsOf(p) : d \in members[n]
  <2>1. PICK l \in bridged : l = <<d, p>>
    BY <1>1
  <2>2. l[1] = d /\ l[2] = p
    BY <2>1
  <2>3. Host[d] = pserver[p]
    BY <2>2, BridgeFacts DEF BridgedExist
  <2>4. \E n \in EndsOf(p) : Stays(n, d)
    BY <2>2, QuietFacts DEF BridgeOK, BridgedAreMembers
  <2>5. QED
    BY <2>3, <2>4, QuietFacts
<1>2. ASSUME Host[d] = pserver[p], NEW n \in EndsOf(p), d \in members[n]
      PROVE  <<d, p>> \in bridged
  <2>1. Stays(n, d) /\ ~Syncing(n, d) /\ Reachable(d, p)
    BY <1>2, QuietFacts DEF Reachable
  <2>2. QED
    BY <1>2, <2>1, QuietFacts DEF BridgeOK, MembersAreBridged
<1>3. QED
  BY <1>1, <1>2

(* However attaching, detaching, peering, deletions and failures           *)
(* alternate: an active peering where nothing is under way, no calls       *)
(* overlapped and no step failed, on it and both networks, has on its      *)
(* bridge the running members on its server, and nobody else.              *)
THEOREM PeeringReaches == Spec => []PeeringReachesMembers
<1>1. Init => NetworksInv /\ FirewallInv /\ ConnectionsInv /\ BridgesInv
  BY InitInv, InitFirewall, InitConnections, InitBridges
<1>2. NetworksInv /\ FirewallInv /\ ConnectionsInv /\ BridgesInv /\ [Next]_vars
        => NetworksInv' /\ FirewallInv' /\ ConnectionsInv' /\ BridgesInv'
  BY NextInv, NextFirewall, NextConnections, NextBridges
<1>3. QED
  BY <1>1, <1>2, BridgesFollow, PTL DEF Spec

LEMMA NoOrphansFollow == NetworksInv /\ ConnectionsInv /\ BridgesInv => NoOrphanInDocker
<1> SUFFICES ASSUME NetworksInv, ConnectionsInv, BridgesInv
             PROVE  NoOrphanInDocker
  OBVIOUS
<1>1. ASSUME NEW n \in Nets, Quiet(n), NEW i \in DockIds, i[1] = n
      PROVE  docks[i] \in Hosts <=> (net[n] = "live" /\ dock[n] = i) \/ HoldsDock(i)
  <2>1. Matches(n, Idle)
    BY <1>1, NotInUse, ConnectionFacts DEF Quiet, NetworkOK
  <2>2. QED
    BY <1>1, <2>1, IdleFacts, StepFacts DEF Matches, Docked, Is
<1>2. ASSUME NEW p \in Peerings, QuietPair(p)
      PROVE  p \in bridges <=> (PeerRow(p) /\ bridge[p]) \/ HoldsBridge(p)
  <2>1. StatusOfBridge(p) /\ ~Working(p) /\ ~TakenDown(p)
    BY <1>2, QuietFacts DEF BridgeOK
  <2>2. HoldsBridge(p) => p \in bridges
    <3>1. ASSUME NEW d, <<d, p>> \in bridged
          PROVE  p \in bridges
      <4>1. PICK l \in bridged : l = <<d, p>>
        BY <3>1
      <4>2. l[2] = p
        BY <4>1
      <4>3. QED
        BY <4>1, <4>2, BridgeFacts DEF BridgedExist
    <3>2. QED
      BY <3>1 DEF HoldsBridge
  <2>3. QED
    BY <2>1, <2>2 DEF StatusOfBridge, PeerRow, Abandoned
<1>3. QED
  BY <1>1, <1>2 DEF NoOrphanInDocker

(* Where nothing is under way, no calls overlapped and no step failed, no  *)
(* Docker network is left but the one the row of its network names, and a  *)
(* bridge exists exactly when a row has it, but for those on which the     *)
(* container of a removed database was left: other deletions leave none.   *)
THEOREM NoOrphans == Spec => []NoOrphanInDocker
<1>1. Init => NetworksInv /\ FirewallInv /\ ConnectionsInv /\ BridgesInv
  BY InitInv, InitFirewall, InitConnections, InitBridges
<1>2. NetworksInv /\ FirewallInv /\ ConnectionsInv /\ BridgesInv /\ [Next]_vars
        => NetworksInv' /\ FirewallInv' /\ ConnectionsInv' /\ BridgesInv'
  BY NextInv, NextFirewall, NextConnections, NextBridges
<1>3. QED
  BY <1>1, <1>2, NoOrphansFollow, PTL DEF Spec

-----------------------------------------------------------------------------
(* The limits.  A row is counted in one step and inserted in a later one:  *)
(* the invariant counts what there is with the requests that have counted  *)
(* and have yet to insert.  Only counting enlarges these, and it finds     *)
(* fewer rows than the limit, so that there are less rows and requests     *)
(* than the limit and the number of requests together.                     *)

Fits(S, P, max) ==
  IsFiniteSet(S) /\ Cardinality(S) + Cardinality(P) <= max + Cardinality(Calls) - 1

Counted == {"serve", "dock", "save", "subnet", "join", "add"}

Adding(n)    == {c \in Calls : Is(call[c], "attach", Counted) /\ call[c].n = n}
Creating(u)  == {c \in Calls : call[c].op = "create" /\ Owner[call[c].n] = u}
Pairing(u)   == {c \in Calls : call[c].op = "peer" /\ Owner[Ends[call[c].p][1]] = u}
Allowing(p)  == {c \in Calls : Is(call[c], "allow", {"insert"}) /\ call[c].p = p}
NetworksBy(u) == {n \in Nets : net[n] = "live" /\ Owner[n] = u}

MembersFit  == \A n \in Nets : Fits(members[n], Adding(n), MaxMembers)
NetworksFit == \A u \in Users : Fits(NetworksBy(u), Creating(u), MaxNetworks)
PeeringsFit == \A u \in Users : Fits(PeeringsBy(u), Pairing(u), MaxPeerings)
RulesFit    == \A p \in Peerings : Fits(rules[p], Allowing(p), MaxRules)

LimitsInv == MembersFit /\ NetworksFit /\ PeeringsFit /\ RulesFit

-----------------------------------------------------------------------------
LEMMA CallsFinite ==
  /\ IsFiniteSet(Calls) /\ Cardinality(Calls) \in Nat /\ Cardinality(Calls) > 0
  /\ \A P \in SUBSET Calls : /\ IsFiniteSet(P) /\ Cardinality(P) \in Nat
                             /\ Cardinality(P) <= Cardinality(Calls)
<1>1. IsFiniteSet(Calls) /\ Calls # {}
  BY NetworksAssumption
<1>2. Cardinality(Calls) \in Nat /\ Cardinality(Calls) # 0
  BY <1>1, FS_CardinalityType, FS_EmptySet
<1>3. \A P \in SUBSET Calls : IsFiniteSet(P) /\ Cardinality(P) <= Cardinality(Calls)
  BY <1>1, FS_Subset
<1>4. \A P \in SUBSET Calls : Cardinality(P) \in Nat
  BY <1>3, FS_CardinalityType
<1>5. QED
  BY <1>1, <1>2, <1>3, <1>4

LEMMA LimitTypes ==
  MaxMembers \in Nat /\ MaxNetworks \in Nat /\ MaxPeerings \in Nat /\ MaxRules \in Nat
<1>1. {MaxMembers, MaxNetworks, MaxPeerings, MaxRules} \subseteq Nat
  BY NetworksAssumption
<1>2. QED
  BY <1>1

(* Fewer rows and fewer requests fit; a request's row fits in its place.   *)
LEMMA FewerFit ==
  ASSUME NEW S, NEW P \in SUBSET Calls, NEW max \in Nat, Fits(S, P, max),
         NEW T \in SUBSET S, NEW Q \in SUBSET P
  PROVE  Fits(T, Q, max)
<1>1. /\ IsFiniteSet(S) /\ IsFiniteSet(T) /\ Cardinality(T) <= Cardinality(S)
      /\ Cardinality(S) \in Nat /\ Cardinality(T) \in Nat
  BY FS_Subset, FS_CardinalityType DEF Fits
<1>2. /\ Cardinality(Q) <= Cardinality(P)
      /\ Cardinality(P) \in Nat /\ Cardinality(Q) \in Nat /\ Cardinality(Calls) \in Nat
  BY CallsFinite, FS_Subset
<1>3. QED
  BY <1>1, <1>2 DEF Fits

LEMMA OneFits ==
  ASSUME NEW S, NEW P \in SUBSET Calls, NEW max \in Nat, Fits(S, P, max),
         NEW c \in P, NEW x, NEW T \in SUBSET (S \cup {x}), NEW Q \in SUBSET (P \ {c})
  PROVE  Fits(T, Q, max)
<1>1. /\ IsFiniteSet(S) /\ IsFiniteSet(S \cup {x}) /\ Cardinality(S) \in Nat
      /\ Cardinality(S \cup {x}) <= Cardinality(S) + 1
  <2>1. IsFiniteSet(S) /\ Cardinality(S) \in Nat
    BY FS_CardinalityType DEF Fits
  <2>2. IsFiniteSet(S \cup {x})
        /\ Cardinality(S \cup {x}) = IF x \in S THEN Cardinality(S) ELSE Cardinality(S) + 1
    BY <2>1, FS_AddElement
  <2>3. QED
    BY <2>1, <2>2
<1>2. /\ IsFiniteSet(T) /\ Cardinality(T) <= Cardinality(S \cup {x})
      /\ Cardinality(T) \in Nat /\ Cardinality(S \cup {x}) \in Nat
  BY <1>1, FS_Subset, FS_CardinalityType
<1>3. IsFiniteSet(P) /\ Cardinality(P) \in Nat /\ Cardinality(Calls) \in Nat
  BY CallsFinite
<1>4. IsFiniteSet(P \ {c}) /\ Cardinality(P \ {c}) = Cardinality(P) - 1
  BY <1>3, FS_RemoveElement
<1>5. Cardinality(Q) <= Cardinality(P \ {c}) /\ Cardinality(Q) \in Nat
  BY <1>4, CallsFinite, FS_Subset
<1>6. QED
  BY <1>1, <1>2, <1>3, <1>4, <1>5 DEF Fits

LEMMA CountFits ==
  ASSUME NEW S, NEW max \in Nat, IsFiniteSet(S), Cardinality(S) < max, NEW Q \in SUBSET Calls
  PROVE  Fits(S, Q, max)
<1>1. Cardinality(S) \in Nat
  BY FS_CardinalityType
<1>2. Cardinality(Q) <= Cardinality(Calls) /\ Cardinality(Q) \in Nat /\ Cardinality(Calls) \in Nat
  BY CallsFinite
<1>3. QED
  BY <1>1, <1>2 DEF Fits

LEMMA FitsWithin ==
  ASSUME NEW S, NEW P \in SUBSET Calls, NEW max \in Nat, Fits(S, P, max)
  PROVE  IsFiniteSet(S) /\ Cardinality(S) <= max + Cardinality(Calls) - 1
<1>1. IsFiniteSet(S) /\ Cardinality(S) \in Nat
  BY FS_CardinalityType DEF Fits
<1>2. Cardinality(P) \in Nat /\ Cardinality(Calls) \in Nat
  BY CallsFinite
<1>3. QED
  BY <1>1, <1>2 DEF Fits

(* Where no rows are added, and no request begins to wait for one.         *)
LEMMA MembersTame ==
  ASSUME MembersFit, \A n \in Nets : members'[n] \subseteq members[n],
         \A n \in Nets : Adding(n)' \subseteq Adding(n)
  PROVE  MembersFit'
<1>1. \A n : Adding(n) \in SUBSET Calls
  BY DEF Adding
<1>2. \A n \in Nets : Fits(members'[n], Adding(n)', MaxMembers)
  BY <1>1, FewerFit, LimitTypes DEF MembersFit
<1>3. QED
  BY <1>2 DEF MembersFit, Fits

LEMMA NetworksTame ==
  ASSUME NetworksFit, \A u \in Users : NetworksBy(u)' \subseteq NetworksBy(u),
         \A u \in Users : Creating(u)' \subseteq Creating(u)
  PROVE  NetworksFit'
<1>1. \A u : Creating(u) \in SUBSET Calls
  BY DEF Creating
<1>2. \A u \in Users : Fits(NetworksBy(u)', Creating(u)', MaxNetworks)
  BY <1>1, FewerFit, LimitTypes DEF NetworksFit
<1>3. QED
  BY <1>2 DEF NetworksFit, Fits

LEMMA PeeringsTame ==
  ASSUME PeeringsFit, \A u \in Users : PeeringsBy(u)' \subseteq PeeringsBy(u),
         \A u \in Users : Pairing(u)' \subseteq Pairing(u)
  PROVE  PeeringsFit'
<1>1. \A u : Pairing(u) \in SUBSET Calls
  BY DEF Pairing
<1>2. \A u \in Users : Fits(PeeringsBy(u)', Pairing(u)', MaxPeerings)
  BY <1>1, FewerFit, LimitTypes DEF PeeringsFit
<1>3. QED
  BY <1>2 DEF PeeringsFit, Fits

LEMMA RulesTame ==
  ASSUME RulesFit, \A p \in Peerings : rules'[p] \subseteq rules[p],
         \A p \in Peerings : Allowing(p)' \subseteq Allowing(p)
  PROVE  RulesFit'
<1>1. \A p : Allowing(p) \in SUBSET Calls
  BY DEF Allowing
<1>2. \A p \in Peerings : Fits(rules'[p], Allowing(p)', MaxRules)
  BY <1>1, FewerFit, LimitTypes DEF RulesFit
<1>3. QED
  BY <1>2 DEF RulesFit, Fits

LEMMA InitLimits == Init => LimitsInv
<1> SUFFICES ASSUME Init PROVE LimitsInv
  OBVIOUS
<1>1. ASSUME NEW S, S = {}, NEW P \in SUBSET Calls, P = {}, NEW max \in Nat
      PROVE  Fits(S, P, max)
  BY <1>1, CallsFinite, FS_EmptySet DEF Fits
<1>2. \A c \in Calls : call[c].op = None
  BY IdleFacts DEF Init
<1>3. \A x : Adding(x) = {} /\ Creating(x) = {} /\ Pairing(x) = {} /\ Allowing(x) = {}
  BY <1>2, StepFacts DEF Adding, Creating, Pairing, Allowing, Is
<1>4. /\ \A n \in Nets : members[n] = {}
      /\ \A u : NetworksBy(u) = {} /\ PeeringsBy(u) = {}
      /\ \A p \in Peerings : rules[p] = {}
  BY DEF Init, NetworksBy, PeeringsBy, PeerRow
<1>5. MembersFit /\ NetworksFit /\ PeeringsFit /\ RulesFit
  BY <1>1, <1>3, <1>4, LimitTypes DEF MembersFit, NetworksFit, PeeringsFit, RulesFit
<1>6. QED
  BY <1>5 DEF LimitsInv


-----------------------------------------------------------------------------
(* A request that waits for a row did so before, and for the same.         *)

ModestAdd(k, m)    == Is(m, "attach", Counted) => Is(k, "attach", Counted) /\ m.n = k.n
ModestCreate(k, m) == m.op = "create" => k.op = "create" /\ m.n = k.n
ModestPair(k, m)   == m.op = "peer" => k.op = "peer" /\ m.p = k.p
ModestAllow(k, m)  == Is(m, "allow", {"insert"}) => Is(k, "allow", {"insert"}) /\ m.p = k.p

Modest(c) ==
  /\ ModestAdd(call[c], call'[c]) /\ ModestCreate(call[c], call'[c])
  /\ ModestPair(call[c], call'[c]) /\ ModestAllow(call[c], call'[c])

LEMMA ModestKeeps ==
  /\ (\A c \in Calls : ModestAdd(call[c], call'[c])) => \A n : Adding(n)' \subseteq Adding(n)
  /\ (\A c \in Calls : ModestCreate(call[c], call'[c])) => \A u : Creating(u)' \subseteq Creating(u)
  /\ (\A c \in Calls : ModestPair(call[c], call'[c])) => \A u : Pairing(u)' \subseteq Pairing(u)
  /\ (\A c \in Calls : ModestAllow(call[c], call'[c])) => \A p : Allowing(p)' \subseteq Allowing(p)
<1>1. ASSUME \A c \in Calls : ModestAdd(call[c], call'[c]), NEW n
      PROVE  Adding(n)' \subseteq Adding(n)
  BY <1>1 DEF ModestAdd, Adding
<1>2. ASSUME \A c \in Calls : ModestCreate(call[c], call'[c]), NEW u
      PROVE  Creating(u)' \subseteq Creating(u)
  BY <1>2 DEF ModestCreate, Creating
<1>3. ASSUME \A c \in Calls : ModestPair(call[c], call'[c]), NEW u
      PROVE  Pairing(u)' \subseteq Pairing(u)
  BY <1>3 DEF ModestPair, Pairing
<1>4. ASSUME \A c \in Calls : ModestAllow(call[c], call'[c]), NEW p
      PROVE  Allowing(p)' \subseteq Allowing(p)
  BY <1>4 DEF ModestAllow, Allowing
<1>5. QED
  BY <1>1, <1>2, <1>3, <1>4

LEMMA StaysModest ==
  ASSUME NEW c \in Calls, OthersStay(c)
  PROVE  \A e \in Calls \ {c} : Modest(e)
BY DEF OthersStay, Modest, ModestAdd, ModestCreate, ModestPair, ModestAllow

(* A request that ends waits for nothing.                                  *)
LEMMA EndsModest ==
  ASSUME NEW c \in Calls, call'[c].op \notin {"attach", "create", "peer", "allow"}
  PROVE  Modest(c)
BY DEF Modest, ModestAdd, ModestCreate, ModestPair, ModestAllow, Is

RowsShrink ==
  /\ \A n \in Nets : members'[n] \subseteq members[n] /\ (net'[n] = "live" => net[n] = "live")
  /\ \A p \in Peerings : rules'[p] \subseteq rules[p] /\ (PeerRow(p)' => PeerRow(p))

LEMMA PartsTame ==
  ASSUME LimitsInv
  PROVE  /\ (\A c \in Calls : ModestAdd(call[c], call'[c]))
            /\ (\A n \in Nets : members'[n] \subseteq members[n]) => MembersFit'
         /\ (\A c \in Calls : ModestCreate(call[c], call'[c]))
            /\ (\A n \in Nets : net'[n] = "live" => net[n] = "live") => NetworksFit'
         /\ (\A c \in Calls : ModestPair(call[c], call'[c]))
            /\ (\A p \in Peerings : PeerRow(p)' => PeerRow(p)) => PeeringsFit'
         /\ (\A c \in Calls : ModestAllow(call[c], call'[c]))
            /\ (\A p \in Peerings : rules'[p] \subseteq rules[p]) => RulesFit'
<1>1. ASSUME \A c \in Calls : ModestAdd(call[c], call'[c]),
             \A n \in Nets : members'[n] \subseteq members[n]
      PROVE  MembersFit'
  BY <1>1, ModestKeeps, MembersTame DEF LimitsInv
<1>2. ASSUME \A c \in Calls : ModestCreate(call[c], call'[c]),
             \A n \in Nets : net'[n] = "live" => net[n] = "live"
      PROVE  NetworksFit'
  <2>1. \A u : NetworksBy(u)' \subseteq NetworksBy(u)
    BY <1>2 DEF NetworksBy
  <2>2. QED
    BY <1>2, <2>1, ModestKeeps, NetworksTame DEF LimitsInv
<1>3. ASSUME \A c \in Calls : ModestPair(call[c], call'[c]),
             \A p \in Peerings : PeerRow(p)' => PeerRow(p)
      PROVE  PeeringsFit'
  <2>1. \A u : PeeringsBy(u)' \subseteq PeeringsBy(u)
    BY <1>3 DEF PeeringsBy
  <2>2. QED
    BY <1>3, <2>1, ModestKeeps, PeeringsTame DEF LimitsInv
<1>4. ASSUME \A c \in Calls : ModestAllow(call[c], call'[c]),
             \A p \in Peerings : rules'[p] \subseteq rules[p]
      PROVE  RulesFit'
  BY <1>4, ModestKeeps, RulesTame DEF LimitsInv
<1>5. QED
  BY <1>1, <1>2, <1>3, <1>4

LEMMA ModestStep ==
  ASSUME LimitsInv, RowsShrink, \A c \in Calls : Modest(c)
  PROVE  LimitsInv'
BY PartsTame DEF RowsShrink, Modest, LimitsInv

RowsSame == UNCHANGED <<members, net, peer, rules>>

LEMMA SameShrink == RowsSame => RowsShrink
BY DEF RowsSame, RowsShrink, PeerRow

LEMMA ModestCall ==
  ASSUME LimitsInv, RowsShrink, NEW c \in Calls, OthersStay(c), Modest(c)
  PROVE  LimitsInv'
BY ModestStep, StaysModest

(* A request goes on without having counted anything, or ends.             *)
LEMMA GoesOnModest ==
  ASSUME CallsOK, NEW c \in Calls,
         Finish(c) \/ \E s : Goto(c, s) /\ s # "insert" /\ (s \in Counted => call[c].at \in Counted)
  PROVE  OthersStay(c) /\ Modest(c)
<1>1. CASE Finish(c)
  BY <1>1, FinishMore, IdleFacts, StepFacts, EndsModest
<1>2. ASSUME NEW s, Goto(c, s), s # "insert", s \in Counted => call[c].at \in Counted
      PROVE  OthersStay(c) /\ Modest(c)
  BY <1>2, GotoMore DEF Modest, ModestAdd, ModestCreate, ModestPair, ModestAllow, Is
<1>3. QED
  BY <1>1, <1>2

LEMMA AttachLimits ==
  ASSUME NetworksInv, LimitsInv, NEW c \in Calls,
         \/ SetServer(c) \/ MakeDock(c) \/ SaveDock(c) \/ SaveSubnet(c) \/ Join(c)
         \/ SyncBridges(c) \/ Leave(c) \/ Unbridge(c)
  PROVE  LimitsInv'
<1> USE DEF At, Counted
<1>1. CallsOK
  BY InvParts
<1>2. RowsSame
  BY DEF SetServer, MakeDock, SaveDock, SaveSubnet, Join, SyncBridges, Leave, Unbridge,
         RowsSame, netRows, peerRows
<1>3. OthersStay(c) /\ Modest(c)
  <2>1. CASE SaveDock(c) \/ SaveSubnet(c) \/ Join(c) \/ SyncBridges(c) \/ Leave(c) \/ Unbridge(c)
    BY <1>1, <2>1, GoesOnModest DEF SaveDock, SaveSubnet, Join, SyncBridges, Leave, Unbridge
  <2>2. CASE SetServer(c)
    <3>1. /\ OthersStay(c) /\ call[c].op = "attach" /\ call[c].at = "serve"
          /\ call'[c].op = "attach" /\ call'[c].n = call[c].n
      BY <1>1, <2>2 DEF SetServer, OthersStay, CallsOK, CallType
    <3>2. QED
      BY <3>1 DEF Modest, ModestAdd, ModestCreate, ModestPair, ModestAllow, Is
  <2>3. CASE MakeDock(c)
    <3>1. call[c].op = "attach" /\ call[c].at = "dock"
      BY <2>3 DEF MakeDock
    <3>2. ASSUME NEW j, call' = [call EXCEPT ![c].at = "save", ![c].dock = <<call[c].n, j>>]
          PROVE  OthersStay(c) /\ call'[c].op = "attach" /\ call'[c].n = call[c].n
      BY <1>1, <3>1, <3>2 DEF OthersStay, CallsOK, CallType
    <3>3. Goto(c, "join") \/ (OthersStay(c) /\ call'[c].op = "attach" /\ call'[c].n = call[c].n)
      BY <2>3, <3>2 DEF MakeDock
    <3>4. QED
      BY <1>1, <3>1, <3>3, GoesOnModest DEF Modest, ModestAdd, ModestCreate, ModestPair, ModestAllow, Is
  <2>4. QED
    BY <2>1, <2>2, <2>3
<1>4. QED
  BY <1>2, <1>3, SameShrink, ModestCall

(* The count of members, and the membership.                               *)
LEMMA CheckLimits ==
  ASSUME NetworksInv, LimitsInv, NEW c \in Calls, CheckDatabase(c)
  PROVE  LimitsInv'
<1>1. CallsOK /\ RowsSame /\ call[c].op = "attach" /\ call[c].at = "found"
  BY InvParts DEF CheckDatabase, RowsSame, netRows, peerRows, At
<1>2. CASE Finish(c)
  BY <1>1, <1>2, GoesOnModest, SameShrink, ModestCall
<1>3. ASSUME Attachable(call[c]), NEW s, Goto(c, s)
      PROVE  LimitsInv'
  <2>1. PICK n : n = call[c].n
    OBVIOUS
  <2>2. /\ OthersStay(c) /\ call'[c].op = "attach" /\ call'[c].n = n
        /\ Cardinality(members[n]) < MaxMembers
    BY <1>1, <1>3, <2>1, GotoMore DEF Attachable
  <2>3. MembersFit'
    <3>1. ASSUME NEW m \in Nets
          PROVE  Fits(members'[m], Adding(m)', MaxMembers)
      <4>1. Fits(members[m], Adding(m), MaxMembers) /\ members'[m] = members[m]
            /\ Adding(m) \in SUBSET Calls /\ Adding(m)' \in SUBSET Calls
        BY <1>1 DEF LimitsInv, MembersFit, RowsSame, Adding
      <4>2. CASE m = n
        <5>1. IsFiniteSet(members[m])
          BY <4>1 DEF Fits
        <5>2. Fits(members[m], Adding(m)', MaxMembers)
          BY <2>2, <4>1, <4>2, <5>1, CountFits, LimitTypes
        <5>3. QED
          BY <4>1, <5>2
      <4>3. CASE m # n
        <5>1. Adding(m)' \subseteq Adding(m)
          BY <2>2, <4>3 DEF Adding, OthersStay
        <5>2. QED
          BY <4>1, <5>1, FewerFit, LimitTypes
      <4>4. QED
        BY <4>2, <4>3
    <3>2. QED
      BY <3>1 DEF MembersFit, Fits
  <2>4. /\ \A e \in Calls : /\ ModestCreate(call[e], call'[e])
                            /\ ModestPair(call[e], call'[e]) /\ ModestAllow(call[e], call'[e])
    BY <2>2 DEF OthersStay, ModestCreate, ModestPair, ModestAllow, Is
  <2>5. NetworksFit' /\ PeeringsFit' /\ RulesFit'
    BY <1>1, <2>4, PartsTame DEF RowsSame, PeerRow
  <2>6. QED
    BY <2>3, <2>5 DEF LimitsInv
<1>4. QED
  BY <1>2, <1>3 DEF CheckDatabase

LEMMA AddMemberLimits ==
  ASSUME NetworksInv, LimitsInv, NEW c \in Calls, AddMember(c)
  PROVE  LimitsInv'
<1>1. /\ CallsOK /\ UNCHANGED <<net, peer, rules>>
      /\ call[c].op = "attach" /\ call[c].at = "add"
  BY InvParts DEF AddMember, peerRows, At
<1>2. CASE Finish(c) /\ UNCHANGED members
  BY <1>1, <1>2, GoesOnModest, SameShrink, ModestCall DEF RowsSame
<1>3. CASE members' = [members EXCEPT ![call[c].n] = @ \cup {call[c].d}] /\ Goto(c, "sync")
  <2>1. PICK n, d : n = call[c].n /\ d = call[c].d
    OBVIOUS
  <2>2. /\ OthersStay(c) /\ call'[c].op = "attach" /\ call'[c].at = "sync"
        /\ members' = [members EXCEPT ![n] = @ \cup {d}]
        /\ members \in [Nets -> SUBSET Dbs]
    BY <1>1, <1>3, <2>1, GotoMore, InvParts DEF RowTypes
  <2>3. MembersFit'
    <3>1. ASSUME NEW m \in Nets
          PROVE  Fits(members'[m], Adding(m)', MaxMembers)
      <4>1. Fits(members[m], Adding(m), MaxMembers) /\ Adding(m) \in SUBSET Calls
        BY DEF LimitsInv, MembersFit, Adding
      <4>2. Adding(m)' \subseteq Adding(m) \ {c}
        BY <2>2 DEF Adding, OthersStay, Is, Counted
      <4>3. CASE m = n
        <5>1. c \in Adding(m) /\ members'[m] \in SUBSET (members[m] \cup {d})
          BY <1>1, <2>1, <2>2, <4>3 DEF Adding, Is, Counted
        <5>2. Adding(m)' \in SUBSET (Adding(m) \ {c})
          BY <4>2
        <5>3. QED
          BY <4>1, <5>1, <5>2, OneFits, LimitTypes
      <4>4. CASE m # n
        <5>1. members'[m] = members[m]
          BY <2>2, <4>4
        <5>2. QED
          BY <4>1, <4>2, <5>1, FewerFit, LimitTypes
      <4>5. QED
        BY <4>3, <4>4
    <3>2. QED
      BY <3>1 DEF MembersFit, Fits
  <2>4. \A e \in Calls : /\ ModestCreate(call[e], call'[e])
                         /\ ModestPair(call[e], call'[e]) /\ ModestAllow(call[e], call'[e])
    BY <2>2 DEF OthersStay, ModestCreate, ModestPair, ModestAllow, Is
  <2>5. NetworksFit' /\ PeeringsFit' /\ RulesFit'
    BY <1>1, <2>4, PartsTame DEF PeerRow
  <2>6. QED
    BY <2>3, <2>5 DEF LimitsInv
<1>4. QED
  BY <1>2, <1>3 DEF AddMember

(* The count of networks, and the network.                                 *)
LEMMA CountLimits ==
  ASSUME NetworksInv, LimitsInv, NEW c \in Calls, NEW n \in Nets, CountNetworks(c, n)
  PROVE  LimitsInv'
<1>1. PICK k : k = [Idle EXCEPT !.op = "create", !.at = "insert", !.n = n]
  OBVIOUS
<1>2. Start(c, k) /\ k.op = "create" /\ k.n = n /\ RowsSame
  BY <1>1 DEF CountNetworks, Idle, RowsSame, netRows, peerRows
<1>3. OthersStay(c) /\ call'[c] = k
  BY <1>2, InvParts, StartFields DEF OthersStay
<1>4. Cardinality(NetworksBy(Owner[n])) < MaxNetworks
  BY DEF CountNetworks, NetworksBy
<1>5. NetworksFit'
  <2>1. ASSUME NEW u \in Users
        PROVE  Fits(NetworksBy(u)', Creating(u)', MaxNetworks)
    <3>1. /\ Fits(NetworksBy(u), Creating(u), MaxNetworks) /\ NetworksBy(u)' = NetworksBy(u)
          /\ Creating(u) \in SUBSET Calls /\ Creating(u)' \in SUBSET Calls
      BY <1>2 DEF LimitsInv, NetworksFit, RowsSame, NetworksBy, Creating
    <3>2. CASE u = Owner[n]
      <4>1. IsFiniteSet(NetworksBy(u))
        BY <3>1 DEF Fits
      <4>2. Fits(NetworksBy(u), Creating(u)', MaxNetworks)
        BY <1>4, <3>1, <3>2, <4>1, CountFits, LimitTypes
      <4>3. QED
        BY <3>1, <4>2
    <3>3. CASE u # Owner[n]
      <4>1. Creating(u)' \subseteq Creating(u)
        BY <1>2, <1>3, <3>3 DEF Creating, OthersStay
      <4>2. QED
        BY <3>1, <4>1, FewerFit, LimitTypes
    <3>4. QED
      BY <3>2, <3>3
  <2>2. QED
    BY <2>1 DEF NetworksFit, Fits
<1>6. \A e \in Calls : /\ ModestAdd(call[e], call'[e])
                       /\ ModestPair(call[e], call'[e]) /\ ModestAllow(call[e], call'[e])
  BY <1>2, <1>3 DEF OthersStay, ModestAdd, ModestPair, ModestAllow, Is
<1>7. MembersFit' /\ PeeringsFit' /\ RulesFit'
  BY <1>2, <1>6, PartsTame DEF RowsSame, PeerRow
<1>8. QED
  BY <1>5, <1>7 DEF LimitsInv

LEMMA InsertNetworkLimits ==
  ASSUME NetworksInv, LimitsInv, NEW c \in Calls, InsertNetwork(c)
  PROVE  LimitsInv'
<1>1. PICK n : n = call[c].n
  OBVIOUS
<1>2. /\ call[c].op = "create" /\ UNCHANGED <<members, peer, rules>>
      /\ OthersStay(c) /\ call'[c].op = None
  BY InvParts, FinishMore, IdleFacts DEF InsertNetwork, peerRows, At
<1>3. NetworksFit'
  <2>1. ASSUME NEW u \in Users
        PROVE  Fits(NetworksBy(u)', Creating(u)', MaxNetworks)
    <3>1. Fits(NetworksBy(u), Creating(u), MaxNetworks) /\ Creating(u) \in SUBSET Calls
      BY DEF LimitsInv, NetworksFit, Creating
    <3>2. Creating(u)' \subseteq Creating(u) \ {c}
      BY <1>2, StepFacts DEF Creating, OthersStay
    <3>3. \A m \in Nets : m # n => net'[m] = net[m]
      BY <1>1, InvParts DEF InsertNetwork, RowTypes
    <3>4. CASE u = Owner[n]
      <4>1. c \in Creating(u) /\ NetworksBy(u)' \in SUBSET (NetworksBy(u) \cup {n})
        BY <1>1, <1>2, <3>3, <3>4 DEF Creating, NetworksBy
      <4>2. Creating(u)' \in SUBSET (Creating(u) \ {c})
        BY <3>2
      <4>3. QED
        BY <3>1, <4>1, <4>2, OneFits, LimitTypes
    <3>5. CASE u # Owner[n]
      <4>1. NetworksBy(u)' \subseteq NetworksBy(u)
        BY <3>3, <3>5 DEF NetworksBy
      <4>2. QED
        BY <3>1, <3>2, <4>1, FewerFit, LimitTypes
    <3>6. QED
      BY <3>4, <3>5
  <2>2. QED
    BY <2>1 DEF NetworksFit, Fits
<1>4. \A e \in Calls : /\ ModestAdd(call[e], call'[e])
                       /\ ModestPair(call[e], call'[e]) /\ ModestAllow(call[e], call'[e])
  BY <1>2, StepFacts DEF OthersStay, ModestAdd, ModestPair, ModestAllow, Is
<1>5. MembersFit' /\ PeeringsFit' /\ RulesFit'
  BY <1>2, <1>4, PartsTame DEF PeerRow
<1>6. QED
  BY <1>3, <1>5 DEF LimitsInv

(* The count of peerings, and the peering.                                 *)
LEMMA FindPairLimits ==
  ASSUME NetworksInv, LimitsInv, NEW c \in Calls, NEW p \in Peerings, FindPair(c, p)
  PROVE  LimitsInv'
<1>1. PICK h : h = IF server[Ends[p][1]] = Local THEN server[Ends[p][2]] ELSE server[Ends[p][1]]
  OBVIOUS
<1>2. PICK k : k = [Idle EXCEPT !.op = "peer", !.at = "insert", !.p = p, !.host = h]
  OBVIOUS
<1>3. Start(c, k) /\ k.op = "peer" /\ k.p = p /\ RowsSame
  BY <1>1, <1>2 DEF FindPair, Idle, RowsSame, netRows, peerRows
<1>4. OthersStay(c) /\ call'[c] = k
  BY <1>3, InvParts, StartFields DEF OthersStay
<1>5. PICK v : v = Owner[Ends[p][1]]
  OBVIOUS
<1>6. Cardinality(PeeringsBy(v)) < MaxPeerings
  BY <1>5 DEF FindPair
<1>7. PeeringsFit'
  <2>1. ASSUME NEW u \in Users
        PROVE  Fits(PeeringsBy(u)', Pairing(u)', MaxPeerings)
    <3>1. /\ Fits(PeeringsBy(u), Pairing(u), MaxPeerings) /\ PeeringsBy(u)' = PeeringsBy(u)
          /\ Pairing(u) \in SUBSET Calls /\ Pairing(u)' \in SUBSET Calls
      BY <1>3 DEF LimitsInv, PeeringsFit, RowsSame, PeeringsBy, PeerRow, Pairing
    <3>2. CASE u = v
      <4>1. IsFiniteSet(PeeringsBy(u))
        BY <3>1 DEF Fits
      <4>2. Fits(PeeringsBy(u), Pairing(u)', MaxPeerings)
        BY <1>6, <3>1, <3>2, <4>1, CountFits, LimitTypes
      <4>3. QED
        BY <3>1, <4>2
    <3>3. CASE u # v
      <4>1. Pairing(u)' \subseteq Pairing(u)
        BY <1>3, <1>4, <1>5, <3>3 DEF Pairing, OthersStay
      <4>2. QED
        BY <3>1, <4>1, FewerFit, LimitTypes
    <3>4. QED
      BY <3>2, <3>3
  <2>2. QED
    BY <2>1 DEF PeeringsFit, Fits
<1>8. \A e \in Calls : /\ ModestAdd(call[e], call'[e])
                       /\ ModestCreate(call[e], call'[e]) /\ ModestAllow(call[e], call'[e])
  BY <1>3, <1>4 DEF OthersStay, ModestAdd, ModestCreate, ModestAllow, Is
<1>9. MembersFit' /\ NetworksFit' /\ RulesFit'
  BY <1>3, <1>8, PartsTame DEF RowsSame
<1>10. QED
  BY <1>7, <1>9 DEF LimitsInv

LEMMA InsertPeeringLimits ==
  ASSUME NetworksInv, LimitsInv, NEW c \in Calls, InsertPeering(c)
  PROVE  LimitsInv'
<1>1. PICK p : p = call[c].p
  OBVIOUS
<1>2. /\ call[c].op = "peer" /\ UNCHANGED <<members, net, rules>>
      /\ OthersStay(c) /\ call'[c].op = None
  BY InvParts, FinishMore, IdleFacts DEF InsertPeering, netRows, At
<1>3. PICK v : v = Owner[Ends[p][1]]
  OBVIOUS
<1>4. PeeringsFit'
  <2>1. ASSUME NEW u \in Users
        PROVE  Fits(PeeringsBy(u)', Pairing(u)', MaxPeerings)
    <3>1. Fits(PeeringsBy(u), Pairing(u), MaxPeerings) /\ Pairing(u) \in SUBSET Calls
      BY DEF LimitsInv, PeeringsFit, Pairing
    <3>2. Pairing(u)' \subseteq Pairing(u) \ {c}
      BY <1>2, StepFacts DEF Pairing, OthersStay
    <3>3. \A q \in Peerings : q # p => (PeerRow(q)' <=> PeerRow(q))
      BY <1>1, InvParts DEF InsertPeering, PeerTypes, PeerRow
    <3>4. CASE u = v
      <4>1. c \in Pairing(u) /\ PeeringsBy(u)' \in SUBSET (PeeringsBy(u) \cup {p})
        BY <1>1, <1>2, <1>3, <3>3, <3>4 DEF Pairing, PeeringsBy
      <4>2. Pairing(u)' \in SUBSET (Pairing(u) \ {c})
        BY <3>2
      <4>3. QED
        BY <3>1, <4>1, <4>2, OneFits, LimitTypes
    <3>5. CASE u # v
      <4>1. PeeringsBy(u)' \subseteq PeeringsBy(u)
        BY <1>3, <3>3, <3>5 DEF PeeringsBy
      <4>2. QED
        BY <3>1, <3>2, <4>1, FewerFit, LimitTypes
    <3>6. QED
      BY <3>4, <3>5
  <2>2. QED
    BY <2>1 DEF PeeringsFit, Fits
<1>5. \A e \in Calls : /\ ModestAdd(call[e], call'[e])
                       /\ ModestCreate(call[e], call'[e]) /\ ModestAllow(call[e], call'[e])
  BY <1>2, StepFacts DEF OthersStay, ModestAdd, ModestCreate, ModestAllow, Is
<1>6. MembersFit' /\ NetworksFit' /\ RulesFit'
  BY <1>2, <1>5, PartsTame
<1>7. QED
  BY <1>4, <1>6 DEF LimitsInv

(* The count of rules, and the rule.                                       *)
LEMMA FindPeeringLimits ==
  ASSUME NetworksInv, LimitsInv, NEW c \in Calls, NEW o \in PeerCalls, NEW p \in Peerings,
         NEW r, FindPeering(c, o, p, r)
  PROVE  LimitsInv'
<1>1. PICK k : k = [Idle EXCEPT !.op = o, !.p = p, !.r = r,
                      !.at = IF o = "unpeer" THEN "peerings" ELSE "insert",
                      !.active = (peer[p] = "active"),
                      !.list = IF o = "unpeer" THEN {<<p, bridge[p]>>} ELSE {}]
  OBVIOUS
<1>2. Start(c, k) /\ k.op = o /\ k.p = p /\ RowsSame
  BY <1>1 DEF FindPeering, Idle, RowsSame, netRows, peerRows
<1>3. OthersStay(c) /\ call'[c] = k
  BY <1>2, InvParts, StartFields DEF OthersStay
<1>4. o = "allow" => Cardinality(rules[p]) < MaxRules
  BY DEF FindPeering
<1>5. RulesFit'
  <2>1. ASSUME NEW q \in Peerings
        PROVE  Fits(rules'[q], Allowing(q)', MaxRules)
    <3>1. /\ Fits(rules[q], Allowing(q), MaxRules) /\ rules'[q] = rules[q]
          /\ Allowing(q) \in SUBSET Calls /\ Allowing(q)' \in SUBSET Calls
      BY <1>2 DEF LimitsInv, RulesFit, RowsSame, Allowing
    <3>2. CASE o = "allow" /\ q = p
      <4>1. IsFiniteSet(rules[q])
        BY <3>1 DEF Fits
      <4>2. Fits(rules[q], Allowing(q)', MaxRules)
        BY <1>4, <3>1, <3>2, <4>1, CountFits, LimitTypes
      <4>3. QED
        BY <3>1, <4>2
    <3>3. CASE o # "allow" \/ q # p
      <4>1. Allowing(q)' \subseteq Allowing(q)
        BY <1>2, <1>3, <3>3 DEF Allowing, OthersStay, Is
      <4>2. QED
        BY <3>1, <4>1, FewerFit, LimitTypes
    <3>4. QED
      BY <3>2, <3>3
  <2>2. QED
    BY <2>1 DEF RulesFit, Fits
<1>6. \A e \in Calls : /\ ModestAdd(call[e], call'[e])
                       /\ ModestCreate(call[e], call'[e]) /\ ModestPair(call[e], call'[e])
  BY <1>2, <1>3, StepFacts DEF OthersStay, ModestAdd, ModestCreate, ModestPair, Is
<1>7. MembersFit' /\ NetworksFit' /\ PeeringsFit'
  BY <1>2, <1>6, PartsTame DEF RowsSame, PeerRow
<1>8. QED
  BY <1>5, <1>7 DEF LimitsInv

LEMMA InsertRuleLimits ==
  ASSUME NetworksInv, LimitsInv, NEW c \in Calls, InsertRule(c)
  PROVE  LimitsInv'
<1>1. PICK p, r : p = call[c].p /\ r = call[c].r
  OBVIOUS
<1>2. /\ call[c].op = "allow" /\ call[c].at = "insert" /\ CallsOK
      /\ UNCHANGED <<members, net, peer>>
  BY InvParts DEF InsertRule, netRows, At
<1>3. Finish(c) \/ Goto(c, "read")
  BY DEF InsertRule, AfterRuleChange
<1>4. OthersStay(c) /\ (call'[c].op = None \/ (call'[c].op = "allow" /\ call'[c].at = "read"))
  BY <1>2, <1>3, GotoMore, FinishMore, IdleFacts
<1>5. /\ rules'[p] \subseteq rules[p] \cup {r}
      /\ \A q \in Peerings : q # p => rules'[q] = rules[q]
  BY <1>1, <1>2, InvParts DEF InsertRule, PeerTypes
<1>6. RulesFit'
  <2>1. ASSUME NEW q \in Peerings
        PROVE  Fits(rules'[q], Allowing(q)', MaxRules)
    <3>1. Fits(rules[q], Allowing(q), MaxRules) /\ Allowing(q) \in SUBSET Calls
      BY DEF LimitsInv, RulesFit, Allowing
    <3>2. Allowing(q)' \subseteq Allowing(q) \ {c}
      BY <1>4, StepFacts DEF Allowing, OthersStay, Is
    <3>3. CASE q = p
      <4>1. c \in Allowing(q) /\ Allowing(q)' \in SUBSET (Allowing(q) \ {c})
        BY <1>1, <1>2, <3>2, <3>3 DEF Allowing, Is
      <4>2. rules'[q] \in SUBSET (rules[q] \cup {r})
        BY <1>5, <3>3
      <4>3. QED
        BY <3>1, <4>1, <4>2, OneFits, LimitTypes
    <3>4. CASE q # p
      BY <1>5, <3>1, <3>2, <3>4, FewerFit, LimitTypes
    <3>5. QED
      BY <3>3, <3>4
  <2>2. QED
    BY <2>1 DEF RulesFit, Fits
<1>7. \A e \in Calls : /\ ModestAdd(call[e], call'[e])
                       /\ ModestCreate(call[e], call'[e]) /\ ModestPair(call[e], call'[e])
  BY <1>4, StepFacts DEF OthersStay, ModestAdd, ModestCreate, ModestPair, Is
<1>8. MembersFit' /\ NetworksFit' /\ PeeringsFit'
  BY <1>2, <1>7, PartsTame DEF PeerRow
<1>9. QED
  BY <1>6, <1>8 DEF LimitsInv

(* The rest takes rows away, if anything.                                  *)
LEMMA RequestLimits ==
  ASSUME NetworksInv, FirewallInv, LimitsInv, NEW c \in Calls,
         \/ \E o \in NetCalls, n \in Nets : \E d : FindNetwork(c, o, n, d)
         \/ ListPeerings(c) \/ PeeringsDeleted(c) \/ TakeDownNetwork(c)
         \/ ReadRules(c) \/ ApplyRules(c) \/ CallFails(c)
         \/ \E p \in Peerings : TakeDownBridge(c, p)
  PROVE  LimitsInv'
<1> USE DEF At
<1>1. CallsOK
  BY InvParts
<1>2. RowsSame
  BY DEF FindNetwork, ListPeerings, PeeringsDeleted, TakeDownNetwork, ReadRules, ApplyRules,
         CallFails, TakeDownBridge, RowsSame, netRows, peerRows
<1>3. OthersStay(c) /\ Modest(c)
  <2>1. CASE PeeringsDeleted(c) \/ TakeDownNetwork(c) \/ ApplyRules(c) \/ CallFails(c)
    BY <1>1, <2>1, GoesOnModest DEF PeeringsDeleted, TakeDownNetwork, ApplyRules, CallFails, Counted
  <2>2. ASSUME NEW o \in NetCalls, NEW n \in Nets, NEW d, FindNetwork(c, o, n, d)
        PROVE  OthersStay(c) /\ Modest(c)
    <3>1. PICK k : k = [Idle EXCEPT !.op = o, !.at = "found", !.n = n, !.d = d,
                                    !.host = server[n], !.dock = dock[n]]
      OBVIOUS
    <3>2. Start(c, k) /\ k.op = o /\ k.at = "found"
      BY <2>2, <3>1 DEF FindNetwork, Idle
    <3>3. OthersStay(c) /\ call'[c] = k
      BY <1>1, <3>2, StartFields DEF OthersStay
    <3>4. QED
      BY <3>2, <3>3, StepFacts
      DEF Modest, ModestAdd, ModestCreate, ModestPair, ModestAllow, Is, Counted
  <2>3. ASSUME ListPeerings(c) \/ \E p \in Peerings : TakeDownBridge(c, p)
        PROVE  OthersStay(c) /\ Modest(c)
    <3>1. PICK f : call' = [call EXCEPT ![c] = f] /\ f.op = call[c].op /\ f.at = "peerings"
      <4>1. CASE ListPeerings(c)
        <5> DEFINE f == [call[c] EXCEPT
                           !.at = "peerings",
                           !.list = {<<p, bridge[p]>> : p \in PeeringsOf(call[c].n)}]
        <5>1. call' = [call EXCEPT ![c] = f]
          BY <4>1 DEF ListPeerings
        <5>2. f.op = call[c].op /\ f.at = "peerings"
          BY <1>1 DEF CallsOK, CallType
        <5>3. QED BY <5>1, <5>2
      <4>2. ASSUME NEW p \in Peerings, TakeDownBridge(c, p)
            PROVE  \E f : /\ call' = [call EXCEPT ![c] = f]
                          /\ f.op = call[c].op /\ f.at = "peerings"
        <5> DEFINE f == [call[c] EXCEPT
                           !.list = (@ \ {<<p, TRUE>>}) \cup {<<p, FALSE>>}]
        <5>1. call' = [call EXCEPT ![c] = f] /\ call[c].at = "peerings"
          BY <4>2 DEF TakeDownBridge
        <5>2. f.op = call[c].op /\ f.at = call[c].at
          BY <1>1 DEF CallsOK, CallType
        <5>3. QED BY <5>1, <5>2
      <4>3. QED BY <2>3, <4>1, <4>2
    <3>2. OthersStay(c) /\ call'[c].op = call[c].op /\ call'[c].at = "peerings"
      BY <1>1, <3>1 DEF OthersStay, CallsOK
    <3>3. call[c].op # "create" /\ call[c].op # "peer"
      BY <2>3, FirewallFacts DEF ListPeerings, TakeDownBridge, PeerCallOK
    <3>4. QED
      BY <3>2, <3>3 DEF Modest, ModestAdd, ModestCreate, ModestPair, ModestAllow, Is, Counted
  <2>4. CASE ReadRules(c)
    <3>1. /\ OthersStay(c) /\ call'[c].op = call[c].op /\ call'[c].at = "apply"
          /\ call[c].op \in {"allow", "revoke"}
      BY <1>1, <2>4 DEF ReadRules, OthersStay, CallsOK, CallType
    <3>2. QED
      BY <3>1 DEF Modest, ModestAdd, ModestCreate, ModestPair, ModestAllow, Is, Counted
  <2>5. QED
    BY <2>1, <2>2, <2>3, <2>4
<1>4. QED
  BY <1>2, <1>3, SameShrink, ModestCall

LEMMA RemovalLimits ==
  ASSUME NetworksInv, FirewallInv, LimitsInv, NEW c \in Calls,
         \/ RemoveMember(c) \/ DeleteNetwork(c) \/ DeleteRule(c)
         \/ \E p \in Peerings : DeletePeering(c, p)
  PROVE  LimitsInv'
<1> USE DEF At
<1>1. CallsOK /\ RowTypes /\ PeerTypes
  BY InvParts
<1>2. CASE RemoveMember(c)
  <2>1. RowsShrink
    BY <1>1, <1>2 DEF RemoveMember, RowsShrink, RowTypes, peerRows, PeerRow
  <2>2. QED
    BY <1>1, <1>2, <2>1, GoesOnModest, ModestCall DEF RemoveMember
<1>3. CASE DeleteNetwork(c)
  <2>1. RowsShrink
    BY <1>1, <1>3 DEF DeleteNetwork, RowsShrink, RowTypes, PeeringsOf, PeerRow
  <2>2. QED
    BY <1>1, <1>3, <2>1, GoesOnModest, ModestCall DEF DeleteNetwork
<1>4. CASE DeleteRule(c)
  <2>1. RowsShrink
    BY <1>1, <1>4 DEF DeleteRule, RowsShrink, PeerTypes, netRows, PeerRow
  <2>2. QED
    BY <1>1, <1>4, <2>1, GoesOnModest, ModestCall DEF DeleteRule, AfterRuleChange, Counted
<1>5. ASSUME NEW p \in Peerings, DeletePeering(c, p)
      PROVE  LimitsInv'
  <2>1. RowsShrink
    BY <1>1, <1>5 DEF DeletePeering, RowsShrink, PeerTypes, netRows, PeerRow
  <2>2. /\ OthersStay(c) /\ call'[c].op = call[c].op /\ call'[c].at = "peerings"
    BY <1>1, <1>5 DEF DeletePeering, OthersStay, CallsOK, CallType
  <2>3. call[c].op # "create" /\ call[c].op # "peer"
    BY <1>5, FirewallFacts DEF DeletePeering, PeerCallOK
  <2>4. Modest(c)
    BY <2>2, <2>3 DEF Modest, ModestAdd, ModestCreate, ModestPair, ModestAllow, Is, Counted
  <2>5. QED
    BY <2>1, <2>2, <2>4, ModestCall
<1>6. QED
  BY <1>2, <1>3, <1>4, <1>5

LEMMA OtherLimits ==
  ASSUME NetworksInv, LimitsInv,
         \/ \E p \in Peerings : ProvisionPeering(p)
         \/ \E d \in Dbs : DeleteDatabase(d)
         \/ Crash \/ UNCHANGED vars
  PROVE  LimitsInv'
<1>1. RowTypes /\ PeerTypes
  BY InvParts
<1>2. \A c \in Calls : Modest(c)
  <2>1. call' = call \/ \A c \in Calls : call'[c] = Idle
    BY DEF ProvisionPeering, MakeBridge, SaveBridge, ReadMembers, Activate, ConnectMember,
           DeleteDatabase, MarkDeleting, LeaveNetworks, RemoveContainer, DeleteDatabaseRow,
           Crash, vars
  <2>2. QED
    BY <2>1, IdleFacts, StepFacts
    DEF Modest, ModestAdd, ModestCreate, ModestPair, ModestAllow, Is
<1>3. RowsShrink
  <2>1. CASE Crash \/ UNCHANGED vars
    BY <2>1, SameShrink DEF Crash, vars, RowsSame, netRows, peerRows
  <2>2. ASSUME NEW d \in Dbs, DeleteDatabase(d)
        PROVE  RowsShrink
    BY <2>2 DEF DeleteDatabase, MarkDeleting, LeaveNetworks, RemoveContainer,
                DeleteDatabaseRow, RowsShrink, netRows, peerRows, PeerRow
  <2>3. ASSUME NEW p \in Peerings, ProvisionPeering(p)
        PROVE  RowsShrink
    <3>1. CASE SaveBridge(p) \/ ReadMembers(p) \/ \E d \in Dbs : ConnectMember(p, d)
      BY <3>1, SameShrink DEF SaveBridge, ReadMembers, ConnectMember, RowsSame, netRows, peerRows
    <3>2. CASE MakeBridge(p) \/ Activate(p)
      <4>1. UNCHANGED <<members, net, rules>> /\ (UNCHANGED peer \/ \E s : SetPeerStatus(p, s))
        BY <3>2 DEF MakeBridge, Activate, netRows
      <4>2. \A q \in Peerings : PeerRow(q)' => PeerRow(q)
        BY <1>1, <4>1 DEF SetPeerStatus, PeerRow, PeerTypes
      <4>3. QED
        BY <4>1, <4>2 DEF RowsShrink
    <3>3. QED
      BY <2>3, <3>1, <3>2 DEF ProvisionPeering
  <2>4. QED
    BY <2>1, <2>2, <2>3
<1>4. QED
  BY <1>2, <1>3, ModestStep

LEMMA NextLimits ==
  ASSUME NetworksInv, FirewallInv, LimitsInv, [Next]_vars
  PROVE  LimitsInv'
<1>1. ASSUME NEW c \in Calls, Request(c)
      PROVE  LimitsInv'
  BY <1>1, CountLimits, RequestLimits, FindPairLimits, FindPeeringLimits, StepFacts DEF Request
<1>2. ASSUME NEW c \in Calls, Attach(c) \/ Detach(c)
      PROVE  LimitsInv'
  BY <1>2, CheckLimits, AttachLimits, AddMemberLimits, RemovalLimits DEF Attach, Detach
<1>3. ASSUME NEW c \in Calls, Delete(c)
      PROVE  LimitsInv'
  BY <1>3, RequestLimits, RemovalLimits DEF Delete
<1>4. ASSUME NEW c \in Calls, ChangeRule(c)
      PROVE  LimitsInv'
  BY <1>4, RequestLimits, RemovalLimits, InsertRuleLimits DEF ChangeRule
<1>5. ASSUME NEW c \in Calls, InsertNetwork(c) \/ InsertPeering(c) \/ CallFails(c)
      PROVE  LimitsInv'
  BY <1>5, InsertNetworkLimits, InsertPeeringLimits, RequestLimits
<1>6. QED
  BY <1>1, <1>2, <1>3, <1>4, <1>5, OtherLimits DEF Next

LEMMA LimitsFollow == LimitsInv => LimitsHoldButForOverlaps
<1> SUFFICES ASSUME LimitsInv PROVE LimitsHoldButForOverlaps
  OBVIOUS
<1>1. ASSUME NEW n \in Nets
      PROVE  Cardinality(members[n]) <= MaxMembers + Cardinality(Calls) - 1
  BY FitsWithin, LimitTypes DEF LimitsInv, MembersFit, Adding
<1>2. ASSUME NEW u \in Users
      PROVE  Cardinality(NetworksBy(u)) <= MaxNetworks + Cardinality(Calls) - 1
  BY FitsWithin, LimitTypes DEF LimitsInv, NetworksFit, Creating
<1>3. ASSUME NEW u \in Users
      PROVE  Cardinality(PeeringsBy(u)) <= MaxPeerings + Cardinality(Calls) - 1
  BY FitsWithin, LimitTypes DEF LimitsInv, PeeringsFit, Pairing
<1>4. ASSUME NEW p \in Peerings
      PROVE  Cardinality(rules[p]) <= MaxRules + Cardinality(Calls) - 1
  BY FitsWithin, LimitTypes DEF LimitsInv, RulesFit, Allowing
<1>5. QED
  BY <1>1, <1>2, <1>3, <1>4 DEF LimitsHoldButForOverlaps, NetworksBy

(* Rows are counted before one is inserted, and nothing in between keeps   *)
(* others from doing the same: the members of a network, the networks and  *)
(* peerings of a user and the rules of a peering exceed their limits by    *)
(* less than the number of requests in progress, ever.                     *)
THEOREM LimitsButForOverlaps == Spec => []LimitsHoldButForOverlaps
<1>1. Init => NetworksInv /\ FirewallInv /\ LimitsInv
  BY InitInv, InitFirewall, InitLimits
<1>2. NetworksInv /\ FirewallInv /\ LimitsInv /\ [Next]_vars
        => NetworksInv' /\ FirewallInv' /\ LimitsInv'
  BY NextInv, NextFirewall, NextLimits
<1>3. QED
  BY <1>1, <1>2, LimitsFollow, PTL DEF Spec
=============================================================================
