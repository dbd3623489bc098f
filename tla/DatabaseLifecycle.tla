-------------------------- MODULE DatabaseLifecycle --------------------------
(***************************************************************************)
(* The life of a single database: the handlers of api/src/handlers that    *)
(* create, start, stop, restart and delete one, the background tasks they  *)
(* spawn, and the five places they write to without any transaction: the   *)
(* platform row, the port pool, Docker, the Traefik directory and the      *)
(* usage events.                                                           *)
(*                                                                         *)
(* A step is what happens between two awaits.  The handlers run on a       *)
(* multi-threaded runtime and hold no lock across an await, so every       *)
(* interleaving of their steps is possible.  A handler works on the copy   *)
(* of the row it read first (`inst`), never on the row itself.             *)
(*                                                                         *)
(* Members of Dbs are row ids (Uuid::new_v4): each is used by one create   *)
(* call at most.  Members of Requests are calls in progress on existing    *)
(* databases, together with the task such a call spawned.                  *)
(***************************************************************************)
EXTENDS PortPool, FiniteSets

CONSTANTS
  Dbs,             \* ids of database rows
  Users,
  Servers,         \* remote docker servers (is_remote_server)
  Local,           \* the local docker daemon (no docker_server_id)
  Requests,        \* slots for concurrent calls on existing databases
  NoDb,            \* the target of an idle slot
  MaxDatabases,    \* config.max_databases_per_user
  MaxRestarts,     \* bound: process crashes and restarts explored
  MaxDbFaults      \* bound: failing platform-database writes explored

ASSUME LifecycleAssumption ==
  /\ NoDb \notin Dbs
  /\ Local \notin Servers
  /\ MaxDatabases \in Nat
  /\ MaxRestarts \in Nat
  /\ MaxDbFaults \in Nat

VARIABLES
  (* the columns of database_instances *)
  status,      \* DbStatus, or "absent" when there is no row
  known,       \* the row has a container_id and a network_id
  owner,       \* user_id
  port,        \* port: the column, and the copy every handler captured
  server,      \* docker_server_id: the column, and every captured copy
  (* the world outside *)
  ctr,         \* the container sb-{id}
  net,         \* the network sb-net-{id} exists
  route,       \* the file {id}.toml exists in Traefik's directory
  meter,       \* the latest usage event of the database
  (* control *)
  pc,          \* the create handler and the provisioning task it spawns
  op,          \* what the call in a slot does
  at,          \* where that call is
  target,      \* the database it works on
  snap,        \* its copy of the row has a container_id and a network_id
  restarts, dbFaults,
  (* history: what the code ought to know about its ports but does not *)
  released,    \* databases whose port was handed back
  overdrawn    \* some database's port was handed back, or loaded, once more

rowVars   == <<status, known>>
idVars    == <<owner, port, server>>
docker    == <<ctr, net>>
slots     == <<op, at, target, snap>>
bounds    == <<restarts, dbFaults>>
history   == <<released, overdrawn>>
vars == <<allocated, status, known, owner, port, server, ctr, net, route,
          meter, pc, op, at, target, snap, restarts, dbFaults, released,
          overdrawn>>

NoPort == -1

Hosts    == Servers \cup {Local}
Statuses == {"absent", "provisioning", "running", "stopped", "error", "deleting"}
Actions  == {"start", "stop", "restart"}
Removals == {"delete", "force"}

(* Positions of create_database, before and after the INSERT, and of the   *)
(* task it spawns, in the order they are reached.                          *)
HandlerSteps == {"unborn", "counted", "allocated", "rejected"}
TaskSteps    == {"spawned", "networked", "created", "started", "routed"}
FailSteps    == {"failing", "errored", "failed"}
SavedSteps   == {"saved", "done"}
CreateSteps  == HandlerSteps \cup TaskSteps \cup FailSteps \cup SavedSteps \cup {"lost"}

RequestSteps == {"idle", "found", "metered", "marked", "spawned", "removed",
                 "billed", "unrouted", "gone", "docked", "updated"}

TypeOK ==
  /\ allocated \subseteq Ports
  /\ status \in [Dbs -> Statuses]
  /\ known  \in [Dbs -> BOOLEAN]
  /\ owner  \in [Dbs -> Users]
  /\ port   \in [Dbs -> Ports \cup {NoPort}]
  /\ server \in [Dbs -> Hosts]
  /\ ctr    \in [Dbs -> {"none", "created", "running", "stopped"}]
  /\ net    \in [Dbs -> BOOLEAN]
  /\ route  \in [Dbs -> BOOLEAN]
  /\ meter  \in [Dbs -> {"none", "start", "stop"}]
  /\ pc     \in [Dbs -> CreateSteps]
  /\ op     \in [Requests -> {"none"} \cup Actions \cup Removals]
  /\ at     \in [Requests -> RequestSteps]
  /\ target \in [Requests -> Dbs \cup {NoDb}]
  /\ snap   \in [Requests -> BOOLEAN]
  /\ restarts \in 0..MaxRestarts
  /\ dbFaults \in 0..MaxDbFaults
  /\ released \subseteq Dbs
  /\ overdrawn \in BOOLEAN

Init ==
  /\ allocated = {}
  /\ status = [d \in Dbs |-> "absent"]
  /\ known  = [d \in Dbs |-> FALSE]
  /\ owner  \in [Dbs -> Users]
  /\ port   = [d \in Dbs |-> NoPort]
  /\ server \in [Dbs -> Hosts]
  /\ ctr    = [d \in Dbs |-> "none"]
  /\ net    = [d \in Dbs |-> FALSE]
  /\ route  = [d \in Dbs |-> FALSE]
  /\ meter  = [d \in Dbs |-> "none"]
  /\ pc     = [d \in Dbs |-> "unborn"]
  /\ op     = [r \in Requests |-> "none"]
  /\ at     = [r \in Requests |-> "idle"]
  /\ target = [r \in Requests |-> NoDb]
  /\ snap   = [r \in Requests |-> FALSE]
  /\ restarts = 0
  /\ dbFaults = 0
  /\ released = {}
  /\ overdrawn = FALSE

-----------------------------------------------------------------------------
(* Outcomes of a statement sent to the platform database.                  *)
DbOk    == UNCHANGED dbFaults
DbFault == dbFaults < MaxDbFaults /\ dbFaults' = dbFaults + 1

HasRow(d) == status[d] # "absent"

SetStatusUpsert(d, s) == status' = [status EXCEPT ![d] = s]

(* UPDATE ... WHERE id = d: changes nothing when the row is gone.          *)
SetStatus(d, s) ==
  status' = IF HasRow(d) THEN [status EXCEPT ![d] = s] ELSE status

(* A remote container publishes the row's port on its server.              *)
CanBind(d) ==
  server[d] = Local \/
  \A e \in Dbs \ {d} :
    ~(server[e] = server[d] /\ port[e] = port[d] /\ ctr[e] = "running")

(* port_pool.release on behalf of d, with the history it leaves.           *)
ReleaseFor(d) ==
  /\ ReleasePort(port[d])
  /\ released' = released \cup {d}
  /\ overdrawn' = (overdrawn \/ d \in released)

-----------------------------------------------------------------------------
(* create_database *)

(* The limit is read here and the row inserted two awaits later.           *)
CountedRows(u) == {d \in Dbs : owner[d] = u /\ status[d] \notin {"absent", "deleting"}}

CountRows(d) ==
  /\ pc[d] = "unborn"
  /\ Cardinality(CountedRows(owner[d])) < MaxDatabases
  /\ pc' = [pc EXCEPT ![d] = "counted"]
  /\ UNCHANGED <<allocated, rowVars, idVars, docker, route, meter, slots, bounds, history>>

TakePort(d) ==
  /\ pc[d] = "counted"
  /\ \/ \E p \in Ports :
          /\ AllocatePort(p)
          /\ port' = [port EXCEPT ![d] = p]
          /\ pc' = [pc EXCEPT ![d] = "allocated"]
     \/ /\ Exhausted
        /\ pc' = [pc EXCEPT ![d] = "rejected"]
        /\ UNCHANGED port
  /\ UNCHANGED <<rowVars, owner, server, docker, route, meter, slots, bounds, history>>

(* The INSERT fails twice when the owner already has a row of that name    *)
(* (UNIQUE(user_id, name)): a new subdomain does not help.  The handler    *)
(* then returns without handing the port back.                             *)
InsertRow(d) ==
  /\ pc[d] = "allocated"
  /\ \/ /\ DbOk
        /\ status' = [status EXCEPT ![d] = "provisioning"]
        /\ pc' = [pc EXCEPT ![d] = "spawned"]
     \/ /\ \/ DbOk /\ \E e \in Dbs : HasRow(e) /\ owner[e] = owner[d]
           \/ DbFault
        /\ pc' = [pc EXCEPT ![d] = "rejected"]
        /\ UNCHANGED status
  /\ UNCHANGED <<allocated, known, idVars, docker, route, meter, slots, restarts, history>>

(* The provisioning task: create_database_sni, wait_for_healthy,           *)
(* generate_sni_config, update_provisioned, record_usage_event.            *)

CreateNetwork(d) ==
  /\ pc[d] = "spawned"
  /\ net' = [net EXCEPT ![d] = TRUE]
  /\ pc' = [pc EXCEPT ![d] = "networked"]
  /\ UNCHANGED <<allocated, rowVars, idVars, ctr, route, meter, slots, bounds, history>>

CreateContainer(d) ==
  /\ pc[d] = "networked"
  /\ ctr' = [ctr EXCEPT ![d] = "created"]
  /\ pc' = [pc EXCEPT ![d] = "created"]
  /\ UNCHANGED <<allocated, rowVars, idVars, net, route, meter, slots, bounds, history>>

StartContainer(d) ==
  /\ pc[d] = "created"
  /\ CanBind(d)
  /\ ctr' = [ctr EXCEPT ![d] = "running"]
  /\ pc' = [pc EXCEPT ![d] = "started"]
  /\ UNCHANGED <<allocated, rowVars, idVars, net, route, meter, slots, bounds, history>>

(* The container became healthy and its route is written.                  *)
PublishRoute(d) ==
  /\ pc[d] = "started"
  /\ route' = [route EXCEPT ![d] = TRUE]
  /\ pc' = [pc EXCEPT ![d] = "routed"]
  /\ UNCHANGED <<allocated, rowVars, idVars, docker, meter, slots, bounds, history>>

SaveBeforeRoute(d) ==
  /\ pc[d] \in {"started", "routed"}
  /\ DbOk
  /\ SetStatus(d, "running")
  /\ known' = [known EXCEPT ![d] = HasRow(d)]
  /\ pc' = [pc EXCEPT ![d] = "saved"]
  /\ UNCHANGED <<allocated, idVars, docker, route, meter, slots, restarts, history>>

(* update_provisioned has no guard on the status it overwrites.            *)
SaveProvisioned(d) ==
  /\ pc[d] = "routed"
  /\ DbOk
  /\ SetStatus(d, "running")
  /\ known' = [known EXCEPT ![d] = HasRow(d)]
  /\ pc' = [pc EXCEPT ![d] = "saved"]
  /\ UNCHANGED <<allocated, idVars, docker, route, meter, slots, restarts, history>>

RecordStart(d) ==
  /\ pc[d] = "saved"
  /\ \/ DbOk /\ meter' = [meter EXCEPT ![d] = "start"]
     \/ DbFault /\ UNCHANGED meter
  /\ pc' = [pc EXCEPT ![d] = "done"]
  /\ UNCHANGED <<allocated, rowVars, idVars, docker, route, slots, restarts, history>>

(* Any `?` of the task up to update_provisioned: Docker errors, a health   *)
(* check that times out, a certificate or a route that cannot be written   *)
(* (in part, perhaps).  What was made in Docker stays there.               *)
ProvisioningFails(d) ==
  /\ \/ pc[d] \in {"spawned", "networked", "created"} /\ DbOk /\ UNCHANGED route
     \/ pc[d] = "started" /\ DbOk /\ \E b \in BOOLEAN : route' = [route EXCEPT ![d] = b]
     \/ pc[d] = "routed" /\ DbFault /\ UNCHANGED route
  /\ pc' = [pc EXCEPT ![d] = "failing"]
  /\ UNCHANGED <<allocated, rowVars, idVars, docker, meter, slots, restarts, history>>

MarkErrorForgotten(d) ==
  /\ pc[d] = "failing"
  /\ pc' = [pc EXCEPT ![d] = "errored"]
  /\ UNCHANGED <<allocated, rowVars, idVars, docker, route, meter, slots, bounds, history>>

MarkError(d) ==
  /\ pc[d] = "failing"
  /\ \/ DbOk /\ SetStatus(d, "error")
     \/ DbFault /\ UNCHANGED status
  /\ pc' = [pc EXCEPT ![d] = "errored"]
  /\ UNCHANGED <<allocated, known, idVars, docker, route, meter, slots, restarts, history>>

(* The port goes back to the pool; the row keeps it.                       *)
ReleaseAfterError(d) ==
  /\ pc[d] = "errored"
  /\ ReleaseFor(d)
  /\ pc' = [pc EXCEPT ![d] = "failed"]
  /\ UNCHANGED <<rowVars, idVars, docker, route, meter, slots, bounds>>

Provision(d) ==
  \/ CreateNetwork(d) \/ CreateContainer(d) \/ StartContainer(d)
  \/ PublishRoute(d) \/ SaveProvisioned(d) \/ RecordStart(d)
  \/ ProvisioningFails(d) \/ MarkError(d) \/ ReleaseAfterError(d)

Create(d) == CountRows(d) \/ TakePort(d) \/ InsertRow(d)

-----------------------------------------------------------------------------
(* Calls on an existing database *)

Goto(r, step) ==
  /\ at' = [at EXCEPT ![r] = step]
  /\ UNCHANGED <<op, target, snap>>

End(r) ==
  /\ op' = [op EXCEPT ![r] = "none"]
  /\ at' = [at EXCEPT ![r] = "idle"]
  /\ target' = [target EXCEPT ![r] = NoDb]
  /\ snap' = [snap EXCEPT ![r] = FALSE]

FindUnprovisioned(r, d, o) ==
  /\ at[r] = "idle"
  /\ HasRow(d)
  /\ op' = [op EXCEPT ![r] = o]
  /\ at' = [at EXCEPT ![r] = "found"]
  /\ target' = [target EXCEPT ![r] = d]
  /\ snap' = [snap EXCEPT ![r] = known[d]]
  /\ UNCHANGED <<allocated, rowVars, idVars, docker, route, meter, pc, bounds, history>>

(* find_by_id: the call keeps this copy of the row to its end.  A          *)
(* container_action needs a container_id; a removal takes any row.         *)
Find(r, d, o) ==
  /\ at[r] = "idle"
  /\ HasRow(d)
  /\ o \in Actions => known[d]
  /\ op' = [op EXCEPT ![r] = o]
  /\ at' = [at EXCEPT ![r] = "found"]
  /\ target' = [target EXCEPT ![r] = d]
  /\ snap' = [snap EXCEPT ![r] = known[d]]
  /\ UNCHANGED <<allocated, rowVars, idVars, docker, route, meter, pc, bounds, history>>

(* delete_database, before it answers *)

MeterStop(r) ==
  /\ op[r] = "delete" /\ at[r] = "found"
  /\ \/ DbOk /\ meter' = [meter EXCEPT ![target[r]] = "stop"]
     \/ DbFault /\ UNCHANGED meter
  /\ Goto(r, "metered")
  /\ UNCHANGED <<allocated, rowVars, idVars, docker, route, pc, restarts, history>>

MarkDeleting(r) ==
  /\ op[r] = "delete" /\ at[r] = "metered"
  /\ \/ DbOk /\ SetStatus(target[r], "deleting") /\ Goto(r, "marked")
     \/ DbFault /\ UNCHANGED status /\ End(r)
  /\ UNCHANGED <<allocated, known, idVars, docker, route, meter, pc, restarts, history>>

(* resolve_docker_for_instance may fail for a row on a remote server; the  *)
(* cleanup task is then never spawned.                                     *)
SpawnCleanup(r) ==
  /\ op[r] = "delete" /\ at[r] = "marked"
  /\ \/ Goto(r, "spawned")
     \/ server[target[r]] # Local /\ End(r)
  /\ UNCHANGED <<allocated, rowVars, idVars, docker, route, meter, pc, bounds, history>>

RemoveContainerOrGiveUp(r) ==
  LET d == target[r] IN
  /\ \/ op[r] = "delete" /\ at[r] = "spawned"
     \/ op[r] = "force" /\ at[r] = "found"
  /\ \/ UNCHANGED docker /\ End(r)
     \/ /\ snap[r] /\ ctr[d] # "none"
        /\ ctr' = [ctr EXCEPT ![d] = "none"]
        /\ net' = [net EXCEPT ![d] = FALSE]
        /\ Goto(r, "removed")
  /\ UNCHANGED <<allocated, rowVars, idVars, route, meter, pc, bounds, history>>

(* remove_container of the copy's container and network: the stop may be   *)
(* all that succeeds, or the container may go and its network stay.        *)
RemoveContainer(r) ==
  LET d == target[r] IN
  /\ \/ op[r] = "delete" /\ at[r] = "spawned"
     \/ op[r] = "force" /\ at[r] = "found"
  /\ \/ UNCHANGED docker
     \/ /\ snap[r] /\ ctr[d] = "running"
        /\ ctr' = [ctr EXCEPT ![d] = "stopped"]
        /\ UNCHANGED net
     \/ /\ snap[r] /\ ctr[d] # "none"
        /\ ctr' = [ctr EXCEPT ![d] = "none"]
        /\ \E b \in {FALSE, net[d]} : net' = [net EXCEPT ![d] = b]
  /\ Goto(r, "removed")
  /\ UNCHANGED <<allocated, rowVars, idVars, route, meter, pc, bounds, history>>

(* force_delete_database records the stop after the removal.               *)
MeterForcedStop(r) ==
  /\ op[r] = "force" /\ at[r] = "removed"
  /\ \/ DbOk /\ meter' = [meter EXCEPT ![target[r]] = "stop"]
     \/ DbFault /\ UNCHANGED meter
  /\ Goto(r, "billed")
  /\ UNCHANGED <<allocated, rowVars, idVars, docker, route, pc, restarts, history>>

RemoveRoute(r) ==
  /\ \/ op[r] = "delete" /\ at[r] = "removed"
     \/ op[r] = "force" /\ at[r] = "billed"
  /\ route' = [route EXCEPT ![target[r]] = FALSE]
  /\ Goto(r, "unrouted")
  /\ UNCHANGED <<allocated, rowVars, idVars, docker, meter, pc, bounds, history>>

(* The cleanup task ignores a failing DELETE; force_delete returns it.     *)
DeleteRow(r) ==
  /\ at[r] = "unrouted"
  /\ \/ /\ DbOk
        /\ status' = [status EXCEPT ![target[r]] = "absent"]
        /\ known' = [known EXCEPT ![target[r]] = FALSE]
        /\ Goto(r, "gone")
     \/ /\ DbFault
        /\ UNCHANGED rowVars
        /\ IF op[r] = "delete" THEN Goto(r, "gone") ELSE End(r)
  /\ UNCHANGED <<allocated, idVars, docker, route, meter, pc, restarts, history>>

ReleaseAfterDelete(r) ==
  /\ at[r] = "gone"
  /\ ReleaseFor(target[r])
  /\ End(r)
  /\ UNCHANGED <<rowVars, idVars, docker, route, meter, pc, bounds>>

Remove(r) ==
  \/ MeterStop(r) \/ MarkDeleting(r) \/ SpawnCleanup(r)
  \/ RemoveContainer(r) \/ MeterForcedStop(r) \/ RemoveRoute(r)
  \/ DeleteRow(r) \/ ReleaseAfterDelete(r)

(* container_action *)

(* Docker carries the action out and, after a start, the container turns   *)
(* healthy within the minute.                                              *)
ActInDocker(r) ==
  LET d == target[r] IN
  /\ op[r] \in Actions /\ at[r] = "found"
  /\ ctr[d] # "none"
  /\ op[r] # "stop" => CanBind(d)
  /\ ctr' = [ctr EXCEPT ![d] = IF op[r] = "stop" THEN "stopped" ELSE "running"]
  /\ Goto(r, "docked")
  /\ UNCHANGED <<allocated, rowVars, idVars, net, route, meter, pc, bounds, history>>

(* Docker refuses, or a restart stops half way, or the health check fails  *)
(* after the start: the call returns an error and the row is not touched.  *)
ActionFails(r) ==
  LET d == target[r] IN
  /\ op[r] \in Actions /\ at[r] = "found"
  /\ \/ UNCHANGED ctr
     \/ /\ op[r] = "restart" /\ ctr[d] = "running"
        /\ ctr' = [ctr EXCEPT ![d] = "stopped"]
     \/ /\ op[r] # "stop" /\ ctr[d] # "none" /\ CanBind(d)
        /\ ctr' = [ctr EXCEPT ![d] = "running"]
  /\ End(r)
  /\ UNCHANGED <<allocated, rowVars, idVars, net, route, meter, pc, bounds, history>>

(* A restart ends here: it records no usage event.                         *)
UpdateStatus(r) ==
  /\ op[r] \in Actions /\ at[r] = "docked"
  /\ \/ /\ DbOk
        /\ SetStatus(target[r], IF op[r] = "stop" THEN "stopped" ELSE "running")
        /\ IF op[r] = "restart" THEN End(r) ELSE Goto(r, "updated")
     \/ DbFault /\ UNCHANGED status /\ End(r)
  /\ UNCHANGED <<allocated, known, idVars, docker, route, meter, pc, restarts, history>>

RecordAction(r) ==
  /\ op[r] \in {"start", "stop"} /\ at[r] = "updated"
  /\ \/ DbOk /\ meter' = [meter EXCEPT ![target[r]] = op[r]]
     \/ DbFault /\ UNCHANGED meter
  /\ End(r)
  /\ UNCHANGED <<allocated, rowVars, idVars, docker, route, pc, restarts, history>>

Act(r) == ActInDocker(r) \/ ActionFails(r) \/ UpdateStatus(r) \/ RecordAction(r)

-----------------------------------------------------------------------------
(* The process stops between any two steps and starts again: handlers and  *)
(* tasks are lost and the pool is rebuilt from the rows that are not being *)
(* deleted (unwrap_or_default: from nothing when that query fails).        *)
LoadedRows == {d \in Dbs : status[d] \notin {"absent", "deleting"}}

Restart ==
  /\ restarts < MaxRestarts
  /\ restarts' = restarts + 1
  /\ \E loaded \in {LoadedRows, {}} :
       /\ IF loaded = LoadedRows THEN DbOk ELSE DbFault
       /\ LoadAllocated({port[d] : d \in loaded})
       /\ released' = {d \in Dbs : port[d] # NoPort} \ loaded
       /\ overdrawn' = (overdrawn \/ released \cap loaded # {})
  /\ pc' = [d \in Dbs |->
              CASE pc[d] \in {"counted", "allocated"} -> "rejected"
                [] pc[d] \in TaskSteps \cup FailSteps -> "lost"
                [] pc[d] = "saved" -> "done"
                [] OTHER -> pc[d]]
  /\ op' = [r \in Requests |-> "none"]
  /\ at' = [r \in Requests |-> "idle"]
  /\ target' = [r \in Requests |-> NoDb]
  /\ snap' = [r \in Requests |-> FALSE]
  /\ UNCHANGED <<rowVars, idVars, docker, route, meter>>

-----------------------------------------------------------------------------
Next ==
  \/ \E d \in Dbs : Create(d) \/ Provision(d)
  \/ \E r \in Requests, d \in Dbs, o \in Actions \cup Removals : Find(r, d, o)
  \/ \E r \in Requests : Remove(r) \/ Act(r)
  \/ Restart

Spec == Init /\ [][Next]_vars

(* tokio polls every handler and spawned task to its end, every Docker     *)
(* call has a client timeout and wait_for_healthy a deadline, so each one  *)
(* takes its next step.  Users need not call anything.                     *)
Fairness ==
  /\ \A d \in Dbs : WF_vars(TakePort(d) \/ InsertRow(d) \/ Provision(d))
  /\ \A r \in Requests : WF_vars(Remove(r) \/ Act(r))

LiveSpec == Spec /\ Fairness
-----------------------------------------------------------------------------
(* Properties *)

Quiet(d) ==
  /\ pc[d] \notin {"counted", "allocated"} \cup TaskSteps \cup {"failing", "errored", "saved"}
  /\ \A r \in Requests : target[r] # d

BeingRemoved(d) == \E r \in Requests : target[r] = d /\ op[r] \in Removals

(* No start, stop or restart works on a database whose provisioning has    *)
(* not succeeded, and until it has nobody but a removal touches its row:   *)
(* container_action's test of container_id (databases.rs:755) keeps the    *)
(* task and the handlers apart although neither looks at the status.       *)
TaskOwnsItsRow ==
  /\ \A r \in Requests : op[r] \in Actions => pc[target[r]] \in SavedSteps
  /\ \A d \in Dbs :
       /\ pc[d] \in TaskSteps \cup {"failing"} =>
            status[d] \in {"absent", "provisioning", "deleting"}
       /\ known[d] => pc[d] \in SavedSteps

(* Databases that took a port and have not handed it back.                 *)
Holders == {d \in Dbs : port[d] # NoPort} \ released

(* While every database hands its port back at most once, the pool protects*)
(* each holder: its port is marked as allocated and nobody else holds it.  *)
(* The pool itself cannot tell (port_pool.rs:41 removes any number), so    *)
(* this is the discipline its callers would have to keep.                  *)
PortExclusion ==
  ~overdrawn =>
    \A d \in Holders :
      /\ port[d] \in allocated
      /\ \A e \in Holders : port[e] = port[d] => e = d

(* As long as the process has not been restarted and no write to the       *)
(* platform database has failed, a database shown as running or stopped    *)
(* that nobody is removing has its container and its route, whatever else  *)
(* ran concurrently on it.                                                 *)
ShownDatabaseExists ==
  restarts = 0 /\ dbFaults = 0 =>
    \A d \in Dbs :
      status[d] \in {"running", "stopped"} /\ ~BeingRemoved(d) =>
        ctr[d] # "none" /\ route[d]

(* A database whose provisioning failed is never metered as started, so    *)
(* the invoice of the month cannot contain running hours for it.           *)
FailedIsNeverStarted ==
  \A d \in Dbs :
    pc[d] \in FailSteps \cup {"rejected", "lost"} => meter[d] # "start"

(* The status a client sees, and the promise about it: a row that is gone  *)
(* stays gone whichever tasks are still at work on it, a failed database   *)
(* can only be removed, a running or stopped one never falls back to       *)
(* provisioning or error.                                                  *)
shown == [d \in Dbs |->
  IF HasRow(d) THEN status[d]
  ELSE IF pc[d] \in HandlerSteps THEN "unborn" ELSE "gone"]

Promise == INSTANCE DatabaseStatus WITH st <- shown

KeepsStatusPromise == Promise!Spec

(* Steps of a task or handler were lost.                                   *)
CutShort == restarts # 0 \/ dbFaults # 0

(* Without restarts and database faults, a row leaves "provisioning".      *)
ProvisioningSettles ==
  \A d \in Dbs : status[d] = "provisioning" ~> status[d] # "provisioning" \/ CutShort

(* ... and an accepted deletion, once its task is spawned, removes the row.*)
DeletionCompletes ==
  \A d \in Dbs :
    (\E r \in Requests : op[r] = "delete" /\ at[r] = "spawned" /\ target[r] = d)
      ~> status[d] = "absent" \/ CutShort
-----------------------------------------------------------------------------
(* The inductive invariant *)

(* How far the create handler and its task are bounds what the row says.   *)
RowInv ==
  \A d \in Dbs :
    /\ pc[d] \in HandlerSteps => status[d] = "absent"
    /\ known[d] <=> (pc[d] \in SavedSteps /\ HasRow(d))
    /\ status[d] = "provisioning" => pc[d] \in TaskSteps \cup FailSteps \cup {"lost"}
    /\ status[d] \in {"running", "stopped"} => pc[d] \in SavedSteps
    /\ status[d] = "error" => pc[d] \in {"errored", "failed", "lost"}

(* A call works on a database whose row was inserted; one that holds a     *)
(* container_id on one whose provisioning has succeeded.                   *)
CallInv ==
  \A r \in Requests :
    /\ op[r] = "none" => at[r] = "idle"
    /\ op[r] # "none" => target[r] \in Dbs /\ pc[target[r]] \notin HandlerSteps
    /\ op[r] \in Actions \/ snap[r] => pc[target[r]] \in SavedSteps
    /\ at[r] \in {"docked", "updated"} => op[r] \in Actions
    /\ at[r] = "updated" => op[r] \in {"start", "stop"}
    /\ at[r] \in {"removed", "billed", "unrouted", "gone"} => op[r] \in Removals

MeterInv == \A d \in Dbs : meter[d] = "start" => pc[d] \in SavedSteps

PortInv ==
  /\ \A d \in Dbs :
       /\ pc[d] \in {"unborn", "counted"} => port[d] = NoPort
       /\ port[d] = NoPort => pc[d] \in {"unborn", "counted", "rejected"}
       /\ d \in released => port[d] # NoPort
  /\ PortExclusion

(* Removals of d that have started to take its container and route away.   *)
Dismantling(d) ==
  \E r \in Requests :
    target[r] = d /\ at[r] \in {"removed", "billed", "unrouted", "gone"}

ExistInv ==
  restarts = 0 /\ dbFaults = 0 =>
    \A d \in Dbs :
      /\ (\E r \in Requests : target[r] = d /\ at[r] = "gone") => ~HasRow(d)
      /\ HasRow(d) /\ ~Dismantling(d) =>
           /\ pc[d] \in {"created", "started", "routed"} \cup SavedSteps => ctr[d] # "none"
           /\ pc[d] \in {"routed"} \cup SavedSteps => route[d]

LifecycleInv ==
  TypeOK /\ RowInv /\ CallInv /\ MeterInv /\ PortInv /\ ExistInv
=============================================================================
