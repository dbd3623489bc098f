------------------------------ MODULE Admission ------------------------------
(***************************************************************************)
(* How databases are admitted and placed: create_database, create_bundle   *)
(* and clone_database (api/src/handlers/databases.rs) count what the user  *)
(* has, choose a Docker server, take ports, insert rows and spawn a task that   *)
(* provisions them, while admins add, change and remove servers            *)
(* (docker_servers.rs) and databases are removed.                          *)
(*                                                                         *)
(* A single database is a bundle of one here: create_bundle does twice,    *)
(* first for PostgreSQL and then for Redis, what create_database does      *)
(* once.  What DatabaseLifecycle models step by step (a container and its  *)
(* network, a route, the two halves of container_action) is one step.      *)
(*                                                                         *)
(* Members of Dbs are row ids, used once.  Members of Calls are requests   *)
(* in progress.                                                            *)
(***************************************************************************)
EXTENDS PortPool, FiniteSets, Sequences

CONSTANTS
  Dbs, Users, Calls,
  Servers,        \* docker_servers, all of them remote
  Local,          \* the local docker daemon (docker_server_id is NULL)
  NoUser,
  MaxDatabases,   \* config.max_databases_per_user
  Handled,        \* bound: databases whose removal and actions are explored
  Capacities,     \* bound: values of max_containers explored
  MaxFaults       \* bound: statements that fail, and crashes of the process

ASSUME AdmissionAssumption ==
  /\ Local \notin Servers /\ NoUser \notin Users
  /\ MaxDatabases \in Nat /\ Capacities \subseteq Nat /\ Capacities # {} /\ Handled \subseteq Dbs
  /\ MaxFaults \in Nat
  /\ IsFiniteSet(Dbs) /\ IsFiniteSet(Calls)

VARIABLES
  (* docker_servers *)
  listed,     \* whether a server has a row: "absent", "listed", "gone"
  open,       \* active, and of type client
  max,        \* max_containers
  (* database_instances *)
  status,     \* DbStatus; "absent" and "gone" when there is no row
  user,       \* user_id
  host,       \* docker_server_id, Local for NULL
  port,       \* port: the column, and every captured copy
  known,      \* rows with a container_id
  clones,     \* databases that clone_database creates
  (* Docker *)
  ctr,        \* databases that have a container, on their host
  (* control *)
  call,       \* the request in a slot
  task,       \* of a creation's first database: the task it spawned
  removal,    \* the removal of a database
  faults,
  (* history *)
  crowd,      \* the most that requests which overlapped had still to create
  highest,    \* the largest max_containers a server ever had
  leaked,     \* ports taken for rows that were never inserted
  failed,     \* databases a task gave up
  disturbed   \* databases a fault, a crash or a container_action interfered with

serverVars == <<listed, open, max, highest>>
rowVars    == <<status, user, host, port, known, clones>>
history    == <<crowd, leaked, failed, disturbed>>
vars == <<allocated, listed, open, max, status, user, host, port, known,
          clones, ctr, call, task, removal, faults, crowd, highest, leaked, failed,
          disturbed>>

NoPort == -1
Hosts  == Servers \cup {Local}

(* A request: the ids it will use, how many ports and rows it has so far,  *)
(* and, for an admin's update, its copies of active and max_containers.    *)
Idle == [at |-> "idle", user |-> NoUser, dbs |-> <<>>, got |-> 0, made |-> 0,
         host |-> Local, open |-> FALSE, max |-> 0]

(* A task: its databases, what it does and how many it has done it for.    *)
NoTask == [dbs |-> <<>>, at |-> "none", done |-> 0]
TaskSteps == {"make", "save", "mark", "release"}
Removing  == {"known", "unknown"}

Members(s) == {s[i] : i \in DOMAIN s}
DbLists    == {<<d>> : d \in Dbs} \cup {l \in Dbs \X Dbs : l[1] # l[2]}

CallType ==
  [at : {"idle", "admitted", "allocate", "insert", "giveback", "counted", "update"},
   user : Users \cup {NoUser}, dbs : DbLists \cup {<<>>}, got : 0..2, made : 0..2,
   host : Hosts, open : BOOLEAN, max : Capacities \cup {0}]

TaskType ==
  [dbs : DbLists \cup {<<>>}, done : 0..2,
   at : TaskSteps \cup {"none", "ready", "failed", "lost"}]

TypeOK ==
  /\ allocated \subseteq Ports
  /\ listed \in [Servers -> {"absent", "listed", "gone"}]
  /\ open \subseteq Servers
  /\ max \in [Servers -> Capacities] /\ highest \in [Servers -> Capacities]
  /\ status \in [Dbs -> {"absent", "provisioning", "running", "stopped",
                         "error", "deleting", "gone"}]
  /\ user \in [Dbs -> Users \cup {NoUser}]
  /\ host \in [Dbs -> Hosts]
  /\ port \in [Dbs -> Ports \cup {NoPort}]
  /\ known \subseteq Dbs /\ clones \subseteq Dbs /\ ctr \subseteq Dbs
  /\ call \in [Calls -> CallType]
  /\ task \in [Dbs -> TaskType]
  /\ removal \in [Dbs -> Removing \cup {"none", "done", "lost"}]
  /\ faults \in 0..MaxFaults
  /\ crowd \in [Users \cup Servers -> Nat]
  /\ leaked \subseteq Ports /\ failed \subseteq Dbs /\ disturbed \subseteq Dbs

Init ==
  /\ allocated = {}
  /\ listed = [s \in Servers |-> "absent"]
  /\ open = {}
  /\ max \in [Servers -> Capacities] /\ highest = max
  /\ status = [d \in Dbs |-> "absent"]
  /\ user = [d \in Dbs |-> NoUser]
  /\ host = [d \in Dbs |-> Local]
  /\ port = [d \in Dbs |-> NoPort]
  /\ known = {} /\ clones = {} /\ ctr = {}
  /\ call = [c \in Calls |-> Idle]
  /\ task = [d \in Dbs |-> NoTask]
  /\ removal = [d \in Dbs |-> "none"]
  /\ faults = 0
  /\ crowd = [x \in Users \cup Servers |-> 0]
  /\ leaked = {} /\ failed = {} /\ disturbed = {}

-----------------------------------------------------------------------------
HasRow(d) == status[d] \notin {"absent", "gone"}

(* count_by_user and count_containers_on_server *)
RowsOf(u) == {d \in Dbs : HasRow(d) /\ status[d] # "deleting" /\ user[d] = u}
Listed    == {s \in Servers : listed[s] = "listed"}
RowsOn(s) == {d \in Dbs : status[d] \in {"provisioning", "running", "stopped"} /\ host[d] = s}

Fault == faults < MaxFaults /\ faults' = faults + 1
Step(c, k) == call' = [call EXCEPT ![c] = k]

Raise(x, n) == crowd' = [crowd EXCEPT ![x] = IF n > @ THEN n ELSE @]

(* Nothing but the request's own progress changes.                         *)
OnlyCalls == UNCHANGED <<allocated, serverVars, rowVars, ctr, task, removal, faults, history>>
Admitted  == UNCHANGED <<allocated, serverVars, status, user, host, port, known, ctr, task,
                         removal, faults, leaked, failed, disturbed>>

(* Databases that other requests have still to create, for x: a user, or a *)
(* server they have chosen.                                                *)
Creating == {"allocate", "giveback", "insert"}
AheadOf(c, x) ==
  {d \in Dbs : status[d] = "absent" /\ \E e \in Calls \ {c} :
      /\ d \in Members(call[e].dbs)
      /\ (call[e].user = x \/ (call[e].at \in Creating /\ call[e].host = x))}

-----------------------------------------------------------------------------
(* create_database, create_bundle: the limit of the user *)

Fresh(d) == status[d] = "absent" /\ \A c \in Calls : d \notin Members(call[c].dbs)

CountOne(c, u, dbs) ==
  /\ call[c] = Idle
  /\ \A i \in DOMAIN dbs : Fresh(dbs[i])
  /\ Cardinality(RowsOf(u)) < MaxDatabases
  /\ Step(c, [Idle EXCEPT !.at = "admitted", !.user = u, !.dbs = dbs])
  /\ Raise(u, Cardinality(AheadOf(c, u)))
  /\ clones' = clones \ Members(dbs)
  /\ Admitted

(* Rows are counted before any is inserted.                                *)
CountRows(c, u, dbs) ==
  /\ call[c] = Idle
  /\ \A i \in DOMAIN dbs : Fresh(dbs[i])
  /\ Cardinality(RowsOf(u)) + Len(dbs) <= MaxDatabases
  /\ Step(c, [Idle EXCEPT !.at = "admitted", !.user = u, !.dbs = dbs])
  /\ Raise(u, Cardinality(AheadOf(c, u)))
  /\ clones' = clones \ Members(dbs)
  /\ Admitted

(* clone_database, of a backup of src: it goes where src is.               *)
CountClone(c, src, d) ==
  /\ call[c] = Idle
  /\ Fresh(d)
  /\ HasRow(src) /\ src \in known
  /\ Cardinality(RowsOf(user[src])) < MaxDatabases
  /\ Step(c, [Idle EXCEPT !.at = "allocate", !.user = user[src], !.dbs = <<d>>,
                          !.host = host[src]])
  /\ Raise(user[src], Cardinality(AheadOf(c, user[src])))
  /\ clones' = clones \cup {d}
  /\ Admitted

-----------------------------------------------------------------------------
(* The choice of a server *)

HasRoomForAny(s, n) == s \in Listed \cap open

(* A server the request names must have room for all of it.                *)
HasRoom(s, n) == s \in Listed \cap open /\ Cardinality(RowsOn(s)) + n <= max[s]

(* select_best_client_server asks for room for one, whatever the request.  *)
Free(s)    == max[s] - Cardinality(RowsOn(s))
Candidates == {s \in Listed \cap open : Free(s) > 0}
Best       == {s \in Candidates : \A t \in Candidates : Free(t) <= Free(s)}

ChooseServer(c) ==
  LET k == call[c] IN
  /\ k.at = "admitted"
  /\ \E s \in Hosts :
       /\ \/ /\ s \in Servers /\ HasRoom(s, Len(k.dbs))
             /\ Raise(s, Cardinality(AheadOf(c, s)))
          \/ /\ s \in Best
             /\ Raise(s, Cardinality(AheadOf(c, s)) + Len(k.dbs) - 1)
          \/ Candidates = {} /\ s = Local /\ UNCHANGED crowd
       /\ Step(c, [k EXCEPT !.at = "allocate", !.host = s])
  /\ UNCHANGED clones
  /\ Admitted

(* The server named is not there, not open or full; or a statement fails.  *)
Reject(c) ==
  /\ call[c].at = "admitted"
  /\ Step(c, Idle)
  /\ OnlyCalls

-----------------------------------------------------------------------------
(* Ports and rows *)

AllocateNext(c) ==
  LET k == call[c]
      d == k.dbs[k.got + 1] IN
  /\ k.at = "allocate"
  /\ \/ \E p \in Ports :
          /\ AllocatePort(p)
          /\ port' = [port EXCEPT ![d] = p]
          /\ Step(c, [k EXCEPT !.got = @ + 1,
                               !.at = IF k.got + 1 = Len(k.dbs) THEN "insert" ELSE @])
     \/ /\ Exhausted
        /\ Step(c, IF k.got = 0 THEN Idle ELSE [k EXCEPT !.at = "giveback"])
        /\ UNCHANGED port
  /\ UNCHANGED <<serverVars, status, user, host, known, clones, ctr, task, removal, faults, history>>

KeepFirst(c) ==
  /\ call[c].at = "giveback"
  /\ Step(c, Idle)
  /\ OnlyCalls

(* There was a port for PostgreSQL but none for Redis.                     *)
GiveBackFirst(c) ==
  /\ call[c].at = "giveback"
  /\ ReleasePort(port[call[c].dbs[1]])
  /\ Step(c, Idle)
  /\ UNCHANGED <<serverVars, rowVars, ctr, task, removal, faults, history>>

InsertNextAlone(c) ==
  LET k == call[c]
      d == k.dbs[k.made + 1]
      last == k.made + 1 = Len(k.dbs) IN
  /\ k.at = "insert"
  /\ status' = [status EXCEPT ![d] = "provisioning"]
  /\ user' = [user EXCEPT ![d] = k.user]
  /\ host' = [host EXCEPT ![d] = k.host]
  /\ task' = IF last THEN [task EXCEPT ![d] = [dbs |-> <<d>>, at |-> "make", done |-> 0]]
                     ELSE task
  /\ Step(c, IF last THEN Idle ELSE [k EXCEPT !.made = @ + 1])
  /\ UNCHANGED <<allocated, serverVars, port, known, clones, ctr, removal, faults, history>>

(* A row refers to its server.  After the last row the task is spawned.    *)
InsertNext(c) ==
  LET k == call[c]
      d == k.dbs[k.made + 1]
      last == k.made + 1 = Len(k.dbs) IN
  /\ k.at = "insert"
  /\ k.host \in Listed \cup {Local}
  /\ status' = [status EXCEPT ![d] = "provisioning"]
  /\ user' = [user EXCEPT ![d] = k.user]
  /\ host' = [host EXCEPT ![d] = k.host]
  /\ task' = IF last THEN [task EXCEPT ![k.dbs[1]] = [dbs |-> k.dbs, at |-> "make", done |-> 0]]
                     ELSE task
  /\ Step(c, IF last THEN Idle ELSE [k EXCEPT !.made = @ + 1])
  /\ UNCHANGED <<allocated, serverVars, port, known, clones, ctr, removal, faults, history>>

(* The server was removed, the name is taken, or the statement fails: the  *)
(* ports of rows that are missing stay allocated, and a row of PostgreSQL  *)
(* stays without a task.                                                   *)
InsertFails(c) ==
  LET k == call[c] IN
  /\ k.at = "insert"
  /\ \/ k.host \notin Listed \cup {Local} /\ UNCHANGED faults
     \/ Fault
  /\ leaked' = leaked \cup {port[k.dbs[i]] : i \in (k.made + 1)..Len(k.dbs)}
  /\ disturbed' = disturbed \cup Members(k.dbs)
  /\ Step(c, Idle)
  /\ UNCHANGED <<allocated, serverVars, rowVars, ctr, task, removal, crowd, failed>>

Create(c) ==
  \/ ChooseServer(c) \/ Reject(c) \/ AllocateNext(c) \/ GiveBackFirst(c)
  \/ InsertNext(c) \/ InsertFails(c)

-----------------------------------------------------------------------------
(* The task: containers for all its databases, then their rows; on any     *)
(* error all rows get the status error and all ports are handed back.      *)

Advance(t, last) ==
  IF task[t].done + 1 = Len(task[t].dbs)
  THEN [task EXCEPT ![t].at = last, ![t].done = 0]
  ELSE [task EXCEPT ![t].done = @ + 1]

Current(t) == task[t].dbs[task[t].done + 1]

(* Docker refuses a port that is published on the server already.          *)
CanBind(d) ==
  host[d] # Local => \A e \in ctr \ {d} : host[e] = host[d] => port[e] # port[d]

MakeContainer(t) ==
  /\ task[t].at = "make"
  /\ CanBind(Current(t))
  /\ ctr' = ctr \cup {Current(t)}
  /\ task' = Advance(t, "save")
  /\ UNCHANGED <<allocated, serverVars, rowVars, call, removal, faults, history>>

SaveProvisioned(t) ==
  LET d == Current(t) IN
  /\ task[t].at = "save"
  /\ status' = IF HasRow(d) THEN [status EXCEPT ![d] = "running"] ELSE status
  /\ known' = IF HasRow(d) THEN known \cup {d} ELSE known
  /\ task' = Advance(t, "ready")
  /\ UNCHANGED <<allocated, serverVars, user, host, port, clones, ctr, call, removal,
                 faults, history>>

(* The task of a clone goes on when the server is not reached: it makes    *)
(* the container on the local daemon.                                      *)
MakeCloneElsewhere(t) ==
  /\ task[t].at = "make" /\ t \in clones /\ host[t] # Local
  /\ task' = Advance(t, "save")
  /\ UNCHANGED <<allocated, serverVars, rowVars, ctr, call, removal, faults, history>>

(* It goes on when the row cannot be written, to wait and to restore.      *)
SaveCloneFails(t) ==
  /\ task[t].at = "save" /\ t \in clones
  /\ Fault
  /\ disturbed' = disturbed \cup {t}
  /\ task' = Advance(t, "ready")
  /\ UNCHANGED <<allocated, serverVars, rowVars, ctr, call, removal, crowd, leaked, failed>>

(* UPDATE ... SET status = 'error'; an error of the statement is ignored.   *)
MarkRow(d) ==
  \/ /\ status' = IF HasRow(d) THEN [status EXCEPT ![d] = "error"] ELSE status
     /\ UNCHANGED <<faults, disturbed>>
  \/ Fault /\ disturbed' = disturbed \cup {d} /\ UNCHANGED status

GiveUp(t) ==
  /\ task[t].at \in {"make", "save"}
  /\ MarkRow(task[t].dbs[1])
  /\ task' = [task EXCEPT ![t].at = "release"]
  /\ failed' = failed \cup Members(task[t].dbs)
  /\ UNCHANGED <<allocated, serverVars, user, host, port, known, clones, ctr, call, removal, crowd, leaked>>

(* The server is not reached, a container or certificate is not made, does *)
(* not get healthy, or a route or row is not written: the first row is     *)
(* marked, and then the second one if there is one.  A clone keeps its     *)
(* port, as its row does.                                                  *)
AfterMark(t) ==
  IF t \in clones THEN "failed" ELSE IF Len(task[t].dbs) = 1 THEN "release" ELSE "mark"

ProvisioningFails(t) ==
  /\ task[t].at \in {"make", "save"}
  /\ MarkRow(task[t].dbs[1])
  /\ task' = [task EXCEPT ![t].at = AfterMark(t)]
  /\ failed' = failed \cup Members(task[t].dbs)
  /\ UNCHANGED <<allocated, serverVars, user, host, port, known, clones, ctr, call, removal, crowd, leaked>>

MarkSecond(t) ==
  /\ task[t].at = "mark"
  /\ MarkRow(task[t].dbs[2])
  /\ task' = [task EXCEPT ![t].at = "release"]
  /\ UNCHANGED <<allocated, serverVars, user, host, port, known, clones, ctr, call, removal,
                 crowd, leaked, failed>>

ReleaseAfterError(t) ==
  /\ task[t].at = "release"
  /\ allocated' = allocated \ {port[d] : d \in Members(task[t].dbs)}
  /\ task' = [task EXCEPT ![t].at = "failed", ![t].done = 0]
  /\ UNCHANGED <<serverVars, rowVars, ctr, call, removal, faults, history>>

Provision(t) ==
  \/ MakeContainer(t) \/ SaveProvisioned(t) \/ ProvisioningFails(t)
  \/ MakeCloneElsewhere(t) \/ SaveCloneFails(t)
  \/ MarkSecond(t) \/ ReleaseAfterError(t)

-----------------------------------------------------------------------------
(* Databases once they are there *)

(* container_action, for a row with a container_id whose container exists. *)
Act(d, s) ==
  /\ HasRow(d) /\ d \in known /\ d \in ctr
  /\ status[d] # s
  /\ status' = [status EXCEPT ![d] = s]
  /\ disturbed' = disturbed \cup {d}
  /\ UNCHANGED <<allocated, serverVars, user, host, port, known, clones, ctr, call, task,
                 removal, faults, crowd, leaked, failed>>

(* delete_database, and delete_user for each database of the user, with a  *)
(* copy of the row that may have no container yet.                         *)
MarkDeleting(d) ==
  /\ HasRow(d) /\ removal[d] = "none"
  /\ status' = [status EXCEPT ![d] = "deleting"]
  /\ removal' = [removal EXCEPT ![d] = IF d \in known THEN "known" ELSE "unknown"]
  /\ UNCHANGED <<allocated, serverVars, user, host, port, known, clones, ctr, call, task,
                 faults, history>>

(* The spawned task: a container that the copy knows of is removed, the    *)
(* row is deleted and the port handed back, whatever of that fails.        *)
CleanUp(d) ==
  /\ removal[d] \in {"known", "unknown"}
  /\ \/ status' = [status EXCEPT ![d] = "gone"] /\ UNCHANGED faults
     \/ Fault /\ UNCHANGED status
  /\ ctr' = IF removal[d] = "known" THEN ctr \ {d} ELSE ctr
  /\ ReleasePort(port[d])
  /\ removal' = [removal EXCEPT ![d] = "done"]
  /\ UNCHANGED <<serverVars, user, host, port, known, clones, call, task, history>>

Remove(d) ==
  MarkDeleting(d) \/ CleanUp(d)

-----------------------------------------------------------------------------
(* Servers: admins' requests *)

CreateServer(s) ==
  /\ listed[s] = "absent"
  /\ listed' = [listed EXCEPT ![s] = "listed"]
  /\ open' = open \cup {s}
  /\ UNCHANGED <<allocated, max, highest, rowVars, ctr, call, task, removal, faults, history>>

(* update: a row is read, then all of it is written.                       *)
ReadServer(c, s) ==
  /\ call[c] = Idle
  /\ s \in Listed
  /\ Step(c, [Idle EXCEPT !.at = "update", !.host = s, !.open = (s \in open), !.max = max[s]])
  /\ OnlyCalls

WriteServer(c) ==
  LET s == call[c].host
      Write(o, m) ==
        /\ open' = IF o THEN open \cup {s} ELSE open \ {s}
        /\ max' = [max EXCEPT ![s] = m]
        /\ highest' = [highest EXCEPT ![s] = IF m > @ THEN m ELSE @] IN
  /\ call[c].at = "update"
  /\ \/ s \in Listed /\ \E o \in BOOLEAN : Write(o, call[c].max)
     \/ s \in Listed /\ \E m \in Capacities : Write(call[c].open, m)
     \/ s \notin Listed /\ UNCHANGED <<open, max, highest>>
  /\ Step(c, Idle)
  /\ UNCHANGED <<allocated, listed, rowVars, ctr, task, removal, faults, history>>

CountServer(c, s) ==
  /\ call[c] = Idle
  /\ s \in Listed /\ RowsOn(s) = {}
  /\ Step(c, [Idle EXCEPT !.at = "counted", !.host = s])
  /\ OnlyCalls

(* Rows that refer to the server, of any status, keep it from going.       *)
DeleteServer(c) ==
  LET s == call[c].host IN
  /\ call[c].at = "counted"
  /\ listed' = IF \E d \in Dbs : HasRow(d) /\ host[d] = s THEN listed
               ELSE [listed EXCEPT ![s] = "gone"]
  /\ Step(c, Idle)
  /\ UNCHANGED <<allocated, open, max, highest, rowVars, ctr, task, removal, faults, history>>

-----------------------------------------------------------------------------
(* The process dies and is started again: requests, tasks and the pool are *)
(* lost, and the pool is filled from the rows.                             *)
Working(t) == task[t].at \in TaskSteps

Restart ==
  /\ Fault
  /\ LoadAllocated({port[d] : d \in {e \in Dbs : HasRow(e) /\ status[e] # "deleting"}})
  /\ call' = [c \in Calls |-> Idle]
  /\ task' = [t \in Dbs |-> IF Working(t) THEN [task[t] EXCEPT !.at = "lost"] ELSE task[t]]
  /\ removal' = [d \in Dbs |-> IF removal[d] \in Removing THEN "lost" ELSE removal[d]]
  /\ leaked' = {}
  /\ disturbed' = disturbed \cup (UNION {Members(call[c].dbs) : c \in Calls})
                  \cup (UNION {Members(task[t].dbs) : t \in {u \in Dbs : Working(u)}})
  /\ UNCHANGED <<serverVars, rowVars, ctr, crowd, failed>>

Next ==
  \/ \E c \in Calls : \/ \E u \in Users, dbs \in DbLists : CountRows(c, u, dbs)
                      \/ \E src, d \in Dbs : CountClone(c, src, d)
                      \/ \E s \in Servers : ReadServer(c, s) \/ CountServer(c, s)
                      \/ Create(c) \/ WriteServer(c) \/ DeleteServer(c)
  \/ \E d \in Dbs : Provision(d)
  \/ \E d \in Handled : \/ Remove(d)
                        \/ \E s \in {"running", "stopped"} : Act(d, s)
  \/ \E s \in Servers : CreateServer(s)
  \/ Restart

Spec == Init /\ [][Next]_vars

-----------------------------------------------------------------------------
Kept(d) == HasRow(d) /\ removal[d] = "none"

(* max_databases_per_user is counted before rows are inserted, so requests *)
(* that overlap can exceed it: by what they create, and by nothing else.   *)
QuotaHoldsButForOverlaps ==
  \A u \in Users : Cardinality({d \in Dbs : Kept(d) /\ user[d] = u}) <= MaxDatabases + crowd[u]

(* So is max_containers, and select_best_client_server counts a bundle as  *)
(* one.  Databases with an error are not counted as long as they have it;  *)
(* clones are counted, and made on a server that is full all the same.     *)
CapacityHoldsButForOverlaps ==
  \A s \in Servers : Cardinality({d \in Dbs \ (failed \cup clones) : Kept(d) /\ host[d] = s})
                      <= highest[s] + crowd[s]

(* A port that is taken is some row's or request's, but for those of rows  *)
(* that could not be inserted.                                             *)
PortsHaveHolders ==
  allocated \subseteq
    {port[d] : d \in {e \in Dbs : HasRow(e)}}
    \cup (UNION {{port[call[c].dbs[i]] : i \in 1..call[c].got} : c \in Calls})
    \cup leaked

(* When the task of a bundle is over its databases have the same status,   *)
(* whichever step of it failed.                                            *)
BundleHalvesAgree ==
  \A t \in Dbs : task[t].at \in {"ready", "release", "failed"} =>
    \A d \in Members(task[t].dbs) :
      Kept(d) /\ d \notin disturbed =>
        status[d] = IF task[t].at = "ready" THEN "running" ELSE "error"

(* A database is only shown as provisioning while a task or a request is   *)
(* going to change that, unless one was cut short.                         *)
ProvisioningIsWorkedOn ==
  \A d \in Dbs : status[d] = "provisioning" /\ d \notin disturbed =>
    \/ \E t \in Dbs : Working(t) /\ d \in Members(task[t].dbs)
    \/ \E c \in Calls : d \in Members(call[c].dbs)

-----------------------------------------------------------------------------
(* The invariant behind the last three: which ids requests and tasks work  *)
(* on, no id being used twice, and which status their rows have to have.   *)

CallShape(k) ==
  /\ IF k.at \in {"idle", "counted", "update"}
     THEN k.dbs = <<>> /\ k.got = 0
     ELSE k.dbs \in DbLists
  /\ k.at # "insert" => k.made = 0
  /\ k.at = "admitted" => k.got = 0
  /\ k.at = "allocate" => k.got < Len(k.dbs)
  /\ k.at = "giveback" => k.got = 1 /\ Len(k.dbs) = 2
  /\ k.at = "insert" => k.got = Len(k.dbs) /\ k.made < Len(k.dbs)
  /\ k.at = "update" => k.host \in Servers /\ k.max \in Capacities

TaskShape(t, x) ==
  /\ IF x.at = "none" THEN x.dbs = <<>> ELSE x.dbs \in DbLists /\ x.dbs[1] = t
  /\ x.at \in {"make", "save"} => x.done < Len(x.dbs)
  /\ x.at = "mark" => Len(x.dbs) = 2

IdsApart ==
  /\ \A c, e \in Calls : c # e => Members(call[c].dbs) \cap Members(call[e].dbs) = {}
  /\ \A t, u \in Dbs : t # u => Members(task[t].dbs) \cap Members(task[u].dbs) = {}
  /\ \A c \in Calls, t \in Dbs : Members(call[c].dbs) \cap Members(task[t].dbs) = {}

(* Rows that a request has inserted, and those it has still to insert.     *)
RowsOfCalls ==
  \A c \in Calls : \A i \in 1..Len(call[c].dbs) :
    LET d == call[c].dbs[i] IN
    /\ status[d] = "absent" <=> i > call[c].made
    /\ Kept(d) /\ d \notin disturbed => status[d] = "provisioning"
    /\ Len(call[c].dbs) = 2 => d \notin clones

(* What the i-th row of a task may be, as far as the task has come.        *)
Reached(x, i) ==
  CASE x.at = "make"  -> {"provisioning"}
    [] x.at = "save"  -> IF i <= x.done THEN {"running"} ELSE {"provisioning"}
    [] x.at = "ready" -> {"running"}
    [] x.at = "mark"  -> IF i = 1 THEN {"error"} ELSE {"provisioning", "running"}
    [] x.at \in {"release", "failed"} -> {"error"}
    [] OTHER -> {}

RowsOfTasks ==
  \A t \in Dbs : \A i \in 1..Len(task[t].dbs) :
    LET d == task[t].dbs[i] IN
    /\ status[d] # "absent"
    /\ Kept(d) /\ d \notin disturbed => status[d] \in Reached(task[t], i)
    /\ Len(task[t].dbs) = 2 => d \notin clones

RemovedRows ==
  \A d \in Dbs : removal[d] # "none" => status[d] \notin {"absent", "provisioning"}

PortsOfRows ==
  /\ \A d \in Dbs : status[d] # "absent" => port[d] \in Ports
  /\ \A c \in Calls : \A i \in 1..call[c].got : port[call[c].dbs[i]] \in Ports

(* A request holds the ports it took for rows it has not inserted yet.     *)
PortsHeld ==
  \A p \in allocated :
    \/ \E d \in Dbs : HasRow(d) /\ port[d] = p
    \/ \E c \in Calls : \E i \in 1..call[c].got :
         i > call[c].made /\ port[call[c].dbs[i]] = p
    \/ p \in leaked

AdmissionInv ==
  /\ TypeOK
  /\ \A c \in Calls : CallShape(call[c])
  /\ \A t \in Dbs : TaskShape(t, task[t])
  /\ IdsApart
  /\ RowsOfCalls /\ RowsOfTasks /\ RemovedRows
  /\ PortsOfRows /\ PortsHeld
  /\ ProvisioningIsWorkedOn
=============================================================================
