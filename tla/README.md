# DBSaaS: a TLA+ verification project

This directory models the core of DBSaaS, a self-hosted database-as-a-service
platform (`src/`): its Rust API (`src/api`) creates, starts, stops and deletes
PostgreSQL, Redis and MariaDB containers on one or several Docker servers,
publishes them through Traefik, meters their running hours and bills them.

## 1. Inventory

The API is an axum program on a multi-threaded tokio runtime. Handlers run
concurrently and hold no lock across an `.await`; the long parts of their work
run in spawned tasks that nobody joins. The platform's PostgreSQL database is
written with single statements and never with a transaction. So every two
statements of two handlers or tasks can interleave, and a crash between two
statements leaves what was done so far.

| Component | State it keeps | Operations | Talks to |
|---|---|---|---|
| Port pool (`utils/port_pool.rs`) | a set of ports behind an `RwLock` | allocate the lowest free port, release, load at start | handlers and tasks |
| Database lifecycle (`handlers/databases.rs`, `handlers/admin.rs`, `repository/database_repo.rs`) | rows of `database_instances`; tasks in flight | create, bundle, start/stop/restart, delete, force delete, scale, clone, migrate to SNI | all the others |
| Provisioner (`services/provisioner.rs`) | networks and containers of Docker daemons | create, start, stop, restart, remove, wait for health | Docker over HTTP with timeouts |
| Traefik (`services/traefik.rs`) | one route file and a certificate per database | write, remove | the file system |
| Docker servers (`handlers/docker_servers.rs`, `repository/docker_server_repo.rs`) | rows of `docker_servers` | select the least used one, check capacity, delete | create, clone |
| Metering and billing (`services/billing.rs`, `handlers/billing.rs`, `repository/billing_repo.rs`) | usage events, billing periods, line items | running hours of a month, amount, invoices, Stripe webhooks, monthly loop | lifecycle, Stripe |
| Accounts (`handlers/auth.rs`, `handlers/admin.rs`) | users, invitations, settings | register, invite, change role, delete | lifecycle |
| Private networks (`handlers/private_networks.rs`) | networks, members, peerings, firewall rules | create, attach, detach, peer, apply rules | Docker, nftables helper |
| Backups (`services/backup.rs`, `handlers/databases.rs`) | schedules, backup rows, files, dumps inside containers | run what is due, back up, export, delete, keep the last N | Docker exec and copy |
| Credentials (`handlers/databases.rs`) | database users and passwords | create, rotate, delete | the database itself, then the row |
| Alerts (`services/alert.rs`) | rules, history | poll, fire | Docker, webhooks, SMTP |
| Event stream | a broadcast channel of 256 events | send, subscribe | browsers |

What is hard about this system is listed, line by line, under `hazards` in
`PROJECT.json`: checks on values that are stale when they are used (the quota,
the copy of the row a handler works on), steps of a task and of a handler on
the same row in an order nobody tests, failures half way that leave Docker, the
pool and the row in disagreement, restarts that lose tasks, events recorded out
of order, and money computed from those events.

What makes each component correct:

* port pool: a port belongs to one database at a time, as long as callers keep
  the discipline the pool cannot check; the published port of a container is an
  allocated one;
* lifecycle: what a client is shown exists; a removed row stays removed; a
  failed database is never started; provisioning and deletion end;
* metering: the events of a database say when it ran, and only then;
* billing: hours equal the time between starts and stops inside the period, an
  amount never exceeds the monthly price, a month is invoiced once;
* placement: a server never gets more databases than its capacity;
* accounts: an invitation is used at most as often as it allows;
* private networks, backups, credentials: rows and Docker agree after partial
  failures; retention keeps the newest files; the stored password opens the
  database.

## 2. Modules

| Module | Models |
|---|---|
| `PortPool` | the pool, one action per method |
| `DatabaseLifecycle` | one database's life across handlers, tasks, Docker, Traefik, events and restarts; extends `PortPool` |
| `DatabaseStatus` | the abstract promise about the status a client sees |
| `Admission` | limits, choice of servers, ports and rows for single databases, bundles and clones, against removals, actions, restarts and administrators who change servers; extends `PortPool` |
| `PrivateNetworks` | networks, members, peerings with their tasks, bridges and firewall tables |
| `Credentials` | passwords in rows and inside the three engines |
| `Backups` | the scheduler, requests, dumps, files and retention |
| `UsageMetering` | the usage events of one database and what `billing.rs` computes from them |
| `MonthlyBilling` | the monthly runs, Stripe and its webhooks |
| `MC...` | TLC instances of the module of that name |
| `DatabaseLifecycleProofs`, `AdmissionProofs`, `AdmissionLimitsProofs`, `MonthlyBillingProofs`, `CredentialsProofs`, `PrivateNetworksProofs`, `BackupsProofs`, `UsageMeteringProofs` | the theorems |

The modules share what the components share. `Admission` is the coarse view of
a database, with many of them; `DatabaseLifecycle` the fine one, with few:
what it does in five steps (network, container, start, route, row) is one step
in `Admission`, which in turn has the second half of a bundle, clones, server
capacity and the ports that are lost on the way. `PrivateNetworks`,
`Credentials` and `Backups` know of a database only whether it runs and how far
its removal is, as their handlers do.

### PortPool and DatabaseLifecycle

Each variable is one of the five places the code writes to without a
transaction, or a program counter:

* the row: `status` ("absent" when there is none), `known` (the columns
  `container_id` and `network_id` are set), `owner`, `port`, `server`. The last
  three never change after the INSERT, so the same variable serves for the
  column and for the copies handlers and tasks captured;
* `allocated`, the port pool;
* `ctr`, `net`: the container `sb-{id}` and the network `sb-net-{id}`;
* `route`: the file `{id}.toml`;
* `meter`: the latest usage event. Usage events have no foreign key
  (migration 014), so they can be written for a row that is gone;
* `pc`: how far `create_database` and the task it spawns are;
  `op`, `at`, `target`, `snap`: what a call on an existing database does, how
  far it is, on which row, and whether its copy of the row had a container.

A step is the code between two awaits. One action stands for each:

| Code | Actions |
|---|---|
| `create_database` | `CountRows`, `TakePort`, `InsertRow` |
| its task | `CreateNetwork`, `CreateContainer`, `StartContainer`, `PublishRoute`, `SaveProvisioned`, `RecordStart`; on an error `ProvisioningFails`, `MarkError`, `ReleaseAfterError` |
| `container_action` | `Find`, `ActInDocker` or `ActionFails`, `UpdateStatus`, `RecordAction` |
| `delete_database` and its task | `Find`, `MeterStop`, `MarkDeleting`, `SpawnCleanup`, `RemoveContainer`, `RemoveRoute`, `DeleteRow`, `ReleaseAfterDelete` |
| `force_delete_database` | `Find`, `RemoveContainer`, `MeterForcedStop`, `RemoveRoute`, `DeleteRow`, `ReleaseAfterDelete` |
| a crash and `main` | `Restart` |

Abstractions: names, passwords, certificates and plans are left out; a UNIQUE
violation of the INSERT is possible whenever the owner has another row; a row's
server is chosen at the start of the behaviour, an arbitrary one; Docker and
platform-database errors are nondeterministic outcomes of each call, the
latter counted (`MaxDbFaults`). Containers do not exit on their own and nobody
removes them behind the platform's back: `ShownDatabaseExists` is about what
the platform's own steps do to each other. `released` and `overdrawn` are
history variables: no action reads them in a guard.

### UsageMetering

One database, from the INSERT of its row to its removal and beyond. `now` is the
clock; `container`, `name` and `plan` are what the handlers read and write;
`log` is the part of `usage_events` about this database. `ran` (when it really
ran) and `odd` (calls accepted on a container that was not in the state their
event says) are history variables; no action reads them.

| Code | Definitions |
|---|---|
| the handlers that record events | `Provisioned`, `Start`, `Stop`, `Restart`, `Rename`, `Scale`, `Delete` |
| `record_usage_event`, whose errors are dropped | `Record`: any subset of the events is stored, the rest counted in `lost` |
| `calculate_usage_hours` | `UsageSeconds`, with `UsageEvents`, `Meter` and the two branches for months with and without events |
| `calculate_amount` | `CalculateAmount`, with exact integers: the rounding of the f64 arithmetic is left out |
| `generate_monthly_invoice` | `UsageEntries`, `LineItems`, `InvoiceTotal` |
| `get_current_usage` | `CurrentUsage` |

The arithmetic keeps what decides about results: both ends of a period count,
every interval is truncated to whole seconds on its own, amounts are rounded up
and capped per line item. A handler's Docker call and its event are one step
here; `DatabaseLifecycle` has their interleavings. `Exact` is the reference
definition: the seconds counted are the ticks the container ran, less what
truncation may take.

### MonthlyBilling

`periods` and `lines` are the tables `billing_periods` and
`billing_line_items`; `upcoming`, `invoices`, `paidOff` and `declined` are
Stripe's. A run is either the background task of `main.rs` or the request of an
administrator; `at`, `of`, `todo`, `user`, `pid`, `k`, `inv` are its program
counter and local variables.

| Code | Actions |
|---|---|
| the hourly loop of `main.rs` | `LoopBegins`, `LoopFailsToBegin`, `Finish` |
| `admin_generate_billing` | `AdminBegins` |
| `generate_monthly_invoice` | `Check`, `InsertPeriod`, `AddLineItem`, and `InsertPeriodFails`, `AddLineItemFails` |
| `create_stripe_invoice` | `OpenStripe`, `PostItem`, `AllItemsPosted`, `PostInvoice`, `StripeFails` (carried out by Stripe or not), `SaveInvoice`, `SaveInvoiceFails` |
| `stripe_webhook`, `handle_stripe_webhook` | `Webhook`, for any outcome Stripe ever had, any number of times, in any order |
| the process | `Crash`, `Boot` |
| time | `NextMonth`, `FirstDayEnds` |

The line items of a month are a constant: a month is over when it is billed.
Time is abstract. The loop looks once an hour on the first of a month, so
`FirstDayEnds` is only possible when it has finished a run for the month, or
when the process was down or was started on that day; runs take minutes, so a
month does not end during one. `overlapped`, `failed` and `missed` are history
variables: they name the three things the properties exempt.

### Admission

A creation of a single database is a bundle of one: `create_bundle` does twice
what `create_database` does once, in the same order. `call` holds the requests
(the ids a request will use, how many ports and rows it has), `task` the spawned
tasks, kept under the first database of each.

| Code | Actions |
|---|---|
| the limit in `create_database`, `create_bundle`, `clone_database` | `CountRows`, `CountClone` |
| the server of the request, or `select_best_client_server` | `ChooseServer`, `Reject` |
| `PortPool::allocate`, once per database | `AllocateNext`, `GiveBackFirst` |
| the INSERTs, and what follows from a refused one | `InsertNext`, `InsertFails` |
| the task | `MakeContainer`, `SaveProvisioned`, `ProvisioningFails`, `MarkSecond`, `ReleaseAfterError`; for clones also `MakeCloneElsewhere`, `SaveCloneFails` |
| `container_action`, `delete_database`, `delete_user` | `Act`, `MarkDeleting`, `CleanUp` |
| `docker_servers.rs` | `CreateServer`, `ReadServer` and `WriteServer` (update), `CountServer` and `DeleteServer` |
| a crash and `main` | `Restart` |

`crowd`, `highest`, `leaked`, `failed` and `disturbed` are history: by how much
overlapping requests may exceed a limit, the largest capacity a server ever
had, ports of rows that were never inserted, databases a task gave up, and those
a fault, a crash or an action interfered with. No guard reads them.

### PrivateNetworks

Rows: `net`, `server`, `dock`, `subnet`, `members`; `peer`, `pserver`, `bridge`,
`rules`; and `db`, how far the removal of a database is. Docker: `docks` (a
network `sb-pn-{id}` may be made more than once, by two requests, so it is a pair
of a private network and a number), `joined`, `bridges`, `bridged`, and the
nftables table of a peering: `table`, the rules it was made from, and `scope`,
the subnets of both networks that it was made with. `call` is a request with its
copies of rows, `task` and `todo` the task of a peering.

| Code | Actions |
|---|---|
| `create_network` | `CountNetworks`, `InsertNetwork` |
| `attach_database` | `FindNetwork`, `CheckDatabase`, `SetServer`, `MakeDock`, `SaveDock`, `SaveSubnet`, `Join`, `AddMember`, `SyncBridges` |
| `detach_database` | `FindNetwork`, `Leave`, `Unbridge`, `RemoveMember` |
| `delete_network`, `delete_peering` | `FindNetwork` or `FindPeering`, `ListPeerings`, `TakeDownBridge`, `DeletePeering`, `PeeringsDeleted`, `TakeDownNetwork`, `DeleteNetwork` |
| `create_peering` and its task | `FindPair`, `InsertPeering`; `MakeBridge`, `SaveBridge`, `ReadMembers`, `ConnectMember`, `Activate` |
| `create_firewall_rule`, `delete_firewall_rule` | `FindPeering`, `InsertRule`, `DeleteRule`, `ReadRules`, `ApplyRules` |
| `delete_database`, as far as it concerns networks | `MarkDeleting`, `LeaveNetworks`, `RemoveContainer`, `DeleteDatabaseRow` |
| an error that `?` returns; a crash | `CallFails`; `Crash` |

What a rule matches is data; a subnet is known by the Docker network it is that
of, `NoDock` being the missing one, which a table has as 0.0.0.0/0. Errors of
Docker that the code ignores (`let _ =`) are outcomes of the step. `disturbed`
names the networks and peerings on which calls overlapped or failed, or whose
rows were moved. A removal of a database that fails half way disturbs nothing:
`LeaveNetworks` may leave the container on any of its networks
(`databases.rs:1298`), `RemoveContainer` may leave it altogether (`:1325`), which
is logged, and the row goes. Such a container ("orphan" in `db`) keeps its
Docker networks and bridges from being removed, and the properties say so. The
script of nft commands may be refused in part or as a whole (`ApplyRules`), which
`exec_on_host` does not notice. `outdated` names peerings a network of which got
its subnet after their rules were last read.

### Credentials

One database of any engine. `exec_in_container` does not look at exit codes, so
a command that is refused changes nothing and the handler goes on: what each
engine does with each command (`Created`, `Granted`, `Dropped`, `Altered`,
`Accepts`) is modelled from the commands the code sends and marked external.

| Code | Actions |
|---|---|
| `create_database_user`, `delete_database_user`, `rotate_user_password`, `rotate_password` | `BeginCreate`, `BeginDelete`, `BeginRotate`, `BeginRotateOwner` |
| the functions of `provisioner.rs` that run the statements | `RunCommand`, `CommandFails` |
| the row | `InsertUser`, `DeleteUser`, `StorePassword`, `StoreOwnerPassword`, `RowFails` |
| `container_action` | `Stop`, `Start` |

`Quiet(n)` is the condition under which a name's row and account must agree:
nothing is under way for it and no two of its calls overlapped or were cut short
(`disturbed`). What happens to other names does not matter: that is what makes
the properties worth having. A removal that leaves the account does not make its
name a disturbed one: it is in `undropped`, and in PostgreSQL, which refuses to
drop a role that has default privileges, every removed user is.
`RemovedUsersAreOut` therefore says of Redis and MariaDB that whoever was removed
is out, and of PostgreSQL that nobody has permissions without a row but those
who were removed.

### Backups

Time is a clock of ticks that file names can tell apart. `inside` are the dumps
inside containers, `files` the backup directory, `backups` and `schedule` the
tables; `due` is the list that one round of the task fetched, `work` what the
task and the requests are doing. A dump that is refused or dies leaves no output
or an incomplete one (`Partial`): `pg_dump -f` and `mariadb-dump --result-file`
write to the file themselves, and `exec_in_container` sees neither the exit code
nor a broken stream. It is copied and listed like any other. `broken` are the
dumps that this happened to.

| Code | Actions |
|---|---|
| `backup.rs` | `FindDue`, `TakeNext`, `UpdateLastRun`, `ListOld` |
| `create_backup`, `export_database`, and the task for each schedule | `Begin`; `Dump`, `DumpRefused`, `Copy`, `WriteFails`, `GiveUp`, `RemoveDump`, `InsertRow` |
| `delete_backup`, `cleanup_old_backups` | `BeginDelete`; `Unlink`, `DropRow` |
| the BGSAVE of a Redis server | `SaveDone` |
| schedules, removal, stop and start | `CreateSchedule`, `UpdateSchedule`, `DeleteSchedule`, `RemoveDatabase`, `Stop`, `Start` |
| time, a crash | `Tick`, `Crash` |

### Properties and runs

| Run | Instance | Question |
|---|---|---|
| `lifecycle_races` | 1 database, 2 calls, 1 restart, 1 database fault | do handlers, the task, a restart and a failed write on one row keep `TaskOwnsItsRow`, `ShownDatabaseExists`, `FailedIsNeverStarted` and the promise `KeepsStatusPromise`; does provisioning settle and a spawned deletion remove the row (`ProvisioningSettles`, `DeletionCompletes`)? |
| `lifecycle_ports` | 2 databases, 2 ports, 1 call, 1 restart | does the pool protect each holder until a port is handed back twice (`PortExclusion`)? |
| `admission_overlap` | 3 ids, 2 requests, 1 server of 1 or 2 places, 3 ports, a limit of 2 | do only overlapping requests exceed the user's limit and the server's capacity (`QuotaHoldsButForOverlaps`, `CapacityHoldsButForOverlaps`)? |
| `admission_faults` | 3 ids, 2 requests, 3 ports, 1 database removed or acted on, 1 fault or restart | is each port somebody's (`PortsHaveHolders`), do the halves of a bundle end alike (`BundleHalvesAgree`), is what is provisioning worked on (`ProvisioningIsWorkedOn`)? |
| `networks_peering` | 2 networks of one user, their peering, 1 rule, a database of this user and of another, 1 request, 1 fault or crash | are owners isolated (`OwnersAreIsolated`), do Docker, bridges and the firewall follow rows and subnets, also when a database is removed and its container stays (`NoOrphanInDocker`, `PeeringReachesMembers`, `FirewallIsOfRules`), does a peering settle (`PeeringSettles`)? |
| `networks_overlap` | 1 network with room for 1, 4 databases (one local, one of another user), 2 requests, 1 fault or crash | are members connected where requests did not overlap (`MembersAreConnected`), and limits exceeded by overlaps only (`LimitsHoldButForOverlaps`)? |
| `credentials` | 3 engines, 2 names, 2 permissions, 2 calls, 4 passwords, 1 fault | does what is stored work (`StoredUsersWork`), and are users removed from Redis and MariaDB out (`RemovedUsersAreOut`)? |
| `owner_password` | 1 name, 2 calls, no fault | the finding below |
| `backups` | 2 databases of one name, one of them Redis, 2 ticks, 2 events: requests, faults or crashes | is a listed backup a dump of its database, or else what its own dump left when it failed (`ListedBackupsRestore`), are the newest kept (`NewestAreKept`), is what is due run (`DueIsRun`)? |
| `metering` | 2 months of 4 ticks, 2 ticks a second, 3 events of which 1 may be lost, 2 interchangeable names, 1 plan whose monthly price half a month reaches | do the hours fit into the month (`UsageWithinPeriod`), equal what ran while calls are regular (`ExactWhenRegular`), leave idle months free (`IdleMonthIsFree`), and does the usage page never go back (`EstimateNeverDrops`)? |
| `billing_months` | 2 customers, 2 months, the background task, 1 fault, 1 crash | is no line item charged twice (`LinesChargedOnce`), is a saved invoice complete (`InvoicedIsComplete`), do statuses follow Stripe (`StatusFollowsStripe`), and does no failure cost another user's bill (`FirstDayCovers`)? |
| `billing_overlap` | 1 customer, 1 month, the task and an administrator, 1 fault | one period per user when runs do not overlap (`SoloRunsAreUnique`); does every run end (`RunsEnd`)? |

Bounds. Databases interact through the pool, a server's places, the user's limit
and networks only, so one database shows the races on a row, and two or three
those between rows: three are a bundle and one more, which with a limit of two
and a server of one or two places meets every boundary. Two concurrent requests
suffice for every pair of handlers, a spawned task being a third party; where a
task and one request show the races (`networks_peering`, `backups`) there is one
request. One fault or restart reaches every step it can interrupt. The two
admission runs split one model because together their states are too many: the
server is only needed for capacities, the faults only for what they leave
behind. In `networks_overlap` two Docker networks for one private network is
what two requests can make. In both only the databases and networks in `Doomed`
are removed: one of each, since what a peering loses does not depend on which of
its two networks goes. In `backups` an interval of 0 ticks means that a
tick is longer than an interval, so each tick makes every schedule due again;
two databases of one name, of two users, are what file names confuse. A month of
four ticks holds two whole seconds and events on and between them; two months
have a month end that is inside the observed time, an idle month and a month
without events; three events give an interval inside a month, one across its end
and a scaling after a start. Two customers show what one customer's failure does
to another, two months what a failure leaves for the next. All runs set
`CHECK_DEADLOCK FALSE`: the system may stop when nobody calls it and the bounded
supply of ids, passwords, calls or months is used up.

Fairness. `LiveSpec` of `DatabaseLifecycle` assumes that a handler past its
first check and every spawned task take their next step: tokio polls them to
their end, each Docker call has a client timeout and `wait_for_healthy` has a
deadline. `LiveSpec` of `PrivateNetworks` assumes the same of the task of a
peering and of nobody else. `FairSpec` of `MonthlyBilling` assumes it of each
billing run, and `FairSpec` of `Backups` of the scheduler's loop, which sleeps
five minutes and goes on for ever, and of a BGSAVE that Redis has begun.
Nothing is assumed about users, administrators, webhooks, crashes or the
calendar, and Docker, the platform's database and Stripe may fail at each step.

### The finding

`owner_password`: rotating the owner's password of a Redis database gives
`redis-cli` the words `CONFIG SET requirepass <password>` as one argument
(`databases.rs:1113`), under the comment "For Redis owner (default user), update
requirepass". The server refuses it, nobody looks at the exit code, and the row
gets a password that never worked. For MariaDB the first rotation makes the
second one fail.

### Seen while modelling

The properties are stated around the following, which the models show. No run is
spent on them, so that each run asks a question about what has to hold.

Lifecycle and admission. A provisioning that fails after the container started
hands the port back (`databases.rs:336`) while the container of a remote server
keeps publishing it. The start event of a task or an action may be recorded
after the stop event of a deletion (`databases.rs:313`). A name that is taken
makes a creation lose its port until the next restart (`databases.rs:212`); the
second INSERT of a bundle failing also leaves the first row in provisioning
for ever. The automatic choice of a server asks for room for one, even for a
bundle. Updating a server reads a row and writes all of it, so of two updates
one may undo the other's. A half of a failed bundle whose container exists can
be started again although its port was handed back. A container that is made
for a database removed before it had a `container_id` stays. `clone_database`
ignores capacity, goes on locally when the server is not reached, ignores the
errors of the row and of the restore, keeps the port when its task fails, and
loses it when its INSERT is refused.

Networks. Detaching takes a database off a peering's bridge even when it is a
member of the other network too. A peering deleted while its task is pending
leaves its bridge behind. Members attached and rules created while a peering is
pending are missed until something else touches them. A network with a local
Docker network is moved to a remote server by a later attachment
(`private_networks.rs:266`), and two peered networks that had no server may
then get different ones. When one of two peered networks has no server, the
bridge is on the server of the other (`private_networks.rs:442`, `:460`), and a
member of the first that runs on the local daemon is never on it, though the
comments at `:441` ("Same Docker server") and `:486` ("Attach all containers from
both networks") say otherwise; `PeeringReachesMembers` is about the members on
the peering's server. Two attachments at once may make two Docker networks.
`delete_user` removes the user's Docker networks from the local daemon only.
`delete_database` only logs that Docker did not remove the container
(`databases.rs:1325`) and deletes the row: the container stays on its private
networks and bridges, nothing that is left names it, and when they are taken
down later Docker refuses to remove them, which is ignored as well. The firewall
of a peering is made of the subnets its networks have when a rule changes
(`private_networks.rs:691`), 0.0.0.0/0 for one that has no Docker network yet; the
attachment that creates this network (`:278`) does not make the table anew, so
the rules keep matching any address until the next change of a rule. A script of
nft commands that is refused in part leaves a table with part of the rules, and
the request succeeds (`provisioner.rs:1033`).

Credentials. The role of a PostgreSQL user is never dropped, because its default
privileges depend on it: DROP ROLE is refused, the revocations of the same
`psql -c` are undone with it (`provisioner.rs:776`), and the removed user keeps
the login and all permissions, although the request says "deleted" and the row
is gone. Creating that name again stores a password that does not work. Creating a name that exists changes that account's permission (and for
Redis adds a password) before the INSERT is refused. Redis users vanish when the
server restarts, while their rows stay. An account of a database that is stopped
stays when its row is deleted. After a rotation of the owner's password every
command for users of a Redis or MariaDB database presents the wrong one.

Backups. `retention_count` 0 is accepted, since the handlers do not call
`validate`. File names of two users' databases of one name collide within a
second. A BGSAVE that takes more than two seconds has the previous dump copied.
A dump that is refused or dies leaves an empty or incomplete output file, which
is copied and listed as a backup (`provisioner.rs:638`). Retention counts manual
backups too. Removing a database leaves its files, a refused INSERT a file
without a row; a last run that cannot be written makes the schedule due again.

Billing. A database that runs through a month without an event has no line item,
although `billing.rs:26` foresees the case. A database renamed, or moved to
another plan, is charged up to the monthly price once per name and plan. Hours
differ from what ran after a restart of a stopped database, a start of a running
one, a plan change or a removal of a stopped one. Two runs that both count
before either inserts create two periods for one user and month
(`billing.rs:89`). A late `payment_failed` event turns a paid period to failed;
items that a failed run left at Stripe join the customer's next invoice (hence
the second half of `InvoicedIsComplete`); a user whose generation failed is not
tried again; prices are those at the time of the invoice.

## 3. Proofs

### The lifecycle

`LifecycleInv` is the inductive invariant; TLC checked it on the instances of
`lifecycle_races` and `lifecycle_ports` before it was proved. The properties
alone are not inductive: that a handler never starts an unprovisioned database
depends on `RowInv` (which status and which `container_id` go with which
position of the task) and on `CallInv` (a copy of a row with a container was
taken after the task had saved it); `PortInv` needs to know which positions hold
a port; `ExistInv` what the task has made so far and that no removal has started
to take it away. Each conjunct has a lemma with one step per action.

| Theorem | States |
|---|---|
| `LifecycleTypes` | `Spec => []TypeOK` |
| `LifecycleInvariant` | `Spec => []LifecycleInv` |
| `TaskOwnership` | `Spec => []TaskOwnsItsRow` |
| `PortsAreExclusive` | `Spec => []PortExclusion` |
| `ShownExists` | `Spec => []ShownDatabaseExists` |
| `FailedNeverStarted` | `Spec => []FailedIsNeverStarted` |
| `StatusPromise` | `Spec => KeepsStatusPromise`, the refinement of `DatabaseStatus` |

They hold for any sets of databases, users, servers and calls and any bounds,
under `PortRangeAssumption` (the range is one of 16-bit ports; it may be empty)
and `LifecycleAssumption` (distinct names, natural bounds).

### Admission

`AdmissionInv` is inductive; TLC checked it on the instances of
`admission_overlap` and `admission_faults`. Its core is that no id is in the hands
of two requests or tasks (`IdsApart`), so that how far a request or task is says
what each of its rows has to be: absent or provisioning (`RowsOfCalls`), or one
of the statuses of `Reached` (`RowsOfTasks`), where a failed bundle passes
through a state in which only its first row shows the error. `PortsHeld` is
`PortsHaveHolders` with the ports a request took for rows it has not inserted.

The limits are counted in one step and used up in later ones. `LimitsInv`
therefore counts what a user or a server has together with what requests are
about to add (`Owned`, `Placed`). Only a count makes these sets grow, by ids that
are fresh, at a moment when the rows alone were below the limit; what the other
requests had ahead at that moment is what `crowd` is raised by. `Marks` says why
a row that no longer counts does not come back. Cardinalities are those of
subsets of `Dbs`, which `AdmissionAssumption` says is finite.

| Theorem | States |
|---|---|
| `TypeCorrect` | `Spec => []TypeOK` |
| `ProvisioningWorkedOn` | `Spec => []ProvisioningIsWorkedOn` |
| `PortsHoldersKnown` | `Spec => []PortsHaveHolders` |
| `BundleHalvesAlike` | `Spec => []BundleHalvesAgree` |
| `QuotaHolds` | `Spec => []QuotaHoldsButForOverlaps` |
| `CapacityHolds` | `Spec => []CapacityHoldsButForOverlaps` |

### Monthly billing

`Basic` (the types, by subject, with what a run at each position holds) is
inductive by itself. Each safety theorem adds what its property rests on:

| Theorem | States | Strengthened by |
|---|---|---|
| `BillingTypes` | `Spec => []TypeOK` | `RunInv`, `CalendarInv` |
| `NoDuplicatesWithoutOverlap` | `Spec => []SoloRunsAreUnique` | `Solo`: without overlap one run at most is under way, and between its check and its INSERT nobody else gives the user a period |
| `StatusIsOfTheInvoice` | `Spec => []StatusFollowsStripe` | `Fates`: runs hold distinct periods of their own users without an invoice, and distinct invoices no period has yet |
| `EveryUserIsBilled` | `Spec => []FirstDayCovers` | `Coverage`: who is off the task's list is billed, failed, free, or in its hands; the month noted last is covered altogether |
| `LinesSentOnce` | `Spec => []LinesChargedOnce` | `Charges`: a line item that waits or is on an invoice is there once, is one of its customer's period, and is not one that the run which fills that period has still to send |
| `SavedInvoicesComplete` | `Spec => []InvoicedIsComplete` | `Complete`: while runs do not overlap, which items of its period a run has waiting or on its invoice at each position, and what the saved invoices carry; while nothing failed, nothing else waits |

They hold for any users, administrators, line items, months, faults and crashes
under `BillingAssumption`. `OthersKept` (a run's variables are its own),
`OwnersKept` and `BilledStays` (periods keep their user and month) are the
lemmas they share.

### Credentials

`CredentialsInv` says, for each name that is neither `disturbed` nor `undropped`,
what its account has to be: when nothing is under way, exactly what the row says (`Fits`); between
the steps of a call, what the call has done so far (`Halfway`); and that at most
one call is about it. The properties alone are not inductive: that the row an
INSERT writes opens the account rests on what the two commands before it left.
While the stored owner's password is the one the engine asks for (`Manageable`)
every call under way presents a password that is accepted. Of the names in
`undropped` it says that the engine is PostgreSQL unless the name is disturbed:
Redis and MariaDB drop whom they are told to. The proof goes name
by name: a step of a call changes the account and row of its own name only.

| Theorem | States |
|---|---|
| `TypeCorrect` | `Spec => []TypeOK` |
| `StoredWork` | `Spec => []StoredUsersWork` |
| `RemovedOut` | `Spec => []RemovedUsersAreOut` |

### Private networks

`OwnersAreIsolated` relates two containers, and the code compares owners at
the beginning of a request only. `NetworksInv` carries the comparison to the
step that connects: a request past its check has a database and a network of one
owner and a Docker network of that very network (`CallOK`), memberships and
members still to be connected belong to the owner of their network, a peering
with a row or a task has two networks of one owner (`RowOwners`), and each
container on a network or bridge belongs to that owner (`DockerOwners`). It
holds because owners, databases' servers and the ends of a peering are never
updated, under `NetworksAssumption`.

`FirewallIsOfRules` is about a peering with no request under way, after rows
were changed, read and applied in separate steps. `FirewallInv` says of each
undisturbed peering what holds between those steps: a request about its rules is
the only one and its task has ended (`OneRuleCall`), the copy of the status is
right and the rules to be applied are those of the rows (`KnowsPeering`), no rule
or table exists before the task has ended (`NoRulesYet`), and a firewall that
differs from the rules is about to be applied, or the peering is about to go
(`EnforcedOrBusy`); a deletion that finds its list empty has deleted the row
(`PeerCallOK`). Steps on other peerings and networks keep all of it
(`PeeringKept`), and an overlap or failure makes the peering a disturbed one.
The subnets are the part that attachments change meanwhile, on networks that the
request about a rule does not use: `ScopeInv` says that an undisturbed network
gets its subnet once, from NULL (`SubnetIsFirst`), so that the subnets a request
has read, or a table has, are those of the rows or, where the peering is
`outdated`, NULL (`ScopeFits`).

`MembersAreConnected` and the part of `NoOrphanInDocker` about networks compare
rows and Docker where nothing is under way. `ConnectionsInv` says what holds of
an undisturbed network before that: it has one request at most, whose copies of
the network's row and of the members are right, and the position of that request
says how rows and Docker differ (an attachment may have created the Docker
network before the row names it, or connected a container before the INSERT; a
detachment or deletion has still to disconnect those it listed). Whoever else is
on one of its Docker networks is the container of a removed database, and an old
network exists exactly when it holds such a container: deletions take down the
others, and nobody can take down this one.

`BridgesInv` says the same of a peering and both its networks: its INSERT, its
task, its deletion and the attachments of either network exclude each other,
unless they mark the peering as disturbed; the bridge exists from the task's
step on until the deletion's, and connects the members the task or an attachment
has come to. A bridge that no row has holds nothing but containers of removed
databases (`Abandoned`). `NoOrphans` and `PeeringReaches` follow from it where nothing is
left to do.

`LimitsInv` counts rows together with the requests that have counted and not yet
inserted. Each of these passed its check when the rows were below the limit, so
rows and such requests stay below the limit plus the number of requests, less
one. That rows are finite sets, which cardinalities need, is part of the
invariant; of the constants it takes that `Calls` is finite and not empty.

| Theorem | States |
|---|---|
| `TypeCorrect` | `Spec => []TypeOK` |
| `OwnersIsolated` | `Spec => []OwnersAreIsolated` |
| `FirewallEnforced` | `Spec => []FirewallIsOfRules` |
| `MembersConnected` | `Spec => []MembersAreConnected` |
| `NoOrphans` | `Spec => []NoOrphanInDocker` |
| `PeeringReaches` | `Spec => []PeeringReachesMembers` |
| `LimitsButForOverlaps` | `Spec => []LimitsHoldButForOverlaps` |

### Backups

`Base` is inductive: the types, that a worker before its row has a file name not
later than now, and that ids are given once. On it rest two arguments.

`ListedBackupsRestore` relates a row to a file written long before it.
`FilesInv` adds the workers between copy and row, which hold a file without a
row, and says that a file which two of all of these refer to is spoiled: so
unlinking or overwriting the file of one does not touch another that the
property is about. That what is copied is not older than the name follows from
`DumpsInv`: for Redis, a worker that is to copy either waits for a BGSAVE begun
after it got its name or finds one finished since, unless the database is `late`;
for the others, that an output which is incomplete is in `broken`. A copy that
could not be written leaves a file no row refers to (`FilesWriteFails`).

`NewestAreKept` is about a list read once and worked off in many steps.
`KeptAlive` says of each row still to be removed that enough newer ones are left
besides the whole list. It holds when the list is read because the newest of
the list, which exists in a finite set (`NewestExists`), has that many newer
rows, none of them listed and all newer than the others; and it stays, since a
row only leaves the tables by being on the list, by its user's hand (`erased`),
or with its database.

| Theorem | States |
|---|---|
| `TypeCorrect` | `Spec => []TypeOK` |
| `ListedRestore` | `Spec => []ListedBackupsRestore` |
| `NewestKept` | `Spec => NewestAreKept` |

They hold for any databases, names, requests, retentions, faults and crashes
under `BackupsAssumption`. `TypeOK` is in no run: the theorem says more.

### Usage metering

The hours of a month are what a loop over the events makes of the log, and the
log is what handlers made of the calls. `MeteringInv` is about the second: the
events are in the order of time and not later than now, and as long as each call
found the container as its event says and each event was stored, the ticks at
which the container ran are those at which the log has it running.

What the loop computes is shown along the loop: the recursive function
`Metering` is shown to be well defined on the prefixes of the events, and a
statement about all of them is proved by the least prefix for which it fails,
since every nonempty set of naturals has a least element (`HandedOn`). For
`RegularIsExact` that statement is that what was counted so far is what ran up to
the event, but for the seconds each interval loses to `num_seconds`.

`EstimateGrows` compares two logs, before and after a step, by what each of them
shows of the database; a removal leaves the estimate with what the events say,
and the total over the line items is a sum over a finite set (`TotalCovers`, by
induction on its cardinality).

| Theorem | States |
|---|---|
| `TypeCorrect` | `Spec => []TypeOK` |
| `UsageFitsPeriod` | `Spec => []UsageWithinPeriod` |
| `RegularIsExact` | `Spec => []ExactWhenRegular` |
| `IdleIsFree` | `Spec => []IdleMonthIsFree` |
| `EstimateGrows` | `Spec => EstimateNeverDrops`, an action property |

They hold for any plans, prices, lengths of a month and numbers of calls under
`MeteringAssumption`.

### Only model-checked

The liveness properties (`ProvisioningSettles`, `DeletionCompletes`, `RunsEnd`,
`PeeringSettles`, `DueIsRun`) rest on fairness and on ENABLED, which are out of
the prover's reach. Every invariant and every other property of a passing run is
stated by a theorem. `OwnerPasswordWorks` is violated (the finding).

Where a proof needs induction (the loop over events, sums and cardinalities), it
goes by the least natural number for which the claim fails, and recursion is
written as recursive functions: the induction theorems of the library take an
operator as a parameter, which no prover here instantiates.

## 4. Plan

Done: the port pool, the lifecycle with its status promise, admission of
databases, bundles and clones, private networks, credentials, backups, metering
and billing, and a theorem for each of their safety properties. What is left is
to model registration against `max_uses` and expiry of an invitation.

The number of runs is kept to a dozen, each with a question of its own.

## 5. Not modelled

Registration, login and invitations (planned), migration to SNI routing (it is
refused for every row this code inserts: `routing_mode` is "sni" from the start,
and only rows of an earlier version have another), health checks and statistics of servers, the administration of plan templates (plain
row updates), the check of a webhook's signature (a library's HMAC), the restore
inside a new clone (its errors are only logged), the SQL migration runner (two
calls in sequence), alerts (a loop that reads statistics; nothing reads its
rows), the event stream (a broadcast channel whose readers fetch rows anew), TLS
certificates and encryption (library calls without state), request middleware
(checks of single requests), Prometheus metrics (reading only), the Next.js
frontends (no state beyond the API's), deployment files.
