------------------------------- MODULE Backups -------------------------------
(***************************************************************************)
(* Backups: the task that runs what is due (api/src/services/backup.rs),   *)
(* requests that make, export and delete backups                           *)
(* (handlers/databases.rs), and the dump inside the container and its copy *)
(* into the backup directory (services/provisioner.rs).                    *)
(*                                                                         *)
(* Time is counted in ticks that file names can tell apart: a file is      *)
(* named after its database and the tick, as "auto" by the task and by     *)
(* exports, as "manual" by create_backup.  What a dump contains is the     *)
(* database it is of and the tick at which it was taken; an output file    *)
(* that was opened and not completed is Partial, and does not restore.     *)
(***************************************************************************)
EXTENDS Integers, FiniteSets

CONSTANTS
  Dbs,
  Name,           \* name of a database: unique for a user only
  RedisDbs,       \* the others are dumped to a file of their own in /tmp
  Calls, Loop,    \* requests in progress, and the task of main
  NoDb,
  Interval,       \* interval_hours, in ticks
  Handled,        \* bound: databases that requests are made for
  Retentions,     \* bound: values of retention_count explored
  MaxTime,        \* bound: ticks
  MaxEvents       \* bound: requests made, commands and statements that fail, crashes

ASSUME BackupsAssumption ==
  /\ RedisDbs \subseteq Dbs /\ Handled \subseteq Dbs /\ NoDb \notin Dbs /\ Loop \notin Calls
  /\ Interval \in Nat /\ Retentions \subseteq Nat
  /\ MaxTime \in Nat /\ MaxEvents \in Nat

VARIABLES
  now, up,    \* the clock, and the databases whose container runs
  present,    \* database_instances
  schedule,   \* backup_schedules, by database
  backups,    \* database_backups
  files,      \* the backup directory
  inside,     \* dumps inside containers
  saving,     \* when the BGSAVE that a Redis server is at began
  work,       \* what the task and the requests do
  due,        \* schedules the task has still to run
  made, events,
  (* history *)
  spoiled,    \* files that were written twice, or lost half way
  late,       \* databases whose BGSAVE was refused, cut short or took too long
  broken,     \* dumps that were refused or died and left their output file
  erased      \* backups that users deleted

history == <<spoiled, late, broken, erased>>
vars == <<now, up, present, schedule, backups, files, inside, saving, work, due,
          made, events, spoiled, late, broken, erased>>

Workers == Calls \cup {Loop}
Never   == -1
Partial == -2
Times   == 0..MaxTime
Ids     == Nat \ {0}
Rdb     == [name |-> "dump", kind |-> "rdb", tick |-> 0]
FileNames == [name : {Name[d] : d \in Dbs}, kind : {"auto", "manual"}, tick : Times]
Dumps == (RedisDbs \X {Rdb}) \cup ((Dbs \ RedisDbs) \X FileNames)
NoSchedule == [id |-> 0, keep |-> 0, enabled |-> FALSE, last |-> Never]
NoFile == [db |-> NoDb, tick |-> Never]
Removed == [db |-> NoDb, tick |-> 0]

(* What a worker does, for which database, into which file; for the task   *)
(* also its copy of the schedule; and the rows that are to be removed.     *)
Idle == [op |-> "none", at |-> "idle", db |-> NoDb, file |-> Rdb, id |-> 0, keep |-> 0,
         todo |-> {}]
Steps == {"dump", "copy", "rm", "insert", "touch", "list", "unlink", "drop"}
Rows  == [id : Ids, db : Dbs, file : FileNames]
Work  == [op : {"backup", "export", "delete", "scheduled"}, at : Steps, db : Dbs,
          file : FileNames \cup {Rdb}, id : Ids \cup {0}, keep : Retentions \cup {0},
          todo : SUBSET Rows]

TypeOK ==
  /\ now \in Times /\ up \subseteq Dbs /\ present \subseteq Dbs
  /\ schedule \in [Dbs -> [id : Ids \cup {0}, keep : Retentions \cup {0}, enabled : BOOLEAN,
                           last : Times \cup {Never}]]
  /\ backups \subseteq Rows /\ erased \subseteq Rows
  /\ files \in [FileNames -> [db : Dbs \cup {NoDb}, tick : Times \cup {Never, Partial}]]
  /\ inside \in [Dumps -> Times \cup {Never, Partial}]
  /\ saving \in [RedisDbs -> Times \cup {Never}]
  /\ work \in [Workers -> Work \cup {Idle}]
  /\ due \in [Dbs -> [id : Ids \cup {0}, keep : Retentions \cup {0}]]
  /\ made \in Ids \cup {0} /\ events \in 0..MaxEvents
  /\ spoiled \subseteq FileNames /\ late \subseteq Dbs /\ broken \subseteq Dumps

NotDue == [id |-> 0, keep |-> 0]

Init ==
  /\ now = 0 /\ up = Dbs /\ present = Dbs
  /\ schedule \in [Dbs -> {[id |-> 1, keep |-> n, enabled |-> TRUE, last |-> Never] :
                           n \in Retentions}]
  /\ backups = {} /\ erased = {}
  /\ files = [f \in FileNames |-> NoFile]
  /\ inside = [x \in Dumps |-> Never]
  /\ saving = [d \in RedisDbs |-> Never]
  /\ work = [w \in Workers |-> Idle]
  /\ due = [d \in Dbs |-> NotDue]
  /\ made = 1 /\ events = 0
  /\ spoiled = {} /\ late = {} /\ broken = {}

-----------------------------------------------------------------------------
Event    == events < MaxEvents /\ events' = events + 1
Fault    == Event
Goto(w, s) == work' = [work EXCEPT ![w].at = s]
Over(w)    == work' = [work EXCEPT ![w] = Idle]

Platform  == <<present, schedule, backups>>
Outside   == <<files, inside, saving>>
Others    == <<now, up, made, due>>

Busy == {d \in RedisDbs : saving[d] # Never}

FileOf(d, kind) == [name |-> Name[d], kind |-> kind, tick |-> now]
PathOf(w) == IF work[w].db \in RedisDbs THEN Rdb ELSE work[w].file
InDump(w) == <<work[w].db, PathOf(w)>>

(* A request of the owner of the database.                                 *)
Ask(c) == work[c] = Idle /\ Event

-----------------------------------------------------------------------------
(* The task: every five minutes it fetches the schedules that are due, and *)
(* then works on one after the other, in the order of the query.           *)

IsDue(d) == /\ d \in present /\ schedule[d].enabled
            /\ schedule[d].last = Never \/ schedule[d].last + Interval < now

NothingDue == \A d \in Dbs : due[d] = NotDue

FindDue ==
  /\ work[Loop] = Idle /\ NothingDue
  /\ \E d \in Dbs : IsDue(d)
  /\ due' = [d \in Dbs |-> IF IsDue(d) THEN [id |-> schedule[d].id, keep |-> schedule[d].keep]
                           ELSE NotDue]
  /\ UNCHANGED <<now, up, made, work, Platform, Outside, events, history>>

(* A database that is gone, or cannot be read, is passed over.             *)
TakeNext(d) ==
  /\ work[Loop] = Idle /\ due[d] # NotDue
  /\ due' = [due EXCEPT ![d] = NotDue]
  /\ \/ /\ d \in present
        /\ work' = [work EXCEPT ![Loop] =
             [op |-> "scheduled", at |-> "dump", db |-> d, file |-> FileOf(d, "auto"),
              id |-> due[d].id, keep |-> due[d].keep, todo |-> {}]]
        /\ UNCHANGED events
     \/ d \notin present /\ UNCHANGED <<work, events>>
     \/ Fault /\ UNCHANGED work
  /\ UNCHANGED <<now, up, made, Platform, Outside, history>>

(* create_backup and export_database                                       *)
Begin(c, d, op) ==
  /\ Ask(c)
  /\ d \in present
  /\ op = "backup" => d \in up
  /\ work' = [work EXCEPT ![c] = [Idle EXCEPT
       !.op = op, !.at = "dump", !.db = d,
       !.file = FileOf(d, IF op = "backup" THEN "manual" ELSE "auto")]]
  /\ UNCHANGED <<now, up, made, due, Platform, Outside, history>>

-----------------------------------------------------------------------------
(* backup_postgres, backup_mariadb, backup_redis: a command inside the     *)
(* container, which for Redis returns before the dump is written.          *)

Dump(w) ==
  LET d == work[w].db IN
  /\ work[w].at = "dump" /\ d \in up
  /\ \/ d \notin RedisDbs /\ inside' = [inside EXCEPT ![InDump(w)] = now]
                          /\ UNCHANGED <<saving, late>>
     \/ d \in RedisDbs \ Busy /\ saving' = [saving EXCEPT ![d] = now]
                       /\ UNCHANGED <<inside, late>>
     \/ d \in Busy /\ late' = late \cup {d}
                       /\ UNCHANGED <<inside, saving>>
  /\ Goto(w, "copy")
  /\ UNCHANGED <<Others, Platform, files, events, spoiled, broken, erased>>

(* The command is refused, dies, or the stream of its output breaks, and   *)
(* exec_in_container notices none of it.  pg_dump -f and mariadb-dump      *)
(* --result-file open their output before they ask the server for          *)
(* anything: what is left of it is copied like a dump.                     *)
DumpRefused(w) ==
  /\ work[w].at = "dump" /\ work[w].db \in up
  /\ Fault
  /\ \/ UNCHANGED <<inside, broken>>
     \/ /\ work[w].db \notin RedisDbs
        /\ inside' = [inside EXCEPT ![InDump(w)] = Partial]
        /\ broken' = broken \cup {InDump(w)}
  /\ late' = late \cup ({work[w].db} \cap RedisDbs)
  /\ Goto(w, "copy")
  /\ UNCHANGED <<Others, Platform, files, saving, spoiled, erased>>

(* The server has written what BGSAVE began, to dump.rdb.                  *)
SaveDone(d) ==
  /\ d \in Busy
  /\ inside' = [inside EXCEPT ![<<d, Rdb>>] = saving[d]]
  /\ saving' = [saving EXCEPT ![d] = Never]
  /\ UNCHANGED <<Others, Platform, files, work, events, history>>

Write(w, tick) ==
  LET f == work[w].file IN
  /\ files' = [files EXCEPT ![f] = [db |-> work[w].db, tick |-> tick]]
  /\ spoiled' = IF files[f] = NoFile THEN spoiled ELSE spoiled \cup {f}

(* copy_from_container, for Redis two seconds later                        *)
Copy(w) ==
  LET d == work[w].db IN
  /\ work[w].at = "copy" /\ d \in up /\ inside[InDump(w)] # Never
  /\ Write(w, inside[InDump(w)])
  /\ late' = late \cup ({d} \cap Busy)
  /\ Goto(w, "rm")
  /\ UNCHANGED <<Others, Platform, inside, saving, events, broken, erased>>

(* The file was created, and not all of the dump could be written to it.   *)
WriteFails(w) ==
  /\ work[w].at = "copy" /\ work[w].db \in up /\ inside[InDump(w)] # Never
  /\ Fault
  /\ Write(w, Partial)
  /\ Over(w)
  /\ UNCHANGED <<Others, Platform, inside, saving, late, broken, erased>>

NoDumpToCopy(w) ==
  \/ work[w].db \notin up /\ UNCHANGED events
  \/ work[w].at = "copy" /\ inside[InDump(w)] = Never /\ UNCHANGED events
  \/ Fault

GiveUpAll(w) ==
  /\ work[w].at \in {"dump", "copy"}
  /\ NoDumpToCopy(w)
  /\ Over(w)
  /\ due' = IF w = Loop THEN [d \in Dbs |-> NotDue] ELSE due
  /\ UNCHANGED <<now, up, made, Platform, Outside, history>>

GiveUpSilently(w) ==
  /\ work[w].at \in {"dump", "copy"}
  /\ NoDumpToCopy(w)
  /\ Goto(w, "insert")
  /\ UNCHANGED <<Others, Platform, Outside, history>>

(* The container is stopped, there is no dump, or Docker fails: a schedule *)
(* stays due.                                                              *)
GiveUp(w) ==
  /\ work[w].at \in {"dump", "copy"}
  /\ NoDumpToCopy(w)
  /\ Over(w)
  /\ UNCHANGED <<Others, Platform, Outside, history>>

(* rm -f: its errors are ignored.                                          *)
RemoveDump(w) ==
  /\ work[w].at = "rm"
  /\ \/ work[w].db \in up /\ inside' = [inside EXCEPT ![InDump(w)] = Never] /\ UNCHANGED events
     \/ work[w].db \notin up /\ UNCHANGED <<inside, events>>
     \/ Fault /\ UNCHANGED inside
  /\ IF work[w].op = "export" THEN Over(w) ELSE Goto(w, "insert")
  /\ UNCHANGED <<Others, Platform, files, saving, history>>

(* The row refers to the database.  The task goes on without it.           *)
InsertRow(w) ==
  LET k == work[w] IN
  /\ k.at = "insert"
  /\ \/ /\ k.db \in present
        /\ made' = made + 1
        /\ backups' = backups \cup {[id |-> made + 1, db |-> k.db, file |-> k.file]}
        /\ UNCHANGED events
     \/ k.db \notin present /\ UNCHANGED <<made, backups, events>>
     \/ Fault /\ UNCHANGED <<made, backups>>
  /\ IF k.op = "backup" THEN Over(w) ELSE Goto(w, "touch")
  /\ UNCHANGED <<now, up, due, present, schedule, Outside, history>>

UpdateLastRun ==
  LET k == work[Loop] IN
  /\ k.at = "touch"
  /\ \/ /\ schedule' = [schedule EXCEPT ![k.db].last = IF schedule[k.db].id = k.id THEN now ELSE @]
        /\ UNCHANGED events
     \/ Fault /\ UNCHANGED schedule
  /\ Goto(Loop, "list")
  /\ UNCHANGED <<Others, present, backups, Outside, history>>

-----------------------------------------------------------------------------
(* Removal of backups *)

Of(d) == {b \in backups : b.db = d}
Newer(b, s) == {x \in s : x.db = b.db /\ x.id > b.id}

BeyondAscending(d, n) == {b \in Of(d) : Cardinality({x \in Of(d) : x.id < b.id}) >= n}

(* ORDER BY created_at DESC, without the first n                           *)
Beyond(d, n) == {b \in Of(d) : Cardinality(Newer(b, backups)) >= n}

(* cleanup_old_backups                                                     *)
ListOld ==
  LET k == work[Loop]
      old == Beyond(k.db, k.keep) IN
  /\ k.at = "list"
  /\ \/ old # {} /\ work' = [work EXCEPT ![Loop].at = "unlink", ![Loop].todo = old]
                 /\ UNCHANGED events
     \/ old = {} /\ Over(Loop) /\ UNCHANGED events
     \/ Fault /\ Over(Loop)
  /\ UNCHANGED <<Others, Platform, Outside, history>>

(* delete_backup                                                           *)
BeginDelete(c, b) ==
  /\ Ask(c)
  /\ work' = [work EXCEPT ![c] = [Idle EXCEPT !.op = "delete", !.at = "unlink", !.db = b.db,
                                             !.todo = {b}]]
  /\ UNCHANGED <<now, up, made, due, Platform, Outside, history>>

Current(w) == CHOOSE b \in work[w].todo : Newer(b, work[w].todo) = {}

(* The file of the newest of them, and then its row                        *)
Unlink(w) ==
  /\ work[w].at = "unlink"
  /\ files' = [files EXCEPT ![Current(w).file] = Removed]
  /\ Goto(w, "drop")
  /\ UNCHANGED <<Others, Platform, inside, saving, events, history>>

DropRow(w) ==
  LET b == Current(w) IN
  /\ work[w].at = "drop"
  /\ \/ /\ backups' = backups \ {b}
        /\ erased' = IF w = Loop THEN erased ELSE erased \cup {b}
        /\ UNCHANGED <<events, spoiled>>
     \/ Fault /\ spoiled' = spoiled \cup {b.file} /\ UNCHANGED <<backups, erased>>
  /\ IF work[w].todo = {b} THEN Over(w)
     ELSE work' = [work EXCEPT ![w].at = "unlink", ![w].todo = @ \ {b}]
  /\ UNCHANGED <<Others, present, schedule, Outside, late, broken>>

-----------------------------------------------------------------------------
(* Requests of one statement, containers, the clock *)

CreateSchedule(c, d, n) ==
  /\ Ask(c)
  /\ d \in present /\ schedule[d] = NoSchedule
  /\ made' = made + 1
  /\ schedule' = [schedule EXCEPT ![d] = [id |-> made + 1, keep |-> n, enabled |-> TRUE,
                                         last |-> Never]]
  /\ UNCHANGED <<now, up, due, work, present, backups, Outside, history>>

UpdateSchedule(c, d, n, e) ==
  /\ Ask(c)
  /\ schedule[d] # NoSchedule
  /\ schedule' = [schedule EXCEPT ![d].keep = n, ![d].enabled = e]
  /\ UNCHANGED <<now, up, made, due, work, present, backups, Outside, history>>

DeleteSchedule(c, d) ==
  /\ Ask(c)
  /\ schedule[d] # NoSchedule
  /\ schedule' = [schedule EXCEPT ![d] = NoSchedule]
  /\ UNCHANGED <<now, up, made, due, work, present, backups, Outside, history>>

(* The rows of a database go with it, and leave the files.                 *)
RemoveDatabase(c, d) ==
  /\ Ask(c)
  /\ d \in present
  /\ present' = present \ {d} /\ up' = up \ {d}
  /\ schedule' = [schedule EXCEPT ![d] = NoSchedule]
  /\ backups' = backups \ Of(d)
  /\ saving' = [x \in RedisDbs |-> IF x = d THEN Never ELSE saving[x]]
  /\ inside' = [x \in DOMAIN inside |-> IF x[1] = d THEN Never ELSE inside[x]]
  /\ UNCHANGED <<now, made, due, files, work, history>>

Stop(c, d) ==
  /\ Ask(c)
  /\ d \in up
  /\ up' = up \ {d}
  /\ saving' = [x \in RedisDbs |-> IF x = d THEN Never ELSE saving[x]]
  /\ late' = late \cup ({d} \cap Busy)
  /\ UNCHANGED <<now, made, due, Platform, files, inside, work, spoiled, broken, erased>>

Start(c, d) ==
  /\ Ask(c)
  /\ d \in present \ up
  /\ up' = up \cup {d}
  /\ UNCHANGED <<now, made, due, Platform, Outside, work, history>>

Tick ==
  /\ now < MaxTime /\ now' = now + 1
  /\ UNCHANGED <<up, made, due, Platform, Outside, work, events, history>>

(* The process dies and is started again.                                  *)
Crash ==
  /\ Fault
  /\ work' = [w \in Workers |-> Idle] /\ due' = [d \in Dbs |-> NotDue]
  /\ spoiled' = spoiled \cup {Current(w).file : w \in {v \in Workers : work[v].at = "drop"}}
  /\ UNCHANGED <<now, up, made, Platform, Outside, late, broken, erased>>

Run(w) ==
  \/ Dump(w) \/ DumpRefused(w) \/ Copy(w) \/ WriteFails(w) \/ GiveUp(w)
  \/ RemoveDump(w) \/ InsertRow(w) \/ Unlink(w) \/ DropRow(w)

Schedule == FindDue \/ (\E d \in Dbs : TakeNext(d)) \/ UpdateLastRun \/ ListOld \/ Run(Loop)

Request(c) ==
  \/ \E d \in Handled : \/ \E op \in {"backup", "export"} : Begin(c, d, op)
                    \/ \E n \in Retentions : \/ CreateSchedule(c, d, n)
                                             \/ \E e \in BOOLEAN : UpdateSchedule(c, d, n, e)
                    \/ DeleteSchedule(c, d) \/ RemoveDatabase(c, d) \/ Stop(c, d) \/ Start(c, d)
  \/ \E b \in backups : BeginDelete(c, b)
  \/ Run(c)

Next ==
  \/ Schedule
  \/ \E c \in Calls : Request(c)
  \/ \E d \in RedisDbs : SaveDone(d)
  \/ Tick \/ Crash

Spec == Init /\ [][Next]_vars

(* The task sleeps five minutes and runs again, forever; Redis gets its    *)
(* dump written.                                                           *)
FairSpec == Spec /\ WF_vars(Schedule) /\ \A d \in RedisDbs : WF_vars(SaveDone(d))

-----------------------------------------------------------------------------
(* A backup that is listed can be downloaded, is of this database and      *)
(* restores what its name says: a dump not older than the name.  Or it is  *)
(* the output that its own dump left when it was refused or died: then it  *)
(* is listed like any other, and does not restore.  Nothing is said when   *)
(* the name was given twice, a removal was cut short, or Redis did not     *)
(* save in time.                                                           *)
ListedBackupsRestore ==
  \A b \in backups :
    \/ b.file \in spoiled \/ b.db \in late
    \/ \E w \in Workers : work[w].at = "drop" /\ b = Current(w)
    \/ /\ files[b.file].db = b.db
       /\ \/ files[b.file].tick >= b.file.tick
          \/ files[b.file].tick = Partial /\ <<b.db, b.file>> \in broken

(* What the task removes has as many newer backups as the schedule keeps,  *)
(* but for those the user deletes.                                         *)
NewestAreKept ==
  [][\A b \in backups \ backups' :
       work[Loop].at = "drop" /\ work'[Loop] # work[Loop] =>
         Cardinality(Newer(b, backups \cup erased)) >= work[Loop].keep]_vars

(* A schedule does not stay due for ever, whatever happens to the others,  *)
(* while its database runs.                                                *)
DueIsRun == \A d \in Dbs : ~<>[](IsDue(d) /\ d \in up)
=============================================================================
