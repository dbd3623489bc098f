----------------------------- MODULE Credentials -----------------------------
(***************************************************************************)
(* The passwords of one database: its owner's and those of its users.      *)
(* The handlers (api/src/handlers/databases.rs) run commands inside the    *)
(* container (services/provisioner.rs) and then write the password to the  *)
(* platform's row.                                                         *)
(*                                                                         *)
(* exec_in_container reports that Docker could not run a command, and      *)
(* never that the command was refused: a command the engine rejects        *)
(* changes nothing and the handler goes on.  What the engines do with a    *)
(* command is external to this code and modelled under "Engines".          *)
(*                                                                         *)
(* Passwords are numbers, in the order they are generated; 0 is the one    *)
(* the container was created with.  They also serve as ids of rows.        *)
(***************************************************************************)
EXTENDS Naturals

CONSTANTS
  Names, Perms, Calls,
  NoName,
  MaxPasswords,   \* bound: passwords generated
  MaxFaults       \* bound: commands Docker does not run, statements that fail

ASSUME CredentialsAssumption == NoName \notin Names /\ MaxPasswords \in Nat /\ MaxFaults \in Nat

VARIABLES
  engine,     \* db_type
  up,         \* the database is running, in its row and in Docker
  (* the platform's rows *)
  ownerRow,   \* database_instances.password_encrypted
  users,      \* database_users, by (database_id, username)
  (* inside the container *)
  owner,      \* what opens the database for inst.username
  accounts,   \* accounts by name
  (* control *)
  call, made, faults,
  (* history *)
  disturbed,  \* names whose calls overlapped, were cut short or met a stopped server
  undropped,  \* names whose row was removed while their account was there
  regranted,  \* names created again while they had a row
  unsettled   \* owner rotations overlapped or were cut short

inside  == <<owner, accounts>>
history == <<disturbed, undropped, regranted, unsettled>>
vars == <<engine, up, ownerRow, users, owner, accounts, call, made, faults,
          disturbed, undropped, regranted, unsettled>>

Passwords == 0..MaxPasswords
Engines   == {"postgresql", "redis", "mariadb"}
NoUser    == [id |-> 0, pw |-> 0, perm |-> {}]
NoAccount == [pws |-> {}, perms |-> {}]

Idle == [op |-> "none", at |-> "idle", name |-> NoName, id |-> 0, pw |-> 0,
         perm |-> {}, admin |-> 0]
Steps == [create |-> {"command", "grant", "row"}, delete |-> {"command", "row"},
          rotate |-> {"command", "row"},          owner |-> {"command", "row"}]
Ops == DOMAIN Steps
CallType == [op : Ops \cup {"none"}, at : {"idle", "command", "grant", "row"},
             name : Names \cup {NoName}, id : Passwords, pw : Passwords,
             perm : SUBSET Perms, admin : Passwords]

TypeOK ==
  /\ engine \in Engines /\ up \in BOOLEAN
  /\ ownerRow \in Passwords /\ owner \in Passwords
  /\ users \in [Names -> [id : Passwords, pw : Passwords, perm : SUBSET Perms]]
  /\ accounts \in [Names -> [pws : SUBSET Passwords, perms : SUBSET Perms]]
  /\ call \in [Calls -> CallType]
  /\ \A c \in Calls : call[c] = Idle \/
       /\ call[c].op \in Ops /\ call[c].at \in Steps[call[c].op]
       /\ call[c].name \in IF call[c].op = "owner" THEN {NoName} ELSE Names
       /\ call[c].pw # 0
  /\ made \in Passwords /\ faults \in 0..MaxFaults
  /\ disturbed \subseteq Names /\ undropped \subseteq Names
  /\ regranted \subseteq Names /\ unsettled \in BOOLEAN

Init ==
  /\ engine \in Engines /\ up = TRUE
  /\ ownerRow = 0 /\ owner = 0
  /\ users = [n \in Names |-> NoUser] /\ accounts = [n \in Names |-> NoAccount]
  /\ call = [c \in Calls |-> Idle]
  /\ made = 0 /\ faults = 0
  /\ disturbed = {} /\ undropped = {} /\ regranted = {} /\ unsettled = FALSE

-----------------------------------------------------------------------------
(* Engines: what a command does to the accounts.  psql on the local socket *)
(* needs no password; redis-cli and mariadb -uroot need that of requirepass *)
(* and of root, which stay what they were when the container was created.   *)

Accepts(pw) == engine = "postgresql" \/ pw = 0
Exists(a) == a # NoAccount

(* CREATE ROLE, CREATE USER: refused for a name that is there.             *)
(* ACL SETUSER: adds the password, and sets the permission.                *)
Created(a, pw, perm) ==
  IF engine = "redis" THEN [pws |-> a.pws \cup {pw}, perms |-> perm]
  ELSE IF Exists(a) THEN a ELSE [pws |-> {pw}, perms |-> {}]

(* GRANT.  ACL SAVE: the server has no ACL file.                           *)
Granted(a, perm) ==
  IF engine = "redis" \/ ~Exists(a) THEN a ELSE [a EXCEPT !.perms = @ \cup perm]

(* A role with default privileges is not dropped, and the statements of    *)
(* one psql -c are undone together.  DROP USER, ACL DELUSER.               *)
Dropped(a) ==
  IF engine = "postgresql" /\ a.perms # {} THEN a ELSE NoAccount

(* ALTER.  ACL SETUSER resetpass, which makes a user without permissions   *)
(* when there is none.                                                     *)
Altered(a, pw) ==
  IF engine = "redis" \/ Exists(a) THEN [a EXCEPT !.pws = {pw}] ELSE a

-----------------------------------------------------------------------------
Fault == faults < MaxFaults /\ faults' = faults + 1

OverButKept(c) == call' = [call EXCEPT ![c].at = "idle"]

(* The call goes on to its next step, or is over.                          *)
Goto(c, s) == call' = [call EXCEPT ![c].at = s]
Over(c)    == call' = [call EXCEPT ![c] = Idle]

Same(op, n)  == {c \in Calls : call[c] # Idle /\ (IF op = "owner" THEN call[c].op = "owner"
                                                               ELSE call[c].name = n)}

(* A new call has a copy of the owner's row and a new password.            *)
Admit(c, op, n, id, perm, at) ==
  /\ call[c] = Idle
  /\ made < MaxPasswords
  /\ made' = made + 1
  /\ call' = [call EXCEPT ![c] = [op |-> op, at |-> at, name |-> n, id |-> id,
                                  pw |-> made + 1, perm |-> perm, admin |-> ownerRow]]
  /\ disturbed' = IF n \in Names /\ (Same(op, n) # {} \/ ~up) THEN disturbed \cup {n}
                  ELSE disturbed
  /\ unsettled' = (unsettled \/ (op = "owner" /\ Same(op, n) # {}))
  /\ UNCHANGED <<engine, up, ownerRow, users, inside, faults, undropped, regranted>>

BeginCreate(c, n, p) == up /\ Admit(c, "create", n, 0, {p}, "command")
BeginRotate(c, n)    == up /\ users[n] # NoUser /\ Admit(c, "rotate", n, users[n].id, {}, "command")
BeginRotateOwner(c)  == up /\ Admit(c, "owner", NoName, 0, {}, "command")

BeginDeleteOfRow(c, n) == users[n] # NoUser /\ Admit(c, "delete", n, users[n].id, {}, "row")

(* The account of a database that is stopped is left alone.                *)
BeginDelete(c, n) ==
  /\ users[n] # NoUser
  /\ Admit(c, "delete", n, users[n].id, {}, IF up THEN "command" ELSE "row")

Disturb(c) ==
  /\ disturbed' = disturbed \cup ({call[c].name} \cap Names)
  /\ unsettled' = (unsettled \/ call[c].op = "owner")
  /\ UNCHANGED <<undropped, regranted>>

-----------------------------------------------------------------------------
(* Commands *)

SetAccount(n, a) == accounts' = [accounts EXCEPT ![n] = a] /\ UNCHANGED owner

(* The command of a call that the engine accepts.  For the owner:          *)
(*   - redis-cli is given CONFIG SET requirepass as one word;              *)
(*   - inst.username is not the account that mariadb -uroot presents.      *)
Effect(c) ==
  LET k == call[c]
      n == k.name IN
  \/ k.op = "create" /\ k.at = "command" /\ SetAccount(n, Created(accounts[n], k.pw, k.perm))
  \/ k.op = "create" /\ k.at = "grant"   /\ SetAccount(n, Granted(accounts[n], k.perm))
  \/ k.op = "delete" /\ SetAccount(n, Dropped(accounts[n]))
  \/ k.op = "rotate" /\ SetAccount(n, Altered(accounts[n], k.pw))
  \/ /\ k.op = "owner"
     /\ owner' = IF engine = "redis" THEN owner ELSE k.pw
     /\ UNCHANGED accounts

RunCommand(c) ==
  /\ call[c].at \in {"command", "grant"}
  /\ up
  /\ \/ Accepts(call[c].admin) /\ Effect(c)
     \/ ~Accepts(call[c].admin) /\ UNCHANGED inside
  /\ Goto(c, IF call[c].op = "create" /\ call[c].at = "command" THEN "grant" ELSE "row")
  /\ UNCHANGED <<engine, up, ownerRow, users, made, faults, history>>

(* Docker cannot run it, or the answer is lost.  delete_database_user      *)
(* goes on, the others return the error.                                   *)
CommandFails(c) ==
  /\ call[c].at \in {"command", "grant"}
  /\ \/ ~up /\ UNCHANGED <<inside, faults>>
     \/ up /\ Fault /\ UNCHANGED inside
     \/ up /\ Fault /\ Accepts(call[c].admin) /\ Effect(c)
  /\ IF call[c].op = "delete" THEN Goto(c, "row") ELSE Over(c)
  /\ Disturb(c)
  /\ UNCHANGED <<engine, up, ownerRow, users, made>>

-----------------------------------------------------------------------------
(* Rows *)

UpsertUser(c) ==
  LET k == call[c] IN
  /\ k.op = "create" /\ k.at = "row"
  /\ users' = [users EXCEPT ![k.name] = [id |-> k.pw, pw |-> k.pw, perm |-> k.perm]]
  /\ Over(c)
  /\ UNCHANGED <<engine, up, ownerRow, inside, made, faults, history>>

(* UNIQUE (database_id, username)                                          *)
InsertUser(c) ==
  LET k == call[c] IN
  /\ k.op = "create" /\ k.at = "row"
  /\ \/ /\ users[k.name] = NoUser
        /\ users' = [users EXCEPT ![k.name] = [id |-> k.pw, pw |-> k.pw, perm |-> k.perm]]
        /\ UNCHANGED regranted
     \/ /\ users[k.name] # NoUser
        /\ regranted' = regranted \cup {k.name}
        /\ UNCHANGED users
  /\ Over(c)
  /\ UNCHANGED <<engine, up, ownerRow, inside, made, faults, disturbed,
                 undropped, unsettled>>

(* The outcome of the command is ignored: the row goes also when the       *)
(* account is still there, as the role of a PostgreSQL user is.            *)
DeleteUser(c) ==
  LET k == call[c] IN
  /\ k.op = "delete" /\ k.at = "row"
  /\ users' = IF users[k.name].id = k.id THEN [users EXCEPT ![k.name] = NoUser] ELSE users
  /\ undropped' = IF Exists(accounts[k.name]) THEN undropped \cup {k.name} ELSE undropped
  /\ Over(c)
  /\ UNCHANGED <<engine, up, ownerRow, inside, made, faults, disturbed, regranted, unsettled>>

StorePassword(c) ==
  LET k == call[c] IN
  /\ k.op = "rotate" /\ k.at = "row"
  /\ users' = IF users[k.name].id = k.id THEN [users EXCEPT ![k.name].pw = k.pw] ELSE users
  /\ Over(c)
  /\ UNCHANGED <<engine, up, ownerRow, inside, made, faults, history>>

StoreOwnerPassword(c) ==
  /\ call[c].op = "owner" /\ call[c].at = "row"
  /\ ownerRow' = call[c].pw
  /\ Over(c)
  /\ UNCHANGED <<engine, up, users, inside, made, faults, history>>

RowFails(c) ==
  /\ call[c].at = "row"
  /\ Fault
  /\ Over(c)
  /\ Disturb(c)
  /\ UNCHANGED <<engine, up, ownerRow, users, inside, made>>

-----------------------------------------------------------------------------
(* container_action: a Redis server starts with the password of its        *)
(* command line and without the users that ACL SAVE did not save.          *)
Stop ==
  /\ up /\ up' = FALSE
  /\ \/ /\ engine = "redis"
        /\ accounts' = [n \in Names |-> NoAccount]
        /\ disturbed' = {n \in Names : Exists(accounts[n])} \cup disturbed
        /\ UNCHANGED owner
     \/ engine # "redis" /\ UNCHANGED <<inside, disturbed>>
  /\ UNCHANGED <<engine, ownerRow, users, call, made, faults,
                 undropped, regranted, unsettled>>

Start ==
  /\ ~up /\ up' = TRUE
  /\ UNCHANGED <<engine, ownerRow, users, inside, call, made, faults, history>>

Next ==
  \/ \E c \in Calls :
       \/ \E n \in Names : \/ \E p \in Perms : BeginCreate(c, n, p)
                           \/ BeginRotate(c, n) \/ BeginDelete(c, n)
       \/ BeginRotateOwner(c)
       \/ RunCommand(c) \/ CommandFails(c)
       \/ InsertUser(c) \/ DeleteUser(c) \/ StorePassword(c) \/ StoreOwnerPassword(c)
       \/ RowFails(c)
  \/ Stop \/ Start

Spec == Init /\ [][Next]_vars

-----------------------------------------------------------------------------
(* Redis and MariaDB take no command any more once the owner's password    *)
(* was rotated: the row no longer has the one they ask for.                *)
Manageable == engine = "postgresql" \/ ownerRow = 0

Quiet(n) == n \notin disturbed /\ \A c \in Calls : call[c].name # n

(* The password that was stored for a user is accepted, and the user has   *)
(* the permission that is shown: also when other users' calls failed, and  *)
(* when somebody tried to create a user of that name again.  Nothing is    *)
(* said of a name that was removed while its account stayed: there CREATE  *)
(* is refused, and the new row has a password the account never got.       *)
StoredUsersWork ==
  Manageable => \A n \in Names : users[n] # NoUser /\ Quiet(n) /\ n \notin undropped =>
    /\ users[n].pw \in accounts[n].pws
    /\ n \notin regranted => accounts[n].perms = users[n].perm

(* Whoever has no row has no permission inside the database, except the    *)
(* PostgreSQL users that were removed: there DROP ROLE is refused because  *)
(* of the default privileges, the revocations of the same psql -c are      *)
(* undone with it (provisioner.rs:776-788), and the role keeps its login   *)
(* and its permissions.  In Redis and MariaDB no removal leaves a user in. *)
RemovedUsersAreOut ==
  Manageable => \A n \in Names : users[n] = NoUser /\ Quiet(n) =>
    accounts[n].perms = {} \/ (engine = "postgresql" /\ n \in undropped)

(* "For Redis owner (default user), update requirepass"                    *)
(* (databases.rs:1112): once rotations are over, the password of the row,  *)
(* which the connection URL shows, is the owner's.                         *)
OwnerPasswordWorks ==
  ~unsettled /\ (\A c \in Calls : call[c].op # "owner") => ownerRow = owner

-----------------------------------------------------------------------------
(* The invariant behind the first two: what the account of a name has to   *)
(* be when nothing is under way for it, and between the steps of a call;   *)
(* and that only PostgreSQL refuses to drop an account.                    *)

Fits(n) ==
  IF users[n] = NoUser THEN accounts[n] = NoAccount
  ELSE /\ users[n].pw \in accounts[n].pws
       /\ n \notin regranted => accounts[n].perms = users[n].perm

(* A creation has made the account, and has granted perms.                 *)
MadeWith(c, perms) ==
  LET k == call[c] IN
  IF users[k.name] = NoUser
  THEN k.pw \in accounts[k.name].pws /\ accounts[k.name].perms = perms
  ELSE users[k.name].pw \in accounts[k.name].pws

Halfway(c) ==
  LET k == call[c]
      n == k.name IN
  /\ k.at = "command" => Fits(n)
  /\ k.op = "create" /\ k.at = "grant" =>
       MadeWith(c, IF engine = "redis" THEN k.perm ELSE {})
  /\ k.op = "create" /\ k.at = "row" => MadeWith(c, k.perm)
  /\ k.op \in {"delete", "rotate"} => users[n] # NoUser /\ users[n].id = k.id
  /\ k.op = "delete" /\ k.at = "row" => engine = "postgresql" \/ accounts[n] = NoAccount
  /\ k.op = "rotate" /\ k.at = "row" =>
       /\ k.pw \in accounts[n].pws
       /\ n \notin regranted => accounts[n].perms = users[n].perm

NameInv(n) ==
  /\ n \in undropped => engine = "postgresql" \/ n \in disturbed
  /\ n \notin disturbed \cup undropped =>
    /\ (\A c \in Calls : call[c].name # n) => Fits(n)
    /\ \A c, e \in Calls : call[c].name = n /\ call[e].name = n => c = e
    /\ \A c \in Calls : call[c].name = n => Halfway(c)

CredentialsInv ==
  /\ TypeOK
  /\ Manageable => /\ \A c \in Calls : call[c] # Idle => Accepts(call[c].admin)
                   /\ \A n \in Names : NameInv(n)
=============================================================================
