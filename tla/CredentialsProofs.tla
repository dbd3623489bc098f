-------------------------- MODULE CredentialsProofs --------------------------
(***************************************************************************)
(* Proofs about Credentials, for any names, permissions, number of calls,  *)
(* passwords and faults: the conjunction CredentialsInv is inductive, and  *)
(* what a stored password opens, and who is let in without a row, follow   *)
(* from it.  The invariant is proved name by name: a step of a call *)
(* disturbs the name it is about, and leaves all others as they were.      *)
(***************************************************************************)
EXTENDS Credentials, TLAPS

(* 0 is a password, and the next one is when the bound is not reached.     *)
LEMMA PasswordFacts ==
  /\ 0 \in Passwords
  /\ \A m \in Passwords : m < MaxPasswords => m + 1 \in Passwords /\ m + 1 # 0
BY CredentialsAssumption DEF Passwords

LEMMA IdleFacts ==
  /\ Idle \in CallType
  /\ Idle.op = "none" /\ Idle.at = "idle" /\ Idle.name = NoName
BY PasswordFacts DEF Idle, CallType

LEMMA OpFacts ==
  /\ Ops = {"create", "delete", "rotate", "owner"}
  /\ Steps["create"] = {"command", "grant", "row"} /\ Steps["delete"] = {"command", "row"}
  /\ Steps["rotate"] = {"command", "row"} /\ Steps["owner"] = {"command", "row"}
BY DEF Ops, Steps

(* The fields of a call that is not idle.                                  *)
LEMMA CallFacts ==
  ASSUME TypeOK, NEW c \in Calls, call[c] # Idle
  PROVE  /\ call[c] \in CallType /\ call[c].op \in Ops /\ call[c].at \in Steps[call[c].op]
         /\ call[c].op = "owner" => call[c].name = NoName
         /\ call[c].op # "owner" => call[c].name \in Names
         /\ call[c].pw \in Passwords \ {0} /\ call[c].id \in Passwords
         /\ call[c].admin \in Passwords /\ call[c].perm \in SUBSET Perms
BY DEF TypeOK, CallType

LEMMA InitInv == Init => CredentialsInv
<1> SUFFICES ASSUME Init PROVE CredentialsInv
  OBVIOUS
<1>1. NoUser \in [id : Passwords, pw : Passwords, perm : SUBSET Perms]
  BY PasswordFacts DEF NoUser
<1>2. NoAccount \in [pws : SUBSET Passwords, perms : SUBSET Perms]
  BY DEF NoAccount
<1>3. TypeOK
  <2>1. call \in [Calls -> CallType] /\ \A c \in Calls : call[c] = Idle
    BY IdleFacts DEF Init
  <2>2. users \in [Names -> [id : Passwords, pw : Passwords, perm : SUBSET Perms]]
    BY <1>1 DEF Init
  <2>3. accounts \in [Names -> [pws : SUBSET Passwords, perms : SUBSET Perms]]
    BY <1>2 DEF Init
  <2>4. faults \in 0..MaxFaults
    BY CredentialsAssumption DEF Init
  <2>5. QED
    BY <2>1, <2>2, <2>3, <2>4, PasswordFacts DEF Init, TypeOK
<1>4. ASSUME NEW n \in Names PROVE NameInv(n)
  <2>1. users[n] = NoUser /\ accounts[n] = NoAccount
    BY DEF Init
  <2>2. \A c \in Calls : call[c].name # n
    BY IdleFacts, CredentialsAssumption DEF Init
  <2>3. QED
    BY <2>1, <2>2 DEF Init, NameInv, Fits
<1>5. QED
  BY <1>3, <1>4 DEF CredentialsInv, Init

-----------------------------------------------------------------------------
(* Types *)

LEMMA EngineTypes ==
  ASSUME NEW a \in [pws : SUBSET Passwords, perms : SUBSET Perms],
         NEW pw \in Passwords, NEW perm \in SUBSET Perms
  PROVE  /\ Created(a, pw, perm) \in [pws : SUBSET Passwords, perms : SUBSET Perms]
         /\ Granted(a, perm) \in [pws : SUBSET Passwords, perms : SUBSET Perms]
         /\ Dropped(a) \in [pws : SUBSET Passwords, perms : SUBSET Perms]
         /\ Altered(a, pw) \in [pws : SUBSET Passwords, perms : SUBSET Perms]
<1>1. Created(a, pw, perm) \in [pws : SUBSET Passwords, perms : SUBSET Perms]
  BY DEF Created
<1>2. Granted(a, perm) \in [pws : SUBSET Passwords, perms : SUBSET Perms]
  BY DEF Granted
<1>3. Dropped(a) \in [pws : SUBSET Passwords, perms : SUBSET Perms]
  BY DEF Dropped, NoAccount
<1>4. Altered(a, pw) \in [pws : SUBSET Passwords, perms : SUBSET Perms]
  BY DEF Altered
<1>5. QED
  BY <1>1, <1>2, <1>3, <1>4

(* What a command does inside the container.                               *)
LEMMA EffectTypes ==
  ASSUME TypeOK, NEW c \in Calls, call[c] # Idle, Effect(c)
  PROVE  /\ owner' \in Passwords
         /\ accounts' \in [Names -> [pws : SUBSET Passwords, perms : SUBSET Perms]]
<1> DEFINE n == call[c].name
<1>1. CASE call[c].op = "owner"
  BY <1>1, CallFacts DEF Effect, TypeOK
<1>2. CASE call[c].op # "owner"
  <2>1. n \in Names /\ call[c].pw \in Passwords /\ call[c].perm \in SUBSET Perms
    BY <1>2, CallFacts
  <2>2. accounts[n] \in [pws : SUBSET Passwords, perms : SUBSET Perms]
    BY <2>1 DEF TypeOK
  <2>3. \/ SetAccount(n, Created(accounts[n], call[c].pw, call[c].perm))
        \/ SetAccount(n, Granted(accounts[n], call[c].perm))
        \/ SetAccount(n, Dropped(accounts[n]))
        \/ SetAccount(n, Altered(accounts[n], call[c].pw))
    BY <1>2 DEF Effect
  <2>4. PICK a \in [pws : SUBSET Passwords, perms : SUBSET Perms] : SetAccount(n, a)
    BY <2>1, <2>2, <2>3, EngineTypes
  <2>5. QED
    BY <2>1, <2>4 DEF SetAccount, TypeOK
<1>3. QED
  BY <1>1, <1>2

(* The conjuncts of TypeOK about the calls.                                *)
CallsTypeOK ==
  /\ call \in [Calls -> CallType]
  /\ \A c \in Calls : call[c] = Idle \/
       /\ call[c].op \in Ops /\ call[c].at \in Steps[call[c].op]
       /\ call[c].name \in IF call[c].op = "owner" THEN {NoName} ELSE Names
       /\ call[c].pw # 0

LEMMA OverTypes ==
  ASSUME TypeOK, NEW c \in Calls, Over(c)
  PROVE  CallsTypeOK'
BY IdleFacts DEF Over, TypeOK, CallsTypeOK

LEMMA GotoTypes ==
  ASSUME TypeOK, NEW c \in Calls, NEW s, Goto(c, s), call[c] # Idle,
         s \in Steps[call[c].op]
  PROVE  CallsTypeOK'
<1>1. call'[c] = [call[c] EXCEPT !.at = s] /\ \A e \in Calls \ {c} : call'[e] = call[e]
  BY DEF Goto, TypeOK
<1>2. s \in {"idle", "command", "grant", "row"}
  BY OpFacts, CallFacts
<1>3. /\ call'[c] \in CallType /\ call'[c].op = call[c].op /\ call'[c].at = s
      /\ call'[c].name = call[c].name /\ call'[c].pw = call[c].pw
  BY <1>1, <1>2 DEF CallType, TypeOK
<1>4. call' \in [Calls -> CallType]
  BY <1>1, <1>3 DEF Goto, TypeOK
<1>5. QED
  BY <1>1, <1>3, <1>4, CallFacts DEF CallsTypeOK, TypeOK

LEMMA AdmitTypes ==
  ASSUME TypeOK, NEW c \in Calls, NEW o \in Ops, NEW n, NEW id \in Passwords,
         NEW perm \in SUBSET Perms, NEW s \in Steps[o],
         n \in (IF o = "owner" THEN {NoName} ELSE Names),
         Admit(c, o, n, id, perm, s)
  PROVE  TypeOK'
<1>1. /\ made' \in Passwords /\ made + 1 = made' /\ made + 1 # 0
      /\ UNCHANGED <<engine, up, ownerRow, users, owner, accounts, faults, undropped, regranted>>
  BY PasswordFacts DEF Admit, TypeOK, inside
<1>2. s \in {"idle", "command", "grant", "row"}
  BY OpFacts
<1>3. PICK k : k = [op |-> o, at |-> s, name |-> n, id |-> id, pw |-> made + 1,
                    perm |-> perm, admin |-> ownerRow]
  OBVIOUS
<1>4. k \in CallType /\ k.op = o /\ k.at = s /\ k.name = n /\ k.pw # 0
  BY <1>1, <1>2, <1>3 DEF CallType, TypeOK
<1>5. call' = [call EXCEPT ![c] = k]
  BY <1>3 DEF Admit
<1>6. CallsTypeOK'
  BY <1>4, <1>5 DEF TypeOK, CallsTypeOK
<1>7. disturbed' \subseteq Names /\ unsettled' \in BOOLEAN
  BY DEF Admit, TypeOK
<1>8. QED
  BY <1>1, <1>6, <1>7 DEF TypeOK, CallsTypeOK

LEMMA NextTypes ==
  ASSUME TypeOK, Next
  PROVE  TypeOK'
<1>1. ASSUME NEW c \in Calls, NEW n \in Names, NEW p \in Perms, BeginCreate(c, n, p)
      PROVE  TypeOK'
  BY <1>1, AdmitTypes, OpFacts, PasswordFacts DEF BeginCreate
<1>2. ASSUME NEW c \in Calls, NEW n \in Names, BeginRotate(c, n) \/ BeginDelete(c, n)
      PROVE  TypeOK'
  <2>1. users[n].id \in Passwords
    BY DEF TypeOK
  <2>2. QED
    BY <1>2, <2>1, AdmitTypes, OpFacts DEF BeginRotate, BeginDelete
<1>3. ASSUME NEW c \in Calls, BeginRotateOwner(c) PROVE TypeOK'
  BY <1>3, AdmitTypes, OpFacts, PasswordFacts DEF BeginRotateOwner
<1>4. ASSUME NEW c \in Calls, RunCommand(c) PROVE TypeOK'
  <2>1. call[c] # Idle /\ call[c].at \in {"command", "grant"}
    BY <1>4, IdleFacts DEF RunCommand
  <2>2. PICK s \in {"grant", "row"} : Goto(c, s) /\ (s = "grant" => call[c].op = "create")
    BY <1>4 DEF RunCommand
  <2>3. s \in Steps[call[c].op]
    BY <2>1, <2>2, OpFacts, CallFacts
  <2>4. CallsTypeOK'
    BY <2>1, <2>2, <2>3, GotoTypes
  <2>5. /\ owner' \in Passwords
        /\ accounts' \in [Names -> [pws : SUBSET Passwords, perms : SUBSET Perms]]
    BY <1>4, <2>1, EffectTypes DEF RunCommand, inside, TypeOK
  <2>6. QED
    BY <1>4, <2>4, <2>5 DEF RunCommand, TypeOK, CallsTypeOK, history
<1>5. ASSUME NEW c \in Calls, CommandFails(c) PROVE TypeOK'
  <2>1. call[c] # Idle
    BY <1>5, IdleFacts DEF CommandFails
  <2>2. CallsTypeOK'
    BY <1>5, <2>1, GotoTypes, OverTypes, OpFacts DEF CommandFails
  <2>3. /\ owner' \in Passwords /\ faults' \in 0..MaxFaults
        /\ accounts' \in [Names -> [pws : SUBSET Passwords, perms : SUBSET Perms]]
    BY <1>5, <2>1, EffectTypes, CredentialsAssumption DEF CommandFails, inside, TypeOK, Fault
  <2>4. disturbed' \subseteq Names /\ unsettled' \in BOOLEAN /\ UNCHANGED <<undropped, regranted>>
    BY <1>5 DEF CommandFails, Disturb, TypeOK
  <2>5. QED
    BY <1>5, <2>2, <2>3, <2>4 DEF CommandFails, TypeOK, CallsTypeOK
<1>6. ASSUME NEW c \in Calls,
             InsertUser(c) \/ DeleteUser(c) \/ StorePassword(c) \/ StoreOwnerPassword(c)
      PROVE  TypeOK'
  <2>1. call[c] # Idle /\ Over(c) /\ UNCHANGED <<engine, up, owner, accounts, made, faults, unsettled>>
    BY <1>6, IdleFacts DEF InsertUser, DeleteUser, StorePassword, StoreOwnerPassword,
                           inside, history
  <2>2. CallsTypeOK'
    BY <2>1, OverTypes
  <2>3. ownerRow' \in Passwords
    BY <1>6, <2>1, CallFacts DEF InsertUser, DeleteUser, StorePassword, StoreOwnerPassword, TypeOK
  <2>4. disturbed' \subseteq Names /\ undropped' \subseteq Names /\ regranted' \subseteq Names
    <3>1. call[c].op # "owner" => call[c].name \in Names
      BY <2>1, CallFacts
    <3>2. QED
      BY <1>6, <3>1 DEF InsertUser, DeleteUser, StorePassword, StoreOwnerPassword, TypeOK, history
  <2>5. users' \in [Names -> [id : Passwords, pw : Passwords, perm : SUBSET Perms]]
    <3> DEFINE k == call[c]
    <3>1. /\ k.pw \in Passwords /\ k.perm \in SUBSET Perms
          /\ k.op # "owner" => k.name \in Names
      BY <2>1, CallFacts
    <3>2. /\ [id |-> k.pw, pw |-> k.pw, perm |-> k.perm] \in
                [id : Passwords, pw : Passwords, perm : SUBSET Perms]
          /\ NoUser \in [id : Passwords, pw : Passwords, perm : SUBSET Perms]
      BY <3>1, PasswordFacts DEF NoUser
    <3>3. CASE InsertUser(c) BY <3>1, <3>2, <3>3 DEF InsertUser, TypeOK
    <3>4. CASE DeleteUser(c) BY <3>1, <3>2, <3>4 DEF DeleteUser, TypeOK
    <3>5. CASE StorePassword(c) BY <3>1, <3>5 DEF StorePassword, TypeOK
    <3>6. CASE StoreOwnerPassword(c) BY <3>6 DEF StoreOwnerPassword, TypeOK
    <3>7. QED BY <1>6, <3>3, <3>4, <3>5, <3>6
  <2>6. QED
    BY <2>1, <2>2, <2>3, <2>4, <2>5 DEF TypeOK, CallsTypeOK
<1>7. ASSUME NEW c \in Calls, RowFails(c) PROVE TypeOK'
  <2>1. CallsTypeOK'
    BY <1>7, OverTypes DEF RowFails
  <2>2. QED
    BY <1>7, <2>1, CredentialsAssumption DEF RowFails, Fault, Disturb, TypeOK, CallsTypeOK, inside
<1>8. ASSUME Stop PROVE TypeOK'
  <2>1. /\ owner' = owner /\ disturbed' \subseteq Names
        /\ accounts' \in [Names -> [pws : SUBSET Passwords, perms : SUBSET Perms]]
    BY <1>8 DEF Stop, TypeOK, NoAccount, inside
  <2>2. QED
    BY <1>8, <2>1 DEF Stop, TypeOK
<1>9. CASE Start
  BY <1>9 DEF Start, TypeOK, inside, history
<1>10. QED
  BY <1>1, <1>2, <1>3, <1>4, <1>5, <1>6, <1>7, <1>8, <1>9 DEF Next

-----------------------------------------------------------------------------
(* Names *)

(* Nothing that NameInv speaks of changes for n.                           *)
LEMMA Untouched ==
  ASSUME TypeOK, NEW n \in Names, NameInv(n),
         engine' = engine, users'[n] = users[n], accounts'[n] = accounts[n],
         disturbed \subseteq disturbed', n \in undropped <=> n \in undropped',
         n \in regranted <=> n \in regranted',
         \A c \in Calls : call[c].name = n \/ call'[c].name = n => call'[c] = call[c]
  PROVE  NameInv(n)'
<1>1. Fits(n) <=> Fits(n)'
  BY DEF Fits
<1>2. \A c \in Calls : (call[c].name = n) <=> (call'[c].name = n)
  OBVIOUS
<1>3. ASSUME NEW c \in Calls, call[c].name = n, Halfway(c)
      PROVE  Halfway(c)'
  <2>1. call'[c] = call[c]
    BY <1>3
  <2>2. QED
    BY <1>1, <1>3, <2>1 DEF Halfway, MadeWith
<1>4. QED
  BY <1>1, <1>2, <1>3 DEF NameInv

(* The call of an undisturbed name is the only one.                        *)
LEMMA OnlyCall ==
  ASSUME TypeOK, NEW c \in Calls, call[c] # Idle, NEW n \in Names, call[c].name = n,
         NameInv(n), n \notin disturbed \cup undropped
  PROVE  Halfway(c) /\ \A e \in Calls \ {c} : call[e].name # n
BY DEF NameInv

(* After its last step the account fits the row.                           *)
LEMMA OverFits ==
  ASSUME TypeOK, NEW c \in Calls, call[c] # Idle, NEW n \in Names, call[c].name = n,
         NameInv(n), Over(c), disturbed \subseteq disturbed', undropped \subseteq undropped',
         n \in undropped' => engine' = "postgresql" \/ n \in disturbed',
         n \notin disturbed' \cup undropped' /\ Halfway(c) => Fits(n)'
  PROVE  NameInv(n)'
<1> SUFFICES ASSUME n \notin disturbed' \cup undropped' PROVE NameInv(n)'
  BY DEF NameInv
<1>1. Halfway(c) /\ \A e \in Calls \ {c} : call[e].name # n
  BY OnlyCall
<1>2. \A e \in Calls : call'[e].name # n
  BY <1>1, IdleFacts, CredentialsAssumption DEF Over, TypeOK
<1>3. QED
  BY <1>1, <1>2 DEF NameInv

(* Between two steps the account is what the next one expects.             *)
LEMMA GotoFits ==
  ASSUME TypeOK, NEW c \in Calls, call[c] # Idle, NEW n \in Names, call[c].name = n,
         NEW s, Goto(c, s), NameInv(n), disturbed \subseteq disturbed', UNCHANGED <<engine, undropped>>,
         n \notin disturbed' \cup undropped' /\ Halfway(c) => Halfway(c)'
  PROVE  NameInv(n)'
<1> SUFFICES ASSUME n \notin disturbed' \cup undropped' PROVE NameInv(n)'
  BY DEF NameInv
<1>1. Halfway(c) /\ \A e \in Calls \ {c} : call[e].name # n
  BY OnlyCall
<1>2. call'[c].name = n /\ \A e \in Calls \ {c} : call'[e].name # n
  BY <1>1 DEF Goto, TypeOK, CallType
<1>3. QED
  BY <1>1, <1>2 DEF NameInv

(* A call that begins for a name that is quiet and fits.                   *)
LEMMA AdmitNames ==
  ASSUME TypeOK, NEW c \in Calls, NEW o \in Ops, NEW m, NEW id, NEW perm,
         NEW s, Admit(c, o, m, id, perm, s), m \in Names => o # "owner",
         NEW n \in Names, NameInv(n),
         o \in {"delete", "rotate"} => users[m] # NoUser /\ users[m].id = id,
         s = "command" \/ ~up
  PROVE  NameInv(n)'
<1>1. /\ UNCHANGED <<engine, users, accounts, undropped, regranted>> /\ disturbed \subseteq disturbed'
      /\ call[c] = Idle /\ call[c].name = NoName
  BY IdleFacts DEF Admit, inside
<1>2. PICK k : k = [op |-> o, at |-> s, name |-> m, id |-> id, pw |-> made + 1,
                    perm |-> perm, admin |-> ownerRow]
  OBVIOUS
<1>3. call' = [call EXCEPT ![c] = k]
  BY <1>2 DEF Admit
<1>4. k.op = o /\ k.at = s /\ k.name = m /\ k.id = id
  BY <1>2
<1>5. CASE m # n
  BY <1>1, <1>3, <1>4, <1>5, Untouched, CredentialsAssumption DEF TypeOK
<1>6. CASE m = n
  <2> SUFFICES ASSUME n \notin disturbed' \cup undropped' PROVE NameInv(n)'
    BY <1>1 DEF NameInv
  <2>1. Same(o, n) = {} /\ up
    BY <1>6 DEF Admit
  <2>2. \A e \in Calls : call[e].name # n
    BY <1>6, <2>1, IdleFacts, CredentialsAssumption DEF Same
  <2>3. Fits(n)
    BY <1>1, <2>2 DEF NameInv
  <2>4. Fits(n)'
    BY <1>1, <2>3 DEF Fits
  <2>5. call'[c] = k /\ \A e \in Calls \ {c} : call'[e].name # n
    BY <1>3, <2>2 DEF TypeOK
  <2>6. Halfway(c)'
    BY <1>1, <1>4, <1>6, <2>1, <2>4, <2>5 DEF Halfway
  <2>7. QED
    BY <1>4, <1>6, <2>4, <2>5, <2>6 DEF NameInv
<1>7. QED
  BY <1>5, <1>6

(* A command of a call, for its own name.                                  *)
LEMMA CommandHalfway ==
  ASSUME TypeOK, NEW c \in Calls, call[c] # Idle, NEW n \in Names, call[c].name = n,
         call[c].at \in {"command", "grant"}, Effect(c), Halfway(c),
         Goto(c, IF call[c].op = "create" /\ call[c].at = "command" THEN "grant" ELSE "row"),
         UNCHANGED <<engine, users, regranted>>
  PROVE  Halfway(c)'
<1> DEFINE k == call[c]
<1>1. /\ k.op \in {"create", "delete", "rotate"} /\ k.pw \in Passwords
      /\ k.perm \in SUBSET Perms
      /\ k.at = "grant" => k.op = "create"
  BY CallFacts, OpFacts, CredentialsAssumption
<1>2. /\ users[n] \in [id : Passwords, pw : Passwords, perm : SUBSET Perms]
      /\ accounts[n] \in [pws : SUBSET Passwords, perms : SUBSET Perms]
  BY DEF TypeOK
<1>3. /\ call'[c].op = k.op /\ call'[c].name = n /\ call'[c].id = k.id
      /\ call'[c].pw = k.pw /\ call'[c].perm = k.perm
      /\ call'[c].at = IF k.op = "create" /\ k.at = "command" THEN "grant" ELSE "row"
  BY DEF Goto, TypeOK, CallType
<1>4. \A a : SetAccount(n, a) => accounts'[n] = a
  BY DEF SetAccount, TypeOK
<1>5. CASE k.op = "create" /\ k.at = "command"
  <2>1. accounts'[n] = Created(accounts[n], k.pw, k.perm)
    BY <1>4, <1>5 DEF Effect
  <2>2. Fits(n)
    BY <1>5 DEF Halfway
  <2>3. MadeWith(c, IF engine = "redis" THEN k.perm ELSE {})'
    <3>1. CASE users[n] = NoUser
      <4>1. accounts[n] = NoAccount
        BY <2>2, <3>1 DEF Fits
      <4>2. k.pw \in accounts'[n].pws
        BY <2>1, <4>1 DEF Created, Exists, NoAccount
      <4>3. accounts'[n].perms = IF engine = "redis" THEN k.perm ELSE {}
        BY <2>1, <4>1 DEF Created, Exists, NoAccount
      <4>4. QED
        BY <1>3, <3>1, <4>2, <4>3 DEF MadeWith
    <3>2. CASE users[n] # NoUser
      <4>1. users[n].pw \in accounts[n].pws
        BY <2>2, <3>2 DEF Fits
      <4>2. users[n].pw \in accounts'[n].pws
        BY <1>2, <2>1, <4>1 DEF Created, Exists, NoAccount
      <4>3. QED
        BY <1>3, <3>2, <4>2 DEF MadeWith
    <3>3. QED
      BY <3>1, <3>2
  <2>4. QED
    BY <1>3, <1>5, <2>3 DEF Halfway
<1>6. CASE k.op = "create" /\ k.at = "grant"
  <2>1. accounts'[n] = Granted(accounts[n], k.perm)
    BY <1>4, <1>6 DEF Effect
  <2>2. MadeWith(c, IF engine = "redis" THEN k.perm ELSE {})
    BY <1>6 DEF Halfway
  <2>3. MadeWith(c, k.perm)'
    <3>1. CASE engine = "redis" \/ accounts[n] = NoAccount
      BY <1>3, <2>1, <2>2, <3>1 DEF MadeWith, Granted, Exists, NoAccount
    <3>2. CASE engine # "redis" /\ accounts[n] # NoAccount
      <4>1. accounts'[n] = [accounts[n] EXCEPT !.perms = @ \cup k.perm]
        BY <2>1, <3>2 DEF Granted, Exists
      <4>2. /\ accounts'[n].pws = accounts[n].pws
            /\ accounts'[n].perms = accounts[n].perms \cup k.perm
        BY <1>2, <4>1
      <4>3. QED
        BY <1>3, <2>2, <3>2, <4>2 DEF MadeWith
    <3>3. QED
      BY <3>1, <3>2
  <2>4. QED
    BY <1>3, <1>6, <2>3 DEF Halfway
<1>7. CASE k.op = "delete"
  <2>1. accounts'[n] = Dropped(accounts[n])
    BY <1>4, <1>7 DEF Effect
  <2>2. users[n] # NoUser /\ users[n].id = k.id
    BY <1>7 DEF Halfway
  <2>3. QED
    BY <1>3, <1>7, <2>1, <2>2 DEF Halfway, Dropped
<1>8. CASE k.op = "rotate"
  <2>1. accounts'[n] = Altered(accounts[n], k.pw)
    BY <1>4, <1>8 DEF Effect
  <2>2. users[n] # NoUser /\ users[n].id = k.id /\ Fits(n)
    BY <1>1, <1>8 DEF Halfway
  <2>3. accounts'[n] = [accounts[n] EXCEPT !.pws = {k.pw}]
    BY <1>2, <2>1, <2>2 DEF Altered, Exists, Fits, NoAccount
  <2>4. QED
    BY <1>2, <1>3, <1>8, <2>2, <2>3 DEF Halfway, Fits
<1>9. QED
  BY <1>1, <1>5, <1>6, <1>7, <1>8

-----------------------------------------------------------------------------
(* Steps *)

LEMMA EngineStays == Next => engine' = engine
<1> SUFFICES ASSUME Next PROVE engine' = engine
  OBVIOUS
<1>1. ASSUME NEW c \in Calls, NEW n \in Names,
             (\E p \in Perms : BeginCreate(c, n, p)) \/ BeginRotate(c, n) \/ BeginDelete(c, n)
      PROVE  engine' = engine
  BY <1>1 DEF BeginCreate, BeginRotate, BeginDelete, Admit
<1>2. ASSUME NEW c \in Calls, BeginRotateOwner(c) \/ RunCommand(c) \/ CommandFails(c)
      PROVE  engine' = engine
  BY <1>2 DEF BeginRotateOwner, Admit, RunCommand, CommandFails
<1>3. ASSUME NEW c \in Calls, InsertUser(c) \/ DeleteUser(c) \/ StorePassword(c)
                               \/ StoreOwnerPassword(c) \/ RowFails(c)
      PROVE  engine' = engine
  BY <1>3 DEF InsertUser, DeleteUser, StorePassword, StoreOwnerPassword, RowFails
<1>4. Stop \/ Start => engine' = engine
  BY DEF Stop, Start
<1>5. QED
  BY <1>1, <1>2, <1>3, <1>4 DEF Next

(* Owners' passwords are not undone, and calls have a copy of the row.     *)
LEMMA AdminStep ==
  ASSUME CredentialsInv, Next, Manageable'
  PROVE  /\ Manageable
         /\ \A c \in Calls : call'[c] # Idle => Accepts(call[c].admin)'
<1> SUFFICES ASSUME engine # "postgresql"
             PROVE  ownerRow = 0 /\ \A c \in Calls : call'[c] # Idle => call'[c].admin = 0
  BY EngineStays DEF Manageable, Accepts
<1>0. ownerRow' = 0
  BY EngineStays DEF Manageable
<1>1. /\ ownerRow' = ownerRow => ownerRow = 0
      /\ \A c \in Calls : call[c] # Idle => ownerRow' # call[c].pw
  BY <1>0, CallFacts DEF CredentialsInv
<1>2. ASSUME ownerRow = 0, NEW c \in Calls
      PROVE  call[c] # Idle => call[c].admin = 0
  BY <1>2 DEF CredentialsInv, Manageable, Accepts
<1>3. TypeOK
  BY DEF CredentialsInv
<1>4. ASSUME NEW c \in Calls, NEW o, NEW n, NEW id, NEW perm, NEW s, Admit(c, o, n, id, perm, s)
      PROVE  ownerRow = 0 /\ \A e \in Calls : call'[e] # Idle => call'[e].admin = 0
  BY <1>1, <1>2, <1>3, <1>4 DEF Admit, TypeOK
<1>5. ASSUME NEW c \in Calls, call[c] # Idle,
             Over(c) \/ \E s \in {"grant", "row"} : Goto(c, s),
             ownerRow' = ownerRow \/ ownerRow' = call[c].pw
      PROVE  ownerRow = 0 /\ \A e \in Calls : call'[e] # Idle => call'[e].admin = 0
  <2>1. ownerRow = 0
    BY <1>1, <1>5
  <2>2. CASE Over(c)
    BY <1>2, <1>3, <2>1, <2>2 DEF Over, TypeOK
  <2>3. CASE \E s \in {"grant", "row"} : Goto(c, s)
    BY <1>2, <1>3, <1>5, <2>1, <2>3 DEF Goto, TypeOK, CallType
  <2>4. QED
    BY <1>5, <2>2, <2>3
<1>6. ASSUME NEW c \in Calls, NEW n \in Names,
             (\E p \in Perms : BeginCreate(c, n, p)) \/ BeginRotate(c, n) \/ BeginDelete(c, n)
      PROVE  ownerRow = 0 /\ \A e \in Calls : call'[e] # Idle => call'[e].admin = 0
  BY <1>4, <1>6 DEF BeginCreate, BeginRotate, BeginDelete
<1>7. ASSUME NEW c \in Calls, BeginRotateOwner(c)
      PROVE  ownerRow = 0 /\ \A e \in Calls : call'[e] # Idle => call'[e].admin = 0
  BY <1>4, <1>7 DEF BeginRotateOwner
<1>8. ASSUME NEW c \in Calls, RunCommand(c) \/ CommandFails(c)
      PROVE  ownerRow = 0 /\ \A e \in Calls : call'[e] # Idle => call'[e].admin = 0
  <2>1. call[c] # Idle /\ ownerRow' = ownerRow
    BY <1>8, IdleFacts DEF RunCommand, CommandFails
  <2>2. Over(c) \/ \E s \in {"grant", "row"} : Goto(c, s)
    BY <1>8 DEF RunCommand, CommandFails
  <2>3. QED
    BY <1>5, <2>1, <2>2
<1>9. ASSUME NEW c \in Calls, InsertUser(c) \/ DeleteUser(c) \/ StorePassword(c)
                               \/ StoreOwnerPassword(c) \/ RowFails(c)
      PROVE  ownerRow = 0 /\ \A e \in Calls : call'[e] # Idle => call'[e].admin = 0
  <2>1. call[c] # Idle /\ Over(c)
    BY <1>9, IdleFacts DEF InsertUser, DeleteUser, StorePassword, StoreOwnerPassword, RowFails
  <2>2. ownerRow' = ownerRow \/ ownerRow' = call[c].pw
    BY <1>9 DEF InsertUser, DeleteUser, StorePassword, StoreOwnerPassword, RowFails
  <2>3. QED
    BY <1>5, <2>1, <2>2
<1>10. CASE Stop \/ Start
  BY <1>1, <1>2, <1>10 DEF Stop, Start
<1>11. QED
  BY <1>6, <1>7, <1>8, <1>9, <1>10 DEF Next

(* A step of call c that is about some other name, or about none.          *)
LEMMA OtherName ==
  ASSUME TypeOK, NEW c \in Calls, NEW n \in Names, NameInv(n), call[c] # Idle,
         call[c].name # n, Over(c) \/ \E s \in {"grant", "row"} : Goto(c, s),
         engine' = engine, users'[n] = users[n], accounts'[n] = accounts[n],
         disturbed \subseteq disturbed', n \in undropped <=> n \in undropped',
         n \in regranted <=> n \in regranted'
  PROVE  NameInv(n)'
<1>1. \A e \in Calls \ {c} : call'[e] = call[e]
  BY DEF Over, Goto, TypeOK
<1>2. call'[c].name # n
  BY IdleFacts, CredentialsAssumption DEF Over, Goto, TypeOK, CallType
<1>3. QED
  BY <1>1, <1>2, Untouched

(* The commands of a call leave the accounts of other names alone.         *)
LEMMA EffectOther ==
  ASSUME TypeOK, NEW c \in Calls, call[c] # Idle, NEW n \in Names, call[c].name # n, Effect(c)
  PROVE  accounts'[n] = accounts[n]
BY CallFacts DEF Effect, SetAccount, TypeOK

LEMMA RunStep ==
  ASSUME TypeOK, NEW c \in Calls, Accepts(call[c].admin), RunCommand(c),
         NEW n \in Names, NameInv(n)
  PROVE  NameInv(n)'
<1>1. /\ call[c] # Idle /\ Effect(c) /\ call[c].at \in {"command", "grant"}
      /\ UNCHANGED <<engine, users, disturbed, undropped, regranted>>
      /\ Goto(c, IF call[c].op = "create" /\ call[c].at = "command" THEN "grant" ELSE "row")
  BY IdleFacts DEF RunCommand, history
<1>2. CASE call[c].name # n
  BY <1>1, <1>2, EffectOther, OtherName
<1>3. CASE call[c].name = n
  <2>1. Halfway(c) => Halfway(c)'
    BY <1>1, <1>3, CommandHalfway
  <2>2. QED
    BY <1>1, <1>3, <2>1, GotoFits
<1>4. QED
  BY <1>2, <1>3

(* A command that fails, or a row that cannot be written, disturbs a name. *)
LEMMA FailStep ==
  ASSUME TypeOK, NEW c \in Calls, CommandFails(c) \/ RowFails(c), NEW n \in Names, NameInv(n)
  PROVE  NameInv(n)'
<1>1. call[c] # Idle /\ Disturb(c) /\ UNCHANGED <<engine, users>>
  BY IdleFacts DEF CommandFails, RowFails
<1>2. disturbed \subseteq disturbed' /\ UNCHANGED <<undropped, regranted>>
  BY <1>1 DEF Disturb
<1>3. Over(c) \/ \E s \in {"grant", "row"} : Goto(c, s)
  BY DEF CommandFails, RowFails
<1>4. CASE call[c].name # n
  <2>1. accounts'[n] = accounts[n]
    BY <1>1, <1>4, EffectOther DEF CommandFails, RowFails, inside
  <2>2. QED
    BY <1>1, <1>2, <1>3, <1>4, <2>1, OtherName
<1>5. CASE call[c].name = n
  BY <1>1, <1>2, <1>5 DEF Disturb, NameInv
<1>6. QED
  BY <1>4, <1>5

LEMMA InsertStep ==
  ASSUME TypeOK, NEW c \in Calls, InsertUser(c), NEW n \in Names, NameInv(n)
  PROVE  NameInv(n)'
<1> DEFINE k == call[c]
<1>1. /\ k # Idle /\ k.op = "create" /\ k.at = "row" /\ Over(c) /\ k.name \in Names
      /\ k.pw # 0 /\ UNCHANGED <<engine, accounts, disturbed, undropped>>
  BY IdleFacts, CallFacts DEF InsertUser, inside
<1>2. CASE k.name # n
  <2>1. users'[n] = users[n] /\ (n \in regranted' <=> n \in regranted)
    BY <1>1, <1>2 DEF InsertUser, TypeOK
  <2>2. QED
    BY <1>1, <1>2, <2>1, OtherName
<1>3. CASE k.name = n
  <2>1. ASSUME Halfway(c), users[n] = NoUser PROVE Fits(n)'
    <3>1. users'[n] = [id |-> k.pw, pw |-> k.pw, perm |-> k.perm]
      BY <1>3, <2>1 DEF InsertUser, TypeOK
    <3>2. users'[n] # NoUser /\ users'[n].pw = k.pw /\ users'[n].perm = k.perm
      BY <1>1, <3>1 DEF NoUser
    <3>3. k.pw \in accounts[n].pws /\ accounts[n].perms = k.perm
      BY <1>1, <1>3, <2>1 DEF Halfway, MadeWith
    <3>4. QED
      BY <1>1, <3>2, <3>3 DEF Fits
  <2>2. ASSUME Halfway(c), users[n] # NoUser PROVE Fits(n)'
    <3>1. UNCHANGED users /\ n \in regranted'
      BY <1>3, <2>2 DEF InsertUser
    <3>2. users[n].pw \in accounts[n].pws
      BY <1>1, <1>3, <2>2 DEF Halfway, MadeWith
    <3>3. QED
      BY <1>1, <2>2, <3>1, <3>2 DEF Fits
  <2>3. QED
    BY <1>1, <1>3, <2>1, <2>2, OverFits DEF NameInv
<1>4. QED
  BY <1>2, <1>3

LEMMA DeleteStep ==
  ASSUME TypeOK, NEW c \in Calls, DeleteUser(c), NEW n \in Names, NameInv(n)
  PROVE  NameInv(n)'
<1> DEFINE k == call[c]
<1>1. /\ k # Idle /\ k.op = "delete" /\ k.at = "row" /\ Over(c) /\ k.name \in Names
      /\ UNCHANGED <<engine, accounts, disturbed, regranted>>
      /\ undropped \subseteq undropped'
  BY IdleFacts, CallFacts DEF DeleteUser, inside
<1>2. CASE k.name # n
  <2>1. users'[n] = users[n] /\ (n \in undropped' <=> n \in undropped)
    BY <1>1, <1>2 DEF DeleteUser, TypeOK
  <2>2. QED
    BY <1>1, <1>2, <2>1, OtherName
<1>3. CASE k.name = n
  <2>1. n \in undropped' => n \in undropped \/ accounts[n] # NoAccount
    BY <1>3 DEF DeleteUser, Exists
  <2>2. ASSUME n \in undropped' PROVE engine' = "postgresql" \/ n \in disturbed'
    <3>1. CASE n \in undropped \cup disturbed
      BY <1>1, <3>1 DEF NameInv
    <3>2. CASE n \notin undropped \cup disturbed
      <4>1. Halfway(c) /\ accounts[n] # NoAccount
        BY <1>1, <1>3, <2>1, <2>2, <3>2, OnlyCall
      <4>2. QED
        BY <1>1, <1>3, <4>1 DEF Halfway
    <3>3. QED
      BY <3>1, <3>2
  <2>3. ASSUME Halfway(c), n \notin disturbed' \cup undropped' PROVE Fits(n)'
    <3>1. accounts[n] = NoAccount
      BY <1>3, <2>3 DEF DeleteUser, Exists
    <3>2. users[n].id = k.id
      BY <1>1, <1>3, <2>3 DEF Halfway
    <3>3. users'[n] = NoUser
      BY <1>3, <3>2 DEF DeleteUser, TypeOK
    <3>4. QED
      BY <1>1, <3>1, <3>3 DEF Fits
  <2>4. QED
    BY <1>1, <1>3, <2>2, <2>3, OverFits
<1>4. QED
  BY <1>2, <1>3

LEMMA RotateStep ==
  ASSUME TypeOK, NEW c \in Calls, StorePassword(c), NEW n \in Names, NameInv(n)
  PROVE  NameInv(n)'
<1> DEFINE k == call[c]
<1>1. /\ k # Idle /\ k.op = "rotate" /\ k.at = "row" /\ Over(c) /\ k.name \in Names
      /\ UNCHANGED <<engine, accounts, undropped, regranted, disturbed>>
  BY IdleFacts, CallFacts DEF StorePassword, inside, history
<1>2. CASE k.name # n
  <2>1. users'[n] = users[n]
    BY <1>1, <1>2 DEF StorePassword, TypeOK
  <2>2. QED
    BY <1>1, <1>2, <2>1, OtherName
<1>3. CASE k.name = n
  <2>1. ASSUME Halfway(c) PROVE Fits(n)'
    <3>1. /\ users[n].id = k.id /\ k.pw \in accounts[n].pws
          /\ n \notin regranted => accounts[n].perms = users[n].perm
      BY <1>1, <1>3, <2>1 DEF Halfway
    <3>2. users'[n] = [users[n] EXCEPT !.pw = k.pw]
      BY <1>3, <3>1 DEF StorePassword, TypeOK
    <3>3. users'[n].pw = k.pw /\ users'[n].perm = users[n].perm
      BY <3>2 DEF TypeOK
    <3>4. users'[n] # NoUser
      BY <1>1, <3>3, CallFacts DEF NoUser
    <3>5. QED
      BY <1>1, <3>1, <3>3, <3>4 DEF Fits
  <2>2. QED
    BY <1>1, <1>3, <2>1, OverFits DEF NameInv
<1>4. QED
  BY <1>2, <1>3

LEMMA OwnerStep ==
  ASSUME TypeOK, NEW c \in Calls, StoreOwnerPassword(c), NEW n \in Names, NameInv(n)
  PROVE  NameInv(n)'
<1>1. call[c] # Idle /\ call[c].name = NoName
  BY IdleFacts, CallFacts DEF StoreOwnerPassword
<1>2. QED
  BY <1>1, OtherName, CredentialsAssumption DEF StoreOwnerPassword, inside, history

(* A Redis server forgets its accounts when it stops.                      *)
LEMMA StopStep ==
  ASSUME TypeOK, Stop, NEW n \in Names, NameInv(n)
  PROVE  NameInv(n)'
<1>1. UNCHANGED <<engine, users, call, undropped, regranted>> /\ disturbed \subseteq disturbed'
  BY DEF Stop
<1>2. n \in disturbed' \/ accounts'[n] = accounts[n]
  BY DEF Stop, Exists, inside
<1>3. n \in disturbed' => NameInv(n)'
  BY <1>1 DEF NameInv
<1>4. QED
  BY <1>1, <1>2, <1>3, Untouched

LEMMA NextInv ==
  ASSUME CredentialsInv, [Next]_vars
  PROVE  CredentialsInv'
<1>1. TypeOK
  BY DEF CredentialsInv
<1>2. CASE UNCHANGED vars
  BY <1>2 DEF CredentialsInv, vars, TypeOK, Manageable, Accepts, NameInv, Fits, Halfway, MadeWith
<1>3. CASE Next
  <2>1. TypeOK'
    BY <1>1, <1>3, NextTypes
  <2> SUFFICES ASSUME Manageable', NEW n \in Names PROVE NameInv(n)'
    BY <1>3, <2>1, AdminStep DEF CredentialsInv
  <2>2. /\ NameInv(n) /\ \A c \in Calls : call[c] # Idle => Accepts(call[c].admin)
    BY <1>3, AdminStep DEF CredentialsInv
  <2>3. ASSUME NEW c \in Calls, NEW m \in Names,
               (\E p \in Perms : BeginCreate(c, m, p)) \/ BeginRotate(c, m) \/ BeginDelete(c, m)
        PROVE  NameInv(n)'
    <3>1. CASE \E p \in Perms : BeginCreate(c, m, p)
      BY <1>1, <2>2, <3>1, AdmitNames, OpFacts DEF BeginCreate
    <3>2. CASE BeginRotate(c, m)
      BY <1>1, <2>2, <3>2, AdmitNames, OpFacts DEF BeginRotate
    <3>3. CASE BeginDelete(c, m)
      BY <1>1, <2>2, <3>3, AdmitNames, OpFacts DEF BeginDelete
    <3>4. QED
      BY <2>3, <3>1, <3>2, <3>3
  <2>4. ASSUME NEW c \in Calls, BeginRotateOwner(c) PROVE NameInv(n)'
    BY <1>1, <2>2, <2>4, AdmitNames, OpFacts, CredentialsAssumption DEF BeginRotateOwner
  <2>5. ASSUME NEW c \in Calls, RunCommand(c) PROVE NameInv(n)'
    <3>1. call[c] # Idle
      BY <2>5, IdleFacts DEF RunCommand
    <3>2. QED
      BY <1>1, <2>2, <2>5, <3>1, RunStep
  <2>6. ASSUME NEW c \in Calls, CommandFails(c) \/ RowFails(c) PROVE NameInv(n)'
    BY <1>1, <2>2, <2>6, FailStep
  <2>7. ASSUME NEW c \in Calls,
               InsertUser(c) \/ DeleteUser(c) \/ StorePassword(c) \/ StoreOwnerPassword(c)
        PROVE  NameInv(n)'
    BY <1>1, <2>2, <2>7, InsertStep, DeleteStep, RotateStep, OwnerStep
  <2>8. CASE Stop
    BY <1>1, <2>2, <2>8, StopStep
  <2>9. CASE Start
    BY <1>1, <2>2, <2>9, Untouched DEF Start, inside, history
  <2>10. QED
    BY <1>3, <2>3, <2>4, <2>5, <2>6, <2>7, <2>8, <2>9 DEF Next
<1>4. QED
  BY <1>2, <1>3

-----------------------------------------------------------------------------
(* Theorems *)

(* Calls, rows and accounts keep their shapes, and no password has a       *)
(* number beyond those generated.                                          *)
THEOREM TypeCorrect == Spec => []TypeOK
<1>1. CredentialsInv => TypeOK
  BY DEF CredentialsInv
<1>2. QED
  BY <1>1, InitInv, NextInv, PTL DEF Spec

(* The stored password of a user is accepted and the permission shown is   *)
(* the one granted, whatever happens to other users: create_database_user  *)
(* and rotate_user_password run their commands before they write the row.  *)
(* A name that was removed from PostgreSQL is not covered again.           *)
THEOREM StoredWork == Spec => []StoredUsersWork
<1>1. CredentialsInv => StoredUsersWork
  BY DEF CredentialsInv, NameInv, Quiet, StoredUsersWork, Fits
<1>2. QED
  BY <1>1, InitInv, NextInv, PTL DEF Spec

(* A name without a row has no permission: delete_database_user runs its   *)
(* command first, and one whose outcome is not known disturbs the name.    *)
(* Only PostgreSQL refuses the command, and then leaves the role as it was *)
(* to whoever knows its password: this is the one exception.               *)
THEOREM RemovedOut == Spec => []RemovedUsersAreOut
<1>1. CredentialsInv => RemovedUsersAreOut
  BY DEF CredentialsInv, NameInv, Quiet, RemovedUsersAreOut, Fits, NoAccount
<1>2. QED
  BY <1>1, InitInv, NextInv, PTL DEF Spec
=============================================================================
