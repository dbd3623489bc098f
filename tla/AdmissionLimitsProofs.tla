------------------------ MODULE AdmissionLimitsProofs ------------------------
(***************************************************************************)
(* That the two limits of admission are only exceeded by requests that     *)
(* overlap.  Both are counted in one step and used up in later ones, so    *)
(* the invariant counts what a user or server has together with what       *)
(* requests are about to add: only a count enlarges that set, and it does  *)
(* so by ids that are fresh, at a moment when the rows were below the      *)
(* limit.  The history variable crowd holds what the others had ahead.     *)
(***************************************************************************)
EXTENDS AdmissionProofs

(* What the rows of a server that do not count have in common.             *)
Marks ==
  /\ \A d \in Dbs : status[d] = "deleting" => removal[d] # "none"
  /\ \A d \in Dbs : status[d] = "error" => d \in failed
  /\ \A t \in Dbs : task[t].at \in {"mark", "release"} => Members(task[t].dbs) \subseteq failed
  /\ \A s \in Servers : max[s] <= highest[s]

(* What a user has and will have, and the same of a server.                *)
Awaited(d, u) ==
  status[d] = "absent" /\ \E c \in Calls : call[c].user = u /\ d \in Members(call[c].dbs)
Owned(u) == {d \in Dbs : (Kept(d) /\ user[d] = u) \/ Awaited(d, u)}

Expected(d, s) ==
  /\ status[d] = "absent"
  /\ \E c \in Calls : /\ call[c].at \in Creating /\ call[c].host = s
                      /\ d \in Members(call[c].dbs)
Placed(s) ==
  {d \in Dbs \ clones : (Kept(d) /\ d \notin failed /\ host[d] = s) \/ Expected(d, s)}

LimitsInv ==
  /\ AdmissionInv
  /\ Marks
  /\ \A u \in Users : Cardinality(Owned(u)) <= MaxDatabases + crowd[u]
  /\ \A s \in Servers : Cardinality(Placed(s)) <= highest[s] + crowd[s]

-----------------------------------------------------------------------------
(* Cardinalities *)

LEMMA SubsetOfDbs ==
  ASSUME NEW S \in SUBSET Dbs
  PROVE  /\ IsFiniteSet(S) /\ Cardinality(S) \in Nat
         /\ \A T \in SUBSET S : Cardinality(T) <= Cardinality(S)
<1>1. IsFiniteSet(S)
  BY AdmissionAssumption, FS_Subset
<1>2. Cardinality(S) \in Nat
  BY <1>1, FS_CardinalityType
<1>3. \A T \in SUBSET S : Cardinality(T) <= Cardinality(S)
  BY <1>1, FS_Subset
<1>4. QED
  BY <1>1, <1>2, <1>3

LEMMA SumOfThree ==
  ASSUME NEW A \in SUBSET Dbs, NEW B \in SUBSET Dbs, NEW C \in SUBSET Dbs,
         NEW S \in SUBSET (A \cup B \cup C)
  PROVE  Cardinality(S) <= Cardinality(A) + Cardinality(B) + Cardinality(C)
<1>1. A \cup B \in SUBSET Dbs /\ A \cup B \cup C \in SUBSET Dbs /\ S \in SUBSET Dbs
      /\ A \cap B \in SUBSET Dbs /\ (A \cup B) \cap C \in SUBSET Dbs
  OBVIOUS
<1>2. Cardinality(A \cup B) = Cardinality(A) + Cardinality(B) - Cardinality(A \cap B)
  BY <1>1, SubsetOfDbs, FS_Union
<1>3. Cardinality(A \cup B \cup C) =
        Cardinality(A \cup B) + Cardinality(C) - Cardinality((A \cup B) \cap C)
  BY <1>1, SubsetOfDbs, FS_Union
<1>4. Cardinality(S) <= Cardinality(A \cup B \cup C)
  BY <1>1, SubsetOfDbs
<1>5. /\ Cardinality(A) \in Nat /\ Cardinality(B) \in Nat /\ Cardinality(C) \in Nat
      /\ Cardinality(A \cup B) \in Nat /\ Cardinality(A \cap B) \in Nat
      /\ Cardinality((A \cup B) \cap C) \in Nat /\ Cardinality(A \cup B \cup C) \in Nat
      /\ Cardinality(S) \in Nat
  BY <1>1, SubsetOfDbs
<1>6. QED
  BY <1>2, <1>3, <1>4, <1>5

LEMMA MembersCount ==
  ASSUME NEW l \in DbLists
  PROVE  Members(l) \in SUBSET Dbs /\ Cardinality(Members(l)) = Len(l)
<1>1. CASE Len(l) = 1
  BY <1>1, ListFacts, FS_Singleton
<1>2. CASE Len(l) = 2
  <2>1. Members(l) = {l[1]} \cup {l[2]} /\ l[2] \notin {l[1]} /\ l[1] \in Dbs /\ l[2] \in Dbs
    BY <1>2, ListFacts
  <2>2. IsFiniteSet({l[1]}) /\ Cardinality({l[1]}) = 1
    BY FS_Singleton
  <2>3. Cardinality({l[1]} \cup {l[2]}) = 2
    BY <2>1, <2>2, FS_AddElement
  <2>4. QED
    BY <1>2, <2>1, <2>3
<1>3. QED
  BY <1>1, <1>2, ListFacts

-----------------------------------------------------------------------------
(* Steps that add nothing to what anybody has or will have                 *)

RowsTame ==
  \A d \in Dbs : /\ (status'[d] = "absent" => status[d] = "absent")
                 /\ (KeptThen(d) => Kept(d) /\ user'[d] = user[d] /\ host'[d] = host[d])

CallTame(c) ==
  call'[c].dbs # <<>> =>
    /\ call'[c].dbs = call[c].dbs /\ call'[c].user = call[c].user
    /\ call'[c].at \in Creating => call[c].at \in Creating /\ call'[c].host = call[c].host

Growing ==
  /\ clones \subseteq clones' /\ failed \subseteq failed'
  /\ \A x \in Users \cup Servers : crowd'[x] >= crowd[x]
  /\ \A s \in Servers : highest'[s] >= highest[s]

LEMMA LimitTypes ==
  ASSUME LimitsInv
  PROVE  /\ crowd \in [Users \cup Servers -> Nat]
         /\ max \in [Servers -> Nat] /\ highest \in [Servers -> Nat]
<1>1. HistoryTypes /\ ServerTypes
  BY InvParts DEF LimitsInv
<1>2. QED
  BY <1>1, AdmissionAssumption DEF HistoryTypes, ServerTypes

LEMMA LimitTypesNext ==
  ASSUME LimitsInv, AdmissionInv'
  PROVE  /\ crowd \in [Users \cup Servers -> Nat] /\ highest \in [Servers -> Nat]
         /\ crowd' \in [Users \cup Servers -> Nat] /\ highest' \in [Servers -> Nat]
<1>1. HistoryTypes' /\ ServerTypes'
  BY InvParts, PTL
<1>2. QED
  BY <1>1, LimitTypes, AdmissionAssumption DEF HistoryTypes, ServerTypes

LEMMA OwnedShrinks ==
  ASSUME LimitsInv, AdmissionInv', Growing, NEW u \in Users, Owned(u)' \in SUBSET Owned(u)
  PROVE  Cardinality(Owned(u)') <= MaxDatabases + crowd'[u]
<1>1. Owned(u) \in SUBSET Dbs /\ Owned(u)' \in SUBSET Dbs
  BY DEF Owned
<1>2. /\ Cardinality(Owned(u)') <= Cardinality(Owned(u))
      /\ Cardinality(Owned(u)') \in Nat /\ Cardinality(Owned(u)) \in Nat
  BY <1>1, SubsetOfDbs
<1>3. Cardinality(Owned(u)) <= MaxDatabases + crowd[u] /\ crowd'[u] >= crowd[u]
  BY DEF LimitsInv, Growing
<1>4. QED
  BY <1>2, <1>3, LimitTypesNext, AdmissionAssumption

LEMMA PlacedShrinks ==
  ASSUME LimitsInv, AdmissionInv', Growing, NEW s \in Servers, Placed(s)' \in SUBSET Placed(s)
  PROVE  Cardinality(Placed(s)') <= highest'[s] + crowd'[s]
<1>1. Placed(s) \in SUBSET Dbs /\ Placed(s)' \in SUBSET Dbs
  BY DEF Placed
<1>2. /\ Cardinality(Placed(s)') <= Cardinality(Placed(s))
      /\ Cardinality(Placed(s)') \in Nat /\ Cardinality(Placed(s)) \in Nat
  BY <1>1, SubsetOfDbs
<1>3. /\ Cardinality(Placed(s)) <= highest[s] + crowd[s]
      /\ crowd'[s] >= crowd[s] /\ highest'[s] >= highest[s]
  BY DEF LimitsInv, Growing
<1>4. QED
  BY <1>2, <1>3, LimitTypesNext

LEMMA TameStep ==
  ASSUME LimitsInv, AdmissionInv', Marks', RowsTame, Growing, \A c \in Calls : CallTame(c)
  PROVE  LimitsInv'
<1>1. \A c \in Calls : \A d : d \in Members(call'[c].dbs) => call'[c].dbs # <<>>
  BY EmptyList
<1>2. \A u \in Users : Owned(u)' \in SUBSET Owned(u)
  BY <1>1 DEF Owned, Awaited, RowsTame, CallTame, KeptThen, HasRowThen, Kept, HasRow
<1>3. \A s \in Servers : Placed(s)' \in SUBSET Placed(s)
  BY <1>1 DEF Placed, Expected, RowsTame, CallTame, Growing, KeptThen, HasRowThen, Kept, HasRow
<1>4. QED
  BY <1>2, <1>3, OwnedShrinks, PlacedShrinks DEF LimitsInv

-----------------------------------------------------------------------------
(* Requests that add nothing, and servers                                  *)

LEMMA RequestTame ==
  ASSUME LimitsInv, AdmissionInv', NEW c \in Calls, NEW k, call' = [call EXCEPT ![c] = k],
         UNCHANGED <<status, user, host, clones, task, removal, failed, crowd>>,
         \/ k.dbs = <<>>
         \/ /\ k.dbs = call[c].dbs /\ k.user = call[c].user
            /\ call[c].at \in Creating /\ k.host = call[c].host,
         \A s \in Servers : highest'[s] >= highest[s] /\ max'[s] <= highest'[s]
  PROVE  LimitsInv'
<1>1. CallsOK /\ TasksOK
  BY InvParts DEF LimitsInv
<1>2. call'[c] = k /\ \A e \in Calls \ {c} : call'[e] = call[e]
  BY <1>1 DEF CallsOK
<1>3. \A e \in Calls : CallTame(e)
  BY <1>2 DEF CallTame
<1>4. RowsTame
  BY DEF RowsTame, KeptThen, HasRowThen, Kept, HasRow
<1>5. Growing
  BY LimitTypes DEF Growing
<1>6. Marks'
  BY DEF LimitsInv, Marks
<1>7. QED
  BY <1>3, <1>4, <1>5, <1>6, TameStep

LEMMA ServersSame ==
  ASSUME LimitsInv, UNCHANGED <<max, highest>>
  PROVE  \A s \in Servers : highest'[s] >= highest[s] /\ max'[s] <= highest'[s]
BY LimitTypes DEF LimitsInv, Marks

LEMMA EarlyTame ==
  ASSUME LimitsInv, AdmissionInv', NEW c \in Calls,
         Reject(c) \/ GiveBackFirst(c) \/ InsertFails(c) \/ DeleteServer(c)
           \/ \E s \in Servers : CountServer(c, s) \/ ReadServer(c, s)
  PROVE  LimitsInv'
<1>1. UNCHANGED <<status, user, host, clones, task, removal, failed, crowd, max, highest>>
  BY DEF Reject, GiveBackFirst, InsertFails, DeleteServer, CountServer, ReadServer, OnlyCalls,
         serverVars, rowVars, history
<1>2. PICK k : call' = [call EXCEPT ![c] = k] /\ k.dbs = <<>>
  <2>1. CASE Reject(c) \/ GiveBackFirst(c) \/ InsertFails(c) \/ DeleteServer(c)
    BY <2>1, IdleFacts DEF Reject, GiveBackFirst, InsertFails, DeleteServer, Step
  <2>2. CASE \E s \in Servers : CountServer(c, s) \/ ReadServer(c, s)
    <3>1. PICK s \in Servers : CountServer(c, s) \/ ReadServer(c, s)
      BY <2>2
    <3> DEFINE r == [Idle EXCEPT !.at = "update", !.host = s, !.open = (s \in open), !.max = max[s]]
               n == [Idle EXCEPT !.at = "counted", !.host = s]
    <3>2. r.dbs = <<>> /\ n.dbs = <<>>
      BY DEF Idle
    <3>3. call' = [call EXCEPT ![c] = r] \/ call' = [call EXCEPT ![c] = n]
      BY <3>1 DEF CountServer, ReadServer, Step
    <3> HIDE DEF r, n
    <3>4. QED
      BY <3>2, <3>3
  <2>3. QED
    BY <2>1, <2>2
<1>3. QED
  BY <1>1, <1>2, ServersSame, RequestTame

LEMMA WriteServerTame ==
  ASSUME LimitsInv, AdmissionInv', NEW c \in Calls, WriteServer(c)
  PROVE  LimitsInv'
<1>1. UNCHANGED <<status, user, host, clones, task, removal, failed, crowd>>
      /\ call' = [call EXCEPT ![c] = Idle]
  BY DEF WriteServer, rowVars, history, Step
<1>2. call[c] \in CallType /\ CallShape(call[c])
  BY InvParts DEF LimitsInv, CallsOK
<1>3. call[c].host \in Servers /\ call[c].max \in Nat
  BY <1>2, AdmissionAssumption DEF WriteServer, CallShape
<1>4. \A s \in Servers : max[s] <= highest[s]
  BY DEF LimitsInv, Marks
<1>5. ASSUME NEW s \in Servers, NEW m \in Nat, max' = [max EXCEPT ![s] = m],
             highest' = [highest EXCEPT ![s] = IF m > @ THEN m ELSE @]
      PROVE  \A r \in Servers : highest'[r] >= highest[r] /\ max'[r] <= highest'[r]
  <2>1. SUFFICES ASSUME NEW r \in Servers
                 PROVE  highest'[r] >= highest[r] /\ max'[r] <= highest'[r]
    OBVIOUS
  <2>2. max[r] \in Nat /\ highest[r] \in Nat
    BY LimitTypes
  <2>3. /\ max'[r] = IF r = s THEN m ELSE max[r]
        /\ highest'[r] = IF r = s /\ m > highest[r] THEN m ELSE highest[r]
    BY <1>5, LimitTypes
  <2>4. QED
    BY <1>4, <2>2, <2>3
<1>6. \A m \in Capacities : m \in Nat
  BY AdmissionAssumption
<1>7. \A r \in Servers : highest'[r] >= highest[r] /\ max'[r] <= highest'[r]
  <2>1. CASE UNCHANGED <<max, highest>>
    BY <2>1, ServersSame
  <2>2. CASE \E m \in Nat : /\ max' = [max EXCEPT ![call[c].host] = m]
                            /\ highest' = [highest EXCEPT ![call[c].host] = IF m > @ THEN m ELSE @]
    BY <1>3, <1>5, <2>2
  <2>3. QED
    BY <1>3, <1>6, <2>1, <2>2 DEF WriteServer
<1>8. QED
  BY <1>1, <1>7, IdleFacts, RequestTame

LEMMA AllocateNextTame ==
  ASSUME LimitsInv, AdmissionInv', NEW c \in Calls, AllocateNext(c)
  PROVE  LimitsInv'
<1>1. /\ call[c].at = "allocate"
      /\ UNCHANGED <<status, user, host, clones, task, removal, failed, crowd, max, highest>>
  BY DEF AllocateNext, serverVars, history
<1>2. call[c] \in CallType
  BY InvParts DEF LimitsInv, CallsOK
<1> DEFINE k1 == [call[c] EXCEPT !.got = @ + 1,
                    !.at = IF call[c].got + 1 = Len(call[c].dbs) THEN "insert" ELSE @]
           k2 == [call[c] EXCEPT !.at = "giveback"]
<1>3. /\ k1.dbs = call[c].dbs /\ k1.user = call[c].user /\ k1.host = call[c].host
      /\ k2.dbs = call[c].dbs /\ k2.user = call[c].user /\ k2.host = call[c].host
  BY <1>2 DEF CallType
<1>4. \/ call' = [call EXCEPT ![c] = k1]
      \/ call' = [call EXCEPT ![c] = k2]
      \/ call' = [call EXCEPT ![c] = Idle]
  BY DEF AllocateNext, Step
<1>5. call[c].at \in Creating
  BY <1>1 DEF Creating
<1> HIDE DEF k1, k2
<1>6. QED
  BY <1>1, <1>3, <1>4, <1>5, IdleFacts, ServersSame, RequestTame

(* Nothing of requests, tasks, rows or limits changes.                     *)
LEMMA NothingTame ==
  ASSUME LimitsInv, AdmissionInv',
         UNCHANGED <<status, user, host, clones, call, task, removal, failed, crowd, max, highest>>
  PROVE  LimitsInv'
<1>1. \A e \in Calls : CallTame(e)
  BY DEF CallTame
<1>2. RowsTame /\ Growing
  BY LimitTypes DEF RowsTame, Growing, KeptThen, HasRowThen, Kept, HasRow
<1>3. Marks'
  BY DEF LimitsInv, Marks
<1>4. QED
  BY <1>1, <1>2, <1>3, TameStep
-----------------------------------------------------------------------------
(* Tasks, actions, removals and restarts                                   *)

LEMMA TaskTame ==
  ASSUME LimitsInv, AdmissionInv', NEW t \in Dbs, NEW x, task' = [task EXCEPT ![t] = x],
         UNCHANGED <<user, host, clones, call, removal, crowd, max, highest>>, failed \subseteq failed',
         \A y \in Dbs : status'[y] \in {status[y], "running", "error"},
         \A y \in Dbs : status'[y] = status[y] \/ HasRow(y),
         \A y \in Dbs : status'[y] = "error" => status[y] = "error" \/ y \in failed',
         x.at \in {"mark", "release"} => Members(x.dbs) \subseteq failed'
  PROVE  LimitsInv'
<1>1. TasksOK
  BY InvParts DEF LimitsInv
<1>2. task'[t] = x /\ \A u \in Dbs \ {t} : task'[u] = task[u]
  BY <1>1 DEF TasksOK
<1>3. RowsTame
  BY DEF RowsTame, KeptThen, HasRowThen, Kept, HasRow
<1>4. Growing /\ \A e \in Calls : CallTame(e)
  BY LimitTypes DEF Growing, CallTame
<1>5. Marks'
  <2>1. /\ \A d \in Dbs : status[d] = "deleting" => removal[d] # "none"
        /\ \A d \in Dbs : status[d] = "error" => d \in failed
        /\ \A u \in Dbs : task[u].at \in {"mark", "release"} => Members(task[u].dbs) \subseteq failed
        /\ \A s \in Servers : max[s] <= highest[s]
    BY DEF LimitsInv, Marks
  <2>2. \A d \in Dbs : status'[d] = "deleting" => removal'[d] # "none"
    BY <2>1
  <2>3. \A d \in Dbs : status'[d] = "error" => d \in failed'
    BY <2>1
  <2>4. \A u \in Dbs : task'[u].at \in {"mark", "release"} => Members(task'[u].dbs) \subseteq failed'
    BY <1>2, <2>1
  <2>5. QED
    BY <2>1, <2>2, <2>3, <2>4 DEF Marks
<1>6. QED
  BY <1>3, <1>4, <1>5, TameStep

LEMMA MakesAndSavesTame ==
  ASSUME LimitsInv, AdmissionInv', NEW t \in Dbs,
         MakeContainer(t) \/ MakeCloneElsewhere(t) \/ SaveProvisioned(t) \/ SaveCloneFails(t)
  PROVE  LimitsInv'
<1>1. AdmissionInv /\ RowTypes
  BY InvParts DEF LimitsInv
<1>2. PICK last \in {"save", "ready"} : task' = Advance(t, last)
  BY DEF MakeContainer, MakeCloneElsewhere, SaveProvisioned, SaveCloneFails
<1>3. task[t].at \in {"make", "save"}
  BY DEF MakeContainer, MakeCloneElsewhere, SaveProvisioned, SaveCloneFails
<1>4. PICK x \in TaskType :
        /\ task' = [task EXCEPT ![t] = x]
        /\ x.at = last \/ x.at = task[t].at
  BY <1>1, <1>2, <1>3, AdvanceFacts
<1>5. x.at \notin {"mark", "release"}
  BY <1>3, <1>4
<1>6. UNCHANGED <<user, host, clones, call, removal, crowd, max, highest, failed>>
  BY DEF MakeContainer, MakeCloneElsewhere, SaveProvisioned, SaveCloneFails, serverVars, rowVars,
         history
<1>7. \A y \in Dbs : status'[y] = status[y] \/ (HasRow(y) /\ status'[y] = "running")
  <2>1. CASE SaveProvisioned(t)
    <3> DEFINE d == Current(t)
    <3>1. status' = IF HasRow(d) THEN [status EXCEPT ![d] = "running"] ELSE status
      BY <2>1 DEF SaveProvisioned
    <3> HIDE DEF d
    <3>2. QED
      BY <1>1, <3>1 DEF RowTypes
  <2>2. CASE ~SaveProvisioned(t)
    <3>1. UNCHANGED status
      BY <2>2 DEF MakeContainer, MakeCloneElsewhere, SaveCloneFails, rowVars
    <3>2. QED
      BY <3>1
  <2>3. QED
    BY <2>1, <2>2
<1>8. QED
  BY <1>4, <1>5, <1>6, <1>7, TaskTame

LEMMA FailsTame ==
  ASSUME LimitsInv, AdmissionInv', NEW t \in Dbs, ProvisioningFails(t) \/ MarkSecond(t)
  PROVE  LimitsInv'
<1>1. AdmissionInv /\ task \in [Dbs -> TaskType] /\ Marks
  BY InvParts DEF LimitsInv, TasksOK
<1>2. Working(t)
  BY StepNames DEF ProvisioningFails, MarkSecond, Working
<1>3. PICK d \in Members(task[t].dbs) :
        MarkRow(d)
  <2>1. CASE ProvisioningFails(t)
    <3>1. MarkRow(task[t].dbs[1])
      BY <2>1 DEF ProvisioningFails
    <3>2. 1 \in 1..Len(task[t].dbs)
      BY <1>1, <1>2, TaskFacts
    <3>3. QED
      BY <1>1, <1>2, <3>1, <3>2, TaskFacts
  <2>2. CASE MarkSecond(t)
    <3>1. MarkRow(task[t].dbs[2]) /\ task[t].at = "mark"
      BY <2>2 DEF MarkSecond
    <3>2. 2 \in 1..Len(task[t].dbs)
      BY <1>1, <1>2, <3>1, TaskFacts
    <3>3. QED
      BY <1>1, <1>2, <3>1, <3>2, TaskFacts
  <2>3. QED
    BY <2>1, <2>2
<1>4. d \in Dbs
  BY <1>1, <1>2, <1>3, TaskFacts
<1>5. /\ \A y \in Dbs \ {d} : status'[y] = status[y]
      /\ status'[d] = status[d] \/ (HasRow(d) /\ status'[d] = "error")
  BY <1>1, <1>3, <1>4, MarkFacts
<1>6. Members(task[t].dbs) \subseteq failed' /\ failed \subseteq failed'
  BY <1>1 DEF ProvisioningFails, MarkSecond, Marks
<1>7. UNCHANGED <<user, host, clones, call, removal, crowd, max, highest>>
  BY DEF ProvisioningFails, MarkSecond, serverVars
<1> DEFINE a == IF ProvisioningFails(t) THEN AfterMark(t) ELSE "release"
           x == [task[t] EXCEPT !.at = a]
<1>8. task' = [task EXCEPT ![t].at = a]
  BY DEF ProvisioningFails, MarkSecond
<1>9. x.dbs = task[t].dbs
  BY <1>1 DEF TaskType
<1>10. task' = [task EXCEPT ![t] = x]
  BY <1>1, <1>8
<1> HIDE DEF a, x
<1>11. QED
  BY <1>3, <1>4, <1>5, <1>6, <1>7, <1>9, <1>10, TaskTame

LEMMA ReleaseTame ==
  ASSUME LimitsInv, AdmissionInv', NEW t \in Dbs, ReleaseAfterError(t)
  PROVE  LimitsInv'
<1> DEFINE x == [task[t] EXCEPT !.at = "failed", !.done = 0]
<1>1. task \in [Dbs -> TaskType]
  BY InvParts DEF LimitsInv, TasksOK
<1>2. /\ task' = [task EXCEPT ![t].at = "failed", ![t].done = 0]
      /\ UNCHANGED <<status, user, host, clones, call, removal, crowd, max, highest, failed>>
  BY DEF ReleaseAfterError, serverVars, rowVars, history
<1>3. x.at = "failed"
  BY <1>1 DEF TaskType
<1>4. task' = [task EXCEPT ![t] = x]
  BY <1>1, <1>2
<1> HIDE DEF x
<1>5. QED
  BY <1>2, <1>3, <1>4, TaskTame

LEMMA RowTame ==
  ASSUME LimitsInv, AdmissionInv', NEW d \in Dbs,
         UNCHANGED <<user, host, clones, call, task, failed, crowd, max, highest>>,
         \A y \in Dbs \ {d} : status'[y] = status[y] /\ removal'[y] = removal[y],
         status'[d] = status[d] \/ status'[d] \in {"running", "stopped", "deleting", "gone"},
         status'[d] = "deleting" => removal'[d] # "none",
         HasRowThen(d) => HasRow(d),
         removal'[d] = "none" => removal[d] = "none"
  PROVE  LimitsInv'
<1>1. RowsTame
  BY DEF RowsTame, KeptThen, HasRowThen, Kept, HasRow
<1>2. Growing /\ \A e \in Calls : CallTame(e)
  BY LimitTypes DEF Growing, CallTame
<1>3. Marks'
  BY DEF LimitsInv, Marks
<1>4. QED
  BY <1>1, <1>2, <1>3, TameStep

LEMMA HandledTame ==
  ASSUME LimitsInv, AdmissionInv', NEW d \in Dbs,
         Remove(d) \/ \E s \in {"running", "stopped"} : Act(d, s)
  PROVE  LimitsInv'
<1>1. RowTypes /\ RemovedRows /\ Marks
  BY InvParts DEF LimitsInv, Rows
<1>2. UNCHANGED <<user, host, clones, call, task, failed, crowd, max, highest>>
  BY DEF Remove, MarkDeleting, CleanUp, Act, serverVars, history
<1>3. CASE \E s \in {"running", "stopped"} : Act(d, s)
  <2>1. PICK s \in {"running", "stopped"} : Act(d, s)
    BY <1>3
  <2>2. HasRow(d) /\ status' = [status EXCEPT ![d] = s] /\ UNCHANGED removal
    BY <2>1 DEF Act
  <2>3. status'[d] = s /\ \A y \in Dbs \ {d} : status'[y] = status[y]
    BY <1>1, <2>2 DEF RowTypes
  <2>4. QED
    BY <1>2, <2>2, <2>3, RowTame
<1>4. CASE MarkDeleting(d)
  <2>1. /\ HasRow(d) /\ status' = [status EXCEPT ![d] = "deleting"]
        /\ removal' = [removal EXCEPT ![d] = IF d \in known THEN "known" ELSE "unknown"]
    BY <1>4 DEF MarkDeleting
  <2>2. /\ status'[d] = "deleting" /\ removal'[d] # "none"
        /\ \A y \in Dbs \ {d} : status'[y] = status[y] /\ removal'[y] = removal[y]
    BY <1>1, <2>1 DEF RowTypes
  <2>3. QED
    BY <1>2, <2>1, <2>2, RowTame
<1>5. CASE CleanUp(d)
  <2>1. /\ status' = [status EXCEPT ![d] = "gone"] \/ UNCHANGED status
        /\ removal' = [removal EXCEPT ![d] = "done"]
    BY <1>5 DEF CleanUp
  <2>2. /\ status'[d] \in {status[d], "gone"} /\ removal'[d] # "none"
        /\ \A y \in Dbs \ {d} : status'[y] = status[y] /\ removal'[y] = removal[y]
    BY <1>1, <2>1 DEF RowTypes
  <2>3. HasRowThen(d) => HasRow(d)
    BY <2>2 DEF HasRowThen, HasRow
  <2>4. QED
    BY <1>2, <2>2, <2>3, RowTame
<1>6. QED
  BY <1>3, <1>4, <1>5 DEF Remove

LEMMA RestartTame ==
  ASSUME LimitsInv, AdmissionInv', Restart
  PROVE  LimitsInv'
<1>1. /\ call' = [c \in Calls |-> Idle]
      /\ task' = [t \in Dbs |-> IF Working(t) THEN [task[t] EXCEPT !.at = "lost"] ELSE task[t]]
      /\ removal' = [d \in Dbs |-> IF removal[d] \in Removing THEN "lost" ELSE removal[d]]
      /\ UNCHANGED <<status, user, host, clones, failed, crowd, max, highest>>
  BY DEF Restart, serverVars, rowVars
<1>2. task \in [Dbs -> TaskType]
  BY InvParts DEF LimitsInv, TasksOK
<1>3. \A e \in Calls : CallTame(e)
  BY <1>1, IdleFacts DEF CallTame
<1>4. \A d \in Dbs : removal'[d] = "none" <=> removal[d] = "none"
  BY <1>1, StepNames
<1>5. RowsTame /\ Growing
  BY <1>1, <1>4, LimitTypes DEF RowsTame, Growing, KeptThen, HasRowThen, Kept, HasRow
<1>6. \A t \in Dbs : task'[t].at \notin {"mark", "release"}
  BY <1>1, <1>2, StepNames DEF Working, TaskType
<1>7. Marks'
  BY <1>1, <1>4, <1>6 DEF LimitsInv, Marks
<1>8. QED
  BY <1>3, <1>5, <1>7, TameStep
-----------------------------------------------------------------------------
(* What a request was going to add becomes a row.                          *)

LEMMA InsertNextLimits ==
  ASSUME LimitsInv, AdmissionInv', NEW c \in Calls, InsertNext(c)
  PROVE  LimitsInv'
<1> DEFINE ids == call[c].dbs
           n == call[c].made + 1
           d == ids[n]
           last == n = Len(ids)
           k == [call[c] EXCEPT !.made = @ + 1]
<1>1. AdmissionInv /\ RowTypes /\ CallsOK /\ TasksOK /\ RowsOfCalls /\ Marks
  BY InvParts DEF LimitsInv, Rows
<1>2. /\ call[c].at = "insert"
      /\ status' = [status EXCEPT ![d] = "provisioning"]
      /\ user' = [user EXCEPT ![d] = call[c].user]
      /\ host' = [host EXCEPT ![d] = call[c].host]
      /\ call' = [call EXCEPT ![c] = IF last THEN Idle ELSE k]
      /\ task' = IF last THEN [task EXCEPT ![ids[1]] = [dbs |-> ids, at |-> "make", done |-> 0]]
                 ELSE task
      /\ UNCHANGED <<max, highest, clones, removal, crowd, failed>>
  BY DEF InsertNext, Step, serverVars, history
<1>3. n \in 1..Len(ids) /\ d \in Members(ids) /\ d \in Dbs /\ ids[1] \in Dbs
  <2>1. /\ call[c].made < Len(ids) /\ Len(ids) \in {1, 2} /\ call[c].made \in 0..2
        /\ \A i \in 1..Len(ids) : ids[i] \in Members(ids) /\ ids[i] \in Dbs
    BY <1>1, <1>2, RequestFacts
  <2>2. \A m \in 0..2, l \in {1, 2} : m < l => m + 1 \in 1..l /\ 1 \in 1..l
    OBVIOUS
  <2>3. n \in 1..Len(ids) /\ 1 \in 1..Len(ids)
    BY <2>1, <2>2
  <2>4. QED
    BY <2>1, <2>3
<1>4. status[d] = "absent"
  <2>1. n > call[c].made
    BY <1>1 DEF CallsOK, CallType
  <2>2. QED
    BY <1>1, <1>3, <2>1 DEF RowsOfCalls
<1>5. /\ k.dbs = ids /\ k.user = call[c].user /\ k.host = call[c].host
  BY <1>1 DEF CallsOK, CallType
<1> HIDE DEF k, last, n, d
<1>6. /\ \A e \in Calls \ {c} : call'[e] = call[e]
      /\ call'[c] = Idle \/ call'[c] = k
  BY <1>1, <1>2 DEF CallsOK
<1>7. call[c].at \in Creating
  BY <1>2 DEF Creating
<1>8. /\ \A e \in Calls : CallTame(e)
      /\ \A e \in Calls : \A y : y \in Members(call'[e].dbs) => call'[e].dbs # <<>>
  BY <1>5, <1>6, <1>7, IdleFacts, EmptyList DEF CallTame
<1>9. /\ \A y \in Dbs \ {d} : status'[y] = status[y] /\ user'[y] = user[y] /\ host'[y] = host[y]
      /\ status'[d] = "provisioning" /\ user'[d] = call[c].user /\ host'[d] = call[c].host
  BY <1>1, <1>2, <1>3 DEF RowTypes
<1>10. Growing
  BY <1>2, LimitTypes DEF Growing
<1>11. Marks'
  <2>1. \A u \in Dbs : \/ task'[u] = task[u]
                       \/ task'[u].at = "make"
    BY <1>1, <1>2, <1>3 DEF TasksOK
  <2>2. QED
    BY <1>1, <1>2, <1>4, <1>9, <2>1 DEF Marks
<1>12. \A u \in Users : Owned(u)' \in SUBSET Owned(u)
  <2>1. SUFFICES ASSUME NEW u \in Users, NEW y \in Dbs,
                        \/ KeptThen(y) /\ user'[y] = u
                        \/ status'[y] = "absent" /\ \E e \in Calls :
                              call'[e].user = u /\ y \in Members(call'[e].dbs)
                 PROVE  (Kept(y) /\ user[y] = u) \/ Awaited(y, u)
    BY DEF Owned, Awaited, KeptThen, HasRowThen, Kept, HasRow
  <2>2. CASE y = d
    BY <1>3, <1>4, <1>9, <2>1, <2>2 DEF Awaited
  <2>3. CASE y # d
    BY <1>2, <1>8, <1>9, <2>1, <2>3 DEF Awaited, CallTame, KeptThen, HasRowThen, Kept, HasRow
  <2>4. QED
    BY <2>2, <2>3
<1>13. \A s \in Servers : Placed(s)' \in SUBSET Placed(s)
  <2>1. SUFFICES ASSUME NEW s \in Servers, NEW y \in Dbs \ clones,
                        \/ KeptThen(y) /\ y \notin failed /\ host'[y] = s
                        \/ status'[y] = "absent" /\ \E e \in Calls :
                              call'[e].at \in Creating /\ call'[e].host = s /\ y \in Members(call'[e].dbs)
                 PROVE  (Kept(y) /\ y \notin failed /\ host[y] = s) \/ Expected(y, s)
    BY <1>2 DEF Placed, Expected, KeptThen, HasRowThen, Kept, HasRow
  <2>2. CASE y = d
    BY <1>3, <1>4, <1>7, <1>9, <2>1, <2>2 DEF Expected
  <2>3. CASE y # d
    BY <1>2, <1>8, <1>9, <2>1, <2>3 DEF Expected, CallTame, KeptThen, HasRowThen, Kept, HasRow
  <2>4. QED
    BY <2>2, <2>3
<1>14. QED
  BY <1>10, <1>11, <1>12, <1>13, OwnedShrinks, PlacedShrinks DEF LimitsInv

-----------------------------------------------------------------------------
(* The counts *)

LEMMA RaiseFacts ==
  ASSUME LimitsInv, NEW x, NEW m \in Nat, Raise(x, m)
  PROVE  /\ \A y \in Users \cup Servers : crowd'[y] >= crowd[y]
         /\ x \in Users \cup Servers => crowd'[x] >= m
BY LimitTypes DEF Raise

(* The rows the code counts are at least those a user keeps.               *)
LEMMA KeptAreCounted ==
  ASSUME LimitsInv, NEW d \in Dbs, Kept(d)
  PROVE  /\ d \in RowsOf(user[d])
         /\ d \notin failed => d \in RowsOn(host[d])
<1>1. status[d] # "deleting" /\ (d \notin failed => status[d] # "error")
  BY DEF LimitsInv, Marks, Kept
<1>2. status[d] \in {"absent", "provisioning", "running", "stopped", "error", "deleting", "gone"}
  BY InvParts DEF LimitsInv, RowTypes
<1>3. QED
  BY <1>1, <1>2 DEF RowsOf, RowsOn, Kept, HasRow

(* A request of one user counts and takes ids that are fresh.              *)
LEMMA CountLimits ==
  ASSUME LimitsInv, AdmissionInv', NEW c \in Calls, NEW u, NEW dbs \in DbLists, NEW k,
         call[c] = Idle, call' = [call EXCEPT ![c] = k], k.dbs = dbs, k.user = u,
         \A d \in Members(dbs) : Fresh(d),
         Cardinality(RowsOf(u)) + Len(dbs) <= MaxDatabases, Raise(u, Cardinality(AheadOf(c, u))),
         UNCHANGED <<status, user, host, task, removal, failed, max, highest>>,
         clones \subseteq clones' \cup Members(dbs),
         k.at \notin Creating \/ Members(dbs) \subseteq clones'
  PROVE  LimitsInv'
<1>1. CallsOK /\ Marks
  BY InvParts DEF LimitsInv
<1>2. call'[c] = k /\ (\A e \in Calls \ {c} : call'[e] = call[e]) /\ Members(call[c].dbs) = {}
  BY <1>1, IdleFacts, EmptyList DEF CallsOK
<1>3. /\ \A y \in Users \cup Servers : crowd'[y] >= crowd[y]
      /\ u \in Users => crowd'[u] >= Cardinality(AheadOf(c, u))
  BY AheadIsNat, RaiseFacts
<1>4. Marks'
  BY <1>1 DEF Marks
<1>5. ASSUME NEW w \in Users
      PROVE  Cardinality(Owned(w)') <= MaxDatabases + crowd'[w]
  <2>0. \A y \in Dbs : y \in Owned(w)' <=>
           \/ Kept(y) /\ user[y] = w
           \/ status[y] = "absent" /\ \E e \in Calls : call'[e].user = w /\ y \in Members(call'[e].dbs)
    BY DEF Owned, Awaited, Kept, HasRow
  <2>1. Owned(w)' \in SUBSET Dbs /\ Owned(w) \in SUBSET Dbs
    BY DEF Owned
  <2>2. CASE w = u
    <3>1. RowsOf(u) \in SUBSET Dbs /\ AheadOf(c, u) \in SUBSET Dbs
      BY DEF RowsOf, AheadOf
    <3>2. Members(dbs) \in SUBSET Dbs /\ Cardinality(Members(dbs)) = Len(dbs)
      BY MembersCount
    <3>3. \A y \in Owned(w)' : y \in RowsOf(u) \cup AheadOf(c, u) \cup Members(dbs)
      <4>1. SUFFICES ASSUME NEW y \in Owned(w)', y \notin Members(dbs)
                     PROVE  y \in RowsOf(u) \cup AheadOf(c, u)
        OBVIOUS
      <4>2. y \in Dbs
        BY <2>1, <4>1
      <4>3. CASE Kept(y) /\ user[y] = w
        BY <2>2, <4>2, <4>3, KeptAreCounted
      <4>4. CASE status[y] = "absent" /\ \E e \in Calls : call'[e].user = w /\ y \in Members(call'[e].dbs)
        BY <1>2, <2>2, <4>1, <4>2, <4>4 DEF AheadOf
      <4>5. QED
        BY <2>0, <4>1, <4>2, <4>3, <4>4
    <3>4. Cardinality(Owned(w)') <=
            Cardinality(RowsOf(u)) + Cardinality(AheadOf(c, u)) + Cardinality(Members(dbs))
      BY <3>1, <3>2, <3>3, SumOfThree
    <3>5. /\ Cardinality(RowsOf(u)) \in Nat /\ Cardinality(AheadOf(c, u)) \in Nat
          /\ Cardinality(Members(dbs)) \in Nat /\ Cardinality(Owned(w)') \in Nat
      BY <2>1, <3>1, <3>2, SubsetOfDbs
    <3>6. crowd'[u] \in Nat /\ crowd'[u] >= Cardinality(AheadOf(c, u))
      BY <1>3, <2>2, LimitTypesNext
    <3>7. QED
      BY <2>2, <3>2, <3>4, <3>5, <3>6, AdmissionAssumption
  <2>3. CASE w # u
    <3>1. Owned(w)' \in SUBSET Owned(w)
      BY <1>2, <2>0, <2>1, <2>3 DEF Owned, Awaited
    <3>2. Cardinality(Owned(w)') <= Cardinality(Owned(w)) /\ Cardinality(Owned(w)') \in Nat
          /\ Cardinality(Owned(w)) \in Nat
      BY <2>1, <3>1, SubsetOfDbs
    <3>3. Cardinality(Owned(w)) <= MaxDatabases + crowd[w] /\ crowd'[w] >= crowd[w]
      BY <1>3 DEF LimitsInv
    <3>4. QED
      BY <3>2, <3>3, LimitTypesNext, AdmissionAssumption
  <2>4. QED
    BY <2>2, <2>3
<1>6. ASSUME NEW s \in Servers
      PROVE  Cardinality(Placed(s)') <= highest'[s] + crowd'[s]
  <2>0. ASSUME NEW y \in Placed(s)'
        PROVE  y \in Placed(s)
    <3>1. /\ y \in Dbs \ clones'
          /\ \/ Kept(y) /\ y \notin failed /\ host[y] = s
             \/ /\ status[y] = "absent"
                /\ \E e \in Calls : /\ call'[e].at \in Creating /\ call'[e].host = s
                                     /\ y \in Members(call'[e].dbs)
      BY <2>0 DEF Placed, Expected, Kept, HasRow
    <3>2. \A e \in Calls \ {c} : y \in Members(dbs) => y \notin Members(call[e].dbs)
      BY DEF Fresh
    <3>3. y \in Members(dbs) => status[y] = "absent"
      BY DEF Fresh
    <3>4. ASSUME NEW e \in Calls, call'[e].at \in Creating, y \in Members(call'[e].dbs)
          PROVE  e # c /\ call'[e] = call[e]
      BY <1>2, <3>1, <3>4
    <3>5. y \notin Members(dbs)
      BY <3>1, <3>2, <3>3, <3>4 DEF Kept, HasRow
    <3>6. y \notin clones
      BY <3>1, <3>5
    <3>7. QED
      BY <3>1, <3>4, <3>6 DEF Placed, Expected
  <2>1. Placed(s)' \in SUBSET Placed(s) /\ Placed(s) \in SUBSET Dbs /\ Placed(s)' \in SUBSET Dbs
    BY <2>0 DEF Placed
  <2>2. Cardinality(Placed(s)') <= Cardinality(Placed(s)) /\ Cardinality(Placed(s)') \in Nat
        /\ Cardinality(Placed(s)) \in Nat
    BY <2>1, SubsetOfDbs
  <2>3. Cardinality(Placed(s)) <= highest[s] + crowd[s] /\ crowd'[s] >= crowd[s]
    BY <1>3 DEF LimitsInv
  <2>4. QED
    BY <2>2, <2>3, LimitTypesNext
<1>7. QED
  BY <1>4, <1>5, <1>6 DEF LimitsInv

LEMMA CountRowsLimits ==
  ASSUME LimitsInv, AdmissionInv', NEW c \in Calls, NEW u \in Users, NEW dbs \in DbLists,
         CountRows(c, u, dbs)
  PROVE  LimitsInv'
<1> DEFINE k == [Idle EXCEPT !.at = "admitted", !.user = u, !.dbs = dbs]
<1>1. k.at = "admitted" /\ k.user = u /\ k.dbs = dbs
  BY DEF Idle
<1>2. /\ call[c] = Idle /\ call' = [call EXCEPT ![c] = k] /\ Raise(u, Cardinality(AheadOf(c, u)))
      /\ Cardinality(RowsOf(u)) + Len(dbs) <= MaxDatabases /\ clones' = clones \ Members(dbs)
      /\ UNCHANGED <<status, user, host, task, removal, failed, max, highest>>
  BY DEF CountRows, Step, Admitted, serverVars
<1>3. \A d \in Members(dbs) : Fresh(d)
  BY DEF CountRows, Members
<1>4. k.at \notin Creating
  BY <1>1 DEF Creating
<1> HIDE DEF k
<1>5. QED
  BY <1>1, <1>2, <1>3, <1>4, CountLimits

LEMMA CountCloneLimits ==
  ASSUME LimitsInv, AdmissionInv', NEW c \in Calls, NEW src \in Dbs, NEW d \in Dbs,
         CountClone(c, src, d)
  PROVE  LimitsInv'
<1> DEFINE k == [Idle EXCEPT !.at = "allocate", !.user = user[src], !.dbs = <<d>>,
                             !.host = host[src]]
<1>1. k.user = user[src] /\ k.dbs = <<d>>
  BY DEF Idle
<1>2. /\ call[c] = Idle /\ call' = [call EXCEPT ![c] = k] /\ Fresh(d)
      /\ Raise(user[src], Cardinality(AheadOf(c, user[src])))
      /\ Cardinality(RowsOf(user[src])) < MaxDatabases /\ clones' = clones \cup {d}
      /\ UNCHANGED <<status, user, host, task, removal, failed, max, highest>>
  BY DEF CountClone, Step, Admitted, serverVars
<1>3. <<d>> \in DbLists /\ Len(<<d>>) = 1
  BY DEF DbLists
<1>4. Members(<<d>>) = {d}
  BY <1>3, ListFacts
<1>5. Cardinality(RowsOf(user[src])) + Len(<<d>>) <= MaxDatabases
  <2>1. RowsOf(user[src]) \in SUBSET Dbs
    BY DEF RowsOf
  <2>2. Cardinality(RowsOf(user[src])) \in Nat
    BY <2>1, SubsetOfDbs
  <2>3. QED
    BY <1>2, <1>3, <2>2, AdmissionAssumption
<1> HIDE DEF k
<1>6. QED
  BY <1>1, <1>2, <1>3, <1>4, <1>5, CountLimits

(* A server is chosen: it has room for one at least, and what a bundle     *)
(* exceeds that by was added to the crowd.                                 *)
LEMMA ChooseServerLimits ==
  ASSUME LimitsInv, AdmissionInv', NEW c \in Calls, ChooseServer(c)
  PROVE  LimitsInv'
<1> DEFINE dbs == call[c].dbs
<1>1. AdmissionInv /\ CallsOK /\ Marks /\ call[c].at = "admitted"
  BY InvParts DEF LimitsInv, ChooseServer
<1>2. dbs \in DbLists /\ Len(dbs) \in {1, 2} /\ call[c] \in CallType
  BY <1>1, ListFacts DEF CallsOK, CallShape
<1>3. UNCHANGED <<status, user, host, clones, task, removal, failed, max, highest>>
  BY DEF ChooseServer, Admitted, serverVars
<1>4. PICK r \in Hosts :
        /\ \/ /\ r \in Servers /\ HasRoom(r, Len(dbs))
              /\ Raise(r, Cardinality(AheadOf(c, r)))
           \/ /\ r \in Best
              /\ Raise(r, Cardinality(AheadOf(c, r)) + Len(dbs) - 1)
           \/ r = Local /\ UNCHANGED crowd
        /\ Step(c, [call[c] EXCEPT !.at = "allocate", !.host = r])
  BY DEF ChooseServer
<1> DEFINE k == [call[c] EXCEPT !.at = "allocate", !.host = r]
<1>5. k.dbs = dbs /\ k.user = call[c].user /\ k.host = r
  BY <1>2 DEF CallType
<1>6. call' = [call EXCEPT ![c] = k]
  BY <1>4 DEF Step
<1> HIDE DEF k
<1>7. call'[c] = k /\ \A e \in Calls \ {c} : call'[e] = call[e]
  BY <1>1, <1>6 DEF CallsOK
<1>8. AheadOf(c, r) \in SUBSET Dbs /\ RowsOn(r) \in SUBSET Dbs
  BY DEF AheadOf, RowsOn
<1>9. Cardinality(AheadOf(c, r)) \in Nat /\ Cardinality(RowsOn(r)) \in Nat
  BY <1>8, SubsetOfDbs
<1>10. Cardinality(AheadOf(c, r)) + Len(dbs) - 1 \in Nat
  <2>1. \A m \in Nat, l \in {1, 2} : m + l - 1 \in Nat
    OBVIOUS
  <2>2. QED
    BY <1>2, <1>9, <2>1
<1>11. \A y \in Users \cup Servers : crowd'[y] >= crowd[y]
  <2>1. CASE UNCHANGED crowd
    BY <2>1, LimitTypes
  <2>2. QED
    BY <1>4, <1>9, <1>10, <2>1, RaiseFacts
<1>12. Growing
  BY <1>3, <1>11, LimitTypes DEF Growing
<1>13. Marks'
  BY <1>1, <1>3 DEF Marks
<1>14. \A w \in Users : Owned(w)' \in SUBSET Owned(w)
  BY <1>3, <1>5, <1>7 DEF Owned, Awaited, Kept, HasRow
(* Whatever the branch, the rows and the crowd leave room.                 *)
<1>15. r \in Servers =>
         Cardinality(RowsOn(r)) + Cardinality(AheadOf(c, r)) + Len(dbs) <= highest[r] + crowd'[r]
  <2>1. SUFFICES ASSUME r \in Servers
                 PROVE  Cardinality(RowsOn(r)) + Cardinality(AheadOf(c, r)) + Len(dbs)
                          <= highest[r] + crowd'[r]
    OBVIOUS
  <2>2. max[r] \in Nat /\ highest[r] \in Nat /\ max[r] <= highest[r] /\ crowd'[r] \in Nat
    BY <1>1, <2>1, LimitTypes, LimitTypesNext DEF Marks
  <2>3. CASE HasRoom(r, Len(dbs)) /\ Raise(r, Cardinality(AheadOf(c, r)))
    <3>1. Cardinality(RowsOn(r)) + Len(dbs) <= max[r]
      BY <2>3 DEF HasRoom
    <3>2. crowd'[r] >= Cardinality(AheadOf(c, r))
      BY <1>9, <2>1, <2>3, RaiseFacts
    <3>3. \A a, b, m, h, w \in Nat, l \in {1, 2} :
            a + l <= m /\ m <= h /\ w >= b =>
              a + b + l <= h + w
      OBVIOUS
    <3>4. QED
      BY <1>2, <1>9, <2>2, <3>1, <3>2, <3>3, Zenon
  <2>4. CASE r \in Best /\ Raise(r, Cardinality(AheadOf(c, r)) + Len(dbs) - 1)
    <3>1. max[r] - Cardinality(RowsOn(r)) > 0
      BY <2>4 DEF Best, Candidates, Free
    <3>2. crowd'[r] >= Cardinality(AheadOf(c, r)) + Len(dbs) - 1
      BY <1>10, <2>1, <2>4, RaiseFacts
    <3>3. \A a, b, m, h, w \in Nat, l \in {1, 2} :
            m - a > 0 /\ m <= h /\ w >= b + l - 1 =>
              a + b + l <= h + w
      OBVIOUS
    <3>4. QED
      BY <1>2, <1>9, <2>2, <3>1, <3>2, <3>3, Zenon
  <2>5. r # Local
    BY <2>1, AdmissionAssumption
  <2>6. QED
    BY <1>4, <2>3, <2>4, <2>5
<1>16. ASSUME NEW s \in Servers
       PROVE  Cardinality(Placed(s)') <= highest'[s] + crowd'[s]
  <2>0. \A y \in Placed(s)' :
           /\ y \in Dbs \ clones
           /\ \/ Kept(y) /\ y \notin failed /\ host[y] = s
              \/ status[y] = "absent" /\ \E e \in Calls :
                    call'[e].at \in Creating /\ call'[e].host = s /\ y \in Members(call'[e].dbs)
    BY <1>3 DEF Placed, Expected, Kept, HasRow
  <2>1. CASE s # r
    <3>1. Placed(s)' \in SUBSET Placed(s)
      BY <1>5, <1>7, <2>0, <2>1 DEF Placed, Expected
    <3>2. QED
      BY <1>12, <3>1, PlacedShrinks
  <2>2. CASE s = r
    <3>1. Members(dbs) \in SUBSET Dbs /\ Cardinality(Members(dbs)) = Len(dbs)
      BY <1>2, MembersCount
    <3>2. ASSUME NEW y \in Placed(s)'
          PROVE  y \in RowsOn(r) \cup AheadOf(c, r) \cup Members(dbs)
      <4>1. CASE Kept(y) /\ y \notin failed /\ host[y] = s
        BY <2>0, <2>2, <3>2, <4>1, KeptAreCounted
      <4>2. CASE status[y] = "absent" /\ \E e \in Calls :
                    call'[e].at \in Creating /\ call'[e].host = s /\ y \in Members(call'[e].dbs)
        BY <1>5, <1>7, <2>0, <2>2, <3>2, <4>2 DEF AheadOf
      <4>3. QED
        BY <2>0, <3>2, <4>1, <4>2
    <3>3. Cardinality(Placed(s)') <=
            Cardinality(RowsOn(r)) + Cardinality(AheadOf(c, r)) + Cardinality(Members(dbs))
      BY <1>8, <3>1, <3>2, SumOfThree
    <3>4. highest'[s] = highest[r]
      BY <1>3, <2>2
    <3>5. Placed(s)' \in SUBSET Dbs
      BY <2>0
    <3>6. Cardinality(Placed(s)') \in Nat
      BY <3>5, SubsetOfDbs
    <3>7. crowd'[s] \in Nat /\ highest[r] \in Nat
      BY <2>2, LimitTypesNext
    <3>8. QED
      BY <1>2, <1>9, <1>15, <2>2, <3>1, <3>3, <3>4, <3>6, <3>7
  <2>3. QED
    BY <2>1, <2>2
<1>17. QED
  BY <1>12, <1>13, <1>14, <1>16, OwnedShrinks DEF LimitsInv

-----------------------------------------------------------------------------
LEMMA InitLimits == Init => LimitsInv
<1> SUFFICES ASSUME Init PROVE LimitsInv
  OBVIOUS
<1>1. AdmissionInv
  BY InitInv
<1>2. HistoryTypes /\ ServerTypes
  BY <1>1, InvParts
<1>3. max \in [Servers -> Nat] /\ highest = max
  BY <1>2, AdmissionAssumption DEF Init, ServerTypes
<1>4. Marks
  BY <1>3, StepNames DEF Init, Marks
<1>5. \A c \in Calls : Members(call[c].dbs) = {}
  BY IdleFacts, EmptyList DEF Init
<1>6. (\A u \in Users : Owned(u) = {}) /\ (\A s \in Servers : Placed(s) = {})
  BY <1>5 DEF Init, Owned, Awaited, Placed, Expected, Kept, HasRow
<1>7. Cardinality({}) = 0
  BY FS_EmptySet
<1>8. /\ \A x \in Users \cup Servers : crowd[x] = 0
      /\ \A s \in Servers : highest[s] \in Nat
  BY <1>3 DEF Init
<1>9. ASSUME NEW u \in Users
      PROVE  Cardinality(Owned(u)) <= MaxDatabases + crowd[u]
  <2>1. Cardinality(Owned(u)) = 0
    BY <1>6, <1>7, Zenon
  <2>2. crowd[u] = 0 /\ MaxDatabases \in Nat
    BY <1>8, AdmissionAssumption
  <2>3. QED
    BY <2>1, <2>2
<1>10. ASSUME NEW s \in Servers
       PROVE  Cardinality(Placed(s)) <= highest[s] + crowd[s]
  <2>1. Cardinality(Placed(s)) = 0
    BY <1>6, <1>7, Zenon
  <2>2. crowd[s] = 0 /\ highest[s] \in Nat
    BY <1>8
  <2>3. QED
    BY <2>1, <2>2
<1>11. QED
  BY <1>1, <1>4, <1>9, <1>10 DEF LimitsInv

LEMMA NextLimits == LimitsInv /\ [Next]_vars => LimitsInv'
<1> SUFFICES ASSUME LimitsInv, [Next]_vars PROVE LimitsInv'
  OBVIOUS
<1>1. AdmissionInv'
  BY NextInv DEF LimitsInv
<1>2. ASSUME NEW c \in Calls, NEW u \in Users, NEW dbs \in DbLists, CountRows(c, u, dbs)
      PROVE  LimitsInv'
  BY <1>1, <1>2, CountRowsLimits
<1>3. ASSUME NEW c \in Calls, NEW src \in Dbs, NEW d \in Dbs, CountClone(c, src, d)
      PROVE  LimitsInv'
  BY <1>1, <1>3, CountCloneLimits
<1>4. ASSUME NEW c \in Calls, NEW s \in Servers, ReadServer(c, s) \/ CountServer(c, s)
      PROVE  LimitsInv'
  BY <1>1, <1>4, EarlyTame
<1>5. ASSUME NEW c \in Calls, Create(c)
      PROVE  LimitsInv'
  BY <1>1, <1>5, ChooseServerLimits, EarlyTame, AllocateNextTame, InsertNextLimits DEF Create
<1>6. ASSUME NEW c \in Calls, WriteServer(c) \/ DeleteServer(c)
      PROVE  LimitsInv'
  BY <1>1, <1>6, WriteServerTame, EarlyTame
<1>7. ASSUME NEW t \in Dbs, Provision(t)
      PROVE  LimitsInv'
  BY <1>1, <1>7, MakesAndSavesTame, FailsTame, ReleaseTame DEF Provision
<1>8. ASSUME NEW d \in Handled, Remove(d) \/ \E s \in {"running", "stopped"} : Act(d, s)
      PROVE  LimitsInv'
  BY <1>1, <1>8, HandledTame, AdmissionAssumption
<1>9. ASSUME NEW s \in Servers, CreateServer(s)
      PROVE  LimitsInv'
  <2>1. UNCHANGED <<status, user, host, clones, call, task, removal, failed, crowd, max, highest>>
    BY <1>9 DEF CreateServer, rowVars, history
  <2>2. QED
    BY <1>1, <2>1, NothingTame
<1>10. CASE UNCHANGED vars
  <2>1. UNCHANGED <<status, user, host, clones, call, task, removal, failed, crowd, max, highest>>
    BY <1>10 DEF vars
  <2>2. QED
    BY <1>1, <2>1, NothingTame
<1>11. QED
  BY <1>1, <1>2, <1>3, <1>4, <1>5, <1>6, <1>7, <1>8, <1>9, <1>10, RestartTame DEF Next

LEMMA LimitsInvariance == Spec => []LimitsInv
<1>1. Init => LimitsInv
  BY InitLimits
<1>2. LimitsInv /\ [Next]_vars => LimitsInv'
  BY NextLimits
<1>3. QED
  BY <1>1, <1>2, PTL DEF Spec

(* max_databases_per_user, counted by create_database, create_bundle and   *)
(* clone_database before they insert rows, is exceeded by no more than     *)
(* what requests that overlapped had still to create.                      *)
THEOREM QuotaHolds == Spec => []QuotaHoldsButForOverlaps
<1>1. LimitsInv => QuotaHoldsButForOverlaps
  <2>1. SUFFICES ASSUME LimitsInv, NEW u \in Users
                 PROVE  Cardinality({d \in Dbs : Kept(d) /\ user[d] = u}) <= MaxDatabases + crowd[u]
    BY DEF QuotaHoldsButForOverlaps
  <2> DEFINE S == {d \in Dbs : Kept(d) /\ user[d] = u}
  <2>2. S \in SUBSET Owned(u) /\ Owned(u) \in SUBSET Dbs /\ S \in SUBSET Dbs
    BY DEF Owned
  <2>3. Cardinality(S) <= Cardinality(Owned(u)) /\ Cardinality(S) \in Nat
        /\ Cardinality(Owned(u)) \in Nat
    BY <2>2, SubsetOfDbs
  <2>4. Cardinality(Owned(u)) <= MaxDatabases + crowd[u] /\ crowd[u] \in Nat
    BY <2>1, LimitTypes DEF LimitsInv
  <2> HIDE DEF S
  <2>5. Cardinality(S) <= MaxDatabases + crowd[u]
    BY <2>3, <2>4, AdmissionAssumption
  <2>6. QED
    BY <2>5 DEF S
<1>2. QED
  BY <1>1, LimitsInvariance, PTL

(* So is the largest max_containers of a server, which the handlers and    *)
(* select_best_client_server compare with the databases it has.            *)
THEOREM CapacityHolds == Spec => []CapacityHoldsButForOverlaps
<1>1. LimitsInv => CapacityHoldsButForOverlaps
  <2>1. SUFFICES ASSUME LimitsInv, NEW s \in Servers
                 PROVE  Cardinality({d \in Dbs \ (failed \cup clones) : Kept(d) /\ host[d] = s})
                          <= highest[s] + crowd[s]
    BY DEF CapacityHoldsButForOverlaps
  <2> DEFINE S == {d \in Dbs \ (failed \cup clones) : Kept(d) /\ host[d] = s}
  <2>2. S \in SUBSET Placed(s) /\ Placed(s) \in SUBSET Dbs /\ S \in SUBSET Dbs
    BY DEF Placed
  <2>3. Cardinality(S) <= Cardinality(Placed(s)) /\ Cardinality(S) \in Nat
        /\ Cardinality(Placed(s)) \in Nat
    BY <2>2, SubsetOfDbs
  <2>4. Cardinality(Placed(s)) <= highest[s] + crowd[s] /\ crowd[s] \in Nat /\ highest[s] \in Nat
    BY <2>1, LimitTypes DEF LimitsInv
  <2> HIDE DEF S
  <2>5. Cardinality(S) <= highest[s] + crowd[s]
    BY <2>3, <2>4
  <2>6. QED
    BY <2>5 DEF S
<1>2. QED
  BY <1>1, LimitsInvariance, PTL
=============================================================================
