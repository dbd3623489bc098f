--------------------------- MODULE AdmissionProofs ---------------------------
(***************************************************************************)
(* Proofs about Admission, for any users, databases, servers, requests,    *)
(* limits, ports, faults and restarts: that ports have holders, that the   *)
(* halves of a bundle end alike, and that what is provisioning is worked   *)
(* on.  AdmissionInv says why: no id is in the hands of two requests or    *)
(* tasks, and how far the one that has it is determines what its row is.   *)
(***************************************************************************)
EXTENDS Admission, FiniteSetTheorems, TLAPS

(* The conjuncts of TypeOK, in groups that actions change together.        *)
ServerTypes ==
  /\ listed \in [Servers -> {"absent", "listed", "gone"}]
  /\ open \subseteq Servers
  /\ max \in [Servers -> Capacities] /\ highest \in [Servers -> Capacities]

RowTypes ==
  /\ status \in [Dbs -> {"absent", "provisioning", "running", "stopped",
                         "error", "deleting", "gone"}]
  /\ user \in [Dbs -> Users \cup {NoUser}]
  /\ host \in [Dbs -> Hosts]
  /\ port \in [Dbs -> Ports \cup {NoPort}]
  /\ known \subseteq Dbs /\ clones \subseteq Dbs /\ ctr \subseteq Dbs
  /\ removal \in [Dbs -> Removing \cup {"none", "done", "lost"}]

HistoryTypes ==
  /\ allocated \subseteq Ports
  /\ faults \in 0..MaxFaults
  /\ crowd \in [Users \cup Servers -> Nat]
  /\ leaked \subseteq Ports /\ failed \subseteq Dbs /\ disturbed \subseteq Dbs

CallsOK == call \in [Calls -> CallType] /\ \A c \in Calls : CallShape(call[c])
TasksOK == task \in [Dbs -> TaskType] /\ \A t \in Dbs : TaskShape(t, task[t])
Rows    == IdsApart /\ RowsOfCalls /\ RowsOfTasks /\ RemovedRows

LEMMA InvParts ==
  AdmissionInv <=> ServerTypes /\ RowTypes /\ HistoryTypes /\ CallsOK /\ TasksOK /\ Rows
                   /\ PortsOfRows /\ PortsHeld /\ ProvisioningIsWorkedOn
BY DEF AdmissionInv, TypeOK, ServerTypes, RowTypes, HistoryTypes, CallsOK, TasksOK, Rows

LEMMA InvPartsNext ==
  ASSUME (ServerTypes /\ RowTypes /\ HistoryTypes /\ CallsOK /\ TasksOK /\ Rows
          /\ PortsOfRows /\ PortsHeld /\ ProvisioningIsWorkedOn)'
  PROVE  AdmissionInv'
BY DEF AdmissionInv, TypeOK, ServerTypes, RowTypes, HistoryTypes, CallsOK, TasksOK, Rows

-----------------------------------------------------------------------------
(* The ids of a request or task: one or two different ones, or none.       *)

LEMMA EmptyList == Len(<<>>) = 0 /\ Members(<<>>) = {}
BY DEF Members

LEMMA ListFacts ==
  ASSUME NEW l \in DbLists
  PROVE  /\ Len(l) \in {1, 2} /\ l[1] \in Dbs /\ l # <<>>
         /\ Len(l) = 1 => Members(l) = {l[1]}
         /\ Len(l) = 2 => l[2] \in Dbs /\ l[1] # l[2] /\ Members(l) = {l[1], l[2]}
<1>1. CASE \E d \in Dbs : l = <<d>>
  <2>1. PICK d \in Dbs : l = <<d>>
    BY <1>1
  <2>2. Len(l) = 1 /\ l[1] = d /\ DOMAIN l = 1..1
    BY <2>1
  <2>3. Members(l) = {l[1]}
    BY <2>2 DEF Members
  <2>4. QED
    BY <2>1, <2>2, <2>3
<1>2. CASE l \in Dbs \X Dbs /\ l[1] # l[2]
  <2>1. l = <<l[1], l[2]>> /\ l[1] \in Dbs /\ l[2] \in Dbs
    BY <1>2
  <2>2. Len(l) = 2 /\ DOMAIN l = 1..2
    BY <2>1
  <2>3. Members(l) = {l[1], l[2]}
    BY <2>2 DEF Members
  <2>4. QED
    BY <1>2, <2>1, <2>2, <2>3
<1>3. QED
  BY <1>1, <1>2 DEF DbLists

LEMMA MemberFacts ==
  ASSUME NEW l \in DbLists \cup {<<>>}
  PROVE  /\ Len(l) \in 0..2 /\ Members(l) \subseteq Dbs
         /\ \A i \in 1..Len(l) : l[i] \in Members(l)
         /\ \A d \in Members(l) : \E i \in 1..Len(l) : l[i] = d
         /\ \A i, j \in 1..Len(l) : l[i] = l[j] => i = j
<1>1. CASE l = <<>>
  BY <1>1, EmptyList
<1>2. CASE l \in DbLists /\ Len(l) = 1
  BY <1>2, ListFacts
<1>3. CASE l \in DbLists /\ Len(l) = 2
  BY <1>3, ListFacts
<1>4. QED
  BY <1>1, <1>2, <1>3, ListFacts

(* The ids of every request and task.                                      *)
LEMMA IdFacts ==
  ASSUME CallsOK, TasksOK
  PROVE  /\ \A c \in Calls : call[c] \in CallType /\ call[c].dbs \in DbLists \cup {<<>>}
         /\ \A t \in Dbs : task[t] \in TaskType /\ task[t].dbs \in DbLists \cup {<<>>}
         /\ \A c \in Calls : Members(call[c].dbs) \subseteq Dbs
         /\ \A t \in Dbs : Members(task[t].dbs) \subseteq Dbs
<1>1. /\ \A c \in Calls : call[c] \in CallType /\ call[c].dbs \in DbLists \cup {<<>>}
      /\ \A t \in Dbs : task[t] \in TaskType /\ task[t].dbs \in DbLists \cup {<<>>}
  BY DEF CallsOK, TasksOK, CallType, TaskType
<1>2. QED
  BY <1>1, MemberFacts

LEMMA IdleFacts ==
  /\ Idle \in CallType /\ CallShape(Idle)
  /\ Idle.at = "idle" /\ Idle.dbs = <<>> /\ Idle.got = 0 /\ Idle.made = 0
<1>1. Idle \in CallType
  BY DEF Idle, CallType, Hosts
<1>2. Idle.at = "idle" /\ Idle.dbs = <<>> /\ Idle.got = 0 /\ Idle.made = 0
  BY DEF Idle
<1>3. CallShape(Idle)
  BY <1>2 DEF CallShape
<1>4. QED
  BY <1>1, <1>2, <1>3

LEMMA StepNames ==
  /\ TaskSteps = {"make", "save", "mark", "release"} /\ Removing = {"known", "unknown"}
  /\ NoTask = [dbs |-> <<>>, at |-> "none", done |-> 0]
BY DEF TaskSteps, Removing, NoTask

LEMMA InitInv == Init => AdmissionInv
<1> SUFFICES ASSUME Init PROVE AdmissionInv
  OBVIOUS
<1>1. ServerTypes
  BY DEF Init, ServerTypes
<1>2. RowTypes
  BY StepNames DEF Init, RowTypes, Hosts
<1>3. HistoryTypes
  BY AdmissionAssumption DEF Init, HistoryTypes
<1>4. CallsOK
  BY IdleFacts DEF Init, CallsOK
<1>5. TasksOK
  <2>1. NoTask \in TaskType
    BY StepNames DEF TaskType
  <2>2. NoTask.at = "none" /\ NoTask.dbs = <<>>
    BY StepNames
  <2>3. \A t \in Dbs : TaskShape(t, NoTask)
    BY <2>2 DEF TaskShape
  <2>4. QED
    BY <2>1, <2>3 DEF Init, TasksOK
<1>6. (\A c \in Calls : call[c].dbs = <<>> /\ call[c].got = 0) /\ \A t \in Dbs : task[t].dbs = <<>>
  BY IdleFacts, StepNames DEF Init
<1>7. Rows
  BY <1>6, EmptyList DEF Init, Rows, IdsApart, RowsOfCalls, RowsOfTasks, RemovedRows
<1>8. PortsOfRows /\ PortsHeld
  BY <1>6 DEF Init, PortsOfRows, PortsHeld
<1>9. ProvisioningIsWorkedOn
  BY DEF Init, ProvisioningIsWorkedOn
<1>10. QED
  BY <1>1, <1>2, <1>3, <1>4, <1>5, <1>7, <1>8, <1>9, InvParts

-----------------------------------------------------------------------------
(* Steps of requests that insert no row                                    *)

(* The ids a request gets are fresh, those it keeps or gives up are its.   *)
GetsIds(c, k) ==
  \/ k.dbs = call[c].dbs /\ k.made = call[c].made /\ UNCHANGED clones
  \/ k.dbs = <<>> /\ UNCHANGED clones
  \/ /\ k.made = 0
     /\ \A d \in Members(k.dbs) : Fresh(d)
     /\ clones' \subseteq clones \cup Members(k.dbs)
     /\ Len(k.dbs) = 2 => Members(k.dbs) \cap clones' = {}

LEMMA CallStep ==
  ASSUME CallsOK, NEW c \in Calls, NEW k \in CallType, CallShape(k), call' = [call EXCEPT ![c] = k]
  PROVE  /\ CallsOK' /\ call'[c] = k
         /\ \A e \in Calls \ {c} : call'[e] = call[e]
BY DEF CallsOK

LEMMA CallStepRows ==
  ASSUME AdmissionInv, NEW c \in Calls, NEW k \in CallType, CallShape(k),
         call' = [call EXCEPT ![c] = k], GetsIds(c, k),
         UNCHANGED <<status, task, removal>>, disturbed \subseteq disturbed'
  PROVE  Rows'
<1>1. CallsOK /\ TasksOK /\ IdsApart /\ RowsOfCalls /\ RowsOfTasks /\ RemovedRows
  BY InvParts DEF Rows
<1>2. call'[c] = k /\ \A e \in Calls \ {c} : call'[e] = call[e]
  BY <1>1, CallStep
<1>3. k.dbs \in DbLists \cup {<<>>}
  BY DEF CallType
<1>4. ASSUME NEW d, Fresh(d)
      PROVE  /\ \A e \in Calls : d \notin Members(call[e].dbs)
             /\ \A t \in Dbs : d \notin Members(task[t].dbs)
  <2>1. \A e \in Calls : d \notin Members(call[e].dbs)
    BY <1>4 DEF Fresh
  <2>2. ASSUME NEW t \in Dbs, d \in Members(task[t].dbs)
        PROVE  FALSE
    <3>1. PICK i \in 1..Len(task[t].dbs) : task[t].dbs[i] = d
      BY <1>1, <2>2, IdFacts, MemberFacts
    <3>2. QED
      BY <1>1, <1>4, <3>1 DEF Fresh, RowsOfTasks
  <2>3. QED
    BY <2>1, <2>2
<1>5. \A d \in Members(k.dbs) : d \in Members(call[c].dbs) \/ Fresh(d)
  BY EmptyList DEF GetsIds
<1>6. IdsApart'
  <2>1. \A e \in Calls \ {c} : Members(k.dbs) \cap Members(call[e].dbs) = {}
    BY <1>1, <1>4, <1>5 DEF IdsApart
  <2>2. \A t \in Dbs : Members(k.dbs) \cap Members(task[t].dbs) = {}
    BY <1>1, <1>4, <1>5 DEF IdsApart
  <2>3. QED
    BY <1>1, <1>2, <2>1, <2>2 DEF IdsApart
<1>7. \A d \in clones' : d \in clones \/ Fresh(d)
  BY DEF GetsIds
<1>8. ASSUME NEW e \in Calls \ {c}, NEW i \in 1..Len(call[e].dbs), Len(call[e].dbs) = 2
      PROVE  call[e].dbs[i] \notin clones'
  <2>1. call[e].dbs[i] \in Members(call[e].dbs)
    BY <1>1, IdFacts, MemberFacts
  <2>2. call[e].dbs[i] \notin clones
    BY <1>1, <1>8 DEF RowsOfCalls
  <2>3. QED
    BY <1>4, <1>7, <2>1, <2>2
<1>9. \A i \in 1..Len(k.dbs) : k.dbs[i] \in Members(k.dbs)
  BY <1>3, MemberFacts
<1>10. ASSUME NEW i \in 1..Len(k.dbs)
       PROVE  /\ status[k.dbs[i]] = "absent" <=> i > k.made
              /\ Kept(k.dbs[i]) /\ k.dbs[i] \notin disturbed => status[k.dbs[i]] = "provisioning"
              /\ Len(k.dbs) = 2 => k.dbs[i] \notin clones'
  <2>1. CASE k.dbs = call[c].dbs /\ k.made = call[c].made /\ UNCHANGED clones
    BY <1>1, <2>1 DEF RowsOfCalls
  <2>2. CASE k.dbs = <<>>
    BY <2>2, EmptyList
  <2>3. CASE /\ k.made = 0 /\ \A d \in Members(k.dbs) : Fresh(d)
             /\ Len(k.dbs) = 2 => Members(k.dbs) \cap clones' = {}
    BY <1>9, <2>3 DEF Fresh, Kept, HasRow
  <2>4. QED
    BY <2>1, <2>2, <2>3 DEF GetsIds
<1>11. RowsOfCalls'
  BY <1>1, <1>2, <1>8, <1>10 DEF RowsOfCalls, Kept, HasRow
<1>12. RowsOfTasks'
  <2>1. ASSUME NEW t \in Dbs, NEW i \in 1..Len(task[t].dbs), Len(task[t].dbs) = 2
        PROVE  task[t].dbs[i] \notin clones'
    <3>1. task[t].dbs[i] \in Members(task[t].dbs)
      BY <1>1, IdFacts, MemberFacts
    <3>2. task[t].dbs[i] \notin clones
      BY <1>1, <2>1 DEF RowsOfTasks
    <3>3. QED
      BY <1>4, <1>7, <3>1, <3>2
  <2>2. QED
    BY <1>1, <2>1 DEF RowsOfTasks, Kept, HasRow
<1>13. RemovedRows'
  BY <1>1 DEF RemovedRows
<1>14. QED
  BY <1>6, <1>11, <1>12, <1>13 DEF Rows

(* What a request gives up is not provisioning, or it was cut short.       *)
LEMMA CallStepWork ==
  ASSUME AdmissionInv, NEW c \in Calls, NEW k \in CallType, CallShape(k),
         call' = [call EXCEPT ![c] = k], UNCHANGED <<status, task>>, disturbed \subseteq disturbed',
         \A d \in Members(call[c].dbs) \ Members(k.dbs) :
           status[d] # "provisioning" \/ d \in disturbed'
  PROVE  ProvisioningIsWorkedOn'
<1>1. CallsOK /\ ProvisioningIsWorkedOn
  BY InvParts
<1>2. call'[c] = k /\ \A e \in Calls \ {c} : call'[e] = call[e]
  BY <1>1, CallStep
<1>3. SUFFICES ASSUME NEW d \in Dbs, status[d] = "provisioning", d \notin disturbed'
               PROVE  \/ \E t \in Dbs : Working(t)' /\ d \in Members(task'[t].dbs)
                      \/ \E e \in Calls : d \in Members(call'[e].dbs)
  BY DEF ProvisioningIsWorkedOn
<1>4. CASE \E t \in Dbs : Working(t) /\ d \in Members(task[t].dbs)
  BY <1>4 DEF Working
<1>5. CASE \E e \in Calls : d \in Members(call[e].dbs)
  <2>1. PICK e \in Calls : d \in Members(call[e].dbs)
    BY <1>5
  <2>2. d \in Members(call'[e].dbs)
    BY <1>2, <1>3, <2>1
  <2>3. QED
    BY <2>2
<1>6. QED
  BY <1>1, <1>3, <1>4, <1>5 DEF ProvisioningIsWorkedOn

(* A request that holds no port has inserted no row.                       *)
LEMMA NothingYet ==
  ASSUME AdmissionInv, NEW c \in Calls, call[c].made = 0
  PROVE  \A d \in Members(call[c].dbs) : status[d] = "absent"
<1>1. CallsOK /\ TasksOK /\ RowsOfCalls
  BY InvParts DEF Rows
<1>2. \A d \in Members(call[c].dbs) : \E i \in 1..Len(call[c].dbs) : call[c].dbs[i] = d
  BY <1>1, IdFacts, MemberFacts
<1>3. \A i \in 1..Len(call[c].dbs) : i > call[c].made
  OBVIOUS
<1>4. QED
  BY <1>1, <1>2, <1>3 DEF RowsOfCalls

LEMMA NoPortNoRow ==
  ASSUME AdmissionInv, NEW c \in Calls, call[c].got = 0
  PROVE  call[c].made = 0
<1>1. CallShape(call[c]) /\ call[c] \in CallType
  BY InvParts DEF CallsOK
<1>2. call[c].dbs \in DbLists => Len(call[c].dbs) # 0
  BY ListFacts
<1>3. QED
  BY <1>1, <1>2 DEF CallShape

(* A step of a request that has no port before or after it.                *)
LEMMA QuietStep ==
  ASSUME AdmissionInv, NEW c \in Calls, NEW k \in CallType, CallShape(k),
         call' = [call EXCEPT ![c] = k], GetsIds(c, k), call[c].got = 0, k.got = 0,
         ServerTypes', HistoryTypes', clones' \subseteq Dbs,
         UNCHANGED <<allocated, status, user, host, port, known, ctr, task, removal, leaked,
                     disturbed>>
  PROVE  AdmissionInv'
<1>1. RowTypes /\ CallsOK /\ TasksOK /\ PortsOfRows /\ PortsHeld
  BY InvParts
<1>2. CallsOK' /\ call'[c] = k /\ \A e \in Calls \ {c} : call'[e] = call[e]
  BY <1>1, CallStep
<1>3. RowTypes' /\ TasksOK'
  BY <1>1 DEF RowTypes, TasksOK
<1>4. Rows'
  BY CallStepRows
<1>5. \A d \in Members(call[c].dbs) : status[d] = "absent"
  BY NoPortNoRow, NothingYet
<1>6. ProvisioningIsWorkedOn'
  BY <1>5, CallStepWork
<1>7. PortsOfRows'
  BY <1>1, <1>2 DEF PortsOfRows
<1>8. PortsHeld'
  <2>1. ASSUME NEW p \in allocated
        PROVE  \/ \E d \in Dbs : HasRow(d)' /\ port'[d] = p
               \/ \E e \in Calls : \E i \in 1..call'[e].got :
                    i > call'[e].made /\ port'[call'[e].dbs[i]] = p
               \/ p \in leaked'
    <3>1. CASE \E e \in Calls : \E i \in 1..call[e].got :
                    i > call[e].made /\ port[call[e].dbs[i]] = p
      <4>1. PICK e \in Calls : \E i \in 1..call[e].got :
                    i > call[e].made /\ port[call[e].dbs[i]] = p
        BY <3>1
      <4>2. e # c
        BY <4>1
      <4>3. QED
        BY <1>2, <4>1, <4>2
    <3>2. QED
      BY <1>1, <3>1 DEF PortsHeld, HasRow
  <2>2. QED
    BY <2>1 DEF PortsHeld
<1>9. QED
  BY <1>2, <1>3, <1>4, <1>6, <1>7, <1>8, InvPartsNext

-----------------------------------------------------------------------------
(* Requests before they have ports, and those of admins                    *)

LEMMA AheadIsNat ==
  ASSUME NEW c, NEW x
  PROVE  Cardinality(AheadOf(c, x)) \in Nat
<1>1. AheadOf(c, x) \subseteq Dbs
  BY DEF AheadOf
<1>2. QED
  BY <1>1, AdmissionAssumption, FS_Subset, FS_CardinalityType

LEMMA RaiseType ==
  ASSUME HistoryTypes, NEW x, NEW n \in Nat, Raise(x, n)
  PROVE  crowd' \in [Users \cup Servers -> Nat]
BY DEF HistoryTypes, Raise

LEMMA QuietTypes ==
  ASSUME HistoryTypes, crowd' \in [Users \cup Servers -> Nat],
         UNCHANGED <<allocated, faults, leaked, failed, disturbed>>
  PROVE  HistoryTypes'
BY DEF HistoryTypes

LEMMA CountRowsStep ==
  ASSUME AdmissionInv, NEW c \in Calls, NEW u \in Users, NEW dbs \in DbLists, CountRows(c, u, dbs)
  PROVE  AdmissionInv'
<1> DEFINE k == [Idle EXCEPT !.at = "admitted", !.user = u, !.dbs = dbs]
<1>1. /\ k.at = "admitted" /\ k.dbs = dbs /\ k.got = 0 /\ k.made = 0
  BY DEF Idle
<1>2. k \in CallType
  BY IdleFacts DEF CallType
<1>3. CallShape(k)
  BY <1>1 DEF CallShape
<1>4. call' = [call EXCEPT ![c] = k] /\ call[c].got = 0
  BY IdleFacts DEF CountRows, Step
<1>5. ServerTypes /\ RowTypes /\ HistoryTypes
  BY InvParts
<1>6. ServerTypes' /\ clones' \subseteq Dbs
  BY <1>5 DEF CountRows, Admitted, serverVars, ServerTypes, RowTypes
<1>7. crowd' \in [Users \cup Servers -> Nat]
  BY <1>5, AheadIsNat, RaiseType DEF CountRows
<1>8. UNCHANGED <<allocated, status, user, host, port, known, ctr, task, removal, faults, leaked,
                  failed, disturbed>>
  BY DEF CountRows, Admitted
<1>9. HistoryTypes'
  BY <1>5, <1>7, <1>8, QuietTypes
<1>10. GetsIds(c, k)
  <2>1. \A d \in Members(dbs) : Fresh(d)
    BY DEF CountRows, Members
  <2>2. clones' = clones \ Members(dbs)
    BY DEF CountRows
  <2>3. QED
    BY <1>1, <2>1, <2>2 DEF GetsIds
<1> HIDE DEF k
<1>11. QED
  BY <1>1, <1>2, <1>3, <1>4, <1>6, <1>8, <1>9, <1>10, QuietStep

LEMMA CountCloneStep ==
  ASSUME AdmissionInv, NEW c \in Calls, NEW src \in Dbs, NEW d \in Dbs, CountClone(c, src, d)
  PROVE  AdmissionInv'
<1> DEFINE k == [Idle EXCEPT !.at = "allocate", !.user = user[src], !.dbs = <<d>>,
                             !.host = host[src]]
<1>0. ServerTypes /\ RowTypes /\ HistoryTypes
  BY InvParts
<1>1. /\ k.at = "allocate" /\ k.dbs = <<d>> /\ k.got = 0 /\ k.made = 0
      /\ Len(k.dbs) = 1 /\ Members(k.dbs) = {d} /\ k.dbs \in DbLists
  <2>1. k.at = "allocate" /\ k.dbs = <<d>> /\ k.got = 0 /\ k.made = 0
    BY DEF Idle
  <2>2. <<d>> \in DbLists
    BY DEF DbLists
  <2>3. Len(<<d>>) = 1 /\ <<d>>[1] = d
    OBVIOUS
  <2>4. Members(<<d>>) = {d}
    BY <2>2, <2>3, ListFacts
  <2>5. QED
    BY <2>1, <2>2, <2>3, <2>4
<1>2. k \in CallType
  <2>1. user[src] \in Users \cup {NoUser} /\ host[src] \in Hosts
    BY <1>0 DEF RowTypes
  <2>2. QED
    BY <1>1, <2>1, IdleFacts DEF CallType
<1>3. CallShape(k)
  BY <1>1 DEF CallShape
<1>4. call' = [call EXCEPT ![c] = k] /\ call[c].got = 0
  BY IdleFacts DEF CountClone, Step
<1>6. ServerTypes' /\ clones' \subseteq Dbs
  BY <1>0 DEF CountClone, Admitted, serverVars, ServerTypes, RowTypes
<1>7. crowd' \in [Users \cup Servers -> Nat]
  BY <1>0, AheadIsNat, RaiseType DEF CountClone
<1>8. UNCHANGED <<allocated, status, user, host, port, known, ctr, task, removal, faults, leaked,
                  failed, disturbed>>
  BY DEF CountClone, Admitted
<1>9. HistoryTypes'
  BY <1>0, <1>7, <1>8, QuietTypes
<1>10. Fresh(d) /\ clones' = clones \cup {d}
  BY DEF CountClone
<1> HIDE DEF k
<1>11. GetsIds(c, k)
  BY <1>1, <1>10 DEF GetsIds
<1>12. QED
  BY <1>1, <1>2, <1>3, <1>4, <1>6, <1>8, <1>9, <1>11, QuietStep

LEMMA ChooseServerStep ==
  ASSUME AdmissionInv, NEW c \in Calls, ChooseServer(c)
  PROVE  AdmissionInv'
<1>0. ServerTypes /\ RowTypes /\ HistoryTypes /\ call[c] \in CallType /\ CallShape(call[c])
  BY InvParts DEF CallsOK
<1>1. call[c].at = "admitted" /\ call[c].got = 0 /\ call[c].made = 0 /\ call[c].dbs \in DbLists
  BY <1>0 DEF ChooseServer, CallShape
<1>2. PICK s \in Hosts :
        /\ \/ Raise(s, Cardinality(AheadOf(c, s)))
           \/ Raise(s, Cardinality(AheadOf(c, s)) + Len(call[c].dbs) - 1)
           \/ UNCHANGED crowd
        /\ Step(c, [call[c] EXCEPT !.at = "allocate", !.host = s])
  BY DEF ChooseServer
<1>7. crowd' \in [Users \cup Servers -> Nat]
  <2>1. Len(call[c].dbs) \in {1, 2}
    BY <1>1, ListFacts
  <2>2. Cardinality(AheadOf(c, s)) \in Nat
    BY AheadIsNat
  <2>3. Cardinality(AheadOf(c, s)) + Len(call[c].dbs) - 1 \in Nat
    <3> DEFINE n == Cardinality(AheadOf(c, s))
    <3>1. n \in Nat
      BY <2>2
    <3> HIDE DEF n
    <3>2. \A l \in {1, 2} : n + l - 1 \in Nat
      BY <3>1
    <3>3. QED
      BY <2>1, <3>2 DEF n
  <2>4. QED
    BY <1>0, <1>2, <2>2, <2>3, RaiseType DEF HistoryTypes
<1> DEFINE k == [call[c] EXCEPT !.at = "allocate", !.host = s]
<1>3. /\ k.at = "allocate" /\ k.dbs = call[c].dbs /\ k.got = 0 /\ k.made = 0
      /\ k \in CallType
  BY <1>0, <1>1 DEF CallType
<1>4. call' = [call EXCEPT ![c] = k]
  BY <1>2 DEF Step
<1> HIDE DEF k
<1>5. CallShape(k)
  BY <1>1, <1>3, ListFacts DEF CallShape
<1>6. UNCHANGED <<allocated, listed, open, max, highest, status, user, host, port, known, clones,
                  ctr, task, removal, faults, leaked, failed, disturbed>>
  BY DEF ChooseServer, Admitted, serverVars
<1>8. ServerTypes' /\ HistoryTypes' /\ clones' \subseteq Dbs
  BY <1>0, <1>6, <1>7, QuietTypes DEF ServerTypes, RowTypes
<1>9. GetsIds(c, k)
  BY <1>1, <1>3, <1>6 DEF GetsIds
<1>10. QED
  BY <1>1, <1>3, <1>4, <1>5, <1>6, <1>8, <1>9, QuietStep

(* A request that has no port ends, or an admin's request goes on.         *)
LEMMA OnlyCallsStep ==
  ASSUME AdmissionInv, NEW c \in Calls, NEW k \in CallType, CallShape(k), Step(c, k),
         call[c].got = 0, k.dbs = <<>>, k.got = 0,
         ServerTypes', UNCHANGED <<allocated, rowVars, ctr, task, removal, faults, history>>
  PROVE  AdmissionInv'
<1>1. RowTypes /\ HistoryTypes
  BY InvParts
<1>2. UNCHANGED <<status, user, host, port, known, clones, crowd, leaked, failed, disturbed>>
  BY DEF rowVars, history
<1>3. HistoryTypes' /\ clones' \subseteq Dbs
  BY <1>1, <1>2 DEF HistoryTypes, RowTypes
<1>4. GetsIds(c, k)
  BY <1>2 DEF GetsIds
<1>5. QED
  BY <1>2, <1>3, <1>4, QuietStep DEF Step

LEMMA RejectStep ==
  ASSUME AdmissionInv, NEW c \in Calls, Reject(c)
  PROVE  AdmissionInv'
<1>1. ServerTypes /\ CallShape(call[c])
  BY InvParts DEF CallsOK
<1>2. call[c].got = 0
  BY <1>1 DEF Reject, CallShape
<1>3. ServerTypes'
  BY <1>1 DEF Reject, OnlyCalls, serverVars, ServerTypes
<1>4. QED
  BY <1>2, <1>3, IdleFacts, OnlyCallsStep DEF Reject, OnlyCalls

LEMMA ReadServerStep ==
  ASSUME AdmissionInv, NEW c \in Calls, NEW s \in Servers, ReadServer(c, s) \/ CountServer(c, s)
  PROVE  AdmissionInv'
<1>1. ServerTypes /\ call[c].got = 0
  BY InvParts, IdleFacts DEF ReadServer, CountServer
<1>2. ServerTypes'
  BY <1>1 DEF ReadServer, CountServer, OnlyCalls, serverVars, ServerTypes
<1> DEFINE r == [Idle EXCEPT !.at = "update", !.host = s, !.open = (s \in open), !.max = max[s]]
           n == [Idle EXCEPT !.at = "counted", !.host = s]
<1>3. /\ r.at = "update" /\ r.dbs = <<>> /\ r.got = 0 /\ r.made = 0 /\ r.host = s /\ r.max = max[s]
      /\ n.at = "counted" /\ n.dbs = <<>> /\ n.got = 0 /\ n.made = 0
  BY DEF Idle
<1>4. max[s] \in Capacities
  BY <1>1 DEF ServerTypes
<1>5. r \in CallType /\ n \in CallType
  <2>1. s \in Hosts /\ (s \in open) \in BOOLEAN
    BY DEF Hosts
  <2>2. r \in CallType
    BY <1>4, <2>1, IdleFacts DEF CallType
  <2>3. n \in CallType
    BY <2>1, IdleFacts DEF CallType
  <2>4. QED
    BY <2>2, <2>3
<1>6. (ReadServer(c, s) => Step(c, r)) /\ (CountServer(c, s) => Step(c, n))
  BY DEF ReadServer, CountServer
<1>7. UNCHANGED <<allocated, rowVars, ctr, task, removal, faults, history>>
  BY DEF ReadServer, CountServer, OnlyCalls
<1> HIDE DEF r, n
<1>8. CallShape(r) /\ CallShape(n)
  BY <1>3, <1>4 DEF CallShape
<1>9. QED
  BY <1>1, <1>2, <1>3, <1>5, <1>6, <1>7, <1>8, OnlyCallsStep

LEMMA WriteServerStep ==
  ASSUME AdmissionInv, NEW c \in Calls, WriteServer(c) \/ DeleteServer(c)
  PROVE  AdmissionInv'
<1>1. ServerTypes /\ CallShape(call[c]) /\ call[c] \in CallType
  BY InvParts DEF CallsOK
<1>2. call[c].got = 0 /\ call[c].open \in BOOLEAN
  BY <1>1 DEF CallShape, CallType, WriteServer, DeleteServer
<1>3. Step(c, Idle) /\ UNCHANGED <<allocated, rowVars, ctr, task, removal, faults, history>>
  BY DEF WriteServer, DeleteServer
<1>4. ASSUME NEW s, NEW o \in BOOLEAN, NEW m \in Capacities, s \in Servers,
             open' = IF o THEN open \cup {s} ELSE open \ {s},
             max' = [max EXCEPT ![s] = m],
             highest' = [highest EXCEPT ![s] = IF m > @ THEN m ELSE @], UNCHANGED listed
      PROVE  ServerTypes'
  BY <1>1, <1>4 DEF ServerTypes
<1>5. CASE WriteServer(c)
  <2>1. call[c].host \in Servers /\ call[c].max \in Capacities
    BY <1>1, <1>5 DEF CallShape, WriteServer
  <2>2. ASSUME UNCHANGED <<open, max, highest>> PROVE ServerTypes'
    <3>1. UNCHANGED listed
      BY <1>5 DEF WriteServer
    <3>2. QED
      BY <1>1, <2>2, <3>1 DEF ServerTypes
  <2>3. ServerTypes'
    BY <1>2, <1>4, <1>5, <2>1, <2>2 DEF WriteServer
  <2>4. QED
    BY <1>2, <1>3, <2>3, IdleFacts, OnlyCallsStep
<1>6. CASE DeleteServer(c)
  <2>1. ServerTypes'
    BY <1>1, <1>6 DEF DeleteServer, ServerTypes
  <2>2. QED
    BY <1>2, <1>3, <2>1, IdleFacts, OnlyCallsStep
<1>7. QED
  BY <1>5, <1>6

LEMMA CreateServerStep ==
  ASSUME AdmissionInv, NEW s \in Servers, CreateServer(s)
  PROVE  AdmissionInv'
<1>1. ServerTypes /\ RowTypes /\ HistoryTypes /\ CallsOK /\ TasksOK /\ Rows
      /\ PortsOfRows /\ PortsHeld /\ ProvisioningIsWorkedOn
  BY InvParts
<1>2. UNCHANGED <<allocated, max, highest, status, user, host, port, known, clones, ctr, call, task,
                  removal, faults, crowd, leaked, failed, disturbed>>
  BY DEF CreateServer, rowVars, history
<1>3. ServerTypes'
  BY <1>1 DEF CreateServer, ServerTypes
<1>4. RowTypes' /\ HistoryTypes'
  BY <1>1, <1>2 DEF RowTypes, HistoryTypes
<1>5. CallsOK' /\ TasksOK'
  BY <1>1, <1>2 DEF CallsOK, TasksOK
<1>6. Rows'
  BY <1>1, <1>2 DEF Rows, IdsApart, RowsOfCalls, RowsOfTasks, RemovedRows, Kept, HasRow
<1>7. PortsOfRows' /\ PortsHeld' /\ ProvisioningIsWorkedOn'
  BY <1>1, <1>2 DEF PortsOfRows, PortsHeld, ProvisioningIsWorkedOn, HasRow, Working
<1>8. QED
  BY <1>3, <1>4, <1>5, <1>6, <1>7, InvPartsNext

-----------------------------------------------------------------------------
(* Ports and rows of a request                                             *)

(* A request that has one id left, or two, and none of their rows.         *)
LEMMA RequestFacts ==
  ASSUME AdmissionInv, NEW c \in Calls, call[c].at \in {"allocate", "giveback", "insert"}
  PROVE  LET k == call[c] IN
         /\ k.dbs \in DbLists /\ Len(k.dbs) \in {1, 2} /\ k.got \in 0..2 /\ k.made \in 0..2
         /\ k.at # "insert" => k.made = 0
         /\ k.at = "allocate" => k.got < Len(k.dbs)
         /\ k.at = "giveback" => k.got = 1 /\ Len(k.dbs) = 2
         /\ k.at = "insert" => k.got = Len(k.dbs) /\ k.made < Len(k.dbs)
         /\ k.user \in Users \cup {NoUser} /\ k.host \in Hosts
         /\ \A i \in 1..Len(k.dbs) : k.dbs[i] \in Members(k.dbs) /\ k.dbs[i] \in Dbs
         /\ \A i, j \in 1..Len(k.dbs) : k.dbs[i] = k.dbs[j] => i = j
<1>1. call[c] \in CallType /\ CallShape(call[c])
  BY InvParts DEF CallsOK
<1>2. call[c].dbs \in DbLists
  BY <1>1 DEF CallShape
<1>3. Len(call[c].dbs) \in {1, 2}
  BY <1>2, ListFacts
<1>4. /\ Members(call[c].dbs) \subseteq Dbs
      /\ \A i \in 1..Len(call[c].dbs) : call[c].dbs[i] \in Members(call[c].dbs)
      /\ \A i, j \in 1..Len(call[c].dbs) : call[c].dbs[i] = call[c].dbs[j] => i = j
  BY <1>2, MemberFacts
<1>5. /\ call[c].got \in 0..2 /\ call[c].made \in 0..2
      /\ call[c].user \in Users \cup {NoUser} /\ call[c].host \in Hosts
  BY <1>1 DEF CallType
<1>6. QED
  BY <1>1, <1>2, <1>3, <1>4, <1>5 DEF CallShape

(* The ids of requests that have ports.                                    *)
LEMMA PortedIds ==
  ASSUME AdmissionInv, NEW e \in Calls, NEW i \in 1..call[e].got
  PROVE  /\ i \in 1..Len(call[e].dbs) /\ call[e].dbs[i] \in Members(call[e].dbs)
         /\ call[e].dbs[i] \in Dbs
<1>1. call[e] \in CallType /\ CallShape(call[e])
  BY InvParts DEF CallsOK
<1>2. call[e].got \in 0..2 /\ call[e].got # 0
  BY <1>1 DEF CallType
<1>3. call[e].at \in {"allocate", "giveback", "insert"}
  BY <1>1, <1>2 DEF CallShape, CallType
<1>4. i \in 1..Len(call[e].dbs)
  BY <1>2, <1>3, RequestFacts
<1>5. QED
  BY <1>3, <1>4, RequestFacts

(* The request has no port for its second database.                        *)
LEMMA ExhaustedStep ==
  ASSUME AdmissionInv, NEW c \in Calls, call[c].at = "allocate", Exhausted,
         Step(c, IF call[c].got = 0 THEN Idle ELSE [call[c] EXCEPT !.at = "giveback"]),
         UNCHANGED <<port, serverVars, status, user, host, known, clones, ctr, task, removal,
                     faults, history>>
  PROVE  AdmissionInv'
<1>1. ServerTypes /\ RowTypes /\ HistoryTypes /\ CallsOK /\ TasksOK /\ PortsOfRows /\ PortsHeld
  BY InvParts
<1>2. ServerTypes' /\ UNCHANGED allocated
  BY <1>1 DEF serverVars, ServerTypes, Exhausted
<1>3. CASE call[c].got = 0
  BY <1>2, <1>3, IdleFacts, OnlyCallsStep DEF rowVars
<1>4. CASE call[c].got # 0
  <2> DEFINE k == [call[c] EXCEPT !.at = "giveback"]
  <2>1. k.at = "giveback" /\ k.dbs = call[c].dbs /\ k.got = call[c].got /\ k.made = call[c].made
    BY <1>1 DEF CallsOK, CallType
  <2>2. k \in CallType
    BY <1>1 DEF CallsOK, CallType
  <2>4. call' = [call EXCEPT ![c] = k]
    BY <1>4 DEF Step
  <2> HIDE DEF k
  <2>13. call[c].got = 1 /\ call[c].made = 0 /\ Len(call[c].dbs) = 2 /\ call[c].dbs \in DbLists
    <3>1. /\ call[c].dbs \in DbLists /\ Len(call[c].dbs) \in {1, 2} /\ call[c].got \in 0..2
          /\ call[c].made = 0 /\ call[c].got < Len(call[c].dbs)
      BY RequestFacts
    <3>2. \A g \in 0..2, l \in {1, 2} : g # 0 /\ g < l => g = 1 /\ l = 2
      OBVIOUS
    <3>3. QED
      BY <1>4, <3>1, <3>2, Zenon
  <2>3. CallShape(k)
    BY <2>1, <2>13 DEF CallShape
  <2>5. CallsOK' /\ call'[c] = k /\ \A e \in Calls \ {c} : call'[e] = call[e]
    BY <1>1, <2>2, <2>3, <2>4, CallStep
  <2>6. UNCHANGED <<crowd, leaked, failed, disturbed>>
    BY DEF history
  <2>7. RowTypes' /\ HistoryTypes' /\ TasksOK'
    BY <1>1, <1>2, <2>6 DEF RowTypes, HistoryTypes, TasksOK
  <2>8. Rows'
    BY <2>1, <2>2, <2>3, <2>4, <2>6, CallStepRows DEF GetsIds
  <2>9. ProvisioningIsWorkedOn'
    BY <2>1, <2>2, <2>3, <2>4, <2>6, CallStepWork
  <2>10. \A e \in Calls : /\ call'[e].dbs = call[e].dbs /\ call'[e].got = call[e].got
                          /\ call'[e].made = call[e].made
    BY <2>1, <2>5
  <2>11. PortsOfRows' /\ PortsHeld'
    BY <1>1, <1>2, <2>6, <2>10 DEF PortsOfRows, PortsHeld, HasRow
  <2>12. QED
    BY <1>2, <2>5, <2>7, <2>8, <2>9, <2>11, InvPartsNext
<1>5. QED
  BY <1>3, <1>4

LEMMA AllocateNextStep ==
  ASSUME AdmissionInv, NEW c \in Calls, AllocateNext(c)
  PROVE  AdmissionInv'
<1> DEFINE n == call[c].got + 1
           d == call[c].dbs[n]
<1>1. ServerTypes /\ RowTypes /\ HistoryTypes /\ CallsOK /\ TasksOK /\ PortsOfRows /\ PortsHeld
      /\ IdsApart
  BY InvParts DEF Rows
<1>2. /\ call[c].at = "allocate"
      /\ UNCHANGED <<serverVars, status, user, host, known, clones, ctr, task, removal, faults, history>>
  BY DEF AllocateNext
<1>3. UNCHANGED <<crowd, leaked, failed, disturbed>>
  BY <1>2 DEF history
<1>4. /\ n \in 1..Len(call[c].dbs) /\ d \in Dbs /\ d \in Members(call[c].dbs)
      /\ call[c].made = 0 /\ call[c].got \in 0..1 /\ call[c].dbs \in DbLists
  BY <1>2, RequestFacts
<1>5. status[d] = "absent"
  BY <1>4, NothingYet
<1>6. ASSUME NEW p \in Ports, AllocatePort(p), port' = [port EXCEPT ![d] = p],
             Step(c, [call[c] EXCEPT !.got = @ + 1,
                        !.at = IF call[c].got + 1 = Len(call[c].dbs) THEN "insert" ELSE @])
      PROVE  AdmissionInv'
  <2> DEFINE k == [call[c] EXCEPT !.got = @ + 1,
                     !.at = IF call[c].got + 1 = Len(call[c].dbs) THEN "insert" ELSE @]
  <2>1. /\ k.dbs = call[c].dbs /\ k.got = n /\ k.made = 0
        /\ k.at = IF n = Len(call[c].dbs) THEN "insert" ELSE "allocate"
    BY <1>1, <1>2, <1>4 DEF CallsOK, CallType
  <2>2. k \in CallType
    <3>1. call[c] \in CallType /\ call[c].got + 1 \in 0..2 /\ call[c].at = "allocate"
      BY <1>1, <1>2, <1>4 DEF CallsOK
    <3> DEFINE a == IF call[c].got + 1 = Len(call[c].dbs) THEN "insert" ELSE call[c].at
               m == call[c].got + 1
    <3>2. a \in {"allocate", "insert"} /\ m \in 0..2
      BY <3>1
    <3>3. k = [call[c] EXCEPT !.got = m, !.at = a]
      OBVIOUS
    <3> HIDE DEF a, m, k
    <3>4. QED
      BY <3>1, <3>2, <3>3 DEF CallType
  <2>3. call' = [call EXCEPT ![c] = k]
    BY <1>6 DEF Step
  <2> HIDE DEF k
  <2>4. CallShape(k)
    BY <1>2, <1>4, <2>1, RequestFacts DEF CallShape
  <2>5. CallsOK' /\ call'[c] = k /\ \A e \in Calls \ {c} : call'[e] = call[e]
    BY <1>1, <2>2, <2>3, <2>4, CallStep
  <2>6. /\ port'[d] = p /\ \A x \in Dbs \ {d} : port'[x] = port[x]
        /\ port' \in [Dbs -> Ports \cup {NoPort}]
    BY <1>1, <1>4, <1>6 DEF RowTypes
  <2>7. RowTypes' /\ ServerTypes' /\ TasksOK'
    BY <1>1, <1>2, <2>6 DEF RowTypes, ServerTypes, serverVars, TasksOK
  <2>8. HistoryTypes'
    BY <1>1, <1>2, <1>3, <1>6 DEF HistoryTypes, AllocatePort
  <2>9. Rows'
    BY <1>2, <1>3, <1>4, <2>1, <2>2, <2>3, <2>4, CallStepRows DEF GetsIds
  <2>10. ProvisioningIsWorkedOn'
    BY <1>2, <1>3, <2>1, <2>2, <2>3, <2>4, CallStepWork
  <2>11. PortsOfRows'
    <3>1. ASSUME NEW x \in Dbs, status'[x] # "absent"
          PROVE  port'[x] \in Ports
      BY <1>1, <1>2, <1>6, <2>6, <3>1 DEF PortsOfRows
    <3>2. ASSUME NEW e \in Calls, NEW i \in 1..call'[e].got
          PROVE  port'[call'[e].dbs[i]] \in Ports
      <4>1. CASE e # c
        BY <1>1, <1>6, <2>5, <2>6, <3>2, <4>1, PortedIds DEF PortsOfRows
      <4>2. CASE e = c /\ i = n
        BY <1>6, <2>1, <2>5, <2>6, <4>2
      <4>3. CASE e = c /\ i # n
        <5>1. i \in 1..call[c].got /\ call'[e].dbs = call[c].dbs
          BY <1>4, <2>1, <2>5, <3>2, <4>3
        <5>2. QED
          BY <1>1, <1>6, <2>6, <4>3, <5>1, PortedIds DEF PortsOfRows
      <4>4. QED
        BY <4>1, <4>2, <4>3
    <3>3. QED
      BY <3>1, <3>2 DEF PortsOfRows
  <2>12. PortsHeld'
    <3>1. SUFFICES ASSUME NEW q \in allocated'
                   PROVE  \/ \E x \in Dbs : HasRow(x)' /\ port'[x] = q
                          \/ \E e \in Calls : \E i \in 1..call'[e].got :
                               i > call'[e].made /\ port'[call'[e].dbs[i]] = q
                          \/ q \in leaked'
      BY DEF PortsHeld
    <3>2. CASE q = p
      <4>1. n \in 1..call'[c].got /\ n > call'[c].made /\ port'[call'[c].dbs[n]] = q
        BY <1>4, <2>1, <2>5, <2>6, <3>2
      <4>2. QED
        BY <4>1
    <3>3. CASE \E x \in Dbs : HasRow(x) /\ port[x] = q
      <4>1. PICK x \in Dbs : HasRow(x) /\ port[x] = q
        BY <3>3
      <4>2. x # d
        BY <1>5, <4>1 DEF HasRow
      <4>3. HasRow(x)' /\ port'[x] = q
        BY <1>2, <2>6, <4>1, <4>2 DEF HasRow
      <4>4. QED
        BY <4>3
    <3>4. CASE \E e \in Calls : \E i \in 1..call[e].got :
                  i > call[e].made /\ port[call[e].dbs[i]] = q
      <4>1. PICK e \in Calls : \E i \in 1..call[e].got :
                  i > call[e].made /\ port[call[e].dbs[i]] = q
        BY <3>4
      <4>1a. PICK i \in 1..call[e].got : i > call[e].made /\ port[call[e].dbs[i]] = q
        BY <4>1
      <4>2. /\ i \in 1..Len(call[e].dbs) /\ call[e].dbs[i] \in Members(call[e].dbs)
            /\ call[e].dbs[i] \in Dbs
        BY PortedIds
      <4>3. call[e].dbs[i] # d
        <5>1. CASE e # c
          BY <1>1, <1>4, <4>2, <5>1 DEF IdsApart
        <5>2. CASE e = c
          <6>1. i # n
            BY <1>4, <4>1a, <5>2
          <6>2. QED
            BY <1>2, <1>4, <4>2, <5>2, <6>1, RequestFacts
        <5>3. QED
          BY <5>1, <5>2
      <4>4. /\ i \in 1..call'[e].got /\ i > call'[e].made /\ call'[e].dbs = call[e].dbs
        BY <1>4, <2>1, <2>5, <4>1a
      <4>5. port'[call'[e].dbs[i]] = q
        BY <2>6, <4>1a, <4>2, <4>3, <4>4
      <4>6. QED
        BY <4>4, <4>5
    <3>5. CASE q \in leaked
      BY <1>3, <3>5
    <3>6. QED
      BY <1>1, <1>6, <3>1, <3>2, <3>3, <3>4, <3>5 DEF PortsHeld, AllocatePort
  <2>13. QED
    BY <2>5, <2>7, <2>8, <2>9, <2>10, <2>11, <2>12, InvPartsNext
<1>7. ASSUME Exhausted, UNCHANGED port,
             Step(c, IF call[c].got = 0 THEN Idle ELSE [call[c] EXCEPT !.at = "giveback"])
      PROVE  AdmissionInv'
  BY <1>2, <1>7, ExhaustedStep
<1>8. QED
  BY <1>6, <1>7 DEF AllocateNext

(* A request ends: what it held is handed back or leaked, and what it had  *)
(* inserted is cut short.                                                  *)
LEMMA RequestEnds ==
  ASSUME AdmissionInv, NEW c \in Calls, Step(c, Idle), HistoryTypes',
         allocated' \subseteq allocated, leaked \subseteq leaked', disturbed \subseteq disturbed',
         \A i \in 1..call[c].got :
            i > call[c].made => port[call[c].dbs[i]] \notin allocated' \/ port[call[c].dbs[i]] \in leaked',
         call[c].made = 0 \/ Members(call[c].dbs) \subseteq disturbed',
         UNCHANGED <<serverVars, rowVars, ctr, task, removal>>
  PROVE  AdmissionInv'
<1>1. ServerTypes /\ RowTypes /\ HistoryTypes /\ CallsOK /\ TasksOK /\ PortsOfRows /\ PortsHeld
  BY InvParts
<1>2. UNCHANGED <<status, user, host, port, known, clones>>
  BY DEF rowVars
<1>3. call' = [call EXCEPT ![c] = Idle]
  BY DEF Step
<1>4. CallsOK' /\ call'[c] = Idle /\ \A e \in Calls \ {c} : call'[e] = call[e]
  BY <1>1, <1>3, IdleFacts, CallStep
<1>5. ServerTypes' /\ RowTypes' /\ TasksOK'
  BY <1>1, <1>2 DEF ServerTypes, serverVars, RowTypes, TasksOK
<1>6. Rows'
  BY <1>2, <1>3, IdleFacts, CallStepRows DEF GetsIds
<1>7. \A d \in Members(call[c].dbs) : status[d] # "provisioning" \/ d \in disturbed'
  BY NothingYet
<1>8. ProvisioningIsWorkedOn'
  BY <1>2, <1>3, <1>7, IdleFacts, CallStepWork
<1>9. PortsOfRows'
  BY <1>1, <1>2, <1>4, IdleFacts DEF PortsOfRows
<1>10. PortsHeld'
  <2>1. SUFFICES ASSUME NEW q \in allocated'
                 PROVE  \/ \E x \in Dbs : HasRow(x)' /\ port'[x] = q
                        \/ \E e \in Calls : \E i \in 1..call'[e].got :
                             i > call'[e].made /\ port'[call'[e].dbs[i]] = q
                        \/ q \in leaked'
    BY DEF PortsHeld
  <2>2. CASE \E e \in Calls : \E i \in 1..call[e].got :
                i > call[e].made /\ port[call[e].dbs[i]] = q
    <3>1. PICK e \in Calls : \E i \in 1..call[e].got :
                i > call[e].made /\ port[call[e].dbs[i]] = q
      BY <2>2
    <3>1a. PICK i \in 1..call[e].got : i > call[e].made /\ port[call[e].dbs[i]] = q
      BY <3>1
    <3>2. CASE e = c
      BY <2>1, <3>1a, <3>2
    <3>3. CASE e # c
      BY <1>2, <1>4, <3>1a, <3>3
    <3>4. QED
      BY <3>2, <3>3
  <2>3. QED
    BY <1>1, <1>2, <2>1, <2>2 DEF PortsHeld, HasRow
<1>11. QED
  BY <1>4, <1>5, <1>6, <1>8, <1>9, <1>10, InvPartsNext

LEMMA GiveBackFirstStep ==
  ASSUME AdmissionInv, NEW c \in Calls, GiveBackFirst(c)
  PROVE  AdmissionInv'
<1>1. HistoryTypes
  BY InvParts
<1>2. /\ call[c].at = "giveback" /\ Step(c, Idle) /\ allocated' = allocated \ {port[call[c].dbs[1]]}
      /\ UNCHANGED <<serverVars, rowVars, ctr, task, removal, faults>>
      /\ UNCHANGED <<crowd, leaked, failed, disturbed>>
  BY DEF GiveBackFirst, ReleasePort, history
<1>3. call[c].got = 1 /\ call[c].made = 0
  BY <1>2, RequestFacts
<1>4. \A i \in 1..call[c].got : port[call[c].dbs[i]] \notin allocated'
  BY <1>2, <1>3
<1>5. HistoryTypes'
  BY <1>1, <1>2 DEF HistoryTypes
<1>6. QED
  BY <1>2, <1>3, <1>4, <1>5, RequestEnds

LEMMA InsertFailsStep ==
  ASSUME AdmissionInv, NEW c \in Calls, InsertFails(c)
  PROVE  AdmissionInv'
<1>1. HistoryTypes /\ PortsOfRows
  BY InvParts
<1> DEFINE ports == {port[call[c].dbs[i]] : i \in (call[c].made + 1)..Len(call[c].dbs)}
<1>2. /\ call[c].at = "insert" /\ Step(c, Idle) /\ leaked' = leaked \cup ports
      /\ disturbed' = disturbed \cup Members(call[c].dbs)
      /\ UNCHANGED <<serverVars, rowVars, ctr, task, removal>>
      /\ UNCHANGED <<allocated, crowd, failed>> /\ (UNCHANGED faults \/ Fault)
  BY DEF InsertFails
<1>3. /\ call[c].got = Len(call[c].dbs) /\ call[c].got \in 0..2 /\ call[c].made \in 0..2
      /\ \A i \in 1..Len(call[c].dbs) : call[c].dbs[i] \in Members(call[c].dbs) /\ call[c].dbs[i] \in Dbs
      /\ call[c].dbs \in DbLists
  BY <1>2, RequestFacts
<1>4. \A i \in 1..call[c].got : i > call[c].made => port[call[c].dbs[i]] \in ports
  BY <1>3
<1>5. ports \subseteq Ports
  BY <1>1, <1>3 DEF PortsOfRows
<1>6. Members(call[c].dbs) \subseteq Dbs
  BY <1>3, MemberFacts
<1>7. HistoryTypes'
  <2>1. faults' \in 0..MaxFaults
    BY <1>1, <1>2, AdmissionAssumption DEF HistoryTypes, Fault
  <2>2. QED
    BY <1>1, <1>2, <1>5, <1>6, <2>1 DEF HistoryTypes
<1> HIDE DEF ports
<1>8. QED
  BY <1>2, <1>4, <1>7, RequestEnds

(* Kept and HasRow after a step, of a database named by the state before.  *)
HasRowThen(d) == status'[d] \notin {"absent", "gone"}
KeptThen(d)   == HasRowThen(d) /\ removal'[d] = "none"

(* The row that is inserted was missing, and nothing had removed it.       *)
LEMMA InsertNextStep ==
  ASSUME AdmissionInv, NEW c \in Calls, InsertNext(c)
  PROVE  AdmissionInv'
<1> DEFINE ids == call[c].dbs
           n == call[c].made + 1
           d == ids[n]
           t == ids[1]
           last == n = Len(ids)
           x == [dbs |-> ids, at |-> "make", done |-> 0]
           k == [call[c] EXCEPT !.made = @ + 1]
<1>1. ServerTypes /\ RowTypes /\ HistoryTypes /\ CallsOK /\ TasksOK /\ PortsOfRows /\ PortsHeld
      /\ IdsApart /\ RowsOfCalls /\ RowsOfTasks /\ RemovedRows /\ ProvisioningIsWorkedOn
  BY InvParts DEF Rows
<1>2. /\ call[c].at = "insert"
      /\ status' = [status EXCEPT ![d] = "provisioning"]
      /\ user' = [user EXCEPT ![d] = call[c].user]
      /\ host' = [host EXCEPT ![d] = call[c].host]
      /\ task' = IF last THEN [task EXCEPT ![t] = x] ELSE task
      /\ call' = [call EXCEPT ![c] = IF last THEN Idle ELSE k]
      /\ UNCHANGED <<allocated, listed, open, max, highest, port, known, clones, ctr, removal, faults,
                     crowd, leaked, failed, disturbed>>
  BY DEF InsertNext, Step, serverVars, history
<1>3. /\ ids \in DbLists /\ Len(ids) \in {1, 2} /\ call[c].got = Len(ids) /\ call[c].made \in 0..2
      /\ n \in 1..Len(ids) /\ call[c].user \in Users \cup {NoUser} /\ call[c].host \in Hosts
      /\ \A i \in 1..Len(ids) : ids[i] \in Members(ids) /\ ids[i] \in Dbs
      /\ \A i, j \in 1..Len(ids) : ids[i] = ids[j] => i = j
      /\ call[c] \in CallType
  <2>1. /\ ids \in DbLists /\ Len(ids) \in {1, 2} /\ call[c].got = Len(ids) /\ call[c].made \in 0..2
        /\ call[c].made < Len(ids) /\ call[c].user \in Users \cup {NoUser} /\ call[c].host \in Hosts
        /\ \A i \in 1..Len(ids) : ids[i] \in Members(ids) /\ ids[i] \in Dbs
        /\ \A i, j \in 1..Len(ids) : ids[i] = ids[j] => i = j
    BY <1>2, RequestFacts
  <2>2. \A m \in 0..2, l \in {1, 2} : m < l => m + 1 \in 1..l
    OBVIOUS
  <2>3. n \in 1..Len(ids)
    BY <2>1, <2>2
  <2>4. QED
    BY <1>1, <2>1, <2>3 DEF CallsOK
<1>4. d \in Dbs /\ d \in Members(ids) /\ t \in Dbs /\ t \in Members(ids)
  BY <1>3
<1>5. status[d] = "absent" /\ removal[d] = "none"
  <2>1. n > call[c].made
    BY <1>3
  <2>2. status[d] = "absent"
    BY <1>1, <1>3, <2>1 DEF RowsOfCalls
  <2>3. removal[d] = "none"
    BY <1>1, <1>4, <2>2 DEF RemovedRows
  <2>4. QED
    BY <2>2, <2>3
<1>6. task[t].dbs = <<>>
  <2>1. SUFFICES ASSUME task[t].dbs # <<>> PROVE FALSE
    OBVIOUS
  <2>2. task[t].dbs \in DbLists /\ task[t].dbs[1] = t
    BY <1>1, <1>4, <2>1 DEF TasksOK, TaskShape
  <2>3. t \in Members(task[t].dbs)
    BY <2>2, ListFacts, MemberFacts
  <2>4. QED
    BY <1>1, <1>4, <2>3 DEF IdsApart
<1>7. /\ status'[d] = "provisioning" /\ \A y \in Dbs \ {d} : status'[y] = status[y]
  BY <1>1, <1>2, <1>4 DEF RowTypes
<1>8. x.dbs = ids /\ x.at = "make" /\ x.done = 0 /\ x \in TaskType
  BY <1>3, StepNames DEF TaskType
<1>9. k.dbs = ids /\ k.made = n /\ k.at = "insert" /\ k.got = call[c].got
  BY <1>2, <1>3 DEF CallType
<1>10. k \in CallType
  <2>1. call[c].made + 1 \in 0..2
    BY <1>3
  <2>2. QED
    BY <1>3, <2>1 DEF CallType
<1> HIDE DEF x, k, last, n, d, t
<1>11. ~last => CallShape(k)
  <2>1. \A m, l \in 0..2 : m \in 1..l /\ m # l => m < l
    OBVIOUS
  <2>2. Len(ids) \in 0..2 /\ n \in 0..2
    BY <1>3
  <2>3. ~last => n < Len(ids)
    BY <1>3, <2>1, <2>2 DEF last
  <2>4. QED
    BY <1>3, <1>9, <2>3 DEF CallShape
<1>12. /\ CallsOK' /\ \A e \in Calls \ {c} : call'[e] = call[e]
       /\ call'[c] = IF last THEN Idle ELSE k
  <2>1. CASE last
    <3>1. call' = [call EXCEPT ![c] = Idle]
      BY <1>2, <2>1
    <3>2. QED
      BY <1>1, <2>1, <3>1, IdleFacts, CallStep
  <2>2. CASE ~last
    <3>1. call' = [call EXCEPT ![c] = k]
      BY <1>2, <2>2
    <3>2. QED
      BY <1>1, <1>10, <1>11, <2>2, <3>1, CallStep
  <2>3. QED
    BY <2>1, <2>2
<1>13. /\ TasksOK' /\ task'[t] = (IF last THEN x ELSE task[t])
       /\ \A u \in Dbs \ {t} : task'[u] = task[u]
  <2>1. TaskShape(t, x)
    <3>1. x.dbs[1] = t /\ 0 < Len(x.dbs)
      BY <1>3, <1>8 DEF t
    <3>2. QED
      BY <1>3, <1>8, <3>1 DEF TaskShape
  <2>2. CASE last
    <3>1. task' = [task EXCEPT ![t] = x]
      BY <1>2, <2>2
    <3>2. QED
      BY <1>1, <1>4, <1>8, <2>1, <2>2, <3>1 DEF TasksOK
  <2>3. CASE ~last
    BY <1>1, <1>2, <2>3 DEF TasksOK
  <2>4. QED
    BY <2>2, <2>3
<1>14. ServerTypes' /\ HistoryTypes'
  BY <1>1, <1>2 DEF ServerTypes, HistoryTypes
<1>15. RowTypes'
  BY <1>1, <1>2, <1>3 DEF RowTypes
<1>16. Members(<<>>) = {} /\ Idle.dbs = <<>> /\ Idle.got = 0
  BY EmptyList, IdleFacts
(* Which ids a request and a task have, before and after the step.         *)
<1>17. /\ \A e \in Calls \ {c} : Members(call'[e].dbs) = Members(call[e].dbs)
       /\ Members(call'[c].dbs) = IF last THEN {} ELSE Members(ids)
       /\ \A u \in Dbs \ {t} : Members(task'[u].dbs) = Members(task[u].dbs)
       /\ Members(task[t].dbs) = {}
       /\ Members(task'[t].dbs) = IF last THEN Members(ids) ELSE {}
  BY <1>6, <1>8, <1>9, <1>12, <1>13, <1>16
<1>18. IdsApart'
  <2>1. \A e, f \in Calls : e # f => Members(call'[e].dbs) \cap Members(call'[f].dbs) = {}
    BY <1>1, <1>17 DEF IdsApart
  <2>2. \A u, v \in Dbs : u # v => Members(task'[u].dbs) \cap Members(task'[v].dbs) = {}
    BY <1>1, <1>17 DEF IdsApart
  <2>3. \A e \in Calls, u \in Dbs : Members(call'[e].dbs) \cap Members(task'[u].dbs) = {}
    BY <1>1, <1>17 DEF IdsApart
  <2>4. QED
    BY <2>1, <2>2, <2>3 DEF IdsApart
<1>19. \A y \in Dbs \ {d} : (KeptThen(y) <=> Kept(y)) /\ (HasRowThen(y) <=> HasRow(y))
  BY <1>2, <1>7 DEF Kept, HasRow, KeptThen, HasRowThen
<1>20. /\ \A e \in Calls : \A i \in 1..Len(call[e].dbs) : call[e].dbs[i] \in Members(call[e].dbs)
       /\ \A u \in Dbs : \A i \in 1..Len(task[u].dbs) : task[u].dbs[i] \in Members(task[u].dbs)
       /\ \A e \in Calls : Members(call[e].dbs) \subseteq Dbs
       /\ \A u \in Dbs : Members(task[u].dbs) \subseteq Dbs
  BY <1>1, IdFacts, MemberFacts
<1>21. RowsOfCalls'
  <2>1. ASSUME NEW e \in Calls, NEW i \in 1..Len(call'[e].dbs)
        PROVE  LET y == call'[e].dbs[i] IN
               /\ status'[y] = "absent" <=> i > call'[e].made
               /\ KeptThen(y) /\ y \notin disturbed' => status'[y] = "provisioning"
               /\ Len(call'[e].dbs) = 2 => y \notin clones'
    <3>1. CASE e # c
      <4>1. call'[e] = call[e] /\ call[e].dbs[i] \in Dbs \ {d}
        <5>1. call'[e] = call[e]
          BY <1>12, <3>1
        <5>2. call[e].dbs[i] \in Members(call[e].dbs) /\ call[e].dbs[i] \in Dbs
          BY <1>20, <2>1, <5>1
        <5>3. QED
          BY <1>1, <1>4, <3>1, <5>1, <5>2 DEF IdsApart
      <4>2. QED
        BY <1>1, <1>2, <1>7, <1>19, <2>1, <4>1 DEF RowsOfCalls
    <3>2. CASE e = c
      <4>1. ~last /\ call'[e].dbs = ids /\ call'[e].made = n /\ i \in 1..Len(ids)
        BY <1>9, <1>12, <1>16, <2>1, <3>2, EmptyList
      <4>2. CASE i = n
        <5>1. ids[i] = d
          BY <4>2 DEF d
        <5>2. ~(i > n)
          BY <1>3, <4>2
        <5>3. Len(ids) = 2 => d \notin clones'
          BY <1>1, <1>2, <1>3, <4>1, <4>2, <5>1 DEF RowsOfCalls
        <5>4. QED
          BY <1>7, <4>1, <5>1, <5>2, <5>3
      <4>3. CASE i # n
        <5>1. ids[i] \in Dbs \ {d}
          BY <1>3, <4>1, <4>3 DEF d
        <5>2. (i > n) <=> (i > call[c].made)
          BY <1>3, <4>1, <4>3 DEF n
        <5>3. QED
          BY <1>1, <1>2, <1>7, <1>19, <4>1, <5>1, <5>2 DEF RowsOfCalls
      <4>4. QED
        BY <4>2, <4>3
    <3>3. QED
      BY <3>1, <3>2
  <2>2. QED
    BY <2>1 DEF RowsOfCalls, Kept, HasRow, KeptThen, HasRowThen
<1>22. \A i \in 1..Len(ids) :
         /\ last => status'[ids[i]] # "absent"
         /\ last /\ KeptThen(ids[i]) /\ ids[i] \notin disturbed => status'[ids[i]] = "provisioning"
         /\ Len(ids) = 2 => ids[i] \notin clones
  <2>1. ASSUME NEW i \in 1..Len(ids), i # n, last
        PROVE  status'[ids[i]] = status[ids[i]] /\ ~(i > call[c].made) /\ (KeptThen(ids[i]) <=> Kept(ids[i]))
    <3>1. ids[i] \in Dbs \ {d}
      BY <1>3, <2>1 DEF d
    <3>2. ~(i > call[c].made)
      BY <1>3, <2>1 DEF n, last
    <3>3. QED
      BY <1>7, <1>19, <3>1, <3>2
  <2>2. ids[n] = d
    BY DEF d
  <2>3. QED
    BY <1>1, <1>3, <1>7, <2>1, <2>2 DEF RowsOfCalls
<1>23. RowsOfTasks'
  <2>1. ASSUME NEW u \in Dbs, NEW i \in 1..Len(task'[u].dbs)
        PROVE  LET y == task'[u].dbs[i] IN
               /\ status'[y] # "absent"
               /\ KeptThen(y) /\ y \notin disturbed' => status'[y] \in Reached(task'[u], i)
               /\ Len(task'[u].dbs) = 2 => y \notin clones'
    <3>1. CASE task'[u] = task[u]
      <4>1. task[u].dbs[i] \in Dbs \ {d}
        <5>1. i \in 1..Len(task[u].dbs)
          BY <2>1, <3>1
        <5>2. task[u].dbs[i] \in Members(task[u].dbs) /\ task[u].dbs[i] \in Dbs
          BY <1>20, <5>1
        <5>3. Members(ids) \cap Members(task[u].dbs) = {}
          BY <1>1 DEF IdsApart
        <5>4. QED
          BY <1>4, <5>2, <5>3
      <4>2. QED
        BY <1>1, <1>2, <1>7, <1>19, <2>1, <3>1, <4>1 DEF RowsOfTasks
    <3>2. CASE task'[u] # task[u]
      <4>1. last /\ u = t /\ task'[u] = x
        BY <1>13, <3>2
      <4>2. Reached(x, i) = {"provisioning"}
        BY <1>8 DEF Reached
      <4>3. QED
        BY <1>2, <1>8, <1>22, <2>1, <4>1, <4>2
    <3>3. QED
      BY <3>1, <3>2
  <2>2. QED
    BY <2>1 DEF RowsOfTasks, Kept, HasRow, KeptThen, HasRowThen
<1>24. RemovedRows'
  BY <1>1, <1>2, <1>5, <1>7 DEF RemovedRows
<1>25. PortsOfRows'
  <2>1. port[d] \in Ports
    BY <1>1, <1>3 DEF PortsOfRows, d
  <2>2. \A y \in Dbs : status'[y] # "absent" => port[y] \in Ports
    BY <1>1, <1>7, <2>1 DEF PortsOfRows
  <2>3. ASSUME NEW e \in Calls, NEW i \in 1..call'[e].got
        PROVE  port[call'[e].dbs[i]] \in Ports
    <3>1. CASE e # c
      BY <1>1, <1>12, <2>3, <3>1 DEF PortsOfRows
    <3>2. CASE e = c
      <4>1. call'[e].dbs = ids /\ call'[e].got = call[c].got
        BY <1>9, <1>12, <1>16, <2>3, <3>2
      <4>2. QED
        BY <1>1, <2>3, <4>1 DEF PortsOfRows
    <3>3. QED
      BY <3>1, <3>2
  <2>4. QED
    BY <1>2, <2>2, <2>3 DEF PortsOfRows
<1>26. PortsHeld'
  <2>1. SUFFICES ASSUME NEW q \in allocated
                 PROVE  \/ \E y \in Dbs : HasRowThen(y) /\ port[y] = q
                        \/ \E e \in Calls : \E i \in 1..call'[e].got :
                             i > call'[e].made /\ port[call'[e].dbs[i]] = q
                        \/ q \in leaked
    BY <1>2 DEF PortsHeld, HasRow, HasRowThen
  <2>2. CASE \E y \in Dbs : HasRow(y) /\ port[y] = q
    BY <1>5, <1>19, <2>2 DEF HasRow
  <2>3. CASE \E e \in Calls : \E i \in 1..call[e].got :
                i > call[e].made /\ port[call[e].dbs[i]] = q
    <3>1. PICK e \in Calls : \E i \in 1..call[e].got :
                i > call[e].made /\ port[call[e].dbs[i]] = q
      BY <2>3
    <3>2. PICK i \in 1..call[e].got : i > call[e].made /\ port[call[e].dbs[i]] = q
      BY <3>1
    <3>3. CASE e # c
      BY <1>12, <3>2, <3>3
    <3>4. CASE e = c /\ i = n
      <4>1. HasRowThen(d) /\ port[d] = q
        BY <1>7, <1>4, <3>2, <3>4 DEF HasRowThen, d
      <4>2. QED
        BY <1>4, <4>1
    <3>5. CASE e = c /\ i # n
      <4>1. i > n /\ ~last
        BY <1>3, <3>2, <3>5 DEF n, last
      <4>2. call'[c].got = call[c].got /\ call'[c].made = n /\ call'[c].dbs = ids
        BY <1>9, <1>12, <4>1
      <4>3. QED
        BY <3>2, <3>5, <4>1, <4>2
    <3>6. QED
      BY <3>3, <3>4, <3>5
  <2>4. QED
    BY <1>1, <2>2, <2>3 DEF PortsHeld
<1>27. ProvisioningIsWorkedOn'
  <2>1. SUFFICES ASSUME NEW y \in Dbs, status'[y] = "provisioning", y \notin disturbed
                 PROVE  \/ \E u \in Dbs : task'[u].at \in TaskSteps /\ y \in Members(task'[u].dbs)
                        \/ \E e \in Calls : y \in Members(call'[e].dbs)
    BY <1>2 DEF ProvisioningIsWorkedOn, Working
  <2>2. CASE y \in Members(ids)
    <3>1. CASE last
      <4>1. task'[t].at \in TaskSteps /\ y \in Members(task'[t].dbs)
        BY <1>8, <1>13, <1>17, <2>2, <3>1, StepNames DEF Working
      <4>2. QED
        BY <1>4, <4>1
    <3>2. CASE ~last
      BY <1>17, <2>2, <3>2
    <3>3. QED
      BY <3>1, <3>2
  <2>3. CASE y \notin Members(ids)
    <3>1. status[y] = "provisioning"
      BY <1>4, <1>7, <2>1, <2>3
    <3>2. CASE \E u \in Dbs : Working(u) /\ y \in Members(task[u].dbs)
      <4>1. PICK u \in Dbs : Working(u) /\ y \in Members(task[u].dbs)
        BY <3>2
      <4>2. u # t
        BY <1>17, <4>1
      <4>3. task'[u].at \in TaskSteps /\ y \in Members(task'[u].dbs)
        BY <1>13, <4>1, <4>2 DEF Working
      <4>4. QED
        BY <4>3
    <3>3. CASE \E e \in Calls : y \in Members(call[e].dbs)
      BY <1>17, <2>3, <3>3
    <3>4. QED
      BY <1>1, <2>1, <3>1, <3>2, <3>3 DEF ProvisioningIsWorkedOn
  <2>4. QED
    BY <2>2, <2>3
<1>28. QED
  BY <1>12, <1>13, <1>14, <1>15, <1>18, <1>21, <1>23, <1>24, <1>25, <1>26, <1>27, InvPartsNext DEF Rows

-----------------------------------------------------------------------------
(* Tasks                                                                   *)

(* A step of a task, which may give rows of its own another status and     *)
(* hand ports back.                                                        *)
LEMMA TaskStep ==
  ASSUME AdmissionInv, NEW t \in Dbs, NEW x \in TaskType, TaskShape(t, x),
         task' = [task EXCEPT ![t] = x], x.dbs = task[t].dbs, RowTypes', HistoryTypes',
         \A y \in Dbs : \/ status'[y] = status[y]
                        \/ HasRow(y) /\ status'[y] \in {"running", "error"},
         \A y \in Dbs : y \notin Members(x.dbs) => status'[y] = status[y],
         \A i \in 1..Len(x.dbs) :
            Kept(x.dbs[i]) /\ x.dbs[i] \notin disturbed' => status'[x.dbs[i]] \in Reached(x, i),
         allocated' \subseteq allocated, disturbed \subseteq disturbed',
         UNCHANGED <<serverVars, port, clones, call, removal, leaked>>
  PROVE  AdmissionInv'
<1>1. ServerTypes /\ RowTypes /\ CallsOK /\ TasksOK /\ PortsOfRows /\ PortsHeld
      /\ IdsApart /\ RowsOfCalls /\ RowsOfTasks /\ RemovedRows /\ ProvisioningIsWorkedOn
  BY InvParts DEF Rows
<1>2. /\ task'[t] = x /\ \A u \in Dbs \ {t} : task'[u] = task[u]
      /\ \A u \in Dbs : task'[u].dbs = task[u].dbs
  BY <1>1 DEF TasksOK
<1>3. TasksOK'
  BY <1>1 DEF TasksOK
<1>4. ServerTypes' /\ CallsOK'
  BY <1>1 DEF ServerTypes, serverVars, CallsOK
<1>5. IdsApart'
  BY <1>1, <1>2 DEF IdsApart
<1>6. \A y \in Dbs : /\ (HasRowThen(y) <=> HasRow(y))
                     /\ (KeptThen(y) <=> Kept(y))
                     /\ (status'[y] = "absent" <=> status[y] = "absent")
  BY DEF HasRowThen, KeptThen, HasRow, Kept
<1>7. /\ \A e \in Calls : \A i \in 1..Len(call[e].dbs) :
            call[e].dbs[i] \in Members(call[e].dbs) /\ call[e].dbs[i] \in Dbs
      /\ \A u \in Dbs : \A i \in 1..Len(task[u].dbs) :
            task[u].dbs[i] \in Members(task[u].dbs) /\ task[u].dbs[i] \in Dbs
  BY <1>1, IdFacts, MemberFacts
<1>8. RowsOfCalls'
  <2>1. ASSUME NEW e \in Calls, NEW i \in 1..Len(call[e].dbs)
        PROVE  LET y == call[e].dbs[i] IN
               /\ status'[y] = "absent" <=> i > call[e].made
               /\ KeptThen(y) /\ y \notin disturbed' => status'[y] = "provisioning"
               /\ Len(call[e].dbs) = 2 => y \notin clones'
    <3>1. call[e].dbs[i] \in Dbs /\ call[e].dbs[i] \notin Members(x.dbs)
      <4>1. call[e].dbs[i] \in Members(call[e].dbs) /\ call[e].dbs[i] \in Dbs
        BY <1>7
      <4>2. Members(call[e].dbs) \cap Members(x.dbs) = {}
        BY <1>1 DEF IdsApart
      <4>3. QED
        BY <4>1, <4>2
    <3>2. status'[call[e].dbs[i]] = status[call[e].dbs[i]]
      BY <3>1
    <3>3. QED
      BY <1>1, <1>6, <3>1, <3>2 DEF RowsOfCalls
  <2>2. QED
    BY <2>1 DEF RowsOfCalls, Kept, HasRow, KeptThen, HasRowThen
<1>9. RowsOfTasks'
  <2>1. ASSUME NEW u \in Dbs, NEW i \in 1..Len(task[u].dbs)
        PROVE  LET y == task[u].dbs[i] IN
               /\ status'[y] # "absent"
               /\ KeptThen(y) /\ y \notin disturbed' => status'[y] \in Reached(task'[u], i)
               /\ Len(task[u].dbs) = 2 => y \notin clones'
    <3>1. task[u].dbs[i] \in Dbs /\ task[u].dbs[i] \in Members(task[u].dbs)
      BY <1>7
    <3>2. CASE u = t
      BY <1>1, <1>2, <1>6, <3>1, <3>2 DEF RowsOfTasks
    <3>3. CASE u # t
      <4>1. status'[task[u].dbs[i]] = status[task[u].dbs[i]]
        BY <1>1, <3>1, <3>3 DEF IdsApart
      <4>2. QED
        BY <1>1, <1>2, <1>6, <3>1, <3>3, <4>1 DEF RowsOfTasks
    <3>4. QED
      BY <3>2, <3>3
  <2>2. QED
    BY <1>2, <2>1 DEF RowsOfTasks, Kept, HasRow, KeptThen, HasRowThen
<1>10. RemovedRows'
  BY <1>1 DEF RemovedRows
<1>11. PortsOfRows'
  BY <1>1, <1>6 DEF PortsOfRows
<1>12. PortsHeld'
  BY <1>1, <1>6 DEF PortsHeld, HasRow, HasRowThen
<1>13. ProvisioningIsWorkedOn'
  <2>1. SUFFICES ASSUME NEW y \in Dbs, status'[y] = "provisioning", y \notin disturbed'
                 PROVE  \/ \E u \in Dbs : task'[u].at \in TaskSteps /\ y \in Members(task[u].dbs)
                        \/ \E e \in Calls : y \in Members(call[e].dbs)
    BY <1>2 DEF ProvisioningIsWorkedOn, Working
  <2>2. status[y] = "provisioning" /\ y \notin disturbed
    BY <2>1
  <2>3. Kept(y)
    BY <1>1, <2>2 DEF Kept, HasRow, RemovedRows
  <2>4. CASE \E u \in Dbs : Working(u) /\ y \in Members(task[u].dbs)
    <3>1. PICK u \in Dbs : Working(u) /\ y \in Members(task[u].dbs)
      BY <2>4
    <3>2. CASE u # t
      BY <1>2, <3>1, <3>2 DEF Working
    <3>3. CASE u = t
      <4>1. PICK i \in 1..Len(x.dbs) : x.dbs[i] = y
        BY <1>1, <3>1, <3>3, IdFacts, MemberFacts
      <4>2. "provisioning" \in Reached(x, i)
        BY <2>1, <2>3, <4>1
      <4>3. x.at \in TaskSteps
        <5>1. x.at \in TaskSteps \cup {"none", "ready", "failed", "lost"}
          BY DEF TaskType
        <5>2. x.at \notin {"none", "ready", "failed", "lost"}
          BY <4>2 DEF Reached
        <5>3. QED
          BY <5>1, <5>2
      <4>4. QED
        BY <1>2, <3>1, <3>3, <4>3
    <3>4. QED
      BY <3>2, <3>3
  <2>5. QED
    BY <1>1, <2>1, <2>2, <2>4 DEF ProvisioningIsWorkedOn
<1>14. QED
  BY <1>3, <1>4, <1>5, <1>8, <1>9, <1>10, <1>11, <1>12, <1>13, InvPartsNext DEF Rows

(* A task that does something has one or two databases, the first its own. *)
LEMMA TaskFacts ==
  ASSUME AdmissionInv, NEW t \in Dbs, Working(t)
  PROVE  LET x == task[t] IN
         /\ x \in TaskType /\ x.dbs \in DbLists /\ Len(x.dbs) \in {1, 2} /\ x.done \in 0..2
         /\ x.at \in {"make", "save"} => x.done + 1 \in 1..Len(x.dbs)
         /\ x.at = "mark" => Len(x.dbs) = 2
         /\ t \in clones => Len(x.dbs) = 1
         /\ x.dbs[1] = t /\ Members(x.dbs) \subseteq Dbs
         /\ \A i \in 1..Len(x.dbs) : x.dbs[i] \in Members(x.dbs) /\ x.dbs[i] \in Dbs
         /\ \A i, j \in 1..Len(x.dbs) : x.dbs[i] = x.dbs[j] => i = j
<1>1. task[t] \in TaskType /\ TaskShape(t, task[t]) /\ task[t].at \in TaskSteps /\ RowsOfTasks
  BY InvParts DEF TasksOK, Working, Rows
<1>2. task[t].at # "none" /\ task[t].done \in 0..2
  BY <1>1, StepNames DEF TaskType
<1>3. task[t].dbs \in DbLists /\ task[t].dbs[1] = t
  BY <1>1, <1>2 DEF TaskShape
<1>4. Len(task[t].dbs) \in {1, 2}
  BY <1>3, ListFacts
<1>5. /\ Members(task[t].dbs) \subseteq Dbs
      /\ \A i \in 1..Len(task[t].dbs) :
            task[t].dbs[i] \in Members(task[t].dbs) /\ task[t].dbs[i] \in Dbs
      /\ \A i, j \in 1..Len(task[t].dbs) : task[t].dbs[i] = task[t].dbs[j] => i = j
  BY <1>3, MemberFacts
<1>6. task[t].at \in {"make", "save"} => task[t].done + 1 \in 1..Len(task[t].dbs)
  <2>1. \A m \in 0..2, l \in {1, 2} : m < l => m + 1 \in 1..l
    OBVIOUS
  <2>2. QED
    BY <1>1, <1>2, <1>4, <2>1 DEF TaskShape
<1>7. t \in clones => Len(task[t].dbs) = 1
  BY <1>1, <1>3, <1>4 DEF RowsOfTasks
<1>8. QED
  BY <1>1, <1>2, <1>3, <1>4, <1>5, <1>6, <1>7 DEF TaskShape

(* The next of a task's databases, or the next thing to do for all.        *)
LEMMA AdvanceFacts ==
  ASSUME AdmissionInv, NEW t \in Dbs, task[t].at \in {"make", "save"},
         NEW last \in {"save", "ready"}, task' = Advance(t, last)
  PROVE  \E x \in TaskType :
           /\ task' = [task EXCEPT ![t] = x] /\ x.dbs = task[t].dbs /\ TaskShape(t, x)
           /\ \/ task[t].done + 1 = Len(x.dbs) /\ x.at = last /\ x.done = 0
              \/ task[t].done + 1 < Len(x.dbs) /\ x.at = task[t].at /\ x.done = task[t].done + 1
<1>1. Working(t)
  BY StepNames DEF Working
<1>2. /\ task[t] \in TaskType /\ task[t].dbs \in DbLists /\ Len(task[t].dbs) \in {1, 2}
      /\ task[t].done \in 0..2 /\ task[t].done + 1 \in 1..Len(task[t].dbs) /\ task[t].dbs[1] = t
  BY <1>1, TaskFacts
<1>3. task \in [Dbs -> TaskType]
  BY InvParts DEF TasksOK
<1>4. CASE task[t].done + 1 = Len(task[t].dbs)
  <2> DEFINE x == [task[t] EXCEPT !.at = last, !.done = 0]
  <2>1. x.dbs = task[t].dbs /\ x.at = last /\ x.done = 0 /\ x \in TaskType
    <3>1. last \in TaskSteps \cup {"none", "ready", "failed", "lost"}
      BY StepNames
    <3>2. 0 \in 0..2
      OBVIOUS
    <3>3. x \in TaskType
      BY <1>2, <3>1, <3>2 DEF TaskType
    <3>4. x.dbs = task[t].dbs /\ x.at = last /\ x.done = 0
      BY <1>2 DEF TaskType
    <3>5. QED
      BY <3>3, <3>4
  <2>2. task' = [task EXCEPT ![t].at = last, ![t].done = 0]
    BY <1>4 DEF Advance
  <2>3. task' = [task EXCEPT ![t] = x]
    BY <1>3, <2>2
  <2> HIDE DEF x
  <2>4. TaskShape(t, x)
    BY <1>2, <2>1 DEF TaskShape
  <2>5. QED
    BY <1>4, <2>1, <2>3, <2>4
<1>5. CASE task[t].done + 1 # Len(task[t].dbs)
  <2> DEFINE x == [task[t] EXCEPT !.done = task[t].done + 1]
  <2>1. task[t].done + 1 < Len(task[t].dbs) /\ task[t].done + 1 \in 0..2
    <3>1. \A m \in 0..2, l \in {1, 2} : m + 1 \in 1..l /\ m + 1 # l => m + 1 < l /\ m + 1 \in 0..2
      OBVIOUS
    <3>2. QED
      BY <1>2, <1>5, <3>1
  <2>2. x.dbs = task[t].dbs /\ x.at = task[t].at /\ x.done = task[t].done + 1 /\ x \in TaskType
    BY <1>2, <2>1 DEF TaskType
  <2>3. task' = [task EXCEPT ![t].done = @ + 1]
    BY <1>5 DEF Advance
  <2>4. task' = [task EXCEPT ![t] = x]
    BY <1>3, <2>3
  <2> HIDE DEF x
  <2>5. TaskShape(t, x)
    BY <1>2, <2>1, <2>2 DEF TaskShape
  <2>6. QED
    BY <2>1, <2>2, <2>4, <2>5
<1>6. QED
  BY <1>4, <1>5

(* What the rows of a task that makes or saves may be.                     *)
LEMMA ReachedNow ==
  ASSUME AdmissionInv, NEW t \in Dbs, Working(t), NEW i \in 1..Len(task[t].dbs),
         Kept(task[t].dbs[i]), task[t].dbs[i] \notin disturbed
  PROVE  status[task[t].dbs[i]] \in Reached(task[t], i)
BY InvParts DEF Rows, RowsOfTasks

LEMMA MakeContainerStep ==
  ASSUME AdmissionInv, NEW t \in Dbs, MakeContainer(t) \/ MakeCloneElsewhere(t)
  PROVE  AdmissionInv'
<1>1. RowTypes /\ HistoryTypes
  BY InvParts
<1>2. /\ task[t].at = "make" /\ task' = Advance(t, "save")
      /\ ctr' = ctr \/ ctr' = ctr \cup {Current(t)}
      /\ UNCHANGED <<allocated, serverVars, status, user, host, port, known, clones, call, removal,
                     faults, crowd, leaked, failed, disturbed>>
  BY DEF MakeContainer, MakeCloneElsewhere, rowVars, history
<1>3. Working(t)
  BY <1>2, StepNames DEF Working
<1>4. PICK x \in TaskType :
        /\ task' = [task EXCEPT ![t] = x] /\ x.dbs = task[t].dbs /\ TaskShape(t, x)
        /\ \/ x.at = "save" /\ x.done = 0
           \/ x.at = "make"
  BY <1>2, AdvanceFacts
<1>5. Current(t) \in Dbs
  BY <1>2, <1>3, TaskFacts DEF Current
<1>6. RowTypes' /\ HistoryTypes'
  BY <1>1, <1>2, <1>5 DEF RowTypes, HistoryTypes
<1>7. ASSUME NEW i \in 1..Len(x.dbs), Kept(x.dbs[i]), x.dbs[i] \notin disturbed'
      PROVE  status'[x.dbs[i]] \in Reached(x, i)
  <2>1. status[x.dbs[i]] \in Reached(task[t], i)
    BY <1>2, <1>3, <1>4, <1>7, ReachedNow
  <2>2. Reached(task[t], i) = {"provisioning"}
    BY <1>2 DEF Reached
  <2>3. Reached(x, i) = {"provisioning"}
    BY <1>4 DEF Reached
  <2>4. QED
    BY <1>2, <2>1, <2>2, <2>3
<1>8. QED
  BY <1>2, <1>4, <1>6, <1>7, TaskStep

LEMMA SaveProvisionedStep ==
  ASSUME AdmissionInv, NEW t \in Dbs, SaveProvisioned(t)
  PROVE  AdmissionInv'
<1> DEFINE n == task[t].done + 1
           d == task[t].dbs[n]
<1>1. RowTypes /\ HistoryTypes
  BY InvParts
<1>2. /\ task[t].at = "save" /\ task' = Advance(t, "ready")
      /\ status' = IF HasRow(d) THEN [status EXCEPT ![d] = "running"] ELSE status
      /\ known' = IF HasRow(d) THEN known \cup {d} ELSE known
      /\ UNCHANGED <<allocated, serverVars, user, host, port, clones, ctr, call, removal,
                     faults, crowd, leaked, failed, disturbed>>
  BY DEF SaveProvisioned, Current, history
<1>3. Working(t)
  BY <1>2, StepNames DEF Working
<1>4. /\ n \in 1..Len(task[t].dbs) /\ d \in Dbs /\ d \in Members(task[t].dbs)
      /\ \A i, j \in 1..Len(task[t].dbs) : task[t].dbs[i] = task[t].dbs[j] => i = j
      /\ \A i \in 1..Len(task[t].dbs) : task[t].dbs[i] \in Dbs
      /\ task[t].done \in 0..2 /\ Len(task[t].dbs) \in {1, 2}
  BY <1>2, <1>3, TaskFacts
<1>5. PICK x \in TaskType :
        /\ task' = [task EXCEPT ![t] = x] /\ x.dbs = task[t].dbs /\ TaskShape(t, x)
        /\ \/ n = Len(x.dbs) /\ x.at = "ready"
           \/ n < Len(x.dbs) /\ x.at = "save" /\ x.done = n
  BY <1>2, AdvanceFacts
<1>6. /\ \A y \in Dbs \ {d} : status'[y] = status[y]
      /\ status'[d] = status[d] \/ (HasRow(d) /\ status'[d] = "running")
      /\ HasRow(d) => status'[d] = "running"
  BY <1>1, <1>2, <1>4 DEF RowTypes
<1>7. RowTypes' /\ HistoryTypes'
  <2>1. status' \in [Dbs -> {"absent", "provisioning", "running", "stopped",
                             "error", "deleting", "gone"}]
    BY <1>1, <1>2 DEF RowTypes
  <2>2. known' \subseteq Dbs
    BY <1>1, <1>2, <1>4 DEF RowTypes
  <2>3. QED
    BY <1>1, <1>2, <2>1, <2>2 DEF RowTypes, HistoryTypes
<1> HIDE DEF n, d
<1>8. ASSUME NEW i \in 1..Len(x.dbs), Kept(x.dbs[i]), x.dbs[i] \notin disturbed'
      PROVE  status'[x.dbs[i]] \in Reached(x, i)
  <2>1. CASE i = n
    <3>1. x.dbs[i] = d
      BY <1>5, <2>1 DEF d
    <3>2. status'[d] = "running"
      BY <1>6, <1>8, <3>1 DEF Kept
    <3>3. "running" \in Reached(x, i)
      BY <1>4, <1>5, <2>1 DEF Reached
    <3>4. QED
      BY <3>1, <3>2, <3>3
  <2>2. CASE i # n
    <3>1. x.dbs[i] \in Dbs \ {d}
      BY <1>4, <1>5, <1>8, <2>2 DEF d
    <3>2. status[x.dbs[i]] \in Reached(task[t], i)
      BY <1>2, <1>3, <1>5, <1>8, ReachedNow
    <3>3. Reached(task[t], i) = IF i < n THEN {"running"} ELSE {"provisioning"}
      <4>1. i <= task[t].done <=> i < n
        BY <1>4, <1>8 DEF n
      <4>2. QED
        BY <1>2, <4>1 DEF Reached
    <3>4. Reached(x, i) = IF i < n THEN {"running"} ELSE {"provisioning"}
      <4>1. CASE x.at = "ready"
        <5>1. i < n
          BY <1>4, <1>5, <2>2, <4>1
        <5>2. QED
          BY <4>1, <5>1 DEF Reached
      <4>2. CASE x.at = "save" /\ x.done = n
        <5>1. i <= x.done <=> i < n
          BY <1>4, <2>2, <4>2
        <5>2. QED
          BY <4>2, <5>1 DEF Reached
      <4>3. QED
        BY <1>5, <4>1, <4>2
    <3>5. QED
      BY <1>6, <3>1, <3>2, <3>3, <3>4
  <2>3. QED
    BY <2>1, <2>2
<1>9. \A y \in Dbs : y \notin Members(x.dbs) => status'[y] = status[y]
  BY <1>4, <1>5, <1>6
<1>10. QED
  BY <1>2, <1>5, <1>6, <1>7, <1>8, <1>9, TaskStep

LEMMA SaveCloneFailsStep ==
  ASSUME AdmissionInv, NEW t \in Dbs, SaveCloneFails(t)
  PROVE  AdmissionInv'
<1>1. RowTypes /\ HistoryTypes
  BY InvParts
<1>2. /\ task[t].at = "save" /\ t \in clones /\ task' = Advance(t, "ready")
      /\ Fault /\ disturbed' = disturbed \cup {t}
      /\ UNCHANGED <<allocated, serverVars, status, user, host, port, known, clones, ctr, call,
                     removal, crowd, leaked, failed>>
  BY DEF SaveCloneFails, rowVars
<1>3. Working(t)
  BY <1>2, StepNames DEF Working
<1>4. Len(task[t].dbs) = 1 /\ task[t].dbs[1] = t
  BY <1>2, <1>3, TaskFacts
<1>5. PICK x \in TaskType :
        task' = [task EXCEPT ![t] = x] /\ x.dbs = task[t].dbs /\ TaskShape(t, x)
  BY <1>2, AdvanceFacts
<1>6. RowTypes' /\ HistoryTypes'
  BY <1>1, <1>2, AdmissionAssumption DEF RowTypes, HistoryTypes, Fault
<1>7. \A i \in 1..Len(x.dbs) : x.dbs[i] \in disturbed'
  BY <1>2, <1>4, <1>5
<1>8. QED
  BY <1>2, <1>5, <1>6, <1>7, TaskStep

LEMMA MarkFacts ==
  ASSUME AdmissionInv, NEW d \in Dbs, MarkRow(d)
  PROVE  /\ status' \in [Dbs -> {"absent", "provisioning", "running", "stopped",
                                 "error", "deleting", "gone"}]
         /\ faults' \in 0..MaxFaults /\ disturbed' \subseteq Dbs /\ disturbed \subseteq disturbed'
         /\ \A y \in Dbs \ {d} : status'[y] = status[y]
         /\ status'[d] = status[d] \/ (HasRow(d) /\ status'[d] = "error")
         /\ HasRow(d) => status'[d] = "error" \/ d \in disturbed'
<1>1. RowTypes /\ HistoryTypes
  BY InvParts
<1>2. CASE /\ status' = IF HasRow(d) THEN [status EXCEPT ![d] = "error"] ELSE status
           /\ UNCHANGED <<faults, disturbed>>
  BY <1>1, <1>2 DEF RowTypes, HistoryTypes
<1>3. CASE Fault /\ disturbed' = disturbed \cup {d} /\ UNCHANGED status
  BY <1>1, <1>3, AdmissionAssumption DEF RowTypes, HistoryTypes, Fault
<1>4. QED
  BY <1>2, <1>3 DEF MarkRow

LEMMA ProvisioningFailsStep ==
  ASSUME AdmissionInv, NEW t \in Dbs, ProvisioningFails(t)
  PROVE  AdmissionInv'
<1> DEFINE x == [task[t] EXCEPT !.at = AfterMark(t)]
<1>1. RowTypes /\ HistoryTypes /\ task \in [Dbs -> TaskType]
  BY InvParts DEF TasksOK
<1>2. /\ task[t].at \in {"make", "save"} /\ MarkRow(task[t].dbs[1])
      /\ task' = [task EXCEPT ![t].at = AfterMark(t)]
      /\ failed' = failed \cup Members(task[t].dbs)
      /\ UNCHANGED <<allocated, serverVars, user, host, port, known, clones, ctr, call, removal,
                     crowd, leaked>>
  BY DEF ProvisioningFails
<1>3. Working(t)
  BY <1>2, StepNames DEF Working
<1>4. /\ task[t] \in TaskType /\ task[t].dbs \in DbLists /\ Len(task[t].dbs) \in {1, 2}
      /\ task[t].dbs[1] = t /\ (t \in clones => Len(task[t].dbs) = 1)
      /\ Members(task[t].dbs) \subseteq Dbs /\ t \in Members(task[t].dbs)
      /\ \A i \in 1..Len(task[t].dbs) : task[t].dbs[i] \in Dbs
      /\ \A i, j \in 1..Len(task[t].dbs) : task[t].dbs[i] = task[t].dbs[j] => i = j
  BY <1>3, TaskFacts, ListFacts
<1>5. /\ AfterMark(t) \in {"release", "mark", "failed"}
      /\ AfterMark(t) = "mark" <=> Len(task[t].dbs) = 2
  BY <1>4 DEF AfterMark
<1>6. x.dbs = task[t].dbs /\ x.at = AfterMark(t)
  BY <1>4 DEF TaskType
<1>7. x \in TaskType
  <2>1. AfterMark(t) \in TaskSteps \cup {"none", "ready", "failed", "lost"}
    BY <1>5, StepNames
  <2>2. QED
    BY <1>4, <2>1 DEF TaskType
<1>8. task' = [task EXCEPT ![t] = x]
  BY <1>1, <1>2
<1> HIDE DEF x
<1>9. TaskShape(t, x)
  BY <1>4, <1>5, <1>6 DEF TaskShape
<1>10. /\ status' \in [Dbs -> {"absent", "provisioning", "running", "stopped",
                               "error", "deleting", "gone"}]
       /\ faults' \in 0..MaxFaults /\ disturbed' \subseteq Dbs /\ disturbed \subseteq disturbed'
       /\ \A y \in Dbs \ {t} : status'[y] = status[y]
       /\ status'[t] = status[t] \/ (HasRow(t) /\ status'[t] = "error")
       /\ HasRow(t) => status'[t] = "error" \/ t \in disturbed'
  BY <1>2, <1>4, MarkFacts
<1>11. RowTypes' /\ HistoryTypes'
  BY <1>1, <1>2, <1>4, <1>10 DEF RowTypes, HistoryTypes
<1>12. ASSUME NEW i \in 1..Len(x.dbs), Kept(x.dbs[i]), x.dbs[i] \notin disturbed'
       PROVE  status'[x.dbs[i]] \in Reached(x, i)
  <2>1. CASE i = 1
    <3>1. status'[x.dbs[i]] = "error"
      BY <1>4, <1>6, <1>10, <1>12, <2>1 DEF Kept
    <3>2. "error" \in Reached(x, i)
      BY <1>5, <1>6, <2>1 DEF Reached
    <3>3. QED
      BY <3>1, <3>2
  <2>2. CASE i # 1
    <3>1. Len(task[t].dbs) = 2 /\ i = 2
      BY <1>4, <1>6, <1>12, <2>2
    <3>2. x.dbs[i] \in Dbs /\ x.dbs[i] # t
      <4>1. 1 \in 1..Len(task[t].dbs) /\ i \in 1..Len(task[t].dbs)
        BY <1>6, <3>1
      <4>2. QED
        BY <1>4, <1>6, <2>2, <4>1
    <3>3. status[x.dbs[i]] \in Reached(task[t], i)
      BY <1>3, <1>6, <1>10, <1>12, ReachedNow
    <3>4. status[x.dbs[i]] \in {"provisioning", "running"}
      BY <1>2, <3>3 DEF Reached
    <3>5. Reached(x, i) = {"provisioning", "running"}
      BY <1>5, <1>6, <3>1 DEF Reached
    <3>6. QED
      BY <1>10, <3>2, <3>4, <3>5
  <2>3. QED
    BY <2>1, <2>2
<1>13. /\ \A y \in Dbs : status'[y] = status[y] \/ (HasRow(y) /\ status'[y] \in {"running", "error"})
       /\ \A y \in Dbs : y \notin Members(x.dbs) => status'[y] = status[y]
  BY <1>4, <1>6, <1>10
<1>14. QED
  BY <1>2, <1>6, <1>7, <1>8, <1>9, <1>10, <1>11, <1>12, <1>13, TaskStep

LEMMA MarkSecondStep ==
  ASSUME AdmissionInv, NEW t \in Dbs, MarkSecond(t)
  PROVE  AdmissionInv'
<1> DEFINE x == [task[t] EXCEPT !.at = "release"]
           d == task[t].dbs[2]
<1>1. RowTypes /\ HistoryTypes /\ task \in [Dbs -> TaskType]
  BY InvParts DEF TasksOK
<1>2. /\ task[t].at = "mark" /\ MarkRow(d)
      /\ task' = [task EXCEPT ![t].at = "release"]
      /\ UNCHANGED <<allocated, serverVars, user, host, port, known, clones, ctr, call, removal,
                     crowd, leaked, failed>>
  BY DEF MarkSecond
<1>3. Working(t)
  BY <1>2, StepNames DEF Working
<1>4. /\ task[t] \in TaskType /\ task[t].dbs \in DbLists /\ Len(task[t].dbs) = 2
      /\ task[t].dbs[1] = t
      /\ d \in Members(task[t].dbs) /\ d \in Dbs /\ t # d
  BY <1>2, <1>3, TaskFacts, ListFacts
<1>5. x.dbs = task[t].dbs /\ x.at = "release"
  BY <1>4 DEF TaskType
<1>6. x \in TaskType
  <2>1. "release" \in TaskSteps \cup {"none", "ready", "failed", "lost"}
    BY StepNames
  <2>2. QED
    BY <1>4, <2>1 DEF TaskType
<1>7. task' = [task EXCEPT ![t] = x]
  BY <1>1, <1>2
<1> HIDE DEF x
<1>8. TaskShape(t, x)
  BY <1>4, <1>5 DEF TaskShape
<1>9. /\ status' \in [Dbs -> {"absent", "provisioning", "running", "stopped",
                              "error", "deleting", "gone"}]
      /\ faults' \in 0..MaxFaults /\ disturbed' \subseteq Dbs /\ disturbed \subseteq disturbed'
      /\ \A y \in Dbs \ {d} : status'[y] = status[y]
      /\ status'[d] = status[d] \/ (HasRow(d) /\ status'[d] = "error")
      /\ HasRow(d) => status'[d] = "error" \/ d \in disturbed'
  BY <1>2, <1>4, MarkFacts
<1>10. RowTypes' /\ HistoryTypes'
  BY <1>1, <1>2, <1>9 DEF RowTypes, HistoryTypes
<1>11. ASSUME NEW i \in 1..Len(x.dbs), Kept(x.dbs[i]), x.dbs[i] \notin disturbed'
       PROVE  status'[x.dbs[i]] \in Reached(x, i)
  <2>1. Reached(x, i) = {"error"}
    BY <1>5 DEF Reached
  <2>2. CASE i = 2
    BY <1>5, <1>9, <1>11, <2>1, <2>2 DEF Kept
  <2>3. CASE i = 1
    <3>1. status[x.dbs[i]] \in Reached(task[t], i)
      BY <1>3, <1>5, <1>9, <1>11, ReachedNow
    <3>2. Reached(task[t], i) = {"error"}
      BY <1>2, <2>3 DEF Reached
    <3>3. status'[x.dbs[i]] = status[x.dbs[i]]
      BY <1>4, <1>5, <1>9, <2>3
    <3>4. QED
      BY <2>1, <3>1, <3>2, <3>3
  <2>4. QED
    BY <1>4, <1>5, <1>11, <2>2, <2>3
<1>12. /\ \A y \in Dbs : status'[y] = status[y] \/ (HasRow(y) /\ status'[y] \in {"running", "error"})
       /\ \A y \in Dbs : y \notin Members(x.dbs) => status'[y] = status[y]
  BY <1>4, <1>5, <1>9
<1>13. QED
  BY <1>2, <1>5, <1>6, <1>7, <1>8, <1>9, <1>10, <1>11, <1>12, TaskStep

LEMMA ReleaseAfterErrorStep ==
  ASSUME AdmissionInv, NEW t \in Dbs, ReleaseAfterError(t)
  PROVE  AdmissionInv'
<1> DEFINE x == [task[t] EXCEPT !.at = "failed", !.done = 0]
<1>1. RowTypes /\ HistoryTypes /\ task \in [Dbs -> TaskType]
  BY InvParts DEF TasksOK
<1>2. /\ task[t].at = "release" /\ allocated' \subseteq allocated
      /\ task' = [task EXCEPT ![t].at = "failed", ![t].done = 0]
      /\ UNCHANGED <<serverVars, status, user, host, port, known, clones, ctr, call, removal,
                     faults, crowd, leaked, failed, disturbed>>
  BY DEF ReleaseAfterError, rowVars, history
<1>3. Working(t)
  BY <1>2, StepNames DEF Working
<1>4. task[t] \in TaskType /\ task[t].dbs \in DbLists /\ task[t].dbs[1] = t
  BY <1>3, TaskFacts
<1>5. x.dbs = task[t].dbs /\ x.at = "failed"
  BY <1>4 DEF TaskType
<1>6. x \in TaskType
  <2>1. "failed" \in TaskSteps \cup {"none", "ready", "failed", "lost"} /\ 0 \in 0..2
    OBVIOUS
  <2>2. QED
    BY <1>4, <2>1 DEF TaskType
<1>7. task' = [task EXCEPT ![t] = x]
  BY <1>1, <1>2
<1> HIDE DEF x
<1>8. TaskShape(t, x)
  BY <1>4, <1>5 DEF TaskShape
<1>9. RowTypes' /\ HistoryTypes'
  BY <1>1, <1>2 DEF RowTypes, HistoryTypes
<1>10. ASSUME NEW i \in 1..Len(x.dbs), Kept(x.dbs[i]), x.dbs[i] \notin disturbed'
       PROVE  status'[x.dbs[i]] \in Reached(x, i)
  <2>1. Reached(x, i) = {"error"} /\ Reached(task[t], i) = {"error"}
    BY <1>2, <1>5 DEF Reached
  <2>2. status[x.dbs[i]] \in Reached(task[t], i)
    BY <1>2, <1>3, <1>5, <1>10, ReachedNow
  <2>3. QED
    BY <1>2, <2>1, <2>2
<1>11. QED
  BY <1>2, <1>5, <1>6, <1>7, <1>8, <1>9, <1>10, TaskStep

-----------------------------------------------------------------------------
(* Actions on databases, and their removal                                 *)

(* A step that gives one row another status, of a user who acts on it or   *)
(* removes it.                                                             *)
LEMMA RowStep ==
  ASSUME AdmissionInv, NEW d \in Dbs, status[d] # "absent",
         status'[d] \notin {"absent", "provisioning"},
         removal'[d] # "none" \/ d \in disturbed',
         \A y \in Dbs \ {d} : status'[y] = status[y] /\ removal'[y] = removal[y],
         removal[d] # "none" => removal'[d] # "none",
         RowTypes', HistoryTypes', allocated' \subseteq allocated, disturbed \subseteq disturbed',
         HasRow(d) => status'[d] # "gone" \/ port[d] \notin allocated',
         UNCHANGED <<serverVars, port, clones, call, task, leaked>>
  PROVE  AdmissionInv'
<1>1. ServerTypes /\ RowTypes /\ CallsOK /\ TasksOK /\ PortsOfRows /\ PortsHeld
      /\ IdsApart /\ RowsOfCalls /\ RowsOfTasks /\ RemovedRows /\ ProvisioningIsWorkedOn
  BY InvParts DEF Rows
<1>2. ServerTypes' /\ CallsOK' /\ TasksOK' /\ IdsApart'
  BY <1>1 DEF ServerTypes, serverVars, CallsOK, TasksOK, IdsApart
<1>3. \A y \in Dbs : /\ (status'[y] = "absent" <=> status[y] = "absent")
                     /\ (status'[y] = "provisioning" => status[y] = "provisioning" /\ y # d)
                     /\ (KeptThen(y) /\ y \notin disturbed' =>
                           y # d /\ Kept(y) /\ y \notin disturbed /\ status'[y] = status[y])
  BY DEF KeptThen, HasRowThen, Kept, HasRow
<1>4. /\ \A e \in Calls : \A i \in 1..Len(call[e].dbs) : call[e].dbs[i] \in Dbs
      /\ \A u \in Dbs : \A i \in 1..Len(task[u].dbs) : task[u].dbs[i] \in Dbs
  BY <1>1, IdFacts, MemberFacts
<1>5. RowsOfCalls'
  <2>1. ASSUME NEW e \in Calls, NEW i \in 1..Len(call[e].dbs)
        PROVE  LET y == call[e].dbs[i] IN
               /\ status'[y] = "absent" <=> i > call[e].made
               /\ KeptThen(y) /\ y \notin disturbed' => status'[y] = "provisioning"
               /\ Len(call[e].dbs) = 2 => y \notin clones'
    BY <1>1, <1>3, <1>4 DEF RowsOfCalls
  <2>2. QED
    BY <2>1 DEF RowsOfCalls, Kept, HasRow, KeptThen, HasRowThen
<1>6. RowsOfTasks'
  <2>1. ASSUME NEW u \in Dbs, NEW i \in 1..Len(task[u].dbs)
        PROVE  LET y == task[u].dbs[i] IN
               /\ status'[y] # "absent"
               /\ KeptThen(y) /\ y \notin disturbed' => status'[y] \in Reached(task[u], i)
               /\ Len(task[u].dbs) = 2 => y \notin clones'
    BY <1>1, <1>3, <1>4 DEF RowsOfTasks
  <2>2. \A u \in Dbs : task'[u] = task[u]
    OBVIOUS
  <2>3. QED
    BY <2>1, <2>2 DEF RowsOfTasks, Kept, HasRow, KeptThen, HasRowThen
<1>7. RemovedRows'
  BY <1>1 DEF RemovedRows
<1>8. PortsOfRows'
  BY <1>1, <1>3 DEF PortsOfRows
<1>9. PortsHeld'
  <2>1. SUFFICES ASSUME NEW q \in allocated'
                 PROVE  \/ \E y \in Dbs : HasRowThen(y) /\ port[y] = q
                        \/ \E e \in Calls : \E i \in 1..call[e].got :
                             i > call[e].made /\ port[call[e].dbs[i]] = q
                        \/ q \in leaked
    BY DEF PortsHeld, HasRow, HasRowThen
  <2>2. CASE \E y \in Dbs : HasRow(y) /\ port[y] = q
    <3>1. PICK y \in Dbs : HasRow(y) /\ port[y] = q
      BY <2>2
    <3>2. HasRowThen(y)
      BY <2>1, <3>1 DEF HasRow, HasRowThen
    <3>3. QED
      BY <3>1, <3>2
  <2>3. QED
    BY <1>1, <2>1, <2>2 DEF PortsHeld
<1>10. ProvisioningIsWorkedOn'
  BY <1>1, <1>3 DEF ProvisioningIsWorkedOn, Working
<1>11. QED
  BY <1>2, <1>5, <1>6, <1>7, <1>8, <1>9, <1>10, InvPartsNext DEF Rows

LEMMA ActStep ==
  ASSUME AdmissionInv, NEW d \in Dbs, NEW s \in {"running", "stopped"}, Act(d, s)
  PROVE  AdmissionInv'
<1>1. RowTypes /\ HistoryTypes
  BY InvParts
<1>2. /\ HasRow(d) /\ status' = [status EXCEPT ![d] = s] /\ disturbed' = disturbed \cup {d}
      /\ UNCHANGED <<allocated, serverVars, user, host, port, known, clones, ctr, call, task,
                     removal, faults, crowd, leaked, failed>>
  BY DEF Act
<1>3. RowTypes' /\ HistoryTypes'
  BY <1>1, <1>2 DEF RowTypes, HistoryTypes
<1>4. status'[d] = s /\ \A y \in Dbs \ {d} : status'[y] = status[y]
  BY <1>1, <1>2 DEF RowTypes
<1>5. QED
  BY <1>2, <1>3, <1>4, RowStep DEF HasRow

LEMMA MarkDeletingStep ==
  ASSUME AdmissionInv, NEW d \in Dbs, MarkDeleting(d)
  PROVE  AdmissionInv'
<1>1. RowTypes /\ HistoryTypes
  BY InvParts
<1>2. /\ HasRow(d) /\ removal[d] = "none" /\ status' = [status EXCEPT ![d] = "deleting"]
      /\ removal' = [removal EXCEPT ![d] = IF d \in known THEN "known" ELSE "unknown"]
      /\ UNCHANGED <<allocated, serverVars, user, host, port, known, clones, ctr, call, task,
                     faults, crowd, leaked, failed, disturbed>>
  BY DEF MarkDeleting, history
<1>3. RowTypes' /\ HistoryTypes'
  BY <1>1, <1>2, StepNames DEF RowTypes, HistoryTypes
<1>4. /\ status'[d] = "deleting" /\ removal'[d] # "none"
      /\ \A y \in Dbs \ {d} : status'[y] = status[y] /\ removal'[y] = removal[y]
  BY <1>1, <1>2 DEF RowTypes
<1>5. QED
  BY <1>2, <1>3, <1>4, RowStep DEF HasRow

LEMMA CleanUpStep ==
  ASSUME AdmissionInv, NEW d \in Dbs, CleanUp(d)
  PROVE  AdmissionInv'
<1>1. RowTypes /\ HistoryTypes /\ RemovedRows
  BY InvParts DEF Rows
<1>2. /\ removal[d] \in {"known", "unknown"}
      /\ \/ status' = [status EXCEPT ![d] = "gone"] /\ UNCHANGED faults
         \/ Fault /\ UNCHANGED status
      /\ ctr' = IF removal[d] = "known" THEN ctr \ {d} ELSE ctr
      /\ allocated' = allocated \ {port[d]} /\ removal' = [removal EXCEPT ![d] = "done"]
      /\ UNCHANGED <<serverVars, user, host, port, known, clones, call, task, crowd, leaked,
                     failed, disturbed>>
  BY DEF CleanUp, ReleasePort, history
<1>3. status' \in [Dbs -> {"absent", "provisioning", "running", "stopped",
                           "error", "deleting", "gone"}]
      /\ ctr' \subseteq Dbs /\ removal' \in [Dbs -> Removing \cup {"none", "done", "lost"}]
      /\ faults' \in 0..MaxFaults
  BY <1>1, <1>2, AdmissionAssumption DEF RowTypes, HistoryTypes, Fault
<1>4. RowTypes' /\ HistoryTypes'
  BY <1>1, <1>2, <1>3 DEF RowTypes, HistoryTypes
<1>5. status[d] \notin {"absent", "provisioning"}
  BY <1>1, <1>2 DEF RemovedRows
<1>6. /\ status'[d] \notin {"absent", "provisioning"} /\ removal'[d] # "none"
      /\ \A y \in Dbs \ {d} : status'[y] = status[y] /\ removal'[y] = removal[y]
  BY <1>1, <1>2, <1>5 DEF RowTypes
<1>7. QED
  BY <1>2, <1>4, <1>5, <1>6, RowStep

-----------------------------------------------------------------------------
(* A restart cuts requests and tasks short, and reads the pool from rows.  *)

LEMMA RestartStep ==
  ASSUME AdmissionInv, Restart
  PROVE  AdmissionInv'
<1> DEFINE cut == (UNION {Members(call[c].dbs) : c \in Calls})
                  \cup (UNION {Members(task[t].dbs) : t \in {u \in Dbs : Working(u)}})
<1>1. ServerTypes /\ RowTypes /\ HistoryTypes /\ CallsOK /\ TasksOK /\ PortsOfRows
      /\ IdsApart /\ RowsOfTasks /\ RemovedRows /\ ProvisioningIsWorkedOn
  BY InvParts DEF Rows
<1>2. /\ Fault
      /\ allocated' = {port[d] : d \in {e \in Dbs : HasRow(e) /\ status[e] # "deleting"}}
      /\ call' = [c \in Calls |-> Idle]
      /\ task' = [t \in Dbs |-> IF Working(t) THEN [task[t] EXCEPT !.at = "lost"] ELSE task[t]]
      /\ removal' = [d \in Dbs |-> IF removal[d] \in Removing THEN "lost" ELSE removal[d]]
      /\ leaked' = {} /\ disturbed' = disturbed \cup cut
      /\ UNCHANGED <<serverVars, status, user, host, port, known, clones, ctr, crowd, failed>>
  BY DEF Restart, LoadAllocated, rowVars
<1>3. /\ \A e \in Calls : Members(call[e].dbs) \subseteq cut
      /\ \A u \in Dbs : Working(u) => Members(task[u].dbs) \subseteq cut
  OBVIOUS
<1>4. cut \subseteq Dbs
  BY <1>1, IdFacts
<1> HIDE DEF cut
<1>5. \A e \in Calls : call'[e] = Idle
  BY <1>2
<1>6. CallsOK'
  BY <1>2, IdleFacts DEF CallsOK
<1>7. \A u \in Dbs :
        /\ task'[u] \in TaskType /\ task'[u].dbs = task[u].dbs
        /\ task'[u].at = IF Working(u) THEN "lost" ELSE task[u].at
        /\ ~Working(u) => task'[u] = task[u]
  BY <1>1, <1>2 DEF TasksOK, TaskType
<1>8. TasksOK'
  <2>1. ASSUME NEW u \in Dbs
        PROVE  TaskShape(u, task'[u])
    <3>1. TaskShape(u, task[u])
      BY <1>1 DEF TasksOK
    <3>2. CASE Working(u)
      BY <1>7, <3>1, <3>2, StepNames DEF TaskShape, Working
    <3>3. CASE ~Working(u)
      BY <1>7, <3>1, <3>3
    <3>4. QED
      BY <3>2, <3>3
  <2>2. task' \in [Dbs -> TaskType]
    BY <1>2, <1>7
  <2>3. QED
    BY <2>1, <2>2 DEF TasksOK
<1>9. ServerTypes' /\ RowTypes'
  BY <1>1, <1>2 DEF ServerTypes, serverVars, RowTypes
<1>10. HistoryTypes'
  <2>1. allocated' \subseteq Ports
    BY <1>1, <1>2 DEF PortsOfRows, HasRow
  <2>2. faults' \in 0..MaxFaults
    BY <1>1, <1>2, AdmissionAssumption DEF HistoryTypes, Fault
  <2>3. QED
    BY <1>1, <1>2, <1>4, <2>1, <2>2 DEF HistoryTypes
<1>11. \A e \in Calls : Members(call'[e].dbs) = {} /\ Len(call'[e].dbs) = 0 /\ call'[e].got = 0
  BY <1>5, IdleFacts, EmptyList
<1>12. IdsApart'
  BY <1>1, <1>7, <1>11 DEF IdsApart
<1>13. RowsOfCalls'
  BY <1>11 DEF RowsOfCalls
<1>14. \A y \in Dbs : (removal'[y] = "none" <=> removal[y] = "none") /\ (KeptThen(y) <=> Kept(y))
  BY <1>2, StepNames DEF KeptThen, HasRowThen, Kept, HasRow
<1>15. RowsOfTasks'
  <2>1. ASSUME NEW u \in Dbs, NEW i \in 1..Len(task[u].dbs)
        PROVE  LET y == task[u].dbs[i] IN
               /\ status'[y] # "absent"
               /\ KeptThen(y) /\ y \notin disturbed' => status'[y] \in Reached(task'[u], i)
               /\ Len(task[u].dbs) = 2 => y \notin clones'
    <3>1. task[u].dbs[i] \in Dbs /\ task[u].dbs[i] \in Members(task[u].dbs)
      BY <1>1, IdFacts, MemberFacts
    <3>2. CASE Working(u)
      BY <1>1, <1>2, <1>3, <3>1, <3>2 DEF RowsOfTasks
    <3>3. CASE ~Working(u)
      BY <1>1, <1>2, <1>7, <1>14, <3>1, <3>3 DEF RowsOfTasks
    <3>4. QED
      BY <3>2, <3>3
  <2>2. QED
    BY <1>7, <2>1 DEF RowsOfTasks, Kept, HasRow, KeptThen, HasRowThen
<1>16. RemovedRows'
  BY <1>1, <1>2, <1>14 DEF RemovedRows
<1>17. PortsOfRows'
  BY <1>1, <1>2, <1>11 DEF PortsOfRows
<1>18. PortsHeld'
  BY <1>2 DEF PortsHeld, HasRow
<1>19. ProvisioningIsWorkedOn'
  BY <1>1, <1>2, <1>3 DEF ProvisioningIsWorkedOn
<1>20. QED
  BY <1>6, <1>8, <1>9, <1>10, <1>12, <1>13, <1>15, <1>16, <1>17, <1>18, <1>19, InvPartsNext DEF Rows

-----------------------------------------------------------------------------
LEMMA NextInv == AdmissionInv /\ [Next]_vars => AdmissionInv'
<1> SUFFICES ASSUME AdmissionInv, [Next]_vars PROVE AdmissionInv'
  OBVIOUS
<1>1. ASSUME NEW c \in Calls, NEW u \in Users, NEW dbs \in DbLists, CountRows(c, u, dbs)
      PROVE  AdmissionInv'
  BY <1>1, CountRowsStep
<1>2. ASSUME NEW c \in Calls, NEW src \in Dbs, NEW d \in Dbs, CountClone(c, src, d)
      PROVE  AdmissionInv'
  BY <1>2, CountCloneStep
<1>3. ASSUME NEW c \in Calls, NEW s \in Servers, ReadServer(c, s) \/ CountServer(c, s)
      PROVE  AdmissionInv'
  BY <1>3, ReadServerStep
<1>4. ASSUME NEW c \in Calls, Create(c)
      PROVE  AdmissionInv'
  BY <1>4, ChooseServerStep, RejectStep, AllocateNextStep, GiveBackFirstStep, InsertNextStep,
     InsertFailsStep DEF Create
<1>5. ASSUME NEW c \in Calls, WriteServer(c) \/ DeleteServer(c)
      PROVE  AdmissionInv'
  BY <1>5, WriteServerStep
<1>6. ASSUME NEW t \in Dbs, Provision(t)
      PROVE  AdmissionInv'
  BY <1>6, MakeContainerStep, SaveProvisionedStep, ProvisioningFailsStep, SaveCloneFailsStep,
     MarkSecondStep, ReleaseAfterErrorStep DEF Provision
<1>7. ASSUME NEW d \in Handled, Remove(d) \/ \E s \in {"running", "stopped"} : Act(d, s)
      PROVE  AdmissionInv'
  <2>1. d \in Dbs
    BY AdmissionAssumption
  <2>2. QED
    BY <1>7, <2>1, MarkDeletingStep, CleanUpStep, ActStep DEF Remove
<1>8. ASSUME NEW s \in Servers, CreateServer(s)
      PROVE  AdmissionInv'
  BY <1>8, CreateServerStep
<1>9. ASSUME UNCHANGED vars
      PROVE  AdmissionInv'
  <2>1. ServerTypes /\ RowTypes /\ HistoryTypes /\ CallsOK /\ TasksOK /\ Rows
        /\ PortsOfRows /\ PortsHeld /\ ProvisioningIsWorkedOn
    BY InvParts
  <2>2. ServerTypes' /\ RowTypes' /\ HistoryTypes' /\ CallsOK' /\ TasksOK'
    BY <1>9, <2>1 DEF vars, ServerTypes, RowTypes, HistoryTypes, CallsOK, TasksOK
  <2>3. Rows'
    BY <1>9, <2>1 DEF vars, Rows, IdsApart, RowsOfCalls, RowsOfTasks, RemovedRows, Kept, HasRow
  <2>4. PortsOfRows' /\ PortsHeld' /\ ProvisioningIsWorkedOn'
    BY <1>9, <2>1 DEF vars, PortsOfRows, PortsHeld, ProvisioningIsWorkedOn, HasRow, Working
  <2>5. QED
    BY <2>2, <2>3, <2>4, InvPartsNext
<1>10. QED
  BY <1>1, <1>2, <1>3, <1>4, <1>5, <1>6, <1>7, <1>8, <1>9, RestartStep DEF Next

LEMMA Invariance == Spec => []AdmissionInv
<1>1. Init => AdmissionInv
  BY InitInv
<1>2. AdmissionInv /\ [Next]_vars => AdmissionInv'
  BY NextInv
<1>3. QED
  BY <1>1, <1>2, PTL DEF Spec

(* The variables of admission and placement have their types.              *)
THEOREM TypeCorrect == Spec => []TypeOK
<1>1. AdmissionInv => TypeOK
  BY DEF AdmissionInv
<1>2. QED
  BY <1>1, Invariance, PTL

(* What is shown as provisioning is in the hands of a task or a request    *)
(* (create_database, create_bundle, clone_database), unless one was cut    *)
(* short.                                                                  *)
THEOREM ProvisioningWorkedOn == Spec => []ProvisioningIsWorkedOn
<1>1. AdmissionInv => ProvisioningIsWorkedOn
  BY DEF AdmissionInv
<1>2. QED
  BY <1>1, Invariance, PTL

(* A port of the pool is that of a row, or of a request that took it, or   *)
(* of a row that could not be inserted.                                    *)
THEOREM PortsHoldersKnown == Spec => []PortsHaveHolders
<1>1. AdmissionInv => PortsHaveHolders
  <2>1. SUFFICES ASSUME AdmissionInv, NEW p \in allocated
                 PROVE  \/ \E d \in Dbs : HasRow(d) /\ port[d] = p
                        \/ \E c \in Calls : \E i \in 1..call[c].got : port[call[c].dbs[i]] = p
                        \/ p \in leaked
    BY DEF PortsHaveHolders
  <2>2. PortsHeld
    BY <2>1 DEF AdmissionInv
  <2>3. QED
    BY <2>2 DEF PortsHeld
<1>2. QED
  BY <1>1, Invariance, PTL

(* When the task of create_bundle is over, the two rows have the same      *)
(* status, unless a fault, a removal or an action came between.            *)
THEOREM BundleHalvesAlike == Spec => []BundleHalvesAgree
<1>1. AdmissionInv => BundleHalvesAgree
  <2>1. SUFFICES ASSUME AdmissionInv, NEW t \in Dbs, task[t].at \in {"ready", "release", "failed"},
                        NEW d \in Members(task[t].dbs), Kept(d), d \notin disturbed
                 PROVE  status[d] = IF task[t].at = "ready" THEN "running" ELSE "error"
    BY DEF BundleHalvesAgree
  <2>2. CallsOK /\ TasksOK /\ RowsOfTasks
    BY <2>1, InvParts DEF Rows
  <2>3. PICK i \in 1..Len(task[t].dbs) : task[t].dbs[i] = d
    BY <2>2, IdFacts, MemberFacts
  <2>4. status[d] \in Reached(task[t], i)
    BY <2>1, <2>2, <2>3 DEF RowsOfTasks
  <2>5. QED
    BY <2>1, <2>4 DEF Reached
<1>2. QED
  BY <1>1, Invariance, PTL
=============================================================================
