----------------------- MODULE DatabaseLifecycleProofs -----------------------
(***************************************************************************)
(* Proofs about DatabaseLifecycle, for any number of databases, users,     *)
(* servers, concurrent calls, restarts and database faults: that the       *)
(* conjunction LifecycleInv is inductive, that the safety properties       *)
(* follow from it, and that every step is one the status promise allows.   *)
(* There is one lemma per conjunct and, in it, one step per action.        *)
(***************************************************************************)
EXTENDS DatabaseLifecycle, TLAPS

(* The conjuncts of TypeOK about the slots.                                *)
SlotsTypeOK ==
  /\ op     \in [Requests -> {"none"} \cup Actions \cup Removals]
  /\ at     \in [Requests -> RequestSteps]
  /\ target \in [Requests -> Dbs \cup {NoDb}]
  /\ snap   \in [Requests -> BOOLEAN]

(* The invariant holds at the start, when no row exists.                   *)
LEMMA InitInv == Init => LifecycleInv
<1> SUFFICES ASSUME Init PROVE LifecycleInv
  OBVIOUS
<1> USE DEF Init
<1>1. TypeOK
  <2>1. restarts \in 0..MaxRestarts /\ dbFaults \in 0..MaxDbFaults
    BY LifecycleAssumption
  <2>2. status \in [Dbs -> Statuses] /\ pc \in [Dbs -> CreateSteps]
    BY DEF Statuses, CreateSteps, HandlerSteps
  <2>3. SlotsTypeOK
    BY DEF SlotsTypeOK, RequestSteps
  <2>4. QED
    BY <2>1, <2>2, <2>3 DEF TypeOK, SlotsTypeOK
<1>2. RowInv /\ MeterInv /\ CallInv
  BY DEF RowInv, MeterInv, CallInv, HandlerSteps, TaskSteps, FailSteps,
         SavedSteps, HasRow, Actions, Removals
<1>3. PortInv
  BY DEF PortInv, PortExclusion, Holders
<1>4. ExistInv
  BY DEF ExistInv, HasRow
<1>5. QED
  BY <1>1, <1>2, <1>3, <1>4 DEF LifecycleInv

-----------------------------------------------------------------------------
(* Steps that need more than the definition of their action *)

(* update_provisioned writes a row that exists, or nothing.                *)
LEMMA RowSave ==
  ASSUME TypeOK, RowInv, NEW d \in Dbs, SaveProvisioned(d)
  PROVE  RowInv'
<1>1. pc[d] = "routed" /\ pc' = [pc EXCEPT ![d] = "saved"]
  BY DEF SaveProvisioned
<1>2. known' = [known EXCEPT ![d] = HasRow(d)]
  BY DEF SaveProvisioned
<1>3. status' = [status EXCEPT ![d] = IF HasRow(d) THEN "running" ELSE "absent"]
  BY DEF SaveProvisioned, SetStatus, HasRow, TypeOK
<1>4. ASSUME NEW e \in Dbs, e # d
      PROVE  pc'[e] = pc[e] /\ known'[e] = known[e] /\ status'[e] = status[e]
  BY <1>1, <1>2, <1>3, <1>4 DEF TypeOK
<1>5. /\ pc'[d] = "saved" /\ (known'[d] <=> HasRow(d)) /\ (HasRow(d)' <=> HasRow(d))
      /\ status'[d] \in {"running", "absent"}
  BY <1>1, <1>2, <1>3 DEF TypeOK, HasRow
<1>6. QED
  BY <1>4, <1>5 DEF RowInv, HasRow, HandlerSteps, SavedSteps, TaskSteps, FailSteps, TypeOK

(* No call is at work on a database that create_database has not inserted. *)
LEMMA CallTake ==
  ASSUME TypeOK, RowInv, CallInv, NEW d \in Dbs, TakePort(d) \/ InsertRow(d)
  PROVE  CallInv'
<1>1. pc[d] \in HandlerSteps /\ \E s \in CreateSteps : pc' = [pc EXCEPT ![d] = s]
  BY DEF TakePort, InsertRow, HandlerSteps, CreateSteps, TaskSteps
<1>2. UNCHANGED slots
  BY DEF TakePort, InsertRow
<1>3. \A r \in Requests : op[r] # "none" => pc'[target[r]] = pc[target[r]]
  BY <1>1 DEF CallInv, TypeOK
<1>4. QED
  BY <1>1, <1>2, <1>3 DEF CallInv, slots, TypeOK, SavedSteps, HandlerSteps

(* Handing a port back disturbs no other holder: before the first port is  *)
(* handed back twice, only one database holds it.                          *)
LEMMA PortRelease ==
  ASSUME TypeOK, PortInv, NEW d \in Dbs, port[d] # NoPort, ReleaseFor(d),
         UNCHANGED port, pc[d] \notin {"unborn", "counted"},
         \A e \in Dbs : pc'[e] = pc[e] \/ (pc'[e] = "failed" /\ e = d)
  PROVE  PortInv'
<1>1. \A e \in Dbs :
       /\ pc'[e] \in {"unborn", "counted"} => port'[e] = NoPort
       /\ port'[e] = NoPort => pc'[e] \in {"unborn", "counted", "rejected"}
       /\ e \in released' => port'[e] # NoPort
  BY DEF TypeOK, PortInv, ReleaseFor
<1>2. ASSUME ~overdrawn'
      PROVE  ~overdrawn /\ d \in Holders /\ Holders' = Holders \ {d}
  BY <1>2 DEF ReleaseFor, Holders, TypeOK
<1>3. PortExclusion'
  BY <1>2 DEF ReleaseFor, ReleasePort, PortExclusion, PortInv, Holders
<1>4. QED
  BY <1>1, <1>3 DEF PortInv

(* NoPort is not a port: the range is one of 16-bit numbers.               *)
LEMMA PortsAreReal == NoPort \notin Ports
<1>1. PortStart \in Nat /\ PortEnd \in Nat
  BY PortRangeAssumption
<1>2. \A p \in PortStart..PortEnd : p >= 0
  BY <1>1
<1>3. QED
  BY <1>2 DEF Ports, NoPort

(* The pool marks the port it hands out, which no holder has.              *)
LEMMA PortTake ==
  ASSUME TypeOK, PortInv, NEW d \in Dbs, TakePort(d)
  PROVE  PortInv'
<1>1. pc[d] = "counted" /\ port[d] = NoPort /\ UNCHANGED history
  BY DEF TakePort, PortInv
<1>2. CASE UNCHANGED <<allocated, port>> /\ pc' = [pc EXCEPT ![d] = "rejected"]
  <2>1. PortExclusion'
    BY <1>1, <1>2 DEF PortInv, PortExclusion, Holders, history
  <2>2. QED
    BY <1>1, <1>2, <2>1 DEF PortInv, TypeOK, history
<1>3. ASSUME NEW p \in Ports \ allocated, allocated' = allocated \cup {p},
             port' = [port EXCEPT ![d] = p], pc' = [pc EXCEPT ![d] = "allocated"]
      PROVE  PortInv'
  <2>1. p # NoPort
    BY PortsAreReal
  <2>2. Holders' = Holders \cup {d} /\ d \notin Holders
    BY <1>1, <1>3, <2>1 DEF Holders, TypeOK, PortInv, history
  <2>3. PortExclusion'
    BY <1>1, <1>3, <2>2 DEF PortInv, PortExclusion, Holders, TypeOK, history
  <2>4. QED
    BY <1>1, <1>3, <2>1, <2>3 DEF PortInv, TypeOK, history
<1>4. QED
  BY <1>2, <1>3 DEF TakePort, AllocatePort, Exhausted

LEMMA PortInsert ==
  ASSUME TypeOK, PortInv, NEW d \in Dbs, InsertRow(d)
  PROVE  PortInv'
<1>1. pc[d] = "allocated" /\ \E s \in {"spawned", "rejected"} : pc' = [pc EXCEPT ![d] = s]
  BY DEF InsertRow
<1>2. UNCHANGED <<allocated, port, released, overdrawn>>
  BY DEF InsertRow, idVars, history
<1>3. PortExclusion'
  BY <1>2 DEF PortInv, PortExclusion, Holders
<1>4. port[d] # NoPort
  BY <1>1 DEF PortInv
<1>5. QED
  BY <1>1, <1>2, <1>3, <1>4 DEF PortInv, TypeOK

(* The pool rebuilt at a start holds the port of every row it read, so the *)
(* databases that hold a port afterwards held it before.                   *)
LEMMA PortReload ==
  ASSUME TypeOK, PortInv, Restart
  PROVE  PortInv'
<1>1. PICK loaded \in {LoadedRows, {}} :
        /\ LoadAllocated({port[d] : d \in loaded})
        /\ released' = {d \in Dbs : port[d] # NoPort} \ loaded
        /\ overdrawn' = (overdrawn \/ released \cap loaded # {})
  BY DEF Restart
<1>2. loaded \subseteq Dbs /\ UNCHANGED port
  BY DEF LoadedRows, Restart, idVars
<1>3. Holders' = {d \in loaded : port[d] # NoPort}
  BY <1>1, <1>2 DEF Holders
<1>4. ~overdrawn' => ~overdrawn /\ Holders' \subseteq Holders
  BY <1>1, <1>2, <1>3 DEF Holders
<1>5. PortExclusion'
  BY <1>1, <1>2, <1>3, <1>4 DEF PortExclusion, PortInv, LoadAllocated
<1>6. \A d \in Dbs :
       /\ pc'[d] \in {"unborn", "counted"} => pc[d] = "unborn"
       /\ pc[d] \in {"unborn", "counted", "rejected"} =>
            pc'[d] \in {"unborn", "rejected"}
  BY DEF Restart, TypeOK, TaskSteps, FailSteps
<1>7. QED
  BY <1>1, <1>2, <1>5, <1>6 DEF PortInv

-----------------------------------------------------------------------------
(* Every variable stays in its set.                                        *)
LEMMA TypeStep ==
  ASSUME TypeOK, RowInv, CallInv, PortInv, [Next]_vars
  PROVE  TypeOK'
<1> USE DEF TypeOK, rowVars, idVars, docker, slots, bounds, history
<1>1. ASSUME NEW d \in Dbs, CountRows(d) PROVE TypeOK'
  BY <1>1 DEF CountRows, CreateSteps, HandlerSteps
<1>2. ASSUME NEW d \in Dbs, TakePort(d) PROVE TypeOK'
  BY <1>2 DEF TakePort, CreateSteps, HandlerSteps, AllocatePort, Exhausted
<1>3. ASSUME NEW d \in Dbs, InsertRow(d) PROVE TypeOK'
  BY <1>3, LifecycleAssumption DEF InsertRow, CreateSteps, HandlerSteps,
     TaskSteps, Statuses, DbOk, DbFault
<1>4. ASSUME NEW d \in Dbs, CreateNetwork(d) PROVE TypeOK'
  BY <1>4 DEF CreateNetwork, CreateSteps, TaskSteps
<1>5. ASSUME NEW d \in Dbs, CreateContainer(d) PROVE TypeOK'
  BY <1>5 DEF CreateContainer, CreateSteps, TaskSteps
<1>6. ASSUME NEW d \in Dbs, StartContainer(d) PROVE TypeOK'
  BY <1>6 DEF StartContainer, CreateSteps, TaskSteps
<1>7. ASSUME NEW d \in Dbs, PublishRoute(d) PROVE TypeOK'
  BY <1>7 DEF PublishRoute, CreateSteps, TaskSteps
<1>8. ASSUME NEW d \in Dbs, SaveProvisioned(d) PROVE TypeOK'
  BY <1>8 DEF SaveProvisioned, CreateSteps, SavedSteps, Statuses, DbOk,
     SetStatus, HasRow
<1>9. ASSUME NEW d \in Dbs, RecordStart(d) PROVE TypeOK'
  BY <1>9, LifecycleAssumption DEF RecordStart, CreateSteps, SavedSteps, DbOk,
     DbFault
<1>10. ASSUME NEW d \in Dbs, ProvisioningFails(d) PROVE TypeOK'
  BY <1>10, LifecycleAssumption DEF ProvisioningFails, CreateSteps, FailSteps,
     DbOk, DbFault
<1>11. ASSUME NEW d \in Dbs, MarkError(d) PROVE TypeOK'
  BY <1>11, LifecycleAssumption DEF MarkError, CreateSteps, FailSteps,
     Statuses, SetStatus, DbOk, DbFault
<1>12. ASSUME NEW d \in Dbs, ReleaseAfterError(d) PROVE TypeOK'
  BY <1>12 DEF ReleaseAfterError, CreateSteps, FailSteps, ReleaseFor,
     ReleasePort
<1>13. ASSUME NEW r \in Requests, NEW d \in Dbs, NEW o \in Actions \cup Removals, Find(r, d, o)
       PROVE  TypeOK'
  BY <1>13 DEF Find, RequestSteps
<1>14. ASSUME NEW r \in Requests, MeterStop(r) PROVE TypeOK'
  BY <1>14, LifecycleAssumption DEF MeterStop, RequestSteps, Goto, DbOk,
     DbFault
<1>15. ASSUME NEW r \in Requests, MarkDeleting(r) PROVE TypeOK'
  <2>1. status' \in [Dbs -> Statuses]
    BY <1>15 DEF MarkDeleting, SetStatus, Statuses
  <2>2. dbFaults' \in 0..MaxDbFaults
    BY <1>15, LifecycleAssumption DEF MarkDeleting, DbOk, DbFault
  <2>3. SlotsTypeOK'
    BY <1>15 DEF MarkDeleting, Goto, End, RequestSteps, SlotsTypeOK
  <2>4. QED
    BY <1>15, <2>1, <2>2, <2>3 DEF MarkDeleting, SlotsTypeOK
<1>16. ASSUME NEW r \in Requests, SpawnCleanup(r) PROVE TypeOK'
  BY <1>16 DEF SpawnCleanup, RequestSteps, Goto, End
<1>17. ASSUME NEW r \in Requests, RemoveContainer(r) PROVE TypeOK'
  <2>1. target[r] \in Dbs
    BY <1>17 DEF RemoveContainer, CallInv
  <2>2. ctr' \in [Dbs -> {"none", "created", "running", "stopped"}]
    BY <1>17 DEF RemoveContainer
  <2>3. UNCHANGED net \/ \E b \in BOOLEAN : net' = [net EXCEPT ![target[r]] = b]
    BY <1>17, <2>1, Zenon DEF RemoveContainer
  <2>4. net' \in [Dbs -> BOOLEAN]
    BY <2>3, Zenon
  <2>5. SlotsTypeOK'
    BY <1>17 DEF RemoveContainer, Goto, RequestSteps, SlotsTypeOK
  <2>6. QED
    BY <1>17, <2>2, <2>4, <2>5 DEF RemoveContainer, SlotsTypeOK
<1>18. ASSUME NEW r \in Requests, MeterForcedStop(r) PROVE TypeOK'
  BY <1>18, LifecycleAssumption DEF MeterForcedStop, RequestSteps, Goto, DbOk,
     DbFault
<1>19. ASSUME NEW r \in Requests, RemoveRoute(r) PROVE TypeOK'
  BY <1>19 DEF RemoveRoute, RequestSteps, Goto
<1>20. ASSUME NEW r \in Requests, DeleteRow(r) PROVE TypeOK'
  <2>1. status' \in [Dbs -> Statuses] /\ known' \in [Dbs -> BOOLEAN]
    BY <1>20 DEF DeleteRow, Statuses
  <2>2. dbFaults' \in 0..MaxDbFaults
    BY <1>20, LifecycleAssumption DEF DeleteRow, DbOk, DbFault
  <2>3. SlotsTypeOK'
    BY <1>20 DEF DeleteRow, Goto, End, RequestSteps, SlotsTypeOK
  <2>4. QED
    BY <1>20, <2>1, <2>2, <2>3 DEF DeleteRow, SlotsTypeOK
<1>21. ASSUME NEW r \in Requests, ReleaseAfterDelete(r) PROVE TypeOK'
  <2>1. target[r] \in Dbs
    BY <1>21 DEF ReleaseAfterDelete, CallInv, Removals
  <2>2. allocated' \subseteq Ports /\ released' \subseteq Dbs /\ overdrawn' \in BOOLEAN
    BY <1>21, <2>1 DEF ReleaseAfterDelete, ReleaseFor, ReleasePort
  <2>3. SlotsTypeOK'
    BY <1>21 DEF ReleaseAfterDelete, End, RequestSteps, SlotsTypeOK
  <2>4. QED
    BY <1>21, <2>2, <2>3 DEF ReleaseAfterDelete, SlotsTypeOK
<1>22. ASSUME NEW r \in Requests, ActInDocker(r) PROVE TypeOK'
  BY <1>22 DEF ActInDocker, RequestSteps, Goto
<1>23. ASSUME NEW r \in Requests, ActionFails(r) PROVE TypeOK'
  BY <1>23 DEF ActionFails, RequestSteps, End
<1>24. ASSUME NEW r \in Requests, UpdateStatus(r) PROVE TypeOK'
  <2>1. status' \in [Dbs -> Statuses]
    BY <1>24 DEF UpdateStatus, SetStatus, Statuses
  <2>2. dbFaults' \in 0..MaxDbFaults
    BY <1>24, LifecycleAssumption DEF UpdateStatus, DbOk, DbFault
  <2>3. SlotsTypeOK'
    BY <1>24 DEF UpdateStatus, Goto, End, RequestSteps, SlotsTypeOK
  <2>4. QED
    BY <1>24, <2>1, <2>2, <2>3 DEF UpdateStatus, SlotsTypeOK
<1>25. ASSUME NEW r \in Requests, RecordAction(r) PROVE TypeOK'
  BY <1>25, LifecycleAssumption DEF RecordAction, RequestSteps, End, DbOk,
     DbFault
<1>26. CASE Restart
  <2>1. PICK loaded \in {LoadedRows, {}} :
          /\ IF loaded = LoadedRows THEN DbOk ELSE DbFault
          /\ LoadAllocated({port[d] : d \in loaded})
          /\ released' = {d \in Dbs : port[d] # NoPort} \ loaded
          /\ overdrawn' = (overdrawn \/ released \cap loaded # {})
    BY <1>26 DEF Restart
  <2>2. \A d \in loaded : d \in Dbs /\ port[d] \in Ports
    BY DEF LoadedRows, RowInv, PortInv, HandlerSteps
  <2>3. allocated' \subseteq Ports /\ released' \subseteq Dbs /\ overdrawn' \in BOOLEAN
    BY <2>1, <2>2 DEF LoadAllocated
  <2>4. restarts' \in 0..MaxRestarts /\ dbFaults' \in 0..MaxDbFaults
    BY <1>26, <2>1, LifecycleAssumption DEF Restart, DbOk, DbFault
  <2>5. pc' \in [Dbs -> CreateSteps]
    BY <1>26 DEF Restart, CreateSteps, HandlerSteps, SavedSteps
  <2>6. SlotsTypeOK'
    BY <1>26 DEF Restart, RequestSteps, SlotsTypeOK
  <2>7. QED
    BY <1>26, <2>3, <2>4, <2>5, <2>6 DEF Restart, SlotsTypeOK
<1>27. CASE UNCHANGED vars
  BY <1>27 DEF vars
<1>28. QED
  BY <1>1, <1>2, <1>3, <1>4, <1>5, <1>6, <1>7, <1>8, <1>9, <1>10, <1>11,
     <1>12, <1>13, <1>14, <1>15, <1>16, <1>17, <1>18, <1>19, <1>20, <1>21,
     <1>22, <1>23, <1>24, <1>25, <1>26, <1>27 DEF Next, Create, Provision,
     Remove, Act

(* The row and the task that provisions it agree.                          *)
LEMMA RowStep ==
  ASSUME TypeOK, RowInv, CallInv, [Next]_vars
  PROVE  RowInv'
<1> USE DEF TypeOK, RowInv, CallInv, rowVars, idVars, docker, slots, bounds,
      history
<1>1. ASSUME NEW d \in Dbs, CountRows(d) PROVE RowInv'
  BY <1>1 DEF CountRows, HasRow, SetStatus, HandlerSteps, TaskSteps,
     FailSteps, SavedSteps
<1>2. ASSUME NEW d \in Dbs, TakePort(d) PROVE RowInv'
  BY <1>2 DEF TakePort, HasRow, SetStatus, HandlerSteps, TaskSteps, FailSteps,
     SavedSteps
<1>3. ASSUME NEW d \in Dbs, InsertRow(d) PROVE RowInv'
  BY <1>3 DEF InsertRow, HasRow, SetStatus, HandlerSteps, TaskSteps,
     FailSteps, SavedSteps
<1>4. ASSUME NEW d \in Dbs, CreateNetwork(d) PROVE RowInv'
  BY <1>4 DEF CreateNetwork, HasRow, SetStatus, HandlerSteps, TaskSteps,
     FailSteps, SavedSteps
<1>5. ASSUME NEW d \in Dbs, CreateContainer(d) PROVE RowInv'
  BY <1>5 DEF CreateContainer, HasRow, SetStatus, HandlerSteps, TaskSteps,
     FailSteps, SavedSteps
<1>6. ASSUME NEW d \in Dbs, StartContainer(d) PROVE RowInv'
  BY <1>6 DEF StartContainer, HasRow, SetStatus, HandlerSteps, TaskSteps,
     FailSteps, SavedSteps
<1>7. ASSUME NEW d \in Dbs, PublishRoute(d) PROVE RowInv'
  BY <1>7 DEF PublishRoute, HasRow, SetStatus, HandlerSteps, TaskSteps,
     FailSteps, SavedSteps
<1>8. ASSUME NEW d \in Dbs, SaveProvisioned(d) PROVE RowInv'
  BY <1>8, RowSave
<1>9. ASSUME NEW d \in Dbs, RecordStart(d) PROVE RowInv'
  BY <1>9 DEF RecordStart, HasRow, SetStatus, HandlerSteps, TaskSteps,
     FailSteps, SavedSteps
<1>10. ASSUME NEW d \in Dbs, ProvisioningFails(d) PROVE RowInv'
  BY <1>10 DEF ProvisioningFails, HasRow, SetStatus, HandlerSteps, TaskSteps,
     FailSteps, SavedSteps
<1>11. ASSUME NEW d \in Dbs, MarkError(d) PROVE RowInv'
  BY <1>11 DEF MarkError, HasRow, SetStatus, HandlerSteps, TaskSteps,
     FailSteps, SavedSteps
<1>12. ASSUME NEW d \in Dbs, ReleaseAfterError(d) PROVE RowInv'
  BY <1>12 DEF ReleaseAfterError, HasRow, SetStatus, HandlerSteps, TaskSteps,
     FailSteps, SavedSteps
<1>13. ASSUME NEW r \in Requests, NEW d \in Dbs, NEW o \in Actions \cup Removals, Find(r, d, o)
       PROVE  RowInv'
  BY <1>13 DEF Find, HasRow, SetStatus, HandlerSteps, TaskSteps, FailSteps,
     SavedSteps
<1>14. ASSUME NEW r \in Requests, MeterStop(r) PROVE RowInv'
  BY <1>14 DEF MeterStop, HasRow, SetStatus, HandlerSteps, TaskSteps,
     FailSteps, SavedSteps
<1>15. ASSUME NEW r \in Requests, MarkDeleting(r) PROVE RowInv'
  BY <1>15 DEF MarkDeleting, HasRow, SetStatus, HandlerSteps, TaskSteps,
     FailSteps, SavedSteps
<1>16. ASSUME NEW r \in Requests, SpawnCleanup(r) PROVE RowInv'
  BY <1>16 DEF SpawnCleanup, HasRow, SetStatus, HandlerSteps, TaskSteps,
     FailSteps, SavedSteps
<1>17. ASSUME NEW r \in Requests, RemoveContainer(r) PROVE RowInv'
  BY <1>17 DEF RemoveContainer, HasRow, SetStatus, HandlerSteps, TaskSteps,
     FailSteps, SavedSteps
<1>18. ASSUME NEW r \in Requests, MeterForcedStop(r) PROVE RowInv'
  BY <1>18 DEF MeterForcedStop, HasRow, SetStatus, HandlerSteps, TaskSteps,
     FailSteps, SavedSteps
<1>19. ASSUME NEW r \in Requests, RemoveRoute(r) PROVE RowInv'
  BY <1>19 DEF RemoveRoute, HasRow, SetStatus, HandlerSteps, TaskSteps,
     FailSteps, SavedSteps
<1>20. ASSUME NEW r \in Requests, DeleteRow(r) PROVE RowInv'
  BY <1>20 DEF DeleteRow, HasRow, SetStatus, HandlerSteps, TaskSteps,
     FailSteps, SavedSteps
<1>21. ASSUME NEW r \in Requests, ReleaseAfterDelete(r) PROVE RowInv'
  BY <1>21 DEF ReleaseAfterDelete, HasRow, SetStatus, HandlerSteps, TaskSteps,
     FailSteps, SavedSteps
<1>22. ASSUME NEW r \in Requests, ActInDocker(r) PROVE RowInv'
  BY <1>22 DEF ActInDocker, HasRow, SetStatus, HandlerSteps, TaskSteps,
     FailSteps, SavedSteps
<1>23. ASSUME NEW r \in Requests, ActionFails(r) PROVE RowInv'
  BY <1>23 DEF ActionFails, HasRow, SetStatus, HandlerSteps, TaskSteps,
     FailSteps, SavedSteps
<1>24. ASSUME NEW r \in Requests, UpdateStatus(r) PROVE RowInv'
  BY <1>24 DEF UpdateStatus, HasRow, SetStatus, HandlerSteps, TaskSteps,
     FailSteps, SavedSteps
<1>25. ASSUME NEW r \in Requests, RecordAction(r) PROVE RowInv'
  BY <1>25 DEF RecordAction, HasRow, SetStatus, HandlerSteps, TaskSteps,
     FailSteps, SavedSteps
<1>26. CASE Restart
  BY <1>26 DEF Restart, LoadedRows, LoadAllocated, HasRow, SetStatus,
     HandlerSteps, TaskSteps, FailSteps, SavedSteps
<1>27. CASE UNCHANGED vars
  BY <1>27 DEF vars, HasRow, SetStatus, HandlerSteps, TaskSteps, FailSteps,
     SavedSteps
<1>28. QED
  BY <1>1, <1>2, <1>3, <1>4, <1>5, <1>6, <1>7, <1>8, <1>9, <1>10, <1>11,
     <1>12, <1>13, <1>14, <1>15, <1>16, <1>17, <1>18, <1>19, <1>20, <1>21,
     <1>22, <1>23, <1>24, <1>25, <1>26, <1>27 DEF Next, Create, Provision,
     Remove, Act

(* A call works on a row that was inserted, an action on one whose         *)
(* provisioning has succeeded.                                             *)
LEMMA CallStep ==
  ASSUME TypeOK, RowInv, CallInv, [Next]_vars
  PROVE  CallInv'
<1> USE DEF TypeOK, RowInv, CallInv, rowVars, idVars, docker, slots, bounds,
      history
<1>1. ASSUME NEW d \in Dbs, CountRows(d) PROVE CallInv'
  BY <1>1 DEF CountRows, HasRow, HandlerSteps, TaskSteps, FailSteps,
     SavedSteps, Actions, Removals, Goto, End
<1>2. ASSUME NEW d \in Dbs, TakePort(d) PROVE CallInv'
  BY <1>2, CallTake
<1>3. ASSUME NEW d \in Dbs, InsertRow(d) PROVE CallInv'
  BY <1>3, CallTake
<1>4. ASSUME NEW d \in Dbs, CreateNetwork(d) PROVE CallInv'
  BY <1>4 DEF CreateNetwork, HasRow, HandlerSteps, TaskSteps, FailSteps,
     SavedSteps, Actions, Removals, Goto, End
<1>5. ASSUME NEW d \in Dbs, CreateContainer(d) PROVE CallInv'
  BY <1>5 DEF CreateContainer, HasRow, HandlerSteps, TaskSteps, FailSteps,
     SavedSteps, Actions, Removals, Goto, End
<1>6. ASSUME NEW d \in Dbs, StartContainer(d) PROVE CallInv'
  BY <1>6 DEF StartContainer, HasRow, HandlerSteps, TaskSteps, FailSteps,
     SavedSteps, Actions, Removals, Goto, End
<1>7. ASSUME NEW d \in Dbs, PublishRoute(d) PROVE CallInv'
  BY <1>7 DEF PublishRoute, HasRow, HandlerSteps, TaskSteps, FailSteps,
     SavedSteps, Actions, Removals, Goto, End
<1>8. ASSUME NEW d \in Dbs, SaveProvisioned(d) PROVE CallInv'
  BY <1>8 DEF SaveProvisioned, HasRow, HandlerSteps, TaskSteps, FailSteps,
     SavedSteps, Actions, Removals, Goto, End
<1>9. ASSUME NEW d \in Dbs, RecordStart(d) PROVE CallInv'
  BY <1>9 DEF RecordStart, HasRow, HandlerSteps, TaskSteps, FailSteps,
     SavedSteps, Actions, Removals, Goto, End
<1>10. ASSUME NEW d \in Dbs, ProvisioningFails(d) PROVE CallInv'
  BY <1>10 DEF ProvisioningFails, HasRow, HandlerSteps, TaskSteps, FailSteps,
     SavedSteps, Actions, Removals, Goto, End
<1>11. ASSUME NEW d \in Dbs, MarkError(d) PROVE CallInv'
  BY <1>11 DEF MarkError, HasRow, HandlerSteps, TaskSteps, FailSteps,
     SavedSteps, Actions, Removals, Goto, End
<1>12. ASSUME NEW d \in Dbs, ReleaseAfterError(d) PROVE CallInv'
  BY <1>12 DEF ReleaseAfterError, HasRow, HandlerSteps, TaskSteps, FailSteps,
     SavedSteps, Actions, Removals, Goto, End
<1>13. ASSUME NEW r \in Requests, NEW d \in Dbs, NEW o \in Actions \cup Removals, Find(r, d, o)
       PROVE  CallInv'
  BY <1>13 DEF Find, HasRow, HandlerSteps, TaskSteps, FailSteps, SavedSteps,
     Actions, Removals, Goto, End
<1>14. ASSUME NEW r \in Requests, MeterStop(r) PROVE CallInv'
  BY <1>14 DEF MeterStop, HasRow, HandlerSteps, TaskSteps, FailSteps,
     SavedSteps, Actions, Removals, Goto, End
<1>15. ASSUME NEW r \in Requests, MarkDeleting(r) PROVE CallInv'
  BY <1>15 DEF MarkDeleting, HasRow, HandlerSteps, TaskSteps, FailSteps,
     SavedSteps, Actions, Removals, Goto, End
<1>16. ASSUME NEW r \in Requests, SpawnCleanup(r) PROVE CallInv'
  BY <1>16 DEF SpawnCleanup, HasRow, HandlerSteps, TaskSteps, FailSteps,
     SavedSteps, Actions, Removals, Goto, End
<1>17. ASSUME NEW r \in Requests, RemoveContainer(r) PROVE CallInv'
  BY <1>17 DEF RemoveContainer, HasRow, HandlerSteps, TaskSteps, FailSteps,
     SavedSteps, Actions, Removals, Goto, End
<1>18. ASSUME NEW r \in Requests, MeterForcedStop(r) PROVE CallInv'
  BY <1>18 DEF MeterForcedStop, HasRow, HandlerSteps, TaskSteps, FailSteps,
     SavedSteps, Actions, Removals, Goto, End
<1>19. ASSUME NEW r \in Requests, RemoveRoute(r) PROVE CallInv'
  BY <1>19 DEF RemoveRoute, HasRow, HandlerSteps, TaskSteps, FailSteps,
     SavedSteps, Actions, Removals, Goto, End
<1>20. ASSUME NEW r \in Requests, DeleteRow(r) PROVE CallInv'
  BY <1>20 DEF DeleteRow, HasRow, HandlerSteps, TaskSteps, FailSteps,
     SavedSteps, Actions, Removals, Goto, End
<1>21. ASSUME NEW r \in Requests, ReleaseAfterDelete(r) PROVE CallInv'
  BY <1>21 DEF ReleaseAfterDelete, HasRow, HandlerSteps, TaskSteps, FailSteps,
     SavedSteps, Actions, Removals, Goto, End
<1>22. ASSUME NEW r \in Requests, ActInDocker(r) PROVE CallInv'
  BY <1>22 DEF ActInDocker, HasRow, HandlerSteps, TaskSteps, FailSteps,
     SavedSteps, Actions, Removals, Goto, End
<1>23. ASSUME NEW r \in Requests, ActionFails(r) PROVE CallInv'
  BY <1>23 DEF ActionFails, HasRow, HandlerSteps, TaskSteps, FailSteps,
     SavedSteps, Actions, Removals, Goto, End
<1>24. ASSUME NEW r \in Requests, UpdateStatus(r) PROVE CallInv'
  BY <1>24 DEF UpdateStatus, HasRow, HandlerSteps, TaskSteps, FailSteps,
     SavedSteps, Actions, Removals, Goto, End
<1>25. ASSUME NEW r \in Requests, RecordAction(r) PROVE CallInv'
  BY <1>25 DEF RecordAction, HasRow, HandlerSteps, TaskSteps, FailSteps,
     SavedSteps, Actions, Removals, Goto, End
<1>26. CASE Restart
  BY <1>26 DEF Restart, LoadedRows, LoadAllocated, HasRow, HandlerSteps,
     TaskSteps, FailSteps, SavedSteps, Actions, Removals, Goto, End
<1>27. CASE UNCHANGED vars
  BY <1>27 DEF vars, HasRow, HandlerSteps, TaskSteps, FailSteps, SavedSteps,
     Actions, Removals, Goto, End
<1>28. QED
  BY <1>1, <1>2, <1>3, <1>4, <1>5, <1>6, <1>7, <1>8, <1>9, <1>10, <1>11,
     <1>12, <1>13, <1>14, <1>15, <1>16, <1>17, <1>18, <1>19, <1>20, <1>21,
     <1>22, <1>23, <1>24, <1>25, <1>26, <1>27 DEF Next, Create, Provision,
     Remove, Act

(* Only a provisioned database is metered as started.                      *)
LEMMA MeterStep ==
  ASSUME TypeOK, CallInv, MeterInv, [Next]_vars
  PROVE  MeterInv'
<1> USE DEF TypeOK, CallInv, MeterInv, rowVars, idVars, docker, slots, bounds,
      history
<1>1. ASSUME NEW d \in Dbs, CountRows(d) PROVE MeterInv'
  BY <1>1 DEF CountRows, TaskSteps, FailSteps, SavedSteps
<1>2. ASSUME NEW d \in Dbs, TakePort(d) PROVE MeterInv'
  BY <1>2 DEF TakePort, TaskSteps, FailSteps, SavedSteps
<1>3. ASSUME NEW d \in Dbs, InsertRow(d) PROVE MeterInv'
  BY <1>3 DEF InsertRow, TaskSteps, FailSteps, SavedSteps
<1>4. ASSUME NEW d \in Dbs, CreateNetwork(d) PROVE MeterInv'
  BY <1>4 DEF CreateNetwork, TaskSteps, FailSteps, SavedSteps
<1>5. ASSUME NEW d \in Dbs, CreateContainer(d) PROVE MeterInv'
  BY <1>5 DEF CreateContainer, TaskSteps, FailSteps, SavedSteps
<1>6. ASSUME NEW d \in Dbs, StartContainer(d) PROVE MeterInv'
  BY <1>6 DEF StartContainer, TaskSteps, FailSteps, SavedSteps
<1>7. ASSUME NEW d \in Dbs, PublishRoute(d) PROVE MeterInv'
  BY <1>7 DEF PublishRoute, TaskSteps, FailSteps, SavedSteps
<1>8. ASSUME NEW d \in Dbs, SaveProvisioned(d) PROVE MeterInv'
  BY <1>8 DEF SaveProvisioned, TaskSteps, FailSteps, SavedSteps
<1>9. ASSUME NEW d \in Dbs, RecordStart(d) PROVE MeterInv'
  BY <1>9 DEF RecordStart, TaskSteps, FailSteps, SavedSteps
<1>10. ASSUME NEW d \in Dbs, ProvisioningFails(d) PROVE MeterInv'
  BY <1>10 DEF ProvisioningFails, TaskSteps, FailSteps, SavedSteps
<1>11. ASSUME NEW d \in Dbs, MarkError(d) PROVE MeterInv'
  BY <1>11 DEF MarkError, TaskSteps, FailSteps, SavedSteps
<1>12. ASSUME NEW d \in Dbs, ReleaseAfterError(d) PROVE MeterInv'
  BY <1>12 DEF ReleaseAfterError, TaskSteps, FailSteps, SavedSteps
<1>13. ASSUME NEW r \in Requests, NEW d \in Dbs, NEW o \in Actions \cup Removals, Find(r, d, o)
       PROVE  MeterInv'
  BY <1>13 DEF Find, TaskSteps, FailSteps, SavedSteps
<1>14. ASSUME NEW r \in Requests, MeterStop(r) PROVE MeterInv'
  BY <1>14 DEF MeterStop, TaskSteps, FailSteps, SavedSteps
<1>15. ASSUME NEW r \in Requests, MarkDeleting(r) PROVE MeterInv'
  BY <1>15 DEF MarkDeleting, TaskSteps, FailSteps, SavedSteps
<1>16. ASSUME NEW r \in Requests, SpawnCleanup(r) PROVE MeterInv'
  BY <1>16 DEF SpawnCleanup, TaskSteps, FailSteps, SavedSteps
<1>17. ASSUME NEW r \in Requests, RemoveContainer(r) PROVE MeterInv'
  BY <1>17 DEF RemoveContainer, TaskSteps, FailSteps, SavedSteps
<1>18. ASSUME NEW r \in Requests, MeterForcedStop(r) PROVE MeterInv'
  BY <1>18 DEF MeterForcedStop, TaskSteps, FailSteps, SavedSteps
<1>19. ASSUME NEW r \in Requests, RemoveRoute(r) PROVE MeterInv'
  BY <1>19 DEF RemoveRoute, TaskSteps, FailSteps, SavedSteps
<1>20. ASSUME NEW r \in Requests, DeleteRow(r) PROVE MeterInv'
  BY <1>20 DEF DeleteRow, TaskSteps, FailSteps, SavedSteps
<1>21. ASSUME NEW r \in Requests, ReleaseAfterDelete(r) PROVE MeterInv'
  BY <1>21 DEF ReleaseAfterDelete, TaskSteps, FailSteps, SavedSteps
<1>22. ASSUME NEW r \in Requests, ActInDocker(r) PROVE MeterInv'
  BY <1>22 DEF ActInDocker, TaskSteps, FailSteps, SavedSteps
<1>23. ASSUME NEW r \in Requests, ActionFails(r) PROVE MeterInv'
  BY <1>23 DEF ActionFails, TaskSteps, FailSteps, SavedSteps
<1>24. ASSUME NEW r \in Requests, UpdateStatus(r) PROVE MeterInv'
  BY <1>24 DEF UpdateStatus, TaskSteps, FailSteps, SavedSteps
<1>25. ASSUME NEW r \in Requests, RecordAction(r) PROVE MeterInv'
  BY <1>25 DEF RecordAction, TaskSteps, FailSteps, SavedSteps
<1>26. CASE Restart
  BY <1>26 DEF Restart, LoadedRows, LoadAllocated, TaskSteps, FailSteps,
     SavedSteps
<1>27. CASE UNCHANGED vars
  BY <1>27 DEF vars, TaskSteps, FailSteps, SavedSteps
<1>28. QED
  BY <1>1, <1>2, <1>3, <1>4, <1>5, <1>6, <1>7, <1>8, <1>9, <1>10, <1>11,
     <1>12, <1>13, <1>14, <1>15, <1>16, <1>17, <1>18, <1>19, <1>20, <1>21,
     <1>22, <1>23, <1>24, <1>25, <1>26, <1>27 DEF Next, Create, Provision,
     Remove, Act

(* The pool protects its holders while none hands a port back twice.       *)
LEMMA PortStep ==
  ASSUME TypeOK, RowInv, CallInv, PortInv, [Next]_vars
  PROVE  PortInv'
<1> USE DEF TypeOK, RowInv, CallInv, PortInv, rowVars, idVars, docker, slots,
      bounds, history
<1>1. ASSUME NEW d \in Dbs, CountRows(d) PROVE PortInv'
  BY <1>1 DEF CountRows, PortExclusion, Holders, TaskSteps, FailSteps,
     SavedSteps
<1>2. ASSUME NEW d \in Dbs, TakePort(d) PROVE PortInv'
  BY <1>2, PortTake
<1>3. ASSUME NEW d \in Dbs, InsertRow(d) PROVE PortInv'
  BY <1>3, PortInsert
<1>4. ASSUME NEW d \in Dbs, CreateNetwork(d) PROVE PortInv'
  BY <1>4 DEF CreateNetwork, PortExclusion, Holders, TaskSteps, FailSteps,
     SavedSteps
<1>5. ASSUME NEW d \in Dbs, CreateContainer(d) PROVE PortInv'
  BY <1>5 DEF CreateContainer, PortExclusion, Holders, TaskSteps, FailSteps,
     SavedSteps
<1>6. ASSUME NEW d \in Dbs, StartContainer(d) PROVE PortInv'
  BY <1>6 DEF StartContainer, PortExclusion, Holders, TaskSteps, FailSteps,
     SavedSteps
<1>7. ASSUME NEW d \in Dbs, PublishRoute(d) PROVE PortInv'
  BY <1>7 DEF PublishRoute, PortExclusion, Holders, TaskSteps, FailSteps,
     SavedSteps
<1>8. ASSUME NEW d \in Dbs, SaveProvisioned(d) PROVE PortInv'
  BY <1>8 DEF SaveProvisioned, PortExclusion, Holders, TaskSteps, FailSteps,
     SavedSteps
<1>9. ASSUME NEW d \in Dbs, RecordStart(d) PROVE PortInv'
  BY <1>9 DEF RecordStart, PortExclusion, Holders, TaskSteps, FailSteps,
     SavedSteps
<1>10. ASSUME NEW d \in Dbs, ProvisioningFails(d) PROVE PortInv'
  BY <1>10 DEF ProvisioningFails, PortExclusion, Holders, TaskSteps,
     FailSteps, SavedSteps
<1>11. ASSUME NEW d \in Dbs, MarkError(d) PROVE PortInv'
  BY <1>11 DEF MarkError, PortExclusion, Holders, TaskSteps, FailSteps,
     SavedSteps
<1>12. ASSUME NEW d \in Dbs, ReleaseAfterError(d) PROVE PortInv'
  <2>1. port[d] # NoPort
    BY <1>12 DEF ReleaseAfterError, PortInv
  <2>2. \A e \in Dbs : pc'[e] = pc[e] \/ (pc'[e] = "failed" /\ e = d)
    BY <1>12 DEF ReleaseAfterError
  <2>3. QED
    BY <1>12, <2>1, <2>2, PortRelease DEF ReleaseAfterError
<1>13. ASSUME NEW r \in Requests, NEW d \in Dbs, NEW o \in Actions \cup Removals, Find(r, d, o)
       PROVE  PortInv'
  BY <1>13 DEF Find, PortExclusion, Holders, TaskSteps, FailSteps, SavedSteps
<1>14. ASSUME NEW r \in Requests, MeterStop(r) PROVE PortInv'
  BY <1>14 DEF MeterStop, PortExclusion, Holders, TaskSteps, FailSteps,
     SavedSteps
<1>15. ASSUME NEW r \in Requests, MarkDeleting(r) PROVE PortInv'
  BY <1>15 DEF MarkDeleting, PortExclusion, Holders, TaskSteps, FailSteps,
     SavedSteps
<1>16. ASSUME NEW r \in Requests, SpawnCleanup(r) PROVE PortInv'
  BY <1>16 DEF SpawnCleanup, PortExclusion, Holders, TaskSteps, FailSteps,
     SavedSteps
<1>17. ASSUME NEW r \in Requests, RemoveContainer(r) PROVE PortInv'
  BY <1>17 DEF RemoveContainer, PortExclusion, Holders, TaskSteps, FailSteps,
     SavedSteps
<1>18. ASSUME NEW r \in Requests, MeterForcedStop(r) PROVE PortInv'
  BY <1>18 DEF MeterForcedStop, PortExclusion, Holders, TaskSteps, FailSteps,
     SavedSteps
<1>19. ASSUME NEW r \in Requests, RemoveRoute(r) PROVE PortInv'
  BY <1>19 DEF RemoveRoute, PortExclusion, Holders, TaskSteps, FailSteps,
     SavedSteps
<1>20. ASSUME NEW r \in Requests, DeleteRow(r) PROVE PortInv'
  BY <1>20 DEF DeleteRow, PortExclusion, Holders, TaskSteps, FailSteps,
     SavedSteps
<1>21. ASSUME NEW r \in Requests, ReleaseAfterDelete(r) PROVE PortInv'
  <2> DEFINE d == target[r]
  <2>1. d \in Dbs /\ pc[d] \notin HandlerSteps
    BY <1>21 DEF ReleaseAfterDelete, Removals
  <2>2. port[d] # NoPort
    BY <2>1 DEF HandlerSteps
  <2>3. QED
    BY <1>21, <2>1, <2>2, PortRelease DEF ReleaseAfterDelete, HandlerSteps
<1>22. ASSUME NEW r \in Requests, ActInDocker(r) PROVE PortInv'
  BY <1>22 DEF ActInDocker, PortExclusion, Holders, TaskSteps, FailSteps,
     SavedSteps
<1>23. ASSUME NEW r \in Requests, ActionFails(r) PROVE PortInv'
  BY <1>23 DEF ActionFails, PortExclusion, Holders, TaskSteps, FailSteps,
     SavedSteps
<1>24. ASSUME NEW r \in Requests, UpdateStatus(r) PROVE PortInv'
  BY <1>24 DEF UpdateStatus, PortExclusion, Holders, TaskSteps, FailSteps,
     SavedSteps
<1>25. ASSUME NEW r \in Requests, RecordAction(r) PROVE PortInv'
  BY <1>25 DEF RecordAction, PortExclusion, Holders, TaskSteps, FailSteps,
     SavedSteps
<1>26. CASE Restart
  BY <1>26, PortReload
<1>27. CASE UNCHANGED vars
  BY <1>27 DEF vars, PortExclusion, Holders, TaskSteps, FailSteps, SavedSteps
<1>28. QED
  BY <1>1, <1>2, <1>3, <1>4, <1>5, <1>6, <1>7, <1>8, <1>9, <1>10, <1>11,
     <1>12, <1>13, <1>14, <1>15, <1>16, <1>17, <1>18, <1>19, <1>20, <1>21,
     <1>22, <1>23, <1>24, <1>25, <1>26, <1>27 DEF Next, Create, Provision,
     Remove, Act

(* A row that no removal dismantles has what its task has made for it.     *)
LEMMA ExistStep ==
  ASSUME TypeOK, RowInv, CallInv, ExistInv, [Next]_vars
  PROVE  ExistInv'
<1> USE LifecycleAssumption DEF TypeOK, RowInv, CallInv, ExistInv, rowVars,
      idVars, docker, slots, bounds, history
<1>1. ASSUME NEW d \in Dbs, CountRows(d) PROVE ExistInv'
  BY <1>1 DEF CountRows, Dismantling, HasRow, SetStatus, HandlerSteps,
     TaskSteps, FailSteps, SavedSteps, Goto, End, DbOk, DbFault, Actions,
     Removals
<1>2. ASSUME NEW d \in Dbs, TakePort(d) PROVE ExistInv'
  BY <1>2 DEF TakePort, Dismantling, HasRow, SetStatus, HandlerSteps,
     TaskSteps, FailSteps, SavedSteps, Goto, End, DbOk, DbFault, Actions,
     Removals
<1>3. ASSUME NEW d \in Dbs, InsertRow(d) PROVE ExistInv'
  BY <1>3 DEF InsertRow, Dismantling, HasRow, SetStatus, HandlerSteps,
     TaskSteps, FailSteps, SavedSteps, Goto, End, DbOk, DbFault, Actions,
     Removals
<1>4. ASSUME NEW d \in Dbs, CreateNetwork(d) PROVE ExistInv'
  BY <1>4 DEF CreateNetwork, Dismantling, HasRow, SetStatus, HandlerSteps,
     TaskSteps, FailSteps, SavedSteps, Goto, End, DbOk, DbFault, Actions,
     Removals
<1>5. ASSUME NEW d \in Dbs, CreateContainer(d) PROVE ExistInv'
  BY <1>5 DEF CreateContainer, Dismantling, HasRow, SetStatus, HandlerSteps,
     TaskSteps, FailSteps, SavedSteps, Goto, End, DbOk, DbFault, Actions,
     Removals
<1>6. ASSUME NEW d \in Dbs, StartContainer(d) PROVE ExistInv'
  BY <1>6 DEF StartContainer, Dismantling, HasRow, SetStatus, HandlerSteps,
     TaskSteps, FailSteps, SavedSteps, Goto, End, DbOk, DbFault, Actions,
     Removals
<1>7. ASSUME NEW d \in Dbs, PublishRoute(d) PROVE ExistInv'
  BY <1>7 DEF PublishRoute, Dismantling, HasRow, SetStatus, HandlerSteps,
     TaskSteps, FailSteps, SavedSteps, Goto, End, DbOk, DbFault, Actions,
     Removals
<1>8. ASSUME NEW d \in Dbs, SaveProvisioned(d) PROVE ExistInv'
  BY <1>8 DEF SaveProvisioned, Dismantling, HasRow, SetStatus, HandlerSteps,
     TaskSteps, FailSteps, SavedSteps, Goto, End, DbOk, DbFault, Actions,
     Removals
<1>9. ASSUME NEW d \in Dbs, RecordStart(d) PROVE ExistInv'
  BY <1>9 DEF RecordStart, Dismantling, HasRow, SetStatus, HandlerSteps,
     TaskSteps, FailSteps, SavedSteps, Goto, End, DbOk, DbFault, Actions,
     Removals
<1>10. ASSUME NEW d \in Dbs, ProvisioningFails(d) PROVE ExistInv'
  BY <1>10 DEF ProvisioningFails, Dismantling, HasRow, SetStatus,
     HandlerSteps, TaskSteps, FailSteps, SavedSteps, Goto, End, DbOk, DbFault,
     Actions, Removals
<1>11. ASSUME NEW d \in Dbs, MarkError(d) PROVE ExistInv'
  BY <1>11 DEF MarkError, Dismantling, HasRow, SetStatus, HandlerSteps,
     TaskSteps, FailSteps, SavedSteps, Goto, End, DbOk, DbFault, Actions,
     Removals
<1>12. ASSUME NEW d \in Dbs, ReleaseAfterError(d) PROVE ExistInv'
  BY <1>12 DEF ReleaseAfterError, Dismantling, HasRow, SetStatus,
     HandlerSteps, TaskSteps, FailSteps, SavedSteps, Goto, End, DbOk, DbFault,
     Actions, Removals
<1>13. ASSUME NEW r \in Requests, NEW d \in Dbs, NEW o \in Actions \cup Removals, Find(r, d, o)
       PROVE  ExistInv'
  BY <1>13 DEF Find, Dismantling, HasRow, SetStatus, HandlerSteps, TaskSteps,
     FailSteps, SavedSteps, Goto, End, DbOk, DbFault, Actions, Removals
<1>14. ASSUME NEW r \in Requests, MeterStop(r) PROVE ExistInv'
  BY <1>14 DEF MeterStop, Dismantling, HasRow, SetStatus, HandlerSteps,
     TaskSteps, FailSteps, SavedSteps, Goto, End, DbOk, DbFault, Actions,
     Removals
<1>15. ASSUME NEW r \in Requests, MarkDeleting(r) PROVE ExistInv'
  BY <1>15 DEF MarkDeleting, Dismantling, HasRow, SetStatus, HandlerSteps,
     TaskSteps, FailSteps, SavedSteps, Goto, End, DbOk, DbFault, Actions,
     Removals
<1>16. ASSUME NEW r \in Requests, SpawnCleanup(r) PROVE ExistInv'
  BY <1>16 DEF SpawnCleanup, Dismantling, HasRow, SetStatus, HandlerSteps,
     TaskSteps, FailSteps, SavedSteps, Goto, End, DbOk, DbFault, Actions,
     Removals
<1>17. ASSUME NEW r \in Requests, RemoveContainer(r) PROVE ExistInv'
  BY <1>17 DEF RemoveContainer, Dismantling, HasRow, SetStatus, HandlerSteps,
     TaskSteps, FailSteps, SavedSteps, Goto, End, DbOk, DbFault, Actions,
     Removals
<1>18. ASSUME NEW r \in Requests, MeterForcedStop(r) PROVE ExistInv'
  BY <1>18 DEF MeterForcedStop, Dismantling, HasRow, SetStatus, HandlerSteps,
     TaskSteps, FailSteps, SavedSteps, Goto, End, DbOk, DbFault, Actions,
     Removals
<1>19. ASSUME NEW r \in Requests, RemoveRoute(r) PROVE ExistInv'
  BY <1>19 DEF RemoveRoute, Dismantling, HasRow, SetStatus, HandlerSteps,
     TaskSteps, FailSteps, SavedSteps, Goto, End, DbOk, DbFault, Actions,
     Removals
<1>20. ASSUME NEW r \in Requests, DeleteRow(r) PROVE ExistInv'
  BY <1>20 DEF DeleteRow, Dismantling, HasRow, SetStatus, HandlerSteps,
     TaskSteps, FailSteps, SavedSteps, Goto, End, DbOk, DbFault, Actions,
     Removals
<1>21. ASSUME NEW r \in Requests, ReleaseAfterDelete(r) PROVE ExistInv'
  BY <1>21 DEF ReleaseAfterDelete, Dismantling, HasRow, SetStatus,
     HandlerSteps, TaskSteps, FailSteps, SavedSteps, Goto, End, DbOk, DbFault,
     Actions, Removals
<1>22. ASSUME NEW r \in Requests, ActInDocker(r) PROVE ExistInv'
  BY <1>22 DEF ActInDocker, Dismantling, HasRow, SetStatus, HandlerSteps,
     TaskSteps, FailSteps, SavedSteps, Goto, End, DbOk, DbFault, Actions,
     Removals
<1>23. ASSUME NEW r \in Requests, ActionFails(r) PROVE ExistInv'
  BY <1>23 DEF ActionFails, Dismantling, HasRow, SetStatus, HandlerSteps,
     TaskSteps, FailSteps, SavedSteps, Goto, End, DbOk, DbFault, Actions,
     Removals
<1>24. ASSUME NEW r \in Requests, UpdateStatus(r) PROVE ExistInv'
  BY <1>24 DEF UpdateStatus, Dismantling, HasRow, SetStatus, HandlerSteps,
     TaskSteps, FailSteps, SavedSteps, Goto, End, DbOk, DbFault, Actions,
     Removals
<1>25. ASSUME NEW r \in Requests, RecordAction(r) PROVE ExistInv'
  BY <1>25 DEF RecordAction, Dismantling, HasRow, SetStatus, HandlerSteps,
     TaskSteps, FailSteps, SavedSteps, Goto, End, DbOk, DbFault, Actions,
     Removals
<1>26. CASE Restart
  BY <1>26 DEF Restart, LoadedRows, LoadAllocated, Dismantling, HasRow,
     SetStatus, HandlerSteps, TaskSteps, FailSteps, SavedSteps, Goto, End,
     DbOk, DbFault, Actions, Removals
<1>27. CASE UNCHANGED vars
  BY <1>27 DEF vars, Dismantling, HasRow, SetStatus, HandlerSteps, TaskSteps,
     FailSteps, SavedSteps, Goto, End, DbOk, DbFault, Actions, Removals
<1>28. QED
  BY <1>1, <1>2, <1>3, <1>4, <1>5, <1>6, <1>7, <1>8, <1>9, <1>10, <1>11,
     <1>12, <1>13, <1>14, <1>15, <1>16, <1>17, <1>18, <1>19, <1>20, <1>21,
     <1>22, <1>23, <1>24, <1>25, <1>26, <1>27 DEF Next, Create, Provision,
     Remove, Act

-----------------------------------------------------------------------------
LEMMA NextInv == LifecycleInv /\ [Next]_vars => LifecycleInv'
  BY TypeStep, RowStep, CallStep, MeterStep, PortStep, ExistStep DEF LifecycleInv

(* The inductive invariant of the lifecycle.                               *)
THEOREM LifecycleInvariant == Spec => []LifecycleInv
  BY InitInv, NextInv, PTL DEF Spec

(* Every variable has its type, whatever the calls, faults and restarts:   *)
(* in particular the pool only ever holds ports of the configured range.   *)
THEOREM LifecycleTypes == Spec => []TypeOK
<1>1. LifecycleInv => TypeOK
  BY DEF LifecycleInv
<1>2. QED
  BY <1>1, LifecycleInvariant, PTL

(* Handlers that act on a database and the task that provisions it are     *)
(* kept apart by the test of container_id in container_action.             *)
THEOREM TaskOwnership == Spec => []TaskOwnsItsRow
<1>1. LifecycleInv => TaskOwnsItsRow
  BY DEF LifecycleInv, TypeOK, RowInv, CallInv, TaskOwnsItsRow, HasRow,
         Statuses, TaskSteps, FailSteps, SavedSteps, Actions
<1>2. QED
  BY <1>1, LifecycleInvariant, PTL

(* A pool whose callers never hand a port back twice gives a port to one   *)
(* database at a time, across restarts too.                                *)
THEOREM PortsAreExclusive == Spec => []PortExclusion
<1>1. LifecycleInv => PortExclusion
  BY DEF LifecycleInv, PortInv
<1>2. QED
  BY <1>1, LifecycleInvariant, PTL

(* What a client is shown as running or stopped exists.                    *)
THEOREM ShownExists == Spec => []ShownDatabaseExists
<1>1. LifecycleInv => ShownDatabaseExists
  <2> SUFFICES ASSUME LifecycleInv, restarts = 0, dbFaults = 0, NEW d \in Dbs,
                      status[d] \in {"running", "stopped"}, ~BeingRemoved(d)
               PROVE  ctr[d] # "none" /\ route[d]
    BY DEF ShownDatabaseExists
  <2>1. HasRow(d) /\ pc[d] \in SavedSteps
    BY DEF LifecycleInv, RowInv, HasRow
  <2>2. ~Dismantling(d)
    BY DEF Dismantling, BeingRemoved, LifecycleInv, CallInv
  <2>3. QED
    BY <2>1, <2>2 DEF LifecycleInv, ExistInv
<1>2. QED
  BY <1>1, LifecycleInvariant, PTL

(* A database that never came up is never billed as started.               *)
THEOREM FailedNeverStarted == Spec => []FailedIsNeverStarted
<1>1. LifecycleInv => FailedIsNeverStarted
  BY DEF LifecycleInv, MeterInv, FailedIsNeverStarted, FailSteps, SavedSteps
<1>2. QED
  BY <1>1, LifecycleInvariant, PTL

-----------------------------------------------------------------------------
(* DatabaseLifecycle implements DatabaseStatus: with `shown` for st, the   *)
(* initial states are initial and every step is a step of the promise or   *)
(* leaves what clients are shown unchanged.                                *)

(* What a change of one row's status, and of nothing else that is shown,   *)
(* must satisfy to be a step of the promise.                               *)
MayTurn(from, to) ==
  \/ from = "unborn" /\ to = "provisioning"
  \/ from = "provisioning" /\ to \in {"running", "error"}
  \/ from \in {"running", "stopped"} /\ to \in {"running", "stopped"}
  \/ from \in Statuses \ {"absent"} /\ to \in {"deleting", "gone"}
  \/ from = "deleting" /\ to \in {"running", "stopped", "error"}

LEMMA OneRowTurns ==
  ASSUME NEW d \in Dbs,
         \A e \in Dbs \ {d} : shown'[e] = shown[e],
         MayTurn(shown[d], shown'[d])
  PROVE  Promise!Next
<1>1. shown' = [shown EXCEPT ![d] = shown'[d]]
  BY DEF shown
<1>2. QED
  BY <1>1 DEF MayTurn, Statuses, Promise!Next, Promise!Move, Promise!Accept,
     Promise!Settle, Promise!Operate, Promise!Condemn, Promise!Overwrite,
     Promise!Remove, Promise!Live

LEMMA NothingShownChanges ==
  ASSUME UNCHANGED status,
         \A d \in Dbs : pc[d] \in HandlerSteps <=> pc'[d] \in HandlerSteps
  PROVE  UNCHANGED shown
  BY DEF shown, HasRow

(* A step that sets the status of row d, and leaves the other rows and the *)
(* steps of every create handler as they are.                              *)
LEMMA OneStatusSet ==
  ASSUME TypeOK, NEW d \in Dbs, NEW s \in Statuses \ {"absent"}, SetStatus(d, s),
         pc[d] \notin HandlerSteps,
         \A e \in Dbs : pc[e] \in HandlerSteps <=> pc'[e] \in HandlerSteps,
         HasRow(d) => MayTurn(status[d], s)
  PROVE  [Promise!Next]_shown
<1>1. CASE HasRow(d)
  <2>1. status' = [status EXCEPT ![d] = s]
    BY <1>1 DEF SetStatus
  <2>2. shown[d] = status[d] /\ shown'[d] = s
    BY <1>1, <2>1 DEF shown, HasRow, TypeOK
  <2>3. \A e \in Dbs \ {d} : shown'[e] = shown[e]
    BY <2>1 DEF shown, HasRow, TypeOK
  <2>4. QED
    BY <1>1, <2>2, <2>3, OneRowTurns
<1>2. CASE ~HasRow(d)
  BY <1>2, NothingShownChanges DEF SetStatus
<1>3. QED
  BY <1>1, <1>2

(* Every step is one that the status promise allows.                       *)
LEMMA StatusStep ==
  ASSUME LifecycleInv, [Next]_vars
  PROVE  [Promise!Next]_shown
<1> USE DEF LifecycleInv, TypeOK
<1>1. ASSUME NEW d \in Dbs,
             CountRows(d) \/ TakePort(d) \/ CreateNetwork(d) \/ CreateContainer(d)
             \/ StartContainer(d) \/ PublishRoute(d) \/ RecordStart(d)
             \/ ProvisioningFails(d) \/ ReleaseAfterError(d)
      PROVE  UNCHANGED shown
  BY <1>1, NothingShownChanges DEF CountRows, TakePort, CreateNetwork,
     CreateContainer, StartContainer, PublishRoute, RecordStart,
     ProvisioningFails, ReleaseAfterError, rowVars, HandlerSteps
<1>2. ASSUME NEW d \in Dbs, InsertRow(d) PROVE [Promise!Next]_shown
  <2>1. CASE UNCHANGED status /\ pc' = [pc EXCEPT ![d] = "rejected"]
    BY <1>2, <2>1, NothingShownChanges DEF InsertRow, HandlerSteps
  <2>2. CASE status' = [status EXCEPT ![d] = "provisioning"] /\ pc' = [pc EXCEPT ![d] = "spawned"]
    <3>1. shown[d] = "unborn" /\ shown'[d] = "provisioning"
      BY <1>2, <2>2 DEF InsertRow, RowInv, HandlerSteps, shown, HasRow
    <3>2. \A e \in Dbs \ {d} : shown'[e] = shown[e]
      BY <2>2 DEF shown, HasRow
    <3>3. QED
      BY <3>1, <3>2, OneRowTurns DEF MayTurn
  <2>3. QED
    BY <1>2, <2>1, <2>2 DEF InsertRow
<1>3. ASSUME NEW d \in Dbs, SaveProvisioned(d) PROVE [Promise!Next]_shown
  <2>1. SetStatus(d, "running") /\ pc[d] = "routed" /\ pc' = [pc EXCEPT ![d] = "saved"]
    BY <1>3 DEF SaveProvisioned
  <2>2. HasRow(d) => status[d] \in {"provisioning", "deleting"}
    BY <2>1 DEF RowInv, HasRow, Statuses, SavedSteps
  <2>3. QED
    BY <2>1, <2>2, OneStatusSet DEF MayTurn, Statuses, HandlerSteps
<1>4. ASSUME NEW d \in Dbs, MarkError(d) PROVE [Promise!Next]_shown
  <2>1. pc[d] = "failing" /\ pc' = [pc EXCEPT ![d] = "errored"]
    BY <1>4 DEF MarkError
  <2>2. HasRow(d) => status[d] \in {"provisioning", "deleting"}
    BY <2>1 DEF RowInv, HasRow, Statuses, SavedSteps
  <2>3. CASE SetStatus(d, "error")
    BY <2>1, <2>2, <2>3, OneStatusSet DEF MayTurn, Statuses, HandlerSteps
  <2>4. CASE UNCHANGED status
    BY <2>1, <2>4, NothingShownChanges DEF HandlerSteps
  <2>5. QED
    BY <1>4, <2>3, <2>4 DEF MarkError
<1>5. ASSUME NEW r \in Requests,
             MeterStop(r) \/ SpawnCleanup(r) \/ RemoveContainer(r)
             \/ MeterForcedStop(r) \/ RemoveRoute(r) \/ ReleaseAfterDelete(r)
             \/ ActInDocker(r) \/ ActionFails(r) \/ RecordAction(r)
      PROVE  UNCHANGED shown
  BY <1>5, NothingShownChanges DEF MeterStop, SpawnCleanup, RemoveContainer,
     MeterForcedStop, RemoveRoute, ReleaseAfterDelete, ActInDocker,
     ActionFails, RecordAction, rowVars
<1>6. ASSUME NEW r \in Requests, NEW d \in Dbs, NEW o \in Actions \cup Removals,
             Find(r, d, o)
      PROVE  UNCHANGED shown
  BY <1>6, NothingShownChanges DEF Find, rowVars
<1>7. ASSUME NEW r \in Requests, MarkDeleting(r) PROVE [Promise!Next]_shown
  <2>1. target[r] \in Dbs /\ pc[target[r]] \notin HandlerSteps /\ UNCHANGED pc
    BY <1>7 DEF MarkDeleting, CallInv
  <2>2. CASE SetStatus(target[r], "deleting")
    <3>1. HasRow(target[r]) => MayTurn(status[target[r]], "deleting")
      BY <2>1 DEF MayTurn, HasRow
    <3>2. QED
      BY <2>1, <2>2, <3>1, OneStatusSet DEF Statuses
  <2>3. CASE UNCHANGED status
    BY <2>1, <2>3, NothingShownChanges
  <2>4. QED
    BY <1>7, <2>2, <2>3 DEF MarkDeleting
<1>8. ASSUME NEW r \in Requests, DeleteRow(r) PROVE [Promise!Next]_shown
  <2> DEFINE d == target[r]
  <2>1. d \in Dbs /\ pc[d] \notin HandlerSteps /\ UNCHANGED pc
    BY <1>8 DEF DeleteRow, CallInv, Removals
  <2>2. CASE UNCHANGED status
    BY <2>1, <2>2, NothingShownChanges
  <2>3. CASE status' = [status EXCEPT ![d] = "absent"] /\ HasRow(d)
    <3>1. shown[d] = status[d] /\ shown'[d] = "gone"
      BY <2>1, <2>3 DEF shown, HasRow
    <3>2. \A e \in Dbs \ {d} : shown'[e] = shown[e]
      BY <2>1, <2>3 DEF shown, HasRow
    <3>3. MayTurn(shown[d], "gone")
      BY <2>1, <2>3, <3>1 DEF MayTurn, HasRow
    <3>4. QED
      BY <2>1, <3>1, <3>2, <3>3, OneRowTurns
  <2>4. status' = [status EXCEPT ![d] = "absent"] \/ UNCHANGED status
    BY <1>8 DEF DeleteRow, rowVars
  <2>5. CASE status' = [status EXCEPT ![d] = "absent"] /\ ~HasRow(d)
    <3>1. UNCHANGED status
      BY <2>1, <2>5 DEF HasRow
    <3>2. QED
      BY <2>1, <3>1, NothingShownChanges
  <2>6. QED
    BY <2>2, <2>3, <2>4, <2>5
<1>9. ASSUME NEW r \in Requests, UpdateStatus(r) PROVE [Promise!Next]_shown
  <2>1. target[r] \in Dbs /\ pc[target[r]] \in SavedSteps /\ UNCHANGED pc
    BY <1>9 DEF UpdateStatus, CallInv, Actions
  <2>2. status[target[r]] \in {"absent", "running", "stopped", "deleting"}
    BY <2>1 DEF RowInv, SavedSteps, TaskSteps, FailSteps, Statuses
  <2>3. CASE UNCHANGED status
    BY <2>1, <2>3, NothingShownChanges
  <2>4. ASSUME NEW s \in {"running", "stopped"}, SetStatus(target[r], s)
        PROVE  [Promise!Next]_shown
    <3>1. HasRow(target[r]) => MayTurn(status[target[r]], s)
      BY <2>2 DEF MayTurn, HasRow
    <3>2. QED
      BY <2>1, <2>4, <3>1, OneStatusSet DEF Statuses, SavedSteps, HandlerSteps
  <2>5. QED
    BY <1>9, <2>3, <2>4 DEF UpdateStatus
<1>10. CASE Restart
  BY <1>10, NothingShownChanges DEF Restart, rowVars, HandlerSteps, TaskSteps,
     FailSteps
<1>11. CASE UNCHANGED vars
  BY <1>11, NothingShownChanges DEF vars
<1>12. QED
  BY <1>1, <1>2, <1>3, <1>4, <1>5, <1>6, <1>7, <1>8, <1>9, <1>10, <1>11
     DEF Next, Create, Provision, Remove, Act

(* The status a client is shown keeps the promise of DatabaseStatus: rows  *)
(* that are gone stay gone, and failed ones are never started.             *)
THEOREM StatusPromise == Spec => KeepsStatusPromise
<1>1. Init => Promise!Init
  BY DEF Init, Promise!Init, shown, HasRow, HandlerSteps
<1>2. QED
  BY <1>1, LifecycleInvariant, StatusStep, PTL DEF Spec, KeepsStatusPromise, Promise!Spec
=============================================================================
