----------------------------- MODULE BackupsProofs -----------------------------
(***************************************************************************)
(* Proofs about Backups, for any databases, names, requests, retentions,   *)
(* faults and crashes: that a listed backup can be restored, and that      *)
(* retention only removes what has enough newer backups.                   *)
(***************************************************************************)
EXTENDS Backups, FiniteSetTheorems, WellFoundedInduction, TLAPS

Removing == {"unlink", "drop"}
Filing   == {"dump", "copy", "rm", "insert"}

(* A worker has a file name of the past, or rows to remove.                *)
Shape ==
  \A w \in Workers :
    /\ work[w].at \in Filing => work[w].file \in FileNames /\ work[w].file.tick <= now
    /\ work[w].at \in Removing <=> work[w].todo # {}
    /\ IsFiniteSet(work[w].todo)

(* Ids of rows are given out once.                                         *)
IdsGiven ==
  /\ \A b \in backups : b.id <= made
  /\ \A w \in Workers : \A b \in work[w].todo : b.id <= made

Base == TypeOK /\ Shape /\ IdsGiven /\ IsFiniteSet(backups) /\ IsFiniteSet(erased)

(* The conjuncts of TypeOK by what they are about.                         *)
ClockOK == /\ now \in Times /\ up \subseteq Dbs /\ present \subseteq Dbs
           /\ made \in Ids \cup {0} /\ events \in 0..MaxEvents
RowsOK  == /\ schedule \in [Dbs -> [id : Ids \cup {0}, keep : Retentions \cup {0},
                                    enabled : BOOLEAN, last : Times \cup {Never}]]
           /\ backups \subseteq Rows /\ erased \subseteq Rows
FilesOK == /\ files \in [FileNames -> [db : Dbs \cup {NoDb}, tick : Times \cup {Never, Partial}]]
           /\ inside \in [Dumps -> Times \cup {Never, Partial}]
           /\ saving \in [RedisDbs -> Times \cup {Never}]
           /\ spoiled \subseteq FileNames /\ late \subseteq Dbs /\ broken \subseteq Dumps
WorkOK  == work \in [Workers -> Work \cup {Idle}]
DueOK   == due \in [Dbs -> [id : Ids \cup {0}, keep : Retentions \cup {0}]]

LEMMA TypeParts == TypeOK <=> ClockOK /\ RowsOK /\ FilesOK /\ WorkOK /\ DueOK
  BY DEF TypeOK, ClockOK, RowsOK, FilesOK, WorkOK, DueOK

-----------------------------------------------------------------------------
(* What the steps of a worker do to work.                                  *)
LEMMA Positions ==
  ASSUME TypeOK, NEW w \in Workers
  PROVE  /\ work[w].at \in Steps \cup {"idle"}
         /\ work[w].at \in Steps => work[w] \in Work
         /\ work[w].at = "idle" => work[w] = Idle
         /\ work[w].todo \subseteq Rows
  BY DEF TypeOK, Work, Idle, Steps

LEMMA GotoFacts ==
  ASSUME TypeOK, NEW w \in Workers, work[w].at \in Steps, NEW s \in Steps, Goto(w, s)
  PROVE  /\ work' \in [Workers -> Work \cup {Idle}]
         /\ \A v \in Workers \ {w} : work'[v] = work[v]
         /\ work'[w] \in Work /\ work'[w].at = s
         /\ work'[w].op = work[w].op /\ work'[w].db = work[w].db
         /\ work'[w].file = work[w].file /\ work'[w].keep = work[w].keep
         /\ work'[w].todo = work[w].todo
  BY Positions DEF TypeOK, Work, Goto

LEMMA OverFacts ==
  ASSUME TypeOK, NEW w \in Workers, Over(w)
  PROVE  /\ work' \in [Workers -> Work \cup {Idle}]
         /\ \A v \in Workers \ {w} : work'[v] = work[v]
         /\ work'[w] = Idle /\ work'[w].at = "idle" /\ work'[w].todo = {}
  BY DEF TypeOK, Over, Idle

LEMMA IdleFacts == Idle.at = "idle" /\ Idle.todo = {} /\ Idle.file = Rdb /\ Idle.keep = 0
  BY DEF Idle

LEMMA LoopIsWorker == Loop \in Workers /\ Calls \subseteq Workers /\ \A c \in Calls : c # Loop
  BY BackupsAssumption DEF Workers

LEMMA FileOfFacts ==
  ASSUME TypeOK, NEW d \in Dbs, NEW kind \in {"auto", "manual"}
  PROVE  FileOf(d, kind) \in FileNames /\ FileOf(d, kind).tick = now
  BY DEF TypeOK, FileOf, FileNames

LEMMA DumpNames ==
  ASSUME Base, NEW w \in Workers, work[w].at \in Filing
  PROVE  /\ work[w].db \in Dbs /\ work[w].file \in FileNames /\ work[w] \in Work
         /\ InDump(w) \in Dumps
         /\ work[w].db \in RedisDbs => InDump(w) = <<work[w].db, Rdb>>
         /\ work[w].db \notin RedisDbs => InDump(w) = <<work[w].db, work[w].file>>
<1>1. work[w] \in Work /\ work[w].db \in Dbs
  BY Positions DEF Base, Filing, Steps, Work
<1>2. work[w].file \in FileNames
  BY DEF Base, Shape
<1> QED BY <1>1, <1>2 DEF InDump, PathOf, Dumps

(* The newest of some rows exists: a smallest set of newer ones is empty.  *)
LEMMA NewestExists ==
  ASSUME NEW T, IsFiniteSet(T), T \subseteq Rows, T # {}
  PROVE  \E b \in T : Newer(b, T) = {}
<1> DEFINE R == StrictSubsetOrdering(T)
           N == {Newer(b, T) : b \in T}
<1>1. N \subseteq FiniteSubsetsOf(T) /\ N # {}
  <2>1. \A b \in T : Newer(b, T) \subseteq T
    BY DEF Newer
  <2>2. \A b \in T : IsFiniteSet(Newer(b, T))
    BY <2>1, FS_Subset
  <2> QED BY <2>1, <2>2 DEF FiniteSubsetsOf
<1>2. IsWellFoundedOn(R, FiniteSubsetsOf(T))
  BY FS_StrictSubsetOrderingWellFounded
<1> HIDE DEF R, N
<1>3. PICK m \in N : \A y \in N : <<y, m>> \notin R
  BY <1>1, <1>2, WFMin
<1>4. PICK b \in T : m = Newer(b, T)
  BY <1>3 DEF N
<1>5. ASSUME NEW c \in Newer(b, T) PROVE FALSE
  <2>1. c \in T /\ c.db = b.db /\ c.id > b.id
    BY <1>5 DEF Newer
  <2>2. b.id \in Nat /\ c.id \in Nat
    BY <2>1 DEF Rows, Ids
  <2>3. Newer(c, T) \subseteq Newer(b, T)
    <3>1. ASSUME NEW x \in Newer(c, T) PROVE x \in Newer(b, T)
      <4>1. x \in T /\ x.db = c.db /\ x.id > c.id /\ x.id \in Nat
        BY <3>1 DEF Newer, Rows, Ids
      <4> QED BY <2>1, <2>2, <4>1 DEF Newer
    <3> QED BY <3>1
  <2>4. c \notin Newer(c, T)
    BY <2>2 DEF Newer
  <2>5. <<Newer(c, T), m>> \in R
    BY <1>4, <1>5, <2>3, <2>4 DEF R, StrictSubsetOrdering, Newer
  <2> QED BY <1>3, <2>1, <2>5 DEF N
<1> QED BY <1>4, <1>5

LEMMA CurrentFacts ==
  ASSUME Base, NEW w \in Workers, work[w].at \in Removing
  PROVE  /\ Current(w) \in work[w].todo /\ Current(w) \in Rows
         /\ Newer(Current(w), work[w].todo) = {}
<1>1. work[w].todo # {} /\ IsFiniteSet(work[w].todo) /\ work[w].todo \subseteq Rows
  BY Positions DEF Base, Shape
<1>2. \E b \in work[w].todo : Newer(b, work[w].todo) = {}
  BY <1>1, NewestExists
<1> QED BY <1>1, <1>2 DEF Current

-----------------------------------------------------------------------------
(* Types, and what workers hold.                                           *)
LEMMA BaseInit == Init => Base
<1> SUFFICES ASSUME Init PROVE Base
  OBVIOUS
<1>1. ClockOK
  BY BackupsAssumption DEF Init, ClockOK, Times, Ids
<1>2. RowsOK
  <2> DEFINE First == {[id |-> 1, keep |-> n, enabled |-> TRUE, last |-> Never] : n \in Retentions}
             Kinds == [id : Ids \cup {0}, keep : Retentions \cup {0}, enabled : BOOLEAN,
                       last : Times \cup {Never}]
  <2>1. \A n \in Retentions :
          [id |-> 1, keep |-> n, enabled |-> TRUE, last |-> Never] \in Kinds
    BY DEF Ids
  <2>2. schedule \in [Dbs -> First]
    BY DEF Init
  <2>3. First \subseteq Kinds
    BY <2>1
  <2> HIDE DEF First, Kinds
  <2>4. schedule \in [Dbs -> Kinds]
    BY <2>2, <2>3
  <2>5. backups = {} /\ erased = {}
    BY DEF Init
  <2> QED BY <2>4, <2>5 DEF RowsOK, Kinds
<1>3. FilesOK
  BY DEF Init, FilesOK, NoFile
<1>4. WorkOK /\ DueOK
  BY DEF Init, WorkOK, DueOK, NotDue
<1>5. \A w \in Workers : work[w] = Idle
  BY DEF Init
<1>6. IsFiniteSet({})
  BY FS_EmptySet
<1>7. Shape
  BY <1>5, <1>6, IdleFacts DEF Shape, Filing, Removing
<1>8. backups = {} /\ erased = {}
  BY DEF Init
<1>9. IdsGiven
  BY <1>5, <1>8, IdleFacts DEF IdsGiven
<1> QED BY <1>1, <1>2, <1>3, <1>4, <1>6, <1>7, <1>8, <1>9, TypeParts DEF Base

(* A worker takes a step, the others wait: what is left to show is about   *)
(* that worker alone.                                                      *)
LEMMA WorkerShape ==
  ASSUME Base, NEW w \in Workers, now' \in Nat, now \in Nat, now' >= now,
         made \in Nat, made' \in Nat, made' >= made,
         \A v \in Workers \ {w} : work'[v] = work[v],
         work'[w].at \in Filing => work'[w].file \in FileNames /\ work'[w].file.tick <= now',
         work'[w].at \in Removing <=> work'[w].todo # {},
         IsFiniteSet(work'[w].todo),
         \A b \in work'[w].todo : b.id \in Nat /\ b.id <= made',
         \A b \in backups' : b.id \in Nat /\ b.id <= made'
  PROVE  Shape' /\ IdsGiven'
<1>1. ASSUME NEW v \in Workers
      PROVE  /\ work'[v].at \in Filing => work'[v].file \in FileNames /\ work'[v].file.tick <= now'
             /\ work'[v].at \in Removing <=> work'[v].todo # {}
             /\ IsFiniteSet(work'[v].todo)
             /\ \A b \in work'[v].todo : b.id <= made'
  <2>1. CASE v = w
    BY <2>1
  <2>2. CASE v # w
    <3>1. work'[v] = work[v]
      BY <2>2
    <3>2. work[v].at \in Filing => work[v].file \in FileNames /\ work[v].file.tick <= now
                                   /\ work[v].file.tick \in Nat
      BY DEF Base, Shape, FileNames, Times
    <3>3. \A b \in work[v].todo : b.id <= made /\ b.id \in Nat
      BY Positions DEF Base, IdsGiven, Rows, Ids
    <3> QED BY <3>1, <3>2, <3>3 DEF Base, Shape
  <2> QED BY <2>1, <2>2
<1> QED BY <1>1 DEF Shape, IdsGiven

LEMMA NaturalNumbers ==
  ASSUME TypeOK
  PROVE  /\ now \in Nat /\ made \in Nat /\ events \in Nat
         /\ \A b \in backups : b.id \in Nat
         /\ \A w \in Workers : \A b \in work[w].todo : b.id \in Nat
  BY BackupsAssumption, Positions DEF TypeOK, Times, Ids, Rows

(* The commonest step: a worker goes on or is done, and no row or clock    *)
(* changes.                                                                *)
LEMMA MovesOn ==
  ASSUME Base, NEW w \in Workers, work[w].at \in Steps,
         \/ \E s \in Steps \ Removing :
              Goto(w, s) /\ work[w].at \notin Removing /\ (s \in Filing => work[w].at \in Filing)
         \/ \E s \in Removing : Goto(w, s) /\ work[w].at \in Removing
         \/ Over(w),
         now' = now, made' = made, backups' \subseteq backups
  PROVE  WorkOK' /\ Shape' /\ IdsGiven'
<1>1. /\ now \in Nat /\ made \in Nat /\ \A b \in backups : b.id \in Nat /\ b.id <= made
      /\ \A b \in work[w].todo : b.id \in Nat /\ b.id <= made
  BY NaturalNumbers DEF Base, IdsGiven
<1>2. CASE Over(w)
  <2>1. /\ WorkOK' /\ \A v \in Workers \ {w} : work'[v] = work[v]
        /\ work'[w].at = "idle" /\ work'[w].todo = {}
    BY <1>2, OverFacts DEF Base, WorkOK
  <2>2. work'[w].at \notin Filing /\ work'[w].at \notin Removing /\ IsFiniteSet(work'[w].todo)
    BY <2>1, FS_EmptySet DEF Filing, Removing
  <2>3. /\ \A b \in backups' : b.id \in Nat /\ b.id <= made'
        /\ now' \in Nat /\ now' >= now /\ made' \in Nat /\ made' >= made
    BY <1>1
  <2>4. Shape' /\ IdsGiven'
    BY <1>1, <2>1, <2>2, <2>3, WorkerShape
  <2> QED BY <2>1, <2>4
<1>3. ASSUME NEW s \in Steps, Goto(w, s), s \in Filing => work[w].at \in Filing,
             s \in Removing <=> work[w].at \in Removing
      PROVE  WorkOK' /\ Shape' /\ IdsGiven'
  <2>1. /\ WorkOK' /\ \A v \in Workers \ {w} : work'[v] = work[v]
        /\ work'[w].at = s /\ work'[w].todo = work[w].todo /\ work'[w].file = work[w].file
    BY <1>3, GotoFacts DEF Base, WorkOK
  <2>2. /\ work[w].at \in Filing => work[w].file \in FileNames /\ work[w].file.tick <= now
        /\ work[w].at \in Removing <=> work[w].todo # {}
        /\ IsFiniteSet(work[w].todo)
    BY DEF Base, Shape
  <2> QED BY <1>1, <1>3, <2>1, <2>2, WorkerShape
<1> QED BY <1>2, <1>3 DEF Steps, Filing, Removing

LEMMA NobodyMoves ==
  ASSUME Base, work' = work, now' \in Nat, now' >= now, made' \in Nat, made' >= made,
         backups' \subseteq backups
  PROVE  WorkOK' /\ Shape' /\ IdsGiven'
<1>1. /\ now \in Nat /\ made \in Nat /\ \A b \in backups : b.id \in Nat /\ b.id <= made
  BY NaturalNumbers DEF Base, IdsGiven
<1>2. \A w \in Workers : \A b \in work[w].todo : b.id \in Nat /\ b.id <= made
  BY NaturalNumbers DEF Base, IdsGiven
<1>3. \A w \in Workers : work[w].at \in Filing =>
        work[w].file \in FileNames /\ work[w].file.tick \in Nat /\ work[w].file.tick <= now
  BY DEF Base, Shape, FileNames, Times
<1> QED BY <1>1, <1>2, <1>3 DEF Base, Shape, IdsGiven, WorkOK, TypeOK

LEMMA BaseNext ==
  ASSUME ClockOK', RowsOK', FilesOK', WorkOK', DueOK', Shape', IdsGiven',
         IsFiniteSet(backups'), IsFiniteSet(erased')
  PROVE  Base'
  BY DEF Base, TypeOK, ClockOK, RowsOK, FilesOK, WorkOK, DueOK

(* The steps of a worker that is to file a dump.                           *)
LEMMA BaseDumping ==
  ASSUME Base, NEW w \in Workers,
         \/ Dump(w) \/ DumpRefused(w) \/ Copy(w) \/ WriteFails(w) \/ GiveUp(w) \/ RemoveDump(w)
  PROVE  Base'
<1>0. /\ ClockOK /\ RowsOK /\ FilesOK /\ DueOK /\ TypeOK
      /\ IsFiniteSet(backups) /\ IsFiniteSet(erased)
  BY TypeParts DEF Base
<1>1. work[w].at \in {"dump", "copy", "rm"}
  BY DEF Dump, DumpRefused, Copy, WriteFails, GiveUp, RemoveDump
<1>2. /\ work[w].db \in Dbs /\ work[w].file \in FileNames
      /\ InDump(w) \in Dumps
  BY <1>1, DumpNames DEF Filing
<1>3. WorkOK' /\ Shape' /\ IdsGiven'
  <2>1. now' = now /\ made' = made /\ backups' = backups
    BY DEF Dump, DumpRefused, Copy, WriteFails, GiveUp, RemoveDump, Others, Platform
  <2>2. Goto(w, "copy") \/ Goto(w, "rm") \/ Goto(w, "insert") \/ Over(w)
    BY DEF Dump, DumpRefused, Copy, WriteFails, GiveUp, RemoveDump
  <2> QED BY <1>1, <2>1, <2>2, MovesOn DEF Steps, Removing, Filing
<1>4. events' \in 0..MaxEvents
  BY <1>0, BackupsAssumption DEF Dump, DumpRefused, Copy, WriteFails, GiveUp, NoDumpToCopy, RemoveDump,
     Fault, Event, ClockOK
<1>5. ClockOK' /\ RowsOK' /\ DueOK' /\ IsFiniteSet(backups') /\ IsFiniteSet(erased')
  <2>1. UNCHANGED <<Others, Platform, erased>>
    BY DEF Dump, DumpRefused, Copy, WriteFails, GiveUp, RemoveDump, history
  <2> QED BY <1>0, <1>4, <2>1 DEF Others, Platform, ClockOK, RowsOK, DueOK
<1>6. now \in Times /\ \A x \in Dumps : inside[x] \in Times \cup {Never, Partial}
  BY <1>0 DEF ClockOK, FilesOK
<1>7. FilesOK'
  <2>1. CASE Dump(w)
    <3>1. \/ inside' = [inside EXCEPT ![InDump(w)] = now] /\ UNCHANGED <<saving, late>>
          \/ saving' = [saving EXCEPT ![work[w].db] = now] /\ UNCHANGED <<inside, late>>
          \/ late' = late \cup {work[w].db} /\ UNCHANGED <<inside, saving>>
      BY <2>1 DEF Dump
    <3>2. UNCHANGED <<files, spoiled, broken>>
      BY <2>1 DEF Dump
    <3> QED BY <1>0, <1>2, <1>6, <3>1, <3>2 DEF FilesOK
  <2>2. CASE Copy(w) \/ WriteFails(w)
    <3>1. PICK t \in {inside[InDump(w)], Partial} : Write(w, t)
      BY <2>2 DEF Copy, WriteFails
    <3>2. /\ files' = [files EXCEPT ![work[w].file] = [db |-> work[w].db, tick |-> t]]
          /\ spoiled' \subseteq spoiled \cup {work[w].file}
      BY <3>1 DEF Write
    <3>3. late' \subseteq late \cup {work[w].db} /\ UNCHANGED <<inside, saving, broken>>
      BY <2>2 DEF Copy, WriteFails
    <3>4. [db |-> work[w].db, tick |-> t] \in [db : Dbs \cup {NoDb}, tick : Times \cup {Never, Partial}]
      BY <1>2, <1>6
    <3> QED BY <1>0, <1>2, <3>2, <3>3, <3>4 DEF FilesOK
  <2>3. CASE DumpRefused(w) \/ GiveUp(w)
    <3>1. /\ late' \subseteq late \cup {work[w].db} /\ UNCHANGED <<files, saving, spoiled>>
          /\ inside' = inside \/ inside' = [inside EXCEPT ![InDump(w)] = Partial]
          /\ broken' \subseteq broken \cup {InDump(w)}
      BY <2>3 DEF DumpRefused, GiveUp, Outside, history
    <3> QED BY <1>0, <1>2, <3>1 DEF FilesOK
  <2>4. CASE RemoveDump(w)
    <3>1. /\ inside' = [inside EXCEPT ![InDump(w)] = Never] \/ inside' = inside
          /\ UNCHANGED <<files, saving, spoiled, late, broken>>
      BY <2>4 DEF RemoveDump, history
    <3> QED BY <1>0, <3>1 DEF FilesOK
  <2> QED BY <2>1, <2>2, <2>3, <2>4
<1> QED BY <1>3, <1>5, <1>7, BaseNext

LEMMA BaseInsert ==
  ASSUME Base, NEW w \in Workers, InsertRow(w)
  PROVE  Base'
<1>0. /\ ClockOK /\ RowsOK /\ FilesOK /\ DueOK /\ TypeOK
      /\ IsFiniteSet(backups) /\ IsFiniteSet(erased) /\ now \in Nat /\ made \in Nat
  BY TypeParts, NaturalNumbers DEF Base
<1>1. work[w].at = "insert" /\ work[w].db \in Dbs /\ work[w].file \in FileNames
      /\ work[w].todo = {}
  BY DumpNames DEF InsertRow, Filing, Base, Shape, Removing
<1> DEFINE row == [id |-> made + 1, db |-> work[w].db, file |-> work[w].file]
<1>2. row \in Rows /\ row.id = made + 1
  BY <1>0, <1>1 DEF Rows, Ids
<1> HIDE DEF row
<1>3. \/ made' = made + 1 /\ backups' = backups \cup {row} /\ events' = events
      \/ made' = made /\ backups' = backups /\ events' \in 0..MaxEvents
  BY <1>0, BackupsAssumption DEF InsertRow, Fault, Event, ClockOK, row
<1>4. UNCHANGED <<now, up, due, present, schedule, files, inside, saving, spoiled, late, broken, erased>>
  BY DEF InsertRow, Outside, history
<1>5. /\ WorkOK' /\ \A v \in Workers \ {w} : work'[v] = work[v]
      /\ work'[w].at \in {"idle", "touch"} /\ work'[w].todo = {}
  <2>1. Over(w) \/ Goto(w, "touch")
    BY DEF InsertRow
  <2> QED BY <1>0, <1>1, <2>1, OverFacts, GotoFacts DEF WorkOK, Steps
<1>6. \A b \in backups : b.id \in Nat /\ b.id <= made
  BY NaturalNumbers DEF Base, IdsGiven
<1>7. Shape' /\ IdsGiven'
  <2>1. made' \in Nat /\ made' >= made /\ \A b \in backups' : b.id \in Nat /\ b.id <= made'
    BY <1>0, <1>2, <1>3, <1>6
  <2>2. work'[w].at \notin Filing /\ work'[w].at \notin Removing /\ IsFiniteSet(work'[w].todo)
    BY <1>5, FS_EmptySet DEF Filing, Removing
  <2>3. now' \in Nat /\ now' >= now
    BY <1>0, <1>4
  <2> QED BY <1>0, <1>5, <2>1, <2>2, <2>3, WorkerShape
<1>8. IsFiniteSet(backups')
  BY <1>0, <1>3, FS_AddElement
<1>9. ClockOK' /\ RowsOK' /\ FilesOK' /\ DueOK'
  BY <1>0, <1>2, <1>3, <1>4 DEF ClockOK, RowsOK, FilesOK, DueOK, Ids
<1> QED BY <1>0, <1>4, <1>5, <1>7, <1>8, <1>9, BaseNext

LEMMA BaseRemoving ==
  ASSUME Base, NEW w \in Workers, Unlink(w) \/ DropRow(w)
  PROVE  Base'
<1>0. /\ ClockOK /\ RowsOK /\ FilesOK /\ DueOK /\ TypeOK /\ WorkOK
      /\ IsFiniteSet(backups) /\ IsFiniteSet(erased) /\ now \in Nat /\ made \in Nat
  BY TypeParts, NaturalNumbers DEF Base
<1> DEFINE b == Current(w)
<1>1. work[w].at \in Removing /\ b \in work[w].todo /\ b \in Rows /\ b.file \in FileNames
  BY CurrentFacts DEF Unlink, DropRow, Removing, Rows
<1> HIDE DEF b
<1>2. CASE Unlink(w)
  <2>1. /\ Goto(w, "drop") /\ files' = [files EXCEPT ![b.file] = Removed]
        /\ UNCHANGED <<now, up, made, due, present, schedule, backups, inside, saving, events,
                       spoiled, late, broken, erased>>
    BY <1>2 DEF Unlink, b, Others, Platform, history
  <2>2. Removed \in [db : Dbs \cup {NoDb}, tick : Times \cup {Never, Partial}]
    BY BackupsAssumption DEF Removed, Times
  <2>3. WorkOK' /\ Shape' /\ IdsGiven'
    BY <1>1, <2>1, MovesOn DEF Removing, Steps
  <2>4. ClockOK' /\ RowsOK' /\ FilesOK' /\ DueOK'
    BY <1>0, <2>1, <2>2 DEF ClockOK, RowsOK, FilesOK, DueOK
  <2> QED BY <1>0, <2>1, <2>3, <2>4, BaseNext
<1>3. CASE DropRow(w)
  <2>1. /\ backups' \subseteq backups /\ erased' \subseteq erased \cup {b}
        /\ spoiled' \subseteq spoiled \cup {b.file} /\ events' \in 0..MaxEvents
        /\ UNCHANGED <<now, up, made, due, present, schedule, files, inside, saving, late, broken>>
    BY <1>0, <1>3, BackupsAssumption DEF DropRow, b, Others, Outside, Fault, Event, ClockOK
  <2>2. IsFiniteSet(backups') /\ IsFiniteSet(erased')
    BY <1>0, <2>1, FS_Subset, FS_AddElement
  <2>3. ClockOK' /\ RowsOK' /\ FilesOK' /\ DueOK'
    BY <1>0, <1>1, <2>1 DEF ClockOK, RowsOK, FilesOK, DueOK
  <2>4. CASE Over(w)
    <3>1. WorkOK' /\ Shape' /\ IdsGiven'
      BY <1>1, <2>1, <2>4, MovesOn DEF Removing, Steps
    <3> QED BY <2>2, <2>3, <3>1, BaseNext
  <2>5. CASE /\ work[w].todo # {b}
             /\ work' = [work EXCEPT ![w].at = "unlink", ![w].todo = @ \ {b}]
    <3>1. work[w] \in Work
      BY <1>0, <1>1, Positions DEF Removing, Steps
    <3>2. /\ WorkOK' /\ \A v \in Workers \ {w} : work'[v] = work[v]
          /\ work'[w].at = "unlink" /\ work'[w].todo = work[w].todo \ {b}
      BY <1>0, <2>5, <3>1 DEF WorkOK, Work, Steps
    <3>3. work'[w].todo # {} /\ IsFiniteSet(work'[w].todo)
      BY <1>1, <2>5, <3>2, FS_Subset DEF Base, Shape
    <3>4. /\ \A x \in work'[w].todo : x.id \in Nat /\ x.id <= made
          /\ \A x \in backups' : x.id \in Nat /\ x.id <= made
      BY <2>1, <3>2, NaturalNumbers DEF Base, IdsGiven
    <3>5. Shape' /\ IdsGiven'
      <4>1. work'[w].at \notin Filing /\ work'[w].at \in Removing
        BY <3>2 DEF Filing, Removing
      <4>2. now' \in Nat /\ now' >= now /\ made' \in Nat /\ made' >= made /\ made' = made
        BY <1>0, <2>1
      <4> QED BY <1>0, <3>2, <3>3, <3>4, <4>1, <4>2, WorkerShape
    <3> QED BY <2>2, <2>3, <3>2, <3>5, BaseNext
  <2> QED BY <1>3, <2>4, <2>5 DEF DropRow, b
<1> QED BY <1>2, <1>3

(* The steps of the task that are not those of every worker.               *)
LEMMA BaseTask ==
  ASSUME Base, FindDue \/ (\E d \in Dbs : TakeNext(d)) \/ UpdateLastRun \/ ListOld
  PROVE  Base'
<1>0. /\ ClockOK /\ RowsOK /\ FilesOK /\ DueOK /\ TypeOK /\ WorkOK
      /\ IsFiniteSet(backups) /\ IsFiniteSet(erased) /\ now \in Nat /\ made \in Nat
      /\ now <= now /\ made <= made
  BY TypeParts, NaturalNumbers DEF Base
<1>1. /\ \A b \in backups : b.id \in Nat /\ b.id <= made
      /\ Loop \in Workers
  BY NaturalNumbers, LoopIsWorker DEF Base, IdsGiven
<1>2. NotDue \in [id : Ids \cup {0}, keep : Retentions \cup {0}]
  BY DEF NotDue
<1>3. CASE FindDue
  <2>1. UNCHANGED <<now, up, made, work, present, schedule, backups, files, inside, saving,
                    events, spoiled, late, broken, erased>>
    BY <1>3 DEF FindDue, Platform, Outside, history
  <2>2. \A d \in Dbs : [id |-> schedule[d].id, keep |-> schedule[d].keep]
                         \in [id : Ids \cup {0}, keep : Retentions \cup {0}]
    BY <1>0 DEF RowsOK
  <2>3. DueOK'
    BY <1>2, <1>3, <2>2 DEF FindDue, DueOK
  <2>4. WorkOK' /\ Shape' /\ IdsGiven'
    BY <1>0, <2>1, NobodyMoves
  <2>5. ClockOK' /\ RowsOK' /\ FilesOK'
    BY <1>0, <2>1 DEF ClockOK, RowsOK, FilesOK
  <2> QED BY <1>0, <2>1, <2>3, <2>4, <2>5, BaseNext
<1>4. ASSUME NEW d \in Dbs, TakeNext(d) PROVE Base'
  <2>1. /\ due' = [due EXCEPT ![d] = NotDue]
        /\ UNCHANGED <<now, up, made, present, schedule, backups, files, inside, saving,
                       spoiled, late, broken, erased>>
        /\ events' \in 0..MaxEvents
    BY <1>0, <1>4, BackupsAssumption DEF TakeNext, Platform, Outside, history, Fault, Event, ClockOK
  <2>2. ClockOK' /\ RowsOK' /\ FilesOK' /\ DueOK'
    BY <1>0, <1>2, <2>1 DEF ClockOK, RowsOK, FilesOK, DueOK
  <2> DEFINE k == [op |-> "scheduled", at |-> "dump", db |-> d, file |-> FileOf(d, "auto"),
                   id |-> due[d].id, keep |-> due[d].keep, todo |-> {}]
  <2>3. work' = work \/ work' = [work EXCEPT ![Loop] = k]
    BY <1>4 DEF TakeNext
  <2>4. /\ k \in Work /\ k.at = "dump" /\ k.todo = {} /\ k.file \in FileNames /\ k.file.tick = now
    BY <1>0, FileOfFacts DEF Work, Steps, DueOK
  <2> HIDE DEF k
  <2>5. WorkOK' /\ Shape' /\ IdsGiven'
    <3>1. CASE work' = work
      BY <1>0, <2>1, <3>1, NobodyMoves
    <3>2. CASE work' = [work EXCEPT ![Loop] = k]
      <4>1. /\ WorkOK' /\ \A v \in Workers \ {Loop} : work'[v] = work[v]
            /\ work'[Loop] = k
        BY <1>0, <1>1, <2>4, <3>2 DEF WorkOK
      <4> QED BY <1>0, <1>1, <2>1, <2>4, <4>1, WorkerShape, FS_EmptySet DEF Removing
    <3> QED BY <2>3, <3>1, <3>2
  <2> QED BY <1>0, <2>1, <2>2, <2>5, BaseNext
<1>5. CASE UpdateLastRun
  <2>1. /\ UNCHANGED <<now, up, made, due, present, backups, files, inside, saving,
                       spoiled, late, broken, erased>>
        /\ events' \in 0..MaxEvents
    BY <1>0, <1>5, BackupsAssumption
       DEF UpdateLastRun, Others, Outside, history, Fault, Event, ClockOK
  <2>2. WorkOK' /\ Shape' /\ IdsGiven'
    BY <1>1, <1>5, <2>1, MovesOn DEF UpdateLastRun, Steps, Removing, Filing
  <2>3. RowsOK'
    <3>1. work[Loop] \in Work
      BY <1>0, <1>1, <1>5, Positions DEF UpdateLastRun, Steps
    <3>2. PICK t \in Times \cup {Never} :
            schedule' = [schedule EXCEPT ![work[Loop].db].last = t] \/ schedule' = schedule
      <4>1. work[Loop].db \in Dbs /\ now \in Times
        BY <1>0, <3>1 DEF Work, ClockOK
      <4> QED BY <1>0, <1>5, <4>1 DEF UpdateLastRun, RowsOK
    <3> QED BY <1>0, <2>1, <3>2 DEF RowsOK
  <2>4. ClockOK' /\ FilesOK' /\ DueOK'
    BY <1>0, <2>1 DEF ClockOK, FilesOK, DueOK
  <2> QED BY <1>0, <2>1, <2>2, <2>3, <2>4, BaseNext
<1>6. CASE ListOld
  <2> DEFINE old == Beyond(work[Loop].db, work[Loop].keep)
  <2>1. /\ UNCHANGED <<now, up, made, due, present, schedule, backups, files, inside, saving,
                       spoiled, late, broken, erased>>
        /\ events' \in 0..MaxEvents
    BY <1>0, <1>6, BackupsAssumption
       DEF ListOld, Others, Platform, Outside, history, Fault, Event, ClockOK
  <2>2. old \subseteq backups
    BY DEF Beyond, Of
  <2>3. \/ old # {} /\ work' = [work EXCEPT ![Loop].at = "unlink", ![Loop].todo = old]
        \/ Over(Loop)
    BY <1>6 DEF ListOld
  <2> HIDE DEF old
  <2>4. WorkOK' /\ Shape' /\ IdsGiven'
    <3>1. work[Loop] \in Work /\ work[Loop].at \in Steps
      BY <1>0, <1>1, <1>6, Positions DEF ListOld, Steps
    <3>2. CASE Over(Loop)
      BY <1>1, <2>1, <3>1, <3>2, MovesOn
    <3>3. CASE old # {} /\ work' = [work EXCEPT ![Loop].at = "unlink", ![Loop].todo = old]
      <4>0. old \subseteq Rows
        BY <1>0, <2>2 DEF RowsOK
      <4>1. /\ WorkOK' /\ \A v \in Workers \ {Loop} : work'[v] = work[v]
            /\ work'[Loop].at = "unlink" /\ work'[Loop].todo = old
        BY <1>0, <1>1, <3>1, <3>3, <4>0 DEF WorkOK, Work, Steps
      <4>2. IsFiniteSet(old)
        BY <1>0, <2>2, FS_Subset
      <4> QED BY <1>0, <1>1, <2>1, <2>2, <3>3, <4>1, <4>2, WorkerShape DEF Removing, Filing
    <3> QED BY <2>3, <3>2, <3>3
  <2>5. ClockOK' /\ RowsOK' /\ FilesOK' /\ DueOK'
    BY <1>0, <2>1 DEF ClockOK, RowsOK, FilesOK, DueOK
  <2> QED BY <1>0, <2>1, <2>4, <2>5, BaseNext
<1> QED BY <1>3, <1>4, <1>5, <1>6

(* A request that begins: create_backup, export_database, delete_backup.   *)
LEMMA BaseAsk ==
  ASSUME Base, NEW c \in Calls,
         \/ \E d \in Handled, op \in {"backup", "export"} : Begin(c, d, op)
         \/ \E b \in backups : BeginDelete(c, b)
  PROVE  Base'
<1>0. /\ ClockOK /\ RowsOK /\ FilesOK /\ DueOK /\ TypeOK /\ WorkOK
      /\ IsFiniteSet(backups) /\ IsFiniteSet(erased) /\ now \in Nat /\ made \in Nat
      /\ now <= now /\ made <= made
  BY TypeParts, NaturalNumbers DEF Base
<1>1. /\ \A b \in backups : b.id \in Nat /\ b.id <= made
      /\ c \in Workers /\ work[c] = Idle
  BY NaturalNumbers, LoopIsWorker DEF Base, IdsGiven, Begin, BeginDelete, Ask
<1> DEFINE Opens(k) ==
      /\ work' = [work EXCEPT ![c] = k]
      /\ \/ k.at = "dump" /\ k.todo = {} /\ k.file \in FileNames /\ k.file.tick = now
         \/ k.at = "unlink" /\ \E b \in backups : k.todo = {b}
<1>2. /\ UNCHANGED <<now, up, made, due, present, schedule, backups, files, inside, saving,
                     spoiled, late, broken, erased>>
      /\ events' \in 0..MaxEvents
  <2>1. Event /\ UNCHANGED <<now, up, made, due, Platform, Outside, history>>
    BY DEF Begin, BeginDelete, Ask
  <2> QED BY <1>0, <2>1, BackupsAssumption DEF Platform, Outside, history, Event, ClockOK
<1>3. ClockOK' /\ RowsOK' /\ FilesOK' /\ DueOK'
  BY <1>0, <1>2 DEF ClockOK, RowsOK, FilesOK, DueOK
<1>4. \E k \in Work : Opens(k)
  <2>1. ASSUME NEW d \in Handled, NEW op \in {"backup", "export"}, Begin(c, d, op)
        PROVE  \E k \in Work : Opens(k)
    <3> DEFINE f == FileOf(d, IF op = "backup" THEN "manual" ELSE "auto")
               k == [Idle EXCEPT !.op = op, !.at = "dump", !.db = d, !.file = f]
    <3>1. f \in FileNames /\ f.tick = now /\ d \in Dbs
      BY <1>0, FileOfFacts, BackupsAssumption
    <3>2. work' = [work EXCEPT ![c] = k]
      BY <2>1 DEF Begin
    <3> HIDE DEF f
    <3>3. k \in Work /\ k.at = "dump" /\ k.todo = {} /\ k.file = f
      BY <3>1 DEF Idle, Work, Steps
    <3>4. Opens(k)
      BY <3>1, <3>2, <3>3
    <3> HIDE DEF Opens, k
    <3> QED BY <3>3, <3>4
  <2>2. ASSUME NEW b \in backups, BeginDelete(c, b)
        PROVE  \E k \in Work : Opens(k)
    <3> DEFINE k == [Idle EXCEPT !.op = "delete", !.at = "unlink", !.db = b.db, !.todo = {b}]
    <3>1. b \in Rows /\ b.db \in Dbs
      BY <1>0 DEF RowsOK, Rows
    <3>2. work' = [work EXCEPT ![c] = k]
      BY <2>2 DEF BeginDelete
    <3>3. k \in Work /\ k.at = "unlink" /\ k.todo = {b}
      BY <3>1 DEF Idle, Work, Steps
    <3>4. Opens(k)
      BY <3>2, <3>3
    <3> HIDE DEF Opens, k
    <3> QED BY <3>3, <3>4
  <2> HIDE DEF Opens
  <2> QED BY <2>1, <2>2
<1>5. PICK k \in Work : Opens(k)
  BY <1>4
<1>6. /\ WorkOK' /\ \A v \in Workers \ {c} : work'[v] = work[v]
      /\ work'[c] = k
  BY <1>0, <1>1, <1>5 DEF WorkOK
<1>7. Shape' /\ IdsGiven'
  <2>1. IsFiniteSet(k.todo) /\ (k.at \in Removing <=> k.todo # {})
        /\ \A b \in k.todo : b \in backups
    BY <1>5, FS_EmptySet, FS_Singleton DEF Removing
  <2>2. k.at \in Filing => k.file \in FileNames /\ k.file.tick = now
    BY <1>5 DEF Filing
  <2> QED BY <1>0, <1>1, <1>2, <1>6, <2>1, <2>2, WorkerShape
<1> QED BY <1>0, <1>2, <1>3, <1>6, <1>7, BaseNext

(* Requests of one statement, what Redis writes, and the clock.            *)
Elsewhere ==
  \/ \E c \in Calls, d \in Handled :
       \/ \E n \in Retentions : \/ CreateSchedule(c, d, n)
                                \/ \E e \in BOOLEAN : UpdateSchedule(c, d, n, e)
       \/ DeleteSchedule(c, d) \/ RemoveDatabase(c, d) \/ Stop(c, d) \/ Start(c, d)
  \/ \E d \in RedisDbs : SaveDone(d)
  \/ Tick

LEMMA BaseElsewhere ==
  ASSUME Base, Elsewhere
  PROVE  Base'
<1>0. /\ ClockOK /\ RowsOK /\ FilesOK /\ DueOK /\ TypeOK /\ WorkOK
      /\ IsFiniteSet(backups) /\ IsFiniteSet(erased) /\ now \in Nat /\ made \in Nat
      /\ now <= now /\ made <= made /\ now \in Times
  BY TypeParts, NaturalNumbers DEF Base, ClockOK
<1>1. NoSchedule \in [id : Ids \cup {0}, keep : Retentions \cup {0}, enabled : BOOLEAN,
                      last : Times \cup {Never}]
  BY DEF NoSchedule
<1>2. ASSUME NEW c \in Calls, NEW d \in Handled, NEW n \in Retentions, CreateSchedule(c, d, n)
      PROVE  Base'
  <2>1. /\ made' = made + 1 /\ events' \in 0..MaxEvents
        /\ schedule' = [schedule EXCEPT ![d] = [id |-> made + 1, keep |-> n, enabled |-> TRUE,
                                                last |-> Never]]
        /\ UNCHANGED <<now, up, due, work, present, backups, files, inside, saving,
                       spoiled, late, broken, erased>>
    BY <1>0, <1>2, BackupsAssumption
       DEF CreateSchedule, Ask, Event, Outside, history, ClockOK
  <2>2. [id |-> made + 1, keep |-> n, enabled |-> TRUE, last |-> Never]
          \in [id : Ids \cup {0}, keep : Retentions \cup {0}, enabled : BOOLEAN,
               last : Times \cup {Never}]
    BY <1>0 DEF Ids
  <2>3. ClockOK' /\ RowsOK' /\ FilesOK' /\ DueOK'
    BY <1>0, <2>1, <2>2 DEF ClockOK, RowsOK, FilesOK, DueOK, Ids
  <2>4. WorkOK' /\ Shape' /\ IdsGiven'
    BY <1>0, <2>1, NobodyMoves
  <2> QED BY <1>0, <2>1, <2>3, <2>4, BaseNext
<1>3. ASSUME NEW c \in Calls, NEW d \in Handled,
             \/ \E n \in Retentions, e \in BOOLEAN : UpdateSchedule(c, d, n, e)
             \/ DeleteSchedule(c, d)
      PROVE  Base'
  <2> DEFINE Kinds == [id : Ids \cup {0}, keep : Retentions \cup {0}, enabled : BOOLEAN,
                       last : Times \cup {Never}]
  <2>1. /\ events' \in 0..MaxEvents
        /\ UNCHANGED <<now, up, made, due, work, present, backups, files, inside, saving,
                       spoiled, late, broken, erased>>
    <3>1. /\ Event
          /\ UNCHANGED <<now, up, made, due, work, present, backups, Outside, history>>
      BY <1>3 DEF UpdateSchedule, DeleteSchedule, Ask
    <3> QED BY <1>0, <3>1, BackupsAssumption DEF Event, Outside, history, ClockOK
  <2>2. RowsOK'
    <3>1. ASSUME NEW n \in Retentions, NEW e \in BOOLEAN, UpdateSchedule(c, d, n, e)
          PROVE  schedule' \in [Dbs -> Kinds]
      <4>1. schedule' = [schedule EXCEPT ![d].keep = n, ![d].enabled = e]
        BY <3>1 DEF UpdateSchedule
      <4> QED BY <1>0, <4>1 DEF RowsOK
    <3>2. ASSUME DeleteSchedule(c, d) PROVE schedule' \in [Dbs -> Kinds]
      BY <1>0, <1>1, <3>2 DEF DeleteSchedule, RowsOK
    <3>3. schedule' \in [Dbs -> Kinds]
      BY <1>3, <3>1, <3>2
    <3> QED BY <1>0, <2>1, <3>3 DEF RowsOK
  <2>3. ClockOK' /\ FilesOK' /\ DueOK'
    BY <1>0, <2>1 DEF ClockOK, FilesOK, DueOK
  <2>4. WorkOK' /\ Shape' /\ IdsGiven'
    BY <1>0, <2>1, NobodyMoves
  <2> QED BY <1>0, <2>1, <2>2, <2>3, <2>4, BaseNext
<1>4. ASSUME NEW c \in Calls, NEW d \in Handled, RemoveDatabase(c, d) \/ Stop(c, d) \/ Start(c, d)
      PROVE  Base'
  <2>1. /\ events' \in 0..MaxEvents /\ present' \subseteq present /\ up' \subseteq up \cup {d}
        /\ schedule' = [schedule EXCEPT ![d] = NoSchedule] \/ schedule' = schedule
        /\ backups' \subseteq backups
        /\ \/ saving' = [x \in RedisDbs |-> IF x = d THEN Never ELSE saving[x]]
           \/ saving' = saving
        /\ \/ inside' = [x \in DOMAIN inside |-> IF x[1] = d THEN Never ELSE inside[x]]
           \/ inside' = inside
        /\ late' \subseteq late \cup {d}
        /\ UNCHANGED <<now, made, due, files, work, spoiled, broken, erased>>
    BY <1>0, <1>4, BackupsAssumption
       DEF RemoveDatabase, Stop, Start, Ask, Event, Outside, Platform, history, ClockOK
  <2>2. d \in Dbs
    BY BackupsAssumption
  <2>3. RowsOK'
    BY <1>0, <1>1, <2>1 DEF RowsOK
  <2>4. FilesOK'
    BY <1>0, <2>1, <2>2 DEF FilesOK
  <2>5. ClockOK' /\ DueOK'
    BY <1>0, <2>1, <2>2 DEF ClockOK, DueOK
  <2>6. WorkOK' /\ Shape' /\ IdsGiven'
    BY <1>0, <2>1, NobodyMoves
  <2>7. IsFiniteSet(backups')
    BY <1>0, <2>1, FS_Subset
  <2> QED BY <1>0, <2>1, <2>3, <2>4, <2>5, <2>6, <2>7, BaseNext
<1>5. ASSUME NEW d \in RedisDbs, SaveDone(d) PROVE Base'
  <2>1. /\ inside' = [inside EXCEPT ![<<d, Rdb>>] = saving[d]]
        /\ saving' = [saving EXCEPT ![d] = Never]
        /\ UNCHANGED <<now, up, made, due, present, schedule, backups, files, work, events,
                       spoiled, late, broken, erased>>
    BY <1>5 DEF SaveDone, Others, Platform, history
  <2>2. FilesOK'
    BY <1>0, <2>1 DEF FilesOK
  <2>3. ClockOK' /\ RowsOK' /\ DueOK'
    BY <1>0, <2>1 DEF ClockOK, RowsOK, DueOK
  <2>4. WorkOK' /\ Shape' /\ IdsGiven'
    BY <1>0, <2>1, NobodyMoves
  <2> QED BY <1>0, <2>1, <2>2, <2>3, <2>4, BaseNext
<1>6. CASE Tick
  <2>1. /\ now' = now + 1 /\ now' \in Times
        /\ UNCHANGED <<up, made, due, present, schedule, backups, files, inside, saving, work,
                       events, spoiled, late, broken, erased>>
    BY <1>0, <1>6, BackupsAssumption DEF Tick, Platform, Outside, history, Times
  <2>2. ClockOK' /\ RowsOK' /\ FilesOK' /\ DueOK'
    BY <1>0, <2>1 DEF ClockOK, RowsOK, FilesOK, DueOK
  <2>3. WorkOK' /\ Shape' /\ IdsGiven'
    BY <1>0, <2>1, NobodyMoves
  <2> QED BY <1>0, <2>1, <2>2, <2>3, BaseNext
<1>7. ASSUME NEW c \in Calls, NEW d \in Handled,
             \/ \E n \in Retentions : \/ CreateSchedule(c, d, n)
                                      \/ \E e \in BOOLEAN : UpdateSchedule(c, d, n, e)
             \/ DeleteSchedule(c, d) \/ RemoveDatabase(c, d) \/ Stop(c, d) \/ Start(c, d)
      PROVE  Base'
  BY <1>2, <1>3, <1>4, <1>7
<1> QED BY <1>5, <1>6, <1>7 DEF Elsewhere

LEMMA BaseCrash ==
  ASSUME Base, Crash
  PROVE  Base'
<1>0. /\ ClockOK /\ RowsOK /\ FilesOK /\ DueOK /\ TypeOK /\ WorkOK
      /\ IsFiniteSet(backups) /\ IsFiniteSet(erased)
  BY TypeParts DEF Base
<1>1. /\ events' \in 0..MaxEvents /\ work' = [w \in Workers |-> Idle]
      /\ due' = [d \in Dbs |-> NotDue]
      /\ spoiled' = spoiled \cup {Current(w).file : w \in {v \in Workers : work[v].at = "drop"}}
      /\ UNCHANGED <<now, up, made, present, schedule, backups, files, inside, saving,
                     late, broken, erased>>
  BY <1>0, BackupsAssumption DEF Crash, Fault, Event, Platform, Outside, ClockOK
<1>2. \A w \in Workers : work[w].at = "drop" => Current(w).file \in FileNames
  BY CurrentFacts DEF Removing, Rows
<1>3. ClockOK' /\ RowsOK' /\ FilesOK' /\ DueOK' /\ WorkOK'
  BY <1>0, <1>1, <1>2 DEF ClockOK, RowsOK, FilesOK, DueOK, WorkOK, NotDue
<1>4. Shape' /\ IdsGiven'
  BY <1>1, IdleFacts, FS_EmptySet DEF Base, Shape, IdsGiven, Filing, Removing
<1> QED BY <1>0, <1>1, <1>3, <1>4, BaseNext

(* Every step is one of the kinds above.                                   *)
LEMMA Cases ==
  ASSUME Next
  PROVE  \/ \E w \in Workers : Run(w)
         \/ FindDue \/ (\E d \in Dbs : TakeNext(d)) \/ UpdateLastRun \/ ListOld
         \/ \E c \in Calls : \/ \E d \in Handled, op \in {"backup", "export"} : Begin(c, d, op)
                             \/ \E b \in backups : BeginDelete(c, b)
         \/ Elsewhere \/ Crash
  BY LoopIsWorker DEF Next, Schedule, Request, Elsewhere

LEMMA BaseStep == Base /\ [Next]_vars => Base'
<1> SUFFICES ASSUME Base, [Next]_vars PROVE Base'
  OBVIOUS
<1>1. CASE \E w \in Workers : Run(w)
  BY <1>1, BaseDumping, BaseInsert, BaseRemoving DEF Run
<1>2. CASE FindDue \/ (\E d \in Dbs : TakeNext(d)) \/ UpdateLastRun \/ ListOld
  BY <1>2, BaseTask
<1>3. CASE \E c \in Calls : \/ \E d \in Handled, op \in {"backup", "export"} : Begin(c, d, op)
                            \/ \E b \in backups : BeginDelete(c, b)
  BY <1>3, BaseAsk
<1>4. CASE Elsewhere
  BY <1>4, BaseElsewhere
<1>5. CASE Crash
  BY <1>5, BaseCrash
<1>6. CASE UNCHANGED vars
  BY <1>6 DEF vars, Base, TypeOK, Shape, IdsGiven, Current
<1> QED BY <1>1, <1>2, <1>3, <1>4, <1>5, <1>6, Cases

(* Every variable keeps its type, through faults and crashes.              *)
THEOREM TypeCorrect == Spec => []TypeOK
<1>1. Init => Base
  BY BaseInit
<1>2. Base /\ [Next]_vars => Base'
  BY BaseStep
<1>3. Base => TypeOK
  BY DEF Base
<1> QED BY <1>1, <1>2, <1>3, PTL DEF Spec

-----------------------------------------------------------------------------
(* Retention: what the task has still to remove has enough newer backups   *)
(* besides, but for those that users deleted.                              *)
Left(x)   == Newer(x, (backups \cup erased) \ work[Loop].todo)
KeptAlive == \A x \in work[Loop].todo \cap backups : Cardinality(Left(x)) >= work[Loop].keep

LEMMA LeftIsFinite ==
  ASSUME Base, NEW x
  PROVE  IsFiniteSet(Left(x)) /\ Cardinality(Left(x)) \in Nat /\ work[Loop].keep \in Nat
<1>1. IsFiniteSet(backups \cup erased)
  BY FS_Union DEF Base
<1>2. Left(x) \subseteq backups \cup erased
  BY DEF Left, Newer
<1>3. work[Loop].keep \in Nat
  <2>1. work[Loop] \in Work \/ work[Loop] = Idle
    BY LoopIsWorker DEF Base, TypeOK
  <2>2. \A k \in Work : k.keep \in Retentions \cup {0}
    BY DEF Work
  <2>3. Retentions \subseteq Nat /\ 0 \in Nat
    BY BackupsAssumption
  <2>4. work[Loop].keep \in Retentions \cup {0}
    BY <2>1, <2>2, IdleFacts
  <2> QED BY <2>3, <2>4
<1> QED BY <1>1, <1>2, <1>3, FS_Subset, FS_CardinalityType

(* More is left, and nothing new is to be removed.                         *)
LEMMA MoreIsLeft ==
  ASSUME Base, Base', KeptAlive, work'[Loop].keep = work[Loop].keep,
         \A x \in work'[Loop].todo \cap backups' :
           x \in work[Loop].todo \cap backups /\ Left(x) \subseteq Left(x)'
  PROVE  KeptAlive'
<1>1. ASSUME NEW x \in work'[Loop].todo \cap backups'
      PROVE  Cardinality(Left(x)') >= work'[Loop].keep
  <2>1. Cardinality(Left(x)) >= work[Loop].keep /\ Left(x) \subseteq Left(x)'
    BY <1>1 DEF KeptAlive
  <2>2. IsFiniteSet(Left(x)')
    <3>1. IsFiniteSet(backups' \cup erased')
      BY FS_Union DEF Base
    <3>2. Left(x)' \subseteq backups' \cup erased'
      BY DEF Left, Newer
    <3> QED BY <3>1, <3>2, FS_Subset
  <2>3. Cardinality(Left(x)) <= Cardinality(Left(x)')
    BY <2>1, <2>2, FS_Subset
  <2>4. /\ Cardinality(Left(x)) \in Nat /\ Cardinality(Left(x)') \in Nat
        /\ work[Loop].keep \in Nat
    BY <2>2, LeftIsFinite, FS_CardinalityType
  <2>5. \A p, q, r \in Nat : p >= r /\ p <= q => q >= r
    OBVIOUS
  <2>6. Cardinality(Left(x)') >= work[Loop].keep
    BY <2>1, <2>3, <2>4, <2>5
  <2> QED BY <2>6
<1> QED BY <1>1 DEF KeptAlive

LEMMA NothingToRemove ==
  ASSUME work'[Loop].todo = {} PROVE KeptAlive'
  BY DEF KeptAlive

(* The rows beyond the first n: the newest of them already has n newer     *)
(* ones, which are none of them and newer than every other of them.        *)
LEMMA ListedHasNewer ==
  ASSUME Base, work[Loop] \in Work, NEW old,
         old = Beyond(work[Loop].db, work[Loop].keep), old # {},
         NEW x \in old
  PROVE  /\ Cardinality(Newer(x, (backups \cup erased) \ old)) >= work[Loop].keep
<1>1. /\ old \subseteq backups /\ old \subseteq Rows /\ backups \subseteq Rows
      /\ \A y \in old : y.db = work[Loop].db
  BY DEF Beyond, Of, Base, TypeOK
<1>2. IsFiniteSet(old) /\ IsFiniteSet(backups \cup erased)
  BY <1>1, FS_Subset, FS_Union DEF Base
<1>3. PICK m \in old : Newer(m, old) = {}
  BY <1>1, <1>2, NewestExists
<1>4. Cardinality(Newer(m, backups)) >= work[Loop].keep
  BY <1>3 DEF Beyond
<1>5. Newer(m, backups) \subseteq Newer(x, (backups \cup erased) \ old)
  <2>1. ASSUME NEW y \in Newer(m, backups) PROVE y \in Newer(x, (backups \cup erased) \ old)
    <3>1. y \in backups /\ y.db = m.db /\ y.id > m.id
      BY <2>1 DEF Newer
    <3>2. y \notin old
      BY <1>3, <3>1 DEF Newer
    <3>3. m.id \in Nat /\ x.id \in Nat /\ y.id \in Nat /\ x.db = m.db
      BY <1>1, <3>1 DEF Rows, Ids
    <3>4. ~(x.id > m.id)
      BY <1>3, <3>3 DEF Newer
    <3>5. y.id > x.id
      BY <3>1, <3>3, <3>4
    <3> QED BY <3>1, <3>2, <3>3, <3>5 DEF Newer
  <2> QED BY <2>1
<1>6. IsFiniteSet(Newer(x, (backups \cup erased) \ old))
  <2>1. Newer(x, (backups \cup erased) \ old) \subseteq backups \cup erased
    BY DEF Newer
  <2> QED BY <1>2, <2>1, FS_Subset
<1>7. /\ Cardinality(Newer(m, backups)) <= Cardinality(Newer(x, (backups \cup erased) \ old))
      /\ IsFiniteSet(Newer(m, backups))
  BY <1>5, <1>6, FS_Subset
<1>8. \A p, q, r \in Nat : p >= r /\ p <= q => q >= r
  OBVIOUS
<1>9. /\ Cardinality(Newer(m, backups)) \in Nat /\ work[Loop].keep \in Nat
      /\ Cardinality(Newer(x, (backups \cup erased) \ old)) \in Nat
  BY <1>6, <1>7, FS_CardinalityType, LeftIsFinite
<1> QED BY <1>4, <1>7, <1>8, <1>9

(* The step of a worker that drops a row.                                  *)
LEMMA DropFacts ==
  ASSUME Base, NEW w \in Workers, DropRow(w)
  PROVE  /\ work[w].at = "drop" /\ Current(w) \in work[w].todo /\ Current(w) \in Rows
         /\ \A v \in Workers \ {w} : work'[v] = work[v]
         /\ \/ work'[w] = Idle
            \/ /\ work'[w].todo = work[w].todo \ {Current(w)} /\ work'[w].keep = work[w].keep
               /\ work'[w].at = "unlink"
         /\ \/ /\ backups' = backups \ {Current(w)} /\ spoiled' = spoiled
               /\ erased' = IF w = Loop THEN erased ELSE erased \cup {Current(w)}
            \/ /\ backups' = backups /\ erased' = erased
               /\ spoiled' = spoiled \cup {Current(w).file}
<1>1. /\ work[w].at = "drop" /\ Current(w) \in work[w].todo /\ Current(w) \in Rows
      /\ work[w] \in Work
  BY CurrentFacts, Positions DEF DropRow, Removing, Base, Steps
<1>2. \/ Over(w)
      \/ work' = [work EXCEPT ![w].at = "unlink", ![w].todo = @ \ {Current(w)}]
  BY DEF DropRow
<1>3. /\ \A v \in Workers \ {w} : work'[v] = work[v]
      /\ \/ work'[w] = Idle
         \/ /\ work'[w].todo = work[w].todo \ {Current(w)} /\ work'[w].keep = work[w].keep
            /\ work'[w].at = "unlink"
  BY <1>1, <1>2 DEF Base, TypeOK, Over, Work
<1> QED BY <1>1, <1>3 DEF DropRow

LEMMA KeptAliveStep ==
  ASSUME Base, Base', KeptAlive, [Next]_vars
  PROVE  KeptAlive'
<1>0. Loop \in Workers /\ \A c \in Calls : c # Loop
  BY LoopIsWorker
<1>1. ASSUME work'[Loop].keep = work[Loop].keep, work'[Loop].todo = work[Loop].todo,
             backups' = backups, erased' = erased
      PROVE  KeptAlive'
  BY <1>1 DEF KeptAlive, Left, Newer
<1>2. ASSUME NEW w \in Workers,
             \/ Dump(w) \/ DumpRefused(w) \/ Copy(w) \/ WriteFails(w) \/ GiveUp(w) \/ RemoveDump(w) \/ Unlink(w)
      PROVE  KeptAlive'
  <2>1. UNCHANGED <<backups, erased>>
    BY <1>2 DEF Dump, DumpRefused, Copy, WriteFails, GiveUp, RemoveDump, Unlink, Platform, history
  <2>2. \/ Over(w)
        \/ \E s \in Steps : Goto(w, s)
    BY <1>2 DEF Dump, DumpRefused, Copy, WriteFails, GiveUp, RemoveDump, Unlink, Steps
  <2>3. work[w].at \in Steps
    BY <1>2 DEF Dump, DumpRefused, Copy, WriteFails, GiveUp, RemoveDump, Unlink, Steps
  <2>4. CASE w = Loop /\ Over(w)
    BY <2>4, OverFacts, NothingToRemove DEF Base
  <2>5. CASE w # Loop /\ Over(w)
    BY <1>0, <1>1, <2>1, <2>5, OverFacts DEF Base
  <2>6. CASE \E s \in Steps : Goto(w, s)
    <3>1. work'[Loop].keep = work[Loop].keep /\ work'[Loop].todo = work[Loop].todo
      BY <1>0, <2>3, <2>6, GotoFacts DEF Base
    <3> QED BY <1>1, <2>1, <3>1
  <2> QED BY <2>2, <2>4, <2>5, <2>6
<1>3. ASSUME NEW w \in Workers, InsertRow(w)
      PROVE  KeptAlive'
  <2>1. work[w].at = "insert" /\ work[w].todo = {}
    BY <1>3 DEF InsertRow, Base, Shape, Removing
  <2>2. \A v \in Workers : work'[v].todo = work[v].todo /\ (v # w => work'[v] = work[v])
    <3>1. Over(w) \/ Goto(w, "touch")
      BY <1>3 DEF InsertRow
    <3> QED BY <2>1, <3>1, OverFacts, GotoFacts DEF Base, Steps
  <2>3. CASE w = Loop
    BY <2>1, <2>2, <2>3, NothingToRemove
  <2>4. CASE w # Loop
    <3>1. \/ backups' = backups
          \/ \E row : row.id = made + 1 /\ backups' = backups \cup {row}
      <4> DEFINE row == [id |-> made + 1, db |-> work[w].db, file |-> work[w].file]
      <4>1. row.id = made + 1
        OBVIOUS
      <4> QED BY <1>3, <4>1 DEF InsertRow
    <3>2. erased' = erased /\ backups \subseteq backups'
      BY <1>3 DEF InsertRow, history
    <3>3. \A x \in work[Loop].todo : x.id # made + 1
      BY <1>0, NaturalNumbers DEF Base, IdsGiven
    <3>4. \A x \in work'[Loop].todo \cap backups' :
            x \in work[Loop].todo \cap backups /\ Left(x) \subseteq Left(x)'
      BY <1>0, <2>2, <2>4, <3>1, <3>2, <3>3 DEF Left, Newer
    <3> QED BY <1>0, <2>2, <2>4, <3>4, MoreIsLeft
  <2> QED BY <2>3, <2>4
<1>4. ASSUME NEW w \in Workers, DropRow(w)
      PROVE  KeptAlive'
  <2> DEFINE b == Current(w)
  <2>1. /\ b \in work[w].todo
        /\ \A v \in Workers \ {w} : work'[v] = work[v]
        /\ \/ work'[w] = Idle
           \/ work'[w].todo = work[w].todo \ {b} /\ work'[w].keep = work[w].keep
        /\ \/ /\ backups' = backups \ {b}
              /\ erased' = IF w = Loop THEN erased ELSE erased \cup {b}
           \/ backups' = backups /\ erased' = erased
    BY <1>4, DropFacts
  <2> HIDE DEF b
  <2>2. CASE work'[Loop] = Idle
    BY <2>2, IdleFacts, NothingToRemove
  <2>3. CASE work'[Loop] # Idle
    <3>1. \/ w # Loop /\ work'[Loop] = work[Loop]
          \/ w = Loop /\ work'[Loop].todo = work[Loop].todo \ {b}
                      /\ work'[Loop].keep = work[Loop].keep
      BY <1>0, <2>1, <2>3
    <3>2. \A x \in work'[Loop].todo \cap backups' :
            x \in work[Loop].todo \cap backups /\ Left(x) \subseteq Left(x)'
      BY <2>1, <3>1 DEF Left, Newer
    <3> QED BY <3>1, <3>2, MoreIsLeft
  <2> QED BY <2>2, <2>3
<1>5. CASE ListOld
  <2> DEFINE old == Beyond(work[Loop].db, work[Loop].keep)
  <2>1. work[Loop] \in Work /\ UNCHANGED <<backups, erased>>
    BY <1>0, <1>5, Positions DEF ListOld, Base, Steps, Platform, history
  <2>2. CASE Over(Loop)
    BY <1>0, <2>2, OverFacts, NothingToRemove DEF Base
  <2>3. CASE old # {} /\ work' = [work EXCEPT ![Loop].at = "unlink", ![Loop].todo = old]
    <3>1. work'[Loop].todo = old /\ work'[Loop].keep = work[Loop].keep
      BY <1>0, <2>1, <2>3 DEF Base, TypeOK, Work
    <3>2. \A x \in old :
            Cardinality(Newer(x, (backups \cup erased) \ old)) >= work[Loop].keep
      BY <2>1, <2>3, ListedHasNewer
    <3> HIDE DEF old
    <3> QED BY <2>1, <3>1, <3>2 DEF KeptAlive, Left, Newer
  <2> QED BY <1>5, <2>2, <2>3 DEF ListOld
<1>6. CASE FindDue \/ UpdateLastRun
  <2>1. UNCHANGED <<backups, erased>>
    BY <1>6 DEF FindDue, UpdateLastRun, Platform, history
  <2>2. work' = work \/ (work[Loop].at \in Steps /\ Goto(Loop, "list"))
    BY <1>6 DEF FindDue, UpdateLastRun, Steps
  <2>3. work'[Loop].keep = work[Loop].keep /\ work'[Loop].todo = work[Loop].todo
    BY <1>0, <2>2, GotoFacts DEF Base, Steps
  <2> QED BY <1>1, <2>1, <2>3
<1>7. ASSUME NEW d \in Dbs, TakeNext(d) PROVE KeptAlive'
  <2>1. work[Loop] = Idle /\ UNCHANGED <<backups, erased>>
    BY <1>7 DEF TakeNext, Platform, history
  <2>2. \/ work' = work
        \/ work'[Loop] = [op |-> "scheduled", at |-> "dump", db |-> d, file |-> FileOf(d, "auto"),
                          id |-> due[d].id, keep |-> due[d].keep, todo |-> {}]
    BY <1>0, <1>7 DEF TakeNext, Base, TypeOK
  <2>3. work'[Loop].todo = {}
    BY <2>1, <2>2, IdleFacts
  <2> QED BY <2>3, NothingToRemove
<1>8. ASSUME NEW c \in Calls,
             \/ \E d \in Handled, op \in {"backup", "export"} : Begin(c, d, op)
             \/ \E b \in backups : BeginDelete(c, b)
      PROVE  KeptAlive'
  <2>1. UNCHANGED <<backups, erased>>
    BY <1>8 DEF Begin, BeginDelete, Platform, history
  <2>2. work'[Loop] = work[Loop]
    BY <1>0, <1>8 DEF Begin, BeginDelete, Base, TypeOK
  <2> QED BY <1>1, <2>1, <2>2
<1>9. CASE Elsewhere
  <2>1. ASSUME NEW c \in Calls, NEW d \in Handled, RemoveDatabase(c, d) PROVE KeptAlive'
    <3>1. work' = work /\ erased' = erased /\ backups' = backups \ {b \in backups : b.db = d}
      BY <2>1 DEF RemoveDatabase, history, Of
    <3>2. \A x \in work'[Loop].todo \cap backups' :
            x \in work[Loop].todo \cap backups /\ Left(x) \subseteq Left(x)'
      BY <3>1 DEF Left, Newer
    <3> QED BY <3>1, <3>2, MoreIsLeft
  <2>2. CASE UNCHANGED <<work, backups, erased>>
    BY <2>2, <1>1
  <2>3. \/ \E c \in Calls, d \in Handled : RemoveDatabase(c, d)
        \/ UNCHANGED <<work, backups, erased>>
    BY <1>9 DEF Elsewhere, CreateSchedule, UpdateSchedule, DeleteSchedule, Stop, Start, SaveDone,
       Tick, Platform, history
  <2> QED BY <2>1, <2>2, <2>3
<1>10. CASE Crash
  BY <1>0, <1>10, IdleFacts, NothingToRemove DEF Crash
<1>11. CASE UNCHANGED vars
  BY <1>1, <1>11 DEF vars
<1> QED BY <1>2, <1>3, <1>4, <1>5, <1>6, <1>7, <1>8, <1>9, <1>10, <1>11, Cases DEF Run

(* The task never removes a backup that is among the newest that its       *)
(* schedule keeps, whatever requests and other workers do meanwhile.       *)
THEOREM NewestKept == Spec => NewestAreKept
<1>1. Init => KeptAlive
  BY LoopIsWorker, IdleFacts DEF Init, KeptAlive
<1>2. Base /\ Base' /\ KeptAlive /\ [Next]_vars => KeptAlive'
  BY KeptAliveStep
<1>3. Base /\ KeptAlive /\ [Next]_vars =>
        [\A b \in backups \ backups' :
           work[Loop].at = "drop" /\ work'[Loop] # work[Loop] =>
             Cardinality(Newer(b, backups \cup erased)) >= work[Loop].keep]_vars
  <2> SUFFICES ASSUME Base, KeptAlive, Next, NEW b \in backups, b \notin backups',
                      work[Loop].at = "drop", work'[Loop] # work[Loop]
               PROVE  Cardinality(Newer(b, backups \cup erased)) >= work[Loop].keep
    OBVIOUS
  <2>1. DropRow(Loop)
    <3>1. ASSUME NEW w \in Workers, Run(w) PROVE w = Loop /\ DropRow(w)
      <4>1. w = Loop
        <5>1. CASE DropRow(w)
          BY <5>1, DropFacts, LoopIsWorker
        <5>2. CASE \/ Dump(w) \/ DumpRefused(w) \/ Copy(w) \/ WriteFails(w) \/ GiveUp(w) \/ RemoveDump(w)
                   \/ InsertRow(w) \/ Unlink(w)
          <6>1. Over(w) \/ \E s \in Steps : Goto(w, s)
            BY <5>2 DEF Dump, DumpRefused, Copy, WriteFails, GiveUp, RemoveDump, InsertRow, Unlink, Steps
          <6> QED BY <6>1, LoopIsWorker DEF Over, Goto, Base, TypeOK
        <5> QED BY <3>1, <5>1, <5>2 DEF Run
      <4> QED BY <3>1, <4>1
           DEF Run, Dump, DumpRefused, Copy, WriteFails, GiveUp, RemoveDump, InsertRow, Unlink
    <3>2. ~(FindDue \/ (\E d \in Dbs : TakeNext(d)) \/ UpdateLastRun \/ ListOld)
      BY IdleFacts DEF FindDue, TakeNext, UpdateLastRun, ListOld
    <3>3. ASSUME NEW c \in Calls,
                 \/ \E d \in Handled, op \in {"backup", "export"} : Begin(c, d, op)
                 \/ \E x \in backups : BeginDelete(c, x)
          PROVE  FALSE
      BY <3>3 DEF Begin, BeginDelete, Platform
    <3>4. ~Elsewhere
      <4>1. Elsewhere => work' = work
        BY DEF Elsewhere, CreateSchedule, UpdateSchedule, DeleteSchedule, RemoveDatabase, Stop,
           Start, SaveDone, Tick
      <4> QED BY <4>1
    <3>5. ~Crash
      BY DEF Crash, Platform
    <3> QED BY <3>1, <3>2, <3>3, <3>4, <3>5, Cases
  <2>2. b = Current(Loop) /\ b \in work[Loop].todo
    BY <2>1, DropFacts, LoopIsWorker
  <2>3. Cardinality(Left(b)) >= work[Loop].keep
    BY <2>2 DEF KeptAlive
  <2>4. Left(b) \subseteq Newer(b, backups \cup erased)
    BY DEF Left, Newer
  <2>5. IsFiniteSet(Newer(b, backups \cup erased))
    <3>1. IsFiniteSet(backups \cup erased) /\ Newer(b, backups \cup erased) \subseteq backups \cup erased
      BY FS_Union DEF Base, Newer
    <3> QED BY <3>1, FS_Subset
  <2>6. Cardinality(Left(b)) <= Cardinality(Newer(b, backups \cup erased))
    BY <2>4, <2>5, FS_Subset
  <2>7. \A p, q, r \in Nat : p >= r /\ p <= q => q >= r
    OBVIOUS
  <2> QED BY <2>3, <2>5, <2>6, <2>7, LeftIsFinite, FS_CardinalityType
<1>4. Init => Base
  BY BaseInit
<1>5. Base /\ [Next]_vars => Base'
  BY BaseStep
<1> QED BY <1>1, <1>2, <1>3, <1>4, <1>5, PTL DEF Spec, NewestAreKept

-----------------------------------------------------------------------------
(* Dumps: one of a database that is not Redis is no older than its name,   *)
(* or what a broken one left; that of Redis, while nothing went wrong for it, no older than the name  *)
(* which the worker that is to copy it has, once BGSAVE is through.        *)
DumpOK(d, f) ==
  LET t == inside[<<d, f>>] IN
  t = Never \/ t >= f.tick \/ (t = Partial /\ <<d, f>> \in broken)

DumpsInv ==
  /\ \A d \in Dbs \ RedisDbs, f \in FileNames : DumpOK(d, f)
  /\ \A w \in Workers : work[w].at = "copy" /\ work[w].db \in RedisDbs \ late =>
       LET d == work[w].db IN
       \/ saving[d] # Never /\ saving[d] >= work[w].file.tick
       \/ saving[d] = Never /\ (inside[<<d, Rdb>>] = Never \/ inside[<<d, Rdb>>] >= work[w].file.tick)

LEMMA TicksAreIntegers ==
  ASSUME Base
  PROVE  /\ now \in Nat
         /\ \A d \in RedisDbs : /\ saving[d] \in Int /\ (saving[d] # Never => saving[d] \in Nat)
                                /\ inside[<<d, Rdb>>] \in Int
         /\ \A f \in FileNames : f.tick \in Nat
         /\ \A w \in Workers : work[w].at \in Filing =>
              work[w].file.tick \in Nat /\ work[w].file.tick <= now
<1>1. now \in Nat /\ Times \subseteq Nat /\ Times \cup {Never, Partial} \subseteq Int
  BY NaturalNumbers, BackupsAssumption DEF Base, Times, Never, Partial
<1>2. \A d \in RedisDbs : <<d, Rdb>> \in Dumps
  BY DEF Dumps
<1>3. \A d \in RedisDbs : saving[d] \in Times \cup {Never} /\ inside[<<d, Rdb>>] \in Times \cup {Never, Partial}
  BY <1>2 DEF Base, TypeOK
<1>4. \A f \in FileNames : f.tick \in Nat
  BY <1>1 DEF FileNames
<1>5. \A w \in Workers : work[w].at \in Filing =>
        work[w].file \in FileNames /\ work[w].file.tick <= now
  BY DEF Base, Shape
<1> QED BY <1>1, <1>3, <1>4, <1>5

(* No dump appears, and who is to copy one was to before.                  *)
LEMMA DumpsKept ==
  ASSUME Base, DumpsInv, late \subseteq late', broken \subseteq broken',
         \A x \in Dumps : inside'[x] = inside[x] \/ inside'[x] = Never,
         saving' = saving,
         \A w \in Workers : work'[w].at = "copy" /\ work'[w].db \in RedisDbs \ late' =>
           work[w].at = "copy" /\ work'[w].db = work[w].db /\ work'[w].file = work[w].file
  PROVE  DumpsInv'
<1>1. \A d \in Dbs \ RedisDbs, f \in FileNames : <<d, f>> \in Dumps
  BY DEF Dumps
<1>2. \A d \in RedisDbs : <<d, Rdb>> \in Dumps
  BY DEF Dumps
<1>3. \A d \in Dbs \ RedisDbs, f \in FileNames :
        DumpOK(d, f)'
  BY <1>1 DEF DumpsInv, DumpOK
<1>4. ASSUME NEW w \in Workers, work'[w].at = "copy", work'[w].db \in RedisDbs \ late'
      PROVE  LET d == work'[w].db IN
             \/ saving'[d] # Never /\ saving'[d] >= work'[w].file.tick
             \/ /\ saving'[d] = Never
                /\ inside'[<<d, Rdb>>] = Never \/ inside'[<<d, Rdb>>] >= work'[w].file.tick
  <2>1. /\ work[w].at = "copy" /\ work[w].db \in RedisDbs \ late
        /\ work'[w].db = work[w].db /\ work'[w].file = work[w].file
    BY <1>4
  <2>2. \/ inside'[<<work[w].db, Rdb>>] = inside[<<work[w].db, Rdb>>]
        \/ inside'[<<work[w].db, Rdb>>] = Never
    BY <1>2, <2>1
  <2> QED BY <2>1, <2>2 DEF DumpsInv
<1> QED BY <1>3, <1>4 DEF DumpsInv

LEMMA DumpMakes ==
  ASSUME Base, DumpsInv, NEW w \in Workers, Dump(w)
  PROVE  DumpsInv'
<1> DEFINE d == work[w].db
<1>1. /\ work[w].at = "dump" /\ d \in Dbs /\ InDump(w) \in Dumps /\ work[w].file \in FileNames
      /\ d \notin RedisDbs => InDump(w) = <<d, work[w].file>>
      /\ work[w].file.tick <= now /\ now \in Nat /\ work[w].file.tick \in Nat
  BY DumpNames, TicksAreIntegers DEF Dump, Filing
<1>2. /\ \A v \in Workers \ {w} : work'[v] = work[v]
      /\ work'[w].at = "copy" /\ work'[w].db = d /\ work'[w].file = work[w].file
  BY <1>1, GotoFacts DEF Dump, Base, Steps
<1>3. CASE d \notin RedisDbs
  <2>1. inside' = [inside EXCEPT ![InDump(w)] = now] /\ UNCHANGED <<saving, late, broken>>
    BY <1>3 DEF Dump, Busy
  <2>2. \A x \in Dumps : inside'[x] = IF x = <<d, work[w].file>> THEN now ELSE inside[x]
    BY <1>1, <1>3, <2>1 DEF Base, TypeOK
  <2>3. \A e \in Dbs \ RedisDbs, f \in FileNames :
          DumpOK(e, f)'
    <3>1. \A e \in Dbs \ RedisDbs, f \in FileNames : <<e, f>> \in Dumps
      BY DEF Dumps
    <3> QED BY <1>1, <2>1, <2>2, <3>1 DEF DumpsInv, DumpOK
  <2>4. \A e \in RedisDbs : inside'[<<e, Rdb>>] = inside[<<e, Rdb>>]
    <3>1. \A e \in RedisDbs : <<e, Rdb>> \in Dumps
      BY DEF Dumps
    <3> QED BY <1>3, <2>2, <3>1
  <2>5. ASSUME NEW v \in Workers, work'[v].at = "copy", work'[v].db \in RedisDbs \ late'
        PROVE  LET e == work'[v].db IN
               \/ saving'[e] # Never /\ saving'[e] >= work'[v].file.tick
               \/ /\ saving'[e] = Never
                  /\ inside'[<<e, Rdb>>] = Never \/ inside'[<<e, Rdb>>] >= work'[v].file.tick
    <3>1. work'[v] = work[v]
      BY <1>2, <1>3, <2>5
    <3> QED BY <2>1, <2>4, <2>5, <3>1 DEF DumpsInv
  <2> QED BY <2>3, <2>5 DEF DumpsInv
<1>4. CASE d \in RedisDbs \ Busy
  <2>1. /\ saving' = [saving EXCEPT ![d] = now] /\ UNCHANGED <<inside, late, broken>>
        /\ saving[d] = Never
    BY <1>4 DEF Dump, Busy
  <2>2. \A e \in RedisDbs : saving'[e] = IF e = d THEN now ELSE saving[e]
    BY <2>1 DEF Base, TypeOK
  <2>3. ASSUME NEW v \in Workers, work'[v].at = "copy", work'[v].db \in RedisDbs \ late'
        PROVE  LET e == work'[v].db IN
               \/ saving'[e] # Never /\ saving'[e] >= work'[v].file.tick
               \/ /\ saving'[e] = Never
                  /\ inside'[<<e, Rdb>>] = Never \/ inside'[<<e, Rdb>>] >= work'[v].file.tick
    <3>1. now # Never
      BY <1>1 DEF Never
    <3>2. CASE v = w
      BY <1>1, <1>2, <1>4, <2>2, <3>1, <3>2
    <3>3. CASE v # w
      <4>1. work'[v] = work[v] /\ work[v].at \in Filing
        BY <1>2, <2>3, <3>3 DEF Filing
      <4>2. work[v].file.tick <= now
        BY <4>1, TicksAreIntegers
      <4>3. CASE work[v].db = d
        BY <1>4, <2>2, <3>1, <4>1, <4>2, <4>3
      <4>4. CASE work[v].db # d
        BY <2>1, <2>2, <2>3, <4>1, <4>4 DEF DumpsInv
      <4> QED BY <4>3, <4>4
    <3> QED BY <3>2, <3>3
  <2>4. \A e \in Dbs \ RedisDbs, f \in FileNames :
          DumpOK(e, f)'
    BY <2>1 DEF DumpsInv, DumpOK
  <2> QED BY <2>3, <2>4 DEF DumpsInv
<1>5. CASE d \in Busy
  <2>1. late' = late \cup {d} /\ UNCHANGED <<inside, saving, broken>>
    BY <1>5 DEF Dump, Busy
  <2> QED BY <1>2, <2>1, DumpsKept
<1> QED BY <1>3, <1>4, <1>5 DEF Busy

(* The step with which a request begins.                                   *)
LEMMA AskFacts ==
  ASSUME Base, NEW c \in Calls,
         \/ \E d \in Handled, op \in {"backup", "export"} : Begin(c, d, op)
         \/ \E b \in backups : BeginDelete(c, b)
  PROVE  /\ work[c] = Idle
         /\ \A v \in Workers \ {c} : work'[v] = work[v]
         /\ \/ work'[c].at = "dump" /\ work'[c].todo = {}
            \/ work'[c].at = "unlink" /\ work'[c].todo \subseteq backups
<1>0. c \in Workers
  BY LoopIsWorker
<1>1. ASSUME NEW d \in Handled, NEW op \in {"backup", "export"}, Begin(c, d, op)
      PROVE  \E k : work' = [work EXCEPT ![c] = k] /\ k.at = "dump" /\ k.todo = {}
  <2> DEFINE k == [Idle EXCEPT !.op = op, !.at = "dump", !.db = d,
                              !.file = FileOf(d, IF op = "backup" THEN "manual" ELSE "auto")]
  <2>1. k.at = "dump" /\ k.todo = {}
    BY DEF Idle
  <2> QED BY <1>1, <2>1 DEF Begin
<1>2. ASSUME NEW b \in backups, BeginDelete(c, b)
      PROVE  \E k : work' = [work EXCEPT ![c] = k] /\ k.at = "unlink" /\ k.todo \subseteq backups
  <2> DEFINE k == [Idle EXCEPT !.op = "delete", !.at = "unlink", !.db = b.db, !.todo = {b}]
  <2>1. k.at = "unlink" /\ k.todo \subseteq backups
    BY DEF Idle
  <2> QED BY <1>2, <2>1 DEF BeginDelete
<1>3. \E k : /\ work' = [work EXCEPT ![c] = k]
             /\ \/ k.at = "dump" /\ k.todo = {}
                \/ k.at = "unlink" /\ k.todo \subseteq backups
  BY <1>1, <1>2
<1>4. work[c] = Idle
  BY DEF Begin, BeginDelete, Ask
<1> QED BY <1>0, <1>3, <1>4 DEF Base, TypeOK

LEMMA DumpsStep ==
  ASSUME Base, DumpsInv, [Next]_vars
  PROVE  DumpsInv'
<1>1. ASSUME NEW w \in Workers, Dump(w) PROVE DumpsInv'
  BY <1>1, DumpMakes
<1>2. ASSUME NEW w \in Workers,
             \/ Copy(w) \/ WriteFails(w) \/ GiveUp(w) \/ RemoveDump(w) \/ InsertRow(w) \/ Unlink(w) \/ DropRow(w)
      PROVE  DumpsInv'
  <2>1. \A v \in Workers : work'[v] = work[v] \/ work'[v].at # "copy"
    <3>1. CASE DropRow(w)
      BY <3>1, DropFacts, IdleFacts
    <3>2. CASE \/ Copy(w) \/ WriteFails(w) \/ GiveUp(w) \/ RemoveDump(w) \/ InsertRow(w) \/ Unlink(w)
      <4>1. work[w].at \in Steps
        BY <3>2 DEF Copy, WriteFails, GiveUp, RemoveDump, InsertRow, Unlink, Steps
      <4>2. Over(w) \/ \E s \in Steps \ {"copy"} : Goto(w, s)
        BY <3>2 DEF Copy, WriteFails, GiveUp, RemoveDump, InsertRow, Unlink, Steps
      <4> QED BY <4>1, <4>2, OverFacts, GotoFacts DEF Base
    <3> QED BY <1>2, <3>1, <3>2
  <2>2. late \subseteq late' /\ broken' = broken /\ saving' = saving
    BY <1>2 DEF Copy, WriteFails, GiveUp, RemoveDump, InsertRow, Unlink, DropRow, Outside, history
  <2>3. \A x \in Dumps : inside'[x] = inside[x] \/ inside'[x] = Never
    BY <1>2 DEF Copy, WriteFails, GiveUp, RemoveDump, InsertRow, Unlink, DropRow, Outside, Base, TypeOK
  <2> QED BY <2>1, <2>2, <2>3, DumpsKept
<1>3. ASSUME NEW w \in Workers, DumpRefused(w) PROVE DumpsInv'
  <2>1. /\ work[w].at = "dump" /\ late' = late \cup ({work[w].db} \cap RedisDbs)
        /\ saving' = saving /\ broken \subseteq broken'
        /\ \/ inside' = inside
           \/ /\ work[w].db \notin RedisDbs /\ InDump(w) \in broken'
              /\ inside' = [inside EXCEPT ![InDump(w)] = Partial]
    BY <1>3 DEF DumpRefused
  <2>2. /\ \A v \in Workers \ {w} : work'[v] = work[v]
        /\ work'[w].db = work[w].db
    BY <1>3, <2>1, GotoFacts DEF DumpRefused, Base, Steps
  <2>3. CASE inside' = inside
    BY <2>1, <2>2, <2>3, DumpsKept
  <2>4. CASE /\ work[w].db \notin RedisDbs /\ InDump(w) \in broken'
             /\ inside' = [inside EXCEPT ![InDump(w)] = Partial]
    <3>1. InDump(w) \in Dumps /\ InDump(w) = <<work[w].db, work[w].file>>
      BY <2>1, <2>4, DumpNames DEF Filing
    <3>2. \A x \in Dumps : inside'[x] = IF x = InDump(w) THEN Partial ELSE inside[x]
      BY <2>4 DEF Base, TypeOK
    <3>3. \A e \in Dbs \ RedisDbs, f \in FileNames : DumpOK(e, f)'
      <4>1. \A e \in Dbs \ RedisDbs, f \in FileNames : <<e, f>> \in Dumps
        BY DEF Dumps
      <4> QED BY <2>1, <2>4, <3>2, <4>1 DEF DumpsInv, DumpOK
    <3>4. \A e \in RedisDbs : inside'[<<e, Rdb>>] = inside[<<e, Rdb>>]
      <4>1. \A e \in RedisDbs : <<e, Rdb>> \in Dumps
        BY DEF Dumps
      <4> QED BY <2>4, <3>1, <3>2, <4>1
    <3>5. ASSUME NEW v \in Workers, work'[v].at = "copy", work'[v].db \in RedisDbs \ late'
          PROVE  LET e == work'[v].db IN
                 \/ saving'[e] # Never /\ saving'[e] >= work'[v].file.tick
                 \/ /\ saving'[e] = Never
                    /\ inside'[<<e, Rdb>>] = Never \/ inside'[<<e, Rdb>>] >= work'[v].file.tick
      <4>1. work'[v] = work[v] /\ work[v].db \in RedisDbs \ late
        BY <2>1, <2>2, <2>4, <3>5
      <4> QED BY <2>1, <3>4, <3>5, <4>1 DEF DumpsInv
    <3> QED BY <3>3, <3>5 DEF DumpsInv
  <2> QED BY <2>1, <2>3, <2>4
<1>4. ASSUME NEW d \in RedisDbs, SaveDone(d) PROVE DumpsInv'
  <2>1. /\ saving[d] # Never /\ inside' = [inside EXCEPT ![<<d, Rdb>>] = saving[d]]
        /\ saving' = [saving EXCEPT ![d] = Never] /\ UNCHANGED <<work, late, broken>>
    BY <1>4 DEF SaveDone, Busy, history
  <2>2. /\ \A x \in Dumps : inside'[x] = IF x = <<d, Rdb>> THEN saving[d] ELSE inside[x]
        /\ \A e \in RedisDbs : saving'[e] = IF e = d THEN Never ELSE saving[e]
    BY <2>1 DEF Base, TypeOK
  <2>3. \A e \in Dbs \ RedisDbs, f \in FileNames :
          DumpOK(e, f)'
    <3>1. \A e \in Dbs \ RedisDbs, f \in FileNames : <<e, f>> \in Dumps /\ <<e, f>> # <<d, Rdb>>
      BY DEF Dumps
    <3> QED BY <2>1, <2>2, <3>1 DEF DumpsInv, DumpOK
  <2>4. ASSUME NEW v \in Workers, work'[v].at = "copy", work'[v].db \in RedisDbs \ late'
        PROVE  LET e == work'[v].db IN
               \/ saving'[e] # Never /\ saving'[e] >= work'[v].file.tick
               \/ /\ saving'[e] = Never
                  /\ inside'[<<e, Rdb>>] = Never \/ inside'[<<e, Rdb>>] >= work'[v].file.tick
    <3>1. work'[v] = work[v] /\ work[v].db \in RedisDbs \ late /\ work[v].at = "copy"
      BY <2>1, <2>4
    <3>2. \A e \in RedisDbs : <<e, Rdb>> \in Dumps
      BY DEF Dumps
    <3> QED BY <2>1, <2>2, <3>1, <3>2 DEF DumpsInv
  <2> QED BY <2>3, <2>4 DEF DumpsInv
<1>5. ASSUME NEW c \in Calls, NEW d \in Handled, RemoveDatabase(c, d) \/ Stop(c, d)
      PROVE  DumpsInv'
  <2>1. /\ saving' = [x \in RedisDbs |-> IF x = d THEN Never ELSE saving[x]]
        /\ work' = work /\ broken' = broken
        /\ \/ late' = late /\ inside' = [x \in Dumps |-> IF x[1] = d THEN Never ELSE inside[x]]
           \/ late' = late \cup ({d} \cap Busy) /\ inside' = inside
    BY <1>5 DEF RemoveDatabase, Stop, history, Base, TypeOK
  <2>2. \A e \in Dbs \ RedisDbs, f \in FileNames :
          DumpOK(e, f)'
    <3>1. \A e \in Dbs \ RedisDbs, f \in FileNames : <<e, f>> \in Dumps
      BY DEF Dumps
    <3> QED BY <2>1, <3>1 DEF DumpsInv, DumpOK
  <2>3. ASSUME NEW v \in Workers, work'[v].at = "copy", work'[v].db \in RedisDbs \ late'
        PROVE  LET e == work'[v].db IN
               \/ saving'[e] # Never /\ saving'[e] >= work'[v].file.tick
               \/ /\ saving'[e] = Never
                  /\ inside'[<<e, Rdb>>] = Never \/ inside'[<<e, Rdb>>] >= work'[v].file.tick
    <3>1. work'[v] = work[v] /\ work[v].db \in RedisDbs \ late /\ work[v].at = "copy"
      BY <2>1, <2>3
    <3>2. \A e \in RedisDbs : <<e, Rdb>> \in Dumps /\ <<e, Rdb>>[1] = e
      BY DEF Dumps
    <3>3. CASE work[v].db # d
      <4>1. /\ saving'[work[v].db] = saving[work[v].db]
            /\ inside'[<<work[v].db, Rdb>>] = inside[<<work[v].db, Rdb>>]
        BY <2>1, <3>1, <3>2, <3>3
      <4> QED BY <3>1, <4>1 DEF DumpsInv
    <3>4. CASE work[v].db = d
      <4>1. saving'[d] = Never
        BY <2>1, <3>1, <3>4
      <4>2. inside'[<<d, Rdb>>] = Never \/ (inside' = inside /\ d \notin Busy)
        BY <2>1, <2>3, <3>1, <3>2, <3>4
      <4>3. d \notin Busy => saving[d] = Never
        BY <3>1, <3>4 DEF Busy
      <4> QED BY <3>1, <3>4, <4>1, <4>2, <4>3 DEF DumpsInv
    <3> QED BY <3>3, <3>4
  <2> QED BY <2>2, <2>3 DEF DumpsInv
<1>6. ASSUME UNCHANGED <<inside, saving, late, broken>>,
             \A w \in Workers : work'[w] = work[w] \/ work'[w].at # "copy"
      PROVE  DumpsInv'
  BY <1>6, DumpsKept
<1>7. CASE Elsewhere
  <2>1. CASE UNCHANGED <<inside, saving, late, broken, work>>
    BY <1>6, <2>1
  <2>2. \/ \E d \in RedisDbs : SaveDone(d)
        \/ \E c \in Calls, d \in Handled : RemoveDatabase(c, d) \/ Stop(c, d)
        \/ UNCHANGED <<inside, saving, late, broken, work>>
    <3> DEFINE Still == UNCHANGED <<inside, saving, late, broken, work>>
    <3>1. \A c \in Calls, d \in Handled, n \in Retentions :
            CreateSchedule(c, d, n) \/ (\E e \in BOOLEAN : UpdateSchedule(c, d, n, e)) => Still
      BY DEF CreateSchedule, UpdateSchedule, Outside, history
    <3>2. \A c \in Calls, d \in Handled : DeleteSchedule(c, d) \/ Start(c, d) => Still
      BY DEF DeleteSchedule, Start, Outside, history
    <3>3. Tick => Still
      BY DEF Tick, Outside, history
    <3> HIDE DEF Still
    <3>4. \/ \E d \in RedisDbs : SaveDone(d)
          \/ \E c \in Calls, d \in Handled : RemoveDatabase(c, d) \/ Stop(c, d)
          \/ Still
      BY <1>7, <3>1, <3>2, <3>3 DEF Elsewhere
    <3> QED BY <3>4 DEF Still
  <2> QED BY <1>4, <1>5, <2>1, <2>2
<1>8. CASE FindDue \/ (\E d \in Dbs : TakeNext(d)) \/ UpdateLastRun \/ ListOld
  <2>1. UNCHANGED <<inside, saving, late, broken>>
    BY <1>8 DEF FindDue, TakeNext, UpdateLastRun, ListOld, Outside, history
  <2>2. /\ \A w \in Workers \ {Loop} : work'[w] = work[w]
        /\ work'[Loop] = work[Loop] \/ work'[Loop].at # "copy"
    <3>1. CASE FindDue
      BY <3>1 DEF FindDue
    <3>2. ASSUME NEW d \in Dbs, TakeNext(d)
          PROVE  /\ \A w \in Workers \ {Loop} : work'[w] = work[w]
                 /\ work'[Loop] = work[Loop] \/ work'[Loop].at # "copy"
      BY <3>2 DEF TakeNext, Base, TypeOK
    <3>3. CASE UpdateLastRun
      BY <3>3, GotoFacts, LoopIsWorker DEF UpdateLastRun, Base, Steps
    <3>4. CASE ListOld
      <4>1. work[Loop] \in Work
        BY <3>4, LoopIsWorker, Positions DEF ListOld, Base, Steps
      <4> QED BY <3>4, <4>1, OverFacts, LoopIsWorker DEF ListOld, Base, TypeOK, Work
    <3> QED BY <1>8, <3>1, <3>2, <3>3, <3>4
  <2> QED BY <1>6, <2>1, <2>2
<1>9. ASSUME NEW c \in Calls,
             \/ \E d \in Handled, op \in {"backup", "export"} : Begin(c, d, op)
             \/ \E b \in backups : BeginDelete(c, b)
      PROVE  DumpsInv'
  <2>1. UNCHANGED <<inside, saving, late, broken>>
    BY <1>9 DEF Begin, BeginDelete, Outside, history
  <2>2. \A w \in Workers : work'[w] = work[w] \/ work'[w].at # "copy"
    BY <1>9, AskFacts
  <2> QED BY <1>6, <2>1, <2>2
<1>10. CASE Crash
  BY <1>10, <1>6, IdleFacts DEF Crash, Outside
<1>11. CASE UNCHANGED vars
  BY <1>6, <1>11 DEF vars
<1> QED BY <1>1, <1>2, <1>3, <1>7, <1>8, <1>9, <1>10, <1>11, Cases DEF Run

-----------------------------------------------------------------------------
(* Files: what rows, and workers that are to insert one, refer to has been *)
(* written, is theirs alone or spoiled, and is what its name says.         *)
Known    == {b \in Rows : b \in backups \/ \E w \in Workers : b \in work[w].todo}
Holds(w) == work[w].at \in {"rm", "insert"}
Refused(d, f) == files[f].tick = Partial /\ <<d, f>> \in broken
Good(f, d) ==
  \/ f \in spoiled \/ d \in late
  \/ files[f].db = d /\ (files[f].tick >= f.tick \/ Refused(d, f))

Written == /\ \A b \in Known : files[b.file] # NoFile
           /\ \A w \in Workers : Holds(w) => files[work[w].file] # NoFile
Unshared ==
  /\ \A b, c \in Known : b # c /\ b.file = c.file => b.file \in spoiled
  /\ \A b \in Known, w \in Workers : Holds(w) /\ work[w].file = b.file => b.file \in spoiled
  /\ \A v, w \in Workers : Holds(v) /\ Holds(w) /\ v # w /\ work[v].file = work[w].file =>
       work[v].file \in spoiled
GoodFiles ==
  /\ \A w \in Workers : Holds(w) => Good(work[w].file, work[w].db)
  /\ \A b \in backups : \/ Good(b.file, b.db)
                        \/ \E w \in Workers : work[w].at = "drop" /\ b = Current(w)
FilesInv == Written /\ Unshared /\ GoodFiles

(* No file changes, nothing new is filed, and no removal is given up whose *)
(* row stays with a file that is not spoiled.                              *)
LEMMA FilesKept ==
  ASSUME FilesInv, files' = files, spoiled \subseteq spoiled', late \subseteq late',
         broken \subseteq broken', backups' \subseteq backups,
         \A w \in Workers : work'[w].todo \subseteq work[w].todo \cup backups,
         \A w \in Workers : work'[w].at \in {"rm", "insert"} =>
           Holds(w) /\ work'[w].file = work[w].file /\ work'[w].db = work[w].db,
         \A w \in Workers : work[w].at = "drop" =>
           \/ work'[w] = work[w]
           \/ Current(w) \notin backups' \/ Current(w).file \in spoiled'
  PROVE  FilesInv'
<1>1. Known' \subseteq Known
  BY DEF Known
<1>2. \A w \in Workers : Holds(w)' =>
        Holds(w) /\ work'[w].file = work[w].file /\ work'[w].db = work[w].db
  BY DEF Holds
<1>3. Written' /\ Unshared'
  BY <1>1, <1>2 DEF FilesInv, Written, Unshared
<1>4. \A f, d : Good(f, d) => Good(f, d)'
  BY DEF Good, Refused
<1>5. \A w \in Workers : \A f, d : Holds(w)' /\ f = work'[w].file /\ d = work'[w].db => Good(f, d)'
  BY <1>2, <1>4 DEF FilesInv, GoodFiles
<1>6. ASSUME NEW b \in backups'
      PROVE  \/ Good(b.file, b.db)'
             \/ \E w \in Workers : work'[w].at = "drop" /\ b = Current(w)'
  <2>1. CASE Good(b.file, b.db)
    BY <1>4, <2>1
  <2>2. ASSUME NEW w \in Workers, work[w].at = "drop", b = Current(w)
        PROVE  \/ Good(b.file, b.db)'
               \/ work'[w].at = "drop" /\ b = Current(w)'
    <3>1. CASE work'[w] = work[w]
      BY <2>2, <3>1 DEF Current
    <3>2. CASE Current(w).file \in spoiled'
      BY <2>2, <3>2 DEF Good
    <3> QED BY <1>6, <2>2, <3>1, <3>2
  <2> QED BY <1>6, <2>1, <2>2 DEF FilesInv, GoodFiles
<1> QED BY <1>3, <1>5, <1>6 DEF FilesInv, GoodFiles, Good

(* A dump is copied to its file: one that was there before is spoiled.     *)
LEMMA FilesWritten ==
  ASSUME Base, FilesInv, NEW w \in Workers, work[w].at = "copy", NEW t, Write(w, t),
         late \subseteq late', UNCHANGED <<backups, broken>>,
         \A v \in Workers \ {w} : work'[v] = work[v],
         work'[w].todo = work[w].todo,
         \/ work'[w].at = "idle"
         \/ /\ work'[w].at = "rm"
            /\ work'[w].db = work[w].db /\ work'[w].file = work[w].file
            /\ \/ t >= work[w].file.tick \/ work[w].db \in late'
               \/ t = Partial /\ <<work[w].db, work[w].file>> \in broken
  PROVE  FilesInv'
<1>0. PICK d, f : d = work[w].db /\ f = work[w].file
  OBVIOUS
<1>1. d \in Dbs /\ f \in FileNames
  BY <1>0, DumpNames DEF Filing
<1>2. /\ files' = [files EXCEPT ![f] = [db |-> d, tick |-> t]]
      /\ spoiled \subseteq spoiled' /\ (files[f] # NoFile => f \in spoiled')
  BY <1>0 DEF Write
<1>3. /\ work'[w].at = "rm" => /\ work'[w].db = d /\ work'[w].file = f
                              /\ \/ t >= f.tick \/ d \in late'
                                 \/ t = Partial /\ <<d, f>> \in broken
      /\ work'[w].at \in {"idle", "rm"}
  BY <1>0
<1>4. /\ files'[f].db = d /\ files'[f].tick = t
      /\ \A g \in FileNames \ {f} : files'[g] = files[g]
      /\ files'[f] # NoFile
  <2>1. [db |-> d, tick |-> t].db # NoDb
    BY <1>1, BackupsAssumption
  <2> QED BY <1>1, <1>2, <2>1 DEF Base, TypeOK, NoFile
<1>6. /\ Known' = Known
      /\ \A b \in Known : b.file \in FileNames
  <2>1. \A v \in Workers : work'[v].todo = work[v].todo
    OBVIOUS
  <2> QED BY <1>2, <2>1 DEF Known, Rows
<1>7. /\ \A v \in Workers \ {w} : Holds(v)' <=> Holds(v)
      /\ \A v \in Workers : Holds(v) => work[v].file \in FileNames
      /\ ~Holds(w) /\ (Holds(w)' => work'[w].at = "rm")
  BY <1>3 DEF Holds, Base, Shape, Filing
<1>8. Written'
  <2>1. \A b \in Known : files'[b.file] # NoFile
    BY <1>4, <1>6 DEF FilesInv, Written
  <2>2. \A v \in Workers : Holds(v)' => files'[work'[v].file] # NoFile
    BY <1>3, <1>4, <1>7 DEF FilesInv, Written
  <2> QED BY <1>6, <2>1, <2>2 DEF Written
<1>9. Unshared'
  <2>1. \A b \in Known : b.file = f => f \in spoiled'
    BY <1>2 DEF FilesInv, Written
  <2>2. \A v \in Workers : Holds(v) /\ work[v].file = f => f \in spoiled'
    BY <1>2 DEF FilesInv, Written
  <2>3. \A b, c \in Known : b # c /\ b.file = c.file => b.file \in spoiled'
    BY <1>2 DEF FilesInv, Unshared
  <2>4. \A b \in Known, v \in Workers : Holds(v)' /\ work'[v].file = b.file => b.file \in spoiled'
    BY <1>2, <1>3, <1>7, <2>1 DEF FilesInv, Unshared
  <2>5. ASSUME NEW u \in Workers, NEW v \in Workers, Holds(u)', Holds(v)', u # v,
               work'[u].file = work'[v].file
        PROVE  work'[u].file \in spoiled'
    <3>1. CASE u = w \/ v = w
      BY <1>3, <1>7, <2>2, <2>5, <3>1
    <3>2. CASE u # w /\ v # w
      BY <1>2, <1>3, <1>7, <2>5, <3>2 DEF FilesInv, Unshared
    <3> QED BY <3>1, <3>2
  <2> QED BY <1>6, <2>3, <2>4, <2>5 DEF Unshared
<1>10. GoodFiles'
  <2>1. ASSUME NEW g \in FileNames, NEW e, Good(g, e), g = f => g \in spoiled'
        PROVE  Good(g, e)'
    BY <1>2, <1>4, <2>1 DEF Good, Refused
  <2>2. ASSUME NEW v \in Workers, Holds(v)', NEW g, NEW e,
               g = work'[v].file, e = work'[v].db
        PROVE  Good(g, e)'
    <3>1. CASE v = w
      <4>1. d = work'[v].db /\ f = work'[v].file
        BY <1>3, <1>7, <2>2, <3>1
      <4>2. \/ d \in late'
            \/ files'[f].db = d /\ (files'[f].tick >= f.tick \/ Refused(d, f)')
        BY <1>3, <1>4, <1>7, <2>2, <3>1 DEF Refused
      <4> QED BY <2>2, <4>1, <4>2 DEF Good
    <3>2. CASE v # w
      <4>1. work'[v] = work[v] /\ Holds(v) /\ work[v].file \in FileNames
        BY <1>3, <1>7, <2>2, <3>2
      <4>2. Good(work[v].file, work[v].db)
        BY <4>1 DEF FilesInv, GoodFiles
      <4>3. work[v].file = f => f \in spoiled'
        BY <1>2, <4>1 DEF FilesInv, Written
      <4> QED BY <2>1, <2>2, <4>1, <4>2, <4>3
    <3> QED BY <3>1, <3>2
  <2>3. ASSUME NEW b \in backups'
        PROVE  \/ Good(b.file, b.db)'
               \/ \E v \in Workers : work'[v].at = "drop" /\ b = Current(v)'
    <3>1. b \in backups /\ b \in Known /\ b.file \in FileNames
      BY <1>2, <1>6 DEF Known, Base, TypeOK
    <3>2. b.file = f => f \in spoiled'
      BY <1>2, <3>1 DEF FilesInv, Written
    <3>3. CASE Good(b.file, b.db)
      BY <2>1, <3>1, <3>2, <3>3
    <3>4. ASSUME NEW v \in Workers, work[v].at = "drop", b = Current(v)
          PROVE  work'[v].at = "drop" /\ b = Current(v)'
      BY <3>4 DEF Current
    <3> QED BY <3>1, <3>3, <3>4 DEF FilesInv, GoodFiles
  <2>4. \A v \in Workers : \A g, e : Holds(v)' /\ g = work'[v].file /\ e = work'[v].db => Good(g, e)'
    BY <2>2
  <2> QED BY <2>3, <2>4 DEF GoodFiles, Good
<1> QED BY <1>8, <1>9, <1>10 DEF FilesInv

LEMMA FilesCopy ==
  ASSUME Base, DumpsInv, FilesInv, NEW w \in Workers, Copy(w)
  PROVE  FilesInv'
<1>0. PICK d, f, t : d = work[w].db /\ f = work[w].file /\ t = inside[InDump(w)]
  OBVIOUS
<1>1. /\ work[w].at = "copy" /\ d \in Dbs /\ f \in FileNames /\ f.tick \in Nat
      /\ d \in RedisDbs => InDump(w) = <<d, Rdb>>
      /\ d \notin RedisDbs => InDump(w) = <<d, f>>
      /\ t # Never
  BY <1>0, DumpNames, TicksAreIntegers DEF Copy, Filing
<1>2. /\ Write(w, t) /\ Goto(w, "rm") /\ late' = late \cup ({d} \cap Busy)
      /\ UNCHANGED <<backups, broken>>
  BY <1>0 DEF Copy, Platform
<1>3. /\ \A v \in Workers \ {w} : work'[v] = work[v]
      /\ work'[w].at = "rm" /\ work'[w].db = d /\ work'[w].file = f
      /\ work'[w].todo = work[w].todo
  BY <1>0, <1>1, <1>2, GotoFacts DEF Base, Steps
<1>4. t >= f.tick \/ d \in late' \/ (t = Partial /\ <<d, f>> \in broken)
  <2>1. CASE d \notin RedisDbs
    BY <1>0, <1>1, <2>1 DEF DumpsInv, DumpOK
  <2>2. CASE d \in RedisDbs
    <3>1. d \in Busy => d \in late'
      BY <1>2
    <3>2. d \notin Busy => saving[d] = Never
      BY <2>2 DEF Busy
    <3>3. d \notin late /\ saving[d] = Never => t >= f.tick
      BY <1>0, <1>1, <2>2 DEF DumpsInv
    <3> QED BY <1>2, <3>1, <3>2, <3>3
  <2> QED BY <2>1, <2>2
<1> QED BY <1>0, <1>1, <1>2, <1>3, <1>4, FilesWritten

(* What was cut short is filed nowhere.                                    *)
LEMMA FilesWriteFails ==
  ASSUME Base, FilesInv, NEW w \in Workers, WriteFails(w)
  PROVE  FilesInv'
<1>1. /\ work[w].at = "copy" /\ Write(w, Partial) /\ Over(w)
      /\ UNCHANGED <<backups, late, broken>>
  BY DEF WriteFails, Platform
<1>2. /\ \A v \in Workers \ {w} : work'[v] = work[v]
      /\ work'[w].at = "idle" /\ work'[w].todo = {} /\ work[w].todo = {}
  BY <1>1, OverFacts DEF Base, Shape, Removing
<1> QED BY <1>1, <1>2, FilesWritten

(* A row is inserted for the file that its worker holds.                   *)
LEMMA FilesInsert ==
  ASSUME Base, FilesInv, NEW w \in Workers, InsertRow(w)
  PROVE  FilesInv'
<1> DEFINE row == [id |-> made + 1, db |-> work[w].db, file |-> work[w].file]
<1>1. /\ Holds(w) /\ work[w].at = "insert" /\ work[w].todo = {}
      /\ UNCHANGED <<files, spoiled, late, broken>>
  BY DEF InsertRow, Holds, Base, Shape, Removing, Outside, history
<1>2. backups' = backups \cup {row} \/ backups' = backups
  BY DEF InsertRow
<1>3. /\ \A v \in Workers \ {w} : work'[v] = work[v]
      /\ work'[w].at \in {"idle", "touch"} /\ work'[w].todo = {}
  <2>1. Over(w) \/ Goto(w, "touch")
    BY DEF InsertRow
  <2> QED BY <1>1, <2>1, OverFacts, GotoFacts DEF Base, Steps
<1>4. CASE backups' = backups
  <2>1. \A v \in Workers : work'[v].todo \subseteq work[v].todo
    BY <1>3
  <2>2. \A v \in Workers : work'[v].at \in {"rm", "insert"} =>
          Holds(v) /\ work'[v].file = work[v].file /\ work'[v].db = work[v].db
    BY <1>3 DEF Holds
  <2>3. \A v \in Workers : work[v].at = "drop" => work'[v] = work[v]
    BY <1>1, <1>3
  <2> QED BY <1>1, <1>4, <2>1, <2>2, <2>3, FilesKept
<1>5. CASE backups' = backups \cup {row}
  <2>1. row.file = work[w].file /\ row.db = work[w].db
    OBVIOUS
  <2> HIDE DEF row
  <2>2. /\ files[row.file] # NoFile
        /\ Good(row.file, row.db)
        /\ \A b \in Known : b.file = row.file => row.file \in spoiled
        /\ \A v \in Workers \ {w} : Holds(v) /\ work[v].file = row.file => row.file \in spoiled
    BY <1>1, <2>1 DEF FilesInv, Written, Unshared, GoodFiles
  <2>3. \A b \in Known' : b \in Known \/ b = row
    BY <1>3, <1>5 DEF Known
  <2>4. /\ \A v \in Workers \ {w} : Holds(v)' <=> Holds(v)
        /\ ~Holds(w)'
    BY <1>3 DEF Holds
  <2>5. Written'
    BY <1>1, <1>3, <2>2, <2>3, <2>4 DEF FilesInv, Written
  <2>6. Unshared'
    <3>1. \A b, c \in Known' : b # c /\ b.file = c.file => b.file \in spoiled
      BY <2>2, <2>3 DEF FilesInv, Unshared
    <3>2. \A b \in Known', v \in Workers : Holds(v)' /\ work'[v].file = b.file => b.file \in spoiled
      BY <1>3, <2>2, <2>3, <2>4 DEF FilesInv, Unshared
    <3>3. \A u, v \in Workers : Holds(u)' /\ Holds(v)' /\ u # v /\ work'[u].file = work'[v].file =>
            work'[u].file \in spoiled
      BY <1>3, <2>4 DEF FilesInv, Unshared
    <3> QED BY <1>1, <3>1, <3>2, <3>3 DEF Unshared
  <2>7. GoodFiles'
    <3>1. \A f, d : Good(f, d)' <=> Good(f, d)
      BY <1>1 DEF Good, Refused
    <3>2. \A v \in Workers : \A f, d :
            Holds(v)' /\ f = work'[v].file /\ d = work'[v].db => Good(f, d)'
      BY <1>3, <2>4, <3>1 DEF FilesInv, GoodFiles
    <3>3. ASSUME NEW b \in backups'
          PROVE  \/ Good(b.file, b.db)'
                 \/ \E v \in Workers : work'[v].at = "drop" /\ b = Current(v)'
      <4>1. CASE b = row
        BY <2>2, <3>1, <4>1
      <4>2. CASE b \in backups
        <5>1. CASE Good(b.file, b.db)
          BY <3>1, <5>1
        <5>2. ASSUME NEW v \in Workers, work[v].at = "drop", b = Current(v)
              PROVE  work'[v].at = "drop" /\ b = Current(v)'
          BY <1>1, <1>3, <5>2 DEF Current
        <5> QED BY <4>2, <5>1, <5>2 DEF FilesInv, GoodFiles
      <4> QED BY <1>5, <3>3, <4>1, <4>2
    <3> QED BY <3>2, <3>3 DEF GoodFiles, Good
  <2> QED BY <2>5, <2>6, <2>7 DEF FilesInv
<1> QED BY <1>2, <1>4, <1>5

(* The file of a row is removed: its row is next, and any other row or     *)
(* worker with this file shares it.                                        *)
LEMMA FilesUnlink ==
  ASSUME Base, FilesInv, NEW w \in Workers, Unlink(w)
  PROVE  FilesInv'
<1>0. PICK c : c = Current(w)
  OBVIOUS
<1>1. /\ work[w].at = "unlink" /\ c \in work[w].todo /\ c \in Rows /\ c \in Known
  BY <1>0, CurrentFacts DEF Unlink, Removing, Known
<1>2. /\ files' = [files EXCEPT ![c.file] = Removed]
      /\ UNCHANGED <<spoiled, late, broken, backups>>
  BY <1>0 DEF Unlink, Platform, history
<1>3. /\ \A v \in Workers \ {w} : work'[v] = work[v]
      /\ work'[w].at = "drop" /\ work'[w].todo = work[w].todo
      /\ \A v \in Workers : work'[v].file = work[v].file /\ work'[v].db = work[v].db
  BY <1>1, GotoFacts DEF Unlink, Base, Steps
<1>4. /\ \A g \in FileNames \ {c.file} : files'[g] = files[g]
      /\ files'[c.file] # NoFile
  <2>1. Removed # NoFile
    BY DEF Removed, NoFile, Never
  <2> QED BY <1>1, <1>2, <2>1 DEF Base, TypeOK, Rows
<1>5. /\ Known' = Known
      /\ \A b \in Known : b.file \in FileNames
  <2>1. \A v \in Workers : work'[v].todo = work[v].todo
    BY <1>3
  <2> QED BY <1>2, <2>1 DEF Known, Rows
<1>6. /\ \A v \in Workers : Holds(v)' <=> Holds(v)
      /\ \A v \in Workers : Holds(v) => work[v].file \in FileNames
  BY <1>1, <1>3 DEF Holds, Base, Shape, Filing
<1>7. Written'
  BY <1>3, <1>4, <1>5, <1>6 DEF FilesInv, Written
<1>8. Unshared'
  BY <1>2, <1>3, <1>5, <1>6 DEF FilesInv, Unshared
<1>9. Current(w)' = c /\ \A v \in Workers \ {w} : Current(v)' = Current(v)
  BY <1>0, <1>3 DEF Current
<1>10. ASSUME NEW g \in FileNames, NEW d, Good(g, d), g = c.file => g \in spoiled
       PROVE  Good(g, d)'
  BY <1>2, <1>4, <1>10 DEF Good, Refused
<1>11. ASSUME NEW v \in Workers, Holds(v)', NEW g, NEW d, g = work'[v].file, d = work'[v].db
       PROVE  Good(g, d)'
  <2>1. Holds(v) /\ g = work[v].file /\ d = work[v].db /\ g \in FileNames
    BY <1>3, <1>6, <1>11
  <2>2. Good(g, d) /\ (g = c.file => g \in spoiled)
    BY <1>1, <2>1 DEF FilesInv, GoodFiles, Unshared
  <2> QED BY <1>10, <2>1, <2>2
<1>12. ASSUME NEW b \in backups'
       PROVE  \/ Good(b.file, b.db)'
              \/ \E v \in Workers : work'[v].at = "drop" /\ b = Current(v)'
  <2>1. b \in backups /\ b \in Known /\ b.file \in FileNames
    BY <1>2, <1>5, <1>12 DEF Known, Base, TypeOK
  <2>2. CASE b = c
    BY <1>3, <1>9, <2>2
  <2>3. CASE b # c /\ Good(b.file, b.db)
    <3>1. b.file = c.file => b.file \in spoiled
      BY <1>1, <2>1, <2>3 DEF FilesInv, Unshared
    <3> QED BY <1>10, <2>1, <2>3, <3>1
  <2>4. ASSUME NEW v \in Workers, work[v].at = "drop", b = Current(v)
        PROVE  work'[v].at = "drop" /\ b = Current(v)'
    BY <1>1, <1>3, <1>9, <2>4
  <2> QED BY <2>1, <2>2, <2>3, <2>4 DEF FilesInv, GoodFiles
<1>13. \A v \in Workers : \A g, d : Holds(v)' /\ g = work'[v].file /\ d = work'[v].db => Good(g, d)'
  BY <1>11
<1>14. GoodFiles'
  BY <1>12, <1>13 DEF GoodFiles, Good
<1> QED BY <1>7, <1>8, <1>14 DEF FilesInv

LEMMA FilesStep ==
  ASSUME Base, DumpsInv, FilesInv, [Next]_vars
  PROVE  FilesInv'
<1>1. ASSUME files' = files, spoiled \subseteq spoiled', late \subseteq late',
             broken \subseteq broken', backups' \subseteq backups, work' = work
      PROVE  FilesInv'
  BY <1>1, FilesKept DEF Holds
<1>2. ASSUME NEW w \in Workers, Dump(w) \/ DumpRefused(w) \/ GiveUp(w) \/ RemoveDump(w)
      PROVE  FilesInv'
  <2>1. /\ files' = files /\ spoiled \subseteq spoiled' /\ late \subseteq late' /\ backups' = backups
        /\ broken \subseteq broken' /\ work[w].at \in Steps /\ work[w].at # "drop"
    BY <1>2 DEF Dump, DumpRefused, GiveUp, RemoveDump, Platform, Outside, history, Steps
  <2>2. \/ Over(w) \/ Goto(w, "copy")
        \/ work[w].at = "rm" /\ Goto(w, "insert")
    BY <1>2 DEF Dump, DumpRefused, GiveUp, RemoveDump
  <2>3. /\ \A v \in Workers \ {w} : work'[v] = work[v]
        /\ work'[w].todo \subseteq work[w].todo
        /\ work'[w].at \in {"rm", "insert"} =>
             Holds(w) /\ work'[w].file = work[w].file /\ work'[w].db = work[w].db
    BY <2>1, <2>2, OverFacts, GotoFacts DEF Base, Steps, Holds
  <2>4. /\ \A v \in Workers : work'[v].todo \subseteq work[v].todo
        /\ \A v \in Workers : work'[v].at \in {"rm", "insert"} =>
             Holds(v) /\ work'[v].file = work[v].file /\ work'[v].db = work[v].db
        /\ \A v \in Workers : work[v].at = "drop" => work'[v] = work[v]
    BY <2>1, <2>3 DEF Holds
  <2> QED BY <2>1, <2>4, FilesKept
<1>3. ASSUME NEW w \in Workers, Copy(w) \/ WriteFails(w) \/ InsertRow(w) \/ Unlink(w)
      PROVE  FilesInv'
  BY <1>3, FilesCopy, FilesWriteFails, FilesInsert, FilesUnlink
<1>4. ASSUME NEW w \in Workers, DropRow(w)
      PROVE  FilesInv'
  <2>1. UNCHANGED <<files, late, broken>>
    BY <1>4 DEF DropRow, Outside
  <2>2. /\ work[w].at = "drop"
        /\ \A v \in Workers \ {w} : work'[v] = work[v]
        /\ work'[w].todo \subseteq work[w].todo /\ work'[w].at \in {"idle", "unlink"}
        /\ backups' \subseteq backups /\ spoiled \subseteq spoiled'
        /\ Current(w) \notin backups' \/ Current(w).file \in spoiled'
    <3>1. Idle.todo = {} /\ Idle.at = "idle"
      BY IdleFacts
    <3> QED BY <1>4, <3>1, DropFacts
  <2>3. /\ \A v \in Workers : work'[v].todo \subseteq work[v].todo
        /\ \A v \in Workers : work'[v].at \in {"rm", "insert"} =>
             Holds(v) /\ work'[v].file = work[v].file /\ work'[v].db = work[v].db
        /\ \A v \in Workers : work[v].at = "drop" =>
             \/ work'[v] = work[v]
             \/ Current(v) \notin backups' \/ Current(v).file \in spoiled'
    BY <2>2 DEF Holds
  <2> QED BY <2>1, <2>2, <2>3, FilesKept
<1>5. ASSUME NEW w \in Workers, work[w].at # "drop",
             \A v \in Workers \ {w} : work'[v] = work[v],
             work'[w].at \notin {"rm", "insert"}, work'[w].todo \subseteq work[w].todo \cup backups,
             UNCHANGED <<files, spoiled, late, broken, backups>>
      PROVE  FilesInv'
  <2>1. /\ \A v \in Workers : work'[v].todo \subseteq work[v].todo \cup backups
        /\ \A v \in Workers : work'[v].at \in {"rm", "insert"} =>
             Holds(v) /\ work'[v].file = work[v].file /\ work'[v].db = work[v].db
        /\ \A v \in Workers : work[v].at = "drop" => work'[v] = work[v]
    BY <1>5 DEF Holds
  <2> QED BY <1>5, <2>1, FilesKept
<1>6. CASE FindDue
  BY <1>1, <1>6 DEF FindDue, Platform, Outside, history
<1>7. ASSUME NEW d \in Dbs, TakeNext(d)
      PROVE  FilesInv'
  <2>1. UNCHANGED <<files, spoiled, late, broken, backups>> /\ work[Loop].at # "drop"
    BY <1>7, IdleFacts DEF TakeNext, Platform, Outside, history
  <2>2. CASE work' = work
    BY <1>1, <2>1, <2>2
  <2>3. CASE work' # work
    <3> DEFINE k == [op |-> "scheduled", at |-> "dump", db |-> d, file |-> FileOf(d, "auto"),
                     id |-> due[d].id, keep |-> due[d].keep, todo |-> {}]
    <3>1. work' = [work EXCEPT ![Loop] = k] /\ k.at = "dump" /\ k.todo = {}
      BY <1>7, <2>3 DEF TakeNext
    <3> HIDE DEF k
    <3>2. /\ \A v \in Workers \ {Loop} : work'[v] = work[v]
          /\ work'[Loop].at = "dump" /\ work'[Loop].todo = {}
      BY <3>1, LoopIsWorker DEF Base, TypeOK
    <3> QED BY <1>5, <2>1, <3>2, LoopIsWorker
  <2> QED BY <2>2, <2>3
<1>8. CASE UpdateLastRun
  <2>1. UNCHANGED <<files, spoiled, late, broken, backups>> /\ work[Loop].at = "touch" /\ Goto(Loop, "list")
    BY <1>8 DEF UpdateLastRun, Outside, history
  <2>2. /\ \A v \in Workers \ {Loop} : work'[v] = work[v]
        /\ work'[Loop].at = "list" /\ work'[Loop].todo = work[Loop].todo
    BY <2>1, GotoFacts, LoopIsWorker DEF Base, Steps
  <2> QED BY <1>5, <2>1, <2>2, LoopIsWorker
<1>9. CASE ListOld
  <2>1. UNCHANGED <<files, spoiled, late, broken, backups>> /\ work[Loop].at = "list"
    BY <1>9 DEF ListOld, Platform, Outside, history
  <2>2. /\ \A v \in Workers \ {Loop} : work'[v] = work[v]
        /\ work'[Loop].at \in {"idle", "unlink"} /\ work'[Loop].todo \subseteq backups
    <3>1. CASE Over(Loop)
      BY <3>1, OverFacts, LoopIsWorker DEF Base
    <3>2. CASE \E old \in SUBSET backups :
                 work' = [work EXCEPT ![Loop].at = "unlink", ![Loop].todo = old]
      <4>1. work[Loop] \in Work
        BY <2>1, Positions, LoopIsWorker DEF Base, Steps
      <4> QED BY <3>2, <4>1, LoopIsWorker DEF Base, TypeOK, Work
    <3>3. Beyond(work[Loop].db, work[Loop].keep) \in SUBSET backups
      BY DEF Beyond, Of
    <3> QED BY <1>9, <3>1, <3>2, <3>3 DEF ListOld
  <2> QED BY <1>5, <2>1, <2>2, LoopIsWorker
<1>10. ASSUME NEW c \in Calls,
              \/ \E d \in Handled, op \in {"backup", "export"} : Begin(c, d, op)
              \/ \E b \in backups : BeginDelete(c, b)
       PROVE  FilesInv'
  <2>1. UNCHANGED <<files, spoiled, late, broken, backups>>
    BY <1>10 DEF Begin, BeginDelete, Platform, Outside, history
  <2>2. /\ work[c] = Idle /\ \A v \in Workers \ {c} : work'[v] = work[v]
        /\ work'[c].at \in {"dump", "unlink"} /\ work'[c].todo \subseteq backups
    BY <1>10, AskFacts
  <2> QED BY <1>5, <2>1, <2>2, IdleFacts, LoopIsWorker
<1>11. CASE Elsewhere
  <2>1. /\ files' = files /\ spoiled' = spoiled /\ late \subseteq late' /\ broken' = broken
        /\ backups' \subseteq backups /\ work' = work
    BY <1>11 DEF Elsewhere, CreateSchedule, UpdateSchedule, DeleteSchedule, RemoveDatabase, Stop,
       Start, SaveDone, Tick, Platform, Outside, history
  <2> QED BY <1>1, <2>1
<1>12. CASE Crash
  <2>1. /\ UNCHANGED <<files, late, broken, backups>>
        /\ spoiled' = spoiled \cup {Current(w).file : w \in {v \in Workers : work[v].at = "drop"}}
        /\ \A w \in Workers : work'[w] = Idle
    BY <1>12 DEF Crash, Platform, Outside
  <2>2. \A w \in Workers : work[w].at = "drop" => Current(w).file \in spoiled'
    BY <2>1
  <2> QED BY <2>1, <2>2, IdleFacts, FilesKept
<1>13. CASE UNCHANGED vars
  BY <1>1, <1>13 DEF vars
<1> QED BY <1>2, <1>3, <1>4, <1>6, <1>7, <1>8, <1>9, <1>10, <1>11, <1>12, <1>13, Cases DEF Run

(* A backup that is listed can be restored, or is what its own dump left   *)
(* when it was refused or died: its file holds a dump of its database, not *)
(* older than its name, but for names that were given twice, removals that *)
(* were cut short and dumps that Redis had not yet written.                *)
THEOREM ListedRestore == Spec => []ListedBackupsRestore
<1>1. Init => DumpsInv
  <2> SUFFICES ASSUME Init PROVE DumpsInv
    OBVIOUS
  <2>1. \A d \in Dbs \ RedisDbs, f \in FileNames : inside[<<d, f>>] = Never
    BY DEF Init, Dumps
  <2>2. \A w \in Workers : work[w].at # "copy"
    BY IdleFacts DEF Init
  <2> QED BY <2>1, <2>2 DEF DumpsInv, DumpOK
<1>2. Init => FilesInv
  <2> SUFFICES ASSUME Init PROVE FilesInv
    OBVIOUS
  <2>1. backups = {} /\ \A w \in Workers : work[w] = Idle
    BY DEF Init
  <2>2. Known = {} /\ \A w \in Workers : ~Holds(w)
    BY <2>1, IdleFacts DEF Known, Holds
  <2> QED BY <2>1, <2>2 DEF FilesInv, Written, Unshared, GoodFiles
<1>3. Base /\ DumpsInv /\ FilesInv /\ [Next]_vars => (DumpsInv /\ FilesInv)'
  BY DumpsStep, FilesStep
<1>4. FilesInv => ListedBackupsRestore
  BY DEF FilesInv, GoodFiles, Good, Refused, ListedBackupsRestore
<1>5. Init => Base
  BY BaseInit
<1>6. Base /\ [Next]_vars => Base'
  BY BaseStep
<1> QED BY <1>1, <1>2, <1>3, <1>4, <1>5, <1>6, PTL DEF Spec
====
