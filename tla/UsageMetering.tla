---------------------------- MODULE UsageMetering ----------------------------
(***************************************************************************)
(* What one database is charged for: the usage events its handlers record, *)
(* and how api/src/services/billing.rs turns them into hours, line items   *)
(* and amounts.                                                            *)
(*                                                                         *)
(* Time is counted in ticks of a fraction of a second, so that events fall *)
(* between whole seconds and num_seconds() truncates.  A handler's Docker  *)
(* call and the event it records afterwards are one step here: their       *)
(* interleavings are the subject of DatabaseLifecycle.  Amounts are exact  *)
(* rationals rounded up; the code computes them with f64.                  *)
(***************************************************************************)
EXTENDS Integers, Sequences, FiniteSets, FiniteSetsExt

CONSTANTS
  Names, Plans,
  NoPlan,           \* plan_template_id IS NULL
  HourlyPrice,      \* plan_templates.hourly_price_cents
  MonthlyPrice,     \* plan_templates.monthly_price_cents
  TicksPerSecond,
  SecondsPerHour,
  MonthTicks,       \* length of a calendar month
  Months,           \* bound: months explored
  MaxEvents,        \* bound: usage events explored
  MaxLost           \* bound: events whose INSERT fails

ASSUME MeteringAssumption ==
  /\ NoPlan \notin Plans
  /\ HourlyPrice \in [Plans -> Nat]
  /\ MonthlyPrice \in [Plans -> Nat]
  /\ {TicksPerSecond, SecondsPerHour, MonthTicks, Months} \subseteq Nat \ {0}
  /\ MaxEvents \in Nat /\ MaxLost \in Nat

VARIABLES
  now,
  container,   \* of the database: its container, as far as billing matters
  name, plan,  \* columns of its row
  log,         \* its rows of usage_events, in the order of recorded_at
  lost,        \* events that could not be recorded
  (* history *)
  ran,         \* <<t, p>>: it ran from t to t+1 under plan p
  odd          \* calls accepted on a container that was not in the state
               \* their event says it was in

vars == <<now, container, name, plan, log, lost, ran, odd>>

EndOfTime == Months * MonthTicks
Containers == {"absent", "unprovisioned", "running", "exited", "removed"}
Oddities == {"startedTwice", "stoppedTwice", "restartedStopped",
             "scaledStopped", "removedIdle"}
Event == [type: {"start", "stop"}, at: 0..EndOfTime, name: Names,
          plan: Plans \cup {NoPlan}]

TypeOK ==
  /\ now \in 0..EndOfTime
  /\ container \in Containers
  /\ name \in Names
  /\ plan \in Plans \cup {NoPlan}
  /\ log \in Seq(Event) /\ Len(log) <= MaxEvents
  /\ \A i, j \in 1..Len(log) : i < j => log[i].at <= log[j].at
  /\ lost \in 0..MaxLost
  /\ ran \subseteq (0..EndOfTime - 1) \X (Plans \cup {NoPlan})
  /\ odd \subseteq Oddities

Init ==
  /\ now = 0
  /\ container = "absent"
  /\ name \in Names
  /\ plan \in Plans \cup {NoPlan}
  /\ log = <<>>
  /\ lost = 0
  /\ ran = {}
  /\ odd = {}

-----------------------------------------------------------------------------
(* The handlers.  `let _ = record_usage_event(...)`: an INSERT that fails  *)
(* loses the event and the handler goes on.                                *)
NewEventSwapped(type, p) == [type |-> type, at |-> now, name |-> p, plan |-> name]

NewEvent(type, p) == [type |-> type, at |-> now, name |-> name, plan |-> p]

Inserted(event) == {<<>>, <<event>>}

(* Of so many events, these become rows.                                   *)
Insert(rows, events) ==
  /\ log' = log \o rows
  /\ Len(log') <= MaxEvents
  /\ lost' = lost + (events - Len(rows))
  /\ lost' <= MaxLost

Record(event) == \E rows \in Inserted(event) : Insert(rows, 1)

Oddity(what, happens) == odd' = IF happens THEN odd \cup {what} ELSE odd

HasContainer == container \in {"running", "exited"}

InsertRow ==
  /\ container = "absent"
  /\ container' = "unprovisioned"
  /\ UNCHANGED <<now, name, plan, log, lost, ran, odd>>

Provisioned ==
  /\ container = "unprovisioned"
  /\ container' = "running"
  /\ Record(NewEvent("start", plan))
  /\ UNCHANGED <<now, name, plan, ran, odd>>

Start ==
  /\ HasContainer
  /\ container' = "running"
  /\ Record(NewEvent("start", plan))
  /\ Oddity("startedTwice", container = "running")
  /\ UNCHANGED <<now, name, plan, ran>>

Stop ==
  /\ HasContainer
  /\ container' = "exited"
  /\ Record(NewEvent("stop", plan))
  /\ Oddity("stoppedTwice", container = "exited")
  /\ UNCHANGED <<now, name, plan, ran>>

Restart ==
  /\ HasContainer
  /\ container' = "running"
  /\ Oddity("restartedStopped", container = "exited")
  /\ UNCHANGED <<now, name, plan, log, lost, ran>>

Rename(n) ==
  /\ container \in {"unprovisioned", "running", "exited"}
  /\ name' = n
  /\ UNCHANGED <<now, container, plan, log, lost, ran, odd>>

Scale(p) ==
  /\ HasContainer
  /\ \E stop \in Inserted(NewEvent("stop", plan)), start \in Inserted(NewEvent("start", p)) :
       Insert(stop \o start, 2)
  /\ plan' = p
  /\ Oddity("scaledStopped", container = "exited")
  /\ UNCHANGED <<now, container, name, ran>>

(* delete_database and force_delete_database.                              *)
Delete ==
  /\ container \in {"unprovisioned", "running", "exited"}
  /\ container' = "removed"
  /\ Record(NewEvent("stop", plan))
  /\ Oddity("removedIdle", container # "running")
  /\ UNCHANGED <<now, name, plan, ran>>

Tick ==
  /\ now < EndOfTime
  /\ now' = now + 1
  /\ ran' = IF container = "running" THEN ran \cup {<<now, plan>>} ELSE ran
  /\ UNCHANGED <<container, name, plan, log, lost, odd>>

Next ==
  \/ InsertRow \/ Provisioned \/ Start \/ Stop \/ Restart \/ Delete \/ Tick
  \/ \E n \in Names : Rename(n)
  \/ \E p \in Plans : Scale(p)

Spec == Init /\ [][Next]_vars

-----------------------------------------------------------------------------
(* The computations of billing.rs.                                         *)
(* The rows get_usage_events selects, as their positions in the log.       *)
UsageEvents(from, to) == {i \in DOMAIN log : from <= log[i].at /\ log[i].at <= to}

NumSeconds(ticks) == ticks \div TicksPerSecond

NotRunning == -1    \* last_start is None

MeterKeepsStart(acc, e) ==
  IF e.type = "start" THEN [acc EXCEPT !.since = e.at]
  ELSE IF acc.since = NotRunning THEN acc
  ELSE [acc EXCEPT !.total = acc.total + NumSeconds(e.at - acc.since)]

MeterStartsOver(acc, e) ==
  IF e.type = "start" THEN [total |-> 0, since |-> e.at]
  ELSE IF acc.since = NotRunning THEN acc
  ELSE [total |-> acc.total + NumSeconds(e.at - acc.since), since |-> NotRunning]

(* The loop over the events: seconds so far, and since when it runs.       *)
Meter(acc, e) ==
  IF e.type = "start" THEN [acc EXCEPT !.since = e.at]
  ELSE IF acc.since = NotRunning THEN acc
  ELSE [total |-> acc.total + NumSeconds(e.at - acc.since), since |-> NotRunning]

Metering(events, since) ==
  LET meter[i \in 0..Len(log)] ==
        IF i = 0 THEN [total |-> 0, since |-> since]
        ELSE IF i \in events THEN Meter(meter[i - 1], log[i]) ELSE meter[i - 1]
  IN meter

(* What the meter shows at the end, when it runs on until the period ends. *)
Reading(meter, to) ==
  meter.total + IF meter.since = NotRunning THEN 0 ELSE NumSeconds(to - meter.since)

UsageWithoutEvents(from, to) ==
  LET prior == UsageEvents(0, from)
  IN IF prior # {} /\ log[Max(prior)].type = "start" THEN NumSeconds(to - from) ELSE 0

UsageWithoutCarry(events, from, to) ==
  Reading(Metering(events, NotRunning)[Len(log)], to)

UsageWithEvents(events, from, to) ==
  LET running == log[Min(events)].type = "stop"
  IN Reading(Metering(events, IF running THEN from ELSE NotRunning)[Len(log)], to)

(* calculate_usage_hours, in seconds.                                      *)
UsageSeconds(from, to) ==
  LET events == UsageEvents(from, to)
  IN IF events = {} THEN UsageWithoutEvents(from, to)
                      ELSE UsageWithEvents(events, from, to)

CalculateAmount(seconds, p) ==
  IF p = NoPlan THEN 0
  ELSE Min({(seconds * HourlyPrice[p] + SecondsPerHour - 1) \div SecondsPerHour,
            MonthlyPrice[p]})

(* The SELECT DISTINCT of get_databases_with_usage_in_period.              *)
UsageEntries(from, to) ==
  {[name |-> log[i].name, plan |-> log[i].plan] : i \in UsageEvents(from, to)}

(* The line items and the total of generate_monthly_invoice.               *)
LineItems(from, to) ==
  IF UsageSeconds(from, to) > 0 THEN UsageEntries(from, to) ELSE {}

InvoiceTotal(from, to) ==
  MapThenSumSet(LAMBDA item : CalculateAmount(UsageSeconds(from, to), item.plan),
                LineItems(from, to))

(* The total of get_current_usage: the row's plan while there is a row.    *)
CurrentUsage(from) ==
  IF container = "removed" THEN InvoiceTotal(from, now)
  ELSE CalculateAmount(UsageSeconds(from, now), plan)

-----------------------------------------------------------------------------
MonthStart(t) == (t \div MonthTicks) * MonthTicks

ClosedMonths ==
  {[from |-> m * MonthTicks, to |-> (m + 1) * MonthTicks] :
     m \in 0..(now \div MonthTicks) - 1}
Readable == ClosedMonths \cup {[from |-> MonthStart(now), to |-> now]}

Ticks(p) == p.from..(p.to - 1)
RanIn(p) == {r \in ran : r[1] \in Ticks(p)}
Regular  == odd = {} /\ lost = 0
Usage(p) == UsageSeconds(p.from, p.to)

(* Usage is what ran, but for less than a second per counted interval.     *)
Exact(p) ==
  LET missing == Cardinality(RanIn(p)) - Usage(p) * TicksPerSecond
  IN /\ missing >= 0
     /\ missing <= (TicksPerSecond - 1) * (Cardinality(UsageEvents(p.from, p.to)) + 1)

(* Whatever calls were made and whatever events were lost, the hours of a  *)
(* month or of the current month so far fit into it: no instant is counted *)
(* twice and nothing before or after is (calculate_usage_hours).           *)
UsageWithinPeriod ==
  \A p \in Readable : Usage(p) >= 0 /\ Usage(p) <= NumSeconds(p.to - p.from)

(* As long as each call found the container in the state its event tells   *)
(* of, the hours of every month, and of the current one so far, are those  *)
(* the container ran, but for the part of a second truncated from each     *)
(* interval: across month ends, months without events and scalings.        *)
ExactWhenRegular ==
  Regular => \A p \in Readable : Exact(p)

(* A month in which the container never ran has no line items, although   *)
(* an event at the very instant it begins or ends belongs to it (both ends *)
(* of the SELECT are inclusive), as long as each recorded stop stopped     *)
(* something.                                                              *)
IdleMonthIsFree ==
  odd \subseteq {"startedTwice"} /\ lost = 0 =>
    \A p \in ClosedMonths : RanIn(p) = {} => LineItems(p.from, p.to) = {}

(* What the usage page shows for the current month never shrinks, until    *)
(* the month ends, when calls find the container as their events say and   *)
(* the plan is not changed (get_current_usage).                            *)
EstimateNeverDrops ==
  [][/\ Regular' /\ plan' = plan
     /\ MonthStart(now') = MonthStart(now)
     => CurrentUsage(MonthStart(now))' >= CurrentUsage(MonthStart(now))]_vars
=============================================================================
