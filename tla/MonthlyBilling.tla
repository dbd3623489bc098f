---------------------------- MODULE MonthlyBilling ----------------------------
(***************************************************************************)
(* Monthly invoices: the background task of main.rs and the administrators'*)
(* "generate" requests both call run_monthly_billing                       *)
(* (api/src/services/billing.rs), which writes periods and line items and  *)
(* talks to Stripe for one user after the other, without any transaction;  *)
(* Stripe's webhooks change the status of a period later.                  *)
(*                                                                         *)
(* A step is what happens between two awaits.  Which line items a user's   *)
(* month has is UsageMetering's subject and a constant here: the month is  *)
(* over when it is billed, and its usage no longer changes.                *)
(***************************************************************************)
EXTENDS Integers, Sequences, FiniteSets

CONSTANTS
  Users, NoUser,
  Loop,             \* the background task of main.rs
  Admins,           \* slots for concurrent POST /api/admin/billing/generate
  Customers,        \* users with a stripe_customer_id (set by hand: no code
                    \* writes that column)
  StripeEnabled,    \* STRIPE_SECRET_KEY is set
  Items,            \* Items[u][m]: amounts of the line items of a month
  Months,           \* bound: months to bill
  MaxFaults,        \* bound: failing statements and requests
  MaxCrashes        \* bound: times the process goes down

Runs == {Loop} \cup Admins

ASSUME BillingAssumption ==
  /\ NoUser \notin Users
  /\ Loop \notin Admins
  /\ Customers \subseteq Users
  /\ StripeEnabled \in BOOLEAN
  /\ Months \in Nat
  /\ Items \in [Users -> [1..Months -> Seq(Nat)]]
  /\ MaxFaults \in Nat /\ MaxCrashes \in Nat

VARIABLES
  month, firstDay,   \* the calendar: month m bills month m - 1
  up,                \* the process is running
  bootedToday,       \* it was started on this first day
  lastRunMonth,      \* of the background task
  (* the tables billing_periods and billing_line_items *)
  periods,           \* period ids are indices; invoice 0 is NULL
  lines,             \* lines[id]: how many of its line items are stored
  (* Stripe *)
  upcoming,          \* per customer: items that wait for an invoice
  invoices,          \* invoice ids are indices
  paidOff,           \* invoices that were paid
  declined,          \* invoices a payment failed for, at least once
  (* control of a run *)
  at, of, todo, user, pid, k, inv,
  faults, crashes,
  (* history *)
  overlapped,        \* two runs were under way at the same time
  failed,            \* <<u, m>>: generating u's invoice of month m failed
  missed             \* months whose first day ended without a run

calendar == <<month, firstDay, bootedToday>>
tables   == <<periods, lines>>
stripe   == <<upcoming, invoices, paidOff, declined>>
control  == <<at, of, todo, user, pid, k, inv>>
history  == <<overlapped, failed, missed>>
vars == <<month, firstDay, bootedToday, up, lastRunMonth, periods, lines, upcoming,
          invoices, paidOff, declined, at, of, todo, user, pid, k, inv,
          faults, crashes, overlapped, failed, missed>>

PeriodStatuses == {"pending", "invoiced", "paid", "failed"}
RunSteps == {"idle", "next", "checked", "lines", "stripe", "items", "invoice", "save"}
Line == Nat \X Nat       \* a period and the number of one of its line items

(* Of total_cents only matters whether it is zero.                         *)
PeriodRecord == [user: Users, month: 1..Months, charge: BOOLEAN,
                 status: PeriodStatuses, invoice: Nat]
InvoiceRecord == [user: Users, items: Seq(Line)]

TypeOK ==
  /\ month \in 1..Months + 1 /\ lastRunMonth \in 0..Months + 1
  /\ firstDay \in BOOLEAN /\ bootedToday \in BOOLEAN /\ up \in BOOLEAN
  /\ periods \in Seq(PeriodRecord)
  /\ lines \in Seq(Nat) /\ Len(lines) = Len(periods)
  /\ upcoming \in [Users -> Seq(Line)]
  /\ invoices \in Seq(InvoiceRecord)
  /\ paidOff \subseteq 1..Len(invoices) /\ declined \subseteq 1..Len(invoices)
  /\ at \in [Runs -> RunSteps]
  /\ of \in [Runs -> 0..Months]
  /\ todo \in [Runs -> SUBSET Users]
  /\ user \in [Runs -> Users \cup {NoUser}]
  /\ pid \in [Runs -> Nat]
  /\ k \in [Runs -> Nat]
  /\ inv \in [Runs -> Nat]
  /\ faults \in 0..MaxFaults /\ crashes \in 0..MaxCrashes
  /\ overlapped \in BOOLEAN
  /\ failed \subseteq Users \X (1..Months)
  /\ missed \subseteq 1..Months + 1

Init ==
  /\ month = 1 /\ firstDay = FALSE /\ bootedToday = FALSE /\ up = TRUE
  /\ lastRunMonth = 0
  /\ periods = <<>> /\ lines = <<>>
  /\ upcoming = [u \in Users |-> <<>>]
  /\ invoices = <<>> /\ paidOff = {} /\ declined = {}
  /\ at = [r \in Runs |-> "idle"]
  /\ of = [r \in Runs |-> 0]
  /\ todo = [r \in Runs |-> {}]
  /\ user = [r \in Runs |-> NoUser]
  /\ pid = [r \in Runs |-> 0]
  /\ k = [r \in Runs |-> 0]
  /\ inv = [r \in Runs |-> 0]
  /\ faults = 0 /\ crashes = 0
  /\ overlapped = FALSE /\ failed = {} /\ missed = {}

-----------------------------------------------------------------------------
Goto(r, step) == at' = [at EXCEPT ![r] = step]
Fault == faults < MaxFaults /\ faults' = faults + 1
NoFault == UNCHANGED faults

Amounts(r) == Items[user[r]][of[r]]
BilledAndInvoiced(u, m) ==
  \E i \in 1..Len(periods) :
    periods[i].user = u /\ periods[i].month = m /\ periods[i].status # "pending"

Billed(u, m) == \E i \in 1..Len(periods) : periods[i].user = u /\ periods[i].month = m

HasCharge(amounts) == \E i \in 1..Len(amounts) : amounts[i] > 0

NextUserOrNobody(r) ==
  /\ Goto(r, "next")
  /\ user' = [user EXCEPT ![r] = NoUser]
  /\ pid' = [pid EXCEPT ![r] = 0]
  /\ k' = [k EXCEPT ![r] = 0]
  /\ inv' = [inv EXCEPT ![r] = 0]
  /\ todo' = [todo EXCEPT ![r] = {}]
  /\ UNCHANGED of

(* The `for (user_id,) in users` loop goes on with the next user, whatever *)
(* became of this one.                                                     *)
NextUser(r) ==
  /\ Goto(r, "next")
  /\ user' = [user EXCEPT ![r] = NoUser]
  /\ pid' = [pid EXCEPT ![r] = 0]
  /\ k' = [k EXCEPT ![r] = 0]
  /\ inv' = [inv EXCEPT ![r] = 0]
  /\ UNCHANGED <<of, todo>>

(* SELECT id FROM users, at the head of run_monthly_billing.               *)
Begin(r) ==
  /\ at[r] = "idle" /\ up
  /\ Goto(r, "next")
  /\ of' = [of EXCEPT ![r] = month - 1]
  /\ todo' = [todo EXCEPT ![r] = Users]
  /\ overlapped' = (overlapped \/ \E s \in Runs : at[s] # "idle")
  /\ UNCHANGED <<user, pid, k, inv>>

(* The hourly wake-up of the background task on the first of a month, once *)
(* per month; when the SELECT fails the next wake-up tries again.          *)
LoopDue == firstDay /\ lastRunMonth # month

LoopBegins ==
  /\ LoopDue
  /\ Begin(Loop)
  /\ UNCHANGED <<calendar, up, lastRunMonth, tables, stripe, faults, crashes, failed, missed>>

LoopFailsToBegin ==
  /\ LoopDue /\ up /\ at[Loop] = "idle"
  /\ Fault
  /\ UNCHANGED <<calendar, up, lastRunMonth, tables, stripe, control, crashes, history>>

AdminBegins(r) ==
  /\ month > 1
  /\ Begin(r)
  /\ UNCHANGED <<calendar, up, lastRunMonth, tables, stripe, faults, crashes, failed, missed>>

CheckKeepsPassedOver(r) ==
  /\ at[r] = "next"
  /\ \E u \in todo[r] :
       IF Billed(u, of[r]) \/ Items[u][of[r]] = <<>>
       THEN UNCHANGED <<at, user, todo>>
       ELSE /\ Goto(r, "checked")
            /\ user' = [user EXCEPT ![r] = u]
            /\ todo' = [todo EXCEPT ![r] = @ \ {u}]
  /\ UNCHANGED <<calendar, up, lastRunMonth, tables, stripe, of, pid, k, inv,
                 faults, crashes, history>>

(* generate_monthly_invoice up to its INSERT: a user who has a period of   *)
(* the month, or no line items for it, is passed over.                     *)
Check(r) ==
  /\ at[r] = "next"
  /\ \E u \in todo[r] :
       /\ todo' = [todo EXCEPT ![r] = @ \ {u}]
       /\ \/ /\ Billed(u, of[r]) \/ Items[u][of[r]] = <<>>
             /\ NoFault
             /\ UNCHANGED <<at, user, failed>>
          \/ /\ ~Billed(u, of[r]) /\ Items[u][of[r]] # <<>>
             /\ Goto(r, "checked")
             /\ user' = [user EXCEPT ![r] = u]
             /\ NoFault
             /\ UNCHANGED failed
          \/ /\ Fault
             /\ failed' = failed \cup {<<u, of[r]>>}
             /\ UNCHANGED <<at, user>>
  /\ UNCHANGED <<calendar, up, lastRunMonth, tables, stripe, of, pid, k, inv,
                 crashes, overlapped, missed>>

InsertPeriod(r) ==
  /\ at[r] = "checked"
  /\ NoFault
  /\ periods' = Append(periods, [user |-> user[r], month |-> of[r],
                                 charge |-> HasCharge(Amounts(r)),
                                 status |-> "pending", invoice |-> 0])
  /\ lines' = Append(lines, 0)
  /\ pid' = [pid EXCEPT ![r] = Len(periods) + 1]
  /\ Goto(r, "lines")
  /\ UNCHANGED <<calendar, up, lastRunMonth, stripe, of, todo, user, k, inv,
                 crashes, history>>

InsertPeriodFails(r) ==
  /\ at[r] = "checked"
  /\ Fault
  /\ failed' = failed \cup {<<user[r], of[r]>>}
  /\ NextUser(r)
  /\ UNCHANGED <<calendar, up, lastRunMonth, tables, stripe, crashes, overlapped, missed>>

AddLineItem(r) ==
  /\ at[r] = "lines"
  /\ k[r] < Len(Amounts(r))
  /\ NoFault
  /\ lines' = [lines EXCEPT ![pid[r]] = @ + 1]
  /\ k' = [k EXCEPT ![r] = @ + 1]
  /\ UNCHANGED <<calendar, up, lastRunMonth, periods, stripe, at, of, todo, user,
                 pid, inv, crashes, history>>

AddLineItemForgotten(r) ==
  /\ at[r] = "lines"
  /\ k[r] < Len(Amounts(r))
  /\ Fault
  /\ k' = [k EXCEPT ![r] = @ + 1]
  /\ UNCHANGED <<calendar, up, lastRunMonth, tables, stripe, at, of, todo, user,
                 pid, inv, crashes, history>>

AddLineItemFails(r) ==
  /\ at[r] = "lines"
  /\ k[r] < Len(Amounts(r))
  /\ Fault
  /\ NextUser(r)
  /\ UNCHANGED <<calendar, up, lastRunMonth, tables, stripe, crashes, history>>

(* Ok(Some(period)): on to Stripe, when there is a key.                    *)
InvoiceGenerated(r) ==
  /\ at[r] = "lines"
  /\ k[r] = Len(Amounts(r))
  /\ \/ /\ StripeEnabled
        /\ Goto(r, "stripe")
        /\ k' = [k EXCEPT ![r] = 0]
        /\ UNCHANGED <<of, todo, user, pid, inv>>
     \/ ~StripeEnabled /\ NextUser(r)
  /\ UNCHANGED <<calendar, up, lastRunMonth, tables, stripe, faults, crashes, history>>

(* create_stripe_invoice up to its first request: nothing to charge, no    *)
(* customer id, or the line items are read.                                *)
Chargeable(r) == periods[pid[r]].charge /\ user[r] \in Customers

OpenStripe(r) ==
  /\ at[r] = "stripe"
  /\ \/ Chargeable(r) /\ Goto(r, "items") /\ UNCHANGED <<of, todo, user, pid, k, inv>>
     \/ ~Chargeable(r) /\ NextUser(r)
  /\ UNCHANGED <<calendar, up, lastRunMonth, tables, stripe, faults, crashes, history>>

PostItem(r) ==
  /\ at[r] = "items"
  /\ k[r] < lines[pid[r]]
  /\ NoFault
  /\ upcoming' = [upcoming EXCEPT ![user[r]] = Append(@, <<pid[r], k[r] + 1>>)]
  /\ k' = [k EXCEPT ![r] = @ + 1]
  /\ UNCHANGED <<calendar, up, lastRunMonth, tables, invoices, paidOff, declined,
                 at, of, todo, user, pid, inv, crashes, history>>

AllItemsPosted(r) ==
  /\ at[r] = "items"
  /\ k[r] = lines[pid[r]]
  /\ Goto(r, "invoice")
  /\ UNCHANGED <<calendar, up, lastRunMonth, tables, stripe, of, todo, user, pid,
                 k, inv, faults, crashes, history>>

(* POST /v1/invoices takes what waits for the customer's upcoming invoice. *)
PostInvoice(r) ==
  /\ at[r] = "invoice"
  /\ NoFault
  /\ invoices' = Append(invoices, [user |-> user[r], items |-> upcoming[user[r]]])
  /\ upcoming' = [upcoming EXCEPT ![user[r]] = <<>>]
  /\ inv' = [inv EXCEPT ![r] = Len(invoices) + 1]
  /\ Goto(r, "save")
  /\ UNCHANGED <<calendar, up, lastRunMonth, tables, paidOff, declined, of, todo,
                 user, pid, k, crashes, history>>

StripeFailsAndRetries(r) ==
  /\ at[r] = "items"
  /\ k[r] < lines[pid[r]]
  /\ Fault
  /\ upcoming' = [upcoming EXCEPT ![user[r]] = Append(@, <<pid[r], k[r] + 1>>)]
  /\ UNCHANGED <<calendar, up, lastRunMonth, tables, invoices, paidOff, declined,
                 control, crashes, history>>

(* A request fails; Stripe may have carried it out before the answer was   *)
(* lost.  The error is logged, and nothing is undone or tried again.       *)
StripeFails(r) ==
  /\ at[r] \in {"items", "invoice"}
  /\ at[r] = "items" => k[r] < lines[pid[r]]
  /\ Fault
  /\ NextUser(r)
  /\ \/ UNCHANGED <<upcoming, invoices>>
     \/ /\ at[r] = "items"
        /\ upcoming' = [upcoming EXCEPT ![user[r]] = Append(@, <<pid[r], k[r] + 1>>)]
        /\ UNCHANGED invoices
     \/ /\ at[r] = "invoice"
        /\ invoices' = Append(invoices, [user |-> user[r], items |-> upcoming[user[r]]])
        /\ upcoming' = [upcoming EXCEPT ![user[r]] = <<>>]
  /\ UNCHANGED <<calendar, up, lastRunMonth, tables, paidOff, declined, crashes, history>>

(* update_period_status(id, "invoiced", Some(invoice_id))                  *)
SaveInvoice(r) ==
  /\ at[r] = "save"
  /\ NoFault
  /\ periods' = [periods EXCEPT ![pid[r]].status = "invoiced",
                                ![pid[r]].invoice = inv[r]]
  /\ NextUser(r)
  /\ UNCHANGED <<calendar, up, lastRunMonth, lines, stripe, crashes, history>>

SaveInvoiceFails(r) ==
  /\ at[r] = "save"
  /\ Fault
  /\ NextUser(r)
  /\ UNCHANGED <<calendar, up, lastRunMonth, tables, stripe, crashes, history>>

(* Ok(count): the background task notes the month.                         *)
Finish(r) ==
  /\ at[r] = "next" /\ todo[r] = {}
  /\ Goto(r, "idle")
  /\ of' = [of EXCEPT ![r] = 0]
  /\ lastRunMonth' = IF r = Loop THEN of[r] + 1 ELSE lastRunMonth
  /\ UNCHANGED <<calendar, up, tables, stripe, todo, user, pid, k, inv, faults,
                 crashes, history>>

-----------------------------------------------------------------------------
(* Stripe collects, possibly after failed attempts, and delivers an event  *)
(* for each outcome: late, more than once, in any order.                   *)
Collect(i) ==
  /\ i \notin paidOff
  /\ \/ paidOff' = paidOff \cup {i} /\ UNCHANGED declined
     \/ declined' = declined \cup {i} /\ UNCHANGED paidOff
  /\ UNCHANGED <<calendar, up, lastRunMonth, tables, upcoming, invoices, control,
                 faults, crashes, history>>

SetStatusOfUser(i, status) ==
  periods' = [p \in 1..Len(periods) |->
                IF periods[p].user = invoices[i].user THEN [periods[p] EXCEPT !.status = status]
                                                      ELSE periods[p]]

SetStatusToEvent(i, status) ==
  periods' = [p \in 1..Len(periods) |->
                IF periods[p].invoice = i
                THEN [periods[p] EXCEPT !.status = <<"invoice", status>>]
                ELSE periods[p]]

(* UPDATE billing_periods SET status = ... WHERE stripe_invoice_id = ...   *)
SetStatusOfInvoice(i, status) ==
  periods' = [p \in 1..Len(periods) |->
                IF periods[p].invoice = i THEN [periods[p] EXCEPT !.status = status]
                                          ELSE periods[p]]

Webhook(i) ==
  /\ up
  /\ \/ i \in paidOff /\ SetStatusOfInvoice(i, "paid")
     \/ i \in declined /\ SetStatusOfInvoice(i, "failed")
  /\ UNCHANGED <<calendar, up, lastRunMonth, lines, stripe, control, faults,
                 crashes, history>>

-----------------------------------------------------------------------------
Crash ==
  /\ up /\ crashes < MaxCrashes
  /\ crashes' = crashes + 1
  /\ up' = FALSE
  /\ lastRunMonth' = 0
  /\ at' = [r \in Runs |-> "idle"]
  /\ of' = [r \in Runs |-> 0]
  /\ todo' = [r \in Runs |-> {}]
  /\ user' = [r \in Runs |-> NoUser]
  /\ pid' = [r \in Runs |-> 0]
  /\ k' = [r \in Runs |-> 0]
  /\ inv' = [r \in Runs |-> 0]
  /\ UNCHANGED <<calendar, tables, stripe, faults, history>>

Boot ==
  /\ ~up
  /\ up' = TRUE
  /\ bootedToday' = firstDay
  /\ UNCHANGED <<month, firstDay, lastRunMonth, tables, stripe, control, faults,
                 crashes, history>>

(* The task sleeps an hour, then looks: a process that was up all day has  *)
(* completed a run before the first ends, one that is down then, or was    *)
(* started in its last hour, may not have.                                 *)
FirstDayEnds ==
  /\ firstDay
  /\ up /\ ~bootedToday => ~LoopDue
  /\ firstDay' = FALSE
  /\ bootedToday' = FALSE
  /\ missed' = IF LoopDue THEN missed \cup {month} ELSE missed
  /\ UNCHANGED <<month, up, lastRunMonth, tables, stripe, control, faults, crashes,
                 overlapped, failed>>

(* Runs take minutes: none is under way when the month ends.               *)
NextMonth ==
  /\ ~firstDay /\ month <= Months
  /\ \A r \in Runs : at[r] = "idle"
  /\ month' = month + 1
  /\ firstDay' = TRUE
  /\ UNCHANGED <<bootedToday, up, lastRunMonth, tables, stripe, control, faults, crashes, history>>

Step(r) ==
  \/ Check(r) \/ InsertPeriod(r) \/ InsertPeriodFails(r)
  \/ AddLineItem(r) \/ AddLineItemFails(r) \/ InvoiceGenerated(r)
  \/ OpenStripe(r) \/ PostItem(r) \/ AllItemsPosted(r) \/ PostInvoice(r)
  \/ StripeFails(r) \/ SaveInvoice(r) \/ SaveInvoiceFails(r) \/ Finish(r)

Next ==
  \/ LoopBegins \/ LoopFailsToBegin
  \/ \E r \in Admins : AdminBegins(r)
  \/ \E r \in Runs : Step(r)
  \/ \E i \in 1..Len(invoices) : Collect(i) \/ Webhook(i)
  \/ Crash \/ Boot \/ FirstDayEnds \/ NextMonth

Spec == Init /\ [][Next]_vars

(* The runtime runs what was spawned; nobody else is bound to act.         *)
FairSpec == Spec /\ \A r \in Runs : WF_vars(Step(r))

-----------------------------------------------------------------------------
(* While no two runs are under way at once, a user has one period per      *)
(* month, however often runs are repeated, fail or are cut off by a crash  *)
(* (the "Anti-duplicate" COUNT of generate_monthly_invoice).               *)
SoloRunsAreUnique ==
  ~overlapped =>
    \A i, j \in 1..Len(periods) :
      periods[i].user = periods[j].user /\ periods[i].month = periods[j].month => i = j

(* No line item reaches Stripe twice, even when runs overlap, requests     *)
(* fail half-way or the process dies between two of them: nobody but the   *)
(* run that created a period ever posts its items, and it never retries    *)
(* (create_stripe_invoice).                                                *)
LinesChargedOnce ==
  \A u \in Users :
    LET mine    == {i \in 1..Len(invoices) : invoices[i].user = u}
        sources == {<<0, n>> : n \in 1..Len(upcoming[u])}
                   \cup UNION {{<<i, n>> : n \in 1..Len(invoices[i].items)} : i \in mine}
        LineAt(s) == IF s[1] = 0 THEN upcoming[u][s[2]] ELSE invoices[s[1]].items[s[2]]
    IN \A s, t \in sources :
         /\ LineAt(s) = LineAt(t) => s = t
         /\ periods[LineAt(s)[1]].user = u
         /\ LineAt(s)[2] <= lines[LineAt(s)[1]]

(* While no two runs were under way at once, an invoice that was saved     *)
(* carries every line item of its period, because a run that fails half-way*)
(* leaves the period pending; and it carries no other while nothing failed:*)
(* after a failure it also collects what the failed run left behind.       *)
LinesOf(p) == {p} \X (1..Len(Items[periods[p].user][periods[p].month]))

InvoicedIsComplete ==
  ~overlapped =>
    \A p \in 1..Len(periods) : periods[p].invoice # 0 =>
      LET charged == {invoices[periods[p].invoice].items[n] :
                        n \in 1..Len(invoices[periods[p].invoice].items)}
      IN /\ LinesOf(p) \subseteq charged
         /\ faults = 0 /\ crashes = 0 => charged = LinesOf(p)

(* The status of a period tells of the fate of its own invoice, whichever  *)
(* webhooks are late, repeated, reordered or come before the invoice id    *)
(* was saved (handle_stripe_webhook, update_period_status).                *)
StatusFollowsStripe ==
  \A p \in 1..Len(periods) :
    /\ periods[p].status = "pending" <=> periods[p].invoice = 0
    /\ periods[p].status = "paid" => periods[p].invoice \in paidOff
    /\ periods[p].status = "failed" => periods[p].invoice \in declined
    /\ periods[p].invoice # 0 => invoices[periods[p].invoice].user = periods[p].user
    /\ \A q \in 1..Len(periods) :
         periods[p].invoice = periods[q].invoice /\ periods[p].invoice # 0 => p = q

FirstDayOver(m) == m < month \/ (m = month /\ ~firstDay)

(* Once the first of a month is over and a run was completed on it, every  *)
(* user with line items has a period of the month before, but those whose  *)
(* own statements failed: no user's failure, and no crash in between,      *)
(* keeps another from being billed.                                        *)
FirstDayCovers ==
  \A m \in 1..Months, u \in Users :
    /\ FirstDayOver(m + 1) /\ (m + 1) \notin missed
    /\ <<u, m>> \notin failed
    /\ Items[u][m] # <<>>
    => Billed(u, m)

(* A run ends, whatever fails in it (run_monthly_billing).                 *)
RunsEnd == \A r \in Runs : at[r] # "idle" ~> at[r] = "idle"
=============================================================================
