-------------------------- MODULE MonthlyBillingProofs --------------------------
(***************************************************************************)
(* Proofs about MonthlyBilling, for any number of users, administrators,   *)
(* months, failures and crashes.  Basic is inductive by itself; the five   *)
(* safety theorems each strengthen it by what their property rests on.     *)
(***************************************************************************)
EXTENDS MonthlyBilling, SequenceTheorems, TLAPS

(* Positions of a run at which it is at work on a user, and at which it    *)
(* has created a period for that user.                                     *)
Working  == {"checked", "lines", "stripe", "items", "invoice", "save"}
Charging == {"lines", "stripe", "items", "invoice", "save"}

(* A run under way is about a month and, where it matters, about a user, a *)
(* period it created and an invoice it had made.                           *)
RunInv ==
  \A r \in Runs :
    /\ at[r] # "idle" => of[r] \in 1..Months
    /\ at[r] \in Working => user[r] \in Users
    /\ at[r] \in Charging => pid[r] \in 1..Len(periods)
    /\ at[r] = "save" => inv[r] \in 1..Len(invoices)

CalendarInv == firstDay => month >= 2

(* The conjuncts of TypeOK by what they are about.                         *)
ClockOK ==
  /\ month \in 1..Months + 1 /\ lastRunMonth \in 0..Months + 1
  /\ firstDay \in BOOLEAN /\ bootedToday \in BOOLEAN /\ up \in BOOLEAN
  /\ faults \in 0..MaxFaults /\ crashes \in 0..MaxCrashes
  /\ overlapped \in BOOLEAN
  /\ failed \subseteq Users \X (1..Months)
  /\ missed \subseteq 1..Months + 1

TablesOK ==
  /\ periods \in Seq(PeriodRecord)
  /\ lines \in Seq(Nat) /\ Len(lines) = Len(periods)

StripeOK ==
  /\ upcoming \in [Users -> Seq(Line)]
  /\ invoices \in Seq(InvoiceRecord)
  /\ paidOff \subseteq 1..Len(invoices) /\ declined \subseteq 1..Len(invoices)

ControlOK ==
  /\ at \in [Runs -> RunSteps]
  /\ of \in [Runs -> 0..Months]
  /\ todo \in [Runs -> SUBSET Users]
  /\ user \in [Runs -> Users \cup {NoUser}]
  /\ pid \in [Runs -> Nat]
  /\ k \in [Runs -> Nat]
  /\ inv \in [Runs -> Nat]

Basic == ClockOK /\ TablesOK /\ StripeOK /\ ControlOK /\ RunInv /\ CalendarInv

(* Facts about the names of runs, sequences and Stripe's list of invoices. *)
LEMMA RunNames == Loop \in Runs /\ Admins \subseteq Runs
  BY DEF Runs

LEMMA FunctionIsSeq ==
  ASSUME NEW S, NEW n \in Nat, NEW f \in [1..n -> S]
  PROVE  f \in Seq(S) /\ Len(f) = n
  BY SeqDef, LenProperties

LEMMA InvoicesOnlyGrow ==
  ASSUME StripeOK, RunInv, NEW r \in Runs, PostInvoice(r) \/ StripeFails(r)
  PROVE  /\ Len(invoices) \in Nat /\ Len(invoices') \in Nat
         /\ Len(invoices') >= Len(invoices)
         /\ \A i \in 1..Len(invoices) : invoices'[i] = invoices[i]
<1> DEFINE new == [user |-> user[r], items |-> upcoming[user[r]]]
<1>1. new \in InvoiceRecord
  BY DEF PostInvoice, StripeFails, RunInv, Working, StripeOK, InvoiceRecord
<1>2. invoices' = invoices \/ invoices' = Append(invoices, new)
  BY DEF PostInvoice, StripeFails
<1> HIDE DEF new
<1> QED BY <1>1, <1>2, AppendProperties, LenProperties DEF StripeOK

(* What the alternatives of three actions do to the control of a run.      *)
LEMMA CheckAlternatives ==
  ASSUME NEW r \in Runs, Check(r)
  PROVE  \E u \in todo[r] :
           /\ todo' = [todo EXCEPT ![r] = @ \ {u}]
           /\ \/ /\ Billed(u, of[r]) \/ Items[u][of[r]] = <<>>
                 /\ NoFault
                 /\ UNCHANGED <<at, user, failed>>
              \/ /\ ~Billed(u, of[r]) /\ Items[u][of[r]] # <<>>
                 /\ Goto(r, "checked")
                 /\ user' = [user EXCEPT ![r] = u]
                 /\ NoFault
                 /\ UNCHANGED failed
              \/ /\ Fault
                 /\ failed' = failed \cup {<<u, of[r]>>}
                 /\ UNCHANGED <<at, user>>
  BY DEF Check

LEMMA InvoiceAlternatives ==
  ASSUME NEW r \in Runs, InvoiceGenerated(r)
  PROVE  \/ /\ Goto(r, "stripe")
            /\ k' = [k EXCEPT ![r] = 0]
            /\ UNCHANGED <<of, todo, user, pid, inv>>
         \/ NextUser(r)
  BY DEF InvoiceGenerated

LEMMA StripeAlternatives ==
  ASSUME NEW r \in Runs, OpenStripe(r)
  PROVE  \/ /\ Goto(r, "items")
            /\ UNCHANGED <<of, todo, user, pid, k, inv>>
         \/ NextUser(r)
  BY DEF OpenStripe

-----------------------------------------------------------------------------
(* Every action preserves every part of Basic.                             *)
LEMMA BasicStep == ASSUME Basic, [Next]_vars PROVE Basic'
<1> USE BillingAssumption, RunNames DEF Goto, calendar, tables, stripe, control, history
<1>1. ASSUME LoopBegins PROVE Basic'
  <2>1. ClockOK'
    BY <1>1 DEF Basic, ClockOK, LoopBegins, Begin
  <2>2. TablesOK'
    BY <1>1 DEF Basic, TablesOK, LoopBegins
  <2>3. StripeOK'
    BY <1>1 DEF Basic, StripeOK, LoopBegins
  <2>4. ControlOK'
    BY <1>1 DEF Basic, ControlOK, RunSteps, LoopBegins, Begin, ClockOK
  <2>5. RunInv'
    BY <1>1 DEF Basic, RunInv, Working, Charging, ControlOK, LoopBegins, Begin, LoopDue,
       ClockOK, CalendarInv
  <2>6. CalendarInv'
    BY <1>1 DEF Basic, CalendarInv, LoopBegins
  <2> QED BY <2>1, <2>2, <2>3, <2>4, <2>5, <2>6 DEF Basic
<1>2. ASSUME LoopFailsToBegin PROVE Basic'
  <2>1. ClockOK'
    BY <1>2 DEF Basic, ClockOK, LoopFailsToBegin, Fault
  <2>2. TablesOK'
    BY <1>2 DEF Basic, TablesOK, LoopFailsToBegin
  <2>3. StripeOK'
    BY <1>2 DEF Basic, StripeOK, LoopFailsToBegin
  <2>4. ControlOK'
    BY <1>2 DEF Basic, ControlOK, RunSteps, LoopFailsToBegin
  <2>5. RunInv'
    BY <1>2 DEF Basic, RunInv, Working, Charging, ControlOK, LoopFailsToBegin
  <2>6. CalendarInv'
    BY <1>2 DEF Basic, CalendarInv, LoopFailsToBegin
  <2> QED BY <2>1, <2>2, <2>3, <2>4, <2>5, <2>6 DEF Basic
<1>3. ASSUME NEW r \in Admins, AdminBegins(r) PROVE Basic'
  <2>1. ClockOK'
    BY <1>3 DEF Basic, ClockOK, AdminBegins, Begin
  <2>2. TablesOK'
    BY <1>3 DEF Basic, TablesOK, AdminBegins
  <2>3. StripeOK'
    BY <1>3 DEF Basic, StripeOK, AdminBegins
  <2>4. ControlOK'
    BY <1>3 DEF Basic, ControlOK, RunSteps, AdminBegins, Begin, ClockOK
  <2>5. RunInv'
    BY <1>3 DEF Basic, RunInv, Working, Charging, ControlOK, AdminBegins, Begin, ClockOK,
       CalendarInv
  <2>6. CalendarInv'
    BY <1>3 DEF Basic, CalendarInv, AdminBegins
  <2> QED BY <2>1, <2>2, <2>3, <2>4, <2>5, <2>6 DEF Basic
<1>4. ASSUME NEW r \in Runs, Check(r) PROVE Basic'
  <2>7. PICK u \in todo[r] :
          /\ todo' = [todo EXCEPT ![r] = @ \ {u}]
          /\ \/ /\ Billed(u, of[r]) \/ Items[u][of[r]] = <<>>
                /\ NoFault
                /\ UNCHANGED <<at, user, failed>>
             \/ /\ ~Billed(u, of[r]) /\ Items[u][of[r]] # <<>>
                /\ Goto(r, "checked")
                /\ user' = [user EXCEPT ![r] = u]
                /\ NoFault
                /\ UNCHANGED failed
             \/ /\ Fault
                /\ failed' = failed \cup {<<u, of[r]>>}
                /\ UNCHANGED <<at, user>>
    BY <1>4, CheckAlternatives
  <2>8. /\ at[r] = "next"
         /\ UNCHANGED <<calendar, up, lastRunMonth, tables, stripe, of, pid, k, inv,
                        crashes, overlapped, missed>>
    BY <1>4 DEF Check
  <2>1. ClockOK'
    BY <2>7, <2>8 DEF Fault, NoFault, Basic, ClockOK, RunInv, ControlOK
  <2>2. TablesOK'
    BY <2>8 DEF Basic, TablesOK
  <2>3. StripeOK'
    BY <2>8 DEF Basic, StripeOK
  <2>4. ControlOK'
    <3>1. u \in Users
      BY <2>7 DEF Basic, ControlOK
    <3>2. todo[r] \ {u} \in SUBSET Users
      BY DEF Basic, ControlOK
    <3>5. todo' = [todo EXCEPT ![r] = @ \ {u}]
      BY <2>7
    <3>3. todo' \in [Runs -> SUBSET Users]
      BY <3>2, <3>5 DEF Basic, ControlOK
    <3>4. user' \in [Runs -> Users \cup {NoUser}] /\ at' \in [Runs -> RunSteps]
      BY <2>7, <3>1 DEF Basic, ControlOK, RunSteps
    <3> QED BY <2>8, <3>3, <3>4 DEF Basic, ControlOK
  <2>5. RunInv'
    <3>1. u \in Users
      BY <2>7 DEF Basic, ControlOK
    <3> QED BY <2>7, <2>8, <3>1 DEF Basic, RunInv, ControlOK, Working, Charging
  <2>6. CalendarInv'
    BY <2>8 DEF Basic, CalendarInv, ClockOK
  <2> QED BY <2>1, <2>2, <2>3, <2>4, <2>5, <2>6 DEF Basic
<1>5. ASSUME NEW r \in Runs, InsertPeriod(r) PROVE Basic'
  <2>1. ClockOK'
    BY <1>5 DEF Basic, ClockOK, InsertPeriod, NoFault
  <2>2. TablesOK'
    <3> DEFINE new == [user |-> user[r], month |-> of[r],
                       charge |-> HasCharge(Amounts(r)),
                       status |-> "pending", invoice |-> 0]
    <3>1. user[r] \in Users /\ of[r] \in 1..Months
      BY <1>5 DEF InsertPeriod, Basic, RunInv, Working
    <3>2. HasCharge(Amounts(r)) \in BOOLEAN
      BY DEF HasCharge
    <3>3. new \in PeriodRecord
      BY <3>1, <3>2 DEF PeriodRecord, PeriodStatuses
    <3>4. periods' = Append(periods, new) /\ lines' = Append(lines, 0)
      BY <1>5 DEF InsertPeriod
    <3> HIDE DEF new
    <3> QED BY <3>3, <3>4, AppendProperties DEF Basic, TablesOK
  <2>3. StripeOK'
    BY <1>5 DEF Basic, StripeOK, InsertPeriod
  <2>4. ControlOK'
    BY <1>5 DEF Basic, ControlOK, RunSteps, InsertPeriod
  <2>5. RunInv'
    <3>1. Len(periods') = Len(periods) + 1
      BY <1>5, AppendProperties DEF InsertPeriod, Basic, TablesOK, RunInv, Working,
         PeriodRecord, PeriodStatuses, HasCharge
    <3>2. Len(periods) \in Nat
      BY LenProperties DEF Basic, TablesOK
    <3> QED BY <1>5, <3>1, <3>2 DEF InsertPeriod, Basic, RunInv, Working, Charging, ControlOK
  <2>6. CalendarInv'
    BY <1>5 DEF Basic, CalendarInv, InsertPeriod
  <2> QED BY <2>1, <2>2, <2>3, <2>4, <2>5, <2>6 DEF Basic
<1>6. ASSUME NEW r \in Runs, InsertPeriodFails(r) PROVE Basic'
  <2>1. ClockOK'
    <3>1. user[r] \in Users /\ of[r] \in 1..Months
      BY <1>6 DEF InsertPeriodFails, Basic, RunInv, Working
    <3> QED BY <1>6, <3>1 DEF InsertPeriodFails, Fault, Basic, ClockOK
  <2>2. TablesOK'
    BY <1>6 DEF Basic, TablesOK, InsertPeriodFails
  <2>3. StripeOK'
    BY <1>6 DEF Basic, StripeOK, InsertPeriodFails
  <2>4. ControlOK'
    BY <1>6 DEF Basic, ControlOK, RunSteps, InsertPeriodFails, NextUser
  <2>5. RunInv'
    BY <1>6 DEF Basic, RunInv, Working, Charging, ControlOK, InsertPeriodFails, NextUser
  <2>6. CalendarInv'
    BY <1>6 DEF Basic, CalendarInv, InsertPeriodFails
  <2> QED BY <2>1, <2>2, <2>3, <2>4, <2>5, <2>6 DEF Basic
<1>7. ASSUME NEW r \in Runs, AddLineItem(r) PROVE Basic'
  <2>1. ClockOK'
    BY <1>7 DEF Basic, ClockOK, AddLineItem, NoFault
  <2>2. TablesOK'
    <3>1. pid[r] \in 1..Len(lines) /\ lines[pid[r]] + 1 \in Nat
      BY <1>7, ElementOfSeq DEF AddLineItem, Basic, RunInv, Charging, TablesOK
    <3>2. lines' = [lines EXCEPT ![pid[r]] = lines[pid[r]] + 1]
      BY <1>7 DEF AddLineItem
    <3>3. lines' \in Seq(Nat) /\ Len(lines') = Len(lines)
      BY <3>1, <3>2, ExceptSeq DEF Basic, TablesOK
    <3> QED BY <1>7, <3>3 DEF AddLineItem, Basic, TablesOK
  <2>3. StripeOK'
    BY <1>7 DEF Basic, StripeOK, AddLineItem
  <2>4. ControlOK'
    BY <1>7 DEF Basic, ControlOK, RunSteps, AddLineItem
  <2>5. RunInv'
    BY <1>7 DEF Basic, RunInv, Working, Charging, ControlOK, AddLineItem
  <2>6. CalendarInv'
    BY <1>7 DEF Basic, CalendarInv, AddLineItem
  <2> QED BY <2>1, <2>2, <2>3, <2>4, <2>5, <2>6 DEF Basic
<1>8. ASSUME NEW r \in Runs, AddLineItemFails(r) PROVE Basic'
  <2>1. ClockOK'
    BY <1>8 DEF Basic, ClockOK, AddLineItemFails, Fault
  <2>2. TablesOK'
    BY <1>8 DEF Basic, TablesOK, AddLineItemFails
  <2>3. StripeOK'
    BY <1>8 DEF Basic, StripeOK, AddLineItemFails
  <2>4. ControlOK'
    BY <1>8 DEF Basic, ControlOK, RunSteps, AddLineItemFails, NextUser
  <2>5. RunInv'
    BY <1>8 DEF Basic, RunInv, Working, Charging, ControlOK, AddLineItemFails, NextUser
  <2>6. CalendarInv'
    BY <1>8 DEF Basic, CalendarInv, AddLineItemFails
  <2> QED BY <2>1, <2>2, <2>3, <2>4, <2>5, <2>6 DEF Basic
<1>9. ASSUME NEW r \in Runs, InvoiceGenerated(r) PROVE Basic'
  <2>1. ClockOK'
    BY <1>9 DEF Basic, ClockOK, InvoiceGenerated
  <2>2. TablesOK'
    BY <1>9 DEF Basic, TablesOK, InvoiceGenerated
  <2>3. StripeOK'
    BY <1>9 DEF Basic, StripeOK, InvoiceGenerated
  <2>4. ControlOK'
    <3>1. CASE NextUser(r)
      BY <3>1 DEF NextUser, Basic, ControlOK, RunSteps
    <3>2. CASE /\ at' = [at EXCEPT ![r] = "stripe"] /\ k' = [k EXCEPT ![r] = 0]
               /\ of' = of /\ todo' = todo /\ user' = user /\ pid' = pid /\ inv' = inv
      BY <3>2 DEF Basic, ControlOK, RunSteps
    <3> QED BY <1>9, <3>1, <3>2, InvoiceAlternatives
  <2>5. RunInv'
    BY <1>9 DEF Basic, RunInv, Working, Charging, ControlOK, InvoiceGenerated, NextUser
  <2>6. CalendarInv'
    BY <1>9 DEF Basic, CalendarInv, InvoiceGenerated
  <2> QED BY <2>1, <2>2, <2>3, <2>4, <2>5, <2>6 DEF Basic
<1>10. ASSUME NEW r \in Runs, OpenStripe(r) PROVE Basic'
  <2>1. ClockOK'
    BY <1>10 DEF Basic, ClockOK, OpenStripe
  <2>2. TablesOK'
    BY <1>10 DEF Basic, TablesOK, OpenStripe
  <2>3. StripeOK'
    BY <1>10 DEF Basic, StripeOK, OpenStripe
  <2>4. ControlOK'
    <3>1. CASE NextUser(r)
      BY <3>1 DEF NextUser, Basic, ControlOK, RunSteps
    <3>2. CASE /\ at' = [at EXCEPT ![r] = "items"] /\ k' = k
               /\ of' = of /\ todo' = todo /\ user' = user /\ pid' = pid /\ inv' = inv
      BY <3>2 DEF Basic, ControlOK, RunSteps
    <3> QED BY <1>10, <3>1, <3>2, StripeAlternatives
  <2>5. RunInv'
    BY <1>10 DEF Basic, RunInv, Working, Charging, ControlOK, OpenStripe, NextUser
  <2>6. CalendarInv'
    BY <1>10 DEF Basic, CalendarInv, OpenStripe
  <2> QED BY <2>1, <2>2, <2>3, <2>4, <2>5, <2>6 DEF Basic
<1>11. ASSUME NEW r \in Runs, PostItem(r) PROVE Basic'
  <2>1. ClockOK'
    BY <1>11 DEF Basic, ClockOK, PostItem, NoFault
  <2>2. TablesOK'
    BY <1>11 DEF Basic, TablesOK, PostItem
  <2>3. StripeOK'
    <3>1. user[r] \in Users /\ <<pid[r], k[r] + 1>> \in Line
      BY <1>11 DEF PostItem, Basic, RunInv, Working, ControlOK, Line
    <3>2. Append(upcoming[user[r]], <<pid[r], k[r] + 1>>) \in Seq(Line)
      BY <3>1, AppendProperties DEF Basic, StripeOK
    <3>3. upcoming' = [upcoming EXCEPT ![user[r]] = Append(upcoming[user[r]], <<pid[r], k[r] + 1>>)]
      BY <1>11 DEF PostItem
    <3> QED BY <1>11, <3>2, <3>3 DEF PostItem, Basic, StripeOK
  <2>4. ControlOK'
    BY <1>11 DEF Basic, ControlOK, RunSteps, PostItem
  <2>5. RunInv'
    BY <1>11 DEF Basic, RunInv, Working, Charging, ControlOK, PostItem
  <2>6. CalendarInv'
    BY <1>11 DEF Basic, CalendarInv, PostItem
  <2> QED BY <2>1, <2>2, <2>3, <2>4, <2>5, <2>6 DEF Basic
<1>12. ASSUME NEW r \in Runs, AllItemsPosted(r) PROVE Basic'
  <2>1. ClockOK'
    BY <1>12 DEF Basic, ClockOK, AllItemsPosted
  <2>2. TablesOK'
    BY <1>12 DEF Basic, TablesOK, AllItemsPosted
  <2>3. StripeOK'
    BY <1>12 DEF Basic, StripeOK, AllItemsPosted
  <2>4. ControlOK'
    BY <1>12 DEF Basic, ControlOK, RunSteps, AllItemsPosted
  <2>5. RunInv'
    BY <1>12 DEF Basic, RunInv, Working, Charging, ControlOK, AllItemsPosted
  <2>6. CalendarInv'
    BY <1>12 DEF Basic, CalendarInv, AllItemsPosted
  <2> QED BY <2>1, <2>2, <2>3, <2>4, <2>5, <2>6 DEF Basic
<1>13. ASSUME NEW r \in Runs, PostInvoice(r) PROVE Basic'
  <2>1. ClockOK'
    BY <1>13 DEF Basic, ClockOK, PostInvoice, NoFault
  <2>2. TablesOK'
    BY <1>13 DEF Basic, TablesOK, PostInvoice
  <2>3. StripeOK'
    <3> DEFINE new == [user |-> user[r], items |-> upcoming[user[r]]]
    <3>1. new \in InvoiceRecord
      BY <1>13 DEF PostInvoice, Basic, RunInv, Working, StripeOK, InvoiceRecord
    <3>2. invoices' = Append(invoices, new) /\ upcoming' = [upcoming EXCEPT ![user[r]] = <<>>]
      BY <1>13 DEF PostInvoice
    <3> HIDE DEF new
    <3>3. invoices' \in Seq(InvoiceRecord) /\ Len(invoices') = Len(invoices) + 1 /\ Len(invoices) \in Nat
      BY <3>1, <3>2, AppendProperties, LenProperties DEF Basic, StripeOK
    <3>4. upcoming' \in [Users -> Seq(Line)]
      BY <3>2, EmptySeq DEF Basic, StripeOK
    <3> QED BY <1>13, <3>3, <3>4 DEF PostInvoice, Basic, StripeOK
  <2>4. ControlOK'
    BY <1>13 DEF Basic, ControlOK, RunSteps, PostInvoice
  <2>5. RunInv'
    BY <1>13 DEF Basic, RunInv, Working, Charging, ControlOK, PostInvoice
  <2>6. CalendarInv'
    BY <1>13 DEF Basic, CalendarInv, PostInvoice
  <2> QED BY <2>1, <2>2, <2>3, <2>4, <2>5, <2>6 DEF Basic
<1>14. ASSUME NEW r \in Runs, StripeFails(r) PROVE Basic'
  <2>1. ClockOK'
    BY <1>14 DEF Basic, ClockOK, StripeFails, Fault
  <2>2. TablesOK'
    BY <1>14 DEF Basic, TablesOK, StripeFails
  <2>3. StripeOK'
    <3> DEFINE new == [user |-> user[r], items |-> upcoming[user[r]]]
    <3>1. /\ new \in InvoiceRecord
          /\ user[r] \in Users /\ <<pid[r], k[r] + 1>> \in Line
      BY <1>14 DEF StripeFails, Basic, RunInv, Working, ControlOK, StripeOK, InvoiceRecord, Line
    <3>2. CASE UNCHANGED <<upcoming, invoices>>
      BY <1>14, <3>2 DEF StripeFails, Basic, StripeOK
    <3>3. CASE /\ upcoming' = [upcoming EXCEPT ![user[r]] = Append(upcoming[user[r]], <<pid[r], k[r] + 1>>)]
               /\ UNCHANGED invoices
      <4>1. Append(upcoming[user[r]], <<pid[r], k[r] + 1>>) \in Seq(Line)
        BY <3>1, AppendProperties DEF Basic, StripeOK
      <4> QED BY <1>14, <3>3, <4>1 DEF StripeFails, Basic, StripeOK
    <3>4. CASE /\ invoices' = Append(invoices, new)
               /\ upcoming' = [upcoming EXCEPT ![user[r]] = <<>>]
      <4> HIDE DEF new
      <4>1. invoices' \in Seq(InvoiceRecord) /\ Len(invoices') = Len(invoices) + 1 /\ Len(invoices) \in Nat
        BY <3>1, <3>4, AppendProperties, LenProperties DEF Basic, StripeOK
      <4>2. upcoming' \in [Users -> Seq(Line)]
        BY <3>4, EmptySeq DEF Basic, StripeOK
      <4> QED BY <1>14, <4>1, <4>2 DEF StripeFails, Basic, StripeOK
    <3> QED BY <1>14, <3>2, <3>3, <3>4 DEF StripeFails
  <2>4. ControlOK'
    BY <1>14 DEF Basic, ControlOK, RunSteps, StripeFails, NextUser
  <2>5. RunInv'
    <3>1. /\ of' = of /\ periods' = periods
          /\ at' = [at EXCEPT ![r] = "next"]
          /\ user' = [user EXCEPT ![r] = NoUser]
          /\ pid' = [pid EXCEPT ![r] = 0] /\ inv' = [inv EXCEPT ![r] = 0]
      BY <1>14 DEF StripeFails, NextUser
    <3>2. Len(invoices') \in Nat /\ Len(invoices') >= Len(invoices) /\ Len(invoices) \in Nat
      BY <1>14, InvoicesOnlyGrow DEF Basic
    <3>3. at[r] # "idle"
      BY <1>14 DEF StripeFails
    <3> QED BY <3>1, <3>2, <3>3 DEF Basic, RunInv, Working, Charging, ControlOK
  <2>6. CalendarInv'
    BY <1>14 DEF Basic, CalendarInv, StripeFails
  <2> QED BY <2>1, <2>2, <2>3, <2>4, <2>5, <2>6 DEF Basic
<1>15. ASSUME NEW r \in Runs, SaveInvoice(r) PROVE Basic'
  <2>1. ClockOK'
    BY <1>15 DEF Basic, ClockOK, SaveInvoice, NoFault
  <2>2. TablesOK'
    <3>1. pid[r] \in 1..Len(periods) /\ periods[pid[r]] \in PeriodRecord
      BY <1>15, ElementOfSeq DEF SaveInvoice, Basic, RunInv, Charging, TablesOK
    <3> DEFINE new == [periods[pid[r]] EXCEPT !.status = "invoiced", !.invoice = inv[r]]
    <3>2. new \in PeriodRecord
      BY <1>15, <3>1 DEF Basic, ControlOK, PeriodRecord, PeriodStatuses
    <3>3. periods' = [periods EXCEPT ![pid[r]] = new]
      BY <1>15, <3>1 DEF SaveInvoice, Basic, TablesOK
    <3> HIDE DEF new
    <3>4. periods' \in Seq(PeriodRecord) /\ Len(periods') = Len(periods)
      BY <3>1, <3>2, <3>3, ExceptSeq DEF Basic, TablesOK
    <3> QED BY <1>15, <3>4 DEF SaveInvoice, Basic, TablesOK
  <2>3. StripeOK'
    BY <1>15 DEF Basic, StripeOK, SaveInvoice
  <2>4. ControlOK'
    BY <1>15 DEF Basic, ControlOK, RunSteps, SaveInvoice, NextUser
  <2>5. RunInv'
    BY <1>15 DEF Basic, RunInv, Working, Charging, ControlOK, SaveInvoice, NextUser
  <2>6. CalendarInv'
    BY <1>15 DEF Basic, CalendarInv, SaveInvoice
  <2> QED BY <2>1, <2>2, <2>3, <2>4, <2>5, <2>6 DEF Basic
<1>16. ASSUME NEW r \in Runs, SaveInvoiceFails(r) PROVE Basic'
  <2>1. ClockOK'
    BY <1>16 DEF Basic, ClockOK, SaveInvoiceFails, Fault
  <2>2. TablesOK'
    BY <1>16 DEF Basic, TablesOK, SaveInvoiceFails
  <2>3. StripeOK'
    BY <1>16 DEF Basic, StripeOK, SaveInvoiceFails
  <2>4. ControlOK'
    BY <1>16 DEF Basic, ControlOK, RunSteps, SaveInvoiceFails, NextUser
  <2>5. RunInv'
    BY <1>16 DEF Basic, RunInv, Working, Charging, ControlOK, SaveInvoiceFails, NextUser
  <2>6. CalendarInv'
    BY <1>16 DEF Basic, CalendarInv, SaveInvoiceFails
  <2> QED BY <2>1, <2>2, <2>3, <2>4, <2>5, <2>6 DEF Basic
<1>17. ASSUME NEW r \in Runs, Finish(r) PROVE Basic'
  <2>1. ClockOK'
    BY <1>17 DEF Basic, ClockOK, Finish, RunInv, ControlOK
  <2>2. TablesOK'
    BY <1>17 DEF Basic, TablesOK, Finish
  <2>3. StripeOK'
    BY <1>17 DEF Basic, StripeOK, Finish
  <2>4. ControlOK'
    BY <1>17 DEF Basic, ControlOK, RunSteps, Finish
  <2>5. RunInv'
    BY <1>17 DEF Basic, RunInv, Working, Charging, ControlOK, Finish
  <2>6. CalendarInv'
    BY <1>17 DEF Basic, CalendarInv, Finish
  <2> QED BY <2>1, <2>2, <2>3, <2>4, <2>5, <2>6 DEF Basic
<1>18. ASSUME NEW i \in 1..Len(invoices), Collect(i) PROVE Basic'
  <2>1. ClockOK'
    BY <1>18 DEF Basic, ClockOK, Collect
  <2>2. TablesOK'
    BY <1>18 DEF Basic, TablesOK, Collect
  <2>3. StripeOK'
    BY <1>18 DEF Basic, StripeOK, Collect
  <2>4. ControlOK'
    BY <1>18 DEF Basic, ControlOK, RunSteps, Collect
  <2>5. RunInv'
    BY <1>18 DEF Basic, RunInv, Working, Charging, ControlOK, Collect
  <2>6. CalendarInv'
    BY <1>18 DEF Basic, CalendarInv, Collect
  <2> QED BY <2>1, <2>2, <2>3, <2>4, <2>5, <2>6 DEF Basic
<1>19. ASSUME NEW i \in 1..Len(invoices), Webhook(i) PROVE Basic'
  <2>1. ClockOK'
    BY <1>19 DEF Basic, ClockOK, Webhook, SetStatusOfInvoice
  <2>2. TablesOK'
    <3> DEFINE new(s) == [p \in 1..Len(periods) |->
                   IF periods[p].invoice = i THEN [periods[p] EXCEPT !.status = s]
                                             ELSE periods[p]]
    <3>1. PICK s \in {"paid", "failed"} : periods' = new(s)
      BY <1>19 DEF Webhook, SetStatusOfInvoice
    <3>2. ASSUME NEW p \in 1..Len(periods) PROVE new(s)[p] \in PeriodRecord
      <4>1. periods[p] \in PeriodRecord /\ s \in PeriodStatuses
        BY ElementOfSeq DEF Basic, TablesOK, PeriodStatuses
      <4>2. [periods[p] EXCEPT !.status = s] \in PeriodRecord
        BY <4>1 DEF PeriodRecord
      <4> QED BY <4>1, <4>2
    <3>3. Len(periods) \in Nat
      BY LenProperties DEF Basic, TablesOK
    <3>4. periods' \in [1..Len(periods) -> PeriodRecord]
      BY <3>1, <3>2
    <3>5. periods' \in Seq(PeriodRecord) /\ Len(periods') = Len(periods)
      BY <3>3, <3>4, FunctionIsSeq
    <3> QED BY <1>19, <3>5 DEF Webhook, Basic, TablesOK
  <2>3. StripeOK'
    BY <1>19 DEF Basic, StripeOK, Webhook, SetStatusOfInvoice
  <2>4. ControlOK'
    BY <1>19 DEF Basic, ControlOK, RunSteps, Webhook, SetStatusOfInvoice
  <2>5. RunInv'
    BY <1>19 DEF Basic, RunInv, Working, Charging, ControlOK, Webhook, SetStatusOfInvoice
  <2>6. CalendarInv'
    BY <1>19 DEF Basic, CalendarInv, Webhook, SetStatusOfInvoice
  <2> QED BY <2>1, <2>2, <2>3, <2>4, <2>5, <2>6 DEF Basic
<1>20. ASSUME Crash PROVE Basic'
  <2>1. ClockOK'
    <3>1. crashes' \in 0..MaxCrashes
      BY <1>20 DEF Crash, Basic, ClockOK
    <3>2. lastRunMonth' \in 0..Months + 1
      BY <1>20 DEF Crash
    <3>3. up' \in BOOLEAN
      BY <1>20, Zenon DEF Crash
    <3> QED BY <1>20, <3>1, <3>2, <3>3 DEF Crash, Basic, ClockOK
  <2>2. TablesOK'
    BY <1>20 DEF Basic, TablesOK, Crash
  <2>3. StripeOK'
    BY <1>20 DEF Basic, StripeOK, Crash
  <2>4. ControlOK'
    BY <1>20 DEF Basic, ControlOK, RunSteps, Crash
  <2>5. RunInv'
    BY <1>20 DEF Basic, RunInv, Working, Charging, ControlOK, Crash
  <2>6. CalendarInv'
    BY <1>20 DEF Basic, CalendarInv, Crash
  <2> QED BY <2>1, <2>2, <2>3, <2>4, <2>5, <2>6 DEF Basic
<1>21. ASSUME Boot PROVE Basic'
  <2>1. ClockOK'
    BY <1>21 DEF Basic, ClockOK, Boot
  <2>2. TablesOK'
    BY <1>21 DEF Basic, TablesOK, Boot
  <2>3. StripeOK'
    BY <1>21 DEF Basic, StripeOK, Boot
  <2>4. ControlOK'
    BY <1>21 DEF Basic, ControlOK, RunSteps, Boot
  <2>5. RunInv'
    BY <1>21 DEF Basic, RunInv, Working, Charging, ControlOK, Boot
  <2>6. CalendarInv'
    BY <1>21 DEF Basic, CalendarInv, Boot
  <2> QED BY <2>1, <2>2, <2>3, <2>4, <2>5, <2>6 DEF Basic
<1>22. ASSUME FirstDayEnds PROVE Basic'
  <2>1. ClockOK'
    BY <1>22 DEF Basic, ClockOK, FirstDayEnds
  <2>2. TablesOK'
    BY <1>22 DEF Basic, TablesOK, FirstDayEnds
  <2>3. StripeOK'
    BY <1>22 DEF Basic, StripeOK, FirstDayEnds
  <2>4. ControlOK'
    BY <1>22 DEF Basic, ControlOK, RunSteps, FirstDayEnds
  <2>5. RunInv'
    BY <1>22 DEF Basic, RunInv, Working, Charging, ControlOK, FirstDayEnds
  <2>6. CalendarInv'
    BY <1>22 DEF Basic, CalendarInv, FirstDayEnds
  <2> QED BY <2>1, <2>2, <2>3, <2>4, <2>5, <2>6 DEF Basic
<1>23. ASSUME NextMonth PROVE Basic'
  <2>1. ClockOK'
    BY <1>23 DEF Basic, ClockOK, NextMonth
  <2>2. TablesOK'
    BY <1>23 DEF Basic, TablesOK, NextMonth, ClockOK
  <2>3. StripeOK'
    BY <1>23 DEF Basic, StripeOK, NextMonth, ClockOK
  <2>4. ControlOK'
    BY <1>23 DEF Basic, ControlOK, RunSteps, NextMonth
  <2>5. RunInv'
    BY <1>23 DEF Basic, RunInv, Working, Charging, ControlOK, NextMonth
  <2>6. CalendarInv'
    BY <1>23 DEF Basic, CalendarInv, NextMonth, ClockOK
  <2> QED BY <2>1, <2>2, <2>3, <2>4, <2>5, <2>6 DEF Basic
<1>24. CASE UNCHANGED vars
  BY <1>24 DEF vars, Basic, ClockOK, TablesOK, StripeOK, ControlOK, RunInv, CalendarInv
<1> QED BY <1>1, <1>2, <1>3, <1>4, <1>5, <1>6, <1>7, <1>8, <1>9, <1>10, <1>11, <1>12, <1>13,
   <1>14, <1>15, <1>16, <1>17, <1>18, <1>19, <1>20, <1>21, <1>22, <1>23, <1>24 DEF Next, Step

LEMMA BasicInit == ASSUME Init PROVE Basic
<1>1. ClockOK
  <2>1. month \in 1..Months + 1 /\ lastRunMonth \in 0..Months + 1
        /\ faults \in 0..MaxFaults /\ crashes \in 0..MaxCrashes
    BY BillingAssumption DEF Init
  <2>2. /\ firstDay \in BOOLEAN /\ bootedToday \in BOOLEAN /\ up \in BOOLEAN
        /\ overlapped \in BOOLEAN
    BY Zenon DEF Init
  <2>3. failed = {} /\ missed = {}
    BY DEF Init
  <2> QED BY <2>1, <2>2, <2>3 DEF ClockOK
<1>2. TablesOK
  BY EmptySeq DEF Init, TablesOK
<1>3. StripeOK
  BY EmptySeq DEF Init, StripeOK
<1>4. ControlOK
  BY BillingAssumption DEF Init, ControlOK, RunSteps
<1>5. RunInv /\ CalendarInv
  BY DEF Init, RunInv, CalendarInv, Working, Charging
<1> QED BY <1>1, <1>2, <1>3, <1>4, <1>5 DEF Basic

LEMMA BasicHolds == Spec => []Basic
  BY BasicInit, BasicStep, PTL DEF Spec

(* The calendar, the tables, Stripe's objects and the variables of every   *)
(* run stay in their types.                                                *)
THEOREM BillingTypes == Spec => []TypeOK
<1>1. Basic => TypeOK
  BY DEF Basic, ClockOK, TablesOK, StripeOK, ControlOK, TypeOK
<1> QED BY <1>1, BasicHolds, PTL

-----------------------------------------------------------------------------
(* Only InsertPeriod adds a period, and a period keeps its user and month. *)
SameOwners ==
  /\ Len(periods') = Len(periods)
  /\ \A p \in 1..Len(periods) :
       periods'[p].user = periods[p].user /\ periods'[p].month = periods[p].month

LEMMA OwnersKept ==
  ASSUME Basic, [Next]_vars, \A r \in Runs : ~InsertPeriod(r)
  PROVE  SameOwners
<1>1. CASE periods' = periods
  BY <1>1 DEF SameOwners
<1>2. ASSUME NEW r \in Runs, SaveInvoice(r) PROVE SameOwners
  <2>1. pid[r] \in 1..Len(periods) /\ periods \in Seq(PeriodRecord)
    BY <1>2 DEF SaveInvoice, Basic, RunInv, Charging, TablesOK
  <2>2. periods' = [periods EXCEPT ![pid[r]].status = "invoiced",
                                   ![pid[r]].invoice = inv[r]]
    BY <1>2 DEF SaveInvoice
  <2>3. \A p \in 1..Len(periods) : periods[p] \in PeriodRecord
    BY <2>1, ElementOfSeq
  <2>4. DOMAIN periods' = DOMAIN periods /\ Len(periods') = Len(periods)
    BY <2>1, <2>2, LenProperties, ExceptSeq, BasicStep DEF Basic, TablesOK
  <2> QED BY <2>1, <2>2, <2>3, <2>4 DEF SameOwners, PeriodRecord
<1>3. ASSUME NEW i \in 1..Len(invoices), Webhook(i) PROVE SameOwners
  <2>1. Len(periods) \in Nat /\ \A p \in 1..Len(periods) : periods[p] \in PeriodRecord
    BY LenProperties, ElementOfSeq DEF Basic, TablesOK
  <2>2. PICK s \in {"paid", "failed"} : SetStatusOfInvoice(i, s)
    BY <1>3 DEF Webhook
  <2>3. Len(periods') = Len(periods)
    <3>1. Len(periods') \in Nat /\ DOMAIN periods' = 1..Len(periods')
      BY BasicStep, LenProperties DEF Basic, TablesOK
    <3>2. DOMAIN periods' = 1..Len(periods)
      BY <2>2 DEF SetStatusOfInvoice
    <3> QED BY <2>1, <3>1, <3>2
  <2> QED BY <2>1, <2>2, <2>3 DEF SetStatusOfInvoice, SameOwners, PeriodRecord
<1>4. \/ periods' = periods
      \/ \E r \in Runs : SaveInvoice(r)
      \/ \E i \in 1..Len(invoices) : Webhook(i)
  BY RunNames DEF Next, Step, vars, tables, LoopBegins, LoopFailsToBegin, AdminBegins, Check,
     InsertPeriodFails, AddLineItem, AddLineItemFails, InvoiceGenerated, OpenStripe,
     PostItem, AllItemsPosted, PostInvoice, StripeFails, SaveInvoiceFails, Finish,
     Collect, Crash, Boot, FirstDayEnds, NextMonth
<1> QED BY <1>1, <1>2, <1>3, <1>4

LEMMA BilledStays ==
  ASSUME Basic, [Next]_vars, NEW u, NEW m, Billed(u, m)
  PROVE  Billed(u, m)'
<1>1. CASE \A r \in Runs : ~InsertPeriod(r)
  BY <1>1, OwnersKept DEF Billed, SameOwners
<1>2. ASSUME NEW r \in Runs, InsertPeriod(r) PROVE Billed(u, m)'
  <2>1. Len(periods) \in Nat
    BY LenProperties DEF Basic, TablesOK
  <2>2. Len(periods') = Len(periods) + 1
        /\ \A p \in 1..Len(periods) : periods'[p] = periods[p]
    <3> DEFINE new == [user |-> user[r], month |-> of[r],
                       charge |-> HasCharge(Amounts(r)),
                       status |-> "pending", invoice |-> 0]
    <3>1. periods' = Append(periods, new)
      BY <1>2 DEF InsertPeriod
    <3> HIDE DEF new
    <3>2. periods \in Seq(PeriodRecord \cup {new})
      BY DEF Basic, TablesOK
    <3> QED BY <3>1, <3>2, AppendProperties
  <2> QED BY <2>1, <2>2 DEF Billed
<1> QED BY <1>1, <1>2

-----------------------------------------------------------------------------
(* The variables of a run are its own: no other run's step changes them.   *)
Kept(s) == /\ at'[s] = at[s] /\ of'[s] = of[s] /\ todo'[s] = todo[s] /\ user'[s] = user[s]
           /\ pid'[s] = pid[s] /\ inv'[s] = inv[s]

LEMMA OthersKept ==
  ASSUME Basic, NEW r \in Runs, Step(r) \/ Begin(r), NEW s \in Runs \ {r}
  PROVE  Kept(s)
<1> USE DEF Goto, Kept
<1>1. CASE Begin(r)
  BY <1>1 DEF Begin, Basic, ControlOK
<1>2. CASE Check(r)
  BY <1>2 DEF Check, Basic, ControlOK
<1>3. CASE NextUser(r)
  BY <1>3 DEF NextUser, Basic, ControlOK
<1>4. CASE InsertPeriod(r)
  BY <1>4 DEF InsertPeriod, Basic, ControlOK
<1>5. CASE AddLineItem(r)
  BY <1>5 DEF AddLineItem, Basic, ControlOK
<1>6. CASE InvoiceGenerated(r)
  BY <1>6, <1>3, InvoiceAlternatives DEF Basic, ControlOK
<1>7. CASE OpenStripe(r)
  BY <1>7, <1>3, StripeAlternatives DEF Basic, ControlOK
<1>8. CASE PostItem(r) \/ AllItemsPosted(r) \/ PostInvoice(r)
  BY <1>8 DEF PostItem, AllItemsPosted, PostInvoice, Basic, ControlOK
<1>9. CASE Finish(r)
  BY <1>9 DEF Finish, Basic, ControlOK
<1> QED BY <1>1, <1>2, <1>3, <1>4, <1>5, <1>6, <1>7, <1>8, <1>9
   DEF Step, InsertPeriodFails, AddLineItemFails, StripeFails, SaveInvoice, SaveInvoiceFails

(* Who moves a run: itself, its beginning, or a crash that ends them all.  *)
LEMMA WhoMoves ==
  ASSUME [Next]_vars
  PROVE  \/ \E r \in Runs : Step(r)
         \/ LoopBegins \/ \E r \in Admins : AdminBegins(r)
         \/ Crash
         \/ UNCHANGED <<control, overlapped>>
  BY DEF Next, vars, LoopFailsToBegin, Collect, Webhook, Boot, FirstDayEnds, NextMonth,
     control, history

-----------------------------------------------------------------------------
(* Runs that never overlap: at most one is under way, and the user it has  *)
(* checked has no period yet.                                              *)
OnePeriodPerMonth ==
  \A i, j \in 1..Len(periods) :
    periods[i].user = periods[j].user /\ periods[i].month = periods[j].month => i = j
OneRun == \A r, s \in Runs : at[r] # "idle" /\ at[s] # "idle" => r = s
CheckedIsFree == \A r \in Runs : at[r] = "checked" => ~Billed(user[r], of[r])
Solo == ~overlapped => OneRun /\ CheckedIsFree /\ OnePeriodPerMonth

LEMMA OneRunStep == ASSUME Basic, ~overlapped', Solo, [Next]_vars PROVE ~overlapped /\ OneRun'
<1> USE RunNames, BillingAssumption DEF Goto
<1>1. ASSUME NEW r \in Runs, Begin(r), LoopBegins \/ AdminBegins(r) PROVE ~overlapped /\ OneRun'
  <2>1. ~overlapped /\ \A s \in Runs : at[s] = "idle"
    BY <1>1 DEF Begin
  <2>2. at' = [at EXCEPT ![r] = "next"]
    BY <1>1 DEF Begin
  <2> QED BY <2>1, <2>2 DEF OneRun, Basic, ControlOK
<1>2. ASSUME NEW r \in Runs, Step(r) PROVE ~overlapped /\ OneRun'
  <2>1. at[r] # "idle"
    BY <1>2 DEF Step, Check, InsertPeriod, InsertPeriodFails, AddLineItem, AddLineItemFails,
       InvoiceGenerated, OpenStripe, PostItem, AllItemsPosted, PostInvoice, StripeFails,
       SaveInvoice, SaveInvoiceFails, Finish
  <2>2. overlapped' = overlapped
    BY <1>2 DEF Step, Check, InsertPeriod, InsertPeriodFails, AddLineItem, AddLineItemFails,
       InvoiceGenerated, OpenStripe, PostItem, AllItemsPosted, PostInvoice, StripeFails,
       SaveInvoice, SaveInvoiceFails, Finish, history
  <2>3. \A s \in Runs : s # r => at'[s] = at[s]
    BY <1>2, OthersKept DEF Kept
  <2> QED BY <2>1, <2>2, <2>3 DEF Solo, OneRun
<1>3. CASE UNCHANGED <<control, overlapped>>
  BY <1>3 DEF Solo, OneRun, control
<1>4. CASE Crash
  BY <1>4 DEF Crash, history, OneRun, Solo
<1> QED BY <1>1, <1>2, <1>3, <1>4, WhoMoves DEF LoopBegins, AdminBegins

LEMMA CheckedStep ==
  ASSUME Basic, ~overlapped', Solo, [Next]_vars PROVE CheckedIsFree' /\ OnePeriodPerMonth'
<1> USE RunNames, BillingAssumption DEF Goto
<1>1. ~overlapped /\ OneRun' /\ OneRun /\ CheckedIsFree /\ OnePeriodPerMonth
  BY OneRunStep DEF Solo
<1>2. Len(periods) \in Nat /\ \A p \in 1..Len(periods) : periods[p] \in PeriodRecord
  BY LenProperties, ElementOfSeq DEF Basic, TablesOK
<1>3. ASSUME NEW r \in Runs, InsertPeriod(r) PROVE CheckedIsFree' /\ OnePeriodPerMonth'
  <2> DEFINE new == [user |-> user[r], month |-> of[r],
                     charge |-> HasCharge(Amounts(r)),
                     status |-> "pending", invoice |-> 0]
  <2>1. periods' = Append(periods, new) /\ at[r] = "checked" /\ at' = [at EXCEPT ![r] = "lines"]
    BY <1>3 DEF InsertPeriod
  <2>2. new.user = user[r] /\ new.month = of[r]
    OBVIOUS
  <2> HIDE DEF new
  <2>3. periods \in Seq(PeriodRecord \cup {new})
    BY DEF Basic, TablesOK
  <2>4. /\ Len(periods') = Len(periods) + 1
        /\ \A p \in 1..Len(periods) : periods'[p] = periods[p]
        /\ periods'[Len(periods) + 1] = new
    BY <2>1, <2>3, AppendProperties
  <2>5. \A p \in 1..Len(periods) : ~(periods[p].user = new.user /\ periods[p].month = new.month)
    BY <1>1, <2>1, <2>2 DEF CheckedIsFree, Billed
  <2>6. OnePeriodPerMonth'
    BY <1>1, <1>2, <2>4, <2>5 DEF OnePeriodPerMonth
  <2>7. CheckedIsFree'
    BY <1>1, <2>1 DEF CheckedIsFree, OneRun, Basic, ControlOK
  <2> QED BY <2>6, <2>7
<1>4. CASE \A r \in Runs : ~InsertPeriod(r)
  <2>1. SameOwners
    BY <1>4, OwnersKept
  <2>2. OnePeriodPerMonth'
    BY <1>1, <2>1 DEF SameOwners, OnePeriodPerMonth
  <2>3. \A u, m : Billed(u, m)' => Billed(u, m)
    BY <2>1 DEF SameOwners, Billed
  <2>4. ASSUME NEW r \in Runs, Check(r) PROVE CheckedIsFree'
    <3>1. \A s \in Runs : s # r => at'[s] = at[s] /\ user'[s] = user[s] /\ of'[s] = of[s]
      BY <2>4 DEF Check, Basic, ControlOK
    <3>2. at'[r] = "checked" => ~Billed(user'[r], of'[r])
      <4>1. at[r] = "next" /\ of' = of
        BY <2>4 DEF Check
      <4> QED BY <2>4, <4>1, CheckAlternatives DEF Basic, ControlOK
    <3> QED BY <1>1, <2>3, <3>1, <3>2 DEF CheckedIsFree
  <2>5. ASSUME NEW r \in Runs, Step(r), ~Check(r) PROVE CheckedIsFree'
    <3>1. at'[r] # "checked"
      BY <1>4, <2>5, InvoiceAlternatives, StripeAlternatives DEF Step, InsertPeriodFails,
         AddLineItem, AddLineItemFails, PostItem, AllItemsPosted, PostInvoice, StripeFails,
         SaveInvoice, SaveInvoiceFails, Finish, NextUser, Basic, ControlOK
    <3> QED BY <1>1, <2>3, <2>5, <3>1, OthersKept DEF CheckedIsFree, Kept
  <2>6. ASSUME NEW r \in Runs, Begin(r) PROVE CheckedIsFree'
    <3>1. at'[r] # "checked"
      BY <2>6 DEF Begin, Basic, ControlOK
    <3> QED BY <1>1, <2>3, <2>6, <3>1, OthersKept DEF CheckedIsFree, Kept
  <2>7. CASE Crash
    BY <2>2, <2>7 DEF Crash, CheckedIsFree
  <2>8. CASE UNCHANGED control
    BY <1>1, <2>2, <2>3, <2>8 DEF CheckedIsFree, control
  <2> QED BY <2>2, <2>4, <2>5, <2>6, <2>7, <2>8, WhoMoves DEF LoopBegins, AdminBegins
<1> QED BY <1>3, <1>4

(* While no two runs are under way at once, a user has one period a month  *)
(* (the COUNT before the INSERT of generate_monthly_invoice).              *)
THEOREM NoDuplicatesWithoutOverlap == Spec => []SoloRunsAreUnique
<1>1. Init => Solo
  BY DEF Init, Solo, OneRun, CheckedIsFree, OnePeriodPerMonth
<1>2. Basic /\ Solo /\ [Next]_vars => Solo'
  BY OneRunStep, CheckedStep DEF Solo
<1>3. Solo => SoloRunsAreUnique
  BY DEF Solo, OnePeriodPerMonth, SoloRunsAreUnique
<1> QED BY <1>1, <1>2, <1>3, BasicHolds, PTL DEF Spec

-----------------------------------------------------------------------------
(* Each run fills a period of its own, for its user, without an invoice;   *)
(* the invoice it is about to save is that user's and no period has it yet.*)
OwnPeriod ==
  \A r \in Runs : at[r] \in Charging =>
    /\ periods[pid[r]].user = user[r] /\ periods[pid[r]].invoice = 0
    /\ at[r] = "save" => /\ invoices[inv[r]].user = user[r]
                         /\ \A p \in 1..Len(periods) : periods[p].invoice # inv[r]
    /\ \A s \in Runs \ {r} : /\ at[s] \in Charging => pid[r] # pid[s]
                             /\ at[r] = "save" /\ at[s] = "save" => inv[r] # inv[s]

InvoicesExist == \A p \in 1..Len(periods) : periods[p].invoice \in 0..Len(invoices)

Fates == StatusFollowsStripe /\ OwnPeriod /\ InvoicesExist

(* What a step of run r has to leave alone for OwnPeriod to survive, when  *)
(* r itself does not come to charge a new period or hold a new invoice.    *)
LEMMA OwnPeriodKept ==
  ASSUME Basic, OwnPeriod, NEW r \in Runs, Step(r),
         periods' = periods,
         Len(invoices) \in Nat, Len(invoices') \in Nat, Len(invoices') >= Len(invoices),
         \A i \in 1..Len(invoices) : invoices'[i] = invoices[i],
         \/ at'[r] \notin Charging
         \/ at[r] \in Charging /\ at'[r] # "save"
            /\ pid'[r] = pid[r] /\ user'[r] = user[r]
  PROVE  OwnPeriod'
<1>1. \A s \in Runs \ {r} : Kept(s)
  BY OthersKept
<1>2. \A s \in Runs : at[s] = "save" => invoices'[inv[s]] = invoices[inv[s]]
  BY DEF Basic, RunInv
<1> QED BY <1>1, <1>2 DEF OwnPeriod, Kept, Charging

(* The steps of a run that leave the periods and the collected invoices    *)
(* alone: all but inserting a period, having an invoice made and saving it.*)
LEMMA QuietStep ==
  ASSUME Basic, Fates, NEW r \in Runs, Step(r),
         ~InsertPeriod(r), ~PostInvoice(r), ~SaveInvoice(r)
  PROVE  Fates'
<1> USE BillingAssumption DEF Goto
<1>1. periods' = periods /\ paidOff' = paidOff /\ declined' = declined
  BY DEF Step, Check, InsertPeriodFails, AddLineItem, AddLineItemFails, InvoiceGenerated,
     OpenStripe, PostItem, AllItemsPosted, StripeFails, SaveInvoiceFails, Finish,
     tables, stripe
<1>2. /\ Len(invoices) \in Nat /\ Len(invoices') \in Nat /\ Len(invoices') >= Len(invoices)
      /\ \A i \in 1..Len(invoices) : invoices'[i] = invoices[i]
  <2>1. CASE StripeFails(r)
    BY <2>1, InvoicesOnlyGrow DEF Basic
  <2>2. CASE invoices' = invoices
    BY <2>2, LenProperties DEF Basic, StripeOK
  <2> QED BY <2>1, <2>2 DEF Step, Check, InsertPeriodFails, AddLineItem, AddLineItemFails,
     InvoiceGenerated, OpenStripe, PostItem, AllItemsPosted, SaveInvoiceFails, Finish, stripe
<1>3. \/ at'[r] \notin Charging
      \/ /\ at[r] \in Charging /\ at'[r] # "save"
         /\ pid'[r] = pid[r] /\ user'[r] = user[r]
  <2>1. CASE Check(r)
    BY <2>1, CheckAlternatives DEF Check, Charging, Basic, ControlOK
  <2>2. CASE NextUser(r)
    BY <2>2 DEF NextUser, Charging, Basic, ControlOK
  <2>3. CASE AddLineItem(r)
    BY <2>3 DEF AddLineItem, Charging
  <2>4. CASE InvoiceGenerated(r)
    BY <2>2, <2>4, InvoiceAlternatives DEF InvoiceGenerated, Charging, Basic, ControlOK
  <2>5. CASE OpenStripe(r)
    BY <2>2, <2>5, StripeAlternatives DEF OpenStripe, Charging, Basic, ControlOK
  <2>6. CASE PostItem(r) \/ AllItemsPosted(r)
    BY <2>6 DEF PostItem, AllItemsPosted, Charging, Basic, ControlOK
  <2>7. CASE Finish(r)
    BY <2>7 DEF Finish, Charging, Basic, ControlOK
  <2> QED BY <2>1, <2>2, <2>3, <2>4, <2>5, <2>6, <2>7
     DEF Step, InsertPeriodFails, AddLineItemFails, StripeFails, SaveInvoiceFails
<1>4. OwnPeriod'
  BY <1>1, <1>2, <1>3, OwnPeriodKept DEF Fates
<1>5. InvoicesExist'
  BY <1>1, <1>2 DEF Fates, InvoicesExist
<1>6. StatusFollowsStripe'
  BY <1>1, <1>2 DEF Fates, StatusFollowsStripe, InvoicesExist
<1> QED BY <1>4, <1>5, <1>6 DEF Fates

LEMMA InsertFates ==
  ASSUME Basic, Fates, NEW r \in Runs, InsertPeriod(r) PROVE Fates'
<1> USE BillingAssumption DEF Goto
<1> DEFINE new == [user |-> user[r], month |-> of[r],
                   charge |-> HasCharge(Amounts(r)),
                   status |-> "pending", invoice |-> 0]
<1>1. /\ periods' = Append(periods, new) /\ at[r] = "checked" /\ at' = [at EXCEPT ![r] = "lines"]
      /\ pid' = [pid EXCEPT ![r] = Len(periods) + 1]
      /\ user' = user /\ inv' = inv /\ UNCHANGED stripe
  BY DEF InsertPeriod
<1>2. new.user = user[r] /\ new.status = "pending" /\ new.invoice = 0
  OBVIOUS
<1>3. new \in PeriodRecord
  BY BasicStep, <1>1 DEF Basic, RunInv, Working, PeriodRecord, PeriodStatuses, HasCharge
<1> HIDE DEF new
<1>4. /\ Len(periods) \in Nat /\ Len(periods') = Len(periods) + 1
      /\ \A p \in 1..Len(periods) : periods'[p] = periods[p]
      /\ periods'[Len(periods) + 1] = new
  BY <1>1, <1>3, AppendProperties, LenProperties DEF Basic, TablesOK
<1>5. invoices' = invoices /\ paidOff' = paidOff /\ declined' = declined /\ Len(invoices) \in Nat
  BY <1>1, LenProperties DEF stripe, Basic, StripeOK
<1>6. StatusFollowsStripe'
  <2> DEFINE n == Len(periods) + 1
  <2>1. \A p \in 1..Len(periods') : p = n \/ p \in 1..Len(periods)
    BY <1>4
  <2>2. /\ periods'[n].status = "pending" /\ periods'[n].invoice = 0
        /\ \A p \in 1..Len(periods) : periods'[p] = periods[p]
    BY <1>2, <1>4
  <2> HIDE DEF n
  <2> QED BY <1>5, <2>1, <2>2 DEF Fates, StatusFollowsStripe
<1>7. InvoicesExist'
  BY <1>2, <1>4, <1>5 DEF Fates, InvoicesExist
<1>8. OwnPeriod'
  <2>1. \A s \in Runs \ {r} : Kept(s)
    BY OthersKept DEF Step
  <2>2. \A s \in Runs : at[s] \in Charging => pid[s] \in 1..Len(periods)
                          /\ (at[s] = "save" => inv[s] \in 1..Len(invoices))
    BY DEF Basic, RunInv
  <2>3. at'[r] = "lines" /\ pid'[r] = Len(periods) + 1 /\ user'[r] = user[r]
    BY <1>1 DEF Basic, ControlOK
  <2>4. \A s \in Runs \ {r} : at[s] \in Charging => pid'[s] # pid'[r]
    BY <1>4, <2>1, <2>2, <2>3 DEF Kept
  <2>5. /\ periods'[pid'[r]].user = user'[r] /\ periods'[pid'[r]].invoice = 0
        /\ \A s \in Runs : at[s] \in Charging => periods'[pid[s]] = periods[pid[s]]
    BY <1>2, <1>4, <2>2, <2>3
  <2>6. \A s \in Runs : at[s] = "save" =>
          \A p \in 1..Len(periods') : periods'[p].invoice # inv[s]
    BY <1>2, <1>4, <2>2 DEF Fates, OwnPeriod, Charging
  <2> QED BY <1>5, <2>1, <2>3, <2>4, <2>5, <2>6 DEF Fates, OwnPeriod, Kept, Charging
<1> QED BY <1>6, <1>7, <1>8 DEF Fates

LEMMA InvoiceFates ==
  ASSUME Basic, Fates, NEW r \in Runs, PostInvoice(r) PROVE Fates'
<1> USE BillingAssumption DEF Goto
<1> DEFINE new == [user |-> user[r], items |-> upcoming[user[r]]]
<1>1. /\ invoices' = Append(invoices, new)
      /\ at[r] = "invoice" /\ at' = [at EXCEPT ![r] = "save"]
      /\ inv' = [inv EXCEPT ![r] = Len(invoices) + 1]
      /\ user' = user /\ pid' = pid
      /\ periods' = periods /\ paidOff' = paidOff /\ declined' = declined
  BY DEF PostInvoice, tables
<1>2. new.user = user[r] /\ new \in InvoiceRecord
  BY <1>1 DEF Basic, RunInv, Working, StripeOK, InvoiceRecord
<1> HIDE DEF new
<1>3. /\ Len(invoices) \in Nat /\ Len(invoices') = Len(invoices) + 1
      /\ \A i \in 1..Len(invoices) : invoices'[i] = invoices[i]
      /\ invoices'[Len(invoices) + 1] = new
  BY <1>1, <1>2, AppendProperties, LenProperties DEF Basic, StripeOK
<1>4. StatusFollowsStripe'
  BY <1>1, <1>3 DEF Fates, StatusFollowsStripe, InvoicesExist
<1>5. InvoicesExist'
  BY <1>1, <1>3 DEF Fates, InvoicesExist
<1>6. OwnPeriod'
  <2>1. \A s \in Runs \ {r} : Kept(s)
    BY OthersKept DEF Step
  <2>2. \A s \in Runs : at[s] = "save" => inv[s] \in 1..Len(invoices)
    BY DEF Basic, RunInv
  <2>3. at'[r] = "save" /\ inv'[r] = Len(invoices) + 1
    BY <1>1 DEF Basic, ControlOK
  <2>4. \A p \in 1..Len(periods) : periods[p].invoice # Len(invoices) + 1
    BY <1>3 DEF Fates, InvoicesExist
  <2> QED BY <1>1, <1>2, <1>3, <2>1, <2>2, <2>3, <2>4 DEF Fates, OwnPeriod, Kept, Charging
<1> QED BY <1>4, <1>5, <1>6 DEF Fates

LEMMA SaveFates ==
  ASSUME Basic, Fates, NEW r \in Runs, SaveInvoice(r) PROVE Fates'
<1> USE BillingAssumption DEF Goto
<1>1. /\ periods' = [periods EXCEPT ![pid[r]].status = "invoiced", ![pid[r]].invoice = inv[r]]
      /\ at[r] = "save" /\ NextUser(r)
      /\ invoices' = invoices /\ paidOff' = paidOff /\ declined' = declined
  BY DEF SaveInvoice, stripe
<1>2. /\ pid[r] \in 1..Len(periods) /\ inv[r] \in 1..Len(invoices)
      /\ \A p \in 1..Len(periods) : periods[p] \in PeriodRecord
      /\ Len(invoices) \in Nat
  BY <1>1, ElementOfSeq, LenProperties DEF Basic, RunInv, Charging, TablesOK, StripeOK
<1>3. /\ Len(periods') = Len(periods)
      /\ \A p \in 1..Len(periods) : periods'[p].user = periods[p].user
  BY OwnersKept DEF SameOwners, Next, Step, InsertPeriod, SaveInvoice
<1>4. \A p \in 1..Len(periods) :
        IF p = pid[r] THEN periods'[p].status = "invoiced" /\ periods'[p].invoice = inv[r]
                      ELSE periods'[p] = periods[p]
  <2> DEFINE new == [periods[pid[r]] EXCEPT !.status = "invoiced", !.invoice = inv[r]]
  <2>1. periods' = [periods EXCEPT ![pid[r]] = new]
    BY <1>1, <1>2 DEF Basic, TablesOK
  <2>2. new.status = "invoiced" /\ new.invoice = inv[r] /\ new \in PeriodRecord
    <3>1. inv[r] \in Nat /\ "invoiced" \in PeriodStatuses
      BY DEF Basic, ControlOK, PeriodStatuses
    <3>2. PICK old : old = periods[pid[r]]
      OBVIOUS
    <3>3. old \in PeriodRecord
      BY <1>2, <3>2
    <3>4. [old EXCEPT !.status = "invoiced", !.invoice = inv[r]] \in PeriodRecord
      BY <3>1, <3>3 DEF PeriodRecord
    <3> QED BY <3>1, <3>2, <3>3, <3>4 DEF PeriodRecord
  <2> HIDE DEF new
  <2> QED BY <1>2, <2>1, <2>2, ExceptSeq DEF Basic, TablesOK
<1>5. /\ periods[pid[r]].user = user[r] /\ invoices[inv[r]].user = user[r]
      /\ \A p \in 1..Len(periods) : periods[p].invoice # inv[r]
  BY <1>1 DEF Fates, OwnPeriod, Charging
<1>6. StatusFollowsStripe'
  BY <1>1, <1>2, <1>3, <1>4, <1>5 DEF Fates, StatusFollowsStripe
<1>7. InvoicesExist'
  BY <1>1, <1>2, <1>3, <1>4 DEF Fates, InvoicesExist
<1>8. OwnPeriod'
  <2>1. \A s \in Runs \ {r} : Kept(s)
    BY OthersKept DEF Step
  <2>2. at'[r] = "next"
    BY <1>1 DEF NextUser, Basic, ControlOK
  <2>3. \A s \in Runs \ {r} : at[s] \in Charging =>
          pid[s] # pid[r] /\ pid[s] \in 1..Len(periods) /\ (at[s] = "save" => inv[s] # inv[r])
    BY <1>1 DEF Fates, OwnPeriod, Charging, Basic, RunInv
  <2>4. \A s \in Runs : at'[s] \in Charging =>
          /\ s # r /\ at[s] \in Charging /\ pid'[s] = pid[s] /\ inv'[s] = inv[s]
          /\ user'[s] = user[s] /\ at'[s] = at[s]
    BY <2>1, <2>2 DEF Kept, Charging
  <2>5. \A s \in Runs \ {r} : at[s] \in Charging => periods'[pid[s]] = periods[pid[s]]
    BY <1>4, <2>3
  <2>6. \A s \in Runs \ {r} : at[s] = "save" =>
          \A p \in 1..Len(periods') : periods'[p].invoice # inv[s]
    BY <1>3, <1>4, <2>3 DEF Fates, OwnPeriod, Charging
  <2>7. ASSUME NEW s \in Runs, at'[s] \in Charging
        PROVE  /\ periods'[pid'[s]].user = user'[s] /\ periods'[pid'[s]].invoice = 0
               /\ at'[s] = "save" =>
                    /\ invoices'[inv'[s]].user = user'[s]
                    /\ \A p \in 1..Len(periods') : periods'[p].invoice # inv'[s]
    <3>1. /\ s # r /\ at[s] \in Charging /\ pid'[s] = pid[s] /\ inv'[s] = inv[s]
          /\ user'[s] = user[s] /\ at'[s] = at[s]
      BY <2>4, <2>7
    <3>2. /\ periods[pid[s]].user = user[s] /\ periods[pid[s]].invoice = 0
          /\ at[s] = "save" => invoices[inv[s]].user = user[s]
      BY <3>1 DEF Fates, OwnPeriod
    <3>3. periods'[pid[s]] = periods[pid[s]]
      BY <2>5, <3>1
    <3>4. at'[s] = "save" => \A p \in 1..Len(periods') : periods'[p].invoice # inv'[s]
      BY <2>6, <3>1
    <3> QED BY <1>1, <3>1, <3>2, <3>3, <3>4
  <2>8. ASSUME NEW s \in Runs, at'[s] \in Charging, NEW t \in Runs \ {s}
        PROVE  /\ at'[t] \in Charging => pid'[s] # pid'[t]
               /\ at'[s] = "save" /\ at'[t] = "save" => inv'[s] # inv'[t]
    BY <2>4, <2>8 DEF Fates, OwnPeriod, Charging
  <2> QED BY <2>7, <2>8, Zenon DEF OwnPeriod
<1> QED BY <1>6, <1>7, <1>8 DEF Fates

LEMMA WebhookFates ==
  ASSUME Basic, Fates, NEW i \in 1..Len(invoices), Webhook(i) PROVE Fates'
<1>1. Len(invoices) \in Nat /\ \A p \in 1..Len(periods) : periods[p] \in PeriodRecord
  BY LenProperties, ElementOfSeq DEF Basic, TablesOK, StripeOK
<1>2. PICK s \in {"paid", "failed"} :
        SetStatusOfInvoice(i, s) /\ i \in (IF s = "paid" THEN paidOff ELSE declined)
  BY DEF Webhook
<1>3. UNCHANGED control /\ invoices' = invoices /\ paidOff' = paidOff /\ declined' = declined
  BY DEF Webhook, stripe
<1>4. Len(periods') = Len(periods)
      /\ \A p \in 1..Len(periods) : periods'[p].user = periods[p].user
  <2>1. \A r \in Runs : ~InsertPeriod(r)
    BY <1>1, <1>3 DEF InsertPeriod, Goto, control, Basic, ControlOK
  <2> QED BY <2>1, OwnersKept DEF SameOwners, Next
<1>5. \A p \in 1..Len(periods) :
        /\ periods'[p].invoice = periods[p].invoice
        /\ periods'[p].status = IF periods[p].invoice = i THEN s ELSE periods[p].status
  BY <1>1, <1>2 DEF SetStatusOfInvoice, PeriodRecord
<1>6. StatusFollowsStripe'
  BY <1>1, <1>2, <1>3, <1>4, <1>5 DEF Fates, StatusFollowsStripe
<1>7. InvoicesExist' /\ OwnPeriod'
  BY <1>3, <1>4, <1>5 DEF Fates, InvoicesExist, OwnPeriod, control, Basic, RunInv
<1> QED BY <1>6, <1>7 DEF Fates

LEMMA FatesStep == ASSUME Basic, Fates, [Next]_vars PROVE Fates'
<1>1. ASSUME NEW r \in Runs, Step(r) PROVE Fates'
  BY <1>1, QuietStep, InsertFates, InvoiceFates, SaveFates
<1>2. ASSUME NEW r \in Runs, Begin(r), UNCHANGED <<tables, stripe>> PROVE Fates'
  <2>1. \A s \in Runs \ {r} : Kept(s)
    BY <1>2, OthersKept
  <2>2. at'[r] = "next"
    BY <1>2 DEF Begin, Goto, Basic, ControlOK
  <2> QED BY <1>2, <2>1, <2>2 DEF Fates, StatusFollowsStripe, OwnPeriod, InvoicesExist,
     Kept, Charging, tables, stripe
<1>3. CASE Crash
  BY <1>3 DEF Crash, Fates, StatusFollowsStripe, OwnPeriod, InvoicesExist, Charging,
     tables, stripe
<1>4. ASSUME NEW i \in 1..Len(invoices), Collect(i) PROVE Fates'
  BY <1>4 DEF Collect, Fates, StatusFollowsStripe, OwnPeriod, InvoicesExist, tables, control
<1>5. ASSUME NEW i \in 1..Len(invoices), Webhook(i) PROVE Fates'
  BY <1>5, WebhookFates
<1>6. CASE UNCHANGED <<tables, stripe, control>>
  BY <1>6 DEF Fates, StatusFollowsStripe, OwnPeriod, InvoicesExist, tables, stripe, control
<1>7. CASE LoopBegins \/ \E r \in Admins : AdminBegins(r)
  BY <1>2, <1>7, RunNames DEF LoopBegins, AdminBegins
<1>8. CASE LoopFailsToBegin \/ Boot \/ FirstDayEnds \/ NextMonth \/ UNCHANGED vars
  BY <1>6, <1>8 DEF LoopFailsToBegin, Boot, FirstDayEnds, NextMonth, vars, tables, stripe, control
<1> QED BY <1>1, <1>3, <1>4, <1>5, <1>7, <1>8 DEF Next

(* The status of a period tells of the fate of its own invoice, whatever   *)
(* the runs, the failures and the order of the webhooks.                   *)
THEOREM StatusIsOfTheInvoice == Spec => []StatusFollowsStripe
<1>1. Init => Fates
  BY EmptySeq DEF Init, Fates, StatusFollowsStripe, OwnPeriod, InvoicesExist, Charging
<1>2. Basic /\ Fates /\ [Next]_vars => Fates'
  BY FatesStep
<1>3. Fates => StatusFollowsStripe
  BY DEF Fates
<1> QED BY <1>1, <1>2, <1>3, BasicHolds, PTL DEF Spec

-----------------------------------------------------------------------------
(* A user the background task is done with for month m.                    *)
Covered(u, m) == \/ Billed(u, m) \/ <<u, m>> \in failed \/ Items[u][m] = <<>>

(* While the task runs, every user it has taken off its list is covered or *)
(* in its hands; the month it noted last is covered altogether.            *)
TaskCovers ==
  /\ at[Loop] # "idle" =>
       /\ of[Loop] + 1 = month
       /\ \A u \in Users \ todo[Loop] :
            Covered(u, of[Loop]) \/ (at[Loop] = "checked" /\ user[Loop] = u)
  /\ lastRunMonth # 0 => lastRunMonth >= 2 /\ \A u \in Users : Covered(u, lastRunMonth - 1)

Coverage == TaskCovers /\ FirstDayCovers

LEMMA CoveredStays ==
  ASSUME Basic, [Next]_vars, NEW u, NEW m, Covered(u, m) PROVE Covered(u, m)'
<1>1. failed \subseteq failed'
  BY DEF Next, vars, Step, LoopBegins, LoopFailsToBegin, AdminBegins, Check, InsertPeriod,
     InsertPeriodFails, AddLineItem, AddLineItemFails, InvoiceGenerated, OpenStripe, PostItem,
     AllItemsPosted, PostInvoice, StripeFails, SaveInvoice, SaveInvoiceFails, Finish,
     Collect, Webhook, Crash, Boot, FirstDayEnds, NextMonth, history
<1> QED BY <1>1, BilledStays DEF Covered

LEMMA NotedStays ==
  ASSUME Basic, TaskCovers, [Next]_vars, lastRunMonth' = lastRunMonth, lastRunMonth # 0
  PROVE  lastRunMonth' >= 2 /\ \A u \in Users : Covered(u, lastRunMonth - 1)'
<1>1. PICK n : n = lastRunMonth - 1
  OBVIOUS
<1>2. \A u \in Users : Covered(u, n) => Covered(u, n)'
  BY CoveredStays
<1>3. \A u \in Users : Covered(u, n)' => Covered(u, lastRunMonth - 1)'
  BY <1>1 DEF Covered, Billed
<1> QED BY <1>1, <1>2, <1>3 DEF TaskCovers

(* The steps of the task itself.                                           *)
LEMMA TaskStep ==
  ASSUME Basic, TaskCovers, Step(Loop) PROVE TaskCovers'
<1> USE RunNames, BillingAssumption DEF Goto
<1>1. /\ [Next]_vars /\ at[Loop] # "idle" /\ month' = month
      /\ of[Loop] \in 1..Months /\ of[Loop] + 1 = month /\ month \in 1..Months + 1
  BY DEF Next, Step, Check, InsertPeriod, InsertPeriodFails, AddLineItem, AddLineItemFails,
     InvoiceGenerated, OpenStripe, PostItem, AllItemsPosted, PostInvoice, StripeFails,
     SaveInvoice, SaveInvoiceFails, Finish, calendar, TaskCovers, Basic, RunInv, ClockOK
<1>2. \A u, m : Covered(u, m) => Covered(u, m)'
  BY <1>1, CoveredStays
<1>3. PICK m \in 1..Months : m = of[Loop]
  BY <1>1
<1>4. CASE Finish(Loop)
  <2>1. \A u \in Users : Covered(u, m)
    BY <1>3, <1>4 DEF Finish, TaskCovers
  <2>2. at'[Loop] = "idle" /\ lastRunMonth' = m + 1
    BY <1>3, <1>4 DEF Finish, Basic, ControlOK
  <2>3. lastRunMonth' - 1 = m
    BY <2>2
  <2>4. \A u \in Users : Covered(u, m)'
    BY <1>2, <2>1
  <2>5. \A u \in Users : Covered(u, lastRunMonth - 1)'
    BY <2>3, <2>4 DEF Covered, Billed
  <2> QED BY <2>2, <2>5 DEF TaskCovers
<1>5. ASSUME lastRunMonth' = lastRunMonth, of'[Loop] = m,
             \A u \in Users \ todo'[Loop] :
               Covered(u, m)' \/ (at'[Loop] = "checked" /\ user'[Loop] = u)
      PROVE  TaskCovers'
  <2>2. \A u \in Users \ todo'[Loop] :
          Covered(u, of[Loop])' \/ (at'[Loop] = "checked" /\ user'[Loop] = u)
    BY <1>5 DEF Covered, Billed
  <2> QED BY <1>1, <1>3, <1>5, <2>2, NotedStays DEF TaskCovers
<1>6. CASE Check(Loop)
  <2>1. at[Loop] = "next" /\ of' = of /\ lastRunMonth' = lastRunMonth
    BY <1>6 DEF Check
  <2>2. PICK u \in todo[Loop] :
          /\ todo' = [todo EXCEPT ![Loop] = @ \ {u}]
          /\ \/ Covered(u, m) /\ UNCHANGED <<at, user>>
             \/ at' = [at EXCEPT ![Loop] = "checked"] /\ user' = [user EXCEPT ![Loop] = u]
             \/ failed' = failed \cup {<<u, m>>} /\ UNCHANGED <<at, user>>
    BY <1>3, <1>6, CheckAlternatives DEF Covered
  <2>3. todo'[Loop] = todo[Loop] \ {u}
    BY <2>2 DEF Basic, ControlOK
  <2>4. Covered(u, m)' \/ (at'[Loop] = "checked" /\ user'[Loop] = u)
    <3>1. CASE Covered(u, m)
      BY <1>2, <3>1
    <3>2. CASE failed' = failed \cup {<<u, m>>}
      BY <3>2 DEF Covered
    <3> QED BY <2>2, <3>1, <3>2 DEF Basic, ControlOK
  <2>5. \A v \in Users \ todo[Loop] : Covered(v, m)'
    BY <1>2, <1>3, <2>1 DEF TaskCovers
  <2> QED BY <1>3, <1>5, <2>1, <2>3, <2>4, <2>5
<1>7. CASE at[Loop] = "checked"
  <2>1. PICK u \in Users : u = user[Loop]
    BY <1>7 DEF Basic, RunInv, Working
  <2>2. todo' = todo /\ of' = of /\ lastRunMonth' = lastRunMonth
        /\ (InsertPeriod(Loop) \/ InsertPeriodFails(Loop))
    BY <1>7 DEF Step, Check, InsertPeriod, InsertPeriodFails, AddLineItem, AddLineItemFails,
       InvoiceGenerated, OpenStripe, PostItem, AllItemsPosted, PostInvoice, StripeFails,
       SaveInvoice, SaveInvoiceFails, Finish, NextUser
  <2>3. Covered(u, m)'
    <3>1. CASE InsertPeriodFails(Loop)
      BY <1>3, <2>1, <3>1 DEF InsertPeriodFails, Covered
    <3>2. CASE InsertPeriod(Loop)
      <4> DEFINE new == [user |-> user[Loop], month |-> of[Loop],
                         charge |-> HasCharge(Amounts(Loop)),
                         status |-> "pending", invoice |-> 0]
      <4>1. periods' = Append(periods, new)
        BY <3>2 DEF InsertPeriod
      <4>2. new.user = u /\ new.month = m
        BY <1>3, <2>1
      <4> HIDE DEF new
      <4>3. periods \in Seq(PeriodRecord \cup {new}) /\ Len(periods) \in Nat
        BY LenProperties DEF Basic, TablesOK
      <4>4. Len(periods') = Len(periods) + 1 /\ periods'[Len(periods) + 1] = new
        BY <4>1, <4>3, AppendProperties
      <4>5. Billed(u, m)'
        <5>1. Len(periods) + 1 \in 1..Len(periods')
          BY <4>3, <4>4
        <5>2. periods'[Len(periods) + 1].user = u /\ periods'[Len(periods) + 1].month = m
          BY <4>2, <4>4
        <5> QED BY <5>1, <5>2 DEF Billed
      <4> QED BY <4>5 DEF Covered
    <3> QED BY <2>2, <3>1, <3>2
  <2>4. \A v \in Users \ todo[Loop] : Covered(v, m)'
    <3>1. \A v \in Users \ todo[Loop] : Covered(v, m) \/ v = u
      BY <1>1, <1>3, <2>1 DEF TaskCovers
    <3> QED BY <1>2, <2>3, <3>1
  <2> QED BY <1>3, <1>5, <2>2, <2>4
<1>8. CASE at[Loop] # "checked" /\ todo' = todo /\ of' = of /\ lastRunMonth' = lastRunMonth
  <2>1. \A v \in Users \ todo[Loop] : Covered(v, m)'
    BY <1>1, <1>2, <1>3, <1>8 DEF TaskCovers
  <2> QED BY <1>3, <1>5, <1>8, <2>1
<1>9. ASSUME at[Loop] # "checked", ~Check(Loop), ~Finish(Loop)
      PROVE  todo' = todo /\ of' = of /\ lastRunMonth' = lastRunMonth
  BY <1>9 DEF Step, InsertPeriod, InsertPeriodFails, AddLineItem, AddLineItemFails,
     InvoiceGenerated, OpenStripe, PostItem, AllItemsPosted, PostInvoice, StripeFails,
     SaveInvoice, SaveInvoiceFails, NextUser
<1> QED BY <1>4, <1>6, <1>7, <1>8, <1>9

LEMMA TaskCoversStep ==
  ASSUME Basic, TaskCovers, [Next]_vars PROVE TaskCovers'
<1> USE RunNames, BillingAssumption DEF Goto
<1>1. CASE Step(Loop)
  BY <1>1, TaskStep
<1>2. CASE LoopBegins
  <2>1. /\ at'[Loop] = "next" /\ of'[Loop] = month - 1 /\ todo'[Loop] = Users
        /\ UNCHANGED <<month, lastRunMonth, periods, failed>>
    BY <1>2 DEF LoopBegins, Begin, calendar, tables, Basic, ControlOK
  <2> QED BY <2>1, NotedStays DEF TaskCovers, Basic, ClockOK
<1>3. CASE Crash
  BY <1>3 DEF Crash, TaskCovers, calendar
<1>4. ASSUME Kept(Loop), lastRunMonth' = lastRunMonth,
             month' = month \/ at[Loop] = "idle"
      PROVE  TaskCovers'
  <2>1. at[Loop] # "idle" => of[Loop] + 1 = month /\ month' = month
    BY <1>4 DEF TaskCovers
  <2>2. ASSUME at[Loop] # "idle", NEW u \in Users \ todo[Loop]
        PROVE  Covered(u, of[Loop])' \/ (at[Loop] = "checked" /\ user[Loop] = u)
    <3>1. PICK m : m = of[Loop]
      OBVIOUS
    <3>2. Covered(u, m) \/ (at[Loop] = "checked" /\ user[Loop] = u)
      BY <2>2, <3>1 DEF TaskCovers
    <3>3. Covered(u, m) => Covered(u, m)'
      BY CoveredStays
    <3>4. Covered(u, m)' => Covered(u, of[Loop])'
      BY <1>4, <3>1 DEF Covered, Billed, Kept
    <3> QED BY <3>2, <3>3, <3>4
  <2> QED BY <1>4, <2>1, <2>2, NotedStays DEF TaskCovers, Kept
<1>5. ASSUME NEW r \in Runs \ {Loop}, Step(r) \/ AdminBegins(r) PROVE TaskCovers'
  <2>1. lastRunMonth' = lastRunMonth /\ month' = month
    BY <1>5 DEF AdminBegins, Step, Check, InsertPeriod, InsertPeriodFails, AddLineItem,
       AddLineItemFails, InvoiceGenerated, OpenStripe, PostItem, AllItemsPosted,
       PostInvoice, StripeFails, SaveInvoice, SaveInvoiceFails, Finish, calendar
  <2> QED BY <1>4, <1>5, <2>1, OthersKept DEF AdminBegins
<1>6. CASE UNCHANGED <<control, lastRunMonth>> /\ (month' = month \/ at[Loop] = "idle")
  BY <1>4, <1>6 DEF control, Kept
<1> QED BY <1>1, <1>2, <1>3, <1>5, <1>6 DEF Next, vars, LoopFailsToBegin, Collect, Webhook,
   Boot, FirstDayEnds, NextMonth, Runs, control, calendar

LEMMA FirstDayStep ==
  ASSUME Basic, Coverage, [Next]_vars PROVE FirstDayCovers'
<1> USE BillingAssumption
<1> SUFFICES ASSUME NEW m \in 1..Months, NEW u \in Users,
                    FirstDayOver(m + 1)', m + 1 \notin missed',
                    <<u, m>> \notin failed', Items[u][m] # <<>>
             PROVE  Billed(u, m)'
  BY DEF FirstDayCovers
<1>1. Covered(u, m) => Billed(u, m)'
  BY CoveredStays DEF Covered
<1>2. CASE FirstDayOver(m + 1) /\ m + 1 \notin missed
  BY <1>1, <1>2 DEF Coverage, FirstDayCovers, Covered
<1>3. CASE FirstDayEnds /\ m + 1 = month
  <2>1. lastRunMonth = m + 1
    BY <1>3 DEF FirstDayEnds, LoopDue, Basic, ClockOK
  <2>2. lastRunMonth - 1 = m /\ lastRunMonth # 0
    BY <2>1
  <2>3. Covered(u, m)
    BY <2>2 DEF Coverage, TaskCovers
  <2> QED BY <1>1, <2>3
<1>4. CASE NextMonth
  BY <1>2, <1>4 DEF NextMonth, FirstDayOver, Basic, ClockOK, history
<1>5. CASE FirstDayEnds /\ m + 1 # month
  BY <1>2, <1>5 DEF FirstDayEnds, FirstDayOver, Basic, ClockOK
<1>6. CASE month' = month /\ firstDay' = firstDay /\ missed' = missed
  BY <1>2, <1>6 DEF FirstDayOver
<1>7. FirstDayEnds \/ NextMonth \/ (month' = month /\ firstDay' = firstDay /\ missed' = missed)
  BY DEF Next, vars, Step, LoopBegins, LoopFailsToBegin, AdminBegins, Check, InsertPeriod,
     InsertPeriodFails, AddLineItem, AddLineItemFails, InvoiceGenerated, OpenStripe, PostItem,
     AllItemsPosted, PostInvoice, StripeFails, SaveInvoice, SaveInvoiceFails, Finish,
     Collect, Webhook, Crash, Boot, calendar, history
<1> QED BY <1>3, <1>4, <1>5, <1>6, <1>7

(* Once the first of a month is over and the background task completed its *)
(* run on it, every user with line items has a period, but those whose own *)
(* statements failed: no failure of another, and no crash, costs a period. *)
THEOREM EveryUserIsBilled == Spec => []FirstDayCovers
<1>1. Init => Coverage
  BY RunNames, BillingAssumption DEF Init, Coverage, TaskCovers, FirstDayCovers, FirstDayOver
<1>2. Basic /\ Coverage /\ [Next]_vars => Coverage'
  BY TaskCoversStep, FirstDayStep DEF Coverage
<1>3. Coverage => FirstDayCovers
  BY DEF Coverage
<1> QED BY <1>1, <1>2, <1>3, BasicHolds, PTL DEF Spec

-----------------------------------------------------------------------------
(* Line items at Stripe: x waits for the customer's next invoice, or is on *)
(* an invoice.                                                             *)
Waits(u, x)     == \E n \in 1..Len(upcoming[u]) : upcoming[u][n] = x
OnInvoice(i, x) == \E n \in 1..Len(invoices[i].items) : invoices[i].items[n] = x
Sent(u, x)      == Waits(u, x) \/ \E i \in 1..Len(invoices) : invoices[i].user = u /\ OnInvoice(i, x)
Distinct(q)     == \A m, n \in 1..Len(q) : q[m] = q[n] => m = n

Once ==
  /\ \A u \in Users : Distinct(upcoming[u])
  /\ \A i \in 1..Len(invoices) : Distinct(invoices[i].items)
  /\ \A u \in Users, i \in 1..Len(invoices), x \in Line : ~(Waits(u, x) /\ OnInvoice(i, x))
  /\ \A i, j \in 1..Len(invoices), x \in Line : OnInvoice(i, x) /\ OnInvoice(j, x) => i = j

OfTheCustomer ==
  \A u \in Users, x \in Line : Sent(u, x) =>
    x[1] \in 1..Len(periods) /\ periods[x[1]].user = u /\ x[2] \in 1..lines[x[1]]

(* A run sends the items of its period in order, and nobody else does.     *)
NotYetSent ==
  \A r \in Runs, u \in Users, x \in Line : Sent(u, x) /\ x[1] = pid[r] =>
    /\ at[r] \notin {"lines", "stripe"}
    /\ at[r] = "items" => x[2] <= k[r]

Charges == Once /\ OfTheCustomer /\ NotYetSent

LEMMA AppendLine ==
  ASSUME NEW q \in Seq(Line), NEW x \in Line
  PROVE  /\ Append(q, x) \in Seq(Line)
         /\ \A y : (\E n \in 1..Len(Append(q, x)) : Append(q, x)[n] = y)
                     <=> (\E n \in 1..Len(q) : q[n] = y) \/ y = x
         /\ Distinct(q) /\ ~(\E n \in 1..Len(q) : q[n] = x) => Distinct(Append(q, x))
<1>1. /\ Append(q, x) \in Seq(Line) /\ Len(q) \in Nat /\ Len(Append(q, x)) = Len(q) + 1
      /\ \A n \in 1..Len(q) : Append(q, x)[n] = q[n]
      /\ Append(q, x)[Len(q) + 1] = x
  BY AppendProperties, LenProperties
<1> DEFINE z == Append(q, x)
<1>2. z \in Seq(Line) /\ Len(z) = Len(q) + 1 /\ (\A n \in 1..Len(q) : z[n] = q[n])
      /\ z[Len(q) + 1] = x
  BY <1>1
<1> HIDE DEF z
<1>3. \A n \in 1..Len(z) : n \in 1..Len(q) \/ n = Len(q) + 1
  BY <1>1, <1>2
<1>4. \A n \in 1..Len(q) : n \in 1..Len(z) /\ n # Len(q) + 1
  BY <1>1, <1>2
<1>5. Len(q) + 1 \in 1..Len(z)
  BY <1>1, <1>2
<1>6. \A y : (\E n \in 1..Len(z) : z[n] = y) <=> (\E n \in 1..Len(q) : q[n] = y) \/ y = x
  BY <1>2, <1>3, <1>4, <1>5
<1>7. Distinct(q) /\ ~(\E n \in 1..Len(q) : q[n] = x) => Distinct(z)
  BY <1>2, <1>3, <1>4 DEF Distinct
<1> QED BY <1>2, <1>6, <1>7 DEF z

(* What the types say of line items at Stripe.                             *)
LEMMA LinesAtStripe ==
  ASSUME Basic
  PROVE  /\ \A u \in Users : upcoming[u] \in Seq(Line)
         /\ \A i \in 1..Len(invoices) : invoices[i].items \in Seq(Line) /\ invoices[i].user \in Users
         /\ \A u \in Users : \A n \in 1..Len(upcoming[u]) : upcoming[u][n] \in Line
         /\ \A i \in 1..Len(invoices) : \A n \in 1..Len(invoices[i].items) :
              invoices[i].items[n] \in Line
         /\ Len(invoices) \in Nat /\ Len(periods) \in Nat
<1>1. \A i \in 1..Len(invoices) : invoices[i] \in InvoiceRecord
  BY ElementOfSeq DEF Basic, StripeOK
<1>2. /\ \A u \in Users : upcoming[u] \in Seq(Line)
      /\ \A i \in 1..Len(invoices) : invoices[i].items \in Seq(Line) /\ invoices[i].user \in Users
  BY <1>1 DEF Basic, StripeOK, InvoiceRecord
<1>3. Len(invoices) \in Nat /\ Len(periods) \in Nat
  BY LenProperties DEF Basic, StripeOK, TablesOK
<1> QED BY <1>2, <1>3, ElementOfSeq

(* Nothing is sent: periods keep their users, and lines are only added.    *)
LEMMA NothingSent ==
  ASSUME Basic, Charges, upcoming' = upcoming, invoices' = invoices,
         Len(periods') \in Nat, Len(periods') >= Len(periods),
         \A p \in 1..Len(periods) : periods'[p].user = periods[p].user
                                    /\ lines[p] \in Nat /\ lines'[p] \in Nat /\ lines'[p] >= lines[p]
  PROVE  /\ Once' /\ OfTheCustomer'
         /\ \A u, x : Sent(u, x)' <=> Sent(u, x)
<1>1. \A u, x : Sent(u, x)' <=> Sent(u, x)
  BY DEF Sent, Waits, OnInvoice
<1>2. Once'
  BY DEF Charges, Once, Waits, OnInvoice
<1>3. OfTheCustomer'
  <2>1. SUFFICES ASSUME NEW u \in Users, NEW x \in Line, Sent(u, x)'
                 PROVE  x[1] \in 1..Len(periods') /\ periods'[x[1]].user = u /\ x[2] \in 1..lines'[x[1]]
    BY DEF OfTheCustomer
  <2>2. x[1] \in 1..Len(periods) /\ periods[x[1]].user = u /\ x[2] \in 1..lines[x[1]]
    BY <1>1, <2>1 DEF Charges, OfTheCustomer
  <2> QED BY <2>2, LinesAtStripe
<1> QED BY <1>1, <1>2, <1>3

(* An item is sent: it is a new one, and its customer's.                   *)
LEMMA ItemSent ==
  ASSUME Basic, Fates, Charges, NEW r \in Runs, at[r] = "items", k[r] < lines[pid[r]],
         upcoming' = [upcoming EXCEPT ![user[r]] = Append(@, <<pid[r], k[r] + 1>>)],
         invoices' = invoices, UNCHANGED tables
  PROVE  /\ Once' /\ OfTheCustomer'
         /\ \A u \in Users, x \in Line :
              Sent(u, x)' <=> Sent(u, x) \/ (u = user[r] /\ x = <<pid[r], k[r] + 1>>)
<1>0. PICK me, new : me = user[r] /\ new = <<pid[r], k[r] + 1>>
  OBVIOUS
<1>1. /\ me \in Users /\ pid[r] \in 1..Len(periods) /\ k[r] \in Nat /\ lines[pid[r]] \in Nat
      /\ new \in Line /\ new[1] = pid[r] /\ new[2] = k[r] + 1
  <2>1. me \in Users /\ pid[r] \in 1..Len(periods) /\ k[r] \in Nat
    BY <1>0 DEF Basic, RunInv, Working, Charging, ControlOK
  <2>2. lines[pid[r]] \in Nat
    BY <2>1, ElementOfSeq DEF Basic, TablesOK
  <2> QED BY <1>0, <2>1, <2>2, LinesAtStripe DEF Line
<1>2. new[2] \in 1..lines[pid[r]] /\ ~(new[2] <= k[r])
  BY <1>1
<1>3. \A u \in Users : ~Sent(u, new)
  BY <1>1, <1>2 DEF Charges, NotYetSent
<1>4. /\ upcoming'[me] = Append(upcoming[me], new)
      /\ \A u \in Users \ {me} : upcoming'[u] = upcoming[u]
  BY <1>0, <1>1 DEF Basic, StripeOK
<1>5. periods[pid[r]].user = me
  BY <1>0 DEF Fates, OwnPeriod, Charging
<1>6. \A u \in Users, x \in Line : Waits(u, x)' <=> Waits(u, x) \/ (u = me /\ x = new)
  <2>1. \A x : Waits(me, x)' <=> Waits(me, x) \/ x = new
    <3>1. upcoming[me] \in Seq(Line)
      BY <1>1, LinesAtStripe
    <3>2. \A x : (\E n \in 1..Len(Append(upcoming[me], new)) : Append(upcoming[me], new)[n] = x)
                   <=> (\E n \in 1..Len(upcoming[me]) : upcoming[me][n] = x) \/ x = new
      BY <1>1, <3>1, AppendLine
    <3> QED BY <1>4, <3>2 DEF Waits
  <2>2. \A u \in Users \ {me} : \A x : Waits(u, x)' <=> Waits(u, x)
    BY <1>4 DEF Waits
  <2> QED BY <2>1, <2>2
<1>7. \A i, x : OnInvoice(i, x)' <=> OnInvoice(i, x)
  BY DEF OnInvoice
<1>8. \A u \in Users, x \in Line : Sent(u, x)' <=> Sent(u, x) \/ (u = me /\ x = new)
  BY <1>6, <1>7 DEF Sent
<1>9. Once'
  <2>1. ASSUME NEW u \in Users PROVE Distinct(upcoming'[u])
    <3>1. CASE u = me
      <4>1. upcoming[me] \in Seq(Line) /\ Distinct(upcoming[me])
        BY <1>1, LinesAtStripe DEF Charges, Once
      <4>2. ~(\E n \in 1..Len(upcoming[me]) : upcoming[me][n] = new)
        BY <1>1, <1>3 DEF Sent, Waits
      <4>3. Distinct(Append(upcoming[me], new))
        BY <1>1, <4>1, <4>2, AppendLine
      <4> QED BY <1>4, <3>1, <4>3
    <3>2. CASE u # me
      BY <3>2, <1>4 DEF Charges, Once
    <3> QED BY <3>1, <3>2
  <2>2. \A i \in 1..Len(invoices) : ~OnInvoice(i, new)
    BY <1>3, LinesAtStripe DEF Sent
  <2>3. \A u \in Users, i \in 1..Len(invoices), x \in Line : ~(Waits(u, x)' /\ OnInvoice(i, x)')
    BY <1>6, <1>7, <2>2 DEF Charges, Once
  <2>4. \A i, j \in 1..Len(invoices), x \in Line : OnInvoice(i, x)' /\ OnInvoice(j, x)' => i = j
    BY <1>7 DEF Charges, Once
  <2>5. \A i \in 1..Len(invoices) : Distinct(invoices'[i].items)
    BY DEF Charges, Once
  <2> QED BY <2>1, <2>3, <2>4, <2>5 DEF Once
<1>10. OfTheCustomer'
  <2>1. UNCHANGED <<periods, lines>>
    BY DEF tables
  <2> QED BY <1>1, <1>2, <1>5, <1>8, <2>1 DEF Charges, OfTheCustomer
<1> QED BY <1>0, <1>8, <1>9, <1>10

(* The items that wait come to an invoice of their own.                    *)
LEMMA InvoiceMade ==
  ASSUME Basic, Charges, NEW me \in Users,
         invoices' = Append(invoices, [user |-> me, items |-> upcoming[me]]),
         upcoming' = [upcoming EXCEPT ![me] = <<>>],
         UNCHANGED tables
  PROVE  /\ Once' /\ OfTheCustomer'
         /\ \A u \in Users, x \in Line : Sent(u, x)' <=> Sent(u, x)
<1> DEFINE new == [user |-> me, items |-> upcoming[me]]
<1>0. PICK n : n = Len(invoices) + 1
  OBVIOUS
<1>1. new \in InvoiceRecord /\ new.user = me /\ new.items = upcoming[me]
  BY LinesAtStripe DEF InvoiceRecord
<1>2. /\ Len(invoices) \in Nat /\ Len(invoices') = Len(invoices) + 1
      /\ \A i \in 1..Len(invoices) : invoices'[i] = invoices[i]
      /\ invoices'[Len(invoices) + 1] = new
  BY <1>1, AppendProperties, LenProperties DEF Basic, StripeOK
<1>3. \A i \in 1..Len(invoices') : i \in 1..Len(invoices) \/ i = n
  BY <1>0, <1>2
<1>4. n \in 1..Len(invoices') /\ n \notin 1..Len(invoices)
      /\ \A i \in 1..Len(invoices) : i \in 1..Len(invoices')
  BY <1>0, <1>2
<1>5. invoices'[n].user = me /\ invoices'[n].items = upcoming[me]
  BY <1>0, <1>1, <1>2
<1>6. /\ upcoming'[me] = <<>>
      /\ \A u \in Users \ {me} : upcoming'[u] = upcoming[u]
  BY DEF Basic, StripeOK
<1>7. \A i \in 1..Len(invoices) : invoices'[i] = invoices[i]
  BY <1>2
<1> HIDE DEF new
<1>8. /\ \A x : ~Waits(me, x)'
      /\ \A u \in Users \ {me} : \A x : Waits(u, x)' <=> Waits(u, x)
  <2>1. Len(upcoming'[me]) = 0
    BY <1>6
  <2> QED BY <1>6, <2>1 DEF Waits
<1>9. /\ \A x : OnInvoice(n, x)' <=> Waits(me, x)
      /\ \A i \in 1..Len(invoices) : \A x : OnInvoice(i, x)' <=> OnInvoice(i, x)
  BY <1>5, <1>7 DEF Waits, OnInvoice
<1>10. \A u \in Users, x \in Line : Sent(u, x)' <=> Sent(u, x)
  <2>1. ASSUME NEW u \in Users, NEW x \in Line, Sent(u, x) PROVE Sent(u, x)'
    BY <2>1, <1>4, <1>5, <1>7, <1>8, <1>9 DEF Sent
  <2>2. ASSUME NEW u \in Users, NEW x \in Line, Sent(u, x)' PROVE Sent(u, x)
    BY <2>2, <1>3, <1>5, <1>7, <1>8, <1>9 DEF Sent
  <2> QED BY <2>1, <2>2
<1>11. Once'
  <2>1. \A u \in Users : Distinct(upcoming'[u])
    <3>1. Distinct(upcoming'[me])
      BY <1>6 DEF Distinct
    <3>2. \A u \in Users \ {me} : Distinct(upcoming'[u])
      BY <1>6 DEF Charges, Once
    <3> QED BY <3>1, <3>2
  <2>2. \A i \in 1..Len(invoices') : Distinct(invoices'[i].items)
    BY <1>3, <1>5, <1>7 DEF Charges, Once
  <2>3. ASSUME NEW u \in Users, NEW v \in Users, u # v, NEW x \in Line, Waits(u, x)
        PROVE  ~Waits(v, x)
    BY <2>3 DEF Charges, OfTheCustomer, Sent
  <2>4. ASSUME NEW u \in Users, NEW i \in 1..Len(invoices'), NEW x \in Line,
               Waits(u, x)', OnInvoice(i, x)'
        PROVE  FALSE
    <3>1. u # me /\ Waits(u, x)
      BY <1>8, <2>4
    <3>2. CASE i = n
      BY <1>9, <2>3, <2>4, <3>1, <3>2
    <3>3. CASE i \in 1..Len(invoices)
      BY <1>9, <2>4, <3>1, <3>3 DEF Charges, Once
    <3> QED BY <1>3, <3>2, <3>3
  <2>5. ASSUME NEW i \in 1..Len(invoices'), NEW j \in 1..Len(invoices'), NEW x \in Line,
               OnInvoice(i, x)', OnInvoice(j, x)'
        PROVE  i = j
    BY <1>3, <1>9, <2>5 DEF Charges, Once
  <2> QED BY <2>1, <2>2, <2>4, <2>5 DEF Once
<1>12. OfTheCustomer'
  BY <1>10 DEF Charges, OfTheCustomer, tables
<1> QED BY <1>10, <1>11, <1>12

LEMMA CountsKept ==
  ASSUME Basic, NEW r \in Runs, Step(r) \/ Begin(r), NEW s \in Runs \ {r}
  PROVE  k'[s] = k[s]
<1>1. CASE NextUser(r)
  BY <1>1 DEF NextUser, Basic, ControlOK
<1>2. CASE Begin(r) \/ Check(r) \/ InsertPeriod(r) \/ AddLineItem(r)
  BY <1>2 DEF Begin, Check, InsertPeriod, AddLineItem, Basic, ControlOK
<1>3. CASE InvoiceGenerated(r)
  BY <1>3, <1>1, InvoiceAlternatives DEF Basic, ControlOK
<1>4. CASE OpenStripe(r)
  BY <1>4, <1>1, StripeAlternatives DEF Basic, ControlOK
<1>5. CASE PostItem(r) \/ AllItemsPosted(r) \/ PostInvoice(r) \/ Finish(r)
  BY <1>5 DEF PostItem, AllItemsPosted, PostInvoice, Finish, Basic, ControlOK
<1> QED BY <1>1, <1>2, <1>3, <1>4, <1>5
   DEF Step, InsertPeriodFails, AddLineItemFails, StripeFails, SaveInvoice, SaveInvoiceFails

(* A step of run r concerns no other run, when it sends but its own items. *)
LEMMA OthersNotYetSent ==
  ASSUME Basic, Fates, Charges, NEW r \in Runs, Step(r) \/ Begin(r),
         \A u \in Users, x \in Line :
           Sent(u, x)' => Sent(u, x) \/ (at[r] = "items" /\ x[1] = pid[r]),
         \A u \in Users, x \in Line : Sent(u, x)' /\ x[1] = pid'[r] =>
           /\ at'[r] \notin {"lines", "stripe"}
           /\ at'[r] = "items" => x[2] <= k'[r]
  PROVE  NotYetSent'
<1>1. ASSUME NEW s \in Runs \ {r}, NEW u \in Users, NEW x \in Line, Sent(u, x)', x[1] = pid'[s]
      PROVE  /\ at'[s] \notin {"lines", "stripe"}
             /\ at'[s] = "items" => x[2] <= k'[s]
  <2>1. at'[s] = at[s] /\ pid'[s] = pid[s] /\ k'[s] = k[s]
    BY OthersKept, CountsKept DEF Kept
  <2>2. CASE Sent(u, x)
    BY <1>1, <2>1, <2>2 DEF Charges, NotYetSent
  <2>3. CASE at[r] = "items" /\ x[1] = pid[r]
    BY <1>1, <2>1, <2>3 DEF Fates, OwnPeriod, Charging
  <2> QED BY <1>1, <2>2, <2>3
<1> QED BY <1>1 DEF NotYetSent

LEMMA LinesGrow ==
  ASSUME Basic, [Next]_vars
  PROVE  /\ Len(periods') \in Nat /\ Len(periods) \in Nat /\ Len(periods') >= Len(periods)
         /\ \A p \in 1..Len(periods) : /\ periods'[p].user = periods[p].user
                                       /\ periods'[p].month = periods[p].month
                                       /\ lines[p] \in Nat /\ lines'[p] \in Nat /\ lines'[p] >= lines[p]
<1> USE DEF Goto
<1>1. Len(periods') \in Nat /\ Len(periods) \in Nat /\ Len(lines) = Len(periods)
      /\ Len(lines') = Len(periods')
  BY BasicStep, LenProperties DEF Basic, TablesOK
<1>2. /\ Len(periods') >= Len(periods)
      /\ \A p \in 1..Len(periods) : periods'[p].user = periods[p].user
                                    /\ periods'[p].month = periods[p].month
  <2>1. CASE \A r \in Runs : ~InsertPeriod(r)
    BY <2>1, <1>1, OwnersKept DEF SameOwners
  <2>2. ASSUME NEW r \in Runs, InsertPeriod(r)
        PROVE  /\ Len(periods') >= Len(periods)
               /\ \A p \in 1..Len(periods) : periods'[p] = periods[p]
    <3> DEFINE new == [user |-> user[r], month |-> of[r],
                       charge |-> HasCharge(Amounts(r)),
                       status |-> "pending", invoice |-> 0]
    <3>1. periods' = Append(periods, new)
      BY <2>2 DEF InsertPeriod
    <3> HIDE DEF new
    <3>2. periods \in Seq(PeriodRecord \cup {new})
      BY DEF Basic, TablesOK
    <3> QED BY <1>1, <3>1, <3>2, AppendProperties
  <2> QED BY <2>1, <2>2
<1>3. \A p \in 1..Len(periods) : lines[p] \in Nat /\ lines'[p] \in Nat
  BY <1>1, <1>2, BasicStep, ElementOfSeq DEF Basic, TablesOK
<1>4. \A p \in 1..Len(periods) : lines'[p] >= lines[p]
  <2>1. CASE lines' = lines
    BY <1>3, <2>1
  <2>2. CASE lines' = Append(lines, 0)
    BY <1>1, <1>3, <2>2, AppendProperties DEF Basic, TablesOK
  <2>3. ASSUME NEW r \in Runs, AddLineItem(r)
        PROVE  \A p \in 1..Len(periods) : lines'[p] >= lines[p]
    <3>1. pid[r] \in 1..Len(lines)
      BY <1>1, <2>3 DEF AddLineItem, Basic, RunInv, Charging
    <3>2. \A p \in 1..Len(periods) : lines'[p] = IF p = pid[r] THEN lines[p] + 1 ELSE lines[p]
      BY <1>1, <2>3, <3>1 DEF AddLineItem, Basic, TablesOK
    <3> QED BY <1>3, <3>2
  <2>4. lines' = lines \/ lines' = Append(lines, 0) \/ \E r \in Runs : AddLineItem(r)
    BY RunNames DEF Next, Step, vars, tables, LoopBegins, LoopFailsToBegin, AdminBegins, Check,
       InsertPeriod, InsertPeriodFails, AddLineItemFails, InvoiceGenerated, OpenStripe,
       PostItem, AllItemsPosted, PostInvoice, StripeFails, SaveInvoice, SaveInvoiceFails, Finish,
       Collect, Webhook, Crash, Boot, FirstDayEnds, NextMonth
  <2> QED BY <2>1, <2>2, <2>3, <2>4
<1> QED BY <1>1, <1>2, <1>3, <1>4

LEMMA ChargesStep == ASSUME Basic, Fates, Charges, [Next]_vars PROVE Charges'
<1> USE DEF Goto
<1>1. ASSUME upcoming' = upcoming, invoices' = invoices
      PROVE  /\ Once' /\ OfTheCustomer'
             /\ \A u, x : Sent(u, x)' <=> Sent(u, x)
  BY <1>1, LinesGrow, NothingSent
<1>2. ASSUME NEW r \in Runs, PostItem(r) \/ StripeFails(r) PROVE Charges'
  <2> DEFINE new == <<pid[r], k[r] + 1>>
  <2>1. /\ at[r] \in {"items", "invoice"} /\ UNCHANGED tables
        /\ at[r] = "items" => k[r] < lines[pid[r]]
        /\ \/ upcoming' = upcoming /\ invoices' = invoices
           \/ /\ at[r] = "items" /\ invoices' = invoices
              /\ upcoming' = [upcoming EXCEPT ![user[r]] = Append(@, new)]
           \/ /\ at[r] = "invoice" /\ upcoming' = [upcoming EXCEPT ![user[r]] = <<>>]
              /\ invoices' = Append(invoices, [user |-> user[r], items |-> upcoming[user[r]]])
    BY <1>2 DEF PostItem, StripeFails, tables
  <2>2. /\ user[r] \in Users /\ k[r] \in Nat
        /\ new[1] = pid[r] /\ new[2] = k[r] + 1
    BY <2>1 DEF Basic, RunInv, Working, ControlOK
  <2> HIDE DEF new
  <2>3. /\ Once' /\ OfTheCustomer'
        /\ \A u \in Users, x \in Line :
             Sent(u, x)' => Sent(u, x) \/ (at[r] = "items" /\ x = new)
    BY <1>1, <2>1, <2>2, ItemSent, InvoiceMade DEF new
  <2>4. CASE StripeFails(r)
    <3>1. at'[r] = "next"
      BY <2>4 DEF StripeFails, NextUser, Basic, ControlOK
    <3> QED BY <2>2, <2>3, <2>4, <3>1, OthersNotYetSent DEF Charges, Step
  <2>5. CASE PostItem(r)
    <3>1. /\ at[r] = "items" /\ at'[r] = "items" /\ pid'[r] = pid[r] /\ k'[r] = k[r] + 1
      BY <2>5 DEF PostItem, Basic, ControlOK
    <3>2. \A u \in Users, x \in Line : Sent(u, x)' /\ x[1] = pid[r] => x[2] <= k[r] + 1
      <4>1. ASSUME NEW u \in Users, NEW x \in Line, Sent(u, x), x[1] = pid[r]
            PROVE  x[2] <= k[r] + 1
        BY <2>2, <3>1, <4>1 DEF Charges, NotYetSent, Line
      <4> QED BY <2>2, <2>3, <4>1
    <3> QED BY <2>2, <2>3, <2>5, <3>1, <3>2, OthersNotYetSent DEF Charges, Step
  <2> QED BY <1>2, <2>4, <2>5
<1>3. ASSUME NEW r \in Runs, PostInvoice(r) PROVE Charges'
  <2>1. user[r] \in Users /\ at'[r] = "save"
    BY <1>3 DEF PostInvoice, Basic, RunInv, Working, ControlOK
  <2>2. Once' /\ OfTheCustomer' /\ \A u \in Users, x \in Line : Sent(u, x)' <=> Sent(u, x)
    BY <1>3, <2>1, InvoiceMade DEF PostInvoice
  <2> QED BY <1>3, <2>1, <2>2, OthersNotYetSent DEF Charges, Step
<1>4. ASSUME NEW r \in Runs, Step(r) \/ Begin(r), upcoming' = upcoming, invoices' = invoices,
             \/ at'[r] \notin {"lines", "stripe", "items"}
             \/ at[r] \in {"lines", "stripe"} /\ pid'[r] = pid[r]
             \/ pid'[r] = Len(periods) + 1
      PROVE  Charges'
  <2>1. Once' /\ OfTheCustomer' /\ \A u, x : Sent(u, x)' <=> Sent(u, x)
    BY <1>1, <1>4
  <2>2. ASSUME NEW u \in Users, NEW x \in Line, Sent(u, x), x[1] = pid'[r]
        PROVE  at'[r] \notin {"lines", "stripe", "items"}
    <3>1. x[1] \in 1..Len(periods) /\ Len(periods) \in Nat
      BY <2>2, LinesAtStripe DEF Charges, OfTheCustomer
    <3> QED BY <1>4, <2>2, <3>1 DEF Charges, NotYetSent
  <2> QED BY <1>4, <2>1, <2>2, OthersNotYetSent DEF Charges
<1>5. ASSUME NEW r \in Runs, Step(r), ~PostItem(r), ~StripeFails(r), ~PostInvoice(r)
      PROVE  Charges'
  <2>1. upcoming' = upcoming /\ invoices' = invoices
    BY <1>5 DEF Step, stripe, Check, InsertPeriod, InsertPeriodFails, AddLineItem, AddLineItemFails,
       InvoiceGenerated, OpenStripe, AllItemsPosted, SaveInvoice, SaveInvoiceFails, Finish
  <2>2. CASE NextUser(r) \/ Check(r) \/ AllItemsPosted(r) \/ Finish(r)
    <3>1. at'[r] \notin {"lines", "stripe", "items"}
      BY <2>2 DEF NextUser, Check, AllItemsPosted, Finish, Basic, ControlOK
    <3> QED BY <1>4, <1>5, <2>1, <3>1
  <2>3. CASE InsertPeriod(r)
    <3>1. pid'[r] = Len(periods) + 1
      BY <2>3 DEF InsertPeriod, Basic, ControlOK
    <3> QED BY <1>4, <1>5, <2>1, <3>1
  <2>4. CASE AddLineItem(r)
    BY <1>4, <1>5, <2>1, <2>4 DEF AddLineItem
  <2>5. CASE InvoiceGenerated(r)
    <3>1. at[r] = "lines" /\ (pid'[r] = pid[r] \/ NextUser(r))
      BY <2>5, InvoiceAlternatives DEF InvoiceGenerated
    <3> QED BY <1>4, <1>5, <2>1, <2>2, <3>1
  <2>6. CASE OpenStripe(r)
    <3>1. at[r] = "stripe" /\ (pid'[r] = pid[r] \/ NextUser(r))
      BY <2>6, StripeAlternatives DEF OpenStripe
    <3> QED BY <1>4, <1>5, <2>1, <2>2, <3>1
  <2> QED BY <1>5, <2>2, <2>3, <2>4, <2>5, <2>6
     DEF Step, InsertPeriodFails, AddLineItemFails, SaveInvoice, SaveInvoiceFails
<1>6. ASSUME NEW r \in Runs, Begin(r), UNCHANGED stripe PROVE Charges'
  <2>1. at'[r] = "next"
    BY <1>6 DEF Begin, Basic, ControlOK
  <2> QED BY <1>4, <1>6, <2>1 DEF stripe
<1>7. CASE LoopBegins \/ \E r \in Admins : AdminBegins(r)
  BY <1>6, <1>7, RunNames DEF LoopBegins, AdminBegins
<1>8. CASE Crash
  <2>1. \A r \in Runs : at'[r] = "idle"
    BY <1>8 DEF Crash
  <2> QED BY <1>1, <1>8, <2>1 DEF Crash, stripe, Charges, NotYetSent
<1>9. CASE UNCHANGED <<upcoming, invoices, control>>
  BY <1>1, <1>9 DEF control, Charges, NotYetSent
<1>10. CASE \/ LoopFailsToBegin \/ Boot \/ FirstDayEnds \/ NextMonth \/ UNCHANGED vars
            \/ \E i \in 1..Len(invoices) : Collect(i) \/ Webhook(i)
  BY <1>9, <1>10 DEF LoopFailsToBegin, Boot, FirstDayEnds, NextMonth, Collect, Webhook,
     vars, stripe, control
<1> QED BY <1>2, <1>3, <1>5, <1>7, <1>8, <1>10 DEF Next

(* No line item reaches Stripe twice, or another customer's invoice,       *)
(* whichever runs overlap, requests fail or crashes cut runs off.          *)
THEOREM LinesSentOnce == Spec => []LinesChargedOnce
<1>1. Init => Fates
  BY EmptySeq DEF Init, Fates, StatusFollowsStripe, OwnPeriod, InvoicesExist, Charging
<1>2. Init => Charges
  BY EmptySeq DEF Init, Charges, Once, OfTheCustomer, NotYetSent, Sent, Waits, OnInvoice, Distinct
<1>3. Basic /\ Fates /\ [Next]_vars => Fates'
  BY FatesStep
<1>4. Basic /\ Fates /\ Charges /\ [Next]_vars => Charges'
  BY ChargesStep
<1>5. Basic /\ Charges => LinesChargedOnce
  <2>1. SUFFICES ASSUME Basic, Charges, NEW u \in Users
        PROVE LET mine    == {i \in 1..Len(invoices) : invoices[i].user = u}
                  sources == {<<0, n>> : n \in 1..Len(upcoming[u])}
                             \cup UNION {{<<i, n>> : n \in 1..Len(invoices[i].items)} : i \in mine}
                  LineAt(s) == IF s[1] = 0 THEN upcoming[u][s[2]] ELSE invoices[s[1]].items[s[2]]
              IN \A s, t \in sources :
                   /\ LineAt(s) = LineAt(t) => s = t
                   /\ periods[LineAt(s)[1]].user = u
                   /\ LineAt(s)[2] <= lines[LineAt(s)[1]]
    BY DEF LinesChargedOnce
  <2> DEFINE mine    == {i \in 1..Len(invoices) : invoices[i].user = u}
             sources == {<<0, n>> : n \in 1..Len(upcoming[u])}
                        \cup UNION {{<<i, n>> : n \in 1..Len(invoices[i].items)} : i \in mine}
             LineAt(s) == IF s[1] = 0 THEN upcoming[u][s[2]] ELSE invoices[s[1]].items[s[2]]
  <2>2. ASSUME NEW s \in sources
        PROVE  \/ \E n \in 1..Len(upcoming[u]) : s = <<0, n>> /\ LineAt(s) = upcoming[u][n]
               \/ \E i \in 1..Len(invoices) : invoices[i].user = u /\
                    \E n \in 1..Len(invoices[i].items) :
                      s = <<i, n>> /\ LineAt(s) = invoices[i].items[n]
    <3>1. CASE \E n \in 1..Len(upcoming[u]) : s = <<0, n>>
      BY <3>1
    <3>2. CASE \E i \in mine : \E n \in 1..Len(invoices[i].items) : s = <<i, n>>
      <4>1. PICK i \in 1..Len(invoices) : invoices[i].user = u /\
              \E n \in 1..Len(invoices[i].items) : s = <<i, n>>
        BY <3>2
      <4>2. PICK n \in 1..Len(invoices[i].items) : s = <<i, n>>
        BY <4>1
      <4>3. i # 0
        BY <2>1, LinesAtStripe
      <4> QED BY <4>1, <4>2, <4>3
    <3> QED BY <3>1, <3>2
  <2>3. \A s \in sources : LineAt(s) \in Line /\ Sent(u, LineAt(s))
    BY <2>1, <2>2, LinesAtStripe DEF Sent, Waits, OnInvoice
  <2> HIDE DEF LineAt, sources
  <2>4. ASSUME NEW s \in sources, NEW t \in sources, LineAt(s) = LineAt(t) PROVE s = t
    <3> DEFINE x == LineAt(s)
    <3>1. x \in Line
      BY <2>3
    <3>2. CASE \E n \in 1..Len(upcoming[u]) : s = <<0, n>> /\ x = upcoming[u][n]
      <4>1. PICK n \in 1..Len(upcoming[u]) : s = <<0, n>> /\ x = upcoming[u][n]
        BY <3>2
      <4>2. ~\E i \in 1..Len(invoices) : OnInvoice(i, x)
        BY <2>1, <3>1, <4>1 DEF Charges, Once, Waits
      <4>3. PICK m \in 1..Len(upcoming[u]) : t = <<0, m>> /\ x = upcoming[u][m]
        BY <2>2, <2>4, <4>2 DEF OnInvoice
      <4>4. m = n
        BY <2>1, <4>1, <4>3 DEF Charges, Once, Distinct
      <4> QED BY <4>1, <4>3, <4>4
    <3>3. CASE \E i \in 1..Len(invoices) : \E n \in 1..Len(invoices[i].items) :
                 s = <<i, n>> /\ x = invoices[i].items[n]
      <4>1. PICK i \in 1..Len(invoices) : \E n \in 1..Len(invoices[i].items) :
                 s = <<i, n>> /\ x = invoices[i].items[n]
        BY <3>3
      <4>2. PICK n \in 1..Len(invoices[i].items) : s = <<i, n>> /\ x = invoices[i].items[n]
        BY <4>1
      <4>3. OnInvoice(i, x) /\ ~Waits(u, x)
        BY <2>1, <3>1, <4>2 DEF Charges, Once, OnInvoice
      <4>4. PICK j \in 1..Len(invoices) : \E m \in 1..Len(invoices[j].items) :
                 t = <<j, m>> /\ x = invoices[j].items[m]
        BY <2>2, <2>4, <4>3 DEF Waits
      <4>5. PICK m \in 1..Len(invoices[j].items) : t = <<j, m>> /\ x = invoices[j].items[m]
        BY <4>4
      <4>6. i = j
        BY <2>1, <3>1, <4>3, <4>5 DEF Charges, Once, OnInvoice
      <4>7. m = n
        BY <2>1, <4>2, <4>5, <4>6 DEF Charges, Once, Distinct
      <4> QED BY <4>2, <4>5, <4>6, <4>7
    <3> QED BY <2>2, <3>2, <3>3
  <2>5. ASSUME NEW s \in sources
        PROVE  periods[LineAt(s)[1]].user = u /\ LineAt(s)[2] <= lines[LineAt(s)[1]]
    <3>1. /\ LineAt(s)[1] \in 1..Len(periods) /\ periods[LineAt(s)[1]].user = u
          /\ LineAt(s)[2] \in 1..lines[LineAt(s)[1]]
      BY <2>1, <2>3 DEF Charges, OfTheCustomer
    <3>2. lines[LineAt(s)[1]] \in Nat
      BY <2>1, <3>1, ElementOfSeq DEF Basic, TablesOK
    <3> QED BY <3>1, <3>2
  <2> QED BY <2>4, <2>5 DEF LineAt, sources
<1> QED BY <1>1, <1>2, <1>3, <1>4, <1>5, BasicHolds, PTL DEF Spec

-----------------------------------------------------------------------------
(* While runs do not overlap: how many line items the period of a run has, *)
(* which of them were sent, and that no other line item is with them until *)
(* a failure or a crash leaves some behind.                                *)
ProgressOf(r) ==
  /\ at[r] \in {"idle", "next", "checked", "stripe"} => k[r] = 0
  /\ at[r] \in Charging => periods[pid[r]].month = of[r]
  /\ at[r] = "lines" => k[r] = lines[pid[r]]
  /\ at[r] \in {"stripe", "items", "invoice", "save"} => lines[pid[r]] = Len(Amounts(r))

GatheredOf(r) ==
  /\ at[r] = "items" => \A n \in 1..k[r] : Waits(user[r], <<pid[r], n>>)
  /\ at[r] = "invoice" => \A n \in 1..lines[pid[r]] : Waits(user[r], <<pid[r], n>>)
  /\ at[r] = "save" => \A n \in 1..lines[pid[r]] : OnInvoice(inv[r], <<pid[r], n>>)

Saved ==
  \A p \in 1..Len(periods) : periods[p].invoice # 0 =>
    /\ lines[p] = Len(Items[periods[p].user][periods[p].month])
    /\ \A n \in 1..lines[p] : OnInvoice(periods[p].invoice, <<p, n>>)

Exactly ==
  /\ \A u \in Users, x \in Line : Waits(u, x) =>
       \E r \in Runs : at[r] \in {"items", "invoice"} /\ user[r] = u /\ x[1] = pid[r]
  /\ \A r \in Runs, x \in Line : at[r] = "save" /\ OnInvoice(inv[r], x) => x[1] = pid[r]
  /\ \A p \in 1..Len(periods), x \in Line :
       periods[p].invoice # 0 /\ OnInvoice(periods[p].invoice, x) => x[1] = p

CompleteInv ==
  /\ \A r \in Runs : ProgressOf(r) /\ GatheredOf(r)
  /\ Saved
  /\ faults = 0 /\ crashes = 0 => Exactly

Complete == ~overlapped => CompleteInv

(* What is known before and after a step of the only run there is.         *)
Alone(r) ==
  /\ \A s \in Runs \ {r} : at[s] = "idle" /\ at'[s] = "idle" /\ k'[s] = 0
  /\ faults' = 0 /\ crashes' = 0 => faults = 0 /\ crashes = 0

LEMMA AloneOrIdle ==
  ASSUME Basic, Solo, CompleteInv, ~overlapped, [Next]_vars, OneRun',
         NEW r \in Runs, Step(r) \/ (Begin(r) /\ UNCHANGED <<faults, crashes>> /\ ~overlapped')
  PROVE  Alone(r)
<1>1. \A s \in Runs \ {r} : at[s] = "idle"
  <2>1. CASE Step(r)
    <3>1. at[r] # "idle"
      BY <2>1 DEF Step, Check, InsertPeriod, InsertPeriodFails, AddLineItem, AddLineItemFails,
         InvoiceGenerated, OpenStripe, PostItem, AllItemsPosted, PostInvoice, StripeFails,
         SaveInvoice, SaveInvoiceFails, Finish
    <3> QED BY <3>1 DEF Solo, OneRun
  <2>2. CASE Begin(r) /\ ~overlapped'
    BY <2>2 DEF Begin
  <2> QED BY <2>1, <2>2
<1>2. \A s \in Runs \ {r} : at'[s] = at[s] /\ k'[s] = k[s]
  BY OthersKept, CountsKept DEF Kept
<1>3. \A s \in Runs \ {r} : k[s] = 0
  BY <1>1 DEF CompleteInv, ProgressOf
<1>4. faults' = 0 /\ crashes' = 0 => faults = 0 /\ crashes = 0
  <2>1. faults' \in {faults, faults + 1} /\ crashes' = crashes /\ faults \in Nat
    BY BillingAssumption DEF Basic, ClockOK, Fault, NoFault, Step, Check, InsertPeriod,
       InsertPeriodFails, AddLineItem, AddLineItemFails,
       InvoiceGenerated, OpenStripe, PostItem, AllItemsPosted, PostInvoice, StripeFails,
       SaveInvoice, SaveInvoiceFails, Finish
  <2> QED BY <2>1
<1> QED BY <1>1, <1>2, <1>3, <1>4 DEF Alone

(* The idle runs need no further care.                                     *)
LEMMA IdleRunsFine ==
  ASSUME NEW r \in Runs, Alone(r), ProgressOf(r)', GatheredOf(r)'
  PROVE  \A s \in Runs : ProgressOf(s)' /\ GatheredOf(s)'
  BY DEF Alone, ProgressOf, GatheredOf, Charging

(* A step that sends nothing and writes no table.                          *)
Quiet(r) ==
  \/ /\ at'[r] \in {"idle", "next", "checked"} /\ k'[r] = 0
     /\ at[r] \in {"items", "invoice"} => faults' # 0
  \/ /\ user'[r] = user[r] /\ of'[r] = of[r] /\ pid'[r] = pid[r]
     /\ \/ at[r] = "lines" /\ at'[r] = "stripe" /\ k'[r] = 0 /\ k[r] = Len(Amounts(r))
        \/ at[r] = "stripe" /\ at'[r] = "items" /\ k'[r] = k[r]
        \/ at[r] = "items" /\ at'[r] = "invoice" /\ k[r] = lines[pid[r]]

LEMMA QuietComplete ==
  ASSUME Basic, CompleteInv, NEW r \in Runs, Alone(r), Quiet(r),
         UNCHANGED <<periods, lines, upcoming, invoices>>
  PROVE  CompleteInv'
<1>1. /\ \A u, x : Waits(u, x)' <=> Waits(u, x)
      /\ \A i, x : OnInvoice(i, x)' <=> OnInvoice(i, x)
  BY DEF Waits, OnInvoice
<1>2. ProgressOf(r) /\ GatheredOf(r)
  BY DEF CompleteInv
<1>3. ProgressOf(r)'
  BY <1>2 DEF Quiet, ProgressOf, Charging, Amounts
<1>4. GatheredOf(r)'
  <2>1. CASE at'[r] \in {"idle", "next", "checked", "stripe"}
    BY <2>1 DEF GatheredOf
  <2>2. CASE at[r] = "stripe" /\ at'[r] = "items" /\ k'[r] = k[r]
    <3>1. k'[r] = 0
      BY <1>2, <2>2 DEF ProgressOf
    <3> QED BY <2>2, <3>1 DEF GatheredOf
  <2>3. CASE /\ at[r] = "items" /\ at'[r] = "invoice" /\ k[r] = lines[pid[r]]
             /\ user'[r] = user[r] /\ pid'[r] = pid[r]
    BY <1>1, <1>2, <2>3 DEF GatheredOf
  <2> QED BY <2>1, <2>2, <2>3 DEF Quiet
<1>5. Saved'
  BY <1>1 DEF CompleteInv, Saved
<1>6. ASSUME faults' = 0, crashes' = 0 PROVE Exactly'
  <2>1. Exactly
    BY <1>6 DEF CompleteInv, Alone
  <2>2. ASSUME NEW u \in Users, NEW x \in Line, Waits(u, x)
        PROVE  \E s \in Runs : at'[s] \in {"items", "invoice"} /\ user'[s] = u /\ x[1] = pid'[s]
    <3>1. PICK s \in Runs : at[s] \in {"items", "invoice"} /\ user[s] = u /\ x[1] = pid[s]
      BY <2>1, <2>2 DEF Exactly
    <3>2. s = r
      BY <3>1 DEF Alone
    <3> QED BY <1>6, <3>1, <3>2 DEF Quiet
  <2>3. \A s \in Runs : at'[s] # "save"
    BY DEF Alone, Quiet
  <2> QED BY <1>1, <2>1, <2>2, <2>3 DEF Exactly
<1> QED BY <1>3, <1>4, <1>5, <1>6, IdleRunsFine DEF CompleteInv

LEMMA InsertComplete ==
  ASSUME Basic, Fates, CompleteInv, NEW r \in Runs, Alone(r), InsertPeriod(r)
  PROVE  CompleteInv'
<1> USE DEF Goto
<1> DEFINE new == [user |-> user[r], month |-> of[r], charge |-> HasCharge(Amounts(r)),
                   status |-> "pending", invoice |-> 0]
           n   == Len(periods) + 1
<1>1. /\ at[r] = "checked" /\ at'[r] = "lines" /\ pid'[r] = n /\ k' = k /\ of' = of
      /\ user' = user /\ periods' = Append(periods, new) /\ lines' = Append(lines, 0)
      /\ upcoming' = upcoming /\ invoices' = invoices
  BY DEF InsertPeriod, stripe, Basic, ControlOK
<1>2. new.month = of[r] /\ new.invoice = 0
  OBVIOUS
<1> HIDE DEF new
<1>3. /\ Len(periods) \in Nat /\ Len(lines) = Len(periods) /\ Len(periods') = n
      /\ \A p \in 1..Len(periods) : periods'[p] = periods[p] /\ lines'[p] = lines[p]
      /\ periods'[n] = new /\ lines'[n] = 0
  <2>1. periods \in Seq(PeriodRecord \cup {new}) /\ lines \in Seq(Nat) /\ Len(lines) = Len(periods)
    BY DEF Basic, TablesOK
  <2> QED BY <1>1, <2>1, AppendProperties, LenProperties
<1>4. \A p \in 1..Len(periods') : p \in 1..Len(periods) \/ p = n
  BY <1>3
<1> HIDE DEF n
<1>5. k[r] = 0
  BY <1>1 DEF CompleteInv, ProgressOf
<1>6. ProgressOf(r)' /\ GatheredOf(r)'
  BY <1>1, <1>2, <1>3, <1>5 DEF ProgressOf, GatheredOf
<1>7. /\ \A u, x : Waits(u, x)' <=> Waits(u, x)
      /\ \A i, x : OnInvoice(i, x)' <=> OnInvoice(i, x)
  BY <1>1 DEF Waits, OnInvoice
<1>8. Saved'
  BY <1>2, <1>3, <1>4, <1>7 DEF CompleteInv, Saved
<1>9. ASSUME faults' = 0, crashes' = 0 PROVE Exactly'
  <2>1. Exactly
    BY <1>9 DEF CompleteInv, Alone
  <2>2. \A u \in Users, x \in Line : ~Waits(u, x)
    BY <1>1, <2>1 DEF Exactly, Alone
  <2>3. \A s \in Runs : at'[s] # "save"
    BY <1>1 DEF Alone
  <2>4. \A p \in 1..Len(periods'), x \in Line :
          periods'[p].invoice # 0 /\ OnInvoice(periods[p].invoice, x) =>
            p \in 1..Len(periods) /\ periods'[p].invoice = periods[p].invoice /\ x[1] = p
    BY <1>2, <1>3, <1>4, <2>1 DEF Exactly
  <2>5. \A p \in 1..Len(periods') : periods'[p].invoice # 0 =>
          periods'[p].invoice = periods[p].invoice
    BY <1>2, <1>3, <1>4
  <2> QED BY <1>1, <1>7, <2>2, <2>3, <2>4, <2>5 DEF Exactly, OnInvoice
<1> QED BY <1>6, <1>8, <1>9, IdleRunsFine DEF CompleteInv

LEMMA AddComplete ==
  ASSUME Basic, Fates, CompleteInv, NEW r \in Runs, Alone(r), AddLineItem(r)
  PROVE  CompleteInv'
<1>1. /\ at[r] = "lines" /\ UNCHANGED <<at, user, of, pid, inv, periods, upcoming, invoices>>
      /\ lines' = [lines EXCEPT ![pid[r]] = @ + 1] /\ k'[r] = k[r] + 1
  BY DEF AddLineItem, stripe, Basic, ControlOK
<1>2. pid[r] \in 1..Len(periods) /\ Len(lines) = Len(periods) /\ periods[pid[r]].invoice = 0
  BY <1>1 DEF Basic, RunInv, Charging, TablesOK, Fates, OwnPeriod
<1>3. \A p \in 1..Len(periods) : lines'[p] = IF p = pid[r] THEN lines[p] + 1 ELSE lines[p]
  BY <1>1, <1>2 DEF Basic, TablesOK
<1>4. ProgressOf(r)' /\ GatheredOf(r)'
  BY <1>1, <1>2, <1>3 DEF CompleteInv, ProgressOf, GatheredOf, Charging
<1>5. /\ \A u, x : Waits(u, x)' <=> Waits(u, x)
      /\ \A i, x : OnInvoice(i, x)' <=> OnInvoice(i, x)
  BY <1>1 DEF Waits, OnInvoice
<1>6. Saved'
  BY <1>1, <1>2, <1>3, <1>5 DEF CompleteInv, Saved
<1>7. faults' = 0 /\ crashes' = 0 => Exactly'
  BY <1>1, <1>5 DEF CompleteInv, Alone, Exactly
<1> QED BY <1>4, <1>6, <1>7, IdleRunsFine DEF CompleteInv

LEMMA ItemComplete ==
  ASSUME Basic, Fates, CompleteInv, NEW r \in Runs, Alone(r), at[r] = "items",
         k[r] < lines[pid[r]],
         upcoming' = [upcoming EXCEPT ![user[r]] = Append(@, <<pid[r], k[r] + 1>>)],
         invoices' = invoices, periods' = periods, lines' = lines,
         \/ PostItem(r)
         \/ at'[r] = "next" /\ k'[r] = 0 /\ faults' # 0
  PROVE  CompleteInv'
<1>0. PICK me, id, new : me = user[r] /\ id = pid[r] /\ new = <<id, k[r] + 1>>
  OBVIOUS
<1>1. /\ me \in Users /\ pid[r] \in 1..Len(periods) /\ k[r] \in Nat /\ lines[pid[r]] \in Nat
      /\ new \in Line /\ new[1] = pid[r] /\ new[2] = k[r] + 1
  <2>1. me \in Users /\ pid[r] \in 1..Len(periods) /\ k[r] \in Nat
    BY <1>0 DEF Basic, RunInv, Working, Charging, ControlOK
  <2>2. lines[pid[r]] \in Nat
    BY <2>1, ElementOfSeq DEF Basic, TablesOK
  <2> QED BY <1>0, <2>1, <2>2, LinesAtStripe DEF Line
<1>2. /\ upcoming'[me] = Append(upcoming[me], new)
      /\ \A u \in Users \ {me} : upcoming'[u] = upcoming[u]
  BY <1>0, <1>1 DEF Basic, StripeOK
<1>3. \A u \in Users : \A x : Waits(u, x)' <=> Waits(u, x) \/ (u = me /\ x = new)
  <2>1. \A x : Waits(me, x)' <=> Waits(me, x) \/ x = new
    <3>1. upcoming[me] \in Seq(Line)
      BY <1>1, LinesAtStripe
    <3>2. \A x : (\E n \in 1..Len(Append(upcoming[me], new)) : Append(upcoming[me], new)[n] = x)
                   <=> (\E n \in 1..Len(upcoming[me]) : upcoming[me][n] = x) \/ x = new
      BY <1>1, <3>1, AppendLine
    <3> QED BY <1>2, <3>2 DEF Waits
  <2>2. \A u \in Users \ {me} : \A x : Waits(u, x)' <=> Waits(u, x)
    BY <1>2 DEF Waits
  <2> QED BY <2>1, <2>2
<1>4. \A i, x : OnInvoice(i, x)' <=> OnInvoice(i, x)
  BY DEF OnInvoice
<1>5. Saved'
  BY <1>4 DEF CompleteInv, Saved
<1>6. CASE PostItem(r)
  <2>1. /\ at' = at /\ user' = user /\ of' = of /\ pid' = pid /\ inv' = inv
        /\ k'[r] = k[r] + 1
    BY <1>6 DEF PostItem, Basic, ControlOK
  <2>2. ProgressOf(r) /\ GatheredOf(r)
    BY DEF CompleteInv
  <2>3. ProgressOf(r)'
    BY <2>1, <2>2 DEF ProgressOf, Amounts
  <2>4. GatheredOf(r)'
    <3>1. \A n \in 1..k[r] : Waits(me, <<id, n>>)
      BY <1>0, <2>2 DEF GatheredOf
    <3>2. \A n \in 1..(k[r] + 1) : n \in 1..k[r] \/ n = k[r] + 1
      BY <1>1
    <3>3. \A n \in 1..(k[r] + 1) : Waits(me, <<id, n>>)'
      BY <1>0, <1>1, <1>3, <3>1, <3>2
    <3>4. user'[r] = me /\ pid'[r] = id
      BY <1>0, <2>1
    <3> QED BY <2>1, <3>3, <3>4 DEF GatheredOf, Waits
  <2>5. ASSUME faults' = 0, crashes' = 0 PROVE Exactly'
    <3>1. Exactly
      BY <2>5 DEF CompleteInv, Alone
    <3>2. \A u \in Users, x \in Line : Waits(u, x)' =>
            \E s \in Runs : at'[s] \in {"items", "invoice"} /\ user'[s] = u /\ x[1] = pid'[s]
      BY <1>0, <1>1, <1>3, <2>1, <3>1 DEF Exactly
    <3>3. \A s \in Runs : at'[s] # "save"
      BY <2>1 DEF Alone
    <3> QED BY <1>4, <3>1, <3>2, <3>3 DEF Exactly
  <2> QED BY <1>5, <2>3, <2>4, <2>5, IdleRunsFine DEF CompleteInv
<1>7. CASE at'[r] = "next" /\ k'[r] = 0 /\ faults' # 0
  BY <1>5, <1>7, IdleRunsFine DEF CompleteInv, ProgressOf, GatheredOf, Charging
<1> QED BY <1>6, <1>7

LEMMA InvoiceComplete ==
  ASSUME Basic, Fates, CompleteInv, NEW r \in Runs, Alone(r), at[r] = "invoice",
         invoices' = Append(invoices, [user |-> user[r], items |-> upcoming[user[r]]]),
         upcoming' = [upcoming EXCEPT ![user[r]] = <<>>],
         periods' = periods, lines' = lines,
         \/ PostInvoice(r)
         \/ at'[r] = "next" /\ k'[r] = 0 /\ faults' # 0
  PROVE  CompleteInv'
<1>0. PICK me, id, n : me = user[r] /\ id = pid[r] /\ n = Len(invoices) + 1
  OBVIOUS
<1> DEFINE new == [user |-> me, items |-> upcoming[me]]
<1>1. me \in Users /\ new \in InvoiceRecord /\ new.items = upcoming[me]
  <2>1. me \in Users
    BY <1>0 DEF Basic, RunInv, Working
  <2> QED BY <2>1, LinesAtStripe DEF InvoiceRecord
<1>2. /\ Len(invoices) \in Nat /\ Len(invoices') = n
      /\ \A i \in 1..Len(invoices) : invoices'[i] = invoices[i]
      /\ invoices'[n] = new
  BY <1>0, <1>1, AppendProperties, LenProperties DEF Basic, StripeOK
<1>3. /\ upcoming'[me] = <<>>
      /\ \A u \in Users \ {me} : upcoming'[u] = upcoming[u]
  BY <1>0, <1>1 DEF Basic, StripeOK
<1> HIDE DEF new
<1>4. /\ \A x : OnInvoice(n, x)' <=> Waits(me, x)
      /\ \A i \in 1..Len(invoices) : \A x : OnInvoice(i, x)' <=> OnInvoice(i, x)
  BY <1>1, <1>2 DEF Waits, OnInvoice
<1>5. /\ \A x : ~Waits(me, x)'
      /\ \A u \in Users \ {me} : \A x : Waits(u, x)' <=> Waits(u, x)
  <2>1. Len(upcoming'[me]) = 0
    BY <1>3
  <2> QED BY <1>3, <2>1 DEF Waits
<1>6. \A p \in 1..Len(periods) : periods[p].invoice # 0 => periods[p].invoice \in 1..Len(invoices)
  BY <1>2 DEF Fates, InvoicesExist
<1>7. Saved'
  BY <1>4, <1>6 DEF CompleteInv, Saved
<1>8. CASE PostInvoice(r)
  <2>1. /\ at'[r] = "save" /\ user' = user /\ of' = of /\ pid' = pid /\ inv'[r] = n
    BY <1>0, <1>8 DEF PostInvoice, Goto, Basic, ControlOK
  <2>2. ProgressOf(r) /\ GatheredOf(r)
    BY DEF CompleteInv
  <2>3. ProgressOf(r)'
    BY <2>1, <2>2 DEF ProgressOf, Amounts, Charging
  <2>4. GatheredOf(r)'
    <3>1. \A m \in 1..lines[id] : Waits(me, <<id, m>>)
      BY <1>0, <2>2 DEF GatheredOf
    <3>2. \A m \in 1..lines[id] : OnInvoice(n, <<id, m>>)'
      BY <1>4, <3>1
    <3>3. pid'[r] = id
      BY <1>0, <2>1
    <3> QED BY <2>1, <3>2, <3>3 DEF GatheredOf, OnInvoice
  <2>5. ASSUME faults' = 0, crashes' = 0 PROVE Exactly'
    <3>1. Exactly
      BY <2>5 DEF CompleteInv, Alone
    <3>2. \A u \in Users, x \in Line : Waits(u, x) => u = me /\ x[1] = pid[r]
      BY <1>0, <3>1 DEF Exactly, Alone
    <3>3. \A u \in Users, x \in Line : ~Waits(u, x)'
      BY <1>5, <3>2
    <3>4. \A x \in Line : OnInvoice(n, x)' => x[1] = id
      BY <1>0, <1>1, <1>4, <3>2
    <3>5. \A s \in Runs : at'[s] = "save" => inv'[s] = n /\ pid'[s] = id
      BY <1>0, <2>1 DEF Alone
    <3>6. \A i \in 1..Len(invoices) : \A p \in 1..Len(periods), x \in Line :
            periods[p].invoice = i /\ OnInvoice(i, x)' => x[1] = p
      <4>1. \A i \in 1..Len(invoices) : i # 0
        BY <1>2
      <4> QED BY <1>4, <3>1, <4>1 DEF Exactly
    <3>7. ASSUME NEW p \in 1..Len(periods), NEW x \in Line, periods[p].invoice # 0,
                 \E m \in 1..Len(invoices'[periods[p].invoice].items) :
                   invoices'[periods[p].invoice].items[m] = x
          PROVE  x[1] = p
      BY <1>6, <3>6, <3>7 DEF OnInvoice
    <3>8. \A p \in 1..Len(periods), x \in Line :
            periods'[p].invoice # 0 /\ OnInvoice(periods[p].invoice, x)' => x[1] = p
      BY <3>7 DEF OnInvoice
    <3>9. \A s \in Runs, x \in Line : at'[s] = "save" /\ OnInvoice(inv[s], x)' => x[1] = pid'[s]
      BY <3>4, <3>5 DEF OnInvoice
    <3> QED BY <3>3, <3>8, <3>9 DEF Exactly
  <2> QED BY <1>7, <2>3, <2>4, <2>5, IdleRunsFine DEF CompleteInv
<1>9. CASE at'[r] = "next" /\ k'[r] = 0 /\ faults' # 0
  BY <1>7, <1>9, IdleRunsFine DEF CompleteInv, ProgressOf, GatheredOf, Charging
<1> QED BY <1>8, <1>9

LEMMA SaveComplete ==
  ASSUME Basic, Fates, CompleteInv, NEW r \in Runs, Alone(r), SaveInvoice(r)
  PROVE  CompleteInv'
<1>0. PICK id, i : id = pid[r] /\ i = inv[r]
  OBVIOUS
<1>1. /\ periods' = [periods EXCEPT ![id].status = "invoiced", ![id].invoice = i]
      /\ at[r] = "save" /\ at'[r] = "next" /\ k'[r] = 0
      /\ UNCHANGED <<lines, invoices, upcoming>>
  BY <1>0 DEF SaveInvoice, NextUser, Goto, stripe, Basic, ControlOK
<1>2. /\ id \in 1..Len(periods) /\ i \in 1..Len(invoices)
      /\ \A p \in 1..Len(periods) : periods[p] \in PeriodRecord
      /\ Len(invoices) \in Nat
  BY <1>0, <1>1, ElementOfSeq, LenProperties
     DEF Basic, RunInv, Charging, TablesOK, StripeOK
<1>3. /\ Len(periods') = Len(periods)
      /\ \A p \in 1..Len(periods) : /\ periods'[p].user = periods[p].user
                                    /\ periods'[p].month = periods[p].month
  BY OwnersKept, <1>1 DEF SameOwners, Next, Step, InsertPeriod
<1>4. \A p \in 1..Len(periods) :
        periods'[p].invoice = IF p = id THEN i ELSE periods[p].invoice
  <2> DEFINE new == [periods[id] EXCEPT !.status = "invoiced", !.invoice = i]
  <2>1. periods' = [periods EXCEPT ![id] = new]
    BY <1>1, <1>2 DEF Basic, TablesOK
  <2>2. new.invoice = i /\ new \in PeriodRecord
    <3>1. i \in Nat /\ "invoiced" \in PeriodStatuses
      BY <1>0 DEF Basic, ControlOK, PeriodStatuses
    <3>2. PICK old : old = periods[id]
      OBVIOUS
    <3>3. old \in PeriodRecord
      BY <1>2, <3>2
    <3>4. [old EXCEPT !.status = "invoiced", !.invoice = i] \in PeriodRecord
      BY <3>1, <3>3 DEF PeriodRecord
    <3> QED BY <3>1, <3>2, <3>3, <3>4 DEF PeriodRecord
  <2> HIDE DEF new
  <2> QED BY <1>2, <2>1, <2>2, ExceptSeq DEF Basic, TablesOK
<1>5. /\ periods[id].user = user[r] /\ periods[id].month = of[r]
      /\ lines[id] = Len(Items[periods[id].user][periods[id].month])
      /\ \A n \in 1..lines[id] : OnInvoice(i, <<id, n>>)
  <2>1. ProgressOf(r) /\ GatheredOf(r)
    BY DEF CompleteInv
  <2> QED BY <1>0, <1>1, <2>1 DEF Fates, OwnPeriod, Charging, ProgressOf, GatheredOf, Amounts
<1>6. ProgressOf(r)' /\ GatheredOf(r)'
  BY <1>1 DEF ProgressOf, GatheredOf, Charging
<1>7. Saved'
  <2>1. \A p \in 1..Len(periods) : periods'[p].invoice # 0 =>
          /\ lines[p] = Len(Items[periods[p].user][periods[p].month])
          /\ \A n \in 1..lines[p] : OnInvoice(periods'[p].invoice, <<p, n>>)
    BY <1>2, <1>4, <1>5 DEF CompleteInv, Saved
  <2>2. ASSUME NEW p \in 1..Len(periods'), periods'[p].invoice # 0
        PROVE  /\ lines'[p] = Len(Items[periods'[p].user][periods'[p].month])
               /\ \A n \in 1..lines'[p] :
                    \E m \in 1..Len(invoices'[periods'[p].invoice].items) :
                      invoices'[periods'[p].invoice].items[m] = <<p, n>>
    <3>1. /\ p \in 1..Len(periods) /\ lines' = lines /\ invoices' = invoices
          /\ periods'[p].user = periods[p].user /\ periods'[p].month = periods[p].month
      BY <1>1, <1>3, <2>2
    <3>2. PICK j : j = periods'[p].invoice
      OBVIOUS
    <3>3. \A n \in 1..lines[p] : OnInvoice(j, <<p, n>>)
      BY <2>1, <2>2, <3>1, <3>2 DEF OnInvoice
    <3>4. lines[p] = Len(Items[periods[p].user][periods[p].month])
      BY <2>1, <2>2, <3>1
    <3> QED BY <3>1, <3>2, <3>3, <3>4 DEF OnInvoice
  <2> QED BY <2>2 DEF Saved, OnInvoice
<1>8. ASSUME faults' = 0, crashes' = 0 PROVE Exactly'
  <2>1. Exactly
    BY <1>8 DEF CompleteInv, Alone
  <2>2. \A u \in Users, x \in Line : ~Waits(u, x)'
    BY <1>1, <2>1 DEF Exactly, Alone, Waits
  <2>3. \A s \in Runs : at'[s] # "save"
    BY <1>1 DEF Alone
  <2>4. \A p \in 1..Len(periods), x \in Line :
          periods'[p].invoice # 0 /\ OnInvoice(periods'[p].invoice, x) => x[1] = p
    BY <1>0, <1>1, <1>4, <2>1 DEF Exactly
  <2> QED BY <1>1, <1>3, <2>2, <2>3, <2>4 DEF Exactly, OnInvoice
<1> QED BY <1>6, <1>7, <1>8, IdleRunsFine DEF CompleteInv

LEMMA WebhookComplete ==
  ASSUME Basic, CompleteInv, NEW j \in 1..Len(invoices), Webhook(j)
  PROVE  CompleteInv'
<1>1. Len(invoices) \in Nat /\ \A p \in 1..Len(periods) : periods[p] \in PeriodRecord
  BY LenProperties, ElementOfSeq DEF Basic, TablesOK, StripeOK
<1>2. PICK s \in {"paid", "failed"} : SetStatusOfInvoice(j, s)
  BY DEF Webhook
<1>3. UNCHANGED <<at, of, todo, user, pid, k, inv, lines, upcoming, invoices, faults, crashes>>
  BY DEF Webhook, control, stripe
<1>4. Len(periods') = Len(periods)
      /\ \A p \in 1..Len(periods) : /\ periods'[p].user = periods[p].user
                                    /\ periods'[p].month = periods[p].month
  <2>1. \A r \in Runs : ~InsertPeriod(r)
    BY <1>1, <1>3 DEF InsertPeriod, Goto, Basic, ControlOK
  <2> QED BY <2>1, OwnersKept DEF SameOwners, Next
<1>5. \A p \in 1..Len(periods) : periods'[p].invoice = periods[p].invoice
  BY <1>1, <1>2 DEF SetStatusOfInvoice, PeriodRecord
<1>6. /\ \A u, x : Waits(u, x)' <=> Waits(u, x)
      /\ \A i, x : OnInvoice(i, x)' <=> OnInvoice(i, x)
  BY <1>3 DEF Waits, OnInvoice
<1>7. \A r \in Runs : ProgressOf(r)'
  <2>1. \A r \in Runs : at[r] \in Charging => pid[r] \in 1..Len(periods)
    BY DEF Basic, RunInv
  <2> QED BY <1>3, <1>4, <2>1 DEF CompleteInv, ProgressOf, Amounts
<1>8. \A r \in Runs : GatheredOf(r)'
  BY <1>3 DEF CompleteInv, GatheredOf, Waits, OnInvoice
<1>9. Saved'
  <2>1. ASSUME NEW p \in 1..Len(periods'), periods'[p].invoice # 0
        PROVE  /\ lines'[p] = Len(Items[periods'[p].user][periods'[p].month])
               /\ \A n \in 1..lines'[p] :
                    \E m \in 1..Len(invoices'[periods'[p].invoice].items) :
                      invoices'[periods'[p].invoice].items[m] = <<p, n>>
    BY <1>3, <1>4, <1>5, <2>1 DEF CompleteInv, Saved, OnInvoice
  <2> QED BY <2>1 DEF Saved, OnInvoice
<1>10. Exactly => Exactly'
  BY <1>3, <1>4, <1>5 DEF Exactly, Waits, OnInvoice
<1> QED BY <1>3, <1>7, <1>8, <1>9, <1>10 DEF CompleteInv

(* A step of the only run.                                                 *)
LEMMA RunComplete ==
  ASSUME Basic, Fates, CompleteInv, NEW r \in Runs, Alone(r), Step(r)
  PROVE  CompleteInv'
<1> USE DEF Goto
<1>1. CASE UNCHANGED <<periods, lines, upcoming, invoices>> /\ Quiet(r)
  BY <1>1, QuietComplete
<1>2. CASE Check(r)
  <2>1. at[r] = "next" /\ at'[r] \in {"next", "checked"} /\ k'[r] = k[r]
    BY <1>2 DEF Check, Basic, ControlOK
  <2>2. k[r] = 0
    BY <2>1 DEF CompleteInv, ProgressOf
  <2> QED BY <1>1, <1>2, <2>1, <2>2 DEF Quiet, Check, tables, stripe
<1>3. ASSUME NextUser(r), UNCHANGED <<periods, lines, upcoming, invoices>>,
             at[r] \in {"items", "invoice"} => faults' # 0
      PROVE  CompleteInv'
  <2>1. at'[r] = "next" /\ k'[r] = 0
    BY <1>3 DEF NextUser, Basic, ControlOK
  <2> QED BY <1>1, <1>3, <2>1 DEF Quiet
<1>4. CASE InsertPeriodFails(r) \/ AddLineItemFails(r) \/ SaveInvoiceFails(r)
  BY <1>3, <1>4 DEF InsertPeriodFails, AddLineItemFails, SaveInvoiceFails, tables, stripe
<1>5. CASE InvoiceGenerated(r)
  <2>1. CASE NextUser(r)
    BY <1>3, <1>5, <2>1 DEF InvoiceGenerated, tables, stripe
  <2>2. CASE Goto(r, "stripe") /\ k' = [k EXCEPT ![r] = 0] /\ UNCHANGED <<of, todo, user, pid, inv>>
    <3>1. at'[r] = "stripe" /\ k'[r] = 0
      BY <2>2 DEF Basic, ControlOK
    <3> QED BY <1>1, <1>5, <2>2, <3>1 DEF InvoiceGenerated, Quiet, tables, stripe
  <2> QED BY <1>5, <2>1, <2>2, InvoiceAlternatives
<1>6. CASE OpenStripe(r)
  <2>1. CASE NextUser(r)
    BY <1>3, <1>6, <2>1 DEF OpenStripe, tables, stripe
  <2>2. CASE Goto(r, "items") /\ UNCHANGED <<of, todo, user, pid, k, inv>>
    <3>1. at'[r] = "items"
      BY <2>2 DEF Basic, ControlOK
    <3> QED BY <1>1, <1>6, <2>2, <3>1 DEF OpenStripe, Quiet, tables, stripe
  <2> QED BY <1>6, <2>1, <2>2, StripeAlternatives
<1>7. CASE AllItemsPosted(r)
  <2>1. at'[r] = "invoice"
    BY <1>7 DEF AllItemsPosted, Basic, ControlOK
  <2> QED BY <1>1, <1>7, <2>1 DEF AllItemsPosted, Quiet, tables, stripe
<1>8. CASE Finish(r)
  <2>1. at[r] = "next" /\ at'[r] = "idle" /\ k'[r] = k[r]
    BY <1>8 DEF Finish, Basic, ControlOK
  <2>2. k[r] = 0
    BY <2>1 DEF CompleteInv, ProgressOf
  <2> QED BY <1>1, <1>8, <2>1, <2>2 DEF Quiet, Finish, tables, stripe
<1>9. CASE PostItem(r)
  BY <1>9, ItemComplete DEF PostItem, tables
<1>10. CASE PostInvoice(r)
  BY <1>10, InvoiceComplete DEF PostInvoice, tables
<1>11. CASE StripeFails(r)
  <2>1. /\ NextUser(r) /\ at'[r] = "next" /\ k'[r] = 0 /\ faults' # 0
        /\ periods' = periods /\ lines' = lines
    BY <1>11, BillingAssumption
       DEF StripeFails, Fault, NextUser, tables, Basic, ControlOK, ClockOK
  <2>2. CASE UNCHANGED <<upcoming, invoices>>
    BY <1>3, <2>1, <2>2
  <2>3. CASE /\ at[r] = "items" /\ invoices' = invoices
             /\ upcoming' = [upcoming EXCEPT ![user[r]] = Append(@, <<pid[r], k[r] + 1>>)]
    <3>1. k[r] < lines[pid[r]]
      BY <1>11, <2>3 DEF StripeFails
    <3> QED BY <2>1, <2>3, <3>1, ItemComplete
  <2>4. CASE /\ at[r] = "invoice"
             /\ invoices' = Append(invoices, [user |-> user[r], items |-> upcoming[user[r]]])
             /\ upcoming' = [upcoming EXCEPT ![user[r]] = <<>>]
    BY <2>1, <2>4, InvoiceComplete
  <2> QED BY <1>11, <2>2, <2>3, <2>4 DEF StripeFails
<1> QED BY <1>2, <1>4, <1>5, <1>6, <1>7, <1>8, <1>9, <1>10, <1>11, InsertComplete, AddComplete,
           SaveComplete DEF Step

LEMMA CompleteStep ==
  ASSUME Basic, Solo, Fates, Complete, [Next]_vars
  PROVE  Complete'
<1> USE DEF Goto
<1>1. SUFFICES ASSUME ~overlapped' PROVE CompleteInv'
  BY DEF Complete
<1>2. ~overlapped /\ OneRun' /\ CompleteInv
  BY <1>1, OneRunStep DEF Complete
<1>3. ASSUME NEW r \in Runs, Step(r) PROVE CompleteInv'
  BY <1>2, <1>3, AloneOrIdle, RunComplete
<1>4. ASSUME NEW r \in Runs, Begin(r), UNCHANGED <<tables, stripe, faults, crashes>>
      PROVE  CompleteInv'
  <2>1. Alone(r)
    BY <1>1, <1>2, <1>4, AloneOrIdle
  <2>2. at[r] = "idle" /\ at'[r] = "next" /\ k'[r] = k[r]
    BY <1>4 DEF Begin, Basic, ControlOK
  <2>3. k[r] = 0
    BY <1>2, <2>2 DEF CompleteInv, ProgressOf
  <2> QED BY <1>2, <1>4, <2>1, <2>2, <2>3, QuietComplete DEF Quiet, tables, stripe
<1>5. CASE LoopBegins \/ \E r \in Admins : AdminBegins(r)
  BY <1>4, <1>5, RunNames DEF LoopBegins, AdminBegins
<1>6. CASE Crash
  <2>1. /\ \A r \in Runs : at'[r] = "idle" /\ k'[r] = 0
        /\ UNCHANGED <<periods, lines, upcoming, invoices>>
        /\ crashes' # 0
    BY <1>6, BillingAssumption DEF Crash, tables, stripe, Basic, ClockOK
  <2> QED BY <1>2, <2>1 DEF CompleteInv, ProgressOf, GatheredOf, Charging, Saved, OnInvoice
<1>7. ASSUME NEW i \in 1..Len(invoices), Webhook(i) PROVE CompleteInv'
  BY <1>2, <1>7, WebhookComplete
<1>8. ASSUME UNCHANGED <<tables, upcoming, invoices, control, crashes>>,
             faults' = 0 => faults = 0
      PROVE  CompleteInv'
  <2>1. UNCHANGED <<periods, lines, upcoming, invoices, at, of, user, pid, k, inv>>
    BY <1>8 DEF tables, control
  <2>2. \A r \in Runs : ProgressOf(r)' /\ GatheredOf(r)'
    BY <1>2, <2>1 DEF CompleteInv, ProgressOf, GatheredOf, Amounts, Waits, OnInvoice
  <2>3. Saved'
    BY <1>2, <2>1 DEF CompleteInv, Saved, OnInvoice
  <2>4. Exactly => Exactly'
    BY <2>1 DEF Exactly, Waits, OnInvoice
  <2>5. faults' = 0 /\ crashes' = 0 => faults = 0 /\ crashes = 0
    BY <1>8
  <2> QED BY <1>2, <2>2, <2>3, <2>4, <2>5 DEF CompleteInv
<1>9. CASE LoopFailsToBegin
  <2>1. faults' # 0
    BY <1>9, BillingAssumption DEF LoopFailsToBegin, Fault, Basic, ClockOK
  <2> QED BY <1>8, <1>9, <2>1 DEF LoopFailsToBegin, stripe
<1>10. CASE \/ Boot \/ FirstDayEnds \/ NextMonth \/ UNCHANGED vars
            \/ \E i \in 1..Len(invoices) : Collect(i)
  BY <1>8, <1>10 DEF Boot, FirstDayEnds, NextMonth, Collect, vars, stripe, tables, control
<1> QED BY <1>3, <1>5, <1>6, <1>7, <1>9, <1>10 DEF Next

(* Without overlap a saved invoice carries every line item of its period,  *)
(* and no other while nothing failed: a run that fails half-way leaves its *)
(* period without an invoice.                                              *)
THEOREM SavedInvoicesComplete == Spec => []InvoicedIsComplete
<1>1. Init => Solo /\ Fates /\ Charges
  BY EmptySeq DEF Init, Fates, StatusFollowsStripe, OwnPeriod, InvoicesExist, Charging,
     Solo, OneRun, CheckedIsFree, OnePeriodPerMonth,
     Charges, Once, OfTheCustomer, NotYetSent, Sent, Waits, OnInvoice, Distinct
<1>2. Init => Complete
  BY EmptySeq DEF Init, Complete, CompleteInv, ProgressOf, GatheredOf, Charging, Saved, Exactly,
     Waits
<1>3. Basic /\ Solo /\ Fates /\ Charges /\ Complete /\ [Next]_vars
        => (Solo /\ Fates /\ Charges /\ Complete)'
  <2>1. Basic /\ Solo /\ [Next]_vars => Solo'
    BY OneRunStep, CheckedStep DEF Solo
  <2> QED BY <2>1, FatesStep, ChargesStep, CompleteStep
<1>4. Basic /\ Fates /\ Charges /\ Complete => InvoicedIsComplete
  <2>1. SUFFICES ASSUME Basic, Fates, Charges, CompleteInv, ~overlapped,
                        NEW p \in 1..Len(periods), periods[p].invoice # 0
                 PROVE  LET charged == {invoices[periods[p].invoice].items[n] :
                                          n \in 1..Len(invoices[periods[p].invoice].items)}
                        IN /\ LinesOf(p) \subseteq charged
                           /\ faults = 0 /\ crashes = 0 => charged = LinesOf(p)
    BY DEF InvoicedIsComplete, Complete
  <2> DEFINE i       == periods[p].invoice
             charged == {invoices[i].items[n] : n \in 1..Len(invoices[i].items)}
  <2>2. i \in 1..Len(invoices) /\ periods[p].user \in Users
        /\ invoices[i].user = periods[p].user /\ Len(invoices) \in Nat
    <3>1. periods[p] \in PeriodRecord
      BY <2>1, ElementOfSeq DEF Basic, TablesOK
    <3> QED BY <2>1, <3>1, LinesAtStripe DEF Fates, InvoicesExist, StatusFollowsStripe, PeriodRecord
  <2>3. /\ \A x : x \in charged <=> OnInvoice(i, x)
        /\ charged \subseteq Line
    BY <2>1, <2>2, LinesAtStripe DEF OnInvoice
  <2> HIDE DEF charged
  <2>4. /\ lines[p] = Len(Items[periods[p].user][periods[p].month])
        /\ \A n \in 1..lines[p] : OnInvoice(i, <<p, n>>)
    BY <2>1 DEF CompleteInv, Saved
  <2>5. LinesOf(p) = {p} \X (1..lines[p])
    BY <2>4 DEF LinesOf
  <2>6. LinesOf(p) \subseteq charged
    BY <2>3, <2>4, <2>5
  <2>7. ASSUME faults = 0, crashes = 0, NEW x \in charged PROVE x \in LinesOf(p)
    <3>1. x \in Line /\ OnInvoice(i, x)
      BY <2>3, <2>7
    <3>2. x[1] = p
      BY <2>1, <2>7, <3>1 DEF CompleteInv, Exactly
    <3>3. Sent(periods[p].user, x)
      BY <2>2, <3>1 DEF Sent
    <3>4. x[2] \in 1..lines[x[1]]
      BY <2>1, <2>2, <3>1, <3>3 DEF Charges, OfTheCustomer
    <3> QED BY <2>5, <3>1, <3>2, <3>4 DEF Line
  <2> QED BY <2>6, <2>7 DEF charged
<1> QED BY <1>1, <1>2, <1>3, <1>4, BasicHolds, PTL DEF Spec
=============================================================================
