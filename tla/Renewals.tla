------------------------------ MODULE Renewals ------------------------------
(***************************************************************************)
(* Renewal billing of a service and of a domain: the nightly cron, the       *)
(* "invoice selected items" action and the client's "renew now" create       *)
(* invoices (billing generate*RenewalInvoice, domains RenewNow); payments,    *)
(* and for the domain a job afterwards, move the due date.                  *)
(***************************************************************************)
EXTENDS Naturals, Sequences, FiniteSets, FiniteSetTheorems, TLAPS

CONSTANTS
    Lead,         \* billing.renewal_lead_days
    DueDays,      \* billing.invoice_due_days
    Cycle,        \* the billing cycle in days
    MaxDay,       \* bound: the last day
    MaxInvoices   \* bound: the invoices created

VARIABLES
    day,       \* today
    row,       \* the rows of the service and of the domain
    invoices,  \* their renewal invoices
    cron,      \* the running cron: the rows its list returned, still to handle
    request,   \* a client's "renew now" between reading the row and its transaction
    payment,   \* a service renewal payment between reading the row and its commit
    jobs,      \* domain:renew jobs in the queue
    events     \* history: what happened that weakens a guarantee
vars == <<day, row, invoices, cron, request, payment, jobs, events>>

Kinds == {"svc", "dom"}
NoPayment == [inv |-> 0, due |-> 0, ends |-> FALSE]
Init ==
    /\ day = 0
    /\ row = [k \in Kinds |-> [status |-> "active", due |-> Cycle, auto |-> TRUE, ends |-> FALSE]]
    /\ invoices = << >>
    /\ cron = "off" /\ request = "off" /\ payment = NoPayment /\ jobs = 0
    /\ events = {}

Of(k) == {i \in DOMAIN invoices : invoices[i].kind = k}

-----------------------------------------------------------------------------
(* Creating invoices.  The row is locked for the whole transaction, so each  *)
(* is one step.                                                             *)

\* Mutant: an overdue invoice no longer counts as open.
UnpaidOnly(k) == {i \in Of(k) : invoices[i].status = "unpaid"} # {}
HasOpenRenewalInvoice(k) == {i \in Of(k) : invoices[i].status \in {"unpaid", "overdue"}} # {}
CreateInvoice(k, due) ==
    /\ invoices' = Append(invoices, [kind |-> k, term |-> row[k].due, due |-> due, status |-> "unpaid"])
    /\ events' = IF k = "dom" /\ jobs > 0 THEN events \cup {"ahead"} ELSE events

generateServiceRenewalInvoice ==
    LET r == row["svc"]
    IN  IF r.status = "active" /\ ~r.ends /\ ~HasOpenRenewalInvoice("svc") /\ Len(invoices) < MaxInvoices
        THEN CreateInvoice("svc", r.due) ELSE UNCHANGED <<invoices, events>>
generateDomainRenewalInvoice ==
    IF row["dom"].status = "active" /\ ~HasOpenRenewalInvoice("dom") /\ Len(invoices) < MaxInvoices
    THEN CreateInvoice("dom", row["dom"].due) ELSE UNCHANGED <<invoices, events>>
Generate(k) == IF k = "svc" THEN generateServiceRenewalInvoice ELSE generateDomainRenewalInvoice

\* Mutant: the last day of the lead is left out.
DueBefore(k) == row[k].status = "active" /\ row[k].due < day + Lead /\ (k = "dom" => row[k].auto)
ListRenewalsDue(k) == row[k].status = "active" /\ row[k].due <= day + Lead /\ (k = "dom" => row[k].auto)
\* The cron lists the services, handles them, then lists the domains.
CronStart ==
    /\ cron = "off"
    /\ cron' = IF ListRenewalsDue("svc") THEN "svc" ELSE "listdom"
    /\ UNCHANGED <<day, row, invoices, request, payment, jobs, events>>
CronListDomains ==
    /\ cron = "listdom" /\ cron' = IF ListRenewalsDue("dom") THEN "dom" ELSE "off"
    /\ UNCHANGED <<day, row, invoices, request, payment, jobs, events>>
\* The lead and auto_renew are not looked at again under the lock.
GenerateRenewalInvoices(k) ==
    /\ cron = k /\ Generate(k) /\ cron' = IF k = "svc" THEN "listdom" ELSE "off"
    /\ UNCHANGED <<day, row, request, payment, jobs>>
\* No lead: whatever the administrator picked.
GenerateSelectedRenewalInvoices(k) ==
    /\ Len(invoices) < MaxInvoices /\ Generate(k)
    /\ UNCHANGED <<day, row, cron, request, payment, jobs>>

RenewNow ==
    /\ request = "off" /\ row["dom"].status \in {"active", "expired"} /\ request' = "tx"
    /\ UNCHANGED <<day, row, invoices, cron, payment, jobs, events>>
\* The status is not looked at again under the lock.
RenewNowTx ==
    /\ request = "tx" /\ request' = "off"
    /\ IF HasOpenRenewalInvoice("dom") \/ Len(invoices) = MaxInvoices
       THEN UNCHANGED <<invoices, events>> ELSE CreateInvoice("dom", day + DueDays)
    /\ UNCHANGED <<day, row, cron, payment, jobs>>

-----------------------------------------------------------------------------
(* Invoices and payments.                                                  *)

Set(i, s) == invoices' = [invoices EXCEPT ![i].status = s]
MarkOverdue(i) ==
    /\ invoices[i].status = "unpaid" /\ invoices[i].due < day /\ Set(i, "overdue")
    /\ UNCHANGED <<day, row, cron, request, payment, jobs, events>>
CancelInvoice(i) ==
    /\ invoices[i].status \in {"unpaid", "overdue"} /\ payment.inv # i /\ Set(i, "cancelled")
    /\ UNCHANGED <<day, row, cron, request, payment, jobs, events>>

\* The invoice is locked; RenewService reads the service row without a lock.
PayService(i) ==
    /\ invoices[i].kind = "svc" /\ invoices[i].status \in {"unpaid", "overdue"} /\ payment = NoPayment
    /\ payment' = [inv |-> i, due |-> row["svc"].due, ends |-> row["svc"].ends]
    /\ UNCHANGED <<day, row, invoices, cron, request, jobs, events>>
\* Mutant: the due date stays.
SameTerm(due) == due
\* Mutant: the next term starts today.
FromToday(due) == day + Cycle
AddCycle(due) == due + Cycle
\* ... and writes the whole row back, in the transaction that marks the invoice paid.
RenewService ==
    /\ payment # NoPayment /\ payment' = NoPayment /\ Set(payment.inv, "paid")
    /\ row' = [row EXCEPT !["svc"].due = AddCycle(payment.due), !["svc"].ends = payment.ends]
    /\ UNCHANGED <<day, cron, request, jobs, events>>
RenewDomainAfterPayment(i) ==
    /\ invoices[i].kind = "dom" /\ invoices[i].status \in {"unpaid", "overdue"}
    /\ Set(i, "paid") /\ jobs' = jobs + 1
    /\ UNCHANGED <<day, row, cron, request, payment, events>>
\* The registrar adds the years to the date it holds; the races of this job are the
\* subject of module Domains.
RenewDomainJob ==
    /\ jobs > 0 /\ jobs' = jobs - 1
    /\ row' = [row EXCEPT !["dom"].due = AddCycle(@),
                          !["dom"].status = IF @ = "expired" THEN "active" ELSE @]
    /\ UNCHANGED <<day, invoices, cron, request, payment, events>>

-----------------------------------------------------------------------------
(* The rows' other changes.                                                *)

NextDay == day < MaxDay /\ day' = day + 1 /\ UNCHANGED <<row, invoices, cron, request, payment, jobs, events>>
\* SyncDomainJob, when the registrar reports the expiry.
ExpireDomain ==
    /\ row["dom"].status = "active" /\ row["dom"].due < day
    /\ row' = [row EXCEPT !["dom"].status = "expired"]
    /\ UNCHANGED <<day, invoices, cron, request, payment, jobs, events>>
\* CancelService at the period's end, and the client's auto_renew switch.
CancelAtPeriodEnd ==
    /\ ~row["svc"].ends /\ row' = [row EXCEPT !["svc"].ends = TRUE]
    /\ UNCHANGED <<day, invoices, cron, request, payment, jobs, events>>
SwitchAutoRenew ==
    /\ row["dom"].auto /\ row' = [row EXCEPT !["dom"].auto = FALSE]
    /\ UNCHANGED <<day, invoices, cron, request, payment, jobs, events>>

Cron == CronStart \/ CronListDomains \/ \E k \in Kinds : GenerateRenewalInvoices(k)
Next ==
    \/ Cron \/ RenewNow \/ RenewNowTx \/ RenewService \/ RenewDomainJob
    \/ NextDay \/ ExpireDomain \/ CancelAtPeriodEnd \/ SwitchAutoRenew
    \/ \E k \in Kinds : GenerateSelectedRenewalInvoices(k)
    \/ \E i \in DOMAIN invoices :
         MarkOverdue(i) \/ CancelInvoice(i) \/ PayService(i) \/ RenewDomainAfterPayment(i)
Spec == Init /\ [][Next]_vars
\* The scheduler starts the cron every night and asynq runs what is queued.
FairSpec ==
    /\ Spec /\ WF_vars(Cron) /\ WF_vars(RenewDomainJob) /\ WF_vars(RenewService)

-----------------------------------------------------------------------------
(* Properties.                                                             *)

\* generateServiceRenewalInvoice "the second caller blocks on the lock, then observes
\* the open invoice the first caller just created": one open renewal invoice at most,
\* whoever creates it and however late it is paid.
OneOpenInvoice ==
    \A k \in Kinds : Cardinality({i \in Of(k) : invoices[i].status \in {"unpaid", "overdue"}}) <= 1

\* One term is billed once: no two invoices that stand are for the same due date,
\* unless the second was created while a paid domain renewal was still queued, when
\* the due date has not moved yet and no invoice is open.
TermBilledOnce ==
    "ahead" \notin events =>
        \A i, j \in DOMAIN invoices :
            (/\ i # j /\ invoices[i].kind = invoices[j].kind /\ invoices[i].term = invoices[j].term)
            => "cancelled" \in {invoices[i].status, invoices[j].status}

\* RenewService and RenewDomainJob: every paid renewal moves the due date by one
\* cycle, no more and no less, whatever is late.
DueMovesAsPaid ==
    \A k \in Kinds :
        row[k].due + (IF k = "dom" THEN Cycle * jobs ELSE 0)
          = Cycle * (1 + Cardinality({i \in Of(k) : invoices[i].status = "paid"}))

\* GenerateRenewalInvoices: what is due within the lead is billed, or stops being due.
Unbilled(k) ==
    /\ row[k].status = "active" /\ row[k].due <= day + Lead /\ row[k].auto /\ ~row[k].ends
    /\ \A i \in Of(k) : invoices[i].status \in {"paid", "cancelled"}
    /\ Len(invoices) < MaxInvoices
DueIsBilled == \A k \in Kinds : Unbilled(k) ~> ~Unbilled(k)

-----------------------------------------------------------------------------
(* Proofs.                                                                 *)

BillingRow == [status : {"active", "expired"}, due : Nat, auto : BOOLEAN, ends : BOOLEAN]
Invoice == [kind : Kinds, term : Nat, due : Nat, status : {"unpaid", "overdue", "paid", "cancelled"}]
TypeOK ==
    /\ day \in Nat /\ jobs \in Nat
    /\ row \in [Kinds -> BillingRow] /\ invoices \in Seq(Invoice)
    /\ payment \in [inv : Nat, due : Nat, ends : BOOLEAN]

Open(k) == {i \in DOMAIN invoices : invoices[i].kind = k /\ invoices[i].status \in {"unpaid", "overdue"}}
Paid(k) == {i \in DOMAIN invoices : invoices[i].kind = k /\ invoices[i].status = "paid"}

\* One invoice of a kind is open, and a payment under way is for it and has
\* seen the due date that stands.
OpenOnce ==
    /\ \A k \in Kinds : \A i, j \in Open(k) : i = j
    /\ payment # NoPayment => payment.inv \in Open("svc") /\ payment.due = row["svc"].due

DueMoved ==
    \A k \in Kinds : row[k].due + (IF k = "dom" THEN Cycle * jobs ELSE 0)
                       = Cycle * (1 + Cardinality(Paid(k)))

\* The open invoice is for the term that starts at the due date, the paid ones
\* for earlier terms, or for that one while its job is queued.
TermsBehind ==
    \A k \in Kinds :
        /\ \A i \in Open(k) : invoices[i].term = row[k].due /\ (k = "dom" => jobs = 0)
        /\ \A i \in Paid(k) : /\ invoices[i].term <= row[k].due
                              /\ k = "svc" \/ jobs = 0 => invoices[i].term < row[k].due

BillingInv ==
    /\ TypeOK /\ OpenOnce /\ DueMoved /\ TermBilledOnce
    /\ "ahead" \notin events => TermsBehind

LEMMA Sets == \A k \in Kinds :
    /\ Open(k) = {i \in Of(k) : invoices[i].status \in {"unpaid", "overdue"}}
    /\ Paid(k) = {i \in Of(k) : invoices[i].status = "paid"}
BY DEF Open, Paid, Of

LEMMA Invoices ==
    ASSUME TypeOK
    PROVE  /\ DOMAIN invoices = 1 .. Len(invoices) /\ Len(invoices) \in Nat
           /\ \A i \in DOMAIN invoices : invoices[i] \in Invoice
           /\ \A k : IsFiniteSet(Paid(k)) /\ Cardinality(Paid(k)) \in Nat
<1>1. DOMAIN invoices = 1 .. Len(invoices) /\ Len(invoices) \in Nat
  BY DEF TypeOK
<1>2. \A i \in DOMAIN invoices : invoices[i] \in Invoice
  BY <1>1 DEF TypeOK
<1>3. IsFiniteSet(DOMAIN invoices)
  BY <1>1, FS_Interval
<1>4. ASSUME NEW k PROVE IsFiniteSet(Paid(k)) /\ Cardinality(Paid(k)) \in Nat
  <2>1. Paid(k) \subseteq DOMAIN invoices
    BY DEF Paid
  <2> QED BY <1>3, <2>1, FS_Subset, FS_CardinalityType
<1> QED BY <1>1, <1>2, <1>4

\* What a change of one invoice's status leaves alone.
LEMMA StatusSet ==
    ASSUME TypeOK, NEW i \in DOMAIN invoices, NEW s \in {"overdue", "paid", "cancelled"}, Set(i, s)
    PROVE  /\ invoices' \in Seq(Invoice) /\ DOMAIN invoices' = DOMAIN invoices
           /\ invoices'[i].status = s
           /\ \A j \in DOMAIN invoices \ {i} : invoices'[j] = invoices[j]
           /\ \A j \in DOMAIN invoices : /\ invoices'[j].kind = invoices[j].kind
                                         /\ invoices'[j].term = invoices[j].term
<1>1. /\ invoices' = [invoices EXCEPT ![i].status = s] /\ invoices \in Seq(Invoice)
      /\ invoices[i] \in Invoice /\ DOMAIN invoices = 1 .. Len(invoices) /\ Len(invoices) \in Nat
  BY Invoices DEF Set, TypeOK
<1>2. [invoices[i] EXCEPT !.status = s] \in Invoice
  BY <1>1 DEF Invoice
<1>3. /\ [invoices[i] EXCEPT !.status = s].kind = invoices[i].kind
      /\ [invoices[i] EXCEPT !.status = s].term = invoices[i].term
      /\ [invoices[i] EXCEPT !.status = s].status = s
  BY <1>1 DEF Invoice
<1> DEFINE new == [invoices[i] EXCEPT !.status = s]
<1>4. invoices' = [invoices EXCEPT ![i] = new]
  BY <1>1
<1> HIDE DEF new
<1>5. /\ invoices' \in Seq(Invoice) /\ DOMAIN invoices' = DOMAIN invoices
      /\ invoices'[i] = new /\ \A j \in DOMAIN invoices \ {i} : invoices'[j] = invoices[j]
  BY <1>1, <1>2, <1>4 DEF new
<1> QED BY <1>3, <1>5 DEF new

LEMMA BillingInit == Cycle \in Nat \ {0} /\ Init => BillingInv
<1> SUFFICES ASSUME Cycle \in Nat \ {0}, Init PROVE BillingInv
  OBVIOUS
<1>1. invoices = << >> /\ DOMAIN invoices = {} /\ payment = NoPayment /\ jobs = 0 /\ day = 0
  BY DEF Init
<1>2. TypeOK
  BY <1>1 DEF Init, TypeOK, BillingRow, NoPayment
<1>3. \A k \in Kinds : Open(k) = {} /\ Paid(k) = {}
  BY <1>1 DEF Open, Paid
<1>4. DueMoved
  <2>1. \A k \in Kinds : row[k].due = Cycle /\ Cardinality(Paid(k)) = 0
    BY <1>3, FS_EmptySet DEF Init
  <2>2. Cycle * jobs = 0 /\ Cycle * (1 + 0) = Cycle
    BY <1>1
  <2> QED BY <2>1, <2>2 DEF DueMoved
<1>5. OpenOnce /\ TermBilledOnce /\ TermsBehind
  BY <1>1, <1>3 DEF OpenOnce, TermBilledOnce, TermsBehind
<1> QED BY <1>2, <1>4, <1>5 DEF BillingInv

\* Whatever stays cancelled or keeps its kind and term is billed as often.
LEMMA BilledFrame ==
    ASSUME TermBilledOnce, events' = events, DOMAIN invoices' = DOMAIN invoices,
           \A j \in DOMAIN invoices :
              /\ invoices'[j].kind = invoices[j].kind /\ invoices'[j].term = invoices[j].term
              /\ invoices[j].status = "cancelled" => invoices'[j].status = "cancelled"
    PROVE  TermBilledOnce'
BY DEF TermBilledOnce

\* A step that moves no due date and touches no invoice.
LEMMA RowFrame ==
    ASSUME BillingInv, UNCHANGED <<invoices, payment, jobs, events>>,
           day' \in Nat, row' \in [Kinds -> BillingRow], \A k \in Kinds : row'[k].due = row[k].due
    PROVE  BillingInv'
<1>1. TypeOK'
  BY DEF BillingInv, TypeOK
<1>2. \A k \in Kinds : Open(k)' = Open(k) /\ Paid(k)' = Paid(k)
  BY DEF Open, Paid
<1>3. OpenOnce'
  BY <1>2 DEF BillingInv, OpenOnce, Kinds
<1>4. DueMoved'
  BY <1>2 DEF BillingInv, DueMoved
<1>5. TermBilledOnce'
  BY DEF BillingInv, TermBilledOnce
<1>6. "ahead" \notin events' => TermsBehind'
  BY <1>2 DEF BillingInv, TermsBehind
<1> QED BY <1>1, <1>3, <1>4, <1>5, <1>6 DEF BillingInv

\* A renewal invoice is created when none of its kind is open.
LEMMA Created ==
    ASSUME BillingInv, NEW k \in Kinds, Open(k) = {}, NEW due \in Nat, CreateInvoice(k, due),
           UNCHANGED <<day, row, payment, jobs>>
    PROVE  BillingInv'
<1> DEFINE n == Len(invoices) + 1
           new == [kind |-> k, term |-> row[k].due, due |-> due, status |-> "unpaid"]
<1>t. /\ TypeOK /\ OpenOnce /\ DueMoved /\ TermBilledOnce
      /\ row[k].due \in Nat /\ jobs \in Nat /\ invoices \in Seq(Invoice)
      /\ DOMAIN invoices = 1 .. Len(invoices) /\ Len(invoices) \in Nat
      /\ \A i \in DOMAIN invoices : invoices[i] \in Invoice
  BY Invoices DEF BillingInv, TypeOK, BillingRow
<1>1. /\ invoices' = Append(invoices, new) /\ new \in Invoice
      /\ new.kind = k /\ new.term = row[k].due /\ new.status = "unpaid"
  BY <1>t DEF CreateInvoice, Invoice
<1> HIDE DEF new
<1>2. /\ invoices' \in Seq(Invoice) /\ DOMAIN invoices' = DOMAIN invoices \cup {n} /\ n \notin DOMAIN invoices
      /\ invoices'[n] = new /\ \A i \in DOMAIN invoices : invoices'[i] = invoices[i]
  <2>1. Len(invoices') = n /\ invoices' \in Seq(Invoice)
    BY <1>t, <1>1
  <2>2. DOMAIN invoices' = 1 .. n
    BY <2>1
  <2> QED BY <1>t, <1>1, <2>1, <2>2
<1> HIDE DEF n
<1>3. TypeOK'
  BY <1>t, <1>2 DEF TypeOK
<1>4. \A j \in Kinds : /\ Paid(j)' = Paid(j)
                       /\ Open(j)' = IF j = k THEN {n} ELSE Open(j)
  <2>1. \A j \in Kinds : Paid(j)' = Paid(j)
    BY <1>1, <1>2 DEF Paid
  <2>2. Open(k)' = {n}
    BY <1>1, <1>2 DEF Open
  <2>3. \A j \in Kinds \ {k} : Open(j)' = Open(j)
    BY <1>1, <1>2 DEF Open
  <2> QED BY <2>1, <2>2, <2>3
<1>5. OpenOnce'
  <2>1. \A j \in Kinds : \A a, b \in Open(j)' : a = b
    BY <1>t, <1>4 DEF OpenOnce
  <2>2. payment # NoPayment => payment.inv \in Open("svc") /\ payment.due = row["svc"].due /\ k # "svc"
    BY <1>t DEF OpenOnce
  <2> QED BY <1>4, <2>1, <2>2 DEF OpenOnce, Kinds
<1>6. DueMoved'
  BY <1>t, <1>4 DEF DueMoved
<1>7. "ahead" \notin events' => "ahead" \notin events /\ (k = "dom" => jobs = 0)
  BY <1>t DEF CreateInvoice
<1>8. "ahead" \notin events' => TermsBehind'
  <2> SUFFICES ASSUME "ahead" \notin events' PROVE TermsBehind'
    OBVIOUS
  <2>1. TermsBehind
    BY <1>7 DEF BillingInv
  <2>2. ASSUME NEW j \in Kinds, NEW i \in Open(j)'
        PROVE  invoices'[i].term = row'[j].due /\ (j = "dom" => jobs' = 0)
    <3>1. CASE j = k
      BY <1>1, <1>2, <1>4, <1>7, <2>2, <3>1
    <3>2. CASE j # k
      <4>1. i \in Open(j) /\ i \in DOMAIN invoices
        BY <1>4, <2>2, <3>2 DEF Open
      <4> QED BY <1>2, <2>1, <4>1 DEF TermsBehind
    <3> QED BY <3>1, <3>2
  <2>3. ASSUME NEW j \in Kinds, NEW i \in Paid(j)'
        PROVE  /\ invoices'[i].term <= row'[j].due
               /\ j = "svc" \/ jobs' = 0 => invoices'[i].term < row'[j].due
    <3>1. i \in Paid(j) /\ i \in DOMAIN invoices
      BY <1>4, <2>3 DEF Paid
    <3> QED BY <1>2, <2>1, <3>1 DEF TermsBehind
  <2> QED BY <2>2, <2>3 DEF TermsBehind
<1>9. TermBilledOnce'
  <2> SUFFICES ASSUME "ahead" \notin events', NEW i \in DOMAIN invoices', NEW j \in DOMAIN invoices',
                      i # j, invoices'[i].kind = invoices'[j].kind,
                      invoices'[i].term = invoices'[j].term
               PROVE  "cancelled" \in {invoices'[i].status, invoices'[j].status}
    BY DEF TermBilledOnce
  <2>1. ASSUME NEW o \in DOMAIN invoices, invoices[o].kind = k, invoices[o].term = row[k].due
        PROVE  invoices[o].status = "cancelled"
    <3>1. TermsBehind
      BY <1>7 DEF BillingInv
    <3>2. o \notin Open(k)
      OBVIOUS
    <3>3. o \notin Paid(k)
      <4>1. k = "svc" \/ jobs = 0
        BY <1>7 DEF Kinds
      <4> QED BY <1>t, <2>1, <3>1, <4>1 DEF TermsBehind
    <3>4. invoices[o].status \in {"unpaid", "overdue", "paid", "cancelled"}
      BY <1>t DEF Invoice
    <3> QED BY <2>1, <3>2, <3>3, <3>4 DEF Open, Paid
  <2>2. CASE i \in DOMAIN invoices /\ j \in DOMAIN invoices
    BY <1>t, <1>2, <1>7, <2>2 DEF TermBilledOnce
  <2>3. CASE i = n
    <3>1. j \in DOMAIN invoices
      BY <1>2, <2>3
    <3> QED BY <1>1, <1>2, <2>1, <2>3, <3>1
  <2>4. CASE j = n
    <3>1. i \in DOMAIN invoices
      BY <1>2, <2>4
    <3> QED BY <1>1, <1>2, <2>1, <2>4, <3>1
  <2> QED BY <1>2, <2>2, <2>3, <2>4
<1> QED BY <1>3, <1>5, <1>6, <1>8, <1>9 DEF BillingInv

\* The open invoice of a kind is paid.
LEMMA PaidSet ==
    ASSUME TypeOK, OpenOnce, NEW k \in Kinds, NEW i \in Open(k), Set(i, "paid")
    PROVE  /\ Open(k)' = {} /\ Paid(k)' = Paid(k) \cup {i}
           /\ Cardinality(Paid(k)') = Cardinality(Paid(k)) + 1
           /\ \A j \in Kinds \ {k} : Open(j)' = Open(j) /\ Paid(j)' = Paid(j)
<1>1. i \in DOMAIN invoices /\ invoices[i].kind = k /\ invoices[i].status # "paid"
  BY DEF Open
<1>2. /\ DOMAIN invoices' = DOMAIN invoices /\ invoices'[i].status = "paid"
      /\ \A j \in DOMAIN invoices \ {i} : invoices'[j] = invoices[j]
      /\ \A j \in DOMAIN invoices : invoices'[j].kind = invoices[j].kind
  BY <1>1, StatusSet
<1>3. Open(k)' = {}
  <2>1. \A j \in Open(k) : j = i
    BY DEF OpenOnce
  <2> QED BY <1>2, <2>1 DEF Open
<1>4. Paid(k)' = Paid(k) \cup {i} /\ i \notin Paid(k)
  BY <1>1, <1>2 DEF Paid
<1>5. Cardinality(Paid(k) \cup {i}) = Cardinality(Paid(k)) + 1
  BY <1>4, Invoices, FS_AddElement
<1>6. \A j \in Kinds \ {k} : Open(j)' = Open(j) /\ Paid(j)' = Paid(j)
  BY <1>1, <1>2 DEF Open, Paid
<1> QED BY <1>3, <1>4, <1>5, <1>6

\* One of the two rows is written.
LEMMA Written ==
    ASSUME row \in [Kinds -> BillingRow], NEW k \in Kinds, NEW r \in BillingRow,
           row' = [row EXCEPT ![k] = r]
    PROVE  /\ row' \in [Kinds -> BillingRow] /\ row'[k] = r
           /\ \A j \in Kinds \ {k} : row'[j] = row[j]
OBVIOUS

\* The fields of a row, one at a time.
LEMMA Fields ==
    ASSUME NEW r \in BillingRow
    PROVE  /\ \A d \in Nat : /\ [r EXCEPT !.due = d] \in BillingRow
                             /\ [r EXCEPT !.due = d].due = d
                             /\ [r EXCEPT !.due = d].status = r.status
           /\ \A e \in BOOLEAN : [r EXCEPT !.ends = e] \in BillingRow /\ [r EXCEPT !.ends = e].due = r.due
           /\ \A a \in BOOLEAN : [r EXCEPT !.auto = a] \in BillingRow /\ [r EXCEPT !.auto = a].due = r.due
           /\ \A t \in {"active", "expired"} :
                 [r EXCEPT !.status = t] \in BillingRow /\ [r EXCEPT !.status = t].due = r.due
BY DEF BillingRow

LEMMA BillingStep ==
    ASSUME Cycle \in Nat \ {0}, DueDays \in Nat, BillingInv, [Next]_vars
    PROVE  BillingInv'
<1>t. /\ TypeOK /\ OpenOnce /\ DueMoved /\ TermBilledOnce
      /\ day \in Nat /\ jobs \in Nat /\ row \in [Kinds -> BillingRow]
      /\ \A k \in Kinds : row[k] \in BillingRow /\ row[k].due \in Nat
      /\ "svc" \in Kinds /\ "dom" \in Kinds
  BY DEF BillingInv, TypeOK, BillingRow, Kinds
<1>1. CASE CronStart \/ CronListDomains \/ RenewNow \/ NextDay \/ UNCHANGED vars
  <2>1. UNCHANGED <<row, invoices, payment, jobs, events>> /\ day' \in Nat
    BY <1>1, <1>t DEF CronStart, CronListDomains, RenewNow, NextDay, vars
  <2> QED BY <1>t, <2>1, RowFrame
<1>2. CASE ExpireDomain \/ CancelAtPeriodEnd \/ SwitchAutoRenew
  <2>1. UNCHANGED <<day, invoices, payment, jobs, events>>
    BY <1>2 DEF ExpireDomain, CancelAtPeriodEnd, SwitchAutoRenew
  <2>2. row' \in [Kinds -> BillingRow] /\ \A k \in Kinds : row'[k].due = row[k].due
    <3>1. CASE ExpireDomain
      <4>1. row' = [row EXCEPT !["dom"] = [row["dom"] EXCEPT !.status = "expired"]]
        BY <3>1 DEF ExpireDomain
      <4>2. /\ [row["dom"] EXCEPT !.status = "expired"] \in BillingRow
            /\ [row["dom"] EXCEPT !.status = "expired"].due = row["dom"].due
        BY <1>t, Fields
      <4> QED BY <1>t, <4>1, <4>2, Written
    <3>2. CASE CancelAtPeriodEnd
      <4>1. row' = [row EXCEPT !["svc"] = [row["svc"] EXCEPT !.ends = TRUE]]
        BY <3>2 DEF CancelAtPeriodEnd
      <4>2. /\ [row["svc"] EXCEPT !.ends = TRUE] \in BillingRow
            /\ [row["svc"] EXCEPT !.ends = TRUE].due = row["svc"].due
        BY <1>t, Fields
      <4> QED BY <1>t, <4>1, <4>2, Written
    <3>3. CASE SwitchAutoRenew
      <4>1. row' = [row EXCEPT !["dom"] = [row["dom"] EXCEPT !.auto = FALSE]]
        BY <3>3 DEF SwitchAutoRenew
      <4>2. /\ [row["dom"] EXCEPT !.auto = FALSE] \in BillingRow
            /\ [row["dom"] EXCEPT !.auto = FALSE].due = row["dom"].due
        BY <1>t, Fields
      <4> QED BY <1>t, <4>1, <4>2, Written
    <3> QED BY <1>2, <3>1, <3>2, <3>3
  <2> QED BY <1>t, <2>1, <2>2, RowFrame
<1>3. CASE \/ \E k \in Kinds : GenerateRenewalInvoices(k) \/ GenerateSelectedRenewalInvoices(k)
           \/ RenewNowTx
  <2>1. UNCHANGED <<day, row, payment, jobs>>
    BY <1>3 DEF GenerateRenewalInvoices, GenerateSelectedRenewalInvoices, RenewNowTx
  <2>2. \/ UNCHANGED <<invoices, events>>
        \/ \E k \in Kinds : ~HasOpenRenewalInvoice(k) /\ CreateInvoice(k, row[k].due)
        \/ ~HasOpenRenewalInvoice("dom") /\ CreateInvoice("dom", day + DueDays)
    BY <1>3, <1>t DEF GenerateRenewalInvoices, GenerateSelectedRenewalInvoices, RenewNowTx, Generate,
       generateServiceRenewalInvoice, generateDomainRenewalInvoice
  <2>3. \A k \in Kinds : ~HasOpenRenewalInvoice(k) => Open(k) = {}
    BY Sets DEF HasOpenRenewalInvoice
  <2>4. CASE UNCHANGED <<invoices, events>>
    BY <1>t, <2>1, <2>4, RowFrame
  <2>5. ASSUME NEW k \in Kinds, NEW due \in Nat, ~HasOpenRenewalInvoice(k), CreateInvoice(k, due)
        PROVE  BillingInv'
    BY <2>1, <2>3, <2>5, Created
  <2>6. day + DueDays \in Nat
    BY <1>t
  <2> QED BY <1>t, <2>2, <2>4, <2>5, <2>6
<1>4. ASSUME NEW i \in DOMAIN invoices, MarkOverdue(i) \/ CancelInvoice(i)
      PROVE  BillingInv'
  <2>1. PICK s \in {"overdue", "cancelled"} :
           Set(i, s) /\ (s = "cancelled" => payment.inv # i)
    BY <1>4 DEF MarkOverdue, CancelInvoice
  <2>2. /\ UNCHANGED <<day, row, payment, jobs, events>>
        /\ invoices[i].status \in {"unpaid", "overdue"}
    BY <1>4 DEF MarkOverdue, CancelInvoice
  <2>3. /\ invoices' \in Seq(Invoice) /\ DOMAIN invoices' = DOMAIN invoices
        /\ invoices'[i].status = s
        /\ \A j \in DOMAIN invoices \ {i} : invoices'[j] = invoices[j]
        /\ \A j \in DOMAIN invoices : /\ invoices'[j].kind = invoices[j].kind
                                      /\ invoices'[j].term = invoices[j].term
    BY <1>t, <2>1, StatusSet
  <2>4. TypeOK'
    BY <1>t, <2>2, <2>3 DEF TypeOK
  <2>5. ASSUME NEW k \in Kinds
        PROVE  /\ Paid(k)' = Paid(k) /\ Open(k)' \subseteq Open(k)
               /\ \A j \in Open(k) : j # i \/ s = "overdue" => j \in Open(k)'
    <3>1. Paid(k)' = Paid(k)
      BY <2>2, <2>3 DEF Paid
    <3>2. Open(k)' \subseteq Open(k)
      BY <2>2, <2>3 DEF Open
    <3>3. \A j \in Open(k) : j # i \/ s = "overdue" => j \in Open(k)'
      BY <2>3 DEF Open
    <3> QED BY <3>1, <3>2, <3>3
  <2>6. OpenOnce'
    <3>1. payment # NoPayment => payment.inv \in Open("svc")' /\ payment.due = row["svc"].due
      BY <1>t, <2>1, <2>5 DEF OpenOnce
    <3> QED BY <1>t, <2>2, <2>5, <3>1 DEF OpenOnce
  <2>7. DueMoved'
    BY <1>t, <2>2, <2>5 DEF DueMoved
  <2>8. TermBilledOnce'
    BY <1>t, <2>2, <2>3, BilledFrame
  <2>9. "ahead" \notin events' => TermsBehind'
    <3>1. \A k \in Kinds : /\ \A j \in Open(k)' : j \in Open(k) /\ invoices'[j].term = invoices[j].term
                           /\ \A j \in Paid(k)' : j \in Paid(k) /\ invoices'[j].term = invoices[j].term
      BY <2>3, <2>5 DEF Open, Paid
    <3> QED BY <2>2, <3>1 DEF BillingInv, TermsBehind
  <2> QED BY <2>4, <2>6, <2>7, <2>8, <2>9 DEF BillingInv
<1>5. ASSUME NEW i \in DOMAIN invoices, PayService(i) PROVE BillingInv'
  <2>1. /\ UNCHANGED <<day, row, invoices, jobs, events>> /\ i \in Open("svc")
        /\ payment' = [inv |-> i, due |-> row["svc"].due, ends |-> row["svc"].ends]
    BY <1>5 DEF PayService, Open
  <2>2. i \in Nat /\ row["svc"].ends \in BOOLEAN
    BY <1>t, Invoices DEF BillingRow
  <2>3. TypeOK'
    BY <1>t, <2>1, <2>2 DEF TypeOK
  <2>4. \A k \in Kinds : Open(k)' = Open(k) /\ Paid(k)' = Paid(k)
    BY <2>1 DEF Open, Paid
  <2>5. OpenOnce'
    BY <1>t, <2>1, <2>4 DEF OpenOnce
  <2>6. DueMoved'
    BY <1>t, <2>1, <2>4 DEF DueMoved
  <2>7. TermBilledOnce'
    BY <1>t, <2>1, BilledFrame
  <2>8. "ahead" \notin events' => TermsBehind'
    BY <2>1, <2>4 DEF BillingInv, TermsBehind
  <2> QED BY <2>3, <2>5, <2>6, <2>7, <2>8 DEF BillingInv
<1>6. CASE RenewService
  <2> DEFINE i == payment.inv
  <2>1. /\ i \in Open("svc") /\ payment.due = row["svc"].due /\ Set(i, "paid") /\ payment' = NoPayment
        /\ UNCHANGED <<day, jobs, events>>
        /\ row' = [row EXCEPT !["svc"].due = AddCycle(payment.due), !["svc"].ends = payment.ends]
    BY <1>t, <1>6 DEF RenewService, OpenOnce
  <2> HIDE DEF i
  <2>2. row' \in [Kinds -> BillingRow] /\ row'["svc"].due = row["svc"].due + Cycle /\ row'["dom"] = row["dom"]
    <3>1. payment.ends \in BOOLEAN
      BY <1>t DEF TypeOK
    <3> DEFINE due == [row["svc"] EXCEPT !.due = payment.due + Cycle]
               mid == [row EXCEPT !["svc"] = due]
    <3>2. due \in BillingRow /\ due.due = row["svc"].due + Cycle
      <4>1. payment.due = row["svc"].due /\ payment.due + Cycle \in Nat
        BY <1>t, <2>1
      <4>2. [row["svc"] EXCEPT !.due = row["svc"].due + Cycle] \in BillingRow
        BY <1>t DEF BillingRow
      <4>3. [row["svc"] EXCEPT !.due = row["svc"].due + Cycle].due = row["svc"].due + Cycle
        BY <1>t, Fields
      <4> QED BY <4>1, <4>2, <4>3
    <3>3. row' = [mid EXCEPT !["svc"] = [mid["svc"] EXCEPT !.ends = payment.ends]]
      BY <1>6 DEF RenewService, AddCycle
    <3> HIDE DEF due
    <3>4. mid["svc"] = due /\ mid \in [Kinds -> BillingRow] /\ mid["dom"] = row["dom"]
      BY <1>t, <3>2
    <3> HIDE DEF mid
    <3>5. /\ [mid["svc"] EXCEPT !.ends = payment.ends] \in BillingRow
          /\ [mid["svc"] EXCEPT !.ends = payment.ends].due = row["svc"].due + Cycle
      <4>1. mid["svc"] \in BillingRow /\ mid["svc"].due = row["svc"].due + Cycle
        BY <3>2, <3>4
      <4> QED BY <3>1, <4>1, Fields
    <3> QED BY <1>t, <3>3, <3>4, <3>5
  <2>3. /\ Open("svc")' = {} /\ Paid("svc")' = Paid("svc") \cup {i}
        /\ Cardinality(Paid("svc")') = Cardinality(Paid("svc")) + 1
        /\ Open("dom")' = Open("dom") /\ Paid("dom")' = Paid("dom")
    BY <1>t, <2>1, PaidSet
  <2>4. /\ invoices' \in Seq(Invoice) /\ DOMAIN invoices' = DOMAIN invoices
        /\ \A j \in DOMAIN invoices \ {i} : invoices'[j] = invoices[j]
        /\ \A j \in DOMAIN invoices : /\ invoices'[j].kind = invoices[j].kind
                                      /\ invoices'[j].term = invoices[j].term
        /\ i \in DOMAIN invoices /\ invoices[i].status # "cancelled"
    BY <1>t, <2>1, StatusSet DEF Open
  <2>5. TypeOK'
    BY <1>t, <2>1, <2>2, <2>4 DEF TypeOK, NoPayment
  <2>6. OpenOnce'
    BY <1>t, <2>1, <2>3 DEF OpenOnce, Kinds
  <2>7. DueMoved'
    <3>1. row'["svc"].due = Cycle * (1 + Cardinality(Paid("svc")'))
      <4>1. row["svc"].due = Cycle * (1 + Cardinality(Paid("svc"))) /\ Cardinality(Paid("svc")) \in Nat
        BY <1>t, Invoices DEF DueMoved
      <4>2. \A c \in Nat : Cycle * (1 + (c + 1)) = Cycle * (1 + c) + Cycle
        OBVIOUS
      <4> QED BY <2>2, <2>3, <4>1, <4>2
    <3>2. row'["dom"].due + Cycle * jobs' = Cycle * (1 + Cardinality(Paid("dom")'))
      BY <1>t, <2>1, <2>2, <2>3 DEF DueMoved
    <3>3. row'["svc"].due + 0 = row'["svc"].due
      BY <1>t, <2>2
    <3> QED BY <3>1, <3>2, <3>3 DEF DueMoved, Kinds
  <2>8. TermBilledOnce'
    BY <1>t, <2>1, <2>4, BilledFrame
  <2>9. "ahead" \notin events' => TermsBehind'
    <3> SUFFICES ASSUME TermsBehind PROVE TermsBehind'
      BY <2>1 DEF BillingInv
    <3>1. \A j \in Paid("svc")' : invoices'[j].term <= row["svc"].due /\ invoices'[j].term \in Nat
      <4>1. \A j \in DOMAIN invoices : invoices[j].term \in Nat
        BY <1>t, Invoices DEF Invoice
      <4>2. invoices[i].term <= row["svc"].due
        BY <1>t, <2>1 DEF TermsBehind
      <4>3. \A j \in Paid("svc") : invoices[j].term <= row["svc"].due /\ j \in DOMAIN invoices
        BY <1>t DEF TermsBehind, Paid
      <4> QED BY <2>3, <2>4, <4>1, <4>2, <4>3
    <3>2. \A j \in Paid("svc")' : invoices'[j].term < row'["svc"].due
      BY <1>t, <2>2, <3>1
    <3>3. \A j \in Paid("svc")' : invoices'[j].term <= row'["svc"].due
      BY <1>t, <2>2, <3>1
    <3>4. \A j \in Open("dom") \cup Paid("dom") : invoices'[j].term = invoices[j].term
      BY <2>4 DEF Open, Paid
    <3> QED BY <2>1, <2>2, <2>3, <3>2, <3>3, <3>4 DEF TermsBehind, Kinds
  <2> QED BY <2>5, <2>6, <2>7, <2>8, <2>9 DEF BillingInv
<1>7. ASSUME NEW i \in DOMAIN invoices, RenewDomainAfterPayment(i) PROVE BillingInv'
  <2>1. /\ i \in Open("dom") /\ Set(i, "paid") /\ jobs' = jobs + 1
        /\ UNCHANGED <<day, row, payment, events>>
    BY <1>7 DEF RenewDomainAfterPayment, Open
  <2>2. /\ Open("dom")' = {} /\ Paid("dom")' = Paid("dom") \cup {i}
        /\ Cardinality(Paid("dom")') = Cardinality(Paid("dom")) + 1
        /\ Open("svc")' = Open("svc") /\ Paid("svc")' = Paid("svc")
    BY <1>t, <2>1, PaidSet
  <2>3. /\ invoices' \in Seq(Invoice) /\ DOMAIN invoices' = DOMAIN invoices
        /\ \A j \in DOMAIN invoices \ {i} : invoices'[j] = invoices[j]
        /\ \A j \in DOMAIN invoices : /\ invoices'[j].kind = invoices[j].kind
                                      /\ invoices'[j].term = invoices[j].term
        /\ invoices[i].status # "cancelled"
    BY <1>t, <2>1, StatusSet DEF Open
  <2>4. TypeOK'
    BY <1>t, <2>1, <2>3 DEF TypeOK
  <2>5. OpenOnce'
    BY <1>t, <2>1, <2>2 DEF OpenOnce, Kinds
  <2>6. DueMoved'
    <3>1. row["dom"].due + Cycle * (jobs + 1) = Cycle * (1 + Cardinality(Paid("dom")'))
      <4>1. row["dom"].due + Cycle * jobs = Cycle * (1 + Cardinality(Paid("dom"))) /\ Cardinality(Paid("dom")) \in Nat
        BY <1>t, Invoices DEF DueMoved
      <4>2. \A c \in Nat : Cycle * (1 + (c + 1)) = Cycle * (1 + c) + Cycle
        OBVIOUS
      <4>3. Cycle * (jobs + 1) = Cycle * jobs + Cycle /\ Cycle * jobs \in Nat
        BY <1>t
      <4> QED BY <1>t, <2>2, <4>1, <4>2, <4>3
    <3> QED BY <1>t, <2>1, <2>2, <3>1 DEF DueMoved, Kinds
  <2>7. TermBilledOnce'
    BY <1>t, <2>1, <2>3, BilledFrame
  <2>8. "ahead" \notin events' => TermsBehind'
    <3> SUFFICES ASSUME TermsBehind PROVE TermsBehind'
      BY <2>1 DEF BillingInv
    <3>1. invoices[i].term <= row["dom"].due
      BY <1>t, <2>1 DEF TermsBehind
    <3>2. \A j \in Paid("dom") : invoices[j].term <= row["dom"].due /\ j \in DOMAIN invoices
      BY <1>t DEF TermsBehind, Paid
    <3>3. \A j \in Paid("dom")' : invoices'[j].term <= row'["dom"].due
      BY <2>1, <2>2, <2>3, <3>1, <3>2
    <3>4. jobs' # 0
      BY <1>t, <2>1
    <3>5. \A j \in Open("svc") \cup Paid("svc") : invoices'[j].term = invoices[j].term
      BY <2>3 DEF Open, Paid
    <3> QED BY <2>1, <2>2, <3>3, <3>4, <3>5 DEF TermsBehind, Kinds
  <2> QED BY <2>4, <2>5, <2>6, <2>7, <2>8 DEF BillingInv
<1>8. CASE RenewDomainJob
  <2>1. /\ jobs > 0 /\ jobs' = jobs - 1 /\ jobs' \in Nat
        /\ UNCHANGED <<day, invoices, payment, events>>
        /\ row' \in [Kinds -> BillingRow] /\ row'["dom"].due = row["dom"].due + Cycle
        /\ row'["svc"] = row["svc"]
    <3> DEFINE due == [row["dom"] EXCEPT !.due = row["dom"].due + Cycle]
               mid == [row EXCEPT !["dom"] = due]
               status == IF mid["dom"].status = "expired" THEN "active" ELSE mid["dom"].status
    <3>1. /\ due \in BillingRow /\ due.due = row["dom"].due + Cycle
          /\ due.status \in {"active", "expired"}
      BY <1>t, Fields DEF BillingRow
    <3>2. row' = [mid EXCEPT !["dom"] = [mid["dom"] EXCEPT !.status = status]]
      BY <1>8 DEF RenewDomainJob, AddCycle
    <3> HIDE DEF due
    <3>3. mid["dom"] = due /\ mid \in [Kinds -> BillingRow] /\ mid["svc"] = row["svc"]
      BY <1>t, <3>1
    <3>4. status \in {"active", "expired"}
      BY <3>1, <3>3
    <3> HIDE DEF mid, status
    <3>5. /\ [mid["dom"] EXCEPT !.status = status] \in BillingRow
          /\ [mid["dom"] EXCEPT !.status = status].due = row["dom"].due + Cycle
      <4>1. mid["dom"] \in BillingRow /\ mid["dom"].due = row["dom"].due + Cycle
        BY <3>1, <3>3
      <4> QED BY <3>4, <4>1, Fields
    <3>6. /\ jobs > 0 /\ jobs' = jobs - 1 /\ jobs' \in Nat
          /\ UNCHANGED <<day, invoices, payment, events>>
      BY <1>t, <1>8 DEF RenewDomainJob
    <3> QED BY <1>t, <3>2, <3>3, <3>5, <3>6
  <2>2. TypeOK'
    BY <1>t, <2>1 DEF TypeOK
  <2>3. \A k \in Kinds : Open(k)' = Open(k) /\ Paid(k)' = Paid(k)
    BY <2>1 DEF Open, Paid
  <2>4. OpenOnce'
    BY <1>t, <2>1, <2>3 DEF OpenOnce
  <2>5. DueMoved'
    <3>1. row["dom"].due + Cycle * jobs = row'["dom"].due + Cycle * jobs'
      <4>1. Cycle * (jobs' + 1) = Cycle * jobs' + Cycle /\ jobs' + 1 = jobs /\ Cycle * jobs' \in Nat
        BY <1>t, <2>1
      <4> QED BY <1>t, <2>1, <4>1
    <3> QED BY <1>t, <2>1, <2>3, <3>1 DEF DueMoved, Kinds
  <2>6. TermBilledOnce'
    BY <1>t, <2>1, BilledFrame
  <2>7. "ahead" \notin events' => TermsBehind'
    <3> SUFFICES ASSUME TermsBehind PROVE TermsBehind'
      BY <2>1 DEF BillingInv
    <3>1. Open("dom") = {}
      BY <1>t, <2>1 DEF TermsBehind
    <3>2. \A j \in Paid("dom") : /\ invoices[j].term <= row'["dom"].due
                                 /\ invoices[j].term < row'["dom"].due
      <4>1. \A j \in Paid("dom") : invoices[j].term <= row["dom"].due
        BY <1>t DEF TermsBehind
      <4>2. \A j \in Paid("dom") : invoices[j].term \in Nat
        BY <1>t, Invoices DEF Paid, Invoice
      <4> QED BY <1>t, <2>1, <4>1, <4>2
    <3> QED BY <2>1, <2>3, <3>1, <3>2 DEF TermsBehind, Kinds
  <2> QED BY <2>2, <2>4, <2>5, <2>6, <2>7 DEF BillingInv
<1> QED BY <1>1, <1>2, <1>3, <1>4, <1>5, <1>6, <1>7, <1>8 DEF Next, Cron

\* For every lead, due time and cycle, and however the cron, the administrator,
\* the client, the payments and the jobs interleave: one renewal invoice of a
\* kind is open at most, no term is billed twice unless an invoice was created
\* while a paid renewal was still queued, and the due date moves by one cycle
\* for each paid renewal.
THEOREM BilledOnce ==
    Cycle \in Nat \ {0} /\ DueDays \in Nat
        => (Spec => [](OneOpenInvoice /\ TermBilledOnce /\ DueMovesAsPaid))
<1> SUFFICES ASSUME Cycle \in Nat \ {0}, DueDays \in Nat
             PROVE  Spec => [](OneOpenInvoice /\ TermBilledOnce /\ DueMovesAsPaid)
  OBVIOUS
<1>1. Init => BillingInv
  BY BillingInit
<1>2. BillingInv /\ [Next]_vars => BillingInv'
  BY BillingStep
<1>3. BillingInv => OneOpenInvoice /\ TermBilledOnce /\ DueMovesAsPaid
  <2> SUFFICES ASSUME BillingInv PROVE OneOpenInvoice /\ DueMovesAsPaid
    BY DEF BillingInv
  <2>1. ASSUME NEW k \in Kinds PROVE Cardinality(Open(k)) <= 1
    <3>1. CASE Open(k) = {}
      <4>1. Cardinality(Open(k)) = 0
        BY <3>1, FS_EmptySet
      <4> QED BY <4>1
    <3>2. CASE Open(k) # {}
      <4>1. PICK i \in Open(k) : TRUE
        BY <3>2
      <4>2. Open(k) = {i}
        BY <4>1 DEF BillingInv, OpenOnce
      <4>3. Cardinality({i}) = 1
        BY FS_Singleton
      <4> QED BY <4>2, <4>3
    <3> QED BY <3>1, <3>2
  <2>2. OneOpenInvoice
    BY <2>1, Sets DEF OneOpenInvoice
  <2>3. DueMovesAsPaid
    BY Sets DEF BillingInv, DueMoved, DueMovesAsPaid
  <2> QED BY <2>2, <2>3
<1> QED BY <1>1, <1>2, <1>3, PTL DEF Spec
=============================================================================
