------------------------------ MODULE Dunning ------------------------------
(***************************************************************************)
(* Chasing one open invoice (billing MarkOverdue, SendReminders and the      *)
(* notice of ApplyLateFees): three cron jobs that run side by side, each at  *)
(* most once at a time, and log their mails in email_log, which is also      *)
(* where a reminder looks whether the client heard of the invoice today.    *)
(***************************************************************************)
EXTENDS Naturals, Sequences

CONSTANTS
    Due,           \* the invoice's due day
    ReminderDays,  \* billing.reminder_days, before the due day
    OverdueDays,   \* billing.overdue_reminder_days, after it
    MaxDay         \* bound: the last day

VARIABLES
    day,       \* today
    status,    \* the invoice's status
    fee,       \* whether the invoice has a late_fee item
    log,       \* email_log: today's mails about the invoice, by template
    marker,    \* the overdue job: "off", "mark" or "notify"
    charger,   \* the late-fee job: "off", "apply" or "notify"
    reminder,  \* the reminder job: where it is and the template it is about
    seen       \* history: the day's reminder run and what it met
vars == <<day, status, fee, log, marker, charger, reminder, seen>>

Templates == {"invoice_reminder", "invoice_overdue"}
Off == [at |-> "off", tpl |-> "none"]
NewDay == [ran |-> FALSE, steady |-> TRUE, crossed |-> FALSE]
Init ==
    /\ day = 0 /\ status = "unpaid" /\ fee = FALSE
    /\ log = [t \in Templates |-> << >>]
    /\ marker = "off" /\ charger = "off" /\ reminder = Off /\ seen = NewDay

Open == status \in {"unpaid", "overdue"}
\* A mail logged between a reminder's check and its sending goes unnoticed.
SendTemplate(t, by) ==
    /\ log' = [log EXCEPT ![t] = Append(@, by)]
    /\ seen' = [seen EXCEPT !.crossed = @ \/ (by # "reminder" /\ reminder = [at |-> "send", tpl |-> t])]
\* notifyClient is best effort: the mail may be lost.
notifyClient(by) == SendTemplate("invoice_overdue", by) \/ UNCHANGED <<log, seen>>
Becomes(s) == status' = s /\ seen' = [seen EXCEPT !.steady = FALSE]

\* ListDueForStatus(unpaid, yesterday).
MarkOverdue ==
    /\ marker = "off" /\ status = "unpaid" /\ Due < day /\ marker' = "mark"
    /\ UNCHANGED <<day, status, fee, log, charger, reminder, seen>>
\* UpdateStatus writes whatever the row has become.
WriteOverdue ==
    /\ marker = "mark" /\ marker' = "notify" /\ Becomes("overdue")
    /\ UNCHANGED <<day, fee, log, charger, reminder>>
NotifyOverdue ==
    /\ marker = "notify" /\ marker' = "off" /\ notifyClient("marker")
    /\ UNCHANGED <<day, status, fee, charger, reminder>>

\* The overdue invoices without a late_fee item, then each one under its lock,
\* where the status is read again, then the notice.
ApplyLateFees ==
    /\ charger = "off" /\ status = "overdue" /\ Due <= day /\ ~fee /\ charger' = "apply"
    /\ UNCHANGED <<day, status, fee, log, marker, reminder, seen>>
AddFee ==
    /\ charger = "apply"
    /\ IF status = "overdue" THEN fee' = TRUE /\ charger' = "notify"
       ELSE charger' = "off" /\ UNCHANGED fee
    /\ UNCHANGED <<day, status, log, marker, reminder, seen>>
NotifyFee ==
    /\ charger = "notify" /\ charger' = "off" /\ notifyClient("fee")
    /\ UNCHANGED <<day, status, fee, marker, reminder>>

\* Mutant: the day itself is not counted.
FromTomorrow(t) == FALSE
\* HasEmailSince(template, number, today).
HasEmailSince(t) == log[t] # << >>
\* Mutant: the last day before the due day is skipped.
BeforeDue(t) ==
    IF t = "invoice_reminder"
    THEN status = "unpaid" /\ day < Due /\ Due - day \in ReminderDays \ {1}
    ELSE status = "overdue" /\ day > Due /\ day - Due \in OverdueDays
\* ListDueForStatus, daysBetween and containsInt.
Wanted(t) ==
    IF t = "invoice_reminder"
    THEN status = "unpaid" /\ day <= Due /\ Due - day \in ReminderDays
    ELSE status = "overdue" /\ day > Due /\ day - Due \in OverdueDays
After(t) == IF t = "invoice_reminder" THEN [at |-> "list", tpl |-> "invoice_overdue"] ELSE Off
Ended(t) == [seen EXCEPT !.ran = @ \/ t = "invoice_overdue"]
\* The run lists unpaid invoices, then overdue ones.
SendReminders ==
    /\ reminder = Off /\ reminder' = [at |-> "list", tpl |-> "invoice_reminder"]
    /\ seen' = [seen EXCEPT !.steady = TRUE]
    /\ UNCHANGED <<day, status, fee, log, marker, charger>>
ListInvoices ==
    LET t == reminder.tpl
    IN  /\ reminder.at = "list"
        /\ IF Wanted(t) THEN reminder' = [reminder EXCEPT !.at = "check"] /\ UNCHANGED seen
           ELSE reminder' = After(t) /\ seen' = Ended(t)
        /\ UNCHANGED <<day, status, fee, log, marker, charger>>
sendReminderOnce ==
    LET t == reminder.tpl
    IN  /\ reminder.at = "check"
        /\ IF HasEmailSince(t) THEN reminder' = After(t) /\ seen' = Ended(t)
           ELSE reminder' = [reminder EXCEPT !.at = "send"] /\ UNCHANGED seen
        /\ UNCHANGED <<day, status, fee, log, marker, charger>>
\* SendTemplate may fail; the run goes on with the next invoice.
SendReminder ==
    LET t == reminder.tpl
    IN  /\ reminder.at = "send" /\ reminder' = After(t)
        /\ \/ log' = [log EXCEPT ![t] = Append(@, "reminder")] /\ seen' = Ended(t)
           \/ UNCHANGED log /\ seen' = [Ended(t) EXCEPT !.steady = FALSE]
        /\ UNCHANGED <<day, status, fee, marker, charger>>

\* The client pays, or an administrator cancels.
Settle == Open /\ (Becomes("paid") \/ Becomes("cancelled")) /\ UNCHANGED <<day, fee, log, marker, charger, reminder>>
NextDay ==
    /\ day < MaxDay /\ marker = "off" /\ charger = "off" /\ reminder = Off
    /\ day' = day + 1 /\ log' = [t \in Templates |-> << >>] /\ seen' = NewDay
    /\ UNCHANGED <<status, fee, marker, charger, reminder>>

Next ==
    \/ MarkOverdue \/ WriteOverdue \/ NotifyOverdue
    \/ ApplyLateFees \/ AddFee \/ NotifyFee
    \/ SendReminders \/ ListInvoices \/ sendReminderOnce \/ SendReminder
    \/ Settle \/ NextDay
Spec == Init /\ [][Next]_vars

-----------------------------------------------------------------------------
(* Properties.                                                             *)

\* sendReminderOnce "unless an identical reminder ... was already logged today": the
\* reminder job's mail is the day's first of its template and there is one at most,
\* however often the job runs, unless another job's mail was logged while it was
\* between its check and its sending.
RemindedOnce ==
    ~seen.crossed =>
        \A t \in Templates : \A i \in DOMAIN log[t] : log[t][i] = "reminder" => i = 1

\* SendReminders: on a day the settings name, a completed run leaves the client told
\* of an invoice that stayed open, by this mail or by another job's, unless the mail
\* could not be sent.
DayIsReminded ==
    (seen.ran /\ seen.steady /\ reminder = Off)
    => /\ (status = "unpaid" /\ day <= Due /\ Due - day \in ReminderDays)
            => log["invoice_reminder"] # << >>
       /\ (status = "overdue" /\ day > Due /\ day - Due \in OverdueDays)
            => log["invoice_overdue"] # << >>
=============================================================================
