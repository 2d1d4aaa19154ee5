------------------------------ MODULE Services ------------------------------
(***************************************************************************)
(* The life of one hosting service: its row in the services table, its     *)
(* account on the control panel, the provisioning jobs of the queue, the   *)
(* renewal invoice and the cancellation requests                           *)
(* (src/backend/internal/modules/provisioning).                            *)
(*                                                                         *)
(* Every handler reads the row, works outside any transaction (the panel   *)
(* is a remote system) and then writes the WHOLE row back (Repo.Update sets *)
(* every column), so what a handler writes is the copy it read with its    *)
(* own fields changed.  A handler is therefore a process: it is begun,     *)
(* does its panel call, writes, and each of these is a step of its own.    *)
(***************************************************************************)
EXTENDS Naturals, Sequences, FiniteSets

CONSTANTS
    Workers,      \* the handlers that can run at the same time
    MaxDue,       \* bound: the billing cycles a service is renewed for
    MaxRequests,  \* bound: the cancellation requests a client submits
    TypedDues,    \* bound: the due dates an administrator types
    AdminQueues   \* bound: the jobs an administrator queues (the crons queue the others)

VARIABLES
    row,       \* the services row: status, cycles paid through, cancel_at_period_end,
               \* and whether its product's module is a control panel (not "none")
    account,   \* the account on the panel: none, active or suspended
    queue,     \* the provisioning jobs waiting in the queue
    exec,      \* what each handler is doing
    invoice,   \* the renewal invoice of the next cycle
    requests,  \* the cancellation requests, oldest first
    earned,    \* history: the cycles paid for (or granted by an administrator)
    stale,     \* history: a handler acted on a copy of the row that had been changed since
    cut        \* history: a handler was cut short, or a job given up, for good

vars == <<row, account, queue, exec, invoice, requests, earned, stale, cut>>

Statuses == {"pending", "active", "suspended", "terminated", "cancelled"}
JobTypes == {"create", "suspend", "unsuspend", "terminate"}
Handlers == JobTypes \cup {"renew", "password", "edit", "cancel", "accept", "reject"}
Idle     == [op |-> "idle"]

\* serviceTransitions: the moves of a service's status the code allows.
CanMove(from, to) ==
    to \in CASE from = "pending"   -> {"active", "cancelled"}
             [] from = "active"    -> {"suspended", "terminated"}
             [] from = "suspended" -> {"active", "terminated"}
             [] OTHER              -> {}

Running(w) == exec[w] # Idle
PendingRequests == {i \in DOMAIN requests : requests[i].status = "pending"}
Ended == row.status \in {"terminated", "cancelled"}

\* activateProductItem: a product without a module is active at once; the others
\* wait for a provision:create job, or for an administrator when set up by hand.
Init ==
    /\ row \in [status : {"pending", "active"}, due : {0}, atEnd : {FALSE}, panel : BOOLEAN]
    /\ row.status = "pending" <=> row.panel
    /\ account = "none"
    /\ queue \in {{"create"}, {}}
    /\ queue = {"create"} => row.panel
    /\ exec = [w \in Workers |-> Idle]
    /\ invoice = "none"
    /\ requests = << >>
    /\ earned = 0
    /\ stale = FALSE
    /\ cut = FALSE

-----------------------------------------------------------------------------
(* Reading and writing the row.                                            *)

\* A handler op starts at step at with a copy of the row; arg is what else it
\* was given or has read.
Start(w, op, at, arg) ==
    exec' = [exec EXCEPT ![w] =
        [op |-> op, at |-> at, read |-> row, arg |-> arg, fresh |-> TRUE]]

\* The handlers after w wrote something the others may have read: w goes on at
\* step at with its copy, or ends, and the others' copies are no longer fresh.
After(w, copy, at) ==
    exec' = [v \in Workers |->
        IF v = w THEN IF at = "done" THEN Idle ELSE [exec[w] EXCEPT !.at = at, !.read = copy]
        ELSE IF Running(v) THEN [exec[v] EXCEPT !.fresh = FALSE] ELSE Idle]

\* Repo.Update: every column of the row comes from the handler's copy.
WriteRow(w, copy, at) ==
    /\ row' = copy
    /\ stale' = (stale \/ ~exec[w].fresh)
    /\ After(w, copy, at)

Goto(w, at) == exec' = [exec EXCEPT ![w].at = at]
Stop(w)     == exec' = [exec EXCEPT ![w] = Idle]

At(w, op, at) == Running(w) /\ exec[w].op = op /\ exec[w].at = at

-----------------------------------------------------------------------------
(* The provisioning jobs, run by a worker or by an admin action.           *)

\* Mutant: unsuspending is not checked against the state machine.
AlwaysUnsuspend(op, status) ==
    CASE op = "create"    -> IF status = "pending" THEN "work" ELSE "nothing"
      [] op = "suspend"   -> IF CanMove(status, "suspended") THEN "work" ELSE "nothing"
      [] op = "unsuspend" -> IF status = "active" THEN "nothing" ELSE "work"
      [] op = "terminate" -> IF status \in {"terminated", "cancelled"} THEN "nothing" ELSE "work"

\* What a job finds in the row it reads: nothing to do, a move the state
\* machine refuses, or work.
Finds(op, status) ==
    CASE op = "create"    -> IF status = "pending" THEN "work" ELSE "nothing"
      [] op = "suspend"   -> IF status = "suspended" THEN "nothing"
                             ELSE IF CanMove(status, "suspended") THEN "work" ELSE "refused"
      [] op = "unsuspend" -> IF status = "active" THEN "nothing"
                             ELSE IF CanMove(status, "active") THEN "work" ELSE "refused"
      [] op = "terminate" -> IF status \in {"terminated", "cancelled"} THEN "nothing" ELSE "work"

\* Mutant: the account of a terminated service is left on the panel.
KeepAccount(op, status) == IF row.panel /\ op # "terminate" THEN "panel" ELSE "write"

\* A pending service has no account as far as ProvisionTerminate knows: it is
\* cancelled without a call to the panel.
FirstStep(op, status) ==
    IF row.panel /\ ~(op = "terminate" /\ status = "pending") THEN "panel" ELSE "write"

\* Mutant: a job that finds the service pending is dropped.
SkipPending(w, op) ==
    /\ ~Running(w)
    /\ op \in queue
    /\ queue' = queue \ {op}
    /\ IF Finds(op, row.status) = "work" /\ (op = "create" \/ row.status # "pending")
         THEN Start(w, op, FirstStep(op, row.status), 0)
         ELSE UNCHANGED exec
    /\ UNCHANGED <<row, account, invoice, requests, earned, stale, cut>>

\* The worker takes a job; an idempotent re-run ends here.  A refused one is an
\* error like any other: it is retried, and one day given up with an alert.
BeginJob(w, op) ==
    /\ ~Running(w)
    /\ op \in queue
    /\ CASE Finds(op, row.status) = "work" ->
              queue' = queue \ {op} /\ Start(w, op, FirstStep(op, row.status), 0)
         [] Finds(op, row.status) = "nothing" -> queue' = queue \ {op} /\ UNCHANGED exec
         [] Finds(op, row.status) = "refused" ->
              queue' \in {queue, queue \ {op}} /\ UNCHANGED exec
    /\ UNCHANGED <<row, account, invoice, requests, earned, stale, cut>>

\* AdminAction: the same method called at once, or queued.  A call that fails is
\* not retried by itself; the administrator may queue it instead, which is what
\* Fail makes of it.
AdminAction(w, op, async) ==
    /\ IF async
         THEN op \in AdminQueues /\ queue' = queue \cup {op} /\ UNCHANGED exec
         ELSE /\ ~Running(w)
              /\ Finds(op, row.status) = "work"
              /\ Start(w, op, FirstStep(op, row.status), 0)
              /\ UNCHANGED queue
    /\ UNCHANGED <<row, account, invoice, requests, earned, stale, cut>>

\* Mutant: a restored service is given a status the table does not know.
RestoredStatus(op, status) ==
    CASE op = "create"    -> "active"
      [] op = "unsuspend" -> "restored"
      [] op = "suspend"   -> "suspended"
      [] op = "terminate" -> IF status = "pending" THEN "cancelled" ELSE "terminated"

\* Mutant: suspending an account deletes it.
DeleteOnSuspend(w, op) ==
    /\ At(w, op, "panel")
    /\ account' = IF op \in {"suspend", "terminate"} THEN "none" ELSE "active"
    /\ stale' = (stale \/ ~exec[w].fresh)
    /\ Goto(w, "write")
    /\ UNCHANGED <<row, queue, invoice, requests, earned, cut>>

\* The panel's answer: an existing account makes Create a conflict, which
\* AccountInfo resolves to "ours"; suspending or restoring a missing account
\* fails; removing one that is gone is a success.
PanelCall(w, op) ==
    /\ At(w, op, "panel")
    /\ op \in {"suspend", "unsuspend"} => account # "none"
    /\ account' = CASE op = "create"    -> IF account = "none" THEN "active" ELSE account
                    [] op = "suspend"   -> "suspended"
                    [] op = "unsuspend" -> "active"
                    [] op = "terminate" -> "none"
    /\ stale' = (stale \/ ~exec[w].fresh)
    /\ Goto(w, "write")
    /\ UNCHANGED <<row, queue, invoice, requests, earned, cut>>

NewStatus(op, status) ==
    CASE op \in {"create", "unsuspend"} -> "active"
      [] op = "suspend"                 -> "suspended"
      [] op = "terminate"               -> IF status = "pending" THEN "cancelled" ELSE "terminated"

\* The job writes its copy of the row with the new status; a termination goes
\* on to the pending cancellation request.
FinishJob(w, op) ==
    /\ At(w, op, "write")
    /\ WriteRow(w, [exec[w].read EXCEPT !.status = NewStatus(op, exec[w].read.status)],
                IF op = "terminate" THEN "resolve" ELSE "done")
    /\ UNCHANGED <<account, queue, invoice, requests, earned, cut>>

\* Mutant: only immediate requests are closed by a termination.
ResolveImmediate(w) ==
    /\ At(w, "terminate", "resolve")
    /\ requests' = [i \in DOMAIN requests |->
                      IF i \in PendingRequests /\ requests[i].mode = "immediate"
                      THEN [requests[i] EXCEPT !.status = "auto_processed"] ELSE requests[i]]
    /\ After(w, exec[w].read, "done")
    /\ UNCHANGED <<row, account, queue, invoice, earned, stale, cut>>

\* resolvePendingCancellation: the pending request, of either mode, is done.
ResolvePending(w) ==
    /\ At(w, "terminate", "resolve")
    /\ requests' = [i \in DOMAIN requests |->
                      IF i \in PendingRequests
                      THEN [requests[i] EXCEPT !.status = "auto_processed"] ELSE requests[i]]
    /\ After(w, exec[w].read, "done")
    /\ UNCHANGED <<row, account, queue, invoice, earned, stale, cut>>

\* A step fails or the process dies.  A job returns to the queue, or has used
\* up its retries; anything else simply ends.  The resolution of a request is
\* best effort: the job that has written the row succeeds whatever happens.
Fail(w, retried) ==
    /\ Running(w)
    /\ IF exec[w].op \in JobTypes /\ exec[w].at # "resolve" /\ retried
         THEN queue' = queue \cup {exec[w].op} /\ UNCHANGED cut
         ELSE cut' = TRUE /\ UNCHANGED queue
    /\ Stop(w)
    /\ UNCHANGED <<row, account, invoice, requests, earned, stale>>

-----------------------------------------------------------------------------
(* Renewals and the automation crons.                                      *)

\* GenerateRenewalInvoices: an active service not cancelled at its term's end.
GenerateRenewal ==
    /\ row.status = "active"
    /\ ~row.atEnd
    /\ invoice = "none"
    /\ row.due < MaxDue /\ earned < MaxDue
    /\ invoice' = "unpaid"
    /\ UNCHANGED <<row, account, queue, exec, requests, earned, stale, cut>>

MarkOverdue ==
    /\ invoice = "unpaid"
    /\ invoice' = "overdue"
    /\ UNCHANGED <<row, account, queue, exec, requests, earned, stale, cut>>

\* The renewal invoice is paid; ProcessPaid calls RenewService, which reads the row.
PayRenewal(w) ==
    /\ ~Running(w)
    /\ invoice \in {"unpaid", "overdue"}
    /\ invoice' = "none"
    /\ earned' = earned + 1
    /\ Start(w, "renew", "write", 0)
    /\ UNCHANGED <<row, account, queue, requests, stale, cut>>

\* Mutant: a suspended service is restored but not advanced.
RenewOnlyActive(w) ==
    /\ At(w, "renew", "write")
    /\ WriteRow(w, IF exec[w].read.status = "active"
                   THEN [exec[w].read EXCEPT !.due = @ + 1] ELSE exec[w].read,
                IF exec[w].read.status = "suspended" THEN "enqueue" ELSE "done")
    /\ UNCHANGED <<account, queue, invoice, requests, earned, cut>>

\* RenewService: one cycle more than in the copy it read, whatever the status.
RenewService(w) ==
    /\ At(w, "renew", "write")
    /\ WriteRow(w, [exec[w].read EXCEPT !.due = @ + 1],
                IF exec[w].read.status = "suspended" THEN "enqueue" ELSE "done")
    /\ UNCHANGED <<account, queue, invoice, requests, earned, cut>>

\* RenewService asks for the unsuspension of a service it READ as suspended.
RenewEnqueues(w) ==
    /\ At(w, "renew", "enqueue")
    /\ queue' = queue \cup {"unsuspend"}
    /\ Stop(w)
    /\ UNCHANGED <<row, account, invoice, requests, earned, stale, cut>>

\* AutoSuspend: the job is queued from a list and decided on nothing later.
AutoSuspend ==
    /\ row.status = "active"
    /\ invoice = "overdue"
    /\ queue' = queue \cup {"suspend"}
    /\ UNCHANGED <<row, account, exec, invoice, requests, earned, stale, cut>>

\* AutoTerminate: suspended for long enough, or at the end of the last term.
AutoTerminate ==
    /\ \/ row.status = "suspended"
       \/ row.status \in {"active", "suspended"} /\ row.atEnd
    /\ queue' = queue \cup {"terminate"}
    /\ UNCHANGED <<row, account, exec, invoice, requests, earned, stale, cut>>

-----------------------------------------------------------------------------
(* The client's and the administrator's requests.                          *)

\* changePassword: active services only; the panel is called first.
ChangePassword(w) ==
    /\ ~Running(w)
    /\ row.status = "active"
    /\ row.panel
    /\ account # "none"
    /\ Start(w, "password", "write", 0)
    /\ UNCHANGED <<row, account, queue, invoice, requests, earned, stale, cut>>

\* The row is written with nothing but the new (unmodelled) password changed.
StorePassword(w) ==
    /\ At(w, "password", "write")
    /\ WriteRow(w, exec[w].read, "done")
    /\ UNCHANGED <<account, queue, invoice, requests, earned, cut>>

\* AdminUpdateService: the administrator sets the due date, whatever the status.
AdminUpdate(w, due) ==
    /\ ~Running(w)
    /\ Start(w, "edit", "write", due)
    /\ UNCHANGED <<row, account, queue, invoice, requests, earned, stale, cut>>

\* The date typed replaces the one that was counted: it is what was earned, with
\* the renewals still on their way.
RenewalsDue == {v \in Workers : At(v, "renew", "write")}

StoreEdit(w) ==
    /\ At(w, "edit", "write")
    /\ WriteRow(w, [exec[w].read EXCEPT !.due = exec[w].arg], "done")
    /\ earned' = exec[w].arg + Cardinality(RenewalsDue)
    /\ UNCHANGED <<account, queue, invoice, requests, cut>>

\* CancelService checks the status and that no request is pending.
BeginCancel(w, mode) ==
    /\ ~Running(w)
    /\ Len(requests) < MaxRequests
    /\ row.status \in {"active", "suspended"} \cup (IF mode = "immediate" THEN {"pending"} ELSE {})
    /\ PendingRequests = {}
    /\ Start(w, "cancel", IF mode = "immediate" THEN "invoices" ELSE "create", mode)
    /\ UNCHANGED <<row, account, queue, invoice, requests, earned, stale, cut>>

\* cancelOpenRenewalInvoices.
CancelInvoices(w) ==
    /\ At(w, "cancel", "invoices")
    /\ invoice' = "none"
    /\ Goto(w, "enqueue")
    /\ UNCHANGED <<row, account, queue, requests, earned, stale, cut>>

\* Mutant: the termination is left to the crons.
CancelWithoutJob(w) ==
    /\ At(w, "cancel", "enqueue")
    /\ Goto(w, "create")
    /\ UNCHANGED <<row, account, queue, invoice, requests, earned, stale, cut>>

\* The termination is queued before the request that announces it exists.
CancelEnqueues(w) ==
    /\ At(w, "cancel", "enqueue")
    /\ queue' = queue \cup {"terminate"}
    /\ Goto(w, "create")
    /\ UNCHANGED <<row, account, invoice, requests, earned, stale, cut>>

\* Mutant: no unique index behind the check.
CreateUnchecked(w) ==
    /\ At(w, "cancel", "create")
    /\ Len(requests) < MaxRequests
    /\ requests' = Append(requests, [mode |-> exec[w].arg, status |-> "pending"])
    /\ stale' = (stale \/ ~exec[w].fresh)
    /\ After(w, exec[w].read, "done")
    /\ UNCHANGED <<row, account, queue, invoice, earned, cut>>

\* The request is inserted; the partial unique index refuses a second pending one.
CreateRequest(w) ==
    /\ At(w, "cancel", "create")
    /\ IF PendingRequests = {} /\ Len(requests) < MaxRequests
         THEN /\ requests' = Append(requests, [mode |-> exec[w].arg, status |-> "pending"])
              /\ stale' = (stale \/ ~exec[w].fresh)
              /\ After(w, exec[w].read, "done")
         ELSE Stop(w) /\ UNCHANGED <<requests, stale>>
    /\ UNCHANGED <<row, account, queue, invoice, earned, cut>>

\* AcceptCancellationRequest / RejectCancellationRequest read a pending
\* end_of_term request; accepting also reads an open service.
BeginDecision(w, op, i) ==
    /\ ~Running(w)
    /\ i \in PendingRequests
    /\ requests[i].mode = "end_of_term"
    /\ op = "accept" => row.status \in {"active", "suspended"}
    /\ Start(w, op, IF op = "accept" THEN "write" ELSE "decide", i)
    /\ UNCHANGED <<row, account, queue, invoice, requests, earned, stale, cut>>

\* Accepting flags the service first.
FlagService(w) ==
    /\ At(w, "accept", "write")
    /\ WriteRow(w, [exec[w].read EXCEPT !.atEnd = TRUE], "decide")
    /\ UNCHANGED <<account, queue, invoice, requests, earned, cut>>

\* Mutant: both decisions reject.
AlwaysReject(w, op) ==
    /\ At(w, op, "decide")
    /\ requests' = [requests EXCEPT ![exec[w].arg].status = "rejected"]
    /\ stale' = (stale \/ ~exec[w].fresh)
    /\ After(w, exec[w].read, "done")
    /\ UNCHANGED <<row, account, queue, invoice, earned, cut>>

\* Then the request itself, by its id and from the copy read before.
DecideRequest(w, op) ==
    /\ At(w, op, "decide")
    /\ requests' = [requests EXCEPT ![exec[w].arg].status =
                      IF op = "accept" THEN "accepted" ELSE "rejected"]
    /\ stale' = (stale \/ ~exec[w].fresh)
    /\ After(w, exec[w].read, "done")
    /\ UNCHANGED <<row, account, queue, invoice, earned, cut>>

-----------------------------------------------------------------------------

\* The steps of the handlers already begun, by the method they belong to.
ProvisionCreate(w)    == PanelCall(w, "create") \/ FinishJob(w, "create")
ProvisionSuspend(w)   == PanelCall(w, "suspend") \/ FinishJob(w, "suspend")
ProvisionUnsuspend(w) == PanelCall(w, "unsuspend") \/ FinishJob(w, "unsuspend")
ProvisionTerminate(w) == PanelCall(w, "terminate") \/ FinishJob(w, "terminate") \/ ResolvePending(w)

CancelService(w) == CancelInvoices(w) \/ CancelEnqueues(w) \/ CreateRequest(w)

AcceptCancellationRequest(w) == FlagService(w) \/ DecideRequest(w, "accept")
RejectCancellationRequest(w) == DecideRequest(w, "reject")

Step(w) ==
    \/ ProvisionCreate(w) \/ ProvisionSuspend(w)
    \/ ProvisionUnsuspend(w) \/ ProvisionTerminate(w)
    \/ RenewService(w) \/ RenewEnqueues(w)
    \/ StorePassword(w) \/ StoreEdit(w)
    \/ CancelService(w)
    \/ AcceptCancellationRequest(w) \/ RejectCancellationRequest(w)

\* What a client, an administrator or the gateway may begin.
Request(w) ==
    \/ \E op \in JobTypes, async \in BOOLEAN : AdminAction(w, op, async)
    \/ PayRenewal(w)
    \/ ChangePassword(w)
    \/ \E d \in TypedDues : AdminUpdate(w, d)
    \/ \E m \in {"immediate", "end_of_term"} : BeginCancel(w, m)
    \/ \E op \in {"accept", "reject"}, i \in DOMAIN requests : BeginDecision(w, op, i)

Cron == GenerateRenewal \/ MarkOverdue \/ AutoSuspend \/ AutoTerminate

Next ==
    \/ Cron
    \/ \E w \in Workers :
         \/ Step(w)
         \/ Request(w)
         \/ \E op \in JobTypes : BeginJob(w, op)
         \/ \E retried \in BOOLEAN : Fail(w, retried)

Spec == Init /\ [][Next]_vars

-----------------------------------------------------------------------------
(* Properties.                                                             *)

RowType == [status : Statuses, due : 0..(MaxDue + 2), atEnd : BOOLEAN, panel : BOOLEAN]

\* The variables stay within their types.
TypeOK ==
    /\ row \in RowType
    /\ account \in {"none", "active", "suspended"}
    /\ queue \subseteq JobTypes
    /\ \A w \in Workers : Running(w) => exec[w].op \in Handlers /\ exec[w].read \in RowType
    /\ invoice \in {"none", "unpaid", "overdue"}
    /\ \A i \in DOMAIN requests :
         /\ requests[i].mode \in {"immediate", "end_of_term"}
         /\ requests[i].status \in {"pending", "accepted", "rejected", "auto_processed"}
    /\ earned \in 0..(MaxDue + 2)
    /\ stale \in BOOLEAN /\ cut \in BOOLEAN

\* Nothing is waiting in the queue and no handler is at work.
AtRest == queue = {} /\ \A w \in Workers : ~Running(w)

InFlight(op) == {w \in Workers : Running(w) /\ exec[w].op = op}

\* When no handler overwrote another's change and none was cut short, the row
\* and the panel agree whenever nothing is on its way: an active or suspended
\* service has an active or suspended account, and a terminated one has none.
PanelAgrees ==
    AtRest /\ ~stale /\ ~cut /\ row.panel =>
        CASE row.status = "active"     -> account = "active"
          [] row.status = "suspended"  -> account = "suspended"
          [] row.status = "terminated" -> account = "none"
          [] OTHER                     -> TRUE

\* RenewService advances the due date by exactly one cycle for each renewal paid:
\* with no overwriting and no handler lost, the row and the renewals still on
\* their way account for every cycle paid for.
PaidThrough ==
    ~stale /\ ~cut =>
        row.due + Cardinality(RenewalsDue) = earned

\* A service that has ended has no pending cancellation request left, unless the
\* request was inserted (or the service written) over somebody else's change:
\* resolvePendingCancellation closes it when the termination completes.
EndedHasNoRequest ==
    Ended /\ ~stale /\ ~cut =>
        \/ PendingRequests = {}
        \/ \E w \in Workers : At(w, "terminate", "resolve")

\* CancelService promises a termination with every immediate request: while one
\* is pending its job is queued or running, or the service has ended already.
ImmediateIsUnderWay ==
    (\E i \in PendingRequests : requests[i].mode = "immediate") /\ ~cut =>
        \/ "terminate" \in queue
        \/ InFlight("terminate") # {}
        \/ Ended
        \/ stale

\* RejectCancellationRequest leaves the service untouched: with no race, a
\* service is flagged for the end of its term only if a request was accepted.
FlagIsAccepted ==
    row.atEnd /\ ~stale /\ ~cut =>
        \/ \E i \in DOMAIN requests : requests[i].status \in {"accepted", "auto_processed"}
        \/ \E w \in InFlight("accept") : exec[w].at = "decide"

\* At most one request of the service is pending (partial unique index), even
\* when two submissions pass CancelService's check together.
OnePendingRequest == Cardinality(PendingRequests) <= 1

\* An ended service stays ended: only a write over a changed row, never a
\* handler that read the ended row, brings it back.
EndedStep == Ended /\ row'.status # row.status => stale'
EndedIsFinal == [][EndedStep]_vars

\* An account is removed from the panel only by a termination under way.
RemovalStep ==
    account # "none" /\ account' = "none" =>
        \E w \in InFlight("terminate") : exec[w].read.status # "pending"
OnlyTerminationRemoves == [][RemovalStep]_vars

\* "A still-pending service is cancelled instead (nothing was provisioned)": a
\* cancelled service leaves no account behind on the panel.
CancelledHasNoAccount ==
    AtRest /\ ~stale /\ ~cut /\ row.status = "cancelled" => account = "none"

Go(w) == Step(w) \/ \E retried \in BOOLEAN : Fail(w, retried)
GiveUp(w) == w \in InFlight("terminate") /\ Fail(w, FALSE)
\* Handlers run on or fail, a worker takes the queued termination, and one that
\* keeps failing is given up one day (asynq's MaxRetry).
Fairness ==
    \A w \in Workers :
        /\ WF_vars(Go(w))
        /\ SF_vars(BeginJob(w, "terminate"))
        /\ SF_vars(GiveUp(w))
FairSpec == Spec /\ Fairness

\* A termination that was asked for through an immediate cancellation ends the
\* service, unless it is given up after the last retry or written over.
ImmediatePending == \E i \in PendingRequests : requests[i].mode = "immediate"
ImmediateEnds == ImmediatePending ~> Ended \/ cut \/ stale
=============================================================================
