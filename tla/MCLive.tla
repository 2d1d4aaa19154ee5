------------------------------- MODULE MCLive -------------------------------
(*****************************************************************************)
(* What must happen in the end: the domain hunt, mail, the job queue,        *)
(* searches, renewals, the payment gateway, a held registration and a        *)
(* cancellation.  A behaviour is about one of them, which part names.        *)
(*****************************************************************************)
EXTENDS Naturals, FiniteSets, Sequences

VARIABLES
    part,  \* the component a behaviour is about
    v1, v2, v3, v4, v5, v6, v7, v8, v9, v10, v11, v12, v13, v14, v15, v16  \* its variables, in the order of its module; the others stay 0
vars == <<part, v1, v2, v3, v4, v5, v6, v7, v8, v9, v10, v11, v12, v13, v14, v15, v16>>

ExtOf == [n \in {"a", "b"} |-> "x"]


\* A domain hunt: one worker, a pause, and cancellation by the client.
Solo == INSTANCE Snipe WITH
    Workers <- {"w1"}, Enders <- {"client"}, DomainPrice <- 2, Fee <- 1, MaxFaults <- 1,
    MaxHalts <- 1, row <- v1, invoice <- v2, tx <- v3, credit <- v4, name <- v5, dom <- v6,
    hunt <- v7, pass <- v8, ender <- v9, loose <- v10, halted <- v11, view <- v12,
    alert <- v13, faults <- v14, halts <- v15, events <- v16

\* The pause of all hunts, seen by two workers.
Pause == INSTANCE SnipePause WITH
    Workers <- {"w1", "w2"}, Cost <- 2, Floor <- 1, MaxBalance <- 2, MaxUpsets <- 2,
    setting <- v1, conf <- v2, doing <- v3, balance <- v4, valid <- v5, upsets <- v6,
    events <- v7

\* Two clients ask for hunts of two names, one running at a time.
Hunts == INSTANCE SnipeDesk WITH
    Clients <- {"c1", "c2"}, Names <- {"n1", "n2"}, MaxActivePerClient <- 1,
    MaxActiveGlobal <- 1, Requests <- {1}, MaxSnipes <- 2, snipes <- v1, request <- v2,
    held <- v3, plan <- v4, running <- v5, events <- v6

\* One mail, its log row and two delivery tasks.
Mailer == INSTANCE Mail WITH
    Procs <- {1, 2}, MaxRows <- 1, MaxRetry <- 1, MaxTasks <- 2, log <- v1, bodies <- v2,
    tasks <- v3, enqueued <- v4, proc <- v5, events <- v6

\* Two tasks of the queue, two workers and the cron lock.
Queue == INSTANCE Jobs WITH
    Tasks <- {"t1", "t2"}, Workers <- {"w1", "w2"}, MaxRetry <- 0, MaxRuns <- 1, task <- v1,
    lock <- v2, worker <- v3, admin <- v4, events <- v5

\* One search of two names of one extension.
Search == INSTANCE Availability WITH
    Names <- {"a", "b"}, ExtOf <- ExtOf, MaxPrice <- 2, taken <- v1, price <- v2,
    memo <- v3, go <- v4, answer <- v5, fetches <- v6

\* Renewal invoices of a service and a domain over two days.
Billing == INSTANCE Renewals WITH
    Lead <- 1, DueDays <- 1, Cycle <- 2, MaxDay <- 2, MaxInvoices <- 2, day <- v1,
    row <- v2, invoices <- v3, cron <- v4, request <- v5, payment <- v6, jobs <- v7,
    events <- v8

\* One payment at the gateway, its callbacks and the reconciliation.
Duitku == INSTANCE Gateway WITH
    Calls <- {1, 2}, MaxOrders <- 1, maxRetries <- 1, Threshold <- 2, Deliveries <- 2,
    MaxFaults <- 3, MaxKeys <- 1, site <- v1, key <- v2, attempt <- v3, rows <- v4,
    settled <- v5, callback <- v6, breaker <- v7, call <- v8, faults <- v9

\* One registration held for documents, one worker.
Domain == INSTANCE Domains WITH
    Workers <- {1}, Years <- 1, Transfer <- FALSE, NeedsDocuments <- TRUE,
    AdminTargets <- {}, MaxAsked <- 0, MaxExpiry <- 3, MaxCredited <- 1,
    LostAnswers <- FALSE, VerifiesAtOnce <- TRUE, row <- v1, reg <- v2, ordered <- v3,
    renewals <- v4, asked <- v5, credited <- v6, job <- v7

\* One service and its immediate cancellation, one handler at a time.
Service == INSTANCE Services WITH
    Workers <- {1}, MaxDue <- 0, MaxRequests <- 1, TypedDues <- {},
    AdminQueues <- {"create"}, row <- v1, account <- v2, queue <- v3, exec <- v4,
    invoice <- v5, requests <- v6, earned <- v7, stale <- v8, cut <- v9

\* The variables a component with k of them leaves alone, at 0.
Rest5 == <<v6, v7, v8, v9, v10, v11, v12, v13, v14, v15, v16>>
Rest6 == <<v7, v8, v9, v10, v11, v12, v13, v14, v15, v16>>
Rest7 == <<v8, v9, v10, v11, v12, v13, v14, v15, v16>>
Rest8 == <<v9, v10, v11, v12, v13, v14, v15, v16>>
Rest9 == <<v10, v11, v12, v13, v14, v15, v16>>
Zero5 == v6 = 0 /\ v7 = 0 /\ v8 = 0 /\ v9 = 0 /\ v10 = 0 /\ v11 = 0 /\ v12 = 0 /\ v13 = 0 /\ v14 = 0 /\ v15 = 0 /\ v16 = 0
Zero6 == v7 = 0 /\ v8 = 0 /\ v9 = 0 /\ v10 = 0 /\ v11 = 0 /\ v12 = 0 /\ v13 = 0 /\ v14 = 0 /\ v15 = 0 /\ v16 = 0
Zero7 == v8 = 0 /\ v9 = 0 /\ v10 = 0 /\ v11 = 0 /\ v12 = 0 /\ v13 = 0 /\ v14 = 0 /\ v15 = 0 /\ v16 = 0
Zero8 == v9 = 0 /\ v10 = 0 /\ v11 = 0 /\ v12 = 0 /\ v13 = 0 /\ v14 = 0 /\ v15 = 0 /\ v16 = 0
Zero9 == v10 = 0 /\ v11 = 0 /\ v12 = 0 /\ v13 = 0 /\ v14 = 0 /\ v15 = 0 /\ v16 = 0

Init ==
    \/ part = "solo" /\ Solo!Init
    \/ part = "pause" /\ Pause!Init /\ Zero7
    \/ part = "hunts" /\ Hunts!Init /\ Zero6
    \/ part = "mail" /\ Mailer!Init /\ Zero6
    \/ part = "jobs" /\ Queue!Init /\ Zero5
    \/ part = "search" /\ Search!Init /\ Zero6
    \/ part = "renewals" /\ Billing!Init /\ Zero8
    \/ part = "gateway" /\ Duitku!Init /\ Zero9
    \/ part = "domain" /\ Domain!Init /\ Zero7
    \/ part = "service" /\ Service!Init /\ Zero9
Next ==
    /\ UNCHANGED part
    /\ \/ part = "solo" /\ Solo!Next
       \/ part = "pause" /\ Pause!Next /\ UNCHANGED Rest7
       \/ part = "hunts" /\ Hunts!Next /\ UNCHANGED Rest6
       \/ part = "mail" /\ Mailer!Next /\ UNCHANGED Rest6
       \/ part = "jobs" /\ Queue!Next /\ UNCHANGED Rest5
       \/ part = "search" /\ Search!Next /\ UNCHANGED Rest6
       \/ part = "renewals" /\ Billing!Next /\ UNCHANGED Rest8
       \/ part = "gateway" /\ Duitku!Next /\ UNCHANGED Rest9
       \/ part = "domain" /\ Domain!Next /\ UNCHANGED Rest7
       \/ part = "service" /\ Service!Next /\ UNCHANGED Rest9
Spec == Init /\ [][Next]_vars

\* Fairness, as the modules of the components have it.  A behaviour is of one
\* component, so that fairness of the disjunctions below is fairness of its own.
In(p) == part = p /\ UNCHANGED part
Weak1 ==
    \/ In("solo") /\ Solo!Hunt("w1")
    \/ In("pause") /\ UNCHANGED Rest7 /\ Pause!Write("w1")
    \/ In("hunts") /\ UNCHANGED Rest6 /\ Hunts!Claim
    \/ In("mail") /\ UNCHANGED Rest6 /\ Mailer!Step(1)
    \/ In("jobs") /\ UNCHANGED Rest5 /\ Queue!Work("w1")
    \/ In("search") /\ UNCHANGED Rest6 /\ Search!Collect
    \/ In("renewals") /\ UNCHANGED Rest8 /\ Billing!Cron
    \/ In("gateway") /\ UNCHANGED Rest9 /\ Duitku!CooldownEnds
    \/ In("domain") /\ UNCHANGED Rest7 /\ Domain!Write(1)
    \/ In("service") /\ UNCHANGED Rest9 /\ Service!Go(1)
Weak2 ==
    \/ In("solo") /\ Solo!Pass("w1")
    \/ In("pause") /\ UNCHANGED Rest7 /\ Pause!Write("w2")
    \/ In("hunts") /\ UNCHANGED Rest6 /\ 1 \in Hunts!Ids /\ Hunts!EndHunt(1)
    \/ In("mail") /\ UNCHANGED Rest6 /\ Mailer!Step(2)
    \/ In("jobs") /\ UNCHANGED Rest5 /\ Queue!Work("w2")
    \/ In("search") /\ UNCHANGED Rest6 /\ Search!Goroutine("a")
    \/ In("renewals") /\ UNCHANGED Rest8 /\ Billing!RenewDomainJob
    \/ In("gateway") /\ UNCHANGED Rest9 /\ Duitku!EnterKey
Weak3 ==
    \/ In("solo") /\ Solo!Land("w1")
    \/ In("pause") /\ UNCHANGED Rest7 /\ Pause!refreshConfig("w1")
    \/ In("hunts") /\ UNCHANGED Rest6 /\ 2 \in Hunts!Ids /\ Hunts!EndHunt(2)
    \/ In("jobs") /\ UNCHANGED Rest5 /\ Queue!LockExpires
    \/ In("search") /\ UNCHANGED Rest6 /\ Search!Goroutine("b")
    \/ In("renewals") /\ UNCHANGED Rest8 /\ Billing!RenewService
    \/ In("gateway") /\ UNCHANGED Rest9 /\ Duitku!Proceed(1)
Weak4 ==
    \/ In("solo") /\ Solo!Deadline
    \/ In("pause") /\ UNCHANGED Rest7 /\ Pause!refreshConfig("w2")
    \/ In("gateway") /\ UNCHANGED Rest9 /\ Duitku!Proceed(2)
Weak5 ==
    \/ In("solo") /\ Solo!LeaseExpires
    \/ In("pause") /\ UNCHANGED Rest7 /\ Pause!TopUp
Weak6 ==
    \/ In("pause") /\ UNCHANGED Rest7 /\ Pause!Rearm
Strong1 ==
    \/ In("pause") /\ UNCHANGED Rest7 /\ Pause!probePause("w1")
    \/ In("gateway") /\ UNCHANGED Rest9 /\ Duitku!Reconcile(1)
    \/ In("domain") /\ UNCHANGED Rest7 /\ Domain!Poll(1)
    \/ In("service") /\ UNCHANGED Rest9 /\ Service!BeginJob(1, "terminate")
Strong2 ==
    \/ In("pause") /\ UNCHANGED Rest7 /\ Pause!probePause("w2")
    \/ In("domain") /\ UNCHANGED Rest7 /\ Domain!FetchSync(1)
    \/ In("service") /\ UNCHANGED Rest9 /\ Service!GiveUp(1)
FairSpec ==
    /\ Spec
    /\ WF_vars(Weak1) /\ WF_vars(Weak2) /\ WF_vars(Weak3) /\ WF_vars(Weak4) /\ WF_vars(Weak5) /\ WF_vars(Weak6)
    /\ SF_vars(Strong1) /\ SF_vars(Strong2)

-----------------------------------------------------------------------------
(* Properties, each of its own component.                                  *)

\* Tick, expireDue, verify and probePause: every active snipe ends, a name that
\* is ours is recorded or reported, a pause ends once the account is healthy,
\* and every hunt gets its turn.
HuntsEnd ==
    /\ part = "solo" /\ Solo!Active ~> part = "solo" /\ Solo!Over
    /\ part = "solo" /\ Solo!Owned ~> part = "solo" /\ Solo!Recorded
    /\ part = "pause" /\ Pause!Paused ~> part = "pause" /\ Pause!Resumed
    /\ \A i \in {1, 2} :
         part = "hunts" /\ Hunts!Active(i) ~> part = "hunts" /\ (i \in Hunts!Running \/ ~Hunts!Active(i))
\* DeliverEmail, WithLock and CheckAvailability: a queued mail is sent or
\* reported, the cron lock is always free again, and a search is answered.
QueueDrains ==
    /\ part = "mail" /\ Mailer!Queued(1) ~> part = "mail" /\ (Mailer!Orphaned \/ ~Mailer!Queued(1))
    /\ part = "jobs" /\ Queue!Locked ~> part = "jobs" /\ ~Queue!Locked
    /\ <>(part = "search" => Search!Answered)
\* GenerateRenewalInvoices and ReconcileOne: what is due is billed, and a
\* payment at the gateway is recognised, whatever callbacks are lost.
MoneyArrives ==
    /\ \A k \in {"svc", "dom"} :
         part = "renewals" /\ Billing!Unbilled(k) ~> part = "renewals" /\ ~Billing!Unbilled(k)
    /\ part = "gateway" /\ Duitku!Paid(1) ~> part = "gateway" /\ Duitku!Confirmed(1)
\* SyncAwaitingVerification, SyncDomainJob and CancelService: a registration
\* the registrar activated does not stay pending, a rejection reaches the row,
\* and an immediate cancellation ends the service.
RowsCatchUp ==
    /\ (<>[](part = "domain" /\ Domain!Activated) => []<>(part = "domain" => ~Domain!Pending))
    /\ part = "domain" /\ Domain!Rejected ~> part = "domain" /\ Domain!Settled
    /\ part = "service" /\ Service!ImmediatePending ~> part = "service" /\ (Service!Ended \/ v8 \/ v9)
=============================================================================
