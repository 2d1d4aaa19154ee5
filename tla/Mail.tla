-------------------------------- MODULE Mail --------------------------------
(***************************************************************************)
(* Outgoing mail (modules/notifications, repository/emaillog_repo, the        *)
(* mail:send job of the worker): a row of the email log, the rendered body in *)
(* object storage and the queued task are written one after the other; the   *)
(* worker delivers, marks the row and is retried by asynq; an administrator   *)
(* may retry too.  Rendering the template comes first and keeps no state.     *)
(***************************************************************************)
EXTENDS Naturals, Sequences, FiniteSets

CONSTANTS
    Procs,     \* requests and worker goroutines at the same time
    MaxRows,   \* bound: the rows of the log
    MaxRetry,  \* jobs.DefaultMaxRetry
    MaxTasks   \* bound: the tasks ever enqueued

VARIABLES
    log,        \* email_log: the status of each row, and the messages delivered for it
    bodies,     \* the rows whose body is in storage
    tasks,      \* the mail:send tasks waiting: number, row, retries left
    enqueued,   \* how many tasks were enqueued
    proc,       \* what each process is doing
    events      \* history: what happened that weakens a guarantee
vars == <<log, bodies, tasks, enqueued, proc, events>>

NoTask == [id |-> 0, row |-> 0, left |-> 0]
Idle == [at |-> "off", row |-> 0, task |-> NoTask]
Init ==
    /\ log = << >> /\ bodies = {} /\ tasks = {} /\ enqueued = 0
    /\ proc = [p \in Procs |-> Idle]
    /\ events = {}

At(p, c) == proc[p].at = c
Goto(p, c) == proc' = [proc EXCEPT ![p].at = c]
Done(p) == proc' = [proc EXCEPT ![p] = Idle]
Row(p) == proc[p].row
Mark(i, s) == log' = [log EXCEPT ![i].status = s]

-----------------------------------------------------------------------------
(* Queueing: persist writes the row and the body, queue the task.          *)

\* With the template found and rendered: SendTemplate, AlertAdmin (with "put") and SendTestEmail (with "testput") up
\* to the insertion of the row.
Create(p, next) ==
    /\ Len(log) < MaxRows
    /\ log' = Append(log, [status |-> "queued", delivered |-> 0])
    /\ proc' = [proc EXCEPT ![p] = [Idle EXCEPT !.at = next, !.row = Len(log) + 1]]
    /\ UNCHANGED <<bodies, tasks, enqueued, events>>
SendTemplate(p) == At(p, "off") /\ Create(p, "put")
\* The test message is built in code and needs no template.
SendTestEmail(p) == At(p, "off") /\ Create(p, "testput")

\* A failure on the way is marked, unless that fails as well.
GiveUp(p) ==
    /\ Done(p)
    /\ \/ Mark(Row(p), "failed") /\ UNCHANGED events
       \/ UNCHANGED log /\ events' = events \cup {"orphaned"}
persist(p) ==
    /\ At(p, "put") \/ At(p, "testput")
    /\ \/ /\ bodies' = bodies \cup {Row(p)}
          /\ Goto(p, IF At(p, "put") THEN "enqueue" ELSE "send")
          /\ UNCHANGED <<log, events>>
       \/ GiveUp(p) /\ UNCHANGED bodies
    /\ UNCHANGED <<tasks, enqueued>>
Enqueue(i) ==
    /\ enqueued < MaxTasks /\ enqueued' = enqueued + 1
    /\ tasks' = tasks \cup {[id |-> enqueued + 1, row |-> i, left |-> MaxRetry]}
\* Mutant: an error of the queue is not looked at.
QueueBlind(p) ==
    /\ At(p, "enqueue") /\ Done(p)
    /\ Enqueue(Row(p)) \/ UNCHANGED <<tasks, enqueued>>
    /\ UNCHANGED <<bodies, log, events>>
queue(p) ==
    /\ At(p, "enqueue")
    /\ \/ Enqueue(Row(p)) /\ Done(p) /\ UNCHANGED <<log, events>>
       \/ GiveUp(p) /\ UNCHANGED <<tasks, enqueued>>
    /\ UNCHANGED <<bodies>>

\* Mutant: any row that is not sent.
RetryUnsent(i) == log[i].status # "sent"
\* RetryEmail: "only failed emails can be retried".
Retryable(i) == log[i].status = "failed"
RetryEmail(i) ==
    /\ Retryable(i) /\ Enqueue(i)
    /\ UNCHANGED <<log, bodies, proc, events>>

-----------------------------------------------------------------------------
(* Delivery by the worker.                                                 *)

Take(p, t) ==
    /\ At(p, "off") /\ t \in tasks
    /\ tasks' = tasks \ {t}
    /\ proc' = [proc EXCEPT ![p] = [at |-> "load", row |-> t.row, task |-> t]]
    /\ UNCHANGED <<log, bodies, enqueued, events>>

\* Mutant: every task delivers.
DeliverAgain(i) == FALSE
AlreadySent(i) == log[i].status = "sent"

\* wrap and asynq: an error is retried; on the last one the admin is alerted.
Failed(p) ==
    LET t == proc[p].task
    IN  IF t.left > 0
        THEN tasks' = tasks \cup {[t EXCEPT !.left = @ - 1]} /\ Done(p)
        ELSE UNCHANGED tasks /\ Goto(p, IF t = NoTask THEN "off" ELSE "alert")

\* DeliverEmail: the row is read; a sent one is left alone; no body is an error.
DeliverEmail(p) ==
    /\ At(p, "load")
    /\ IF AlreadySent(Row(p)) THEN Done(p) /\ UNCHANGED <<tasks, events>>
       ELSE IF Row(p) \in bodies
            THEN /\ Goto(p, "send") /\ UNCHANGED tasks
                 /\ events' = events \cup (IF \E q \in Procs \ {p} : Row(q) = Row(p) /\ proc[q].at \in {"send", "mark", "unsent"}
                                           THEN {"raced"} ELSE {})
            ELSE Goto(p, "unsent") /\ UNCHANGED <<tasks, events>>
    /\ UNCHANGED <<log, bodies, enqueued>>
\* Mailer.Send: delivered, refused, or delivered with the answer lost.
Send(p) ==
    /\ At(p, "send")
    /\ \E out \in {"ok", "refused", "lost"} :
         /\ log' = [log EXCEPT ![Row(p)].delivered = IF out = "refused" THEN @ ELSE @ + 1]
         /\ Goto(p, IF out = "ok" THEN "mark" ELSE "unsent")
         /\ events' = events \cup (IF out = "lost" THEN {"lost"} ELSE {})
    /\ UNCHANGED <<bodies, tasks, enqueued>>
\* MarkSent; when the database refuses, the task is retried though delivered.
MarkSent(p) ==
    /\ At(p, "mark")
    /\ \/ Mark(Row(p), "sent") /\ Done(p) /\ UNCHANGED <<tasks, events>>
       \/ UNCHANGED log /\ Failed(p) /\ events' = events \cup {"lost", "orphaned"}
    /\ UNCHANGED <<bodies, enqueued>>
\* Mutant: an error marks the row sent.
MarkAnyway(p) == log' = [log EXCEPT ![Row(p)].status = "sent"]
MarkFailed(p) == Mark(Row(p), "failed")
Unsent(p) ==
    /\ At(p, "unsent") /\ MarkFailed(p) /\ Failed(p)
    /\ UNCHANGED <<bodies, enqueued, events>>
\* AlertAdmin: one more mail.
AlertAdmin(p) ==
    /\ At(p, "alert")
    /\ Create(p, "put") \/ (Done(p) /\ UNCHANGED <<log, bodies, tasks, enqueued, events>>)

\* A process dies; asynq runs an interrupted task again.
Crash(p) ==
    /\ ~At(p, "off") /\ Done(p)
    /\ tasks' = IF proc[p].task # NoTask /\ proc[p].task.left > 0
                THEN tasks \cup {[proc[p].task EXCEPT !.left = @ - 1]} ELSE tasks
    /\ events' = events \cup {"orphaned"} \cup (IF At(p, "mark") \/ At(p, "unsent") THEN {"lost"} ELSE {})
    /\ UNCHANGED <<log, bodies, enqueued>>

Step(p) ==
    persist(p) \/ queue(p) \/ DeliverEmail(p) \/ Send(p) \/ MarkSent(p) \/ Unsent(p) \/ AlertAdmin(p)
    \/ \E t \in tasks : Take(p, t)
Next ==
    \/ \E p \in Procs : Step(p) \/ SendTestEmail(p) \/ Crash(p) \/ SendTemplate(p)
    \/ \E i \in DOMAIN log : RetryEmail(i)
Spec == Init /\ [][Next]_vars
\* Goroutines run on, and the queue hands out what it holds.
FairSpec == Spec /\ \A p \in Procs : WF_vars(Step(p))

-----------------------------------------------------------------------------
(* Properties.                                                             *)

Holds(i) == (\E t \in tasks : t.row = i) \/ (\E p \in Procs : Row(p) = i)

\* MarkSent: a row that says sent was delivered.
SentIsDelivered == \A i \in DOMAIN log : log[i].status = "sent" => log[i].delivered > 0

\* DeliverEmail "Idempotent: already-sent rows are a no-op": one message per
\* row, also with an administrator's retry beside asynq's, unless an answer was
\* lost or two workers delivered the row at the same moment.
DeliveredOnce ==
    events \cap {"lost", "raced"} = {} => \A i \in DOMAIN log : log[i].delivered <= 1

\* RetryEmail "queued rows are already in flight": a queued row is being
\* written or has its task, unless a process died or the database refused.
QueuedIsInFlight ==
    "orphaned" \notin events => \A i \in DOMAIN log : log[i].status = "queued" => Holds(i)

\* MarkFailed does not look at the status: only a worker that raced another, or
\* repeats a delivery that was not recorded, can undo a sent row.
SentStep ==
    \A i \in DOMAIN log : log[i].status = "sent" /\ log'[i].status # "sent" => events \cap {"lost", "raced"} # {}
SentStays == [][SentStep]_vars

\* A queued mail is sent or reported as failed in the end, unless it was
\* orphaned.
Orphaned == "orphaned" \in events
Queued(i) == i \in DOMAIN log /\ log[i].status = "queued"
MailEnds == \A i \in 1..MaxRows : Queued(i) ~> Orphaned \/ ~Queued(i)
=============================================================================
