-------------------------------- MODULE Jobs --------------------------------
(***************************************************************************)
(* The worker: tasks of the queue with their retries and their archive, the *)
(* wrapper that alerts the administrators when a task fails for good, the   *)
(* cron handlers that run under a lock in redis, and the page of pending    *)
(* module actions where an administrator retries or dismisses what failed.  *)
(* The queue itself (asynq) is external: it hands a pending task to one     *)
(* worker, counts attempts, archives the last failure, and recovers a task  *)
(* whose worker died.                                                       *)
(***************************************************************************)
EXTENDS Integers, FiniteSets

CONSTANTS Tasks,        \* task ids
          Workers,      \* workers, one task each at a time
          MaxRetry,     \* retries of a task after its first attempt
          MaxRuns       \* bound: how often a task may be archived

None == "none"
Kinds == {"module", "cron"}

VARIABLES task,         \* id -> [kind, state, retried, archived, alerts]
          lock,         \* owner of the cron lock, or None
          worker,       \* worker -> [at, id, overran]
          admin,        \* [at, ids]: what DismissAll has collected
          events        \* history: "crashed", "mute", "crossed", "strayed"

vars == <<task, lock, worker, admin, events>>

Idle == [at |-> "off", id |-> None, overran |-> FALSE]
Init ==
    /\ task = [i \in Tasks |-> [kind |-> "module", state |-> None, retried |-> 0, archived |-> 0, alerts |-> 0]]
    /\ lock = None
    /\ worker = [w \in Workers |-> Idle]
    /\ admin = [at |-> "off", ids |-> {}]
    /\ events = {}

At(w, p) == worker[w].at = p
Goto(w, p) == worker' = [worker EXCEPT ![w].at = p]
Done(w) == worker' = [worker EXCEPT ![w] = Idle]
Is(i, s) == task[i].state = s

-----------------------------------------------------------------------------
(* The queue.                                                              *)

\* Enqueue, by a module or by the scheduler's periodic entries.
Enqueue(i, k) ==
    /\ Is(i, None)
    /\ task' = [task EXCEPT ![i].kind = k, ![i].state = "pending"]
    /\ UNCHANGED <<lock, worker, admin, events>>
\* asynq hands out a pending task, or one whose backoff has passed.
Take(w, i) ==
    /\ At(w, "off") /\ task[i].state \in {"pending", "retry"}
    /\ task' = [task EXCEPT ![i].state = "active"]
    /\ worker' = [worker EXCEPT ![w] = [Idle EXCEPT !.at = IF task[i].kind = "cron" THEN "lock" ELSE "run", !.id = i]]
    /\ UNCHANGED <<lock, admin, events>>

\* asynq after a failed attempt.
Failed(t, final) ==
    IF final THEN [t EXCEPT !.state = "archived", !.archived = @ + 1]
             ELSE [t EXCEPT !.state = "retry", !.retried = @ + 1]

-----------------------------------------------------------------------------
(* The handlers.                                                           *)

\* What a handler may return: a task that cannot be decoded, has no id or fails
\* validation skips its retries; a cron handler has no payload.
Outcomes(k) == IF k = "cron" THEN {"ok", "error"} ELSE {"ok", "error", "skip"}

\* Mutant: the last attempt is taken for one that will be retried.
FinalLate(t, out) == out = "skip" \/ t.retried > MaxRetry
isFinalAttempt(t, out) == out = "skip" \/ t.retried >= MaxRetry
\* What the queue does with the same error.
LastAttempt(t, out) == out = "skip" \/ t.retried >= MaxRetry

\* wrap: on the final failure AlertAdmin, whose own failure is only logged.
wrap(w, out) ==
    LET i == worker[w].id
        t == task[i]
    IN  /\ out = "ok" \/ t.archived < MaxRuns
        /\ IF out = "ok"
             THEN task' = [task EXCEPT ![i].state = "done"] /\ UNCHANGED events
             ELSE \E heard \in BOOLEAN :
                  LET final == isFinalAttempt(t, out)
                      new == Failed(t, LastAttempt(t, out))
                  IN  /\ final \/ heard
                      /\ task' = [task EXCEPT ![i] = [new EXCEPT !.alerts = IF final /\ heard THEN @ + 1 ELSE @]]
                      /\ events' = IF heard THEN events ELSE events \cup {"mute"}

Run(w) ==
    /\ At(w, "run") /\ task[worker[w].id].kind = "module"
    /\ \E out \in Outcomes("module") : wrap(w, out)
    /\ Done(w)
    /\ UNCHANGED <<lock, admin>>

\* WithLock: SET NX; held elsewhere, cron takes CONFLICT for success.
WithLock(w) ==
    /\ At(w, "lock")
    /\ IF lock = None
         THEN lock' = w /\ Goto(w, "run") /\ UNCHANGED task
         ELSE task' = [task EXCEPT ![worker[w].id].state = "done"] /\ Done(w) /\ UNCHANGED lock
    /\ UNCHANGED <<admin, events>>
\* Mutant: whoever finishes deletes the key.
ReleaseAny(w) == None
\* releaseScript deletes the key only if it still holds our token.
Released(w) == IF lock = w THEN None ELSE lock
cron(w) ==
    /\ At(w, "run") /\ task[worker[w].id].kind = "cron"
    /\ \E out \in Outcomes("cron") : wrap(w, out)
    /\ lock' = Released(w)
    /\ Done(w)
    /\ UNCHANGED admin

\* Mutant: the key is set without a time to live.
NeverExpires == FALSE
\* cronLockTTL: the key expires under a run that takes longer.
Expirable == lock # None
LockExpires ==
    /\ Expirable
    /\ worker' = [w \in Workers |-> IF lock = w /\ At(w, "run") THEN [worker[w] EXCEPT !.overran = TRUE] ELSE worker[w]]
    /\ lock' = None
    /\ UNCHANGED <<task, admin, events>>

\* The process dies; the queue finds the task and counts the attempt.
Crash(w) ==
    LET t == task[worker[w].id]
    IN  /\ ~At(w, "off") /\ t.archived < MaxRuns
        /\ task' = [task EXCEPT ![worker[w].id] = Failed(t, LastAttempt(t, "error"))]
        /\ events' = events \cup {"crashed"}
        /\ Done(w)
        /\ UNCHANGED <<lock, admin>>

-----------------------------------------------------------------------------
(* Pending module actions.                                                 *)

\* Mutant: everything that is not finished.
CollectUnfinished == {i \in Tasks : task[i].kind = "module" /\ task[i].state \in {"archived", "retry", "pending"}}
collectModuleActions == {i \in Tasks : task[i].kind = "module" /\ task[i].state \in {"archived", "retry"}}

\* RunTask: back to pending, the attempts already made stay counted.
RetryModuleAction(i) ==
    /\ i \in collectModuleActions
    /\ task' = [task EXCEPT ![i].state = "pending"]
    /\ events' = IF i \in admin.ids THEN events \cup {"crossed"} ELSE events
    /\ UNCHANGED <<lock, worker, admin>>
\* DeleteTask takes a task in any state but active.
Deletable(i) == task[i].state \in {"archived", "retry", "pending"}
DeleteTask(i) == task' = [task EXCEPT ![i].state = "deleted"]
\* The id comes from a list that may be old by now.
DeleteModuleAction(i) ==
    /\ task[i].kind = "module" /\ task[i].retried + task[i].archived > 0
    /\ Deletable(i) /\ DeleteTask(i)
    /\ UNCHANGED <<lock, worker, admin, events>>

\* DismissAllModuleActions: collect, then delete one by one; a task that is
\* gone is passed over, an active one ends the loop with an error.
DismissAll ==
    /\ admin.at = "off" /\ collectModuleActions # {}
    /\ admin' = [at |-> "delete", ids |-> collectModuleActions]
    /\ UNCHANGED <<task, lock, worker, events>>
DismissNext(i) ==
    /\ admin.at = "delete" /\ i \in admin.ids
    /\ IF Is(i, "active")
         THEN admin' = [at |-> "off", ids |-> {}] /\ UNCHANGED <<task, events>>
         ELSE /\ admin' = IF admin.ids = {i} THEN [at |-> "off", ids |-> {}] ELSE [admin EXCEPT !.ids = @ \ {i}]
              /\ IF Deletable(i) THEN DeleteTask(i) ELSE UNCHANGED task
              /\ events' = IF Is(i, "pending") THEN events \cup {"strayed"} ELSE events
    /\ UNCHANGED <<lock, worker>>

Work(w) == Run(w) \/ WithLock(w) \/ cron(w)
Next ==
    \/ \E i \in Tasks, k \in Kinds : Enqueue(i, k)
    \/ \E w \in Workers : Work(w) \/ Crash(w) \/ (\E i \in Tasks : Take(w, i))
    \/ \E i \in Tasks : RetryModuleAction(i) \/ DeleteModuleAction(i) \/ DismissNext(i)
    \/ DismissAll \/ LockExpires
Spec == Init /\ [][Next]_vars
\* A worker goes on with its task, and redis drops an expired key.
FairSpec == Spec /\ (\A w \in Workers : WF_vars(Work(w))) /\ WF_vars(LockExpires)

-----------------------------------------------------------------------------
(* Properties.                                                             *)

\* "when a task fails on its last attempt .. or returns asynq.SkipRetry,
\* Notifier.AlertAdmin is called": one alert for each time a task is archived,
\* none for one that will be retried, also when an administrator sends it
\* through again; short of a worker that dies or an alert that fails.
AlertedOnce ==
    events \cap {"crashed", "mute"} = {} => \A i \in Tasks : task[i].alerts = task[i].archived

\* "Every cron handler runs single-flight": two runs overlap only if one of them
\* outlived the lock's time to live, and even then it does not take away the
\* lock of the run that came after it.
SingleFlight ==
    Cardinality({w \in Workers : At(w, "run") /\ task[worker[w].id].kind = "cron" /\ ~worker[w].overran}) <= 1

\* DismissAllModuleActions dismisses what failed "without retrying any of them":
\* a task waiting to run is deleted only if an administrator sent it back
\* between the collection and its turn.
OnlyFailedDismissed == "strayed" \in events => "crossed" \in events

\* "expiry makes crashes safe": the lock is always free again.
Locked == lock # None
LockFreed == Locked ~> ~Locked
=============================================================================
