------------------------------- MODULE Hosting -------------------------------
(***************************************************************************)
(* Several hosting services on several servers: the choice of a server, the *)
(* usernames and packages the services share there, upgrades, and the      *)
(* administration of servers (src/backend/internal/modules/provisioning).  *)
(* What the panels answer is module Panels.                                *)
(*                                                                         *)
(* The jobs of one service run one after the other here (their races are   *)
(* the subject of module Services); the jobs of different services, and a   *)
(* job and a request for the same service, interleave at every call to the  *)
(* database or to a panel.  As everywhere in provisioning, a handler        *)
(* writes back the whole copy of the row it read.                           *)
(***************************************************************************)
EXTENDS Panels, Sequences

CONSTANTS
    Services,    \* service ids; a larger id was created later
    Servers,     \* server ids, in one group, all of them of module Module
    Capacity,    \* Capacity[v]: max_accounts of v, 0 for no limit
    Module,      \* the products' module
    Strategy,    \* the group's strategy, least_used or round_robin
    Movers,      \* bound: the services whose plan is changed
    Rebinds,     \* bound: the products an administrator rebinds them to
    Doomed,      \* bound: the services somebody terminates
    Retirable,   \* bound: the servers an administrator deactivates or deletes
    MaxFaults,   \* bound: the calls that fail
    MaxInvoices  \* bound: the upgrade invoices a service is given

VARIABLES
    rows,      \* the services table
    servers,   \* active, inactive or deleted
    panels,    \* the panel of each server
    queue,     \* the jobs waiting for each service
    job,       \* the job each service is in, with the copy of the row it read
    asked,     \* the upgrade request being handled for each service
    invoices,  \* the upgrade invoices of each service, in order
    faults,    \* the calls that failed so far
    events     \* history: what has happened that weakens a guarantee
vars == <<rows, servers, panels, queue, job, asked, invoices, faults, events>>

None == "none"
Idle == [op |-> None]
Ended == {"terminated", "cancelled"}
Domain(s) == s   \* every service has a domain of its own
Failed == [code |-> "external", dom |-> 0]

\* UsernameFromDomain: the domains of all services share their first label.
Label == <<0, 0>>
\* Mutant: the suffix does not come from the service's id.
CountUp(u, s) == <<0, u[2] + 1>>
\* DisambiguateUsername: a name of this service alone, new at every escalation.
DisambiguateUsername(u, s) == <<s, u[2] + 1>>

\* A plan is a product and the specs chosen for it: the flat product has none.
Plans == {[product |-> "flat", specs |-> None], [product |-> "custom", specs |-> "small"]}
Price(plan) == IF plan.product = "flat" THEN 1 ELSE 2
PlanOf(row) == [product |-> row.product, specs |-> row.specs]

\* buildPackageSpec: the package of a configurable product is named after the
\* limits chosen, so services with the same limits share it; a flat product
\* has the package its record names.
PackageName(row) == 
    IF row.product = "flat" THEN "starter"
    ELSE IF row.specs = "small" THEN "dyn_small" ELSE "dyn_defaults"

NewRow(plan) ==
    [status |-> "pending", server |-> 0, user |-> Label, meta |-> None,
     product |-> plan.product, specs |-> plan.specs, amount |-> Price(plan), upgrade |-> 0]

\* Services are ordered, or (absent) to be recorded by an administrator for an
\* account that exists on the first server already.
Init ==
    /\ \E plan \in [Services -> Plans], late \in SUBSET Services :
         /\ Cardinality(late) <= 1
         /\ rows = [s \in Services |->
              IF s \in late THEN [NewRow(plan[s]) EXCEPT !.status = "absent"] ELSE NewRow(plan[s])]
         /\ queue = [s \in Services |-> IF s \in late THEN {} ELSE {"create"}]
         /\ panels = [v \in Servers |->
              IF v = 1 /\ late # {}
                THEN [EmptyPanel EXCEPT !.accts =
                        (Label :> Account(Domain(CHOOSE s \in late : TRUE), "starter"))]
                ELSE EmptyPanel]
    /\ servers = [v \in Servers |-> "active"]
    /\ job = [s \in Services |-> Idle]
    /\ asked = [s \in Services |-> Idle]
    /\ invoices = [s \in Services |-> << >>]
    /\ faults = 0
    /\ events = {}

-----------------------------------------------------------------------------
(* Rows, jobs and calls.                                                   *)

Note(e)      == events' = events \cup e
When(b, e)   == IF b THEN {e} ELSE {}
Quiet        == events \cap {"stale", "cut", "blind", "reused", "unready"} = {}
At(s, op, p) == job[s] # Idle /\ job[s].op = op /\ job[s].at = p

\* CountByServer: the services that occupy a server.
CountByServer(v) ==
    Cardinality({s \in Services : rows[s].server = v /\ rows[s].status \in {"pending", "active", "suspended"}})

\* The job goes on at p with its copy of the row.
Goto(s, p)   == job' = [job EXCEPT ![s].at = p]
EndJob(s)    == job' = [job EXCEPT ![s] = Idle]

\* Repo.Update from a job: it ends ("done") or goes on at p; an upgrade request
\* that read the row before has an outdated copy now.
WriteJob(s, row, p, e) ==
    /\ rows' = [rows EXCEPT ![s] = row]
    /\ job' = [job EXCEPT ![s] = IF p = "done" THEN Idle ELSE [@ EXCEPT !.at = p, !.copy = row]]
    /\ asked' = [asked EXCEPT ![s] = IF @ = Idle THEN Idle ELSE [@ EXCEPT !.fresh = FALSE]]
    /\ Note(e \cup When(~job[s].fresh, "stale"))

\* Repo.Update from a request: the job under way has an outdated copy now.
Outdate(s) == job' = [job EXCEPT ![s] = IF @ = Idle THEN Idle ELSE [@ EXCEPT !.fresh = FALSE]]

\* The job returns an error: the queue runs it again, or gives up one day.
Retry(s, e) ==
    \/ queue' = [queue EXCEPT ![s] = @ \cup {job[s].op}] /\ Note(e)
    \/ UNCHANGED queue /\ Note(e \cup {"cut"})

\* Any call of a job can fail before it has an effect.
FailJob(s) ==
    /\ job[s] # Idle
    /\ job[s].at \notin {"count", "inuse", "delete", "info"}
    /\ faults < MaxFaults
    /\ faults' = faults + 1
    /\ EndJob(s)
    /\ Retry(s, {})
    /\ UNCHANGED <<rows, servers, panels, asked, invoices>>

\* A call to the panel of service s: it is answered, or its answer is lost.  An
\* answer with a code of next leads to that step; another code is an error.
Overlaps(s) ==
    \E t \in Services \ {s} :
        /\ job[t] # Idle /\ job[t].at \in {"inuse", "delete"}
        /\ job[t].copy.server = job[s].copy.server /\ job[t].old = PackageName(job[s].copy)

\* The username is free on the panel although the row of another service names it:
\* the account was removed, and the job that did it has not stored that yet.
Reuses(s) ==
    \E t \in Services \ {s} :
        /\ job[s].at = "create" /\ ~Has(panels[job[s].copy.server], job[s].copy.user)
        /\ rows[t].status = "active" /\ rows[t].server = job[s].copy.server
        /\ rows[t].user = job[s].copy.user

CallPanel(s, r, next) ==
    LET e == When(Overlaps(s), "crossed") \cup When(Reuses(s), "reused")
    IN  /\ panels' = [panels EXCEPT ![job[s].copy.server] = r.panel]
        /\ \/ /\ r.code \in DOMAIN next
              /\ Goto(s, next[r.code])
              /\ Note(e)
              /\ UNCHANGED <<queue, faults>>
           \/ /\ r.code \notin DOMAIN next
              /\ EndJob(s) /\ Retry(s, e)
              /\ UNCHANGED faults
           \/ /\ faults < MaxFaults
              /\ faults' = faults + 1
              /\ EndJob(s) /\ Retry(s, e)
        /\ UNCHANGED <<rows, servers, asked, invoices>>

Panel(s) == panels[job[s].copy.server]

-----------------------------------------------------------------------------
(* ProvisionCreate.                                                        *)

AfterPin(row) == IF row.product = "custom" THEN "ensure" ELSE "create"

FirstStep(op, row) ==
    CASE op = "create" -> IF row.status # "pending" THEN "done"
                          ELSE IF row.server = 0 THEN "pick" ELSE AfterPin(row)
      [] op = "change" -> IF row.server = 0 THEN "done"
                          ELSE IF row.product = "custom" THEN "ensure" ELSE "change"
      [] op = "terminate" -> IF row.status \in Ended THEN "done"
                             ELSE IF row.status = "pending" THEN "cancel"
                             ELSE IF row.server = 0 THEN "write" ELSE "remove"

\* ProvisionChangePackage does not look at the status: it may find a service whose
\* account is not there yet, and whose username is still another's.
BeginJob(s, op) ==
    /\ job[s] = Idle
    /\ op \in queue[s]
    /\ queue' = [queue EXCEPT ![s] = @ \ {op}]
    /\ LET at == FirstStep(op, rows[s])
       IN  IF at = "done" THEN UNCHANGED job
           ELSE job' = [job EXCEPT ![s] =
                  [op |-> op, at |-> at, copy |-> rows[s], old |-> rows[s].meta, fresh |-> TRUE]]
    /\ Note(When(op = "change" /\ rows[s].status # "active" /\ rows[s].server # 0, "unready"))
    /\ UNCHANGED <<rows, servers, panels, asked, invoices, faults>>

\* Mutant: a full server is a candidate.
PickFull == {v \in Servers : servers[v] = "active"}
\* The active servers of the group that have room.
Candidates ==
    {v \in Servers : servers[v] = "active" /\ (Capacity[v] = 0 \/ CountByServer(v) < Capacity[v])}

LastAssigned(v) ==
    LET on == {s \in Services : rows[s].server = v /\ rows[s].status \in {"pending", "active", "suspended"}}
    IN  IF on = {} THEN 0 ELSE CHOOSE s \in on : \A t \in on : t <= s
Rank(v) == IF Strategy = "least_used" THEN CountByServer(v) ELSE LastAssigned(v)

\* The best candidate of the strategy; the smaller id wins a tie.
PickServer(s) ==
    /\ At(s, "create", "pick")
    /\ IF Candidates = {}
         THEN EndJob(s) /\ Retry(s, {})
         ELSE LET v == CHOOSE v \in Candidates : \A w \in Candidates :
                         Rank(v) < Rank(w) \/ (Rank(v) = Rank(w) /\ v <= w)
              IN  /\ job' = [job EXCEPT ![s].copy.server = v, ![s].at = "pin"]
                  /\ UNCHANGED <<queue, events>>
    /\ UNCHANGED <<rows, servers, panels, asked, invoices, faults>>

\* The pick is stored before anything is created.  A server deleted in between
\* is refused by the foreign key.
PinServer(s) ==
    LET v == job[s].copy.server
    IN  /\ At(s, "create", "pin")
        /\ IF servers[v] = "deleted"
             THEN EndJob(s) /\ Retry(s, {}) /\ UNCHANGED <<rows, asked>>
             ELSE /\ WriteJob(s, job[s].copy, AfterPin(job[s].copy),
                        When(\E t \in Services \ {s} : At(t, "create", "pin") /\ job[t].copy.server = v,
                             "together"))
                  /\ UNCHANGED queue
        /\ UNCHANGED <<servers, panels, invoices, faults>>

EnsurePackageFor(s) ==
    /\ job[s] # Idle /\ job[s].at = "ensure"
    /\ CallPanel(s, EnsurePackage(Module, Panel(s), PackageName(job[s].copy), PackageName(job[s].copy)),
                 [ok |-> IF job[s].op = "create" THEN "create" ELSE "change"])

CreateAccount(s) ==
    /\ At(s, "create", "create")
    /\ CallPanel(s, Create(Module, Panel(s), job[s].copy.user, Domain(s), PackageName(job[s].copy)),
                 [ok |-> "write", conflict |-> "info"])

\* Mutant: whoever has the username, the account is taken to be ours.
TakeOver(s, answer) == answer.code = "ok"
\* Mutant: an account in the way is never ours.
NeverOurs(s, answer) == FALSE
\* Is the account that is in the way the one an earlier attempt made?
OursAlready(s, answer) == answer.code = "ok" /\ answer.dom = Domain(s)

\* A conflict: the account of an earlier attempt completes this one; otherwise
\* (and also when the question itself fails) the service gets another username.
ResolveConflict(s) ==
    /\ At(s, "create", "info")
    /\ LET truth == AccountInfo(Module, Panel(s), job[s].copy.user)
       IN  \E answer \in {truth, Failed} :
             /\ answer = Failed => faults < MaxFaults
             /\ faults' = IF answer = Failed THEN faults + 1 ELSE faults
             /\ IF OursAlready(s, answer)
                  THEN Goto(s, "write") /\ UNCHANGED <<rows, queue, asked, events>>
                  ELSE /\ rows' = [rows EXCEPT ![s] =
                              [job[s].copy EXCEPT !.user = DisambiguateUsername(@, s)]]
                       /\ EndJob(s)
                       /\ asked' = [asked EXCEPT ![s] = IF @ = Idle THEN Idle ELSE [@ EXCEPT !.fresh = FALSE]]
                       /\ Retry(s, When(~job[s].fresh, "stale")
                                   \cup When(answer = Failed /\ OursAlready(s, truth), "blind"))
    /\ UNCHANGED <<servers, panels, invoices>>

DynamicPackage(row) == IF row.product = "custom" THEN PackageName(row) ELSE None

ActivateService(s) ==
    /\ At(s, "create", "write")
    /\ LET row == job[s].copy
       IN  WriteJob(s, [row EXCEPT !.status = "active",
                                   !.meta = IF row.product = "custom" THEN PackageName(row) ELSE @],
                    "done", {})
    /\ UNCHANGED <<servers, panels, queue, invoices, faults>>

ProvisionCreate(s) ==
    \/ PickServer(s) \/ PinServer(s)
    \/ EnsurePackageFor(s) /\ job[s].op = "create"
    \/ CreateAccount(s) \/ ResolveConflict(s) \/ ActivateService(s)

-----------------------------------------------------------------------------
(* ProvisionChangePackage, ProvisionTerminate and the clean-up of packages. *)

ChangeAccount(s) ==
    /\ At(s, "change", "change")
    /\ CallPanel(s, ChangePackage(Module, Panel(s), job[s].copy.user, PackageName(job[s].copy)),
                 [ok |-> "write"])

StoreChange(s) ==
    /\ At(s, "change", "write")
    /\ LET new == DynamicPackage(job[s].copy)
       IN  WriteJob(s, [job[s].copy EXCEPT !.meta = new],
                    IF job[s].old \notin {None, new} THEN "count" ELSE "done", {})
    /\ UNCHANGED <<servers, panels, queue, invoices, faults>>

RemoveAccount(s) ==
    /\ At(s, "terminate", "remove")
    /\ CallPanel(s, Terminate(Module, Panel(s), job[s].copy.user), [ok |-> "write"])

\* The row says terminated before its package is looked at.
StoreTerminated(s) ==
    /\ At(s, "terminate", "write") \/ At(s, "terminate", "cancel")
    /\ WriteJob(s, [job[s].copy EXCEPT !.status = IF @ = "pending" THEN "cancelled" ELSE "terminated"],
                IF job[s].at = "write" /\ job[s].copy.server # 0 /\ job[s].old # None THEN "count" ELSE "done", {})
    /\ UNCHANGED <<servers, panels, queue, invoices, faults>>

CountByServerAndPackage(s) ==
    Cardinality({t \in Services \ {s} : /\ rows[t].server = job[s].copy.server
                                        /\ rows[t].meta = job[s].old
                                        /\ rows[t].status \notin Ended \cup {"absent"}})

\* Mutant: only the database is asked.
SkipPanelCheck(s) ==
    \/ /\ job[s] # Idle /\ job[s].at = "count"
       /\ IF CountByServerAndPackage(s) > 0 THEN EndJob(s) ELSE Goto(s, "delete")
       /\ UNCHANGED <<panels, faults, events>>
    \/ /\ job[s] # Idle /\ job[s].at = "delete"
       /\ panels' = [panels EXCEPT ![job[s].copy.server] = DeletePackage(Module, @, job[s].old).panel]
       /\ EndJob(s)
       /\ UNCHANGED <<faults, events>>

\* Both the rows and the panel must say that the package is unused.  A call that
\* fails leaves it in place, with an alert, and the job ends well.
CleanupPackage(s) ==
    /\ job[s] # Idle
    /\ \/ /\ job[s].at = "count"
          /\ IF CountByServerAndPackage(s) > 0 THEN EndJob(s) ELSE Goto(s, "inuse")
          /\ UNCHANGED <<panels, faults, events>>
       \/ /\ job[s].at = "inuse"
          /\ IF PackageInUse(Module, Panel(s), job[s].old) THEN EndJob(s) ELSE Goto(s, "delete")
          /\ UNCHANGED <<panels, faults, events>>
       \/ /\ job[s].at = "delete"
          /\ panels' = [panels EXCEPT ![job[s].copy.server] = DeletePackage(Module, @, job[s].old).panel]
          /\ Note(When(\E t \in Services \ {s} : /\ job[t] # Idle /\ job[t].op # "terminate"
                                                 /\ job[t].copy.server = job[s].copy.server
                                                 /\ PackageName(job[t].copy) = job[s].old, "crossed"))
          /\ EndJob(s)
          /\ UNCHANGED faults
       \/ /\ job[s].at \in {"count", "inuse", "delete"}
          /\ faults < MaxFaults
          /\ faults' = faults + 1
          /\ EndJob(s)
          /\ UNCHANGED <<panels, events>>

cleanupDynamicPackage(s) ==
    CleanupPackage(s) /\ UNCHANGED <<rows, servers, queue, asked, invoices>>

ProvisionChangePackage(s) ==
    \/ EnsurePackageFor(s) /\ job[s].op = "change"
    \/ ChangeAccount(s) \/ StoreChange(s)

ProvisionTerminate(s) == RemoveAccount(s) \/ StoreTerminated(s)

-----------------------------------------------------------------------------
(* Upgrades.                                                               *)

\* The plan in effect, the price and the specs follow the upgrade; the package
\* change is queued afterwards, and that alone may fail.
Rebind(row, plan) == [row EXCEPT !.product = plan.product, !.specs = plan.specs, !.amount = Price(plan)]

\* Mutant: the panel is not told.
NoChange(s) == UNCHANGED <<queue, faults, events>>
QueueChange(s) ==
    \/ queue' = [queue EXCEPT ![s] = @ \cup {"change"}] /\ UNCHANGED <<faults, events>>
    \/ faults < MaxFaults /\ faults' = faults + 1 /\ UNCHANGED queue /\ Note({"cut"})

MayUpgrade(s) == rows[s].status = "active" /\ rows[s].upgrade = 0

\* A dearer plan is invoiced first; a cheaper one applies at once.
UpgradeService(s, plan) ==
    /\ s \in Movers /\ asked[s] = Idle
    /\ MayUpgrade(s)
    /\ plan # PlanOf(rows[s])
    /\ IF Price(plan) > rows[s].amount
         THEN /\ Len(invoices[s]) < MaxInvoices
              /\ invoices' = [invoices EXCEPT ![s] = Append(@, [plan |-> plan, status |-> "unpaid"])]
              /\ asked' = [asked EXCEPT ![s] =
                    [op |-> "upgrade", invoice |-> Len(invoices[s]) + 1, copy |-> rows[s], fresh |-> TRUE]]
              /\ UNCHANGED <<rows, queue, job, faults, events>>
         ELSE /\ rows' = [rows EXCEPT ![s] = Rebind(@, plan)]
              /\ Outdate(s)
              /\ QueueChange(s)
              /\ UNCHANGED <<asked, invoices>>
    /\ UNCHANGED <<servers, panels>>

\* The invoice exists; now the row is to say what it is for, or that write fails.
StoreUpgrade(s) ==
    /\ asked[s] # Idle
    /\ asked' = [asked EXCEPT ![s] = Idle]
    /\ \/ /\ rows' = [rows EXCEPT ![s] = [asked[s].copy EXCEPT !.upgrade = asked[s].invoice]]
          /\ Outdate(s)
          /\ Note(When(~asked[s].fresh, "stale"))
          /\ UNCHANGED faults
       \/ /\ faults < MaxFaults /\ faults' = faults + 1
          /\ Note({"cut"})
          /\ UNCHANGED <<rows, job>>
    /\ UNCHANGED <<servers, panels, queue, invoices>>

\* Mutant: the pending upgrade is not cleared.
KeepUpgrade(s) ==
    IF rows[s].upgrade = 0
    THEN UNCHANGED <<rows, queue, job, asked, faults>> /\ Note(When(asked[s] # Idle, "early"))
    ELSE /\ rows' = [rows EXCEPT ![s] = Rebind(@, invoices[s][@.upgrade].plan)]
         /\ Outdate(s)
         /\ QueueChange(s)
         /\ UNCHANGED asked

\* Mutant: the pending upgrade is cleared before its plan is taken over.
ForgetPlan(s) ==
    IF rows[s].upgrade = 0
    THEN UNCHANGED <<rows, queue, job, asked, faults>> /\ Note(When(asked[s] # Idle, "early"))
    ELSE /\ rows' = [rows EXCEPT ![s].upgrade = 0]
         /\ Outdate(s)
         /\ QueueChange(s)
         /\ UNCHANGED asked

\* ApplyUpgrade applies what the row holds, whichever upgrade invoice was paid;
\* a payment that comes before the row says anything changes nothing.
ApplyUpgrade(s) ==
    IF rows[s].upgrade = 0
    THEN UNCHANGED <<rows, queue, job, asked, faults>> /\ Note(When(asked[s] # Idle, "early"))
    ELSE /\ rows' = [rows EXCEPT ![s] =
                [Rebind(@, invoices[s][@.upgrade].plan) EXCEPT !.upgrade = 0]]
         /\ Outdate(s)
         /\ asked' = [asked EXCEPT ![s] = IF @ = Idle THEN Idle ELSE [@ EXCEPT !.fresh = FALSE]]
         /\ QueueChange(s)

PayUpgrade(s, i) ==
    /\ invoices[s][i].status = "unpaid"
    /\ invoices' = [invoices EXCEPT ![s][i].status = "paid"]
    /\ ApplyUpgrade(s)
    /\ UNCHANGED <<servers, panels>>

\* An invoice can be cancelled; nothing tells the service.
CancelUpgradeInvoice(s, i) ==
    /\ invoices[s][i].status = "unpaid"
    /\ invoices' = [invoices EXCEPT ![s][i].status = "cancelled"]
    /\ Note({"abandoned"})
    /\ UNCHANGED <<rows, servers, panels, queue, job, asked, faults>>

-----------------------------------------------------------------------------
(* Administration.                                                         *)

\* Another product of the same module; the chosen specs and the price stay.
AdminChangePackage(s, product) ==
    /\ s \in Movers /\ rows[s].status # "absent"
    /\ rows' = [rows EXCEPT ![s].product = product]
    /\ IF product = rows[s].product THEN UNCHANGED job ELSE Outdate(s)
    /\ asked' = [asked EXCEPT ![s] =
          IF @ = Idle \/ product = rows[s].product THEN @ ELSE [@ EXCEPT !.fresh = FALSE]]
    /\ queue' = [queue EXCEPT ![s] = @ \cup {"change"}]
    /\ UNCHANGED <<servers, panels, invoices, faults, events>>

\* A service is recorded for the account the administrator names.
AdminCreateService(s) ==
    /\ rows[s].status = "absent"
    /\ rows' = [rows EXCEPT ![s] = [NewRow([product |-> "flat", specs |-> None])
                                      EXCEPT !.status = "active", !.server = 1]]
    /\ Note({"recorded"})
    /\ UNCHANGED <<servers, panels, queue, job, asked, invoices, faults>>

\* AdminAction, AutoTerminate or CancelService want the account removed.
QueueTerminate(s) ==
    /\ s \in Doomed /\ rows[s].status \notin Ended \cup {"absent"}
    /\ queue' = [queue EXCEPT ![s] = @ \cup {"terminate"}]
    /\ UNCHANGED <<rows, servers, panels, job, asked, invoices, faults, events>>

UpdateServer(v) ==
    /\ v \in Retirable /\ servers[v] # "deleted"
    /\ servers' = [servers EXCEPT ![v] = IF @ = "active" THEN "inactive" ELSE "active"]
    /\ UNCHANGED <<rows, panels, queue, job, asked, invoices, faults, events>>

\* No live service may be on it, and the foreign key refuses ended ones too.
DeleteServer(v) ==
    /\ v \in Retirable /\ servers[v] # "deleted"
    /\ CountByServer(v) = 0
    /\ \A s \in Services : rows[s].server # v
    /\ servers' = [servers EXCEPT ![v] = "deleted"]
    /\ UNCHANGED <<rows, panels, queue, job, asked, invoices, faults, events>>

-----------------------------------------------------------------------------
Next ==
    \/ \E s \in Services :
         \/ \E op \in {"create", "change", "terminate"} : BeginJob(s, op)
         \/ ProvisionCreate(s) \/ ProvisionChangePackage(s) \/ ProvisionTerminate(s)
         \/ cleanupDynamicPackage(s) \/ FailJob(s)
         \/ \E plan \in Plans : UpgradeService(s, plan)
         \/ StoreUpgrade(s)
         \/ \E i \in DOMAIN invoices[s] : PayUpgrade(s, i) \/ CancelUpgradeInvoice(s, i)
         \/ \E product \in Rebinds : AdminChangePackage(s, product)
         \/ AdminCreateService(s) \/ QueueTerminate(s)
    \/ \E v \in Servers : UpdateServer(v) \/ DeleteServer(v)

Spec == Init /\ [][Next]_vars

-----------------------------------------------------------------------------
(* Properties.                                                             *)

Rows == [status : {"absent", "pending", "active", "terminated", "cancelled"}, server : Servers \cup {0},
         user : {<<0, 0>>} \cup (Services \X (1..(MaxFaults + 1))), meta : {None, "dyn_small", "dyn_defaults"},
         product : {"flat", "custom"}, specs : {None, "small"}, amount : {1, 2}, upgrade : 0..MaxInvoices]

\* The rows, the panels and the histories keep their types; in particular no
\* service needs more usernames than there were failed look-ups, plus one.
TypeOK ==
    /\ rows \in [Services -> Rows]
    /\ \A v \in Servers : \A u \in DOMAIN panels[v].accts :
          panels[v].accts[u].dom \in {Domain(s) : s \in Services}
    /\ queue \in [Services -> SUBSET {"create", "change", "terminate"}]
    /\ events \subseteq {"stale", "cut", "blind", "together", "crossed", "abandoned", "early", "recorded", "reused", "unready"}

Removing(s) == "terminate" \in queue[s] \/ (job[s] # Idle /\ job[s].op = "terminate")

\* ProvisionCreate ends well only with an account of its own: the account an
\* active service names carries that service's domain, whoever else wanted the
\* username, however often the job ran.  It is there as long as nobody removes it.
\* The exception is a username taken while a termination waits for its retry.
AccountIsOurs ==
    events \cap {"reused", "stale"} = {} =>
    \A s \in Services : rows[s].status = "active" /\ rows[s].server # 0 =>
        LET p == panels[rows[s].server]
        IN  /\ Has(p, rows[s].user) => p.accts[rows[s].user].dom = Domain(s)
            /\ Has(p, rows[s].user) \/ Removing(s) \/ "cut" \in events

\* "Re-terminating a removed account is a no-op": a termination, however often it
\* is retried, removes no account but that of its own service.
RemovesOwnAccountStep ==
    \A s \in Services : RemoveAccount(s) =>
        \A v \in Servers : \A u \in DOMAIN panels[v].accts :
          u \notin DOMAIN panels'[v].accts => panels[v].accts[u].dom = Domain(s)

\* No account is left over: one that carries a service's domain is the account
\* that service names, or its service was cancelled before it became active.  The
\* exception is a failed AccountInfo, which ProvisionCreate takes for a collision.
NoLeftover ==
    events \cap {"blind", "stale", "reused"} = {} =>
    \A v \in Servers, s \in Services : \A u \in DOMAIN panels[v].accts :
        panels[v].accts[u].dom = Domain(s) /\ rows[s].status \notin {"absent", "cancelled"}
        => rows[s].server = v /\ rows[s].user = u /\ rows[s].status # "terminated"

\* cleanupDynamicPackage never deletes a package an account is on, unless a job
\* that wants the same package runs during the clean-up.
PackagesKept ==
    "crossed" \notin events =>
    \A v \in Servers : \A u \in DOMAIN panels[v].accts : HasPackage(panels[v], panels[v].accts[u].pkg)

\* PickServer respects max_accounts, unless two jobs pick before either of them
\* has stored its choice, or an administrator records a service by hand.
CapacityKept ==
    events \cap {"together", "recorded", "stale"} = {} =>
    \A v \in Servers : Capacity[v] = 0 \/ CountByServer(v) <= Capacity[v]

\* Once its package changes are through, and none was run on a service that was
\* not active, an active service's account is on the
\* package of the plan in its row.
PlanOnPanel ==
    Quiet => \A s \in Services :
        /\ rows[s].status = "active" /\ rows[s].server # 0
        /\ job[s] = Idle /\ queue[s] = {}
        => LET p == panels[rows[s].server]
           IN  Has(p, rows[s].user) /\ p.accts[rows[s].user].pkg = PackageName(rows[s])

\* "An upgrade is already pending payment": the invoice of a pending upgrade is
\* still to be paid, unless it was cancelled, or paid before the upgrade was stored.
PendingIsPayable ==
    events \cap {"abandoned", "early", "stale"} = {} =>
    \A s \in Services : rows[s].upgrade # 0 => invoices[s][rows[s].upgrade].status = "unpaid"

\* ApplyUpgrade gives the client the plan of the invoice that was paid.
PaidIsAppliedStep ==
       events' \cap {"cut", "stale", "early", "abandoned"} = {} =>
       \A s \in Services : \A i \in DOMAIN invoices[s] :
         invoices[s][i].status = "unpaid" /\ invoices'[s][i].status = "paid"
         => rows[s].upgrade = i /\ PlanOf(rows'[s]) = invoices[s][i].plan
PaidIsApplied == [][PaidIsAppliedStep]_vars
=============================================================================
