----------------------------- MODULE SnipeDesk ------------------------------
(***************************************************************************)
(* Selling hunts (snipe/client.go and service.go: Create, AdminCreate, the   *)
(* plans) and the supervisor's capacity for them.  A request reads its       *)
(* counts, then the registrar, and inserts afterwards; only the unique index *)
(* on open names is enforced at the insert.                                  *)
(***************************************************************************)
EXTENDS Naturals, FiniteSets, Sequences

CONSTANTS
    Clients, Names,
    MaxActivePerClient,  \* snipe.max_active_per_client
    MaxActiveGlobal,     \* snipe.max_active_global
    Requests,            \* bound: the requests handled at the same time
    MaxSnipes            \* bound: the snipes ever inserted

VARIABLES
    snipes,   \* the domain_snipes table, oldest first
    request,  \* the requests being handled
    held,     \* the names in the domains table
    plan,     \* whether the plan is on sale
    running,  \* the snipes some hunt runs for
    events    \* history: what happened that weakens a guarantee
vars == <<snipes, request, held, plan, running, events>>

None == "none"
Open == {"pending_payment", "active"}
NoRequest == [client |-> None, name |-> None, status |-> None]
Ids == DOMAIN snipes

Init ==
    /\ snipes = << >>
    /\ request = [r \in Requests |-> NoRequest]
    /\ held = {}
    /\ plan = TRUE
    /\ running = {} /\ events = {}

When(b, e) == IF b THEN {e} ELSE {}

\* CountOpenByClient and CountByStatus.
CountOpenByClient(c) == Cardinality({i \in Ids : snipes[i].client = c /\ snipes[i].status \in Open})
Committed == Cardinality({i \in Ids : snipes[i].status \in Open})

\* Mutant: only the hunts under way count, not those waiting for payment.
CountActiveOnly == Cardinality({i \in Ids : snipes[i].status = "active"}) < MaxActiveGlobal
ensureCapacity == Committed < MaxActiveGlobal
\* Mutant: the domains table is not asked.
NeverHeld(n) == TRUE
ensureNotRegistered(n) == n \notin held

\* price: only a plan on sale is sold; the amounts are fixed in the snipe.
price == plan

\* Mutant: one hunt more than the limit.
LimitOff(c) == CountOpenByClient(c) <= MaxActivePerClient
WithinLimit(c) == CountOpenByClient(c) < MaxActivePerClient

\* Client create, up to the transaction.
Create(r, c, n) ==
    /\ request[r] = NoRequest
    /\ price
    /\ WithinLimit(c) /\ ensureCapacity /\ ensureNotRegistered(n)
    /\ request' = [request EXCEPT ![r] =
                     [client |-> c, name |-> n, status |-> "pending_payment"]]
    /\ UNCHANGED <<snipes, held, plan, running, events>>

\* An administrator's hunt is free, and limited by the capacity only.
AdminCreate(r, c, n) ==
    /\ request[r] = NoRequest
    /\ ensureNotRegistered(n) /\ ensureCapacity
    /\ request' = [request EXCEPT ![r] = [client |-> c, name |-> n, status |-> "active"]]
    /\ UNCHANGED <<snipes, held, plan, running, events>>

\* Mutant: no unique index.
InsertAnyway(n) == TRUE
\* The partial unique index on open names.
NameIsFree(n) == ~ \E i \in Ids : snipes[i].name = n /\ snipes[i].status \in Open

\* A request past its checks wants the name.
Asked(n) == \E r \in Requests : request[r].name = n
Others(r) == {q \in Requests \ {r} : request[q] # NoRequest}
Insert(r) ==
    /\ request[r] # NoRequest /\ Len(snipes) < MaxSnipes
    /\ request' = [request EXCEPT ![r] = NoRequest]
    /\ IF NameIsFree(request[r].name)
         THEN /\ snipes' = Append(snipes, request[r])
              /\ events' = events
                   \cup When(Others(r) # {}, "together")
                   \cup When(request[r].status = "active" /\ ~WithinLimit(request[r].client), "free")
         ELSE UNCHANGED <<snipes, events>>
    /\ UNCHANGED <<held, plan, running>>

\* UpdatePlan: the plan is put on sale or taken off.
UpdatePlan ==
    /\ plan' = ~plan
    /\ UNCHANGED <<snipes, request, held, running, events>>

Activate(i) ==
    /\ snipes[i].status = "pending_payment"
    /\ snipes' = [snipes EXCEPT ![i].status = "active"]
    /\ UNCHANGED <<request, held, plan, running, events>>

\* Repo.Claim: the oldest first, as many as there is room for.
Waiting == {i \in Ids : snipes[i].status = "active" /\ i \notin running}
NextClaimed == CHOOSE i \in Waiting : \A j \in Waiting : i <= j
Claim ==
    /\ Cardinality(running) < MaxActiveGlobal /\ Waiting # {}
    /\ running' = running \cup {NextClaimed}
    /\ UNCHANGED <<snipes, request, held, plan, events>>

\* A hunt ends won (the name is ours now) or otherwise; a snipe nobody hunts can
\* only be cancelled or run out.  Mutant: the slot is not given back.
KeepSlot(i) == running
FreeSlot(i) == running \ {i}
EndHunt(i) ==
    /\ i \in running
    /\ \E to \in {"won", "ended"} :
         /\ snipes' = [snipes EXCEPT ![i].status = to]
         /\ held' = IF to = "won" THEN held \cup {snipes[i].name} ELSE held
         /\ events' = events \cup When(to = "won" /\ Asked(snipes[i].name), "ordered")
    /\ running' = FreeSlot(i)
    /\ UNCHANGED <<request, plan>>
Cancel(i) ==
    /\ snipes[i].status \in Open /\ i \notin running
    /\ snipes' = [snipes EXCEPT ![i].status = "ended"]
    /\ UNCHANGED <<request, held, plan, running, events>>

\* The name is ordered the normal way, hunted or not.
OrderDomain(n) ==
    /\ n \notin held
    /\ held' = held \cup {n}
    /\ events' = events \cup When(~NameIsFree(n) \/ Asked(n), "ordered")
    /\ UNCHANGED <<snipes, request, plan, running>>

Next ==
    \/ \E r \in Requests :
         \/ Insert(r)
         \/ \E c \in Clients, n \in Names : Create(r, c, n) \/ AdminCreate(r, c, n)
    \/ UpdatePlan
    \/ \E i \in Ids : Activate(i) \/ EndHunt(i) \/ Cancel(i)
    \/ Claim
    \/ \E n \in Names : OrderDomain(n)
Spec == Init /\ [][Next]_vars

\* Fairness: the supervisor ticks, and a hunt ends (its deadline at the latest).
Fairness == WF_vars(Claim) /\ \A i \in 1..MaxSnipes : WF_vars(i \in Ids /\ EndHunt(i))
FairSpec == Spec /\ Fairness

-----------------------------------------------------------------------------
(* Properties.                                                             *)

\* The unique index: a name is hunted once at a time, however many ask for it.
OneHuntPerName ==
    \A i, j \in Ids : i # j /\ {snipes[i].status, snipes[j].status} \subseteq Open => snipes[i].name # snipes[j].name

\* ensureCapacity: "every paid hunt must actually be hunted".  No more hunts are
\* sold than run at once, and no client has more than the limit, unless requests
\* were handled together or an administrator gave the client a free one.
LimitsKept ==
    /\ "together" \notin events => Committed <= MaxActiveGlobal
    /\ events \cap {"together", "free"} = {} => \A c \in Clients : CountOpenByClient(c) <= MaxActivePerClient

\* ensureNotRegistered: nobody hunts a name the system holds, unless it was
\* ordered the normal way, or won, between that look and the insert.
HeldIsNotHunted ==
    "ordered" \notin events => \A i \in Ids : snipes[i].status \in Open => snipes[i].name \notin held

\* "The supervisor then claims the oldest first and the rest wait": every active
\* hunt runs one day, also those sold beyond the capacity.
Running == running
Active(i) == i \in Ids /\ snipes[i].status = "active"
EverySnipeRuns == \A i \in 1..MaxSnipes : Active(i) ~> i \in Running \/ ~Active(i)
=============================================================================
