----------------------------- MODULE DomainDesk -----------------------------
(***************************************************************************)
(* What an owner and an administrator do with a registered domain           *)
(* (domains/service.go: nameservers, zone, contact, add-ons, AdminUpdate)    *)
(* beside the sync.  A request loads the row, calls the registrar, and       *)
(* writes the whole row back.                                                *)
(***************************************************************************)
EXTENDS Integers

CONSTANTS
    Requests,    \* the requests handled at the same time
    MaxRequests, \* bound: requests handled altogether
    Hosts,       \* sets of nameservers
    Base,        \* the renewal price the domain was bought with
    AddonPrice   \* the price of the DNS Management add-on

None == -1

VARIABLES
    row,      \* the domains row
    site,     \* the registrar's nameservers of the domain
    tld,      \* the renewal price of the extension, None when not on sale
    request,  \* the requests being handled
    served,   \* how many requests have arrived
    events    \* history: what happened that weakens a guarantee
vars == <<row, site, tld, request, served, events>>

NoRow == [ns |-> "none", dns |-> FALSE, amount |-> 0, status |-> "none"]
Off == [at |-> "off", kind |-> "none", row |-> NoRow, host |-> "none", on |-> FALSE,
        stale |-> FALSE, fresh |-> TRUE]

Init ==
    /\ \E h \in Hosts :
         /\ row = [ns |-> h, dns |-> FALSE, amount |-> Base, status |-> "active"]
         /\ site = h
    /\ tld \in {Base, None}
    /\ request = [r \in Requests |-> Off] /\ served = 0 /\ events = {}

When(b, e) == IF b THEN {e} ELSE {}
At(r, p) == request[r].at = p
InFlight(q) == request[q].at # "off"
Put(r, new) == request' = [request EXCEPT ![r] = new]
To(r, p) == Put(r, [request[r] EXCEPT !.at = p])
Leave(r) == Put(r, Off)

\* GetByID and, for an owner, GetForClient: the whole row is loaded.
GetForClient(r, k, h, b) ==
    /\ At(r, "off") /\ served < MaxRequests /\ served' = served + 1
    /\ Put(r, [Off EXCEPT !.kind = k, !.host = h, !.on = b, !.row = row,
                          !.at = CASE k \in {"ns", "dns", "contact"} -> "push"
                                 [] k = "auto" -> "store"
                                 [] OTHER -> k])
    /\ UNCHANGED <<row, site, tld, events>>

\* Repo.Update: every column, from the row as it was loaded; the others' copies
\* are out of date from now on.  A failing write leaves the row alone.
Update(r, new) ==
    /\ row' = new
    /\ request' = [q \in Requests |->
                     IF q = r THEN Off
                     ELSE [request[q] EXCEPT !.stale = InFlight(q)]]
UpdateFails(r) == Leave(r) /\ UNCHANGED row

-----------------------------------------------------------------------------
(* What is pushed to the registrar.                                        *)

\* Nameservers, zone and contact are only changed on an active domain; the zone
\* only with the DNS Management add-on.  Mutant: the add-on is not asked for.
AnyZone(k, d) == d.status = "active"
Pushable(k, d) == d.status = "active" /\ (k = "dns" => d.dns)

\* The registrar takes the nameservers; who synced before has read the old ones.
Taken(r, h, new) ==
    /\ site' = h
    /\ request' = [q \in Requests |->
                     IF q = r THEN new ELSE [request[q] EXCEPT !.fresh = ~At(q, "mirror")]]
\* The call may fail before or after the registrar took it.
UpdateNameservers(r) ==
    LET q == request[r]
    IN  /\ At(r, "push") /\ q.kind = "ns"
        /\ \/ Leave(r) /\ UNCHANGED <<site, events>>
           \/ /\ Pushable("ns", q.row)
              /\ \/ Taken(r, q.host, [q EXCEPT !.at = "store"]) /\ UNCHANGED events
                 \/ Taken(r, q.host, Off) /\ events' = events \cup {"lost"}
        /\ UNCHANGED <<row, tld>>

\* UpdateDNS: nothing is stored.
UpdateDNS(r) ==
    /\ At(r, "push") /\ request[r].kind = "dns"
    /\ \/ /\ Pushable("dns", request[r].row)
          /\ events' = events \cup When(~row.dns /\ ~request[r].stale, "unpaid")
       \/ UNCHANGED events
    /\ Leave(r)
    /\ UNCHANGED <<row, site, tld>>

\* UpdateDomain with a contact: it is pushed, then auto_renew may be stored with the
\* whole row.  Without one ("auto") the row is stored whatever its status.
UpdateDomain(r) ==
    /\ At(r, "push") /\ request[r].kind = "contact"
    /\ Leave(r) \/ (Pushable("contact", request[r].row) /\ To(r, "store"))
    /\ UNCHANGED <<row, site, tld, events>>

\* What the request changes in the row it loaded.
Changed(q) == IF q.kind = "ns" THEN [q.row EXCEPT !.ns = q.host] ELSE q.row
Store(r) ==
    /\ At(r, "store")
    /\ \/ /\ Update(r, Changed(request[r]))
          /\ events' = events \cup When(request[r].stale, "stale")
       \/ /\ UpdateFails(r)
          /\ events' = events \cup When(request[r].kind = "ns", "lost")
    /\ UNCHANGED <<site, tld>>

-----------------------------------------------------------------------------
(* The add-ons and what a renewal costs with them.                         *)

\* Mutant: the add-on already paid for stays in the base.
KeepAddon(d) == IF tld # None THEN tld ELSE d.amount
\* baseRenewPrice: the extension's price, else the amount without the add-on.
baseRenewPrice(d) ==
    IF tld # None THEN tld
    ELSE LET current == d.amount - (IF d.dns THEN AddonPrice ELSE 0)
         IN  IF current < 0 THEN 0 ELSE current
\* The flag and the amount are written together.
WithAddons(q) ==
    [q.row EXCEPT !.dns = q.on,
                  !.amount = baseRenewPrice(q.row) + (IF q.on THEN AddonPrice ELSE 0)]
UpdateDomainAddons(r) ==
    /\ At(r, "addons")
    /\ \/ /\ Update(r, WithAddons(request[r]))
          /\ events' = events \cup When(request[r].stale, "stale")
       \/ UpdateFails(r) /\ UNCHANGED events
    /\ UNCHANGED <<site, tld>>

-----------------------------------------------------------------------------
(* The administrator and the sync.                                         *)

\* AdminUpdate: nameservers are stored without a push; amount and status too.
AdminUpdate(r) ==
    LET d == request[r].row
    IN  /\ At(r, "admin")
        /\ \/ \E new \in {[d EXCEPT !.ns = request[r].host], [d EXCEPT !.amount = Base],
                          [d EXCEPT !.status = IF @ = "active" THEN "suspended" ELSE "active"]} :
                /\ Update(r, new)
                /\ events' = events \cup When(request[r].stale, "stale")
                       \cup When(new.ns # d.ns, "hand") \cup When(new.amount # d.amount, "amount")
           \/ UpdateFails(r) /\ UNCHANGED events
        /\ UNCHANGED <<site, tld>>

\* SyncDomainJob: the registrar is asked after the row was loaded.
SyncDomainJob(r) ==
    /\ At(r, "sync")
    /\ Leave(r) \/ Put(r, [request[r] EXCEPT !.at = "mirror", !.host = site, !.fresh = TRUE])
    /\ UNCHANGED <<row, site, tld, events>>
\* Mutant: the nameservers are not mirrored.
StatusOnly(q) == [q.row EXCEPT !.status = "active"]
\* The domain is active at the registrar.
mutateFromSync(q) == [q.row EXCEPT !.status = "active", !.ns = q.host]
\* A sync nothing crossed leaves the row as the registrar has it.
StoreSync(r) ==
    LET q == request[r]
    IN  /\ At(r, "mirror")
        /\ \/ /\ Update(r, mutateFromSync(q))
              /\ events' = IF ~q.stale /\ q.fresh THEN events \ {"lost", "stale", "hand"}
                           ELSE events \cup {"stale"}
           \/ UpdateFails(r) /\ UNCHANGED events
        /\ UNCHANGED <<site, tld>>

Handle(r) ==
    \/ UpdateNameservers(r) \/ UpdateDNS(r) \/ UpdateDomain(r) \/ Store(r)
    \/ UpdateDomainAddons(r)
    \/ AdminUpdate(r) \/ SyncDomainJob(r) \/ StoreSync(r)
Arrive(r) ==
    \/ \E h \in Hosts, k \in {"ns", "admin"} : GetForClient(r, k, h, FALSE)
    \/ \E b \in BOOLEAN : GetForClient(r, "addons", "none", b)
    \/ \E k \in {"dns", "contact", "auto", "sync"} : GetForClient(r, k, "none", FALSE)
Next == \E r \in Requests : Arrive(r) \/ (Handle(r) /\ UNCHANGED served)
Spec == Init /\ [][Next]_vars

-----------------------------------------------------------------------------
(* Properties.                                                             *)

AllIdle == \A r \in Requests : At(r, "off")

\* UpdateNameservers "pushes them to the registrar and stores them on the domain
\* row": once nothing is under way, the row names the registrar's nameservers,
\* unless a call was lost, two requests crossed or an administrator stored others,
\* and a sync nothing crossed sets all of that right.
NameserversAgree ==
    AllIdle /\ events \cap {"lost", "stale", "hand"} = {} => row.ns = site

\* UpdateDomainAddons "recomputes the recurring renewal amount to match" and
\* baseRenewPrice "so toggling addons still works": the amount is the base plus the
\* add-on the row has, after any number of toggles, also when a request writes an
\* old copy of the row and when the extension is no longer on sale.
BaseKept ==
    "amount" \notin events => row.amount = Base + (IF row.dns THEN AddonPrice ELSE 0)

\* errDNSAddonRequired: the zone of a domain without the add-on is only edited by a
\* request that loaded the row before the add-on went.
ZoneIsPaid == "unpaid" \notin events
=============================================================================
