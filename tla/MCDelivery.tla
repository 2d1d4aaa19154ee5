----------------------------- MODULE MCDelivery -----------------------------
(*****************************************************************************)
(* From an order to what it delivers: orders, domains, services and hosting  *)
(* accounts, each instantiated for TLC.  A behaviour is about one of them,   *)
(* which part names.                                                         *)
(*****************************************************************************)
EXTENDS Naturals, Sequences, TLC

CONSTANTS Workers

VARIABLES
    part,  \* the component a behaviour is about
    v1, v2, v3, v4, v5, v6, v7, v8, v9, v10  \* its variables, in the order of its module; the others stay 0
vars == <<part, v1, v2, v3, v4, v5, v6, v7, v8, v9, v10>>

Product(stocked, module, setup) == [domain |-> FALSE, stocked |-> stocked, module |-> module, setup |-> setup]
DomainItem == [domain |-> TRUE, stocked |-> FALSE, module |-> FALSE, setup |-> "on_payment"]
Cart == <<Product(TRUE, TRUE, "on_order"), DomainItem, Product(TRUE, TRUE, "on_order"), Product(TRUE, FALSE, "on_order")>>
PaidCart == <<Product(TRUE, TRUE, "manual"), DomainItem, Product(TRUE, TRUE, "on_payment")>>
AllTargets == {"pending", "pending_transfer", "active", "suspended", "expired", "cancelled", "rejected"}
WorkerSymmetry == Permutations(Workers)


\* Three orders of the last product in stock and the last use of a coupon,
\* placed, paid and closed by two workers at once; the first has a domain too.
Rush == INSTANCE Ordering WITH
    Orders <- {1, 2, 3}, Items <- {1, 2, 3, 4}, OrderOf <- <<1, 1, 2, 3>>, Item <- Cart,
    WithCoupon <- {1, 2}, Free <- {}, Stock <- 1, MaxUses <- 1, MaxPerDay <- 0,
    Workers <- Workers, Overlap <- TRUE, order <- v1, invoice <- v2, refs <- v3, rows <- v4,
    queue <- v5, stock <- v6, used <- v7, accepted <- v8, settled <- v9, job <- v10

\* Two orders, one of them free, while no order changes between a handler's
\* read and its transaction: set up by hand, when paid, and a domain.
Quiet == INSTANCE Ordering WITH
    Orders <- {1, 2}, Items <- {1, 2, 3}, OrderOf <- <<1, 1, 2>>, Item <- PaidCart,
    WithCoupon <- {1, 2}, Free <- {2}, Stock <- 2, MaxUses <- 0, MaxPerDay <- 1,
    Workers <- Workers, Overlap <- FALSE, order <- v1, invoice <- v2, refs <- v3,
    rows <- v4, queue <- v5, stock <- v6, used <- v7, accepted <- v8, settled <- v9,
    job <- v10

\* One domain transferred in, its documents, renewals, sync and refund, with an
\* administrator who may set any status; one worker.
Domain == INSTANCE Domains WITH
    Workers <- {1}, Years <- 1, Transfer <- TRUE, NeedsDocuments <- TRUE,
    AdminTargets <- AllTargets, MaxAsked <- 2, MaxExpiry <- 3, MaxCredited <- 2,
    LostAnswers <- FALSE, VerifiesAtOnce <- FALSE, row <- v1, reg <- v2, ordered <- v3,
    renewals <- v4, asked <- v5, credited <- v6, job <- v7

\* One service from its order to its end, two handlers at once.
Service == INSTANCE Services WITH
    Workers <- Workers, MaxDue <- 1, MaxRequests <- 1, TypedDues <- {0},
    AdminQueues <- {"create"}, row <- v1, account <- v2, queue <- v3, exec <- v4,
    invoice <- v5, requests <- v6, earned <- v7, stale <- v8, cut <- v9

\* One service whose client submits two cancellation requests, with no
\* renewals.
Requests == INSTANCE Services WITH
    Workers <- Workers, MaxDue <- 0, MaxRequests <- 2, TypedDues <- {}, AdminQueues <- {},
    row <- v1, account <- v2, queue <- v3, exec <- v4, invoice <- v5, requests <- v6,
    earned <- v7, stale <- v8, cut <- v9

\* Two services created and terminated on two servers, the first with room for
\* one, the second one retirable.
Accounts == INSTANCE Hosting WITH
    Services <- {1, 2}, Servers <- {1, 2}, Capacity <- <<1, 0>>, Module <- "cpanel",
    Strategy <- "least_used", Movers <- {}, Rebinds <- {}, Doomed <- {1, 2},
    Retirable <- {2}, MaxFaults <- 1, MaxInvoices <- 0, rows <- v1, servers <- v2,
    panels <- v3, queue <- v4, job <- v5, asked <- v6, invoices <- v7, faults <- v8,
    events <- v9

\* On one server, the plan of the first service changes while the second one
\* comes and goes.
Plans == INSTANCE Hosting WITH
    Services <- {1, 2}, Servers <- {1}, Capacity <- <<0>>, Module <- "directadmin",
    Strategy <- "round_robin", Movers <- {1}, Rebinds <- {"custom"}, Doomed <- {2},
    Retirable <- {}, MaxFaults <- 1, MaxInvoices <- 1, rows <- v1, servers <- v2,
    panels <- v3, queue <- v4, job <- v5, asked <- v6, invoices <- v7, faults <- v8,
    events <- v9

\* The variables a component with k of them leaves alone, at 0.
Rest7 == <<v8, v9, v10>>
Rest9 == <<v10>>
Zero7 == v8 = 0 /\ v9 = 0 /\ v10 = 0
Zero9 == v10 = 0

Init ==
    \/ part = "rush" /\ Rush!Init
    \/ part = "orders" /\ Quiet!Init
    \/ part = "domain" /\ Domain!Init /\ Zero7
    \/ part = "service" /\ Service!Init /\ Zero9
    \/ part = "requests" /\ Requests!Init /\ Zero9
    \/ part = "accounts" /\ Accounts!Init /\ Zero9
    \/ part = "plans" /\ Plans!Init /\ Zero9
Next ==
    /\ UNCHANGED part
    /\ \/ part = "rush" /\ Rush!Next
       \/ part = "orders" /\ Quiet!Next
       \/ part = "domain" /\ Domain!Next /\ UNCHANGED Rest7
       \/ part = "service" /\ Service!Next /\ UNCHANGED Rest9
       \/ part = "requests" /\ Requests!Next /\ UNCHANGED Rest9
       \/ part = "accounts" /\ Accounts!Next /\ UNCHANGED Rest9
       \/ part = "plans" /\ Plans!Next /\ UNCHANGED Rest9
Spec == Init /\ [][Next]_vars

\* A service is followed up to the first step that acts on a changed row or is cut
\* short, accounts and plans up to the first event that weakens a guarantee.
UpToFirstRace ==
    /\ part \in {"service", "requests"} => ~v8 /\ ~v9
    /\ part \in {"accounts", "plans"} => v9 \subseteq {"recorded"}

-----------------------------------------------------------------------------
(* Properties, each of its own component.                                  *)

\* Types of the tables, queues and handlers of orders, domains, services and
\* accounts, and how many usernames a service goes through.
TypeOK ==
    /\ part = "rush" => Rush!TypeOK
    /\ part = "orders" => Quiet!TypeOK
    /\ part = "domain" => Domain!TypeOK
    /\ part = "service" => Service!TypeOK
    /\ part = "requests" => Requests!TypeOK
    /\ part = "accounts" => Accounts!TypeOK
    /\ part = "plans" => Plans!TypeOK
\* CreateOrder and ActivateOrder, however checkouts, payments and closures
\* cross: stock and coupon are not oversold (DecrementStock, IncrementUsage),
\* what is paid has its rows or somebody at it, rows have their jobs, and a
\* domain is ordered only for a paid order or by an administrator.
OrdersDelivered == part = "rush" => Rush!OrdersDelivered
\* While no order changes between a handler's read and its transaction: an item
\* gets one row, closing an order gives back exactly what placing it took, and
\* a closed order has no rows (activateOrder, setTerminalStatus).
OrdersConserved == part = "orders" => Quiet!OrdersConserved
\* creditRefund, SettleRejected and RenewDomainJob: a registration is credited
\* once and on record, and the registrar extends the domain as often as it was
\* paid or forced.
DomainMoneyKept ==
    /\ part = "domain" =>
         /\ Domain!RefundedOnce /\ Domain!RefundRecorded /\ Domain!RenewedAsPaid
\* The provisioning jobs, RenewService and the cancellation requests: at rest
\* the row and the panel agree, every renewal paid is one cycle, an ended
\* service has no pending request, an immediate one has its termination under
\* way, and only an accepted one flags the service.
ServiceAgrees ==
    /\ part = "service" =>
         /\ Service!PanelAgrees /\ Service!PaidThrough /\ Service!EndedHasNoRequest
         /\ Service!ImmediateIsUnderWay /\ Service!FlagIsAccepted /\ Service!OnePendingRequest
    /\ part = "requests" =>
         /\ Requests!PanelAgrees /\ Requests!PaidThrough /\ Requests!EndedHasNoRequest
         /\ Requests!ImmediateIsUnderWay /\ Requests!FlagIsAccepted /\ Requests!OnePendingRequest
\* ProvisionCreate, ProvisionTerminate, ProvisionChangePackage and the
\* upgrades: accounts are their service's and none is left over, used packages
\* stay, servers are not overfilled, the account is on the plan's package, and
\* a pending upgrade can be paid.
AccountsKept ==
    /\ part = "accounts" =>
         /\ Accounts!AccountIsOurs /\ Accounts!NoLeftover /\ Accounts!PackagesKept
         /\ Accounts!CapacityKept /\ Accounts!PlanOnPanel /\ Accounts!PendingIsPayable
    /\ part = "plans" =>
         /\ Plans!AccountIsOurs /\ Plans!NoLeftover /\ Plans!PackagesKept
         /\ Plans!CapacityKept /\ Plans!PlanOnPanel /\ Plans!PendingIsPayable
\* orderTransitions, domainTransitions and serviceTransitions: orders, domains
\* and services move only along their state machines, an ended service stays
\* ended, only a termination removes an account, and a client gets the plan of
\* the invoice paid (ApplyUpgrade).
LifecyclesKept ==
    [][/\ part = "orders" => Quiet!OrderStep
       /\ part = "domain" => Domain!DomainStep
       /\ part = "service" => Service!EndedStep /\ Service!RemovalStep
       /\ part = "requests" => Requests!EndedStep /\ Requests!RemovalStep
       /\ part = "plans" => Plans!PaidIsAppliedStep]_vars
\* ActivateOrder "is idempotent" (orders/activate.go:16): an item gets one row.
\* Not so when two handlers overlap.
RowForEveryItem == part = "rush" => Rush!OneRowPerItem
\* "Re-terminating a removed account is a no-op" (ProvisionTerminate): it
\* removes no other service's account.  Not so when the username was given to
\* another service.
RemovesOwnAccount == [][part = "accounts" => Accounts!RemovesOwnAccountStep]_vars
=============================================================================
