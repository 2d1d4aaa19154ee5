------------------------------ MODULE Ordering ------------------------------
(***************************************************************************)
(* Checkout and activation of orders: what an order takes from the stock   *)
(* and the coupon, and how the payment of its invoice, an administrator    *)
(* who accepts, cancels or flags it, and the automatic setup of its        *)
(* products turn its items into service and domain rows.                   *)
(*                                                                         *)
(* One action is one statement or one database transaction; job[w] holds   *)
(* what worker w has read.  ApplyPayment locks the invoice's row from its  *)
(* first read to its commit; setTerminalStatus holds the order's row from  *)
(* its first write to its commit.                                          *)
(***************************************************************************)
EXTENDS Integers, FiniteSets

CONSTANTS
    Orders,        \* order ids; each has one invoice
    Items,         \* order item ids
    OrderOf,       \* [Items -> Orders]
    Item,          \* [Items -> ItemType]: what is ordered
    WithCoupon,    \* orders placed with the coupon
    Free,          \* orders whose invoice has nothing to collect
    Stock,         \* products.stock_qty at the start (one product)
    MaxUses,       \* coupons.max_uses (0: no limit)
    MaxPerDay,     \* fraud.max_orders_per_day (0: no limit)
    Workers,       \* concurrent requests and payment jobs
    Overlap        \* FALSE: an order does not change between a worker's
                   \* unlocked read of it and the transaction that follows

ItemType == [domain : BOOLEAN, stocked : BOOLEAN, module : BOOLEAN,
             setup : {"on_order", "on_payment", "manual"}]

VARIABLES
    order,     \* orders.status ("none": not placed)
    invoice,   \* status of the order's invoice
    refs,      \* items whose service_id or domain_id is set
    rows,      \* how many service or domain rows were made for the item
    queue,     \* items with a provisioning or registrar job enqueued
    stock,     \* products.stock_qty
    used,      \* coupons.used_count
    accepted,  \* history: orders an administrator accepted
    settled,   \* history: orders whose invoice was paid
    job        \* local state of each worker

vars == <<order, invoice, refs, rows, queue, stock, used, accepted, settled, job>>

OrderStatus == {"none", "pending", "active", "fraud", "cancelled"}
InvoiceStatus == {"none", "unpaid", "paid", "cancelled"}

Idle == [pc |-> "idle"]

Job == [pc : {"idle"}]
       \cup [pc : {"place"}, order : Orders, fraud : BOOLEAN]
       \cup [pc : {"autopay", "autosetup"}, order : Orders]
       \cup [pc : {"activate", "commit"}, order : Orders, items : SUBSET Items,
             pays : BOOLEAN, seen : OrderStatus, accepts : BOOLEAN]
       \cup [pc : {"terminal"}, order : Orders, seen : OrderStatus, to : {"fraud", "cancelled"}]
       \cup [pc : {"void"}, order : Orders, to : {"fraud", "cancelled"}, voids : BOOLEAN]

(* The type invariant. *)
TypeOK ==
    /\ order \in [Orders -> OrderStatus]
    /\ invoice \in [Orders -> InvoiceStatus]
    /\ refs \subseteq Items
    /\ rows \in [Items -> Nat]
    /\ queue \subseteq Items
    /\ stock \in Int
    /\ used \in Nat
    /\ accepted \subseteq Orders
    /\ settled \subseteq Orders
    /\ job \in [Workers -> Job]

Init ==
    /\ order = [o \in Orders |-> "none"]
    /\ invoice = [o \in Orders |-> "none"]
    /\ refs = {}
    /\ rows = [i \in Items |-> 0]
    /\ queue = {}
    /\ stock = Stock
    /\ used = 0
    /\ accepted = {}
    /\ settled = {}
    /\ job = [w \in Workers |-> Idle]

Content(o) == {i \in Items : OrderOf[i] = o}

Placed == {o \in Orders : order[o] # "none"}

\* The items of an order that take one from the stock.
Stocked(o) == {i \in Content(o) : Item[i].stocked}

\* The items that give it back when the order is cancelled: products only.
Restored(o) == {i \in Stocked(o) : ~Item[i].domain}

\* The platform registers every domain, and sets up the products that have a
\* module and are not set up by hand.
Automatic(i) == Item[i].domain \/ (Item[i].module /\ Item[i].setup # "manual")

\* Mutant: the cart may activate at once as soon as one item says so.
SomeAutoSetupOnOrder(o) == \E i \in Content(o) : Item[i].setup = "on_order"

AllAutoSetupOnOrder(o) ==
    /\ Content(o) # {}
    /\ \A i \in Content(o) : ~Item[i].domain /\ Item[i].setup = "on_order"

-----------------------------------------------------------------------------
(* Locks. *)

InvoiceLocked(o) ==
    \E v \in Workers : job[v].pc \in {"activate", "commit"} /\ job[v].order = o /\ job[v].pays

OrderLocked(o) == \E v \in Workers : job[v].pc = "void" /\ job[v].order = o

\* The order has the status worker w read, or workers may overlap.
Undisturbed(w) == Overlap \/ order[job[w].order] = job[w].seen

\* An order read active has nothing left to activate.
Moves(w) == job[w].seen # "active"

-----------------------------------------------------------------------------
(* Checkout. *)

\* CreateOrder validates the cart, the coupon and the fraud rules, before the
\* transaction.  An e-mail domain may be blacklisted at any time.
CreateOrder(w, o, blacklisted) ==
    /\ job[w] = Idle
    /\ order[o] = "none"
    /\ \A v \in Workers : job[v].pc = "place" => job[v].order # o
    /\ o \in WithCoupon /\ MaxUses > 0 => used < MaxUses
    /\ \A i \in Stocked(o) : ~Item[i].domain => stock >= 1
    /\ job' = [job EXCEPT ![w] =
                 [pc |-> "place", order |-> o,
                  fraud |-> \/ blacklisted
                            \/ MaxPerDay > 0 /\ Cardinality(Placed) >= MaxPerDay]]
    /\ UNCHANGED <<order, invoice, refs, rows, queue, stock, used, accepted, settled>>

\* Mutant: the order's status is written to the invoice.
PlaceFraudSwapped(w) ==
    /\ job[w].pc = "place"
    /\ job[w].fraud
    /\ order' = [order EXCEPT ![job[w].order] = "fraud"]
    /\ invoice' = [invoice EXCEPT ![job[w].order] = "fraud"]
    /\ job' = [job EXCEPT ![w] = Idle]
    /\ UNCHANGED <<refs, rows, queue, stock, used, accepted, settled>>

\* Mutant: a flagged order takes from the stock like any other.
PlaceFraudTaking(w) ==
    /\ job[w].pc = "place"
    /\ job[w].fraud
    /\ order' = [order EXCEPT ![job[w].order] = "fraud"]
    /\ invoice' = [invoice EXCEPT ![job[w].order] = "cancelled"]
    /\ stock' = stock - Cardinality(Stocked(job[w].order))
    /\ job' = [job EXCEPT ![w] = Idle]
    /\ UNCHANGED <<refs, rows, queue, used, accepted, settled>>

\* A flagged order is stored with a cancelled invoice and takes nothing.
PlaceFraud(w) ==
    /\ job[w].pc = "place"
    /\ job[w].fraud
    /\ order' = [order EXCEPT ![job[w].order] = "fraud"]
    /\ invoice' = [invoice EXCEPT ![job[w].order] = "cancelled"]
    /\ job' = [job EXCEPT ![w] = Idle]
    /\ UNCHANGED <<refs, rows, queue, stock, used, accepted, settled>>

\* Mutant: DecrementStock does not look at the quantity.
DecrementAnyStock(n) == stock' = stock - n

\* DecrementStock, once for each of n lines: it fails when nothing is left.
DecrementStock(n) ==
    /\ stock >= n
    /\ stock' = stock - n

\* Mutant: IncrementUsage does not look at the limit.
IncrementAnyUsage == used' = used + 1

IncrementUsage ==
    /\ MaxUses > 0 => used < MaxUses
    /\ used' = used + 1

\* The transaction of CreateOrder, and what it goes on with when it is over.
PlaceOrder(w) ==
    LET o == job[w].order IN
    /\ job[w].pc = "place"
    /\ ~job[w].fraud
    /\ order' = [order EXCEPT ![o] = "pending"]
    /\ invoice' = [invoice EXCEPT ![o] = "unpaid"]
    /\ DecrementStock(Cardinality(Stocked(o)))
    /\ IF o \in WithCoupon THEN IncrementUsage ELSE UNCHANGED used
    /\ job' = [job EXCEPT ![w] =
                 CASE o \in Free -> [pc |-> "autopay", order |-> o]
                   [] o \notin Free /\ AllAutoSetupOnOrder(o) -> [pc |-> "autosetup", order |-> o]
                   [] OTHER -> Idle]
    /\ UNCHANGED <<refs, rows, queue, accepted, settled>>

-----------------------------------------------------------------------------
(* Activation. *)

\* Mutant: any order that is not active yet may be activated.
ActivateAnyOrder(w, o) ==
    /\ job[w] \in {Idle, [pc |-> "autosetup", order |-> o]}
    /\ order[o] \notin {"none", "active"}
    /\ job' = [job EXCEPT ![w] =
                 [pc |-> "activate", order |-> o, items |-> Content(o) \ refs,
                  pays |-> FALSE, seen |-> order[o], accepts |-> job[w] = Idle]]
    /\ UNCHANGED <<order, invoice, refs, rows, queue, stock, used, accepted, settled>>

\* ActivateOrder reads the order and its items, outside a transaction: called
\* by Accept, or by CreateOrder for products set up on order.
ActivateOrder(w, o) ==
    /\ job[w] \in {Idle, [pc |-> "autosetup", order |-> o]}
    /\ order[o] = "pending"
    /\ job' = [job EXCEPT ![w] =
                 [pc |-> "activate", order |-> o, items |-> Content(o) \ refs,
                  pays |-> FALSE, seen |-> order[o], accepts |-> job[w] = Idle]]
    /\ UNCHANGED <<order, invoice, refs, rows, queue, stock, used, accepted, settled>>

\* Mutant: the payment delivers every item, whether or not it was accepted.
ApplyPaymentAfresh(w, o) ==
    /\ job[w] \in {Idle, [pc |-> "autopay", order |-> o]}
    /\ ~InvoiceLocked(o)
    /\ invoice[o] = "unpaid"
    /\ order[o] \in {"pending", "active"}
    /\ job' = [job EXCEPT ![w] =
                 [pc |-> "activate", order |-> o,
                  items |-> Content(o),
                  pays |-> TRUE, seen |-> order[o], accepts |-> FALSE]]
    /\ UNCHANGED <<order, invoice, refs, rows, queue, stock, used, accepted, settled>>

\* ApplyPayment locks the invoice and runs ProcessPaid, whose ActivateOrder
\* reads the order in the same transaction.  An active order has nothing left
\* to activate; any other fails the payment.
ApplyPayment(w, o) ==
    /\ job[w] \in {Idle, [pc |-> "autopay", order |-> o]}
    /\ ~InvoiceLocked(o)
    /\ invoice[o] = "unpaid"
    /\ order[o] \in {"pending", "active"}
    /\ job' = [job EXCEPT ![w] =
                 [pc |-> "activate", order |-> o,
                  items |-> IF order[o] = "pending" THEN Content(o) \ refs ELSE {},
                  pays |-> TRUE, seen |-> order[o], accepts |-> FALSE]]
    /\ UNCHANGED <<order, invoice, refs, rows, queue, stock, used, accepted, settled>>

\* Mutant: only products set up on order are enqueued.
EnqueueAutoSetup(w) ==
    /\ job[w].pc = "activate"
    /\ queue' = queue \cup {i \in job[w].items : Item[i].setup = "on_order"}
    /\ job' = [job EXCEPT ![w].pc = "commit"]
    /\ UNCHANGED <<order, invoice, refs, rows, stock, used, accepted, settled>>

\* The jobs are enqueued inside the transaction, which may yet roll back.
Enqueue(w) ==
    /\ job[w].pc = "activate"
    /\ queue' = queue \cup {i \in job[w].items : Automatic(i)}
    /\ job' = [job EXCEPT ![w].pc = "commit"]
    /\ UNCHANGED <<order, invoice, refs, rows, stock, used, accepted, settled>>

\* Mutant: the back-refs are not stored.
ActivateUnlinked(w) ==
    LET o == job[w].order  new == job[w].items IN
    /\ job[w].pc = "commit"
    /\ Moves(w) => ~OrderLocked(o) /\ Undisturbed(w)
    /\ \A i \in new : Item[i].domain => rows[i] = 0
    /\ rows' = [i \in Items |-> IF i \in new THEN rows[i] + 1 ELSE rows[i]]
    /\ order' = IF Moves(w) THEN [order EXCEPT ![o] = "active"] ELSE order
    /\ invoice' = IF job[w].pays THEN [invoice EXCEPT ![o] = "paid"] ELSE invoice
    /\ accepted' = IF job[w].accepts THEN accepted \cup {o} ELSE accepted
    /\ settled' = IF job[w].pays THEN settled \cup {o} ELSE settled
    /\ job' = [job EXCEPT ![w] = Idle]
    /\ UNCHANGED <<refs, queue, stock, used>>

\* The transaction commits: one row and one back-ref for every item that had
\* none when the items were read.  The unique index on domain names refuses a
\* second row for a name.
Activate(w) ==
    LET o == job[w].order  new == job[w].items IN
    /\ job[w].pc = "commit"
    /\ Moves(w) => ~OrderLocked(o) /\ Undisturbed(w)
    /\ \A i \in new : Item[i].domain => rows[i] = 0
    /\ rows' = [i \in Items |-> IF i \in new THEN rows[i] + 1 ELSE rows[i]]
    /\ refs' = refs \cup new
    /\ order' = IF Moves(w) THEN [order EXCEPT ![o] = "active"] ELSE order
    /\ invoice' = IF job[w].pays THEN [invoice EXCEPT ![o] = "paid"] ELSE invoice
    /\ accepted' = IF job[w].accepts THEN accepted \cup {o} ELSE accepted
    /\ settled' = IF job[w].pays THEN settled \cup {o} ELSE settled
    /\ job' = [job EXCEPT ![w] = Idle]
    /\ UNCHANGED <<queue, stock, used>>

-----------------------------------------------------------------------------
(* Cancel and MarkFraud: setTerminalStatus. *)

\* Mutant: the state machine is not asked.
SetAnyTerminalStatus(w, o, to) ==
    /\ job[w] = Idle
    /\ order[o] \notin {"none", to}
    /\ job' = [job EXCEPT ![w] = [pc |-> "terminal", order |-> o, seen |-> order[o], to |-> to]]
    /\ UNCHANGED <<order, invoice, refs, rows, queue, stock, used, accepted, settled>>

\* Cancel and MarkFraud read the order and check its transition before the transaction ...
SetTerminalStatus(w, o, to) ==
    /\ job[w] = Idle
    /\ order[o] = "pending"
    /\ job' = [job EXCEPT ![w] = [pc |-> "terminal", order |-> o, seen |-> order[o], to |-> to]]
    /\ UNCHANGED <<order, invoice, refs, rows, queue, stock, used, accepted, settled>>

\* ... which writes the order by id, and reads the invoice without a lock ...
TakeOrder(w) ==
    LET o == job[w].order IN
    /\ job[w].pc = "terminal"
    /\ ~OrderLocked(o)
    /\ Undisturbed(w)
    /\ job' = [job EXCEPT ![w] = [pc |-> "void", order |-> o, to |-> job[w].to,
                                  voids |-> invoice[o] = "unpaid"]]
    /\ UNCHANGED <<order, invoice, refs, rows, queue, stock, used, accepted, settled>>

\* ... then writes it cancelled by id if it looked cancellable, restores the
\* stock and commits.
FinishTerminal(w) ==
    LET o == job[w].order IN
    /\ job[w].pc = "void"
    /\ job[w].voids => ~InvoiceLocked(o)
    /\ order' = [order EXCEPT ![o] = job[w].to]
    /\ invoice' = IF job[w].voids THEN [invoice EXCEPT ![o] = "cancelled"] ELSE invoice
    /\ stock' = stock + Cardinality(Restored(o))
    /\ job' = [job EXCEPT ![w] = Idle]
    /\ UNCHANGED <<refs, rows, queue, used, accepted, settled>>

\* billing.CancelInvoice: the order stays as it is.
CancelInvoice(o) ==
    /\ invoice[o] = "unpaid"
    /\ ~InvoiceLocked(o)
    /\ \A v \in Workers : job[v].pc = "void" /\ job[v].order = o => ~job[v].voids
    /\ invoice' = [invoice EXCEPT ![o] = "cancelled"]
    /\ UNCHANGED <<order, refs, rows, queue, stock, used, accepted, settled, job>>

\* A worker finds nothing to do, fails, is a deadlock's victim or dies: its
\* transaction rolls back and its locks are free.
Rollback(w) ==
    /\ job[w] # Idle
    /\ job' = [job EXCEPT ![w] = Idle]
    /\ UNCHANGED <<order, invoice, refs, rows, queue, stock, used, accepted, settled>>

-----------------------------------------------------------------------------
Begin(w, o) ==
    \/ \E blacklisted \in BOOLEAN : CreateOrder(w, o, blacklisted)
    \/ ActivateOrder(w, o)
    \/ ApplyPayment(w, o)
    \/ \E to \in {"fraud", "cancelled"} : SetTerminalStatus(w, o, to)

Proceed(w) ==
    \/ PlaceFraud(w)
    \/ PlaceOrder(w)
    \/ Enqueue(w)
    \/ Activate(w)
    \/ TakeOrder(w)
    \/ FinishTerminal(w)
    \/ Rollback(w)

Next ==
    \/ \E o \in Orders : CancelInvoice(o)
    \/ \E w \in Workers : Proceed(w) \/ \E o \in Orders : Begin(w, o)

Spec == Init /\ [][Next]_vars

-----------------------------------------------------------------------------
(* Safety, in every interleaving. *)

(* Stock never runs below zero, although the quantity is checked before the  *)
(* transaction that takes it (DecrementStock's conditional UPDATE).          *)
StockNotNegative == stock >= 0

(* A coupon is never used more often than it allows, although the limit is   *)
(* checked before the transaction that counts (IncrementUsage).              *)
CouponWithinLimit == MaxUses > 0 => used <= MaxUses

(* Every item of an order that is active, or was ever paid, has its service  *)
(* or domain row, linked to it (ActivateOrder inside ApplyPayment).          *)
PaidIsDelivered ==
    \A o \in Orders : order[o] = "active" \/ o \in settled => Content(o) \subseteq refs

(* A row that the platform has to provision or register has its job: a crash *)
(* can leave a job without a row, never a row without a job.                 *)
RowsHaveJobs ==
    \A i \in Items : rows[i] > 0 /\ Automatic(i) => i \in queue

(* A domain is registered only for an order that was paid or accepted by an  *)
(* administrator (allAutoSetupOnOrder: registration never fires before       *)
(* payment), and never twice for one item.                                   *)
DomainsArePaidFor ==
    \A i \in Items : Item[i].domain /\ rows[i] > 0 =>
        /\ OrderOf[i] \in settled \cup accepted
        /\ rows[i] = 1

(* What CreateOrder and ActivateOrder keep however checkouts, payments and   *)
(* closures of orders cross.                                                 *)
OrdersDelivered ==
    StockNotNegative /\ CouponWithinLimit /\ PaidIsDelivered /\ RowsHaveJobs /\ DomainsArePaidFor

(* The comment on ActivateOrder: "It is idempotent: items whose service_id / *)
(* domain_id back-refs are already set are skipped" - one row per item.      *)
OneRowPerItem == \A i \in Items : rows[i] <= 1

-----------------------------------------------------------------------------
(* Safety when no order changes under a worker (Overlap = FALSE). *)

(* What is missing from the stock is what pending and active orders hold:    *)
(* cancelling or flagging an order gives back what it took, once ("and stock *)
(* restored", Cancel).                                                       *)
StockConserved ==
    stock + Cardinality(UNION {Stocked(o) : o \in {p \in Orders : order[p] \in {"pending", "active"}}})
        = Stock

(* A cancelled or flagged order has no rows and was never paid; only an      *)
(* order's own activation makes rows for it.                                 *)
ClosedOrdersAreEmpty ==
    \A o \in Orders : order[o] \in {"none", "fraud", "cancelled"} =>
        o \notin settled /\ \A i \in Content(o) : rows[i] = 0

(* What activateOrder and setTerminalStatus keep as long as no order changes *)
(* between a handler's read and its transaction.                             *)
OrdersConserved == OneRowPerItem /\ StockConserved /\ ClosedOrdersAreEmpty

(* An order leaves pending once, and never changes again                     *)
(* (orderTransitions).                                                       *)
OrderStep ==
    \A o \in Orders : order'[o] # order[o] =>
        \/ order[o] = "none" /\ order'[o] \in {"pending", "fraud"}
        \/ order[o] = "pending" /\ order'[o] \in {"active", "fraud", "cancelled"}
OrderLifecycle == [][OrderStep]_vars
=============================================================================
