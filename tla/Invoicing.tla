----------------------------- MODULE Invoicing -----------------------------
(***************************************************************************)
(* Invoices, payment transactions and client credit: how an invoice is     *)
(* settled by the payment gateway's webhook, the reconciliation cron, an   *)
(* administrator or the client's credit, while crons and administrators    *)
(* move its status underneath.                                             *)
(*                                                                         *)
(* One action is one database statement or one database transaction        *)
(* (WithinTx).  A handler made of several keeps what it has read in        *)
(* job[w], the local variables of worker w, and goes on from that later,   *)
(* however stale it has become.  invoices.credit_applied is never written  *)
(* by the code, so the amount due on an invoice is its total.              *)
(***************************************************************************)
EXTENDS Integers, FiniteSets

CONSTANTS
    Invoices,      \* invoice ids
    Kind,          \* [Invoices -> Kinds]: what the invoice's item pays for
    Price,         \* [Invoices -> Nat]: the total it is created with
    LateFee,       \* billing.late_fee_amount
    Tenders,       \* amounts an administrator may record as a manual payment
    Adjustments,   \* administrator credit adjustments
    MaxCredit,     \* bound: adjustments stop above this balance
    MaxAttempt,    \* bound: payment attempts per invoice
    Workers,       \* concurrent request handlers, jobs and cron runs
    StatusRaces,   \* FALSE: nothing changes an invoice between the unlocked
                   \* read and the unconditional write of its status
    CronOverlap    \* TRUE: a cron run may outlive its Redis lock

Kinds == {"order", "deposit", "hunt"}
Gateways == {"duitku", "manual"}
InvoiceStatus == {"none", "unpaid", "overdue", "paid", "cancelled", "refunded"}
TxStatus == {"none", "pending", "success", "failed", "expired", "refunded"}
GatewayStatus == {"none", "pending", "success", "cancelled"}

Orders == Invoices \X (1..MaxAttempt)  \* merchant order ids "<invoice>-<attempt>"

ASSUME InvoicingAssumption ==
    /\ Kind \in [Invoices -> Kinds]
    /\ Price \in [Invoices -> Nat]
    /\ \A i \in Invoices : Kind[i] = "deposit" => Price[i] > 0
    /\ LateFee \in Nat \ {0}
    /\ Tenders \subseteq Nat \ {0}
    /\ Adjustments \subseteq Int
    /\ MaxCredit \in Nat
    /\ MaxAttempt \in Nat
    /\ StatusRaces \in BOOLEAN
    /\ CronOverlap \in BOOLEAN

VARIABLES
    status,    \* invoices.status ("none": no row yet)
    total,     \* invoices.total
    pastDue,   \* the due date has gone by
    fees,      \* number of late_fee items on the invoice
    attempts,  \* the counter of scope "payment_attempt:<invoice>"
    txn,       \* transactions rows that have a merchant order id
    direct,    \* amount of the invoice's success row without one (credit,
               \* manual), or NoRow
    gateway,   \* the gateway's own orders
    credit,    \* clients.credit_balance
    settled,   \* how often ProcessPaid has committed for the invoice
    job        \* local state of each worker

vars == <<status, total, pastDue, fees, attempts, txn, direct, gateway,
          credit, settled, job>>

NoRow == -1

Idle == [pc |-> "idle"]

Job == [pc : {"idle"}]
       \cup [pc : {"inquire", "record"}, order : Orders, via : Gateways, amount : Nat]
       \cup [pc : {"callback"}, order : Orders, success : BOOLEAN, pending : BOOLEAN]
       \cup [pc : {"reconcile"}, order : Orders]
       \cup [pc : {"confirm"}, order : Orders, amount : Nat]
       \cup [pc : {"overdue", "void", "latefee"}, invoice : Invoices]

Row == [status : TxStatus, via : Gateways, amount : Nat]

(* The type invariant. *)
TypeOK ==
    /\ status \in [Invoices -> InvoiceStatus]
    /\ total \in [Invoices -> Nat]
    /\ pastDue \in [Invoices -> BOOLEAN]
    /\ fees \in [Invoices -> Nat]
    /\ attempts \in [Invoices -> 0..MaxAttempt]
    /\ txn \in [Orders -> Row]
    /\ direct \in [Invoices -> Nat \cup {NoRow}]
    /\ gateway \in [Orders -> [status : GatewayStatus, amount : Nat]]
    /\ credit \in Int
    /\ settled \in [Invoices -> Nat]
    /\ job \in [Workers -> Job]

Init ==
    /\ status = [i \in Invoices |-> "none"]
    /\ total = Price
    /\ pastDue = [i \in Invoices |-> FALSE]
    /\ fees = [i \in Invoices |-> 0]
    /\ attempts = [i \in Invoices |-> 0]
    /\ txn = [o \in Orders |-> [status |-> "none", via |-> "duitku", amount |-> 0]]
    /\ direct = [i \in Invoices |-> NoRow]
    /\ gateway = [o \in Orders |-> [status |-> "none", amount |-> 0]]
    /\ credit = 0
    /\ settled = [i \in Invoices |-> 0]
    /\ job = [w \in Workers |-> Idle]

-----------------------------------------------------------------------------
(* The invoice state machine and the database's own rules. *)

\* The edges of invoiceTransitions (draft is never entered: invoices are
\* created unpaid).
InvoiceTransitions ==
    {<<"unpaid", "paid">>, <<"unpaid", "cancelled">>, <<"unpaid", "overdue">>,
     <<"overdue", "paid">>, <<"overdue", "cancelled">>, <<"paid", "refunded">>}

CanTransition(from, to) == <<from, to>> \in InvoiceTransitions

Payable(i) == status[i] \in {"unpaid", "overdue"}

OrdersOf(i) == {o \in Orders : o[1] = i}

\* Mutant: the partial unique index is missing.
UniqueSuccessMutant(i, rows) == TRUE

\* The partial unique index on transactions(invoice_id) WHERE status='success'
\* accepts a success row of invoice i when no row outside "rows" is one.
UniqueSuccess(i, rows) ==
    /\ direct[i] = NoRow
    /\ \A o \in OrdersOf(i) \ rows : txn[o].status # "success"

-----------------------------------------------------------------------------
(* Settling an invoice. *)

\* billing.ProcessPaid: the effects of the paid invoice's item.  Only the
\* deposit's effect is state of this module; the others are counted.
ProcessPaid(i, balance) ==
    /\ settled' = [settled EXCEPT ![i] = @ + 1]
    /\ credit' = IF Kind[i] = "deposit" THEN balance + Price[i] ELSE balance

\* Mutant: an already paid invoice is settled again.
MarkPaidTwice(i, amount, balance) ==
    /\ status[i] \notin {"none", "cancelled"}
    /\ amount >= total[i]
    /\ status' = [status EXCEPT ![i] = "paid"]
    /\ ProcessPaid(i, balance)

\* Mutant: the amount is compared with the total before late fees.
MarkPaidShort(i, amount, balance) ==
    /\ CanTransition(status[i], "paid")
    /\ amount >= Price[i]
    /\ status' = [status EXCEPT ![i] = "paid"]
    /\ ProcessPaid(i, balance)

\* payments.ApplyPayment under the invoice's row lock, once it has neither
\* returned early nor failed: the status may become paid and the amount covers
\* what is due.  It ends with ProcessPaid in the same transaction.
MarkPaid(i, amount, balance) ==
    /\ status[i] \notin {"paid", "refunded"}
    /\ CanTransition(status[i], "paid")
    /\ amount >= total[i]
    /\ status' = [status EXCEPT ![i] = "paid"]
    /\ ProcessPaid(i, balance)

\* ApplyPayment keyed by merchant order id: the row becomes the success row.
\* A row that already is one is left as it is, and the rest is done again.
ApplyToOrder(o, amount) ==
    /\ MarkPaid(o[1], amount, credit)
    /\ IF txn[o].status = "success"
         THEN txn' = txn
         ELSE /\ UniqueSuccess(o[1], {o})
              /\ txn' = [txn EXCEPT ![o] = [@ EXCEPT !.status = "success", !.amount = amount]]
    /\ UNCHANGED direct

\* ApplyPayment without one: a new success row is inserted.
ApplyDirect(i, amount, balance) ==
    /\ MarkPaid(i, amount, balance)
    /\ UniqueSuccess(i, {})
    /\ direct' = [direct EXCEPT ![i] = amount]
    /\ UNCHANGED txn

-----------------------------------------------------------------------------
(* Invoices. *)

\* billing.CreateInvoice
CreateInvoice(i) ==
    /\ status[i] = "none"
    /\ status' = [status EXCEPT ![i] = "unpaid"]
    /\ UNCHANGED <<total, pastDue, fees, attempts, txn, direct, gateway, credit, settled, job>>

\* The calendar reaches the due date.
DueDatePasses(i) ==
    /\ ~pastDue[i]
    /\ pastDue' = [pastDue EXCEPT ![i] = TRUE]
    /\ UNCHANGED <<status, total, fees, attempts, txn, direct, gateway, credit, settled, job>>

\* billing.UpdateInvoice moves the due date of an open invoice, under its lock.
UpdateInvoice(i, past) ==
    /\ Payable(i)
    /\ pastDue' = [pastDue EXCEPT ![i] = past]
    /\ UNCHANGED <<status, total, fees, attempts, txn, direct, gateway, credit, settled, job>>

\* Mutant: cancelling does not ask the state machine.
CancelAnyInvoice(i) ==
    /\ status[i] # "none"
    /\ status' = [status EXCEPT ![i] = "cancelled"]
    /\ UNCHANGED <<total, pastDue, fees, attempts, txn, direct, gateway, credit, settled, job>>

\* billing.CancelInvoice, under the row lock.
CancelInvoice(i) ==
    /\ CanTransition(status[i], "cancelled")
    /\ status' = [status EXCEPT ![i] = "cancelled"]
    /\ UNCHANGED <<total, pastDue, fees, attempts, txn, direct, gateway, credit, settled, job>>

\* Mutant: a refund leaves the transactions as they are.
RefundInvoiceOnly(i, toCredit) ==
    /\ CanTransition(status[i], "refunded")
    /\ Kind[i] # "hunt"
    /\ status' = [status EXCEPT ![i] = "refunded"]
    /\ credit' = IF toCredit THEN credit + total[i] ELSE credit
    /\ UNCHANGED <<total, pastDue, fees, attempts, txn, direct, gateway, settled, job>>

\* billing.RefundInvoice, under the row lock: every success row of the invoice
\* is marked refunded and the total goes to credit when asked for.
RefundInvoice(i, toCredit) ==
    /\ CanTransition(status[i], "refunded")
    /\ Kind[i] # "hunt"
    /\ status' = [status EXCEPT ![i] = "refunded"]
    /\ txn' = [o \in Orders |->
                 IF o[1] = i /\ txn[o].status = "success"
                   THEN [txn[o] EXCEPT !.status = "refunded"]
                   ELSE txn[o]]
    /\ direct' = [direct EXCEPT ![i] = NoRow]
    /\ credit' = IF toCredit THEN credit + total[i] ELSE credit
    /\ UNCHANGED <<total, pastDue, fees, attempts, gateway, settled, job>>

\* clients.AdminAdjustCredit: one conditional UPDATE that refuses to go below 0.
AdminAdjustCredit(delta) ==
    /\ credit + delta >= 0
    /\ delta < 0 \/ credit + delta <= MaxCredit
    /\ credit' = credit + delta
    /\ UNCHANGED <<status, total, pastDue, fees, attempts, txn, direct, gateway, settled, job>>

-----------------------------------------------------------------------------
(* Payments that take one transaction. *)

\* Mutant: the balance is not checked by the statement that deducts it.
PayWithAnyCredit(i) ==
    /\ Payable(i)
    /\ Kind[i] # "deposit"
    /\ ApplyDirect(i, total[i], credit - total[i])
    /\ UNCHANGED <<total, pastDue, fees, attempts, gateway, job>>

\* payments.payWithCredit: DeductCredit and ApplyPayment under the row lock.
PayWithCredit(i) ==
    /\ Payable(i)
    /\ Kind[i] # "deposit"
    /\ credit >= total[i]
    /\ ApplyDirect(i, total[i], credit - total[i])
    /\ UNCHANGED <<total, pastDue, fees, attempts, gateway, job>>

\* billing.AddManualPayment
AddManualPayment(i, amount) ==
    /\ ApplyDirect(i, amount, credit)
    /\ UNCHANGED <<total, pastDue, fees, attempts, gateway, job>>

-----------------------------------------------------------------------------
(* Opening a payment: payments.PayInvoice / payWithGateway. *)

\* Mutant: the attempt is the number of rows so far plus one.
PayInvoiceCounting(w, i, via) ==
    LET next == Cardinality({o \in OrdersOf(i) : txn[o].status # "none"}) + 1 IN
    /\ job[w] = Idle
    /\ Payable(i)
    /\ total[i] > 0
    /\ next <= MaxAttempt
    /\ attempts' = [attempts EXCEPT ![i] = next]
    /\ job' = [job EXCEPT ![w] =
                 [pc |-> "inquire", order |-> <<i, next>>,
                  via |-> via, amount |-> total[i]]]
    /\ UNCHANGED <<status, total, pastDue, fees, txn, direct, gateway, credit, settled>>

\* The unlocked read of the invoice and the atomic reservation of an attempt.
PayInvoice(w, i, via) ==
    /\ job[w] = Idle
    /\ Payable(i)
    /\ total[i] > 0
    /\ attempts[i] < MaxAttempt
    /\ attempts' = [attempts EXCEPT ![i] = @ + 1]
    /\ job' = [job EXCEPT ![w] =
                 [pc |-> "inquire", order |-> <<i, attempts[i] + 1>>,
                  via |-> via, amount |-> total[i]]]
    /\ UNCHANGED <<status, total, pastDue, fees, txn, direct, gateway, credit, settled>>

\* gw.CreateTransaction: Duitku opens its own order, the manual gateway none.
GatewayInquiry(w) ==
    /\ job[w].pc = "inquire"
    /\ gateway' = IF job[w].via = "duitku"
                    THEN [gateway EXCEPT ![job[w].order] =
                            [status |-> "pending", amount |-> job[w].amount]]
                    ELSE gateway
    /\ job' = [job EXCEPT ![w].pc = "record"]
    /\ UNCHANGED <<status, total, pastDue, fees, attempts, txn, direct, credit, settled>>

\* Mutant: the row records what is due now, not what the gateway was asked for.
RecordAmountDue(w) ==
    /\ job[w].pc = "record"
    /\ txn' = [txn EXCEPT ![job[w].order] =
                 [status |-> "pending", via |-> job[w].via,
                  amount |-> total[job[w].order[1]]]]
    /\ job' = [job EXCEPT ![w] = Idle]
    /\ UNCHANGED <<status, total, pastDue, fees, attempts, direct, gateway, credit, settled>>

\* Transactions.Create: the pending row, with no second look at the invoice.
RecordTransaction(w) ==
    /\ job[w].pc = "record"
    /\ txn' = [txn EXCEPT ![job[w].order] =
                 [status |-> "pending", via |-> job[w].via, amount |-> job[w].amount]]
    /\ job' = [job EXCEPT ![w] = Idle]
    /\ UNCHANGED <<status, total, pastDue, fees, attempts, direct, gateway, credit, settled>>

\* A handler returns early, fails, or dies with its process, between two of
\* its steps.
Return(w) ==
    /\ job[w] # Idle
    /\ job' = [job EXCEPT ![w] = Idle]
    /\ UNCHANGED <<status, total, pastDue, fees, attempts, txn, direct, gateway, credit, settled>>

\* External: the customer pays the gateway's order, or it expires there.  Both
\* are final at the gateway.
GatewayResolves(o, outcome) ==
    /\ gateway[o].status = "pending"
    /\ gateway' = [gateway EXCEPT ![o].status = outcome]
    /\ UNCHANGED <<status, total, pastDue, fees, attempts, txn, direct, credit, settled, job>>

-----------------------------------------------------------------------------
(* Settling a gateway payment.  CheckTransaction only reports an outcome that *)
(* is final at the gateway, so it is read in the step that acts on it.        *)

\* payments.HandleCallback reads the row, without a lock.  A delivery may be
\* late, repeated, or carry a result code that the gateway does not confirm.
HandleCallback(w, o, success) ==
    /\ job[w] = Idle
    /\ gateway[o].status # "none"
    /\ txn[o].status # "none"
    /\ success \/ txn[o].status = "pending"
    /\ job' = [job EXCEPT ![w] =
                 [pc |-> "callback", order |-> o, success |-> success,
                  pending |-> txn[o].status = "pending"]]
    /\ UNCHANGED <<status, total, pastDue, fees, attempts, txn, direct, gateway, credit, settled>>

\* Mutant: the callback's result code is trusted.
CallbackTrusted(w) ==
    /\ job[w].pc = "callback"
    /\ job[w].success
    /\ ApplyToOrder(job[w].order, gateway[job[w].order].amount)
    /\ job' = [job EXCEPT ![w] = Idle]
    /\ UNCHANGED <<total, pastDue, fees, attempts, gateway>>

\* Result code "00", confirmed by CheckTransaction.
CallbackSettles(w) ==
    /\ job[w].pc = "callback"
    /\ job[w].success
    /\ gateway[job[w].order].status = "success"
    /\ ApplyToOrder(job[w].order, gateway[job[w].order].amount)
    /\ job' = [job EXCEPT ![w] = Idle]
    /\ UNCHANGED <<total, pastDue, fees, attempts, gateway>>

\* Mutant: a failure callback is trusted.
CallbackFailsTrusted(w) ==
    /\ job[w].pc = "callback"
    /\ job[w].pending
    /\ ~job[w].success
    /\ txn' = [txn EXCEPT ![job[w].order].status = "failed"]
    /\ job' = [job EXCEPT ![w] = Idle]
    /\ UNCHANGED <<status, total, pastDue, fees, attempts, direct, gateway, credit, settled>>

\* Mutant: the gateway's word for the outcome is stored.
CallbackFailsRaw(w) ==
    /\ job[w].pc = "callback"
    /\ job[w].pending
    /\ gateway[job[w].order].status = "cancelled"
    /\ txn' = [txn EXCEPT ![job[w].order].status = gateway[job[w].order].status]
    /\ job' = [job EXCEPT ![w] = Idle]
    /\ UNCHANGED <<status, total, pastDue, fees, attempts, direct, gateway, credit, settled>>

\* CheckTransaction says cancelled: the row that was pending when it was read
\* is written back as failed, whatever it is by now.
CallbackFails(w) ==
    /\ job[w].pc = "callback"
    /\ job[w].pending
    /\ gateway[job[w].order].status = "cancelled"
    /\ txn' = [txn EXCEPT ![job[w].order].status = "failed"]
    /\ job' = [job EXCEPT ![w] = Idle]
    /\ UNCHANGED <<status, total, pastDue, fees, attempts, direct, gateway, credit, settled>>

\* Mutant: reconciliation passes over invoices that are past their due date.
ReconcileInTime(w, o) ==
    /\ job[w] = Idle
    /\ txn[o].status = "pending"
    /\ txn[o].via = "duitku"
    /\ ~pastDue[o[1]]
    /\ job' = [job EXCEPT ![w] = [pc |-> "reconcile", order |-> o]]
    /\ UNCHANGED <<status, total, pastDue, fees, attempts, txn, direct, gateway, credit, settled>>

\* payments.ReconcileOne (from ReconcilePending) reads a pending Duitku row.
ReconcileOne(w, o) ==
    /\ job[w] = Idle
    /\ txn[o].status = "pending"
    /\ txn[o].via = "duitku"
    /\ job' = [job EXCEPT ![w] = [pc |-> "reconcile", order |-> o]]
    /\ UNCHANGED <<status, total, pastDue, fees, attempts, txn, direct, gateway, credit, settled>>

ReconcileSettles(w) ==
    /\ job[w].pc = "reconcile"
    /\ gateway[job[w].order].status = "success"
    /\ ApplyToOrder(job[w].order, gateway[job[w].order].amount)
    /\ job' = [job EXCEPT ![w] = Idle]
    /\ UNCHANGED <<total, pastDue, fees, attempts, gateway>>

ReconcileExpires(w) ==
    /\ job[w].pc = "reconcile"
    /\ gateway[job[w].order].status = "cancelled"
    /\ txn' = [txn EXCEPT ![job[w].order].status = "expired"]
    /\ job' = [job EXCEPT ![w] = Idle]
    /\ UNCHANGED <<status, total, pastDue, fees, attempts, direct, gateway, credit, settled>>

\* payments.ConfirmManualTransaction reads a pending bank transfer.
ConfirmManualTransaction(w, o) ==
    /\ job[w] = Idle
    /\ txn[o].status = "pending"
    /\ txn[o].via = "manual"
    /\ job' = [job EXCEPT ![w] =
                 [pc |-> "confirm", order |-> o, amount |-> txn[o].amount]]
    /\ UNCHANGED <<status, total, pastDue, fees, attempts, txn, direct, gateway, credit, settled>>

ConfirmSettles(w) ==
    /\ job[w].pc = "confirm"
    /\ ApplyToOrder(job[w].order, job[w].amount)
    /\ job' = [job EXCEPT ![w] = Idle]
    /\ UNCHANGED <<total, pastDue, fees, attempts, gateway>>

-----------------------------------------------------------------------------
(* Writers of the status that take no lock. *)

\* Whether the write may find the invoice no longer open.
StillOpen(i) == StatusRaces \/ Payable(i)

\* billing.MarkOverdue lists the unpaid invoices past their due date ...
MarkOverdue(w, i) ==
    /\ job[w] = Idle
    /\ status[i] = "unpaid"
    /\ pastDue[i]
    /\ job' = [job EXCEPT ![w] = [pc |-> "overdue", invoice |-> i]]
    /\ UNCHANGED <<status, total, pastDue, fees, attempts, txn, direct, gateway, credit, settled>>

\* ... and writes each of them overdue by id.
WriteOverdue(w) ==
    /\ job[w].pc = "overdue"
    /\ StillOpen(job[w].invoice)
    /\ status' = [status EXCEPT ![job[w].invoice] = "overdue"]
    /\ job' = [job EXCEPT ![w] = Idle]
    /\ UNCHANGED <<total, pastDue, fees, attempts, txn, direct, gateway, credit, settled>>

\* orders.setTerminalStatus and provisioning.cancelOpenRenewalInvoices read an
\* open invoice without a lock ...
VoidInvoice(w, i) ==
    /\ job[w] = Idle
    /\ CanTransition(status[i], "cancelled")
    /\ job' = [job EXCEPT ![w] = [pc |-> "void", invoice |-> i]]
    /\ UNCHANGED <<status, total, pastDue, fees, attempts, txn, direct, gateway, credit, settled>>

\* ... and write it cancelled by id.
WriteVoid(w) ==
    /\ job[w].pc = "void"
    /\ StillOpen(job[w].invoice)
    /\ status' = [status EXCEPT ![job[w].invoice] = "cancelled"]
    /\ job' = [job EXCEPT ![w] = Idle]
    /\ UNCHANGED <<total, pastDue, fees, attempts, txn, direct, gateway, credit, settled>>

\* Mutant: an existing late_fee item is not looked for.
ApplyLateFeesAgain(w, i) ==
    /\ job[w] = Idle
    /\ status[i] = "overdue"
    /\ pastDue[i]
    /\ fees[i] < 3
    /\ CronOverlap \/ \A v \in Workers : job[v].pc # "latefee"
    /\ job' = [job EXCEPT ![w] = [pc |-> "latefee", invoice |-> i]]
    /\ UNCHANGED <<status, total, pastDue, fees, attempts, txn, direct, gateway, credit, settled>>

\* billing.ApplyLateFees looks for a late_fee item before it takes the lock.
\* The cron's Redis lock keeps a second run out until it expires.
ApplyLateFees(w, i) ==
    /\ job[w] = Idle
    /\ status[i] = "overdue"
    /\ pastDue[i]
    /\ fees[i] = 0
    /\ CronOverlap \/ \A v \in Workers : job[v].pc # "latefee"
    /\ job' = [job EXCEPT ![w] = [pc |-> "latefee", invoice |-> i]]
    /\ UNCHANGED <<status, total, pastDue, fees, attempts, txn, direct, gateway, credit, settled>>

\* Under the row lock it looks at the status again, not at the items.
AddLateFee(w) ==
    /\ job[w].pc = "latefee"
    /\ status[job[w].invoice] = "overdue"
    /\ fees' = [fees EXCEPT ![job[w].invoice] = @ + 1]
    /\ total' = [total EXCEPT ![job[w].invoice] = @ + LateFee]
    /\ job' = [job EXCEPT ![w] = Idle]
    /\ UNCHANGED <<status, pastDue, attempts, txn, direct, gateway, credit, settled>>

-----------------------------------------------------------------------------
InvoiceStep(i) ==
    \/ CreateInvoice(i)
    \/ DueDatePasses(i)
    \/ \E past \in BOOLEAN : UpdateInvoice(i, past)
    \/ CancelInvoice(i)
    \/ \E toCredit \in BOOLEAN : RefundInvoice(i, toCredit)
    \/ PayWithCredit(i)
    \/ \E amount \in Tenders : AddManualPayment(i, amount)

\* A worker takes a request, a webhook delivery or a cron item ...
Begin(w) ==
    \/ \E i \in Invoices, via \in Gateways : PayInvoice(w, i, via)
    \/ \E o \in Orders, success \in BOOLEAN : HandleCallback(w, o, success)
    \/ \E o \in Orders : ReconcileOne(w, o)
    \/ \E o \in Orders : ConfirmManualTransaction(w, o)
    \/ \E i \in Invoices : MarkOverdue(w, i)
    \/ \E i \in Invoices : VoidInvoice(w, i)
    \/ \E i \in Invoices : ApplyLateFees(w, i)

\* ... and goes on with it.
Proceed(w) ==
    \/ GatewayInquiry(w)
    \/ RecordTransaction(w)
    \/ CallbackSettles(w)
    \/ CallbackFails(w)
    \/ ReconcileSettles(w)
    \/ ReconcileExpires(w)
    \/ ConfirmSettles(w)
    \/ WriteOverdue(w)
    \/ WriteVoid(w)
    \/ AddLateFee(w)
    \/ Return(w)

Next ==
    \/ \E i \in Invoices : InvoiceStep(i)
    \/ \E o \in Orders, outcome \in {"success", "cancelled"} : GatewayResolves(o, outcome)
    \/ \E delta \in Adjustments : AdminAdjustCredit(delta)
    \/ \E w \in Workers : Begin(w) \/ Proceed(w)

Spec == Init /\ [][Next]_vars

\* Every handler returns (all calls have timeouts), and the reconciliation
\* cron keeps visiting every pending row and does not fail on it forever.
Fairness ==
    /\ \A w \in Workers : WF_vars(Return(w))
    /\ \A o \in Orders : SF_vars(\E w \in Workers : ReconcileOne(w, o))
    /\ \A w \in Workers : SF_vars(ReconcileSettles(w))

FairSpec == Spec /\ Fairness

-----------------------------------------------------------------------------
(* Safety, whatever interleaving the code allows. *)

SuccessRows(i) == {o \in OrdersOf(i) : txn[o].status = "success"}

\* Worker w is between reserving an attempt and writing its row.
Opening(w) == job[w].pc \in {"inquire", "record"}

(* Concurrent PayInvoice calls never share a merchant order id, with each    *)
(* other or with an earlier attempt, so the gateway never sees one twice and *)
(* the row about to be inserted does not exist yet (NextAttempt).            *)
AttemptsDistinct ==
    /\ \A o \in Orders : txn[o].status # "none" \/ gateway[o].status # "none"
           => o[2] <= attempts[o[1]]
    /\ \A w \in Workers : Opening(w) =>
           /\ job[w].order[2] <= attempts[job[w].order[1]]
           /\ txn[job[w].order].status = "none"
           /\ job[w].pc = "inquire" => gateway[job[w].order].status = "none"
           /\ \A v \in Workers : Opening(v) /\ v # w => job[v].order # job[w].order

(* A transaction row and the gateway's order of the same id are about the    *)
(* same money, and what a worker has read of a row still is true of it:      *)
(* gateway orders belong to Duitku rows, and amounts never drift apart.      *)
RowsMatchGateway ==
    /\ \A o \in Orders : txn[o].status # "none" /\ gateway[o].status # "none"
           => txn[o].via = "duitku" /\ txn[o].amount = gateway[o].amount
    /\ \A w \in Workers :
           /\ job[w].pc = "record" /\ gateway[job[w].order].status # "none"
                 => job[w].via = "duitku" /\ job[w].amount = gateway[job[w].order].amount
           /\ job[w].pc \in {"callback", "reconcile"}
                 => txn[job[w].order].status # "none"
           /\ job[w].pc = "confirm"
                 => /\ txn[job[w].order].status # "none"
                    /\ txn[job[w].order].via = "manual"
                    /\ txn[job[w].order].amount = job[w].amount

(* At most one transaction of an invoice is successful, rows without a       *)
(* merchant order id included (ApplyPayment and the partial unique index).   *)
OneSuccess ==
    \A i \in Invoices :
        /\ \A o, p \in SuccessRows(i) : o = p
        /\ direct[i] # NoRow => SuccessRows(i) = {}

(* A Duitku transaction is successful only if the gateway really was paid:   *)
(* a callback alone never settles one (HandleCallback, ReconcileOne).        *)
SuccessIsConfirmed ==
    \A o \in Orders :
        txn[o].via = "duitku" /\ txn[o].status \in {"success", "refunded"}
            => gateway[o].status = "success"

(* A paid invoice is covered by its success row: ApplyPayment never marks an *)
(* invoice paid for less than its total, late fees included.                 *)
PaidIsCovered ==
    \A i \in Invoices : status[i] = "paid" =>
        \/ direct[i] >= total[i]
        \/ \E o \in SuccessRows(i) : txn[o].amount >= total[i]

(* The stale whole-row Update of HandleCallback and ReconcileOne never       *)
(* overwrites a transaction that has been settled with failed or expired.    *)
SettledRowsStay ==
    [][\A o \in Orders : txn[o].status \in {"success", "refunded"}
           => txn'[o].status \in {"success", "refunded"}]_vars

(* The client's credit balance never goes below zero, although payments with *)
(* credit and adjustments race (AdjustCredit's conditional UPDATE).          *)
CreditNotNegative == credit >= 0

-----------------------------------------------------------------------------
(* Safety when no status write is stale (StatusRaces = FALSE). *)

(* The effects of a paid invoice (activation, renewal, deposit credit) run   *)
(* exactly once, however often the callback is delivered and whoever else    *)
(* pays (ApplyPayment "marks an invoice paid exactly once").                 *)
SettledOnce ==
    \A i \in Invoices :
        settled[i] = IF status[i] \in {"paid", "refunded"} THEN 1 ELSE 0

(* The effects of an invoice run at most once: repeated callbacks do not     *)
(* activate or settle it again (FR-PAY-005).                                 *)
EffectsRunOnce == \A i \in Invoices : settled[i] <= 1

(* An invoice is paid exactly while it has a success row.                    *)
PaidHasSuccess ==
    \A i \in Invoices :
        status[i] = "paid" <=> direct[i] # NoRow \/ SuccessRows(i) # {}

\* The phase of an invoice in Settlement: overdue is still open there.
Phase(i) == IF status[i] = "none" THEN "absent"
            ELSE IF Payable(i) THEN "open" ELSE status[i]

Abstract == INSTANCE Settlement
              WITH phase <- [i \in Invoices |-> Phase(i)], effects <- settled

(* The payment core implements Settlement: whatever the gateway, the crons   *)
(* and the administrators do, each invoice is settled by one payment.        *)
ImplementsSettlement == Abstract!Spec

(* An invoice's status moves along the edges of the state machine only, and  *)
(* is never moved twice in a step (domain/statemachine.go).                  *)
InvoiceLifecycle ==
    [][\A i \in Invoices :
         \/ status'[i] = status[i]
         \/ status[i] = "none" /\ status'[i] = "unpaid"
         \/ CanTransition(status[i], status'[i])]_vars

(* An invoice carries at most one late fee (ApplyLateFees), when the cron's  *)
(* lock outlives its run.                                                    *)
LateFeeOnce == \A i \in Invoices : fees[i] <= 1

-----------------------------------------------------------------------------
(* Liveness. *)

(* Money that arrived at the gateway for a recorded transaction is applied   *)
(* in the end, even if every callback is lost, unless the invoice has left   *)
(* the payable states or a late fee has made the payment short               *)
(* (ReconcilePending).                                                       *)
ReceivedIsApplied ==
    \A o \in Orders :
        gateway[o].status = "success" /\ txn[o].status = "pending"
            ~> \/ txn[o].status = "success"
               \/ ~Payable(o[1])
               \/ gateway[o].amount < total[o[1]]
=============================================================================
