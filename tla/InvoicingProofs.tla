-------------------------- MODULE InvoicingProofs --------------------------
(* Proofs about Invoicing, for every set of invoices and workers, every      *)
(* price and every number of attempts.                                       *)
EXTENDS Invoicing, TLAPS

-----------------------------------------------------------------------------
(* Type correctness. *)

(* The fields a worker's local state has, by its program counter.            *)
LEMMA JobFields ==
    ASSUME NEW j \in Job
    PROVE  /\ j.pc \in {"inquire", "record"} =>
                 /\ j.order \in Orders /\ j.via \in Gateways /\ j.amount \in Nat
                 /\ \A pc \in {"inquire", "record"} : [j EXCEPT !.pc = pc] \in Job
           /\ j.pc = "callback" =>
                 j.order \in Orders /\ j.success \in BOOLEAN /\ j.pending \in BOOLEAN
           /\ j.pc = "reconcile" => j.order \in Orders
           /\ j.pc = "confirm" => j.order \in Orders /\ j.amount \in Nat
           /\ j.pc \in {"overdue", "void", "latefee"} => j.invoice \in Invoices
BY DEF Job

(* The parts of an order id.                                                 *)
LEMMA OrderParts == \A o \in Orders : o[1] \in Invoices /\ o[2] \in 1..MaxAttempt
BY DEF Orders

(* Changing the status, or the status and the amount, of a row.              *)
LEMMA RowUpdate ==
    ASSUME NEW r \in Row, NEW s \in TxStatus, NEW a \in Nat
    PROVE  /\ [r EXCEPT !.status = s] \in Row
           /\ [r EXCEPT !.status = s, !.amount = a] \in Row
BY DEF Row

LEMMA TypeOKInit == Init => TypeOK
BY InvoicingAssumption
   DEF Init, TypeOK, InvoiceStatus, Row, TxStatus, Gateways, GatewayStatus,
       NoRow, Job, Idle

(* A committed ApplyPayment keeps the types of what it writes.               *)
LEMMA MarkPaidType ==
    ASSUME TypeOK, NEW i \in Invoices, NEW amount \in Nat, NEW balance \in Int,
           MarkPaid(i, amount, balance)
    PROVE  /\ status' \in [Invoices -> InvoiceStatus]
           /\ credit' \in Int
           /\ settled' \in [Invoices -> Nat]
<1>1. Price[i] \in Nat
  BY InvoicingAssumption
<1> QED BY <1>1 DEF MarkPaid, ProcessPaid, TypeOK, InvoiceStatus

LEMMA ApplyToOrderType ==
    ASSUME TypeOK, NEW o \in Orders, NEW amount \in Nat, ApplyToOrder(o, amount)
    PROVE  /\ status' \in [Invoices -> InvoiceStatus]
           /\ txn' \in [Orders -> Row]
           /\ direct' = direct
           /\ credit' \in Int
           /\ settled' \in [Invoices -> Nat]
<1>1. o[1] \in Invoices /\ credit \in Int
  BY OrderParts DEF TypeOK
<1>2. MarkPaid(o[1], amount, credit) /\ direct' = direct
  BY DEF ApplyToOrder
<1>3. "success" \in TxStatus /\ txn[o] \in Row /\ txn \in [Orders -> Row]
  BY DEF TxStatus, TypeOK
<1>4. [txn[o] EXCEPT !.status = "success", !.amount = amount] \in Row
  BY <1>3, RowUpdate
<1>5. txn' \in [Orders -> Row]
  BY <1>3, <1>4 DEF ApplyToOrder
<1> QED BY <1>1, <1>2, <1>5, MarkPaidType

LEMMA ApplyDirectType ==
    ASSUME TypeOK, NEW i \in Invoices, NEW amount \in Nat, NEW balance \in Int,
           ApplyDirect(i, amount, balance)
    PROVE  /\ status' \in [Invoices -> InvoiceStatus]
           /\ txn' = txn
           /\ direct' \in [Invoices -> Nat \cup {NoRow}]
           /\ credit' \in Int
           /\ settled' \in [Invoices -> Nat]
BY MarkPaidType DEF ApplyDirect, TypeOK

LEMMA TypeOKInvoiceStep ==
    ASSUME TypeOK, NEW i \in Invoices, InvoiceStep(i) PROVE TypeOK'
<1>1. CASE CreateInvoice(i)
  BY <1>1 DEF CreateInvoice, TypeOK, InvoiceStatus
<1>2. CASE DueDatePasses(i)
  BY <1>2 DEF DueDatePasses, TypeOK
<1>3. CASE \E past \in BOOLEAN : UpdateInvoice(i, past)
  BY <1>3 DEF UpdateInvoice, TypeOK
<1>4. CASE CancelInvoice(i)
  BY <1>4 DEF CancelInvoice, TypeOK, InvoiceStatus
<1>5. CASE \E toCredit \in BOOLEAN : RefundInvoice(i, toCredit)
  <2>1. "refunded" \in TxStatus /\ \A o \in Orders : txn[o] \in Row
    BY DEF TxStatus, TypeOK
  <2>2. PICK toCredit \in BOOLEAN : RefundInvoice(i, toCredit)
    BY <1>5
  <2>3. txn' \in [Orders -> Row]
    BY <2>1, <2>2, RowUpdate, Zenon DEF RefundInvoice
  <2> QED BY <2>2, <2>3 DEF RefundInvoice, TypeOK, InvoiceStatus
<1>6. CASE PayWithCredit(i)
  <2>1. ApplyDirect(i, total[i], credit - total[i])
    BY <1>6 DEF PayWithCredit
  <2>2. total[i] \in Nat /\ credit - total[i] \in Int
    BY DEF TypeOK
  <2> QED BY <1>6, <2>1, <2>2, ApplyDirectType DEF PayWithCredit, TypeOK
<1>7. CASE \E amount \in Tenders : AddManualPayment(i, amount)
  <2>1. PICK amount \in Tenders : AddManualPayment(i, amount)
    BY <1>7
  <2>2. amount \in Nat /\ credit \in Int
    BY InvoicingAssumption DEF TypeOK
  <2> QED BY <2>1, <2>2, ApplyDirectType DEF AddManualPayment, TypeOK
<1> QED BY <1>1, <1>2, <1>3, <1>4, <1>5, <1>6, <1>7 DEF InvoiceStep

LEMMA TypeOKBegin ==
    ASSUME TypeOK, NEW w \in Workers, Begin(w) PROVE TypeOK'
<1>1. CASE \E i \in Invoices, via \in Gateways : PayInvoice(w, i, via)
  <2>1. PICK i \in Invoices, via \in Gateways : PayInvoice(w, i, via)
    BY <1>1
  <2>2. attempts[i] + 1 \in 1..MaxAttempt
    BY <2>1, InvoicingAssumption DEF PayInvoice, TypeOK
  <2>3. <<i, attempts[i] + 1>> \in Orders
    BY <2>2 DEF Orders
  <2>4. [pc |-> "inquire", order |-> <<i, attempts[i] + 1>>,
         via |-> via, amount |-> total[i]] \in Job
    BY <2>3 DEF Job, TypeOK
  <2> QED BY <2>1, <2>2, <2>4 DEF PayInvoice, TypeOK
<1>2. CASE \E o \in Orders, success \in BOOLEAN : HandleCallback(w, o, success)
  BY <1>2 DEF HandleCallback, TypeOK, Job
<1>3. CASE \E o \in Orders : ReconcileOne(w, o)
  BY <1>3 DEF ReconcileOne, TypeOK, Job
<1>4. CASE \E o \in Orders : ConfirmManualTransaction(w, o)
  BY <1>4 DEF ConfirmManualTransaction, TypeOK, Job, Row
<1>5. CASE \E i \in Invoices : MarkOverdue(w, i)
  BY <1>5 DEF MarkOverdue, TypeOK, Job
<1>6. CASE \E i \in Invoices : VoidInvoice(w, i)
  BY <1>6 DEF VoidInvoice, TypeOK, Job
<1>7. CASE \E i \in Invoices : ApplyLateFees(w, i)
  BY <1>7 DEF ApplyLateFees, TypeOK, Job
<1> QED BY <1>1, <1>2, <1>3, <1>4, <1>5, <1>6, <1>7 DEF Begin

LEMMA TypeOKProceed ==
    ASSUME TypeOK, NEW w \in Workers, Proceed(w) PROVE TypeOK'
<1> DEFINE j == job[w]
<1>j. j \in Job
  BY DEF TypeOK
<1>i. Idle \in Job
  BY DEF Idle, Job
<1>1. CASE GatewayInquiry(w)
  BY <1>1, <1>j, JobFields DEF GatewayInquiry, TypeOK, GatewayStatus
<1>2. CASE RecordTransaction(w)
  <2>1. j.order \in Orders /\ j.via \in Gateways /\ j.amount \in Nat
    BY <1>2, <1>j, JobFields DEF RecordTransaction
  <2>2. [status |-> "pending", via |-> j.via, amount |-> j.amount] \in Row
    BY <2>1 DEF Row, TxStatus
  <2> QED BY <1>2, <1>i, <2>1, <2>2 DEF RecordTransaction, TypeOK
<1>3. CASE CallbackSettles(w)
  BY <1>3, <1>j, <1>i, JobFields, ApplyToOrderType DEF CallbackSettles, TypeOK
<1>4. CASE CallbackFails(w)
  <2>1. "failed" \in TxStatus /\ j.order \in Orders /\ txn[j.order] \in Row
    BY <1>4, <1>j, JobFields DEF CallbackFails, TxStatus, TypeOK
  <2>2. [txn[j.order] EXCEPT !.status = "failed"] \in Row
    BY <2>1, RowUpdate
  <2> QED BY <1>4, <1>i, <2>1, <2>2 DEF CallbackFails, TypeOK
<1>5. CASE ReconcileSettles(w)
  BY <1>5, <1>j, <1>i, JobFields, ApplyToOrderType DEF ReconcileSettles, TypeOK
<1>6. CASE ReconcileExpires(w)
  <2>1. "expired" \in TxStatus /\ j.order \in Orders /\ txn[j.order] \in Row
    BY <1>6, <1>j, JobFields DEF ReconcileExpires, TxStatus, TypeOK
  <2>2. [txn[j.order] EXCEPT !.status = "expired"] \in Row
    BY <2>1, RowUpdate
  <2> QED BY <1>6, <1>i, <2>1, <2>2 DEF ReconcileExpires, TypeOK
<1>7. CASE ConfirmSettles(w)
  BY <1>7, <1>j, <1>i, JobFields, ApplyToOrderType DEF ConfirmSettles, TypeOK
<1>8. CASE WriteOverdue(w)
  BY <1>8, <1>j, <1>i, JobFields DEF WriteOverdue, TypeOK, InvoiceStatus
<1>9. CASE WriteVoid(w)
  BY <1>9, <1>j, <1>i, JobFields DEF WriteVoid, TypeOK, InvoiceStatus
<1>10. CASE AddLateFee(w)
  <2>1. j.invoice \in Invoices /\ LateFee \in Nat
    BY <1>10, <1>j, JobFields, InvoicingAssumption DEF AddLateFee
  <2>2. total[j.invoice] + LateFee \in Nat /\ fees[j.invoice] + 1 \in Nat
    BY <2>1 DEF TypeOK
  <2> QED BY <1>10, <1>i, <2>1, <2>2 DEF AddLateFee, TypeOK
<1>11. CASE Return(w)
  BY <1>11, <1>i DEF Return, TypeOK
<1> QED BY <1>1, <1>2, <1>3, <1>4, <1>5, <1>6, <1>7, <1>8, <1>9, <1>10, <1>11 DEF Proceed

LEMMA TypeOKStep == TypeOK /\ [Next]_vars => TypeOK'
<1> SUFFICES ASSUME TypeOK, [Next]_vars PROVE TypeOK'
  OBVIOUS
<1>1. CASE \E i \in Invoices : InvoiceStep(i)
  BY <1>1, TypeOKInvoiceStep
<1>2. CASE \E o \in Orders, outcome \in {"success", "cancelled"} : GatewayResolves(o, outcome)
  BY <1>2 DEF GatewayResolves, TypeOK, GatewayStatus
<1>3. CASE \E delta \in Adjustments : AdminAdjustCredit(delta)
  BY <1>3, InvoicingAssumption DEF AdminAdjustCredit, TypeOK
<1>4. CASE \E w \in Workers : Begin(w) \/ Proceed(w)
  BY <1>4, TypeOKBegin, TypeOKProceed
<1>5. CASE UNCHANGED vars
  BY <1>5 DEF vars, TypeOK
<1> QED BY <1>1, <1>2, <1>3, <1>4, <1>5 DEF Next

(* Every reachable state is well typed: no handler, whatever it has read     *)
(* earlier, writes a value outside its column.                               *)
THEOREM TypeCorrect == Spec => []TypeOK
BY TypeOKInit, TypeOKStep, PTL DEF Spec

-----------------------------------------------------------------------------
(* Attempts and amounts.  Only opening a payment creates rows and gateway    *)
(* orders; every other step leaves which of them exist, and what they are    *)
(* worth, alone.                                                             *)

SameMoney ==
    /\ attempts' = attempts
    /\ \A o \in Orders :
          /\ txn'[o].status = "none" <=> txn[o].status = "none"
          /\ txn'[o].via = txn[o].via
          /\ txn'[o].amount = txn[o].amount
          /\ gateway'[o].status = "none" <=> gateway[o].status = "none"
          /\ gateway'[o].amount = gateway[o].amount

\* What RowsMatchGateway says of one worker's local state.
ReadsTrue(j) ==
    /\ j.pc = "record" /\ gateway[j.order].status # "none"
          => j.via = "duitku" /\ j.amount = gateway[j.order].amount
    /\ j.pc \in {"callback", "reconcile"} => txn[j.order].status # "none"
    /\ j.pc = "confirm"
          => /\ txn[j.order].status # "none"
             /\ txn[j.order].via = "manual"
             /\ txn[j.order].amount = j.amount

(* Both invariants survive a step that creates nothing and after which every *)
(* worker is where it was, or holds something true and opens no payment.     *)
LEMMA MoneyFrame ==
    ASSUME TypeOK, TypeOK', AttemptsDistinct, RowsMatchGateway, SameMoney,
           \A w \in Workers : \/ job'[w] = job[w]
                              \/ /\ job'[w].pc \notin {"inquire", "record"}
                                 /\ ReadsTrue(job'[w])
    PROVE  AttemptsDistinct' /\ RowsMatchGateway'
<1>1. \A w \in Workers : job'[w].pc \in {"inquire", "record", "callback", "reconcile", "confirm"}
                            => job'[w].order \in Orders
  BY JobFields DEF TypeOK
<1>2. AttemptsDistinct'
  BY <1>1 DEF AttemptsDistinct, SameMoney, Opening
<1>3. \A w \in Workers : ReadsTrue(job[w])
  BY DEF RowsMatchGateway, ReadsTrue
<1>4. RowsMatchGateway'
  <2>1. \A w \in Workers : ReadsTrue(job[w])'
    BY <1>1, <1>3 DEF SameMoney, ReadsTrue
  <2>2. \A o \in Orders : txn'[o].status # "none" /\ gateway'[o].status # "none"
            => txn'[o].via = "duitku" /\ txn'[o].amount = gateway'[o].amount
    BY DEF RowsMatchGateway, SameMoney
  <2> QED BY <2>1, <2>2 DEF RowsMatchGateway, ReadsTrue
<1> QED BY <1>2, <1>4

LEMMA ApplyToOrderMoney ==
    ASSUME TypeOK, NEW o \in Orders, NEW amount \in Nat, ApplyToOrder(o, amount),
           txn[o].status # "none", txn[o].amount = amount,
           UNCHANGED <<attempts, gateway>>
    PROVE  SameMoney
<1>1. txn[o] \in Row /\ txn \in [Orders -> Row]
  BY DEF TypeOK
<1> DEFINE r == [txn[o] EXCEPT !.status = "success", !.amount = amount]
<1>2. r.status = "success" /\ r.via = txn[o].via /\ r.amount = amount
  BY <1>1 DEF Row
<1>3. \/ txn' = txn
      \/ txn' = [txn EXCEPT ![o] = r]
  BY DEF ApplyToOrder
<1> HIDE DEF r
<1>4. CASE txn' = txn
  BY <1>4 DEF SameMoney
<1>5. CASE txn' = [txn EXCEPT ![o] = r]
  BY <1>1, <1>2, <1>5 DEF SameMoney
<1> QED BY <1>3, <1>4, <1>5

LEMMA MoneyInvoiceStep ==
    ASSUME TypeOK, NEW i \in Invoices, InvoiceStep(i)
    PROVE  SameMoney /\ job' = job
<1>1. CASE \E toCredit \in BOOLEAN : RefundInvoice(i, toCredit)
  <2>1. \A o \in Orders : txn[o] \in Row
    BY DEF TypeOK
  <2> QED BY <1>1, <2>1 DEF RefundInvoice, SameMoney, Row
<1>2. CASE ~ \E toCredit \in BOOLEAN : RefundInvoice(i, toCredit)
  <2>1. UNCHANGED <<attempts, txn, gateway, job>>
    BY <1>2 DEF InvoiceStep, CreateInvoice, DueDatePasses, UpdateInvoice,
                CancelInvoice, PayWithCredit, AddManualPayment, ApplyDirect
  <2> QED BY <2>1 DEF SameMoney
<1> QED BY <1>1, <1>2

LEMMA MoneyBegin ==
    ASSUME TypeOK, NEW w \in Workers, Begin(w),
           ~ \E i \in Invoices, via \in Gateways : PayInvoice(w, i, via)
    PROVE  /\ SameMoney
           /\ job'[w].pc \notin {"inquire", "record"}
           /\ ReadsTrue(job'[w])
           /\ \A v \in Workers \ {w} : job'[v] = job[v]
<1>0. job \in [Workers -> Job]
  BY DEF TypeOK
<1>1. CASE \E o \in Orders, success \in BOOLEAN : HandleCallback(w, o, success)
  <2>1. PICK o \in Orders, success \in BOOLEAN : HandleCallback(w, o, success)
    BY <1>1
  <2>2. /\ UNCHANGED <<attempts, txn, gateway>> /\ txn[o].status # "none"
        /\ job'[w].pc = "callback" /\ job'[w].order = o
        /\ \A v \in Workers \ {w} : job'[v] = job[v]
    BY <1>0, <2>1 DEF HandleCallback
  <2> QED BY <2>2 DEF SameMoney, ReadsTrue
<1>2. CASE \E o \in Orders : ReconcileOne(w, o)
  BY <1>0, <1>2 DEF ReconcileOne, SameMoney, ReadsTrue
<1>3. CASE \E o \in Orders : ConfirmManualTransaction(w, o)
  BY <1>0, <1>3 DEF ConfirmManualTransaction, SameMoney, ReadsTrue
<1>4. CASE \E i \in Invoices : MarkOverdue(w, i)
  BY <1>0, <1>4 DEF MarkOverdue, SameMoney, ReadsTrue
<1>5. CASE \E i \in Invoices : VoidInvoice(w, i)
  BY <1>0, <1>5 DEF VoidInvoice, SameMoney, ReadsTrue
<1>6. CASE \E i \in Invoices : ApplyLateFees(w, i)
  BY <1>0, <1>6 DEF ApplyLateFees, SameMoney, ReadsTrue
<1> QED BY <1>1, <1>2, <1>3, <1>4, <1>5, <1>6 DEF Begin

LEMMA MoneyProceed ==
    ASSUME TypeOK, RowsMatchGateway, NEW w \in Workers, Proceed(w),
           ~ GatewayInquiry(w), ~ RecordTransaction(w)
    PROVE  SameMoney /\ job' = [job EXCEPT ![w] = Idle]
<1> DEFINE j == job[w]
           o == job[w].order
<1>j. j \in Job /\ txn \in [Orders -> Row] /\ gateway \in [Orders -> [status : GatewayStatus, amount : Nat]]
  BY DEF TypeOK
<1>1. CASE CallbackSettles(w)
  <2>1. o \in Orders /\ txn[o].status # "none" /\ gateway[o].status # "none"
    BY <1>1, <1>j, JobFields DEF CallbackSettles, RowsMatchGateway
  <2>2. txn[o].amount = gateway[o].amount /\ gateway[o].amount \in Nat
    BY <1>j, <2>1 DEF RowsMatchGateway
  <2> QED BY <1>1, <2>1, <2>2, ApplyToOrderMoney DEF CallbackSettles
<1>2. CASE ReconcileSettles(w)
  <2>1. o \in Orders /\ txn[o].status # "none" /\ gateway[o].status # "none"
    BY <1>2, <1>j, JobFields DEF ReconcileSettles, RowsMatchGateway
  <2>2. txn[o].amount = gateway[o].amount /\ gateway[o].amount \in Nat
    BY <1>j, <2>1 DEF RowsMatchGateway
  <2> QED BY <1>2, <2>1, <2>2, ApplyToOrderMoney DEF ReconcileSettles
<1>3. CASE ConfirmSettles(w)
  <2>1. /\ o \in Orders /\ txn[o].status # "none"
        /\ txn[o].amount = j.amount /\ j.amount \in Nat
    BY <1>3, <1>j, JobFields DEF ConfirmSettles, RowsMatchGateway
  <2> QED BY <1>3, <2>1, ApplyToOrderMoney DEF ConfirmSettles
<1>4. CASE CallbackFails(w)
  <2>1. o \in Orders /\ txn[o].status # "none"
    BY <1>4, <1>j, JobFields DEF CallbackFails, RowsMatchGateway
  <2> QED BY <1>4, <1>j, <2>1 DEF CallbackFails, SameMoney, Row
<1>5. CASE ReconcileExpires(w)
  <2>1. o \in Orders /\ txn[o].status # "none"
    BY <1>5, <1>j, JobFields DEF ReconcileExpires, RowsMatchGateway
  <2> QED BY <1>5, <1>j, <2>1 DEF ReconcileExpires, SameMoney, Row
<1>6. CASE WriteOverdue(w) \/ WriteVoid(w) \/ AddLateFee(w) \/ Return(w)
  BY <1>6 DEF WriteOverdue, WriteVoid, AddLateFee, Return, SameMoney
<1> QED BY <1>1, <1>2, <1>3, <1>4, <1>5, <1>6 DEF Proceed

(* Reserving an attempt: the new order id is above every one in use.         *)
LEMMA MoneyPayInvoice ==
    ASSUME TypeOK, TypeOK', AttemptsDistinct, RowsMatchGateway,
           NEW w \in Workers, NEW i \in Invoices, NEW via \in Gateways,
           PayInvoice(w, i, via)
    PROVE  AttemptsDistinct' /\ RowsMatchGateway'
<1> DEFINE new == <<i, attempts[i] + 1>>
<1>1. /\ job' = [job EXCEPT ![w] = [pc |-> "inquire", order |-> new,
                                    via |-> via, amount |-> total[i]]]
      /\ attempts' = [attempts EXCEPT ![i] = @ + 1]
      /\ UNCHANGED <<txn, gateway>>
  BY DEF PayInvoice
<1>2. /\ attempts \in [Invoices -> 0..MaxAttempt]
      /\ job \in [Workers -> Job]
  BY DEF TypeOK
<1>3. /\ job'[w].pc = "inquire" /\ job'[w].order = new
      /\ \A v \in Workers \ {w} : job'[v] = job[v]
  BY <1>1, <1>2
<1>4. new \in Orders /\ new[1] = i /\ new[2] = attempts[i] + 1
  <2>1. attempts[i] \in 0..MaxAttempt /\ attempts[i] < MaxAttempt /\ MaxAttempt \in Nat
    BY <1>2, InvoicingAssumption DEF PayInvoice
  <2>2. attempts[i] + 1 \in 1..MaxAttempt
    BY <2>1
  <2> QED BY <2>2 DEF Orders
<1>5. \A k \in Invoices : attempts[k] <= attempts'[k]
  BY <1>1, <1>2, InvoicingAssumption
<1>6. attempts'[i] = attempts[i] + 1 /\ attempts[i] \in Nat
  BY <1>1, <1>2, InvoicingAssumption
<1>7. \A o \in Orders : /\ o[1] \in Invoices /\ o[2] \in Nat
                        /\ attempts[o[1]] \in Nat /\ attempts'[o[1]] \in Nat
  BY <1>2, OrderParts, InvoicingAssumption DEF TypeOK
<1>8. \A o \in Orders : o[2] <= attempts[o[1]] => o # new /\ o[2] <= attempts'[o[1]]
  BY <1>4, <1>5, <1>6, <1>7
<1>9. \A v \in Workers : Opening(v) => job[v].order \in Orders
  BY <1>2, JobFields DEF Opening
<1> HIDE DEF new
<1>10. txn[new].status = "none" /\ gateway[new].status = "none"
  BY <1>4, <1>8 DEF AttemptsDistinct
<1>11. AttemptsDistinct'
  <2>1. \A o \in Orders : txn'[o].status # "none" \/ gateway'[o].status # "none"
            => o[2] <= attempts'[o[1]]
    BY <1>1, <1>8 DEF AttemptsDistinct
  <2>2. new[2] <= attempts'[new[1]]
    BY <1>4, <1>6
  <2>3. \A v \in Workers \ {w} : Opening(v) =>
            /\ job[v].order \in Orders /\ job[v].order # new
            /\ job[v].order[2] <= attempts'[job[v].order[1]]
    BY <1>8, <1>9 DEF AttemptsDistinct
  <2>4. \A v \in Workers \ {w} : Opening(v)' <=> Opening(v)
    BY <1>3 DEF Opening
  <2>5. ASSUME NEW v \in Workers, Opening(v)'
        PROVE  /\ job'[v].order[2] <= attempts'[job'[v].order[1]]
               /\ txn'[job'[v].order].status = "none"
               /\ job'[v].pc = "inquire" => gateway'[job'[v].order].status = "none"
               /\ \A u \in Workers : Opening(u)' /\ u # v => job'[u].order # job'[v].order
    <3>1. CASE v = w
      BY <1>1, <1>3, <1>10, <2>2, <2>3, <2>4, <3>1
    <3>2. CASE v # w
      <4>1. job'[v] = job[v] /\ Opening(v)
        BY <1>3, <2>4, <2>5, <3>2
      <4>2. /\ txn[job[v].order].status = "none"
            /\ job[v].pc = "inquire" => gateway[job[v].order].status = "none"
            /\ \A u \in Workers : Opening(u) /\ u # v => job[u].order # job[v].order
        BY <4>1 DEF AttemptsDistinct
      <4>3. \A u \in Workers : Opening(u)' /\ u # v => job'[u].order # job'[v].order
        BY <1>3, <2>3, <2>4, <3>2, <4>1, <4>2
      <4> QED BY <1>1, <2>3, <3>2, <4>1, <4>2, <4>3
    <3> QED BY <3>1, <3>2
  <2> QED BY <2>1, <2>5 DEF AttemptsDistinct
<1>12. RowsMatchGateway'
  <2>1. \A v \in Workers \ {w} : job'[v] = job[v]
    BY <1>3
  <2>2. \A o \in Orders : txn'[o] = txn[o] /\ gateway'[o] = gateway[o]
    BY <1>1
  <2>3. \A o \in Orders : txn'[o].status # "none" /\ gateway'[o].status # "none"
            => txn'[o].via = "duitku" /\ txn'[o].amount = gateway'[o].amount
    BY <2>2 DEF RowsMatchGateway
  <2>4. \A v \in Workers : ReadsTrue(job[v])
    BY DEF RowsMatchGateway, ReadsTrue
  <2>5. ASSUME NEW v \in Workers PROVE ReadsTrue(job[v])'
    <3>1. CASE v = w
      BY <1>3, <3>1 DEF ReadsTrue
    <3>2. CASE v # w
      <4>1. txn' = txn /\ gateway' = gateway /\ job'[v] = job[v] /\ ReadsTrue(job[v])
        BY <1>1, <2>1, <2>4, <3>2
      <4> QED BY <4>1 DEF ReadsTrue
    <3> QED BY <3>1, <3>2
  <2> QED BY <2>3, <2>5 DEF RowsMatchGateway, ReadsTrue
<1> QED BY <1>11, <1>12

LEMMA MoneyInquiry ==
    ASSUME TypeOK, AttemptsDistinct, RowsMatchGateway,
           NEW w \in Workers, GatewayInquiry(w)
    PROVE  AttemptsDistinct' /\ RowsMatchGateway'
<1> DEFINE o == job[w].order
<1>1. job \in [Workers -> Job] /\ gateway \in [Orders -> [status : GatewayStatus, amount : Nat]]
  BY DEF TypeOK
<1>2. o \in Orders /\ job[w].amount \in Nat
  BY <1>1, JobFields DEF GatewayInquiry
<1>3. /\ o[2] <= attempts[o[1]] /\ txn[o].status = "none" /\ gateway[o].status = "none"
      /\ \A v \in Workers : Opening(v) /\ v # w => job[v].order # o
  BY DEF AttemptsDistinct, Opening, GatewayInquiry
<1>4. /\ job'[w].pc = "record" /\ job'[w].order = o
      /\ job'[w].via = job[w].via /\ job'[w].amount = job[w].amount
      /\ \A v \in Workers \ {w} : job'[v] = job[v]
  BY <1>1 DEF GatewayInquiry, Job
<1>5. /\ \A p \in Orders \ {o} : gateway'[p] = gateway[p]
      /\ \/ gateway'[o] = gateway[o]
         \/ job[w].via = "duitku" /\ gateway'[o] = [status |-> "pending", amount |-> job[w].amount]
      /\ UNCHANGED <<txn, attempts>>
  BY <1>1, <1>2 DEF GatewayInquiry
<1>6. \A v \in Workers : job[v].pc \in {"inquire", "record", "callback", "reconcile", "confirm"}
                            => job[v].order \in Orders
  BY <1>1, JobFields
<1> HIDE DEF o
<1>7. AttemptsDistinct'
  <2>1. \A p \in Orders : txn'[p].status # "none" \/ gateway'[p].status # "none"
            => p[2] <= attempts'[p[1]]
    BY <1>2, <1>3, <1>5 DEF AttemptsDistinct
  <2>2. \A v \in Workers : Opening(v)' <=> Opening(v)
    BY <1>4 DEF Opening, GatewayInquiry
  <2>3. \A v \in Workers : job'[v].order = job[v].order
    BY <1>4 DEF o
  <2>4. ASSUME NEW v \in Workers, Opening(v)'
        PROVE  /\ job'[v].order[2] <= attempts'[job'[v].order[1]]
               /\ txn'[job'[v].order].status = "none"
               /\ job'[v].pc = "inquire" => gateway'[job'[v].order].status = "none"
               /\ \A u \in Workers : Opening(u)' /\ u # v => job'[u].order # job'[v].order
    <3>1. job[v].order \in Orders
      BY <1>6, <2>2, <2>4 DEF Opening
    <3>2. CASE v = w
      BY <1>3, <1>4, <1>5, <2>2, <2>3, <3>2
    <3>3. CASE v # w
      <4>1. job'[v] = job[v] /\ Opening(v) /\ job[v].order # o
        BY <1>3, <1>4, <2>2, <2>4, <3>3
      <4>2. /\ job[v].order[2] <= attempts[job[v].order[1]]
            /\ txn[job[v].order].status = "none"
            /\ job[v].pc = "inquire" => gateway[job[v].order].status = "none"
            /\ \A u \in Workers : Opening(u) /\ u # v => job[u].order # job[v].order
        BY <4>1 DEF AttemptsDistinct
      <4> QED BY <1>5, <2>2, <2>3, <3>1, <4>1, <4>2
    <3> QED BY <3>2, <3>3
  <2> QED BY <2>1, <2>4 DEF AttemptsDistinct
<1>8. RowsMatchGateway'
  <2>1. \A p \in Orders : txn'[p].status # "none" /\ gateway'[p].status # "none"
            => txn'[p].via = "duitku" /\ txn'[p].amount = gateway'[p].amount
    <3>1. \A p \in Orders : txn[p].status # "none" /\ gateway[p].status # "none"
              => txn[p].via = "duitku" /\ txn[p].amount = gateway[p].amount
      BY DEF RowsMatchGateway
    <3> QED BY <1>3, <1>5, <3>1
  <2>2. \A v \in Workers : ReadsTrue(job[v])
    BY DEF RowsMatchGateway, ReadsTrue
  <2>3. ASSUME NEW v \in Workers PROVE ReadsTrue(job[v])'
    <3>1. CASE v = w
      <4>1. gateway'[o].status # "none" => job[w].via = "duitku" /\ job[w].amount = gateway'[o].amount
        BY <1>3, <1>5
      <4> QED BY <1>4, <3>1, <4>1 DEF ReadsTrue
    <3>2. CASE v # w
      <4>1. job'[v] = job[v] /\ ReadsTrue(job[v])
        BY <1>4, <2>2, <3>2
      <4>2. job[v].pc = "record" => job[v].order # o /\ job[v].order \in Orders
        BY <1>3, <1>6, <3>2 DEF Opening
      <4> QED BY <1>5, <4>1, <4>2 DEF ReadsTrue
    <3> QED BY <3>1, <3>2
  <2> QED BY <2>1, <2>3 DEF RowsMatchGateway, ReadsTrue
<1> QED BY <1>7, <1>8

LEMMA MoneyRecord ==
    ASSUME TypeOK, AttemptsDistinct, RowsMatchGateway,
           NEW w \in Workers, RecordTransaction(w)
    PROVE  AttemptsDistinct' /\ RowsMatchGateway'
<1> DEFINE o == job[w].order
<1>1. job \in [Workers -> Job] /\ txn \in [Orders -> Row]
  BY DEF TypeOK
<1>2. o \in Orders
  BY <1>1, JobFields DEF RecordTransaction
<1>3. /\ o[2] <= attempts[o[1]] /\ txn[o].status = "none"
      /\ \A v \in Workers : Opening(v) /\ v # w => job[v].order # o
      /\ gateway[o].status # "none" => job[w].via = "duitku" /\ job[w].amount = gateway[o].amount
  BY DEF AttemptsDistinct, RowsMatchGateway, Opening, RecordTransaction
<1>4. /\ job'[w] = Idle
      /\ \A v \in Workers \ {w} : job'[v] = job[v]
  BY <1>1 DEF RecordTransaction
<1>5. /\ \A p \in Orders \ {o} : txn'[p] = txn[p]
      /\ txn'[o] = [status |-> "pending", via |-> job[w].via, amount |-> job[w].amount]
      /\ UNCHANGED <<gateway, attempts>>
  BY <1>1, <1>2 DEF RecordTransaction
<1>6. \A v \in Workers : job[v].pc \in {"inquire", "record", "callback", "reconcile", "confirm"}
                            => job[v].order \in Orders
  BY <1>1, JobFields
<1> HIDE DEF o
<1>7. AttemptsDistinct'
  <2>1. \A p \in Orders : txn'[p].status # "none" \/ gateway'[p].status # "none"
            => p[2] <= attempts'[p[1]]
    BY <1>2, <1>3, <1>5 DEF AttemptsDistinct
  <2>2. \A v \in Workers : Opening(v)' => Opening(v) /\ v # w /\ job'[v] = job[v]
    BY <1>4 DEF Opening, Idle
  <2>3. ASSUME NEW v \in Workers, Opening(v)'
        PROVE  /\ job'[v].order[2] <= attempts'[job'[v].order[1]]
               /\ txn'[job'[v].order].status = "none"
               /\ job'[v].pc = "inquire" => gateway'[job'[v].order].status = "none"
               /\ \A u \in Workers : Opening(u)' /\ u # v => job'[u].order # job'[v].order
    <3>1. job'[v] = job[v] /\ Opening(v) /\ job[v].order # o
      BY <1>3, <2>2, <2>3
    <3>2. job[v].order \in Orders
      BY <1>6, <3>1 DEF Opening
    <3>3. /\ job[v].order[2] <= attempts[job[v].order[1]]
          /\ txn[job[v].order].status = "none"
          /\ job[v].pc = "inquire" => gateway[job[v].order].status = "none"
          /\ \A u \in Workers : Opening(u) /\ u # v => job[u].order # job[v].order
      BY <3>1 DEF AttemptsDistinct
    <3> QED BY <1>5, <2>2, <3>1, <3>2, <3>3
  <2> QED BY <2>1, <2>3 DEF AttemptsDistinct
<1>8. RowsMatchGateway'
  <2>1. \A p \in Orders : txn'[p].status # "none" /\ gateway'[p].status # "none"
            => txn'[p].via = "duitku" /\ txn'[p].amount = gateway'[p].amount
    <3>1. \A p \in Orders : txn[p].status # "none" /\ gateway[p].status # "none"
              => txn[p].via = "duitku" /\ txn[p].amount = gateway[p].amount
      BY DEF RowsMatchGateway
    <3> QED BY <1>3, <1>5, <3>1
  <2>2. \A v \in Workers : ReadsTrue(job[v])
    BY DEF RowsMatchGateway, ReadsTrue
  <2>3. ASSUME NEW v \in Workers PROVE ReadsTrue(job[v])'
    <3>1. CASE v = w
      <4>1. job'[v].pc = "idle"
        BY <1>4, <3>1 DEF Idle
      <4> QED BY <4>1 DEF ReadsTrue
    <3>2. CASE v # w
      <4>1. job'[v] = job[v] /\ ReadsTrue(job[v])
        BY <1>4, <2>2, <3>2
      <4>2. job[v].pc \in {"callback", "reconcile", "confirm"}
              => job[v].order # o /\ job[v].order \in Orders
        BY <1>3, <1>6, <2>2 DEF ReadsTrue
      <4> QED BY <1>5, <4>1, <4>2 DEF ReadsTrue
    <3> QED BY <3>1, <3>2
  <2> QED BY <2>1, <2>3 DEF RowsMatchGateway, ReadsTrue
<1> QED BY <1>7, <1>8

LEMMA MoneyInit == Init => AttemptsDistinct /\ RowsMatchGateway
<1> SUFFICES ASSUME Init PROVE AttemptsDistinct /\ RowsMatchGateway
  OBVIOUS
<1>1. \A w \in Workers : job[w].pc = "idle"
  BY DEF Init, Idle
<1>2. \A o \in Orders : txn[o].status = "none" /\ gateway[o].status = "none"
  BY DEF Init
<1> QED BY <1>1, <1>2 DEF AttemptsDistinct, RowsMatchGateway, Opening

LEMMA MoneyStep ==
    TypeOK /\ TypeOK' /\ AttemptsDistinct /\ RowsMatchGateway /\ [Next]_vars
        => AttemptsDistinct' /\ RowsMatchGateway'
<1> SUFFICES ASSUME TypeOK, TypeOK', AttemptsDistinct, RowsMatchGateway, [Next]_vars
             PROVE  AttemptsDistinct' /\ RowsMatchGateway'
  OBVIOUS
<1>0. ReadsTrue(Idle) /\ Idle.pc \notin {"inquire", "record"}
  BY DEF ReadsTrue, Idle
<1>1. CASE \E i \in Invoices : InvoiceStep(i)
  BY <1>1, MoneyInvoiceStep, MoneyFrame
<1>2. CASE \E o \in Orders, outcome \in {"success", "cancelled"} : GatewayResolves(o, outcome)
  <2>1. SameMoney /\ job' = job
    BY <1>2 DEF GatewayResolves, SameMoney, TypeOK
  <2> QED BY <2>1, MoneyFrame
<1>3. CASE \E delta \in Adjustments : AdminAdjustCredit(delta)
  <2>1. SameMoney /\ job' = job
    BY <1>3 DEF AdminAdjustCredit, SameMoney
  <2> QED BY <2>1, MoneyFrame
<1>4. ASSUME NEW w \in Workers, Begin(w)
      PROVE  AttemptsDistinct' /\ RowsMatchGateway'
  <2>1. CASE \E i \in Invoices, via \in Gateways : PayInvoice(w, i, via)
    BY <2>1, MoneyPayInvoice
  <2>2. CASE ~ \E i \in Invoices, via \in Gateways : PayInvoice(w, i, via)
    BY <1>4, <2>2, MoneyBegin, MoneyFrame
  <2> QED BY <2>1, <2>2
<1>5. ASSUME NEW w \in Workers, Proceed(w)
      PROVE  AttemptsDistinct' /\ RowsMatchGateway'
  <2>1. CASE GatewayInquiry(w)
    BY <2>1, MoneyInquiry
  <2>2. CASE RecordTransaction(w)
    BY <2>2, MoneyRecord
  <2>3. CASE ~ GatewayInquiry(w) /\ ~ RecordTransaction(w)
    <3>1. SameMoney /\ job' = [job EXCEPT ![w] = Idle]
      BY <1>5, <2>3, MoneyProceed
    <3>2. \A v \in Workers : job'[v] = job[v] \/ job'[v] = Idle
      BY <3>1 DEF TypeOK
    <3> QED BY <1>0, <3>1, <3>2, MoneyFrame
  <2> QED BY <2>1, <2>2, <2>3
<1>6. CASE UNCHANGED vars
  <2>1. SameMoney /\ job' = job
    BY <1>6 DEF vars, SameMoney
  <2> QED BY <2>1, MoneyFrame
<1> QED BY <1>1, <1>2, <1>3, <1>4, <1>5, <1>6 DEF Next

(* Concurrent payment attempts never share a merchant order id, and a row    *)
(* and its gateway order are always about the same amount.                   *)
THEOREM AttemptsCorrect == Spec => [](AttemptsDistinct /\ RowsMatchGateway)
BY TypeCorrect, MoneyInit, MoneyStep, PTL DEF Spec

(* What a handler has read of a transaction row is still true of the row     *)
(* when it acts on it, and rows and gateway orders never drift apart.        *)
THEOREM ReadsStayTrue == Spec => []RowsMatchGateway
BY AttemptsCorrect, PTL

-----------------------------------------------------------------------------
(* One success row, and only for money the gateway confirms. *)

\* No step but a settlement makes a success row, and a settlement makes one
\* only where UniqueSuccess allows it.
NoNewSuccess ==
    /\ \A o \in Orders : txn'[o].status = "success" => txn[o].status = "success"
    /\ \A i \in Invoices : direct'[i] = direct[i] \/ direct'[i] = NoRow

LEMMA OneSuccessFrame ==
    ASSUME OneSuccess, NoNewSuccess
    PROVE  OneSuccess'
BY DEF OneSuccess, NoNewSuccess, SuccessRows, OrdersOf

LEMMA OneSuccessToOrder ==
    ASSUME TypeOK, OneSuccess, NEW o \in Orders, NEW amount \in Nat,
           ApplyToOrder(o, amount)
    PROVE  OneSuccess'
<1>1. CASE txn[o].status = "success"
  BY <1>1, OneSuccessFrame DEF ApplyToOrder, NoNewSuccess
<1>2. CASE txn[o].status # "success"
  <2>1. /\ direct' = direct /\ direct[o[1]] = NoRow
        /\ \A p \in OrdersOf(o[1]) \ {o} : txn[p].status # "success"
        /\ \A p \in Orders \ {o} : txn'[p] = txn[p]
    BY <1>2 DEF ApplyToOrder, UniqueSuccess, TypeOK
  <2> QED BY <2>1 DEF OneSuccess, SuccessRows, OrdersOf
<1> QED BY <1>1, <1>2

LEMMA OneSuccessDirect ==
    ASSUME TypeOK, OneSuccess, NEW i \in Invoices, NEW amount, NEW balance,
           ApplyDirect(i, amount, balance)
    PROVE  OneSuccess'
<1>1. /\ txn' = txn
      /\ \A p \in OrdersOf(i) : txn[p].status # "success"
      /\ \A k \in Invoices \ {i} : direct'[k] = direct[k]
  BY DEF ApplyDirect, UniqueSuccess, TypeOK
<1> QED BY <1>1 DEF OneSuccess, SuccessRows, OrdersOf

LEMMA OneSuccessStep == TypeOK /\ OneSuccess /\ [Next]_vars => OneSuccess'
<1> SUFFICES ASSUME TypeOK, OneSuccess, [Next]_vars
             PROVE  OneSuccess'
  OBVIOUS
<1>t. /\ txn \in [Orders -> Row] /\ job \in [Workers -> Job]
      /\ direct \in [Invoices -> Nat \cup {NoRow}]
      /\ gateway \in [Orders -> [status : GatewayStatus, amount : Nat]]
  BY DEF TypeOK
<1>1. ASSUME NEW i \in Invoices, InvoiceStep(i)
      PROVE  OneSuccess'
  <2>1. CASE PayWithCredit(i)
    BY <2>1, OneSuccessDirect DEF PayWithCredit
  <2>2. CASE \E amount \in Tenders : AddManualPayment(i, amount)
    BY <2>2, OneSuccessDirect DEF AddManualPayment
  <2>3. CASE \E toCredit \in BOOLEAN : RefundInvoice(i, toCredit)
    <3>1. \A o \in Orders : txn'[o].status = "success" => txn[o].status = "success"
      BY <2>3, <1>t DEF RefundInvoice, Row
    <3>2. \A k \in Invoices : direct'[k] = direct[k] \/ direct'[k] = NoRow
      BY <2>3, <1>t DEF RefundInvoice
    <3> QED BY <3>1, <3>2, OneSuccessFrame DEF NoNewSuccess
  <2>4. CASE \/ CreateInvoice(i) \/ DueDatePasses(i) \/ CancelInvoice(i)
             \/ \E past \in BOOLEAN : UpdateInvoice(i, past)
    <3>1. UNCHANGED <<txn, direct>>
      BY <2>4 DEF CreateInvoice, DueDatePasses, CancelInvoice, UpdateInvoice
    <3> QED BY <3>1, OneSuccessFrame DEF NoNewSuccess
  <2> QED BY <1>1, <2>1, <2>2, <2>3, <2>4 DEF InvoiceStep
<1>2. CASE \/ \E o \in Orders, outcome \in {"success", "cancelled"} : GatewayResolves(o, outcome)
           \/ \E delta \in Adjustments : AdminAdjustCredit(delta)
           \/ \E w \in Workers : Begin(w)
           \/ UNCHANGED vars
  <2>1. UNCHANGED <<txn, direct>>
    BY <1>2 DEF GatewayResolves, AdminAdjustCredit, Begin, PayInvoice, HandleCallback,
         ReconcileOne, ConfirmManualTransaction, MarkOverdue, VoidInvoice, ApplyLateFees, vars
  <2> QED BY <2>1, OneSuccessFrame DEF NoNewSuccess
<1>3. ASSUME NEW w \in Workers, Proceed(w)
      PROVE  OneSuccess'
  <2>1. CASE CallbackSettles(w) \/ ReconcileSettles(w) \/ ConfirmSettles(w)
    <3>1. /\ job[w].order \in Orders /\ gateway[job[w].order].amount \in Nat
          /\ job[w].pc = "confirm" => job[w].amount \in Nat
      BY <2>1, <1>t, JobFields DEF CallbackSettles, ReconcileSettles, ConfirmSettles
    <3> QED BY <2>1, <3>1, OneSuccessToOrder DEF CallbackSettles, ReconcileSettles, ConfirmSettles
  <2>2. CASE CallbackFails(w) \/ ReconcileExpires(w)
    <3>1. job[w].order \in Orders
      BY <2>2, <1>t, JobFields DEF CallbackFails, ReconcileExpires
    <3>2. \A o \in Orders : txn'[o].status = "success" => txn[o].status = "success"
      BY <2>2, <3>1, <1>t DEF CallbackFails, ReconcileExpires, Row
    <3> QED BY <2>2, <3>2, OneSuccessFrame DEF CallbackFails, ReconcileExpires, NoNewSuccess
  <2>3. CASE RecordTransaction(w)
    <3>1. job[w].order \in Orders
      BY <2>3, <1>t, JobFields DEF RecordTransaction
    <3>2. \A o \in Orders : txn'[o].status = "success" => txn[o].status = "success"
      BY <2>3, <3>1, <1>t DEF RecordTransaction, Row
    <3> QED BY <2>3, <3>2, OneSuccessFrame DEF RecordTransaction, NoNewSuccess
  <2>4. CASE GatewayInquiry(w) \/ WriteOverdue(w) \/ WriteVoid(w) \/ AddLateFee(w) \/ Return(w)
    <3>1. UNCHANGED <<txn, direct>>
      BY <2>4 DEF GatewayInquiry, WriteOverdue, WriteVoid, AddLateFee, Return
    <3> QED BY <3>1, OneSuccessFrame DEF NoNewSuccess
  <2> QED BY <1>3, <2>1, <2>2, <2>3, <2>4 DEF Proceed
<1> QED BY <1>1, <1>2, <1>3 DEF Next

(* However callbacks, reconciliation, administrators and credit payments     *)
(* interleave, an invoice never has two successful transactions.             *)
THEOREM OnePayment == Spec => []OneSuccess
<1>1. Init => OneSuccess
  BY DEF Init, OneSuccess, SuccessRows, OrdersOf
<1> QED BY <1>1, TypeCorrect, OneSuccessStep, PTL DEF Spec

-----------------------------------------------------------------------------
(* Success rows are confirmed and stay; a paid invoice is covered.           *)
(* The inductive invariant behind the rest: what the theorems above give.    *)

Ledger == TypeOK /\ AttemptsDistinct /\ RowsMatchGateway

Closed == {"success", "refunded"}

\* What one step may do to a row and its gateway order.
RowStep(o) ==
    \/ txn'[o] = txn[o] /\ gateway'[o] = gateway[o]
    \/ txn'[o] = txn[o] /\ gateway[o].status # "success"
          /\ (gateway[o].status = "none" => txn[o].status = "none")
    \/ txn[o].status = "none" /\ txn'[o].status = "pending" /\ gateway'[o] = gateway[o]
    \/ /\ gateway'[o] = gateway[o] /\ txn'[o].via = txn[o].via
       /\ txn'[o].status = "success" /\ txn[o].amount = txn'[o].amount
       /\ gateway[o].status = "success" \/ txn[o].via = "manual"
    \/ /\ gateway'[o] = gateway[o] /\ gateway[o].status = "cancelled"
       /\ txn[o].status # "none" /\ txn'[o].via = txn[o].via
       /\ txn'[o].status \in {"failed", "expired"}
    \/ /\ gateway'[o] = gateway[o] /\ txn'[o].via = txn[o].via
       /\ status[o[1]] = "paid" /\ status'[o[1]] = "refunded"
       /\ txn[o].status = "success" /\ txn'[o].status = "refunded"

LEMMA SettleRow ==
    ASSUME TypeOK, NEW o \in Orders, NEW amount \in Nat, ApplyToOrder(o, amount),
           txn[o].amount = amount, UNCHANGED gateway,
           gateway[o].status = "success" \/ txn[o].via = "manual"
    PROVE  \A p \in Orders : RowStep(p)
<1>1. txn[o] \in Row /\ txn \in [Orders -> Row]
  BY DEF TypeOK
<1> DEFINE r == [txn[o] EXCEPT !.status = "success", !.amount = amount]
<1>2. r.status = "success" /\ r.via = txn[o].via /\ r.amount = amount
  BY <1>1 DEF Row
<1>3. \/ txn' = txn
      \/ txn' = [txn EXCEPT ![o] = r]
  BY DEF ApplyToOrder
<1> HIDE DEF r
<1>4. CASE txn' = txn
  BY <1>4 DEF RowStep
<1>5. CASE txn' = [txn EXCEPT ![o] = r]
  BY <1>1, <1>2, <1>5 DEF RowStep
<1> QED BY <1>3, <1>4, <1>5

LEMMA RowSteps ==
    ASSUME Ledger, [Next]_vars
    PROVE  \A o \in Orders : RowStep(o)
<1>t. /\ txn \in [Orders -> Row] /\ job \in [Workers -> Job]
      /\ gateway \in [Orders -> [status : GatewayStatus, amount : Nat]]
  BY DEF Ledger, TypeOK
<1>1. ASSUME NEW i \in Invoices, InvoiceStep(i)
      PROVE  \A o \in Orders : RowStep(o)
  <2>1. CASE \E toCredit \in BOOLEAN : RefundInvoice(i, toCredit)
    <3>1. /\ status[i] = "paid" /\ status'[i] = "refunded" /\ gateway' = gateway
      BY <2>1 DEF RefundInvoice, CanTransition, InvoiceTransitions, Ledger, TypeOK
    <3>2. \A o \in Orders : \/ txn'[o] = txn[o]
                            \/ /\ o[1] = i /\ txn[o].status = "success"
                               /\ txn'[o] = [txn[o] EXCEPT !.status = "refunded"]
      BY <2>1 DEF RefundInvoice
    <3>3. \A o \in Orders : /\ [txn[o] EXCEPT !.status = "refunded"].status = "refunded"
                            /\ [txn[o] EXCEPT !.status = "refunded"].via = txn[o].via
      BY <1>t DEF Row
    <3> QED BY <3>1, <3>2, <3>3 DEF RowStep
  <2>2. CASE ~ \E toCredit \in BOOLEAN : RefundInvoice(i, toCredit)
    <3>1. UNCHANGED <<txn, gateway>>
      BY <1>1, <2>2 DEF InvoiceStep, CreateInvoice, DueDatePasses, CancelInvoice,
           UpdateInvoice, PayWithCredit, AddManualPayment, ApplyDirect
    <3> QED BY <3>1 DEF RowStep
  <2> QED BY <2>1, <2>2
<1>2. ASSUME NEW o \in Orders, NEW outcome \in {"success", "cancelled"},
             GatewayResolves(o, outcome)
      PROVE  \A p \in Orders : RowStep(p)
  BY <1>2, <1>t DEF GatewayResolves, RowStep
<1>3. CASE \/ \E delta \in Adjustments : AdminAdjustCredit(delta)
           \/ \E w \in Workers : Begin(w)
           \/ UNCHANGED vars
  <2>1. UNCHANGED <<txn, gateway>>
    BY <1>3 DEF AdminAdjustCredit, Begin, PayInvoice, HandleCallback,
         ReconcileOne, ConfirmManualTransaction, MarkOverdue, VoidInvoice, ApplyLateFees, vars
  <2> QED BY <2>1 DEF RowStep
<1>4. ASSUME NEW w \in Workers, Proceed(w)
      PROVE  \A p \in Orders : RowStep(p)
  <2> DEFINE o == job[w].order
  <2>1. CASE CallbackSettles(w) \/ ReconcileSettles(w)
    <3>1. o \in Orders /\ gateway[o].status = "success" /\ txn[o].status # "none"
      BY <2>1, <1>t, JobFields DEF CallbackSettles, ReconcileSettles, Ledger, RowsMatchGateway
    <3>2. txn[o].amount = gateway[o].amount /\ gateway[o].amount \in Nat
      BY <1>t, <3>1 DEF Ledger, RowsMatchGateway
    <3> QED BY <2>1, <3>1, <3>2, SettleRow DEF CallbackSettles, ReconcileSettles, Ledger
  <2>2. CASE ConfirmSettles(w)
    <3>1. /\ o \in Orders /\ txn[o].via = "manual"
          /\ txn[o].amount = job[w].amount /\ job[w].amount \in Nat
      BY <2>2, <1>t, JobFields DEF ConfirmSettles, Ledger, RowsMatchGateway
    <3> QED BY <2>2, <3>1, SettleRow DEF ConfirmSettles, Ledger
  <2>3. CASE CallbackFails(w) \/ ReconcileExpires(w)
    <3>1. o \in Orders /\ gateway[o].status = "cancelled" /\ gateway' = gateway /\ txn[o].status # "none"
      BY <2>3, <1>t, JobFields DEF CallbackFails, ReconcileExpires, Ledger, RowsMatchGateway
    <3>2. /\ \A p \in Orders \ {o} : txn'[p] = txn[p]
          /\ txn'[o].status \in {"failed", "expired"} /\ txn'[o].via = txn[o].via
      BY <2>3, <3>1, <1>t DEF CallbackFails, ReconcileExpires, Row
    <3> QED BY <3>1, <3>2 DEF RowStep
  <2>4. CASE RecordTransaction(w)
    <3>1. o \in Orders /\ txn[o].status = "none" /\ gateway' = gateway
      BY <2>4, <1>t, JobFields DEF RecordTransaction, Ledger, AttemptsDistinct, Opening
    <3>2. /\ \A p \in Orders \ {o} : txn'[p] = txn[p]
          /\ txn'[o].status = "pending"
      BY <2>4, <3>1, <1>t DEF RecordTransaction
    <3> QED BY <3>1, <3>2 DEF RowStep
  <2>5. CASE GatewayInquiry(w)
    <3>1. /\ o \in Orders /\ txn[o].status = "none" /\ txn' = txn
          /\ gateway[o].status = "none"
      BY <2>5, <1>t, JobFields DEF GatewayInquiry, Ledger, AttemptsDistinct, Opening
    <3>2. \A p \in Orders \ {o} : gateway'[p] = gateway[p]
      BY <2>5, <3>1, <1>t DEF GatewayInquiry
    <3> QED BY <3>1, <3>2 DEF RowStep
  <2>6. CASE WriteOverdue(w) \/ WriteVoid(w) \/ AddLateFee(w) \/ Return(w)
    <3>1. UNCHANGED <<txn, gateway>>
      BY <2>6 DEF WriteOverdue, WriteVoid, AddLateFee, Return
    <3> QED BY <3>1 DEF RowStep
  <2> QED BY <1>4, <2>1, <2>2, <2>3, <2>4, <2>5, <2>6 DEF Proceed
<1> QED BY <1>1, <1>2, <1>3, <1>4 DEF Next

LEMMA ConfirmedStep ==
    Ledger /\ SuccessIsConfirmed /\ [Next]_vars => SuccessIsConfirmed'
BY RowSteps DEF RowStep, SuccessIsConfirmed

(* A Duitku transaction is only ever successful when the gateway confirms    *)
(* that it was paid, whatever a callback says.                               *)
THEOREM Confirmed == Spec => []SuccessIsConfirmed
<1>1. Init => SuccessIsConfirmed
  BY DEF Init, SuccessIsConfirmed
<1> QED BY <1>1, TypeCorrect, AttemptsCorrect, ConfirmedStep, PTL DEF Spec, Ledger

\* A settled row is not overwritten: only the gateway's "cancelled" does that.
SettledStep ==
    \A o \in Orders : txn[o].status \in Closed => txn'[o].status \in Closed

LEMMA SettledRowsStep ==
    Ledger /\ SuccessIsConfirmed /\ [Next]_vars => SettledStep
BY RowSteps DEF RowStep, SuccessIsConfirmed, SettledStep, Closed, Ledger, RowsMatchGateway

(* The stale whole-row Update of a failing callback or an expiring           *)
(* reconciliation never undoes a settled transaction.                        *)
THEOREM RowsStaySettled == Spec => SettledRowsStay
<1>1. Ledger /\ SuccessIsConfirmed /\ [Next]_vars => [SettledStep]_vars
  BY SettledRowsStep
<1>2. [](Ledger /\ SuccessIsConfirmed) /\ [][Next]_vars => [][SettledStep]_vars
  BY <1>1, PTL
<1>3. Spec => [](Ledger /\ SuccessIsConfirmed) /\ [][Next]_vars
  BY TypeCorrect, AttemptsCorrect, Confirmed, PTL DEF Spec, Ledger
<1> QED BY <1>2, <1>3 DEF SettledRowsStay, SettledStep, Closed

\* What one step may do to an invoice that it leaves paid.
CoverStep(k) ==
    \/ status'[k] # "paid"
    \/ status[k] = "paid" /\ total'[k] = total[k] /\ direct'[k] = direct[k]
    \/ direct'[k] >= total'[k]
    \/ \E o \in OrdersOf(k) : txn'[o].status = "success" /\ txn'[o].amount >= total'[k]

LEMMA CoverToOrder ==
    ASSUME TypeOK, NEW o \in Orders, NEW amount \in Nat, ApplyToOrder(o, amount),
           txn[o].amount = amount, UNCHANGED total
    PROVE  \A k \in Invoices : CoverStep(k)
<1>1. /\ txn[o] \in Row /\ txn \in [Orders -> Row] /\ status \in [Invoices -> InvoiceStatus]
      /\ o[1] \in Invoices
  BY OrderParts DEF TypeOK
<1>2. /\ amount >= total[o[1]] /\ total' = total /\ direct' = direct
      /\ status' = [status EXCEPT ![o[1]] = "paid"]
  BY DEF ApplyToOrder, MarkPaid
<1>3. txn'[o].status = "success" /\ txn'[o].amount = amount
  BY <1>1 DEF ApplyToOrder, Row
<1>4. ASSUME NEW k \in Invoices, k # o[1] PROVE CoverStep(k)
  BY <1>1, <1>2, <1>4 DEF CoverStep
<1>5. CoverStep(o[1])
  BY <1>2, <1>3 DEF CoverStep, OrdersOf
<1> QED BY <1>4, <1>5

LEMMA CoverDirect ==
    ASSUME TypeOK, NEW i \in Invoices, NEW amount, NEW balance,
           ApplyDirect(i, amount, balance), UNCHANGED total
    PROVE  \A k \in Invoices : CoverStep(k)
BY DEF TypeOK, ApplyDirect, MarkPaid, CoverStep

LEMMA CoverSteps ==
    ASSUME Ledger, [Next]_vars
    PROVE  \A k \in Invoices : CoverStep(k)
<1>t. /\ TypeOK /\ txn \in [Orders -> Row] /\ job \in [Workers -> Job]
      /\ status \in [Invoices -> InvoiceStatus]
      /\ total \in [Invoices -> Nat]
      /\ direct \in [Invoices -> Nat \cup {NoRow}]
      /\ gateway \in [Orders -> [status : GatewayStatus, amount : Nat]]
  BY DEF Ledger, TypeOK
<1>1. ASSUME NEW i \in Invoices, InvoiceStep(i)
      PROVE  \A k \in Invoices : CoverStep(k)
  <2>1. CASE PayWithCredit(i)
    BY <1>t, <2>1, CoverDirect DEF PayWithCredit
  <2>2. CASE \E amount \in Tenders : AddManualPayment(i, amount)
    BY <1>t, <2>2, CoverDirect DEF AddManualPayment
  <2>3. CASE \/ CreateInvoice(i) \/ DueDatePasses(i) \/ CancelInvoice(i)
             \/ \E past \in BOOLEAN : UpdateInvoice(i, past)
             \/ \E toCredit \in BOOLEAN : RefundInvoice(i, toCredit)
    BY <1>t, <2>3 DEF CreateInvoice, DueDatePasses, CancelInvoice, UpdateInvoice, RefundInvoice, CoverStep
  <2> QED BY <1>1, <2>1, <2>2, <2>3 DEF InvoiceStep
<1>2. CASE \/ \E o \in Orders, outcome \in {"success", "cancelled"} : GatewayResolves(o, outcome)
           \/ \E delta \in Adjustments : AdminAdjustCredit(delta)
           \/ \E w \in Workers : Begin(w)
           \/ UNCHANGED vars
  <2>1. UNCHANGED <<status, total, direct>>
    BY <1>2 DEF GatewayResolves, AdminAdjustCredit, Begin, PayInvoice, HandleCallback,
         ReconcileOne, ConfirmManualTransaction, MarkOverdue, VoidInvoice, ApplyLateFees, vars
  <2> QED BY <2>1 DEF CoverStep
<1>3. ASSUME NEW w \in Workers, Proceed(w)
      PROVE  \A k \in Invoices : CoverStep(k)
  <2> DEFINE o == job[w].order
  <2>1. CASE CallbackSettles(w) \/ ReconcileSettles(w)
    <3>1. o \in Orders /\ gateway[o].status = "success" /\ txn[o].status # "none"
      BY <2>1, <1>t, JobFields DEF CallbackSettles, ReconcileSettles, Ledger, RowsMatchGateway
    <3>2. txn[o].amount = gateway[o].amount /\ gateway[o].amount \in Nat
      BY <1>t, <3>1 DEF Ledger, RowsMatchGateway
    <3> QED BY <1>t, <2>1, <3>1, <3>2, CoverToOrder DEF CallbackSettles, ReconcileSettles
  <2>2. CASE ConfirmSettles(w)
    <3>1. /\ o \in Orders /\ txn[o].amount = job[w].amount /\ job[w].amount \in Nat
      BY <2>2, <1>t, JobFields DEF ConfirmSettles, Ledger, RowsMatchGateway
    <3> QED BY <1>t, <2>2, <3>1, CoverToOrder DEF ConfirmSettles
  <2>3. CASE WriteOverdue(w) \/ WriteVoid(w)
    <3>1. job[w].invoice \in Invoices
      BY <2>3, <1>t, JobFields DEF WriteOverdue, WriteVoid
    <3> QED BY <1>t, <2>3, <3>1 DEF WriteOverdue, WriteVoid, CoverStep
  <2>4. CASE AddLateFee(w)
    <3>1. job[w].invoice \in Invoices /\ status[job[w].invoice] = "overdue" /\ status' = status
      BY <2>4, <1>t, JobFields DEF AddLateFee
    <3>2. direct' = direct /\ \A k \in Invoices \ {job[w].invoice} : total'[k] = total[k]
      BY <2>4, <3>1, <1>t DEF AddLateFee
    <3> QED BY <3>1, <3>2 DEF CoverStep
  <2>5. CASE \/ CallbackFails(w) \/ ReconcileExpires(w) \/ RecordTransaction(w)
             \/ GatewayInquiry(w) \/ Return(w)
    <3>1. UNCHANGED <<status, total, direct>>
      BY <2>5 DEF CallbackFails, ReconcileExpires, RecordTransaction, GatewayInquiry, Return
    <3> QED BY <3>1 DEF CoverStep
  <2> QED BY <1>3, <2>1, <2>2, <2>3, <2>4, <2>5 DEF Proceed
<1> QED BY <1>1, <1>2, <1>3 DEF Next

LEMMA CoveredStep ==
    ASSUME Ledger, SuccessIsConfirmed, PaidIsCovered, [Next]_vars
    PROVE  PaidIsCovered'
<1> SUFFICES ASSUME NEW k \in Invoices, status'[k] = "paid"
             PROVE  \/ direct'[k] >= total'[k]
                    \/ \E o \in OrdersOf(k) : txn'[o].status = "success" /\ txn'[o].amount >= total'[k]
  BY DEF PaidIsCovered, SuccessRows, OrdersOf
<1>1. CASE status[k] = "paid" /\ total'[k] = total[k] /\ direct'[k] = direct[k]
  <2>1. CASE direct[k] >= total[k]
    BY <1>1, <2>1
  <2>2. CASE \E o \in SuccessRows(k) : txn[o].amount >= total[k]
    <3>1. PICK o \in OrdersOf(k) : txn[o].status = "success" /\ txn[o].amount >= total[k]
      BY <2>2 DEF SuccessRows
    <3>2. o \in Orders /\ o[1] = k
      BY DEF OrdersOf
    <3>3. RowStep(o) /\ txn'[o].status \in Closed
      BY <3>1, <3>2, RowSteps, SettledRowsStep DEF SettledStep, Closed
    <3>4. txn'[o].status = "success" /\ txn'[o].amount = txn[o].amount
      BY <3>1, <3>2, <3>3 DEF RowStep, Closed
    <3> QED BY <1>1, <3>1, <3>4
  <2> QED BY <1>1, <2>1, <2>2 DEF PaidIsCovered
<1> QED BY <1>1, CoverSteps DEF CoverStep

(* Every paid invoice is backed by a success row that covers its total, late *)
(* fees included, although stale status writes may interleave anywhere.      *)
THEOREM Covered == Spec => []PaidIsCovered
<1>1. Init => PaidIsCovered
  BY DEF Init, PaidIsCovered
<1> QED BY <1>1, TypeCorrect, AttemptsCorrect, Confirmed, CoveredStep, PTL DEF Spec, Ledger

-----------------------------------------------------------------------------
(* When no status write is stale, the payment core implements Settlement.    *)

\* The steps of Settlement, as seen in the concrete variables.
PayStep(i) ==
    /\ status[i] \in {"unpaid", "overdue"}
    /\ status' = [status EXCEPT ![i] = "paid"]
    /\ settled' = [settled EXCEPT ![i] = @ + 1]

PlainStep(i) ==
    /\ settled' = settled
    /\ \/ status[i] = "none" /\ status' = [status EXCEPT ![i] = "unpaid"]
       \/ Payable(i) /\ status' = [status EXCEPT ![i] = "overdue"]
       \/ Payable(i) /\ status' = [status EXCEPT ![i] = "cancelled"]
       \/ status[i] = "paid" /\ status' = [status EXCEPT ![i] = "refunded"]

LEMMA MarkPaidStep ==
    ASSUME TypeOK, NEW i \in Invoices, NEW amount, NEW balance, MarkPaid(i, amount, balance)
    PROVE  PayStep(i)
BY DEF MarkPaid, ProcessPaid, CanTransition, InvoiceTransitions, PayStep, TypeOK

LEMMA StatusSteps ==
    ASSUME TypeOK, StatusRaces = FALSE, [Next]_vars
    PROVE  \/ UNCHANGED <<status, settled>>
           \/ \E i \in Invoices : PayStep(i) \/ PlainStep(i)
<1>t. /\ job \in [Workers -> Job] /\ status \in [Invoices -> InvoiceStatus]
  BY DEF TypeOK
<1>1. ASSUME NEW i \in Invoices, InvoiceStep(i)
      PROVE  UNCHANGED <<status, settled>> \/ PayStep(i) \/ PlainStep(i)
  <2>1. CASE PayWithCredit(i)
    BY <2>1, MarkPaidStep DEF PayWithCredit, ApplyDirect
  <2>2. CASE \E amount \in Tenders : AddManualPayment(i, amount)
    BY <2>2, MarkPaidStep DEF AddManualPayment, ApplyDirect
  <2>3. CASE DueDatePasses(i) \/ \E past \in BOOLEAN : UpdateInvoice(i, past)
    BY <2>3 DEF DueDatePasses, UpdateInvoice
  <2>4. CASE CreateInvoice(i)
    BY <2>4 DEF CreateInvoice, PlainStep
  <2>5. CASE CancelInvoice(i)
    BY <2>5 DEF CancelInvoice, CanTransition, InvoiceTransitions, Payable, PlainStep
  <2>6. CASE \E toCredit \in BOOLEAN : RefundInvoice(i, toCredit)
    BY <2>6 DEF RefundInvoice, CanTransition, InvoiceTransitions, PlainStep
  <2> QED BY <1>1, <2>1, <2>2, <2>3, <2>4, <2>5, <2>6 DEF InvoiceStep
<1>2. CASE \/ \E o \in Orders, outcome \in {"success", "cancelled"} : GatewayResolves(o, outcome)
           \/ \E delta \in Adjustments : AdminAdjustCredit(delta)
           \/ \E w \in Workers : Begin(w)
           \/ UNCHANGED vars
  BY <1>2 DEF GatewayResolves, AdminAdjustCredit, Begin, PayInvoice, HandleCallback,
       ReconcileOne, ConfirmManualTransaction, MarkOverdue, VoidInvoice, ApplyLateFees, vars
<1>3. ASSUME NEW w \in Workers, Proceed(w)
      PROVE  \/ UNCHANGED <<status, settled>>
             \/ \E i \in Invoices : PayStep(i) \/ PlainStep(i)
  <2>1. CASE CallbackSettles(w) \/ ReconcileSettles(w) \/ ConfirmSettles(w)
    <3>1. job[w].order \in Orders
      BY <2>1, <1>t, JobFields DEF CallbackSettles, ReconcileSettles, ConfirmSettles
    <3>2. job[w].order[1] \in Invoices
      BY <3>1, OrderParts
    <3> QED BY <2>1, <3>2, MarkPaidStep
            DEF CallbackSettles, ReconcileSettles, ConfirmSettles, ApplyToOrder
  <2>2. CASE WriteOverdue(w) \/ WriteVoid(w)
    <3>1. job[w].invoice \in Invoices
      BY <2>2, <1>t, JobFields DEF WriteOverdue, WriteVoid
    <3> QED BY <2>2, <3>1 DEF WriteOverdue, WriteVoid, StillOpen, PlainStep
  <2>3. CASE \/ AddLateFee(w) \/ CallbackFails(w) \/ ReconcileExpires(w)
             \/ RecordTransaction(w) \/ GatewayInquiry(w) \/ Return(w)
    BY <2>3 DEF AddLateFee, CallbackFails, ReconcileExpires, RecordTransaction, GatewayInquiry, Return
  <2> QED BY <1>3, <2>1, <2>2, <2>3 DEF Proceed
<1> QED BY <1>1, <1>2, <1>3 DEF Next

LEMMA SettledOnceStep ==
    ASSUME TypeOK, StatusRaces = FALSE, SettledOnce, [Next]_vars
    PROVE  SettledOnce'
<1>1. CASE UNCHANGED <<status, settled>>
  BY <1>1 DEF SettledOnce
<1>2. ASSUME NEW i \in Invoices, PayStep(i)
      PROVE  SettledOnce'
  BY <1>2 DEF PayStep, SettledOnce, TypeOK
<1>3. ASSUME NEW i \in Invoices, PlainStep(i)
      PROVE  SettledOnce'
  BY <1>3 DEF PlainStep, Payable, SettledOnce, TypeOK
<1> QED BY <1>1, <1>2, <1>3, StatusSteps

(* If no writer of an invoice's status works from a stale read, the effects  *)
(* of paying an invoice run exactly once, in every interleaving of repeated  *)
(* callbacks, reconciliation, administrators and credit payments.            *)
THEOREM PaidOnce == StatusRaces = FALSE => (Spec => []SettledOnce)
<1>1. Init => SettledOnce
  BY DEF Init, SettledOnce
<1>2. StatusRaces = FALSE => (TypeOK /\ SettledOnce /\ [Next]_vars => SettledOnce')
  BY SettledOnceStep
<1> SUFFICES ASSUME StatusRaces = FALSE PROVE Spec => []SettledOnce
  OBVIOUS
<1>3. TypeOK /\ SettledOnce /\ [Next]_vars => SettledOnce'
  BY <1>2
<1> QED BY <1>1, <1>3, TypeCorrect, PTL DEF Spec

phases == [i \in Invoices |-> Phase(i)]

LEMMA PhaseMove ==
    ASSUME TypeOK, NEW i \in Invoices, NEW to \in InvoiceStatus \ {"none"},
           status' = [status EXCEPT ![i] = to]
    PROVE  phases' = [phases EXCEPT ![i] = IF to \in {"unpaid", "overdue"} THEN "open" ELSE to]
<1>1. status'[i] = to /\ \A k \in Invoices \ {i} : status'[k] = status[k]
  BY DEF TypeOK
<1>2. \A k \in Invoices \ {i} : Phase(k)' = Phase(k)
  BY <1>1 DEF Phase, Payable
<1>3. Phase(i)' = IF to \in {"unpaid", "overdue"} THEN "open" ELSE to
  BY <1>1 DEF Phase, Payable
<1> QED BY <1>2, <1>3 DEF phases

LEMMA AbstractStep ==
    ASSUME TypeOK, StatusRaces = FALSE, [Next]_vars
    PROVE  [Abstract!Next]_<<phases, settled>>
<1>1. CASE UNCHANGED <<status, settled>>
  BY <1>1 DEF phases, Phase, Payable
<1>2. ASSUME NEW i \in Invoices, PayStep(i)
      PROVE  Abstract!Next
  <2>1. phases' = [phases EXCEPT ![i] = "paid"] /\ phases[i] = "open"
    BY <1>2, PhaseMove DEF PayStep, phases, Phase, Payable, InvoiceStatus
  <2> QED BY <1>2, <2>1 DEF PayStep, phases, Abstract!Next, Abstract!Pay, Abstract!Move
<1>3. ASSUME NEW i \in Invoices, PlainStep(i)
      PROVE  [Abstract!Next]_<<phases, settled>>
  <2>0. settled' = settled
    BY <1>3 DEF PlainStep
  <2>1. CASE status[i] = "none" /\ status' = [status EXCEPT ![i] = "unpaid"]
    <3>1. phases' = [phases EXCEPT ![i] = "open"] /\ phases[i] = "absent"
      BY <2>1, PhaseMove DEF phases, Phase, InvoiceStatus
    <3> QED BY <2>0, <3>1 DEF phases, Abstract!Next, Abstract!Open, Abstract!Move
  <2>2. CASE Payable(i) /\ status' = [status EXCEPT ![i] = "overdue"]
    <3>1. \A k \in Invoices : Phase(k)' = Phase(k)
      BY <2>2 DEF TypeOK, Phase, Payable
    <3> QED BY <2>0, <3>1 DEF phases
  <2>3. CASE Payable(i) /\ status' = [status EXCEPT ![i] = "cancelled"]
    <3>1. phases' = [phases EXCEPT ![i] = "cancelled"] /\ phases[i] = "open"
      BY <2>3, PhaseMove DEF phases, Phase, Payable, InvoiceStatus
    <3> QED BY <2>0, <3>1 DEF phases, Abstract!Next, Abstract!Cancel, Abstract!Move
  <2>4. CASE status[i] = "paid" /\ status' = [status EXCEPT ![i] = "refunded"]
    <3>1. phases' = [phases EXCEPT ![i] = "refunded"] /\ phases[i] = "paid"
      BY <2>4, PhaseMove DEF phases, Phase, Payable, InvoiceStatus
    <3> QED BY <2>0, <3>1 DEF phases, Abstract!Next, Abstract!Refund, Abstract!Move
  <2> QED BY <1>3, <2>1, <2>2, <2>3, <2>4 DEF PlainStep
<1> QED BY <1>1, <1>2, <1>3, StatusSteps

(* If no writer of an invoice's status works from a stale read, the payment  *)
(* core implements Settlement: one payment, with its effects, per invoice.   *)
THEOREM Refinement == StatusRaces = FALSE => (Spec => ImplementsSettlement)
<1> SUFFICES ASSUME StatusRaces = FALSE PROVE Spec => ImplementsSettlement
  OBVIOUS
<1>1. Init => Abstract!Init
  BY DEF Init, Abstract!Init, Phase
<1>2. TypeOK /\ [Next]_vars => [Abstract!Next]_<<phases, settled>>
  BY AbstractStep
<1> QED BY <1>1, <1>2, TypeCorrect, PTL DEF Spec, ImplementsSettlement, Abstract!Spec, phases

-----------------------------------------------------------------------------
(* Credit. *)

LEMMA CreditStep == TypeOK /\ CreditNotNegative /\ [Next]_vars => CreditNotNegative'
<1> SUFFICES ASSUME TypeOK, CreditNotNegative, [Next]_vars PROVE CreditNotNegative'
  OBVIOUS
<1>t. /\ job \in [Workers -> Job] /\ total \in [Invoices -> Nat] /\ credit \in Int
      /\ credit >= 0 /\ \A i \in Invoices : Price[i] \in Nat
  BY InvoicingAssumption DEF TypeOK, CreditNotNegative
<1>1. ASSUME NEW i \in Invoices, NEW amount, NEW balance \in Int, balance >= 0,
             MarkPaid(i, amount, balance)
      PROVE  credit' >= 0
  BY <1>t, <1>1 DEF MarkPaid, ProcessPaid
<1>2. ASSUME NEW i \in Invoices, InvoiceStep(i)
      PROVE  credit' >= 0
  <2>1. total[i] \in Nat
    BY <1>t
  <2>2. CASE PayWithCredit(i)
    <3>1. MarkPaid(i, total[i], credit - total[i]) /\ credit >= total[i]
      BY <2>2 DEF PayWithCredit, ApplyDirect
    <3>2. credit - total[i] \in Int /\ credit - total[i] >= 0
      BY <1>t, <2>1, <3>1
    <3> QED BY <1>1, <3>1, <3>2
  <2>3. CASE \E amount \in Tenders : AddManualPayment(i, amount)
    BY <1>t, <1>1, <2>3 DEF AddManualPayment, ApplyDirect
  <2>4. CASE ~ PayWithCredit(i) /\ ~ \E amount \in Tenders : AddManualPayment(i, amount)
    BY <1>t, <1>2, <2>1, <2>4 DEF InvoiceStep, CreateInvoice, DueDatePasses, CancelInvoice,
         UpdateInvoice, RefundInvoice
  <2> QED BY <2>2, <2>3, <2>4
<1>3. CASE \E delta \in Adjustments : AdminAdjustCredit(delta)
  BY <1>3 DEF AdminAdjustCredit, CreditNotNegative
<1>4. CASE \/ \E o \in Orders, outcome \in {"success", "cancelled"} : GatewayResolves(o, outcome)
           \/ \E w \in Workers : Begin(w)
           \/ UNCHANGED vars
  BY <1>4, <1>t DEF GatewayResolves, Begin, PayInvoice, HandleCallback,
       ReconcileOne, ConfirmManualTransaction, MarkOverdue, VoidInvoice, ApplyLateFees, vars,
       CreditNotNegative
<1>5. ASSUME NEW w \in Workers, Proceed(w)
      PROVE  credit' >= 0
  <2>1. CASE CallbackSettles(w) \/ ReconcileSettles(w) \/ ConfirmSettles(w)
    <3>1. job[w].order[1] \in Invoices
      BY <2>1, <1>t, JobFields, OrderParts DEF CallbackSettles, ReconcileSettles, ConfirmSettles
    <3> QED BY <1>t, <1>1, <2>1, <3>1
            DEF CallbackSettles, ReconcileSettles, ConfirmSettles, ApplyToOrder
  <2>2. CASE ~ (CallbackSettles(w) \/ ReconcileSettles(w) \/ ConfirmSettles(w))
    BY <1>5, <1>t, <2>2 DEF Proceed, WriteOverdue, WriteVoid, AddLateFee, CallbackFails,
         ReconcileExpires, RecordTransaction, GatewayInquiry, Return
  <2> QED BY <2>1, <2>2
<1> QED BY <1>2, <1>3, <1>4, <1>5 DEF Next, CreditNotNegative

(* No interleaving of credit payments, deposits, refunds and adjustments     *)
(* takes the client's balance below zero.                                    *)
THEOREM CreditSafe == Spec => []CreditNotNegative
<1>1. Init => CreditNotNegative
  BY DEF Init, CreditNotNegative
<1> QED BY <1>1, TypeCorrect, CreditStep, PTL DEF Spec

-----------------------------------------------------------------------------
(* The status of an invoice, its success row and its late fee.               *)

(* If no writer of an invoice's status works from a stale read, an invoice   *)
(* moves along the edges of invoiceTransitions only.                         *)
THEOREM OneWay == StatusRaces = FALSE => (Spec => InvoiceLifecycle)
<1> SUFFICES ASSUME StatusRaces = FALSE PROVE Spec => InvoiceLifecycle
  OBVIOUS
<1> DEFINE Edge == \A i \in Invoices :
                     \/ status'[i] = status[i]
                     \/ status[i] = "none" /\ status'[i] = "unpaid"
                     \/ CanTransition(status[i], status'[i])
<1>1. ASSUME TypeOK, [Next]_vars PROVE Edge
  <2>1. CASE UNCHANGED status
    BY <2>1
  <2>2. ASSUME NEW i \in Invoices, PayStep(i) PROVE Edge
    BY <1>1, <2>2 DEF PayStep, CanTransition, InvoiceTransitions, TypeOK
  <2>3. ASSUME NEW i \in Invoices, PlainStep(i) PROVE Edge
    BY <1>1, <2>3 DEF PlainStep, Payable, CanTransition, InvoiceTransitions, TypeOK
  <2> QED BY <1>1, <2>1, <2>2, <2>3, StatusSteps
<1>2. TypeOK /\ [Next]_vars => [Edge]_vars
  BY <1>1
<1>3. []TypeOK /\ [][Next]_vars => [][Edge]_vars
  BY <1>2, PTL
<1> QED BY <1>3, TypeCorrect DEF Spec, InvoiceLifecycle

\* What one step may do to an invoice and its success row.
SuccessStep(k) ==
    \/ /\ status'[k] = "paid" <=> status[k] = "paid"
       /\ direct'[k] = direct[k]
       /\ \A o \in OrdersOf(k) : txn'[o].status = "success" <=> txn[o].status = "success"
    \/ /\ status'[k] = "paid"
       /\ direct'[k] # NoRow \/ \E o \in OrdersOf(k) : txn'[o].status = "success"
    \/ /\ status'[k] = "refunded"
       /\ direct'[k] = NoRow /\ \A o \in OrdersOf(k) : txn'[o].status # "success"

LEMMA SuccessToOrder ==
    ASSUME TypeOK, NEW o \in Orders, NEW amount \in Nat, ApplyToOrder(o, amount)
    PROVE  \A k \in Invoices : SuccessStep(k)
<1>1. /\ txn[o] \in Row /\ txn \in [Orders -> Row] /\ status \in [Invoices -> InvoiceStatus]
      /\ o[1] \in Invoices
  BY OrderParts DEF TypeOK
<1>2. direct' = direct /\ status' = [status EXCEPT ![o[1]] = "paid"]
  BY DEF ApplyToOrder, MarkPaid
<1>3. txn'[o].status = "success" /\ \A p \in Orders \ {o} : txn'[p] = txn[p]
  BY <1>1 DEF ApplyToOrder, Row
<1>4. ASSUME NEW k \in Invoices, k # o[1] PROVE SuccessStep(k)
  BY <1>1, <1>2, <1>3, <1>4 DEF SuccessStep, OrdersOf
<1>5. SuccessStep(o[1])
  BY <1>1, <1>2, <1>3 DEF SuccessStep, OrdersOf
<1> QED BY <1>4, <1>5

LEMMA SuccessDirect ==
    ASSUME TypeOK, NEW i \in Invoices, NEW amount \in Nat, NEW balance,
           ApplyDirect(i, amount, balance)
    PROVE  \A k \in Invoices : SuccessStep(k)
<1>1. /\ txn' = txn /\ direct' = [direct EXCEPT ![i] = amount]
      /\ status' = [status EXCEPT ![i] = "paid"] /\ amount # NoRow
  BY DEF ApplyDirect, MarkPaid, NoRow
<1>2. status \in [Invoices -> InvoiceStatus] /\ direct \in [Invoices -> Nat \cup {NoRow}]
  BY DEF TypeOK
<1> QED BY <1>1, <1>2 DEF SuccessStep

LEMMA SuccessSteps ==
    ASSUME Ledger, SuccessIsConfirmed, StatusRaces = FALSE, [Next]_vars
    PROVE  \A k \in Invoices : SuccessStep(k)
<1>t. /\ TypeOK /\ txn \in [Orders -> Row] /\ job \in [Workers -> Job]
      /\ status \in [Invoices -> InvoiceStatus]
      /\ total \in [Invoices -> Nat]
      /\ direct \in [Invoices -> Nat \cup {NoRow}]
      /\ gateway \in [Orders -> [status : GatewayStatus, amount : Nat]]
  BY DEF Ledger, TypeOK
<1>f. ASSUME UNCHANGED direct,
             \A k \in Invoices : status'[k] = "paid" <=> status[k] = "paid",
             \A o \in Orders : txn'[o].status = "success" <=> txn[o].status = "success"
      PROVE  \A k \in Invoices : SuccessStep(k)
  BY <1>f DEF SuccessStep, OrdersOf
<1>1. ASSUME NEW i \in Invoices, InvoiceStep(i)
      PROVE  \A k \in Invoices : SuccessStep(k)
  <2>1. CASE PayWithCredit(i)
    BY <1>t, <2>1, SuccessDirect DEF PayWithCredit
  <2>2. CASE \E amount \in Tenders : AddManualPayment(i, amount)
    BY <1>t, <2>2, SuccessDirect, InvoicingAssumption DEF AddManualPayment
  <2>3. CASE \E toCredit \in BOOLEAN : RefundInvoice(i, toCredit)
    <3>1. /\ status' = [status EXCEPT ![i] = "refunded"]
          /\ direct' = [direct EXCEPT ![i] = NoRow]
          /\ \A o \in Orders : txn'[o] = IF o[1] = i /\ txn[o].status = "success"
                                            THEN [txn[o] EXCEPT !.status = "refunded"]
                                            ELSE txn[o]
      BY <2>3 DEF RefundInvoice
    <3>2. \A o \in Orders : [txn[o] EXCEPT !.status = "refunded"].status = "refunded"
      BY <1>t DEF Row
    <3>3. SuccessStep(i)
      BY <1>t, <3>1, <3>2 DEF SuccessStep, OrdersOf
    <3>4. ASSUME NEW k \in Invoices \ {i} PROVE SuccessStep(k)
      BY <1>t, <3>1 DEF SuccessStep, OrdersOf
    <3> QED BY <3>3, <3>4
  <2>4. CASE \/ CreateInvoice(i) \/ DueDatePasses(i) \/ CancelInvoice(i)
             \/ \E past \in BOOLEAN : UpdateInvoice(i, past)
    <3>1. /\ UNCHANGED <<txn, direct>>
          /\ \A k \in Invoices : status'[k] = "paid" <=> status[k] = "paid"
      BY <1>t, <2>4 DEF CreateInvoice, DueDatePasses, CancelInvoice, UpdateInvoice,
           CanTransition, InvoiceTransitions
    <3> QED BY <1>f, <3>1
  <2> QED BY <1>1, <2>1, <2>2, <2>3, <2>4 DEF InvoiceStep
<1>2. CASE \/ \E o \in Orders, outcome \in {"success", "cancelled"} : GatewayResolves(o, outcome)
           \/ \E delta \in Adjustments : AdminAdjustCredit(delta)
           \/ \E w \in Workers : Begin(w)
           \/ UNCHANGED vars
  <2>1. UNCHANGED <<status, txn, direct>>
    BY <1>2 DEF GatewayResolves, AdminAdjustCredit, Begin, PayInvoice, HandleCallback,
         ReconcileOne, ConfirmManualTransaction, MarkOverdue, VoidInvoice, ApplyLateFees, vars
  <2> QED BY <1>f, <2>1
<1>3. ASSUME NEW w \in Workers, Proceed(w)
      PROVE  \A k \in Invoices : SuccessStep(k)
  <2> DEFINE o == job[w].order
  <2>1. CASE CallbackSettles(w) \/ ReconcileSettles(w) \/ ConfirmSettles(w)
    <3>1. /\ o \in Orders /\ gateway[o].amount \in Nat
          /\ job[w].pc = "confirm" => job[w].amount \in Nat
      BY <2>1, <1>t, JobFields DEF CallbackSettles, ReconcileSettles, ConfirmSettles
    <3> QED BY <1>t, <2>1, <3>1, SuccessToOrder DEF CallbackSettles, ReconcileSettles, ConfirmSettles
  <2>2. CASE WriteOverdue(w) \/ WriteVoid(w)
    <3>1. job[w].invoice \in Invoices /\ Payable(job[w].invoice)
      BY <2>2, <1>t, JobFields DEF WriteOverdue, WriteVoid, StillOpen
    <3>2. /\ UNCHANGED <<txn, direct>>
          /\ \A k \in Invoices : status'[k] = "paid" <=> status[k] = "paid"
      BY <1>t, <2>2, <3>1 DEF WriteOverdue, WriteVoid, Payable
    <3> QED BY <1>f, <3>2
  <2>3. CASE CallbackFails(w) \/ ReconcileExpires(w) \/ RecordTransaction(w)
    <3>1. o \in Orders /\ UNCHANGED <<status, direct>>
      BY <2>3, <1>t, JobFields DEF CallbackFails, ReconcileExpires, RecordTransaction
    <3>2. txn[o].status # "success"
      <4>1. CASE RecordTransaction(w)
        BY <4>1 DEF RecordTransaction, Ledger, AttemptsDistinct, Opening
      <4>2. CASE CallbackFails(w) \/ ReconcileExpires(w)
        <5>1. gateway[o].status = "cancelled" /\ txn[o].status # "none"
          BY <4>2 DEF CallbackFails, ReconcileExpires, Ledger, RowsMatchGateway
        <5> QED BY <3>1, <5>1 DEF Ledger, RowsMatchGateway, SuccessIsConfirmed
      <4> QED BY <2>3, <4>1, <4>2
    <3>3. /\ \A p \in Orders \ {o} : txn'[p] = txn[p]
          /\ txn'[o].status \in {"failed", "expired", "pending"}
      BY <2>3, <3>1, <1>t DEF CallbackFails, ReconcileExpires, RecordTransaction, Row
    <3> QED BY <1>f, <3>1, <3>2, <3>3
  <2>4. CASE GatewayInquiry(w) \/ AddLateFee(w) \/ Return(w)
    <3>1. UNCHANGED <<status, txn, direct>>
      BY <2>4 DEF GatewayInquiry, AddLateFee, Return
    <3> QED BY <1>f, <3>1
  <2> QED BY <1>3, <2>1, <2>2, <2>3, <2>4 DEF Proceed
<1> QED BY <1>1, <1>2, <1>3 DEF Next

(* If no writer of an invoice's status works from a stale read, an invoice   *)
(* is paid exactly while it has a success row: nobody's payment is kept      *)
(* without its invoice, and no invoice is paid for nothing.                  *)
THEOREM PaidIffSuccess == StatusRaces = FALSE => (Spec => []PaidHasSuccess)
<1> SUFFICES ASSUME StatusRaces = FALSE PROVE Spec => []PaidHasSuccess
  OBVIOUS
<1>1. Init => PaidHasSuccess
  BY DEF Init, PaidHasSuccess, SuccessRows, OrdersOf
<1>2. ASSUME Ledger, SuccessIsConfirmed, PaidHasSuccess, [Next]_vars
      PROVE  PaidHasSuccess'
  BY <1>2, SuccessSteps DEF SuccessStep, PaidHasSuccess, SuccessRows
<1>3. Ledger /\ SuccessIsConfirmed /\ PaidHasSuccess /\ [Next]_vars => PaidHasSuccess'
  BY <1>2
<1> QED BY <1>1, <1>3, TypeCorrect, AttemptsCorrect, Confirmed, PTL DEF Spec, Ledger

\* While its lock keeps a second run of the cron out, nobody but the one run
\* charges a fee, and the invoice it is about to charge has none.
FeeInv ==
    /\ LateFeeOnce
    /\ \A w \in Workers : job[w].pc = "latefee" =>
          /\ fees[job[w].invoice] = 0
          /\ \A v \in Workers : job[v].pc = "latefee" => v = w

LEMMA FeeFrame ==
    ASSUME TypeOK, FeeInv, UNCHANGED fees,
           \A v \in Workers : job'[v] = job[v] \/ job'[v].pc # "latefee"
    PROVE  FeeInv'
BY DEF FeeInv, LateFeeOnce

LEMMA FeeStep ==
    ASSUME CronOverlap = FALSE, TypeOK, FeeInv, [Next]_vars
    PROVE  FeeInv'
<1>t. job \in [Workers -> Job] /\ fees \in [Invoices -> Nat]
  BY DEF TypeOK
<1>1. CASE \/ \E i \in Invoices : InvoiceStep(i)
           \/ \E o \in Orders, outcome \in {"success", "cancelled"} : GatewayResolves(o, outcome)
           \/ \E delta \in Adjustments : AdminAdjustCredit(delta)
           \/ UNCHANGED vars
  <2>1. UNCHANGED <<fees, job>>
    BY <1>1 DEF InvoiceStep, CreateInvoice, DueDatePasses, UpdateInvoice, CancelInvoice,
         RefundInvoice, PayWithCredit, AddManualPayment, GatewayResolves, AdminAdjustCredit, vars
  <2> QED BY <2>1, FeeFrame
<1>2. ASSUME NEW w \in Workers, NEW i \in Invoices, ApplyLateFees(w, i)
      PROVE  FeeInv'
  <2>1. /\ fees' = fees /\ fees[i] = 0
        /\ job'[w].pc = "latefee" /\ job'[w].invoice = i
        /\ \A v \in Workers \ {w} : job'[v] = job[v] /\ job[v].pc # "latefee"
    BY <1>t, <1>2 DEF ApplyLateFees
  <2> QED BY <2>1 DEF FeeInv, LateFeeOnce
<1>3. ASSUME NEW w \in Workers, Begin(w), \A i \in Invoices : ~ ApplyLateFees(w, i)
      PROVE  FeeInv'
  <2>1. /\ fees' = fees
        /\ job'[w].pc # "latefee" /\ \A v \in Workers \ {w} : job'[v] = job[v]
    <3>1. CASE \E i \in Invoices, via \in Gateways : PayInvoice(w, i, via)
      BY <1>t, <3>1 DEF PayInvoice
    <3>2. ASSUME NEW o \in Orders, NEW success \in BOOLEAN, HandleCallback(w, o, success)
          PROVE  fees' = fees /\ job'[w].pc # "latefee" /\ \A v \in Workers \ {w} : job'[v] = job[v]
      BY <1>t, <3>2 DEF HandleCallback
    <3>3. ASSUME NEW o \in Orders, ReconcileOne(w, o)
          PROVE  fees' = fees /\ job'[w].pc # "latefee" /\ \A v \in Workers \ {w} : job'[v] = job[v]
      BY <1>t, <3>3 DEF ReconcileOne
    <3>4. ASSUME NEW o \in Orders, ConfirmManualTransaction(w, o)
          PROVE  fees' = fees /\ job'[w].pc # "latefee" /\ \A v \in Workers \ {w} : job'[v] = job[v]
      BY <1>t, <3>4 DEF ConfirmManualTransaction
    <3>5. ASSUME NEW i \in Invoices, MarkOverdue(w, i)
          PROVE  fees' = fees /\ job'[w].pc # "latefee" /\ \A v \in Workers \ {w} : job'[v] = job[v]
      BY <1>t, <3>5 DEF MarkOverdue
    <3>6. ASSUME NEW i \in Invoices, VoidInvoice(w, i)
          PROVE  fees' = fees /\ job'[w].pc # "latefee" /\ \A v \in Workers \ {w} : job'[v] = job[v]
      BY <1>t, <3>6 DEF VoidInvoice
    <3> QED BY <1>3, <3>1, <3>2, <3>3, <3>4, <3>5, <3>6 DEF Begin
  <2> QED BY <2>1, FeeFrame
<1>4. ASSUME NEW w \in Workers, AddLateFee(w)
      PROVE  FeeInv'
  <2> DEFINE i == job[w].invoice
  <2>1. i \in Invoices /\ fees[i] = 0
    BY <1>t, <1>4, JobFields DEF AddLateFee, FeeInv
  <2>2. fees'[i] = 1 /\ \A k \in Invoices \ {i} : fees'[k] = fees[k]
    <3>1. i = job[w].invoice /\ fees' = [fees EXCEPT ![job[w].invoice] = @ + 1]
      BY <1>4 DEF AddLateFee
    <3> HIDE DEF i
    <3> QED BY <1>t, <2>1, <3>1
  <2>3. \A v \in Workers : job'[v].pc # "latefee"
    BY <1>t, <1>4 DEF AddLateFee, FeeInv, Idle
  <2> QED BY <2>2, <2>3 DEF FeeInv, LateFeeOnce
<1>5. ASSUME NEW w \in Workers, Proceed(w), ~ AddLateFee(w)
      PROVE  FeeInv'
  <2>1. /\ fees' = fees
        /\ \/ job' = [job EXCEPT ![w] = Idle]
           \/ job' = [job EXCEPT ![w].pc = "record"]
    BY <1>5 DEF Proceed, GatewayInquiry, RecordTransaction, CallbackSettles, CallbackFails,
         ReconcileSettles, ReconcileExpires, ConfirmSettles, WriteOverdue, WriteVoid, Return
  <2>2. job'[w].pc # "latefee" /\ \A v \in Workers \ {w} : job'[v] = job[v]
    BY <1>t, <2>1 DEF Idle, Job
  <2> QED BY <2>1, <2>2, FeeFrame
<1> QED BY <1>1, <1>2, <1>3, <1>4, <1>5 DEF Next

(* As long as the late-fee cron's lock outlives its run, an invoice is       *)
(* charged at most one late fee, although the run looks for an earlier fee   *)
(* before it takes the invoice's lock and not after.                         *)
THEOREM OneFee == CronOverlap = FALSE => (Spec => []LateFeeOnce)
<1> SUFFICES ASSUME CronOverlap = FALSE PROVE Spec => []LateFeeOnce
  OBVIOUS
<1>1. Init => FeeInv
  <2>1. Init => \A w \in Workers : job[w].pc # "latefee"
    BY DEF Init, Idle
  <2>2. Init => LateFeeOnce
    BY DEF Init, LateFeeOnce
  <2> QED BY <2>1, <2>2 DEF FeeInv
<1>2. TypeOK /\ FeeInv /\ [Next]_vars => FeeInv'
  BY FeeStep
<1>3. FeeInv => LateFeeOnce
  BY DEF FeeInv
<1> QED BY <1>1, <1>2, <1>3, TypeCorrect, PTL DEF Spec
=============================================================================
