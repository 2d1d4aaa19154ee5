------------------------------ MODULE Gateway ------------------------------
(***************************************************************************)
(* The Duitku adapter (integration/duitku) between the payment service and   *)
(* the gateway, of which the mock server's handlers are the reference:        *)
(* signed calls with credentials read afresh for each call, retries of the    *)
(* read-only ones, a circuit breaker, callbacks the gateway repeats, and the  *)
(* reconciliation that asks for what no callback settled.                    *)
(***************************************************************************)
EXTENDS Naturals, FiniteSets, TLAPS

CONSTANTS
    Calls,      \* the requests that may be under way at once
    MaxOrders,  \* bound: payments opened for the invoice
    maxRetries, \* extra attempts of a read-only call
    Threshold,  \* breakerThreshold
    Deliveries, \* how often the gateway sends a callback that is not answered 200
    MaxFaults,  \* bound: failures of the network and of the database
    MaxKeys     \* bound: rotations of the API key

Orders == 1 .. MaxOrders
VARIABLES
    site,     \* the gateway: per order its transactions and the last one's status
    key,      \* the API key: at the gateway and in the settings
    attempt,  \* the invoice's payment_attempt counter
    rows,     \* the orders with a row in transactions
    settled,  \* the orders a check confirmed as paid, and as expired
    callback, \* deliveries left per paid order
    breaker,  \* the adapter's breaker: consecutive failures, open
    call,     \* the requests
    faults    \* failures so far
vars == <<site, key, attempt, rows, settled, callback, breaker, call, faults>>

Idle == [op |-> "idle", order |-> 0, tries |-> 0, key |-> 0, at |-> "send"]
Init ==
    /\ site = [o \in Orders |-> [count |-> 0, status |-> "none"]]
    /\ key = [site |-> 0, live |-> 0] /\ attempt = 0 /\ rows = {}
    /\ settled = [paid |-> {}, expired |-> {}]
    /\ callback = [o \in Orders |-> 0]
    /\ breaker = [fails |-> 0, open |-> FALSE]
    /\ call = [c \in Calls |-> Idle] /\ faults = 0

-----------------------------------------------------------------------------
(* The adapter.                                                            *)

Fault == faults < MaxFaults /\ faults' = faults + 1
EnvKey == 0
\* Mutant: the key the process was started with.
StaticCreds(k) == k = EnvKey /\ UNCHANGED faults
\* resolve is asked on every call, so a rotation needs no restart; the environment's
\* key stands in when the settings cannot be read.
resolveCreds(k) == (k = key.live /\ UNCHANGED faults) \/ (k = EnvKey /\ Fault)
\* Mutant: the number of stored transactions decides.
CountRows == Cardinality(rows) + 1
\* The payment_attempt counter, one UPDATE ... RETURNING.
NextAttempt == attempt + 1
\* breaker.allow, failure and success.
allow == ~breaker.open
failure == breaker' = LET n == IF breaker.fails < Threshold THEN breaker.fails + 1 ELSE Threshold
                      IN  [fails |-> n, open |-> n >= Threshold]
success == breaker' = [fails |-> 0, open |-> FALSE]
CooldownEnds ==
    /\ breaker.open /\ breaker' = [breaker EXCEPT !.open = FALSE]
    /\ UNCHANGED <<site, key, attempt, rows, settled, callback, call, faults>>

Start(c, op, o) ==
    IF allow
    THEN \E k \in 0 .. MaxKeys :
            /\ resolveCreds(k)
            /\ call' = [call EXCEPT ![c] = [op |-> op, order |-> o, tries |-> 0, key |-> k, at |-> "send"]]
    ELSE UNCHANGED <<call, faults>>
\* payWithGateway: the attempt is reserved, then the inquiry is sent.
payWithGateway(c) ==
    /\ call[c] = Idle /\ attempt < MaxOrders /\ settled.paid = {}
    /\ attempt' = attempt + 1 /\ Start(c, "inquiry", NextAttempt)
    /\ UNCHANGED <<site, key, rows, settled, callback, breaker>>

\* do: an attempt fails; a read-only call has maxRetries more, an inquiry has none.
retriable(op) == op = "status"
Failed(c) ==
    IF retriable(call[c].op) /\ call[c].tries < maxRetries
    THEN call' = [call EXCEPT ![c].tries = @ + 1] /\ UNCHANGED breaker
    ELSE call' = [call EXCEPT ![c] = Idle] /\ failure
\* The request does not arrive or is answered 5xx.
doOnceFails(c) ==
    /\ call[c].op # "idle" /\ call[c].at = "send" /\ Fault /\ Failed(c)
    /\ UNCHANGED <<site, key, attempt, rows, settled, callback>>

-----------------------------------------------------------------------------
(* The gateway.                                                            *)

\* The handlers refuse a signature made with another key.
BadSignature(c) == call[c].key # key.site
handleDuitkuInquiry(c) ==
    site' = IF BadSignature(c) THEN site
            ELSE [site EXCEPT ![call[c].order] = [count |-> @.count + 1, status |-> "pending"]]
\* CreateTransaction answered: the transaction is stored before its link is shown.
CreateTransaction(c) ==
    /\ call[c].op = "inquiry" /\ call[c].at = "send" /\ handleDuitkuInquiry(c)
    /\ \/ /\ success /\ UNCHANGED faults
          /\ call' = [call EXCEPT ![c] = IF BadSignature(c) THEN Idle ELSE [@ EXCEPT !.at = "store"]]
       \/ Fault /\ Failed(c)      \* the answer is lost
    /\ UNCHANGED <<key, attempt, rows, settled, callback>>
\* Mutant: the link is shown although the row could not be stored.
ShowAnyway(c) ==
    \/ UNCHANGED faults /\ rows' = rows \cup {call[c].order} /\ call' = [call EXCEPT ![c].at = "shown"]
    \/ Fault /\ UNCHANGED rows /\ call' = [call EXCEPT ![c].at = "shown"]
Store(c) ==
    \/ UNCHANGED faults /\ rows' = rows \cup {call[c].order} /\ call' = [call EXCEPT ![c].at = "shown"]
    \/ Fault /\ UNCHANGED rows /\ call' = [call EXCEPT ![c] = Idle]
Create(c) ==
    /\ call[c].op = "inquiry" /\ call[c].at = "store" /\ Store(c)
    /\ UNCHANGED <<site, key, attempt, settled, callback, breaker>>
\* The payer leaves the page, with or without having paid.
Leave(c) ==
    /\ call[c].at = "shown" /\ call' = [call EXCEPT ![c] = Idle]
    /\ UNCHANGED <<site, key, attempt, rows, settled, callback, breaker, faults>>

\* Mutant: a transaction that expired is still paid.
PayExpired(o) == site[o].status \in {"pending", "expired"}
Payable(o) == site[o].status = "pending"
\* Paid, then announced; the payer has the link as long as the page is open.
handleDuitkuPay(c) ==
    LET o == call[c].order
    IN  /\ call[c].at = "shown" /\ Payable(o)
        /\ site' = [site EXCEPT ![o].status = "paid"]
        /\ callback' = [callback EXCEPT ![o] = Deliveries]
        /\ UNCHANGED <<key, attempt, rows, settled, breaker, call, faults>>
handleDuitkuExpire(o) ==
    /\ site[o].status = "pending" /\ site' = [site EXCEPT ![o].status = "expired"]
    /\ UNCHANGED <<key, attempt, rows, settled, callback, breaker, call, faults>>

-----------------------------------------------------------------------------
(* Settling.                                                               *)

VerifyCallbackSignature(k) == key.site = k
\* HandleCallback asks the gateway before it believes the callback.
HandleCallback(c, o) ==
    \/ \E k \in 0 .. MaxKeys : resolveCreds(k) /\ ~VerifyCallbackSignature(k) /\ UNCHANGED call
    \/ VerifyCallbackSignature(key.live) /\ Start(c, "status", o)
sendDuitkuCallback(c, o) ==
    /\ call[c] = Idle /\ callback[o] > 0
    /\ callback' = [callback EXCEPT ![o] = @ - 1]
    /\ IF o \in rows THEN HandleCallback(c, o) ELSE UNCHANGED <<call, faults>>
    /\ UNCHANGED <<site, key, attempt, rows, settled, breaker>>
\* ReconcilePending lists the pending rows, ReconcileOne asks for one.
ReconcileOne(c, o) ==
    /\ call[c] = Idle /\ o \in rows \ (settled.paid \cup settled.expired)
    /\ Start(c, "status", o)
    /\ UNCHANGED <<site, key, attempt, rows, settled, callback, breaker>>
handleDuitkuTransactionStatus(c) ==
    IF BadSignature(c) THEN "refused" ELSE site[call[c].order].status
\* The answer, and what HandleCallback and ReconcileOne make of it.
CheckTransaction(c) ==
    LET o == call[c].order
        s == handleDuitkuTransactionStatus(c)
    IN  /\ call[c].op = "status"
        /\ \/ /\ success /\ call' = [call EXCEPT ![c] = Idle] /\ UNCHANGED faults
              /\ IF s \in {"paid", "expired"}
                 THEN /\ settled' = [settled EXCEPT ![s] = @ \cup {o}]
                      /\ callback' = [callback EXCEPT ![o] = 0]
                 ELSE UNCHANGED <<settled, callback>>
           \/ Fault /\ Failed(c) /\ UNCHANGED <<settled, callback>>
        /\ UNCHANGED <<site, key, attempt, rows>>

\* The key is rotated at the gateway, and later entered by an administrator.
RotateKey ==
    /\ key.site < MaxKeys /\ key.site = key.live /\ key' = [key EXCEPT !.site = @ + 1]
    /\ UNCHANGED <<site, attempt, rows, settled, callback, breaker, call, faults>>
EnterKey ==
    /\ key.live # key.site /\ key' = [key EXCEPT !.live = key.site]
    /\ UNCHANGED <<site, attempt, rows, settled, callback, breaker, call, faults>>

Next ==
    \/ CooldownEnds \/ RotateKey \/ EnterKey
    \/ \E o \in Orders : handleDuitkuExpire(o)
    \/ \E c \in Calls :
         \/ payWithGateway(c) \/ doOnceFails(c) \/ CreateTransaction(c) \/ Create(c)
         \/ handleDuitkuPay(c) \/ Leave(c) \/ CheckTransaction(c)
         \/ \E o \in Orders : sendDuitkuCallback(c, o) \/ ReconcileOne(c, o)
Spec == Init /\ [][Next]_vars
Proceed(c) == CheckTransaction(c) \/ CreateTransaction(c) \/ Create(c) \/ Leave(c)
Reconcile(o) == \E c \in Calls : allow /\ ReconcileOne(c, o)
\* The breaker's time passes, the administrator enters the new key, requests end, and
\* the reconciliation cron comes back to every pending row while a call can be made.
FairSpec ==
    /\ Spec /\ WF_vars(CooldownEnds) /\ WF_vars(EnterKey)
    /\ \A c \in Calls : WF_vars(Proceed(c))
    /\ \A o \in Orders : SF_vars(Reconcile(o))

-----------------------------------------------------------------------------
(* Properties.                                                             *)

\* payWithGateway "two concurrent callers for this invoice always observe distinct
\* attempt numbers", and an inquiry is "never auto-retried": no order has two
\* transactions at the gateway, whose status call only knows the last.
OneTxPerOrder == \A o \in Orders : site[o].count <= 1

\* The row is stored before the payer sees the link, so whatever was paid has a row
\* that a callback or the reconciliation finds, whichever answers were lost.
PaidIsKnown == \A o \in Orders : site[o].status = "paid" => o \in rows

\* HandleCallback and ReconcileOne close a transaction for good, which is right only
\* because the gateway's own end states are final.
ClosedIsFinal == \A s \in {"paid", "expired"} : \A o \in settled[s] : site[o].status = s

\* A payment is recognised in the end: neither lost callbacks, nor an open circuit, nor
\* a key rotated meanwhile, nor failed answers keep the reconciliation from it.
Paid(o) == site[o].status = "paid"
Confirmed(o) == o \in settled.paid
PaidIsConfirmed == \A o \in Orders : Paid(o) ~> Confirmed(o)

-----------------------------------------------------------------------------
(* Proofs.                                                                 *)

TypeOK ==
    /\ site \in [Orders -> [count : Nat, status : {"none", "pending", "paid", "expired"}]]
    /\ attempt \in Nat /\ rows \subseteq Orders
    /\ settled \in [paid : SUBSET Orders, expired : SUBSET Orders]
    /\ call \in [Calls -> [op : {"idle", "inquiry", "status"}, order : Nat, tries : Nat,
                           key : Nat, at : {"send", "store", "shown"}]]

Asking(c) == call[c].op = "inquiry"

\* An order id is reserved once: what is above the counter is unknown to the
\* gateway, two inquiries never carry the same one, and one that was not sent
\* yet has opened nothing.
OrdersReserved ==
    /\ \A o \in Orders : /\ site[o].count = 0 => site[o].status = "none"
                         /\ o > attempt => site[o].count = 0
    /\ \A c \in Calls : Asking(c) =>
          /\ call[c].order \in Orders /\ call[c].order <= attempt
          /\ call[c].at = "send" => site[call[c].order].count = 0
          /\ \A d \in Calls : Asking(d) /\ d # c => call[d].order # call[c].order

\* Only an inquiry gets as far as a link, and only for an order with a row.
LinksKnown ==
    \A c \in Calls : /\ call[c].at # "send" => Asking(c)
                     /\ call[c].at = "shown" => call[c].order \in rows
                     /\ call[c].op = "status" => call[c].order \in Orders

GatewayInv == TypeOK /\ OrdersReserved /\ LinksKnown /\ OneTxPerOrder /\ PaidIsKnown /\ ClosedIsFinal

LEMMA GatewayInit == Init => GatewayInv
BY DEF Init, GatewayInv, TypeOK, OrdersReserved, LinksKnown, OneTxPerOrder, PaidIsKnown,
       ClosedIsFinal, Asking, Idle, Orders

\* No inquiry begins or gets further: a call ends, stays what and where it is,
\* or asks for the status of an order.
NoneOpened ==
    \A d \in Calls :
        \/ call'[d] = Idle
        \/ call'[d].op = call[d].op /\ call'[d].order = call[d].order /\ call'[d].at = call[d].at
        \/ call'[d].op = "status" /\ call'[d].order \in Orders /\ call'[d].at = "send"

LEMMA FailedEnds ==
    ASSUME TypeOK, NEW c \in Calls, Failed(c)
    PROVE  NoneOpened /\ call' \in [Calls -> [op : {"idle", "inquiry", "status"}, order : Nat,
                              tries : Nat, key : Nat, at : {"send", "store", "shown"}]]
<1>t. call \in [Calls -> [op : {"idle", "inquiry", "status"}, order : Nat, tries : Nat,
                          key : Nat, at : {"send", "store", "shown"}]]
  BY DEF TypeOK
<1>1. CASE call' = [call EXCEPT ![c].tries = @ + 1]
  BY <1>t, <1>1 DEF NoneOpened
<1>2. CASE call' = [call EXCEPT ![c] = Idle]
  BY <1>t, <1>2 DEF NoneOpened, Idle
<1> QED BY <1>1, <1>2 DEF Failed

\* A step that opens nothing and closes nothing.
LEMMA GatewayRest ==
    ASSUME GatewayInv, NoneOpened, UNCHANGED <<site, attempt, rows>>
    PROVE  OrdersReserved' /\ LinksKnown' /\ OneTxPerOrder' /\ PaidIsKnown'
<1>1. \A d \in Calls : Asking(d)' => /\ Asking(d) /\ call'[d].order = call[d].order
                                     /\ call'[d].at = call[d].at
  BY DEF NoneOpened, Idle, Asking
<1>2. OrdersReserved'
  BY <1>1 DEF GatewayInv, OrdersReserved
<1>3. LinksKnown'
  BY DEF GatewayInv, LinksKnown, NoneOpened, Idle, Asking
<1>4. OneTxPerOrder' /\ PaidIsKnown'
  BY DEF GatewayInv, OneTxPerOrder, PaidIsKnown
<1> QED BY <1>2, <1>3, <1>4

LEMMA GatewayFrame ==
    ASSUME GatewayInv, TypeOK', NoneOpened, UNCHANGED <<site, attempt, rows, settled>>
    PROVE  GatewayInv'
BY GatewayRest DEF GatewayInv, ClosedIsFinal

LEMMA GatewayStep ==
    ASSUME MaxOrders \in Nat, MaxKeys \in Nat, GatewayInv, [Next]_vars
    PROVE  GatewayInv'
<1> DEFINE Call == [op : {"idle", "inquiry", "status"}, order : Nat, tries : Nat,
                    key : Nat, at : {"send", "store", "shown"}]
<1>t. /\ TypeOK /\ OrdersReserved /\ LinksKnown /\ OneTxPerOrder /\ PaidIsKnown /\ ClosedIsFinal
      /\ site \in [Orders -> [count : Nat, status : {"none", "pending", "paid", "expired"}]]
      /\ attempt \in Nat /\ rows \subseteq Orders
      /\ settled \in [paid : SUBSET Orders, expired : SUBSET Orders]
      /\ call \in [Calls -> Call] /\ Idle \in Call
  BY DEF GatewayInv, TypeOK, Idle
<1>o. Orders \subseteq Nat
  BY DEF Orders
<1>1. CASE CooldownEnds \/ RotateKey \/ EnterKey \/ UNCHANGED vars
  <2>1. UNCHANGED <<site, attempt, rows, settled, call>>
    BY <1>1 DEF CooldownEnds, RotateKey, EnterKey, vars
  <2> QED BY <2>1 DEF GatewayInv, TypeOK, OrdersReserved, LinksKnown, OneTxPerOrder, PaidIsKnown,
             ClosedIsFinal, Asking
<1>2. ASSUME NEW o \in Orders, handleDuitkuExpire(o) PROVE GatewayInv'
  <2>1. /\ site[o].status = "pending" /\ site'[o].status = "expired" /\ site'[o].count = site[o].count
        /\ \A p \in Orders \ {o} : site'[p] = site[p]
        /\ UNCHANGED <<attempt, rows, settled, call>>
    BY <1>t, <1>2 DEF handleDuitkuExpire
  <2>2. TypeOK'
    BY <1>t, <1>2 DEF handleDuitkuExpire, TypeOK
  <2>3. \A p \in Orders : site'[p].count = site[p].count
    BY <2>1
  <2>4. OrdersReserved'
    BY <1>t, <2>1, <2>3 DEF OrdersReserved, Asking
  <2>5. LinksKnown' /\ OneTxPerOrder' /\ PaidIsKnown'
    BY <1>t, <2>1, <2>3 DEF LinksKnown, OneTxPerOrder, PaidIsKnown, Asking
  <2>6. ClosedIsFinal'
    <3>1. o \notin settled.paid /\ o \notin settled.expired
      BY <1>t, <2>1 DEF ClosedIsFinal
    <3> QED BY <1>t, <2>1, <3>1 DEF ClosedIsFinal
  <2> QED BY <2>2, <2>4, <2>5, <2>6 DEF GatewayInv
<1>3. ASSUME NEW c \in Calls, payWithGateway(c) PROVE GatewayInv'
  <2> DEFINE new == attempt + 1
  <2>1. /\ new \in Orders /\ attempt' = new /\ call[c] = Idle
        /\ UNCHANGED <<site, rows, settled>>
    BY <1>t, <1>3 DEF payWithGateway, Orders
  <2>2. \/ call' = call
        \/ \E k \in 0 .. MaxKeys : call' = [call EXCEPT ![c] =
              [op |-> "inquiry", order |-> new, tries |-> 0, key |-> k, at |-> "send"]]
    BY <1>3 DEF payWithGateway, Start, NextAttempt
  <2>3. /\ call' \in [Calls -> Call]
        /\ \A d \in Calls \ {c} : call'[d] = call[d]
        /\ \/ call'[c] = Idle
           \/ call'[c].op = "inquiry" /\ call'[c].order = new /\ call'[c].at = "send"
    BY <1>t, <2>1, <2>2
  <2>4. TypeOK'
    BY <1>t, <2>1, <2>3 DEF TypeOK
  <2>5. site[new].count = 0
    BY <1>t, <2>1 DEF OrdersReserved
  <2>6. \A d \in Calls : Asking(d) => /\ call[d].order \in Orders /\ call[d].order # new
                                      /\ call[d].order <= new
    BY <1>t, <1>o DEF OrdersReserved
  <2>7. \A d \in Calls : Asking(d)' => \/ d # c /\ Asking(d) /\ call'[d] = call[d]
                                       \/ d = c /\ call'[d].order = new /\ call'[d].at = "send"
    BY <2>3 DEF Asking, Idle
  <2>8. OrdersReserved'
    <3>1. \A o \in Orders : /\ site'[o].count = 0 => site'[o].status = "none"
                            /\ o > attempt' => site'[o].count = 0
      BY <1>t, <1>o, <2>1 DEF OrdersReserved
    <3>2. ASSUME NEW d \in Calls, Asking(d)'
          PROVE  /\ call'[d].order \in Orders /\ call'[d].order <= attempt'
                 /\ call'[d].at = "send" => site'[call'[d].order].count = 0
      BY <1>t, <2>1, <2>5, <2>6, <2>7, <3>2 DEF OrdersReserved
    <3>3. ASSUME NEW d \in Calls, NEW e \in Calls, Asking(d)', Asking(e)', e # d
          PROVE  call'[e].order # call'[d].order
      BY <1>t, <2>6, <2>7, <3>3 DEF OrdersReserved
    <3> QED BY <3>1, <3>2, <3>3 DEF OrdersReserved
  <2>9. LinksKnown'
    BY <1>t, <2>1, <2>3 DEF LinksKnown, Asking, Idle
  <2>10. OneTxPerOrder' /\ PaidIsKnown' /\ ClosedIsFinal'
    BY <1>t, <2>1 DEF OneTxPerOrder, PaidIsKnown, ClosedIsFinal
  <2> QED BY <2>4, <2>8, <2>9, <2>10 DEF GatewayInv
<1>4. ASSUME NEW c \in Calls, doOnceFails(c) PROVE GatewayInv'
  <2>1. NoneOpened /\ call' \in [Calls -> Call] /\ UNCHANGED <<site, attempt, rows, settled>>
    BY <1>t, <1>4, FailedEnds DEF doOnceFails
  <2>2. TypeOK'
    BY <1>t, <2>1 DEF TypeOK
  <2> QED BY <2>1, <2>2, GatewayFrame
<1>5. ASSUME NEW c \in Calls, CreateTransaction(c) PROVE GatewayInv'
  <2> DEFINE o == call[c].order
  <2>1. /\ Asking(c) /\ call[c].at = "send" /\ o \in Orders /\ o <= attempt
        /\ site[o].count = 0 /\ site[o].status = "none"
        /\ \A d \in Calls : Asking(d) /\ d # c => call[d].order # o
    BY <1>t, <1>5 DEF CreateTransaction, Asking, OrdersReserved
  <2>2. UNCHANGED <<attempt, rows, settled>>
    BY <1>5 DEF CreateTransaction
  <2>3. /\ call' \in [Calls -> Call]
        /\ \A d \in Calls \ {c} : call'[d] = call[d]
        /\ \/ call'[c] = Idle
           \/ ~BadSignature(c) /\ Asking(c)' /\ call'[c].order = o /\ call'[c].at = "store"
    <3>1. CASE call' = [call EXCEPT ![c] = IF BadSignature(c) THEN Idle ELSE [@ EXCEPT !.at = "store"]]
      BY <1>t, <2>1, <3>1 DEF Asking
    <3>2. CASE Failed(c)
      <4>1. call' = [call EXCEPT ![c] = Idle]
        BY <2>1, <3>2 DEF Failed, retriable, Asking
      <4> QED BY <1>t, <4>1
    <3> QED BY <1>5, <3>1, <3>2 DEF CreateTransaction
  <2>4. \/ site' = site /\ BadSignature(c)
        \/ site' = [site EXCEPT ![o] = [count |-> site[o].count + 1, status |-> "pending"]]
    BY <1>5 DEF CreateTransaction, handleDuitkuInquiry
  <2> HIDE DEF o
  <2>5. /\ \A p \in Orders \ {o} : site'[p] = site[p]
        /\ \/ site'[o] = site[o]
           \/ site'[o].count = 1 /\ site'[o].status = "pending"
    BY <1>t, <2>1, <2>4
  <2>6. TypeOK'
    <3>1. site' \in [Orders -> [count : Nat, status : {"none", "pending", "paid", "expired"}]]
      BY <1>t, <2>1, <2>4
    <3> QED BY <1>t, <2>2, <2>3, <3>1 DEF TypeOK
  <2>7. \A d \in Calls : Asking(d)' => /\ Asking(d) /\ call'[d].order = call[d].order
                                       /\ d # c => call'[d] = call[d] /\ call[d].order # o
                                       /\ d = c => call'[d].at = "store"
    BY <2>1, <2>3 DEF Asking, Idle, o
  <2>8. OrdersReserved'
    <3>1. \A p \in Orders : /\ site'[p].count = 0 => site'[p].status = "none"
                            /\ p > attempt' => site'[p].count = 0
      <4>1. ~ (o > attempt)
        BY <1>t, <1>o, <2>1
      <4> QED BY <1>t, <2>1, <2>2, <2>5, <4>1 DEF OrdersReserved
    <3>2. ASSUME NEW d \in Calls, Asking(d)'
          PROVE  /\ call'[d].order \in Orders /\ call'[d].order <= attempt'
                 /\ call'[d].at = "send" => site'[call'[d].order].count = 0
      BY <1>t, <2>2, <2>5, <2>7, <3>2 DEF OrdersReserved
    <3>3. ASSUME NEW d \in Calls, NEW e \in Calls, Asking(d)', Asking(e)', e # d
          PROVE  call'[e].order # call'[d].order
      BY <1>t, <2>7, <3>3 DEF OrdersReserved
    <3> QED BY <3>1, <3>2, <3>3 DEF OrdersReserved
  <2>9. LinksKnown'
    BY <1>t, <2>2, <2>3 DEF LinksKnown, Asking, Idle
  <2>10. OneTxPerOrder' /\ PaidIsKnown'
    <3>1. site'[o].count <= 1 /\ site'[o].status # "paid"
      BY <2>1, <2>5
    <3>2. \A p \in Orders \ {o} : site'[p].count <= 1 /\ (site'[p].status = "paid" => p \in rows')
      BY <1>t, <2>2, <2>5 DEF OneTxPerOrder, PaidIsKnown
    <3> QED BY <3>1, <3>2 DEF OneTxPerOrder, PaidIsKnown
  <2>11. ClosedIsFinal'
    <3>1. o \notin settled.paid /\ o \notin settled.expired
      BY <1>t, <2>1 DEF ClosedIsFinal
    <3> QED BY <1>t, <2>2, <2>5, <3>1 DEF ClosedIsFinal
  <2> QED BY <2>6, <2>8, <2>9, <2>10, <2>11 DEF GatewayInv
<1>6. ASSUME NEW c \in Calls, Create(c) PROVE GatewayInv'
  <2> DEFINE o == call[c].order
  <2>1. /\ Asking(c) /\ call[c].at = "store" /\ o \in Orders
        /\ UNCHANGED <<site, attempt, settled>>
    BY <1>t, <1>6 DEF Create, Asking, OrdersReserved
  <2>2. CASE rows' = rows \cup {o} /\ call' = [call EXCEPT ![c].at = "shown"]
    <3>1. /\ call' \in [Calls -> Call] /\ call'[c].op = "inquiry" /\ call'[c].order = o
          /\ call'[c].at = "shown" /\ \A d \in Calls \ {c} : call'[d] = call[d]
      BY <1>t, <2>1, <2>2 DEF Asking
    <3>2. TypeOK'
      BY <1>t, <2>1, <2>2, <3>1 DEF TypeOK
    <3>3. \A d \in Calls : /\ Asking(d)' <=> Asking(d)
                           /\ call'[d].order = call[d].order
                           /\ call'[d].at = "send" => call[d].at = "send"
      BY <2>1, <3>1 DEF Asking
    <3>4. OrdersReserved'
      BY <1>t, <2>1, <3>3 DEF OrdersReserved
    <3>5. LinksKnown'
      <4>1. ASSUME NEW d \in Calls \ {c}
            PROVE  /\ call'[d].at # "send" => Asking(d)'
                   /\ call'[d].at = "shown" => call'[d].order \in rows'
                   /\ call'[d].op = "status" => call'[d].order \in Orders
        BY <1>t, <2>2, <3>1 DEF LinksKnown, Asking
      <4> QED BY <2>2, <3>1, <4>1 DEF LinksKnown, Asking
    <3>6. OneTxPerOrder' /\ PaidIsKnown' /\ ClosedIsFinal'
      BY <1>t, <2>1, <2>2 DEF OneTxPerOrder, PaidIsKnown, ClosedIsFinal
    <3> QED BY <3>2, <3>4, <3>5, <3>6 DEF GatewayInv
  <2>3. CASE rows' = rows /\ call' = [call EXCEPT ![c] = Idle]
    <3>1. NoneOpened /\ call' \in [Calls -> Call]
      BY <1>t, <2>3 DEF NoneOpened
    <3>2. TypeOK'
      BY <1>t, <2>1, <2>3, <3>1 DEF TypeOK
    <3> QED BY <2>1, <2>3, <3>1, <3>2, GatewayFrame
  <2> QED BY <1>6, <2>2, <2>3 DEF Create, Store
<1>7. ASSUME NEW c \in Calls, Leave(c) PROVE GatewayInv'
  <2>1. UNCHANGED <<site, attempt, rows, settled>> /\ call' = [call EXCEPT ![c] = Idle]
    BY <1>7 DEF Leave
  <2>2. NoneOpened /\ call' \in [Calls -> Call]
    BY <1>t, <2>1 DEF NoneOpened
  <2>3. TypeOK'
    BY <1>t, <2>1, <2>2 DEF TypeOK
  <2> QED BY <2>1, <2>2, <2>3, GatewayFrame
<1>8. ASSUME NEW c \in Calls, handleDuitkuPay(c) PROVE GatewayInv'
  <2> DEFINE o == call[c].order
  <2>1. /\ o \in Orders /\ o \in rows /\ site[o].status = "pending"
        /\ site' = [site EXCEPT ![o].status = "paid"]
        /\ UNCHANGED <<attempt, rows, settled, call>>
    BY <1>t, <1>8 DEF handleDuitkuPay, Payable, LinksKnown, Asking
  <2> HIDE DEF o
  <2>2. /\ \A p \in Orders \ {o} : site'[p] = site[p]
        /\ site'[o].status = "paid" /\ site'[o].count = site[o].count
    BY <1>t, <2>1
  <2>3. TypeOK'
    BY <1>t, <2>1 DEF TypeOK
  <2>4. \A p \in Orders : site'[p].count = site[p].count
    BY <2>2
  <2>5. OrdersReserved'
    BY <1>t, <2>1, <2>2, <2>4 DEF OrdersReserved, Asking
  <2>6. LinksKnown' /\ OneTxPerOrder' /\ PaidIsKnown'
    BY <1>t, <2>1, <2>2, <2>4 DEF LinksKnown, OneTxPerOrder, PaidIsKnown, Asking
  <2>7. ClosedIsFinal'
    <3>1. o \notin settled.paid /\ o \notin settled.expired
      BY <1>t, <2>1 DEF ClosedIsFinal
    <3> QED BY <1>t, <2>1, <2>2, <3>1 DEF ClosedIsFinal
  <2> QED BY <2>3, <2>5, <2>6, <2>7 DEF GatewayInv
<1>9. ASSUME NEW c \in Calls, CheckTransaction(c) PROVE GatewayInv'
  <2> DEFINE o == call[c].order
             s == handleDuitkuTransactionStatus(c)
  <2>1. UNCHANGED <<site, attempt, rows>> /\ o \in Orders
    BY <1>t, <1>9 DEF CheckTransaction, LinksKnown
  <2>2. NoneOpened /\ call' \in [Calls -> Call]
    <3>1. CASE Failed(c)
      BY <1>t, <3>1, FailedEnds
    <3>2. CASE call' = [call EXCEPT ![c] = Idle]
      BY <1>t, <3>2 DEF NoneOpened
    <3> QED BY <1>9, <3>1, <3>2 DEF CheckTransaction
  <2>3. CASE settled' = settled
    <3>1. TypeOK'
      BY <1>t, <2>1, <2>2, <2>3 DEF TypeOK
    <3> QED BY <2>1, <2>2, <2>3, <3>1, GatewayFrame
  <2>4. CASE s \in {"paid", "expired"} /\ settled' = [settled EXCEPT ![s] = @ \cup {o}]
    <3>1. site[o].status = s
      BY <2>4 DEF handleDuitkuTransactionStatus
    <3> HIDE DEF o, s
    <3>2. /\ settled'.paid = IF s = "paid" THEN settled.paid \cup {o} ELSE settled.paid
          /\ settled'.expired = IF s = "expired" THEN settled.expired \cup {o} ELSE settled.expired
          /\ settled' \in [paid : SUBSET Orders, expired : SUBSET Orders]
      BY <1>t, <2>1, <2>4
    <3>3. TypeOK'
      BY <1>t, <2>1, <2>2, <3>2 DEF TypeOK
    <3>4. ClosedIsFinal'
      BY <1>t, <2>1, <3>1, <3>2 DEF ClosedIsFinal
    <3> QED BY <1>t, <2>1, <2>2, <3>3, <3>4, GatewayRest DEF GatewayInv
  <2> QED BY <1>9, <2>3, <2>4 DEF CheckTransaction
<1>10. ASSUME NEW c \in Calls, NEW o \in Orders, sendDuitkuCallback(c, o) \/ ReconcileOne(c, o)
       PROVE  GatewayInv'
  <2>1. UNCHANGED <<site, attempt, rows, settled>>
    BY <1>10 DEF sendDuitkuCallback, ReconcileOne
  <2>2. \/ call' = call
        \/ \E k \in 0 .. MaxKeys : call' = [call EXCEPT ![c] =
              [op |-> "status", order |-> o, tries |-> 0, key |-> k, at |-> "send"]]
    BY <1>10 DEF sendDuitkuCallback, ReconcileOne, HandleCallback, Start
  <2>3. NoneOpened /\ call' \in [Calls -> Call]
    BY <1>t, <1>o, <2>2 DEF NoneOpened
  <2>4. TypeOK'
    BY <1>t, <2>1, <2>3 DEF TypeOK
  <2> QED BY <2>1, <2>3, <2>4, GatewayFrame
<1> QED BY <1>1, <1>2, <1>3, <1>4, <1>5, <1>6, <1>7, <1>8, <1>9, <1>10 DEF Next

\* Whatever is lost, repeated or under way at once, and for any number of calls
\* and retries: no order id is used for two transactions at the gateway, what
\* was paid has a row, and what was closed here is final there.
THEOREM PaymentsKnown ==
    MaxOrders \in Nat /\ MaxKeys \in Nat
        => (Spec => [](OneTxPerOrder /\ PaidIsKnown /\ ClosedIsFinal))
<1> SUFFICES ASSUME MaxOrders \in Nat, MaxKeys \in Nat
             PROVE  Spec => [](OneTxPerOrder /\ PaidIsKnown /\ ClosedIsFinal)
  OBVIOUS
<1>1. GatewayInv /\ [Next]_vars => GatewayInv'
  BY GatewayStep
<1>2. GatewayInv => OneTxPerOrder /\ PaidIsKnown /\ ClosedIsFinal
  BY DEF GatewayInv
<1> QED BY <1>1, <1>2, GatewayInit, PTL DEF Spec
=============================================================================
