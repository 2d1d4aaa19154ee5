--------------------------- MODULE OrderingProofs ---------------------------
(***************************************************************************)
(* Proofs about Ordering, for any number of orders, items and workers, any   *)
(* stock and any limit of the coupon.                                        *)
(***************************************************************************)
EXTENDS Ordering, FiniteSetTheorems, TLAPS

\* What the tables and settings hold: every item is a line of one order, carts
\* are finite, and quantities and limits are not negative.
Configured ==
    /\ OrderOf \in [Items -> Orders]
    /\ Item \in [Items -> ItemType]
    /\ IsFiniteSet(Items)
    /\ Stock \in Nat /\ MaxUses \in Nat

-----------------------------------------------------------------------------
(* Type correctness.                                                         *)

(* The fields a worker's local state has, by its program counter.            *)
LEMMA JobFields ==
    ASSUME NEW j \in Job
    PROVE  /\ j.pc \in {"idle", "place", "autopay", "autosetup", "activate", "commit", "terminal", "void"}
           /\ j.pc # "idle" => j.order \in Orders
           /\ j.pc = "place" => j.fraud \in BOOLEAN
           /\ j.pc \in {"activate", "commit"} =>
                /\ j.items \subseteq Items /\ j.pays \in BOOLEAN /\ j.accepts \in BOOLEAN
                /\ j.seen \in OrderStatus
                /\ [j EXCEPT !.pc = "commit"] \in Job
                /\ [j EXCEPT !.pc = "commit"] =
                     [pc |-> "commit", order |-> j.order, items |-> j.items, pays |-> j.pays,
                      seen |-> j.seen, accepts |-> j.accepts]
           /\ j.pc = "terminal" => j.to \in {"fraud", "cancelled"} /\ j.seen \in OrderStatus
           /\ j.pc = "void" => j.to \in {"fraud", "cancelled"} /\ j.voids \in BOOLEAN
  BY DEF Job

LEMMA TypeInit == Configured /\ Init => TypeOK
  BY DEF Init, TypeOK, OrderStatus, InvoiceStatus, Job, Idle, Configured

(* The stock is counted with whole numbers.                                  *)
LEMMA Counts ==
    ASSUME Configured, NEW o
    PROVE  /\ Cardinality(Stocked(o)) \in Nat
           /\ Cardinality(Restored(o)) \in Nat
<1>1. Stocked(o) \subseteq Items /\ Restored(o) \subseteq Items
  BY DEF Stocked, Restored, Content
<1> QED BY <1>1, FS_Subset, FS_CardinalityType DEF Configured

LEMMA TypeStep == Configured /\ TypeOK /\ [Next]_vars => TypeOK'
<1> SUFFICES ASSUME Configured, TypeOK, [Next]_vars PROVE TypeOK'
  OBVIOUS
<1> USE DEF TypeOK
<1>1. ASSUME NEW o \in Orders, CancelInvoice(o) PROVE TypeOK'
  BY <1>1 DEF CancelInvoice, InvoiceStatus
<1>2. ASSUME NEW w \in Workers, NEW o \in Orders, Begin(w, o) PROVE TypeOK'
  <2>0. order[o] \in OrderStatus /\ Content(o) \subseteq Items
    BY DEF Content
  <2>1. ASSUME NEW b \in BOOLEAN, CreateOrder(w, o, b) PROVE TypeOK'
    BY <2>1 DEF CreateOrder, Job
  <2>2. CASE ActivateOrder(w, o)
    BY <2>0, <2>2 DEF ActivateOrder, Job
  <2>3. CASE ApplyPayment(w, o)
    BY <2>0, <2>3 DEF ApplyPayment, Job
  <2>4. ASSUME NEW to \in {"fraud", "cancelled"}, SetTerminalStatus(w, o, to) PROVE TypeOK'
    BY <2>0, <2>4 DEF SetTerminalStatus, Job
  <2> QED BY <1>2, <2>1, <2>2, <2>3, <2>4 DEF Begin
<1>3. ASSUME NEW w \in Workers, Proceed(w) PROVE TypeOK'
  <2>0. job[w] \in Job
    OBVIOUS
  <2>1. CASE PlaceFraud(w)
    BY <2>0, <2>1, JobFields DEF PlaceFraud, OrderStatus, InvoiceStatus, Job, Idle
  <2>2. CASE PlaceOrder(w)
    <3> DEFINE o == job[w].order
               next == CASE o \in Free -> [pc |-> "autopay", order |-> o]
                         [] o \notin Free /\ AllAutoSetupOnOrder(o) -> [pc |-> "autosetup", order |-> o]
                         [] OTHER -> Idle
    <3>1. o \in Orders
      BY <2>0, <2>2, JobFields DEF PlaceOrder
    <3>2. next \in Job
      BY <3>1 DEF Job, Idle
    <3>3. job' = [job EXCEPT ![w] = next]
      BY <2>2 DEF PlaceOrder
    <3> HIDE DEF next
    <3>4. stock' \in Int /\ used' \in Nat
      BY <2>2, Counts DEF PlaceOrder, DecrementStock, IncrementUsage
    <3> QED BY <2>2, <3>1, <3>2, <3>3, <3>4 DEF PlaceOrder, OrderStatus, InvoiceStatus
  <2>3. CASE Enqueue(w)
    <3>1. job[w].items \subseteq Items /\ [job[w] EXCEPT !.pc = "commit"] \in Job
      BY <2>0, <2>3, JobFields DEF Enqueue
    <3> QED BY <2>3, <3>1 DEF Enqueue
  <2>4. CASE Activate(w)
    <3>1. job[w].items \subseteq Items /\ job[w].order \in Orders
      BY <2>0, <2>4, JobFields DEF Activate
    <3> QED BY <2>4, <3>1 DEF Activate, OrderStatus, InvoiceStatus, Job, Idle
  <2>5. CASE TakeOrder(w)
    <3>1. job[w].order \in Orders /\ job[w].to \in {"fraud", "cancelled"}
      BY <2>0, <2>5, JobFields DEF TakeOrder
    <3> QED BY <2>5, <3>1 DEF TakeOrder, Job
  <2>6. CASE FinishTerminal(w)
    <3>1. job[w].order \in Orders /\ job[w].to \in {"fraud", "cancelled"}
      BY <2>0, <2>6, JobFields DEF FinishTerminal
    <3> QED BY <2>6, <3>1, Counts DEF FinishTerminal, OrderStatus, InvoiceStatus, Job, Idle
  <2>7. CASE Rollback(w)
    BY <2>7 DEF Rollback, Job, Idle
  <2> QED BY <1>3, <2>1, <2>2, <2>3, <2>4, <2>5, <2>6, <2>7 DEF Proceed
<1>4. CASE UNCHANGED vars
  BY <1>4 DEF vars
<1> QED BY <1>1, <1>2, <1>3, <1>4 DEF Next

(* No handler writes a value outside its column.                             *)
THEOREM TypeCorrect == Configured => (Spec => []TypeOK)
<1> SUFFICES ASSUME Configured PROVE Spec => []TypeOK
  OBVIOUS
<1>1. Init => TypeOK
  BY TypeInit
<1>2. TypeOK /\ [Next]_vars => TypeOK'
  BY TypeStep
<1> QED BY <1>1, <1>2, PTL DEF Spec

-----------------------------------------------------------------------------
(* Delivery, in every interleaving.                                          *)

\* What a worker that activates an order has read is still of use when it
\* commits: with the back-refs it makes the order whole, its jobs are queued
\* before its rows exist, and without a payment or an administrator it has no
\* domain to register.
Activating(w) == job[w].pc \in {"activate", "commit"}
Work(w) ==
    /\ Activating(w) =>
         /\ job[w].items \subseteq Content(job[w].order)
         /\ Content(job[w].order) \subseteq refs \cup job[w].items
         /\ job[w].pays \/ job[w].accepts \/ AllAutoSetupOnOrder(job[w].order)
    /\ job[w].pc = "commit" => \A i \in job[w].items : Automatic(i) => i \in queue
    /\ job[w].pc = "autosetup" => AllAutoSetupOnOrder(job[w].order)

DeliveryInv == OrdersDelivered /\ \A w \in Workers : Work(w)

(* Back-refs and queued jobs are never taken back, so a step of one worker   *)
(* leaves what the others have read good.                                    *)
LEMMA OthersWork ==
    ASSUME NEW v, Work(v), job'[v] = job[v], refs \subseteq refs', queue \subseteq queue'
    PROVE  Work(v)'
  BY DEF Work, Activating, Content, Automatic, AllAutoSetupOnOrder

(* A step that changes neither rows, back-refs, jobs, payments nor the       *)
(* status "active" keeps what was delivered.                                 *)
LEMMA PlainDelivery ==
    ASSUME OrdersDelivered, UNCHANGED <<refs, rows, accepted, settled>>, queue \subseteq queue',
           \A o \in Orders : order'[o] = "active" => order[o] = "active",
           stock' >= 0, MaxUses > 0 => used' <= MaxUses
    PROVE  OrdersDelivered'
  BY DEF OrdersDelivered, StockNotNegative, CouponWithinLimit, PaidIsDelivered, RowsHaveJobs, DomainsArePaidFor,
         Content, Automatic

LEMMA DeliveryStep == Configured /\ TypeOK /\ DeliveryInv /\ [Next]_vars => DeliveryInv'
<1> SUFFICES ASSUME Configured, TypeOK, DeliveryInv, [Next]_vars PROVE DeliveryInv'
  OBVIOUS
<1>0. stock >= 0 /\ (MaxUses > 0 => used <= MaxUses)
  BY DEF DeliveryInv, OrdersDelivered, StockNotNegative, CouponWithinLimit
<1>1. ASSUME NEW o \in Orders, CancelInvoice(o) PROVE DeliveryInv'
  <2>1. OrdersDelivered'
    BY <1>0, <1>1, PlainDelivery DEF CancelInvoice, DeliveryInv
  <2> QED BY <1>1, <2>1, OthersWork DEF CancelInvoice, DeliveryInv
<1>2. ASSUME NEW w \in Workers, NEW o \in Orders, Begin(w, o) PROVE DeliveryInv'
  <2>1. UNCHANGED <<order, invoice, refs, rows, queue, stock, used, accepted, settled>>
    BY <1>2 DEF Begin, CreateOrder, ActivateOrder, ApplyPayment, SetTerminalStatus
  <2>2. OrdersDelivered'
    BY <1>0, <2>1, PlainDelivery DEF DeliveryInv
  <2>3. ASSUME NEW v \in Workers, v # w PROVE Work(v)'
    <3>1. job'[v] = job[v]
      BY <1>2, <2>3 DEF Begin, CreateOrder, ActivateOrder, ApplyPayment, SetTerminalStatus, TypeOK
    <3> QED BY <2>1, <3>1, OthersWork DEF DeliveryInv
  <2>4. Work(w)'
    <3>1. ASSUME NEW b \in BOOLEAN, CreateOrder(w, o, b) PROVE Work(w)'
      BY <3>1 DEF CreateOrder, Work, Activating, TypeOK
    <3>2. CASE ActivateOrder(w, o)
      <4>1. job[w] = Idle \/ AllAutoSetupOnOrder(o)
        BY <3>2 DEF ActivateOrder, Work, DeliveryInv
      <4>2. AllAutoSetupOnOrder(o)' <=> AllAutoSetupOnOrder(o)
        BY DEF AllAutoSetupOnOrder, Content
      <4>3. job'[w] = [pc |-> "activate", order |-> o, items |-> Content(o) \ refs,
                       pays |-> FALSE, seen |-> order[o], accepts |-> job[w] = Idle]
        BY <3>2 DEF ActivateOrder, TypeOK
      <4>4. /\ job'[w].pc = "activate" /\ job'[w].order = o /\ job'[w].items = Content(o) \ refs
            /\ job'[w].accepts = (job[w] = Idle)
        BY <4>3
      <4> QED BY <2>1, <4>1, <4>2, <4>4 DEF Work, Activating, Content
    <3>3. CASE ApplyPayment(w, o)
      <4>1. order[o] = "active" => Content(o) \subseteq refs
        BY DEF DeliveryInv, OrdersDelivered, PaidIsDelivered
      <4> QED BY <3>3, <4>1 DEF ApplyPayment, Work, Activating, TypeOK, Content
    <3>4. ASSUME NEW to \in {"fraud", "cancelled"}, SetTerminalStatus(w, o, to) PROVE Work(w)'
      BY <3>4 DEF SetTerminalStatus, Work, Activating, TypeOK
    <3> QED BY <1>2, <3>1, <3>2, <3>3, <3>4 DEF Begin
  <2> QED BY <2>2, <2>3, <2>4 DEF DeliveryInv
<1>3. ASSUME NEW w \in Workers, Proceed(w) PROVE DeliveryInv'
  <2>0. job[w] \in Job /\ Work(w)
    BY DEF TypeOK, DeliveryInv
  <2>1. ASSUME NEW v \in Workers, v # w PROVE job'[v] = job[v]
    BY <1>3, <2>1 DEF Proceed, PlaceFraud, PlaceOrder, Enqueue, Activate, TakeOrder, FinishTerminal, Rollback, TypeOK
  <2>2. refs \subseteq refs' /\ queue \subseteq queue'
    BY <1>3 DEF Proceed, PlaceFraud, PlaceOrder, Enqueue, Activate, TakeOrder, FinishTerminal, Rollback
  <2>3. \A v \in Workers : v # w => Work(v)'
    BY <2>1, <2>2, OthersWork DEF DeliveryInv
  <2>4. Work(w)'
    <3>1. CASE job'[w] = Idle
      BY <3>1 DEF Idle, Work, Activating
    <3>2. CASE PlaceOrder(w)
      BY <3>2 DEF PlaceOrder, Work, Activating, TypeOK, Idle, AllAutoSetupOnOrder, Content
    <3>3. CASE Enqueue(w)
      <4>1. job'[w] = [job[w] EXCEPT !.pc = "commit"] /\ refs' = refs
        BY <3>3 DEF Enqueue, TypeOK
      <4>2. /\ job'[w].pc = "commit" /\ job'[w].items = job[w].items /\ job'[w].order = job[w].order
            /\ job'[w].pays = job[w].pays /\ job'[w].accepts = job[w].accepts
        <5>1. job'[w] = [pc |-> "commit", order |-> job[w].order, items |-> job[w].items, pays |-> job[w].pays,
                         seen |-> job[w].seen, accepts |-> job[w].accepts]
          BY <2>0, <3>3, <4>1, JobFields DEF Enqueue
        <5> QED BY <5>1
      <4> QED BY <2>0, <3>3, <4>1, <4>2 DEF Enqueue, Work, Activating, AllAutoSetupOnOrder, Content, Automatic
    <3>4. CASE TakeOrder(w)
      BY <3>4 DEF TakeOrder, Work, Activating, TypeOK
    <3> QED BY <1>3, <3>1, <3>2, <3>3, <3>4 DEF Proceed, PlaceFraud, Activate, FinishTerminal, Rollback, TypeOK
  <2>5. OrdersDelivered'
    <3>1. CASE PlaceFraud(w)
      BY <1>0, <3>1, PlainDelivery DEF PlaceFraud, DeliveryInv, TypeOK
    <3>2. CASE PlaceOrder(w)
      <4>1. stock' >= 0 /\ (MaxUses > 0 => used' <= MaxUses)
        BY <1>0, <3>2, Counts DEF PlaceOrder, DecrementStock, IncrementUsage, TypeOK, Configured
      <4> QED BY <3>2, <4>1, PlainDelivery DEF PlaceOrder, DeliveryInv, TypeOK
    <3>3. CASE Enqueue(w)
      BY <1>0, <2>2, <3>3, PlainDelivery DEF Enqueue, DeliveryInv
    <3>4. CASE Activate(w)
      <4> DEFINE o == job[w].order
      <4>1. /\ o \in Orders /\ job[w].items \subseteq Content(o)
            /\ Content(o) \subseteq refs \cup job[w].items
            /\ job[w].pays \/ job[w].accepts \/ AllAutoSetupOnOrder(o)
            /\ \A i \in job[w].items : Automatic(i) => i \in queue
        BY <2>0, <3>4, JobFields DEF Activate, Work, Activating
      <4>2. StockNotNegative' /\ CouponWithinLimit'
        BY <1>0, <3>4 DEF Activate, StockNotNegative, CouponWithinLimit
      <4>3. PaidIsDelivered'
        BY <3>4, <4>1 DEF Activate, PaidIsDelivered, DeliveryInv, OrdersDelivered, TypeOK, Content
      <4>4. RowsHaveJobs'
        BY <3>4, <4>1 DEF Activate, RowsHaveJobs, DeliveryInv, OrdersDelivered, TypeOK, Automatic
      <4>5. DomainsArePaidFor'
        <5> SUFFICES ASSUME NEW i \in Items, Item[i].domain, rows'[i] > 0
                     PROVE  OrderOf[i] \in settled' \cup accepted' /\ rows'[i] = 1
          BY DEF DomainsArePaidFor
        <5>1. CASE i \in job[w].items
          <6>1. OrderOf[i] = o /\ i \in Content(o)
            BY <4>1, <5>1 DEF Content
          <6>2. job[w].pays \/ job[w].accepts
            BY <4>1, <6>1 DEF AllAutoSetupOnOrder
          <6>3. rows'[i] = 1
            BY <3>4, <5>1 DEF Activate, TypeOK
          <6> QED BY <3>4, <6>1, <6>2, <6>3 DEF Activate
        <5>2. CASE i \notin job[w].items
          <6>1. rows'[i] = rows[i] /\ settled \subseteq settled' /\ accepted \subseteq accepted'
            BY <3>4, <5>2 DEF Activate
          <6> QED BY <6>1 DEF DeliveryInv, OrdersDelivered, DomainsArePaidFor
        <5> QED BY <5>1, <5>2
      <4> QED BY <4>2, <4>3, <4>4, <4>5 DEF OrdersDelivered
    <3>5. CASE TakeOrder(w) \/ Rollback(w)
      BY <1>0, <3>5, PlainDelivery DEF TakeOrder, Rollback, DeliveryInv
    <3>6. CASE FinishTerminal(w)
      <4>1. job[w].to \in {"fraud", "cancelled"} /\ job[w].order \in Orders
        BY <2>0, <3>6, JobFields DEF FinishTerminal
      <4>2. stock' >= 0
        BY <1>0, <3>6, Counts DEF FinishTerminal, TypeOK
      <4> QED BY <1>0, <3>6, <4>1, <4>2, PlainDelivery DEF FinishTerminal, DeliveryInv, TypeOK
    <3> QED BY <1>3, <3>1, <3>2, <3>3, <3>4, <3>5, <3>6 DEF Proceed
  <2> QED BY <2>3, <2>4, <2>5 DEF DeliveryInv
<1>4. CASE UNCHANGED vars
  <2>1. OrdersDelivered'
    BY <1>0, <1>4, PlainDelivery DEF vars, DeliveryInv
  <2> QED BY <1>4, <2>1, OthersWork DEF vars, DeliveryInv
<1> QED BY <1>1, <1>2, <1>3, <1>4 DEF Next

(* Whatever crosses: stock and coupon are not oversold, what is paid or      *)
(* active has all its rows, rows have their jobs, and no domain is ordered   *)
(* unpaid or twice (CreateOrder, ActivateOrder).                             *)
THEOREM Delivered == Configured => (Spec => []OrdersDelivered)
<1> SUFFICES ASSUME Configured PROVE Spec => []OrdersDelivered
  OBVIOUS
<1>1. Init => DeliveryInv
  BY DEF Init, DeliveryInv, OrdersDelivered, StockNotNegative, CouponWithinLimit, PaidIsDelivered, RowsHaveJobs,
     DomainsArePaidFor, Work, Activating, Idle, Configured
<1>2. TypeOK /\ DeliveryInv /\ [Next]_vars => DeliveryInv'
  BY DeliveryStep
<1>3. DeliveryInv => OrdersDelivered
  BY DEF DeliveryInv
<1>4. Spec => []TypeOK
  BY TypeCorrect
<1> QED BY <1>1, <1>2, <1>3, <1>4, PTL DEF Spec

-----------------------------------------------------------------------------
(* Conservation, when no order changes between a worker's read and its       *)
(* transaction.                                                              *)

\* A worker that places an order is the only one to and the order does not
\* exist yet; one that closes an order holds it pending; one that activates an
\* order read it pending or active, and an order read active stays so.
Place(w) == job[w].pc = "place" => order[job[w].order] = "none"
Close(w) ==
    /\ job[w].pc = "terminal" => job[w].seen = "pending"
    /\ job[w].pc = "void" => order[job[w].order] = "pending"
Open(w) ==
    Activating(w) =>
        /\ job[w].seen \in {"pending", "active"}
        /\ job[w].seen = "active" => order[job[w].order] = "active" /\ job[w].items = {}
        /\ job[w].items \subseteq Content(job[w].order)
Alone(pc) ==
    \A v, w \in Workers :
        v # w /\ job[v].pc = pc /\ job[w].pc = pc => job[v].order # job[w].order

\* Only an active order has rows, at most one for an item, or was paid.
OnlyActive ==
    \A o \in Orders : order[o] # "active" => o \notin settled /\ \A i \in Content(o) : rows[i] = 0

QuietInv ==
    /\ \A w \in Workers : Place(w) /\ Close(w) /\ Open(w)
    /\ Alone("place") /\ Alone("void")
    /\ OnlyActive /\ OneRowPerItem

(* The status and the lock under which a step of a worker changes an order.  *)
LEMMA OrderMoves ==
    ASSUME Overlap = FALSE, TypeOK, QuietInv, NEW w \in Workers, Proceed(w)
    PROVE  /\ PlaceFraud(w) \/ PlaceOrder(w) => order[job[w].order] = "none"
           /\ Activate(w) /\ Moves(w) => order[job[w].order] = "pending" /\ ~OrderLocked(job[w].order)
           /\ Activate(w) /\ ~Moves(w) => order[job[w].order] = "active" /\ job[w].items = {}
           /\ TakeOrder(w) => order[job[w].order] = "pending" /\ ~OrderLocked(job[w].order)
           /\ FinishTerminal(w) => order[job[w].order] = "pending"
<1>1. Place(w) /\ Close(w) /\ Open(w)
  BY DEF QuietInv
<1>2. PlaceFraud(w) \/ PlaceOrder(w) => order[job[w].order] = "none"
  BY <1>1 DEF PlaceFraud, PlaceOrder, Place
<1>3. Activate(w) => job[w].seen \in {"pending", "active"} /\ Activating(w)
  BY <1>1 DEF Activate, Open, Activating
<1>4. Activate(w) /\ Moves(w) => order[job[w].order] = "pending" /\ ~OrderLocked(job[w].order)
  BY <1>3 DEF Activate, Moves, Undisturbed
<1>5. Activate(w) /\ ~Moves(w) => order[job[w].order] = "active" /\ job[w].items = {}
  BY <1>1, <1>3 DEF Moves, Open
<1>6. TakeOrder(w) => order[job[w].order] = "pending" /\ ~OrderLocked(job[w].order)
  BY <1>1 DEF TakeOrder, Undisturbed, Close
<1>7. FinishTerminal(w) => order[job[w].order] = "pending"
  BY <1>1 DEF FinishTerminal, Close
<1> QED BY <1>2, <1>4, <1>5, <1>6, <1>7

(* An order moves along orderTransitions, one at a time.                     *)
LEMMA OrderStepHolds ==
    ASSUME Overlap = FALSE, TypeOK, QuietInv, Next
    PROVE  OrderStep
<1>1. CASE \E o \in Orders : CancelInvoice(o)
  BY <1>1 DEF CancelInvoice, OrderStep
<1>2. ASSUME NEW w \in Workers, NEW o \in Orders, Begin(w, o) PROVE OrderStep
  BY <1>2 DEF Begin, CreateOrder, ActivateOrder, ApplyPayment, SetTerminalStatus, OrderStep
<1>3. ASSUME NEW w \in Workers, Proceed(w) PROVE OrderStep
  <2>0. job[w] \in Job
    BY DEF TypeOK
  <2>1. CASE PlaceFraud(w) \/ PlaceOrder(w)
    BY <1>3, <2>1, OrderMoves DEF PlaceFraud, PlaceOrder, OrderStep, TypeOK
  <2>2. CASE Activate(w)
    BY <1>3, <2>2, OrderMoves DEF Activate, OrderStep, TypeOK
  <2>3. CASE FinishTerminal(w)
    <3>1. job[w].to \in {"fraud", "cancelled"}
      BY <2>0, <2>3, JobFields DEF FinishTerminal
    <3> QED BY <1>3, <2>3, <3>1, OrderMoves DEF FinishTerminal, OrderStep, TypeOK
  <2>4. CASE Enqueue(w) \/ TakeOrder(w) \/ Rollback(w)
    BY <2>4 DEF Enqueue, TakeOrder, Rollback, OrderStep
  <2> QED BY <1>3, <2>1, <2>2, <2>3, <2>4 DEF Proceed
<1> QED BY <1>1, <1>2, <1>3 DEF Next

(* What worker v knows of its order survives a step that leaves v alone and  *)
(* does not move an order v places or closes.                                *)
LEMMA OthersKnow ==
    ASSUME OrderStep, NEW v \in Workers, job'[v] = job[v], job[v] \in Job, Place(v), Close(v), Open(v),
           job[v].pc \in {"place", "void"} => order'[job[v].order] = order[job[v].order]
    PROVE  Place(v)' /\ Close(v)' /\ Open(v)'
<1>1. Activating(v) => job[v].order \in Orders
  BY JobFields DEF Activating
<1>2. Activating(v) /\ order[job[v].order] = "active" => order'[job[v].order] = "active"
  BY <1>1 DEF OrderStep
<1> QED BY <1>2 DEF Place, Close, Open, Activating, Content

LEMMA QuietStep == Overlap = FALSE /\ TypeOK /\ QuietInv /\ [Next]_vars => QuietInv'
<1> SUFFICES ASSUME Overlap = FALSE, TypeOK, QuietInv, [Next]_vars PROVE QuietInv'
  OBVIOUS
<1>1. ASSUME NEW o \in Orders, CancelInvoice(o) PROVE QuietInv'
  BY <1>1 DEF CancelInvoice, QuietInv, Place, Close, Open, Activating, Content, Alone, OnlyActive, OneRowPerItem
<1>2. ASSUME NEW w \in Workers, NEW o \in Orders, Begin(w, o), OrderStep PROVE QuietInv'
  <2>1. UNCHANGED <<order, invoice, refs, rows, queue, stock, used, accepted, settled>>
    BY <1>2 DEF Begin, CreateOrder, ActivateOrder, ApplyPayment, SetTerminalStatus
  <2>2. ASSUME NEW v \in Workers, v # w PROVE job'[v] = job[v]
    BY <1>2, <2>2 DEF Begin, CreateOrder, ActivateOrder, ApplyPayment, SetTerminalStatus, TypeOK
  <2>3. ASSUME NEW v \in Workers, v # w PROVE Place(v)' /\ Close(v)' /\ Open(v)'
    BY <1>2, <2>1, <2>2, <2>3, OthersKnow DEF QuietInv, TypeOK
  <2>4. /\ Place(w)' /\ Close(w)' /\ Open(w)'
        /\ job'[w].pc = "place" => \A v \in Workers : v # w /\ job[v].pc = "place" => job[v].order # job'[w].order
        /\ job'[w].pc # "void"
    <3>1. ASSUME NEW b \in BOOLEAN, CreateOrder(w, o, b) PROVE <2>4!:
      BY <3>1 DEF CreateOrder, Place, Close, Open, Activating, TypeOK
    <3>2. CASE ActivateOrder(w, o)
      BY <3>2 DEF ActivateOrder, Place, Close, Open, Activating, TypeOK, Content
    <3>3. CASE ApplyPayment(w, o)
      BY <3>3 DEF ApplyPayment, Place, Close, Open, Activating, TypeOK, Content
    <3>4. ASSUME NEW to \in {"fraud", "cancelled"}, SetTerminalStatus(w, o, to) PROVE <2>4!:
      BY <3>4 DEF SetTerminalStatus, Place, Close, Open, Activating, TypeOK
    <3> QED BY <1>2, <3>1, <3>2, <3>3, <3>4 DEF Begin
  <2>5. Alone("place")' /\ Alone("void")'
    BY <2>2, <2>4 DEF QuietInv, Alone
  <2> QED BY <2>1, <2>3, <2>4, <2>5 DEF QuietInv, OnlyActive, OneRowPerItem, Content
<1>3. ASSUME NEW w \in Workers, Proceed(w), OrderStep PROVE QuietInv'
  <2> DEFINE o == job[w].order
  <2>0. job[w] \in Job /\ job[w] # Idle /\ o \in Orders
    BY <1>3, JobFields DEF TypeOK, Proceed, PlaceFraud, PlaceOrder, Enqueue, Activate, TakeOrder, FinishTerminal,
       Rollback, Idle, Job
  <2>1. ASSUME NEW v \in Workers, v # w PROVE job'[v] = job[v]
    BY <1>3, <2>1 DEF Proceed, PlaceFraud, PlaceOrder, Enqueue, Activate, TakeOrder, FinishTerminal, Rollback, TypeOK
  <2>2. \A p \in Orders : p # o => order'[p] = order[p]
    BY <1>3, <2>0 DEF Proceed, PlaceFraud, PlaceOrder, Enqueue, Activate, TakeOrder, FinishTerminal, Rollback, TypeOK
  <2>3. ASSUME NEW v \in Workers, v # w, job[v].pc \in {"place", "void"}, job[v].order = o
        PROVE order'[o] = order[o]
    <3>1. job[v].pc = "place" => order[o] = "none"
      BY <2>3 DEF QuietInv, Place
    <3>2. job[v].pc = "void" => order[o] = "pending" /\ OrderLocked(o)
      BY <2>3 DEF QuietInv, Close, OrderLocked
    <3>3. CASE PlaceFraud(w) \/ PlaceOrder(w)
      <4>1. order[o] = "none" /\ job[w].pc = "place"
        BY <1>3, <3>3, OrderMoves DEF PlaceFraud, PlaceOrder
      <4> QED BY <2>3, <3>2, <4>1 DEF QuietInv, Alone
    <3>4. CASE Activate(w)
      BY <1>3, <2>3, <3>1, <3>2, <3>4, OrderMoves DEF Activate
    <3>5. CASE FinishTerminal(w)
      <4>1. order[o] = "pending" /\ job[w].pc = "void"
        BY <1>3, <3>5, OrderMoves DEF FinishTerminal
      <4> QED BY <2>3, <3>1, <4>1 DEF QuietInv, Alone
    <3>6. CASE Enqueue(w) \/ TakeOrder(w) \/ Rollback(w)
      BY <3>6 DEF Enqueue, TakeOrder, Rollback
    <3> QED BY <1>3, <3>3, <3>4, <3>5, <3>6 DEF Proceed
  <2>4. ASSUME NEW v \in Workers, v # w PROVE Place(v)' /\ Close(v)' /\ Open(v)'
    <3>1. job[v] \in Job
      BY DEF TypeOK
    <3>2. job[v].pc \in {"place", "void"} => order'[job[v].order] = order[job[v].order]
      BY <2>2, <2>3, <2>4, <3>1, JobFields
    <3> QED BY <1>3, <2>1, <2>4, <3>1, <3>2, OthersKnow DEF QuietInv
  <2>5. /\ Place(w)' /\ Close(w)' /\ Open(w)'
        /\ job'[w].pc # "place"
        /\ job'[w].pc = "void" => \A v \in Workers : v # w /\ job[v].pc = "void" => job[v].order # job'[w].order
    <3>1. CASE job'[w] = Idle
      BY <3>1 DEF Idle, Place, Close, Open, Activating
    <3>2. CASE PlaceOrder(w)
      <4>1. job'[w].pc \in {"autopay", "autosetup", "idle"}
        BY <3>2 DEF PlaceOrder, TypeOK, Idle
      <4> QED BY <4>1 DEF Place, Close, Open, Activating
    <3>3. CASE Enqueue(w)
      <4>1. job'[w] = [job[w] EXCEPT !.pc = "commit"] /\ order' = order
        BY <3>3 DEF Enqueue, TypeOK
      <4>2. job'[w] = [pc |-> "commit", order |-> job[w].order, items |-> job[w].items, pays |-> job[w].pays,
                       seen |-> job[w].seen, accepts |-> job[w].accepts]
        BY <2>0, <3>3, <4>1, JobFields DEF Enqueue
      <4>3. /\ job'[w].pc = "commit" /\ job'[w].items = job[w].items /\ job'[w].order = job[w].order
            /\ job'[w].seen = job[w].seen
        BY <4>2
      <4> QED BY <3>3, <4>1, <4>3 DEF QuietInv, Enqueue, Place, Close, Open, Activating, Content
    <3>4. CASE TakeOrder(w)
      <4>1. order[o] = "pending" /\ ~OrderLocked(o)
        BY <1>3, <3>4, OrderMoves
      <4>2. job'[w].pc = "void" /\ job'[w].order = o /\ order' = order
        BY <3>4 DEF TakeOrder, TypeOK
      <4> QED BY <4>1, <4>2 DEF Place, Close, Open, Activating, OrderLocked
    <3> QED BY <1>3, <3>1, <3>2, <3>3, <3>4 DEF Proceed, PlaceFraud, Activate, FinishTerminal, Rollback, TypeOK
  <2>6. Alone("place")' /\ Alone("void")'
    <3>1. Alone("place") /\ Alone("void")
      BY DEF QuietInv
    <3>2. Alone("place")'
      BY <2>1, <2>5, <3>1 DEF Alone
    <3>3. Alone("void")'
      BY <2>1, <2>5, <3>1 DEF Alone
    <3> QED BY <3>2, <3>3
  <2>7. OnlyActive' /\ OneRowPerItem'
    <3>1. CASE Activate(w)
      <4>1. job[w].items \subseteq Content(o)
        BY <3>1 DEF QuietInv, Open, Activating, Activate
      <4>2. CASE Moves(w)
        <5>1. order[o] = "pending" /\ order'[o] = "active" /\ \A i \in Content(o) : rows[i] = 0
          BY <1>3, <2>0, <3>1, <4>2, OrderMoves DEF QuietInv, OnlyActive, Activate, TypeOK
        <5>2. \A i \in Items : rows'[i] = IF i \in job[w].items THEN rows[i] + 1 ELSE rows[i]
          BY <3>1 DEF Activate
        <5>3. \A p \in Orders : p # o => \A i \in Content(p) : rows'[i] = rows[i]
          BY <4>1, <5>2 DEF Content
        <5>4. settled' \subseteq settled \cup {o}
          BY <3>1 DEF Activate
        <5>5. OnlyActive'
          BY <2>2, <5>1, <5>3, <5>4 DEF QuietInv, OnlyActive, Content
        <5>6. OneRowPerItem'
          BY <4>1, <5>1, <5>2 DEF QuietInv, OneRowPerItem, TypeOK
        <5> QED BY <5>5, <5>6
      <4>3. CASE ~Moves(w)
        <5>1. order[o] = "active" /\ job[w].items = {} /\ order' = order
          BY <1>3, <3>1, <4>3, OrderMoves DEF Activate
        <5>2. settled' \subseteq settled \cup {o} /\ \A i \in Items : rows'[i] = rows[i]
          BY <3>1, <5>1 DEF Activate
        <5> QED BY <5>1, <5>2 DEF QuietInv, OnlyActive, OneRowPerItem, Content
      <4> QED BY <4>2, <4>3
    <3>2. CASE ~Activate(w)
      <4>1. rows' = rows /\ settled' = settled
        BY <1>3, <3>2 DEF Proceed, PlaceFraud, PlaceOrder, Enqueue, TakeOrder, FinishTerminal, Rollback
      <4>2. \A p \in Orders : order[p] = "active" => order'[p] = "active"
        BY <1>3 DEF OrderStep
      <4> QED BY <4>1, <4>2 DEF QuietInv, OnlyActive, OneRowPerItem, Content
    <3> QED BY <3>1, <3>2
  <2> QED BY <2>4, <2>5, <2>6, <2>7 DEF QuietInv
<1>4. CASE UNCHANGED vars
  BY <1>4 DEF vars, QuietInv, Place, Close, Open, Activating, Content, Alone, OnlyActive, OneRowPerItem
<1> QED BY <1>1, <1>2, <1>3, <1>4, OrderStepHolds DEF Next

LEMMA Quiet == Configured /\ Overlap = FALSE => (Spec => [](TypeOK /\ QuietInv))
<1> SUFFICES ASSUME Configured, Overlap = FALSE PROVE Spec => [](TypeOK /\ QuietInv)
  OBVIOUS
<1>1. Init => QuietInv
  BY DEF Init, QuietInv, Place, Close, Open, Activating, Alone, OnlyActive, OneRowPerItem, Content, Idle
<1>2. TypeOK /\ QuietInv /\ [Next]_vars => QuietInv'
  BY QuietStep
<1>3. Spec => []TypeOK
  BY TypeCorrect
<1> QED BY <1>1, <1>2, <1>3, PTL DEF Spec

(* Orders move along their state machine: none leaves pending twice.         *)
THEOREM OneWay == Configured /\ Overlap = FALSE => (Spec => OrderLifecycle)
<1> SUFFICES ASSUME Configured, Overlap = FALSE PROVE Spec => OrderLifecycle
  OBVIOUS
<1>1. TypeOK /\ QuietInv /\ [Next]_vars => [OrderStep]_vars
  BY OrderStepHolds
<1>2. Spec => [](TypeOK /\ QuietInv)
  BY Quiet
<1> QED BY <1>1, <1>2, PTL DEF Spec, OrderLifecycle

-----------------------------------------------------------------------------
(* The stock. Cancellation restores product lines only (Restored), so the    *)
(* count is exact where only products are stocked.                           *)
NoStockedDomain == \A i \in Items : Item[i].stocked => ~Item[i].domain

\* The stocked items of the pending and active orders.
Held == {i \in Items : Item[i].stocked /\ order[OrderOf[i]] \in {"pending", "active"}}

(* Items added to, and taken from, a set are counted.                        *)
LEMMA CountTogether ==
    ASSUME NEW A, NEW B, IsFiniteSet(A), IsFiniteSet(B)
    PROVE  /\ A \cap B = {} => Cardinality(A \cup B) = Cardinality(A) + Cardinality(B)
           /\ A \cap B = B => Cardinality(A \ B) = Cardinality(A) - Cardinality(B)
<1>1. Cardinality(A) \in Nat /\ Cardinality(B) \in Nat /\ Cardinality({}) = 0
  BY FS_CardinalityType, FS_EmptySet
<1>2. Cardinality(A \cup B) = Cardinality(A) + Cardinality(B) - Cardinality(A \cap B)
  BY FS_Union
<1>3. Cardinality(A \ B) = Cardinality(A) - Cardinality(A \cap B)
  BY FS_Difference
<1>4. /\ A \cap B = {} => Cardinality(A \cap B) = 0
      /\ A \cap B = B => Cardinality(A \cap B) = Cardinality(B)
  BY <1>1, Zenon
<1>5. ASSUME A \cap B = {} PROVE Cardinality(A \cup B) = Cardinality(A) + Cardinality(B)
  <2>1. Cardinality(A \cap B) = 0
    BY <1>4, <1>5, Zenon
  <2> QED BY <1>1, <1>2, <2>1
<1>6. ASSUME A \cap B = B PROVE Cardinality(A \ B) = Cardinality(A) - Cardinality(B)
  BY <1>3, <1>4, <1>6, Zenon
<1> QED BY <1>5, <1>6

LEMMA HeldIsUnion ==
    ASSUME Configured
    PROVE  StockConserved <=> stock + Cardinality(Held) = Stock
<1>1. UNION {Stocked(o) : o \in {p \in Orders : order[p] \in {"pending", "active"}}} = Held
  BY DEF Configured, Held, Stocked, Content
<1> QED BY <1>1 DEF StockConserved

(* An order takes its stocked items when it is placed and gives them back    *)
(* when it is closed; activation leaves them with it.                        *)
LEMMA StockStep ==
    Configured /\ NoStockedDomain /\ Overlap = FALSE /\ TypeOK /\ QuietInv /\ StockConserved /\ [Next]_vars
        => StockConserved'
<1> SUFFICES ASSUME Configured, NoStockedDomain, Overlap = FALSE, TypeOK, QuietInv, StockConserved, [Next]_vars
             PROVE  StockConserved'
  OBVIOUS
<1>1. Held \subseteq Items /\ IsFiniteSet(Held) /\ IsFiniteSet(Items)
  BY FS_Subset DEF Held, Configured
<1>2. Cardinality(Held) \in Nat /\ stock + Cardinality(Held) = Stock
  BY <1>1, HeldIsUnion, FS_CardinalityType, Zenon
<1>3. StockConserved' <=> stock' + Cardinality(Held') = Stock
  <2>1. UNION {Stocked(o) : o \in {p \in Orders : order'[p] \in {"pending", "active"}}} = Held'
    BY DEF Configured, Held, Stocked, Content
  <2>2. UNION {Stocked(o) : o \in {p \in Orders : order'[p] \in {"pending", "active"}}}
          = (UNION {Stocked(o) : o \in {p \in Orders : order[p] \in {"pending", "active"}}})'
    BY DEF Stocked, Content
  <2> QED BY <2>1, <2>2 DEF StockConserved
<1>4. CASE \/ UNCHANGED vars
           \/ \E o \in Orders : CancelInvoice(o) \/ \E w \in Workers : Begin(w, o)
  <2>1. stock' = stock /\ order' = order
    BY <1>4 DEF vars, CancelInvoice, Begin, CreateOrder, ActivateOrder, ApplyPayment, SetTerminalStatus
  <2>2. Held' = Held
    BY <2>1 DEF Held
  <2> QED BY <1>2, <1>3, <2>1, <2>2
<1>5. ASSUME NEW w \in Workers, Proceed(w) PROVE StockConserved'
  <2> DEFINE o == job[w].order
             S == Stocked(o)
  <2>0. job[w] \in Job
    BY DEF TypeOK
  <2>1. S \subseteq Items /\ IsFiniteSet(S) /\ Cardinality(S) \in Nat
    BY <1>1, FS_Subset, Counts DEF Stocked, Content
  <2>2. CASE PlaceOrder(w)
    <3>1. o \in Orders /\ order[o] = "none"
      BY <1>5, <2>0, <2>2, JobFields, OrderMoves DEF PlaceOrder
    <3>2. order' = [order EXCEPT ![o] = "pending"] /\ stock' = stock - Cardinality(S)
      BY <2>2 DEF PlaceOrder, DecrementStock
    <3>3. Held' = Held \cup S /\ Held \cap S = {}
      BY <3>1, <3>2 DEF Held, Stocked, Content, Configured, TypeOK
    <3>4. Cardinality(Held') = Cardinality(Held) + Cardinality(S)
      <4> HIDE DEF S
      <4>1. Cardinality(Held \cup S) = Cardinality(Held) + Cardinality(S)
        BY <1>1, <2>1, <3>3, CountTogether
      <4> QED BY <3>3, <4>1
    <3> QED BY <1>2, <1>3, <2>1, <3>2, <3>4 DEF TypeOK
  <2>3. CASE FinishTerminal(w)
    <3>1. o \in Orders /\ order[o] = "pending" /\ job[w].to \in {"fraud", "cancelled"}
      BY <1>5, <2>0, <2>3, JobFields, OrderMoves DEF FinishTerminal
    <3>2. Restored(o) = S
      BY DEF Restored, Stocked, Content, NoStockedDomain
    <3>3. order' = [order EXCEPT ![o] = job[w].to] /\ stock' = stock + Cardinality(S)
      BY <2>3, <3>2 DEF FinishTerminal
    <3>4. Held' = Held \ S /\ Held \cap S = S
      BY <3>1, <3>3 DEF Held, Stocked, Content, Configured, TypeOK
    <3>5. Cardinality(Held') = Cardinality(Held) - Cardinality(S)
      <4> HIDE DEF S
      <4>1. Cardinality(Held \ S) = Cardinality(Held) - Cardinality(S)
        BY <1>1, <2>1, <3>4, CountTogether
      <4> QED BY <3>4, <4>1
    <3> QED BY <1>2, <1>3, <2>1, <3>3, <3>5 DEF TypeOK
  <2>4. CASE PlaceFraud(w) \/ Activate(w) \/ Enqueue(w) \/ TakeOrder(w) \/ Rollback(w)
    <3>1. stock' = stock
      BY <2>4 DEF PlaceFraud, Activate, Enqueue, TakeOrder, Rollback
    <3>2. \A p \in Orders : order'[p] \in {"pending", "active"} <=> order[p] \in {"pending", "active"}
      <4>1. CASE PlaceFraud(w)
        BY <1>5, <4>1, OrderMoves DEF PlaceFraud, TypeOK
      <4>2. CASE Activate(w)
        BY <1>5, <4>2, OrderMoves DEF Activate, TypeOK
      <4>3. CASE Enqueue(w) \/ TakeOrder(w) \/ Rollback(w)
        BY <4>3 DEF Enqueue, TakeOrder, Rollback
      <4> QED BY <2>4, <4>1, <4>2, <4>3
    <3>3. Held' = Held
      BY <3>2 DEF Held, Configured
    <3> QED BY <1>2, <1>3, <3>1, <3>3
  <2> QED BY <1>5, <2>2, <2>3, <2>4 DEF Proceed
<1> QED BY <1>4, <1>5 DEF Next

(* At most one row per item, none for a closed order, and the stock is what  *)
(* is left by the pending and active orders.                                 *)
THEOREM Conserved ==
    Configured /\ NoStockedDomain /\ Overlap = FALSE => (Spec => []OrdersConserved)
<1> SUFFICES ASSUME Configured, NoStockedDomain, Overlap = FALSE PROVE Spec => []OrdersConserved
  OBVIOUS
<1>1. Init => StockConserved
  <2> SUFFICES ASSUME Init PROVE StockConserved
    OBVIOUS
  <2>1. Held = {}
    BY DEF Init, Held, Configured
  <2> QED BY <2>1, HeldIsUnion, FS_EmptySet DEF Init, Configured
<1>2. TypeOK /\ QuietInv /\ StockConserved /\ [Next]_vars => StockConserved'
  BY StockStep
<1>3. Spec => [](TypeOK /\ QuietInv)
  BY Quiet
<1>4. QuietInv /\ StockConserved => OrdersConserved
  BY DEF QuietInv, OnlyActive, OrdersConserved, ClosedOrdersAreEmpty
<1> QED BY <1>1, <1>2, <1>3, <1>4, PTL DEF Spec
=============================================================================
