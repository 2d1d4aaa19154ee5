------------------------------ MODULE Coupons ------------------------------
(***************************************************************************)
(* One coupon through its life: quoted to a cart (catalog ValidateCoupon),  *)
(* taken by orders (orders CreateOrder), carried by the services an order   *)
(* activates, applied again to their renewals (billing), and meanwhile      *)
(* edited or deleted by administrators.                                     *)
(***************************************************************************)
EXTENDS Integers, SequencesExt

CONSTANTS
    Requests,   \* bound: the requests handled at the same time
    Carts,      \* the carts: sequences of lines [unit, setup, covered]
    Values,     \* the values administrators give the coupon
    Fields,     \* the columns administrators edit
    MaxOrders,  \* bound: the orders ever placed with the coupon
    MaxActive,  \* bound: the orders activated
    MaxEdits    \* bound: the edits administrators begin

VARIABLES
    coupon,    \* the coupons row
    orders,    \* the orders that name the coupon
    services,  \* the services those orders activated (one line each)
    renewals,  \* the renewal invoices of those services
    request,   \* the requests being handled
    edits,     \* history: the edits begun so far
    events     \* history: what happened that weakens a guarantee
vars == <<coupon, orders, services, renewals, request, edits, events>>

NoCoupon == [exists |-> FALSE, active |-> FALSE, kind |-> "fixed", value |-> 0, listed |-> FALSE,
             max |-> 0, used |-> 0, recurring |-> FALSE, expires |-> "never"]
Idle == [at |-> "off", row |-> NoCoupon, was |-> NoCoupon, cart |-> << >>, shown |-> -1, take |-> 0]
Init ==
    /\ coupon \in {[NoCoupon EXCEPT !.exists = TRUE, !.active = TRUE, !.kind = k, !.value = v, !.listed = l,
                                    !.max = 1, !.recurring = TRUE, !.expires = "later"] :
                   k \in {"percentage", "fixed"}, v \in {x \in Values : x <= 100}, l \in BOOLEAN}
    /\ orders = << >> /\ services = << >> /\ renewals = << >>
    /\ request = [r \in Requests |-> Idle]
    /\ edits = 0 /\ events = {}

At(r, p) == request[r].at = p
Done(r) == request' = [request EXCEPT ![r] = Idle]
Total(s) == FoldSeq(LAMBDA x, y : x + y, 0, s)
AtMost(a, b) == IF a > b THEN b ELSE a

-----------------------------------------------------------------------------
(* What a coupon takes off, computed at three places.                      *)

\* ValidateCoupon, over the subtotal the cart page sends: truncated, clamped.
ValidDiscount(c, subtotal) ==
    AtMost(IF c.kind = "percentage" THEN (subtotal * c.value) \div 100 ELSE c.value, subtotal)

\* couponAppliesToProduct and planEligible: no list covers every line.
planEligible(c, line) == c.listed => line.covered
Eligible(c, cart) == Total([i \in DOMAIN cart |-> IF planEligible(c, cart[i]) THEN cart[i].unit ELSE 0])

\* Mutant: a fixed discount is not held to the eligible lines.
Unclamped(c, cart) ==
    LET base == Eligible(c, cart)
    IN  IF base <= 0 THEN 0 ELSE IF c.kind = "percentage" THEN (base * c.value + 50) \div 100 ELSE c.value
\* couponDiscount, over the eligible unit prices: rounded half up, clamped.
couponDiscount(c, cart) ==
    LET base == Eligible(c, cart)
    IN  IF base <= 0 THEN 0
        ELSE IF c.kind = "percentage" THEN (base * c.value + 50) \div 100 ELSE AtMost(c.value, base)

\* recurringWithCoupon: the recurring amount of one line.
recurringWithCoupon(c, unit) ==
    IF c.kind = "percentage" THEN unit - (unit * c.value + 50) \div 100 ELSE unit - AtMost(c.value, unit)

\* recurringDiscount: what a renewal takes off, truncated and clamped.
recurringDiscount(c, amount) ==
    IF amount <= 0 \/ ~c.exists \/ ~c.active \/ ~c.recurring \/ c.expires = "past" THEN 0
    ELSE AtMost(IF c.kind = "percentage" THEN (amount * c.value) \div 100 ELSE c.value, amount)

-----------------------------------------------------------------------------
(* Quotes and orders.                                                      *)

\* The checks ValidateCoupon and loadCoupon share.
Usable(c) == c.exists /\ c.active /\ c.expires # "past" /\ (c.max > 0 => c.used < c.max)

\* ValidateCoupon: a listed coupon needs one covered product in the cart.
ValidateCoupon(r, cart) ==
    /\ At(r, "off") /\ Usable(coupon)
    /\ coupon.listed => \E i \in DOMAIN cart : cart[i].covered
    /\ LET subtotal == Total([i \in DOMAIN cart |-> cart[i].unit + cart[i].setup])
       IN  request' = [request EXCEPT ![r] = [Idle EXCEPT !.at = "quoted", !.row = coupon, !.cart = cart,
                                                          !.shown = ValidDiscount(coupon, subtotal)]]
    /\ UNCHANGED <<coupon, orders, services, renewals, edits, events>>

\* loadCoupon and couponDiscount, before the transaction of the order.
loadCoupon(r, cart) ==
    /\ At(r, "off") \/ (At(r, "quoted") /\ cart = request[r].cart)
    /\ IF Usable(coupon)
       THEN request' = [request EXCEPT ![r].at = "order", ![r].cart = cart, ![r].take = couponDiscount(coupon, cart),
                                       ![r].row = NoCoupon, ![r].shown = IF request[r].row = coupon THEN @ ELSE -1]
       ELSE Done(r)
    /\ UNCHANGED <<coupon, orders, services, renewals, edits, events>>

\* Mutant: the usage is counted without looking at the limit.
UseAnyway(c) == c.exists
\* IncrementUsage counts only below the limit.
IncrementUsage(c) == c.exists /\ (c.max = 0 \/ c.used < c.max)

\* The transaction of CreateOrder: a flagged order does not count as a use;
\* the order's key on the coupon refuses one that was deleted.
CreateOrder(r, flagged) ==
    /\ At(r, "order") /\ Len(orders) < MaxOrders
    /\ IF coupon.exists /\ (flagged \/ IncrementUsage(coupon))
       THEN /\ orders' = Append(orders, [cart |-> request[r].cart, take |-> request[r].take, shown |-> request[r].shown,
                                         flagged |-> flagged, active |-> FALSE])
            /\ coupon' = IF flagged THEN coupon ELSE [coupon EXCEPT !.used = @ + 1]
       ELSE UNCHANGED <<orders, coupon>>
    /\ Done(r)
    /\ UNCHANGED <<services, renewals, edits, events>>

\* activateProductItem: a recurring coupon lowers the recurring amount of the
\* lines it covers, and stays on the service.
activateProductItem(line) ==
    LET held == coupon.exists /\ coupon.recurring /\ (coupon.listed => line.covered)
    IN  [unit |-> line.unit, coupon |-> held,
         recurring |-> IF held THEN recurringWithCoupon(coupon, line.unit) ELSE line.unit]
ActivateOrder(o) ==
    /\ ~orders[o].flagged /\ ~orders[o].active
    /\ Cardinality({x \in DOMAIN orders : orders[x].active}) < MaxActive
    /\ orders' = [orders EXCEPT ![o].active = TRUE]
    /\ services' = services \o [i \in DOMAIN orders[o].cart |-> activateProductItem(orders[o].cart[i])]
    /\ UNCHANGED <<coupon, renewals, request, edits, events>>

\* generateServiceRenewalInvoice: one invoice of a service is followed here.
RenewalInvoice(s) ==
    /\ \A i \in DOMAIN renewals : renewals[i].service # s
    /\ services[s].recurring > 0
    /\ renewals' = Append(renewals, [service |-> s, amount |-> services[s].recurring,
                                     discount |-> IF services[s].coupon
                                                  THEN recurringDiscount(coupon, services[s].recurring) ELSE 0])
    /\ UNCHANGED <<coupon, orders, services, request, edits, events>>

-----------------------------------------------------------------------------
(* Administration.                                                         *)

\* The patches one request may carry.
Patched(c) ==
    UNION {{[c EXCEPT ![f] = v] : v \in CASE f = "kind" -> {"percentage", "fixed"}
                                         [] f = "value" -> Values
                                         [] f = "max" -> {0, 1}
                                         [] f = "expires" -> {"never", "later", "past"}
                                         [] OTHER -> BOOLEAN} : f \in Fields}

\* UpdateCoupon loads the row, patches it and checks the percentage.
UpdateCoupon(r) ==
    /\ At(r, "off") /\ coupon.exists /\ edits < MaxEdits
    /\ \E c \in Patched(coupon) \ {coupon} :
         /\ c.kind = "percentage" => c.value <= 100
         /\ request' = [request EXCEPT ![r] = [Idle EXCEPT !.at = "write", !.row = c, !.was = coupon]]
    /\ edits' = edits + 1
    /\ UNCHANGED <<coupon, orders, services, renewals, events>>

\* Mutant: the write puts back the count of uses that was loaded.
WriteUses(c, loaded) == c
\* Mutant: the write puts back only what the request changed.
WriteChanged(c, loaded) == [f \in DOMAIN coupon |-> IF c[f] = loaded[f] THEN coupon[f] ELSE c[f]]
\* Repo.UpdateCoupon saves every column but the code and the count of uses.
Columns(c, loaded) == [c EXCEPT !.used = coupon.used]
SaveCoupon(r) ==
    /\ At(r, "write") /\ Done(r)
    /\ IF coupon.exists
       THEN /\ coupon' = Columns(request[r].row, request[r].was)
            /\ events' = events \cup {"edited"}
                          \cup (IF request[r].row.max > 0 /\ coupon.used > request[r].row.max THEN {"lowered"} ELSE {})
       ELSE UNCHANGED <<coupon, events>>
    /\ UNCHANGED <<orders, services, renewals, edits>>

CreateCoupon ==
    /\ ~coupon.exists /\ edits < MaxEdits
    /\ \E k \in {"percentage", "fixed"}, v \in Values :
         /\ k = "percentage" => v <= 100
         /\ coupon' = [NoCoupon EXCEPT !.exists = TRUE, !.active = TRUE, !.kind = k, !.value = v, !.max = 1]
    /\ edits' = edits + 1
    /\ UNCHANGED <<orders, services, renewals, request, events>>

\* Mutant: the row goes although orders name it.
DeleteNamed == TRUE
\* The keys of orders and services refuse the deletion of a named coupon.
Unnamed == orders = << >>
DeleteCoupon ==
    /\ coupon.exists /\ edits < MaxEdits /\ Unnamed
    /\ coupon' = NoCoupon /\ edits' = edits + 1
    /\ UNCHANGED <<orders, services, renewals, request, events>>

Expire ==
    /\ coupon.expires = "later" /\ coupon' = [coupon EXCEPT !.expires = "past"]
    /\ events' = events \cup {"edited"}
    /\ UNCHANGED <<orders, services, renewals, request, edits>>

Next ==
    \/ \E r \in Requests :
         \/ \E cart \in Carts : ValidateCoupon(r, cart) \/ loadCoupon(r, cart)
         \/ \E f \in BOOLEAN : CreateOrder(r, f)
         \/ UpdateCoupon(r) \/ SaveCoupon(r)
    \/ \E o \in DOMAIN orders : ActivateOrder(o)
    \/ \E s \in DOMAIN services : RenewalInvoice(s)
    \/ CreateCoupon \/ DeleteCoupon \/ Expire
Spec == Init /\ [][Next]_vars

-----------------------------------------------------------------------------
(* Properties.                                                             *)

\* The count of uses is the number of orders that were not flagged when they
\* were placed, whatever edits of the coupon ran beside them (UpdateCoupon
\* loads the whole row; IncrementUsage counts in the database).
UsesCounted ==
    coupon.exists => coupon.used = Cardinality({o \in DOMAIN orders : ~orders[o].flagged})

\* A limited coupon is never used more often than its limit, however many
\* checkouts read the same count, unless an edit lowered the limit below the
\* uses already counted.
LimitHolds == ("lowered" \notin events /\ coupon.max > 0) => coupon.used <= coupon.max

\* No order is discounted by more than the lines the coupon covers cost, even
\* when two edits of its type and value cross (the percentage is checked on
\* the row one request loaded, not on the row it overwrites).
DiscountCovered == \A o \in DOMAIN orders :
    orders[o].take <= Total([i \in DOMAIN orders[o].cart |-> orders[o].cart[i].unit])

\* The discount charged at checkout is the one ValidateCoupon showed for the
\* same coupon row, or one more (half-up against truncation), for carts
\* without setup fees whose every line is covered.
CouponShownIsCharged == \A o \in DOMAIN orders :
    (/\ orders[o].shown >= 0
     /\ \A i \in DOMAIN orders[o].cart : orders[o].cart[i].setup = 0 /\ orders[o].cart[i].covered)
        => orders[o].take - orders[o].shown \in {0, 1}

\* A coupon that orders or services name is not deleted.
NamedStays == orders # << >> => coupon.exists

\* A renewal costs the recurring amount after one application of the coupon
\* ("returns the per-cycle recurring amount after applying a recurring coupon
\* to one item", orders/pricing.go:611), while nobody edits the coupon.
RenewsAtRecurringAmount == "edited" \notin events => \A i \in DOMAIN renewals :
    LET s == services[renewals[i].service]
    IN  s.coupon => renewals[i].amount - renewals[i].discount = recurringWithCoupon(coupon, s.unit)
=============================================================================
