------------------------------- MODULE Specs -------------------------------
(***************************************************************************)
(* The knobs of a configurable product (product_specs and their prices),    *)
(* edited by administrators while a checkout (orders planProduct) and an     *)
(* upgrade (provisioning resolveUpgradeSpecs) price a customer's choice.     *)
(* Both read the list of knobs once and then the price of each.              *)
(***************************************************************************)
EXTENDS Integers, FiniteSets

CONSTANTS
    Keys,      \* the knobs a product may have
    Inputs,    \* what administrators enter: [min, max, step, def, included, unlimited]
    Choices,   \* what customers choose: functions from some keys to [qty, unlimited]
    Requests,  \* bound: the requests handled at the same time
    MaxPrice,  \* bound: the unit price (the flat price of unlimited is one more)
    MaxWrites, \* bound: the administrators' writes
    MaxQuotes  \* bound: the choices priced

VARIABLES
    specs,    \* product_specs with the unit price of the cycle (-1: no row)
    request,  \* the requests being handled
    writes,   \* history: the writes done, which is the version of the table
    quotes    \* history: the choices priced
vars == <<specs, request, writes, quotes>>

NoSpec == [exists |-> FALSE, min |-> 0, max |-> 0, step |-> 1, def |-> 0, included |-> 0, unlimited |-> FALSE, price |-> -1]
Idle == [at |-> "off", key |-> "none", in |-> NoSpec, choice |-> << >>, list |-> << >>, left |-> {}, sum |-> 0, bad |-> FALSE, since |-> 0]
\* Mutant: the default is not compared with the upper bound.
AnyDefault(i) == (i.max # 0 => i.max >= i.min) /\ i.def >= i.min
validateSpec(i) ==
    /\ i.max # 0 => i.max >= i.min
    /\ i.def >= i.min
    /\ i.max # 0 => i.def <= i.max
specFromInput(i, price) ==
    [exists |-> TRUE, min |-> i.min, max |-> i.max, step |-> i.step, def |-> i.def, included |-> i.included,
     unlimited |-> i.unlimited, price |-> price]

Init ==
    /\ specs \in [Keys -> {NoSpec} \cup {specFromInput(i, MaxPrice) : i \in {x \in Inputs : x.def \in x.min..x.max}}]
    /\ request = [r \in Requests |-> Idle]
    /\ writes = 0 /\ quotes = {}

At(r, p) == request[r].at = p
Done(r) == request' = [request EXCEPT ![r] = Idle]
GetSpecByID(k) == specs[k].exists
ListSpecs == {k \in Keys : specs[k].exists}

-----------------------------------------------------------------------------
(* Administration.                                                         *)

Written == writes < MaxWrites /\ writes' = writes + 1
\* CreateSpec: the unique indexes refuse a second knob with the key.
CreateSpec(k, i) ==
    /\ Written /\ validateSpec(i) /\ ~GetSpecByID(k)
    /\ specs' = [specs EXCEPT ![k] = specFromInput(i, -1)]
    /\ UNCHANGED <<request, quotes>>
\* UpdateSpec loads the row for its product and replaces every other column.
UpdateSpec(r, k, i) ==
    /\ At(r, "off") /\ validateSpec(i) /\ GetSpecByID(k) /\ writes < MaxWrites
    /\ request' = [request EXCEPT ![r] = [Idle EXCEPT !.at = "save", !.key = k, !.in = specFromInput(i, -1)]]
    /\ UNCHANGED <<specs, writes, quotes>>
SaveSpec(r) ==
    /\ At(r, "save") /\ Done(r)
    /\ LET k == request[r].key
       IN  IF GetSpecByID(k)
           THEN Written /\ specs' = [specs EXCEPT ![k] = [request[r].in EXCEPT !.price = specs[k].price]]
           ELSE UNCHANGED <<specs, writes>>
    /\ UNCHANGED quotes
\* DeleteSpec: the price rows go with the knob.
DeleteSpec(k) ==
    /\ Written /\ GetSpecByID(k)
    /\ specs' = [specs EXCEPT ![k] = NoSpec]
    /\ UNCHANGED <<request, quotes>>
UpsertSpecPricing(k, n) ==
    /\ Written /\ GetSpecByID(k)
    /\ specs' = [specs EXCEPT ![k].price = n]
    /\ UNCHANGED <<request, quotes>>
DeleteSpecPricing(k) ==
    /\ Written /\ specs[k].price >= 0
    /\ specs' = [specs EXCEPT ![k].price = -1]
    /\ UNCHANGED <<request, quotes>>

-----------------------------------------------------------------------------
(* Pricing a choice.                                                       *)

Wanted(sp, k, choice) == IF k \in DOMAIN choice THEN choice[k] ELSE [qty |-> sp.def, unlimited |-> FALSE]

\* The bounds both paths hold a quantity to.
Bounds(sp, c) ==
    IF c.unlimited THEN sp.unlimited
    ELSE c.qty >= sp.min /\ (sp.max # 0 => c.qty <= sp.max) /\ (sp.step > 1 => (c.qty - sp.min) % sp.step = 0)

\* Mutant: a quantity below the included one takes off the price.
Unfloored(sp, c, price) ==
    IF price < 0 THEN 0 ELSE IF c.unlimited THEN price + 1 ELSE (c.qty - sp.included) * price
\* priceSpec: what is above the included quantity, or the flat price; a knob
\* without a price row costs nothing.
priceSpec(sp, c, price) ==
    IF price < 0 THEN 0
    ELSE IF c.unlimited THEN price + 1
    ELSE (IF c.qty - sp.included < 0 THEN 0 ELSE c.qty - sp.included) * price

\* Mutant: the upgrade does not hold a quantity to the steps.
AnyStep(sp, c, price) ==
    [ok |-> IF c.unlimited THEN sp.unlimited ELSE c.qty >= sp.min /\ (sp.max # 0 => c.qty <= sp.max),
     amount |-> IF price < 0 THEN 0 ELSE IF c.unlimited THEN price + 1
                ELSE (IF c.qty > sp.included THEN c.qty - sp.included ELSE 0) * price]
\* resolveUpgradeSpecs: one knob, by its own copy of the rules.
resolveUpgradeSpecs(sp, c, price) ==
    [ok |-> IF c.unlimited THEN sp.unlimited
            ELSE c.qty >= sp.min /\ (sp.max # 0 => c.qty <= sp.max) /\ (sp.step > 1 => (c.qty - sp.min) % sp.step = 0),
     amount |-> IF price < 0 THEN 0 ELSE IF c.unlimited THEN price + 1
                ELSE (IF c.qty > sp.included THEN c.qty - sp.included ELSE 0) * price]

\* planProduct reads the knobs; a choice of an unknown knob is refused.
planProduct(r, kind, choice) ==
    /\ At(r, "off") /\ Cardinality(quotes) < MaxQuotes
    /\ request' = [request EXCEPT ![r] = [Idle EXCEPT !.at = kind, !.choice = choice, !.since = writes,
                                          !.list = [k \in ListSpecs |-> specs[k]], !.left = ListSpecs,
                                          !.bad = ~(DOMAIN choice \subseteq ListSpecs)]]
    /\ UNCHANGED <<specs, writes, quotes>>
\* One knob: its row as listed, its price as it is now.
PriceNext(r, k) ==
    LET sp == request[r].list[k]
        c == Wanted(sp, k, request[r].choice)
        up == resolveUpgradeSpecs(sp, c, specs[k].price)
        ok == IF At(r, "order") THEN Bounds(sp, c) ELSE up.ok
        amount == IF At(r, "order") THEN priceSpec(sp, c, specs[k].price) ELSE up.amount
    IN  /\ request[r].at \in {"order", "upgrade"} /\ k \in request[r].left
        /\ request' = [request EXCEPT ![r].left = @ \ {k}, ![r].bad = @ \/ ~ok,
                                      ![r].sum = IF ok THEN @ + amount ELSE @]
        /\ UNCHANGED <<specs, writes, quotes>>
Quote(r) ==
    /\ request[r].at \in {"order", "upgrade"} /\ request[r].left = {}
    /\ quotes' = quotes \cup {[kind |-> request[r].at, choice |-> request[r].choice, bad |-> request[r].bad,
                               amount |-> IF request[r].bad THEN 0 ELSE request[r].sum,
                               at |-> IF request[r].since = writes THEN writes ELSE -1]}
    /\ Done(r)
    /\ UNCHANGED <<specs, writes>>

Next ==
    \/ \E k \in Keys :
         \/ \E i \in Inputs : CreateSpec(k, i) \/ \E r \in Requests : UpdateSpec(r, k, i)
         \/ DeleteSpec(k) \/ DeleteSpecPricing(k) \/ \E n \in 0..MaxPrice : UpsertSpecPricing(k, n)
         \/ \E r \in Requests : PriceNext(r, k)
    \/ \E r \in Requests :
         \/ \E choice \in Choices, kind \in {"order", "upgrade"} : planProduct(r, kind, choice)
         \/ Quote(r) \/ SaveSpec(r)
Spec == Init /\ [][Next]_vars

-----------------------------------------------------------------------------
(* Properties.                                                             *)

\* The quantity a customer gets without choosing lies within the bounds of
\* its knob, also after edits that crossed (validateSpec looks at one input;
\* the write replaces the whole row).
DefaultWithin == \A k \in ListSpecs : specs[k].def >= specs[k].min /\ (specs[k].max # 0 => specs[k].def <= specs[k].max)

\* Choosing knobs never lowers a price below the base price of the product,
\* whatever was edited while the choice was priced.
NeverBelowBase == \A q \in quotes : q.amount >= 0

\* An upgrade prices and refuses a choice exactly as an order does ("with the
\* same rules as order checkout", provisioning/service.go:1566): two answers
\* to the same choice agree when the knobs were not edited while either was
\* priced, nor in between.
SameRules == \A p, q \in quotes :
    (p.choice = q.choice /\ p.at = q.at /\ p.at >= 0) => p.bad = q.bad /\ p.amount = q.amount
=============================================================================
