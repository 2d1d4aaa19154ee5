------------------------------- MODULE Quotes -------------------------------
(***************************************************************************)
(* The three places that price a domain name from Domain Pricing, each with  *)
(* its own sequence of lookups: the search (domains overlayPricing), the     *)
(* checkout (orders planDomain) and the snipe (domains QuoteRegistration),   *)
(* while administrators edit the tables and lookups may fail.  One name of   *)
(* one extension is priced.                                                 *)
(***************************************************************************)
EXTENDS Naturals, Sequences

CONSTANTS
    Requests,  \* bound: the requests handled at the same time
    Rows,      \* the TLD rows administrators may write
    Prices,    \* the premium and tier prices they may write
    Terms,     \* the terms asked for, in years
    Cost,      \* the registrar's own price
    MaxEdits   \* bound: the edits

VARIABLES
    tld,      \* the extension's row of tld_pricing
    premium,  \* the name's price in premium_domain_pricing, or None
    tier,     \* the price for the name's length in premium_length_pricing, or None
    addon,    \* domain_addons: the price of an addon, or None when not active
    request,  \* the requests being handled
    edits     \* the edits so far
tables == <<tld, premium, tier, addon>>
vars == <<tld, premium, tier, addon, request, edits>>

None == 99
NoTLD == [active |-> FALSE, min |-> 1, max |-> 1, reg |-> << >>, renew |-> 0, transfer |-> 0]
Idle == [at |-> "off", kind |-> "none", years |-> 0, with |-> FALSE, row |-> NoTLD,
         price |-> 0, renew |-> 0, fresh |-> TRUE, lost |-> FALSE]
Init ==
    /\ tld \in Rows \cup {NoTLD}
    /\ premium \in Prices \cup {None} /\ tier \in Prices \cup {None}
    /\ addon = 1
    /\ request = [r \in Requests |-> Idle] /\ edits = 0

At(r, p) == request[r].at = p
Put(r, q) == request' = [request EXCEPT ![r] = q]
To(r, p) == Put(r, [request[r] EXCEPT !.at = p])
Refuse(r) == Put(r, Idle)
IsPlan(k) == k \in {"register", "transfer"}

-----------------------------------------------------------------------------
(* Administrators.                                                         *)

\* Requests under way no longer price one state of the tables.
Edit ==
    /\ edits < MaxEdits /\ edits' = edits + 1
    /\ request' = [r \in Requests |->
                     IF At(r, "off") THEN Idle ELSE [request[r] EXCEPT !.fresh = FALSE]]
\* toTLDPricing: the bounds are in order and the years of the matrix are 1 to 10.
toTLDPricing(row) == row.min <= row.max /\ DOMAIN row.reg \subseteq 1 .. 10
CreateTLDPricing(row) == tld = NoTLD /\ toTLDPricing(row) /\ tld' = row
UpdateTLDPricing(row) == tld # NoTLD /\ toTLDPricing(row) /\ tld' = row
DeleteTLDPricing == tld # NoTLD /\ tld' = NoTLD
EditTLD ==
    /\ Edit /\ UNCHANGED <<premium, tier, addon>>
    /\ \/ \E row \in Rows : CreateTLDPricing(row) \/ UpdateTLDPricing(row)
       \/ DeleteTLDPricing
CreatePremiumPricing(p) == premium = None /\ premium' = p
UpdatePremiumPricing(p) == premium # None /\ premium' = p
DeletePremiumPricing == premium # None /\ premium' = None
EditPremium ==
    /\ Edit /\ UNCHANGED <<tld, tier, addon>>
    /\ (\E p \in Prices : CreatePremiumPricing(p) \/ UpdatePremiumPricing(p)) \/ DeletePremiumPricing
CreatePremiumLengthPricing(p) == tier = None /\ tier' = p
UpdatePremiumLengthPricing(p) == tier # None /\ tier' = p
DeletePremiumLengthPricing == tier # None /\ tier' = None
EditTier ==
    /\ Edit /\ UNCHANGED <<tld, premium, addon>>
    /\ \/ \E p \in Prices : CreatePremiumLengthPricing(p) \/ UpdatePremiumLengthPricing(p)
       \/ DeletePremiumLengthPricing
UpdateDomainAddon ==
    /\ Edit /\ addon' \in {1, None} \ {addon} /\ UNCHANGED <<tld, premium, tier>>

-----------------------------------------------------------------------------
(* The lookups, in the order of the code.                                  *)

\* The search asks the registrar first, and its price is the shop's cost.
CheckAvailability(r) ==
    /\ At(r, "off")
    /\ Put(r, [Idle EXCEPT !.at = "tld", !.kind = "check", !.years = 1, !.price = Cost])
planDomain(r, k, y, w) ==
    /\ At(r, "off")
    /\ Put(r, [Idle EXCEPT !.at = "tld", !.kind = k, !.years = y, !.with = w])
QuoteRegistration(r, y) ==
    /\ At(r, "off") /\ y \in 1 .. 10
    /\ Put(r, [Idle EXCEPT !.at = "tld", !.kind = "quote", !.years = y])

\* A failing lookup of the row, or one that is absent or switched off: nothing
\* is sold.  The search answers all the same, with no price.
GetByTLD(r) ==
    /\ At(r, "tld")
    /\ \/ Refuse(r)
       \/ IF tld.active
          THEN Put(r, [request[r] EXCEPT !.at = "premium", !.row = tld])
          ELSE Refuse(r)

\* Where a price is found: the search shows it, the checkout goes on to ask the
\* registrar, the quote is given.
Found(r, price, renew) ==
    LET q == request[r]
    IN  Put(r, [q EXCEPT !.price = price, !.renew = renew, !.row = NoTLD,
                         !.at = IF IsPlan(q.kind) THEN "available" ELSE "answered"])
\* Mutant: the error is taken for "no premium", as the checkout does.
SwallowFailure(r, p) == Put(r, [request[r] EXCEPT !.at = p, !.lost = request[r].kind # "quote"])
\* A failing premium lookup means "no premium" to the search and the checkout;
\* the quote returns the error.
LookupFails(r, p) ==
    IF request[r].kind = "quote" THEN Refuse(r)
    ELSE Put(r, [request[r] EXCEPT !.at = p, !.lost = TRUE])
\* Mutant: the search leaves the registrar's price in place.
ShowCost(k, price, y) == IF k = "check" THEN Cost ELSE price * y
\* A premium price holds for one year; the search shows one year.
Total(k, price, y) == IF k = "check" THEN price ELSE price * y
GetByName(r) ==
    /\ At(r, "premium")
    /\ \/ LookupFails(r, "tier")
       \/ premium # None /\ Found(r, Total(request[r].kind, premium, request[r].years), premium)
       \/ premium = None /\ To(r, "tier")
GetByTLDAndLength(r) ==
    /\ At(r, "tier")
    /\ \/ LookupFails(r, "matrix")
       \/ tier # None /\ Found(r, Total(request[r].kind, tier, request[r].years), tier)
       \/ tier = None /\ To(r, "matrix")

\* The row read at the start prices the rest.  The search keeps the registrar's
\* price when year 1 is missing; a quote of 0 is refused, a checkout is not.
Matrix(r) ==
    LET q == request[r]
        priced == q.years \in q.row.min .. q.row.max /\ q.years \in DOMAIN q.row.reg
    IN  /\ At(r, "matrix")
        /\ CASE q.kind = "check" ->
                  Found(r, IF 1 \in DOMAIN q.row.reg THEN q.row.reg[1] ELSE q.price, q.row.renew)
             [] q.kind = "quote" ->
                  IF priced /\ q.row.reg[q.years] > 0
                  THEN Found(r, q.row.reg[q.years], q.row.renew) ELSE Refuse(r)
             [] q.kind = "register" ->
                  IF priced THEN Found(r, q.row.reg[q.years], q.row.renew) ELSE Refuse(r)
             [] OTHER ->
                  IF q.years \in q.row.min .. q.row.max
                  THEN Found(r, q.row.transfer * q.years, q.row.renew) ELSE Refuse(r)

\* The checkout's last steps: the registrar is asked for a registration, which
\* may fail or answer "taken", and the addons are added.
Available(r) ==
    /\ At(r, "available")
    /\ \/ request[r].kind = "register" /\ Refuse(r)
       \/ To(r, IF request[r].with THEN "addons" ELSE "answered")
domainAddonsTotal(r) ==
    /\ At(r, "addons")
    /\ IF addon = None THEN Refuse(r)
       ELSE Put(r, [request[r] EXCEPT !.at = "answered", !.price = @ + addon * request[r].years,
                                      !.renew = @ + addon])
\* The caller has used the answer.
Leave(r) == At(r, "answered") /\ Put(r, Idle)

Lookup(r) ==
    \/ CheckAvailability(r) \/ GetByTLD(r) \/ GetByName(r) \/ GetByTLDAndLength(r)
    \/ Matrix(r) \/ Available(r) \/ domainAddonsTotal(r) \/ Leave(r)
    \/ \E y \in Terms :
         QuoteRegistration(r, y)
         \/ \E <<k, w>> \in {<<"register", FALSE>>, <<"register", TRUE>>, <<"transfer", FALSE>>} :
              planDomain(r, k, y, w)
Next ==
    \/ EditTLD \/ EditPremium \/ EditTier \/ UpdateDomainAddon
    \/ \E r \in Requests : Lookup(r) /\ UNCHANGED <<tables, edits>>
Spec == Init /\ [][Next]_vars

-----------------------------------------------------------------------------
(* Properties.                                                             *)

Answered(r) == At(r, "answered") /\ request[r].fresh /\ ~request[r].lost

\* QuoteRegistration "with the same rules as orders.planDomain": whatever lookups
\* failed on the way, the invoice of a snipe carries the price and the renewal rate
\* that the checkout of the same name and term would charge from the same tables.
QuoteIsCharged ==
    \A q, p \in Requests :
        (/\ Answered(q) /\ request[q].kind = "quote"
         /\ Answered(p) /\ request[p].kind = "register" /\ ~request[p].with
         /\ request[q].years = request[p].years)
        => request[q].price = request[p].price /\ request[q].renew = request[p].renew

\* overlayPricing and planDomain: the price a search shows is the price the checkout
\* of one year charges from the same tables, when no lookup of theirs failed.
ShownIsCharged ==
    \A c, p \in Requests :
        (/\ Answered(c) /\ request[c].kind = "check"
         /\ Answered(p) /\ request[p].kind = "register" /\ ~request[p].with
         /\ request[p].years = 1)
        => request[c].price = request[p].price
=============================================================================
