---------------------------- MODULE ProductCopy ----------------------------
(***************************************************************************)
(* Duplicating a product (catalog DuplicateProduct): the source, a free      *)
(* slug, its prices, its knobs and their prices are read with one query      *)
(* each; the copy is written in one transaction.  Administrators edit,       *)
(* delete and duplicate the same product meanwhile.  Product 1 is the        *)
(* source; slug 0 is its slug, slug n the n-th candidate for a copy.         *)
(***************************************************************************)
EXTENDS Naturals, Sequences

CONSTANTS
    Requests,     \* bound: the duplications handled at the same time
    MaxProducts,  \* bound: the products ever created
    MaxEdits,     \* bound: the edits of the source
    maxCopySlugAttempts  \* how many candidates uniqueCopySlug tries

VARIABLES
    products,  \* products with their prices, knobs and the knobs' prices
    request,   \* the duplications being handled
    edits,     \* history: the edits of the source
    refusals,  \* history: why a duplication was refused
    events     \* history: what happened that weakens a guarantee
vars == <<products, request, edits, refusals, events>>

\* A version number stands for the content of each table.
Source == [slug |-> 0, hidden |-> FALSE, deleted |-> FALSE, price |-> 0, specs |-> 0, rates |-> 0, of |-> << >>]
Content(row) == <<row.price, row.specs, row.rates>>
Idle == [at |-> "off", slug |-> 0, price |-> 0, specs |-> 0, rates |-> 0, of |-> << >>, seen |-> 0]
Init ==
    /\ products = <<Source>> /\ request = [r \in Requests |-> Idle]
    /\ edits = 0 /\ refusals = {} /\ events = {}

At(r, p) == request[r].at = p
Done(r) == request' = [request EXCEPT ![r] = Idle]

\* GetBySlug does not see deleted products.
GetBySlug(s) == \E i \in DOMAIN products : products[i].slug = s /\ ~products[i].deleted
\* The unique index on the slug does.
SlugTaken(s) == \E i \in DOMAIN products : products[i].slug = s

\* Mutant: the first candidate is taken unseen.
FirstSlug(s) == s = 1
\* uniqueCopySlug: the first candidate without a product.
uniqueCopySlug(s) ==
    s \in 1..maxCopySlugAttempts /\ ~GetBySlug(s) /\ \A n \in 1..(s - 1) : GetBySlug(n)

DuplicateProduct(r) ==
    /\ At(r, "off") /\ ~products[1].deleted /\ Len(products) < MaxProducts
    /\ \/ \E s \in 1..maxCopySlugAttempts :
            /\ uniqueCopySlug(s)
            /\ request' = [request EXCEPT ![r] = [Idle EXCEPT !.at = "pricing", !.slug = s, !.of = Content(products[1]),
                                                              !.seen = Len(products)]]
            /\ UNCHANGED refusals
       \/ /\ \A s \in 1..maxCopySlugAttempts : ~uniqueCopySlug(s)
          /\ refusals' = refusals \cup {"exhausted"} /\ UNCHANGED request
    /\ UNCHANGED <<products, edits, events>>
ListPricing(r) ==
    /\ At(r, "pricing")
    /\ request' = [request EXCEPT ![r].at = "specs", ![r].price = products[1].price]
    /\ UNCHANGED <<products, edits, refusals, events>>
ListSpecs(r) ==
    /\ At(r, "specs")
    /\ request' = [request EXCEPT ![r].at = "rates", ![r].specs = products[1].specs]
    /\ UNCHANGED <<products, edits, refusals, events>>
ListSpecPricingBySpecIDs(r) ==
    /\ At(r, "rates")
    /\ request' = [request EXCEPT ![r].at = "commit", ![r].rates = products[1].rates]
    /\ UNCHANGED <<products, edits, refusals, events>>

\* Mutant: the knobs are cloned without their prices.
DropRates(q) == [Source EXCEPT !.slug = q.slug, !.hidden = TRUE, !.price = q.price, !.specs = q.specs, !.of = q.of]
\* The clone: hidden, with the prices, the knobs and the knobs' prices read.
Clone(q) == [Source EXCEPT !.slug = q.slug, !.hidden = TRUE, !.price = q.price, !.specs = q.specs, !.rates = q.rates,
                           !.of = q.of]
\* The transaction is refused as a whole when the index holds the slug.
WithinTx(r) ==
    /\ At(r, "commit") /\ Done(r)
    /\ LET q == request[r]
           holder == {i \in DOMAIN products : products[i].slug = q.slug}
       IN  IF SlugTaken(q.slug)
           THEN /\ refusals' = refusals \cup {IF \E i \in holder : i > q.seen THEN "raced"
                                              ELSE IF \E i \in holder : products[i].deleted THEN "buried" ELSE "taken"}
                /\ UNCHANGED <<products, events>>
           ELSE /\ products' = Append(products, Clone(q))
                /\ events' = IF Content(products[1]) # q.of THEN events \cup {"edited"} ELSE events
                /\ UNCHANGED refusals
    /\ UNCHANGED edits

\* The edits of the source: a price, a knob (its prices stay) or a rate.
Edit(f) ==
    /\ edits < MaxEdits /\ edits' = edits + 1 /\ ~products[1].deleted
    /\ products' = [products EXCEPT ![1][f] = edits + 1]
    /\ UNCHANGED <<request, refusals, events>>
Show(i) ==
    /\ i > 1 /\ ~products[i].deleted /\ products[i].hidden
    /\ products' = [products EXCEPT ![i].hidden = FALSE]
    /\ UNCHANGED <<request, edits, refusals, events>>
SoftDelete(i) ==
    /\ ~products[i].deleted
    /\ products' = [products EXCEPT ![i].deleted = TRUE]
    /\ UNCHANGED <<request, edits, refusals, events>>

Next ==
    \/ \E r \in Requests :
         DuplicateProduct(r) \/ ListPricing(r) \/ ListSpecs(r) \/ ListSpecPricingBySpecIDs(r) \/ WithinTx(r)
    \/ \E f \in {"price", "specs", "rates"} : Edit(f)
    \/ \E i \in DOMAIN products : Show(i) \/ SoftDelete(i)
Spec == Init /\ [][Next]_vars

-----------------------------------------------------------------------------
(* Properties.                                                             *)

\* A copy holds the prices, the knobs and the knobs' prices the source had
\* when the duplication began, unless the source was edited before the copy
\* was committed (DuplicateProduct reads the four tables one after the other).
CopyIsWhole == "edited" \notin events => \A i \in DOMAIN products : i > 1 => Content(products[i]) = products[i].of

\* A duplication whose slug was free is refused only when a product created
\* meanwhile took it, or a deleted product still holds it in the index
\* (uniqueCopySlug does not see deleted products; the index does).
RefusedIsExplained == "taken" \notin refusals
=============================================================================
