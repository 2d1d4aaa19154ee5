------------------------------ MODULE Catalog ------------------------------
(***************************************************************************)
(* The product catalogue (modules/catalog): groups, products and prices in  *)
(* the database, edited by administrators and sold by orders, and the two   *)
(* lists visitors are served from the cache.  A list is read with several   *)
(* queries and stored; every administrator's write ends by dropping both.   *)
(***************************************************************************)
EXTENDS Integers

CONSTANTS
    Groups,    \* the product groups
    Home,      \* the one that exists at the start
    Products,  \* the products
    Requests,  \* bound: the requests handled at the same time
    MaxPrice,  \* bound: the prices
    MaxStock,  \* bound: the quantity put in stock
    MaxWrites  \* bound: the administrators' writes

VARIABLES
    groups,    \* product_groups: "none", "shown", "hidden" or "deleted"
    products,  \* products, each with one price (0: not priced)
    cache,     \* the lists under catalog:products:v2 and catalog:groups
    request,   \* the requests being handled
    writes,    \* history: the writes begun
    stocked,   \* history: the quantity last put in stock, and what was sold of it
    events     \* history: what happened that weakens a guarantee
vars == <<groups, products, cache, request, writes, stocked, events>>

NoProduct == [state |-> "none", group |-> "none", price |-> 0, stock |-> 0]
Idle == [at |-> "off", of |-> "none", row |-> NoProduct, was |-> 0, sets |-> FALSE, list |-> "none", crossed |-> FALSE]
Nothing == [kind |-> "empty"]
Init ==
    /\ groups = [g \in Groups |-> IF g = Home THEN "shown" ELSE "none"]
    /\ products \in [Products -> {NoProduct, [state |-> "shown", group |-> Home, price |-> 0, stock |-> MaxStock]}]
    /\ cache = [k \in {"catalog", "groups"} |-> Nothing]
    /\ request = [r \in Requests |-> Idle]
    /\ writes = 0 /\ stocked = [p \in Products |-> [put |-> products[p].stock, sold |-> 0]]
    /\ events = {}

At(r, p) == request[r].at = p
GetGroupByID(g) == groups[g] \in {"shown", "hidden"}
GetByID(p) == products[p].state \in {"shown", "hidden"}

-----------------------------------------------------------------------------
(* What visitors are shown.                                                *)

ListGroups == {g \in Groups : groups[g] = "shown"}
ListVisibleProducts == {p \in Products : products[p].state = "shown"}
\* toPublicProduct: the row with its price and whether any is left.
toPublicProduct(p, row, price) == [id |-> p, group |-> row.group, price |-> price, left |-> row.stock > 0]
\* PublicCatalog drops the products whose group is not listed.
PublicList(gs, rows) == [kind |-> "list", groups |-> gs, products |-> {x \in rows : x.group \in gs}]
\* The two lists as the tables stand now.
Current(k) ==
    IF k = "groups" THEN [kind |-> "list", groups |-> ListGroups, products |-> {}]
    ELSE PublicList(ListGroups, {toPublicProduct(p, products[p], products[p].price) : p \in ListVisibleProducts})

\* PublicCatalog on a miss: the groups, the visible products, their prices
\* (with the specs of configurable ones), then the list is stored.
PublicCatalog(r) ==
    /\ At(r, "off") /\ cache["catalog"] = Nothing
    /\ request' = [request EXCEPT ![r] = [Idle EXCEPT !.at = "products", !.of = "catalog", !.list = ListGroups]]
    /\ UNCHANGED <<groups, products, cache, writes, stocked, events>>
ReadProducts(r) ==
    /\ At(r, "products")
    /\ request' = [request EXCEPT ![r].at = "prices",
                                  ![r].row = [p \in ListVisibleProducts |-> products[p]]]
    /\ UNCHANGED <<groups, products, cache, writes, stocked, events>>
ListPricingByProducts(r) ==
    /\ At(r, "prices")
    /\ LET rows == request[r].row
       IN  request' = [request EXCEPT ![r].at = "set", ![r].row = NoProduct,
                                      ![r].list = PublicList(@, {toPublicProduct(p, rows[p], products[p].price) : p \in DOMAIN rows})]
    /\ UNCHANGED <<groups, products, cache, writes, stocked, events>>
PublicGroups(r) ==
    /\ At(r, "off") /\ cache["groups"] = Nothing
    /\ request' = [request EXCEPT ![r] = [Idle EXCEPT !.at = "set", !.of = "groups", !.list = Current("groups")]]
    /\ UNCHANGED <<groups, products, cache, writes, stocked, events>>

\* SetJSON, best effort.  A list whose reading crossed an invalidation may be
\* older than the write it belongs to.
SetJSON(r, stored) ==
    /\ At(r, "set")
    /\ IF stored
       THEN /\ cache' = [cache EXCEPT ![request[r].of] = request[r].list]
            /\ events' = IF request[r].crossed THEN events \cup {"crossed"} ELSE events
       ELSE UNCHANGED <<cache, events>>
    /\ request' = [request EXCEPT ![r] = Idle]
    /\ UNCHANGED <<groups, products, writes, stocked>>
\* The lists live ten minutes.
CacheExpires(k) ==
    /\ cache[k] # Nothing /\ cache' = [cache EXCEPT ![k] = Nothing]
    /\ UNCHANGED <<groups, products, request, writes, stocked, events>>

-----------------------------------------------------------------------------
(* Administration.  Every write leaves both lists to be dropped.           *)

Writing(r) == At(r, "off") /\ writes < MaxWrites /\ writes' = writes + 1
Written(r) == request' = [request EXCEPT ![r] = [Idle EXCEPT !.at = "drop", !.of = "catalog"]]
Refused(r) == request' = [request EXCEPT ![r] = Idle]

\* Mutant: only the list of products is dropped.
DropCatalog(r, k) == k = "catalog" /\ request[r].of = k
\* invalidateCatalogCache: the products first, then the groups.
Dropping(r, k) == request[r].of = k
invalidateCatalogCache(r, k, done) ==
    /\ At(r, "drop") /\ request[r].of = k
    /\ cache' = IF done /\ Dropping(r, k) THEN [cache EXCEPT ![k] = Nothing] ELSE cache
    /\ events' = IF done THEN events ELSE events \cup {"lost"}
    /\ request' = [q \in Requests |->
         IF q = r THEN (IF k = "catalog" THEN [request[q] EXCEPT !.of = "groups"] ELSE Idle)
         ELSE IF request[q].at \in {"products", "prices", "set"} /\ request[q].of = k
              THEN [request[q] EXCEPT !.crossed = TRUE] ELSE request[q]]
    /\ UNCHANGED <<groups, products, writes, stocked>>

CreateGroup(r, g) ==
    /\ Writing(r) /\ groups[g] = "none" /\ Written(r)
    /\ \E s \in {"shown", "hidden"} : groups' = [groups EXCEPT ![g] = s]
    /\ UNCHANGED <<products, cache, stocked, events>>
\* UpdateGroup loads the row and writes it back where it is not deleted.
UpdateGroup(r, g) ==
    /\ Writing(r) /\ GetGroupByID(g)
    /\ \E s \in {"shown", "hidden"} :
         request' = [request EXCEPT ![r] = [Idle EXCEPT !.at = "group", !.of = g, !.list = s]]
    /\ UNCHANGED <<groups, products, cache, stocked, events>>
SaveGroup(r) ==
    /\ At(r, "group")
    /\ IF GetGroupByID(request[r].of)
       THEN groups' = [groups EXCEPT ![request[r].of] = request[r].list] /\ Written(r)
       ELSE UNCHANGED groups /\ Refused(r)
    /\ UNCHANGED <<products, cache, writes, stocked, events>>

\* Mutant: hidden products do not keep their group.
CountVisible(g) == {p \in Products : products[p].state = "shown" /\ products[p].group = g}
CountProductsInGroup(g) == {p \in Products : GetByID(p) /\ products[p].group = g}
\* DeleteGroup counts, then deletes, in one transaction that locks neither.
DeleteGroup(r, g) ==
    /\ Writing(r) /\ GetGroupByID(g) /\ CountProductsInGroup(g) = {}
    /\ request' = [request EXCEPT ![r] = [Idle EXCEPT !.at = "ungroup", !.of = g]]
    /\ UNCHANGED <<groups, products, cache, stocked, events>>
SoftDeleteGroup(r) ==
    /\ At(r, "ungroup")
    /\ LET g == request[r].of
       IN  IF GetGroupByID(g)
           THEN /\ groups' = [groups EXCEPT ![g] = "deleted"] /\ Written(r)
                /\ events' = IF request[r].crossed THEN events \cup {"orphaned"} ELSE events
           ELSE UNCHANGED <<groups, events>> /\ Refused(r)
    /\ UNCHANGED <<products, cache, writes, stocked>>

\* Whoever counted the products of g does not see the one written now.
Unseen(g) == [q \in Requests |-> IF request[q].at = "ungroup" /\ request[q].of = g
                                 THEN [request[q] EXCEPT !.crossed = TRUE] ELSE request[q]]
\* The key on group_id is satisfied by a soft-deleted group.
Orphaned(row) == IF GetGroupByID(row.group) THEN {} ELSE {"orphaned"}
Lands(r, p, row) ==
    /\ products' = [products EXCEPT ![p] = row]
    /\ request' = [Unseen(row.group) EXCEPT ![r] = [Idle EXCEPT !.at = "drop", !.of = "catalog"]]

CreateProduct(r, p, g) ==
    /\ Writing(r) /\ products[p].state = "none" /\ GetGroupByID(g)
    /\ \E s \in {"shown", "hidden"}, n \in {0, MaxStock} :
         request' = [request EXCEPT ![r] = [Idle EXCEPT !.at = "insert", !.of = p,
                                            !.row = [NoProduct EXCEPT !.state = s, !.group = g, !.stock = n]]]
    /\ UNCHANGED <<groups, products, cache, stocked, events>>
InsertProduct(r) ==
    /\ At(r, "insert")
    /\ LET p == request[r].of
       IN  IF products[p].state = "none"
           THEN /\ Lands(r, p, request[r].row) /\ events' = events \cup Orphaned(request[r].row)
                /\ stocked' = [stocked EXCEPT ![p] = [put |-> request[r].row.stock, sold |-> 0]]
           ELSE Refused(r) /\ UNCHANGED <<products, stocked, events>>
    /\ UNCHANGED <<groups, cache, writes>>

\* UpdateProduct: a new group must exist; the switch or the quantity may change.
UpdateProduct(r, p) ==
    /\ Writing(r) /\ GetByID(p)
    /\ \E row \in {[products[p] EXCEPT !.group = g] : g \in {x \in Groups : GetGroupByID(x)}}
                  \cup {[products[p] EXCEPT !.state = s] : s \in {"shown", "hidden"}}
                  \cup {[products[p] EXCEPT !.stock = MaxStock]} :
         request' = [request EXCEPT ![r] = [Idle EXCEPT !.at = "write", !.of = p, !.row = row, !.was = products[p].stock,
                                            !.sets = row.stock # products[p].stock]]
    /\ UNCHANGED <<groups, products, cache, stocked, events>>
\* Mutant: the write does not look at deleted_at.
WriteDeleted(p) == TRUE
Updatable(p) == GetByID(p)
\* Repo.Update writes every column, the quantity it loaded included; the
\* prices are rows of their own.
SaveProduct(r) ==
    /\ At(r, "write")
    /\ LET p == request[r].of
           row == [request[r].row EXCEPT !.price = products[p].price]
           stale == ~request[r].sets /\ products[p].stock # request[r].was
       IN  IF Updatable(p)
           THEN /\ Lands(r, p, row)
                /\ events' = events \cup Orphaned(row) \cup (IF stale THEN {"overwrote"} ELSE {})
                /\ stocked' = IF request[r].sets THEN [stocked EXCEPT ![p] = [put |-> row.stock, sold |-> 0]] ELSE stocked
           ELSE Refused(r) /\ UNCHANGED <<products, stocked, events>>
    /\ UNCHANGED <<groups, cache, writes>>

DeleteProduct(r, p) ==
    /\ Writing(r) /\ GetByID(p) /\ Written(r)
    /\ products' = [products EXCEPT ![p].state = "deleted"]
    /\ UNCHANGED <<groups, cache, stocked, events>>
\* UpsertPricing and DeletePricing: one row, no load.
UpsertPricing(r, p, n) ==
    /\ Writing(r) /\ GetByID(p) /\ n > 0 /\ n # products[p].price /\ Written(r)
    /\ products' = [products EXCEPT ![p].price = n]
    /\ UNCHANGED <<groups, cache, stocked, events>>
DeletePricing(r, p) ==
    /\ Writing(r) /\ products[p].price > 0 /\ Written(r)
    /\ products' = [products EXCEPT ![p].price = 0]
    /\ UNCHANGED <<groups, cache, stocked, events>>

\* Mutant: the quantity is not looked at.
SellAny(p) == GetByID(p)
InStock(p) == GetByID(p) /\ products[p].stock > 0
\* DecrementStock, by an order; the cached list is left alone.
DecrementStock(p) ==
    /\ InStock(p)
    /\ products' = [products EXCEPT ![p].stock = @ - 1]
    /\ stocked' = [stocked EXCEPT ![p].sold = @ + 1]
    /\ events' = IF products[p].stock = 1 THEN events \cup {"soldout"} ELSE events
    /\ UNCHANGED <<groups, cache, request, writes>>

Next ==
    \/ \E r \in Requests :
         \/ PublicCatalog(r) \/ ReadProducts(r) \/ ListPricingByProducts(r) \/ PublicGroups(r)
         \/ \E b \in BOOLEAN : SetJSON(r, b) \/ \E k \in {"catalog", "groups"} : invalidateCatalogCache(r, k, b)
         \/ \E g \in Groups : CreateGroup(r, g) \/ UpdateGroup(r, g) \/ DeleteGroup(r, g)
         \/ SaveGroup(r) \/ SoftDeleteGroup(r) \/ InsertProduct(r) \/ SaveProduct(r)
         \/ \E p \in Products :
              \/ \E g \in Groups : CreateProduct(r, p, g)
              \/ UpdateProduct(r, p) \/ DeleteProduct(r, p) \/ DeletePricing(r, p)
              \/ \E n \in 1..MaxPrice : UpsertPricing(r, p, n)
    \/ \E p \in Products : DecrementStock(p)
    \/ \E k \in {"catalog", "groups"} : CacheExpires(k)
Spec == Init /\ [][Next]_vars

-----------------------------------------------------------------------------
(* Properties.                                                             *)

Pending(k) == \E r \in Requests : At(r, "drop") /\ (k = "groups" \/ request[r].of = "catalog")

\* A cached list is what the tables hold ("invalidated on every admin write",
\* service.go:211), once the writes that are done have dropped it: unless a
\* drop was lost, a reader stored a list whose reading crossed a drop, or the
\* last one of a product was sold.
CacheIsFresh == events \cap {"lost", "crossed", "soldout"} = {} =>
    \A k \in {"catalog", "groups"} : (cache[k] # Nothing /\ ~Pending(k)) => cache[k] = Current(k)

\* Every product that is not deleted lies in a group that is not deleted,
\* unless its writing crossed the deletion of the group (DeleteGroup counts
\* and deletes without a lock; CreateProduct looks the group up first).
GroupsHold == "orphaned" \notin events =>
    \A p \in Products : GetByID(p) => GetGroupByID(products[p].group)

\* What is left of a product is what was put in stock less what was sold, and
\* no more is sold than was put there, unless an edit wrote back a quantity it
\* had loaded before a sale (Update writes stock_qty with every edit).
StockKept == "overwrote" \notin events => \A p \in Products :
    products[p].stock = stocked[p].put - stocked[p].sold /\ stocked[p].sold <= stocked[p].put

\* A deleted product stays deleted, whatever edit loaded it before.
ProductGoneStep == \A p \in Products : products[p].state = "deleted" => products'[p].state = "deleted"
ProductStaysGone == [][ProductGoneStep]_vars
=============================================================================
