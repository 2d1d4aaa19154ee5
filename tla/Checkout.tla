------------------------------ MODULE Checkout ------------------------------
(***************************************************************************)
(* The payment page of open invoices (payments GetPaymentMethods): the       *)
(* channels of every registered gateway for the remaining amount, cached ten *)
(* minutes per amount, and what the gateways accept when one is chosen.      *)
(***************************************************************************)
EXTENDS Naturals

CONSTANTS
    Invoices,  \* open invoices
    MaxTotal,  \* bound: an invoice's total
    minNonQRISAmount  \* the smallest amount of a channel outside QRIS

Amounts == 0 .. MaxTotal
Channels == {"qris", "va"}            \* Duitku's families; the manual gateway has one more
NoList == {"none"}
VARIABLES
    total,   \* per invoice: the remaining amount
    manual,  \* whether bank transfer is enabled with an account
    cache,   \* payments:methods:<amount>
    page,    \* per invoice: the request under way or the list its page shows
    events   \* history: what makes a shown list stale
vars == <<total, manual, cache, page, events>>

Closed == [at |-> "off", amount |-> 0, list |-> {}]
Init ==
    /\ total \in [Invoices -> Amounts] /\ manual = TRUE
    /\ cache = [a \in Amounts |-> NoList] /\ page = [i \in Invoices |-> Closed] /\ events = {}

\* Mutant: one entry for all amounts.
OneKey(a) == 0
cacheKey(a) == a
\* The request reads the invoice and the cache; nothing is left to pay at zero.
GetPaymentMethods(i) ==
    LET a == total[i]
    IN  /\ page[i] = Closed
        /\ page' = [page EXCEPT ![i] =
             CASE a = 0 -> [at |-> "shown", amount |-> a, list |-> {}]
               [] a > 0 /\ cache[cacheKey(a)] # NoList ->
                    [at |-> "shown", amount |-> a, list |-> cache[cacheKey(a)]]
               [] OTHER -> [at |-> "duitku", amount |-> a, list |-> {}]]
        /\ UNCHANGED <<total, manual, cache, events>>

\* The adapter drops the channels that refuse so small an amount.
Offered(a) == {m \in Channels : a >= minNonQRISAmount \/ m = "qris"}
\* Mutant: the default gateway is optional too.
OmitDefault(i) ==
    page' = [page EXCEPT ![i].at = "manual"]
DefaultFails(i) == page' = [page EXCEPT ![i] = Closed]
\* The default gateway's channels; its error ends the request.
ListDuitku(i) ==
    /\ page[i].at = "duitku"
    /\ \/ page' = [page EXCEPT ![i].at = "manual", ![i].list = Offered(page[i].amount)]
       \/ DefaultFails(i)
    /\ UNCHANGED <<total, manual, cache, events>>
\* The optional gateway's channel; disabled or unreadable settings leave it out.
ListManual(i) ==
    /\ page[i].at = "manual"
    /\ \/ manual /\ page' = [page EXCEPT ![i].at = "store", ![i].list = @ \cup {"bank_transfer"}]
       \/ page' = [page EXCEPT ![i].at = "store"]
    /\ UNCHANGED <<total, manual, cache, events>>
\* SetJSON, whose failure is only logged.
StoreList(i) ==
    /\ page[i].at = "store" /\ page' = [page EXCEPT ![i].at = "shown"]
    /\ \/ cache' = [cache EXCEPT ![cacheKey(page[i].amount)] = page[i].list]
       \/ UNCHANGED cache
    /\ UNCHANGED <<total, manual, events>>
Expire(a) ==
    /\ cache[a] # NoList /\ cache' = [cache EXCEPT ![a] = NoList]
    /\ UNCHANGED <<total, manual, page, events>>
ClosePage(i) ==
    /\ page[i].at = "shown" /\ page' = [page EXCEPT ![i] = Closed]
    /\ UNCHANGED <<total, manual, cache, events>>

\* What is open only grows: a late fee.
ApplyLateFee(i) ==
    /\ total[i] > 0 /\ total[i] < MaxTotal /\ total' = [total EXCEPT ![i] = @ + 1]
    /\ UNCHANGED <<manual, cache, page, events>>
\* Saving the bank-transfer settings clears no cache.
SaveManual ==
    /\ manual' = ~manual
    /\ events' = IF manual THEN events \cup {"disabled"} ELSE events
    /\ UNCHANGED <<total, cache, page>>

Next ==
    \/ SaveManual \/ \E a \in Amounts : Expire(a)
    \/ \E i \in Invoices :
         GetPaymentMethods(i) \/ ListDuitku(i) \/ ListManual(i) \/ StoreList(i)
         \/ ClosePage(i) \/ ApplyLateFee(i)
Spec == Init /\ [][Next]_vars

\* handleDuitkuInquiry and the manual gateway's CreateTransaction.
CreateTransactionAccepts(m, a) ==
    /\ a > 0
    /\ IF m = "bank_transfer" THEN manual ELSE a >= minNonQRISAmount \/ m = "qris"

-----------------------------------------------------------------------------
(* Properties.                                                             *)

\* The adapter's "a small invoice ... only offers methods that can actually complete":
\* whatever a page shows, from the gateways or from a list cached for another
\* invoice, the gateway accepts for this invoice, also after a late fee - unless bank
\* transfer was switched off under a cached or shown list.
OfferedIsAccepted ==
    \A i \in Invoices : page[i].at = "shown" =>
        \A m \in page[i].list \ (IF "disabled" \in events THEN {"bank_transfer"} ELSE {}) :
            CreateTransactionAccepts(m, total[i])

\* "If the DEFAULT gateway errors, that error propagates": a failed lookup is never
\* kept for ten minutes as a shorter list.
CachedHasDefault == \A a \in Amounts : cache[a] # NoList => "qris" \in cache[a]
=============================================================================
