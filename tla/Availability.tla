---------------------------- MODULE Availability ----------------------------
(***************************************************************************)
(* One search for several names (rdash CheckAvailability): a goroutine per   *)
(* name asks whether the name is free, then takes the price of its extension *)
(* from a memo shared by the goroutines, which a sync.Once per extension     *)
(* fills.  The registrar may change its prices meanwhile, and any call to    *)
(* it may fail.                                                             *)
(***************************************************************************)
EXTENDS Naturals, FiniteSets

CONSTANTS
    Names,      \* the names searched for
    ExtOf,      \* the extension of each name
    MaxPrice    \* bound: the price changes at the registrar

VARIABLES
    taken,      \* the names registered at the registrar
    price,      \* the registrar's price of each extension
    memo,       \* priceMemo: each extension's entry, absent until a goroutine asks
    go,         \* the goroutine of each name
    answer,     \* the search's answer: "none", "error" or "given"
    fetches     \* history: the price lookups sent for each extension
vars == <<taken, price, memo, go, answer, fetches>>

Exts == {ExtOf[n] : n \in Names}
Absent == [state |-> "absent", price |-> 0]
Init ==
    /\ taken \in SUBSET Names
    /\ price = [e \in Exts |-> 1]
    /\ memo = [e \in Exts |-> Absent]
    /\ go = [n \in Names |-> [at |-> "ask", free |-> FALSE, price |-> 0]]
    /\ answer = "none" /\ fetches = [e \in Exts |-> 0]

At(n, p) == go[n].at = p
To(n, p) == go' = [go EXCEPT ![n].at = p]

\* The registrar's own changes: a name is registered, a price rises.
RegistrarChanges ==
    /\ \/ \E n \in Names \ taken : taken' = taken \cup {n} /\ UNCHANGED price
       \/ \E e \in Exts : price[e] < MaxPrice /\ price' = [price EXCEPT ![e] = @ + 1] /\ UNCHANGED taken
    /\ UNCHANGED <<memo, go, answer, fetches>>

\* GET /domains/availability for one name; a failure is noted in errs.
AskAvailable(n) ==
    /\ At(n, "ask")
    /\ \/ To(n, "error")
       \/ go' = [go EXCEPT ![n] = [@ EXCEPT !.at = "memo", !.free = n \notin taken]]
    /\ UNCHANGED <<taken, price, memo, answer, fetches>>

\* Mutant: the entry is looked at, and filled, without the Once.
FillAlone(e) == memo[e].state # "done"
\* sync.Once: the first goroutine of the extension runs the lookup, the others
\* wait until it has returned.
FirstOnce(e) == memo[e].state = "absent"
priceForExtensionMemoized(n) ==
    LET e == ExtOf[n]
    IN  /\ At(n, "memo") /\ FirstOnce(e)
        /\ memo' = [memo EXCEPT ![e].state = "running"]
        /\ fetches' = [fetches EXCEPT ![e] = @ + 1]
        /\ To(n, "fetch") /\ UNCHANGED <<taken, price, answer>>
\* Mutant: a failure leaves the entry unfilled.
LeaveRunning(e) == memo
NoteFailure(e) == [memo EXCEPT ![e] = [state |-> "failed", price |-> 0]]
\* GET /account/prices; the error is kept in the memo as the price is.
priceForYear1(n) ==
    LET e == ExtOf[n]
    IN  /\ At(n, "fetch")
        /\ \/ memo' = NoteFailure(e) /\ To(n, "error")
           \/ /\ memo' = [memo EXCEPT ![e] = [state |-> "done", price |-> price[e]]]
              /\ go' = [go EXCEPT ![n].at = "done", ![n].price = price[e]]
        /\ UNCHANGED <<taken, price, answer, fetches>>
TakeMemo(n) ==
    LET m == memo[ExtOf[n]]
    IN  /\ At(n, "memo") /\ m.state \in {"done", "failed"}
        /\ IF m.state = "failed" THEN To(n, "error")
           ELSE go' = [go EXCEPT ![n].at = "done", ![n].price = m.price]
        /\ UNCHANGED <<taken, price, memo, answer, fetches>>

\* Mutant: the names that failed are left out of an answer.
SomeAnswered == \A n \in Names : go[n].at \in {"done", "error"}
\* wg.Wait, then the first error fails the whole search.
AllAnswered == \A n \in Names : At(n, "done")
Collect ==
    /\ answer = "none" /\ \A n \in Names : go[n].at \in {"done", "error"}
    /\ answer' = IF AllAnswered THEN "given" ELSE "error"
    /\ UNCHANGED <<taken, price, memo, go, fetches>>

Goroutine(n) == AskAvailable(n) \/ priceForExtensionMemoized(n) \/ priceForYear1(n) \/ TakeMemo(n)
Next == RegistrarChanges \/ Collect \/ \E n \in Names : Goroutine(n)
Spec == Init /\ [][Next]_vars
FairSpec == Spec /\ WF_vars(Collect) /\ \A n \in Names : WF_vars(Goroutine(n))

-----------------------------------------------------------------------------
(* Properties.                                                             *)

\* priceForExtensionMemoized "at most once per extension per CheckAvailability call":
\* two names of one extension carry one price, whatever the registrar changes
\* while the goroutines run.
OnePricePerExtension ==
    /\ \A e \in Exts : fetches[e] <= 1
    /\ \A n, m \in Names :
         At(n, "done") /\ At(m, "done") /\ ExtOf[n] = ExtOf[m] => go[n].price = go[m].price

\* CheckAvailability: an answer that is given has every name's own result, at a price
\* the registrar had while the search ran; one failed name fails the search.
AnswerIsWhole ==
    answer = "given" => \A n \in Names : At(n, "done") /\ go[n].price \in 1 .. price[ExtOf[n]]

\* wg.Wait: the search ends, also when the lookup the others wait for fails.
Answered == answer # "none"
SearchEnds == <>Answered
=============================================================================
