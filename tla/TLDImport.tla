----------------------------- MODULE TLDImport -----------------------------
(***************************************************************************)
(* Importing the registrar's price list into Domain Pricing (domains        *)
(* ImportTLDPricing and the adapter's ListCatalogPrices): the list is read   *)
(* page by page while the registrar changes it, then rows are inserted one   *)
(* by one, outside any transaction, while administrators edit rows by hand.  *)
(***************************************************************************)
EXTENDS Naturals, Sequences, SequencesExt

CONSTANTS
    TLDs,        \* the extensions
    Imports,     \* bound: the imports handled at the same time
    Selections,  \* the lists of extensions an administrator may submit
    PageSize,    \* catalogPageSize
    MaxChanges,  \* bound: the registrar's changes of its list
    MaxEdits     \* bound: the rows written by hand

VARIABLES
    catalog,  \* the registrar's list, in its order
    rows,     \* tld_pricing: "none", "hand" or "import", by who wrote the row
    job,      \* the imports under way
    count     \* the changes and the edits so far
vars == <<catalog, rows, job, count>>

Idle == [at |-> "off", todo |-> << >>, page |-> 1, list |-> {}, have |-> {},
         stable |-> TRUE, raced |-> FALSE]
Init ==
    /\ catalog = SetToSeq(TLDs)
    /\ rows = [t \in TLDs |-> "none"]
    /\ job = [i \in Imports |-> Idle]
    /\ count = [changes |-> 0, edits |-> 0]

At(i, p) == job[i].at = p
Put(i, j) == job' = [job EXCEPT ![i] = j]
Have == {t \in TLDs : rows[t] # "none"}

\* The registrar takes an extension off its list, or offers one again.
RegistrarChanges ==
    /\ count.changes < MaxChanges
    /\ \E t \in TLDs :
         catalog' = IF t \in ToSet(catalog) THEN SelectSeq(catalog, LAMBDA u : u # t)
                    ELSE Append(catalog, t)
    /\ job' = [i \in Imports |-> [job[i] EXCEPT !.stable = @ /\ job[i].at \notin {"list", "rows"}]]
    /\ count' = [count EXCEPT !.changes = @ + 1] /\ UNCHANGED rows

\* A row appears behind the back of the imports that have read the rows.
Race(t) == [i \in Imports |-> [job[i] EXCEPT !.raced = @ \/ (At(i, "loop") /\ t \notin job[i].have)]]
\* CreateTLDPricing and DeleteTLDPricing; tld is unique.
CreateTLDPricing(t) ==
    /\ rows[t] = "none" /\ count.edits < MaxEdits
    /\ rows' = [rows EXCEPT ![t] = "hand"] /\ job' = Race(t)
    /\ count' = [count EXCEPT !.edits = @ + 1] /\ UNCHANGED catalog
DeleteTLDPricing(t) ==
    /\ rows[t] # "none" /\ rows' = [rows EXCEPT ![t] = "none"]
    /\ UNCHANGED <<catalog, job, count>>

-----------------------------------------------------------------------------
(* One import.                                                             *)

ImportTLDPricing(i, s) ==
    /\ At(i, "off") /\ Put(i, [Idle EXCEPT !.at = "list", !.todo = s])
    /\ UNCHANGED <<catalog, rows, count>>

LastPage == (Len(catalog) + PageSize - 1) \div PageSize
Page(n) == SubSeq(catalog, (n - 1) * PageSize + 1, IF n * PageSize < Len(catalog) THEN n * PageSize
                                                                                 ELSE Len(catalog))
\* Mutant: the last page is not asked for.
StopEarly(n) == Page(n) = << >> \/ n + 1 >= LastPage
NoMorePages(n) == Page(n) = << >> \/ n >= LastPage
\* A page that fails fails the import.
ListCatalogPrices(i) ==
    LET j == job[i]
        got == j.list \cup ToSet(Page(j.page))
    IN  /\ At(i, "list")
        /\ \/ Put(i, Idle)
           \/ Put(i, [j EXCEPT !.list = got, !.page = @ + 1,
                               !.at = IF NoMorePages(j.page) THEN "rows" ELSE "list"])
        /\ UNCHANGED <<catalog, rows, count>>
ListRows(i) ==
    /\ At(i, "rows") /\ Put(i, [job[i] EXCEPT !.at = "loop", !.have = Have, !.page = 1, !.stable = TRUE])
    /\ UNCHANGED <<catalog, rows, count>>

\* Mutant: what the import itself inserted is not remembered.
ForgetOwn(j, t) == j.have
Remember(j, t) == j.have \cup {t}
\* Mutant: a row that appeared meanwhile is overwritten.
Upsert(t) == TRUE
\* The unique index on tld.
Insertable(t) == rows[t] = "none"
\* One turn of the loop: skipped, inserted, or refused by the index, which ends
\* the import with what it inserted so far and without an audit entry.
ImportNext(i) ==
    LET j == job[i]
        t == Head(j.todo)
        rest == [j EXCEPT !.todo = Tail(@)]
    IN  /\ At(i, "loop") /\ j.todo # << >>
        /\ IF t \in j.have \/ t \notin j.list THEN Put(i, rest) /\ UNCHANGED rows
           ELSE IF Insertable(t)
           THEN /\ rows' = [rows EXCEPT ![t] = "import"]
                /\ job' = [Race(t) EXCEPT ![i] = [rest EXCEPT !.have = Remember(j, t)]]
           ELSE Put(i, [j EXCEPT !.at = "failed"]) /\ UNCHANGED rows
        /\ UNCHANGED <<catalog, count>>
\* The summary, audited as one entry after the last row.
FinishImport(i) ==
    /\ At(i, "loop") /\ job[i].todo = << >>
    /\ Put(i, Idle)
    /\ UNCHANGED <<catalog, rows, count>>
ReportFailure(i) == At(i, "failed") /\ Put(i, Idle) /\ UNCHANGED <<catalog, rows, count>>

ImportStep(i) ==
    ListCatalogPrices(i) \/ ListRows(i) \/ ImportNext(i) \/ FinishImport(i) \/ ReportFailure(i)
Next ==
    \/ RegistrarChanges
    \/ \E t \in TLDs : CreateTLDPricing(t) \/ DeleteTLDPricing(t)
    \/ \E i \in Imports : ImportStep(i) \/ \E s \in Selections : ImportTLDPricing(i, s)
Spec == Init /\ [][Next]_vars

-----------------------------------------------------------------------------
(* Properties.                                                             *)

\* ImportTLDPricing "A TLD that already has a tld_pricing row ... is skipped rather
\* than erroring the whole batch": an import fails only when someone else inserted
\* a row after it had read the rows, never on a repeated extension of its own.
OnlyRacesFail == \A i \in Imports : At(i, "failed") => job[i].raced

\* ListCatalogPrices "paginating through every page": a list that did not change
\* while it was read was read whole.
WholeList ==
    \A i \in Imports : At(i, "rows") /\ job[i].stable => job[i].list = ToSet(catalog)

\* "TLDs that already have a tld_pricing row are always skipped, never overwritten":
\* no import replaces a row written by hand, however late it appeared.
HandStep == \A t \in TLDs : rows[t] = "hand" => rows'[t] # "import"
HandRowsStay == [][HandStep]_vars
=============================================================================
