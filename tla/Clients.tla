------------------------------ MODULE Clients -------------------------------
(***************************************************************************)
(* The clients module, for one client: the profile row that the portal, the *)
(* account page and the administrators each load, change and write back as  *)
(* a whole; the credit balance with its ledger, changed by one guarded      *)
(* statement; deposits, whose payment is credited in the transaction that   *)
(* marks the invoice paid; the contacts; and the soft delete that any of    *)
(* them may race with.                                                      *)
(*                                                                          *)
(* Of the profile the model keeps the status and one of the four address    *)
(* fields that a domain registration needs ("" is blank).  Amounts are      *)
(* small numbers.                                                           *)
(***************************************************************************)
EXTENDS Integers, Sequences, FiniteSets, FiniteSetTheorems, TLAPS

CONSTANTS Requests,     \* handlers running at the same time
          MaxCredit,    \* bound: an amount, and the balance
          MaxLedger,    \* bound: ledger rows
          MaxDeposits   \* bound: deposit invoices

VARIABLES row,          \* [status, address, deleted]
          balance,      \* credit_balance
          ledger,       \* sequence of [delta, after, invoice]
          deposits,     \* sequence of "unpaid" | "paid"
          contact,      \* "none" | "live" | "deleted"
          request,      \* request -> the handler's step and the row it holds
          events        \* history: "overlap"

vars == <<row, balance, ledger, deposits, contact, request, events>>

Statuses == {"active", "inactive", "closed"}
Addresses == {"", "a", "b"}
Idle == [at |-> "off", row |-> [status |-> "active", address |-> "", deleted |-> FALSE]]

\* Create: a new client is active; registration may leave the address blank.
Init ==
    /\ row = Idle.row /\ balance = 0 /\ ledger = << >> /\ deposits = << >>
    /\ contact = "none"
    /\ request = [r \in Requests |-> Idle]
    /\ events = {}

At(r, p) == request[r].at = p
Done(r) == request' = [request EXCEPT ![r] = Idle]
\* GetByID finds only a client that is not deleted.
GetByID == ~row.deleted

-----------------------------------------------------------------------------
(* The profile.                                                            *)

\* Mutant: a blank value is a value like any other.
AcceptBlank(a) == TRUE
\* blankRequiredProfileFields: a required field may be left out, not emptied.
Acceptable(a) == a # ""
\* applyProfilePatch: nil fields stay.
applyProfilePatch(c, a) == [c EXCEPT !.address = a]

\* Load, patch, and write only if something changed.
Patch(r, new) ==
    /\ At(r, "off") /\ GetByID /\ new # row
    /\ request' = [request EXCEPT ![r] = [at |-> "save", row |-> new]]
    /\ UNCHANGED <<row, balance, ledger, deposits, contact, events>>
UpdateClient(r, a)  == Acceptable(a) /\ Patch(r, applyProfilePatch(row, a))
UpdateProfile(r, a) == Acceptable(a) /\ Patch(r, applyProfilePatch(row, a))
SetStatus(r, s)     == Patch(r, [row EXCEPT !.status = s])
\* UpdateMe changes the name in the row it loaded: no column modelled here.
UpdateMe(r) ==
    /\ At(r, "off") /\ GetByID
    /\ request' = [request EXCEPT ![r] = [at |-> "save", row |-> row]]
    /\ UNCHANGED <<row, balance, ledger, deposits, contact, events>>

\* Repo.Update: every profile column, never the balance; not a deleted row.
Update(new) == IF row.deleted THEN row ELSE new
Save(r) ==
    /\ At(r, "save")
    /\ row' = Update(request[r].row)
    /\ events' = IF \E q \in Requests \ {r} : At(q, "save") THEN events \cup {"overlap"} ELSE events
    /\ Done(r)
    /\ UNCHANGED <<balance, ledger, deposits, contact>>
\* DeleteClient: the row is marked; a request that holds it finds out on saving.
SoftDelete ==
    /\ GetByID /\ row' = [row EXCEPT !.deleted = TRUE]
    /\ UNCHANGED <<balance, ledger, deposits, contact, request, events>>

-----------------------------------------------------------------------------
(* Credit.                                                                 *)

\* Mutant: no look at the balance.
AnyDelta(d) == GetByID
\* AdjustCredit: UPDATE .. WHERE deleted_at IS NULL AND credit_balance + d >= 0.
Adjustable(d) == GetByID /\ balance + d >= 0
AdjustCredit(d, i) ==
    /\ Adjustable(d) /\ balance + d <= MaxCredit /\ Len(ledger) < MaxLedger
    /\ balance' = balance + d
    /\ ledger' = Append(ledger, [delta |-> d, after |-> balance + d, invoice |-> i])

\* AddCredit: only a positive amount.
AddCredit(i, d) == d > 0 /\ AdjustCredit(d, i)
\* DeductCredit, from a payment with credit; i is an invoice of no deposit.
DeductCredit(n) ==
    /\ n > 0 /\ AdjustCredit(-n, 0)
    /\ UNCHANGED <<row, deposits, contact, request, events>>
AdminAdjustCredit(d) ==
    /\ d # 0 /\ AdjustCredit(d, 0)
    /\ UNCHANGED <<row, deposits, contact, request, events>>

\* Deposit: the client is looked up, then CreateInvoice runs.
Deposit(r) ==
    /\ At(r, "off") /\ GetByID
    /\ request' = [request EXCEPT ![r].at = "invoice"]
    /\ UNCHANGED <<row, balance, ledger, deposits, contact, events>>
CreateInvoice(r) ==
    /\ At(r, "invoice") /\ Done(r)
    /\ deposits' = IF Len(deposits) < MaxDeposits THEN Append(deposits, "unpaid") ELSE deposits
    /\ UNCHANGED <<row, balance, ledger, contact, events>>

\* Mutant: the credit fails and the invoice is paid all the same.
PaidAnyway(i, d) ==
    \/ AddCredit(i, d) /\ deposits' = [deposits EXCEPT ![i] = "paid"]
    \/ row.deleted /\ deposits' = [deposits EXCEPT ![i] = "paid"] /\ UNCHANGED <<balance, ledger>>
\* ProcessPaid with a deposit item: AddCredit joins the transaction that marks
\* the invoice paid, so a deleted client rolls both back.
ProcessPaid(i, d) == AddCredit(i, d) /\ deposits' = [deposits EXCEPT ![i] = "paid"]
PayDeposit(i, d) ==
    /\ deposits[i] = "unpaid" /\ ProcessPaid(i, d)
    /\ UNCHANGED <<row, contact, request, events>>

-----------------------------------------------------------------------------
(* Contacts: sub-accounts without login.                                   *)

CreateContact(r) ==
    /\ At(r, "off") /\ contact = "none" /\ GetByID
    /\ request' = [request EXCEPT ![r].at = "insert"]
    /\ UNCHANGED <<row, balance, ledger, deposits, contact, events>>
InsertContact(r) ==
    /\ At(r, "insert") /\ Done(r)
    /\ contact' = IF contact = "none" THEN "live" ELSE contact
    /\ UNCHANGED <<row, balance, ledger, deposits, events>>
UpdateContact(r) ==
    /\ At(r, "off") /\ contact = "live"
    /\ request' = [request EXCEPT ![r].at = "contact"]
    /\ UNCHANGED <<row, balance, ledger, deposits, contact, events>>
\* Mutant: an upsert.
UpsertContact == "live"
\* Repo.UpdateContact: no row, NOT_FOUND.
WriteContact == contact
SaveContact(r) ==
    /\ At(r, "contact") /\ contact' = WriteContact /\ Done(r)
    /\ UNCHANGED <<row, balance, ledger, deposits, events>>
DeleteContact ==
    /\ contact = "live" /\ contact' = "deleted"
    /\ UNCHANGED <<row, balance, ledger, deposits, request, events>>

Next ==
    \/ \E r \in Requests :
         \/ \E a \in Addresses : UpdateClient(r, a) \/ UpdateProfile(r, a)
         \/ \E s \in Statuses : SetStatus(r, s)
         \/ UpdateMe(r) \/ Save(r) \/ Deposit(r) \/ CreateInvoice(r)
         \/ CreateContact(r) \/ InsertContact(r) \/ UpdateContact(r) \/ SaveContact(r)
    \/ \E n \in 1..MaxCredit : DeductCredit(n) \/ AdminAdjustCredit(n) \/ AdminAdjustCredit(-n)
    \/ \E i \in DOMAIN deposits, d \in 1..MaxCredit : PayDeposit(i, d)
    \/ SoftDelete \/ DeleteContact
Spec == Init /\ [][Next]_vars

-----------------------------------------------------------------------------
(* Properties.                                                             *)

\* "AdjustCredit atomically applies delta to credit_balance and writes the
\* ledger row": the rows add up, one after the other, to the balance, and the
\* balance is never negative, whatever payments, deposits and adjustments
\* interleave and whichever of them are refused.
LedgerAgrees ==
    /\ \A k \in DOMAIN ledger :
         ledger[k].after = ledger[k].delta + (IF k = 1 THEN 0 ELSE ledger[k - 1].after)
    /\ balance = IF ledger = << >> THEN 0 ELSE ledger[Len(ledger)].after
    /\ balance >= 0

\* A deposit invoice is paid exactly when its amount is in the ledger, once,
\* also when the client is deleted between the invoice and its payment.
DepositCredited ==
    \A i \in DOMAIN deposits :
        Cardinality({k \in DOMAIN ledger : ledger[k].invoice = i}) = (IF deposits[i] = "paid" THEN 1 ELSE 0)

\* "so a client can never blank one of them back out via a later profile edit":
\* a filled address stays filled, unless two handlers held the row at once.
AddressStep == row.address # "" => row'.address # "" \/ "overlap" \in events'
AddressStays == [][AddressStep]_vars

\* What is deleted stays deleted and untouched: the profile and a contact, for
\* every handler that had loaded them before.
UntouchedStep ==
    /\ row.deleted => row' = row /\ balance' = balance
    /\ contact = "deleted" => contact' = "deleted"
DeletedUntouched == [][UntouchedStep]_vars

-----------------------------------------------------------------------------
(* Proofs.                                                                 *)

Profile == [status : Statuses, address : Addresses, deleted : BOOLEAN]
LedgerRow == [delta : Int, after : Int, invoice : Nat]
TypeOK ==
    /\ row \in Profile /\ balance \in Int
    /\ ledger \in Seq(LedgerRow) /\ deposits \in Seq({"unpaid", "paid"})
    /\ request \in [Requests -> [at : {"off", "save", "invoice", "insert", "contact"}, row : Profile]]

Credits(i) == {k \in DOMAIN ledger : ledger[k].invoice = i}

\* The ledger names no deposit that does not exist yet, and no handler that
\* alone holds the row would blank its address.
CreditInv ==
    /\ TypeOK /\ LedgerAgrees /\ DepositCredited
    /\ \A k \in DOMAIN ledger : ledger[k].invoice <= Len(deposits)
    /\ "overlap" \notin events =>
          \A r \in Requests : At(r, "save") /\ row.address # "" => request[r].row.address # ""

\* What AdjustCredit does to the ledger.
LEMMA Adjusted ==
    ASSUME TypeOK, LedgerAgrees, NEW d \in Int, NEW i \in Nat, AdjustCredit(d, i)
    PROVE  /\ LedgerAgrees' /\ balance' \in Int /\ ledger' \in Seq(LedgerRow)
           /\ DOMAIN ledger' = DOMAIN ledger \cup {Len(ledger) + 1}
           /\ Len(ledger) + 1 \notin DOMAIN ledger
           /\ ledger'[Len(ledger) + 1].invoice = i
           /\ \A k \in DOMAIN ledger : ledger'[k] = ledger[k]
<1> DEFINE new == [delta |-> d, after |-> balance + d, invoice |-> i]
<1>1. /\ ledger' = Append(ledger, new) /\ balance' = balance + d /\ balance + d >= 0
      /\ balance \in Int /\ ledger \in Seq(LedgerRow) /\ new \in LedgerRow
  BY DEF AdjustCredit, Adjustable, TypeOK, LedgerRow
<1>2. /\ new.delta = d /\ new.after = balance + d /\ new.invoice = i
  OBVIOUS
<1> HIDE DEF new
<1>3. /\ ledger' \in Seq(LedgerRow) /\ Len(ledger') = Len(ledger) + 1 /\ Len(ledger) \in Nat
      /\ DOMAIN ledger = 1 .. Len(ledger) /\ DOMAIN ledger' = 1 .. Len(ledger')
      /\ ledger'[Len(ledger) + 1] = new /\ \A k \in 1 .. Len(ledger) : ledger'[k] = ledger[k]
  BY <1>1
<1>4. DOMAIN ledger' = DOMAIN ledger \cup {Len(ledger) + 1} /\ Len(ledger) + 1 \notin DOMAIN ledger
  BY <1>3
<1>5. ASSUME NEW k \in DOMAIN ledger'
      PROVE  ledger'[k].after = ledger'[k].delta + (IF k = 1 THEN 0 ELSE ledger'[k - 1].after)
  <2>1. CASE k \in DOMAIN ledger
    <3>1. k # 1 => k - 1 \in 1 .. Len(ledger)
      BY <1>3, <2>1
    <3> QED BY <1>3, <2>1, <3>1 DEF LedgerAgrees
  <2>2. CASE k = Len(ledger) + 1
    <3>1. CASE Len(ledger) = 0
      <4>1. ledger = << >> /\ k = 1
        BY <1>1, <2>2, <3>1
      <4>2. balance = 0
        BY <4>1 DEF LedgerAgrees
      <4> QED BY <1>1, <1>2, <1>3, <2>2, <4>1, <4>2
    <3>2. CASE Len(ledger) # 0
      <4>1. ledger # << >> /\ k # 1 /\ k - 1 = Len(ledger) /\ k - 1 \in 1 .. Len(ledger)
        BY <1>1, <1>3, <2>2, <3>2
      <4>2. balance = ledger[Len(ledger)].after
        BY <4>1 DEF LedgerAgrees
      <4>3. ledger'[k - 1].after = balance
        BY <1>3, <4>1, <4>2
      <4> QED BY <1>1, <1>2, <1>3, <2>2, <4>1, <4>3
    <3> QED BY <3>1, <3>2
  <2> QED BY <1>4, <2>1, <2>2
<1>6. ledger' # << >>
  BY <1>1, <1>3
<1>7. balance' = ledger'[Len(ledger')].after /\ balance' >= 0
  BY <1>1, <1>2, <1>3
<1> QED BY <1>1, <1>2, <1>3, <1>4, <1>5, <1>6, <1>7 DEF LedgerAgrees

LEMMA CreditInit == Init => CreditInv
<1> SUFFICES ASSUME Init PROVE CreditInv
  OBVIOUS
<1>1. TypeOK
  <2>1. Idle \in [at : {"off", "save", "invoice", "insert", "contact"}, row : Profile] /\ Idle.row \in Profile
    BY DEF Idle, Profile, Statuses, Addresses
  <2>2. ledger \in Seq(LedgerRow) /\ deposits \in Seq({"unpaid", "paid"}) /\ balance \in Int
    BY DEF Init
  <2> QED BY <2>1, <2>2 DEF Init, TypeOK
<1>2. LedgerAgrees /\ DepositCredited /\ \A k \in DOMAIN ledger : ledger[k].invoice <= Len(deposits)
  <2>1. ledger = << >> /\ deposits = << >> /\ balance = 0
    BY DEF Init
  <2>2. DOMAIN ledger = {} /\ DOMAIN deposits = {}
    BY <2>1
  <2> QED BY <2>1, <2>2 DEF LedgerAgrees, DepositCredited
<1>3. \A r \in Requests : ~ At(r, "save")
  BY DEF Init, At, Idle
<1> QED BY <1>1, <1>2, <1>3 DEF CreditInv

\* A step that neither credits nor creates a deposit.
LEMMA LedgerFrame ==
    ASSUME CreditInv, UNCHANGED <<balance, ledger, deposits>>
    PROVE  /\ LedgerAgrees' /\ DepositCredited'
           /\ \A k \in DOMAIN ledger' : ledger'[k].invoice <= Len(deposits')
BY DEF CreditInv, LedgerAgrees, DepositCredited

\* A step on the credit alone.
LEMMA ProfileFrame ==
    ASSUME CreditInv, UNCHANGED <<row, request, events>>
    PROVE  "overlap" \notin events' =>
              \A r \in Requests : At(r, "save")' /\ row'.address # "" => request'[r].row.address # ""
BY DEF CreditInv, At

\* A step of a handler, on the profile and the contacts.
HandlerStep(r) ==
    \/ \E a \in Addresses : UpdateClient(r, a) \/ UpdateProfile(r, a)
    \/ \E s \in Statuses : SetStatus(r, s)
    \/ UpdateMe(r) \/ Save(r) \/ Deposit(r)
    \/ CreateContact(r) \/ InsertContact(r) \/ UpdateContact(r) \/ SaveContact(r)

LEMMA HandlerSteps ==
    ASSUME CreditInv, NEW r \in Requests, HandlerStep(r)
    PROVE  CreditInv' /\ AddressStep /\ UntouchedStep
<1>t. /\ row \in Profile
      /\ request \in [Requests -> [at : {"off", "save", "invoice", "insert", "contact"}, row : Profile]]
      /\ Idle \in [at : {"off", "save", "invoice", "insert", "contact"}, row : Profile]
      /\ Idle.at = "off"
  BY DEF CreditInv, TypeOK, Idle, Profile, Statuses, Addresses
<1>1. UNCHANGED <<balance, ledger, deposits>>
  BY DEF HandlerStep, UpdateClient, UpdateProfile, SetStatus, UpdateMe, Save, Deposit, Patch,
     CreateContact, InsertContact, UpdateContact, SaveContact
<1>2. contact = "deleted" => contact' = "deleted"
  BY DEF HandlerStep, UpdateClient, UpdateProfile, SetStatus, UpdateMe, Save, Deposit, Patch,
     CreateContact, InsertContact, UpdateContact, SaveContact, WriteContact
<1>3. ASSUME NEW new \in Profile, request' = [request EXCEPT ![r] = [at |-> "save", row |-> new]],
             row' = row, events' = events, row.address # "" => new.address # ""
      PROVE  CreditInv' /\ AddressStep /\ UntouchedStep
  <2>1. TypeOK'
    BY <1>t, <1>1, <1>3 DEF CreditInv, TypeOK
  <2>2. /\ \A q \in Requests \ {r} : request'[q] = request[q]
        /\ request'[r].row = new
    BY <1>t, <1>3
  <2>3. "overlap" \notin events' =>
           \A q \in Requests : At(q, "save")' /\ row'.address # "" => request'[q].row.address # ""
    BY <1>3, <2>2 DEF CreditInv, At
  <2> QED BY <1>1, <1>2, <1>3, <2>1, <2>3, LedgerFrame DEF CreditInv, AddressStep, UntouchedStep
<1>4. CASE \E a \in Addresses : UpdateClient(r, a) \/ UpdateProfile(r, a)
  <2>1. PICK a \in Addresses : UpdateClient(r, a) \/ UpdateProfile(r, a)
    BY <1>4
  <2>2. [row EXCEPT !.address = a] \in Profile /\ [row EXCEPT !.address = a].address # ""
    BY <1>t, <2>1 DEF Profile, UpdateClient, UpdateProfile, Acceptable
  <2> QED BY <1>3, <2>1, <2>2 DEF UpdateClient, UpdateProfile, Patch, applyProfilePatch
<1>5. CASE \E s \in Statuses : SetStatus(r, s)
  <2>1. PICK s \in Statuses : SetStatus(r, s)
    BY <1>5
  <2>2. [row EXCEPT !.status = s] \in Profile /\ [row EXCEPT !.status = s].address = row.address
    BY <1>t DEF Profile
  <2> QED BY <1>3, <2>1, <2>2 DEF SetStatus, Patch
<1>6. CASE UpdateMe(r)
  BY <1>t, <1>3, <1>6 DEF UpdateMe
<1>7. CASE Save(r)
  <2>1. /\ request' = [request EXCEPT ![r] = Idle] /\ At(r, "save")
        /\ row' = IF row.deleted THEN row ELSE request[r].row
    BY <1>7 DEF Save, Update, Done
  <2>2. TypeOK'
    BY <1>t, <1>1, <2>1 DEF CreditInv, TypeOK
  <2>3. /\ "overlap" \notin events' =>
              "overlap" \notin events /\ \A q \in Requests \ {r} : ~At(q, "save")
    BY <1>7 DEF Save
  <2>4. \A q \in Requests : At(q, "save")' => q # r /\ At(q, "save")
    BY <1>t, <2>1 DEF At
  <2>5. "overlap" \notin events' =>
           \A q \in Requests : At(q, "save")' /\ row'.address # "" => request'[q].row.address # ""
    BY <2>3, <2>4
  <2>6. AddressStep
    BY <2>1, <2>3 DEF AddressStep, CreditInv
  <2>7. UntouchedStep
    BY <1>1, <1>2, <2>1 DEF UntouchedStep
  <2> QED BY <1>1, <2>2, <2>5, <2>6, <2>7, LedgerFrame DEF CreditInv
<1>8. CASE Deposit(r) \/ CreateContact(r) \/ InsertContact(r) \/ UpdateContact(r) \/ SaveContact(r)
  <2>1. /\ row' = row /\ events' = events
        /\ \/ request' = [request EXCEPT ![r] = Idle]
           \/ \E p \in {"invoice", "insert", "contact"} : request' = [request EXCEPT ![r].at = p]
    BY <1>8 DEF Deposit, CreateContact, InsertContact, UpdateContact, SaveContact, Done
  <2>2. /\ request' \in [Requests -> [at : {"off", "save", "invoice", "insert", "contact"}, row : Profile]]
        /\ \A q \in Requests \ {r} : request'[q] = request[q]
        /\ request'[r].at # "save"
    BY <1>t, <2>1
  <2>3. TypeOK'
    BY <1>1, <2>1, <2>2 DEF CreditInv, TypeOK
  <2>4. "overlap" \notin events' =>
           \A q \in Requests : At(q, "save")' /\ row'.address # "" => request'[q].row.address # ""
    BY <2>1, <2>2 DEF CreditInv, At
  <2> QED BY <1>1, <1>2, <2>1, <2>3, <2>4, LedgerFrame DEF CreditInv, AddressStep, UntouchedStep
<1> QED BY <1>4, <1>5, <1>6, <1>7, <1>8 DEF HandlerStep

LEMMA ClientStep ==
    ASSUME MaxCredit \in Nat, CreditInv, [Next]_vars
    PROVE  CreditInv' /\ [AddressStep]_vars /\ [UntouchedStep]_vars
<1>t. /\ TypeOK /\ LedgerAgrees /\ DepositCredited
      /\ row \in Profile /\ ledger \in Seq(LedgerRow) /\ deposits \in Seq({"unpaid", "paid"})
      /\ \A k \in DOMAIN ledger : ledger[k].invoice <= Len(deposits) /\ ledger[k].invoice \in Nat
      /\ DOMAIN ledger = 1 .. Len(ledger) /\ Len(ledger) \in Nat
      /\ DOMAIN deposits = 1 .. Len(deposits) /\ Len(deposits) \in Nat
  <2>1. /\ ledger \in Seq(LedgerRow) /\ deposits \in Seq({"unpaid", "paid"})
        /\ \A k \in DOMAIN ledger : ledger[k].invoice <= Len(deposits)
    BY DEF CreditInv, TypeOK
  <2>2. /\ DOMAIN ledger = 1 .. Len(ledger) /\ Len(ledger) \in Nat /\ Len(deposits) \in Nat
        /\ DOMAIN deposits = 1 .. Len(deposits)
    BY <2>1
  <2>3. \A k \in 1 .. Len(ledger) : ledger[k] \in LedgerRow
    BY <2>1
  <2>4. \A k \in DOMAIN ledger : ledger[k].invoice \in Nat
    BY <2>2, <2>3 DEF LedgerRow
  <2> QED BY <2>1, <2>2, <2>4 DEF CreditInv, TypeOK
<1>f. ASSUME NEW i PROVE IsFiniteSet(Credits(i))
  <2>1. IsFiniteSet(1 .. Len(ledger))
    BY <1>t, FS_Interval
  <2>2. Credits(i) \subseteq 1 .. Len(ledger)
    BY <1>t DEF Credits
  <2> QED BY <2>1, <2>2, FS_Subset
<1>1. CASE UNCHANGED vars
  <2>1. UNCHANGED <<row, balance, ledger, deposits, request, events>>
    BY <1>1 DEF vars
  <2> QED BY <1>1, <1>t, <2>1, LedgerFrame, ProfileFrame DEF CreditInv, TypeOK
<1>2. ASSUME NEW r \in Requests, HandlerStep(r)
      PROVE  CreditInv' /\ [AddressStep]_vars /\ [UntouchedStep]_vars
  BY <1>2, HandlerSteps
<1>3. ASSUME NEW r \in Requests, CreateInvoice(r)
      PROVE  CreditInv' /\ [AddressStep]_vars /\ [UntouchedStep]_vars
  <2>1. /\ UNCHANGED <<row, balance, ledger, contact, events>>
        /\ request' = [request EXCEPT ![r] = Idle]
        /\ deposits' = Append(deposits, "unpaid") \/ deposits' = deposits
    BY <1>3 DEF CreateInvoice, Done
  <2>2. /\ deposits' \in Seq({"unpaid", "paid"}) /\ Len(deposits) <= Len(deposits')
        /\ \A i \in DOMAIN deposits' : \/ i \in DOMAIN deposits /\ deposits'[i] = deposits[i]
                                       \/ i > Len(deposits) /\ deposits'[i] = "unpaid"
    <3>1. CASE deposits' = deposits
      BY <1>t, <3>1
    <3>2. CASE deposits' = Append(deposits, "unpaid")
      <4>1. /\ deposits' \in Seq({"unpaid", "paid"}) /\ Len(deposits') = Len(deposits) + 1
            /\ DOMAIN deposits' = 1 .. Len(deposits')
            /\ deposits'[Len(deposits) + 1] = "unpaid"
            /\ \A i \in 1 .. Len(deposits) : deposits'[i] = deposits[i]
        BY <1>t, <3>2
      <4> QED BY <1>t, <4>1
    <3> QED BY <2>1, <3>1, <3>2
  <2>3. TypeOK'
    BY <1>t, <2>1, <2>2 DEF TypeOK, Idle, Profile, Statuses, Addresses
  <2>4. LedgerAgrees'
    BY <1>t, <2>1 DEF LedgerAgrees
  <2>5. \A k \in DOMAIN ledger' : ledger'[k].invoice <= Len(deposits')
    BY <1>t, <2>1, <2>2
  <2>6. ASSUME NEW i \in DOMAIN deposits'
        PROVE  Cardinality({k \in DOMAIN ledger' : ledger'[k].invoice = i})
                 = IF deposits'[i] = "paid" THEN 1 ELSE 0
    <3>1. CASE i \in DOMAIN deposits /\ deposits'[i] = deposits[i]
      BY <1>t, <2>1, <3>1 DEF DepositCredited
    <3>2. CASE i > Len(deposits) /\ deposits'[i] = "unpaid"
      <4>1. {k \in DOMAIN ledger' : ledger'[k].invoice = i} = {}
        BY <1>t, <2>1, <3>2
      <4> QED BY <3>2, <4>1, FS_EmptySet
    <3> QED BY <2>2, <3>1, <3>2
  <2>7. \A q \in Requests : At(q, "save")' => At(q, "save") /\ request'[q] = request[q]
    BY <1>t, <2>1 DEF TypeOK, At, Idle
  <2>8. "overlap" \notin events' =>
           \A q \in Requests : At(q, "save")' /\ row'.address # "" => request'[q].row.address # ""
    BY <2>1, <2>7 DEF CreditInv
  <2>9. DepositCredited'
    BY <2>6 DEF DepositCredited
  <2> QED BY <2>1, <2>3, <2>4, <2>5, <2>8, <2>9 DEF CreditInv, AddressStep, UntouchedStep
<1>4. ASSUME NEW n \in 1 .. MaxCredit,
             DeductCredit(n) \/ AdminAdjustCredit(n) \/ AdminAdjustCredit(-n)
      PROVE  CreditInv' /\ [AddressStep]_vars /\ [UntouchedStep]_vars
  <2>1. PICK d \in Int : AdjustCredit(d, 0)
    BY <1>4 DEF DeductCredit, AdminAdjustCredit
  <2>2. UNCHANGED <<row, deposits, contact, request, events>> /\ ~row.deleted
    BY <1>4, <2>1 DEF DeductCredit, AdminAdjustCredit, AdjustCredit, Adjustable, GetByID
  <2>3. /\ LedgerAgrees' /\ balance' \in Int /\ ledger' \in Seq(LedgerRow)
        /\ DOMAIN ledger' = DOMAIN ledger \cup {Len(ledger) + 1}
        /\ ledger'[Len(ledger) + 1].invoice = 0
        /\ \A k \in DOMAIN ledger : ledger'[k] = ledger[k]
    BY <1>t, <2>1, Adjusted
  <2>4. TypeOK'
    BY <1>t, <2>2, <2>3 DEF TypeOK
  <2>5. \A k \in DOMAIN ledger' : ledger'[k].invoice <= Len(deposits')
    BY <1>t, <2>2, <2>3
  <2>6. \A i \in DOMAIN deposits : {k \in DOMAIN ledger' : ledger'[k].invoice = i}
                                     = {k \in DOMAIN ledger : ledger[k].invoice = i}
    BY <1>t, <2>3
  <2>7. DepositCredited'
    BY <1>t, <2>2, <2>6 DEF DepositCredited
  <2> QED BY <2>2, <2>3, <2>4, <2>5, <2>7, ProfileFrame DEF CreditInv, AddressStep, UntouchedStep
<1>5. ASSUME NEW i \in DOMAIN deposits, NEW d \in 1 .. MaxCredit, PayDeposit(i, d)
      PROVE  CreditInv' /\ [AddressStep]_vars /\ [UntouchedStep]_vars
  <2>1. /\ AdjustCredit(d, i) /\ deposits[i] = "unpaid" /\ d \in Int /\ i \in Nat
        /\ deposits' = [deposits EXCEPT ![i] = "paid"]
        /\ UNCHANGED <<row, contact, request, events>> /\ ~row.deleted
    BY <1>t, <1>5 DEF PayDeposit, ProcessPaid, AddCredit, AdjustCredit, Adjustable, GetByID
  <2>2. /\ LedgerAgrees' /\ balance' \in Int /\ ledger' \in Seq(LedgerRow)
        /\ DOMAIN ledger' = DOMAIN ledger \cup {Len(ledger) + 1}
        /\ Len(ledger) + 1 \notin DOMAIN ledger
        /\ ledger'[Len(ledger) + 1].invoice = i
        /\ \A k \in DOMAIN ledger : ledger'[k] = ledger[k]
    BY <1>t, <2>1, Adjusted
  <2>3. /\ deposits' \in Seq({"unpaid", "paid"}) /\ Len(deposits') = Len(deposits)
        /\ DOMAIN deposits' = DOMAIN deposits
        /\ deposits'[i] = "paid" /\ \A j \in DOMAIN deposits \ {i} : deposits'[j] = deposits[j]
    BY <1>t, <2>1
  <2>4. TypeOK'
    BY <1>t, <2>1, <2>2, <2>3 DEF TypeOK
  <2>5. \A k \in DOMAIN ledger' : ledger'[k].invoice <= Len(deposits')
    BY <1>t, <2>2, <2>3
  <2>6. ASSUME NEW j \in DOMAIN deposits \ {i}
        PROVE  Credits(j)' = Credits(j)
    BY <1>t, <2>2 DEF Credits
  <2>7. Credits(i)' = Credits(i) \cup {Len(ledger) + 1} /\ Len(ledger) + 1 \notin Credits(i)
    BY <1>t, <2>2 DEF Credits
  <2>8. Cardinality(Credits(i)) = 0
    BY <1>t, <2>1 DEF DepositCredited, Credits
  <2>9. Cardinality(Credits(i)') = 1
    <3>1. Cardinality(Credits(i) \cup {Len(ledger) + 1}) = Cardinality(Credits(i)) + 1
      BY <1>f, <2>7, FS_AddElement
    <3> QED BY <2>7, <2>8, <3>1
  <2>10. DepositCredited'
    <3>1. \A j \in DOMAIN deposits : Cardinality(Credits(j)) = (IF deposits[j] = "paid" THEN 1 ELSE 0)
      BY <1>t DEF DepositCredited, Credits
    <3>2. \A j \in DOMAIN deposits' : Cardinality(Credits(j)') = (IF deposits'[j] = "paid" THEN 1 ELSE 0)
      BY <2>3, <2>6, <2>9, <3>1
    <3> QED BY <3>2 DEF DepositCredited, Credits
  <2> QED BY <2>1, <2>2, <2>4, <2>5, <2>10, ProfileFrame DEF CreditInv, AddressStep, UntouchedStep
<1>6. CASE SoftDelete
  <2>1. /\ row' = [row EXCEPT !.deleted = TRUE] /\ ~row.deleted
        /\ UNCHANGED <<balance, ledger, deposits, contact, request, events>>
    BY <1>6 DEF SoftDelete, GetByID
  <2>2. row' \in Profile /\ row'.address = row.address
    BY <1>t, <2>1 DEF Profile
  <2>3. TypeOK'
    BY <1>t, <2>1, <2>2 DEF TypeOK
  <2>4. "overlap" \notin events' =>
           \A q \in Requests : At(q, "save")' /\ row'.address # "" => request'[q].row.address # ""
    BY <2>1, <2>2 DEF CreditInv, At
  <2> QED BY <2>1, <2>2, <2>3, <2>4, LedgerFrame DEF CreditInv, AddressStep, UntouchedStep
<1>7. CASE DeleteContact
  <2>1. UNCHANGED <<row, balance, ledger, deposits, request, events>> /\ contact = "live"
    BY <1>7 DEF DeleteContact
  <2>2. TypeOK'
    BY <1>t, <2>1 DEF TypeOK
  <2> QED BY <2>1, <2>2, LedgerFrame, ProfileFrame DEF CreditInv, AddressStep, UntouchedStep
<1> QED BY <1>1, <1>2, <1>3, <1>4, <1>5, <1>6, <1>7 DEF Next, HandlerStep

\* The ledger adds up to the balance, which is never negative, and a deposit is
\* paid exactly when it was credited, once: however many handlers run at once.
THEOREM CreditAgrees == MaxCredit \in Nat => (Spec => [](LedgerAgrees /\ DepositCredited))
<1> SUFFICES ASSUME MaxCredit \in Nat PROVE Spec => [](LedgerAgrees /\ DepositCredited)
  OBVIOUS
<1>1. CreditInv /\ [Next]_vars => CreditInv'
  BY ClientStep
<1>2. CreditInv => LedgerAgrees /\ DepositCredited
  BY DEF CreditInv
<1> QED BY <1>1, <1>2, CreditInit, PTL DEF Spec

\* No profile edit blanks a filled address unless two handlers held the row at
\* once, and nothing changes a deleted client or brings back a deleted contact.
THEOREM ProfileKept == MaxCredit \in Nat => (Spec => AddressStays /\ DeletedUntouched)
<1> SUFFICES ASSUME MaxCredit \in Nat PROVE Spec => AddressStays /\ DeletedUntouched
  OBVIOUS
<1>1. CreditInv /\ [Next]_vars => CreditInv'
  BY ClientStep
<1>2. CreditInv /\ [Next]_vars => [AddressStep]_vars /\ [UntouchedStep]_vars
  BY ClientStep
<1>3. Spec => []CreditInv /\ [][Next]_vars
  BY <1>1, CreditInit, PTL DEF Spec
<1>4. []CreditInv /\ [][Next]_vars => [][AddressStep]_vars /\ [][UntouchedStep]_vars
  BY <1>2, PTL
<1> QED BY <1>3, <1>4 DEF AddressStays, DeletedUntouched
=============================================================================
