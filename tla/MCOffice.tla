------------------------------ MODULE MCOffice ------------------------------
(*****************************************************************************)
(* The offices around the billing core, each instantiated for TLC with two   *)
(* requests at a time.  A behaviour is about one of them, which part names.  *)
(*****************************************************************************)
EXTENDS Integers, Sequences, TLC

CONSTANTS Requests

VARIABLES
    part,  \* the component a behaviour is about
    v1, v2, v3, v4, v5, v6, v7, v8, v9, v10, v11, v12, v13, v14, v15, v16  \* its variables, in the order of its module; the others stay 0
vars == <<part, v1, v2, v3, v4, v5, v6, v7, v8, v9, v10, v11, v12, v13, v14, v15, v16>>

ExtOf == [n \in {"a", "b", "c"} |-> IF n = "c" THEN "y" ELSE "x"]
RequestSymmetry == Permutations(Requests)
TldRow(max, reg, renew, transfer) ==
    [active |-> TRUE, min |-> 1, max |-> max, reg |-> reg, renew |-> renew, transfer |-> transfer]
TldRows == {TldRow(2, <<0, 3>>, 2, 1), TldRow(1, <<2, 3>>, 1, 2)}
Line(unit, setup, covered) == [unit |-> unit, setup |-> setup, covered |-> covered]
Carts == {<<Line(55, 0, TRUE)>>, <<Line(50, 20, FALSE)>>}
Input(min, max, step, def, included, unlimited) ==
    [min |-> min, max |-> max, step |-> step, def |-> def, included |-> included, unlimited |-> unlimited]
Inputs == {Input(1, 3, 2, 1, 2, TRUE), Input(0, 1, 1, 2, 0, FALSE)}
Choices == {<< >>, [k \in {"k"} |-> [qty |-> 2, unlimited |-> FALSE]],
            [k \in {"k"} |-> [qty |-> 0, unlimited |-> TRUE]]}


\* Refresh tokens, rotated and revoked by two requests.
Sessions == INSTANCE Sessions WITH
    Requests <- Requests, MaxTokens <- 3, MaxPasswords <- 2, user <- v1, live <- v2,
    index <- v3, links <- v4, issued <- v5, request <- v6, events <- v7

\* Rate limits, TOTP replay guard and password confirmation over four ticks.
LoginGuards == INSTANCE LoginGuards WITH
    Requests <- Requests, MaxAttempts <- 1, Window <- 3, ReplayTTL <- 3, ConfirmTTL <- 2,
    MaxTime <- 4, now <- v1, counter <- v2, guard <- v3, confirm <- v4, request <- v5,
    accepted <- v6, session <- v7, events <- v8

\* The users row, written whole by two handlers.
UserRow == INSTANCE UserRow WITH
    Requests <- Requests, MaxSecrets <- 2, row <- v1, request <- v2, meant <- v3,
    secrets <- v4, events <- v5

\* Registration, account creation and the links of the mails.
SignUp == INSTANCE Accounts WITH
    Requests <- Requests, Emails <- {"e", "f"}, MaxUsers <- 2, MaxLinks <- 2, users <- v1,
    profiles <- v2, links <- v3, request <- v4, used <- v5

\* Profiles, contacts, the credit ledger and a deposit.
Credit == INSTANCE Clients WITH
    Requests <- Requests, MaxCredit <- 2, MaxLedger <- 2, MaxDeposits <- 1, row <- v1,
    balance <- v2, ledger <- v3, deposits <- v4, contact <- v5, request <- v6, events <- v7

\* One ticket, three replies with attachments.
Tickets == INSTANCE Tickets WITH
    Depts <- {"d"}, Requests <- Requests, MaxReplies <- 3, depts <- v1, ticket <- v2,
    replies <- v3, stored <- v4, clock <- v5, shown <- v6, request <- v7, events <- v8

\* The knowledge base.
Knowledge == INSTANCE Knowledge WITH
    Cats <- {"c", "d"}, Slugs <- {"s", "t"}, Requests <- Requests, MaxArticles <- 1,
    MaxViews <- 1, cats <- v1, articles <- v2, counted <- v3, request <- v4, events <- v5

\* Announcements and network status.
Notices == INSTANCE Notices WITH
    Requests <- Requests, MaxTime <- 3, notice <- v1, issue <- v2, now <- v3, request <- v4,
    events <- v5

\* Mail templates in two locales, written while two mails are rendered.
Templates == INSTANCE Templates WITH
    Senders <- Requests, MaxWrites <- 3, rows <- v1, sender <- v2, writes <- v3,
    events <- v4

\* The registrar client and its circuit breaker, two calls.
Registrar == INSTANCE Registrar WITH
    Calls <- Requests, maxGetRetries <- 1, Threshold <- 2, Cooldown <- 1, MaxTime <- 1,
    site <- v1, breaker <- v2, now <- v3, call <- v4, events <- v5

\* Domain prices searched, quoted and charged.
Quotes == INSTANCE Quotes WITH
    Requests <- Requests, Rows <- TldRows, Prices <- {4}, Terms <- {1, 2}, Cost <- 9,
    MaxEdits <- 1, tld <- v1, premium <- v2, tier <- v3, addon <- v4, request <- v5,
    edits <- v6

\* Two imports of extensions from a paged catalogue.
TLDImport == INSTANCE TLDImport WITH
    TLDs <- {"a", "b"}, Imports <- Requests, Selections <- {<<"a", "b", "a">>, <<"b">>},
    PageSize <- 1, MaxChanges <- 1, MaxEdits <- 1, catalog <- v1, rows <- v2, job <- v3,
    count <- v4

\* A domain edited by its owner, an administrator and the sync.
DomainDesk == INSTANCE DomainDesk WITH
    Requests <- Requests, Hosts <- {"a", "b"}, Base <- 2, AddonPrice <- 3, MaxRequests <- 4,
    row <- v1, site <- v2, tld <- v3, request <- v4, served <- v5, events <- v6

\* One invoice through the reminder, overdue and late fee jobs.
Dunning == INSTANCE Dunning WITH
    Due <- 1, ReminderDays <- {1, 0}, OverdueDays <- {1}, MaxDay <- 3, day <- v1,
    status <- v2, fee <- v3, log <- v4, marker <- v5, charger <- v6, reminder <- v7,
    seen <- v8

\* The stored PDF of an invoice.
InvoicePdf == INSTANCE InvoicePdf WITH
    Runs <- Requests, MaxJobs <- 2, MaxEdits <- 1, row <- v1, lock <- v2, held <- v3,
    edit <- v4, object <- v5, gen <- v6, queue <- v7, events <- v8

\* The payment methods shown for two invoices.
Checkout == INSTANCE Checkout WITH
    Invoices <- {1, 2}, MaxTotal <- 3, minNonQRISAmount <- 2, total <- v1, manual <- v2,
    cache <- v3, page <- v4, events <- v5

\* One coupon: shown, used, edited and renewed.
Coupons == INSTANCE Coupons WITH
    Requests <- Requests, Carts <- Carts, Values <- {10, 150}, Fields <- {"kind", "value"},
    MaxOrders <- 2, MaxActive <- 1, MaxEdits <- 2, coupon <- v1, orders <- v2,
    services <- v3, renewals <- v4, request <- v5, edits <- v6, events <- v7

\* Product groups, a product and the cached catalogue.
Catalog == INSTANCE Catalog WITH
    Groups <- {"g", "h"}, Home <- "g", Products <- {"p"}, Requests <- Requests,
    MaxPrice <- 1, MaxStock <- 1, MaxWrites <- 2, groups <- v1, products <- v2, cache <- v3,
    request <- v4, writes <- v5, stocked <- v6, events <- v7

\* The knobs of a configurable product.
Specs == INSTANCE Specs WITH
    Keys <- {"k"}, Inputs <- Inputs, Choices <- Choices, Requests <- Requests,
    MaxPrice <- 1, MaxWrites <- 2, MaxQuotes <- 1, specs <- v1, request <- v2, writes <- v3,
    quotes <- v4

\* Duplicating a product while it is edited.
ProductCopy == INSTANCE ProductCopy WITH
    Requests <- Requests, MaxProducts <- 3, MaxEdits <- 1, maxCopySlugAttempts <- 2,
    products <- v1, request <- v2, edits <- v3, refusals <- v4, events <- v5

\* Option groups, options and values.
Options == INSTANCE Options WITH
    Groups <- {"g", "h"}, Opts <- {"o"}, Vals <- {"v"}, Requests <- Requests, MaxDelta <- 1,
    MaxWrites <- 4, groups <- v1, options <- v2, values <- v3, request <- v4, writes <- v5

\* Servers and groups, deleted while a service is placed.
Servers == INSTANCE Servers WITH
    Requests <- Requests, Groups <- {"g"}, Ids <- {1, 2}, Accounts <- {"a"}, MaxWrites <- 3,
    MaxSecrets <- 1, groups <- v1, servers <- v2, services <- v3, request <- v4,
    saved <- v5, count <- v6, events <- v7

\* A domain hunt: one worker, a pause, and cancellation by the client or the
\* stale sweep.
Solo == INSTANCE Snipe WITH
    Workers <- {"w1"}, Enders <- {"client", "sweep"}, DomainPrice <- 2, Fee <- 1,
    MaxFaults <- 1, MaxHalts <- 1, row <- v1, invoice <- v2, tx <- v3, credit <- v4,
    name <- v5, dom <- v6, hunt <- v7, pass <- v8, ender <- v9, loose <- v10, halted <- v11,
    view <- v12, alert <- v13, faults <- v14, halts <- v15, events <- v16

\* Two workers that compete for the lease of a hunt an administrator may
\* cancel.
Pair == INSTANCE Snipe WITH
    Workers <- Requests, Enders <- {"admin"}, DomainPrice <- 2, Fee <- 1, MaxFaults <- 1,
    MaxHalts <- 0, row <- v1, invoice <- v2, tx <- v3, credit <- v4, name <- v5, dom <- v6,
    hunt <- v7, pass <- v8, ender <- v9, loose <- v10, halted <- v11, view <- v12,
    alert <- v13, faults <- v14, halts <- v15, events <- v16

\* The pause of all hunts, seen by two workers.
Pause == INSTANCE SnipePause WITH
    Workers <- Requests, Cost <- 2, Floor <- 1, MaxBalance <- 3, MaxUpsets <- 2,
    setting <- v1, conf <- v2, doing <- v3, balance <- v4, valid <- v5, upsets <- v6,
    events <- v7

\* Two clients ask for hunts of two names, one running at a time.
Hunts == INSTANCE SnipeDesk WITH
    Clients <- {"c1", "c2"}, Names <- {"n1", "n2"}, MaxActivePerClient <- 1,
    MaxActiveGlobal <- 1, Requests <- Requests, MaxSnipes <- 2, snipes <- v1, request <- v2,
    held <- v3, plan <- v4, running <- v5, events <- v6

\* Two mails, their log rows and delivery tasks.
Mailer == INSTANCE Mail WITH
    Procs <- Requests, MaxRows <- 2, MaxRetry <- 1, MaxTasks <- 2, log <- v1, bodies <- v2,
    tasks <- v3, enqueued <- v4, proc <- v5, events <- v6

\* Two tasks of the queue, two workers and the cron lock.
Queue == INSTANCE Jobs WITH
    Tasks <- {"t1", "t2"}, Workers <- Requests, MaxRetry <- 1, MaxRuns <- 2, task <- v1,
    lock <- v2, worker <- v3, admin <- v4, events <- v5

\* One search of three names, two of one extension.
Search == INSTANCE Availability WITH
    Names <- {"a", "b", "c"}, ExtOf <- ExtOf, MaxPrice <- 2, taken <- v1, price <- v2,
    memo <- v3, go <- v4, answer <- v5, fetches <- v6

\* Renewal invoices of a service and a domain over two days.
Billing == INSTANCE Renewals WITH
    Lead <- 1, DueDays <- 1, Cycle <- 2, MaxDay <- 2, MaxInvoices <- 3, day <- v1,
    row <- v2, invoices <- v3, cron <- v4, request <- v5, payment <- v6, jobs <- v7,
    events <- v8

\* Two payments at the gateway, its callbacks and the reconciliation.
Duitku == INSTANCE Gateway WITH
    Calls <- Requests, MaxOrders <- 2, maxRetries <- 1, Threshold <- 2, Deliveries <- 2,
    MaxFaults <- 3, MaxKeys <- 1, site <- v1, key <- v2, attempt <- v3, rows <- v4,
    settled <- v5, callback <- v6, breaker <- v7, call <- v8, faults <- v9

\* The wizard, the API and the worker through crashes.
Installer == INSTANCE Installer WITH
    Saves <- Requests, Operators <- {"x", "y"}, MaxKeys <- 3, MaxCrashes <- 2,
    MaxEdits <- 1, base <- v1, file <- v2, api <- v3, worker <- v4, save <- v5,
    signal <- v6, creating <- v7, admins <- v8, count <- v9, life <- v10, used <- v11,
    events <- v12

\* The variables a component with k of them leaves alone, at 0.
Rest4 == <<v5, v6, v7, v8, v9, v10, v11, v12, v13, v14, v15, v16>>
Rest5 == <<v6, v7, v8, v9, v10, v11, v12, v13, v14, v15, v16>>
Rest6 == <<v7, v8, v9, v10, v11, v12, v13, v14, v15, v16>>
Rest7 == <<v8, v9, v10, v11, v12, v13, v14, v15, v16>>
Rest8 == <<v9, v10, v11, v12, v13, v14, v15, v16>>
Rest9 == <<v10, v11, v12, v13, v14, v15, v16>>
Rest12 == <<v13, v14, v15, v16>>
Zero4 == v5 = 0 /\ v6 = 0 /\ v7 = 0 /\ v8 = 0 /\ v9 = 0 /\ v10 = 0 /\ v11 = 0 /\ v12 = 0 /\ v13 = 0 /\ v14 = 0 /\ v15 = 0 /\ v16 = 0
Zero5 == v6 = 0 /\ v7 = 0 /\ v8 = 0 /\ v9 = 0 /\ v10 = 0 /\ v11 = 0 /\ v12 = 0 /\ v13 = 0 /\ v14 = 0 /\ v15 = 0 /\ v16 = 0
Zero6 == v7 = 0 /\ v8 = 0 /\ v9 = 0 /\ v10 = 0 /\ v11 = 0 /\ v12 = 0 /\ v13 = 0 /\ v14 = 0 /\ v15 = 0 /\ v16 = 0
Zero7 == v8 = 0 /\ v9 = 0 /\ v10 = 0 /\ v11 = 0 /\ v12 = 0 /\ v13 = 0 /\ v14 = 0 /\ v15 = 0 /\ v16 = 0
Zero8 == v9 = 0 /\ v10 = 0 /\ v11 = 0 /\ v12 = 0 /\ v13 = 0 /\ v14 = 0 /\ v15 = 0 /\ v16 = 0
Zero9 == v10 = 0 /\ v11 = 0 /\ v12 = 0 /\ v13 = 0 /\ v14 = 0 /\ v15 = 0 /\ v16 = 0
Zero12 == v13 = 0 /\ v14 = 0 /\ v15 = 0 /\ v16 = 0

Init ==
    \/ part = "sessions" /\ Sessions!Init /\ Zero7
    \/ part = "guards" /\ LoginGuards!Init /\ Zero8
    \/ part = "user" /\ UserRow!Init /\ Zero5
    \/ part = "signup" /\ SignUp!Init /\ Zero5
    \/ part = "clients" /\ Credit!Init /\ Zero7
    \/ part = "tickets" /\ Tickets!Init /\ Zero8
    \/ part = "kb" /\ Knowledge!Init /\ Zero5
    \/ part = "notices" /\ Notices!Init /\ Zero5
    \/ part = "templates" /\ Templates!Init /\ Zero4
    \/ part = "registrar" /\ Registrar!Init /\ Zero5
    \/ part = "quotes" /\ Quotes!Init /\ Zero6
    \/ part = "import" /\ TLDImport!Init /\ Zero4
    \/ part = "desk" /\ DomainDesk!Init /\ Zero6
    \/ part = "dunning" /\ Dunning!Init /\ Zero8
    \/ part = "pdf" /\ InvoicePdf!Init /\ Zero8
    \/ part = "checkout" /\ Checkout!Init /\ Zero5
    \/ part = "coupons" /\ Coupons!Init /\ Zero7
    \/ part = "catalog" /\ Catalog!Init /\ Zero7
    \/ part = "specs" /\ Specs!Init /\ Zero4
    \/ part = "copy" /\ ProductCopy!Init /\ Zero5
    \/ part = "options" /\ Options!Init /\ Zero5
    \/ part = "servers" /\ Servers!Init /\ Zero7
    \/ part = "solo" /\ Solo!Init
    \/ part = "pair" /\ Pair!Init
    \/ part = "pause" /\ Pause!Init /\ Zero7
    \/ part = "hunts" /\ Hunts!Init /\ Zero6
    \/ part = "mail" /\ Mailer!Init /\ Zero6
    \/ part = "jobs" /\ Queue!Init /\ Zero5
    \/ part = "search" /\ Search!Init /\ Zero6
    \/ part = "renewals" /\ Billing!Init /\ Zero8
    \/ part = "gateway" /\ Duitku!Init /\ Zero9
    \/ part = "installer" /\ Installer!Init /\ Zero12
Next ==
    /\ UNCHANGED part
    /\ \/ part = "sessions" /\ Sessions!Next /\ UNCHANGED Rest7
       \/ part = "guards" /\ LoginGuards!Next /\ UNCHANGED Rest8
       \/ part = "user" /\ UserRow!Next /\ UNCHANGED Rest5
       \/ part = "signup" /\ SignUp!Next /\ UNCHANGED Rest5
       \/ part = "clients" /\ Credit!Next /\ UNCHANGED Rest7
       \/ part = "tickets" /\ Tickets!Next /\ UNCHANGED Rest8
       \/ part = "kb" /\ Knowledge!Next /\ UNCHANGED Rest5
       \/ part = "notices" /\ Notices!Next /\ UNCHANGED Rest5
       \/ part = "templates" /\ Templates!Next /\ UNCHANGED Rest4
       \/ part = "registrar" /\ Registrar!Next /\ UNCHANGED Rest5
       \/ part = "quotes" /\ Quotes!Next /\ UNCHANGED Rest6
       \/ part = "import" /\ TLDImport!Next /\ UNCHANGED Rest4
       \/ part = "desk" /\ DomainDesk!Next /\ UNCHANGED Rest6
       \/ part = "dunning" /\ Dunning!Next /\ UNCHANGED Rest8
       \/ part = "pdf" /\ InvoicePdf!Next /\ UNCHANGED Rest8
       \/ part = "checkout" /\ Checkout!Next /\ UNCHANGED Rest5
       \/ part = "coupons" /\ Coupons!Next /\ UNCHANGED Rest7
       \/ part = "catalog" /\ Catalog!Next /\ UNCHANGED Rest7
       \/ part = "specs" /\ Specs!Next /\ UNCHANGED Rest4
       \/ part = "copy" /\ ProductCopy!Next /\ UNCHANGED Rest5
       \/ part = "options" /\ Options!Next /\ UNCHANGED Rest5
       \/ part = "servers" /\ Servers!Next /\ UNCHANGED Rest7
       \/ part = "solo" /\ Solo!Next
       \/ part = "pair" /\ Pair!Next
       \/ part = "pause" /\ Pause!Next /\ UNCHANGED Rest7
       \/ part = "hunts" /\ Hunts!Next /\ UNCHANGED Rest6
       \/ part = "mail" /\ Mailer!Next /\ UNCHANGED Rest6
       \/ part = "jobs" /\ Queue!Next /\ UNCHANGED Rest5
       \/ part = "search" /\ Search!Next /\ UNCHANGED Rest6
       \/ part = "renewals" /\ Billing!Next /\ UNCHANGED Rest8
       \/ part = "gateway" /\ Duitku!Next /\ UNCHANGED Rest9
       \/ part = "installer" /\ Installer!Next /\ UNCHANGED Rest12
Spec == Init /\ [][Next]_vars

-----------------------------------------------------------------------------
(* Properties, each of its own component.                                  *)

\* Refresh tokens, the TOTP and confirmation guards and the users row: a token
\* is rotated into one successor (ConsumeRefresh), a revocation finds every
\* session and none outlives its password (RevokeAllForUser), a TOTP step signs
\* in once (Accept), a confirmation belongs to its session, 2FA is on only with
\* a proven secret, and the last write of the row holds unless two handlers
\* overlapped.
AccessHolds ==
    /\ part = "sessions" =>
         /\ Sessions!OneSuccessor /\ Sessions!OldSessionsEnd /\ Sessions!EverySessionFound
    /\ part = "guards" =>
         /\ LoginGuards!StepUsedOnce /\ LoginGuards!ConfirmedInSession
    /\ part = "user" =>
         /\ UserRow!EnabledIsProven /\ UserRow!LastWriteHolds
\* Register, the creation of clients and staff, AdjustCredit and ProcessPaid:
\* an email has one account, a client its profile, a mailed link is answered
\* once, the ledger adds up to a balance that is never negative, and a deposit
\* is paid exactly when it is in the ledger.
ClientsHold ==
    /\ part = "signup" =>
         /\ SignUp!OneAccountPerEmail /\ SignUp!ClientHasProfile /\ SignUp!LinkUsedOnce
    /\ part = "clients" =>
         /\ Credit!LedgerAgrees /\ Credit!DepositCredited
\* Tickets, the knowledge base, notices and mail templates: closed_at is set
\* exactly on a closed ticket, attachments are stored, keep their numbers and
\* stay with their notes, what a row points to exists (DeleteDepartment,
\* DeleteCategory), views are not lost to edits, published is visible, resolved
\* has an end, and a mail is rendered whole from a variant that exists.
DeskHolds ==
    /\ part = "tickets" =>
         /\ Tickets!ClosedIsStamped /\ Tickets!FilesStored /\ Tickets!LinksHold
         /\ Tickets!NotesHidden /\ Tickets!DepartmentExists
    /\ part = "kb" =>
         /\ Knowledge!ArticleHasCategory /\ Knowledge!ViewsKept
    /\ part = "notices" =>
         /\ Notices!PublishedIsVisible /\ Notices!ResolvedHasEnd
    /\ part = "templates" =>
         /\ Templates!NeverEmpty /\ Templates!FoundIfThere
\* rdash.do, ensureCustomer, RenewDomain and the circuit breaker: what was
\* reported done was done and what was reported refused was not, one call acts
\* once, an email has one customer, a renewal extends the expiry that was read,
\* the breaker is open only after Threshold failures; and row and registrar
\* name the same nameservers (UpdateNameservers, SyncDomainJob), whose zone is
\* edited only with the add-on.
RegistrarHolds ==
    /\ part = "registrar" =>
         /\ Registrar!RefusedIsTrue /\ Registrar!AckedIsApplied /\ Registrar!AppliedOnce
         /\ Registrar!CustomerReused /\ Registrar!RenewsWhatWasRead /\ Registrar!OpenHasFailures
    /\ part = "desk" =>
         /\ DomainDesk!NameserversAgree /\ DomainDesk!ZoneIsPaid
\* What was shown is what is charged: QuoteRegistration, overlayPricing and the
\* checkout, ValidateCoupon and couponDiscount (but for one), an order and an
\* upgrade (resolveUpgradeSpecs), the payment methods of an invoice and what
\* the gateway accepts, the names of one extension in one search; add-ons do
\* not move the base price, nor do knobs lower it.
PricesAgree ==
    /\ part = "quotes" =>
         /\ Quotes!QuoteIsCharged /\ Quotes!ShownIsCharged
    /\ part = "desk" => DomainDesk!BaseKept
    /\ part = "checkout" =>
         /\ Checkout!OfferedIsAccepted /\ Checkout!CachedHasDefault
    /\ part = "coupons" => Coupons!CouponShownIsCharged
    /\ part = "specs" =>
         /\ Specs!NeverBelowBase /\ Specs!SameRules
    /\ part = "search" =>
         /\ Search!OnePricePerExtension /\ Search!AnswerIsWhole
\* Coupons, products, options and the imported price list: uses counted are
\* orders placed and within the limit, discounts within what they cover, a
\* cached list is what the tables hold (invalidateCatalog), stock is what was
\* put less what was sold, defaults lie within their bounds, a copy is what its
\* source was, nothing outlives its parent, and an import is whole and fails
\* only on a race.
CatalogueHolds ==
    /\ part = "import" =>
         /\ TLDImport!OnlyRacesFail /\ TLDImport!WholeList
    /\ part = "coupons" =>
         /\ Coupons!UsesCounted /\ Coupons!LimitHolds /\ Coupons!DiscountCovered
         /\ Coupons!NamedStays
    /\ part = "catalog" =>
         /\ Catalog!CacheIsFresh /\ Catalog!GroupsHold /\ Catalog!StockKept
    /\ part = "specs" => Specs!DefaultWithin
    /\ part = "copy" =>
         /\ ProductCopy!CopyIsWhole /\ ProductCopy!RefusedIsExplained
    /\ part = "options" => Options!NoStrays
\* Renewal invoices, reminders and PDFs: one open renewal invoice, a term
\* billed once, every paid renewal moves the due date one cycle, the days the
\* settings name are reminded once (SendReminders), and a paid invoice is
\* downloaded as paid from an object that exists.
BillingHolds ==
    /\ part = "dunning" =>
         /\ Dunning!RemindedOnce /\ Dunning!DayIsReminded
    /\ part = "pdf" =>
         /\ InvoicePdf!PaidIsShown /\ InvoicePdf!KeyHasObject
    /\ part = "renewals" =>
         /\ Billing!OneOpenInvoice /\ Billing!TermBilledOnce /\ Billing!DueMovesAsPaid
\* payWithGateway, HandleCallback and ReconcileOne: an order has one
\* transaction at the gateway, what was paid has a row, and what was closed
\* agrees with the gateway for good.
GatewayHolds ==
    /\ part = "gateway" =>
         /\ Duitku!OneTxPerOrder /\ Duitku!PaidIsKnown /\ Duitku!ClosedIsFinal
\* The domain hunt: what was paid is spent, at work or credited once, a won
\* snipe has the domain, a name that is ours is recorded or reported and so is
\* one that was refunded too, one worker hunts unless a lease lapsed (Claim), a
\* name is hunted once and within the limits, and nobody hunts a name the
\* system holds.
HuntHolds ==
    /\ part = "solo" =>
         /\ Solo!TypeOK /\ Solo!MoneySettled /\ Solo!NoStrayPayment
         /\ Solo!WonIsOurs /\ Solo!OwnedIsKnown /\ Solo!RefundedIsKnown
         /\ Solo!OneHunter
    /\ part = "pair" =>
         /\ Pair!TypeOK /\ Pair!MoneySettled /\ Pair!NoStrayPayment
         /\ Pair!WonIsOurs /\ Pair!OwnedIsKnown /\ Pair!RefundedIsKnown
         /\ Pair!OneHunter
    /\ part = "hunts" =>
         /\ Hunts!OneHuntPerName /\ Hunts!LimitsKept /\ Hunts!HeldIsNotHunted
\* Mail delivery and the job queue: a row that says sent was delivered, once,
\* and a queued one has its task; an archived task is alerted once (wrap), cron
\* runs do not overlap (WithLock), and only what failed is dismissed.
WorkHolds ==
    /\ part = "mail" =>
         /\ Mailer!SentIsDelivered /\ Mailer!DeliveredOnce /\ Mailer!QueuedIsInFlight
    /\ part = "jobs" =>
         /\ Queue!AlertedOnce /\ Queue!SingleFlight /\ Queue!OnlyFailedDismissed
\* Servers and the installer: the servers and groups in use stay and are called
\* with the password saved last (DeleteServer, encryptServerSecrets), the
\* processes keep the key they encrypted with, what the wizard accepts boots,
\* and there is one first administrator.
SetupHolds ==
    /\ part = "servers" =>
         /\ Servers!AccountsHaveServers /\ Servers!ServersHaveGroups /\ Servers!SecretKept
    /\ part = "installer" =>
         /\ Installer!OneKey /\ Installer!AcceptedBoots /\ Installer!OneAdmin
\* What a step may never do: blank an address, write a deleted client, contact,
\* article or product, reopen a ticket loaded as closed, move published_at,
\* replace a price row written by hand, take a PDF's key back, end a pause
\* before a top-up, or make a sent mail unsent.
NothingComesBack ==
    [][/\ part = "clients" => Credit!AddressStep /\ Credit!UntouchedStep
       /\ part = "tickets" => Tickets!ClosedStep
       /\ part = "kb" => Knowledge!ArticleGoneStep
       /\ part = "notices" => Notices!StampStep
       /\ part = "import" => TLDImport!HandStep
       /\ part = "pdf" => InvoicePdf!KeyStep
       /\ part = "catalog" => Catalog!ProductGoneStep
       /\ part = "pause" => Pause!EndsAfterTopUpStep
       /\ part = "mail" => Mailer!SentStep]_vars
\* recurringWithCoupon "returns the per-cycle recurring amount after applying a
\* recurring coupon to one item" (orders/pricing.go:611): a renewal costs that.
\* Not so, since the renewal takes the coupon off once more.
RenewsAtRecurringAmount == part = "coupons" => Coupons!RenewsAtRecurringAmount
=============================================================================
