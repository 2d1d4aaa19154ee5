------------------------------ MODULE Registrar ------------------------------
(***************************************************************************)
(* The RDash registrar adapter (backend/internal/integration/rdash) in     *)
(* front of the registrar, which is taken from mockserver/rdash.go.  Every *)
(* method of the adapter is a short sequence of HTTP requests; a request   *)
(* can be lost, answered late, answered with a server error, or answered   *)
(* with a body nobody can read, and the adapter must tell its caller       *)
(* whether the registrar may have acted.                                   *)
(*                                                                         *)
(* One domain name and one customer email are followed.  A call is used    *)
(* once: after it has ended, what remains of it is a request that the      *)
(* registrar may still serve although the caller gave up on it.            *)
(***************************************************************************)
EXTENDS Integers, Sequences, FiniteSets

CONSTANTS
    Calls,            \* calls of the adapter's methods, concurrent
    maxGetRetries,    \* how often a GET is repeated
    Threshold,        \* BreakerThreshold
    Cooldown,         \* BreakerCooldown
    MaxTime           \* bound on the clock

VARIABLES site, breaker, now, call, events
vars == <<site, breaker, now, call, events>>

-----------------------------------------------------------------------------
(* The methods of ports.RegistrarModule, as the requests they make.        *)

Register          == <<"find", "create", "domains">>
Transfer          == <<"find", "create", "transfer">>
Renew             == <<"details", "renew">>
UpdateNameservers == <<"details", "ns">>
UpdateDNSRecords  == <<"details", "dns">>
UpdateContact     == <<"details", "contact", "contacts">>
GetEPPCode        == <<"details", "auth_code">>
Methods == {Register, Transfer, Renew, UpdateNameservers, UpdateDNSRecords, UpdateContact, GetEPPCode}

IsGet(p) == p \in {"find", "details", "auth_code"}
Path(c) == call[c].method[call[c].step]
Last(c) == call[c].step = Len(call[c].method)
\* The request that does what the method is for.
Mutates(c) == Last(c) /\ ~IsGet(Path(c))

Idle == [at |-> "off", method |-> GetEPPCode, step |-> 1, tries |-> 0, wire |-> "none", ok |-> FALSE,
         found |-> FALSE, none |-> FALSE, date |-> 0, checked |-> 0, result |-> "none", applied |-> 0]
Init ==
    /\ site \in [customers : {0}, held : BOOLEAN, expiry : {1}, ns : {0}, dns : {0}, contacts : {{}},
                 contact : {0}, balance : {0, 1}]
    /\ breaker = [fails |-> 0, openUntil |-> 0]
    /\ now = 1
    /\ call = [c \in Calls |-> Idle]
    /\ events = {}

At(c, p) == call[c].at = p
End(c, r) == call' = [call EXCEPT ![c].at = "ended", ![c].result = r, ![c].tries = 0, ![c].found = FALSE]

-----------------------------------------------------------------------------
(* The registrar.  Each handler is the site it leaves behind, or a refusal *)
(* when it leaves the site alone.                                          *)

handleRDashCustomerCreate(c) == [site EXCEPT !.customers = @ + 1]
\* The availability check, the debit and the insert share one critical section.
rdashRegisterRejectLocked == site.held \/ site.balance < 1
handleRDashRegisterDomain(c) == [site EXCEPT !.held = TRUE, !.balance = @ - 1]
handleRDashTransferDomain(c) == [site EXCEPT !.held = TRUE]
handleRDashRenew(c)          == [site EXCEPT !.expiry = @ + 1]
handleRDashUpdateNS(c)       == [site EXCEPT !.ns = c]
handleRDashDNSReplace(c)     == [site EXCEPT !.dns = c]
handleRDashContactCreate(c)  == [site EXCEPT !.contacts = @ \cup {c}]
handleRDashUpdateContacts(c) == [site EXCEPT !.contact = c]

Handled(c) ==
    CASE Path(c) = "create"   -> handleRDashCustomerCreate(c)
      [] Path(c) = "domains"  -> handleRDashRegisterDomain(c)
      [] Path(c) = "transfer" -> handleRDashTransferDomain(c)
      [] Path(c) = "renew"    -> handleRDashRenew(c)
      [] Path(c) = "ns"       -> handleRDashUpdateNS(c)
      [] Path(c) = "dns"      -> handleRDashDNSReplace(c)
      [] Path(c) = "contact"  -> handleRDashContactCreate(c)
      [] Path(c) = "contacts" -> handleRDashUpdateContacts(c)
      [] OTHER                -> site

\* Mutant: the registrar renews whatever the caller believes the expiry to be.
AnyDate(c) == TRUE
\* handleRDashRenew: current_date must be the expiry on file.
CurrentDate(c) == call[c].date = site.expiry
Refused(c) ==
    CASE Path(c) = "domains"  -> rdashRegisterRejectLocked
      [] Path(c) = "transfer" -> site.held
      [] Path(c) = "renew"    -> ~CurrentDate(c)
      [] Path(c) = "details"  -> ~site.held
      [] Path(c) = "contacts" -> c \notin site.contacts
      [] OTHER                -> FALSE

\* Transfer and renewal check under one lock and write under another.
Sections(c) == Path(c) \in {"transfer", "renew"}
Effect(c) ==
    /\ site' = Handled(c)
    /\ call' = [call EXCEPT ![c].wire = "replied", ![c].ok = TRUE,
                            ![c].found = Path(c) = "find" /\ site.customers > 0,
                            ![c].none = IF Path(c) = "find" THEN site.customers = 0 ELSE @,
                            ![c].date = IF call[c].method = Renew /\ Path(c) = "details" THEN site.expiry ELSE @,
                            ![c].applied = IF Mutates(c) THEN @ + 1 ELSE @]
    /\ events' = events
         \cup (IF Path(c) = "create" /\ site.customers > 0 /\ call[c].none THEN {"bothCreate"} ELSE {})
         \cup (IF Path(c) = "renew" /\ site.expiry # call[c].date THEN {"blind"} ELSE {})
         \cup (IF Path(c) = "renew" /\ site.expiry # call[c].checked THEN {"bothRenew"} ELSE {})
    /\ UNCHANGED <<breaker, now>>
Serve(c) ==
    /\ call[c].wire = "sent"
    /\ IF Refused(c)
         THEN call' = [call EXCEPT ![c].wire = "replied", ![c].ok = FALSE] /\ UNCHANGED <<site, breaker, now, events>>
         ELSE IF Sections(c)
         THEN call' = [call EXCEPT ![c].wire = "checked", ![c].checked = site.expiry]
              /\ UNCHANGED <<site, breaker, now, events>>
         ELSE Effect(c)
ServeSecond(c) == call[c].wire = "checked" /\ Effect(c)
\* rdashFaultInjector with a 4xx or 429 status: refused before any handler ran.
rdashFaultInjector(c) ==
    /\ call[c].wire = "sent"
    /\ call' = [call EXCEPT ![c].wire = "replied", ![c].ok = FALSE]
    /\ UNCHANGED <<site, breaker, now, events>>

-----------------------------------------------------------------------------
(* The circuit breaker.                                                    *)

checkBreaker == now >= breaker.openUntil
\* Failures are only compared with the threshold, and counted up to it.
recordFailure ==
    breaker' = IF breaker.fails + 1 >= Threshold
                 THEN [fails |-> Threshold, openUntil |-> now + Cooldown]
                 ELSE [breaker EXCEPT !.fails = @ + 1]
\* Mutant: a healthy answer forgets the failures and leaves the breaker open.
KeepOpen == breaker' = [breaker EXCEPT !.fails = 0]
recordSuccess == breaker' = [fails |-> 0, openUntil |-> 0]
Tick == now < MaxTime /\ now' = now + 1 /\ UNCHANGED <<site, breaker, call, events>>

-----------------------------------------------------------------------------
(* The adapter.                                                            *)

Begin(c, m) ==
    /\ At(c, "off")
    /\ call' = [call EXCEPT ![c].at = "send", ![c].method = m]
    /\ UNCHANGED <<site, breaker, now, events>>

\* Mutant: every request is repeated.
RetryAll(c) == 1 + maxGetRetries
\* doPaged: only a GET is worth more than one attempt.
Attempts(c) == IF IsGet(Path(c)) THEN 1 + maxGetRetries ELSE 1
\* doPaged asks the breaker before the first attempt only.
doPaged(c) ==
    /\ At(c, "send")
    /\ IF call[c].tries = 0 /\ ~checkBreaker
         THEN End(c, "notsent")
         ELSE call' = [call EXCEPT ![c].at = "wait", ![c].wire = "sent", ![c].tries = @ + 1]
    /\ UNCHANGED <<site, breaker, now, events>>
\* The caller's context ends while a repetition is waited for.
Cancelled(c) ==
    /\ At(c, "send") /\ call[c].tries > 0
    /\ End(c, "plain")
    /\ UNCHANGED <<site, breaker, now, events>>

\* attempt, a network error, a timeout or a 5xx: nothing is known of the
\* request.  It was lost, it was served and the answer was not heard, or it is
\* still on its way.
Unheard(c) ==
    /\ At(c, "wait")
    /\ recordFailure
    /\ \E w \in {call[c].wire, "none"} :
         LET lost == [call EXCEPT ![c].wire = w]
         IN call' = IF call[c].tries < Attempts(c) THEN [lost EXCEPT ![c].at = "send"]
                    ELSE [lost EXCEPT ![c].at = "ended", ![c].result = "ambiguous", ![c].tries = 0]
    /\ UNCHANGED <<site, now, events>>
\* attempt, a 2xx whose body is no envelope or whose data does not decode.
Unreadable(c) ==
    /\ At(c, "wait") /\ call[c].wire = "replied" /\ call[c].ok
    /\ recordFailure \/ recordSuccess
    /\ End(c, "ambiguous")
    /\ UNCHANGED <<site, now, events>>

\* A refusal comes as a 4xx or as a 2xx envelope with success = false.
Envelopes(c) ==
    IF call[c].ok THEN {[http |-> 200, success |-> TRUE]}
    ELSE {[http |-> 409, success |-> FALSE], [http |-> 200, success |-> FALSE]}
\* Mutant: the HTTP status alone decides.
HTTPOnly(e) == e.http >= 400
\* attempt: an envelope that says false makes a failure of any status.
Failed(e) == e.http >= 400 \/ ~e.success
\* Mutant: the customer is created without looking at what was found.
AlwaysCreate(c) == call[c].step + 1
\* ensureCustomer: a customer found by findCustomerByEmail is reused.
ensureCustomer(c) == IF call[c].found THEN call[c].step + 2 ELSE call[c].step + 1
Following(c) == IF Path(c) = "find" THEN ensureCustomer(c) ELSE call[c].step + 1
\* RegisterForCustomer: an order whose result has no readable date may well be
\* placed; Transfer and Renew hand on the bare parse error.
BadDate(c) == IF Path(c) = "domains" THEN "ambiguous" ELSE "plain"
attempt(c) ==
    /\ At(c, "wait") /\ call[c].wire = "replied"
    /\ recordSuccess
    /\ \E e \in Envelopes(c) :
         \/ Failed(e) /\ End(c, "refused")
         \/ ~Failed(e) /\ Last(c) /\ End(c, "ok")
         \/ ~Failed(e) /\ Path(c) \in {"domains", "transfer", "renew"} /\ End(c, BadDate(c))
         \/ /\ ~Failed(e) /\ ~Last(c)
            /\ call' = [call EXCEPT ![c].at = "send", ![c].step = Following(c), ![c].tries = 0, ![c].wire = "none",
                                    ![c].ok = FALSE, ![c].found = FALSE]
    /\ UNCHANGED <<site, now, events>>

Adapter(c) == doPaged(c) \/ Unheard(c) \/ attempt(c)
Next ==
    \/ \E c \in Calls :
         \/ \E m \in Methods : Begin(c, m)
         \/ Serve(c) \/ ServeSecond(c) \/ rdashFaultInjector(c)
         \/ Adapter(c) \/ Cancelled(c) \/ Unreadable(c)
    \/ Tick
Spec == Init /\ [][Next]_vars

-----------------------------------------------------------------------------
(* Properties.                                                             *)

\* A caller told that the request was refused, or never sent, can rely on it:
\* the registrar did not act and never will, however late a request arrives.
RefusedIsTrue ==
    \A c \in Calls : call[c].result \in {"refused", "notsent"} =>
        call[c].applied = 0 /\ ~(Mutates(c) /\ call[c].wire \in {"sent", "checked"})

\* A caller told that the change was made can rely on it too: an envelope that
\* disagrees with its HTTP status is never taken for success.
AckedIsApplied == \A c \in Calls : call[c].result = "ok" /\ ~IsGet(Path(c)) => call[c].applied = 1

\* "POST/PUT never auto-retried": one call never acts twice at the registrar,
\* so a renewal whose answer was lost extends the domain once.
AppliedOnce == \A c \in Calls : call[c].applied <= 1

\* A customer is created for an email once, and reused by every later domain,
\* unless two calls both looked before either had created it.
CustomerReused == site.customers > 1 => "bothCreate" \in events

\* A renewal extends the expiry its caller read, or is refused; only two
\* renewals checked by the registrar side by side escape this.
RenewsWhatWasRead == "blind" \in events => "bothRenew" \in events

\* The breaker is open only on Threshold failures with no healthy answer since,
\* also when calls that began before it opened come back healthy.
OpenHasFailures == breaker.openUntil > 0 => breaker.fails >= Threshold
=============================================================================
