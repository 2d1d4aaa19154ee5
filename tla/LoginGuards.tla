---------------------------- MODULE LoginGuards -----------------------------
(***************************************************************************)
(* What guards a sign-in: the attempts counter of a fixed window             *)
(* (platform/ratelimit), the one-time use of a TOTP step                     *)
(* (platform/totpguard) and the password confirmation for sensitive pages    *)
(* (auth/confirm.go).  Time runs in TOTP steps.                              *)
(***************************************************************************)
EXTENDS Naturals, FiniteSets

CONSTANTS
    Requests,     \* bound: the requests handled at the same time
    MaxAttempts,  \* loginMaxAttempts, passwordConfirmMaxAttempts
    Window,       \* loginLockWindow
    ReplayTTL,    \* totpReplayTTL
    ConfirmTTL,   \* passwordConfirmTTL
    MaxTime       \* bound: the last step of the clock

VARIABLES
    now,
    counter,   \* whmcs:rl:<key>:<window>: the attempts of the current window
    guard,     \* whmcs:totp:step:<user>: last step accepted, and when
    confirm,   \* whmcs:cache:auth:pwconfirm:<user>: when it expires, or 0
    request,   \* the sign-ins and confirmations under way
    accepted,  \* history: the steps accepted, oldest first
    session,   \* history: sign-ins and logouts so far, and the one confirmed in
    events
vars == <<now, counter, guard, confirm, request, accepted, session, events>>

Keys == {"login", "confirm"}
Idle == [at |-> "off", session |-> 0]
Init ==
    /\ now = 1
    /\ counter = [k \in Keys |-> 0]
    /\ guard = [step |-> 0, at |-> 0]
    /\ confirm = 0
    /\ request = [r \in Requests |-> Idle]
    /\ accepted = [s \in 0..MaxTime + 1 |-> 0]
    /\ session = [current |-> 0, confirmed |-> 0]
    /\ events = {}

When(b, e) == IF b THEN {e} ELSE {}
At(r, p) == request[r].at = p
Goto(r, p) == request' = [request EXCEPT ![r].at = p]
Done(r) == request' = [request EXCEPT ![r] = Idle]

\* Keys expire with the clock; a new window starts a new counter.
Tick ==
    /\ now < MaxTime /\ now' = now + 1
    /\ counter' = IF now' \div Window = now \div Window THEN counter ELSE [k \in Keys |-> 0]
    /\ guard' = IF guard.step # 0 /\ now' >= guard.at + ReplayTTL THEN [step |-> 0, at |-> 0] ELSE guard
    /\ confirm' = IF confirm > now' THEN confirm ELSE 0
    /\ UNCHANGED <<request, accepted, session, events>>

\* Allow: INCR, then compare (the counter is not kept past the limit).
Allow(k) == counter[k] < MaxAttempts /\ counter' = [counter EXCEPT ![k] = @ + 1]
Cleared(k) == [counter EXCEPT ![k] = 0]

-----------------------------------------------------------------------------
(* Login.                                                                  *)

Login(r) ==
    /\ At(r, "off") /\ Allow("login")
    /\ Goto(r, "password")
    /\ UNCHANGED <<now, guard, confirm, accepted, session, events>>
WrongPassword(r) ==
    /\ At(r, "password") /\ Done(r)
    /\ UNCHANGED <<now, counter, guard, confirm, accepted, session, events>>
RightPassword(r) ==
    /\ At(r, "password") /\ Goto(r, "totp")
    /\ UNCHANGED <<now, counter, guard, confirm, accepted, session, events>>

\* ValidateTOTPStep: a code of this step or one to either side.
ValidateTOTPStep(s) == s \in {now - 1, now, now + 1} /\ s > 0
\* Mutant: a code of the last accepted step is good again.
AcceptSame(s) == guard.step <= s
\* Accept: the step is newer than the last one recorded.
Newer(s) == guard.step < s
Accept(r, s) ==
    /\ At(r, "totp") /\ ValidateTOTPStep(s)
    /\ IF Newer(s)
         THEN /\ guard' = [step |-> s, at |-> now]
              /\ accepted' = [accepted EXCEPT ![s] = IF @ < 2 THEN @ + 1 ELSE @]
              /\ Goto(r, "reset")
         ELSE Done(r) /\ UNCHANGED <<guard, accepted>>
    /\ UNCHANGED <<now, counter, confirm, session, events>>

\* The counter is cleared, then an old confirmation dropped.
Reset(r) ==
    /\ At(r, "reset") /\ counter' = Cleared("login")
    /\ Goto(r, "clear")
    /\ UNCHANGED <<now, guard, confirm, accepted, session, events>>

Confirming == \E r \in Requests : At(r, "store")
\* Mutant: an old confirmation stays.
KeepConfirmation == confirm
clearPasswordConfirmation == 0

SignedIn(r) ==
    /\ At(r, "clear")
    /\ confirm' = clearPasswordConfirmation
    /\ session' = [session EXCEPT !.current = (@ + 1) % 3]
    /\ events' = events \cup When(Confirming, "crossed")
    /\ Done(r)
    /\ UNCHANGED <<now, counter, guard, accepted>>

Logout ==
    /\ confirm' = clearPasswordConfirmation
    /\ session' = [session EXCEPT !.current = (@ + 1) % 3]
    /\ events' = events \cup When(Confirming, "crossed")
    /\ UNCHANGED <<now, counter, guard, request, accepted>>

-----------------------------------------------------------------------------
(* Password confirmation.                                                  *)

\* ConfirmPassword: the password is verified, the record stored, with its expiry.
ConfirmPassword(r) ==
    /\ At(r, "off") /\ Allow("confirm")
    /\ request' = [request EXCEPT ![r] = [at |-> "store", session |-> session.current]]
    /\ UNCHANGED <<now, guard, confirm, accepted, session, events>>
StoreConfirmation(r) ==
    /\ At(r, "store")
    /\ confirm' = now + ConfirmTTL
    /\ session' = [session EXCEPT !.confirmed = request[r].session]
    /\ counter' = Cleared("confirm")
    /\ Done(r)
    /\ UNCHANGED <<now, guard, accepted, events>>

\* PasswordConfirmation: what a page is told.
PasswordConfirmation == confirm > now

Next ==
    \/ Tick \/ Logout
    \/ \E r \in Requests :
         \/ Login(r) \/ WrongPassword(r) \/ RightPassword(r) \/ Reset(r) \/ SignedIn(r)
         \/ ConfirmPassword(r) \/ StoreConfirmation(r)
         \/ \E s \in now - 1..now + 1 : Accept(r, s)
Spec == Init /\ [][Next]_vars

-----------------------------------------------------------------------------
(* Properties.                                                             *)

\* Accept: a TOTP step signs in once, for as long as its code stays valid;
\* totpReplayTTL is "comfortably longer than any code can remain valid".
StepUsedOnce == \A s \in DOMAIN accepted : accepted[s] <= 1

\* "Any password confirmation left over from an earlier one must not carry
\* across": a confirmation belongs to the current session, unless it was stored
\* while a sign-in or logout was clearing it.
ConfirmedInSession ==
    PasswordConfirmation /\ "crossed" \notin events => session.confirmed = session.current
=============================================================================
