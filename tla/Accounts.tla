------------------------------ MODULE Accounts ------------------------------
(***************************************************************************)
(* How accounts come to be: a visitor registers, an administrator creates a *)
(* client or a staff member, each after looking the email up, so that two   *)
(* of them race for the same address; a client's user and profile are       *)
(* inserted in one transaction; the verification link is a one-time token   *)
(* that is consumed before the row is marked, and can be sent again.        *)
(***************************************************************************)
EXTENDS Integers, Sequences, FiniteSets

CONSTANTS Emails,       \* addresses, as normalizeEmail leaves them
          Requests,     \* handlers running at the same time
          MaxUsers,     \* bound: users
          MaxLinks      \* bound: verification links

VARIABLES users,        \* sequence of [email, role, verified]
          profiles,     \* users (indices) that have a client row
          links,        \* sequence of [user, live]
          request,      \* request -> the handler's step
          used          \* history: how often each link was accepted

vars == <<users, profiles, links, request, used>>

Kinds == {"register", "client", "staff"}
Idle == [at |-> "off", kind |-> "register", email |-> "none", user |-> 0, link |-> 0]
Init ==
    /\ users = << >> /\ profiles = {} /\ links = << >>
    /\ request = [r \in Requests |-> Idle]
    /\ used = << >>

At(r, p) == request[r].at = p
Done(r) == request' = [request EXCEPT ![r] = Idle]

-----------------------------------------------------------------------------
(* The users table.                                                        *)

\* Mutant: nothing but the lookup keeps an email from being taken twice.
InsertBlind(e) == TRUE
\* Create: the unique index on lower(email) answers CONFLICT.
EmailFree(e) == \A u \in DOMAIN users : users[u].email # e
GetByEmail(e) == {u \in DOMAIN users : users[u].email = e}

\* Register, CreateClient and CreateStaff: look the email up, hash the password.
Lookup(r, k, e) ==
    /\ At(r, "off") /\ GetByEmail(e) = {}
    /\ request' = [request EXCEPT ![r] = [Idle EXCEPT !.at = "insert", !.kind = k, !.email = e]]
    /\ UNCHANGED <<users, profiles, links, used>>
Register(r, e)     == Lookup(r, "register", e)
CreateClient(r, e) == Lookup(r, "client", e)
CreateStaff(r, e)  == Lookup(r, "staff", e)

Row(r) == [email |-> request[r].email, verified |-> FALSE,
           role |-> IF request[r].kind = "staff" THEN "staff" ELSE "client"]
\* Mutant: the user is committed, the profile is inserted after it.
InsertAlone(r) ==
    /\ users' = Append(users, Row(r))
    /\ profiles' \in {profiles, profiles \cup {Len(users) + 1}}
\* The transaction of Register and CreateClient: user, then profile.
WithinTx(r) ==
    /\ users' = Append(users, Row(r))
    /\ profiles' = IF Row(r).role = "client" THEN profiles \cup {Len(users) + 1} ELSE profiles

Create(r) ==
    /\ At(r, "insert")
    /\ IF EmailFree(request[r].email) /\ Len(users) < MaxUsers
         THEN /\ WithinTx(r)
              /\ IF request[r].kind = "register"
                   THEN request' = [request EXCEPT ![r].at = "verification", ![r].user = Len(users) + 1]
                   ELSE Done(r)
         ELSE Done(r) /\ UNCHANGED <<users, profiles>>
    /\ UNCHANGED <<links, used>>

-----------------------------------------------------------------------------
(* Verification.                                                           *)

\* TokenStore.Create.
Issue(u) ==
    IF Len(links) < MaxLinks THEN links' = Append(links, [user |-> u, live |-> TRUE]) /\ used' = Append(used, 0)
                             ELSE UNCHANGED <<links, used>>
\* sendVerification is best effort; registration succeeds without it.
sendVerification(r) ==
    /\ At(r, "verification")
    /\ Issue(request[r].user) \/ UNCHANGED <<links, used>>
    /\ Done(r)
    /\ UNCHANGED <<users, profiles>>
\* ResendVerification: only for a known, unverified address.
ResendVerification(e) ==
    /\ \E u \in GetByEmail(e) : ~users[u].verified /\ Issue(u)
    /\ UNCHANGED <<users, profiles, request>>

\* Mutant: the token is looked up and deleted later.
Peek(l) == links
\* Consume: GETDEL.
Consume(l) == [links EXCEPT ![l].live = FALSE]
VerifyEmail(r, l) ==
    /\ At(r, "off") /\ links[l].live
    /\ links' = Consume(l)
    /\ used' = [used EXCEPT ![l] = IF @ < 2 THEN @ + 1 ELSE @]
    /\ request' = [request EXCEPT ![r] = [Idle EXCEPT !.at = "mark", !.user = links[l].user, !.link = l]]
    /\ UNCHANGED <<users, profiles>>
SetEmailVerified(r) ==
    /\ At(r, "mark")
    /\ users' = [users EXCEPT ![request[r].user].verified = TRUE]
    /\ Done(r)
    /\ UNCHANGED <<profiles, links, used>>
\* The request ends between the two: the link is spent, the row unmarked, and
\* only ResendVerification helps.
Crash(r) ==
    /\ ~At(r, "off") /\ Done(r)
    /\ UNCHANGED <<users, profiles, links, used>>

Next ==
    \/ \E r \in Requests :
         \/ \E e \in Emails : Register(r, e) \/ CreateClient(r, e) \/ CreateStaff(r, e)
         \/ Create(r) \/ sendVerification(r) \/ SetEmailVerified(r) \/ Crash(r)
         \/ \E l \in DOMAIN links : VerifyEmail(r, l)
    \/ \E e \in Emails : ResendVerification(e)
Spec == Init /\ [][Next]_vars

-----------------------------------------------------------------------------
(* Properties.                                                             *)

\* An email belongs to one account, however registrations and the creation of
\* clients and staff interleave after their lookups.
OneAccountPerEmail == \A u, v \in DOMAIN users : users[u].email = users[v].email => u = v

\* A client user always has its profile, a staff user never, whatever dies.
ClientHasProfile == profiles = {u \in DOMAIN users : users[u].role = "client"}

\* "Consume atomically deletes the token": of two requests with the same link
\* one is answered, and nobody is verified without a link to that account.
LinkUsedOnce ==
    /\ \A l \in DOMAIN links : used[l] <= 1
    /\ \A u \in DOMAIN users : users[u].verified => \E l \in DOMAIN links : links[l].user = u /\ ~links[l].live
=============================================================================
