------------------------------ MODULE Sessions ------------------------------
(***************************************************************************)
(* One user's sessions: refresh tokens in Redis (service/authtoken), the     *)
(* auth use-cases that issue, rotate and revoke them, and the password they  *)
(* rest on.  Requests run side by side; a step is one Redis or SQL command.  *)
(***************************************************************************)
EXTENDS Naturals, Sequences, FiniteSets

CONSTANTS
    Requests,     \* bound: the requests handled at the same time
    MaxTokens,    \* bound: the refresh tokens ever issued
    MaxPasswords  \* bound: the password changes

VARIABLES
    user,     \* the users row: the number of its password, whether it is active
    live,     \* whmcs:refresh:<token>: the tokens that can be used
    index,    \* whmcs:refresh_user:<id>: the tokens a bulk revocation finds
    links,    \* the reset_password tokens mailed and not used
    issued,   \* history: every token with its session's password and its parent
    request,  \* the requests being handled
    events    \* history: what happened that weakens a guarantee
vars == <<user, live, index, links, issued, request, events>>

Idle == [at |-> "off", since |-> 0, from |-> 0, seen |-> {}]
Init ==
    /\ user = [password |-> 1, active |-> TRUE]
    /\ live = {} /\ index = {} /\ links = 0
    /\ issued = << >>
    /\ request = [r \in Requests |-> Idle]
    /\ events = {}

When(b, e) == IF b THEN {e} ELSE {}
At(r, p) == request[r].at = p
Goto(r, p) == request' = [request EXCEPT ![r].at = p]
Done(r) == request' = [request EXCEPT ![r] = Idle]

-----------------------------------------------------------------------------
(* Issuing.                                                                *)

\* Login and Impersonate: the row is read and checked, the tokens follow.
Login(r) ==
    /\ At(r, "off") /\ user.active
    /\ request' = [request EXCEPT ![r] = [Idle EXCEPT !.at = "issue", !.since = user.password]]
    /\ UNCHANGED <<user, live, index, links, issued, events>>

\* Mutant: the token is stored without its entry.
Unindexed(t) == index
Indexed(t) == index \cup {t}
\* CreateRefresh: token and index entry in one pipeline.  The history notes a
\* session that outlives a change of its password or a bulk revocation's look.
CreateRefresh(r) ==
    LET t == Len(issued) + 1
    IN  /\ At(r, "issue") /\ t <= MaxTokens
        /\ issued' = Append(issued, [since |-> request[r].since, from |-> request[r].from])
        /\ live' = live \cup {t} /\ index' = Indexed(t)
        /\ Done(r)
        /\ events' = events \cup When(request[r].since < user.password \/ ~user.active
                                      \/ (\E q \in Requests : At(q, "revoke") \/ At(q, "del")), "crossed")
        /\ UNCHANGED <<user, links>>

-----------------------------------------------------------------------------
(* Rotation and logout.                                                    *)

\* Mutant: the token is read and deleted later.
ReadOnly(t) == live
GetDel(t) == live \ {t}

\* ConsumeRefresh: GETDEL, then the index entry.
ConsumeRefresh(r, t) ==
    /\ At(r, "off") /\ t \in live
    /\ live' = GetDel(t)
    /\ request' = [request EXCEPT ![r] = [Idle EXCEPT !.at = "srem", !.since = issued[t].since, !.from = t]]
    /\ UNCHANGED <<user, index, links, issued, events>>

\* Refresh goes on: the user is loaded; an inactive one gets nothing.
Refresh(r) ==
    /\ At(r, "srem")
    /\ index' = index \ {request[r].from}
    /\ IF user.active THEN Goto(r, "issue") ELSE Done(r)
    /\ UNCHANGED <<user, live, links, issued, events>>

\* Logout: RevokeRefresh.
RevokeRefresh(r, t) ==
    /\ At(r, "off") /\ t \in live
    /\ live' = GetDel(t)
    /\ request' = [request EXCEPT ![r] = [Idle EXCEPT !.at = "forget", !.from = t]]
    /\ UNCHANGED <<user, index, links, issued, events>>
Forget(r) ==
    /\ At(r, "forget")
    /\ index' = index \ {request[r].from} /\ Done(r)
    /\ UNCHANGED <<user, live, links, issued, events>>

\* RefreshTTL passes for a token; its index entry stays.
TokenExpires(t) ==
    /\ t \in live /\ live' = live \ {t}
    /\ UNCHANGED <<user, index, links, issued, request, events>>

-----------------------------------------------------------------------------
(* Passwords.                                                              *)

ForgotPassword ==
    /\ links = 0 /\ links' = 1
    /\ UNCHANGED <<user, live, index, issued, request, events>>

\* ResetPassword: the one-time token is consumed first.
ResetPassword(r) ==
    /\ At(r, "off") /\ links > 0 /\ links' = links - 1
    /\ Goto(r, "update")
    /\ UNCHANGED <<user, live, index, issued, events>>
\* UpdateMe with the current password.
ChangePassword(r) ==
    /\ At(r, "off") /\ user.password < MaxPasswords
    /\ Goto(r, "update")
    /\ UNCHANGED <<user, live, index, links, issued, events>>
UpdatePassword(r) ==
    /\ At(r, "update") /\ user.password < MaxPasswords
    /\ user' = [user EXCEPT !.password = @ + 1]
    /\ Goto(r, "revoke")
    /\ UNCHANGED <<live, index, links, issued, events>>

\* RevokeAllForUser: SMEMBERS, then DEL of what was seen and of the index.
Members(r) ==
    /\ At(r, "revoke")
    /\ request' = [request EXCEPT ![r].at = "del", ![r].seen = index]
    /\ UNCHANGED <<user, live, index, links, issued, events>>
\* Mutant: only the index is deleted.
ForgetIndex(seen) == live
RevokeSeen(seen) == live \ seen
RevokeAllForUser(r) ==
    /\ At(r, "del")
    /\ live' = RevokeSeen(request[r].seen) /\ index' = {}
    /\ Done(r)
    /\ UNCHANGED <<user, links, issued, events>>

\* UpdateStaff with a password, by an administrator: nothing is revoked.
SetStaffPassword ==
    /\ user.password < MaxPasswords
    /\ user' = [user EXCEPT !.password = @ + 1]
    /\ events' = events \cup {"unrevoked"}
    /\ UNCHANGED <<live, index, links, issued, request>>
\* UpdateStaff and DeactivateStaff.
SetStatus ==
    /\ user' = [user EXCEPT !.active = ~@]
    /\ UNCHANGED <<live, index, links, issued, request, events>>

\* A request dies between two steps.
Crash(r) ==
    /\ ~At(r, "off") /\ Done(r)
    /\ events' = events \cup When(At(r, "revoke") \/ At(r, "del"), "unrevoked")
    /\ UNCHANGED <<user, live, index, links, issued>>

Step(r) ==
    \/ Login(r) \/ CreateRefresh(r) \/ Refresh(r) \/ Forget(r)
    \/ ResetPassword(r) \/ ChangePassword(r) \/ UpdatePassword(r) \/ Members(r) \/ RevokeAllForUser(r)
    \/ Crash(r)
Next ==
    \/ \E r \in Requests : Step(r) \/ (\E t \in live : ConsumeRefresh(r, t) \/ RevokeRefresh(r, t))
    \/ \E t \in live : TokenExpires(t)
    \/ ForgotPassword \/ SetStaffPassword \/ SetStatus
Spec == Init /\ [][Next]_vars

-----------------------------------------------------------------------------
(* Properties.                                                             *)

Revoking == \E r \in Requests : At(r, "revoke") \/ At(r, "del")

\* "RevokeAllForUser invalidates every outstanding session of a user": once the
\* revocation is through, no session rests on an old password, unless a request
\* was issuing a token meanwhile, or nobody got to revoke.
OldSessionsEnd ==
    ~Revoking /\ events = {} => \A t \in live : issued[t].since = user.password

\* userRefreshSetKey: every usable token can be found for revocation, unless it
\* was issued between the look and the deletion of a bulk revocation.
EverySessionFound == "crossed" \notin events => live \subseteq index

\* ConsumeRefresh "atomically consumes": a token is rotated into one successor.
OneSuccessor == \A t, u \in DOMAIN issued : t # u /\ issued[t].from = issued[u].from => issued[t].from = 0
=============================================================================
