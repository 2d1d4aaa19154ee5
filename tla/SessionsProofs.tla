--------------------------- MODULE SessionsProofs ---------------------------
(***************************************************************************)
(* Proofs about Sessions, for any number of requests, tokens and passwords.  *)
(***************************************************************************)
EXTENDS Sessions, TLAPS

Places == {"off", "issue", "srem", "forget", "update", "revoke", "del"}
Token == [since : Nat, from : Nat]
Request == [at : Places, since : Nat, from : Nat, seen : SUBSET Nat]

TypeInv ==
    /\ user \in [password : Nat, active : BOOLEAN]
    /\ issued \in Seq(Token)
    /\ live \subseteq DOMAIN issued
    /\ index \subseteq Nat
    /\ request \in [Requests -> Request]

\* A request that carries a token has taken it out of live, carries it alone
\* and has not issued its successor; a live token has none either.
RotationInv ==
    /\ \A r \in Requests : At(r, "off") => request[r].from = 0
    /\ \A r \in Requests : request[r].from # 0 => request[r].from \in DOMAIN issued
    /\ \A r \in Requests : request[r].from \notin live
    /\ \A r \in Requests : \A u \in DOMAIN issued : request[r].from # 0 => issued[u].from # request[r].from
    /\ \A q, r \in Requests : request[r].from # 0 /\ q # r => request[q].from # request[r].from
    /\ \A t \in live : \A u \in DOMAIN issued : issued[u].from # t
    /\ \A u \in DOMAIN issued : issued[u].from # 0 => issued[u].from \in DOMAIN issued
    /\ OneSuccessor

\* Until a token is issued across a bulk revocation, the index holds every live
\* token, and so does what a bulk revocation has read of it.
IndexInv ==
    "crossed" \notin events =>
        /\ live \subseteq index
        /\ \A r \in Requests : At(r, "del") => live \subseteq request[r].seen

\* No session is of a later password than the user's.
PasswordInv ==
    /\ \A t \in DOMAIN issued : issued[t].since <= user.password
    /\ \A r \in Requests : request[r].since <= user.password
    /\ OldSessionsEnd

Inv == TypeInv /\ RotationInv /\ IndexInv /\ PasswordInv

(* What CreateRefresh appends to the history.                                *)
LEMMA Appended ==
    ASSUME NEW S, NEW s \in Seq(S), NEW e \in S
    PROVE  /\ Append(s, e) \in Seq(S)
           /\ Len(s) + 1 \in Nat \ {0}
           /\ Len(s) + 1 \notin DOMAIN s
           /\ DOMAIN s \subseteq Nat \ {0}
           /\ DOMAIN Append(s, e) = DOMAIN s \cup {Len(s) + 1}
           /\ \A i \in DOMAIN s : Append(s, e)[i] = s[i]
           /\ Append(s, e)[Len(s) + 1] = e
  OBVIOUS

(* An entry of the history.                                                  *)
LEMMA Entry ==
    ASSUME NEW s \in Seq(Token), NEW i \in DOMAIN s
    PROVE  i \in Nat \ {0} /\ s[i] \in Token /\ s[i].since \in Nat
<1>1. i \in Nat \ {0} /\ s[i] \in Token
  OBVIOUS
<1> QED BY <1>1 DEF Token

(* A request at rest.                                                        *)
LEMMA AtRest == Idle \in Request /\ Idle.from = 0 /\ Idle.since = 0 /\ Idle.at = "off"
  BY DEF Idle, Request, Places

LEMMA Initially == Init => Inv
<1> SUFFICES ASSUME Init PROVE Inv
  OBVIOUS
<1>1. issued = << >> /\ DOMAIN issued = {} /\ live = {} /\ index = {} /\ events = {}
  BY DEF Init
<1>2. TypeInv
  BY <1>1 DEF Init, TypeInv, Idle, Places, Request, Token
<1>3. \A r \in Requests : request[r].from = 0 /\ request[r].since = 0 /\ request[r].at = "off"
  BY DEF Init, Idle
<1> QED BY <1>1, <1>2, <1>3 DEF Inv, RotationInv, IndexInv, PasswordInv, At, OneSuccessor, OldSessionsEnd, TypeInv

(* A new session: the token that a login or a rotation issues.               *)
LEMMA Issuing ==
    ASSUME Inv, NEW r \in Requests, CreateRefresh(r)
    PROVE  Inv'
<1> DEFINE e == [since |-> request[r].since, from |-> request[r].from]
           t == Len(issued) + 1
<1>0. request[r] \in Request /\ e \in Token /\ issued \in Seq(Token)
  BY DEF Inv, TypeInv, Request, Token
<1>1. /\ issued' = Append(issued, e) /\ live' = live \cup {t} /\ index' = index \cup {t} /\ user' = user
      /\ request' = [request EXCEPT ![r] = Idle]
      /\ events' = events \cup When(request[r].since < user.password \/ ~user.active
                                    \/ (\E q \in Requests : At(q, "revoke") \/ At(q, "del")), "crossed")
  BY DEF CreateRefresh, Indexed, Done
<1>2. /\ issued' \in Seq(Token)
      /\ t \in Nat \ {0} /\ t \notin DOMAIN issued /\ DOMAIN issued \subseteq Nat \ {0}
      /\ DOMAIN issued' = DOMAIN issued \cup {t}
      /\ \A i \in DOMAIN issued : issued'[i] = issued[i]
      /\ issued'[t] = e
  BY <1>0, <1>1, Appended
<1>3. e.since = request[r].since /\ e.from = request[r].from /\ Idle \in Request
  BY DEF Idle, Request, Places
<1> HIDE DEF e, t
<1>4. /\ \A q \in Requests : q # r => request'[q] = request[q]
      /\ request'[r] = Idle /\ request'[r].from = 0 /\ request'[r].since = 0 /\ request'[r].at = "off"
  BY <1>1 DEF Inv, TypeInv, Idle
<1>5. TypeInv'
  BY <1>1, <1>2, <1>3 DEF Inv, TypeInv
<1>6. RotationInv'
  <2>1. \A q \in Requests : request'[q].from # t
    BY <1>2, <1>4 DEF Inv, RotationInv
  <2>2. \A u \in DOMAIN issued : issued[u].from # t
    BY <1>2 DEF Inv, RotationInv
  <2> QED BY <1>1, <1>2, <1>3, <1>4, <2>1, <2>2 DEF Inv, TypeInv, RotationInv, At, OneSuccessor
<1>7. IndexInv'
  <2>1. CASE "crossed" \in events'
    BY <2>1 DEF IndexInv
  <2>2. CASE "crossed" \notin events'
    <3>1. "crossed" \notin events /\ \A q \in Requests : ~At(q, "revoke") /\ ~At(q, "del")
      BY <1>1, <2>2 DEF When
    <3> QED BY <1>1, <1>4, <3>1 DEF Inv, IndexInv, At
  <2> QED BY <2>1, <2>2
<1>8. PasswordInv'
  <2>1. (\A i \in DOMAIN issued : issued[i].since <= user.password)' /\ (\A q \in Requests : request[q].since <= user.password)'
    BY <1>0, <1>1, <1>2, <1>3, <1>4 DEF Inv, PasswordInv, TypeInv
  <2>2. ASSUME events' = {} PROVE (\A i \in live : issued[i].since = user.password)'
    <3>1. events = {} /\ ~Revoking /\ ~(request[r].since < user.password)
      BY <1>1, <2>2 DEF When, Revoking
    <3>2. request[r].since = user.password
      BY <1>0, <3>1 DEF Inv, PasswordInv, TypeInv, Request
    <3> QED BY <1>1, <1>2, <1>3, <3>1, <3>2 DEF Inv, TypeInv, PasswordInv, OldSessionsEnd
  <2> QED BY <2>1, <2>2 DEF PasswordInv, OldSessionsEnd
<1> QED BY <1>5, <1>6, <1>7, <1>8 DEF Inv

(* Taking a live token: the rotation and the logout that carry it on.        *)
LEMMA Taking ==
    ASSUME Inv, NEW r \in Requests, NEW t \in live, ConsumeRefresh(r, t) \/ RevokeRefresh(r, t)
    PROVE  Inv'
<1>0. t \in DOMAIN issued /\ t \in Nat \ {0} /\ issued[t] \in Token /\ issued[t].since \in Nat
  BY Entry DEF Inv, TypeInv
<1>1. /\ UNCHANGED <<user, index, issued, events>> /\ live' = live \ {t} /\ At(r, "off")
      /\ \A q \in Requests : q # r => request'[q] = request[q]
      /\ request'[r].from = t /\ request'[r].since \in {0, issued[t].since}
      /\ request'[r].at \in {"srem", "forget"} /\ request' \in [Requests -> Request]
  <2>2. PICK j \in Request : /\ request' = [request EXCEPT ![r] = j] /\ j.from = t /\ j.since \in {0, issued[t].since}
                             /\ j.at \in {"srem", "forget"}
    <3>1. CASE ConsumeRefresh(r, t)
      <4> DEFINE i == [Idle EXCEPT !.at = "srem", !.since = issued[t].since, !.from = t]
      <4>1. i \in Request /\ i.at = "srem" /\ i.since = issued[t].since /\ i.from = t
        <5>1. "srem" \in Places
          BY DEF Places
        <5>2. t \in Nat /\ 0 \in Nat /\ issued[t].since \in Nat
          BY <1>0
        <5> QED BY <5>1, <5>2, AtRest DEF Request
      <4>2. request' = [request EXCEPT ![r] = i]
        BY <3>1 DEF ConsumeRefresh
      <4> HIDE DEF i
      <4> QED BY <4>1, <4>2
    <3>2. CASE RevokeRefresh(r, t)
      <4> DEFINE i == [Idle EXCEPT !.at = "forget", !.from = t]
      <4>1. i \in Request /\ i.at = "forget" /\ i.since = 0 /\ i.from = t
        <5>1. "forget" \in Places
          BY DEF Places
        <5>2. t \in Nat /\ 0 \in Nat /\ issued[t].since \in Nat
          BY <1>0
        <5> QED BY <5>1, <5>2, AtRest DEF Request
      <4>2. request' = [request EXCEPT ![r] = i]
        BY <3>2 DEF RevokeRefresh
      <4> HIDE DEF i
      <4> QED BY <4>1, <4>2
    <3> QED BY <3>1, <3>2
  <2> QED BY <2>2 DEF Inv, TypeInv, ConsumeRefresh, RevokeRefresh, GetDel
<1>2. TypeInv'
  BY <1>1 DEF Inv, TypeInv
<1>3. RotationInv'
  <2>0. RotationInv
    BY DEF Inv
  <2>1. /\ \A q \in Requests : request[q].from # t
        /\ \A u \in DOMAIN issued : issued[u].from # t
    BY <2>0 DEF RotationInv
  <2>2. (\A q \in Requests : At(q, "off") => request[q].from = 0)'
    BY <1>1, <2>0 DEF RotationInv, At
  <2>3. (\A q \in Requests : request[q].from # 0 => request[q].from \in DOMAIN issued)'
    BY <1>0, <1>1, <2>0 DEF RotationInv
  <2>4. (\A q \in Requests : request[q].from \notin live)'
    BY <1>1, <2>0 DEF RotationInv
  <2>5. (\A q \in Requests : \A u \in DOMAIN issued :
           request[q].from # 0 => issued[u].from # request[q].from)'
    BY <1>1, <2>0, <2>1 DEF RotationInv
  <2>6. (\A q, s \in Requests : request[s].from # 0 /\ q # s => request[q].from # request[s].from)'
    BY <1>1, <2>0, <2>1 DEF RotationInv
  <2>7. (\A u \in live : \A v \in DOMAIN issued : issued[v].from # u)'
    BY <1>1, <2>0 DEF RotationInv
  <2>8. (\A u \in DOMAIN issued : issued[u].from # 0 => issued[u].from \in DOMAIN issued)'
    BY <1>1, <2>0 DEF RotationInv
  <2>9. OneSuccessor'
    BY <1>1, <2>0 DEF RotationInv, OneSuccessor
  <2> QED BY <2>2, <2>3, <2>4, <2>5, <2>6, <2>7, <2>8, <2>9 DEF RotationInv
<1>4. IndexInv'
  BY <1>1 DEF Inv, IndexInv, At
<1>5. PasswordInv'
  <2>1. (\A q \in Requests : request[q].since <= user.password)'
    BY <1>0, <1>1 DEF Inv, TypeInv, PasswordInv
  <2>2. Revoking' <=> Revoking
    BY <1>1 DEF Revoking, At
  <2> QED BY <1>1, <2>1, <2>2 DEF Inv, PasswordInv, OldSessionsEnd
<1> QED BY <1>2, <1>3, <1>4, <1>5 DEF Inv

(* A step that only moves request r on, dropping what it carries or keeping  *)
(* it, away from a bulk revocation or into one, or that takes entries of     *)
(* tokens no longer live out of the index.                                   *)
LEMMA Moving ==
    ASSUME Inv, NEW r \in Requests, UNCHANGED <<live, issued>>, request' \in [Requests -> Request],
           user' \in [password : Nat, active : BOOLEAN], user.password <= user'.password,
           events \subseteq events', index' \subseteq index, index \cap live \subseteq index',
           \A q \in Requests : q # r => request'[q] = request[q],
           request'[r].from \in {0, request[r].from}, request'[r].since <= user'.password,
           request'[r].at = "off" => request'[r].from = 0,
           request'[r].at = "del" => index \subseteq request'[r].seen,
           events' = {} /\ ~Revoking' => ~Revoking /\ user'.password = user.password
    PROVE  Inv'
<1>0. \A q \in Requests : request[q] \in Request /\ request[q].since \in Nat
  BY DEF Inv, TypeInv, Request
<1>1. TypeInv'
  BY DEF Inv, TypeInv
<1>2. RotationInv'
  <2>1. 0 \notin live
    BY Entry DEF Inv, TypeInv
  <2>2. /\ \A q \in Requests : request'[q].from # 0 => request'[q].from = request[q].from
        /\ \A q \in Requests : request'[q].at = "off" => request'[q].from = 0
    BY DEF Inv, RotationInv, At
  <2>3. /\ (\A q \in Requests : At(q, "off") => request[q].from = 0)'
        /\ (\A q \in Requests : request[q].from # 0 => request[q].from \in DOMAIN issued)'
        /\ (\A q \in Requests : request[q].from \notin live)'
        /\ (\A q \in Requests : \A u \in DOMAIN issued : request[q].from # 0 => issued[u].from # request[q].from)'
    BY <2>1, <2>2 DEF Inv, RotationInv, At
  <2>4. (\A p, q \in Requests : request[q].from # 0 /\ p # q => request[p].from # request[q].from)'
    <3> SUFFICES ASSUME NEW p \in Requests, NEW q \in Requests, request'[q].from # 0, p # q,
                        request'[p].from = request'[q].from
                 PROVE  FALSE
      OBVIOUS
    <3>1. request'[p].from = request[p].from /\ request'[q].from = request[q].from
      BY <2>2
    <3>2. \A a, b \in Requests : request[b].from # 0 /\ a # b => request[a].from # request[b].from
      BY DEF Inv, RotationInv
    <3> QED BY <3>1, <3>2
  <2> QED BY <2>3, <2>4 DEF Inv, RotationInv, OneSuccessor
<1>3. IndexInv'
  BY DEF Inv, IndexInv, At
<1>4. PasswordInv'
  <2>1. \A t \in DOMAIN issued : issued[t].since \in Nat
    BY Entry DEF Inv, TypeInv
  <2>2. user.password \in Nat /\ user'.password \in Nat
    BY DEF Inv, TypeInv
  <2>3. (\A t \in DOMAIN issued : issued[t].since <= user.password)'
    BY <2>1, <2>2 DEF Inv, PasswordInv
  <2>4. (\A q \in Requests : request[q].since <= user.password)'
    BY <1>0, <2>2 DEF Inv, PasswordInv
  <2> QED BY <2>3, <2>4 DEF Inv, PasswordInv, OldSessionsEnd
<1> QED BY <1>1, <1>2, <1>3, <1>4 DEF Inv

LEMMA RequestStep ==
    ASSUME Inv, NEW r \in Requests, Step(r)
    PROVE  Inv'
<1>0. /\ request[r] \in Request /\ request \in [Requests -> Request] /\ index \subseteq Nat
      /\ user \in [password : Nat, active : BOOLEAN] /\ user.password \in Nat /\ user.password <= user.password
      /\ request[r].since \in Nat /\ request[r].since <= user.password /\ request[r].from \notin live
      /\ Idle \in Request /\ Idle.from = 0 /\ Idle.since = 0 /\ Idle.at = "off" /\ 0 <= user.password
  BY DEF Inv, TypeInv, PasswordInv, RotationInv, Request, Idle, Places
<1> USE DEF At, Revoking
<1>1. CASE Login(r)
  <2> DEFINE i == [Idle EXCEPT !.at = "issue", !.since = user.password]
  <2>0. i \in Request /\ i.at = "issue" /\ i.since = user.password /\ i.from = 0
    <3>1. "issue" \in Places
      BY DEF Places
    <3> QED BY <1>0, <3>1, AtRest DEF Request
  <2>1. /\ request' = [request EXCEPT ![r] = i]
        /\ UNCHANGED <<user, live, index, links, issued, events>> /\ request[r].at = "off"
    BY <1>1 DEF Login
  <2> HIDE DEF i
  <2>2. request' \in [Requests -> Request]
    BY <1>0, <2>0, <2>1
  <2>3. request'[r].at = "issue" /\ request'[r].since = user.password /\ request'[r].from = 0
    BY <1>0, <2>0, <2>1
  <2> QED BY <1>0, <2>1, <2>2, <2>3, Moving
<1>2. CASE CreateRefresh(r)
  BY <1>2, Issuing
<1>3. CASE Refresh(r)
  <2>1. UNCHANGED <<user, live, issued, events>> /\ index' = index \ {request[r].from} /\ request[r].at = "srem"
    BY <1>3 DEF Refresh
  <2>2. request' \in [Requests -> Request]
    BY <1>0, <1>3 DEF Refresh, Goto, Done, Request, Places
  <2>3. \/ request'[r] = Idle
        \/ /\ request'[r].at = "issue"
           /\ request'[r].from = request[r].from /\ request'[r].since = request[r].since
    BY <1>0, <1>3 DEF Refresh, Goto, Done, Request
  <2>4. \A q \in Requests : q # r => request'[q] = request[q]
    BY <1>0, <1>3 DEF Refresh, Goto, Done
  <2> QED BY <1>0, <2>1, <2>2, <2>3, <2>4, Moving
<1>4. CASE Forget(r)
  <2>1. /\ UNCHANGED <<user, live, issued, events>> /\ index' = index \ {request[r].from}
        /\ request[r].at = "forget" /\ request' = [request EXCEPT ![r] = Idle]
    BY <1>4 DEF Forget, Done
  <2>2. request' \in [Requests -> Request] /\ request'[r] = Idle
    BY <1>0, <2>1
  <2> QED BY <1>0, <2>1, <2>2, Moving
<1>5. CASE ResetPassword(r) \/ ChangePassword(r)
  <2>1. /\ UNCHANGED <<user, live, index, issued, events>> /\ request[r].at = "off"
        /\ request' = [request EXCEPT ![r].at = "update"]
    BY <1>5 DEF ResetPassword, ChangePassword, Goto
  <2>2. /\ request' \in [Requests -> Request] /\ request'[r].at = "update"
        /\ request'[r].from = request[r].from /\ request'[r].since = request[r].since
    BY <1>0, <2>1 DEF Request, Places
  <2> QED BY <1>0, <2>1, <2>2, Moving
<1>6. CASE UpdatePassword(r)
  <2>1. /\ UNCHANGED <<live, index, issued, events>> /\ user' = [user EXCEPT !.password = @ + 1]
        /\ request' = [request EXCEPT ![r].at = "revoke"]
    BY <1>6 DEF UpdatePassword, Goto
  <2>2. /\ request' \in [Requests -> Request] /\ request'[r].at = "revoke"
        /\ request'[r].from = request[r].from /\ request'[r].since = request[r].since
    BY <1>0, <2>1 DEF Request, Places
  <2>3. /\ user' \in [password : Nat, active : BOOLEAN] /\ user.password <= user'.password
        /\ request'[r].since <= user'.password
    BY <1>0, <2>1, <2>2
  <2>4. \A q \in Requests : q # r => request'[q] = request[q]
    BY <1>0, <2>1
  <2> QED BY <2>1, <2>2, <2>3, <2>4, Moving
<1>7. CASE Members(r)
  <2>1. /\ UNCHANGED <<user, live, index, issued, events>> /\ request[r].at = "revoke"
        /\ request' = [request EXCEPT ![r].at = "del", ![r].seen = index]
    BY <1>7 DEF Members
  <2>2. /\ request' \in [Requests -> Request] /\ request'[r].at = "del" /\ request'[r].seen = index
        /\ request'[r].from = request[r].from /\ request'[r].since = request[r].since
    BY <1>0, <2>1 DEF Request, Places
  <2> QED BY <1>0, <2>1, <2>2, Moving
<1>8. CASE RevokeAllForUser(r)
  <2>1. /\ UNCHANGED <<user, issued, events>> /\ request[r].at = "del" /\ index' = {}
        /\ live' = live \ request[r].seen /\ request' = [request EXCEPT ![r] = Idle]
    BY <1>8 DEF RevokeAllForUser, RevokeSeen, Done
  <2>2. request' \in [Requests -> Request] /\ request'[r] = Idle /\ \A q \in Requests : q # r => request'[q] = request[q]
    BY <1>0, <2>1
  <2>3. "crossed" \notin events => live' = {}
    BY <2>1 DEF Inv, IndexInv
  <2>4. TypeInv'
    BY <2>1, <2>2 DEF Inv, TypeInv
  <2>5. RotationInv'
    BY <1>0, <2>1, <2>2 DEF Inv, TypeInv, RotationInv, OneSuccessor
  <2>6. IndexInv'
    BY <2>1, <2>3 DEF IndexInv
  <2>7. PasswordInv'
    BY <1>0, <2>1, <2>2, <2>3 DEF Inv, PasswordInv, OldSessionsEnd
  <2> QED BY <2>4, <2>5, <2>6, <2>7 DEF Inv
<1>9. CASE Crash(r)
  <2>1. /\ UNCHANGED <<user, live, index, issued>> /\ request' = [request EXCEPT ![r] = Idle]
        /\ events' = events \cup When(request[r].at = "revoke" \/ request[r].at = "del", "unrevoked")
    BY <1>9 DEF Crash, Done
  <2>2. request' \in [Requests -> Request] /\ request'[r] = Idle /\ \A q \in Requests : q # r => request'[q] = request[q]
    BY <1>0, <2>1
  <2>3. events \subseteq events' /\ (events' = {} => request[r].at # "revoke" /\ request[r].at # "del")
    BY <2>1 DEF When
  <2> QED BY <1>0, <2>1, <2>2, <2>3, Moving
<1> QED BY <1>1, <1>2, <1>3, <1>4, <1>5, <1>6, <1>7, <1>8, <1>9 DEF Step

LEMMA InvStep == Inv /\ [Next]_vars => Inv'
<1> SUFFICES ASSUME Inv, [Next]_vars PROVE Inv'
  OBVIOUS
<1>1. ASSUME NEW t \in live, TokenExpires(t) PROVE Inv'
  <2>1. UNCHANGED <<user, index, issued, request, events>> /\ live' = live \ {t}
    BY <1>1 DEF TokenExpires
  <2>2. Revoking' <=> Revoking
    BY <2>1 DEF Revoking, At
  <2> QED BY <2>1, <2>2 DEF Inv, TypeInv, RotationInv, IndexInv, PasswordInv, At, OneSuccessor, OldSessionsEnd
<1>2. CASE ForgotPassword \/ SetStatus \/ UNCHANGED vars
  <2>1. /\ UNCHANGED <<live, index, issued, request, events>> /\ user'.password = user.password
        /\ user' \in [password : Nat, active : BOOLEAN]
    BY <1>2 DEF Inv, TypeInv, ForgotPassword, SetStatus, vars
  <2>2. Revoking' <=> Revoking
    BY <2>1 DEF Revoking, At
  <2> QED BY <2>1, <2>2 DEF Inv, TypeInv, RotationInv, IndexInv, PasswordInv, At, OneSuccessor, OldSessionsEnd
<1>3. CASE SetStaffPassword
  <2>1. /\ UNCHANGED <<live, index, issued, request>> /\ user'.password = user.password + 1
        /\ user' \in [password : Nat, active : BOOLEAN] /\ user.password \in Nat
        /\ events' = events \cup {"unrevoked"}
    BY <1>3 DEF Inv, TypeInv, SetStaffPassword
  <2>2. TypeInv' /\ RotationInv' /\ IndexInv'
    BY <2>1 DEF Inv, TypeInv, RotationInv, IndexInv, At, OneSuccessor
  <2>3. /\ \A t \in DOMAIN issued : issued[t].since \in Nat
        /\ \A r \in Requests : request[r].since \in Nat
    BY Entry DEF Inv, TypeInv, Request
  <2>4. PasswordInv'
    BY <2>1, <2>3 DEF Inv, PasswordInv, OldSessionsEnd
  <2> QED BY <2>2, <2>4 DEF Inv
<1> QED BY <1>1, <1>2, <1>3, RequestStep, Taking DEF Next

LEMMA Always == Spec => []Inv
  BY Initially, InvStep, PTL DEF Spec

(* ConsumeRefresh: a token is rotated into one successor, however requests   *)
(* race for it, expire or die.                                               *)
THEOREM RotatedOnce == Spec => []OneSuccessor
<1>1. Inv => OneSuccessor
  BY DEF Inv, RotationInv
<1> QED BY <1>1, Always, PTL

(* The per-user set finds every usable token, as long as none was issued in  *)
(* the middle of a bulk revocation.                                          *)
THEOREM AllFound == Spec => []EverySessionFound
<1>1. Inv => EverySessionFound
  BY DEF Inv, IndexInv, EverySessionFound
<1> QED BY <1>1, Always, PTL

(* A change of password that revokes leaves no session of the old one, unless*)
(* a token was issued across it.                                             *)
THEOREM OldEnd == Spec => []OldSessionsEnd
<1>1. Inv => OldSessionsEnd
  BY DEF Inv, PasswordInv
<1> QED BY <1>1, Always, PTL
=============================================================================
