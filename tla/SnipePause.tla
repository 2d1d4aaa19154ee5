----------------------------- MODULE SnipePause -----------------------------
(***************************************************************************)
(* The pause of the domain sniper (supervisor.go: setPause, probePause,     *)
(* preflightOK, refreshConfig).  Hunting stops everywhere when the reseller  *)
(* account is unusable; the pause lives in two settings, written and read     *)
(* one after the other, and every worker works from its own snapshot.        *)
(***************************************************************************)
EXTENDS Integers

CONSTANTS
    Workers,     \* the worker processes
    Cost,        \* what a registration costs
    Floor,       \* snipe.min_reseller_balance
    MaxBalance,  \* bound: the reseller balance
    MaxUpsets    \* bound: pauses begun, other spending, credentials revoked

VARIABLES
    setting,  \* the stored settings: pause reason and paused_balance
    conf,     \* the snapshot of each worker
    doing,    \* what each worker is doing with them
    balance,  \* the reseller balance
    valid,    \* the credentials are accepted
    upsets,   \* bound counter
    events    \* history: what happened that weakens a guarantee
vars == <<setting, conf, doing, balance, valid, upsets, events>>

None == "none"
Resting == [at |-> "rest", bal |-> -1, reason |-> None]
Hunting == [reason |-> None, bal |-> -1]
Usable == valid /\ balance >= Floor

Init ==
    /\ setting = Hunting
    /\ conf = [w \in Workers |-> Hunting]
    /\ doing = [w \in Workers |-> Resting]
    /\ balance \in 0..MaxBalance
    /\ valid = TRUE
    /\ upsets = 0 /\ events = {}

When(b, e) == IF b THEN {e} ELSE {}
At(w, p) == doing[w].at = p

-----------------------------------------------------------------------------
\* classify and vetPause, preflightOK: what makes a worker pause.  A refused
\* registration means an empty account; rejected credentials count only if the
\* account itself confirms them; the preflight also looks at the floor.
Verdicts ==
    (IF balance < Cost THEN {"balance"} ELSE {})
    \cup (IF ~valid THEN {"credentials"} ELSE {})
    \cup (IF valid /\ balance < Floor THEN {"floor"} ELSE {})

\* setPause, first part: the snapshot is marked; the rest only if it was not.
setPause(w, reason) ==
    /\ At(w, "rest") /\ upsets < MaxUpsets
    /\ reason \in Verdicts
    /\ conf[w].reason = None
    /\ upsets' = upsets + 1
    /\ conf' = [conf EXCEPT ![w].reason = reason]
    /\ doing' = [doing EXCEPT ![w] = [at |-> "measure", bal |-> -1, reason |-> reason]]
    /\ UNCHANGED <<setting, balance, valid, events>>

\* Mutant: the balance is not remembered.
ForgetBalance(w) == -1
\* balanceNow: -1 when it cannot be read; only an empty account remembers it.
balanceNow(w) == IF doing[w].reason = "balance" /\ valid THEN balance ELSE -1

\* setPause goes on: the balance is read, then stored, then the reason.
Measure(w) ==
    /\ At(w, "measure")
    /\ conf' = [conf EXCEPT ![w].bal = balanceNow(w)]
    /\ doing' = [doing EXCEPT ![w].at = "balance", ![w].bal = balanceNow(w)]
    /\ events' = events \cup When(doing[w].reason = "balance" /\ balance >= Cost, "overtaken")
    /\ UNCHANGED <<setting, balance, valid, upsets>>
StoreBalance(w) ==
    /\ At(w, "balance")
    /\ events' = events \cup When(setting # Hunting, "overwritten")
    /\ setting' = [setting EXCEPT !.bal = doing[w].bal]
    /\ doing' = [doing EXCEPT ![w].at = "reason"]
    /\ UNCHANGED <<conf, balance, valid, upsets>>
StoreReason(w) ==
    /\ At(w, "reason")
    /\ setting' = [setting EXCEPT !.reason = doing[w].reason]
    /\ doing' = [doing EXCEPT ![w] = Resting]
    /\ events' = events \cup When(setting.bal # doing[w].bal, "overwritten")
    /\ UNCHANGED <<conf, balance, valid, upsets>>

\* loadConfig reads paused_balance before the reason; the snapshot is replaced
\* at the end.
refreshConfig(w) ==
    \/ /\ At(w, "rest")
       /\ doing' = [doing EXCEPT ![w] = [at |-> "refresh", bal |-> setting.bal, reason |-> None]]
       /\ UNCHANGED <<setting, conf, balance, valid, upsets, events>>
    \/ /\ At(w, "refresh")
       /\ conf' = [conf EXCEPT ![w] = [reason |-> setting.reason, bal |-> doing[w].bal]]
       /\ doing' = [doing EXCEPT ![w] = Resting]
       /\ events' = events \cup When(setting.bal # doing[w].bal, "torn")
       /\ UNCHANGED <<setting, balance, valid, upsets>>

\* Mutant: any healthy account ends the pause.
AnyHealthy(w) == Usable
\* Mutant: the comparison the wrong way round.
MustFall(w) == Usable /\ (conf[w].bal >= 0 => balance < conf[w].bal)
\* probePause: the account answers, is above the floor, and has more than it had.
MayResume(w) == Usable /\ (conf[w].bal >= 0 => balance > conf[w].bal)

\* probePause: the reason is cleared, then the balance and the snapshot.
probePause(w) ==
    \/ /\ At(w, "rest") /\ conf[w].reason # None
       /\ MayResume(w)
       /\ setting' = [setting EXCEPT !.reason = None]
       /\ doing' = [doing EXCEPT ![w].at = "clear"]
       /\ events' = events \cup When(setting.reason # None /\ conf[w] # setting, "stale")
       /\ UNCHANGED <<conf, balance, valid, upsets>>
    \/ /\ At(w, "clear")
       /\ setting' = [setting EXCEPT !.bal = -1]
       /\ conf' = [conf EXCEPT ![w] = Hunting]
       /\ doing' = [doing EXCEPT ![w] = Resting]
       /\ events' = events \cup When(setting.reason # None \/ (\E v \in Workers : At(v, "reason")), "overwritten")
       /\ UNCHANGED <<balance, valid, upsets>>

-----------------------------------------------------------------------------
TopUp ==
    /\ balance < MaxBalance
    /\ balance' = balance + 1
    /\ UNCHANGED <<setting, conf, doing, valid, upsets, events>>
\* Renewals and other orders draw on the same account.
Spend ==
    /\ balance > 0 /\ upsets < MaxUpsets
    /\ balance' = balance - 1 /\ upsets' = upsets + 1
    /\ UNCHANGED <<setting, conf, doing, valid, events>>
Revoke ==
    /\ valid /\ upsets < MaxUpsets
    /\ valid' = FALSE /\ upsets' = upsets + 1
    /\ UNCHANGED <<setting, conf, doing, balance, events>>
Rearm ==
    /\ ~valid /\ valid' = TRUE
    /\ UNCHANGED <<setting, conf, doing, balance, upsets, events>>
Restart(w) ==
    /\ At(w, "rest")
    /\ conf' = [conf EXCEPT ![w] = setting]
    /\ UNCHANGED <<setting, doing, balance, valid, upsets, events>>

Worker(w) == Measure(w) \/ StoreBalance(w) \/ StoreReason(w) \/ refreshConfig(w) \/ probePause(w)
Next ==
    \/ \E w \in Workers :
         \/ Worker(w) \/ Restart(w)
         \/ \E reason \in {"balance", "credentials", "floor"} : setPause(w, reason)
    \/ TopUp \/ Spend \/ Revoke \/ Rearm
Spec == Init /\ [][Next]_vars

Write(w) == Measure(w) \/ StoreBalance(w) \/ StoreReason(w)
\* Fairness: every worker ticks; the operator tops the account up and renews
\* rejected credentials.
Fairness ==
    /\ \A w \in Workers : WF_vars(Write(w)) /\ WF_vars(refreshConfig(w)) /\ SF_vars(probePause(w))
    /\ WF_vars(TopUp) /\ WF_vars(Rearm)
FairSpec == Spec /\ Fairness

-----------------------------------------------------------------------------
(* Properties.                                                             *)

\* setPause: "the pause then only ends once a probe sees it rise".  A pause for an
\* empty account that is stored ends only with more money in the account than
\* when it began, unless two workers wrote the settings at once, or the one who
\* ends it has a snapshot of an earlier pause, or one put together from before and
\* after such a write.
EndsAfterTopUpStep ==
    events' \cap {"overwritten", "torn", "stale"} = {}
    /\ setting.reason = "balance" /\ setting'.reason # "balance"
    => balance > setting.bal
EndsAfterTopUp == [][EndsAfterTopUpStep]_vars

\* probePause: a pause ends once the account is healthy and topped up, unless the
\* top-up came between the refusal and the reading of the balance.
Paused == setting.reason # None
Resumed == setting.reason = None \/ "overtaken" \in events
PauseEnds == Paused ~> Resumed
=============================================================================
