------------------------------- MODULE UserRow ------------------------------
(***************************************************************************)
(* One row of users under the handlers that load it, change a field and      *)
(* write it back whole (UserRepo.Update: status, permissions, 2FA fields,    *)
(* locale).                                                                  *)
(***************************************************************************)
EXTENDS Naturals, FiniteSets

CONSTANTS
    Requests,   \* bound: the requests handled at the same time
    MaxSecrets  \* bound: the TOTP secrets generated

VARIABLES
    row,      \* the users row
    request,  \* the requests being handled, with the row they loaded
    meant,    \* history: the status and locale last asked for
    secrets,  \* history: secrets generated, and those a code was checked against
    events    \* history: "overlap" when two writers had loaded the same row
vars == <<row, request, meant, secrets, events>>

None == 0
Idle == [op |-> "off", row |-> [status |-> "active", locale |-> "id", secret |-> None, enabled |-> FALSE]]
Init ==
    /\ row = Idle.row
    /\ request = [r \in Requests |-> Idle]
    /\ meant = [status |-> "active", locale |-> "id"]
    /\ secrets = [made |-> 0, checked |-> {}]
    /\ events = {}

Load(r, op) ==
    /\ request[r].op = "off"
    /\ request' = [request EXCEPT ![r] = [op |-> op, row |-> row]]
    /\ UNCHANGED <<row, meant, secrets, events>>

\* Handlers, as far as the load and the checks on what was loaded.
UpdateMe(r)      == Load(r, "locale")
UpdateStaff(r)   == Load(r, "status")
DeactivateStaff(r) == row.status = "active" /\ Load(r, "deactivate")
TwoFASetup(r)    == ~row.enabled /\ secrets.made < MaxSecrets /\ Load(r, "setup")
\* The code is checked against the secret that was loaded.
TwoFAEnable(r)   == ~row.enabled /\ row.secret # None /\ Load(r, "enable")
TwoFADisable(r)  == row.enabled /\ Load(r, "disable")

Others(r) == {q \in Requests \ {r} : request[q].op # "off"}

\* Mutant: only the columns that changed are written.
ChangedOnly(old, new) ==
    [row EXCEPT !.status = IF old.status # new.status THEN new.status ELSE @,
                !.locale = IF old.locale # new.locale THEN new.locale ELSE @,
                !.secret = IF old.secret # new.secret THEN new.secret ELSE @,
                !.enabled = IF old.enabled # new.enabled THEN new.enabled ELSE @]
\* Mutant: the status is left out of the statement.
DropStatus(old, new) == [new EXCEPT !.status = row.status]
\* UserRepo.Update: every mutable column, from the row that was loaded.
Update(old, new) == new

Save(r, new) ==
    /\ row' = Update(request[r].row, new)
    /\ request' = [request EXCEPT ![r] = Idle]
    /\ events' = IF Others(r) # {} THEN events \cup {"overlap"} ELSE events

SaveLocale(r, l) ==
    /\ request[r].op = "locale" /\ l # request[r].row.locale
    /\ Save(r, [request[r].row EXCEPT !.locale = l])
    /\ meant' = [meant EXCEPT !.locale = l]
    /\ UNCHANGED secrets
SaveStatus(r, to) ==
    /\ \/ request[r].op = "status"
       \/ request[r].op = "deactivate" /\ to = "inactive"
    /\ Save(r, [request[r].row EXCEPT !.status = to])
    /\ meant' = [meant EXCEPT !.status = to]
    /\ UNCHANGED secrets
SaveSetup(r) ==
    /\ request[r].op = "setup" /\ secrets.made < MaxSecrets
    /\ Save(r, [request[r].row EXCEPT !.secret = secrets.made + 1, !.enabled = FALSE])
    /\ secrets' = [secrets EXCEPT !.made = @ + 1]
    /\ UNCHANGED meant
SaveEnable(r) ==
    /\ request[r].op = "enable"
    /\ Save(r, [request[r].row EXCEPT !.enabled = TRUE])
    /\ secrets' = [secrets EXCEPT !.checked = @ \cup {request[r].row.secret}]
    /\ UNCHANGED meant
SaveDisable(r) ==
    /\ request[r].op = "disable"
    /\ Save(r, [request[r].row EXCEPT !.enabled = FALSE, !.secret = None])
    /\ UNCHANGED <<meant, secrets>>
\* The password or code was wrong, or nothing changed.
GiveUp(r) ==
    /\ request[r].op # "off"
    /\ request' = [request EXCEPT ![r] = Idle]
    /\ UNCHANGED <<row, meant, secrets, events>>

Next ==
    \E r \in Requests :
         \/ UpdateMe(r) \/ UpdateStaff(r) \/ DeactivateStaff(r)
         \/ TwoFASetup(r) \/ TwoFAEnable(r) \/ TwoFADisable(r)
         \/ SaveSetup(r) \/ SaveEnable(r) \/ SaveDisable(r) \/ GiveUp(r)
         \/ \E l \in {"id", "en"} : SaveLocale(r, l)
         \/ \E to \in {"active", "inactive"} : SaveStatus(r, to)
Spec == Init /\ [][Next]_vars

-----------------------------------------------------------------------------
(* Properties.                                                             *)

\* TwoFAEnable verifies a code "against the stored secret": 2FA is never on with
\* a secret the user has not proved to have, also when Setup, Enable and Disable
\* interleave.  The whole-row write is what makes it so.
EnabledIsProven == row.enabled => row.secret \in secrets.checked

\* A deactivation (or a language) stays until somebody changes it, unless two
\* handlers had loaded the row at the same time: then the later write undoes it.
LastWriteHolds ==
    "overlap" \notin events => row.status = meant.status /\ row.locale = meant.locale
=============================================================================
