------------------------------- MODULE Panels -------------------------------
(***************************************************************************)
(* The control panels: what a WHM (cPanel) and a DirectAdmin server do with *)
(* a command, as the repository's mock servers implement it                *)
(* (src/mockserver/whm.go, directadmin.go), and what the two adapters of   *)
(* ports.ServerModule make of the answers (integration/cpanel,             *)
(* integration/directadmin).                                               *)
(*                                                                         *)
(* A panel is a record: accts maps usernames to accounts, pkgs maps package *)
(* names to the limits they were given.  A command yields the panel after  *)
(* it and a reason; an adapter's method yields the panel and a result code. *)
(***************************************************************************)
EXTENDS Naturals, FiniteSets, TLC

Modules == {"cpanel", "directadmin"}

\* The panel as it is set up before this program touches it.
EmptyPanel == [accts |-> << >>, pkgs |-> [p \in {"starter"} |-> "starter"]]

Has(p, u)        == u \in DOMAIN p.accts
HasPackage(p, n) == n \in DOMAIN p.pkgs
Users(p, n)      == {u \in DOMAIN p.accts : p.accts[u].pkg = n}

Reply(p, reason) == [panel |-> p, reason |-> reason]
Drop(f, k)       == [x \in DOMAIN f \ {k} |-> f[x]]
Account(d, n)    == [dom |-> d, pkg |-> n, suspended |-> FALSE]

-----------------------------------------------------------------------------
(* WHM: one function of the JSON API each.                                 *)

whmCreateAcct(p, u, d, n) ==
    IF Has(p, u) THEN Reply(p, "account exists")
    ELSE Reply([p EXCEPT !.accts = (u :> Account(d, n)) @@ @], "OK")

withWHMAccount(p, u, changed) ==
    IF Has(p, u) THEN Reply([p EXCEPT !.accts[u] = changed], "OK")
    ELSE Reply(p, "account does not exist")

whmSuspendAcct(p, u)      == withWHMAccount(p, u, [p.accts[u] EXCEPT !.suspended = TRUE])
whmUnsuspendAcct(p, u)    == withWHMAccount(p, u, [p.accts[u] EXCEPT !.suspended = FALSE])
whmChangePackage(p, u, n) == withWHMAccount(p, u, [p.accts[u] EXCEPT !.pkg = n])

whmRemoveAcct(p, u) ==
    IF Has(p, u) THEN Reply([p EXCEPT !.accts = Drop(@, u)], "OK")
    ELSE Reply(p, "account does not exist")

whmAddPkg(p, n, limits) ==
    IF HasPackage(p, n) THEN Reply(p, "package already exists")
    ELSE Reply([p EXCEPT !.pkgs = (n :> limits) @@ @], "OK")

whmEditPkg(p, n, limits) ==
    IF HasPackage(p, n) THEN Reply([p EXCEPT !.pkgs[n] = limits], "OK")
    ELSE Reply(p, "package does not exist")

whmKillPkg(p, n) ==
    IF HasPackage(p, n) THEN Reply([p EXCEPT !.pkgs = Drop(@, n)], "OK")
    ELSE Reply(p, "package does not exist")

whmListAccts(p, n) == Users(p, n)

\* The reason of a refusal is all there is: WHM answers HTTP 200 either way.
errorFromReason(fn, reason) ==
    CASE reason = "OK" -> "ok"
      [] reason \in {"account does not exist", "package does not exist"} -> "not_found"
      [] reason \in {"account exists", "package already exists"} -> "conflict"
      [] fn = "createacct" /\ reason = "reserved username" -> "conflict"
      [] OTHER -> "external"

-----------------------------------------------------------------------------
(* DirectAdmin: one CMD_API_ command each.                                 *)

handleDAAccountUser(p, u, d, n) ==
    IF Has(p, u) THEN Reply(p, "that username already exists")
    ELSE Reply([p EXCEPT !.accts = (u :> Account(d, n)) @@ @], "OK")

\* Suspend, unsuspend and delete are one command on selected users.
handleDASelectUsers(p, u, action) ==
    IF ~Has(p, u) THEN Reply(p, "user does not exist")
    ELSE CASE action = "delete"    -> Reply([p EXCEPT !.accts = Drop(@, u)], "OK")
           [] action = "suspend"   -> Reply([p EXCEPT !.accts[u].suspended = TRUE], "OK")
           [] action = "unsuspend" -> Reply([p EXCEPT !.accts[u].suspended = FALSE], "OK")

handleDAModifyUser(p, u, n) ==
    IF Has(p, u) THEN Reply([p EXCEPT !.accts[u].pkg = n], "OK")
    ELSE Reply(p, "user does not exist")

handleDAManageUserPackages(p, action, n, limits) ==
    CASE action = "create" ->
           IF HasPackage(p, n) THEN Reply(p, "that package already exists")
           ELSE Reply([p EXCEPT !.pkgs = (n :> limits) @@ @], "OK")
      [] action = "modify" ->
           IF HasPackage(p, n) THEN Reply([p EXCEPT !.pkgs[n] = limits], "OK")
           ELSE Reply(p, "package does not exist")
      [] action = "delete" ->
           IF HasPackage(p, n) THEN Reply([p EXCEPT !.pkgs = Drop(@, n)], "OK")
           ELSE Reply(p, "package does not exist")

mapAPIError(command, reason) ==
    CASE reason = "OK" -> "ok"
      [] reason \in {"that username already exists", "that package already exists"} -> "conflict"
      [] reason \in {"user does not exist", "package does not exist"} -> "not_found"
      [] command = "CMD_API_ACCOUNT_USER" /\ reason = "reserved username" -> "conflict"
      [] OTHER -> "external"

-----------------------------------------------------------------------------
(* The adapters.  Every method returns the panel after it and a code.      *)

Whm(fn, r) == [panel |-> r.panel, code |-> errorFromReason(fn, r.reason)]
Da(cmd, r) == [panel |-> r.panel, code |-> mapAPIError(cmd, r.reason)]

\* A missing account or package is no error for an operation that removes it.
GoneIsFine(r) == IF r.code = "not_found" THEN [r EXCEPT !.code = "ok"] ELSE r

CpanelCreate(p, u, d, n)     == Whm("createacct", whmCreateAcct(p, u, d, n))
CpanelSuspend(p, u)          == Whm("suspendacct", whmSuspendAcct(p, u))
CpanelUnsuspend(p, u)        == Whm("unsuspendacct", whmUnsuspendAcct(p, u))
CpanelTerminate(p, u)        == GoneIsFine(Whm("removeacct", whmRemoveAcct(p, u)))
CpanelChangePackage(p, u, n) == Whm("changepackage", whmChangePackage(p, u, n))
CpanelDeletePackage(p, n)    == GoneIsFine(Whm("killpkg", whmKillPkg(p, n)))
CpanelPackageInUse(p, n)     == whmListAccts(p, n) # {}

CpanelEnsurePackage(p, n, limits) ==
    LET add == Whm("addpkg", whmAddPkg(p, n, limits))
    IN  IF add.code = "conflict" THEN Whm("editpkg", whmEditPkg(p, n, limits)) ELSE add

\* accountsummary: the account's domain, or NOT_FOUND.
CpanelAccountInfo(p, u) ==
    IF Has(p, u) THEN [code |-> "ok", dom |-> p.accts[u].dom] ELSE [code |-> "not_found", dom |-> 0]

\* DirectAdmin assigns no IP by itself: a server without one is refused here.
DaCreate(p, u, d, n, ip) ==
    IF ~ip THEN [panel |-> p, code |-> "validation"]
    ELSE Da("CMD_API_ACCOUNT_USER", handleDAAccountUser(p, u, d, n))

DaSuspend(p, u)          == Da("CMD_API_SELECT_USERS", handleDASelectUsers(p, u, "suspend"))
DaUnsuspend(p, u)        == Da("CMD_API_SELECT_USERS", handleDASelectUsers(p, u, "unsuspend"))
DaTerminate(p, u)        == GoneIsFine(Da("CMD_API_SELECT_USERS", handleDASelectUsers(p, u, "delete")))
DaChangePackage(p, u, n) == Da("CMD_API_MODIFY_USER", handleDAModifyUser(p, u, n))
DaDeletePackage(p, n) ==
    GoneIsFine(Da("CMD_API_MANAGE_USER_PACKAGES", handleDAManageUserPackages(p, "delete", n, n)))

DaEnsurePackage(p, n, limits) ==
    LET cmd == "CMD_API_MANAGE_USER_PACKAGES"
        add == Da(cmd, handleDAManageUserPackages(p, "create", n, limits))
    IN  IF add.code = "conflict"
        THEN Da(cmd, handleDAManageUserPackages(p, "modify", n, limits)) ELSE add

\* No filter by package: every user is listed and asked for its configuration.
DaPackageInUse(p, n) == \E u \in DOMAIN p.accts : p.accts[u].pkg = n
DaAccountInfo(p, u) ==
    IF Has(p, u) THEN [code |-> "ok", dom |-> p.accts[u].dom] ELSE [code |-> "not_found", dom |-> 0]

\* ports.ServerModule: the same contract for either adapter m.
Create(m, p, u, d, n)     == IF m = "cpanel" THEN CpanelCreate(p, u, d, n) ELSE DaCreate(p, u, d, n, TRUE)
Suspend(m, p, u)          == IF m = "cpanel" THEN CpanelSuspend(p, u) ELSE DaSuspend(p, u)
Unsuspend(m, p, u)        == IF m = "cpanel" THEN CpanelUnsuspend(p, u) ELSE DaUnsuspend(p, u)
Terminate(m, p, u)        == IF m = "cpanel" THEN CpanelTerminate(p, u) ELSE DaTerminate(p, u)
ChangePackage(m, p, u, n) == IF m = "cpanel" THEN CpanelChangePackage(p, u, n) ELSE DaChangePackage(p, u, n)
EnsurePackage(m, p, n, l) == IF m = "cpanel" THEN CpanelEnsurePackage(p, n, l) ELSE DaEnsurePackage(p, n, l)
DeletePackage(m, p, n)    == IF m = "cpanel" THEN CpanelDeletePackage(p, n) ELSE DaDeletePackage(p, n)
PackageInUse(m, p, n)     == IF m = "cpanel" THEN CpanelPackageInUse(p, n) ELSE DaPackageInUse(p, n)
AccountInfo(m, p, u)      == IF m = "cpanel" THEN CpanelAccountInfo(p, u) ELSE DaAccountInfo(p, u)
=============================================================================
