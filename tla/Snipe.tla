------------------------------- MODULE Snipe -------------------------------
(***************************************************************************)
(* One hunt for a domain that is about to drop, from its order to its end   *)
(* (src/backend/internal/modules/snipe): payment, the lease that gives the  *)
(* hunt to one worker, the register calls and what becomes of their answers, *)
(* the endings and their refunds.                                           *)
(*                                                                         *)
(* Every call to the registrar is a step of its own, and so is every         *)
(* transaction.  A register call is sent, lands at the registrar, and is      *)
(* answered; the one who sent it may have stopped listening meanwhile.        *)
(* Where the hunt waits, probes or bursts depends on the clock and on the     *)
(* drop window, which are left open: it may do either at any time.            *)
(***************************************************************************)
EXTENDS Naturals, FiniteSets, TLAPS

CONSTANTS
    Workers,      \* the worker processes, each with one supervisor
    Enders,       \* who may cancel it: among client, admin and sweep (the stale sweep)
    DomainPrice,  \* refundable_domain of a client's snipe
    Fee,          \* refundable_fee of a client's snipe
    MaxFaults,    \* bound: calls that fail, answers lost, leases lapsed, crashes
    MaxHalts      \* bound: how often hunting is paused or switched off

VARIABLES
    row,      \* the domain_snipes row
    invoice,  \* its invoice
    tx,       \* a gateway payment of the invoice is pending
    credit,   \* what was credited to the client
    name,     \* who has the name: taken (others), lapsed (a dead record of ours), free, ours
    dom,      \* the domains row of the name: none, made by the hunt, or by hand
    hunt,     \* the hunt of each worker
    pass,     \* the expiry pass of each worker
    ender,    \* the cancellations under way, by who runs them
    loose,    \* a register call nobody listens to has not landed yet
    halted,   \* settings: hunting is paused or switched off
    view,     \* each worker's snapshot of halted
    alert,    \* an administrator was told of a registered domain
    faults,   \* bound counter
    halts,    \* bound counter
    events    \* history: what happened that weakens a guarantee

vars == <<row, invoice, tx, credit, name, dom, hunt, pass, ender, loose, halted, view, alert, faults, halts, events>>
money == <<row, invoice, tx, credit>>
registrar == <<name, loose>>
config == <<halted, view, halts>>

None == "none"
Terminal == {"won", "expired", "cancelled", "failed"}
NoHunt == [at |-> "off", stop |-> FALSE, verify |-> FALSE, suspect |-> FALSE, call |-> None, goal |-> None]
NoPass == [at |-> "off", goal |-> None]
NoEnder == [at |-> "off", from |-> None, fee |-> FALSE]

Init ==
    /\ row = [status |-> None, lease |-> None, live |-> FALSE, due |-> FALSE,
              domain |-> 0, fee |-> 0, refund |-> 0, paid |-> FALSE]
    /\ invoice = None /\ tx = FALSE /\ credit = 0
    /\ name \in {"taken", "lapsed"} /\ dom = None
    /\ hunt = [w \in Workers |-> NoHunt]
    /\ pass = [w \in Workers |-> NoPass]
    /\ ender = [e \in Enders |-> NoEnder]
    /\ loose = FALSE
    /\ halted = FALSE /\ view = [w \in Workers |-> FALSE]
    /\ alert = FALSE
    /\ faults = 0 /\ halts = 0 /\ events = {}

Fault == faults < MaxFaults /\ faults' = faults + 1
When(b, e) == IF b THEN {e} ELSE {}

-----------------------------------------------------------------------------
(* The row.                                                                *)

Idle == row.lease = None \/ ~row.live
CanTransition(from, to) ==
    \/ from = "pending_payment" /\ to \in {"active", "cancelled", "failed"}
    \/ from = "active" /\ to \in Terminal

\* The credit-back rules: only a snipe that was active has been paid for.
refundFor(from, to, refundFee) ==
    IF from # "active" THEN 0
    ELSE CASE to = "won"       -> 0
           [] to = "expired"   -> row.domain
           [] to = "cancelled" -> row.domain + (IF refundFee THEN row.fee ELSE 0)
           [] to = "failed"    -> row.domain + row.fee

\* Repo.Finish: a compare-and-swap on the status the caller read, and on the
\* lease if the caller says so.  The credit is booked in the same transaction.
CanFinish(from, to, fence) == CanTransition(from, to) /\ row.status = from /\ fence
\* Mutant: the lease stays on the ended row.
KeepLease(from, to, refundFee) ==
    /\ row' = [row EXCEPT !.status = to, !.refund = refundFor(from, to, refundFee)]
    /\ credit' = credit + refundFor(from, to, refundFee)
Finished(from, to, refundFee) ==
    /\ row' = [row EXCEPT !.status = to, !.refund = refundFor(from, to, refundFee),
                          !.lease = None, !.live = FALSE]
    /\ credit' = credit + refundFor(from, to, refundFee)

finish(from, to, refundFee, fence) ==
    IF CanFinish(from, to, fence) THEN Finished(from, to, refundFee) ELSE UNCHANGED <<row, credit>>

-----------------------------------------------------------------------------
(* Order and payment.                                                      *)

\* Client create: the name must be taken at the registrar and not in our table.
Create ==
    /\ row.status = None /\ ~halted
    /\ name # "free" /\ dom = None
    /\ row' = [row EXCEPT !.status = "pending_payment", !.domain = DomainPrice, !.fee = Fee]
    /\ invoice' = "unpaid"
    /\ UNCHANGED <<tx, credit, name, dom, hunt, pass, ender, loose, halted, view, alert, faults, halts, events>>

\* An administrator's snipe is free and active at once.
AdminCreate ==
    /\ row.status = None /\ dom = None
    /\ row' = [row EXCEPT !.status = "active"]
    /\ UNCHANGED <<invoice, tx, credit, name, dom, hunt, pass, ender, loose, halted, view, alert, faults, halts, events>>

Payable == invoice \in {"unpaid", "overdue"}
Voiding == \E e \in Enders : ender[e].at = "voiding"

InitiatePayment ==
    /\ Payable /\ ~tx
    /\ tx' = TRUE
    /\ events' = events \cup When(Voiding, "crossed")
    /\ UNCHANGED <<row, invoice, credit, name, dom, hunt, pass, ender, loose, halted, view, alert, faults, halts>>

PaymentLapses ==
    /\ tx /\ tx' = FALSE
    /\ UNCHANGED <<row, invoice, credit, name, dom, hunt, pass, ender, loose, halted, view, alert, faults, halts, events>>

\* Mutant: a payment for a hunt that ended is kept.
KeepLatePayment == UNCHANGED <<row, credit>>
\* RecordRefund applies while nothing has been refunded.
refundLatePayment ==
    LET amount == row.domain + row.fee
    IN  IF row.refund = 0 /\ row.status \in {"cancelled", "failed", "expired"}
          THEN /\ row' = [row EXCEPT !.refund = amount]
               /\ credit' = credit + amount
          ELSE UNCHANGED <<row, credit>>

\* It runs in the transaction of the payment.
ActivateSnipeAfterPayment ==
    IF row.status = "pending_payment"
      THEN /\ row' = [row EXCEPT !.status = "active", !.paid = TRUE]
           /\ UNCHANGED credit
      ELSE refundLatePayment

Pay ==
    /\ tx /\ tx' = FALSE
    /\ IF Payable
         THEN invoice' = "paid" /\ ActivateSnipeAfterPayment /\ UNCHANGED events
         ELSE /\ events' = events \cup {"strayed"}   \* the payment finds its invoice void
              /\ UNCHANGED <<row, invoice, credit>>
    /\ UNCHANGED <<name, dom, hunt, pass, ender, loose, halted, view, alert, faults, halts>>

InvoiceLapses ==
    /\ invoice = "unpaid" /\ invoice' = "overdue"
    /\ UNCHANGED <<row, tx, credit, name, dom, hunt, pass, ender, loose, halted, view, alert, faults, halts, events>>

\* An administrator voids the invoice.
CancelInvoice ==
    /\ Payable /\ invoice' = "cancelled"
    /\ events' = events \cup When(tx, "crossed")
    /\ UNCHANGED <<row, tx, credit, name, dom, hunt, pass, ender, loose, halted, view, alert, faults, halts>>

-----------------------------------------------------------------------------
(* Cancellation: by the client, by an administrator, by the stale sweep.   *)

\* Mutant: whatever record the account still shows is ownership.
SeenIsOwned == name \in {"ours", "lapsed"}
\* lookupOwnership: a dead record is not ownership.
OwnedStatus == name = "ours"

\* The answer of the ownership look-up, or none.
Lookup(answer) ==
    \/ answer = (IF OwnedStatus THEN "ours" ELSE "not") /\ UNCHANGED faults
    \/ answer = "unknown" /\ Fault

AskCancel(e, fee) ==
    /\ e \in {"client", "admin"} /\ ender[e].at = "off"
    /\ row.status \in {"pending_payment", "active"}
    /\ e = "client" => ~fee /\ row.domain + row.fee > 0
    /\ ender' = [ender EXCEPT ![e] =
          [at |-> IF row.status = "active" THEN "check" ELSE "finish", from |-> row.status, fee |-> fee]]
    /\ UNCHANGED <<row, invoice, tx, credit, name, dom, hunt, pass, loose, halted, view, alert, faults, halts, events>>

sweepStale ==
    /\ "sweep" \in Enders /\ ender["sweep"].at = "off"
    /\ row.status = "pending_payment" /\ invoice \in {"overdue", "cancelled"}
    /\ ender' = [ender EXCEPT !["sweep"] = [at |-> "finish", from |-> row.status, fee |-> FALSE]]
    /\ UNCHANGED <<row, invoice, tx, credit, name, dom, hunt, pass, loose, halted, view, alert, faults, halts, events>>

\* ensureNotOwned: only a definite "not ours" lets the cancellation go on.
AfterCheck(answer) == IF answer = "not" THEN "finish" ELSE "off"
ensureNotOwned(e) ==
    /\ ender[e].at = "check"
    /\ \E answer \in {"ours", "not", "unknown"} :
         /\ Lookup(answer)
         /\ ender' = [ender EXCEPT ![e] = IF AfterCheck(answer) = "off" THEN NoEnder ELSE [@ EXCEPT !.at = "finish"]]
    /\ UNCHANGED <<row, invoice, tx, credit, name, dom, hunt, pass, loose, halted, view, alert, halts, events>>

FinishCancel(e) ==
    LET d == ender[e]
    IN  /\ d.at = "finish"
        /\ finish(d.from, "cancelled", d.fee, TRUE)
        /\ ender' = [ender EXCEPT ![e] =
              IF CanFinish(d.from, "cancelled", TRUE) /\ d.from = "pending_payment"
                THEN [d EXCEPT !.at = "void"] ELSE NoEnder]
        /\ UNCHANGED <<invoice, tx, name, dom, hunt, pass, loose, halted, view, alert, faults, halts, events>>

\* Mutant: the invoice is voided although a payment is on its way.
VoidAnyway(e) ==
    /\ ender[e].at = "void"
    /\ ender' = [ender EXCEPT ![e].at = "voiding"]
    /\ UNCHANGED <<invoice, faults>>
\* voidInvoice: not while a payment is pending, or when that cannot be read.
voidInvoice(e) ==
    \/ /\ ender[e].at = "void"
       /\ ender' = [ender EXCEPT ![e] = IF tx THEN NoEnder ELSE [@ EXCEPT !.at = "voiding"]]
       /\ UNCHANGED <<invoice, faults>>
    \/ /\ ender[e].at = "void" /\ Fault
       /\ ender' = [ender EXCEPT ![e] = NoEnder]
       /\ UNCHANGED invoice
VoidInvoice(e) ==
    /\ \/ voidInvoice(e)
       \/ /\ ender[e].at = "voiding"
          /\ invoice' = IF Payable THEN "cancelled" ELSE invoice
          /\ ender' = [ender EXCEPT ![e] = NoEnder]
          /\ UNCHANGED faults
    /\ UNCHANGED <<row, tx, credit, name, dom, hunt, pass, loose, halted, view, alert, halts, events>>

CancelSteps(e) == ensureNotOwned(e) \/ FinishCancel(e) \/ VoidInvoice(e)

-----------------------------------------------------------------------------
(* The supervisor of a worker: settings, leases.                           *)

\* refreshConfig, and stopAll when hunting is halted.
refreshConfig(w) ==
    /\ view' = [view EXCEPT ![w] = halted]
    /\ hunt' = [hunt EXCEPT ![w].stop = @ \/ (halted /\ hunt[w].at # "off")]
    /\ UNCHANGED <<row, invoice, tx, credit, name, dom, pass, ender, loose, halted, alert, faults, halts, events>>

\* Repo.Heartbeat: refused when the lease is not ours or the snipe has ended.
heartbeat(w) ==
    /\ hunt[w].at # "off"
    /\ IF row.lease = w /\ row.status = "active"
         THEN row' = [row EXCEPT !.live = TRUE] /\ UNCHANGED hunt
         ELSE hunt' = [hunt EXCEPT ![w].stop = TRUE] /\ UNCHANGED row
    /\ UNCHANGED <<invoice, tx, credit, name, dom, pass, ender, loose, halted, view, alert, faults, halts, events>>

\* lease_until passes: the holder is gone, or (a fault) it stalls.
LeaseExpires ==
    /\ row.lease # None /\ row.live /\ hunt[row.lease].at = "off"
    /\ row' = [row EXCEPT !.live = FALSE]
    /\ UNCHANGED <<invoice, tx, credit, name, dom, hunt, pass, ender, loose, config, alert, faults, events>>
LeaseLapses ==
    /\ row.lease # None /\ row.live /\ hunt[row.lease].at # "off"
    /\ Fault
    /\ row' = [row EXCEPT !.live = FALSE]
    /\ events' = events \cup {"lapsed"}
    /\ UNCHANGED <<invoice, tx, credit, name, dom, hunt, pass, ender, loose, config, alert>>

\* setPause: recorded for everyone, and this worker's hunts stop.
Pausing(w) == halts < MaxHalts /\ halts' = halts + 1 /\ halted' = TRUE /\ view' = [view EXCEPT ![w] = TRUE]

\* The hunt of w is over: its deferred release gives the lease back.
Released(w, r) == IF r.lease = w THEN [r EXCEPT !.lease = None, !.live = FALSE] ELSE r
EndHunt(w) == hunt' = [hunt EXCEPT ![w] = NoHunt] /\ row' = Released(w, row)

\* Mutant: a lease is taken although another worker holds it.
ClaimAny(w) == row.status = "active"
Claimable(w) == row.status = "active" /\ Idle

\* claim: lease, then preflight; a failed preflight gives the lease straight back
\* and may pause hunting.  A hunt of ours that still runs just goes on.
claim(w) ==
    /\ ~view[w] /\ Claimable(w)
    /\ \/ /\ row' = [row EXCEPT !.lease = w, !.live = TRUE]
          /\ hunt' = [hunt EXCEPT ![w] = IF @.at = "off" THEN [NoHunt EXCEPT !.at = "prepare"] ELSE @]
          /\ UNCHANGED config
       \/ /\ row' = [row EXCEPT !.lease = None, !.live = FALSE]
          /\ Pausing(w)
          /\ hunt' = [hunt EXCEPT ![w].stop = @ \/ hunt[w].at # "off"]
    /\ UNCHANGED <<invoice, tx, credit, name, dom, pass, ender, loose, alert, faults, events>>

\* probePause or an administrator: hunting goes on, for w at once.
Resume(w) ==
    /\ halted /\ halted' = FALSE
    /\ view' = [view EXCEPT ![w] = FALSE]
    /\ UNCHANGED <<row, invoice, tx, credit, name, dom, hunt, pass, ender, loose, alert, faults, halts, events>>

-----------------------------------------------------------------------------
(* The hunt.                                                               *)

Goto(w, h) == hunt' = [hunt EXCEPT ![w] = h]
\* A register call is given up before it has landed.
LetGo(w) == loose' = (loose \/ hunt[w].call = "sent")
Offstage == <<invoice, tx, credit, dom, pass, ender, alert>>

\* prepare: the customer at the registrar; a profile it refuses ends the snipe.
prepare(w) ==
    /\ hunt[w].at = "prepare"
    /\ \/ /\ hunt[w].stop /\ EndHunt(w) /\ UNCHANGED config
       \/ /\ Goto(w, [hunt[w] EXCEPT !.at = "loop", !.verify = TRUE]) /\ UNCHANGED <<row, halted, view, halts>>
       \/ /\ Goto(w, [hunt[w] EXCEPT !.at = "settle", !.goal = "failed"]) /\ UNCHANGED <<row, halted, view, halts>>
       \/ /\ Pausing(w) /\ EndHunt(w)
    /\ UNCHANGED <<Offstage, registrar, faults, events>>

Running(w) == hunt[w].at = "loop" /\ ~hunt[w].stop /\ ~view[w]

\* The top of the loop: stopped, halted, or past the deadline.
LeaveLoop(w) ==
    /\ hunt[w].at = "loop"
    /\ \/ (hunt[w].stop \/ view[w]) /\ EndHunt(w)
       \/ /\ Running(w) /\ row.due
          /\ Goto(w, [hunt[w] EXCEPT !.at = "settle", !.goal = "expired"]) /\ UNCHANGED row
    /\ UNCHANGED <<Offstage, registrar, config, faults, events>>

\* verify: is the name ours already?
verify(w) ==
    /\ Running(w) /\ ~row.due /\ hunt[w].verify
    /\ \E answer \in {"ours", "not", "unknown"} :
         /\ Lookup(answer)
         /\ Goto(w, CASE answer = "ours" -> [hunt[w] EXCEPT !.at = "record", !.goal = "loop"]
                      [] answer = "not"  -> [hunt[w] EXCEPT !.verify = FALSE]
                      [] OTHER           -> hunt[w])
    /\ UNCHANGED <<row, Offstage, registrar, config, events>>

\* attempt: a register call leaves.
attempt(w) ==
    /\ Running(w) /\ ~row.due /\ ~hunt[w].verify
    /\ Goto(w, [hunt[w] EXCEPT !.at = "sent", !.call = "sent"])
    /\ UNCHANGED <<row, Offstage, registrar, config, faults, events>>

\* probe, or the account behind it, can only pause the hunt.
probe(w) ==
    /\ Running(w) /\ ~row.due /\ ~hunt[w].verify
    /\ Pausing(w) /\ EndHunt(w)
    /\ UNCHANGED <<Offstage, registrar, faults, events>>

\* classify: what a definite refusal makes of the hunt.
Refused(w) ==
    \/ /\ \E again \in {FALSE, hunt[w].suspect} :
            Goto(w, [hunt[w] EXCEPT !.at = "loop", !.call = None, !.verify = again])
       /\ UNCHANGED <<row, halted, view, halts>>
    \/ Pausing(w) /\ EndHunt(w)
    \/ /\ Goto(w, [hunt[w] EXCEPT !.at = "settle", !.call = None, !.goal = "failed"])
       /\ UNCHANGED <<row, halted, view, halts>>

\* An unclear reply: look before the next call, and keep suspecting for a while.
Ambiguous(h) == [h EXCEPT !.at = "loop", !.call = None, !.verify = TRUE, !.suspect = TRUE]

Answer(w) ==
    /\ hunt[w].at = "sent"
    /\ \/ /\ hunt[w].call = "won"
          /\ Goto(w, [hunt[w] EXCEPT !.at = "record", !.call = None, !.goal = "loop"])
          /\ UNCHANGED <<row, loose, config, faults, events>>
       \/ /\ hunt[w].call = "lost" /\ Refused(w)
          /\ UNCHANGED <<loose, faults, events>>
       \/ /\ Fault /\ LetGo(w) /\ Goto(w, Ambiguous(hunt[w]))
          /\ events' = events \cup When(hunt[w].call = "won", "unheard")
          /\ UNCHANGED <<row, config>>
       \/ /\ hunt[w].stop /\ LetGo(w)
          /\ Goto(w, [hunt[w] EXCEPT !.at = "abort", !.call = None])
          /\ UNCHANGED <<row, config, faults, events>>
    /\ UNCHANGED <<Offstage, name>>

\* afterAbort looks once whether the call that was cut off has landed.
AbortFinds(answer) == answer = "ours"
afterAbort(w) ==
    /\ hunt[w].at = "abort"
    /\ \E answer \in {"ours", "not", "unknown"} :
         /\ Lookup(answer)
         /\ IF AbortFinds(answer)
              THEN Goto(w, [hunt[w] EXCEPT !.at = "record", !.goal = "abort"]) /\ UNCHANGED row
              ELSE EndHunt(w)
         /\ events' = events \cup When(answer = "unknown", "unheard")
    /\ UNCHANGED <<Offstage, registrar, config>>

-----------------------------------------------------------------------------
(* Winning.                                                                *)

\* recordWin: the domain row and the status in one transaction.
recordWin == dom' = "hunt" /\ Finished("active", "won", FALSE) /\ UNCHANGED alert
\* Mutant: nobody is told of a late win.
SilentLateWin == dom' = "hunt" /\ UNCHANGED <<row, credit, alert>>
\* lateWin: a snipe that has ended gets its domain all the same.
lateWin == dom' = "hunt" /\ alert' = TRUE /\ UNCHANGED <<row, credit>>
\* alreadyWon and adoptExisting: the row exists; an active snipe takes it over.
adoptExisting == finish("active", "won", FALSE, TRUE) /\ UNCHANGED <<dom, alert>>
RecordWin ==
    IF dom # None THEN adoptExisting
    ELSE IF row.status = "active" THEN recordWin ELSE lateWin

\* lateWin whose row cannot be stored: the administrator is told.
RecordFails == alert' = (alert \/ row.status # "active") /\ UNCHANGED <<credit, dom>>

\* Mutant: winning needs the lease.
WinFenced(w) ==
    /\ hunt[w].at = "record"
    /\ hunt' = [hunt EXCEPT ![w] = NoHunt]
    /\ IF row.lease = w THEN RecordWin ELSE UNCHANGED <<row, credit, dom, alert>>
    /\ UNCHANGED faults
\* No fence: whoever registered records.
win(w) ==
    /\ hunt[w].at = "record"
    /\ \/ /\ RecordWin /\ hunt' = [hunt EXCEPT ![w] = NoHunt]
          /\ UNCHANGED faults
       \/ /\ Fault /\ RecordFails
          /\ IF hunt[w].goal = "loop" /\ row.status = "active"
               THEN Goto(w, [hunt[w] EXCEPT !.at = "loop", !.verify = TRUE, !.goal = None]) /\ UNCHANGED row
               ELSE EndHunt(w)
Win(w) ==
    /\ win(w)
    /\ events' = events \cup When(faults' # faults /\ row.status = "active", "unstored")
    /\ UNCHANGED <<invoice, tx, pass, ender, registrar, config>>

\* settleIfOwned lets an ending go on only if the name is definitely not ours.
MayEnd(answer) == answer = "not"

settleIfOwned(w) ==
    /\ hunt[w].at = "settle"
    /\ \E answer \in {"ours", "not", "unknown"} :
         /\ Lookup(answer)
         /\ IF answer = "ours" THEN Goto(w, [hunt[w] EXCEPT !.at = "record"]) /\ UNCHANGED row
            ELSE IF MayEnd(answer) THEN Goto(w, [hunt[w] EXCEPT !.at = "end"]) /\ UNCHANGED row
            ELSE EndHunt(w)
    /\ UNCHANGED <<Offstage, registrar, config, events>>

\* expire and fail: only the holder of the lease ends the snipe.
EndByHunt(w) ==
    /\ hunt[w].at = "end"
    /\ IF CanFinish("active", hunt[w].goal, row.lease = w)
         THEN Finished("active", hunt[w].goal, FALSE)
         ELSE row' = Released(w, row) /\ UNCHANGED credit
    /\ hunt' = [hunt EXCEPT ![w] = NoHunt]
    /\ UNCHANGED <<invoice, tx, dom, pass, ender, alert, registrar, config, faults, events>>

Hunt(w) ==
    \/ prepare(w) \/ LeaveLoop(w) \/ verify(w) \/ attempt(w) \/ probe(w) \/ Answer(w)
    \/ afterAbort(w) \/ Win(w) \/ settleIfOwned(w) \/ EndByHunt(w)

-----------------------------------------------------------------------------
(* expireDue: snipes past their deadline that no live hunt holds.           *)

\* Mutant: a lapsed lease still counts.
IgnoreLapsed == row.status = "active" /\ row.due /\ row.lease = None
ListExpirable == row.status = "active" /\ row.due /\ Idle

Pass(w) ==
    /\ \/ /\ pass[w].at = "off" /\ ListExpirable
          /\ pass' = [pass EXCEPT ![w] = [at |-> "settle", goal |-> IF view[w] THEN "failed" ELSE "expired"]]
          /\ UNCHANGED <<row, credit, dom, alert, faults>>
       \/ /\ pass[w].at = "settle"
          /\ \E answer \in {"ours", "not", "unknown"} :
               /\ Lookup(answer)
               /\ pass' = [pass EXCEPT ![w] =
                     IF answer = "ours" THEN [@ EXCEPT !.at = "record"]
                     ELSE IF MayEnd(answer) THEN [@ EXCEPT !.at = "end"] ELSE NoPass]
          /\ UNCHANGED <<row, credit, dom, alert>>
       \/ /\ pass[w].at = "record"
          /\ pass' = [pass EXCEPT ![w] = NoPass]
          /\ \/ RecordWin /\ UNCHANGED faults
             \/ Fault /\ RecordFails /\ UNCHANGED row
       \/ /\ pass[w].at = "end"
          /\ finish("active", pass[w].goal, FALSE, Idle)
          /\ pass' = [pass EXCEPT ![w] = NoPass]
          /\ UNCHANGED <<dom, alert, faults>>
    /\ UNCHANGED <<invoice, tx, hunt, ender, registrar, config, events>>

-----------------------------------------------------------------------------
(* The registrar, the clock, the rest of the world.                        *)

\* A register call lands: the first one to find the name free gets it.
Land(w) ==
    /\ hunt[w].call = "sent"
    /\ name' = IF name = "free" THEN "ours" ELSE name
    /\ Goto(w, [hunt[w] EXCEPT !.call = IF name = "free" THEN "won" ELSE "lost"])
    /\ UNCHANGED <<money, dom, pass, ender, loose, config, alert, faults, events>>

\* Somebody is past the question whether the name is ours.
Ending ==
    \/ row.status \in Terminal
    \/ \E e \in Enders : ender[e].at = "finish" /\ ender[e].from = "active"
    \/ \E w \in Workers : hunt[w].at = "end" \/ pass[w].at = "end"

LandLoose ==
    /\ loose /\ loose' = FALSE
    /\ name' = IF name = "free" THEN "ours" ELSE name
    /\ events' = events \cup When(name = "free" /\ Ending, "late")
    /\ UNCHANGED <<money, dom, hunt, pass, ender, config, alert, faults>>

NameDrops ==
    /\ \/ name \in {"taken", "lapsed"} /\ name' = "free"
       \/ name = "free" /\ name' = "taken"
    /\ UNCHANGED <<money, dom, hunt, pass, ender, loose, config, alert, faults, events>>

Deadline ==
    /\ row.status = "active" /\ ~row.due
    /\ row' = [row EXCEPT !.due = TRUE]
    /\ UNCHANGED <<invoice, tx, credit, name, dom, hunt, pass, ender, loose, config, alert, faults, events>>

\* An administrator adds the domain by hand.
AddByHand ==
    /\ dom = None /\ name = "ours" /\ row.status = "active"
    /\ dom' = "hand"
    /\ UNCHANGED <<money, name, hunt, pass, ender, loose, config, alert, faults, events>>

\* A worker dies; its lease stays until it lapses.
Crash(w) ==
    /\ hunt[w].at # "off" \/ pass[w].at # "off"
    /\ Fault /\ LetGo(w)
    /\ hunt' = [hunt EXCEPT ![w] = NoHunt]
    /\ pass' = [pass EXCEPT ![w] = NoPass]
    /\ view' = [view EXCEPT ![w] = halted]
    /\ events' = events \cup {"crash"}
    /\ UNCHANGED <<money, name, dom, ender, halted, halts, alert>>

Next ==
    \/ Create \/ AdminCreate \/ InitiatePayment \/ PaymentLapses \/ Pay \/ InvoiceLapses \/ CancelInvoice
    \/ sweepStale
    \/ \E e \in Enders : CancelSteps(e) \/ (\E fee \in BOOLEAN : AskCancel(e, fee))
    \/ \E w \in Workers :
         \/ refreshConfig(w) \/ heartbeat(w) \/ claim(w) \/ Resume(w)
         \/ Hunt(w) \/ Pass(w) \/ Land(w) \/ Crash(w)
    \/ LeaseExpires \/ LeaseLapses \/ LandLoose \/ NameDrops \/ Deadline \/ AddByHand

Spec == Init /\ [][Next]_vars

\* Fairness: a tick comes every few seconds, a hunt does not stop between two of
\* its calls, a call is answered or times out, the deadline comes.
Fairness ==
    /\ \A w \in Workers : WF_vars(Hunt(w)) /\ WF_vars(Pass(w)) /\ WF_vars(Land(w))
    /\ WF_vars(Deadline) /\ WF_vars(LeaseExpires)
FairSpec == Spec /\ Fairness

-----------------------------------------------------------------------------
(* Properties.                                                             *)

\* Types; the lease and the deadline belong to a snipe that was active.
TypeOK ==
    /\ row \in [status : {None, "pending_payment", "active"} \cup Terminal, lease : Workers \cup {None},
                live : BOOLEAN, due : BOOLEAN, domain : {0, DomainPrice}, fee : {0, Fee},
                refund : {0, DomainPrice, DomainPrice + Fee}, paid : BOOLEAN]
    /\ invoice \in {None, "unpaid", "overdue", "paid", "cancelled"}
    /\ credit \in Nat
    /\ name \in {"taken", "lapsed", "free", "ours"}
    /\ dom \in {None, "hunt", "hand"}
    /\ \A w \in Workers :
         /\ hunt[w].at \in {"off", "prepare", "loop", "sent", "abort", "record", "settle", "end"}
         /\ pass[w].at \in {"off", "settle", "record", "end"}
    /\ row.lease # None => row.status = "active"

\* What the client paid is spent on a won domain, still at work, or credited back
\* by the rules of refundFor; a payment that comes after the end is credited
\* back in full.  Nothing is credited twice, whoever ends the snipe and however
\* the payment, the cancellations, the hunt and the expiry pass race.
MoneySettled ==
    /\ credit = row.refund
    /\ CASE row.paid /\ row.status = "expired"   -> credit = row.domain
         [] row.paid /\ row.status = "cancelled" -> credit \in {row.domain, row.domain + row.fee}
         [] row.paid /\ row.status = "failed"    -> credit = row.domain + row.fee
         [] ~row.paid /\ invoice = "paid"        -> credit = row.domain + row.fee
         [] OTHER                                -> credit = 0

\* voidInvoice: "paying a voided invoice has no such guarantee".  A payment finds
\* its invoice void only if it was begun while the invoice was being voided, or
\* an administrator voided it.
NoStrayPayment == "strayed" \in events => "crossed" \in events

\* A won snipe has a domains row and the name is ours.
WonIsOurs == row.status = "won" => dom # None /\ name = "ours"

Busy == \E w \in Workers : hunt[w].at # "off" \/ pass[w].at # "off"

\* settleIfOwned and ensureNotOwned: a name that is ours is not forgotten.  When
\* the snipe has ended and nobody works on it any more, the domain is recorded
\* or an administrator was told; the exceptions are a call that landed, or whose
\* answer or record was lost, while the snipe was being ended.
OwnedIsKnown ==
    events \cap {"late", "unheard", "unstored", "crash"} = {} =>
    (name = "ours" /\ row.status \in Terminal /\ ~Busy => dom # None \/ alert)

\* lateWin: a client who has the domain and the money back as well is known to
\* an administrator (who may have entered the domain themselves).
RefundedIsKnown == credit > 0 /\ dom = "hunt" => alert

\* Claim and Heartbeat: two workers hunt the same name only after a lease lapsed
\* under a hunt that was still running.
OneHunter ==
    events \cap {"lapsed"} = {} =>
    \A v, w \in Workers : v # w => hunt[v].at = "off" \/ hunt[w].at = "off"

\* Tick and expireDue: every active snipe ends one day, with hunting paused or
\* not, whatever crashed and whichever leases lapsed.
Active == row.status = "active"
Over == row.status \in Terminal
ActiveEnds == Active ~> Over

\* A name that became ours while the snipe was active is recorded one day, or an
\* administrator hears of it (unless the exceptions of OwnedIsKnown struck).
Owned == name = "ours" /\ row.status = "active"
Recorded == dom # None \/ alert \/ events \cap {"late", "unheard", "unstored", "crash"} # {}
OwnedIsRecorded == Owned ~> Recorded

-----------------------------------------------------------------------------
(* Proofs.                                                                 *)

Constants == DomainPrice \in Nat /\ Fee \in Nat /\ None \notin Workers

RowType == [status : {None, "pending_payment", "active"} \cup Terminal, lease : Workers \cup {None},
            live : BOOLEAN, due : BOOLEAN, domain : Nat, fee : Nat, refund : Nat, paid : BOOLEAN]
HuntType == [at : {"off", "prepare", "loop", "sent", "abort", "record", "settle", "end"},
             stop : BOOLEAN, verify : BOOLEAN, suspect : BOOLEAN,
             call : {None, "sent", "won", "lost"}, goal : {None, "loop", "abort", "failed", "expired"}]
PassType == [at : {"off", "settle", "record", "end"}, goal : {None, "failed", "expired"}]
EnderType == [at : {"off", "check", "finish", "void", "voiding"},
              from : {None, "pending_payment", "active"}, fee : BOOLEAN]

Settings == halted \in BOOLEAN /\ view \in [Workers -> BOOLEAN] /\ faults \in Nat /\ halts \in Nat

Types ==
    /\ row \in RowType
    /\ invoice \in {None, "unpaid", "overdue", "paid", "cancelled"}
    /\ tx \in BOOLEAN /\ credit \in Nat
    /\ name \in {"taken", "lapsed", "free", "ours"}
    /\ dom \in {None, "hunt", "hand"}
    /\ hunt \in [Workers -> HuntType] /\ pass \in [Workers -> PassType]
    /\ ender \in [Enders -> EnderType]
    /\ loose \in BOOLEAN /\ alert \in BOOLEAN
    /\ Settings

\* The snipe has been active: paid for, or an administrator's.
Started == row.status # None /\ (row.paid \/ invoice = None)

\* What a hunt, an expiry pass and a cancellation know while they are under way.
HuntKnows(w) ==
    /\ hunt[w].at # "off" => Started
    /\ hunt[w].call # None => hunt[w].at = "sent"
    /\ hunt[w].at \in {"settle", "end"} => hunt[w].goal \in {"failed", "expired"}
    /\ hunt[w].at = "record" \/ hunt[w].call = "won" => name = "ours"
PassKnows(w) ==
    /\ pass[w].at # "off" => Started /\ pass[w].goal \in {"failed", "expired"}
    /\ pass[w].at = "record" => name = "ours"
EnderKnows(e) == ender[e].at \in {"check", "finish"} => ender[e].from # None
Known ==
    /\ \A w \in Workers : HuntKnows(w) /\ PassKnows(w)
    /\ \A e \in Enders : EnderKnows(e)
    /\ loose => Started

\* The money of a snipe in each of its states.
Account ==
    /\ row.lease # None => row.status = "active"
    /\ <<row.domain, row.fee>> \in {<<0, 0>>, <<DomainPrice, Fee>>}
    /\ invoice = None => row.domain = 0 /\ row.fee = 0
    /\ row.status = None => ~row.paid /\ invoice = None
    /\ row.status = "pending_payment" => ~row.paid /\ invoice \notin {None, "paid"}
    /\ row.status \in {"active", "won"} => Started
    /\ row.paid => invoice = "paid" /\ row.status \in {"active"} \cup Terminal
    /\ row.status \in Terminal /\ ~Started => row.status = "cancelled"
    /\ MoneySettled

\* A payment that is on its way while its invoice is void, or is being voided,
\* was noted as crossed.
Crossing ==
    /\ NoStrayPayment
    /\ tx /\ (~Payable \/ Voiding) => "crossed" \in events

\* A row made by the hunt is that of a snipe that has ended.
Recording ==
    /\ WonIsOurs /\ RefundedIsKnown
    /\ dom = "hunt" => Started /\ row.status # "active"

\* Whoever hunts an active snipe holds its lease.
Holding ==
    /\ OneHunter
    /\ "lapsed" \notin events /\ row.status = "active" =>
          \A w \in Workers : hunt[w].at # "off" => row.lease = w /\ row.live

\* Somebody is about to learn, or to record, that the name is ours.
Carries(w) == hunt[w].call = "won" \/ hunt[w].at \in {"abort", "record"}
Told == dom # None \/ alert
Lost == events \cap {"late", "unheard", "unstored", "crash"} # {}
Open == row.status = "active" /\ ~Ending

\* A name that is ours is on record, reported, carried by somebody, or will
\* still be asked about before the snipe ends.
Owning == name = "ours" /\ ~Lost => Told \/ Open \/ \E w \in Workers : Carries(w)

SnipeInv == Types /\ Known /\ Account /\ Crossing /\ Recording /\ Holding /\ Owning

LEMMA SnipeInit == Constants => (Init => SnipeInv)
<1> SUFFICES ASSUME Constants, Init PROVE SnipeInv
  OBVIOUS
<1>1. Types
  BY DEF Constants, Init, Types, Settings, RowType, HuntType, PassType, EnderType, NoHunt, NoPass,
         NoEnder, None, Terminal
<1>2. Known
  BY DEF Init, Known, HuntKnows, PassKnows, EnderKnows, NoHunt, NoPass, NoEnder, None
<1>3. Account
  BY DEF Init, Account, MoneySettled, Started, Terminal, None
<1>4. Crossing /\ Recording /\ Holding /\ Owning
  BY DEF Init, Crossing, NoStrayPayment, Recording, WonIsOurs, RefundedIsKnown, Holding, OneHunter,
         Owning, NoHunt, None
<1> QED BY <1>1, <1>2, <1>3, <1>4 DEF SnipeInv

\* The money as it was: only the lease and the deadline may have changed.
SameMoney ==
    /\ \A f \in {"status", "domain", "fee", "refund", "paid"} : row'[f] = row[f]
    /\ row'.lease # None => row'.status = "active"
    /\ invoice' = invoice /\ credit' = credit

LEMMA AccountSame ==
    ASSUME Account, SameMoney
    PROVE  Account' /\ (Started' <=> Started)
<1>1. /\ row'.status = row.status /\ row'.domain = row.domain /\ row'.fee = row.fee
      /\ row'.refund = row.refund /\ row'.paid = row.paid
      /\ row'.lease # None => row'.status = "active"
      /\ invoice' = invoice /\ credit' = credit
  BY DEF SameMoney
<1>2. Started' <=> Started
  BY <1>1 DEF Started
<1>3. MoneySettled'
  BY <1>1 DEF Account, MoneySettled
<1> QED BY <1>1, <1>2, <1>3 DEF Account

LEMMA KnownFrame ==
    ASSUME Known, NEW w \in Workers,
           \A v \in Workers \ {w} : hunt'[v] = hunt[v] /\ pass'[v] = pass[v],
           ender' = ender, name = "ours" => name' = "ours", Started => Started',
           HuntKnows(w)', PassKnows(w)', loose' => Started'
    PROVE  Known'
BY DEF Known, HuntKnows, PassKnows, EnderKnows

LEMMA CrossingFrame ==
    ASSUME Crossing, UNCHANGED <<invoice, tx, ender>>, events \subseteq events',
           "strayed" \in events' => "strayed" \in events
    PROVE  Crossing'
BY DEF Crossing, NoStrayPayment, Payable, Voiding

LEMMA RecordingFrame ==
    ASSUME Recording, SameMoney, Started' <=> Started, dom' = dom, alert => alert',
           name = "ours" => name' = "ours"
    PROVE  Recording'
BY DEF Recording, WonIsOurs, RefundedIsKnown, SameMoney

\* What most steps of a hunt have in common: they leave the rest alone, give the
\* lease back at their end, and do not drop a name that is ours.
HuntMove(w, h) ==
    /\ hunt[w].at # "off" /\ h \in HuntType
    /\ hunt' = [hunt EXCEPT ![w] = h]
    /\ row' = IF h.at = "off" THEN Released(w, row) ELSE row
    /\ h.call # None => h.at = "sent"
    /\ h.at \in {"settle", "end"} => h.goal \in {"failed", "expired"}
    /\ h.at = "record" \/ h.call = "won" => name = "ours"
    /\ h.at = "end" => name # "ours" \/ hunt[w].at = "end"
    /\ name = "ours" /\ Carries(w) => h.call = "won" \/ h.at \in {"abort", "record"} \/ Lost'
    /\ loose' \in {loose, TRUE}
    /\ events' \in {events, events \cup {"unheard"}}
    /\ UNCHANGED <<Offstage, name>>

LEMMA HuntMoveKeeps ==
    ASSUME Constants, SnipeInv, NEW w \in Workers, NEW h, HuntMove(w, h), Settings'
    PROVE  SnipeInv'
<1>t. /\ hunt \in [Workers -> HuntType] /\ row \in RowType /\ Types
      /\ Known /\ Account /\ Crossing /\ Recording /\ Holding /\ Owning
  BY DEF SnipeInv, Types
<1>h. /\ h \in HuntType /\ hunt' \in [Workers -> HuntType] /\ hunt'[w] = h
      /\ \A v \in Workers \ {w} : hunt'[v] = hunt[v]
  BY <1>t DEF HuntMove
<1>u. /\ invoice' = invoice /\ tx' = tx /\ credit' = credit /\ dom' = dom /\ pass' = pass
      /\ ender' = ender /\ alert' = alert /\ name' = name
      /\ loose' \in BOOLEAN /\ events \subseteq events'
      /\ \A e \in {"strayed", "lapsed"} : e \in events' => e \in events
  BY <1>t DEF HuntMove, Offstage, Types
<1>r. /\ row' \in RowType
      /\ \A f \in {"status", "domain", "fee", "refund", "paid"} : row'[f] = row[f]
      /\ row' = row \/ (h.at = "off" /\ row.lease = w /\ row'.lease = None)
  BY <1>t DEF HuntMove, Released, RowType
<1>1. Types'
  BY <1>t, <1>h, <1>u, <1>r DEF Types
<1>2. SameMoney
  BY <1>t, <1>u, <1>r DEF SameMoney, Account
<1>3. Account' /\ (Started' <=> Started)
  BY <1>t, <1>2, AccountSame
<1>4. Known'
  <2>1. Started
    BY <1>t DEF Known, HuntKnows, HuntMove
  <2>2. HuntKnows(w)'
    BY <1>h, <1>u, <1>3, <2>1 DEF HuntKnows, HuntMove
  <2>3. PassKnows(w)'
    BY <1>t, <1>u, <1>3 DEF Known, PassKnows
  <2> QED BY <1>t, <1>h, <1>u, <1>3, <2>1, <2>2, <2>3, KnownFrame
<1>5. Crossing' /\ Recording'
  BY <1>t, <1>u, <1>2, <1>3, CrossingFrame, RecordingFrame
<1>6. Holding'
  <2>1. ASSUME "lapsed" \notin events PROVE \A v \in Workers : hunt'[v].at # "off" => hunt[v].at # "off"
    BY <1>h DEF HuntMove
  <2>2. OneHunter'
    BY <1>t, <1>u, <2>1 DEF Holding, OneHunter
  <2>3. ASSUME "lapsed" \notin events', row'.status = "active", NEW v \in Workers, hunt'[v].at # "off"
        PROVE  row'.lease = v /\ row'.live
    <3>1. row.lease = v /\ row.live
      BY <1>t, <1>u, <1>r, <2>1, <2>3 DEF Holding
    <3>2. row' = row
      BY <1>h, <1>r, <2>3, <3>1
    <3> QED BY <3>1, <3>2
  <2> QED BY <2>2, <2>3 DEF Holding
<1>7. Owning'
  <2> SUFFICES ASSUME name = "ours", ~Lost', ~Told
               PROVE  Open' \/ \E v \in Workers : Carries(v)'
    BY <1>u DEF Owning, Told
  <2>1. ~Lost
    BY <1>u DEF Lost
  <2>2. CASE \E v \in Workers : Carries(v)
    BY <1>h, <1>u, <2>2 DEF Carries, HuntMove
  <2>3. CASE Open
    <3>1. ~Ending'
      BY <1>h, <1>u, <1>r, <2>3 DEF Open, Ending, HuntMove
    <3> QED BY <1>r, <2>3, <3>1 DEF Open
  <2> QED BY <1>t, <2>1, <2>2, <2>3 DEF Owning
<1> QED BY <1>1, <1>3, <1>4, <1>5, <1>6, <1>7 DEF SnipeInv

\* The settings a step of worker w may leave.
LEMMA SettingsKept ==
    ASSUME Settings, NEW w \in Workers,
           \/ UNCHANGED <<halted, view, halts>>
           \/ Pausing(w)
           \/ halted' \in BOOLEAN /\ halts' = halts
                /\ \E b \in BOOLEAN : view' = [view EXCEPT ![w] = b],
           faults' = faults \/ Fault
    PROVE  Settings'
<1>1. faults' \in Nat /\ halts' \in Nat
  BY DEF Settings, Pausing, Fault
<1>2. halted' \in BOOLEAN
  BY DEF Settings, Pausing
<1>3. view' \in [Workers -> BOOLEAN]
  <2>1. CASE view' = view
    BY <2>1 DEF Settings
  <2>2. ASSUME NEW b \in BOOLEAN, view' = [view EXCEPT ![w] = b] PROVE view' \in [Workers -> BOOLEAN]
    BY <2>2 DEF Settings
  <2> QED BY <2>1, <2>2 DEF Pausing
<1> QED BY <1>1, <1>2, <1>3 DEF Settings

LEMMA LookupTells ==
    ASSUME NEW answer, Lookup(answer)
    PROVE  /\ answer = "ours" => name = "ours"
           /\ answer = "not" => name # "ours"
           /\ answer = "unknown" \/ faults' = faults
           /\ faults' = faults \/ Fault
BY DEF Lookup, OwnedStatus

LEMMA NoHuntType == NoHunt \in HuntType /\ NoHunt.at = "off" /\ NoHunt.call = None
BY DEF NoHunt, HuntType, None

\* A hunt that ends without having been carrying anything.
LEMMA EndHuntMoves ==
    ASSUME NEW w \in Workers, hunt[w].at # "off", EndHunt(w),
           name = "ours" /\ Carries(w) => Lost',
           loose' = loose, events' \in {events, events \cup {"unheard"}}, UNCHANGED <<Offstage, name>>
    PROVE  HuntMove(w, NoHunt)
BY NoHuntType DEF EndHunt, HuntMove, None

LEMMA HuntActions ==
    ASSUME Constants, SnipeInv, NEW w \in Workers,
           \/ prepare(w) \/ LeaveLoop(w) \/ verify(w) \/ attempt(w) \/ probe(w)
           \/ Answer(w) \/ afterAbort(w) \/ settleIfOwned(w)
    PROVE  SnipeInv'
<1>t. /\ hunt \in [Workers -> HuntType] /\ hunt[w] \in HuntType /\ Settings /\ loose \in BOOLEAN
      /\ HuntKnows(w)
  BY DEF SnipeInv, Types, Known
<1> SUFFICES Settings' /\ \E h : HuntMove(w, h)
  BY HuntMoveKeeps
<1>a. /\ hunt[w].at # "sent" => hunt[w].call = None
      /\ hunt[w].at \in {"prepare", "loop", "settle"} => ~Carries(w)
  BY <1>t DEF HuntKnows, Carries, None
<1>1. CASE prepare(w)
  <2>u. /\ hunt[w].at = "prepare" /\ UNCHANGED <<Offstage, name>> /\ loose' = loose
        /\ events' = events /\ faults' = faults
    BY <1>1 DEF prepare, registrar
  <2>1. CASE hunt[w].stop /\ EndHunt(w) /\ UNCHANGED config
    BY <1>t, <1>a, <2>u, <2>1, EndHuntMoves, SettingsKept DEF config, None
  <2>2. CASE Pausing(w) /\ EndHunt(w)
    BY <1>t, <1>a, <2>u, <2>2, EndHuntMoves, SettingsKept DEF None
  <2>3. CASE /\ Goto(w, [hunt[w] EXCEPT !.at = "loop", !.verify = TRUE])
             /\ UNCHANGED <<row, halted, view, halts>>
    <3>1. HuntMove(w, [hunt[w] EXCEPT !.at = "loop", !.verify = TRUE])
      BY <1>t, <1>a, <2>u, <2>3 DEF HuntMove, Goto, HuntType, None
    <3> QED BY <1>t, <2>u, <2>3, <3>1, SettingsKept
  <2>4. CASE /\ Goto(w, [hunt[w] EXCEPT !.at = "settle", !.goal = "failed"])
             /\ UNCHANGED <<row, halted, view, halts>>
    <3>1. HuntMove(w, [hunt[w] EXCEPT !.at = "settle", !.goal = "failed"])
      BY <1>t, <1>a, <2>u, <2>4 DEF HuntMove, Goto, HuntType, None
    <3> QED BY <1>t, <2>u, <2>4, <3>1, SettingsKept
  <2> QED BY <1>1, <2>1, <2>2, <2>3, <2>4 DEF prepare
<1>2. CASE LeaveLoop(w)
  <2>u. /\ hunt[w].at = "loop" /\ UNCHANGED <<Offstage, name>> /\ loose' = loose
        /\ events' = events /\ faults' = faults /\ UNCHANGED <<halted, view, halts>>
    BY <1>2 DEF LeaveLoop, registrar, config
  <2>1. CASE EndHunt(w)
    BY <1>t, <1>a, <2>u, <2>1, EndHuntMoves, SettingsKept DEF None
  <2>2. CASE Goto(w, [hunt[w] EXCEPT !.at = "settle", !.goal = "expired"]) /\ UNCHANGED row
    <3>1. HuntMove(w, [hunt[w] EXCEPT !.at = "settle", !.goal = "expired"])
      BY <1>t, <1>a, <2>u, <2>2 DEF HuntMove, Goto, HuntType, None
    <3> QED BY <1>t, <2>u, <3>1, SettingsKept
  <2> QED BY <1>2, <2>1, <2>2 DEF LeaveLoop
<1>3. CASE verify(w)
  <2>1. PICK answer \in {"ours", "not", "unknown"} :
           /\ Lookup(answer)
           /\ Goto(w, CASE answer = "ours" -> [hunt[w] EXCEPT !.at = "record", !.goal = "loop"]
                        [] answer = "not"  -> [hunt[w] EXCEPT !.verify = FALSE]
                        [] OTHER           -> hunt[w])
    BY <1>3 DEF verify
  <2>u. /\ hunt[w].at = "loop" /\ UNCHANGED <<Offstage, name>> /\ loose' = loose /\ row' = row
        /\ events' = events /\ UNCHANGED <<halted, view, halts>>
    BY <1>3 DEF verify, registrar, config, Running
  <2>2. Settings' /\ (answer = "ours" => name = "ours")
    BY <1>t, <2>1, <2>u, LookupTells, SettingsKept
  <2>3. CASE answer = "ours"
    <3>1. HuntMove(w, [hunt[w] EXCEPT !.at = "record", !.goal = "loop"])
      BY <1>t, <1>a, <2>1, <2>u, <2>2, <2>3 DEF HuntMove, Goto, HuntType, None
    <3> QED BY <2>2, <3>1
  <2>4. CASE answer = "not"
    <3>1. HuntMove(w, [hunt[w] EXCEPT !.verify = FALSE])
      BY <1>t, <1>a, <2>1, <2>u, <2>4 DEF HuntMove, Goto, HuntType, None
    <3> QED BY <2>2, <3>1
  <2>5. CASE answer = "unknown"
    <3>1. HuntMove(w, hunt[w])
      BY <1>t, <1>a, <2>1, <2>u, <2>5 DEF HuntMove, Goto, HuntType, None
    <3> QED BY <2>2, <3>1
  <2> QED BY <2>3, <2>4, <2>5
<1>4. CASE attempt(w)
  <2>1. HuntMove(w, [hunt[w] EXCEPT !.at = "sent", !.call = "sent"])
    BY <1>t, <1>a, <1>4 DEF attempt, Running, registrar, HuntMove, Goto, HuntType, None
  <2> QED BY <1>t, <1>4, <2>1, SettingsKept DEF attempt, config
<1>5. CASE probe(w)
  <2>u. /\ hunt[w].at = "loop" /\ UNCHANGED <<Offstage, name>> /\ loose' = loose
        /\ events' = events /\ faults' = faults /\ Pausing(w) /\ EndHunt(w)
    BY <1>5 DEF probe, registrar, Running
  <2> QED BY <1>t, <1>a, <2>u, EndHuntMoves, SettingsKept DEF None
<1>6. CASE Answer(w)
  <2>u. hunt[w].at = "sent" /\ UNCHANGED <<Offstage, name>> /\ (Carries(w) <=> hunt[w].call = "won")
    BY <1>6 DEF Answer, Carries
  <2>1. CASE /\ hunt[w].call = "won"
             /\ Goto(w, [hunt[w] EXCEPT !.at = "record", !.call = None, !.goal = "loop"])
             /\ UNCHANGED <<row, loose, config, faults, events>>
    <3>1. HuntMove(w, [hunt[w] EXCEPT !.at = "record", !.call = None, !.goal = "loop"])
      BY <1>t, <2>u, <2>1 DEF HuntMove, Goto, HuntType, HuntKnows, None
    <3> QED BY <1>t, <2>1, <3>1, SettingsKept DEF config
  <2>2. CASE hunt[w].call = "lost" /\ Refused(w) /\ UNCHANGED <<loose, faults, events>>
    <3>1. ASSUME NEW again \in {FALSE, hunt[w].suspect},
                 Goto(w, [hunt[w] EXCEPT !.at = "loop", !.call = None, !.verify = again]),
                 UNCHANGED <<row, halted, view, halts>>
          PROVE  Settings' /\ \E h : HuntMove(w, h)
      <4>1. HuntMove(w, [hunt[w] EXCEPT !.at = "loop", !.call = None, !.verify = again])
        BY <1>t, <2>u, <2>2, <3>1 DEF HuntMove, Goto, HuntType, None
      <4> QED BY <1>t, <2>2, <3>1, <4>1, SettingsKept
    <3>2. CASE Pausing(w) /\ EndHunt(w)
      BY <1>t, <2>u, <2>2, <3>2, EndHuntMoves, SettingsKept
    <3>3. CASE /\ Goto(w, [hunt[w] EXCEPT !.at = "settle", !.call = None, !.goal = "failed"])
               /\ UNCHANGED <<row, halted, view, halts>>
      <4>1. HuntMove(w, [hunt[w] EXCEPT !.at = "settle", !.call = None, !.goal = "failed"])
        BY <1>t, <2>u, <2>2, <3>3 DEF HuntMove, Goto, HuntType, None
      <4> QED BY <1>t, <2>2, <3>3, <4>1, SettingsKept
    <3> QED BY <2>2, <3>1, <3>2, <3>3 DEF Refused
  <2>3. CASE /\ Fault /\ LetGo(w) /\ Goto(w, Ambiguous(hunt[w]))
             /\ events' = events \cup When(hunt[w].call = "won", "unheard")
             /\ UNCHANGED <<row, config>>
    <3>1. /\ hunt[w].call = "won" => Lost'
          /\ events' \in {events, events \cup {"unheard"}}
          /\ loose' \in {loose, TRUE}
      BY <1>t, <2>3 DEF Lost, When, LetGo
    <3>2. HuntMove(w, Ambiguous(hunt[w]))
      BY <1>t, <2>u, <2>3, <3>1 DEF HuntMove, Goto, HuntType, Ambiguous, None
    <3> QED BY <1>t, <2>3, <3>2, SettingsKept DEF config
  <2>4. CASE /\ hunt[w].stop /\ LetGo(w)
             /\ Goto(w, [hunt[w] EXCEPT !.at = "abort", !.call = None])
             /\ UNCHANGED <<row, config, faults, events>>
    <3>1. loose' \in {loose, TRUE}
      BY <1>t, <2>4 DEF LetGo
    <3>2. HuntMove(w, [hunt[w] EXCEPT !.at = "abort", !.call = None])
      BY <1>t, <2>u, <2>4, <3>1 DEF HuntMove, Goto, HuntType, None
    <3> QED BY <1>t, <2>4, <3>2, SettingsKept DEF config
  <2> QED BY <1>6, <2>1, <2>2, <2>3, <2>4 DEF Answer
<1>7. CASE afterAbort(w)
  <2>1. PICK answer \in {"ours", "not", "unknown"} :
           /\ Lookup(answer)
           /\ IF AbortFinds(answer)
                THEN Goto(w, [hunt[w] EXCEPT !.at = "record", !.goal = "abort"]) /\ UNCHANGED row
                ELSE EndHunt(w)
           /\ events' = events \cup When(answer = "unknown", "unheard")
    BY <1>7 DEF afterAbort
  <2>u. /\ hunt[w].at = "abort" /\ UNCHANGED <<Offstage, name>> /\ loose' = loose
        /\ UNCHANGED <<halted, view, halts>>
    BY <1>7 DEF afterAbort, registrar, config
  <2>2. /\ Settings' /\ (answer = "ours" => name = "ours") /\ (answer = "not" => name # "ours")
        /\ answer = "unknown" => Lost'
        /\ events' \in {events, events \cup {"unheard"}}
    BY <1>t, <2>1, <2>u, LookupTells, SettingsKept DEF Lost, When
  <2>3. CASE answer = "ours"
    <3>1. HuntMove(w, [hunt[w] EXCEPT !.at = "record", !.goal = "abort"])
      BY <1>t, <1>a, <2>1, <2>u, <2>2, <2>3 DEF AbortFinds, HuntMove, Goto, HuntType, None
    <3> QED BY <2>2, <3>1
  <2>4. CASE answer # "ours"
    <3>1. EndHunt(w) /\ (name = "ours" => Lost')
      BY <2>1, <2>2, <2>4 DEF AbortFinds
    <3> QED BY <2>2, <2>u, <3>1, EndHuntMoves
  <2> QED BY <2>3, <2>4
<1>8. CASE settleIfOwned(w)
  <2>1. PICK answer \in {"ours", "not", "unknown"} :
           /\ Lookup(answer)
           /\ IF answer = "ours" THEN Goto(w, [hunt[w] EXCEPT !.at = "record"]) /\ UNCHANGED row
              ELSE IF MayEnd(answer) THEN Goto(w, [hunt[w] EXCEPT !.at = "end"]) /\ UNCHANGED row
              ELSE EndHunt(w)
    BY <1>8 DEF settleIfOwned
  <2>u. /\ hunt[w].at = "settle" /\ UNCHANGED <<Offstage, name>> /\ loose' = loose
        /\ events' = events /\ UNCHANGED <<halted, view, halts>>
    BY <1>8 DEF settleIfOwned, registrar, config
  <2>2. Settings' /\ (answer = "ours" => name = "ours") /\ (answer = "not" => name # "ours")
    BY <1>t, <2>1, <2>u, LookupTells, SettingsKept
  <2>3. CASE answer = "ours"
    <3>1. HuntMove(w, [hunt[w] EXCEPT !.at = "record"])
      BY <1>t, <1>a, <2>1, <2>u, <2>2, <2>3 DEF HuntMove, Goto, HuntType, None
    <3> QED BY <2>2, <3>1
  <2>4. CASE answer = "not"
    <3>1. HuntMove(w, [hunt[w] EXCEPT !.at = "end"])
      BY <1>t, <1>a, <2>1, <2>u, <2>2, <2>4 DEF MayEnd, HuntMove, Goto, HuntType, HuntKnows, None
    <3> QED BY <2>2, <3>1
  <2>5. CASE answer = "unknown"
    <3>1. EndHunt(w)
      BY <2>1, <2>5 DEF MayEnd
    <3> QED BY <1>a, <2>2, <2>u, <3>1, EndHuntMoves DEF None
  <2> QED BY <2>3, <2>4, <2>5
<1> QED BY <1>1, <1>2, <1>3, <1>4, <1>5, <1>6, <1>7, <1>8

\* A step on the lease, the deadline or the settings: hunts go on as they were,
\* or one of a snipe that has started is begun.
LEMMA LeaseFrame ==
    ASSUME Constants, SnipeInv, Types', SameMoney, Holding',
           UNCHANGED <<tx, name, dom, pass, ender, loose, alert>>,
           events' \in {events, events \cup {"lapsed"}},
           \A v \in Workers :
              \/ \A f \in {"at", "call", "goal"} : hunt'[v][f] = hunt[v][f]
              \/ hunt[v].at = "off" /\ hunt'[v].at = "prepare" /\ hunt'[v].call = None /\ Started
    PROVE  SnipeInv'
<1>t. Known /\ Account /\ Crossing /\ Recording /\ Owning /\ \A v \in Workers : HuntKnows(v)
  BY DEF SnipeInv, Known
<1>1. Account' /\ (Started' <=> Started) /\ invoice' = invoice /\ row'.status = row.status
  BY <1>t, AccountSame DEF SameMoney
<1>2. events \subseteq events' /\ (Lost' <=> Lost) /\ ("strayed" \in events' => "strayed" \in events)
  BY DEF Lost
<1>3. Known'
  <2>1. ASSUME NEW v \in Workers PROVE HuntKnows(v)'
    <3>1. CASE \A f \in {"at", "call", "goal"} : hunt'[v][f] = hunt[v][f]
      BY <1>t, <1>1, <3>1 DEF HuntKnows
    <3>2. CASE hunt'[v].at = "prepare" /\ hunt'[v].call = None /\ Started
      BY <1>1, <3>2 DEF HuntKnows, None
    <3> QED BY <3>1, <3>2
  <2>2. \A v \in Workers : PassKnows(v)'
    BY <1>t, <1>1 DEF Known, PassKnows
  <2> QED BY <1>t, <1>1, <2>1, <2>2 DEF Known, EnderKnows
<1>4. Crossing' /\ Recording'
  BY <1>t, <1>1, <1>2, CrossingFrame, RecordingFrame
<1>5. Owning'
  <2>1. \A v \in Workers : (Carries(v) => Carries(v)') /\ (hunt'[v].at = "end" <=> hunt[v].at = "end")
    BY <1>t DEF HuntKnows, Carries, None
  <2>2. Open' <=> Open
    BY <1>1, <2>1 DEF Open, Ending
  <2> QED BY <1>t, <1>2, <2>1, <2>2 DEF Owning, Told
<1> QED BY <1>1, <1>3, <1>4, <1>5 DEF SnipeInv

LEMMA LeaseActions ==
    ASSUME Constants, SnipeInv,
           \/ LeaseExpires \/ LeaseLapses \/ Deadline
           \/ \E w \in Workers : refreshConfig(w) \/ heartbeat(w) \/ claim(w) \/ Resume(w)
    PROVE  SnipeInv'
<1>t. /\ Types /\ row \in RowType /\ hunt \in [Workers -> HuntType] /\ Settings
      /\ Holding /\ Account /\ (row.lease # None => row.status = "active")
  BY DEF SnipeInv, Types, Account
<1>1. CASE LeaseExpires
  <2>1. /\ row' = [row EXCEPT !.live = FALSE] /\ hunt[row.lease].at = "off" /\ row.lease # None
        /\ UNCHANGED <<invoice, tx, credit, name, dom, hunt, pass, ender, loose, halted, view, halts,
                       alert, faults, events>>
    BY <1>1 DEF LeaseExpires, config
  <2>2. Types' /\ SameMoney
    <3>1. row' \in RowType
      BY <1>t, <2>1 DEF Types, RowType
    <3>2. Types'
      BY <1>t, <2>1, <3>1 DEF Types, Settings
    <3>3. SameMoney
      BY <1>t, <2>1 DEF Types, RowType, SameMoney
    <3> QED BY <3>2, <3>3
  <2>3. Holding'
    BY <1>t, <2>1, <2>2 DEF Holding, OneHunter, SameMoney
  <2> QED BY <2>1, <2>2, <2>3, LeaseFrame
<1>2. CASE LeaseLapses
  <2>1. /\ row' = [row EXCEPT !.live = FALSE] /\ events' = events \cup {"lapsed"} /\ Fault
        /\ UNCHANGED <<invoice, tx, credit, name, dom, hunt, pass, ender, loose, halted, view, halts, alert>>
    BY <1>2 DEF LeaseLapses, config
  <2>2. Types' /\ SameMoney
    <3>1. faults' \in Nat
      BY <1>t, <2>1 DEF Settings, Fault
    <3>2. row' \in RowType /\ SameMoney
      BY <1>t, <2>1 DEF RowType, SameMoney
    <3>3. Settings'
      BY <1>t, <2>1, <3>1 DEF Settings
    <3> QED BY <1>t, <2>1, <3>2, <3>3 DEF Types
  <2>3. Holding'
    BY <2>1 DEF Holding, OneHunter
  <2> QED BY <2>1, <2>2, <2>3, LeaseFrame
<1>3. CASE Deadline
  <2>1. /\ row' = [row EXCEPT !.due = TRUE]
        /\ UNCHANGED <<invoice, tx, credit, name, dom, hunt, pass, ender, loose, halted, view, halts,
                       alert, faults, events>>
    BY <1>3 DEF Deadline, config
  <2>2. Types' /\ SameMoney
    <3>1. row' \in RowType
      BY <1>t, <2>1 DEF Types, RowType
    <3>2. Types'
      BY <1>t, <2>1, <3>1 DEF Types, Settings
    <3>3. SameMoney
      BY <1>t, <2>1 DEF Types, RowType, SameMoney
    <3> QED BY <3>2, <3>3
  <2>3. Holding'
    BY <1>t, <2>1 DEF Holding, OneHunter, RowType
  <2> QED BY <2>1, <2>2, <2>3, LeaseFrame
<1>4. ASSUME NEW w \in Workers, refreshConfig(w) PROVE SnipeInv'
  <2> DEFINE s == hunt[w].stop \/ (halted /\ hunt[w].at # "off")
  <2>1. /\ hunt' = [hunt EXCEPT ![w] = [hunt[w] EXCEPT !.stop = s]] /\ view' = [view EXCEPT ![w] = halted]
        /\ UNCHANGED <<row, invoice, tx, credit, name, dom, pass, ender, loose, halted, alert, faults, halts, events>>
    BY <1>t, <1>4 DEF refreshConfig
  <2>2. s \in BOOLEAN
    BY <1>t DEF HuntType, Settings
  <2> HIDE DEF s
  <2>3. Settings' /\ hunt' \in [Workers -> HuntType]
        /\ \A v \in Workers : \A f \in {"at", "call", "goal"} : hunt'[v][f] = hunt[v][f]
    <3>1. hunt[w] \in HuntType
      BY <1>t
    <3>2. Settings'
      BY <1>t, <2>1, SettingsKept DEF Settings
    <3> QED BY <1>t, <2>1, <2>2, <3>1, <3>2 DEF HuntType
  <2>4. Types' /\ SameMoney
    BY <1>t, <2>1, <2>3 DEF Types, SameMoney
  <2>5. Holding'
    BY <1>t, <2>1, <2>3 DEF Holding, OneHunter
  <2> QED BY <2>1, <2>3, <2>4, <2>5, LeaseFrame
<1>5. ASSUME NEW w \in Workers, heartbeat(w) PROVE SnipeInv'
  <2>u. UNCHANGED <<invoice, tx, credit, name, dom, pass, ender, loose, halted, view, alert, faults, halts, events>>
    BY <1>5 DEF heartbeat
  <2>1. CASE row' = [row EXCEPT !.live = TRUE] /\ UNCHANGED hunt
    <3>1. Types' /\ SameMoney
      <4>1. row' \in RowType
        BY <1>t, <2>1 DEF Types, RowType
      <4>2. Types'
        BY <1>t, <2>u, <2>1, <4>1 DEF Types, Settings
      <4>3. SameMoney
        BY <1>t, <2>u, <2>1 DEF Types, RowType, SameMoney
      <4> QED BY <4>2, <4>3
    <3>2. Holding'
      BY <1>t, <2>u, <2>1 DEF Holding, OneHunter, RowType
    <3> QED BY <2>u, <2>1, <3>1, <3>2, LeaseFrame
  <2>2. CASE hunt' = [hunt EXCEPT ![w].stop = TRUE] /\ UNCHANGED row
    <3>1. /\ hunt' \in [Workers -> HuntType]
          /\ \A v \in Workers : \A f \in {"at", "call", "goal"} : hunt'[v][f] = hunt[v][f]
      <4>1. hunt[w] \in HuntType
        BY <1>t
      <4> QED BY <1>t, <2>2, <4>1 DEF HuntType
    <3>2. Types' /\ SameMoney
      BY <1>t, <2>u, <2>2, <3>1 DEF Types, Settings, SameMoney
    <3>3. Holding'
      BY <1>t, <2>u, <2>2, <3>1 DEF Holding, OneHunter
    <3> QED BY <2>u, <2>2, <3>1, <3>2, <3>3, LeaseFrame
  <2> QED BY <1>5, <2>1, <2>2 DEF heartbeat
<1>6. ASSUME NEW w \in Workers, claim(w) PROVE SnipeInv'
  <2>u. /\ row.status = "active" /\ Idle
        /\ UNCHANGED <<invoice, tx, credit, name, dom, pass, ender, loose, alert, faults, events>>
    BY <1>6 DEF claim, Claimable
  <2>1. Started
    BY <1>t, <2>u DEF Account
  <2>2. "lapsed" \notin events => \A v \in Workers : hunt[v].at = "off"
    BY <1>t, <2>u DEF Holding, Idle, Constants
  <2>3. CASE /\ row' = [row EXCEPT !.lease = w, !.live = TRUE]
             /\ hunt' = [hunt EXCEPT ![w] = IF @.at = "off" THEN [NoHunt EXCEPT !.at = "prepare"] ELSE @]
             /\ UNCHANGED config
    <3>1. [NoHunt EXCEPT !.at = "prepare"] \in HuntType
      BY DEF NoHunt, HuntType, None
    <3>2. /\ hunt' \in [Workers -> HuntType]
          /\ \A v \in Workers :
                \/ \A f \in {"at", "call", "goal"} : hunt'[v][f] = hunt[v][f]
                \/ hunt[v].at = "off" /\ hunt'[v].at = "prepare" /\ hunt'[v].call = None /\ Started
      BY <1>t, <2>1, <2>3, <3>1 DEF NoHunt
    <3>3. \A v \in Workers \ {w} : hunt'[v] = hunt[v]
      BY <1>t, <2>3
    <3>4. Types' /\ SameMoney
      BY <1>t, <2>u, <2>3, <3>2 DEF Types, Settings, RowType, SameMoney, config
    <3>5. row'.lease = w /\ row'.live = TRUE
      BY <1>t, <2>3 DEF RowType
    <3>6. Holding'
      BY <2>u, <2>2, <3>3, <3>5 DEF Holding, OneHunter
    <3> QED BY <2>u, <3>2, <3>4, <3>6, LeaseFrame
  <2>4. CASE /\ row' = [row EXCEPT !.lease = None, !.live = FALSE]
             /\ Pausing(w)
             /\ hunt' = [hunt EXCEPT ![w].stop = @ \/ hunt[w].at # "off"]
    <3> DEFINE s == hunt[w].stop \/ hunt[w].at # "off"
    <3>1. hunt' = [hunt EXCEPT ![w] = [hunt[w] EXCEPT !.stop = s]] /\ s \in BOOLEAN
      BY <1>t, <2>4 DEF HuntType
    <3> HIDE DEF s
    <3>2. /\ hunt' \in [Workers -> HuntType]
          /\ \A v \in Workers : \A f \in {"at", "call", "goal"} : hunt'[v][f] = hunt[v][f]
      <4>1. hunt[w] \in HuntType
        BY <1>t
      <4> QED BY <1>t, <3>1, <4>1 DEF HuntType
    <3>3. Settings'
      BY <1>t, <2>u, <2>4, SettingsKept
    <3>4. Types' /\ SameMoney
      <4>1. row' \in RowType
        BY <1>t, <2>4 DEF Types, RowType
      <4>2. Types'
        BY <1>t, <2>u, <3>2, <3>3, <4>1 DEF Types
      <4>3. SameMoney
        BY <1>t, <2>u, <2>4 DEF Types, RowType, SameMoney
      <4> QED BY <4>2, <4>3
    <3>5. Holding'
      BY <1>t, <2>u, <2>2, <3>2 DEF Holding, OneHunter
    <3> QED BY <2>u, <3>2, <3>4, <3>5, LeaseFrame
  <2> QED BY <1>6, <2>3, <2>4 DEF claim
<1>7. ASSUME NEW w \in Workers, Resume(w) PROVE SnipeInv'
  <2>1. /\ UNCHANGED <<row, invoice, tx, credit, name, dom, hunt, pass, ender, loose, alert, faults, halts, events>>
        /\ halted' = FALSE /\ view' = [view EXCEPT ![w] = FALSE]
    BY <1>7 DEF Resume
  <2>2. Settings'
    BY <1>t, <2>1, SettingsKept
  <2>3. Types' /\ SameMoney
    BY <1>t, <2>1, <2>2 DEF Types, SameMoney
  <2>4. Holding'
    BY <1>t, <2>1 DEF Holding, OneHunter
  <2> QED BY <2>1, <2>3, <2>4, LeaseFrame
<1> QED BY <1>1, <1>2, <1>3, <1>4, <1>5, <1>6, <1>7

LEMMA WorldActions ==
    ASSUME Constants, SnipeInv,
           \/ LandLoose \/ NameDrops \/ AddByHand
           \/ \E w \in Workers : Land(w) \/ Crash(w)
    PROVE  SnipeInv'
<1>t. /\ Types /\ hunt \in [Workers -> HuntType] /\ pass \in [Workers -> PassType] /\ Settings
      /\ Known /\ Account /\ Crossing /\ Recording /\ Holding /\ Owning
      /\ \A w \in Workers : HuntKnows(w) /\ PassKnows(w)
  BY DEF SnipeInv, Types, Known
<1>s. ASSUME UNCHANGED money PROVE Account' /\ (Started' <=> Started) /\ SameMoney
  <2>1. SameMoney
    BY <1>t, <1>s DEF SameMoney, money, Account
  <2> QED BY <1>t, <2>1, AccountSame
<1>1. CASE LandLoose
  <2>1. /\ loose /\ loose' = FALSE /\ name' = IF name = "free" THEN "ours" ELSE name
        /\ events' = events \cup When(name = "free" /\ Ending, "late")
        /\ UNCHANGED <<money, dom, hunt, pass, ender, halted, view, halts, alert, faults>>
    BY <1>1 DEF LandLoose, config
  <2>2. Types'
    BY <1>t, <2>1 DEF Types, Settings, money
  <2>3. /\ events \subseteq events' /\ (name = "ours" => name' = "ours")
        /\ \A e \in {"strayed", "lapsed"} : e \in events' => e \in events
    BY <2>1 DEF When
  <2>4. Known'
    BY <1>t, <1>s, <2>1, <2>3 DEF Known, HuntKnows, PassKnows, EnderKnows
  <2>5. Crossing' /\ Recording'
    BY <1>t, <1>s, <2>1, <2>3, CrossingFrame, RecordingFrame DEF money
  <2>6. Holding'
    BY <1>t, <2>1, <2>3 DEF Holding, OneHunter, money
  <2>7. Owning'
    <3>1. Open' <=> Open
      BY <2>1 DEF Open, Ending, money
    <3>2. \A w \in Workers : Carries(w)' <=> Carries(w)
      BY <2>1 DEF Carries
    <3>3. CASE name = "ours"
      BY <1>t, <2>1, <2>3, <3>1, <3>2, <3>3 DEF Owning, Told, Lost
    <3>4. CASE name = "free" /\ Ending
      BY <2>1, <3>4 DEF Owning, Lost, When
    <3>5. CASE name = "free" /\ ~Ending
      <4>1. row.status # None /\ row.status # "pending_payment" /\ row.status \notin Terminal
        BY <1>t, <2>1, <3>5 DEF Known, Started, Account, Ending
      <4>2. row.status = "active"
        BY <1>t, <4>1 DEF Types, RowType
      <4> QED BY <3>1, <3>5, <4>2 DEF Owning, Open
    <3>6. CASE name \notin {"free", "ours"}
      BY <2>1, <3>6 DEF Owning
    <3> QED BY <3>3, <3>4, <3>5, <3>6
  <2> QED BY <1>s, <2>1, <2>2, <2>4, <2>5, <2>6, <2>7 DEF SnipeInv
<1>2. CASE NameDrops
  <2>1. /\ name # "ours" /\ name' \in {"free", "taken"}
        /\ UNCHANGED <<money, dom, hunt, pass, ender, loose, halted, view, halts, alert, faults, events>>
    BY <1>2 DEF NameDrops, config
  <2>2. Types'
    BY <1>t, <2>1 DEF Types, Settings, money
  <2>3. Known'
    BY <1>t, <1>s, <2>1 DEF Known, HuntKnows, PassKnows, EnderKnows
  <2>4. Crossing' /\ Recording'
    BY <1>t, <1>s, <2>1, CrossingFrame, RecordingFrame DEF money
  <2>5. Holding' /\ Owning'
    BY <1>t, <2>1 DEF Holding, OneHunter, money, Owning
  <2> QED BY <1>s, <2>1, <2>2, <2>3, <2>4, <2>5 DEF SnipeInv
<1>3. CASE AddByHand
  <2>1. /\ row.status = "active" /\ dom' = "hand"
        /\ UNCHANGED <<money, name, hunt, pass, ender, loose, halted, view, halts, alert, faults, events>>
    BY <1>3 DEF AddByHand, config
  <2>2. Types'
    BY <1>t, <2>1 DEF Types, Settings, money
  <2>3. Known'
    BY <1>t, <1>s, <2>1 DEF Known, HuntKnows, PassKnows, EnderKnows
  <2>4. Crossing'
    BY <1>t, <1>s, <2>1, CrossingFrame DEF money
  <2>5. Recording'
    BY <2>1 DEF Recording, WonIsOurs, RefundedIsKnown, money
  <2>6. Holding' /\ Owning'
    BY <1>t, <2>1 DEF Holding, OneHunter, money, Owning, Told, None
  <2> QED BY <1>s, <2>1, <2>2, <2>3, <2>4, <2>5, <2>6 DEF SnipeInv
<1>4. ASSUME NEW w \in Workers, Land(w) PROVE SnipeInv'
  <2> DEFINE c == IF name = "free" THEN "won" ELSE "lost"
             h == [hunt[w] EXCEPT !.call = c]
  <2>1. /\ hunt[w].call = "sent" /\ name' = IF name = "free" THEN "ours" ELSE name
        /\ hunt' = [hunt EXCEPT ![w] = h]
        /\ UNCHANGED <<money, dom, pass, ender, loose, halted, view, halts, alert, faults, events>>
    BY <1>4 DEF Land, Goto, config
  <2>2. /\ h \in HuntType /\ h.call = c /\ h.at = "sent" /\ hunt[w].at = "sent"
    BY <1>t, <2>1 DEF HuntType, HuntKnows, None
  <2>3. /\ hunt' \in [Workers -> HuntType] /\ hunt'[w].call = c /\ hunt'[w].at = "sent"
        /\ \A v \in Workers \ {w} : hunt'[v] = hunt[v]
    BY <1>t, <2>1, <2>2
  <2> HIDE DEF h
  <2>4. Types'
    BY <1>t, <2>1, <2>3 DEF Types, Settings, money
  <2>5. name = "ours" => name' = "ours"
    BY <2>1
  <2>6. Known'
    <3>1. HuntKnows(w)'
      BY <1>t, <1>s, <2>1, <2>2, <2>3 DEF HuntKnows
    <3>2. PassKnows(w)'
      BY <1>t, <1>s, <2>1, <2>5 DEF PassKnows
    <3> QED BY <1>t, <1>s, <2>1, <2>3, <2>5, <3>1, <3>2, KnownFrame DEF Known
  <2>7. Crossing' /\ Recording'
    BY <1>t, <1>s, <2>1, <2>5, CrossingFrame, RecordingFrame DEF money
  <2>8. \A v \in Workers : hunt'[v].at = hunt[v].at
    BY <2>2, <2>3
  <2>9. Holding'
    BY <1>t, <2>1, <2>8 DEF Holding, OneHunter, money
  <2>10. Owning'
    <3>1. Open' <=> Open
      BY <2>1, <2>8 DEF Open, Ending, money
    <3>2. \A v \in Workers : Carries(v) => Carries(v)'
      BY <2>1, <2>2, <2>3, <2>8 DEF Carries
    <3>3. CASE name = "free"
      BY <2>3, <3>3 DEF Owning, Carries
    <3>4. CASE name = "ours"
      BY <1>t, <2>1, <3>1, <3>2, <3>4 DEF Owning, Told, Lost
    <3>5. CASE name \notin {"free", "ours"}
      BY <2>1, <3>5 DEF Owning
    <3> QED BY <3>3, <3>4, <3>5
  <2> QED BY <1>s, <2>1, <2>4, <2>6, <2>7, <2>9, <2>10 DEF SnipeInv
<1>5. ASSUME NEW w \in Workers, Crash(w) PROVE SnipeInv'
  <2>1. /\ Fault /\ LetGo(w) /\ hunt' = [hunt EXCEPT ![w] = NoHunt] /\ pass' = [pass EXCEPT ![w] = NoPass]
        /\ view' = [view EXCEPT ![w] = halted] /\ events' = events \cup {"crash"}
        /\ UNCHANGED <<money, name, dom, ender, halted, halts, alert>>
    BY <1>5 DEF Crash
  <2>2. /\ NoPass \in PassType /\ NoPass.at = "off"
        /\ loose' \in BOOLEAN /\ (loose' => loose \/ hunt[w].at = "sent")
    BY <1>t, <2>1 DEF NoPass, PassType, None, LetGo, HuntKnows, Types
  <2>3. Settings'
    BY <1>t, <2>1, SettingsKept DEF Settings
  <2>4. /\ hunt' \in [Workers -> HuntType] /\ hunt'[w] = NoHunt
        /\ pass' \in [Workers -> PassType] /\ pass'[w] = NoPass
        /\ \A v \in Workers \ {w} : hunt'[v] = hunt[v] /\ pass'[v] = pass[v]
    BY <1>t, <2>1, <2>2, NoHuntType
  <2>5. Types'
    BY <1>t, <2>1, <2>2, <2>3, <2>4 DEF Types, money
  <2>6. Known'
    <3>1. HuntKnows(w)' /\ PassKnows(w)'
      BY <2>2, <2>4, NoHuntType DEF HuntKnows, PassKnows, None
    <3>2. loose' => Started'
      BY <1>t, <1>s, <2>1, <2>2 DEF Known, HuntKnows
    <3> QED BY <1>t, <1>s, <2>1, <2>4, <3>1, <3>2, KnownFrame
  <2>7. Crossing' /\ Recording'
    BY <1>t, <1>s, <2>1, CrossingFrame, RecordingFrame DEF money
  <2>8. Holding'
    BY <1>t, <2>1, <2>4, NoHuntType DEF Holding, OneHunter, money
  <2>9. Owning'
    BY <2>1 DEF Owning, Lost
  <2> QED BY <1>s, <2>1, <2>5, <2>6, <2>7, <2>8, <2>9 DEF SnipeInv
<1> QED BY <1>1, <1>2, <1>3, <1>4, <1>5

\* The end of a snipe that was active: its money goes by the rules of refundFor.
LEMMA ActiveEndsWell ==
    ASSUME Constants, Types, Account, Recording, NEW to \in Terminal, NEW fee \in BOOLEAN,
           row.status = "active", Finished("active", to, fee), invoice' = invoice
    PROVE  /\ row' \in RowType /\ credit' \in Nat /\ Account' /\ Started /\ Started'
           /\ row'.status = to /\ (to = "won" => credit' = 0)
<1>1. /\ row \in RowType /\ row.domain \in Nat /\ row.fee \in Nat /\ Started /\ credit = 0 /\ row.refund = 0
      /\ row.paid \/ (invoice = None /\ row.domain = 0 /\ row.fee = 0)
      /\ row.paid => invoice = "paid"
  BY DEF Types, RowType, Account, MoneySettled, Started, Terminal
<1> DEFINE back == refundFor("active", to, fee)
<1>2. /\ back \in Nat
      /\ to = "won" => back = 0
      /\ to = "expired" => back = row.domain
      /\ to = "cancelled" => back \in {row.domain, row.domain + row.fee}
      /\ to = "failed" => back = row.domain + row.fee
      /\ row.domain = 0 /\ row.fee = 0 => back = 0
  BY <1>1 DEF refundFor, Terminal
<1>3. row' = [row EXCEPT !.status = to, !.refund = back, !.lease = None, !.live = FALSE] /\ credit' = credit + back
  BY DEF Finished
<1> HIDE DEF back
<1>4. /\ row' \in RowType /\ row'.status = to /\ row'.refund = back /\ row'.lease = None
      /\ row'.domain = row.domain /\ row'.fee = row.fee /\ row'.paid = row.paid
      /\ credit' = back /\ credit' \in Nat
  <2>1. credit' = back /\ credit' \in Nat
    BY <1>1, <1>2, <1>3
  <2>2. row' \in RowType
    BY <1>1, <1>2, <1>3 DEF RowType
  <2> QED BY <1>1, <1>3, <2>1, <2>2 DEF RowType
<1>5. Started'
  BY <1>1, <1>4 DEF Started, Terminal, None
<1>6. MoneySettled'
  <2>1. CASE row.paid
    BY <1>2, <1>4, <2>1 DEF MoneySettled, Terminal
  <2>2. CASE ~row.paid
    BY <1>1, <1>2, <1>4, <2>2 DEF MoneySettled, None
  <2> QED BY <2>1, <2>2
<1>7. Account'
  BY <1>1, <1>4, <1>5, <1>6 DEF Account, Terminal, None
<1> QED BY <1>1, <1>2, <1>4, <1>5, <1>7

\* Recording a win: the domain has its row afterwards, and somebody was told if
\* the client had been given the money back.
LEMMA RecordedWell ==
    ASSUME Constants, Types, Account, Recording, Started, name = "ours", RecordWin,
           invoice' = invoice, name' = name
    PROVE  /\ row' \in RowType /\ credit' \in Nat /\ dom' \in {"hunt", "hand"} /\ alert' \in BOOLEAN
           /\ Account' /\ Recording' /\ Started' /\ (alert => alert')
           /\ row' = row \/ row'.status = "won"
<1>t. row \in RowType /\ credit \in Nat /\ dom \in {None, "hunt", "hand"} /\ alert \in BOOLEAN
  BY DEF Types
<1>1. CASE row.status = "active" /\ Finished("active", "won", FALSE) /\ alert' = alert /\ dom' \in {"hunt", "hand"}
  <2>1. /\ row' \in RowType /\ credit' \in Nat /\ Account' /\ Started' /\ row'.status = "won" /\ credit' = 0
    BY <1>1, ActiveEndsWell DEF Terminal
  <2>2. Recording'
    BY <1>1, <2>1 DEF Recording, WonIsOurs, RefundedIsKnown, None
  <2> QED BY <1>t, <1>1, <2>1, <2>2
<1>2. CASE row' = row /\ credit' = credit /\ alert' = alert /\ dom' = dom /\ dom # None
  <2>1. SameMoney
    BY <1>2 DEF SameMoney, Account
  <2>2. Account' /\ (Started' <=> Started)
    BY <2>1, AccountSame
  <2>3. Recording'
    BY <1>2, <2>1, <2>2, RecordingFrame
  <2> QED BY <1>t, <1>2, <2>2, <2>3
<1>3. CASE row' = row /\ credit' = credit /\ alert' = TRUE /\ dom' = "hunt" /\ row.status # "active"
  <2>1. SameMoney
    BY <1>3 DEF SameMoney, Account
  <2>2. Account' /\ (Started' <=> Started)
    BY <2>1, AccountSame
  <2>3. Recording'
    BY <1>3, <2>2 DEF Recording, WonIsOurs, RefundedIsKnown, None
  <2> QED BY <1>t, <1>3, <2>2, <2>3
<1>4. CASE dom # None
  <2>1. adoptExisting
    BY <1>4 DEF RecordWin
  <2> QED BY <1>t, <1>1, <1>2, <1>4, <2>1 DEF adoptExisting, finish, CanFinish
<1>5. CASE dom = None
  BY <1>1, <1>3, <1>5 DEF RecordWin, recordWin, lateWin
<1> QED BY <1>4, <1>5

LEMMA RecordFailsWell ==
    ASSUME Types, Recording, RecordFails, SameMoney, Started' <=> Started, name' = name
    PROVE  /\ alert' \in BOOLEAN /\ (alert => alert') /\ dom' = dom /\ Recording'
           /\ row.status # "active" => alert'
<1>1. alert' = (alert \/ row.status # "active") /\ dom' = dom
  BY DEF RecordFails
<1>2. alert' \in BOOLEAN /\ (alert => alert') /\ (row.status # "active" => alert')
  BY <1>1 DEF Types
<1> QED BY <1>1, <1>2, RecordingFrame

LEMMA EndedRecording ==
    ASSUME Recording, row.status = "active", row'.status \in Terminal \ {"won"},
           UNCHANGED <<name, dom>>
    PROVE  Recording'
BY DEF Recording, WonIsOurs, RefundedIsKnown, Terminal

LEMMA WinKeeps ==
    ASSUME Constants, SnipeInv, NEW w \in Workers, Win(w)
    PROVE  SnipeInv'
<1>t. /\ Types /\ row \in RowType /\ hunt \in [Workers -> HuntType] /\ Settings /\ faults \in Nat
      /\ Known /\ Account /\ Crossing /\ Recording /\ Holding
      /\ HuntKnows(w) /\ PassKnows(w) /\ (loose => Started)
  BY DEF SnipeInv, Types, Known, Settings
<1>u. /\ hunt[w].at = "record"
      /\ events' = events \cup When(faults' # faults /\ row.status = "active", "unstored")
      /\ UNCHANGED <<invoice, tx, pass, ender, name, loose, halted, view, halts>>
  BY DEF Win, win, registrar, config
<1>k. /\ Started /\ name = "ours" /\ hunt[w].call = None /\ events \subseteq events'
      /\ \A e \in {"strayed", "lapsed"} : e \in events' => e \in events
  BY <1>t, <1>u DEF HuntKnows, When
<1>c. Crossing'
  BY <1>t, <1>u, <1>k, CrossingFrame
<1>1. CASE RecordWin /\ hunt' = [hunt EXCEPT ![w] = NoHunt] /\ UNCHANGED faults
  <2>1. /\ row' \in RowType /\ credit' \in Nat /\ dom' \in {"hunt", "hand"} /\ alert' \in BOOLEAN
        /\ Account' /\ Recording' /\ Started'
        /\ row' = row \/ row'.status = "won"
    BY <1>t, <1>u, <1>k, <1>1, RecordedWell
  <2>2. /\ hunt' \in [Workers -> HuntType] /\ hunt'[w] = NoHunt
        /\ \A v \in Workers \ {w} : hunt'[v] = hunt[v]
    BY <1>t, <1>1, NoHuntType
  <2>3. Types'
    BY <1>t, <1>u, <1>1, <2>1, <2>2 DEF Types, Settings
  <2>4. Known'
    <3>1. HuntKnows(w)' /\ PassKnows(w)'
      BY <1>t, <1>u, <2>1, <2>2, NoHuntType DEF HuntKnows, PassKnows, None
    <3> QED BY <1>t, <1>u, <2>1, <2>2, <3>1, KnownFrame
  <2>5. Holding'
    BY <1>t, <1>k, <2>1, <2>2, NoHuntType DEF Holding, OneHunter
  <2>6. Owning'
    BY <2>1 DEF Owning, Told, None
  <2> QED BY <1>c, <2>1, <2>3, <2>4, <2>5, <2>6 DEF SnipeInv
<1>2. ASSUME NEW h \in HuntType, Fault, RecordFails, hunt' = [hunt EXCEPT ![w] = h],
             h.at \in {"off", "loop"}, h.call = None,
             row' = IF h.at = "off" THEN Released(w, row) ELSE row
      PROVE  SnipeInv'
  <2>1. /\ row' \in RowType
        /\ \A f \in {"status", "domain", "fee", "refund", "paid"} : row'[f] = row[f]
        /\ row' = row \/ (h.at = "off" /\ row.lease = w /\ row'.lease = None)
    BY <1>t, <1>2 DEF Released, RowType
  <2>2. SameMoney
    BY <1>t, <1>u, <1>2, <2>1 DEF SameMoney, Account, RecordFails
  <2>3. Account' /\ (Started' <=> Started)
    BY <1>t, <2>2, AccountSame
  <2>4. alert' \in BOOLEAN /\ dom' = dom /\ Recording' /\ (row.status # "active" => alert')
    BY <1>t, <1>u, <1>2, <2>2, <2>3, RecordFailsWell
  <2>5. /\ hunt' \in [Workers -> HuntType] /\ hunt'[w] = h
        /\ \A v \in Workers \ {w} : hunt'[v] = hunt[v]
    BY <1>t, <1>2
  <2>6. Types'
    <3>1. Settings'
      BY <1>t, <1>u, <1>2, SettingsKept
    <3> QED BY <1>t, <1>u, <2>1, <2>2, <2>4, <2>5, <3>1 DEF Types, SameMoney
  <2>7. Known'
    <3>1. HuntKnows(w)' /\ PassKnows(w)'
      BY <1>t, <1>u, <1>k, <1>2, <2>3, <2>5 DEF HuntKnows, PassKnows, None
    <3> QED BY <1>t, <1>u, <2>3, <2>5, <3>1, KnownFrame
  <2>8. Holding'
    <3>1. \A v \in Workers : hunt'[v].at # "off" => hunt[v].at # "off"
      BY <1>u, <2>5
    <3>2. OneHunter'
      BY <1>t, <1>k, <3>1 DEF Holding, OneHunter
    <3>3. ASSUME "lapsed" \notin events', row'.status = "active", NEW v \in Workers, hunt'[v].at # "off"
          PROVE  row'.lease = v /\ row'.live
      BY <1>t, <1>k, <2>1, <2>5, <3>1, <3>3 DEF Holding
    <3> QED BY <3>2, <3>3 DEF Holding
  <2>9. Owning'
    <3>1. CASE row.status = "active"
      <4>1. faults' # faults
        BY <1>t, <1>2 DEF Fault
      <4> QED BY <1>u, <3>1, <4>1 DEF Owning, Lost, When
    <3>2. CASE row.status # "active"
      BY <2>4, <3>2 DEF Owning, Told
    <3> QED BY <3>1, <3>2
  <2> QED BY <1>c, <2>3, <2>4, <2>6, <2>7, <2>8, <2>9 DEF SnipeInv
<1>3. CASE /\ Fault /\ RecordFails
           /\ Goto(w, [hunt[w] EXCEPT !.at = "loop", !.verify = TRUE, !.goal = None]) /\ UNCHANGED row
  <2> DEFINE h == [hunt[w] EXCEPT !.at = "loop", !.verify = TRUE, !.goal = None]
  <2>1. h \in HuntType /\ h.at = "loop" /\ h.call = None
    BY <1>t, <1>k DEF HuntType, None
  <2>2. hunt' = [hunt EXCEPT ![w] = h] /\ row' = row
    BY <1>3 DEF Goto
  <2> HIDE DEF h
  <2> QED BY <1>2, <1>3, <2>1, <2>2
<1>4. CASE Fault /\ RecordFails /\ EndHunt(w)
  BY <1>2, <1>4, NoHuntType DEF EndHunt
<1> QED BY <1>1, <1>3, <1>4 DEF Win, win

LEMMA EndByHuntKeeps ==
    ASSUME Constants, SnipeInv, NEW w \in Workers, EndByHunt(w)
    PROVE  SnipeInv'
<1>t. /\ Types /\ row \in RowType /\ hunt \in [Workers -> HuntType] /\ Settings
      /\ Known /\ Account /\ Crossing /\ Recording /\ Holding /\ Owning
      /\ HuntKnows(w) /\ PassKnows(w) /\ (loose => Started)
  BY DEF SnipeInv, Types, Known
<1>u. /\ hunt[w].at = "end" /\ hunt' = [hunt EXCEPT ![w] = NoHunt]
      /\ UNCHANGED <<invoice, tx, dom, pass, ender, alert, name, loose, halted, view, halts, faults, events>>
  BY DEF EndByHunt, registrar, config
<1>k. hunt[w].goal \in {"failed", "expired"} /\ ~Carries(w)
  BY <1>t, <1>u DEF HuntKnows, Carries, None
<1>1. CASE row' = Released(w, row) /\ UNCHANGED credit
  <2>1. HuntMove(w, NoHunt)
    BY <1>u, <1>k, <1>1, EndHuntMoves DEF EndHunt, Offstage
  <2> QED BY <1>t, <1>u, <2>1, HuntMoveKeeps DEF Settings
<1>2. CASE row.status = "active" /\ Finished("active", hunt[w].goal, FALSE)
  <2>1. /\ row' \in RowType /\ credit' \in Nat /\ Account' /\ Started'
        /\ row'.status = hunt[w].goal
    BY <1>t, <1>u, <1>k, <1>2, ActiveEndsWell DEF Terminal
  <2>2. /\ hunt' \in [Workers -> HuntType] /\ hunt'[w] = NoHunt
        /\ \A v \in Workers \ {w} : hunt'[v] = hunt[v]
    BY <1>t, <1>u, NoHuntType
  <2>3. Types'
    BY <1>t, <1>u, <2>1, <2>2 DEF Types, Settings
  <2>4. Known'
    <3>1. HuntKnows(w)' /\ PassKnows(w)'
      BY <1>t, <1>u, <2>1, <2>2, NoHuntType DEF HuntKnows, PassKnows, None
    <3> QED BY <1>t, <1>u, <2>1, <2>2, <3>1, KnownFrame
  <2>5. Crossing' /\ Recording'
    BY <1>t, <1>u, <1>k, <1>2, <2>1, CrossingFrame, EndedRecording DEF Terminal
  <2>6. Holding'
    BY <1>t, <1>u, <1>k, <2>1, <2>2, NoHuntType DEF Holding, OneHunter
  <2>7. Owning'
    <3>1. ~Open
      BY <1>u DEF Open, Ending
    <3>2. \A v \in Workers : Carries(v) => Carries(v)'
      BY <1>k, <2>2 DEF Carries
    <3> QED BY <1>t, <1>u, <3>1, <3>2 DEF Owning, Told, Lost
  <2> QED BY <2>1, <2>3, <2>4, <2>5, <2>6, <2>7 DEF SnipeInv
<1> QED BY <1>1, <1>2 DEF EndByHunt, CanFinish

LEMMA PassKeeps ==
    ASSUME Constants, SnipeInv, NEW w \in Workers, Pass(w)
    PROVE  SnipeInv'
<1>t. /\ Types /\ row \in RowType /\ credit \in Nat /\ pass \in [Workers -> PassType] /\ pass[w] \in PassType
      /\ dom \in {None, "hunt", "hand"} /\ alert \in BOOLEAN /\ Settings
      /\ Known /\ Account /\ Crossing /\ Recording /\ Holding /\ Owning
      /\ HuntKnows(w) /\ PassKnows(w) /\ (loose => Started)
  BY DEF SnipeInv, Types, Known
<1>u. UNCHANGED <<invoice, tx, hunt, ender, name, loose, halted, view, halts, events>>
  BY DEF Pass, registrar, config
<1>f. ASSUME NEW p \in PassType, pass' = [pass EXCEPT ![w] = p], faults' = faults \/ Fault,
             p.at # "off" => Started /\ p.goal \in {"failed", "expired"},
             p.at = "record" => name = "ours",
             p.at = "end" => name # "ours",
             row' \in RowType, credit' \in Nat, dom' \in {None, "hunt", "hand"}, alert' \in BOOLEAN,
             Account', Recording', Started => Started', Told => Told',
             row' = row \/ (row'.status # "active" /\ (Ending \/ Told'))
      PROVE  SnipeInv'
  <2>1. /\ pass' \in [Workers -> PassType] /\ pass'[w] = p
        /\ \A v \in Workers \ {w} : pass'[v] = pass[v]
    BY <1>t, <1>f
  <2>2. Settings'
    BY <1>t, <1>u, <1>f, SettingsKept
  <2>3. Types'
    BY <1>t, <1>u, <1>f, <2>1, <2>2 DEF Types
  <2>4. Known'
    <3>1. HuntKnows(w)' /\ PassKnows(w)'
      BY <1>t, <1>u, <1>f, <2>1 DEF HuntKnows, PassKnows
    <3> QED BY <1>t, <1>u, <1>f, <2>1, <3>1, KnownFrame
  <2>5. Crossing'
    BY <1>t, <1>u, CrossingFrame
  <2>6. Holding'
    BY <1>t, <1>u, <1>f DEF Holding, OneHunter
  <2>7. Owning'
    <3>1. (\A v \in Workers : Carries(v)' <=> Carries(v)) /\ (Lost' <=> Lost)
      BY <1>u DEF Carries, Lost
    <3>2. name = "ours" /\ Open => Open' \/ Told'
      BY <1>u, <1>f, <2>1 DEF Open, Ending
    <3> QED BY <1>t, <1>u, <1>f, <3>1, <3>2 DEF Owning
  <2> QED BY <1>f, <2>3, <2>4, <2>5, <2>6, <2>7 DEF SnipeInv
<1>s. ASSUME row' = row, credit' = credit PROVE SameMoney /\ Account' /\ (Started' <=> Started)
  <2>1. SameMoney
    BY <1>t, <1>u, <1>s DEF SameMoney, Account
  <2> QED BY <1>t, <2>1, AccountSame
<1>n. NoPass \in PassType /\ NoPass.at = "off"
  BY DEF NoPass, PassType, None
<1>1. CASE /\ pass[w].at = "off" /\ ListExpirable
           /\ pass' = [pass EXCEPT ![w] = [at |-> "settle", goal |-> IF view[w] THEN "failed" ELSE "expired"]]
           /\ UNCHANGED <<row, credit, dom, alert, faults>>
  <2> DEFINE p == [at |-> "settle", goal |-> IF view[w] THEN "failed" ELSE "expired"]
  <2>1. p \in PassType /\ p.at = "settle" /\ p.goal \in {"failed", "expired"} /\ Started
    BY <1>t, <1>1 DEF PassType, ListExpirable, Account
  <2>2. pass' = [pass EXCEPT ![w] = p]
    BY <1>1
  <2> HIDE DEF p
  <2>3. Recording' /\ Account' /\ (Started' <=> Started)
    BY <1>t, <1>u, <1>s, <1>1, RecordingFrame
  <2> QED BY <1>t, <1>1, <1>f, <2>1, <2>2, <2>3 DEF Told
<1>2. CASE /\ pass[w].at = "settle"
           /\ \E answer \in {"ours", "not", "unknown"} :
                /\ Lookup(answer)
                /\ pass' = [pass EXCEPT ![w] =
                      IF answer = "ours" THEN [@ EXCEPT !.at = "record"]
                      ELSE IF MayEnd(answer) THEN [@ EXCEPT !.at = "end"] ELSE NoPass]
           /\ UNCHANGED <<row, credit, dom, alert>>
  <2>1. PICK answer \in {"ours", "not", "unknown"} :
                /\ Lookup(answer)
                /\ pass' = [pass EXCEPT ![w] =
                      IF answer = "ours" THEN [@ EXCEPT !.at = "record"]
                      ELSE IF MayEnd(answer) THEN [@ EXCEPT !.at = "end"] ELSE NoPass]
    BY <1>2
  <2> DEFINE p == IF answer = "ours" THEN [pass[w] EXCEPT !.at = "record"]
                  ELSE IF MayEnd(answer) THEN [pass[w] EXCEPT !.at = "end"] ELSE NoPass
  <2>2. pass' = [pass EXCEPT ![w] = p]
    BY <1>t, <2>1
  <2>3. /\ p \in PassType /\ (p.at = "record" => answer = "ours") /\ (p.at = "end" => answer = "not")
        /\ p.at # "off" => p.goal = pass[w].goal
    BY <1>t, <1>n DEF PassType, MayEnd
  <2> HIDE DEF p
  <2>4. /\ p.at = "record" => name = "ours"
        /\ p.at = "end" => name # "ours"
        /\ faults' = faults \/ Fault
        /\ p.at # "off" => Started /\ p.goal \in {"failed", "expired"}
    BY <1>t, <1>2, <2>1, <2>3, LookupTells DEF PassKnows
  <2>5. Recording' /\ Account' /\ (Started' <=> Started)
    BY <1>t, <1>u, <1>s, <1>2, RecordingFrame
  <2> QED BY <1>t, <1>2, <1>f, <2>2, <2>3, <2>4, <2>5 DEF Told
<1>3. CASE /\ pass[w].at = "record"
           /\ pass' = [pass EXCEPT ![w] = NoPass]
           /\ \/ RecordWin /\ UNCHANGED faults
              \/ Fault /\ RecordFails /\ UNCHANGED row
  <2>1. Started /\ name = "ours"
    BY <1>t, <1>3 DEF PassKnows
  <2>2. CASE RecordWin /\ UNCHANGED faults
    <3>1. /\ row' \in RowType /\ credit' \in Nat /\ dom' \in {"hunt", "hand"} /\ alert' \in BOOLEAN
          /\ Account' /\ Recording' /\ Started' /\ (row' = row \/ row'.status = "won")
      BY <1>t, <1>u, <2>1, <2>2, RecordedWell
    <3>2. Told'
      BY <3>1 DEF Told, None
    <3> QED BY <1>n, <1>3, <1>f, <2>2, <3>1, <3>2
  <2>3. CASE Fault /\ RecordFails /\ UNCHANGED row
    <3>1. SameMoney /\ Account' /\ (Started' <=> Started)
      BY <1>s, <2>3 DEF RecordFails
    <3>2. alert' \in BOOLEAN /\ dom' = dom /\ Recording' /\ (alert => alert')
      BY <1>t, <1>u, <2>3, <3>1, RecordFailsWell
    <3>3. credit' = credit /\ (Told => Told')
      BY <2>3, <3>2 DEF RecordFails, Told
    <3> QED BY <1>t, <1>n, <1>3, <1>f, <2>3, <3>1, <3>2, <3>3
  <2> QED BY <1>3, <2>2, <2>3
<1>4. CASE /\ pass[w].at = "end"
           /\ finish("active", pass[w].goal, FALSE, Idle)
           /\ pass' = [pass EXCEPT ![w] = NoPass]
           /\ UNCHANGED <<dom, alert, faults>>
  <2>1. pass[w].goal \in {"failed", "expired"} /\ Ending
    BY <1>t, <1>4 DEF PassKnows, Ending
  <2>2. CASE UNCHANGED <<row, credit>>
    <3>1. Recording' /\ Account' /\ (Started' <=> Started)
      BY <1>t, <1>u, <1>s, <1>4, <2>2, RecordingFrame
    <3> QED BY <1>t, <1>n, <1>4, <1>f, <2>2, <3>1 DEF Told
  <2>3. CASE row.status = "active" /\ Finished("active", pass[w].goal, FALSE)
    <3>1. /\ row' \in RowType /\ credit' \in Nat /\ Account' /\ Started'
          /\ row'.status = pass[w].goal
      BY <1>t, <1>u, <2>1, <2>3, ActiveEndsWell DEF Terminal
    <3>2. Recording'
      BY <1>t, <1>u, <1>4, <2>1, <2>3, <3>1, EndedRecording DEF Terminal
    <3> QED BY <1>t, <1>n, <1>4, <1>f, <2>1, <3>1, <3>2 DEF Told
  <2> QED BY <1>4, <2>2, <2>3 DEF finish, CanFinish
<1> QED BY <1>1, <1>2, <1>3, <1>4 DEF Pass

\* An order or a payment changes nothing of a snipe that has started.
LEMMA MoneyFrame ==
    ASSUME Constants, SnipeInv, Types', Account', Crossing',
           UNCHANGED <<name, dom, hunt, pass, ender, loose, alert>>,
           events \subseteq events', "lapsed" \in events' => "lapsed" \in events,
           Started => row' = row /\ credit' = credit /\ invoice' = invoice,
           row'.status = "won" => row.status = "won"
    PROVE  SnipeInv'
<1>t. /\ Known /\ Account /\ Recording /\ Holding /\ Owning
      /\ \A w \in Workers : HuntKnows(w) /\ PassKnows(w)
  BY DEF SnipeInv, Known
<1>1. Started => Started'
  BY DEF Started
<1>2. Known'
  BY <1>t, <1>1 DEF Known, HuntKnows, PassKnows, EnderKnows
<1>3. CASE Started
  <2>1. Recording'
    BY <1>t, <1>1, <1>3 DEF Recording, WonIsOurs, RefundedIsKnown
  <2>2. Holding'
    BY <1>t, <1>3 DEF Holding, OneHunter
  <2>3. Owning'
    <3>1. (Open' <=> Open) /\ (Told' <=> Told) /\ (Lost => Lost')
          /\ \A w \in Workers : Carries(w)' <=> Carries(w)
      BY <1>3 DEF Open, Ending, Told, Lost, Carries
    <3> QED BY <1>t, <3>1 DEF Owning
  <2> QED BY <1>2, <2>1, <2>2, <2>3 DEF SnipeInv
<1>4. CASE ~Started
  <2>1. /\ \A w \in Workers : hunt[w].at = "off" /\ ~Carries(w)
        /\ dom # "hunt" /\ row.status # "active" /\ row.status # "won"
    BY <1>t, <1>4 DEF HuntKnows, Carries, None, Recording, Account
  <2>2. Recording'
    BY <1>t, <2>1 DEF Recording, WonIsOurs, RefundedIsKnown
  <2>3. Holding'
    BY <2>1 DEF Holding, OneHunter
  <2>4. Owning'
    BY <1>t, <2>1 DEF Owning, Told, Open, Lost
  <2> QED BY <1>2, <2>2, <2>3, <2>4 DEF SnipeInv
<1> QED BY <1>3, <1>4

\* Only an invoice that was not paid can lapse or be voided.
LEMMA InvoiceCloses ==
    ASSUME Types, Account, Payable, invoice' \in {"overdue", "cancelled"}, UNCHANGED <<row, credit>>
    PROVE  Account' /\ ~Started /\ ~Started'
<1>1. invoice \notin {None, "paid"} /\ invoice' \notin {None, "paid"} /\ ~row.paid
  BY DEF Payable, Account, None
<1>2. ~Started /\ ~Started'
  BY <1>1 DEF Started
<1>3. MoneySettled'
  BY <1>1 DEF Account, MoneySettled
<1> QED BY <1>1, <1>2, <1>3 DEF Account

LEMMA MoneyActions ==
    ASSUME Constants, SnipeInv,
           \/ Create \/ AdminCreate \/ InitiatePayment \/ PaymentLapses \/ Pay
           \/ InvoiceLapses \/ CancelInvoice
    PROVE  SnipeInv'
<1>t. /\ Types /\ row \in RowType /\ credit \in Nat /\ tx \in BOOLEAN /\ Settings
      /\ invoice \in {None, "unpaid", "overdue", "paid", "cancelled"}
      /\ Account /\ Crossing /\ MoneySettled
  BY DEF SnipeInv, Types, Account
<1>s. ASSUME UNCHANGED <<row, credit, invoice>> PROVE Account'
  <2>1. SameMoney
    BY <1>t, <1>s DEF SameMoney, Account
  <2> QED BY <1>t, <2>1, AccountSame
<1>1. CASE Create
  <2>1. /\ row.status = None /\ invoice' = "unpaid"
        /\ row' = [row EXCEPT !.status = "pending_payment", !.domain = DomainPrice, !.fee = Fee]
        /\ UNCHANGED <<tx, credit, name, dom, hunt, pass, ender, loose, halted, view, alert, faults, halts, events>>
    BY <1>1 DEF Create
  <2>2. /\ row' \in RowType /\ row'.status = "pending_payment" /\ row'.domain = DomainPrice /\ row'.fee = Fee
        /\ row'.lease = row.lease /\ row'.refund = row.refund /\ row'.paid = row.paid
    BY <1>t, <2>1 DEF RowType, Constants
  <2>3. ~row.paid /\ invoice = None /\ row.lease = None /\ ~Started /\ ~Started'
    BY <1>t, <2>1, <2>2 DEF Account, Started, None
  <2>4. Types'
    BY <1>t, <2>1, <2>2 DEF Types, Settings
  <2>5. credit = 0 /\ row.refund = 0
    BY <1>t, <2>1, <2>3 DEF MoneySettled, None
  <2>6. MoneySettled'
    BY <2>1, <2>2, <2>3, <2>5 DEF MoneySettled
  <2>7. Account'
    BY <2>1, <2>2, <2>3, <2>6 DEF Account, None, Terminal
  <2>8. tx => "crossed" \in events
    BY <1>t, <2>3 DEF Crossing, Payable, None
  <2>9. Crossing'
    BY <1>t, <2>1, <2>8 DEF Crossing, NoStrayPayment
  <2> QED BY <2>1, <2>2, <2>3, <2>4, <2>7, <2>9, MoneyFrame
<1>2. CASE AdminCreate
  <2>1. /\ row.status = None /\ row' = [row EXCEPT !.status = "active"]
        /\ UNCHANGED <<invoice, tx, credit, name, dom, hunt, pass, ender, loose, halted, view, alert, faults, halts, events>>
    BY <1>2 DEF AdminCreate
  <2>2. /\ row' \in RowType /\ row'.status = "active" /\ row'.domain = row.domain /\ row'.fee = row.fee
        /\ row'.refund = row.refund /\ row'.paid = row.paid
    BY <1>t, <2>1 DEF RowType
  <2>3. ~row.paid /\ invoice = None /\ ~Started /\ Started'
    BY <1>t, <2>1, <2>2 DEF Account, Started, None
  <2>4. Types'
    BY <1>t, <2>1, <2>2 DEF Types, Settings
  <2>5. MoneySettled'
    BY <1>t, <2>1, <2>2, <2>3 DEF MoneySettled, None
  <2>6. Account'
    BY <1>t, <2>1, <2>2, <2>3, <2>5 DEF Account, None, Terminal
  <2>7. Crossing'
    BY <1>t, <2>1, CrossingFrame
  <2> QED BY <2>1, <2>2, <2>3, <2>4, <2>6, <2>7, MoneyFrame
<1>3. CASE InitiatePayment
  <2>1. /\ Payable /\ tx' = TRUE /\ events' = events \cup When(Voiding, "crossed")
        /\ UNCHANGED <<row, invoice, credit, name, dom, hunt, pass, ender, loose, halted, view, alert, faults, halts>>
    BY <1>3 DEF InitiatePayment
  <2>2. Types'
    BY <1>t, <2>1 DEF Types, Settings
  <2>3. /\ events \subseteq events' /\ (Voiding => "crossed" \in events')
        /\ \A e \in {"strayed", "lapsed"} : e \in events' => e \in events
    BY <2>1 DEF When
  <2>4. Crossing'
    BY <1>t, <2>1, <2>3 DEF Crossing, NoStrayPayment, Payable, Voiding
  <2> QED BY <1>s, <2>1, <2>2, <2>3, <2>4, MoneyFrame
<1>4. CASE PaymentLapses
  <2>1. /\ tx' = FALSE
        /\ UNCHANGED <<row, invoice, credit, name, dom, hunt, pass, ender, loose, halted, view, alert, faults, halts, events>>
    BY <1>4 DEF PaymentLapses
  <2>2. Types' /\ Crossing'
    BY <1>t, <2>1 DEF Types, Settings, Crossing, NoStrayPayment
  <2> QED BY <1>s, <2>1, <2>2, MoneyFrame
<1>5. CASE Pay
  <2>u. /\ tx /\ tx' = FALSE
        /\ UNCHANGED <<name, dom, hunt, pass, ender, loose, halted, view, alert, faults, halts>>
    BY <1>5 DEF Pay
  <2>1. CASE ~Payable
    <3>1. events' = events \cup {"strayed"} /\ UNCHANGED <<row, invoice, credit>>
      BY <1>5, <2>1 DEF Pay
    <3>2. "crossed" \in events
      BY <1>t, <2>u, <2>1 DEF Crossing
    <3>3. Types'
      BY <1>t, <2>u, <3>1 DEF Types, Settings
    <3>4. Crossing'
      BY <2>u, <3>1, <3>2 DEF Crossing, NoStrayPayment
    <3> QED BY <1>s, <2>u, <3>1, <3>3, <3>4, MoneyFrame
  <2>2. CASE Payable
    <3>1. invoice' = "paid" /\ ActivateSnipeAfterPayment /\ events' = events
      BY <1>5, <2>2 DEF Pay
    <3>2. ~row.paid /\ invoice \notin {None, "paid"} /\ ~Started
      BY <1>t, <2>2 DEF Payable, Account, Started, None
    <3>3. row.status = "pending_payment" \/ row.status = "cancelled"
      BY <1>t, <3>2 DEF Types, RowType, Account
    <3>4. row.refund = 0 /\ credit = 0
      BY <1>t, <3>2 DEF MoneySettled
    <3>5. Crossing'
      BY <1>t, <2>u, <3>1 DEF Crossing, NoStrayPayment
    <3>6. CASE row.status = "pending_payment"
      <4>1. row' = [row EXCEPT !.status = "active", !.paid = TRUE] /\ credit' = credit
        BY <3>1, <3>6 DEF ActivateSnipeAfterPayment
      <4>2. /\ row' \in RowType /\ row'.status = "active" /\ row'.paid /\ row'.refund = row.refund
            /\ row'.domain = row.domain /\ row'.fee = row.fee
        BY <1>t, <4>1 DEF RowType
      <4>3. Types'
        BY <1>t, <2>u, <3>1, <4>1, <4>2 DEF Types, Settings
      <4>4. Started' /\ MoneySettled'
        BY <3>1, <3>4, <4>1, <4>2 DEF MoneySettled, Started, None
      <4>5. Account'
        BY <1>t, <3>1, <4>2, <4>4 DEF Account, None, Terminal
      <4> QED BY <2>u, <3>1, <3>2, <3>5, <4>2, <4>3, <4>5, MoneyFrame
    <3>7. CASE row.status = "cancelled"
      <4> DEFINE amount == row.domain + row.fee
      <4>1. row' = [row EXCEPT !.refund = amount] /\ credit' = credit + amount /\ amount \in Nat
        BY <1>t, <3>1, <3>4, <3>7 DEF ActivateSnipeAfterPayment, refundLatePayment, RowType
      <4> HIDE DEF amount
      <4>2. /\ row' \in RowType /\ row'.status = "cancelled" /\ row'.paid = row.paid /\ row'.refund = amount
            /\ row'.domain = row.domain /\ row'.fee = row.fee /\ row'.lease = row.lease
            /\ credit' = amount /\ credit' \in Nat
        BY <1>t, <3>4, <3>7, <4>1 DEF RowType
      <4>3. Types'
        BY <1>t, <2>u, <3>1, <4>2 DEF Types, Settings
      <4>4. ~Started' /\ MoneySettled'
        BY <3>1, <3>2, <4>2 DEF MoneySettled, Started, None, amount
      <4>5. Account'
        BY <1>t, <3>1, <3>2, <3>7, <4>2, <4>4 DEF Account, None, Terminal
      <4> QED BY <2>u, <3>1, <3>2, <3>5, <4>2, <4>3, <4>5, MoneyFrame
    <3> QED BY <3>3, <3>6, <3>7
  <2> QED BY <2>1, <2>2
<1>6. CASE InvoiceLapses
  <2>1. /\ Payable /\ invoice' = "overdue"
        /\ UNCHANGED <<row, tx, credit, name, dom, hunt, pass, ender, loose, halted, view, alert, faults, halts, events>>
    BY <1>6 DEF InvoiceLapses, Payable
  <2>2. Types' /\ Crossing'
    BY <1>t, <2>1 DEF Types, Settings, Crossing, NoStrayPayment, Payable, Voiding
  <2>3. Account' /\ ~Started
    BY <1>t, <2>1, InvoiceCloses
  <2> QED BY <2>1, <2>2, <2>3, MoneyFrame
<1>7. CASE CancelInvoice
  <2>1. /\ Payable /\ invoice' = "cancelled" /\ events' = events \cup When(tx, "crossed")
        /\ UNCHANGED <<row, tx, credit, name, dom, hunt, pass, ender, loose, halted, view, alert, faults, halts>>
    BY <1>7 DEF CancelInvoice
  <2>2. Types'
    BY <1>t, <2>1 DEF Types, Settings
  <2>3. /\ events \subseteq events' /\ (tx => "crossed" \in events')
        /\ \A e \in {"strayed", "lapsed"} : e \in events' => e \in events
    BY <2>1 DEF When
  <2>4. Crossing'
    BY <1>t, <2>1, <2>3 DEF Crossing, NoStrayPayment
  <2>5. Account' /\ ~Started
    BY <1>t, <2>1, InvoiceCloses
  <2> QED BY <2>1, <2>2, <2>3, <2>4, <2>5, MoneyFrame
<1> QED BY <1>1, <1>2, <1>3, <1>4, <1>5, <1>6, <1>7

\* A step of a cancellation: the hunts go on, and a snipe that is ours and was
\* not being ended is not ended now.
LEMMA EnderFrame ==
    ASSUME Constants, SnipeInv, Types', Account', Crossing', Recording',
           UNCHANGED <<name, dom, hunt, pass, loose, alert, events>>,
           \A e \in Enders : EnderKnows(e)', Started => Started',
           row' = row \/ row'.status # "active",
           name = "ours" /\ Open => Open'
    PROVE  SnipeInv'
<1>t. Known /\ Holding /\ Owning
  BY DEF SnipeInv
<1>1. Known'
  BY <1>t DEF Known, HuntKnows, PassKnows
<1>2. Holding'
  BY <1>t DEF Holding, OneHunter
<1>3. Owning'
  BY <1>t DEF Owning, Told, Lost, Carries
<1> QED BY <1>1, <1>2, <1>3 DEF SnipeInv

LEMMA EnderActions ==
    ASSUME Constants, SnipeInv, NEW e \in Enders,
           \/ \E fee \in BOOLEAN : AskCancel(e, fee)
           \/ e = "sweep" /\ sweepStale
           \/ CancelSteps(e)
    PROVE  SnipeInv'
<1>t. /\ Types /\ row \in RowType /\ credit \in Nat /\ ender \in [Enders -> EnderType] /\ Settings
      /\ Account /\ Crossing /\ Recording /\ MoneySettled
      /\ \A f \in Enders : EnderKnows(f)
  BY DEF SnipeInv, Types, Account, Known
<1>n. NoEnder \in EnderType /\ NoEnder.at = "off"
  BY DEF NoEnder, EnderType, None
<1>s. ASSUME UNCHANGED <<row, credit, invoice, dom, name, alert>>
      PROVE  Account' /\ Recording' /\ (Started' <=> Started)
  <2>1. SameMoney
    BY <1>t, <1>s DEF SameMoney, Account
  <2>2. Account' /\ (Started' <=> Started)
    BY <1>t, <2>1, AccountSame
  <2> QED BY <1>t, <1>s, <2>1, <2>2, RecordingFrame
\* The cancellation goes on with d, which is not past a question it did not ask.
<1>f. ASSUME NEW d \in EnderType, ender' = [ender EXCEPT ![e] = d],
             d.at \in {"check", "finish"} => d.from # None,
             d.at = "finish" /\ d.from = "active" => name # "ours",
             tx => d.at # "voiding" \/ ender[e].at = "voiding",
             UNCHANGED <<row, invoice, tx, credit, name, dom, hunt, pass, loose, halted, view, alert, halts, events>>,
             faults' = faults \/ Fault
      PROVE  SnipeInv'
  <2>1. /\ ender' \in [Enders -> EnderType] /\ ender'[e] = d
        /\ \A f \in Enders \ {e} : ender'[f] = ender[f]
    BY <1>t, <1>f
  <2>2. faults' \in Nat
    BY <1>t, <1>f DEF Settings, Fault
  <2>3. Types'
    BY <1>t, <1>f, <2>1, <2>2 DEF Types, Settings
  <2>4. \A f \in Enders : EnderKnows(f)'
    BY <1>t, <1>f, <2>1 DEF EnderKnows
  <2>5. Crossing'
    BY <1>t, <1>f, <2>1 DEF Crossing, NoStrayPayment, Payable, Voiding
  <2>6. name = "ours" /\ Open => Open'
    BY <1>f, <2>1 DEF Open, Ending
  <2> QED BY <1>s, <1>f, <2>3, <2>4, <2>5, <2>6, EnderFrame
<1>1. ASSUME NEW fee \in BOOLEAN, AskCancel(e, fee) PROVE SnipeInv'
  <2> DEFINE d == [at |-> IF row.status = "active" THEN "check" ELSE "finish", from |-> row.status, fee |-> fee]
  <2>1. /\ ender' = [ender EXCEPT ![e] = d] /\ row.status \in {"pending_payment", "active"}
        /\ UNCHANGED <<row, invoice, tx, credit, name, dom, hunt, pass, loose, halted, view, alert, faults, halts, events>>
    BY <1>1 DEF AskCancel
  <2>2. /\ d \in EnderType /\ d.from # None /\ d.at # "voiding"
        /\ ~(d.at = "finish" /\ d.from = "active")
    BY <2>1 DEF EnderType, None
  <2> HIDE DEF d
  <2> QED BY <1>f, <2>1, <2>2
<1>2. CASE e = "sweep" /\ sweepStale
  <2> DEFINE d == [at |-> "finish", from |-> row.status, fee |-> FALSE]
  <2>1. /\ ender' = [ender EXCEPT ![e] = d] /\ row.status = "pending_payment"
        /\ UNCHANGED <<row, invoice, tx, credit, name, dom, hunt, pass, loose, halted, view, alert, faults, halts, events>>
    BY <1>2 DEF sweepStale
  <2>2. /\ d \in EnderType /\ d.from # None /\ d.at # "voiding"
        /\ ~(d.at = "finish" /\ d.from = "active")
    BY <2>1 DEF EnderType, None
  <2> HIDE DEF d
  <2> QED BY <1>f, <2>1, <2>2
<1>3. CASE ensureNotOwned(e)
  <2>1. PICK answer \in {"ours", "not", "unknown"} :
           /\ Lookup(answer)
           /\ ender' = [ender EXCEPT ![e] = IF AfterCheck(answer) = "off" THEN NoEnder ELSE [@ EXCEPT !.at = "finish"]]
    BY <1>3 DEF ensureNotOwned
  <2>u. /\ ender[e].at = "check"
        /\ UNCHANGED <<row, invoice, tx, credit, name, dom, hunt, pass, loose, halted, view, alert, halts, events>>
    BY <1>3 DEF ensureNotOwned
  <2>2. (faults' = faults \/ Fault) /\ (answer = "not" => name # "ours")
    BY <2>1, LookupTells
  <2>3. CASE answer = "not"
    <3> DEFINE d == [ender[e] EXCEPT !.at = "finish"]
    <3>1. ender' = [ender EXCEPT ![e] = d]
      BY <1>t, <2>1, <2>3 DEF AfterCheck
    <3>2. d \in EnderType /\ d.at = "finish" /\ d.from = ender[e].from /\ d.from # None
      BY <1>t, <2>u DEF EnderType, EnderKnows
    <3> HIDE DEF d
    <3> QED BY <1>f, <2>u, <2>2, <2>3, <3>1, <3>2
  <2>4. CASE answer # "not"
    <3>1. ender' = [ender EXCEPT ![e] = NoEnder]
      BY <1>t, <2>1, <2>4 DEF AfterCheck
    <3> QED BY <1>f, <1>n, <2>u, <2>2, <3>1
  <2> QED BY <2>3, <2>4
<1>4. CASE FinishCancel(e)
  <2> DEFINE d == ender[e]
             n == IF CanFinish(d.from, "cancelled", TRUE) /\ d.from = "pending_payment"
                  THEN [d EXCEPT !.at = "void"] ELSE NoEnder
  <2>1. /\ d.at = "finish" /\ finish(d.from, "cancelled", d.fee, TRUE) /\ ender' = [ender EXCEPT ![e] = n]
        /\ UNCHANGED <<invoice, tx, name, dom, hunt, pass, loose, halted, view, alert, faults, halts, events>>
    BY <1>4 DEF FinishCancel
  <2>2. d \in EnderType /\ d.from \in {"pending_payment", "active"} /\ d.fee \in BOOLEAN
    BY <1>t, <2>1 DEF EnderKnows, EnderType
  <2>3. n \in EnderType /\ n.at \in {"off", "void"}
    BY <1>n, <2>2 DEF EnderType
  <2> HIDE DEF n
  <2>4. /\ ender' \in [Enders -> EnderType] /\ ender'[e] = n
        /\ \A f \in Enders \ {e} : ender'[f] = ender[f]
    BY <1>t, <2>1, <2>3
  <2>5. \A f \in Enders : EnderKnows(f)'
    BY <1>t, <2>3, <2>4 DEF EnderKnows
  <2>6. Crossing'
    BY <1>t, <2>1, <2>3, <2>4 DEF Crossing, NoStrayPayment, Payable, Voiding
  <2>7. CASE UNCHANGED <<row, credit>>
    <3>1. Types'
      BY <1>t, <2>1, <2>4, <2>7 DEF Types, Settings
    <3>2. name = "ours" /\ Open => Open'
      BY <2>1, <2>3, <2>4, <2>7 DEF Open, Ending
    <3> QED BY <1>s, <2>1, <2>5, <2>6, <2>7, <3>1, <3>2, EnderFrame
  <2>8. CASE d.from = "active" /\ row.status = "active" /\ Finished("active", "cancelled", d.fee)
    <3>1. /\ row' \in RowType /\ credit' \in Nat /\ Account' /\ Started' /\ row'.status = "cancelled"
      BY <1>t, <2>1, <2>2, <2>8, ActiveEndsWell DEF Terminal
    <3>2. Recording'
      BY <1>t, <2>1, <2>8, <3>1, EndedRecording DEF Terminal
    <3>3. Types'
      BY <1>t, <2>1, <2>4, <3>1 DEF Types, Settings
    <3>4. ~Open
      BY <2>1, <2>8 DEF Open, Ending
    <3> QED BY <2>1, <2>5, <2>6, <3>1, <3>2, <3>3, <3>4, EnderFrame
  <2>9. CASE d.from = "pending_payment" /\ row.status = "pending_payment" /\ Finished("pending_payment", "cancelled", d.fee)
    <3>1. ~row.paid /\ invoice \notin {None, "paid"} /\ ~Started /\ credit = 0
      BY <1>t, <2>9 DEF Account, Started, MoneySettled
    <3>2. row' = [row EXCEPT !.status = "cancelled", !.refund = 0, !.lease = None, !.live = FALSE] /\ credit' = credit + 0
      BY <2>9 DEF Finished, refundFor
    <3>3. /\ row' \in RowType /\ row'.status = "cancelled" /\ row'.refund = 0 /\ row'.lease = None
          /\ row'.paid = row.paid /\ row'.domain = row.domain /\ row'.fee = row.fee
      BY <1>t, <3>2 DEF RowType, Terminal
    <3>4. credit' = 0 /\ ~Started'
      BY <2>1, <3>1, <3>2, <3>3 DEF Started
    <3>5. Types'
      BY <1>t, <2>1, <2>4, <3>3, <3>4 DEF Types, Settings
    <3>6. MoneySettled'
      BY <2>1, <3>1, <3>3, <3>4 DEF MoneySettled
    <3>7. Account'
      BY <1>t, <2>1, <3>1, <3>3, <3>4, <3>6 DEF Account, None, Terminal
    <3>8. Recording'
      BY <1>t, <2>1, <3>1, <3>3 DEF Recording, WonIsOurs, RefundedIsKnown
    <3>9. ~Open
      BY <2>9 DEF Open
    <3> QED BY <2>1, <2>5, <2>6, <3>1, <3>3, <3>5, <3>7, <3>8, <3>9, EnderFrame
  <2> QED BY <2>1, <2>2, <2>7, <2>8, <2>9 DEF finish, CanFinish
<1>5. CASE VoidInvoice(e)
  <2>u. UNCHANGED <<row, tx, credit, name, dom, hunt, pass, loose, halted, view, alert, halts, events>>
    BY <1>5 DEF VoidInvoice
  <2>1. CASE /\ ender[e].at = "void"
             /\ ender' = [ender EXCEPT ![e] = IF tx THEN NoEnder ELSE [@ EXCEPT !.at = "voiding"]]
             /\ UNCHANGED <<invoice, faults>>
    <3> DEFINE d == IF tx THEN NoEnder ELSE [ender[e] EXCEPT !.at = "voiding"]
    <3>1. ender' = [ender EXCEPT ![e] = d]
      BY <1>t, <2>1
    <3>2. d \in EnderType /\ d.at \in {"off", "voiding"} /\ (tx => d.at = "off")
      BY <1>t, <1>n DEF EnderType
    <3> HIDE DEF d
    <3> QED BY <1>f, <2>u, <2>1, <3>1, <3>2
  <2>2. CASE Fault /\ ender' = [ender EXCEPT ![e] = NoEnder] /\ UNCHANGED invoice
    BY <1>f, <1>n, <2>u, <2>2
  <2>3. CASE /\ ender[e].at = "voiding" /\ invoice' = IF Payable THEN "cancelled" ELSE invoice
             /\ ender' = [ender EXCEPT ![e] = NoEnder] /\ UNCHANGED faults
    <3>1. CASE ~Payable
      BY <1>f, <1>n, <2>u, <2>3, <3>1
    <3>2. CASE Payable
      <4>1. /\ ender' \in [Enders -> EnderType] /\ ender'[e] = NoEnder
            /\ \A f \in Enders \ {e} : ender'[f] = ender[f]
        BY <1>t, <1>n, <2>3
      <4>2. Account' /\ ~Started /\ ~Started'
        BY <1>t, <2>u, <2>3, <3>2, InvoiceCloses
      <4>3. Types'
        BY <1>t, <2>u, <2>3, <3>2, <4>1 DEF Types, Settings
      <4>4. \A f \in Enders : EnderKnows(f)'
        BY <1>t, <1>n, <4>1 DEF EnderKnows
      <4>5. Crossing'
        BY <1>t, <2>u, <2>3 DEF Crossing, NoStrayPayment, Voiding
      <4>6. Recording'
        BY <1>t, <2>u, <4>2 DEF Recording, WonIsOurs, RefundedIsKnown
      <4>7. ~Open
        BY <1>t, <4>2 DEF Open, Account
      <4> QED BY <2>u, <4>2, <4>3, <4>4, <4>5, <4>6, <4>7, EnderFrame
    <3> QED BY <3>1, <3>2
  <2> QED BY <1>5, <2>1, <2>2, <2>3 DEF VoidInvoice, voidInvoice
<1> QED BY <1>1, <1>2, <1>3, <1>4, <1>5 DEF CancelSteps

LEMMA SnipeStep ==
    ASSUME Constants, SnipeInv, [Next]_vars
    PROVE  SnipeInv'
<1>1. CASE UNCHANGED vars
  <2>1. UNCHANGED <<row, invoice, tx, credit, name, dom, hunt, pass, ender, loose, halted, view, alert, faults, halts, events>>
    BY <1>1 DEF vars
  <2>2. Types' /\ Known'
    <3>1. Types'
      BY <2>1 DEF SnipeInv, Types, Settings
    <3>2. Known'
      BY <2>1 DEF SnipeInv, Known, HuntKnows, PassKnows, EnderKnows, Started
    <3> QED BY <3>1, <3>2
  <2>3. Account' /\ Crossing'
    BY <2>1 DEF SnipeInv, Account, MoneySettled, Started, Crossing, NoStrayPayment, Payable, Voiding
  <2>4. Recording' /\ Holding'
    BY <2>1 DEF SnipeInv, Recording, WonIsOurs, RefundedIsKnown, Started, Holding, OneHunter
  <2>5. Owning'
    BY <2>1 DEF SnipeInv, Owning, Told, Lost, Open, Ending, Carries
  <2> QED BY <2>2, <2>3, <2>4, <2>5 DEF SnipeInv
<1>2. CASE sweepStale
  BY <1>2, EnderActions DEF sweepStale
<1>3. ASSUME NEW w \in Workers, Hunt(w) PROVE SnipeInv'
  BY <1>3, HuntActions, WinKeeps, EndByHuntKeeps DEF Hunt
<1>4. ASSUME NEW e \in Enders, CancelSteps(e) \/ (\E fee \in BOOLEAN : AskCancel(e, fee)) PROVE SnipeInv'
  BY <1>4, EnderActions
<1> QED BY <1>1, <1>2, <1>3, <1>4, MoneyActions, LeaseActions, WorldActions, PassKeeps DEF Next

\* Repo.Finish and refundLatePayment: what the client paid is spent on a won
\* domain, still at work, or credited back once and by the rules, and a payment
\* strays only if it crossed the voiding of its invoice; however many workers,
\* cancellations and sweeps race, whatever fails and however often.
THEOREM MoneyAccounted == Constants => (Spec => [](MoneySettled /\ NoStrayPayment))
<1> SUFFICES ASSUME Constants PROVE Spec => [](MoneySettled /\ NoStrayPayment)
  OBVIOUS
<1>1. SnipeInv /\ [Next]_vars => SnipeInv'
  BY SnipeStep
<1>2. SnipeInv => MoneySettled /\ NoStrayPayment
  BY DEF SnipeInv, Account, Crossing
<1> QED BY <1>1, <1>2, SnipeInit, PTL DEF Spec

\* recordWin, lateWin and settleIfOwned: a won snipe has its domain, a client with
\* the domain and the money is known to an administrator, and a name that became
\* ours is never forgotten, unless a call landed late or an answer, a record or a
\* worker was lost.
THEOREM NamesAccounted == Constants => (Spec => [](WonIsOurs /\ RefundedIsKnown /\ OwnedIsKnown))
<1> SUFFICES ASSUME Constants PROVE Spec => [](WonIsOurs /\ RefundedIsKnown /\ OwnedIsKnown)
  OBVIOUS
<1>1. SnipeInv /\ [Next]_vars => SnipeInv'
  BY SnipeStep
<1>2. SnipeInv => WonIsOurs /\ RefundedIsKnown /\ OwnedIsKnown
  <2>1. SnipeInv => OwnedIsKnown
    BY DEF SnipeInv, Owning, OwnedIsKnown, Told, Lost, Open, Ending, Carries, Busy, Known, HuntKnows, None
  <2> QED BY <2>1 DEF SnipeInv, Recording
<1> QED BY <1>1, <1>2, SnipeInit, PTL DEF Spec

\* Claim and Heartbeat: no two workers hunt a name, however many there are, unless
\* a lease lapsed under a hunt that was still running.
THEOREM LeaseExcludes == Constants => (Spec => []OneHunter)
<1> SUFFICES ASSUME Constants PROVE Spec => []OneHunter
  OBVIOUS
<1>1. SnipeInv /\ [Next]_vars => SnipeInv'
  BY SnipeStep
<1>2. SnipeInv => OneHunter
  BY DEF SnipeInv, Holding
<1> QED BY <1>1, <1>2, SnipeInit, PTL DEF Spec
=============================================================================
