------------------------------ MODULE Domains ------------------------------
(***************************************************************************)
(* The life of one ordered domain: the domains row, the registrar's own    *)
(* record of the name, and the jobs, polls and requests that carry one to  *)
(* the other.                                                              *)
(*                                                                         *)
(* A worker reads the row, talks to the registrar, and writes the WHOLE    *)
(* row back (Repo.Update).  Only settleRejected and AdminRefund hold the   *)
(* row's lock between the two.                                             *)
(***************************************************************************)
EXTENDS Integers, FiniteSets, TLC

CONSTANTS
    Workers,         \* concurrent jobs and requests; one: no stale writes
    Years,           \* the term the client ordered and paid
    Transfer,        \* TRUE: the domain is transferred in
    NeedsDocuments,  \* the extension needs verified documents
    AdminTargets,    \* statuses an administrator may ask for (AdminUpdate)
    MaxAsked,        \* bound: renewals paid or forced
    MaxExpiry,       \* bound: years of registration
    MaxCredited,     \* bound: refunds of either kind
    LostAnswers,     \* FALSE: no worker fails after the registrar acted
    VerifiesAtOnce   \* TRUE: the registrar activates what it verifies at once

Status == {"pending", "pending_transfer", "active", "suspended", "expired",
           "cancelled", "rejected"}
Verification == {"none", "waiting", "document_validating", "active"}

ASSUME DomainsAssumption ==
    /\ Years \in Nat /\ MaxAsked \in Nat /\ MaxExpiry \in Nat /\ MaxCredited \in Nat
    /\ {Transfer, NeedsDocuments, LostAnswers, VerifiesAtOnce} \subseteq BOOLEAN
    /\ AdminTargets \subseteq Status
    /\ IsFiniteSet(Workers)

VARIABLES
    row,       \* the domains row
    reg,       \* external: the registrar's record of the name
    ordered,   \* the domain:register or domain:transfer task is queued
    renewals,  \* how many domain:renew tasks are queued
    asked,     \* history: renewals paid or forced
    credited,  \* history: times the registration was credited, and by whom
    job        \* local state of each worker

vars == <<row, reg, ordered, renewals, asked, credited, job>>

Row == [status : Status, placed : BOOLEAN, docs : BOOLEAN, verified : Verification,
        refundable : BOOLEAN, refunded : BOOLEAN, expiry : Nat]

Record == [status : Status \cup {"none"}, verified : Verification,
           refundable : BOOLEAN, expiry : Nat]

Idle == [pc |-> "idle"]

Job == [pc : {"idle"}]
       \cup [pc : {"order", "renew", "sync", "edit"}, row : Row]
       \cup [pc : {"placed", "renewed", "apply", "settle"}, row : Row, info : Record]

(* The type invariant. *)
TypeOK ==
    /\ row \in Row
    /\ reg \in Record
    /\ ordered \in BOOLEAN
    /\ renewals \in Nat
    /\ asked \in 0..MaxAsked
    /\ credited \in [{"policy", "admin"} -> Nat]
    /\ job \in [Workers -> Job]

Init ==
    /\ row = [status |-> IF Transfer THEN "pending_transfer" ELSE "pending",
              placed |-> FALSE, docs |-> FALSE, verified |-> "none",
              refundable |-> FALSE, refunded |-> FALSE, expiry |-> 0]
    /\ reg = [status |-> "none", verified |-> "none", refundable |-> TRUE, expiry |-> 0]
    /\ ordered = TRUE
    /\ renewals = 0
    /\ asked = 0
    /\ credited = [who \in {"policy", "admin"} |-> 0]
    /\ job = [w \in Workers |-> Idle]

\* Mutant: a suspended domain cannot be rejected.
SuspendedStays ==
    ({"pending", "pending_transfer"} \X {"active", "cancelled", "rejected"})
    \cup ({"active"} \X {"expired", "suspended", "rejected"})
    \cup {<<"expired", "active">>, <<"suspended", "active">>}

\* The edges of domainTransitions.
DomainTransitions ==
    ({"pending", "pending_transfer"} \X {"active", "cancelled", "rejected"})
    \cup ({"active"} \X {"expired", "suspended", "rejected"})
    \cup {<<"expired", "active">>}
    \cup ({"suspended"} \X {"active", "rejected", "cancelled"})

CanTransition(from, to) == <<from, to>> \in DomainTransitions

\* cycleYears: an ordered domain is billed annually, whatever the term.
CycleYears == 1

-----------------------------------------------------------------------------
(* What a registrar's answer makes of a row. *)

\* Mutant: the registration status is stored as the verification status.
ApplyStatus(r, info) ==
    [r EXCEPT !.docs = NeedsDocuments, !.refundable = info.refundable,
              !.verified = info.status]

\* applyVerification; a registrar that reports no verification erases none.
ApplyVerification(r, info) ==
    [r EXCEPT !.docs = NeedsDocuments, !.refundable = info.refundable,
              !.verified = IF info.verified = "none" THEN @ ELSE info.verified]

\* mapSyncStatus: a deleted domain whose documents were never verified counts
\* as rejected.
MapSyncStatus(info) ==
    IF info.status = "cancelled" /\ NeedsDocuments /\ info.verified # "active"
    THEN "rejected" ELSE info.status

\* Mutant: the registrar's status is taken over as it is.
MutateBlindly(r, info) ==
    [ApplyVerification(r, info) EXCEPT
        !.status = MapSyncStatus(info), !.expiry = info.expiry]

\* mutateFromSync
MutateFromSync(r, info) ==
    LET next == MapSyncStatus(info) IN
    [ApplyVerification(r, info) EXCEPT
        !.status = IF CanTransition(r.status, next) THEN next ELSE r.status,
        !.expiry = info.expiry]

\* Mutant: the registrar's word is enough, whatever the documents.
RefundTrusting(r) == ~r.refunded /\ r.refundable

\* RefundDecision
RefundEligible(r) ==
    /\ ~r.refunded
    /\ ~(r.docs /\ r.verified # "active")
    /\ r.refundable

-----------------------------------------------------------------------------
(* Registration and transfer. *)

\* The job reads the row; a row already placed or active ends the task.
RegisterDomainJob(w) ==
    /\ job[w] = Idle
    /\ ordered
    /\ \A v \in Workers : job[v].pc \notin {"order", "placed"}
    /\ row.status \in {"pending", "pending_transfer", "active"}
    /\ IF row.status = "active" \/ row.placed
       THEN ordered' = FALSE /\ UNCHANGED job
       ELSE job' = [job EXCEPT ![w] = [pc |-> "order", row |-> row]] /\ UNCHANGED ordered
    /\ UNCHANGED <<row, reg, renewals, asked, credited>>

\* Registrar.Register or Transfer; held: the order is accepted, not yet active.
Register(w, held) ==
    /\ job[w].pc = "order"
    /\ reg.status = "none"
    /\ held => NeedsDocuments \/ Transfer
    /\ reg' = [status |-> CASE ~held -> "active"
                            [] held /\ Transfer -> "pending_transfer"
                            [] OTHER -> "pending",
               verified |-> IF NeedsDocuments THEN "waiting" ELSE "active",
               refundable |-> reg.refundable, expiry |-> CycleYears]
    /\ job' = [job EXCEPT ![w] = [pc |-> "placed", row |-> job[w].row, info |-> reg']]
    /\ UNCHANGED <<row, ordered, renewals, asked, credited>>

\* Mutant: an accepted order counts as active.
NeverHeld(info) == FALSE

\* heldByRegistrar
HeldByRegistrar(info) ==
    /\ NeedsDocuments
    /\ info.verified # "active"
    /\ info.status \in {"pending", "pending_transfer"}

\* activateFromResult: a domain the registrar holds back stays as it is.
ActivateFromResult(w) ==
    /\ job[w].pc = "placed"
    /\ row' = [ApplyVerification(job[w].row, job[w].info) EXCEPT
                 !.status = IF HeldByRegistrar(job[w].info) THEN @ ELSE "active",
                 !.placed = TRUE, !.expiry = job[w].info.expiry]
    /\ ordered' = FALSE
    /\ job' = [job EXCEPT ![w] = Idle]
    /\ UNCHANGED <<reg, renewals, asked, credited>>

-----------------------------------------------------------------------------
(* Renewal. *)

\* Mutant: a re-run of the paid invoice's effects queues a second task.
AskRenewalTwice ==
    /\ asked < MaxAsked
    /\ asked' = asked + 1
    /\ renewals' = renewals + 2
    /\ UNCHANGED <<row, reg, ordered, credited, job>>

\* RenewDomainAfterPayment, or AdminForceRenew.
AskRenewal ==
    /\ asked < MaxAsked
    /\ asked' = asked + 1
    /\ renewals' = renewals + 1
    /\ UNCHANGED <<row, reg, ordered, credited, job>>

Renewing == {w \in Workers : job[w].pc \in {"renew", "renewed"}}

RenewDomainJob(w) ==
    /\ job[w] = Idle
    /\ Cardinality(Renewing) < renewals
    /\ job' = [job EXCEPT ![w] = [pc |-> "renew", row |-> row]]
    /\ UNCHANGED <<row, reg, ordered, renewals, asked, credited>>

\* Registrar.Renew asks the registrar for the current expiry and extends that.
Renew(w) ==
    /\ job[w].pc = "renew"
    /\ reg.status \in {"active", "suspended", "expired"}
    /\ reg.expiry + CycleYears <= MaxExpiry
    /\ reg' = [reg EXCEPT !.expiry = @ + CycleYears,
                          !.status = IF @ = "expired" THEN "active" ELSE @]
    /\ job' = [job EXCEPT ![w] = [pc |-> "renewed", row |-> job[w].row, info |-> reg']]
    /\ UNCHANGED <<row, ordered, renewals, asked, credited>>

\* Mutant: the years are added to the date the registrar answered.
RecordRenewalTwice(w) ==
    /\ job[w].pc = "renewed"
    /\ row' = [job[w].row EXCEPT !.expiry = job[w].info.expiry + CycleYears,
                                 !.status = IF @ = "expired" THEN "active" ELSE @]
    /\ renewals' = renewals - 1
    /\ job' = [job EXCEPT ![w] = Idle]
    /\ UNCHANGED <<reg, ordered, asked, credited>>

RecordRenewal(w) ==
    /\ job[w].pc = "renewed"
    /\ row' = [job[w].row EXCEPT !.expiry = job[w].info.expiry,
                                 !.status = IF @ = "expired" THEN "active" ELSE @]
    /\ renewals' = renewals - 1
    /\ job' = [job EXCEPT ![w] = Idle]
    /\ UNCHANGED <<reg, ordered, asked, credited>>

-----------------------------------------------------------------------------
(* Synchronisation with the registrar. *)

\* ListForSync: the daily cron's batch.
ForSync == row.status \in {"active", "pending_transfer", "expired", "suspended"}

\* Mutant: the poll leaves out domains that never were active.
AwaitingButPending ==
    /\ row.status \in {"active", "pending_transfer", "suspended"}
    /\ row.verified \in {"waiting", "document_validating"}
    /\ row.docs

\* ListAwaitingVerification: the batch of the poll every few minutes.
AwaitingVerification ==
    /\ row.status \in {"pending", "active", "pending_transfer", "suspended"}
    /\ row.verified \in {"waiting", "document_validating"}
    /\ row.docs

\* SyncDomainJob, from either cron, AdminSync or RefreshForClient.
SyncDomainJob(w) ==
    /\ job[w] = Idle
    /\ job' = [job EXCEPT ![w] = [pc |-> "sync", row |-> row]]
    /\ UNCHANGED <<row, reg, ordered, renewals, asked, credited>>

\* SyncAllDomains and SyncAwaitingVerification.
Poll(w) == (ForSync \/ AwaitingVerification) /\ SyncDomainJob(w)

\* The registrar answers; a rejection goes the way of settleRejected.
FetchSync(w) ==
    /\ job[w].pc = "sync"
    /\ reg.status # "none"
    /\ LET next == MapSyncStatus(reg) IN
       job' = [job EXCEPT ![w] =
                 [pc |-> IF next = "rejected" /\ CanTransition(job[w].row.status, next)
                         THEN "settle" ELSE "apply",
                  row |-> job[w].row, info |-> reg]]
    /\ UNCHANGED <<row, reg, ordered, renewals, asked, credited>>

ApplySync(w) ==
    /\ job[w].pc = "apply"
    /\ row' = MutateFromSync(job[w].row, job[w].info)
    /\ job' = [job EXCEPT ![w] = Idle]
    /\ UNCHANGED <<reg, ordered, renewals, asked, credited>>

\* Mutant: the refund is not recorded on the row.
SettleUnrecorded(w) ==
    /\ job[w].pc = "settle"
    /\ LET next == MutateFromSync(row, job[w].info)
           refund == next.status = "rejected" /\ RefundEligible(next) IN
       IF row.status = "rejected" THEN UNCHANGED <<row, credited>>
       ELSE /\ refund => credited["policy"] < MaxCredited
            /\ row' = next
            /\ credited' = [credited EXCEPT !["policy"] = IF refund THEN @ + 1 ELSE @]
    /\ job' = [job EXCEPT ![w] = Idle]
    /\ UNCHANGED <<reg, ordered, renewals, asked>>

\* settleRejected, under the row lock, with creditRegistration.
SettleRejected(w) ==
    /\ job[w].pc = "settle"
    /\ LET next == MutateFromSync(row, job[w].info)
           refund == next.status = "rejected" /\ RefundEligible(next) IN
       IF row.status = "rejected" THEN UNCHANGED <<row, credited>>
       ELSE /\ refund => credited["policy"] < MaxCredited
            /\ row' = [next EXCEPT !.refunded = @ \/ refund]
            /\ credited' = [credited EXCEPT !["policy"] = IF refund THEN @ + 1 ELSE @]
    /\ job' = [job EXCEPT ![w] = Idle]
    /\ UNCHANGED <<reg, ordered, renewals, asked>>

-----------------------------------------------------------------------------
(* Requests of administrators and of the client. *)

\* Mutant: the refund is given whatever was given before.
AdminRefundAgain(w) ==
    /\ job[w] = Idle
    /\ row.status \in {"rejected", "cancelled"}
    /\ credited["admin"] < MaxCredited
    /\ row' = [row EXCEPT !.refunded = TRUE]
    /\ credited' = [credited EXCEPT !["admin"] = @ + 1]
    /\ UNCHANGED <<reg, ordered, renewals, asked, job>>

\* AdminRefund, under the row lock.
AdminRefund(w) ==
    /\ job[w] = Idle
    /\ row.status \in {"rejected", "cancelled"}
    /\ ~row.refunded
    /\ credited["admin"] < MaxCredited
    /\ row' = [row EXCEPT !.refunded = TRUE]
    /\ credited' = [credited EXCEPT !["admin"] = @ + 1]
    /\ UNCHANGED <<reg, ordered, renewals, asked, job>>

\* UpdateDomain or AdminUpdate reads the row ...
ReadForEdit(w) ==
    /\ job[w] = Idle
    /\ job' = [job EXCEPT ![w] = [pc |-> "edit", row |-> row]]
    /\ UNCHANGED <<row, reg, ordered, renewals, asked, credited>>

\* ... and writes it back with a new auto_renew, name servers or add-ons, which
\* the row here does not keep, ...
UpdateDomain(w) ==
    /\ job[w].pc = "edit"
    /\ row' = job[w].row
    /\ job' = [job EXCEPT ![w] = Idle]
    /\ UNCHANGED <<reg, ordered, renewals, asked, credited>>

\* ... or a new status.
AdminUpdate(w, target) ==
    /\ job[w].pc = "edit"
    /\ CanTransition(job[w].row.status, target)
    /\ row' = [job[w].row EXCEPT !.status = target]
    /\ job' = [job EXCEPT ![w] = Idle]
    /\ UNCHANGED <<reg, ordered, renewals, asked, credited>>

\* The registrar refuses or fails the call, or, LostAnswers, the worker dies:
\* a queued task stays queued for its retry.
Return(w) ==
    /\ job[w] # Idle
    /\ job[w].pc \in {"order", "renew", "sync"} \/ LostAnswers
    /\ job' = [job EXCEPT ![w] = Idle]
    /\ UNCHANGED <<row, reg, ordered, renewals, asked, credited>>

-----------------------------------------------------------------------------
(* External: the registrar's own lifecycle of the name. *)

\* Documents are uploaded, bounced or verified.
RegistrarReviews(v) ==
    /\ reg.status \in {"pending", "pending_transfer", "active", "suspended"}
    /\ <<reg.verified, v>> \in {<<"waiting", "document_validating">>,
                                <<"document_validating", "waiting">>,
                                <<"document_validating", "active">>}
    /\ reg' = [reg EXCEPT !.verified = v,
                          !.status = IF v = "active" /\ VerifiesAtOnce THEN "active" ELSE @]
    /\ UNCHANGED <<row, ordered, renewals, asked, credited, job>>

\* A held or suspended name goes live once nothing is left to verify.
RegistrarActivates ==
    /\ reg.status \in {"pending", "pending_transfer", "suspended"}
    /\ reg.verified = "active"
    /\ reg' = [reg EXCEPT !.status = "active"]
    /\ UNCHANGED <<row, ordered, renewals, asked, credited, job>>

\* The name is suspended for missing documents, expires, is refused or deleted.
RegistrarMoves(to, refundable) ==
    /\ <<reg.status, to>> \in ({"active"} \X {"expired", "rejected", "cancelled"})
                             \cup ({"pending", "pending_transfer", "suspended"}
                                   \X {"rejected", "cancelled"})
                             \cup {<<"active", "suspended">>, <<"expired", "cancelled">>}
    /\ to = "suspended" => NeedsDocuments /\ reg.verified # "active"
    /\ ~refundable => to \in {"rejected", "cancelled"}
    /\ reg' = [reg EXCEPT !.status = to, !.refundable = refundable]
    /\ UNCHANGED <<row, ordered, renewals, asked, credited, job>>

-----------------------------------------------------------------------------
Step(w) ==
    \/ RegisterDomainJob(w)
    \/ \E held \in BOOLEAN : Register(w, held)
    \/ ActivateFromResult(w)
    \/ RenewDomainJob(w)
    \/ Renew(w)
    \/ RecordRenewal(w)
    \/ SyncDomainJob(w)
    \/ FetchSync(w)
    \/ ApplySync(w)
    \/ SettleRejected(w)
    \/ AdminRefund(w)
    \/ ReadForEdit(w)
    \/ UpdateDomain(w)
    \/ \E target \in AdminTargets : AdminUpdate(w, target)
    \/ Return(w)

Next ==
    \/ \E w \in Workers : Step(w)
    \/ AskRenewal
    \/ \E v \in Verification : RegistrarReviews(v)
    \/ RegistrarActivates
    \/ \E to \in Status, refundable \in BOOLEAN : RegistrarMoves(to, refundable)

Spec == Init /\ [][Next]_vars

Write(w) ==
    \/ Return(w) \/ ActivateFromResult(w) \/ RecordRenewal(w)
    \/ ApplySync(w) \/ SettleRejected(w) \/ UpdateDomain(w)

\* The cron polls, the registrar answers in the end, a worker that has its
\* answer writes it.
Fairness ==
    \A w \in Workers :
        /\ SF_vars(Poll(w))
        /\ SF_vars(FetchSync(w))
        /\ WF_vars(Write(w))

LiveSpec == Spec /\ Fairness

\* Workers are interchangeable.
WorkerSymmetry == Permutations(Workers)

-----------------------------------------------------------------------------
(* Properties. *)

Refunds == credited["policy"] + credited["admin"]

(* The row never promises the client more years than the registrar sold,    *)
(* whichever stale answer was written last: every expiry_date written is    *)
(* one the registrar answered.                                              *)
ExpiryNotOverstated == row.expiry <= reg.expiry

(* The refund policy credits only a registration the registrar refused or   *)
(* deleted, and never one whose required documents were not verified, even  *)
(* when the answer is applied to a row that moved since                     *)
(* (settleRejected, RefundDecision).                                        *)
PolicyRefundsRefused ==
    credited["policy"] > 0 =>
        /\ reg.status \in {"rejected", "cancelled"}
        /\ NeedsDocuments => reg.verified = "active"

(* A name the registrar holds back until its documents are verified is not  *)
(* active here: nothing but the registrar's word activates it               *)
(* (heldByRegistrar, mutateFromSync).                                       *)
HeldUntilVerified ==
    NeedsDocuments /\ reg.status \in {"none", "pending", "pending_transfer"}
                   /\ reg.verified # "active"
        => row.status # "active"

(* A registration is refunded at most once, by the policy and the           *)
(* administrators together (settleRejected, AdminRefund).                   *)
RefundedOnce == Refunds <= 1

(* The row says refunded exactly when the client was credited               *)
(* (creditRegistration, AdminRefund).                                       *)
RefundRecorded == row.refunded <=> Refunds > 0

(* The registrar was asked for the first term and for each renewal whose    *)
(* task is done, no more and no less (RenewDomainAfterPayment,              *)
(* RenewDomainJob).                                                         *)
RenewedAsPaid ==
    reg.status # "none" =>
        reg.expiry = CycleYears + (asked - renewals)
                     + Cardinality({w \in Workers : job[w].pc = "renewed"})

(* The registrar never extends the name beyond the first term and the       *)
(* renewals asked for, retries of the job included (RenewDomainJob).        *)
RenewedAtMostAsPaid == reg.expiry <= CycleYears + asked

(* A registered name runs for at least the years ordered (RegisterDomainJob *)
(* and the years of the order item).                                        *)
TermAsOrdered == reg.status # "none" => reg.expiry >= Years

(* A row moves only along the edges of the state machine, so a cancelled or *)
(* rejected domain stays so.                                                *)
DomainStep == row.status # row'.status => CanTransition(row.status, row'.status)
DomainLifecycle == [][DomainStep]_vars

(* A held registration the registrar made active for good does not stay     *)
(* pending: the pollers find it (SyncAwaitingVerification, SyncAllDomains). *)
Activated == row.placed /\ reg.status = "active"
Pending == row.status = "pending"
HeldIsActivated == <>[]Activated => []<>~Pending

(* A rejection by the registrar reaches the row of a placed domain, unless  *)
(* it was cancelled or found expired before.                                *)
Rejected == row.placed /\ MapSyncStatus(reg) = "rejected"
Settled == row.status \in {"rejected", "cancelled", "expired"}
RejectionIsSettled == Rejected ~> Settled
=============================================================================
