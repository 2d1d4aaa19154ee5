--------------------------- MODULE DomainsProofs ---------------------------
(* Proofs about Domains, for every number of workers, renewals and years.    *)
EXTENDS Domains, FiniteSetTheorems, TLAPS

-----------------------------------------------------------------------------
(* Type correctness. *)

Answered == {"placed", "renewed", "apply", "settle"}
Carrying == Answered \cup {"order", "renew", "sync", "edit"}

(* What a worker carries, by its program counter.                            *)
LEMMA JobFields ==
    ASSUME NEW j \in Job
    PROVE  /\ j.pc \in Carrying \cup {"idle"}
           /\ j.pc = "idle" <=> j = Idle
           /\ j.pc \in Carrying => j.row \in Row
           /\ j.pc \in Answered => j.info \in Record
BY DEF Job, Idle, Carrying, Answered

(* A worker at rest, reading, or holding an answer.                          *)
LEMMA JobIntro ==
    /\ Idle \in Job
    /\ \A pc \in Carrying \ Answered, r \in Row : [pc |-> pc, row |-> r] \in Job
    /\ \A pc \in Answered, r \in Row, i \in Record : [pc |-> pc, row |-> r, info |-> i] \in Job
BY DEF Job, Idle, Carrying, Answered

(* What the registrar's answer makes of a row, field by field.               *)
LEMMA Applied ==
    ASSUME NEW r \in Row, NEW i \in Record
    PROVE  LET a == ApplyVerification(r, i) IN
           /\ a \in Row
           /\ a.status = r.status /\ a.placed = r.placed /\ a.refunded = r.refunded
           /\ a.expiry = r.expiry /\ a.docs = NeedsDocuments /\ a.refundable = i.refundable
           /\ a.verified = IF i.verified = "none" THEN r.verified ELSE i.verified
BY DomainsAssumption DEF ApplyVerification, Row, Record

(* No status leads to "none".                                                *)
LEMMA Edges == \A from, to : CanTransition(from, to) => from \in Status /\ to \in Status
BY DEF CanTransition, DomainTransitions, Status

LEMMA Mutated ==
    ASSUME NEW r \in Row, NEW i \in Record
    PROVE  LET m == MutateFromSync(r, i) IN
           /\ m \in Row
           /\ m.status = IF CanTransition(r.status, MapSyncStatus(i))
                         THEN MapSyncStatus(i) ELSE r.status
           /\ m.placed = r.placed /\ m.refunded = r.refunded
           /\ m.expiry = i.expiry /\ m.docs = NeedsDocuments /\ m.refundable = i.refundable
           /\ m.verified = IF i.verified = "none" THEN r.verified ELSE i.verified
<1> DEFINE a == ApplyVerification(r, i)
           s == IF CanTransition(r.status, MapSyncStatus(i)) THEN MapSyncStatus(i) ELSE r.status
<1>1. s \in Status
  BY Edges DEF Row
<1>2. a \in Row /\ i.expiry \in Nat
  BY Applied DEF Record
<1>3. MutateFromSync(r, i) = [a EXCEPT !.status = s, !.expiry = i.expiry]
  BY DEF MutateFromSync
<1>4. a.placed = r.placed /\ a.refunded = r.refunded
      /\ a.docs = NeedsDocuments /\ a.refundable = i.refundable
      /\ a.verified = IF i.verified = "none" THEN r.verified ELSE i.verified
  BY Applied
<1> HIDE DEF a, s
<1>5. /\ [a EXCEPT !.status = s, !.expiry = i.expiry] \in Row
      /\ [a EXCEPT !.status = s, !.expiry = i.expiry].status = s
      /\ [a EXCEPT !.status = s, !.expiry = i.expiry].expiry = i.expiry
      /\ [a EXCEPT !.status = s, !.expiry = i.expiry].placed = a.placed
      /\ [a EXCEPT !.status = s, !.expiry = i.expiry].refunded = a.refunded
      /\ [a EXCEPT !.status = s, !.expiry = i.expiry].docs = a.docs
      /\ [a EXCEPT !.status = s, !.expiry = i.expiry].refundable = a.refundable
      /\ [a EXCEPT !.status = s, !.expiry = i.expiry].verified = a.verified
  BY <1>1, <1>2 DEF Row
<1> QED BY <1>3, <1>4, <1>5 DEF s

\* What the type invariant needs of the queue: every renewal under way has its
\* task there.
TypeInv == TypeOK /\ Cardinality(Renewing) <= renewals

(* The workers at renewals when one of them moves on.                        *)
LEMMA Renewers ==
    ASSUME TypeOK, NEW w \in Workers, NEW j \in Job, job' = [job EXCEPT ![w] = j]
    PROVE  /\ job' \in [Workers -> Job]
           /\ IsFiniteSet(Renewing) /\ Cardinality(Renewing) \in Nat
           /\ j.pc \notin {"renew", "renewed"} => Cardinality(Renewing') <= Cardinality(Renewing)
           /\ j.pc \in {"renew", "renewed"} => Cardinality(Renewing') <= Cardinality(Renewing) + 1
           /\ j.pc \in {"renew", "renewed"} /\ w \in Renewing => Renewing' = Renewing
           /\ j.pc \notin {"renew", "renewed"} /\ w \in Renewing
                 => Cardinality(Renewing') = Cardinality(Renewing) - 1
<1>1. job \in [Workers -> Job] /\ job' \in [Workers -> Job] /\ job'[w] = j
      /\ \A v \in Workers \ {w} : job'[v] = job[v]
  BY DEF TypeOK
<1>2. IsFiniteSet(Renewing) /\ Cardinality(Renewing) \in Nat
  BY DomainsAssumption, FS_Subset, FS_CardinalityType DEF Renewing
<1>3. CASE j.pc \notin {"renew", "renewed"}
  <2>1. Renewing' = Renewing \ {w}
    BY <1>1, <1>3 DEF Renewing
  <2> QED BY <1>1, <1>2, <1>3, <2>1, FS_RemoveElement
<1>4. CASE j.pc \in {"renew", "renewed"}
  <2>1. Renewing' = Renewing \cup {w}
    BY <1>1, <1>4 DEF Renewing
  <2>2. w \in Renewing => Renewing' = Renewing
    BY <2>1
  <2>3. Cardinality(Renewing \cup {w})
          = IF w \in Renewing THEN Cardinality(Renewing) ELSE Cardinality(Renewing) + 1
    BY <1>2, FS_AddElement
  <2>4. Cardinality(Renewing') <= Cardinality(Renewing) + 1
    BY <1>2, <2>1, <2>3
  <2> QED BY <1>1, <1>2, <1>4, <2>2, <2>4
<1> QED BY <1>3, <1>4

LEMMA TypeInit == Init => TypeInv
<1> SUFFICES ASSUME Init PROVE TypeInv
  OBVIOUS
<1>1. TypeOK
  BY DomainsAssumption DEF Init, TypeOK, Row, Record, Status, Verification, Job, Idle
<1>2. Renewing = {}
  BY DEF Init, Renewing, Idle
<1> QED BY <1>1, <1>2, FS_EmptySet DEF Init, TypeInv

(* A worker that reads the row, and one that writes nothing.                 *)
LEMMA TypeRead ==
    ASSUME TypeInv, NEW w \in Workers, NEW j \in Job, job' = [job EXCEPT ![w] = j],
           j.pc \notin {"renew", "renewed"}, ordered' \in BOOLEAN,
           row' \in Row, credited' \in [{"policy", "admin"} -> Nat],
           UNCHANGED <<reg, renewals, asked>>
    PROVE  TypeInv'
<1>1. TypeOK'
  BY Renewers DEF TypeInv, TypeOK
<1>2. Cardinality(Renewing)' <= renewals' /\ Cardinality(Renewing) <= renewals
  <2>1. /\ Cardinality(Renewing') <= Cardinality(Renewing) /\ Cardinality(Renewing) \in Nat
        /\ IsFiniteSet(Renewing')
    BY <1>1, Renewers, DomainsAssumption, FS_Subset DEF TypeInv, Renewing
  <2>2. Cardinality(Renewing') \in Nat
    BY <2>1, FS_CardinalityType
  <2> QED BY <2>1, <2>2 DEF TypeInv, TypeOK
<1> QED BY <1>1, <1>2 DEF TypeInv

LEMMA TypeStep == TypeInv /\ [Next]_vars => TypeInv'
<1> SUFFICES ASSUME TypeInv, [Next]_vars PROVE TypeInv'
  OBVIOUS
<1>t. /\ row \in Row /\ reg \in Record /\ ordered \in BOOLEAN /\ renewals \in Nat /\ TypeOK
      /\ asked \in 0..MaxAsked /\ credited \in [{"policy", "admin"} -> Nat]
      /\ job \in [Workers -> Job] /\ Cardinality(Renewing) <= renewals
  BY DEF TypeInv, TypeOK
<1>1. ASSUME NEW w \in Workers, Step(w)
      PROVE  TypeInv'
  <2> DEFINE j == job[w]
  <2>j. /\ j \in Job
        /\ j.pc \in Carrying => j.row \in Row
        /\ j.pc \in Answered => j.info \in Record
    BY <1>t, JobFields
  <2>1. CASE RegisterDomainJob(w)
    <3>1. CASE job' = job
      <4>1. job' = [job EXCEPT ![w] = Idle]
        BY <1>t, <2>1, <3>1 DEF RegisterDomainJob
      <4> QED BY <1>t, <2>1, <4>1, TypeRead, JobIntro DEF RegisterDomainJob, Idle
    <3>2. CASE job' # job
      BY <1>t, <2>1, <3>2, TypeRead, JobIntro DEF RegisterDomainJob, Carrying, Answered
    <3> QED BY <3>1, <3>2
  <2>2. CASE \E held \in BOOLEAN : Register(w, held)
    <3>1. /\ reg' \in Record /\ j.pc = "order"
          /\ job' = [job EXCEPT ![w] = [pc |-> "placed", row |-> j.row, info |-> reg']]
          /\ UNCHANGED <<row, ordered, renewals, asked, credited>>
      BY <1>t, <2>2 DEF Register, Record, Status, Verification, CycleYears
    <3>2. [pc |-> "placed", row |-> j.row, info |-> reg'] \in Job
      BY <2>j, <3>1, JobIntro DEF Carrying, Answered
    <3>3. Cardinality(Renewing') <= Cardinality(Renewing) /\ job' \in [Workers -> Job]
          /\ Cardinality(Renewing) \in Nat
      BY <1>t, <3>1, <3>2, Renewers
    <3>4. IsFiniteSet(Renewing') /\ Cardinality(Renewing') \in Nat
      BY DomainsAssumption, FS_Subset, FS_CardinalityType DEF Renewing
    <3> QED BY <1>t, <3>1, <3>3, <3>4 DEF TypeInv, TypeOK
  <2>3. CASE ActivateFromResult(w)
    <3>1. j.row \in Row /\ j.info \in Record
      BY <2>j, <2>3 DEF ActivateFromResult, Carrying, Answered
    <3>2. ApplyVerification(j.row, j.info) \in Row /\ j.info.expiry \in Nat
      BY <3>1, Applied DEF Record
    <3>3. row' \in Row
      BY <2>3, <3>2 DEF ActivateFromResult, Row, Status
    <3> QED BY <1>t, <2>3, <3>3, TypeRead, JobIntro DEF ActivateFromResult, Idle
  <2>4. CASE RenewDomainJob(w)
    <3>1. [pc |-> "renew", row |-> row] \in Job
      BY <1>t, JobIntro DEF Carrying, Answered
    <3>2. Cardinality(Renewing') <= Cardinality(Renewing) + 1 /\ job' \in [Workers -> Job]
          /\ Cardinality(Renewing) \in Nat /\ Cardinality(Renewing) < renewals
      BY <1>t, <2>4, <3>1, Renewers DEF RenewDomainJob
    <3>3. IsFiniteSet(Renewing') /\ Cardinality(Renewing') \in Nat
      BY DomainsAssumption, FS_Subset, FS_CardinalityType DEF Renewing
    <3> QED BY <1>t, <2>4, <3>2, <3>3 DEF RenewDomainJob, TypeInv, TypeOK
  <2>5. CASE Renew(w)
    <3>1. /\ reg' \in Record /\ j.pc = "renew"
          /\ job' = [job EXCEPT ![w] = [pc |-> "renewed", row |-> j.row, info |-> reg']]
          /\ UNCHANGED <<row, ordered, renewals, asked, credited>>
      <4>1. reg.expiry + CycleYears \in Nat
        BY <1>t DEF Record, CycleYears
      <4>2. reg' \in Record
        BY <1>t, <2>5, <4>1 DEF Renew, Record, Status
      <4> QED BY <2>5, <4>2 DEF Renew
    <3>2. [pc |-> "renewed", row |-> j.row, info |-> reg'] \in Job
      BY <2>j, <3>1, JobIntro DEF Carrying, Answered
    <3>3. Renewing' = Renewing /\ job' \in [Workers -> Job]
      BY <1>t, <3>1, <3>2, Renewers DEF Renewing
    <3> QED BY <1>t, <3>1, <3>3 DEF TypeInv, TypeOK
  <2>6. CASE RecordRenewal(w)
    <3>1. j.row \in Row /\ j.info \in Record /\ w \in Renewing
      BY <2>j, <2>6 DEF RecordRenewal, Carrying, Answered, Renewing
    <3>2. row' \in Row
      BY <2>6, <3>1 DEF RecordRenewal, Row, Record, Status
    <3>3. /\ Cardinality(Renewing') = Cardinality(Renewing) - 1 /\ job' \in [Workers -> Job]
          /\ Cardinality(Renewing) \in Nat /\ IsFiniteSet(Renewing)
      BY <1>t, <2>6, <3>1, Renewers, JobIntro DEF RecordRenewal, Idle
    <3>4. Cardinality(Renewing) # 0
      BY <3>1, <3>3, FS_EmptySet
    <3>5. renewals' \in Nat /\ Cardinality(Renewing)' <= renewals'
      BY <1>t, <2>6, <3>3, <3>4 DEF RecordRenewal
    <3> QED BY <1>t, <2>6, <3>2, <3>3, <3>5 DEF RecordRenewal, TypeInv, TypeOK
  <2>7. CASE SyncDomainJob(w)
    BY <1>t, <2>7, TypeRead, JobIntro DEF SyncDomainJob, Carrying, Answered
  <2>8. CASE FetchSync(w)
    <3>1. PICK pc \in {"settle", "apply"} :
            job' = [job EXCEPT ![w] = [pc |-> pc, row |-> j.row, info |-> reg]]
      BY <2>8 DEF FetchSync
    <3>2. [pc |-> pc, row |-> j.row, info |-> reg] \in Job
      BY <1>t, <2>8, <2>j, JobIntro DEF FetchSync, Carrying, Answered
    <3> QED BY <1>t, <2>8, <3>1, <3>2, TypeRead DEF FetchSync
  <2>9. CASE ApplySync(w)
    <3>1. MutateFromSync(j.row, j.info) \in Row
      BY <2>j, <2>9, Mutated DEF ApplySync, Carrying, Answered
    <3> QED BY <1>t, <2>9, <3>1, TypeRead, JobIntro DEF ApplySync, Idle
  <2>10. CASE SettleRejected(w)
    <3>1. MutateFromSync(row, j.info) \in Row
      BY <1>t, <2>j, <2>10, Mutated DEF SettleRejected, Carrying, Answered
    <3>2. row' \in Row /\ credited' \in [{"policy", "admin"} -> Nat]
      BY <1>t, <2>10, <3>1 DEF SettleRejected, Row, RefundEligible
    <3> QED BY <1>t, <2>10, <3>2, TypeRead, JobIntro DEF SettleRejected, Idle
  <2>11. CASE AdminRefund(w)
    <3>1. row' \in Row /\ credited' \in [{"policy", "admin"} -> Nat] /\ Renewing' = Renewing
      <4>1. row' \in Row
        BY <1>t, <2>11 DEF AdminRefund, Row
      <4>2. credited["admin"] + 1 \in Nat
        BY <1>t
      <4>3. credited' \in [{"policy", "admin"} -> Nat]
        BY <1>t, <2>11, <4>2 DEF AdminRefund
      <4> QED BY <2>11, <4>1, <4>3 DEF AdminRefund, Renewing
    <3> QED BY <1>t, <2>11, <3>1 DEF AdminRefund, TypeInv, TypeOK
  <2>12. CASE ReadForEdit(w)
    BY <1>t, <2>12, TypeRead, JobIntro DEF ReadForEdit, Carrying, Answered
  <2>13. CASE UpdateDomain(w)
    <3>1. j.row \in Row
      BY <2>j, <2>13 DEF UpdateDomain, Carrying
    <3> QED BY <1>t, <2>13, <3>1, TypeRead, JobIntro DEF UpdateDomain, Idle
  <2>14. CASE \E target \in AdminTargets : AdminUpdate(w, target)
    <3>1. j.row \in Row
      BY <2>j, <2>14 DEF AdminUpdate, Carrying
    <3>2. row' \in Row
      BY <2>14, <3>1, DomainsAssumption DEF AdminUpdate, Row
    <3> QED BY <1>t, <2>14, <3>2, TypeRead, JobIntro DEF AdminUpdate, Idle
  <2>15. CASE Return(w)
    BY <1>t, <2>15, TypeRead, JobIntro DEF Return, Idle
  <2> QED BY <1>1, <2>1, <2>2, <2>3, <2>4, <2>5, <2>6, <2>7, <2>8, <2>9, <2>10, <2>11,
             <2>12, <2>13, <2>14, <2>15 DEF Step
<1>2. CASE AskRenewal
  <2>1. Renewing' = Renewing
    BY <1>2 DEF AskRenewal, Renewing
  <2>2. IsFiniteSet(Renewing) /\ Cardinality(Renewing) \in Nat
    BY DomainsAssumption, FS_Subset, FS_CardinalityType DEF Renewing
  <2> QED BY <1>t, <1>2, <2>1, <2>2, DomainsAssumption DEF AskRenewal, TypeInv, TypeOK
<1>3. CASE \/ \E v \in Verification : RegistrarReviews(v)
           \/ RegistrarActivates
           \/ \E to \in Status, refundable \in BOOLEAN : RegistrarMoves(to, refundable)
  <2>1. reg' \in Record /\ UNCHANGED <<row, ordered, renewals, asked, credited, job>>
    BY <1>t, <1>3 DEF RegistrarReviews, RegistrarActivates, RegistrarMoves, Record, Status
  <2>2. Renewing' = Renewing
    BY <2>1 DEF Renewing
  <2> QED BY <1>t, <2>1, <2>2 DEF TypeInv, TypeOK
<1>4. CASE UNCHANGED vars
  BY <1>4 DEF vars, TypeInv, TypeOK, Renewing
<1> QED BY <1>1, <1>2, <1>3, <1>4 DEF Next

(* Every reachable state is well typed; in particular the queue never counts *)
(* fewer renewal tasks than there are workers at one.                        *)
THEOREM TypeCorrect == Spec => []TypeInv
BY TypeInit, TypeStep, PTL DEF Spec

-----------------------------------------------------------------------------
(* What the registrar has answered, however old.                             *)

Final == {"rejected", "cancelled"}

\* The registrar keeps record g back until its documents are verified.
Held(g) == g.status \in {"none", "pending", "pending_transfer"} /\ g.verified # "active"

\* What remains true of an answer i while the registrar's record moves on to g:
\* the years only grow, a refusal or deletion is final, and a name that is held
\* back now was held back then.
Recalls(i, g) ==
    /\ i.status # "none" /\ i.verified # "none"
    /\ i.expiry <= g.expiry
    /\ i.status \in Final => i = g
    /\ Held(g) => Held(i)

Registered(g) ==
    /\ g.status = "none" => g.expiry = 0 /\ g.verified = "none"
    /\ g.status # "none" => g.verified # "none"

\* Rows and answers that workers carry, written back at any later time.
AnswerInv ==
    /\ Registered(reg)
    /\ ExpiryNotOverstated
    /\ PolicyRefundsRefused
    /\ \A w \in Workers :
          /\ job[w].pc \in Carrying => job[w].row.expiry <= reg.expiry
          /\ job[w].pc \in Answered => Recalls(job[w].info, reg)
          /\ job[w].pc = "renewed" => job[w].info.status \in {"active", "suspended"}

\* While a name is held back, no copy of its row says active.
HeldInv ==
    NeedsDocuments /\ Held(reg) =>
        /\ row.status # "active"
        /\ \A w \in Workers : job[w].pc \in Carrying => job[w].row.status # "active"

(* What one step may do to the registrar's record.                           *)
LEMMA RegistrarStep ==
    ASSUME TypeOK, Registered(reg), [Next]_vars
    PROVE  /\ Registered(reg')
           /\ reg.expiry <= reg'.expiry
           /\ reg.status \in Final => reg' = reg
           /\ reg.status # "none" => reg'.status # "none"
           /\ Held(reg') => Held(reg)
<1>t. reg \in Record /\ reg.expiry \in Nat
  BY DEF TypeOK, Record
<1>1. CASE reg' = reg
  BY <1>t, <1>1
<1>2. CASE \E w \in Workers : \E held \in BOOLEAN : Register(w, held)
  <2>1. /\ reg.status = "none" /\ reg.expiry = 0 /\ reg.verified = "none" /\ reg'.expiry = 1
        /\ reg'.status \in {"active", "pending", "pending_transfer"}
        /\ reg'.verified \in {"waiting", "active"}
    BY <1>2, <1>t, DomainsAssumption DEF Register, CycleYears, Registered
  <2> QED BY <2>1 DEF Registered, Final, Held
<1>3. CASE \E w \in Workers : Renew(w)
  BY <1>3, <1>t DEF Renew, CycleYears, Registered, Final, Held, Record
<1>4. CASE \E v \in Verification : RegistrarReviews(v)
  BY <1>4, <1>t DEF RegistrarReviews, Registered, Final, Held, Record
<1>5. CASE RegistrarActivates
  BY <1>5, <1>t DEF RegistrarActivates, Registered, Final, Held, Record
<1>6. CASE \E to \in Status, refundable \in BOOLEAN : RegistrarMoves(to, refundable)
  BY <1>6, <1>t DEF RegistrarMoves, Registered, Final, Held, Record, Status
<1>7. CASE AskRenewal \/ UNCHANGED vars
  BY <1>1, <1>7 DEF AskRenewal, vars
<1>8. ASSUME NEW w \in Workers, Step(w), \A held \in BOOLEAN : ~Register(w, held), ~Renew(w)
      PROVE  reg' = reg
  BY <1>8 DEF Step, RegisterDomainJob, ActivateFromResult, RenewDomainJob, RecordRenewal,
       SyncDomainJob, FetchSync, ApplySync, SettleRejected, AdminRefund, ReadForEdit,
       UpdateDomain, AdminUpdate, Return
<1> QED BY <1>1, <1>2, <1>3, <1>4, <1>5, <1>6, <1>7, <1>8 DEF Next

\* Where what worker w carries after a step comes from.
Carried(w) ==
    \/ job'[w] = job[w]
    \/ job'[w] = Idle
    \/ job'[w].pc \in Carrying \ Answered /\ job'[w].row = row
    \/ /\ job'[w].pc \in Answered /\ job[w].pc \in Carrying
       /\ job'[w].row = job[w].row /\ job'[w].info = reg'
       /\ reg'.status # "none"
       /\ job'[w].pc = "renewed" => reg'.status \in {"active", "suspended"}

\* What a step of worker w may make of the row.
Written(w) ==
    \/ row'.expiry = row.expiry /\ row'.status = row.status
    \/ /\ job[w].pc \in Carrying
       /\ \/ row'.expiry = job[w].row.expiry
          \/ job[w].pc \in Answered /\ row'.expiry = job[w].info.expiry
       /\ row'.status = "active" =>
             \/ row.status = "active"
             \/ job[w].row.status = "active"
             \/ job[w].pc \in Answered /\ ~(NeedsDocuments /\ Held(job[w].info))
             \/ "active" \in AdminTargets

LEMMA WorkerStep ==
    ASSUME TypeOK, AnswerInv, NEW w \in Workers, Step(w)
    PROVE  /\ \A v \in Workers \ {w} : job'[v] = job[v]
           /\ Carried(w)
           /\ Written(w)
<1> DEFINE j == job[w]
<1>t. row \in Row /\ reg \in Record /\ job \in [Workers -> Job]
  BY DEF TypeOK
<1>j. /\ j \in Job
      /\ j.pc \in Carrying => j.row \in Row
      /\ j.pc \in Answered => j.info \in Record /\ Recalls(j.info, reg)
  BY <1>t, JobFields DEF AnswerInv
<1>1. CASE RegisterDomainJob(w) \/ SyncDomainJob(w) \/ RenewDomainJob(w) \/ ReadForEdit(w)
  BY <1>t, <1>1 DEF RegisterDomainJob, SyncDomainJob, RenewDomainJob, ReadForEdit,
       Carried, Written, Carrying, Answered
<1>2. CASE \E held \in BOOLEAN : Register(w, held)
  <2>1. /\ job' = [job EXCEPT ![w] = [pc |-> "placed", row |-> j.row, info |-> reg']]
        /\ j.pc = "order" /\ row' = row /\ reg'.status # "none"
    BY <1>2 DEF Register
  <2> QED BY <1>t, <2>1 DEF Carried, Written, Carrying, Answered
<1>3. CASE ActivateFromResult(w)
  <2>1. j.pc = "placed" /\ j.row \in Row /\ j.info \in Record /\ Recalls(j.info, reg)
    BY <1>3, <1>j DEF ActivateFromResult, Carrying, Answered
  <2>2. ApplyVerification(j.row, j.info) \in Row /\ ApplyVerification(j.row, j.info).status = j.row.status
    BY <2>1, Applied
  <2>3. /\ row'.expiry = j.info.expiry
        /\ row'.status = IF HeldByRegistrar(j.info) THEN j.row.status ELSE "active"
    BY <1>3, <2>2 DEF ActivateFromResult, Row
  <2>4. ~HeldByRegistrar(j.info) => ~(NeedsDocuments /\ Held(j.info))
    BY <2>1 DEF HeldByRegistrar, Held, Recalls
  <2>5. job' = [job EXCEPT ![w] = Idle]
    BY <1>3 DEF ActivateFromResult
  <2> QED BY <1>t, <2>1, <2>3, <2>4, <2>5 DEF Carried, Written, Carrying, Answered
<1>4. CASE Renew(w)
  <2>1. /\ job' = [job EXCEPT ![w] = [pc |-> "renewed", row |-> j.row, info |-> reg']]
        /\ j.pc = "renew" /\ row' = row
    BY <1>4 DEF Renew
  <2>2. reg'.status \in {"active", "suspended"}
    BY <1>4, <1>t DEF Renew, Record
  <2> QED BY <1>t, <2>1, <2>2 DEF Carried, Written, Carrying, Answered
<1>5. CASE RecordRenewal(w)
  <2>1. /\ j.pc = "renewed" /\ j.row \in Row /\ j.info \in Record
        /\ j.info.status \in {"active", "suspended"}
    BY <1>5, <1>j DEF RecordRenewal, Carrying, Answered, AnswerInv
  <2>2. row'.expiry = j.info.expiry /\ job' = [job EXCEPT ![w] = Idle]
    BY <1>5, <2>1 DEF RecordRenewal, Row
  <2> QED BY <1>t, <2>1, <2>2 DEF Carried, Written, Carrying, Answered, Held
<1>6. CASE FetchSync(w)
  BY <1>t, <1>6 DEF FetchSync, Carried, Written, Carrying, Answered
<1>7. CASE ApplySync(w)
  <2>1. j.pc = "apply" /\ j.row \in Row /\ j.info \in Record
    BY <1>7, <1>j DEF ApplySync, Carrying, Answered
  <2>2. /\ row'.expiry = j.info.expiry /\ job' = [job EXCEPT ![w] = Idle]
        /\ row'.status \in {j.row.status, MapSyncStatus(j.info)}
    BY <1>7, <2>1, Mutated DEF ApplySync
  <2>3. MapSyncStatus(j.info) = "active" => ~Held(j.info)
    BY DEF MapSyncStatus, Held
  <2> QED BY <1>t, <2>1, <2>2, <2>3 DEF Carried, Written, Carrying, Answered
<1>8. CASE SettleRejected(w)
  <2>1. j.pc = "settle" /\ j.info \in Record /\ job' = [job EXCEPT ![w] = Idle]
    BY <1>8, <1>j DEF SettleRejected, Carrying, Answered
  <2>2. \/ row' = row
        \/ \E b \in BOOLEAN : row' = [MutateFromSync(row, j.info) EXCEPT !.refunded = @ \/ b]
    BY <1>8 DEF SettleRejected, RefundEligible
  <2>3. /\ MutateFromSync(row, j.info) \in Row
        /\ MutateFromSync(row, j.info).status \in {row.status, MapSyncStatus(j.info)}
        /\ MutateFromSync(row, j.info).expiry = j.info.expiry
    BY <1>t, <2>1, Mutated
  <2>4. \/ row' = row
        \/ row'.expiry = j.info.expiry /\ row'.status \in {row.status, MapSyncStatus(j.info)}
    BY <2>2, <2>3 DEF Row
  <2>5. MapSyncStatus(j.info) = "active" => ~Held(j.info)
    BY DEF MapSyncStatus, Held
  <2> QED BY <1>t, <2>1, <2>4, <2>5 DEF Carried, Written, Carrying, Answered
<1>9. CASE AdminRefund(w)
  BY <1>t, <1>9 DEF AdminRefund, Carried, Written, Row
<1>10. CASE UpdateDomain(w)
  BY <1>t, <1>10 DEF UpdateDomain, Carried, Written, Carrying
<1>11. CASE \E target \in AdminTargets : AdminUpdate(w, target)
  <2>1. j.pc = "edit" /\ j.row \in Row
    BY <1>11, <1>j DEF AdminUpdate, Carrying
  <2> QED BY <1>t, <1>11, <2>1 DEF AdminUpdate, Carried, Written, Carrying, Row
<1>12. CASE Return(w)
  BY <1>t, <1>12 DEF Return, Carried, Written
<1> QED BY <1>1, <1>2, <1>3, <1>4, <1>5, <1>6, <1>7, <1>8, <1>9, <1>10, <1>11, <1>12 DEF Step

(* The policy credits only on a final refusal, of verified documents.        *)
LEMMA PolicyStep ==
    ASSUME TypeOK, AnswerInv, [Next]_vars
    PROVE  \/ credited'["policy"] = credited["policy"]
           \/ /\ reg.status \in Final /\ reg' = reg
              /\ NeedsDocuments => reg.verified = "active"
<1>t. /\ row \in Row /\ job \in [Workers -> Job]
      /\ credited \in [{"policy", "admin"} -> Nat]
  BY DEF TypeOK
<1>1. ASSUME NEW w \in Workers, SettleRejected(w), credited'["policy"] # credited["policy"]
      PROVE  /\ reg.status \in Final /\ reg' = reg
             /\ NeedsDocuments => reg.verified = "active"
  <2> DEFINE i == job[w].info
             m == MutateFromSync(row, i)
  <2>1. i \in Record /\ Recalls(i, reg)
    BY <1>1, <1>t, JobFields DEF SettleRejected, Answered, AnswerInv
  <2>2. /\ row.status # "rejected" /\ m.status = "rejected" /\ RefundEligible(m)
        /\ reg' = reg
    BY <1>1, <1>t DEF SettleRejected
  <2>3. /\ m.status \in {row.status, MapSyncStatus(i)} /\ m.docs = NeedsDocuments
        /\ m.verified = i.verified
    BY <1>t, <2>1, Mutated DEF Recalls
  <2> HIDE DEF m
  <2>4. MapSyncStatus(i) = "rejected" /\ (NeedsDocuments => i.verified = "active")
    BY <2>2, <2>3 DEF RefundEligible
  <2>5. i.status \in Final
    BY <2>4 DEF MapSyncStatus, Final
  <2> QED BY <2>1, <2>2, <2>4, <2>5 DEF Recalls
<1>2. CASE \E w \in Workers : AdminRefund(w)
  BY <1>t, <1>2 DEF AdminRefund
<1>3. CASE ~ \E w \in Workers : AdminRefund(w) \/ SettleRejected(w)
  <2>1. credited' = credited
    BY <1>3 DEF Next, Step, RegisterDomainJob, Register, ActivateFromResult, RenewDomainJob, Renew,
         RecordRenewal, SyncDomainJob, FetchSync, ApplySync, ReadForEdit, UpdateDomain,
         AdminUpdate, Return, AskRenewal, RegistrarReviews, RegistrarActivates, RegistrarMoves, vars
  <2> QED BY <2>1
<1> QED BY <1>1, <1>2, <1>3

LEMMA AnswerInit == Init => AnswerInv /\ HeldInv
BY DEF Init, AnswerInv, HeldInv, Registered, ExpiryNotOverstated, PolicyRefundsRefused,
       Idle, Carrying, Answered

LEMMA AnswerStep == TypeOK /\ AnswerInv /\ TypeOK' /\ [Next]_vars => AnswerInv'
<1> SUFFICES ASSUME TypeOK, AnswerInv, TypeOK', [Next]_vars PROVE AnswerInv'
  OBVIOUS
<1>t. /\ row \in Row /\ row' \in Row /\ reg \in Record /\ reg' \in Record
      /\ job \in [Workers -> Job] /\ job' \in [Workers -> Job]
  BY DEF TypeOK
<1>n. row.expiry \in Nat /\ row'.expiry \in Nat /\ reg.expiry \in Nat /\ reg'.expiry \in Nat
  BY <1>t DEF Row, Record
<1>r. /\ Registered(reg') /\ reg.expiry <= reg'.expiry
      /\ reg.status \in Final => reg' = reg
      /\ Held(reg') => Held(reg)
  BY RegistrarStep DEF AnswerInv
<1>1. PolicyRefundsRefused'
  BY <1>r, PolicyStep DEF AnswerInv, PolicyRefundsRefused, Final
<1>2. \A w \in Workers :
         /\ job[w].pc \in Carrying => job[w].row.expiry <= reg'.expiry /\ job[w].row.expiry \in Nat
         /\ job[w].pc \in Answered => Recalls(job[w].info, reg') /\ job[w].info.expiry \in Nat
  <2> SUFFICES ASSUME NEW w \in Workers
               PROVE  /\ job[w].pc \in Carrying => job[w].row.expiry <= reg'.expiry /\ job[w].row.expiry \in Nat
                      /\ job[w].pc \in Answered => Recalls(job[w].info, reg') /\ job[w].info.expiry \in Nat
    OBVIOUS
  <2>1. ASSUME job[w].pc \in Carrying
        PROVE  job[w].row.expiry <= reg'.expiry /\ job[w].row.expiry \in Nat
    <3>1. job[w].row.expiry \in Nat /\ job[w].row.expiry <= reg.expiry
      BY <1>t, <2>1, JobFields DEF AnswerInv, Row
    <3> QED BY <1>n, <1>r, <3>1
  <2>2. ASSUME job[w].pc \in Answered
        PROVE  Recalls(job[w].info, reg') /\ job[w].info.expiry \in Nat
    <3>1. job[w].info.expiry \in Nat /\ Recalls(job[w].info, reg)
      BY <1>t, <2>2, JobFields DEF AnswerInv, Record
    <3> QED BY <1>n, <1>r, <3>1 DEF Recalls
  <2> QED BY <2>1, <2>2
<1>3. ASSUME UNCHANGED <<row, job>>
      PROVE  AnswerInv'
  <2>1. row'.expiry <= reg'.expiry
    BY <1>3, <1>n, <1>r DEF AnswerInv, ExpiryNotOverstated
  <2> QED BY <1>1, <1>2, <1>3, <1>r, <2>1 DEF AnswerInv, ExpiryNotOverstated
<1>4. ASSUME NEW w \in Workers, Step(w)
      PROVE  AnswerInv'
  <2>1. (\A v \in Workers \ {w} : job'[v] = job[v]) /\ Carried(w) /\ Written(w)
    BY <1>4, WorkerStep
  <2>2. row.expiry <= reg'.expiry
    BY <1>n, <1>r DEF AnswerInv, ExpiryNotOverstated
  <2>3. ExpiryNotOverstated'
    BY <1>2, <1>n, <2>1, <2>2 DEF Written, Recalls, ExpiryNotOverstated
  <2>4. /\ job'[w].pc \in Carrying => job'[w].row.expiry <= reg'.expiry
        /\ job'[w].pc \in Answered => Recalls(job'[w].info, reg')
        /\ job'[w].pc = "renewed" => job'[w].info.status \in {"active", "suspended"}
    <3>1. CASE job'[w] = job[w]
      BY <1>2, <3>1 DEF AnswerInv
    <3>2. CASE job'[w] = Idle
      BY <3>2 DEF Idle, Carrying, Answered
    <3>3. CASE job'[w].pc \in Carrying \ Answered /\ job'[w].row = row
      BY <2>2, <3>3 DEF Answered
    <3>4. CASE /\ job'[w].pc \in Answered /\ job[w].pc \in Carrying
               /\ job'[w].row = job[w].row /\ job'[w].info = reg'
               /\ reg'.status # "none"
               /\ job'[w].pc = "renewed" => reg'.status \in {"active", "suspended"}
      <4>1. Recalls(reg', reg')
        BY <1>n, <1>r, <3>4 DEF Recalls, Registered
      <4> QED BY <1>2, <3>4, <4>1
    <3> QED BY <2>1, <3>1, <3>2, <3>3, <3>4 DEF Carried
  <2>5. \A v \in Workers \ {w} :
           /\ job'[v].pc \in Carrying => job'[v].row.expiry <= reg'.expiry
           /\ job'[v].pc \in Answered => Recalls(job'[v].info, reg')
           /\ job'[v].pc = "renewed" => job'[v].info.status \in {"active", "suspended"}
    BY <1>2, <2>1 DEF AnswerInv
  <2> QED BY <1>1, <1>r, <2>3, <2>4, <2>5 DEF AnswerInv
<1>5. CASE ~ \E w \in Workers : Step(w)
  BY <1>3, <1>5 DEF Next, AskRenewal, RegistrarReviews, RegistrarActivates, RegistrarMoves, vars
<1> QED BY <1>4, <1>5

(* Whatever stale row or answer a worker writes back, the client is never    *)
(* promised more years than the registrar has sold.                          *)
THEOREM NotOverstated == Spec => []ExpiryNotOverstated
<1>1. Init => AnswerInv
  BY AnswerInit
<1>2. AnswerInv => ExpiryNotOverstated
  BY DEF AnswerInv
<1>3. Spec => []TypeOK
  BY TypeCorrect, PTL DEF TypeInv
<1> QED BY <1>1, <1>2, <1>3, AnswerStep, PTL DEF Spec

(* The refund policy credits only what the registrar refused or deleted for  *)
(* good, with the documents verified where they are needed, although the     *)
(* answer may be old and is applied to a row that has moved since.           *)
THEOREM RefusedOnly == Spec => []PolicyRefundsRefused
<1>1. Init => AnswerInv
  BY AnswerInit
<1>2. AnswerInv => PolicyRefundsRefused
  BY DEF AnswerInv
<1>3. Spec => []TypeOK
  BY TypeCorrect, PTL DEF TypeInv
<1> QED BY <1>1, <1>2, <1>3, AnswerStep, PTL DEF Spec

LEMMA HeldStep ==
    ASSUME "active" \notin AdminTargets, TypeOK, AnswerInv, HeldInv, [Next]_vars
    PROVE  HeldInv'
<1> SUFFICES ASSUME NeedsDocuments, Held(reg')
             PROVE  /\ row'.status # "active"
                    /\ \A w \in Workers : job'[w].pc \in Carrying => job'[w].row.status # "active"
  BY DEF HeldInv
<1>1. Held(reg)
  BY RegistrarStep DEF AnswerInv
<1>2. /\ row.status # "active"
      /\ \A w \in Workers : job[w].pc \in Carrying => job[w].row.status # "active"
      /\ \A w \in Workers : job[w].pc \in Answered => Held(job[w].info)
  BY <1>1 DEF HeldInv, AnswerInv, Recalls
<1>3. CASE ~ \E w \in Workers : Step(w)
  <2>1. UNCHANGED <<row, job>>
    BY <1>3 DEF Next, AskRenewal, RegistrarReviews, RegistrarActivates, RegistrarMoves, vars
  <2> QED BY <1>2, <2>1
<1>4. ASSUME NEW w \in Workers, Step(w)
      PROVE  /\ row'.status # "active"
             /\ \A v \in Workers : job'[v].pc \in Carrying => job'[v].row.status # "active"
  <2>1. (\A v \in Workers \ {w} : job'[v] = job[v]) /\ Carried(w) /\ Written(w)
    BY <1>4, WorkerStep
  <2>2. row'.status # "active"
    BY <1>2, <2>1 DEF Written
  <2>3. job'[w].pc \in Carrying => job'[w].row.status # "active"
    BY <1>2, <2>1 DEF Carried, Idle, Carrying, Answered
  <2> QED BY <1>2, <2>1, <2>2, <2>3
<1> QED BY <1>3, <1>4

(* Unless an administrator sets a domain active by hand, a name the          *)
(* registrar holds back until its documents are verified is not active here. *)
THEOREM HeldBack == "active" \notin AdminTargets => (Spec => []HeldUntilVerified)
<1> SUFFICES ASSUME "active" \notin AdminTargets PROVE Spec => []HeldUntilVerified
  OBVIOUS
<1>1. Init => AnswerInv /\ HeldInv
  BY AnswerInit
<1>2. HeldInv => HeldUntilVerified
  BY DEF HeldInv, HeldUntilVerified, Held
<1>3. Spec => []TypeOK
  BY TypeCorrect, PTL DEF TypeInv
<1>4. TypeOK /\ AnswerInv /\ HeldInv /\ [Next]_vars => HeldInv'
  BY HeldStep
<1> QED BY <1>1, <1>2, <1>3, <1>4, AnswerStep, PTL DEF Spec

-----------------------------------------------------------------------------
(* One worker at a time: nothing writes the row between a worker's read and  *)
(* its write.                                                                *)

Alone == \A v, w \in Workers : v = w

\* What the worker carries is the row, which waits for its registration while
\* one is placed, and says refunded if and only if there was one refund.
AloneInv ==
    /\ \A w \in Workers : job[w].pc \in Carrying => job[w].row = row
    /\ \A w \in Workers : job[w].pc \in {"order", "placed"}
                             => row.status \in {"pending", "pending_transfer"}
    /\ RefundRecorded /\ RefundedOnce

\* What a step may do to the refund.
RefundStep ==
    \/ row'.refunded = row.refunded /\ credited' = credited
    \/ ~row.refunded /\ row'.refunded = TRUE /\ Refunds' = Refunds + 1

LEMMA AloneStep ==
    ASSUME Alone, TypeOK, AloneInv, NEW w \in Workers, Step(w)
    PROVE  /\ RefundStep
           /\ DomainStep
           /\ job'[w].pc \in Carrying => job'[w].row = row'
           /\ job'[w].pc \in {"order", "placed"} => row'.status \in {"pending", "pending_transfer"}
<1> DEFINE j == job[w]
<1>t. /\ row \in Row /\ reg \in Record /\ job \in [Workers -> Job]
      /\ credited \in [{"policy", "admin"} -> Nat]
  BY DEF TypeOK
<1>j. /\ j \in Job
      /\ j.pc \in Carrying => j.row = row
      /\ j.pc \in Answered => j.info \in Record
  BY <1>t, JobFields DEF AloneInv
<1>i. Idle.pc \notin Carrying /\ Idle.pc \notin {"order", "placed"}
  BY DEF Idle, Carrying, Answered
<1>1. CASE RegisterDomainJob(w) \/ SyncDomainJob(w) \/ RenewDomainJob(w) \/ ReadForEdit(w)
  <2>1. /\ row' = row /\ credited' = credited
        /\ \/ job' = job /\ j = Idle
           \/ job'[w].row = row /\ job'[w].pc \in {"order", "sync", "renew", "edit"}
    BY <1>t, <1>1 DEF RegisterDomainJob, SyncDomainJob, RenewDomainJob, ReadForEdit
  <2>2. job'[w].pc = "order" => row.status \in {"pending", "pending_transfer"}
    BY <1>t, <1>1 DEF RegisterDomainJob, SyncDomainJob, RenewDomainJob, ReadForEdit, Idle
  <2> QED BY <1>i, <2>1, <2>2 DEF RefundStep, DomainStep
<1>2. CASE \/ (\E held \in BOOLEAN : Register(w, held)) \/ Renew(w) \/ FetchSync(w)
  <2>1. /\ row' = row /\ credited' = credited /\ j.pc \in {"order", "renew", "sync"}
        /\ job'[w].row = j.row /\ job'[w].pc \in Answered
        /\ job'[w].pc = "placed" => j.pc = "order"
    BY <1>t, <1>2 DEF Register, Renew, FetchSync, Answered
  <2> QED BY <1>j, <2>1 DEF RefundStep, DomainStep, AloneInv, Carrying, Answered
<1>3. CASE ActivateFromResult(w)
  <2>1. j.pc = "placed" /\ j.row = row /\ j.info \in Record /\ row.status \in {"pending", "pending_transfer"}
    BY <1>3, <1>j DEF ActivateFromResult, Carrying, Answered, AloneInv
  <2>2. /\ ApplyVerification(row, j.info) \in Row
        /\ ApplyVerification(row, j.info).status = row.status
        /\ ApplyVerification(row, j.info).refunded = row.refunded
    BY <1>t, <2>1, Applied
  <2>3. /\ row'.status \in {row.status, "active"} /\ row'.refunded = row.refunded
        /\ credited' = credited /\ job'[w] = Idle
    BY <1>t, <1>3, <2>1, <2>2 DEF ActivateFromResult, Row
  <2> QED BY <1>i, <2>1, <2>3 DEF RefundStep, DomainStep, CanTransition, DomainTransitions
<1>4. CASE RecordRenewal(w)
  <2>1. j.row = row
    BY <1>4, <1>j DEF RecordRenewal, Carrying, Answered
  <2>2. /\ row'.status = IF row.status = "expired" THEN "active" ELSE row.status
        /\ row'.refunded = row.refunded /\ credited' = credited /\ job'[w] = Idle
    BY <1>t, <1>4, <2>1 DEF RecordRenewal, Row
  <2> QED BY <1>i, <2>2 DEF RefundStep, DomainStep, CanTransition, DomainTransitions
<1>5. CASE ApplySync(w)
  <2>1. j.row = row /\ j.info \in Record
    BY <1>5, <1>j DEF ApplySync, Carrying, Answered
  <2>2. /\ row' = MutateFromSync(row, j.info) /\ credited' = credited /\ job'[w] = Idle
    BY <1>t, <1>5, <2>1 DEF ApplySync
  <2> QED BY <1>t, <1>i, <2>1, <2>2, Mutated DEF RefundStep, DomainStep
<1>6. CASE SettleRejected(w)
  <2>1. j.info \in Record /\ job'[w] = Idle
    BY <1>t, <1>6, <1>j DEF SettleRejected, Answered
  <2> DEFINE m == MutateFromSync(row, j.info)
             refund == m.status = "rejected" /\ RefundEligible(m)
  <2>2. /\ m \in Row /\ m.refunded = row.refunded
        /\ m.status # row.status => CanTransition(row.status, m.status)
    BY <1>t, <2>1, Mutated
  <2>3. \/ row' = row /\ credited' = credited
        \/ /\ row' = [m EXCEPT !.refunded = @ \/ refund]
           /\ credited' = [credited EXCEPT !["policy"] = IF refund THEN @ + 1 ELSE @]
    BY <1>6 DEF SettleRejected
  <2>4. refund \in BOOLEAN /\ (refund => ~m.refunded)
    BY DEF RefundEligible
  <2> HIDE DEF m, refund
  <2>5. CASE row' = row /\ credited' = credited
    BY <1>i, <2>1, <2>5 DEF RefundStep, DomainStep
  <2>6. CASE /\ row' = [m EXCEPT !.refunded = @ \/ refund]
             /\ credited' = [credited EXCEPT !["policy"] = IF refund THEN @ + 1 ELSE @]
    <3>1. row'.status = m.status /\ row'.refunded = (m.refunded \/ refund)
      BY <2>2, <2>6 DEF Row
    <3>2. CASE refund
      <4>1. Refunds' = Refunds + 1
        BY <1>t, <2>6, <3>2 DEF Refunds
      <4> QED BY <1>i, <2>1, <2>2, <2>4, <3>1, <3>2, <4>1 DEF RefundStep, DomainStep
    <3>3. CASE ~refund
      <4>1. credited' = credited
        BY <1>t, <2>6, <3>3
      <4>2. m.refunded \in BOOLEAN
        BY <2>2 DEF Row
      <4> QED BY <1>i, <2>1, <2>2, <3>1, <3>3, <4>1, <4>2 DEF RefundStep, DomainStep
    <3> QED BY <3>2, <3>3
  <2> QED BY <2>3, <2>5, <2>6
<1>7. CASE AdminRefund(w)
  <2>1. /\ ~row.refunded /\ row'.refunded = TRUE /\ row'.status = row.status
        /\ job'[w] = Idle
    BY <1>t, <1>7 DEF AdminRefund, Row
  <2>2. Refunds' = Refunds + 1
    BY <1>t, <1>7 DEF AdminRefund, Refunds
  <2> QED BY <1>i, <2>1, <2>2 DEF RefundStep, DomainStep
<1>8. CASE UpdateDomain(w) \/ Return(w)
  <2>1. row' = row /\ credited' = credited /\ job'[w] = Idle
    BY <1>t, <1>j, <1>8 DEF UpdateDomain, Return, Carrying
  <2> QED BY <1>i, <2>1 DEF RefundStep, DomainStep
<1>9. CASE \E target \in AdminTargets : AdminUpdate(w, target)
  <2>1. j.row = row
    BY <1>9, <1>j DEF AdminUpdate, Carrying
  <2>2. /\ CanTransition(row.status, row'.status) /\ row'.refunded = row.refunded
        /\ credited' = credited /\ job'[w] = Idle
    BY <1>t, <1>9, <2>1 DEF AdminUpdate, Row
  <2> QED BY <1>i, <2>2 DEF RefundStep, DomainStep
<1> QED BY <1>1, <1>2, <1>3, <1>4, <1>5, <1>6, <1>7, <1>8, <1>9 DEF Step

LEMMA AloneSteps ==
    ASSUME Alone, TypeOK, AloneInv, [Next]_vars
    PROVE  AloneInv' /\ DomainStep
<1>1. CASE ~ \E w \in Workers : Step(w)
  <2>1. UNCHANGED <<row, credited, job>>
    BY <1>1 DEF Next, AskRenewal, RegistrarReviews, RegistrarActivates, RegistrarMoves, vars
  <2> QED BY <2>1 DEF AloneInv, DomainStep, RefundRecorded, RefundedOnce, Refunds
<1>2. ASSUME NEW w \in Workers, Step(w)
      PROVE  AloneInv' /\ DomainStep
  <2>1. /\ RefundStep /\ DomainStep
        /\ job'[w].pc \in Carrying => job'[w].row = row'
        /\ job'[w].pc \in {"order", "placed"} => row'.status \in {"pending", "pending_transfer"}
    BY <1>2, AloneStep
  <2>2. \A v \in Workers : v = w
    BY DEF Alone
  <2>3. Refunds \in Nat /\ RefundRecorded /\ RefundedOnce
    BY DEF TypeOK, Refunds, AloneInv
  <2>4. RefundRecorded' /\ RefundedOnce'
    <3>1. CASE row'.refunded = row.refunded /\ credited' = credited
      BY <2>3, <3>1 DEF RefundRecorded, RefundedOnce, Refunds
    <3>2. CASE ~row.refunded /\ row'.refunded = TRUE /\ Refunds' = Refunds + 1
      <4>1. Refunds = 0
        BY <2>3, <3>2 DEF RefundRecorded
      <4>2. Refunds' = 1
        BY <3>2, <4>1
      <4> QED BY <3>2, <4>2 DEF RefundRecorded, RefundedOnce
    <3> QED BY <2>1, <3>1, <3>2 DEF RefundStep
  <2> QED BY <2>1, <2>2, <2>4 DEF AloneInv
<1> QED BY <1>1, <1>2

LEMMA AloneInit == Init => AloneInv
BY DEF Init, AloneInv, Idle, Carrying, Answered, RefundRecorded, RefundedOnce, Refunds

(* With one job or request of a domain at a time, its registration is        *)
(* credited at most once, by the policy and the administrators together, and *)
(* the row says so.                                                          *)
THEOREM OneRefund == Alone => (Spec => [](RefundedOnce /\ RefundRecorded))
<1> SUFFICES ASSUME Alone PROVE Spec => [](RefundedOnce /\ RefundRecorded)
  OBVIOUS
<1>1. AloneInv => RefundedOnce /\ RefundRecorded
  BY DEF AloneInv
<1>2. Spec => []TypeOK
  BY TypeCorrect, PTL DEF TypeInv
<1>3. TypeOK /\ AloneInv /\ [Next]_vars => AloneInv'
  BY AloneSteps
<1> QED BY <1>1, <1>2, <1>3, AloneInit, PTL DEF Spec

(* With one job or request of a domain at a time, its status moves only      *)
(* along domainTransitions: what is cancelled or rejected stays so.          *)
THEOREM OneWay == Alone => (Spec => DomainLifecycle)
<1> SUFFICES ASSUME Alone PROVE Spec => DomainLifecycle
  OBVIOUS
<1>1. Spec => []TypeOK
  BY TypeCorrect, PTL DEF TypeInv
<1>2. TypeOK /\ AloneInv /\ [Next]_vars => AloneInv'
  BY AloneSteps
<1>3. TypeOK /\ AloneInv /\ [Next]_vars => [DomainStep]_vars
  BY AloneSteps
<1>4. Spec => [](TypeOK /\ AloneInv)
  BY <1>1, <1>2, AloneInit, PTL DEF Spec
<1>5. [](TypeOK /\ AloneInv) /\ [][Next]_vars => [][DomainStep]_vars
  BY <1>3, PTL
<1> QED BY <1>4, <1>5 DEF Spec, DomainLifecycle

-----------------------------------------------------------------------------
(* Renewals, when no answer of the registrar is lost. *)

Renewed == {w \in Workers : job[w].pc = "renewed"}

\* Nothing is renewed before the name is registered.
PaidInv ==
    /\ reg.status # "none" => reg.expiry = CycleYears + (asked - renewals) + Cardinality(Renewed)
    /\ reg.status = "none" => asked = renewals /\ Renewed = {}

LEMMA PaidFrame ==
    ASSUME TypeOK, PaidInv, Renewed' = Renewed, reg'.expiry = reg.expiry,
           asked' - renewals' = asked - renewals, asked' \in Nat, renewals' \in Nat,
           reg'.status = "none" <=> reg.status = "none"
    PROVE  PaidInv'
<1>1. asked \in Nat /\ renewals \in Nat
  BY DomainsAssumption DEF TypeOK
<1>2. Cardinality(Renewed') = Cardinality(Renewed) /\ Cardinality(Renewed) \in Nat
  BY DomainsAssumption, FS_Subset, FS_CardinalityType DEF Renewed
<1>3. asked = renewals => asked' = renewals'
  <2>1. \A a, b, c, d \in Nat : c - d = a - b /\ a = b => c = d
    OBVIOUS
  <2> QED BY <1>1, <2>1
<1>4. CycleYears + (asked' - renewals') + Cardinality(Renewed')
        = CycleYears + (asked - renewals) + Cardinality(Renewed)
  BY <1>2
<1> QED BY <1>3, <1>4 DEF PaidInv

LEMMA PaidStep == LostAnswers = FALSE /\ TypeOK /\ TypeOK' /\ PaidInv /\ [Next]_vars => PaidInv'
<1> SUFFICES ASSUME LostAnswers = FALSE, TypeOK, TypeOK', PaidInv, [Next]_vars PROVE PaidInv'
  OBVIOUS
<1>t. /\ job \in [Workers -> Job] /\ reg \in Record /\ reg.expiry \in Nat
      /\ asked \in Nat /\ renewals \in Nat /\ asked' \in Nat /\ renewals' \in Nat
  BY DomainsAssumption DEF TypeOK, Record
<1>f. IsFiniteSet(Renewed) /\ Cardinality(Renewed) \in Nat
  BY DomainsAssumption, FS_Subset, FS_CardinalityType DEF Renewed
<1>1. ASSUME NEW w \in Workers, Renew(w) PROVE PaidInv'
  <2>1. Renewed' = Renewed \cup {w} /\ w \notin Renewed
    BY <1>1, <1>t DEF Renew, Renewed
  <2>2. Cardinality(Renewed') = Cardinality(Renewed) + 1
    BY <1>f, <2>1, FS_AddElement
  <2>3. /\ reg'.expiry = reg.expiry + CycleYears /\ reg.status # "none" /\ reg'.status # "none"
        /\ UNCHANGED <<asked, renewals>>
    BY <1>1, <1>t DEF Renew, Record
  <2> QED BY <1>t, <1>f, <2>2, <2>3 DEF PaidInv, CycleYears
<1>2. ASSUME NEW w \in Workers, RecordRenewal(w) PROVE PaidInv'
  <2>1. Renewed' = Renewed \ {w} /\ w \in Renewed
    BY <1>2, <1>t DEF RecordRenewal, Renewed, Idle
  <2>2. Cardinality(Renewed') = Cardinality(Renewed) - 1
    BY <1>f, <2>1, FS_RemoveElement
  <2>3. reg' = reg /\ asked' = asked /\ renewals' = renewals - 1 /\ reg.status # "none"
    BY <1>2, <2>1 DEF RecordRenewal, PaidInv
  <2> QED BY <1>t, <1>f, <2>2, <2>3 DEF PaidInv, CycleYears
<1>3. ASSUME NEW w \in Workers, NEW held \in BOOLEAN, Register(w, held) PROVE PaidInv'
  <2>1. /\ Renewed' = Renewed /\ reg.status = "none" /\ reg'.status # "none"
        /\ reg'.expiry = CycleYears /\ UNCHANGED <<asked, renewals>>
    BY <1>3, <1>t DEF Register, Renewed
  <2>2. Renewed' = {} /\ asked' = renewals'
    BY <2>1 DEF PaidInv
  <2> QED BY <1>t, <2>1, <2>2, FS_EmptySet DEF PaidInv, CycleYears
<1>4. ASSUME NEW w \in Workers, Step(w), ~Renew(w), ~RecordRenewal(w),
             \A held \in BOOLEAN : ~Register(w, held)
      PROVE  PaidInv'
  <2>1. UNCHANGED <<reg, asked, renewals>>
    BY <1>4 DEF Step, RegisterDomainJob, ActivateFromResult, RenewDomainJob,
         SyncDomainJob, FetchSync, ApplySync, SettleRejected, AdminRefund, ReadForEdit,
         UpdateDomain, AdminUpdate, Return
  <2>2. /\ job[w].pc # "renewed" /\ job'[w].pc # "renewed"
        /\ \A v \in Workers \ {w} : job'[v] = job[v]
    <3>1. CASE RegisterDomainJob(w) \/ RenewDomainJob(w) \/ SyncDomainJob(w) \/ ReadForEdit(w)
               \/ AdminRefund(w)
      BY <1>t, <3>1 DEF RegisterDomainJob, RenewDomainJob, SyncDomainJob, ReadForEdit, AdminRefund, Idle
    <3>2. CASE \/ ActivateFromResult(w) \/ ApplySync(w) \/ SettleRejected(w) \/ UpdateDomain(w)
               \/ Return(w) \/ \E target \in AdminTargets : AdminUpdate(w, target)
      <4>1. job' = [job EXCEPT ![w] = Idle] /\ job[w].pc # "renewed"
        BY <3>2 DEF ActivateFromResult, ApplySync, SettleRejected, UpdateDomain, Return, AdminUpdate
      <4> QED BY <1>t, <4>1 DEF Idle
    <3>3. CASE FetchSync(w)
      BY <1>t, <3>3 DEF FetchSync
    <3> QED BY <1>4, <3>1, <3>2, <3>3 DEF Step
  <2>3. Renewed' = Renewed
    BY <2>2 DEF Renewed
  <2> QED BY <1>t, <2>1, <2>3, PaidFrame
<1>5. CASE AskRenewal
  <2>1. Renewed' = Renewed /\ reg' = reg /\ asked' = asked + 1 /\ renewals' = renewals + 1
    BY <1>5 DEF AskRenewal, Renewed
  <2> QED BY <1>t, <2>1, PaidFrame
<1>6. CASE \/ \E v \in Verification : RegistrarReviews(v)
           \/ RegistrarActivates
           \/ \E to \in Status, refundable \in BOOLEAN : RegistrarMoves(to, refundable)
           \/ UNCHANGED vars
  <2>1. /\ Renewed' = Renewed /\ reg'.expiry = reg.expiry /\ UNCHANGED <<asked, renewals>>
        /\ reg'.status = "none" <=> reg.status = "none"
    <3>1. UNCHANGED <<asked, renewals, job>>
      BY <1>6 DEF RegistrarReviews, RegistrarActivates, RegistrarMoves, vars
    <3>2. reg'.expiry = reg.expiry
      BY <1>6, <1>t DEF RegistrarReviews, RegistrarActivates, RegistrarMoves, vars, Record
    <3>3. reg'.status = "none" <=> reg.status = "none"
      BY <1>6, <1>t DEF RegistrarReviews, RegistrarActivates, RegistrarMoves, vars, Record, Status
    <3> QED BY <3>1, <3>2, <3>3 DEF Renewed
  <2> QED BY <1>t, <2>1, PaidFrame
<1> QED BY <1>1, <1>2, <1>3, <1>4, <1>5, <1>6 DEF Next

(* As long as no worker dies between the registrar's answer and its own      *)
(* write, the registrar has been asked for the first term and for every      *)
(* renewal whose task is done, no more and no less, by any number of workers *)
(* at once.                                                                  *)
THEOREM RenewalsPaid == LostAnswers = FALSE => (Spec => []RenewedAsPaid)
<1> SUFFICES ASSUME LostAnswers = FALSE PROVE Spec => []RenewedAsPaid
  OBVIOUS
<1>1. Init => PaidInv
  BY DEF Init, PaidInv, Renewed, Idle
<1>2. PaidInv => RenewedAsPaid
  BY DEF PaidInv, RenewedAsPaid, Renewed
<1>3. Spec => []TypeOK
  BY TypeCorrect, PTL DEF TypeInv
<1>4. TypeOK /\ TypeOK' /\ PaidInv /\ [Next]_vars => PaidInv'
  BY PaidStep
<1> QED BY <1>1, <1>2, <1>3, <1>4, PTL DEF Spec
=============================================================================
