----------------------------- MODULE Settlement -----------------------------
(***************************************************************************)
(* What the payment core promises about one set of invoices, with the      *)
(* gateway, the transactions and the workers out of sight: an invoice is   *)
(* opened once, closed by one payment or by a cancellation, its effects    *)
(* run in the step that pays it, and only a paid invoice is refunded.      *)
(***************************************************************************)
EXTENDS Naturals

CONSTANT Invoices

VARIABLES
    phase,    \* where each invoice is in its life
    effects   \* how often the effects of paying it have run

Phases == {"absent", "open", "paid", "refunded", "cancelled"}

Init ==
    /\ phase = [i \in Invoices |-> "absent"]
    /\ effects = [i \in Invoices |-> 0]

Move(i, from, to) ==
    /\ phase[i] = from
    /\ phase' = [phase EXCEPT ![i] = to]

Open(i) == Move(i, "absent", "open") /\ UNCHANGED effects

Pay(i) ==
    /\ Move(i, "open", "paid")
    /\ effects' = [effects EXCEPT ![i] = @ + 1]

Cancel(i) == Move(i, "open", "cancelled") /\ UNCHANGED effects

Refund(i) == Move(i, "paid", "refunded") /\ UNCHANGED effects

Next == \E i \in Invoices : Open(i) \/ Pay(i) \/ Cancel(i) \/ Refund(i)

Spec == Init /\ [][Next]_<<phase, effects>>
=============================================================================
