---------------------------- MODULE MCInvoicing ----------------------------
(* Small instances of Invoicing for TLC. *)
EXTENDS Invoicing, TLC

CONSTANTS i1, i2

OneKind == [i \in Invoices |-> "order"]
DepositKind == [i \in Invoices |-> IF i = i1 THEN "deposit" ELSE "order"]
EqualPrice == [i \in Invoices |-> 2]
SmallAdjustments == {-2, 2}
WorkerSymmetry == Permutations(Workers)
=============================================================================
