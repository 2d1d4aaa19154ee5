SPECIFICATION Spec
CONSTANTS
    Workers = {w1, w2}
    w1 = w1
    w2 = w2
SYMMETRY WorkerSymmetry
CONSTRAINT UpToFirstRace
CHECK_DEADLOCK FALSE
INVARIANT TypeOK
INVARIANT OrdersDelivered
INVARIANT OrdersConserved
INVARIANT DomainMoneyKept
INVARIANT ServiceAgrees
INVARIANT AccountsKept
PROPERTY LifecyclesKept
