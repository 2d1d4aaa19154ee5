SPECIFICATION Spec
CONSTANTS
    Workers = {w1, w2}
    w1 = w1
    w2 = w2
SYMMETRY WorkerSymmetry
CHECK_DEADLOCK FALSE
PROPERTY RemovesOwnAccount
