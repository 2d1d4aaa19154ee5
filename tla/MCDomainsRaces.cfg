SPECIFICATION Spec
CONSTANTS
    Workers = {w1, w2}
    Years = 1
    Transfer = FALSE
    NeedsDocuments = TRUE
    AdminTargets = {}
    MaxAsked = 1
    MaxExpiry = 2
    MaxCredited = 1
    LostAnswers = TRUE
    VerifiesAtOnce = FALSE
SYMMETRY WorkerSymmetry
INVARIANTS
    PolicyRefundsRefused
    HeldUntilVerified
    
