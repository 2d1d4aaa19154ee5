SPECIFICATION Spec
CONSTANTS
    Workers = {w1, w2}
    Years = 1
    Transfer = FALSE
    NeedsDocuments = FALSE
    AdminTargets = {}
    MaxAsked = 0
    MaxExpiry = 3
    MaxCredited = 2
    LostAnswers = FALSE
    VerifiesAtOnce = FALSE
INVARIANTS
    RefundedOnce
