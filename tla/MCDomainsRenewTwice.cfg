SPECIFICATION Spec
CONSTANTS
    Workers = {w1}
    Years = 1
    Transfer = FALSE
    NeedsDocuments = FALSE
    AdminTargets = {"cancelled"}
    MaxAsked = 1
    MaxExpiry = 3
    MaxCredited = 1
    LostAnswers = TRUE
    VerifiesAtOnce = FALSE
INVARIANTS
    RenewedAtMostAsPaid
