SPECIFICATION Spec
CONSTANTS
    Requests = {r1, r2}
    r1 = r1
    r2 = r2
SYMMETRY RequestSymmetry
CHECK_DEADLOCK FALSE
INVARIANT AccessHolds
 
 
INVARIANT RegistrarHolds
 
 
 
INVARIANT GatewayHolds
 
INVARIANT WorkHolds
 
 
