SPECIFICATION Spec
CONSTANTS
    r1 = r1
    r2 = r2
    c1 = c1
    c2 = c2
    c3 = c3
    c4 = c4
    d1 = d1
    NoRow = NoRow
    NoCode = NoCode
    NoDestination = NoDestination
    Destination <- OneDestination
    Code <- TwoCodes
    Request <- TwoRequests
    otpMaxAttempts = 2
    Faults = FALSE
SYMMETRY Symmetry
INVARIANT OneActiveCode
