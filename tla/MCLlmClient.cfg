SPECIFICATION Spec
CONSTANTS
    c1 = c1  c2 = c2  c3 = c3
    Callers = {c1, c2, c3}
    FailureThreshold = 3
    HalfOpenMaxCalls = 2
    MaxRetries = 1
    MaxRawRetries = 1
INVARIANTS
    TypeOK
    ProbesWithinLimit
    ExhaustedByLoss
PROPERTY
    Recovers
