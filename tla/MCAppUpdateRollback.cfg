SPECIFICATION Spec
CONSTANTS
    t1 = t1  t2 = t2
    Tasks = {t1, t2}
    Size = 2
    None = None
SYMMETRY Symmetry
INVARIANT SuccessIsVerified
CHECK_DEADLOCK FALSE
