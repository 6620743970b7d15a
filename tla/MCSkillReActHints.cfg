SPECIFICATION Spec
CONSTANTS
    list = list  write = write  note = note
    e1 = e1  e2 = e2
    Calls = {list, write, note}
    Notes = {note}
    Deltas = {"seen", "filed"}
    Files = {"filed"}
    Errors = {e1, e2}
    NoError = NoError
    NoText = NoText
    Nil = Nil
    MaxTurns = 5
    MaxCalls = 2
    MaxRepeatedActions = 2
    MaxNoProgress = 2
    MaxRepeatedStates = 2
    HintInterval = 2
SYMMETRY Symmetry
CHECK_DEADLOCK FALSE
INVARIANT LoopsAreHinted
