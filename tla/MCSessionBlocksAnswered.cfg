SPECIFICATION Spec
CONSTANTS
    r1 = r1  r2 = r2  r3 = r3
    s1 = s1  s2 = s2
    Runs = {r1, r2, r3}
    Sessions = {s1, s2}
    SessionOf <- MCSessionOf
    MaxContexts = 1
    PastBlocks = 2
    CallsOf <- MCCallsOf
    MaxCrashes = 0
    MaxTogether = 1
    None = None
PROPERTY PromptIsAnswered
CHECK_DEADLOCK FALSE
