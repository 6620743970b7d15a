SPECIFICATION FairSpec
CONSTANTS
    skill = skill  tool = tool
    Calls = {skill, tool}
    SkillCalls = {skill}
    AskUser = AskUser
    MaxSteps = 2
    MaxBatch = 2
    MaxIter = 5
    MaxReact = 2
    MaxReplans = 1
    MaxFailures = 2
    MaxDuplicates = 2
    None = None
INVARIANTS
    TypeOK
    BudgetsKept
    DoneIsPassed
    CallsAnswered
PROPERTIES
    BlockedHasRun
    ExhaustedIsLeft
    Terminates
CHECK_DEADLOCK FALSE
