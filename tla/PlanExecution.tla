---------------------------- MODULE PlanExecution ----------------------------
(***************************************************************************)
(* One agent run executing its task plan (run_plan_execution): for each    *)
(* step of the plan a bounded loop of model calls and tool calls, then a   *)
(* reflection that decides whether to go on, stay, plan anew or finish.    *)
(*                                                                         *)
(* The run is one coroutine; what the model answers, what the tools return *)
(* and what the reflection decides is open, within what the code accepts.  *)
(* Messages are left out, except for whether every tool call is answered.  *)
(***************************************************************************)
EXTENDS Naturals, Sequences

CONSTANTS
    Calls,          \* tool calls, told apart by name and arguments
    SkillCalls,     \* those of them that call execute_skill
    AskUser,        \* the ask_user tool call
    MaxSteps,       \* bound: the steps of a generated plan
    MaxBatch,       \* bound: the tool calls of one model response
    MaxIter,        \* max_iterations of the agent configuration
    MaxReact,       \* AgentConfig.max_react_per_step
    MaxReplans,     \* AgentConfig.max_replans
    MaxFailures,    \* AgentConfig.max_consecutive_exec_failures
    MaxDuplicates,  \* AgentConfig.max_duplicate_tool_calls
    None

\* The text a call returns, by what the code makes of it: two different good
\* ones, a skill that reports failure, one whose diagnostics call for asking the
\* user or aborting, and an exception of the dispatcher.
Texts == {"ok", "other", "failed", "fatal", "raised"}
Results(c) == IF c \in SkillCalls THEN Texts ELSE {"ok", "other", "raised"}

\* What AgentConfig.__post_init__ demands.
ASSUME PlanAssumption ==
    /\ SkillCalls \subseteq Calls
    /\ AskUser \notin Calls
    /\ None \notin Calls \cup Texts
    /\ {MaxSteps, MaxBatch, MaxIter, MaxReplans} \subseteq Nat
    /\ {MaxReact, MaxFailures, MaxDuplicates} \subseteq Nat \ {0}

VARIABLES
    pc,         \* where run_plan_execution stands
    steps,      \* the number of steps of state.task_plan
    idx,        \* state.current_plan_step_idx, from 0
    statuses,   \* state.plan_step_statuses
    marked,     \* session_ctx._plan_statuses
    replans,    \* state.replan_count
    iteration,  \* the model calls of the run
    reacts,     \* the model calls since the react loop was entered
    usageBound, \* whether the local step_usage has been assigned
    failures,   \* state.execute_failures
    toCheck,    \* tool calls of the response, not yet pre-filtered
    toRun,      \* executable_calls whose results are not yet processed
    unanswered, \* calls of the response without a tool message
    sig,        \* state._last_tool_sig
    dup,        \* state._dup_count, counted up to MaxDuplicates + 1
    lastOk,     \* state._last_tool_success
    lastResult, \* state._last_result_hash
    decision,   \* the decision of the last reflection
    ran,        \* history: the last call run, its result, how often in a row
    repeated,   \* history: has a response held the same call twice?
    reason      \* the reason of RUN_FINISHED

planVars == <<steps, idx, statuses, marked, replans>>
loopVars == <<iteration, reacts, usageBound>>
dupVars == <<sig, dup, lastOk, lastResult>>
batchVars == <<toCheck, toRun, unanswered>>
histVars == <<ran, repeated>>
vars == <<pc, planVars, loopVars, failures, batchVars, dupVars, decision, histVars, reason>>

Responses == UNION {[1 .. n -> Calls \cup {AskUser}] : n \in 1 .. MaxBatch}

AllPending(n) == [i \in 1 .. n |-> "pending"]

\* A run starts with a plan of any length: generate_plan and validate_plan pass
\* on an empty list of steps as they get it.
Init ==
    /\ pc = "loop"
    /\ steps \in 0 .. MaxSteps
    /\ idx = 0
    /\ statuses = AllPending(steps)
    /\ marked = AllPending(steps)
    /\ replans = 0
    /\ iteration = 0
    /\ reacts = 0
    /\ usageBound = FALSE
    /\ failures = 0
    /\ toCheck = <<>>
    /\ toRun = <<>>
    /\ unanswered = 0
    /\ sig = None
    /\ dup = 0
    /\ lastOk = TRUE
    /\ lastResult = None
    /\ decision = None
    /\ ran = [call |-> None, result |-> None, times |-> 0]
    /\ repeated = FALSE
    /\ reason = None

\* RUN_FINISHED is emitted; the run is over.
Finish(why) ==
    /\ pc' = "ended"
    /\ reason' = why

-----------------------------------------------------------------------------
(* The react loop of one step *)

EnterStep ==
    /\ pc = "loop"
    /\ idx < steps
    /\ pc' = "chat"
    /\ reacts' = 0
    /\ usageBound' = TRUE
    /\ UNCHANGED <<planVars, iteration, failures, batchVars, dupVars,
                   histVars, decision, reason>>

\* The next model call of the react loop: back to its head, or out of it.
NextReact == IF reacts < MaxReact THEN "chat" ELSE "boundary"

\* The run has used up its iterations.
OutOfIterations == iteration >= MaxIter

\* Iterations are counted over the whole run; the mutant counts those of a step.
CountInStep == reacts + 1
CountIteration == iteration + 1

StopAtLimit ==
    /\ pc = "chat"
    /\ OutOfIterations
    /\ iteration' = CountIteration
    /\ Finish("max_iterations")
    /\ UNCHANGED <<planVars, reacts, usageBound, failures, batchVars, dupVars, histVars,
                   decision>>

CallModel ==
    /\ pc = "chat"
    /\ ~OutOfIterations
    /\ iteration' = CountIteration

\* The model call raises (also after trimming the messages): reply_stream ends
\* the run with an error.
ModelFails ==
    /\ CallModel
    /\ Finish("error")
    /\ UNCHANGED <<planVars, reacts, usageBound, failures, batchVars, dupVars, histVars,
                   decision>>

\* "Final Answer:" leaves the react loop; any other text is answered by a nudge.
TextAnswer ==
    /\ CallModel
    /\ reacts' = reacts + 1
    /\ pc' \in {"boundary", IF reacts' < MaxReact THEN "chat" ELSE "boundary"}
    /\ UNCHANGED <<planVars, usageBound, failures, batchVars, dupVars, histVars,
                   decision, reason>>

ToolCalls(response) ==
    /\ CallModel
    /\ reacts' = reacts + 1
    /\ pc' = "check"
    /\ toCheck' = response
    /\ toRun' = <<>>
    /\ unanswered' = Len(response)
    /\ repeated' = (repeated \/ \E i, j \in DOMAIN response :
                                   i # j /\ response[i] = response[j])
    /\ UNCHANGED <<planVars, usageBound, failures, dupVars, ran, decision, reason>>

-----------------------------------------------------------------------------
(* The tool calls of one response *)

\* check_duplicate_call: the consecutive calls with this signature, this one
\* included, counted up to MaxDuplicates + 1 (more makes no difference).  The
\* mutant goes on counting over different calls.
CountAnyCall(c) == IF dup > MaxDuplicates THEN dup ELSE dup + 1
CountCall(c) ==
    IF c # sig THEN 1 ELSE IF dup > MaxDuplicates THEN dup ELSE dup + 1

\* ask_user: the question is asked and the run ends, whatever else was called.
Ask ==
    /\ pc = "check"
    /\ toCheck # <<>>
    /\ Head(toCheck) = AskUser
    /\ Finish("asked")
    /\ UNCHANGED <<planVars, loopVars, failures, batchVars, dupVars, histVars, decision>>

\* The calls left to answer once one is blocked; the mutant gives it no message.
SilentBlock == unanswered
AnswerBlocked == unanswered - 1

\* A call repeated too often whose last result was a success is answered by a
\* message that blocks it; any other is put among the calls to run.
PreFilter ==
    LET c == Head(toCheck)
        ok == c # sig \/ lastOk
    IN  /\ pc = "check"
        /\ toCheck # <<>>
        /\ c # AskUser
        /\ toCheck' = Tail(toCheck)
        /\ sig' = c
        /\ dup' = CountCall(c)
        /\ lastOk' = ok
        /\ lastResult' = IF c = sig THEN lastResult ELSE None
        /\ IF dup' > MaxDuplicates /\ ok
           THEN /\ unanswered' = AnswerBlocked
                /\ UNCHANGED toRun
           ELSE /\ toRun' = Append(toRun, c)
                /\ UNCHANGED unanswered
        /\ UNCHANGED <<pc, planVars, loopVars, failures, histVars, decision, reason>>

\* The calls are run, all at once when there are several.
Run ==
    /\ pc = "check"
    /\ toCheck = <<>>
    /\ pc' = "results"
    /\ UNCHANGED <<planVars, loopVars, failures, batchVars, dupVars, histVars,
                   decision, reason>>

\* _track_execute_result; the mutant counts only the dispatcher's exceptions.
TrackExceptions(c, r) == IF r = "raised" THEN failures + 1 ELSE failures
Track(c, r) ==
    IF c \notin SkillCalls THEN failures
    ELSE IF r \in {"ok", "other"} THEN 0 ELSE failures + 1

\* The results are processed in the order of the calls.  A skill result whose
\* diagnostics ask for it ends the run; the results after it are dropped.
Result(r) ==
    LET c == Head(toRun)
        same == ran.call = c /\ ran.result = r
    IN  /\ pc = "results"
        /\ toRun # <<>>
        /\ r \in Results(c)
        /\ IF c = sig
           THEN /\ lastOk' = (r # "raised")
                /\ dup' = IF lastResult \notin {None, r} THEN 1 ELSE dup
                /\ lastResult' = r
           ELSE UNCHANGED <<dup, lastOk, lastResult>>
        /\ failures' = Track(c, r)
        /\ ran' = [call |-> c, result |-> r,
                   times |-> IF ~same THEN 1
                             ELSE IF ran.times < MaxDuplicates THEN ran.times + 1
                             ELSE ran.times]
        /\ IF r = "fatal"
           THEN /\ Finish("policy")
                /\ UNCHANGED <<toRun, unanswered>>
           ELSE /\ toRun' = Tail(toRun)
                /\ unanswered' = unanswered - 1
                /\ UNCHANGED <<pc, reason>>
        /\ UNCHANGED <<planVars, loopVars, toCheck, sig, repeated, decision>>

\* The mutant stops only when the failures have exceeded the limit.
TooManyFailures == failures > MaxFailures
ShouldStopForFailures == failures >= MaxFailures

\* The assistant message and its tool messages are appended; the run stops
\* after too many failures in a row, else the react loop goes on.
EndBatch ==
    /\ pc = "results"
    /\ toRun = <<>>
    /\ IF ShouldStopForFailures
       THEN Finish("failures")
       ELSE /\ pc' = NextReact
            /\ UNCHANGED reason
    /\ UNCHANGED <<planVars, loopVars, failures, batchVars, dupVars, histVars, decision>>

-----------------------------------------------------------------------------
(* Reflection at the step boundary *)

Remaining == steps - (idx + 1)

\* What reflect() may return: the model's decision, after the overrides for used
\* up budgets; or, when the model's answer is no good, the fallback.  The mutant
\* forgets the override for the react budget.
DecisionsNoReactLimit ==
    {"continue", "finalize", "ask_user", "in_progress"}
    \cup (IF replans < MaxReplans THEN {"replan"} ELSE {})
    \cup (IF Remaining > 0 THEN {"continue", "replan"} ELSE {"finalize"})
Decisions ==
    {"continue", "finalize", "ask_user"}
    \cup (IF reacts < MaxReact THEN {"in_progress"} ELSE {})
    \cup (IF replans < MaxReplans THEN {"replan"} ELSE {})
    \cup (IF Remaining > 0 THEN {"continue", "replan"} ELSE {"finalize"})

Reflect ==
    /\ pc = "boundary"
    /\ pc' = "decided"
    /\ decision' \in Decisions
    /\ UNCHANGED <<planVars, loopVars, failures, batchVars, dupVars, histVars, reason>>

\* The mutant trusts the reflection to keep the replan budget.
CanAlwaysReplan == TRUE
CanReplan == replans < MaxReplans

MarkDone(st) == [st EXCEPT ![idx + 1] = "done"]

\* in_progress; and ask_user, for which the code has no branch: the same step is
\* entered again.
Stay ==
    /\ pc = "decided"
    /\ decision \in {"in_progress", "ask_user"}
    /\ pc' = "loop"
    /\ UNCHANGED <<planVars, loopVars, failures, batchVars, dupVars, histVars,
                   decision, reason>>

Finalize ==
    /\ pc = "decided"
    /\ decision = "finalize"
    /\ marked' = MarkDone(marked)
    /\ Finish("final")
    /\ UNCHANGED <<steps, idx, statuses, replans, loopVars, failures, batchVars, dupVars,
                   histVars, decision>>

\* sync_plan_state: the session's copy of the plan; the mutant leaves the old one.
KeepMarked(new) == marked
SyncPlan(new) == new

\* A new plan, as long as the model likes.
Replan ==
    /\ pc = "decided"
    /\ decision = "replan"
    /\ CanReplan
    /\ pc' = "loop"
    /\ steps' \in 0 .. MaxSteps
    /\ idx' = 0
    /\ replans' = replans + 1
    /\ statuses' = [i \in 1 .. steps' |-> IF i = 1 THEN "in_progress" ELSE "pending"]
    /\ marked' = SyncPlan(statuses')
    /\ UNCHANGED <<loopVars, failures, batchVars, dupVars, histVars, decision, reason>>

\* continue, or replan with no replan left: the next step, or the end of the plan.
Continue ==
    /\ pc = "decided"
    /\ decision = "continue" \/ (decision = "replan" /\ ~CanReplan)
    /\ marked' = MarkDone(marked)
    /\ IF Remaining = 0
       THEN /\ Finish("final")
            /\ UNCHANGED <<idx, statuses>>
       ELSE /\ pc' = "loop"
            /\ idx' = idx + 1
            /\ statuses' = [MarkDone(statuses) EXCEPT ![idx + 2] = "in_progress"]
            /\ UNCHANGED reason
    /\ UNCHANGED <<steps, replans, loopVars, failures, batchVars, dupVars, histVars, decision>>

\* The plan has no step left to enter: finalize with the local step_usage, which
\* is unbound if no step was ever entered.
PlanExhausted ==
    /\ pc = "loop"
    /\ idx >= steps
    /\ Finish(IF usageBound THEN "final" ELSE "error")
    /\ UNCHANGED <<planVars, loopVars, failures, batchVars, dupVars, histVars, decision>>

-----------------------------------------------------------------------------
Next ==
    \/ EnterStep
    \/ StopAtLimit
    \/ ModelFails
    \/ TextAnswer
    \/ \E response \in Responses : ToolCalls(response)
    \/ Ask
    \/ PreFilter
    \/ Run
    \/ \E r \in Texts : Result(r)
    \/ EndBatch
    \/ Reflect
    \/ Stay
    \/ Finalize
    \/ Replan
    \/ Continue
    \/ PlanExhausted

Spec == Init /\ [][Next]_vars

\* The coroutine is resumed, model calls and tools return or raise.
FairSpec == Spec /\ WF_vars(Next)

-----------------------------------------------------------------------------
(* Properties *)

Statuses == {"pending", "in_progress", "done"}

\* Every variable holds a value of the kind the code keeps there; both copies of
\* the statuses have one entry per step of the current plan.
TypeOK ==
    /\ pc \in {"loop", "chat", "check", "results", "boundary", "decided", "ended"}
    /\ steps \in 0 .. MaxSteps
    /\ idx \in Nat
    /\ statuses \in [1 .. steps -> Statuses]
    /\ marked \in [1 .. steps -> Statuses]
    /\ replans \in Nat
    /\ iteration \in Nat
    /\ reacts \in Nat
    /\ usageBound \in BOOLEAN
    /\ failures \in Nat
    /\ toCheck \in Seq(Calls \cup {AskUser})
    /\ toRun \in Seq(Calls)
    /\ unanswered \in Nat
    /\ sig \in Calls \cup {None}
    /\ dup \in Nat
    /\ lastOk \in BOOLEAN
    /\ lastResult \in Texts \cup {None}
    /\ decision \in {"continue", "finalize", "ask_user", "in_progress", "replan", None}
    /\ ran \in [call : Calls \cup {None},
                result : Texts \cup {None},
                times : Nat]
    /\ repeated \in BOOLEAN
    /\ reason \in {"max_iterations", "error", "asked", "policy", "failures", "final", None}

\* The budgets hold together: model calls per run and per react loop, replans, a
\* duplicate count and failures below the limit whenever the model is called.
BudgetsKept ==
    /\ iteration <= MaxIter + 1
    /\ reacts <= MaxReact
    /\ replans <= MaxReplans
    /\ pc \in {"loop", "chat", "boundary"} => failures < MaxFailures

\* The steps recorded as done, in the run and in the session, are exactly those
\* the run has passed in the current plan, through replans and skipped branches:
\* compaction and prompts tell the model "completed, do not repeat" from them.
Done(st) == {i \in DOMAIN st : st[i] = "done"}

DoneIsPassed ==
    pc # "ended" => Done(statuses) = 1 .. idx /\ Done(marked) = 1 .. idx

\* Every tool call of a response has been answered by a tool message when the
\* next model call is made, blocked calls included: the model interface rejects a
\* conversation with an unanswered call.
CallsAnswered == pc \in {"loop", "chat", "boundary"} => unanswered = 0

\* A call is blocked only after it was run MaxDuplicates times in a row with the
\* same result and no exception, unless responses repeated a call within
\* themselves: then calls are counted before any of them has run.
BlockedHasRun ==
    [][pc = "check" /\ toCheck' # toCheck /\ toRun' = toRun /\ ~repeated =>
          /\ ran.call = Head(toCheck)
          /\ ran.times >= MaxDuplicates
          /\ ran.result # "raised"]_vars

\* "If React is EXHAUSTED you MUST NOT choose in_progress" (REFLECTION_PROMPT): a
\* step whose react budget is used up is left, but for the decision ask_user.
ExhaustedIsLeft ==
    [][pc = "decided" /\ reacts = MaxReact /\ decision # "ask_user" =>
          pc' = "ended" \/ idx' = idx + 1 \/ replans' = replans + 1]_vars

\* "ask_user: critical information is missing that only the user can provide"
\* (REFLECTION_PROMPT): the user is then asked.
AskUserAsks ==
    [][pc = "decided" /\ decision = "ask_user" => reason' = "asked"]_vars

\* "All steps completed - streaming finalize" (runner.py): a plan without a step
\* left to run is finalized, and no run of the plan ends in an error for it.
EmptyPlanFinalizes ==
    [][pc = "loop" /\ idx >= steps => reason' = "final"]_vars

\* Every run ends with a RUN_FINISHED, whatever model, tools and reflection do.
Terminates == <>(pc = "ended")
=============================================================================
