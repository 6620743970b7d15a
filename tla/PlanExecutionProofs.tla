------------------------- MODULE PlanExecutionProofs -------------------------
(***************************************************************************)
(* Proofs about PlanExecution for any calls, any budgets and any bounds on *)
(* plans and responses.                                                    *)
(***************************************************************************)
EXTENDS PlanExecution, TLAPS

-----------------------------------------------------------------------------
(* Type correctness *)

\* Inside a step the plan has that step: the code reads and marks it there.
StepExists ==
    /\ idx <= steps
    /\ pc \notin {"loop", "ended"} => idx < steps

\* The tool messages a response still lacks are those of the calls that are
\* still to be checked or run.
Accounted ==
    /\ pc = "check" => unanswered = Len(toCheck) + Len(toRun)
    /\ pc = "results" => toCheck = <<>> /\ unanswered = Len(toRun)
    /\ pc \in {"loop", "chat", "boundary", "decided"} => unanswered = 0

TypeInv == TypeOK /\ StepExists /\ Accounted

\* A run starts with the declared types, at the first step of its plan.
LEMMA InitType == Init => TypeInv
<1> SUFFICES ASSUME Init PROVE TypeInv
  OBVIOUS
<1>1. MaxSteps \in Nat /\ steps \in 0 .. MaxSteps /\ steps \in Nat
  BY PlanAssumption DEF Init
<1>2. statuses \in [1 .. steps -> Statuses] /\ marked \in [1 .. steps -> Statuses]
  BY DEF Init, AllPending, Statuses
<1>3. ran \in [call : Calls \cup {None}, result : Texts \cup {None}, times : Nat]
  BY DEF Init
<1>4. toCheck \in Seq(Calls \cup {AskUser}) /\ toRun \in Seq(Calls)
  BY DEF Init
<1>5. TypeOK
  BY <1>1, <1>2, <1>3, <1>4 DEF Init, TypeOK
<1> QED
  BY <1>1, <1>5 DEF Init, TypeInv, StepExists, Accounted

\* Reflection decides within the declared decisions.
LEMMA DecisionsType ==
  Decisions \subseteq {"continue", "finalize", "ask_user", "in_progress", "replan"}
  BY DEF Decisions

\* Pre-filtering a call keeps the types and the account of unanswered calls.
LEMMA PreFilterType ==
  ASSUME TypeInv, PreFilter
  PROVE  TypeInv'
<1> DEFINE c == Head(toCheck)
<1>1. /\ toCheck \in Seq(Calls \cup {AskUser}) /\ toCheck # <<>>
      /\ toRun \in Seq(Calls) /\ c # AskUser
  BY DEF TypeInv, TypeOK, PreFilter
<1>2. c \in Calls
  BY <1>1
<1>3. Tail(toCheck) \in Seq(Calls \cup {AskUser}) /\ Len(Tail(toCheck)) = Len(toCheck) - 1
      /\ Len(toCheck) \in Nat \ {0}
  BY <1>1
<1>4. Append(toRun, c) \in Seq(Calls) /\ Len(Append(toRun, c)) = Len(toRun) + 1
      /\ Len(toRun) \in Nat
  BY <1>1, <1>2
<1>5. pc = "check" /\ pc' = "check" /\ toCheck' = Tail(toCheck) /\ sig' = c
      /\ UNCHANGED <<steps, idx, statuses, marked, replans, iteration, reacts, usageBound,
                     failures, ran, repeated, decision, reason>>
  BY DEF PreFilter, planVars, loopVars, histVars
<1>6. dup' \in Nat /\ lastOk' \in BOOLEAN /\ lastResult' \in Texts \cup {None}
  BY <1>5 DEF PreFilter, CountCall, TypeInv, TypeOK
<1>7. \/ toRun' = Append(toRun, c) /\ unanswered' = unanswered
      \/ toRun' = toRun /\ unanswered' = unanswered - 1
  BY DEF PreFilter, AnswerBlocked
<1>8. unanswered = Len(toCheck) + Len(toRun)
  BY <1>5 DEF TypeInv, Accounted
<1>9. toRun' \in Seq(Calls) /\ unanswered' \in Nat /\ unanswered' = Len(toCheck') + Len(toRun')
  <2>1. CASE toRun' = Append(toRun, c) /\ unanswered' = unanswered
    BY <2>1, <1>3, <1>4, <1>5, <1>8
  <2>2. CASE toRun' = toRun /\ unanswered' = unanswered - 1
    BY <2>2, <1>1, <1>3, <1>4, <1>5, <1>8
  <2> QED
    BY <2>1, <2>2, <1>7
<1> HIDE DEF c
<1>10. TypeOK'
  BY <1>2, <1>3, <1>5, <1>6, <1>9 DEF TypeInv, TypeOK
<1>11. StepExists' /\ Accounted'
  BY <1>5, <1>9 DEF TypeInv, StepExists, Accounted
<1> QED
  BY <1>10, <1>11 DEF TypeInv

\* So does processing a result.
LEMMA ResultType ==
  ASSUME TypeInv, NEW r \in Texts, Result(r)
  PROVE  TypeInv'
<1> DEFINE c == Head(toRun)
<1>1. toRun \in Seq(Calls) /\ toRun # <<>> /\ pc = "results" /\ toCheck = <<>>
      /\ unanswered = Len(toRun)
  BY DEF TypeInv, TypeOK, Accounted, Result
<1>2. c \in Calls
  BY <1>1
<1>3. Tail(toRun) \in Seq(Calls) /\ Len(Tail(toRun)) = Len(toRun) - 1 /\ Len(toRun) \in Nat \ {0}
  BY <1>1
<1>4. dup' \in Nat /\ lastOk' \in BOOLEAN /\ lastResult' \in Texts \cup {None}
  <2>1. CASE c = sig
    <3>1. /\ lastOk' = (r # "raised") /\ lastResult' = r
          /\ dup' = IF lastResult \notin {None, r} THEN 1 ELSE dup
      BY <2>1 DEF Result
    <3> HIDE DEF c
    <3>2. lastOk' \in BOOLEAN
      BY <3>1, Zenon
    <3> QED
      BY <3>1, <3>2 DEF TypeInv, TypeOK
  <2>2. CASE c # sig
    <3>1. UNCHANGED <<dup, lastOk, lastResult>>
      BY <2>2 DEF Result
    <3> QED
      BY <3>1 DEF TypeInv, TypeOK
  <2> QED
    BY <2>1, <2>2
<1>5. failures' \in Nat
  BY DEF Result, Track, TypeInv, TypeOK
<1>6. ran' \in [call : Calls \cup {None}, result : Texts \cup {None}, times : Nat]
  <2> DEFINE same == ran.call = c /\ ran.result = r
             n == IF ~same THEN 1
                  ELSE IF ran.times < MaxDuplicates THEN ran.times + 1 ELSE ran.times
  <2>1. ran' = [call |-> c, result |-> r, times |-> n]
    BY DEF Result
  <2>2. n \in Nat
    BY DEF TypeInv, TypeOK
  <2> HIDE DEF n, c
  <2> QED
    BY <1>2, <2>1, <2>2
<1>7. /\ UNCHANGED <<steps, idx, statuses, marked, replans, iteration, reacts, usageBound,
                     toCheck, sig, repeated, decision>>
      /\ \/ toRun' = toRun /\ unanswered' = unanswered /\ pc' = "ended" /\ reason' = "policy"
         \/ /\ toRun' = Tail(toRun) /\ unanswered' = unanswered - 1
            /\ pc' = pc /\ reason' = reason
  BY DEF Result, Finish, planVars, loopVars
<1>8. toRun' \in Seq(Calls) /\ unanswered' \in Nat
      /\ (pc' = "results" => unanswered' = Len(toRun'))
  BY <1>1, <1>3, <1>7
<1> HIDE DEF c
<1>9. TypeOK'
  BY <1>1, <1>4, <1>5, <1>6, <1>7, <1>8 DEF TypeInv, TypeOK
<1>10. StepExists' /\ Accounted'
  BY <1>1, <1>7, <1>8 DEF TypeInv, StepExists, Accounted
<1> QED
  BY <1>9, <1>10 DEF TypeInv

\* Every step of a run keeps the types.
LEMMA NextType ==
  ASSUME TypeInv, [Next]_vars
  PROVE  TypeInv'
<1> USE DEF TypeInv
<1>1. CASE EnterStep
  BY <1>1, PlanAssumption
  DEF TypeOK, StepExists, Accounted, EnterStep, planVars, batchVars, dupVars, histVars
<1>2. CASE StopAtLimit
  BY <1>2 DEF TypeOK, StepExists, Accounted, StopAtLimit, CountIteration, Finish,
              planVars, batchVars, dupVars, histVars
<1>3. CASE ModelFails
  BY <1>3 DEF TypeOK, StepExists, Accounted, ModelFails, CallModel, CountIteration, Finish,
              planVars, batchVars, dupVars, histVars
<1>4. CASE TextAnswer
  BY <1>4 DEF TypeOK, StepExists, Accounted, TextAnswer, CallModel, CountIteration,
              planVars, batchVars, dupVars, histVars
<1>5. ASSUME NEW response \in Responses, ToolCalls(response)
      PROVE  TypeInv'
  <2>1. response \in Seq(Calls \cup {AskUser}) /\ Len(response) \in Nat
    BY DEF Responses
  <2>2. repeated' \in BOOLEAN
    BY <1>5 DEF TypeOK, ToolCalls
  <2>3. /\ toCheck' = response /\ toRun' = <<>> /\ unanswered' = Len(response)
        /\ pc = "chat" /\ pc' = "check" /\ iteration' = iteration + 1 /\ reacts' = reacts + 1
        /\ UNCHANGED <<steps, idx, statuses, marked, replans, usageBound, failures, sig, dup,
                       lastOk, lastResult, ran, decision, reason>>
    BY <1>5 DEF ToolCalls, CallModel, CountIteration, planVars, dupVars
  <2> QED
    BY <2>1, <2>2, <2>3 DEF TypeOK, StepExists, Accounted
<1>6. CASE Ask
  BY <1>6 DEF TypeOK, StepExists, Accounted, Ask, Finish,
              planVars, loopVars, batchVars, dupVars, histVars
<1>7. CASE PreFilter
  BY <1>7, PreFilterType
<1>8. CASE Run
  BY <1>8 DEF TypeOK, StepExists, Accounted, Run,
              planVars, loopVars, batchVars, dupVars, histVars
<1>9. ASSUME NEW r \in Texts, Result(r)
      PROVE  TypeInv'
  BY <1>9, ResultType
<1>10. CASE EndBatch
  BY <1>10 DEF TypeOK, StepExists, Accounted, EndBatch, NextReact, Finish,
               planVars, loopVars, batchVars, dupVars, histVars
<1>11. CASE Reflect
  BY <1>11, DecisionsType DEF TypeOK, StepExists, Accounted, Reflect,
               planVars, loopVars, batchVars, dupVars, histVars
<1>12. CASE Stay
  BY <1>12 DEF TypeOK, StepExists, Accounted, Stay,
               planVars, loopVars, batchVars, dupVars, histVars
<1>13. CASE Finalize
  BY <1>13 DEF TypeOK, StepExists, Accounted, Finalize, MarkDone, Finish, Statuses,
               loopVars, batchVars, dupVars, histVars
<1>14. CASE Replan
  BY <1>14, PlanAssumption DEF TypeOK, StepExists, Accounted, Replan, SyncPlan, Statuses,
               loopVars, batchVars, dupVars, histVars
<1>15. CASE Continue
  <2>1. idx \in Nat /\ steps \in Nat /\ idx < steps
    BY <1>15, PlanAssumption DEF TypeOK, StepExists, Continue
  <2>2. marked' \in [1 .. steps -> Statuses]
    BY <1>15 DEF TypeOK, Continue, MarkDone, Statuses
  <2>3. statuses' \in [1 .. steps -> Statuses]
    BY <1>15 DEF TypeOK, Continue, MarkDone, Statuses
  <2>4. UNCHANGED <<steps, replans, iteration, reacts, usageBound, failures, toCheck, toRun,
                    unanswered, sig, dup, lastOk, lastResult, ran, repeated, decision>>
    BY <1>15 DEF Continue, loopVars, batchVars, dupVars, histVars
  <2>5. \/ pc' = "ended" /\ reason' = "final" /\ idx' = idx
        \/ pc' = "loop" /\ reason' = reason /\ idx' = idx + 1 /\ idx' <= steps
    BY <1>15, <2>1 DEF Continue, Finish, Remaining
  <2> QED
    BY <1>15, <2>1, <2>2, <2>3, <2>4, <2>5 DEF TypeOK, StepExists, Accounted, Continue
<1>16. CASE PlanExhausted
  BY <1>16 DEF TypeOK, StepExists, Accounted, PlanExhausted, Finish,
               planVars, loopVars, batchVars, dupVars, histVars
<1>17. CASE UNCHANGED vars
  BY <1>17 DEF TypeOK, StepExists, Accounted, vars, planVars, loopVars, batchVars,
               dupVars, histVars
<1> QED
  BY <1>1, <1>2, <1>3, <1>4, <1>5, <1>6, <1>7, <1>8, <1>9, <1>10, <1>11, <1>12, <1>13,
     <1>14, <1>15, <1>16, <1>17 DEF Next

\* The types hold throughout, the step a run works on exists, and the calls of a
\* response are accounted for.
LEMMA TypeInvariant == Spec => []TypeInv
  BY InitType, NextType, PTL DEF Spec

\* Every variable of a run keeps its type (run_plan_execution).
THEOREM TypeCorrect == Spec => []TypeOK
<1>1. TypeInv => TypeOK
  BY DEF TypeInv
<1> QED
  BY <1>1, TypeInvariant, PTL

\* Every tool call of a response has its tool message when the next model call is
\* made (runner.py, append of assistant message and tool messages).
THEOREM CallsAreAnswered == Spec => []CallsAnswered
<1>1. TypeInv => CallsAnswered
  BY DEF TypeInv, Accounted, CallsAnswered
<1> QED
  BY <1>1, TypeInvariant, PTL

-----------------------------------------------------------------------------
(* Budgets *)

\* BudgetsKept, with what each place of the run adds to it: the react loop's head
\* has a model call left, and the failures stay below the limit from one batch of
\* tool calls to the next.
BudgetInv ==
    /\ reacts <= MaxReact
    /\ pc = "chat" => reacts < MaxReact
    /\ iteration <= MaxIter + 1
    /\ pc # "ended" => iteration <= MaxIter
    /\ replans <= MaxReplans
    /\ pc \in {"loop", "chat", "check", "boundary", "decided"} => failures < MaxFailures

\* Every step keeps the budgets.
LEMMA NextBudget ==
  ASSUME TypeInv, BudgetInv, [Next]_vars
  PROVE  BudgetInv'
<1>1. /\ {reacts, iteration, replans, failures} \subseteq Nat
      /\ {MaxIter, MaxReplans} \subseteq Nat
      /\ {MaxReact, MaxFailures} \subseteq Nat \ {0}
  BY PlanAssumption DEF TypeInv, TypeOK
<1> USE <1>1 DEF BudgetInv
<1>2. CASE EnterStep
  BY <1>2 DEF EnterStep, planVars
<1>3. CASE StopAtLimit
  BY <1>3 DEF StopAtLimit, OutOfIterations, CountIteration, Finish, planVars
<1>4. CASE ModelFails
  BY <1>4 DEF ModelFails, CallModel, OutOfIterations, CountIteration, Finish, planVars
<1>5. CASE TextAnswer
  BY <1>5 DEF TextAnswer, CallModel, OutOfIterations, CountIteration, planVars
<1>6. ASSUME NEW response \in Responses, ToolCalls(response)
      PROVE  BudgetInv'
  BY <1>6 DEF ToolCalls, CallModel, OutOfIterations, CountIteration, planVars
<1>7. CASE Ask
  BY <1>7 DEF Ask, Finish, planVars, loopVars
<1>8. CASE PreFilter
  BY <1>8 DEF PreFilter, planVars, loopVars
<1>9. CASE Run
  BY <1>9 DEF Run, planVars, loopVars
<1>10. ASSUME NEW r \in Texts, Result(r)
       PROVE  BudgetInv'
  <2>1. /\ pc = "results" /\ pc' \in {"results", "ended"}
        /\ UNCHANGED <<reacts, iteration, replans>>
    BY <1>10 DEF Result, Finish, planVars, loopVars
  <2> QED
    BY <2>1
<1>11. CASE EndBatch
  BY <1>11 DEF EndBatch, NextReact, ShouldStopForFailures, Finish, planVars, loopVars
<1>12. CASE Reflect \/ Stay
  BY <1>12 DEF Reflect, Stay, planVars, loopVars
<1>13. CASE Finalize
  BY <1>13 DEF Finalize, Finish, loopVars
<1>14. CASE Replan
  BY <1>14 DEF Replan, CanReplan, loopVars
<1>15. CASE Continue
  <2>1. pc' \in {"loop", "ended"} /\ pc = "decided"
        /\ UNCHANGED <<reacts, iteration, replans, failures>>
    BY <1>15 DEF Continue, Finish, loopVars
  <2> QED
    BY <2>1
<1>16. CASE PlanExhausted
  BY <1>16 DEF PlanExhausted, Finish, planVars, loopVars
<1>17. CASE UNCHANGED vars
  BY <1>17 DEF vars, planVars, loopVars
<1> QED
  BY <1>2, <1>3, <1>4, <1>5, <1>6, <1>7, <1>8, <1>9, <1>10, <1>11, <1>12, <1>13, <1>14,
     <1>15, <1>16, <1>17 DEF Next

\* A run keeps the budgets of AgentConfig: model calls, react loop, replans, and
\* no model call once skills have failed too often in a row.
THEOREM BudgetsAreKept == Spec => []BudgetsKept
<1>1. Init => BudgetInv
  BY PlanAssumption DEF Init, BudgetInv
<1>2. TypeInv /\ BudgetInv /\ [Next]_vars => BudgetInv'
  BY NextBudget
<1>3. BudgetInv => BudgetsKept
  BY DEF BudgetInv, BudgetsKept
<1> QED
  BY <1>1, <1>2, <1>3, TypeInvariant, PTL DEF Spec

-----------------------------------------------------------------------------
(* The record of the steps done *)

\* Marking the current step done adds it to the steps done before it.
LEMMA MarkCurrent ==
  ASSUME NEW n \in Nat, idx \in Nat, idx < n,
         NEW st \in [1 .. n -> Statuses], Done(st) = 1 .. idx
  PROVE  Done(MarkDone(st)) = 1 .. (idx + 1)
<1>1. DOMAIN MarkDone(st) = 1 .. n /\ DOMAIN st = 1 .. n
  BY DEF MarkDone
<1>2. \A i \in 1 .. n : (MarkDone(st)[i] = "done") <=> (i = idx + 1 \/ st[i] = "done")
  BY DEF MarkDone
<1>3. \A i \in 1 .. n : st[i] = "done" <=> i \in 1 .. idx
  BY <1>1 DEF Done
<1> QED
  BY <1>1, <1>2, <1>3 DEF Done

\* Marking the step after it in progress adds none.
LEMMA MarkNext ==
  ASSUME NEW n \in Nat, NEW k \in Nat, NEW st \in [1 .. n -> Statuses], Done(st) = 1 .. k
  PROVE  Done([st EXCEPT ![k + 1] = "in_progress"]) = 1 .. k
<1> DEFINE new == [st EXCEPT ![k + 1] = "in_progress"]
<1>1. DOMAIN new = 1 .. n /\ DOMAIN st = 1 .. n
  OBVIOUS
<1>2. \A i \in 1 .. n : i # k + 1 => new[i] = st[i]
  OBVIOUS
<1>3. k + 1 \in 1 .. n => new[k + 1] = "in_progress"
  OBVIOUS
<1>4. \A i \in 1 .. n : st[i] = "done" <=> i \in 1 .. k
  BY <1>1 DEF Done
<1> HIDE DEF new
<1>5. \A i \in 1 .. n : new[i] = "done" <=> i \in 1 .. k
  BY <1>2, <1>3, <1>4
<1>6. 1 .. k \subseteq 1 .. n
  BY <1>1 DEF Done
<1>7. Done(new) = 1 .. k
  BY <1>1, <1>5, <1>6 DEF Done
<1> QED
  BY <1>7 DEF new

\* Every step keeps both records equal to the steps passed.
LEMMA NextDone ==
  ASSUME TypeInv, DoneIsPassed, [Next]_vars
  PROVE  DoneIsPassed'
<1> USE DEF DoneIsPassed
<1>1. CASE UNCHANGED planVars /\ pc # "ended"
  BY <1>1 DEF planVars, Done
<1>2. CASE pc' = "ended"
  BY <1>2
<1>3. CASE UNCHANGED vars
  BY <1>3 DEF vars, planVars, Done
<1>4. CASE Replan
  <2>1. /\ idx' = 0
        /\ statuses' = [i \in 1 .. steps' |-> IF i = 1 THEN "in_progress" ELSE "pending"]
        /\ marked' = statuses'
    BY <1>4 DEF Replan, SyncPlan
  <2>2. Done(statuses') = {}
    BY <2>1 DEF Done
  <2>3. 1 .. 0 = {}
    OBVIOUS
  <2> QED
    BY <2>1, <2>2, <2>3 DEF Done
<1>5. CASE Continue
  <2>1. idx \in Nat /\ steps \in Nat /\ idx < steps /\ pc = "decided"
    BY <1>5, PlanAssumption DEF TypeInv, TypeOK, StepExists, Continue
  <2>2. /\ Done(MarkDone(marked)) = 1 .. (idx + 1)
        /\ Done(MarkDone(statuses)) = 1 .. (idx + 1)
    BY <2>1, MarkCurrent DEF TypeInv, TypeOK
  <2>3. CASE Remaining = 0
    BY <1>5, <1>2, <2>3 DEF Continue, Finish
  <2>4. CASE Remaining # 0
    <3>1. /\ idx' = idx + 1 /\ marked' = MarkDone(marked)
          /\ statuses' = [MarkDone(statuses) EXCEPT ![idx + 2] = "in_progress"]
      BY <1>5, <2>4 DEF Continue
    <3>2. MarkDone(statuses) \in [1 .. steps -> Statuses]
      BY DEF TypeInv, TypeOK, MarkDone, Statuses
    <3>3. idx + 1 \in Nat /\ (idx + 1) + 1 = idx + 2
      BY <2>1
    <3>4. Done([MarkDone(statuses) EXCEPT ![(idx + 1) + 1] = "in_progress"]) = 1 .. (idx + 1)
      BY <2>1, <2>2, <3>2, <3>3, MarkNext
    <3>5. Done(statuses') = 1 .. idx' /\ Done(marked') = 1 .. idx'
      BY <2>2, <3>1, <3>3, <3>4
    <3> QED
      BY <3>5 DEF Done
  <2> QED
    BY <2>3, <2>4
<1>6. CASE EnterStep \/ StopAtLimit \/ ModelFails \/ TextAnswer \/ Ask \/ PreFilter \/ Run
  BY <1>1, <1>6 DEF EnterStep, StopAtLimit, ModelFails, CallModel, TextAnswer, Ask, PreFilter,
                    Run
<1>7. ASSUME NEW response \in Responses, ToolCalls(response)
      PROVE  DoneIsPassed'
  BY <1>1, <1>7 DEF ToolCalls, CallModel
<1>8. ASSUME NEW r \in Texts, Result(r)
      PROVE  DoneIsPassed'
  BY <1>1, <1>8 DEF Result
<1>9. CASE EndBatch \/ Reflect \/ Stay \/ PlanExhausted
  BY <1>1, <1>9 DEF EndBatch, Reflect, Stay, PlanExhausted
<1>10. CASE Finalize
  BY <1>2, <1>10 DEF Finalize, Finish
<1> QED
  BY <1>3, <1>4, <1>5, <1>6, <1>7, <1>8, <1>9, <1>10 DEF Next

\* The steps recorded as done, in AgentRunState and in SessionContext, are those
\* the run has passed in its current plan.
THEOREM DoneStepsArePassed == Spec => []DoneIsPassed
<1>1. Init => DoneIsPassed
  BY DEF Init, DoneIsPassed, Done, AllPending
<1>2. TypeInv /\ DoneIsPassed /\ [Next]_vars => DoneIsPassed'
  BY NextDone
<1> QED
  BY <1>1, <1>2, TypeInvariant, PTL DEF Spec

-----------------------------------------------------------------------------
(* Blocked calls *)

\* The last signature was run, with the recorded result, at least as often in a
\* row as it is counted (up to the limit).
Settled ==
    sig # None =>
        /\ ran.call = sig
        /\ ran.result = lastResult
        /\ lastResult # None
        /\ lastOk => lastResult # "raised"
        /\ dup <= ran.times \/ ran.times >= MaxDuplicates

\* The last signature is the last of the calls to run: for the first time, or
\* once more and alone.
Awaited ==
    /\ toRun # <<>>
    /\ toRun[Len(toRun)] = sig
    /\ \A i \in 1 .. Len(toRun) - 1 : toRun[i] # sig
    /\ \/ dup = 1 /\ lastResult = None
       \/ /\ Len(toRun) = 1
          /\ ran.call = sig
          /\ ran.result = lastResult
          /\ lastResult # None
          /\ dup <= ran.times + 1 \/ ran.times >= MaxDuplicates

\* The calls still to check are different from one another and from those to run.
Fresh ==
    /\ \A i, j \in 1 .. Len(toCheck) : i # j => toCheck[i] # toCheck[j]
    /\ \A i \in 1 .. Len(toRun), j \in 1 .. Len(toCheck) : toRun[i] # toCheck[j]

DupInv ==
    ~repeated =>
        /\ pc \in {"loop", "chat", "boundary", "decided"} => Settled
        /\ pc = "check" =>
              /\ Fresh
              /\ \/ toRun = <<>> /\ Settled
                 \/ Awaited /\ \A j \in 1 .. Len(toCheck) : toCheck[j] # sig
        /\ pc = "results" => (toRun = <<>> /\ Settled) \/ Awaited

\* The tail of a sequence, element by element.
LEMMA TailElements ==
  ASSUME NEW S, NEW s \in Seq(S), s # <<>>
  PROVE  /\ Len(s) \in Nat \ {0} /\ Len(Tail(s)) = Len(s) - 1
         /\ Head(s) = s[1]
         /\ \A i \in 1 .. Len(Tail(s)) : Tail(s)[i] = s[i + 1]
  OBVIOUS

\* A call that is blocked has run MaxDuplicates times in a row, see BlockedHasRun;
\* and the count stays true of what has run.
LEMMA PreFilterDup ==
  ASSUME TypeInv, DupInv, PreFilter, ~repeated
  PROVE  /\ DupInv'
         /\ toRun' = toRun => /\ ran.call = Head(toCheck)
                              /\ ran.times >= MaxDuplicates
                              /\ ran.result # "raised"
<1> DEFINE c == Head(toCheck)
<1>1. /\ toCheck \in Seq(Calls \cup {AskUser}) /\ toCheck # <<>>
      /\ toRun \in Seq(Calls) /\ pc = "check" /\ c \in Calls /\ c # None
      /\ dup \in Nat /\ ran.times \in Nat /\ MaxDuplicates \in Nat \ {0}
  <2>1. toCheck \in Seq(Calls \cup {AskUser}) /\ toCheck # <<>> /\ c # AskUser
    BY DEF PreFilter, TypeInv, TypeOK
  <2>2. c \in Calls
    BY <2>1
  <2>3. c # None /\ MaxDuplicates \in Nat \ {0}
    BY <2>2, PlanAssumption
  <2> QED
    BY <2>1, <2>2, <2>3 DEF PreFilter, TypeInv, TypeOK
<1>2. /\ Len(toCheck) \in Nat \ {0} /\ Len(Tail(toCheck)) = Len(toCheck) - 1
      /\ c = toCheck[1]
      /\ \A i \in 1 .. Len(Tail(toCheck)) : Tail(toCheck)[i] = toCheck[i + 1]
  BY <1>1, TailElements
<1>3. /\ Len(toRun) \in Nat /\ Len(Append(toRun, c)) = Len(toRun) + 1
      /\ Append(toRun, c)[Len(toRun) + 1] = c
      /\ \A i \in 1 .. Len(toRun) : Append(toRun, c)[i] = toRun[i]
      /\ Append(toRun, c) # toRun /\ Append(toRun, c) # <<>>
  <2>1. /\ Len(toRun) \in Nat /\ Len(Append(toRun, c)) = Len(toRun) + 1
        /\ Append(toRun, c)[Len(toRun) + 1] = c
        /\ \A i \in 1 .. Len(toRun) : Append(toRun, c)[i] = toRun[i]
    BY <1>1
  <2>2. Len(Append(toRun, c)) # Len(toRun) /\ Len(Append(toRun, c)) # 0
    BY <2>1
  <2>3. Append(toRun, c) # toRun
    BY <2>2
  <2>4. Append(toRun, c) # <<>>
    <3>1. Len(<<>>) = 0
      OBVIOUS
    <3> QED
      BY <2>2, <3>1
  <2> QED
    BY <2>1, <2>3, <2>4
<1>4. /\ Fresh
      /\ \/ toRun = <<>> /\ Settled
         \/ Awaited /\ \A j \in 1 .. Len(toCheck) : toCheck[j] # sig
  BY <1>1 DEF DupInv
<1>5. /\ pc' = pc /\ toCheck' = Tail(toCheck) /\ sig' = c /\ ran' = ran /\ repeated' = repeated
      /\ dup' = IF c # sig THEN 1 ELSE IF dup > MaxDuplicates THEN dup ELSE dup + 1
      /\ lastResult' = IF c = sig THEN lastResult ELSE None
      /\ IF dup' > MaxDuplicates /\ (c # sig \/ lastOk)
         THEN toRun' = toRun ELSE toRun' = Append(toRun, c)
  BY DEF PreFilter, CountCall, histVars
<1>6. lastOk' = (c # sig \/ lastOk)
  BY DEF PreFilter
<1> HIDE DEF c
<1>7. (c = sig \/ toRun' # toRun) => \A j \in 1 .. Len(toCheck') : toCheck'[j] # sig'
  BY <1>2, <1>4, <1>5 DEF Fresh
<1>8. \A i, j \in 1 .. Len(toCheck') : i # j => toCheck'[i] # toCheck'[j]
  BY <1>2, <1>4, <1>5 DEF Fresh
<1>9. CASE c # sig
  <2>1. toRun' = Append(toRun, c) /\ dup' = 1 /\ lastResult' = None
    BY <1>1, <1>5, <1>9
  <2>2. \A i \in 1 .. Len(toRun) : toRun[i] # c
    BY <1>2, <1>4 DEF Fresh
  <2>3. Awaited'
    <3>1. toRun' # <<>> /\ toRun'[Len(toRun')] = sig'
      BY <1>3, <1>5, <2>1
    <3>2. \A i \in 1 .. Len(toRun') - 1 : toRun'[i] # sig'
      BY <1>3, <1>5, <2>1, <2>2
    <3> QED
      BY <2>1, <3>1, <3>2 DEF Awaited
  <2>4. \A i \in 1 .. Len(toRun'), j \in 1 .. Len(toCheck') : toRun'[i] # toCheck'[j]
    <3> SUFFICES ASSUME NEW i \in 1 .. Len(toRun'), NEW j \in 1 .. Len(toCheck')
                 PROVE  toRun'[i] # toCheck'[j]
      OBVIOUS
    <3>1. toCheck'[j] = toCheck[j + 1] /\ j + 1 \in 2 .. Len(toCheck)
      BY <1>2, <1>5
    <3>2. CASE i = Len(toRun) + 1
      BY <1>2, <1>3, <1>4, <2>1, <3>1, <3>2 DEF Fresh
    <3>3. CASE i # Len(toRun) + 1
      BY <1>2, <1>3, <1>4, <2>1, <3>1, <3>3 DEF Fresh
    <3> QED
      BY <3>2, <3>3
  <2>5. Fresh'
    BY <1>8, <2>4 DEF Fresh
  <2>6. toRun' # toRun /\ \A j \in 1 .. Len(toCheck') : toCheck'[j] # sig'
    BY <1>3, <1>7, <2>1
  <2> QED
    BY <1>1, <1>5, <2>3, <2>5, <2>6 DEF DupInv
<1>10. CASE c = sig
  <2>1. toRun = <<>> /\ Len(toRun) = 0 /\ Settled
    <3>1. 1 \in 1 .. Len(toCheck) /\ toCheck[1] = sig
      BY <1>2, <1>10
    <3>2. toRun = <<>> /\ Settled
      BY <1>4, <3>1
    <3> QED
      BY <3>2
  <2>2. /\ ran.call = c /\ ran.result = lastResult /\ lastResult # None
        /\ lastOk => lastResult # "raised"
        /\ dup <= ran.times \/ ran.times >= MaxDuplicates
    BY <1>1, <1>10, <2>1 DEF Settled
  <2>3. /\ dup' = IF dup > MaxDuplicates THEN dup ELSE dup + 1
        /\ lastResult' = lastResult
    BY <1>5, <1>10
  <2>4. CASE dup' > MaxDuplicates /\ lastOk
    <3>1. toRun' = toRun
      BY <1>5, <2>4
    <3>2. ran.times >= MaxDuplicates
      BY <1>1, <2>2, <2>3, <2>4
    <3>3. Settled'
      BY <1>5, <1>6, <1>10, <2>2, <2>3, <2>4, <3>2 DEF Settled
    <3>4. Fresh'
      BY <1>8, <2>1, <3>1 DEF Fresh
    <3> QED
      BY <1>1, <1>5, <2>1, <2>2, <2>4, <3>1, <3>2, <3>3, <3>4 DEF DupInv, c
  <2>5. CASE ~(dup' > MaxDuplicates /\ lastOk)
    <3>1. toRun' = Append(toRun, c) /\ toRun' # toRun
      BY <1>3, <1>5, <1>10, <2>5
    <3>2. Len(toRun') = 1 /\ toRun'[1] = c /\ toRun' # <<>>
      BY <1>3, <2>1, <3>1
    <3>3. dup' <= ran.times + 1 \/ ran.times >= MaxDuplicates
      BY <1>1, <2>2, <2>3
    <3>4. Awaited'
      BY <1>5, <2>2, <2>3, <3>2, <3>3 DEF Awaited
    <3>5. \A j \in 1 .. Len(toCheck') : toCheck'[j] # sig'
      BY <1>7, <1>10
    <3>6. Fresh'
      <4>1. \A i \in 1 .. Len(toRun') : toRun'[i] = sig'
        BY <1>5, <3>2
      <4> QED
        BY <1>8, <3>5, <4>1 DEF Fresh
    <3> QED
      BY <1>1, <1>5, <3>1, <3>4, <3>5, <3>6 DEF DupInv
  <2> QED
    BY <2>4, <2>5
<1> QED
  BY <1>9, <1>10

\* Processing a result keeps the count true.
LEMMA ResultDup ==
  ASSUME TypeInv, DupInv, NEW r \in Texts, Result(r), ~repeated
  PROVE  DupInv'
<1> DEFINE c == Head(toRun)
<1>1. /\ toRun \in Seq(Calls) /\ toRun # <<>> /\ pc = "results" /\ r # None
      /\ dup \in Nat /\ ran.times \in Nat /\ MaxDuplicates \in Nat \ {0}
      /\ repeated' = repeated /\ sig' = sig
  BY PlanAssumption DEF TypeInv, TypeOK, Result, Texts
<1>2. Awaited
  BY <1>1 DEF DupInv
<1>3. /\ Len(toRun) \in Nat \ {0} /\ Len(Tail(toRun)) = Len(toRun) - 1 /\ c = toRun[1]
      /\ Tail(toRun) \in Seq(Calls)
      /\ \A i \in 1 .. Len(Tail(toRun)) : Tail(toRun)[i] = toRun[i + 1]
  BY <1>1, TailElements
<1>4. /\ ran'.call = c /\ ran'.result = r
      /\ ran'.times = IF ~(ran.call = c /\ ran.result = r) THEN 1
                      ELSE IF ran.times < MaxDuplicates THEN ran.times + 1 ELSE ran.times
  BY DEF Result
<1>5. CASE pc' = "ended"
  BY <1>5 DEF DupInv
<1>6. CASE pc' # "ended"
  <2>1. toRun' = Tail(toRun) /\ pc' = "results"
    BY <1>1, <1>6 DEF Result, Finish
  <2>2. CASE c = sig
    <3>1. /\ lastOk' = (r # "raised") /\ lastResult' = r
          /\ dup' = IF lastResult \notin {None, r} THEN 1 ELSE dup
      BY <2>2 DEF Result
    <3> HIDE DEF c
    <3>2. Len(toRun) = 1
      <4>1. \A i \in 1 .. Len(toRun) - 1 : toRun[i] # sig
        BY <1>2 DEF Awaited
      <4>2. Len(toRun) # 1 => 1 \in 1 .. Len(toRun) - 1
        BY <1>3
      <4> QED
        BY <1>3, <2>2, <4>1, <4>2
    <3>3. toRun' = <<>>
      BY <1>3, <2>1, <3>2
    <3>4. dup' <= ran'.times \/ ran'.times >= MaxDuplicates
      BY <1>1, <1>2, <1>4, <2>2, <3>1 DEF Awaited
    <3>5. Settled'
      BY <1>1, <1>4, <2>2, <3>1, <3>4 DEF Settled
    <3> QED
      BY <2>1, <3>3, <3>5 DEF DupInv
  <2>3. CASE c # sig
    <3>1. UNCHANGED <<dup, lastOk, lastResult>>
      BY <2>3 DEF Result
    <3> HIDE DEF c
    <3>2. Len(toRun) # 1 /\ Len(toRun') = Len(toRun) - 1 /\ Len(toRun') \in Nat \ {0}
      <4>1. toRun[Len(toRun)] = sig
        BY <1>2 DEF Awaited
      <4>2. Len(toRun) # 1
        BY <1>3, <2>3, <4>1
      <4> QED
        BY <1>3, <2>1, <4>2
    <3>3. toRun' # <<>> /\ toRun'[Len(toRun')] = sig'
      <4>1. toRun[Len(toRun)] = sig
        BY <1>2 DEF Awaited
      <4>2. toRun'[Len(toRun')] = toRun[Len(toRun') + 1] /\ Len(toRun') + 1 = Len(toRun)
        BY <1>3, <2>1, <3>2
      <4>3. Len(<<>>) = 0
        OBVIOUS
      <4> QED
        BY <1>1, <3>2, <4>1, <4>2, <4>3
    <3>4. \A i \in 1 .. Len(toRun') - 1 : toRun'[i] # sig'
      BY <1>1, <1>2, <1>3, <2>1, <3>2 DEF Awaited
    <3>5. dup = 1 /\ lastResult = None
      BY <1>2, <3>2 DEF Awaited
    <3>6. Awaited'
      BY <3>1, <3>3, <3>4, <3>5 DEF Awaited
    <3> QED
      BY <2>1, <3>6 DEF DupInv
  <2> QED
    BY <2>2, <2>3
<1> QED
  BY <1>5, <1>6

\* Every step keeps the count true.
LEMMA NextDup ==
  ASSUME TypeInv, DupInv, [Next]_vars
  PROVE  DupInv'
<1>1. repeated => repeated'
  BY DEF Next, EnterStep, StopAtLimit, ModelFails, TextAnswer, ToolCalls, Ask, PreFilter, Run,
         Result, EndBatch, Reflect, Stay, Finalize, Replan, Continue, PlanExhausted, vars,
         histVars
<1>2. CASE repeated
  BY <1>1, <1>2 DEF DupInv
<1>3. ASSUME ~repeated, UNCHANGED <<toCheck, toRun, dupVars, histVars>>,
             \/ pc' = "ended"
             \/ pc' = pc
             \/ /\ pc \in {"loop", "chat", "boundary", "decided"}
                /\ pc' \in {"loop", "chat", "boundary", "decided"}
             \/ pc = "check" /\ toCheck = <<>> /\ pc' = "results"
             \/ pc = "results" /\ toRun = <<>> /\ pc' \in {"chat", "boundary"}
      PROVE  DupInv'
  BY <1>3 DEF DupInv, Settled, Awaited, Fresh, dupVars, histVars
<1>4. CASE ~repeated
  <2>1. CASE EnterStep \/ StopAtLimit \/ ModelFails \/ TextAnswer
    BY <1>3, <1>4, <2>1 DEF EnterStep, StopAtLimit, ModelFails, TextAnswer, CallModel, Finish,
                            batchVars
  <2>2. ASSUME NEW response \in Responses, ToolCalls(response)
        PROVE  DupInv'
    <3>1. response \in Seq(Calls \cup {AskUser}) /\ DOMAIN response = 1 .. Len(response)
      BY DEF Responses
    <3>2. /\ pc = "chat" /\ pc' = "check" /\ toCheck' = response /\ toRun' = <<>>
          /\ UNCHANGED <<sig, dup, lastOk, lastResult, ran>>
          /\ ~repeated' => \A i, j \in DOMAIN response : i # j => response[i] # response[j]
      BY <2>2 DEF ToolCalls, CallModel, dupVars
    <3>3. Settled'
      BY <1>4, <3>2 DEF DupInv, Settled
    <3>4. ~repeated' => Fresh'
      BY <3>1, <3>2 DEF Fresh
    <3> QED
      BY <3>2, <3>3, <3>4 DEF DupInv
  <2>3. CASE PreFilter
    BY <1>4, <2>3, PreFilterDup
  <2>4. ASSUME NEW r \in Texts, Result(r)
        PROVE  DupInv'
    BY <1>4, <2>4, ResultDup
  <2>5. CASE Ask \/ Run \/ EndBatch
    BY <1>3, <1>4, <2>5 DEF Ask, Run, EndBatch, NextReact, Finish, batchVars
  <2>6. CASE Reflect \/ Stay \/ Finalize \/ Replan \/ Continue \/ PlanExhausted
    BY <1>3, <1>4, <2>6 DEF Reflect, Stay, Finalize, Replan, Continue, PlanExhausted, Finish,
                            batchVars
  <2>7. CASE UNCHANGED vars
    BY <1>3, <1>4, <2>7 DEF vars, batchVars
  <2> QED
    BY <2>1, <2>2, <2>3, <2>4, <2>5, <2>6, <2>7 DEF Next
<1> QED
  BY <1>2, <1>4

\* Only the pre-filter takes a call off the list without putting it among those
\* to run.
LEMMA OnlyPreFilterBlocks ==
  ASSUME [Next]_vars, pc = "check", toCheck' # toCheck
  PROVE  PreFilter
<1>1. \A response \in Responses : ~ToolCalls(response)
  BY DEF ToolCalls, CallModel
<1>2. \A r \in Texts : ~Result(r)
  BY DEF Result
<1> QED
  BY <1>1, <1>2 DEF Next, EnterStep, StopAtLimit, ModelFails, TextAnswer, CallModel, Ask, Run,
     EndBatch, Reflect, Stay, Finalize, Replan, Continue, PlanExhausted, vars, batchVars

\* A call is blocked (check_duplicate_call) only after it was run
\* max_duplicate_tool_calls times in a row with the same result and no exception,
\* as long as no response repeats a call within itself.
THEOREM BlockedCallsHaveRun == Spec => BlockedHasRun
<1>1. Init => DupInv
  <2>1. Init => Settled /\ pc = "loop"
    BY DEF Init, Settled
  <2> QED
    BY <2>1 DEF DupInv
<1>2. TypeInv /\ DupInv /\ [Next]_vars => DupInv'
  BY NextDup
<1>3. TypeInv /\ DupInv /\ [Next]_vars =>
        [pc = "check" /\ toCheck' # toCheck /\ toRun' = toRun /\ ~repeated =>
          /\ ran.call = Head(toCheck)
          /\ ran.times >= MaxDuplicates
          /\ ran.result # "raised"]_vars
  BY PreFilterDup, OnlyPreFilterBlocks
<1> QED
  BY <1>1, <1>2, <1>3, TypeInvariant, PTL DEF Spec, BlockedHasRun

-----------------------------------------------------------------------------
(* The react budget at the step boundary *)

\* A reflection has decided, and not to stay when the react budget is used up.
DecidedInv ==
    pc = "decided" =>
        /\ decision \in {"continue", "finalize", "ask_user", "in_progress", "replan"}
        /\ decision = "in_progress" => reacts < MaxReact

\* Only a reflection leads to its decision; every other step leaves that place.
LEMMA NextDecided ==
  ASSUME DecidedInv, [Next]_vars
  PROVE  DecidedInv'
<1> USE DEF DecidedInv
<1>1. CASE Reflect
  BY <1>1 DEF Reflect, Decisions, loopVars
<1>2. CASE UNCHANGED vars
  BY <1>2 DEF vars, loopVars
<1>3. ASSUME NEW response \in Responses, ToolCalls(response)
      PROVE  DecidedInv'
  BY <1>3 DEF ToolCalls
<1>4. ASSUME NEW r \in Texts, Result(r)
      PROVE  DecidedInv'
  BY <1>4 DEF Result, Finish
<1>5. CASE EnterStep \/ StopAtLimit \/ ModelFails \/ TextAnswer \/ Ask \/ PreFilter \/ Run
  BY <1>5 DEF EnterStep, StopAtLimit, ModelFails, TextAnswer, Ask, PreFilter, Run, Finish
<1>6. CASE EndBatch \/ Stay \/ Finalize \/ Replan \/ Continue \/ PlanExhausted
  BY <1>6 DEF EndBatch, NextReact, Stay, Finalize, Replan, Continue, PlanExhausted, Finish
<1> QED
  BY <1>1, <1>2, <1>3, <1>4, <1>5, <1>6 DEF Next

\* A step whose react budget is used up is left by the next decision, unless that
\* is to ask the user (the overrides of reflect()).
THEOREM ExhaustedStepsAreLeft == Spec => ExhaustedIsLeft
<1>1. Init => DecidedInv
  BY DEF Init, DecidedInv
<1>2. DecidedInv /\ [Next]_vars => DecidedInv'
  BY NextDecided
<1>3. TypeInv /\ DecidedInv /\ [Next]_vars =>
        [pc = "decided" /\ reacts = MaxReact /\ decision # "ask_user" =>
            pc' = "ended" \/ idx' = idx + 1 \/ replans' = replans + 1]_vars
  <2> SUFFICES ASSUME TypeInv, DecidedInv, Next,
                      pc = "decided", reacts = MaxReact, decision # "ask_user"
               PROVE  pc' = "ended" \/ idx' = idx + 1 \/ replans' = replans + 1
    OBVIOUS
  <2>1. decision # "in_progress"
    BY PlanAssumption DEF DecidedInv
  <2>2. \A response \in Responses : ~ToolCalls(response)
    BY DEF ToolCalls, CallModel
  <2>3. \A r \in Texts : ~Result(r)
    BY DEF Result
  <2>4. Finalize \/ Replan \/ Continue
    BY <2>1, <2>2, <2>3 DEF Next, EnterStep, StopAtLimit, ModelFails, TextAnswer, CallModel,
       Ask, PreFilter, Run, EndBatch, Reflect, Stay, PlanExhausted
  <2> QED
    BY <2>4 DEF Finalize, Replan, Continue, Finish
<1> QED
  BY <1>1, <1>2, <1>3, TypeInvariant, PTL DEF Spec, ExhaustedIsLeft

-----------------------------------------------------------------------------
(* How far a run can go *)

\* At most how many steps a run takes before its next model call, or its end.
StepsToCall ==
    CASE pc = "ended"    -> 0
      [] pc = "chat"     -> 1
      [] pc = "loop"     -> 2
      [] pc = "decided"  -> 3
      [] pc = "boundary" -> 4
      [] pc = "results"  -> 5 + Len(toRun)
      [] pc = "check"    -> 6 + 2 * Len(toCheck) + Len(toRun)

\* Every step counts one more model call, of which BudgetsKept leaves a run MaxIter + 1,
\* or comes closer to the next one: no two places of the loops, whatever the reflection
\* decides and the tools return, send a run round without a model call.
Descends ==
    \/ iteration' = iteration + 1
    \/ iteration' = iteration /\ StepsToCall' < StepsToCall

\* The steps left are a number, the longest way being that through the tool calls.
LEMMA StepsAreNat ==
  ASSUME TypeInv
  PROVE  /\ StepsToCall \in Nat
         /\ Len(toCheck) \in Nat /\ Len(toRun) \in Nat
<1>1. toCheck \in Seq(Calls \cup {AskUser}) /\ toRun \in Seq(Calls)
      /\ pc \in {"loop", "chat", "check", "results", "boundary", "decided", "ended"}
  BY DEF TypeInv, TypeOK
<1>2. Len(toCheck) \in Nat /\ Len(toRun) \in Nat
  BY <1>1
<1> QED
  BY <1>1, <1>2 DEF StepsToCall

\* A step that ends the run without a model call comes closer, wherever it is taken.
LEMMA EndDescends ==
  ASSUME TypeInv, pc # "ended", pc' = "ended", iteration' = iteration
  PROVE  Descends
<1>1. StepsToCall' = 0
  BY DEF StepsToCall
<1>2. StepsToCall > 0
  BY StepsAreNat DEF StepsToCall, TypeInv, TypeOK
<1> QED
  BY <1>1, <1>2 DEF Descends

\* So does every other step.
LEMMA NextDescends ==
  ASSUME TypeInv, Next
  PROVE  Descends
<1>1. CASE EnterStep
  <2>1. pc = "loop" /\ pc' = "chat" /\ iteration' = iteration
    BY <1>1 DEF EnterStep
  <2> QED
    BY <2>1 DEF Descends, StepsToCall
<1>2. CASE StopAtLimit \/ ModelFails \/ TextAnswer
  BY <1>2 DEF StopAtLimit, ModelFails, TextAnswer, CallModel, CountIteration, Descends
<1>3. ASSUME NEW response \in Responses, ToolCalls(response)
      PROVE  Descends
  BY <1>3 DEF ToolCalls, CallModel, CountIteration, Descends
<1>4. CASE Ask
  BY <1>4, EndDescends DEF Ask, Finish, loopVars
<1>5. CASE PreFilter
  <2> DEFINE c == Head(toCheck)
  <2>1. /\ pc = "check" /\ pc' = "check" /\ iteration' = iteration
        /\ toCheck # <<>> /\ c # AskUser /\ toCheck' = Tail(toCheck)
        /\ toRun' = toRun \/ toRun' = Append(toRun, c)
    BY <1>5 DEF PreFilter, loopVars
  <2>2. toCheck \in Seq(Calls \cup {AskUser}) /\ toRun \in Seq(Calls)
    BY DEF TypeInv, TypeOK
  <2>3. c \in Calls
    BY <2>1, <2>2
  <2>4. Len(toCheck') = Len(toCheck) - 1 /\ Len(toCheck) \in Nat /\ Len(toRun) \in Nat
    BY <2>1, <2>2
  <2>5. Len(Append(toRun, c)) = Len(toRun) + 1
    BY <2>2, <2>3
  <2> HIDE DEF c
  <2>6. Len(toRun') <= Len(toRun) + 1 /\ Len(toRun') \in Nat
    BY <2>1, <2>4, <2>5
  <2> QED
    BY <2>1, <2>4, <2>6 DEF Descends, StepsToCall
<1>6. CASE Run
  <2>1. pc = "check" /\ toCheck = <<>> /\ pc' = "results" /\ toRun' = toRun
        /\ iteration' = iteration
    BY <1>6 DEF Run, batchVars, loopVars
  <2>2. Len(toCheck) = 0 /\ Len(toRun) \in Nat
    BY <2>1, StepsAreNat
  <2> QED
    BY <2>1, <2>2 DEF Descends, StepsToCall
<1>7. ASSUME NEW r \in Texts, Result(r)
      PROVE  Descends
  <2>1. /\ pc = "results" /\ iteration' = iteration /\ toRun # <<>>
        /\ pc' = "ended" \/ (pc' = pc /\ toRun' = Tail(toRun))
    BY <1>7 DEF Result, Finish, loopVars
  <2>2. toRun \in Seq(Calls)
    BY DEF TypeInv, TypeOK
  <2>3. Len(Tail(toRun)) = Len(toRun) - 1 /\ Len(toRun) \in Nat \ {0}
    BY <2>1, <2>2
  <2>4. CASE pc' = "ended"
    BY <2>1, <2>4, EndDescends
  <2>5. CASE pc' = pc /\ toRun' = Tail(toRun)
    BY <2>1, <2>3, <2>5 DEF Descends, StepsToCall
  <2> QED
    BY <2>1, <2>4, <2>5
<1>8. CASE EndBatch
  <2>1. /\ pc = "results" /\ iteration' = iteration
        /\ pc' \in {"ended", "chat", "boundary"}
    BY <1>8 DEF EndBatch, NextReact, Finish, loopVars
  <2> QED
    BY <2>1, StepsAreNat DEF Descends, StepsToCall
<1>9. CASE Reflect
  <2>1. pc = "boundary" /\ pc' = "decided" /\ iteration' = iteration
    BY <1>9 DEF Reflect, loopVars
  <2> QED
    BY <2>1 DEF Descends, StepsToCall
<1>10. CASE Stay \/ Replan
  <2>1. pc = "decided" /\ pc' = "loop" /\ iteration' = iteration
    BY <1>10 DEF Stay, Replan, loopVars
  <2> QED
    BY <2>1 DEF Descends, StepsToCall
<1>11. CASE Continue
  <2>1. pc = "decided" /\ pc' \in {"ended", "loop"} /\ iteration' = iteration
    BY <1>11 DEF Continue, Finish, loopVars
  <2> QED
    BY <2>1 DEF Descends, StepsToCall
<1>12. CASE Finalize \/ PlanExhausted
  BY <1>12, EndDescends DEF Finalize, PlanExhausted, Finish, loopVars
<1> QED
  BY <1>1, <1>2, <1>3, <1>4, <1>5, <1>6, <1>7, <1>8, <1>9, <1>10, <1>11, <1>12 DEF Next

\* A run goes on for a bounded time only (run_plan_execution): every step takes it to
\* one more of its MaxIter + 1 model calls, or closer to it, on a scale of natural
\* numbers.  With fairness, which asks that it goes on at all, that is Terminates.
THEOREM EveryStepDescends ==
  Spec => /\ [](StepsToCall \in Nat /\ iteration \in Nat /\ BudgetsKept)
          /\ [][Descends]_vars
<1>1. TypeInv => StepsToCall \in Nat /\ iteration \in Nat
  BY StepsAreNat DEF TypeInv, TypeOK
<1>2. TypeInv /\ [Next]_vars => [Descends]_vars
  BY NextDescends
<1> QED
  BY <1>1, <1>2, TypeInvariant, BudgetsAreKept, PTL DEF Spec
=============================================================================
