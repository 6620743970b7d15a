----------------------------- MODULE SkillReAct -----------------------------
(***************************************************************************)
(* One execution of a skill (SkillExecutor.execute): the model is asked,   *)
(* the tool calls of its answer are run one after the other, and what they *)
(* bring is asked about in the next turn.  Counters kept in ReActState     *)
(* notice a model that goes in circles: the same call again and again,     *)
(* observations equivalent to each other, no progress, the same error.     *)
(*                                                                         *)
(* A call is what action_signature tells apart: the tool with its          *)
(* arguments.  Messages, the scratchpad and the hints of the loop and      *)
(* saturation detectors go to the model and change no counter: they are    *)
(* left out.                                                               *)
(***************************************************************************)
EXTENDS Naturals, Sequences

CONSTANTS
    Calls,              \* the calls the model makes
    Notes,              \* those of them that call update_scratchpad
    Deltas,             \* what state_fingerprint sees of a call: the tool, the files
                        \* it created or updated, its dependencies and entities
    Files,              \* those of them with a created or updated file
    Errors,             \* texts of errors, as far as their hashes tell them apart
    NoError,            \* the text "None": that of the error of a call without one
    NoText,             \* the empty text: that of an exception without a message
    Nil,                \* no call, no fingerprint and no hash yet
    MaxTurns,           \* ReActState.max_turns
    MaxCalls,           \* bound: tool calls in one answer
    MaxRepeatedActions, \* max_repeated_actions
    MaxNoProgress,      \* max_no_progress
    MaxRepeatedStates,  \* max_repeated_state_fingerprint
    HintInterval        \* min_interval of should_inject_recovery_hint

\* The texts record_error is given, and the hashes of a text that _build_observation and
\* record_error make.
Recorded == Errors \cup {NoError}
Hashes == {"executor", "state"} \X Recorded

ASSUME ReActAssumption ==
    /\ Notes \subseteq Calls
    /\ Files \subseteq Deltas
    /\ NoError \notin Errors /\ NoText \notin Recorded
    /\ Nil \notin Calls \cup Hashes
    /\ {MaxTurns, MaxCalls, MaxNoProgress} \subseteq Nat \ {0}
    /\ {MaxRepeatedActions, MaxRepeatedStates, HintInterval} \subseteq Nat

VARIABLES
    outcome,      \* "running", or how the execution ended
    turn,         \* turn_count
    left,         \* the calls of the last answer still to run; 0: the model is asked
    actions,      \* last_action_signature and repeated_action_count
    noProgress,   \* no_progress_count
    states,       \* last_state_fingerprint and repeated_state_fingerprint_count
    errors,       \* last_error_hash and repeated_error_count (1 stands for more)
    hintTurn,     \* last_recovery_hint_turn
    made,         \* created_files or updated_files is not empty
    tail,         \* history: the last two texts recorded
    hint,         \* history: what came of the last one: a recovery hint was "given", or
                  \* "withheld" though a pattern was there and the last hint is old, or "none"
    stalls        \* history: PROGRESS_STALLED messages since the last progress (2: or more)

counters == <<actions, noProgress, states, errors, hintTurn>>
history == <<tail, hint, stalls>>
vars == <<outcome, turn, left, counters, made, history>>

Init ==
    /\ outcome = "running"
    /\ turn = 1
    /\ left = 0
    /\ actions = [last |-> Nil, count |-> 0]
    /\ noProgress = 0
    /\ states = [last |-> Nil, count |-> 0]
    /\ errors = [last |-> Nil, count |-> 0]
    /\ hintTurn = 0
    /\ made = FALSE
    /\ tail = <<>>
    /\ hint = "none"
    /\ stalls = 0

-----------------------------------------------------------------------------
(* Counting *)

\* Another x was met: one more of the same, or the first of a new kind.
Again(seen, x) ==
    IF x = seen.last THEN [seen EXCEPT !.count = @ + 1] ELSE [last |-> x, count |-> 0]

\* _evaluate_task_signal: a call made again and a failed one earn nothing; gain is
\* what the rest of the observation (links, entities, wording) is worth.
Signal(repeated, failed, delta, gain) ==
    IF repeated \/ failed THEN "none" ELSE IF delta \in Files THEN "strong" ELSE gain

\* no_progress_count after a call.
Progress(signal) == IF signal \in {"strong", "medium"} THEN 0 ELSE noProgress + 1

\* The errors after a call with this error text.  _build_observation stores one hash
\* of it, if the call failed; record_error then compares another kind of hash, and
\* counts a call that succeeded as the error "None".
Counted(error) ==
    LET before == IF error # NoError THEN <<"executor", error>> ELSE errors.last
        hash == <<"state", error>>
    IN  IF hash = before
        THEN [last |-> hash, count |-> 1] ELSE [last |-> hash, count |-> 0]

-----------------------------------------------------------------------------
(* Ends and turns *)

End(how) ==
    /\ outcome' = how
    /\ UNCHANGED <<turn, left>>

\* _goal_met holds if the skill noted a file, or the workspace holds any file at all.
AtTheLimit == IF made' THEN {"success"} ELSE {"success", "partial"}

\* The turn is over: the next one, or the end of the range.  The mutant asks once more.
TurnEndsLate ==
    /\ left' = 0
    /\ \/ turn <= MaxTurns /\ turn' = turn + 1 /\ UNCHANGED outcome
       \/ turn > MaxTurns /\ outcome' \in {"success", "partial"} /\ UNCHANGED turn
TurnEnds ==
    /\ left' = 0
    /\ \/ turn < MaxTurns /\ turn' = turn + 1 /\ UNCHANGED outcome
       \/ turn = MaxTurns /\ outcome' \in AtTheLimit /\ UNCHANGED turn

\* The call is done: the next one of the answer, or the end of the turn.
CallEnds ==
    IF left > 1
    THEN left' = left - 1 /\ UNCHANGED <<outcome, turn>>
    ELSE TurnEnds

-----------------------------------------------------------------------------
(* The model's answers *)

\* The answer has tool calls.
AnswerCalls(n) ==
    /\ outcome = "running" /\ left = 0
    /\ left' = n
    /\ UNCHANGED <<outcome, turn, counters, made, history>>

\* The answer has none: the model claims to be done.  Without a trace of that the
\* turn ends with VERIFICATION_FAILED.
Claim ==
    /\ outcome = "running" /\ left = 0
    /\ UNCHANGED <<counters, made, history>>
    /\ \/ End("success")
       \/ ~made /\ TurnEnds

\* async_chat raises, or the execution is cancelled.
Raises ==
    /\ outcome = "running"
    /\ End("raised")
    /\ UNCHANGED <<counters, made, history>>

-----------------------------------------------------------------------------
(* The tool calls *)

\* The same call once more than is accepted.
CallRepeated(c) ==
    /\ outcome = "running" /\ left > 0
    /\ actions' = Again(actions, c)
    /\ actions'.count > MaxRepeatedActions
    /\ End("repeated")
    /\ UNCHANGED <<noProgress, states, errors, hintTurn, made, history>>

\* A note is answered here; no other counter hears of it.
CallNotes(c) ==
    /\ outcome = "running" /\ left > 0
    /\ c \in Notes
    /\ actions' = Again(actions, c)
    /\ actions'.count <= MaxRepeatedActions
    /\ UNCHANGED <<noProgress, states, errors, hintTurn, made, history>>
    /\ CallEnds

\* The tool bridge raises.  The observation made of that holds text where
\* state_fingerprint looks for a dictionary: the AttributeError leaves execute.
CallRaises(c) ==
    /\ outcome = "running" /\ left > 0
    /\ c \notin Notes
    /\ actions' = Again(actions, c)
    /\ actions'.count <= MaxRepeatedActions
    /\ noProgress' = noProgress + 1
    /\ End("raised")
    /\ UNCHANGED <<states, errors, hintTurn, made, history>>

\* record_error, and a recovery hint if the error is a repeated one, the last hint is
\* some turns old and the pattern detector finds a pattern.  A failure without a text is
\* passed over.
Recover(error, pattern) ==
    IF error = NoText
    THEN hint' = "none" /\ UNCHANGED <<errors, hintTurn, tail>>
    ELSE /\ errors' = Counted(error)
         /\ tail' = IF tail = <<>> THEN <<error>> ELSE <<tail[Len(tail)], error>>
         /\ hint' = IF ~pattern \/ turn - hintTurn < HintInterval THEN "none"
                    ELSE IF errors'.count >= 1 THEN "given" ELSE "withheld"
         /\ hintTurn' = IF hint' = "given" THEN turn ELSE hintTurn

\* What follows from the counters.  One call too many without progress is told
\* (PROGRESS_STALLED), forgotten, and not compared with the one before; more than one
\* end the execution.  The mutant forgets, and never looks at the equivalent states.
VerdictForgets(count) ==
    /\ noProgress' = IF count > MaxNoProgress THEN 0 ELSE count
    /\ CallEnds
Verdict(count) ==
    IF count > MaxNoProgress
    THEN IF count = MaxNoProgress + 1
         THEN noProgress' = 0 /\ CallEnds
         ELSE noProgress' = count /\ End("stalled")
    ELSE /\ noProgress' = count
         /\ IF states'.count > MaxRepeatedStates THEN End("equivalent") ELSE CallEnds

\* The stalls told since the last progress.
Stalls(count) ==
    IF count = 0 THEN 0
    ELSE IF count > MaxNoProgress /\ stalls < 2 THEN stalls + 1 ELSE stalls

\* A tool runs and is observed.
CallObserved(c, delta, gain, error) ==
    /\ outcome = "running" /\ left > 0
    /\ c \notin Notes
    /\ actions' = Again(actions, c)
    /\ actions'.count <= MaxRepeatedActions
    /\ made' = (made \/ delta \in Files)
    /\ LET failed == error # NoError
           signal == Signal(actions'.count > 0, failed, delta, gain)
           count == Progress(signal)
       IN  /\ states' = Again(states, <<delta, signal, failed>>)
           /\ \E pattern \in BOOLEAN : Recover(error, pattern)
           /\ stalls' = Stalls(count)
           /\ Verdict(count)

Next ==
    \/ \E n \in 1 .. MaxCalls : AnswerCalls(n)
    \/ Claim
    \/ Raises
    \/ \E c \in Calls :
        \/ CallRepeated(c) \/ CallNotes(c) \/ CallRaises(c)
        \/ \E delta \in Deltas, gain \in {"medium", "weak", "none"},
              error \in Recorded \cup {NoText} : CallObserved(c, delta, gain, error)

Spec == Init /\ [][Next]_vars

-----------------------------------------------------------------------------
(* Properties *)

Fingerprints == Deltas \X {"strong", "medium", "weak", "none"} \X BOOLEAN
Counter(S, n) == [last : S \cup {Nil}, count : 0 .. n]

\* Every variable has its type.
TypeOK ==
    /\ outcome \in {"running", "success", "partial", "repeated", "equivalent", "stalled",
                   "raised"}
    /\ turn \in 1 .. MaxTurns
    /\ left \in 0 .. MaxCalls
    /\ actions \in Counter(Calls, MaxRepeatedActions + 1)
    /\ noProgress \in 0 .. MaxNoProgress + 1
    /\ states \in Counter(Fingerprints, MaxRepeatedStates + 2)
    /\ errors \in Counter(Hashes, 1)
    /\ hintTurn \in 0 .. MaxTurns
    /\ made \in BOOLEAN
    /\ tail \in Seq(Recorded) /\ Len(tail) <= 2
    /\ hint \in {"none", "withheld", "given"}
    /\ stalls \in 0 .. 2

\* A model that goes in circles is cut short: no execution goes on after more equal
\* calls than max_repeated_actions allows, and after more equivalent observations than
\* max_repeated_state_fingerprint allows it goes on only if the last of them was taken
\* for a stall, which happens to no two of them.
CirclesAreCut ==
    /\ outcome = "running" => actions.count <= MaxRepeatedActions
    /\ outcome = "running" /\ states.count > MaxRepeatedStates
        => states.count = MaxRepeatedStates + 1 /\ noProgress = 0

\* "Give one more chance" (execute): an execution that has stalled and stalls again,
\* with no progress in between, goes on no more.  Not so in this code.
OneMoreChance == outcome = "running" => stalls <= 1

\* Recovery hints "help LLM break out of repetitive error loops" (error_recovery.py): a
\* pattern found in the same error made twice in a row is told.  Not so in this code.
LoopsAreHinted ==
    hint = "withheld" /\ Len(tail) = 2 /\ tail[1] = tail[2] => tail[1] = NoError
=============================================================================
