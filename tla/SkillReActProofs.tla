--------------------------- MODULE SkillReActProofs ---------------------------
(***************************************************************************)
(* Proofs about SkillReAct for any calls, any observations and any limits. *)
(***************************************************************************)
EXTENDS SkillReAct, TLAPS

-----------------------------------------------------------------------------
(* Type correctness *)

\* While the execution goes on its counters have not passed their limits.
Within ==
    outcome = "running" =>
        /\ noProgress <= MaxNoProgress
        /\ states.count <= MaxRepeatedStates + 1

\* No execution was ended for its stalls.
NotStalled == outcome # "stalled"

TypeInv == TypeOK /\ Within /\ CirclesAreCut /\ NotStalled

\* Where the ways to end a call or a turn lead.
LEMMA TurnEndsType ==
  ASSUME TypeOK, TurnEnds
  PROVE  /\ outcome' \in {outcome, "success", "partial"}
         /\ turn' \in 1 .. MaxTurns
         /\ left' \in 0 .. MaxCalls
  BY ReActAssumption DEF TypeOK, TurnEnds, AtTheLimit

LEMMA CallEndsType ==
  ASSUME TypeOK, left > 0, CallEnds
  PROVE  /\ outcome' \in {outcome, "success", "partial"}
         /\ turn' \in 1 .. MaxTurns
         /\ left' \in 0 .. MaxCalls
<1>1. CASE left > 1
  BY <1>1, ReActAssumption DEF TypeOK, CallEnds
<1>2. CASE ~(left > 1)
  BY <1>2, TurnEndsType DEF CallEnds
<1> QED
  BY <1>1, <1>2

\* Counting again stays within one more than was counted.
LEMMA AgainType ==
  ASSUME NEW S, NEW n \in Nat, NEW x \in S, NEW seen \in Counter(S, n),
         NEW m \in Nat, seen.count < m
  PROVE  Again(seen, x) \in Counter(S, m)
<1>1. CASE x = seen.last
  <2>1. Again(seen, x) = [last |-> seen.last, count |-> seen.count + 1]
    BY <1>1 DEF Again, Counter
  <2> QED
    BY <2>1 DEF Counter
<1>2. CASE x # seen.last
  BY <1>2 DEF Again, Counter
<1> QED
  BY <1>1, <1>2

\* Counting an error keeps a hash and a count.
LEMMA CountedType ==
  ASSUME NEW error \in Recorded
  PROVE  /\ Counted(error) \in Counter(Hashes, 1)
         /\ Counted(error).last = <<"state", error>>
  BY DEF Counted, Counter, Hashes

\* The call that is observed next keeps the types and the limits.
LEMMA CallObservedType ==
  ASSUME TypeInv,
         NEW c \in Calls, NEW delta \in Deltas, NEW gain \in {"medium", "weak", "none"},
         NEW error \in Recorded \cup {NoText}, CallObserved(c, delta, gain, error)
  PROVE  TypeInv'
<1> DEFINE failed == error # NoError
           signal == Signal(actions'.count > 0, failed, delta, gain)
           count == Progress(signal)
<1>1. PICK pattern \in BOOLEAN : Recover(error, pattern)
  BY DEF CallObserved
<1>2. /\ outcome = "running" /\ left > 0
      /\ actions' = Again(actions, c) /\ actions'.count <= MaxRepeatedActions
      /\ made' = (made \/ delta \in Files)
      /\ states' = Again(states, <<delta, signal, failed>>)
      /\ stalls' = Stalls(count)
      /\ Verdict(count)
  BY DEF CallObserved
<1>3. signal \in {"strong", "medium", "weak", "none"}
  BY DEF Signal
<1> HIDE DEF signal
<1>4. actions' \in Counter(Calls, MaxRepeatedActions + 1)
  <2>1. actions \in Counter(Calls, MaxRepeatedActions + 1) /\ actions.count < MaxRepeatedActions + 1
    BY <1>2, ReActAssumption DEF TypeInv, TypeOK, CirclesAreCut, Counter
  <2> QED
    BY <1>2, <2>1, AgainType, ReActAssumption
<1>5. states' \in Counter(Fingerprints, MaxRepeatedStates + 2) /\ states'.count <= states.count + 1
  <2>1. states \in Counter(Fingerprints, MaxRepeatedStates + 2) /\ states.count < MaxRepeatedStates + 2
    BY <1>2, ReActAssumption DEF TypeInv, TypeOK, Within, Counter
  <2>2. <<delta, signal, failed>> \in Fingerprints
    BY <1>3 DEF Fingerprints
  <2>3. states' \in Counter(Fingerprints, MaxRepeatedStates + 2)
    BY <1>2, <2>1, <2>2, AgainType, ReActAssumption
  <2>4. states'.count = states.count + 1 \/ states'.count = 0
    BY <1>2, <2>1 DEF Again, Counter
  <2> QED
    BY <2>1, <2>3, <2>4 DEF Counter
<1>6. count \in 0 .. MaxNoProgress + 1 /\ count <= noProgress + 1
  BY <1>2, ReActAssumption DEF Progress, TypeInv, TypeOK, Within
<1> HIDE DEF count
<1>7. /\ outcome' \in {"running", "success", "partial", "equivalent"}
      /\ turn' \in 1 .. MaxTurns /\ left' \in 0 .. MaxCalls
  <2>1. TypeOK
    BY DEF TypeInv
  <2>2. CASE CallEnds
    BY <1>2, <2>1, <2>2, CallEndsType
  <2>3. CASE End("equivalent")
    BY <2>1, <2>3 DEF End, TypeOK
  <2>4. count > MaxNoProgress => count = MaxNoProgress + 1
    BY <1>6, ReActAssumption
  <2> QED
    BY <1>2, <2>2, <2>3, <2>4 DEF Verdict
<1>8. noProgress' \in 0 .. MaxNoProgress
  BY <1>2, <1>6, ReActAssumption DEF Verdict
<1>9. /\ errors' \in Counter(Hashes, 1)
      /\ hint' \in {"none", "withheld", "given"}
      /\ hintTurn' \in 0 .. MaxTurns
  <2>1. errors' \in Counter(Hashes, 1)
    BY <1>1, CountedType DEF Recover, TypeInv, TypeOK
  <2>2. hint' \in {"none", "withheld", "given"}
    BY <1>1 DEF Recover
  <2>3. hintTurn' \in {turn, hintTurn}
    BY <1>1 DEF Recover
  <2> QED
    BY <2>1, <2>2, <2>3, ReActAssumption DEF TypeInv, TypeOK
<1>10. tail' \in Seq(Recorded) /\ Len(tail') <= 2
  <2>1. CASE error = NoText
    BY <1>1, <2>1 DEF Recover, TypeInv, TypeOK
  <2>2. CASE error # NoText /\ tail = <<>>
    <3>1. tail' = <<error>> /\ error \in Recorded
      BY <1>1, <2>2 DEF Recover
    <3> QED
      BY <3>1
  <2>3. CASE error # NoText /\ tail # <<>>
    <3>1. tail[Len(tail)] \in Recorded
      BY <2>3 DEF TypeInv, TypeOK
    <3>2. tail' = <<tail[Len(tail)], error>> /\ error \in Recorded
      BY <1>1, <2>3 DEF Recover
    <3> QED
      BY <3>1, <3>2
  <2> QED
    BY <2>1, <2>2, <2>3
<1>11. TypeOK'
  <2>1. made' \in BOOLEAN
    BY <1>2, Zenon DEF TypeInv, TypeOK
  <2>2. noProgress' \in 0 .. MaxNoProgress + 1
    BY <1>8, ReActAssumption
  <2>3. stalls' \in 0 .. 2
    BY <1>2 DEF Stalls, TypeInv, TypeOK
  <2> QED
    BY <2>1, <2>2, <2>3, <1>4, <1>5, <1>7, <1>9, <1>10 DEF TypeOK
<1>12. outcome' = "running" => states'.count <= MaxRepeatedStates \/ noProgress' = 0
  BY <1>2, <1>5, ReActAssumption DEF Verdict, End, Counter
<1>13. states.count > MaxRepeatedStates => count <= MaxNoProgress
  BY <1>2, <1>6, ReActAssumption DEF TypeInv, CirclesAreCut
<1>14. outcome' = "running" => states'.count <= MaxRepeatedStates + 1
  <2> SUFFICES ASSUME outcome' = "running"
               PROVE  states'.count <= MaxRepeatedStates + 1
    OBVIOUS
  <2>1. CASE states.count > MaxRepeatedStates
    BY <1>2, <1>6, <1>13, <2>1, <1>5, ReActAssumption DEF Verdict, End, Counter
  <2>2. CASE ~(states.count > MaxRepeatedStates)
    BY <1>5, <2>2, ReActAssumption DEF Counter, TypeInv, TypeOK
  <2> QED
    BY <2>1, <2>2, Zenon
<1>15. Within'
  BY <1>8, <1>14, ReActAssumption DEF Within
<1>16. CirclesAreCut'
  <2>1. outcome' = "running" => actions'.count <= MaxRepeatedActions
    BY <1>2
  <2>2. outcome' = "running" /\ states'.count > MaxRepeatedStates
          => states'.count = MaxRepeatedStates + 1 /\ noProgress' = 0
    BY <1>5, <1>12, <1>14, ReActAssumption DEF Counter
  <2> QED
    BY <2>1, <2>2 DEF CirclesAreCut
<1>17. NotStalled'
  BY <1>7 DEF NotStalled
<1> QED
  BY <1>11, <1>15, <1>16, <1>17 DEF TypeInv

\* Every other action keeps them.
LEMMA NextType ==
  ASSUME TypeInv, [Next]_vars
  PROVE  TypeInv'
<1> USE DEF TypeInv, counters, history
<1>1. CASE UNCHANGED vars
  BY <1>1 DEF vars, TypeOK, Within, CirclesAreCut, NotStalled
<1>2. ASSUME NEW n \in 1 .. MaxCalls, AnswerCalls(n)
      PROVE  TypeInv'
  <2>1. left' \in 0 .. MaxCalls
    BY <1>2, ReActAssumption DEF AnswerCalls
  <2> QED
    BY <1>2, <2>1 DEF AnswerCalls, TypeOK, Within, CirclesAreCut, NotStalled
<1>3. CASE Claim
  <2>1. /\ outcome' \in {outcome, "success", "partial"}
        /\ turn' \in 1 .. MaxTurns /\ left' \in 0 .. MaxCalls
    BY <1>3, TurnEndsType DEF Claim, End, TypeOK
  <2> QED
    BY <1>3, <2>1 DEF Claim, TypeOK, Within, CirclesAreCut, NotStalled
<1>4. CASE Raises
  BY <1>4 DEF Raises, End, TypeOK, Within, CirclesAreCut, NotStalled
<1>5. ASSUME NEW c \in Calls, CallRepeated(c) \/ CallNotes(c) \/ CallRaises(c)
      PROVE  TypeInv'
  <2>1. outcome = "running" /\ left > 0 /\ actions' = Again(actions, c)
    BY <1>5 DEF CallRepeated, CallNotes, CallRaises
  <2>2. actions' \in Counter(Calls, MaxRepeatedActions + 1)
    <3>1. actions \in Counter(Calls, MaxRepeatedActions + 1)
          /\ actions.count < MaxRepeatedActions + 1
      BY <2>1, ReActAssumption DEF TypeOK, CirclesAreCut, Counter
    <3> QED
      BY <2>1, <3>1, AgainType, ReActAssumption
  <2>3. CASE CallRepeated(c)
    BY <2>2, <2>3 DEF CallRepeated, End, TypeOK, Within, CirclesAreCut, NotStalled
  <2>4. CASE CallNotes(c)
    <3>1. /\ outcome' \in {outcome, "success", "partial"}
          /\ turn' \in 1 .. MaxTurns /\ left' \in 0 .. MaxCalls
      BY <2>4, CallEndsType DEF CallNotes
    <3>2. UNCHANGED <<noProgress, states, errors, hintTurn, made, history>>
          /\ actions'.count <= MaxRepeatedActions
      BY <2>4 DEF CallNotes
    <3> QED
      BY <2>1, <2>2, <3>1, <3>2 DEF TypeOK, Within, CirclesAreCut, NotStalled
  <2>5. CASE CallRaises(c)
    <3>1. noProgress' \in 0 .. MaxNoProgress + 1
      BY <2>1, <2>5, ReActAssumption DEF CallRaises, TypeOK, Within
    <3> QED
      BY <2>2, <2>5, <3>1 DEF CallRaises, End, TypeOK, Within, CirclesAreCut, NotStalled
  <2> QED
    BY <1>5, <2>3, <2>4, <2>5
<1>6. ASSUME NEW c \in Calls, NEW delta \in Deltas, NEW gain \in {"medium", "weak", "none"},
             NEW error \in Recorded \cup {NoText}, CallObserved(c, delta, gain, error)
      PROVE  TypeInv'
  BY <1>6, CallObservedType
<1> QED
  BY <1>1, <1>2, <1>3, <1>4, <1>5, <1>6 DEF Next

\* An execution starts with all counters at zero.
LEMMA InitType == Init => TypeInv
<1> SUFFICES ASSUME Init PROVE TypeInv
  OBVIOUS
<1>1. /\ turn \in 1 .. MaxTurns /\ left \in 0 .. MaxCalls
      /\ noProgress \in 0 .. MaxNoProgress + 1 /\ hintTurn \in 0 .. MaxTurns
  BY ReActAssumption DEF Init
<1>2. /\ actions \in Counter(Calls, MaxRepeatedActions + 1)
      /\ states \in Counter(Fingerprints, MaxRepeatedStates + 2)
      /\ errors \in Counter(Hashes, 1)
  BY ReActAssumption DEF Init, Counter
<1>3. outcome = "running" /\ made = FALSE /\ hint = "none" /\ tail = <<>> /\ stalls = 0
  BY DEF Init
<1>4. TypeOK
  <2>1. tail \in Seq(Recorded) /\ Len(tail) <= 2
    BY <1>3
  <2>2. made \in BOOLEAN
    BY <1>3, Zenon
  <2>3. hint \in {"none", "withheld", "given"} /\ stalls \in 0 .. 2
    BY <1>3
  <2> QED
    BY <1>1, <1>2, <1>3, <2>1, <2>2, <2>3 DEF TypeOK
<1>5. Within /\ CirclesAreCut /\ NotStalled
  BY <1>3, ReActAssumption DEF Init, Within, CirclesAreCut, NotStalled
<1> QED
  BY <1>4, <1>5 DEF TypeInv

\* Every variable of an execution keeps its type.
THEOREM TypeCorrect == Spec => []TypeOK
<1>1. TypeInv => TypeOK
  BY DEF TypeInv
<1> QED
  BY <1>1, InitType, NextType, PTL DEF Spec

\* A model that repeats its calls or what they bring is stopped, at the latest one
\* observation after the limit.
THEOREM CirclesCut == Spec => []CirclesAreCut
<1>1. TypeInv => CirclesAreCut
  BY DEF TypeInv
<1> QED
  BY <1>1, InitType, NextType, PTL DEF Spec

\* How far the flaw goes that OneMoreChance shows: not only the second stall, no number
\* of them ever reaches the failure that execute has for a lack of progress.
THEOREM StallsEndNone == Spec => [](outcome # "stalled")
<1>1. TypeInv => outcome # "stalled"
  BY DEF TypeInv, NotStalled
<1> QED
  BY <1>1, InitType, NextType, PTL DEF Spec

-----------------------------------------------------------------------------
(* Recovery hints *)

\* The hash that is kept is that of the last error record_error was given.
HashInv ==
    errors.last # Nil => tail # <<>> /\ errors.last = <<"state", tail[Len(tail)]>>

\* A hint was given only with the second of two successes.
SuccessesHinted == hint = "given" => tail = <<NoError, NoError>>

HintInv == HashInv /\ SuccessesHinted

\* An observation is hinted at only if the hash kept from the one before is the hash
\* made now; both are then of the text "None".
LEMMA CallObservedHint ==
  ASSUME TypeOK, HintInv,
         NEW c \in Calls, NEW delta \in Deltas, NEW gain \in {"medium", "weak", "none"},
         NEW error \in Recorded \cup {NoText}, CallObserved(c, delta, gain, error)
  PROVE  HintInv'
<1>1. PICK pattern \in BOOLEAN : Recover(error, pattern)
  BY DEF CallObserved
<1>2. CASE error = NoText
  <2>1. hint' = "none" /\ UNCHANGED <<errors, tail>>
    BY <1>1, <1>2 DEF Recover
  <2> QED
    BY <2>1 DEF HintInv, HashInv, SuccessesHinted
<1>3. CASE error # NoText
  <2>1. /\ error \in Recorded
        /\ errors' = Counted(error)
        /\ tail' = IF tail = <<>> THEN <<error>> ELSE <<tail[Len(tail)], error>>
        /\ hint' = "given" => errors'.count >= 1
    BY <1>1, <1>3 DEF Recover
  <2>2. tail' # <<>> /\ tail'[Len(tail')] = error
    BY <2>1
  <2>3. errors'.last = <<"state", error>>
    BY <2>1, CountedType
  <2>4. HashInv'
    BY <2>2, <2>3 DEF HashInv
  <2>5. ASSUME hint' = "given" PROVE tail' = <<NoError, NoError>>
    <3>1. Counted(error).count >= 1
      BY <2>1, <2>5
    <3>2. error = NoError /\ errors.last = <<"state", error>>
      BY <3>1 DEF Counted
    <3>3. errors.last # Nil
      BY <3>2, ReActAssumption DEF Hashes, Recorded
    <3> QED
      BY <2>1, <3>2, <3>3 DEF HintInv, HashInv
  <2> QED
    BY <2>4, <2>5 DEF HintInv, SuccessesHinted
<1> QED
  BY <1>2, <1>3

\* No other action counts errors or gives hints.
LEMMA NextHint ==
  ASSUME TypeOK, HintInv, [Next]_vars
  PROVE  HintInv'
<1>1. ASSUME NEW c \in Calls, NEW delta \in Deltas, NEW gain \in {"medium", "weak", "none"},
             NEW error \in Recorded \cup {NoText}, CallObserved(c, delta, gain, error)
      PROVE  HintInv'
  BY <1>1, CallObservedHint
<1>2. CASE UNCHANGED <<errors, tail, hint>>
  BY <1>2 DEF HintInv, HashInv, SuccessesHinted
<1>3. ASSUME NEW n \in 1 .. MaxCalls, AnswerCalls(n)
      PROVE  UNCHANGED <<errors, tail, hint>>
  BY <1>3 DEF AnswerCalls, counters, history
<1>4. ASSUME NEW c \in Calls, CallRepeated(c) \/ CallNotes(c) \/ CallRaises(c)
      PROVE  UNCHANGED <<errors, tail, hint>>
  BY <1>4 DEF CallRepeated, CallNotes, CallRaises, history
<1>5. CASE Claim \/ Raises \/ UNCHANGED vars
  BY <1>2, <1>5 DEF Claim, Raises, vars, counters, history
<1> QED
  BY <1>1, <1>2, <1>3, <1>4, <1>5 DEF Next

\* How far the flaw goes that LoopsAreHinted shows: a recovery hint comes only with the
\* second of two successes in a row, never with the error it is meant for.
THEOREM HintsComeAfterSuccess == Spec => [](hint = "given" => tail = <<NoError, NoError>>)
<1>1. Init => HintInv
  BY DEF Init, HintInv, HashInv, SuccessesHinted
<1>2. HintInv => (hint = "given" => tail = <<NoError, NoError>>)
  BY DEF HintInv, SuccessesHinted
<1> QED
  BY <1>1, <1>2, TypeCorrect, NextHint, PTL DEF Spec

-----------------------------------------------------------------------------
(* How far an execution can go *)

\* What is left of a turn: the answer and its calls, or those of its calls not yet run.
LeftOfTurn == IF left = 0 THEN MaxCalls + 1 ELSE left

\* Every step is taken by an execution that goes on, and ends it, begins the next turn,
\* of which there are MaxTurns, or uses up some of the turn: an execution that was ended
\* runs no further call, and no answer, note, stall or rejected claim makes it go round
\* without spending its turns.
Descends ==
    /\ outcome = "running"
    /\ \/ outcome' # "running"
       \/ turn' = turn + 1
       \/ turn' = turn /\ LeftOfTurn' < LeftOfTurn

\* The end of a call descends, and so does the end of a turn without one.
LEMMA CallEndsDescends ==
  ASSUME TypeOK, outcome = "running", left > 0, CallEnds
  PROVE  Descends
<1>1. left \in Nat /\ MaxCalls \in Nat
  BY ReActAssumption DEF TypeOK
<1>2. CASE left > 1
  <2>1. left' = left - 1 /\ turn' = turn
    BY <1>2 DEF CallEnds
  <2>2. LeftOfTurn' < LeftOfTurn
    BY <1>1, <1>2, <2>1 DEF LeftOfTurn
  <2> QED
    BY <2>1, <2>2 DEF Descends
<1>3. CASE ~(left > 1)
  <2>1. TurnEnds
    BY <1>3 DEF CallEnds
  <2> QED
    BY <2>1 DEF TurnEnds, AtTheLimit, Descends
<1> QED
  BY <1>2, <1>3

\* Every step descends.
LEMMA NextDescends ==
  ASSUME TypeInv, Next
  PROVE  Descends
<1>0. TypeOK
  BY DEF TypeInv
<1>1. left \in 0 .. MaxCalls /\ MaxCalls \in Nat
  BY ReActAssumption DEF TypeInv, TypeOK
<1>2. ASSUME NEW n \in 1 .. MaxCalls, AnswerCalls(n)
      PROVE  Descends
  BY <1>1, <1>2 DEF AnswerCalls, Descends, LeftOfTurn
<1>3. CASE Claim
  BY <1>3 DEF Claim, End, TurnEnds, AtTheLimit, Descends
<1>4. CASE Raises
  BY <1>4 DEF Raises, End, Descends
<1>5. ASSUME NEW c \in Calls, CallRepeated(c) \/ CallRaises(c)
      PROVE  Descends
  BY <1>5 DEF CallRepeated, CallRaises, End, Descends
<1>6. ASSUME NEW c \in Calls, CallNotes(c)
      PROVE  Descends
  BY <1>0, <1>6, CallEndsDescends DEF CallNotes
<1>7. ASSUME NEW c \in Calls, NEW delta \in Deltas, NEW gain \in {"medium", "weak", "none"},
             NEW error \in Recorded \cup {NoText}, CallObserved(c, delta, gain, error)
      PROVE  Descends
  <2>1. outcome = "running" /\ left > 0 /\ (CallEnds \/ End("equivalent"))
    <3>1. Progress(Signal(actions'.count > 0, error # NoError, delta, gain)) <= MaxNoProgress + 1
      BY <1>7, ReActAssumption DEF CallObserved, Progress, TypeInv, TypeOK, Within
    <3>2. \A n \in Nat : n <= MaxNoProgress + 1 /\ n > MaxNoProgress => n = MaxNoProgress + 1
      BY ReActAssumption
    <3>3. Progress(Signal(actions'.count > 0, error # NoError, delta, gain)) \in Nat
      BY ReActAssumption DEF Progress, TypeInv, TypeOK
    <3> QED
      BY <1>7, <3>1, <3>2, <3>3 DEF CallObserved, Verdict
  <2>2. CASE CallEnds
    BY <1>0, <2>1, <2>2, CallEndsDescends
  <2>3. CASE End("equivalent")
    BY <2>1, <2>3 DEF End, Descends
  <2> QED
    BY <2>1, <2>2, <2>3
<1> QED
  BY <1>2, <1>3, <1>4, <1>5, <1>6, <1>7 DEF Next

\* An execution is over after a bounded number of answers and calls (the two loops of
\* SkillExecutor.execute): its steps descend, within MaxTurns turns of MaxCalls calls.
THEOREM EveryStepDescends ==
  Spec => /\ [](turn \in 1 .. MaxTurns /\ LeftOfTurn \in 1 .. MaxCalls + 1)
          /\ [][Descends]_vars
<1>1. TypeInv => turn \in 1 .. MaxTurns /\ LeftOfTurn \in 1 .. MaxCalls + 1
  BY ReActAssumption DEF TypeInv, TypeOK, LeftOfTurn
<1>2. TypeInv /\ [Next]_vars => [Descends]_vars
  BY NextDescends
<1>3. TypeInv /\ [Next]_vars => TypeInv'
  BY NextType
<1> QED
  BY <1>1, <1>2, <1>3, InitType, PTL DEF Spec
=============================================================================
