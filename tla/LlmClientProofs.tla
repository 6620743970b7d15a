---------------------------- MODULE LlmClientProofs ----------------------------
(***************************************************************************)
(* Proofs about LlmClient for any finite set of callers and any limits.    *)
(***************************************************************************)
EXTENDS LlmClient, FiniteSetTheorems, TLAPS

-----------------------------------------------------------------------------
(* The breaker's own steps *)

Breakers == [state : {"closed", "open", "half-open"}, failures : 0 .. FailureThreshold,
             halfOpenCalls : 0 .. HalfOpenMaxCalls, cooled : BOOLEAN]

\* Letting a call in that is not refused keeps the slots within their limit.
LEMMA EnteredType ==
  ASSUME NEW b \in Breakers, ~Refuses(b)
  PROVE  /\ Entered(b) \in Breakers
         /\ Entered(b).failures = b.failures
         /\ b.state = "closed" => Entered(b) = b
         /\ b.state = "open" => Entered(b).state = "half-open" /\ Entered(b).halfOpenCalls = 1
         /\ b.state = "half-open" => /\ Entered(b).state = "half-open"
                                     /\ Entered(b).halfOpenCalls = b.halfOpenCalls + 1
<1> DEFINE n == IF b.state = "open" THEN 1 ELSE b.halfOpenCalls + 1
<1>1. CASE b.state = "closed"
  BY <1>1 DEF Entered, Breakers
<1>2. CASE b.state # "closed"
  <2>1. Entered(b) = [b EXCEPT !.state = "half-open", !.halfOpenCalls = n]
    BY <1>2 DEF Entered
  <2>2. n \in 0 .. HalfOpenMaxCalls
    BY <1>2, ClientAssumption DEF Refuses, Breakers
  <2>3. b.state \in {"open", "half-open"}
    BY <1>2 DEF Breakers
  <2> HIDE DEF n
  <2>4. /\ Entered(b) \in Breakers /\ Entered(b).failures = b.failures
        /\ Entered(b).state = "half-open" /\ Entered(b).halfOpenCalls = n
    BY <2>1, <2>2 DEF Breakers
  <2> QED
    BY <1>2, <2>3, <2>4 DEF n
<1> QED
  BY <1>1, <1>2

\* A success ends the half-open period and clears the failures.
LEMMA SucceededType ==
  ASSUME NEW b \in Breakers
  PROVE  /\ Succeeded(b) \in Breakers
         /\ Succeeded(b).failures = 0
         /\ Succeeded(b).state = IF b.state = "half-open" THEN "closed" ELSE b.state
<1>1. 0 \in 0 .. FailureThreshold /\ 0 \in 0 .. HalfOpenMaxCalls
  BY ClientAssumption
<1>2. CASE b.state = "half-open"
  <2>1. Succeeded(b) = [b EXCEPT !.failures = 0, !.state = "closed", !.halfOpenCalls = 0]
    BY <1>2 DEF Succeeded
  <2> QED
    BY <1>1, <1>2, <2>1 DEF Breakers
<1>3. CASE b.state # "half-open"
  <2>1. Succeeded(b) = [b EXCEPT !.failures = 0]
    BY <1>3 DEF Succeeded
  <2> QED
    BY <1>1, <1>3, <2>1 DEF Breakers
<1> QED
  BY <1>2, <1>3

\* A failure is counted up to the threshold, and opens the breaker there.
LEMMA FailedType ==
  ASSUME NEW b \in Breakers
  PROVE  /\ Failed(b) \in Breakers
         /\ Failed(b).halfOpenCalls = b.halfOpenCalls
         /\ Failed(b).state \in {b.state, "open"}
         /\ Failed(b).state # "open" => Failed(b).failures < FailureThreshold
         /\ b.failures >= FailureThreshold => Failed(b).state = "open"
<1> DEFINE n == IF b.failures < FailureThreshold THEN b.failures + 1 ELSE b.failures
           s == IF b.failures + 1 >= FailureThreshold THEN "open" ELSE b.state
<1>1. Failed(b) = [b EXCEPT !.failures = n, !.cooled = FALSE, !.state = s]
  BY DEF Failed
<1>2. n \in 0 .. FailureThreshold /\ s \in {"closed", "open", "half-open"}
  BY ClientAssumption DEF Breakers
<1>3. /\ s \in {b.state, "open"}
      /\ s # "open" => n < FailureThreshold
      /\ b.failures >= FailureThreshold => s = "open"
  BY ClientAssumption DEF Breakers
<1> HIDE DEF n, s
<1>4. /\ Failed(b) \in Breakers /\ Failed(b).halfOpenCalls = b.halfOpenCalls
      /\ Failed(b).state = s /\ Failed(b).failures = n
  BY <1>1, <1>2 DEF Breakers
<1> QED
  BY <1>3, <1>4

-----------------------------------------------------------------------------
(* Types *)

\* A caller that sleeps before a retry has one left.
RetriesLeft == \A c \in Callers : pc[c] = "backoff" => attempt[c] < MaxRetries

\* Asking the breaker, being refused included, keeps the types.
LEMMA KnockType ==
  ASSUME TypeOK, NEW c \in Callers, NEW b \in Breakers, NEW repeats \in 0 .. MaxRawRetries,
         Knock(c, b, repeats), UNCHANGED up
  PROVE  TypeOK'
<1>1. /\ breaker \in Breakers
      /\ 0 \in 0 .. MaxRetries /\ 0 \in 0 .. MaxRawRetries
  BY ClientAssumption DEF TypeOK, Breakers
<1>2. CASE Refuses(b)
  <2>1. breaker' \in Breakers
    BY <1>2 DEF Knock
  <2>2. /\ ticket' = [Tickets(breaker.state, b.state) EXCEPT ![c] = "none"]
        /\ UNCHANGED unreported
        /\ pc' = [pc EXCEPT ![c] = "idle"]
        /\ attempt' = [attempt EXCEPT ![c] = 0]
        /\ rawRetries' = [rawRetries EXCEPT ![c] = 0]
    BY <1>2 DEF Knock, Leave
  <2>3. /\ ticket' \in [Callers -> {"none", "pass", "probe"}]
        /\ ticket'[c] = "none"
        /\ \A d \in Callers \ {c} : ticket'[d] = "none" <=> ticket[d] = "none"
    BY <2>2 DEF Tickets, TypeOK
  <2> QED
    BY <1>1, <2>1, <2>2, <2>3 DEF TypeOK, Breakers
<1>3. CASE ~Refuses(b)
  <2>1. breaker' \in Breakers
    BY <1>3, EnteredType DEF Knock
  <2>2. /\ ticket' = [Tickets(b.state, breaker'.state)
                         EXCEPT ![c] = IF b.state = "closed" THEN "pass" ELSE "probe"]
        /\ unreported' = (unreported /\ b.state = "half-open")
        /\ pc' = [pc EXCEPT ![c] = "asking"]
        /\ attempt' = [attempt EXCEPT ![c] = 0]
        /\ rawRetries' = [rawRetries EXCEPT ![c] = repeats]
    BY <1>3 DEF Knock
  <2>3. /\ ticket' \in [Callers -> {"none", "pass", "probe"}]
        /\ ticket'[c] # "none"
        /\ \A d \in Callers \ {c} : ticket'[d] = "none" <=> ticket[d] = "none"
    BY <2>2 DEF Tickets, TypeOK
  <2>4. unreported' \in BOOLEAN
    BY <2>2
  <2> QED
    BY <1>1, <2>1, <2>2, <2>3, <2>4 DEF TypeOK, Breakers
<1> QED
  BY <1>2, <1>3

\* So does ending a call with word to the breaker.
LEMMA ReportType ==
  ASSUME TypeOK, NEW c \in Callers, NEW b \in Breakers, Report(c, b), UNCHANGED up
  PROVE  TypeOK'
<1>1. 0 \in 0 .. MaxRetries /\ 0 \in 0 .. MaxRawRetries /\ breaker' \in Breakers
  BY ClientAssumption DEF Report
<1> QED
  BY <1>1 DEF TypeOK, Report, Leave, Tickets, Breakers

\* And ending it without.
LEMMA VanishType ==
  ASSUME TypeOK, NEW c \in Callers, Vanish(c)
  PROVE  TypeOK'
<1>1. 0 \in 0 .. MaxRetries /\ 0 \in 0 .. MaxRawRetries
  BY ClientAssumption
<1> QED
  BY <1>1 DEF TypeOK, Vanish, Leave

\* A caller's own step keeps the types.
LEMMA CallerType ==
  ASSUME TypeOK, RetriesLeft, NEW c \in Callers,
         Chat(c) \/ Stream(c) \/ Cancelled(c) \/ Proceeds(c)
  PROVE  TypeOK'
<1>1. /\ breaker \in Breakers
      /\ 0 \in 0 .. MaxRetries /\ 0 \in 0 .. MaxRawRetries
  BY ClientAssumption DEF TypeOK, Breakers
<1>2. Succeeded(breaker) \in Breakers /\ Failed(breaker) \in Breakers
  BY <1>1, SucceededType, FailedType
<1>3. CASE Chat(c)
  BY <1>1, <1>3, KnockType DEF Chat
<1>4. CASE Stream(c)
  BY <1>4 DEF Stream, TypeOK, history
<1>5. CASE Cancelled(c)
  BY <1>5, VanishType DEF Cancelled
<1>6. CASE Answered(c)
  BY <1>2, <1>6, ReportType DEF Answered
<1>7. CASE AnsweredRaw(c)
  <2>1. rawRetries[c] + 1 \in 0 .. MaxRawRetries
    BY <1>7, ClientAssumption DEF AnsweredRaw, TypeOK
  <2> QED
    BY <1>2, <1>7, <2>1, KnockType DEF AnsweredRaw
<1>8. CASE FailsRetried(c)
  BY <1>8 DEF FailsRetried, TypeOK, history
<1>9. CASE Retry(c)
  <2>1. attempt[c] + 1 \in 0 .. MaxRetries
    BY <1>9, ClientAssumption DEF Retry, TypeOK, RetriesLeft
  <2> QED
    BY <1>9, <2>1 DEF Retry, TypeOK, history
<1>10. CASE FailsFinally(c)
  BY <1>2, <1>10, ReportType DEF FailsFinally
<1>11. CASE Rejected(c)
  BY <1>11, VanishType DEF Rejected
<1>12. CASE StreamEnds(c)
  BY <1>1, <1>12 DEF StreamEnds, Leave, TypeOK, history
<1>13. CASE StreamFallsBack(c)
  BY <1>1, <1>13, KnockType DEF StreamFallsBack
<1> QED
  BY <1>3, <1>4, <1>5, <1>6, <1>7, <1>8, <1>9, <1>10, <1>11, <1>12, <1>13 DEF Proceeds

\* A caller goes to sleep only with a retry left, and wakes before it uses it up.
LEMMA CallerRetries ==
  ASSUME TypeOK, RetriesLeft, NEW c \in Callers,
         Chat(c) \/ Stream(c) \/ Cancelled(c) \/ Proceeds(c)
  PROVE  RetriesLeft'
<1>1. CASE FailsRetried(c)
  BY <1>1 DEF FailsRetried, TypeOK, RetriesLeft
<1>2. CASE ~FailsRetried(c)
  <2>1. \A d \in Callers \ {c} : pc'[d] = pc[d] /\ attempt'[d] = attempt[d]
    BY DEF TypeOK, Chat, Stream, Cancelled, Proceeds, Answered, AnsweredRaw, FailsRetried, Retry,
           FailsFinally, Rejected, StreamEnds, StreamFallsBack, Knock, Report, Vanish, Leave
  <2>2. pc'[c] # "backoff"
    BY <1>2 DEF TypeOK, Chat, Stream, Cancelled, Proceeds, Answered, AnsweredRaw, Retry,
           FailsFinally, Rejected, StreamEnds, StreamFallsBack, Knock, Report, Vanish, Leave
  <2> QED
    BY <2>1, <2>2 DEF RetriesLeft
<1> QED
  BY <1>1, <1>2

\* The types and the retries left are invariant together.
LEMMA TypesKept == Spec => [](TypeOK /\ RetriesLeft)
<1>1. Init => TypeOK /\ RetriesLeft
  <2> SUFFICES ASSUME Init PROVE TypeOK /\ RetriesLeft
    OBVIOUS
  <2>1. breaker \in Breakers
    BY ClientAssumption DEF Init, Breakers
  <2>2. 0 \in 0 .. MaxRetries /\ 0 \in 0 .. MaxRawRetries
    BY ClientAssumption
  <2> QED
    BY <2>1, <2>2 DEF Init, TypeOK, RetriesLeft, Breakers
<1>2. TypeOK /\ RetriesLeft /\ [Next]_vars => (TypeOK /\ RetriesLeft)'
  <2> SUFFICES ASSUME TypeOK, RetriesLeft, [Next]_vars
               PROVE  TypeOK' /\ RetriesLeft'
    OBVIOUS
  <2>1. CASE Flip
    BY <2>1 DEF Flip, TypeOK, RetriesLeft, callVars, history
  <2>2. CASE Elapse
    <3>1. breaker \in Breakers
      BY DEF TypeOK, Breakers
    <3>2. breaker' \in Breakers
      BY <2>2, <3>1 DEF Elapse, Breakers
    <3> QED
      BY <2>2, <3>2 DEF Elapse, TypeOK, RetriesLeft, callVars, history, Breakers
  <2>3. CASE \E c \in Callers : Chat(c) \/ Stream(c) \/ Cancelled(c) \/ Proceeds(c)
    BY <2>3, CallerType, CallerRetries
  <2>4. CASE UNCHANGED vars
    BY <2>4 DEF vars, callVars, history, TypeOK, RetriesLeft
  <2> QED
    BY <2>1, <2>2, <2>3, <2>4 DEF Next
<1> QED
  BY <1>1, <1>2, PTL DEF Spec

\* Every state is well typed: no counter of the breaker passes its limit, no caller
\* its retries, and a caller waits for a guarded answer iff the breaker let it in.
THEOREM TypeCorrect == Spec => []TypeOK
  BY TypesKept, PTL

-----------------------------------------------------------------------------
(* The half-open period *)

\* What the breaker's slots have to do with the probes that are out: only a half-open
\* breaker has probes, each took a slot, and unless one got lost or an old call
\* cleared the failures, each slot taken belongs to a probe that is still out.
PeriodInv ==
    /\ Probes # {} => breaker.state = "half-open"
    /\ Cardinality(Probes) <= breaker.halfOpenCalls
    /\ breaker.state = "closed" => breaker.failures < FailureThreshold
    /\ breaker.state = "half-open" /\ ~unreported /\ breaker.failures >= FailureThreshold
         => breaker.halfOpenCalls = Cardinality(Probes)

\* The ways a step may treat the period: it is over or not begun; it begins with the
\* probe c; c joins it; c leaves it, heard or unheard; or it goes on as it was.
NoPeriod ==
    /\ breaker'.state # "half-open"
    /\ Probes' = {}
    /\ breaker'.state = "closed" => breaker'.failures < FailureThreshold
Begins(c) ==
    /\ breaker'.state = "half-open" /\ breaker'.halfOpenCalls = 1
    /\ Probes' = {c}
Joins(c) ==
    /\ breaker.state = "half-open" /\ breaker'.state = "half-open"
    /\ c \notin Probes /\ Probes' = Probes \cup {c}
    /\ breaker'.halfOpenCalls = breaker.halfOpenCalls + 1
    /\ breaker'.failures = breaker.failures
    /\ unreported' = unreported
Leaves(c) ==
    /\ breaker.state = "half-open" /\ breaker'.state = "half-open"
    /\ Probes' = Probes \ {c}
    /\ breaker'.halfOpenCalls = breaker.halfOpenCalls
    /\ \/ unreported'
       \/ breaker'.failures < FailureThreshold
       \/ c \notin Probes /\ breaker'.failures = breaker.failures /\ unreported' = unreported
GoesOn ==
    /\ breaker.state = "half-open" /\ breaker'.state = "half-open"
    /\ Probes' = Probes
    /\ breaker'.halfOpenCalls = breaker.halfOpenCalls
    /\ breaker'.failures = breaker.failures
    /\ unreported' = unreported

\* Whichever it is, slots and probes keep in step.
LEMMA PeriodStep ==
  ASSUME TypeOK, TypeOK', PeriodInv, NEW c \in Callers,
         NoPeriod \/ Begins(c) \/ Joins(c) \/ Leaves(c) \/ GoesOn
  PROVE  PeriodInv'
<1>1. IsFiniteSet(Probes)
  BY FS_Subset, ClientAssumption DEF Probes
<1>2. Cardinality(Probes) \in Nat
  BY <1>1, FS_CardinalityType
<1>3. /\ breaker.halfOpenCalls \in Nat /\ breaker.failures \in Nat
      /\ breaker'.halfOpenCalls \in Nat /\ breaker'.failures \in Nat
      /\ FailureThreshold \in Nat
  BY ClientAssumption DEF TypeOK
<1>4. CASE NoPeriod
  <2>1. Cardinality(Probes') = 0
    BY <1>4, FS_EmptySet DEF NoPeriod
  <2> QED
    BY <1>3, <1>4, <2>1 DEF NoPeriod, PeriodInv
<1>5. CASE Begins(c)
  <2>1. Cardinality(Probes') = 1
    BY <1>5, FS_Singleton DEF Begins
  <2> QED
    BY <1>3, <1>5, <2>1 DEF Begins, PeriodInv
<1>6. CASE Joins(c)
  <2>1. Cardinality(Probes') = Cardinality(Probes) + 1
    BY <1>1, <1>6, FS_AddElement DEF Joins
  <2> QED
    BY <1>2, <1>3, <1>6, <2>1 DEF Joins, PeriodInv
<1>7. CASE Leaves(c)
  <2>1. Cardinality(Probes') = IF c \in Probes THEN Cardinality(Probes) - 1 ELSE Cardinality(Probes)
    BY <1>1, <1>7, FS_RemoveElement DEF Leaves
  <2>2. Cardinality(Probes') <= Cardinality(Probes)
    BY <1>2, <2>1
  <2>3. c \notin Probes => Cardinality(Probes') = Cardinality(Probes)
    BY <2>1
  <2> QED
    BY <1>2, <1>3, <1>7, <2>1, <2>2, <2>3 DEF Leaves, PeriodInv
<1>8. CASE GoesOn
  BY <1>8 DEF GoesOn, PeriodInv
<1> QED
  BY <1>4, <1>5, <1>6, <1>7, <1>8

\* A call that asks the breaker joins the period, begins one, or stays out of it.
LEMMA KnockPeriod ==
  ASSUME TypeOK, TypeOK', PeriodInv, NEW c \in Callers, NEW b \in Breakers, NEW repeats,
         Knock(c, b, repeats),
         \/ b = breaker /\ c \notin Probes
         \/ b.state # "half-open" /\ b.failures = 0
  PROVE  PeriodInv'
<1>1. 0 < FailureThreshold /\ breaker \in Breakers
  BY ClientAssumption DEF TypeOK, Breakers
<1>2. b.state \in {"closed", "open", "half-open"}
  BY DEF Breakers
<1>3. b.state = "closed" => b.failures < FailureThreshold
  BY <1>1 DEF PeriodInv
<1>4. CASE Refuses(b)
  <2>1. /\ breaker' = b /\ unreported' = unreported
        /\ ticket' = [Tickets(breaker.state, b.state) EXCEPT ![c] = "none"]
    BY <1>4 DEF Knock
  <2>2. Probes' = IF breaker.state = "half-open" /\ b.state = "half-open"
                  THEN Probes \ {c} ELSE {}
    BY <2>1 DEF Probes, Tickets, TypeOK
  <2>3. CASE b.state = "half-open"
    <3>1. b = breaker /\ c \notin Probes
      BY <2>3
    <3>2. GoesOn
      BY <2>1, <2>2, <2>3, <3>1 DEF GoesOn
    <3> QED
      BY <3>2, PeriodStep
  <2>4. CASE b.state # "half-open"
    <3>1. NoPeriod
      BY <1>3, <2>1, <2>2, <2>4 DEF NoPeriod
    <3> QED
      BY <3>1, PeriodStep
  <2> QED
    BY <2>3, <2>4
<1>5. CASE ~Refuses(b)
  <2>1. /\ breaker' = Entered(b)
        /\ unreported' = (unreported /\ b.state = "half-open")
        /\ ticket' = [Tickets(b.state, breaker'.state)
                        EXCEPT ![c] = IF b.state = "closed" THEN "pass" ELSE "probe"]
    BY <1>5 DEF Knock
  <2>2. Probes' = ((IF b.state = "half-open" /\ breaker'.state = "half-open"
                     THEN Probes ELSE {}) \ {c})
                  \cup (IF b.state = "closed" THEN {} ELSE {c})
    BY <2>1 DEF Probes, Tickets, TypeOK
  <2>3. CASE b.state = "closed"
    <3>1. breaker' = b
      BY <1>5, <2>1, <2>3, EnteredType
    <3>2. NoPeriod
      BY <1>3, <2>2, <2>3, <3>1 DEF NoPeriod
    <3> QED
      BY <3>2, PeriodStep
  <2>4. CASE b.state = "open"
    <3>1. breaker'.state = "half-open" /\ breaker'.halfOpenCalls = 1
      BY <1>5, <2>1, <2>4, EnteredType
    <3>2. Begins(c)
      BY <2>2, <2>4, <3>1 DEF Begins
    <3> QED
      BY <3>2, PeriodStep
  <2>5. CASE b.state = "half-open"
    <3>1. b = breaker /\ c \notin Probes
      BY <2>5
    <3>2. /\ breaker'.state = "half-open" /\ breaker'.failures = breaker.failures
          /\ breaker'.halfOpenCalls = breaker.halfOpenCalls + 1
      BY <1>5, <2>1, <2>5, <3>1, EnteredType
    <3>3. unreported' = unreported
      BY <2>1, <2>5 DEF TypeOK
    <3>4. Joins(c)
      BY <2>2, <2>5, <3>1, <3>2, <3>3 DEF Joins
    <3> QED
      BY <3>4, PeriodStep
  <2> QED
    BY <1>2, <2>3, <2>4, <2>5
<1> QED
  BY <1>4, <1>5

\* A call that tells the breaker leaves the period; a success ends it, a failure ends
\* it at the threshold.
LEMMA ReportPeriod ==
  ASSUME TypeOK, TypeOK', PeriodInv, NEW c \in Callers, NEW b \in Breakers, Report(c, b),
         b = Succeeded(breaker) \/ b = Failed(breaker)
  PROVE  PeriodInv'
<1>1. /\ breaker' = b /\ unreported' = unreported
      /\ ticket' = [Tickets(breaker.state, b.state) EXCEPT ![c] = "none"]
  BY DEF Report
<1>2. Probes' = IF breaker.state = "half-open" /\ b.state = "half-open"
                THEN Probes \ {c} ELSE {}
  BY <1>1 DEF Probes, Tickets, TypeOK
<1>3. 0 < FailureThreshold /\ breaker \in Breakers
  BY ClientAssumption DEF TypeOK, Breakers
<1>4. b.state # "open" => b.failures < FailureThreshold
  BY <1>3, SucceededType, FailedType
<1>5. b.state \in {breaker.state, "open", "closed"}
  BY <1>3, SucceededType, FailedType
<1>6. CASE b.state # "half-open"
  <2>1. NoPeriod
    BY <1>1, <1>2, <1>4, <1>6 DEF NoPeriod
  <2> QED
    BY <2>1, PeriodStep
<1>7. CASE b.state = "half-open"
  <2>1. breaker.state = "half-open" /\ b = Failed(breaker)
    BY <1>3, <1>5, <1>7, SucceededType
  <2>2. Leaves(c)
    BY <1>1, <1>2, <1>3, <1>4, <1>7, <2>1, FailedType DEF Leaves
  <2> QED
    BY <2>2, PeriodStep
<1> QED
  BY <1>6, <1>7

\* A call that vanishes leaves the period unheard.
LEMMA VanishPeriod ==
  ASSUME TypeOK, TypeOK', PeriodInv, NEW c \in Callers, Vanish(c)
  PROVE  PeriodInv'
<1>1. /\ breaker' = breaker
      /\ ticket' = [ticket EXCEPT ![c] = "none"]
      /\ unreported' = (unreported \/ ticket[c] = "probe")
  BY DEF Vanish
<1>2. Probes' = Probes \ {c}
  BY <1>1 DEF Probes, TypeOK
<1>3. CASE breaker.state = "half-open"
  <2>1. \/ unreported'
        \/ c \notin Probes /\ unreported' = unreported
    BY <1>1 DEF Probes, TypeOK
  <2>2. Leaves(c)
    BY <1>1, <1>2, <1>3, <2>1 DEF Leaves
  <2> QED
    BY <2>2, PeriodStep
<1>4. CASE breaker.state # "half-open"
  <2>1. NoPeriod
    BY <1>1, <1>2, <1>4 DEF NoPeriod, PeriodInv
  <2> QED
    BY <2>1, PeriodStep
<1> QED
  BY <1>3, <1>4

\* What leaves breaker and history alone leaves the period alone.
LEMMA SamePeriod ==
  ASSUME PeriodInv, UNCHANGED <<breaker, ticket, unreported>>
  PROVE  PeriodInv'
  BY DEF PeriodInv, Probes

\* A caller's own step keeps slots and probes in step.
LEMMA CallerPeriod ==
  ASSUME TypeOK, TypeOK', PeriodInv, NEW c \in Callers,
         Chat(c) \/ Stream(c) \/ Cancelled(c) \/ Proceeds(c)
  PROVE  PeriodInv'
<1>1. breaker \in Breakers
  BY DEF TypeOK, Breakers
<1>2. Succeeded(breaker) \in Breakers /\ Failed(breaker) \in Breakers
  BY <1>1, SucceededType, FailedType
<1>3. pc[c] \in {"idle", "streaming"} => c \notin Probes
  BY DEF TypeOK, Probes
<1>4. CASE Chat(c) \/ StreamFallsBack(c)
  BY <1>1, <1>3, <1>4, KnockPeriod DEF Chat, StreamFallsBack
<1>5. CASE Stream(c) \/ FailsRetried(c) \/ Retry(c) \/ StreamEnds(c)
  BY <1>5, SamePeriod DEF Stream, FailsRetried, Retry, StreamEnds, history
<1>6. CASE Cancelled(c) \/ Rejected(c)
  BY <1>6, VanishPeriod DEF Cancelled, Rejected
<1>7. CASE Answered(c) \/ FailsFinally(c)
  BY <1>2, <1>7, ReportPeriod DEF Answered, FailsFinally
<1>8. CASE AnsweredRaw(c)
  <2>1. /\ Succeeded(breaker).state # "half-open"
        /\ Succeeded(breaker).failures = 0
    BY <1>1, SucceededType
  <2> QED
    BY <1>2, <1>8, <2>1, KnockPeriod DEF AnsweredRaw
<1> QED
  BY <1>4, <1>5, <1>6, <1>7, <1>8 DEF Proceeds

\* PeriodInv is invariant.
LEMMA PeriodKept == Spec => []PeriodInv
<1>1. Init => PeriodInv
  <2> SUFFICES ASSUME Init PROVE PeriodInv
    OBVIOUS
  <2>1. Probes = {}
    BY DEF Init, Probes
  <2>2. Cardinality(Probes) = 0
    BY <2>1, FS_EmptySet
  <2> QED
    BY <2>1, <2>2, ClientAssumption DEF Init, PeriodInv
<1>2. TypeOK /\ TypeOK' /\ PeriodInv /\ [Next]_vars => PeriodInv'
  <2> SUFFICES ASSUME TypeOK, TypeOK', PeriodInv, [Next]_vars PROVE PeriodInv'
    OBVIOUS
  <2>1. CASE Flip \/ UNCHANGED vars
    BY <2>1, SamePeriod DEF Flip, vars, history
  <2>2. CASE Elapse
    <3>1. breaker.state = "open" /\ breaker'.state = "open" /\ Probes' = Probes
      BY <2>2 DEF Elapse, history, Probes, TypeOK
    <3>2. Probes = {} /\ Cardinality(Probes') = 0
      BY <3>1, FS_EmptySet DEF PeriodInv
    <3> QED
      BY <3>1, <3>2 DEF PeriodInv, TypeOK
  <2>3. CASE \E c \in Callers : Chat(c) \/ Stream(c) \/ Cancelled(c) \/ Proceeds(c)
    BY <2>3, CallerPeriod
  <2> QED
    BY <2>1, <2>2, <2>3 DEF Next
<1> QED
  BY <1>1, <1>2, TypeCorrect, PTL DEF Spec

\* Never more than half_open_max_calls probes are out, whatever older calls return
\* meanwhile, and a closed breaker is below its threshold.
THEOREM ProbesAreLimited == Spec => []ProbesWithinLimit
<1>1. TypeOK /\ PeriodInv => ProbesWithinLimit
  <2> SUFFICES ASSUME TypeOK, PeriodInv PROVE ProbesWithinLimit
    OBVIOUS
  <2>1. IsFiniteSet(Probes)
    BY FS_Subset, ClientAssumption DEF Probes
  <2>2. Cardinality(Probes) \in Nat
    BY <2>1, FS_CardinalityType
  <2>3. breaker.halfOpenCalls \in 0 .. HalfOpenMaxCalls
    BY DEF TypeOK
  <2> QED
    BY <2>2, <2>3, ClientAssumption DEF PeriodInv, ProbesWithinLimit
<1> QED
  BY <1>1, TypeCorrect, PeriodKept, PTL

\* A half-open breaker with all slots taken and no probe out is the work of a probe that
\* ended unheard or of an old call that succeeded late: nothing else strands it.
THEOREM StrandedByLoss == Spec => []ExhaustedByLoss
<1>1. TypeOK /\ PeriodInv => ExhaustedByLoss
  <2> SUFFICES ASSUME TypeOK, PeriodInv, Exhausted, ~unreported
               PROVE  breaker.failures < FailureThreshold
    BY DEF ExhaustedByLoss
  <2>1. /\ breaker.failures \in Nat /\ FailureThreshold \in Nat
        /\ HalfOpenMaxCalls \in Nat \ {0} /\ breaker.halfOpenCalls \in Nat
    BY ClientAssumption DEF TypeOK
  <2>2. Cardinality(Probes) = 0
    BY FS_EmptySet DEF Exhausted
  <2> QED
    BY <2>1, <2>2 DEF Exhausted, PeriodInv
<1> QED
  BY <1>1, TypeCorrect, PeriodKept, PTL

-----------------------------------------------------------------------------
(* How far a call can go *)

\* How often the retry loop has sent the request of a caller, and slept after it.
Position(c) == 2 * attempt[c] + (IF pc[c] = "backoff" THEN 1 ELSE 0)

\* The caller's call comes to its end, or closer to it: from the stream to the guarded
\* call, from a guarded call to one more repeat of it, from an attempt to a sleep, from
\* a sleep to the next attempt.
Spends(c) ==
    \/ pc'[c] = "idle"
    \/ pc[c] = "streaming" /\ pc'[c] = "asking"
    \/ /\ {pc[c], pc'[c]} \subseteq {"asking", "backoff"}
       /\ \/ rawRetries'[c] = rawRetries[c] + 1
          \/ rawRetries'[c] = rawRetries[c] /\ Position(c)' = Position(c) + 1

Untouched(c) ==
    pc'[c] = pc[c] /\ attempt'[c] = attempt[c] /\ rawRetries'[c] = rawRetries[c]

\* A call under way is only brought closer to its end, by its own steps, and left alone
\* by those of the other callers, of the service and of the clock.
CallsSpend ==
    \A c \in Callers : pc[c] # "idle" =>
        /\ Proceeds(c) => Spends(c)
        /\ Spends(c) \/ Untouched(c)

\* Asking the breaker ends the call or sends the first request of the guarded one.
LEMMA KnockSends ==
  ASSUME TypeOK, NEW c \in Callers, NEW b, NEW repeats, Knock(c, b, repeats)
  PROVE  /\ \/ pc'[c] = "idle"
            \/ pc'[c] = "asking" /\ attempt'[c] = 0 /\ rawRetries'[c] = repeats
         /\ \A d \in Callers \ {c} : Untouched(d)
  BY DEF TypeOK, Knock, Leave, Untouched

\* The end of a call is the caller's alone.
LEMMA LeaveAlone ==
  ASSUME TypeOK, NEW c \in Callers, Leave(c)
  PROVE  /\ pc'[c] = "idle"
         /\ \A d \in Callers \ {c} : Untouched(d)
  BY DEF TypeOK, Leave, Untouched

\* A caller's own steps spend what it has.
LEMMA ProceedsSpends ==
  ASSUME TypeOK, NEW c \in Callers, Proceeds(c)
  PROVE  /\ pc[c] # "idle" /\ Spends(c)
         /\ \A d \in Callers \ {c} : Untouched(d)
<1>1. CASE Answered(c) \/ FailsFinally(c) \/ Rejected(c) \/ StreamEnds(c)
  <2>1. Leave(c) /\ pc[c] # "idle"
    BY <1>1 DEF Answered, FailsFinally, Rejected, StreamEnds, Report, Vanish
  <2> QED
    BY <2>1, LeaveAlone DEF Spends
<1>2. CASE AnsweredRaw(c)
  <2>1. Knock(c, Succeeded(breaker), rawRetries[c] + 1) /\ pc[c] = "asking"
    BY <1>2 DEF AnsweredRaw
  <2> QED
    BY <2>1, KnockSends DEF Spends
<1>3. CASE StreamFallsBack(c)
  <2>1. Knock(c, breaker, 0) /\ pc[c] = "streaming"
    BY <1>3 DEF StreamFallsBack
  <2> QED
    BY <2>1, KnockSends DEF Spends
<1>4. CASE FailsRetried(c)
  <2>1. /\ pc[c] = "asking" /\ pc'[c] = "backoff"
        /\ rawRetries' = rawRetries /\ attempt' = attempt
        /\ \A d \in Callers \ {c} : Untouched(d)
    BY <1>4 DEF FailsRetried, TypeOK, Untouched
  <2>2. Position(c)' = Position(c) + 1
    BY <2>1, ClientAssumption DEF Position, TypeOK
  <2> QED
    BY <2>1, <2>2 DEF Spends
<1>5. CASE Retry(c)
  <2>1. /\ pc[c] = "backoff" /\ pc'[c] = "asking"
        /\ rawRetries' = rawRetries /\ attempt'[c] = attempt[c] + 1
        /\ \A d \in Callers \ {c} : Untouched(d)
    BY <1>5 DEF Retry, TypeOK, Untouched
  <2>2. Position(c)' = Position(c) + 1
    BY <2>1, ClientAssumption DEF Position, TypeOK
  <2> QED
    BY <2>1, <2>2 DEF Spends
<1> QED
  BY <1>1, <1>2, <1>3, <1>4, <1>5 DEF Proceeds

\* No step of anyone takes a call back.
LEMMA NextSpends ==
  ASSUME TypeOK, [Next]_vars
  PROVE  CallsSpend
<1> SUFFICES ASSUME NEW c \in Callers, pc[c] # "idle"
             PROVE  (Proceeds(c) => Spends(c)) /\ (Spends(c) \/ Untouched(c))
  BY DEF CallsSpend
<1>1. Proceeds(c) => Spends(c)
  BY ProceedsSpends
<1>2. CASE Flip \/ Elapse \/ UNCHANGED vars
  BY <1>1, <1>2 DEF Flip, Elapse, vars, callVars, Untouched
<1>3. ASSUME NEW d \in Callers, Chat(d) \/ Stream(d) \/ Cancelled(d) \/ Proceeds(d)
      PROVE  Spends(c) \/ Untouched(c)
  <2>1. CASE Chat(d)
    BY <2>1, KnockSends DEF Chat
  <2>2. CASE Stream(d)
    BY <2>2 DEF Stream, TypeOK, Untouched
  <2>3. CASE Cancelled(d)
    BY <2>3, LeaveAlone DEF Cancelled, Vanish, Spends
  <2>4. CASE Proceeds(d)
    BY <2>4, ProceedsSpends
  <2> QED
    BY <1>3, <2>1, <2>2, <2>3, <2>4
<1> QED
  BY <1>1, <1>2, <1>3 DEF Next

\* A call is over after a bounded number of requests (_retry_loop, async_chat): whatever
\* service, breaker and other callers do, it goes from its stream to the guarded call,
\* through at most MaxRawRetries repeats of that, and through at most MaxRetries + 1
\* attempts of each, and never back.
THEOREM CallsAreBounded ==
  Spec => /\ []\A c \in Callers : /\ rawRetries[c] \in 0 .. MaxRawRetries
                                  /\ Position(c) \in 0 .. 2 * MaxRetries
          /\ [][CallsSpend]_vars
<1>1. TypeOK /\ RetriesLeft => \A c \in Callers : /\ rawRetries[c] \in 0 .. MaxRawRetries
                                                  /\ Position(c) \in 0 .. 2 * MaxRetries
  BY ClientAssumption DEF TypeOK, RetriesLeft, Position
<1>2. TypeOK /\ [Next]_vars => [CallsSpend]_vars
  BY NextSpends
<1> QED
  BY <1>1, <1>2, TypesKept, PTL DEF Spec
=============================================================================
