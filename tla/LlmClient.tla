------------------------------ MODULE LlmClient ------------------------------
(***************************************************************************)
(* The client through which every agent and skill reaches the language     *)
(* model service (LLMClient): a retry loop inside a circuit breaker.       *)
(*                                                                         *)
(* Many chats share one client on one event loop.  A chat suspends only    *)
(* while a request is in flight and while it waits before a retry; what    *)
(* lies between two of those, the breaker's bookkeeping with its lock      *)
(* included, is one step.  A chat can be cancelled wherever it suspends.   *)
(* Streams go to the service past the breaker and fall back to a guarded   *)
(* chat when what they bring is not usable.                                *)
(***************************************************************************)
EXTENDS Naturals, FiniteSets

CONSTANTS
    Callers,           \* the tasks that use the client
    FailureThreshold,  \* CircuitBreakerConfig.failure_threshold
    HalfOpenMaxCalls,  \* CircuitBreakerConfig.half_open_max_calls
    MaxRetries,        \* RetryConfig.max_retries
    MaxRawRetries      \* RawTokenConfig.max_raw_token_retries

ASSUME ClientAssumption ==
    /\ IsFiniteSet(Callers)
    /\ FailureThreshold \in Nat \ {0}
    /\ HalfOpenMaxCalls \in Nat \ {0}
    /\ MaxRetries \in Nat
    /\ MaxRawRetries \in Nat

VARIABLES
    up,          \* does the service answer?
    breaker,     \* CircuitBreaker: state, failures, half_open_calls, and whether
                 \* recovery_timeout has passed since last_failure_time
    pc,          \* "idle", "streaming", "asking" (a request is out), "backoff"
    attempt,     \* the attempt of the retry loop the caller is in
    rawRetries,  \* repeats of a guarded call whose answer was a tool call in text
    ticket,      \* history: how the breaker let the caller's call in; "probe" is
                 \* in the half-open period that still lasts
    unreported   \* history: a probe of the period ended without telling the breaker

callVars == <<pc, attempt, rawRetries>>
history == <<ticket, unreported>>
vars == <<up, breaker, callVars, history>>

Init ==
    /\ up \in BOOLEAN
    /\ breaker = [state |-> "closed", failures |-> 0, halfOpenCalls |-> 0, cooled |-> FALSE]
    /\ pc = [c \in Callers |-> "idle"]
    /\ attempt = [c \in Callers |-> 0]
    /\ rawRetries = [c \in Callers |-> 0]
    /\ ticket = [c \in Callers |-> "none"]
    /\ unreported = FALSE

Probes == {c \in Callers : ticket[c] = "probe"}

-----------------------------------------------------------------------------
(* The circuit breaker *)

\* CircuitBreaker.call, the part under the lock: does it turn the call away?
Refuses(b) ==
    \/ b.state = "open" /\ ~b.cooled
    \/ b.state = "half-open" /\ b.halfOpenCalls >= HalfOpenMaxCalls

\* The breaker once it has let a call in: the first one after the timeout begins
\* the half-open period.  The mutants count no call, or leave the breaker open.
EnteredUncounted(b) ==
    IF b.state = "open" THEN [b EXCEPT !.state = "half-open", !.halfOpenCalls = 0] ELSE b
EnteredStaysOpen(b) == [b EXCEPT !.halfOpenCalls = IF b.state = "closed" THEN 0 ELSE 1]
Entered(b) ==
    IF b.state = "closed" THEN b
    ELSE [b EXCEPT !.state = "half-open",
                   !.halfOpenCalls = IF b.state = "open" THEN 1 ELSE @ + 1]

\* _on_success.
Succeeded(b) ==
    IF b.state = "half-open"
    THEN [b EXCEPT !.failures = 0, !.state = "closed", !.halfOpenCalls = 0]
    ELSE [b EXCEPT !.failures = 0]

\* _on_failure.  Nothing looks at the count above the threshold: it stops there.
\* The mutants open only a closed breaker, or count without looking.
FailedFromClosed(b) ==
    [b EXCEPT !.failures = IF b.failures < FailureThreshold THEN @ + 1 ELSE @,
              !.cooled = FALSE,
              !.state = IF b.failures + 1 >= FailureThreshold /\ @ = "closed"
                        THEN "open" ELSE @]
FailedUncapped(b) == [b EXCEPT !.failures = @ + 1, !.cooled = FALSE]
Failed(b) ==
    [b EXCEPT !.failures = IF b.failures < FailureThreshold THEN @ + 1 ELSE @,
              !.cooled = FALSE,
              !.state = IF b.failures + 1 >= FailureThreshold THEN "open" ELSE @]

\* recovery_timeout has passed since the last failure.
Elapse ==
    /\ breaker.state = "open"
    /\ ~breaker.cooled
    /\ breaker' = [breaker EXCEPT !.cooled = TRUE]
    /\ UNCHANGED <<up, callVars, history>>

\* The tickets after the breaker went from state s to state t: when a half-open
\* period begins or ends, no call let in before is a probe of it any more.
Tickets(s, t) ==
    [c \in Callers |->
        IF ticket[c] = "probe" /\ ~(s = "half-open" /\ t = "half-open")
        THEN "pass" ELSE ticket[c]]

-----------------------------------------------------------------------------
(* A guarded call *)

\* The caller's coroutine is over.
Leave(c) ==
    /\ pc' = [pc EXCEPT ![c] = "idle"]
    /\ attempt' = [attempt EXCEPT ![c] = 0]
    /\ rawRetries' = [rawRetries EXCEPT ![c] = 0]

\* circuit_breaker.call, with the breaker b it finds at that point of the step: it
\* raises at once, or the first request goes out.
Knock(c, b, repeats) ==
    IF Refuses(b)
    THEN /\ Leave(c)
         /\ breaker' = b
         /\ ticket' = [Tickets(breaker.state, b.state) EXCEPT ![c] = "none"]
         /\ UNCHANGED unreported
    ELSE /\ pc' = [pc EXCEPT ![c] = "asking"]
         /\ attempt' = [attempt EXCEPT ![c] = 0]
         /\ rawRetries' = [rawRetries EXCEPT ![c] = repeats]
         /\ breaker' = Entered(b)
         /\ ticket' = [Tickets(b.state, breaker'.state)
                        EXCEPT ![c] = IF b.state = "closed" THEN "pass" ELSE "probe"]
         /\ unreported' = (unreported /\ b.state = "half-open")

\* async_chat begins.
Chat(c) ==
    /\ pc[c] = "idle"
    /\ Knock(c, breaker, 0)
    /\ UNCHANGED up

\* The call ends, having told the breaker, which is b from then on.
Report(c, b) ==
    /\ Leave(c)
    /\ breaker' = b
    /\ ticket' = [Tickets(breaker.state, b.state) EXCEPT ![c] = "none"]
    /\ UNCHANGED unreported

\* The answer is usable, or is the last that is asked for.
Answered(c) ==
    /\ pc[c] = "asking"
    /\ up
    /\ Report(c, Succeeded(breaker))
    /\ UNCHANGED up

\* The answer holds a tool call in text: a success for the breaker, and the call is
\* made once more.  If that is refused, the first answer is returned.
AnsweredRaw(c) ==
    /\ pc[c] = "asking"
    /\ up
    /\ rawRetries[c] < MaxRawRetries
    /\ Knock(c, Succeeded(breaker), rawRetries[c] + 1)
    /\ UNCHANGED up

\* A timeout, a rate limit, a lost connection or an unknown error: the retry loop
\* sleeps before the next attempt.
FailsRetried(c) ==
    /\ pc[c] = "asking"
    /\ ~up
    /\ attempt[c] < MaxRetries
    /\ pc' = [pc EXCEPT ![c] = "backoff"]
    /\ UNCHANGED <<up, breaker, attempt, rawRetries, history>>

Retry(c) ==
    /\ pc[c] = "backoff"
    /\ pc' = [pc EXCEPT ![c] = "asking"]
    /\ attempt' = [attempt EXCEPT ![c] = @ + 1]
    /\ UNCHANGED <<up, breaker, rawRetries, history>>

\* The last attempt fails: the whole call is one failure for the breaker.
FailsFinally(c) ==
    /\ pc[c] = "asking"
    /\ ~up
    /\ attempt[c] >= MaxRetries
    /\ Report(c, Failed(breaker))
    /\ UNCHANGED up

\* The call ends without a word to the breaker.
Vanish(c) ==
    /\ Leave(c)
    /\ ticket' = [ticket EXCEPT ![c] = "none"]
    /\ unreported' = (unreported \/ ticket[c] = "probe")
    /\ UNCHANGED <<up, breaker>>

\* The service rejects the request (key, content, context window, bad request): not
\* retried, and no failure.
Rejected(c) ==
    /\ pc[c] = "asking"
    /\ Vanish(c)

\* The task is cancelled; CancelledError is no Exception.
Cancelled(c) ==
    /\ pc[c] # "idle"
    /\ Vanish(c)

-----------------------------------------------------------------------------
(* Streams *)

\* async_stream_chat asks the service without asking the breaker.
Stream(c) ==
    /\ pc[c] = "idle"
    /\ pc' = [pc EXCEPT ![c] = "streaming"]
    /\ UNCHANGED <<up, breaker, attempt, rawRetries, history>>

\* The stream ends: completed, broken off, or with an error that is passed on.  No
\* retry, and the breaker hears of neither.
StreamEnds(c) ==
    /\ pc[c] = "streaming"
    /\ Leave(c)
    /\ UNCHANGED <<up, breaker, history>>

\* Its tool call cannot be parsed or came as text: async_chat is asked instead.
StreamFallsBack(c) ==
    /\ pc[c] = "streaming"
    /\ up
    /\ Knock(c, breaker, 0)
    /\ UNCHANGED up

-----------------------------------------------------------------------------
\* The service goes down or comes back.
Flip ==
    /\ up' = ~up
    /\ UNCHANGED <<breaker, callVars, history>>

\* What a caller's own coroutine does next.
Proceeds(c) ==
    \/ Answered(c) \/ AnsweredRaw(c)
    \/ FailsRetried(c) \/ Retry(c) \/ FailsFinally(c) \/ Rejected(c)
    \/ StreamEnds(c) \/ StreamFallsBack(c)

Next ==
    \/ Flip
    \/ Elapse
    \/ \E c \in Callers : Chat(c) \/ Stream(c) \/ Cancelled(c) \/ Proceeds(c)

\* Every request is answered or times out, sleeps end and the clock goes on.
Fairness == WF_vars(Elapse) /\ \A c \in Callers : WF_vars(Proceeds(c))

Spec == Init /\ [][Next]_vars /\ Fairness

-----------------------------------------------------------------------------
(* Properties *)

\* Every variable has its type; a waiting caller holds a ticket.
TypeOK ==
    /\ up \in BOOLEAN
    /\ breaker \in [state : {"closed", "open", "half-open"},
                    failures : 0 .. FailureThreshold,
                    halfOpenCalls : 0 .. HalfOpenMaxCalls,
                    cooled : BOOLEAN]
    /\ pc \in [Callers -> {"idle", "streaming", "asking", "backoff"}]
    /\ attempt \in [Callers -> 0 .. MaxRetries]
    /\ rawRetries \in [Callers -> 0 .. MaxRawRetries]
    /\ ticket \in [Callers -> {"none", "pass", "probe"}]
    /\ unreported \in BOOLEAN
    /\ \A c \in Callers : ticket[c] = "none" <=> pc[c] \in {"idle", "streaming"}

\* A service under suspicion is asked by few: the calls let in during a half-open
\* period that are still out never exceed half_open_max_calls, whatever older calls
\* return meanwhile; and a breaker that let its failures reach the threshold is not
\* closed.
ProbesWithinLimit ==
    /\ Cardinality(Probes) <= HalfOpenMaxCalls
    /\ breaker.state = "closed" => breaker.failures < FailureThreshold

\* All slots of the half-open period are used up and no probe is out: every later
\* call is turned away, and only a call from before can still move the breaker.
Exhausted ==
    /\ breaker.state = "half-open"
    /\ breaker.halfOpenCalls >= HalfOpenMaxCalls
    /\ Probes = {}

\* The breaker gets there in two ways only: a probe was rejected or cancelled, which
\* gives no slot back, or a call from before the opening succeeded after it and
\* cleared the failures, so that failing probes do not open the breaker again.
ExhaustedByLoss ==
    Exhausted => unreported \/ breaker.failures < FailureThreshold

\* A service that is up again is used again: if it stays up and calls go on being
\* made, the breaker closes again and again, unless it is exhausted.
Recovers ==
    (<>[]up /\ []<><<\E c \in Callers : Chat(c)>>_vars)
        => []<>(breaker.state = "closed" \/ Exhausted)
=============================================================================
