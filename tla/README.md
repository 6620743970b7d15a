# TLA+ models of Memento-Skills

Memento-Skills (v0.3.0, Python/asyncio, some 65 000 lines) is a desktop agent: it plans a
user's request, executes the plan with tools and skills in a bounded loop, reflects on
every step, keeps the events of each session in blocks on disk, and connects chat
platforms (Feishu, DingTalk, WeCom, WeChat) to agent workers through a WebSocket gateway.
This directory holds TLA+ modules of the parts whose correctness depends on the order of
things, TLC configurations that check them on small instances, and TLAPS proofs of their
main invariants for every instance.

Check a module with `tlc -config <cfg> <MC module>`, a proof module with `tlapm
<module>.tla`. `PROJECT.json` lists components, runs, mutants, the map from definitions to
source lines, findings, hazards and theorems.

## 1. The system

| Component | State it keeps | Operations | Module |
|---|---|---|---|
| Gateway connections and routing (`middleware/im/gateway/gateway.py`, `connection_manager.py`, `router.py`) | pool of connections by id and by source, a send queue and two tasks per connection, routing targets, session bindings | accept and CONNECT, register, send, heartbeat, route a chat message, reply, unregister, shut down | `GatewayRouting`, `StickyRouting` |
| Channel accounts and gateway manager (`gateway_starter.py`, `AccountManager`, GUI switches in `gui/modules/settings_panel.py`) | table of started accounts, adapters, running flag, configuration | boot, refresh, start and stop an account, flip a switch, stop the gateway | `ChannelAccounts` |
| Plan execution (`core/memento_s/phases/`) | plan, step statuses (twice), budgets, duplicate counter, failures | model call, tool calls, reflection, replan, continue, finalize | `PlanExecution` |
| Session block store and the agent's entry (`core/context/block.py`, `manager.py`, `core/memento_s/agent.py`) | blocks and their events on disk, managers in a bounded cache, the agent's current manager | look up, start a block, record events, assemble a prompt, recover | `SessionBlocks` |
| Skill execution (`core/skill/execution/`) | turns, progress, repetition and error counters | react loop, tool calls, error recovery, ends | `SkillReAct` |
| LLM client (`middleware/llm/llm_client.py`) | circuit breaker, attempts of a call | chat, stream, retry, repeat, give up | `LlmClient` |
| Auto update (`gui/modules/auto_update_manager.py`) | status, cache, download task, package on disk, executable and backup | check, download, cancel, resume, install, replace by a script | `AppUpdate`, `AtomicUpdate` |
| IM bridges and agent workers (`im/`, `agent_worker.py`) | sessions per sender | find or create a session, run the agent, answer | peer of a socket in `GatewayRouting`; sender sessions planned |
| Skill store, retrieval, download, market | files, database, vectors | scan, rank, install | not modelled: I/O and scoring |
| Sandbox, storage, configuration, chat managers, the rest of the GUI, CLI, builtin tools | | | not modelled: external calls, pure I/O, wiring or presentation |

How they interact. A channel adapter hands a message to the gateway's account manager,
which passes it to the router; the router binds the chat to an agent and puts the message
into the send queue of the agent's connection; the agent worker runs `reply_stream` in a
task of its own for each message and sends the answer back over the same socket.
`reply_stream` looks up the session's context manager, starts a block for the user's
input, recognises the intent, plans, assembles a prompt from the blocks and runs
`run_plan_execution`, which records tool calls and results in the block. The GUI starts
the gateway in a background thread and makes it follow the configuration by refreshes
scheduled on the gateway's loop. Plan execution and skills reach the model through one
`LLMClient`, whose breaker all of them share; a step of a plan that uses a skill runs that
skill's own react loop. The updater lives in the GUI's event loop and in a detached
script.

What is hard here: coroutines that interleave at every `await` and `yield` over shared
attributes (the pool, the account table, the agent's current context manager); clean-up by
name instead of by identity; several budgets that bound one loop; state kept twice;
processes that die between two file writes; calls and results that must stay paired; slots
that a cancelled caller does not give back; a status that one coroutine overwrites while
another relies on it. `PROJECT.json` lists each hazard at its line with the properties
that watch it.

What makes each component correct:
* gateway: pool, index, routing targets and bindings agree, but for an agent without a
  name and for names that agents take from one another; a chat keeps its agent; a message
  is queued once; nothing is routed before the acknowledgement; no task outlives its
  connection for ever.
* accounts: what is filed runs, what runs is filed, what was published is true, and the
  connected platforms end up as configured.
* plan execution: every tool call is answered before the next model call, budgets hold
  together, statuses tell the truth, blocking is justified, every run ends.
* block store: one input per block, one active block that recovery can find, block numbers
  handed out once, sealed blocks frozen, prompts that pair calls and results, sessions
  kept apart.
* skill execution: a model that goes in circles is stopped, the turn limit ends every
  execution. (That a second stall stops it too, and that recovery hints go to calls that
  fail again, is meant and not so: section 3, known deviations.)
* LLM client: a service that fails is left alone and probed by few, one that is back is
  used again.
* auto update: what is announced as downloaded is the package, no dead download turns
  checks away, an executable that works is left whatever happens. (The last but one step
  of that, to find out whether the new one works, is not sound: finding 4.)

## 2. The modules

### GatewayRouting, StickyRouting
One handler coroutine per accepted socket (`Gateway._handle_websocket`). `Connect`,
`Finish`, `Route` and the like are one action each because the code between two awaits
that can really suspend runs without interruption; putting into the unbounded queues never
suspends. `SendNext` and `Beat` are one turn of a connection's two tasks; `SendNext` is
atomic since a frame whose write is suspended is in the socket's buffer already when the
task is cancelled. The connection id is `"ws:{source}"`, so the pool is a function from
sources to handlers; registering replaces the entry and leaves the old connection's tasks
running, as the code does. A socket is up, half-open (the peer has gone unnoticed) or
down. Shutdown closes all sockets, waits for the handlers, and then clears what is still
pooled.

Names are what the CONNECT frames say they are. A second CONNECT on a served socket may
name another agent's source (`ConnectAgain`): the index then leads from that name to this
connection, so that the other agent's chats are sent here, and when one of the two goes,
`_find_source_key` removes the first name it meets, which may be the wrong one. The order
of that dictionary is left open (`FoundKeys`). `crossed` is history: the sources that were
confused in this way, the only ones whose index `RoutingAgrees` exempts. A CONNECT may
also name no source (`Nameless`): it is pooled and made a routing target like any other,
but `Finish` takes the empty text for no source, so that the target stays for ever, and a
chat whose hash chooses it loses its message (`RouteNowhere`). A binding precedes its
send, and a refused send keeps it.

Left out: source types other than agents, tool workers and `call_tool` (nothing in the
repository calls it or connects as a tool), metrics, permission domains, session metadata.
External: the network.

`StickyRouting` is the abstract specification: agents come and go and claim names, a chat
is owned by at most one agent, which is online, and a message is handed once, to the agent
that answers to the name of its chat's owner: the owner itself until another one claims
that name. `ImplementsStickyRouting` maps `online` to the pooled sources, `answers` to the
pooled source a name resolves to, `owner` to the session bindings and `handedTo` to the
source of the connection a message was queued on.

### ChannelAccounts
Boot (`_start_channels`) and the refreshes (`refresh_channels`) are tasks that visit the
platforms in a fixed order and suspend only in the adapter's `initialize`, `start` and
`stop`; between those, `Proceed` decides about all further platforms in one go. A task
works to its end from the configuration it loaded. An adapter is named by the task that
made it. `overlap` is chosen once: without it the user waits for a refresh to end before
the next change. The model follows one switch per platform; the gateway's own switch stays
on and credentials are complete. Checks that cannot fail (the verification after start and
stop, with no await in between; the unreachable `state != "running"` branch of
`startAccount`) have no counterpart. Left out: re-login callbacks, webhooks.

### PlanExecution
One run of `run_plan_execution`. A model response is a text, a final answer or a batch of
tool calls; `PreFilter` is the duplicate check for one call, `Result` the processing of
one result, `EndBatch` what follows the batch, `Reflect` whatever `reflect` may return
after its overrides and fallback, and `Stay`, `Finalize`, `Replan`, `Continue` the
branches that follow. Messages are abstracted to the number of unanswered calls, results
to the classes the code distinguishes. `ran` and `repeated` are history variables. Left
out: texts, step events, message trimming, filters on call names (the calls of a response
are those that pass them).

### SessionBlocks
One agent object with runs of several sessions. `Lookup` makes the session's context
manager the agent's current one and may forget the oldest; `StartBlock`, `RecordPlan`,
`AskPrompt` and `Execute` each take the manager that is current at that time, because
`reply_stream` reads `self.context_manager` again after every await. A manager is named by
the run it was made for, so a session can have several, of which the cache knows one. A
block has a meta file that is absent, active, sealed or broken, and events, of which the
last may be a torn line. `Crash` leaves on disk what was written, a part of a block's
start (`PartialStarts`) or a torn line. Left out: compaction and rounds (they need
"assistant" events, which no code writes), folding of long results, runtime state,
scratchpad, and write errors, which the code logs and ignores. A line or meta file cut
within a character of several bytes raises `UnicodeDecodeError`, which nobody catches: the
run that reads it ends. `Stop` stands for that, as for every exception; that reading fails
each time until the block is out of the window is not modelled.

### SkillReAct
One `SkillExecutor.execute`. `AnswerCalls`, `Claim` and `Raises` are the model's answers
(or their failure); `CallRepeated`, `CallNotes`, `CallRaises` and `CallObserved` are what
becomes of one tool call, in the order of the code's early exits. A call is what
`action_signature` tells apart, an observation what `state_fingerprint` does. `Signal`,
`Progress`, `Counted` and `Again` are the counters of `ReActState`; `Counted` keeps the
two kinds of hashes `_build_observation` and `record_error` make of one text apart, since
the second function compares with what the first has just stored. `Verdict` is the end of
an observation: a stall that is told and forgiven, one too many, equivalent states, next
call. `CallRaises` ends the execution: the observation of a raising bridge holds text
where `state_fingerprint` looks for a dictionary. `Recover` passes over a failure without
a text (`NoText`), as the code does. `tail`, `hint` and `stalls` are history variables.
Left out: messages (the hints that go between the tool answers of one batch included), the
scratchpad, the detectors of loops and saturation, which only add hints, and
`core_artifacts`, which stays empty because the bridge never sets `artifacts`.

### LlmClient
Callers of one client on one event loop. Between two awaits the breaker's bookkeeping is
one step: `Knock` asks it (`Refuses`, `Entered`) and sends the first request, `Report`
tells it (`Succeeded`, `Failed`) and `Vanish` ends a call without a word, as a rejected
request or a cancelled task does. `FailsRetried` and `Retry` are the retry loop inside the
breaker: a whole call is one failure. `AnsweredRaw` is the repetition of a call whose
answer holds a tool call as text. `Stream`, `StreamEnds` and `StreamFallsBack` are the way
past the breaker. `Elapse` is the recovery timeout. `ticket` and `unreported` are history:
how a call was let in, and whether a probe's report got lost. The failures are counted up
to the threshold, above which nothing looks at them. Left out: clean-up of messages,
parsing, context budgets, embeddings, and `reload_config`, which gives the client a new
model but keeps the breaker of the old one. External: the service (`Flip`).

### AppUpdate, AtomicUpdate
Coroutines that check (`Check`, `CheckEnds`, `Offered`, `ResumeEnds`) and download
(`Begin` to the first wait, then `Fails`, `Resumes`, `Restarts`, `Chunk`, `Eof`,
`Unwind`), the user (`Download`, `Cancel`, `Install`, `Quit`, `Start`), `PowerLoss`, and
the steps of the Linux script from `GivesUp` to `CannotRestore`. A package is a sequence
of pieces, 0 a wrong one; a file removed under a coroutine that has it open is `gone` for
it. `doubts` is history: why the file may differ from what the cache says.

`Launches` is what the script's `pgrep -f` says, and it says little: any process whose
command line holds the executable's path will do, the new one in the second before it ends
included. An executable that does not work may therefore pass (`misjudged`, history), and
one that does may fail (`DoesNotStart`). `Restores` is the rollback, `CannotRestore` its
`mv ... || exit 1`: the script ends there without clean-up or launch, and the version from
before is the backup file. `StartUpCheck` takes a cached package or a piece of one
whatever the status is; `Install` may fail for reasons that do not clear the cache.

Assumed: a machine that goes down keeps what was written, piece by piece, and every rename
(the code never syncs, so a real disk may keep less); one release is on offer, with a
fixed answer of the server (`release`); the user does not check, download or start the
application while the script is at work. `_resume_partial_download` reads the answer
without its `data` and so finds no update or fails. Left out: pausing (wired to nothing),
the scripts of macOS and Windows, packages of deb and rpm (handed to the system's package
manager).

`AtomicUpdate` is what an update promises, without packages and files: one version is
installed, an update replaces it at once or not at all, and only that version runs.
`ImplementsAtomicUpdate` maps `version` to the executable in place, or to the one the
script has moved aside as long as it does not know that the successor runs; `startable` to
whether the one in place works (or a script is still at it); `phase` to the script. Power
can fail between two steps of the script, and a rollback can fail to move the backup: then
the version can be left as the backup file, where the user has to put it back by hand
(`Strand`, `PowerLoss`). And an update can be botched (`Botch`, `Lose`): believed to have
taken place when it has not, it loses the version there was. It is proved and not among
the runs, one of which checks its core, `AppSurvives`.

## 3. The runs

| Run | Shows | Bounds |
|---|---|---|
| `gateway_safety` | type, pool, agreement, sendability, acknowledgement, single queueing, stickiness, refinement | 2 sockets, 2 agents, each of which may claim the other's name, 1 chat of 2 messages; one PING and one second ACK wait at a time |
| `gateway_live` | agreement with a nameless agent; send loops of ended handlers end, accepted messages settle | 2 sockets, an agent and one without a name, 1 message, no symmetry |
| `gateway_active` | **violated**: an old handler removes the new connection | as `gateway_safety`, with 2 chats of 1 message each |
| `accounts` | filed is started, status is true; without overlap: running is filed, convergence | 2 platforms, boot and 3 refreshes |
| `accounts_overlap` | **violated**: one platform connected twice | as `accounts` |
| `plan` | budgets, statuses, answered calls, justified blocking, exhausted steps, termination | plans of 0 to 2 steps, batches of 1 or 2, 5 model calls, 2 per step, 1 replan, 2 failures, 2 duplicates |
| `blocks` | one active block, current managers, one input per block; without overlap: own events, frozen blocks, whole prompts | 3 runs of 2 sessions, 2 at a time, a cache of 1, 2 past blocks, one death of the process, up to 2 calls |
| `blocks_apart` | **violated**: a run records in another session | as `blocks`, no death |
| `react` | equal calls and equivalent observations end an execution | 3 calls (one a note), 2 kinds of observations, 2 errors, 5 turns of up to 2 calls, limits of 2 |
| `llm` | probes within their slots, two ways to be stranded, recovery | 3 callers, threshold 3, 2 slots, 1 retry, 1 repeat, no symmetry |
| `update` | a package announced is whole but for three doubts, DOWNLOADING is live, a working executable survives a script that does not misjudge | 2 coroutines, a package of 2 pieces |
| `update_rollback` | **violated**: an update that succeeded leaves no executable that works | as `update` |

Why these bounds are enough for the cases in question. Two sockets give every race of an
old and a new connection of one source; two agents and a chat of two messages give
rebinding and a change in the number of candidates; bindings of different chats are
independent of one another, and the proofs are for any number of them. Two agents that
each claim the other's name give every confusion of the index two connections can have.
Three refreshes and boot give two tasks in conflict and one that follows. Two steps, two
calls per batch and the limits given reach every budget, every override and every end of a
run. A cache of one makes every second session evict the first, and three runs give two
managers for one session with a run of another in between; with two runs at a time the
third starts when one of them has been stopped. Five turns of two calls are more than
every counter of the react loop needs to pass its limit and be reset. Three callers give a
full half-open period and a caller from before it; a threshold of 3 leaves failures
between reset and opening. Two pieces give a package that is absent, partial, whole, or
wrong at its end or before it; the number of restarts, power losses and updates is not
bounded.

`CHECK_DEADLOCK FALSE` everywhere: sockets all close, every refresh is used up, runs end;
these systems may stop.

Every property of a passing run has a mutant of a mapped definition, a plausible bug
defined next to the original, which makes TLC find the property violated.

### Fairness
`GatewayRouting`: weak fairness of `SendNext`, `Beat` and `Finish` of each handler: the
event loop runs a task that can run, a heartbeat's sleep ends, and a handler whose socket
has closed gets its exception. No fairness of peers, routing or shutdown. `PlanExecution`:
weak fairness of `Next`: the coroutine is resumed, model calls and tools return or raise
(the client and the tools have timeouts). `LlmClient`: weak fairness of `Elapse` (the
clock goes on) and of each caller's `Proceeds` (requests are answered or time out, sleeps
end); `Recovers` adds as its premise that the service stays up and calls go on being made,
and exempts a stranded breaker. The other modules state only safety.

### Findings
1. *Old handler removes the new connection* (`gateway.py:863`): the handler's clean-up
   unregisters by id, not by connection.
2. *One platform connected twice* (`gateway.py:326`, `gateway_starter.py:410`): the
   comment promises to prevent concurrent refreshes, nothing does.
3. *Sessions are mixed up* (`agent.py:349`): the current context manager is an attribute
   of the agent, read again after awaits.
4. *A broken update counts as started* (`auto_update_manager.py:1869`, `1879`): the script
   verifies a launch by looking for a process with the path, and removes the backup.

### Known deviations
Other places where the code does not do what it seems meant to; the modules say what it
does.
* `PlanExecution`: a reflection that decides to ask the user is ignored (`runner.py:376`;
  `AskUserAsks`, `MCPlanExecutionAsk.cfg`), and an empty plan ends in an error
  (`runner.py:449`: `step_usage` is read though never assigned; `EmptyPlanFinalizes`,
  `MCPlanExecutionEmpty.cfg`).
* `SessionBlocks`: calls are recorded before they run, results only if the run gets that
  far, so that prompts can hold unanswered calls (`runner.py:309`; `PromptIsAnswered`,
  `MCSessionBlocksAnswered.cfg`).
* `SkillReAct`: the comments promise "one more chance" after a stall (`executor.py:342`)
  and an end after the next (`executor.py:345-350`). The count is set back to zero each
  time it passes its limit by one, so no number of stalls ends an execution
  (`OneMoreChance`, `MCSkillReActStall.cfg`; `StallsEndNone`). And recovery hints, which
  are to "help LLM break out of repetitive error loops" (`error_recovery.py:3-5`), come
  after two successes and never with a failure (`state.py:223`; `LoopsAreHinted`,
  `MCSkillReActHints.cfg`; `HintsComeAfterSuccess`): the hash a failure is compared with
  has just been overwritten by one of another kind, while the missing error of a success
  is recorded as the text "None". A raising tool bridge ends the execution with an
  AttributeError (`executor.py:615`).
* `GatewayRouting`: a second CONNECT can take another agent's name
  (`connection_manager.py:576`), and an agent without a name stays a routing target for
  ever (`gateway.py:869`). Neither is what a worker of this repository does; the
  properties name both.
* `LlmClient`: a probe that is rejected or cancelled keeps its slot (`llm_client.py:141`),
  and an old call that succeeds late clears the failures of the period
  (`llm_client.py:158`); either can leave the breaker half-open with no way in, which
  `ExhaustedByLoss` pins down and `Recovers` exempts.
* `AppUpdate`: a file of the right size is taken for complete unread
  (`auto_update_manager.py:818`), and the description of a removed file can outlive it;
  `ReadyIsWhole` names both. A check's answer overwrites the status that keeps a second
  download away (`auto_update_manager.py:724`; lines 629 and 785 say duplicates are turned
  away), so two coroutines can write one file (`OneDownload`, `MCAppUpdateOverlap.cfg`;
  `OneDownloadUndisturbed`). `download_update` returns True when it turns a duplicate
  away, so that the settings page offers to install what is not there yet.

The formulas named with a configuration are false of the model, and TLC shows how when it
is given that configuration; no run of the list above has them.

## 4. The proofs

`GatewayRoutingProofs` proves, for any sets of sockets, agents, chats and messages:
`TypeCorrect`, `PoolCorrect`, `RoutingCorrect`, `SessionsAreSticky`, `SendableCorrect`,
`AckComesFirst`, `QueueingCorrect` and `RoutingImplementsSticky`. The assumptions are
`RoutingAssumption` (messages have sessions; the special values are no sockets, agents or
messages). `RoutingAgrees` and `PooledIsServing` are inductive only together, with the
types (`Inv`): that the clean-up of a handler keeps the agreement needs that whatever it
removes was filed under the handler's own source, and that a source whose name nobody took
is the one key `_find_source_key` finds for its connection. On it rest `SendableHasLoop`
(with `LoopInv`: a pooled connection in the state CONNECTED has a running loop; errors and
second CONNECTs leave that state), `AckBeforeTraffic` (with `AckInv`: as long as the
acknowledgement is unread it is ahead of every message in the queue), `QueuedOnce` (with
`QueueInv`: a message is once in the queue of the connection it was routed to while it is
queued and nowhere else, and the queue of a waiting handler is empty, so that registering
it drops nothing), and the refinement (with `SentInv`: a message that was not yet routed
is in no queue's books). `OrphansEndAtNextFrame` and `QueuedIsServedInOrder` (with
`ServeInv` and `QueuedInv`) are what `LoopsDrain` and `QueuedSettles` rest on: a send loop
that has outlived its handler has a closed socket, at which the next frame ends it, and a
heartbeat that will queue one; a queue loses its first entry only and gains at its end,
and as long as the connection of a queued message is pooled, a loop serves it or its
handler is about to end.

`PlanExecutionProofs` proves, for any limits: `TypeCorrect`, `CallsAreAnswered`,
`BudgetsAreKept`, `DoneStepsArePassed`, `BlockedCallsHaveRun` and `ExhaustedStepsAreLeft`,
from `PlanAssumption`, which is what `AgentConfig.__post_init__` demands. The invariant
behind the types also accounts for the unanswered calls (those still to check plus those
still to run), which gives `CallsAnswered` at once. `BlockedHasRun` needs the relation of
the duplicate counter with the history of what ran (`DupInv`), between batches and within
one. `EveryStepDescends` gives a run a bounded length: each step begins one more of the
`MaxIter` + 1 model calls or lowers `StepsToCall`, the number of steps before the next.

`ChannelAccountsProofs` proves all five invariants of that module for any number of
platforms and refreshes, from `AccountsAssumption` (the order names each account once,
boot is no refresh): `TypeCorrect`, `StatusCorrect`, `FiledCorrect`, `RunningCorrect`,
`ConvergenceCorrect`. `FiledIsStarted` holds whatever overlaps, because an adapter that is
being started is in no table and a task visits an account once (`AdapterInv`). The other
two need that one task is at work at a time (`SerialInv`: what it found in the table when
it turned to its account is still there when it files or removes), and for convergence
that the accounts before its index agree with the configuration it loaded
(`ConvergingInv`). `TasksComeToEnd`: a task has at most two waits for each account and
every step it takes uses one up, whatever overlaps.

`SkillReActProofs` proves `TypeCorrect`, `CirclesCut`, `StallsEndNone` and
`HintsComeAfterSuccess` for any limits. Behind the second is that the count of equivalent
states can pass its limit by one only in a step that resets `noProgress`, and that the
next call without progress then finds it too low to do so again (`MaxNoProgress` is at
least 1); behind the third, that a count within its limit passes it by one and is then set
back; behind the fourth, that the stored hash is always one of `record_error`'s kind, so
that a failed call never finds its own. `EveryStepDescends`: every step begins a turn,
spends one of its calls or ends the execution.

`LlmClientProofs` proves `TypeCorrect`, `ProbesAreLimited` and `StrandedByLoss` for any
finite set of callers and any limits. `PeriodInv` relates slots and probes: only a
half-open breaker has probes, each took a slot, and as long as no report was lost and no
success came late the slots taken are exactly the probes still out. Every step begins a
period, ends it, lets one caller join or leave, or changes nothing (`PeriodStep`).
`CallsAreBounded`: a call goes from its stream to the guarded call, through
`MaxRawRetries` repeats of that and `MaxRetries` + 1 attempts of each at most, and never
back.

`AppUpdateProofs` proves `TypeCorrect`, `NoPhantomDownload`, `UpdateIsSafe` and
`ReadyPackageIsWhole` for any number of coroutines and any package, from
`UpdateAssumption` (a package has pieces; None is no task and no package).
`DownloadingIsLive` is inductive with the places of the coroutines; `AppSurvives` follows
from `ScriptInv`, which says where the executables are at each place of the script.
`ReadyIsWhole` needs `ReadyInv`: whatever the cache or its description on disk vouches for
is whole or in doubt, in this process and in the next one, and two downloads at work leave
the doubt that they overlapped until neither is. `ScriptInv` also ties the two ways to be
left without an executable in place to the step that led there: a rollback that could not
move the backup, and a launch that was misjudged. `UpdateIsAtomic` proves that `AppUpdate`
implements `AtomicUpdate`, step by step of the script, from `ScriptInv` and from what the
package it puts in place can be (`PackageInv`); `InstalledRuns` is the abstract module's
own invariant, carried over: what runs is the version installed, and nothing runs when an
update is botched.

`SessionBlocksProofs` proves, for any sessions and runs, any size of the cache of managers
and any number of deaths of the process: `TypeCorrect`, `ActiveBlockCorrect`,
`CacheCorrect`, `InputCorrect`, `OwnBlockCorrect` and `SealedCorrect`, from
`BlocksAssumption` (among it that the cache has room for one manager). The current manager
is the one the cache used last, which forgetting never reaches; a cached manager knows the
directory as it is, hence the block it starts is new, and what it seals is the only active
block there. `OwnBlockCorrect` and `SealedCorrect` say something only of runs that do not
overlap: `AloneInv` then has one run at work at most, in the block it began.

So does `PromptCorrect`. Its invariant `PairsInv` says, as long as no runs overlapped, of
every block that a call and a result is in it once at most and a result comes after its
call; that a call without a result belongs to a run that was stopped, has died, or is
executing it now in the block it began; and that the block of the run at work holds
exactly the calls and results the run has counted. A prompt is read block by block with
`load_events`, which stops at a torn line, here always the last (`LoadedEvents`), so it
inherits all of that when it is read, which a run never does between a call and its
result.

`HistoryIsKept` needs no such premise: however runs overlap and whenever the process dies,
no step takes a block away, removes or reorders its events, or hides from `load_events`
what it could read before.

### Where the flaws cannot bite

These theorems bound four of the flaws that findings and deviations name, by proving the
violated formula, for any constants, of the behaviours without a named kind of step.

* `PooledInTurn`: as long as no connection is registered over one that is still pooled,
  every serving handler is pooled and no send loop outlives its handler. The reconnection
  of an agent whose old socket is not given up yet is the only way to the first finding.
* `OneAdapterWithoutOverlap` and `ApartWithoutOverlap`: without overlapping refreshes no
  platform is connected twice, and without overlapping runs nothing is recorded in another
  session. A lock that boot and refreshes share, and one that a run holds on its agent,
  would do.
* `OneDownloadUndisturbed`: two downloads need a coroutine that ends during a download and
  overwrites its status. Besides the check that the deviation names there are two: the
  check of a resumption, and a cancelled download that unwinds after the next one has
  begun. All three must be excluded; TLC has a counterexample for each alone.

For the fourth finding `UpdateIsSafe` and `UpdateIsAtomic` do the same: `misjudged`, and
`Botch`, name the one step after which no executable that works may be left.

### What the proofs do not say

Liveness under fairness and ENABLED are beyond the prover: `LoopsDrain`, `QueuedSettles`,
`Terminates` and `Recovers` are model-checked only. What they rest on are the theorems
named above: bounded calls and runs, loops that end at the next frame, queues served in
order. Every other property of the passing runs is proved. `OrphansEndAtNextFrame` is
about send loops. A *heartbeat* can outlive its handler for ever: if a second CONNECT is
read after an error has ended the send loop, the connection counts as authenticated again,
and once another connection has replaced it in the pool nothing stops its heartbeat, which
goes on queueing PINGs for nobody.

## 5. The plan

Done: the seven modules above, their runs and mutants, and proofs for all of them.

Next: sender sessions of the IM bridges (two sessions of one sender), the end of a run
told twice (`agent.py:608`), write errors of blocks, and the runtime state of a session
across restarts. The hazards without a property name them.

Not modelled, and why: skill store, retrieval, download and market (files, ranking);
sandbox, storage (external calls, single transactions); configuration (load, merge and
save of one file; the switch it holds is in `ChannelAccounts`); the GUI beyond its updater
and switches, CLI, bootstrap (presentation and wiring); channel adapters and platform
clients (HTTP; their lifecycle appears as adapter states); vendored and bundled code. The
models therefore cover the program's own control logic where processes, coroutines and
files meet, a small part of its lines.
