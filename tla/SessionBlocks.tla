---------------------------- MODULE SessionBlocks ----------------------------
(***************************************************************************)
(* What an agent process remembers of its sessions: one agent object       *)
(* (MementoSAgent) serves runs of several sessions, keeps one context      *)
(* manager per session in a bounded cache, and has one current context     *)
(* manager for all of them; a manager files the events of its session in   *)
(* numbered blocks on disk (BlockManager, Block), one block per user       *)
(* input, recovers from the directory after a restart, and assembles the   *)
(* prompt of a run from the newest blocks.                                 *)
(*                                                                         *)
(* Runs are coroutines of one event loop; each action is what a run does   *)
(* between two awaits or yields.  A run's caller may drop it at any of     *)
(* them, and the process may die in the middle of writing.  The block's    *)
(* compaction and the split of a block into rounds need "assistant"        *)
(* events, which no code writes, and are left out, as are write errors,    *)
(* which the code only logs.                                               *)
(***************************************************************************)
EXTENDS Naturals, Sequences, FiniteSets

CONSTANTS
    Runs,           \* runs of reply_stream, one per user input
    Sessions,
    SessionOf,      \* the session of a run
    MaxContexts,    \* AgentConfig.max_session_contexts
    PastBlocks,     \* ContextConfig.bounded_past_blocks_k
    CallsOf,        \* bound: the tool calls of a run
    MaxCrashes,     \* bound: how often the process dies
    MaxTogether,    \* bound: the runs that go on at the same time
    None

ASSUME BlocksAssumption ==
    /\ SessionOf \in [Runs -> Sessions]
    /\ None \notin Runs
    /\ MaxContexts \in Nat \ {0}
    /\ CallsOf \in [Runs -> Nat]
    /\ {PastBlocks, MaxCrashes, MaxTogether} \subseteq Nat

VARIABLES
    overlap,    \* may a run begin while another is going on? (never altered)
    pc,         \* where a run stands
    called,     \* the tool calls a run has recorded
    answered,   \* the tool calls a run has results for
    uses,       \* the manager a run holds: of its bundle, then the one it asked for
                \* its prompt, then the one it gave to the execution
    current,    \* MementoSAgent.context_manager; a manager is named by the run
                \* for which it was made
    cache,      \* MementoSAgent._sessions: the managers kept, oldest first
    active,     \* BlockManager._active_block of a manager, 0 for None
    count,      \* BlockManager._block_count of a manager
    blocks,     \* the block directories of a session
    crashes     \* how often the process has died, for the bound

runVars == <<pc, called, answered, uses>>
mgrVars == <<current, cache, active, count>>
vars == <<overlap, runVars, mgrVars, blocks, crashes>>

Ended == {"done", "stopped", "dead"}
GoingOn == {r \in Runs : pc[r] \notin Ended \cup {"new"}}

\* An event, and a line of which only a part reached the file.
Event(type, r, n) == [type |-> type, run |-> r, n |-> n]
Torn(r) == Event("torn", r, 0)

Init ==
    /\ overlap \in BOOLEAN
    /\ pc = [r \in Runs |-> "new"]
    /\ called = [r \in Runs |-> 0]
    /\ answered = [r \in Runs |-> 0]
    /\ uses = [r \in Runs |-> None]
    /\ current = None
    /\ cache = <<>>
    /\ active = [r \in Runs |-> 0]
    /\ count = [r \in Runs |-> 0]
    /\ blocks = [s \in Sessions |-> <<>>]
    /\ crashes = 0

-----------------------------------------------------------------------------
(* Blocks on disk *)

\* Block.seal writes the status; the mutant keeps it in memory.
SealInMemory(bs, b) == bs
Seal(bs, b) == IF b = 0 THEN bs ELSE [bs EXCEPT ![b].meta = "sealed"]

\* Block.append_event
Appended(bs, b, e) == [bs EXCEPT ![b].events = Append(@, e)]

\* BlockManager.create_block up to the first event: the directory may be there
\* already; and then the block's meta file.
MakeDir(bs, n) ==
    IF n <= Len(bs) THEN bs ELSE Append(bs, [meta |-> "none", events |-> <<>>])
WriteMeta(bs, n, status) == [bs EXCEPT ![n].meta = status]

\* Block.load_events: up to the first line that is not one.  A line cut within a
\* character ends no list but raises in the reader; see Stop.
Loaded(block) ==
    LET bad == {k \in 1 .. Len(block.events) : block.events[k].type = "torn"} IN
    IF bad = {} THEN block.events
    ELSE SubSeq(block.events, 1, (CHOOSE k \in bad : \A l \in bad : k <= l) - 1)

\* What BlockManager.__init__ finds: the number of directories, and the last
\* block if its meta is readable and says active.  The mutant counts only the
\* blocks whose meta is there.
CountReadable(bs) == Cardinality({b \in 1 .. Len(bs) : bs[b].meta # "none"})
CountFound(bs) == Len(bs)
ActiveFound(bs) ==
    IF CountFound(bs) > 0 /\ bs[CountFound(bs)].meta = "active" THEN CountFound(bs) ELSE 0

\* ContextManager.append_block_event and persist_tool_result on manager m; without
\* an active block nothing is recorded in a block.
Record(m, e) ==
    blocks' = IF active[m] = 0 THEN blocks
              ELSE [blocks EXCEPT ![SessionOf[m]] = Appended(@, active[m], e)]

-----------------------------------------------------------------------------
(* A run up to its own block *)

Kept(s) == {k \in 1 .. Len(cache) : SessionOf[cache[k]] = s}

\* Use k is the newest now.
MovedToEnd(k) == Append(SubSeq(cache, 1, k - 1) \o SubSeq(cache, k + 1, Len(cache)), cache[k])

\* _get_or_create_bundle: the session's manager becomes the current one.  A new
\* manager recovers from the disk; beyond MaxContexts the oldest is forgotten,
\* also when runs still use it.
Lookup(r) ==
    LET s == SessionOf[r] IN
    /\ pc[r] = "new"
    /\ Cardinality(GoingOn) < (IF overlap THEN MaxTogether ELSE 1)
    /\ pc' = [pc EXCEPT ![r] = "loading"]
    /\ IF Kept(s) # {}
       THEN \E k \in Kept(s) :
               /\ current' = cache[k]
               /\ cache' = MovedToEnd(k)
               /\ uses' = [uses EXCEPT ![r] = cache[k]]
               /\ UNCHANGED <<active, count>>
       ELSE /\ current' = r
            /\ uses' = [uses EXCEPT ![r] = r]
            /\ cache' = IF Len(cache) < MaxContexts THEN Append(cache, r)
                                                    ELSE Append(Tail(cache), r)
            /\ count' = [count EXCEPT ![r] = CountFound(blocks[s])]
            /\ active' = [active EXCEPT ![r] = ActiveFound(blocks[s])]
    /\ UNCHANGED <<overlap, called, answered, blocks, crashes>>

\* The manager that starts the run's block once the history is loaded; the mutant
\* takes the one the run looked up.
BundleManager(r) == uses[r]
Starter(r) == current

\* The block a manager works on when it has created block n.  The mutants take the
\* number from before or after the count.
BlockBefore(n) == n - 1
BlockAfter(n) == n + 1
BlockMade(n) == n

\* start_new_block: seal the manager's active block, create the next.
StartBlock(r) ==
    LET m == Starter(r)
        s == SessionOf[m]
        n == count[m] + 1
        sealed == Seal(blocks[s], active[m])
    IN  /\ pc[r] = "loading"
        /\ pc' = [pc EXCEPT ![r] = "thinking"]
        /\ count' = [count EXCEPT ![m] = n]
        /\ active' = [active EXCEPT ![m] = BlockMade(n)]
        /\ blocks' = [blocks EXCEPT ![s] =
               WriteMeta(Appended(MakeDir(sealed, n), n, Event("user", r, 0)), n, "active")]
        /\ UNCHANGED <<overlap, called, answered, uses, current, cache, crashes>>

-----------------------------------------------------------------------------
(* Prompt and execution *)

\* The plan of an agentic run is recorded.
RecordPlan(r) ==
    /\ pc[r] = "thinking"
    /\ pc' = [pc EXCEPT ![r] = "planned"]
    /\ Record(current, Event("plan", r, 0))
    /\ UNCHANGED <<overlap, called, answered, uses, mgrVars, crashes>>

\* The run asks the current manager for its prompt: to answer directly or ask for
\* confirmation, or with a plan to execute.
AskPrompt(r) ==
    /\ \/ pc[r] = "thinking" /\ pc' = [pc EXCEPT ![r] = "answering"]
       \/ pc[r] = "planned" /\ pc' = [pc EXCEPT ![r] = "assembling"]
    /\ uses' = [uses EXCEPT ![r] = current]
    /\ UNCHANGED <<overlap, called, answered, mgrVars, blocks, crashes>>

\* load_recent_sealed_events: the last PastBlocks block numbers but the active one;
\* of those the sealed blocks.
Recent(m) ==
    LET others == {b \in 1 .. count[m] : b # active[m]} IN
    {b \in others : Cardinality({c \in others : c > b}) < PastBlocks}

\* assemble_messages_bounded: the events shown are those of the recent sealed
\* blocks and of the active one.
Shown(m) ==
    LET bs == blocks[SessionOf[m]]
        past == IF count[m] <= 1 THEN {} ELSE {b \in Recent(m) : bs[b].meta = "sealed"}
    IN  past \cup ({active[m]} \ {0})

\* A run is over, and what it held is gone.
End(r, how) ==
    /\ pc' = [pc EXCEPT ![r] = how]
    /\ called' = [called EXCEPT ![r] = 0]
    /\ answered' = [answered EXCEPT ![r] = 0]
    /\ uses' = [uses EXCEPT ![r] = None]

\* The manager reads its blocks and the prompt is made; a direct answer, or the
\* question to confirm, ends the run.
ReadPrompt(r) ==
    /\ \/ /\ pc[r] = "answering"
          /\ End(r, "done")
       \/ /\ pc[r] = "assembling"
          /\ pc' = [pc EXCEPT ![r] = "prompted"]
          /\ UNCHANGED <<called, answered, uses>>
    /\ UNCHANGED <<overlap, mgrVars, blocks, crashes>>

\* run_plan_execution gets the manager that is current by now.
Execute(r) ==
    /\ pc[r] = "prompted"
    /\ pc' = [pc EXCEPT ![r] = "calling"]
    /\ uses' = [uses EXCEPT ![r] = current]
    /\ UNCHANGED <<overlap, called, answered, mgrVars, blocks, crashes>>

\* The calls of one model response are recorded one by one, then run.
RecordCall(r) ==
    /\ pc[r] = "calling"
    /\ called[r] < CallsOf[r]
    /\ called' = [called EXCEPT ![r] = @ + 1]
    /\ Record(uses[r], Event("call", r, called'[r]))
    /\ UNCHANGED <<overlap, pc, answered, uses, mgrVars, crashes>>

RunCalls(r) ==
    /\ pc[r] = "calling"
    /\ answered[r] < called[r]
    /\ pc' = [pc EXCEPT ![r] = "results"]
    /\ UNCHANGED <<overlap, called, answered, uses, mgrVars, blocks, crashes>>

\* The call a result is recorded for; the mutant takes the last call of the
\* response every time.
LastCall(r) == called[r]
AnsweredCall(r) == answered[r] + 1

RecordResult(r) ==
    /\ pc[r] = "results"
    /\ Record(uses[r], Event("result", r, AnsweredCall(r)))
    /\ answered' = [answered EXCEPT ![r] = @ + 1]
    /\ pc' = [pc EXCEPT ![r] = IF answered'[r] = called[r] THEN "calling" ELSE "results"]
    /\ UNCHANGED <<overlap, called, uses, mgrVars, crashes>>

\* The run finishes between two model responses.
Finish(r) ==
    /\ pc[r] = "calling"
    /\ answered[r] = called[r]
    /\ End(r, "done")
    /\ UNCHANGED <<overlap, mgrVars, blocks, crashes>>

\* The run ends where it stands: an exception, a tool result that aborts the run, or
\* a caller that drops it.  A line or meta file cut within a character is such an
\* exception (UnicodeDecodeError) for a run that reads it: one that assembles its prompt
\* stops, one that needs a new manager for the session does not get past Lookup, which
\* is then not taken.
Stop(r) ==
    /\ r \in GoingOn
    /\ End(r, "stopped")
    /\ UNCHANGED <<overlap, mgrVars, blocks, crashes>>

-----------------------------------------------------------------------------
(* The process dies *)

\* What a death during start_new_block can leave of a session's blocks: it strikes
\* while a meta file is rewritten, between two writes, or within a line.
PartialStarts(r) ==
    LET m == Starter(r)
        bs == blocks[SessionOf[m]]
        n == count[m] + 1
        sealed == Seal(bs, active[m])
        made == MakeDir(sealed, n)
        begun == Appended(made, n, Event("user", r, 0))
    IN  {sealed, made, Appended(made, n, Torn(r)), begun, WriteMeta(begun, n, "broken")}
        \cup (IF active[m] = 0 THEN {} ELSE {WriteMeta(bs, active[m], "broken")})

\* The manager on which a run records its next event.
Writes(r) == IF pc[r] = "thinking" THEN current ELSE uses[r]

\* What a death may leave on disk: all that was written; a part of a block's start;
\* or a part of the line a run was appending.
Remains ==
    {blocks}
    \cup (UNION {{[blocks EXCEPT ![SessionOf[current]] = bs] : bs \in PartialStarts(r)} :
                    r \in {q \in Runs : pc[q] = "loading"}})
    \cup {[blocks EXCEPT ![SessionOf[Writes(r)]] = Appended(@, active[Writes(r)], Torn(r))] :
             r \in {q \in Runs : /\ pc[q] \in {"thinking", "calling", "results"}
                                 /\ active[Writes(q)] # 0}}

\* The process dies with all it held; the next one starts with an empty cache.
Crash ==
    /\ crashes < MaxCrashes
    /\ crashes' = crashes + 1
    /\ GoingOn # {}
    /\ blocks' \in Remains
    /\ pc' = [r \in Runs |-> IF r \in GoingOn THEN "dead" ELSE pc[r]]
    /\ called' = [r \in Runs |-> 0]
    /\ answered' = [r \in Runs |-> 0]
    /\ uses' = [r \in Runs |-> None]
    /\ current' = None
    /\ cache' = <<>>
    /\ active' = [r \in Runs |-> 0]
    /\ count' = [r \in Runs |-> 0]
    /\ UNCHANGED overlap

-----------------------------------------------------------------------------
RunNext(r) ==
    \/ Lookup(r)
    \/ StartBlock(r)
    \/ RecordPlan(r)
    \/ AskPrompt(r)
    \/ ReadPrompt(r)
    \/ Execute(r)
    \/ RecordCall(r)
    \/ RunCalls(r)
    \/ RecordResult(r)
    \/ Finish(r)
    \/ Stop(r)

Next == Crash \/ \E r \in Runs : RunNext(r)

Spec == Init /\ [][Next]_vars

-----------------------------------------------------------------------------
(* Properties *)

Events == [type : {"user", "plan", "call", "result", "torn"}, run : Runs, n : Nat]

\* Every variable holds a value of the kind the code keeps there; the managers in
\* the cache name blocks that are there.
TypeOK ==
    /\ overlap \in BOOLEAN
    /\ pc \in [Runs -> Ended \cup {"new", "loading", "thinking", "planned", "answering",
                                   "assembling", "prompted", "calling", "results"}]
    /\ called \in [Runs -> Nat]
    /\ answered \in [Runs -> Nat]
    /\ \A r \in Runs : answered[r] <= called[r] /\ called[r] <= CallsOf[r]
    /\ uses \in [Runs -> Runs \cup {None}]
    /\ current \in Runs \cup {None}
    /\ cache \in Seq(Runs)
    /\ active \in [Runs -> Nat]
    /\ count \in [Runs -> Nat]
    /\ \A r \in Runs : count[r] <= Len(blocks[SessionOf[r]]) /\ active[r] <= count[r]
    /\ blocks \in [Sessions -> Seq([meta : {"none", "active", "sealed", "broken"},
                                    events : Seq(Events)])]
    /\ crashes \in 0 .. MaxCrashes

\* Whatever runs overlap and whenever the process dies: only the last block of a
\* session can be active on disk, which is all that recovery looks at.
OneActiveBlock ==
    \A s \in Sessions : \A b \in 1 .. Len(blocks[s]) :
        blocks[s][b].meta = "active" => b = Len(blocks[s])

\* The manager the cache keeps for a session knows the session's directory as it
\* is, even when an older manager of the session, forgotten by the cache, is still
\* in use: block numbers are handed out by one manager at a time.
CachedIsCurrent ==
    \A k \in 1 .. Len(cache) :
        LET m == cache[k]
            bs == blocks[SessionOf[m]]
        IN  /\ \A l \in 1 .. Len(cache) : SessionOf[cache[l]] = SessionOf[m] => l = k
            /\ count[m] = Len(bs)
            /\ active[m] = IF bs # <<>> /\ bs[Len(bs)].meta = "active" THEN Len(bs) ELSE 0

\* "One block per user input" (block.py): no block ever holds two user inputs, and
\* the input comes first, whatever runs overlap and whenever the process dies.
OneInputPerBlock ==
    \A s \in Sessions : \A b \in 1 .. Len(blocks[s]) :
        \A k \in 1 .. Len(blocks[s][b].events) :
            blocks[s][b].events[k].type = "user" => k = 1

\* As long as runs do not overlap, all events of a block are of the run whose user
\* input opens it, lie in that run's session, and never follow a line written in
\* part, where load_events would not read them.
OwnBlock ==
    ~overlap => \A s \in Sessions : \A b \in 1 .. Len(blocks[s]) :
        LET events == blocks[s][b].events IN
        \A k \in 1 .. Len(events) :
            /\ events[k].run = events[1].run
            /\ SessionOf[events[k].run] = s
            /\ events[k].type = "torn" => k = Len(events)

\* A block is sealed for good; and as long as runs do not overlap nothing is added
\* to a sealed block.
SealedIsFrozen ==
    [][\A s \in Sessions : \A b \in 1 .. Len(blocks[s]) :
          blocks[s][b].meta = "sealed" =>
              /\ blocks'[s][b].meta = "sealed"
              /\ ~overlap => blocks'[s][b].events = blocks[s][b].events]_vars

At(events, type, r, n) == {k \in 1 .. Len(events) : events[k] = Event(type, r, n)}

\* As long as runs do not overlap, the prompt a run reads shows every tool result
\* once and after its call, and shows a call without a result only of a run that
\* was stopped or died.
Whole(events) ==
    \A r \in Runs : \A n \in 1 .. CallsOf[r] :
        LET calls == At(events, "call", r, n)
            results == At(events, "result", r, n)
        IN  /\ Cardinality(calls) <= 1
            /\ Cardinality(results) <= Cardinality(calls)
            /\ \A j \in calls, k \in results : j < k
            /\ calls # {} /\ results = {} => pc[r] \in {"stopped", "dead"}

Reads(r) == pc[r] \in {"answering", "assembling"} /\ pc'[r] \in {"done", "prompted"}

PromptIsWhole ==
    [][\A r \in Runs : Reads(r) /\ ~overlap =>
          \A b \in Shown(uses[r]) : Whole(Loaded(blocks[SessionOf[uses[r]]][b]))]_vars

\* "tool_calls must be followed by matching tool responses"
\* (docs/llm_tool_call_compatibility.md): every call shown in a prompt is answered
\* there.
PromptIsAnswered ==
    [][\A r \in Runs : Reads(r) =>
          \A b \in Shown(uses[r]) :
              LET events == Loaded(blocks[SessionOf[uses[r]]][b]) IN
              \A q \in Runs : \A n \in 1 .. CallsOf[q] :
                  At(events, "call", q, n) # {} => At(events, "result", q, n) # {}]_vars

\* "Session-level context manager" (core/context/manager.py): what a run records
\* is recorded in its own session.
SessionsApart ==
    \A s \in Sessions : \A b \in 1 .. Len(blocks[s]) :
        \A k \in 1 .. Len(blocks[s][b].events) : SessionOf[blocks[s][b].events[k].run] = s
=============================================================================
