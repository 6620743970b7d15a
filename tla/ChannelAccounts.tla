--------------------------- MODULE ChannelAccounts ---------------------------
(***************************************************************************)
(* Which chat platforms are connected: the account table of the gateway    *)
(* (AccountManager.startAccount, stopAccount), the task that starts the    *)
(* configured channels at boot, and the refreshes with which the settings  *)
(* GUI makes the running channels follow the configuration                 *)
(* (GatewayManager._start_channels, refresh_channels).                     *)
(*                                                                         *)
(* Boot and refreshes are coroutines of the gateway's event loop.  They    *)
(* suspend only in an adapter's initialize, start and stop; between two of *)
(* those a task decides about the following platforms in one go.  The      *)
(* configuration is written by GUI threads at any time.  The model follows *)
(* one switch per platform; the gateway's own switch stays on and the      *)
(* platforms' credentials are complete.                                    *)
(***************************************************************************)
EXTENDS Naturals, Sequences, FiniteSets

CONSTANTS
    Order,      \* the accounts, in the order in which a task visits them
    Refreshes,  \* refresh_channels calls, one per change made in the GUI
    Boot,       \* the _start_channels call
    None

Accounts == {Order[i] : i \in 1 .. Len(Order)}
Tasks == Refreshes \cup {Boot}

ASSUME AccountsAssumption ==
    /\ Len(Order) \in Nat \ {0}
    /\ \A i, j \in 1 .. Len(Order) : Order[i] = Order[j] => i = j
    /\ Boot \notin Refreshes
    /\ None \notin Tasks

VARIABLES
    overlap,    \* may a change be made while a refresh runs? (never altered)
    manager,    \* GatewayManager: "starting", "running", "stopping", "closed"
    enabled,    \* the configuration: the switch of the account's platform
    unseen,     \* a change was saved that no refresh follows
    pc,         \* where a task stands
    at,         \* the index in Order of the account it works on
    config,     \* the configuration it loaded
    target,     \* in a stop: whose adapter it is stopping
    accounts,   \* AccountManager._accounts: the task that started the filed adapter
    adapter,    \* adapter[t][a]: the state of the adapter task t made for a
    status      \* the last event published about an account

taskVars == <<pc, at, config, target>>
vars == <<overlap, manager, enabled, unseen, taskVars, accounts, adapter, status>>

Init ==
    /\ overlap \in BOOLEAN
    /\ manager = "starting"
    /\ enabled \in [Accounts -> BOOLEAN]
    /\ unseen = FALSE
    /\ pc = [t \in Tasks |-> IF t = Boot THEN "scheduled" ELSE "idle"]
    /\ at = [t \in Tasks |-> 1]
    /\ config = [t \in Tasks |-> enabled]
    /\ target = [t \in Tasks |-> None]
    /\ accounts = [a \in Accounts |-> None]
    /\ adapter = [t \in Tasks |-> [a \in Accounts |-> "unmade"]]
    /\ status = [a \in Accounts |-> "none"]

Quiet == \A t \in Tasks : pc[t] \in {"idle", "done"}

-----------------------------------------------------------------------------
(* One task *)

\* What a task finds to do for an account, given the account table.  The mutants
\* take every enabled account for one to start, or never stop any.
WorkUnchecked(t, cfg, a, table) ==
    IF cfg[a] THEN "start" ELSE IF table[a] # None THEN "stop" ELSE "none"
WorkStartsOnly(t, cfg, a, table) == IF cfg[a] /\ table[a] = None THEN "start" ELSE "none"
Work(t, cfg, a, table) ==
    IF cfg[a] /\ table[a] = None THEN "start"
    ELSE IF ~cfg[a] /\ table[a] # None /\ t # Boot THEN "stop"
    ELSE "none"

\* The task has visited all accounts.
Ends(t, adapters) ==
    /\ pc' = [pc EXCEPT ![t] = "done"]
    /\ manager' = IF t = Boot /\ manager = "starting" THEN "running" ELSE manager
    /\ adapter' = adapters
    /\ UNCHANGED <<at, target>>

\* It makes an adapter for the account at index j and awaits its initialize.
StartsAt(t, j, adapters) ==
    /\ pc' = [pc EXCEPT ![t] = "initializing"]
    /\ at' = [at EXCEPT ![t] = j]
    /\ adapter' = [adapters EXCEPT ![t][Order[j]] = "made"]
    /\ UNCHANGED <<manager, target>>

\* It looks up the adapter filed for that account and awaits its stop.
StopsAt(t, j, adapters) ==
    /\ pc' = [pc EXCEPT ![t] = "stopping"]
    /\ at' = [at EXCEPT ![t] = j]
    /\ target' = [target EXCEPT ![t] = accounts'[Order[j]]]
    /\ adapter' = adapters
    /\ UNCHANGED manager

\* The task goes on from index i to the next account that needs work, or ends.
\* Reads the account table after the step.
Proceed(t, i, cfg, adapters) ==
    \/ /\ \A j \in i .. Len(Order) : Work(t, cfg, Order[j], accounts') = "none"
       /\ Ends(t, adapters)
    \/ \E j \in i .. Len(Order) :
       /\ \A k \in i .. j - 1 : Work(t, cfg, Order[k], accounts') = "none"
       /\ \/ Work(t, cfg, Order[j], accounts') = "start" /\ StartsAt(t, j, adapters)
          \/ Work(t, cfg, Order[j], accounts') = "stop" /\ StopsAt(t, j, adapters)

\* The task starts to run and loads the configuration it will work from to its
\* end.  A refresh that finds the manager not running does nothing.
Begin(t) ==
    /\ pc[t] = "scheduled"
    /\ manager # "closed"
    /\ UNCHANGED <<overlap, enabled, accounts, status>>
    /\ IF t # Boot /\ manager # "running"
       THEN /\ pc' = [pc EXCEPT ![t] = "done"]
            /\ unseen' = TRUE
            /\ UNCHANGED <<manager, at, config, target, adapter>>
       ELSE /\ unseen' = FALSE
            /\ config' = [config EXCEPT ![t] = enabled]
            /\ Proceed(t, 1, enabled, adapter)

Account(t) == Order[at[t]]

\* adapter.initialize returned: go on to adapter.start.
Initialized(t) ==
    /\ pc[t] = "initializing"
    /\ manager # "closed"
    /\ pc' = [pc EXCEPT ![t] = "starting"]
    /\ UNCHANGED <<overlap, manager, enabled, unseen, at, config, target,
                   accounts, adapter, status>>

\* adapter.start returned: file the account, whatever is filed by now; publish.
Started(t) ==
    LET a == Account(t) IN
    /\ pc[t] = "starting"
    /\ manager # "closed"
    /\ accounts' = [accounts EXCEPT ![a] = t]
    /\ status' = [status EXCEPT ![a] = "started"]
    /\ UNCHANGED <<overlap, enabled, unseen, config>>
    /\ Proceed(t, at[t] + 1, config[t], [adapter EXCEPT ![t][a] = "running"])

\* initialize or start raised: nothing is filed.
StartFailed(t) ==
    LET a == Account(t) IN
    /\ pc[t] \in {"initializing", "starting"}
    /\ manager # "closed"
    /\ status' = [status EXCEPT ![a] = "start_failed"]
    /\ UNCHANGED <<overlap, enabled, unseen, config, accounts>>
    /\ Proceed(t, at[t] + 1, config[t], [adapter EXCEPT ![t][a] = "failed"])

\* stopAccount removes what is filed when the adapter has stopped; the mutant
\* leaves the entry behind.
UnfileNothing(a) == accounts
Unfile(a) == [accounts EXCEPT ![a] = None]

\* The event published after a stop: the deletion fails when another task has
\* already removed the entry.  The mutants take the account for one that still
\* runs, or record no event.
StopEventOptimistic(a) == "started"
StopEventMissing(a) == IF accounts[a] = None THEN None ELSE "stopped"
StopEvent(a) == IF accounts[a] = None THEN "stop_failed" ELSE "stopped"

\* adapter.stop returned, or raised and was only logged, leaving the adapter as
\* it was: remove the entry, publish.
Stopped(t) ==
    LET a == Account(t) IN
    /\ pc[t] = "stopping"
    /\ manager # "closed"
    /\ accounts' = Unfile(a)
    /\ status' = [status EXCEPT ![a] = StopEvent(a)]
    /\ UNCHANGED <<overlap, enabled, unseen, config>>
    /\ \E left \in {"stopped", "broken"} :
          Proceed(t, at[t] + 1, config[t], [adapter EXCEPT ![target[t]][a] = left])

-----------------------------------------------------------------------------
(* The GUI and the manager *)

\* A switch is flipped and saved; if the manager runs, a refresh is scheduled and
\* waited for, at most thirty seconds.  Without overlap the next change is only
\* made when that refresh has ended.
Toggle(a) ==
    /\ overlap \/ manager # "running" \/ Quiet
    /\ enabled' = [enabled EXCEPT ![a] = ~@]
    /\ IF manager = "running"
       THEN \E r \in Refreshes :
               /\ pc[r] = "idle"
               /\ pc' = [pc EXCEPT ![r] = "scheduled"]
               /\ UNCHANGED unseen
       ELSE /\ unseen' = TRUE
            /\ UNCHANGED pc
    /\ UNCHANGED <<overlap, manager, at, config, target, accounts, adapter, status>>

\* stop_gateway clears the running flag; stop() then finds it cleared and returns
\* at once.  (While the manager is starting the flag is not set yet: no effect.)
StopGateway ==
    /\ manager = "running"
    /\ manager' = "stopping"
    /\ UNCHANGED <<overlap, enabled, unseen, taskVars, accounts, adapter, status>>

\* The main coroutine notices within a second; the loop closes under the tasks.
LoopCloses ==
    /\ manager = "stopping"
    /\ manager' = "closed"
    /\ UNCHANGED <<overlap, enabled, unseen, taskVars, accounts, adapter, status>>

-----------------------------------------------------------------------------
TaskNext(t) == Begin(t) \/ Initialized(t) \/ Started(t) \/ StartFailed(t) \/ Stopped(t)

Next ==
    \/ \E t \in Tasks : TaskNext(t)
    \/ \E a \in Accounts : Toggle(a)
    \/ StopGateway
    \/ LoopCloses

Spec == Init /\ [][Next]_vars

-----------------------------------------------------------------------------
(* Properties *)

\* Every variable holds a value of the kind the code keeps there; an account is
\* filed under a task, and a status is one of the events the code publishes.
TypeOK ==
    /\ overlap \in BOOLEAN
    /\ manager \in {"starting", "running", "stopping", "closed"}
    /\ enabled \in [Accounts -> BOOLEAN]
    /\ unseen \in BOOLEAN
    /\ pc \in [Tasks -> {"idle", "scheduled", "initializing", "starting", "stopping", "done"}]
    /\ at \in [Tasks -> 1 .. Len(Order)]
    /\ config \in [Tasks -> [Accounts -> BOOLEAN]]
    /\ target \in [Tasks -> Tasks \cup {None}]
    /\ accounts \in [Accounts -> Tasks \cup {None}]
    /\ adapter \in [Tasks -> [Accounts -> {"unmade", "made", "running", "failed",
                                           "stopped", "broken"}]]
    /\ status \in [Accounts -> {"none", "started", "start_failed", "stopped", "stop_failed"}]

\* A filed account has an adapter that was started and not yet stopped, even when
\* several tasks start and stop it at once: replies are sent through it.
FiledIsStarted ==
    \A a \in Accounts : accounts[a] # None => adapter[accounts[a]][a] = "running"

\* The event the GUI saw last is true of the account table: "started" of a filed
\* account, a stop or a failed stop of one that is gone.
StatusIsTrue ==
    \A a \in Accounts :
        /\ status[a] = "started" => accounts[a] # None
        /\ status[a] \in {"none", "stopped", "stop_failed"} => accounts[a] = None

\* As long as refreshes do not overlap, an adapter that runs is filed under its
\* account, so that it can be stopped; one whose stop raised is given up.
RunningIsFiled ==
    ~overlap => \A t \in Tasks, a \in Accounts :
                    adapter[t][a] = "running" => accounts[a] = t

\* As long as refreshes do not overlap, when no task is at work the connected
\* channels are the configured ones, but for those that failed to start and for
\* changes saved while the manager was not running, which nothing follows.
Converged ==
    ~overlap /\ Quiet /\ ~unseen =>
        \A a \in Accounts :
            \/ enabled[a] <=> accounts[a] # None
            \/ status[a] = "start_failed"

\* "Prevent concurrent refresh" (gateway_starter.py): no platform is connected
\* twice, whatever the user does while a refresh is running.
OneAdapterRuns ==
    \A a \in Accounts : Cardinality({t \in Tasks : adapter[t][a] = "running"}) <= 1
=============================================================================
