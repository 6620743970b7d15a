------------------------- MODULE ChannelAccountsProofs -------------------------
(***************************************************************************)
(* Proofs about ChannelAccounts for any number of platforms and refreshes. *)
(***************************************************************************)
EXTENDS ChannelAccounts, Integers, FiniteSetTheorems, TLAPS

Places == {"idle", "scheduled", "initializing", "starting", "stopping", "done"}
AdapterStates == {"unmade", "made", "running", "failed", "stopped", "broken"}
Adapters == [Tasks -> [Accounts -> AdapterStates]]
Index == 1 .. Len(Order)

\* What a task finds to do.
LEMMA WorkMeans ==
  ASSUME NEW t, NEW cfg, NEW a, NEW table
  PROVE  /\ Work(t, cfg, a, table) = "start" <=> cfg[a] /\ table[a] = None
         /\ Work(t, cfg, a, table) = "stop" <=> ~cfg[a] /\ table[a] # None /\ t # Boot
         /\ Work(t, cfg, a, table) = "none" <=>
              \/ cfg[a] /\ table[a] # None
              \/ ~cfg[a] /\ (table[a] = None \/ t = Boot)
  BY DEF Work

\* The indices in Order name the accounts, each but one.
LEMMA Indices ==
  /\ \A j \in Index : Order[j] \in Accounts
  /\ \A a \in Accounts : \E j \in Index : Order[j] = a
  /\ \A j, k \in Index : Order[j] = Order[k] => j = k
  /\ 1 \in Index /\ Len(Order) \in Nat
  BY AccountsAssumption DEF Index, Accounts

-----------------------------------------------------------------------------
(* Types *)

\* The ways a task may go on.
LEMMA ProceedWays ==
  ASSUME NEW t \in Tasks, NEW i \in Nat \ {0}, NEW cfg, NEW adapters, Proceed(t, i, cfg, adapters)
  PROVE  \/ /\ \A j \in Index : j >= i => Work(t, cfg, Order[j], accounts') = "none"
            /\ Ends(t, adapters)
         \/ \E j \in Index :
            /\ j >= i
            /\ \A k \in Index : i <= k /\ k < j => Work(t, cfg, Order[k], accounts') = "none"
            /\ \/ Work(t, cfg, Order[j], accounts') = "start" /\ StartsAt(t, j, adapters)
               \/ Work(t, cfg, Order[j], accounts') = "stop" /\ StopsAt(t, j, adapters)
  BY Indices DEF Proceed, Index

\* Wherever a task goes on to, the types hold.
LEMMA ProceedType ==
  ASSUME TypeOK, NEW t \in Tasks, NEW i \in Nat \ {0}, NEW cfg, NEW adapters \in Adapters,
         accounts' \in [Accounts -> Tasks \cup {None}],
         Proceed(t, i, cfg, adapters)
  PROVE  /\ pc' \in [Tasks -> Places] /\ at' \in [Tasks -> Index]
         /\ target' \in [Tasks -> Tasks \cup {None}] /\ adapter' \in Adapters
         /\ manager' \in {"starting", "running", "stopping", "closed"}
         /\ \A u \in Tasks \ {t} : pc'[u] = pc[u] /\ at'[u] = at[u] /\ target'[u] = target[u]
<1>1. CASE Ends(t, adapters)
  BY <1>1 DEF Ends, TypeOK, Places, Index
<1>2. ASSUME NEW j \in Index, StartsAt(t, j, adapters)
      PROVE  /\ pc' = [pc EXCEPT ![t] = "initializing"] /\ at' = [at EXCEPT ![t] = j]
             /\ UNCHANGED <<manager, target>>
             /\ adapter' \in Adapters
  <2>1. Order[j] \in Accounts
    BY Indices
  <2> QED
    BY <1>2, <2>1 DEF StartsAt, Adapters, AdapterStates
<1>3. ASSUME NEW j \in Index, StopsAt(t, j, adapters)
      PROVE  /\ pc' = [pc EXCEPT ![t] = "stopping"] /\ at' = [at EXCEPT ![t] = j]
             /\ \E u \in Tasks \cup {None} : target' = [target EXCEPT ![t] = u]
             /\ UNCHANGED manager /\ adapter' \in Adapters
  BY <1>3, Indices DEF StopsAt
<1>4. CASE \E j \in Index : StartsAt(t, j, adapters)
  BY <1>2, <1>4 DEF TypeOK, Places, Index
<1>5. CASE \E j \in Index : StopsAt(t, j, adapters)
  BY <1>3, <1>5 DEF TypeOK, Places, Index
<1> QED
  BY <1>1, <1>4, <1>5, ProceedWays

\* An adapter that changes its state remains an adapter.
LEMMA AdapterType ==
  ASSUME TypeOK, NEW t, NEW a, NEW s \in AdapterStates
  PROVE  [adapter EXCEPT ![t][a] = s] \in Adapters
  BY DEF TypeOK, Adapters, AdapterStates

\* A task's step keeps the types.
LEMMA TaskType ==
  ASSUME TypeOK, NEW t \in Tasks, TaskNext(t)
  PROVE  TypeOK'
<1>1. Account(t) \in Accounts /\ at[t] + 1 \in Nat \ {0} /\ at[t] \in Index
  BY Indices DEF Account, TypeOK, Index
<1>2. adapter \in Adapters
  BY DEF TypeOK, Adapters, AdapterStates
<1>3. CASE Begin(t)
  <2>1. CASE t # Boot /\ manager # "running"
    BY <1>3, <2>1 DEF Begin, TypeOK
  <2>2. CASE ~(t # Boot /\ manager # "running")
    <3>1. /\ Proceed(t, 1, enabled, adapter) /\ unseen' = FALSE
          /\ config' = [config EXCEPT ![t] = enabled]
          /\ UNCHANGED <<overlap, enabled, accounts, status>>
      BY <1>3, <2>2 DEF Begin
    <3>2. accounts' \in [Accounts -> Tasks \cup {None}]
      BY <3>1 DEF TypeOK
    <3>3. /\ pc' \in [Tasks -> Places] /\ at' \in [Tasks -> Index]
          /\ target' \in [Tasks -> Tasks \cup {None}] /\ adapter' \in Adapters
          /\ manager' \in {"starting", "running", "stopping", "closed"}
      BY <1>2, <3>1, <3>2, ProceedType
    <3> QED
      BY <3>1, <3>2, <3>3 DEF TypeOK, Places, Index, Adapters, AdapterStates
  <2> QED
    BY <2>1, <2>2
<1>4. CASE Initialized(t)
  BY <1>4 DEF Initialized, TypeOK
<1>5. ASSUME NEW adapters \in Adapters, NEW s \in {"started", "start_failed", "stopped", "stop_failed"},
             accounts' \in [Accounts -> Tasks \cup {None}],
             status' = [status EXCEPT ![Account(t)] = s],
             UNCHANGED <<overlap, enabled, unseen, config>>,
             Proceed(t, at[t] + 1, config[t], adapters)
      PROVE  TypeOK'
  BY <1>1, <1>5, ProceedType DEF TypeOK, Places, Index, Adapters, AdapterStates
<1>6. CASE Started(t)
  <2>1. accounts' \in [Accounts -> Tasks \cup {None}]
    BY <1>6 DEF Started, TypeOK
  <2>2. [adapter EXCEPT ![t][Account(t)] = "running"] \in Adapters
    BY AdapterType DEF AdapterStates
  <2> QED
    BY <1>5, <1>6, <2>1, <2>2 DEF Started
<1>7. CASE StartFailed(t)
  <2>1. accounts' \in [Accounts -> Tasks \cup {None}]
    BY <1>7 DEF StartFailed, TypeOK
  <2>2. [adapter EXCEPT ![t][Account(t)] = "failed"] \in Adapters
    BY AdapterType DEF AdapterStates
  <2> QED
    BY <1>5, <1>7, <2>1, <2>2 DEF StartFailed
<1>8. CASE Stopped(t)
  <2>1. accounts' \in [Accounts -> Tasks \cup {None}]
    BY <1>8 DEF Stopped, Unfile, TypeOK
  <2>2. PICK left \in {"stopped", "broken"} :
          Proceed(t, at[t] + 1, config[t], [adapter EXCEPT ![target[t]][Account(t)] = left])
    BY <1>8 DEF Stopped
  <2>3. [adapter EXCEPT ![target[t]][Account(t)] = left] \in Adapters
    BY AdapterType DEF AdapterStates
  <2>4. StopEvent(Account(t)) \in {"stopped", "stop_failed"}
    BY DEF StopEvent
  <2> QED
    BY <1>5, <1>8, <2>1, <2>2, <2>3, <2>4 DEF Stopped
<1> QED
  BY <1>3, <1>4, <1>6, <1>7, <1>8 DEF TaskNext

\* Every variable keeps its type, for any number of platforms and refreshes.
THEOREM TypeCorrect == Spec => []TypeOK
<1>1. Init => TypeOK
  <2> SUFFICES ASSUME Init PROVE TypeOK
    OBVIOUS
  <2>1. adapter \in Adapters
    BY DEF Init, Adapters, AdapterStates
  <2>2. pc \in [Tasks -> Places] /\ at \in [Tasks -> Index]
    BY Indices DEF Init, Places
  <2>3. config \in [Tasks -> [Accounts -> BOOLEAN]]
    BY DEF Init
  <2> QED
    BY <2>1, <2>2, <2>3 DEF Init, TypeOK, Places, Index, Adapters, AdapterStates
<1>2. TypeOK /\ [Next]_vars => TypeOK'
  <2> SUFFICES ASSUME TypeOK, [Next]_vars PROVE TypeOK'
    OBVIOUS
  <2>1. CASE \E t \in Tasks : TaskNext(t)
    BY <2>1, TaskType
  <2>2. ASSUME NEW a \in Accounts, Toggle(a) PROVE TypeOK'
    BY <2>2 DEF Toggle, TypeOK
  <2>3. CASE StopGateway \/ LoopCloses
    BY <2>3 DEF StopGateway, LoopCloses, taskVars, TypeOK
  <2>4. CASE UNCHANGED vars
    BY <2>4 DEF vars, taskVars, TypeOK
  <2> QED
    BY <2>1, <2>2, <2>3, <2>4 DEF Next
<1> QED
  BY <1>1, <1>2, PTL DEF Spec

-----------------------------------------------------------------------------
(* Adapters *)

\* What an adapter is while tasks start and stop it: not made before its task comes to
\* the account, made and no more while it is being started, and started once when some
\* task stops it, whether or not another has stopped it in the meantime.
AwaitsStart(adapters) ==
    \A t \in Tasks : pc[t] \in {"initializing", "starting"} => adapters[t][Account(t)] = "made"
AwaitsStop(adapters) ==
    \A t \in Tasks : pc[t] = "stopping" =>
        /\ target[t] \in Tasks
        /\ adapters[target[t]][Account(t)] \in {"running", "stopped", "broken"}
NotYetMade(adapters) ==
    \A t \in Tasks, j \in Index :
        pc[t] \in {"idle", "scheduled"} \/ j > at[t] => adapters[t][Order[j]] = "unmade"
AdapterInv ==
    /\ FiledIsStarted
    /\ AwaitsStart(adapter) /\ AwaitsStop(adapter) /\ NotYetMade(adapter)

\* A task that goes on from index i keeps all that, if what it did to the account table
\* and the adapters before does.
LEMMA ProceedAdapters ==
  ASSUME TypeOK, NEW t \in Tasks, NEW i \in Nat \ {0}, i <= at[t] + 1, NEW cfg,
         NEW adapters \in Adapters,
         accounts' \in [Accounts -> Tasks \cup {None}],
         Proceed(t, i, cfg, adapters),
         \A a \in Accounts : accounts'[a] # None => adapters[accounts'[a]][a] = "running",
         \A u \in Tasks \ {t} :
            /\ pc[u] \in {"initializing", "starting"} => adapters[u][Account(u)] = "made"
            /\ pc[u] = "stopping" =>
                 /\ target[u] \in Tasks
                 /\ adapters[target[u]][Account(u)] \in {"running", "stopped", "broken"}
            /\ \A j \in Index :
                 pc[u] \in {"idle", "scheduled"} \/ j > at[u] => adapters[u][Order[j]] = "unmade",
         \A j \in Index : j >= i => adapters[t][Order[j]] = "unmade"
  PROVE  AdapterInv'
<1> USE DEF Account
<1>1. at[t] \in Nat /\ Index \subseteq Nat
  BY Indices DEF TypeOK, Index
<1>2. CASE Ends(t, adapters)
  <2>1. adapter' = adapters /\ pc' = [pc EXCEPT ![t] = "done"] /\ UNCHANGED <<at, target>>
    BY <1>2 DEF Ends
  <2>2. FiledIsStarted'
    BY <2>1 DEF FiledIsStarted
  <2>3. AwaitsStart(adapter)' /\ AwaitsStop(adapter)'
    BY <2>1 DEF AwaitsStart, AwaitsStop, TypeOK
  <2>4. NotYetMade(adapter)'
    BY <1>1, <2>1 DEF NotYetMade, TypeOK
  <2> QED
    BY <2>2, <2>3, <2>4 DEF AdapterInv
<1>3. ASSUME NEW j \in Index, j >= i, Work(t, cfg, Order[j], accounts') = "start",
             StartsAt(t, j, adapters)
      PROVE  AdapterInv'
  <2>1. /\ adapter' = [adapters EXCEPT ![t][Order[j]] = "made"]
        /\ pc' = [pc EXCEPT ![t] = "initializing"] /\ at' = [at EXCEPT ![t] = j]
        /\ target' = target
    BY <1>3 DEF StartsAt
  <2>2. /\ Order[j] \in Accounts /\ adapters[t][Order[j]] = "unmade"
        /\ accounts'[Order[j]] = None
    BY <1>3, Indices, WorkMeans
  <2>3. \A u \in Tasks, a \in Accounts :
          adapter'[u][a] = IF u = t /\ a = Order[j] THEN "made" ELSE adapters[u][a]
    BY <2>1, <2>2 DEF Adapters
  <2>4. FiledIsStarted'
    BY <2>2, <2>3 DEF FiledIsStarted
  <2>5. \A u \in Tasks : Order[at[u]] \in Accounts
    BY Indices DEF TypeOK, Index
  <2>6. AwaitsStart(adapter)'
    BY <2>1, <2>2, <2>3, <2>5 DEF AwaitsStart, TypeOK
  <2>7. AwaitsStop(adapter)'
    BY <2>1, <2>2, <2>3, <2>5 DEF AwaitsStop, TypeOK
  <2>8. NotYetMade(adapter)'
    <3> SUFFICES ASSUME NEW u \in Tasks, NEW k \in Index,
                        pc'[u] \in {"idle", "scheduled"} \/ k > at'[u]
                 PROVE  adapter'[u][Order[k]] = "unmade"
      BY DEF NotYetMade
    <3>1. CASE u # t
      BY <2>1, <2>3, <3>1, Indices DEF TypeOK
    <3>2. CASE u = t
      <4>1. k > j /\ k >= i
        BY <1>1, <1>3, <2>1, <3>2 DEF TypeOK
      <4> QED
        BY <1>1, <2>3, <3>2, <4>1, Indices
    <3> QED
      BY <3>1, <3>2
  <2> QED
    BY <2>4, <2>6, <2>7, <2>8 DEF AdapterInv
<1>4. ASSUME NEW j \in Index, j >= i, Work(t, cfg, Order[j], accounts') = "stop",
             StopsAt(t, j, adapters)
      PROVE  AdapterInv'
  <2>1. /\ adapter' = adapters
        /\ pc' = [pc EXCEPT ![t] = "stopping"] /\ at' = [at EXCEPT ![t] = j]
        /\ target' = [target EXCEPT ![t] = accounts'[Order[j]]]
    BY <1>4 DEF StopsAt
  <2>2. /\ Order[j] \in Accounts /\ accounts'[Order[j]] \in Tasks
        /\ adapters[accounts'[Order[j]]][Order[j]] = "running"
    BY <1>4, Indices, WorkMeans
  <2>3. FiledIsStarted'
    BY <2>1 DEF FiledIsStarted
  <2>4. AwaitsStart(adapter)'
    BY <2>1 DEF AwaitsStart, TypeOK
  <2>5. AwaitsStop(adapter)'
    BY <2>1, <2>2 DEF AwaitsStop, TypeOK
  <2>6. NotYetMade(adapter)'
    <3> SUFFICES ASSUME NEW u \in Tasks, NEW k \in Index,
                        pc'[u] \in {"idle", "scheduled"} \/ k > at'[u]
                 PROVE  adapters[u][Order[k]] = "unmade"
      BY <2>1 DEF NotYetMade
    <3>1. CASE u # t
      BY <2>1, <3>1 DEF TypeOK
    <3>2. CASE u = t
      BY <1>1, <1>4, <2>1, <3>2 DEF TypeOK
    <3> QED
      BY <3>1, <3>2
  <2> QED
    BY <2>3, <2>4, <2>5, <2>6 DEF AdapterInv
<1> QED
  BY <1>2, <1>3, <1>4, ProceedWays

\* A task's step keeps AdapterInv.
LEMMA TaskAdapters ==
  ASSUME TypeOK, AdapterInv, NEW t \in Tasks, TaskNext(t)
  PROVE  AdapterInv'
<1> DEFINE a == Account(t)
<1>1. /\ a \in Accounts /\ a = Order[at[t]] /\ at[t] \in Index /\ Index \subseteq Nat
      /\ at[t] + 1 \in Nat \ {0}
      /\ \A u \in Tasks : Account(u) \in Accounts
  BY Indices DEF Account, TypeOK, Index
<1>2. adapter \in Adapters
  BY DEF TypeOK, Adapters, AdapterStates
<1>3. \A j \in Index : Order[j] \in Accounts
  BY Indices
<1>4. \A j \in Index : j >= at[t] + 1 => adapter[t][Order[j]] = "unmade" /\ Order[j] # a
  <2> SUFFICES ASSUME NEW j \in Index, j >= at[t] + 1
               PROVE  adapter[t][Order[j]] = "unmade" /\ Order[j] # a
    OBVIOUS
  <2>1. j > at[t] /\ j # at[t]
    BY <1>1, Indices DEF Index
  <2> QED
    BY <1>1, <2>1, Indices DEF AdapterInv, NotYetMade
<1>5. CASE Begin(t)
  <2>1. CASE t # Boot /\ manager # "running"
    <3>1. pc[t] = "scheduled" /\ pc' = [pc EXCEPT ![t] = "done"]
          /\ UNCHANGED <<at, target, accounts, adapter>>
      BY <1>5, <2>1 DEF Begin
    <3> QED
      BY <3>1 DEF AdapterInv, FiledIsStarted, AwaitsStart, AwaitsStop, NotYetMade, Account, TypeOK
  <2>2. CASE ~(t # Boot /\ manager # "running")
    <3>1. Proceed(t, 1, enabled, adapter) /\ UNCHANGED accounts /\ pc[t] = "scheduled"
      BY <1>5, <2>2 DEF Begin
    <3>2. /\ accounts' \in [Accounts -> Tasks \cup {None}]
          /\ \A b \in Accounts : accounts'[b] # None => adapter[accounts'[b]][b] = "running"
      BY <3>1 DEF AdapterInv, FiledIsStarted, TypeOK
    <3>3. \A j \in Index : j >= 1 => adapter[t][Order[j]] = "unmade"
      BY <3>1 DEF AdapterInv, NotYetMade
    <3>4. 1 \in Nat \ {0} /\ 1 <= at[t] + 1
      BY <1>1
    <3> QED
      BY <1>2, <3>1, <3>2, <3>3, <3>4, ProceedAdapters
         DEF AdapterInv, AwaitsStart, AwaitsStop, NotYetMade
  <2> QED
    BY <2>1, <2>2
<1>6. CASE Initialized(t)
  BY <1>6 DEF Initialized, AdapterInv, FiledIsStarted, AwaitsStart, AwaitsStop, NotYetMade,
              Account, TypeOK
<1>7. ASSUME NEW u \in Tasks, NEW s \in {"running", "failed", "stopped", "broken"},
             adapter[u][a] # "unmade",
             adapter[u][a] = "made" => u = t /\ pc[t] \in {"initializing", "starting"},
             adapter[u][a] # "made" => s \in {"stopped", "broken"},
             Proceed(t, at[t] + 1, config[t], [adapter EXCEPT ![u][a] = s]),
             accounts' \in [Accounts -> Tasks \cup {None}],
             \A b \in Accounts \ {a} : accounts'[b] = accounts[b],
             \/ accounts'[a] = None
             \/ s = "running" /\ accounts'[a] = u
             \/ accounts'[a] = accounts[a] /\ accounts[a] # u
      PROVE  AdapterInv'
  <2> DEFINE A == [adapter EXCEPT ![u][a] = s]
  <2>1. A \in Adapters
    BY AdapterType DEF AdapterStates
  <2>2. \A v \in Tasks, b \in Accounts :
          A[v][b] = IF v = u /\ b = a THEN s ELSE adapter[v][b]
    BY <1>1, <1>2 DEF Adapters
  <2> HIDE DEF A
  <2>3. \A b \in Accounts : accounts'[b] # None => A[accounts'[b]][b] = "running"
    <3> SUFFICES ASSUME NEW b \in Accounts, accounts'[b] # None
                 PROVE  A[accounts'[b]][b] = "running"
      OBVIOUS
    <3>1. accounts'[b] \in Tasks
      BY <1>7
    <3>2. CASE b # a
      BY <1>7, <2>2, <3>1, <3>2 DEF AdapterInv, FiledIsStarted
    <3>3. CASE b = a
      BY <1>1, <1>7, <2>2, <3>1, <3>3 DEF AdapterInv, FiledIsStarted
    <3> QED
      BY <3>2, <3>3
  <2>4. ASSUME NEW v \in Tasks \ {t}
        PROVE  /\ pc[v] \in {"initializing", "starting"} => A[v][Account(v)] = "made"
               /\ pc[v] = "stopping" =>
                    /\ target[v] \in Tasks
                    /\ A[target[v]][Account(v)] \in {"running", "stopped", "broken"}
               /\ \A j \in Index :
                    pc[v] \in {"idle", "scheduled"} \/ j > at[v] => A[v][Order[j]] = "unmade"
    <3>1. pc[v] \in {"initializing", "starting"} => A[v][Account(v)] = "made"
      BY <1>1, <1>7, <2>2 DEF AdapterInv, AwaitsStart
    <3>2. pc[v] = "stopping" =>
                    /\ target[v] \in Tasks
                    /\ A[target[v]][Account(v)] \in {"running", "stopped", "broken"}
      BY <1>1, <1>7, <2>2 DEF AdapterInv, AwaitsStop
    <3>3. \A j \in Index :
                    pc[v] \in {"idle", "scheduled"} \/ j > at[v] => A[v][Order[j]] = "unmade"
      BY <1>1, <1>3, <1>7, <2>2 DEF AdapterInv, NotYetMade
    <3> QED
      BY <3>1, <3>2, <3>3
  <2>5. \A j \in Index : j >= at[t] + 1 => A[t][Order[j]] = "unmade"
    BY <1>3, <1>4, <2>2
  <2>6. Proceed(t, at[t] + 1, config[t], A)
    BY <1>7 DEF A
  <2> QED
    BY <1>1, <1>7, <2>1, <2>3, <2>4, <2>5, <2>6, ProceedAdapters
<1>8. CASE Started(t)
  <2>1. /\ pc[t] = "starting" /\ accounts' = [accounts EXCEPT ![a] = t]
        /\ Proceed(t, at[t] + 1, config[t], [adapter EXCEPT ![t][a] = "running"])
    BY <1>8 DEF Started
  <2>2. adapter[t][a] = "made"
    BY <2>1 DEF AdapterInv, AwaitsStart
  <2>3. /\ accounts' \in [Accounts -> Tasks \cup {None}]
        /\ \A b \in Accounts \ {a} : accounts'[b] = accounts[b]
        /\ accounts'[a] = t
    BY <1>1, <2>1 DEF TypeOK
  <2> QED
    BY <1>7, <2>1, <2>2, <2>3
<1>9. CASE StartFailed(t)
  <2>1. /\ pc[t] \in {"initializing", "starting"} /\ accounts' = accounts
        /\ Proceed(t, at[t] + 1, config[t], [adapter EXCEPT ![t][a] = "failed"])
    BY <1>9 DEF StartFailed
  <2>2. adapter[t][a] = "made"
    BY <2>1 DEF AdapterInv, AwaitsStart
  <2>3. accounts' \in [Accounts -> Tasks \cup {None}] /\ accounts[a] # t
    BY <1>1, <2>1, <2>2, AccountsAssumption DEF TypeOK, AdapterInv, FiledIsStarted
  <2> QED
    BY <1>7, <2>1, <2>2, <2>3
<1>10. CASE Stopped(t)
  <2>1. PICK left \in {"stopped", "broken"} :
          Proceed(t, at[t] + 1, config[t], [adapter EXCEPT ![target[t]][a] = left])
    BY <1>10 DEF Stopped
  <2>2. pc[t] = "stopping" /\ accounts' = [accounts EXCEPT ![a] = None]
    BY <1>10 DEF Stopped, Unfile
  <2>3. target[t] \in Tasks /\ adapter[target[t]][a] \in {"running", "stopped", "broken"}
    BY <2>2 DEF AdapterInv, AwaitsStop
  <2>4. /\ accounts' \in [Accounts -> Tasks \cup {None}]
        /\ \A b \in Accounts \ {a} : accounts'[b] = accounts[b]
        /\ accounts'[a] = None
    BY <1>1, <2>2 DEF TypeOK
  <2> QED
    BY <1>7, <2>1, <2>3, <2>4
<1> QED
  BY <1>5, <1>6, <1>8, <1>9, <1>10 DEF TaskNext

\* AdapterInv is invariant.
LEMMA AdaptersKept == Spec => []AdapterInv
<1>1. Init => AdapterInv
  <2> SUFFICES ASSUME Init PROVE AdapterInv
    OBVIOUS
  <2>1. FiledIsStarted
    BY DEF Init, FiledIsStarted
  <2>2. \A t \in Tasks : pc[t] \in {"idle", "scheduled"}
    BY DEF Init
  <2>3. NotYetMade(adapter)
    BY Indices DEF Init, NotYetMade
  <2> QED
    BY <2>1, <2>2, <2>3 DEF AdapterInv, AwaitsStart, AwaitsStop
<1>2. TypeOK /\ AdapterInv /\ [Next]_vars => AdapterInv'
  <2> SUFFICES ASSUME TypeOK, AdapterInv, [Next]_vars PROVE AdapterInv'
    OBVIOUS
  <2>1. CASE \E t \in Tasks : TaskNext(t)
    BY <2>1, TaskAdapters
  <2>2. ASSUME NEW a \in Accounts, Toggle(a) PROVE AdapterInv'
    <3>1. /\ UNCHANGED <<at, target, accounts, adapter>>
          /\ \/ pc' = pc
             \/ \E r \in Tasks : pc[r] = "idle" /\ pc' = [pc EXCEPT ![r] = "scheduled"]
      BY <2>2 DEF Toggle, Tasks
    <3> QED
      BY <3>1 DEF AdapterInv, FiledIsStarted, AwaitsStart, AwaitsStop, NotYetMade, Account, TypeOK
  <2>3. CASE StopGateway \/ LoopCloses \/ UNCHANGED vars
    <3>1. UNCHANGED <<pc, at, target, accounts, adapter>>
      BY <2>3 DEF StopGateway, LoopCloses, vars, taskVars
    <3> QED
      BY <3>1 DEF AdapterInv, FiledIsStarted, AwaitsStart, AwaitsStop, NotYetMade, Account
  <2> QED
    BY <2>1, <2>2, <2>3 DEF Next
<1> QED
  BY <1>1, <1>2, TypeCorrect, PTL DEF Spec

\* A filed account has an adapter that was started and not stopped, however many tasks
\* start and stop the same account at once.
THEOREM FiledCorrect == Spec => []FiledIsStarted
<1>1. AdapterInv => FiledIsStarted
  BY DEF AdapterInv
<1> QED
  BY <1>1, AdaptersKept, PTL

\* The event published last about an account is true of the account table.
THEOREM StatusCorrect == Spec => []StatusIsTrue
<1>1. Init => StatusIsTrue
  BY DEF Init, StatusIsTrue
<1>2. TypeOK /\ StatusIsTrue /\ [Next]_vars => StatusIsTrue'
  <2> SUFFICES ASSUME TypeOK, StatusIsTrue, [Next]_vars PROVE StatusIsTrue'
    OBVIOUS
  <2>1. ASSUME NEW t \in Tasks, Begin(t) \/ Initialized(t) PROVE StatusIsTrue'
    BY <2>1 DEF Begin, Initialized, StatusIsTrue
  <2>2. ASSUME NEW t \in Tasks, Started(t) PROVE StatusIsTrue'
    <3>1. t # None
      BY AccountsAssumption
    <3> QED
      BY <2>2, <3>1 DEF Started, StatusIsTrue, TypeOK
  <2>3. ASSUME NEW t \in Tasks, StartFailed(t) PROVE StatusIsTrue'
    BY <2>3 DEF StartFailed, StatusIsTrue, TypeOK
  <2>4. ASSUME NEW t \in Tasks, Stopped(t) PROVE StatusIsTrue'
    BY <2>4 DEF Stopped, Unfile, StopEvent, StatusIsTrue, TypeOK
  <2>5. ASSUME NEW a \in Accounts, Toggle(a) PROVE StatusIsTrue'
    BY <2>5 DEF Toggle, StatusIsTrue
  <2>6. CASE StopGateway \/ LoopCloses \/ UNCHANGED vars
    BY <2>6 DEF StopGateway, LoopCloses, vars, taskVars, StatusIsTrue
  <2> QED
    BY <2>1, <2>2, <2>3, <2>4, <2>5, <2>6 DEF Next, TaskNext
<1> QED
  BY <1>1, <1>2, TypeCorrect, PTL DEF Spec

-----------------------------------------------------------------------------
(* Refreshes that do not overlap *)

AtWork(t) == pc[t] \notin {"idle", "done"}

\* Without overlap one task is at work at a time; what runs is filed, and what the task
\* found in the account table when it turned to its account is still there.
SerialInv ==
    ~overlap =>
        /\ \A t, u \in Tasks : AtWork(t) /\ AtWork(u) => t = u
        /\ \A t \in Tasks, a \in Accounts : adapter[t][a] = "running" => accounts[a] = t
        /\ \A t \in Tasks : pc[t] \in {"initializing", "starting"} => accounts[Account(t)] = None
        /\ \A t \in Tasks : pc[t] = "stopping" => accounts[Account(t)] = target[t]

\* The task that goes on keeps that, if all that runs is filed.
LEMMA ProceedSerial ==
  ASSUME TypeOK, ~overlap, NEW t \in Tasks, NEW i \in Nat \ {0}, NEW cfg,
         NEW adapters \in Adapters, Proceed(t, i, cfg, adapters),
         \A u \in Tasks \ {t} : ~AtWork(u),
         \A u \in Tasks, a \in Accounts : adapters[u][a] = "running" => accounts'[a] = u
  PROVE  SerialInv'
<1> USE DEF AtWork, Account
<1>1. CASE Ends(t, adapters)
  <2>1. adapter' = adapters /\ pc' = [pc EXCEPT ![t] = "done"]
    BY <1>1 DEF Ends
  <2> QED
    BY <2>1 DEF SerialInv, TypeOK
<1>2. ASSUME NEW j \in Index, Work(t, cfg, Order[j], accounts') = "start", StartsAt(t, j, adapters)
      PROVE  SerialInv'
  <2>1. /\ adapter' = [adapters EXCEPT ![t][Order[j]] = "made"]
        /\ pc' = [pc EXCEPT ![t] = "initializing"] /\ at' = [at EXCEPT ![t] = j]
    BY <1>2 DEF StartsAt
  <2>2. Order[j] \in Accounts /\ accounts'[Order[j]] = None
    BY <1>2, Indices, WorkMeans
  <2>3. \A u \in Tasks, a \in Accounts : adapter'[u][a] = "running" => accounts'[a] = u
    BY <2>1, <2>2 DEF Adapters
  <2> QED
    BY <2>1, <2>2, <2>3 DEF SerialInv, TypeOK
<1>3. ASSUME NEW j \in Index, StopsAt(t, j, adapters)
      PROVE  SerialInv'
  <2>1. /\ adapter' = adapters
        /\ pc' = [pc EXCEPT ![t] = "stopping"] /\ at' = [at EXCEPT ![t] = j]
        /\ target' = [target EXCEPT ![t] = accounts'[Order[j]]]
    BY <1>3 DEF StopsAt
  <2> QED
    BY <2>1 DEF SerialInv, TypeOK
<1> QED
  BY <1>1, <1>2, <1>3, ProceedWays

\* A task's step keeps SerialInv.
LEMMA TaskSerial ==
  ASSUME TypeOK, AdapterInv, SerialInv, NEW t \in Tasks, TaskNext(t)
  PROVE  SerialInv'
<1> DEFINE a == Account(t)
<1>1. a \in Accounts /\ at[t] + 1 \in Nat \ {0} /\ adapter \in Adapters
  BY Indices DEF Account, TypeOK, Index, Adapters, AdapterStates
<1>2. overlap' = overlap /\ AtWork(t)
  BY DEF TaskNext, Begin, Initialized, Started, StartFailed, Stopped, AtWork
<1>3. CASE overlap
  BY <1>2, <1>3 DEF SerialInv
<1>4. CASE ~overlap
  <2>1. \A u \in Tasks \ {t} : ~AtWork(u)
    BY <1>2, <1>4 DEF SerialInv
  <2>2. CASE Begin(t)
    <3>1. CASE t # Boot /\ manager # "running"
      <4>1. /\ pc' = [pc EXCEPT ![t] = "done"]
            /\ UNCHANGED <<at, target, accounts, adapter>>
        BY <2>2, <3>1 DEF Begin
      <4> QED
        BY <1>4, <4>1 DEF SerialInv, AtWork, Account, TypeOK
    <3>2. CASE ~(t # Boot /\ manager # "running")
      <4>1. Proceed(t, 1, enabled, adapter) /\ UNCHANGED accounts
        BY <2>2, <3>2 DEF Begin
      <4> QED
        BY <1>1, <1>4, <2>1, <4>1, ProceedSerial DEF SerialInv
    <3> QED
      BY <3>1, <3>2
  <2>3. CASE Initialized(t)
    BY <1>4, <2>3 DEF Initialized, SerialInv, AtWork, Account, TypeOK
  <2>4. CASE Started(t)
    <3> DEFINE A == [adapter EXCEPT ![t][a] = "running"]
    <3>1. /\ pc[t] = "starting" /\ accounts' = [accounts EXCEPT ![a] = t]
          /\ Proceed(t, at[t] + 1, config[t], A)
      BY <2>4 DEF Started
    <3>2. A \in Adapters
      BY AdapterType DEF AdapterStates
    <3>3. accounts[a] = None
      BY <1>4, <3>1 DEF SerialInv
    <3>4. \A u \in Tasks, b \in Accounts : A[u][b] = "running" => accounts'[b] = u
      BY <1>1, <1>4, <3>1, <3>3, AccountsAssumption DEF SerialInv, TypeOK, Adapters
    <3> HIDE DEF A
    <3> QED
      BY <1>1, <1>4, <2>1, <3>1, <3>2, <3>4, ProceedSerial
  <2>5. CASE StartFailed(t)
    <3> DEFINE A == [adapter EXCEPT ![t][a] = "failed"]
    <3>1. accounts' = accounts /\ Proceed(t, at[t] + 1, config[t], A)
      BY <2>5 DEF StartFailed
    <3>2. A \in Adapters
      BY AdapterType DEF AdapterStates
    <3>3. \A u \in Tasks, b \in Accounts : A[u][b] = "running" => accounts'[b] = u
      BY <1>1, <1>4, <3>1 DEF SerialInv, Adapters
    <3> HIDE DEF A
    <3> QED
      BY <1>1, <1>4, <2>1, <3>1, <3>2, <3>3, ProceedSerial
  <2>6. CASE Stopped(t)
    <3>1. PICK left \in {"stopped", "broken"} :
            Proceed(t, at[t] + 1, config[t], [adapter EXCEPT ![target[t]][a] = left])
      BY <2>6 DEF Stopped
    <3> DEFINE A == [adapter EXCEPT ![target[t]][a] = left]
    <3>2. pc[t] = "stopping" /\ accounts' = [accounts EXCEPT ![a] = None]
      BY <2>6 DEF Stopped, Unfile
    <3>3. A \in Adapters
      BY AdapterType DEF AdapterStates
    <3>4. accounts[a] = target[t] /\ target[t] \in Tasks
      BY <1>4, <3>2 DEF SerialInv, AdapterInv, AwaitsStop
    <3>5. \A u \in Tasks, b \in Accounts : A[u][b] = "running" => accounts'[b] = u
      BY <1>1, <1>4, <3>2, <3>4 DEF SerialInv, TypeOK, Adapters
    <3> HIDE DEF A
    <3>6. Proceed(t, at[t] + 1, config[t], A)
      BY <3>1 DEF A
    <3> QED
      BY <1>1, <1>4, <2>1, <3>3, <3>5, <3>6, ProceedSerial
  <2> QED
    BY <2>2, <2>3, <2>4, <2>5, <2>6 DEF TaskNext
<1> QED
  BY <1>3, <1>4

\* What the GUI and the manager do keeps it too.
LEMMA OtherSerial ==
  ASSUME TypeOK, SerialInv,
         (\E a \in Accounts : Toggle(a)) \/ StopGateway \/ LoopCloses \/ UNCHANGED vars
  PROVE  SerialInv'
<1>1. ASSUME NEW a \in Accounts, Toggle(a) PROVE SerialInv'
  <2>1. UNCHANGED <<overlap, at, target, accounts, adapter>>
    BY <1>1 DEF Toggle
  <2>2. CASE pc' = pc
    BY <2>1, <2>2 DEF SerialInv, AtWork, Account
  <2>3. CASE pc' # pc
    <3>1. manager = "running"
      BY <1>1, <2>3 DEF Toggle
    <3>2. PICK r \in Tasks : pc[r] = "idle" /\ pc' = [pc EXCEPT ![r] = "scheduled"]
      BY <1>1, <3>1 DEF Toggle, Tasks
    <3>3. overlap \/ \A t \in Tasks : ~AtWork(t)
      BY <1>1, <3>1 DEF Toggle, Quiet, AtWork
    <3> QED
      BY <2>1, <3>2, <3>3 DEF SerialInv, AtWork, Account, TypeOK
  <2> QED
    BY <2>2, <2>3
<1>2. CASE StopGateway \/ LoopCloses \/ UNCHANGED vars
  BY <1>2 DEF StopGateway, LoopCloses, vars, taskVars, SerialInv, AtWork, Account
<1> QED
  BY <1>1, <1>2

\* SerialInv and AdapterInv are invariant.
LEMMA SerialKept == Spec => [](AdapterInv /\ SerialInv)
<1>1. Init => SerialInv
  BY DEF Init, SerialInv, AtWork
<1>2. TypeOK /\ AdapterInv /\ SerialInv /\ [Next]_vars => SerialInv'
  BY TaskSerial, OtherSerial DEF Next
<1> QED
  BY <1>1, <1>2, AdaptersKept, TypeCorrect, PTL DEF Spec

\* Unless refreshes overlap, a running adapter is filed under its account: no connection
\* to a platform is left that nobody can stop.
THEOREM RunningCorrect == Spec => []RunningIsFiled
<1>1. SerialInv => RunningIsFiled
  BY DEF SerialInv, RunningIsFiled
<1> QED
  BY <1>1, SerialKept, PTL

-----------------------------------------------------------------------------
(* Convergence *)

\* An account is as the configuration wants it, or failed to start.
Agrees(cfg, table, events, a) == (cfg[a] <=> table[a] # None) \/ events[a] = "start_failed"

\* Without overlap a task at work has brought the accounts before its index in line with
\* the configuration, which is still the one it loaded or will not be followed; boot
\* finds no account it has not filed itself.
ConvergingInv ==
    ~overlap =>
        /\ \A t \in Tasks : pc[t] \in {"initializing", "starting", "stopping"} =>
             /\ unseen \/ config[t] = enabled
             /\ \A j \in Index : j < at[t] => Agrees(config[t], accounts, status, Order[j])
             /\ config[t][Account(t)] <=> pc[t] # "stopping"
        /\ Quiet /\ ~unseen => \A a \in Accounts : Agrees(enabled, accounts, status, a)
        /\ pc[Boot] = "scheduled" => \A a \in Accounts : accounts[a] = None
        /\ pc[Boot] \in {"initializing", "starting"} =>
             \A j \in Index : j >= at[Boot] => accounts[Order[j]] = None
        /\ pc[Boot] # "stopping"

\* A task that has brought the accounts before index i in line goes on, and has brought
\* all in line when it ends.
LEMMA ProceedConverges ==
  ASSUME TypeOK, ~overlap, NEW t \in Tasks, NEW i \in Nat \ {0},
         NEW cfg, NEW adapters, Proceed(t, i, cfg, adapters),
         \A u \in Tasks \ {t} : ~AtWork(u),
         config'[t] = cfg, unseen' \/ cfg = enabled',
         \A j \in Index : j < i => Agrees(cfg, accounts', status', Order[j]),
         t = Boot => \A j \in Index : j >= i => accounts'[Order[j]] = None
  PROVE  ConvergingInv'
<1> USE DEF AtWork, Account
<1>1. Index \subseteq Nat
  BY DEF Index
<1>2. Boot \in Tasks
  BY DEF Tasks
<1>3. CASE /\ \A j \in Index : j >= i => Work(t, cfg, Order[j], accounts') = "none"
           /\ Ends(t, adapters)
  <2>1. pc' = [pc EXCEPT ![t] = "done"]
    BY <1>3 DEF Ends
  <2>2. ASSUME NEW a \in Accounts PROVE Agrees(cfg, accounts', status', a)
    <3>1. PICK j \in Index : Order[j] = a
      BY Indices
    <3>2. CASE j < i
      BY <3>1, <3>2
    <3>3. CASE j >= i
      BY <1>3, <3>1, <3>3, WorkMeans DEF Agrees
    <3> QED
      BY <1>1, <3>2, <3>3
  <2>3. \A u \in Tasks : pc'[u] \in {"idle", "done"}
    BY <2>1 DEF TypeOK
  <2> QED
    BY <1>2, <2>2, <2>3 DEF ConvergingInv
<1>4. ASSUME NEW j \in Index, j >= i,
             \A k \in Index : i <= k /\ k < j => Work(t, cfg, Order[k], accounts') = "none",
             NEW p \in {"initializing", "stopping"},
             pc' = [pc EXCEPT ![t] = p], at' = [at EXCEPT ![t] = j],
             cfg[Order[j]] <=> p # "stopping",
             t = Boot => p # "stopping"
      PROVE  ConvergingInv'
  <2>1. \A u \in Tasks \ {t} : pc'[u] \in {"idle", "done"}
    BY <1>4 DEF TypeOK
  <2>2. pc'[t] = p /\ at'[t] = j
    BY <1>4 DEF TypeOK
  <2>3. ASSUME NEW k \in Index, k < j PROVE Agrees(cfg, accounts', status', Order[k])
    <3>1. CASE k < i
      BY <3>1
    <3>2. CASE k >= i
      <4>1. Work(t, cfg, Order[k], accounts') = "none"
        BY <1>4, <2>3, <3>2
      <4> QED
        BY <3>2, <4>1, WorkMeans DEF Agrees
    <3>3. k < i \/ k >= i
      BY <1>1
    <3> QED
      BY <3>1, <3>2, <3>3
  <2>4. ~Quiet'
    BY <2>2 DEF Quiet
  <2>5. t = Boot => \A k \in Index : k >= at'[t] => accounts'[Order[k]] = None
    BY <1>1, <1>4, <2>2
  <2> QED
    BY <1>2, <1>4, <2>1, <2>2, <2>3, <2>4, <2>5 DEF ConvergingInv
<1>5. ASSUME NEW j \in Index, Work(t, cfg, Order[j], accounts') = "start", StartsAt(t, j, adapters)
      PROVE  /\ pc' = [pc EXCEPT ![t] = "initializing"] /\ at' = [at EXCEPT ![t] = j]
             /\ cfg[Order[j]]
  BY <1>5, WorkMeans DEF StartsAt
<1>6. ASSUME NEW j \in Index, Work(t, cfg, Order[j], accounts') = "stop", StopsAt(t, j, adapters)
      PROVE  /\ pc' = [pc EXCEPT ![t] = "stopping"] /\ at' = [at EXCEPT ![t] = j]
             /\ ~cfg[Order[j]] /\ t # Boot
  BY <1>6, WorkMeans DEF StopsAt
<1> QED
  BY <1>3, <1>4, <1>5, <1>6, ProceedWays

\* A task that is done with its account, and has brought it in line, goes on.
LEMMA NextAccount ==
  ASSUME TypeOK, SerialInv, ConvergingInv, ~overlap, NEW t \in Tasks,
         pc[t] \in {"initializing", "starting", "stopping"},
         UNCHANGED <<enabled, unseen, config>>,
         NEW adapters, Proceed(t, at[t] + 1, config[t], adapters),
         \A b \in Accounts \ {Account(t)} : accounts'[b] = accounts[b] /\ status'[b] = status[b],
         Agrees(config[t], accounts', status', Account(t))
  PROVE  ConvergingInv'
<1>1. \A u \in Tasks \ {t} : ~AtWork(u)
  BY DEF SerialInv, AtWork
<1>2. at[t] \in Index /\ Index \subseteq Nat /\ at[t] + 1 \in Nat \ {0}
  BY Indices DEF TypeOK, Index
<1>3. unseen' \/ config[t] = enabled'
  BY DEF ConvergingInv
<1>4. ASSUME NEW j \in Index, j < at[t] + 1 PROVE Agrees(config[t], accounts', status', Order[j])
  <2>1. CASE j = at[t]
    BY <2>1 DEF Account
  <2>2. CASE j # at[t]
    <3>1. j \in Nat /\ at[t] \in Nat
      BY <1>2
    <3>2. j < at[t]
      BY <1>4, <2>2, <3>1
    <3>3. Order[j] \in Accounts /\ Order[j] # Account(t)
      BY <1>2, <2>2, Indices DEF Account
    <3>4. Agrees(config[t], accounts, status, Order[j])
      BY <3>2 DEF ConvergingInv
    <3> QED
      BY <3>3, <3>4 DEF Agrees
  <2> QED
    BY <2>1, <2>2
<1>5. ASSUME t = Boot, NEW j \in Index, j >= at[t] + 1 PROVE accounts'[Order[j]] = None
  <2>0. j \in Nat /\ at[t] \in Nat
    BY <1>2
  <2>1. j >= at[t] /\ j # at[t]
    BY <1>5, <2>0
  <2>2. accounts[Order[j]] = None
    BY <1>5, <2>1 DEF ConvergingInv
  <2>3. Order[j] \in Accounts /\ Order[j] # Account(t)
    BY <1>2, <2>1, Indices DEF Account
  <2> QED
    BY <2>2, <2>3
<1> QED
  BY <1>1, <1>2, <1>3, <1>4, <1>5, ProceedConverges

\* A task's step keeps ConvergingInv.
LEMMA TaskConverges ==
  ASSUME TypeOK, SerialInv, ConvergingInv, NEW t \in Tasks, TaskNext(t)
  PROVE  ConvergingInv'
<1> DEFINE a == Account(t)
<1>1. a \in Accounts /\ Boot \in Tasks
  BY Indices DEF Account, TypeOK, Index, Tasks
<1>2. overlap' = overlap /\ AtWork(t)
  BY DEF TaskNext, Begin, Initialized, Started, StartFailed, Stopped, AtWork
<1>3. CASE overlap
  BY <1>2, <1>3 DEF ConvergingInv
<1>4. CASE ~overlap
  <2>1. \A u \in Tasks \ {t} : pc[u] \in {"idle", "done"}
    BY <1>2, <1>4 DEF SerialInv, AtWork
  <2>2. CASE Begin(t)
    <3>1. CASE t # Boot /\ manager # "running"
      <4>1. pc' = [pc EXCEPT ![t] = "done"] /\ unseen'
        BY <2>2, <3>1 DEF Begin
      <4> QED
        BY <1>1, <2>1, <3>1, <4>1 DEF ConvergingInv, TypeOK
    <3>2. CASE ~(t # Boot /\ manager # "running")
      <4>1. /\ Proceed(t, 1, enabled, adapter)
            /\ config' = [config EXCEPT ![t] = enabled]
            /\ UNCHANGED <<enabled, accounts, status>> /\ pc[t] = "scheduled"
        BY <2>2, <3>2 DEF Begin
      <4>2. config'[t] = enabled
        BY <4>1 DEF TypeOK
      <4>3. \A j \in Index : ~(j < 1)
        BY DEF Index
      <4>4. t = Boot => \A j \in Index : j >= 1 => accounts'[Order[j]] = None
        BY <1>4, <4>1, Indices DEF ConvergingInv
      <4> QED
        BY <1>4, <2>1, <4>1, <4>2, <4>3, <4>4, ProceedConverges DEF AtWork
    <3> QED
      BY <3>1, <3>2
  <2>3. CASE Initialized(t)
    <3>1. /\ pc[t] = "initializing" /\ pc' = [pc EXCEPT ![t] = "starting"]
          /\ UNCHANGED <<overlap, enabled, unseen, at, config, accounts, status>>
      BY <2>3 DEF Initialized
    <3>2. ~Quiet'
      BY <3>1 DEF Quiet, TypeOK
    <3> QED
      BY <1>4, <2>1, <3>1, <3>2 DEF ConvergingInv, Account, TypeOK
  <2>4. CASE Started(t)
    <3>1. /\ pc[t] = "starting" /\ accounts' = [accounts EXCEPT ![a] = t]
          /\ status' = [status EXCEPT ![a] = "started"]
          /\ UNCHANGED <<enabled, unseen, config>>
          /\ Proceed(t, at[t] + 1, config[t], [adapter EXCEPT ![t][a] = "running"])
      BY <2>4 DEF Started
    <3>2. config[t][a] /\ accounts'[a] # None
      BY <1>1, <1>4, <3>1, AccountsAssumption DEF ConvergingInv, TypeOK
    <3>3. Agrees(config[t], accounts', status', a)
      BY <3>2 DEF Agrees
    <3>4. \A b \in Accounts \ {a} : accounts'[b] = accounts[b] /\ status'[b] = status[b]
      BY <3>1 DEF TypeOK
    <3> QED
      BY <1>4, <3>1, <3>3, <3>4, NextAccount
  <2>5. CASE StartFailed(t)
    <3>1. /\ pc[t] \in {"initializing", "starting"} /\ accounts' = accounts
          /\ status' = [status EXCEPT ![a] = "start_failed"]
          /\ UNCHANGED <<enabled, unseen, config>>
          /\ Proceed(t, at[t] + 1, config[t], [adapter EXCEPT ![t][a] = "failed"])
      BY <2>5 DEF StartFailed
    <3>2. Agrees(config[t], accounts', status', a)
      BY <1>1, <3>1 DEF Agrees, TypeOK
    <3>3. \A b \in Accounts \ {a} : accounts'[b] = accounts[b] /\ status'[b] = status[b]
      BY <3>1 DEF TypeOK
    <3> QED
      BY <1>4, <3>1, <3>2, <3>3, NextAccount
  <2>6. CASE Stopped(t)
    <3>1. /\ pc[t] = "stopping" /\ accounts' = [accounts EXCEPT ![a] = None]
          /\ status' = [status EXCEPT ![a] = StopEvent(a)]
          /\ UNCHANGED <<enabled, unseen, config>>
      BY <2>6 DEF Stopped, Unfile
    <3>2. PICK left \in {"stopped", "broken"} :
            Proceed(t, at[t] + 1, config[t], [adapter EXCEPT ![target[t]][a] = left])
      BY <2>6 DEF Stopped
    <3>3. ~config[t][a] /\ accounts'[a] = None
      BY <1>1, <1>4, <3>1 DEF ConvergingInv, TypeOK
    <3>4. Agrees(config[t], accounts', status', a)
      BY <3>3 DEF Agrees
    <3>5. \A b \in Accounts \ {a} : accounts'[b] = accounts[b] /\ status'[b] = status[b]
      BY <3>1 DEF TypeOK
    <3> QED
      BY <1>4, <3>1, <3>2, <3>4, <3>5, NextAccount
  <2> QED
    BY <2>2, <2>3, <2>4, <2>5, <2>6 DEF TaskNext
<1> QED
  BY <1>3, <1>4

\* A change of the configuration is followed by a refresh that starts when all is quiet,
\* or leaves unseen set.
LEMMA OtherConverges ==
  ASSUME TypeOK, ConvergingInv,
         (\E a \in Accounts : Toggle(a)) \/ StopGateway \/ LoopCloses \/ UNCHANGED vars
  PROVE  ConvergingInv'
<1>1. ASSUME NEW a \in Accounts, Toggle(a) PROVE ConvergingInv'
  <2>1. UNCHANGED <<overlap, at, config, accounts, status>>
    BY <1>1 DEF Toggle
  <2>2. CASE overlap
    BY <2>1, <2>2 DEF ConvergingInv
  <2>3. CASE ~overlap /\ manager # "running"
    <3>1. unseen' /\ pc' = pc
      BY <1>1, <2>3 DEF Toggle
    <3> QED
      BY <2>1, <2>3, <3>1 DEF ConvergingInv, Account
  <2>4. CASE ~overlap /\ manager = "running"
    <3>1. PICK r \in Refreshes : pc' = [pc EXCEPT ![r] = "scheduled"]
      BY <1>1, <2>4 DEF Toggle
    <3>2. \A t \in Tasks : pc[t] \in {"idle", "done"}
      BY <1>1, <2>4 DEF Toggle, Quiet
    <3>3. r \in Tasks /\ r # Boot /\ Boot \in Tasks
      BY AccountsAssumption DEF Tasks
    <3>4. \A t \in Tasks : pc'[t] \in {"idle", "done", "scheduled"}
      BY <3>1, <3>2 DEF TypeOK
    <3>5. ~Quiet' /\ pc'[Boot] # "scheduled"
      BY <3>1, <3>2, <3>3 DEF Quiet, TypeOK
    <3> QED
      BY <3>3, <3>4, <3>5 DEF ConvergingInv
  <2> QED
    BY <2>2, <2>3, <2>4
<1>2. CASE StopGateway \/ LoopCloses \/ UNCHANGED vars
  <2>1. UNCHANGED <<overlap, enabled, unseen, pc, at, config, accounts, status>>
    BY <1>2 DEF StopGateway, LoopCloses, vars, taskVars
  <2> QED
    BY <2>1 DEF ConvergingInv, Account, Quiet
<1> QED
  BY <1>1, <1>2

\* Unless refreshes overlap, the connected platforms are those configured whenever no
\* task is at work, but for those that failed to start and changes nothing follows.
THEOREM ConvergenceCorrect == Spec => []Converged
<1>1. Init => ConvergingInv
  <2> SUFFICES ASSUME Init PROVE ConvergingInv
    OBVIOUS
  <2>1. Boot \in Tasks /\ pc[Boot] = "scheduled" /\ \A t \in Tasks : pc[t] \in {"idle", "scheduled"}
    BY DEF Init, Tasks
  <2>2. ~Quiet
    BY <2>1 DEF Quiet
  <2>3. \A a \in Accounts : accounts[a] = None
    BY DEF Init
  <2> QED
    BY <2>1, <2>2, <2>3 DEF ConvergingInv
<1>2. TypeOK /\ SerialInv /\ ConvergingInv /\ [Next]_vars => ConvergingInv'
  BY TaskConverges, OtherConverges DEF Next
<1>3. ConvergingInv => Converged
  BY DEF ConvergingInv, Converged, Agrees
<1> QED
  BY <1>1, <1>2, <1>3, SerialKept, TypeCorrect, PTL DEF Spec

-----------------------------------------------------------------------------
(* Every task comes to an end *)

\* What lies before a task: the accounts from the one it works on to the last, two
\* waits for each.
Left(t) ==
    IF pc[t] = "idle" THEN 2 * Len(Order) + 2
    ELSE IF pc[t] = "scheduled" THEN 2 * Len(Order) + 1
    ELSE IF pc[t] = "initializing" THEN 2 * (Len(Order) - at[t]) + 2
    ELSE IF pc[t] = "done" THEN 0
    ELSE 2 * (Len(Order) - at[t]) + 1

\* A task's own step brings it nearer to its end, and no step of another task, of
\* the GUI or of the manager takes it back.
Approaches ==
    \A t \in Tasks :
        /\ TaskNext(t) => Left(t)' < Left(t)
        /\ Left(t)' <= Left(t)

\* Going on after an account, a task has fewer accounts before it.
LEMMA ProceedApproaches ==
  ASSUME TypeOK, NEW t \in Tasks, NEW i \in Nat \ {0}, NEW cfg, NEW adapters,
         Proceed(t, i, cfg, adapters), i <= Len(Order) + 1
  PROVE  /\ Left(t)' <= 2 * (Len(Order) + 1 - i)
         /\ \A u \in Tasks \ {t} : Left(u)' = Left(u)
<1>1. CASE Ends(t, adapters)
  <2>1. pc' = [pc EXCEPT ![t] = "done"] /\ at' = at
    BY <1>1 DEF Ends
  <2>2. pc'[t] = "done" /\ \A u \in Tasks \ {t} : pc'[u] = pc[u] /\ at'[u] = at[u]
    BY <2>1 DEF TypeOK
  <2> QED
    BY <2>2, Indices DEF Left
<1>2. ASSUME NEW j \in Index, j >= i, StartsAt(t, j, adapters) \/ StopsAt(t, j, adapters)
      PROVE  /\ Left(t)' <= 2 * (Len(Order) + 1 - i)
             /\ \A u \in Tasks \ {t} : Left(u)' = Left(u)
  <2>1. /\ at' = [at EXCEPT ![t] = j]
        /\ pc' = [pc EXCEPT ![t] = "initializing"] \/ pc' = [pc EXCEPT ![t] = "stopping"]
    BY <1>2 DEF StartsAt, StopsAt
  <2>2. /\ at'[t] = j /\ pc'[t] \in {"initializing", "stopping"}
        /\ \A u \in Tasks \ {t} : pc'[u] = pc[u] /\ at'[u] = at[u]
    BY <2>1 DEF TypeOK
  <2>3. Left(t)' <= 2 * (Len(Order) - j) + 2
    BY <2>2, Indices DEF Left, Index
  <2>4. 2 * (Len(Order) - j) + 2 <= 2 * (Len(Order) + 1 - i)
    <3>1. j \in Nat /\ j >= i /\ Len(Order) \in Nat
      BY <1>2, Indices DEF Index
    <3>2. \A n, k, l \in Nat : k >= l => 2 * (n - k) + 2 <= 2 * (n + 1 - l)
      OBVIOUS
    <3> QED
      BY <3>1, <3>2
  <2>5. \A u \in Tasks \ {t} : Left(u)' = Left(u)
    BY <2>2 DEF Left
  <2>6. Left(t)' \in Int
    <3>1. j \in Nat /\ Len(Order) \in Nat
      BY Indices DEF Index
    <3>2. Left(t)' \in {2 * (Len(Order) - j) + 2, 2 * (Len(Order) - j) + 1}
      BY <2>2 DEF Left
    <3> QED
      BY <3>1, <3>2
  <2> QED
    BY <2>3, <2>4, <2>5, <2>6, Indices DEF Index
<1> QED
  BY <1>1, <1>2, ProceedWays

\* A task's step brings it nearer to its end and leaves the others where they are.
LEMMA TaskApproaches ==
  ASSUME TypeOK, NEW t \in Tasks, TaskNext(t)
  PROVE  Left(t)' < Left(t) /\ \A u \in Tasks \ {t} : Left(u)' = Left(u)
<1>1. at[t] \in Index /\ Len(Order) \in Nat /\ at[t] + 1 \in Nat \ {0} /\ at[t] + 1 <= Len(Order) + 1
  BY Indices DEF TypeOK, Index
<1>2. CASE Begin(t)
  <2>1. Left(t) = 2 * Len(Order) + 1
    BY <1>2 DEF Begin, Left
  <2>2. CASE t # Boot /\ manager # "running"
    <3>1. pc' = [pc EXCEPT ![t] = "done"] /\ at' = at
      BY <1>2, <2>2 DEF Begin
    <3>2. pc'[t] = "done" /\ \A u \in Tasks \ {t} : pc'[u] = pc[u] /\ at'[u] = at[u]
      BY <3>1 DEF TypeOK
    <3> QED
      BY <1>1, <2>1, <3>2 DEF Left
  <2>3. CASE ~(t # Boot /\ manager # "running")
    <3>1. Proceed(t, 1, enabled, adapter)
      BY <1>2, <2>3 DEF Begin
    <3>2. Left(t)' <= 2 * (Len(Order) + 1 - 1) /\ \A u \in Tasks \ {t} : Left(u)' = Left(u)
      BY <1>1, <3>1, ProceedApproaches
    <3>3. Left(t)' \in Int
      BY <1>2, <3>1, TaskType DEF TaskNext, TypeOK, Left
    <3> QED
      BY <1>1, <2>1, <3>2, <3>3
  <2> QED
    BY <2>2, <2>3
<1>3. CASE Initialized(t)
  <2>1. pc[t] = "initializing" /\ pc' = [pc EXCEPT ![t] = "starting"] /\ at' = at
    BY <1>3 DEF Initialized
  <2>2. pc'[t] = "starting" /\ at'[t] = at[t]
        /\ \A u \in Tasks \ {t} : pc'[u] = pc[u] /\ at'[u] = at[u]
    BY <2>1 DEF TypeOK
  <2>3. Left(t)' = 2 * (Len(Order) - at[t]) + 1 /\ Left(t) = 2 * (Len(Order) - at[t]) + 2
    BY <2>1, <2>2 DEF Left
  <2>4. \A u \in Tasks \ {t} : Left(u)' = Left(u)
    BY <2>2 DEF Left
  <2> QED
    BY <1>1, <2>3, <2>4 DEF Index
<1>4. CASE Started(t) \/ StartFailed(t) \/ Stopped(t)
  <2>1. pc[t] \in {"initializing", "starting", "stopping"}
    BY <1>4 DEF Started, StartFailed, Stopped
  <2>2. Left(t) >= 2 * (Len(Order) - at[t]) + 1 /\ Left(t) \in Int
    BY <1>1, <2>1 DEF Left, Index
  <2>3. PICK adapters : Proceed(t, at[t] + 1, config[t], adapters)
    BY <1>4 DEF Started, StartFailed, Stopped
  <2>4. /\ Left(t)' <= 2 * (Len(Order) + 1 - (at[t] + 1))
        /\ \A u \in Tasks \ {t} : Left(u)' = Left(u)
    BY <1>1, <2>3, ProceedApproaches
  <2>5. Left(t)' \in Int
    BY <1>1, TaskType DEF TypeOK, Left, Index
  <2> QED
    BY <1>1, <2>2, <2>4, <2>5 DEF Index
<1> QED
  BY <1>2, <1>3, <1>4 DEF TaskNext

\* A task that runs has at most two waits for each account, and every step it takes
\* uses one up: boot and refreshes end, whatever overlaps, if their adapters answer.
THEOREM TasksComeToEnd ==
  Spec => /\ [](\A t \in Tasks : Left(t) \in 0 .. 2 * Len(Order) + 2)
          /\ [][Approaches]_vars
<1>1. TypeOK => \A t \in Tasks : Left(t) \in 0 .. 2 * Len(Order) + 2
  <2> SUFFICES ASSUME TypeOK, NEW t \in Tasks PROVE Left(t) \in 0 .. 2 * Len(Order) + 2
    OBVIOUS
  <2>1. at[t] \in Index /\ Len(Order) \in Nat
    BY Indices DEF TypeOK, Index
  <2> QED
    BY <2>1 DEF Left, Index
<1>2. TypeOK /\ [Next]_vars => [Approaches]_vars
  <2> SUFFICES ASSUME TypeOK, Next PROVE Approaches
    OBVIOUS
  <2>1. \A t \in Tasks : Left(t) \in Int
    BY <1>1, Indices
  <2>2. ASSUME NEW u \in Tasks, TaskNext(u)
        PROVE  \A t \in Tasks : Left(t)' <= Left(t)
    <3> SUFFICES ASSUME NEW t \in Tasks PROVE Left(t)' <= Left(t)
      OBVIOUS
    <3>1. Left(u)' < Left(u) /\ \A v \in Tasks \ {u} : Left(v)' = Left(v)
      BY <2>2, TaskApproaches
    <3>2. Left(u)' \in Int
      <4>1. TypeOK'
        BY <2>2, TaskType
      <4>2. at'[u] \in Index /\ Len(Order) \in Nat
        BY <4>1, Indices DEF TypeOK, Index
      <4> QED
        BY <4>2 DEF Left, Index
    <3> QED
      BY <2>1, <3>1, <3>2
  <2>3. ASSUME NEW a \in Accounts, Toggle(a)
        PROVE  \A t \in Tasks : Left(t)' <= Left(t)
    <3> SUFFICES ASSUME NEW t \in Tasks PROVE Left(t)' <= Left(t)
      OBVIOUS
    <3>1. at' = at
      BY <2>3 DEF Toggle
    <3>2. pc'[t] = pc[t] \/ (pc[t] = "idle" /\ pc'[t] = "scheduled")
      <4>1. CASE pc' = pc
        BY <4>1
      <4>2. ASSUME NEW r \in Refreshes, pc[r] = "idle", pc' = [pc EXCEPT ![r] = "scheduled"]
            PROVE  pc'[t] = pc[t] \/ (pc[t] = "idle" /\ pc'[t] = "scheduled")
        BY <4>2 DEF TypeOK
      <4> QED
        BY <2>3, <4>1, <4>2 DEF Toggle
    <3>3. CASE pc'[t] = pc[t]
      BY <2>1, <3>1, <3>3 DEF Left
    <3>4. CASE pc[t] = "idle" /\ pc'[t] = "scheduled"
      <4>1. Left(t) = 2 * Len(Order) + 2 /\ Left(t)' = 2 * Len(Order) + 1
        BY <3>4 DEF Left
      <4> QED
        BY <4>1, Indices
    <3> QED
      BY <3>2, <3>3, <3>4
  <2>4. ASSUME StopGateway \/ LoopCloses
        PROVE  \A t \in Tasks : Left(t)' <= Left(t)
    <3>1. pc' = pc /\ at' = at
      BY <2>4 DEF StopGateway, LoopCloses, taskVars
    <3> QED
      BY <2>1, <3>1 DEF Left
  <2>5. \A t \in Tasks : Left(t)' <= Left(t)
    BY <2>2, <2>3, <2>4 DEF Next
  <2>6. \A t \in Tasks : TaskNext(t) => Left(t)' < Left(t)
    BY TaskApproaches
  <2> QED
    BY <2>5, <2>6 DEF Approaches
<1> QED
  BY <1>1, <1>2, TypeCorrect, PTL DEF Spec

\* The flaw OneAdapterRuns shows is one of overlapping refreshes alone: while they
\* wait for each other, no platform is connected twice, at boot or later.
THEOREM OneAdapterWithoutOverlap == Spec => [](~overlap => OneAdapterRuns)
<1>1. RunningIsFiled => (~overlap => OneAdapterRuns)
  <2> SUFFICES ASSUME RunningIsFiled, ~overlap, NEW a \in Accounts
               PROVE  Cardinality({t \in Tasks : adapter[t][a] = "running"}) <= 1
    BY DEF OneAdapterRuns
  <2>1. \A t \in {u \in Tasks : adapter[u][a] = "running"} : t = accounts[a]
    BY DEF RunningIsFiled
  <2> HIDE DEF Tasks
  <2> DEFINE R == {t \in Tasks : adapter[t][a] = "running"}
  <2>2. CASE R = {}
    <3>1. Cardinality(R) = 0
      BY <2>2, FS_EmptySet
    <3> QED
      BY <3>1
  <2>3. CASE R # {}
    <3>1. R = {accounts[a]}
      BY <2>1, <2>3
    <3>2. Cardinality(R) = 1
      BY <3>1, FS_Singleton
    <3> QED
      BY <3>2
  <2> QED
    BY <2>2, <2>3
<1> QED
  BY <1>1, RunningCorrect, PTL
=============================================================================
