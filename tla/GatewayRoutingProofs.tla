------------------------ MODULE GatewayRoutingProofs ------------------------
(***************************************************************************)
(* Proofs about GatewayRouting for any number of handlers, agents,         *)
(* sessions and messages.  The bounds of its actions only restrict what    *)
(* happens: nothing here depends on them.                                  *)
(***************************************************************************)
EXTENDS GatewayRouting, SequenceTheorems, FiniteSetTheorems, TLAPS

-----------------------------------------------------------------------------
(* Type correctness *)

\* A handler that serves a socket knows its source: without this a second CONNECT
\* would look up the connection of no source.
ServingHasSource == \A h \in Handlers : phase[h] = "serving" => source[h] \in Agents

TypeInv == TypeOK /\ ServingHasSource

\* The initial state has the declared types, and no handler serves yet.
LEMMA InitType == Init => TypeInv
  BY DEF Init, TypeInv, TypeOK, ServingHasSource, Frames

\* Removing entries from the pool takes away source keys that led to them, and of an entry
\* one key only: which leaves none if that was its only key, and it has a name.
LEMMA Removed ==
  ASSUME TypeOK, NEW A \in SUBSET Agents, PoolRemove(A)
  PROVE  /\ connections' = [a \in Agents |-> IF a \in A THEN None ELSE connections[a]]
         /\ crossed' = crossed
         /\ bySource' \in [Agents -> Agents \cup {None}]
         /\ \A b \in Agents : bySource'[b] # bySource[b] =>
                bySource'[b] = None /\ bySource[b] \in A
         /\ \A a \in A \ {Nameless} : SourceKeys(a) = {a} => bySource'[a] = None
<1> PICK K \in FoundKeys(A) :
         bySource' = [b \in Agents |-> IF b \in K \ {Nameless} THEN None ELSE bySource[b]]
  BY DEF PoolRemove
<1>1. \A b \in K : bySource[b] \in A
  BY DEF FoundKeys
<1>2. ASSUME NEW a \in A \ {Nameless}, SourceKeys(a) = {a}
      PROVE  bySource'[a] = None
  <2>1. a \in K
    BY <1>2 DEF FoundKeys
  <2> QED
    BY <2>1
<1>3. bySource' \in [Agents -> Agents \cup {None}]
  BY DEF TypeOK
<1> QED
  BY <1>1, <1>2, <1>3 DEF PoolRemove, TypeOK

\* A handler that ends removes the entry of its source.
LEMMA FinishRemoves ==
  ASSUME TypeInv, NEW h \in Handlers, Finish(h)
  PROVE  /\ source[h] \in Agents
         /\ connections' = [connections EXCEPT ![source[h]] = None]
         /\ crossed' = crossed
         /\ bySource' \in [Agents -> Agents \cup {None}]
         /\ \A b \in Agents : bySource'[b] # bySource[b] =>
                bySource'[b] = None /\ bySource[b] = source[h]
         /\ /\ connections[source[h]] # None
            /\ source[h] # Nameless
            /\ SourceKeys(source[h]) = {source[h]}
            => bySource'[source[h]] = None
<1> DEFINE a == source[h]
           A == {a} \cap Pooled
<1>1. a \in Agents
  BY DEF Finish, TypeInv, ServingHasSource
<1>2. A \in SUBSET Agents /\ PoolRemove(A) /\ \A b \in A : b = a
  BY <1>1 DEF Finish, Unregister
<1>3. connections[a] # None => a \in A
  BY <1>1 DEF Pooled
<1>4. \A b \in Agents : (b \in A) = (b = a /\ connections[b] # None)
  BY DEF Pooled
<1> HIDE DEF A
<1>5. connections' = [b \in Agents |-> IF b \in A THEN None ELSE connections[b]]
  BY <1>2, Removed DEF TypeInv
<1>6. connections' = [connections EXCEPT ![a] = None]
  BY <1>1, <1>4, <1>5 DEF TypeInv, TypeOK
<1> QED
  BY <1>1, <1>2, <1>3, <1>6, Removed DEF TypeInv

\* Every step of the gateway keeps the types.
LEMMA NextType ==
  ASSUME TypeInv, [Next]_vars
  PROVE  TypeInv'
<1> USE DEF TypeInv, ServingHasSource
<1>1. ASSUME NEW h \in Handlers, NEW a \in Agents, Connect(h, a)
      PROVE  TypeInv'
  <2> <<Ack>> \in Seq(Frames)
    BY DEF Frames
  <2> QED
    BY <1>1 DEF TypeOK, Connect, RegisterSource, peerVars
<1>2. ASSUME NEW h \in Handlers, GiveUp(h)
      PROVE  TypeInv'
  BY <1>2 DEF TypeOK, GiveUp, poolVars, routeVars, peerVars
<1>3. ASSUME NEW h \in Handlers, Finish(h)
      PROVE  TypeInv'
  <2>1. /\ connections' \in [Agents -> Handlers \cup {None}]
        /\ bySource' \in [Agents -> Agents \cup {None}]
        /\ crossed' = crossed
    BY <1>3, FinishRemoves DEF TypeOK
  <2>2. targets' \in SUBSET Agents /\ sessionTarget' \in [Sessions -> Agents \cup {None}]
    BY <1>3 DEF TypeOK, Finish, UnregisterTarget, routeVars
  <2> QED
    BY <1>3, <2>1, <2>2 DEF TypeOK, Finish, Unregister, peerVars
<1>4. ASSUME NEW h \in Handlers, NEW b \in Agents, ConnectAgain(h, b)
      PROVE  TypeInv'
  <2>1. source[h] \in Agents /\ connections[source[h]] \in Handlers
    BY <1>4 DEF TypeOK, ConnectAgain
  <2>2. /\ queue[connections[source[h]]] \in Seq(Frames) /\ Ack \in Frames
        /\ Append(queue[connections[source[h]]], Ack) \in Seq(Frames)
    BY <2>1 DEF TypeOK, Frames
  <2>3. queue' \in [Handlers -> Seq(Frames)]
    BY <1>4, <2>1, <2>2 DEF TypeOK, ConnectAgain
  <2>4. bySource' \in [Agents -> Agents \cup {None}]
    BY <1>4, <2>1 DEF TypeOK, ConnectAgain, RegisterSource
  <2>5. crossed' \in SUBSET Agents
    BY <1>4, <2>1 DEF TypeOK, ConnectAgain
  <2>6. state' \in [Handlers -> {"connecting", "connected", "authenticated",
                                 "error", "disconnected"}]
    BY <1>4 DEF TypeOK, ConnectAgain
  <2> QED
    BY <1>4, <2>3, <2>4, <2>5, <2>6 DEF TypeOK, ConnectAgain, routeVars, peerVars
<1>5. ASSUME NEW h \in Handlers, SendNext(h)
      PROVE  TypeInv'
  <2>1. queue[h] \in Seq(Frames) /\ queue[h] # <<>>
    BY <1>5 DEF TypeOK, SendNext
  <2>2. Tail(queue[h]) \in Seq(Frames)
    BY <2>1
  <2>3. queue' \in [Handlers -> Seq(Frames)]
    BY <1>5, <2>2 DEF TypeOK, SendNext, OtherFrames
  <2>4. state' \in [Handlers -> {"connecting", "connected", "authenticated",
                                 "error", "disconnected"}]
        /\ sendLoop' \in [Handlers -> {"none", "running", "ended"}]
    BY <1>5 DEF TypeOK, SendNext
  <2>5. acked' \in [Handlers -> BOOLEAN] /\ received' \in [Handlers -> SUBSET Messages]
    <3>1. acked' \in [Handlers -> BOOLEAN]
      BY <1>5 DEF TypeOK, SendNext
    <3> DEFINE read == received[h] \cup ({NextFrame(h)} \cap Messages)
    <3>2. received' \in {received, [received EXCEPT ![h] = read]}
      BY <1>5 DEF SendNext
    <3>3. read \in SUBSET Messages
      BY DEF TypeOK
    <3> HIDE DEF read
    <3>4. received' \in [Handlers -> SUBSET Messages]
      BY <3>2, <3>3 DEF TypeOK
    <3> QED
      BY <3>1, <3>4
  <2>6. fate' \in [Messages -> {"new", "queued", "refused", "received", "lost",
                                "answered", "unanswered"}]
    BY <1>5 DEF TypeOK, SendNext
  <2> QED
    BY <1>5, <2>3, <2>4, <2>5, <2>6 DEF TypeOK, SendNext, poolVars, routeVars
<1>6. ASSUME NEW h \in Handlers, Beat(h)
      PROVE  TypeInv'
  <2>1. queue[h] \in Seq(Frames) /\ Ping \in Frames
    BY DEF TypeOK, Frames
  <2>2. Append(queue[h], Ping) \in Seq(Frames)
    BY <2>1
  <2> QED
    BY <1>6, <2>2 DEF TypeOK, Beat, poolVars, routeVars, peerVars
<1>7. ASSUME NEW h \in Handlers, NEW m \in Messages, Reply(h, m)
      PROVE  TypeInv'
  <2>1. fate' \in [Messages -> {"new", "queued", "refused", "received", "lost",
                                "answered", "unanswered"}]
    BY <1>7 DEF TypeOK, Reply
  <2> QED
    BY <1>7, <2>1 DEF TypeOK, Reply, connVars, poolVars, routeVars
<1>8. ASSUME NEW h \in Handlers, PeerVanishes(h) \/ SocketCloses(h)
      PROVE  TypeInv'
  BY <1>8 DEF TypeOK, PeerVanishes, SocketCloses, poolVars, routeVars, peerVars
<1>9. ASSUME NEW m \in Messages, Route(m)
      PROVE  TypeInv'
  <2> PICK a \in Candidates(SessionOf[m]) \ {Nameless} :
        /\ sessionTarget' = [sessionTarget EXCEPT ![SessionOf[m]] = a]
        /\ IF Sendable(a)
           THEN LET h == connections[bySource[a]] IN
                /\ queue' = [queue EXCEPT ![h] = Append(@, m)]
                /\ sentTo' = [sentTo EXCEPT ![m] = h]
                /\ fate' = [fate EXCEPT ![m] = "queued"]
           ELSE /\ fate' = [fate EXCEPT ![m] = "refused"]
                /\ UNCHANGED <<queue, sentTo>>
        /\ UNCHANGED <<gate, phase, link, source, state, sendLoop, heartbeat,
                       poolVars, targets, received, acked>>
    BY <1>9 DEF Route
  <2>1. a \in Agents
    BY RoutingAssumption DEF Candidates, TypeOK
  <2>2. CASE Sendable(a)
    <3> DEFINE h == connections[bySource[a]]
    <3>1. h \in Handlers
      BY <2>1, <2>2 DEF TypeOK, Sendable
    <3>2. queue[h] \in Seq(Frames) /\ m \in Frames
      BY <3>1 DEF TypeOK, Frames
    <3>3. Append(queue[h], m) \in Seq(Frames)
      BY <3>2
    <3>4. /\ queue' = [queue EXCEPT ![h] = Append(queue[h], m)]
          /\ sentTo' = [sentTo EXCEPT ![m] = h]
          /\ fate' = [fate EXCEPT ![m] = "queued"]
      BY <2>2
    <3> HIDE DEF h
    <3>5. queue' \in [Handlers -> Seq(Frames)]
      BY <3>1, <3>3, <3>4 DEF TypeOK
    <3>6. /\ sentTo' \in [Messages -> Handlers \cup {None}]
          /\ fate' \in [Messages -> {"new", "queued", "refused", "received", "lost",
                                     "answered", "unanswered"}]
      BY <3>1, <3>4 DEF TypeOK
    <3>7. sessionTarget' \in [Sessions -> Agents \cup {None}]
      BY <2>1 DEF TypeOK
    <3> QED
      BY <3>5, <3>6, <3>7 DEF TypeOK, poolVars
  <2>3. CASE ~Sendable(a)
    BY <2>1, <2>3 DEF TypeOK, poolVars
  <2> QED
    BY <2>2, <2>3
<1>10. ASSUME NEW m \in Messages, RouteNowhere(m)
       PROVE  TypeInv'
  BY <1>10 DEF TypeOK, RouteNowhere, connVars, poolVars, routeVars
<1>11. ASSUME BeginShutdown
       PROVE  TypeInv'
  BY <1>11 DEF TypeOK, BeginShutdown, poolVars, routeVars, peerVars
<1>12. ASSUME FinishShutdown
       PROVE  TypeInv'
  <2>1. /\ connections' \in [Agents -> Handlers \cup {None}]
        /\ bySource' \in [Agents -> Agents \cup {None}]
        /\ crossed' = crossed
    <3>1. Pooled \in SUBSET Agents /\ PoolRemove(Pooled)
      BY <1>12 DEF Pooled, FinishShutdown
    <3> QED
      BY <3>1, Removed DEF TypeOK
  <2> QED
    BY <1>12, <2>1 DEF TypeOK, FinishShutdown, routeVars, peerVars
<1>13. CASE UNCHANGED vars
  BY <1>13 DEF TypeOK, vars, connVars, poolVars, routeVars, peerVars
<1> QED
  BY <1>1, <1>2, <1>3, <1>4, <1>5, <1>6, <1>7, <1>8, <1>9, <1>10, <1>11, <1>12, <1>13
     DEF Next, HandlerNext

\* Every reachable state has the declared types.
THEOREM TypeCorrect == Spec => []TypeOK
<1>1. Spec => []TypeInv
  BY InitType, NextType, PTL DEF Spec
<1> QED
  BY <1>1, PTL DEF TypeInv

-----------------------------------------------------------------------------
(* The pool, the routing table and the session bindings agree *)

\* A source resolves to another one only after a second CONNECT confused the two.
Aliases == \A b \in Agents : bySource[b] \notin {None, b} => {b, bySource[b]} \subseteq crossed

RoutingInv == PooledIsServing /\ RoutingAgrees /\ Aliases

\* Nothing is pooled, registered or bound at the start.
LEMMA InitRouting == Init => RoutingInv
  BY DEF Init, RoutingInv, PooledIsServing, RoutingAgrees, Aliases, Pooled

\* A step that leaves handlers, pool, table and bindings alone keeps RoutingInv.
LEMMA QuietRouting ==
  ASSUME RoutingInv, UNCHANGED <<phase, source, poolVars, routeVars>>
  PROVE  RoutingInv'
  BY DEF RoutingInv, PooledIsServing, RoutingAgrees, Aliases, Pooled, poolVars, routeVars

\* Every step of the gateway keeps RoutingInv: a handler that ends takes its
\* source out of all four structures, even when the pooled connection belongs to
\* a newer handler of the same source.
LEMMA NextRouting ==
  ASSUME TypeInv, RoutingInv, [Next]_vars
  PROVE  RoutingInv'
<1>1. ASSUME NEW h \in Handlers, NEW a \in Agents, Connect(h, a)
      PROVE  RoutingInv'
  <2>1. \A b \in Agents : connections[b] # h
    BY <1>1, RoutingAssumption DEF RoutingInv, PooledIsServing, Connect
  <2>2. PooledIsServing'
    BY <1>1, <2>1 DEF TypeInv, TypeOK, RoutingInv, PooledIsServing, Connect
  <2>3. Pooled' = Pooled \cup {a}
    BY <1>1, RoutingAssumption DEF TypeInv, TypeOK, Connect, Pooled
  <2>4. /\ bySource' = [bySource EXCEPT ![a] = a] /\ targets' = targets \cup {a}
        /\ UNCHANGED <<crossed, sessionTarget>>
    BY <1>1 DEF Connect, RegisterSource
  <2>5. RoutingAgrees'
    BY <2>3, <2>4 DEF TypeInv, TypeOK, RoutingInv, RoutingAgrees
  <2>6. Aliases'
    BY <2>4 DEF TypeInv, TypeOK, RoutingInv, Aliases
  <2> QED
    BY <2>2, <2>5, <2>6 DEF RoutingInv
<1>2. ASSUME NEW h \in Handlers, GiveUp(h)
      PROVE  RoutingInv'
  <2>1. \A b \in Agents : connections[b] # h
    BY <1>2, RoutingAssumption DEF RoutingInv, PooledIsServing, GiveUp
  <2>2. PooledIsServing'
    BY <1>2, <2>1 DEF TypeInv, TypeOK, RoutingInv, PooledIsServing, GiveUp, poolVars
  <2>3. RoutingAgrees' /\ Aliases'
    BY <1>2 DEF RoutingInv, RoutingAgrees, Aliases, Pooled, GiveUp, poolVars, routeVars
  <2> QED
    BY <2>2, <2>3 DEF RoutingInv
<1>3. ASSUME NEW h \in Handlers, Finish(h)
      PROVE  RoutingInv'
  <2> DEFINE a == source[h]
  <2>1. /\ a \in Agents
        /\ connections' = [connections EXCEPT ![a] = None]
        /\ crossed' = crossed
        /\ \A b \in Agents : bySource'[b] # bySource[b] => bySource'[b] = None /\ bySource[b] = a
        /\ connections[a] # None /\ a # Nameless /\ SourceKeys(a) = {a} => bySource'[a] = None
    BY <1>3, FinishRemoves
  <2>2. /\ IF a # Nameless
           THEN /\ targets' = targets \ {a}
                /\ \A s \in Sessions : sessionTarget'[s] =
                      IF sessionTarget[s] = a THEN None ELSE sessionTarget[s]
           ELSE UNCHANGED routeVars
        /\ phase' = [phase EXCEPT ![h] = "closed"]
        /\ source' = source
    BY <1>3 DEF Finish, UnregisterTarget
  <2>3. PooledIsServing'
    BY <2>1, <2>2 DEF TypeInv, TypeOK, RoutingInv, PooledIsServing
  <2>4. Pooled' = Pooled \ {a}
    BY <2>1 DEF TypeInv, TypeOK, Pooled
  <2>5. targets' \ {Nameless} = Pooled' \ {Nameless}
    BY <2>2, <2>4 DEF RoutingInv, RoutingAgrees, routeVars
  <2>6. \A s \in Sessions : sessionTarget'[s] \in (targets' \ {Nameless}) \cup {None}
    BY <2>2 DEF RoutingInv, RoutingAgrees, routeVars
  <2>7. ASSUME NEW b \in Agents \ (crossed' \cup {Nameless})
        PROVE  bySource'[b] = IF b \in Pooled' THEN b ELSE None
    <3>1. b \notin crossed /\ bySource[b] = IF b \in Pooled THEN b ELSE None
      BY <2>1, <2>7 DEF RoutingInv, RoutingAgrees
    <3>2. CASE b # a
      BY <2>1, <2>4, <3>1, <3>2, RoutingAssumption
    <3>3. CASE b = a /\ b \notin Pooled
      BY <2>1, <2>4, <3>1, <3>3, RoutingAssumption
    <3>4. CASE b = a /\ b \in Pooled
      <4>1. SourceKeys(a) = {a}
        BY <2>1, <3>1, <3>4, RoutingAssumption DEF SourceKeys, RoutingInv, Aliases
      <4> QED
        BY <2>1, <2>4, <3>4, <4>1 DEF Pooled
    <3> QED
      BY <3>2, <3>3, <3>4
  <2>8. RoutingAgrees'
    BY <2>5, <2>6, <2>7 DEF RoutingAgrees
  <2>9. Aliases'
    BY <2>1 DEF RoutingInv, Aliases
  <2> QED
    BY <2>3, <2>8, <2>9 DEF RoutingInv
<1>4. ASSUME NEW h \in Handlers, NEW b \in Agents, ConnectAgain(h, b)
      PROVE  RoutingInv'
  <2> DEFINE a == source[h]
  <2>1. a \in Agents /\ a \in Pooled
    BY <1>4 DEF TypeInv, ServingHasSource, ConnectAgain, Pooled
  <2>2. /\ UNCHANGED <<phase, source, connections, targets, sessionTarget>>
        /\ bySource' = IF b = Nameless THEN bySource ELSE [bySource EXCEPT ![b] = a]
        /\ crossed' = IF b \in {Nameless, a} THEN crossed ELSE crossed \cup {b, a}
    BY <1>4 DEF ConnectAgain, RegisterSource, routeVars
  <2>3. PooledIsServing'
    BY <2>2 DEF RoutingInv, PooledIsServing
  <2>4. Pooled' = Pooled
    BY <2>2 DEF Pooled
  <2>5. ASSUME NEW c \in Agents \ (crossed' \cup {Nameless})
        PROVE  bySource'[c] = IF c \in Pooled' THEN c ELSE None
    <3>1. c \notin crossed /\ bySource[c] = IF c \in Pooled THEN c ELSE None
      BY <2>2, <2>5 DEF RoutingInv, RoutingAgrees
    <3>2. CASE b = Nameless \/ c # b
      BY <2>2, <2>4, <3>1, <3>2 DEF TypeInv, TypeOK
    <3>3. CASE b # Nameless /\ c = b
      BY <2>1, <2>2, <2>4, <2>5, <3>3 DEF TypeInv, TypeOK
    <3> QED
      BY <3>2, <3>3
  <2>6. RoutingAgrees'
    BY <2>2, <2>4, <2>5 DEF RoutingInv, RoutingAgrees
  <2>7. Aliases'
    BY <2>1, <2>2 DEF TypeInv, TypeOK, RoutingInv, Aliases
  <2> QED
    BY <2>3, <2>6, <2>7 DEF RoutingInv
<1>5. ASSUME NEW h \in Handlers,
             \/ SendNext(h) \/ Beat(h) \/ PeerVanishes(h) \/ SocketCloses(h)
             \/ \E m \in Messages : Reply(h, m)
      PROVE  RoutingInv'
  BY <1>5, QuietRouting DEF SendNext, Beat, PeerVanishes, SocketCloses, Reply,
                            connVars, poolVars
<1>6. ASSUME NEW m \in Messages, Route(m)
      PROVE  RoutingInv'
  <2>1. PICK a \in Candidates(SessionOf[m]) \ {Nameless} :
          /\ sessionTarget' = [sessionTarget EXCEPT ![SessionOf[m]] = a]
          /\ UNCHANGED <<phase, source, poolVars, targets>>
    BY <1>6 DEF Route
  <2>2. a \in targets \ {Nameless}
    BY RoutingAssumption DEF Candidates, RoutingInv, RoutingAgrees
  <2>3. PooledIsServing' /\ Aliases'
    BY <2>1 DEF RoutingInv, PooledIsServing, Aliases, poolVars
  <2>4. Pooled' = Pooled
    BY <2>1 DEF Pooled, poolVars
  <2>5. RoutingAgrees'
    BY <2>1, <2>2, <2>4 DEF TypeInv, TypeOK, RoutingInv, RoutingAgrees, poolVars
  <2> QED
    BY <2>3, <2>5 DEF RoutingInv
<1>7. ASSUME (\E m \in Messages : RouteNowhere(m)) \/ BeginShutdown
      PROVE  RoutingInv'
  BY <1>7, QuietRouting DEF RouteNowhere, BeginShutdown, connVars, poolVars
<1>8. ASSUME FinishShutdown
      PROVE  RoutingInv'
  <2>1. \A a \in Agents : connections[a] = None
    BY <1>8 DEF TypeInv, TypeOK, RoutingInv, PooledIsServing, FinishShutdown
  <2>2. Pooled = {} /\ PoolRemove({})
    BY <1>8, <2>1 DEF Pooled, FinishShutdown
  <2>3. UNCHANGED poolVars
    <3>1. /\ connections' = [a \in Agents |-> IF a \in {} THEN None ELSE connections[a]]
          /\ crossed' = crossed
          /\ bySource' \in [Agents -> Agents \cup {None}]
          /\ \A b \in Agents : bySource'[b] # bySource[b] => bySource[b] \in {}
      BY <2>2, Removed DEF TypeInv
    <3> QED
      BY <3>1 DEF TypeInv, TypeOK, poolVars
  <2> QED
    BY <1>8, <2>3, QuietRouting DEF FinishShutdown
<1>9. CASE UNCHANGED vars
  BY <1>9, QuietRouting DEF vars, connVars, poolVars
<1> QED
  BY <1>1, <1>2, <1>3, <1>4, <1>5, <1>6, <1>7, <1>8, <1>9 DEF Next, HandlerNext

Inv == TypeInv /\ RoutingInv

\* Inv is inductive.
LEMMA Inductive == Spec => []Inv
<1>1. Init => Inv
  BY InitType, InitRouting DEF Inv
<1>2. Inv /\ [Next]_vars => Inv'
  BY NextType, NextRouting DEF Inv
<1> QED
  BY <1>1, <1>2, PTL DEF Spec

\* The pool only holds connections whose handler still serves them.
THEOREM PoolCorrect == Spec => []PooledIsServing
  BY Inductive, PTL DEF Inv, RoutingInv

\* Pool, source index, routing table and session bindings never disagree, but for the
\* target without a name and for sources that were confused with one another.
THEOREM RoutingCorrect == Spec => []RoutingAgrees
  BY Inductive, PTL DEF Inv, RoutingInv

-----------------------------------------------------------------------------
(* A chat keeps its agent *)

\* In any step a bound session keeps its target or the target is unregistered.
LEMMA StickyStep ==
  ASSUME Inv, [Next]_vars, NEW s \in Sessions
  PROVE  \/ sessionTarget[s] \in {None, sessionTarget'[s]}
         \/ sessionTarget[s] \notin targets'
<1>1. CASE \E h \in Handlers : Finish(h)
  BY <1>1 DEF Finish, UnregisterTarget, routeVars
<1>2. CASE \E m \in Messages : Route(m)
  <2> PICK m \in Messages : Route(m)
    BY <1>2
  <2> PICK a \in Candidates(SessionOf[m]) \ {Nameless} :
             sessionTarget' = [sessionTarget EXCEPT ![SessionOf[m]] = a]
    BY DEF Route
  <2> QED
    BY DEF Candidates, Inv, TypeInv, TypeOK
<1>3. CASE UNCHANGED sessionTarget
  BY <1>3
<1> QED
  BY <1>1, <1>2, <1>3
     DEF Next, HandlerNext, vars, connVars, poolVars, routeVars, Connect, GiveUp,
         ConnectAgain, SendNext, Beat, Reply, PeerVanishes, SocketCloses,
         RouteNowhere, BeginShutdown, FinishShutdown

\* "The same session is routed to the same agent" until the agent leaves.
THEOREM SessionsAreSticky == Spec => StickySession
<1>1. Inv /\ [Next]_vars =>
        [\A s \in Sessions :
            \/ sessionTarget[s] \in {None, sessionTarget'[s]}
            \/ sessionTarget[s] \notin targets']_vars
  BY StickyStep
<1> QED
  BY <1>1, Inductive, PTL DEF Spec, StickySession

-----------------------------------------------------------------------------
(* A connection that accepts frames has a running send loop *)

LoopInv ==
    \A a \in Agents :
        connections[a] # None /\ state[connections[a]] = "connected"
            => sendLoop[connections[a]] = "running"

\* Only _send_loop itself and the clean-up of the pooled connection end a loop,
\* and both move the connection out of "connected".
LEMMA NextLoop ==
  ASSUME Inv, LoopInv, [Next]_vars
  PROVE  LoopInv'
<1> USE DEF LoopInv
<1>1. ASSUME NEW h \in Handlers, NEW a \in Agents, Connect(h, a)
      PROVE  LoopInv'
  BY <1>1 DEF Inv, TypeInv, TypeOK, Connect
<1>2. ASSUME NEW h \in Handlers, Finish(h)
      PROVE  LoopInv'
  <2>1. source[h] \in Agents
    BY <1>2 DEF Inv, TypeInv, ServingHasSource, Finish
  <2>2. \A a \in Agents : connections[a] # None => source[connections[a]] = a
    BY DEF Inv, RoutingInv, PooledIsServing
  <2>3. CASE connections[source[h]] = None
    <3>1. /\ connections' = [connections EXCEPT ![source[h]] = None]
          /\ UNCHANGED <<state, sendLoop>>
      BY <1>2, <2>3, FinishRemoves DEF Inv, Finish, Unregister
    <3> QED
      BY <2>1, <2>3, <3>1 DEF Inv, TypeInv, TypeOK
  <2>4. CASE connections[source[h]] # None
    <3> DEFINE i == connections[source[h]]
    <3>1. /\ connections' = [connections EXCEPT ![source[h]] = None]
          /\ state' = [state EXCEPT ![i] = "disconnected"]
          /\ sendLoop' = [sendLoop EXCEPT ![i] = "ended"]
      BY <1>2, <2>4, FinishRemoves DEF Inv, Finish, Unregister
    <3>2. \A a \in Agents : connections'[a] # None =>
            connections'[a] = connections[a] /\ connections[a] # i
      BY <2>1, <2>2, <2>4, <3>1 DEF Inv, TypeInv, TypeOK
    <3> QED
      BY <3>1, <3>2 DEF Inv, TypeInv, TypeOK
  <2> QED
    BY <2>3, <2>4
<1>3. ASSUME NEW h \in Handlers, NEW b \in Agents, ConnectAgain(h, b)
      PROVE  LoopInv'
  BY <1>3 DEF Inv, TypeInv, TypeOK, ConnectAgain
<1>4. ASSUME NEW h \in Handlers, SendNext(h)
      PROVE  LoopInv'
  BY <1>4 DEF Inv, TypeInv, TypeOK, SendNext, poolVars
<1>5. ASSUME FinishShutdown
      PROVE  LoopInv'
  <2>1. \A a \in Agents : connections'[a] = None
    BY <1>5 DEF FinishShutdown, PoolRemove, Pooled
  <2> QED
    BY <2>1
<1>6. CASE UNCHANGED <<connections, state, sendLoop>>
  BY <1>6
<1> QED
  BY <1>1, <1>2, <1>3, <1>4, <1>5, <1>6
     DEF Next, HandlerNext, vars, connVars, poolVars, routeVars, GiveUp, Beat, Reply,
         PeerVanishes, SocketCloses, Route, RouteNowhere, BeginShutdown

\* A message that send() accepts is put in a queue a running loop reads.
THEOREM SendableCorrect == Spec => []SendableHasLoop
<1>1. Init => LoopInv
  BY DEF Init, LoopInv
<1>2. Inv /\ LoopInv => SendableHasLoop
  <2> SUFFICES ASSUME Inv, LoopInv, NEW a \in Agents, Sendable(a)
               PROVE  sendLoop[connections[bySource[a]]] = "running"
    BY DEF SendableHasLoop
  <2>1. bySource[a] \in Agents
    BY DEF Sendable, Inv, TypeInv, TypeOK
  <2> QED
    BY <2>1 DEF LoopInv, Sendable
<1> QED
  BY <1>1, <1>2, NextLoop, Inductive, PTL DEF Spec

-----------------------------------------------------------------------------
(* The acknowledgement comes first *)

\* A handler that registered nothing has no loops; once it has, and until its
\* peer has read an acknowledgement, one heads the queue, unless the socket is gone.
AckInv ==
    \A h \in Handlers :
        /\ phase[h] = "waiting" => source[h] = None
        /\ source[h] = None =>
              sendLoop[h] = "none" /\ heartbeat[h] = "none" /\ received[h] = {}
        /\ ~acked[h] =>
              /\ received[h] = {}
              /\ source[h] # None /\ link[h] = "up" =>
                    queue[h] # <<>> /\ Head(queue[h]) = Ack

\* Appending to a queue whose head is the acknowledgement leaves it the head.
LEMMA AppendKeepsHead ==
  ASSUME NEW S, NEW q \in Seq(S), NEW x \in S, q # <<>>
  PROVE  Append(q, x) # <<>> /\ Head(Append(q, x)) = Head(q)
  OBVIOUS

\* Frames are only appended to the queue of a connection in service.
LEMMA NextAck ==
  ASSUME Inv, AckInv, [Next]_vars
  PROVE  AckInv'
<1> USE DEF AckInv
<1>1. ASSUME NEW h \in Handlers, NEW a \in Agents, Connect(h, a)
      PROVE  AckInv'
  BY <1>1, RoutingAssumption DEF Inv, TypeInv, TypeOK, Connect, peerVars
<1>2. ASSUME NEW h \in Handlers, GiveUp(h)
      PROVE  AckInv'
  BY <1>2 DEF Inv, TypeInv, TypeOK, GiveUp, poolVars, routeVars, peerVars
<1>3. ASSUME NEW h \in Handlers, Finish(h)
      PROVE  AckInv'
  <2>1. source[h] \in Agents /\ phase[h] = "serving" /\ link[h] = "down"
    BY <1>3 DEF Finish, Inv, TypeInv, ServingHasSource
  <2>2. connections[source[h]] # None => source[connections[source[h]]] # None
    BY <2>1, RoutingAssumption DEF Inv, RoutingInv, PooledIsServing
  <2>3. \A k \in Handlers : source[k] = None =>
            sendLoop'[k] = sendLoop[k] /\ heartbeat'[k] = heartbeat[k]
    BY <1>3, <2>1, <2>2 DEF Finish, Unregister, Inv, TypeInv, TypeOK
  <2> QED
    BY <1>3, <2>1, <2>3 DEF Finish, peerVars, Inv, TypeInv, TypeOK
<1>4. ASSUME NEW h \in Handlers, NEW b \in Agents, ConnectAgain(h, b)
      PROVE  AckInv'
  <2> DEFINE i == connections[source[h]]
  <2>1. i \in Handlers /\ phase[i] = "serving"
    BY <1>4 DEF ConnectAgain, Inv, TypeInv, TypeOK, ServingHasSource, RoutingInv, PooledIsServing
  <2>2. queue' = [queue EXCEPT ![i] = Append(queue[i], Ack)]
    BY <1>4 DEF ConnectAgain
  <2>3. queue[i] \in Seq(Frames) /\ Ack \in Frames
    BY <2>1 DEF Inv, TypeInv, TypeOK, Frames
  <2> queue'[i] = Append(queue[i], Ack)
    BY <2>1, <2>2 DEF Inv, TypeInv, TypeOK
  <2>4. queue[i] # <<>> => queue'[i] # <<>> /\ Head(queue'[i]) = Head(queue[i])
    BY <2>3, AppendKeepsHead
  <2>5. \A k \in Handlers : k # i => queue'[k] = queue[k]
    BY <2>2 DEF Inv, TypeInv, TypeOK
  <2> HIDE DEF i
  <2> QED
    BY <1>4, <2>4, <2>5 DEF ConnectAgain, peerVars
<1>5. ASSUME NEW h \in Handlers, SendNext(h)
      PROVE  AckInv'
  <2>1. source[h] # None
    BY <1>5 DEF SendNext, TakesFrames
  <2>2. CASE link[h] = "up"
    <3>1. \A k \in Handlers : k # h => /\ acked'[k] = acked[k]
                                      /\ received'[k] = received[k]
                                      /\ queue'[k] = queue[k]
                                      /\ sendLoop'[k] = sendLoop[k]
      BY <1>5, <2>2 DEF SendNext, Inv, TypeInv, TypeOK
    <3>2. CASE acked[h]
      BY <1>5, <2>1, <2>2, <3>1, <3>2 DEF SendNext, Inv, TypeInv, TypeOK
    <3>3. CASE ~acked[h]
      <4>1. NextFrame(h) = Ack
        BY <2>1, <2>2, <3>3 DEF NextFrame
      <4>2. acked' = [acked EXCEPT ![h] = TRUE]
        BY <1>5, <2>2, <4>1 DEF SendNext
      <4> QED
        BY <1>5, <2>1, <3>1, <4>2 DEF SendNext, Inv, TypeInv, TypeOK
    <3> QED
      BY <3>2, <3>3
  <2>3. CASE link[h] # "up"
    BY <1>5, <2>1, <2>3 DEF SendNext, Inv, TypeInv, TypeOK
  <2> QED
    BY <2>2, <2>3
<1>6. ASSUME NEW h \in Handlers, Beat(h)
      PROVE  AckInv'
  <2>1. queue[h] \in Seq(Frames) /\ Ping \in Frames
    BY DEF Inv, TypeInv, TypeOK, Frames
  <2> queue'[h] \in {queue[h], Append(queue[h], Ping)}
    BY <1>6 DEF Beat, Inv, TypeInv, TypeOK
  <2>2. queue[h] # <<>> => queue'[h] # <<>> /\ Head(queue'[h]) = Head(queue[h])
    BY <2>1, AppendKeepsHead
  <2>3. \A k \in Handlers : k # h => queue'[k] = queue[k]
    BY <1>6 DEF Beat, Inv, TypeInv, TypeOK
  <2>4. \A k \in Handlers : source[k] = None => heartbeat'[k] = heartbeat[k]
    BY <1>6 DEF Beat, Inv, TypeInv, TypeOK
  <2> QED
    BY <1>6, <2>2, <2>3, <2>4 DEF Beat, peerVars
<1>7. ASSUME NEW m \in Messages, Route(m)
      PROVE  AckInv'
  <2> PICK a \in Candidates(SessionOf[m]) \ {Nameless} :
        /\ IF Sendable(a)
           THEN queue' = [queue EXCEPT ![connections[bySource[a]]] = Append(@, m)]
           ELSE queue' = queue
        /\ UNCHANGED <<phase, link, source, sendLoop, heartbeat, received, acked>>
    BY <1>7 DEF Route
  <2>1. a \in Agents
    BY RoutingAssumption DEF Candidates, Inv, TypeInv, TypeOK
  <2>2. CASE Sendable(a)
    <3> DEFINE i == connections[bySource[a]]
    <3>1. i \in Handlers
      BY <2>1, <2>2 DEF Sendable, Inv, TypeInv, TypeOK
    <3>2. queue[i] \in Seq(Frames) /\ m \in Frames
      BY <3>1 DEF Inv, TypeInv, TypeOK, Frames
    <3>3. queue' = [queue EXCEPT ![i] = Append(queue[i], m)]
      BY <2>2
    <3> queue'[i] = Append(queue[i], m)
      BY <3>1, <3>3 DEF Inv, TypeInv, TypeOK
    <3>4. queue[i] # <<>> => queue'[i] # <<>> /\ Head(queue'[i]) = Head(queue[i])
      BY <3>2, AppendKeepsHead
    <3>5. \A k \in Handlers : k # i => queue'[k] = queue[k]
      BY <3>3 DEF Inv, TypeInv, TypeOK
    <3> HIDE DEF i
    <3> QED
      BY <3>4, <3>5
  <2> QED
    BY <2>2
<1>8. ASSUME NEW h \in Handlers, PeerVanishes(h) \/ SocketCloses(h)
      PROVE  AckInv'
  BY <1>8 DEF PeerVanishes, SocketCloses, Inv, TypeInv, TypeOK, peerVars
<1>9. ASSUME BeginShutdown
      PROVE  AckInv'
  BY <1>9 DEF BeginShutdown, peerVars
<1>10. ASSUME FinishShutdown
       PROVE  AckInv'
  <2>1. \A k \in Handlers : source[k] = None =>
            sendLoop'[k] = sendLoop[k] /\ heartbeat'[k] = heartbeat[k]
    BY <1>10, RoutingAssumption
       DEF FinishShutdown, Pooled, Inv, RoutingInv, PooledIsServing, TypeInv, TypeOK
  <2> QED
    BY <1>10, <2>1 DEF FinishShutdown, peerVars
<1>11. CASE UNCHANGED <<connVars, received, acked>>
  BY <1>11 DEF connVars
<1> QED
  BY <1>1, <1>2, <1>3, <1>4, <1>5, <1>6, <1>7, <1>8, <1>9, <1>10, <1>11
     DEF Next, HandlerNext, Reply, RouteNowhere, vars, peerVars

\* No peer reads a chat message before its CONNECT_ACK.
THEOREM AckComesFirst == Spec => []AckBeforeTraffic
<1>1. Init => AckInv
  BY DEF Init, AckInv
<1>2. AckInv => AckBeforeTraffic
  BY DEF AckInv, AckBeforeTraffic
<1> QED
  BY <1>1, <1>2, NextAck, Inductive, PTL DEF Spec

-----------------------------------------------------------------------------
(* A queued message lies in one queue, once *)

Once(q, m) ==
    \E k \in 1 .. Len(q) : q[k] = m /\ \A j \in 1 .. Len(q) : q[j] = m => j = k
Absent(q, m) == \A k \in 1 .. Len(q) : q[k] # m

\* A handler that still waits for its CONNECT has queued nothing, so that registering
\* it drops no message.
QueueInv ==
    \A h \in Handlers :
        /\ phase[h] = "waiting" => queue[h] = <<>>
        /\ \A m \in Messages :
              IF fate[m] = "queued" /\ sentTo[m] = h THEN Once(queue[h], m)
                                                     ELSE Absent(queue[h], m)

\* Putting a frame into a queue, and taking the next one.
LEMMA PutFrame ==
  ASSUME NEW q \in Seq(Frames), NEW x \in Frames, NEW m
  PROVE  /\ Append(q, x) # <<>>
         /\ x # m /\ Once(q, m) => Once(Append(q, x), m)
         /\ x # m /\ Absent(q, m) => Absent(Append(q, x), m)
         /\ x = m /\ Absent(q, m) => Once(Append(q, x), m)
<1> DEFINE r == Append(q, x)
<1>1. /\ r # <<>>
      /\ Len(r) = Len(q) + 1
      /\ \A i \in 1 .. Len(q) : r[i] = q[i]
      /\ r[Len(q) + 1] = x
      /\ Len(q) \in Nat
  BY AppendProperties, LenProperties
<1> HIDE DEF r
<1>2. \A i \in 1 .. Len(r) : i \in 1 .. Len(q) \/ i = Len(q) + 1
  BY <1>1
<1>3. Len(q) + 1 \in 1 .. Len(r) /\ \A i \in 1 .. Len(q) : i \in 1 .. Len(r)
  BY <1>1
<1>4. x # m /\ Once(q, m) => Once(r, m)
  BY <1>1, <1>2, <1>3 DEF Once
<1>5. x # m /\ Absent(q, m) => Absent(r, m)
  BY <1>1, <1>2 DEF Absent
<1>6. x = m /\ Absent(q, m) => Once(r, m)
  BY <1>1, <1>2, <1>3 DEF Once, Absent
<1> QED
  BY <1>1, <1>4, <1>5, <1>6 DEF r

LEMMA TakeFrame ==
  ASSUME NEW q \in Seq(Frames), q # <<>>, NEW m
  PROVE  /\ Head(q) # m /\ Once(q, m) => Once(Tail(q), m)
         /\ Head(q) = m => ~Absent(q, m)
         /\ Head(q) = m /\ Once(q, m) => Absent(Tail(q), m)
         /\ Absent(q, m) => Absent(Tail(q), m)
<1> DEFINE r == Tail(q)
<1>1. /\ Len(r) = Len(q) - 1
      /\ \A i \in 1 .. Len(r) : r[i] = q[i + 1]
      /\ Head(q) = q[1]
      /\ Len(q) \in Nat \ {0}
  BY HeadTailProperties, EmptySeq
<1> HIDE DEF r
<1>2. /\ 1 \in 1 .. Len(q)
      /\ \A i \in 1 .. Len(r) : i + 1 \in 1 .. Len(q) /\ i + 1 # 1
      /\ \A i \in 1 .. Len(q) : i # 1 => i - 1 \in 1 .. Len(r) /\ (i - 1) + 1 = i
  BY <1>1
<1>3. ASSUME Head(q) # m, Once(q, m)
      PROVE  Once(r, m)
  <2>1. PICK k \in 1 .. Len(q) : q[k] = m /\ \A j \in 1 .. Len(q) : q[j] = m => j = k
    BY <1>3 DEF Once
  <2>2. k - 1 \in 1 .. Len(r) /\ r[k - 1] = m
    BY <1>1, <1>2, <1>3, <2>1
  <2>3. \A j \in 1 .. Len(r) : r[j] = m => j = k - 1
    <3> SUFFICES ASSUME NEW j \in 1 .. Len(r), r[j] = m
                 PROVE  j = k - 1
      OBVIOUS
    <3>1. j + 1 = k
      BY <1>1, <1>2, <2>1
    <3> QED
      BY <3>1
  <2> QED
    BY <2>2, <2>3 DEF Once
<1>4. ASSUME Head(q) = m, Once(q, m)
      PROVE  Absent(r, m)
  BY <1>1, <1>2, <1>4 DEF Once, Absent
<1>5. Head(q) = m => ~Absent(q, m)
  BY <1>1, <1>2 DEF Absent
<1>6. Absent(q, m) => Absent(r, m)
  BY <1>1, <1>2 DEF Absent
<1> QED
  BY <1>3, <1>4, <1>5, <1>6 DEF r

\* Queueing an acknowledgement or a PING on a connection in service.
LEMMA ControlFrame ==
  ASSUME Inv, QueueInv, NEW i \in Handlers, phase[i] # "waiting",
         NEW x \in {Ack, Ping}, queue' = [queue EXCEPT ![i] = Append(@, x)],
         UNCHANGED <<phase, fate, sentTo>>
  PROVE  QueueInv'
<1>1. queue[i] \in Seq(Frames) /\ x \in Frames
  BY DEF Inv, TypeInv, TypeOK, Frames
<1>2. \A m \in Messages : /\ Once(queue[i], m) => Once(Append(queue[i], x), m)
                          /\ Absent(queue[i], m) => Absent(Append(queue[i], x), m)
  BY <1>1, PutFrame, RoutingAssumption
<1>3. /\ queue'[i] = Append(queue[i], x)
      /\ \A h \in Handlers : h # i => queue'[h] = queue[h]
  BY DEF Inv, TypeInv, TypeOK
<1> QED
  BY <1>2, <1>3 DEF QueueInv

LEMMA NextQueue ==
  ASSUME Inv, AckInv, QueueInv, [Next]_vars
  PROVE  QueueInv'
<1>1. ASSUME NEW h \in Handlers, NEW a \in Agents, Connect(h, a)
      PROVE  QueueInv'
  <2>1. /\ queue' = [queue EXCEPT ![h] = <<Ack>>]
        /\ phase' = [phase EXCEPT ![h] = "serving"]
        /\ UNCHANGED <<fate, sentTo>>
    BY <1>1 DEF Connect, peerVars
  <2>2. queue[h] = <<>>
    BY <1>1 DEF Connect, QueueInv
  <2>3. \A m \in Messages : ~Once(queue[h], m)
    BY <2>2, EmptySeq DEF Once
  <2>4. \A m \in Messages : Absent(<<Ack>>, m)
    BY RoutingAssumption DEF Absent
  <2> QED
    BY <2>1, <2>3, <2>4 DEF QueueInv, Inv, TypeInv, TypeOK
<1>2. ASSUME NEW h \in Handlers, GiveUp(h) \/ Finish(h) \/ PeerVanishes(h) \/ SocketCloses(h)
      PROVE  QueueInv'
  <2>1. /\ UNCHANGED <<queue, fate, sentTo>>
        /\ \A i \in Handlers : phase'[i] = "waiting" => phase[i] = "waiting"
    BY <1>2 DEF GiveUp, Finish, PeerVanishes, SocketCloses, peerVars, Inv, TypeInv, TypeOK
  <2> QED
    BY <2>1 DEF QueueInv
<1>3. ASSUME NEW h \in Handlers, NEW b \in Agents, ConnectAgain(h, b)
      PROVE  QueueInv'
  <2> DEFINE i == connections[source[h]]
  <2>1. i \in Handlers /\ phase[i] = "serving"
    BY <1>3 DEF ConnectAgain, Inv, TypeInv, TypeOK, ServingHasSource, RoutingInv, PooledIsServing
  <2>2. queue' = [queue EXCEPT ![i] = Append(@, Ack)] /\ UNCHANGED <<phase, fate, sentTo>>
    BY <1>3 DEF ConnectAgain, peerVars
  <2> HIDE DEF i
  <2> QED
    BY <2>1, <2>2, ControlFrame
<1>4. ASSUME NEW h \in Handlers, SendNext(h)
      PROVE  QueueInv'
  <2> DEFINE frame == Head(queue[h])
  <2>1. /\ queue[h] \in Seq(Frames)
        /\ queue[h] # <<>>
        /\ queue' = [queue EXCEPT ![h] = Tail(queue[h])]
        /\ UNCHANGED <<phase, sentTo>>
    BY <1>4 DEF SendNext, OtherFrames, Inv, TypeInv, TypeOK
  <2>2. \A m \in Messages : IF m = frame THEN fate'[m] # "queued" ELSE fate'[m] = fate[m]
    BY <1>4 DEF SendNext, NextFrame
  <2>3. phase[h] # "waiting"
    BY <2>1 DEF QueueInv
  <2>4. ASSUME NEW m \in Messages, NEW i \in Handlers
        PROVE  IF fate'[m] = "queued" /\ sentTo'[m] = i THEN Once(queue'[i], m)
                                                        ELSE Absent(queue'[i], m)
    <3>1. queue'[i] = IF i = h THEN Tail(queue[h]) ELSE queue[i]
      BY <2>1 DEF Inv, TypeInv, TypeOK
    <3>2. IF fate[m] = "queued" /\ sentTo[m] = i THEN Once(queue[i], m)
                                                 ELSE Absent(queue[i], m)
      BY DEF QueueInv
    <3>3. CASE m = frame
      <4>1. fate[m] = "queued" /\ sentTo[m] = h /\ Absent(Tail(queue[h]), m)
        BY <2>1, <3>3, TakeFrame DEF QueueInv
      <4> QED
        BY <2>2, <3>1, <3>2, <3>3, <4>1
    <3>4. CASE m # frame
      <4>1. /\ Once(queue[h], m) => Once(Tail(queue[h]), m)
            /\ Absent(queue[h], m) => Absent(Tail(queue[h]), m)
        BY <2>1, <3>4, TakeFrame
      <4>2. fate'[m] = fate[m] /\ sentTo'[m] = sentTo[m]
        BY <2>1, <2>2, <3>4
      <4> QED
        BY <3>1, <3>2, <4>1, <4>2
    <3> QED
      BY <3>3, <3>4
  <2>5. \A i \in Handlers : phase'[i] = "waiting" => queue'[i] = <<>>
    BY <2>1, <2>3 DEF QueueInv, Inv, TypeInv, TypeOK
  <2> QED
    BY <2>4, <2>5 DEF QueueInv
<1>5. ASSUME NEW h \in Handlers, Beat(h)
      PROVE  QueueInv'
  <2>1. phase[h] # "waiting"
    BY <1>5 DEF Beat, AckInv
  <2>2. UNCHANGED <<phase, fate, sentTo>>
    BY <1>5 DEF Beat, peerVars
  <2>3. CASE queue' = [queue EXCEPT ![h] = Append(@, Ping)]
    BY <2>1, <2>2, <2>3, ControlFrame
  <2>4. CASE queue' = queue
    BY <2>2, <2>4 DEF QueueInv
  <2> QED
    BY <1>5, <2>3, <2>4 DEF Beat
<1>6. ASSUME NEW n \in Messages, Route(n)
      PROVE  QueueInv'
  <2>1. PICK a \in Candidates(SessionOf[n]) \ {Nameless} :
         /\ IF Sendable(a)
            THEN /\ queue' = [queue EXCEPT ![connections[bySource[a]]] = Append(@, n)]
                 /\ sentTo' = [sentTo EXCEPT ![n] = connections[bySource[a]]]
                 /\ fate' = [fate EXCEPT ![n] = "queued"]
            ELSE /\ fate' = [fate EXCEPT ![n] = "refused"]
                 /\ UNCHANGED <<queue, sentTo>>
         /\ phase' = phase
         /\ fate[n] = "new"
    BY <1>6 DEF Route
  <2>2. \A h \in Handlers : Absent(queue[h], n)
    BY <2>1 DEF QueueInv
  <2>3. CASE Sendable(a)
    <3> DEFINE i == connections[bySource[a]]
    <3>1. a \in Agents
      BY RoutingAssumption DEF Candidates, Inv, TypeInv, TypeOK
    <3>2. i \in Handlers /\ phase[i] = "serving"
      BY <2>3, <3>1 DEF Sendable, Inv, TypeInv, TypeOK, RoutingInv, PooledIsServing
    <3>3. /\ queue' = [queue EXCEPT ![i] = Append(@, n)]
          /\ sentTo' = [sentTo EXCEPT ![n] = i]
          /\ fate' = [fate EXCEPT ![n] = "queued"]
      BY <2>1, <2>3
    <3> HIDE DEF i
    <3>4. queue[i] \in Seq(Frames) /\ n \in Frames
      BY <3>2 DEF Inv, TypeInv, TypeOK, Frames
    <3>5. /\ \A m \in Messages : m # n =>
                /\ Once(queue[i], m) => Once(Append(queue[i], n), m)
                /\ Absent(queue[i], m) => Absent(Append(queue[i], n), m)
          /\ Once(Append(queue[i], n), n)
      BY <2>2, <3>2, <3>4, PutFrame
    <3>6. /\ queue'[i] = Append(queue[i], n)
          /\ \A h \in Handlers : h # i => queue'[h] = queue[h]
      BY <3>2, <3>3 DEF Inv, TypeInv, TypeOK
    <3>7. /\ fate'[n] = "queued" /\ sentTo'[n] = i
          /\ \A m \in Messages : m # n => fate'[m] = fate[m] /\ sentTo'[m] = sentTo[m]
      BY <3>3 DEF Inv, TypeInv, TypeOK
    <3>8. ASSUME NEW m \in Messages, NEW h \in Handlers
          PROVE  IF fate'[m] = "queued" /\ sentTo'[m] = h THEN Once(queue'[h], m)
                                                          ELSE Absent(queue'[h], m)
      <4>1. IF fate[m] = "queued" /\ sentTo[m] = h THEN Once(queue[h], m)
                                                   ELSE Absent(queue[h], m)
        BY DEF QueueInv
      <4>2. CASE m = n
        BY <2>2, <3>5, <3>6, <3>7, <4>2
      <4>3. CASE m # n
        BY <3>5, <3>6, <3>7, <4>1, <4>3
      <4> QED
        BY <4>2, <4>3
    <3>9. \A h \in Handlers : phase'[h] = "waiting" => queue'[h] = <<>>
      BY <2>1, <3>2, <3>6 DEF QueueInv
    <3> QED
      BY <3>8, <3>9 DEF QueueInv
  <2>4. CASE ~Sendable(a)
    <3>1. /\ UNCHANGED <<phase, queue, sentTo>>
          /\ fate'[n] # "queued"
          /\ \A m \in Messages : m # n => fate'[m] = fate[m]
      BY <2>1, <2>4 DEF Inv, TypeInv, TypeOK
    <3> QED
      BY <2>2, <3>1 DEF QueueInv
  <2> QED
    BY <2>3, <2>4
<1>7. ASSUME NEW n \in Messages, RouteNowhere(n) \/ \E h \in Handlers : Reply(h, n)
      PROVE  QueueInv'
  <2>1. /\ UNCHANGED <<phase, queue, sentTo>>
        /\ fate[n] # "queued" /\ fate'[n] # "queued"
        /\ \A m \in Messages : m # n => fate'[m] = fate[m]
    BY <1>7 DEF RouteNowhere, Reply, connVars, Inv, TypeInv, TypeOK
  <2> QED
    BY <2>1 DEF QueueInv
<1>8. CASE UNCHANGED <<phase, queue, fate, sentTo>>
  BY <1>8 DEF QueueInv
<1> QED
  BY <1>1, <1>2, <1>3, <1>4, <1>5, <1>6, <1>7, <1>8
     DEF Next, HandlerNext, BeginShutdown, FinishShutdown, vars, connVars, peerVars

\* A message sits in the queue of the connection route() chose, once, until it is
\* taken from it, and in no other queue ever: no message is delivered twice.
THEOREM QueueingCorrect == Spec => []QueuedOnce
<1>1. Init => AckInv /\ QueueInv
  BY EmptySeq DEF Init, AckInv, QueueInv, Absent
<1>2. QueueInv => QueuedOnce
  <2> SUFFICES ASSUME QueueInv, NEW m \in Messages, NEW h \in Handlers
               PROVE  Cardinality(Positions(m, h)) =
                          IF fate[m] = "queued" /\ sentTo[m] = h THEN 1 ELSE 0
    BY DEF QueuedOnce
  <2>1. CASE fate[m] = "queued" /\ sentTo[m] = h
    <3>1. PICK k \in 1 .. Len(queue[h]) :
             queue[h][k] = m /\ \A j \in 1 .. Len(queue[h]) : queue[h][j] = m => j = k
      BY <2>1 DEF QueueInv, Once
    <3>2. Positions(m, h) = {k}
      BY <3>1 DEF Positions
    <3> QED
      BY <2>1, <3>2, FS_Singleton
  <2>2. CASE ~(fate[m] = "queued" /\ sentTo[m] = h)
    <3>1. Positions(m, h) = {}
      BY <2>2 DEF QueueInv, Absent, Positions
    <3> QED
      BY <2>2, <3>1, FS_EmptySet
  <2> QED
    BY <2>1, <2>2
<1> QED
  BY <1>1, <1>2, NextAck, NextQueue, Inductive, PTL DEF Spec

-----------------------------------------------------------------------------
(* The routing implements its abstract specification *)

\* A message that was not routed yet has no connection, and a message's
\* connection has been registered: registering it later would change the agent
\* the message was handed to.
SentInv ==
    \A m \in Messages :
        /\ fate[m] = "new" => sentTo[m] = None
        /\ sentTo[m] # None => phase[sentTo[m]] # "waiting"

\* SentInv is inductive.
LEMMA NextSent ==
  ASSUME Inv, SentInv, [Next]_vars
  PROVE  SentInv'
<1> USE DEF SentInv
<1>1. ASSUME NEW h \in Handlers, NEW a \in Agents, Connect(h, a)
      PROVE  SentInv'
  BY <1>1 DEF Inv, TypeInv, TypeOK, Connect, peerVars
<1>2. ASSUME NEW h \in Handlers, GiveUp(h) \/ Finish(h)
      PROVE  SentInv'
  BY <1>2 DEF Inv, TypeInv, TypeOK, GiveUp, Finish, peerVars
<1>3. ASSUME NEW h \in Handlers, SendNext(h)
      PROVE  SentInv'
  BY <1>3 DEF Inv, TypeInv, TypeOK, SendNext
<1>4. ASSUME NEW h \in Handlers, NEW m \in Messages, Reply(h, m)
      PROVE  SentInv'
  BY <1>4 DEF Inv, TypeInv, TypeOK, Reply, connVars
<1>5. ASSUME NEW m \in Messages, Route(m)
      PROVE  SentInv'
  <2> PICK a \in Candidates(SessionOf[m]) \ {Nameless} :
         /\ IF Sendable(a)
            THEN /\ sentTo' = [sentTo EXCEPT ![m] = connections[bySource[a]]]
                 /\ fate' = [fate EXCEPT ![m] = "queued"]
            ELSE /\ fate' = [fate EXCEPT ![m] = "refused"]
                 /\ sentTo' = sentTo
         /\ phase' = phase
    BY <1>5 DEF Route
  <2>1. a \in Agents
    BY RoutingAssumption DEF Candidates, Inv, TypeInv, TypeOK
  <2>2. Sendable(a) => phase[connections[bySource[a]]] = "serving"
    BY <2>1 DEF Sendable, Inv, TypeInv, TypeOK, RoutingInv, PooledIsServing
  <2> QED
    BY <2>2 DEF Inv, TypeInv, TypeOK
<1>6. ASSUME NEW m \in Messages, RouteNowhere(m)
      PROVE  SentInv'
  BY <1>6 DEF Inv, TypeInv, TypeOK, RouteNowhere, connVars
<1>7. CASE UNCHANGED <<phase, sentTo, fate>>
  BY <1>7
<1>8. ASSUME FinishShutdown
      PROVE  SentInv'
  BY <1>8 DEF FinishShutdown, peerVars
<1> QED
  BY <1>1, <1>2, <1>3, <1>4, <1>5, <1>6, <1>7, <1>8
     DEF Next, HandlerNext, vars, connVars, peerVars, Beat, ConnectAgain,
         PeerVanishes, SocketCloses, BeginShutdown

\* What StickyRouting sees of a state.
Answers == [b \in Agents |-> Resolved(b)]
HandedTo == [m \in Messages |-> IF sentTo[m] = None THEN None ELSE source[sentTo[m]]]

\* Every step is a step of StickyRouting, or changes nothing it sees.
LEMMA StepImplements ==
  ASSUME Inv, SentInv, Inv', [Next]_vars
  PROVE  [Sticky!Next]_(Sticky!vars)
<1>1. ASSUME UNCHANGED <<connections, bySource, sessionTarget, sentTo, source>>
      PROVE  UNCHANGED Sticky!vars
  BY <1>1 DEF Sticky!vars, Pooled, Resolved
<1>2. ASSUME NEW h \in Handlers, NEW a \in Agents, Connect(h, a)
      PROVE  Sticky!Come(a)
  <2>1. Pooled' = Pooled \cup {a}
    BY <1>2, RoutingAssumption DEF Pooled, Connect, Inv, TypeInv, TypeOK
  <2>2. HandedTo' = HandedTo
    BY <1>2 DEF HandedTo, Connect, SentInv, Inv, TypeInv, TypeOK, peerVars
  <2>3. /\ \A b \in Agents : connections'[b] = IF b = a THEN h ELSE connections[b]
        /\ \A b \in Agents : bySource'[b] = IF b = a THEN a ELSE bySource[b]
        /\ h # None /\ a # None
    BY <1>2, RoutingAssumption DEF Connect, RegisterSource, Inv, TypeInv, TypeOK
  <2>4. \A b \in Agents : bySource[b] \in Agents \cup {None}
    BY DEF Inv, TypeInv, TypeOK
  <2>5. \A b \in Agents : Resolved(b)' \in Agents \cup {None}
    BY <2>3, <2>4 DEF Resolved
  <2>6. Resolved(a)' = a
    BY <2>3 DEF Resolved
  <2>7. ASSUME NEW b \in Agents \ {a}
        PROVE  Resolved(b)' = Resolved(b) \/ (Resolved(b) = None /\ Resolved(b)' = a)
    BY <2>3, <2>4 DEF Resolved
  <2>8. /\ Answers' \in [Agents -> Agents \cup {None}]
        /\ Answers'[a] = a
        /\ \A b \in Agents \ {a} :
              Answers'[b] = Answers[b] \/ (Answers[b] = None /\ Answers'[b] = a)
    BY <2>5, <2>6, <2>7 DEF Answers
  <2>9. sessionTarget' = sessionTarget
    BY <1>2 DEF Connect
  <2> QED
    BY <2>1, <2>2, <2>8, <2>9 DEF Sticky!Come, Answers, HandedTo
<1>3. ASSUME NEW h \in Handlers, Finish(h)
      PROVE  \E a \in Agents : Sticky!Leave(a)
  <2> DEFINE a == source[h]
  <2>0. /\ a \in Agents
        /\ connections' = [connections EXCEPT ![a] = None]
        /\ \A b \in Agents : bySource'[b] # bySource[b] => bySource'[b] = None /\ bySource[b] = a
    BY <1>3, FinishRemoves DEF Inv
  <2>1. Pooled' = Pooled \ {a}
    BY <2>0 DEF Pooled, Inv, TypeInv, TypeOK
  <2>2. HandedTo' = HandedTo
    BY <1>3 DEF HandedTo, Finish, peerVars
  <2>3. sessionTarget' = [s \in Sessions |->
                            IF sessionTarget[s] = a THEN None ELSE sessionTarget[s]]
    <3>1. CASE a # Nameless
      BY <1>3, <3>1 DEF Finish, UnregisterTarget
    <3>2. CASE a = Nameless
      <4>1. \A s \in Sessions : sessionTarget[s] # a
        BY <3>2, RoutingAssumption DEF Inv, RoutingInv, RoutingAgrees
      <4> QED
        BY <1>3, <3>2, <4>1 DEF Finish, routeVars, Inv, TypeInv, TypeOK
    <3> QED
      BY <3>1, <3>2
  <2>4. ASSUME NEW b \in Agents
        PROVE  Resolved(b)' = IF Resolved(b) = a THEN None ELSE Resolved(b)
    <3>1. bySource[b] \in Agents \cup {None}
      BY DEF Inv, TypeInv, TypeOK
    <3>2. \A c \in Agents : connections'[c] = IF c = a THEN None ELSE connections[c]
      BY <2>0 DEF Inv, TypeInv, TypeOK
    <3>3. bySource'[b] = bySource[b] \/ (bySource'[b] = None /\ bySource[b] = a)
      BY <2>0
    <3>4. a # None
      BY <2>0, RoutingAssumption
    <3> HIDE DEF a
    <3>5. CASE bySource[b] = a
      BY <2>0, <3>2, <3>3, <3>5 DEF Resolved
    <3>6. CASE bySource[b] # a
      BY <3>1, <3>2, <3>3, <3>4, <3>6 DEF Resolved
    <3> QED
      BY <3>5, <3>6
  <2>5. Answers' = [b \in Agents |-> IF Answers[b] = a THEN None ELSE Answers[b]]
    BY <2>4 DEF Answers
  <2>6. Sticky!Leave(a)
    BY <2>1, <2>2, <2>3, <2>5 DEF Sticky!Leave, Answers, HandedTo
  <2> QED
    BY <2>0, <2>6
<1>4. ASSUME NEW m \in Messages, Route(m)
      PROVE  \E a \in Agents : Sticky!Dispatch(m, a)
  <2> PICK a \in Candidates(SessionOf[m]) \ {Nameless} :
        /\ fate[m] = "new"
        /\ sessionTarget' = [sessionTarget EXCEPT ![SessionOf[m]] = a]
        /\ IF Sendable(a) THEN sentTo' = [sentTo EXCEPT ![m] = connections[bySource[a]]]
                          ELSE sentTo' = sentTo
        /\ connections' = connections /\ bySource' = bySource /\ source' = source
    BY <1>4 DEF Route, poolVars
  <2>1. a \in Agents /\ a \in Pooled
    BY RoutingAssumption
       DEF Candidates, Pooled, Inv, TypeInv, TypeOK, RoutingInv, RoutingAgrees
  <2>2. sessionTarget[SessionOf[m]] \in {None, a}
    BY DEF Candidates
  <2>3. HandedTo[m] = None
    BY DEF HandedTo, SentInv
  <2>4. HandedTo' \in {HandedTo, [HandedTo EXCEPT ![m] = Answers[a]]}
    <3>1. CASE Sendable(a)
      <4> DEFINE h == connections[bySource[a]]
      <4>1. h \in Handlers /\ h # None /\ source[h] = bySource[a] /\ Resolved(a) = bySource[a]
        BY <2>1, <3>1, RoutingAssumption
           DEF Sendable, Resolved, Inv, TypeInv, TypeOK, RoutingInv, PooledIsServing
      <4>2. sentTo' = [sentTo EXCEPT ![m] = h]
        BY <3>1
      <4> HIDE DEF h
      <4>3. \A k \in Messages : sentTo'[k] = IF k = m THEN h ELSE sentTo[k]
        BY <4>2 DEF Inv, TypeInv, TypeOK
      <4>4. HandedTo' = [k \in Messages |-> IF k = m THEN Resolved(a) ELSE HandedTo[k]]
        BY <4>1, <4>3 DEF HandedTo
      <4> QED
        BY <2>1, <4>4 DEF HandedTo, Answers
    <3>2. CASE ~Sendable(a)
      BY <3>2 DEF HandedTo
    <3> QED
      BY <3>1, <3>2
  <2>5. Pooled' = Pooled /\ Answers' = Answers
    BY DEF Pooled, Answers, Resolved
  <2> QED
    BY <2>1, <2>2, <2>3, <2>4, <2>5 DEF Sticky!Dispatch, Answers, HandedTo
<1>5. ASSUME FinishShutdown
      PROVE  UNCHANGED Sticky!vars
  <2>1. \A a \in Agents : connections[a] = None /\ connections'[a] = None
    BY <1>5 DEF FinishShutdown, Inv, TypeInv, TypeOK, RoutingInv, PooledIsServing, PoolRemove, Pooled
  <2>2. Pooled' = Pooled
    BY <2>1 DEF Pooled
  <2>3. \A b \in Agents : Resolved(b) = None /\ Resolved(b)' = None
    BY <2>1 DEF Resolved, Inv, TypeInv, TypeOK
  <2>4. Answers' = Answers
    BY <2>3 DEF Answers
  <2>5. sessionTarget' = sessionTarget /\ HandedTo' = HandedTo
    BY <1>5 DEF FinishShutdown, HandedTo, routeVars, peerVars
  <2> QED
    BY <2>2, <2>4, <2>5 DEF Sticky!vars, Answers, HandedTo
<1>6. CASE \E h \in Handlers, a \in Agents : Connect(h, a)
  BY <1>2, <1>6 DEF Sticky!Next
<1>7. CASE \E h \in Handlers : Finish(h)
  BY <1>3, <1>7 DEF Sticky!Next
<1>8. CASE \E m \in Messages : Route(m)
  BY <1>4, <1>8 DEF Sticky!Next
<1>9. ASSUME NEW h \in Handlers,
             \/ GiveUp(h) \/ SendNext(h) \/ Beat(h) \/ PeerVanishes(h) \/ SocketCloses(h)
             \/ \E m \in Messages : Reply(h, m)
      PROVE  UNCHANGED Sticky!vars
  <2>1. UNCHANGED <<connections, bySource, sessionTarget, sentTo, source>>
    BY <1>9 DEF GiveUp, SendNext, Beat, PeerVanishes, SocketCloses, Reply,
                connVars, poolVars, routeVars, peerVars
  <2> QED
    BY <1>1, <2>1
<1>10. ASSUME (\E m \in Messages : RouteNowhere(m)) \/ BeginShutdown \/ UNCHANGED vars
       PROVE  UNCHANGED Sticky!vars
  <2>1. UNCHANGED <<connections, bySource, sessionTarget, sentTo, source>>
    BY <1>10 DEF RouteNowhere, BeginShutdown, vars, connVars, poolVars, routeVars, peerVars
  <2> QED
    BY <1>1, <2>1
<1>11. ASSUME NEW h \in Handlers, NEW b \in Agents, ConnectAgain(h, b)
       PROVE  [Sticky!Next]_(Sticky!vars)
  <2> DEFINE a == source[h]
  <2>1. /\ a \in Agents /\ a \in Pooled /\ connections[a] # None /\ a # None
        /\ UNCHANGED <<connections, source, sessionTarget, sentTo>>
    BY <1>11, RoutingAssumption
       DEF ConnectAgain, Pooled, Inv, TypeInv, ServingHasSource, routeVars, peerVars
  <2>2. CASE b = Nameless
    BY <1>1, <1>11, <2>1, <2>2 DEF ConnectAgain
  <2>3. CASE b # Nameless
    <3>1. \A c \in Agents : bySource'[c] = IF c = b THEN a ELSE bySource[c]
      BY <1>11, <2>3 DEF ConnectAgain, RegisterSource, Inv, TypeInv, TypeOK
    <3>2. \A c \in Agents : Resolved(c)' = IF c = b THEN a ELSE Resolved(c)
      BY <2>1, <3>1 DEF Resolved
    <3>3. Answers' = [Answers EXCEPT ![b] = a]
      BY <3>2 DEF Answers
    <3>4. Pooled' = Pooled /\ HandedTo' = HandedTo
      BY <2>1 DEF Pooled, HandedTo
    <3>5. Sticky!Claim(a, b)
      BY <2>1, <3>3, <3>4 DEF Sticky!Claim, Answers, HandedTo
    <3> QED
      BY <2>1, <3>5 DEF Sticky!Next
  <2> QED
    BY <2>2, <2>3
<1>12. CASE \E h \in Handlers : HandlerNext(h)
  <2> PICK h \in Handlers : HandlerNext(h)
    BY <1>12
  <2>1. CASE \E a \in Agents : Connect(h, a)
    BY <1>6, <2>1
  <2>2. CASE Finish(h)
    BY <1>7, <2>2
  <2>3. CASE \E b \in Agents : ConnectAgain(h, b)
    BY <1>11, <2>3
  <2> QED
    BY <1>9, <2>1, <2>2, <2>3 DEF HandlerNext
<1> QED
  BY <1>5, <1>8, <1>10, <1>12 DEF Next

\* The gateway's pool, router and queues implement StickyRouting.
THEOREM RoutingImplementsSticky == Spec => ImplementsStickyRouting
<1>1. Init => Sticky!Init /\ SentInv
  BY DEF Init, Sticky!Init, SentInv, Pooled, Resolved
<1> QED
  BY <1>1, NextSent, StepImplements, Inductive, PTL
     DEF Spec, ImplementsStickyRouting, Sticky!Spec

-----------------------------------------------------------------------------
(* What the liveness of the queues rests on *)

\* A running send loop has its heartbeat, which goes on queueing frames for it, pooled
\* or not; a handler ends with its socket closed; and the loop of a pooled connection
\* runs, unless its handler is about to find the socket closed.
ServeInv ==
    \A h \in Handlers :
        /\ sendLoop[h] = "running" => heartbeat[h] = "running" /\ state[h] \in Live
        /\ phase[h] = "closed" => link[h] = "down"
        /\ phase[h] = "serving" /\ connections[source[h]] = h
              => sendLoop[h] = "running" \/ link[h] = "down"

\* A send loop and a heartbeat end together, or the loop by itself, at a closed socket.
LEMMA NextServe ==
  ASSUME Inv, AckInv, ServeInv, [Next]_vars
  PROVE  ServeInv'
<1> USE DEF ServeInv
<1>1. ASSUME NEW h \in Handlers, NEW a \in Agents, Connect(h, a)
      PROVE  ServeInv'
  <2>1. \A k \in Handlers : k # h /\ connections'[source[k]] = k => connections[source[k]] = k
    BY <1>1 DEF Connect, Inv, TypeInv, TypeOK
  <2> QED
    BY <1>1, <2>1 DEF Inv, TypeInv, TypeOK, Connect, Live
<1>2. ASSUME NEW h \in Handlers, GiveUp(h)
      PROVE  ServeInv'
  BY <1>2 DEF Inv, TypeInv, TypeOK, GiveUp, poolVars
<1>3. ASSUME NEW h \in Handlers, Finish(h)
      PROVE  ServeInv'
  <2> DEFINE a == source[h]
             i == connections[a]
  <2>1. /\ a \in Agents /\ link[h] = "down"
        /\ phase' = [phase EXCEPT ![h] = "closed"] /\ UNCHANGED <<link, source>>
        /\ connections' = [connections EXCEPT ![a] = None]
    BY <1>3, FinishRemoves DEF Finish, Inv
  <2>2. \A k \in Handlers : k # h =>
            phase'[k] = phase[k] /\ (connections'[source[k]] = k => connections[source[k]] = k)
    BY <2>1, RoutingAssumption DEF Inv, TypeInv, TypeOK
  <2>3. phase'[h] = "closed" /\ link'[h] = "down"
    BY <2>1 DEF Inv, TypeInv, TypeOK
  <2>4. CASE i = None
    <3>1. UNCHANGED <<state, sendLoop, heartbeat>>
      BY <1>3, <2>4 DEF Finish, Unregister
    <3> QED
      BY <2>1, <2>2, <2>3, <3>1
  <2>5. CASE i # None
    <3>1. /\ state' = [state EXCEPT ![i] = "disconnected"]
          /\ sendLoop' = [sendLoop EXCEPT ![i] = "ended"]
          /\ heartbeat' = [heartbeat EXCEPT ![i] = "ended"]
      BY <1>3, <2>5 DEF Finish, Unregister
    <3>2. i \in Handlers /\ source[i] = a
      BY <2>1, <2>5 DEF Inv, RoutingInv, PooledIsServing, TypeInv, TypeOK
    <3>3. connections'[source'[i]] # i
      BY <2>1, <3>2, RoutingAssumption DEF Inv, TypeInv, TypeOK
    <3>4. /\ sendLoop'[i] = "ended"
          /\ \A k \in Handlers : k # i => /\ state'[k] = state[k]
                                          /\ sendLoop'[k] = sendLoop[k]
                                          /\ heartbeat'[k] = heartbeat[k]
      BY <3>1, <3>2 DEF Inv, TypeInv, TypeOK
    <3> HIDE DEF i, a
    <3> QED
      BY <2>1, <2>2, <2>3, <3>2, <3>3, <3>4
  <2> QED
    BY <2>4, <2>5
<1>4. ASSUME NEW h \in Handlers, NEW b \in Agents, ConnectAgain(h, b)
      PROVE  ServeInv'
  <2>1. /\ state' = [state EXCEPT ![connections[source[h]]] = "authenticated"]
        /\ UNCHANGED <<phase, link, source, connections, sendLoop, heartbeat>>
    BY <1>4 DEF ConnectAgain
  <2> QED
    BY <2>1 DEF Inv, TypeInv, TypeOK, Live
<1>5. ASSUME NEW h \in Handlers, SendNext(h)
      PROVE  ServeInv'
  BY <1>5 DEF Inv, TypeInv, TypeOK, SendNext, poolVars
<1>6. ASSUME NEW h \in Handlers, Beat(h)
      PROVE  ServeInv'
  BY <1>6 DEF Inv, TypeInv, TypeOK, Beat, Beats, poolVars
<1>7. ASSUME NEW h \in Handlers, PeerVanishes(h) \/ SocketCloses(h)
      PROVE  ServeInv'
  BY <1>7 DEF Inv, TypeInv, TypeOK, PeerVanishes, SocketCloses, poolVars
<1>8. CASE BeginShutdown
  BY <1>8 DEF Inv, TypeInv, TypeOK, BeginShutdown, poolVars
<1>9. CASE FinishShutdown
  BY <1>9 DEF Inv, TypeInv, TypeOK, FinishShutdown, PoolRemove
<1>10. CASE UNCHANGED <<phase, link, source, connections, state, sendLoop, heartbeat>>
  BY <1>10
<1> QED
  BY <1>1, <1>2, <1>3, <1>4, <1>5, <1>6, <1>7, <1>8, <1>9, <1>10
     DEF Next, HandlerNext, vars, connVars, poolVars, Reply, Route, RouteNowhere

\* All that is known of loops and queues.
Served == Inv /\ AckInv /\ QueueInv /\ ServeInv

LEMMA ServedInvariant == Spec => []Served
<1>1. Init => AckInv /\ QueueInv /\ ServeInv
  BY EmptySeq DEF Init, AckInv, QueueInv, Absent, ServeInv
<1> QED
  BY <1>1, NextAck, NextQueue, NextServe, Inductive, PTL DEF Spec, Served

\* A send loop that outlives its handler ends at its next frame, and something will send
\* it one.  For at a closed socket every frame ends the loop; and its heartbeat, which
\* nothing has told of the end, is still to queue the next one.
THEOREM OrphansEndAtNextFrame ==
  Spec =>
    /\ [](\A h \in Handlers : phase[h] = "closed" /\ sendLoop[h] = "running" =>
              link[h] = "down" /\ heartbeat[h] = "running" /\ Beats(h))
    /\ [][\A h \in Handlers : phase[h] = "closed" /\ SendNext(h) =>
              sendLoop'[h] = "ended"]_vars
<1>1. Served => \A h \in Handlers : phase[h] = "closed" /\ sendLoop[h] = "running" =>
                    link[h] = "down" /\ heartbeat[h] = "running" /\ Beats(h)
  BY DEF Served, ServeInv, Beats
<1>2. Served => [\A h \in Handlers : phase[h] = "closed" /\ SendNext(h) =>
                     sendLoop'[h] = "ended"]_vars
  BY DEF Served, ServeInv, SendNext, Inv, TypeInv, TypeOK
<1> QED
  BY <1>1, <1>2, ServedInvariant, PTL

\* No frame is overtaken or dropped: it stays where it is in its queue until the send
\* loop takes the first one, and it moves up by that one.
InOrder ==
    \A h \in Handlers, k \in Nat \ {0} : k <= Len(queue[h]) =>
        \/ k <= Len(queue'[h]) /\ queue'[h][k] = queue[h][k]
        \/ SendNext(h) /\ (k > 1 => k - 1 <= Len(queue'[h]) /\ queue'[h][k - 1] = queue[h][k])

\* Where the frames are after one more was put behind them.
LEMMA PutBehind ==
  ASSUME NEW q \in Seq(Frames), NEW x \in Frames, NEW k \in Nat \ {0}, k <= Len(q)
  PROVE  k <= Len(Append(q, x)) /\ Append(q, x)[k] = q[k]
  BY AppendProperties, LenProperties

\* A queue loses a frame to its send loop only, and gets one behind all others.
LEMMA NextInOrder ==
  ASSUME Served, [Next]_vars
  PROVE  InOrder
<1> SUFFICES ASSUME NEW h \in Handlers, NEW k \in Nat \ {0}, k <= Len(queue[h])
             PROVE  \/ k <= Len(queue'[h]) /\ queue'[h][k] = queue[h][k]
                    \/ /\ SendNext(h)
                       /\ k > 1 => k - 1 <= Len(queue'[h]) /\ queue'[h][k - 1] = queue[h][k]
  BY DEF InOrder
<1>0. queue[h] \in Seq(Frames) /\ Ack \in Frames /\ Ping \in Frames /\ Messages \subseteq Frames
  BY DEF Served, Inv, TypeInv, TypeOK, Frames
<1>1. CASE queue'[h] = queue[h]
  BY <1>1
<1>2. ASSUME NEW x \in Frames, queue'[h] = Append(queue[h], x)
      PROVE  k <= Len(queue'[h]) /\ queue'[h][k] = queue[h][k]
  BY <1>0, <1>2, PutBehind
<1>3. ASSUME NEW i \in Handlers, NEW a \in Agents, Connect(i, a)
      PROVE  queue'[h] = queue[h]
  <2>1. queue' = [queue EXCEPT ![i] = <<Ack>>] /\ queue[i] = <<>>
    BY <1>3 DEF Connect, Served, QueueInv
  <2>2. h # i
    BY <2>1, EmptySeq
  <2> QED
    BY <2>1, <2>2 DEF Served, Inv, TypeInv, TypeOK
<1>4. ASSUME NEW i \in Handlers, (\E b \in Agents : ConnectAgain(i, b)) \/ Beat(i)
      PROVE  \E x \in Frames : queue'[h] \in {queue[h], Append(queue[h], x)}
  <2>1. CASE \E b \in Agents : ConnectAgain(i, b)
    <3> DEFINE j == connections[source[i]]
    <3>1. queue' = [queue EXCEPT ![j] = Append(queue[j], Ack)]
      BY <2>1 DEF ConnectAgain
    <3> HIDE DEF j
    <3>2. queue'[h] = IF h = j THEN Append(queue[h], Ack) ELSE queue[h]
      BY <3>1 DEF Served, Inv, TypeInv, TypeOK
    <3> QED
      BY <1>0, <3>2
  <2>2. CASE Beat(i)
    <3>1. queue' = [queue EXCEPT ![i] = Append(queue[i], Ping)] \/ queue' = queue
      BY <2>2 DEF Beat
    <3>2. queue'[h] \in {queue[h], Append(queue[h], Ping)}
      BY <3>1 DEF Served, Inv, TypeInv, TypeOK
    <3> QED
      BY <1>0, <3>2
  <2> QED
    BY <1>4, <2>1, <2>2
<1>5. ASSUME NEW m \in Messages, Route(m)
      PROVE  \E x \in Frames : queue'[h] \in {queue[h], Append(queue[h], x)}
  <2> PICK a \in Candidates(SessionOf[m]) \ {Nameless} :
         \/ queue' = [queue EXCEPT ![connections[bySource[a]]]
                         = Append(queue[connections[bySource[a]]], m)]
         \/ queue' = queue
    BY <1>5 DEF Route
  <2> DEFINE j == connections[bySource[a]]
  <2> HIDE DEF j
  <2>1. queue' = [queue EXCEPT ![j] = Append(queue[j], m)] \/ queue' = queue
    BY DEF j
  <2>2. queue'[h] \in {queue[h], Append(queue[h], m)}
    BY <2>1 DEF Served, Inv, TypeInv, TypeOK
  <2> QED
    BY <1>0, <2>2
<1>6. ASSUME NEW i \in Handlers, SendNext(i)
      PROVE  \/ queue'[h] = queue[h]
             \/ SendNext(h) /\ (k > 1 => k - 1 <= Len(queue'[h])
                                         /\ queue'[h][k - 1] = queue[h][k])
  <2>1. queue' = [queue EXCEPT ![i] = Tail(queue[i])] /\ queue[i] # <<>>
    BY <1>6 DEF SendNext, OtherFrames
  <2>2. CASE h # i
    BY <2>1, <2>2 DEF Served, Inv, TypeInv, TypeOK
  <2>3. CASE h = i
    <3>1. queue'[h] = Tail(queue[h]) /\ queue[h] # <<>>
      BY <2>1, <2>3 DEF Served, Inv, TypeInv, TypeOK
    <3>2. /\ Len(Tail(queue[h])) = Len(queue[h]) - 1 /\ Len(queue[h]) \in Nat
          /\ \A j \in 1 .. Len(Tail(queue[h])) : Tail(queue[h])[j] = queue[h][j + 1]
      BY <1>0, <3>1, HeadTailProperties, LenProperties
    <3>3. k > 1 => k - 1 \in 1 .. Len(Tail(queue[h])) /\ (k - 1) + 1 = k
      BY <3>2
    <3> QED
      BY <1>6, <2>3, <3>1, <3>2, <3>3
  <2> QED
    BY <2>2, <2>3
<1>7. CASE queue' = queue
  BY <1>1, <1>7
<1> QED
  BY <1>1, <1>2, <1>3, <1>4, <1>5, <1>6, <1>7
     DEF Next, HandlerNext, GiveUp, Finish, Reply, PeerVanishes, SocketCloses, RouteNowhere,
         BeginShutdown, FinishShutdown, vars, connVars

\* A message waits on a connection that was registered.
QueuedInv ==
    \A m \in Messages : fate[m] = "queued" =>
        sentTo[m] \in Handlers /\ source[sentTo[m]] \in Agents

\* It gets there from the pool, and no connection registers twice.
LEMMA NextQueued ==
  ASSUME Inv, QueuedInv, [Next]_vars
  PROVE  QueuedInv'
<1> USE DEF QueuedInv
<1>1. ASSUME NEW h \in Handlers, NEW a \in Agents, Connect(h, a)
      PROVE  QueuedInv'
  BY <1>1 DEF Connect, Inv, TypeInv, TypeOK, peerVars
<1>2. ASSUME NEW h \in Handlers, SendNext(h) \/ \E m \in Messages : Reply(h, m)
      PROVE  QueuedInv'
  <2>1. UNCHANGED <<source, sentTo>>
        /\ \A m \in Messages : fate'[m] = "queued" => fate[m] = "queued"
    BY <1>2 DEF SendNext, Reply, connVars, Inv, TypeInv, TypeOK
  <2> QED
    BY <2>1
<1>3. ASSUME NEW m \in Messages, RouteNowhere(m)
      PROVE  QueuedInv'
  BY <1>3 DEF RouteNowhere, connVars, Inv, TypeInv, TypeOK
<1>4. ASSUME NEW m \in Messages, Route(m)
      PROVE  QueuedInv'
  <2> PICK a \in Candidates(SessionOf[m]) \ {Nameless} :
         /\ \/ /\ Sendable(a)
               /\ sentTo' = [sentTo EXCEPT ![m] = connections[bySource[a]]]
               /\ fate' = [fate EXCEPT ![m] = "queued"]
            \/ fate' = [fate EXCEPT ![m] = "refused"] /\ sentTo' = sentTo
         /\ source' = source
    BY <1>4 DEF Route
  <2>1. a \in Agents
    BY RoutingAssumption DEF Candidates, Inv, TypeInv, TypeOK
  <2> DEFINE j == connections[bySource[a]]
  <2>2. Sendable(a) => j \in Handlers /\ source[j] \in Agents
    BY <2>1 DEF Sendable, Inv, TypeInv, TypeOK, RoutingInv, PooledIsServing
  <2>3. \/ /\ j \in Handlers /\ source[j] \in Agents
           /\ sentTo' = [sentTo EXCEPT ![m] = j]
           /\ fate' = [fate EXCEPT ![m] = "queued"]
        \/ fate' = [fate EXCEPT ![m] = "refused"] /\ sentTo' = sentTo
    BY <2>2
  <2> HIDE DEF j
  <2>4. CASE fate' = [fate EXCEPT ![m] = "refused"] /\ sentTo' = sentTo
    BY <2>4 DEF Inv, TypeInv, TypeOK
  <2>5. CASE /\ j \in Handlers /\ source[j] \in Agents
             /\ sentTo' = [sentTo EXCEPT ![m] = j]
             /\ fate' = [fate EXCEPT ![m] = "queued"]
    <3>1. sentTo'[m] = j /\ \A n \in Messages : n # m => /\ sentTo'[n] = sentTo[n]
                                                         /\ fate'[n] = fate[n]
      BY <2>5 DEF Inv, TypeInv, TypeOK
    <3> QED
      BY <2>5, <3>1
  <2> QED
    BY <2>3, <2>4, <2>5
<1>5. CASE UNCHANGED <<source, sentTo, fate>>
  BY <1>5
<1> QED
  BY <1>1, <1>2, <1>3, <1>4, <1>5
     DEF Next, HandlerNext, GiveUp, Finish, ConnectAgain, Beat, PeerVanishes, SocketCloses,
         BeginShutdown, FinishShutdown, vars, connVars, peerVars

\* A queued message whose connection is still pooled has a loop to take it, or the socket
\* is closed and its handler about to give the connection up.
Attended ==
    \A m \in Messages :
        LET h == sentTo[m] IN
        fate[m] = "queued" /\ connections[source[h]] = h =>
            /\ Waits(m, h)
            /\ TakesFrames(h) \/ (phase[h] = "serving" /\ link[h] = "down")

\* A message that was accepted is served in its turn (_send_loop): as long as its
\* connection is pooled it is attended to, and what waits before it only becomes less.
THEOREM QueuedIsServedInOrder == Spec => []Attended /\ [][InOrder]_vars
<1>1. Served /\ QueuedInv => Attended
  <2> SUFFICES ASSUME Served, QueuedInv, NEW m \in Messages, NEW h,
                      h = sentTo[m], fate[m] = "queued", connections[source[h]] = h
               PROVE  /\ Waits(m, h)
                      /\ TakesFrames(h) \/ (phase[h] = "serving" /\ link[h] = "down")
    BY DEF Attended
  <2>1. h \in Handlers /\ source[h] \in Agents
    BY DEF QueuedInv
  <2>2. Waits(m, h)
    BY <2>1 DEF Served, QueueInv, Once, Waits
  <2>3. phase[h] = "serving"
    BY <2>1, RoutingAssumption DEF Served, Inv, RoutingInv, PooledIsServing
  <2>4. TakesFrames(h) \/ link[h] = "down"
    BY <2>1, <2>3 DEF Served, ServeInv, TakesFrames
  <2> QED
    BY <2>2, <2>3, <2>4
<1>2. Served /\ [Next]_vars => [InOrder]_vars
  BY NextInOrder
<1>3. Init => QueuedInv
  BY DEF Init, QueuedInv
<1> QED
  BY <1>1, <1>2, <1>3, NextQueued, ServedInvariant, Inductive, PTL DEF Spec

-----------------------------------------------------------------------------
(* Reconnections in turn *)

\* No pool entry is replaced: an agent connects again only when its last connection
\* has been given up.
InTurn == \A a \in Agents : connections'[a] \in {connections[a], None} \/ connections[a] = None

\* A handler that serves has the pool entry of its source, and only such a handler
\* has a send loop.
OwnsEntry ==
    \A h \in Handlers :
        /\ phase[h] = "serving" => connections[source[h]] = h
        /\ sendLoop[h] = "running" => phase[h] = "serving"

\* A handler that ends in turn removes its own entry and its own tasks.
LEMMA NextOwns ==
  ASSUME Inv, OwnsEntry, [Next]_vars, [InTurn]_vars
  PROVE  OwnsEntry'
<1> USE DEF OwnsEntry
<1>1. ASSUME NEW h \in Handlers, NEW a \in Agents, Connect(h, a)
      PROVE  OwnsEntry'
  <2>1. /\ phase' = [phase EXCEPT ![h] = "serving"] /\ source' = [source EXCEPT ![h] = a]
        /\ connections' = [connections EXCEPT ![a] = h]
        /\ sendLoop' = [sendLoop EXCEPT ![h] = "running"]
        /\ phase[h] = "waiting"
    BY <1>1 DEF Connect
  <2>2. phase' # phase
    BY <2>1 DEF Inv, TypeInv, TypeOK
  <2>3. InTurn
    BY <2>2 DEF vars, connVars
  <2>4. connections'[a] = h /\ h # None
    BY <2>1, RoutingAssumption DEF Inv, TypeInv, TypeOK
  <2>5. connections[a] # h
    BY <2>1, <2>4 DEF Inv, RoutingInv, PooledIsServing
  <2>6. connections[a] = None
    BY <2>3, <2>4, <2>5 DEF InTurn
  <2>7. \A k \in Handlers : k # h /\ phase[k] = "serving" => source[k] # a
    BY <2>6, RoutingAssumption
  <2> QED
    BY <2>1, <2>4, <2>7 DEF Inv, TypeInv, TypeOK, ServingHasSource
<1>2. ASSUME NEW h \in Handlers, GiveUp(h)
      PROVE  OwnsEntry'
  BY <1>2 DEF Inv, TypeInv, TypeOK, GiveUp, poolVars
<1>3. ASSUME NEW h \in Handlers, Finish(h)
      PROVE  OwnsEntry'
  <2>1. phase[h] = "serving" /\ source[h] \in Agents /\ connections[source[h]] = h /\ h # None
    BY <1>3, RoutingAssumption DEF Finish, Inv, TypeInv, ServingHasSource
  <2>2. /\ phase' = [phase EXCEPT ![h] = "closed"] /\ source' = source
        /\ connections' = [connections EXCEPT ![source[h]] = None]
        /\ sendLoop' = [sendLoop EXCEPT ![h] = "ended"]
    BY <1>3, <2>1, FinishRemoves DEF Inv, Finish, Unregister
  <2>3. \A k \in Handlers : k # h /\ phase[k] = "serving" => source[k] # source[h]
    BY <2>1
  <2> QED
    BY <2>2, <2>3 DEF Inv, TypeInv, TypeOK, ServingHasSource
<1>4. ASSUME NEW h \in Handlers, SendNext(h)
      PROVE  OwnsEntry'
  BY <1>4 DEF Inv, TypeInv, TypeOK, SendNext, poolVars
<1>5. CASE FinishShutdown
  BY <1>5 DEF Inv, TypeInv, TypeOK, FinishShutdown, PoolRemove
<1>6. CASE UNCHANGED <<phase, source, connections, sendLoop>>
  BY <1>6
<1> QED
  BY <1>1, <1>2, <1>3, <1>4, <1>5, <1>6
     DEF Next, HandlerNext, vars, connVars, poolVars, ConnectAgain, Beat, PeerVanishes,
         SocketCloses, BeginShutdown, Reply, Route, RouteNowhere

\* The flaw ActiveIsPooled shows is one of reconnecting before the old connection has
\* been given up, and of nothing else: where no entry is replaced, every handler that
\* serves is pooled under its source, and no send loop is left behind by its handler.
THEOREM PooledInTurn ==
  Spec /\ [][InTurn]_vars => [](OwnsEntry /\ ActiveIsPooled)
<1>1. Init => OwnsEntry
  BY DEF Init, OwnsEntry
<1>2. Inv /\ OwnsEntry /\ [Next]_vars /\ [InTurn]_vars => OwnsEntry'
  BY NextOwns
<1>3. OwnsEntry => ActiveIsPooled
  <2> SUFFICES ASSUME OwnsEntry, NEW h \in Handlers, phase[h] = "serving"
               PROVE  connections[source[h]] # None
    BY DEF ActiveIsPooled
  <2> QED
    BY RoutingAssumption DEF OwnsEntry
<1> QED
  BY <1>1, <1>2, <1>3, Inductive, PTL DEF Spec
=============================================================================
