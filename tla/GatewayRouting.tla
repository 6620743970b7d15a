--------------------------- MODULE GatewayRouting ---------------------------
(***************************************************************************)
(* The gateway's WebSocket side: the handler coroutine that serves one     *)
(* accepted socket (Gateway._handle_websocket), the connection pool with   *)
(* its send and heartbeat tasks (ConnectionManager), and the router that   *)
(* assigns a chat session to an agent and queues the chat's messages on    *)
(* that agent's connection (MessageRouter).                                *)
(*                                                                         *)
(* All of it runs on one asyncio event loop.  Between two awaits that can  *)
(* really suspend, code runs without interruption: putting into the        *)
(* unbounded send queues never suspends, so registering a connection,      *)
(* routing a message and a handler's clean-up are each one action here.    *)
(***************************************************************************)
EXTENDS Naturals, Sequences, FiniteSets

CONSTANTS
    Handlers,     \* one per accepted WebSocket: a run of _handle_websocket
    Agents,       \* the sources that connect, as the CONNECT message names them
    Nameless,     \* the empty source of a CONNECT message that names none
    Sessions,     \* chats, i.e. "{channel_type}:{chat_id}"
    Messages,     \* CHANNEL_MESSAGEs the channel adapters hand to the router
    SessionOf,    \* the session a message belongs to
    Ack,          \* the CONNECT_ACK frame
    Ping,         \* the PING frame
    None

ASSUME RoutingAssumption ==
    /\ SessionOf \in [Messages -> Sessions]
    /\ None \notin Handlers \cup Agents \cup {Nameless}
    /\ Ack \notin Messages /\ Ping \notin Messages /\ Ack # Ping

VARIABLES
    gate,           \* Gateway._running and how far shutdown() got
    phase,          \* where the handler coroutine of a socket stands
    link,           \* the socket: "half" when the peer is gone but not noticed
    source,         \* the source the handler read from its first CONNECT
    state,          \* ConnectionInfo.state of the connection it registered
    queue,          \* ConnectionInfo.send_queue
    sendLoop,       \* the _send_loop task of that ConnectionInfo
    heartbeat,      \* its _heartbeat_loop task
    connections,    \* pool._connections; the id "ws:{source}" is the source
    bySource,       \* pool._by_source: a source's id, i.e. again a source
    crossed,        \* history: the sources a connection of one claimed for another
    targets,        \* RoutingTable._targets["agent"]
    sessionTarget,  \* MessageRouter._session_targets
    sentTo,         \* the connection whose queue route() put the message in
    received,       \* what the peer of a handler's socket has read
    acked,          \* whether that peer has read its CONNECT_ACK
    fate            \* what became of a message

connVars == <<phase, link, source, state, queue, sendLoop, heartbeat>>
poolVars == <<connections, bySource, crossed>>
routeVars == <<targets, sessionTarget>>
peerVars == <<sentTo, received, acked, fate>>
vars == <<gate, connVars, poolVars, routeVars, peerVars>>

\* The states in which _send_loop and _heartbeat_loop go on.
Live == {"connected", "authenticated"}

\* The sources whose connection is in the pool.
Pooled == {a \in Agents : connections[a] # None}

Waits(frame, h) == \E k \in 1 .. Len(queue[h]) : queue[h][k] = frame

Init ==
    /\ gate = "open"
    /\ phase = [h \in Handlers |-> "waiting"]
    /\ link = [h \in Handlers |-> "up"]
    /\ source = [h \in Handlers |-> None]
    /\ state = [h \in Handlers |-> "connecting"]
    /\ queue = [h \in Handlers |-> <<>>]
    /\ sendLoop = [h \in Handlers |-> "none"]
    /\ heartbeat = [h \in Handlers |-> "none"]
    /\ connections = [a \in Agents |-> None]
    /\ bySource = [a \in Agents |-> None]
    /\ crossed = {}
    /\ targets = {}
    /\ sessionTarget = [s \in Sessions |-> None]
    /\ sentTo = [m \in Messages |-> None]
    /\ received = [h \in Handlers |-> {}]
    /\ acked = [h \in Handlers |-> FALSE]
    /\ fate = [m \in Messages |-> "new"]

-----------------------------------------------------------------------------
(* The pool, the routing table and the tasks *)

\* ConnectionPool.register_source, for source b and the id of source a; the mutant
\* files the connection object instead of its id.
RegisterSourceObject(b, a) == bySource' = [bySource EXCEPT ![b] = connections'[a]]
RegisterSource(b, a) == bySource' = [bySource EXCEPT ![b] = a]

\* ConnectionPool._find_source_key: the key the entries A are looked up by, each the
\* first one filed with its id.  The order of the index is left open, and an empty key
\* is found like any other but taken for none.
SourceKeys(a) == {b \in Agents : bySource[b] = a}
FoundKeys(A) ==
    {K \in SUBSET Agents :
        /\ \A b \in K : bySource[b] \in A
        /\ \A a \in A : SourceKeys(a) # {} => \E b \in K : K \cap SourceKeys(a) = {b}}

\* ConnectionPool.remove for the ids of the sources A that are pooled; the mutants
\* forget the entry, or the source key.
PoolRemoveKeepsEntry(A) == UNCHANGED poolVars
PoolRemoveKeepsSource(A) ==
    /\ connections' = [a \in Agents |-> IF a \in A THEN None ELSE connections[a]]
    /\ UNCHANGED <<bySource, crossed>>
PoolRemove(A) ==
    /\ connections' = [a \in Agents |-> IF a \in A THEN None ELSE connections[a]]
    /\ \E K \in FoundKeys(A) :
          bySource' = [b \in Agents |-> IF b \in K \ {Nameless} THEN None ELSE bySource[b]]
    /\ UNCHANGED crossed

\* ConnectionManager.unregister: cancel the tasks filed under the id, remove the
\* pool entry.  Both belong to whichever handler registered the id last.
Unregister(a) ==
    LET h == connections[a] IN
    /\ PoolRemove({a} \cap Pooled)
    /\ IF h = None
       THEN UNCHANGED <<state, sendLoop, heartbeat>>
       ELSE /\ state' = [state EXCEPT ![h] = "disconnected"]
            /\ sendLoop' = [sendLoop EXCEPT ![h] = "ended"]
            /\ heartbeat' = [heartbeat EXCEPT ![h] = "ended"]

\* MessageRouter.unregister_target; the mutant keeps the session bindings.
UnregisterTargetOnly(a) ==
    /\ targets' = targets \ {a}
    /\ UNCHANGED sessionTarget
UnregisterTarget(a) ==
    /\ targets' = targets \ {a}
    /\ sessionTarget' = [s \in Sessions |->
                            IF sessionTarget[s] = a THEN None
                                                    ELSE sessionTarget[s]]

-----------------------------------------------------------------------------
(* The handler coroutine of one socket *)

\* The first frame is a CONNECT from source a: register the connection (which
\* replaces the pool entry of a still open one of the same source), start its
\* tasks, register source and routing target, queue the acknowledgement.  Frames
\* that arrived before the socket closed are still read, here and below.
Connect(h, a) ==
    /\ phase[h] = "waiting"
    /\ phase' = [phase EXCEPT ![h] = "serving"]
    /\ source' = [source EXCEPT ![h] = a]
    /\ state' = [state EXCEPT ![h] = "connected"]
    /\ queue' = [queue EXCEPT ![h] = <<Ack>>]
    /\ sendLoop' = [sendLoop EXCEPT ![h] = "running"]
    /\ heartbeat' = [heartbeat EXCEPT ![h] = "running"]
    /\ connections' = [connections EXCEPT ![a] = h]
    /\ RegisterSource(a, a)
    /\ targets' = targets \cup {a}
    /\ UNCHANGED <<gate, link, crossed, sessionTarget, peerVars>>

\* No CONNECT within ten seconds, another first frame, or the socket closed:
\* the handler ends before it registered anything.
GiveUp(h) ==
    /\ phase[h] = "waiting"
    /\ phase' = [phase EXCEPT ![h] = "closed"]
    /\ link' = [link EXCEPT ![h] = "down"]
    /\ UNCHANGED <<gate, source, state, queue, sendLoop, heartbeat,
                   poolVars, routeVars, peerVars>>

\* The receive loop ends with the socket; the finally block unregisters the id
\* and the source, whoever holds them by now.  An empty source is taken for none: its
\* routing target stays.
Finish(h) ==
    /\ phase[h] = "serving"
    /\ link[h] = "down"
    /\ phase' = [phase EXCEPT ![h] = "closed"]
    /\ Unregister(source[h])
    /\ IF source[h] # Nameless THEN UnregisterTarget(source[h]) ELSE UNCHANGED routeVars
    /\ UNCHANGED <<gate, link, source, queue, peerVars>>

\* A CONNECT on a connection that is already served (ConnectionManager
\* ._handle_connect).  It may name another source b than the first one did: b, unless
\* empty, is filed with the id of the handler's own source.  Whichever connection is
\* pooled under that id is acknowledged again and marked authenticated.
ConnectAgain(h, b) ==
    LET i == connections[source[h]] IN
    /\ phase[h] = "serving"
    /\ i # None
    /\ ~Waits(Ack, i)          \* bound: one acknowledgement waits
    /\ queue' = [queue EXCEPT ![i] = Append(@, Ack)]
    /\ state' = [state EXCEPT ![i] = "authenticated"]
    /\ UNCHANGED connections
    /\ IF b = Nameless THEN UNCHANGED bySource ELSE RegisterSource(b, source[h])
    /\ crossed' = IF b \in {Nameless, source[h]} THEN crossed ELSE crossed \cup {b, source[h]}
    /\ UNCHANGED <<gate, phase, link, source, sendLoop, heartbeat, routeVars, peerVars>>

-----------------------------------------------------------------------------
(* The background tasks of one connection *)

\* The loop waits for a frame whatever the live state; the mutant stops taking
\* frames once the connection is authenticated.
TakesFramesOnce(h) == sendLoop[h] = "running" /\ state[h] = "connected"
TakesFrames(h) == sendLoop[h] = "running"

\* asyncio.Queue.get: first in, first out; the mutants return the newest frame,
\* or drop the newest one.
NewestFrame(h) == queue[h][Len(queue[h])]
NextFrame(h) == Head(queue[h])
OldestFrames(h) == SubSeq(queue[h], 1, Len(queue[h]) - 1)
OtherFrames(h) == Tail(queue[h])

\* One turn of _send_loop: take the next frame and write it to the socket.  A
\* closed socket raises: the frame is gone, the connection is in error and the
\* loop ends.  A half-open one swallows the frame.
SendNext(h) ==
    LET frame == NextFrame(h) IN
    /\ TakesFrames(h)
    /\ queue[h] # <<>>
    /\ queue' = [queue EXCEPT ![h] = OtherFrames(h)]
    /\ IF link[h] = "down"
       THEN /\ state' = [state EXCEPT ![h] = "error"]
            /\ sendLoop' = [sendLoop EXCEPT ![h] = "ended"]
       ELSE UNCHANGED <<state, sendLoop>>
    /\ IF link[h] = "up"
       THEN /\ acked' = IF frame = Ack THEN [acked EXCEPT ![h] = TRUE] ELSE acked
            /\ received' = [received EXCEPT ![h] = @ \cup ({frame} \cap Messages)]
            /\ fate' = [m \in Messages |-> IF m = frame THEN "received" ELSE fate[m]]
       ELSE /\ fate' = [m \in Messages |-> IF m = frame THEN "lost" ELSE fate[m]]
            /\ UNCHANGED <<acked, received>>
    /\ UNCHANGED <<gate, phase, link, source, heartbeat, poolVars, routeVars, sentTo>>

\* The mutant lets a heartbeat end with its place in the pool.
BeatsWhilePooled(h) == state[h] \in Live /\ connections[source[h]] = h
Beats(h) == state[h] \in Live

\* One turn of _heartbeat_loop: queue a PING while the connection is live,
\* otherwise end.
Beat(h) ==
    /\ heartbeat[h] = "running"
    /\ IF Beats(h)
       THEN /\ ~Waits(Ping, h)  \* bound: one PING waits
            /\ queue' = [queue EXCEPT ![h] = Append(@, Ping)]
            /\ UNCHANGED heartbeat
       ELSE /\ heartbeat' = [heartbeat EXCEPT ![h] = "ended"]
            /\ UNCHANGED queue
    /\ UNCHANGED <<gate, phase, link, source, state, sendLoop,
                   poolVars, routeVars, peerVars>>

-----------------------------------------------------------------------------
(* Routing *)

\* The agents a session's next message may go to: its agent if it has one,
\* otherwise any registered one (a hash of the session modulo their number).
AnyCandidate(s) == targets      \* the mutant forgets the binding
Candidates(s) == IF sessionTarget[s] # None THEN {sessionTarget[s]} ELSE targets

\* ConnectionManager.send_to_source: the connection pooled for the source, if
\* its state admits sending.  The mutant admits the states the loops admit.
SendableLive(a) ==
    /\ bySource[a] # None
    /\ connections[bySource[a]] # None
    /\ state[connections[bySource[a]]] \in Live
Sendable(a) ==
    /\ bySource[a] # None
    /\ connections[bySource[a]] # None
    /\ state[connections[bySource[a]]] = "connected"

\* MessageRouter._route_to_agent for a message that has a candidate: the session
\* is bound to it before the outcome of the send is known.
Route(m) ==
    \E a \in Candidates(SessionOf[m]) \ {Nameless} :
        /\ fate[m] = "new"
        /\ sessionTarget' = [sessionTarget EXCEPT ![SessionOf[m]] = a]
        /\ IF Sendable(a)
           THEN LET h == connections[bySource[a]] IN
                /\ queue' = [queue EXCEPT ![h] = Append(@, m)]
                /\ sentTo' = [sentTo EXCEPT ![m] = h]
                /\ fate' = [fate EXCEPT ![m] = "queued"]
           ELSE /\ fate' = [fate EXCEPT ![m] = "refused"]
                /\ UNCHANGED <<queue, sentTo>>
        /\ UNCHANGED <<gate, phase, link, source, state, sendLoop, heartbeat,
                       poolVars, targets, received, acked>>

\* No agent is registered, or the hash chooses the target without a name: route()
\* returns False and the message is dropped.
RouteNowhere(m) ==
    /\ fate[m] = "new"
    /\ Candidates(SessionOf[m]) = {} \/ Nameless \in Candidates(SessionOf[m])
    /\ fate' = [fate EXCEPT ![m] = "refused"]
    /\ UNCHANGED <<gate, connVars, poolVars, routeVars, sentTo, received, acked>>

\* The agent's AGENT_RESPONSE arrives on the socket the message came by.
\* handle_message drops it when no connection is pooled under the handler's id;
\* otherwise the router passes it to the channel adapter, which may fail.
Reply(h, m) ==
    /\ phase[h] = "serving"
    /\ m \in received[h]
    /\ fate[m] = "received"
    /\ \/ /\ connections[source[h]] # None
          /\ fate' = [fate EXCEPT ![m] = "answered"]
       \/ fate' = [fate EXCEPT ![m] = "unanswered"]
    /\ UNCHANGED <<gate, connVars, poolVars, routeVars, sentTo, received, acked>>

-----------------------------------------------------------------------------
(* The network and the gateway's shutdown *)

\* The peer disappears without closing the socket.
PeerVanishes(h) ==
    /\ link[h] = "up"
    /\ link' = [link EXCEPT ![h] = "half"]
    /\ UNCHANGED <<gate, phase, source, state, queue, sendLoop, heartbeat,
                   poolVars, routeVars, peerVars>>

\* The socket closes: by the peer, or by the library's keepalive.
SocketCloses(h) ==
    /\ phase[h] = "serving"
    /\ link[h] # "down"
    /\ link' = [link EXCEPT ![h] = "down"]
    /\ UNCHANGED <<gate, phase, source, state, queue, sendLoop, heartbeat,
                   poolVars, routeVars, peerVars>>

\* Gateway.shutdown: close the server, which closes every socket ...
BeginShutdown ==
    /\ gate = "open"
    /\ gate' = "closing"
    /\ link' = [h \in Handlers |-> "down"]
    /\ UNCHANGED <<phase, source, state, queue, sendLoop, heartbeat,
                   poolVars, routeVars, peerVars>>

\* ... wait for its handlers, then ConnectionManager.stop: cancel the tasks
\* still filed and unregister the connections still pooled.
FinishShutdown ==
    LET served == {connections[a] : a \in Pooled} IN
    /\ gate = "closing"
    /\ \A h \in Handlers : phase[h] = "closed"
    /\ gate' = "closed"
    /\ PoolRemove(Pooled)
    /\ state' = [h \in Handlers |-> IF h \in served THEN "disconnected" ELSE state[h]]
    /\ sendLoop' = [h \in Handlers |-> IF h \in served THEN "ended" ELSE sendLoop[h]]
    /\ heartbeat' = [h \in Handlers |-> IF h \in served THEN "ended" ELSE heartbeat[h]]
    /\ UNCHANGED <<phase, link, source, queue, routeVars, peerVars>>

-----------------------------------------------------------------------------
HandlerNext(h) ==
    \/ \E a \in Agents : Connect(h, a) \/ ConnectAgain(h, a)
    \/ GiveUp(h)
    \/ Finish(h)
    \/ SendNext(h)
    \/ Beat(h)
    \/ \E m \in Messages : Reply(h, m)
    \/ PeerVanishes(h)
    \/ SocketCloses(h)

Next ==
    \/ \E h \in Handlers : HandlerNext(h)
    \/ \E m \in Messages : Route(m) \/ RouteNowhere(m)
    \/ BeginShutdown
    \/ FinishShutdown

Spec == Init /\ [][Next]_vars

\* The event loop runs every task that is not waiting: a send loop with frames,
\* a heartbeat whose sleep always ends, and a handler whose socket has closed.
Fairness ==
    \A h \in Handlers : WF_vars(SendNext(h)) /\ WF_vars(Beat(h)) /\ WF_vars(Finish(h))

FairSpec == Spec /\ Fairness

-----------------------------------------------------------------------------
(* Properties *)

Frames == Messages \cup {Ack, Ping}

\* Every variable holds a value of the kind the code keeps there.
TypeOK ==
    /\ gate \in {"open", "closing", "closed"}
    /\ phase \in [Handlers -> {"waiting", "serving", "closed"}]
    /\ link \in [Handlers -> {"up", "half", "down"}]
    /\ source \in [Handlers -> Agents \cup {None}]
    /\ state \in [Handlers -> {"connecting", "connected", "authenticated",
                               "error", "disconnected"}]
    /\ queue \in [Handlers -> Seq(Frames)]
    /\ sendLoop \in [Handlers -> {"none", "running", "ended"}]
    /\ heartbeat \in [Handlers -> {"none", "running", "ended"}]
    /\ connections \in [Agents -> Handlers \cup {None}]
    /\ bySource \in [Agents -> Agents \cup {None}]
    /\ crossed \in SUBSET Agents
    /\ targets \in SUBSET Agents
    /\ sessionTarget \in [Sessions -> Agents \cup {None}]
    /\ sentTo \in [Messages -> Handlers \cup {None}]
    /\ received \in [Handlers -> SUBSET Messages]
    /\ acked \in [Handlers -> BOOLEAN]
    /\ fate \in [Messages -> {"new", "queued", "refused", "received", "lost",
                              "answered", "unanswered"}]

\* The pool never holds the connection of a handler that has ended, nor files a
\* connection under another source than the one it announced: whatever the order
\* in which an old and a new handler of one source end.
PooledIsServing ==
    \A a \in Agents : connections[a] # None =>
        /\ phase[connections[a]] = "serving"
        /\ source[connections[a]] = a

\* Pool, source index, routing table and session bindings agree: but for the target
\* without a name, the routing targets are the pooled sources, and a session is only ever
\* bound to one of them; and a source resolves to its own connection, or to none when that
\* is gone, unless a second CONNECT confused it with another.  They are kept by three
\* classes that update one another by hand.
RoutingAgrees ==
    /\ targets \ {Nameless} = Pooled \ {Nameless}
    /\ \A s \in Sessions : sessionTarget[s] \in (targets \ {Nameless}) \cup {None}
    /\ \A a \in Agents \ (crossed \cup {Nameless}) :
          bySource[a] = IF a \in Pooled THEN a ELSE None

\* A connection that send() accepts frames for has a send loop that will take
\* them, also after a write error and a second CONNECT on the same socket.
SendableHasLoop ==
    \A a \in Agents : Sendable(a) => sendLoop[connections[bySource[a]]] = "running"

\* A peer reads its CONNECT_ACK before any chat message: the agent worker treats
\* any other first frame as a failed connection and stops.
AckBeforeTraffic ==
    \A h \in Handlers : received[h] # {} => acked[h]

\* A message sits in one send queue while it is queued, exactly once and on the
\* connection route() chose, and in none otherwise: never delivered twice.
Positions(m, h) == {k \in 1 .. Len(queue[h]) : queue[h][k] = m}

QueuedOnce ==
    \A m \in Messages, h \in Handlers :
        Cardinality(Positions(m, h)) =
            IF fate[m] = "queued" /\ sentTo[m] = h THEN 1 ELSE 0

\* A chat keeps its agent: a session changes its target only in a step that
\* unregisters the target ("the same session is routed to the same agent").
StickySession ==
    [][\A s \in Sessions :
          \/ sessionTarget[s] \in {None, sessionTarget'[s]}
          \/ sessionTarget[s] \notin targets']_vars

\* No send loop outlives its handler for ever.  Replacing a pool entry leaves the
\* replaced connection's tasks running with nothing to cancel them; they end
\* because the forgotten heartbeat still writes to the closed socket.
LoopsDrain ==
    \A h \in Handlers : phase[h] = "closed" ~> sendLoop[h] # "running"

\* An accepted message does not wait for ever on a connection that stays pooled:
\* it is written, or the connection is given up.
QueuedSettles ==
    \A m \in Messages :
        fate[m] = "queued" ~>
            fate[m] # "queued" \/ connections[source[sentTo[m]]] # sentTo[m]

\* "Maintains all active connections" (connection_manager.py): as long as the
\* gateway is open, a source with a working socket has a pooled connection.
ActiveIsPooled ==
    \A h \in Handlers :
        gate = "open" /\ phase[h] = "serving" /\ link[h] = "up"
            => connections[source[h]] # None

-----------------------------------------------------------------------------
(* What the routing promises, see StickyRouting *)

\* The source whose connection a source is served by.
Resolved(b) ==
    IF bySource[b] # None /\ connections[bySource[b]] # None THEN bySource[b] ELSE None

Sticky == INSTANCE StickyRouting WITH
    online <- Pooled,
    answers <- [b \in Agents |-> Resolved(b)],
    owner <- sessionTarget,
    handedTo <- [m \in Messages |-> IF sentTo[m] = None THEN None ELSE source[sentTo[m]]]

ImplementsStickyRouting == Sticky!Spec
=============================================================================
