---------------------------- MODULE StickyRouting ----------------------------
(***************************************************************************)
(* What the gateway promises about chats and agents, without sockets,      *)
(* pools or queues: agents come and go; a chat is owned by at most one     *)
(* agent, which is online; a message is handed, once, to the agent that    *)
(* answers to the name of its chat's owner.  That is the owner itself,     *)
(* until another agent claims its name.                                    *)
(***************************************************************************)
CONSTANTS Agents, Sessions, Messages, SessionOf, None

VARIABLES
    online,     \* the agents that can be routed to
    answers,    \* the online agent that answers to a name
    owner,      \* the agent a session is bound to
    handedTo    \* the agent a message was handed to

vars == <<online, answers, owner, handedTo>>

Init ==
    /\ online = {}
    /\ answers = [b \in Agents |-> None]
    /\ owner = [s \in Sessions |-> None]
    /\ handedTo = [m \in Messages |-> None]

\* An agent that comes answers to its own name, and again to names it had claimed.
Come(a) ==
    /\ online' = online \cup {a}
    /\ answers' \in [Agents -> Agents \cup {None}]
    /\ answers'[a] = a
    /\ \A b \in Agents \ {a} : answers'[b] = answers[b] \/ (answers[b] = None /\ answers'[b] = a)
    /\ UNCHANGED <<owner, handedTo>>

\* An agent claims the name b while it is online.
Claim(a, b) ==
    /\ a \in online
    /\ answers' = [answers EXCEPT ![b] = a]
    /\ UNCHANGED <<online, owner, handedTo>>

\* An agent that leaves gives up all its sessions and answers to no name.
Leave(a) ==
    /\ online' = online \ {a}
    /\ answers' = [b \in Agents |-> IF answers[b] = a THEN None ELSE answers[b]]
    /\ owner' = [s \in Sessions |-> IF owner[s] = a THEN None ELSE owner[s]]
    /\ UNCHANGED handedTo

\* A message binds its session to the owner it already has, or to some online
\* agent, and is handed to whoever answers to that name, or dropped.
Dispatch(m, a) ==
    /\ handedTo[m] = None
    /\ a \in online
    /\ owner[SessionOf[m]] \in {None, a}
    /\ owner' = [owner EXCEPT ![SessionOf[m]] = a]
    /\ handedTo' \in {handedTo, [handedTo EXCEPT ![m] = answers[a]]}
    /\ UNCHANGED <<online, answers>>

Next ==
    \/ \E a \in Agents : Come(a) \/ Leave(a)
    \/ \E a, b \in Agents : Claim(a, b)
    \/ \E m \in Messages, a \in Agents : Dispatch(m, a)

Spec == Init /\ [][Next]_vars
=============================================================================
