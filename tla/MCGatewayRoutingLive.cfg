SPECIFICATION FairSpec
CONSTANTS
    h1 = h1  h2 = h2  h3 = h3
    a1 = a1  a2 = a2  anon = anon
    s1 = s1  s2 = s2
    m1 = m1  m2 = m2
    Handlers = {h1, h2}
    Agents = {a1, anon}
    Nameless = anon
    Sessions = {s1}
    Messages = {m1}
    SessionOf <- SameSession
    Ack = Ack
    Ping = Ping
    None = None
INVARIANT RoutingAgrees
PROPERTIES
    LoopsDrain
    QueuedSettles
CHECK_DEADLOCK FALSE
