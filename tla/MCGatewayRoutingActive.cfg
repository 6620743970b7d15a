SPECIFICATION Spec
CONSTANTS
    h1 = h1  h2 = h2  h3 = h3
    a1 = a1  a2 = a2  anon = anon
    s1 = s1  s2 = s2
    m1 = m1  m2 = m2
    Handlers = {h1, h2}
    Agents = {a1, a2}
    Nameless = anon
    Sessions = {s1, s2}
    Messages = {m1, m2}
    SessionOf <- MCSessionOf
    Ack = Ack
    Ping = Ping
    None = None
SYMMETRY Symmetry
INVARIANT ActiveIsPooled
CHECK_DEADLOCK FALSE
