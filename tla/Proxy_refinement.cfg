\* Two clients, each a startup and a query, on two workers.
CONSTANTS
    Sessions = {s1, s2}
    Workers = {w1, w2}
    MaxEvents = 1
    None = None
    MaxMessages = 2
    SocketRoom = 2
    Env <- Two
SPECIFICATION ProxySpec
SYMMETRY Symmetry
INVARIANT NobodyStalls
PROPERTIES
    ImplementsOperator
    ImplementsSessions
