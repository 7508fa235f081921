\* One client and two workers that pass its session on.
CONSTANTS
    Sessions = {s1}
    Workers = {w1, w2}
    MaxEvents = 2
    None = None
    MaxMessages = 4
    SocketRoom = 2
    Env <- One
SPECIFICATION ProxyFairSpec
PROPERTIES
    RequestAnswered
    SessionReclaimed
