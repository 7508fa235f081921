\* As many threads as the proxy has workers, and a connection for each: once one is
\* lost, a thread may have to wait.
CONSTANTS
    Users = {u1, u2, u3, u4}
    PoolSize = 4
    Nobody = Nobody

SPECIFICATION QSpec

INVARIANTS
    PoolAccounted
    AcquireFindsOne
    OpenBounded
    NoLostWakeUp
PROPERTIES
    LostByRacesOnly
    ImplementsPool
