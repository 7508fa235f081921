\* Three sessions, two workers; epoll_wait returns at most two of them,
\* so that a ready session can be left for the next wait.
CONSTANTS
    Sessions = {s1, s2, s3}
    Workers = {w1, w2}
    MaxEvents = 2
    None = None
SPECIFICATION Spec
SYMMETRY Symmetry
INVARIANTS
    ExclusiveOwner
    EpollCtlSucceeds
    BatchIsRegistered

