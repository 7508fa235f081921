\* Two sessions share one queue and two workers: each may have to wait for the other.
CONSTANTS
    Sessions = {s1, s2}
    Workers = {w1, w2}
    MaxEvents = 2
    None = None
SPECIFICATION FairSpec
PROPERTIES
    ImplementsOwnership
    QueuedIsServed
    ReportedIsQueued
    StopJoins
