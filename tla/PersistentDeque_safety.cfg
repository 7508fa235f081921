\* Two instances, three pushes.  The history variables make the state space
\* large, and two instances meet in every way one table allows two to meet.
CONSTANTS
    Instances = {c1, c2}
    MaxSeq = 3

SPECIFICATION Spec

INVARIANTS
    PopIsFinal
    AckedSurvives
PROPERTIES
    ProducerOrder
    ImplementsLeases
