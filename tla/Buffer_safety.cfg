\* Every cut of every answer of up to ten bytes, with a buffer of two.
CONSTANTS
    DefaultSize = 2
    Answers <- SmallAnswers
    OwnSizes <- SmallOwnSizes
SPECIFICATION FairSpec
INVARIANTS
    NoOverrun
    TakenWhole
PROPERTIES
    PassedOn
    ReceivesAtOnce
