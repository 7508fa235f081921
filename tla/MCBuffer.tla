------------------------------ MODULE MCBuffer ------------------------------
(* Buffer on small instances: DEFAULT_SIZE is 2, so that an answer of up to *)
(* ten bytes makes the buffer double three times.                          *)
EXTENDS Buffer

MaxSize == 10

\* Answers that end with ReadyForQuery, of any length and with any look-alikes;
\* answers that start with 'R'; and messages that nothing tests.
SmallAnswers ==
    {a \in [size : 1..MaxSize, check : BOOLEAN, startsWithR : BOOLEAN,
            looksReady : SUBSET (6..MaxSize)] :
        /\ a.looksReady \subseteq 6..a.size
        /\ IF a.check THEN ~a.startsWithR => a.size \in a.looksReady
           ELSE ~a.startsWithR /\ a.looksReady = {}}

\* An error that fits, one that is as long as the buffer, one that exceeds it.
SmallOwnSizes == {1, 4, 9}
=============================================================================
