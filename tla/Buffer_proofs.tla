---------------------------- MODULE Buffer_proofs ----------------------------
(***************************************************************************)
(* Proofs about the buffer, for any DEFAULT_SIZE, any answers and any      *)
(* sizes of the proxy's own messages.                                      *)
(***************************************************************************)
EXTENDS Buffer, TLAPS

LEMMA InitIInv == Init => IInv
  <1> SUFFICES ASSUME Init PROVE IInv
    OBVIOUS
  <1>1. answer.size \in Nat \ {0}
    BY AnswersAssumption DEF Init
  <1>2. 0 \in 0..answer.size /\ 0 \in 0..0
    BY <1>1
  <1>3. cap \in Nat /\ buf_size \in Nat /\ data_size \in Nat
    BY DefaultSizeAssumption DEF Init, Fresh
  <1>4. TypeOK
    BY <1>2, <1>3 DEF Init, TypeOK, Places
  <1>5. Half /\ TakenWhole
    BY DefaultSizeAssumption DEF Init, Fresh, Half, TakenWhole
  <1> QED
    BY <1>4, <1>5 DEF IInv

\* A read adds at most buf_size_ to at most buf_size_ bytes: if they are more than
\* buf_size_ together, they are at most the double.
LEMMA RecvStep ==
    ASSUME IInv, Recv
    PROVE  IInv'
  <1>1. PICK k \in 1..buf_size :
          /\ read + k <= arrived
          /\ read' = read + k
          /\ data_size' = data_size + k
          /\ IF data_size' > buf_size
             THEN buf_size' = 2 * buf_size /\ cap' = 2 * buf_size'
             ELSE UNCHANGED <<buf_size, cap>>
    BY DEF Recv, Grown, MoreThanHalf
  <1>2. /\ at = "recv" /\ ~own /\ UNCHANGED <<at, answer, arrived, own, before>>
        /\ cap \in Nat /\ buf_size \in Nat /\ data_size \in Nat /\ read \in Nat
        /\ arrived \in 0..answer.size /\ answer \in Answers /\ answer.size \in Nat
        /\ cap = 2 * buf_size /\ data_size <= buf_size /\ data_size = read /\ buf_size > 0
        /\ before \in Nat /\ before < arrived
    BY AnswersAssumption DEF IInv, TypeOK, Half, Recv, peer
  <1>3. k \in Nat /\ k <= buf_size
    BY <1>2
  <1>4. /\ cap' \in Nat /\ buf_size' \in Nat /\ data_size' \in Nat /\ buf_size' > 0
        /\ cap' = 2 * buf_size' /\ data_size' <= buf_size'
    BY <1>1, <1>2, <1>3
  <1>5. read' \in 0..arrived /\ data_size' = read'
    BY <1>1, <1>2, <1>3
  <1> QED
    BY <1>2, <1>4, <1>5 DEF IInv, TypeOK, Half, TakenWhole, Places

LEMMA NextIInv == IInv /\ [Next]_vars => IInv'
  <1> SUFFICES ASSUME IInv, [Next]_vars PROVE IInv'
    OBVIOUS
  <1> USE DEF IInv, TypeOK, Half, TakenWhole, Places, sizes, peer
  <1>0. answer.size \in Nat \ {0} /\ answer.looksReady \subseteq 6..answer.size
    BY AnswersAssumption
  <1>1. CASE Arrive
    BY <1>0, <1>1 DEF Arrive
  <1>2. CASE Begin
    BY <1>2 DEF Begin
  <1>3. CASE Refuse
    BY <1>3, OwnSizesAssumption DEF Refuse, SetOwn
  <1>4. CASE EnterRecvFrom
    BY <1>4 DEF EnterRecvFrom
  <1>5. CASE Recv
    BY <1>5, RecvStep
  <1>6. CASE Return
    BY <1>6 DEF Return
  \* Only the test of the last six bytes can call an answer complete for which
  \* TakenWhole speaks, and they look ready at its end alone.
  <1>7. CASE Test
    BY <1>7 DEF Test, Ready, LooksReady
  <1>8. CASE Replace
    BY <1>8, OwnSizesAssumption DEF Replace, SetOwn
  <1>9. CASE Done
    BY <1>9 DEF Done
  <1>10. CASE Send
    BY <1>10 DEF Send
  <1>11. CASE Reset
    <2>1. answer' \in Answers /\ 0 \in 0..answer'.size /\ 0 \in 0..0
      <3>1. answer' \in Answers
        BY <1>11 DEF Reset
      <3>2. answer'.size \in Nat
        BY <3>1, AnswersAssumption
      <3> QED
        BY <3>1, <3>2
    <2>2. /\ cap' \in Nat /\ buf_size' \in Nat /\ data_size' \in Nat
          /\ buf_size' > 0 /\ cap' = 2 * buf_size' /\ data_size' = 0
      BY <1>11, DefaultSizeAssumption DEF Reset, Cleared, Fresh
    <2>3. at' = "idle" /\ ~own' /\ own' \in BOOLEAN /\ arrived' = 0 /\ read' = 0 /\ before' = 0
      BY <1>11 DEF Reset
    <2>4. arrived' \in 0..answer'.size /\ read' \in 0..arrived'
      BY <2>1, <2>3
    <2>5. TypeOK'
      BY <2>1, <2>2, <2>3, <2>4
    <2>6. Half' /\ TakenWhole'
      BY <2>2, <2>3
    <2> QED
      BY <2>5, <2>6
  <1>12. CASE UNCHANGED vars
    BY <1>12 DEF vars
  <1> QED
    BY <1>1, <1>2, <1>3, <1>4, <1>5, <1>6, <1>7, <1>8, <1>9, <1>10, <1>11, <1>12
    DEF Next, Session

\* IInv holds of every buffer (RecvFrom, SetError, SetQuery and the reset).
THEOREM Invariance == Spec => []IInv
  BY InitIInv, NextIInv, PTL DEF Spec

\* RecvFrom never gives recv room beyond the end of the buffer.
THEOREM NeverOverrun == Spec => []NoOverrun
  <1>1. IInv => NoOverrun
    BY DEF IInv, TypeOK, Half, NoOverrun
  <1> QED
    BY <1>1, Invariance, PTL

\* ReceiveResponse takes an answer for complete only when all of it is there, but for
\* answers that start with 'R' and answers with look-alikes of ReadyForQuery.
THEOREM OnlyWholeAnswers == Spec => []TakenWhole
  <1>1. IInv => TakenWhole
    BY DEF IInv
  <1> QED
    BY <1>1, Invariance, PTL

-----------------------------------------------------------------------------
(* Each step of the buffer is a step of the atomic receiver, or none *)

\* What the receiver of module Receiver sees of the buffer.
AtOf    == CASE at = "recv" -> "wait"
             [] at = "test" -> IF Ready THEN "plugins" ELSE "wait"
             [] OTHER       -> at
TakenOf == IF at = "recv" THEN before ELSE read

LEMMA StepIsReceivers == IInv /\ [Next]_vars => [Atomic!Next]_(Atomic!vars)
  <1> SUFFICES ASSUME IInv, [Next]_vars
               PROVE  Atomic!Next \/ (UNCHANGED <<AtOf, answer, arrived, TakenOf, own>>)
    BY DEF Atomic!vars, AtOf, TakenOf
  <1> USE DEF sizes, peer
  <1>0. /\ at \in Places /\ own \in BOOLEAN /\ read \in Nat /\ arrived \in Nat
        /\ read <= arrived /\ before \in Nat
    <2>1. answer.size \in Nat
      BY AnswersAssumption DEF IInv, TypeOK
    <2> QED
      BY <2>1 DEF IInv, TypeOK
  <1>1. CASE Arrive
    <2>1. Ready' = Ready
      BY <1>1 DEF Arrive, Ready, LooksReady
    <2>2. own => TakenOf > 0
      BY <1>0, <1>1 DEF Arrive, IInv, Half, TakenOf
    <2>3. AtOf # "idle" /\ UNCHANGED <<AtOf, TakenOf, answer, own>>
      BY <1>1, <2>1 DEF Arrive, AtOf, TakenOf
    <2>4. Atomic!Arrive
      BY <1>1, <2>2, <2>3 DEF Arrive, Atomic!Arrive, AtOf, TakenOf
    <2> QED
      BY <2>4 DEF Atomic!Next
  <1>2. CASE Begin
    <2>1. Atomic!Begin
      BY <1>2 DEF Begin, Atomic!Begin
    <2> QED
      BY <2>1 DEF Atomic!Next
  <1>3. CASE Refuse
    <2>1. Atomic!Refuse
      BY <1>3 DEF Refuse, SetOwn, Atomic!Refuse
    <2> QED
      BY <2>1 DEF Atomic!Next
  \* RecvFrom is called, and calls recv: nothing is taken yet.
  <1>4. CASE EnterRecvFrom
    BY <1>4 DEF EnterRecvFrom, AtOf, TakenOf
  <1>5. CASE Recv
    BY <1>5 DEF Recv, AtOf, TakenOf
  \* RecvFrom returns with all that has arrived, of which the test will be.
  <1>6. CASE Return
    <2>1. /\ at = "recv" /\ at' = "test" /\ read = arrived /\ before < arrived
          /\ data_size = read /\ UNCHANGED <<data_size, answer, arrived, read, own>>
      BY <1>6 DEF Return, IInv, Half
    <2>2. Ready' <=> ~answer.check \/ answer.startsWithR \/ arrived \in answer.looksReady
      BY <2>1 DEF Ready, LooksReady
    <2>3. /\ AtOf = "wait" /\ TakenOf = before /\ TakenOf' = arrived
          /\ AtOf' = IF Ready' THEN "plugins" ELSE "wait"
      BY <2>1 DEF AtOf, TakenOf
    <2>4. Atomic!Receive
      BY <2>1, <2>2, <2>3 DEF Atomic!Receive, Atomic!Complete, AtOf, TakenOf
    <2> QED
      BY <2>4 DEF Atomic!Next
  \* The test finds what was decided by then.
  <1>7. CASE Test
    BY <1>7 DEF Test, AtOf, TakenOf
  <1>8. CASE Replace
    <2>1. Atomic!Replace
      BY <1>8 DEF Replace, SetOwn, Atomic!Replace
    <2> QED
      BY <2>1 DEF Atomic!Next
  <1>9. CASE Done
    <2>1. Atomic!Done
      BY <1>9 DEF Done, Atomic!Done
    <2> QED
      BY <2>1 DEF Atomic!Next
  <1>10. CASE Send
    <2>1. Atomic!Send
      BY <1>10 DEF Send, Atomic!Send
    <2> QED
      BY <2>1 DEF Atomic!Next
  <1>11. CASE Reset
    <2>1. Atomic!Reset
      BY <1>11 DEF Reset, Atomic!Reset
    <2> QED
      BY <2>1 DEF Atomic!Next
  <1>12. CASE UNCHANGED vars
    BY <1>12 DEF vars, AtOf, TakenOf, Ready, LooksReady
  <1> QED
    BY <1>1, <1>2, <1>3, <1>4, <1>5, <1>6, <1>7, <1>8, <1>9, <1>10, <1>11, <1>12
    DEF Next, Session

\* RecvFrom and the test behind it are one step for the session, whatever arrives in
\* between: module Session may take them for one.
THEOREM ReceivingIsAtomic == Spec => ReceivesAtOnce
  <1>1. Init => Atomic!Init
    BY DEF Init, Atomic!Init
  <1> QED
    BY <1>1, StepIsReceivers, Invariance, PTL DEF Spec, ReceivesAtOnce, Atomic!Spec
=============================================================================
