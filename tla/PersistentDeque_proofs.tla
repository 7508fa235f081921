------------------------ MODULE PersistentDeque_proofs ------------------------
(***************************************************************************)
(* Proofs about the deque, for any set of instances and any length of its  *)
(* sequence.  The argument: a sequence value is given to one push, so no   *)
(* position comes back; a row is locked before it is deleted, so who holds *)
(* an element is the only one who can take it away.                        *)
(***************************************************************************)
EXTENDS PersistentDeque, TLAPS

LEMMA InitInv == Init => RowsInv
  BY MaxSeqAssumption
     DEF Init, RowsInv, TypeOK, PositionsUnique, LocksExclusive, AckedSurvives, Used,
         Places, Positions, Holds

\* A new position is one that the sequence has not reached before.
LEMMA InsertInv ==
    ASSUME RowsInv, NEW i \in Instances, NEW dir \in {-1, 1}, Insert(i, dir)
    PROVE  RowsInv'
  <1>1. /\ seq' = seq + 1
        /\ seq' \in 0..MaxSeq
        /\ pos'[i] \in {seq', -seq'}
        /\ pos' = [pos EXCEPT ![i] = pos'[i]]
        /\ pc' = [pc EXCEPT ![i] = "insert"]
    BY MaxSeqAssumption DEF Insert, Move, RowsInv, TypeOK
  <1>2. pos'[i] \in Positions /\ pos'[i] \notin -seq..seq /\ pos'[i] \in -(seq')..seq'
    BY <1>1, MaxSeqAssumption DEF Positions, RowsInv, TypeOK
  <1>3. TypeOK'
    BY <1>1, <1>2 DEF Insert, RowsInv, TypeOK, Places
  <1>4. PositionsUnique'
    <2>1. UNCHANGED Used /\ UNCHANGED <<rows, gone>>
      BY DEF Insert, Used
    <2>2. \A p \in -seq..seq : p \in -(seq')..seq'
      BY <1>1 DEF RowsInv, TypeOK
    <2>3. \A j \in Instances :
            pc'[j] = "insert" => \/ j = i
                                 \/ pc[j] = "insert" /\ pos'[j] = pos[j]
      BY <1>1 DEF RowsInv, TypeOK
    <2> QED
      BY <1>1, <1>2, <2>1, <2>2, <2>3 DEF RowsInv, TypeOK, PositionsUnique
  <1>5. LocksExclusive'
    BY <1>1 DEF Insert, RowsInv, TypeOK, LocksExclusive, Holds
  <1>6. AckedSurvives'
    BY DEF Insert, RowsInv, AckedSurvives
  <1> QED
    BY <1>3, <1>4, <1>5, <1>6 DEF RowsInv

\* The row that appears is nobody's, and its position was nobody's before.
LEMMA CommitPushInv ==
    ASSUME RowsInv, NEW i \in Instances, CommitPush(i)
    PROVE  RowsInv'
  <1>1. /\ pc' = [pc EXCEPT ![i] = "idle"]
        /\ pos' = [pos EXCEPT ![i] = 0]
        /\ rows' = rows \cup {pos[i]}
        /\ Used' = Used \cup {pos[i]}
        /\ UNCHANGED <<seq, gone>>
    BY DEF CommitPush, Over, Move, Used
  <1>2. pos[i] \in Positions
    BY DEF CommitPush, RowsInv, TypeOK, PositionsUnique
  <1>3. TypeOK'
    BY <1>1, <1>2 DEF CommitPush, Over, Move, RowsInv, TypeOK, Places
  <1>4. PositionsUnique'
    BY <1>1 DEF CommitPush, RowsInv, TypeOK, PositionsUnique, Used
  <1>5. LocksExclusive'
    BY <1>1 DEF CommitPush, RowsInv, TypeOK, LocksExclusive, Holds
  <1>6. AckedSurvives'
    BY <1>1 DEF CommitPush, RowsInv, AckedSurvives
  <1> QED
    BY <1>3, <1>4, <1>5, <1>6 DEF RowsInv

\* A SELECT changes nothing but what it has yet to look at.
LEMMA ScanInv ==
    ASSUME RowsInv, NEW i \in Instances,
           Skip(i) \/ \E side \in {"front", "back"} : BeginSelect(i, side)
    PROVE  RowsInv'
  <1>1. pc' \in [Instances -> Places] /\ UNCHANGED <<seq, rows, pos, gone, owed>>
    BY DEF Skip, BeginSelect, Move, histories, RowsInv, TypeOK, Places
  <1>2. \A j \in Instances : pc'[j] = pc[j] \/ pc'[j] = "select"
    BY DEF Skip, BeginSelect, Move, RowsInv, TypeOK
  <1>3. TypeOK'
    <2>1. UNCHANGED <<maker, returned>>
      BY DEF Skip, BeginSelect, histories
    <2>2. scan' \in [Instances -> SUBSET Positions]
      BY DEF Skip, BeginSelect, RowsInv, TypeOK
    <2>3. end' \in [Instances -> {"front", "back"}]
      BY DEF Skip, BeginSelect, RowsInv, TypeOK
    <2> QED
      BY <1>1, <2>1, <2>2, <2>3 DEF RowsInv, TypeOK
  <1>4. PositionsUnique' /\ LocksExclusive' /\ AckedSurvives'
    BY <1>1, <1>2 DEF RowsInv, PositionsUnique, LocksExclusive, AckedSurvives, Used, Holds
  <1> QED
    BY <1>3, <1>4 DEF RowsInv

\* Only a row that nobody has locked is taken.
LEMMA HoldInv ==
    ASSUME RowsInv, NEW i \in Instances, Hold(i)
    PROVE  RowsInv'
  <1>1. PICK p \in rows \ Locked : pos' = [pos EXCEPT ![i] = p]
    BY DEF Hold
  <1>2. pc' = [pc EXCEPT ![i] = "held"] /\ UNCHANGED <<seq, rows, gone, owed>>
    BY DEF Hold, Move, histories
  <1>3. TypeOK'
    BY <1>1, <1>2 DEF Hold, histories, RowsInv, TypeOK, Places
  <1>4. PositionsUnique'
    BY <1>1, <1>2 DEF RowsInv, TypeOK, PositionsUnique, Used
  <1>5. \A j \in Instances : Holds(j) => pos[j] # p
    BY <1>1 DEF Locked
  <1>6. LocksExclusive'
    BY <1>1, <1>2, <1>5 DEF RowsInv, TypeOK, LocksExclusive, Holds
  <1>7. AckedSurvives'
    BY <1>2 DEF RowsInv, AckedSurvives
  <1> QED
    BY <1>3, <1>4, <1>6, <1>7 DEF RowsInv

LEMMA DeleteInv ==
    ASSUME RowsInv, NEW i \in Instances, Delete(i)
    PROVE  RowsInv'
  BY DEF Delete, Move, histories, RowsInv, TypeOK, Places, PositionsUnique, LocksExclusive,
         AckedSurvives, Used, Holds

\* The row that goes is the holder's, so no other holder loses his.
LEMMA CommitPopInv ==
    ASSUME RowsInv, NEW i \in Instances, CommitPop(i)
    PROVE  RowsInv'
  <1>1. /\ pc' = [pc EXCEPT ![i] = "idle"]
        /\ pos' = [pos EXCEPT ![i] = 0]
        /\ rows' = rows \ {pos[i]}
        /\ gone' = gone \cup {pos[i]}
        /\ owed' = owed \ {pos[i]}
        /\ UNCHANGED seq
    BY DEF CommitPop, TheOne, Over, Move
  <1>2. pos[i] \in rows /\ Holds(i)
    BY DEF CommitPop, RowsInv, LocksExclusive, Holds
  <1>3. UNCHANGED Used
    BY <1>1, <1>2 DEF Used
  <1>4. TypeOK'
    BY <1>1, <1>2 DEF CommitPop, Over, Move, RowsInv, TypeOK, Places
  <1>5. PositionsUnique'
    BY <1>1, <1>2, <1>3 DEF RowsInv, TypeOK, PositionsUnique
  <1>6. LocksExclusive'
    BY <1>1, <1>2 DEF RowsInv, TypeOK, LocksExclusive, Holds
  <1>7. AckedSurvives'
    BY <1>1 DEF RowsInv, AckedSurvives
  <1> QED
    BY <1>4, <1>5, <1>6, <1>7 DEF RowsInv

\* A transaction that ends without a commit leaves every row as it was.
LEMMA UndoInv ==
    ASSUME RowsInv, NEW i \in Instances, Rollback(i) \/ Break(i)
    PROVE  RowsInv'
  <1>1. UNCHANGED <<seq, rows, gone, owed, end, maker>>
    BY DEF Rollback, Break, Free
  <1>2. returned' \subseteq Positions
    <2>1. Holds(i) => pos[i] \in Positions
      BY DEF RowsInv, TypeOK, LocksExclusive
    <2> QED
      BY <2>1 DEF Rollback, Break, Free, RowsInv, TypeOK
  <1>3. /\ pc' \in [Instances -> Places]
        /\ pos' \in [Instances -> Positions \cup {0}]
        /\ scan' \in [Instances -> SUBSET Positions]
    BY DEF Rollback, Break, Over, Move, RowsInv, TypeOK, Places
  <1>4. \A j \in Instances : \/ pc'[j] = pc[j] /\ pos'[j] = pos[j]
                             \/ pc'[j] \in {"idle", "broken"}
    BY DEF Rollback, Break, Over, Move, RowsInv, TypeOK
  <1>5. TypeOK'
    BY <1>1, <1>2, <1>3 DEF RowsInv, TypeOK
  <1>6. PositionsUnique' /\ LocksExclusive' /\ AckedSurvives'
    BY <1>1, <1>4 DEF RowsInv, PositionsUnique, LocksExclusive, AckedSurvives, Used, Holds
  <1> QED
    BY <1>5, <1>6 DEF RowsInv

LEMMA NextInv == RowsInv /\ [Next]_vars => RowsInv'
  <1> SUFFICES ASSUME RowsInv, [Next]_vars
               PROVE  RowsInv'
    OBVIOUS
  <1>1. CASE UNCHANGED vars
    BY <1>1 DEF vars, histories, RowsInv, TypeOK, PositionsUnique, LocksExclusive,
                AckedSurvives, Used, Holds
  <1>2. ASSUME NEW i \in Instances, InstanceStep(i)
        PROVE  RowsInv'
    BY <1>2, InsertInv, CommitPushInv, ScanInv, HoldInv, DeleteInv, CommitPopInv, UndoInv
       DEF InstanceStep
  <1> QED
    BY <1>1, <1>2 DEF Next

\* The rows and their locks are as the transactions of the deque need them.
LEMMA RowsInvariance == Spec => []RowsInv
  BY InitInv, NextInv, PTL DEF Spec

\* What was popped stays popped, whatever the instances do (Element::Pop).
THEOREM PopFinal == Spec => []PopIsFinal
  <1>1. RowsInv => PopIsFinal
    BY DEF RowsInv, PositionsUnique, LocksExclusive, PopIsFinal
  <1> QED
    BY <1>1, RowsInvariance, PTL

\* What a push has acknowledged stays until a Pop commits (PushBack, PushFront).
THEOREM NothingLost == Spec => []AckedSurvives
  <1>1. RowsInv => AckedSurvives
    BY DEF RowsInv
  <1> QED
    BY <1>1, RowsInvariance, PTL
-----------------------------------------------------------------------------
(* Order *)

LEMMA InitOrder == Init => PushesInOrder /\ ScansInOrder
  BY DEF Init, PushesInOrder, ScansInOrder

\* A push gets a later position than all that is there.
LEMMA PushesKeepOrder ==
    ASSUME RowsInv, RowsInv', PushesInOrder, NEW k \in Instances, InstanceStep(k)
    PROVE  PushesInOrder'
  <1>1. CASE \E dir \in {-1, 1} : Insert(k, dir)
    <2>1. /\ UNCHANGED Used
          /\ seq' = seq + 1
          /\ maker' = [n \in 1..seq + 1 |-> IF n = seq + 1 THEN k ELSE maker[n]]
      BY <1>1 DEF Insert, Used
    <2>2. PICK dir \in {-1, 1} : /\ pos' = [pos EXCEPT ![k] = (seq + 1) * dir]
                                 /\ pc' = [pc EXCEPT ![k] = "insert"]
      BY <1>1, <2>1 DEF Insert, Move
    <2>3. \A p \in Used : p \in -seq..seq
      BY DEF RowsInv, PositionsUnique
    <2>4. SUFFICES ASSUME NEW i \in Instances, pc'[i] = "insert", pos'[i] > 0
                   PROVE  /\ maker'[pos'[i]] = i
                          /\ \A p \in Used : p > pos'[i] => maker'[p] # i
      BY <2>1 DEF PushesInOrder
    <2>5. CASE i = k
      <3>1. pos'[i] = seq + 1
        BY <2>2, <2>4, <2>5 DEF RowsInv, TypeOK
      <3> QED
        BY <2>1, <2>3, <2>5, <3>1 DEF RowsInv, TypeOK
    <2>6. CASE i # k
      <3>1. pc[i] = "insert" /\ pos'[i] = pos[i]
        BY <2>2, <2>4, <2>6 DEF RowsInv, TypeOK
      <3>2. pos[i] \in -seq..seq
        BY <3>1 DEF RowsInv, PositionsUnique
      <3>3. \A n \in 1..seq : maker'[n] = maker[n]
        BY <2>1 DEF RowsInv, TypeOK
      <3>4. \A p \in Used : p > pos[i] => p \in 1..seq
        BY <2>3, <2>4, <3>1, <3>2 DEF RowsInv, TypeOK
      <3> QED
        BY <2>4, <3>1, <3>2, <3>3, <3>4 DEF PushesInOrder, RowsInv, TypeOK
    <2> QED
      BY <2>5, <2>6
  <1>2. CASE CommitPush(k)
    <2>1. /\ pc' = [pc EXCEPT ![k] = "idle"]
          /\ pos' = [pos EXCEPT ![k] = 0]
          /\ Used' = Used \cup {pos[k]}
          /\ UNCHANGED maker
      BY <1>2 DEF CommitPush, Over, Move, Used
    <2>2. SUFFICES ASSUME NEW i \in Instances, pc'[i] = "insert", pos'[i] > 0
                   PROVE  /\ maker[pos'[i]] = i
                          /\ \A p \in Used \cup {pos[k]} : p > pos'[i] => maker[p] # i
      BY <2>1 DEF PushesInOrder
    <2>3. i # k /\ pc[i] = "insert" /\ pos'[i] = pos[i]
      BY <2>1, <2>2 DEF RowsInv, TypeOK
    <2>4. pos[i] \in Int /\ pos[k] \in Int
      BY <1>2, <2>3 DEF CommitPush, RowsInv, PositionsUnique
    <2>5. pos[k] > pos[i] => maker[pos[k]] = k
      BY <1>2, <2>2, <2>3, <2>4 DEF CommitPush, PushesInOrder
    <2> QED
      BY <2>2, <2>3, <2>5 DEF PushesInOrder
  <1>3. CASE CommitPop(k)
    <2>1. UNCHANGED <<Used, maker>>
      BY <1>3 DEF CommitPop, TheOne, Used, RowsInv, LocksExclusive, Holds
    <2>2. \A i \in Instances : pc'[i] = "insert" => pc[i] = "insert" /\ pos'[i] = pos[i]
      BY <1>3 DEF CommitPop, Over, Move, RowsInv, TypeOK
    <2> QED
      BY <2>1, <2>2 DEF PushesInOrder
  <1>4. CASE \/ \E side \in {"front", "back"} : BeginSelect(k, side)
             \/ Skip(k)
             \/ Hold(k)
             \/ Delete(k)
             \/ Rollback(k)
             \/ Break(k)
    <2>1. UNCHANGED <<Used, maker>>
      BY <1>4 DEF BeginSelect, Skip, Hold, Delete, Rollback, Break, Free, histories, Used
    <2>2. \A i \in Instances : pc'[i] = "insert" => pc[i] = "insert" /\ pos'[i] = pos[i]
      BY <1>4 DEF BeginSelect, Skip, Hold, Delete, Rollback, Break, Over, Move, RowsInv, TypeOK
    <2> QED
      BY <2>1, <2>2 DEF PushesInOrder
  <1> QED
    BY <1>1, <1>2, <1>3, <1>4 DEF InstanceStep

\* The rows that a SELECT has not before it, though it may not pass over them.
Missed(i) == rows \ (Locked \cup returned \cup scan[i])

\* Whatever the others do, they give a SELECT no row to miss but one just pushed.
LEMMA OthersMiss ==
    ASSUME RowsInv, RowsInv', NEW k \in Instances, InstanceStep(k),
           NEW i \in Instances, scan'[i] = scan[i]
    PROVE  Missed(i)' \subseteq Missed(i) \cup (IF CommitPush(k) THEN {pos[k]} ELSE {})
  <1>1. CASE CommitPush(k)
    <2>1. rows' = rows \cup {pos[k]} /\ UNCHANGED returned
      BY <1>1 DEF CommitPush
    <2>2. Locked' = Locked
      BY <1>1 DEF CommitPush, Over, Move, Locked, Holds, RowsInv, TypeOK
    <2> QED
      BY <1>1, <2>1, <2>2 DEF Missed
  <1>2. CASE CommitPop(k)
    <2>1. rows' = rows \ {pos[k]} /\ returned' = returned \ {pos[k]}
      BY <1>2 DEF CommitPop, TheOne
    <2>2. Locked \subseteq Locked' \cup {pos[k]}
      BY <1>2 DEF CommitPop, Over, Move, Locked, Holds, RowsInv, TypeOK
    <2> QED
      BY <2>1, <2>2 DEF Missed
  <1>3. CASE Rollback(k) \/ Break(k)
    <2>1. rows' = rows /\ returned \subseteq returned'
      BY <1>3 DEF Rollback, Break, Free
    <2>2. Locked \subseteq Locked' \cup returned'
      BY <1>3 DEF Rollback, Break, Free, Over, Move, Locked, Holds, RowsInv, TypeOK
    <2> QED
      BY <2>1, <2>2 DEF Missed
  <1>4. CASE \/ \E dir \in {-1, 1} : Insert(k, dir)
             \/ \E side \in {"front", "back"} : BeginSelect(k, side)
             \/ Skip(k)
             \/ Hold(k)
             \/ Delete(k)
    <2>1. UNCHANGED <<rows, returned>>
      BY <1>4 DEF Insert, BeginSelect, Skip, Hold, Delete, histories
    <2>2. Locked \subseteq Locked'
      BY <1>4 DEF Insert, BeginSelect, Skip, Hold, Delete, Move, Locked, Holds, RowsInv, TypeOK
    <2> QED
      BY <2>1, <2>2 DEF Missed
  <1> QED
    BY <1>1, <1>2, <1>3, <1>4 DEF InstanceStep

\* Neither the SELECT itself nor the others make it miss a row of a producer
\* whose later row it has before it.
LEMMA ScansKeepOrder ==
    ASSUME RowsInv, RowsInv', PushesInOrder, ScansInOrder,
           NEW k \in Instances, InstanceStep(k)
    PROVE  ScansInOrder'
  <1> SUFFICES ASSUME NEW i \in Instances, pc'[i] = "select"
               PROVE  /\ scan'[i] \subseteq Used'
                      /\ end'[i] = "front" =>
                           \A p \in scan'[i], q \in Missed(i)' :
                               q > 0 /\ q < p => maker'[q] # maker'[p]
    BY DEF ScansInOrder, Missed
  <1>1. CASE i = k /\ \E side \in {"front", "back"} : BeginSelect(k, side)
    <2>1. scan'[i] = rows /\ UNCHANGED <<rows, gone>>
      BY <1>1 DEF BeginSelect, histories, RowsInv, TypeOK
    <2> QED
      BY <2>1 DEF Missed, Used
  <1>2. CASE i = k /\ Skip(k)
    <2>1. /\ pc[i] = "select"
          /\ UNCHANGED <<rows, gone, Locked, returned, end, maker>>
      BY <1>2 DEF Skip, histories, Locked, Holds
    <2>2. PICK r \in scan[i] : r \notin rows \ Locked /\ scan'[i] = scan[i] \ {r}
      BY <1>2 DEF Skip, RowsInv, TypeOK
    <2>3. Missed(i)' \subseteq Missed(i)
      BY <2>1, <2>2 DEF Missed
    <2> QED
      BY <2>1, <2>2, <2>3 DEF ScansInOrder, Missed, Used
  <1>3. CASE ~ \/ i = k /\ \E side \in {"front", "back"} : BeginSelect(k, side)
               \/ i = k /\ Skip(k)
    <2>1. pc[i] = "select" /\ scan'[i] = scan[i] /\ end'[i] = end[i]
      <3>1. CASE i = k
        <4>1. pc'[i] \in {"idle", "insert", "held", "delete", "broken"}
          BY <1>3, <3>1 DEF InstanceStep, Insert, CommitPush, Hold, Delete, CommitPop,
                            Rollback, Break, Over, Move, RowsInv, TypeOK
        <4> QED
          BY <4>1
      <3>2. CASE i # k
        BY <3>2 DEF InstanceStep, Insert, CommitPush, BeginSelect, Skip, Hold, Delete, CommitPop,
                    Rollback, Break, Free, Over, Move, histories, RowsInv, TypeOK
      <3> QED
        BY <3>1, <3>2
    <2>2. scan[i] \subseteq Used
      BY <2>1 DEF ScansInOrder
    <2>3. Used \subseteq Used'
      BY DEF InstanceStep, Insert, CommitPush, BeginSelect, Skip, Hold, Delete, CommitPop, TheOne,
             Rollback, Break, Free, histories, Used
    <2>4. \A n \in 1..seq : maker'[n] = maker[n]
      BY DEF InstanceStep, Insert, CommitPush, BeginSelect, Skip, Hold, Delete, CommitPop,
             Rollback, Break, Free, histories, RowsInv, TypeOK
    <2>5. SUFFICES ASSUME end[i] = "front", NEW p \in scan[i], NEW q \in Missed(i)',
                          q > 0, q < p
                   PROVE  maker'[q] # maker'[p]
      BY <2>1, <2>2, <2>3
    <2>6. p \in -seq..seq
      BY <2>2 DEF RowsInv, PositionsUnique
    <2>7. q \in Int
      BY DEF Missed, RowsInv, TypeOK, Positions
    <2>8. p \in 1..seq /\ q \in 1..seq
      BY <2>5, <2>6, <2>7 DEF RowsInv, TypeOK
    <2>9. q \in Missed(i) \/ (CommitPush(k) /\ q = pos[k])
      BY <2>1, OthersMiss
    <2>10. CASE q \in Missed(i)
      <3>1. maker[q] # maker[p]
        BY <2>1, <2>5, <2>10 DEF ScansInOrder, Missed
      <3> QED
        BY <2>4, <2>8, <3>1
    <2>11. CASE CommitPush(k) /\ q = pos[k]
      <3>1. maker[q] = k /\ maker[p] # k
        BY <2>2, <2>5, <2>11 DEF CommitPush, PushesInOrder
      <3> QED
        BY <2>4, <2>8, <3>1
    <2> QED
      BY <2>9, <2>10, <2>11
  <1> QED
    BY <1>1, <1>2, <1>3

LEMMA OrderNext ==
    RowsInv /\ RowsInv' /\ PushesInOrder /\ ScansInOrder /\ [Next]_vars
        => PushesInOrder' /\ ScansInOrder'
  <1> SUFFICES ASSUME RowsInv, RowsInv', PushesInOrder, ScansInOrder, [Next]_vars
               PROVE  PushesInOrder' /\ ScansInOrder'
    OBVIOUS
  <1>1. CASE UNCHANGED vars
    BY <1>1 DEF vars, histories, PushesInOrder, ScansInOrder, Used, Locked, Holds
  <1> QED
    BY <1>1, PushesKeepOrder, ScansKeepOrder DEF Next

\* The inductive invariant of the deque, its locks and the order of its SELECTs.
THEOREM Invariance == Spec => []IInv
  BY InitInv, NextInv, InitOrder, OrderNext, PTL DEF Spec, IInv

\* What a SELECT takes is the outermost of what it has before it, and it misses
\* no earlier row of the same producer (Front, ORDER BY _pos ASC LIMIT 1).
LEMMA HoldKeepsOrder ==
    ASSUME RowsInv, ScansInOrder, NEW i \in Instances, NEW k \in Instances, InstanceStep(k),
           pc[i] = "select", end[i] = "front", pc'[i] = "held"
    PROVE  \A q \in rows \ (Locked \cup returned) :
               q > 0 /\ q < pos'[i] => maker[q] # maker[pos'[i]]
  <1>1. i = k /\ Hold(i)
    BY DEF InstanceStep, Insert, CommitPush, BeginSelect, Skip, Hold, Delete, CommitPop,
           Rollback, Break, Free, Over, Move, histories, RowsInv, TypeOK
  <1>2. PICK p \in scan[i] : Outermost(p, scan[i], "front") /\ pos'[i] = p
    BY <1>1 DEF Hold, RowsInv, TypeOK
  <1>3. p \in Int /\ rows \subseteq Int /\ scan[i] \subseteq Int
    BY DEF RowsInv, TypeOK, Positions
  <1>4. \A q \in scan[i] : ~ q < p
    BY <1>2, <1>3 DEF Outermost
  <1> QED
    BY <1>2, <1>4 DEF ScansInOrder

\* What one instance pushes to the back leaves the front in that order, unless it
\* was held or given back (SKIP LOCKED).
THEOREM OrderKept == Spec => ProducerOrder
  <1>1. IInv /\ [Next]_vars =>
          [\A i \in Instances :
             pc[i] = "select" /\ end[i] = "front" /\ pc'[i] = "held" =>
                 \A q \in rows \ (Locked \cup returned) :
                     q > 0 /\ q < pos'[i] => maker[q] # maker[pos'[i]]]_vars
    BY HoldKeepsOrder DEF Next, IInv
  <1> QED
    BY <1>1, Invariance, PTL DEF Spec, ProducerOrder
-----------------------------------------------------------------------------
(* Refinement *)

\* Who holds what, as LeasedItems sees it.
Leased == [i \in Instances |-> IF Holds(i) THEN pos[i] ELSE 0]

LEMMA InitLeases == Init => Leases!Init
  BY DEF Init, Leases!Init, Used, Holds

LEMMA StepLeases ==
    ASSUME RowsInv, RowsInv', NEW i \in Instances, InstanceStep(i)
    PROVE  Leases!Next \/ UNCHANGED Leases!vars
  <1>1. CASE \/ \E dir \in {-1, 1} : Insert(i, dir)
             \/ \E side \in {"front", "back"} : BeginSelect(i, side)
             \/ Skip(i)
             \/ Delete(i)
    <2>1. UNCHANGED <<rows, gone>>
      BY <1>1 DEF Insert, BeginSelect, Skip, Delete, histories
    <2>2. \A j \in Instances : /\ Holds(j)' = Holds(j)
                               /\ Holds(j) => pos'[j] = pos[j]
      BY <1>1 DEF Insert, BeginSelect, Skip, Delete, Move, Holds, RowsInv, TypeOK
    <2>3. UNCHANGED Leased
      BY <2>2 DEF Leased
    <2> QED
      BY <2>1, <2>3 DEF Leases!vars, Leased, Used
  <1>2. CASE CommitPush(i)
    <2>1. Leased' = Leased
      BY <1>2 DEF CommitPush, Over, Move, Leased, Holds, RowsInv, TypeOK
    <2>2. pos[i] \in Positions /\ pos[i] \notin Used
      BY <1>2 DEF CommitPush, RowsInv, TypeOK, PositionsUnique
    <2>3. rows' = rows \cup {pos[i]} /\ Used' = Used \cup {pos[i]}
      BY <1>2 DEF CommitPush, Used
    <2>4. Leases!Add(pos[i])
      BY <2>1, <2>2, <2>3 DEF Leases!Add, Leased
    <2> QED
      BY <2>2, <2>4 DEF Leases!Next
  <1>3. CASE Hold(i)
    <2>1. PICK p \in rows \ Locked : pos' = [pos EXCEPT ![i] = p]
      BY <1>3 DEF Hold
    <2>2. p \in Positions /\ UNCHANGED <<rows, Used>>
      BY <1>3, <2>1 DEF Hold, histories, Used, RowsInv, TypeOK
    <2>3. Leased[i] = 0 /\ Leased' = [Leased EXCEPT ![i] = p]
      BY <1>3, <2>1 DEF Hold, Move, Leased, Holds, RowsInv, TypeOK
    <2>4. \A j \in Instances : Leased[j] # p
      BY <2>1, <2>2 DEF Leased, Locked, Positions
    <2>5. Leases!Take(i, p)
      BY <2>1, <2>2, <2>3, <2>4 DEF Leases!Take, Leased
    <2> QED
      BY <2>2, <2>5 DEF Leases!Next
  <1>4. CASE CommitPop(i)
    <2>1. Holds(i) /\ pos[i] \in rows /\ Leased[i] = pos[i]
      BY <1>4 DEF CommitPop, RowsInv, LocksExclusive, Holds, Leased
    <2>2. Leased' = [Leased EXCEPT ![i] = 0]
      BY <1>4 DEF CommitPop, Over, Move, Leased, Holds, RowsInv, TypeOK
    <2>3. rows' = rows \ {Leased[i]} /\ UNCHANGED Used
      BY <1>4, <2>1 DEF CommitPop, TheOne, Used
    <2>4. Leased[i] # 0
      BY <2>1 DEF RowsInv, TypeOK, Positions
    <2>5. Leases!Finish(i)
      BY <2>2, <2>3, <2>4 DEF Leases!Finish, Leased
    <2> QED
      BY <2>5 DEF Leases!Next
  <1>5. CASE Rollback(i) \/ Break(i)
    <2>1. UNCHANGED <<rows, Used>>
      BY <1>5 DEF Rollback, Break, Free, Used
    <2>2. Leased' = [Leased EXCEPT ![i] = 0]
      BY <1>5 DEF Rollback, Break, Over, Move, Leased, Holds, RowsInv, TypeOK
    <2>3. CASE Leased[i] # 0
      BY <2>1, <2>2, <2>3 DEF Leases!Next, Leases!GiveBack, Leased
    <2>4. CASE Leased[i] = 0
      <3>1. Leased' = Leased
        BY <2>2, <2>4 DEF Leased
      <3> QED
        BY <2>1, <3>1 DEF Leases!vars, Leased
    <2> QED
      BY <2>3, <2>4
  <1> QED
    BY <1>1, <1>2, <1>3, <1>4, <1>5 DEF InstanceStep

LEMMA NextLeases == RowsInv /\ RowsInv' /\ [Next]_vars => [Leases!Next]_(Leases!vars)
  <1> SUFFICES ASSUME RowsInv, RowsInv', [Next]_vars
               PROVE  Leases!Next \/ UNCHANGED Leases!vars
    OBVIOUS
  <1>1. CASE UNCHANGED vars
    BY <1>1 DEF vars, histories, Leases!vars, Used, Holds
  <1> QED
    BY <1>1, StepLeases DEF Next

\* The deque implements exclusive leases of its elements (persistent-deque.h):
\* one holder at a time, free again after a crash, gone for good after a Pop.
THEOREM DequeLeases == Spec => ImplementsLeases
  BY InitLeases, NextLeases, RowsInvariance, PTL DEF Spec, ImplementsLeases, Leases!Spec
=============================================================================
