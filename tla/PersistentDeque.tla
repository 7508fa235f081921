--------------------------- MODULE PersistentDeque ---------------------------
(***************************************************************************)
(* A deque kept in a table of the database.  An element's position is the  *)
(* next value of a sequence, negative when it was pushed to the front.     *)
(* Taking an element is a transaction that locks its row (FOR UPDATE SKIP  *)
(* LOCKED) and stays open until the element is popped, which deletes the   *)
(* row and commits, or released, which rolls back.                         *)
(*                                                                         *)
(* An instance serves one thread and has one connection, so it has at most *)
(* one transaction: an operation that would start a second one throws and  *)
(* returns an error, which changes nothing and is no step here.            *)
(***************************************************************************)
EXTENDS Integers

CONSTANTS
    Instances,  \* the open instances of one deque, in any number of processes
    MaxSeq      \* bound: values the sequence may give out

ASSUME MaxSeqAssumption == MaxSeq \in Nat

VARIABLES
    seq,       \* the last value of the table's sequence, which no rollback resets
    rows,      \* the positions of the committed rows
    pc,        \* where each instance is
    pos,       \* the position each instance's transaction is about
    scan,      \* the rows the instance's SELECT has yet to look at
    end,       \* which end the SELECT is for
    maker,     \* history: who pushed, for every value of the sequence
    owed,      \* history: a push of it returned NoError, no Pop was committed
    returned,  \* history: rows that were held and became free again
    gone       \* history: a Pop of it was committed

histories == <<maker, owed, returned, gone>>
vars == <<seq, rows, pc, pos, scan, end, histories>>

\* idle: no transaction.           insert: the row is inserted, not committed.
\* select: the SELECT has begun.   held: the element's row is locked.
\* delete: the row is deleted, not committed.
\* broken: the caller still has the Element, the server has given up on it.
Places == {"idle", "insert", "select", "held", "delete", "broken"}

\* Every position the sequence may ever give.
Positions == (-MaxSeq..MaxSeq) \ {0}

TypeOK ==
    /\ seq \in 0..MaxSeq
    /\ rows \subseteq Positions
    /\ pc \in [Instances -> Places]
    /\ pos \in [Instances -> Positions \cup {0}]
    /\ scan \in [Instances -> SUBSET Positions]
    /\ end \in [Instances -> {"front", "back"}]
    /\ maker \in [1..seq -> Instances]
    /\ owed \subseteq Positions
    /\ returned \subseteq Positions
    /\ gone \subseteq Positions

Init ==
    /\ seq = 0
    /\ rows = {}
    /\ pc = [i \in Instances |-> "idle"]
    /\ pos = [i \in Instances |-> 0]
    /\ scan = [i \in Instances |-> {}]
    /\ end = [i \in Instances |-> "front"]
    /\ maker = [n \in 1..0 |-> n]
    /\ owed = {}
    /\ returned = {}
    /\ gone = {}

-----------------------------------------------------------------------------
Holds(i) == pc[i] \in {"held", "delete"}

\* Mutant: rows are not locked (no FOR UPDATE).
NoneLocked == {}

\* The rows locked by a transaction that is still open at the server.
Locked == {pos[i] : i \in {j \in Instances : Holds(j)}}

Move(i, place) == pc' = [pc EXCEPT ![i] = place]

\* The instance's transaction is over.
Over(i) ==
    /\ Move(i, "idle")
    /\ pos' = [pos EXCEPT ![i] = 0]
    /\ scan' = [scan EXCEPT ![i] = {}]

\* PushBack (dir = 1) and PushFront (dir = -1): the INSERT.
Insert(i, dir) ==
    /\ pc[i] = "idle"
    /\ seq < MaxSeq
    /\ seq' = seq + 1
    /\ maker' = [n \in 1..seq + 1 |-> IF n = seq + 1 THEN i ELSE maker[n]]
    /\ pos' = [pos EXCEPT ![i] = seq' * dir]
    /\ Move(i, "insert")
    /\ UNCHANGED <<rows, scan, end, owed, returned, gone>>

\* The push commits.  When the answer is lost it reports an error all the same.
CommitPush(i) ==
    /\ pc[i] = "insert"
    /\ rows' = rows \cup {pos[i]}
    /\ owed' \in {owed, owed \cup {pos[i]}}
    /\ Over(i)
    /\ UNCHANGED <<seq, end, maker, returned, gone>>

\* Back and Front: the SELECT begins.  It sees the rows committed by now.
BeginSelect(i, side) ==
    /\ pc[i] = "idle"
    /\ scan' = [scan EXCEPT ![i] = rows]
    /\ end' = [end EXCEPT ![i] = side]
    /\ Move(i, "select")
    /\ UNCHANGED <<seq, rows, pos, histories>>

\* Mutant: ORDER BY the wrong way round.
Reversed(p, S, side) ==
    \A q \in S : IF side = "front" THEN p >= q ELSE p <= q

\* ORDER BY _pos ASC or DESC.
Outermost(p, S, side) ==
    \A q \in S : IF side = "front" THEN p <= q ELSE p >= q

\* A row that was deleted meanwhile or that is locked is skipped.
Skip(i) ==
    /\ pc[i] = "select"
    /\ \E p \in scan[i] :
         /\ Outermost(p, scan[i], end[i])
         /\ p \notin rows \ Locked
         /\ scan' = [scan EXCEPT ![i] = @ \ {p}]
    /\ UNCHANGED <<seq, rows, pc, pos, end, histories>>

\* The SELECT locks the first other row (LIMIT 1): the caller has an Element.
Hold(i) ==
    /\ pc[i] = "select"
    /\ \E p \in scan[i] :
         /\ Outermost(p, scan[i], end[i])
         /\ p \in rows \ Locked
         /\ pos' = [pos EXCEPT ![i] = p]
    /\ scan' = [scan EXCEPT ![i] = {}]
    /\ Move(i, "held")
    /\ UNCHANGED <<seq, rows, end, histories>>

\* Pop: the DELETE.  Back(true) and Front(true) call it before they return.
Delete(i) ==
    /\ pc[i] = "held"
    /\ Move(i, "delete")
    /\ UNCHANGED <<seq, rows, pos, scan, end, histories>>

\* Mutant: everything up to the element is deleted.
AllUpTo(p) == {q \in rows : q <= p}

\* DELETE ... WHERE _pos = p.
TheOne(p) == {p}

\* Pop: the commit.  When its answer is lost the caller sees an exception, but
\* the row is gone all the same.
CommitPop(i) ==
    /\ pc[i] = "delete"
    /\ rows' = rows \ TheOne(pos[i])
    /\ owed' = owed \ {pos[i]}
    /\ returned' = returned \ {pos[i]}
    /\ gone' = gone \cup {pos[i]}
    /\ Over(i)
    /\ UNCHANGED <<seq, end, maker>>

\* The server frees the row the instance has locked, if it has one.
Free(i) ==
    /\ returned' = IF Holds(i) THEN returned \cup {pos[i]} ELSE returned
    /\ UNCHANGED <<seq, rows, end, maker, owed, gone>>

\* The transaction is rolled back: Release, the Element's destructor, a SELECT
\* that finds no row (exec1 throws), any exception, the end of the process.
Rollback(i) ==
    /\ pc[i] # "idle"
    /\ Free(i)
    /\ Over(i)

\* The server rolls back while the caller works on its element, because the
\* connection is lost or the DELETE failed.  A Pop from here on returns an error.
Break(i) ==
    /\ Holds(i)
    /\ Free(i)
    /\ Move(i, "broken")
    /\ UNCHANGED <<pos, scan>>

InstanceStep(i) ==
    \/ \E dir \in {-1, 1} : Insert(i, dir)
    \/ CommitPush(i)
    \/ \E side \in {"front", "back"} : BeginSelect(i, side)
    \/ Skip(i)
    \/ Hold(i)
    \/ Delete(i)
    \/ CommitPop(i)
    \/ Rollback(i)
    \/ Break(i)

Next == \E i \in Instances : InstanceStep(i)

Spec == Init /\ [][Next]_vars

-----------------------------------------------------------------------------
(* Properties *)

\* An element whose Pop was committed is never in the deque or in anyone's
\* hands again (Pop runs in the transaction that locked the row).
PopIsFinal ==
    /\ gone \cap rows = {}
    /\ \A i \in Instances : Holds(i) => pos[i] \notin gone

\* An element whose push returned NoError stays until a Pop of this element
\* was committed, whatever crashes, rolls back or is popped around it.
AckedSurvives == owed \subseteq rows

\* What one instance pushes to the back leaves the front in that order: Front
\* passes over an earlier element of the same instance only while another
\* instance holds it or after one gave it back (SKIP LOCKED in Front).
ProducerOrder ==
    [][\A i \in Instances :
         pc[i] = "select" /\ end[i] = "front" /\ pc'[i] = "held" =>
             \A q \in rows \ (Locked \cup returned) :
                 q > 0 /\ q < pos'[i] => maker[q] # maker[pos'[i]]]_vars

\* The positions of the rows there have been.
Used == rows \cup gone

\* No position is given twice, to a row or to a push under way.
PositionsUnique ==
    /\ \A p \in Used : p \in -seq..seq
    /\ rows \cap gone = {}
    /\ \A i \in Instances : pc[i] = "insert" =>
         /\ pos[i] \in -seq..seq
         /\ pos[i] # 0
         /\ pos[i] \notin Used
         /\ \A j \in Instances \ {i} : pc[j] = "insert" => pos[j] # pos[i]

\* A locked row is there, and has one holder.
LocksExclusive ==
    \A i \in Instances : Holds(i) =>
        /\ pos[i] \in rows
        /\ \A j \in Instances \ {i} : Holds(j) => pos[j] # pos[i]

\* An instance pushes one element at a time, so what it is pushing to the back
\* is the last of what it has pushed.
PushesInOrder ==
    \A i \in Instances : pc[i] = "insert" /\ pos[i] > 0 =>
        /\ maker[pos[i]] = i
        /\ \A p \in Used : p > pos[i] => maker[p] # i

\* A SELECT for the front has before it every earlier row of the instances whose
\* rows it has before it, but those that were locked or given back.
ScansInOrder ==
    \A i \in Instances : pc[i] = "select" =>
        /\ scan[i] \subseteq Used
        /\ end[i] = "front" =>
             \A p \in scan[i], q \in rows \ (Locked \cup returned \cup scan[i]) :
                 q > 0 /\ q < p => maker[q] # maker[p]

\* What the transactions rely on (the table's BIGSERIAL, and FOR UPDATE).
RowsInv ==
    /\ TypeOK
    /\ PositionsUnique
    /\ LocksExclusive
    /\ AckedSurvives

\* The inductive invariant: the rows, and the order they are looked at.
IInv ==
    /\ RowsInv
    /\ PushesInOrder
    /\ ScansInOrder

\* The deque keeps the promise that its header makes to consumers: who holds an
\* element holds it alone, and an element that was not popped comes back.
Leases == INSTANCE LeasedItems WITH
    Items   <- Positions,
    Holders <- Instances,
    None    <- 0,
    items   <- rows,
    added   <- Used,
    lease   <- [i \in Instances |-> IF Holds(i) THEN pos[i] ELSE 0]

ImplementsLeases == Leases!Spec
=============================================================================
