-------------------------- MODULE QueuedPool_proofs --------------------------
(***************************************************************************)
(* Proofs about the connection pool, for any finite number of threads and  *)
(* any size: first with an atomic queue, then on the queue as it is        *)
(* written, whose steps are shown to be the atomic one's.                  *)
(***************************************************************************)
EXTENDS QueuedPool, FiniteSetTheorems, TLAPS

-----------------------------------------------------------------------------
(* The pool on an atomic queue.  The argument counts: each step of a thread moves
   at most one thread in or out of the sets At(places), so the sums PoolAccounted
   and OpenAccounted stay as they are. *)

\* 1 if a holds, else 0: how much one thread counts for.
One(a) == IF a THEN 1 ELSE 0

\* The threads at some places are finitely many.
LEMMA AtFinite ==
    ASSUME NEW S
    PROVE  IsFiniteSet(At(S)) /\ Cardinality(At(S)) \in Nat
                              /\ Cardinality(At(S)) <= Cardinality(Users)
  <1>1. At(S) \subseteq Users
    BY DEF At
  <1>2. IsFiniteSet(At(S)) /\ Cardinality(At(S)) <= Cardinality(Users)
    BY <1>1, FS_Subset, UsersAssumption
  <1> QED
    BY <1>2, FS_CardinalityType

\* A thread that moves changes the number of threads at some places by itself.
LEMMA MoveCounts ==
    ASSUME TypeOK, TypeOK', NEW CONSTANT S, NEW u \in Users, NEW place \in Places,
           Move(u, place)
    PROVE  Cardinality(At(S))' = Cardinality(At(S)) + One(place \in S) - One(pc[u] \in S)
  <1>1. At(S)' = IF place \in S THEN At(S) \cup {u} ELSE At(S) \ {u}
    BY DEF At, Move, TypeOK
  <1>2. u \in At(S) <=> pc[u] \in S
    BY DEF At
  <1>3. IsFiniteSet(At(S)) /\ Cardinality(At(S)) \in Nat
    BY AtFinite
  <1>4. CASE place \in S
    <2>1. Cardinality(At(S) \cup {u})
             = IF u \in At(S) THEN Cardinality(At(S)) ELSE Cardinality(At(S)) + 1
      BY <1>3, FS_AddElement
    <2> QED
      BY <1>1, <1>2, <1>3, <1>4, <2>1 DEF One
  <1>5. CASE place \notin S
    <2>1. Cardinality(At(S) \ {u})
             = IF u \in At(S) THEN Cardinality(At(S)) - 1 ELSE Cardinality(At(S))
      BY <1>3, FS_RemoveElement
    <2> QED
      BY <1>1, <1>2, <1>3, <1>5, <2>1 DEF One
  <1> QED
    BY <1>4, <1>5

\* A set of places that holds a thread counts at least one.
LEMMA AtLeastOne ==
    ASSUME NEW S, NEW u \in Users, pc[u] \in S
    PROVE  Cardinality(At(S)) >= 1
  <1>1. u \in At(S)
    BY DEF At
  <1>2. IsFiniteSet(At(S)) /\ Cardinality(At(S)) \in Nat
    BY AtFinite
  <1> QED
    BY <1>1, <1>2, FS_EmptySet

\* A thread outside some places leaves them at most the others.
LEMMA AtMostTheOthers ==
    ASSUME NEW S, NEW u \in Users, pc[u] \notin S
    PROVE  Cardinality(At(S)) < Cardinality(Users)
  <1>1. At(S) \subseteq Users \ {u}
    BY DEF At
  <1>2. IsFiniteSet(Users \ {u}) /\ Cardinality(Users \ {u}) = Cardinality(Users) - 1
    BY FS_RemoveElement, UsersAssumption
  <1>3. Cardinality(At(S)) <= Cardinality(Users \ {u})
    BY <1>1, <1>2, FS_Subset
  <1>4. Cardinality(Users) \in Nat /\ Cardinality(At(S)) \in Nat
    BY AtFinite, FS_CardinalityType, UsersAssumption
  <1> QED
    BY <1>2, <1>3, <1>4

\* While a thread owes a connection, the pool's size is above that of its queue.
LEMMA OwingMeansMissing ==
    ASSUME TypeOK, PoolAccounted, NEW u \in Users, u \in Owing
    PROVE  Missing
  <1>1. Cardinality(Owing) >= 1 /\ Cardinality(Owing) \in Nat
    BY AtLeastOne, AtFinite DEF Owing, At
  <1> QED
    BY <1>1, PoolSizeAssumption DEF PoolAccounted, TypeOK, Missing

-----------------------------------------------------------------------------
LEMMA InitIInv == Init => IInv
  <1> SUFFICES ASSUME Init PROVE IInv
    OBVIOUS
  <1>1. \A S : "out" \notin S => At(S) = {}
    BY DEF Init, At
  <1>2. Owing = {} /\ At({"push", "close"}) = {} /\ At({"wait"}) = {}
    BY <1>1 DEF Owing
  <1>3. Cardinality({}) = 0
    BY FS_EmptySet
  <1>4. TypeOK
    BY PoolSizeAssumption DEF Init, TypeOK, Places
  <1>5. PoolAccounted /\ OpenAccounted
    BY <1>2, <1>3, PoolSizeAssumption DEF Init, PoolAccounted, OpenAccounted
  <1>6. AcquireFindsOne
    BY <1>2 DEF Init, AcquireFindsOne
  <1> QED
    BY <1>4, <1>5, <1>6 DEF IInv

\* Each step keeps the types; what Pop and the destructor subtract is there.
LEMMA TypeStep ==
    ASSUME IInv, NEW u \in Users, UserStep(u)
    PROVE  TypeOK'
  <1> USE DEF IInv, TypeOK, Places, Move
  <1>1. CASE Acquire(u)
    BY <1>1 DEF Acquire, NotEmpty
  <1>2. CASE AcquireWait(u)
    BY <1>2 DEF AcquireWait
  <1>3. CASE AcquireTimeout(u)
    BY <1>3 DEF AcquireTimeout
  <1>4. CASE ReadSize(u)
    BY <1>4 DEF ReadSize
  <1>5. CASE Open(u)
    BY <1>5 DEF Open
  <1>6. CASE Push(u)
    BY <1>6 DEF Push, OneBack
  <1>7. CASE Close(u)
    <2>1. Cardinality(At({"push", "close"})) >= 1
      BY <1>7, AtLeastOne DEF Close
    <2>2. Cardinality(At({"push", "close"})) \in Nat /\ Cardinality(Owing) \in Nat
      BY AtFinite DEF Owing
    <2>3. open >= 1
      BY <2>1, <2>2 DEF OpenAccounted
    <2> QED
      BY <1>7, <2>3 DEF Close, CloseOld
  <1> QED
    BY <1>1, <1>2, <1>3, <1>4, <1>5, <1>6, <1>7 DEF UserStep

\* Each step keeps the two sums: what leaves one term enters another.
LEMMA SumsStep ==
    ASSUME IInv, NEW u \in Users, UserStep(u), TypeOK'
    PROVE  PoolAccounted' /\ OpenAccounted'
  <1> DEFINE O == {"using", "open", "push"}
             P == {"push", "close"}
  <1> USE DEF Owing, Places
  <1>0. /\ TypeOK /\ PoolAccounted /\ OpenAccounted
        /\ Cardinality(At(O)) \in Nat /\ Cardinality(At(P)) \in Nat
    BY AtFinite DEF IInv
  <1>m. ASSUME NEW place \in Places, Move(u, place)
        PROVE  /\ Cardinality(At(O))' = Cardinality(At(O)) + One(place \in O) - One(pc[u] \in O)
               /\ Cardinality(At(P))' = Cardinality(At(P)) + One(place \in P) - One(pc[u] \in P)
    BY <1>0, <1>m, MoveCounts
  <1> HIDE DEF O, P
  <1>s. PoolAccounted' /\ OpenAccounted'
          <=> /\ idle' + Cardinality(At(O))' + lost' = PoolSize
              /\ open' = idle' + Cardinality(At(O))' + Cardinality(At(P))'
    BY DEF PoolAccounted, OpenAccounted, O, P
  <1>t. /\ idle + Cardinality(At(O)) + lost = PoolSize
        /\ open = idle + Cardinality(At(O)) + Cardinality(At(P))
        /\ idle \in Nat /\ open \in Nat /\ lost \in Nat
    BY <1>0 DEF PoolAccounted, OpenAccounted, O, P, TypeOK
  <1>1. CASE Acquire(u)
    <2>1. /\ Cardinality(At(O))' = Cardinality(At(O)) + 1
          /\ Cardinality(At(P))' = Cardinality(At(P))
      BY <1>0, <1>1, <1>m DEF Acquire, One, O, P
    <2> QED
      BY <1>1, <2>1, <1>0, <1>s, <1>t, PoolSizeAssumption DEF Acquire
  <1>2. CASE AcquireWait(u)
    <2>1. /\ Cardinality(At(O))' = Cardinality(At(O))
          /\ Cardinality(At(P))' = Cardinality(At(P))
      BY <1>0, <1>2, <1>m DEF AcquireWait, One, O, P
    <2> QED
      BY <1>2, <2>1, <1>0, <1>s, <1>t, PoolSizeAssumption DEF AcquireWait
  <1>3. CASE AcquireTimeout(u)
    BY <1>3, <1>s, <1>t DEF AcquireTimeout, At
  <1>4. CASE ReadSize(u)
    <2>1. CASE Move(u, "open") /\ lost' = lost
      <3>1. /\ Cardinality(At(O))' = Cardinality(At(O))
            /\ Cardinality(At(P))' = Cardinality(At(P))
        BY <1>0, <1>4, <2>1, <1>m DEF ReadSize, One, O, P
      <3> QED
        BY <1>4, <2>1, <3>1, <1>0, <1>s, <1>t, PoolSizeAssumption DEF ReadSize
    <2>2. CASE Move(u, "close") /\ lost' = lost + 1
      <3>1. /\ Cardinality(At(O))' = Cardinality(At(O)) - 1
            /\ Cardinality(At(P))' = Cardinality(At(P)) + 1
        BY <1>0, <1>4, <2>2, <1>m DEF ReadSize, One, O, P
      <3> QED
        BY <1>4, <2>2, <3>1, <1>0, <1>s, <1>t, PoolSizeAssumption DEF ReadSize
    <2> QED
      BY <1>4, <2>1, <2>2 DEF ReadSize
  <1>5. CASE Open(u)
    <2>1. CASE open' = open + 1 /\ Move(u, "push")
      <3>1. /\ Cardinality(At(O))' = Cardinality(At(O))
            /\ Cardinality(At(P))' = Cardinality(At(P)) + 1
        BY <1>0, <1>5, <2>1, <1>m DEF Open, One, O, P
      <3> QED
        BY <1>5, <2>1, <3>1, <1>0, <1>s, <1>t, PoolSizeAssumption DEF Open
    <2>2. CASE UNCHANGED <<open, pc>>
      BY <1>5, <2>2, <1>s, <1>t DEF Open, At
    <2> QED
      BY <1>5, <2>1, <2>2 DEF Open
  <1>6. CASE Push(u)
    <2>1. /\ Cardinality(At(O))' = Cardinality(At(O)) - 1
          /\ Cardinality(At(P))' = Cardinality(At(P))
      BY <1>0, <1>6, <1>m DEF Push, One, O, P
    <2> QED
      BY <1>6, <2>1, <1>0, <1>s, <1>t, PoolSizeAssumption DEF Push, OneBack
  <1>7. CASE Close(u)
    <2>1. /\ Cardinality(At(O))' = Cardinality(At(O))
          /\ Cardinality(At(P))' = Cardinality(At(P)) - 1
      BY <1>0, <1>7, <1>m DEF Close, One, O, P
    <2> QED
      BY <1>7, <2>1, <1>0, <1>s, <1>t, PoolSizeAssumption DEF Close, CloseOld
  <1> QED
    BY <1>1, <1>2, <1>3, <1>4, <1>5, <1>6, <1>7 DEF UserStep

\* A thread that finds the queue empty proves that enough connections were lost.
LEMMA AcquireStep ==
    ASSUME IInv, NEW u \in Users, UserStep(u)
    PROVE  AcquireFindsOne'
  <1> USE DEF Move
  <1>0. TypeOK /\ PoolAccounted /\ AcquireFindsOne /\ lost' \in Nat /\ lost' >= lost
    BY DEF IInv, TypeOK, UserStep, Acquire, AcquireWait, AcquireTimeout, ReadSize, Open,
           Push, Close
  <1>1. Cardinality(Users) \in Nat
    BY FS_CardinalityType, UsersAssumption
  <1> SUFFICES ASSUME lost' + Cardinality(Users) <= PoolSize
               PROVE  At({"wait"})' = {} /\ ended' # "null"
    BY DEF AcquireFindsOne
  <1>2. lost + Cardinality(Users) <= PoolSize
    BY <1>0, <1>1, PoolSizeAssumption DEF TypeOK
  <1>3. At({"wait"}) = {} /\ ended # "null"
    BY <1>0, <1>2 DEF AcquireFindsOne
  <1>4. \A v \in Users : pc[v] # "wait"
    BY <1>3 DEF At
  <1>5. ~AcquireWait(u)
    <2> SUFFICES ASSUME AcquireWait(u) PROVE FALSE
      OBVIOUS
    <2>1. Cardinality(Owing) < Cardinality(Users) /\ Cardinality(Owing) \in Nat
      BY AtMostTheOthers, AtFinite DEF Owing, AcquireWait
    <2>2. idle = 0
      BY <1>0 DEF AcquireWait, NotEmpty, TypeOK
    <2> QED
      BY <1>0, <1>1, <1>2, <2>1, <2>2, PoolSizeAssumption DEF PoolAccounted, TypeOK
  <1>6. ~AcquireTimeout(u)
    BY <1>4 DEF AcquireTimeout
  <1>7. ended' # "null"
    BY <1>3, <1>5, <1>6 DEF UserStep, Acquire, ReadSize, Open, Push, Close
  <1>8. \A v \in Users : pc'[v] # "wait"
    BY <1>0, <1>4, <1>5, <1>6 DEF UserStep, Acquire, ReadSize, Open, Push, Close, TypeOK
  <1> QED
    BY <1>7, <1>8 DEF At

LEMMA NextIInv == IInv /\ [Next]_vars => IInv'
  <1> SUFFICES ASSUME IInv, [Next]_vars PROVE IInv'
    OBVIOUS
  <1>1. CASE \E u \in Users : UserStep(u)
    <2>1. PICK u \in Users : UserStep(u)
      BY <1>1
    <2> QED
      BY <2>1, TypeStep, SumsStep, AcquireStep DEF IInv
  <1>2. CASE UNCHANGED vars
    BY <1>2 DEF IInv, vars, TypeOK, PoolAccounted, OpenAccounted, AcquireFindsOne, Owing, At
  <1> QED
    BY <1>1, <1>2 DEF Next

\* IInv holds in every state of the pool (PqxxConnPool's constructor, Acquire,
\* Release and the destructor of a connection).
THEOREM Invariance == Spec => []IInv
  BY InitIInv, NextIInv, PTL DEF Spec

-----------------------------------------------------------------------------
\* Every connection is in the pool, owed by a thread or lost by the race in
\* Release.
THEOREM Accounted == Spec => []PoolAccounted
  <1>1. IInv => PoolAccounted
    BY DEF IInv
  <1> QED
    BY <1>1, Invariance, PTL

\* Acquire never makes a thread wait, nor gives it nullptr, while the pool has
\* a connection for every thread.
THEOREM AcquireSucceeds == Spec => []AcquireFindsOne
  <1>1. IInv => AcquireFindsOne
    BY DEF IInv
  <1> QED
    BY <1>1, Invariance, PTL

\* The connections at the database are bounded, although Release opens a new
\* one before the old one is closed.
THEOREM OpenStaysBounded == Spec => []OpenBounded
  <1>1. IInv => OpenBounded
    <2> SUFFICES ASSUME IInv PROVE OpenBounded
      OBVIOUS
    <2>1. /\ Cardinality(Owing) \in Nat
          /\ Cardinality(At({"push", "close"})) \in Nat
          /\ Cardinality(At({"push", "close"})) <= Cardinality(Users)
      BY AtFinite DEF Owing
    <2>2. Cardinality(Users) \in Nat
      BY FS_CardinalityType, UsersAssumption
    <2> QED
      BY <2>1, <2>2, PoolSizeAssumption
      DEF IInv, TypeOK, PoolAccounted, OpenAccounted, OpenBounded
  <1> QED
    BY <1>1, Invariance, PTL

\* Release replaces the connection it destroys unless another thread changes
\* the queue while it reads the size.
THEOREM OnlyRacesLose == Spec => LostByRacesOnly
  <1> DEFINE Kept == \A u \in Users : ~Racing(u) /\ pc'[u] # pc[u] => lost' = lost
  <1>1. IInv /\ [Next]_vars => [Kept]_vars
    <2> SUFFICES ASSUME IInv, [Next]_vars, NEW u \in Users, ~Racing(u), pc'[u] # pc[u]
                 PROVE  lost' = lost
      OBVIOUS
    <2>1. PICK v \in Users : UserStep(v)
      BY DEF Next, vars
    <2>2. CASE ReadSize(v)
      <3>1. v = u
        BY <2>2 DEF ReadSize, Move, IInv, TypeOK
      <3>2. Missing
        BY <2>2, OwingMeansMissing DEF IInv, ReadSize, Owing, At
      <3> QED
        BY <2>2, <3>1, <3>2 DEF ReadSize
    <2>3. CASE ~ReadSize(v)
      BY <2>1, <2>3 DEF UserStep, Acquire, AcquireWait, AcquireTimeout, Open, Push, Close
    <2> QED
      BY <2>2, <2>3
  <1> QED
    BY <1>1, Invariance, PTL DEF Spec, LostByRacesOnly

-----------------------------------------------------------------------------
(* The pool on the queue as it is written *)

\* The threads that are awake are finitely many.
LEMMA AwakeFinite == IsFiniteSet(Awake) /\ Cardinality(Awake) \in Nat
  <1>1. Awake \subseteq Users
    BY DEF Awake
  <1> QED
    BY <1>1, FS_Subset, FS_CardinalityType, UsersAssumption

\* Who is inside has locked: the others neither look, nor take, nor push.
LEMMA Alone ==
    ASSUME LockHeld, NEW u \in Users, NEW v \in Users,
           step[u] \in {"look", "take", "put"}, step[v] \in {"look", "take", "put"}
    PROVE  u = v
  BY DEF LockHeld

-----------------------------------------------------------------------------
LEMMA InitQInv == QInit => QInv
  <1> SUFFICES ASSUME QInit PROVE QInv
    OBVIOUS
  <1>1. QTypeOK
    BY PoolSizeAssumption DEF QInit, Init, QTypeOK, TypeOK, Places, Steps
  <1>2. LockHeld
    BY NobodyAssumption DEF QInit, Init, LockHeld
  <1>3. NoLostWakeUp
    BY DEF QInit, NoLostWakeUp
  <1> QED
    BY <1>1, <1>2, <1>3 DEF QInv

\* Each step keeps the types, who has the lock, and what he has found.
LEMMA LockStep ==
    ASSUME QTypeOK, LockHeld, NEW u \in Users, ThreadStep(u), TypeOK'
    PROVE  QTypeOK' /\ LockHeld'
  <1> USE NobodyAssumption DEF QTypeOK, LockHeld, Steps, GoOn
  <1>1. CASE LockPop(u)
    BY <1>1 DEF LockPop, Lock, MayLock, Locked, vars, TypeOK, NotEmpty
  <1>2. CASE Find(u)
    BY <1>2 DEF Find, vars, TypeOK, NotEmpty
  <1>3. CASE Block(u)
    BY <1>3 DEF Block, Unlock, Move, TypeOK, NotEmpty
  <1>4. CASE Wake(u)
    BY <1>4 DEF Wake, vars, TypeOK, NotEmpty
  <1>5. CASE Expire(u)
    BY <1>5 DEF Expire, AcquireTimeout, TypeOK, NotEmpty
  <1>6. CASE Take(u)
    BY <1>6 DEF Take, Unlock, Move, TypeOK, NotEmpty
  <1>7. CASE LockPush(u)
    BY <1>7 DEF LockPush, Lock, MayLock, vars, TypeOK, NotEmpty
  <1>8. CASE Put(u)
    BY <1>8 DEF Put, Push, Unlock, Move, Left, TypeOK, NotEmpty
  <1>9. CASE NotifyOne(u)
    BY <1>9 DEF NotifyOne, vars, TypeOK, NotEmpty
  <1>10. CASE Outside(u)
    <2>1. /\ step[u] = "none" /\ UNCHANGED <<owner, waiters, step, idle>>
          /\ pc[u] \in {"using", "open", "close"}
          /\ \A v \in Users \ {u} : pc'[v] = pc[v]
      BY <1>10 DEF Outside, ReadSize, Open, Close, Move, TypeOK
    <2> QED
      BY <2>1, <1>10 DEF NotEmpty
  <1> QED
    BY <1>1, <1>2, <1>3, <1>4, <1>5, <1>6, <1>7, <1>8, <1>9, <1>10 DEF ThreadStep

-----------------------------------------------------------------------------
\* What a thread's step is to the pool of ConnPool: nothing, or one of its steps.
LEMMA StepImplements ==
    ASSUME QTypeOK, LockHeld, NEW u \in Users, ThreadStep(u)
    PROVE  UserStep(u) \/ UNCHANGED vars
  <1> USE DEF UserStep
  <1>1. CASE LockPop(u) \/ Find(u) \/ Wake(u) \/ LockPush(u) \/ NotifyOne(u)
    BY <1>1 DEF LockPop, Find, Wake, LockPush, NotifyOne
  <1>2. CASE Block(u)
    <2>1. CASE pc[u] = "out"
      BY <1>2, <2>1 DEF Block, AcquireWait
    <2>2. CASE pc[u] = "wait"
      BY <1>2, <2>2 DEF Block, Move, vars, QTypeOK, TypeOK
    <2> QED
      BY <1>2, <2>1, <2>2 DEF Block, LockHeld
  <1>3. CASE Expire(u)
    BY <1>3 DEF Expire
  <1>4. CASE Take(u)
    BY <1>4 DEF Take, Acquire, LockHeld
  <1>5. CASE Put(u)
    BY <1>5 DEF Put
  <1>6. CASE Outside(u)
    BY <1>6 DEF Outside
  <1> QED
    BY <1>1, <1>2, <1>3, <1>4, <1>5, <1>6 DEF ThreadStep

-----------------------------------------------------------------------------
\* Each step leaves enough threads awake for the connections in the queue.
LEMMA WakeStep ==
    ASSUME QTypeOK, LockHeld, NoLostWakeUp, NEW u \in Users, ThreadStep(u),
           QTypeOK', LockHeld'
    PROVE  NoLostWakeUp'
  <1> SUFFICES ASSUME waiters' # {} PROVE idle' <= Cardinality(Awake)'
    BY DEF NoLostWakeUp
  <1> USE DEF QTypeOK, Steps, GoOn
  <1>0. idle \in Nat /\ idle' \in Nat
    BY DEF TypeOK
  <1>f. /\ IsFiniteSet(Awake) /\ Cardinality(Awake) \in Nat
        /\ IsFiniteSet(Awake') /\ Cardinality(Awake') \in Nat
    <2>1. Awake' \subseteq Users
      BY DEF Awake
    <2>2. IsFiniteSet(Awake') /\ Cardinality(Awake') \in Nat
      BY <2>1, FS_Subset, FS_CardinalityType, UsersAssumption
    <2> QED
      BY <2>2, AwakeFinite
  <1>g. Awake \subseteq Awake' => Cardinality(Awake) <= Cardinality(Awake')
    BY <1>f, FS_Subset
  \* No connection comes, no thread falls asleep.
  <1>1. CASE LockPop(u) \/ Find(u) \/ Wake(u) \/ Expire(u) \/ LockPush(u) \/ Outside(u)
    <2>1. idle' = idle /\ waiters # {}
      BY <1>1 DEF LockPop, Find, Wake, Expire, LockPush, Outside, vars, AcquireTimeout,
                  ReadSize, Open, Close
    <2>2. Awake \subseteq Awake'
      <3>1. CASE LockPop(u)
        BY <3>1 DEF LockPop, vars, Awake, Locked
      <3>2. CASE Find(u) \/ Wake(u) \/ Expire(u) \/ LockPush(u)
        BY <3>2 DEF Find, Wake, Expire, LockPush, vars, AcquireTimeout, Awake, LockHeld
      <3>3. CASE Outside(u)
        BY <3>3 DEF Outside, ReadSize, Open, Close, Move, Awake, TypeOK
      <3> QED
        BY <1>1, <3>1, <3>2, <3>3
    <2> QED
      BY <2>1, <2>2, <1>0, <1>f, <1>g DEF NoLostWakeUp
  \* A thread falls asleep when there is nothing.
  <1>2. CASE Block(u)
    BY <1>2, <1>0, <1>f DEF Block, NotEmpty
  \* One connection and one thread leave.
  <1>3. CASE Take(u)
    <2>1. Awake' = Awake \ {u} /\ u \in Awake
      BY <1>3 DEF Take, Move, Awake, LockHeld, TypeOK
    <2>2. Cardinality(Awake') = Cardinality(Awake) - 1
      BY <2>1, <1>f, FS_RemoveElement
    <2>3. idle' = idle - 1 /\ waiters # {}
      BY <1>3 DEF Take
    <2> QED
      BY <2>2, <2>3, <1>0, <1>f DEF NoLostWakeUp
  \* One connection comes, and a thread that will notify.
  <1>4. CASE Put(u)
    <2>1. Awake' = Awake \cup {u} /\ u \notin Awake
      BY <1>4 DEF Put, Push, Left, Move, Awake, LockHeld, TypeOK
    <2>2. Cardinality(Awake') = Cardinality(Awake) + 1
      BY <2>1, <1>f, FS_AddElement
    <2>3. idle' = idle + 1 /\ waiters # {}
      BY <1>4 DEF Put, Push, OneBack
    <2> QED
      BY <2>2, <2>3, <1>0, <1>f DEF NoLostWakeUp
  \* The thread that notifies is replaced by the one it wakes.
  <1>5. CASE NotifyOne(u)
    <2>1. PICK w \in waiters : waiters' = waiters \ {w}
      BY <1>5 DEF NotifyOne
    <2>2. w \in Users /\ w # u /\ pc[w] = "wait" /\ step[w] = "none" /\ pc[u] = "close"
      BY <1>5, <2>1 DEF NotifyOne, LockHeld
    <2>3. u \in Awake /\ w \notin Awake /\ w \notin Awake \ {u}
      BY <1>5, <2>1, <2>2 DEF NotifyOne, Awake
    <2>4. Awake' = (Awake \ {u}) \cup {w}
      BY <1>5, <2>1, <2>2 DEF NotifyOne, vars, Awake
    <2>5. IsFiniteSet(Awake \ {u}) /\ Cardinality(Awake \ {u}) = Cardinality(Awake) - 1
      BY <2>3, <1>f, FS_RemoveElement
    <2>6. Cardinality(Awake') = Cardinality(Awake \ {u}) + 1
      BY <2>3, <2>4, <2>5, FS_AddElement
    <2>7. idle' = idle /\ waiters # {}
      BY <1>5, <2>1 DEF NotifyOne, vars
    <2> QED
      BY <2>5, <2>6, <2>7, <1>0, <1>f DEF NoLostWakeUp
  <1> QED
    BY <1>1, <1>2, <1>3, <1>4, <1>5 DEF ThreadStep

-----------------------------------------------------------------------------
\* Whatever the thread does, the pool's own invariant and the queue's go on.
LEMMA NextQInv == IInv /\ QInv /\ [QNext]_qvars => IInv' /\ QInv' /\ [Next]_vars
  <1> SUFFICES ASSUME IInv, QInv, [QNext]_qvars PROVE IInv' /\ QInv' /\ [Next]_vars
    OBVIOUS
  <1>1. [Next]_vars
    BY StepImplements DEF QInv, QNext, Next, qvars
  <1>2. IInv'
    BY <1>1, NextIInv
  <1>3. QInv'
    <2>1. CASE \E u \in Users : ThreadStep(u)
      <3>1. PICK u \in Users : ThreadStep(u)
        BY <2>1
      <3>2. QTypeOK' /\ LockHeld'
        BY <3>1, <1>2, LockStep DEF QInv, IInv
      <3> QED
        BY <3>1, <3>2, WakeStep DEF QInv
    <2>2. CASE UNCHANGED qvars
      BY <2>2 DEF qvars, vars, QInv, QTypeOK, TypeOK, LockHeld, NotEmpty, NoLostWakeUp, Awake
    <2> QED
      BY <2>1, <2>2 DEF QNext
  <1> QED
    BY <1>1, <1>2, <1>3

\* The lock makes one step of what Pop and Push do to the queue: the pool on its
\* BlockingQueue implements the pool whose Acquire and Push are atomic.
THEOREM QueueIsAtomic == QSpec => ImplementsPool
  <1>1. QInit => Init /\ IInv /\ QInv
    BY InitIInv, InitQInv DEF QInit
  <1> QED
    BY <1>1, NextQInv, PTL DEF QSpec, ImplementsPool, Spec

\* The mutex has one owner, and what he found in the queue stays until he takes it
\* (BlockingQueue's Pop and Push).
THEOREM QueueInvariance == QSpec => []QInv
  <1>1. QInit => IInv /\ QInv
    BY InitIInv, InitQInv DEF QInit
  <1> QED
    BY <1>1, NextQInv, PTL DEF QSpec

\* Push notifies after it has unlocked, and a thread that was woken may find the
\* queue empty; still no thread sleeps beside a connection that nobody comes for.
THEOREM NoWakeUpIsLost == QSpec => []NoLostWakeUp
  <1>1. QInv => NoLostWakeUp
    BY DEF QInv
  <1> QED
    BY <1>1, QueueInvariance, PTL

\* The theorems about the pool hold of it on its real queue.
THEOREM QueuedAcquireSucceeds == QSpec => []AcquireFindsOne
  BY QueueIsAtomic, AcquireSucceeds, PTL DEF ImplementsPool
=============================================================================
