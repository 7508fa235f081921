----------------------------- MODULE QueuedPool -----------------------------
(***************************************************************************)
(* The connection pool on its BlockingQueue as it is written: a mutex, a   *)
(* condition variable, and a notification that follows the unlock.  What   *)
(* ConnPool does in one step, Pop and Push, is done here by a thread that  *)
(* locks, looks, and takes or waits, while others run; and a wait ends by  *)
(* a notification, by itself, or by the clock, after which the thread has  *)
(* to lock again.  The variables of ConnPool are the same.                 *)
(***************************************************************************)
EXTENDS ConnPool

CONSTANT Nobody  \* no thread

ASSUME NobodyAssumption == Nobody \notin Users

VARIABLES
    owner,    \* who has locked m_
    waiters,  \* who is blocked in cv_
    step      \* where each thread is inside Pop and Push

qvars == <<vars, owner, waiters, step>>

\* none: not inside, or blocked, or about to lock.  look: has locked, tests q_.empty().
\* take: has found an item.   put: has locked, to push.   notify: has pushed and unlocked.
Steps == {"none", "look", "take", "put", "notify"}

QTypeOK ==
    /\ TypeOK
    /\ owner \in Users \cup {Nobody}
    /\ waiters \in SUBSET Users
    /\ step \in [Users -> Steps]

QInit ==
    /\ Init
    /\ owner = Nobody
    /\ waiters = {}
    /\ step = [u \in Users |-> "none"]

-----------------------------------------------------------------------------
GoOn(u, s) == step' = [step EXCEPT ![u] = s]

MayLock == owner = Nobody

Lock(u) == MayLock /\ owner' = u
Unlock(u) == owner = u /\ owner' = Nobody

\* Mutant: Pop tests the queue once, and after a wait not again.
NoSecondLook(u) == IF pc[u] = "wait" THEN "take" ELSE "look"

\* Whenever it has the lock, Pop looks whether there is an item.
Locked(u) == "look"

\* Pop locks when it is called, and again when its wait has ended.
LockPop(u) ==
    /\ step[u] = "none"
    /\ \/ pc[u] = "out"
       \/ pc[u] = "wait" /\ u \notin waiters
    /\ Lock(u)
    /\ GoOn(u, Locked(u))
    /\ UNCHANGED <<vars, waiters>>

\* There is an item.
Find(u) ==
    /\ step[u] = "look"
    /\ NotEmpty
    /\ GoOn(u, "take")
    /\ UNCHANGED <<vars, owner, waiters>>

\* There is none: the thread unlocks and blocks, in one step.
Block(u) ==
    /\ step[u] = "look"
    /\ ~NotEmpty
    /\ Move(u, "wait")
    /\ waiters' = waiters \cup {u}
    /\ Unlock(u)
    /\ GoOn(u, "none")
    /\ UNCHANGED <<idle, open, ended, lost>>

\* A wait that ends by the clock, or by itself.
Wake(u) ==
    /\ u \in waiters
    /\ waiters' = waiters \ {u}
    /\ UNCHANGED <<vars, owner, step>>

\* The time was over when the thread woke up: Pop returns without a look, and
\* Acquire gives nullptr.
Expire(u) ==
    /\ step[u] = "look"
    /\ AcquireTimeout(u)
    /\ UNCHANGED <<owner, waiters, step>>

Take(u) ==
    /\ step[u] = "take"
    /\ idle' = idle - 1
    /\ Move(u, "using")
    /\ Unlock(u)
    /\ GoOn(u, "none")
    /\ UNCHANGED <<open, ended, lost, waiters>>

LockPush(u) ==
    /\ step[u] = "none"
    /\ pc[u] = "push"
    /\ Lock(u)
    /\ GoOn(u, "put")
    /\ UNCHANGED <<vars, waiters>>

\* Mutant: Push notifies nobody.
ToldNobody == "none"

\* What is left of Push once it has unlocked: notify_one.
Left == "notify"

Put(u) ==
    /\ step[u] = "put"
    /\ Push(u)
    /\ Unlock(u)
    /\ GoOn(u, Left)
    /\ UNCHANGED waiters

\* One waiter, any, is woken, if there is one.
NotifyOne(u) ==
    /\ step[u] = "notify"
    /\ IF waiters = {} THEN UNCHANGED waiters
       ELSE \E w \in waiters : waiters' = waiters \ {w}
    /\ GoOn(u, "none")
    /\ UNCHANGED <<vars, owner>>

\* Outside of the queue, a thread does as in ConnPool.
Outside(u) ==
    /\ step[u] = "none"
    /\ ReadSize(u) \/ Open(u) \/ Close(u)
    /\ UNCHANGED <<owner, waiters, step>>

ThreadStep(u) ==
    \/ LockPop(u) \/ Find(u) \/ Block(u) \/ Wake(u) \/ Expire(u) \/ Take(u)
    \/ LockPush(u) \/ Put(u) \/ NotifyOne(u)
    \/ Outside(u)

QNext ==
    \/ ended = "no" /\ \E u \in Users : ThreadStep(u)
    \/ ended # "no" /\ UNCHANGED qvars

QSpec == QInit /\ [][QNext]_qvars

-----------------------------------------------------------------------------
(* Properties *)

\* The pool on its real queue is the pool with an atomic one: BlockingQueue's
\* lock makes one step of what Pop and Push do to q_.
ImplementsPool == Spec

\* The threads that will look at the queue before they block, or make another
\* one do so.
Awake ==
    {u \in Users : \/ step[u] \in {"look", "take", "notify"}
                   \/ pc[u] = "wait" /\ u \notin waiters}

\* No wake-up is lost, although the notification comes after the unlock and may
\* wake a thread that another one outruns: while a thread is blocked, there is
\* for every connection in the queue another thread that is awake for it.
NoLostWakeUp == waiters # {} => idle <= Cardinality(Awake)

-----------------------------------------------------------------------------
\* What these rest on: who is inside has locked, alone, and what he has found
\* is there until he takes it.
LockHeld ==
    \A u \in Users :
        /\ step[u] \in {"look", "take", "put"} <=> owner = u
        /\ step[u] = "look" => pc[u] \in {"out", "wait"}
        /\ step[u] = "take" => pc[u] \in {"out", "wait"} /\ NotEmpty
        /\ step[u] = "put" => pc[u] = "push"
        /\ step[u] = "notify" => pc[u] = "close"
        /\ u \in waiters => pc[u] = "wait" /\ step[u] = "none"

QInv == QTypeOK /\ LockHeld /\ NoLostWakeUp
=============================================================================
