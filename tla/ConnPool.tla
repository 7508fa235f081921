------------------------------ MODULE ConnPool ------------------------------
(***************************************************************************)
(* The pool of connections the proxy's own queries use (PqxxConnPool).     *)
(* A connection is never given back: its destructor, run by the thread     *)
(* that used it, calls Release, which opens a new one and puts that in the *)
(* pool, and only then is the old one closed.  Release first compares the  *)
(* pool's size with the size of its queue, which it reads without the      *)
(* queue's lock.                                                           *)
(***************************************************************************)
EXTENDS Naturals, FiniteSets

CONSTANTS
    Users,     \* the threads that acquire connections
    PoolSize   \* size_

ASSUME UsersAssumption == IsFiniteSet(Users)
ASSUME PoolSizeAssumption == PoolSize \in Nat

VARIABLES
    idle,  \* how many connections conns_ holds
    pc,    \* where each user is
    open,  \* how many connections are open at the database
    ended, \* what ended the process: nothing, a null connection, an exception
    lost   \* history: connections that Release did not replace

vars == <<idle, pc, open, ended, lost>>

\* out: without a connection.     wait: in Acquire, waiting.   using: has one.
\* open: in Release, opening one. push: about to push it.      close: after Release.
Places == {"out", "wait", "using", "open", "push", "close"}

TypeOK ==
    /\ idle \in Nat
    /\ pc \in [Users -> Places]
    /\ open \in Nat
    /\ ended \in {"no", "null", "throw"}
    /\ lost \in Nat

\* The constructor fills the pool.
Init ==
    /\ idle = PoolSize
    /\ pc = [u \in Users |-> "out"]
    /\ open = PoolSize
    /\ ended = "no"
    /\ lost = 0

-----------------------------------------------------------------------------
Move(u, place) == pc' = [pc EXCEPT ![u] = place]

\* The condition of Pop: !q_.empty().
NotEmpty == idle > 0

\* Acquire, at once or after a wait.
Acquire(u) ==
    /\ pc[u] \in {"out", "wait"}
    /\ NotEmpty
    /\ idle' = idle - 1
    /\ Move(u, "using")
    /\ UNCHANGED <<open, ended, lost>>

AcquireWait(u) ==
    /\ pc[u] = "out"
    /\ ~NotEmpty
    /\ Move(u, "wait")
    /\ UNCHANGED <<idle, open, ended, lost>>

\* The wait of 500 ms ends without a connection, although one may have come
\* meanwhile; no caller looks at the result before it uses it.
AcquireTimeout(u) ==
    /\ pc[u] = "wait"
    /\ ended' = "null"
    /\ UNCHANGED <<idle, pc, open, lost>>

\* Whether another user may be changing the queue now.
Racing(u) == \E v \in Users \ {u} : pc[v] \in {"out", "wait", "push"}

\* Mutant: the user's own connection is counted as if it were back already.
OneFewer == PoolSize > idle + 1

\* The test of Release, when nothing disturbs it.
Missing == PoolSize > idle

\* The user is done and its connection is destroyed: Release looks at the size,
\* which is anything when another thread changes the queue at that moment.
ReadSize(u) ==
    /\ pc[u] = "using"
    /\ \E missing \in BOOLEAN :
         /\ missing = Missing \/ Racing(u)
         /\ Move(u, IF missing THEN "open" ELSE "close")
         /\ lost' = IF missing THEN lost ELSE lost + 1
    /\ UNCHANGED <<idle, open, ended>>

\* The new connection is opened, and one that cannot be ends the process: the
\* exception leaves a destructor.
Open(u) ==
    /\ pc[u] = "open"
    /\ \/ /\ open' = open + 1
          /\ Move(u, "push")
          /\ UNCHANGED ended
       \/ /\ ended' = "throw"
          /\ UNCHANGED <<open, pc>>
    /\ UNCHANGED <<idle, lost>>

\* Mutant: the new connection is not put into the pool.
NoneBack == idle

\* The new connection is in the pool.
OneBack == idle + 1

Push(u) ==
    /\ pc[u] = "push"
    /\ idle' = OneBack
    /\ Move(u, "close")
    /\ UNCHANGED <<open, ended, lost>>

\* Mutant: the base class's destructor does not close the connection.
StayOpen == open

\* The base class's destructor closes the old connection.
CloseOld == open - 1

Close(u) ==
    /\ pc[u] = "close"
    /\ open' = CloseOld
    /\ Move(u, "out")
    /\ UNCHANGED <<idle, ended, lost>>

UserStep(u) ==
    \/ Acquire(u) \/ AcquireWait(u) \/ AcquireTimeout(u)
    \/ ReadSize(u) \/ Open(u) \/ Push(u) \/ Close(u)

Next ==
    \/ ended = "no" /\ \E u \in Users : UserStep(u)
    \/ ended # "no" /\ UNCHANGED vars

Spec == Init /\ [][Next]_vars

-----------------------------------------------------------------------------
(* Properties *)

At(places) == {u \in Users : pc[u] \in places}

\* The users that took a connection which is not yet replaced.
Owing == At({"using", "open", "push"})

\* No connection is forgotten or counted twice: each is in the pool, owed by a
\* user, or was lost by Release (which replaces the connection it destroys).
PoolAccounted == idle + Cardinality(Owing) + lost = PoolSize

\* Release fails to replace a connection only when another thread changes the
\* queue while it reads the size; its test is never false by itself.
LostByRacesOnly == [][\A u \in Users : ~Racing(u) /\ pc'[u] # pc[u] => lost' = lost]_vars

\* While the pool has a connection for every thread, Acquire finds one at once:
\* no thread waits, and none is given the nullptr that its callers (Initiate
\* and two plugins) would dereference.
AcquireFindsOne ==
    lost + Cardinality(Users) <= PoolSize => At({"wait"}) = {} /\ ended # "null"

\* The database sees at most one connection per thread more than the pool has
\* (max_connections must allow for them): a new connection is opened while the
\* one it replaces is still open.
OpenBounded == open <= PoolSize + Cardinality(Users)

-----------------------------------------------------------------------------
\* What OpenBounded needs to be inductive: every open connection is accounted for.
OpenAccounted ==
    open = idle + Cardinality(Owing) + Cardinality(At({"push", "close"}))

IInv == TypeOK /\ PoolAccounted /\ OpenAccounted /\ AcquireFindsOne
=============================================================================
