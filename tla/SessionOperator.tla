-------------------------- MODULE SessionOperator --------------------------
(***************************************************************************)
(* The session operator: a ThreadPool whose jobs are the client sessions.  *)
(* A session is handed, as a bare pointer, from the accept loop to the job *)
(* queue, from the queue to a worker thread, and from the worker back to   *)
(* the queue or to epoll; the watcher thread takes ready sessions out of   *)
(* epoll and queues them again.  No lock protects a session: the code is   *)
(* correct only if every session has one owner at any time.                *)
(*                                                                         *)
(* What a session does when it runs is left open here (Run lets it choose  *)
(* any event to wait for); module Session gives it and module Proxy puts   *)
(* the two together.                                                       *)
(***************************************************************************)
EXTENDS Naturals, Sequences, FiniteSets

CONSTANTS
    Sessions,   \* every session object the accept loop may create
    Workers,    \* the threads of the pool
    MaxEvents,  \* MAX_EVENTS: the most entries one epoll_wait returns
    None        \* the null pointer

ASSUME NoneIsNoSession == None \notin Sessions
ASSUME SomeEvents == MaxEvents \in Nat \ {0}

VARIABLES
    life,        \* a session object is new (not created), live or deleted
    waiting,     \* context_.waiting_ of each session
    terminated,  \* StateMachine::terminated_ of each session
    ev,          \* context_.ev_ of each session: which socket, which event
    queue,       \* job_queue_
    epoll,       \* the entries registered with epollfd_
    wpc,         \* where each worker is in its loop
    held,        \* the local variable `session` of each worker
    watcher,     \* where the watcher is in its loop
    batch,       \* the entries of events[] the watcher has still to treat
    hand,        \* the watcher's local s, between the DEL and the Submit
    stopped,     \* ThreadPool::stopped_
    failed       \* exit(EXIT_FAILURE) after an epoll_ctl that failed

sessionVars == <<waiting, terminated, ev>>
workerVars  == <<wpc, held>>
watcherVars == <<watcher, batch, hand>>
vars == <<life, sessionVars, queue, epoll, workerVars, watcherVars, stopped, failed>>

-----------------------------------------------------------------------------
\* context_.ev_: the socket it names (by the side it connects to) and EPOLLIN
\* or EPOLLOUT; NoEvent is the zeroed structure of a new or reset context.
NoEvent == [side |-> "none", events |-> "none"]
Events  == [side : {"client", "server"}, events : {"in", "out"}] \cup {NoEvent}

\* An epoll entry: the session it points to, the socket and the event.
Entry(s) == [ptr |-> s, side |-> ev[s].side, events |-> ev[s].events]
Entries  == [ptr : Sessions, side : {"client", "server"}, events : {"in", "out"}]

\* Whether the socket named by the session's ev_ is registered with epoll.
Registered(s) == \E e \in epoll : e.ptr = s /\ e.side = ev[s].side

\* The places that can hold a pointer to a session.
Queued(s)  == \E i \in DOMAIN queue : queue[i] = s
Held(s)    == \E w \in Workers : held[w] = s
Watched(s) == \E e \in epoll : e.ptr = s
InHand(s)  == hand = s

TypeOK ==
    /\ life \in [Sessions -> {"new", "live", "deleted"}]
    /\ waiting \in [Sessions -> BOOLEAN]
    /\ terminated \in [Sessions -> BOOLEAN]
    /\ ev \in [Sessions -> Events]
    /\ queue \in Seq(Sessions)
    /\ epoll \subseteq Entries
    /\ wpc \in [Workers -> {"loop", "pop", "wait", "dispatch", "route", "exited"}]
    /\ held \in [Workers -> Sessions \cup {None}]
    /\ watcher \in {"loop", "wait", "submit", "exited"}
    /\ batch \subseteq Entries
    /\ hand \in Sessions \cup {None}
    /\ stopped \in BOOLEAN
    /\ failed \in BOOLEAN

Init ==
    /\ life = [s \in Sessions |-> "new"]
    /\ waiting = [s \in Sessions |-> FALSE]
    /\ terminated = [s \in Sessions |-> FALSE]
    /\ ev = [s \in Sessions |-> NoEvent]
    /\ queue = <<>>
    /\ epoll = {}
    /\ wpc = [w \in Workers |-> "loop"]
    /\ held = [w \in Workers |-> None]
    /\ watcher = "loop"
    /\ batch = {}
    /\ hand = None
    /\ stopped = FALSE
    /\ failed = FALSE

-----------------------------------------------------------------------------
(* Steps the threads share *)

\* Mutant: the job goes to the front of the queue.
SubmitFirst(s) == queue' = <<s>> \o queue

\* ThreadPool::Submit.
Submit(s) == queue' = Append(queue, s)

\* Mutant: while (true).
Forever(next) == next

\* The condition of both loops: while (!stopped_).
UnlessStopped(next) == IF stopped THEN "exited" ELSE next

\* Mutant: the worker's pointer outlives the call of Work.
KeepSession(w) ==
    /\ wpc' = [wpc EXCEPT ![w] = "loop"]
    /\ UNCHANGED held

\* Work returns: its local `session` is gone.
ReturnFromWork(w) ==
    /\ wpc' = [wpc EXCEPT ![w] = "loop"]
    /\ held' = [held EXCEPT ![w] = None]

\* Mutant: the entry stays.
NoDel(s) == epoll

\* EPOLL_CTL_DEL of the socket that the session's ev_ names now.
Del(s) == {e \in epoll : ~(e.ptr = s /\ e.side = ev[s].side)}

\* Mutant: an entry is gone once it is reported.
OneShot(ready) == epoll \ ready

\* epoll is level-triggered: a reported entry stays until it is deleted.
LevelTriggered(ready) == epoll

\* Mutant: the for loop ends after one event.
NoneRemain(b) == {}

\* The events the for loop has still to treat after b.
Remain(b) == batch \ {b}

-----------------------------------------------------------------------------
(* The accept loop, on the main thread *)

\* ProxyServer::Run creates a session and submits it.  Run and Stop are both
\* called by the main thread, so nothing is accepted once stopped_ is set.
Accept(s) ==
    /\ ~stopped
    /\ life[s] = "new"
    /\ life' = [life EXCEPT ![s] = "live"]
    /\ Submit(s)
    /\ UNCHANGED <<sessionVars, epoll, workerVars, watcherVars, stopped, failed>>

\* ThreadPool::Stop sets the flag; the joins it then waits for are StopJoins.
Stop ==
    /\ ~stopped
    /\ stopped' = TRUE
    /\ UNCHANGED <<life, sessionVars, queue, epoll, workerVars, watcherVars, failed>>

-----------------------------------------------------------------------------
(* Worker threads: while (!stopped_) Work(); *)

BeginWork(w) ==
    /\ wpc[w] = "loop"
    /\ wpc' = [wpc EXCEPT ![w] = UnlessStopped("pop")]
    /\ UNCHANGED <<life, sessionVars, queue, epoll, held, watcherVars, stopped, failed>>

\* Pop returns true: at once, or after the worker was woken.
Pop(w) ==
    /\ wpc[w] \in {"pop", "wait"}
    /\ queue # <<>>
    /\ held' = [held EXCEPT ![w] = Head(queue)]
    /\ queue' = Tail(queue)
    /\ wpc' = [wpc EXCEPT ![w] = "dispatch"]
    /\ UNCHANGED <<life, sessionVars, epoll, watcherVars, stopped, failed>>

\* Pop finds the queue empty and waits on the condition variable.
PopWait(w) ==
    /\ wpc[w] = "pop"
    /\ queue = <<>>
    /\ wpc' = [wpc EXCEPT ![w] = "wait"]
    /\ UNCHANGED <<life, sessionVars, queue, epoll, held, watcherVars, stopped, failed>>

\* The wait times out and Pop returns false without looking at the queue
\* again: a session queued meanwhile is left for the next Pop.
PopTimeout(w) ==
    /\ wpc[w] = "wait"
    /\ wpc' = [wpc EXCEPT ![w] = "loop"]
    /\ UNCHANGED <<life, sessionVars, queue, epoll, held, watcherVars, stopped, failed>>

\* `delete session`: the destructor closes both sockets, and closing a socket
\* takes it out of epoll.
DeleteSession(w) ==
    LET s == held[w] IN
    /\ wpc[w] = "dispatch"
    /\ terminated[s]
    /\ life' = [life EXCEPT ![s] = "deleted"]
    /\ epoll' = {e \in epoll : e.ptr # s}
    /\ ReturnFromWork(w)
    /\ UNCHANGED <<sessionVars, queue, watcherVars, stopped, failed>>

\* The worker's side of `(*session)();`.
BeginRun(w) ==
    /\ wpc[w] = "dispatch"
    /\ ~terminated[held[w]]
    /\ wpc' = [wpc EXCEPT ![w] = "route"]
    /\ UNCHANGED <<life, queue, epoll, held, watcherVars, stopped, failed>>

\* The session takes one action of its state machine.  All the operator relies
\* on is that a session that waits has said for which event of which socket.
Run(w) ==
    LET s == held[w] IN
    /\ BeginRun(w)
    /\ \E wt, tm \in BOOLEAN, e \in Events :
         /\ wt => e # NoEvent
         /\ waiting' = [waiting EXCEPT ![s] = wt]
         /\ terminated' = [terminated EXCEPT ![s] = tm]
         /\ ev' = [ev EXCEPT ![s] = e]

\* AddToWatch: EPOLL_CTL_ADD of the socket in ev_ fails, and the process
\* exits, when that socket is registered already or is no socket at all.
AddToWatch(w) ==
    LET s == held[w]
        ok == ~Registered(s) /\ ev[s] # NoEvent
    IN  /\ wpc[w] = "route"
        /\ waiting[s]
        /\ epoll' = IF ok THEN epoll \cup {Entry(s)} ELSE epoll
        /\ failed' = ~ok
        /\ ReturnFromWork(w)
        /\ UNCHANGED <<life, sessionVars, queue, watcherVars, stopped>>

\* Submit(session): back to the queue, without waiting.
Resubmit(w) ==
    LET s == held[w] IN
    /\ wpc[w] = "route"
    /\ ~waiting[s]
    /\ Submit(s)
    /\ ReturnFromWork(w)
    /\ UNCHANGED <<life, sessionVars, epoll, watcherVars, stopped, failed>>

\* What a worker does apart from running the session.
WorkerLoop(w) ==
    \/ BeginWork(w)
    \/ Pop(w)
    \/ PopWait(w)
    \/ PopTimeout(w)
    \/ DeleteSession(w)
    \/ AddToWatch(w)
    \/ Resubmit(w)

-----------------------------------------------------------------------------
(* The watcher thread: Watch() *)

\* The head of the while loop, reached when the for loop has treated the batch.
BeginWatch ==
    /\ watcher = "loop"
    /\ batch = {}
    /\ watcher' = UnlessStopped("wait")
    /\ UNCHANGED <<life, sessionVars, queue, epoll, workerVars, batch, hand, stopped, failed>>

\* epoll_wait returns up to MAX_EVENTS ready entries, none after a timeout or
\* an EINTR.  Reporting an entry does not unregister it.
EpollWait(ready) ==
    /\ watcher = "wait"
    /\ ready \subseteq epoll
    /\ Cardinality(ready) <= MaxEvents
    /\ batch' = ready
    /\ epoll' = LevelTriggered(ready)
    /\ watcher' = "loop"
    /\ UNCHANGED <<life, sessionVars, queue, workerVars, hand, stopped, failed>>

\* The socket to unregister is read from the session, not from the event: the
\* DEL fails, and the process exits, unless that socket is registered.
Unwatch ==
    \E b \in batch :
        LET s == b.ptr IN
        /\ watcher = "loop"
        /\ epoll' = Del(s)
        /\ failed' = ~Registered(s)
        /\ batch' = Remain(b)
        /\ hand' = s
        /\ watcher' = "submit"
        /\ UNCHANGED <<life, sessionVars, queue, workerVars, stopped>>

\* Submit(s): the ready session goes back to the queue.
SubmitReady ==
    /\ watcher = "submit"
    /\ Submit(hand)
    /\ hand' = None
    /\ watcher' = "loop"
    /\ UNCHANGED <<life, sessionVars, epoll, workerVars, batch, stopped, failed>>

\* What the watcher does apart from its wait.
WatcherLoop == BeginWatch \/ Unwatch \/ SubmitReady

-----------------------------------------------------------------------------
AllExited == watcher = "exited" /\ \A w \in Workers : wpc[w] = "exited"

\* Every thread has been joined.
Terminated == stopped /\ AllExited /\ UNCHANGED vars

Worker(w) == ~failed /\ (WorkerLoop(w) \/ Run(w))
Watcher   == ~failed /\ (WatcherLoop \/ \E ready \in SUBSET epoll : EpollWait(ready))
Main      == ~failed /\ (Stop \/ \E s \in Sessions : Accept(s))

Next == Main \/ (\E w \in Workers : Worker(w)) \/ Watcher \/ Terminated

\* Every thread that can run eventually does; waits end by their timeouts.
Fairness == (\A w \in Workers : WF_vars(Worker(w))) /\ WF_vars(Watcher)

Spec     == Init /\ [][Next]_vars
FairSpec == Spec /\ Fairness
-----------------------------------------------------------------------------
(* Properties *)

\* No place holds a session twice, and no two places hold the same session.
QueuedOnce  == \A i, j \in DOMAIN queue : queue[i] = queue[j] => i = j
HeldOnce    == \A v, w \in Workers : held[v] = held[w] /\ held[v] # None => v = w
WatchedOnce == \A d, e \in epoll : d.ptr = e.ptr => d = e
OnePlace ==
    \A s \in Sessions :
        /\ Queued(s)  => ~Held(s) /\ ~Watched(s) /\ ~InHand(s)
        /\ Held(s)    => ~Watched(s) /\ ~InHand(s)
        /\ Watched(s) => ~InHand(s)

\* No live session is lost, and no pointer is left to one that was deleted.
OwnedIffLive ==
    \A s \in Sessions :
        life[s] = "live" <=> Queued(s) \/ Held(s) \/ Watched(s) \/ InHand(s)

\* Every live session has exactly one owner: the queue, one worker, one entry
\* of epoll or the watcher (session-operator.cpp, Work and Watch, hand bare
\* pointers around; a second owner would run or delete the session under the
\* first, no owner would leave its client hanging for ever).
ExclusiveOwner == QueuedOnce /\ HeldOnce /\ WatchedOnce /\ OnePlace /\ OwnedIffLive

\* No epoll_ctl ever fails, so the proxy does not exit under its clients: what
\* AddToWatch registers is not registered yet, and what Watch unregisters,
\* read again from the session, is what was registered.
EpollCtlSucceeds == ~failed

\* The events the watcher still has to treat point to sessions that are alive
\* and still registered, whatever the workers did since epoll_wait returned.
BatchIsRegistered == batch \subseteq epoll

\* A step never touches a session that is registered with epoll: the workers
\* are done with it when AddToWatch publishes it to the watcher.
WatchedIsUntouched ==
    [][\A s \in Sessions :
         Watched(s) => UNCHANGED <<life[s], waiting[s], terminated[s], ev[s]>>]_vars

\* Everyone who has a pointer to a session, named as in module Ownership.
OwnersOf(s) ==
    {<<"worker", w>> : w \in {v \in Workers : held[v] = s}}
        \cup (IF Queued(s) THEN {<<"queue", None>>} ELSE {})
        \cup (IF Watched(s) THEN {<<"epoll", None>>} ELSE {})
        \cup (IF InHand(s) THEN {<<"watcher", None>>} ELSE {})

Owned == INSTANCE Ownership WITH owners <- [s \in Sessions |-> OwnersOf(s)]

\* The operator implements Ownership: Work and Watch (session-operator.cpp)
\* hand a session from owner to owner in one step, a worker deletes only what
\* nobody else has a pointer to, and no step but the one of the session's own
\* worker changes what the others read of it.
ImplementsOwnership == Owned!Spec

\* The pool is fair: a queued session is served unless the operator is stopped
\* (job_queue_ is first in, first out, and Work puts a session back at the end).
QueuedIsServed == \A s \in Sessions : Queued(s) ~> (Held(s) \/ stopped)

\* A session that epoll_wait reported reaches the queue, even when the operator
\* is stopped while the watcher is in its for loop.
ReportedIsQueued ==
    \A s \in Sessions : (\E b \in batch : b.ptr = s) ~> Queued(s)

\* Stop returns: every thread it joins leaves its loop, from wherever it is.
StopJoins == stopped ~> AllExited

-----------------------------------------------------------------------------
(* The inductive invariant the safety theorems rest on *)

WorkerOK ==
    \A w \in Workers :
        /\ held[w] # None <=> wpc[w] \in {"dispatch", "route"}
        /\ wpc[w] = "route" /\ waiting[held[w]] => ev[held[w]] # NoEvent

WatcherOK ==
    /\ hand # None <=> watcher = "submit"
    /\ watcher \in {"wait", "exited"} => batch = {}

\* What epoll holds for a session is what its ev_ says, and it is waiting.
EntriesCurrent == \A e \in epoll : e = Entry(e.ptr) /\ waiting[e.ptr]

IInv ==
    /\ TypeOK
    /\ ExclusiveOwner
    /\ EpollCtlSucceeds
    /\ BatchIsRegistered
    /\ WorkerOK
    /\ WatcherOK
    /\ EntriesCurrent
=============================================================================
