----------------------------- MODULE Ownership -----------------------------
(***************************************************************************)
(* What the session operator promises, leaving out its threads' loops and  *)
(* the order of its queue: a session is handed from owner to owner, it is  *)
(* never shared, and its context changes only while one worker owns it and *)
(* runs it.  Module SessionOperator implements it.                         *)
(***************************************************************************)
CONSTANTS
    Sessions, Workers, None,
    Events,   \* what a session may wait for
    NoEvent   \* the member of Events that is no event

VARIABLES
    life,        \* a session object is new (not created), live or deleted
    owners,      \* who has a pointer to each session
    waiting,     \* the context of each session, as the operator reads it
    terminated,
    ev

context == <<waiting, terminated, ev>>
vars    == <<life, owners, context>>

Queue     == <<"queue", None>>
Epoll     == <<"epoll", None>>
Watcher   == <<"watcher", None>>
Worker(w) == <<"worker", w>>

\* Everyone who may own a session.
Owners == {Queue, Epoll, Watcher} \cup {Worker(w) : w \in Workers}

Init ==
    /\ life = [s \in Sessions |-> "new"]
    /\ owners = [s \in Sessions |-> {}]
    /\ waiting = [s \in Sessions |-> FALSE]
    /\ terminated = [s \in Sessions |-> FALSE]
    /\ ev = [s \in Sessions |-> NoEvent]

\* Those who own s, all of them, give it up to others.
Pass(s, from, to) ==
    /\ owners[s] = from
    /\ owners' = [owners EXCEPT ![s] = to]

\* One owner gives s to another one.
Hand(s, from, to) == Pass(s, {from}, {to}) /\ UNCHANGED <<life, context>>

\* A session is created for the queue.
Accept(s) ==
    /\ life[s] = "new"
    /\ life' = [life EXCEPT ![s] = "live"]
    /\ Pass(s, {}, {Queue})
    /\ UNCHANGED context

Take(s, w) == Hand(s, Queue, Worker(w))

\* The only step that changes a context: the one of the session's worker.
Run(s, w) ==
    /\ owners[s] = {Worker(w)}
    /\ ~terminated[s]
    /\ \E wt, tm \in BOOLEAN, e \in Events :
         /\ waiting' = [waiting EXCEPT ![s] = wt]
         /\ terminated' = [terminated EXCEPT ![s] = tm]
         /\ ev' = [ev EXCEPT ![s] = e]
    /\ UNCHANGED <<life, owners>>

\* A session that waits for nothing is queued again.
GiveBack(s, w) == ~waiting[s] /\ Hand(s, Worker(w), Queue)

\* One that waits goes to epoll, with an event to wait for.
Register(s, w) == waiting[s] /\ ev[s] # NoEvent /\ Hand(s, Worker(w), Epoll)

\* Epoll reports it to the watcher, which queues it again.
Report(s)  == Hand(s, Epoll, Watcher)
Requeue(s) == Hand(s, Watcher, Queue)

\* One that has ended is deleted by its worker, who was its only owner.
Delete(s, w) ==
    /\ terminated[s]
    /\ life' = [life EXCEPT ![s] = "deleted"]
    /\ Pass(s, {Worker(w)}, {})
    /\ UNCHANGED context

ByWorker(s, w) == Take(s, w) \/ Run(s, w) \/ GiveBack(s, w) \/ Register(s, w) \/ Delete(s, w)

Next ==
    \E s \in Sessions :
        \/ Accept(s) \/ Report(s) \/ Requeue(s)
        \/ \E w \in Workers : ByWorker(s, w)

Spec == Init /\ [][Next]_vars
=============================================================================
