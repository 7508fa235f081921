----------------------- MODULE SessionOperator_proofs -----------------------
(***************************************************************************)
(* Proofs about SessionOperator, for any number of sessions and workers.   *)
(* IInv is inductive: one lemma per action shows that the action keeps it. *)
(***************************************************************************)
EXTENDS SessionOperator, TLAPS

LEMMA InitIInv == Init => IInv
<1> SUFFICES ASSUME Init PROVE IInv
    OBVIOUS
<1> USE DEF Init
<1>1. TypeOK
    <2>1. NoEvent \in Events
        BY DEF Events
    <2>2. ev \in [Sessions -> Events]
        BY <2>1
    <2>3. queue \in Seq(Sessions)
        OBVIOUS
    <2>4. /\ life \in [Sessions -> {"new", "live", "deleted"}]
          /\ waiting \in [Sessions -> BOOLEAN]
          /\ terminated \in [Sessions -> BOOLEAN]
        OBVIOUS
    <2>5. /\ wpc \in [Workers -> {"loop", "pop", "wait", "dispatch", "route", "exited"}]
          /\ held \in [Workers -> Sessions \cup {None}]
        OBVIOUS
    <2>. QED
        BY <2>2, <2>3, <2>4, <2>5 DEF TypeOK
<1>2. ExclusiveOwner
    BY NoneIsNoSession DEF ExclusiveOwner, QueuedOnce, HeldOnce, WatchedOnce, OnePlace,
       OwnedIffLive, Queued, Held, Watched, InHand
<1>3. WorkerOK /\ WatcherOK /\ EntriesCurrent
    BY DEF WorkerOK, WatcherOK, EntriesCurrent
<1>. QED
    BY <1>1, <1>2, <1>3 DEF IInv, EpollCtlSucceeds, BatchIsRegistered

\* Appending a session that is not queued leaves every other place alone.
LEMMA AppendQueued ==
    ASSUME NEW s \in Sessions, queue \in Seq(Sessions), QueuedOnce, ~Queued(s), Submit(s)
    PROVE  /\ queue' \in Seq(Sessions)
           /\ QueuedOnce'
           /\ \A x \in Sessions : Queued(x)' <=> Queued(x) \/ x = s
BY DEF QueuedOnce, Queued, Submit

\* Taking the head of the queue leaves every other session in it, once.
LEMMA TailQueued ==
    ASSUME queue \in Seq(Sessions), queue # <<>>, QueuedOnce, queue' = Tail(queue)
    PROVE  /\ Head(queue) \in Sessions
           /\ Queued(Head(queue))
           /\ queue' \in Seq(Sessions)
           /\ QueuedOnce'
           /\ \A x \in Sessions : Queued(x)' <=> Queued(x) /\ x # Head(queue)
<1>1. /\ Head(queue) = queue[1] /\ 1 \in DOMAIN queue
      /\ queue' \in Seq(Sessions)
      /\ Len(queue') = Len(queue) - 1
      /\ \A i \in 1 .. Len(queue') : queue'[i] = queue[i + 1]
    OBVIOUS
<1>2. \A i \in DOMAIN queue' : i + 1 \in DOMAIN queue /\ i + 1 # 1
    BY <1>1
<1>3. \A i \in DOMAIN queue : i # 1 => i - 1 \in DOMAIN queue' /\ queue'[i - 1] = queue[i]
    BY <1>1
<1>4. ASSUME NEW x \in Sessions
      PROVE  Queued(x)' <=> Queued(x) /\ x # Head(queue)
    <2>1. ASSUME Queued(x)' PROVE Queued(x) /\ x # Head(queue)
        <3>1. PICK i \in DOMAIN queue' : queue'[i] = x
            BY <2>1 DEF Queued
        <3>2. i + 1 \in DOMAIN queue /\ i + 1 # 1 /\ queue[i + 1] = x
            BY <1>1, <1>2, <3>1
        <3>. QED
            BY <1>1, <3>2 DEF QueuedOnce, Queued
    <2>2. ASSUME Queued(x), x # Head(queue) PROVE Queued(x)'
        <3>1. PICK i \in DOMAIN queue : queue[i] = x
            BY <2>2 DEF Queued
        <3>2. i - 1 \in DOMAIN queue' /\ queue'[i - 1] = x
            BY <1>1, <1>3, <2>2, <3>1
        <3>. QED
            BY <3>2 DEF Queued
    <2>. QED
        BY <2>1, <2>2
<1>5. QueuedOnce'
    BY <1>1, <1>2 DEF QueuedOnce
<1>. QED
    BY <1>1, <1>4, <1>5 DEF Queued
\* A worker that lets go of its session leaves the other workers theirs.
LEMMA ReleaseHeld ==
    ASSUME NEW w \in Workers, held \in [Workers -> Sessions \cup {None}], HeldOnce,
           held[w] \in Sessions, held' = [held EXCEPT ![w] = None]
    PROVE  /\ held' \in [Workers -> Sessions \cup {None}]
           /\ HeldOnce'
           /\ \A x \in Sessions : Held(x)' <=> Held(x) /\ x # held[w]
BY NoneIsNoSession DEF HeldOnce, Held

\* A step that moves no pointer and neither creates nor deletes a session.
LEMMA NothingMoves ==
    ASSUME ExclusiveOwner, UNCHANGED <<life, queue, held, epoll, hand>>
    PROVE  ExclusiveOwner'
BY DEF ExclusiveOwner, QueuedOnce, HeldOnce, WatchedOnce, OnePlace, OwnedIffLive,
   Queued, Held, Watched, InHand

-----------------------------------------------------------------------------
(* The main thread *)

LEMMA AcceptIInv ==
    ASSUME IInv, NEW s \in Sessions, Accept(s)
    PROVE  IInv'
<1> USE DEF IInv, Accept, sessionVars, workerVars, watcherVars
<1>1. ~Queued(s) /\ ~Held(s) /\ ~Watched(s) /\ ~InHand(s)
    BY DEF ExclusiveOwner, OwnedIffLive
<1>2. /\ queue' \in Seq(Sessions)
      /\ QueuedOnce'
      /\ \A x \in Sessions : Queued(x)' <=> Queued(x) \/ x = s
    BY <1>1, AppendQueued DEF TypeOK, ExclusiveOwner
<1>3. \A x \in Sessions : /\ Held(x)' <=> Held(x)
                          /\ Watched(x)' <=> Watched(x)
                          /\ InHand(x)' <=> InHand(x)
    BY DEF Held, Watched, InHand
<1>4. TypeOK'
    BY <1>2 DEF TypeOK
<1>5. OnePlace'
    BY <1>1, <1>2, <1>3 DEF ExclusiveOwner, OnePlace
<1>6. OwnedIffLive'
    BY <1>1, <1>2, <1>3 DEF ExclusiveOwner, OwnedIffLive, TypeOK
<1>7. ExclusiveOwner'
    BY <1>2, <1>5, <1>6 DEF ExclusiveOwner, HeldOnce, WatchedOnce
<1>. QED
    BY <1>4, <1>7 DEF EpollCtlSucceeds, BatchIsRegistered, WorkerOK, WatcherOK,
       EntriesCurrent, Entry

LEMMA StopIInv ==
    ASSUME IInv, Stop
    PROVE  IInv'
<1> USE DEF IInv, Stop, sessionVars, workerVars, watcherVars
<1>1. ExclusiveOwner'
    BY NothingMoves
<1>. QED
    BY <1>1 DEF TypeOK, EpollCtlSucceeds, BatchIsRegistered, WorkerOK, WatcherOK,
       EntriesCurrent, Entry

-----------------------------------------------------------------------------
(* The workers *)

\* The steps of a worker that waits for a job.
LEMMA IdleIInv ==
    ASSUME IInv, NEW w \in Workers, BeginWork(w) \/ PopWait(w) \/ PopTimeout(w)
    PROVE  IInv'
<1> USE DEF IInv, BeginWork, PopWait, PopTimeout, UnlessStopped, sessionVars, watcherVars
<1>1. ExclusiveOwner'
    BY NothingMoves
<1>2. TypeOK'
    BY DEF TypeOK
<1>3. WorkerOK'
    BY DEF TypeOK, WorkerOK
<1>. QED
    BY <1>1, <1>2, <1>3 DEF EpollCtlSucceeds, BatchIsRegistered, WatcherOK, EntriesCurrent,
       Entry

LEMMA PopIInv ==
    ASSUME IInv, NEW w \in Workers, Pop(w)
    PROVE  IInv'
<1> USE DEF IInv, Pop, sessionVars, watcherVars
<1> DEFINE s == Head(queue)
<1>1. /\ s \in Sessions
      /\ Queued(s)
      /\ queue' \in Seq(Sessions)
      /\ QueuedOnce'
      /\ \A x \in Sessions : Queued(x)' <=> Queued(x) /\ x # s
    BY TailQueued DEF TypeOK, ExclusiveOwner
<1>2. ~Held(s) /\ ~Watched(s) /\ ~InHand(s)
    BY <1>1 DEF ExclusiveOwner, OnePlace
<1>3. held[w] = None
    BY DEF WorkerOK
<1> HIDE DEF s
<1>4. held' = [held EXCEPT ![w] = s]
    BY DEF s
<1>5. HeldOnce'
    BY <1>1, <1>2, <1>4 DEF TypeOK, ExclusiveOwner, HeldOnce, Held
<1>6. \A x \in Sessions : Held(x)' <=> Held(x) \/ x = s
    BY <1>1, <1>3, <1>4, NoneIsNoSession DEF TypeOK, Held
<1>7. \A x \in Sessions : (Watched(x)' <=> Watched(x)) /\ (InHand(x)' <=> InHand(x))
    BY DEF Watched, InHand
<1>8. OnePlace' /\ OwnedIffLive'
    BY <1>1, <1>2, <1>6, <1>7 DEF ExclusiveOwner, OnePlace, OwnedIffLive
<1>9. ExclusiveOwner'
    BY <1>1, <1>5, <1>8 DEF ExclusiveOwner, WatchedOnce
<1>10. TypeOK'
    BY <1>1, <1>4 DEF TypeOK
<1>11. WorkerOK'
    BY <1>1, <1>4, NoneIsNoSession DEF TypeOK, WorkerOK
<1>. QED
    BY <1>9, <1>10, <1>11 DEF EpollCtlSucceeds, BatchIsRegistered, WatcherOK, EntriesCurrent,
       Entry
\* The session of a worker that has one is nowhere else.
LEMMA WorkerOwns ==
    ASSUME IInv, NEW w \in Workers, wpc[w] \in {"dispatch", "route"}
    PROVE  /\ held[w] \in Sessions
           /\ Held(held[w])
           /\ ~Queued(held[w]) /\ ~Watched(held[w]) /\ ~InHand(held[w])
<1>1. held[w] \in Sessions
    BY DEF IInv, TypeOK, WorkerOK
<1>2. Held(held[w])
    BY DEF Held
<1>. QED
    BY <1>1, <1>2 DEF IInv, ExclusiveOwner, OnePlace

LEMMA DeleteSessionIInv ==
    ASSUME IInv, NEW w \in Workers, DeleteSession(w)
    PROVE  IInv'
<1> DEFINE s == held[w]
<1> USE DEF IInv, DeleteSession, ReturnFromWork, sessionVars, watcherVars
<1>1. s \in Sessions /\ Held(s) /\ ~Queued(s) /\ ~Watched(s) /\ ~InHand(s)
    BY WorkerOwns
<1>2. /\ held' \in [Workers -> Sessions \cup {None}]
      /\ HeldOnce'
      /\ \A x \in Sessions : Held(x)' <=> Held(x) /\ x # s
    BY <1>1, ReleaseHeld DEF TypeOK, ExclusiveOwner
<1>3. epoll' = epoll
    BY <1>1 DEF Watched
<1>4. \A x \in Sessions : /\ Queued(x)' <=> Queued(x)
                          /\ Watched(x)' <=> Watched(x)
                          /\ InHand(x)' <=> InHand(x)
    BY <1>3 DEF Queued, Watched, InHand
<1>5. TypeOK'
    BY <1>2, <1>3 DEF TypeOK
<1>6. life' = [life EXCEPT ![s] = "deleted"] /\ life \in [Sessions -> {"new", "live", "deleted"}]
    BY DEF TypeOK
<1>7. WorkerOK'
    BY NoneIsNoSession DEF TypeOK, WorkerOK
<1> HIDE DEF s
<1>8. OnePlace' /\ OwnedIffLive'
    BY <1>1, <1>2, <1>4, <1>6 DEF ExclusiveOwner, OnePlace, OwnedIffLive
<1>9. ExclusiveOwner'
    BY <1>2, <1>3, <1>8 DEF ExclusiveOwner, QueuedOnce, WatchedOnce
<1>. QED
    BY <1>3, <1>5, <1>7, <1>9 DEF EpollCtlSucceeds, BatchIsRegistered, WatcherOK,
       EntriesCurrent, Entry

LEMMA RunIInv ==
    ASSUME IInv, NEW w \in Workers, Run(w)
    PROVE  IInv'
<1> DEFINE s == held[w]
<1> USE DEF IInv, BeginRun
<1>1. s \in Sessions /\ ~Watched(s)
    BY WorkerOwns DEF Run
<1>2. PICK wt \in BOOLEAN, tm \in BOOLEAN, e \in Events :
         /\ wt => e # NoEvent
         /\ waiting' = [waiting EXCEPT ![s] = wt]
         /\ terminated' = [terminated EXCEPT ![s] = tm]
         /\ ev' = [ev EXCEPT ![s] = e]
    BY DEF Run
<1>3. /\ wpc[w] = "dispatch"
      /\ wpc' = [wpc EXCEPT ![w] = "route"]
      /\ UNCHANGED <<life, queue, epoll, held, watcher, batch, hand, stopped, failed>>
    BY DEF Run, watcherVars
<1>4. ExclusiveOwner'
    BY <1>3, NothingMoves
<1>5. TypeOK'
    BY <1>1, <1>2, <1>3 DEF TypeOK
<1>6. \A v \in Workers : v # w /\ held[v] # None => held[v] # s
    BY <1>1, NoneIsNoSession DEF ExclusiveOwner, HeldOnce
<1>7. WorkerOK'
    <2> SUFFICES ASSUME NEW v \in Workers
                 PROVE  /\ held'[v] # None <=> wpc'[v] \in {"dispatch", "route"}
                        /\ wpc'[v] = "route" /\ waiting'[held'[v]] => ev'[held'[v]] # NoEvent
        BY DEF WorkerOK, NoEvent
    <2>1. CASE v = w
        BY <1>1, <1>2, <1>3, <2>1, NoneIsNoSession DEF TypeOK
    <2>2. CASE v # w
        <3>1. wpc'[v] = wpc[v] /\ held'[v] = held[v]
            BY <1>3, <2>2 DEF TypeOK
        <3>2. held[v] # None => waiting'[held[v]] = waiting[held[v]] /\ ev'[held[v]] = ev[held[v]]
            BY <1>2, <1>6, <2>2 DEF TypeOK
        <3>. QED
            BY <3>1, <3>2 DEF WorkerOK
    <2>. QED
        BY <2>1, <2>2
<1>8. EntriesCurrent'
    <2> SUFFICES ASSUME NEW d \in epoll
                 PROVE  d = Entry(d.ptr)' /\ waiting'[d.ptr]
        BY <1>3 DEF EntriesCurrent
    <2>1. d.ptr \in Sessions /\ d.ptr # s
        BY <1>1 DEF TypeOK, Entries, Watched
    <2>2. ev'[d.ptr] = ev[d.ptr] /\ waiting'[d.ptr] = waiting[d.ptr]
        BY <1>2, <2>1 DEF TypeOK
    <2>. QED
        BY <2>2 DEF EntriesCurrent, Entry
<1>. QED
    BY <1>3, <1>4, <1>5, <1>7, <1>8 DEF EpollCtlSucceeds, BatchIsRegistered, WatcherOK
LEMMA AddToWatchIInv ==
    ASSUME IInv, NEW w \in Workers, AddToWatch(w)
    PROVE  IInv'
<1> DEFINE s == held[w]
<1> USE DEF IInv
<1>1. /\ wpc[w] = "route"
      /\ waiting[s]
      /\ ReturnFromWork(w)
      /\ UNCHANGED <<life, waiting, terminated, ev, queue, watcher, batch, hand, stopped>>
    BY DEF AddToWatch, sessionVars, watcherVars
<1>2. s \in Sessions /\ Held(s) /\ ~Queued(s) /\ ~Watched(s) /\ ~InHand(s)
    BY <1>1, WorkerOwns
<1>3. ~Registered(s)
    BY <1>2 DEF Registered, Watched
<1>4. ev[s] # NoEvent /\ Entry(s) \in Entries
    BY <1>1, <1>2 DEF WorkerOK, TypeOK, Events, Entries, Entry
<1>5. epoll' = epoll \cup {Entry(s)} /\ failed' = FALSE
    BY <1>3, <1>4 DEF AddToWatch
<1>6. Entry(s).ptr = s
    BY DEF Entry
<1>7. /\ held' \in [Workers -> Sessions \cup {None}]
      /\ HeldOnce'
      /\ \A x \in Sessions : Held(x)' <=> Held(x) /\ x # s
    BY <1>1, <1>2, ReleaseHeld DEF TypeOK, ExclusiveOwner, ReturnFromWork
<1>8. \A x \in Sessions : /\ Queued(x)' <=> Queued(x)
                          /\ Watched(x)' <=> Watched(x) \/ x = s
                          /\ InHand(x)' <=> InHand(x)
    BY <1>1, <1>5, <1>6 DEF Queued, Watched, InHand
<1>9. WatchedOnce'
    BY <1>2, <1>5, <1>6 DEF ExclusiveOwner, WatchedOnce, Watched
<1>10. WorkerOK'
    BY <1>1, NoneIsNoSession DEF TypeOK, WorkerOK, ReturnFromWork
<1>11. TypeOK'
    BY <1>1, <1>4, <1>5, <1>7 DEF TypeOK, ReturnFromWork
<1>12. EntriesCurrent'
    BY <1>1, <1>5, <1>6 DEF EntriesCurrent, Entry
<1> HIDE DEF s
<1>13. OnePlace' /\ OwnedIffLive'
    BY <1>1, <1>2, <1>7, <1>8 DEF ExclusiveOwner, OnePlace, OwnedIffLive
<1>14. ExclusiveOwner'
    BY <1>1, <1>7, <1>9, <1>13 DEF ExclusiveOwner, QueuedOnce
<1>. QED
    BY <1>1, <1>5, <1>10, <1>11, <1>12, <1>14 DEF EpollCtlSucceeds, BatchIsRegistered, WatcherOK

LEMMA ResubmitIInv ==
    ASSUME IInv, NEW w \in Workers, Resubmit(w)
    PROVE  IInv'
<1> DEFINE s == held[w]
<1> USE DEF IInv, Resubmit, sessionVars, watcherVars
<1>1. s \in Sessions /\ Held(s) /\ ~Queued(s) /\ ~Watched(s) /\ ~InHand(s)
    BY WorkerOwns
<1>2. /\ held' \in [Workers -> Sessions \cup {None}]
      /\ HeldOnce'
      /\ \A x \in Sessions : Held(x)' <=> Held(x) /\ x # s
    BY <1>1, ReleaseHeld DEF TypeOK, ExclusiveOwner, ReturnFromWork
<1>3. /\ queue' \in Seq(Sessions)
      /\ QueuedOnce'
      /\ \A x \in Sessions : Queued(x)' <=> Queued(x) \/ x = s
    BY <1>1, AppendQueued DEF TypeOK, ExclusiveOwner
<1>4. \A x \in Sessions : (Watched(x)' <=> Watched(x)) /\ (InHand(x)' <=> InHand(x))
    BY DEF Watched, InHand
<1>5. TypeOK'
    BY <1>2, <1>3 DEF TypeOK, ReturnFromWork
<1>6. WorkerOK'
    BY NoneIsNoSession DEF TypeOK, WorkerOK, ReturnFromWork
<1> HIDE DEF s
<1>7. OnePlace' /\ OwnedIffLive'
    BY <1>1, <1>2, <1>3, <1>4 DEF ExclusiveOwner, OnePlace, OwnedIffLive
<1>8. ExclusiveOwner'
    BY <1>2, <1>3, <1>7 DEF ExclusiveOwner, WatchedOnce
<1>. QED
    BY <1>5, <1>6, <1>8 DEF EpollCtlSucceeds, BatchIsRegistered, WatcherOK, EntriesCurrent,
       Entry

-----------------------------------------------------------------------------
(* The watcher *)

LEMMA WaitIInv ==
    ASSUME IInv, BeginWatch \/ \E ready \in SUBSET epoll : EpollWait(ready)
    PROVE  IInv'
<1> USE DEF IInv, BeginWatch, EpollWait, UnlessStopped, LevelTriggered, sessionVars, workerVars
<1>1. ExclusiveOwner'
    BY NothingMoves
<1>2. BatchIsRegistered'
    BY DEF BatchIsRegistered
<1>3. TypeOK'
    BY <1>2 DEF TypeOK, BatchIsRegistered
<1>4. WatcherOK'
    BY DEF WatcherOK
<1>. QED
    BY <1>1, <1>2, <1>3, <1>4 DEF EpollCtlSucceeds, WorkerOK, EntriesCurrent, Entry

LEMMA UnwatchIInv ==
    ASSUME IInv, Unwatch
    PROVE  IInv'
<1> USE DEF IInv
<1>1. PICK b \in batch :
         /\ watcher = "loop"
         /\ epoll' = Del(b.ptr)
         /\ failed' = ~Registered(b.ptr)
         /\ batch' = batch \ {b}
         /\ hand' = b.ptr
         /\ watcher' = "submit"
         /\ UNCHANGED <<life, waiting, terminated, ev, queue, wpc, held, stopped>>
    BY DEF Unwatch, Remain, sessionVars, workerVars
<1> DEFINE s == b.ptr
<1>2. b \in epoll /\ s \in Sessions /\ b = Entry(s) /\ Watched(s)
    BY DEF BatchIsRegistered, EntriesCurrent, Watched, TypeOK, Entries
<1>3. ~Queued(s) /\ ~Held(s) /\ ~InHand(s)
    BY <1>2 DEF ExclusiveOwner, OnePlace
<1>4. failed' = FALSE
    <2>1. b.ptr = s /\ b.side = ev[s].side
        BY <1>2 DEF Entry
    <2>2. Registered(s)
        BY <1>2, <2>1 DEF Registered
    <2>. QED
        BY <1>1, <2>2
<1>5. hand = None
    BY <1>1 DEF WatcherOK
<1>6. epoll' = epoll \ {b}
    BY <1>1, <1>2 DEF Del, Entry, ExclusiveOwner, WatchedOnce
<1>7. \A x \in Sessions : /\ Queued(x)' <=> Queued(x)
                          /\ Held(x)' <=> Held(x)
                          /\ Watched(x)' <=> Watched(x) /\ x # s
                          /\ InHand(x)' <=> InHand(x) \/ x = s
    <2>1. \A x \in Sessions : Watched(x)' <=> Watched(x) /\ x # s
        BY <1>2, <1>6 DEF Watched, ExclusiveOwner, WatchedOnce
    <2>. QED
        BY <1>1, <1>5, <2>1, NoneIsNoSession DEF Queued, Held, InHand
<1>8. OnePlace' /\ OwnedIffLive'
    BY <1>1, <1>2, <1>3, <1>7 DEF ExclusiveOwner, OnePlace, OwnedIffLive
<1>9. ExclusiveOwner'
    BY <1>1, <1>6, <1>8 DEF ExclusiveOwner, QueuedOnce, HeldOnce, WatchedOnce
<1>10. TypeOK'
    BY <1>1, <1>2, <1>4, <1>6 DEF TypeOK
<1>11. BatchIsRegistered' /\ EntriesCurrent'
    BY <1>1, <1>6 DEF BatchIsRegistered, EntriesCurrent, Entry
<1>12. WorkerOK' /\ WatcherOK'
    BY <1>1, <1>2, NoneIsNoSession DEF WorkerOK, WatcherOK
<1>. QED
    BY <1>4, <1>9, <1>10, <1>11, <1>12 DEF EpollCtlSucceeds

LEMMA SubmitReadyIInv ==
    ASSUME IInv, SubmitReady
    PROVE  IInv'
<1> USE DEF IInv, SubmitReady, sessionVars, workerVars
<1>1. hand \in Sessions /\ InHand(hand)
    BY DEF TypeOK, WatcherOK, InHand
<1>2. ~Queued(hand) /\ ~Held(hand) /\ ~Watched(hand)
    BY <1>1 DEF ExclusiveOwner, OnePlace
<1>3. /\ queue' \in Seq(Sessions)
      /\ QueuedOnce'
      /\ \A x \in Sessions : Queued(x)' <=> Queued(x) \/ x = hand
    BY <1>1, <1>2, AppendQueued DEF TypeOK, ExclusiveOwner
<1>4. \A x \in Sessions : /\ Held(x)' <=> Held(x)
                          /\ Watched(x)' <=> Watched(x)
                          /\ ~InHand(x)'
    BY NoneIsNoSession DEF Held, Watched, InHand
<1>5. OnePlace'
    BY <1>2, <1>3, <1>4 DEF ExclusiveOwner, OnePlace
<1>6. OwnedIffLive'
    <2>1. \A x \in Sessions : InHand(x) <=> x = hand
        BY DEF InHand
    <2>. QED
        BY <1>3, <1>4, <2>1 DEF ExclusiveOwner, OwnedIffLive
<1>7. ExclusiveOwner'
    BY <1>3, <1>5, <1>6 DEF ExclusiveOwner, HeldOnce, WatchedOnce
<1>8. TypeOK' /\ WatcherOK'
    BY <1>3 DEF TypeOK, WatcherOK
<1>. QED
    BY <1>7, <1>8 DEF EpollCtlSucceeds, BatchIsRegistered, WorkerOK, EntriesCurrent, Entry
-----------------------------------------------------------------------------
LEMMA NextIInv == IInv /\ [Next]_vars => IInv'
<1> SUFFICES ASSUME IInv, [Next]_vars PROVE IInv'
    OBVIOUS
<1>1. CASE Main
    BY <1>1, AcceptIInv, StopIInv DEF Main
<1>2. ASSUME NEW w \in Workers, Worker(w) PROVE IInv'
    BY <1>2, IdleIInv, PopIInv, DeleteSessionIInv, RunIInv, AddToWatchIInv, ResubmitIInv
    DEF Worker, WorkerLoop
<1>3. CASE Watcher
    BY <1>3, WaitIInv, UnwatchIInv, SubmitReadyIInv DEF Watcher, WatcherLoop
<1>4. CASE UNCHANGED vars
    <2> USE <1>4 DEF vars, sessionVars, workerVars, watcherVars, IInv
    <2>1. ExclusiveOwner'
        BY NothingMoves
    <2>. QED
        BY <2>1 DEF TypeOK, EpollCtlSucceeds, BatchIsRegistered, WorkerOK, WatcherOK,
           EntriesCurrent, Entry
<1>. QED
    BY <1>1, <1>2, <1>3, <1>4 DEF Next, Terminated

\* The inductive invariant holds in every reachable state.
THEOREM Invariance == Spec => []IInv
<1>1. Init => IInv
    BY InitIInv
<1>2. IInv /\ [Next]_vars => IInv'
    BY NextIInv
<1>. QED
    BY <1>1, <1>2, PTL DEF Spec

\* The variables of the operator keep their types.
THEOREM TypeCorrect == Spec => []TypeOK
<1>1. IInv => TypeOK
    BY DEF IInv
<1>. QED
    BY <1>1, Invariance, PTL

\* Every live session has exactly one owner among the queue, the workers, epoll
\* and the watcher, and no pointer to a deleted session is left: Work and Watch
\* may use the session they hold without a lock.
THEOREM Ownership == Spec => []ExclusiveOwner
<1>1. IInv => ExclusiveOwner
    BY DEF IInv
<1>. QED
    BY <1>1, Invariance, PTL

\* No epoll_ctl of AddToWatch or Watch fails: neither exit is ever reached.
THEOREM NoEpollFailure == Spec => []EpollCtlSucceeds
<1>1. IInv => EpollCtlSucceeds
    BY DEF IInv
<1>. QED
    BY <1>1, Invariance, PTL

\* The events Watch has fetched stay valid while it works through them.
THEOREM BatchStaysRegistered == Spec => []BatchIsRegistered
<1>1. IInv => BatchIsRegistered
    BY DEF IInv
<1>. QED
    BY <1>1, Invariance, PTL

\* No step touches a session that is registered with epoll.
THEOREM WatchedAreLeftAlone == Spec => WatchedIsUntouched
<1> DEFINE Untouched ==
        \A s \in Sessions :
          Watched(s) => UNCHANGED <<life[s], waiting[s], terminated[s], ev[s]>>
<1>1. IInv /\ [Next]_vars => [Untouched]_vars
    <2> SUFFICES ASSUME IInv, Next, NEW s \in Sessions, Watched(s)
                 PROVE  UNCHANGED <<life[s], waiting[s], terminated[s], ev[s]>>
        OBVIOUS
    <2>1. ~Queued(s) /\ ~Held(s) /\ ~InHand(s) /\ life[s] = "live"
        BY DEF IInv, ExclusiveOwner, OnePlace, OwnedIffLive
    <2>2. \A w \in Workers : held[w] # s
        BY <2>1 DEF Held
    <2>3. CASE Main
        BY <2>1, <2>3 DEF Main, Accept, Stop, sessionVars, IInv, TypeOK
    <2>4. ASSUME NEW w \in Workers, WorkerLoop(w)
          PROVE  UNCHANGED <<life[s], waiting[s], terminated[s], ev[s]>>
        BY <2>2, <2>4 DEF WorkerLoop, BeginWork, Pop, PopWait, PopTimeout, DeleteSession,
           AddToWatch, Resubmit, sessionVars, IInv, TypeOK
    <2>5. ASSUME NEW w \in Workers, Run(w)
          PROVE  UNCHANGED <<life[s], waiting[s], terminated[s], ev[s]>>
        BY <2>2, <2>5 DEF Run, BeginRun, IInv, TypeOK
    <2>6. CASE Watcher
        BY <2>6 DEF Watcher, WatcherLoop, BeginWatch, EpollWait, Unwatch, SubmitReady, sessionVars
    <2>7. CASE Terminated
        BY <2>7 DEF Terminated, vars, sessionVars
    <2>. QED
        BY <2>3, <2>4, <2>5, <2>6, <2>7 DEF Next, Worker
<1>. QED
    BY <1>1, Invariance, PTL DEF Spec, WatchedIsUntouched

-----------------------------------------------------------------------------
(* The operator implements Ownership.  Each step hands at most one session *)
(* on; what its owners are before and after follows from the place it is   *)
(* in, and all other sessions stay where they are.                         *)

\* Where the only pointer to a session is, and who its owners are therefore.
OwnersTold ==
    \A s \in Sessions :
        /\ ~Queued(s) /\ ~Held(s) /\ ~Watched(s) /\ ~InHand(s) => OwnersOf(s) = {}
        /\ Queued(s) /\ ~Held(s) /\ ~Watched(s) /\ ~InHand(s) => OwnersOf(s) = {Owned!Queue}
        /\ ~Queued(s) /\ ~Held(s) /\ Watched(s) /\ ~InHand(s) => OwnersOf(s) = {Owned!Epoll}
        /\ ~Queued(s) /\ ~Held(s) /\ ~Watched(s) /\ InHand(s) => OwnersOf(s) = {Owned!Watcher}
        /\ \A w \in Workers :
             ~Queued(s) /\ ~Watched(s) /\ ~InHand(s) /\ (\A v \in Workers : held[v] = s <=> v = w)
                => OwnersOf(s) = {Owned!Worker(w)}

LEMMA OwnersAreTold == OwnersTold
<1> SUFFICES ASSUME NEW s \in Sessions
             PROVE  OwnersTold!(s)
    BY DEF OwnersTold
<1>1. ~Held(s) => {v \in Workers : held[v] = s} = {}
    BY DEF Held
<1>2. ~Held(s) => {<<"worker", w>> : w \in {v \in Workers : held[v] = s}} = {}
    BY <1>1
<1>3. ASSUME NEW w \in Workers, \A v \in Workers : held[v] = s <=> v = w
      PROVE  {<<"worker", u>> : u \in {v \in Workers : held[v] = s}} = {<<"worker", w>>}
    <2>1. {v \in Workers : held[v] = s} = {w}
        BY <1>3
    <2>. QED
        BY <2>1
<1>. QED
    BY <1>2, <1>3 DEF OwnersOf, Owned!Queue, Owned!Epoll, Owned!Watcher, Owned!Worker

LEMMA OwnersAreToldNext == OwnersTold'
BY OwnersAreTold, PTL

\* A session that no step touches keeps its owners.
LEMMA OwnersKept ==
    ASSUME NEW x \in Sessions,
           Queued(x)' <=> Queued(x), Watched(x)' <=> Watched(x), InHand(x)' <=> InHand(x),
           \A w \in Workers : held'[w] = x <=> held[w] = x
    PROVE  OwnersOf(x)' = OwnersOf(x)
<1>1. {v \in Workers : held'[v] = x} = {v \in Workers : held[v] = x}
    OBVIOUS
<1>. QED
    BY <1>1 DEF OwnersOf

\* When the other sessions keep theirs, one session is passed on.
LEMMA PassedOn ==
    ASSUME NEW s \in Sessions, NEW from, NEW to, OwnersOf(s) = from, OwnersOf(s)' = to,
           \A x \in Sessions \ {s} : OwnersOf(x)' = OwnersOf(x)
    PROVE  Owned!Pass(s, from, to)
BY DEF Owned!Pass

\* The steps that hand a session on: what IInv says of where it was, and what
\* the step does to that place, is all that is used of them.
LEMMA AcceptHands ==
    ASSUME IInv, NEW s \in Sessions, Accept(s)
    PROVE  Owned!Accept(s)
<1> USE DEF Accept, workerVars, watcherVars
<1>1. ~Queued(s) /\ ~Held(s) /\ ~Watched(s) /\ ~InHand(s)
    BY DEF IInv, ExclusiveOwner, OwnedIffLive
<1>2. \A x \in Sessions : Queued(x)' <=> Queued(x) \/ x = s
    BY <1>1, AppendQueued DEF IInv, TypeOK, ExclusiveOwner
<1>3. \A x \in Sessions : /\ Held(x)' <=> Held(x)
                          /\ Watched(x)' <=> Watched(x)
                          /\ InHand(x)' <=> InHand(x)
    BY DEF Held, Watched, InHand
<1>4. OwnersOf(s) = {} /\ OwnersOf(s)' = {Owned!Queue}
    BY <1>1, <1>2, <1>3, OwnersAreTold, OwnersAreToldNext DEF OwnersTold, Owned!Queue
<1>5. \A x \in Sessions \ {s} : OwnersOf(x)' = OwnersOf(x)
    BY <1>2, <1>3, OwnersKept
<1>6. Owned!Pass(s, {}, {Owned!Queue})
    BY <1>4, <1>5, PassedOn
<1>. QED
    BY <1>6 DEF Owned!Accept, Owned!context, sessionVars

LEMMA PopHands ==
    ASSUME IInv, NEW w \in Workers, Pop(w)
    PROVE  \E s \in Sessions : Owned!Take(s, w)
<1> USE DEF Pop, watcherVars
<1>1. PICK s \in Sessions : /\ s = Head(queue)
                           /\ Queued(s)
                           /\ \A x \in Sessions : Queued(x)' <=> Queued(x) /\ x # s
    BY TailQueued DEF IInv, TypeOK, ExclusiveOwner
<1>2. ~Held(s) /\ ~Watched(s) /\ ~InHand(s)
    BY <1>1 DEF IInv, ExclusiveOwner, OnePlace
<1>3. held[w] = None /\ held' = [held EXCEPT ![w] = s] /\ held \in [Workers -> Sessions \cup {None}]
    BY <1>1 DEF IInv, TypeOK, WorkerOK
<1>4. \A v \in Workers : held'[v] = s <=> v = w
    BY <1>2, <1>3 DEF Held
<1>5. \A x \in Sessions \ {s} : \A v \in Workers : held'[v] = x <=> held[v] = x
    BY <1>3, NoneIsNoSession
<1>6. \A x \in Sessions : (Watched(x)' <=> Watched(x)) /\ (InHand(x)' <=> InHand(x))
    BY DEF Watched, InHand
<1>7. OwnersOf(s) = {Owned!Queue} /\ OwnersOf(s)' = {Owned!Worker(w)}
    BY <1>1, <1>2, <1>4, <1>6, OwnersAreTold, OwnersAreToldNext
    DEF OwnersTold, Owned!Queue, Owned!Worker
<1>8. \A x \in Sessions \ {s} : OwnersOf(x)' = OwnersOf(x)
    BY <1>1, <1>5, <1>6, OwnersKept
<1>9. Owned!Pass(s, {Owned!Queue}, {Owned!Worker(w)})
    BY <1>7, <1>8, PassedOn
<1>. QED
    BY <1>9 DEF Owned!Take, Owned!Hand, Owned!context, sessionVars

\* The session of a worker has that worker as its only owner.
LEMMA WorkerIsOwner ==
    ASSUME IInv, NEW w \in Workers, wpc[w] \in {"dispatch", "route"}
    PROVE  OwnersOf(held[w]) = {Owned!Worker(w)}
<1>1. held[w] \in Sessions /\ ~Queued(held[w]) /\ ~Watched(held[w]) /\ ~InHand(held[w])
    BY WorkerOwns
<1>2. \A v \in Workers : held[v] = held[w] <=> v = w
    BY <1>1, NoneIsNoSession DEF IInv, ExclusiveOwner, HeldOnce
<1>. QED
    BY <1>1, <1>2, OwnersAreTold DEF OwnersTold, Owned!Worker

\* Returning from Work takes the session from its worker, and nothing else.
LEMMA ReturnHands ==
    ASSUME IInv, NEW w \in Workers, NEW s \in Sessions, s = held[w], ReturnFromWork(w)
    PROVE  /\ ~Held(s)'
           /\ \A x \in Sessions \ {s} : \A v \in Workers : held'[v] = x <=> held[v] = x
<1>1. held \in [Workers -> Sessions \cup {None}] /\ HeldOnce
    BY DEF IInv, TypeOK, ExclusiveOwner
<1>. QED
    BY <1>1, NoneIsNoSession DEF ReturnFromWork, Held, HeldOnce

LEMMA DeleteSessionHands ==
    ASSUME IInv, NEW w \in Workers, NEW s \in Sessions, s = held[w], DeleteSession(w)
    PROVE  Owned!Delete(s, w)
<1>1. /\ wpc[w] = "dispatch" /\ terminated[s] /\ ReturnFromWork(w)
      /\ epoll' = {e \in epoll : e.ptr # s}
      /\ life' = [life EXCEPT ![s] = "deleted"]
      /\ UNCHANGED <<waiting, terminated, ev, queue, hand>>
    BY DEF DeleteSession, sessionVars, watcherVars
<1>2. ~Queued(s) /\ ~Watched(s) /\ ~InHand(s)
    BY <1>1, WorkerOwns
<1>3. ~Held(s)' /\ \A x \in Sessions \ {s} : \A v \in Workers : held'[v] = x <=> held[v] = x
    BY <1>1, ReturnHands
<1>4. epoll' = epoll
    BY <1>1, <1>2 DEF Watched
<1>5. \A x \in Sessions : /\ Queued(x)' <=> Queued(x)
                          /\ Watched(x)' <=> Watched(x)
                          /\ InHand(x)' <=> InHand(x)
    BY <1>1, <1>4 DEF Queued, Watched, InHand
<1>6. OwnersOf(s) = {Owned!Worker(w)}
    BY <1>1, WorkerIsOwner
<1>7. OwnersOf(s)' = {}
    BY <1>2, <1>3, <1>5, OwnersAreToldNext DEF OwnersTold
<1>8. \A x \in Sessions \ {s} : OwnersOf(x)' = OwnersOf(x)
    BY <1>3, <1>5, OwnersKept
<1>9. Owned!Pass(s, {Owned!Worker(w)}, {})
    BY <1>2, <1>6, <1>7, <1>8, PassedOn
<1>. QED
    BY <1>1, <1>9 DEF Owned!Delete, Owned!context

LEMMA AddToWatchHands ==
    ASSUME IInv, NEW w \in Workers, NEW s \in Sessions, s = held[w], AddToWatch(w)
    PROVE  Owned!Register(s, w)
<1>1. /\ wpc[w] = "route" /\ waiting[s] /\ ReturnFromWork(w)
      /\ UNCHANGED <<life, waiting, terminated, ev, queue, hand>>
    BY DEF AddToWatch, sessionVars, watcherVars
<1>2. ~Queued(s) /\ ~Watched(s) /\ ~InHand(s)
    BY <1>1, WorkerOwns
<1>3. ev[s] # NoEvent /\ ~Registered(s)
    BY <1>1, <1>2 DEF IInv, WorkerOK, Registered, Watched
<1>4. epoll' = epoll \cup {Entry(s)} /\ Entry(s).ptr = s
    BY <1>3 DEF AddToWatch, Entry
<1>5. ~Held(s)' /\ \A x \in Sessions \ {s} : \A v \in Workers : held'[v] = x <=> held[v] = x
    BY <1>1, ReturnHands
<1>6. \A x \in Sessions : /\ Queued(x)' <=> Queued(x)
                          /\ Watched(x)' <=> Watched(x) \/ x = s
                          /\ InHand(x)' <=> InHand(x)
    BY <1>1, <1>4 DEF Queued, Watched, InHand
<1>7. OwnersOf(s) = {Owned!Worker(w)}
    BY <1>1, WorkerIsOwner
<1>8. OwnersOf(s)' = {Owned!Epoll}
    BY <1>2, <1>5, <1>6, OwnersAreToldNext DEF OwnersTold, Owned!Epoll
<1>9. \A x \in Sessions \ {s} : OwnersOf(x)' = OwnersOf(x)
    BY <1>5, <1>6, OwnersKept
<1>10. Owned!Pass(s, {Owned!Worker(w)}, {Owned!Epoll})
    BY <1>2, <1>7, <1>8, <1>9, PassedOn
<1>. QED
    BY <1>1, <1>3, <1>10 DEF Owned!Register, Owned!Hand, Owned!context

LEMMA ResubmitHands ==
    ASSUME IInv, NEW w \in Workers, NEW s \in Sessions, s = held[w], Resubmit(w)
    PROVE  Owned!GiveBack(s, w)
<1>1. /\ wpc[w] = "route" /\ ~waiting[s] /\ ReturnFromWork(w) /\ Submit(s)
      /\ UNCHANGED <<life, waiting, terminated, ev, epoll, hand>>
    BY DEF Resubmit, sessionVars, watcherVars
<1>2. ~Queued(s) /\ ~Watched(s) /\ ~InHand(s)
    BY <1>1, WorkerOwns
<1>3. \A x \in Sessions : Queued(x)' <=> Queued(x) \/ x = s
    BY <1>1, <1>2, AppendQueued DEF IInv, TypeOK, ExclusiveOwner
<1>4. ~Held(s)' /\ \A x \in Sessions \ {s} : \A v \in Workers : held'[v] = x <=> held[v] = x
    BY <1>1, ReturnHands
<1>5. \A x \in Sessions : (Watched(x)' <=> Watched(x)) /\ (InHand(x)' <=> InHand(x))
    BY <1>1 DEF Watched, InHand
<1>6. OwnersOf(s) = {Owned!Worker(w)}
    BY <1>1, WorkerIsOwner
<1>7. OwnersOf(s)' = {Owned!Queue}
    BY <1>2, <1>3, <1>4, <1>5, OwnersAreToldNext DEF OwnersTold, Owned!Queue
<1>8. \A x \in Sessions \ {s} : OwnersOf(x)' = OwnersOf(x)
    BY <1>3, <1>4, <1>5, OwnersKept
<1>9. Owned!Pass(s, {Owned!Worker(w)}, {Owned!Queue})
    BY <1>2, <1>6, <1>7, <1>8, PassedOn
<1>. QED
    BY <1>1, <1>9 DEF Owned!GiveBack, Owned!Hand, Owned!context

\* A worker that runs its session changes the context of that one alone.
LEMMA RunIsOwners ==
    ASSUME IInv, NEW w \in Workers, Run(w)
    PROVE  Owned!Run(held[w], w)
<1>1. wpc[w] = "dispatch" /\ ~terminated[held[w]]
      /\ UNCHANGED <<life, queue, epoll, held, hand>>
    BY DEF Run, BeginRun, watcherVars
<1>2. OwnersOf(held[w]) = {Owned!Worker(w)} /\ held[w] \in Sessions
    BY <1>1, WorkerIsOwner, WorkerOwns
<1>3. \A x \in Sessions : OwnersOf(x)' = OwnersOf(x)
    BY <1>1 DEF OwnersOf, Queued, Watched, InHand
<1>. QED
    BY <1>1, <1>2, <1>3 DEF Run, Owned!Run

LEMMA UnwatchHands ==
    ASSUME IInv, Unwatch
    PROVE  \E s \in Sessions : Owned!Report(s)
<1>1. PICK b \in batch :
         /\ watcher = "loop"
         /\ epoll' = Del(b.ptr)
         /\ hand' = b.ptr
         /\ UNCHANGED <<life, waiting, terminated, ev, queue, held>>
    BY DEF Unwatch, sessionVars, workerVars
<1>2. PICK s \in Sessions : s = b.ptr /\ b \in epoll /\ b = Entry(s) /\ Watched(s)
    BY DEF IInv, BatchIsRegistered, EntriesCurrent, Watched, TypeOK, Entries
<1>3. ~Queued(s) /\ ~Held(s) /\ ~InHand(s)
    BY <1>2 DEF IInv, ExclusiveOwner, OnePlace
<1>4. epoll' = epoll \ {b}
    BY <1>1, <1>2 DEF Del, Entry, IInv, ExclusiveOwner, WatchedOnce
<1>5. \A x \in Sessions : Watched(x)' <=> Watched(x) /\ x # s
    BY <1>2, <1>4 DEF Watched, IInv, ExclusiveOwner, WatchedOnce
<1>6. hand = None
    BY <1>1 DEF IInv, WatcherOK
<1>7. \A x \in Sessions : /\ Queued(x)' <=> Queued(x)
                          /\ Held(x)' <=> Held(x)
                          /\ InHand(x)' <=> InHand(x) \/ x = s
    BY <1>1, <1>2, <1>6, NoneIsNoSession DEF Queued, Held, InHand
<1>8. OwnersOf(s) = {Owned!Epoll} /\ OwnersOf(s)' = {Owned!Watcher}
    BY <1>2, <1>3, <1>5, <1>7, OwnersAreTold, OwnersAreToldNext
    DEF OwnersTold, Owned!Epoll, Owned!Watcher
<1>9. \A x \in Sessions \ {s} : OwnersOf(x)' = OwnersOf(x)
    BY <1>1, <1>5, <1>7, OwnersKept
<1>10. Owned!Pass(s, {Owned!Epoll}, {Owned!Watcher})
    BY <1>8, <1>9, PassedOn
<1>. QED
    BY <1>1, <1>10 DEF Owned!Report, Owned!Hand, Owned!context

LEMMA SubmitReadyHands ==
    ASSUME IInv, SubmitReady
    PROVE  \E s \in Sessions : Owned!Requeue(s)
<1> USE DEF SubmitReady, sessionVars, workerVars
<1>1. PICK s \in Sessions : s = hand /\ InHand(s)
    BY DEF IInv, TypeOK, WatcherOK, InHand
<1>2. ~Queued(s) /\ ~Held(s) /\ ~Watched(s)
    BY <1>1 DEF IInv, ExclusiveOwner, OnePlace
<1>3. \A x \in Sessions : Queued(x)' <=> Queued(x) \/ x = s
    BY <1>1, <1>2, AppendQueued DEF IInv, TypeOK, ExclusiveOwner
<1>4. \A x \in Sessions : /\ Held(x)' <=> Held(x)
                          /\ Watched(x)' <=> Watched(x)
                          /\ InHand(x)' <=> InHand(x) /\ x # s
    BY <1>1, NoneIsNoSession DEF Held, Watched, InHand
<1>5. OwnersOf(s) = {Owned!Watcher} /\ OwnersOf(s)' = {Owned!Queue}
    BY <1>1, <1>2, <1>3, <1>4, OwnersAreTold, OwnersAreToldNext
    DEF OwnersTold, Owned!Queue, Owned!Watcher
<1>6. \A x \in Sessions \ {s} : OwnersOf(x)' = OwnersOf(x)
    BY <1>3, <1>4, OwnersKept
<1>7. Owned!Pass(s, {Owned!Watcher}, {Owned!Queue})
    BY <1>5, <1>6, PassedOn
<1>. QED
    BY <1>7 DEF Owned!Requeue, Owned!Hand, Owned!context

\* The steps of the threads' loops, which move no session.
LEMMA OwnersUnchanged ==
    ASSUME UNCHANGED <<life, waiting, terminated, ev, queue, epoll, held, hand>>
    PROVE  UNCHANGED Owned!vars
BY DEF Owned!vars, Owned!context, OwnersOf, Queued, Watched, InHand

LEMMA StepIsOwners == IInv /\ [Next]_vars => [Owned!Next]_(Owned!vars)
<1> SUFFICES ASSUME IInv, [Next]_vars PROVE [Owned!Next]_(Owned!vars)
    OBVIOUS
<1> USE DEF sessionVars, workerVars, watcherVars
<1>1. CASE Main
    <2>1. ASSUME NEW s \in Sessions, Accept(s) PROVE Owned!Next
        BY <2>1, AcceptHands DEF Owned!Next
    <2>2. CASE Stop
        BY <2>2, OwnersUnchanged DEF Stop
    <2>. QED
        BY <1>1, <2>1, <2>2 DEF Main
<1>2. ASSUME NEW w \in Workers, Worker(w) PROVE [Owned!Next]_(Owned!vars)
    <2>1. CASE BeginWork(w) \/ PopWait(w) \/ PopTimeout(w)
        BY <2>1, OwnersUnchanged DEF BeginWork, PopWait, PopTimeout
    <2>2. CASE Pop(w)
        BY <2>2, PopHands DEF Owned!Next, Owned!ByWorker
    <2>3. CASE DeleteSession(w) \/ AddToWatch(w) \/ Resubmit(w) \/ Run(w)
        <3>1. PICK s \in Sessions : s = held[w]
            BY <2>3, WorkerOwns DEF DeleteSession, AddToWatch, Resubmit, Run, BeginRun
        <3>2. Owned!Delete(s, w) \/ Owned!Register(s, w) \/ Owned!GiveBack(s, w) \/ Owned!Run(s, w)
            BY <2>3, <3>1, DeleteSessionHands, AddToWatchHands, ResubmitHands, RunIsOwners
        <3>. QED
            BY <3>2 DEF Owned!Next, Owned!ByWorker
    <2>. QED
        BY <1>2, <2>1, <2>2, <2>3 DEF Worker, WorkerLoop
<1>3. CASE Watcher
    <2>1. CASE BeginWatch \/ \E ready \in SUBSET epoll : EpollWait(ready)
        BY <2>1, OwnersUnchanged DEF BeginWatch, EpollWait, LevelTriggered
    <2>2. CASE Unwatch
        BY <2>2, UnwatchHands DEF Owned!Next
    <2>3. CASE SubmitReady
        BY <2>3, SubmitReadyHands DEF Owned!Next
    <2>. QED
        BY <1>3, <2>1, <2>2, <2>3 DEF Watcher, WatcherLoop
<1>4. CASE UNCHANGED vars
    BY <1>4, OwnersUnchanged DEF vars
<1>. QED
    BY <1>1, <1>2, <1>3, <1>4 DEF Next, Terminated

\* The operator implements Ownership: every step of a thread hands one session to
\* one new owner, runs one on the worker that owns it, or does neither.
THEOREM OperatorHandsOver == Spec => ImplementsOwnership
<1>1. Init => Owned!Init
    <2> SUFFICES ASSUME Init PROVE Owned!Init
        OBVIOUS
    <2>1. \A s \in Sessions : ~Queued(s) /\ ~Held(s) /\ ~Watched(s) /\ ~InHand(s)
        BY NoneIsNoSession DEF Init, Queued, Held, Watched, InHand
    <2>2. \A s \in Sessions : OwnersOf(s) = {}
        BY <2>1, OwnersAreTold DEF OwnersTold
    <2>. QED
        BY <2>2 DEF Init, Owned!Init
<1>. QED
    BY <1>1, StepIsOwners, Invariance, PTL DEF Spec, ImplementsOwnership, Owned!Spec
=============================================================================
