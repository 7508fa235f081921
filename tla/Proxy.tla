-------------------------------- MODULE Proxy --------------------------------
(***************************************************************************)
(* The proxy: the sessions of module Session run by the worker threads and *)
(* the watcher of module SessionOperator.  The two share what a session's  *)
(* context says to the operator (waiting_, ev_, terminated_) and whether   *)
(* the session object exists.  The accept loop never stops the operator,   *)
(* since ProxyServer::Run does not return.                                 *)
(***************************************************************************)
EXTENDS SessionOperator

CONSTANTS MaxMessages, SocketRoom, Env  \* see Session

VARIABLES
    st, initiated, req, resp, down, cin, cstat, cout, sin, sstat, sout, cl, cn, got, pend,
    closing, reply, seen, refused

Session == INSTANCE Session

ASSUME ExchangeAssumption ==
    MaxMessages \in Nat /\ SocketRoom \in Nat \ {0} /\ Env \subseteq Session!Behaviours

\* What only the operator, and what only the sessions and their peers know.
operatorVars == <<queue, epoll, workerVars, watcherVars, stopped, failed>>
exchangeVars == <<st, initiated, req, resp, down, cin, cstat, cout, sin, sstat, sout, cl, cn,
                  got, pend, closing, reply, seen, refused>>
proxyVars    == <<vars, exchangeVars>>

-----------------------------------------------------------------------------
ProxyInit == Init /\ Session!Init

\* A client connects and ProxyServer::Run submits a session for it.
AcceptClient(s) == Accept(s) /\ Session!Connect(s)

\* A worker runs its session for one action.
RunSession(w) == BeginRun(w) /\ Session!TakeAction(held[w])

\* Everything else a worker does, the deletion of a session included.
WorkOn(w) == WorkerLoop(w) /\ UNCHANGED exchangeVars

\* Mutant: epoll reports whatever is registered.
AnyEntries == epoll

\* The registered entries whose event has come.
ReadyEntries == {e \in epoll : Session!Ready(e.ptr)}

\* epoll_wait returns MAX_EVENTS ready entries, or all if they are fewer; with
\* none ready it times out.
EpollReports ==
    \E ready \in SUBSET ReadyEntries :
        /\ ready = ReadyEntries \/ Cardinality(ready) = MaxEvents
        /\ EpollWait(ready)
        /\ UNCHANGED exchangeVars

WatchOn == WatcherLoop /\ UNCHANGED exchangeVars

AWorker(w) == WorkOn(w) \/ RunSession(w)
TheWatcher == WatchOn \/ EpollReports

\* The clients and the server.
Peers(s)        == Session!Peers(s) /\ UNCHANGED operatorVars
PeersRespond(s) == Session!PeersRespond(s) /\ UNCHANGED operatorVars

\* The process runs until an exit, an exception or a signal ends it.
Alive == ~down /\ ~failed

ProxyNext ==
    \/ Alive /\ \E s \in Sessions : AcceptClient(s) \/ Peers(s)
    \/ Alive /\ \E w \in Workers : AWorker(w)
    \/ Alive /\ TheWatcher
    \/ ~Alive /\ UNCHANGED proxyVars

\* Threads run when they can, a wait ends at its timeout at the latest; the
\* client reads what it is sent and the server answers what it reads.
ProxyFairness ==
    /\ \A w \in Workers : WF_proxyVars(Alive /\ AWorker(w))
    /\ WF_proxyVars(Alive /\ TheWatcher)
    /\ \A s \in Sessions : WF_proxyVars(Alive /\ PeersRespond(s))

ProxySpec     == ProxyInit /\ [][ProxyNext]_proxyVars
ProxyFairSpec == ProxySpec /\ ProxyFairness

-----------------------------------------------------------------------------
(* Properties *)

\* The threads hand sessions around as module SessionOperator says: a session
\* that waits always names the socket and the event to register.
ImplementsOperator == Spec

\* Every action of a session is one that module Session allows: none is run by
\* two workers at once, and one that waits is run only when its event has come
\* and is still there, however long ago epoll_wait reported it.
ImplementsSessions == Session!Spec

\* Every message of a client is answered, as far as its answer is not cut short, or
\* its connection closed, under the fairness the threads of the operator really give.
RequestAnswered == Session!RequestAnswered

\* The session of a client that is gone is deleted: epoll reports it once more
\* after it ended, although nothing but the operator's loop looks at it then.
SessionReclaimed == Session!SessionReclaimed

\* No session is forgotten: it is with a thread or in the queue, or registered for an
\* event that has come, or for one that its peer will bring about.
NobodyStalls ==
    \A s \in Sessions :
        life[s] = "live" => \/ Queued(s) \/ Held(s) \/ InHand(s)
                            \/ \E e \in ReadyEntries : e.ptr = s
                            \/ Watched(s) /\ Session!PeersTurn(s)

-----------------------------------------------------------------------------
(* The inductive invariant the two refinements rest on *)

IsSequence(x)     == x \in Seq({x[i] : i \in DOMAIN x})
HoldsSequences(f) == DOMAIN f = Sessions /\ \A s \in Sessions : IsSequence(f[s])

\* What is needed of the types of Session: Append, Tail and \o are given sequences.
SocketsOK ==
    /\ cstat \in [Sessions -> Session!Statuses] /\ sstat \in [Sessions -> Session!Statuses]
    /\ HoldsSequences(cin) /\ HoldsSequences(cout) /\ HoldsSequences(sin)
    /\ HoldsSequences(resp)

\* A session that waits has said for what, and a new one does not wait.
WaitingOK ==
    \A s \in Sessions : /\ waiting[s] => ev[s] # NoEvent
                        /\ life[s] = "new" => ~waiting[s]

\* epoll has reported the session, or it was never registered: the next to use it
\* is the worker that runs it.
Reported(s) ==
    \/ Queued(s) \/ InHand(s) \/ \E b \in batch : b.ptr = s
    \/ \E w \in Workers : held[w] = s /\ wpc[w] = "dispatch"

\* Whatever the peers do from the report on, the event is still there when the
\* session is run: only the session itself takes it away.
ReportedAreReady == \A s \in Sessions : waiting[s] /\ Reported(s) => Session!Ready(s)

ProxyInv == IInv /\ SocketsOK /\ WaitingOK /\ ReportedAreReady
=============================================================================
