---------------------------- MODULE Proxy_proofs ----------------------------
(***************************************************************************)
(* Proofs about the composition, for any number of sessions, workers and   *)
(* events, and whatever the clients and the servers do: the proxy's steps  *)
(* are steps of SessionOperator and of Session.                            *)
(***************************************************************************)
EXTENDS Proxy, SessionOperator_proofs, Integers

(* Sequences, of whatever elements *)

LEMMA SequenceOfItsOwn ==
    ASSUME NEW S, NEW x \in Seq(S)
    PROVE  IsSequence(x)
  <1>1. Len(x) \in Nat /\ DOMAIN x = 1..Len(x) /\ x \in [1..Len(x) -> S]
    OBVIOUS
  <1> DEFINE R == {x[i] : i \in DOMAIN x}
  <1>2. x \in [1..Len(x) -> R]
    BY <1>1
  <1>3. x \in Seq(R)
    BY <1>1, <1>2
  <1> QED
    BY <1>3 DEF IsSequence

LEMMA EmptyIsSequence == IsSequence(<<>>)
  <1>1. <<>> \in Seq({})
    OBVIOUS
  <1> QED
    BY <1>1, SequenceOfItsOwn

LEMMA SingletonIsSequence == ASSUME NEW e PROVE IsSequence(<<e>>)
  <1>1. <<e>> \in Seq({e})
    OBVIOUS
  <1> QED
    BY <1>1, SequenceOfItsOwn

LEMMA AppendIsSequence ==
    ASSUME NEW x, NEW e, IsSequence(x)
    PROVE  IsSequence(Append(x, e)) /\ Append(x, e) # <<>>
  <1> DEFINE S == {x[i] : i \in DOMAIN x} \cup {e}
  <1>1. x \in Seq(S)
    BY DEF IsSequence
  <1> HIDE DEF S
  <1>2. e \in S
    BY DEF S
  <1>3. Append(x, e) \in Seq(S) /\ Len(Append(x, e)) = Len(x) + 1 /\ Len(x) \in Nat
    BY <1>1, <1>2
  <1>4. Append(x, e) # <<>>
    BY <1>3
  <1> QED
    BY <1>3, <1>4, SequenceOfItsOwn

LEMMA TailIsSequence ==
    ASSUME NEW x, IsSequence(x), x # <<>>
    PROVE  IsSequence(Tail(x)) /\ Len(x) \in Nat /\ Len(Tail(x)) = Len(x) - 1
  <1> DEFINE S == {x[i] : i \in DOMAIN x}
  <1>1. x \in Seq(S)
    BY DEF IsSequence
  <1> HIDE DEF S
  <1>2. Tail(x) \in Seq(S) /\ Len(x) \in Nat /\ Len(Tail(x)) = Len(x) - 1
    BY <1>1
  <1> QED
    BY <1>2, SequenceOfItsOwn

LEMMA ConcatIsSequence ==
    ASSUME NEW x, NEW y, IsSequence(x), IsSequence(y)
    PROVE  IsSequence(x \o y)
  <1> DEFINE S == {x[i] : i \in DOMAIN x} \cup {y[i] : i \in DOMAIN y}
  <1>1. x \in Seq(S) /\ y \in Seq(S)
    <2>1. {x[i] : i \in DOMAIN x} \subseteq S /\ {y[i] : i \in DOMAIN y} \subseteq S
      OBVIOUS
    <2> HIDE DEF S
    <2> QED
      BY <2>1 DEF IsSequence
  <1> HIDE DEF S
  <1>2. x \o y \in Seq(S)
    BY <1>1
  <1> QED
    BY <1>2, SequenceOfItsOwn

\* What one send takes of the buffer.
LEMMA SentIsSequence ==
    ASSUME NEW x, NEW y, IsSequence(x), IsSequence(y)
    PROVE  IsSequence(Session!Sent(x, y))
  <1> DEFINE S == {x[i] : i \in DOMAIN x}
  <1>1. x \in Seq(S) /\ Len(y) \in Nat
    BY DEF IsSequence
  <1> HIDE DEF S
  <1>2. SocketRoom - Len(y) \in Int
    BY <1>1, ExchangeAssumption
  <1>3. SubSeq(x, 1, SocketRoom - Len(y)) \in Seq(S) \/ Len(x) <= SocketRoom - Len(y)
    BY <1>1, <1>2
  <1> QED
    BY <1>1, <1>3, SequenceOfItsOwn DEF Session!Sent

-----------------------------------------------------------------------------
(* What an action of a session does to what the operator sees of it *)

\* The context of s changes as SessionOperator lets a run change it.
Changes(s, wt, tm, e) ==
    /\ wt => e # NoEvent
    /\ waiting' = [waiting EXCEPT ![s] = wt]
    /\ terminated' = [terminated EXCEPT ![s] = tm]
    /\ ev' = [ev EXCEPT ![s] = e]

LEMMA ActionChanges ==
    ASSUME TypeOK, NEW s \in Sessions, waiting[s] => ev[s] # NoEvent, Session!TakeAction(s)
    PROVE  \E wt, tm \in BOOLEAN, e \in Events : Changes(s, wt, tm, e)
  <1>1. /\ waiting \in [Sessions -> BOOLEAN] /\ terminated \in [Sessions -> BOOLEAN]
        /\ ev \in [Sessions -> Events]
    BY DEF TypeOK
  <1>2. NoEvent \in Events
    BY DEF Events
  <1>3. ASSUME NEW side \in {"client", "server"}, NEW events \in {"in", "out"},
               Session!WaitFor(s, side, events), NEW state \in Session!States,
               Session!Goto(s, state)
        PROVE  \E wt, tm \in BOOLEAN, e \in Events : Changes(s, wt, tm, e)
    <2> DEFINE e == [side |-> side, events |-> events]
    <2>1. e \in Events /\ e # NoEvent
      BY DEF Events, NoEvent
    <2>2. Changes(s, TRUE, state = "NULL", e)
      BY <1>3, <2>1 DEF Changes, Session!WaitFor, Session!Goto
    <2> QED
      BY <2>1, <2>2
  <1>4. ASSUME NEW state \in Session!States, Session!Goto(s, state), UNCHANGED ev,
               NEW wt \in BOOLEAN, waiting' = [waiting EXCEPT ![s] = wt], wt => waiting[s]
        PROVE  \E u, tm \in BOOLEAN, e \in Events : Changes(s, u, tm, e)
    <2>1. Changes(s, wt, state = "NULL", ev[s])
      BY <1>1, <1>4 DEF Changes, Session!Goto
    <2>2. ev[s] \in Events
      BY <1>1
    <2> QED
      BY <2>1, <2>2
  <1>5. waiting' = waiting => waiting' = [waiting EXCEPT ![s] = waiting[s]]
    BY <1>1
  <1>6. CASE Session!PrepareToReceiveRequest(s)
    BY <1>3, <1>6 DEF Session!PrepareToReceiveRequest, Session!States
  <1>7. CASE Session!PrepareToForwardRequest(s)
    BY <1>3, <1>7 DEF Session!PrepareToForwardRequest, Session!States
  <1>8. CASE Session!PrepareToReceiveResponse(s)
    BY <1>3, <1>8 DEF Session!PrepareToReceiveResponse, Session!States
  <1>9. CASE Session!PrepareToForwardResponse(s)
    BY <1>3, <1>9 DEF Session!PrepareToForwardResponse, Session!States
  <1>10. CASE Session!Initiate(s)
    BY <1>1, <1>4, <1>5, <1>10 DEF Session!Initiate, Session!States, Session!context
  <1>11. CASE Session!ApplyPreRequestPlugins(s)
    BY <1>1, <1>4, <1>5, <1>11
    DEF Session!ApplyPreRequestPlugins, Session!AfterRefusal, Session!States
  <1>12. CASE Session!ApplyPostResponsePlugins(s)
    BY <1>1, <1>4, <1>5, <1>12 DEF Session!ApplyPostResponsePlugins, Session!States
  <1>13. ASSUME NEW ok \in BOOLEAN, NEW next \in Session!States, UNCHANGED ev,
                Session!Proceed(s, ok, next)
         PROVE  \E wt, tm \in BOOLEAN, e \in Events : Changes(s, wt, tm, e)
    <2>1. (IF ok THEN next ELSE "NULL") \in Session!States
      BY DEF Session!States
    <2>2. waiting' = [waiting EXCEPT ![s] = waiting[s] /\ ~ok]
      BY <1>13 DEF Session!Proceed
    <2>3. Session!Goto(s, IF ok THEN next ELSE "NULL")
      BY <1>13 DEF Session!Proceed
    <2> QED
      BY <1>1, <1>4, <1>13, <2>1, <2>2, <2>3
  <1>14. CASE Session!ReceiveRequest(s)
    BY <1>13, <1>14 DEF Session!ReceiveRequest, Session!Received, Session!States
  <1>15. CASE Session!ForwardRequest(s)
    BY <1>13, <1>15 DEF Session!ForwardRequest, Session!States
  <1>16. CASE Session!ReceiveResponse(s)
    BY <1>1, <1>4, <1>5, <1>13, <1>16
    DEF Session!ReceiveResponse, Session!Received, Session!States
  <1>17. CASE Session!ForwardResponse(s)
    BY <1>13, <1>17 DEF Session!ForwardResponse, Session!States
  <1>18. CASE Session!ResetContext(s)
    <2>1. Changes(s, FALSE, FALSE, NoEvent)
      BY <1>18 DEF Session!ResetContext, Session!Reset, Session!Goto, Changes,
         Session!NoEvent, NoEvent
    <2> QED
      BY <1>2, <2>1
  <1> QED
    BY <1>6, <1>7, <1>8, <1>9, <1>10, <1>11, <1>12, <1>14, <1>15, <1>16, <1>17, <1>18
    DEF Session!TakeAction

-----------------------------------------------------------------------------
(* What an action of a session, and what the peers do to the sockets *)

LEMMA UpdateHolds ==
    ASSUME NEW f, HoldsSequences(f), NEW s \in Sessions, NEW x, IsSequence(x)
    PROVE  HoldsSequences([f EXCEPT ![s] = x])
  BY DEF HoldsSequences

\* All that Ready reads of a session.
Untouched(t) ==
    UNCHANGED <<ev[t], cstat[t], sstat[t], cin[t], cout[t], sin[t]>>

LEMMA UntouchedReady ==
    ASSUME NEW t, Untouched(t)
    PROVE  Session!Ready(t)' <=> Session!Ready(t)
  BY DEF Untouched, Session!Ready

LEMMA ActionSockets ==
    ASSUME TypeOK, SocketsOK, NEW s \in Sessions, Session!TakeAction(s)
    PROVE  SocketsOK' /\ \A t \in Sessions \ {s} : ev'[t] = ev[t] => Untouched(t)
  <1> USE DEF SocketsOK, Untouched
  <1>0. \A f \in {cin, cout, sin, resp} : DOMAIN f = Sessions /\ IsSequence(f[s])
    BY DEF HoldsSequences
  <1>1. ASSUME UNCHANGED <<cin, cout, cstat, sin, sstat, resp>>
        PROVE  SocketsOK' /\ \A t \in Sessions \ {s} : ev'[t] = ev[t] => Untouched(t)
    BY <1>1
  <1>2. CASE \/ Session!PrepareToReceiveRequest(s) \/ Session!PrepareToForwardRequest(s)
             \/ Session!PrepareToReceiveResponse(s) \/ Session!PrepareToForwardResponse(s)
             \/ Session!Initiate(s)
    BY <1>1, <1>2 DEF Session!PrepareToReceiveRequest, Session!PrepareToForwardRequest,
       Session!PrepareToReceiveResponse, Session!PrepareToForwardResponse, Session!Initiate,
       Session!clientVars, Session!serverVars, Session!context
  <1>3. CASE Session!ReceiveRequest(s)
    <2>1. cin' = [cin EXCEPT ![s] = <<>>] /\ UNCHANGED <<cout, cstat, sin, sstat, resp>>
      BY <1>3 DEF Session!ReceiveRequest, Session!serverVars
    <2> QED
      BY <1>0, <2>1, UpdateHolds, EmptyIsSequence
  <1>4. ASSUME UNCHANGED <<cin, cout, cstat, sin, sstat>>,
               resp' = resp \/ \E x : IsSequence(x) /\ resp' = [resp EXCEPT ![s] = x]
        PROVE  SocketsOK' /\ \A t \in Sessions \ {s} : ev'[t] = ev[t] => Untouched(t)
    BY <1>1, <1>4, UpdateHolds
  <1>5. CASE Session!ApplyPreRequestPlugins(s) \/ Session!ApplyPostResponsePlugins(s)
    BY <1>4, <1>5, SingletonIsSequence
    DEF Session!ApplyPreRequestPlugins, Session!ApplyPostResponsePlugins, Session!SetError,
        Session!clientVars, Session!serverVars
  <1>6. CASE Session!ResetContext(s)
    BY <1>4, <1>6, EmptyIsSequence
    DEF Session!ResetContext, Session!Reset, Session!clientVars, Session!serverVars
  <1>7. CASE Session!ForwardRequest(s)
    <2>1. PICK x \in Session!AfterSend(sstat[s]) : sstat' = [sstat EXCEPT ![s] = x]
      BY <1>7 DEF Session!ForwardRequest
    <2>2. x \in Session!Statuses
      BY <2>1 DEF Session!AfterSend, Session!Statuses
    <2>3. UNCHANGED <<cin, cout, cstat, sin, resp>>
      BY <1>7 DEF Session!ForwardRequest, Session!clientVars
    <2> QED
      BY <2>1, <2>2, <2>3
  <1>8. CASE Session!ReceiveResponse(s)
    <2>1. /\ resp' = [resp EXCEPT ![s] = resp[s] \o sin[s]]
          /\ sin' = [sin EXCEPT ![s] = <<>>]
          /\ UNCHANGED <<cin, cout, cstat, sstat>>
      BY <1>8 DEF Session!ReceiveResponse, Session!clientVars
    <2>2. IsSequence(resp[s] \o sin[s])
      BY <1>0, ConcatIsSequence
    <2> QED
      BY <1>0, <2>1, <2>2, UpdateHolds, EmptyIsSequence
  <1>9. CASE Session!ForwardResponse(s)
    <2>1. PICK x \in Session!AfterSend(cstat[s]) : cstat' = [cstat EXCEPT ![s] = x]
      BY <1>9 DEF Session!ForwardResponse
    <2>2. x \in Session!Statuses
      BY <2>1 DEF Session!AfterSend, Session!Statuses
    <2>3. /\ \/ cout' = cout
             \/ cout' = [cout EXCEPT ![s] = cout[s] \o Session!Sent(resp[s], cout[s])]
          /\ UNCHANGED <<cin, sin, sstat, resp>>
      BY <1>9 DEF Session!ForwardResponse, Session!serverVars
    <2>4. IsSequence(cout[s] \o Session!Sent(resp[s], cout[s]))
      BY <1>0, ConcatIsSequence, SentIsSequence
    <2>5. HoldsSequences(cout')
      <3> DEFINE sent == cout[s] \o Session!Sent(resp[s], cout[s])
      <3>1. HoldsSequences([cout EXCEPT ![s] = sent])
        <4> HIDE DEF sent
        <4>1. IsSequence(sent)
          BY <2>4 DEF sent
        <4> QED
          BY <4>1, UpdateHolds
      <3> QED
        BY <2>3, <3>1
    <2>6. \A t \in Sessions \ {s} : cout'[t] = cout[t] /\ cstat'[t] = cstat[t]
      BY <1>0, <2>1, <2>3
    <2> QED
      BY <2>1, <2>2, <2>3, <2>5, <2>6
  <1> QED
    BY <1>2, <1>3, <1>5, <1>6, <1>7, <1>8, <1>9 DEF Session!TakeAction

\* The peers and the connections never take an event away that epoll has reported,
\* and they leave alone what the operator sees of a session.
LEMMA PeersKeepReady ==
    ASSUME SocketsOK, NEW s \in Sessions, Session!Peers(s)
    PROVE  /\ SocketsOK'
           /\ UNCHANGED <<life, waiting, terminated, ev>>
           /\ \A t \in Sessions : Session!Ready(t) => Session!Ready(t)'
  <1> USE DEF SocketsOK
  <1>0. /\ \A f \in {cin, cout, sin} : DOMAIN f = Sessions /\ IsSequence(f[s])
        /\ {"open", "eof", "reset"} \subseteq Session!Statuses
    BY DEF HoldsSequences, Session!Statuses
  <1>1. UNCHANGED <<life, waiting, terminated, ev, resp>>
    BY DEF Session!Peers, Session!PeersRespond, Session!ClientRead, Session!ClientSeesEnd,
       Session!ServerRead, Session!ServerSend, Session!ServerCloses, Session!ServerBreaks,
       Session!ClientSend, Session!ClientLeaves, Session!context
  <1>2. ASSUME UNCHANGED <<cin, cout, cstat, sin, sstat>>
        PROVE  SocketsOK' /\ \A t \in Sessions : Session!Ready(t) => Session!Ready(t)'
    BY <1>1, <1>2 DEF Session!Ready
  <1>3. CASE Session!ClientSeesEnd(s) \/ Session!ServerRead(s)
    BY <1>1, <1>2, <1>3
    DEF Session!ClientSeesEnd, Session!ServerRead, Session!clientVars, Session!serverVars
  <1>4. CASE Session!ClientRead(s)
    <2>1. /\ cout[s] # <<>> /\ cout' = [cout EXCEPT ![s] = Tail(cout[s])]
          /\ cstat' = cstat \/ cstat' = [cstat EXCEPT ![s] = "eof"]
          /\ UNCHANGED <<cin, sin, sstat>>
      BY <1>4 DEF Session!ClientRead, Session!serverVars
    <2>2. IsSequence(Tail(cout[s])) /\ Len(cout[s]) \in Nat /\ Len(Tail(cout[s])) = Len(cout[s]) - 1
      BY <1>0, <2>1, TailIsSequence
    <2>3. HoldsSequences(cout')
      BY <1>0, <2>1, <2>2, UpdateHolds
    <2>4. \A t \in Sessions : Len(cout[t]) < SocketRoom => Len(cout'[t]) < SocketRoom
      BY <1>0, <2>1, <2>2, ExchangeAssumption
    <2>5. \A t \in Sessions : cstat'[t] = cstat[t] \/ cstat'[t] = "eof"
      BY <2>1
    <2> QED
      BY <1>0, <1>1, <2>1, <2>3, <2>4, <2>5 DEF Session!Ready
  <1>5. CASE Session!ClientLeaves(s)
    <2>1. PICK x \in {"eof", "reset"} : cstat' = [cstat EXCEPT ![s] = x]
      BY <1>5 DEF Session!ClientLeaves
    <2>2. cout' = [cout EXCEPT ![s] = <<>>] /\ UNCHANGED <<cin, sin, sstat>>
      BY <1>5 DEF Session!ClientLeaves, Session!serverVars
    <2>3. HoldsSequences(cout')
      BY <1>0, <2>2, UpdateHolds, EmptyIsSequence
    <2>4. \A t \in Sessions \ {s} : cout'[t] = cout[t] /\ cstat'[t] = cstat[t]
      BY <1>0, <2>1, <2>2
    <2>5. cstat'[s] # "open"
      BY <2>1
    <2> QED
      BY <1>0, <1>1, <2>1, <2>2, <2>3, <2>4, <2>5 DEF Session!Ready
  <1>6. CASE Session!ClientSend(s)
    <2>1. PICK m : cin' = [cin EXCEPT ![s] = Append(cin[s], m)]
      BY <1>6 DEF Session!ClientSend, Session!Send
    <2>2. /\ cstat' = cstat \/ cstat' = [cstat EXCEPT ![s] = "eof"]
          /\ UNCHANGED <<cout, sin, sstat>>
      BY <1>6 DEF Session!ClientSend, Session!serverVars
    <2>3. IsSequence(Append(cin[s], m)) /\ Append(cin[s], m) # <<>>
      BY <1>0, AppendIsSequence
    <2>4. HoldsSequences(cin')
      BY <1>0, <2>1, <2>3, UpdateHolds
    <2>5. \A t \in Sessions : cin[t] # <<>> => cin'[t] # <<>>
      BY <1>0, <2>1, <2>3
    <2>6. \A t \in Sessions : cstat'[t] = cstat[t] \/ cstat'[t] = "eof"
      BY <2>2
    <2> QED
      BY <1>0, <1>1, <2>2, <2>4, <2>5, <2>6 DEF Session!Ready
  <1>7. CASE Session!ServerSend(s)
    <2>1. PICK m : sin' = [sin EXCEPT ![s] = Append(sin[s], m)]
      BY <1>7 DEF Session!ServerSend
    <2>2. UNCHANGED <<cin, cout, cstat, sstat>>
      BY <1>7 DEF Session!ServerSend, Session!clientVars
    <2>3. IsSequence(Append(sin[s], m)) /\ Append(sin[s], m) # <<>>
      BY <1>0, AppendIsSequence
    <2>4. HoldsSequences(sin')
      BY <1>0, <2>1, <2>3, UpdateHolds
    <2>5. \A t \in Sessions : sin[t] # <<>> => sin'[t] # <<>>
      BY <1>0, <2>1, <2>3
    <2> QED
      BY <1>1, <2>2, <2>4, <2>5 DEF Session!Ready
  <1>8. CASE Session!ServerCloses(s) \/ Session!ServerBreaks(s)
    <2>1. PICK x \in {"eof", "reset"} : sstat' = [sstat EXCEPT ![s] = x]
      BY <1>8 DEF Session!ServerCloses, Session!ServerBreaks
    <2>2. UNCHANGED <<cin, cout, cstat, sin>>
      BY <1>8 DEF Session!ServerCloses, Session!ServerBreaks, Session!clientVars
    <2>3. \A t \in Sessions : sstat'[t] = sstat[t] \/ sstat'[t] # "open"
      BY <2>1
    <2> QED
      BY <1>0, <1>1, <2>1, <2>2, <2>3 DEF Session!Ready
  <1> QED
    BY <1>1, <1>3, <1>4, <1>5, <1>6, <1>7, <1>8 DEF Session!Peers, Session!PeersRespond

-----------------------------------------------------------------------------
(* The proxy's steps are the operator's *)

\* The session a worker is about to run is live and nowhere else.
LEMMA RunnersOwn ==
    ASSUME IInv, NEW w \in Workers, wpc[w] = "dispatch"
    PROVE  /\ held[w] \in Sessions /\ life[held[w]] = "live"
           /\ ~Queued(held[w]) /\ ~Watched(held[w]) /\ ~InHand(held[w])
  <1>1. /\ held[w] \in Sessions /\ Held(held[w])
        /\ ~Queued(held[w]) /\ ~Watched(held[w]) /\ ~InHand(held[w])
    BY WorkerOwns
  <1> QED
    BY <1>1 DEF IInv, ExclusiveOwner, OwnedIffLive

LEMMA RunSessionChanges ==
    ASSUME IInv, WaitingOK, NEW w \in Workers, RunSession(w)
    PROVE  \E wt, tm \in BOOLEAN, e \in Events : Changes(held[w], wt, tm, e)
  <1>1. wpc[w] = "dispatch"
    BY DEF RunSession, BeginRun
  <1>2. held[w] \in Sessions /\ (waiting[held[w]] => ev[held[w]] # NoEvent)
    BY <1>1, RunnersOwn DEF WaitingOK
  <1> QED
    BY <1>2, ActionChanges DEF IInv, RunSession

LEMMA RunSessionIsRun ==
    ASSUME IInv, WaitingOK, NEW w \in Workers, RunSession(w)
    PROVE  Run(w)
  <1>1. PICK wt \in BOOLEAN, tm \in BOOLEAN, e \in Events : Changes(held[w], wt, tm, e)
    BY RunSessionChanges
  <1>2. BeginRun(w)
    BY DEF RunSession
  <1> QED
    BY <1>1, <1>2 DEF Run, Changes

LEMMA StepIsOperators ==
    ASSUME IInv, SocketsOK, WaitingOK, [ProxyNext]_proxyVars
    PROVE  [Next]_vars
  <1>1. ASSUME NEW s \in Sessions, Alive, AcceptClient(s) PROVE [Next]_vars
    BY <1>1 DEF Alive, AcceptClient, Next, Main
  <1>2. ASSUME NEW s \in Sessions, Peers(s) PROVE [Next]_vars
    <2>1. UNCHANGED <<life, waiting, terminated, ev>>
      BY <1>2, PeersKeepReady DEF Peers
    <2> QED
      BY <1>2, <2>1 DEF Peers, operatorVars, vars, sessionVars
  <1>3. ASSUME NEW w \in Workers, Alive, WorkOn(w) PROVE [Next]_vars
    BY <1>3 DEF Alive, WorkOn, Next, Worker
  <1>4. ASSUME NEW w \in Workers, Alive, RunSession(w) PROVE [Next]_vars
    BY <1>4, RunSessionIsRun DEF Alive, Next, Worker
  <1>5. ASSUME Alive, WatchOn PROVE [Next]_vars
    BY <1>5 DEF Alive, WatchOn, Next, Watcher
  <1>6. ASSUME Alive, EpollReports PROVE [Next]_vars
    <2>1. PICK ready \in SUBSET ReadyEntries : EpollWait(ready)
      BY <1>6 DEF EpollReports
    <2>2. ready \in SUBSET epoll
      BY <2>1 DEF ReadyEntries
    <2> QED
      BY <1>6, <2>1, <2>2 DEF Alive, Next, Watcher
  <1>7. ASSUME UNCHANGED proxyVars PROVE [Next]_vars
    BY <1>7 DEF proxyVars
  <1> QED
    BY <1>1, <1>2, <1>3, <1>4, <1>5, <1>6, <1>7 DEF ProxyNext, AWorker, TheWatcher

-----------------------------------------------------------------------------
(* The proxy's steps are the sessions' *)

\* What a worker does apart from running and deleting, and what the watcher does.
LEMMA LoopsUntouched ==
    ASSUME UNCHANGED exchangeVars,
           \/ \E w \in Workers : WorkerLoop(w) /\ ~DeleteSession(w)
           \/ WatcherLoop
           \/ \E ready \in SUBSET epoll : EpollWait(ready)
    PROVE  UNCHANGED <<life, waiting, terminated, ev, exchangeVars>>
  BY DEF WorkerLoop, BeginWork, Pop, PopWait, PopTimeout, AddToWatch, Resubmit, WatcherLoop,
     BeginWatch, Unwatch, SubmitReady, EpollWait, sessionVars

LEMMA StepIsSessions ==
    ASSUME IInv, ReportedAreReady, [ProxyNext]_proxyVars
    PROVE  [Session!Next]_(Session!vars)
  <1> DEFINE Goal == [Session!Next]_(Session!vars)
  <1>0. ASSUME UNCHANGED <<life, waiting, terminated, ev, exchangeVars>> PROVE Goal
    BY <1>0 DEF exchangeVars, Session!vars, Session!context, Session!clientVars,
       Session!serverVars
  <1>1. ASSUME NEW s \in Sessions, Alive, AcceptClient(s) \/ Peers(s) PROVE Goal
    BY <1>1 DEF Alive, AcceptClient, Peers, Session!Next
  <1>2. ASSUME NEW w \in Workers, Alive, WorkOn(w) PROVE Goal
    <2>1. CASE DeleteSession(w)
      <3> DEFINE s == held[w]
      <3>1. /\ wpc[w] = "dispatch" /\ terminated[s]
            /\ life' = [life EXCEPT ![s] = "deleted"]
            /\ UNCHANGED <<waiting, terminated, ev, exchangeVars>>
        BY <1>2, <2>1 DEF DeleteSession, WorkOn, sessionVars
      <3>2. s \in Sessions /\ life[s] = "live"
        BY <3>1, RunnersOwn
      <3>3. Session!Delete(s)
        BY <3>1, <3>2 DEF Session!Delete, exchangeVars, Session!context,
           Session!clientVars, Session!serverVars
      <3> QED
        BY <1>2, <3>2, <3>3 DEF Alive, Session!Next
    <2>2. CASE ~DeleteSession(w)
      BY <1>0, <1>2, <2>2, LoopsUntouched DEF WorkOn
    <2> QED
      BY <2>1, <2>2
  <1>3. ASSUME NEW w \in Workers, Alive, RunSession(w) PROVE Goal
    <2> DEFINE s == held[w]
    <2>1. wpc[w] = "dispatch" /\ ~terminated[s] /\ Session!TakeAction(s)
      BY <1>3 DEF RunSession, BeginRun
    <2>2. s \in Sessions /\ life[s] = "live"
      BY <2>1, RunnersOwn
    <2>3. waiting[s] => Session!Ready(s)
      BY <2>1, <2>2 DEF ReportedAreReady, Reported
    <2>4. Session!Step(s)
      BY <2>1, <2>2, <2>3 DEF Session!Step
    <2> QED
      BY <1>3, <2>2, <2>4 DEF Alive, Session!Next
  <1>4. ASSUME WatchOn \/ EpollReports PROVE Goal
    <2>1. UNCHANGED exchangeVars /\ (WatcherLoop \/ \E ready \in SUBSET epoll : EpollWait(ready))
      BY <1>4 DEF WatchOn, EpollReports, EpollWait
    <2> QED
      BY <1>0, <2>1, LoopsUntouched
  <1>5. ASSUME UNCHANGED proxyVars PROVE Goal
    BY <1>0, <1>5 DEF proxyVars, vars, sessionVars
  <1> QED
    BY <1>1, <1>2, <1>3, <1>4, <1>5 DEF ProxyNext, AWorker, TheWatcher

-----------------------------------------------------------------------------
(* The inductive invariant *)

LEMMA InitProxyInv == ProxyInit => ProxyInv
  <1> SUFFICES ASSUME ProxyInit PROVE ProxyInv
    OBVIOUS
  <1>1. IInv
    BY InitIInv DEF ProxyInit
  <1>2. /\ cin = [s \in Sessions |-> <<>>] /\ cout = [s \in Sessions |-> <<>>]
        /\ sin = [s \in Sessions |-> <<>>] /\ resp = [s \in Sessions |-> <<>>]
        /\ cstat = [s \in Sessions |-> "open"] /\ sstat = [s \in Sessions |-> "open"]
        /\ waiting = [s \in Sessions |-> FALSE]
    BY DEF ProxyInit, Session!Init
  <1>3. SocketsOK
    BY <1>2, EmptyIsSequence DEF SocketsOK, HoldsSequences, Session!Statuses
  <1>4. WaitingOK /\ ReportedAreReady
    BY <1>2 DEF WaitingOK, ReportedAreReady
  <1> QED
    BY <1>1, <1>3, <1>4 DEF ProxyInv

LEMMA StepKeepsSockets ==
    ASSUME ProxyInv, [ProxyNext]_proxyVars
    PROVE  SocketsOK'
  <1> USE DEF ProxyInv
  <1>0. ASSUME UNCHANGED exchangeVars PROVE SocketsOK'
    BY <1>0 DEF SocketsOK, exchangeVars
  <1>1. ASSUME NEW s \in Sessions, AcceptClient(s) PROVE SocketsOK'
    <2>1. /\ sstat' = sstat \/ sstat' = [sstat EXCEPT ![s] = "unconnected"]
          /\ UNCHANGED <<cin, cout, cstat, sin, resp>>
      BY <1>1 DEF AcceptClient, Session!Connect, Session!context, Session!clientVars
    <2> QED
      BY <2>1 DEF SocketsOK, Session!Statuses
  <1>2. ASSUME NEW s \in Sessions, Peers(s) PROVE SocketsOK'
    BY <1>2, PeersKeepReady DEF Peers
  <1>3. ASSUME NEW w \in Workers, RunSession(w) PROVE SocketsOK'
    <2>1. held[w] \in Sessions /\ Session!TakeAction(held[w])
      BY <1>3, RunnersOwn DEF RunSession, BeginRun
    <2> QED
      BY <2>1, ActionSockets DEF IInv
  <1> QED
    BY <1>0, <1>1, <1>2, <1>3
    DEF ProxyNext, AWorker, TheWatcher, WorkOn, WatchOn, EpollReports, proxyVars

LEMMA StepKeepsWaiting ==
    ASSUME ProxyInv, [ProxyNext]_proxyVars
    PROVE  WaitingOK'
  <1> USE DEF ProxyInv, WaitingOK
  <1>0. /\ waiting \in [Sessions -> BOOLEAN] /\ ev \in [Sessions -> Events]
        /\ life \in [Sessions -> {"new", "live", "deleted"}]
    BY DEF IInv, TypeOK
  <1>1. ASSUME UNCHANGED <<waiting, ev>>, \A s \in Sessions : life'[s] = "new" => life[s] = "new"
        PROVE  WaitingOK'
    BY <1>1
  <1>2. ASSUME NEW s \in Sessions, AcceptClient(s) PROVE WaitingOK'
    BY <1>0, <1>1, <1>2 DEF AcceptClient, Accept, sessionVars
  <1>3. ASSUME NEW s \in Sessions, Peers(s) PROVE WaitingOK'
    BY <1>1, <1>3, PeersKeepReady DEF Peers
  <1>4. ASSUME NEW w \in Workers, RunSession(w) PROVE WaitingOK'
    <2> DEFINE s == held[w]
    <2>1. PICK wt \in BOOLEAN, tm \in BOOLEAN, e \in Events : Changes(s, wt, tm, e)
      BY <1>4, RunSessionChanges
    <2>2. s \in Sessions /\ life[s] = "live" /\ life' = life
      BY <1>4, RunnersOwn DEF RunSession, BeginRun
    <2> HIDE DEF s
    <2> QED
      BY <1>0, <2>1, <2>2 DEF Changes
  <1>5. ASSUME NEW w \in Workers, WorkOn(w), DeleteSession(w) PROVE WaitingOK'
    BY <1>0, <1>1, <1>5 DEF DeleteSession, sessionVars
  <1>6. ASSUME UNCHANGED <<life, waiting, ev>> PROVE WaitingOK'
    BY <1>1, <1>6
  <1>7. ASSUME \/ \E w \in Workers : WorkOn(w) /\ ~DeleteSession(w)
               \/ WatchOn \/ EpollReports
        PROVE  WaitingOK'
    <2>1. /\ UNCHANGED exchangeVars
          /\ \/ \E w \in Workers : WorkerLoop(w) /\ ~DeleteSession(w)
             \/ WatcherLoop
             \/ \E ready \in SUBSET epoll : EpollWait(ready)
      BY <1>7 DEF WorkOn, WatchOn, EpollReports, EpollWait
    <2> QED
      BY <1>6, <2>1, LoopsUntouched
  <1> QED
    BY <1>2, <1>3, <1>4, <1>5, <1>6, <1>7
    DEF ProxyNext, AWorker, TheWatcher, proxyVars, vars, sessionVars

LEMMA SubmitQueues ==
    ASSUME NEW s \in Sessions, queue \in Seq(Sessions), Submit(s)
    PROVE  \A t \in Sessions : Queued(t)' => Queued(t) \/ t = s
  BY DEF Submit, Queued

LEMMA TailQueues ==
    ASSUME queue \in Seq(Sessions), queue # <<>>, queue' = Tail(queue)
    PROVE  /\ Queued(Head(queue))
           /\ \A t \in Sessions : Queued(t)' => Queued(t)
  <1>1. /\ Head(queue) = queue[1] /\ 1 \in DOMAIN queue
        /\ \A i \in DOMAIN queue' : queue'[i] = queue[i + 1] /\ i + 1 \in DOMAIN queue
    OBVIOUS
  <1> QED
    BY <1>1 DEF Queued

\* Where a session that is reported after a worker's or the watcher's own step was.
LEMMA LoopsReport ==
    ASSUME IInv,
           \/ \E w \in Workers : WorkerLoop(w)
           \/ WatcherLoop
    PROVE  \A t \in Sessions : Reported(t)' /\ waiting[t] => Reported(t)
  <1> USE DEF Reported, InHand
  <1>0. /\ queue \in Seq(Sessions)
        /\ wpc \in [Workers -> {"loop", "pop", "wait", "dispatch", "route", "exited"}]
        /\ held \in [Workers -> Sessions \cup {None}]
    BY DEF IInv, TypeOK
  <1>1. ASSUME NEW w \in Workers, BeginWork(w) \/ PopWait(w) \/ PopTimeout(w)
        PROVE  \A t \in Sessions : Reported(t)' /\ waiting[t] => Reported(t)
    BY <1>0, <1>1 DEF BeginWork, PopWait, PopTimeout, UnlessStopped, Queued, watcherVars
  <1>2. ASSUME NEW w \in Workers, Pop(w)
        PROVE  \A t \in Sessions : Reported(t)' /\ waiting[t] => Reported(t)
    <2>1. Queued(Head(queue)) /\ \A t \in Sessions : Queued(t)' => Queued(t)
      BY <1>0, <1>2, TailQueues DEF Pop
    <2>2. \A v \in Workers : held'[v] = IF v = w THEN Head(queue) ELSE held[v]
      BY <1>0, <1>2 DEF Pop
    <2>3. \A v \in Workers : v # w => wpc'[v] = wpc[v]
      BY <1>0, <1>2 DEF Pop
    <2>4. UNCHANGED <<batch, hand>>
      BY <1>2 DEF Pop, watcherVars
    <2> QED
      BY <2>1, <2>2, <2>3, <2>4
  <1>3. ASSUME NEW w \in Workers, DeleteSession(w) \/ AddToWatch(w)
        PROVE  \A t \in Sessions : Reported(t)' /\ waiting[t] => Reported(t)
    BY <1>0, <1>3 DEF DeleteSession, AddToWatch, ReturnFromWork, Queued, watcherVars
  <1>4. ASSUME NEW w \in Workers, Resubmit(w)
        PROVE  \A t \in Sessions : Reported(t)' /\ waiting[t] => Reported(t)
    <2>1. held[w] \in Sessions /\ ~waiting[held[w]]
      BY <1>4, WorkerOwns DEF Resubmit
    <2>2. \A t \in Sessions : Queued(t)' => Queued(t) \/ t = held[w]
      BY <1>0, <1>4, <2>1, SubmitQueues DEF Resubmit
    <2>3. \A v \in Workers : wpc'[v] = "dispatch" =>
            v # w /\ held'[v] = held[v] /\ wpc[v] = "dispatch"
      BY <1>0, <1>4 DEF Resubmit, ReturnFromWork
    <2>4. UNCHANGED <<batch, hand>>
      BY <1>4 DEF Resubmit, watcherVars
    <2> QED
      BY <2>1, <2>2, <2>3, <2>4
  <1>5. ASSUME BeginWatch \/ Unwatch
        PROVE  \A t \in Sessions : Reported(t)' /\ waiting[t] => Reported(t)
    BY <1>5 DEF BeginWatch, Unwatch, Remain, Queued, workerVars
  <1>6. ASSUME SubmitReady
        PROVE  \A t \in Sessions : Reported(t)' /\ waiting[t] => Reported(t)
    <2>1. hand \in Sessions
      BY <1>6 DEF SubmitReady, IInv, WatcherOK, TypeOK
    <2>2. \A t \in Sessions : Queued(t)' => Queued(t) \/ t = hand
      BY <1>0, <1>6, <2>1, SubmitQueues DEF SubmitReady
    <2> QED
      BY <1>6, <2>1, <2>2, NoneIsNoSession DEF SubmitReady, workerVars
  <1> QED
    BY <1>1, <1>2, <1>3, <1>4, <1>5, <1>6 DEF WorkerLoop, WatcherLoop

LEMMA StepKeepsReports ==
    ASSUME ProxyInv, [ProxyNext]_proxyVars
    PROVE  ReportedAreReady'
  <1> USE DEF ProxyInv
  <1>0. ASSUME UNCHANGED waiting,
               \A t \in Sessions : Reported(t)' /\ waiting[t] => Reported(t) \/ Session!Ready(t),
               \A t \in Sessions : Session!Ready(t) => Session!Ready(t)'
        PROVE  ReportedAreReady'
    BY <1>0 DEF ReportedAreReady
  <1>1. ASSUME UNCHANGED <<ev, exchangeVars>>, NEW t PROVE Session!Ready(t)' <=> Session!Ready(t)
    BY <1>1 DEF exchangeVars, Session!Ready
  <1>2. ASSUME NEW s \in Sessions, AcceptClient(s) PROVE ReportedAreReady'
    <2>1. /\ Submit(s) /\ life[s] = "new"
          /\ UNCHANGED <<waiting, ev, wpc, held, batch, hand>>
      BY <1>2 DEF AcceptClient, Accept, sessionVars, workerVars, watcherVars
    <2>2. ~waiting[s]
      BY <2>1 DEF WaitingOK
    <2>3. \A t \in Sessions : Queued(t)' => Queued(t) \/ t = s
      BY <2>1, SubmitQueues DEF IInv, TypeOK
    <2>4. /\ sstat' = sstat \/ sstat' = [sstat EXCEPT ![s] = "unconnected"]
          /\ UNCHANGED <<cin, cout, cstat, sin>>
      BY <1>2 DEF AcceptClient, Session!Connect, Session!context, Session!clientVars
    <2>5. \A t \in Sessions : sstat'[t] = sstat[t] \/ sstat'[t] # "open"
      BY <2>4 DEF SocketsOK
    <2>6. \A t \in Sessions : Session!Ready(t) => Session!Ready(t)'
      BY <2>1, <2>4, <2>5 DEF Session!Ready
    <2> QED
      BY <1>0, <2>1, <2>2, <2>3, <2>6 DEF Reported, InHand
  <1>3. ASSUME NEW s \in Sessions, Peers(s) PROVE ReportedAreReady'
    <2>1. /\ UNCHANGED waiting
          /\ \A t \in Sessions : Session!Ready(t) => Session!Ready(t)'
      BY <1>3, PeersKeepReady DEF Peers
    <2>2. \A t \in Sessions : Reported(t)' => Reported(t)
      BY <1>3 DEF Peers, operatorVars, workerVars, watcherVars, Reported, Queued, InHand
    <2> QED
      BY <1>0, <2>1, <2>2
  <1>4. ASSUME NEW w \in Workers, RunSession(w) PROVE ReportedAreReady'
    <2> DEFINE s == held[w]
    <2>1. /\ wpc[w] = "dispatch" /\ wpc' = [wpc EXCEPT ![w] = "route"]
          /\ Session!TakeAction(s)
          /\ UNCHANGED <<queue, held, batch, hand, epoll>>
      BY <1>4 DEF RunSession, BeginRun, watcherVars
    <2>2. s \in Sessions /\ ~Queued(s) /\ ~Watched(s) /\ ~InHand(s)
      BY <2>1, RunnersOwn
    <2>3. \A v \in Workers : held[v] = s => v = w
      BY <2>2, NoneIsNoSession DEF IInv, ExclusiveOwner, HeldOnce
    <2>4. wpc \in [Workers -> {"loop", "pop", "wait", "dispatch", "route", "exited"}]
      BY DEF IInv, TypeOK
    <2>5. ~Reported(s)'
      <3>1. \A b \in batch : b.ptr # s
        BY <2>2 DEF IInv, BatchIsRegistered, Watched
      <3>2. \A v \in Workers : ~(held'[v] = s /\ wpc'[v] = "dispatch")
        BY <2>1, <2>3, <2>4
      <3>3. s' = s
        BY <2>1
      <3> HIDE DEF s
      <3> QED
        BY <2>1, <2>2, <3>1, <3>2, <3>3 DEF Reported, Queued, InHand
    <2>6. PICK wt \in BOOLEAN, tm \in BOOLEAN, e \in Events : Changes(s, wt, tm, e)
      BY <1>4, RunSessionChanges
    <2>7. \A t \in Sessions \ {s} : waiting'[t] = waiting[t] /\ ev'[t] = ev[t]
      BY <2>6 DEF Changes, IInv, TypeOK
    <2>8. \A t \in Sessions \ {s} : Session!Ready(t)' <=> Session!Ready(t)
      BY <2>1, <2>2, <2>7, ActionSockets, UntouchedReady DEF IInv
    <2>9. \A t \in Sessions \ {s} : Reported(t)' => Reported(t)
      BY <2>1, <2>4 DEF Reported, Queued, InHand
    <2>10. s' = s
      BY <2>1
    <2> HIDE DEF s
    <2> QED
      BY <2>5, <2>7, <2>8, <2>9, <2>10 DEF ReportedAreReady
  <1>5. ASSUME UNCHANGED exchangeVars, WatcherLoop \/ \E w \in Workers : WorkerLoop(w)
        PROVE  ReportedAreReady'
    <2>1. UNCHANGED <<waiting, ev>>
      BY <1>5 DEF WorkerLoop, BeginWork, Pop, PopWait, PopTimeout, DeleteSession, AddToWatch,
         Resubmit, WatcherLoop, BeginWatch, Unwatch, SubmitReady, sessionVars
    <2>2. \A t \in Sessions : Reported(t)' /\ waiting[t] => Reported(t)
      BY <1>5, LoopsReport
    <2> QED
      BY <1>0, <1>1, <1>5, <2>1, <2>2
  <1>6. ASSUME EpollReports PROVE ReportedAreReady'
    <2>1. PICK ready \in SUBSET ReadyEntries : EpollWait(ready)
      BY <1>6 DEF EpollReports
    <2>2. /\ batch' = ready
          /\ UNCHANGED <<waiting, ev, queue, wpc, held, hand, exchangeVars>>
      BY <1>6, <2>1 DEF EpollReports, EpollWait, sessionVars, workerVars
    <2>3. \A b \in ready : Session!Ready(b.ptr)
      BY <2>1 DEF ReadyEntries
    <2>4. \A t \in Sessions : Reported(t)' => Reported(t) \/ Session!Ready(t)
      BY <2>2, <2>3 DEF Reported, Queued, InHand
    <2> QED
      BY <1>0, <1>1, <2>2, <2>4
  <1>7. ASSUME UNCHANGED proxyVars PROVE ReportedAreReady'
    <2>1. \A t \in Sessions : Reported(t)' => Reported(t)
      BY <1>7 DEF proxyVars, vars, workerVars, watcherVars, Reported, Queued, InHand
    <2>2. UNCHANGED <<waiting, ev, exchangeVars>>
      BY <1>7 DEF proxyVars, vars, sessionVars
    <2> QED
      BY <1>0, <1>1, <2>1, <2>2
  <1> QED
    BY <1>2, <1>3, <1>4, <1>5, <1>6, <1>7 DEF ProxyNext, AWorker, TheWatcher, WorkOn, WatchOn

LEMMA StepKeepsProxyInv == ProxyInv /\ [ProxyNext]_proxyVars => ProxyInv'
  <1> SUFFICES ASSUME ProxyInv, [ProxyNext]_proxyVars PROVE ProxyInv'
    OBVIOUS
  <1>1. [Next]_vars
    BY StepIsOperators DEF ProxyInv
  <1>2. IInv'
    BY <1>1, NextIInv DEF ProxyInv
  <1> QED
    BY <1>2, StepKeepsSockets, StepKeepsWaiting, StepKeepsReports DEF ProxyInv

-----------------------------------------------------------------------------
(* Theorems *)

\* In every state of the proxy the operator owns its sessions as SessionOperator_proofs
\* says, and a session that waits and is on its way to a worker has its event.
THEOREM ProxyInvariance == ProxySpec => []ProxyInv
  <1> QED
    BY InitProxyInv, StepKeepsProxyInv, PTL DEF ProxySpec

\* The threads of the proxy, with real sessions, are a SessionOperator
\* (session-operator.cpp, Work and Watch): what is proved of it holds of the proxy.
THEOREM ProxyIsOperator == ProxySpec => ImplementsOperator
  <1>1. ProxyInit => Init
    BY DEF ProxyInit
  <1>2. ProxyInv /\ [ProxyNext]_proxyVars => [Next]_vars
    BY StepIsOperators DEF ProxyInv
  <1> QED
    BY <1>1, <1>2, ProxyInvariance, PTL DEF ProxySpec, ImplementsOperator, Spec

\* Every session of the proxy is run as module Session says: by one worker at a
\* time, not after it has ended, and when it waits only with its event there.
THEOREM ProxyIsSessions == ProxySpec => ImplementsSessions
  <1>1. ProxyInit => Session!Init
    BY DEF ProxyInit
  <1>2. ProxyInv /\ [ProxyNext]_proxyVars => [Session!Next]_(Session!vars)
    BY StepIsSessions DEF ProxyInv
  <1> QED
    BY <1>1, <1>2, ProxyInvariance, PTL DEF ProxySpec, ImplementsSessions, Session!Spec

-----------------------------------------------------------------------------
(* What is proved of one session holds of every session of the proxy *)

\* Module Session once more, with its theorems.
Proved == INSTANCE Session_proofs

LEMMA SameSessions == Session!Spec => Proved!Spec
  <1>1. Session!Init => Proved!Init
    BY DEF Proved!Init, Session!Init, Proved!NoEvent, Session!NoEvent
  <1>2. [Session!Next]_(Session!vars) => [Proved!Next]_(Proved!vars)
    BY ZenonT(60)
    DEF Proved!Awaiting, Session!Awaiting, Proved!context, Session!context,
        Proved!clientVars, Session!clientVars, Proved!serverVars, Session!serverVars,
        Proved!vars, Session!vars, Proved!NoEvent, Session!NoEvent, Proved!Received,
        Session!Received, Proved!Sent, Session!Sent, Proved!AfterSend, Session!AfterSend,
        Proved!Ready, Session!Ready, Proved!Goto, Session!Goto, Proved!WaitFor,
        Session!WaitFor, Proved!Proceed, Session!Proceed, Proved!PrepareToReceiveRequest,
        Session!PrepareToReceiveRequest, Proved!ReceiveRequest, Session!ReceiveRequest,
        Proved!Initiate, Session!Initiate, Proved!SetError, Session!SetError,
        Proved!AfterRefusal, Session!AfterRefusal, Proved!ApplyPreRequestPlugins,
        Session!ApplyPreRequestPlugins, Proved!PrepareToForwardRequest,
        Session!PrepareToForwardRequest, Proved!ForwardRequest, Session!ForwardRequest,
        Proved!PrepareToReceiveResponse, Session!PrepareToReceiveResponse,
        Proved!ReadyForQuery, Session!ReadyForQuery, Proved!ReceiveResponse,
        Session!ReceiveResponse, Proved!ApplyPostResponsePlugins,
        Session!ApplyPostResponsePlugins, Proved!PrepareToForwardResponse,
        Session!PrepareToForwardResponse, Proved!ForwardResponse, Session!ForwardResponse,
        Proved!Reset, Session!Reset, Proved!ResetContext, Session!ResetContext,
        Proved!TakeAction, Session!TakeAction, Proved!Step, Session!Step, Proved!Connect,
        Session!Connect, Proved!Delete, Session!Delete, Proved!Send, Session!Send,
        Proved!ClientSend, Session!ClientSend, Proved!ClientAfter, Session!ClientAfter,
        Proved!ClientRead, Session!ClientRead, Proved!ClientLeaves, Session!ClientLeaves,
        Proved!ClientSeesEnd, Session!ClientSeesEnd, Proved!Authenticated,
        Session!Authenticated, Proved!Answers, Session!Answers, Proved!ServerRead,
        Session!ServerRead, Proved!ServerSend, Session!ServerSend, Proved!ServerCloses,
        Session!ServerCloses, Proved!ServerBreaks, Session!ServerBreaks,
        Proved!PeersRespond, Session!PeersRespond, Proved!Peers,
        Session!Peers, Proved!Over, Session!Over, Proved!Next, Session!Next
  <1> QED
    BY <1>1, <1>2, PTL DEF Proved!Spec, Session!Spec

\* The assumptions under which the theorems about Session are proved.
LEMMA SessionAssumptions ==
    /\ Env \subseteq Proved!Behaviours
    /\ MaxMessages \in Nat /\ SocketRoom \in Nat \ {0}
  BY ExchangeAssumption DEF Proved!Behaviours, Session!Behaviours

\* The proxy with its threads runs every session as the proofs about Session suppose.
LEMMA ProxyIsProved == ProxySpec => Proved!Spec
  BY ProxyIsSessions, SameSessions, PTL DEF ImplementsSessions

\* What is proved of the operator holds of the proxy: each live session of the real
\* state machine has exactly one owner, no epoll_ctl fails, and no event points to a
\* session that is gone.
THEOREM ProxyOwnsSessions == ProxySpec => [](ExclusiveOwner /\ EpollCtlSucceeds /\ BatchIsRegistered)
  <1>1. ProxyInv => ExclusiveOwner /\ EpollCtlSucceeds /\ BatchIsRegistered
    BY DEF ProxyInv, IInv
  <1> QED
    BY <1>1, ProxyInvariance, PTL

\* The real state machines are handed from owner to owner too, and only the worker
\* that owns one changes what the other threads read of it.
THEOREM ProxyHandsOver == ProxySpec => ImplementsOwnership
  BY ProxyIsOperator, OperatorHandsOver, PTL DEF ImplementsOperator

\* Under the threads, the queue and epoll of the proxy every client still reads only
\* the whole answers to its own messages, and the server sees each request at most
\* once, in order, and none that was refused.
THEOREM ProxyKeepsExchanges ==
    ProxySpec => [](/\ Session!OwnAnswersOnly /\ Session!AnswersComplete
                    /\ Session!RequestsOnceInOrder /\ Session!RefusedNeverForwarded
                    /\ Session!NothingLeftBehind /\ Session!ResponseForwardedWhole)
  <1>1. Proved!Spec => [](/\ Proved!OwnAnswersOnly /\ Proved!AnswersComplete
                          /\ Proved!RequestsOnceInOrder /\ Proved!RefusedNeverForwarded
                          /\ Proved!NothingLeftBehind /\ Proved!ResponseForwardedWhole)
    <2>1. Proved!Spec => []Proved!OwnAnswersOnly
      BY SessionAssumptions, Proved!AnswersAreOwn
    <2>2. Proved!Spec => []Proved!AnswersComplete
      BY SessionAssumptions, Proved!AnswersAreComplete
    <2>3. Proved!Spec => []Proved!RequestsOnceInOrder
      BY SessionAssumptions, Proved!RequestsInOrder
    <2>4. Proved!Spec => []Proved!RefusedNeverForwarded
      BY SessionAssumptions, Proved!RefusedStays
    <2>5. Proved!Spec => []Proved!NothingLeftBehind
      BY SessionAssumptions, Proved!NothingIsLeft
    <2>6. Proved!Spec => []Proved!ResponseForwardedWhole
      BY SessionAssumptions, Proved!ForwardedFromTheStart
    <2> QED
      BY <2>1, <2>2, <2>3, <2>4, <2>5, <2>6, PTL
  <1>2. /\ Proved!OwnAnswersOnly => Session!OwnAnswersOnly
        /\ Proved!AnswersComplete => Session!AnswersComplete
        /\ Proved!RequestsOnceInOrder => Session!RequestsOnceInOrder
        /\ Proved!RefusedNeverForwarded => Session!RefusedNeverForwarded
    BY DEF Proved!OwnAnswersOnly, Session!OwnAnswersOnly,
       Proved!AnswersComplete, Session!AnswersComplete,
       Proved!RequestsOnceInOrder, Session!RequestsOnceInOrder,
       Proved!RefusedNeverForwarded, Session!RefusedNeverForwarded
  <1>3. /\ Proved!NothingLeftBehind => Session!NothingLeftBehind
        /\ Proved!ResponseForwardedWhole => Session!ResponseForwardedWhole
    BY DEF Proved!NothingLeftBehind, Session!NothingLeftBehind,
       Proved!AuthenticationSplit, Session!AuthenticationSplit,
       Proved!ResponseForwardedWhole, Session!ResponseForwardedWhole
  <1> QED
    BY <1>1, <1>2, <1>3, ProxyIsProved, PTL

\* No client is forgotten by the proxy as a whole: a session that no thread has and that
\* is not queued is registered for what epoll reports, or its peer is to act.
THEOREM NobodyIsForgotten == ProxySpec => []NobodyStalls
  <1>1. Proved!Spec => []Proved!NobodyIsStuck
    BY SessionAssumptions, Proved!NobodyWaitsForEver
  <1>2. ASSUME ProxyInv, Proved!NobodyIsStuck
        PROVE  NobodyStalls
    <2> SUFFICES ASSUME NEW s \in Sessions, life[s] = "live",
                        ~Queued(s), ~Held(s), ~InHand(s)
                 PROVE  \/ \E e \in ReadyEntries : e.ptr = s
                        \/ Watched(s) /\ Session!PeersTurn(s)
      BY DEF NobodyStalls
    <2>1. Watched(s)
      BY <1>2 DEF ProxyInv, IInv, ExclusiveOwner, OwnedIffLive
    <2>2. PICK e \in epoll : e.ptr = s
      BY <2>1 DEF Watched
    <2>3. waiting[s]
      BY <1>2, <2>2 DEF ProxyInv, IInv, EntriesCurrent
    <2>4. CASE Session!Ready(s)
      BY <2>2, <2>4 DEF ReadyEntries
    <2>5. CASE ~Session!Ready(s)
      <3>1. ~Proved!Ready(s)
        BY <2>5 DEF Session!Ready, Proved!Ready
      <3>2. Proved!PeersTurn(s)
        BY <1>2, <2>3, <3>1 DEF Proved!NobodyIsStuck
      <3>3. Session!PeersTurn(s)
        BY <3>2 DEF Proved!PeersTurn, Session!PeersTurn, Proved!CutShort, Session!CutShort,
           Proved!AuthenticationSplit, Session!AuthenticationSplit,
           Proved!Awaiting, Session!Awaiting
      <3> QED
        BY <2>1, <3>3
    <2> QED
      BY <2>4, <2>5
  <1> QED
    BY <1>1, <1>2, ProxyInvariance, ProxyIsProved, PTL
=============================================================================
