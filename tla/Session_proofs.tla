--------------------------- MODULE Session_proofs ---------------------------
(***************************************************************************)
(* Proofs about Session, for any number of sessions, any length of the     *)
(* exchanges and whatever the clients and the servers do.                  *)
(***************************************************************************)
EXTENDS SessionInvariants, Integers, TLAPS

(* Types *)

LEMMA ConcatType ==
    ASSUME NEW S, NEW p \in Seq(S), NEW q \in Seq(S)
    PROVE  p \o q \in Seq(S)
  OBVIOUS

LEMMA SentType ==
    ASSUME NEW S, NEW p \in Seq(S), NEW q
    PROVE  Len(q) \in Nat => Sent(p, q) \in Seq(S)
  <1> SUFFICES ASSUME Len(q) \in Nat PROVE Sent(p, q) \in Seq(S)
    OBVIOUS
  <1>1. SocketRoom - Len(q) \in Int
    BY BoundsAssumption
  <1> QED
    BY <1>1 DEF Sent

LEMMA HeadType ==
    ASSUME NEW S, NEW q \in Seq(S), q # <<>>
    PROVE  Head(q) \in S /\ Tail(q) \in Seq(S)
  OBVIOUS

\* What the server answers, segment by segment.
ServerKinds == {"N", "R", "OK", "OKZ", "D", "Z", "E"}

LEMMA AnswersType == \A kind : Answers(kind) \subseteq Seq(ServerKinds)
  <1>1. \A x \in ServerKinds : <<x>> \in Seq(ServerKinds)
    OBVIOUS
  <1>2. /\ <<"OK", "Z">> \in Seq(ServerKinds) /\ <<"D", "Z">> \in Seq(ServerKinds)
        /\ <<"D", "D", "Z">> \in Seq(ServerKinds) /\ <<>> \in Seq(ServerKinds)
    BY DEF ServerKinds
  <1>3. Authenticated \subseteq Seq(ServerKinds)
    BY <1>1, <1>2 DEF Authenticated, ServerKinds
  <1> QED
    BY <1>1, <1>2, <1>3 DEF Answers, ServerKinds

LEMMA ActionTypes ==
    ASSUME IInv, NEW s \in Sessions, TakeAction(s)
    PROVE  TypeOK'
  <1> USE DEF IInv, TypeOK
  <1>1. /\ req[s] \in Seq(Request) /\ cin[s] \in Seq(Request) /\ sout[s] \in Seq(Request)
        /\ resp[s] \in Seq(Segment) /\ cout[s] \in Seq(Segment) /\ sin[s] \in Seq(Segment)
    OBVIOUS
  <1>2. NoEvent \in Events /\ <<>> \in Seq(Request) /\ <<>> \in Seq(Segment)
    BY DEF Events
  <1>3. \A side \in {"client", "server"}, events \in {"in", "out"} :
           [side |-> side, events |-> events] \in Events
    BY DEF Events
  <1>4. CASE \/ PrepareToReceiveRequest(s) \/ PrepareToForwardRequest(s)
             \/ PrepareToReceiveResponse(s) \/ PrepareToForwardResponse(s)
    <2>1. PICK side \in {"client", "server"}, events \in {"in", "out"}, state \in States :
             WaitFor(s, side, events) /\ Goto(s, state)
      BY <1>4 DEF PrepareToReceiveRequest, PrepareToForwardRequest,
         PrepareToReceiveResponse, PrepareToForwardResponse, States
    <2>2. UNCHANGED <<life, initiated, req, resp, down, clientVars, cout, serverVars, sout, refused>>
      BY <1>4 DEF PrepareToReceiveRequest, PrepareToForwardRequest,
         PrepareToReceiveResponse, PrepareToForwardResponse
    <2>3. /\ st' \in [Sessions -> States] /\ terminated' \in [Sessions -> BOOLEAN]
          /\ waiting' \in [Sessions -> BOOLEAN] /\ ev' \in [Sessions -> Events]
      BY <1>3, <2>1 DEF WaitFor, Goto
    <2> QED
      BY <2>2, <2>3 DEF clientVars, serverVars
  <1>5. CASE ReceiveRequest(s)
    <2>1. req[s] \o cin[s] \in Seq(Request)
      BY <1>1, ConcatType
    <2> QED
      BY <1>2, <1>5, <2>1 DEF ReceiveRequest, Proceed, Goto, States, Received, serverVars
  <1>6. CASE Initiate(s)
    BY <1>6 DEF Initiate, Goto, States, context, clientVars, serverVars
  <1>7. ASSUME req[s] # <<>>
        PROVE  SetError(s) \in Seq(Segment) /\ Head(req[s]).n \in Nat
    <2>1. Head(req[s]) \in Request
      BY <1>1, <1>7, HeadType
    <2>2. [kind |-> "PE", n |-> Head(req[s]).n] \in Segment
      BY <2>1 DEF Request, Segment
    <2> QED
      BY <2>1, <2>2 DEF SetError, Request
  <1>8. CASE ApplyPreRequestPlugins(s)
    <2>1. req[s] # <<>>
      BY <1>8 DEF BuffersOK, ApplyPreRequestPlugins, HasRequest
    <2>2. SetError(s) \in Seq(Segment) /\ Head(req[s]).n \in Nat
      BY <1>7, <2>1
    <2>3. resp' \in [Sessions -> Seq(Segment)] /\ refused' \in [Sessions -> SUBSET Nat]
      <3> DEFINE n == Head(req[s]).n
      <3>1. /\ resp' = resp \/ resp' = [resp EXCEPT ![s] = SetError(s)]
            /\ refused' = refused \/ refused' = [refused EXCEPT ![s] = refused[s] \cup {n}]
        BY <1>8 DEF ApplyPreRequestPlugins
      <3> HIDE DEF n
      <3>2. refused[s] \cup {n} \in SUBSET Nat
        BY <2>2 DEF n
      <3>3. resp' \in [Sessions -> Seq(Segment)]
        BY <2>2, <3>1
      <3>4. refused' \in [Sessions -> SUBSET Nat]
        BY <3>1, <3>2
      <3> QED
        BY <3>3, <3>4
    <2>4. st' \in [Sessions -> States] /\ terminated' \in [Sessions -> BOOLEAN]
      BY <1>8 DEF ApplyPreRequestPlugins, AfterRefusal, Goto, States
    <2>5. UNCHANGED <<life, initiated, waiting, ev, req, down, clientVars, cout, serverVars, sout>>
      BY <1>8 DEF ApplyPreRequestPlugins
    <2> QED
      BY <2>3, <2>4, <2>5 DEF clientVars, serverVars
  <1>9. CASE ApplyPostResponsePlugins(s)
    <2>1. req[s] # <<>>
      BY <1>9 DEF BuffersOK, ApplyPostResponsePlugins, HasAnswer
    <2>2. resp' \in [Sessions -> Seq(Segment)]
      BY <1>7, <1>9, <2>1 DEF ApplyPostResponsePlugins
    <2>3. st' \in [Sessions -> States] /\ terminated' \in [Sessions -> BOOLEAN]
      BY <1>9 DEF ApplyPostResponsePlugins, Goto, States
    <2>4. UNCHANGED <<life, initiated, waiting, ev, req, down, clientVars, cout, serverVars,
                      sout, refused>>
      BY <1>9 DEF ApplyPostResponsePlugins
    <2> QED
      BY <2>2, <2>3, <2>4 DEF clientVars, serverVars
  <1>10. \A x \in Statuses : AfterSend(x) \subseteq Statuses
    BY DEF AfterSend, Statuses
  <1>11. CASE ForwardRequest(s)
    <2>1. sout[s] \o req[s] \in Seq(Request)
      BY <1>1, ConcatType
    <2>2. sstat' \in [Sessions -> Statuses]
      <3>1. PICK x \in AfterSend(sstat[s]) : sstat' = [sstat EXCEPT ![s] = x]
        BY <1>11 DEF ForwardRequest
      <3> QED
        BY <1>10, <3>1
    <2> QED
      BY <1>11, <2>1, <2>2 DEF ForwardRequest, Proceed, Goto, States, clientVars
  <1>12. CASE ReceiveResponse(s)
    <2>1. resp[s] \o sin[s] \in Seq(Segment)
      BY <1>1, ConcatType
    <2> QED
      BY <1>2, <1>12, <2>1 DEF ReceiveResponse, Proceed, Goto, States, Received, clientVars
  <1>13. CASE ForwardResponse(s)
    <2>1. cout[s] \o Sent(resp[s], cout[s]) \in Seq(Segment)
      BY <1>1, SentType, ConcatType
    <2>2. cstat' \in [Sessions -> Statuses]
      <3>1. PICK x \in AfterSend(cstat[s]) : cstat' = [cstat EXCEPT ![s] = x]
        BY <1>13 DEF ForwardResponse
      <3> QED
        BY <1>10, <3>1
    <2> QED
      BY <1>13, <2>1, <2>2 DEF ForwardResponse, Proceed, Goto, States, serverVars
  <1>14. CASE ResetContext(s)
    BY <1>2, <1>14 DEF ResetContext, Reset, Goto, States, clientVars, serverVars
  <1> QED
    BY <1>4, <1>5, <1>6, <1>8, <1>9, <1>11, <1>12, <1>13, <1>14 DEF TakeAction

LEMMA OthersTypes ==
    ASSUME IInv, NEW s \in Sessions, Connect(s) \/ Delete(s) \/ Peers(s)
    PROVE  TypeOK'
  <1> TypeOK
    BY DEF IInv
  <1>1. /\ cin[s] \in Seq(Request) /\ sout[s] \in Seq(Request)
        /\ cout[s] \in Seq(Segment) /\ sin[s] \in Seq(Segment) /\ got[s] \in Seq(Segment)
        /\ pend[s] \in Seq(Segment) /\ seen[s] \in Seq(Nat) /\ cn[s] \in Nat
    BY DEF TypeOK
  <1>2. {"open", "eof", "reset", "unconnected"} \subseteq Statuses
    BY DEF Statuses
  <1>3. CASE Connect(s) \/ Delete(s)
    <2>1. /\ life' = [life EXCEPT ![s] = "live"] \/ life' = [life EXCEPT ![s] = "deleted"]
          /\ sstat' = sstat \/ sstat' = [sstat EXCEPT ![s] = "unconnected"]
      BY <1>3 DEF Connect, Delete, serverVars
    <2>3. life' \in [Sessions -> {"new", "live", "deleted"}]
      BY <2>1 DEF TypeOK
    <2>4. sstat' \in [Sessions -> Statuses]
      BY <1>2, <2>1 DEF TypeOK
    <2>2. UNCHANGED <<terminated, st, initiated, context, down, clientVars, cout, sin, pend,
                      closing, reply, seen, sout, refused>>
      BY <1>3 DEF Connect, Delete, serverVars
    <2> QED
      BY <2>2, <2>3, <2>4 DEF TypeOK, context, clientVars
  <1>4. CASE ClientSend(s)
    <2>1. PICK kind \in {"ssl", "startup", "norole", "password", "query", "terminate"},
               next \in {"ssl", "startup", "password", "busy", "closed"} : Send(s, kind, next)
      BY <1>4 DEF ClientSend
    <2> DEFINE m == [kind |-> kind, n |-> cn[s] + 1]
    <2>2. m \in Request
      BY <1>1 DEF Request
    <2>3. /\ cin' = [cin EXCEPT ![s] = Append(cin[s], m)] /\ cn' = [cn EXCEPT ![s] = cn[s] + 1]
          /\ cl' = [cl EXCEPT ![s] = next] /\ got' = [got EXCEPT ![s] = <<>>]
      BY <2>1 DEF Send
    <2> HIDE DEF m
    <2>4. Append(cin[s], m) \in Seq(Request) /\ <<>> \in Seq(Segment)
      BY <1>1, <2>2
    <2>5. cstat' \in [Sessions -> Statuses]
      BY <1>2, <1>4 DEF ClientSend, TypeOK
    <2>6. cin' \in [Sessions -> Seq(Request)] /\ got' \in [Sessions -> Seq(Segment)]
      BY <2>3, <2>4 DEF TypeOK
    <2>7. cn' \in [Sessions -> Nat]
      BY <1>1, <2>3 DEF TypeOK
    <2>8. cl' \in [Sessions -> {"new", "declined", "asked", "idle", "closed"} \cup Awaiting]
      BY <2>3 DEF TypeOK, Awaiting
    <2>9. UNCHANGED <<life, terminated, st, initiated, context, down, cout, serverVars, sout,
                      refused>>
      BY <1>4 DEF ClientSend
    <2> QED
      BY <2>5, <2>6, <2>7, <2>8, <2>9 DEF TypeOK, context, serverVars
  <1>5. CASE ClientRead(s)
    <2>1. Head(cout[s]) \in Segment /\ Tail(cout[s]) \in Seq(Segment)
      BY <1>1, <1>5, HeadType DEF ClientRead
    <2>2. Append(got[s], Head(cout[s])) \in Seq(Segment)
      BY <1>1, <2>1
    <2>3. \A state, kind : ClientAfter(state, kind) \in {"idle", "declined", "asked", "closed", state}
      BY DEF ClientAfter
    <2>4. /\ got' = [got EXCEPT ![s] = Append(got[s], Head(cout[s]))]
          /\ cl' = [cl EXCEPT ![s] = ClientAfter(cl[s], Head(cout[s]).kind)]
          /\ cout' = [cout EXCEPT ![s] = Tail(cout[s])]
          /\ cstat' = cstat \/ cstat' = [cstat EXCEPT ![s] = "eof"]
      BY <1>5 DEF ClientRead
    <2>5. UNCHANGED <<life, terminated, st, initiated, context, down, cin, cn, serverVars,
                      sout, refused>>
      BY <1>5 DEF ClientRead
    <2>6. cl' \in [Sessions -> {"new", "declined", "asked", "idle", "closed"} \cup Awaiting]
      BY <2>3, <2>4 DEF TypeOK
    <2>7. got' \in [Sessions -> Seq(Segment)] /\ cout' \in [Sessions -> Seq(Segment)]
      BY <2>1, <2>2, <2>4 DEF TypeOK
    <2>8. cstat' \in [Sessions -> Statuses]
      BY <1>2, <2>4 DEF TypeOK
    <2> QED
      BY <2>5, <2>6, <2>7, <2>8 DEF TypeOK, context, serverVars
  <1>6. CASE ClientLeaves(s)
    <2>1. PICK x \in {"eof", "reset"} : cstat' = [cstat EXCEPT ![s] = x]
      BY <1>6 DEF ClientLeaves
    <2> QED
      BY <1>2, <1>6, <2>1 DEF ClientLeaves, context, serverVars, TypeOK
  <1>7. CASE ClientSeesEnd(s)
    BY <1>7 DEF ClientSeesEnd, context, serverVars, TypeOK
  <1>8. CASE ServerRead(s)
    <2> DEFINE r == Head(sout[s])
    <2>1. r \in Request /\ Tail(sout[s]) \in Seq(Request)
      BY <1>1, <1>8, HeadType DEF ServerRead
    <2>2. PICK a \in Answers(r.kind) :
             /\ reply' = [reply EXCEPT ![s] = [i \in DOMAIN a |-> [kind |-> a[i], n |-> r.n]]]
             /\ pend' = [pend EXCEPT ![s] = reply'[s]]
             /\ closing' = [closing EXCEPT ![s] = a \in {<<>>, <<"E">>}]
      BY <1>8 DEF ServerRead
    <2>3. /\ seen' = [seen EXCEPT ![s] = Append(seen[s], r.n)]
          /\ sout' = [sout EXCEPT ![s] = Tail(sout[s])]
      BY <1>8 DEF ServerRead
    <2>4. UNCHANGED <<life, terminated, st, initiated, context, down, clientVars, cout, sin,
                      sstat, refused>>
      BY <1>8 DEF ServerRead
    <2>5. a \in Seq(ServerKinds)
      BY AnswersType
    <2> HIDE DEF r
    <2>6. r.n \in Nat
      BY <2>1 DEF Request
    <2>7. \A i \in DOMAIN a : [kind |-> a[i], n |-> r.n] \in Segment
      BY <2>5, <2>6 DEF Segment, ServerKinds
    <2>8. [i \in DOMAIN a |-> [kind |-> a[i], n |-> r.n]] \in Seq(Segment)
      <3>1. DOMAIN a = 1..Len(a) /\ Len(a) \in Nat
        BY <2>5
      <3>2. \A n \in Nat : \A f \in [1..n -> Segment] : f \in Seq(Segment)
        OBVIOUS
      <3> QED
        BY <2>7, <3>1, <3>2
    <2>9. Append(seen[s], r.n) \in Seq(Nat)
      BY <1>1, <2>6
    <2>10. reply' \in [Sessions -> Seq(Segment)] /\ pend' \in [Sessions -> Seq(Segment)]
      BY <2>2, <2>8 DEF TypeOK
    <2>11. /\ closing' \in [Sessions -> BOOLEAN]
           /\ seen' \in [Sessions -> Seq(Nat)] /\ sout' \in [Sessions -> Seq(Request)]
      <3> DEFINE c == a \in {<<>>, <<"E">>}
      <3>1. c \in BOOLEAN /\ closing' = [closing EXCEPT ![s] = c]
        BY <2>2
      <3> HIDE DEF c
      <3> QED
        BY <2>1, <2>3, <2>9, <3>1 DEF TypeOK
    <2> QED
      BY <2>4, <2>10, <2>11 DEF TypeOK, context, clientVars
  <1>9. CASE ServerSend(s)
    <2>1. Head(pend[s]) \in Segment /\ Tail(pend[s]) \in Seq(Segment)
      BY <1>1, <1>9, HeadType DEF ServerSend
    <2>2. Append(sin[s], Head(pend[s])) \in Seq(Segment)
      BY <1>1, <2>1
    <2> QED
      BY <1>9, <2>1, <2>2 DEF ServerSend, context, clientVars, TypeOK
  <1>10. CASE ServerCloses(s) \/ ServerBreaks(s)
    <2>1. PICK x \in {"eof", "reset"} : sstat' = [sstat EXCEPT ![s] = x]
      BY <1>10 DEF ServerCloses, ServerBreaks
    <2>2. (pend' = pend \/ pend' = [pend EXCEPT ![s] = <<>>]) /\ <<>> \in Seq(Segment)
      BY <1>10 DEF ServerCloses, ServerBreaks
    <2>3. /\ pend' \in [Sessions -> Seq(Segment)]
          /\ sstat' \in [Sessions -> Statuses]
      <3>1. pend' \in [Sessions -> Seq(Segment)]
        BY <2>2 DEF TypeOK
      <3>2. sstat' \in [Sessions -> Statuses]
        BY <1>2, <2>1 DEF TypeOK
      <3> QED
        BY <3>1, <3>2
    <2>4. UNCHANGED <<life, terminated, st, initiated, context, down, clientVars, cout, sin,
                      closing, reply, seen, sout, refused>>
      BY <1>10 DEF ServerCloses, ServerBreaks
    <2> QED
      BY <2>3, <2>4 DEF TypeOK, context, clientVars
  <1> QED
    BY <1>3, <1>4, <1>5, <1>6, <1>7, <1>8, <1>9, <1>10 DEF Peers, PeersRespond

(* The numbers of the requests in a sequence *)

LEMMA NumbersType ==
    ASSUME NEW q \in Seq(Request)
    PROVE  Numbers(q) \subseteq Nat
  <1>1. \A i \in DOMAIN q : q[i] \in Request
    OBVIOUS
  <1>2. \A m \in Request : m.n \in Nat
    BY DEF Request
  <1> QED
    BY <1>1, <1>2 DEF Numbers

LEMMA NumbersEmpty == Numbers(<<>>) = {} /\ InOrder(<<>>)
  BY DEF Numbers, InOrder

LEMMA NumbersConcat ==
    ASSUME NEW p \in Seq(Request), NEW q \in Seq(Request)
    PROVE  /\ Numbers(p \o q) = Numbers(p) \cup Numbers(q)
           /\ InOrder(p) /\ InOrder(q) /\ Below(Numbers(p), Numbers(q)) => InOrder(p \o q)
  <1> DEFINE r == p \o q
  <1>1. /\ Len(p) \in Nat /\ Len(q) \in Nat
        /\ DOMAIN p = 1..Len(p) /\ DOMAIN q = 1..Len(q) /\ DOMAIN r = 1..(Len(p) + Len(q))
    OBVIOUS
  <1>2. /\ \A i \in DOMAIN p : i \in DOMAIN r /\ r[i] = p[i]
        /\ \A i \in DOMAIN q : Len(p) + i \in DOMAIN r /\ r[Len(p) + i] = q[i]
        /\ \A i \in DOMAIN r : \/ i \in DOMAIN p /\ r[i] = p[i]
                               \/ i - Len(p) \in DOMAIN q /\ r[i] = q[i - Len(p)]
    BY <1>1
  <1> HIDE DEF r
  <1>3. Numbers(r) = Numbers(p) \cup Numbers(q)
    <2>1. Numbers(r) \subseteq Numbers(p) \cup Numbers(q)
      BY <1>2 DEF Numbers
    <2>2. Numbers(p) \cup Numbers(q) \subseteq Numbers(r)
      BY <1>2 DEF Numbers
    <2> QED
      BY <2>1, <2>2
  <1>4. ASSUME InOrder(p), InOrder(q), Below(Numbers(p), Numbers(q)), NEW i \in DOMAIN r,
               NEW j \in DOMAIN r, i < j
        PROVE  r[i].n < r[j].n
    <2>1. CASE i \in DOMAIN p /\ j \in DOMAIN p
      BY <1>2, <1>4, <2>1 DEF InOrder
    <2>2. CASE i \notin DOMAIN p /\ j \notin DOMAIN p
      <3>1. /\ i - Len(p) \in DOMAIN q /\ j - Len(p) \in DOMAIN q
            /\ r[i] = q[i - Len(p)] /\ r[j] = q[j - Len(p)]
        BY <1>2, <2>2
      <3>2. i - Len(p) < j - Len(p)
        BY <1>1, <1>4
      <3> QED
        BY <1>4, <3>1, <3>2 DEF InOrder
    <2>3. CASE i \in DOMAIN p /\ j \notin DOMAIN p
      <3>1. r[i].n \in Numbers(p) /\ r[j].n \in Numbers(q)
        BY <1>2, <2>3 DEF Numbers
      <3> QED
        BY <1>4, <3>1 DEF Below
    <2>4. i \notin DOMAIN p => j \notin DOMAIN p
      BY <1>1, <1>4
    <2> QED
      BY <2>1, <2>2, <2>3, <2>4
  <1> QED
    BY <1>3, <1>4 DEF InOrder, r

LEMMA NumbersAppend ==
    ASSUME NEW q \in Seq(Request), NEW m \in Request
    PROVE  /\ Numbers(Append(q, m)) = Numbers(q) \cup {m.n}
           /\ InOrder(q) /\ Below(Numbers(q), {m.n}) => InOrder(Append(q, m))
  <1>1. /\ Append(q, m) = q \o <<m>> /\ <<m>> \in Seq(Request)
        /\ DOMAIN <<m>> = {1} /\ <<m>>[1] = m
    OBVIOUS
  <1>2. Numbers(<<m>>) = {m.n} /\ InOrder(<<m>>)
    BY <1>1 DEF Numbers, InOrder
  <1> QED
    BY <1>1, <1>2, NumbersConcat

LEMMA NumbersTail ==
    ASSUME NEW q \in Seq(Request), q # <<>>
    PROVE  /\ Numbers(q) = {Head(q).n} \cup Numbers(Tail(q))
           /\ InOrder(q) => InOrder(Tail(q)) /\ Below({Head(q).n}, Numbers(Tail(q)))
  <1> DEFINE r == Tail(q)
  <1>1. /\ Len(q) \in Nat /\ Len(q) > 0 /\ DOMAIN q = 1..Len(q) /\ DOMAIN r = 1..(Len(q) - 1)
        /\ Head(q) = q[1]
    OBVIOUS
  <1>2. /\ \A i \in DOMAIN r : i + 1 \in DOMAIN q /\ r[i] = q[i + 1]
        /\ \A i \in DOMAIN q : i = 1 \/ (i - 1 \in DOMAIN r /\ q[i] = r[i - 1])
    BY <1>1
  <1> HIDE DEF r
  <1>3. Numbers(q) = {Head(q).n} \cup Numbers(r)
    BY <1>1, <1>2 DEF Numbers
  <1>4. ASSUME InOrder(q)
        PROVE  InOrder(r) /\ Below({Head(q).n}, Numbers(r))
    <2>1. \A i \in DOMAIN r : q[1].n < r[i].n
      BY <1>1, <1>2, <1>4 DEF InOrder
    <2>2. ASSUME NEW i \in DOMAIN r, NEW j \in DOMAIN r, i < j
          PROVE  r[i].n < r[j].n
      <3>1. i + 1 \in DOMAIN q /\ j + 1 \in DOMAIN q /\ i + 1 < j + 1
        BY <1>1, <1>2, <2>2
      <3> QED
        BY <1>2, <1>4, <3>1 DEF InOrder
    <2> QED
      BY <1>1, <2>1, <2>2 DEF InOrder, Below, Numbers
  <1> QED
    BY <1>3, <1>4 DEF r

LEMMA SeenAppend ==
    ASSUME NEW q \in Seq(Nat), NEW n \in Nat,
           \A i, j \in DOMAIN q : i < j => q[i] < q[j],
           \A i \in DOMAIN q : q[i] < n
    PROVE  LET r == Append(q, n) IN
           /\ \A i, j \in DOMAIN r : i < j => r[i] < r[j]
           /\ {r[i] : i \in DOMAIN r} = {q[i] : i \in DOMAIN q} \cup {n}
  <1> DEFINE r == Append(q, n)
  <1>1. Len(q) \in Nat /\ DOMAIN q = 1..Len(q) /\ DOMAIN r = 1..(Len(q) + 1)
    OBVIOUS
  <1>2. r[Len(q) + 1] = n /\ \A i \in DOMAIN q : r[i] = q[i]
    BY <1>1
  <1> HIDE DEF r
  <1>3. \A i, j \in DOMAIN r : i < j => r[i] < r[j]
    BY <1>1, <1>2
  <1>4. {r[i] : i \in DOMAIN r} = {q[i] : i \in DOMAIN q} \cup {n}
    BY <1>1, <1>2
  <1> QED
    BY <1>3, <1>4 DEF r

(* A step of one session leaves the others alone *)

LEMMA OthersUntouched ==
    ASSUME TypeOK, NEW s \in Sessions, NEW t \in Sessions, t # s,
           TakeAction(s) \/ Connect(s) \/ Delete(s) \/ Peers(s)
    PROVE  /\ UNCHANGED <<st[t], req[t], resp[t], waiting[t], ev[t], terminated[t]>>
           /\ UNCHANGED <<cin[t], cstat[t], sstat[t], sout[t], cn[t], seen[t], refused[t]>>
  <1> USE DEF context, clientVars, serverVars, Goto, WaitFor, Proceed
  <1>1. CASE \/ PrepareToReceiveRequest(s) \/ PrepareToForwardRequest(s)
             \/ PrepareToReceiveResponse(s) \/ PrepareToForwardResponse(s)
    BY <1>1 DEF PrepareToReceiveRequest, PrepareToForwardRequest,
       PrepareToReceiveResponse, PrepareToForwardResponse, TypeOK
  <1>2. CASE ReceiveRequest(s)
    <2>1. /\ \E x : req' = [req EXCEPT ![s] = x]
          /\ \E x : cin' = [cin EXCEPT ![s] = x]
          /\ \E x : st' = [st EXCEPT ![s] = x]
          /\ \E x : terminated' = [terminated EXCEPT ![s] = x]
          /\ \E x : waiting' = [waiting EXCEPT ![s] = x]
          /\ UNCHANGED <<resp, ev, cstat, sstat, sout, cn, seen, refused>>
      BY <1>2 DEF ReceiveRequest
    <2> QED
      BY <2>1 DEF TypeOK
  <1>3. CASE Initiate(s)
    BY <1>3 DEF Initiate, TypeOK
  <1>4. CASE ApplyPreRequestPlugins(s)
    BY <1>4 DEF ApplyPreRequestPlugins, TypeOK
  <1>5. CASE ForwardRequest(s)
    <2>1. /\ sout' = sout \/ sout' = [sout EXCEPT ![s] = sout[s] \o req[s]]
          /\ \E x : sstat' = [sstat EXCEPT ![s] = x]
          /\ \E x : st' = [st EXCEPT ![s] = x]
          /\ \E x : terminated' = [terminated EXCEPT ![s] = x]
          /\ \E x : waiting' = [waiting EXCEPT ![s] = x]
          /\ UNCHANGED <<req, resp, ev, cin, cstat, cn, seen, refused>>
      BY <1>5 DEF ForwardRequest
    <2> QED
      BY <2>1 DEF TypeOK
  <1>6. CASE ReceiveResponse(s)
    <2>1. /\ \E x : resp' = [resp EXCEPT ![s] = x]
          /\ \E x : st' = [st EXCEPT ![s] = x]
          /\ \E x : terminated' = [terminated EXCEPT ![s] = x]
          /\ waiting' = waiting \/ \E x : waiting' = [waiting EXCEPT ![s] = x]
          /\ UNCHANGED <<req, ev, cin, cstat, sstat, sout, cn, seen, refused>>
      BY <1>6 DEF ReceiveResponse
    <2> QED
      BY <2>1 DEF TypeOK
  <1>7. CASE ApplyPostResponsePlugins(s)
    BY <1>7 DEF ApplyPostResponsePlugins, TypeOK
  <1>8. CASE ForwardResponse(s)
    <2>1. /\ \E x : cstat' = [cstat EXCEPT ![s] = x]
          /\ \E x : st' = [st EXCEPT ![s] = x]
          /\ \E x : terminated' = [terminated EXCEPT ![s] = x]
          /\ \E x : waiting' = [waiting EXCEPT ![s] = x]
          /\ UNCHANGED <<req, resp, ev, cin, sstat, sout, cn, seen, refused>>
      BY <1>8 DEF ForwardResponse
    <2> QED
      BY <2>1 DEF TypeOK
  <1>9. CASE ResetContext(s)
    BY <1>9 DEF ResetContext, Reset, TypeOK
  <1>10. CASE Connect(s) \/ Delete(s)
    BY <1>10 DEF Connect, Delete, TypeOK
  <1>11. CASE ClientSend(s)
    BY <1>11 DEF ClientSend, Send, TypeOK
  <1>12. CASE ClientRead(s) \/ ClientLeaves(s) \/ ClientSeesEnd(s)
    <2>1. /\ \/ cstat' = cstat
             \/ \E x \in {"eof", "reset"} : cstat' = [cstat EXCEPT ![s] = x]
          /\ UNCHANGED <<st, req, resp, waiting, ev, terminated, cin, sstat, sout, cn, seen,
                         refused>>
      BY <1>12 DEF ClientRead, ClientLeaves, ClientSeesEnd
    <2> QED
      BY <2>1 DEF TypeOK
  <1>13. CASE ServerRead(s)
    BY <1>13 DEF ServerRead, TypeOK
  <1>14. CASE ServerSend(s) \/ ServerCloses(s) \/ ServerBreaks(s)
    BY <1>14 DEF ServerSend, ServerCloses, ServerBreaks, TypeOK
  <1> QED
    BY <1>1, <1>2, <1>3, <1>4, <1>5, <1>6, <1>7, <1>8, <1>9, <1>10, <1>11, <1>12, <1>13, <1>14
    DEF TakeAction, Peers, PeersRespond

LEMMA OthersKept ==
    ASSUME IInv, NEW s \in Sessions, NEW t \in Sessions, t # s,
           TakeAction(s) \/ Connect(s) \/ Delete(s) \/ Peers(s)
    PROVE  BuffersOK(t)' /\ WaitOK(t)' /\ OrderOK(t)'
  <1>1. BuffersOK(t) /\ WaitOK(t) /\ OrderOK(t) /\ TypeOK
    BY DEF IInv
  <1>2. /\ UNCHANGED <<st[t], req[t], resp[t], waiting[t], ev[t], terminated[t]>>
        /\ UNCHANGED <<cin[t], cstat[t], sstat[t], sout[t], cn[t], seen[t], refused[t]>>
    BY <1>1, OthersUntouched
  <1>3. BuffersOK(t)'
    BY <1>1, <1>2 DEF BuffersOK
  <1>4. WaitOK(t)'
    BY <1>1, <1>2 DEF WaitOK
  <1>5. OrderOK(t)'
    BY <1>1, <1>2 DEF OrderOK, Past, Fresh, SeenBy
  <1> QED
    BY <1>3, <1>4, <1>5

(* The session's own buffers and what it waits for *)

LEMMA Proceeded ==
    ASSUME TypeOK, NEW s \in Sessions, NEW next \in States, NEW ok \in BOOLEAN,
           Proceed(s, ok, next)
    PROVE  /\ ok => st'[s] = next /\ terminated'[s] = (next = "NULL") /\ ~waiting'[s]
           /\ ~ok => st'[s] = "NULL" /\ terminated'[s] /\ waiting'[s] = waiting[s]
  BY DEF Proceed, Goto, TypeOK

LEMMA BuffersKept ==
    ASSUME IInv, NEW s \in Sessions,
           TakeAction(s) \/ Connect(s) \/ Delete(s) \/ Peers(s)
    PROVE  BuffersOK(s)'
  <1> USE DEF BuffersOK, HasRequest, HasAnswer
  <1>0. BuffersOK(s) /\ TypeOK
    BY DEF IInv
  <1>1. CASE \/ PrepareToReceiveRequest(s) \/ PrepareToForwardRequest(s)
             \/ PrepareToReceiveResponse(s) \/ PrepareToForwardResponse(s)
    BY <1>0, <1>1 DEF PrepareToReceiveRequest, PrepareToForwardRequest,
       PrepareToReceiveResponse, PrepareToForwardResponse, WaitFor, Goto, TypeOK
  <1>2. CASE ReceiveRequest(s)
    BY <1>0, <1>2 DEF ReceiveRequest, Proceed, Goto, Received, TypeOK
  <1>3. CASE Initiate(s)
    BY <1>0, <1>3 DEF Initiate, Goto, context, TypeOK
  <1>4. CASE ApplyPreRequestPlugins(s)
    <2>1. SetError(s) # <<>>
      BY DEF SetError
    <2>2. /\ st[s] = "APPLY_PRE_REQUEST_PLUGINS" /\ req' = req
          /\ \/ /\ st' = [st EXCEPT ![s] = "PREPARE_TO_FORWARD_RESPONSE"]
                /\ resp' = [resp EXCEPT ![s] = SetError(s)]
             \/ /\ st' = [st EXCEPT ![s] = "PREPARE_TO_FORWARD_REQUEST"]
                /\ resp' = resp
      BY <1>4 DEF ApplyPreRequestPlugins, AfterRefusal, Goto
    <2> QED
      BY <1>0, <2>1, <2>2 DEF TypeOK
  <1>5. CASE ForwardRequest(s)
    BY <1>0, <1>5 DEF ForwardRequest, Proceed, Goto, TypeOK
  <1>6. CASE ReceiveResponse(s)
    BY <1>0, <1>6 DEF ReceiveResponse, Proceed, Goto, Received, TypeOK
  <1>7. CASE ApplyPostResponsePlugins(s)
    <2>1. SetError(s) # <<>>
      BY DEF SetError
    <2>2. /\ st[s] = "APPLY_POST_RESPONSE_PLUGINS" /\ req' = req
          /\ \/ /\ st' = [st EXCEPT ![s] = "PREPARE_TO_FORWARD_RESPONSE"]
                /\ resp' = [resp EXCEPT ![s] = SetError(s)]
             \/ /\ st' = [st EXCEPT ![s] = "PREPARE_TO_FORWARD_RESPONSE"]
                /\ resp' = resp
      BY <1>7 DEF ApplyPostResponsePlugins, Goto
    <2> QED
      BY <1>0, <2>1, <2>2 DEF TypeOK
  <1>8. CASE ForwardResponse(s)
    BY <1>0, <1>8 DEF ForwardResponse, Proceed, Goto, TypeOK
  <1>9. CASE ResetContext(s)
    BY <1>0, <1>9 DEF ResetContext, Reset, Goto, TypeOK
  <1>10. CASE Connect(s) \/ Delete(s) \/ Peers(s)
    <2>1. UNCHANGED <<st, req, resp>>
      BY <1>10 DEF Connect, Delete, Peers, PeersRespond, ClientSend, ClientRead, ClientLeaves,
         ClientSeesEnd, ServerRead, ServerSend, ServerCloses, ServerBreaks, context
    <2> QED
      BY <1>0, <2>1
  <1> QED
    BY <1>1, <1>2, <1>3, <1>4, <1>5, <1>6, <1>7, <1>8, <1>9, <1>10 DEF TakeAction

\* WaitOK with its four states spelled out.
Waits(s) ==
    /\ st[s] = "RECEIVE_REQUEST" => waiting[s] /\ ev[s] = [side |-> "client", events |-> "in"]
    /\ st[s] = "FORWARD_REQUEST" => waiting[s] /\ ev[s] = [side |-> "server", events |-> "out"]
    /\ st[s] = "RECEIVE_RESPONSE" => waiting[s] /\ ev[s] = [side |-> "server", events |-> "in"]
    /\ st[s] = "FORWARD_RESPONSE" => waiting[s] /\ ev[s] = [side |-> "client", events |-> "out"]
EndsFor(s) ==
    terminated[s] => \/ ev[s].side = "client" /\ cstat[s] # "open"
                     \/ ev[s].side = "server" /\ sstat[s] # "open"

LEMMA WaitSplit == \A s : WaitOK(s) <=> Waits(s) /\ EndsFor(s)
  BY DEF WaitOK, Waits, EndsFor

LEMMA WaitSplitNext == \A s : WaitOK(s)' <=> Waits(s)' /\ EndsFor(s)'
  BY DEF WaitOK, Waits, EndsFor

LEMMA SentSome ==
    ASSUME NEW S, NEW p \in Seq(S), NEW q \in Seq(S), p # <<>>, Len(q) < SocketRoom
    PROVE  Sent(p, q) # <<>>
  <1> DEFINE room == SocketRoom - Len(q)
  <1>1. room \in Nat /\ room > 0
    BY BoundsAssumption
  <1>2. Sent(p, q) = IF Len(p) <= room THEN p ELSE SubSeq(p, 1, room)
    BY DEF Sent
  <1> HIDE DEF room
  <1> QED
    BY <1>1, <1>2

\* A call on a socket fails only when the peer is gone: Step says that what the
\* session waits for has come.
LEMMA ActionWaits ==
    ASSUME IInv, NEW s \in Sessions, ~terminated[s], waiting[s] => Ready(s), TakeAction(s)
    PROVE  WaitOK(s)'
  <1>0. Waits(s) /\ EndsFor(s) /\ BuffersOK(s) /\ TypeOK
    BY WaitSplit DEF IInv
  <1> USE DEF Waits, EndsFor
  <1>1. CASE \/ PrepareToReceiveRequest(s) \/ PrepareToForwardRequest(s)
             \/ PrepareToReceiveResponse(s) \/ PrepareToForwardResponse(s)
    BY <1>0, <1>1, WaitSplitNext DEF PrepareToReceiveRequest, PrepareToForwardRequest,
       PrepareToReceiveResponse, PrepareToForwardResponse, WaitFor, Goto, TypeOK
  <1>2. CASE ReceiveRequest(s)
    BY <1>0, <1>2, WaitSplitNext DEF ReceiveRequest, Proceed, Goto, Received, Ready, BuffersOK, TypeOK
  <1>3. CASE Initiate(s)
    BY <1>0, <1>3, WaitSplitNext DEF Initiate, Goto, context, TypeOK
  <1>4. CASE ApplyPreRequestPlugins(s)
    BY <1>0, <1>4, WaitSplitNext DEF ApplyPreRequestPlugins, AfterRefusal, Goto, TypeOK
  <1>5. CASE ForwardRequest(s)
    BY <1>0, <1>5, WaitSplitNext DEF ForwardRequest, Proceed, Goto, AfterSend, TypeOK
  <1>6. CASE ReceiveResponse(s)
    <2> DEFINE ok == Received(resp[s], sin[s], sstat[s])
    <2>1. sstat[s] = "open" => ok
      <3>1. sstat[s] = "open" => sin[s] # <<>>
        BY <1>0, <1>6 DEF ReceiveResponse, Ready
      <3>2. sin[s] # <<>> => resp[s] \o sin[s] # <<>>
        <4>1. resp[s] \in Seq(Segment) /\ sin[s] \in Seq(Segment)
          BY <1>0 DEF TypeOK
        <4> QED
          BY <4>1
      <3> QED
        BY <3>1, <3>2 DEF Received
    <2>2. /\ st[s] = "RECEIVE_RESPONSE" /\ UNCHANGED <<ev, sstat, cstat>>
          /\ \/ Goto(s, "RECEIVE_RESPONSE") /\ UNCHANGED waiting
             \/ Proceed(s, ok, "APPLY_POST_RESPONSE_PLUGINS")
      BY <1>6 DEF ReceiveResponse, clientVars
    <2>3. CASE Goto(s, "RECEIVE_RESPONSE") /\ UNCHANGED waiting
      BY <1>0, <2>2, <2>3, WaitSplitNext DEF Goto, TypeOK
    <2>4. CASE Proceed(s, ok, "APPLY_POST_RESPONSE_PLUGINS")
      <3>1. /\ st'[s] = IF ok THEN "APPLY_POST_RESPONSE_PLUGINS" ELSE "NULL"
            /\ terminated'[s] => ~ok
        BY <1>0, <2>4 DEF Proceed, Goto, TypeOK
      <3> HIDE DEF ok
      <3> QED
        BY <1>0, <2>1, <2>2, <3>1, WaitSplitNext
    <2> QED
      BY <2>2, <2>3, <2>4
  <1>7. CASE ApplyPostResponsePlugins(s)
    BY <1>0, <1>7, WaitSplitNext DEF ApplyPostResponsePlugins, Goto, TypeOK
  <1>8. CASE ForwardResponse(s)
    <2> DEFINE ok == cstat[s] = "eof" \/ (cstat[s] = "open" /\ Sent(resp[s], cout[s]) # <<>>)
    <2>1. /\ st[s] = "FORWARD_RESPONSE" /\ UNCHANGED <<ev, sstat>>
          /\ Proceed(s, ok, "RESET_CONTEXT")
          /\ \E x \in AfterSend(cstat[s]) : cstat' = [cstat EXCEPT ![s] = x]
      BY <1>8 DEF ForwardResponse, serverVars
    <2>2. cstat[s] = "open" => ok
      <3>1. cstat[s] = "open" => Len(cout[s]) < SocketRoom
        BY <1>0, <2>1 DEF Ready
      <3>2. resp[s] \in Seq(Segment) /\ cout[s] \in Seq(Segment) /\ resp[s] # <<>>
        BY <1>0, <2>1 DEF BuffersOK, HasAnswer, TypeOK
      <3> QED
        BY <3>1, <3>2, SentSome
    <2>3. /\ st'[s] = IF ok THEN "RESET_CONTEXT" ELSE "NULL"
          /\ terminated'[s] => ~ok
      BY <1>0, <2>1 DEF Proceed, Goto, TypeOK
    <2>4. cstat[s] # "open" => cstat'[s] # "open"
      BY <1>0, <2>1 DEF AfterSend, TypeOK
    <2> HIDE DEF ok
    <2> QED
      BY <1>0, <2>1, <2>2, <2>3, <2>4, WaitSplitNext
  <1>9. CASE ResetContext(s)
    BY <1>0, <1>9, WaitSplitNext DEF ResetContext, Reset, Goto, TypeOK
  <1> QED
    BY <1>1, <1>2, <1>3, <1>4, <1>5, <1>6, <1>7, <1>8, <1>9 DEF TakeAction

LEMMA OthersWait ==
    ASSUME IInv, NEW s \in Sessions, Connect(s) \/ Delete(s) \/ Peers(s)
    PROVE  WaitOK(s)'
  <1>0. Waits(s) /\ EndsFor(s) /\ TypeOK
    BY WaitSplit DEF IInv
  <1>1. UNCHANGED <<st, waiting, ev, terminated>>
    BY DEF Connect, Delete, Peers, PeersRespond, ClientSend, ClientRead, ClientLeaves,
       ClientSeesEnd, ServerRead, ServerSend, ServerCloses, ServerBreaks, context
  <1>2. cstat[s] # "open" => cstat'[s] # "open"
    <2>1. \/ cstat' = cstat
          \/ \E x \in {"eof", "reset"} : cstat' = [cstat EXCEPT ![s] = x]
      BY DEF Connect, Delete, Peers, PeersRespond, ClientSend, ClientRead, ClientLeaves,
         ClientSeesEnd, ServerRead, ServerSend, ServerCloses, ServerBreaks, clientVars
    <2> QED
      BY <1>0, <2>1 DEF TypeOK
  <1>3. sstat[s] # "open" => sstat'[s] # "open"
    <2>1. \/ sstat' = sstat
          \/ \E x \in {"eof", "reset", "unconnected"} : sstat' = [sstat EXCEPT ![s] = x]
      BY DEF Connect, Delete, Peers, PeersRespond, ClientSend, ClientRead, ClientLeaves,
         ClientSeesEnd, ServerRead, ServerSend, ServerCloses, ServerBreaks, serverVars
    <2> QED
      BY <1>0, <2>1 DEF TypeOK
  <1> QED
    BY <1>0, <1>1, <1>2, <1>3, WaitSplitNext DEF Waits, EndsFor

(* The order of the requests on their way *)

LEMMA OrderFrame ==
    ASSUME NEW s \in Sessions, OrderOK(s),
           UNCHANGED <<cin[s], sout[s], seen[s], refused[s], cn[s]>>,
           st'[s] \in HasRequest => st[s] \in HasRequest /\ req'[s] = req[s]
    PROVE  OrderOK(s)'
  <1>1. Fresh(s)' \subseteq Fresh(s) /\ Past(s)' = Past(s) /\ SeenBy(s)' = SeenBy(s)
    BY DEF Fresh, Past, SeenBy
  <1>2. st'[s] \in HasRequest => InOrder(req'[s])
    BY DEF OrderOK
  <1> QED
    BY <1>1, <1>2 DEF OrderOK, Below

LEMMA QuietActions ==
    ASSUME IInv, NEW s \in Sessions,
           \/ PrepareToReceiveRequest(s) \/ Initiate(s) \/ PrepareToForwardRequest(s)
           \/ PrepareToReceiveResponse(s) \/ ReceiveResponse(s) \/ ApplyPostResponsePlugins(s)
           \/ PrepareToForwardResponse(s) \/ ForwardResponse(s) \/ ResetContext(s)
           \/ Connect(s) \/ Delete(s) \/ ClientRead(s) \/ ClientLeaves(s) \/ ClientSeesEnd(s)
           \/ ServerSend(s) \/ ServerCloses(s) \/ ServerBreaks(s)
    PROVE  OrderOK(s)'
  <1>0. OrderOK(s) /\ TypeOK
    BY DEF IInv
  <1>1. UNCHANGED <<cin, sout, seen, refused, cn>>
    BY DEF PrepareToReceiveRequest, Initiate, PrepareToForwardRequest,
       PrepareToReceiveResponse, ReceiveResponse, ApplyPostResponsePlugins,
       PrepareToForwardResponse, ForwardResponse, ResetContext, Connect, Delete, ClientRead,
       ClientLeaves, ClientSeesEnd, ServerSend, ServerCloses, ServerBreaks, clientVars, serverVars
  <1>2. st'[s] \in HasRequest => st[s] \in HasRequest /\ req'[s] = req[s]
    <2>1. CASE \/ PrepareToReceiveRequest(s) \/ Initiate(s) \/ PrepareToForwardRequest(s)
               \/ PrepareToReceiveResponse(s) \/ ApplyPostResponsePlugins(s)
               \/ PrepareToForwardResponse(s) \/ ResetContext(s)
      BY <1>0, <2>1 DEF PrepareToReceiveRequest, Initiate, PrepareToForwardRequest, context,
         PrepareToReceiveResponse, ApplyPostResponsePlugins, PrepareToForwardResponse,
         ResetContext, Goto, HasRequest, TypeOK
    <2>2. CASE ReceiveResponse(s) \/ ForwardResponse(s)
      BY <1>0, <2>2 DEF ReceiveResponse, ForwardResponse, Proceed, Goto, HasRequest, TypeOK
    <2>3. CASE \/ Connect(s) \/ Delete(s) \/ ClientRead(s) \/ ClientLeaves(s)
               \/ ClientSeesEnd(s) \/ ServerSend(s) \/ ServerCloses(s) \/ ServerBreaks(s)
      BY <2>3 DEF Connect, Delete, ClientRead, ClientLeaves, ClientSeesEnd, ServerSend,
         ServerCloses, ServerBreaks, context
    <2> QED
      BY <2>1, <2>2, <2>3
  <1> QED
    BY <1>0, <1>1, <1>2, OrderFrame

LEMMA ReceiveRequestOrder ==
    ASSUME IInv, NEW s \in Sessions, ReceiveRequest(s)
    PROVE  OrderOK(s)'
  <1>0. OrderOK(s) /\ BuffersOK(s) /\ TypeOK
    BY DEF IInv
  <1>1. /\ UNCHANGED <<sout, seen, refused, cn>> /\ st[s] = "RECEIVE_REQUEST"
        /\ cin' = [cin EXCEPT ![s] = <<>>] /\ req' = [req EXCEPT ![s] = req[s] \o cin[s]]
    BY DEF ReceiveRequest, serverVars
  <1>2. cin'[s] = <<>> /\ req'[s] = cin[s]
    <2>1. req[s] = <<>> /\ cin[s] \in Seq(Request)
      BY <1>0, <1>1 DEF BuffersOK, TypeOK
    <2>2. req[s] \o cin[s] = cin[s]
      BY <2>1
    <2> QED
      BY <1>0, <1>1, <2>2 DEF TypeOK
  <1>3. /\ Fresh(s) = {} /\ Fresh(s)' \subseteq Numbers(cin[s])
        /\ Past(s)' = Past(s) /\ SeenBy(s)' = SeenBy(s)
    BY <1>1, <1>2 DEF Fresh, Past, SeenBy, HasRequest
  <1>4. Numbers(cin'[s]) = {} /\ InOrder(cin'[s]) /\ InOrder(req'[s])
    BY <1>0, <1>2, NumbersEmpty DEF OrderOK
  <1> QED
    BY <1>0, <1>1, <1>3, <1>4 DEF OrderOK, Below

LEMMA RefusalOrder ==
    ASSUME IInv, NEW s \in Sessions, ApplyPreRequestPlugins(s)
    PROVE  OrderOK(s)'
  <1>0. OrderOK(s) /\ BuffersOK(s) /\ TypeOK
    BY DEF IInv
  <1>1. /\ UNCHANGED <<cin, sout, seen, cn, req>> /\ st[s] \in HasRequest
        /\ \/ UNCHANGED refused
           \/ /\ refused' = [refused EXCEPT ![s] = refused[s] \cup {Head(req[s]).n}]
              /\ st' = [st EXCEPT ![s] = "PREPARE_TO_FORWARD_RESPONSE"]
    BY DEF ApplyPreRequestPlugins, clientVars, serverVars, HasRequest, Goto, AfterRefusal
  <1>2. CASE UNCHANGED refused
    BY <1>0, <1>1, <1>2, OrderFrame
  <1>3. CASE /\ refused' = [refused EXCEPT ![s] = refused[s] \cup {Head(req[s]).n}]
             /\ st' = [st EXCEPT ![s] = "PREPARE_TO_FORWARD_RESPONSE"]
    <2> DEFINE n == Head(req[s]).n
    <2>1. req[s] \in Seq(Request) /\ req[s] # <<>>
      BY <1>0, <1>1 DEF BuffersOK, TypeOK
    <2>2. n \in Numbers(req[s]) /\ n \in Nat
      BY <2>1, NumbersTail, NumbersType
    <2>3. refused'[s] = refused[s] \cup {n} /\ st'[s] \notin HasRequest
      BY <1>0, <1>3 DEF TypeOK, HasRequest
    <2> HIDE DEF n
    <2>4. Fresh(s) = Numbers(req[s]) /\ Fresh(s)' = {}
      BY <1>1, <2>3 DEF Fresh
    <2>5. Past(s)' = Past(s) \cup {n} /\ SeenBy(s)' = SeenBy(s)
      BY <1>1, <2>3 DEF Past, SeenBy
    <2>6. n \notin SeenBy(s) \cup Numbers(sout[s])
      BY <1>0, <2>2, <2>4 DEF OrderOK, Below, Past
    <2> QED
      BY <1>0, <1>1, <2>2, <2>3, <2>4, <2>5, <2>6 DEF OrderOK, Below
  <1> QED
    BY <1>1, <1>2, <1>3

LEMMA ForwardRequestOrder ==
    ASSUME IInv, NEW s \in Sessions, ForwardRequest(s)
    PROVE  OrderOK(s)'
  <1>0. OrderOK(s) /\ BuffersOK(s) /\ TypeOK
    BY DEF IInv
  <1>1. /\ UNCHANGED <<cin, seen, refused, cn, req>> /\ st[s] \in HasRequest
        /\ sout' = sout \/ sout' = [sout EXCEPT ![s] = sout[s] \o req[s]]
    BY DEF ForwardRequest, clientVars, HasRequest
  <1>2. st'[s] \notin HasRequest
    BY <1>0 DEF ForwardRequest, Proceed, Goto, HasRequest, TypeOK
  <1>3. CASE sout' = sout
    BY <1>0, <1>1, <1>2, <1>3, OrderFrame
  <1>4. CASE sout' = [sout EXCEPT ![s] = sout[s] \o req[s]]
    <2>1. sout[s] \in Seq(Request) /\ req[s] \in Seq(Request) /\ sout'[s] = sout[s] \o req[s]
      BY <1>0, <1>4 DEF TypeOK
    <2>2. Fresh(s) = Numbers(req[s]) /\ Fresh(s)' = {}
      BY <1>1, <1>2 DEF Fresh
    <2>3. /\ Below(Numbers(sout[s]), Numbers(req[s])) /\ InOrder(sout[s]) /\ InOrder(req[s])
          /\ Below(SeenBy(s), Numbers(req[s])) /\ Below(refused[s], Numbers(req[s]))
      BY <1>0, <1>1, <2>2 DEF OrderOK, Below, Past
    <2>4. Numbers(sout'[s]) = Numbers(sout[s]) \cup Numbers(req[s]) /\ InOrder(sout'[s])
      BY <2>1, <2>3, NumbersConcat
    <2>5. refused[s] \cap Numbers(req[s]) = {}
      BY <2>1, <2>3, NumbersType DEF Below
    <2>6. SeenBy(s)' = SeenBy(s) /\ Past(s)' = Past(s) \cup Fresh(s)
      BY <1>1, <2>2, <2>4 DEF SeenBy, Past
    <2> QED
      BY <1>0, <1>1, <1>2, <2>2, <2>3, <2>4, <2>5, <2>6 DEF OrderOK, Below
  <1> QED
    BY <1>1, <1>3, <1>4

LEMMA ClientSendOrder ==
    ASSUME IInv, NEW s \in Sessions, ClientSend(s)
    PROVE  OrderOK(s)'
  <1>0. OrderOK(s) /\ TypeOK
    BY DEF IInv
  <1>1. PICK kind \in {"ssl", "startup", "norole", "password", "query", "terminate"} :
           /\ cn' = [cn EXCEPT ![s] = cn[s] + 1]
           /\ cin' = [cin EXCEPT ![s] = Append(cin[s], [kind |-> kind, n |-> cn[s] + 1])]
    BY DEF ClientSend, Send
  <1>2. UNCHANGED <<st, req, sout, seen, refused>>
    BY DEF ClientSend, context, serverVars
  <1> DEFINE m == [kind |-> kind, n |-> cn[s] + 1]
  <1>3. m \in Request /\ m.n = cn[s] + 1 /\ cn[s] \in Nat /\ cin[s] \in Seq(Request)
    BY <1>0 DEF Request, TypeOK
  <1>4. cn'[s] = cn[s] + 1 /\ cin'[s] = Append(cin[s], m)
    BY <1>0, <1>1 DEF TypeOK
  <1> HIDE DEF m
  <1>5. Below(Past(s) \cup Fresh(s) \cup Numbers(cin[s]), {m.n})
    BY <1>0, <1>3 DEF OrderOK, Below
  <1>6. Numbers(cin'[s]) = Numbers(cin[s]) \cup {m.n} /\ InOrder(cin'[s])
    <2>1. Below(Numbers(cin[s]), {m.n}) /\ InOrder(cin[s])
      BY <1>0, <1>5 DEF Below, OrderOK
    <2> QED
      BY <1>3, <1>4, <2>1, NumbersAppend
  <1>7. Past(s)' = Past(s) /\ Fresh(s)' = Fresh(s) /\ SeenBy(s)' = SeenBy(s)
    BY <1>2 DEF Past, Fresh, SeenBy
  <1>8. Below(Past(s)' \cup Fresh(s)', Numbers(cin'[s]))
    BY <1>0, <1>5, <1>6, <1>7 DEF OrderOK, Below
  <1>9. Past(s)' \cup Fresh(s)' \cup Numbers(cin'[s]) \subseteq 0..cn'[s]
    BY <1>0, <1>3, <1>4, <1>6, <1>7 DEF OrderOK
  <1> QED
    BY <1>0, <1>2, <1>6, <1>7, <1>8, <1>9 DEF OrderOK

LEMMA ServerReadOrder ==
    ASSUME IInv, NEW s \in Sessions, ServerRead(s)
    PROVE  OrderOK(s)'
  <1>0. OrderOK(s) /\ TypeOK
    BY DEF IInv
  <1> DEFINE n == Head(sout[s]).n
  <1>1. /\ seen' = [seen EXCEPT ![s] = Append(seen[s], n)]
        /\ sout' = [sout EXCEPT ![s] = Tail(sout[s])]
        /\ sout[s] # <<>> /\ UNCHANGED <<cin, cn, refused, st, req>>
    BY DEF ServerRead, context, clientVars
  <1>2. seen'[s] = Append(seen[s], n) /\ sout'[s] = Tail(sout[s])
    BY <1>0, <1>1 DEF TypeOK
  <1>3. sout[s] \in Seq(Request) /\ seen[s] \in Seq(Nat)
    BY <1>0 DEF TypeOK
  <1>4. /\ Numbers(sout[s]) = {n} \cup Numbers(sout'[s])
        /\ InOrder(sout'[s]) /\ Below({n}, Numbers(sout'[s]))
    BY <1>0, <1>1, <1>2, <1>3, NumbersTail DEF OrderOK
  <1>5. n \in Nat
    BY <1>3, <1>4, NumbersType
  <1> HIDE DEF n
  <1>6. /\ \A i, j \in DOMAIN seen'[s] : i < j => seen'[s][i] < seen'[s][j]
        /\ SeenBy(s)' = SeenBy(s) \cup {n}
    <2>1. /\ \A i \in DOMAIN seen[s] : seen[s][i] < n
          /\ \A i, j \in DOMAIN seen[s] : i < j => seen[s][i] < seen[s][j]
      BY <1>0, <1>4 DEF OrderOK, Below, SeenBy
    <2>2. LET r == Append(seen[s], n) IN
          /\ \A i, j \in DOMAIN r : i < j => r[i] < r[j]
          /\ {r[i] : i \in DOMAIN r} = {seen[s][i] : i \in DOMAIN seen[s]} \cup {n}
      BY <1>3, <1>5, <2>1, SeenAppend
    <2> QED
      BY <1>2, <2>2 DEF SeenBy
  <1>7. Past(s)' = Past(s) /\ Fresh(s)' = Fresh(s)
    BY <1>1, <1>4, <1>6 DEF Past, Fresh
  <1>8. Below(SeenBy(s)', Numbers(sout'[s]))
    BY <1>0, <1>4, <1>6 DEF OrderOK, Below
  <1> QED
    BY <1>0, <1>1, <1>4, <1>6, <1>7, <1>8 DEF OrderOK

(* Where an exchange is *)

LEMMA TypeFacts ==
    ASSUME TypeOK, NEW s \in Sessions
    PROVE  /\ req[s] \in Seq(Request) /\ cin[s] \in Seq(Request) /\ sout[s] \in Seq(Request)
           /\ resp[s] \in Seq(Segment) /\ cout[s] \in Seq(Segment) /\ sin[s] \in Seq(Segment)
           /\ pend[s] \in Seq(Segment) /\ got[s] \in Seq(Segment) /\ reply[s] \in Seq(Segment)
           /\ cn[s] \in Nat
  BY DEF TypeOK

Exchange(s) == <<req[s], resp[s], cin[s], cout[s], got[s], cl[s], cn[s]>>
AtPeer(s)   == <<sin[s], sout[s], pend[s], reply[s]>>

LEMMA ExchangeFrame ==
    ASSUME NEW s \in Sessions, UNCHANGED Exchange(s), UNCHANGED AtPeer(s)
    PROVE  /\ InHand(s)' = InHand(s) /\ Underway(s)' = Underway(s) /\ Answered(s)' = Answered(s)
           /\ AtServer(s)' = AtServer(s) /\ AnswerReady(s)' = AnswerReady(s)
           /\ Quiet(s)' = Quiet(s)
  <1> USE DEF Exchange, AtPeer
  <1>1. AnswerDue(s)' = AnswerDue(s) /\ Quiet(s)' = Quiet(s) /\ OwnError(s)' = OwnError(s)
        /\ AuthenticationSplit(s)' = AuthenticationSplit(s)
    BY DEF AnswerDue, Quiet, OwnError, AuthenticationSplit
  <1>2. InHand(s)' = InHand(s) /\ Underway(s)' = Underway(s)
    BY <1>1 DEF InHand, Underway
  <1>3. Answered(s)' = Answered(s)
    BY <1>1 DEF Answered
  <1>4. AtServer(s)' = AtServer(s)
    BY <1>1 DEF AtServer
  <1>5. AnswerReady(s)' = AnswerReady(s)
    BY <1>1 DEF AnswerReady
  <1> QED
    BY <1>1, <1>2, <1>3, <1>4, <1>5

\* The states between which an exchange does not move on.
Legs == {{"PREPARE_TO_RECEIVE_REQUEST", "RECEIVE_REQUEST"}, HasRequest,
         {"PREPARE_TO_RECEIVE_RESPONSE", "RECEIVE_RESPONSE"},
         {"APPLY_POST_RESPONSE_PLUGINS", "PREPARE_TO_FORWARD_RESPONSE", "FORWARD_RESPONSE"}}

LEMMA SameLeg ==
    ASSUME NEW s \in Sessions, ExchangeOK(s), UNCHANGED Exchange(s), UNCHANGED AtPeer(s),
           \/ st'[s] = st[s]
           \/ \E leg \in Legs : st[s] \in leg /\ st'[s] \in leg
    PROVE  ExchangeOK(s)'
  <1>1. /\ InHand(s)' = InHand(s) /\ Underway(s)' = Underway(s) /\ Answered(s)' = Answered(s)
        /\ AtServer(s)' = AtServer(s) /\ AnswerReady(s)' = AnswerReady(s)
        /\ Quiet(s)' = Quiet(s)
    BY ExchangeFrame
  <1>2. UNCHANGED <<req[s], resp[s], cout[s], got[s], cl[s], cn[s]>>
    BY DEF Exchange
  <1>3. CASE st'[s] = st[s]
    BY <1>1, <1>2, <1>3 DEF ExchangeOK
  <1>4. CASE \E leg \in Legs : st[s] \in leg /\ st'[s] \in leg
    <2>1. CASE st[s] \in {"PREPARE_TO_RECEIVE_REQUEST", "RECEIVE_REQUEST"}
      BY <1>1, <1>2, <1>4, <2>1 DEF ExchangeOK, Legs, HasRequest, HasAnswer
    <2>2. CASE st[s] \in HasRequest
      BY <1>1, <1>2, <1>4, <2>2 DEF ExchangeOK, Legs, HasRequest, HasAnswer
    <2>3. CASE st[s] \in {"PREPARE_TO_RECEIVE_RESPONSE", "RECEIVE_RESPONSE"}
      BY <1>1, <1>2, <1>4, <2>3 DEF ExchangeOK, Legs, HasRequest, HasAnswer
    <2>4. CASE st[s] \in {"APPLY_POST_RESPONSE_PLUGINS", "PREPARE_TO_FORWARD_RESPONSE",
                          "FORWARD_RESPONSE"}
      BY <1>1, <1>2, <1>4, <2>4 DEF ExchangeOK, Legs, HasRequest, HasAnswer
    <2> QED
      BY <1>4, <2>1, <2>2, <2>3, <2>4 DEF Legs
  <1> QED
    BY <1>3, <1>4

\* Sequences and their beginnings.

LEMMA Associative ==
    ASSUME NEW S, NEW p \in Seq(S), NEW q \in Seq(S), NEW r \in Seq(S)
    PROVE  (p \o q) \o r = p \o (q \o r)
  OBVIOUS

LEMMA EmptyIsNeutral ==
    ASSUME NEW S, NEW p \in Seq(S)
    PROVE  p \o <<>> = p /\ <<>> \o p = p
  OBVIOUS

LEMMA HeadMoves ==
    ASSUME NEW S, NEW q \in Seq(S), NEW r \in Seq(S), r # <<>>
    PROVE  Append(q, Head(r)) \o Tail(r) = q \o r
  <1>1. Head(r) \in S /\ Tail(r) \in Seq(S) /\ r = <<Head(r)>> \o Tail(r)
    OBVIOUS
  <1>2. Append(q, Head(r)) = q \o <<Head(r)>> /\ <<Head(r)>> \in Seq(S)
    BY <1>1
  <1> QED
    BY <1>1, <1>2, Associative

LEMMA OnlyOne ==
    ASSUME NEW S, NEW q \in Seq(S), Len(q) = 1
    PROVE  Tail(q) = <<>>
  <1>1. q # <<>>
    OBVIOUS
  <1>2. Tail(q) \in Seq(S) /\ Len(Tail(q)) = 0
    BY <1>1
  <1>3. \A t \in Seq(S) : Len(t) = 0 => t = <<>>
    OBVIOUS
  <1> QED
    BY <1>2, <1>3, Zenon

LEMMA BeginsConcat ==
    ASSUME NEW S, NEW p \in Seq(S), NEW q \in Seq(S), NEW a \in Seq(S), Begins(p \o q, a)
    PROVE  /\ Begins(p, a)
           /\ Len(p) = Len(a) => p = a /\ q = <<>>
  <1>1. /\ Len(p) \in Nat /\ Len(q) \in Nat /\ Len(a) \in Nat
        /\ DOMAIN p = 1..Len(p) /\ DOMAIN a = 1..Len(a)
        /\ Len(p \o q) = Len(p) + Len(q) /\ DOMAIN (p \o q) = 1..(Len(p) + Len(q))
        /\ \A i \in DOMAIN p : (p \o q)[i] = p[i]
    OBVIOUS
  <1>2. Begins(p, a)
    BY <1>1 DEF Begins
  <1>3. ASSUME Len(p) = Len(a)
        PROVE  p = a /\ q = <<>>
    <2>1. Len(q) = 0
      BY <1>1, <1>3 DEF Begins
    <2>2. \A i \in 1..Len(p) : p[i] = a[i]
      BY <1>1, <1>2 DEF Begins
    <2> QED
      BY <1>3, <2>1, <2>2
  <1> QED
    BY <1>2, <1>3

LEMMA BeginsItself ==
    ASSUME NEW S, NEW p \in Seq(S)
    PROVE  Begins(p, p)
  BY DEF Begins

LEMMA BeginsTransitive ==
    ASSUME NEW S, NEW p \in Seq(S), NEW q \in Seq(S), NEW a \in Seq(S), Begins(p, q), Begins(q, a)
    PROVE  Begins(p, a)
  <1>1. /\ Len(p) \in Nat /\ Len(q) \in Nat /\ Len(a) \in Nat
        /\ DOMAIN p = 1..Len(p) /\ DOMAIN q = 1..Len(q) /\ DOMAIN a = 1..Len(a)
    OBVIOUS
  <1> QED
    BY <1>1 DEF Begins

LEMMA SentBegins ==
    ASSUME NEW S, NEW p \in Seq(S)
    PROVE  Sent(p, <<>>) \in Seq(S) /\ Begins(Sent(p, <<>>), p)
  <1> DEFINE room == SocketRoom - Len(<<>>)
  <1>1. room \in Nat /\ room > 0
    BY BoundsAssumption
  <1>2. Sent(p, <<>>) = IF Len(p) <= room THEN p ELSE SubSeq(p, 1, room)
    BY DEF Sent
  <1> HIDE DEF room
  <1>3. CASE Len(p) <= room
    BY <1>2, <1>3, BeginsItself
  <1>4. CASE ~(Len(p) <= room)
    <2>1. /\ SubSeq(p, 1, room) \in Seq(S) /\ Len(SubSeq(p, 1, room)) = room
          /\ DOMAIN SubSeq(p, 1, room) = 1..room
          /\ \A i \in 1..room : SubSeq(p, 1, room)[i] = p[i]
      BY <1>1, <1>4
    <2> QED
      BY <1>1, <1>2, <1>4, <2>1 DEF Begins
  <1> QED
    BY <1>3, <1>4

\* What an answer of the server looks like.

LEMMA ReplyShape ==
    ASSUME NEW r \in Request, NEW a \in Replies(r)
    PROVE  /\ a \in Seq(Segment) /\ LastEnds(a) /\ Numbered(a, r.n)
           /\ r.kind = "ssl" => Len(a) = 1 /\ AllOf(a, "N")
           /\ Len(a) > 1 /\ a[1].kind = "OK" => Len(a) = 2 /\ r.kind # "query"
  <1>1. PICK k \in Answers(r.kind) : a = Tokens(k, r.n)
    BY DEF Replies
  <1>2. r.n \in Nat
    BY DEF Request
  <1>3. \/ k = <<>> /\ r.kind # "ssl"
        \/ k = <<"N">> /\ r.kind = "ssl"
        \/ k \in {<<"R">>, <<"OKZ">>, <<"OK", "Z">>} /\ r.kind \in {"startup", "password"}
        \/ k = <<"E">> /\ r.kind # "ssl"
        \/ k \in {<<"Z">>, <<"D", "Z">>, <<"D", "D", "Z">>} /\ r.kind = "query"
    BY <1>1 DEF Answers, Authenticated
  <1>4. CASE k = <<>>
    <2>1. a = <<>>
      BY <1>1, <1>4 DEF Tokens
    <2> QED
      BY <1>3, <1>4, <2>1 DEF LastEnds, Numbered, AllOf
  <1>5. \A x : k = <<x>> => a = <<[kind |-> x, n |-> r.n]>>
    BY <1>1 DEF Tokens
  <1>6. \A x, y : k = <<x, y>> => a = <<[kind |-> x, n |-> r.n], [kind |-> y, n |-> r.n]>>
    BY <1>1 DEF Tokens
  <1>7. CASE k \in {<<"N">>, <<"R">>, <<"OKZ">>, <<"E">>, <<"Z">>}
    <2>1. PICK x \in {"N", "R", "OKZ", "E", "Z"} : k = <<x>> /\ (r.kind = "ssl" => x = "N")
      BY <1>3, <1>7
    <2>2. a = <<[kind |-> x, n |-> r.n]>> /\ [kind |-> x, n |-> r.n] \in Segment
      BY <1>2, <1>5, <2>1 DEF Segment
    <2> QED
      BY <2>1, <2>2 DEF LastEnds, Numbered, AllOf
  <1>8. CASE k \in {<<"OK", "Z">>, <<"D", "Z">>}
    <2>1. PICK x \in {"OK", "D"} : k = <<x, "Z">> /\ r.kind # "ssl" /\ (r.kind = "query" => x = "D")
      BY <1>3, <1>8
    <2>2. /\ a = <<[kind |-> x, n |-> r.n], [kind |-> "Z", n |-> r.n]>>
          /\ [kind |-> x, n |-> r.n] \in Segment /\ [kind |-> "Z", n |-> r.n] \in Segment
      BY <1>2, <1>6, <2>1 DEF Segment
    <2> QED
      BY <2>1, <2>2 DEF LastEnds, Numbered, Ending
  <1>9. CASE k = <<"D", "D", "Z">>
    <2>1. /\ a = <<[kind |-> "D", n |-> r.n], [kind |-> "D", n |-> r.n], [kind |-> "Z", n |-> r.n]>>
          /\ [kind |-> "D", n |-> r.n] \in Segment /\ [kind |-> "Z", n |-> r.n] \in Segment
      BY <1>1, <1>2, <1>9 DEF Segment, Tokens
    <2> QED
      BY <1>3, <1>9, <2>1 DEF LastEnds, Numbered, Ending
  <1> QED
    BY <1>3, <1>4, <1>7, <1>8, <1>9

\* The actions after which everything is where it was.
LEMMA QuietExchange ==
    ASSUME IInv, NEW s \in Sessions,
           \/ PrepareToReceiveRequest(s) \/ Initiate(s) \/ PrepareToForwardRequest(s)
           \/ PrepareToReceiveResponse(s) \/ PrepareToForwardResponse(s)
           \/ Connect(s) \/ Delete(s)
    PROVE  ExchangeOK(s)'
  <1>0. ExchangeOK(s) /\ TypeOK
    BY DEF IInv
  <1>1. UNCHANGED <<req, resp, cin, cout, got, cl, cn, sin, sout, pend, reply>>
    BY DEF PrepareToReceiveRequest, Initiate, PrepareToForwardRequest, context,
       PrepareToReceiveResponse, PrepareToForwardResponse, Connect, Delete, clientVars, serverVars
  <1>2. UNCHANGED Exchange(s) /\ UNCHANGED AtPeer(s)
    BY <1>1 DEF Exchange, AtPeer
  <1>3. \/ st'[s] = st[s]
        \/ st[s] = "PREPARE_TO_RECEIVE_REQUEST" /\ st'[s] = "RECEIVE_REQUEST"
        \/ st[s] = "INITIATE" /\ st'[s] = "PREPARE_TO_FORWARD_REQUEST"
        \/ st[s] = "PREPARE_TO_FORWARD_REQUEST" /\ st'[s] = "FORWARD_REQUEST"
        \/ st[s] = "PREPARE_TO_RECEIVE_RESPONSE" /\ st'[s] = "RECEIVE_RESPONSE"
        \/ st[s] = "PREPARE_TO_FORWARD_RESPONSE" /\ st'[s] = "FORWARD_RESPONSE"
    BY <1>0 DEF PrepareToReceiveRequest, Initiate, PrepareToForwardRequest, Goto, TypeOK,
       PrepareToReceiveResponse, PrepareToForwardResponse, Connect, Delete
  <1>4. st'[s] = st[s] \/ \E leg \in Legs : st[s] \in leg /\ st'[s] \in leg
    BY <1>3 DEF Legs, HasRequest
  <1> QED
    BY <1>0, <1>2, <1>4, SameLeg

\* What the session reads is the client's last message, and all of it.
LEMMA ReceiveRequestExchange ==
    ASSUME IInv, NEW s \in Sessions, waiting[s] => Ready(s), ReceiveRequest(s)
    PROVE  ExchangeOK(s)'
  <1>0. ExchangeOK(s) /\ BuffersOK(s) /\ Waits(s) /\ ClientOK(s) /\ TypeOK
    BY WaitSplit DEF IInv
  <1> DEFINE ok == Received(req[s], cin[s], cstat[s])
  <1>1. /\ st[s] = "RECEIVE_REQUEST"
        /\ req' = [req EXCEPT ![s] = req[s] \o cin[s]] /\ cin' = [cin EXCEPT ![s] = <<>>]
        /\ Proceed(s, ok, IF initiated[s] THEN "APPLY_PRE_REQUEST_PLUGINS" ELSE "INITIATE")
        /\ UNCHANGED <<resp, cout, got, cl, cn, sin, sout, pend, reply>>
    BY DEF ReceiveRequest, serverVars
  <1>2. req[s] = <<>> /\ cin[s] \in Seq(Request)
    BY <1>0, <1>1 DEF BuffersOK, TypeOK
  <1>3. req'[s] = cin[s] /\ cin'[s] = <<>>
    BY <1>0, <1>1, <1>2, EmptyIsNeutral DEF TypeOK
  <1>4. st'[s] = IF ok THEN (IF initiated[s] THEN "APPLY_PRE_REQUEST_PLUGINS" ELSE "INITIATE")
                       ELSE "NULL"
    BY <1>0, <1>1 DEF Proceed, Goto, TypeOK
  <1>5. ok <=> cstat[s] # "reset" /\ cin[s] # <<>>
    BY <1>2, EmptyIsNeutral DEF Received
  <1> HIDE DEF ok
  <1>6. resp[s] = <<>> /\ (Answered(s) \/ Underway(s))
    BY <1>0, <1>1 DEF ExchangeOK
  <1>7. CASE ok
    <2>1. Underway(s)
      BY <1>5, <1>6, <1>7 DEF Answered
    <2>2. InHand(s)' /\ Quiet(s)' /\ resp'[s] = <<>>
      BY <1>1, <1>3, <1>6, <2>1 DEF Underway, InHand, AnswerDue, Quiet
    <2> QED
      BY <1>4, <1>7, <2>2 DEF ExchangeOK, HasRequest, HasAnswer
  <1>8. CASE ~ok
    <2>1. cstat[s] # "open"
      BY <1>0, <1>1, <1>5, <1>8 DEF Waits, Ready
    <2>2. cl[s] = "closed"
      BY <1>0, <2>1 DEF ClientOK
    <2>3. Numbered(cout[s], cn[s])
      BY <1>6 DEF Answered, Underway, AnswerDue, Numbered
    <2>4. /\ cl'[s] \notin Senders /\ cl'[s] = "closed"
          /\ Numbered(cout[s], cn[s])' /\ st'[s] = "NULL"
      BY <1>1, <1>4, <1>8, <2>2, <2>3 DEF Senders
    <2> QED
      BY <2>4 DEF ExchangeOK, HasRequest, HasAnswer
  <1> QED
    BY <1>7, <1>8

LEMMA PreRequestExchange ==
    ASSUME IInv, NEW s \in Sessions, ApplyPreRequestPlugins(s)
    PROVE  ExchangeOK(s)'
  <1>0. ExchangeOK(s) /\ TypeOK
    BY DEF IInv
  <1>1. /\ st[s] = "APPLY_PRE_REQUEST_PLUGINS"
        /\ UNCHANGED <<req, cin, cout, got, cl, cn, sin, sout, pend, reply>>
        /\ \/ /\ st' = [st EXCEPT ![s] = "PREPARE_TO_FORWARD_REQUEST"]
              /\ resp' = resp
           \/ /\ st' = [st EXCEPT ![s] = "PREPARE_TO_FORWARD_RESPONSE"]
              /\ resp' = [resp EXCEPT ![s] = SetError(s)]
    BY DEF ApplyPreRequestPlugins, AfterRefusal, Goto, clientVars, serverVars
  <1>2. InHand(s) /\ Quiet(s)
    BY <1>0, <1>1 DEF ExchangeOK, HasRequest
  <1>3. CASE resp' = resp /\ st' = [st EXCEPT ![s] = "PREPARE_TO_FORWARD_REQUEST"]
    <2>1. UNCHANGED Exchange(s) /\ UNCHANGED AtPeer(s)
      BY <1>1, <1>3 DEF Exchange, AtPeer
    <2>2. st'[s] = "PREPARE_TO_FORWARD_REQUEST"
      BY <1>0, <1>3 DEF TypeOK
    <2>3. HasRequest \in Legs /\ st[s] \in HasRequest /\ st'[s] \in HasRequest
      BY <1>1, <2>2 DEF Legs, HasRequest
    <2> QED
      BY <1>0, <2>1, <2>3, SameLeg
  <1>4. CASE /\ st' = [st EXCEPT ![s] = "PREPARE_TO_FORWARD_RESPONSE"]
             /\ resp' = [resp EXCEPT ![s] = SetError(s)]
    <2>1. resp'[s] = SetError(s) /\ st'[s] = "PREPARE_TO_FORWARD_RESPONSE"
      BY <1>0, <1>4 DEF TypeOK
    <2>2. SetError(s) = OwnError(s)
      BY <1>2 DEF SetError, OwnError, InHand
    <2>3. InHand(s)' /\ Quiet(s)' /\ OwnError(s)' = OwnError(s)
      BY <1>1, <1>2 DEF InHand, AnswerDue, Quiet, OwnError
    <2>4. Numbered(OwnError(s), cn[s])
      BY DEF Numbered, OwnError
    <2>5. Numbered(resp[s], cn[s])'
      BY <1>1, <2>1, <2>2, <2>4
    <2>6. AnswerReady(s)'
      BY <2>1, <2>2, <2>3, <2>5 DEF AnswerReady
    <2> QED
      BY <2>1, <2>3, <2>6 DEF ExchangeOK, HasRequest, HasAnswer
  <1> QED
    BY <1>1, <1>3, <1>4

LEMMA ForwardRequestExchange ==
    ASSUME IInv, NEW s \in Sessions, ForwardRequest(s)
    PROVE  ExchangeOK(s)'
  <1>0. ExchangeOK(s) /\ TypeOK
    BY DEF IInv
  <1>1. /\ st[s] = "FORWARD_REQUEST"
        /\ UNCHANGED <<req, resp, cin, cout, got, cl, cn, sin, pend, reply>>
        /\ sout' = sout \/ sout' = [sout EXCEPT ![s] = sout[s] \o req[s]]
        /\ Proceed(s, sstat[s] # "reset", "PREPARE_TO_RECEIVE_RESPONSE")
    BY DEF ForwardRequest, clientVars
  <1>2. InHand(s) /\ Quiet(s) /\ resp[s] = <<>> /\ req[s] \in Seq(Request)
    BY <1>0, <1>1 DEF ExchangeOK, HasRequest, TypeOK
  <1>3. st'[s] \in {"PREPARE_TO_RECEIVE_RESPONSE", "NULL"}
    BY <1>0, <1>1 DEF Proceed, Goto, TypeOK
  <1>4. sout'[s] = <<>> \/ sout'[s] = req[s]
    BY <1>0, <1>1, <1>2, EmptyIsNeutral DEF Quiet, TypeOK
  <1>5. InHand(s)'
    BY <1>1, <1>2 DEF InHand, AnswerDue
  <1>6. AtServer(s)'
    BY <1>1, <1>2, <1>4 DEF AtServer, Quiet
  <1>7. cl'[s] \notin Senders /\ cout'[s] = <<>>
    BY <1>5 DEF InHand, AnswerDue
  <1>8. Numbered(cout[s], cn[s])'
    BY <1>7 DEF Numbered
  <1> QED
    BY <1>3, <1>5, <1>6, <1>7, <1>8 DEF ExchangeOK, HasRequest, HasAnswer

\* An answer that is taken for complete is the whole of it, or the first segment of
\* an authentication that comes in two.
LEMMA ReadyIsWhole ==
    ASSUME NEW s \in Sessions, NEW r \in Request, NEW a \in Replies(r),
           NEW data \in Seq(Segment), NEW rest \in Seq(Segment),
           data # <<>>, Begins(data \o rest, a), ReadyForQuery(s, data),
           ~initiated[s] => r.kind = "ssl"
    PROVE  \/ data = a /\ rest = <<>>
           \/ r.kind # "query" /\ Head(a).kind = "OK" /\ AllOf(data, "OK")
  <1>1. /\ a \in Seq(Segment) /\ LastEnds(a)
        /\ r.kind = "ssl" => Len(a) = 1 /\ AllOf(a, "N")
        /\ Len(a) > 1 /\ a[1].kind = "OK" => Len(a) = 2 /\ r.kind # "query"
    BY ReplyShape
  <1>2. Begins(data, a) /\ (Len(data) = Len(a) => data = a /\ rest = <<>>)
    BY <1>1, BeginsConcat
  <1>3. /\ Len(data) \in Nat /\ Len(data) > 0 /\ Len(a) \in Nat /\ Len(data) <= Len(a)
        /\ DOMAIN data = 1..Len(data) /\ DOMAIN a = 1..Len(a)
        /\ Head(data) = data[1] /\ Head(a) = a[1]
    BY <1>1, <1>2 DEF Begins
  <1>4. data[1] = a[1] /\ data[Len(data)] = a[Len(data)] /\ Len(data) \in DOMAIN a /\ 1 \in DOMAIN a
    <2>1. \A i \in DOMAIN data : data[i] = a[i]
      BY <1>2 DEF Begins
    <2>2. Len(data) \in 1..Len(data) /\ 1 \in 1..Len(data) /\ Len(data) \in 1..Len(a) /\ 1 \in 1..Len(a)
      BY <1>3
    <2> QED
      BY <1>3, <2>1, <2>2
  <1>5. CASE ~initiated[s]
    <2>1. Len(a) = 1
      BY <1>1, <1>5
    <2>2. Len(data) = Len(a)
      BY <1>3, <2>1
    <2> QED
      BY <1>2, <2>2
  <1>6. CASE Head(data).kind \in {"R", "OKZ"}
    <2>1. Len(a) = 1
      <3>1. a[1].kind \in {"R", "OKZ"}
        BY <1>3, <1>4, <1>6
      <3> QED
        BY <1>1, <1>3, <3>1 DEF LastEnds, Ending, ReadyForQuery
    <2> QED
      BY <1>2, <1>3, <2>1
  <1>7. CASE data[Len(data)].kind \in {"OKZ", "Z"}
    <2>1. a[Len(data)].kind \in Ending
      BY <1>4, <1>7 DEF Ending
    <2>2. Len(data) = Len(a)
      BY <1>1, <1>4, <2>1 DEF LastEnds
    <2> QED
      BY <1>2, <2>2
  <1>8. CASE Head(data).kind = "OK"
    <2>1. CASE Len(data) = Len(a)
      BY <1>2, <2>1
    <2>2. CASE Len(data) # Len(a)
      <3>1. Len(data) = 1 /\ r.kind # "query"
        <4>1. a[1].kind = "OK" /\ Len(a) > 1
          <5>1. a[1].kind = "OK"
            BY <1>3, <1>4, <1>8
          <5>2. Len(a) > 1
            <6>1. Len(data) \in Nat /\ Len(a) \in Nat /\ Len(data) > 0 /\ Len(data) <= Len(a)
              BY <1>3
            <6> QED
              BY <2>2, <6>1
          <5> QED
            BY <5>1, <5>2
        <4>2. Len(a) = 2 /\ r.kind # "query"
          BY <1>1, <4>1
        <4> QED
          BY <1>3, <2>2, <4>2
      <3>2. AllOf(data, "OK") /\ Head(a).kind = "OK"
        BY <1>3, <1>4, <1>8, <3>1 DEF AllOf
      <3> QED
        BY <3>1, <3>2
    <2> QED
      BY <2>1, <2>2
  <1> QED
    BY <1>5, <1>6, <1>7, <1>8 DEF ReadyForQuery

LEMMA ReceiveResponseExchange ==
    ASSUME IInv, NEW s \in Sessions, ~down, ReceiveResponse(s)
    PROVE  ExchangeOK(s)'
  <1>0. ExchangeOK(s) /\ EarlyOK(s) /\ BuffersOK(s) /\ LastEnds(reply[s]) /\ TypeOK
    BY DEF IInv
  <1> DEFINE data == resp[s] \o sin[s]
             ok   == Received(resp[s], sin[s], sstat[s])
  <1>1. /\ st[s] = "RECEIVE_RESPONSE"
        /\ resp' = [resp EXCEPT ![s] = data] /\ sin' = [sin EXCEPT ![s] = <<>>]
        /\ UNCHANGED <<req, cin, cout, got, cl, cn, sout, pend, reply>>
    BY DEF ReceiveResponse, clientVars
  <1>2. \/ /\ st'[s] = "APPLY_POST_RESPONSE_PLUGINS"
           /\ data # <<>> /\ ReadyForQuery(s, data)
        \/ st'[s] = "RECEIVE_RESPONSE"
        \/ st'[s] = "NULL"
    <2>1. CASE ok /\ ~ReadyForQuery(s, data)
      BY <1>0, <2>1 DEF ReceiveResponse, Goto, TypeOK
    <2>2. CASE ~(ok /\ ~ReadyForQuery(s, data))
      <3>1. Proceed(s, ok, "APPLY_POST_RESPONSE_PLUGINS")
        BY <2>2 DEF ReceiveResponse
      <3>2. st'[s] = IF ok THEN "APPLY_POST_RESPONSE_PLUGINS" ELSE "NULL"
        BY <1>0, <3>1 DEF Proceed, Goto, TypeOK
      <3>3. ok => data # <<>>
        BY DEF Received
      <3> QED
        BY <2>2, <3>2, <3>3
    <2> QED
      BY <2>1, <2>2
  <1> HIDE DEF ok
  <1>3. /\ InHand(s) /\ AtServer(s) /\ req[s] \in Seq(Request) /\ req[s] # <<>>
        /\ resp[s] \in Seq(Segment) /\ sin[s] \in Seq(Segment) /\ pend[s] \in Seq(Segment)
    BY <1>0, <1>1 DEF ExchangeOK, BuffersOK, TypeOK
  <1>4. resp'[s] = data /\ sin'[s] = <<>> /\ data \in Seq(Segment)
    BY <1>0, <1>1, <1>3, ConcatType DEF TypeOK
  <1>5. InHand(s)'
    BY <1>1, <1>3 DEF InHand, AnswerDue
  <1>6. cl'[s] \notin Senders /\ cout'[s] = <<>> /\ Numbered(cout[s], cn[s])'
    <2>1. cl'[s] \notin Senders /\ cout'[s] = <<>>
      BY <1>5 DEF InHand, AnswerDue
    <2> QED
      BY <2>1 DEF Numbered
  <1>7. CASE st'[s] = "NULL"
    <2> HIDE DEF data
    <2> QED
      BY <1>6, <1>7 DEF ExchangeOK, HasRequest, HasAnswer
  <1>8. data \o pend[s] = resp[s] \o (sin[s] \o pend[s])
    <2>1. resp[s] \in Seq(Segment) /\ sin[s] \in Seq(Segment) /\ pend[s] \in Seq(Segment)
      BY <1>3
    <2>2. \A p, q, r \in Seq(Segment) : (p \o q) \o r = p \o (q \o r)
      BY Associative
    <2> QED
      BY <2>1, <2>2, Zenon
  <1> HIDE DEF data
  <1>9. CASE st'[s] = "RECEIVE_RESPONSE"
    <2>1. data \o (<<>> \o pend[s]) = resp[s] \o (sin[s] \o pend[s])
      BY <1>3, <1>8, EmptyIsNeutral
    <2>2. resp[s] = <<>> /\ sin[s] = <<>> => data = <<>>
      BY <1>3, EmptyIsNeutral DEF data
    <2>3. AtServer(s)'
      <3>1. CASE sout[s] = req[s] /\ resp[s] = <<>> /\ sin[s] = <<>> /\ pend[s] = <<>>
        BY <1>1, <1>4, <2>2, <3>1 DEF AtServer
      <3>2. CASE /\ sout[s] = <<>> /\ reply[s] \in Replies(Head(req[s]))
                 /\ Begins(resp[s] \o (sin[s] \o pend[s]), reply[s])
        <4>1. Begins(resp[s] \o (sin[s] \o pend[s]), reply[s])'
          BY <1>1, <1>4, <2>1, <3>2
        <4>2. (sout[s] = <<>> /\ reply[s] \in Replies(Head(req[s])))'
          BY <1>1, <3>2
        <4> QED
          BY <4>1, <4>2 DEF AtServer
      <3>3. CASE resp[s] = <<>> /\ Quiet(s)
        BY <1>1, <1>4, <2>2, <3>3 DEF AtServer, Quiet
      <3> QED
        BY <1>3, <3>1, <3>2, <3>3 DEF AtServer
    <2> QED
      BY <1>5, <1>9, <2>3 DEF ExchangeOK, HasRequest, HasAnswer
  <1>10. CASE /\ st'[s] = "APPLY_POST_RESPONSE_PLUGINS"
              /\ data # <<>> /\ ReadyForQuery(s, data)
    <2> DEFINE r == Head(req[s])
    <2>1. r \in Request /\ r.n = cn[s]
      BY <1>3, HeadType DEF InHand
    <2>2. sout[s] = <<>> /\ reply[s] \in Replies(r) /\ Begins(data \o pend[s], reply[s])
      <3>1. ~(resp[s] = <<>> /\ sin[s] = <<>>)
        BY <1>3, <1>10, EmptyIsNeutral DEF data
      <3> QED
        BY <1>3, <1>8, <3>1 DEF AtServer, Quiet
    <2>3. ~initiated[s] => r.kind = "ssl"
      BY <1>0, <1>1 DEF EarlyOK, HasRequest
    <2> HIDE DEF r
    <2>4. \/ data = reply[s] /\ pend[s] = <<>>
          \/ r.kind # "query" /\ Head(reply[s]).kind = "OK" /\ AllOf(data, "OK")
      BY <1>3, <1>4, <1>10, <2>1, <2>2, <2>3, ReadyIsWhole
    <2>5. reply[s] \in Seq(Segment) /\ Numbered(reply[s], cn[s])
      BY <2>1, <2>2, ReplyShape
    <2>6. Begins(data, reply[s])
      BY <1>3, <1>4, <2>2, <2>5, BeginsConcat
    <2>7. Numbered(data, cn[s]) /\ reply[s] # <<>>
      <3>1. /\ Len(data) \in Nat /\ DOMAIN data = 1..Len(data) /\ Len(data) > 0
            /\ Len(reply[s]) \in Nat /\ DOMAIN reply[s] = 1..Len(reply[s])
        BY <1>4, <1>10, <2>5
      <3>2. \A i \in DOMAIN data : i \in DOMAIN reply[s] /\ data[i] = reply[s][i]
        BY <2>6, <3>1 DEF Begins
      <3> QED
        BY <2>5, <2>6, <3>1, <3>2 DEF Numbered, Begins
    <2>8. AnswerReady(s)'
      <3>1. Numbered(resp[s], cn[s])'
        BY <1>1, <1>4, <2>7
      <3>2. CASE data = reply[s] /\ pend[s] = <<>>
        BY <1>1, <1>4, <2>2, <3>1, <3>2 DEF AnswerReady, Quiet
      <3>3. CASE r.kind # "query" /\ Head(reply[s]).kind = "OK" /\ AllOf(data, "OK")
        BY <1>1, <1>4, <2>2, <2>6, <2>7, <3>1, <3>3 DEF AnswerReady, AuthenticationSplit, r
      <3> QED
        BY <2>4, <3>2, <3>3
    <2> QED
      BY <1>5, <1>10, <2>8 DEF ExchangeOK, HasRequest, HasAnswer
  <1> QED
    BY <1>2, <1>7, <1>9, <1>10

LEMMA PostResponseExchange ==
    ASSUME IInv, NEW s \in Sessions, ApplyPostResponsePlugins(s)
    PROVE  ExchangeOK(s)'
  <1>0. ExchangeOK(s) /\ TypeOK
    BY DEF IInv
  <1>1. /\ st[s] = "APPLY_POST_RESPONSE_PLUGINS"
        /\ UNCHANGED <<req, cin, cout, got, cl, cn, sin, sout, pend, reply>>
        /\ st' = [st EXCEPT ![s] = "PREPARE_TO_FORWARD_RESPONSE"]
        /\ \/ resp' = resp
           \/ /\ Head(req[s]).kind = "query"
              /\ resp' = [resp EXCEPT ![s] = SetError(s)]
    BY DEF ApplyPostResponsePlugins, Goto, clientVars, serverVars
  <1>2. InHand(s) /\ AnswerReady(s) /\ st'[s] = "PREPARE_TO_FORWARD_RESPONSE"
    BY <1>0, <1>1 DEF ExchangeOK, HasAnswer, TypeOK
  <1>3. CASE resp' = resp
    <2>1. UNCHANGED Exchange(s) /\ UNCHANGED AtPeer(s)
      BY <1>1, <1>3 DEF Exchange, AtPeer
    <2>2. \E leg \in Legs : st[s] \in leg /\ st'[s] \in leg
      BY <1>1, <1>2 DEF Legs
    <2> QED
      BY <1>0, <2>1, <2>2, SameLeg
  <1>4. CASE Head(req[s]).kind = "query" /\ resp' = [resp EXCEPT ![s] = SetError(s)]
    <2>1. resp'[s] = OwnError(s)
      BY <1>0, <1>2, <1>4 DEF SetError, OwnError, InHand, TypeOK
    <2>2. Quiet(s)
      BY <1>2, <1>4 DEF AnswerReady
    <2>3. InHand(s)' /\ Quiet(s)' /\ OwnError(s)' = OwnError(s)
      BY <1>1, <1>2, <2>2 DEF InHand, AnswerDue, Quiet, OwnError
    <2>4. Numbered(OwnError(s), cn[s])
      BY DEF Numbered, OwnError
    <2>5. AnswerReady(s)'
      BY <1>1, <2>1, <2>3, <2>4 DEF AnswerReady
    <2> QED
      BY <1>2, <2>3, <2>5 DEF ExchangeOK, HasRequest, HasAnswer
  <1> QED
    BY <1>1, <1>3, <1>4

LEMMA BeginsKeeps ==
    ASSUME NEW p \in Seq(Segment), NEW q \in Seq(Segment), Begins(p, q)
    PROVE  /\ \A n : Numbered(q, n) => Numbered(p, n)
           /\ \A kind : AllOf(q, kind) => AllOf(p, kind)
  <1>1. /\ Len(p) \in Nat /\ Len(q) \in Nat
        /\ DOMAIN p = 1..Len(p) /\ DOMAIN q = 1..Len(q)
    OBVIOUS
  <1>2. \A i \in DOMAIN p : i \in DOMAIN q /\ p[i] = q[i]
    BY <1>1 DEF Begins
  <1> QED
    BY <1>2 DEF Numbered, AllOf

\* The client's socket gets the beginning of the answer, from its first segment.
LEMMA ForwardResponseExchange ==
    ASSUME IInv, NEW s \in Sessions, ForwardResponse(s)
    PROVE  ExchangeOK(s)'
  <1>0. ExchangeOK(s) /\ ClientOK(s) /\ TypeOK
    BY DEF IInv
  <1> DEFINE sent == Sent(resp[s], <<>>)
             ok   == cstat[s] = "eof" \/ (cstat[s] = "open" /\ Sent(resp[s], cout[s]) # <<>>)
  <1>1. /\ st[s] = "FORWARD_RESPONSE"
        /\ cout' = IF cstat[s] = "open" THEN [cout EXCEPT ![s] = cout[s] \o Sent(resp[s], cout[s])]
                                        ELSE cout
        /\ UNCHANGED <<req, resp, cin, got, cl, cn, sin, sout, pend, reply>>
        /\ Proceed(s, ok, "RESET_CONTEXT")
    BY DEF ForwardResponse, serverVars
  <1>2. InHand(s) /\ AnswerReady(s)
    BY <1>0, <1>1 DEF ExchangeOK, HasAnswer
  <1>3. /\ cin[s] = <<>> /\ cout[s] = <<>> /\ got[s] = <<>> /\ cl[s] \notin Senders
        /\ Head(req[s]).n = cn[s]
    BY <1>2 DEF InHand, AnswerDue
  <1>4. resp[s] \in Seq(Segment) /\ reply[s] \in Seq(Segment)
    BY <1>0 DEF TypeOK
  <1>5. sent \in Seq(Segment) /\ Begins(sent, resp[s])
    BY <1>4, SentBegins
  <1>6. st'[s] = IF ok THEN "RESET_CONTEXT" ELSE "NULL"
    BY <1>0, <1>1 DEF Proceed, Goto, TypeOK
  <1>7. ok <=> cstat[s] = "eof" \/ (cstat[s] = "open" /\ sent # <<>>)
    BY <1>3
  <1> HIDE DEF sent, ok
  <1>8. CASE cstat[s] # "open"
    <2>1. cl'[s] = "closed" /\ cl'[s] \notin Senders /\ cout'[s] = <<>>
      BY <1>0, <1>1, <1>3, <1>8 DEF ClientOK
    <2>2. Numbered(cout[s], cn[s])' /\ AllOf(cout[s], "OK")'
      BY <2>1 DEF Numbered, AllOf
    <2>3. CASE ok
      <3>1. Quiet(s)' \/ (AuthenticationSplit(s)' /\ sout'[s] = <<>>)
        BY <1>1, <1>2 DEF AnswerReady, Quiet, AuthenticationSplit
      <3>2. Answered(s)'
        BY <1>1, <1>3, <2>1, <2>2, <3>1 DEF Answered
      <3>3. st'[s] = "RESET_CONTEXT" /\ Head(req'[s]).n = cn'[s]
        BY <1>1, <1>3, <1>6, <2>3
      <3> QED
        BY <2>1, <3>2, <3>3 DEF ExchangeOK, HasRequest, HasAnswer
    <2>4. CASE ~ok
      BY <1>6, <2>1, <2>2, <2>4 DEF ExchangeOK, HasRequest, HasAnswer
    <2> QED
      BY <2>3, <2>4
  <1>9. CASE cstat[s] = "open"
    <2>1. cout'[s] = sent
      <3>1. cout'[s] = <<>> \o Sent(resp[s], <<>>)
        BY <1>0, <1>1, <1>3, <1>9 DEF TypeOK
      <3> QED
        BY <1>5, <3>1, EmptyIsNeutral DEF sent
    <2>2. cl'[s] \notin Senders /\ got'[s] = <<>> /\ cin'[s] = <<>>
      BY <1>1, <1>3
    <2>3. Numbered(cout[s], cn[s])'
      BY <1>1, <1>2, <1>4, <1>5, <2>1, BeginsKeeps DEF AnswerReady
    <2>4. CASE ok
      <3>1. got'[s] \o cout'[s] = sent
        BY <1>5, <2>1, <2>2, EmptyIsNeutral
      <3>2. \E answer \in {reply'[s], OwnError(s)'} : Begins(sent, answer)
        <4>1. OwnError(s)' = OwnError(s) /\ reply'[s] = reply[s]
          BY <1>1 DEF OwnError
        <4>2. resp[s] \in {reply[s], OwnError(s)} \/ Begins(resp[s], reply[s])
          BY <1>2 DEF AnswerReady
        <4> QED
          BY <1>4, <1>5, <4>1, <4>2, BeginsTransitive
      <3>3. Quiet(s)' \/ (AuthenticationSplit(s)' /\ sout'[s] = <<>> /\ AllOf(cout'[s], "OK"))
        <4>1. CASE Quiet(s)
          BY <1>1, <4>1 DEF Quiet
        <4>2. CASE AuthenticationSplit(s) /\ sout[s] = <<>> /\ AllOf(resp[s], "OK")
          <5>1. AllOf(cout'[s], "OK")
            BY <1>4, <1>5, <2>1, <4>2, BeginsKeeps
          <5> QED
            BY <1>1, <4>2, <5>1 DEF AuthenticationSplit
        <4> QED
          BY <1>2, <4>1, <4>2 DEF AnswerReady
      <3>4. Answered(s)'
        <4>1. cl'[s] # "idle"
          BY <2>2 DEF Senders
        <4> QED
          BY <2>2, <2>3, <3>1, <3>2, <3>3, <4>1 DEF Answered
      <3>5. (got[s] \o cout[s])' = Sent(resp[s], <<>>)' /\ Head(req'[s]).n = cn'[s]
        BY <1>1, <1>3, <3>1 DEF sent, Sent
      <3>6. st'[s] = "RESET_CONTEXT"
        BY <1>6, <2>4
      <3> QED
        BY <3>4, <3>5, <3>6 DEF ExchangeOK, HasRequest, HasAnswer
    <2>5. CASE ~ok
      <3>1. st'[s] = "NULL" /\ cout'[s] = <<>>
        BY <1>6, <1>7, <1>9, <2>1, <2>5
      <3> QED
        BY <2>2, <2>3, <3>1 DEF ExchangeOK, HasRequest, HasAnswer
    <2> QED
      BY <2>4, <2>5
  <1> QED
    BY <1>8, <1>9

\* Once its buffers are empty, the session is where the next request finds it.
LEMMA ResetContextExchange ==
    ASSUME IInv, NEW s \in Sessions, ResetContext(s)
    PROVE  ExchangeOK(s)'
  <1>0. ExchangeOK(s) /\ TypeOK
    BY DEF IInv
  <1>1. /\ st[s] = "RESET_CONTEXT" /\ resp' = [resp EXCEPT ![s] = <<>>]
        /\ UNCHANGED <<cin, cout, got, cl, cn, sin, sout, pend, reply>>
        /\ st' = [st EXCEPT ![s] = "PREPARE_TO_RECEIVE_REQUEST"]
    BY DEF ResetContext, Reset, Goto, clientVars, serverVars
  <1>2. resp'[s] = <<>> /\ st'[s] = "PREPARE_TO_RECEIVE_REQUEST"
    BY <1>0, <1>1 DEF TypeOK
  <1>3. Answered(s) \/ Underway(s)
    BY <1>0, <1>1 DEF ExchangeOK
  <1>4. Quiet(s)' = Quiet(s) /\ AnswerDue(s)' = AnswerDue(s) /\ OwnError(s)' = OwnError(s)
        /\ AuthenticationSplit(s)' = AuthenticationSplit(s)
    BY <1>1 DEF Quiet, AnswerDue, OwnError, AuthenticationSplit
  <1>5. Answered(s)' = Answered(s)
    BY <1>1, <1>4 DEF Answered
  <1>6. Underway(s)' = Underway(s)
    BY <1>1, <1>4 DEF Underway
  <1> QED
    BY <1>2, <1>3, <1>5, <1>6 DEF ExchangeOK, HasRequest, HasAnswer

\* A client that may send has no message underway and no answer to wait for.
LEMMA ClientSendExchange ==
    ASSUME IInv, NEW s \in Sessions, ClientSend(s)
    PROVE  ExchangeOK(s)'
  <1>0. ExchangeOK(s) /\ ClientOK(s) /\ TypeOK /\ st[s] \in States
    BY DEF IInv, TypeOK
  <1>1. PICK kind \in {"ssl", "startup", "norole", "password", "query", "terminate"},
             next \in {"ssl", "startup", "password", "busy", "closed"} : Send(s, kind, next)
    BY DEF ClientSend
  <1>2. cl[s] \in Senders /\ UNCHANGED <<st, req, resp, cout, sin, sout, pend, reply>>
    BY DEF ClientSend, Senders, context, serverVars
  <1>3. /\ st[s] \in {"PREPARE_TO_RECEIVE_REQUEST", "RECEIVE_REQUEST", "RESET_CONTEXT"}
        /\ Answered(s)
        /\ st[s] = "RESET_CONTEXT" => Head(req[s]).n = cn[s]
        /\ st[s] # "RESET_CONTEXT" => resp[s] = <<>>
    BY <1>0, <1>2 DEF ExchangeOK, States, HasRequest, HasAnswer, InHand, Underway, AnswerDue
  <1>4. cin[s] = <<>> /\ Quiet(s) /\ cout[s] = <<>>
    BY <1>0, <1>2, <1>3 DEF Answered, ClientOK
  <1> DEFINE m == [kind |-> kind, n |-> cn[s] + 1]
  <1>5. /\ cn'[s] = cn[s] + 1 /\ cn[s] \in Nat /\ cin'[s] = Append(<<>>, m)
        /\ cl'[s] \notin Senders /\ got'[s] = <<>>
    BY <1>0, <1>1, <1>4 DEF Send, TypeOK, Senders
  <1>6. m.n = cn'[s]
    BY <1>5
  <1> HIDE DEF m
  <1>7. Len(cin'[s]) = 1 /\ Head(cin'[s]) = m
    BY <1>5
  <1>8. Underway(s)'
    BY <1>2, <1>4, <1>5, <1>6, <1>7 DEF Underway, AnswerDue, Quiet
  <1>9. st'[s] = "RESET_CONTEXT" => Head(req'[s]).n < cn'[s]
    BY <1>2, <1>3, <1>5
  <1>10. /\ st'[s] \in {"PREPARE_TO_RECEIVE_REQUEST", "RECEIVE_REQUEST", "RESET_CONTEXT"}
         /\ st'[s] # "RESET_CONTEXT" => resp'[s] = <<>>
    BY <1>2, <1>3
  <1> QED
    BY <1>8, <1>9, <1>10 DEF ExchangeOK, HasRequest, HasAnswer

\* A segment that ends the client's waiting is the last of the answer.
LEMMA LastIsWhole ==
    ASSUME NEW a \in Seq(Segment), NEW p \in Seq(Segment), NEW q \in Seq(Segment), q # <<>>,
           LastEnds(a), Begins(p \o q, a), Head(q).kind \in Ending
    PROVE  Append(p, Head(q)) = a /\ Tail(q) = <<>>
  <1> DEFINE h == Head(q)
             k == Len(p) + 1
  <1>1. /\ h \in Segment /\ Tail(q) \in Seq(Segment) /\ Append(p, h) \in Seq(Segment)
        /\ Len(Append(p, h)) = k /\ k \in Nat /\ Len(a) \in Nat /\ DOMAIN a = 1..Len(a)
        /\ Len(p \o q) \in Nat /\ DOMAIN (p \o q) = 1..Len(p \o q)
    OBVIOUS
  <1>2. k \in DOMAIN (p \o q) /\ (p \o q)[k] = h
    OBVIOUS
  <1>3. Append(p, h) \o Tail(q) = p \o q
    BY HeadMoves
  <1> HIDE DEF h, k
  <1>4. k \in DOMAIN a /\ a[k] = h
    BY <1>1, <1>2 DEF Begins
  <1>5. k = Len(a)
    BY <1>4 DEF LastEnds, h
  <1> QED
    BY <1>1, <1>3, <1>5, BeginsConcat DEF h

LEMMA ClientReads ==
    ASSUME IInv, NEW s \in Sessions, Answered(s), cl[s] # "closed", cout[s] # <<>>
    PROVE  /\ got[s] \in Seq(Segment) /\ cout[s] \in Seq(Segment)
           /\ Append(got[s], Head(cout[s])) \o Tail(cout[s]) = got[s] \o cout[s]
           /\ Head(cout[s]).kind \in Ending =>
                /\ Append(got[s], Head(cout[s])) \in {reply[s], OwnError(s)}
                /\ Tail(cout[s]) = <<>>
  <1>1. /\ got[s] \in Seq(Segment) /\ cout[s] \in Seq(Segment) /\ reply[s] \in Seq(Segment)
        /\ cn[s] \in Nat /\ LastEnds(reply[s])
    BY DEF IInv, TypeOK
  <1>2. Append(got[s], Head(cout[s])) \o Tail(cout[s]) = got[s] \o cout[s]
    BY <1>1, HeadMoves
  <1>3. OwnError(s) \in Seq(Segment) /\ LastEnds(OwnError(s))
    <2>1. [kind |-> "PE", n |-> cn[s]] \in Segment
      BY <1>1 DEF Segment
    <2> QED
      BY <2>1 DEF OwnError, LastEnds
  <1>4. PICK answer \in {reply[s], OwnError(s)} : Begins(got[s] \o cout[s], answer)
    BY DEF Answered
  <1>5. answer \in Seq(Segment) /\ LastEnds(answer)
    BY <1>1, <1>3, <1>4
  <1>6. Head(cout[s]).kind \in Ending => Append(got[s], Head(cout[s])) = answer /\ Tail(cout[s]) = <<>>
    BY <1>1, <1>4, <1>5, LastIsWhole
  <1> QED
    BY <1>1, <1>2, <1>4, <1>6

LEMMA ClientReadExchange ==
    ASSUME IInv, NEW s \in Sessions, ClientRead(s)
    PROVE  ExchangeOK(s)' /\ (cl'[s] \in Senders => cout'[s] = <<>>)
  <1>0. ExchangeOK(s) /\ ClientOK(s) /\ TypeOK /\ st[s] \in States
    BY DEF IInv, TypeOK
  <1> DEFINE h == Head(cout[s])
  <1>1. /\ cl[s] # "closed" /\ cout[s] # <<>>
        /\ got' = [got EXCEPT ![s] = Append(got[s], h)]
        /\ cl' = [cl EXCEPT ![s] = ClientAfter(cl[s], h.kind)]
        /\ cout' = [cout EXCEPT ![s] = Tail(cout[s])]
        /\ UNCHANGED <<st, req, resp, cin, cn, sin, sout, pend, reply>>
    BY DEF ClientRead, context, serverVars
  <1>2. /\ st[s] \in {"PREPARE_TO_RECEIVE_REQUEST", "RECEIVE_REQUEST", "RESET_CONTEXT"}
        /\ Answered(s) /\ cl[s] \notin Senders
        /\ st[s] = "RESET_CONTEXT" =>
             Head(req[s]).n = cn[s] /\ got[s] \o cout[s] = Sent(resp[s], <<>>)
        /\ st[s] # "RESET_CONTEXT" => resp[s] = <<>>
    BY <1>0, <1>1
    DEF ExchangeOK, States, HasRequest, HasAnswer, InHand, Underway, AnswerDue, ClientOK
  <1>3. /\ got'[s] = Append(got[s], h) /\ cout'[s] = Tail(cout[s])
        /\ cl'[s] = ClientAfter(cl[s], h.kind)
    BY <1>0, <1>1 DEF TypeOK
  <1>4. /\ got[s] \in Seq(Segment) /\ cout[s] \in Seq(Segment)
        /\ got'[s] \o cout'[s] = got[s] \o cout[s]
        /\ h.kind \in Ending => got'[s] \in {reply[s], OwnError(s)} /\ cout'[s] = <<>>
    BY <1>1, <1>2, <1>3, ClientReads
  <1>5. cl'[s] \in Senders => h.kind \in Ending
    BY <1>2, <1>3 DEF ClientAfter, Senders, Ending
  <1>6. \A i \in DOMAIN Tail(cout[s]) : \E j \in DOMAIN cout[s] : Tail(cout[s])[i] = cout[s][j]
    <2>1. /\ Len(cout[s]) \in Nat /\ DOMAIN cout[s] = 1..Len(cout[s])
          /\ DOMAIN Tail(cout[s]) = 1..(Len(cout[s]) - 1)
          /\ \A i \in 1..(Len(cout[s]) - 1) : Tail(cout[s])[i] = cout[s][i + 1]
      BY <1>1, <1>4
    <2> QED
      BY <2>1
  <1>7. h = cout[s][1] /\ 1 \in DOMAIN cout[s]
    BY <1>1, <1>4
  <1> HIDE DEF h
  <1>8. OwnError(s)' = OwnError(s) /\ Quiet(s)' = Quiet(s)
        /\ AuthenticationSplit(s)' = AuthenticationSplit(s)
    BY <1>1 DEF OwnError, Quiet, AuthenticationSplit
  <1>9. Numbered(cout[s], cn[s])'
    BY <1>1, <1>2, <1>3, <1>6 DEF Answered, Numbered
  <1>10. \/ Quiet(s)'
         \/ AuthenticationSplit(s)' /\ sout'[s] = <<>> /\ cl'[s] \notin Senders /\ AllOf(cout'[s], "OK")
    <2>1. ASSUME AllOf(cout[s], "OK")
          PROVE  cl'[s] \notin Senders /\ AllOf(cout'[s], "OK")
      <3>1. h.kind = "OK"
        BY <1>7, <2>1 DEF AllOf
      <3>2. cl'[s] \notin Senders
        BY <1>5, <3>1 DEF Ending
      <3> QED
        BY <1>3, <1>6, <2>1, <3>2 DEF AllOf
    <2> QED
      BY <1>1, <1>2, <1>8, <2>1 DEF Answered
  <1>11. cl'[s] = "idle" => got'[s] \in {reply'[s], OwnError(s)'}
    BY <1>1, <1>4, <1>5, <1>8 DEF Senders
  <1>12. Answered(s)'
    <2>1. \E answer \in {reply'[s], OwnError(s)'} : Begins(got'[s] \o cout'[s], answer)
      <3>1. \E answer \in {reply[s], OwnError(s)} : Begins(got[s] \o cout[s], answer)
        BY <1>1, <1>2 DEF Answered
      <3> QED
        BY <1>1, <1>4, <1>8, <3>1
    <2>2. cin'[s] = <<>>
      BY <1>1, <1>2 DEF Answered
    <2> QED
      BY <1>9, <1>10, <1>11, <2>1, <2>2 DEF Answered
  <1>13. cl'[s] \in Senders => cout'[s] = <<>>
    BY <1>4, <1>5
  <1>14. /\ st'[s] \in {"PREPARE_TO_RECEIVE_REQUEST", "RECEIVE_REQUEST", "RESET_CONTEXT"}
         /\ st'[s] = "RESET_CONTEXT" =>
              Head(req'[s]).n = cn'[s] /\ (got[s] \o cout[s])' = Sent(resp[s], <<>>)'
         /\ st'[s] # "RESET_CONTEXT" => resp'[s] = <<>>
    BY <1>1, <1>2, <1>4 DEF Sent
  <1> QED
    BY <1>12, <1>13, <1>14 DEF ExchangeOK, HasRequest, HasAnswer

\* A client that is gone reads nothing more.
LEMMA ClientGoneExchange ==
    ASSUME IInv, NEW s \in Sessions, ClientLeaves(s) \/ ClientSeesEnd(s)
    PROVE  ExchangeOK(s)' /\ cl'[s] = "closed" /\ cout'[s] = <<>>
  <1>0. ExchangeOK(s) /\ TypeOK
    BY DEF IInv
  <1>1. /\ cl' = [cl EXCEPT ![s] = "closed"]
        /\ cout' = [cout EXCEPT ![s] = <<>>] \/ (cout' = cout /\ cout[s] = <<>>)
        /\ UNCHANGED <<st, req, resp, cin, cn, got, sin, sout, pend, reply>>
    BY DEF ClientLeaves, ClientSeesEnd, context, serverVars
  <1>2. cl'[s] = "closed" /\ cout'[s] = <<>> /\ cl'[s] \notin Senders
    BY <1>0, <1>1 DEF TypeOK, Senders
  <1>3. Numbered(cout[s], cn[s])' /\ AllOf(cout[s], "OK")'
    BY <1>2 DEF Numbered, AllOf
  <1>4. AnswerDue(s) => AnswerDue(s)'
    BY <1>1, <1>2 DEF AnswerDue
  <1>5. Quiet(s)' = Quiet(s) /\ AuthenticationSplit(s)' = AuthenticationSplit(s)
        /\ OwnError(s)' = OwnError(s)
    BY <1>1 DEF Quiet, AuthenticationSplit, OwnError
  <1>6. InHand(s) => InHand(s)'
    BY <1>1, <1>4 DEF InHand
  <1>7. Underway(s) => Underway(s)'
    BY <1>1, <1>4, <1>5 DEF Underway
  <1>8. Answered(s) => Answered(s)'
    BY <1>1, <1>2, <1>3, <1>5 DEF Answered
  <1>9. AtServer(s)' = AtServer(s) /\ AnswerReady(s)' = AnswerReady(s)
    BY <1>1, <1>5 DEF AtServer, AnswerReady
  <1>10. UNCHANGED <<st[s], req[s], resp[s], cn[s]>>
    BY <1>1
  <1> QED
    BY <1>0, <1>2, <1>3, <1>5, <1>6, <1>7, <1>8, <1>9, <1>10 DEF ExchangeOK, HasRequest, HasAnswer

\* The server answers the one request that was forwarded to it.
LEMMA ServerReadExchange ==
    ASSUME IInv, NEW s \in Sessions, ServerRead(s)
    PROVE  ExchangeOK(s)' /\ LastEnds(reply[s])'
  <1>0. ExchangeOK(s) /\ TypeOK /\ st[s] \in States
    BY DEF IInv, TypeOK
  <1> DEFINE r == Head(sout[s])
  <1>1. PICK a \in Answers(r.kind) :
           /\ reply' = [reply EXCEPT ![s] = [i \in DOMAIN a |-> [kind |-> a[i], n |-> r.n]]]
           /\ pend' = [pend EXCEPT ![s] = reply'[s]]
    BY DEF ServerRead
  <1>2. /\ sout[s] # <<>> /\ sout' = [sout EXCEPT ![s] = Tail(sout[s])]
        /\ UNCHANGED <<st, req, resp, cin, cout, got, cl, cn, sin>>
    BY DEF ServerRead, context, clientVars
  <1>3. sout[s] \in Seq(Request) /\ r \in Request
    BY <1>0, <1>2, HeadType DEF TypeOK
  <1>4. reply'[s] = Tokens(a, r.n) /\ pend'[s] = reply'[s] /\ sout'[s] = Tail(sout[s])
    BY <1>0, <1>1, <1>2 DEF TypeOK, Tokens
  <1>5. reply'[s] \in Replies(r)
    BY <1>4 DEF Replies
  <1>6. reply'[s] \in Seq(Segment) /\ LastEnds(reply'[s])
    BY <1>3, <1>5, ReplyShape
  <1>7. st[s] \in {"PREPARE_TO_RECEIVE_RESPONSE", "RECEIVE_RESPONSE", "NULL"}
    BY <1>0, <1>2 DEF ExchangeOK, States, HasRequest, HasAnswer, Quiet, Underway, Answered,
       AnswerReady
  <1>8. CASE st[s] = "NULL"
    BY <1>0, <1>2, <1>6, <1>8 DEF ExchangeOK, HasRequest, HasAnswer
  <1>9. CASE st[s] # "NULL"
    <2>1. InHand(s) /\ AtServer(s)
      BY <1>0, <1>7, <1>9 DEF ExchangeOK
    <2>2. sout[s] = req[s] /\ resp[s] = <<>> /\ sin[s] = <<>> /\ Len(req[s]) = 1
      BY <1>2, <2>1 DEF AtServer, Quiet, InHand
    <2>3. sout'[s] = <<>>
      <3>1. Len(sout[s]) = 1
        BY <2>2
      <3> QED
        BY <1>3, <1>4, <3>1, OnlyOne
    <2>4. InHand(s)'
      BY <1>2, <2>1 DEF InHand, AnswerDue
    <2>5. resp'[s] \o (sin'[s] \o pend'[s]) = reply'[s]
      BY <1>2, <1>4, <1>6, <2>2, EmptyIsNeutral
    <2>6. AtServer(s)'
      <3>1. Begins(resp'[s] \o (sin'[s] \o pend'[s]), reply'[s])
        BY <1>6, <2>5, BeginsItself
      <3>2. reply'[s] \in Replies(Head(req'[s]))
        BY <1>2, <1>5, <2>2
      <3> QED
        BY <2>3, <3>1, <3>2 DEF AtServer
    <2> QED
      BY <1>2, <1>6, <1>7, <1>9, <2>4, <2>6 DEF ExchangeOK, HasRequest, HasAnswer
  <1> QED
    BY <1>8, <1>9

\* What reaches the proxy of an answer, and what a broken connection takes from it,
\* leaves a beginning of it.
LEMMA ServerSendsExchange ==
    ASSUME IInv, NEW s \in Sessions, ServerSend(s) \/ ServerCloses(s) \/ ServerBreaks(s)
    PROVE  ExchangeOK(s)'
  <1>0. ExchangeOK(s) /\ TypeOK
    BY DEF IInv
  <1>1. /\ UNCHANGED <<st, req, resp, cin, cout, got, cl, cn, sout, reply>>
        /\ \/ /\ pend[s] # <<>> /\ sin' = [sin EXCEPT ![s] = Append(sin[s], Head(pend[s]))]
              /\ pend' = [pend EXCEPT ![s] = Tail(pend[s])]
           \/ sin' = sin /\ (pend' = pend \/ pend' = [pend EXCEPT ![s] = <<>>])
    BY DEF ServerSend, ServerCloses, ServerBreaks, context, clientVars
  <1>2. /\ resp[s] \in Seq(Segment) /\ sin[s] \in Seq(Segment) /\ pend[s] \in Seq(Segment)
        /\ reply[s] \in Seq(Segment)
    BY <1>0 DEF TypeOK
  <1>3. \/ /\ pend[s] # <<>> /\ sin'[s] = Append(sin[s], Head(pend[s])) /\ pend'[s] = Tail(pend[s])
        \/ sin'[s] = sin[s] /\ pend'[s] = pend[s]
        \/ sin'[s] = sin[s] /\ pend'[s] = <<>>
    BY <1>0, <1>1 DEF TypeOK
  <1>4. Quiet(s) => Quiet(s)'
    BY <1>1, <1>3 DEF Quiet
  <1>5. AnswerDue(s)' = AnswerDue(s) /\ AuthenticationSplit(s)' = AuthenticationSplit(s)
        /\ OwnError(s)' = OwnError(s)
    BY <1>1 DEF AnswerDue, AuthenticationSplit, OwnError
  <1>6. InHand(s)' = InHand(s) /\ (Underway(s) => Underway(s)')
    BY <1>1, <1>4, <1>5 DEF InHand, Underway
  <1>7. Answered(s) => Answered(s)'
    BY <1>1, <1>4, <1>5 DEF Answered
  <1>8. AnswerReady(s) => AnswerReady(s)'
    BY <1>1, <1>4, <1>5 DEF AnswerReady
  <1>9. ASSUME Begins(resp[s] \o (sin[s] \o pend[s]), reply[s])
        PROVE  Begins(resp[s] \o (sin'[s] \o pend'[s]), reply[s])
    <2>1. CASE pend[s] # <<>> /\ sin'[s] = Append(sin[s], Head(pend[s])) /\ pend'[s] = Tail(pend[s])
      <3>1. sin'[s] \o pend'[s] = sin[s] \o pend[s]
        BY <1>2, <2>1, HeadMoves
      <3> QED
        BY <1>9, <3>1
    <2>2. CASE sin'[s] = sin[s] /\ pend'[s] = pend[s]
      BY <1>9, <2>2
    <2>3. CASE sin'[s] = sin[s] /\ pend'[s] = <<>>
      <3> DEFINE come == resp[s] \o sin[s]
      <3>1. come \in Seq(Segment)
        BY <1>2, ConcatType
      <3>2. come \o pend[s] = resp[s] \o (sin[s] \o pend[s])
        <4>1. \A p, q, r \in Seq(Segment) : (p \o q) \o r = p \o (q \o r)
          BY Associative
        <4> QED
          BY <1>2, <4>1, Zenon
      <3>3. resp[s] \o (sin'[s] \o pend'[s]) = come
        BY <1>2, <2>3, EmptyIsNeutral
      <3> HIDE DEF come
      <3>4. Begins(come \o pend[s], reply[s])
        BY <1>9, <3>2
      <3> QED
        BY <1>2, <3>1, <3>3, <3>4, BeginsConcat
    <2> QED
      BY <1>3, <2>1, <2>2, <2>3
  <1>10. AtServer(s) => AtServer(s)'
    <2>1. CASE sout[s] = req[s] /\ resp[s] = <<>> /\ sin[s] = <<>> /\ pend[s] = <<>>
      BY <1>1, <1>3, <2>1 DEF AtServer
    <2>2. CASE /\ sout[s] = <<>> /\ reply[s] \in Replies(Head(req[s]))
               /\ Begins(resp[s] \o (sin[s] \o pend[s]), reply[s])
      <3>1. Begins(resp'[s] \o (sin'[s] \o pend'[s]), reply'[s])
        BY <1>1, <1>9, <2>2
      <3> QED
        BY <1>1, <2>2, <3>1 DEF AtServer
    <2>3. CASE resp[s] = <<>> /\ Quiet(s)
      BY <1>1, <1>4, <2>3 DEF AtServer
    <2> QED
      BY <2>1, <2>2, <2>3 DEF AtServer
  <1> QED
    BY <1>0, <1>1, <1>4, <1>6, <1>7, <1>8, <1>10 DEF ExchangeOK, HasRequest, HasAnswer, Sent

(* The client, and what it is sent before the session is initiated *)

\* The session's steps change nothing of the client but its socket.
LEMMA ActionClient ==
    ASSUME IInv, NEW s \in Sessions, life[s] = "live", TakeAction(s)
    PROVE  ClientOK(s)'
  <1>0. ClientOK(s) /\ ExchangeOK(s) /\ TypeOK
    BY DEF IInv
  <1>1. UNCHANGED <<cl, life>>
    BY DEF TakeAction, PrepareToReceiveRequest, ReceiveRequest, Initiate, ApplyPreRequestPlugins,
       PrepareToForwardRequest, ForwardRequest, PrepareToReceiveResponse, ReceiveResponse,
       ApplyPostResponsePlugins, PrepareToForwardResponse, ForwardResponse, ResetContext, clientVars
  <1>2. PICK state \in States : Goto(s, state)
    BY DEF TakeAction, PrepareToReceiveRequest, ReceiveRequest, Initiate, ApplyPreRequestPlugins,
       PrepareToForwardRequest, ForwardRequest, PrepareToReceiveResponse, ReceiveResponse,
       ApplyPostResponsePlugins, PrepareToForwardResponse, ForwardResponse, ResetContext,
       Proceed, AfterRefusal, States
  <1>3. st'[s] = state /\ terminated'[s] = (state = "NULL") /\ st[s] # "NULL"
    <2>1. st[s] # "NULL"
      BY DEF TakeAction, PrepareToReceiveRequest, ReceiveRequest, Initiate,
         ApplyPreRequestPlugins, PrepareToForwardRequest, ForwardRequest,
         PrepareToReceiveResponse, ReceiveResponse, ApplyPostResponsePlugins,
         PrepareToForwardResponse, ForwardResponse, ResetContext
    <2> QED
      BY <1>0, <1>2, <2>1 DEF Goto, TypeOK
  <1>4. CASE ForwardResponse(s)
    <2>1. cl[s] \notin Senders
      BY <1>0, <1>4 DEF ForwardResponse, ExchangeOK, HasAnswer, InHand, AnswerDue
    <2>2. cstat'[s] # "open" <=> cstat[s] # "open"
      <3>1. PICK x \in AfterSend(cstat[s]) : cstat' = [cstat EXCEPT ![s] = x]
        BY <1>4 DEF ForwardResponse
      <3> QED
        BY <1>0, <3>1 DEF AfterSend, TypeOK
    <2> QED
      BY <1>0, <1>1, <1>3, <2>1, <2>2 DEF ClientOK
  <1>5. CASE ~ForwardResponse(s)
    <2>1. UNCHANGED <<cstat, cout>>
      BY <1>5 DEF TakeAction, PrepareToReceiveRequest, ReceiveRequest, Initiate,
         ApplyPreRequestPlugins, PrepareToForwardRequest, ForwardRequest,
         PrepareToReceiveResponse, ReceiveResponse, ApplyPostResponsePlugins,
         PrepareToForwardResponse, ResetContext, clientVars
    <2> QED
      BY <1>0, <1>1, <1>3, <2>1 DEF ClientOK
  <1> QED
    BY <1>4, <1>5

LEMMA PeersClient ==
    ASSUME IInv, NEW s \in Sessions, Connect(s) \/ Delete(s) \/ Peers(s)
    PROVE  ClientOK(s)'
  <1>0. ClientOK(s) /\ TypeOK
    BY DEF IInv
  <1>1. UNCHANGED <<st, terminated>>
    BY DEF Connect, Delete, Peers, PeersRespond, ClientSend, ClientRead, ClientLeaves,
       ClientSeesEnd, ServerRead, ServerSend, ServerCloses, ServerBreaks
  <1>2. CASE Connect(s) \/ Delete(s)
    <2>1. UNCHANGED <<cstat, cl, cout>> /\ (life'[s] = "deleted" => terminated[s])
      BY <1>0, <1>2 DEF Connect, Delete, clientVars, TypeOK
    <2> QED
      BY <1>0, <1>1, <2>1 DEF ClientOK
  <1>3. CASE ServerRead(s) \/ ServerSend(s) \/ ServerCloses(s) \/ ServerBreaks(s)
    <2>1. UNCHANGED <<cstat, cl, cout, life>>
      BY <1>3 DEF ServerRead, ServerSend, ServerCloses, ServerBreaks, clientVars
    <2> QED
      BY <1>0, <1>1, <2>1 DEF ClientOK
  <1>4. CASE ClientSend(s)
    <2>1. UNCHANGED life /\ cstat[s] = "open"
      BY <1>4 DEF ClientSend
    <2>2. \/ \E next \in {"ssl", "startup", "password", "busy"} : cl' = [cl EXCEPT ![s] = next]
             /\ cstat' = cstat
          \/ cl' = [cl EXCEPT ![s] = "closed"] /\ cstat' = [cstat EXCEPT ![s] = "eof"]
      BY <1>4 DEF ClientSend, Send
    <2>3. cl'[s] \notin Senders /\ (cl'[s] = "closed" <=> cstat'[s] # "open")
      BY <1>0, <2>1, <2>2 DEF Senders, TypeOK
    <2> QED
      BY <1>0, <1>1, <2>1, <2>3 DEF ClientOK
  <1>5. CASE ClientRead(s)
    <2>1. /\ UNCHANGED life /\ cl[s] # "closed"
          /\ cstat' = IF cl'[s] = "closed" THEN [cstat EXCEPT ![s] = "eof"] ELSE cstat
      BY <1>5 DEF ClientRead
    <2>2. cl'[s] = "closed" <=> cstat'[s] # "open"
      BY <1>0, <2>1 DEF ClientOK, TypeOK
    <2>3. cl'[s] \in Senders => cout'[s] = <<>>
      BY <1>5, ClientReadExchange
    <2> QED
      BY <1>0, <1>1, <2>1, <2>2, <2>3 DEF ClientOK
  <1>6. CASE ClientLeaves(s) \/ ClientSeesEnd(s)
    <2>1. UNCHANGED life /\ cl'[s] = "closed" /\ cout'[s] = <<>>
      BY <1>6, ClientGoneExchange DEF ClientLeaves, ClientSeesEnd
    <2>2. st[s] = "NULL" \/ cstat'[s] # "open"
      <3>1. CASE ClientLeaves(s)
        <4>1. PICK x \in {"eof", "reset"} : cstat' = [cstat EXCEPT ![s] = x]
          BY <3>1 DEF ClientLeaves
        <4> QED
          BY <1>0, <4>1 DEF TypeOK
      <3>2. CASE ClientSeesEnd(s)
        BY <1>0, <3>2 DEF ClientSeesEnd, ClientOK
      <3> QED
        BY <1>6, <3>1, <3>2
    <2> QED
      BY <1>0, <1>1, <2>1, <2>2 DEF ClientOK
  <1> QED
    BY <1>2, <1>3, <1>4, <1>5, <1>6 DEF Peers, PeersRespond

\* What EarlyOK reads.
LEMMA EarlyFrame ==
    ASSUME NEW s \in Sessions, EarlyOK(s), ~down,
           UNCHANGED <<initiated[s], cl[s], cin[s], cout[s], resp[s], req[s]>>,
           \/ st'[s] \in {st[s], "PREPARE_TO_RECEIVE_REQUEST", "RECEIVE_REQUEST",
                          "RESET_CONTEXT", "NULL"}
           \/ st[s] = "PREPARE_TO_FORWARD_REQUEST" /\ st'[s] = "FORWARD_REQUEST"
           \/ st[s] = "FORWARD_REQUEST" /\ st'[s] = "PREPARE_TO_RECEIVE_RESPONSE"
           \/ st[s] = "PREPARE_TO_RECEIVE_RESPONSE" /\ st'[s] = "RECEIVE_RESPONSE"
           \/ st[s] = "APPLY_POST_RESPONSE_PLUGINS" /\ st'[s] = "PREPARE_TO_FORWARD_RESPONSE"
           \/ st[s] = "PREPARE_TO_FORWARD_RESPONSE" /\ st'[s] = "FORWARD_RESPONSE"
    PROVE  EarlyOK(s)'
  BY DEF EarlyOK, HasRequest, HasAnswer

LEMMA ReceiveRequestEarly ==
    ASSUME IInv, NEW s \in Sessions, ReceiveRequest(s)
    PROVE  EarlyOK(s)'
  <1>0. EarlyOK(s) /\ BuffersOK(s) /\ TypeOK
    BY DEF IInv
  <1> DEFINE ok == Received(req[s], cin[s], cstat[s])
  <1>1. /\ st[s] = "RECEIVE_REQUEST"
        /\ req' = [req EXCEPT ![s] = req[s] \o cin[s]] /\ cin' = [cin EXCEPT ![s] = <<>>]
        /\ Proceed(s, ok, IF initiated[s] THEN "APPLY_PRE_REQUEST_PLUGINS" ELSE "INITIATE")
        /\ UNCHANGED <<initiated, resp, cout, cl>>
    BY DEF ReceiveRequest
  <1>2. req[s] = <<>> /\ cin[s] \in Seq(Request)
    BY <1>0, <1>1 DEF BuffersOK, TypeOK
  <1>3. req'[s] = cin[s] /\ cin'[s] = <<>>
    BY <1>0, <1>1, <1>2, EmptyIsNeutral DEF TypeOK
  <1>4. st'[s] = IF ok THEN (IF initiated[s] THEN "APPLY_PRE_REQUEST_PLUGINS" ELSE "INITIATE")
                       ELSE "NULL"
    BY <1>0, <1>1 DEF Proceed, Goto, TypeOK
  <1>5. ok => cin[s] # <<>>
    BY <1>2, EmptyIsNeutral DEF Received
  <1> HIDE DEF ok
  <1>6. CASE initiated[s]
    BY <1>1, <1>4, <1>6 DEF EarlyOK
  <1>7. CASE ~initiated[s]
    <2>1. cin[s] # <<>> => Head(cin[s]).kind \in First
      <3>1. cin[s] # <<>> => 1 \in DOMAIN cin[s] /\ Head(cin[s]) = cin[s][1]
        BY <1>2
      <3> QED
        BY <1>0, <1>7, <3>1 DEF EarlyOK
    <2>2. st'[s] = "INITIATE" => Head(req'[s]).kind \in First
      BY <1>3, <1>4, <1>5, <2>1
    <2>3. st'[s] \in {"INITIATE", "NULL"}
      BY <1>4, <1>7
    <2>4. /\ UNCHANGED <<initiated[s], cl[s], cout[s]>>
          /\ \A i \in DOMAIN cin'[s] : cin'[s][i].kind \in First
      BY <1>1, <1>3
    <2> QED
      BY <1>0, <1>7, <2>2, <2>3, <2>4 DEF EarlyOK, HasRequest, HasAnswer
  <1> QED
    BY <1>6, <1>7

\* A startup that names no known role ends the process.
LEMMA InitiateEarly ==
    ASSUME IInv, NEW s \in Sessions, Initiate(s)
    PROVE  EarlyOK(s)'
  <1>0. EarlyOK(s) /\ TypeOK
    BY DEF IInv
  <1> DEFINE kind == Head(req[s]).kind
  <1>1. /\ st[s] = "INITIATE" /\ initiated' = [initiated EXCEPT ![s] = (kind = "startup")]
        /\ down' = (kind = "norole") /\ st' = [st EXCEPT ![s] = "PREPARE_TO_FORWARD_REQUEST"]
        /\ UNCHANGED <<req, resp, cin, cout, cl>>
    BY DEF Initiate, Goto, context, clientVars
  <1>2. ~initiated[s] /\ kind \in First
    BY <1>0, <1>1 DEF EarlyOK
  <1>3. initiated'[s] <=> kind = "startup"
    BY <1>0, <1>1 DEF TypeOK
  <1>4. ~initiated'[s] => down' \/ kind = "ssl"
    BY <1>1, <1>2, <1>3 DEF First
  <1>5. st'[s] = "PREPARE_TO_FORWARD_REQUEST"
    BY <1>0, <1>1 DEF TypeOK
  <1>6. Head(req'[s]).kind = kind
    BY <1>1
  <1> HIDE DEF kind
  <1> QED
    BY <1>0, <1>1, <1>2, <1>4, <1>5, <1>6 DEF EarlyOK, HasRequest, HasAnswer

\* Before the session is initiated, an answer is that to a request for encryption.
LEMMA ReceiveResponseEarly ==
    ASSUME IInv, NEW s \in Sessions, ~down, ReceiveResponse(s)
    PROVE  EarlyOK(s)'
  <1>0. EarlyOK(s) /\ ExchangeOK(s) /\ BuffersOK(s) /\ TypeOK
    BY DEF IInv
  <1> DEFINE data == resp[s] \o sin[s]
  <1>1. /\ st[s] = "RECEIVE_RESPONSE" /\ resp' = [resp EXCEPT ![s] = data]
        /\ UNCHANGED <<initiated, req, cin, cout, cl, down>>
    BY DEF ReceiveResponse, clientVars
  <1>2. st'[s] \in {"APPLY_POST_RESPONSE_PLUGINS", "RECEIVE_RESPONSE", "NULL"}
    BY <1>0 DEF ReceiveResponse, Proceed, Goto, TypeOK
  <1>3. /\ resp[s] \in Seq(Segment) /\ sin[s] \in Seq(Segment) /\ pend[s] \in Seq(Segment)
        /\ req[s] \in Seq(Request) /\ req[s] # <<>> /\ AtServer(s)
    BY <1>0, <1>1 DEF TypeOK, BuffersOK, ExchangeOK
  <1>4. resp'[s] = data /\ data \in Seq(Segment)
    BY <1>0, <1>1, <1>3, ConcatType DEF TypeOK
  <1>5. CASE initiated[s]
    BY <1>1, <1>2, <1>5 DEF EarlyOK
  <1>6. CASE ~initiated[s]
    <2>1. Head(req[s]).kind = "ssl"
      BY <1>0, <1>1, <1>6 DEF EarlyOK, HasRequest
    <2>2. AllOf(data, "N")
      <3>1. CASE resp[s] = <<>> /\ sin[s] = <<>>
        <4>1. data = <<>>
          BY <3>1, EmptyIsNeutral
        <4> QED
          BY <4>1 DEF AllOf
      <3>2. CASE /\ reply[s] \in Replies(Head(req[s]))
                 /\ Begins(resp[s] \o (sin[s] \o pend[s]), reply[s])
        <4>1. Head(req[s]) \in Request
          BY <1>3, HeadType
        <4>2. reply[s] \in Seq(Segment) /\ AllOf(reply[s], "N")
          BY <2>1, <3>2, <4>1, ReplyShape
        <4>3. data \o pend[s] = resp[s] \o (sin[s] \o pend[s])
          <5>1. \A p, q, r \in Seq(Segment) : (p \o q) \o r = p \o (q \o r)
            BY Associative
          <5> QED
            BY <1>3, <5>1, Zenon
        <4> HIDE DEF data
        <4>4. Begins(data, reply[s])
          BY <1>3, <1>4, <3>2, <4>2, <4>3, BeginsConcat
        <4> QED
          BY <1>4, <4>2, <4>4, BeginsKeeps
      <3> QED
        BY <1>3, <3>1, <3>2 DEF AtServer, Quiet
    <2> HIDE DEF data
    <2> QED
      BY <1>0, <1>1, <1>2, <1>4, <1>6, <2>1, <2>2 DEF EarlyOK, HasRequest, HasAnswer
  <1> QED
    BY <1>5, <1>6

LEMMA ForwardResponseEarly ==
    ASSUME IInv, NEW s \in Sessions, ForwardResponse(s)
    PROVE  EarlyOK(s)'
  <1>0. EarlyOK(s) /\ ExchangeOK(s) /\ TypeOK
    BY DEF IInv
  <1>1. /\ st[s] = "FORWARD_RESPONSE" /\ UNCHANGED <<initiated, req, resp, cin, cl>>
        /\ \/ cout' = cout
           \/ cout' = [cout EXCEPT ![s] = cout[s] \o Sent(resp[s], cout[s])]
    BY DEF ForwardResponse
  <1>2. st'[s] \in {"RESET_CONTEXT", "NULL"}
    BY <1>0 DEF ForwardResponse, Proceed, Goto, TypeOK
  <1>3. cout[s] = <<>> /\ resp[s] \in Seq(Segment)
    BY <1>0, <1>1 DEF ExchangeOK, HasAnswer, InHand, AnswerDue, TypeOK
  <1>4. /\ Sent(resp[s], <<>>) \in Seq(Segment) /\ Begins(Sent(resp[s], <<>>), resp[s])
        /\ <<>> \o Sent(resp[s], <<>>) = Sent(resp[s], <<>>)
    BY <1>3, SentBegins, EmptyIsNeutral
  <1>5. cout'[s] \in {cout[s], Sent(resp[s], <<>>)}
    BY <1>0, <1>1, <1>3, <1>4 DEF TypeOK
  <1>6. ~initiated[s] => AllOf(cout'[s], "N")
    <2>1. ~initiated[s] => AllOf(resp[s], "N") /\ AllOf(cout[s], "N")
      BY <1>0, <1>1 DEF EarlyOK, HasAnswer
    <2> QED
      BY <1>3, <1>4, <1>5, <2>1, BeginsKeeps
  <1> QED
    BY <1>0, <1>1, <1>2, <1>6 DEF EarlyOK, HasRequest, HasAnswer

LEMMA ActionEarly ==
    ASSUME IInv, NEW s \in Sessions, ~down, TakeAction(s)
    PROVE  EarlyOK(s)'
  <1>0. EarlyOK(s) /\ TypeOK
    BY DEF IInv
  <1>1. CASE \/ PrepareToReceiveRequest(s) \/ PrepareToForwardRequest(s)
             \/ PrepareToReceiveResponse(s) \/ PrepareToForwardResponse(s)
    <2>1. UNCHANGED <<initiated, cl, cin, cout, resp, req>>
      BY <1>1 DEF PrepareToReceiveRequest, PrepareToForwardRequest,
         PrepareToReceiveResponse, PrepareToForwardResponse, clientVars
    <2>2. \/ st'[s] = "RECEIVE_REQUEST"
          \/ st[s] = "PREPARE_TO_FORWARD_REQUEST" /\ st'[s] = "FORWARD_REQUEST"
          \/ st[s] = "PREPARE_TO_RECEIVE_RESPONSE" /\ st'[s] = "RECEIVE_RESPONSE"
          \/ st[s] = "PREPARE_TO_FORWARD_RESPONSE" /\ st'[s] = "FORWARD_RESPONSE"
      BY <1>0, <1>1 DEF PrepareToReceiveRequest, PrepareToForwardRequest,
         PrepareToReceiveResponse, PrepareToForwardResponse, Goto, TypeOK
    <2> QED
      BY <1>0, <2>1, <2>2, EarlyFrame
  <1>2. CASE ApplyPreRequestPlugins(s)
    <2>1. st[s] = "APPLY_PRE_REQUEST_PLUGINS" /\ UNCHANGED initiated
      BY <1>2 DEF ApplyPreRequestPlugins
    <2>2. st'[s] # "INITIATE"
      BY <1>0, <1>2 DEF ApplyPreRequestPlugins, AfterRefusal, Goto, TypeOK
    <2> QED
      BY <1>0, <2>1, <2>2 DEF EarlyOK
  <1>3. CASE ForwardRequest(s)
    <2>1. UNCHANGED <<initiated, cl, cin, cout, resp, req>> /\ st[s] = "FORWARD_REQUEST"
      BY <1>3 DEF ForwardRequest, clientVars
    <2>2. st'[s] \in {"PREPARE_TO_RECEIVE_RESPONSE", "NULL"}
      BY <1>0, <1>3 DEF ForwardRequest, Proceed, Goto, TypeOK
    <2> QED
      BY <1>0, <2>1, <2>2, EarlyFrame
  <1>4. CASE ApplyPostResponsePlugins(s)
    <2>1. /\ st[s] = "APPLY_POST_RESPONSE_PLUGINS" /\ UNCHANGED <<initiated, cl, cin, cout, req>>
          /\ resp' = resp \/ Head(req[s]).kind = "query"
      BY <1>4 DEF ApplyPostResponsePlugins, clientVars
    <2>2. st'[s] = "PREPARE_TO_FORWARD_RESPONSE"
      BY <1>0, <1>4 DEF ApplyPostResponsePlugins, Goto, TypeOK
    <2>3. CASE initiated[s]
      BY <2>1, <2>2, <2>3 DEF EarlyOK
    <2>4. CASE ~initiated[s]
      <3>1. resp' = resp
        BY <1>0, <2>1, <2>4 DEF EarlyOK, HasAnswer
      <3> QED
        BY <1>0, <2>1, <2>2, <3>1, EarlyFrame
    <2> QED
      BY <2>3, <2>4
  <1>5. CASE ResetContext(s)
    <2>1. UNCHANGED <<initiated, cl, cin, cout>>
      BY <1>5 DEF ResetContext, clientVars
    <2>2. st'[s] = "PREPARE_TO_RECEIVE_REQUEST"
      BY <1>0, <1>5 DEF ResetContext, Goto, TypeOK
    <2> QED
      BY <1>0, <2>1, <2>2 DEF EarlyOK, HasRequest, HasAnswer
  <1> QED
    BY <1>1, <1>2, <1>3, <1>4, <1>5, ReceiveRequestEarly, InitiateEarly, ReceiveResponseEarly,
       ForwardResponseEarly DEF TakeAction

LEMMA PeersEarly ==
    ASSUME IInv, NEW s \in Sessions, ~down, Connect(s) \/ Delete(s) \/ Peers(s)
    PROVE  EarlyOK(s)'
  <1>0. EarlyOK(s) /\ TypeOK
    BY DEF IInv
  <1>1. UNCHANGED <<st, initiated, req, resp>>
    BY DEF Connect, Delete, Peers, PeersRespond, ClientSend, ClientRead, ClientLeaves,
       ClientSeesEnd, ServerRead, ServerSend, ServerCloses, ServerBreaks, context
  <1>2. CASE \/ Connect(s) \/ Delete(s) \/ ServerRead(s) \/ ServerSend(s)
            \/ ServerCloses(s) \/ ServerBreaks(s)
    <2>1. UNCHANGED <<cl, cin, cout>>
      BY <1>2 DEF Connect, Delete, ServerRead, ServerSend, ServerCloses, ServerBreaks, clientVars
    <2> QED
      BY <1>0, <1>1, <2>1, EarlyFrame
  \* Only what the client is and has in its sockets has changed.
  <1>3. ASSUME ~initiated[s] => /\ cl'[s] \notin {"asked", "idle"} /\ AllOf(cout'[s], "N")
                                /\ \A i \in DOMAIN cin'[s] : cin'[s][i].kind \in First
        PROVE  EarlyOK(s)'
    BY <1>0, <1>1, <1>3 DEF EarlyOK
  <1>4. CASE ClientSend(s)
    <2> SUFFICES ASSUME ~initiated[s]
                 PROVE  /\ cl'[s] \notin {"asked", "idle"} /\ AllOf(cout'[s], "N")
                        /\ \A i \in DOMAIN cin'[s] : cin'[s][i].kind \in First
      BY <1>3
    <2>1. cl[s] \notin {"asked", "idle"} /\ cout' = cout
      BY <1>0, <1>4 DEF EarlyOK, ClientSend
    <2>2. PICK kind \in First, next \in {"ssl", "startup"} : Send(s, kind, next)
      BY <1>4, <2>1 DEF ClientSend, First
    <2> DEFINE m == [kind |-> kind, n |-> cn[s] + 1]
    <2>3. cin'[s] = Append(cin[s], m) /\ cl'[s] = next
      BY <1>0, <2>2 DEF Send, TypeOK
    <2>4. m \in Request /\ m.kind \in First /\ cin[s] \in Seq(Request)
      BY <1>0 DEF TypeOK, Request, First
    <2> HIDE DEF m
    <2>5. \A i \in DOMAIN cin'[s] : cin'[s][i] = m \/ (i \in DOMAIN cin[s] /\ cin'[s][i] = cin[s][i])
      BY <2>3, <2>4
    <2> QED
      BY <1>0, <2>1, <2>3, <2>4, <2>5 DEF EarlyOK
  <1>5. CASE ClientRead(s)
    <2> SUFFICES ASSUME ~initiated[s]
                 PROVE  /\ cl'[s] \notin {"asked", "idle"} /\ AllOf(cout'[s], "N")
                        /\ \A i \in DOMAIN cin'[s] : cin'[s][i].kind \in First
      BY <1>3
    <2>1. /\ cout[s] # <<>> /\ cout[s] \in Seq(Segment) /\ cout'[s] = Tail(cout[s])
          /\ cl'[s] = ClientAfter(cl[s], Head(cout[s]).kind) /\ cin' = cin
      BY <1>0, <1>5 DEF ClientRead, TypeOK
    <2>2. /\ Head(cout[s]) = cout[s][1] /\ 1 \in DOMAIN cout[s]
          /\ \A i \in DOMAIN Tail(cout[s]) : i + 1 \in DOMAIN cout[s]
                                             /\ Tail(cout[s])[i] = cout[s][i + 1]
      BY <2>1
    <2>3. Head(cout[s]).kind = "N" /\ AllOf(Tail(cout[s]), "N")
      BY <1>0, <2>2 DEF EarlyOK, AllOf
    <2>4. cl'[s] = "declined"
      BY <2>1, <2>3 DEF ClientAfter
    <2> QED
      BY <1>0, <2>1, <2>3, <2>4 DEF EarlyOK
  <1>6. CASE ClientLeaves(s) \/ ClientSeesEnd(s)
    <2>1. cl'[s] = "closed" /\ cout'[s] = <<>> /\ cin' = cin
      BY <1>6, ClientGoneExchange DEF ClientLeaves, ClientSeesEnd
    <2>2. AllOf(cout'[s], "N")
      BY <2>1 DEF AllOf
    <2> QED
      BY <1>0, <1>3, <2>1, <2>2 DEF EarlyOK
  <1> QED
    BY <1>2, <1>4, <1>5, <1>6 DEF Peers, PeersRespond

\* Where the session's own exchange is after a step.
LEMMA ActionExchange ==
    ASSUME IInv, NEW s \in Sessions, ~down, waiting[s] => Ready(s), TakeAction(s)
    PROVE  ExchangeOK(s)' /\ LastEnds(reply[s])'
  <1>1. UNCHANGED reply
    BY DEF TakeAction, PrepareToReceiveRequest, ReceiveRequest, Initiate, ApplyPreRequestPlugins,
       PrepareToForwardRequest, ForwardRequest, PrepareToReceiveResponse, ReceiveResponse,
       ApplyPostResponsePlugins, PrepareToForwardResponse, ForwardResponse, ResetContext, serverVars
  <1>2. LastEnds(reply[s])'
    BY <1>1 DEF IInv
  <1> QED
    BY <1>2, QuietExchange, ReceiveRequestExchange, PreRequestExchange, ForwardRequestExchange,
       ReceiveResponseExchange, PostResponseExchange, ForwardResponseExchange,
       ResetContextExchange DEF TakeAction

LEMMA OthersExchange ==
    ASSUME IInv, NEW s \in Sessions, Connect(s) \/ Delete(s) \/ Peers(s)
    PROVE  ExchangeOK(s)' /\ LastEnds(reply[s])'
  <1>1. CASE ServerRead(s)
    BY <1>1, ServerReadExchange
  <1>2. CASE ~ServerRead(s)
    <2>1. UNCHANGED reply
      BY <1>2 DEF Connect, Delete, Peers, PeersRespond, ClientSend, ClientRead, ClientLeaves,
         ClientSeesEnd, ServerSend, ServerCloses, ServerBreaks, serverVars
    <2>2. LastEnds(reply[s])'
      BY <2>1 DEF IInv
    <2> QED
      BY <1>2, <2>2, QuietExchange, ClientSendExchange, ClientReadExchange, ClientGoneExchange,
         ServerSendsExchange DEF Peers, PeersRespond
  <1> QED
    BY <1>1, <1>2

(* A step of one session leaves the exchanges of the others where they are *)

LEMMA OthersElsewhere ==
    ASSUME TypeOK, NEW s \in Sessions, NEW t \in Sessions, t # s,
           TakeAction(s) \/ Connect(s) \/ Delete(s) \/ Peers(s)
    PROVE  /\ UNCHANGED <<cout[t], cl[t], got[t], life[t], initiated[t]>>
           /\ UNCHANGED <<sin[t], pend[t], reply[t]>>
  <1> USE DEF context, clientVars, serverVars
  <1>1. CASE TakeAction(s)
    <2>1. /\ cout' = cout \/ \E x : cout' = [cout EXCEPT ![s] = x]
          /\ sin' = sin \/ \E x : sin' = [sin EXCEPT ![s] = x]
          /\ initiated' = initiated \/ \E x : initiated' = [initiated EXCEPT ![s] = x]
          /\ UNCHANGED <<cl, got, life, pend, reply>>
      BY <1>1 DEF TakeAction, PrepareToReceiveRequest, ReceiveRequest, Initiate,
         ApplyPreRequestPlugins, PrepareToForwardRequest, ForwardRequest,
         PrepareToReceiveResponse, ReceiveResponse, ApplyPostResponsePlugins,
         PrepareToForwardResponse, ForwardResponse, ResetContext
    <2> QED
      BY <2>1 DEF TypeOK
  <1>2. CASE Connect(s) \/ Delete(s)
    <2>1. /\ \E x : life' = [life EXCEPT ![s] = x]
          /\ UNCHANGED <<cout, cl, got, initiated, sin, pend, reply>>
      BY <1>2 DEF Connect, Delete
    <2> QED
      BY <2>1 DEF TypeOK
  <1>3. CASE ClientSend(s) \/ ClientRead(s) \/ ClientLeaves(s) \/ ClientSeesEnd(s)
    <2>1. /\ cout' = cout \/ \E x : cout' = [cout EXCEPT ![s] = x]
          /\ \E x : cl' = [cl EXCEPT ![s] = x]
          /\ got' = got \/ \E x : got' = [got EXCEPT ![s] = x]
          /\ UNCHANGED <<life, initiated, sin, pend, reply>>
      BY <1>3 DEF ClientSend, Send, ClientRead, ClientLeaves, ClientSeesEnd
    <2> QED
      BY <2>1 DEF TypeOK
  <1>4. CASE ServerRead(s) \/ ServerSend(s) \/ ServerCloses(s) \/ ServerBreaks(s)
    <2>1. /\ sin' = sin \/ \E x : sin' = [sin EXCEPT ![s] = x]
          /\ pend' = pend \/ \E x : pend' = [pend EXCEPT ![s] = x]
          /\ reply' = reply \/ \E x : reply' = [reply EXCEPT ![s] = x]
          /\ UNCHANGED <<cout, cl, got, life, initiated>>
      BY <1>4 DEF ServerRead, ServerSend, ServerCloses, ServerBreaks
    <2> QED
      BY <2>1 DEF TypeOK
  <1> QED
    BY <1>1, <1>2, <1>3, <1>4 DEF Peers, PeersRespond

LEMMA OthersExchangeKept ==
    ASSUME IInv, NEW s \in Sessions, NEW t \in Sessions, t # s, ~down,
           TakeAction(s) \/ Connect(s) \/ Delete(s) \/ Peers(s)
    PROVE  ExchangeOK(t)' /\ ClientOK(t)' /\ EarlyOK(t)' /\ LastEnds(reply[t])'
  <1>1. ExchangeOK(t) /\ ClientOK(t) /\ EarlyOK(t) /\ LastEnds(reply[t]) /\ TypeOK
    BY DEF IInv
  <1>2. /\ UNCHANGED <<st[t], req[t], resp[t], terminated[t], cin[t], cstat[t], sout[t], cn[t]>>
        /\ UNCHANGED <<cout[t], cl[t], got[t], life[t], initiated[t], sin[t], pend[t], reply[t]>>
    BY <1>1, OthersUntouched, OthersElsewhere
  <1>3. ExchangeOK(t)'
    BY <1>1, <1>2, SameLeg DEF Exchange, AtPeer
  <1>4. ClientOK(t)'
    BY <1>1, <1>2 DEF ClientOK
  <1>5. EarlyOK(t)'
    BY <1>1, <1>2, EarlyFrame
  <1> QED
    BY <1>1, <1>2, <1>3, <1>4, <1>5

(* Theorems *)

LEMMA InitInv == Init => IInv
  <1> SUFFICES ASSUME Init PROVE IInv
    OBVIOUS
  <1>1. NoEvent \in Events /\ <<>> \in Seq(Request) /\ <<>> \in Seq(Segment) /\ <<>> \in Seq(Nat)
    BY DEF Events
  <1>2. TypeOK
    BY <1>1 DEF Init, TypeOK, States, Statuses
  <1>3. ASSUME NEW s \in Sessions
        PROVE  /\ BuffersOK(s) /\ WaitOK(s) /\ OrderOK(s)
               /\ ExchangeOK(s) /\ ClientOK(s) /\ EarlyOK(s) /\ LastEnds(reply[s])
    <2>1. /\ st[s] = "PREPARE_TO_RECEIVE_REQUEST" /\ ~terminated[s]
          /\ req[s] = <<>> /\ cin[s] = <<>> /\ sout[s] = <<>> /\ seen[s] = <<>> /\ refused[s] = {}
      BY DEF Init
    <2>2. BuffersOK(s)
      BY <2>1 DEF BuffersOK, HasRequest, HasAnswer
    <2>3. WaitOK(s)
      BY <2>1, WaitSplit DEF Waits, EndsFor
    <2>4. SeenBy(s) = {} /\ Past(s) = {} /\ Fresh(s) = {}
      BY <2>1, NumbersEmpty DEF SeenBy, Past, Fresh, HasRequest
    <2>5. OrderOK(s)
      BY <2>1, <2>4, NumbersEmpty DEF OrderOK, Below, HasRequest
    <2>6. /\ resp[s] = <<>> /\ sin[s] = <<>> /\ pend[s] = <<>> /\ cout[s] = <<>>
          /\ got[s] = <<>> /\ reply[s] = <<>> /\ cl[s] = "new" /\ cstat[s] = "open"
          /\ life[s] = "new" /\ ~initiated[s]
      BY DEF Init
    <2>7. LastEnds(reply[s]) /\ Numbered(cout[s], cn[s]) /\ AllOf(cout[s], "N")
      BY <2>6 DEF LastEnds, Numbered, AllOf
    <2>8. Answered(s)
      <3>1. Begins(got[s] \o cout[s], reply[s])
        BY <2>6, <1>1, EmptyIsNeutral, BeginsItself
      <3> QED
        BY <2>1, <2>6, <2>7, <3>1 DEF Answered, Quiet
    <2>9. ExchangeOK(s)
      BY <2>1, <2>6, <2>8 DEF ExchangeOK, HasRequest, HasAnswer
    <2>10. ClientOK(s)
      BY <2>1, <2>6 DEF ClientOK
    <2>11. EarlyOK(s)
      <3>1. \A i \in DOMAIN cin[s] : cin[s][i].kind \in First
        BY <2>1
      <3> QED
        BY <2>1, <2>6, <2>7, <3>1 DEF EarlyOK, HasRequest, HasAnswer
    <2> QED
      BY <2>2, <2>3, <2>5, <2>7, <2>9, <2>10, <2>11
  <1> QED
    BY <1>2, <1>3 DEF IInv

LEMMA StepInv ==
    ASSUME IInv, ~down, NEW s \in Sessions, Connect(s) \/ Step(s) \/ Delete(s) \/ Peers(s)
    PROVE  IInv'
  <1>1. CASE Step(s)
    <2>1. /\ life[s] = "live" /\ ~terminated[s] /\ (waiting[s] => Ready(s))
          /\ TakeAction(s)
      BY <1>1 DEF Step
    <2>2. OrderOK(s)'
      BY <2>1, QuietActions, ReceiveRequestOrder, RefusalOrder, ForwardRequestOrder
      DEF TakeAction
    <2>3. BuffersOK(s)' /\ WaitOK(s)' /\ ExchangeOK(s)' /\ ClientOK(s)' /\ EarlyOK(s)'
          /\ LastEnds(reply[s])'
      BY <2>1, BuffersKept, ActionWaits, ActionExchange, ActionClient, ActionEarly
    <2> QED
      BY <2>1, <2>2, <2>3, ActionTypes, OthersKept, OthersExchangeKept DEF IInv
  <1>2. CASE Connect(s) \/ Delete(s) \/ Peers(s)
    <2>1. OrderOK(s)'
      BY <1>2, QuietActions, ClientSendOrder, ServerReadOrder DEF Peers, PeersRespond
    <2>2. BuffersOK(s)' /\ WaitOK(s)' /\ ExchangeOK(s)' /\ ClientOK(s)' /\ EarlyOK(s)'
          /\ LastEnds(reply[s])'
      BY <1>2, BuffersKept, OthersWait, OthersExchange, PeersClient, PeersEarly
    <2> QED
      BY <1>2, <2>1, <2>2, OthersTypes, OthersKept, OthersExchangeKept DEF IInv
  <1> QED
    BY <1>1, <1>2

LEMMA NextInv == IInv /\ [Next]_vars => IInv'
  <1> SUFFICES ASSUME IInv, [Next]_vars PROVE IInv'
    OBVIOUS
  <1>1. CASE ~down /\ \E s \in Sessions : Connect(s) \/ Step(s) \/ Delete(s) \/ Peers(s)
    BY <1>1, StepInv
  <1>2. CASE UNCHANGED vars
    <2>1. TypeOK'
      BY <1>2 DEF IInv, TypeOK, vars, context, clientVars, serverVars
    <2>2. ASSUME NEW s \in Sessions
          PROVE  /\ BuffersOK(s)' /\ WaitOK(s)' /\ OrderOK(s)'
                 /\ ExchangeOK(s)' /\ ClientOK(s)' /\ EarlyOK(s)' /\ LastEnds(reply[s])'
      <3>0. /\ BuffersOK(s) /\ WaitOK(s) /\ OrderOK(s)
            /\ ExchangeOK(s) /\ ClientOK(s) /\ EarlyOK(s) /\ LastEnds(reply[s])
        BY DEF IInv
      <3>1. UNCHANGED <<st, req, resp, waiting, ev, terminated, cin, cstat, sstat, sout, cn,
                        seen, refused>>
        BY <1>2 DEF vars, context, clientVars, serverVars
      <3>2. BuffersOK(s)'
        BY <3>0, <3>1 DEF BuffersOK
      <3>3. WaitOK(s)'
        BY <3>0, <3>1 DEF WaitOK
      <3>4. OrderOK(s)'
        BY <3>0, <3>1 DEF OrderOK, Past, Fresh, SeenBy
      <3>5. UNCHANGED <<life, cl, cout, got, initiated, sin, pend, reply, down>>
        BY <1>2 DEF vars, clientVars, serverVars
      <3>6. ExchangeOK(s)'
        BY <3>0, <3>1, <3>5, SameLeg DEF Exchange, AtPeer
      <3>7. ClientOK(s)'
        BY <3>0, <3>1, <3>5 DEF ClientOK
      <3>8. EarlyOK(s)'
        BY <3>0, <3>1, <3>5 DEF EarlyOK
      <3> QED
        BY <3>0, <3>2, <3>3, <3>4, <3>5, <3>6, <3>7, <3>8
    <2> QED
      BY <2>1, <2>2 DEF IInv
  <1> QED
    BY <1>1, <1>2 DEF Next

\* The inductive invariant: types, a buffer with data in every state that reads it,
\* a socket waited for in every state that uses one, requests in the client's order
\* along their whole way, and where in an exchange each of the twelve states is.
THEOREM Invariance == Spec => []IInv
  BY InitInv, NextInv, PTL DEF Spec

\* The types, of Context, the sockets and the peers.
THEOREM TypeCorrect == Spec => []TypeOK
  <1>1. IInv => TypeOK
    BY DEF IInv
  <1> QED
    BY <1>1, Invariance, PTL

\* A session ends only in a state that used a socket whose peer is gone, and epoll
\* reports that socket for as long as it exists: SessionOperator::Work finds it.
THEOREM EndedIsFound == Spec => []EndedIsReported
  <1>1. IInv => EndedIsReported
    BY WaitSplit DEF IInv, EndsFor, EndedIsReported, Ready
  <1> QED
    BY <1>1, Invariance, PTL

\* No request reaches the server twice or out of the client's order, through any
\* number of exchanges, refusals and endings.
THEOREM RequestsInOrder == Spec => []RequestsOnceInOrder
  <1>1. IInv => RequestsOnceInOrder
    BY DEF IInv, OrderOK, RequestsOnceInOrder
  <1> QED
    BY <1>1, Invariance, PTL

\* What a plugin refused is neither underway to the server nor known to it, then
\* and ever after.
THEOREM RefusedStays == Spec => []RefusedNeverForwarded
  <1>1. IInv => RefusedNeverForwarded
    <2> SUFFICES ASSUME IInv, NEW s \in Sessions
                 PROVE  /\ \A i \in DOMAIN seen[s] : seen[s][i] \notin refused[s]
                        /\ \A i \in DOMAIN sout[s] : sout[s][i].n \notin refused[s]
      BY DEF RefusedNeverForwarded
    <2>1. refused[s] \cap (SeenBy(s) \cup Numbers(sout[s])) = {}
      BY DEF IInv, OrderOK
    <2> QED
      BY <2>1 DEF SeenBy, Numbers
  <1> QED
    BY <1>1, Invariance, PTL

\* The states in which the client may send, or has something to read.
LEMMA ClientSide ==
    ASSUME IInv, NEW s \in Sessions
    PROVE  /\ Numbered(cout[s], cn[s])
           /\ cl[s] \in Senders => Answered(s)
  <1>1. ExchangeOK(s) /\ st[s] \in States
    BY DEF IInv, TypeOK
  <1>2. Answered(s) => Numbered(cout[s], cn[s])
    BY DEF Answered
  <1>3. AnswerDue(s) => Numbered(cout[s], cn[s]) /\ cl[s] \notin Senders
    BY DEF AnswerDue, Numbered
  <1>4. InHand(s) \/ Underway(s) => AnswerDue(s)
    BY DEF InHand, Underway
  <1> QED
    BY <1>1, <1>2, <1>3, <1>4 DEF ExchangeOK, States, HasRequest, HasAnswer

\* Whatever was refused, replaced, cut short or split before, a client finds in its
\* socket answers to its last message only.
THEOREM AnswersAreOwn == Spec => []OwnAnswersOnly
  <1>1. IInv => OwnAnswersOnly
    BY ClientSide DEF OwnAnswersOnly, Numbered
  <1> QED
    BY <1>1, Invariance, PTL

\* A client goes idle on the whole of one answer, the server's or the proxy's own.
THEOREM AnswersAreComplete == Spec => []AnswersComplete
  <1>1. IInv => AnswersComplete
    <2> SUFFICES ASSUME IInv, NEW s \in Sessions, cl[s] = "idle"
                 PROVE  got[s] \in {reply[s], <<[kind |-> "PE", n |-> cn[s]]>>}
      BY DEF AnswersComplete
    <2> QED
      BY ClientSide DEF Senders, Answered, OwnError
  <1> QED
    BY <1>1, Invariance, PTL

\* Between two exchanges the buffers are empty, and nothing is underway between the
\* session and its server unless the end of an authentication was split.
THEOREM NothingIsLeft == Spec => []NothingLeftBehind
  <1>1. IInv => NothingLeftBehind
    <2> SUFFICES ASSUME IInv, NEW s \in Sessions, ~AuthenticationSplit(s),
                        st[s] \in {"PREPARE_TO_RECEIVE_REQUEST", "RECEIVE_REQUEST"}
                 PROVE  /\ req[s] = <<>> /\ resp[s] = <<>>
                        /\ sin[s] = <<>> /\ sout[s] = <<>> /\ pend[s] = <<>>
      BY DEF NothingLeftBehind
    <2>1. req[s] = <<>> /\ resp[s] = <<>> /\ (Answered(s) \/ Underway(s))
      BY DEF IInv, BuffersOK, ExchangeOK
    <2> QED
      BY <2>1 DEF Answered, Underway, Quiet
  <1> QED
    BY <1>1, Invariance, PTL

\* What ForwardResponse has put into the client's socket is the beginning of the
\* answer, as much of it as the socket has room for.
THEOREM ForwardedFromTheStart == Spec => []ResponseForwardedWhole
  <1>1. IInv => ResponseForwardedWhole
    <2> SUFFICES ASSUME IInv, NEW s \in Sessions, st[s] = "RESET_CONTEXT", cstat[s] = "open",
                        cn[s] = Head(req[s]).n
                 PROVE  got[s] \o cout[s] = IF Len(resp[s]) <= SocketRoom THEN resp[s]
                                            ELSE SubSeq(resp[s], 1, SocketRoom)
      BY DEF ResponseForwardedWhole
    <2>1. ExchangeOK(s) /\ ClientOK(s) /\ cn[s] \in Nat
      BY DEF IInv, TypeOK
    <2>2. cl[s] # "closed"
      BY <2>1 DEF ClientOK
    <2>3. ~(Head(req[s]).n < cn[s])
      BY <2>1
    <2>4. got[s] \o cout[s] = Sent(resp[s], <<>>)
      BY <2>1, <2>2, <2>3 DEF ExchangeOK
    <2>5. SocketRoom - Len(<<>>) = SocketRoom
      BY BoundsAssumption
    <2> QED
      BY <2>4, <2>5 DEF Sent
  <1> QED
    BY <1>1, Invariance, PTL

-----------------------------------------------------------------------------
(* Whose turn it is: an exchange never stops with everybody waiting *)

\* How an answer of the server ends, and by what the session finds it complete.
LEMMA ReplyEnds ==
    ASSUME NEW r \in Request, NEW k \in Answers(r.kind), NEW a, a = Tokens(k, r.n)
    PROVE  /\ EndsWell(a)
           /\ a = <<>> \/ Head(a).kind = "E" => k \in {<<>>, <<"E">>}
           /\ a # <<>> /\ Head(a).kind # "E" /\ r.kind # "ssl" =>
                Head(a).kind \in {"R", "OK", "OKZ"} \/ a[Len(a)].kind \in {"OKZ", "Z"}
  <1>1. \/ k = <<>> /\ r.kind # "ssl"
        \/ k = <<"N">> /\ r.kind = "ssl"
        \/ k \in {<<"R">>, <<"OKZ">>, <<"OK", "Z">>} /\ r.kind \in {"startup", "password"}
        \/ k = <<"E">> /\ r.kind # "ssl"
        \/ k \in {<<"Z">>, <<"D", "Z">>, <<"D", "D", "Z">>} /\ r.kind = "query"
    BY DEF Answers, Authenticated
  <1>2. CASE k = <<>>
    <2>1. a = <<>>
      BY <1>2 DEF Tokens
    <2> QED
      BY <1>2, <2>1 DEF EndsWell
  <1>3. CASE k \in {<<"N">>, <<"R">>, <<"OKZ">>, <<"E">>, <<"Z">>}
    <2>1. PICK x \in {"N", "R", "OKZ", "E", "Z"} : k = <<x>> /\ (x = "N" => r.kind = "ssl")
      BY <1>1, <1>3
    <2>2. a = <<[kind |-> x, n |-> r.n]>>
      BY <2>1 DEF Tokens
    <2>3. a # <<>> /\ Len(a) = 1 /\ a[1].kind = x /\ Head(a) = a[1]
      BY <2>2
    <2>4. EndsWell(a)
      BY <2>1, <2>3 DEF EndsWell, Ending
    <2> QED
      BY <2>1, <2>3, <2>4
  <1>4. CASE k \in {<<"OK", "Z">>, <<"D", "Z">>}
    <2>1. PICK x \in {"OK", "D"} : k = <<x, "Z">>
      BY <1>4
    <2>2. a = <<[kind |-> x, n |-> r.n], [kind |-> "Z", n |-> r.n]>>
      BY <2>1 DEF Tokens
    <2>3. a # <<>> /\ Len(a) = 2 /\ a[2].kind = "Z" /\ Head(a).kind = x
      BY <2>2
    <2> QED
      BY <2>1, <2>3 DEF EndsWell, Ending
  <1>5. CASE k = <<"D", "D", "Z">>
    <2>1. a = <<[kind |-> "D", n |-> r.n], [kind |-> "D", n |-> r.n], [kind |-> "Z", n |-> r.n]>>
      BY <1>5 DEF Tokens
    <2>2. a # <<>> /\ Len(a) = 3 /\ a[3].kind = "Z" /\ Head(a).kind = "D"
      BY <2>1
    <2> QED
      BY <2>2 DEF EndsWell, Ending
  <1> QED
    BY <1>1, <1>2, <1>3, <1>4, <1>5

\* A session waits only in the four states that use a socket.
LEMMA ActionUses ==
    ASSUME TypeOK, NEW s \in Sessions, ~terminated[s],
           waiting[s] => terminated[s] \/ st[s] \in UsesSocket, TakeAction(s)
    PROVE  waiting'[s] => terminated'[s] \/ st'[s] \in UsesSocket
  <1> USE DEF UsesSocket
  <1>1. CASE \/ PrepareToReceiveRequest(s) \/ PrepareToForwardRequest(s)
             \/ PrepareToReceiveResponse(s) \/ PrepareToForwardResponse(s)
    BY <1>1 DEF PrepareToReceiveRequest, PrepareToForwardRequest, PrepareToReceiveResponse,
       PrepareToForwardResponse, Goto, TypeOK
  <1>2. CASE Initiate(s) \/ ApplyPreRequestPlugins(s) \/ ApplyPostResponsePlugins(s)
    BY <1>2 DEF Initiate, ApplyPreRequestPlugins, ApplyPostResponsePlugins, context
  <1>3. CASE ReceiveRequest(s) \/ ForwardRequest(s) \/ ForwardResponse(s)
    BY <1>3 DEF ReceiveRequest, ForwardRequest, ForwardResponse, Proceed, Goto, TypeOK
  <1>4. CASE ReceiveResponse(s)
    BY <1>4 DEF ReceiveResponse, Proceed, Goto, TypeOK
  <1>5. CASE ResetContext(s)
    BY <1>5 DEF ResetContext, Reset, TypeOK
  <1> QED
    BY <1>1, <1>2, <1>3, <1>4, <1>5 DEF TakeAction

\* The message that initiates a session is in its buffer, and the client waits.
LEMMA ActionLate ==
    ASSUME IInv, NEW s \in Sessions, LateOK(s), TakeAction(s)
    PROVE  LateOK(s)'
  <1>0. BuffersOK(s) /\ ExchangeOK(s) /\ TypeOK
    BY DEF IInv
  <1>1. UNCHANGED cl
    BY DEF TakeAction, PrepareToReceiveRequest, ReceiveRequest, Initiate, ApplyPreRequestPlugins,
       PrepareToForwardRequest, ForwardRequest, PrepareToReceiveResponse, ReceiveResponse,
       ApplyPostResponsePlugins, PrepareToForwardResponse, ForwardResponse, ResetContext, clientVars
  <1>2. CASE ReceiveRequest(s)
    <2>1. /\ req'[s] = req[s] \o cin[s] /\ cin'[s] = <<>> /\ initiated' = initiated
          /\ req[s] = <<>>
          /\ st'[s] # "NULL" => Received(req[s], cin[s], cstat[s])
          /\ cin[s] \in Seq(Request)
      BY <1>0, <1>2 DEF ReceiveRequest, Proceed, Goto, BuffersOK, TypeOK
    <2>2. req'[s] = cin[s]
      BY <2>1, EmptyIsNeutral
    <2>3. st'[s] # "NULL" => cin[s] # <<>> /\ Head(cin[s]) = cin[s][1] /\ 1 \in DOMAIN cin[s]
      <3>1. st'[s] # "NULL" => cin[s] # <<>>
        BY <2>1, <2>2 DEF Received
      <3> QED
        BY <2>1, <3>1
    <2> QED
      BY <1>1, <2>1, <2>2, <2>3 DEF LateOK, HasRequest
  <1>3. CASE Initiate(s)
    <2>1. /\ initiated' = [initiated EXCEPT ![s] = Head(req[s]).kind = "startup"]
          /\ UNCHANGED <<req, cin>> /\ st[s] = "INITIATE"
      BY <1>3 DEF Initiate, context, clientVars
    <2>2. cin[s] = <<>> /\ cl[s] # "new"
      BY <1>0, <2>1 DEF ExchangeOK, InHand, AnswerDue, Senders, HasRequest
    <2>3. initiated'[s] => Head(req'[s]).kind = "startup"
      BY <1>0, <2>1 DEF TypeOK
    <2> QED
      BY <1>1, <2>1, <2>2, <2>3 DEF LateOK
  <1>4. CASE ~ReceiveRequest(s) /\ ~Initiate(s)
    <2>1. /\ UNCHANGED <<cin, initiated>>
          /\ st'[s] \in HasRequest \cup {"PREPARE_TO_RECEIVE_RESPONSE", "RECEIVE_RESPONSE"} =>
               /\ st[s] \in HasRequest \cup {"PREPARE_TO_RECEIVE_RESPONSE", "RECEIVE_RESPONSE"}
               /\ req'[s] = req[s]
      <3> USE DEF HasRequest
      <3>1. CASE \/ PrepareToReceiveRequest(s) \/ PrepareToForwardRequest(s)
                 \/ PrepareToReceiveResponse(s) \/ PrepareToForwardResponse(s)
        BY <1>0, <3>1 DEF PrepareToReceiveRequest, PrepareToForwardRequest,
           PrepareToReceiveResponse, PrepareToForwardResponse, Goto, TypeOK, clientVars
      <3>2. CASE ApplyPreRequestPlugins(s) \/ ApplyPostResponsePlugins(s)
        BY <1>0, <3>2 DEF ApplyPreRequestPlugins, ApplyPostResponsePlugins, AfterRefusal, Goto,
           TypeOK, clientVars
      <3>3. CASE ForwardRequest(s) \/ ReceiveResponse(s) \/ ForwardResponse(s)
        BY <1>0, <3>3 DEF ForwardRequest, ReceiveResponse, ForwardResponse, Proceed, Goto,
           TypeOK, clientVars
      <3>4. CASE ResetContext(s)
        BY <1>0, <3>4 DEF ResetContext, Goto, TypeOK, clientVars
      <3> QED
        BY <1>4, <3>1, <3>2, <3>3, <3>4 DEF TakeAction
    <2> QED
      BY <1>1, <2>1 DEF LateOK
  <1> QED
    BY <1>2, <1>3, <1>4

LEMMA OthersLate ==
    ASSUME IInv, NEW s \in Sessions, LateOK(s), Connect(s) \/ Delete(s) \/ Peers(s)
    PROVE  LateOK(s)'
  <1>0. TypeOK /\ cin[s] \in Seq(Request)
    BY TypeFacts DEF IInv
  <1>1. UNCHANGED <<st, req, initiated>>
    BY DEF Connect, Delete, Peers, PeersRespond, ClientSend, ClientRead, ClientLeaves,
       ClientSeesEnd, ServerRead, ServerSend, ServerCloses, ServerBreaks, context
  <1>2. CASE ClientSend(s)
    <2>1. PICK kind \in {"ssl", "startup", "norole", "password", "query", "terminate"},
               next \in {"ssl", "startup", "password", "busy", "closed"} :
            Send(s, kind, next) /\ (kind = "ssl" => cl[s] = "new")
      BY <1>2 DEF ClientSend
    <2>2. cin'[s] = Append(cin[s], [kind |-> kind, n |-> cn[s] + 1]) /\ cl'[s] # "new"
      BY <1>0, <2>1 DEF Send, TypeOK
    <2>3. \A i \in DOMAIN cin'[s] : \/ i \in DOMAIN cin[s] /\ cin'[s][i] = cin[s][i]
                                    \/ cin'[s][i].kind = kind
      BY <1>0, <2>2
    <2> QED
      BY <1>1, <2>1, <2>2, <2>3 DEF LateOK
  <1>3. CASE ClientRead(s) \/ ClientLeaves(s) \/ ClientSeesEnd(s)
    <2>1. UNCHANGED cin /\ (cl'[s] = "new" => cl[s] = "new")
      BY <1>0, <1>3 DEF ClientRead, ClientLeaves, ClientSeesEnd, ClientAfter, TypeOK
    <2> QED
      BY <1>1, <2>1 DEF LateOK
  <1>4. CASE \/ Connect(s) \/ Delete(s) \/ ServerRead(s) \/ ServerSend(s)
            \/ ServerCloses(s) \/ ServerBreaks(s)
    <2>1. UNCHANGED <<cin, cl>>
      BY <1>4 DEF Connect, Delete, ServerRead, ServerSend, ServerCloses, ServerBreaks, clientVars
    <2> QED
      BY <1>1, <2>1 DEF LateOK
  <1> QED
    BY <1>2, <1>3, <1>4 DEF Peers, PeersRespond

\* What is on its way from the server is all there, read or not, until it is complete.
LEMMA ActionServed ==
    ASSUME IInv, NEW s \in Sessions, ServedOK(s), TakeAction(s)
    PROVE  ServedOK(s)'
  <1>0. BuffersOK(s) /\ ExchangeOK(s) /\ TypeOK
    BY DEF IInv
  <1>1. UNCHANGED <<pend, reply, closing>>
    BY DEF TakeAction, PrepareToReceiveRequest, ReceiveRequest, Initiate, ApplyPreRequestPlugins,
       PrepareToForwardRequest, ForwardRequest, PrepareToReceiveResponse, ReceiveResponse,
       ApplyPostResponsePlugins, PrepareToForwardResponse, ForwardResponse, ResetContext, serverVars
  <1>2. CASE ForwardRequest(s)
    <2>1. /\ st[s] = "FORWARD_REQUEST" /\ resp' = resp
          /\ st'[s] \in {"PREPARE_TO_RECEIVE_RESPONSE", "NULL"}
          /\ sstat'[s] = "open" => sout'[s] = sout[s] \o req[s]
      <3>1. PICK x \in AfterSend(sstat[s]) : sstat' = [sstat EXCEPT ![s] = x]
        BY <1>2 DEF ForwardRequest
      <3>2. sstat'[s] = "open" => sstat[s] = "open"
        BY <1>0, <3>1 DEF AfterSend, TypeOK
      <3> QED
        BY <1>0, <1>2, <3>2 DEF ForwardRequest, Proceed, Goto, TypeOK
    <2>2. /\ req[s] # <<>> /\ sout[s] = <<>> /\ resp[s] = <<>>
          /\ req[s] \in Seq(Request)
      BY <1>0, <2>1, TypeFacts DEF BuffersOK, ExchangeOK, Quiet, HasRequest
    <2>3. sstat'[s] = "open" => sout'[s] # <<>>
      BY <2>1, <2>2, EmptyIsNeutral
    <2> QED
      BY <2>1, <2>2, <2>3 DEF ServedOK
  <1>3. CASE PrepareToReceiveResponse(s)
    <2>1. /\ st[s] = "PREPARE_TO_RECEIVE_RESPONSE" /\ st'[s] = "RECEIVE_RESPONSE"
          /\ UNCHANGED <<resp, sin, sout, sstat>>
      BY <1>0, <1>3 DEF PrepareToReceiveResponse, Goto, serverVars, TypeOK
    <2> QED
      BY <1>1, <2>1 DEF ServedOK
  <1>4. CASE ReceiveResponse(s)
    <2> DEFINE data == resp[s] \o sin[s]
               ok   == Received(resp[s], sin[s], sstat[s])
    <2>0. /\ st[s] = "RECEIVE_RESPONSE" /\ UNCHANGED <<initiated, sout, sstat>>
          /\ resp' = [resp EXCEPT ![s] = data] /\ sin' = [sin EXCEPT ![s] = <<>>]
          /\ \/ ~ReadyForQuery(s, data) /\ Goto(s, "RECEIVE_RESPONSE")
             \/ Goto(s, IF ok THEN "APPLY_POST_RESPONSE_PLUGINS" ELSE "NULL")
      BY <1>4, ZenonT(30) DEF ReceiveResponse, Proceed
    <2>1. /\ resp'[s] = data /\ sin'[s] = <<>>
          /\ st'[s] \in {"RECEIVE_RESPONSE", "APPLY_POST_RESPONSE_PLUGINS", "NULL"}
          /\ st'[s] = "RECEIVE_RESPONSE" => ~ReadyForQuery(s, data)
      <3> HIDE DEF data, ok
      <3>1. resp'[s] = data /\ sin'[s] = <<>>
        BY <1>0, <2>0 DEF TypeOK
      <3>2. \/ ~ReadyForQuery(s, data) /\ st'[s] = "RECEIVE_RESPONSE"
            \/ st'[s] = "APPLY_POST_RESPONSE_PLUGINS" \/ st'[s] = "NULL"
        BY <1>0, <2>0 DEF TypeOK, Goto
      <3> QED
        BY <3>1, <3>2
    <2>2. resp[s] \in Seq(Segment) /\ sin[s] \in Seq(Segment) /\ pend[s] \in Seq(Segment)
      BY <1>0, TypeFacts
    <2>3. data \o (<<>> \o pend[s]) = resp[s] \o (sin[s] \o pend[s])
      <3>1. <<>> \o pend[s] = pend[s]
        BY <2>2, EmptyIsNeutral
      <3>2. \A p, q, r \in Seq(Segment) : (p \o q) \o r = p \o (q \o r)
        BY Associative
      <3>3. (resp[s] \o sin[s]) \o pend[s] = resp[s] \o (sin[s] \o pend[s])
        BY <2>2, <3>2
      <3> QED
        BY <3>1, <3>3, Zenon
    <2>4. resp'[s] \o (sin'[s] \o pend'[s]) = resp[s] \o (sin[s] \o pend[s])
      BY <1>1, <2>1, <2>3
    <2>5. ReadyForQuery(s, resp[s])' <=> ReadyForQuery(s, data)
      BY <2>0, <2>1 DEF ReadyForQuery
    <2> HIDE DEF data
    <2> QED
      BY <1>1, <2>0, <2>1, <2>4, <2>5 DEF ServedOK
  <1>5. CASE ~(ForwardRequest(s) \/ PrepareToReceiveResponse(s) \/ ReceiveResponse(s))
    <2>1. st'[s] \notin {"PREPARE_TO_RECEIVE_RESPONSE", "RECEIVE_RESPONSE"}
      <3>1. CASE \/ PrepareToReceiveRequest(s) \/ PrepareToForwardRequest(s)
                 \/ PrepareToForwardResponse(s) \/ Initiate(s) \/ ResetContext(s)
                 \/ ApplyPreRequestPlugins(s) \/ ApplyPostResponsePlugins(s)
        BY <1>0, <3>1 DEF PrepareToReceiveRequest, PrepareToForwardRequest, Initiate,
           PrepareToForwardResponse, ResetContext, ApplyPreRequestPlugins,
           ApplyPostResponsePlugins, AfterRefusal, Goto, TypeOK
      <3>2. CASE ReceiveRequest(s) \/ ForwardResponse(s)
        BY <1>0, <3>2 DEF ReceiveRequest, ForwardResponse, Proceed, Goto, TypeOK
      <3> QED
        BY <1>5, <3>1, <3>2 DEF TakeAction
    <2> QED
      BY <2>1 DEF ServedOK
  <1> QED
    BY <1>2, <1>3, <1>4, <1>5

LEMMA OthersServed ==
    ASSUME IInv, NEW s \in Sessions, ServedOK(s), EndsWell(reply[s]),
           Connect(s) \/ Delete(s) \/ Peers(s)
    PROVE  ServedOK(s)' /\ EndsWell(reply[s])'
  <1>0. ExchangeOK(s) /\ TypeOK
    BY DEF IInv
  <1>1. UNCHANGED <<st, resp, initiated>>
    BY DEF Connect, Delete, Peers, PeersRespond, ClientSend, ClientRead, ClientLeaves,
       ClientSeesEnd, ServerRead, ServerSend, ServerCloses, ServerBreaks, context
  <1>2. ReadyForQuery(s, resp[s])' <=> ReadyForQuery(s, resp[s])
    BY <1>1 DEF ReadyForQuery
  <1>3. CASE ServerRead(s)
    <2> DEFINE r == Head(sout[s])
    <2>1. PICK k \in Answers(r.kind) :
            /\ reply' = [reply EXCEPT ![s] = Tokens(k, r.n)]
            /\ pend' = [pend EXCEPT ![s] = reply'[s]]
            /\ closing' = [closing EXCEPT ![s] = k \in {<<>>, <<"E">>}]
      BY <1>3 DEF ServerRead, Tokens
    <2>2. sout[s] # <<>> /\ sout[s] \in Seq(Request) /\ UNCHANGED sin
      BY <1>0, <1>3, TypeFacts DEF ServerRead
    <2>3. r \in Request
      BY <2>2
    <2> HIDE DEF r
    <2>4. /\ reply'[s] = Tokens(k, r.n) /\ pend'[s] = reply'[s]
          /\ closing'[s] = (k \in {<<>>, <<"E">>})
      BY <1>0, <2>1 DEF TypeOK
    <2>5. /\ EndsWell(reply'[s])
          /\ reply'[s] = <<>> \/ Head(reply'[s]).kind = "E" => closing'[s]
      BY <2>3, <2>4, ReplyEnds
    <2>6. ASSUME st[s] \in {"PREPARE_TO_RECEIVE_RESPONSE", "RECEIVE_RESPONSE"}
          PROVE  resp'[s] \o (sin'[s] \o pend'[s]) = reply'[s]
      <3>1. resp[s] = <<>> /\ sin[s] = <<>>
        BY <1>0, <2>2, <2>6 DEF ExchangeOK, AtServer, Quiet
      <3>2. reply'[s] \in Seq(Segment)
        BY <1>0, <1>3, OthersTypes DEF IInv, Peers, PeersRespond, TypeOK
      <3> QED
        BY <1>1, <2>2, <2>4, <3>1, <3>2, EmptyIsNeutral
    <2> QED
      BY <1>1, <1>2, <2>5, <2>6 DEF ServedOK, EndsWell
  <1>4. CASE ServerSend(s)
    <2>1. /\ pend[s] # <<>> /\ UNCHANGED <<sout, sstat, reply, closing>>
          /\ sin'[s] = Append(sin[s], Head(pend[s])) /\ pend'[s] = Tail(pend[s])
      BY <1>0, <1>4 DEF ServerSend, TypeOK
    <2>2. sin'[s] \o pend'[s] = sin[s] \o pend[s]
      BY <1>0, <2>1, TypeFacts, HeadMoves
    <2> QED
      BY <1>1, <1>2, <2>1, <2>2 DEF ServedOK, EndsWell
  <1>5. CASE ServerCloses(s) \/ ServerBreaks(s) \/ Connect(s)
    <2>1. /\ UNCHANGED <<sout, sin, reply, closing>>
          /\ sstat'[s] = "open" => UNCHANGED pend /\ sstat[s] = "open"
      BY <1>0, <1>5 DEF ServerCloses, ServerBreaks, Connect, TypeOK
    <2> QED
      BY <1>1, <1>2, <2>1 DEF ServedOK, EndsWell
  <1>6. CASE Delete(s) \/ ClientSend(s) \/ ClientRead(s) \/ ClientLeaves(s) \/ ClientSeesEnd(s)
    <2>1. UNCHANGED <<sout, sin, sstat, pend, reply, closing>>
      BY <1>6 DEF Delete, ClientSend, ClientRead, ClientLeaves, ClientSeesEnd, serverVars
    <2> QED
      BY <1>1, <1>2, <2>1 DEF ServedOK, EndsWell
  <1> QED
    BY <1>3, <1>4, <1>5, <1>6 DEF Peers, PeersRespond

\* One send takes all that is there, or as much as the socket has room for.
LEMMA SentLength ==
    ASSUME NEW S, NEW p \in Seq(S)
    PROVE  /\ Len(p) <= SocketRoom => Sent(p, <<>>) = p
           /\ Len(p) > SocketRoom => Len(Sent(p, <<>>)) = SocketRoom
  <1>1. SocketRoom \in Nat /\ SocketRoom > 0 /\ Len(<<>>) = 0
    BY BoundsAssumption
  <1>2. Sent(p, <<>>) = IF Len(p) <= SocketRoom THEN p ELSE SubSeq(p, 1, SocketRoom)
    BY <1>1 DEF Sent
  <1>3. Len(p) > SocketRoom => Len(SubSeq(p, 1, SocketRoom)) = SocketRoom
    BY <1>1
  <1>4. Len(p) \in Nat
    OBVIOUS
  <1> QED
    BY <1>1, <1>2, <1>3, <1>4

\* What a client is given of the answer ends as an answer ends, or is the beginning of
\* one that was cut short.
LEMMA ForwardDelivers ==
    ASSUME IInv, NEW s \in Sessions, EndsWell(reply[s]), ForwardResponse(s)
    PROVE  DeliveredOK(s)'
  <1>0. ExchangeOK(s) /\ ClientOK(s) /\ BuffersOK(s) /\ TypeOK
    BY DEF IInv
  <1> SUFFICES ASSUME st'[s] = "RESET_CONTEXT", cl'[s] \in Awaiting
               PROVE  LET given == got'[s] \o cout'[s] IN
                      /\ given # <<>>
                      /\ \/ given[Len(given)].kind \in Ending
                         \/ /\ Begins(given, reply'[s])
                            /\ Len(given) = SocketRoom \/ AuthenticationSplit(s)'
    <2>1. st'[s] \in {"RESET_CONTEXT", "NULL"}
      BY <1>0 DEF ForwardResponse, Proceed, Goto, TypeOK
    <2> QED
      BY <2>1 DEF DeliveredOK
  <1> DEFINE sent == Sent(resp[s], <<>>)
  <1>1. /\ st[s] = "FORWARD_RESPONSE"
        /\ UNCHANGED <<got, cl, reply, cn>>
    BY DEF ForwardResponse, serverVars
  <1>2. InHand(s) /\ AnswerReady(s) /\ resp[s] # <<>>
    BY <1>0, <1>1 DEF ExchangeOK, BuffersOK, HasAnswer
  <1>3. cout[s] = <<>> /\ got[s] = <<>>
    BY <1>2 DEF InHand, AnswerDue
  <1>4. resp[s] \in Seq(Segment) /\ reply[s] \in Seq(Segment)
    BY <1>0 DEF TypeOK
  <1>5. sent \in Seq(Segment) /\ Begins(sent, resp[s])
    BY <1>4, SentBegins
  <1>6. cstat[s] = "open"
    BY <1>0, <1>1 DEF ClientOK, Awaiting
  <1>7. got'[s] \o cout'[s] = sent
    <2>1. cout'[s] = <<>> \o sent
      BY <1>0, <1>3, <1>6 DEF ForwardResponse, TypeOK
    <2>2. cout'[s] = sent
      BY <1>5, <2>1, EmptyIsNeutral
    <2> QED
      BY <1>1, <1>3, <1>5, <2>2, EmptyIsNeutral
  <1>8. AuthenticationSplit(s)' = AuthenticationSplit(s)
    BY <1>1 DEF AuthenticationSplit
  <1>9. sent # <<>>
    <2>1. Len(resp[s]) \in Nat /\ SocketRoom \in Nat /\ SocketRoom > 0 /\ Len(<<>>) = 0
      BY <1>4, BoundsAssumption
    <2> QED
      BY <1>2, <1>4, <2>1, SentLength
  <1> HIDE DEF sent
  <1>10. CASE resp[s] \in {reply[s], OwnError(s)}
    <2>1. resp[s][Len(resp[s])].kind \in Ending
      <3>1. OwnError(s)[Len(OwnError(s))].kind \in Ending
        BY DEF OwnError, Ending
      <3> QED
        BY <1>2, <1>10, <3>1 DEF EndsWell
    <2>2. CASE Len(resp[s]) <= SocketRoom
      <3>1. sent = resp[s]
        BY <1>4, <2>2, SentLength DEF sent
      <3> QED
        BY <1>7, <1>9, <2>1, <3>1
    <2>3. CASE Len(resp[s]) > SocketRoom
      <3>1. Len(sent) = SocketRoom
        BY <1>4, <2>3, SentLength DEF sent
      <3>2. resp[s] = reply[s]
        <4>1. Len(OwnError(s)) = 1 /\ SocketRoom \in Nat /\ SocketRoom > 0
          BY BoundsAssumption DEF OwnError
        <4>2. ASSUME resp[s] = OwnError(s)
              PROVE  FALSE
          <5>1. Len(resp[s]) = 1
            BY <4>1, <4>2
          <5> QED
            BY <2>3, <4>1, <5>1
        <4> QED
          BY <1>10, <2>3, <4>2
      <3> QED
        BY <1>1, <1>5, <1>7, <1>9, <3>1, <3>2
    <2>4. Len(resp[s]) <= SocketRoom \/ Len(resp[s]) > SocketRoom
      <3>1. Len(resp[s]) \in Nat /\ SocketRoom \in Nat
        BY <1>4, BoundsAssumption
      <3> QED
        BY <3>1
    <2> QED
      BY <2>2, <2>3, <2>4
  <1>11. CASE AuthenticationSplit(s) /\ Begins(resp[s], reply[s])
    <2>1. Begins(sent, reply[s])
      BY <1>4, <1>5, <1>11, BeginsTransitive
    <2> QED
      BY <1>1, <1>7, <1>8, <1>9, <1>11, <2>1
  <1> QED
    BY <1>2, <1>10, <1>11 DEF AnswerReady

LEMMA ActionDelivered ==
    ASSUME IInv, NEW s \in Sessions, DeliveredOK(s), ReadOK(s), EndsWell(reply[s]), TakeAction(s)
    PROVE  DeliveredOK(s)' /\ ReadOK(s)' /\ EndsWell(reply[s])'
  <1>0. TypeOK
    BY DEF IInv
  <1>1. UNCHANGED <<cl, got, reply>>
    BY DEF TakeAction, PrepareToReceiveRequest, ReceiveRequest, Initiate, ApplyPreRequestPlugins,
       PrepareToForwardRequest, ForwardRequest, PrepareToReceiveResponse, ReceiveResponse,
       ApplyPostResponsePlugins, PrepareToForwardResponse, ForwardResponse, ResetContext,
       clientVars, serverVars
  <1>2. ReadOK(s)' /\ EndsWell(reply[s])'
    BY <1>1 DEF ReadOK, EndsWell
  <1>3. CASE ForwardResponse(s)
    BY <1>2, <1>3, ForwardDelivers
  <1>4. CASE PrepareToReceiveRequest(s) \/ ResetContext(s)
    <2>1. /\ UNCHANGED <<cin, cout>>
          /\ st[s] \in {"PREPARE_TO_RECEIVE_REQUEST", "RESET_CONTEXT"}
      BY <1>4 DEF PrepareToReceiveRequest, ResetContext, clientVars
    <2> QED
      BY <1>1, <1>2, <2>1 DEF DeliveredOK, AuthenticationSplit
  <1>5. CASE ~(ForwardResponse(s) \/ PrepareToReceiveRequest(s) \/ ResetContext(s))
    <2>1. st'[s] \notin {"PREPARE_TO_RECEIVE_REQUEST", "RECEIVE_REQUEST", "RESET_CONTEXT"}
      <3>1. CASE \/ PrepareToForwardRequest(s) \/ PrepareToReceiveResponse(s)
                 \/ PrepareToForwardResponse(s) \/ Initiate(s)
                 \/ ApplyPreRequestPlugins(s) \/ ApplyPostResponsePlugins(s)
        BY <1>0, <3>1 DEF PrepareToForwardRequest, PrepareToReceiveResponse, Initiate,
           PrepareToForwardResponse, ApplyPreRequestPlugins,
           ApplyPostResponsePlugins, AfterRefusal, Goto, TypeOK
      <3>2. CASE ReceiveRequest(s) \/ ForwardRequest(s) \/ ReceiveResponse(s)
        BY <1>0, <3>2 DEF ReceiveRequest, ForwardRequest, ReceiveResponse, Proceed, Goto, TypeOK
      <3> QED
        BY <1>5, <3>1, <3>2 DEF TakeAction
    <2> QED
      BY <1>2, <2>1 DEF DeliveredOK
  <1> QED
    BY <1>3, <1>4, <1>5

LEMMA OthersDelivered ==
    ASSUME IInv, NEW s \in Sessions, DeliveredOK(s), ReadOK(s), Connect(s) \/ Delete(s) \/ Peers(s)
    PROVE  DeliveredOK(s)' /\ ReadOK(s)'
  <1>0. ExchangeOK(s) /\ TypeOK
    BY DEF IInv
  <1>1. UNCHANGED st
    BY DEF Connect, Delete, Peers, PeersRespond, ClientSend, ClientRead, ClientLeaves,
       ClientSeesEnd, ServerRead, ServerSend, ServerCloses, ServerBreaks
  <1>2. CASE ClientSend(s)
    <2>1. PICK kind \in {"ssl", "startup", "norole", "password", "query", "terminate"},
               next \in {"ssl", "startup", "password", "busy", "closed"} : Send(s, kind, next)
      BY <1>2 DEF ClientSend
    <2>2. cin'[s] = Append(cin[s], [kind |-> kind, n |-> cn[s] + 1]) /\ got'[s] = <<>>
      BY <1>0, <2>1 DEF Send, TypeOK
    <2>3. cin'[s] # <<>>
      BY <1>0, <2>2, TypeFacts
    <2> QED
      BY <2>2, <2>3 DEF DeliveredOK, ReadOK
  <1>3. CASE ClientRead(s)
    <2> DEFINE h == Head(cout[s])
    <2>1. /\ UNCHANGED <<cin, reply>> /\ cout[s] # <<>>
          /\ got'[s] = Append(got[s], h) /\ cout'[s] = Tail(cout[s])
          /\ cl'[s] = ClientAfter(cl[s], h.kind)
      BY <1>0, <1>3 DEF ClientRead, serverVars, TypeOK
    <2>2. got'[s] \o cout'[s] = got[s] \o cout[s]
      BY <1>0, <2>1, TypeFacts, HeadMoves
    <2>3. cl'[s] \in Awaiting => cl[s] \in Awaiting /\ h.kind \notin Ending
      BY <2>1 DEF ClientAfter, Awaiting, Ending
    <2>4. ReadOK(s)'
      <3>1. \A i \in DOMAIN got'[s] : \/ got'[s][i] = h
                                      \/ i \in DOMAIN got[s] /\ got'[s][i] = got[s][i]
        <4>1. got[s] \in Seq(Segment) /\ cout[s] \in Seq(Segment)
          BY <1>0, TypeFacts
        <4>2. h \in Segment
          BY <2>1, <4>1, HeadType
        <4> HIDE DEF h
        <4> QED
          BY <2>1, <4>1, <4>2
      <3> QED
        BY <2>3, <3>1 DEF ReadOK
    <2> QED
      BY <1>1, <2>1, <2>2, <2>3, <2>4 DEF DeliveredOK, AuthenticationSplit
  <1>4. CASE ClientLeaves(s) \/ ClientSeesEnd(s)
    <2>1. cl'[s] = "closed"
      BY <1>0, <1>4 DEF ClientLeaves, ClientSeesEnd, TypeOK
    <2> QED
      BY <2>1 DEF DeliveredOK, ReadOK, Awaiting
  <1>5. CASE \/ Connect(s) \/ Delete(s) \/ ServerRead(s) \/ ServerSend(s)
            \/ ServerCloses(s) \/ ServerBreaks(s)
    <2>1. UNCHANGED <<cin, cout, cl, got>>
      BY <1>5 DEF Connect, Delete, ServerRead, ServerSend, ServerCloses, ServerBreaks, clientVars
    <2>2. st[s] \in {"PREPARE_TO_RECEIVE_REQUEST", "RECEIVE_REQUEST", "RESET_CONTEXT"} =>
            UNCHANGED reply
      <3>1. CASE ServerRead(s)
        BY <1>0, <3>1 DEF ServerRead, ExchangeOK, Answered, Underway, Quiet
      <3>2. CASE Connect(s) \/ Delete(s) \/ ServerSend(s) \/ ServerCloses(s) \/ ServerBreaks(s)
        BY <3>2 DEF Connect, Delete, ServerSend, ServerCloses, ServerBreaks, serverVars
      <3> QED
        BY <1>5, <3>1, <3>2
    <2> QED
      BY <1>1, <2>1, <2>2 DEF DeliveredOK, ReadOK, AuthenticationSplit
  <1> QED
    BY <1>2, <1>3, <1>4, <1>5 DEF Peers, PeersRespond

LEMMA OthersTurn ==
    ASSUME TypeOK, NEW s \in Sessions, NEW t \in Sessions, t # s, TurnOK(t),
           TakeAction(s) \/ Connect(s) \/ Delete(s) \/ Peers(s)
    PROVE  TurnOK(t)'
  <1>1. /\ UNCHANGED <<st[t], req[t], resp[t], waiting[t], terminated[t], cin[t], sstat[t], sout[t]>>
        /\ UNCHANGED <<cout[t], cl[t], got[t], initiated[t], sin[t], pend[t], reply[t]>>
    BY OthersUntouched, OthersElsewhere
  <1>2. UNCHANGED closing[t]
    <2>1. CASE TakeAction(s)
      BY <2>1 DEF TakeAction, PrepareToReceiveRequest, ReceiveRequest, Initiate,
         ApplyPreRequestPlugins, PrepareToForwardRequest, ForwardRequest,
         PrepareToReceiveResponse, ReceiveResponse, ApplyPostResponsePlugins,
         PrepareToForwardResponse, ForwardResponse, ResetContext, serverVars
    <2>2. CASE ServerRead(s)
      BY <2>2 DEF ServerRead, TypeOK
    <2>3. CASE ~ServerRead(s) /\ ~TakeAction(s)
      BY <2>3 DEF Connect, Delete, Peers, PeersRespond, ClientSend, ClientRead, ClientLeaves,
         ClientSeesEnd, ServerSend, ServerCloses, ServerBreaks, serverVars
    <2> QED
      BY <2>1, <2>2, <2>3
  <1> USE <1>1, <1>2 DEF TurnOK
  <1>3. ReadyForQuery(t, resp[t])' = ReadyForQuery(t, resp[t])
    BY DEF ReadyForQuery
  <1>4. LateOK(t)' /\ ReadOK(t)' /\ EndsWell(reply[t])'
    BY DEF LateOK, ReadOK, EndsWell
  <1>5. ServedOK(t)'
    BY <1>3 DEF ServedOK
  <1>6. DeliveredOK(t)'
    BY DEF DeliveredOK, AuthenticationSplit
  <1> QED
    BY <1>4, <1>5, <1>6

LEMMA InitTurn == Init => TurnInv
  <1> SUFFICES ASSUME Init, NEW s \in Sessions PROVE TurnOK(s)
    BY DEF TurnInv
  <1> QED
    BY DEF Init, TurnOK, LateOK, ServedOK, DeliveredOK, ReadOK, EndsWell, Awaiting

LEMMA StepTurn ==
    ASSUME IInv, TurnInv, NEW s \in Sessions, Connect(s) \/ Step(s) \/ Delete(s) \/ Peers(s)
    PROVE  TurnInv'
  <1>0. TypeOK /\ TurnOK(s)
    BY DEF IInv, TurnInv
  <1>1. CASE Step(s)
    <2>1. ~terminated[s] /\ TakeAction(s)
      BY <1>1 DEF Step
    <2>2. TurnOK(s)'
      BY <1>0, <2>1, ActionUses, ActionLate, ActionServed, ActionDelivered DEF TurnOK
    <2> QED
      BY <1>0, <2>1, <2>2, OthersTurn DEF TurnInv
  <1>2. CASE Connect(s) \/ Delete(s) \/ Peers(s)
    <2>1. UNCHANGED <<st, waiting, terminated>>
      BY <1>2 DEF Connect, Delete, Peers, PeersRespond, ClientSend, ClientRead, ClientLeaves,
         ClientSeesEnd, ServerRead, ServerSend, ServerCloses, ServerBreaks, context
    <2>2. TurnOK(s)'
      BY <1>0, <1>2, <2>1, OthersLate, OthersServed, OthersDelivered DEF TurnOK
    <2> QED
      BY <1>0, <1>2, <2>2, OthersTurn DEF TurnInv
  <1> QED
    BY <1>1, <1>2

LEMMA NextTurn == IInv /\ TurnInv /\ [Next]_vars => TurnInv'
  <1> SUFFICES ASSUME IInv, TurnInv, [Next]_vars PROVE TurnInv'
    OBVIOUS
  <1>1. CASE UNCHANGED vars
    BY <1>1 DEF vars, context, clientVars, serverVars, TurnInv, TurnOK, LateOK, ServedOK,
       DeliveredOK, ReadOK, EndsWell, AuthenticationSplit, ReadyForQuery
  <1>2. CASE \E s \in Sessions : Connect(s) \/ Step(s) \/ Delete(s) \/ Peers(s)
    BY <1>2, StepTurn
  <1> QED
    BY <1>1, <1>2 DEF Next

\* An exchange is always somebody's turn.
THEOREM TurnInvariance == Spec => []TurnInv
  BY InitTurn, NextTurn, Invariance, PTL DEF Spec

\* A client that was given no more than the beginning of its answer and has read it all.
LEMMA ClientCutShort ==
    ASSUME NEW s \in Sessions, got[s] \in Seq(Segment), reply[s] \in Seq(Segment),
           cout[s] = <<>>, cin[s] = <<>>, cl[s] \in Awaiting, st[s] = "RECEIVE_REQUEST",
           DeliveredOK(s), ReadOK(s), EndsWell(reply[s])
    PROVE  CutShort(s)
  <1>1. got[s] \o cout[s] = got[s]
    BY EmptyIsNeutral
  <1>2. /\ Len(got[s]) \in Nat /\ DOMAIN got[s] = 1..Len(got[s])
        /\ Len(reply[s]) \in Nat /\ DOMAIN reply[s] = 1..Len(reply[s])
        /\ got[s] # <<>> <=> Len(got[s]) > 0
        /\ reply[s] # <<>> <=> Len(reply[s]) > 0
        /\ SocketRoom \in Nat /\ SocketRoom > 0
    BY BoundsAssumption
  <1>3. got[s] # <<>> => got[s][Len(got[s])].kind \notin Ending
    BY <1>2 DEF ReadOK
  <1>4. /\ got[s] # <<>> /\ Begins(got[s], reply[s])
        /\ Len(got[s]) = SocketRoom \/ AuthenticationSplit(s)
    BY <1>1, <1>3 DEF DeliveredOK
  <1>5. reply[s] # <<>> /\ reply[s][Len(reply[s])].kind \in Ending
    BY <1>2, <1>4 DEF Begins, AuthenticationSplit, EndsWell
  <1>6. Len(got[s]) < Len(reply[s])
    <2>1. ASSUME Len(got[s]) = Len(reply[s])
          PROVE  FALSE
      BY <1>2, <1>3, <1>4, <1>5, <2>1 DEF Begins
    <2> QED
      BY <1>2, <1>4, <2>1 DEF Begins
  <1>7. got[s] = SubSeq(reply[s], 1, Len(got[s]))
    <2> DEFINE begin == SubSeq(reply[s], 1, Len(got[s]))
    <2>1. /\ begin \in Seq(Segment) /\ Len(begin) = Len(got[s])
          /\ \A i \in 1..Len(got[s]) : begin[i] = reply[s][i]
      BY <1>2, <1>6
    <2> HIDE DEF begin
    <2>2. \A i \in 1..Len(got[s]) : begin[i] = got[s][i]
      BY <1>2, <1>4, <2>1 DEF Begins
    <2> QED
      BY <2>1, <2>2 DEF begin
  <1> QED
    BY <1>4, <1>6, <1>7 DEF CutShort

\* A session that waits for more of an answer, all of which it has, finds it complete.
LEMMA ServersTurn ==
    ASSUME IInv, NEW s \in Sessions, LateOK(s), ServedOK(s),
           st[s] = "RECEIVE_RESPONSE", sstat[s] = "open", sin[s] = <<>>,
           sout[s] = <<>>, pend[s] = <<>>, ~closing[s]
    PROVE  FALSE
  <1>1. InHand(s) /\ AtServer(s) /\ req[s] # <<>> /\ req[s] \in Seq(Request)
        /\ resp[s] \in Seq(Segment)
    BY TypeFacts DEF IInv, ExchangeOK, BuffersOK
  <1>2. reply[s] # <<>> /\ Head(reply[s]).kind # "E" /\ resp[s] \o (<<>> \o <<>>) = reply[s]
    BY DEF ServedOK
  <1>3. resp[s] = reply[s]
    <2>1. <<>> \o <<>> = <<>>
      BY EmptyIsNeutral
    <2>2. resp[s] \o <<>> = resp[s]
      BY <1>1, EmptyIsNeutral
    <2> QED
      BY <1>2, <2>1, <2>2
  <1> DEFINE r == Head(req[s])
  <1>4. r \in Request /\ reply[s] \in Replies(r)
    BY <1>1, <1>2, <1>3, HeadType DEF AtServer
  <1>5. ~ReadyForQuery(s, resp[s])
    BY <1>2, <1>3 DEF ServedOK
  <1>6. initiated[s] /\ r.kind # "ssl"
    BY <1>5 DEF ReadyForQuery, LateOK
  <1> HIDE DEF r
  <1>7. PICK k \in Answers(r.kind) : reply[s] = Tokens(k, r.n)
    BY <1>4 DEF Replies
  <1>8. Head(reply[s]).kind \in {"R", "OK", "OKZ"} \/ reply[s][Len(reply[s])].kind \in {"OKZ", "Z"}
    BY <1>2, <1>4, <1>6, <1>7, ReplyEnds
  <1> QED
    BY <1>3, <1>5, <1>8 DEF ReadyForQuery

\* No exchange ends with the client, the proxy and the server all waiting: what a session
\* waits for and has not come is the peer's to do.
THEOREM NobodyWaitsForEver == Spec => []NobodyIsStuck
  <1>1. ASSUME IInv, TurnInv
        PROVE  NobodyIsStuck
    <2> SUFFICES ASSUME NEW s \in Sessions, waiting[s], ~Ready(s) PROVE PeersTurn(s)
      BY DEF NobodyIsStuck
    <2>1. /\ TypeOK /\ BuffersOK(s) /\ ExchangeOK(s) /\ TurnOK(s) /\ Waits(s) /\ EndsFor(s)
      BY <1>1, WaitSplit DEF IInv, TurnInv
    <2>2. st[s] \in UsesSocket
      BY <2>1 DEF TurnOK, EndsFor, Ready
    <2>3. CASE st[s] = "RECEIVE_REQUEST"
      <3>1. ev[s] = [side |-> "client", events |-> "in"]
        BY <2>1, <2>3 DEF Waits
      <3>2. cin[s] = <<>>
        BY <3>1 DEF Ready
      <3>3. cl[s] \in Awaiting /\ cout[s] = <<>> => CutShort(s)
        BY <2>1, <2>3, <3>2, ClientCutShort, TypeFacts DEF TurnOK
      <3> QED
        BY <3>1, <3>3 DEF PeersTurn
    <2>4. CASE st[s] = "FORWARD_REQUEST"
      BY <2>1, <2>4 DEF Waits, Ready
    <2>5. CASE st[s] = "RECEIVE_RESPONSE"
      <3>1. ev[s] = [side |-> "server", events |-> "in"]
        BY <2>1, <2>5 DEF Waits
      <3>2. sin[s] = <<>> /\ sstat[s] = "open"
        BY <3>1 DEF Ready
      <3> QED
        BY <1>1, <2>1, <2>5, <3>1, <3>2, ServersTurn DEF TurnOK, PeersTurn
    <2>6. CASE st[s] = "FORWARD_RESPONSE"
      <3>1. ev[s] = [side |-> "client", events |-> "out"]
        BY <2>1, <2>6 DEF Waits
      <3>2. ~(Len(cout[s]) < SocketRoom)
        BY <3>1 DEF Ready
      <3>3. cout[s] # <<>>
        BY <3>2, BoundsAssumption
      <3> QED
        BY <3>1, <3>3 DEF PeersTurn
    <2> QED
      BY <2>2, <2>3, <2>4, <2>5, <2>6 DEF UsesSocket
  <1> QED
    BY <1>1, Invariance, TurnInvariance, PTL
=============================================================================
