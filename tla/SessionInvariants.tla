-------------------------- MODULE SessionInvariants --------------------------
(***************************************************************************)
(* The inductive invariant that the safety theorems about Session rest on. *)
(***************************************************************************)
EXTENDS Session

(* Buffers, what is waited for, and the order of the requests *)

\* The states that have a request to forward, and those that have its answer.
HasRequest == {"INITIATE", "APPLY_PRE_REQUEST_PLUGINS", "PREPARE_TO_FORWARD_REQUEST",
               "FORWARD_REQUEST"}
HasAnswer  == {"APPLY_POST_RESPONSE_PLUGINS", "PREPARE_TO_FORWARD_RESPONSE",
               "FORWARD_RESPONSE", "RESET_CONTEXT"}

BuffersOK(s) ==
    /\ st[s] \in {"PREPARE_TO_RECEIVE_REQUEST", "RECEIVE_REQUEST"} => req[s] = <<>>
    /\ st[s] \in HasRequest \cup HasAnswer
                 \cup {"PREPARE_TO_RECEIVE_RESPONSE", "RECEIVE_RESPONSE"} => req[s] # <<>>
    /\ st[s] \in HasAnswer => resp[s] # <<>>

\* A state that uses a socket waits for it; a session that has ended waits for a
\* socket whose peer is gone.
WaitOK(s) ==
    /\ \A use \in {<<"RECEIVE_REQUEST", "client", "in">>, <<"FORWARD_REQUEST", "server", "out">>,
                   <<"RECEIVE_RESPONSE", "server", "in">>, <<"FORWARD_RESPONSE", "client", "out">>} :
         st[s] = use[1] => waiting[s] /\ ev[s] = [side |-> use[2], events |-> use[3]]
    /\ terminated[s] => \/ ev[s].side = "client" /\ cstat[s] # "open"
                        \/ ev[s].side = "server" /\ sstat[s] # "open"

Numbers(q)  == {q[i].n : i \in DOMAIN q}
InOrder(q)  == \A i, j \in DOMAIN q : i < j => q[i].n < q[j].n
Below(A, B) == \A a \in A, b \in B : a < b

Fresh(s)    == IF st[s] \in HasRequest THEN Numbers(req[s]) ELSE {}
SeenBy(s)   == {seen[s][i] : i \in DOMAIN seen[s]}
Past(s)     == SeenBy(s) \cup Numbers(sout[s]) \cup refused[s]

\* Requests go one way: from the client's socket to the session, from there to the
\* server's socket or to the refused, and to the server.
OrderOK(s) ==
    /\ InOrder(cin[s]) /\ InOrder(sout[s])
    /\ st[s] \in HasRequest => InOrder(req[s])
    /\ \A i, j \in DOMAIN seen[s] : i < j => seen[s][i] < seen[s][j]
    /\ Below(SeenBy(s), Numbers(sout[s]))
    /\ refused[s] \cap (SeenBy(s) \cup Numbers(sout[s])) = {}
    /\ Below(Past(s), Fresh(s))
    /\ Below(Past(s) \cup Fresh(s), Numbers(cin[s]))
    /\ Past(s) \cup Fresh(s) \cup Numbers(cin[s]) \subseteq 0..cn[s]

-----------------------------------------------------------------------------
(* Where an exchange is *)

\* The states of a client that may send, and the segments that end its waiting.
Senders == {"new", "declined", "asked", "idle"}
Ending  == {"N", "R", "E", "Z", "OKZ", "PE"}

\* The messages a client may send before the session is initiated.
First == {"ssl", "startup", "norole"}

Begins(p, q)    == Len(p) <= Len(q) /\ \A i \in DOMAIN p : p[i] = q[i]
LastEnds(q)     == \A i \in DOMAIN q : q[i].kind \in Ending => i = Len(q)
AllOf(q, kind)  == \A i \in DOMAIN q : q[i].kind = kind
Numbered(q, n)  == \A i \in DOMAIN q : q[i].n = n

Tokens(a, n) == [i \in DOMAIN a |-> [kind |-> a[i], n |-> n]]
Replies(r)   == {Tokens(a, r.n) : a \in Answers(r.kind)}
OwnError(s)  == <<[kind |-> "PE", n |-> cn[s]]>>

Quiet(s) == sin[s] = <<>> /\ sout[s] = <<>> /\ pend[s] = <<>>

\* The client waits for an answer of which it has read nothing.
AnswerDue(s) == cl[s] \notin Senders /\ cout[s] = <<>> /\ got[s] = <<>>

\* The client's last message is the one the session works on.
InHand(s) ==
    /\ Len(req[s]) = 1 /\ Head(req[s]).n = cn[s]
    /\ cin[s] = <<>>
    /\ AnswerDue(s)

\* The client's last message is still in its socket.
Underway(s) ==
    /\ Len(cin[s]) = 1 /\ Head(cin[s]).n = cn[s]
    /\ AnswerDue(s)
    /\ Quiet(s)

\* No message is on its way; the client has read some of its answer, or all.
Answered(s) ==
    /\ cin[s] = <<>>
    /\ cl[s] # "closed" => \E answer \in {reply[s], OwnError(s)} :
                              Begins(got[s] \o cout[s], answer)
    /\ cl[s] = "idle" => got[s] \in {reply[s], OwnError(s)}
    /\ Numbered(cout[s], cn[s])
    /\ \/ Quiet(s)
       \/ AuthenticationSplit(s) /\ sout[s] = <<>> /\ cl[s] \notin Senders /\ AllOf(cout[s], "OK")

\* The server has the session's request still to read, or has begun to answer it,
\* or the request was lost.
AtServer(s) ==
    \/ sout[s] = req[s] /\ resp[s] = <<>> /\ sin[s] = <<>> /\ pend[s] = <<>>
    \/ /\ sout[s] = <<>> /\ reply[s] \in Replies(Head(req[s]))
       /\ Begins(resp[s] \o (sin[s] \o pend[s]), reply[s])
    \/ resp[s] = <<>> /\ Quiet(s)

\* The session has the server's whole answer, its own error, or the first segment
\* of an authentication.
AnswerReady(s) ==
    /\ Numbered(resp[s], cn[s])
    /\ \/ resp[s] \in {reply[s], OwnError(s)} /\ Quiet(s)
       \/ /\ Head(req[s]).kind # "query" /\ AuthenticationSplit(s) /\ sout[s] = <<>>
          /\ AllOf(resp[s], "OK") /\ Begins(resp[s], reply[s])

ExchangeOK(s) ==
    /\ st[s] \in {"PREPARE_TO_RECEIVE_REQUEST", "RECEIVE_REQUEST"} =>
         resp[s] = <<>> /\ (Answered(s) \/ Underway(s))
    /\ st[s] \in HasRequest => InHand(s) /\ resp[s] = <<>> /\ Quiet(s)
    /\ st[s] \in {"PREPARE_TO_RECEIVE_RESPONSE", "RECEIVE_RESPONSE"} => InHand(s) /\ AtServer(s)
    /\ st[s] \in HasAnswer \ {"RESET_CONTEXT"} => InHand(s) /\ AnswerReady(s)
    /\ st[s] = "RESET_CONTEXT" =>
         \/ Underway(s) /\ Head(req[s]).n < cn[s]
         \/ /\ Answered(s) /\ Head(req[s]).n = cn[s]
            /\ cl[s] # "closed" => got[s] \o cout[s] = Sent(resp[s], <<>>)
    /\ st[s] = "NULL" => /\ cl[s] \notin Senders /\ Numbered(cout[s], cn[s])
                         /\ cl[s] = "closed" \/ cout[s] = <<>>

ClientOK(s) ==
    /\ cstat[s] # "open" => cl[s] = "closed"
    /\ cl[s] = "closed" /\ st[s] # "NULL" => cstat[s] # "open"
    /\ terminated[s] \/ life[s] = "deleted" => st[s] = "NULL"
    /\ cl[s] \in Senders => cout[s] = <<>>

\* Until the session is initiated, only a request for encryption is answered.
EarlyOK(s) ==
    /\ st[s] = "INITIATE" => ~initiated[s] /\ Head(req[s]).kind \in First
    /\ ~initiated[s] =>
         /\ cl[s] \notin {"asked", "idle"} /\ st[s] # "APPLY_PRE_REQUEST_PLUGINS"
         /\ \A i \in DOMAIN cin[s] : cin[s][i].kind \in First
         /\ AllOf(cout[s], "N")
         /\ st[s] \in (HasRequest \ {"INITIATE"})
                      \cup {"PREPARE_TO_RECEIVE_RESPONSE", "RECEIVE_RESPONSE"} =>
              down \/ Head(req[s]).kind = "ssl"
         /\ st[s] \in HasAnswer \ {"RESET_CONTEXT"} =>
              Head(req[s]).kind = "ssl" /\ AllOf(resp[s], "N")

IInv ==
    /\ TypeOK
    /\ \A s \in Sessions :
         /\ BuffersOK(s) /\ WaitOK(s) /\ OrderOK(s)
         /\ ExchangeOK(s) /\ ClientOK(s) /\ EarlyOK(s) /\ LastEnds(reply[s])

-----------------------------------------------------------------------------
(* Whose turn it is *)

UsesSocket == {"RECEIVE_REQUEST", "FORWARD_REQUEST", "RECEIVE_RESPONSE", "FORWARD_RESPONSE"}

EndsWell(q) == q # <<>> => q[Len(q)].kind \in Ending

\* A session that was initiated is not asked for encryption any more.
LateOK(s) ==
    initiated[s] =>
        /\ cl[s] # "new"
        /\ \A i \in DOMAIN cin[s] : cin[s][i].kind # "ssl"
        /\ st[s] \in HasRequest \cup {"PREPARE_TO_RECEIVE_RESPONSE", "RECEIVE_RESPONSE"} =>
             Head(req[s]).kind # "ssl"

\* As long as its connection lasts, the server has the request, or all of its answer is
\* in the session's buffer, in the socket or still to come.
ServedOK(s) ==
    /\ st[s] \in {"PREPARE_TO_RECEIVE_RESPONSE", "RECEIVE_RESPONSE"} /\ sstat[s] = "open" =>
         \/ sout[s] # <<>>
         \/ /\ resp[s] \o (sin[s] \o pend[s]) = reply[s]
            /\ reply[s] = <<>> \/ Head(reply[s]).kind = "E" => closing[s]
    /\ st[s] = "PREPARE_TO_RECEIVE_RESPONSE" => resp[s] = <<>>
    /\ st[s] = "RECEIVE_RESPONSE" /\ resp[s] # <<>> => ~ReadyForQuery(s, resp[s])

\* When the session is done with the client's last message, the client was given an
\* answer on whose end it goes on, or the beginning of one that was cut short.
DeliveredOK(s) ==
    LET given == got[s] \o cout[s] IN
    /\ st[s] \in {"PREPARE_TO_RECEIVE_REQUEST", "RECEIVE_REQUEST", "RESET_CONTEXT"}
    /\ cin[s] = <<>> /\ cl[s] \in Awaiting
    => /\ given # <<>>
       /\ \/ given[Len(given)].kind \in Ending
          \/ Begins(given, reply[s]) /\ (Len(given) = SocketRoom \/ AuthenticationSplit(s))

\* What a client that waits has read so far tells it to wait on.
ReadOK(s) == cl[s] \in Awaiting => \A i \in DOMAIN got[s] : got[s][i].kind \notin Ending

TurnOK(s) ==
    /\ waiting[s] => terminated[s] \/ st[s] \in UsesSocket
    /\ LateOK(s) /\ ServedOK(s) /\ DeliveredOK(s) /\ ReadOK(s) /\ EndsWell(reply[s])

\* Inductive together with IInv.
TurnInv == \A s \in Sessions : TurnOK(s)
=============================================================================
