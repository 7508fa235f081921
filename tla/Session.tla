------------------------------- MODULE Session -------------------------------
(***************************************************************************)
(* A session: the state machine that carries one client's requests to the  *)
(* PostgreSQL server and the answers back, between two non-blocking        *)
(* sockets.  Each action of the class is one action here; the client, the  *)
(* server and the kernel's sockets are the environment.                    *)
(*                                                                         *)
(* Messages are tokens: a request is [kind, n] with n the number of the    *)
(* client's message, an answer is a sequence of segments [kind, n] that    *)
(* the server puts on the wire one after the other.  Only what the session *)
(* reads of a message is kept: whether its size exceeds 8, its first byte  *)
(* and whether it ends with ReadyForQuery.                                 *)
(***************************************************************************)
EXTENDS Naturals, Sequences

CONSTANTS
    Sessions,     \* every session the proxy may create
    MaxMessages,  \* bound: messages a client sends
    SocketRoom,   \* segments the client's send buffer takes
    Env           \* what clients, servers and the network may do: see Behaviours

\* ssl: the client asks for encryption first.     password: the server asks for one.
\* norole: the startup names no known role.       split: an answer comes in two segments.
\* splitAuth: so does the end of authentication.  fatal: the server ends a connection.
\* reject: plugins refuse queries.                reset: a connection breaks.
\* impatient: a client leaves without waiting for its answer.
\* noserver: the connection to the server cannot be opened.
\* long: an answer is longer than what a client's send buffer takes at once.
Behaviours == {"ssl", "password", "norole", "split", "splitAuth", "fatal", "reject",
               "reset", "impatient", "noserver", "long"}

ASSUME EnvAssumption == Env \subseteq Behaviours
ASSUME BoundsAssumption == MaxMessages \in Nat /\ SocketRoom \in Nat \ {0}

VARIABLES
    life, waiting, terminated, ev,  \* shared with SessionOperator
    st,         \* current_state_, "NULL" for nullptr
    initiated,  \* context_.initiated_
    req, resp,  \* context_.request_ and context_.response_
    down,       \* an exception or a signal has ended the process
    cin, cstat, \* from the client: bytes received, and whether it is open
    cout,       \* to the client: segments it has not read
    sin, sstat, \* from the server
    sout,       \* to the server: requests it has not read
    cl, cn,     \* the client: what it is doing, the number of its last message
    got,        \* the client: what it has read since its last message
    pend,       \* the server: segments of its answer it has still to send
    closing,    \* the server: it closes the connection after its answer
    reply,      \* history: the server's answer to the last request it read
    seen,       \* history: the requests the server has read
    refused     \* history: the requests the plugins refused

context == <<waiting, ev, req, resp>>
clientVars == <<cin, cstat, cl, cn, got>>
serverVars == <<sin, sstat, pend, closing, reply, seen>>
vars == <<life, terminated, st, initiated, context, down, clientVars, cout, serverVars,
          sout, refused>>

-----------------------------------------------------------------------------
States == {"PREPARE_TO_RECEIVE_REQUEST", "RECEIVE_REQUEST", "INITIATE",
           "APPLY_PRE_REQUEST_PLUGINS", "PREPARE_TO_FORWARD_REQUEST", "FORWARD_REQUEST",
           "PREPARE_TO_RECEIVE_RESPONSE", "RECEIVE_RESPONSE",
           "APPLY_POST_RESPONSE_PLUGINS", "PREPARE_TO_FORWARD_RESPONSE",
           "FORWARD_RESPONSE", "RESET_CONTEXT", "NULL"}

NoEvent == [side |-> "none", events |-> "none"]
Events  == [side : {"client", "server"}, events : {"in", "out"}] \cup {NoEvent}

\* Messages of a client: SSLRequest (8 bytes), startup, startup that names no
\* known role, password, query, Terminate.
Request == [kind : {"ssl", "startup", "norole", "password", "query", "terminate"}, n : Nat]

\* Segments: N, the one byte that declines encryption; R, that asks for a
\* password; OK, that starts with AuthenticationOk; OKZ, that also ends with
\* ReadyForQuery; D, other messages; Z, other messages that end with
\* ReadyForQuery; E, a FATAL error, which no ReadyForQuery follows; PE, the
\* proxy's own error and ReadyForQuery.  R, OK and OKZ have 'R' as first byte.
Segment == [kind : {"N", "R", "OK", "OKZ", "D", "Z", "E", "PE"}, n : Nat]

Statuses == {"open", "eof", "reset", "unconnected"}

\* The states of a client that waits for an answer.
Awaiting == {"ssl", "startup", "password", "busy"}

TypeOK ==
    /\ life \in [Sessions -> {"new", "live", "deleted"}]
    /\ waiting \in [Sessions -> BOOLEAN]
    /\ terminated \in [Sessions -> BOOLEAN]
    /\ ev \in [Sessions -> Events]
    /\ st \in [Sessions -> States]
    /\ initiated \in [Sessions -> BOOLEAN]
    /\ req \in [Sessions -> Seq(Request)]
    /\ resp \in [Sessions -> Seq(Segment)]
    /\ down \in BOOLEAN
    /\ cin \in [Sessions -> Seq(Request)]
    /\ cstat \in [Sessions -> Statuses]
    /\ cout \in [Sessions -> Seq(Segment)]
    /\ sin \in [Sessions -> Seq(Segment)]
    /\ sstat \in [Sessions -> Statuses]
    /\ sout \in [Sessions -> Seq(Request)]
    /\ cl \in [Sessions -> {"new", "declined", "asked", "idle", "closed"} \cup Awaiting]
    /\ cn \in [Sessions -> Nat]
    /\ got \in [Sessions -> Seq(Segment)]
    /\ pend \in [Sessions -> Seq(Segment)]
    /\ closing \in [Sessions -> BOOLEAN]
    /\ reply \in [Sessions -> Seq(Segment)]
    /\ seen \in [Sessions -> Seq(Nat)]
    /\ refused \in [Sessions -> SUBSET Nat]

Init ==
    /\ life = [s \in Sessions |-> "new"]
    /\ waiting = [s \in Sessions |-> FALSE]
    /\ terminated = [s \in Sessions |-> FALSE]
    /\ ev = [s \in Sessions |-> NoEvent]
    /\ st = [s \in Sessions |-> "PREPARE_TO_RECEIVE_REQUEST"]
    /\ initiated = [s \in Sessions |-> FALSE]
    /\ req = [s \in Sessions |-> <<>>]
    /\ resp = [s \in Sessions |-> <<>>]
    /\ down = FALSE
    /\ cin = [s \in Sessions |-> <<>>]
    /\ cstat = [s \in Sessions |-> "open"]
    /\ cout = [s \in Sessions |-> <<>>]
    /\ sin = [s \in Sessions |-> <<>>]
    /\ sstat = [s \in Sessions |-> "open"]
    /\ sout = [s \in Sessions |-> <<>>]
    /\ cl = [s \in Sessions |-> "new"]
    /\ cn = [s \in Sessions |-> 0]
    /\ got = [s \in Sessions |-> <<>>]
    /\ pend = [s \in Sessions |-> <<>>]
    /\ closing = [s \in Sessions |-> FALSE]
    /\ reply = [s \in Sessions |-> <<>>]
    /\ seen = [s \in Sessions |-> <<>>]
    /\ refused = [s \in Sessions |-> {}]

-----------------------------------------------------------------------------
(* Sockets: Buffer::RecvFrom, Buffer::SendTo and epoll *)

\* RecvFrom appends to the buffer until recv would block (EAGAIN) or returns 0
\* (end of file), and returns the size of the whole buffer; after any other
\* error it returns -1.  The session only asks whether the result is positive.
Received(buf, in, stat) == stat # "reset" /\ buf \o in # <<>>

\* Mutant: one segment is sent, whatever the buffer holds.
SentFirst(data, buf) == <<Head(data)>>

\* SendTo calls send once: a send that takes part of the data is a success.
Sent(data, buf) ==
    LET room == SocketRoom - Len(buf) IN
    IF Len(data) <= room THEN data ELSE SubSeq(data, 1, room)

\* What writing to a peer makes of its status: a peer that has closed answers
\* with a reset, which may arrive later than the session's next call.
AfterSend(stat) == IF stat = "eof" THEN {"eof", "reset"} ELSE {stat}

\* Whether epoll reports the event the session waits for (level-triggered; an
\* end of file, a hang-up or an error counts as an event).
Ready(s) ==
    \/ ev[s].side = "client" /\ cstat[s] # "open"
    \/ ev[s].side = "server" /\ sstat[s] # "open"
    \/ ev[s] = [side |-> "client", events |-> "in"] /\ cin[s] # <<>>
    \/ ev[s] = [side |-> "client", events |-> "out"] /\ Len(cout[s]) < SocketRoom
    \/ ev[s] = [side |-> "server", events |-> "in"] /\ sin[s] # <<>>
    \/ ev[s] = [side |-> "server", events |-> "out"]
-----------------------------------------------------------------------------
(* The twelve actions of the state machine *)

\* StateMachine::TakeAction: the action returns the next state; nullptr ends
\* the session.
Goto(s, state) ==
    /\ st' = [st EXCEPT ![s] = state]
    /\ terminated' = [terminated EXCEPT ![s] = state = "NULL"]

\* Mutant: the session waits for no event.
WaitForNothing(s, side, events) ==
    /\ waiting' = [waiting EXCEPT ![s] = TRUE]
    /\ UNCHANGED ev

\* Mutant: the session says for what, but not that it waits.
GoOn(s, side, events) ==
    /\ ev' = [ev EXCEPT ![s] = [side |-> side, events |-> events]]
    /\ UNCHANGED waiting

\* Mutant: EPOLLIN, whatever the session has to do.
WaitToRead(s, side, events) ==
    /\ ev' = [ev EXCEPT ![s] = [side |-> side, events |-> "in"]]
    /\ waiting' = [waiting EXCEPT ![s] = TRUE]

\* Wait for an event of a socket.
WaitFor(s, side, events) ==
    /\ ev' = [ev EXCEPT ![s] = [side |-> side, events |-> events]]
    /\ waiting' = [waiting EXCEPT ![s] = TRUE]

\* Mutant: after a failure the call is made again.
Retry(s, ok, next) ==
    /\ Goto(s, IF ok THEN next ELSE st[s])
    /\ waiting' = [waiting EXCEPT ![s] = @ /\ ~ok]

\* The result of a call on a socket: on failure the session ends, and waiting_
\* stays as it was; else the session goes on without waiting.
Proceed(s, ok, next) ==
    /\ Goto(s, IF ok THEN next ELSE "NULL")
    /\ waiting' = [waiting EXCEPT ![s] = @ /\ ~ok]

PrepareToReceiveRequest(s) ==
    /\ st[s] = "PREPARE_TO_RECEIVE_REQUEST"
    /\ WaitFor(s, "client", "in")
    /\ Goto(s, "RECEIVE_REQUEST")
    /\ UNCHANGED <<life, initiated, req, resp, down, clientVars, cout, serverVars, sout, refused>>

ReceiveRequest(s) ==
    /\ st[s] = "RECEIVE_REQUEST"
    /\ req' = [req EXCEPT ![s] = @ \o cin[s]]
    /\ cin' = [cin EXCEPT ![s] = <<>>]
    /\ Proceed(s, Received(req[s], cin[s], cstat[s]),
               IF initiated[s] THEN "APPLY_PRE_REQUEST_PLUGINS" ELSE "INITIATE")
    /\ UNCHANGED <<life, initiated, ev, resp, down, cstat, cl, cn, got, cout, serverVars,
                   sout, refused>>

\* A message of 8 bytes is passed on.  Else the role's rolsuper is looked up,
\* outside any try block: a name that is no role ends the whole process.
Initiate(s) ==
    /\ st[s] = "INITIATE"
    /\ LET kind == Head(req[s]).kind IN
       /\ initiated' = [initiated EXCEPT ![s] = kind = "startup"]
       /\ down' = (kind = "norole")
    /\ Goto(s, "PREPARE_TO_FORWARD_REQUEST")
    /\ UNCHANGED <<life, context, clientVars, cout, serverVars, sout, refused>>

\* Mutant: an error of the session's own is added to what the buffer holds.
AddError(s) == Append(resp[s], [kind |-> "PE", n |-> Head(req[s]).n])

\* Response::SetError: the buffer is reinitialised with the error and ReadyForQuery.
SetError(s) == <<[kind |-> "PE", n |-> Head(req[s]).n]>>

\* Mutant: the loop over the plugins does not return after an error.
GoesOn == "PREPARE_TO_FORWARD_REQUEST"

\* Where a refused request goes: its answer is the error, not the server's.
AfterRefusal == "PREPARE_TO_FORWARD_RESPONSE"

\* The plugins of a query let it through (rewritten or not), or refuse it by an
\* error or an exception; they ignore every other message.
ApplyPreRequestPlugins(s) ==
    /\ st[s] = "APPLY_PRE_REQUEST_PLUGINS"
    /\ \/ /\ Goto(s, "PREPARE_TO_FORWARD_REQUEST")
          /\ UNCHANGED <<resp, refused>>
       \/ /\ "reject" \in Env
          /\ Head(req[s]).kind = "query"
          /\ resp' = [resp EXCEPT ![s] = SetError(s)]
          /\ refused' = [refused EXCEPT ![s] = @ \cup {Head(req[s]).n}]
          /\ Goto(s, AfterRefusal)
    /\ UNCHANGED <<life, initiated, waiting, ev, req, down, clientVars, cout, serverVars, sout>>

PrepareToForwardRequest(s) ==
    /\ st[s] = "PREPARE_TO_FORWARD_REQUEST"
    /\ WaitFor(s, "server", "out")
    /\ Goto(s, "FORWARD_REQUEST")
    /\ UNCHANGED <<life, initiated, req, resp, down, clientVars, cout, serverVars, sout, refused>>

\* A request fits the send buffer; what a closed server is sent is lost.  A send on
\* a socket that was never connected raises SIGPIPE, which nothing handles.
ForwardRequest(s) ==
    /\ st[s] = "FORWARD_REQUEST"
    /\ down' = (sstat[s] = "unconnected")
    /\ sout' = IF sstat[s] = "open" THEN [sout EXCEPT ![s] = @ \o req[s]] ELSE sout
    /\ sstat' \in {[sstat EXCEPT ![s] = x] : x \in AfterSend(sstat[s])}
    /\ Proceed(s, sstat[s] # "reset", "PREPARE_TO_RECEIVE_RESPONSE")
    /\ UNCHANGED <<life, initiated, ev, req, resp, clientVars, cout, sin, pend, closing,
                   reply, seen, refused>>

PrepareToReceiveResponse(s) ==
    /\ st[s] = "PREPARE_TO_RECEIVE_RESPONSE"
    /\ WaitFor(s, "server", "in")
    /\ Goto(s, "RECEIVE_RESPONSE")
    /\ UNCHANGED <<life, initiated, req, resp, down, clientVars, cout, serverVars, sout, refused>>

\* Mutant: the first segment is taken for the whole answer.
AnySegment(s, data) == TRUE

\* The lambda ready_for_query of ReceiveResponse.
ReadyForQuery(s, data) ==
    \/ ~initiated[s]
    \/ Head(data).kind \in {"R", "OK", "OKZ"}
    \/ data[Len(data)].kind \in {"OKZ", "Z"}

\* An answer that is not complete leaves the session where it is, waiting.
ReceiveResponse(s) ==
    LET data == resp[s] \o sin[s] IN
    /\ st[s] = "RECEIVE_RESPONSE"
    /\ resp' = [resp EXCEPT ![s] = data]
    /\ sin' = [sin EXCEPT ![s] = <<>>]
    /\ IF Received(resp[s], sin[s], sstat[s]) /\ ~ReadyForQuery(s, data)
       THEN Goto(s, "RECEIVE_RESPONSE") /\ UNCHANGED waiting
       ELSE Proceed(s, Received(resp[s], sin[s], sstat[s]), "APPLY_POST_RESPONSE_PLUGINS")
    /\ UNCHANGED <<life, initiated, ev, req, down, clientVars, cout, sstat, pend, closing,
                   reply, seen, sout, refused>>

\* An exception of a plugin replaces the answer of a query.
ApplyPostResponsePlugins(s) ==
    /\ st[s] = "APPLY_POST_RESPONSE_PLUGINS"
    /\ \/ UNCHANGED resp
       \/ /\ "reject" \in Env
          /\ Head(req[s]).kind = "query"
          /\ resp' = [resp EXCEPT ![s] = SetError(s)]
    /\ Goto(s, "PREPARE_TO_FORWARD_RESPONSE")
    /\ UNCHANGED <<life, initiated, waiting, ev, req, down, clientVars, cout, serverVars,
                   sout, refused>>

PrepareToForwardResponse(s) ==
    /\ st[s] = "PREPARE_TO_FORWARD_RESPONSE"
    /\ WaitFor(s, "client", "out")
    /\ Goto(s, "FORWARD_RESPONSE")
    /\ UNCHANGED <<life, initiated, req, resp, down, clientVars, cout, serverVars, sout, refused>>

\* What a client that has left is sent is lost.
ForwardResponse(s) ==
    /\ st[s] = "FORWARD_RESPONSE"
    /\ cout' = IF cstat[s] = "open"
               THEN [cout EXCEPT ![s] = @ \o Sent(resp[s], cout[s])] ELSE cout
    /\ cstat' \in {[cstat EXCEPT ![s] = x] : x \in AfterSend(cstat[s])}
    /\ Proceed(s, cstat[s] = "eof" \/ (cstat[s] = "open" /\ Sent(resp[s], cout[s]) # <<>>),
               "RESET_CONTEXT")
    /\ UNCHANGED <<life, initiated, ev, req, resp, down, cin, cl, cn, got, serverVars, sout,
                   refused>>

\* Mutant: the response buffer keeps its data.
ResetRequestOnly(s) ==
    /\ waiting' = [waiting EXCEPT ![s] = FALSE]
    /\ ev' = [ev EXCEPT ![s] = NoEvent]
    /\ req' = [req EXCEPT ![s] = <<>>]
    /\ UNCHANGED resp

\* Mutant: the request buffer keeps its data.
ResetResponseOnly(s) ==
    /\ waiting' = [waiting EXCEPT ![s] = FALSE]
    /\ ev' = [ev EXCEPT ![s] = NoEvent]
    /\ resp' = [resp EXCEPT ![s] = <<>>]
    /\ UNCHANGED req

\* Context::Reset: everything but initiated_ is zeroed.
Reset(s) ==
    /\ waiting' = [waiting EXCEPT ![s] = FALSE]
    /\ ev' = [ev EXCEPT ![s] = NoEvent]
    /\ req' = [req EXCEPT ![s] = <<>>]
    /\ resp' = [resp EXCEPT ![s] = <<>>]

ResetContext(s) ==
    /\ st[s] = "RESET_CONTEXT"
    /\ Reset(s)
    /\ Goto(s, "PREPARE_TO_RECEIVE_REQUEST")
    /\ UNCHANGED <<life, initiated, down, clientVars, cout, serverVars, sout, refused>>

\* (*session)();
TakeAction(s) ==
    \/ PrepareToReceiveRequest(s) \/ ReceiveRequest(s) \/ Initiate(s)
    \/ ApplyPreRequestPlugins(s)
    \/ PrepareToForwardRequest(s) \/ ForwardRequest(s)
    \/ PrepareToReceiveResponse(s) \/ ReceiveResponse(s)
    \/ ApplyPostResponsePlugins(s)
    \/ PrepareToForwardResponse(s) \/ ForwardResponse(s)
    \/ ResetContext(s)

\* What the session promises its scheduler to do, and expects of it: a session
\* that waits is only run when its event has come.
Step(s) ==
    /\ life[s] = "live" /\ ~terminated[s]
    /\ waiting[s] => Ready(s)
    /\ TakeAction(s)

\* ProxyServer::Run creates the session for a client that has connected.  When
\* ServerConn cannot connect its socket, it only says so.
Connect(s) ==
    /\ life[s] = "new"
    /\ life' = [life EXCEPT ![s] = "live"]
    /\ \/ UNCHANGED sstat
       \/ /\ "noserver" \in Env
          /\ sstat' = [sstat EXCEPT ![s] = "unconnected"]
    /\ UNCHANGED <<terminated, st, initiated, context, down, clientVars, cout, sin, pend,
                   closing, reply, seen, sout, refused>>

\* SessionOperator::Work deletes a session that has ended; both sockets close.
Delete(s) ==
    /\ life[s] = "live" /\ terminated[s]
    /\ life' = [life EXCEPT ![s] = "deleted"]
    /\ UNCHANGED <<terminated, st, initiated, context, down, clientVars, cout, serverVars,
                   sout, refused>>
-----------------------------------------------------------------------------
(* The client: a simple-protocol client, which sends one message at a time *)

Send(s, kind, next) ==
    /\ cn[s] < MaxMessages
    /\ cn' = [cn EXCEPT ![s] = @ + 1]
    /\ cin' = [cin EXCEPT ![s] = Append(@, [kind |-> kind, n |-> cn[s] + 1])]
    /\ cl' = [cl EXCEPT ![s] = next]
    /\ got' = [got EXCEPT ![s] = <<>>]

ClientSend(s) ==
    /\ life[s] = "live" /\ cstat[s] = "open"
    /\ \/ /\ cl[s] = "new" /\ "ssl" \in Env
          /\ Send(s, "ssl", "ssl")
          /\ UNCHANGED cstat
       \/ /\ cl[s] \in {"new", "declined"}
          /\ \E kind \in {"startup"} \cup (Env \cap {"norole"}) : Send(s, kind, "startup")
          /\ UNCHANGED cstat
       \/ /\ cl[s] = "asked"
          /\ Send(s, "password", "password")
          /\ UNCHANGED cstat
       \/ /\ cl[s] = "idle"
          /\ Send(s, "query", "busy")
          /\ UNCHANGED cstat
       \/ /\ cl[s] = "idle"
          /\ Send(s, "terminate", "closed")
          /\ cstat' = [cstat EXCEPT ![s] = "eof"]
    /\ UNCHANGED <<life, terminated, st, initiated, context, down, cout, serverVars, sout,
                   refused>>

\* What a client makes of a segment.
ClientAfter(state, kind) ==
    CASE kind \in {"Z", "OKZ", "PE"}          -> "idle"
      [] kind = "N"                           -> "declined"
      [] kind = "R"                           -> "asked"
      [] kind = "E"                           -> "closed"
      [] OTHER                                -> state

ClientRead(s) ==
    /\ cl[s] # "closed" /\ cout[s] # <<>>
    /\ got' = [got EXCEPT ![s] = Append(@, Head(cout[s]))]
    /\ cl' = [cl EXCEPT ![s] = ClientAfter(@, Head(cout[s]).kind)]
    /\ cout' = [cout EXCEPT ![s] = Tail(@)]
    /\ cstat' = IF cl'[s] = "closed" THEN [cstat EXCEPT ![s] = "eof"] ELSE cstat
    /\ UNCHANGED <<life, terminated, st, initiated, context, down, cin, cn, serverVars, sout,
                   refused>>

\* The client closes its connection, or the connection breaks.
ClientLeaves(s) ==
    /\ life[s] = "live" /\ cl[s] # "closed"
    /\ cl[s] \in Awaiting => "impatient" \in Env
    /\ cl' = [cl EXCEPT ![s] = "closed"]
    /\ \E x \in {"eof"} \cup (Env \cap {"reset"}) : cstat' = [cstat EXCEPT ![s] = x]
    /\ cout' = [cout EXCEPT ![s] = <<>>]
    /\ UNCHANGED <<life, terminated, st, initiated, context, down, cin, cn, got, serverVars,
                   sout, refused>>

\* The client sees the connection closed by the proxy, once it has read all.
ClientSeesEnd(s) ==
    /\ life[s] = "deleted" /\ cl[s] # "closed" /\ cout[s] = <<>>
    /\ cl' = [cl EXCEPT ![s] = "closed"]
    /\ UNCHANGED <<life, terminated, st, initiated, context, down, cin, cstat, cn, got, cout,
                   serverVars, sout, refused>>

-----------------------------------------------------------------------------
(* The server *)

Authenticated == {<<"OKZ">>} \cup (IF "splitAuth" \in Env THEN {<<"OK", "Z">>} ELSE {})

Answers(kind) ==
    LET fatal == IF "fatal" \in Env THEN {<<"E">>} ELSE {} IN
    CASE kind = "ssl"      -> {<<"N">>}
      [] kind = "startup"  -> (IF "password" \in Env THEN {<<"R">>} ELSE Authenticated) \cup fatal
      [] kind = "password" -> Authenticated \cup fatal
      [] kind = "query"    -> {<<"Z">>} \cup (IF "split" \in Env THEN {<<"D", "Z">>} ELSE {})
                                        \cup (IF "long" \in Env THEN {<<"D", "D", "Z">>} ELSE {})
                                        \cup fatal
      [] OTHER             -> {<<>>}

\* The server reads a request and prepares its answer; it closes the connection
\* after a FATAL error or a Terminate.
ServerRead(s) ==
    LET r == Head(sout[s]) IN
    /\ life[s] = "live" /\ sstat[s] = "open"
    /\ sout[s] # <<>> /\ pend[s] = <<>> /\ ~closing[s]
    /\ \E a \in Answers(r.kind) :
         /\ reply' = [reply EXCEPT ![s] = [i \in DOMAIN a |-> [kind |-> a[i], n |-> r.n]]]
         /\ pend' = [pend EXCEPT ![s] = reply'[s]]
         /\ closing' = [closing EXCEPT ![s] = a \in {<<>>, <<"E">>}]
    /\ seen' = [seen EXCEPT ![s] = Append(@, r.n)]
    /\ sout' = [sout EXCEPT ![s] = Tail(@)]
    /\ UNCHANGED <<life, terminated, st, initiated, context, down, clientVars, cout, sin,
                   sstat, refused>>

\* A segment reaches the proxy.
ServerSend(s) ==
    /\ life[s] = "live" /\ sstat[s] = "open" /\ pend[s] # <<>>
    /\ sin' = [sin EXCEPT ![s] = Append(@, Head(pend[s]))]
    /\ pend' = [pend EXCEPT ![s] = Tail(@)]
    /\ UNCHANGED <<life, terminated, st, initiated, context, down, clientVars, cout, sstat,
                   closing, reply, seen, sout, refused>>

\* The server closes the connection.
ServerCloses(s) ==
    /\ life[s] = "live" /\ sstat[s] = "open"
    /\ closing[s] /\ pend[s] = <<>>
    /\ sstat' = [sstat EXCEPT ![s] = "eof"]
    /\ UNCHANGED <<life, terminated, st, initiated, context, down, clientVars, cout, sin, pend,
                   closing, reply, seen, sout, refused>>

\* The connection to the server breaks.
ServerBreaks(s) ==
    /\ "reset" \in Env
    /\ life[s] = "live" /\ sstat[s] = "open"
    /\ sstat' = [sstat EXCEPT ![s] = "reset"]
    /\ pend' = [pend EXCEPT ![s] = <<>>]
    /\ UNCHANGED <<life, terminated, st, initiated, context, down, clientVars, cout, sin,
                   closing, reply, seen, sout, refused>>

\* What the client and the server do when they can; and what they may do, failures
\* included: no wait may rely on one of those.
PeersRespond(s) == ClientRead(s) \/ ClientSeesEnd(s) \/ ServerRead(s) \/ ServerSend(s)
                   \/ ServerCloses(s)
Peers(s)        == PeersRespond(s) \/ ClientSend(s) \/ ClientLeaves(s) \/ ServerBreaks(s)

-----------------------------------------------------------------------------
\* Every client has come and gone, or the process has ended.
Over == down \/ \A s \in Sessions : life[s] = "deleted" /\ cl[s] = "closed"

Next ==
    \/ /\ ~down
       /\ \E s \in Sessions : Connect(s) \/ Step(s) \/ Delete(s) \/ Peers(s)
    \/ Over /\ UNCHANGED vars

\* A session that can run is run and a session that has ended is deleted; the
\* client reads what it is sent and the server answers what it reads, and closes
\* when it is to.
Fairness ==
    \A s \in Sessions :
        /\ WF_vars(~down /\ Step(s))
        /\ WF_vars(~down /\ Delete(s))
        /\ WF_vars(~down /\ PeersRespond(s))

Spec     == Init /\ [][Next]_vars
FairSpec == Spec /\ Fairness

-----------------------------------------------------------------------------
(* Properties *)

\* A client that has sent message n reads only answers to message n, whatever
\* was refused, replaced or cut short before.
OwnAnswersOnly ==
    \A s \in Sessions : \A i \in DOMAIN cout[s] : cout[s][i].n = cn[s]

\* A client goes idle only on the server's whole answer, in its order and once,
\* or on one error of the proxy in its place.
AnswersComplete ==
    \A s \in Sessions :
        cl[s] = "idle" => got[s] \in {reply[s], <<[kind |-> "PE", n |-> cn[s]]>>}

\* The server sees each request at most once and in the client's order.
RequestsOnceInOrder ==
    \A s \in Sessions : \A i, j \in DOMAIN seen[s] : i < j => seen[s][i] < seen[s][j]

\* A query that the plugins refused never reaches the server.
RefusedNeverForwarded ==
    \A s \in Sessions :
        /\ \A i \in DOMAIN seen[s] : seen[s][i] \notin refused[s]
        /\ \A i \in DOMAIN sout[s] : sout[s][i].n \notin refused[s]

\* An answer that starts with 'R' and has its first segment taken for all of it.
AuthenticationSplit(s) == reply[s] # <<>> /\ Head(reply[s]).kind = "OK"

\* When the session turns to the client again, nothing of the last exchange is
\* left in its buffers or underway between the proxy and the server; but for the
\* rest of a startup answer that comes in two segments.
NothingLeftBehind ==
    \A s \in Sessions :
        st[s] \in {"PREPARE_TO_RECEIVE_REQUEST", "RECEIVE_REQUEST"}
            /\ ~AuthenticationSplit(s) =>
            /\ req[s] = <<>> /\ resp[s] = <<>>
            /\ sin[s] = <<>> /\ sout[s] = <<>> /\ pend[s] = <<>>

\* When the session resets its context, the client's socket has the whole answer,
\* or the beginning of one for which there was no room (Buffer::SendTo calls send
\* once, and ForwardResponse takes a part for success): nothing from before, from
\* its middle, or twice.
ResponseForwardedWhole ==
    \A s \in Sessions :
        st[s] = "RESET_CONTEXT" /\ cstat[s] = "open" /\ cn[s] = Head(req[s]).n =>
            got[s] \o cout[s] = IF Len(resp[s]) <= SocketRoom THEN resp[s]
                                ELSE SubSeq(resp[s], 1, SocketRoom)

\* A session ends only when a peer is gone, and then epoll keeps reporting the
\* event the session still waits for: only so does Work get to delete it.
EndedIsReported ==
    \A s \in Sessions :
        terminated[s] => /\ cstat[s] # "open" \/ sstat[s] # "open"
                         /\ waiting[s] => Ready(s)

\* The client has read the beginning of an answer whose rest the proxy does not
\* forward: one send took no more, or the answer started
\* with 'R' and came in two segments.
CutShort(s) ==
    /\ got[s] # <<>> /\ Len(got[s]) < Len(reply[s])
    /\ got[s] = SubSeq(reply[s], 1, Len(got[s]))
    /\ Len(got[s]) = SocketRoom \/ AuthenticationSplit(s)

\* It is for the peer to act: a client that is to send or has an answer to read,
\* a server that has a request to read, an answer to send or a connection to close;
\* or a client that waits for the rest of an answer that was cut short.
PeersTurn(s) ==
    \/ ev[s].side = "client" /\ (cl[s] \notin Awaiting \/ cout[s] # <<>> \/ CutShort(s))
    \/ ev[s].side = "server" /\ (sout[s] # <<>> \/ pend[s] # <<>> \/ closing[s])

\* Client, proxy and server never wait for each other: when the event a session
\* waits for has not come, it is the turn of the peer it waits for.
NobodyIsStuck ==
    \A s \in Sessions : life[s] = "live" /\ waiting[s] /\ ~Ready(s) => PeersTurn(s)

\* Every message of a client is answered, or its connection is closed, or it has read
\* the beginning of an answer whose rest the proxy has dropped.
RequestAnswered ==
    \A s \in Sessions : \A state \in Awaiting :
        cl[s] = state ~> (cl[s] # state \/ down \/ CutShort(s))

\* The session of a client that is gone is deleted and its sockets are closed.
SessionReclaimed ==
    \A s \in Sessions : cl[s] = "closed" ~> (life[s] = "deleted" \/ down)
=============================================================================
