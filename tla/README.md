# pg-fort: a verification development

pg-fort is a proxy between PostgreSQL clients and one PostgreSQL server. It reads
each client's requests, rewrites or refuses some of them by access rules, forwards
them and carries the answers back. This directory holds TLA+ modules that model
its concurrent core, the TLC configurations that check them on small instances,
and proofs that TLAPS checks for every instance.

Source paths below are relative to `src/src/lib/` of the repository unless they
start with `schema/` or `tests/`.

## 1. Inventory

| Part | State it keeps | Operations | Talks to |
|---|---|---|---|
| `ProxyServer` (`proxy-server/`) | listening socket, the operator | `Run`: start the operator; select, accept, create a session, submit it. Destructor: `Stop` | `SessionOperator` |
| `SessionOperator` (`session/session-operator.cpp`) | epoll descriptor, watcher thread | `Work` (pop a session; delete it, or run it and pass it on), `AddToWatch`, `Watch`, `Start`, `Stop` | `ThreadPool` (base), `Session`, epoll |
| `ThreadPool`, `BlockingQueue` (`concurrency/`) | threads, `stopped_`, queue, mutex, condition variable | `Start`, `Stop`, `Submit`; `Push`, `Pop` with time-out, `Size` | everything that runs or queues |
| `Session` (`session/session.cpp`), `StateMachine` | current state, `terminated_`, context (`waiting_`, `ev_`, request, response, query), role parameters | twelve actions, from `PrepareToReceiveRequest` to `ResetContext` | both sockets, plugins |
| Plugins (`session/plugin.cpp`) | none of their own | six before a request is forwarded, two after its answer | `Query`, `QueryAcler`, `ProxyCommand`, pool, tracker |
| `Buffer`, `Conn` and the messages (`conn/`) | bytes, sizes, a socket | `RecvFrom`, `SendTo`, `SetQuery`, `SetError` | the kernel |
| `PqxxConnPool` (`conn/pqxx-conn.cpp`) | queue of connections, size | `Acquire`, `Release` (from a connection's destructor) | `BlockingQueue`, the server |
| `SchemaTracker` (`schema/`) | set of table names, shared mutex | `Refresh`, `AddRelName`, `Exist` | pool, plugins |
| `Query`, `QueryAcler`, `ProxyCommand` (`query/`) | a syntax tree | parse, replace tables by ACL views, translate access commands to SQL | tracker |
| Access rule tables (`schema/20220817221633-initial.sql`) | bindings per row, inheritances | a trigger that keeps inherited bindings | the server |
| `PersistentDeque` (`persistent-deque/`) | a table, a transaction per element | push, look at, pop and release at both ends | the server |

How they work together: the main thread accepts a client and submits a `Session`
to the operator's queue. Four workers take sessions out of the queue. Each runs a
session for exactly one action, and then registers it with epoll if it waits for
a socket, or queues it again. The watcher thread takes ready sessions out of
epoll and queues them. A session is only ever a bare pointer, protected by no
lock; it is deleted by the worker that pops it after it has ended.

What is hard here, and the property each part is correct by:

- *who owns a session*: it must be in exactly one place, or two threads run it,
  or one runs what another has deleted, or its client hangs (`ExclusiveOwner`,
  `ImplementsOwnership`);
- *what epoll holds*: the watcher unregisters the socket that the session names
  at that moment, not the one registered, and exits the process if that fails
  (`EpollCtlSucceeds`, `BatchIsRegistered`), so nothing may run a session that
  epoll has (`WatchedIsUntouched`, a theorem);
- *a session that ends while it waits* goes to epoll once more and is deleted only
  if epoll reports it (`EndedIsReported`, `SessionReclaimed`);
- *nobody waits for somebody who waits*: client, session and server are each blocked on
  the next one's socket for most of the time, and the session is besides in a place from
  which a thread or the kernel must fetch it (`NobodyIsStuck`, `NobodyStalls`);
- *one context, reset after each exchange*: what a refused, cut or replaced
  answer leaves must not reach the next one (`OwnAnswersOnly`, `AnswersComplete`,
  `RefusedNeverForwarded`, `RequestsOnceInOrder`, `NothingLeftBehind`);
- *sockets*: segments, ends of file, resets and full buffers come in any order
  (`RequestAnswered`, `ResponseForwardedWhole`);
- *stopping*: threads that are joined may be blocked or in a batch (`StopJoins`,
  `ReportedIsQueued`);
- *the buffer* grows while it is read, by sizes that the proxy's own messages reset,
  and an answer is complete when its last bytes say so, however it was cut
  (`NoOverrun`, `TakenWhole`, `PassedOn`); to the session the calls of `recv` are one step
  (`ReceivesAtOnce`);
- *the pool* replaces connections in a destructor and reads a size without a lock
  (`PoolAccounted`, `AcquireFindsOne`, `LostByRacesOnly`, `OpenBounded`);
- *the queue* notifies after it has unlocked, and waits that end by the clock do not
  look again (`NoLostWakeUp`, `ImplementsPool`);
- *access rules* are copied from row to row by a trigger, while other clients bind and
  unbind: a grant that is taken back must be gone everywhere, and one that is given
  must stay revocable (`RevokedIsGone`, `Revocable`, `SourceHolds`, `TwiceTwoWays`);
- *what the proxy believes of the database*: names of relations and a role are read
  before a request is forwarded, and written after its answer, while other sessions
  change the database and the proxy restarts (`KnownAreJoined`, `RoleBelieved`);
- *the deque* relies on row locks and a sequence: crashes, releases, lost answers
  and concurrent scans must neither lose nor duplicate an element (`PopIsFinal`,
  `AckedSurvives`, `ProducerOrder`, `ImplementsLeases`).

`PROJECT.json` lists every hazard at its line with the properties that cover it,
or with the reason why none does yet.

## 2. Modules

| Module | What it is |
|---|---|
| `SessionOperator` | the workers, the watcher, the accept loop and `Stop`, with the job queue and epoll. What a session does when it is run is left open |
| `Ownership` | what the operator promises: sessions are handed from owner to owner, and only the worker that owns one changes its context |
| `SessionOperator_proofs` | proofs for any number of sessions, workers and events |
| `Session` | one session's state machine between a client and a server, which are environment actions |
| `SessionInvariants`, `Session_proofs` | the inductive invariant of `Session`, and the proofs, for any number of sessions and messages and any peers |
| `Proxy`, `Proxy_proofs` | the composition: `SessionOperator` extended, `Session` instantiated on shared variables, with epoll reporting exactly what is ready; and the proofs that it implements both and keeps what is proved of them |
| `Buffer`, `Buffer_proofs` | one buffer of a session, byte by byte, over its exchanges; and proofs for any sizes |
| `Receiver` | what `RecvFrom` and the test of an answer are to the session that calls them: one step |
| `ConnPool` | the connection pool on an atomic queue |
| `QueuedPool`, `QueuedPool_proofs` | the same pool on the queue as it is written, with its mutex and condition variable; and proofs about both, for any number of threads and any size |
| `AccessRules`, `AccessRules_proofs` | the tables of access rules, the trigger that copies inherited bindings, and the commands that change them; and proofs for any tables, inheritances and clients |
| `PersistentDeque`, `PersistentDeque_proofs` | the deque in a table, and proofs for any number of instances |
| `Schema`, `Schema_proofs` | the schema tracker, the plugins that use it and the role a session believes it has, against the database's catalogue; and proofs for any sessions, tables and roles |
| `LeasedItems` | what the deque promises its consumers: exclusive leases of items |
| `MCSessionOperator`, `MCSession`, `MCProxy`, `MCSchema`, `MCBuffer`, `MCAccessRules` | symmetry, environments, answers and tables for TLC |

### SessionOperator

One variable per piece of shared state: `queue` is `job_queue_`, `epoll` the
entries registered with `epollfd_`, `held[w]` the local `session` of `Work`,
`batch` what is left of `events[]` in `Watch`, `hand` the watcher's `s` between
its `epoll_ctl` and its `Submit`, `stopped` is `stopped_`; `wpc` and `watcher`
are program counters. `life` tells whether the object exists. `waiting`,
`terminated` and `ev` are the three parts of a session that the operator reads.

`Work` is cut at the points where other threads can act in between: `BeginWork`
(the loop's test of `stopped_`), `Pop`, `PopWait` and `PopTimeout` (the condition
variable), then `DeleteSession`, or `Run` followed by `AddToWatch` or `Resubmit`.
`Watch` is `BeginWatch`, `EpollWait`, and for each event `Unwatch` followed by
`SubmitReady`. A pop, a push and an `epoll_ctl` are atomic, by the queue's mutex
and the kernel. `Run` changes `waiting`, `terminated` and `ev` in any way at all,
so the properties hold for every session class that names an event when it waits.

`Pop` from `wait` stands for both a wake-up and a spurious one. `PopTimeout`
may fire with a session in the queue, because `wait_until` reports a time-out by
the clock and `Pop` then returns without looking again.

An `epoll_ctl` that fails sets `failed`, after which nothing happens: the code
calls `exit`. `epoll_wait` returns any subset of the registered entries up to
`MaxEvents`, also none; that includes the time-out and `EINTR`. Closing a socket
takes it out of epoll, since no descriptor is duplicated. `stopped_` is a plain
`bool` read by other threads without synchronisation; the loops that read it call
functions the compiler cannot see through, so it is read anew each time, and the
model reads its current value.

`Ownership` leaves out the loops of the threads and the order of the queue. `owners[s]`
is the set of those who have a pointer to `s`; it is empty before `Accept` and after
`Delete`, and one owner gives it to one other in between. `SessionOperator` implements
it with `OwnersOf(s)`: every worker whose `held` it is, the queue, epoll, the watcher's
hand. A worker that kept its pointer after `Work`, or an entry that stayed in epoll, would
be a second member.

### Session

`st` is `current_state_`; each of the twelve actions of `session.cpp` is one
TLA+ action with the same name. `WaitFor` is the assignment to `ev_` and
`waiting_` that the four Prepare actions share, `Proceed` is the pattern of the
four actions that use a socket (fail: `nullptr`, leave `waiting_`; succeed: clear
it), `Goto` is `StateMachine::TakeAction`, `Reset` is `Context::Reset`.

Data are tokens. A request is its kind and its number; an answer is a sequence of
segments, one per packet of the server, each with the number of the request that
it answers. `Received` is `RecvFrom`: all that is there is appended, an end of file
counts as success as soon as the buffer holds anything, other errors are failures.
`Sent` is `SendTo`: one `send`, which may take a part. `ReadyForQuery` is the
lambda of `ReceiveResponse`. `Initiate` passes a message of at most eight bytes
on and looks the role up otherwise; `down` is the exception, for a name that is no
role, that no `try` catches, or the SIGPIPE that `send` raises on a socket that was
never connected: `ServerConn` only reports that it could not connect (`Connect`,
`ForwardRequest`). The plugins let a request pass or refuse it, and after
the answer leave it or replace it by an error: which one is a choice.

The client sends one message at a time and may leave at any time; the server
answers what it reads in one or more segments, may ask for a password, may end
the connection with a FATAL error; either connection may break. The constant
`Env` names which of these a run allows; `session_safety` allows all. `got`, `reply`,
`seen` and `refused` are histories of what the two ends have seen.

Two things the model shows that the invariants have to allow for. An answer that
starts with `R` is forwarded at its first segment (`session.cpp:246`): when the end of
authentication comes in two segments, the second, with its ReadyForQuery, stays at the
server's socket, and `NothingLeftBehind` exempts the exchange after it
(`AuthenticationSplit`). And `SendTo` calls `send` once (`buffer.cpp:80`; the TODO
above it speaks of more) while `ForwardResponse` takes a part for success, so what a
full send buffer leaves is dropped: `ResponseForwardedWhole` promises the beginning of
such an answer and no more. In both cases the client may wait for a rest that never
comes (`CutShort`); that is the one wait that `PeersTurn` lists without anyone to end it.

`NobodyIsStuck` says of every other wait whose turn it is. A session that waits for its
client has given it all of the last answer, so the client is free to send, or has
something to read; one that waits for the server has forwarded a request the server has
not read, or the server has something more to send or is about to close.

### Proxy

`Proxy` extends `SessionOperator` and instantiates `Session` on the variables they
share. A worker's `RunSession` is `BeginRun` with `Session!TakeAction`; `WorkOn` is
every other step of a worker, with what only sessions know unchanged; `AcceptClient`
is `Accept` with `Session!Connect`. The peers run beside them. `EpollReports`
restricts `epoll_wait` to entries whose event has come (`ReadyEntries`), all of them or
`MAX_EVENTS`. `Stop` is not part of it: `ProxyServer::Run` never returns.

`ImplementsOperator` is the operator's `Spec` and `ImplementsSessions` is
`Session!Spec`, both on the composition's own variables: what is proved of either
holds of the proxy. The second is where the two depend on each other. `Session!Step`
requires that a session which waits is run only when its event is there, and nothing
in the code tests it: it holds because epoll reported the session, at some time before,
and because neither peer can take an event away again.

`NobodyStalls` joins the two sides: a session that no thread and no queue has is
registered with epoll, for an event that is there or one whose peer is due to act. It
would be violated by a session that is registered for the wrong socket or the wrong event
(`WaitToRead`), as well as by one that is in no place at all.

### Buffer

`cap`, `buf_size` and `data_size` are the three sizes of `Buffer`; a byte is a position
in the peer's message. `Arrive` is a segment, of any size, also in the middle of
`RecvFrom`. `EnterRecvFrom`, `Recv` and `Return` are `RecvFrom`; `SetOwn` is
`SetError` and `SetQuery`, which leave `buf_size_` at 0 and so make `EnterRecvFrom`
start again; `Test` is the lambda of `ReceiveResponse` by its first byte and its last
six. Where there are fewer than six bytes the code reads before the buffer's beginning:
upper bytes of the allocator's size field, which are 0 and never `Z` (`LooksReady`).
`looksReady` names the positions behind which an answer has bytes that look like a
ReadyForQuery; an answer with one inside may be cut there (`Cut`), and the model stops
at that. `Context::Reset` makes the buffer anew.

`Receiver` has the same exchanges without the buffer, and one step `Receive` that takes
what has arrived and decides by it. `Buffer` implements it: what a call of `RecvFrom` has
read counts as taken only when it returns (`before` is what had been taken when it was
called), and the test is decided from then on. `Return` is the step that implements
`Receive`; were `recv` called once, it would leave something that had arrived.

### ConnPool

`idle` is the number of connections in `conns_`, `pc` follows each thread through
`Acquire`, its use of the connection, and the destructor: `ReadSize` (the test of
`Release`), `Open` (a new connection, or an exception out of a destructor, which
ends the process), `Push`, and `Close` (the base class's destructor). `ReadSize` may
read anything while another thread could be changing the queue: `Size` takes no
lock, and an `std::deque`'s size is computed from several pointers. `lost` counts
the connections that were not replaced. A thread's own steps between `Acquire` and
the destructor do not touch the pool.

### QueuedPool

`QueuedPool` extends `ConnPool` and replaces the steps that use the queue by what
`BlockingQueue` does: `owner` is who has locked `m_`, `waiters` who is blocked in
`cv_`, `step` where a thread is inside `Pop` or `Push`. `Pop` is `LockPop`, then `Find`
and `Take`, or `Block`, from which `NotifyOne`, a spurious wake-up or the clock (`Wake`)
frees it, to lock and look again, or to return without a look (`Expire`). `Push` is
`LockPush`, `Put`, which unlocks, and then `NotifyOne`. `ImplementsPool` is `ConnPool`'s
`Spec` on the same variables.

### AccessRules

`refs`, `inherits` and `bindings` are the three tables of the schema; `table` and `up`
are the rows of the controlled tables and where their columns point. `BeginInsert` and
`BeginUpdate` are a statement of a client up to the end of the trigger
`__set_access_bindings__`, which copies what it sees of the rows it points to
(`Copies`); `Commit` puts the row and its copies there if the foreign keys still hold
(`KeysHold`), and any other client's commands may come in between, in any number.
`BindAccessRole`, `UnbindAccessRole`, `CreateAccessInheritance` and `DeleteInheritances`
are the commands as `ProxyCommand` translates them, with the cascades of the keys and
the rule that protects the inheritance 0 (`Self`).

Tables are controlled from the start; a role and a principal are one token (`Grants`).
Two histories serve the properties. `strayed` are the rows that an update has made point
elsewhere: the trigger deletes what it replaces and replaces only what it copies, so a row
that is moved under one without bindings keeps those it had. `lost` has each row and
reference that parted otherwise than by UNBIND: the row or the inheritance was deleted,
the row was moved, or a trigger replaced what its source had lost (`Forgone`). The code
leaves the copies of what is lost where they are, and `SourceHolds` says so: what a row
that was not moved has inherited, a row it points to has, or is on record as having lost.
It is about every behaviour; what it excepts are rows, those in `strayed`.

`TwiceTwoWays` is about the trigger's failure: `ON CONFLICT DO UPDATE` cannot touch one row
twice, so when a row holds one reference by two inheritances, every INSERT and UPDATE of
the rows that point to it fails (`TriggerFails`). That does happen, and the run reaches it
in two ways: by two inheritances into one table (`Diamond`; `tests/sql/binding_test.sql` has
two into `ccc`), and by a binding that comes back to the row it is from (`Cycle`), which
takes a row that was moved. The property says that there is no third way.

### PersistentDeque

`rows` is the table, `seq` its BIGSERIAL, and `pos[i]` the position that instance
`i`'s transaction is about. A push is `Insert` and `CommitPush`; a look at an end
is `BeginSelect`, one `Skip` for each row that is locked or gone by the time the
SELECT reaches it, and `Hold`; a `Pop` is `Delete` and `CommitPop`. `Rollback` may
follow any of these: `Release`, the destructor, an error, a crash. `Break` is a
rollback by the server that leaves the `Element` with its caller, who learns of
it when he calls `Pop`. A commit whose answer is lost is a commit: `CommitPush`
may leave the position out of `owed`, and for `CommitPop` it makes no difference to
the table. PostgreSQL's part is read committed isolation: the SELECT sees the rows
committed when it began and looks at each one anew before it locks it.

`LeasedItems` is the promise of the header: a holder has an item alone, gives it
back or finishes it. `PersistentDeque` implements it with a locked row as the
lease; a `Break` gives the item back although the caller has not noticed, so work
on an element may be done twice, but only one of the two can `Pop` it.

### Schema

`relnames` is the tracker's set, shared by all sessions and locked by each of its
functions, which are therefore operators here; `rolsuper` is the session's parameter.
`catalog` and `role` are what is true at the server: a table, its bindings table
with a foreign key, and its view, for each name. `pc`, `req`, `how` and `answer`
follow a session's request, one statement outside of a transaction block about one
relation.

`Ask` is a request that arrives. `ApplyPreRequestPlugins` decides what becomes of it:
a SELECT is joined with the view of its relation (`MustJoin`), a DROP TABLE becomes
DROP ... CASCADE when the plugin's test transaction succeeds (`MayCascade`,
`TestDrop`), a CREATE TABLE whose "id" does not fit is refused. The `Execute` actions
are the server, in any order between sessions, and each statement may fail.
`ApplyPostResponsePlugins` adds the created table to the tracker, and looks a new role
up after SET ROLE; that look-up may throw, which turns the answer into an error
(`misled`). `ForwardResponse` lets the client know. Sessions end and are replaced at
any point, also with a statement still at the server (`orphan`), and the proxy
restarts. `known` and `relied` are histories: the tables whose creator has been told,
and whether a request named one of them.

Two things the model shows of `DropTable` and no comment promises otherwise: its test
fails as long as the view `T__acls__` exists, so a controlled table is dropped with
CASCADE only after its view; and that CASCADE removes the bindings table's foreign
key, not the bindings table, which then stands in the way of a new ENABLE.

Left out: what joins and subqueries a statement has beyond one relation of its FROM
clause, CREATE TABLE AS, renames, schemas other than the default one, queries of several
statements, what changes the role other than SET ROLE (SET SESSION AUTHORIZATION, DISCARD
ALL, and ALTER ROLE for `rolsuper`; the plugin looks at none of them), and statements
inside a transaction block: a ROLLBACK may undo them after a plugin has noted them,
and a lock the block holds makes the test of its own DROP TABLE, on another
connection, wait for a request that the waiting worker would have to forward.

## 3. Runs

| Run | Instance | Shows |
|---|---|---|
| `so_safety` | 3 sessions, 2 workers, `MaxEvents` 2, symmetric | ownership, epoll, batches |
| `so_liveness` | 2 sessions, 2 workers | the operator implements `Ownership`; a queued session is served, a reported one is queued, `Stop` returns |
| `session_safety` | 1 session, 6 messages, every behaviour of the peers | the exchange's invariants, and whose turn it is when the session waits |
| `proxy_refinement` | 2 sessions, 2 workers, 1 event at a time, impatient clients, answers in one segment or two | the composition implements both components, and forgets no session |
| `proxy_liveness` | 1 session, 2 workers, 4 messages, every behaviour of the peers but FATAL errors | every request is answered, or its answer is cut short, or its connection is closed; sessions of clients that left are deleted |
| `pool_safety` | 4 threads, 4 connections | the pool's account, no lost wake-up, and that the queue's lock makes `Pop` and `Push` atomic |
| `deque_safety` | 2 instances, 3 pushes | leases, durability, order |
| `schema_safety` | 2 sessions, 1 table, 2 roles, symmetric | which queries are joined, and the role believed |
| `access_rules` | 2 clients, 2 tables with 2 columns, 3 rows, 2 references, 2 inheritances, 1 move, symmetric | revocation, where inherited bindings come from, how a row comes to have a grant twice |
| `buffer_safety` | answers of up to 10 bytes in any cut, `DEFAULT_SIZE` 2, own messages of 1, 4 and 9 bytes | room for `recv`, whole answers, that each is passed on, and that receiving is one step |
| `session_fatal`, `schema_restart` | 1 session | two disagreements, below |

Why these bounds are enough to meet the interesting cases. Two workers are the
fewest that can race for one session, and one of them can hold a session while
the other deletes or registers another. Three sessions with `MaxEvents` 2 let a
batch have a second entry while a third session is left out. Six messages are an
SSLRequest, a startup, a password and three more, so a query follows another one
that was refused, split or replaced. In `Proxy`, one event per wait with two
sessions leaves a ready session unreported. Four threads are the proxy's workers, and
with as many connections the pool has enough until one is lost, after which threads
block, are woken and are outrun. Ten bytes with a `DEFAULT_SIZE` of two let the buffer
double three times, and own messages of 1, 4 and 9 bytes fit the initial buffer, fill
it and exceed it. Three rows are a row, one that inherits from it and one
that inherits from that; two references can be given to one row or to two; documents are
in folders and may belong to another document, so there are copies of copies, and a
document that is in a folder and belongs to a document of that folder has a grant twice;
one document that is moved can close a cycle. Four messages in `proxy_liveness` are an
SSLRequest, a startup, a password and a query: each kind of wait, also for a long or a
split answer that is cut short. Two instances of the deque can
push, scan and hold against each other, and three elements let a scan skip one and
still choose among two. Two sessions of `Schema` are the one that creates or drops a
table and the one that relies on it, and one superuser and one other role are
what the plugins tell apart; nothing in the tracker relates two tables.
`SocketRoom` is 2, so that an answer in two segments fits and one in three does not.

`MaxMessages` bounds the client's messages; `MaxEvents` is the code's
`MAX_EVENTS` and `PoolSize` its `size_`, made small. `MaxSeq` bounds the pushes to a
deque; `MaxRows`, `MaxRefs`, `MaxInh` and `MaxMoves` bound what is inserted, bound,
created and moved in `AccessRules`. Nothing else is bounded by the models.

Symmetry is used in runs without liveness only.
Deadlock is checked in every run: the only states without a real step are those in
which the threads have been joined, the process has ended, or every client has
come and gone, and those stutter.

### Fairness

- Each worker and the watcher: weak fairness of its whole step. The threads do
  nothing else and block only in waits with time-outs (`Pop` 1000 ms, `epoll_wait`
  1000 ms), so a thread that can go on eventually does. `PopTimeout` is always
  possible from a wait; no strong fairness is assumed of who gets an item.
- In `Proxy`, `epoll_wait` reports what is ready, which is what the kernel does.
- `Session` on its own assumes that a session whose event has come is run, and that
  one that has ended is deleted. `proxy_liveness` does without: it assumes only the
  threads' fairness and gets the same `RequestAnswered`.
- Peers: a client reads what it is sent; a server answers what it reads and closes its
  connection after a FATAL error or a Terminate. They need never send anything more,
  nor leave, and a connection need not break (`ServerBreaks` is outside the fairness):
  a breaking connection would end every wait for it, and hide one that never ends.
- `Buffer`: a message that has begun to arrive arrives whole, and the session that runs
  goes on; that a session is run when its socket is ready is `Proxy`'s.
- No fairness is assumed of the accept loop, of `Stop` or of failures.

### Disagreements between the code and what it says

1. `session_fatal`: when the server ends a connection with an error that no
   ReadyForQuery follows, `ReceiveResponse` returns to itself for ever, because
   `RecvFrom` reports the size of the whole buffer at each end of file
   (`buffer.cpp:63`). The client is neither answered nor disconnected, and the
   session goes round through epoll and the queue without end.
2. `schema_restart`: after a restart the tracker also holds the views that ENABLE
   ACCESS CONTROL has made, because `Refresh` reads views as well and its excluded
   suffix is `__acl__`, not `__acls__` (`schema-tracker.cpp:63`). A SELECT from such a
   view is joined with a view of the view, which does not exist, and so fails; the
   comment in `query-acler.cpp:74` says that what is not a table is ignored, and until
   the restart it is.

`session_safety` includes FATAL errors, since they break no safety property;
`proxy_liveness` excludes them, and nothing else, by its environment (`One`): with them
`RequestAnswered` fails, as `session_fatal` shows. Split authentications and long answers
are in it, and there `RequestAnswered` promises what the code does: a client whose answer
is cut short (`CutShort`) has been given a beginning of its own answer, at least a part,
and may wait for the rest for ever.

## 4. What is proved

`SessionOperator_proofs`, for any `Sessions`, `Workers`, `MaxEvents` > 0 and a `None`
that is no session:

- `Invariance`: `IInv` is an invariant of `Spec`. `ExclusiveOwner` is not inductive
  by itself: that a step moves a session from one place to another needs to know
  which place it was in. `IInv` adds that a worker holds a session exactly
  between its pop and the end of `Work` (`WorkerOK`), that the watcher's hand is full
  exactly between `Unwatch` and `SubmitReady` and its batch empty while it waits
  (`WatcherOK`), and that an entry of epoll is what its session's `ev_` says
  (`EntriesCurrent`). The last is the heart: it holds because nothing runs a
  session while epoll has it, which is ownership, and it is why the socket the
  watcher reads from the session is the registered one.
- `TypeCorrect`, `Ownership`, `NoEpollFailure` and `BatchStaysRegistered` follow.
- `WatchedAreLeftAlone`: no step changes a session that is in epoll.
- `OperatorHandsOver`: `Spec => ImplementsOwnership`, one lemma per step that moves a
  session. Each uses `IInv` for where the session was; `OwnersTold` says who its owners
  are by the place it is in, before and after the step, and `OwnersKept` that all other
  sessions keep theirs. The loops' own steps stutter (`OwnersUnchanged`).

`Session_proofs`, for any `Sessions`, `MaxMessages`, `SocketRoom` > 0 and any `Env`:

- `Invariance`: `IInv` (in `SessionInvariants`) has six parts for each session.
  `BuffersOK` says in which states the request's and the response's buffers hold
  something: `SetError` and the plugins read the first message of a request without a
  test. `WaitOK` says that each state which uses a socket has waited for it, and that a
  session that has ended waits for one whose peer is gone; its step rests on `BuffersOK`
  (a send of nothing would fail) and on `Session!Step`'s promise, which `Proxy` is proved
  to keep. `OrderOK` follows the requests along their way, from the client's socket to
  the session's buffer (`Fresh`), and from there to the server's socket, to the server or
  to the refused (`Past`): each place holds them in order, and each is ahead of the next.
  `RequestsOnceInOrder` alone is not inductive, since it does not say what is still
  on its way.
- `ExchangeOK` gives each of the twelve states its place in an exchange. The client's last
  message is on its way (`Underway`), or the session works on it (`InHand`) while the
  server has it or has begun to answer (`AtServer`), or the answer is in the session's
  buffer (`AnswerReady`), or with the client (`Answered`). In each place what there is
  of the answer, read, buffered, in a socket and still to come, is a beginning of one
  answer (`Begins`): the server's to that very message, or the proxy's own. Two lemmas
  carry the argument. `ReadyIsWhole`: what the lambda of `ReceiveResponse` takes for
  complete is the whole answer, but for an authentication split in two. `LastIsWhole`:
  a segment on which a client goes on is the last of its answer. Both rest on
  `LastEnds`, the shape of the server's answers, and the first on `EarlyOK`: until the
  session is initiated, when any data is taken for complete, only a request for
  encryption is answered, in one byte; any other message has ended the process before.
  `ClientOK` ties what the client is doing to its socket and to the session's end.
- `EndedIsFound`, `RequestsInOrder` and `RefusedStays` follow from `WaitOK` and
  `OrderOK`; `AnswersAreOwn`, `AnswersAreComplete`, `NothingIsLeft` and
  `ForwardedFromTheStart` from `ExchangeOK`; `TypeCorrect` is the first part of `IInv`.
- `TurnInvariance`: `TurnInv` is inductive together with `IInv`, and says where an answer
  is that somebody waits for. While the session waits for the server, the server has the
  request, or what the session has read, what is in the socket and what is still to be
  sent make up the whole answer (`ServedOK`); when it is done with a message, the client
  was given an answer on whose end it goes on, or a beginning that was cut short
  (`DeliveredOK`); a client that waits has not read such an end (`ReadOK`); and no request
  for encryption comes after the session is initiated (`LateOK`), since it would be
  answered by one byte that the test never takes for complete. That an answer has an end
  is `EndsWell`; where it does not, the server closes the connection.
- `NobodyWaitsForEver`: `NobodyIsStuck` follows, one case for each of the four states that
  use a socket. It is a safety property: that the peer whose turn it is acts, and that the
  session is then run, stay assumptions of the liveness runs.

`Proxy_proofs`, for any `Sessions`, `Workers`, `MaxEvents` > 0 and any peers:

- `ProxyInvariance`: `ProxyInv` is `SessionOperator`'s `IInv`, for the composition, with
  `ReportedAreReady`: a session that waits and has been reported by epoll still has its
  event, wherever its pointer has got to: in the batch, in the watcher's hand, in the
  queue or with a worker. The lemma `PeersKeepReady` says that no step of a peer takes
  an event away, and ownership that no other thread runs the session in between.
  `WaitingOK` says that a session that waits has named what for.
- `ProxyIsOperator`: the proxy implements `SessionOperator`, one action after the other,
  since `Session`'s actions change `waiting`, `terminated` and `ev` as its `Run` allows.
- `ProxyIsSessions`: it implements `Session!Spec`, by `ReportedAreReady`. So the
  theorems of `SessionOperator_proofs` and `Session_proofs` hold of the proxy, and these
  are drawn as theorems of their own: `ProxyOwnsSessions`, `ProxyHandsOver` and
  `ProxyKeepsExchanges`. For the last, `Session_proofs` is instantiated on the
  composition's variables (`Proved`); its assumptions are `ExchangeAssumption`.
- `NobodyIsForgotten`: `NobodyStalls` is ownership and `NobodyIsStuck` together with
  `EntriesCurrent`, by which epoll has the session registered for the event it names.

`Buffer_proofs`, for any `DEFAULT_SIZE` > 0, answers and own messages:

- `Invariance`: `Half` says that while `RecvFrom` may be called, `buf_` is twice
  `buf_size_`, at most half full, and holds exactly what was read; so one doubling after
  a read of at most `buf_size_` bytes is enough.
- `NeverOverrun` and `OnlyWholeAnswers` follow.
- `ReceivingIsAtomic`: `Buffer` implements `Receiver`. It is why `Session` may take
  `ReceiveRequest` and `ReceiveResponse`, which call `recv` until it would block while
  more arrives, for one step each. `Half` gives what is needed at `Return`: the buffer
  holds exactly what was read, and something was.

`QueuedPool_proofs`, for any finite `Users` and any `PoolSize`. About `ConnPool`:

- `Invariance`: two sums are kept. The pool's connections are idle, owed by a thread,
  or lost (`PoolAccounted`); the open ones are idle, in use or both old and new
  at a replacement (`OpenAccounted`). The lemma `MoveCounts` says what one thread's
  step does to the number of threads at some places.
- `AcquireSucceeds`: with `lost + |Users| <= PoolSize` no thread waits and none gets
  `nullptr`. The proxy has four workers and ten connections, so six may be lost to
  the race in `Release` before a worker can dereference null.
- `OpenStaysBounded`: at most `PoolSize + |Users|` open connections.
- `OnlyRacesLose`: without a race, `Release` always replaces.

and about the queue:

- `QueueInvariance`: `LockHeld` (one thread is inside, and what it has found is there
  until it takes it) and `NoLostWakeUp`. The second is inductive with the first: a
  thread that has pushed counts as awake until it has notified, and one that was woken
  until it has looked, so a notification that is outrun leaves another thread awake.
- `QueueIsAtomic`: each step is a step of `ConnPool` or changes nothing of it; so the
  theorems above hold on the real queue (`QueuedAcquireSucceeds` is one of them).

`AccessRules_proofs`, for any clients, tables, columns, grants and bounds:

- `Invariance`: a binding's keys hold (`KeysOK`), but a running trigger's copies may name
  a reference that is gone (`CopiesOK`), and only `Commit` tests it; that is why
  `RevokedIsGone` survives the race. `SourceHolds` needs to know that what a trigger has
  copied is still where it came from, or lost, unless it was revoked; and that what it
  will replace it also gives again, or its source has lost it (`CopiesCurrent`). `Older`
  says that what is inherited was given to an older row, so that a chain of copies has a
  beginning, unless a row that was moved has had it (`Roamed`).
- Most steps give no row anything but a binding of its own (`GivesNothing`) and forget
  nothing that a row had (`Remembers`); the lemma `NothingGiven` deals with them at once,
  and leaves `Commit` and the beginning of a statement (`SetWork`).
- `Revoked`, `CanBeRevoked` and `NothingFromNowhere` follow. `TwiceByDiamondOrCycle` is
  drawn from `OneGrant` (two bindings with one reference differ in their inheritance),
  `KeysOK` and `Numbered` (two inheritances into one table are from two), and `Older`.

`PersistentDeque_proofs`, for any `Instances` and any `MaxSeq`:

- `Invariance`: `IInv` has two layers. `RowsInv` says that no position is given
  twice (`PositionsUnique`: a push under way has a position that no row has or had)
  and that a locked row is there and has one holder (`LocksExclusive`).
  `PushesInOrder` and `ScansInOrder` need it, and say that a producer's push is later
  than all it has pushed, and that a scan misses no earlier row of a producer
  whose later row it has before it, unless the row was locked or given back.
- `PopFinal` and `NothingLost` follow from `RowsInv`, `OrderKept` from both layers.
- `DequeLeases`: `Spec => ImplementsLeases`, one action after the other.

`Schema_proofs`, for any `Sessions`, `Tables` and disjoint sets of roles:

- `Invariance`: `KnownAreJoined` is about one moment, after the plugins and before the
  answer. `KnownAreTracked` carries it there: what a client was told of is in the
  catalogue and in the tracker, from the plugin's `AddRelName`, which comes before
  the answer is forwarded, and over a restart, since `Refresh` reads the catalogue.
  `RoleFollowed` says when `rolsuper` and the role may differ: between the server's
  answer to SET ROLE and the plugin, and after a look-up that threw.
- `KnownJoined` and `RoleCorrect` follow.

The assumptions are the named `ASSUME`s of the modules, no others. TLC has checked each
inductive invariant as an invariant of its module's run before it was proved; the runs
keep the properties that a theorem draws from it.

So every safety property of the passing runs, and each refinement, is a theorem. Only
model-checked are the liveness properties, since TLAPS has no rules for fairness and
ENABLED.

## 5. What is not modelled

- What follows when a request arrives in parts: `Buffer` cuts messages at any byte, and
  stops where a part was taken for the whole; in `Session` a request is in one segment.
- The bytes of a message but those that a test reads.
- A refusal that cannot be told: the error of CREATE ACCESS INHERITANCE for columns that
  do not match in number has no `C` (`query/proxy-command.cpp:199`), on which
  `Response::SetError` fails its assertion, or takes the length of a null pointer
  (`conn/include/conn/response.h:43`), and the process ends. `ApplyPreRequestPlugins`
  of `Session` refuses with a complete error only; `RequestAnswered` would allow for the
  end of the process (`down`), as it does elsewhere.
- `RecvFrom` on a buffer whose `buf_size_` is 0: `Buffer` has the branch (`EnterRecvFrom`
  after `SetOwn`), but the session resets its context before it reads again, so it is
  never taken there.
- The answer to the bytes that look like a ReadyForQuery inside another message, when it is
  cut there: `TakenWhole` and `PassedOn` are about answers that are not.
- A request is taken to fit the server's send buffer, and SIGPIPE to come only from a
  socket that was never connected: the session calls `send` at most once on a
  connection whose peer is gone, and the first send after an end of file succeeds.
- The extended query protocol, COPY, notices while idle, TLS.
- Failures of `getaddrinfo`, `socket`, `epoll_create1`, `accept` and `fcntl`, and the
  loop around `select`.
- Reuse of descriptor numbers: an entry names the session and the side.
- The SQL that plugins compute from a syntax tree: `Schema` models when a query is
  rewritten, not into what. The commands that create or list roles and permissions
  (`ProxyCommand`) translate text to SQL text.
- Tables whose access control is enabled while rows are changed: `AccessRules` has it
  from the start.
- The trigger's statements one by one: at read committed each EXECUTE has a snapshot of its
  own, and `AccessRules` copies all inheritances from one, so no command takes effect
  between two of them. No property depends on it: `SourceHolds` looks at the copies of one
  inheritance at a time, `TwiceTwoWays` allows any two, and the keys are tested at the end.

## 6. Plan

1. `QueryAcler`: its traversal as a function on paths of keys of a small tree, against
   the set of relations that a statement reads.
2. `Schema` with transaction blocks, whose ROLLBACK undoes what a plugin has noted and
   whose locks the drop's test waits for.
3. `Session` with requests in parts, on `Buffer`'s cuts.
