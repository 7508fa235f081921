------------------------------- MODULE Buffer -------------------------------
(***************************************************************************)
(* One buffer of a session, over its exchanges: RecvFrom, which grows the  *)
(* buffer while it reads; the test of whether the answer is complete, by   *)
(* its first byte and its last six; SetError and SetQuery, which put the   *)
(* proxy's own message into the buffer; and the reset.                     *)
(*                                                                         *)
(* A byte is a position in what the peer sends.  Of the bytes themselves   *)
(* only what the test reads is kept: whether the first is 'R', and behind  *)
(* which positions the last six look like a ReadyForQuery.  With check     *)
(* FALSE there is no test: so it is before the session is initiated, and   *)
(* in the buffer of the requests.                                          *)
(***************************************************************************)
EXTENDS Naturals

CONSTANTS
    DefaultSize,  \* DEFAULT_SIZE
    Answers,      \* what a peer may send in one exchange
    OwnSizes      \* the sizes of the proxy's own messages

\* A peer's message ends with what the session waits for.
ASSUME DefaultSizeAssumption == DefaultSize \in Nat \ {0}
ASSUME OwnSizesAssumption == OwnSizes \subseteq Nat \ {0}
ASSUME AnswersAssumption ==
    \A a \in Answers :
        /\ a.size \in Nat \ {0} /\ a.check \in BOOLEAN /\ a.startsWithR \in BOOLEAN
        /\ a.looksReady \subseteq 6..a.size
        /\ a.check /\ ~a.startsWithR => a.size \in a.looksReady

VARIABLES
    cap,       \* buf_.size()
    buf_size,  \* buf_size_, 0 after SetError and SetQuery
    data_size, \* data_size_
    at,        \* what the session does with the buffer
    answer,    \* what the peer sends in this exchange
    arrived,   \* how much of it has reached the socket
    read,      \* how much of it the session has read
    own,       \* whether the buffer holds the proxy's own message
    before     \* history: how much was read when RecvFrom was called

sizes == <<cap, buf_size, data_size>>
peer  == <<answer, arrived>>
vars  == <<sizes, at, peer, read, own, before>>

\* idle: reset.   wait: for input.   recv: in RecvFrom.   test: back from it.
\* plugins: the message is taken for complete.   send: it is passed on.
Places == {"idle", "wait", "recv", "test", "plugins", "send", "reset"}

TypeOK ==
    /\ cap \in Nat /\ buf_size \in Nat /\ data_size \in Nat
    /\ at \in Places
    /\ answer \in Answers
    /\ arrived \in 0..answer.size
    /\ read \in 0..arrived
    /\ own \in BOOLEAN
    /\ before \in Nat

\* Buffer::Buffer.
Fresh(c, b, d) == c = 2 * DefaultSize /\ b = DefaultSize /\ d = 0

Init ==
    /\ Fresh(cap, buf_size, data_size)
    /\ at = "idle"
    /\ answer \in Answers
    /\ arrived = 0
    /\ read = 0
    /\ own = FALSE
    /\ before = 0

-----------------------------------------------------------------------------
\* A part of the message reaches the socket; none does for a refused request.
Arrive ==
    /\ at # "idle" /\ (own => read > 0)
    /\ arrived < answer.size
    /\ arrived' \in (arrived + 1)..answer.size
    /\ UNCHANGED <<sizes, at, answer, read, own, before>>

\* The session waits for a message of the peer, or makes one of its own when a
\* plugin refuses the request.
Begin ==
    /\ at = "idle"
    /\ at' = "wait"
    /\ UNCHANGED <<sizes, peer, read, own, before>>

\* SetError, SetQuery: the buffer is cleared and filled anew, and buf_size_ is 0.
SetOwn(n) ==
    /\ cap' = n /\ data_size' = n
    /\ buf_size' = 0
    /\ own' = TRUE

Refuse ==
    /\ at = "idle"
    /\ \E n \in OwnSizes : SetOwn(n)
    /\ at' = "send"
    /\ UNCHANGED <<peer, read, before>>

\* How RecvFrom starts on a buffer that was set by hand.
SizeByHand == IF data_size > DefaultSize THEN 2 * DefaultSize ELSE DefaultSize

EnterRecvFrom ==
    /\ at = "wait" /\ read < arrived
    /\ at' = "recv"
    /\ IF buf_size = 0
       THEN buf_size' = SizeByHand /\ cap' = 2 * SizeByHand
       ELSE UNCHANGED <<buf_size, cap>>
    /\ before' = read
    /\ UNCHANGED <<data_size, peer, read, own>>

Grown(k) == data_size + k

\* Mutant: the buffer is doubled only when it is full.
MoreThanFull(size) == size > cap

MoreThanHalf(size) == size > buf_size

\* recv gives at most buf_size_ bytes; the buffer doubles once when they make it
\* more than half full.
Recv ==
    /\ at = "recv" /\ read < arrived
    /\ \E k \in 1..buf_size :
         /\ read + k <= arrived
         /\ read' = read + k
         /\ data_size' = Grown(k)
         /\ IF MoreThanHalf(data_size')
            THEN buf_size' = 2 * buf_size /\ cap' = 2 * buf_size'
            ELSE UNCHANGED <<buf_size, cap>>
    /\ UNCHANGED <<at, peer, own, before>>

\* Mutant: recv is called once.
ReturnAtOnce ==
    /\ at = "recv" /\ read > before
    /\ at' = "test"
    /\ UNCHANGED <<sizes, peer, read, own, before>>

\* recv would block: RecvFrom returns the size of what the buffer holds.
Return ==
    /\ at = "recv" /\ read = arrived
    /\ at' = "test"
    /\ UNCHANGED <<sizes, peer, read, own, before>>

\* Mutant: the test leaves the last byte out.
LooksReadyBefore == data_size - 1 \in answer.looksReady

\* The last six bytes.  Where there are fewer, the test begins before the buffer's
\* first byte, with one of the upper bytes of the size that malloc keeps there:
\* it is 0, no 'Z', whatever follows.
LooksReady == data_size \in answer.looksReady

\* The lambda ready_for_query.
Ready == ~answer.check \/ answer.startsWithR \/ LooksReady

Test ==
    /\ at = "test"
    /\ at' = IF Ready THEN "plugins" ELSE "wait"
    /\ UNCHANGED <<sizes, peer, read, own, before>>

\* The plugins leave the message alone, or replace it, once or several times.
Replace ==
    /\ at = "plugins"
    /\ \E n \in OwnSizes : SetOwn(n)
    /\ UNCHANGED <<at, peer, read, before>>

Done ==
    /\ at = "plugins"
    /\ at' = "send"
    /\ UNCHANGED <<sizes, peer, read, own, before>>

\* SendTo, of data_size_ bytes.
Send ==
    /\ at = "send"
    /\ at' = "reset"
    /\ UNCHANGED <<sizes, peer, read, own, before>>

\* Mutant: what the proxy has set stays in the buffer.
Kept(c, b, d) == c = cap /\ b = buf_size /\ d = data_size

Cleared(c, b, d) == Fresh(c, b, d)

\* Context::Reset, and the next exchange.  What follows when the message was cut
\* is not pursued here.
Reset ==
    /\ at = "reset"
    /\ read \in {0, answer.size}
    /\ Cleared(cap', buf_size', data_size')
    /\ at' = "idle"
    /\ own' = FALSE
    /\ answer' \in Answers
    /\ arrived' = 0 /\ read' = 0 /\ before' = 0

\* A message was cut; or the session waits, while epoll_wait's time-outs pass.
Cut    == at = "reset" /\ read \notin {0, answer.size}
Waits  == at = "wait" /\ read = arrived

Session == \/ Begin \/ Refuse \/ EnterRecvFrom \/ Recv \/ Return \/ Test
           \/ Replace \/ Done \/ Send \/ Reset

Next == Arrive \/ Session \/ ((Cut \/ Waits) /\ UNCHANGED vars)

Spec == Init /\ [][Next]_vars

FairSpec ==
    Spec /\ WF_vars(Arrive) /\ WF_vars(EnterRecvFrom \/ Recv \/ Return \/ Test \/ Done)

-----------------------------------------------------------------------------
(* Properties *)

\* recv is never given room beyond the end of the buffer: doubling it once, after
\* a read that made it more than half full, is enough, and no message of the
\* proxy's own is still in it, for which it would not be.
NoOverrun == at = "recv" => data_size + buf_size <= cap

\* However an answer is cut into segments, the session takes nothing for complete
\* but the whole answer, unless it starts with 'R' or bytes within it look like
\* a ReadyForQuery; and it has read each byte of it once.
TakenWhole ==
    at \in {"plugins", "send"} /\ ~own
        /\ answer.check /\ ~answer.startsWithR /\ answer.looksReady = {answer.size}
      => read = answer.size /\ data_size = answer.size

\* Every message that the session waits for is passed on, however it is cut.
PassedOn == at = "wait" ~> at = "send"

\* A session that calls RecvFrom sees one step, however often recv is called, the
\* buffer grows and more arrives meanwhile: what it is returned is all that had
\* arrived, and the test is of that.  Nothing is taken before RecvFrom returns.
Atomic == INSTANCE Receiver WITH
    at    <- CASE at = "recv" -> "wait"
               [] at = "test" -> IF Ready THEN "plugins" ELSE "wait"
               [] OTHER       -> at,
    taken <- IF at = "recv" THEN before ELSE read

ReceivesAtOnce == Atomic!Spec

-----------------------------------------------------------------------------
\* What NoOverrun and TakenWhole rest on: while RecvFrom may be called, the buffer
\* is twice buf_size_ and at most half full, and holds what was read.  RecvFrom is
\* only called when something has arrived.
Half ==
    /\ at \in {"idle", "wait", "recv", "test"} => ~own
    /\ ~own => /\ buf_size > 0 /\ cap = 2 * buf_size
               /\ data_size <= buf_size /\ data_size = read
    /\ at = "idle" => read = 0 /\ arrived = 0
    /\ at = "recv" => before < arrived

IInv == TypeOK /\ Half /\ TakenWhole
=============================================================================
