------------------------------ MODULE Receiver ------------------------------
(***************************************************************************)
(* What RecvFrom and the test of an answer come to for the session that    *)
(* calls them: in one step everything that has arrived is taken, and the   *)
(* session goes on with it or waits for more.  ReceiveRequest and          *)
(* ReceiveResponse of module Session are such steps; module Buffer, which  *)
(* has the calls of recv one by one, implements them.                      *)
(***************************************************************************)
EXTENDS Naturals

CONSTANT Answers  \* see Buffer

VARIABLES
    at,       \* what the session does with the buffer
    answer,   \* what the peer sends in this exchange
    arrived,  \* how much of it has reached the socket
    taken,    \* how much of it the session has taken
    own       \* whether the buffer holds the proxy's own message

vars == <<at, answer, arrived, taken, own>>

Init ==
    /\ at = "idle" /\ own = FALSE
    /\ answer \in Answers /\ arrived = 0 /\ taken = 0

Arrive ==
    /\ at # "idle" /\ (own => taken > 0)
    /\ arrived' \in (arrived + 1)..answer.size
    /\ UNCHANGED <<at, answer, taken, own>>

Begin  == at = "idle" /\ at' = "wait" /\ UNCHANGED <<answer, arrived, taken, own>>
Refuse == at = "idle" /\ at' = "send" /\ own' = TRUE /\ UNCHANGED <<answer, arrived, taken>>

\* The first n bytes of the answer pass for the whole of it.
Complete(n) == ~answer.check \/ answer.startsWithR \/ n \in answer.looksReady

\* The call of RecvFrom, and the test of what the buffer then holds.
Receive ==
    /\ at = "wait" /\ taken < arrived
    /\ taken' = arrived
    /\ at' = IF Complete(taken') THEN "plugins" ELSE "wait"
    /\ UNCHANGED <<answer, arrived, own>>

Replace == at = "plugins" /\ own' = TRUE /\ UNCHANGED <<at, answer, arrived, taken>>
Done    == at = "plugins" /\ at' = "send" /\ UNCHANGED <<answer, arrived, taken, own>>
Send    == at = "send" /\ at' = "reset" /\ UNCHANGED <<answer, arrived, taken, own>>

Reset ==
    /\ at = "reset" /\ taken \in {0, answer.size}
    /\ at' = "idle" /\ own' = FALSE
    /\ answer' \in Answers /\ arrived' = 0 /\ taken' = 0

Next == Arrive \/ Begin \/ Refuse \/ Receive \/ Replace \/ Done \/ Send \/ Reset

Spec == Init /\ [][Next]_vars
=============================================================================
