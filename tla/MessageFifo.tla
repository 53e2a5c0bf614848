---------------------------- MODULE MessageFifo ----------------------------
(***************************************************************************)
(* What a binary connection promises to the code which sends messages on   *)
(* it: what was sent while it is up arrives once and in order, except for  *)
(* messages which are lost on their way.                                   *)
(***************************************************************************)
EXTENDS Integers, Sequences

CONSTANT MessageIds

VARIABLES
    queue,      \* messages on their way
    arrived     \* messages given to process_message(), in order

fifo == <<queue, arrived>>

FifoInit == queue = <<>> /\ arrived = <<>>

Send ==
    /\ \E m \in MessageIds : queue' = Append(queue, m)
    /\ UNCHANGED arrived

Arrive ==
    /\ queue # <<>>
    /\ queue' = Tail(queue)
    /\ arrived' = Append(arrived, Head(queue))

Without(s, k) == SubSeq(s, 1, k - 1) \o SubSeq(s, k + 1, Len(s))

\* one message, or all of them with the connection
Lose ==
    /\ \/ queue' = <<>>
       \/ \E k \in 1..Len(queue) : queue' = Without(queue, k)
    /\ UNCHANGED arrived

FifoNext == Send \/ Arrive \/ Lose

FifoSafety == FifoInit /\ [][FifoNext]_fifo
FifoSpec == FifoSafety /\ WF_fifo(Arrive)

=============================================================================
