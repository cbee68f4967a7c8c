------------------------------- MODULE MCRelay -------------------------------
(* Instances of Relay for TLC.                                             *)
EXTENDS Relay

Msg(body, frames) == [body |-> body, frames |-> frames]

\* Published by hand: a short message, one of two fragments, and its like.
A == Msg("a", <<1>>)
B == Msg("b", <<4>>)
C == Msg("c", <<2, 2>>)
D == Msg("d", <<3>>)
Row == [i \in 1 .. 6 |-> A]

Messages == {A, B, C, D}

Setup(script, chunks, restarts, inOrder, arrivals, mayFail) ==
    [chunk |-> 2, faults |-> mayFail, script |-> script, chunks |-> chunks,
     restarts |-> restarts, inOrder |-> inOrder, arrivals |-> arrivals]

\* A network that keeps the order, with a restart and with two; one that does not,
\* with two generations cut alike or not; and six single datagrams in any order.
Networks ==
    {Setup(<<A, B, A, D, A>>, {2, 3}, 1, TRUE, 7, {}),
     Setup(<<B, A, A, B, A>>, {2}, 2, TRUE, 8, {}),
     Setup(<<B, C, D>>, {2, 3}, 1, FALSE, 4, {"send", "mid"}),
     Setup(Row, {2}, 0, FALSE, 5, {})}

=============================================================================
