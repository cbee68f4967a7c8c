---------------------------- MODULE MCControlPage ----------------------------
(* Instances of ControlPage for TLC.                                       *)
EXTENDS ControlPage

CONSTANTS p1, p2

\* One page, whose connection comes and goes while the receiver is restarted.
Alone == [pages |-> {p1}, clicks |-> 2, drops |-> 2, crashes |-> 1]

\* The backend is away for so long that the delay reaches its maximum.
Away == [pages |-> {p1}, clicks |-> 0, drops |-> 5, crashes |-> 0]

\* Two pages click at the same time.
Pair == [pages |-> {p1, p2}, clicks |-> 2, drops |-> 0, crashes |-> 0]

AllSetups == {Alone, Away, Pair}

=============================================================================
