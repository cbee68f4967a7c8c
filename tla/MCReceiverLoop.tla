--------------------------- MODULE MCReceiverLoop ---------------------------
(* An instance of ReceiverLoop for TLC.                                    *)
EXTENDS ReceiverLoop

\* A datagram with bytes, and one without.
Packets == {[size |-> 0], [size |-> 50]}

=============================================================================
