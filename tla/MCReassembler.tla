--------------------------- MODULE MCReassembler ---------------------------
(* Instances of Reassembler for TLC.                                       *)
EXTENDS Reassembler

Frag(seq, index, count, length, body) ==
    [source |-> 1, sequence |-> seq, timestamp |-> body, count |-> count,
     index |-> index, length |-> length, body |-> <<body, index>>]

\* Three messages of two fragments, and what a restarted bridge sends under
\* sequence number 0: two fragments of a longer message, one of three, and a
\* single datagram; and a fragment of a message above max_message_length.
Fragments ==
    {Frag(q, i, 2, 3, q) : q \in 0 .. 2, i \in 0 .. 1}
        \cup {Frag(0, i, 2, 4, 7) : i \in 0 .. 1}
        \cup {Frag(0, 0, 1, 2, 8), Frag(0, 2, 3, 3, 9),
              Frag(1, 0, 2, 5, 6)}

=============================================================================
