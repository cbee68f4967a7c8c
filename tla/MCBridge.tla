------------------------------ MODULE MCBridge ------------------------------
(* Instances of Bridge for TLC.                                            *)
EXTENDS Bridge

Msg(body, frames) == [body |-> body, frames |-> frames]

\* With chunks of 2, MaxU16 = 3 and MaxU32 = 7: an empty message, one datagram,
\* two of which the last is full or not, three from two frames, and messages
\* above the fragment count and above the message length.
Lengths == {Msg("empty", <<0>>), Msg("short", <<1>>), Msg("full", <<4>>),
            Msg("odd", <<3>>), Msg("parts", <<2, 4>>), Msg("count", <<7>>),
            Msg("length", <<5, 4>>)}

\* Everything may fail, or what leaves each message to be taken all the same.
SomeFaults == {[chunk |-> 2, faults |-> {"recv", "mid", "interrupt", "poll", "send"}],
               [chunk |-> 2, faults |-> {"mid", "send"}]}

=============================================================================
