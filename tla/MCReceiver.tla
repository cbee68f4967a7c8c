----------------------------- MODULE MCReceiver -----------------------------
(* Instances of Receiver for TLC.                                          *)
EXTENDS Receiver

Header(seq, generation, count, index, length) ==
    [source |-> 1, sequence |-> seq, timestamp |-> generation,
     flags |-> IF count > 1 THEN {"FRAGMENTED"} ELSE {},
     length |-> length, count |-> count, index |-> index, offset |-> index]

\* Fragment index, of one byte, of a message of two.
Half(seq, index) == Datagram(Header(seq, 0, 2, index, 2), 1, <<seq, index>>)

Single(seq) == Datagram(Header(seq, 0, 1, 0, 1), 1, <<seq, 0>>)

\* A fragment of message seq that tells another length, with the same bytes.
Odd(seq) == Datagram(Header(seq, 1, 2, 0, 3), 1, <<seq, 0>>)

\* A fragment of a message above MaxMessageLength.
Long(seq) == Datagram(Header(seq, 0, 2, 0, 4), 1, <<seq, 0>>)

Short == [Half(0, 0) EXCEPT !.size = 1]
Empty == [Half(0, 0) EXCEPT !.size = 0]

\* Three messages in fragments, only one of which can complete, and what is
\* no fragment of them.
Traffic == {Half(0, 0), Half(0, 1), Half(1, 0), Half(2, 0), Odd(0), Long(3), Short, Empty}

\* A message of one datagram.
Whole == Single(4)

AllPackets == Traffic \cup {Whole}

\* Messages in fragments compete for entries; nothing is recorded.
Messages == [packets |-> Traffic, commands |-> {}, timers |-> {"sweep"}, faults |-> {"udp"},
             recordOnStart |-> {FALSE}, maxTaken |-> 5, maxCommands |-> 0, maxTime |-> 1]

\* Single messages, every command, the flush timer, every failure.
Recording == [packets |-> {Whole}, commands |-> Command, timers |-> {"flush"},
              faults |-> IoFaults, recordOnStart |-> BOOLEAN,
              maxTaken |-> 3, maxCommands |-> 3, maxTime |-> 0]

Both == {Messages, Recording}
OnlyRecording == {Recording}

=============================================================================
