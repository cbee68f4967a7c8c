------------------------------ MODULE MCParsers ------------------------------
(* The inputs of Parsers for TLC.                                          *)
EXTENDS Parsers

\* All headers with fields up to 3.
Field == 0 .. 3
AllHeaders ==
    [size : HeaderSize - 2 .. HeaderSize + 3, magic : BOOLEAN, version : BOOLEAN,
     flags : {{}, {"FRAGMENTED"}}, length : Field, count : Field,
     index : Field, offset : Field, flen : Field]

-----------------------------------------------------------------------------

Line(key, value) == [kind |-> "entry", key |-> key, value |-> value]
Head1(name) == [kind |-> "section", name |-> name]
Syntax == [kind |-> "bad"]
Dotted(name, key, value) == [kind |-> "dotted", section |-> name, key |-> key, value |-> value]
Source(id, endpoint, filter) ==
    [kind |-> "source", id |-> Int32(id), endpoint |-> Word(endpoint), filter |-> filter]

Group == <<Line("multicast_group", Word("multicast")), Line("multicast_port", Int32(5000))>>
Block(id, endpoint) ==
    <<Head1("source"), Line("id", Int32(id)), Line("endpoint", Word(endpoint))>>

Batch(v) == Line("max_messages_per_poll", v)

\* Files with two options, of which the first may be shadowed, and sources that
\* may collide or be repeated by a further line.
BridgeFiles ==
    {g \o x \o b \o y :
        g \in {<< >>, Group},
        x \in SeqOf({Batch(Int32(0)), Batch(Int32(5)), Line("max_datagram_size", Int32(45))}, 2)
              \cup {<<Batch(Word("many"))>>, <<Line("max_datagram_size", Int32(44))>>,
                    <<Line("bogus", Int32(1))>>},
        b \in {<< >>, Block(1, "ipc://a"), Block(1, "ipc://a") \o Block(2, "ipc://b"),
               Block(2, "ipc://a") \o Block(2, "ipc://b")},
        y \in SeqOf({Line("id", Int32(2)), Line("endpoint", Word("ipc://b")),
                     Line("recv_hwm", Int32(7)), Line("filter", Word("")),
                     Line("subscribe_all", Word("true")), Head1("other"), Syntax}, 1)}

BridgeSets ==
    SeqOf({Batch(Int32(9)), Batch(Int32(0)), Dotted("source", "recv_hwm", Int32(3)),
           Dotted("source", "id", Int32(1)), Dotted("", "max_messages_per_poll", Int32(9)), Dotted("other", "id", Int32(1)), Syntax}, 1)
    \cup {<<Batch(Int32(0)), Batch(Int32(9))>>,
          <<Dotted("source", "recv_hwm", Int32(3)), Dotted("source", "recv_hwm", Int32(4))>>}

BridgeSources ==
    {<< >>, <<Source(2, "ipc://b", Absent)>>, <<Source(1, "ipc://a", Word("x"))>>, <<Syntax>>}

ReceiverFiles ==
    {Group \o x : x \in
        SeqOf({Line("capture_file", Word("a")), Line("stats_endpoint", CommandDefault),
               Line("command_endpoint", StatsDefault), Line("command_bind", Word("true")),
               Line("command_bind", Word("false")), Line("stats_endpoint", Word("")),
               Line("reassembly_max_pending", Int32(0)), Head1("source")}, 2)}

ReceiverSets ==
    SeqOf({Line("capture_file", Word("b")), Line("command_bind", Int32(1)),
           Line("command_endpoint", StatsDefault), Line("reassembly_max_pending", Int32(4))}, 2)

AllStarts ==
    [program : {"bridge"}, lines : BridgeFiles, sources : BridgeSources, overrides : BridgeSets]
    \cup [program : {"receiver"}, lines : ReceiverFiles, sources : {<< >>}, overrides : ReceiverSets]

-----------------------------------------------------------------------------

Tokens == {"{", "}", "[", "]", ":", ",", "s", "n"}

\* All texts of up to five tokens, and of six those a bracket opens.
AllTexts ==
    SeqOf(Tokens, 5) \cup {<<b>> \o t : b \in {"{", "["}, t \in [1 .. 5 -> Tokens]}
        \cup {<<"x">>, <<"[", "x", "]">>}

-----------------------------------------------------------------------------

\* Topics that are harmless ("", "nav", "T"), make up the magic with the header
\* ("TES"), or hold it ("TESTx").
Topics == {<< >>, <<110, 97, 118>>, <<84>>, <<84, 69, 83>>, <<84, 69, 83, 84, 120>>}

LowByte(n) == <<n, 0, 0, 0, 0, 0, 0, 0>>

\* In the last one a whole header is found in topic and header: topic
\* "TESTabcdefgh", message 3670019 of publisher 92.
AllMessages ==
    [topic : Topics, multipart : BOOLEAN, publisher : 0 .. 5, index : {LowByte(n) : n \in {0, 7, 24}},
     size : {0, 56, 80, 104, 110}]
    \cup {[topic |-> <<84, 69, 83, 84, 97, 98, 99, 100, 101, 102, 103, 104>>, multipart |-> FALSE,
           publisher |-> 92, index |-> <<3, 0, 56, 0, 0, 0, 0, 0>>, size |-> 0]}

=============================================================================
