------------------------------- MODULE Config -------------------------------
(***************************************************************************)
(* How the bridge and the receiver get their configuration: the INI file   *)
(* (src/common/config.cpp), --source and --set arguments (main.cpp), and   *)
(* the validation of what results (bridge_config.cpp, receiver_config.cpp).*)
(*                                                                         *)
(* A line that is not blank is a record of its kind: a section header, an  *)
(* entry, or one with a syntax error.  A value is tagged: <<"int", n>>, or *)
(* <<"word", w>> for any other text.                                       *)
(***************************************************************************)
EXTENDS Wire, SequencesExt, Selection

CONSTANT MaxUdpPayload  \* kMaxUdpPayload, 65507

ASSUME ConfigAssumption ==
    /\ MaxUdpPayload \in Nat /\ MaxUdpPayload <= MaxU16
    /\ HeaderSize < 1400 /\ 1400 <= MaxUdpPayload  \* the default of max_datagram_size is one

\* What a failure leaves; a file that was read has its global section.
Bad == << >>

Empty == ""  \* the empty text, and the name of the global section

Int32(n) == <<"int", n>>
Word(w) == <<"word", w>>
Absent == <<"absent">>

-----------------------------------------------------------------------------
(* config.cpp                                                              *)

Section(name) == [name |-> name, entries |-> << >>]
Entry(key, value) == [key |-> key, value |-> value]

InSection(secs, i, e) == [secs EXCEPT ![i].entries = Append(@, e)]

\* One round of the loop of parse_config_text().
AddLine(secs, line) ==
    IF line.kind = "section" THEN Append(secs, Section(line.name))
    ELSE InSection(secs, Len(secs), Entry(line.key, line.value))

\* ConfigFile::sections.
ParseConfigText(lines) ==
    IF \E i \in DOMAIN lines : lines[i].kind = "bad" THEN Bad
    ELSE FoldLeft(AddLine, <<Section(Empty)>>, lines)

\* ConfigSection::find(): the last assignment wins.
Find(sec, key) ==
    LET I == {i \in DOMAIN sec.entries : sec.entries[i].key = key}
    IN  IF I = {} THEN Absent ELSE sec.entries[CHOOSE i \in I : \A j \in I : j <= i].value

\* Where apply_override() puts the entry; 0 when there is no such section.
\* Fault: the first section of the name.
TargetFault(secs, name) ==
    LET I == {i \in DOMAIN secs : secs[i].name = name}
    IN  IF I = {} THEN 0 ELSE CHOOSE i \in I : \A j \in I : i <= j
Target(secs, name) ==
    LET I == {i \in DOMAIN secs : secs[i].name = name}
    IN  IF I = {} THEN 0 ELSE CHOOSE i \in I : \A j \in I : j <= i

GoesTo(secs, o) == IF o.kind = "entry" THEN 1 ELSE Target(secs, o.section)

ApplyOverride(secs, o) ==
    IF secs = Bad \/ o.kind = "bad" \/ GoesTo(secs, o) = 0 THEN Bad
    ELSE InSection(secs, GoesTo(secs, o), Entry(o.key, o.value))

\* --source ID=ENDPOINT[,FILTER] of the bridge.
AddSource(secs, s) ==
    IF secs = Bad \/ s.kind = "bad" THEN Bad
    ELSE Append(secs, [name |-> "source",
                       entries |-> <<Entry("id", s.id), Entry("endpoint", s.endpoint)>>
                                   \o (IF s.filter = Absent THEN << >>
                                       ELSE <<Entry("filter", s.filter)>>)])

\* main() up to the validation.
Gathered(lines, sources, overrides) ==
    FoldLeft(ApplyOverride, FoldLeft(AddSource, ParseConfigText(lines), sources), overrides)

-----------------------------------------------------------------------------
(* The options: integers with their range and default, and Booleans.       *)

Between(lo, hi, default) == [lo |-> lo, hi |-> hi, default |-> default]

Gigabyte == 1073741824

BridgeInts ==
    [multicast_ttl |-> Between(0, 255, 1),
     max_datagram_size |-> Between(HeaderSize + 1, MaxUdpPayload, 1400),
     send_buffer_bytes |-> Between(0, Gigabyte, 4194304),
     send_timeout_ms |-> Between(0, 60000, 100),
     zmq_io_threads |-> Between(1, 64, 1),
     zmq_recv_hwm |-> Between(0, 10000000, 10000),
     max_messages_per_poll |-> Between(1, 100000, 32),
     reconnect_ivl_ms |-> Between(1, 600000, 100),
     stats_interval_ms |-> Between(0, 3600000, 5000)]

ReceiverInts ==
    [receive_buffer_bytes |-> Between(0, Gigabyte, 4194304),
     max_datagrams_per_poll |-> Between(1, 100000, 64),
     capture_buffer_bytes |-> Between(0, Gigabyte, 1048576),
     capture_flush_interval_ms |-> Between(0, 3600000, 1000),
     reassembly_timeout_ms |-> Between(1, 3600000, 500),
     reassembly_max_pending |-> Between(1, 1000000, 256),
     reassembly_max_message_bytes |-> Between(1, MaxU32, 16777216),
     stats_interval_ms |-> Between(10, 3600000, 1000)]

BridgeBools == {"multicast_loopback"}
ReceiverBools == {"record_on_start", "capture_sync_on_flush", "stats_print", "command_bind"}

BridgeTexts == {"multicast_group", "multicast_port", "multicast_interface", "log_level"}
ReceiverTexts == BridgeTexts \cup {"capture_file", "stats_endpoint", "stats_topic",
                                   "command_endpoint", "command_topic"}
Port == Between(1, 65535, 0)
SourceId == Between(0, MaxU32, 0)
SourceHwm == Between(0, 10000000, 0)
SourceKeys == {"id", "endpoint", "filter", "subscribe_all", "recv_hwm", "name"}

\* What the value parsers accept; the words stand for the texts of their kind.
Truth(v) == CASE v = Word("true") -> TRUE [] v = Word("false") -> FALSE
              [] v = Int32(1) -> TRUE [] v = Int32(0) -> FALSE
IsTruth(v) == v \in {Word("true"), Word("false"), Int32(1), Int32(0)}
IsInt(v, o) == v[1] = "int" /\ v = Int32(v[2]) /\ v[2] \in o.lo .. o.hi
IsMulticast(v) == v = Word("multicast")       \* 224.0.0.0/4
IsInterface(v) == v \in {Absent, Word(Empty), Word("multicast"), Word("unicast")}  \* or a name
IsLevel(v) == v \in {Absent, Word("debug")}

StatsDefault == Word("tcp://*:5556")
CommandDefault == Word("tcp://127.0.0.1:5557")
IsTcpEndpoint(v) == v \in {StatsDefault, CommandDefault}
IsZmqEndpoint(v) == IsTcpEndpoint(v) \/ v \in {Word("ipc://a"), Word("ipc://b")}
IsSet(v) == v \notin {Absent, Word(Empty)}

-----------------------------------------------------------------------------
(* Validation: the set of problems, one for each message of the code.      *)

Unknown(sec, known) ==
    {<<"unknown option", sec.entries[i].key>> : i \in {j \in DOMAIN sec.entries :
                                                          sec.entries[j].key \notin known}}

UnknownSections(secs, known) ==
    {<<"unknown section", s.name>> : s \in {t \in ToSet(secs) : t.name \notin known}}

\* What both programs look at in the global section.
CommonProblems(g, ints, bools) ==
    {<<"range", k>> : k \in {j \in DOMAIN ints : Find(g, j) # Absent /\ ~IsInt(Find(g, j), ints[j])}}
    \cup {<<"boolean", k>> : k \in {j \in bools : Find(g, j) # Absent /\ ~IsTruth(Find(g, j))}}
    \cup {p \in {<<"group">>, <<"port">>, <<"interface">>, <<"level">>} :
            \/ p = <<"group">> /\ ~IsMulticast(Find(g, "multicast_group"))
            \/ p = <<"port">> /\ ~IsInt(Find(g, "multicast_port"), Port)
            \/ p = <<"interface">> /\ ~IsInterface(Find(g, "multicast_interface"))
            \/ p = <<"level">> /\ ~IsLevel(Find(g, "log_level"))}

\* Fault: endpoints are compared, ids are not.
RepeatsFault(srcs, i, k) ==
    /\ k = "endpoint" /\ IsSet(Find(srcs[i], k))
    /\ \E j \in 1 .. i - 1 : Find(srcs[j], k) = Find(srcs[i], k)
Repeats(srcs, i, k) ==
    /\ IF k = "id" THEN IsInt(Find(srcs[i], k), SourceId) ELSE IsSet(Find(srcs[i], k))
    /\ \E j \in 1 .. i - 1 : Find(srcs[j], k) = Find(srcs[i], k)

SourceProblems(srcs, i) ==
    LET value == [k \in SourceKeys |-> Find(srcs[i], k)]
    IN  Unknown(srcs[i], SourceKeys)
        \cup {<<"repeated", k>> : k \in {l \in {"id", "endpoint"} : Repeats(srcs, i, l)}}
        \cup {<<"value", k>> : k \in {l \in SourceKeys :
               \/ l = "id" /\ ~IsInt(value[l], SourceId)
               \/ l = "endpoint" /\ ~IsZmqEndpoint(value[l])
               \/ l = "subscribe_all" /\ value[l] # Absent /\ ~IsTruth(value[l])
               \/ l = "recv_hwm" /\ value[l] # Absent /\ ~IsInt(value[l], SourceHwm)}}

SourceSections(secs) == Selected(secs, {i \in DOMAIN secs : secs[i].name = "source"})

SourcesProblems(srcs) ==
    IF srcs = << >> THEN {<<"no source">>} ELSE UNION {SourceProblems(srcs, i) : i \in DOMAIN srcs}

BridgeProblems(secs) ==
    Unknown(secs[1], DOMAIN BridgeInts \cup BridgeBools \cup BridgeTexts)
    \cup UnknownSections(secs, {Empty, "source"})
    \cup CommonProblems(secs[1], BridgeInts, BridgeBools)
    \cup SourcesProblems(SourceSections(secs))

Text(g, k, default) == IF Find(g, k) = Absent THEN default ELSE Find(g, k)

Endpoints(g) == [stats |-> Text(g, "stats_endpoint", StatsDefault),
                 command |-> Text(g, "command_endpoint", CommandDefault)]

BindsCommands(g) == IsTruth(Find(g, "command_bind")) /\ Truth(Find(g, "command_bind"))

ReceiverProblems(secs) ==
    LET g == secs[1]
        e == Endpoints(g)
    IN  Unknown(g, DOMAIN ReceiverInts \cup ReceiverBools \cup ReceiverTexts)
        \cup UnknownSections(secs, {Empty})
        \cup CommonProblems(g, ReceiverInts, ReceiverBools)
        \cup {<<"endpoint", k>> : k \in {l \in DOMAIN e : IsSet(e[l]) /\ ~IsTcpEndpoint(e[l])}}
        \cup {p \in {<<"capture_file">>, <<"same endpoint">>} :
                \/ p = <<"capture_file">> /\ ~IsSet(Find(g, "capture_file"))
                \/ p = <<"same endpoint">> /\ IsSet(e.stats) /\ e.stats = e.command /\ BindsCommands(g)}

-----------------------------------------------------------------------------
(* The configuration of a program that starts.                             *)

IntOption(g, ints, k) == IF Find(g, k) = Absent THEN ints[k].default ELSE Find(g, k)[2]
IntOptions(g, ints) == [k \in DOMAIN ints |-> IntOption(g, ints, k)]

Filters(sec) ==
    LET given == {e.value : e \in {f \in ToSet(sec.entries) : f.key = "filter"}}
        all   == Find(sec, "subscribe_all")
    IN  IF Word(Empty) \in given \/ (IsTruth(all) /\ Truth(all)) THEN {} ELSE given

SourceConfig(sec) ==
    [id |-> Find(sec, "id")[2], endpoint |-> Find(sec, "endpoint"), filters |-> Filters(sec),
     hwm |-> IF Find(sec, "recv_hwm") = Absent THEN 0 ELSE Find(sec, "recv_hwm")[2]]

BridgeConfig(secs) ==
    [ints |-> IntOptions(secs[1], BridgeInts),
     sources |-> [i \in DOMAIN SourceSections(secs) |-> SourceConfig(SourceSections(secs)[i])]]

ReceiverConfig(secs) ==
    [ints |-> IntOptions(secs[1], ReceiverInts), endpoints |-> Endpoints(secs[1]),
     binds |-> BindsCommands(secs[1])]

\* fragment_payload()
FragmentPayload(size) == IF size > HeaderSize THEN size - HeaderSize ELSE 0

=============================================================================
