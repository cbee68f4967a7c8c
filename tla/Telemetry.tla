------------------------------ MODULE Telemetry ------------------------------
(***************************************************************************)
(* The payloads of the test publisher (tools/testpub), as they reach a     *)
(* capture through the bridge, and what the CSV export                     *)
(* (tools/capture_to_csv/csv_export.cpp) makes of them.                    *)
(*                                                                         *)
(* A byte of a topic or of the header is <<"byte", value, 0>>.  What the   *)
(* fields of the published structure and the padding hold does not matter: *)
(* <<"field", name, k>> is byte k of a field, <<"filler", k, 0>> padding.  *)
(* No header is ever read there, as none begins behind the real one.       *)
(***************************************************************************)
EXTENDS Integers, SequencesExt

TestHeaderSize == 24

\* Board health, mode and status, PTP statistics.
DataType == 1 .. 3
DataTypeForEndpoint(p) == 1 + (p % 3)
DataSize(type) == CASE type = 1 -> 80 [] type = 2 -> 32 [] type = 3 -> 56 [] OTHER -> 0

Bytes(s) == [k \in DOMAIN s |-> <<"byte", s[k], 0>>]

\* put_u16le() and put_u32le(): the low bytes of a value.
Scale == <<1, 256, 65536, 16777216>>
Number(value, width) == [k \in 1 .. width |-> <<"byte", (value \div Scale[k]) % 256, 0>>]

\* "TEST"
Magic == Bytes(<<84, 69, 83, 84>>)

-----------------------------------------------------------------------------
(* encode() and decode()                                                   *)

\* <<field, offset, width>> of each field, which is a name and an index.
Scalars(S) == {<< <<f[1], 0>>, f[2], f[3]>> : f \in S}

Layout(type) ==
    CASE type = 1 ->
           Scalars({<<"sample_time_ns", 0, 8>>, <<"alarm_flags", 72, 4>>, <<"sample_count", 76, 4>>})
           \cup {<< <<"voltage_v", r>>, 8 + 8 * r, 4>> : r \in 0 .. 5}
           \cup {<< <<"current_a", r>>, 12 + 8 * r, 4>> : r \in 0 .. 5}
           \cup {<< <<"temperature_c", t>>, 56 + 4 * t, 4>> : t \in 0 .. 3}
      [] type = 2 ->
           Scalars({<<"sample_time_ns", 0, 8>>, <<"uptime_s", 8, 4>>, <<"mode", 12, 1>>,
                    <<"previous_mode", 13, 1>>, <<"mode_change_count", 14, 2>>,
                    <<"status_flags", 16, 4>>, <<"fault_code", 20, 4>>,
                    <<"time_in_mode_s", 24, 4>>, <<"heartbeat", 28, 4>>})
      [] type = 3 ->
           Scalars({<<"sample_time_ns", 0, 8>>, <<"grandmaster_identity", 8, 8>>,
                    <<"offset_from_master_ns", 16, 8>>, <<"mean_path_delay_ns", 24, 8>>,
                    <<"freq_adjustment_ppb", 32, 4>>, <<"steps_removed", 36, 2>>,
                    <<"current_utc_offset_s", 38, 2>>, <<"port_state", 40, 1>>,
                    <<"servo_state", 41, 1>>, <<"gm_clock_class", 42, 1>>, <<"flags", 43, 1>>,
                    <<"sync_rx_count", 44, 4>>, <<"announce_timeout_count", 48, 4>>,
                    <<"reserved", 52, 4>>})

FieldBytes(name, width) == [k \in 1 .. width |-> <<"field", name, k>>]

\* Each field is written at its offset.
Encoded(type) ==
    [b \in 1 .. DataSize(type) |->
        LET f == CHOOSE g \in Layout(type) : b \in g[2] + 1 .. g[2] + g[3]
        IN  FieldBytes(f[1], f[3])[b - f[2]]]

Decoded(type, bytes) ==
    [name \in {f[1] : f \in Layout(type)} |->
        LET f == CHOOSE g \in Layout(type) : g[1] = name
        IN  SubSeq(bytes, f[2] + 1, f[2] + f[3])]

-----------------------------------------------------------------------------
(* The publisher.  A message m: [topic, multipart, publisher, index, size]: *)
(* the topic as the values of its characters, the index as those of its 8  *)
(* bytes, lowest first, and the --size chosen for it.  A message is under  *)
(* 4 GiB: the bridge drops longer ones.                                    *)

\* Fault: the length in the header leaves out the topic.
DeclaredLengthFault(prefix, body) == body
DeclaredLength(prefix, body) == Len(prefix) + body

TestPayload(m) ==
    LET type == DataTypeForEndpoint(m.publisher)
        body == Max({m.size, TestHeaderSize + DataSize(type)})
        prefix == IF m.multipart THEN << >> ELSE Bytes(m.topic)
    IN  prefix \o Magic \o Number(m.publisher, 4) \o Bytes(m.index)
        \o Number(DeclaredLength(prefix, body), 4) \o Number(type, 2) \o Number(DataSize(type), 2)
        \o Encoded(type)
        \o [i \in 1 .. body - TestHeaderSize - DataSize(type) |-> <<"filler", i, 0>>]

\* What the bridge makes of it: the frames of a message in one.
Relayed(m) == (IF m.multipart THEN Bytes(m.topic) ELSE << >>) \o TestPayload(m)

-----------------------------------------------------------------------------
(* decode_testpub()                                                        *)

NotTestpub == [stem |-> "unknown"]
Stem(type) == CASE type = 1 -> "board_health" [] type = 2 -> "mode_status" [] type = 3 -> "ptp_stats"

\* The positions of the magic in the payload.
MagicIn(bytes) == {i \in 1 .. Len(bytes) - 3 : SubSeq(bytes, i, i + 3) = Magic}

\* get_u*le() takes whatever bytes stand there.  It gives different bytes
\* different numbers, so that a number is told by its bytes here.
NumberAt(bytes, at, width) == SubSeq(bytes, at, at + width - 1)

TestHeader(bytes, at) ==
    [publisher |-> NumberAt(bytes, at + 4, 4), index |-> NumberAt(bytes, at + 8, 8),
     length |-> NumberAt(bytes, at + 16, 4), type |-> NumberAt(bytes, at + 20, 2),
     dataLength |-> NumberAt(bytes, at + 22, 2)]

DecodeTestpub(bytes) ==
    IF MagicIn(bytes) = {} \/ Len(bytes) < Min(MagicIn(bytes)) - 1 + TestHeaderSize THEN NotTestpub
    ELSE LET at == Min(MagicIn(bytes))
             h == TestHeader(bytes, at)
             start == at + TestHeaderSize
             types == {t \in DataType : h.type = Number(t, 2)}
             type == CHOOSE t \in types : TRUE
             size == DataSize(type)
         IN  IF \/ types = {} \/ h.dataLength # Number(size, 2)
                \/ h.length # Number(Len(bytes), 4) \/ Len(bytes) < start - 1 + size
               THEN NotTestpub
             ELSE [stem |-> Stem(type), publisher |-> h.publisher, index |-> h.index,
                   data |-> Decoded(type, SubSeq(bytes, start, start + size - 1))]

=============================================================================
