------------------------------ MODULE Parsers ------------------------------
(***************************************************************************)
(* The parsers of the system, each a function of what it is given: the     *)
(* datagrams of a receiver (Wire), the configuration of a program that     *)
(* starts (Config), the messages of a browser (Json), the payloads of a    *)
(* capture (Telemetry).  A behaviour chooses one input and parses it.      *)
(***************************************************************************)
EXTENDS Config, Json, Telemetry

CONSTANTS
    Headers,   \* datagrams
    Starts,    \* program, lines of the file, --source and --set arguments
    Texts,     \* sequences of JSON tokens
    Messages   \* messages of the test publisher

\* Whatever a header holds, its fields have their widths.
ASSUME HeaderAssumption ==
    \A d \in Headers :
        /\ d.size \in Nat /\ d.magic \in BOOLEAN /\ d.version \in BOOLEAN
        /\ d.count \in 0 .. MaxU16 /\ d.index \in 0 .. MaxU16 /\ d.flen \in 0 .. MaxU16
        /\ d.length \in 0 .. MaxU32 /\ d.offset \in 0 .. MaxU32

IsText(v) == v[1] \in {"int", "word"}

\* An empty section name is a syntax error of its own; a value is a text.
ASSUME StartAssumption ==
    \A s \in Starts :
        /\ s.lines \in Seq(ToSet(s.lines)) /\ s.sources \in Seq(ToSet(s.sources))
        /\ s.overrides \in Seq(ToSet(s.overrides))
        /\ \A l \in ToSet(s.lines) : /\ l.kind \in {"section", "entry", "bad"}
                                     /\ l.kind = "section" => l.name # Empty
                                     /\ l.kind = "entry" => IsText(l.value)
        /\ \A o \in ToSet(s.overrides) : /\ o.kind \in {"entry", "dotted", "bad"}
                                         /\ o.kind # "bad" => IsText(o.value)

\* What the publisher is told by its options.
ASSUME TelemetryAssumption ==
    \A m \in Messages :
        /\ m.topic \in Seq(ToSet(m.topic)) /\ m.multipart \in BOOLEAN
        /\ m.publisher \in Nat /\ m.size \in Nat
        /\ m.index \in Seq(0 .. 255) /\ Len(m.index) = 8

VARIABLES
    kind,    \* "datagram", "start", "json" or "payload"
    input,   \* what is parsed
    verdict  \* what the parser returns, Unread before

vars == <<kind, input, verdict>>

Unread == [unread |-> TRUE]

-----------------------------------------------------------------------------

\* The end of main() but for the run itself: the problems, and without any the
\* configuration the program runs with.
Start(s) ==
    LET secs == Gathered(s.lines, s.sources, s.overrides)
        problems == CASE secs = Bad -> {<<"syntax">>}
                      [] secs # Bad /\ s.program = "bridge" -> BridgeProblems(secs)
                      [] secs # Bad /\ s.program = "receiver" -> ReceiverProblems(secs)
    IN  [problems |-> problems,
         config |-> CASE problems # {} -> << >>
                      [] problems = {} /\ s.program = "bridge" -> BridgeConfig(secs)
                      [] problems = {} /\ s.program = "receiver" -> ReceiverConfig(secs)]

Init ==
    /\ \/ kind = "datagram" /\ input \in Headers
       \/ kind = "start" /\ input \in Starts
       \/ kind = "json" /\ input \in Texts
       \/ kind = "payload" /\ input \in Messages
    /\ verdict = Unread

ReadDatagram == kind = "datagram" /\ verdict' = [error |-> ParseDatagram(input)]
ReadStart == kind = "start" /\ verdict' = Start(input)
ReadJson == kind = "json" /\ verdict' = [accepted |-> ParseJson(input)]
ReadPayload == kind = "payload" /\ verdict' = DecodeTestpub(Relayed(input))

Next ==
    /\ verdict = Unread
    /\ ReadDatagram \/ ReadStart \/ ReadJson \/ ReadPayload
    /\ UNCHANGED <<kind, input>>

Spec == Init /\ [][Next]_vars

-----------------------------------------------------------------------------
(* Datagrams.                                                              *)

\* The rules of wire_protocol.md:65-77 that d breaks, by the name the
\* receiver counts them under.
BrokenRules(d) ==
    {r \in {"Truncated", "BadMagic", "BadVersion", "BadFragmentCount",
            "BadFragmentIndex", "LengthMismatch", "RangeError", "FlagMismatch"} :
        \/ r = "Truncated" /\ d.size < HeaderSize
        \/ r = "BadMagic" /\ ~d.magic
        \/ r = "BadVersion" /\ ~d.version
        \/ r = "BadFragmentCount" /\ d.count = 0
        \/ r = "BadFragmentIndex" /\ d.index >= d.count
        \/ r = "LengthMismatch" /\ d.size # HeaderSize + d.flen
        \/ r = "RangeError" /\ \/ d.offset + d.flen > d.length
                               \/ d.count = 1 /\ (d.offset # 0 \/ d.flen # d.length)
                               \/ d.index = d.count - 1 /\ d.offset + d.flen # d.length
                               \/ d.index < d.count - 1 /\ d.flen = 0
        \/ r = "FlagMismatch" /\ (("FRAGMENTED" \in d.flags) # (d.count > 1))}

\* The parser rejects exactly the datagrams a documented rule forbids, and
\* counts a rejected one under a rule it really breaks.
VerdictFollowsRules ==
    kind = "datagram" /\ verdict # Unread =>
        IF BrokenRules(input) = {} THEN verdict.error = "None"
        ELSE verdict.error \in BrokenRules(input)

-----------------------------------------------------------------------------
(* Configurations.                                                         *)

Runs(program) ==
    kind = "start" /\ verdict # Unread /\ input.program = program /\ verdict.problems = {}

\* BRG-103: a configuration that passes is one the program can run with, and
\* fulfils what the modules of the bridge, the reassembler and the receiver's
\* loop assume; what conflicts is found although it comes from the file, from
\* --source, from --set or from a default.
AcceptedIsUsable ==
    LET c == verdict.config IN
    /\ Runs("bridge") =>
          /\ FragmentPayload(c.ints.max_datagram_size) \in 1 .. MaxU16
          /\ c.ints.max_messages_per_poll >= 1
          /\ c.sources # << >>
          /\ \A i, j \in DOMAIN c.sources : i # j =>
                c.sources[i].id # c.sources[j].id /\ c.sources[i].endpoint # c.sources[j].endpoint
    /\ Runs("receiver") =>
          /\ c.ints.reassembly_max_pending >= 1 /\ c.ints.reassembly_timeout_ms >= 1
          /\ c.ints.max_datagrams_per_poll >= 1
          /\ c.binds => c.endpoints.stats # c.endpoints.command \/ c.endpoints.stats = Word(Empty)

\* The value of the last element of s with a given place, Absent without one.
LastOf(s, I) == IF I = {} THEN Absent ELSE s[Max(I)].value

\* The section line i is in: 0 is the global one.
SectionOf(lines, i) == Cardinality({j \in 1 .. i : lines[j].kind = "section"})

InFile(lines, n, key) ==
    LastOf(lines, {i \in DOMAIN lines : /\ SectionOf(lines, i) = n
                                        /\ lines[i].kind = "entry" /\ lines[i].key = key})

\* The section --set names: the global one, or the one before the dot.
Named(o) == IF o.kind = "entry" THEN Empty ELSE o.section

Overriding(overrides, name, key) ==
    LastOf(overrides, {i \in DOMAIN overrides : /\ Named(overrides[i]) = name
                                                /\ overrides[i].key = key})

InForce(first, second, default) ==
    CASE first # Absent -> first[2]
      [] first = Absent /\ second # Absent -> second[2]
      [] OTHER -> default

\* README.md:91 and config.cpp:28: an option has the value of the last --set for
\* it, else that of its last line in the file, else the default; --set source.KEY
\* changes the last source only, which may come from --source (and --set .KEY is
\* --set KEY, config.cpp:136: the global section has the empty name).
LastAssignmentWins ==
    /\ \A p \in {"bridge", "receiver"} : Runs(p) =>
          LET ints == IF p = "bridge" THEN BridgeInts ELSE ReceiverInts
          IN  \A k \in DOMAIN ints : verdict.config.ints[k] =
                  InForce(Overriding(input.overrides, Empty, k), InFile(input.lines, 0, k), ints[k].default)
    /\ Runs("bridge") =>
          \A i \in DOMAIN verdict.config.sources :
              LET last == i = Len(verdict.config.sources)
              IN  verdict.config.sources[i].hwm =
                      InForce(IF last THEN Overriding(input.overrides, "source", "recv_hwm") ELSE Absent,
                              InFile(input.lines, i, "recv_hwm"), 0)

-----------------------------------------------------------------------------
(* JSON.                                                                   *)

MaxTokens == Max({Len(t) : t \in Texts})

\* Messages are limited in length.
ASSUME TextAssumption ==
    MaxTokens \in Nat /\ \A t \in Texts : t \in Seq(ToSet(t)) /\ Len(t) <= MaxTokens

Concats(A, B) == {a \o b : a \in A, b \in B}

\* The sequences of n tokens that are a value nested d deep at most, or the
\* members between the brackets of an object or array, made of those in lang.
Phrases(lang, k, n, d) ==
    IF k = "value"
      THEN {v \in {<<"s">>, <<"n">>} : n = 1}
           \cup UNION {Concats(Concats({<<b>>}, lang[<<b, n - 2, d - 1>>] \cup {e \in {<< >>} : n = 2}),
                               {<<Closing(b)>>}) :
                       b \in {c \in {"{", "["} : n >= 2 /\ d >= 1}}
    ELSE LET name == IF k = "{" THEN <<"s", ":">> ELSE << >>
             value(j) == IF j <= Len(name) THEN {}
                         ELSE Concats({name}, lang[<<"value", j - Len(name), d>>])
         IN  value(n) \cup UNION {Concats(Concats(value(j), {<<",">>}), lang[<<k, n - j - 1, d>>]) :
                                  j \in 1 .. n - 2}

Grammar ==
    LET lang[x \in Kinds \X (0 .. MaxTokens) \X (0 .. MaxDepth)] ==
            Phrases(lang, x[1], x[2], x[3])
    IN  [n \in 0 .. MaxTokens |-> lang[<<"value", n, MaxDepth>>]]

\* A text is accepted if and only if it is one JSON value with nothing behind
\* it, nested no deeper than the limit (json_value.hpp:33).
AcceptsGrammar ==
    kind = "json" /\ verdict # Unread => (verdict.accepted <=> input \in Grammar[Len(input)])

-----------------------------------------------------------------------------
(* Captured telemetry.                                                     *)

\* The magic is found in the header and not before it.
TopicIsClean(m) == MagicIn(Bytes(m.topic) \o Magic) = {Len(m.topic) + 1}

\* telemetry.hpp:199 and capture_format.md:116: unless the topic holds the magic,
\* a row of telemetry tells what was published, every field whole, also when the
\* end of the topic makes up the magic with the first byte of the header; and every
\* message becomes a row, but for those whose topic is a frame of its own, holds
\* the magic or makes it up.  Where the topic holds the magic the row may be a
\* false one, of a header that is found in the topic and the real header.
RowsTellWhatWasPublished ==
    LET type == DataTypeForEndpoint(input.publisher) IN
    kind = "payload" /\ verdict # Unread =>
        /\ verdict # NotTestpub /\ MagicIn(Bytes(input.topic)) = {} =>
              /\ verdict.stem = Stem(type)
              /\ verdict.publisher = Number(input.publisher, 4)
              /\ verdict.index = Bytes(input.index)
              /\ \A f \in Layout(type) : verdict.data[f[1]] = FieldBytes(f[1], f[3])
        /\ TopicIsClean(input) /\ (input.multipart => input.topic = << >>) => verdict # NotTestpub

=============================================================================
