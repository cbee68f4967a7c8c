------------------------------ MODULE Receiver ------------------------------
(***************************************************************************)
(* The receiver (tools/receiver/receiver.cpp): the main loop of            *)
(* ReceiverLoop, whose datagrams go through parse_datagram() (Wire), the   *)
(* Reassembler and the sequence tracker (Tracking) into the capture file   *)
(* (CaptureLog), and whose commands switch recording.  Statistics are the  *)
(* totals that the properties speak of.                                    *)
(***************************************************************************)
EXTENDS ReceiverLoop, Wire, Tracking, FiniteSets, Functions

CONSTANTS
    MaxPending, Timeout, MaxMessageLength, CompactFactor, CompactSlack,
    MaxTime, MaxOpened,  \* those of Reassembler
    SyncOnFlush,         \* capture_sync_on_flush
    Setups               \* behaviours to consider: what their environment may do,
                         \* and the bounds on it (the fields of setup)

ASSUME ReceiverAssumption ==
    /\ Command \subseteq {"on", "off", "toggle", "flush", "other"}
    /\ SyncOnFlush \in BOOLEAN
    /\ \A s \in Setups :
        /\ s.packets \subseteq Packet /\ s.commands \subseteq Command
        /\ s.timers \subseteq Timers /\ s.faults \subseteq IoFaults
        /\ s.recordOnStart \subseteq BOOLEAN
        /\ s.maxTaken \in Nat     \* bound on the datagrams handled
        /\ s.maxCommands \in Nat  \* bound on the commands that arrive
        /\ s.maxTime \in 0 .. MaxTime

\* A datagram has at most 65507 bytes; its fields are unsigned integers.
ASSUME PacketAssumption ==
    /\ IsFiniteSet(Packet)
    /\ \A d \in Packet :
          /\ d.size \in Nat /\ d.magic \in BOOLEAN /\ d.version \in BOOLEAN
          /\ d.sequence \in Nat
          /\ d.count \in 0 .. MaxU16 /\ d.index \in 0 .. MaxU16 /\ d.flen \in 0 .. MaxU16
          /\ d.length \in 0 .. MaxU32 /\ d.offset \in 0 .. MaxU32

VARIABLES
    entries, order, evictions, now, ret, tally,  \* reassembler_
    file, failed, log, readable, safe,           \* writer_
    tracker,    \* sequences_: source -> state
    recording,  \* recording_
    stats,      \* stats_
    code,       \* what run() returned
    past,       \* history: datagrams handled, messages delivered, first numbers, commands
    setup       \* the behaviour's environment, which never changes

reassembly == <<entries, order, evictions, ret, tally>>
capture == <<file, failed, log, readable, safe>>
vars == <<loopVars, reassembly, now, capture, tracker, recording, stats, code, past, setup>>

Accepted == {d \in Packet : d.size > 0 /\ ParseDatagram(d) = "None"}
Source == {d.source : d \in Accepted}

R == INSTANCE Reassembler WITH Fragment <- Accepted
C == INSTANCE CaptureLog WITH Record <- {}  \* its next-state relation is not used

-----------------------------------------------------------------------------

Counters == {"datagrams", "malformed", "inconsistent", "messages", "duplicates",
             "incomplete", "skipped", "writeErrors"}

\* The sum of the values of a function.
SumOf(f) == FoldFunction(+, 0, f)

\* The statistics with the counters in F incremented.
Counting(F) == [f \in Counters |-> IF f \in F THEN stats[f] + 1 ELSE stats[f]]

-----------------------------------------------------------------------------
(* handle_datagram()                                                       *)

Handled(d) == [past EXCEPT !.taken[d] = @ + 1]

Reject(d) ==
    /\ ParseDatagram(d) # "None"
    /\ stats' = Counting({"malformed"})
    /\ past' = Handled(d)
    /\ UNCHANGED <<reassembly, capture, tracker, recording>>

\* Fault: while recording is off, messages are not counted as skipped.
SkippedAsFault == IF recording THEN {"datagrams", "messages", "skipped"}
                  ELSE {"datagrams", "messages"}
SkippedAs == {"datagrams", "messages", "skipped"}

\* on_complete().  The writer records only while it is told to and able to.
CanRecord == recording /\ file = "open" /\ ~failed

OnComplete(m) ==
    \/ /\ ~CanRecord
       /\ stats' = Counting(SkippedAs)
       /\ UNCHANGED <<capture, recording>>
    \/ /\ CanRecord
       /\ C!LogWrite(m)
       /\ stats' = Counting({"datagrams", "messages"})
       /\ UNCHANGED recording
    \/ /\ CanRecord
       /\ C!LogWriteFails
       /\ stats' = Counting({"datagrams", "messages", "writeErrors"})
       /\ recording' = FALSE

CountedAs(result) == CASE result = "Incomplete" -> {"datagrams"}
                       [] result = "Duplicate" -> {"datagrams", "duplicates"}
                       [] result = "Malformed" -> {"datagrams", "malformed", "inconsistent"}

Accept(d) ==
    /\ ParseDatagram(d) = "None"
    /\ tally.opened < MaxOpened
    /\ R!Add(d)
    /\ tracker' = IF ret'.new_message THEN [tracker EXCEPT ![d.source] = Observed(@, d.sequence)]
                  ELSE tracker
    /\ IF ret'.result = "Complete"
         THEN /\ OnComplete(ret'.out)
              /\ past' = [Handled(d) EXCEPT !.delivered = Append(@, ret'.out),
                                            !.first[d.source] = IF @ = -1 THEN d.sequence ELSE @]
         ELSE /\ stats' = Counting(CountedAs(ret'.result))
              /\ past' = [Handled(d) EXCEPT
                             !.first[d.source] =
                                 IF @ = -1 /\ ret'.new_message THEN d.sequence ELSE @]
              /\ UNCHANGED <<capture, recording>>

HandleDatagram(d) ==
    /\ TakeDatagram(d)
    /\ Reject(d) \/ Accept(d)
    /\ UNCHANGED <<now, code>>

-----------------------------------------------------------------------------
(* handle_command()                                                        *)

\* Fault: the file is taken to be open.
NeedsOpenFault == FALSE
NeedsOpen == file # "open"

RecordOn ==
    \/ /\ failed
       /\ UNCHANGED <<capture, recording, stats>>
    \/ /\ ~failed /\ NeedsOpen
       /\ \/ C!LogOpen /\ recording' = TRUE
          \/ C!LogOpenFails /\ UNCHANGED recording
       /\ UNCHANGED stats
    \/ /\ ~failed /\ ~NeedsOpen
       /\ recording' = TRUE
       /\ UNCHANGED <<capture, stats>>

FlushOrCount ==
    \/ C!LogFlush(TRUE) /\ UNCHANGED stats
    \/ C!LogFlushFails /\ stats' = Counting({"writeErrors"})

RecordOff ==
    /\ IF recording /\ file = "open" THEN FlushOrCount ELSE UNCHANGED <<capture, stats>>
    /\ recording' = FALSE

FlushCommand ==
    /\ IF file = "open" THEN FlushOrCount ELSE UNCHANGED <<capture, stats>>
    /\ UNCHANGED recording

HandleCommand(c) ==
    /\ TakeCommand(c)
    /\ \/ (c = "on" \/ (c = "toggle" /\ ~recording)) /\ RecordOn
       \/ (c = "off" \/ (c = "toggle" /\ recording)) /\ RecordOff
       \/ c = "flush" /\ FlushCommand
       \/ c = "other" /\ UNCHANGED <<capture, recording, stats>>
    /\ UNCHANGED <<reassembly, now, tracker, code, past>>

-----------------------------------------------------------------------------
(* The timers and the end of run()                                         *)

SweepIf(b) == IF b THEN R!Expire ELSE UNCHANGED reassembly

\* Fault: a sweep counts one message, however many it discards.
ExpiredFault == IF tally'.expired # tally.expired THEN 1 ELSE 0
Expired == tally'.expired - tally.expired

\* Fault: the result of the flush is not looked at.
FlushErrorFault(fails) == 0
FlushError(fails) == IF fails THEN 1 ELSE 0

Tally(errors) == stats' = [stats EXCEPT !.incomplete = @ + Expired,
                                        !.writeErrors = @ + errors]

HandleTimers ==
    /\ RunTimers
    /\ SweepIf("sweep" \in due)
    /\ LET flushes == "flush" \in due /\ file = "open" /\ ~failed
       IN  \/ ~flushes /\ Tally(0) /\ UNCHANGED capture
           \/ flushes /\ C!LogFlush(SyncOnFlush) /\ Tally(FlushError(FALSE))
           \/ flushes /\ C!LogFlushFails /\ Tally(FlushError(TRUE))
    /\ UNCHANGED <<now, tracker, recording, code, past>>

End ==
    /\ Finish
    /\ SweepIf(TRUE)
    /\ \/ file # "open" /\ code' = 0 /\ Tally(0) /\ UNCHANGED capture
       \/ C!LogClose /\ code' = 0 /\ Tally(0)
       \/ C!LogCloseFails /\ code' = 1 /\ Tally(1)
    /\ UNCHANGED <<now, tracker, recording, past>>

-----------------------------------------------------------------------------

\* init(), with and without record_on_start.  When the file cannot be opened
\* with it the receiver does not start.
Init ==
    /\ LoopInit
    /\ R!Init
    /\ tracker = [s \in Source |-> Unseen]
    /\ setup \in Setups
    /\ recording \in setup.recordOnStart
    /\ file = IF recording THEN "open" ELSE "none"
    /\ failed = FALSE /\ log = << >> /\ readable = 0 /\ safe = 0
    /\ stats = [f \in Counters |-> 0]
    /\ code = -1
    /\ past = [taken |-> [d \in Packet |-> 0], delivered |-> << >>,
               first |-> [s \in Source |-> -1], commands |-> 0]

handlers == <<reassembly, now, capture, tracker, recording, stats, code, past>>

\* Steps of the loop that handle nothing; a datagram of no bytes is one.
Move ==
    /\ \/ Poll \/ Leave \/ TakeEmpty
       \/ PollFails /\ "poll" \in setup.faults
       \/ UdpDone /\ (Ends("udp", udp) \/ "udp" \in setup.faults)
       \/ CommandsDone /\ (Ends("commands", commands) \/ "commands" \in setup.faults)
    /\ UNCHANGED handlers

TakenInAll == SumOf(past.taken)

Environment ==
    \/ /\ TakenInAll + Len(udp) < setup.maxTaken
       /\ \E d \in setup.packets : DatagramArrives(d)
       /\ UNCHANGED handlers
    \/ /\ past.commands < setup.maxCommands
       /\ \E c \in setup.commands : CommandArrives(c)
       /\ past' = [past EXCEPT !.commands = @ + 1]
       /\ UNCHANGED <<reassembly, now, capture, tracker, recording, stats, code>>
    \/ (Signal \/ \E t \in setup.timers : Elapse(t)) /\ UNCHANGED handlers
    \/ /\ now < setup.maxTime
       /\ R!Tick
       /\ UNCHANGED <<loopVars, capture, tracker, recording, stats, code, past>>

Next ==
    /\ \/ Move \/ HandleTimers \/ End \/ Environment
       \/ \E d \in Packet : HandleDatagram(d)
       \/ \E c \in Command : HandleCommand(c)
    /\ UNCHANGED setup

Spec == Init /\ [][Next]_vars

-----------------------------------------------------------------------------
(* Properties.                                                             *)

\* Types of the variables; recording needs an open file.
TypeOK ==
    /\ LoopTypeOK /\ R!TypeOK
    /\ file \in {"none", "open", "closed", "unsynced"} /\ failed \in BOOLEAN
    /\ readable \in 0 .. Len(log) /\ safe \in 0 .. readable
    /\ recording \in BOOLEAN /\ (recording /\ phase # "stopped" => file = "open")
    /\ stats \in [Counters -> Nat]
    /\ code \in {-1, 0, 1} /\ (code # -1 <=> phase = "stopped")

\* Every complete message is in the capture or counted as skipped, but for the
\* one whose write failed: switching recording on and off, failures and
\* flushes lose none.
MessagesAccounted ==
    LET lost == stats.messages - Len(log) - stats.skipped
    IN  lost \in 0 .. 1 /\ (lost = 1 => failed)

\* No bytes are delivered more often than datagrams arrived with them, however
\* datagrams are repeated and messages expire, are evicted and opened again.
Uses(r, d) == /\ <<r.source, r.sequence>> = R!Key(d)
              /\ d.index \in DOMAIN r.data /\ r.data[d.index] = d.body
UsesOf(d) == {i \in DOMAIN past.delivered : Uses(past.delivered[i], d)}
SameBytes(e, d) == R!Key(e) = R!Key(d) /\ e.index = d.index /\ e.body = d.body
Arrived(d) == SumOf([e \in {e \in Accepted : SameBytes(e, d)} |-> past.taken[e]])
BytesUsedOnce == \A d \in Accepted : Cardinality(UsesOf(d)) <= Arrived(d)

\* Every sequence number between the first and the last one followed that was
\* not delivered shows: as missing, incomplete, inconsistent or pending, or
\* among the evictions, which are not published.
Followed(s) == IF tracker[s].seen THEN past.first[s] .. tracker[s].last ELSE {}
Delivered(s, n) == \E i \in DOMAIN past.delivered :
                      past.delivered[i].source = s /\ past.delivered[i].sequence = n
Undelivered ==
    UNION {{<<s, n>> : n \in {m \in Followed(s) : ~Delivered(s, m)}} : s \in Source}
MissingInAll == SumOf([s \in Source |-> tracker[s].missing])
Shown == MissingInAll + stats.incomplete + stats.inconsistent + Cardinality(DOMAIN entries)
UndeliveredAccounted == Cardinality(Undelivered) <= Shown + evictions

\* From the datagrams to the capture file no message vanishes without a trace.
NothingVanishes == UndeliveredAccounted /\ MessagesAccounted

\* A failure of an open capture file is never silent: write_errors counts it.
FailureCounted == failed /\ file # "none" => stats.writeErrors > 0

\* When the receiver ends with status 0 and no write error, every record it
\* accepted is in the file, and on stable storage too unless the file refused the
\* fsync() of close() with EINVAL or EROFS, which the writer takes for success.
CleanExit ==
    code = 0 /\ stats.writeErrors = 0 =>
        readable = Len(log) /\ (safe = Len(log) \/ file = "unsynced")

\* What the receiver reports, in its statistics and at its end, is how the
\* capture file fared.
FailuresReported == FailureCounted /\ CleanExit

(* What the documents say and the code does not do: the violation runs.     *)

\* capture_format.md:68: any open, write, flush or close error disables
\* recording.
FailureDisablesRecording == failed /\ phase # "stopped" => ~recording

=============================================================================
