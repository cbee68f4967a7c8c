# Verification of ipc-data-relay

TLA+ specifications of the relay that carries ZeroMQ messages over UDP
multicast into a capture file, the TLC runs that check them, and theorems that
TLAPS proves about them. Paths below are relative to the repository.

## 1. The system

    publishers --ZeroMQ--> bridge --UDP multicast--> receiver --> capture file --> reader, csv
                                                      ^    |
                                          commands    |    v  statistics (ZeroMQ)
                                              control tool (HTTP, WebSocket) <--> browser

| Component | Code | State | Operations | Interacts with |
|---|---|---|---|---|
| Wire protocol | `src/common/wire_protocol.cpp` | none | encode a header, parse a datagram, count fragments | bridge (encode), receiver (parse) |
| Bridge | `src/bridge/bridge.cpp` | SUB sockets, `next_sequence` per source, shutdown flag, statistics | `poll_once`, `service_source`, `transmit`, `run` | publishers through socket queues; receiver through UDP |
| Receiver | `tools/receiver/receiver.cpp` | UDP and command sockets, deadlines, `recording_`, statistics | `poll_once`, `drain_udp`, `drain_commands`, `handle_datagram`, `handle_command`, `on_complete`, timers, end of `run` | owns the next three; publishes statistics, takes commands |
| Reassembler | `tools/receiver/lib/reassembler.cpp` | `entries_`, `order_`, `evictions_` | `add`, `expire`, `evict_oldest` | called by the receiver |
| Sequence tracker | `tools/receiver/lib/sequence_tracker.cpp` | per source: last number, missing, gaps, late | `observe` | called for every new message |
| Capture writer | `tools/receiver/lib/capture_writer.cpp` | `file_`, `failed_`, counts; behind it stdio and the kernel | `open`, `write_record`, `flush`, `close` | called by the receiver |
| Capture reader, format | `capture_reader.cpp`, `capture_format.cpp` | position in the file, error | `open`, `next` | reads what the writer, or a crash, left |
| Control tool | `tools/ctl/` | clients, their buffers, latest statistics, pending command results | HTTP, WebSocket frames, command forwarding, broadcast | receiver (statistics, commands), browser |
| Browser page | `tools/ctl/frontend/app.js` | connection, outstanding commands, last statistics | connect, reconnect, send, render | control tool |
| Configuration | `src/common/config.cpp`, `*_config.cpp`, `main.cpp` | sections and entries, until the start | parse, add `--source`, apply `--set`, validate | bridge, receiver |
| JSON | `tools/ctl/backend/json_value.cpp` | position in the text | parse | control tool |
| Test publisher | `tools/testpub/` | messages sent per endpoint | encode a payload | bridge, through ZeroMQ |
| CSV export | `tools/capture_to_csv/` | the CSVs opened so far | recognise, decode, write rows | reader, test publisher's format |
| Others | `capture_inspect.py`, command line of the control tool, tests, packaging | | | |

Every program is one thread around a poll. What is hard is therefore not data
races but: the order in which sockets, commands and timers are served and
whether one starves another; datagrams lost, repeated and reordered; a bridge
that restarts and numbers from 0 again; bounded tables with lazily cleaned
queues; writes that fail half way and files cut by a crash; boundaries of 16
and 32-bit header fields; and messages that vanish from every counter. For each
component the properties that make it correct:

* *wire protocol*: what the bridge sends is accepted, what a rule forbids is not;
* *bridge*: the datagrams of a message tile it; no source starves; shutdown ends it;
* *reassembler*: bounded memory, the eviction loop ends, no entry is lost
  uncounted, a delivered message has all its fragments, of one key, count and
  length, and only overdue entries expire;
* *sequence tracker*: losses are not under-reported;
* *capture writer*: a reader gets a prefix of what was accepted, all of it after
  a clean close;
* *receiver*: commands, timers and shutdown are served; every message is in the
  capture or counted; every failure is counted; exit status 0 without one
  means a whole file;
* *control tool*: connections carry what the protocol allows in its order, one
  answer for every message and one forwarded command for every positive answer,
  bounded statistics for a slow browser, and the state after the last command
  reaches every browser;
* *browser page*: waiting for a command ends, and not silently nor by what
  it showed already; a receiver that is down shows; the page settles on the receiver's state;
* *configuration*: the assignment that should win wins, and what passes the
  validation is usable;
* *JSON*: exactly the texts of the grammar are accepted, up to the nesting limit;
* *CSV export*: a row tells what was published, unless the topic holds the magic,
  and a damaged capture gives what
  is whole of it and an error.

## 2. Modules

| Module | Models | Proofs, instances |
|---|---|---|
| `Reassembler` | `reassembler.cpp` | `Reassembler_proofs`, `MCReassembler` |
| `Tracking` | `observe()` as a function | used by `SequenceTracker` and `Receiver` |
| `SequenceTracker` | what is known of one source's numbers, with history | used by `Relay` |
| `Wire` | datagram record, fragmentation arithmetic, the parser | `Relay_proofs` and `Parsers_proofs`, used by `Config`, `Bridge`, `Receiver` |
| `Bridge` | `bridge.cpp` | `Relay_proofs`, `MCBridge` |
| `LossyRelay` | what the relay promises from end to end (abstract) | used by `Relay` |
| `Relay` | `Bridge` with restarts, the network, `Reassembler`, `SequenceTracker` | `Relay_proofs`, `MCRelay` |
| `CaptureLog` | what the writer promises (abstract) | used by `CaptureWriter`, `Receiver` |
| `CaptureWriter` | `capture_writer.cpp` over stdio and the kernel; the reader | `CaptureWriter_proofs`, used by `CsvExport` |
| `CsvExport` | the export of whatever a `CaptureWriter` left on the disk | `CaptureWriter_proofs`, `MCCaptureWriter` |
| `ReceiverLoop` | the receiver's loop alone: polls, limits, timers, shutdown | `MCReceiverLoop` |
| `Receiver` | the whole receiver: the loop with `Wire`, `Reassembler`, `Tracking`, `CaptureLog` | `Receiver_proofs`, `MCReceiver` |
| `ControlServer` | the control tool's backend, `control_server.cpp` with `http.cpp`, `websocket.cpp` | `ControlServer_proofs`, `MCControlServer` |
| `ControlPage` | `app.js` in several browsers, with backend and receiver in outline | `ControlPage_proofs`, `MCControlPage` |
| `Config` | configuration files, overrides, validation of both programs | used by `Parsers` |
| `Json` | `json_value.cpp` over tokens | used by `Parsers` |
| `Telemetry` | payloads of the test publisher, and what the export decodes | used by `Parsers` |
| `Parsers` | one input is given to one parser | `Parsers_proofs`, `MCParsers` |
| `Selection` | the elements of a sequence at some of its positions, in order | used by `Config`, `ControlServer`, `CsvExport`, `CommonLemmas` |
| `CommonLemmas` | nothing: lemmas about sums, ranks, sequences and naturals | used by the proofs |

**Reassembler.** `entries`, `order` and `evictions` are the fields of the class;
`now` is the monotonic clock, `ret` what the last `add()` returned and `tally` a
history of how entries ended. `add()` is seven actions, one per way out of it;
`evict_oldest()` is the number of elements the loop pops from `order_`, which
exists only if some number makes room, as the loop of the code ends only then.
`expire()` is one action with its sweep and its compaction. A fragment's bytes
are one value, kept at its index: offsets are the parser's business.

**Bridge.** Per source the queue of its SUB socket; `phase` says where the
thread is: polling, receiving from source `Cur`, between the frames of a multipart
message, in the send loop of `transmit()`, or stopped. Every call that can fail has an action for it, and
publishers and the signal may act between any two calls. `tx` is the message
being sent together with the datagrams sent for it. `faults` says which kinds of
failure a behaviour has, so that one run covers behaviours without any; it and
the datagram size `Chunk` are in `setup`, which never changes but in `Relay`.

**Relay.** It extends `Bridge`, whose actions take their steps unchanged;
`BridgeSends` puts `NextDatagram` into `wire`. `Restart` is the death of the
process together with its next start: queues, numbers and the message under way
are gone, and the chunk may be another. `Receive` is `handle_datagram()` with
`Reassembler!Add` and `SequenceTracker!Observe`. On a network in order the next
element of `wire` arrives; on another any element may, any number of times, and
one that never does is lost. `LossyRelay` knows only what the bridge took and
what was delivered. A delivered message is one taken, whole, with its number and
its timestamp (`Deliver`). The exception is `Mix`: as the numbers start again with
the bridge, fragments of two generations can meet in one entry, which compares
their count and length (`reassembler.cpp:51`, `docs/wire_protocol.md:78`). It does
not compare the timestamp, the flags and the offset, which would tell most of them
apart. So messages of two generations with one number, length and count may be
mixed into one nobody sent, with holes or overlaps where they were cut
differently. The refinement shows how far this goes: within a generation nothing
mixes, and nothing of another number, length or count takes part.

**CaptureWriter.** `buffer` is the stdio buffer, `disk` the kernel's file,
`synced` how much of it survives power loss. `fwrite()` and `fflush()` are
external: they may hand over any part when they fail. A record is two or four
units, so that a file may end inside a header or a payload. `CaptureLog` keeps
the records accepted and how many of them a reader gets. `close()` takes an
`fsync()` that the file refuses (EINVAL, EROFS) for success
(`capture_writer.cpp:99`): the file is then `"unsynced"`, its records are readable
but need not survive a loss of power, and `close()` returns true all the same.

**Receiver.** Every step is a step of `ReceiverLoop` with the effect of the
handler: `HandleDatagram` is `handle_datagram()` with everything it calls,
`HandleCommand` is `handle_command()`, `HandleTimers` the end of `poll_once()`,
`End` the end of `run()`. `past` is history. `stats` holds the counters the
properties speak of, as totals over the sources.

**ControlServer.** `todo` is what is left of the current `poll_once()`, one
element per call, so everything may happen between two calls. What peers and
the receiver did shows when a call looks: how much `recv()` finds, how much
`send()` takes, which connections `accept4()` returns and which statistics are
newest is chosen there, and no step of theirs is needed. `client` holds the
fields of `Client`; `in` and `out` are sequences of whole requests, frames and
responses. A request is what the parser and the tests of `upgrade_websocket()`
make of it: a status or an upgrade. A statistics message is the number of
commands the receiver had carried out when it took it. The response 101 and
`hello` are one item of `out`. `got` is what a peer was sent, where the same
statistics repeated count once, which keeps the state space finite; `script` is
what the peers send, chosen at the start, and `limits` the two limits.

**ControlPage.** `page` holds the fields of `state` in `app.js` and where the
connection is. Every handler is an action which ends, as in the code, with
`render()` (`Becomes`). `down` and `up` are a connection's messages. A closed
connection loses what is under way to the page; of what is under way from it the
backend may have received any part, which it still handles (`orphans`). The
backend and the receiver are those of `ControlServer` and `Receiver` in outline:
latest statistics and whether they are recent, the push, commands that are
published and may be dropped by PUB, a receiver that carries them out, may fail
to open its file, crashes and comes back. Time is a choice: a deadline may pass
at any moment after the click, and statistics become stale only when no new ones
are on their way, which takes `stale_after_ms` to be longer than the receiver's
interval. The changes a receiver made are counted, so that old statistics can be
told from new ones.

**Parsers.** Its only step is to parse; the work is in the operators. In `Config`
a line is a record of its kind and a value an integer or a word, the word standing
for all texts its parser treats alike. The sections are those of `ConfigFile`, in
order, of which the global one has the empty name; `ApplyOverride` appends as
`apply_override()` does, so `Find` decides what wins (`--set .KEY` names the global
section too). The problems are a set with one element for a message of the code. `Json`
works on tokens: `ParseFrom` is the body of the three functions that call each other,
and `Parsed` its recursion. In `Telemetry` the bytes of the topic and of the header
have their values, and numbers are decoded from whatever bytes stand at their place,
as `get_u16le()` and the others do. What the bytes of the structure and the padding
hold does not matter: such a byte is named by its field, or the padding, and its
place there, so that a field decoded from elsewhere is noticed.

Definitions whose name contains `Fault` are mutated forms of the definition
after them. No specification uses them; a property is shown to depend on the
code by putting one in the place of the original, which must violate it.

## 3. Runs

Passing runs. Every one explores its whole state space.

| Run | Question |
|---|---|
| `Reassembler` | Three fragmented messages and a second generation of one for two entries, repeats, sweeps at any time: bound, conservation, order, expiry, eviction, soundness of what is buffered and delivered |
| `Relay` | Bridge, network and receiver: delivery of what was taken, mixed at most across a restart (refinement of `LossyRelay`), losses never under-reported, completeness on an orderly network, the cost of a restart |
| `Parsers` | Each parser against the documented rules: datagrams, configurations, JSON, telemetry |
| `Bridge` | Two sources whose publishers need not pause, every class of message length, every failure: tiling and acceptance, no starvation, shutdown ends unless receiving is interrupted for ever between two frames |
| `CaptureWriter` | A buffer of five units, and one smaller than a header, so that every write can fail: prefix property, a clean close holds everything (on stable storage if its `fsync()` was not refused), refinement of `CaptureLog`; an export at any time and stopped after any row |
| `ReceiverLoop` | Unceasing datagrams and commands: commands, timers, shutdown are served |
| `Receiver` | Two setups. `Messages`: loss, repetition, reordering, inconsistent and malformed datagrams with eviction and expiry: every undelivered number shows in a counter, bytes are delivered at most as often as they arrived. `Recording`: all commands with all failures of the file: messages and failures accounted; exit status 0 without a write error means that the file is whole, and on stable storage if its `fsync()` was not refused |
| `ControlServer` | A browser that frames its messages in ten ways, one that commands beside one that looks on, two connections for one place; all read slowly and leave at any time: order on a connection, one answer and one command per message, bounded backlog, results and final state arrive |
| `ControlPage` | Three setups: a page whose connection is lost twice while the receiver crashes, one that is refused five times in a row, two pages with a click each or two of one: no wait ends silently or by the statistics shown at the click, every wait ends, an absent receiver shows, the pages settle |

A property that is the conjunction of named parts is checked as a whole:
`LossesShow` (`MissingBounds`, `LastIsHighest`), `OrderlyNetwork` (`RestartNoGap`,
`InOrderComplete`), `WireIsSound` (`ReceiverAccepts`, `SentTiles`), `NothingStarves`
(`CommandsServed`, `TimersServed`), `NothingVanishes` (`UndeliveredAccounted`,
`MessagesAccounted`), `FailuresReported` (`FailureCounted`, `CleanExit`),
`StreamWellFormed` (`HandshakeFirst`, `NothingAfterLast`), and the first conjuncts
of `ControlServer!TypeOK` (`BacklogBounded`) and of `ExportHoldsAllBefore`
(`ReaderGetsPrefix`). There is a mutant for each part. The type invariants of
`Bridge` and `SequenceTracker` are conjuncts of `RelayTypeOK`, those of
`ReceiverLoop` and `Reassembler` of `Receiver!TypeOK`.

Runs that show a disagreement between what the repository says and what it does
(each checks one property, which the documents or comments state):

| Run | What it shows |
|---|---|
| `Reassembler_overdue` | An entry older than the timeout may survive a sweep, behind a message that was opened again and stands at the place of its first entry |
| `Receiver_flushfailure` | A failed flush does not disable recording |
| `ControlServer_push` | The statistics pushed for a command may have been taken before the receiver carried it out; they use up the push, and the page waits for the next update |

The models show more such disagreements, by the same reading of the code, which
have no run of their own: for the reason of `Reassembler_overdue` the entry
evicted is not always the oldest (`docs/architecture.md:112`; `EvictsOneOldest`
states what does hold); `incomplete` does not include evictions
(`receiver_stats.hpp:17`; `reassembler.cpp:36` evicts without telling the
receiver, so `UndeliveredAccounted` adds `evictions`, which nothing publishes);
a fragment with count 1 or too great a length does not
discard the buffered message of its key (`docs/wire_protocol.md:80`, actions
`FastPath` and `TooLong`); a late message stays counted in `dropped_messages`
(`docs/architecture.md:162`; `MissingBounds` states what holds); a file that
cannot be opened by command is not counted in `write_errors`
(`docs/capture_format.md:68`, action `RecordOn`); a late or repeated datagram of
message 0 is taken for a restart, after which the next message opens a giant gap
(`docs/limitations.md:91`, `Resyncs`); where the network keeps the order, a bridge
that restarts twice within the timeout can cost more than the one late message per
restart of the same line (`RestartNoGap` states what holds, and its comment how the
second message 0 escapes the tracker); telemetry sent with `-m` and a topic, or
behind a topic that holds `TEST` or ends with the beginning of it, is exported as
unknown (`docs/capture_format.md:116`; `RowsTellWhatWasPublished` states what
holds), and behind a topic that holds `TEST` a false header may be found whose
lengths happen to fit, so that a row nobody published is exported: with the topic
`TESTabcdefgh`, message 3670019 of publisher 92; `CaptureWriter::close()` returns
true after an `fsync()` that was refused (`capture_writer.hpp:32`, action `Close`); a
datagram of no bytes is not
counted as malformed (`docs/wire_protocol.md:62`, action `TakeEmpty`); and an
error inside a multipart message makes its remaining frames a message with a
number of its own (`bridge.cpp:180`, action `TakeFails`).

**Bounds and why they are enough.** Sizes keep the proportions of the code
rather than its numbers: `Chunk = 2`, `MaxU16 = 3`, `MaxU32 = 7` in the bridge
put a message at, below and above every limit (empty, short, full, two and three
datagrams, too many fragments, too long). `CompactFactor = CompactSlack = 1`
makes the compaction happen within a few messages where the code needs 64 stale
keys. `MaxPending = 2` with three messages is the smallest table in which the
order of two entries matters and a third evicts. `Timeout = 2` of four ticks
lets entries be younger than, exactly at and older than the timeout.
`MaxOpened`, `MaxRecords`, and the `arrivals`, `maxTaken`, `maxCommands`, `clicks`,
`drops` and `crashes` of a setup bound how long a history is. `ResyncJump = 2`
(1000 in the code) allows both kinds of step back, with numbers up to 5 in `Relay`,
whose setups are: five messages in order over seven datagrams with one restart,
cut in two or three; five in order over eight datagrams with two restarts; three
of which two look alike, four arrivals in any order,
with failing sends and receives and one restart; and six of one datagram, five
arrivals in any order. `MaxPending = 1` makes the second open message evict the
first. In `Parsers` the header fields go to 3, which puts every boundary test on
both sides of its limit; a file has up to two options, two sources and a further
line, any of which may shadow, collide, be out of range or unknown, and up to two
overrides; JSON texts have up to six tokens, enough for a level more than
`MaxDepth = 2` allows; `MaxU32` is 2^31 - 1 there, as TLC's integers are no larger,
and no input comes near it. Every data type, padding and topic class occurs among
the payloads. In `ControlServer`, `MaxMessage = 2` lets a
command take one frame or two and a third make it too long; `MaxControl = 1`
separates the two limits; a `maxBacklog` of 0 and 1 items lets a browser be
skipped and served again; `maxClients` is 1 for two peers, or 2. Sequence numbers of the bridge wrap at
`SeqSpace`, which stands for 2^64; other 64-bit counters do not wrap. Runs with
`CHECK_DEADLOCK FALSE` are those of programs that stop, or of bounded histories.

**Fairness.** `Bridge!FairSpec` and `ReceiverLoop!LoopFairSpec` assume weak
fairness of the next step of the one thread, and nothing of publishers, senders,
controllers, the clock or the signal. The code justifies it: polls have a finite
timeout, both programs receive with `ZMQ_DONTWAIT` or `MSG_DONTWAIT`, publishing
statistics does not wait, and sending has a timeout (`send_timeout_ms`; with the
setting 0 the kernel may block for ever, and the assumption does not cover that).
One loop of the bridge has no bound: between the frames of a multipart message
EINTR makes it call again at once, at no cost of budget and without a look at the
shutdown flag (`bridge.cpp:154`, action `FrameInterrupted`). Fairness promises nothing
there (`Interruptible`), and `ShutdownEnds` of the bridge claims that a requested
shutdown ends it, with every failure, unless it stays between two frames for ever.
`EverySourceServed` is
claimed of behaviours whose `faults` have no errors of receiving and no
interrupted polls: with them the bridge gives up on the source, or the round, for
the poll, as the comment BRG-111 intends. It counts a message that is at least
put into the send loop.

`ControlServer!FairSpec` assumes weak fairness of the thread, whose sockets are
all non-blocking, and strong fairness of what its surroundings repeat: the update
is due again and again (`update_interval_ms` is positive), the receiver, which
publishes by a timer, has carried out everything and told so, and a browser that
stays has read everything at some of the writes to it. Nothing is assumed of
browsers that leave, of `recv()` finding anything, or of the signal.

`ControlPage!FairSpec` assumes weak fairness of the render timer, the clock, the
reconnection timer, the upgrade, and the delivery of messages on each connection
that takes part, of the backend's loop and of the receiver's while it is alive.
Connections that fail are bounded by the setup, so an attempt succeeds in the end;
that nobody clicks and that a dead receiver never comes back are behaviours too.
`Settles` speaks of what is so when clicks, losses and crashes are over.

## 4. Proofs

Everything below is proved by TLAPS for all values of the constants that satisfy
the named assumptions of the modules, which TLC evaluates on every run.

| Module | Proves |
|---|---|
| `CommonLemmas` | sums of functions, ranks, sequences, least elements |
| `Reassembler_proofs` | `TypeOK`, `PendingBounded`, `OrderCoversPending`, `Conservation`, `PendingSound`, `DeliveredWhole`, `ArrivalOrder`, `ExpiresOnlyOverdue`, `EvictsOneOldest`, `OverdueOnlyBehindReopened`, and that the loops of `add()` and `expire()` end |
| `Relay_proofs` | `TypeOK` and `WireIsSound` of the bridge, `RelayTypeOK`, `LossesShow`, `OrderlyNetwork`, the refinement `ImplementsLossyRelay` |
| `Receiver_proofs` | `TypeOK`, `NothingVanishes`, `BytesUsedOnce`, `FailuresReported`, and that the receiver implements `ReceiverLoop` and `Reassembler` |
| `CaptureWriter_proofs` | `TypeOK`, `ReaderGetsPrefix`, the refinement `ImplementsLog`, `ExportHoldsAllBefore` |
| `Parsers_proofs` | `VerdictFollowsRules`, `AcceptedIsUsable`, `LastAssignmentWins`, `RowsTellWhatWasPublished`, `AcceptsGrammar` |
| `ControlServer_proofs` | `TypeOK` with the bound on the backlog, `StreamWellFormed`, `CommandsAnswered` |
| `ControlPage_proofs` | `TypeOK`, `WaitEndsByAnswer` |

**Assumptions.** `ReassemblerAssumption`: a positive `MaxPending`, which the
configuration check demands (`AcceptedAreUsable`), and fragments whose index is below their count, which
the parser demands; `ReceiverFollowsReassembler` proves the latter of the receiver.
`WireAssumption` and `PacketAssumption`: header fields have their widths, whatever
they hold; sizes are naturals. `BridgeAssumption`: the datagram holds between one
byte and `MaxU16` of payload, as `validate()` ensures (`AcceptedAreUsable` proves that),
positive budget and high water mark. `MessageAssumption`: a message has at least one
frame, as ZeroMQ guarantees. `RelayAssumption`: fewer messages are published than
there are sequence numbers, that is, fewer than 2^64, and the receiver's length limit
is a natural. `LoopAssumption` and
`ReceiverAssumption`: the limits of the loop are positive (enforced by the
configuration, `AcceptedAreUsable`) and the setups are made of the failures the model knows.
`HeaderAssumption`: the fields of a header have their widths. `ControlAssumption` and
`ScriptAssumption`: finitely many connections, limits that are naturals, a positive
`max_clients`; peers send sequences of requests and frames, and a frame carries a
sequence of bytes. `CaptureWriterAssumption`: the buffer's sizes and the bounds are
naturals. `PageAssumption`: the pages that take part are pages, and the bounds are
naturals. `ConfigAssumption`: the default of `max_datagram_size` lies between the
header and the UDP maximum, which fits in 16 bits. `StartAssumption`: a file is a
sequence of sections, entries and lines that are neither, the arguments are sequences
of the forms `--set` and `--source` have, a value is a text, and a section in a file has
a name (an empty one is a syntax error, a line of the kind `bad`). `TelemetryAssumption`:
a topic is a sequence of characters, and the numbers of a message are naturals.
`TextAssumption`: a text is a sequence of tokens, and there is a longest one, as the
control server limits messages. `JsonAssumption`: the limit of nesting is a natural.

**Reassembler.** `IInv` is the inductive invariant, the conjunction of the state
invariants. Most are not inductive alone: `PendingBounded` and `Conservation` count
with `Cardinality`, which needs the finiteness in `TypeOK`; `PendingSound` needs the
indices in `TypeOK` to know that a message with as many fragments as its count has
all of them; `DeliveredWhole` needs that what was buffered before the last fragment
is sound. The argument for `OrderCoversPending` is the heart: keys are popped only
with their entries, opening appends, and compaction keeps every live key. From it,
`LoopsTerminate`: popping all of `order_` would empty the table, so there is a least
number of pops that makes room. For compaction, `Keep` is a sequence indexed by
rank; `RankRange`, `RankMonotonic` and `RankBijective` show that ranks number the
kept positions without gaps, and `SelectedOrder` that the order survives. There is
one lemma per action (`OpenInv`, `StoreInv`, `CompleteInv`, `ExpireInv` ...), joined in
`StepInv`. `OrderInv` adds `ArrivalOrder`; from it follow the two action properties
that say exactly how far the documented eviction order and expiry hold: the evicted
entry is the one whose first place in `order_` comes first, and only a key that was
opened again stands before its place.

**Bridge.** `BInv` says that the datagrams sent so far are the first `Sent` cuts of
the message (`Sending`), and that the send loop is left as soon as all are. The
arithmetic comes first: `FragmentCountFits` (the count is the least number of
pieces that hold the message, and none of the conversions to 16 and 32 bits changes a
value that passed the tests of `transmit()`) and `PieceFacts` (the last piece ends at
the length, the others are full). `ValidIsAccepted` closes the circle: what the
bridge cuts passes all eleven tests of `parse_datagram()`. The length of a multipart
message is a sum over frames, so `TotalType` and `TotalChange` of `CommonLemmas` are
needed for the types.

**Relay.** `RInv` follows a message along the path: numbers of this generation are
below the next one and every number ever used has its message in `taken`
(`Numbering`), the message being sent is taken (`TxTaken`), and every fragment on the
path (`WireSound`) or in the reassembler (`EntriesSound`) *stems* from a message taken
with the same number, length and count. With a complete table the fragments are all there. A generation numbers
a message once (`NumberedOnce`), so where only one generation has such a message,
all fragments stem from it and so does the timestamp (`Stamps`), and it is the
witness of `Deliver`; otherwise those stems are the witness of `Mix` (`PartsOfTaken`). `TrackInv` is the tracker's part: before the first
resynchronisation `last` is the maximum of the arrived numbers and
`missing` lies between the numbers never seen and their sum with `late`; it is
inductive because a gap adds exactly the numbers skipped, and a late number
takes at most one from those never seen.

`OrderlyNetwork` has an invariant of its own, `OrderlyInv`. `WireOrdered` says what can
follow what on the wire: more of the same message, the next message, or message 0 of a
bridge that started again, of which there are no more than restarts (`Starts`). The
receiver's half, `ReceiverOrdered`, is an account. A restart leaves at most one
message *torn*, without its last fragment. A message of a later generation under the
same number can be taken for more of the torn one; it is then never new, is not
observed, and its number counts as missing when the next is. So what counts as missing, what
the next message would add (`Gap`), and the torn messages (`Partial`) are together no more
than the restarts seen, in three situations: inside a message that was observed in this
generation (`SeenMid`), inside one that was not (`UnseenMid`), and behind its last
datagram (`Past`). The same cases bound `late` while there is at most one restart.
`FirstPass` and `Whole` say that before a restart, and until a sweep takes something, the
table holds just the message under way. `AddEffects` tells what each way out of
`add()` does to the entry of the datagram and to the others; `AwaitTakes` and `SeenTakes`
carry the account over one datagram, and `NextOwed` from one to the next. The first
attempt at this proof showed that the bound on `late` fails with a second restart, which
TLC confirmed; the property says so now.

**Receiver.** `RcInv` has one part per question. `BytesHeld`: for every
datagram, its uses so far, and one more if its bytes are buffered for a pending
message, are no more than its arrivals; `BytesUsedOnce` alone is not inductive, as
completing a message turns bytes held into bytes used. `LostShows`: a number neither
delivered nor pending is covered by `missing`, `incomplete`, `inconsistent` or
`evictions`; it is inductive because each way out of the table raises one of them
by as many as it removes. It needs `TrackerOK`: the tracker has seen a source exactly
when there is a first number, and knows the source of every entry. `CaptureInv` ties the file
to the switch, the counters and the exit status; `FileOK` says that a file never
opened holds nothing and that one is closed only at the end, without which
`CleanExit` could not be concluded. Steps are classified once (`StepKinds`: the
message table is left alone, swept, rejects a datagram or accepts one) and each part is
proved over the classes. `ReceiverFollowsReassembler` maps every step to a step or
a stutter of `Reassembler` with `Fragment` read as "what the parser accepts"
(`ParseDatagram(d) = "None"` gives the index below the count), so all
theorems of `Reassembler_proofs` speak of the receiver too.

**Capture writer.** `IInv` says that the disk and the stdio buffer, joined, are
`Written` as the log says: a beginning, of any length, of the file header and the
accepted records in their order, behind which a part of one more record may
follow, the one whose write failed. While the file is open and nothing has been lost,
they are `Whole`: the header and the records, and nothing else; without this the next
record could not be placed. `Places` gives the place where each record starts, and
`Follows` says that the units from there on are its own. A reader's recursion over the units has a solution, which
is given explicitly, and any solution returns the whole records (`ReadsWhole`, by the
last place where it would not). `ShorterWritten` covers a crash or a failing write,
which cut, and `LongerWritten` a write that adds a record or a part of one. There is
one lemma for every operation, which proves the invariant and the step of
`CaptureLog` together, as the abstract step is told by how many records can be read
before and after.

**CSV export.** `ExportsHoldAllBefore` speaks of an export at any moment, so it follows
from what the writer maintains: `IInv`, and `ClosedInv`, that a file closed without error
is `Whole` and no longer than the bound. The records read are the first of the log, so
each CSV is a selection of them. That the rows of all CSVs are together as many as
the records written (`PreimagesTotal` of `CommonLemmas`) turns the number of rows back
into a place in the log. An export that reports no error has read up to the end of
the file; the extents of the records read add up, record by record (`TotalSteps`), to the
place where `Written` puts the next, so the file ends there.

**Parser.** `Verdict` says that the error is that of the first
test that fails. `FailedNamesBroken` then goes through the eleven tests: where one
fails, with those before it passed, the rule of its error is broken;
`PassedBreaksNone` is the converse.

**Configuration.** A file, the `--source` and the `--set` arguments are applied by folds.
`FoldRounds` turns a fold into a sequence of rounds, the first being the base and each
next one step of the loop on the one before, so that each loop has an invariant
over its rounds. `LinesInv` says that after k lines the sections are those whose headers
were among them, and that what `Find` gives for a key is the last of those lines in the
section with that key; `SourcesInv` that the arguments follow, one section for each;
`OverInv` that a key has its last override, where there is one, and what it had before
otherwise. For the last, `Target` has to be the same after each round, as overrides
append entries and change no names (`TargetSame`). `GatheredTells` puts the three together (`Tells`).
An empty set of problems is read backwards (`BridgePassed`, `ReceiverPassed`): no unknown
section means that every section but the global one is a source (`SourceSectionsAre`),
which makes the last section the one `--set source.KEY` names; no range error
bounds the options, defaults included; no repeated id or endpoint tells the sources
apart (`SourcesDiffer`). `AcceptedAreUsable` and `LastAssignmentsWin` follow.

**Telemetry.** `RelayedIs` says what stands at which place of a relayed message; topic,
magic, five numbers, structure and padding are added one by one (`Behind`). `LayoutTiled`
goes through the three structures: their fields tile them without overlap, so
encoding puts each field whole at its place and nothing elsewhere (`EncodedIs`), and
what is cut out there is the field (`CutOut`). `HeaderFound` is the point of the
theorem. When the end of the topic makes up the magic with the `T` of the real one, the
header is read three bytes early. The length of the structure is then decoded with the
type as its upper byte; that number is 256 at least, which no structure is long, so
the header is refused (`HeaderFound`), and what is decoded at all is
decoded from the true header. A topic that holds the magic is excluded: there all
numbers may fit by chance (section 3).

**JSON.** `AcceptsGrammar` compares two recursive functions: the parser, and the language of
`Grammar`, which is defined by lengths and concatenations and knows no places. Before
either can be reasoned about it must be shown to exist, as TLA+ gives a recursive
definition no meaning otherwise. `ParserExists` builds the parser call by call, ranked by
how many calls can still come (`Calls`): each one is further in the text, or is
for the value that members start with at the same place. `LanguageExists` does the same
for the grammar, whose phrases are made of lighter ones (`Weight`). `ParserIs` and
`LanguageHas` then unfold them by one step. `Reads` says that a segment of the text is
in the language, and `ReadsValue` and `ReadsMembers` what that means for its tokens;
the hard direction is that a phrase cut in two is cut where the text is
(`SegmentSplit`). `Finds` is the induction hypothesis: a call returns the place behind
what the grammar reads from its own place, and an error where it reads nothing. It says
also that this place is unique. `FindsValue` and `FindsMembers` prove it from the calls
made; in the latter a comma leads to a longer phrase only if something follows, and
`MembersStart` excludes the brackets with nothing between them, which the parser treats
separately.

**Control server.** `CsInv` has three parts. `Connections` says of every connection
that it is `Sound`: what it was sent and what is queued, joined, is `Proper`
(nothing before the first input; one response if it ends as HTTP; the handshake in
front if it is a WebSocket; while the server runs, a response or a Close frame only
at the end, and then `closing` is set), and the backlog and the message are within
their bounds. `EndInv` is about the end of the server, which puts a Close frame
behind whatever is there, another Close frame included: only there does anything
follow a Close frame (`CloseBehind`), and nothing follows that (`EndsRight`). The flags are what makes it inductive: `StreamWellFormed` alone does not
know that a connection whose last item is a Close frame gets no more statistics.
`Table` says that what is served was accepted, once, and that a connection not
accepted is still a new one, which `Served` needs for every call in `todo`;
`Counts` types the rest. A lemma for each way a queue changes (`Responded`,
`Upgraded`, `Sent`, `Sending`, `QueueKept`) keeps `Sound`, and one per action
applies it. `Sending` is the hard one: `got` leaves repeated statistics out, so
`OneReceived` shows that a stream without one of two equal statistics messages is
still `Proper`, and `SomeReceived` repeats that for each item handed to `send()`.
`Flattened` types the calls `Poll` puts together, `SelectedInjective` the table after
dead connections are erased.

`CommandsAreAnswered` compares the handler with a reference that reads the frames of a
peer as a whole. `AnswerInv` ties the two together at every moment (`Answering`): a
connection that is not closing has handled the first h of the n frames received, those
between are the ones in `in`, the handler's message is the text the reference has put
together so far (`Following`), and the commands answered are those the reference finds
in the first h. `TextNext` and its like advance the reference by a frame, which the handler
does in one `poll_once()`; a connection that closes keeps a beginning of what the reference
says. `Told` ties the answers to what was published: the commands published for a
connection are those of its positive answers, in order. Sending moves results from
`out` to `got` and leaves out repeated statistics, which takes no result away.

**Browser page.** Statistics are ordered by `Before`: not taken earlier, and without a
change of the receiver between them they say the same. `IInv` says that the order in
which they were taken is the order of the page's envelope, what is on its way to the
page, the latest of the backend, what is on its way there, and the receiver
(`Rising`, `Chronology`), and that what a waiting page showed at the click comes
before what it shows now (`Clicked`). So statistics that tell the state asked for,
which differs from the one shown at the click, were taken after a change. Nothing
less would do: the order in the stream is needed for the next message, that of the
backend for the first message on a new connection. More is not so: the change
may be due to another page's command, carried out before the click, when the page had
not been told of it, as `app.js` compares the state and nothing else.

**Method of the inductions.** The provers do no induction over data. Where a
proof needs one, it takes the least counterexample (`LeastElement`): for sums, for the
reader of a file, for the statistics handed to `send()`. `StepByStep` states the
principle for a set; the rounds of a fold and the calls of the JSON parser are counted
with it.

The inductive invariants were checked by TLC on the instances of the runs before they
were proved, except that of the capture writer, whose `Written` quantifies over
all placements, and those of the loops of the configuration and of the JSON parser, which are no invariants
of a behaviour; TLC checks what follows from them.

**Only model-checked.** Liveness under fairness (`NothingStarves`, `ShutdownEnds`,
`EverySourceServed`, `ResultArrives`, `StateReaches`, `WaitsEnd`, `Settles`) is out of the
prover's reach. All safety and action properties that a passing run checks are proved.

## 5. What is left out

Logging, formatting and the byte layout of headers; socket options and
opening; the branch of `drain_udp()` for datagrams larger than its buffer, which
has one byte more than UDP carries; per-source splits of the receiver's
statistics; the wrap of the receiver's 64-bit numbers; an extended capture file
header. `stats` and unknown commands are one command `other`, which changes no
modelled state. A process that is restarted truncates the capture
(`LogOpen`).

Of the control tool: a request or frame received or sent in pieces
counts when it is whole (the buffers and the incremental decoder); which JSON
message is a command is the operator `Command`, which knows the two commands and
one message that is neither; the assets; a receiver that
restarts and the age of statistics in `ControlServer` (`ControlPage` has both);
what is written of the Close frames at shutdown; the one-shot modes of its command
line; POLLERR on a connection, which drops it without another call
(`control_server.cpp:187`), where the model drops one when `recv()` or `send()` fails. In
`ControlPage` the receiver changes its recording by command only: that it
switches it off itself when a write fails (`receiver.cpp:279`) is in `Receiver`. Of the page: counters, sources and texts, which are computed from the
statistics at every render.

Of configurations: comments, quotes, white space, the spelling of numbers,
addresses and interface names, the range of signed 64-bit numbers, and `--check`.
A log level on the command line is an override like the others. Of JSON: escapes,
the spelling of numbers, and white space. Of the test publisher: pacing, counts
and the simulated values; of the export: the text of a row, the buffer of a CSV's stream and a failure to close
it (`csv_export.cpp:270`): a row is written, or writing it fails. A CSV that an earlier
export left in the directory is not modelled. `capture_inspect.py`, tests,
packaging and scripts are not modelled.

In `Relay` there is one source, as the receiver keeps everything per source but
the table of the reassembler, whose competition `Reassembler` and `Receiver` check;
capture and commands are left to `Receiver`.

## 6. Plan

1. Done: all components of the running system, and the compositions `Relay`,
   `Receiver` and `ControlPage`.
2. Done: the safety of the reassembler, bridge, tracker, relay, receiver, capture
   writer, control server and page, and the refinements of `LossyRelay`,
   `CaptureLog`, `ReceiverLoop` and `Reassembler`.
3. Done: the same of the parsers, of the export and of the answers to commands.
4. `Frames`: the incremental WebSocket decoder, fed in pieces of any size.
