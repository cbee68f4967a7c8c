------------------------------- MODULE Bridge -------------------------------
(***************************************************************************)
(* The bridge (src/bridge/bridge.cpp): one thread polls a ZeroMQ SUB       *)
(* socket per source, takes at most Budget messages from each readable one *)
(* per poll, numbers every message, cuts it into datagrams and sends them. *)
(* Publishers put messages into the sockets' queues at any time; a signal  *)
(* may ask for shutdown at any time; receiving, polling and sending may    *)
(* fail.                                                                   *)
(*                                                                         *)
(* A message is the sequence of the lengths of its frames and a body that  *)
(* stands for its bytes and for the timestamp taken when it is received.   *)
(* Counters that only feed the statistics log are left out.                *)
(***************************************************************************)
EXTENDS Wire, FiniteSets, Functions

CONSTANTS
    NSources,  \* number of configured sources
    Budget,    \* max_messages_per_poll
    Hwm,       \* zmq_recv_hwm: messages a SUB socket queues
    SeqSpace,  \* sequence numbers are counted modulo this (2^64)
    Message,   \* the messages publishers send
    Setups     \* faults: the calls that may fail, of "recv", "mid", "interrupt",
               \* "poll", "send"; chunk: fragment_payload(), payload bytes per datagram

Source == 1 .. NSources

ASSUME BridgeAssumption ==
    /\ NSources \in Nat \ {0} /\ Budget \in Nat \ {0} /\ Hwm \in Nat \ {0}
    /\ SeqSpace \in Nat \ {0}
    /\ \A u \in Setups : /\ u.chunk \in 1 .. MaxU16
                         /\ u.faults \subseteq {"recv", "mid", "interrupt", "poll", "send"}

\* A message of ZeroMQ has at least one frame.
ASSUME MessageAssumption ==
    \A m \in Message : /\ m.frames \in Seq(Nat) /\ Len(m.frames) >= 1
                       /\ m = [body |-> m.body, frames |-> m.frames]

VARIABLES
    queue,     \* per source, the messages its SUB socket holds
    phase,     \* "poll", "recv", "frames" (within a message), "send" or "stopped"
    ready,     \* the sources zmq_poll() reported and not serviced yet
    budget,    \* messages left for the source being serviced
    tx,        \* the message in transmit(), and the datagrams sent for it
    nextSeq,   \* next_sequence per source
    shutdown,  \* a signal asked for shutdown
    code,      \* what run() returned
    setup      \* how the bridge is configured, and what may fail

vars == <<queue, phase, ready, budget, tx, nextSeq, shutdown, code, setup>>

Cur == CHOOSE s \in ready : \A t \in ready : s <= t

NoTx == [source |-> 0]

faults == setup.faults
Chunk == setup.chunk

-----------------------------------------------------------------------------
(* The publishers and the signal: external.                                *)

\* A full queue makes the publisher drop the message: no step here.
Publish(s, m) ==
    /\ Len(queue[s]) < Hwm
    /\ queue' = [queue EXCEPT ![s] = Append(@, m)]
    /\ UNCHANGED <<phase, ready, budget, tx, nextSeq, shutdown, code, setup>>

Signal ==
    /\ ~shutdown /\ shutdown' = TRUE
    /\ UNCHANGED <<queue, phase, ready, budget, tx, nextSeq, code, setup>>

-----------------------------------------------------------------------------
(* poll_once()                                                             *)

\* Fault: only the first readable source is serviced after a poll.
ReadableFault == {s \in Source : queue[s] # << >> /\ \A t \in 1 .. s - 1 : queue[t] = << >>}
Readable == {s \in Source : queue[s] # << >>}

\* A timeout with nothing readable leaves everything as it is.
Poll ==
    /\ phase = "poll" /\ ~shutdown
    /\ Readable # {}
    /\ ready' = Readable
    /\ phase' = "recv"
    /\ budget' = Budget
    /\ UNCHANGED <<queue, tx, nextSeq, shutdown, code, setup>>

\* An error other than EINTR and EAGAIN ends run().
PollFails ==
    /\ phase = "poll" /\ ~shutdown
    /\ "poll" \in faults
    /\ phase' = "stopped" /\ code' = 1
    /\ UNCHANGED <<queue, ready, budget, tx, nextSeq, shutdown, setup>>

Stop ==
    /\ phase = "poll" /\ shutdown
    /\ phase' = "stopped" /\ code' = 0
    /\ UNCHANGED <<queue, ready, budget, tx, nextSeq, shutdown, setup>>

-----------------------------------------------------------------------------
(* service_source()                                                        *)

\* Return from service_source(): the next readable source, or the next poll.
Leave ==
    /\ ready' = ready \ {Cur}
    /\ budget' = Budget
    /\ phase' = IF ready = {Cur} THEN "poll" ELSE "recv"

Exhausted == budget = 0

\* Fault: a message costs nothing.
SpendFault == budget
Spend == budget - 1

BatchFull ==
    /\ phase = "recv" /\ Exhausted
    /\ Leave
    /\ UNCHANGED <<queue, tx, nextSeq, shutdown, code, setup>>

\* EAGAIN, or an error that makes the bridge give up on the source for now.
GiveUp ==
    /\ phase = "recv" /\ ~Exhausted
    /\ queue[Cur] = << >> \/ "recv" \in faults
    /\ Leave
    /\ UNCHANGED <<queue, tx, nextSeq, shutdown, code, setup>>

\* EINTR uses up budget.
Interrupted ==
    /\ phase = "recv" /\ ~Exhausted
    /\ "interrupt" \in faults
    /\ budget' = Spend
    /\ UNCHANGED <<queue, phase, ready, tx, nextSeq, shutdown, code, setup>>

\* transmit() up to its send loop.  A message too long for the header fields
\* is dropped, with its sequence number used up.
Length(m) == FoldFunction(+, 0, m.frames)

\* Fault: the 16-bit fragment count is not checked.
OversizeFault(length) == length > MaxU32
Oversize(length) == length > MaxU32 \/ FragmentCountFor(length, Chunk) > MaxU16

Flags(m) == (IF Len(m.frames) > 1 THEN {"MULTIPART"} ELSE {})
            \cup (IF FragmentCountFor(Length(m), Chunk) > 1 THEN {"FRAGMENTED"} ELSE {})

Transmission(s, m) ==
    [source |-> s, sequence |-> nextSeq[s], flags |-> Flags(m), length |-> Length(m),
     count |-> FragmentCountFor(Length(m), Chunk), body |-> m.body, sent |-> << >>]

\* The first frame of a multipart message is received.  The message is taken from
\* the queue when its last frame has been.
FirstFrame ==
    /\ phase = "recv" /\ ~Exhausted
    /\ queue[Cur] # << >> /\ Len(Head(queue[Cur]).frames) > 1
    /\ phase' = "frames"
    /\ budget' = Spend
    /\ UNCHANGED <<queue, ready, tx, nextSeq, shutdown, code, setup>>

\* EINTR between frames: the call is made again, at no cost of budget and
\* without a look at the shutdown flag.  Nothing changes; see FairSpec.
FrameInterrupted ==
    /\ phase = "frames"
    /\ "interrupt" \in faults
    /\ UNCHANGED vars

\* A message of one frame, or the other frames of a multipart one, received; it
\* starts to be transmitted.
Take ==
    /\ phase \in {"recv", "frames"} /\ queue[Cur] # << >>
    /\ \/ /\ phase = "recv" /\ ~Exhausted /\ Len(Head(queue[Cur]).frames) = 1
          /\ budget' = Spend
       \/ phase = "frames" /\ UNCHANGED budget
    /\ LET m == Head(queue[Cur])
       IN  /\ queue' = [queue EXCEPT ![Cur] = Tail(@)]
           /\ nextSeq' = [nextSeq EXCEPT ![Cur] = (@ + 1) % SeqSpace]
           /\ IF Oversize(Length(m))
                THEN tx' = NoTx /\ phase' = "recv"
                ELSE tx' = Transmission(Cur, m) /\ phase' = "send"
    /\ UNCHANGED <<ready, shutdown, code, setup>>

\* Another error after some frames: they are lost, the others stay in the socket.
TakeFails ==
    /\ phase = "frames"
    /\ "mid" \in faults
    /\ queue[Cur] # << >>
    /\ LET m == Head(queue[Cur])
       IN  \E k \in 2 .. Len(m.frames) :
              queue' = [queue EXCEPT ![Cur] =
                  <<[m EXCEPT !.frames = SubSeq(@, k, Len(@))]>> \o Tail(@)]
    /\ Leave
    /\ UNCHANGED <<tx, nextSeq, shutdown, code, setup>>

-----------------------------------------------------------------------------
(* The send loop of transmit()                                             *)

Sent == Len(tx.sent)
Offset == Sent * Chunk

\* Fault: the capacity of a datagram, also for the last fragment.
NextLengthFault == Chunk
NextLength == IF tx.length - Offset < Chunk THEN tx.length - Offset ELSE Chunk

NextDatagram ==
    Datagram([source |-> tx.source, sequence |-> tx.sequence, timestamp |-> tx.body,
              flags |-> tx.flags, length |-> tx.length, count |-> tx.count,
              index |-> Sent, offset |-> Offset],
             NextLength, <<tx.body, Offset, NextLength>>)

SendDatagram ==
    /\ phase = "send"
    /\ tx' = [tx EXCEPT !.sent = Append(@, NextDatagram)]
    /\ phase' = IF Sent + 1 < tx.count THEN "send" ELSE "recv"
    /\ UNCHANGED <<queue, ready, budget, nextSeq, shutdown, code, setup>>

\* A timeout or an error: the remaining fragments are not sent.
SendFails ==
    /\ phase = "send"
    /\ "send" \in faults
    /\ phase' = "recv"
    /\ UNCHANGED <<queue, ready, budget, tx, nextSeq, shutdown, code, setup>>

-----------------------------------------------------------------------------

Init ==
    /\ queue = [s \in Source |-> << >>]
    /\ phase = "poll"
    /\ ready = {}
    /\ budget = Budget
    /\ tx = NoTx
    /\ nextSeq = [s \in Source |-> 0]
    /\ shutdown = FALSE
    /\ code = -1
    /\ setup \in Setups

BridgeStep == \/ Poll \/ PollFails \/ Stop
              \/ BatchFull \/ GiveUp \/ Interrupted
              \/ FirstFrame \/ FrameInterrupted \/ Take \/ TakeFails
              \/ SendDatagram \/ SendFails

Next == BridgeStep \/ Signal \/ \E s \in Source, m \in Message : Publish(s, m)

Spec == Init /\ [][Next]_vars

\* The next call of the thread may be interrupted and made again, for ever.
Interruptible == phase = "frames" /\ "interrupt" \in faults

\* The thread of the bridge keeps running: no call in its loop blocks for
\* ever (the poll has a timeout, receiving does not wait, sending has one).
\* Where interruptions may go on for ever nothing is promised.
FairSpec == Spec /\ WF_vars(~Interruptible /\ BridgeStep)

-----------------------------------------------------------------------------
(* Properties.                                                             *)

\* What a failure within a multipart message may leave of m in the socket.
Tails(m) == {[m EXCEPT !.frames = SubSeq(@, k, Len(@))] : k \in 1 .. Len(m.frames)}

\* What the socket of a source may hold.
Waiting == UNION {Tails(m) : m \in Message}

\* Types of the variables.
TypeOK ==
    /\ queue \in [Source -> Seq(Waiting)]
    /\ \A s \in Source : Len(queue[s]) <= Hwm
    /\ phase \in {"poll", "recv", "frames", "send", "stopped"}
    /\ ready \subseteq Source /\ (phase \in {"recv", "frames", "send"} => ready # {})
    /\ budget \in 0 .. Budget
    /\ nextSeq \in [Source -> 0 .. SeqSpace - 1]
    /\ shutdown \in BOOLEAN /\ code \in {-1, 0, 1} /\ Chunk \in 1 .. MaxU16

\* Everything the bridge puts on the wire is accepted by parse_datagram(), for
\* every message length: empty, at a multiple of the capacity, and at the
\* limits of the 16-bit and 32-bit header fields.
ReceiverAccepts ==
    tx # NoTx => \A i \in 1 .. Sent : ParseDatagram(tx.sent[i]) = "None"

\* The datagrams of a message cover its bytes from the start without overlap
\* or hole, in index order, and all of them when the last one is sent.
End(d) == d.offset + d.flen
SentTiles ==
    tx # NoTx =>
        /\ \A i \in 1 .. Sent :
              /\ tx.sent[i].index = i - 1
              /\ tx.sent[i].offset = IF i = 1 THEN 0 ELSE End(tx.sent[i - 1])
        /\ Sent = tx.count => End(tx.sent[Sent]) = tx.length

\* What is sent for a message is that message, in datagrams the receiver takes.
WireIsSound == ReceiverAccepts /\ SentTiles

\* BRG-018: while a source has messages waiting they are taken again and again,
\* although other publishers never pause, unless receiving fails each time.
Waits(s) == queue[s] # << >> /\ ~shutdown /\ phase # "stopped"
EverySourceServed ==
    \A s \in Source :
        faults \cap {"recv", "interrupt"} = {} =>
            []<>(~Waits(s)) \/ []<><<Take /\ Cur = s>>_vars

\* A requested shutdown ends the bridge, also under unceasing traffic and
\* whatever fails: unless, from some time on, it is interrupted for ever between
\* two frames of a message, where bridge.cpp:154 does not look at the flag.
ShutdownEnds == []<>(phase # "frames") => (shutdown ~> phase = "stopped")

=============================================================================
