-------------------------------- MODULE Relay --------------------------------
(***************************************************************************)
(* The whole path of a source: the bridge (Bridge), which may crash and    *)
(* start again at any moment and be configured anew when it does; the      *)
(* network, which loses, repeats and reorders datagrams or, in some        *)
(* behaviours, keeps their order; and what the receiver does with each of  *)
(* them (receiver.cpp, handle_datagram): Reassembler and SequenceTracker.  *)
(***************************************************************************)
EXTENDS Bridge

CONSTANTS
    MaxPending, Timeout, MaxMessageLength, CompactFactor, CompactSlack,
    MaxTime, MaxOpened,  \* those of Reassembler
    ResyncJump           \* that of SequenceTracker
    \* A setup also has: script, the messages published, in their order; chunks,
    \* those of restarted bridges; restarts, how many there are at most;
    \* inOrder, whether the network delivers each datagram once and in order;
    \* and arrivals, the bound on the datagrams that arrive.

\* A setup is that record.  The scripts are shorter than the number space: no
\* generation of the bridge sends 2^64 messages.
ASSUME RelayAssumption ==
    /\ MaxMessageLength \in Nat
    /\ \A u \in Setups :
         /\ u = [chunk |-> u.chunk, faults |-> u.faults, script |-> u.script, chunks |-> u.chunks,
                 restarts |-> u.restarts, inOrder |-> u.inOrder, arrivals |-> u.arrivals]
         /\ u.script \in Seq(Message) /\ Len(u.script) < SeqSpace
         /\ u.chunks \subseteq 1 .. MaxU16 /\ u.restarts \in Nat

VARIABLES
    published,   \* how many messages of the script were published
    wire,        \* the datagrams sent, in their order
    arrived,     \* how many datagrams have arrived
    entries, order, evictions, now, ret, tally,  \* reassembler_
    state, first, observed, resyncs,             \* sequences_
    generation,  \* history: how often the bridge was restarted
    taken,       \* history: which messages the bridge took
    out          \* the message delivered last

bridge == <<queue, phase, ready, budget, tx, nextSeq, shutdown, code, setup>>
reassembly == <<entries, order, evictions, ret, tally>>
tracking == <<state, first, observed, resyncs>>
receiver == <<arrived, reassembly, now, tracking, out>>
relayVars == <<bridge, published, wire, generation, taken, receiver>>

R == INSTANCE Reassembler WITH Fragment <- {}  \* its next-state relation is not used
T == INSTANCE SequenceTracker

Numbered(t) == [sequence |-> t.sequence, length |-> t.length, count |-> t.count,
                chunk |-> Chunk, body |-> t.body]

Chunks == {u.chunk : u \in Setups} \cup UNION {u.chunks : u \in Setups}

Possible ==
    {[sequence |-> q, length |-> Length(m), count |-> FragmentCountFor(Length(m), c),
      chunk |-> c, body |-> m.body] :
        q \in 0 .. SeqSpace - 1, m \in Waiting, c \in Chunks}

L == INSTANCE LossyRelay WITH Message <- Possible

-----------------------------------------------------------------------------
(* The bridge's side                                                       *)

PublishNext ==
    /\ published < Len(setup.script)
    /\ Publish(1, setup.script[published + 1])
    /\ published' = published + 1
    /\ UNCHANGED <<wire, generation, taken, receiver>>

BridgeTakes ==
    /\ Take
    /\ taken' = IF tx' = NoTx THEN taken
                ELSE taken \cup {[generation |-> generation, message |-> Numbered(tx')]}
    /\ UNCHANGED <<published, wire, generation, receiver>>

BridgeSends ==
    /\ SendDatagram
    /\ wire' = Append(wire, NextDatagram)
    /\ UNCHANGED <<published, generation, taken, receiver>>

BridgeMoves ==
    /\ Poll \/ BatchFull \/ GiveUp \/ FirstFrame \/ TakeFails \/ SendFails
    /\ UNCHANGED <<published, wire, generation, taken, receiver>>

\* The process dies, with what its sockets held, and is started again.
Restart ==
    /\ generation < setup.restarts
    /\ queue' = [s \in Source |-> << >>]
    /\ phase' = "poll" /\ ready' = {} /\ budget' = Budget /\ tx' = NoTx
    /\ nextSeq' = [s \in Source |-> 0]
    /\ shutdown' = FALSE /\ code' = -1
    /\ \E c \in setup.chunks : setup' = [setup EXCEPT !.chunk = c]
    /\ generation' = generation + 1
    /\ UNCHANGED <<published, wire, taken, receiver>>

-----------------------------------------------------------------------------
(* The network and the receiver                                            *)

Arriving == IF setup.inOrder THEN {wire[i] : i \in {arrived + 1} \cap DOMAIN wire}
            ELSE {wire[i] : i \in DOMAIN wire}

\* handle_datagram() and on_complete().  Fault: the tracker is shown only
\* messages that are complete at once.
ObservesFault == ret'.new_message /\ ret'.result = "Complete"
Observes == ret'.new_message

Receive(d) ==
    /\ arrived < setup.arrivals
    /\ tally.opened < MaxOpened
    /\ ParseDatagram(d) = "None"
    /\ R!Add(d)
    /\ IF Observes THEN T!Observe(d.sequence) ELSE UNCHANGED tracking
    /\ out' = IF ret'.result = "Complete" THEN ret'.out ELSE out
    /\ arrived' = arrived + 1
    /\ UNCHANGED <<bridge, published, wire, generation, taken, now>>

Sweep ==
    /\ R!Expire
    /\ UNCHANGED <<bridge, published, wire, generation, taken, arrived, now, tracking, out>>

Tick ==
    /\ R!Tick
    /\ UNCHANGED <<bridge, published, wire, generation, taken, arrived, tracking, out>>

-----------------------------------------------------------------------------

RelayInit ==
    /\ Init
    /\ published = 0 /\ wire = << >> /\ arrived = 0
    /\ R!Init /\ T!Init
    /\ L!Init

RelayNext ==
    \/ PublishNext \/ BridgeTakes \/ BridgeSends \/ BridgeMoves \/ Restart
    \/ (\E d \in Arriving : Receive(d)) \/ Sweep \/ Tick

RelaySpec == RelayInit /\ [][RelayNext]_relayVars

-----------------------------------------------------------------------------
(* Properties.                                                             *)

\* Types of the variables.
RelayTypeOK ==
    /\ TypeOK /\ T!TypeOK
    /\ published \in 0 .. Len(setup.script) /\ arrived \in Nat
    /\ \A i \in DOMAIN wire : wire[i].sequence \in 0 .. SeqSpace - 1
    /\ generation \in 0 .. setup.restarts
    /\ \A t \in taken : t.generation <= generation /\ t.message \in Possible

\* The relay delivers only what the bridge took, byte for byte, with its
\* timestamp and under its number, although datagrams are lost, repeated and
\* reordered, messages expire and are evicted, and the bridge restarts.  Only
\* when two generations sent messages of several fragments with the same number,
\* length and fragment count may their fragments be mixed: that the timestamps
\* differ is not noticed (LossyRelay!Mix, reassembler.cpp:51).
ImplementsLossyRelay == L!Spec

\* As long as the tracker has not resynchronised, the missing count is at least
\* the number of messages really lost, and exceeds it by no more than the late
\* arrivals; the number gaps are measured from is the highest one, so a late
\* message never makes later ones count as lost again.
LossesShow == T!LossesShow

\* A network that keeps the order, a bridge whose sends do not fail, and messages
\* that fit the header fields and the receiver's limit.
Deliverable ==
    \A m \in Waiting, c \in Chunks :
        /\ Length(m) <= MaxMessageLength /\ Length(m) <= MaxU32
        /\ FragmentCountFor(Length(m), c) <= MaxU16

Orderly == setup.inOrder /\ "send" \notin faults /\ Deliverable

\* limitations.md:91: where the network keeps datagrams in order, a restart of
\* the bridge costs one out_of_order event and no giant gap.  At most one number
\* counts as missing for it, when the last message of a generation stays without
\* its end and the fragments of its successor are taken for more of it; and a
\* message discarded half-way is seen once more, late, when its rest arrives.
\* With a second restart within the timeout more may be late: when message 0 of
\* the third generation completes what the first left, and the second sent
\* message 0 in one datagram, no message 0 resynchronises the tracker.
RestartNoGap ==
    Orderly => /\ state.missing <= generation
               /\ generation <= 1 =>
                     state.late <= generation + tally.dropped + tally.expired

\* Without a restart nothing counts as missing on such a network, and as long
\* as no sweep has taken a message nothing is late, evicted or inconsistent and
\* every message whose datagrams have arrived is delivered.
InOrderComplete ==
    Orderly /\ generation = 0 =>
        /\ state.missing = 0
        /\ tally.expired = 0 =>
              /\ state.late = 0 /\ evictions = 0 /\ tally.dropped = 0
              /\ arrived = Len(wire) /\ phase # "send" =>
                    \A t \in taken : t.message.sequence <= out.sequence

\* What a network in order loses, counts and delivers, with restarts and without.
OrderlyNetwork == RestartNoGap /\ InOrderComplete

=============================================================================
