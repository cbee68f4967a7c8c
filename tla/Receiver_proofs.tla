-------------------------- MODULE Receiver_proofs --------------------------
(***************************************************************************)
(* Theorems of Receiver.tla, for every set of datagrams and commands, all  *)
(* bounds, and every behaviour of the environment.                         *)
(***************************************************************************)
EXTENDS Receiver, CommonLemmas

-----------------------------------------------------------------------------
(* The inductive invariant.                                                *)

\* What the histories and the tracker are.
HistoryOK ==
    /\ past.taken \in [Packet -> Nat]
    /\ IsSequence(past.delivered)
    /\ past.first \in [Source -> Nat \cup {-1}]
    /\ DOMAIN past = {"taken", "delivered", "first", "commands"}
TrackerOK ==
    /\ tracker \in [Source -> [seen : BOOLEAN, last : Nat, missing : Nat, gaps : Nat, late : Nat]]
    /\ \A s \in Source : tracker[s].seen <=> past.first[s] # -1
    /\ \A k \in DOMAIN entries : tracker[k[1]].seen

\* A file that was not opened holds nothing, one is closed only at the end.
FileOK ==
    /\ IsSequence(log)
    /\ file = "none" => log = << >>
    /\ file \in {"closed", "unsynced"} => phase = "stopped"
    /\ phase = "stopped" => file # "open"

\* Bytes that are held for a message still pending are bytes that arrived and
\* were not used for a message delivered.
Held(d) == /\ R!Key(d) \in DOMAIN entries
           /\ d.index \in DOMAIN entries[R!Key(d)].buffer
           /\ entries[R!Key(d)].buffer[d.index] = d.body
BytesHeld ==
    \A d \in Accepted : Cardinality(UsesOf(d)) + (IF Held(d) THEN 1 ELSE 0) <= Arrived(d)

\* What is neither delivered nor pending shows in a count of its own.
Lost == Undelivered \ DOMAIN entries
LostShows ==
    /\ IsFiniteSet(Undelivered)
    /\ Cardinality(Lost) <= MissingInAll + stats.incomplete + stats.inconsistent + evictions

\* The capture file, the recording switch, the counts and the exit status.
CaptureInv ==
    /\ file \in {"none", "open", "closed", "unsynced"} /\ failed \in BOOLEAN
    /\ readable \in 0 .. Len(log) /\ safe \in 0 .. readable
    /\ recording \in BOOLEAN /\ (recording /\ phase # "stopped" => file = "open")
    /\ stats \in [Counters -> Nat]
    /\ code \in {-1, 0, 1} /\ (code # -1 <=> phase = "stopped")
    /\ FileOK /\ MessagesAccounted /\ FailuresReported

RcInv == /\ LoopTypeOK /\ R!TypeOK /\ setup \in Setups
         /\ CaptureInv
         /\ HistoryOK /\ TrackerOK /\ BytesHeld /\ LostShows

-----------------------------------------------------------------------------
(* The instances have their own copies of the operators on finite sets.    *)

LEMMA SameSets ==
    ASSUME NEW S
    PROVE  (R!IsFiniteSet(S) <=> IsFiniteSet(S)) /\ R!Cardinality(S) = Cardinality(S)
<1>1. R!IsFiniteSet(S) <=> IsFiniteSet(S)
  BY Zenon DEF R!IsFiniteSet, IsFiniteSet
<1>2. R!Cardinality(S) = Cardinality(S)
  BY Zenon DEF R!Cardinality, Cardinality
<1> QED
  BY <1>1, <1>2

\* A fragment that was accepted has a key, and an index below its count.
LEMMA AcceptedFacts ==
    ASSUME NEW d \in Accepted
    PROVE  /\ d \in Packet /\ R!Key(d) = <<d.source, d.sequence>> /\ R!Key(d) \in R!Keys
           /\ d.source \in Source /\ d.sequence \in Nat
           /\ d.count \in Nat \ {0} /\ d.index \in 0 .. d.count - 1 /\ d.length \in Nat
<1>1. d \in Packet /\ ParseDatagram(d) = "None"
  BY DEF Accepted
<1>2. /\ d.count \in Nat /\ d.index \in Nat /\ d.length \in Nat /\ d.sequence \in Nat
  <2>1. MaxU16 \in Nat /\ MaxU32 \in Nat
    BY WireAssumption
  <2> QED
    BY <1>1, <2>1, PacketAssumption
<1>3. d.count # 0 /\ ~(d.index >= d.count)
  <2> DEFINE failing == {i \in DOMAIN Tests(d) : Tests(d)[i].fails}
             least == CHOOSE i \in failing : \A j \in failing : i <= j
  <2>1. /\ DOMAIN Tests(d) = 1 .. 11
        /\ Tests(d)[4] = Test("BadFragmentCount", d.count = 0)
        /\ Tests(d)[5] = Test("BadFragmentIndex", d.index >= d.count)
    BY DEF Tests, RangeTests
  <2>2. ASSUME NEW i \in 1 .. 11 PROVE Tests(d)[i].error # "None"
    BY DEF Tests, RangeTests, Test
  <2>3. failing \in SUBSET (1 .. 11)
    BY <2>1
  <2>4. ParseDatagram(d) = IF failing = {} THEN "None" ELSE Tests(d)[least].error
    BY DEF ParseDatagram
  <2>5. failing # {} => least \in failing
    <3> HIDE DEF failing
    <3>1. failing \in SUBSET Nat
      BY <2>3
    <3> QED
      BY <3>1, LeastElement
  <2>6. failing = {}
    <3> HIDE DEF failing, least
    <3> QED
      BY <1>1, <2>2, <2>3, <2>4, <2>5
  <2>7. ~Tests(d)[4].fails /\ ~Tests(d)[5].fails
    BY <2>1, <2>6
  <2>8. ASSUME NEW e, NEW f \in BOOLEAN, ~Test(e, f).fails PROVE ~f
    BY <2>8 DEF Test
  <2>9. (d.count = 0) \in BOOLEAN /\ (d.index >= d.count) \in BOOLEAN
    BY <1>2
  <2> QED
    BY <2>1, <2>7, <2>8, <2>9
<1>6. d.count \in Nat \ {0} /\ d.index \in 0 .. d.count - 1 /\ d.length \in Nat
  BY <1>2, <1>3
<1>7. R!Key(d) = <<d.source, d.sequence>> /\ R!Key(d) \in R!Keys
  BY DEF R!Key, R!Keys
<1>8. d.source \in Source
  BY DEF Source
<1> QED
  BY <1>1, <1>2, <1>6, <1>7, <1>8

\* A key is a source and a number.
LEMMA KeyFacts ==
    ASSUME NEW k \in R!Keys
    PROVE  \E s \in Source, n \in Nat : k = <<s, n>>
BY AcceptedFacts DEF R!Keys

LEMMA FiniteSources ==
    /\ IsFiniteSet(Accepted) /\ IsFiniteSet(Source)
    /\ Accepted \subseteq Packet
<1>1. IsFiniteSet(Accepted) /\ Accepted \subseteq Packet
  <2>1. Accepted \subseteq Packet
    BY DEF Accepted
  <2> QED
    BY <2>1, PacketAssumption, FS_Subset
<1>2. IsFiniteSet({d.source : d \in Accepted})
  <2> DEFINE f == [d \in Accepted |-> d.source]
  <2>1. f \in Surjection(Accepted, {d.source : d \in Accepted})
    BY DEF Surjection
  <2> QED
    BY <1>1, <2>1, FS_Surjection
<1> QED
  BY <1>1, <1>2 DEF Source

-----------------------------------------------------------------------------
(* The loop.                                                               *)

LEMMA TurnTypes ==
    ASSUME NEW S \in SUBSET {"udp", "commands"}, Turn(S)
    PROVE  /\ ready' = S /\ ready' \subseteq {"udp", "commands"}
           /\ phase' \in {"udp", "commands", "timers"}
           /\ phase' \in {"udp", "commands"} => phase' \in ready'
           /\ budget' \in 0 .. MaxDatagrams \cup 0 .. CommandBatch
BY LoopAssumption DEF Turn, Limit

LEMMA LoopTypes == LoopTypeOK /\ [LoopNext]_loopVars => LoopTypeOK'
<1> SUFFICES ASSUME LoopTypeOK, [LoopNext]_loopVars PROVE LoopTypeOK'
  OBVIOUS
<1> USE DEF LoopTypeOK
<1>1. CASE Poll
  <2>1. PICK S \in SUBSET {"udp", "commands"} :
          Turn(S) /\ UNCHANGED <<udp, commands, due, shutdown>>
    BY <1>1 DEF Poll
  <2> QED
    BY <2>1, TurnTypes
<1>2. CASE PollFails \/ Leave \/ RunTimers \/ Finish \/ Signal
  BY <1>2 DEF PollFails, Leave, RunTimers, Finish, Signal
<1>3. CASE UdpDone \/ CommandsDone
  <2>1. PICK S \in SUBSET {"udp", "commands"} :
          Turn(S) /\ UNCHANGED <<udp, commands, due, shutdown>>
    BY <1>3 DEF UdpDone, CommandsDone
  <2> QED
    BY <2>1, TurnTypes
<1>4. ASSUME NEW d \in Packet, TakeDatagram(d) PROVE LoopTypeOK'
  <2>1. /\ udp' = Tail(udp) /\ udp # << >> /\ budget # 0
        /\ budget' = budget - 1
        /\ UNCHANGED <<commands, phase, ready, due, shutdown>>
    BY <1>4 DEF TakeDatagram, Ends
  <2>2. udp' \in Seq(Packet) /\ Len(udp') <= UdpQueue
    BY <2>1, LoopAssumption
  <2>3. budget' \in 0 .. MaxDatagrams \cup 0 .. CommandBatch
    BY <2>1, LoopAssumption
  <2> QED
    BY <2>1, <2>2, <2>3
<1>5. CASE TakeEmpty
  <2>1. PICK S \in SUBSET {"udp", "commands"} :
          Turn(S) /\ UNCHANGED <<commands, due, shutdown>>
    BY <1>5 DEF TakeEmpty
  <2>2. udp' \in Seq(Packet) /\ Len(udp') <= UdpQueue
    BY <1>5, LoopAssumption DEF TakeEmpty, Ends
  <2> QED
    BY <2>1, <2>2, TurnTypes
<1>6. ASSUME NEW c \in Command, TakeCommand(c) PROVE LoopTypeOK'
  <2>1. /\ commands' = Tail(commands) /\ commands # << >> /\ budget # 0
        /\ budget' = budget - 1
        /\ UNCHANGED <<udp, phase, ready, due, shutdown>>
    BY <1>6 DEF TakeCommand, Ends
  <2>2. commands' \in Seq(Command) /\ Len(commands') <= CommandQueue
    BY <2>1, LoopAssumption
  <2>3. budget' \in 0 .. MaxDatagrams \cup 0 .. CommandBatch
    BY <2>1, LoopAssumption
  <2> QED
    BY <2>1, <2>2, <2>3
<1>7. ASSUME NEW d \in Packet, DatagramArrives(d) PROVE LoopTypeOK'
  <2>1. udp' \in Seq(Packet) /\ Len(udp') <= UdpQueue
    BY <1>7, LoopAssumption DEF DatagramArrives
  <2> QED
    BY <1>7, <2>1 DEF DatagramArrives
<1>8. ASSUME NEW c \in Command, CommandArrives(c) PROVE LoopTypeOK'
  <2>1. commands' \in Seq(Command) /\ Len(commands') <= CommandQueue
    BY <1>8, LoopAssumption DEF CommandArrives
  <2> QED
    BY <1>8, <2>1 DEF CommandArrives
<1>9. ASSUME NEW t \in Timers, Elapse(t) PROVE LoopTypeOK'
  BY <1>9 DEF Elapse
<1>10. CASE UNCHANGED loopVars
  BY <1>10 DEF loopVars
<1> QED
  BY <1>1, <1>2, <1>3, <1>4, <1>5, <1>6, <1>7, <1>8, <1>9, <1>10 DEF LoopNext, LoopStep

\* A step of the receiver is one of its loop, and leaves the environment alone.
LEMMA StepOfLoop ==
    ASSUME setup \in Setups, [Next]_vars
    PROVE  [LoopNext]_loopVars /\ setup' = setup
<1>1. setup.packets \subseteq Packet /\ setup.commands \subseteq Command /\ setup.timers \subseteq Timers
  BY ReceiverAssumption
<1>2. Move => LoopNext
  BY DEF Move, LoopNext, LoopStep
<1>3. HandleTimers \/ End => LoopNext
  BY DEF HandleTimers, End, LoopNext, LoopStep
<1>4. Environment => LoopNext \/ UNCHANGED loopVars
  BY <1>1 DEF Environment, LoopNext
<1>5. ASSUME NEW d \in Packet, HandleDatagram(d) PROVE LoopNext
  BY <1>5 DEF HandleDatagram, LoopNext, LoopStep
<1>6. ASSUME NEW c \in Command, HandleCommand(c) PROVE LoopNext
  BY <1>6 DEF HandleCommand, LoopNext, LoopStep
<1>7. UNCHANGED vars => UNCHANGED loopVars
  BY DEF vars
<1>8. setup' = setup
  BY DEF Next, vars
<1> QED
  BY <1>2, <1>3, <1>4, <1>5, <1>6, <1>7, <1>8 DEF Next

-----------------------------------------------------------------------------
(* What add() and expire() do to the types, and how many entries go.       *)

LEMMA TallyType ==
    ASSUME R!TypeOK, NEW n \in Nat
    PROVE  /\ [tally EXCEPT !.opened = @ + 1]
                \in [opened : Nat, completed : Nat, dropped : Nat, expired : Nat]
           /\ [tally EXCEPT !.completed = @ + 1]
                \in [opened : Nat, completed : Nat, dropped : Nat, expired : Nat]
           /\ [tally EXCEPT !.dropped = @ + 1]
                \in [opened : Nat, completed : Nat, dropped : Nat, expired : Nat]
           /\ [tally EXCEPT !.expired = @ + n]
                \in [opened : Nat, completed : Nat, dropped : Nat, expired : Nat]
<1>1. tally \in [opened : Nat, completed : Nat, dropped : Nat, expired : Nat]
  BY DEF R!TypeOK
<1>2. [tally EXCEPT !.opened = @ + 1]
         \in [opened : Nat, completed : Nat, dropped : Nat, expired : Nat]
  BY <1>1
<1>3. [tally EXCEPT !.completed = @ + 1]
         \in [opened : Nat, completed : Nat, dropped : Nat, expired : Nat]
  BY <1>1
<1>4. [tally EXCEPT !.dropped = @ + 1]
         \in [opened : Nat, completed : Nat, dropped : Nat, expired : Nat]
  BY <1>1
<1>5. [tally EXCEPT !.expired = @ + n]
         \in [opened : Nat, completed : Nat, dropped : Nat, expired : Nat]
  BY <1>1
<1> QED
  BY <1>2, <1>3, <1>4, <1>5

\* The types without the names of the instance.
EntryOK(e) == /\ DOMAIN e = {"first_seen", "timestamp", "count", "length", "buffer"}
              /\ e.first_seen \in 0 .. now /\ e.count \in Nat /\ e.length \in Nat
              /\ DOMAIN e.buffer \subseteq 0 .. e.count - 1

LEMMA TypesOfEntries ==
    ASSUME R!TypeOK
    PROVE  /\ DOMAIN entries \subseteq R!Keys /\ IsFiniteSet(DOMAIN entries)
           /\ \A k \in DOMAIN entries : EntryOK(entries[k])
           /\ order \in Seq(R!Keys) /\ Len(order) \in Nat
           /\ evictions \in Nat /\ now \in Nat
           /\ tally \in [opened : Nat, completed : Nat, dropped : Nat, expired : Nat]
BY SameSets DEF R!TypeOK, EntryOK

LEMMA TypesAfter ==
    ASSUME R!TypeOK, now' = now,
           DOMAIN entries' \subseteq R!Keys, IsFiniteSet(DOMAIN entries'),
           \A k \in DOMAIN entries' : EntryOK(entries'[k]),
           order' \in Seq(R!Keys), evictions' \in Nat,
           ret'.result \in {"Complete", "Incomplete", "Duplicate", "Malformed"},
           ret'.new_message \in BOOLEAN,
           tally' \in [opened : Nat, completed : Nat, dropped : Nat, expired : Nat]
    PROVE  R!TypeOK'
<1>1. R!IsFiniteSet(DOMAIN entries')
  BY SameSets
<1>2. now' \in Nat
  BY TypesOfEntries
<1> QED
  BY <1>1, <1>2 DEF R!TypeOK, EntryOK

LEMMA AddReturns ==
    ASSUME NEW h \in Accepted, R!Add(h)
    PROVE  /\ ret'.result \in {"Complete", "Incomplete", "Duplicate", "Malformed"}
           /\ ret'.new_message \in BOOLEAN
<1>1. R!FastPath(h) => ret'.result = "Complete" /\ ret'.new_message = TRUE
  BY DEF R!FastPath, R!Return
<1>2. R!TooLong(h) => ret'.result = "Malformed" /\ ret'.new_message = FALSE
  BY DEF R!TooLong, R!Return
<1>3. R!Open(h) => ret'.result = "Incomplete" /\ ret'.new_message = TRUE
  BY DEF R!Open, R!Return
<1>4. R!Drop(h) => ret'.result = "Malformed" /\ ret'.new_message = FALSE
  BY DEF R!Drop, R!Return
<1>5. R!Repeat(h) => ret'.result = "Duplicate" /\ ret'.new_message = FALSE
  BY DEF R!Repeat, R!Return
<1>6. R!Store(h) => ret'.result = "Incomplete" /\ ret'.new_message = FALSE
  BY DEF R!Store, R!Return
<1>7. R!Complete(h) => ret'.result = "Complete" /\ ret'.new_message = FALSE
  BY DEF R!Complete, R!Return
<1> QED
  BY <1>1, <1>2, <1>3, <1>4, <1>5, <1>6, <1>7 DEF R!Add

\* What add() does to the set of pending keys, by the way out it takes.
ReturnsOut(h) == ret'.out.source = h.source /\ ret'.out.sequence = h.sequence
Keeps == DOMAIN entries' = DOMAIN entries /\ evictions' = evictions
Erases(h) == DOMAIN entries' = DOMAIN entries \ {R!Key(h)} /\ evictions' = evictions
Inserts(h) ==
    /\ R!Key(h) \notin DOMAIN entries /\ R!Key(h) \in DOMAIN entries'
    /\ DOMAIN entries' \subseteq DOMAIN entries \cup {R!Key(h)}
    /\ evictions' = evictions + Cardinality(DOMAIN entries \ DOMAIN entries')

AddsTo(h) ==
    LET result == ret'.result
        new == ret'.new_message
    IN  \/ result = "Complete" /\ new /\ ReturnsOut(h) /\ Keeps
        \/ result \in {"Malformed", "Duplicate", "Incomplete"} /\ ~new /\ Keeps
        \/ result = "Incomplete" /\ new /\ Inserts(h)
        \/ result = "Malformed" /\ ~new /\ Erases(h)
        \/ result = "Complete" /\ ~new /\ ReturnsOut(h) /\ Erases(h)
           /\ R!Key(h) \in DOMAIN entries

LEMMA AddEffect ==
    ASSUME R!TypeOK, NEW h \in Accepted, R!Add(h)
    PROVE  AddsTo(h)
<1>1. CASE R!FastPath(h)
  BY <1>1 DEF R!FastPath, R!Return, AddsTo, ReturnsOut, Keeps
<1>2. CASE R!TooLong(h) \/ R!Repeat(h)
  BY <1>2 DEF R!TooLong, R!Repeat, R!Return, AddsTo, Keeps
<1>3. CASE R!Open(h)
  <2>1. PICK i \in 0 .. Len(order) :
          /\ DOMAIN entries' = (DOMAIN entries \ R!Popped(i)) \cup {R!Key(h)}
          /\ evictions' = evictions + R!Cardinality(DOMAIN entries \cap R!Popped(i))
    BY <1>3 DEF R!Open
  <2>2. R!Key(h) \notin DOMAIN entries
    BY <1>3 DEF R!Open, R!Known
  <2>3. DOMAIN entries \cap R!Popped(i) = DOMAIN entries \ DOMAIN entries'
    BY <2>1, <2>2
  <2>4. Inserts(h)
    BY <2>1, <2>2, <2>3, SameSets DEF Inserts
  <2>5. ret'.result = "Incomplete" /\ ret'.new_message
    BY <1>3 DEF R!Open, R!Return
  <2> QED
    BY <2>4, <2>5 DEF AddsTo
<1>4. CASE R!Drop(h)
  BY <1>4 DEF R!Drop, R!Without, R!Return, AddsTo, Erases
<1>5. CASE R!Store(h)
  <2>1. DOMAIN entries' = DOMAIN entries /\ evictions' = evictions
    BY <1>5 DEF R!Store
  <2>2. ret'.result = "Incomplete" /\ ~ret'.new_message
    BY <1>5 DEF R!Store, R!Return
  <2> QED
    BY <2>1, <2>2 DEF AddsTo, Keeps
<1>6. CASE R!Complete(h)
  <2>1. Erases(h) /\ R!Key(h) \in DOMAIN entries
    BY <1>6 DEF R!Complete, R!Without, R!Known, Erases
  <2>2. ret'.result = "Complete" /\ ~ret'.new_message /\ ReturnsOut(h)
    BY <1>6 DEF R!Complete, R!Return, ReturnsOut
  <2> QED
    BY <2>1, <2>2 DEF AddsTo
<1> QED
  BY <1>1, <1>2, <1>3, <1>4, <1>5, <1>6 DEF R!Add

LEMMA AddTypes ==
    ASSUME R!TypeOK, NEW h \in Accepted, R!Add(h), now' = now
    PROVE  R!TypeOK'
<1> DEFINE D == DOMAIN entries
<1>1. /\ D \subseteq R!Keys /\ IsFiniteSet(D) /\ \A k \in D : EntryOK(entries[k])
      /\ order \in Seq(R!Keys) /\ Len(order) \in Nat /\ evictions \in Nat /\ now \in Nat
  BY TypesOfEntries
<1>2. /\ R!Key(h) \in R!Keys /\ h.count \in Nat \ {0} /\ h.index \in 0 .. h.count - 1
      /\ h.length \in Nat
  BY AcceptedFacts
<1>3. /\ DOMAIN entries' \subseteq R!Keys /\ IsFiniteSet(DOMAIN entries')
      /\ evictions' \in Nat
  <2>1. DOMAIN entries' \subseteq D \cup {R!Key(h)}
    BY AddEffect DEF AddsTo, Keeps, Erases, Inserts
  <2>2. IsFiniteSet(D \cup {R!Key(h)})
    BY <1>1, FS_AddElement
  <2>3. Cardinality(D \ DOMAIN entries') \in Nat
    BY <1>1, FS_Difference, FS_CardinalityType
  <2>4. evictions' = evictions \/ evictions' = evictions + Cardinality(D \ DOMAIN entries')
    BY AddEffect DEF AddsTo, Keeps, Erases, Inserts
  <2> QED
    BY <1>1, <1>2, <2>1, <2>2, <2>3, <2>4, FS_Subset
<1>4. tally' \in [opened : Nat, completed : Nat, dropped : Nat, expired : Nat]
  BY TypesOfEntries, TallyType
     DEF R!Add, R!FastPath, R!TooLong, R!Open, R!Drop, R!Repeat, R!Store, R!Complete
<1>5. order' \in Seq(R!Keys)
  <2>1. CASE R!Open(h)
    <3>1. PICK i \in 0 .. Len(order) :
            order' = Append(SubSeq(order, i + 1, Len(order)), R!Key(h))
      BY <2>1 DEF R!Open
    <3>2. SubSeq(order, i + 1, Len(order)) \in Seq(R!Keys)
      BY <1>1, SubSeqProperties
    <3> QED
      BY <1>2, <3>1, <3>2, AppendProperties
  <2>2. CASE ~R!Open(h)
    BY <1>1, <2>2 DEF R!Add, R!FastPath, R!TooLong, R!Drop, R!Repeat, R!Store, R!Complete
  <2> QED
    BY <2>1, <2>2
<1>6. ASSUME NEW k \in DOMAIN entries' PROVE EntryOK(entries'[k])
  <2>1. CASE R!Open(h)
    <3>1. PICK i \in 0 .. Len(order) :
            entries' = [l \in (DOMAIN entries \ R!Popped(i)) \cup {R!Key(h)} |->
                            IF l = R!Key(h) THEN R!NewEntry(h) ELSE entries[l]]
      BY <2>1 DEF R!Open
    <3>2. CASE k = R!Key(h)
      <4>1. entries'[k] = R!NewEntry(h)
        BY <3>1, <3>2
      <4> QED
        BY <1>1, <1>2, <4>1 DEF R!NewEntry, EntryOK
    <3>3. CASE k # R!Key(h)
      <4>1. k \in D /\ entries'[k] = entries[k]
        BY <1>6, <3>1, <3>3
      <4> QED
        BY <1>1, <4>1
    <3> QED
      BY <3>2, <3>3
  <2>2. CASE entries' = entries
    BY <1>1, <1>6, <2>2
  <2>3. CASE entries' = R!Without({R!Key(h)})
    <3>1. k \in D /\ entries'[k] = entries[k]
      BY <1>6, <2>3 DEF R!Without
    <3> QED
      BY <1>1, <3>1
  <2>4. CASE R!Store(h)
    <3> DEFINE e == entries[R!Key(h)]
               b == R!Filled(e, h)
    <3>1. /\ R!Key(h) \in D /\ h.count = e.count
          /\ entries' = [entries EXCEPT ![R!Key(h)].buffer = b]
      BY <2>4 DEF R!Store, R!Known, R!Consistent
    <3>2. EntryOK(e)
      BY <1>1, <3>1
    <3>3. DOMAIN b \subseteq 0 .. e.count - 1
      BY <1>2, <3>1, <3>2 DEF R!Filled, EntryOK
    <3>4. CASE k = R!Key(h)
      <4> HIDE DEF b, e
      <4>1. entries'[k] = [e EXCEPT !.buffer = b]
        BY <3>1, <3>4 DEF e
      <4>2. /\ entries'[k].first_seen = e.first_seen /\ entries'[k].count = e.count
            /\ entries'[k].length = e.length /\ entries'[k].buffer = b
            /\ DOMAIN entries'[k] = DOMAIN e
        BY <4>1, <3>2, Zenon DEF EntryOK
      <4> QED
        BY <3>2, <3>3, <4>2 DEF EntryOK
    <3>5. CASE k # R!Key(h)
      <4>1. k \in D /\ entries'[k] = entries[k]
        BY <1>6, <3>1, <3>5
      <4> QED
        BY <1>1, <4>1
    <3> QED
      BY <3>4, <3>5
  <2> QED
    BY <2>1, <2>2, <2>3, <2>4
       DEF R!Add, R!FastPath, R!TooLong, R!Drop, R!Repeat, R!Complete
<1> QED
  BY <1>1, <1>3, <1>4, <1>5, <1>6, AddReturns, TypesAfter

\* expire() keeps the entries it does not discard, and counts the others.
LEMMA ExpireEffect ==
    ASSUME R!TypeOK, R!Expire, now' = now
    PROVE  /\ R!TypeOK'
           /\ DOMAIN entries' \subseteq DOMAIN entries
           /\ \A k \in DOMAIN entries' : entries'[k] = entries[k]
           /\ Expired = Cardinality(DOMAIN entries \ DOMAIN entries')
           /\ Expired \in Nat
           /\ evictions' = evictions /\ ret' = ret
<1> DEFINE D == DOMAIN entries
<1>1. PICK i \in 0 .. Len(order) :
        /\ entries' = R!Without(R!Popped(i))
        /\ order' = R!Compacted(SubSeq(order, i + 1, Len(order)), D \ R!Popped(i))
        /\ tally' = [tally EXCEPT !.expired = @ + R!Cardinality(D \cap R!Popped(i))]
  BY DEF R!Expire
<1>2. UNCHANGED <<evictions, ret>>
  BY DEF R!Expire
<1>3. /\ D \subseteq R!Keys /\ IsFiniteSet(D) /\ \A k \in D : EntryOK(entries[k])
      /\ order \in Seq(R!Keys) /\ Len(order) \in Nat /\ evictions \in Nat /\ now \in Nat
      /\ tally \in [opened : Nat, completed : Nat, dropped : Nat, expired : Nat]
  BY TypesOfEntries
<1>4. /\ DOMAIN entries' = D \ R!Popped(i) /\ \A k \in DOMAIN entries' : entries'[k] = entries[k]
      /\ D \cap R!Popped(i) = D \ DOMAIN entries'
  BY <1>1 DEF R!Without
<1>5. /\ R!Cardinality(D \cap R!Popped(i)) = Cardinality(D \ DOMAIN entries')
      /\ Cardinality(D \ DOMAIN entries') \in Nat
      /\ IsFiniteSet(DOMAIN entries')
  BY <1>3, <1>4, SameSets, FS_Difference, FS_CardinalityType, FS_Subset
<1>6. /\ tally' \in [opened : Nat, completed : Nat, dropped : Nat, expired : Nat]
      /\ tally'.expired = tally.expired + Cardinality(D \ DOMAIN entries')
      /\ tally.expired \in Nat
  BY <1>1, <1>3, <1>5, TallyType
<1>7. order' \in Seq(R!Keys)
  <2> DEFINE tail == SubSeq(order, i + 1, Len(order))
             K == D \ R!Popped(i)
  <2>1. tail \in Seq(R!Keys)
    BY <1>3, SubSeqProperties
  <2>2. R!Keep(tail, K) = Filtered(tail, K)
    BY Zenon DEF R!Keep, R!Rank, R!Cardinality, Filtered, Selected, Place, Cardinality
  <2>3. order' = Filtered(tail, K) \/ order' = tail
    BY <1>1, <2>2 DEF R!Compacted
  <2> HIDE DEF tail, K
  <2> QED
    BY <2>1, <2>3, FilteredOrder
<1>8. /\ ret'.result \in {"Complete", "Incomplete", "Duplicate", "Malformed"}
      /\ ret'.new_message \in BOOLEAN
  BY <1>2 DEF R!TypeOK
<1>9. R!TypeOK'
  BY <1>2, <1>3, <1>4, <1>5, <1>6, <1>7, <1>8, TypesAfter
<1> QED
  BY <1>2, <1>4, <1>5, <1>6, <1>9 DEF Expired

-----------------------------------------------------------------------------
(* The capture file and the counts.                                        *)

LEMMA CountingFacts ==
    ASSUME stats \in [Counters -> Nat], NEW F
    PROVE  /\ Counting(F) \in [Counters -> Nat]
           /\ \A f \in Counters : Counting(F)[f] = IF f \in F THEN stats[f] + 1 ELSE stats[f]
BY DEF Counting

\* The counts that the accounts of messages and failures rest on.
LEMMA CountsFacts ==
    ASSUME stats \in [Counters -> Nat]
    PROVE  /\ stats["messages"] \in Nat /\ stats["skipped"] \in Nat /\ stats["writeErrors"] \in Nat
           /\ stats["incomplete"] \in Nat /\ stats["inconsistent"] \in Nat
           /\ \A f \in {"messages", "skipped", "writeErrors", "incomplete", "inconsistent"} :
                 f \in Counters
BY DEF Counters

\* Steps that leave the capture file and its counts alone.
LEMMA CaptureAlone ==
    ASSUME CaptureInv, UNCHANGED <<capture, recording, code>>,
           phase' = "stopped" <=> phase = "stopped",
           stats' \in [Counters -> Nat],
           stats'["messages"] = stats["messages"], stats'["skipped"] = stats["skipped"],
           stats'["writeErrors"] = stats["writeErrors"]
    PROVE  CaptureInv'
BY DEF CaptureInv, capture, FileOK, MessagesAccounted, FailuresReported, FailureCounted, CleanExit

\* Steps of the running receiver.
Running == phase # "stopped" /\ phase' # "stopped" /\ code' = code

LEMMA CaptureSkips ==
    ASSUME CaptureInv, Running, UNCHANGED <<capture, recording>>,
           stats' = Counting({"datagrams", "messages", "skipped"})
    PROVE  CaptureInv'
<1>1. /\ stats' \in [Counters -> Nat]
      /\ stats'["messages"] = stats["messages"] + 1 /\ stats'["skipped"] = stats["skipped"] + 1
      /\ stats'["writeErrors"] = stats["writeErrors"]
      /\ stats["messages"] \in Nat /\ stats["skipped"] \in Nat
  <2>1. stats \in [Counters -> Nat]
    BY DEF CaptureInv
  <2> QED
    BY <2>1, CountingFacts, CountsFacts
<1>2. Len(log) \in Nat
  BY Sequences DEF CaptureInv, FileOK
<1>3. MessagesAccounted'
  <2>1. /\ stats.messages - Len(log) - stats.skipped \in 0 .. 1
        /\ stats.messages - Len(log) - stats.skipped = 1 => failed
    BY DEF CaptureInv, MessagesAccounted
  <2>2. log' = log /\ failed' = failed
    BY DEF capture
  <2>3. /\ stats'.messages = stats.messages + 1 /\ stats'.skipped = stats.skipped + 1
        /\ stats.messages \in Nat /\ stats.skipped \in Nat /\ Len(log') = Len(log)
    BY <1>1, <2>2
  <2>4. stats'.messages - Len(log') - stats'.skipped = stats.messages - Len(log) - stats.skipped
    <3> DEFINE a == stats.messages
               b == stats'.messages
               c == stats.skipped
               d == stats'.skipped
               n == Len(log)
               m == Len(log')
    <3>1. b = a + 1 /\ d = c + 1 /\ m = n /\ a \in Nat /\ c \in Nat /\ n \in Nat
      BY <1>2, <2>3
    <3> HIDE DEF a, b, c, d, n, m
    <3>2. b - m - d = a - n - c
      BY <3>1
    <3> QED
      BY <3>2 DEF a, b, c, d, n, m
  <2> QED
    BY <2>1, <2>2, <2>4 DEF MessagesAccounted
<1> QED
  BY <1>1, <1>3 DEF CaptureInv, Running, capture, FileOK, FailuresReported, FailureCounted, CleanExit

LEMMA CaptureWrites ==
    ASSUME CaptureInv, Running, NEW m, C!LogWrite(m), recording' = recording,
           stats' = Counting({"datagrams", "messages"})
    PROVE  CaptureInv'
<1>1. /\ stats' \in [Counters -> Nat]
      /\ stats'["messages"] = stats["messages"] + 1 /\ stats'["skipped"] = stats["skipped"]
      /\ stats'["writeErrors"] = stats["writeErrors"]
      /\ stats["messages"] \in Nat /\ stats["skipped"] \in Nat
  <2>1. stats \in [Counters -> Nat]
    BY DEF CaptureInv
  <2> QED
    BY <2>1, CountingFacts, CountsFacts
<1>2. /\ file = "open" /\ failed = FALSE /\ file' = file /\ failed' = failed
      /\ log' = Append(log, m) /\ readable' \in readable .. Len(log) + 1 /\ safe' = safe
  BY DEF C!LogWrite, C!Accepts, CaptureInv
<1>3. IsSequence(log') /\ Len(log') = Len(log) + 1 /\ Len(log) \in Nat
  BY <1>2, Appended, Sequences DEF CaptureInv, FileOK
<1>4. MessagesAccounted'
  <2>1. /\ stats.messages - Len(log) - stats.skipped \in 0 .. 1
        /\ stats.messages - Len(log) - stats.skipped = 1 => failed
    BY DEF CaptureInv, MessagesAccounted
  <2>2. stats'.messages - Len(log') - stats'.skipped = stats.messages - Len(log) - stats.skipped
    BY <1>1, <1>3
  <2> QED
    BY <1>2, <2>1, <2>2 DEF MessagesAccounted
<1>5. readable' \in 0 .. Len(log') /\ safe' \in 0 .. readable'
  BY <1>2, <1>3 DEF CaptureInv
<1> QED
  BY <1>1, <1>2, <1>3, <1>4, <1>5
     DEF CaptureInv, Running, FileOK, FailuresReported, FailureCounted, CleanExit

LEMMA CaptureWriteFails ==
    ASSUME CaptureInv, Running, C!LogWriteFails, recording' = FALSE,
           stats' = Counting({"datagrams", "messages", "writeErrors"})
    PROVE  CaptureInv'
<1>1. /\ stats' \in [Counters -> Nat]
      /\ stats'["messages"] = stats["messages"] + 1 /\ stats'["skipped"] = stats["skipped"]
      /\ stats'["writeErrors"] = stats["writeErrors"] + 1
      /\ stats["messages"] \in Nat /\ stats["skipped"] \in Nat /\ stats["writeErrors"] \in Nat
  <2>1. stats \in [Counters -> Nat]
    BY DEF CaptureInv
  <2> QED
    BY <2>1, CountingFacts, CountsFacts
<1>2. /\ file = "open" /\ failed = FALSE /\ file' = file /\ failed' = TRUE
      /\ log' = log /\ readable' \in readable .. Len(log) /\ safe' = safe
  BY DEF C!LogWriteFails, C!Accepts, CaptureInv
<1>3. Len(log) \in Nat
  BY Sequences DEF CaptureInv, FileOK
<1>4. MessagesAccounted'
  <2>1. /\ stats.messages - Len(log) - stats.skipped \in 0 .. 1
        /\ stats.messages - Len(log) - stats.skipped = 1 => failed
    BY DEF CaptureInv, MessagesAccounted
  <2>2. stats'.messages - Len(log') - stats'.skipped = 1
    BY <1>1, <1>2, <1>3, <2>1
  <2> QED
    BY <1>2, <2>2 DEF MessagesAccounted
<1>5. readable' \in 0 .. Len(log') /\ safe' \in 0 .. readable'
  BY <1>2, <1>3 DEF CaptureInv
<1>6. FileOK'
  BY <1>2 DEF CaptureInv, FileOK, Running
<1>7. FailuresReported'
  <2>1. stats'.writeErrors > 0 /\ code' = -1
    BY <1>1 DEF CaptureInv, Running
  <2> QED
    BY <2>1 DEF FailuresReported, FailureCounted, CleanExit
<1> QED
  BY <1>1, <1>2, <1>4, <1>5, <1>6, <1>7 DEF CaptureInv, Running

\* A flush, with or without fsync(): recording may be switched off with it.
LEMMA CaptureFlushes ==
    ASSUME CaptureInv, Running, NEW sync, C!LogFlush(sync), recording' \in {recording, FALSE},
           stats' \in [Counters -> Nat],
           stats'["messages"] = stats["messages"], stats'["skipped"] = stats["skipped"],
           stats'["writeErrors"] = stats["writeErrors"]
    PROVE  CaptureInv'
<1>1. /\ file = "open" /\ file' = file /\ failed' = failed /\ log' = log
      /\ readable' \in {readable, Len(log)} /\ safe' \in {safe, readable'}
  BY DEF C!LogFlush, C!Flushed
<1>2. Len(log) \in Nat
  BY Sequences DEF CaptureInv, FileOK
<1>3. readable' \in 0 .. Len(log') /\ safe' \in 0 .. readable'
  BY <1>1, <1>2 DEF CaptureInv
<1>4. MessagesAccounted'
  BY <1>1 DEF CaptureInv, MessagesAccounted
<1> QED
  BY <1>1, <1>3, <1>4
     DEF CaptureInv, Running, FileOK, FailuresReported, FailureCounted, CleanExit

LEMMA CaptureFlushFails ==
    ASSUME CaptureInv, Running, C!LogFlushFails, recording' \in {recording, FALSE},
           stats' \in [Counters -> Nat],
           stats'["messages"] = stats["messages"], stats'["skipped"] = stats["skipped"],
           stats'["writeErrors"] = stats["writeErrors"] + 1
    PROVE  CaptureInv'
<1>1. /\ file = "open" /\ file' = file /\ failed' = TRUE /\ log' = log
      /\ readable' \in readable .. Len(log) /\ safe' = safe
  BY DEF C!LogFlushFails
<1>2. Len(log) \in Nat /\ stats["writeErrors"] \in Nat
  BY Sequences DEF CaptureInv, FileOK, Counters
<1>3. readable' \in 0 .. Len(log') /\ safe' \in 0 .. readable'
  BY <1>1, <1>2 DEF CaptureInv
<1>4. MessagesAccounted'
  BY <1>1 DEF CaptureInv, MessagesAccounted
<1>5. FileOK'
  BY <1>1 DEF CaptureInv, FileOK, Running
<1>6. FailuresReported'
  <2>1. stats'.writeErrors > 0 /\ code' = -1
    BY <1>2 DEF CaptureInv, Running
  <2> QED
    BY <2>1 DEF FailuresReported, FailureCounted, CleanExit
<1> QED
  BY <1>1, <1>3, <1>4, <1>5, <1>6 DEF CaptureInv, Running

LEMMA CaptureOpens ==
    ASSUME CaptureInv, Running, failed = FALSE, stats' = stats,
           \/ C!LogOpen /\ recording' = TRUE
           \/ C!LogOpenFails /\ recording' = recording
    PROVE  CaptureInv'
<1>1. file = "none" /\ log = << >> /\ readable = 0 /\ safe = 0 /\ recording = FALSE
  <2>1. file # "open"
    BY DEF C!LogOpen, C!LogOpenFails
  <2>2. file = "none" /\ log = << >>
    BY <2>1 DEF CaptureInv, FileOK, Running
  <2>3. Len(log) = 0
    BY <2>2
  <2> QED
    BY <2>1, <2>2, <2>3 DEF CaptureInv, Running
<1>2. /\ log' = << >> /\ readable' = 0 /\ safe' = 0
      /\ \/ file' = "open" /\ failed' = FALSE
         \/ file' = "none" /\ failed' = TRUE /\ recording' = FALSE
      /\ recording' \in BOOLEAN
  BY <1>1 DEF C!LogOpen, C!LogOpenFails
<1>3. MessagesAccounted'
  BY <1>1, <1>2 DEF CaptureInv, MessagesAccounted
<1>4. Len(log') = 0 /\ IsSequence(log')
  BY <1>2, Sequences
<1>5. FileOK'
  BY <1>2, <1>4 DEF FileOK, Running
<1>6. FailuresReported'
  <2>1. code' = -1 /\ (failed' => file' = "none")
    BY <1>2 DEF CaptureInv, Running
  <2> QED
    BY <2>1 DEF FailuresReported, FailureCounted, CleanExit
<1>7. readable' \in 0 .. Len(log') /\ safe' \in 0 .. readable'
  BY <1>2, <1>4
<1>8. failed' \in BOOLEAN
  BY <1>2
<1>9. recording' => file' = "open"
  BY <1>2
<1> QED
  BY <1>2, <1>3, <1>5, <1>6, <1>7, <1>8, <1>9 DEF CaptureInv, Running

\* The end of run().
LEMMA CaptureEnds ==
    ASSUME CaptureInv, phase = "shutdown", phase' = "stopped", recording' = recording,
           stats' \in [Counters -> Nat],
           stats'["messages"] = stats["messages"], stats'["skipped"] = stats["skipped"],
           \/ /\ file # "open" /\ code' = 0 /\ UNCHANGED capture
              /\ stats'["writeErrors"] = stats["writeErrors"]
           \/ C!LogClose /\ code' = 0 /\ stats'["writeErrors"] = stats["writeErrors"]
           \/ C!LogCloseFails /\ code' = 1 /\ stats'["writeErrors"] = stats["writeErrors"] + 1
    PROVE  CaptureInv'
<1>1. Len(log) \in Nat /\ stats["writeErrors"] \in Nat
  BY Sequences DEF CaptureInv, FileOK, Counters
<1>2. CASE file # "open" /\ code' = 0 /\ UNCHANGED capture
           /\ stats'["writeErrors"] = stats["writeErrors"]
  <2>1. file = "none" /\ log = << >>
    BY <1>2 DEF CaptureInv, FileOK
  <2>2. Len(log) = 0 /\ readable = 0 /\ safe = 0
    BY <2>1 DEF CaptureInv
  <2> QED
    BY <1>2, <2>1, <2>2 DEF CaptureInv, capture, FileOK, MessagesAccounted,
                            FailuresReported, FailureCounted, CleanExit
<1>3. CASE C!LogClose /\ code' = 0 /\ stats'["writeErrors"] = stats["writeErrors"]
  <2>1. /\ file = "open" /\ failed' = failed /\ log' = log
        /\ readable' \in {readable, Len(log)}
        /\ ~failed => readable' = Len(log)
        /\ \/ file' = "closed" /\ safe' = readable'
           \/ file' = "unsynced" /\ safe' = safe
    BY <1>3 DEF C!LogClose, C!Flushed
  <2>2. readable' \in 0 .. Len(log') /\ safe' \in 0 .. readable'
    BY <1>1, <2>1 DEF CaptureInv
  <2>3. MessagesAccounted'
    BY <2>1 DEF CaptureInv, MessagesAccounted
  <2> QED
    BY <1>1, <1>3, <2>1, <2>2, <2>3
       DEF CaptureInv, FileOK, FailuresReported, FailureCounted, CleanExit
<1>4. CASE C!LogCloseFails /\ code' = 1 /\ stats'["writeErrors"] = stats["writeErrors"] + 1
  <2>1. /\ file = "open" /\ file' = "closed" /\ failed' = TRUE /\ log' = log
        /\ readable' \in readable .. Len(log) /\ safe' \in safe .. readable'
    BY <1>4 DEF C!LogCloseFails
  <2>2. readable' \in 0 .. Len(log') /\ safe' \in 0 .. readable'
    BY <1>1, <2>1 DEF CaptureInv
  <2>3. MessagesAccounted'
    BY <2>1 DEF CaptureInv, MessagesAccounted
  <2> QED
    BY <1>1, <1>4, <2>1, <2>2, <2>3
       DEF CaptureInv, FileOK, FailuresReported, FailureCounted, CleanExit
<1> QED
  BY <1>2, <1>3, <1>4


-----------------------------------------------------------------------------
(* What a step does to the reassembler, the tracker and the histories.     *)

SameHistory == /\ past'.taken = past.taken /\ past'.delivered = past.delivered
               /\ past'.first = past.first /\ DOMAIN past' = DOMAIN past
SameLosses == /\ stats'["incomplete"] = stats["incomplete"]
              /\ stats'["inconsistent"] = stats["inconsistent"]

Idles == /\ UNCHANGED <<reassembly, tracker>> /\ now' \in {now, now + 1}
         /\ SameHistory /\ SameLosses

Sweeps == /\ R!Expire /\ UNCHANGED <<now, tracker>> /\ SameHistory
          /\ stats'["incomplete"] = stats["incomplete"] + Expired
          /\ stats'["inconsistent"] = stats["inconsistent"]

Rejects(d) == /\ d \notin Accepted
              /\ UNCHANGED <<reassembly, now, tracker>> /\ past' = Handled(d) /\ SameLosses

Accepts(d) ==
    LET new == ret'.new_message
        complete == ret'.result = "Complete"
    IN  /\ R!Add(d) /\ now' = now
        /\ tracker' = IF new THEN [tracker EXCEPT ![d.source] = Observed(@, d.sequence)]
                      ELSE tracker
        /\ past'.taken = [past.taken EXCEPT ![d] = @ + 1]
        /\ past'.delivered = IF complete THEN Append(past.delivered, ret'.out) ELSE past.delivered
        /\ past'.first = IF complete \/ new
                           THEN [past.first EXCEPT ![d.source] = IF @ = -1 THEN d.sequence ELSE @]
                           ELSE past.first
        /\ DOMAIN past' = DOMAIN past
        /\ stats'["incomplete"] = stats["incomplete"]
        /\ stats'["inconsistent"] = stats["inconsistent"]
                                    + (IF ret'.result = "Malformed" THEN 1 ELSE 0)

StepKinds == \/ Idles \/ Sweeps
             \/ (\E d \in Packet : Rejects(d)) \/ (\E d \in Accepted : Accepts(d))

LEMMA AcceptKind ==
    ASSUME stats \in [Counters -> Nat], HistoryOK,
           NEW d \in Accepted, Accept(d), now' = now
    PROVE  Accepts(d)
<1>1. R!Add(d)
  BY DEF Accept
<1>2. ret'.result \in {"Complete", "Incomplete", "Duplicate", "Malformed"}
  BY <1>1, AddReturns
<1>3. /\ d.source \in Source
      /\ tracker' = IF ret'.new_message THEN [tracker EXCEPT ![d.source] = Observed(@, d.sequence)]
                    ELSE tracker
  BY AcceptedFacts DEF Accept
<1>4. /\ DOMAIN past = {"taken", "delivered", "first", "commands"}
      /\ past.first \in [Source -> Nat \cup {-1}]
  BY DEF HistoryOK
<1>5. CASE ret'.result = "Complete"
  <2>1. /\ OnComplete(ret'.out)
        /\ past' = [Handled(d) EXCEPT !.delivered = Append(@, ret'.out),
                                      !.first[d.source] = IF @ = -1 THEN d.sequence ELSE @]
    BY <1>5 DEF Accept
  <2>2. SameLosses
    BY <2>1 DEF OnComplete, SkippedAs, Counting, Counters, SameLosses
  <2>3. /\ past'.taken = [past.taken EXCEPT ![d] = @ + 1]
        /\ past'.delivered = Append(past.delivered, ret'.out)
        /\ past'.first = [past.first EXCEPT ![d.source] = IF @ = -1 THEN d.sequence ELSE @]
        /\ DOMAIN past' = DOMAIN past
    BY <1>4, <2>1, Zenon DEF Handled
  <2>4. "Complete" # "Malformed" /\ stats["inconsistent"] \in Nat
    BY DEF Counters
  <2>5. /\ stats'["incomplete"] = stats["incomplete"]
        /\ stats'["inconsistent"] = stats["inconsistent"]
                                    + (IF ret'.result = "Malformed" THEN 1 ELSE 0)
    BY <1>5, <2>2, <2>4 DEF SameLosses
  <2> QED
    BY <1>1, <1>3, <1>5, <2>3, <2>5 DEF Accepts
<1>6. CASE ret'.result # "Complete"
  <2>1. /\ stats' = Counting(CountedAs(ret'.result))
        /\ past' = [Handled(d) EXCEPT
                        !.first[d.source] =
                            IF @ = -1 /\ ret'.new_message THEN d.sequence ELSE @]
    BY <1>6 DEF Accept
  <2>2. /\ stats'["incomplete"] = stats["incomplete"]
        /\ stats'["inconsistent"] = stats["inconsistent"]
                                    + (IF ret'.result = "Malformed" THEN 1 ELSE 0)
    BY <1>2, <1>6, <2>1 DEF CountedAs, Counting, Counters
  <2>3. /\ past'.taken = [past.taken EXCEPT ![d] = @ + 1]
        /\ past'.delivered = past.delivered
        /\ past'.first = [past.first EXCEPT ![d.source] =
                             IF @ = -1 /\ ret'.new_message THEN d.sequence ELSE @]
        /\ DOMAIN past' = DOMAIN past
    BY <1>4, <2>1, Zenon DEF Handled
  <2>4. past'.first = IF ret'.new_message
                        THEN [past.first EXCEPT ![d.source] = IF @ = -1 THEN d.sequence ELSE @]
                        ELSE past.first
    <3>1. ret'.new_message \in BOOLEAN
      BY <1>1, AddReturns
    <3>2. CASE ret'.new_message
      BY <2>3, <3>2
    <3>3. CASE ~ret'.new_message
      BY <1>3, <1>4, <2>3, <3>3
    <3> QED
      BY <3>1, <3>2, <3>3
  <2> QED
    BY <1>1, <1>3, <1>6, <2>2, <2>3, <2>4 DEF Accepts
<1> QED
  BY <1>5, <1>6

LEMMA KindOfStep ==
    ASSUME stats \in [Counters -> Nat], HistoryOK, R!TypeOK, [Next]_vars
    PROVE  StepKinds
<1>1. UNCHANGED <<past, stats>> => SameHistory /\ SameLosses
  BY DEF SameHistory, SameLosses
<1>2. Move \/ UNCHANGED vars => Idles
  BY <1>1 DEF Move, handlers, vars, Idles
<1>3. Environment => Idles
  <2>1. DOMAIN past = {"taken", "delivered", "first", "commands"}
    BY DEF HistoryOK
  <2>2. past' = [past EXCEPT !.commands = @ + 1] => SameHistory
    BY <2>1 DEF SameHistory
  <2>3. UNCHANGED stats => SameLosses
    BY DEF SameLosses
  <2> QED
    BY <1>1, <2>2, <2>3 DEF Environment, handlers, Idles, R!Tick, reassembly
<1>4. \A c \in Command : HandleCommand(c) => Idles
  <2>1. ASSUME NEW c \in Command, HandleCommand(c) PROVE SameLosses
    <3>1. stats' = stats \/ stats' = Counting({"writeErrors"})
      BY <2>1 DEF HandleCommand, RecordOn, RecordOff, FlushCommand, FlushOrCount
    <3> QED
      BY <3>1 DEF SameLosses, Counting, Counters
  <2> QED
    BY <1>1, <2>1 DEF HandleCommand, Idles, SameHistory
<1>5. HandleTimers \/ End => Idles \/ Sweeps
  <2>1. ASSUME NEW b \in BOOLEAN, NEW n, SweepIf(b), Tally(n),
               UNCHANGED <<now, tracker, past>>
        PROVE  Idles \/ Sweeps
    <3>1. /\ stats'["incomplete"] = stats["incomplete"] + Expired
          /\ stats'["inconsistent"] = stats["inconsistent"]
          /\ stats["incomplete"] \in Nat
      BY <2>1 DEF Tally, Counters
    <3>2. SameHistory
      BY <2>1 DEF SameHistory
    <3>3. CASE R!Expire
      BY <2>1, <3>1, <3>2, <3>3 DEF Sweeps
    <3>4. CASE UNCHANGED reassembly
      <4>1. tally' = tally
        BY <3>4 DEF reassembly
      <4>2. tally.expired \in Nat
        BY TypesOfEntries
      <4>3. Expired = 0
        BY <4>1, <4>2 DEF Expired
      <4>4. SameLosses
        BY <3>1, <4>3 DEF SameLosses
      <4> QED
        BY <2>1, <3>2, <3>4, <4>4 DEF Idles
    <3> QED
      BY <2>1, <3>3, <3>4 DEF SweepIf
  <2>2. HandleTimers => \E n \in Nat : SweepIf("sweep" \in due) /\ Tally(n)
                                       /\ UNCHANGED <<now, tracker, past>>
    BY DEF HandleTimers, FlushError
  <2>3. End => \E n \in Nat : SweepIf(TRUE) /\ Tally(n) /\ UNCHANGED <<now, tracker, past>>
    BY DEF End
  <2>4. ("sweep" \in due) \in BOOLEAN
    OBVIOUS
  <2> QED
    BY <2>1, <2>2, <2>3, <2>4
<1>6. ASSUME NEW d \in Packet, HandleDatagram(d)
      PROVE  Rejects(d) \/ (d \in Accepted /\ Accepts(d))
  <2>1. CASE Reject(d)
    <3>1. d \notin Accepted
      BY <2>1 DEF Reject, Accepted
    <3>2. SameLosses
      BY <2>1 DEF Reject, Counting, Counters, SameLosses
    <3> QED
      BY <1>6, <2>1, <3>1, <3>2 DEF Reject, Rejects, HandleDatagram
  <2>2. CASE Accept(d)
    <3>1. d \in Accepted
      BY <1>6, <2>2 DEF HandleDatagram, TakeDatagram, Accept, Accepted
    <3>2. now' = now
      BY <1>6 DEF HandleDatagram
    <3> QED
      BY <2>2, <3>1, <3>2, AcceptKind
  <2> QED
    BY <1>6, <2>1, <2>2 DEF HandleDatagram
<1> QED
  BY <1>2, <1>3, <1>4, <1>5, <1>6 DEF Next, StepKinds

-----------------------------------------------------------------------------
(* The capture file through every step.                                    *)

LEMMA SweepCounts ==
    ASSUME R!TypeOK, stats \in [Counters -> Nat],
           NEW b \in BOOLEAN, SweepIf(b), now' = now, NEW n \in Nat, Tally(n)
    PROVE  /\ stats' \in [Counters -> Nat]
           /\ stats'["messages"] = stats["messages"] /\ stats'["skipped"] = stats["skipped"]
           /\ stats'["writeErrors"] = stats["writeErrors"] + n
<1>1. Expired \in Nat
  <2>1. CASE R!Expire
    BY <2>1, ExpireEffect
  <2>2. CASE UNCHANGED reassembly
    BY <2>2, TypesOfEntries DEF reassembly, Expired
  <2> QED
    BY <2>1, <2>2 DEF SweepIf
<1>2. stats["incomplete"] \in Nat /\ stats["writeErrors"] \in Nat /\ DOMAIN stats = Counters
  BY DEF Counters
<1> DEFINE i == stats["incomplete"] + Expired
           w == stats["writeErrors"] + n
<1>3. i \in Nat /\ w \in Nat
  BY <1>1, <1>2
<1>4. stats' = [stats EXCEPT !["incomplete"] = i, !["writeErrors"] = w]
  BY DEF Tally
<1> HIDE DEF i, w
<1>5. /\ stats' \in [Counters -> Nat]
      /\ stats'["messages"] = stats["messages"] /\ stats'["skipped"] = stats["skipped"]
  BY <1>3, <1>4 DEF Counters
<1>6. stats'["writeErrors"] = w
  BY <1>2, <1>4 DEF Counters
<1> QED
  BY <1>5, <1>6 DEF w

LEMMA CaptureAccepts ==
    ASSUME CaptureInv, Running, NEW d \in Accepted, Accept(d)
    PROVE  CaptureInv'
<1>1. stats \in [Counters -> Nat]
  BY DEF CaptureInv
<1>2. CASE ret'.result = "Complete"
  <2>1. OnComplete(ret'.out)
    BY <1>2 DEF Accept
  <2>2. CASE ~CanRecord /\ stats' = Counting(SkippedAs) /\ UNCHANGED <<capture, recording>>
    BY <2>2, CaptureSkips DEF SkippedAs
  <2>3. CASE C!LogWrite(ret'.out) /\ stats' = Counting({"datagrams", "messages"})
             /\ UNCHANGED recording
    BY <2>3, CaptureWrites
  <2>4. CASE C!LogWriteFails /\ stats' = Counting({"datagrams", "messages", "writeErrors"})
             /\ recording' = FALSE
    BY <2>4, CaptureWriteFails
  <2> QED
    BY <2>1, <2>2, <2>3, <2>4 DEF OnComplete
<1>3. CASE ret'.result # "Complete"
  <2>1. R!Add(d) /\ stats' = Counting(CountedAs(ret'.result)) /\ UNCHANGED <<capture, recording>>
    BY <1>3 DEF Accept
  <2>2. /\ "messages" \notin CountedAs(ret'.result) /\ "skipped" \notin CountedAs(ret'.result)
        /\ "writeErrors" \notin CountedAs(ret'.result)
    BY <1>3, <2>1, AddReturns DEF CountedAs
  <2>3. /\ stats' \in [Counters -> Nat]
        /\ stats'["messages"] = stats["messages"] /\ stats'["skipped"] = stats["skipped"]
        /\ stats'["writeErrors"] = stats["writeErrors"]
    BY <1>1, <2>1, <2>2, CountingFacts, CountsFacts
  <2> QED
    BY <2>1, <2>3, CaptureAlone DEF Running
<1> QED
  BY <1>2, <1>3

LEMMA CaptureFlushOrCount ==
    ASSUME CaptureInv, Running, FlushOrCount, recording' \in {recording, FALSE}
    PROVE  CaptureInv'
<1>1. stats \in [Counters -> Nat]
  BY DEF CaptureInv
<1>2. CASE C!LogFlush(TRUE) /\ UNCHANGED stats
  BY <1>1, <1>2, CaptureFlushes
<1>3. CASE C!LogFlushFails /\ stats' = Counting({"writeErrors"})
  <2>1. /\ stats' \in [Counters -> Nat]
        /\ stats'["messages"] = stats["messages"] /\ stats'["skipped"] = stats["skipped"]
        /\ stats'["writeErrors"] = stats["writeErrors"] + 1
    BY <1>1, <1>3, CountingFacts, CountsFacts
  <2> QED
    BY <1>3, <2>1, CaptureFlushFails
<1> QED
  BY <1>2, <1>3 DEF FlushOrCount

\* Switching the recording without touching the file.
LEMMA CaptureSwitched ==
    ASSUME CaptureInv, Running, UNCHANGED <<capture, stats>>,
           recording' \in {recording, FALSE} \/ (file = "open" /\ recording' \in BOOLEAN)
    PROVE  CaptureInv'
<1>1. recording \in BOOLEAN /\ (recording => file = "open")
  BY DEF CaptureInv, Running
<1>2. recording' \in BOOLEAN
  BY <1>1
<1>3. recording' => file' = "open"
  BY <1>1 DEF capture
<1> QED
  BY <1>2, <1>3 DEF CaptureInv, Running, capture, FileOK, MessagesAccounted, FailuresReported,
                    FailureCounted, CleanExit

LEMMA CaptureCommands ==
    ASSUME CaptureInv, NEW c \in Command, HandleCommand(c)
    PROVE  CaptureInv'
<1>1. Running
  BY DEF HandleCommand, TakeCommand, Running
<1>2. recording \in BOOLEAN /\ stats \in [Counters -> Nat] /\ failed \in BOOLEAN
  BY DEF CaptureInv
<1>3. CASE RecordOn
  <2>1. CASE failed /\ UNCHANGED <<capture, recording, stats>>
    BY <1>1, <2>1, CaptureSwitched
  <2>2. CASE /\ ~failed
             /\ \/ C!LogOpen /\ recording' = TRUE
                \/ C!LogOpenFails /\ UNCHANGED recording
             /\ UNCHANGED stats
    <3>1. failed = FALSE
      BY <1>2, <2>2
    <3> QED
      BY <1>1, <2>2, <3>1, CaptureOpens
  <2>3. CASE ~NeedsOpen /\ recording' = TRUE /\ UNCHANGED <<capture, stats>>
    <3>1. file = "open"
      BY <2>3 DEF NeedsOpen
    <3> QED
      BY <1>1, <2>3, <3>1, CaptureSwitched
  <2> QED
    BY <1>3, <2>1, <2>2, <2>3 DEF RecordOn
<1>4. CASE RecordOff \/ FlushCommand
  <2>1. recording' \in {recording, FALSE}
    BY <1>4 DEF RecordOff, FlushCommand
  <2>2. FlushOrCount \/ UNCHANGED <<capture, stats>>
    BY <1>4 DEF RecordOff, FlushCommand
  <2> QED
    BY <1>1, <2>1, <2>2, CaptureFlushOrCount, CaptureSwitched
<1>5. CASE UNCHANGED <<capture, recording, stats>>
  BY <1>1, <1>5, CaptureSwitched
<1> QED
  BY <1>3, <1>4, <1>5 DEF HandleCommand

LEMMA CaptureTimers ==
    ASSUME CaptureInv, R!TypeOK, HandleTimers
    PROVE  CaptureInv'
<1>1. /\ Running /\ SweepIf("sweep" \in due) /\ now' = now /\ recording' = recording
      /\ code' = code /\ (phase' = "stopped" <=> phase = "stopped")
  BY DEF HandleTimers, RunTimers, Running
<1>2. stats \in [Counters -> Nat] /\ ("sweep" \in due) \in BOOLEAN /\ stats["writeErrors"] \in Nat
  BY DEF CaptureInv, Counters
<1>3. CASE Tally(0) /\ UNCHANGED capture
  <2>1. /\ stats' \in [Counters -> Nat]
        /\ stats'["messages"] = stats["messages"] /\ stats'["skipped"] = stats["skipped"]
        /\ stats'["writeErrors"] = stats["writeErrors"] + 0
    BY <1>1, <1>2, <1>3, SweepCounts
  <2>2. stats'["writeErrors"] = stats["writeErrors"]
    BY <1>2, <2>1
  <2> QED
    BY <1>1, <1>3, <2>1, <2>2, CaptureAlone
<1>4. CASE C!LogFlush(SyncOnFlush) /\ Tally(FlushError(FALSE))
  <2>1. Tally(0)
    BY <1>4 DEF FlushError
  <2>2. /\ stats' \in [Counters -> Nat]
        /\ stats'["messages"] = stats["messages"] /\ stats'["skipped"] = stats["skipped"]
        /\ stats'["writeErrors"] = stats["writeErrors"] + 0
    BY <1>1, <1>2, <2>1, SweepCounts
  <2>3. stats'["writeErrors"] = stats["writeErrors"]
    BY <1>2, <2>2
  <2> QED
    BY <1>1, <1>4, <2>2, <2>3, CaptureFlushes
<1>5. CASE C!LogFlushFails /\ Tally(FlushError(TRUE))
  <2>1. Tally(1)
    BY <1>5 DEF FlushError
  <2>2. /\ stats' \in [Counters -> Nat]
        /\ stats'["messages"] = stats["messages"] /\ stats'["skipped"] = stats["skipped"]
        /\ stats'["writeErrors"] = stats["writeErrors"] + 1
    BY <1>1, <1>2, <2>1, SweepCounts
  <2> QED
    BY <1>1, <1>5, <2>2, CaptureFlushFails
<1> QED
  BY <1>3, <1>4, <1>5 DEF HandleTimers

LEMMA CaptureEnd ==
    ASSUME CaptureInv, R!TypeOK, End
    PROVE  CaptureInv'
<1>1. /\ phase = "shutdown" /\ phase' = "stopped" /\ SweepIf(TRUE) /\ now' = now
      /\ recording' = recording
  BY DEF End, Finish
<1>2. stats \in [Counters -> Nat] /\ TRUE \in BOOLEAN /\ stats["writeErrors"] \in Nat
  BY DEF CaptureInv, Counters
<1>3. ASSUME Tally(0)
      PROVE  /\ stats' \in [Counters -> Nat]
             /\ stats'["messages"] = stats["messages"] /\ stats'["skipped"] = stats["skipped"]
             /\ stats'["writeErrors"] = stats["writeErrors"]
  <2>1. /\ stats' \in [Counters -> Nat]
        /\ stats'["messages"] = stats["messages"] /\ stats'["skipped"] = stats["skipped"]
        /\ stats'["writeErrors"] = stats["writeErrors"] + 0
    BY <1>1, <1>2, <1>3, SweepCounts
  <2> QED
    BY <1>2, <2>1
<1>4. ASSUME Tally(1)
      PROVE  /\ stats' \in [Counters -> Nat]
             /\ stats'["messages"] = stats["messages"] /\ stats'["skipped"] = stats["skipped"]
             /\ stats'["writeErrors"] = stats["writeErrors"] + 1
  BY <1>1, <1>2, <1>4, SweepCounts
<1>5. CASE file # "open" /\ code' = 0 /\ Tally(0) /\ UNCHANGED capture
  BY <1>1, <1>3, <1>5, CaptureEnds
<1>6. CASE C!LogClose /\ code' = 0 /\ Tally(0)
  BY <1>1, <1>3, <1>6, CaptureEnds
<1>7. CASE C!LogCloseFails /\ code' = 1 /\ Tally(1)
  BY <1>1, <1>4, <1>7, CaptureEnds
<1> QED
  BY <1>5, <1>6, <1>7 DEF End

LEMMA CaptureStep ==
    ASSUME CaptureInv, R!TypeOK, [Next]_vars
    PROVE  CaptureInv'
<1>1. stats \in [Counters -> Nat]
  BY DEF CaptureInv
<1>2. CASE UNCHANGED vars
  BY <1>1, <1>2, CaptureAlone DEF vars, loopVars
<1>3. CASE Move \/ Environment
  <2>1. UNCHANGED <<capture, recording, code, stats>>
    BY <1>3 DEF Move, Environment, handlers
  <2>2. phase' = "stopped" <=> phase = "stopped"
    BY <1>3 DEF Move, Environment, Poll, Leave, TakeEmpty, PollFails, UdpDone, CommandsDone, Turn,
                DatagramArrives, CommandArrives, Signal, Elapse, loopVars
  <2> QED
    BY <1>1, <2>1, <2>2, CaptureAlone
<1>4. ASSUME NEW d \in Packet, HandleDatagram(d) PROVE CaptureInv'
  <2>1. Running
    BY <1>4 DEF HandleDatagram, TakeDatagram, Running
  <2>2. CASE Reject(d)
    <3>1. stats' = Counting({"malformed"}) /\ UNCHANGED <<capture, recording>>
      BY <2>2 DEF Reject
    <3>2. /\ stats' \in [Counters -> Nat]
          /\ stats'["messages"] = stats["messages"] /\ stats'["skipped"] = stats["skipped"]
          /\ stats'["writeErrors"] = stats["writeErrors"]
      BY <1>1, <3>1, CountingFacts, CountsFacts
    <3> QED
      BY <2>1, <3>1, <3>2, CaptureAlone DEF Running
  <2>3. CASE Accept(d)
    <3>1. d \in Accepted
      BY <1>4, <2>3 DEF HandleDatagram, TakeDatagram, Accept, Accepted
    <3> QED
      BY <2>1, <2>3, <3>1, CaptureAccepts
  <2> QED
    BY <1>4, <2>2, <2>3 DEF HandleDatagram
<1> QED
  BY <1>2, <1>3, <1>4, CaptureCommands, CaptureTimers, CaptureEnd DEF Next

-----------------------------------------------------------------------------
(* The types of the reassembler, of the histories and of the tracker.      *)

LEMMA ReassemblerStep ==
    ASSUME R!TypeOK, StepKinds
    PROVE  R!TypeOK'
<1>1. CASE UNCHANGED reassembly /\ now' \in {now, now + 1}
  <2>1. \A k \in DOMAIN entries : EntryOK(entries[k]) /\ now \in Nat
    BY TypesOfEntries
  <2>2. \A k \in DOMAIN entries : entries[k].first_seen \in 0 .. now'
    BY <1>1, <2>1 DEF EntryOK
  <2>3. now' \in Nat
    BY <1>1, TypesOfEntries
  <2> QED
    BY <1>1, <2>2, <2>3 DEF R!TypeOK, reassembly
<1>2. Idles \/ (\E d \in Packet : Rejects(d)) => R!TypeOK'
  BY <1>1 DEF Idles, Rejects
<1>3. Sweeps => R!TypeOK'
  BY ExpireEffect DEF Sweeps
<1>4. ASSUME NEW d \in Accepted, Accepts(d) PROVE R!TypeOK'
  BY <1>4, AddTypes DEF Accepts
<1> QED
  BY <1>2, <1>3, <1>4 DEF StepKinds

LEMMA HistoryStep ==
    ASSUME HistoryOK, StepKinds
    PROVE  HistoryOK'
<1>1. Idles \/ Sweeps => HistoryOK'
  BY DEF Idles, Sweeps, SameHistory, HistoryOK
<1>2. ASSUME NEW d \in Packet, Rejects(d) PROVE HistoryOK'
  <2>1. past' = [past EXCEPT !.taken[d] = @ + 1]
    BY <1>2 DEF Rejects, Handled
  <2>2. /\ past'.taken = [past.taken EXCEPT ![d] = @ + 1]
        /\ past'.delivered = past.delivered /\ past'.first = past.first
        /\ DOMAIN past' = DOMAIN past
    BY <2>1, Zenon DEF HistoryOK
  <2>3. past'.taken \in [Packet -> Nat]
    BY <2>2 DEF HistoryOK
  <2> QED
    BY <2>2, <2>3 DEF HistoryOK
<1>3. ASSUME NEW d \in Accepted, Accepts(d) PROVE HistoryOK'
  <2>1. d \in Packet /\ d.source \in Source /\ d.sequence \in Nat
    BY AcceptedFacts
  <2>2. past'.taken \in [Packet -> Nat]
    BY <1>3, <2>1 DEF Accepts, HistoryOK
  <2>3. past'.first \in [Source -> Nat \cup {-1}]
    BY <1>3, <2>1 DEF Accepts, HistoryOK
  <2>4. IsSequence(past'.delivered)
    BY <1>3, Appended DEF Accepts, HistoryOK
  <2> QED
    BY <1>3, <2>2, <2>3, <2>4 DEF Accepts, HistoryOK
<1> QED
  BY <1>1, <1>2, <1>3 DEF StepKinds

TrackerState == [seen : BOOLEAN, last : Nat, missing : Nat, gaps : Nat, late : Nat]

\* What observe() does to the state of a source.
LEMMA ObservedFacts ==
    ASSUME NEW s \in TrackerState, NEW n \in Nat
    PROVE  /\ Observed(s, n) \in TrackerState
           /\ Observed(s, n).seen = TRUE
           /\ Observed(s, n).missing = s.missing + Missing(s, n) /\ Missing(s, n) \in Nat
           /\ ~s.seen => Observed(s, n).last = n /\ Missing(s, n) = 0
           /\ s.seen => \/ Observed(s, n).last = n /\ n <= s.last + 1 /\ Missing(s, n) = 0
                        \/ Observed(s, n).last = s.last /\ n <= s.last /\ Missing(s, n) = 0
                        \/ Observed(s, n).last = n /\ n > s.last + 1
                           /\ Missing(s, n) = n - (s.last + 1)
<1>1. /\ s.seen \in BOOLEAN /\ s.last \in Nat /\ s.missing \in Nat /\ s.gaps \in Nat
      /\ s.late \in Nat
  BY DEF TrackerState
<1>2. /\ Missing(s, n) \in Nat
      /\ ~s.seen => NextLast(s, n) = n /\ Missing(s, n) = 0
      /\ s.seen => \/ NextLast(s, n) = n /\ n <= s.last + 1 /\ Missing(s, n) = 0
                   \/ NextLast(s, n) = s.last /\ n <= s.last /\ Missing(s, n) = 0
                   \/ NextLast(s, n) = n /\ n > s.last + 1 /\ Missing(s, n) = n - (s.last + 1)
  <2>1. CASE ~s.seen
    <3>1. Outcome(s, n) = "First"
      BY <2>1, <1>1 DEF Outcome
    <3> QED
      BY <2>1, <3>1 DEF Missing, NextLast
  <2>2. CASE s.seen /\ n = s.last + 1
    <3>1. Outcome(s, n) = "InOrder"
      BY <2>2, <1>1 DEF Outcome
    <3> QED
      BY <1>1, <2>2, <3>1 DEF Missing, NextLast
  <2>3. CASE s.seen /\ n > s.last + 1
    <3>1. Outcome(s, n) = "Gap"
      BY <2>3, <1>1 DEF Outcome
    <3> QED
      BY <1>1, <2>3, <3>1 DEF Missing, NextLast
  <2>4. CASE s.seen /\ n <= s.last
    <3>1. Outcome(s, n) = "OutOfOrder"
      BY <2>4, <1>1 DEF Outcome
    <3> QED
      BY <1>1, <2>4, <3>1 DEF Missing, NextLast
  <2> QED
    BY <1>1, <2>1, <2>2, <2>3, <2>4
<1>3. /\ Observed(s, n).seen = TRUE /\ Observed(s, n).last = NextLast(s, n)
      /\ Observed(s, n).missing = s.missing + Missing(s, n)
  BY DEF Observed
<1>4. NextLast(s, n) \in Nat
  BY <1>1, <1>2
<1>5. Observed(s, n) \in TrackerState
  <2>1. s.missing + Missing(s, n) \in Nat
    BY <1>1, <1>2
  <2> QED
    BY <1>1, <1>4, <2>1 DEF Observed, TrackerState
<1> QED
  BY <1>2, <1>3, <1>5

\* The first number of a source is known before the last fragment of a message
\* arrives.
LEMMA FirstKept ==
    ASSUME HistoryOK, TrackerOK, NEW d \in Accepted, Accepts(d), AddsTo(d), ~ret'.new_message
    PROVE  past'.first = past.first
<1>1. CASE ret'.result = "Complete"
  <2>1. R!Key(d) \in DOMAIN entries
    BY <1>1 DEF AddsTo
  <2>2. R!Key(d) = <<d.source, d.sequence>> /\ d.source \in Source
    BY AcceptedFacts
  <2>3. past.first[d.source] # -1
    BY <2>1, <2>2 DEF TrackerOK
  <2>4. past'.first = [past.first EXCEPT ![d.source] = past.first[d.source]]
    BY <1>1, <2>3 DEF Accepts
  <2> QED
    BY <2>2, <2>4 DEF HistoryOK
<1>2. CASE ret'.result # "Complete"
  BY <1>2 DEF Accepts
<1> QED
  BY <1>1, <1>2

LEMMA TrackerStep ==
    ASSUME R!TypeOK, HistoryOK, TrackerOK, StepKinds
    PROVE  TrackerOK'
<1>1. /\ tracker \in [Source -> TrackerState]
      /\ \A s \in Source : tracker[s].seen <=> past.first[s] # -1
      /\ \A k \in DOMAIN entries : tracker[k[1]].seen
  BY DEF TrackerOK, TrackerState
<1>2. ASSUME tracker' \in [Source -> TrackerState],
             \A s \in Source : tracker'[s].seen <=> past'.first[s] # -1,
             \A k \in DOMAIN entries' : tracker'[k[1]].seen
      PROVE  TrackerOK'
  BY <1>2 DEF TrackerOK, TrackerState
<1>3. Idles \/ (\E d \in Packet : Rejects(d)) => TrackerOK'
  <2>1. ASSUME NEW d \in Packet, past' = Handled(d) PROVE past'.first = past.first
    BY <2>1 DEF Handled, HistoryOK
  <2> QED
    BY <1>1, <1>2, <2>1 DEF Idles, Rejects, SameHistory, reassembly
<1>4. Sweeps => TrackerOK'
  BY <1>1, <1>2, ExpireEffect DEF Sweeps, SameHistory
<1>5. ASSUME NEW d \in Accepted, Accepts(d) PROVE TrackerOK'
  <2>1. d.source \in Source /\ d.sequence \in Nat /\ R!Key(d) = <<d.source, d.sequence>>
    BY AcceptedFacts
  <2>2. ret'.new_message \in BOOLEAN /\ AddsTo(d)
    BY <1>5, AddReturns, AddEffect DEF Accepts
  <2>3. DOMAIN past.first = Source
    BY DEF HistoryOK
  <2>4. CASE ret'.new_message
    <3> DEFINE o == Observed(tracker[d.source], d.sequence)
    <3>1. o \in TrackerState /\ o.seen
      BY <1>1, <2>1, ObservedFacts
    <3>2. tracker' = [tracker EXCEPT ![d.source] = o]
      BY <1>5, <2>4 DEF Accepts
    <3>3. past'.first = [past.first EXCEPT ![d.source] = IF @ = -1 THEN d.sequence ELSE @]
      BY <1>5, <2>4 DEF Accepts
    <3> HIDE DEF o
    <3>4. /\ tracker' \in [Source -> TrackerState] /\ tracker'[d.source] = o
          /\ \A s \in Source : s # d.source => tracker'[s] = tracker[s]
      BY <1>1, <2>1, <3>1, <3>2
    <3>5. /\ past'.first[d.source] # -1
          /\ \A s \in Source : s # d.source => past'.first[s] = past.first[s]
      BY <2>1, <2>3, <3>3
    <3>6. \A s \in Source : tracker'[s].seen <=> past'.first[s] # -1
      BY <1>1, <3>1, <3>4, <3>5
    <3>7. \A k \in DOMAIN entries' : tracker'[k[1]].seen
      <4>1. DOMAIN entries' \subseteq DOMAIN entries \cup {R!Key(d)}
        BY <2>2 DEF AddsTo, Keeps, Inserts, Erases
      <4>2. \A k \in DOMAIN entries : k[1] \in Source
        BY TypesOfEntries, KeyFacts
      <4>3. \A k \in DOMAIN entries : tracker'[k[1]].seen
        BY <1>1, <3>1, <3>4, <4>2
      <4>4. tracker'[R!Key(d)[1]].seen
        BY <2>1, <3>1, <3>4
      <4> QED
        BY <4>1, <4>3, <4>4
    <3> QED
      BY <1>2, <3>4, <3>6, <3>7
  <2>5. CASE ~ret'.new_message
    <3>1. DOMAIN entries' \subseteq DOMAIN entries
      BY <2>2, <2>5 DEF AddsTo, Keeps, Erases
    <3>2. tracker' = tracker
      BY <1>5, <2>5 DEF Accepts
    <3>3. past'.first = past.first
      BY <1>5, <2>2, <2>5, FirstKept
    <3> QED
      BY <1>1, <1>2, <3>1, <3>2, <3>3
  <2> QED
    BY <2>2, <2>4, <2>5
<1> QED
  BY <1>3, <1>4, <1>5 DEF StepKinds

-----------------------------------------------------------------------------
(* Bytes are used as often as they arrived.                                *)

\* The step hands over bytes of d.
HandsOver(d) == ret'.result = "Complete" /\ Uses(ret'.out, d)

\* What is handed over or held after add(h) is what was held before, or the
\* bytes of h; never both from one of them.
LEMMA BytesMove ==
    ASSUME R!TypeOK, NEW h \in Accepted, NEW d \in Accepted, R!Add(h)
    PROVE  /\ Held(d)' \/ HandsOver(d) => Held(d) \/ SameBytes(h, d)
           /\ Held(d)' /\ HandsOver(d) => Held(d) /\ SameBytes(h, d)
<1>1. h.count \in Nat \ {0} /\ h.index \in 0 .. h.count - 1 /\ R!Key(h) = <<h.source, h.sequence>>
  BY AcceptedFacts
<1>2. CASE R!FastPath(h)
  <2>1. Held(d)' <=> Held(d)
    BY <1>2 DEF R!FastPath, Held
  <2>2. ret'.out = [source |-> h.source, sequence |-> h.sequence,
                    timestamp |-> h.timestamp, data |-> [i \in {0} |-> h.body]]
    BY <1>2 DEF R!FastPath, R!Return
  <2>3. h.index = 0
    BY <1>1, <1>2 DEF R!FastPath
  <2>4. HandsOver(d) => SameBytes(h, d)
    BY <1>1, <2>2, <2>3 DEF HandsOver, Uses, SameBytes
  <2> QED
    BY <2>1, <2>4
<1>3. CASE R!TooLong(h) \/ R!Repeat(h)
  <2>1. (Held(d)' <=> Held(d)) /\ ~HandsOver(d)
    BY <1>3 DEF R!TooLong, R!Repeat, R!Return, Held, HandsOver
  <2> QED
    BY <2>1
<1>4. CASE R!Open(h)
  <2>1. PICK i \in 0 .. Len(order) :
          entries' = [k \in (DOMAIN entries \ R!Popped(i)) \cup {R!Key(h)} |->
                         IF k = R!Key(h) THEN R!NewEntry(h) ELSE entries[k]]
    BY <1>4 DEF R!Open
  <2>2. ~HandsOver(d)
    BY <1>4 DEF R!Open, R!Return, HandsOver
  <2>3. CASE R!Key(d) = R!Key(h)
    <3>1. Held(d)' => entries'[R!Key(d)] = R!NewEntry(h)
      BY <2>1, <2>3 DEF Held
    <3>2. R!NewEntry(h).buffer = [j \in {h.index} |-> h.body]
      BY DEF R!NewEntry
    <3>3. Held(d)' => d.index \in {h.index} /\ [j \in {h.index} |-> h.body][d.index] = d.body
      BY <3>1, <3>2 DEF Held
    <3> QED
      BY <2>2, <2>3, <3>3 DEF SameBytes
  <2>4. CASE R!Key(d) # R!Key(h)
    <3>1. Held(d)' => R!Key(d) \in DOMAIN entries /\ entries'[R!Key(d)] = entries[R!Key(d)]
      BY <2>1, <2>4 DEF Held
    <3> QED
      BY <2>2, <3>1 DEF Held
  <2> QED
    BY <2>3, <2>4
<1>5. CASE R!Drop(h)
  <2>1. entries' = R!Without({R!Key(h)}) /\ ~HandsOver(d)
    BY <1>5 DEF R!Drop, R!Return, HandsOver
  <2>2. Held(d)' => Held(d)
    BY <2>1 DEF R!Without, Held
  <2> QED
    BY <2>1, <2>2
<1>6. CASE R!Store(h)
  <2> DEFINE e == entries[R!Key(h)]
             b == R!Filled(e, h)
  <2>1. entries' = [entries EXCEPT ![R!Key(h)].buffer = b] /\ R!Key(h) \in DOMAIN entries
    BY <1>6 DEF R!Store, R!Known
  <2>2. ~HandsOver(d)
    BY <1>6 DEF R!Store, R!Return, HandsOver
  <2>3. b = [i \in DOMAIN e.buffer \cup {h.index} |->
                IF i = h.index THEN h.body ELSE e.buffer[i]]
    BY DEF R!Filled
  <2>4. CASE R!Key(d) = R!Key(h)
    <3>1. Held(d)' => d.index \in DOMAIN b /\ b[d.index] = d.body
      <4>1. DOMAIN e = {"first_seen", "timestamp", "count", "length", "buffer"}
        BY <2>1, TypesOfEntries DEF EntryOK
      <4> HIDE DEF b, e
      <4>2. entries'[R!Key(h)] = [e EXCEPT !.buffer = b]
        BY <2>1 DEF e
      <4>3. entries'[R!Key(h)].buffer = b
        BY <4>1, <4>2, Zenon
      <4> QED
        BY <2>4, <4>3 DEF Held
    <3>2. d.index # h.index /\ Held(d)' => Held(d)
      BY <2>1, <2>3, <2>4, <3>1 DEF Held
    <3>3. d.index = h.index /\ Held(d)' => SameBytes(h, d)
      BY <2>3, <2>4, <3>1 DEF SameBytes
    <3> QED
      BY <2>2, <3>2, <3>3
  <2>5. CASE R!Key(d) # R!Key(h)
    <3>1. Held(d)' => R!Key(d) \in DOMAIN entries /\ entries'[R!Key(d)] = entries[R!Key(d)]
      BY <2>1, <2>5 DEF Held
    <3> QED
      BY <2>2, <3>1 DEF Held
  <2> QED
    BY <2>4, <2>5
<1>7. CASE R!Complete(h)
  <2> DEFINE e == entries[R!Key(h)]
             b == R!Filled(e, h)
  <2>1. /\ entries' = R!Without({R!Key(h)}) /\ R!Key(h) \in DOMAIN entries
        /\ ret' = R!Return("Complete", FALSE,
                           [source |-> h.source, sequence |-> h.sequence,
                            timestamp |-> e.timestamp, data |-> b])
    BY <1>7 DEF R!Complete, R!Known
  <2>2. b = [i \in DOMAIN e.buffer \cup {h.index} |->
                IF i = h.index THEN h.body ELSE e.buffer[i]]
    BY DEF R!Filled
  <2>3. Held(d)' => Held(d) /\ R!Key(d) # R!Key(h)
    BY <2>1 DEF R!Without, Held
  <2>4. HandsOver(d) => R!Key(d) = R!Key(h) /\ d.index \in DOMAIN b /\ b[d.index] = d.body
    <3> HIDE DEF b, e
    <3>1. /\ ret'.out.source = h.source /\ ret'.out.sequence = h.sequence
          /\ ret'.out.data = b
      BY <2>1 DEF R!Return
    <3> QED
      BY <1>1, <3>1 DEF HandsOver, Uses
  <2>5. HandsOver(d) /\ d.index # h.index => Held(d)
    BY <2>1, <2>2, <2>4 DEF Held
  <2>6. HandsOver(d) /\ d.index = h.index => SameBytes(h, d)
    BY <2>2, <2>4 DEF SameBytes
  <2> QED
    BY <2>3, <2>4, <2>5, <2>6
<1> QED
  BY <1>2, <1>3, <1>4, <1>5, <1>6, <1>7 DEF R!Add

LEMMA SameSum == \A f : SumOf(f) = Total(f)
BY DEF SumOf, Total

\* The datagrams that bring the bytes of d.
LEMMA ArrivedFacts ==
    ASSUME HistoryOK, NEW d \in Accepted
    PROVE  /\ Arrived(d) \in Nat
           /\ IsFiniteSet({e \in Accepted : SameBytes(e, d)})
           /\ [e \in {e \in Accepted : SameBytes(e, d)} |-> past.taken[e]]
                \in [{e \in Accepted : SameBytes(e, d)} -> Nat]
           /\ Arrived(d) = Total([e \in {e \in Accepted : SameBytes(e, d)} |-> past.taken[e]])
<1> DEFINE S == {e \in Accepted : SameBytes(e, d)}
           f == [e \in S |-> past.taken[e]]
<1>1. IsFiniteSet(S)
  BY FiniteSources, FS_Subset
<1>2. f \in [S -> Nat]
  BY FiniteSources DEF HistoryOK
<1>3. Arrived(d) = Total(f)
  BY SameSum DEF Arrived
<1>4. Total(f) \in Nat
  <2> HIDE DEF S, f
  <2> QED
    BY <1>1, <1>2, TotalType
<1> QED
  BY <1>1, <1>2, <1>3, <1>4

LEMMA ArrivedGrows ==
    ASSUME HistoryOK, NEW h \in Accepted, NEW d \in Accepted,
           past'.taken = [past.taken EXCEPT ![h] = @ + 1]
    PROVE  Arrived(d)' = Arrived(d) + (IF SameBytes(h, d) THEN 1 ELSE 0)
<1> DEFINE S == {e \in Accepted : SameBytes(e, d)}
           f == [e \in S |-> past.taken[e]]
           g == [e \in S |-> past'.taken[e]]
<1>1. /\ IsFiniteSet(S) /\ f \in [S -> Nat] /\ Arrived(d) = Total(f) /\ Arrived(d) \in Nat
  BY ArrivedFacts
<1>2. Arrived(d)' = Total(g)
  BY SameSum DEF Arrived
<1>3. h \in Packet /\ past.taken \in [Packet -> Nat] /\ S \subseteq Packet
  BY FiniteSources DEF HistoryOK
<1>4. CASE SameBytes(h, d)
  <2>1. h \in S
    BY <1>4
  <2>2. /\ g \in [S -> Nat] /\ f[h] \in Nat /\ g[h] = f[h] + 1
        /\ \A e \in S : e # h => g[e] = f[e]
    BY <1>3, <2>1
  <2>3. Total(g) = Total(f) - f[h] + g[h] /\ Total(f) \in Nat
    <3> HIDE DEF S, f, g
    <3> QED
      BY <1>1, <2>1, <2>2, TotalDiffers
  <2> HIDE DEF f, g
  <2> QED
    BY <1>1, <1>2, <1>4, <2>2, <2>3
<1>5. CASE ~SameBytes(h, d)
  <2>1. h \notin S
    BY <1>5
  <2>2. g = f
    BY <1>3, <2>1
  <2> HIDE DEF f, g
  <2> QED
    BY <1>1, <1>2, <1>5, <2>2
<1> QED
  BY <1>4, <1>5

LEMMA UsesFacts ==
    ASSUME HistoryOK, NEW d
    PROVE  IsFiniteSet(UsesOf(d)) /\ Cardinality(UsesOf(d)) \in Nat
<1>1. Len(past.delivered) \in Nat /\ DOMAIN past.delivered = 1 .. Len(past.delivered)
  BY Sequences DEF HistoryOK
<1>2. IsFiniteSet(1 .. Len(past.delivered))
  BY <1>1, FS_Interval
<1>3. UsesOf(d) \subseteq 1 .. Len(past.delivered)
  BY <1>1 DEF UsesOf
<1> QED
  BY <1>2, <1>3, FS_Subset, FS_CardinalityType

LEMMA UsesGrow ==
    ASSUME HistoryOK, NEW d,
           past'.delivered = IF ret'.result = "Complete" THEN Append(past.delivered, ret'.out)
                             ELSE past.delivered
    PROVE  Cardinality(UsesOf(d)') = Cardinality(UsesOf(d)) + (IF HandsOver(d) THEN 1 ELSE 0)
<1> DEFINE n == Len(past.delivered)
           D == past.delivered
<1>1. n \in Nat /\ DOMAIN D = 1 .. n
  BY Sequences DEF HistoryOK
<1>2. IsFiniteSet(UsesOf(d)) /\ Cardinality(UsesOf(d)) \in Nat
  BY UsesFacts
<1>3. CASE ret'.result = "Complete"
  <2>1. /\ DOMAIN past'.delivered = 1 .. n + 1
        /\ \A i \in 1 .. n : past'.delivered[i] = D[i]
        /\ past'.delivered[n + 1] = ret'.out
    BY <1>3, Appended DEF HistoryOK
  <2>2. UsesOf(d)' = {i \in DOMAIN past'.delivered : Uses(past'.delivered[i], d)}
    BY DEF UsesOf, Uses
  <2>3. UsesOf(d) = {i \in 1 .. n : Uses(D[i], d)}
    BY <1>1 DEF UsesOf
  <2> HIDE DEF n, D
  <2>4. CASE HandsOver(d)
    <3>1. UsesOf(d)' = UsesOf(d) \cup {n + 1} /\ n + 1 \notin UsesOf(d)
      BY <1>1, <2>1, <2>2, <2>3, <2>4 DEF HandsOver
    <3> QED
      BY <1>2, <2>4, <3>1, FS_AddElement
  <2>5. CASE ~HandsOver(d)
    <3>1. UsesOf(d)' = UsesOf(d)
      BY <1>1, <1>3, <2>1, <2>2, <2>3, <2>5 DEF HandsOver
    <3> QED
      BY <1>2, <2>5, <3>1
  <2> QED
    BY <2>4, <2>5
<1>4. CASE ret'.result # "Complete"
  <2>1. UsesOf(d)' = UsesOf(d) /\ ~HandsOver(d)
    BY <1>4 DEF UsesOf, Uses, HandsOver
  <2> QED
    BY <1>2, <2>1
<1> QED
  BY <1>3, <1>4

LEMMA BytesStep ==
    ASSUME R!TypeOK, HistoryOK, BytesHeld, StepKinds
    PROVE  BytesHeld'
<1> SUFFICES ASSUME NEW d \in Accepted
             PROVE  Cardinality(UsesOf(d)') + (IF Held(d)' THEN 1 ELSE 0) <= Arrived(d)'
  BY DEF BytesHeld
<1>1. /\ Cardinality(UsesOf(d)) + (IF Held(d) THEN 1 ELSE 0) <= Arrived(d)
      /\ Cardinality(UsesOf(d)) \in Nat /\ Arrived(d) \in Nat
  BY UsesFacts, ArrivedFacts DEF BytesHeld
<1>2. ASSUME Cardinality(UsesOf(d)') = Cardinality(UsesOf(d)), Arrived(d)' = Arrived(d),
             Held(d)' => Held(d)
      PROVE  Cardinality(UsesOf(d)') + (IF Held(d)' THEN 1 ELSE 0) <= Arrived(d)'
  BY <1>1, <1>2
<1>3. ASSUME SameHistory, \/ entries' = entries
                          \/ /\ DOMAIN entries' \subseteq DOMAIN entries
                             /\ \A k \in DOMAIN entries' : entries'[k] = entries[k]
      PROVE  Cardinality(UsesOf(d)') + (IF Held(d)' THEN 1 ELSE 0) <= Arrived(d)'
  <2>1. UsesOf(d)' = UsesOf(d)
    BY <1>3 DEF SameHistory, UsesOf, Uses
  <2>3. Arrived(d)' = Arrived(d)
    BY <1>3 DEF SameHistory, Arrived
  <2>2. Held(d)' => Held(d)
    BY <1>3 DEF Held
  <2> QED
    BY <1>2, <2>1, <2>2, <2>3
<1>4. CASE Idles
  BY <1>3, <1>4 DEF Idles, reassembly
<1>5. CASE Sweeps
  BY <1>3, <1>5, ExpireEffect DEF Sweeps
<1>6. ASSUME NEW h \in Packet, Rejects(h)
      PROVE  Cardinality(UsesOf(d)') + (IF Held(d)' THEN 1 ELSE 0) <= Arrived(d)'
  <2>1. past'.taken = [past.taken EXCEPT ![h] = @ + 1] /\ past'.delivered = past.delivered
    BY <1>6 DEF Rejects, Handled, HistoryOK
  <2>2. \A e \in Accepted : past'.taken[e] = past.taken[e]
    BY <1>6, <2>1, FiniteSources DEF Rejects, HistoryOK
  <2>3. [e \in {e \in Accepted : SameBytes(e, d)} |-> past'.taken[e]]
          = [e \in {e \in Accepted : SameBytes(e, d)} |-> past.taken[e]]
    BY <2>2
  <2>4. Arrived(d)' = Arrived(d)
    BY <2>3 DEF Arrived
  <2>5. UsesOf(d)' = UsesOf(d)
    BY <2>1 DEF UsesOf, Uses
  <2>6. Held(d)' => Held(d)
    BY <1>6 DEF Rejects, reassembly, Held
  <2> QED
    BY <1>2, <2>4, <2>5, <2>6
<1>7. ASSUME NEW h \in Accepted, Accepts(h)
      PROVE  Cardinality(UsesOf(d)') + (IF Held(d)' THEN 1 ELSE 0) <= Arrived(d)'
  <2>1. Arrived(d)' = Arrived(d) + (IF SameBytes(h, d) THEN 1 ELSE 0)
    BY <1>7, ArrivedGrows DEF Accepts
  <2>2. Cardinality(UsesOf(d)') = Cardinality(UsesOf(d)) + (IF HandsOver(d) THEN 1 ELSE 0)
    BY <1>7, UsesGrow DEF Accepts
  <2>3. /\ Held(d)' \/ HandsOver(d) => Held(d) \/ SameBytes(h, d)
        /\ Held(d)' /\ HandsOver(d) => Held(d) /\ SameBytes(h, d)
    BY <1>7, BytesMove DEF Accepts
  <2> QED
    BY <1>1, <2>1, <2>2, <2>3
<1> QED
  BY <1>4, <1>5, <1>6, <1>7 DEF StepKinds

-----------------------------------------------------------------------------
(* What was followed and not delivered shows.                              *)

\* In words of one number of one source.
LEMMA UndeliveredIs ==
    \A s, n : <<s, n>> \in Undelivered <=> s \in Source /\ n \in Followed(s) /\ ~Delivered(s, n)
BY DEF Undelivered

LEMMA UndeliveredPairs ==
    \A p \in Undelivered : p[1] \in Source /\ p = <<p[1], p[2]>>
BY DEF Undelivered

LEMMA MissingFacts ==
    ASSUME TrackerOK
    PROVE  /\ MissingInAll = Total([s \in Source |-> tracker[s].missing])
           /\ [s \in Source |-> tracker[s].missing] \in [Source -> Nat]
           /\ MissingInAll \in Nat
<1> DEFINE f == [s \in Source |-> tracker[s].missing]
<1>1. MissingInAll = Total(f)
  BY SameSum DEF MissingInAll
<1>2. f \in [Source -> Nat]
  BY DEF TrackerOK
<1>3. Total(f) \in Nat
  <2> HIDE DEF f
  <2> QED
    BY <1>2, FiniteSources, TotalType
<1> QED
  BY <1>1, <1>2, <1>3

\* What a fragment that opens a message, or is one, adds to what is followed:
\* its number, and the numbers it skips, which are counted as missing.
LEMMA FollowedGrows ==
    ASSUME HistoryOK, TrackerOK, NEW h \in Accepted,
           tracker' = [tracker EXCEPT ![h.source] = Observed(@, h.sequence)],
           past'.first = [past.first EXCEPT ![h.source] = IF @ = -1 THEN h.sequence ELSE @]
    PROVE  \E gap \in SUBSET Nat :
              /\ IsFiniteSet(gap)
              /\ MissingInAll' = MissingInAll + Cardinality(gap)
              /\ Followed(h.source)' \subseteq Followed(h.source) \cup gap \cup {h.sequence}
              /\ \A s \in Source : s # h.source => Followed(s)' = Followed(s)
<1> DEFINE a == h.source
           n == h.sequence
           t == tracker[a]
           o == Observed(t, n)
           m == Missing(t, n)
           F == past.first[a]
<1>1. a \in Source /\ n \in Nat
  BY AcceptedFacts
<1>2. t \in TrackerState /\ (t.seen <=> F # -1) /\ F \in Nat \cup {-1} /\ t.last \in Nat
      /\ t.seen \in BOOLEAN
  BY <1>1 DEF TrackerOK, HistoryOK, TrackerState
<1>3. /\ o \in TrackerState /\ o.seen /\ o.missing = t.missing + m /\ m \in Nat
      /\ ~t.seen => o.last = n /\ m = 0
      /\ t.seen => \/ o.last = n /\ n <= t.last + 1 /\ m = 0
                   \/ o.last = t.last /\ n <= t.last /\ m = 0
                   \/ o.last = n /\ n > t.last + 1 /\ m = n - (t.last + 1)
  <2> HIDE DEF t
  <2> QED
    BY <1>1, <1>2, ObservedFacts
<1>4. /\ tracker'[a] = o /\ \A s \in Source : s # a => tracker'[s] = tracker[s]
      /\ past'.first[a] = IF t.seen THEN F ELSE n
      /\ \A s \in Source : s # a => past'.first[s] = past.first[s]
  BY <1>1, <1>2 DEF TrackerOK, HistoryOK
<1>5. \A s \in Source : s # a => Followed(s)' = Followed(s)
  BY <1>4 DEF Followed
<1>6. MissingInAll' = MissingInAll + m
  <2> DEFINE f == [s \in Source |-> tracker[s].missing]
             g == [s \in Source |-> tracker'[s].missing]
  <2>1. MissingInAll = Total(f) /\ f \in [Source -> Nat]
    BY MissingFacts
  <2>2. MissingInAll' = Total(g)
    BY SameSum DEF MissingInAll
  <2>3. /\ f[a] \in Nat /\ g[a] = f[a] + m
        /\ \A s \in Source : s # a => g[s] = f[s]
    BY <1>1, <1>2, <1>3, <1>4 DEF TrackerState
  <2>4. g \in [Source -> Nat]
    BY <1>1, <1>3, <2>1, <2>3
  <2>5. IsFiniteSet(Source)
    BY FiniteSources
  <2> HIDE DEF f, g, a, m
  <2>6. Total(g) = Total(f) - f[a] + g[a] /\ Total(f) \in Nat
    BY <1>1, <2>1, <2>3, <2>4, <2>5, TotalDiffers
  <2> QED
    BY <1>3, <2>1, <2>2, <2>3, <2>6
<1>7. Followed(a) = IF t.seen THEN F .. t.last ELSE {}
  BY DEF Followed
<1>8. Followed(a)' = (IF t.seen THEN F ELSE n) .. o.last
  BY <1>3, <1>4 DEF Followed
<1> HIDE DEF t, o, m, F, n
<1>9. CASE m = 0
  <2>1. Followed(a)' \subseteq Followed(a) \cup {} \cup {n}
    <3>1. CASE ~t.seen
      BY <1>1, <1>3, <1>8, <3>1
    <3>2. CASE t.seen
      BY <1>1, <1>2, <1>3, <1>7, <1>8, <1>9, <3>2
    <3> QED
      BY <1>2, <3>1, <3>2
  <2>2. IsFiniteSet({}) /\ Cardinality({}) = 0 /\ {} \in SUBSET Nat
    BY FS_EmptySet
  <2>3. MissingInAll' = MissingInAll + 0
    BY <1>6, <1>9
  <2> QED
    BY <1>5, <2>1, <2>2, <2>3 DEF a, n
<1>10. CASE m # 0
  <2> DEFINE gap == t.last + 1 .. n - 1
  <2>1. t.seen /\ o.last = n /\ n > t.last + 1 /\ m = n - (t.last + 1)
    BY <1>2, <1>3, <1>10
  <2>2. IsFiniteSet(gap) /\ Cardinality(gap) = m /\ gap \in SUBSET Nat
    <3>1. t.last + 1 \in Int /\ n - 1 \in Int
      BY <1>1, <1>2
    <3>2. Cardinality(gap) = (n - 1) - (t.last + 1) + 1
      <4> DEFINE i == t.last + 1
                 j == n - 1
      <4>1. i \in Int /\ j \in Int /\ ~(i > j)
        BY <1>1, <1>2, <2>1
      <4> HIDE DEF i, j
      <4>2. Cardinality(i .. j) = j - i + 1
        BY <4>1, FS_Interval
      <4> QED
        BY <4>2 DEF i, j
    <3>3. (n - 1) - (t.last + 1) + 1 = m
      BY <1>1, <1>2, <2>1
    <3>4. gap \in SUBSET Nat
      BY <1>1, <1>2
    <3> QED
      BY <3>1, <3>2, <3>3, <3>4, FS_Interval
  <2>3. Followed(a)' \subseteq Followed(a) \cup gap \cup {n}
    BY <1>1, <1>2, <1>7, <1>8, <2>1
  <2> HIDE DEF gap
  <2> QED
    BY <1>5, <1>6, <2>2, <2>3 DEF a, n
<1> QED
  BY <1>9, <1>10

\* The messages that were delivered stay so.
LEMMA DeliveredGrows ==
    ASSUME HistoryOK, NEW h \in Accepted, Accepts(h), AddsTo(h)
    PROVE  /\ \A s, n : Delivered(s, n) => Delivered(s, n)'
           /\ ret'.result = "Complete" => Delivered(h.source, h.sequence)'
<1>1. CASE ret'.result = "Complete"
  <2>1. /\ past'.delivered = Append(past.delivered, ret'.out)
        /\ ret'.out.source = h.source /\ ret'.out.sequence = h.sequence
    BY <1>1 DEF Accepts, AddsTo, ReturnsOut
  <2>2. /\ DOMAIN past'.delivered = 1 .. Len(past.delivered) + 1
        /\ \A i \in 1 .. Len(past.delivered) : past'.delivered[i] = past.delivered[i]
        /\ past'.delivered[Len(past.delivered) + 1] = ret'.out
        /\ DOMAIN past.delivered = 1 .. Len(past.delivered) /\ Len(past.delivered) \in Nat
    BY <2>1, Appended, Sequences DEF HistoryOK
  <2>3. ASSUME NEW s, NEW n, Delivered(s, n) PROVE Delivered(s, n)'
    BY <2>2, <2>3 DEF Delivered
  <2>4. Delivered(h.source, h.sequence)'
    BY <2>1, <2>2 DEF Delivered
  <2> QED
    BY <2>3, <2>4
<1>2. CASE ret'.result # "Complete"
  BY <1>2 DEF Accepts, Delivered
<1> QED
  BY <1>1, <1>2

\* What a fragment adds to what was not delivered.
LEMMA UndeliveredGrows ==
    ASSUME R!TypeOK, HistoryOK, TrackerOK, NEW h \in Accepted, Accepts(h)
    PROVE  \E G : /\ IsFiniteSet(G)
                  /\ MissingInAll \in Nat /\ MissingInAll' \in Nat
                  /\ Cardinality(G) <= MissingInAll' - MissingInAll
                  /\ Undelivered' \subseteq Undelivered \cup G \cup
                                            (IF ret'.new_message THEN {R!Key(h)} ELSE {})
                  /\ ret'.result = "Complete" => R!Key(h) \notin Undelivered'
<1>1. AddsTo(h) /\ ret'.new_message \in BOOLEAN
  BY AddEffect, AddReturns DEF Accepts
<1>2. /\ h.source \in Source /\ h.sequence \in Nat /\ R!Key(h) = <<h.source, h.sequence>>
  BY AcceptedFacts
<1>3. /\ \A s, n : Delivered(s, n) => Delivered(s, n)'
      /\ ret'.result = "Complete" => Delivered(h.source, h.sequence)'
  BY <1>1, DeliveredGrows
<1>4. \A s, n : <<s, n>> \in Undelivered' <=> s \in Source /\ n \in Followed(s)' /\ ~Delivered(s, n)'
  BY DEF Undelivered
<1>5. ret'.result = "Complete" => R!Key(h) \notin Undelivered'
  BY <1>2, <1>3, <1>4
<1>6. \A p \in Undelivered' : p[1] \in Source /\ p = <<p[1], p[2]>>
  BY DEF Undelivered
<1>7. CASE ret'.new_message
  <2>1. /\ tracker' = [tracker EXCEPT ![h.source] = Observed(@, h.sequence)]
        /\ past'.first = [past.first EXCEPT ![h.source] = IF @ = -1 THEN h.sequence ELSE @]
    BY <1>7 DEF Accepts
  <2>2. PICK gap \in SUBSET Nat :
              /\ IsFiniteSet(gap)
              /\ MissingInAll' = MissingInAll + Cardinality(gap)
              /\ Followed(h.source)' \subseteq Followed(h.source) \cup gap \cup {h.sequence}
              /\ \A s \in Source : s # h.source => Followed(s)' = Followed(s)
    BY <2>1, FollowedGrows
  <2> DEFINE G == {<<h.source, n>> : n \in gap}
  <2>3. IsFiniteSet(G) /\ Cardinality(G) <= Cardinality(gap) /\ Cardinality(gap) \in Nat
    <3> DEFINE f == [n \in gap |-> <<h.source, n>>]
    <3>1. f \in Surjection(gap, G)
      BY DEF Surjection
    <3> HIDE DEF f, G
    <3> QED
      BY <2>2, <3>1, FS_Surjection, FS_CardinalityType
  <2>4. Undelivered' \subseteq Undelivered \cup G \cup {R!Key(h)}
    <3> SUFFICES ASSUME NEW p \in Undelivered', p # R!Key(h), p \notin G
                 PROVE  p \in Undelivered
      OBVIOUS
    <3> DEFINE s == p[1]
               n == p[2]
    <3>1. s \in Source /\ p = <<s, n>>
      BY <1>6
    <3> HIDE DEF s, n
    <3>2. n \in Followed(s)' /\ ~Delivered(s, n)'
      BY <1>4, <3>1
    <3>3. ~Delivered(s, n)
      BY <1>3, <3>2
    <3>4. n \in Followed(s)
      BY <1>2, <2>2, <3>1, <3>2
    <3> QED
      BY <3>1, <3>3, <3>4, UndeliveredIs
  <2>5. MissingInAll \in Nat
    BY MissingFacts
  <2> HIDE DEF G
  <2>6. Cardinality(G) <= MissingInAll' - MissingInAll /\ MissingInAll' \in Nat
    <3>1. Cardinality(G) \in Nat
      BY <2>3, FS_CardinalityType
    <3> QED
      BY <2>2, <2>3, <2>5, <3>1
  <2> QED
    BY <1>5, <1>7, <2>3, <2>4, <2>5, <2>6
<1>8. CASE ~ret'.new_message
  <2>1. tracker' = tracker
    BY <1>8 DEF Accepts
  <2>2. past'.first = past.first
    BY <1>1, <1>8, FirstKept
  <2>3. MissingInAll' = MissingInAll /\ MissingInAll \in Nat
    BY <2>1, MissingFacts DEF MissingInAll
  <2>4. \A s : Followed(s)' = Followed(s)
    BY <2>1, <2>2 DEF Followed
  <2>5. Undelivered' \subseteq Undelivered
    <3> SUFFICES ASSUME NEW p \in Undelivered' PROVE  p \in Undelivered
      OBVIOUS
    <3> DEFINE s == p[1]
               n == p[2]
    <3>1. s \in Source /\ p = <<s, n>>
      BY <1>6
    <3> HIDE DEF s, n
    <3> QED
      BY <1>3, <1>4, <2>4, <3>1, UndeliveredIs
  <2>6. IsFiniteSet({}) /\ Cardinality({}) = 0
    BY FS_EmptySet
  <2>7. Cardinality({}) <= MissingInAll' - MissingInAll
    BY <2>3, <2>6
  <2> QED
    BY <1>5, <1>8, <2>3, <2>5, <2>6, <2>7
<1> QED
  BY <1>1, <1>7, <1>8

LEMMA LostGrows ==
    ASSUME NEW A, NEW B, NEW X, IsFiniteSet(A), IsFiniteSet(X), B \subseteq A \cup X
    PROVE  /\ IsFiniteSet(B) /\ Cardinality(B) <= Cardinality(A) + Cardinality(X)
           /\ Cardinality(A) \in Nat /\ Cardinality(B) \in Nat /\ Cardinality(X) \in Nat
<1>1. /\ IsFiniteSet(A \cup X)
      /\ Cardinality(A \cup X) = Cardinality(A) + Cardinality(X) - Cardinality(A \cap X)
  BY FS_Union
<1>2. IsFiniteSet(A \cap X)
  BY FS_Intersection
<1>3. IsFiniteSet(B) /\ Cardinality(B) <= Cardinality(A \cup X)
  BY <1>1, FS_Subset
<1>4. /\ Cardinality(A) \in Nat /\ Cardinality(X) \in Nat /\ Cardinality(B) \in Nat
      /\ Cardinality(A \cap X) \in Nat /\ Cardinality(A \cup X) \in Nat
  BY <1>1, <1>2, <1>3, FS_CardinalityType
<1> QED
  BY <1>1, <1>3, <1>4

LEMMA LostStep ==
    ASSUME R!TypeOK, HistoryOK, TrackerOK, stats \in [Counters -> Nat], LostShows, StepKinds
    PROVE  LostShows'
<1> DEFINE D == DOMAIN entries
           inc == stats["incomplete"]
           bad == stats["inconsistent"]
<1>1. /\ IsFiniteSet(Undelivered) /\ IsFiniteSet(Lost) /\ Cardinality(Lost) \in Nat
      /\ Cardinality(Lost) <= MissingInAll + inc + bad + evictions
      /\ MissingInAll \in Nat /\ inc \in Nat /\ bad \in Nat /\ evictions \in Nat
  <2>1. IsFiniteSet(Undelivered)
    BY DEF LostShows
  <2>2. IsFiniteSet(Lost) /\ Cardinality(Lost) \in Nat
    BY <2>1, FS_Difference, FS_CardinalityType DEF Lost
  <2>3. inc \in Nat /\ bad \in Nat
    BY DEF Counters
  <2> QED
    BY <2>1, <2>2, <2>3, MissingFacts, TypesOfEntries DEF LostShows
<1>2. ASSUME NEW X, IsFiniteSet(X), Lost' \subseteq Lost \cup X, IsFiniteSet(Undelivered'),
             MissingInAll' \in Nat, stats'["incomplete"] \in Nat, stats'["inconsistent"] \in Nat,
             evictions' \in Nat,
             MissingInAll' + stats'["incomplete"] + stats'["inconsistent"] + evictions'
                >= MissingInAll + inc + bad + evictions + Cardinality(X)
      PROVE  LostShows'
  <2>1. /\ Cardinality(Lost') <= Cardinality(Lost) + Cardinality(X)
        /\ Cardinality(Lost') \in Nat /\ Cardinality(X) \in Nat
    BY <1>1, <1>2, LostGrows
  <2>2. Cardinality(Lost') <= MissingInAll' + stats'["incomplete"] + stats'["inconsistent"]
                              + evictions'
    <3> HIDE DEF inc, bad
    <3> QED
      BY <1>1, <1>2, <2>1
  <2> QED
    BY <1>2, <2>2 DEF LostShows
<1>3. ASSUME SameHistory, tracker' = tracker
      PROVE  Undelivered' = Undelivered /\ MissingInAll' = MissingInAll
  BY <1>3 DEF SameHistory, Undelivered, Followed, Delivered, MissingInAll
<1>4. ASSUME Undelivered' = Undelivered, MissingInAll' = MissingInAll,
             UNCHANGED reassembly, SameLosses
      PROVE  LostShows'
  <2>1. Lost' = Lost /\ evictions' = evictions
    BY <1>4 DEF Lost, reassembly
  <2> QED
    BY <1>4, <2>1 DEF LostShows, SameLosses
<1>5. CASE Idles
  BY <1>3, <1>4, <1>5 DEF Idles
<1>6. ASSUME NEW d \in Packet, Rejects(d) PROVE LostShows'
  <2>1. past' = [past EXCEPT !.taken[d] = @ + 1] /\ tracker' = tracker
    BY <1>6 DEF Rejects, Handled
  <2>2. past'.delivered = past.delivered /\ past'.first = past.first
    BY <2>1, Zenon DEF HistoryOK
  <2>3. Undelivered' = Undelivered /\ MissingInAll' = MissingInAll
    BY <2>1, <2>2 DEF Undelivered, Followed, Delivered, MissingInAll
  <2> QED
    BY <1>4, <1>6, <2>3 DEF Rejects
<1>7. CASE Sweeps
  <2> DEFINE X == D \ DOMAIN entries'
  <2>1. /\ Expired = Cardinality(X) /\ Expired \in Nat /\ evictions' = evictions
    BY <1>7, ExpireEffect DEF Sweeps
  <2>2. IsFiniteSet(X)
    BY TypesOfEntries, FS_Difference
  <2>3. Undelivered' = Undelivered /\ MissingInAll' = MissingInAll
    BY <1>3, <1>7 DEF Sweeps
  <2>4. Lost' \subseteq Lost \cup X
    BY <2>3 DEF Lost
  <2>5. stats'["incomplete"] = inc + Expired /\ stats'["inconsistent"] = bad
    BY <1>7 DEF Sweeps
  <2> HIDE DEF X, inc, bad
  <2> QED
    BY <1>1, <1>2, <2>1, <2>2, <2>3, <2>4, <2>5
<1>8. ASSUME NEW h \in Accepted, Accepts(h) PROVE LostShows'
  <2> DEFINE k == R!Key(h)
             new == ret'.new_message
             result == ret'.result
             gone == D \ DOMAIN entries'
  <2>1. PICK G : /\ IsFiniteSet(G)
                 /\ MissingInAll \in Nat /\ MissingInAll' \in Nat
                 /\ Cardinality(G) <= MissingInAll' - MissingInAll
                 /\ Undelivered' \subseteq Undelivered \cup G \cup (IF new THEN {k} ELSE {})
                 /\ result = "Complete" => k \notin Undelivered'
    BY <1>8, UndeliveredGrows
  <2>2. AddsTo(h)
    BY <1>8, AddEffect DEF Accepts
  <2>3. /\ stats'["incomplete"] = inc
        /\ stats'["inconsistent"] = bad + (IF result = "Malformed" THEN 1 ELSE 0)
    BY <1>8 DEF Accepts
  <2>4. IsFiniteSet(gone) /\ Cardinality(gone) \in Nat /\ Cardinality(G) \in Nat
    BY <2>1, TypesOfEntries, FS_Difference, FS_CardinalityType
  <2>5. IsFiniteSet(Undelivered')
    <3>1. IsFiniteSet(Undelivered \cup G)
      BY <1>1, <2>1, FS_Union
    <3>2. IsFiniteSet((Undelivered \cup G) \cup {k})
      BY <3>1, FS_AddElement
    <3>3. Undelivered' \subseteq (Undelivered \cup G) \cup {k}
      BY <2>1
    <3> QED
      BY <3>2, <3>3, FS_Subset
  <2>6. stats'["incomplete"] \in Nat /\ stats'["inconsistent"] \in Nat
    <3> HIDE DEF inc, bad, result
    <3> QED
      BY <1>1, <2>3
  \* Nothing is lost but the numbers skipped.
  <2>7. ASSUME evictions' = evictions, Lost' \subseteq Lost \cup G
        PROVE  LostShows'
    <3>1. MissingInAll' + stats'["incomplete"] + stats'["inconsistent"] + evictions'
            >= MissingInAll + inc + bad + evictions + Cardinality(G)
      <4> HIDE DEF inc, bad, result
      <4> QED
        BY <1>1, <2>1, <2>3, <2>4, <2>7
    <3> QED
      BY <1>1, <1>2, <2>1, <2>5, <2>6, <2>7, <3>1
  <2>8. CASE result = "Complete" /\ Keeps
    <3>1. Lost' \subseteq Lost \cup G /\ evictions' = evictions
      BY <2>1, <2>8 DEF Lost, Keeps
    <3> QED
      BY <2>7, <3>1
  <2>9. CASE ~new /\ Keeps
    <3>1. Lost' \subseteq Lost \cup G /\ evictions' = evictions
      BY <2>1, <2>9 DEF Lost, Keeps
    <3> QED
      BY <2>7, <3>1
  <2>10. CASE Inserts(h)
    <3>1. Lost' \subseteq Lost \cup (G \cup gone)
      BY <2>1, <2>10 DEF Lost, Inserts
    <3>2. /\ IsFiniteSet(G \cup gone)
          /\ Cardinality(G \cup gone) <= Cardinality(G) + Cardinality(gone)
          /\ Cardinality(G \cup gone) \in Nat
      <4> HIDE DEF gone
      <4>1. IsFiniteSet(G \cup gone)
        BY <2>1, <2>4, FS_Union
      <4> QED
        BY <2>1, <2>4, <4>1, LostGrows
    <3>3. evictions' = evictions + Cardinality(gone)
      BY <2>10 DEF Inserts
    <3>4. MissingInAll' + stats'["incomplete"] + stats'["inconsistent"] + evictions'
            >= MissingInAll + inc + bad + evictions + Cardinality(G \cup gone)
      <4> HIDE DEF inc, bad, result, gone
      <4> QED
        BY <1>1, <2>1, <2>3, <2>4, <3>2, <3>3
    <3>5. evictions' \in Nat
      BY <1>1, <2>4, <3>3
    <3> HIDE DEF gone
    <3> QED
      BY <1>2, <2>1, <2>5, <2>6, <3>1, <3>2, <3>4, <3>5
  <2>11. CASE result = "Malformed" /\ ~new /\ Erases(h)
    <3>1. Lost' \subseteq Lost \cup (G \cup {k}) /\ evictions' = evictions
      BY <2>1, <2>11 DEF Lost, Erases
    <3>2. /\ IsFiniteSet(G \cup {k})
          /\ Cardinality(G \cup {k}) <= Cardinality(G) + 1
          /\ Cardinality(G \cup {k}) \in Nat
      <4> HIDE DEF k
      <4>1. IsFiniteSet({k}) /\ Cardinality({k}) = 1
        BY FS_Singleton
      <4>2. IsFiniteSet(G \cup {k})
        BY <2>1, FS_AddElement
      <4> QED
        BY <2>1, <4>1, <4>2, LostGrows
    <3>3. MissingInAll' + stats'["incomplete"] + stats'["inconsistent"] + evictions'
            >= MissingInAll + inc + bad + evictions + Cardinality(G \cup {k})
      <4>1. stats'["inconsistent"] = bad + 1
        BY <2>3, <2>11
      <4> HIDE DEF inc, bad, result, k
      <4> QED
        BY <1>1, <2>1, <2>3, <2>4, <3>1, <3>2, <4>1
    <3> HIDE DEF k
    <3> QED
      BY <1>1, <1>2, <2>1, <2>5, <2>6, <3>1, <3>2, <3>3
  <2>12. CASE result = "Complete" /\ ~new /\ Erases(h)
    <3>1. Lost' \subseteq Lost \cup G /\ evictions' = evictions
      BY <2>1, <2>12 DEF Lost, Erases
    <3> QED
      BY <2>7, <3>1
  <2> QED
    BY <2>2, <2>8, <2>9, <2>10, <2>11, <2>12 DEF AddsTo
<1> QED
  BY <1>5, <1>6, <1>7, <1>8 DEF StepKinds

-----------------------------------------------------------------------------
(* The invariant.                                                          *)

LEMMA ReceiverInit == Init => RcInv
<1> SUFFICES ASSUME Init PROVE RcInv
  OBVIOUS
<1>1. LoopTypeOK
  <2>1. /\ udp = << >> /\ commands = << >> /\ phase = "poll" /\ ready = {} /\ budget = 0
        /\ due = {} /\ shutdown = FALSE
    BY DEF Init, LoopInit
  <2>2. /\ udp \in Seq(Packet) /\ Len(udp) <= UdpQueue
        /\ commands \in Seq(Command) /\ Len(commands) <= CommandQueue
    BY <2>1, LoopAssumption
  <2>3. budget \in 0 .. MaxDatagrams \cup 0 .. CommandBatch
    BY <2>1, LoopAssumption
  <2>4. shutdown \in BOOLEAN /\ due \subseteq Timers /\ ready \subseteq {"udp", "commands"}
    BY <2>1
  <2> QED
    BY <2>1, <2>2, <2>3, <2>4 DEF LoopTypeOK
<1>2. /\ entries = << >> /\ order = << >> /\ evictions = 0 /\ now = 0
      /\ ret = R!Return("Incomplete", FALSE, R!NoMessage)
      /\ tally = [opened |-> 0, completed |-> 0, dropped |-> 0, expired |-> 0]
  BY DEF Init, R!Init
<1>3. DOMAIN entries = {}
  BY <1>2
<1>4. R!TypeOK
  <2>1. R!IsFiniteSet({})
    BY SameSets, FS_EmptySet
  <2>2. order \in Seq(R!Keys)
    BY <1>2
  <2> QED
    BY <1>2, <1>3, <2>1, <2>2 DEF R!TypeOK, R!Return
<1>5. setup \in Setups /\ recording \in BOOLEAN
  BY ReceiverAssumption DEF Init
<1>6. Len(log) = 0 /\ IsSequence(log)
  BY Sequences DEF Init
<1>7. CaptureInv
  <2>1. /\ phase = "poll" /\ code = -1 /\ failed = FALSE /\ readable = 0 /\ safe = 0
        /\ log = << >> /\ file = IF recording THEN "open" ELSE "none"
        /\ stats = [f \in Counters |-> 0]
    BY DEF Init, LoopInit
  <2>2. FileOK
    BY <1>6, <2>1 DEF FileOK
  <2>3. stats \in [Counters -> Nat] /\ stats["messages"] = 0 /\ stats["skipped"] = 0
    BY <2>1 DEF Counters
  <2>4. MessagesAccounted
    BY <1>6, <2>3 DEF MessagesAccounted
  <2>5. FailuresReported
    BY <2>1 DEF FailuresReported, FailureCounted, CleanExit
  <2>6. readable \in 0 .. Len(log) /\ safe \in 0 .. readable
    BY <1>6, <2>1
  <2> QED
    BY <1>5, <2>1, <2>2, <2>3, <2>4, <2>5, <2>6 DEF CaptureInv
<1>8. HistoryOK /\ past.delivered = << >> /\ \A s \in Source : past.first[s] = -1
  <2>1. past = [taken |-> [d \in Packet |-> 0], delivered |-> << >>,
                first |-> [s \in Source |-> -1], commands |-> 0]
    BY DEF Init
  <2>2. IsSequence(<< >>)
    BY Sequences
  <2> QED
    BY <2>1, <2>2 DEF HistoryOK
<1>9. TrackerOK /\ \A s \in Source : ~tracker[s].seen
  <2>1. tracker = [s \in Source |-> Unseen]
    BY DEF Init
  <2> QED
    BY <1>3, <1>8, <2>1 DEF TrackerOK, Unseen
<1>10. BytesHeld
  <2> SUFFICES ASSUME NEW d \in Accepted
               PROVE  Cardinality(UsesOf(d)) + (IF Held(d) THEN 1 ELSE 0) <= Arrived(d)
    BY DEF BytesHeld
  <2>1. UsesOf(d) = {} /\ ~Held(d)
    BY <1>3, <1>8 DEF UsesOf, Held
  <2>2. Cardinality({}) = 0
    BY FS_EmptySet
  <2>3. Arrived(d) \in Nat
    BY <1>8, ArrivedFacts
  <2> QED
    BY <2>1, <2>2, <2>3
<1>11. LostShows
  <2>1. Undelivered = {}
    BY <1>9 DEF Undelivered, Followed
  <2>2. IsFiniteSet(Undelivered) /\ Cardinality(Lost) = 0
    BY <2>1, FS_EmptySet DEF Lost
  <2>3. MissingInAll \in Nat
    BY <1>9, MissingFacts
  <2>4. stats["incomplete"] \in Nat /\ stats["inconsistent"] \in Nat
    BY <1>7 DEF CaptureInv, Counters
  <2> QED
    BY <1>2, <2>2, <2>3, <2>4 DEF LostShows
<1> QED
  BY <1>1, <1>4, <1>5, <1>7, <1>8, <1>9, <1>10, <1>11 DEF RcInv

LEMMA ReceiverStep == RcInv /\ [Next]_vars => RcInv'
<1> SUFFICES ASSUME RcInv, [Next]_vars PROVE RcInv'
  OBVIOUS
<1>1. /\ LoopTypeOK /\ R!TypeOK /\ setup \in Setups /\ CaptureInv
      /\ HistoryOK /\ TrackerOK /\ BytesHeld /\ LostShows
  BY DEF RcInv
<1>2. stats \in [Counters -> Nat]
  BY <1>1 DEF CaptureInv
<1>3. StepKinds
  BY <1>1, <1>2, KindOfStep
<1>4. LoopTypeOK' /\ setup' \in Setups
  BY <1>1, StepOfLoop, LoopTypes
<1>5. R!TypeOK'
  BY <1>1, <1>3, ReassemblerStep
<1>6. CaptureInv'
  BY <1>1, CaptureStep
<1>7. HistoryOK'
  BY <1>1, <1>3, HistoryStep
<1>8. TrackerOK'
  BY <1>1, <1>3, TrackerStep
<1>9. BytesHeld'
  BY <1>1, <1>3, BytesStep
<1>10. LostShows'
  BY <1>1, <1>2, <1>3, LostStep
<1> QED
  BY <1>4, <1>5, <1>6, <1>7, <1>8, <1>9, <1>10 DEF RcInv

\* The inductive invariant of the receiver: types, the account of the capture
\* file, the bytes that are held and used, and the numbers that are lost.
THEOREM ReceiverInvariant == Spec => []RcInv
<1> QED
  BY ReceiverInit, ReceiverStep, PTL DEF Spec

-----------------------------------------------------------------------------
(* The properties.                                                         *)

\* The variables of the receiver keep their types, and it records only with
\* an open file: recording_ is never left on by a file that was not opened
\* (handle_command() and init()).
THEOREM ReceiverTypes == Spec => []TypeOK
<1>1. RcInv => TypeOK
  BY DEF RcInv, CaptureInv, TypeOK
<1> QED
  BY <1>1, ReceiverInvariant, PTL

\* From the datagrams to the capture file no message vanishes without a
\* trace: a number between the first and the last one followed that was not
\* delivered is missing, incomplete, inconsistent, evicted or pending, and a
\* message delivered is in the file or counted as skipped, but for the one
\* whose write failed (handle_datagram(), on_complete(), run_timers()).
THEOREM NoMessageVanishes == Spec => []NothingVanishes
<1>1. RcInv => NothingVanishes
  <2> SUFFICES ASSUME RcInv PROVE UndeliveredAccounted /\ MessagesAccounted
    BY DEF NothingVanishes
  <2>1. MessagesAccounted
    BY DEF RcInv, CaptureInv
  <2>2. /\ IsFiniteSet(Undelivered) /\ IsFiniteSet(Lost) /\ IsFiniteSet(DOMAIN entries)
        /\ Cardinality(Lost) <= MissingInAll + stats.incomplete + stats.inconsistent + evictions
    <3>1. R!TypeOK /\ LostShows
      BY DEF RcInv
    <3> QED
      BY <3>1, TypesOfEntries, FS_Difference DEF LostShows, Lost
  <2>3. /\ MissingInAll \in Nat /\ evictions \in Nat
        /\ stats.incomplete \in Nat /\ stats.inconsistent \in Nat
    BY MissingFacts, TypesOfEntries DEF RcInv, CaptureInv, Counters
  <2>4. Undelivered \subseteq Lost \cup DOMAIN entries
    BY DEF Lost
  <2>5. /\ Cardinality(Undelivered) <= Cardinality(Lost) + Cardinality(DOMAIN entries)
        /\ Cardinality(Lost) \in Nat /\ Cardinality(DOMAIN entries) \in Nat
        /\ Cardinality(Undelivered) \in Nat
    BY <2>2, <2>4, LostGrows
  <2>6. UndeliveredAccounted
    BY <2>2, <2>3, <2>5 DEF UndeliveredAccounted, Shown
  <2> QED
    BY <2>1, <2>6
<1> QED
  BY <1>1, ReceiverInvariant, PTL

\* No bytes are delivered more often than datagrams brought them, however
\* datagrams are repeated and entries expire, are evicted, dropped and opened
\* again (Reassembler::add() and expire()).
THEOREM BytesDeliveredOnce == Spec => []BytesUsedOnce
<1>1. RcInv => BytesUsedOnce
  <2> SUFFICES ASSUME RcInv, NEW d \in Accepted PROVE Cardinality(UsesOf(d)) <= Arrived(d)
    BY DEF BytesUsedOnce
  <2>1. Cardinality(UsesOf(d)) + (IF Held(d) THEN 1 ELSE 0) <= Arrived(d)
    BY DEF RcInv, BytesHeld
  <2>2. Cardinality(UsesOf(d)) \in Nat /\ Arrived(d) \in Nat
    BY UsesFacts, ArrivedFacts DEF RcInv
  <2> QED
    BY <2>1, <2>2
<1> QED
  BY <1>1, ReceiverInvariant, PTL

\* A failure of an open capture file is counted in write_errors, and exit
\* status 0 without a write error means that every record accepted is in the
\* file, and on stable storage unless fsync() was refused with EINVAL or EROFS
\* (the end of Receiver::run(), CaptureWriter::close()).
THEOREM FailuresAreReported == Spec => []FailuresReported
<1>1. RcInv => FailuresReported
  BY DEF RcInv, CaptureInv
<1> QED
  BY <1>1, ReceiverInvariant, PTL

-----------------------------------------------------------------------------
(* The parts.                                                              *)

\* Whatever the datagrams and commands do, the receiver runs the main loop
\* of ReceiverLoop (poll_once(), drain_udp(), drain_commands(), run()).
THEOREM ReceiverFollowsLoop == Spec => LoopSpec
<1>1. Init => LoopInit
  BY DEF Init
<1>2. RcInv /\ [Next]_vars => [LoopNext]_loopVars
  BY StepOfLoop DEF RcInv
<1> QED
  BY <1>1, <1>2, ReceiverInvariant, PTL DEF Spec, LoopSpec

\* Seen through its reassembler, the receiver is a behaviour of Reassembler:
\* parse_datagram() lets nothing through that Reassembler does not allow for,
\* so that what is proved of Reassembler holds in the receiver.
THEOREM ReceiverFollowsReassembler == Spec => R!Spec
<1>1. Init => R!Init
  BY DEF Init
<1>2. [Next]_vars => [R!Next]_R!vars
  <2> SUFFICES ASSUME [Next]_vars PROVE [R!Next]_R!vars
    OBVIOUS
  <2>1. UNCHANGED <<reassembly, now>> => UNCHANGED R!vars
    BY DEF reassembly, R!vars
  <2>2. ASSUME NEW b \in BOOLEAN, SweepIf(b), now' = now PROVE [R!Next]_R!vars
    BY <2>1, <2>2 DEF SweepIf, R!Next, R!Sweep
  <2>3. Move \/ UNCHANGED vars => UNCHANGED R!vars
    BY <2>1 DEF Move, handlers, vars
  <2>4. Environment => [R!Next]_R!vars
    BY <2>1 DEF Environment, handlers, R!Next
  <2>5. ("sweep" \in due) \in BOOLEAN /\ TRUE \in BOOLEAN
    OBVIOUS
  <2>6. HandleTimers \/ End => [R!Next]_R!vars
    BY <2>2, <2>5 DEF HandleTimers, End
  <2>7. ASSUME NEW d \in Packet, HandleDatagram(d) PROVE [R!Next]_R!vars
    <3>1. CASE Reject(d)
      BY <2>1, <2>7, <3>1 DEF HandleDatagram, Reject
    <3>2. CASE Accept(d)
      <4>1. d \in Accepted
        BY <2>7, <3>2 DEF HandleDatagram, TakeDatagram, Accept, Accepted
      <4>2. R!Arrive(d)
        BY <2>7, <3>2 DEF HandleDatagram, Accept, R!Arrive
      <4> QED
        BY <4>1, <4>2 DEF R!Next
    <3> QED
      BY <2>7, <3>1, <3>2 DEF HandleDatagram
  <2>8. ASSUME NEW c \in Command, HandleCommand(c) PROVE [R!Next]_R!vars
    BY <2>1, <2>8 DEF HandleCommand
  <2> QED
    BY <2>3, <2>4, <2>6, <2>7, <2>8 DEF Next
<1> QED
  BY <1>1, <1>2, PTL DEF Spec, R!Spec
=============================================================================
