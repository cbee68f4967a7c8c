---------------------------- MODULE Reassembler ----------------------------
(***************************************************************************)
(* The receiver's fragment reassembler (tools/receiver/lib/reassembler.cpp).*)
(* Fragments of messages longer than one datagram are collected per key    *)
(* <<source, sequence>>; memory is bounded by MaxPending entries and by    *)
(* the timeout of entries.  The deque order_ remembers the order in which  *)
(* entries were made and is cleaned lazily: a key stays in it when its     *)
(* entry is completed or dropped, and comes back into it when the key is   *)
(* opened again.                                                           *)
(*                                                                         *)
(* A fragment's bytes are abstracted to a body; the bytes of a message are *)
(* the function from fragment index to body.                               *)
(***************************************************************************)
EXTENDS Integers, FiniteSets, Sequences

CONSTANTS
    Fragment,          \* the validated fragments that may arrive
    MaxPending,        \* Config::max_pending
    Timeout,           \* Config::timeout_ns, in ticks
    MaxMessageLength,  \* Config::max_message_length
    CompactFactor,     \* the 4 of expire()
    CompactSlack,      \* the 64 of expire()
    MaxTime,           \* bound on the clock
    MaxOpened          \* bound on the number of entries ever made

ASSUME ReassemblerAssumption ==
    /\ MaxPending \in Nat \ {0}
    /\ Timeout \in Nat
    /\ MaxMessageLength \in Nat
    /\ CompactFactor \in Nat
    /\ CompactSlack \in Nat
    /\ \A h \in Fragment : /\ h.count \in Nat \ {0}
                           /\ h.index \in 0 .. h.count - 1
                           /\ h.length \in Nat

VARIABLES
    entries,    \* entries_: key -> entry
    order,      \* order_: keys in the order their entries were made
    evictions,  \* evictions_
    now,        \* now_monotonic_ns(), in ticks
    ret,        \* what the last add() returned: result, new_message, out
    tally       \* history: how many entries were made, and how they ended

vars == <<entries, order, evictions, now, ret, tally>>

-----------------------------------------------------------------------------

Key(h) == <<h.source, h.sequence>>

Keys == {Key(h) : h \in Fragment}

NoMessage == [source |-> -1]

Return(result, new, out) == [result |-> result, new_message |-> new, out |-> out]

\* Faults: the age of an entry is counted from the sender's timestamp; the
\* first fragment that arrives is stored as the first of the message.
NewEntryFaultClock(h) ==
    [first_seen |-> h.timestamp, timestamp |-> h.timestamp, count |-> h.count,
     length |-> h.length, buffer |-> [i \in {h.index} |-> h.body]]

NewEntryFaultIndex(h) ==
    [first_seen |-> now, timestamp |-> h.timestamp, count |-> h.count,
     length |-> h.length, buffer |-> [i \in {0} |-> h.body]]

NewEntry(h) ==
    [first_seen |-> now, timestamp |-> h.timestamp, count |-> h.count,
     length |-> h.length, buffer |-> [i \in {h.index} |-> h.body]]

\* The entry's bytes once fragment h has been copied in.
Filled(e, h) == [i \in DOMAIN e.buffer \cup {h.index} |->
                    IF i = h.index THEN h.body ELSE e.buffer[i]]

\* Fault: the entry is not erased.
WithoutFault(K) == entries

Without(K) == [k \in DOMAIN entries \ K |-> entries[k]]

\* The keys popped when the first i elements of order_ are.
Popped(i) == {order[j] : j \in 1 .. i}

\* while (entries_.size() >= max_pending) evict_oldest(): the loop pops i
\* elements of order_.  When no number of pops makes room the loop of the
\* code never ends, and no i evicts.  Faults: one entry too many is kept, or all go.
MakesRoomFaultLate(i) == Cardinality(DOMAIN entries \ Popped(i)) <= MaxPending
MakesRoomFaultAll(i) == \/ Cardinality(DOMAIN entries) < MaxPending
                        \/ DOMAIN entries \subseteq Popped(i)
MakesRoom(i) == Cardinality(DOMAIN entries \ Popped(i)) < MaxPending
EvictsUpTo(i) == MakesRoom(i) /\ \A j \in 0 .. i - 1 : ~MakesRoom(j)

\* The loop of expire(): a stale key is popped, a live one is popped and its
\* entry erased when it has expired, and the first other one ends the loop.
\* Faults: an entry exactly Timeout old stays; only the front key is tested.
OverdueFaultStrict(k) == now - entries[k].first_seen > Timeout
Overdue(k) == now - entries[k].first_seen >= Timeout
PassesFaultFront(i) == i > 0 /\ order[1] \in DOMAIN entries => Overdue(order[1])
Passes(i) == \A j \in 1 .. i : order[j] \in DOMAIN entries => Overdue(order[j])
SweepsUpTo(i) == Passes(i) /\ (i < Len(order) => ~Passes(i + 1))

\* The elements of s that are in K, in their order.
Rank(I, i) == Cardinality({j \in I : j <= i})
\* Faults: the test on the entries is inverted; the order is reversed.
KeepFaultInverted(s, K) ==
    LET I == {i \in 1 .. Len(s) : s[i] \notin K}
    IN  [n \in 1 .. Cardinality(I) |-> s[CHOOSE i \in I : Rank(I, i) = n]]
KeepFaultReversed(s, K) ==
    LET I == {i \in 1 .. Len(s) : s[i] \in K}
    IN  [n \in 1 .. Cardinality(I) |->
            s[CHOOSE i \in I : Rank(I, i) = Cardinality(I) + 1 - n]]
Keep(s, K) ==
    LET I == {i \in 1 .. Len(s) : s[i] \in K}
    IN  [n \in 1 .. Cardinality(I) |-> s[CHOOSE i \in I : Rank(I, i) = n]]

Compacted(s, K) ==
    IF Len(s) > Cardinality(K) * CompactFactor + CompactSlack THEN Keep(s, K) ELSE s

-----------------------------------------------------------------------------
(* add(), one action per way out of it.                                    *)

Known(h) == Key(h) \in DOMAIN entries

\* Fault: the length is not compared.
ConsistentFault(h) == h.count = entries[Key(h)].count
Consistent(h) == /\ h.count = entries[Key(h)].count
                 /\ h.length = entries[Key(h)].length

Buffered(h) == h.count # 1 /\ h.length <= MaxMessageLength

FastPath(h) ==
    /\ h.count = 1
    /\ ret' = Return("Complete", TRUE,
                     [source |-> h.source, sequence |-> h.sequence,
                      timestamp |-> h.timestamp, data |-> [i \in {0} |-> h.body]])
    /\ UNCHANGED <<entries, order, evictions, tally>>

TooLong(h) ==
    /\ h.count # 1 /\ h.length > MaxMessageLength
    /\ ret' = Return("Malformed", FALSE, NoMessage)
    /\ UNCHANGED <<entries, order, evictions, tally>>

\* A fresh entry has one fragment of at least two, so add() returns Incomplete.
Open(h) ==
    /\ Buffered(h) /\ ~Known(h)
    /\ \E i \in 0 .. Len(order) :
          /\ EvictsUpTo(i)
          /\ entries' = [k \in (DOMAIN entries \ Popped(i)) \cup {Key(h)} |->
                            IF k = Key(h) THEN NewEntry(h) ELSE entries[k]]
          /\ order' = Append(SubSeq(order, i + 1, Len(order)), Key(h))
          /\ evictions' = evictions + Cardinality(DOMAIN entries \cap Popped(i))
    /\ ret' = Return("Incomplete", TRUE, NoMessage)
    /\ tally' = [tally EXCEPT !.opened = @ + 1]

Drop(h) ==
    /\ Buffered(h) /\ Known(h) /\ ~Consistent(h)
    /\ entries' = Without({Key(h)})
    /\ ret' = Return("Malformed", FALSE, NoMessage)
    /\ tally' = [tally EXCEPT !.dropped = @ + 1]
    /\ UNCHANGED <<order, evictions>>

Repeat(h) ==
    /\ Buffered(h) /\ Known(h) /\ Consistent(h)
    /\ h.index \in DOMAIN entries[Key(h)].buffer
    /\ ret' = Return("Duplicate", FALSE, NoMessage)
    /\ UNCHANGED <<entries, order, evictions, tally>>

Store(h) ==
    /\ Buffered(h) /\ Known(h) /\ Consistent(h)
    /\ LET e == entries[Key(h)]
           b == Filled(e, h)
       IN  /\ h.index \notin DOMAIN e.buffer
           /\ Cardinality(DOMAIN b) < e.count
           /\ entries' = [entries EXCEPT ![Key(h)].buffer = b]
    /\ ret' = Return("Incomplete", FALSE, NoMessage)
    /\ UNCHANGED <<order, evictions, tally>>

Complete(h) ==
    /\ Buffered(h) /\ Known(h) /\ Consistent(h)
    /\ LET e == entries[Key(h)]
           b == Filled(e, h)
       IN  /\ h.index \notin DOMAIN e.buffer
           /\ ~(Cardinality(DOMAIN b) < e.count)
           /\ ret' = Return("Complete", FALSE,
                            [source |-> h.source, sequence |-> h.sequence,
                             timestamp |-> e.timestamp, data |-> b])
    /\ entries' = Without({Key(h)})
    /\ tally' = [tally EXCEPT !.completed = @ + 1]
    /\ UNCHANGED <<order, evictions>>

Add(h) == \/ FastPath(h) \/ TooLong(h) \/ Open(h) \/ Drop(h)
          \/ Repeat(h) \/ Store(h) \/ Complete(h)

\* expire(): the sweep, then the compaction of order_.
Expire ==
    /\ \E i \in 0 .. Len(order) :
          /\ SweepsUpTo(i)
          /\ entries' = Without(Popped(i))
          /\ order' = Compacted(SubSeq(order, i + 1, Len(order)),
                                DOMAIN entries \ Popped(i))
          /\ tally' = [tally EXCEPT !.expired =
                          @ + Cardinality(DOMAIN entries \cap Popped(i))]
    /\ UNCHANGED <<evictions, ret>>

-----------------------------------------------------------------------------

Init ==
    /\ entries = << >>
    /\ order = << >>
    /\ evictions = 0
    /\ now = 0
    /\ ret = Return("Incomplete", FALSE, NoMessage)
    /\ tally = [opened |-> 0, completed |-> 0, dropped |-> 0, expired |-> 0]

Arrive(h) ==
    /\ tally.opened < MaxOpened
    /\ Add(h)
    /\ UNCHANGED now

Sweep == Expire /\ UNCHANGED now

Tick ==
    /\ now < MaxTime
    /\ now' = now + 1
    /\ UNCHANGED <<entries, order, evictions, ret, tally>>

Next == (\E h \in Fragment : Arrive(h)) \/ Sweep \/ Tick

Spec == Init /\ [][Next]_vars

-----------------------------------------------------------------------------
(* Properties.                                                             *)

Live(i) == order[i] \in DOMAIN entries
LastCopy(i) == \A j \in i + 1 .. Len(order) : order[j] # order[i]
Age(k) == now - entries[k].first_seen

\* Types of the variables; every entry's bytes are at indices of its message.
TypeOK ==
    /\ DOMAIN entries \subseteq Keys /\ IsFiniteSet(DOMAIN entries)
    /\ \A k \in DOMAIN entries :
          /\ DOMAIN entries[k] = {"first_seen", "timestamp", "count", "length", "buffer"}
          /\ entries[k].first_seen \in 0 .. now
          /\ entries[k].count \in Nat /\ entries[k].length \in Nat
          /\ DOMAIN entries[k].buffer \subseteq 0 .. entries[k].count - 1
    /\ order \in Seq(Keys)
    /\ evictions \in Nat /\ now \in Nat
    /\ ret.result \in {"Complete", "Incomplete", "Duplicate", "Malformed"}
    /\ ret.new_message \in BOOLEAN
    /\ tally \in [opened : Nat, completed : Nat, dropped : Nat, expired : Nat]

\* The reassembler never holds more than max_pending messages, whatever
\* sequence of adds, evictions and sweeps led here (reassembler.hpp:3).
PendingBounded == Cardinality(DOMAIN entries) <= MaxPending

\* Every entry can be found by eviction and by the sweep.  An entry missing
\* from order_ would never expire, and with max_pending of them the eviction
\* loop of add() would not terminate.
OrderCoversPending == \A k \in DOMAIN entries : \E i \in 1 .. Len(order) : order[i] = k

\* Every message that was ever buffered is still pending or ended in exactly
\* one way: completed, dropped as inconsistent, expired or evicted.
Conservation ==
    tally.opened = Cardinality(DOMAIN entries) + tally.completed + tally.dropped
                   + tally.expired + evictions

\* Although copies of a key pile up in order_, the last copies of the live
\* keys are in order of age, so the queue never turns the order of two entries.
ArrivalOrder ==
    \A i \in 1 .. Len(order) : \A j \in i + 1 .. Len(order) :
        (Live(i) /\ Live(j) /\ LastCopy(i))
            => entries[order[i]].first_seen <= entries[order[j]].first_seen

\* bytes hold, at every index they cover, the body of a fragment with key k,
\* that count and that length.
PiecesOf(bytes, k, count, length) ==
    \A i \in DOMAIN bytes : \E g \in Fragment :
        /\ Key(g) = k /\ g.count = count /\ g.length = length
        /\ g.index = i /\ g.body = bytes[i]

\* What is buffered for a message came in fragments of that message, and some
\* fragment is missing: none is complete and not delivered.
PendingSound ==
    \A k \in DOMAIN entries : LET e == entries[k] IN
        /\ Cardinality(DOMAIN e.buffer) \in 1 .. e.count - 1
        /\ PiecesOf(e.buffer, k, e.count, e.length)

\* A message is handed over only with all the fragments of its count, all of
\* them of one key, count and length.
DeliveredWhole ==
    ret.result = "Complete" =>
        \E h \in Fragment :
            /\ <<ret.out.source, ret.out.sequence>> = Key(h)
            /\ DOMAIN ret.out.data = 0 .. h.count - 1
            /\ PiecesOf(ret.out.data, Key(h), h.count, h.length)

\* A sweep discards only entries whose timeout has passed, and keeps the
\* others as they are.
SweepStep == tally'.expired # tally.expired
ExpiresOnlyOverdue ==
    [][SweepStep => /\ \A k \in DOMAIN entries \ DOMAIN entries' : Age(k) >= Timeout
                    /\ \A k \in DOMAIN entries' : entries'[k] = entries[k]]_vars

\* An overdue entry outlives a sweep only behind a key that is in order_ more
\* than once: a message opened again after its first entry had ended.
Reopened == \E i \in 1 .. Len(order) : Live(i) /\ ~LastCopy(i) /\ Age(order[i]) < Timeout
OverdueOnlyBehindReopened ==
    [][Sweep => Reopened \/ \A k \in DOMAIN entries' : Age(k) < Timeout]_vars

\* Eviction makes room for one message and takes one entry, which is the
\* oldest unless a live key is in order_ more than once.
Evicts == evictions' # evictions
EvictsOneOldest ==
    [][Evicts =>
        \E k \in DOMAIN entries \ DOMAIN entries' :
            /\ Cardinality(DOMAIN entries \ DOMAIN entries') = 1
            /\ evictions' = evictions + 1
            /\ \/ \E i \in 1 .. Len(order) : order[i] = k /\ ~LastCopy(i)
               \/ \A l \in DOMAIN entries : Age(l) <= Age(k)]_vars

(* What the documents say and the code does not do: the violation run.      *)

\* reassembler.hpp:58: expire() discards entries older than the timeout.
SweepDiscardsOverdue ==
    [][Sweep => \A k \in DOMAIN entries' : Age(k) <= Timeout]_vars

=============================================================================
