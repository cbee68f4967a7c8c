------------------------ MODULE Reassembler_proofs ------------------------
(* Theorems of Reassembler.tla, for every set of fragments and all bounds. *)
EXTENDS Reassembler, CommonLemmas

-----------------------------------------------------------------------------
(* The compaction of order_.                                               *)

LEMMA CompactedIs ==
    ASSUME NEW s, NEW K
    PROVE  Compacted(s, K) = Filtered(s, K) \/ Compacted(s, K) = s
<1>1. Keep(s, K) = Filtered(s, K)
  BY DEF Keep, Rank, Filtered, Selected, Place
<1> QED
  BY <1>1 DEF Compacted

\* Compaction keeps the order of what it keeps, and all copies of a key of K.
LEMMA CompactedOrder ==
    ASSUME NEW S, NEW s \in Seq(S), NEW K
    PROVE  \E at \in [1 .. Len(Compacted(s, K)) -> 1 .. Len(s)] :
              /\ \A n \in 1 .. Len(Compacted(s, K)) : Compacted(s, K)[n] = s[at[n]]
              /\ \A n, m \in 1 .. Len(Compacted(s, K)) : n < m => at[n] < at[m]
              /\ \A i \in 1 .. Len(s) : s[i] \in K =>
                    \E n \in 1 .. Len(Compacted(s, K)) : at[n] = i
<1>1. CASE Compacted(s, K) = Filtered(s, K)
  BY <1>1, FilteredOrder
<1>2. CASE Compacted(s, K) = s
  <2> DEFINE id == [n \in 1 .. Len(s) |-> n]
  <2>1. id \in [1 .. Len(s) -> 1 .. Len(s)] /\ \A n \in 1 .. Len(s) : id[n] = n
    OBVIOUS
  <2> HIDE DEF id
  <2> QED
    BY <1>2, <2>1
<1> QED
  BY <1>1, <1>2, CompactedIs

\* Compaction keeps a sequence of keys one of its own, and loses no key of K.
LEMMA CompactedKeeps ==
    ASSUME NEW S, NEW s \in Seq(S), NEW K
    PROVE  /\ Compacted(s, K) \in Seq(S)
           /\ \A i \in 1 .. Len(s) : s[i] \in K =>
                \E n \in 1 .. Len(Compacted(s, K)) : Compacted(s, K)[n] = s[i]
<1>1. PICK at \in [1 .. Len(Compacted(s, K)) -> 1 .. Len(s)] :
        /\ \A n \in 1 .. Len(Compacted(s, K)) : Compacted(s, K)[n] = s[at[n]]
        /\ \A i \in 1 .. Len(s) : s[i] \in K =>
              \E n \in 1 .. Len(Compacted(s, K)) : at[n] = i
  <2> DEFINE t == Compacted(s, K)
  <2>1. \E at \in [1 .. Len(t) -> 1 .. Len(s)] :
           /\ \A n \in 1 .. Len(t) : t[n] = s[at[n]]
           /\ \A n, m \in 1 .. Len(t) : n < m => at[n] < at[m]
           /\ \A i \in 1 .. Len(s) : s[i] \in K => \E n \in 1 .. Len(t) : at[n] = i
    BY CompactedOrder
  <2> HIDE DEF t
  <2>2. PICK at \in [1 .. Len(t) -> 1 .. Len(s)] :
           /\ \A n \in 1 .. Len(t) : t[n] = s[at[n]]
           /\ \A i \in 1 .. Len(s) : s[i] \in K => \E n \in 1 .. Len(t) : at[n] = i
    BY <2>1
  <2> QED
    BY <2>2 DEF t
<1>2. Compacted(s, K) \in Seq(S)
  BY CompactedIs, FilteredOrder
<1> QED
  BY <1>1, <1>2

-----------------------------------------------------------------------------
(* The inductive invariant: the invariants the runs check, together.       *)

IInv == /\ TypeOK /\ PendingBounded /\ OrderCoversPending /\ Conservation
        /\ PendingSound /\ DeliveredWhole

LEMMA InitInv == Init => IInv
<1> SUFFICES ASSUME Init PROVE IInv
  OBVIOUS
<1> USE DEF Init
<1>1. DOMAIN entries = {} /\ IsFiniteSet({}) /\ Cardinality({}) = 0
  BY FS_EmptySet
<1>2. TypeOK
  BY <1>1 DEF TypeOK, Return
<1>3. PendingBounded /\ OrderCoversPending /\ Conservation /\ PendingSound
  BY <1>1, ReassemblerAssumption
     DEF PendingBounded, OrderCoversPending, Conservation, PendingSound
<1>4. DeliveredWhole
  BY DEF DeliveredWhole, Return
<1> QED
  BY <1>2, <1>3, <1>4 DEF IInv

\* Removing the entries of K: what is left, and how many.
LEMMA RemovedCount ==
    ASSUME NEW D, IsFiniteSet(D), NEW K
    PROVE  /\ IsFiniteSet(D \ K)
           /\ Cardinality(D) \in Nat /\ Cardinality(D \ K) \in Nat
           /\ Cardinality(D \cap K) \in Nat
           /\ Cardinality(D \ K) = Cardinality(D) - Cardinality(D \cap K)
BY FS_Difference, FS_Intersection, FS_CardinalityType

\* Removing one key of D takes one from its size.
LEMMA RemovedOne ==
    ASSUME NEW D, IsFiniteSet(D), NEW k \in D
    PROVE  /\ IsFiniteSet(D \ {k})
           /\ Cardinality(D) \in Nat /\ Cardinality(D \ {k}) \in Nat
           /\ Cardinality(D \ {k}) = Cardinality(D) - 1
BY FS_RemoveElement, FS_CardinalityType

\* A fragment has a key, and an index below its count.
LEMMA FragmentFacts ==
    ASSUME NEW h \in Fragment
    PROVE  /\ Key(h) \in Keys
           /\ h.count \in Nat \ {0} /\ h.length \in Nat
           /\ h.index \in 0 .. h.count - 1
BY ReassemblerAssumption DEF Keys

\* The ways out of add() that leave the entries alone.
LEMMA FastPathInv ==
    ASSUME IInv, NEW h \in Fragment, FastPath(h), UNCHANGED now
    PROVE  IInv'
<1> USE DEF FastPath, Return
<1>1. TypeOK'
  BY DEF IInv, TypeOK
<1>2. PendingBounded' /\ OrderCoversPending' /\ Conservation' /\ PendingSound'
  BY DEF IInv, PendingBounded, OrderCoversPending, Conservation, PendingSound
<1>3. DeliveredWhole'
  <2>1. h.count = 1 /\ h.index = 0
    BY FragmentFacts
  <2>2. /\ <<ret'.out.source, ret'.out.sequence>> = Key(h)
        /\ DOMAIN ret'.out.data = 0 .. h.count - 1
        /\ \A i \in DOMAIN ret'.out.data : i = h.index /\ ret'.out.data[i] = h.body
    BY <2>1 DEF Key
  <2>3. PiecesOf(ret'.out.data, Key(h), h.count, h.length)
    BY <2>2 DEF PiecesOf
  <2> QED
    BY <2>2, <2>3 DEF DeliveredWhole
<1> QED
  BY <1>1, <1>2, <1>3 DEF IInv

LEMMA RefusedInv ==
    ASSUME IInv, NEW h \in Fragment, TooLong(h) \/ Repeat(h), UNCHANGED now
    PROVE  IInv'
<1>0. /\ UNCHANGED <<entries, order, evictions, tally, now>>
      /\ ret'.result \in {"Malformed", "Duplicate"} /\ ret'.new_message = FALSE
  BY DEF TooLong, Repeat, Return
<1>1. TypeOK'
  BY <1>0 DEF IInv, TypeOK
<1>2. PendingBounded' /\ OrderCoversPending' /\ Conservation' /\ PendingSound'
  BY <1>0 DEF IInv, PendingBounded, OrderCoversPending, Conservation, PendingSound
<1>3. DeliveredWhole'
  BY <1>0 DEF DeliveredWhole
<1> QED
  BY <1>1, <1>2, <1>3 DEF IInv

\* Making an entry, after evicting down to max_pending - 1.
LEMMA OpenInv ==
    ASSUME IInv, NEW h \in Fragment, Open(h), UNCHANGED now
    PROVE  IInv'
<1>1. PICK i \in 0 .. Len(order) :
        /\ EvictsUpTo(i)
        /\ entries' = [k \in (DOMAIN entries \ Popped(i)) \cup {Key(h)} |->
                          IF k = Key(h) THEN NewEntry(h) ELSE entries[k]]
        /\ order' = Append(SubSeq(order, i + 1, Len(order)), Key(h))
        /\ evictions' = evictions + Cardinality(DOMAIN entries \cap Popped(i))
  BY DEF Open
<1> DEFINE D == DOMAIN entries
           K == D \ Popped(i)
           tail == SubSeq(order, i + 1, Len(order))
<1>2. /\ Key(h) \notin D /\ h.count # 1
      /\ ret' = Return("Incomplete", TRUE, NoMessage)
      /\ tally' = [tally EXCEPT !.opened = @ + 1]
  BY DEF Open, Known, Buffered
<1>3. IsFiniteSet(D) /\ order \in Seq(Keys) /\ Len(order) \in Nat /\ now \in Nat
  BY DEF IInv, TypeOK
<1>4. /\ IsFiniteSet(K) /\ Cardinality(K) \in Nat
      /\ Cardinality(D) \in Nat /\ Cardinality(D \cap Popped(i)) \in Nat
      /\ Cardinality(K) = Cardinality(D) - Cardinality(D \cap Popped(i))
  BY <1>3, RemovedCount
<1>5. DOMAIN entries' = K \cup {Key(h)} /\ Key(h) \notin K
  BY <1>1, <1>2
<1>6. IsFiniteSet(DOMAIN entries') /\ Cardinality(DOMAIN entries') = Cardinality(K) + 1
  <2> HIDE DEF K
  <2>1. /\ IsFiniteSet(K \cup {Key(h)})
        /\ Cardinality(K \cup {Key(h)}) = Cardinality(K) + 1
    BY <1>4, <1>5, FS_AddElement
  <2> QED
    BY <1>5, <2>1
<1>7. /\ tail \in Seq(Keys) /\ Len(tail) = Len(order) - i
      /\ \A n \in 1 .. Len(order) - i : tail[n] = order[i + n]
  BY <1>3, SubSeqProperties, ElementOfSeq
<1>8. /\ order' \in Seq(Keys) /\ Len(order') = Len(order) - i + 1
      /\ \A n \in 1 .. Len(order) - i : order'[n] = order[i + n]
      /\ order'[Len(order) - i + 1] = Key(h)
  <2>1. order' = Append(tail, Key(h)) /\ Key(h) \in Keys
    BY <1>1, FragmentFacts
  <2> HIDE DEF tail
  <2>2. /\ order' \in Seq(Keys) /\ Len(order') = Len(tail) + 1
        /\ \A n \in 1 .. Len(tail) : order'[n] = tail[n]
        /\ order'[Len(tail) + 1] = Key(h)
    BY <1>7, <2>1, AppendProperties
  <2> QED
    BY <1>7, <2>2
<1>9. \A k \in K : entries'[k] = entries[k]
  BY <1>1, <1>2
<1>10. entries'[Key(h)] = NewEntry(h)
  BY <1>1
<1>11. TypeOK'
  <2>1. DOMAIN entries' \subseteq Keys
    BY <1>5, FragmentFacts DEF IInv, TypeOK
  <2>2. ASSUME NEW k \in DOMAIN entries'
        PROVE  /\ DOMAIN entries'[k] = {"first_seen", "timestamp", "count", "length", "buffer"}
               /\ entries'[k].first_seen \in 0 .. now
               /\ entries'[k].count \in Nat /\ entries'[k].length \in Nat
               /\ DOMAIN entries'[k].buffer \subseteq 0 .. entries'[k].count - 1
    <3>1. CASE k = Key(h)
      BY <1>3, <1>10, <3>1, FragmentFacts DEF NewEntry
    <3>2. CASE k \in K
      BY <1>9, <3>2 DEF IInv, TypeOK
    <3> QED
      BY <1>5, <3>1, <3>2
  <2>3. evictions' \in Nat
    <3>1. evictions' = evictions + Cardinality(D \cap Popped(i))
      BY <1>1
    <3>2. evictions \in Nat
      BY DEF IInv, TypeOK
    <3> QED
      BY <1>4, <3>1, <3>2
  <2>4. tally' \in [opened : Nat, completed : Nat, dropped : Nat, expired : Nat]
    BY <1>2 DEF IInv, TypeOK
  <2> QED
    BY <1>2, <1>3, <1>6, <1>8, <2>1, <2>2, <2>3, <2>4 DEF TypeOK, Return
<1>12. PendingBounded'
  BY <1>1, <1>4, <1>6, ReassemblerAssumption DEF PendingBounded, EvictsUpTo, MakesRoom
<1>13. OrderCoversPending'
  <2>1. ASSUME NEW k \in K
        PROVE  \E n \in 1 .. Len(order') : order'[n] = k
    <3>1. PICK m \in 1 .. Len(order) : order[m] = k
      BY DEF IInv, OrderCoversPending
    <3>2. ~(m <= i)
      BY <3>1 DEF Popped
    <3>3. m - i \in 1 .. Len(order) - i /\ i + (m - i) = m
      BY <1>3, <3>2
    <3>4. m - i \in 1 .. Len(order')
      BY <1>3, <1>8, <3>3
    <3> QED
      BY <1>8, <3>1, <3>3, <3>4
  <2>2. \E n \in 1 .. Len(order') : order'[n] = Key(h)
    BY <1>3, <1>8
  <2> QED
    BY <1>5, <2>1, <2>2 DEF OrderCoversPending
<1>14. Conservation'
  <2>1. /\ tally'.opened = tally.opened + 1 /\ tally'.completed = tally.completed
        /\ tally'.dropped = tally.dropped /\ tally'.expired = tally.expired
    BY <1>2 DEF IInv, TypeOK
  <2>2. /\ evictions \in Nat /\ tally.opened \in Nat /\ tally.completed \in Nat
        /\ tally.dropped \in Nat /\ tally.expired \in Nat
    BY DEF IInv, TypeOK
  <2>3. tally.opened = Cardinality(D) + tally.completed + tally.dropped
                       + tally.expired + evictions
    BY DEF IInv, Conservation
  <2>4. evictions' = evictions + Cardinality(D \cap Popped(i))
    BY <1>1
  <2>5. Cardinality(DOMAIN entries') = Cardinality(D) - Cardinality(D \cap Popped(i)) + 1
    BY <1>4, <1>6
  <2>6. tally'.opened = Cardinality(DOMAIN entries') + tally'.completed + tally'.dropped
                        + tally'.expired + evictions'
    <3> DEFINE before == Cardinality(D)
               after == Cardinality(DOMAIN entries')
               gone == Cardinality(D \cap Popped(i))
    <3>1. before \in Nat /\ gone \in Nat
      BY <1>4
    <3>2. /\ tally.opened = before + tally.completed + tally.dropped
                            + tally.expired + evictions
          /\ evictions' = evictions + gone /\ after = before - gone + 1
      BY <2>3, <2>4, <2>5
    <3>3. tally'.opened = after + tally'.completed + tally'.dropped
                          + tally'.expired + evictions'
      <4> HIDE DEF before, after, gone
      <4> QED
        <5>1. tally'.opened = tally.opened + 1
          BY <2>1
        <5>2. tally'.completed = tally.completed /\ tally'.dropped = tally.dropped
              /\ tally'.expired = tally.expired
          BY <2>1
        <5>3. before + tally.completed + tally.dropped + tally.expired + evictions + 1
                = (before - gone + 1) + tally.completed + tally.dropped + tally.expired
                  + (evictions + gone)
          <6> DEFINE x == tally.completed
                     y == tally.dropped
                     z == tally.expired
          <6>1. x \in Nat /\ y \in Nat /\ z \in Nat /\ evictions \in Nat
            BY <2>2
          <6> HIDE DEF x, y, z
          <6>2. before + x + y + z + evictions + 1 = (before - gone + 1) + x + y + z + (evictions + gone)
            BY <3>1, <6>1
          <6> QED
            BY <6>2 DEF x, y, z
        <5>4. after + tally'.completed + tally'.dropped + tally'.expired + evictions'
                = (before - gone + 1) + tally.completed + tally.dropped + tally.expired
                  + (evictions + gone)
          BY <3>2, <5>2, Zenon
        <5>5. tally'.opened
                = before + tally.completed + tally.dropped + tally.expired + evictions + 1
          BY <3>2, <5>1, Zenon
        <5> QED
          BY <5>3, <5>4, <5>5, Zenon
    <3> QED
      BY <3>3
  <2> QED
    BY <2>6 DEF Conservation
<1>15. PendingSound'
  <2>1. ASSUME NEW k \in K
        PROVE  /\ Cardinality(DOMAIN entries'[k].buffer) \in 1 .. entries'[k].count - 1
               /\ PiecesOf(entries'[k].buffer, k, entries'[k].count, entries'[k].length)
    BY <1>9 DEF IInv, PendingSound
  <2>2. /\ DOMAIN NewEntry(h).buffer = {h.index} /\ NewEntry(h).buffer[h.index] = h.body
        /\ NewEntry(h).count = h.count /\ NewEntry(h).length = h.length
    BY DEF NewEntry
  <2>3. Cardinality(DOMAIN NewEntry(h).buffer) \in 1 .. h.count - 1
    <3>1. Cardinality({h.index}) = 1
      BY FS_Singleton
    <3>2. 1 \in 1 .. h.count - 1
      BY <1>2, FragmentFacts
    <3> QED
      BY <2>2, <3>1, <3>2
  <2>4. PiecesOf(NewEntry(h).buffer, Key(h), h.count, h.length)
    BY <2>2 DEF PiecesOf
  <2> QED
    BY <1>5, <1>10, <2>1, <2>2, <2>3, <2>4 DEF PendingSound
<1>16. DeliveredWhole'
  BY <1>2 DEF DeliveredWhole, Return
<1> QED
  BY <1>11, <1>12, <1>13, <1>14, <1>15, <1>16 DEF IInv

\* Erasing the one entry of key k, and counting it under one end.
LEMMA EraseInv ==
    ASSUME IInv, NEW k \in DOMAIN entries, entries' = Without({k}),
           UNCHANGED <<order, evictions, now>>,
           tally' \in [opened : Nat, completed : Nat, dropped : Nat, expired : Nat],
           tally'.opened = tally.opened,
           tally'.completed + tally'.dropped + tally'.expired
             = tally.completed + tally.dropped + tally.expired + 1,
           ret'.result \in {"Complete", "Malformed"}, ret'.new_message = FALSE
    PROVE  TypeOK' /\ PendingBounded' /\ OrderCoversPending' /\ Conservation' /\ PendingSound'
<1>1. /\ DOMAIN entries' = DOMAIN entries \ {k}
      /\ \A l \in DOMAIN entries' : entries'[l] = entries[l]
  BY DEF Without
<1>2. IsFiniteSet(DOMAIN entries)
  BY DEF IInv, TypeOK
<1>3. /\ IsFiniteSet(DOMAIN entries')
      /\ Cardinality(DOMAIN entries) \in Nat /\ Cardinality(DOMAIN entries') \in Nat
      /\ Cardinality(DOMAIN entries') = Cardinality(DOMAIN entries) - 1
  BY <1>1, <1>2, RemovedOne
<1>4. TypeOK'
  BY <1>1, <1>3 DEF IInv, TypeOK
<1>5. PendingBounded'
  BY <1>3, ReassemblerAssumption DEF IInv, PendingBounded
<1>6. OrderCoversPending' /\ PendingSound'
  BY <1>1 DEF IInv, OrderCoversPending, PendingSound
<1>7. Conservation'
  <2> DEFINE before == Cardinality(DOMAIN entries)
             after == Cardinality(DOMAIN entries')
  <2>1. before \in Nat /\ after \in Nat /\ after = before - 1
    BY <1>3
  <2>2. /\ tally.opened = before + tally.completed + tally.dropped
                          + tally.expired + evictions
        /\ evictions \in Nat
        /\ tally \in [opened : Nat, completed : Nat, dropped : Nat, expired : Nat]
    BY DEF IInv, Conservation, TypeOK
  <2>3. tally'.opened = after + tally'.completed + tally'.dropped
                        + tally'.expired + evictions'
    <3> HIDE DEF before, after
    <3> QED
      BY <2>1, <2>2
  <2> QED
    BY <2>3 DEF Conservation
<1> QED
  BY <1>4, <1>5, <1>6, <1>7

LEMMA DropInv ==
    ASSUME IInv, NEW h \in Fragment, Drop(h), UNCHANGED now
    PROVE  IInv'
<1>1. /\ Key(h) \in DOMAIN entries /\ entries' = Without({Key(h)})
      /\ ret' = Return("Malformed", FALSE, NoMessage)
      /\ tally' = [tally EXCEPT !.dropped = @ + 1]
      /\ UNCHANGED <<order, evictions>>
  BY DEF Drop, Known
<1>2. tally \in [opened : Nat, completed : Nat, dropped : Nat, expired : Nat]
  BY DEF IInv, TypeOK
<1>3. TypeOK' /\ PendingBounded' /\ OrderCoversPending' /\ Conservation' /\ PendingSound'
  BY <1>1, <1>2, EraseInv DEF Return
<1>4. DeliveredWhole'
  BY <1>1 DEF DeliveredWhole, Return
<1> QED
  BY <1>3, <1>4 DEF IInv

\* What an entry holds once a new fragment of its message is copied in.
LEMMA FilledFacts ==
    ASSUME IInv, NEW h \in Fragment, Known(h), Consistent(h),
           h.index \notin DOMAIN entries[Key(h)].buffer
    PROVE  LET e == entries[Key(h)]
               b == Filled(e, h)
           IN  /\ DOMAIN b \subseteq 0 .. e.count - 1
               /\ IsFiniteSet(DOMAIN b) /\ Cardinality(DOMAIN b) \in Nat \ {0}
               /\ PiecesOf(b, Key(h), e.count, e.length)
               /\ e.count \in Nat /\ e.count = h.count /\ e.length = h.length
<1> DEFINE e == entries[Key(h)]
           b == Filled(e, h)
<1>1. /\ e.count = h.count /\ e.length = h.length /\ e.count \in Nat
      /\ DOMAIN e.buffer \subseteq 0 .. e.count - 1
      /\ PiecesOf(e.buffer, Key(h), e.count, e.length)
  BY DEF IInv, TypeOK, PendingSound, Known, Consistent
<1>2. /\ DOMAIN b = DOMAIN e.buffer \cup {h.index} /\ b[h.index] = h.body
      /\ \A i \in DOMAIN e.buffer : b[i] = e.buffer[i]
  BY DEF Filled
<1>3. DOMAIN b \subseteq 0 .. e.count - 1
  BY <1>1, <1>2, FragmentFacts
<1>4. IsFiniteSet(DOMAIN b)
  <2>1. IsFiniteSet(0 .. e.count - 1)
    BY <1>1, FS_Interval
  <2> HIDE DEF e, b
  <2> QED
    BY <1>3, <2>1, FS_Subset
<1>5. Cardinality(DOMAIN b) \in Nat \ {0}
  <2>1. DOMAIN b # {}
    BY <1>2
  <2> HIDE DEF b
  <2> QED
    BY <1>4, <2>1, FS_CardinalityType, FS_EmptySet
<1>6. PiecesOf(b, Key(h), e.count, e.length)
  BY <1>1, <1>2 DEF PiecesOf
<1> QED
  BY <1>1, <1>3, <1>4, <1>5, <1>6

LEMMA StoreInv ==
    ASSUME IInv, NEW h \in Fragment, Store(h), UNCHANGED now
    PROVE  IInv'
<1> DEFINE e == entries[Key(h)]
           b == Filled(e, h)
<1>1. /\ Known(h) /\ Consistent(h) /\ h.index \notin DOMAIN e.buffer
      /\ Cardinality(DOMAIN b) < e.count
      /\ entries' = [entries EXCEPT ![Key(h)].buffer = b]
      /\ ret' = Return("Incomplete", FALSE, NoMessage)
      /\ UNCHANGED <<order, evictions, tally>>
  BY DEF Store
<1>2. /\ DOMAIN b \subseteq 0 .. e.count - 1
      /\ Cardinality(DOMAIN b) \in Nat \ {0}
      /\ PiecesOf(b, Key(h), e.count, e.length)
      /\ e.count \in Nat
  BY <1>1, FilledFacts
<1> HIDE DEF b
<1>3. Key(h) \in DOMAIN entries
  BY <1>1 DEF Known
<1>4. /\ DOMAIN entries' = DOMAIN entries
      /\ entries'[Key(h)] = [e EXCEPT !.buffer = b]
      /\ \A k \in DOMAIN entries \ {Key(h)} : entries'[k] = entries[k]
  BY <1>1, <1>3
<1>5. /\ entries'[Key(h)].first_seen = e.first_seen /\ entries'[Key(h)].count = e.count
      /\ entries'[Key(h)].length = e.length /\ entries'[Key(h)].buffer = b
      /\ DOMAIN entries'[Key(h)] = {"first_seen", "timestamp", "count", "length", "buffer"}
  <2>1. DOMAIN e = {"first_seen", "timestamp", "count", "length", "buffer"}
    BY <1>3 DEF IInv, TypeOK
  <2> HIDE DEF e
  <2> QED
    BY <1>4, <2>1, Zenon
<1>6. TypeOK'
  <2>1. ASSUME NEW k \in DOMAIN entries'
        PROVE  /\ DOMAIN entries'[k] = {"first_seen", "timestamp", "count", "length", "buffer"}
               /\ entries'[k].first_seen \in 0 .. now
               /\ entries'[k].count \in Nat /\ entries'[k].length \in Nat
               /\ DOMAIN entries'[k].buffer \subseteq 0 .. entries'[k].count - 1
    <3>1. CASE k = Key(h)
      BY <1>2, <1>3, <1>5, <3>1 DEF IInv, TypeOK
    <3>2. CASE k # Key(h)
      BY <1>4, <3>2 DEF IInv, TypeOK
    <3> QED
      BY <3>1, <3>2
  <2> QED
    BY <1>1, <1>4, <2>1 DEF IInv, TypeOK, Return
<1>7. PendingBounded' /\ OrderCoversPending' /\ Conservation'
  BY <1>1, <1>4 DEF IInv, PendingBounded, OrderCoversPending, Conservation
<1>8. PendingSound'
  <2>1. ASSUME NEW k \in DOMAIN entries'
        PROVE  /\ Cardinality(DOMAIN entries'[k].buffer) \in 1 .. entries'[k].count - 1
               /\ PiecesOf(entries'[k].buffer, k, entries'[k].count, entries'[k].length)
    <3>1. CASE k = Key(h)
      <4>1. Cardinality(DOMAIN b) \in 1 .. e.count - 1
        BY <1>1, <1>2
      <4> QED
        BY <1>2, <1>5, <3>1, <4>1
    <3>2. CASE k # Key(h)
      BY <1>4, <3>2 DEF IInv, PendingSound
    <3> QED
      BY <3>1, <3>2
  <2> QED
    BY <2>1 DEF PendingSound
<1>9. DeliveredWhole'
  BY <1>1 DEF DeliveredWhole, Return
<1> QED
  BY <1>6, <1>7, <1>8, <1>9 DEF IInv

\* The bytes of a message with as many fragments as its count cover all indices.
LEMMA CompleteInv ==
    ASSUME IInv, NEW h \in Fragment, Complete(h), UNCHANGED now
    PROVE  IInv'
<1> DEFINE e == entries[Key(h)]
           b == Filled(e, h)
<1>1. /\ Known(h) /\ Consistent(h) /\ h.index \notin DOMAIN e.buffer
      /\ ~(Cardinality(DOMAIN b) < e.count)
      /\ ret' = Return("Complete", FALSE,
                       [source |-> h.source, sequence |-> h.sequence,
                        timestamp |-> e.timestamp, data |-> b])
      /\ entries' = Without({Key(h)})
      /\ tally' = [tally EXCEPT !.completed = @ + 1]
      /\ UNCHANGED <<order, evictions>>
  BY DEF Complete
<1>2. /\ DOMAIN b \subseteq 0 .. e.count - 1
      /\ IsFiniteSet(DOMAIN b) /\ Cardinality(DOMAIN b) \in Nat \ {0}
      /\ PiecesOf(b, Key(h), e.count, e.length)
      /\ e.count \in Nat /\ e.count = h.count /\ e.length = h.length
  BY <1>1, FilledFacts
<1> HIDE DEF b
<1>3. DOMAIN b = 0 .. h.count - 1
  <2>1. IsFiniteSet(0 .. e.count - 1) /\ Cardinality(0 .. e.count - 1) = e.count
    <3>1. ASSUME NEW n \in Nat
          PROVE  IsFiniteSet(0 .. n - 1) /\ Cardinality(0 .. n - 1) = n
      BY FS_Interval
    <3> QED
      BY <1>2, <3>1
  <2>2. /\ Cardinality(DOMAIN b) <= Cardinality(0 .. e.count - 1)
        /\ Cardinality(0 .. e.count - 1) = Cardinality(DOMAIN b) => 0 .. e.count - 1 = DOMAIN b
    BY <1>2, <2>1, FS_Subset
  <2>3. Cardinality(DOMAIN b) = e.count
    BY <1>1, <1>2, <2>1, <2>2
  <2> QED
    BY <1>2, <2>1, <2>2, <2>3
<1>4. TypeOK' /\ PendingBounded' /\ OrderCoversPending' /\ Conservation' /\ PendingSound'
  <2>1. tally \in [opened : Nat, completed : Nat, dropped : Nat, expired : Nat]
    BY DEF IInv, TypeOK
  <2>2. Key(h) \in DOMAIN entries
    BY <1>1 DEF Known
  <2> QED
    BY <1>1, <2>1, <2>2, EraseInv DEF Return
<1>5. DeliveredWhole'
  <2>1. /\ <<ret'.out.source, ret'.out.sequence>> = Key(h)
        /\ ret'.out.data = b
    BY <1>1 DEF Return, Key
  <2> QED
    BY <1>2, <1>3, <2>1 DEF DeliveredWhole
<1> QED
  BY <1>4, <1>5 DEF IInv

\* The sweep.
LEMMA ExpireInv ==
    ASSUME IInv, Expire, UNCHANGED now
    PROVE  IInv'
<1>1. PICK i \in 0 .. Len(order) :
        /\ SweepsUpTo(i)
        /\ entries' = Without(Popped(i))
        /\ order' = Compacted(SubSeq(order, i + 1, Len(order)),
                              DOMAIN entries \ Popped(i))
        /\ tally' = [tally EXCEPT !.expired =
                        @ + Cardinality(DOMAIN entries \cap Popped(i))]
  BY DEF Expire
<1>2. UNCHANGED <<evictions, ret>>
  BY DEF Expire
<1> DEFINE D == DOMAIN entries
           K == D \ Popped(i)
           tail == SubSeq(order, i + 1, Len(order))
<1>3. /\ IsFiniteSet(D) /\ order \in Seq(Keys) /\ Len(order) \in Nat
      /\ tally \in [opened : Nat, completed : Nat, dropped : Nat, expired : Nat]
  BY DEF IInv, TypeOK
<1>4. /\ IsFiniteSet(K) /\ Cardinality(K) \in Nat
      /\ Cardinality(D) \in Nat /\ Cardinality(D \cap Popped(i)) \in Nat
      /\ Cardinality(K) = Cardinality(D) - Cardinality(D \cap Popped(i))
  BY <1>3, RemovedCount
<1>5. DOMAIN entries' = K /\ \A k \in K : entries'[k] = entries[k]
  BY <1>1 DEF Without
<1>6. /\ tail \in Seq(Keys) /\ Len(tail) = Len(order) - i
      /\ \A n \in 1 .. Len(order) - i : tail[n] = order[i + n]
  BY <1>3, SubSeqProperties, ElementOfSeq
<1>7. /\ order' \in Seq(Keys)
      /\ \A m \in 1 .. Len(tail) : tail[m] \in K =>
            \E n \in 1 .. Len(order') : order'[n] = tail[m]
  <2>1. order' = Compacted(tail, K)
    BY <1>1
  <2> HIDE DEF tail, K
  <2> QED
    BY <1>6, <2>1, CompactedKeeps
<1>8. TypeOK'
  <2>1. tally' \in [opened : Nat, completed : Nat, dropped : Nat, expired : Nat]
    <3>1. Cardinality(D \cap Popped(i)) \in Nat
      BY <1>4
    <3> DEFINE gone == Cardinality(D \cap Popped(i))
    <3>2. tally' = [tally EXCEPT !.expired = @ + gone]
      BY <1>1
    <3> HIDE DEF gone
    <3> QED
      BY <1>3, <3>1, <3>2 DEF gone
  <2>2. DOMAIN entries' \subseteq Keys
    BY <1>5 DEF IInv, TypeOK
  <2>3. ASSUME NEW k \in DOMAIN entries'
        PROVE  /\ DOMAIN entries'[k] = {"first_seen", "timestamp", "count", "length", "buffer"}
               /\ entries'[k].first_seen \in 0 .. now
               /\ entries'[k].count \in Nat /\ entries'[k].length \in Nat
               /\ DOMAIN entries'[k].buffer \subseteq 0 .. entries'[k].count - 1
    BY <1>5 DEF IInv, TypeOK
  <2> HIDE DEF K
  <2> QED
    BY <1>2, <1>4, <1>5, <1>7, <2>1, <2>2, <2>3 DEF IInv, TypeOK
<1>9. PendingBounded'
  BY <1>4, <1>5, ReassemblerAssumption DEF IInv, PendingBounded
<1>10. OrderCoversPending'
  <2>1. ASSUME NEW k \in K
        PROVE  \E n \in 1 .. Len(order') : order'[n] = k
    <3>1. PICK m \in 1 .. Len(order) : order[m] = k
      BY DEF IInv, OrderCoversPending
    <3>2. ~(m <= i)
      BY <3>1 DEF Popped
    <3>3. m - i \in 1 .. Len(order) - i /\ i + (m - i) = m
      BY <1>3, <3>2
    <3>4. m - i \in 1 .. Len(tail) /\ tail[m - i] = k
      <4> HIDE DEF tail
      <4> QED
        BY <1>6, <3>1, <3>3
    <3> HIDE DEF tail, K
    <3> QED
      BY <1>7, <3>4
  <2> QED
    BY <1>5, <2>1 DEF OrderCoversPending
<1>11. Conservation'
  <2> DEFINE before == Cardinality(D)
             after == Cardinality(DOMAIN entries')
             gone == Cardinality(D \cap Popped(i))
  <2>1. before \in Nat /\ gone \in Nat /\ after = before - gone
    BY <1>4, <1>5
  <2>2. /\ tally.opened = before + tally.completed + tally.dropped
                          + tally.expired + evictions
        /\ evictions \in Nat
    BY DEF IInv, Conservation, TypeOK
  <2>3. /\ tally'.opened = tally.opened /\ tally'.completed = tally.completed
        /\ tally'.dropped = tally.dropped /\ tally'.expired = tally.expired + gone
    BY <1>1, <1>3
  <2>4. tally'.opened = after + tally'.completed + tally'.dropped
                        + tally'.expired + evictions'
    <3> HIDE DEF before, after, gone
    <3> QED
      BY <1>2, <1>3, <2>1, <2>2, <2>3
  <2> QED
    BY <2>4 DEF Conservation
<1>12. PendingSound'
  BY <1>5 DEF IInv, PendingSound
<1>13. DeliveredWhole'
  BY <1>2 DEF IInv, DeliveredWhole
<1> QED
  BY <1>8, <1>9, <1>10, <1>11, <1>12, <1>13 DEF IInv

LEMMA TickInv ==
    ASSUME IInv, Tick
    PROVE  IInv'
<1>1. /\ UNCHANGED <<entries, order, evictions, ret, tally>>
      /\ now \in Nat /\ now' = now + 1
  BY DEF Tick, IInv, TypeOK
<1>2. TypeOK'
  <2>1. \A k \in DOMAIN entries : entries[k].first_seen \in 0 .. now'
    BY <1>1 DEF IInv, TypeOK
  <2> QED
    BY <1>1, <2>1 DEF IInv, TypeOK
<1>3. /\ PendingBounded' /\ OrderCoversPending' /\ Conservation'
      /\ PendingSound' /\ DeliveredWhole'
  BY <1>1 DEF IInv, PendingBounded, OrderCoversPending, Conservation,
              PendingSound, DeliveredWhole
<1> QED
  BY <1>2, <1>3 DEF IInv

LEMMA StepInv == IInv /\ [Next]_vars => IInv'
<1> SUFFICES ASSUME IInv, [Next]_vars
             PROVE  IInv'
  OBVIOUS
<1>1. ASSUME NEW h \in Fragment, Arrive(h)
      PROVE  IInv'
  <2>1. Add(h) /\ UNCHANGED now
    BY <1>1 DEF Arrive
  <2>2. CASE FastPath(h)
    BY <2>1, <2>2, FastPathInv
  <2>3. CASE TooLong(h) \/ Repeat(h)
    BY <2>1, <2>3, RefusedInv
  <2>4. CASE Open(h)
    BY <2>1, <2>4, OpenInv
  <2>5. CASE Drop(h)
    BY <2>1, <2>5, DropInv
  <2>6. CASE Store(h)
    BY <2>1, <2>6, StoreInv
  <2>7. CASE Complete(h)
    BY <2>1, <2>7, CompleteInv
  <2> QED
    BY <2>1, <2>2, <2>3, <2>4, <2>5, <2>6, <2>7 DEF Add
<1>2. CASE Sweep
  BY <1>2, ExpireInv DEF Sweep
<1>3. CASE Tick
  BY <1>3, TickInv
<1>4. CASE UNCHANGED vars
  BY <1>4 DEF vars, IInv, TypeOK, PendingBounded, OrderCoversPending, Conservation,
              PendingSound, DeliveredWhole
<1> QED
  BY <1>1, <1>2, <1>3, <1>4 DEF Next

-----------------------------------------------------------------------------
(* The order of arrival, kept by every step from a state of IInv.          *)

\* Erasing entries and stale copies of keys keeps the order of arrival.
LEMMA ThinnedOrder ==
    ASSUME IInv, ArrivalOrder, order' \in Seq(Keys),
           DOMAIN entries' \subseteq DOMAIN entries,
           \A k \in DOMAIN entries' : entries'[k].first_seen = entries[k].first_seen,
           NEW at \in [1 .. Len(order') -> 1 .. Len(order)],
           \A n \in 1 .. Len(order') : order'[n] = order[at[n]],
           \A n, m \in 1 .. Len(order') : n < m => at[n] < at[m],
           \A i \in 1 .. Len(order) : order[i] \in DOMAIN entries' =>
              \E n \in 1 .. Len(order') : at[n] = i
    PROVE  ArrivalOrder'
<1>1. Len(order) \in Nat /\ Len(order') \in Nat
  BY LenProperties DEF IInv, TypeOK
<1>2. SUFFICES ASSUME NEW n \in 1 .. Len(order'), NEW m \in n + 1 .. Len(order'),
                      order'[n] \in DOMAIN entries', order'[m] \in DOMAIN entries',
                      \A q \in n + 1 .. Len(order') : order'[q] # order'[n]
               PROVE  entries'[order'[n]].first_seen <= entries'[order'[m]].first_seen
  BY DEF ArrivalOrder, Live, LastCopy
<1>3. n \in Nat /\ m \in 1 .. Len(order') /\ n < m
  BY <1>1
<1>4. /\ at[n] \in 1 .. Len(order) /\ at[m] \in 1 .. Len(order) /\ at[n] < at[m]
      /\ order[at[n]] = order'[n] /\ order[at[m]] = order'[m]
  BY <1>3
<1>5. at[m] \in at[n] + 1 .. Len(order)
  BY <1>1, <1>4
<1>6. Live(at[n]) /\ Live(at[m])
  BY <1>2, <1>4 DEF Live
<1>7. ASSUME NEW i \in at[n] + 1 .. Len(order), order[i] = order[at[n]]
      PROVE  FALSE
  <2>1. i \in 1 .. Len(order) /\ at[n] < i
    BY <1>1, <1>4
  <2>2. PICK q \in 1 .. Len(order') : at[q] = i
    BY <1>2, <1>4, <1>7, <2>1
  <2>3. q # n /\ ~(q < n)
    BY <1>4, <2>1, <2>2
  <2>4. q \in n + 1 .. Len(order')
    BY <1>1, <2>3
  <2> QED
    BY <1>2, <1>4, <1>7, <2>2, <2>4
<1>8. LastCopy(at[n])
  BY <1>7 DEF LastCopy
<1>9. entries[order[at[n]]].first_seen <= entries[order[at[m]]].first_seen
  BY <1>4, <1>5, <1>6, <1>8 DEF ArrivalOrder
<1> QED
  BY <1>2, <1>4, <1>9

\* So does a step that leaves order_ alone and makes no entry.
LEMMA SameOrder ==
    ASSUME IInv, ArrivalOrder, order' = order,
           DOMAIN entries' \subseteq DOMAIN entries,
           \A k \in DOMAIN entries' : entries'[k].first_seen = entries[k].first_seen
    PROVE  ArrivalOrder'
<1>1. \A n \in 1 .. Len(order) : \A m \in n + 1 .. Len(order) :
         /\ order[n] \in DOMAIN entries'
         /\ order[m] \in DOMAIN entries'
         /\ LastCopy(n)
         => entries'[order[n]].first_seen <= entries'[order[m]].first_seen
  BY DEF ArrivalOrder, Live
<1> QED
  BY <1>1 DEF ArrivalOrder, Live, LastCopy

\* A new entry is the youngest and goes to the end of order_; older copies of
\* its key are no last copies any more.
LEMMA OpenOrder ==
    ASSUME IInv, ArrivalOrder, NEW h \in Fragment, Open(h), UNCHANGED now
    PROVE  ArrivalOrder'
<1>1. PICK i \in 0 .. Len(order) :
        /\ entries' = [k \in (DOMAIN entries \ Popped(i)) \cup {Key(h)} |->
                          IF k = Key(h) THEN NewEntry(h) ELSE entries[k]]
        /\ order' = Append(SubSeq(order, i + 1, Len(order)), Key(h))
  BY DEF Open
<1>2. order \in Seq(Keys) /\ Len(order) \in Nat /\ now \in Nat
  BY LenProperties DEF IInv, TypeOK
<1> DEFINE L == Len(order) - i
           tail == SubSeq(order, i + 1, Len(order))
<1>3. L \in Nat /\ i \in Nat /\ i + L = Len(order)
  BY <1>2
<1>4. /\ tail \in Seq(Keys) /\ Len(tail) = L
      /\ \A n \in 1 .. L : tail[n] = order[i + n]
  BY <1>2, SubSeqProperties, ElementOfSeq
<1>5. /\ Len(order') = L + 1 /\ order'[L + 1] = Key(h)
      /\ \A n \in 1 .. L : order'[n] = order[i + n]
  <2>1. order' = Append(tail, Key(h)) /\ Key(h) \in Keys
    BY <1>1, FragmentFacts
  <2> HIDE DEF tail, L
  <2> QED
    BY <1>4, <2>1, AppendProperties
<1>6. /\ \A k \in DOMAIN entries' : k # Key(h) => k \in DOMAIN entries /\ entries'[k] = entries[k]
      /\ entries'[Key(h)].first_seen = now
  BY <1>1 DEF NewEntry
<1> HIDE DEF L, tail
<1>7. SUFFICES ASSUME NEW n \in 1 .. L + 1, NEW m \in n + 1 .. L + 1,
                      order'[n] \in DOMAIN entries', order'[m] \in DOMAIN entries',
                      \A q \in n + 1 .. L + 1 : order'[q] # order'[n]
               PROVE  entries'[order'[n]].first_seen <= entries'[order'[m]].first_seen
  BY <1>5 DEF ArrivalOrder, Live, LastCopy
<1>8. n \in 1 .. L /\ L + 1 \in n + 1 .. L + 1
  BY <1>3
<1>9. order'[n] # Key(h)
  BY <1>5, <1>7, <1>8
<1>10. /\ order'[n] = order[i + n] /\ Live(i + n)
       /\ entries'[order'[n]] = entries[order[i + n]]
  BY <1>5, <1>6, <1>7, <1>8, <1>9 DEF Live
<1>11. CASE order'[m] = Key(h)
  <2>1. entries[order[i + n]].first_seen <= now
    BY <1>2, <1>10 DEF IInv, TypeOK, Live
  <2> QED
    BY <1>6, <1>10, <1>11, <2>1
<1>12. CASE order'[m] # Key(h)
  <2>1. m \in 1 .. L
    <3>1. m \in 1 .. L + 1
      BY <1>3, <1>7
    <3>2. m # L + 1
      BY <1>5, <1>12
    <3> QED
      BY <1>3, <3>1, <3>2
  <2>2. order'[m] = order[i + m] /\ Live(i + m) /\ entries'[order'[m]] = entries[order[i + m]]
    BY <1>5, <1>6, <1>7, <1>12, <2>1 DEF Live
  <2>3. i + n \in 1 .. Len(order) /\ i + m \in (i + n) + 1 .. Len(order)
    BY <1>2, <1>3, <1>8, <2>1
  <2>4. ASSUME NEW q \in (i + n) + 1 .. Len(order) PROVE order[q] # order[i + n]
    <3>1. q - i \in n + 1 .. L + 1 /\ q - i \in 1 .. L /\ i + (q - i) = q
      BY <1>2, <1>3, <1>8
    <3>2. order'[q - i] = order[q]
      BY <1>5, <3>1
    <3> QED
      BY <1>7, <1>10, <3>1, <3>2
  <2>5. LastCopy(i + n)
    BY <2>4 DEF LastCopy
  <2>6. entries[order[i + n]].first_seen <= entries[order[i + m]].first_seen
    BY <1>10, <2>2, <2>3, <2>5 DEF ArrivalOrder
  <2> QED
    BY <1>10, <2>2, <2>6
<1> QED
  BY <1>11, <1>12

\* The sweep pops a front of order_ that holds no key it leaves an entry of,
\* and compaction keeps the copies of the keys that have entries, in order.
LEMMA ExpireOrder ==
    ASSUME IInv, ArrivalOrder, Expire, UNCHANGED now
    PROVE  ArrivalOrder'
<1>1. PICK i \in 0 .. Len(order) :
        /\ entries' = Without(Popped(i))
        /\ order' = Compacted(SubSeq(order, i + 1, Len(order)), DOMAIN entries \ Popped(i))
  BY DEF Expire
<1>2. order \in Seq(Keys) /\ Len(order) \in Nat
  BY LenProperties DEF IInv, TypeOK
<1> DEFINE tail == SubSeq(order, i + 1, Len(order))
           K == DOMAIN entries \ Popped(i)
<1>3. /\ tail \in Seq(Keys) /\ Len(tail) = Len(order) - i
      /\ \A n \in 1 .. Len(order) - i : tail[n] = order[i + n]
  BY <1>2, SubSeqProperties, ElementOfSeq
<1>4. /\ DOMAIN entries' = K /\ K \subseteq DOMAIN entries
      /\ \A k \in K : entries'[k].first_seen = entries[k].first_seen
  BY <1>1 DEF Without
<1>5. order' = Compacted(tail, K)
  BY <1>1
<1>6. \A j \in 1 .. i : order[j] \notin K
  BY DEF Popped
<1> HIDE DEF tail, K
<1>7. order' \in Seq(Keys) /\ Len(order') \in Nat
  BY <1>3, <1>5, CompactedKeeps, LenProperties
<1>8. PICK at \in [1 .. Len(order') -> 1 .. Len(tail)] :
        /\ \A n \in 1 .. Len(order') : order'[n] = tail[at[n]]
        /\ \A n, m \in 1 .. Len(order') : n < m => at[n] < at[m]
        /\ \A j \in 1 .. Len(tail) : tail[j] \in K =>
              \E n \in 1 .. Len(order') : at[n] = j
  BY <1>3, <1>5, CompactedOrder
<1> DEFINE from == [n \in 1 .. Len(order') |-> i + at[n]]
<1>9. from \in [1 .. Len(order') -> 1 .. Len(order)]
  BY <1>2, <1>3, <1>8
<1>10. \A n \in 1 .. Len(order') : from[n] = i + at[n]
  OBVIOUS
<1> HIDE DEF from
<1>11. \A n \in 1 .. Len(order') : order'[n] = order[from[n]]
  BY <1>2, <1>3, <1>8, <1>10
<1>12. ASSUME NEW n \in 1 .. Len(order'), NEW m \in 1 .. Len(order'), n < m
       PROVE  from[n] < from[m]
  <2>1. at[n] < at[m] /\ at[n] \in Int /\ at[m] \in Int /\ i \in Int
    BY <1>2, <1>8, <1>12
  <2> QED
    BY <1>10, <2>1
<1>13. ASSUME NEW j \in 1 .. Len(order), order[j] \in DOMAIN entries'
       PROVE  \E n \in 1 .. Len(order') : from[n] = j
  <2>1. ~(j <= i)
    BY <1>4, <1>6, <1>13
  <2>2. j - i \in 1 .. Len(tail) /\ i + (j - i) = j
    BY <1>2, <1>3, <2>1
  <2>3. tail[j - i] \in K
    BY <1>3, <1>4, <1>13, <2>2
  <2>4. PICK n \in 1 .. Len(order') : at[n] = j - i
    BY <1>8, <2>2, <2>3
  <2> QED
    BY <1>10, <2>2, <2>4
<1> QED
  BY <1>4, <1>7, <1>9, <1>11, <1>12, <1>13, ThinnedOrder

LEMMA OrderStep == IInv /\ ArrivalOrder /\ [Next]_vars => ArrivalOrder'
<1> SUFFICES ASSUME IInv, ArrivalOrder, [Next]_vars
             PROVE  ArrivalOrder'
  OBVIOUS
<1>1. ASSUME NEW h \in Fragment, Arrive(h)
      PROVE  ArrivalOrder'
  <2>1. Add(h) /\ UNCHANGED now
    BY <1>1 DEF Arrive
  <2>2. CASE Open(h)
    BY <2>1, <2>2, OpenOrder
  <2>3. CASE ~Open(h)
    <3>1. order' = order
      BY <2>1, <2>3 DEF Add, FastPath, TooLong, Drop, Repeat, Store, Complete
    <3>2. CASE entries' = entries
      BY <3>1, <3>2, SameOrder
    <3>3. CASE entries' = Without({Key(h)})
      BY <3>1, <3>3, SameOrder DEF Without
    <3>4. CASE Store(h)
      <4>1. DOMAIN entries' = DOMAIN entries
        BY <3>4 DEF Store
      <4>2. \A k \in DOMAIN entries : entries'[k].first_seen = entries[k].first_seen
        <5>1. PICK b : entries' = [entries EXCEPT ![Key(h)].buffer = b]
          BY <3>4 DEF Store
        <5>2. ASSUME NEW k \in DOMAIN entries
              PROVE  \/ entries'[k] = entries[k]
                     \/ entries'[k] = [entries[k] EXCEPT !.buffer = b]
          BY <5>1
        <5>3. ASSUME NEW k \in DOMAIN entries, entries'[k] = [entries[k] EXCEPT !.buffer = b]
              PROVE  entries'[k].first_seen = entries[k].first_seen
          BY <5>3
        <5> QED
          BY <5>2, <5>3
      <4> QED
        BY <3>1, <4>1, <4>2, SameOrder
    <3> QED
      BY <2>1, <2>3, <3>2, <3>3, <3>4 DEF Add, FastPath, TooLong, Drop, Repeat, Complete
  <2> QED
    BY <2>2, <2>3
<1>2. CASE Sweep
  BY <1>2, ExpireOrder DEF Sweep
<1>3. CASE Tick \/ UNCHANGED vars
  BY <1>3, SameOrder DEF Tick, vars
<1> QED
  BY <1>1, <1>2, <1>3 DEF Next

-----------------------------------------------------------------------------
(* Theorems.                                                               *)

\* The inductive invariant holds of every reachable state.
THEOREM Invariance == Spec => []IInv
BY InitInv, StepInv, PTL DEF Spec

\* The variables keep their types (Reassembler's members and out-parameters).
THEOREM TypeCorrect == Spec => []TypeOK
<1>1. IInv => TypeOK
  BY DEF IInv
<1> QED
  BY <1>1, Invariance, PTL

\* add() and expire() keep at most max_pending messages (reassembler.cpp:35),
\* for every max_pending.
THEOREM PendingIsBounded == Spec => []PendingBounded
<1>1. IInv => PendingBounded
  BY DEF IInv
<1> QED
  BY <1>1, Invariance, PTL

\* order_ covers entries_, so evict_oldest() finds an entry while there is one,
\* and no entry escapes the sweep (reassembler.cpp:35-37, 100).
THEOREM EvictionFindsEntry == Spec => []OrderCoversPending
<1>1. IInv => OrderCoversPending
  BY DEF IInv
<1> QED
  BY <1>1, Invariance, PTL

\* The loops of add() and of expire() end: some number of pops makes room,
\* and some number of pops is all that the sweep does.
LoopsEnd == /\ \E i \in 0 .. Len(order) : EvictsUpTo(i)
            /\ \E i \in 0 .. Len(order) : SweepsUpTo(i)

\* Whenever add() or expire() is called, its loop over order_ ends
\* (reassembler.cpp:35, 81 and 100): the receiver's only thread cannot spin.
THEOREM LoopsTerminate == Spec => []LoopsEnd
<1>1. ASSUME IInv PROVE \E i \in 0 .. Len(order) : EvictsUpTo(i)
  <2> DEFINE T == {i \in 0 .. Len(order) : MakesRoom(i)}
  <2>1. Len(order) \in Nat
    BY <1>1, LenProperties DEF IInv, TypeOK
  <2>2. DOMAIN entries \ Popped(Len(order)) = {}
    BY <1>1 DEF IInv, OrderCoversPending, Popped
  <2>3. MakesRoom(Len(order))
    BY <2>2, FS_EmptySet, ReassemblerAssumption DEF MakesRoom
  <2>4. T \in SUBSET Nat /\ T # {}
    BY <2>1, <2>3
  <2>5. \E i \in T : \A j \in T : i <= j
    <3> HIDE DEF T
    <3> QED
      BY <2>4, LeastElement
  <2>6. PICK i \in T : \A j \in T : i <= j
    BY <2>5
  <2> QED
    BY <2>1, <2>6 DEF EvictsUpTo
<1>2. ASSUME IInv PROVE \E i \in 0 .. Len(order) : SweepsUpTo(i)
  <2> DEFINE T == {i \in 0 .. Len(order) : ~Passes(i)}
  <2>1. Len(order) \in Nat
    BY <1>1, LenProperties DEF IInv, TypeOK
  <2>2. CASE T = {}
    <3>1. Passes(Len(order))
      BY <2>1, <2>2
    <3> QED
      BY <2>1, <3>1 DEF SweepsUpTo
  <2>3. CASE T # {}
    <3>1. \E i \in T : \A j \in T : i <= j
      <4>1. T \in SUBSET Nat
        BY <2>1
      <4> HIDE DEF T
      <4> QED
        BY <2>3, <4>1, LeastElement
    <3>2. PICK i \in T : \A j \in T : i <= j
      BY <3>1
    <3>3. i # 0
      BY <3>2 DEF Passes
    <3>4. i - 1 \in 0 .. Len(order) /\ Passes(i - 1) /\ ~Passes((i - 1) + 1)
      BY <2>1, <3>2, <3>3
    <3> QED
      BY <3>4 DEF SweepsUpTo
  <2> QED
    BY <2>2, <2>3
<1>3. IInv => LoopsEnd
  BY <1>1, <1>2 DEF LoopsEnd
<1> QED
  BY <1>3, Invariance, PTL

\* No buffered message is lost from the account of add(), evict_oldest() and
\* expire(): opened = pending + completed + dropped + expired + evicted.
THEOREM NothingUnaccounted == Spec => []Conservation
<1>1. IInv => Conservation
  BY DEF IInv
<1> QED
  BY <1>1, Invariance, PTL

\* Pending messages hold pieces of one message each and are incomplete.
THEOREM PendingIsSound == Spec => []PendingSound
<1>1. IInv => PendingSound
  BY DEF IInv
<1> QED
  BY <1>1, Invariance, PTL

\* A sweep discards only entries whose timeout has passed (reassembler.cpp:107),
\* and leaves the others as they are.
THEOREM SweepIsNotEarly == Spec => ExpiresOnlyOverdue
<1>1. ASSUME TypeOK, [Next]_vars, SweepStep
      PROVE  /\ \A k \in DOMAIN entries \ DOMAIN entries' : Age(k) >= Timeout
             /\ \A k \in DOMAIN entries' : entries'[k] = entries[k]
  <2>1. Sweep
    <3>1. ASSUME NEW h \in Fragment, Add(h) PROVE tally'.expired = tally.expired
      BY <1>1, <3>1 DEF Add, FastPath, TooLong, Open, Drop, Repeat, Store, Complete, TypeOK
    <3>2. (Tick \/ UNCHANGED vars) => tally'.expired = tally.expired
      BY DEF Tick, vars
    <3> QED
      BY <1>1, <3>1, <3>2 DEF SweepStep, Next, Arrive
  <2>2. PICK i \in 0 .. Len(order) : SweepsUpTo(i) /\ entries' = Without(Popped(i))
    BY <2>1 DEF Sweep, Expire
  <2>3. /\ DOMAIN entries' = DOMAIN entries \ Popped(i)
        /\ \A k \in DOMAIN entries' : entries'[k] = entries[k]
    BY <2>2 DEF Without
  <2>4. ASSUME NEW k \in DOMAIN entries \ DOMAIN entries'
        PROVE  Age(k) >= Timeout
    <3>1. PICK j \in 1 .. i : order[j] = k
      BY <2>3 DEF Popped
    <3> QED
      BY <2>2, <3>1 DEF SweepsUpTo, Passes, Overdue, Age
  <2> QED
    BY <2>3, <2>4
<1>2. TypeOK /\ [Next]_vars =>
        [SweepStep => /\ \A k \in DOMAIN entries \ DOMAIN entries' : Age(k) >= Timeout
                      /\ \A k \in DOMAIN entries' : entries'[k] = entries[k]]_vars
  BY <1>1
<1> QED
  BY <1>2, TypeCorrect, PTL DEF Spec, ExpiresOnlyOverdue

\* add() hands over a message only with all its fragments, whatever was lost,
\* repeated, reordered, evicted or expired before (reassembler.cpp:66-78).
THEOREM DeliveryIsWhole == Spec => []DeliveredWhole
<1>1. IInv => DeliveredWhole
  BY DEF IInv
<1> QED
  BY <1>1, Invariance, PTL

\* order_ never turns the order of two pending messages, although keys pile up
\* in it, come back and are compacted away (reassembler.cpp:47, 81-92, 100-117).
THEOREM ArrivalOrderKept == Spec => []ArrivalOrder
<1>1. Init => ArrivalOrder
  BY DEF Init, ArrivalOrder
<1> QED
  BY <1>1, Invariance, OrderStep, PTL DEF Spec

\* The invariant from which the two properties of the loops of add() and
\* expire() follow.
OrderInv == IInv /\ ArrivalOrder

\* Both parts of it hold of every reachable state of the reassembler.
THEOREM OrderInvariance == Spec => []OrderInv
BY Invariance, ArrivalOrderKept, PTL DEF OrderInv

\* add() evicts at most one message for a new one, and that is the oldest,
\* unless a key was opened more than once (reassembler.cpp:35, 81-92).
THEOREM OneEvicted == Spec => EvictsOneOldest
<1>1. ASSUME OrderInv, [Next]_vars, Evicts
      PROVE  \E k \in DOMAIN entries \ DOMAIN entries' :
                /\ Cardinality(DOMAIN entries \ DOMAIN entries') = 1
                /\ evictions' = evictions + 1
                /\ \/ \E i \in 1 .. Len(order) : order[i] = k /\ ~LastCopy(i)
                   \/ \A l \in DOMAIN entries : Age(l) <= Age(k)
  <2> DEFINE D == DOMAIN entries
  <2>1. PICK h \in Fragment : Open(h)
    <3>1. \A h \in Fragment : Add(h) /\ ~Open(h) => evictions' = evictions
      BY DEF Add, FastPath, TooLong, Drop, Repeat, Store, Complete
    <3>2. (Sweep \/ Tick \/ UNCHANGED vars) => evictions' = evictions
      BY DEF Sweep, Expire, Tick, vars
    <3> QED
      BY <1>1, <3>1, <3>2 DEF Evicts, Next, Arrive
  <2>2. PICK i \in 0 .. Len(order) :
          /\ EvictsUpTo(i)
          /\ DOMAIN entries' = (D \ Popped(i)) \cup {Key(h)}
          /\ evictions' = evictions + Cardinality(D \cap Popped(i))
    BY <2>1 DEF Open
  <2>3. Key(h) \notin D
    BY <2>1 DEF Open, Known
  <2>4. /\ IsFiniteSet(D) /\ order \in Seq(Keys) /\ Len(order) \in Nat
        /\ evictions \in Nat /\ Cardinality(D) <= MaxPending
        /\ \A k \in D : entries[k].first_seen \in Int
        /\ now \in Int
    BY <1>1, LenProperties DEF OrderInv, IInv, TypeOK, PendingBounded
  <2>5. D \cap Popped(i) # {}
    <3>1. Cardinality(D \cap Popped(i)) # 0
      BY <1>1, <2>2, <2>4 DEF Evicts
    <3> QED
      BY <3>1, FS_EmptySet
  <2>6. i # 0
    BY <2>5 DEF Popped
  <2>7. D \cap Popped(i - 1) = {}
    <3>1. ~MakesRoom(i - 1)
      BY <2>2, <2>4, <2>6 DEF EvictsUpTo
    <3>2. /\ Cardinality(D) \in Nat /\ Cardinality(D \ Popped(i - 1)) \in Nat
          /\ Cardinality(D \cap Popped(i - 1)) \in Nat
          /\ Cardinality(D \ Popped(i - 1)) = Cardinality(D) - Cardinality(D \cap Popped(i - 1))
      BY <2>4, RemovedCount
    <3>3. Cardinality(D \cap Popped(i - 1)) = 0
      BY <2>4, <3>1, <3>2, ReassemblerAssumption DEF MakesRoom
    <3>4. IsFiniteSet(D \cap Popped(i - 1))
      BY <2>4, FS_Intersection
    <3> QED
      BY <3>3, <3>4, FS_EmptySet
  <2>8. /\ i \in 1 .. Len(order) /\ i - 1 \in Nat
        /\ \A j \in 1 .. i : j = i \/ j \in 1 .. i - 1
    BY <2>4, <2>6
  <2>9. D \cap Popped(i) = {order[i]} /\ order[i] \in D
    <3>1. \A k \in D \cap Popped(i) : k = order[i]
      BY <2>7, <2>8 DEF Popped
    <3> QED
      BY <2>5, <3>1
  <2>10. D \ DOMAIN entries' = {order[i]}
    BY <2>2, <2>3, <2>9
  <2>11. Cardinality({order[i]}) = 1
    BY FS_Singleton
  <2>12. ASSUME LastCopy(i), NEW l \in D
         PROVE  Age(l) <= Age(order[i])
    <3>1. PICK m \in 1 .. Len(order) : order[m] = l
      BY <1>1 DEF OrderInv, IInv, OrderCoversPending
    <3>2. m \notin 1 .. i - 1
      BY <2>7, <3>1 DEF Popped
    <3>3. m = i \/ m \in i + 1 .. Len(order)
      BY <2>4, <2>8, <3>2
    <3>4. CASE m = i
      BY <2>4, <3>1, <3>4 DEF Age
    <3>5. CASE m \in i + 1 .. Len(order)
      <4>1. entries[order[i]].first_seen <= entries[l].first_seen
        BY <1>1, <2>8, <2>9, <2>12, <3>1, <3>5 DEF OrderInv, ArrivalOrder, Live
      <4> QED
        BY <2>4, <2>9, <4>1 DEF Age
    <3> QED
      BY <3>3, <3>4, <3>5
  <2> QED
    BY <2>2, <2>8, <2>9, <2>10, <2>11, <2>12
<1> QED
  BY <1>1, OrderInvariance, PTL DEF Spec, EvictsOneOldest

\* An overdue message outlives expire() only behind a key that was opened again
\* (reassembler.cpp:100-108): the loop stops at the first entry that is young.
THEOREM OverdueOutlives == Spec => OverdueOnlyBehindReopened
<1>1. ASSUME OrderInv, Sweep
      PROVE  Reopened \/ \A k \in DOMAIN entries' : Age(k) < Timeout
  <2>1. SUFFICES ASSUME ~Reopened, NEW k \in DOMAIN entries'
                 PROVE  Age(k) < Timeout
    OBVIOUS
  <2>2. PICK i \in 0 .. Len(order) : SweepsUpTo(i) /\ entries' = Without(Popped(i))
    BY <1>1 DEF Sweep, Expire
  <2>3. /\ order \in Seq(Keys) /\ Len(order) \in Nat /\ now \in Int
        /\ \A l \in DOMAIN entries : entries[l].first_seen \in Int
    BY <1>1, LenProperties DEF OrderInv, IInv, TypeOK
  <2>4. k \in DOMAIN entries /\ k \notin Popped(i)
    BY <2>2 DEF Without
  <2>5. PICK m \in 1 .. Len(order) : order[m] = k
    BY <1>1, <2>4 DEF OrderInv, IInv, OrderCoversPending
  <2>6. m \notin 1 .. i
    BY <2>4, <2>5 DEF Popped
  <2>7. i + 1 \in 1 .. Len(order) /\ (m = i + 1 \/ m \in (i + 1) + 1 .. Len(order))
    BY <2>3, <2>6
  <2>8. Live(i + 1) /\ ~Overdue(order[i + 1])
    <3>1. Passes(i) /\ ~Passes(i + 1)
      BY <2>2, <2>3, <2>7 DEF SweepsUpTo
    <3>2. \A j \in 1 .. i + 1 : j = i + 1 \/ j \in 1 .. i
      BY <2>3
    <3> QED
      BY <3>1, <3>2 DEF Passes, Live
  <2>9. Age(order[i + 1]) < Timeout
    BY <2>3, <2>8, ReassemblerAssumption DEF Overdue, Age, Live
  <2>10. LastCopy(i + 1)
    BY <2>1, <2>7, <2>8, <2>9 DEF Reopened
  <2>11. CASE m = i + 1
    BY <2>5, <2>9, <2>11
  <2>12. CASE m \in (i + 1) + 1 .. Len(order)
    <3>1. entries[order[i + 1]].first_seen <= entries[k].first_seen
      BY <1>1, <2>4, <2>5, <2>7, <2>8, <2>10, <2>12 DEF OrderInv, ArrivalOrder, Live
    <3> QED
      BY <2>3, <2>4, <2>8, <2>9, <3>1, ReassemblerAssumption DEF Age, Live
  <2> QED
    BY <2>7, <2>11, <2>12
<1>2. OrderInv => [Sweep => Reopened \/ \A k \in DOMAIN entries' : Age(k) < Timeout]_vars
  BY <1>1
<1> QED
  BY <1>2, OrderInvariance, PTL DEF OverdueOnlyBehindReopened

=============================================================================
