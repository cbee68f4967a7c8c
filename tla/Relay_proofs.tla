---------------------------- MODULE Relay_proofs ----------------------------
(***************************************************************************)
(* Theorems of Bridge.tla, for every header size, field width, datagram    *)
(* size and message, and of Relay.tla: the number tracking of the receiver *)
(* and the promise of the whole path, LossyRelay, for every network, every *)
(* crash of the bridge, every message and all bounds; and what the path    *)
(* loses, counts and delivers when the network keeps the order.            *)
(***************************************************************************)
EXTENDS Relay, CommonLemmas

-----------------------------------------------------------------------------
(* Fragmentation arithmetic.                                               *)

LEMMA TimesMonotonic ==
    ASSUME NEW a \in Nat, NEW b \in Nat, NEW c \in Nat, a <= b
    PROVE  a * c \in Nat /\ b * c \in Nat /\ a * c <= b * c
OBVIOUS

LEMMA Quotient ==
    ASSUME NEW a \in Nat, NEW c \in Nat \ {0}
    PROVE  /\ a \div c \in Nat
           /\ (a \div c) * c <= a /\ a < (a \div c + 1) * c
OBVIOUS

\* The fragments of a message are enough for it, and none is superfluous.
LEMMA FragmentCountFits ==
    ASSUME NEW length \in Nat, NEW chunk \in Nat \ {0}, NEW n,
           n = FragmentCountFor(length, chunk)
    PROVE  /\ n \in Nat \ {0}
           /\ length <= n * chunk
           /\ (n - 1) * chunk <= length
           /\ n # 1 => (n - 1) * chunk < length
<1>1. CASE length = 0
  <2>1. n = 1
    BY <1>1 DEF FragmentCountFor
  <2> QED
    BY <1>1, <2>1
<1>2. CASE length # 0
  <2>1. n = (length + chunk - 1) \div chunk
    BY <1>2 DEF FragmentCountFor
  <2>2. /\ n \in Nat /\ n * chunk <= length + chunk - 1
        /\ length + chunk - 1 < (n + 1) * chunk
    BY <2>1, Quotient
  <2>3. (n + 1) * chunk = n * chunk + chunk /\ (n - 1) * chunk = n * chunk - chunk
    BY <2>2
  <2>4. n * chunk \in Nat /\ (n - 1) * chunk \in Int
    BY <2>2
  <2>5. n # 0
    BY <1>2, <2>2, <2>3
  <2> QED
    BY <1>2, <2>2, <2>3, <2>4, <2>5
<1> QED
  BY <1>1, <1>2

\* Fragment i of count: where it starts and how long it is.
Piece(length, chunk, i) == IF length - i * chunk < chunk THEN length - i * chunk ELSE chunk

LEMMA PieceFacts ==
    ASSUME NEW length \in Nat, NEW chunk \in Nat \ {0}, NEW n,
           n = FragmentCountFor(length, chunk), NEW i \in 0 .. n - 1
    PROVE  /\ n \in Nat \ {0} /\ i * chunk \in Nat
           /\ Piece(length, chunk, i) \in 0 .. chunk
           /\ i * chunk + Piece(length, chunk, i) <= length
           /\ i + 1 = n <=> i * chunk + Piece(length, chunk, i) = length
           /\ i + 1 # n => Piece(length, chunk, i) = chunk
           /\ n = 1 => i * chunk = 0 /\ Piece(length, chunk, i) = length
           /\ (i + 1) * chunk = i * chunk + chunk
<1>1. /\ n \in Nat \ {0} /\ length <= n * chunk /\ (n - 1) * chunk <= length
      /\ n # 1 => (n - 1) * chunk < length
  BY FragmentCountFits
<1>2. (i + 1) * chunk = i * chunk + chunk /\ i * chunk \in Nat
  BY <1>1
<1>3. CASE i + 1 = n
  <2>1. i * chunk <= length /\ length <= i * chunk + chunk
    BY <1>1, <1>2, <1>3
  <2>2. n = 1 => i * chunk = 0
    BY <1>1, <1>3
  <2> QED
    BY <1>1, <1>2, <1>3, <2>1, <2>2 DEF Piece
<1>4. CASE i + 1 # n
  <2>1. i + 1 \in Nat /\ n - 1 \in Nat /\ i + 1 <= n - 1
    BY <1>1, <1>4
  <2>2. (i + 1) * chunk <= (n - 1) * chunk /\ (i + 1) * chunk \in Nat /\ (n - 1) * chunk \in Nat
    BY <2>1, TimesMonotonic
  <2>3. i * chunk + chunk < length
    BY <1>1, <1>2, <2>1, <2>2
  <2> QED
    BY <1>1, <1>2, <1>4, <2>1, <2>3 DEF Piece
<1> QED
  BY <1>3, <1>4

\* A value a header field is wide enough for is kept.
LEMMA KeepsValue ==
    /\ \A x \in 0 .. MaxU16 : U16(x) = x
    /\ \A x \in 0 .. MaxU32 : U32(x) = x
<1>1. MaxU16 \in Nat /\ MaxU32 \in Nat
  BY WireAssumption
<1>2. ASSUME NEW m \in Nat, NEW x \in 0 .. m PROVE x % (m + 1) = x
  OBVIOUS
<1> QED
  BY <1>1, <1>2 DEF U16, U32

-----------------------------------------------------------------------------
(* parse_datagram() accepts.                                               *)

\* Types of the fields a test reads.
Typed(d) == /\ d.size \in Nat /\ d.count \in Nat /\ d.index \in Nat /\ d.offset \in Nat
            /\ d.flen \in Nat /\ d.length \in Nat
            /\ d.magic \in BOOLEAN /\ d.version \in BOOLEAN

\* What a datagram must fulfil to be accepted.
Valid(d) ==
    /\ ~(d.size < HeaderSize) /\ d.magic /\ d.version
    /\ d.count # 0 /\ ~(d.index >= d.count)
    /\ d.size = HeaderSize + d.flen
    /\ ~(d.offset + d.flen > d.length)
    /\ d.count = 1 => d.offset = 0 /\ d.flen = d.length
    /\ ("FRAGMENTED" \in d.flags) = (d.count # 1)
    /\ d.count # 1 /\ d.index + 1 = d.count => d.offset + d.flen = d.length
    /\ d.count # 1 /\ d.index + 1 # d.count => d.flen # 0


\* A test whose condition does not hold does not fail.
LEMMA Passes == ASSUME NEW r, NEW e, NEW f \in BOOLEAN, r = Test(e, f), ~f PROVE ~r.fails
BY DEF Test

LEMMA ValidIsAccepted == ASSUME NEW d, Typed(d), Valid(d) PROVE ParseDatagram(d) = "None"
<1> DEFINE f1 == d.size < HeaderSize
           f2 == ~d.magic
           f3 == ~d.version
           f4 == d.count = 0
           f5 == d.index >= d.count
           f6 == d.size # HeaderSize + d.flen
           f7 == d.offset + d.flen > d.length
           f8 == d.count = 1 /\ (d.offset # 0 \/ d.flen # d.length)
           f9 == ("FRAGMENTED" \in d.flags) # (d.count # 1)
           f10 == d.count # 1 /\ d.index + 1 = d.count /\ d.offset + d.flen # d.length
           f11 == d.count # 1 /\ d.index + 1 # d.count /\ d.flen = 0
<1>1. /\ f1 \in BOOLEAN /\ f2 \in BOOLEAN /\ f3 \in BOOLEAN /\ f4 \in BOOLEAN
      /\ f5 \in BOOLEAN /\ f6 \in BOOLEAN /\ f7 \in BOOLEAN /\ f8 \in BOOLEAN
      /\ f9 \in BOOLEAN /\ f10 \in BOOLEAN /\ f11 \in BOOLEAN
  BY WireAssumption DEF Typed
<1>2. /\ ~f1 /\ ~f2 /\ ~f3 /\ ~f4 /\ ~f5 /\ ~f6 /\ ~f7 /\ ~f8 /\ ~f10 /\ ~f11
      /\ ~f9
  BY DEF Valid
<1>3. /\ Tests(d)[1] = Test("Truncated", f1)
      /\ Tests(d)[2] = Test("BadMagic", f2)
      /\ Tests(d)[3] = Test("BadVersion", f3)
      /\ Tests(d)[4] = Test("BadFragmentCount", f4)
      /\ Tests(d)[5] = Test("BadFragmentIndex", f5)
      /\ Tests(d)[6] = Test("LengthMismatch", f6)
      /\ Tests(d)[7] = Test("RangeError", f7)
      /\ Tests(d)[8] = Test("RangeError", f8)
      /\ Tests(d)[9] = Test("FlagMismatch", f9)
      /\ Tests(d)[10] = Test("RangeError", f10)
      /\ Tests(d)[11] = Test("RangeError", f11)
      /\ DOMAIN Tests(d) = 1 .. 11
  BY DEF Tests, RangeTests
<1> HIDE DEF f1, f2, f3, f4, f5, f6, f7, f8, f9, f10, f11
<1>4. /\ ~Tests(d)[1].fails /\ ~Tests(d)[2].fails /\ ~Tests(d)[3].fails
      /\ ~Tests(d)[4].fails /\ ~Tests(d)[5].fails /\ ~Tests(d)[6].fails
      /\ ~Tests(d)[7].fails /\ ~Tests(d)[8].fails /\ ~Tests(d)[9].fails
      /\ ~Tests(d)[10].fails /\ ~Tests(d)[11].fails
  BY <1>1, <1>2, <1>3, Passes
<1>5. {i \in DOMAIN Tests(d) : Tests(d)[i].fails} = {}
  BY <1>3, <1>4
<1> QED
  BY <1>5 DEF ParseDatagram

-----------------------------------------------------------------------------
(* What a source may have waiting, and how long it is.                     *)

Bodies == {m.body : m \in Message}

\* What is left of a message from frame k on.
Left(t, k) == [t EXCEPT !.frames = SubSeq(@, k, Len(@))]

LEMMA Rest ==
    ASSUME NEW t, t = [body |-> t.body, frames |-> t.frames], NEW k
    PROVE  Left(t, k) = [body |-> t.body, frames |-> SubSeq(t.frames, k, Len(t.frames))]
<1> DEFINE x == SubSeq(t.frames, k, Len(t.frames))
<1> HIDE DEF x
<1>1. [t EXCEPT !.frames = x] = [body |-> t.body, frames |-> x]
  OBVIOUS
<1> QED
  BY <1>1, Zenon DEF x, Left

\* The rest of a rest of a sequence is a rest of it.
LEMMA RestOfRest ==
    ASSUME NEW f \in Seq(Nat), NEW j \in 1 .. Len(f), NEW k \in 1 .. Len(f) - j + 1
    PROVE  /\ SubSeq(f, j, Len(f)) \in Seq(Nat)
           /\ Len(SubSeq(f, j, Len(f))) = Len(f) - j + 1
           /\ SubSeq(SubSeq(f, j, Len(f)), k, Len(f) - j + 1) = SubSeq(f, j + k - 1, Len(f))
<1> DEFINE l == Len(f)
           g == SubSeq(f, j, l)
           r == SubSeq(g, k, l - j + 1)
           a == j + k - 1
           s == SubSeq(f, a, l)
<1>1. l \in Nat /\ \A i \in 1 .. l : f[i] \in Nat
  BY LenProperties, ElementOfSeq
<1>2. g \in Seq(Nat) /\ Len(g) = l - j + 1 /\ \A i \in 1 .. l - j + 1 : g[i] = f[j + i - 1]
  BY <1>1, SubSeqProperties
<1>3. \A i \in 1 .. l - j + 1 : g[i] \in Nat
  BY <1>2, ElementOfSeq
<1> HIDE DEF g
<1>4. /\ r \in Seq(Nat) /\ Len(r) = l - j + 1 - k + 1
      /\ \A i \in 1 .. l - j + 1 - k + 1 : r[i] = g[k + i - 1]
  BY <1>1, <1>3, SubSeqProperties
<1>5. /\ s \in Seq(Nat) /\ Len(s) = l - a + 1
      /\ \A i \in 1 .. l - a + 1 : s[i] = f[a + i - 1]
  <2>1. a \in 1 .. l
    BY <1>1
  <2> HIDE DEF a
  <2> QED
    BY <1>1, <2>1, SubSeqProperties
<1>6. Len(r) = Len(s) /\ \A i \in 1 .. Len(r) : r[i] = s[i]
  BY <1>1, <1>2, <1>4, <1>5
<1> HIDE DEF r, s
<1>7. r = s
  <2>1. r \in Seq(Nat) /\ s \in Seq(Nat)
    BY <1>4, <1>5
  <2> QED
    BY <1>6, <2>1, SeqEqual
<1> QED
  BY <1>2, <1>7 DEF r, s, g

LEMMA WaitingFacts ==
    ASSUME NEW t \in Waiting
    PROVE  /\ t.frames \in Seq(Nat) /\ Len(t.frames) \in Nat \ {0}
           /\ t.body \in Bodies
           /\ t = [body |-> t.body, frames |-> t.frames]
           /\ \A k \in 1 .. Len(t.frames) : Left(t, k) \in Waiting
<1>1. PICK m \in Message : t \in Tails(m)
  BY DEF Waiting
<1>2. PICK j \in 1 .. Len(m.frames) : t = Left(m, j)
  BY <1>1 DEF Tails, Left
<1>3. /\ m.frames \in Seq(Nat) /\ Len(m.frames) \in Nat \ {0}
      /\ m = [body |-> m.body, frames |-> m.frames]
  BY MessageAssumption, LenProperties
<1> DEFINE f == m.frames
           l == Len(f)
           s == SubSeq(f, j, l)
<1>4. t = [body |-> m.body, frames |-> s]
  BY <1>2, <1>3, Rest, Zenon
<1>5. t.body = m.body /\ t.frames = s
  BY <1>4
<1> HIDE DEF s
<1>6. s \in Seq(Nat) /\ Len(s) = l - j + 1
  <2>1. 1 \in 1 .. l - j + 1
    BY <1>3
  <2> QED
    BY <1>3, <2>1, RestOfRest DEF s
<1>7. ASSUME NEW k \in 1 .. Len(t.frames) PROVE Left(t, k) \in Waiting
  <2>1. k \in 1 .. l - j + 1 /\ j + k - 1 \in 1 .. l
    BY <1>3, <1>5, <1>6
  <2>2. SubSeq(s, k, Len(s)) = SubSeq(f, j + k - 1, l)
    BY <1>3, <1>6, <2>1, RestOfRest DEF s
  <2>3. Left(t, k) = [body |-> m.body, frames |-> SubSeq(s, k, Len(s))]
    BY <1>4, <1>5, Rest, Zenon
  <2>4. Left(m, j + k - 1) = [body |-> m.body, frames |-> SubSeq(f, j + k - 1, l)]
    BY <1>3, Rest, Zenon
  <2>5. Left(t, k) \in Tails(m)
    BY <2>1, <2>2, <2>3, <2>4 DEF Tails, Left
  <2> QED
    BY <2>5 DEF Waiting
<1>8. Len(t.frames) \in Nat \ {0} /\ t.frames \in Seq(Nat)
  BY <1>3, <1>5, <1>6
<1>9. t = [body |-> t.body, frames |-> t.frames] /\ t.body \in Bodies
  BY <1>4, <1>5 DEF Bodies
<1> QED
  BY <1>7, <1>8, <1>9

LEMMA LengthType == ASSUME NEW t \in Waiting PROVE Length(t) \in Nat
<1>1. t.frames \in [1 .. Len(t.frames) -> Nat] /\ Len(t.frames) \in Nat
  BY WaitingFacts, LenProperties
<1>2. IsFiniteSet(1 .. Len(t.frames))
  BY <1>1, FS_Interval
<1>3. Length(t) = Total(t.frames)
  BY Zenon DEF Length, Total
<1> QED
  BY <1>1, <1>2, <1>3, TotalType

LEMMA WholeMessage == Message \subseteq Waiting
<1> SUFFICES ASSUME NEW m \in Message PROVE m \in Waiting
  OBVIOUS
<1>1. /\ m.frames \in Seq(Nat) /\ Len(m.frames) \in Nat \ {0}
      /\ m = [body |-> m.body, frames |-> m.frames]
  BY MessageAssumption, LenProperties
<1>2. SubSeq(m.frames, 1, Len(m.frames)) = m.frames
  BY <1>1, SubSeqFull
<1>3. m = Left(m, 1) /\ 1 \in 1 .. Len(m.frames)
  BY <1>1, <1>2, Rest
<1> QED
  BY <1>3 DEF Waiting, Tails, Left

\* The source in service is one of those that were readable.
LEMMA CurIsReady == ASSUME ready \subseteq Source, ready # {} PROVE Cur \in ready
<1>1. ready \in SUBSET Nat
  BY BridgeAssumption DEF Source
<1>2. \E s \in ready : \A t \in ready : s <= t
  BY <1>1, LeastElement
<1> QED
  BY <1>2 DEF Cur

-----------------------------------------------------------------------------
(* What transmit() sends.                                                  *)

\* Datagram i of the transmission t, with payloads of at most chunk bytes.
Cut(t, chunk, i) ==
    Datagram([source |-> t.source, sequence |-> t.sequence, timestamp |-> t.body,
              flags |-> t.flags, length |-> t.length, count |-> t.count,
              index |-> i, offset |-> i * chunk],
             Piece(t.length, chunk, i), <<t.body, i * chunk, Piece(t.length, chunk, i)>>)

Cuts(t, chunk) == {Cut(t, chunk, i) : i \in 0 .. t.count - 1}

\* What transmit() has established when its send loop starts.
Fits(t, chunk) ==
    /\ t.length \in 0 .. MaxU32
    /\ t.count \in 1 .. MaxU16
    /\ t.count = FragmentCountFor(t.length, chunk)
    /\ ("FRAGMENTED" \in t.flags) = (t.count # 1)

LEMMA CutFacts ==
    ASSUME NEW t, NEW chunk \in 1 .. MaxU16, Fits(t, chunk), NEW i \in 0 .. t.count - 1
    PROVE  /\ Cut(t, chunk, i).index = i
           /\ Cut(t, chunk, i).offset = i * chunk
           /\ Cut(t, chunk, i).flen = Piece(t.length, chunk, i)
           /\ Cut(t, chunk, i).count = t.count
           /\ Cut(t, chunk, i).length = t.length
           /\ ParseDatagram(Cut(t, chunk, i)) = "None"
<1> DEFINE d == Cut(t, chunk, i)
           p == Piece(t.length, chunk, i)
<1>1. /\ t.length \in 0 .. MaxU32 /\ t.count \in 1 .. MaxU16
      /\ t.count = FragmentCountFor(t.length, chunk)
      /\ ("FRAGMENTED" \in t.flags) = (t.count # 1)
      /\ chunk \in Nat \ {0} /\ t.length \in Nat
      /\ MaxU16 \in Nat /\ MaxU32 \in Nat /\ HeaderSize \in Nat
  BY WireAssumption DEF Fits
<1>2. /\ t.count \in Nat \ {0} /\ i * chunk \in Nat /\ p \in 0 .. chunk
      /\ i * chunk + p <= t.length
      /\ i + 1 = t.count <=> i * chunk + p = t.length
      /\ i + 1 # t.count => p = chunk
      /\ t.count = 1 => i * chunk = 0 /\ p = t.length
  BY <1>1, PieceFacts
<1>3. /\ i * chunk \in 0 .. MaxU32 /\ p \in 0 .. MaxU16 /\ i \in 0 .. MaxU16
      /\ t.count \in 0 .. MaxU16
  BY <1>1, <1>2
<1>4. /\ U16(p) = p /\ U16(i) = i /\ U16(t.count) = t.count
      /\ U32(t.length) = t.length /\ U32(i * chunk) = i * chunk
  BY <1>1, <1>3, KeepsValue
<1> HIDE DEF p
<1>5. d = [size |-> HeaderSize + p, magic |-> TRUE, version |-> TRUE,
           source |-> t.source, sequence |-> t.sequence, timestamp |-> t.body,
           flags |-> t.flags, length |-> t.length, count |-> t.count,
           index |-> i, offset |-> i * chunk, flen |-> p, body |-> <<t.body, i * chunk, p>>]
  BY <1>4, Zenon DEF Cut, Datagram, p
<1> HIDE DEF d
<1>6. /\ d.size = HeaderSize + p /\ d.magic = TRUE /\ d.version = TRUE /\ d.flags = t.flags
      /\ d.length = t.length /\ d.count = t.count /\ d.index = i /\ d.flen = p
      /\ d.offset = i * chunk
  BY <1>5
<1>7. Typed(d)
  <2>1. d.magic \in BOOLEAN /\ d.version \in BOOLEAN
    BY <1>6, Zenon
  <2> QED
    BY <1>1, <1>2, <1>6, <2>1 DEF Typed
<1>8. Valid(d)
  BY <1>1, <1>2, <1>6 DEF Valid
<1>9. ParseDatagram(d) = "None"
  BY <1>7, <1>8, ValidIsAccepted
<1> QED
  BY <1>6, <1>9 DEF d, p

\* The datagrams of a message follow each other.
LEMMA CutsTile ==
    ASSUME NEW t, NEW chunk \in 1 .. MaxU16, Fits(t, chunk), NEW i \in 0 .. t.count - 1
    PROVE  /\ i = 0 => Cut(t, chunk, i).offset = 0
           /\ i # 0 => Cut(t, chunk, i).offset = End(Cut(t, chunk, i - 1))
           /\ i + 1 = t.count => End(Cut(t, chunk, i)) = t.length
<1>1. /\ t.length \in Nat /\ chunk \in Nat \ {0} /\ t.count \in Nat
      /\ t.count = FragmentCountFor(t.length, chunk)
  BY WireAssumption DEF Fits
<1>2. Cut(t, chunk, i).offset = i * chunk /\ Cut(t, chunk, i).flen = Piece(t.length, chunk, i)
  BY CutFacts
<1>3. i + 1 = t.count => i * chunk + Piece(t.length, chunk, i) = t.length
  BY <1>1, PieceFacts
<1>4. ASSUME i # 0 PROVE Cut(t, chunk, i).offset = End(Cut(t, chunk, i - 1))
  <2>1. i - 1 \in 0 .. t.count - 1 /\ i - 1 + 1 # t.count /\ i - 1 + 1 = i
    BY <1>1, <1>4
  <2>2. /\ Cut(t, chunk, i - 1).offset = (i - 1) * chunk
        /\ Cut(t, chunk, i - 1).flen = Piece(t.length, chunk, i - 1)
    BY <2>1, CutFacts
  <2>3. /\ Piece(t.length, chunk, i - 1) = chunk
        /\ (i - 1 + 1) * chunk = (i - 1) * chunk + chunk
    BY <1>1, <2>1, PieceFacts
  <2> QED
    BY <1>2, <2>1, <2>2, <2>3 DEF End
<1> QED
  BY <1>1, <1>2, <1>3, <1>4 DEF End

-----------------------------------------------------------------------------
(* The inductive invariant.                                                *)

\* tx is a transmission of this configuration whose datagrams were sent in order.
Sending ==
    /\ tx = [source |-> tx.source, sequence |-> tx.sequence, flags |-> tx.flags,
             length |-> tx.length, count |-> tx.count, body |-> tx.body, sent |-> tx.sent]
    /\ Fits(tx, Chunk)
    /\ tx.sent \in Seq(Cuts(tx, Chunk))
    /\ Sent <= tx.count
    /\ \A i \in 1 .. Sent : tx.sent[i] = Cut(tx, Chunk, i - 1)

BInv ==
    /\ TypeOK
    /\ tx # NoTx => Sending
    /\ phase = "send" => tx # NoTx /\ Sent < tx.count

LEMMA BInit == Init => BInv
<1> SUFFICES ASSUME Init PROVE BInv
  OBVIOUS
<1>1. << >> \in Seq(Waiting) /\ Len(<< >>) = 0
  BY EmptySeq
<1>2. Budget \in Nat /\ Hwm \in Nat /\ SeqSpace \in Nat \ {0} /\ Chunk \in 1 .. MaxU16
  BY BridgeAssumption DEF Init, Chunk
<1>3. queue \in [Source -> Seq(Waiting)] /\ \A s \in Source : Len(queue[s]) <= Hwm
  BY <1>1, <1>2 DEF Init
<1>4. nextSeq \in [Source -> 0 .. SeqSpace - 1] /\ budget \in 0 .. Budget
  BY <1>2 DEF Init
<1>5. TypeOK
  BY <1>2, <1>3, <1>4 DEF Init, TypeOK
<1>6. tx = NoTx /\ phase # "send"
  BY DEF Init
<1> QED
  BY <1>5, <1>6 DEF BInv

\* A step that leaves tx and the configuration alone.
LEMMA SendingKept == ASSUME BInv, tx' = tx, setup' = setup PROVE tx' # NoTx => Sending'
BY DEF BInv, Sending, Sent, Chunk

LEMMA BLeave ==
    ASSUME BInv, phase \in {"recv", "frames"}, Leave
    PROVE  /\ phase' \in {"poll", "recv"} /\ ready' \subseteq Source
           /\ phase' = "recv" => ready' # {}
           /\ budget' \in 0 .. Budget
<1>1. ready \subseteq Source /\ Cur \in ready
  BY CurIsReady DEF BInv, TypeOK
<1>2. Budget \in Nat
  BY BridgeAssumption
<1> QED
  BY <1>1, <1>2 DEF Leave

LEMMA BPublish == ASSUME BInv, NEW s \in Source, NEW m \in Message, Publish(s, m) PROVE BInv'
<1>1. Len(queue[s]) < Hwm /\ queue[s] \in Seq(Waiting) /\ m \in Waiting
  BY WholeMessage DEF BInv, TypeOK, Publish
<1>2. Append(queue[s], m) \in Seq(Waiting) /\ Len(Append(queue[s], m)) = Len(queue[s]) + 1
  BY <1>1, AppendProperties
<1>3. Len(queue[s]) \in Nat /\ Hwm \in Nat
  BY <1>1, BridgeAssumption, LenProperties
<1> DEFINE q == Append(queue[s], m)
<1>4. /\ queue' \in [Source -> Seq(Waiting)]
      /\ \A t \in Source : Len(queue'[t]) <= Hwm
  <2>1. queue' = [queue EXCEPT ![s] = q] /\ q \in Seq(Waiting) /\ Len(q) <= Hwm
    BY <1>1, <1>2, <1>3 DEF Publish
  <2> HIDE DEF q
  <2> QED
    BY <2>1 DEF BInv, TypeOK
<1>5. TypeOK'
  BY <1>4 DEF BInv, TypeOK, Publish, Chunk
<1>6. tx' # NoTx => Sending'
  BY SendingKept DEF Publish
<1> QED
  BY <1>5, <1>6 DEF BInv, Publish, Sent

LEMMA BTake == ASSUME BInv, Take PROVE BInv'
<1> DEFINE c == Cur
           m == Head(queue[c])
<1>1. /\ ready \subseteq Source /\ c \in ready /\ c \in Source /\ queue[c] # << >>
      /\ budget \in 0 .. Budget
      /\ nextSeq \in [Source -> 0 .. SeqSpace - 1] /\ SeqSpace \in Nat \ {0}
      /\ queue \in [Source -> Seq(Waiting)] /\ Chunk \in 1 .. MaxU16
      /\ Hwm \in Nat /\ Budget \in Nat
  BY CurIsReady, BridgeAssumption DEF BInv, TypeOK, Take, Exhausted
<1> HIDE DEF c
<1>2. /\ queue[c] \in Seq(Waiting) /\ m \in Waiting
      /\ Tail(queue[c]) \in Seq(Waiting) /\ Len(Tail(queue[c])) = Len(queue[c]) - 1
      /\ Len(queue[c]) \in Nat
  BY <1>1, HeadTailProperties, LenProperties
<1>3. /\ queue' = [queue EXCEPT ![c] = Tail(@)]
      /\ nextSeq' = [nextSeq EXCEPT ![c] = (@ + 1) % SeqSpace]
      /\ budget' \in {budget, budget - 1} /\ (budget = 0 => budget' = budget)
      /\ ready' = ready /\ shutdown' = shutdown /\ code' = code /\ setup' = setup
      /\ Oversize(Length(m)) => tx' = NoTx /\ phase' = "recv"
      /\ ~Oversize(Length(m)) => tx' = Transmission(c, m) /\ phase' = "send"
  BY DEF Take, Exhausted, Spend, c
<1> HIDE DEF m
<1>4. /\ queue' \in [Source -> Seq(Waiting)]
      /\ \A s \in Source : Len(queue'[s]) <= Hwm
  BY <1>1, <1>2, <1>3 DEF BInv, TypeOK
<1>5. nextSeq' \in [Source -> 0 .. SeqSpace - 1]
  <2>1. \A x \in 0 .. SeqSpace - 1 : (x + 1) % SeqSpace \in 0 .. SeqSpace - 1
    BY <1>1
  <2> QED
    BY <1>1, <1>3, <2>1
<1>6. budget' \in 0 .. Budget
  BY <1>1, <1>3
<1>7. TypeOK'
  BY <1>1, <1>3, <1>4, <1>5, <1>6 DEF BInv, TypeOK, Chunk
<1>8. CASE Oversize(Length(m))
  BY <1>3, <1>7, <1>8 DEF BInv
<1>9. CASE ~Oversize(Length(m))
  <2> DEFINE l == Length(m)
             n == FragmentCountFor(l, Chunk)
             f == Flags(m)
             t == Transmission(c, m)
  <2>1. tx' = t /\ phase' = "send" /\ Chunk' = Chunk
    BY <1>3, <1>9 DEF Chunk
  <2>2. l \in Nat
    BY <1>2, LengthType
  <2>3. l \in 0 .. MaxU32 /\ ~(n > MaxU16) /\ n \in Nat \ {0} /\ MaxU16 \in Nat
    <3>1. MaxU16 \in Nat /\ MaxU32 \in Nat /\ Chunk \in Nat \ {0}
      BY <1>1, WireAssumption
    <3>2. n \in Nat \ {0}
      BY <2>2, <3>1, FragmentCountFits
    <3>3. ~(l > MaxU32) /\ ~(n > MaxU16)
      BY <1>9 DEF Oversize
    <3> HIDE DEF l, n
    <3> QED
      BY <2>2, <3>1, <3>2, <3>3
  <2>4. ("FRAGMENTED" \in f) = (n # 1)
    BY <2>3 DEF Flags
  <2> HIDE DEF l, n, f
  <2>5. t = [source |-> c, sequence |-> nextSeq[c], flags |-> f, length |-> l,
             count |-> n, body |-> m.body, sent |-> << >>]
    BY Zenon DEF Transmission, l, n, f
  <2> HIDE DEF t
  <2>6. /\ t.length = l /\ t.count = n /\ t.flags = f /\ t.sent = << >>
        /\ t = [source |-> t.source, sequence |-> t.sequence, flags |-> t.flags,
             length |-> t.length, count |-> t.count, body |-> t.body, sent |-> t.sent]
    BY <2>5
  <2>7. Fits(t, Chunk)
    <3>1. n = FragmentCountFor(l, Chunk)
      BY DEF n
    <3>2. ("FRAGMENTED" \in t.flags) = (t.count # 1)
      BY <2>4, <2>6, Zenon
    <3>3. n \in 1 .. MaxU16
      BY <2>3
    <3> QED
      BY <2>3, <2>6, <3>1, <3>2, <3>3, Zenon DEF Fits
  <2>8. t.sent \in Seq(Cuts(t, Chunk)) /\ Len(t.sent) = 0
    BY <2>6, EmptySeq
  <2>9. Sending'
    BY <2>1, <2>3, <2>6, <2>7, <2>8 DEF Sending, Sent
  <2>10. t # NoTx
    <3>1. DOMAIN t # DOMAIN NoTx
      <4>1. "sent" \in DOMAIN t
        BY <2>5
      <4>2. "sent" \notin DOMAIN NoTx
        BY DEF NoTx
      <4> QED
        BY <4>1, <4>2
    <3> QED
      BY <3>1
  <2>11. Sent' < tx'.count
    BY <2>1, <2>3, <2>6, <2>8 DEF Sent
  <2> QED
    BY <1>7, <2>1, <2>9, <2>10, <2>11 DEF BInv
<1> QED
  BY <1>8, <1>9

LEMMA BTakeFails == ASSUME BInv, TakeFails PROVE BInv'
<1> DEFINE c == Cur
           m == Head(queue[c])
<1>1. /\ c \in Source /\ queue[c] # << >> /\ phase = "frames" /\ Leave
      /\ queue \in [Source -> Seq(Waiting)]
      /\ \A s \in Source : Len(queue[s]) <= Hwm
      /\ tx' = tx /\ nextSeq' = nextSeq /\ shutdown' = shutdown /\ code' = code /\ setup' = setup
  BY CurIsReady DEF BInv, TypeOK, TakeFails
<1>2. PICK k \in 2 .. Len(m.frames) :
         queue' = [queue EXCEPT ![c] = <<Left(m, k)>> \o Tail(@)]
  BY Zenon DEF TakeFails, Left
<1> HIDE DEF c
<1>3. /\ queue[c] \in Seq(Waiting) /\ m \in Waiting /\ Len(queue[c]) \in Nat
      /\ Tail(queue[c]) \in Seq(Waiting) /\ Len(Tail(queue[c])) = Len(queue[c]) - 1
  BY <1>1, HeadTailProperties, LenProperties
<1> HIDE DEF m
<1> DEFINE r == <<Left(m, k)>>
           q == r \o Tail(queue[c])
<1>4. r \in Seq(Waiting) /\ Len(r) = 1
  <2>1. k \in 1 .. Len(m.frames)
    BY <1>3, WaitingFacts
  <2>2. Left(m, k) \in Waiting
    BY <1>3, <2>1, WaitingFacts
  <2> QED
    BY <2>2
<1> HIDE DEF r
<1>5. q \in Seq(Waiting) /\ Len(q) = Len(queue[c])
  <2> DEFINE rest == Tail(queue[c])
  <2>1. rest \in Seq(Waiting) /\ Len(rest) = Len(queue[c]) - 1
    BY <1>3
  <2> HIDE DEF rest
  <2>2. r \o rest \in Seq(Waiting) /\ Len(r \o rest) = Len(r) + Len(rest)
    BY <1>4, <2>1, ConcatProperties
  <2>3. 1 + (Len(queue[c]) - 1) = Len(queue[c])
    BY <1>3
  <2> QED
    BY <1>4, <2>1, <2>2, <2>3, Zenon DEF rest
<1>6. queue' = [queue EXCEPT ![c] = q]
  BY <1>2, Zenon DEF r
<1> HIDE DEF q
<1>7. /\ queue' \in [Source -> Seq(Waiting)]
      /\ \A s \in Source : Len(queue'[s]) <= Hwm
  BY <1>1, <1>5, <1>6
<1>8. TypeOK'
  BY <1>1, <1>7, BLeave DEF BInv, TypeOK, Chunk
<1>9. tx' # NoTx => Sending'
  BY <1>1, SendingKept
<1> QED
  BY <1>1, <1>8, <1>9, BLeave DEF BInv

LEMMA BSendDatagram == ASSUME BInv, SendDatagram PROVE BInv'
<1> DEFINE d == NextDatagram
           n == Sent
<1>1. /\ tx # NoTx /\ n < tx.count /\ Chunk \in 1 .. MaxU16
      /\ tx = [source |-> tx.source, sequence |-> tx.sequence, flags |-> tx.flags,
               length |-> tx.length, count |-> tx.count, body |-> tx.body, sent |-> tx.sent]
      /\ Fits(tx, Chunk) /\ tx.sent \in Seq(Cuts(tx, Chunk))
      /\ \A i \in 1 .. n : tx.sent[i] = Cut(tx, Chunk, i - 1)
  BY DEF BInv, TypeOK, Sending, SendDatagram
<1>2. tx.count \in Nat /\ n \in Nat /\ n = Len(tx.sent)
  BY <1>1, LenProperties, WireAssumption DEF Fits, Sent
<1>3. d = Cut(tx, Chunk, n)
  BY Zenon DEF NextDatagram, NextLength, Offset, Cut, Piece
<1>4. d \in Cuts(tx, Chunk)
  BY <1>1, <1>2, <1>3 DEF Cuts
<1>5. /\ tx' = [tx EXCEPT !.sent = Append(@, d)]
      /\ phase' = IF n + 1 < tx.count THEN "send" ELSE "recv"
      /\ UNCHANGED <<queue, ready, budget, nextSeq, shutdown, code, setup>>
  BY DEF SendDatagram
<1> HIDE DEF d, n
<1> DEFINE S == Cuts(tx, Chunk)
           s == Append(tx.sent, d)
<1>6. /\ s \in Seq(S) /\ Len(s) = n + 1 /\ s[n + 1] = d
      /\ \A i \in 1 .. n : s[i] = tx.sent[i]
  <2> HIDE DEF S
  <2> QED
    BY <1>1, <1>2, <1>4, AppendProperties DEF S
<1> HIDE DEF s
<1>7. /\ tx' = [source |-> tx.source, sequence |-> tx.sequence, flags |-> tx.flags,
               length |-> tx.length, count |-> tx.count, body |-> tx.body, sent |-> s]
      /\ Chunk' = Chunk
  <2>1. tx' = [tx EXCEPT !.sent = s]
    BY <1>5, Zenon DEF s
  <2> QED
    BY <1>1, <1>5, <2>1 DEF Chunk
<1>8. /\ tx'.source = tx.source /\ tx'.sequence = tx.sequence /\ tx'.flags = tx.flags
      /\ tx'.length = tx.length /\ tx'.count = tx.count /\ tx'.body = tx.body /\ tx'.sent = s
  BY <1>7
<1>9. \A i : Cut(tx', Chunk', i) = Cut(tx, Chunk, i)
  BY <1>7, <1>8, Zenon DEF Cut
<1>10. Cuts(tx', Chunk') = S /\ Fits(tx', Chunk')
  BY <1>1, <1>7, <1>8, <1>9 DEF Cuts, Fits
<1>11. Sent' = n + 1
  BY <1>6, <1>8 DEF Sent
<1>12. \A i \in 1 .. n + 1 : tx'.sent[i] = Cut(tx', Chunk', i - 1)
  <2> SUFFICES ASSUME NEW i \in 1 .. n + 1 PROVE s[i] = Cut(tx, Chunk, i - 1)
    BY <1>8, <1>9
  <2>1. CASE i \in 1 .. n
    BY <1>1, <1>6, <2>1 DEF n
  <2>2. CASE i = n + 1
    BY <1>2, <1>3, <1>6, <2>2
  <2> QED
    BY <1>2, <2>1, <2>2
<1>13. Sending'
  <2>1. tx' = [source |-> tx'.source, sequence |-> tx'.sequence, flags |-> tx'.flags,
             length |-> tx'.length, count |-> tx'.count, body |-> tx'.body, sent |-> tx'.sent]
    BY <1>7, <1>8
  <2>2. tx'.sent \in Seq(Cuts(tx', Chunk')) /\ Sent' <= tx'.count
    BY <1>1, <1>2, <1>6, <1>8, <1>10, <1>11
  <2> QED
    BY <1>10, <1>11, <1>12, <2>1, <2>2 DEF Sending
<1>14. tx' # NoTx
  <2>1. "sent" \in DOMAIN tx' /\ "sent" \notin DOMAIN NoTx
    BY <1>7 DEF NoTx
  <2> QED
    BY <2>1
<1>15. TypeOK'
  BY <1>5, <1>7 DEF BInv, TypeOK, SendDatagram
<1>16. phase' = "send" => Sent' < tx'.count
  BY <1>5, <1>8, <1>11
<1> QED
  BY <1>13, <1>14, <1>15, <1>16 DEF BInv

LEMMA BStep == BInv /\ [Next]_vars => BInv'
<1> SUFFICES ASSUME BInv, [Next]_vars PROVE BInv'
  OBVIOUS
<1>1. CASE Poll
  <2>1. ready' \subseteq Source /\ ready' # {} /\ phase' = "recv" /\ budget' = Budget
    BY <1>1 DEF Poll, Readable
  <2>2. TypeOK'
    BY <1>1, <2>1, BridgeAssumption DEF Poll, BInv, TypeOK, Chunk
  <2> QED
    BY <1>1, <2>1, <2>2, SendingKept DEF Poll, BInv
<1>2. CASE PollFails
  <2>1. TypeOK'
    BY <1>2 DEF PollFails, BInv, TypeOK, Chunk
  <2> QED
    BY <1>2, <2>1, SendingKept DEF PollFails, BInv
<1>3. CASE Stop
  <2>1. TypeOK'
    BY <1>3 DEF Stop, BInv, TypeOK, Chunk
  <2> QED
    BY <1>3, <2>1, SendingKept DEF Stop, BInv
<1>4. CASE BatchFull
  <2>1. TypeOK'
    BY <1>4, BLeave DEF BatchFull, BInv, TypeOK, Chunk
  <2> QED
    BY <1>4, <2>1, BLeave, SendingKept DEF BatchFull, BInv
<1>5. CASE GiveUp
  <2>1. TypeOK'
    BY <1>5, BLeave DEF GiveUp, BInv, TypeOK, Chunk
  <2> QED
    BY <1>5, <2>1, BLeave, SendingKept DEF GiveUp, BInv
<1>6. CASE Interrupted
  <2>1. budget' \in 0 .. Budget
    BY <1>6, BridgeAssumption DEF Interrupted, Exhausted, Spend, BInv, TypeOK
  <2>2. TypeOK'
    BY <1>6, <2>1 DEF Interrupted, BInv, TypeOK, Chunk
  <2> QED
    BY <1>6, <2>2, SendingKept DEF Interrupted, BInv
<1>10. CASE FirstFrame
  <2>1. ready # {} /\ budget' \in 0 .. Budget
    BY <1>10, BridgeAssumption DEF FirstFrame, Exhausted, Spend, BInv, TypeOK
  <2>2. TypeOK'
    BY <1>10, <2>1 DEF FirstFrame, BInv, TypeOK, Chunk
  <2> QED
    BY <1>10, <2>2, SendingKept DEF FirstFrame, BInv
<1>7. CASE SendFails
  <2>1. TypeOK'
    BY <1>7 DEF SendFails, BInv, TypeOK, Chunk
  <2> QED
    BY <1>7, <2>1, SendingKept DEF SendFails, BInv
<1>8. CASE Signal
  <2>1. TypeOK'
    BY <1>8 DEF Signal, BInv, TypeOK, Chunk
  <2> QED
    BY <1>8, <2>1, SendingKept DEF Signal, BInv, Sent
<1>9. CASE FrameInterrupted \/ UNCHANGED vars
  <2>1. TypeOK'
    BY <1>9 DEF FrameInterrupted, vars, BInv, TypeOK, Chunk
  <2> QED
    BY <1>9, <2>1, SendingKept DEF FrameInterrupted, vars, BInv, Sent
<1> QED
  BY <1>1, <1>2, <1>3, <1>4, <1>5, <1>6, <1>7, <1>8, <1>9, <1>10, BTake, BTakeFails, BSendDatagram,
     BPublish DEF Next, BridgeStep

\* The inductive invariant of the bridge: types, and the datagrams sent so far
\* are the first ones of the message that transmit() is cutting.
THEOREM BridgeInvariant == Spec => []BInv
BY BInit, BStep, PTL DEF Spec

-----------------------------------------------------------------------------
(* What follows from it.                                                   *)

\* The queues never exceed the high water mark, the batch its budget, and the
\* sequence numbers their width (run() and service_source()).
THEOREM BridgeTypes == Spec => []TypeOK
<1>1. BInv => TypeOK
  BY DEF BInv
<1> QED
  BY <1>1, BridgeInvariant, PTL

LEMMA SoundNow == BInv => WireIsSound
<1> SUFFICES ASSUME BInv, tx # NoTx PROVE WireIsSound
  BY DEF WireIsSound, ReceiverAccepts, SentTiles
<1>1. /\ Fits(tx, Chunk) /\ Chunk \in 1 .. MaxU16 /\ Sent <= tx.count
      /\ tx.sent \in Seq(Cuts(tx, Chunk))
      /\ \A i \in 1 .. Sent : tx.sent[i] = Cut(tx, Chunk, i - 1)
  BY DEF BInv, TypeOK, Sending
<1>2. Sent \in Nat /\ tx.count \in Nat \ {0}
  BY <1>1, LenProperties, WireAssumption DEF Sent, Fits
<1>3. ASSUME NEW i \in 1 .. Sent
      PROVE  /\ i - 1 \in 0 .. tx.count - 1
             /\ ParseDatagram(tx.sent[i]) = "None"
             /\ tx.sent[i].index = i - 1
             /\ tx.sent[i].offset = IF i = 1 THEN 0 ELSE End(tx.sent[i - 1])
  <2>1. i - 1 \in 0 .. tx.count - 1 /\ tx.sent[i] = Cut(tx, Chunk, i - 1)
    BY <1>1, <1>2
  <2>2. CASE i = 1
    BY <1>1, <2>1, <2>2, CutFacts, CutsTile
  <2>3. CASE i # 1
    <3>1. i - 1 \in 1 .. Sent /\ i - 1 # 0
      BY <1>2, <2>3
    <3>2. tx.sent[i - 1] = Cut(tx, Chunk, i - 1 - 1)
      BY <1>1, <3>1
    <3> QED
      BY <1>1, <2>1, <2>3, <3>1, <3>2, CutFacts, CutsTile
  <2> QED
    BY <2>2, <2>3
<1>4. ASSUME Sent = tx.count PROVE End(tx.sent[Sent]) = tx.length
  <2>1. Sent - 1 \in 0 .. tx.count - 1 /\ Sent - 1 + 1 = tx.count /\ Sent \in 1 .. Sent
    BY <1>2, <1>4
  <2> QED
    BY <1>1, <2>1, CutsTile
<1> QED
  BY <1>3, <1>4 DEF WireIsSound, ReceiverAccepts, SentTiles

\* transmit() sends nothing that parse_datagram() refuses, and its datagrams
\* cover the message from the first byte to the last without hole or overlap,
\* whatever its length and the capacity of a datagram.
THEOREM BridgeWireIsSound == Spec => []WireIsSound
BY SoundNow, BridgeInvariant, PTL

-----------------------------------------------------------------------------
(* The instances R and T have their own copy of FiniteSets.                *)

LEMMA SameFiniteSets ==
    ASSUME NEW S
    PROVE  /\ T!IsFiniteSet(S) <=> IsFiniteSet(S)
           /\ T!Cardinality(S) = Cardinality(S)
           /\ R!Cardinality(S) = Cardinality(S)
<1>1. T!IsFiniteSet(S) <=> IsFiniteSet(S)
  BY Zenon DEF T!IsFiniteSet, IsFiniteSet
<1>2. T!Cardinality(S) = Cardinality(S)
  BY Zenon DEF T!Cardinality, Cardinality
<1>3. R!Cardinality(S) = Cardinality(S)
  BY Zenon DEF R!Cardinality, Cardinality
<1> QED
  BY <1>1, <1>2, <1>3

-----------------------------------------------------------------------------
(* SequenceTracker::observe().                                             *)

Untracked == state = T!Unseen /\ observed = {} /\ resyncs = 0

TrackInv == /\ T!TypeOK
            /\ ~state.seen => Untracked
            /\ state.seen /\ resyncs = 0 => first \in observed
            /\ LossesShow

\* The same without the names of the instance.
LEMMA TrackInvIs ==
    TrackInv <=>
        /\ state \in [seen : BOOLEAN, last : Nat, missing : Nat, gaps : Nat, late : Nat]
        /\ first \in Nat /\ observed \in SUBSET Nat /\ IsFiniteSet(observed) /\ resyncs \in Nat
        /\ ~state.seen => Untracked
        /\ state.seen /\ resyncs = 0 =>
              /\ Cardinality((first .. state.last) \ observed) <= state.missing
              /\ state.missing <= Cardinality((first .. state.last) \ observed) + state.late
              /\ state.last \in observed /\ first \in observed
              /\ \A x \in observed : x <= state.last
BY SameFiniteSets DEF TrackInv, T!TypeOK, LossesShow, T!LossesShow, T!MissingBounds,
                      T!LastIsHighest, T!NeverSeen

\* How many numbers there are from a to b.
LEMMA IntervalSize ==
    ASSUME NEW a \in Nat, NEW b \in Nat, a <= b + 1
    PROVE  IsFiniteSet(a .. b) /\ Cardinality(a .. b) = b - a + 1
<1>1. Cardinality(a .. b) = IF a > b THEN 0 ELSE b - a + 1
  BY FS_Interval
<1> QED
  BY <1>1, FS_Interval

LEMMA TrackInit == T!Init => TrackInv
<1> SUFFICES ASSUME T!Init PROVE TrackInv
  OBVIOUS
<1>1. ~state.seen /\ Untracked
  BY DEF T!Init, T!Unseen, Untracked
<1>2. state \in [seen : BOOLEAN, last : Nat, missing : Nat, gaps : Nat, late : Nat]
  BY DEF T!Init, T!Unseen
<1>3. first \in Nat /\ IsFiniteSet(observed)
  BY FS_EmptySet DEF T!Init
<1> QED
  BY <1>1, <1>2, <1>3, TrackInvIs DEF Untracked

\* What observe() does in each of its cases.
LEMMA ObserveCases ==
    ASSUME state \in [seen : BOOLEAN, last : Nat, missing : Nat, gaps : Nat, late : Nat],
           NEW q \in Nat, T!Observe(q)
    PROVE  /\ state' \in [seen : BOOLEAN, last : Nat, missing : Nat, gaps : Nat, late : Nat]
           /\ state'.seen = TRUE
           /\ observed' = observed \cup {q}
           /\ first' = IF state.seen THEN first ELSE q
           /\ resyncs' \in {resyncs, resyncs + 1}
           /\ ~state.seen => /\ state'.last = q /\ state'.missing = state.missing
                             /\ resyncs' = resyncs
           /\ state.seen /\ q = state.last + 1 =>
                 state'.last = q /\ state'.missing = state.missing /\ state'.late = state.late
           /\ state.seen /\ q > state.last + 1 =>
                 /\ state'.last = q /\ state'.late = state.late
                 /\ state'.missing = state.missing + (q - (state.last + 1))
           /\ state.seen /\ q <= state.last =>
                 /\ state'.missing = state.missing /\ state'.late = state.late + 1
                 /\ state'.last = state.last \/ resyncs' = resyncs + 1
<1> DEFINE s == state
           o == T!Outcome(s, q)
<1>1. /\ ~s.seen => o = "First"
      /\ s.seen /\ q = s.last + 1 => o = "InOrder"
      /\ s.seen /\ q > s.last + 1 => o = "Gap"
      /\ s.seen /\ q <= s.last => o = "OutOfOrder"
  <2>1. /\ s.seen /\ q = s.last + 1 => ~(q > s.last + 1) /\ ~(q <= s.last)
        /\ s.seen /\ q > s.last + 1 => ~(q <= s.last) /\ q # s.last + 1
        /\ s.seen /\ q <= s.last => ~(q > s.last + 1) /\ q # s.last + 1
    OBVIOUS
  <2> QED
    BY <2>1 DEF T!Outcome
<1>2. s.seen => q = s.last + 1 \/ q > s.last + 1 \/ q <= s.last
  OBVIOUS
<1> HIDE DEF o
<1>3. /\ T!Missing(s, q) = IF o = "Gap" THEN q - (s.last + 1) ELSE 0
      /\ T!Resyncs(s, q) => o = "OutOfOrder"
      /\ T!NextLast(s, q) = IF o = "OutOfOrder" /\ ~T!Resyncs(s, q) THEN s.last ELSE q
  BY DEF T!Missing, T!NextLast, T!Resyncs, o
<1>4. /\ state' = [seen |-> TRUE, last |-> T!NextLast(s, q), missing |-> s.missing + T!Missing(s, q),
                   gaps |-> IF o = "Gap" THEN s.gaps + 1 ELSE s.gaps,
                   late |-> IF o = "OutOfOrder" THEN s.late + 1 ELSE s.late]
      /\ first' = IF s.seen THEN first ELSE q
      /\ observed' = observed \cup {q}
      /\ resyncs' = IF T!Resyncs(s, q) THEN resyncs + 1 ELSE resyncs
  BY DEF T!Observe, T!Observed, o
<1>5. T!Missing(s, q) \in Nat /\ T!NextLast(s, q) \in Nat
  BY <1>1, <1>2, <1>3
<1>6. state' \in [seen : BOOLEAN, last : Nat, missing : Nat, gaps : Nat, late : Nat]
  BY <1>4, <1>5
<1>7. /\ state'.seen = TRUE /\ state'.last = T!NextLast(s, q)
      /\ state'.missing = s.missing + T!Missing(s, q)
      /\ state'.late = IF o = "OutOfOrder" THEN s.late + 1 ELSE s.late
  BY <1>4
<1> QED
  BY <1>1, <1>3, <1>4, <1>6, <1>7

LEMMA TrackObserve ==
    ASSUME TrackInv, NEW q \in Nat, T!Observe(q)
    PROVE  TrackInv'
<1> DEFINE Never == (first .. state.last) \ observed
<1>1. /\ state \in [seen : BOOLEAN, last : Nat, missing : Nat, gaps : Nat, late : Nat]
      /\ first \in Nat /\ observed \in SUBSET Nat /\ IsFiniteSet(observed) /\ resyncs \in Nat
      /\ ~state.seen => Untracked
      /\ state.seen /\ resyncs = 0 =>
            /\ Cardinality(Never) <= state.missing
            /\ state.missing <= Cardinality(Never) + state.late
            /\ state.last \in observed /\ first \in observed
            /\ \A x \in observed : x <= state.last
  BY TrackInvIs
<1>2. /\ state' \in [seen : BOOLEAN, last : Nat, missing : Nat, gaps : Nat, late : Nat]
      /\ state'.seen = TRUE
      /\ observed' = observed \cup {q}
      /\ first' = IF state.seen THEN first ELSE q
      /\ resyncs' \in {resyncs, resyncs + 1}
      /\ ~state.seen => /\ state'.last = q /\ state'.missing = state.missing
                        /\ resyncs' = resyncs
      /\ state.seen /\ q = state.last + 1 =>
            state'.last = q /\ state'.missing = state.missing /\ state'.late = state.late
      /\ state.seen /\ q > state.last + 1 =>
            /\ state'.last = q /\ state'.late = state.late
            /\ state'.missing = state.missing + (q - (state.last + 1))
      /\ state.seen /\ q <= state.last =>
            /\ state'.missing = state.missing /\ state'.late = state.late + 1
            /\ state'.last = state.last \/ resyncs' = resyncs + 1
  BY <1>1, ObserveCases
<1>3. IsFiniteSet(observed') /\ observed' \in SUBSET Nat /\ first' \in Nat /\ resyncs' \in Nat
  <2>1. IsFiniteSet(observed \cup {q})
    BY <1>1, FS_AddElement
  <2> QED
    BY <1>1, <1>2, <2>1
<1>4. ASSUME resyncs' = 0
      PROVE  /\ Cardinality(Never') <= state'.missing
             /\ state'.missing <= Cardinality(Never') + state'.late
             /\ state'.last \in observed' /\ first' \in observed'
             /\ \A x \in observed' : x <= state'.last
  <2>1. resyncs = 0
    BY <1>1, <1>2, <1>4
  <2>2. IsFiniteSet(Never) /\ Cardinality(Never) \in Nat
    <3>1. IsFiniteSet(first .. state.last)
      BY <1>1, FS_Interval
    <3>2. IsFiniteSet(Never)
      BY <3>1, FS_Difference
    <3> QED
      BY <3>2, FS_CardinalityType
  <2>3. CASE ~state.seen
    <3>1. observed' = {q} /\ first' = q /\ state'.last = q /\ state'.missing = 0
      <4>1. state.missing = 0 /\ observed = {}
        BY <1>1, <2>3 DEF Untracked, T!Unseen
      <4> QED
        BY <1>2, <2>3, <4>1
    <3>2. Never' = {}
      BY <3>1
    <3>3. Cardinality(Never') = 0
      BY <3>2, FS_EmptySet
    <3> QED
      BY <1>2, <3>1, <3>3
  <2>4. CASE state.seen /\ q = state.last + 1
    <3>1. Never' = Never
      BY <1>1, <1>2, <2>4
    <3>2. \A x \in observed : x <= q
      BY <1>1, <2>1, <2>4
    <3> HIDE DEF Never
    <3> QED
      BY <1>1, <1>2, <2>1, <2>4, <3>1, <3>2
  <2>5. CASE state.seen /\ q > state.last + 1
    <3> DEFINE gap == state.last + 1 .. q - 1
    <3>1. Never' = Never \cup gap /\ Never \cap gap = {}
      <4>1. /\ first' = first /\ state'.last = q /\ observed' = observed \cup {q}
            /\ first \in Nat /\ state.last \in Nat /\ first <= state.last
            /\ \A x \in observed : x \in Nat /\ x <= state.last
        BY <1>1, <1>2, <2>1, <2>5
      <4>2. ASSUME NEW x \in first .. q, x \notin observed, x # q
            PROVE  x \in Never \cup gap
        BY <2>5, <4>1, <4>2
      <4>3. ASSUME NEW x \in Never \cup gap
            PROVE  x \in first .. q /\ x \notin observed /\ x # q
        BY <2>5, <4>1
      <4>4. Never' = (first .. q) \ (observed \cup {q})
        BY <4>1
      <4>5. Never \cap gap = {}
        BY <4>1
      <4> HIDE DEF Never, gap
      <4> QED
        BY <4>2, <4>3, <4>4, <4>5
    <3>2. IsFiniteSet(gap) /\ Cardinality(gap) = q - (state.last + 1)
      <4>1. state.last + 1 \in Nat /\ q - 1 \in Nat /\ state.last + 1 <= q - 1 + 1
        BY <1>1, <2>5
      <4>2. IsFiniteSet(gap) /\ Cardinality(gap) = q - 1 - (state.last + 1) + 1
        BY <4>1, IntervalSize
      <4> QED
        BY <1>1, <4>2
    <3>3. \A x \in observed : x <= q
      BY <1>1, <2>1, <2>5
    <3> HIDE DEF gap, Never
    <3>4. Cardinality(Never') = Cardinality(Never) + Cardinality(gap)
      <4>1. Cardinality(Never \cup gap)
               = Cardinality(Never) + Cardinality(gap) - Cardinality(Never \cap gap)
        BY <2>2, <3>2, FS_Union
      <4>2. Cardinality(Never \cap gap) = 0
        BY <3>1, FS_EmptySet
      <4> DEFINE n == Cardinality(Never)
                 m == Cardinality(gap)
      <4>3. n \in Nat /\ m \in Nat
        BY <1>1, <2>2, <2>5, <3>2
      <4>4. n + m - 0 = n + m
        <5> HIDE DEF n, m
        <5> QED
          BY <4>3
      <4> QED
        BY <3>1, <4>1, <4>2, <4>4, Zenon
    <3> QED
      BY <1>1, <1>2, <2>1, <2>2, <2>5, <3>1, <3>2, <3>3, <3>4
  <2>6. CASE state.seen /\ q <= state.last
    <3>1. /\ Never' = Never \ {q} /\ state'.last = state.last
          /\ state'.missing = state.missing /\ state'.late = state.late + 1
      BY <1>1, <1>2, <2>1, <2>6, <1>4
    <3> HIDE DEF Never
    <3>2. /\ Cardinality(Never') <= Cardinality(Never)
          /\ Cardinality(Never) <= Cardinality(Never') + 1
          /\ Cardinality(Never') \in Nat
      <4>1. CASE q \in Never
        <5>1. /\ IsFiniteSet(Never \ {q})
              /\ Cardinality(Never \ {q}) = Cardinality(Never) - 1
          BY <2>2, <4>1, FS_RemoveElement
        <5>2. Cardinality(Never \ {q}) \in Nat
          BY <5>1, FS_CardinalityType
        <5>3. /\ Cardinality(Never \ {q}) <= Cardinality(Never)
              /\ Cardinality(Never) <= Cardinality(Never \ {q}) + 1
          BY <2>2, <5>1, <5>2
        <5> QED
          BY <3>1, <5>2, <5>3, Zenon
      <4>2. CASE q \notin Never
        <5>1. Never' = Never
          BY <3>1, <4>2
        <5>2. Cardinality(Never) <= Cardinality(Never) /\ Cardinality(Never) <= Cardinality(Never) + 1
          BY <2>2
        <5> QED
          BY <2>2, <5>1, <5>2, Zenon
      <4> QED
        BY <4>1, <4>2
    <3> QED
      BY <1>1, <1>2, <2>1, <2>2, <2>6, <3>1, <3>2
  <2> QED
    BY <1>1, <2>3, <2>4, <2>5, <2>6
<1>5. T!TypeOK'
  BY <1>2, <1>3, SameFiniteSets DEF T!TypeOK
<1>6. T!NeverSeen' = Never'
  BY DEF T!NeverSeen
<1> HIDE DEF Never
<1>7. LossesShow'
  BY <1>4, <1>6, SameFiniteSets DEF LossesShow, T!LossesShow, T!MissingBounds, T!LastIsHighest
<1> QED
  BY <1>2, <1>4, <1>5, <1>7 DEF TrackInv

LEMMA TrackKept == ASSUME TrackInv, UNCHANGED tracking PROVE TrackInv'
BY DEF tracking, TrackInv, T!TypeOK, Untracked, LossesShow, T!LossesShow,
       T!MissingBounds, T!LastIsHighest, T!NeverSeen

-----------------------------------------------------------------------------
(* The inductive invariant of the path.                                    *)

\* What a restart keeps of a setup.
Configured ==
    /\ setup = [chunk |-> setup.chunk, faults |-> setup.faults, script |-> setup.script,
                chunks |-> setup.chunks, restarts |-> setup.restarts,
                inOrder |-> setup.inOrder, arrivals |-> setup.arrivals]
    /\ setup.script \in Seq(Message) /\ Len(setup.script) < SeqSpace
    /\ setup.chunks \subseteq 1 .. MaxU16 /\ setup.chunks \subseteq Chunks
    /\ setup.restarts \in Nat
    /\ Chunk \in Chunks

\* A generation gives a number to one message.
NumberedOnce ==
    \A s, t \in taken :
        s.generation = t.generation /\ s.message.sequence = t.message.sequence => s = t

\* Only the first source is used, and the numbers of a generation do not wrap.
Numbering ==
    /\ published \in 0 .. Len(setup.script)
    /\ \A s \in Source : s # 1 => queue[s] = << >>
    /\ nextSeq[1] + Len(queue[1]) <= published
    /\ generation \in 0 .. setup.restarts
    /\ \A t \in taken :
          /\ t.message \in Possible /\ t.generation \in 0 .. generation
          /\ t.generation = generation => t.message.sequence < nextSeq[1]
    /\ NumberedOnce

\* What is being sent was taken.
TxTaken == tx # NoTx => [generation |-> generation, message |-> Numbered(tx)] \in taken

\* body is fragment i of a message taken with number q, length l and n fragments.
Stems(body, i, q, l, n) ==
    \E t \in taken : /\ t.message.sequence = q /\ t.message.length = l /\ t.message.count = n
                     /\ body = L!Part(t.message, i)

\* stamp is the timestamp of such a message.
Stamps(stamp, q, l, n) ==
    \E t \in taken : /\ t.message.sequence = q /\ t.message.length = l /\ t.message.count = n
                     /\ stamp = t.message.body

\* So is what was sent, with the timestamp of the message its bytes are of, and
\* what the receiver holds.
Genuine(d) ==
    /\ d.sequence \in 0 .. SeqSpace - 1
    /\ d.timestamp = d.body[1]
    /\ d.index \in 0 .. d.count - 1
    /\ Stems(d.body, d.index, d.sequence, d.length, d.count)

WireSound ==
    /\ wire \in Seq(Range(wire))
    /\ \A j \in DOMAIN wire : Genuine(wire[j])

Held(e, q) ==
    /\ e = [first_seen |-> e.first_seen, timestamp |-> e.timestamp, count |-> e.count,
            length |-> e.length, buffer |-> e.buffer]
    /\ IsFiniteSet(DOMAIN e.buffer) /\ DOMAIN e.buffer # {}
    /\ DOMAIN e.buffer \subseteq 0 .. e.count - 1
    /\ \A i \in DOMAIN e.buffer : Stems(e.buffer[i], i, q, e.length, e.count)
    /\ Stamps(e.timestamp, q, e.length, e.count)

EntriesSound == \A k \in DOMAIN entries : Held(entries[k], k[2])

RInv == /\ BInv /\ TrackInv
        /\ Configured /\ Numbering /\ TxTaken /\ WireSound /\ EntriesSound
        /\ arrived \in Nat

-----------------------------------------------------------------------------
(* Lemmas.                                                                 *)

LEMMA ChunkType == Chunks \subseteq 1 .. MaxU16
BY BridgeAssumption, RelayAssumption DEF Chunks

LEMMA PossibleFacts ==
    ASSUME NEW m \in Possible
    PROVE  m.sequence \in 0 .. SeqSpace - 1 /\ m.length \in Nat /\ m.count \in Nat \ {0}
<1>1. PICK q \in 0 .. SeqSpace - 1, w \in Waiting, c \in Chunks :
         m = [sequence |-> q, length |-> Length(w), count |-> FragmentCountFor(Length(w), c),
              chunk |-> c, body |-> w.body]
  BY DEF Possible
<1>2. Length(w) \in Nat /\ c \in Nat \ {0}
  BY LengthType, ChunkType, WireAssumption
<1>3. FragmentCountFor(Length(w), c) \in Nat \ {0}
  BY <1>2, FragmentCountFits
<1> QED
  BY <1>1, <1>2, <1>3

\* More taken messages explain no less.
LEMMA StemsStay ==
    ASSUME taken \subseteq taken'
    PROVE  /\ \A body, i, q, l, n : Stems(body, i, q, l, n) => Stems(body, i, q, l, n)'
           /\ \A stamp, q, l, n : Stamps(stamp, q, l, n) => Stamps(stamp, q, l, n)'
BY DEF Stems, Stamps, L!Part

\* The timestamp of a datagram is that of a message it is part of.
LEMMA GenuineStamps ==
    ASSUME NEW d, Genuine(d)
    PROVE  Stamps(d.timestamp, d.sequence, d.length, d.count)
<1>1. PICK t \in taken : /\ t.message.sequence = d.sequence /\ t.message.length = d.length
                         /\ t.message.count = d.count
                         /\ d.body = L!Part(t.message, d.index)
  BY DEF Genuine, Stems
<1>2. d.timestamp = t.message.body
  BY <1>1 DEF Genuine, L!Part
<1> QED
  BY <1>1, <1>2 DEF Stamps

\* A step of the bridge's side that sends nothing.
LEMMA OthersKept ==
    ASSUME RInv, taken \subseteq taken', UNCHANGED <<wire, receiver>>
    PROVE  TrackInv' /\ WireSound' /\ EntriesSound' /\ arrived' \in Nat
<1>1. TrackInv'
  BY TrackKept DEF RInv, receiver
<1>2. WireSound'
  BY StemsStay DEF RInv, WireSound, Genuine
<1>3. EntriesSound'
  BY StemsStay DEF RInv, EntriesSound, Held, receiver, reassembly
<1> QED
  BY <1>1, <1>2, <1>3 DEF RInv, receiver

LEMMA RelayInitInv == RelayInit => RInv
<1> SUFFICES ASSUME RelayInit PROVE RInv
  OBVIOUS
<1>1. BInv
  BY BInit DEF RelayInit
<1>2. TrackInv
  BY TrackInit DEF RelayInit
<1>3. Configured
  BY RelayAssumption DEF RelayInit, Init, Configured, Chunks, Chunk
<1>4. Numbering
  <2>1. /\ setup.script \in Seq(Message) /\ setup.restarts \in Nat
        /\ published = 0 /\ generation = 0 /\ taken = {}
        /\ queue = [s \in Source |-> << >>] /\ nextSeq = [s \in Source |-> 0]
    BY <1>3 DEF Configured, RelayInit, Init, L!Init
  <2>2. 1 \in Source /\ Len(setup.script) \in Nat /\ Len(<< >>) = 0
    BY <2>1, BridgeAssumption, LenProperties DEF Source
  <2> QED
    BY <2>1, <2>2 DEF Numbering, NumberedOnce
<1>5. TxTaken
  BY DEF TxTaken, RelayInit, Init
<1>6. WireSound
  BY EmptySeq DEF WireSound, RelayInit
<1>7. EntriesSound
  BY DEF EntriesSound, RelayInit, R!Init
<1> QED
  BY <1>1, <1>2, <1>3, <1>4, <1>5, <1>6, <1>7 DEF RInv, RelayInit

-----------------------------------------------------------------------------
(* The steps of the bridge's side.                                         *)

LEMMA PublishInv == ASSUME RInv, PublishNext PROVE RInv'
<1> DEFINE m == setup.script[published + 1]
<1>1. /\ published < Len(setup.script) /\ published' = published + 1
      /\ Len(queue[1]) < Hwm /\ queue' = [queue EXCEPT ![1] = Append(@, m)]
      /\ UNCHANGED <<phase, ready, budget, tx, nextSeq, shutdown, code, setup,
                     wire, generation, taken, receiver>>
  BY DEF PublishNext, Publish
<1>2. setup.script \in Seq(Message) /\ published \in Nat /\ 1 \in Source
  BY LenProperties, BridgeAssumption DEF RInv, Configured, Numbering, Source
<1>3. m \in Message
  BY <1>1, <1>2, ElementOfSeq, LenProperties
<1>4. BInv'
  BY <1>2, <1>3, BPublish DEF RInv, PublishNext
<1>5. Configured'
  BY <1>1 DEF RInv, Configured, Chunk
<1>6. Numbering'
  <2>1. queue \in [Source -> Seq(Waiting)] /\ m \in Waiting
    BY <1>3, WholeMessage DEF RInv, BInv, TypeOK
  <2>2. queue[1] \in Seq(Waiting) /\ Len(queue[1]) \in Nat
    BY <1>2, <2>1, LenProperties
  <2> DEFINE q == Append(queue[1], m)
  <2>3. Len(q) = Len(queue[1]) + 1
    BY <2>1, <2>2, AppendProperties
  <2>4. queue' = [queue EXCEPT ![1] = q]
    BY <1>1
  <2> HIDE DEF q, m
  <2>5. Len(queue'[1]) = Len(queue[1]) + 1 /\ \A s \in Source : s # 1 => queue'[s] = << >>
    BY <1>2, <2>1, <2>3, <2>4 DEF RInv, Numbering
  <2>6. nextSeq[1] \in Int /\ Len(setup.script) \in Nat
    BY <1>2, LenProperties, BridgeAssumption DEF RInv, BInv, TypeOK
  <2> QED
    BY <1>1, <1>2, <2>2, <2>5, <2>6 DEF RInv, Numbering, NumberedOnce
<1>7. TxTaken'
  BY <1>1 DEF RInv, TxTaken, Numbered, Chunk
<1> QED
  BY <1>1, <1>4, <1>5, <1>6, <1>7, OthersKept DEF RInv

\* The message in the socket that is taken is from the first source.
LEMMA TakenFromFirst ==
    ASSUME RInv, queue[Cur] # << >>, phase \in {"recv", "frames"}
    PROVE  Cur = 1 /\ Cur \in Source
BY CurIsReady DEF RInv, BInv, TypeOK, Numbering

\* The number of a message does not wrap.
LEMMA TakeCounts == ASSUME RInv, Take PROVE nextSeq'[1] = nextSeq[1] + 1
<1>1. Cur = 1 /\ 1 \in Source /\ queue[1] # << >>
  BY TakenFromFirst DEF Take
<1>2. nextSeq' = [nextSeq EXCEPT ![1] = (@ + 1) % SeqSpace]
  BY <1>1 DEF Take
<1>3. /\ Len(queue[1]) \in Nat /\ queue[1] \in Seq(Waiting)
      /\ nextSeq[1] \in 0 .. SeqSpace - 1 /\ nextSeq \in [Source -> 0 .. SeqSpace - 1]
  BY <1>1, LenProperties DEF RInv, BInv, TypeOK
<1>4. nextSeq[1] + 1 <= Len(setup.script)
  <2>1. Len(queue[1]) # 0
    BY <1>1, <1>3, EmptySeq
  <2>2. nextSeq[1] + Len(queue[1]) <= published /\ published \in Int
        /\ published <= Len(setup.script) /\ Len(setup.script) \in Nat
    BY LenProperties DEF RInv, Numbering, Configured
  <2> QED
    BY <1>3, <2>1, <2>2
<1>5. nextSeq[1] + 1 \in 0 .. SeqSpace - 1 /\ SeqSpace \in Nat
  <2>1. Len(setup.script) \in Nat /\ Len(setup.script) < SeqSpace /\ SeqSpace \in Nat
    BY LenProperties, BridgeAssumption DEF RInv, Configured
  <2> QED
    BY <1>3, <1>4, <2>1
<1>6. \A x \in 0 .. SeqSpace - 1 : x % SeqSpace = x
  BY <1>5
<1>7. (nextSeq[1] + 1) % SeqSpace = nextSeq[1] + 1
  BY <1>5, <1>6
<1> QED
  BY <1>1, <1>2, <1>3, <1>7

\* What becomes of the record kept of a message, when it is taken.
LEMMA TakesInv == ASSUME RInv, BridgeTakes PROVE RInv'
<1> DEFINE m == Head(queue[Cur])
           t == Transmission(1, m)
           n == Numbered(t)
<1>1. /\ Take
      /\ taken' = IF tx' = NoTx THEN taken
                  ELSE taken \cup {[generation |-> generation, message |-> Numbered(tx')]}
      /\ UNCHANGED <<published, wire, generation, receiver>>
  BY DEF BridgeTakes
<1>2. Cur = 1 /\ 1 \in Source /\ queue[1] # << >>
  BY <1>1, TakenFromFirst DEF Take
<1>3. /\ queue' = [queue EXCEPT ![1] = Tail(@)]
      /\ nextSeq' = [nextSeq EXCEPT ![1] = (@ + 1) % SeqSpace]
      /\ setup' = setup
      /\ tx' = NoTx \/ tx' = t
  BY <1>1, <1>2 DEF Take
<1>4. BInv'
  BY <1>1, BTake DEF RInv
<1>5. Configured'
  BY <1>3 DEF RInv, Configured, Chunk
<1>6. TxTaken'
  BY <1>1, <1>3 DEF TxTaken, Numbered, Chunk
<1>7. /\ queue[1] \in Seq(Waiting) /\ m \in Waiting /\ Len(queue[1]) \in Nat
      /\ Len(Tail(queue[1])) = Len(queue[1]) - 1
      /\ nextSeq[1] \in 0 .. SeqSpace - 1 /\ nextSeq \in [Source -> 0 .. SeqSpace - 1]
      /\ queue \in [Source -> Seq(Waiting)]
  BY <1>2, HeadTailProperties, LenProperties DEF RInv, BInv, TypeOK
<1>8. /\ queue'[1] = Tail(queue[1])
      /\ \A s \in Source : s # 1 => queue'[s] = << >>
  BY <1>2, <1>3, <1>7 DEF RInv, Numbering
<1>9. nextSeq'[1] = nextSeq[1] + 1
  BY <1>1, TakeCounts
<1>10. n \in Possible /\ n.sequence = nextSeq[1]
  <2>1. n = [sequence |-> nextSeq[1], length |-> Length(m),
             count |-> FragmentCountFor(Length(m), Chunk), chunk |-> Chunk, body |-> m.body]
    BY DEF Numbered, Transmission
  <2>2. Chunk \in Chunks
    BY DEF RInv, Configured
  <2> HIDE DEF m, n
  <2> QED
    BY <1>7, <2>1, <2>2 DEF Possible
<1>11. Numbering'
  <2> HIDE DEF n
  <2>1. \A e \in taken' : e \in taken \/ e = [generation |-> generation, message |-> n]
    BY <1>1, <1>3 DEF n
  <2>2. ASSUME NEW e \in taken'
        PROVE  /\ e.message \in Possible /\ e.generation \in 0 .. generation
               /\ e.generation = generation => e.message.sequence < nextSeq[1] + 1
    <3>1. CASE e \in taken
      <4>1. e.generation = generation => e.message.sequence < nextSeq[1]
        BY <3>1 DEF RInv, Numbering
      <4>2. e.message \in Possible /\ e.generation \in 0 .. generation
        BY <3>1 DEF RInv, Numbering
      <4>3. e.message.sequence \in Int
        BY <4>2, PossibleFacts
      <4> QED
        BY <1>7, <4>1, <4>2, <4>3
    <3>2. CASE e = [generation |-> generation, message |-> n]
      <4>1. e.generation = generation /\ e.message = n /\ generation \in 0 .. generation
        BY <3>2 DEF RInv, Numbering
      <4> QED
        BY <1>7, <1>10, <4>1
    <3> QED
      BY <2>1, <3>1, <3>2
  <2>4. NumberedOnce'
    <3>1. ASSUME NEW e \in taken, e.generation = generation
          PROVE  e.message.sequence # n.sequence
      BY <1>7, <1>10, <3>1, PossibleFacts DEF RInv, Numbering
    <3> DEFINE x == [generation |-> generation, message |-> n]
    <3>2. x.generation = generation /\ x.message = n
      OBVIOUS
    <3>3. \A e \in taken' : e \in taken \/ e = x
      BY <2>1
    <3> HIDE DEF x
    <3> QED
      BY <3>1, <3>2, <3>3 DEF RInv, Numbering, NumberedOnce
  <2>3. nextSeq'[1] + Len(queue'[1]) <= published'
    <3>1. nextSeq[1] + Len(queue[1]) <= published /\ published \in Int
      BY DEF RInv, Numbering
    <3> QED
      BY <1>1, <1>7, <1>8, <1>9, <3>1
  <2> QED
    BY <1>1, <1>3, <1>8, <1>9, <2>2, <2>3, <2>4 DEF RInv, Numbering
<1> QED
  BY <1>1, <1>4, <1>5, <1>6, <1>11, OthersKept DEF RInv

\* Appending to what was sent.
LEMMA AppendAny ==
    ASSUME NEW s, s \in Seq(Range(s)), NEW e
    PROVE  /\ Append(s, e) \in Seq(Range(Append(s, e)))
           /\ DOMAIN Append(s, e) = 1 .. Len(s) + 1 /\ DOMAIN s = 1 .. Len(s)
           /\ \A j \in 1 .. Len(s) : Append(s, e)[j] = s[j]
           /\ Append(s, e)[Len(s) + 1] = e
<1> DEFINE S == Range(s) \cup {e}
<1>1. s \in Seq(S)
  BY SeqMonotonic
<1> HIDE DEF S
<1>2. e \in S
  BY DEF S
<1>3. /\ Append(s, e) \in Seq(S) /\ Len(Append(s, e)) = Len(s) + 1
      /\ \A j \in 1 .. Len(s) : Append(s, e)[j] = s[j]
      /\ Append(s, e)[Len(s) + 1] = e
  BY <1>1, <1>2, AppendProperties
<1>4. DOMAIN Append(s, e) = 1 .. Len(s) + 1 /\ DOMAIN s = 1 .. Len(s)
  BY <1>1, <1>3, LenProperties
<1>5. Append(s, e) \in Seq(Range(Append(s, e)))
  BY <1>3, SeqOfRange
<1> QED
  BY <1>3, <1>4, <1>5

\* A datagram of the message in transmission is a part of it.
LEMMA NextIsGenuine ==
    ASSUME RInv, SendDatagram
    PROVE  Genuine(NextDatagram)
<1> DEFINE d == NextDatagram
           n == Numbered(tx)
<1>1. /\ tx # NoTx /\ Sent < tx.count /\ Chunk \in 1 .. MaxU16 /\ Fits(tx, Chunk)
      /\ tx.sent \in Seq(Cuts(tx, Chunk))
  BY DEF RInv, BInv, TypeOK, Sending, SendDatagram
<1>2. [generation |-> generation, message |-> n] \in taken
  BY <1>1 DEF RInv, TxTaken
<1>3. Sent \in 0 .. tx.count - 1
  BY <1>1, LenProperties, WireAssumption DEF Sent, Fits
<1>4. d = Cut(tx, Chunk, Sent)
  BY Zenon DEF NextDatagram, NextLength, Offset, Cut, Piece
<1>5. d.index = Sent /\ d.count = tx.count /\ d.length = tx.length
  BY <1>1, <1>3, <1>4, CutFacts
<1>6. /\ d.sequence = tx.sequence /\ d.timestamp = tx.body
      /\ d.body = <<tx.body, Sent * Chunk, Piece(tx.length, Chunk, Sent)>>
  BY <1>4 DEF Cut, Datagram
<1>7. n.sequence = tx.sequence /\ n.length = tx.length /\ n.count = tx.count /\ n.chunk = Chunk
      /\ n.body = tx.body
  BY DEF Numbered
<1> HIDE DEF d, n
<1>8. d.body = L!Part(n, d.index)
  BY <1>5, <1>6, <1>7, Zenon DEF L!Part, Piece
<1>9. Stems(d.body, d.index, d.sequence, d.length, d.count)
  <2> DEFINE t == [generation |-> generation, message |-> n]
  <2>1. t.message = n
    OBVIOUS
  <2> HIDE DEF t
  <2> QED
    BY <1>2, <1>5, <1>6, <1>7, <1>8, <2>1 DEF Stems, t
<1>10. d.sequence \in 0 .. SeqSpace - 1
  <2>1. n \in Possible
    <3>1. [generation |-> generation, message |-> n].message \in Possible
      BY <1>2, Zenon DEF RInv, Numbering
    <3> QED
      BY <3>1
  <2> QED
    BY <1>6, <1>7, <2>1, PossibleFacts
<1>11. d.timestamp = d.body[1]
  BY <1>6
<1> QED
  BY <1>3, <1>5, <1>9, <1>10, <1>11 DEF Genuine, d

LEMMA SendsInv == ASSUME RInv, BridgeSends PROVE RInv'
<1> DEFINE d == NextDatagram
<1>1. /\ SendDatagram /\ wire' = Append(wire, d) /\ tx # NoTx
      /\ UNCHANGED <<published, generation, taken, receiver, queue, nextSeq, setup>>
  BY DEF BridgeSends, SendDatagram, RInv, BInv
<1>2. BInv'
  BY <1>1, BSendDatagram DEF RInv
<1>3. Configured' /\ Numbering'
  BY <1>1 DEF RInv, Configured, Numbering, NumberedOnce, Chunk
<1>4. Genuine(d)
  BY <1>1, NextIsGenuine
<1>5. TxTaken'
  <2>1. /\ tx = [source |-> tx.source, sequence |-> tx.sequence, flags |-> tx.flags,
                 length |-> tx.length, count |-> tx.count, body |-> tx.body, sent |-> tx.sent]
        /\ tx' = [tx EXCEPT !.sent = Append(@, d)]
    BY <1>1 DEF RInv, BInv, Sending, SendDatagram
  <2> DEFINE s == Append(tx.sent, d)
  <2>2. tx' = [tx EXCEPT !.sent = s]
    BY <2>1
  <2> HIDE DEF s
  <2>3. /\ tx'.sequence = tx.sequence /\ tx'.length = tx.length /\ tx'.count = tx.count
        /\ tx'.body = tx.body
    BY <2>1, <2>2
  <2>4. Numbered(tx)' = Numbered(tx)
    BY <1>1, <2>3 DEF Numbered, Chunk
  <2> QED
    BY <1>1, <2>4 DEF RInv, TxTaken
<1> HIDE DEF d
<1>6. WireSound'
  <2>1. /\ wire' \in Seq(Range(wire'))
        /\ DOMAIN wire' = 1 .. Len(wire) + 1 /\ DOMAIN wire = 1 .. Len(wire)
        /\ \A j \in 1 .. Len(wire) : wire'[j] = wire[j]
        /\ wire'[Len(wire) + 1] = d /\ Len(wire) \in Nat
    BY <1>1, AppendAny, LenProperties DEF RInv, WireSound
  <2>2. ASSUME NEW j \in DOMAIN wire' PROVE Genuine(wire'[j])
    BY <1>4, <2>1 DEF RInv, WireSound
  <2>3. \A j \in DOMAIN wire' : Genuine(wire[j])'
    BY <1>1, <2>2 DEF Genuine, Stems, L!Part
  <2> QED
    BY <2>1, <2>3 DEF WireSound
<1>7. TrackInv' /\ EntriesSound' /\ arrived' \in Nat
  BY <1>1, TrackKept DEF RInv, receiver, reassembly, EntriesSound, Held, Stems, Stamps, L!Part
<1> QED
  BY <1>2, <1>3, <1>5, <1>6, <1>7 DEF RInv

LEMMA MovesInv == ASSUME RInv, BridgeMoves PROVE RInv'
<1>1. /\ Poll \/ BatchFull \/ GiveUp \/ FirstFrame \/ TakeFails \/ SendFails
      /\ UNCHANGED <<published, wire, generation, taken, receiver, nextSeq, setup, tx>>
  BY DEF BridgeMoves, Poll, BatchFull, GiveUp, FirstFrame, TakeFails, SendFails
<1>2. BInv'
  BY <1>1, BStep DEF RInv, Next, BridgeStep
<1>3. Configured' /\ TxTaken'
  BY <1>1 DEF RInv, Configured, TxTaken, Numbered, Chunk
<1>4. Numbering'
  <2>1. CASE ~TakeFails
    BY <1>1, <2>1 DEF RInv, Numbering, NumberedOnce, Poll, BatchFull, GiveUp, FirstFrame, SendFails
  <2>2. CASE TakeFails
    <3>1. Cur = 1 /\ 1 \in Source /\ queue[1] # << >> /\ queue \in [Source -> Seq(Waiting)]
      BY <2>2, TakenFromFirst DEF TakeFails, RInv, BInv, TypeOK
    <3>2. PICK e : queue' = [queue EXCEPT ![1] = <<e>> \o Tail(@)]
      BY <2>2, <3>1 DEF TakeFails
    <3> DEFINE S == Waiting \cup {e}
    <3>3. /\ queue[1] \in Seq(S) /\ queue[1] # << >> /\ <<e>> \in Seq(S)
          /\ Len(<<e>>) = 1 /\ Len(queue[1]) \in Nat
      BY <3>1, SeqMonotonic, LenProperties
    <3>4. Tail(queue[1]) \in Seq(S) /\ Len(Tail(queue[1])) = Len(queue[1]) - 1
      <4> HIDE DEF S
      <4> QED
        BY <3>3, HeadTailProperties
    <3> DEFINE r == <<e>>
               rest == Tail(queue[1])
    <3>5. Len(r \o rest) = Len(r) + Len(rest)
      <4>1. r \in Seq(S) /\ rest \in Seq(S)
        BY <3>3, <3>4
      <4> HIDE DEF S, r, rest
      <4> QED
        BY <4>1, ConcatProperties
    <3>6. Len(r \o rest) = Len(queue[1])
      <4>1. Len(r) = 1 /\ Len(rest) = Len(queue[1]) - 1
        BY <3>3, <3>4
      <4> HIDE DEF r, rest
      <4> QED
        BY <3>3, <3>5, <4>1
    <3>7. /\ Len(queue'[1]) = Len(queue[1])
          /\ \A s \in Source : s # 1 => queue'[s] = queue[s]
      <4>1. queue' = [queue EXCEPT ![1] = r \o rest]
        BY <3>2
      <4> HIDE DEF r, rest
      <4> QED
        BY <3>1, <3>6, <4>1
    <3> QED
      BY <1>1, <3>7 DEF RInv, Numbering, NumberedOnce
  <2> QED
    BY <2>1, <2>2
<1> QED
  BY <1>1, <1>2, <1>3, <1>4, OthersKept DEF RInv

LEMMA RestartInv == ASSUME RInv, Restart PROVE RInv'
<1>1. /\ generation < setup.restarts
      /\ queue' = [s \in Source |-> << >>] /\ nextSeq' = [s \in Source |-> 0]
      /\ phase' = "poll" /\ ready' = {} /\ budget' = Budget /\ tx' = NoTx
      /\ shutdown' = FALSE /\ code' = -1
      /\ generation' = generation + 1
      /\ UNCHANGED <<published, wire, taken, receiver>>
  BY DEF Restart
<1>2. PICK c \in setup.chunks : setup' = [setup EXCEPT !.chunk = c]
  BY DEF Restart
<1>3. /\ setup = [chunk |-> setup.chunk, faults |-> setup.faults, script |-> setup.script,
                chunks |-> setup.chunks, restarts |-> setup.restarts,
                inOrder |-> setup.inOrder, arrivals |-> setup.arrivals]
      /\ setup.script \in Seq(Message) /\ Len(setup.script) < SeqSpace
      /\ setup.chunks \subseteq 1 .. MaxU16 /\ setup.chunks \subseteq Chunks
      /\ setup.restarts \in Nat
  BY DEF RInv, Configured
<1>4. setup' = [chunk |-> c, faults |-> setup.faults, script |-> setup.script,
                chunks |-> setup.chunks, restarts |-> setup.restarts,
                inOrder |-> setup.inOrder, arrivals |-> setup.arrivals]
  BY <1>2, <1>3
<1>5. /\ setup'.chunk = c /\ setup'.faults = setup.faults /\ setup'.script = setup.script
      /\ setup'.chunks = setup.chunks /\ setup'.restarts = setup.restarts
      /\ setup'.inOrder = setup.inOrder /\ setup'.arrivals = setup.arrivals
  BY <1>4
<1>6. Configured'
  BY <1>3, <1>4, <1>5 DEF Configured, Chunk
<1>7. BInv'
  <2>1. /\ queue' \in [Source -> Seq(Waiting)]
        /\ \A s \in Source : Len(queue'[s]) <= Hwm
    <3>1. << >> \in Seq(Waiting) /\ Len(<< >>) = 0 /\ Hwm \in Nat
      BY EmptySeq, BridgeAssumption
    <3> QED
      BY <1>1, <3>1
  <2>2. Chunk' \in 1 .. MaxU16 /\ budget' \in 0 .. Budget /\ nextSeq' \in [Source -> 0 .. SeqSpace - 1]
    BY <1>1, <1>3, <1>5, BridgeAssumption DEF Chunk
  <2>3. TypeOK'
    BY <1>1, <2>1, <2>2 DEF TypeOK
  <2> QED
    BY <1>1, <2>3 DEF BInv
<1>8. Numbering'
  <2>1. 1 \in Source /\ Len(<< >>) = 0 /\ published \in Nat /\ generation \in 0 .. setup.restarts
    BY BridgeAssumption DEF RInv, Numbering, Source
  <2>2. /\ queue'[1] = << >> /\ nextSeq'[1] = 0 /\ \A s \in Source : queue'[s] = << >>
    BY <1>1, <2>1
  <2>3. generation' \in 0 .. setup'.restarts
    BY <1>1, <1>3, <1>5, <2>1
  <2>4. ASSUME NEW t \in taken
        PROVE  t.message \in Possible /\ t.generation \in 0 .. generation' /\ t.generation # generation'
    <3>1. t.message \in Possible /\ t.generation \in 0 .. generation
      BY DEF RInv, Numbering
    <3> QED
      BY <1>1, <2>1, <3>1
  <2> QED
    BY <1>1, <1>5, <2>1, <2>2, <2>3, <2>4 DEF RInv, Numbering, NumberedOnce
<1>9. TxTaken'
  BY <1>1 DEF TxTaken
<1> QED
  BY <1>1, <1>6, <1>7, <1>8, <1>9, OthersKept DEF RInv

-----------------------------------------------------------------------------
(* The steps of the receiver's side.                                       *)

\* Adding a genuine fragment to what is held of its message.
LEMMA FilledHeld ==
    ASSUME NEW e, NEW d, Held(e, d.sequence), Genuine(d),
           d.count = e.count, d.length = e.length
    PROVE  /\ IsFiniteSet(DOMAIN R!Filled(e, d)) /\ DOMAIN R!Filled(e, d) # {}
           /\ DOMAIN R!Filled(e, d) \subseteq 0 .. d.count - 1
           /\ \A i \in DOMAIN R!Filled(e, d) :
                 Stems(R!Filled(e, d)[i], i, d.sequence, d.length, d.count)
<1> DEFINE b == R!Filled(e, d)
           D == DOMAIN e.buffer \cup {d.index}
<1>1. b = [i \in D |-> IF i = d.index THEN d.body ELSE e.buffer[i]]
  BY DEF R!Filled
<1>2. IsFiniteSet(D)
  BY FS_AddElement DEF Held
<1>3. \A i \in D : Stems(b[i], i, d.sequence, d.length, d.count)
  BY <1>1 DEF Held, Genuine
<1>4. D \subseteq 0 .. d.count - 1
  BY DEF Held, Genuine
<1>5. DOMAIN b = D
  BY <1>1
<1> HIDE DEF b
<1> QED
  BY <1>2, <1>3, <1>4, <1>5 DEF b

LEMMA AddHeld ==
    ASSUME RInv, NEW d, Genuine(d), R!Add(d), taken' = taken
    PROVE  EntriesSound'
<1> DEFINE k == R!Key(d)
           e == entries[k]
<1>1. \A l \in DOMAIN entries : Held(entries[l], l[2])
  BY DEF RInv, EntriesSound
<1>2. \A f, q : Held(f, q) => Held(f, q)'
  BY DEF Held, Stems, Stamps, L!Part
<1>3. k[2] = d.sequence
  BY DEF R!Key
<1>4. SUFFICES \A l \in DOMAIN entries' : Held(entries'[l], l[2])
  BY <1>2 DEF EntriesSound, Held, Stems, Stamps, L!Part
<1>5. CASE UNCHANGED entries
  BY <1>1, <1>5
<1>6. CASE R!Open(d)
  <2>1. PICK i : entries' = [l \in (DOMAIN entries \ R!Popped(i)) \cup {k} |->
                                IF l = k THEN R!NewEntry(d) ELSE entries[l]]
    BY <1>6 DEF R!Open
  <2>2. Held(R!NewEntry(d), d.sequence)
    <3> DEFINE n == R!NewEntry(d)
    <3>1. n = [first_seen |-> now, timestamp |-> d.timestamp, count |-> d.count,
               length |-> d.length, buffer |-> [j \in {d.index} |-> d.body]]
      BY DEF R!NewEntry
    <3>2. /\ DOMAIN n.buffer = {d.index} /\ n.buffer[d.index] = d.body
          /\ n.count = d.count /\ n.length = d.length /\ n.timestamp = d.timestamp
      BY <3>1
    <3>5. Stamps(d.timestamp, d.sequence, d.length, d.count)
      BY GenuineStamps
    <3>3. IsFiniteSet({d.index})
      BY FS_Singleton
    <3>4. n = [first_seen |-> n.first_seen, timestamp |-> n.timestamp, count |-> n.count,
               length |-> n.length, buffer |-> n.buffer]
      BY <3>1
    <3> HIDE DEF n
    <3> QED
      BY <3>2, <3>3, <3>4, <3>5 DEF Held, Genuine, n
  <2> HIDE DEF k
  <2> QED
    BY <1>1, <1>3, <2>1, <2>2
<1>7. CASE R!Drop(d) \/ R!Complete(d)
  <2>1. entries' = [l \in DOMAIN entries \ {k} |-> entries[l]]
    BY <1>7 DEF R!Drop, R!Complete, R!Without
  <2> HIDE DEF k
  <2> QED
    BY <1>1, <2>1
<1>8. CASE R!Store(d)
  <2> DEFINE b == R!Filled(e, d)
  <2>1. /\ k \in DOMAIN entries /\ d.count = e.count /\ d.length = e.length
        /\ entries' = [entries EXCEPT ![k].buffer = b]
    BY <1>8 DEF R!Store, R!Known, R!Consistent
  <2>2. Held(e, d.sequence)
    BY <1>1, <1>3, <2>1
  <2>3. /\ IsFiniteSet(DOMAIN b) /\ DOMAIN b # {} /\ DOMAIN b \subseteq 0 .. d.count - 1
        /\ \A i \in DOMAIN b : Stems(b[i], i, d.sequence, d.length, d.count)
    BY <2>1, <2>2, FilledHeld
  <2>4. e = [first_seen |-> e.first_seen, timestamp |-> e.timestamp, count |-> e.count,
             length |-> e.length, buffer |-> e.buffer]
    BY <2>2 DEF Held
  <2> HIDE DEF b
  <2> DEFINE f == [first_seen |-> e.first_seen, timestamp |-> e.timestamp, count |-> e.count,
                   length |-> e.length, buffer |-> b]
  <2>5. [e EXCEPT !.buffer = b] = f
    BY <2>4
  <2>6. Held(f, d.sequence)
    BY <2>1, <2>2, <2>3 DEF Held
  <2>7. entries' = [entries EXCEPT ![k] = f]
    BY <2>1, <2>5
  <2> HIDE DEF f, k
  <2> QED
    BY <1>1, <1>3, <2>1, <2>6, <2>7
<1>9. R!FastPath(d) \/ R!TooLong(d) \/ R!Repeat(d) => UNCHANGED entries
  BY DEF R!FastPath, R!TooLong, R!Repeat
<1> QED
  BY <1>5, <1>6, <1>7, <1>8, <1>9 DEF R!Add

\* A message of parts of taken messages of the same number, length and count is
\* one of these, or mixed of those of two generations.
LEMMA PartsOfTaken ==
    ASSUME RInv, NEW d, UNCHANGED <<generation, taken>>,
           d.count \in Nat \ {0}, Genuine(d), out'.sequence = d.sequence,
           d.count = 1 => out'.timestamp = d.timestamp /\ out'.data = [i \in {0} |-> d.body],
           Stamps(out'.timestamp, d.sequence, d.length, d.count),
           out'.data = [i \in 0 .. d.count - 1 |-> out'.data[i]],
           \A i \in 0 .. d.count - 1 : Stems(out'.data[i], i, d.sequence, d.length, d.count)
    PROVE  \E t \in taken : L!Deliver(t) \/ L!Mix(t)
<1> DEFINE n == d.count
           data == out'.data
           same == {t \in taken : /\ t.message.sequence = d.sequence
                                  /\ t.message.length = d.length /\ t.message.count = n}
           Whole(t) == out'.timestamp = t.message.body
                       /\ \A i \in 0 .. n - 1 : data[i] = L!Part(t.message, i)
<1>1. \A t \in same : L!Like(t) = same
  BY DEF L!Like
<1>2. PICK t \in same : out'.timestamp = t.message.body
  BY DEF Stamps
<1>3. \A i \in 0 .. n - 1 : \E s \in same : data[i] = L!Part(s.message, i)
  BY DEF Stems
<1>4. CASE n = 1
  <2>1. PICK s \in same : d.body = L!Part(s.message, d.index)
    BY DEF Genuine, Stems
  <2>2. d.index = 0 /\ 0 .. n - 1 = {0}
    BY <1>4 DEF Genuine
  <2>3. out'.timestamp = s.message.body
    BY <1>4, <2>1 DEF Genuine, L!Part
  <2>4. data = [i \in 0 .. s.message.count - 1 |-> L!Part(s.message, i)]
    BY <1>4, <2>1, <2>2
  <2> QED
    BY <2>3, <2>4 DEF L!Deliver
<1>5. CASE Whole(t)
  <2>1. data = [i \in 0 .. t.message.count - 1 |-> L!Part(t.message, i)]
    BY <1>5
  <2> QED
    BY <1>2, <2>1 DEF L!Deliver
<1>6. CASE n # 1 /\ ~Whole(t)
  <2>1. PICK i \in 0 .. n - 1 : data[i] # L!Part(t.message, i)
    BY <1>2, <1>6
  <2>2. PICK s \in same : data[i] = L!Part(s.message, i)
    BY <1>3
  <2>3. s # t /\ s.message.sequence = t.message.sequence
    BY <2>1, <2>2
  <2>4. s.generation # t.generation
    BY <2>3 DEF RInv, Numbering, NumberedOnce
  <2>5. DOMAIN data = 0 .. n - 1
    OBVIOUS
  <2> HIDE DEF same, data
  <2>6. /\ t.message.count > 1 /\ s \in L!Like(t) /\ t \in L!Like(t)
        /\ t.message.sequence = d.sequence /\ t.message.count = n
    BY <1>1, <1>6 DEF same
  <2>7. \A j \in DOMAIN data : \E r \in L!Like(t) : data[j] = L!Part(r.message, j)
    BY <1>1, <1>3, <2>5
  <2>8. L!Mix(t)
    BY <1>2, <2>4, <2>5, <2>6, <2>7 DEF L!Mix, data
  <2> QED
    BY <2>8 DEF same
<1> QED
  BY <1>4, <1>5, <1>6

\* A message handed over is one the bridge took.
LEMMA HandsOverTaken ==
    ASSUME RInv, NEW d, Genuine(d), R!Add(d), ret'.result = "Complete",
           out' = ret'.out, UNCHANGED <<generation, taken>>
    PROVE  \E t \in taken : L!Deliver(t) \/ L!Mix(t)
<1>1. PICK t \in taken : /\ t.message.sequence = d.sequence /\ t.message.length = d.length
                         /\ t.message.count = d.count
                         /\ d.body = L!Part(t.message, d.index)
  BY DEF Genuine, Stems
<1>3. d.count \in Nat \ {0}
  BY <1>1, PossibleFacts DEF RInv, Numbering
<1>2. SUFFICES /\ out'.sequence = d.sequence
               /\ d.count = 1 => out'.timestamp = d.timestamp /\ out'.data = [i \in {0} |-> d.body]
               /\ Stamps(out'.timestamp, d.sequence, d.length, d.count)
               /\ out'.data = [i \in 0 .. d.count - 1 |-> out'.data[i]]
               /\ \A i \in 0 .. d.count - 1 :
                     Stems(out'.data[i], i, d.sequence, d.length, d.count)
  BY <1>3, PartsOfTaken
<1>4. CASE R!FastPath(d)
  <2>1. /\ d.count = 1 /\ out'.sequence = d.sequence /\ out'.timestamp = d.timestamp
        /\ out'.data = [i \in {0} |-> d.body]
    BY <1>4 DEF R!FastPath, R!Return
  <2>2. d.index = 0 /\ Stems(d.body, d.index, d.sequence, d.length, d.count)
    BY <2>1 DEF Genuine
  <2>3. 0 .. d.count - 1 = {0}
    BY <2>1
  <2> QED
    BY <2>1, <2>2, <2>3, GenuineStamps
<1>5. CASE R!Complete(d)
  <2> DEFINE k == R!Key(d)
             e == entries[k]
             b == R!Filled(e, d)
  <2>1. /\ k \in DOMAIN entries /\ d.count = e.count /\ d.length = e.length
        /\ ~(Cardinality(DOMAIN b) < d.count)
        /\ out'.sequence = d.sequence /\ out'.data = b
        /\ out'.timestamp = e.timestamp /\ d.count # 1
    BY <1>5, SameFiniteSets DEF R!Complete, R!Buffered, R!Known, R!Consistent, R!Return
  <2>2. Held(e, d.sequence)
    BY <2>1 DEF RInv, EntriesSound, R!Key
  <2>3. /\ IsFiniteSet(DOMAIN b) /\ DOMAIN b # {} /\ DOMAIN b \subseteq 0 .. d.count - 1
        /\ \A i \in DOMAIN b : Stems(b[i], i, d.sequence, d.length, d.count)
    BY <2>1, <2>2, FilledHeld
  <2>5. b = [i \in DOMAIN b |-> b[i]]
    BY DEF R!Filled
  <2>6. Stamps(e.timestamp, d.sequence, d.length, d.count)
    BY <2>1, <2>2 DEF Held
  <2> HIDE DEF b
  <2>4. DOMAIN b = 0 .. d.count - 1
    <3>1. IsFiniteSet(0 .. d.count - 1) /\ Cardinality(0 .. d.count - 1) = d.count
      <4>1. d.count - 1 \in Nat /\ 0 <= d.count - 1 + 1 /\ d.count - 1 - 0 + 1 = d.count
        BY <1>3
      <4> QED
        BY <4>1, IntervalSize
    <3>2. /\ Cardinality(DOMAIN b) <= Cardinality(0 .. d.count - 1)
          /\ Cardinality(0 .. d.count - 1) = Cardinality(DOMAIN b) => 0 .. d.count - 1 = DOMAIN b
      BY <2>3, <3>1, FS_Subset
    <3>3. Cardinality(DOMAIN b) \in Nat
      BY <2>3, FS_CardinalityType
    <3>4. Cardinality(DOMAIN b) = d.count
      BY <1>3, <2>1, <3>1, <3>2, <3>3
    <3> QED
      BY <3>1, <3>2, <3>4
  <2> QED
    BY <2>1, <2>3, <2>4, <2>5, <2>6
<1>6. ~(R!TooLong(d) \/ R!Open(d) \/ R!Drop(d) \/ R!Repeat(d) \/ R!Store(d))
  BY DEF R!TooLong, R!Open, R!Drop, R!Repeat, R!Store, R!Return
<1> QED
  BY <1>4, <1>5, <1>6 DEF R!Add

\* What arrives was sent.
LEMMA ArrivingIsGenuine == ASSUME RInv, NEW d \in Arriving PROVE Genuine(d)
<1>1. PICK j \in DOMAIN wire : d = wire[j]
  BY DEF Arriving
<1> QED
  BY <1>1 DEF RInv, WireSound

\* A step of the receiver leaves the bridge's side as it is.
LEMMA BridgeKept ==
    ASSUME RInv, UNCHANGED <<bridge, published, wire, generation, taken>>
    PROVE  BInv' /\ Configured' /\ Numbering' /\ TxTaken' /\ WireSound'
<1>1. BInv'
  BY BStep DEF RInv, bridge, vars
<1>2. Configured' /\ Numbering' /\ TxTaken'
  BY DEF RInv, bridge, Configured, Numbering, NumberedOnce, TxTaken, Numbered, Chunk
<1>3. WireSound'
  BY DEF RInv, WireSound, Genuine, Stems, L!Part
<1> QED
  BY <1>1, <1>2, <1>3

LEMMA ReceiveInv == ASSUME RInv, NEW d \in Arriving, Receive(d) PROVE RInv'
<1>1. /\ R!Add(d) /\ arrived' = arrived + 1
      /\ IF Observes THEN T!Observe(d.sequence) ELSE UNCHANGED tracking
      /\ UNCHANGED <<bridge, published, wire, generation, taken>>
  BY DEF Receive
<1>2. Genuine(d)
  BY ArrivingIsGenuine
<1>3. EntriesSound'
  BY <1>1, <1>2, AddHeld
<1>4. TrackInv'
  <2>1. CASE Observes
    <3>1. d.sequence \in Nat
      BY <1>2, BridgeAssumption DEF Genuine
    <3> QED
      BY <1>1, <2>1, <3>1, TrackObserve DEF RInv
  <2>2. CASE ~Observes
    BY <1>1, <2>2, TrackKept DEF RInv
  <2> QED
    BY <2>1, <2>2
<1> QED
  BY <1>1, <1>3, <1>4, BridgeKept DEF RInv

LEMMA SweepInv == ASSUME RInv, Sweep PROVE RInv'
<1>1. PICK i : entries' = [k \in DOMAIN entries \ R!Popped(i) |-> entries[k]]
  BY DEF Sweep, R!Expire, R!Without
<1>2. UNCHANGED <<bridge, published, wire, generation, taken, arrived, now, tracking, out>>
  BY DEF Sweep
<1>3. EntriesSound'
  <2>1. \A k \in DOMAIN entries' : k \in DOMAIN entries /\ entries'[k] = entries[k]
    BY <1>1
  <2>2. \A k \in DOMAIN entries' : Held(entries'[k], k[2])
    BY <2>1 DEF RInv, EntriesSound
  <2> QED
    BY <1>2, <2>2 DEF EntriesSound, Held, Stems, Stamps, L!Part
<1>4. TrackInv' /\ arrived' \in Nat
  BY <1>2, TrackKept DEF RInv
<1> QED
  BY <1>2, <1>3, <1>4, BridgeKept DEF RInv

LEMMA RestInv ==
    ASSUME RInv, Tick \/ UNCHANGED relayVars
    PROVE  RInv'
<1>1. UNCHANGED <<bridge, published, wire, generation, taken, arrived, tracking, out, entries>>
  BY DEF Tick, R!Tick, relayVars, receiver, reassembly
<1>2. EntriesSound'
  BY <1>1 DEF RInv, EntriesSound, Held, Stems, Stamps, L!Part
<1>3. TrackInv' /\ arrived' \in Nat
  BY <1>1, TrackKept DEF RInv
<1> QED
  BY <1>1, <1>2, <1>3, BridgeKept DEF RInv

LEMMA RelayStep == RInv /\ [RelayNext]_relayVars => RInv'
<1> SUFFICES ASSUME RInv, [RelayNext]_relayVars PROVE RInv'
  OBVIOUS
<1>1. CASE PublishNext
  BY <1>1, PublishInv
<1>2. CASE BridgeTakes
  BY <1>2, TakesInv
<1>3. CASE BridgeSends
  BY <1>3, SendsInv
<1>4. CASE BridgeMoves
  BY <1>4, MovesInv
<1>5. CASE Restart
  BY <1>5, RestartInv
<1>6. ASSUME NEW d \in Arriving, Receive(d) PROVE RInv'
  BY <1>6, ReceiveInv
<1>7. CASE Sweep
  BY <1>7, SweepInv
<1>8. CASE Tick \/ UNCHANGED relayVars
  BY <1>8, RestInv
<1> QED
  BY <1>1, <1>2, <1>3, <1>4, <1>5, <1>6, <1>7, <1>8 DEF RelayNext

\* The inductive invariant from the bridge to the tracker: what is on the path
\* and buffered in the receiver is part of a message the bridge took, and what
\* observe() counts is measured against the numbers that arrived.
THEOREM RelayInvariant == RelaySpec => []RInv
BY RelayInitInv, RelayStep, PTL DEF RelaySpec

-----------------------------------------------------------------------------
(* What follows from it.                                                   *)

\* The variables of the bridge, of the tracking and of the path keep their
\* types through every restart and reconfiguration of the bridge.
THEOREM RelayTypes == RelaySpec => []RelayTypeOK
<1>1. RInv => RelayTypeOK
  <2> SUFFICES ASSUME RInv PROVE RelayTypeOK
    OBVIOUS
  <2>1. TypeOK /\ T!TypeOK /\ published \in 0 .. Len(setup.script) /\ arrived \in Nat
    BY DEF RInv, BInv, TrackInv, Numbering
  <2>2. \A i \in DOMAIN wire : wire[i].sequence \in 0 .. SeqSpace - 1
    BY DEF RInv, WireSound, Genuine
  <2>3. /\ generation \in 0 .. setup.restarts
        /\ \A t \in taken : t.generation <= generation /\ t.message \in Possible
    BY DEF RInv, Numbering
  <2> QED
    BY <2>1, <2>2, <2>3 DEF RelayTypeOK
<1> QED
  BY <1>1, RelayInvariant, PTL

\* SequenceTracker::observe() never under-reports: until it resynchronises, the
\* missing count lies between the number of messages really lost and that
\* number and the late arrivals, and gaps are measured from the highest number,
\* whatever the network and the restarts of the bridge do.
THEOREM RelayLossesShow == RelaySpec => []LossesShow
<1>1. RInv => LossesShow
  BY DEF RInv, TrackInv
<1> QED
  BY <1>1, RelayInvariant, PTL

\* The refinement: the initial states and the steps of the path are those of
\* LossyRelay, or leave its variables as they are.
LEMMA StepRefines ==
    ASSUME RInv, [RelayNext]_relayVars
    PROVE  [L!Next]_(L!vars)
<1>1. CASE PublishNext \/ BridgeSends \/ BridgeMoves \/ Sweep \/ Tick \/ UNCHANGED relayVars
  BY <1>1 DEF L!vars, PublishNext, BridgeSends, BridgeMoves, Sweep, Tick, receiver, relayVars
<1>2. CASE Restart
  BY <1>2 DEF Restart, receiver, L!Next, L!Restart
<1>3. CASE BridgeTakes
  <2> DEFINE n == Numbered(tx')
  <2>1. CASE tx' = NoTx
    BY <1>3, <2>1 DEF BridgeTakes, receiver, L!vars
  <2>2. CASE tx' # NoTx
    <3>1. /\ taken' = taken \cup {[generation |-> generation, message |-> n]}
          /\ UNCHANGED <<generation, out>>
      BY <1>3, <2>2 DEF BridgeTakes, receiver
    <3>2. RInv'
      BY <1>3, TakesInv
    <3> DEFINE e == [generation |-> generation, message |-> n]
    <3>3. e \in taken' /\ e.message = n
      BY <3>1
    <3>4. n \in Possible
      BY <3>2, <3>3 DEF RInv, Numbering
    <3>5. n.sequence = nextSeq[1]
      <4>1. Cur = 1
        BY <1>3, TakenFromFirst DEF BridgeTakes, Take
      <4>2. tx' = Transmission(1, Head(queue[1]))
        BY <1>3, <2>2, <4>1 DEF BridgeTakes, Take
      <4>3. tx'.sequence = nextSeq[1]
        BY <4>2 DEF Transmission
      <4> QED
        BY <4>3 DEF Numbered
    <3>6. \A t \in taken : t.generation = generation => t.message.sequence < n.sequence
      BY <3>5 DEF RInv, Numbering
    <3> HIDE DEF n
    <3>7. L!Take(n)
      BY <3>1, <3>6 DEF L!Take
    <3> QED
      BY <3>4, <3>7 DEF L!Next
  <2> QED
    BY <2>1, <2>2
<1>4. ASSUME NEW d \in Arriving, Receive(d) PROVE [L!Next]_(L!vars)
  <2>1. /\ R!Add(d) /\ UNCHANGED <<generation, taken>>
        /\ out' = IF ret'.result = "Complete" THEN ret'.out ELSE out
    BY <1>4 DEF Receive
  <2>2. CASE ret'.result = "Complete"
    BY <2>1, <2>2, ArrivingIsGenuine, HandsOverTaken DEF L!Next
  <2>3. CASE ret'.result # "Complete"
    BY <2>1, <2>3 DEF L!vars
  <2> QED
    BY <2>2, <2>3
<1> QED
  BY <1>1, <1>2, <1>3, <1>4 DEF RelayNext

\* Whatever is lost, repeated, reordered, evicted or timed out, and however
\* often the bridge crashes and is configured anew: what the receiver hands on
\* is a message the bridge took, whole, byte for byte, with its timestamp and
\* under its number.  The exception: when two generations of the bridge sent
\* messages of the same number, length and fragment count, of two fragments at
\* least, it may be mixed of the fragments of these, for the reassembler does not
\* compare the timestamps in which they differ (reassembler.cpp:51).
THEOREM RelayImplementsLossyRelay == RelaySpec => ImplementsLossyRelay
<1>1. RelayInit => L!Init
  BY DEF RelayInit
<1>2. RInv /\ [RelayNext]_relayVars => [L!Next]_(L!vars)
  BY StepRefines
<1> QED
  BY <1>1, <1>2, RelayInvariant, PTL DEF RelaySpec, ImplementsLossyRelay, L!Spec

-----------------------------------------------------------------------------
(* A network that keeps the order: what the bridge sends.  Behind a        *)
(* datagram comes more of its message, the next message, or message 0 of a *)
(* bridge that started again, and there are no more of the last kind than  *)
(* restarts.                                                               *)

\* A datagram of the first source that the reassembler does not find too long.
Plain(d) ==
    /\ d.source = 1 /\ d.sequence \in Nat
    /\ d.count \in Nat \ {0} /\ d.index \in 0 .. d.count - 1
    /\ d.length \in Nat /\ d.length <= MaxMessageLength

Begins(d) == d.sequence = 0 /\ d.index = 0
Finishes(d) == d.index + 1 = d.count

\* What may be sent behind datagram d: more of its message, the next message, or
\* message 0 of a bridge that started again.
More(d, e) ==
    /\ e.sequence = d.sequence /\ e.count = d.count /\ e.length = d.length
    /\ e.index = d.index + 1
Succeeds(d, e) == Finishes(d) /\ e.sequence = d.sequence + 1 /\ e.index = 0
Follows(d, e) == More(d, e) \/ Succeeds(d, e) \/ Begins(e)

\* The datagrams among the first n with which a bridge that started again begins.
Starts(n) == {i \in 2 .. n : Begins(wire[i])}

InSequence ==
    /\ \A i \in 1 .. Len(wire) : Plain(wire[i])
    /\ \A i \in 1 .. Len(wire) - 1 : Follows(wire[i], wire[i + 1])
    /\ wire # << >> => Begins(wire[1])

\* The number and the index of the datagram that is sent next.
NextNumber == IF phase = "send" THEN tx.sequence ELSE nextSeq[1]
NextIndex == IF phase = "send" THEN Sent ELSE 0
Newest == wire[Len(wire)]

Upcoming ==
    /\ phase = "send" => /\ tx.source = 1 /\ tx.length <= MaxMessageLength
                         /\ nextSeq[1] = tx.sequence + 1
    /\ NextIndex # 0 => /\ wire # << >>
                        /\ Newest.sequence = NextNumber /\ Newest.index + 1 = NextIndex
                        /\ Newest.count = tx.count /\ Newest.length = tx.length
    /\ NextIndex = 0 /\ NextNumber # 0 =>
          wire # << >> /\ Finishes(Newest) /\ Newest.sequence + 1 = NextNumber
    /\ wire # << >> =>
          Cardinality(Starts(Len(wire))) + (IF NextIndex = 0 /\ NextNumber = 0 THEN 1 ELSE 0)
              <= generation

WireOrdered == InSequence /\ Upcoming /\ arrived <= Len(wire)

\* Being orderly does not change.
LEMMA OrderlyStays == ASSUME RInv, [RelayNext]_relayVars PROVE Orderly' <=> Orderly
<1>1. setup'.inOrder = setup.inOrder /\ setup'.faults = setup.faults
  <2>1. CASE Restart
    <3>1. PICK c \in setup.chunks : setup' = [setup EXCEPT !.chunk = c]
      BY <2>1 DEF Restart
    <3>2. setup = [chunk |-> setup.chunk, faults |-> setup.faults, script |-> setup.script,
                   chunks |-> setup.chunks, restarts |-> setup.restarts,
                   inOrder |-> setup.inOrder, arrivals |-> setup.arrivals]
      BY DEF RInv, Configured
    <3>3. setup' = [chunk |-> c, faults |-> setup.faults, script |-> setup.script,
                    chunks |-> setup.chunks, restarts |-> setup.restarts,
                    inOrder |-> setup.inOrder, arrivals |-> setup.arrivals]
      BY <3>1, <3>2
    <3> QED
      BY <3>3
  <2>2. CASE ~Restart
    <3>1. setup' = setup
      BY <2>2 DEF RelayNext, relayVars, PublishNext, Publish, BridgeTakes, Take, BridgeSends,
                  SendDatagram, BridgeMoves, Poll, BatchFull, GiveUp, FirstFrame, TakeFails, SendFails,
                  Receive, Sweep, Tick, bridge
    <3> QED
      BY <3>1
  <2> QED
    BY <2>1, <2>2
<1> QED
  BY <1>1 DEF Orderly, faults

\* The number of starts grows by one with each.
LEMMA StartsFinite ==
    ASSUME NEW n \in Nat
    PROVE  IsFiniteSet(Starts(n)) /\ Cardinality(Starts(n)) \in Nat
<1>1. IsFiniteSet(2 .. n)
  BY FS_Interval
<1>2. Starts(n) \subseteq 2 .. n
  BY DEF Starts
<1> QED
  BY <1>1, <1>2, FS_Subset, FS_CardinalityType

LEMMA StartsLater ==
    ASSUME Len(wire') \in Nat
    PROVE  IsFiniteSet(Starts(Len(wire))') /\ Cardinality(Starts(Len(wire))') \in Nat
<1>1. IsFiniteSet(2 .. Len(wire'))
  BY FS_Interval
<1>2. Starts(Len(wire))' \subseteq 2 .. Len(wire')
  BY DEF Starts
<1> QED
  BY <1>1, <1>2, FS_Subset, FS_CardinalityType

LEMMA StartsGrow ==
    ASSUME NEW n \in Nat \ {0}
    PROVE  Cardinality(Starts(n + 1)) =
             IF Begins(wire[n + 1]) THEN Cardinality(Starts(n)) + 1 ELSE Cardinality(Starts(n))
<1>1. CASE Begins(wire[n + 1])
  <2>1. Starts(n + 1) = Starts(n) \cup {n + 1} /\ n + 1 \notin Starts(n)
    BY <1>1 DEF Starts
  <2>2. IsFiniteSet(Starts(n)) /\ Cardinality(Starts(n)) \in Nat
    BY StartsFinite
  <2>3. Cardinality(Starts(n) \cup {n + 1}) = Cardinality(Starts(n)) + 1
    BY <2>1, <2>2, FS_AddElement
  <2> QED
    BY <1>1, <2>1, <2>3
<1>2. CASE ~Begins(wire[n + 1])
  <2>1. Starts(n + 1) = Starts(n)
    BY <1>2 DEF Starts
  <2> QED
    BY <1>2, <2>1
<1> QED
  BY <1>1, <1>2

LEMMA StartsMonotonic ==
    ASSUME NEW n \in Nat, NEW m \in Nat, n <= m
    PROVE  Cardinality(Starts(n)) <= Cardinality(Starts(m))
<1>1. Starts(n) \subseteq Starts(m)
  BY DEF Starts
<1> QED
  BY <1>1, StartsFinite, FS_Subset

\* A step that sends nothing and leaves the transmission as it is.
LEMMA WireKept ==
    ASSUME WireOrdered, wire' = wire, generation' = generation,
           NextNumber' = NextNumber, NextIndex' = NextIndex,
           phase' = "send" => phase = "send" /\ UNCHANGED <<tx, nextSeq>>,
           arrived' <= Len(wire)
    PROVE  WireOrdered'
<1>1. InSequence'
  BY DEF WireOrdered, InSequence
<1>2. Starts(Len(wire))' = Starts(Len(wire)) /\ Newest' = Newest
  BY DEF Starts, Newest
<1>3. NextIndex' # 0 => phase' = "send"
  BY DEF NextIndex
<1>4. Upcoming'
  BY <1>2, <1>3 DEF WireOrdered, Upcoming
<1> QED
  BY <1>1, <1>4 DEF WireOrdered

LEMMA WireTakes == ASSUME RInv, Orderly, WireOrdered, BridgeTakes PROVE WireOrdered'
<1> DEFINE m == Head(queue[Cur])
           t == Transmission(1, m)
<1>1. /\ Take /\ phase \in {"recv", "frames"}
      /\ UNCHANGED <<published, wire, generation, receiver>>
  BY DEF BridgeTakes, Take
<1>2. Cur = 1 /\ 1 \in Source /\ queue[1] # << >>
  BY <1>1, TakenFromFirst DEF Take
<1>3. queue[1] \in Seq(Waiting) /\ m \in Waiting /\ Chunk \in Chunks
  BY <1>2, HeadTailProperties DEF RInv, BInv, TypeOK, Configured
<1>4. Length(m) <= MaxMessageLength /\ ~Oversize(Length(m))
  <2>1. /\ Length(m) <= MaxMessageLength /\ Length(m) <= MaxU32
        /\ FragmentCountFor(Length(m), Chunk) <= MaxU16
    BY <1>3 DEF Orderly, Deliverable
  <2>2. Length(m) \in Nat /\ MaxU32 \in Nat /\ MaxU16 \in Nat
    BY <1>3, LengthType, WireAssumption
  <2>3. FragmentCountFor(Length(m), Chunk) \in Nat
    <3>1. Chunk \in Nat \ {0}
      BY <1>3, <2>2, ChunkType
    <3> HIDE DEF m
    <3> QED
      BY <2>2, <3>1, FragmentCountFits
  <2> HIDE DEF m
  <2> QED
    BY <2>1, <2>2, <2>3 DEF Oversize
<1>5. tx' = t /\ phase' = "send" /\ nextSeq' = [nextSeq EXCEPT ![1] = (@ + 1) % SeqSpace]
  BY <1>1, <1>2, <1>4, Zenon DEF Take
<1>6. nextSeq'[1] = nextSeq[1] + 1
  BY <1>1, TakeCounts
<1>7. t.source = 1 /\ t.sequence = nextSeq[1] /\ t.length = Length(m) /\ t.sent = << >>
  BY DEF Transmission
<1> HIDE DEF t, m
<1>8. /\ NextNumber' = nextSeq[1] /\ NextIndex' = 0
      /\ NextNumber = nextSeq[1] /\ NextIndex = 0
  BY <1>1, <1>5, <1>7, EmptySeq DEF NextNumber, NextIndex, Sent
<1>9. InSequence' /\ arrived' <= Len(wire') /\ Starts(Len(wire))' = Starts(Len(wire)) /\ Newest' = Newest
  BY <1>1 DEF WireOrdered, InSequence, Starts, Newest, receiver
<1>10. Upcoming'
  BY <1>1, <1>4, <1>5, <1>6, <1>7, <1>8, <1>9 DEF WireOrdered, Upcoming
<1> QED
  BY <1>9, <1>10 DEF WireOrdered

LEMMA WireSends == ASSUME RInv, Orderly, WireOrdered, BridgeSends PROVE WireOrdered'
<1> DEFINE e == NextDatagram
           n == Len(wire)
<1>1. /\ SendDatagram /\ wire' = Append(wire, e) /\ tx # NoTx /\ phase = "send"
      /\ UNCHANGED <<published, generation, taken, receiver, queue, nextSeq, setup>>
  BY DEF BridgeSends, SendDatagram, RInv, BInv
<1>2. /\ Sent < tx.count /\ Chunk \in 1 .. MaxU16 /\ Fits(tx, Chunk) /\ Sent \in Nat
      /\ tx.sent \in Seq(Cuts(tx, Chunk)) /\ tx.count \in Nat \ {0}
      /\ tx = [source |-> tx.source, sequence |-> tx.sequence, flags |-> tx.flags,
               length |-> tx.length, count |-> tx.count, body |-> tx.body, sent |-> tx.sent]
  <2>1. /\ Sent < tx.count /\ Chunk \in 1 .. MaxU16 /\ Fits(tx, Chunk)
        /\ tx.sent \in Seq(Cuts(tx, Chunk))
        /\ tx = [source |-> tx.source, sequence |-> tx.sequence, flags |-> tx.flags,
                 length |-> tx.length, count |-> tx.count, body |-> tx.body, sent |-> tx.sent]
    BY <1>1 DEF RInv, BInv, TypeOK, Sending
  <2>2. Sent \in Nat /\ tx.count \in Nat \ {0}
    BY <2>1, LenProperties, WireAssumption DEF Sent, Fits
  <2> QED
    BY <2>1, <2>2
<1>3. e = Cut(tx, Chunk, Sent)
  BY Zenon DEF NextDatagram, NextLength, Offset, Cut, Piece
<1>4. /\ e.index = Sent /\ e.count = tx.count /\ e.length = tx.length
      /\ e.sequence = tx.sequence /\ e.source = tx.source
  <2>1. Sent \in 0 .. tx.count - 1
    BY <1>2
  <2>2. e.index = Sent /\ e.count = tx.count /\ e.length = tx.length
    BY <1>2, <1>3, <2>1, CutFacts
  <2> QED
    BY <1>3, <2>2 DEF Cut, Datagram
<1>5. Genuine(e)
  BY <1>1, NextIsGenuine
<1>6. /\ tx.source = 1 /\ tx.length <= MaxMessageLength /\ nextSeq[1] = tx.sequence + 1
      /\ NextNumber = tx.sequence /\ NextIndex = Sent
  BY <1>1 DEF WireOrdered, Upcoming, NextNumber, NextIndex
<1>7. e.sequence \in Nat
  BY <1>5, BridgeAssumption DEF Genuine
<1>8. Plain(e)
  <2>1. tx.length \in Nat
    BY <1>2, WireAssumption DEF Fits
  <2>2. tx.sent \in Seq(Cuts(tx, Chunk)) /\ e.index \in 0 .. e.count - 1
    BY <1>2, <1>4
  <2> QED
    BY <1>2, <1>4, <1>6, <1>7, <2>1, <2>2 DEF Plain
<1>9. /\ tx'.sequence = tx.sequence /\ tx'.source = tx.source /\ tx'.length = tx.length
      /\ tx'.count = tx.count /\ Sent' = Sent + 1
  <2> DEFINE s == Append(tx.sent, e)
  <2>1. tx' = [tx EXCEPT !.sent = s]
    BY <1>1 DEF SendDatagram
  <2>2. Len(s) = Len(tx.sent) + 1
    <3>1. e \in Cuts(tx, Chunk)
      BY <1>2, <1>3 DEF Cuts
    <3> HIDE DEF e
    <3> QED
      BY <1>2, <3>1, AppendProperties
  <2> HIDE DEF s
  <2> QED
    BY <1>2, <2>1, <2>2 DEF Sent
<1>10. phase' = IF Sent + 1 < tx.count THEN "send" ELSE "recv"
  BY <1>1 DEF SendDatagram
<1> HIDE DEF e
<1>11. /\ Len(wire') = n + 1 /\ wire'[n + 1] = e /\ n \in Nat
       /\ \A j \in 1 .. n : wire'[j] = wire[j]
  <2>1. wire \in Seq(Range(wire)) /\ n \in Nat
    BY LenProperties DEF RInv, WireSound
  <2>2. /\ wire' \in Seq(Range(wire')) /\ DOMAIN wire' = 1 .. n + 1
        /\ \A j \in 1 .. n : wire'[j] = wire[j]
        /\ wire'[n + 1] = e
    BY <1>1, <2>1, AppendAny
  <2>3. Len(wire') \in Nat /\ DOMAIN wire' = 1 .. Len(wire')
    BY <2>2, LenProperties
  <2>4. Len(wire') = n + 1
    BY <2>1, <2>2, <2>3
  <2> QED
    BY <2>1, <2>2, <2>4
<1>12. wire # << >> <=> n # 0
  BY <1>11, EmptySeq DEF RInv, WireSound
<1>13. wire' # << >> /\ Newest' = e
  BY <1>11, EmptySeq DEF Newest
<1>14. ASSUME n # 0
       PROVE  /\ Newest = wire[n] /\ Plain(wire[n]) /\ Follows(wire[n], e)
  <2>1. Newest = wire[n] /\ Plain(wire[n])
    BY <1>11, <1>14 DEF Newest, WireOrdered, InSequence
  <2>2. CASE Sent # 0
    <3>1. More(wire[n], e)
      BY <1>4, <1>6, <2>1, <2>2 DEF WireOrdered, Upcoming, More
    <3> QED
      BY <2>1, <3>1 DEF Follows
  <2>3. CASE Sent = 0 /\ tx.sequence = 0
    BY <1>4, <2>1, <2>3 DEF Follows, Begins
  <2>4. CASE Sent = 0 /\ tx.sequence # 0
    <3>1. Succeeds(wire[n], e)
      BY <1>4, <1>6, <2>1, <2>4 DEF WireOrdered, Upcoming, Succeeds
    <3> QED
      BY <2>1, <3>1 DEF Follows
  <2> QED
    BY <2>2, <2>3, <2>4
<1>15. ASSUME n = 0 PROVE Begins(e)
  BY <1>4, <1>6, <1>12, <1>15 DEF WireOrdered, Upcoming, Begins
<1>16. InSequence'
  <2>1. \A i \in 1 .. n + 1 : Plain(wire'[i])
    BY <1>8, <1>11 DEF WireOrdered, InSequence
  <2>2. \A i \in 1 .. n : Follows(wire'[i], wire'[i + 1])
    <3> SUFFICES ASSUME NEW i \in 1 .. n PROVE Follows(wire'[i], wire'[i + 1])
      OBVIOUS
    <3>1. CASE i = n
      BY <1>11, <1>14, <3>1
    <3>2. CASE i # n
      BY <1>11, <3>2 DEF WireOrdered, InSequence
    <3> QED
      BY <3>1, <3>2
  <2>3. Begins(wire'[1])
    BY <1>11, <1>12, <1>15 DEF WireOrdered, InSequence
  <2>4. Len(wire') - 1 = n
    BY <1>11
  <2> QED
    BY <1>11, <2>1, <2>2, <2>3, <2>4 DEF InSequence
<1>17. Cardinality(Starts(Len(wire))') <= generation
  <2> DEFINE G == {i \in 2 .. n + 1 : Begins(wire'[i])}
  <2>1. Starts(Len(wire))' = G
    BY <1>11 DEF Starts, Begins
  <2>2. CASE n = 0
    <3>1. G = {}
      BY <2>2
    <3>2. generation \in Nat
      BY DEF RInv, Numbering
    <3> QED
      BY <2>1, <3>1, <3>2, FS_EmptySet
  <2>3. CASE n # 0
    <3>1. G = IF Begins(e) THEN Starts(n) \cup {n + 1} ELSE Starts(n)
      BY <1>11, <2>3 DEF Starts
    <3>2. IsFiniteSet(Starts(n)) /\ Cardinality(Starts(n)) \in Nat /\ generation \in Nat
      BY <1>11, StartsFinite DEF RInv, Numbering
    <3>3. Cardinality(Starts(n)) + (IF Begins(e) THEN 1 ELSE 0) <= generation
      <4>1. Begins(e) <=> NextIndex = 0 /\ NextNumber = 0
        BY <1>4, <1>6 DEF Begins
      <4> QED
        BY <1>12, <2>3, <4>1 DEF WireOrdered, Upcoming
    <3> HIDE DEF G
    <3>4. CASE Begins(e)
      <4>1. n + 1 \notin Starts(n)
        BY <1>11 DEF Starts
      <4>2. Cardinality(Starts(n) \cup {n + 1}) = Cardinality(Starts(n)) + 1
        BY <3>2, <4>1, FS_AddElement
      <4> QED
        BY <2>1, <3>1, <3>3, <3>4, <4>2
    <3>5. CASE ~Begins(e)
      BY <2>1, <3>1, <3>2, <3>3, <3>5
    <3> QED
      BY <3>4, <3>5
  <2> QED
    BY <2>2, <2>3
<1>18. Upcoming'
  <2>1. CASE Sent + 1 < tx.count
    <3>1. phase' = "send" /\ NextNumber' = tx.sequence /\ NextIndex' = Sent + 1
      BY <1>9, <1>10, <2>1 DEF NextNumber, NextIndex
    <3>2. /\ Newest'.sequence = NextNumber' /\ Newest'.index + 1 = NextIndex'
          /\ Newest'.count = tx'.count /\ Newest'.length = tx'.length /\ NextIndex' # 0
      BY <1>2, <1>4, <1>9, <1>13, <3>1
    <3>3. /\ tx'.source = 1 /\ tx'.length <= MaxMessageLength /\ nextSeq'[1] = tx'.sequence + 1
          /\ generation' = generation /\ generation \in Nat
      BY <1>1, <1>6, <1>9 DEF RInv, Numbering
    <3>4. IsFiniteSet(Starts(Len(wire))') /\ Cardinality(Starts(Len(wire))') \in Nat
      BY <1>11, StartsLater
    <3> QED
      BY <1>13, <1>17, <3>2, <3>3, <3>4 DEF Upcoming
  <2>2. CASE ~(Sent + 1 < tx.count)
    <3>1. phase' = "recv" /\ NextNumber' = nextSeq[1] /\ NextIndex' = 0
      BY <1>1, <1>10, <2>2 DEF NextNumber, NextIndex
    <3>2. Finishes(e) /\ NextNumber' = e.sequence + 1 /\ NextNumber' # 0
      BY <1>2, <1>4, <1>6, <1>7, <2>2, <3>1 DEF Finishes
    <3>3. generation' = generation /\ generation \in Nat
      BY <1>1 DEF RInv, Numbering
    <3>4. IsFiniteSet(Starts(Len(wire))') /\ Cardinality(Starts(Len(wire))') \in Nat
      BY <1>11, StartsLater
    <3> QED
      BY <1>13, <1>17, <3>1, <3>2, <3>3, <3>4 DEF Upcoming
  <2> QED
    BY <2>1, <2>2
<1>19. arrived' <= Len(wire')
  BY <1>1, <1>11 DEF WireOrdered, receiver, RInv
<1> QED
  BY <1>16, <1>18, <1>19 DEF WireOrdered

LEMMA WireRestarts == ASSUME RInv, WireOrdered, Restart PROVE WireOrdered'
<1>1. /\ nextSeq'[1] = 0 /\ phase' = "poll" /\ generation' = generation + 1
      /\ UNCHANGED <<published, wire, taken, receiver>>
  BY BridgeAssumption DEF Restart, Source
<1>2. /\ NextNumber' = 0 /\ NextIndex' = 0 /\ phase' # "send"
  BY <1>1 DEF NextNumber, NextIndex
<1>3. InSequence' /\ arrived' <= Len(wire') /\ Starts(Len(wire))' = Starts(Len(wire)) /\ Newest' = Newest
  BY <1>1 DEF WireOrdered, InSequence, Starts, Newest, receiver
<1>4. Cardinality(Starts(Len(wire))) \in Nat /\ generation \in Nat
  BY StartsFinite, LenProperties DEF RInv, WireSound, Numbering
<1>5. Upcoming'
  BY <1>1, <1>2, <1>3, <1>4 DEF WireOrdered, Upcoming
<1> QED
  BY <1>3, <1>5 DEF WireOrdered

\* Only the datagram behind those that have arrived may arrive.
LEMMA ArrivesNext ==
    ASSUME RInv, Orderly, NEW d \in Arriving
    PROVE  arrived + 1 \in 1 .. Len(wire) /\ d = wire[arrived + 1]
<1>1. PICK i \in {arrived + 1} \cap DOMAIN wire : d = wire[i]
  BY DEF Arriving, Orderly
<1>2. DOMAIN wire = 1 .. Len(wire)
  BY LenProperties DEF RInv, WireSound
<1> QED
  BY <1>1, <1>2

LEMMA WireStep ==
    ASSUME RInv, Orderly, WireOrdered, [RelayNext]_relayVars
    PROVE  WireOrdered'
<1>1. CASE BridgeTakes
  BY <1>1, WireTakes
<1>2. CASE BridgeSends
  BY <1>2, WireSends
<1>3. CASE Restart
  BY <1>3, WireRestarts
<1>4. CASE BridgeMoves
  <2>1. /\ phase # "send" /\ phase' # "send"
        /\ UNCHANGED <<tx, nextSeq, wire, generation, receiver>>
    <3>1. ~SendFails
      BY DEF SendFails, Orderly
    <3> QED
      BY <1>4, <3>1 DEF BridgeMoves, Poll, BatchFull, GiveUp, FirstFrame, TakeFails, Leave
  <2>2. NextNumber' = NextNumber /\ NextIndex' = NextIndex /\ arrived' = arrived
    BY <2>1 DEF NextNumber, NextIndex, receiver
  <2> QED
    BY <2>1, <2>2, WireKept DEF WireOrdered
<1>5. CASE PublishNext \/ Sweep \/ Tick \/ UNCHANGED relayVars
  <2>1. UNCHANGED <<phase, tx, nextSeq, wire, generation, arrived>>
    BY <1>5 DEF PublishNext, Publish, Sweep, Tick, relayVars, receiver, bridge
  <2>2. NextNumber' = NextNumber /\ NextIndex' = NextIndex
    BY <2>1 DEF NextNumber, NextIndex, Sent
  <2> QED
    BY <2>1, <2>2, WireKept DEF WireOrdered
<1>6. ASSUME NEW d \in Arriving, Receive(d) PROVE WireOrdered'
  <2>1. UNCHANGED <<phase, tx, nextSeq, wire, generation>> /\ arrived' = arrived + 1
    BY <1>6 DEF Receive, bridge
  <2>2. NextNumber' = NextNumber /\ NextIndex' = NextIndex
    BY <2>1 DEF NextNumber, NextIndex, Sent
  <2>3. arrived' <= Len(wire)
    BY <2>1, ArrivesNext DEF RInv
  <2> QED
    BY <2>1, <2>2, <2>3, WireKept DEF WireOrdered
<1> QED
  BY <1>1, <1>2, <1>3, <1>4, <1>5, <1>6 DEF RelayNext

-----------------------------------------------------------------------------
(* A network that keeps the order: what add() does with a datagram, told   *)
(* of the entry of its message and of the other entries.                   *)

Slot(q) == <<1, q>>
Slots == DOMAIN entries

\* What the entries are in every state: some fragment is missing.
Kept ==
    /\ IsFiniteSet(Slots)
    /\ \A l \in Slots : /\ l = Slot(l[2]) /\ l[2] \in Nat
                        /\ entries[l].count \in Nat \ {0, 1}
                        /\ DOMAIN entries[l].buffer # 0 .. entries[l].count - 1
    /\ tally \in [opened : Nat, completed : Nat, dropped : Nat, expired : Nat]
    /\ evictions \in Nat

Bytes(d) == DOMAIN entries[Slot(d.sequence)].buffer
Agrees(d) == /\ entries[Slot(d.sequence)].count = d.count
             /\ entries[Slot(d.sequence)].length = d.length

\* The entries other than that of d, those of them in S, are left as they are.
Others(d, S) ==
    \A l \in Slots' : l # Slot(d.sequence) => l \in S /\ entries'[l] = entries[l]

\* The ways add() takes a datagram d that it does not find too long.
Single(d) ==
    /\ d.count = 1 /\ Slots' = Slots /\ Others(d, Slots)
    /\ \A l \in Slots : entries'[l] = entries[l]
    /\ UNCHANGED <<tally, evictions>>
    /\ ret'.new_message /\ ret'.result = "Complete" /\ ret'.out.sequence = d.sequence
Opens(d) ==
    /\ d.count # 1 /\ Slot(d.sequence) \notin Slots /\ Slot(d.sequence) \in Slots'
    /\ Others(d, Slots)
    /\ Agrees(d)' /\ Bytes(d)' = {d.index}
    /\ tally'.dropped = tally.dropped /\ tally'.expired = tally.expired
    /\ Slots = {} => evictions' = evictions
    /\ ret'.new_message /\ ret'.result # "Complete"
Drops(d) ==
    /\ d.count # 1 /\ Slot(d.sequence) \in Slots /\ ~Agrees(d)
    /\ Slots' = Slots \ {Slot(d.sequence)} /\ Others(d, Slots)
    /\ tally'.dropped = tally.dropped + 1 /\ tally'.expired = tally.expired
    /\ evictions' = evictions
    /\ ~ret'.new_message /\ ret'.result # "Complete"
Repeats(d) ==
    /\ d.count # 1 /\ Slot(d.sequence) \in Slots /\ Agrees(d) /\ d.index \in Bytes(d)
    /\ Slots' = Slots /\ \A l \in Slots : entries'[l] = entries[l]
    /\ UNCHANGED <<tally, evictions>>
    /\ ~ret'.new_message /\ ret'.result # "Complete"
Stores(d) ==
    /\ d.count # 1 /\ Slot(d.sequence) \in Slots /\ Agrees(d) /\ d.index \notin Bytes(d)
    /\ Slots' = Slots /\ Others(d, Slots)
    /\ Agrees(d)' /\ Bytes(d)' = Bytes(d) \cup {d.index}
    /\ Bytes(d)' # 0 .. d.count - 1
    /\ UNCHANGED <<tally, evictions>>
    /\ ~ret'.new_message /\ ret'.result # "Complete"
Completes(d) ==
    /\ d.count # 1 /\ Slot(d.sequence) \in Slots /\ Agrees(d) /\ d.index \notin Bytes(d)
    /\ Bytes(d) \cup {d.index} = 0 .. d.count - 1
    /\ Slots' = Slots \ {Slot(d.sequence)} /\ Others(d, Slots)
    /\ tally'.dropped = tally.dropped /\ tally'.expired = tally.expired
    /\ evictions' = evictions
    /\ ~ret'.new_message /\ ret'.result = "Complete" /\ ret'.out.sequence = d.sequence

\* The set of a message's fragments is what has as many elements.
LEMMA AllFragments ==
    ASSUME NEW n \in Nat \ {0}, NEW B \in SUBSET (0 .. n - 1)
    PROVE  Cardinality(B) < n <=> B # 0 .. n - 1
<1>1. IsFiniteSet(0 .. n - 1) /\ Cardinality(0 .. n - 1) = n
  <2>1. n - 1 \in Nat /\ 0 <= n - 1 + 1 /\ n - 1 - 0 + 1 = n
    OBVIOUS
  <2> QED
    BY <2>1, IntervalSize
<1>2. /\ Cardinality(B) <= Cardinality(0 .. n - 1)
      /\ Cardinality(0 .. n - 1) = Cardinality(B) => 0 .. n - 1 = B
      /\ IsFiniteSet(B)
  BY <1>1, FS_Subset
<1>3. Cardinality(B) \in Nat
  BY <1>2, FS_CardinalityType
<1> QED
  BY <1>1, <1>2, <1>3

LEMMA AddEffects ==
    ASSUME RInv, Kept, NEW d, Plain(d), R!Add(d)
    PROVE  /\ Single(d) \/ Opens(d) \/ Drops(d) \/ Repeats(d) \/ Stores(d) \/ Completes(d)
           /\ Kept'
<1> DEFINE k == Slot(d.sequence)
           e == entries[k]
<1>1. /\ R!Key(d) = k /\ d.sequence \in Nat /\ d.count \in Nat \ {0} /\ d.index \in 0 .. d.count - 1
      /\ d.length <= MaxMessageLength /\ k[2] = d.sequence
  BY DEF Plain, R!Key, Slot
<1>2. /\ IsFiniteSet(Slots)
      /\ \A l \in Slots : /\ l = Slot(l[2]) /\ l[2] \in Nat
                          /\ entries[l].count \in Nat \ {0, 1}
                          /\ DOMAIN entries[l].buffer # 0 .. entries[l].count - 1
      /\ tally \in [opened : Nat, completed : Nat, dropped : Nat, expired : Nat]
      /\ evictions \in Nat
  BY DEF Kept
<1>3. CASE R!FastPath(d)
  <2>1. Single(d)
    BY <1>3 DEF R!FastPath, R!Return, Single, Slots, Others
  <2>2. Kept'
    BY <1>3 DEF R!FastPath, Kept, Slots
  <2> QED
    BY <2>1, <2>2
<1>4. ~R!TooLong(d)
  <2>1. MaxMessageLength \in Nat /\ d.length \in Nat
    BY RelayAssumption DEF Plain
  <2>2. ~(d.length > MaxMessageLength)
    BY <1>1, <2>1
  <2> QED
    BY <2>2, Zenon DEF R!TooLong
<1>5. CASE R!Open(d)
  <2>1. PICK i \in 0 .. Len(order) :
               /\ R!EvictsUpTo(i)
               /\ entries' = [l \in (Slots \ R!Popped(i)) \cup {k} |->
                                IF l = k THEN R!NewEntry(d) ELSE entries[l]]
               /\ evictions' = evictions + R!Cardinality(Slots \cap R!Popped(i))
    BY <1>1, <1>5 DEF R!Open, Slots
  <2>2. /\ d.count # 1 /\ k \notin Slots /\ ret' = R!Return("Incomplete", TRUE, R!NoMessage)
        /\ tally' = [tally EXCEPT !.opened = @ + 1]
    BY <1>1, <1>5 DEF R!Open, R!Buffered, R!Known, Slots
  <2> DEFINE n == R!NewEntry(d)
  <2>3. n.count = d.count /\ n.length = d.length /\ DOMAIN n.buffer = {d.index}
    BY DEF R!NewEntry
  <2> HIDE DEF k, n
  <2>4. /\ Slots' = (Slots \ R!Popped(i)) \cup {k} /\ entries'[k] = n
        /\ \A l \in Slots' : l # k => l \in Slots /\ entries'[l] = entries[l]
    BY <2>1 DEF Slots, n
  <2>5. Slots = {} => evictions' = evictions
    <3> SUFFICES ASSUME Slots = {} PROVE evictions' = evictions + 0 /\ evictions + 0 = evictions
      OBVIOUS
    <3>1. Slots \cap R!Popped(i) = {}
      OBVIOUS
    <3>2. R!Cardinality(Slots \cap R!Popped(i)) = 0
      BY <3>1, SameFiniteSets, FS_EmptySet
    <3>3. evictions + 0 = evictions
      BY <1>2
    <3> QED
      BY <2>1, <3>2, <3>3
  <2>6. /\ tally'.dropped = tally.dropped /\ tally'.expired = tally.expired
        /\ tally' \in [opened : Nat, completed : Nat, dropped : Nat, expired : Nat]
    BY <1>2, <2>2
  <2>7. Opens(d)
    BY <2>2, <2>3, <2>4, <2>5, <2>6 DEF Opens, Others, Agrees, Bytes, R!Return, k
  <2>8. IsFiniteSet(Slots')
    <3>1. IsFiniteSet(Slots \ R!Popped(i))
      BY <1>2, FS_Difference
    <3> QED
      BY <2>4, <3>1, FS_AddElement
  <2>9. n.count \in Nat \ {0, 1} /\ DOMAIN n.buffer # 0 .. n.count - 1
    <3>1. d.count \in Nat \ {0, 1}
      BY <1>1, <2>2
    <3>2. 0 \in 0 .. d.count - 1 /\ 1 \in 0 .. d.count - 1
      BY <3>1
    <3> QED
      BY <2>3, <3>1, <3>2
  <2>10. k = Slot(k[2]) /\ k[2] \in Nat
    BY <1>1 DEF k
  <2>11. \A l \in Slots' : /\ l = Slot(l[2]) /\ l[2] \in Nat
                           /\ entries'[l].count \in Nat \ {0, 1}
                           /\ DOMAIN entries'[l].buffer # 0 .. entries'[l].count - 1
    <3> SUFFICES ASSUME NEW l \in Slots'
                 PROVE  /\ l = Slot(l[2]) /\ l[2] \in Nat
                        /\ entries'[l].count \in Nat \ {0, 1}
                        /\ DOMAIN entries'[l].buffer # 0 .. entries'[l].count - 1
      OBVIOUS
    <3>1. CASE l = k
      BY <2>4, <2>9, <2>10, <3>1
    <3>2. CASE l # k
      BY <1>2, <2>4, <3>2
    <3> QED
      BY <3>1, <3>2
  <2>12. evictions' \in Nat
    <3>1. IsFiniteSet(Slots \cap R!Popped(i))
      BY <1>2, FS_Intersection
    <3>2. R!Cardinality(Slots \cap R!Popped(i)) \in Nat
      BY <3>1, SameFiniteSets, FS_CardinalityType
    <3> QED
      BY <1>2, <2>1, <3>2
  <2>13. Kept'
    BY <2>6, <2>8, <2>11, <2>12 DEF Kept, Slot
  <2> QED
    BY <2>7, <2>13
<1>6. CASE R!Drop(d) \/ R!Complete(d)
  <2>1. entries' = [l \in Slots \ {k} |-> entries[l]] /\ k \in Slots /\ evictions' = evictions
    BY <1>1, <1>6 DEF R!Drop, R!Complete, R!Without, R!Known, Slots
  <2>2. /\ R!Drop(d) => ret' = R!Return("Malformed", FALSE, R!NoMessage)
        /\ R!Drop(d) => tally' = [tally EXCEPT !.dropped = @ + 1]
        /\ R!Complete(d) => tally' = [tally EXCEPT !.completed = @ + 1]
        /\ R!Complete(d) => /\ ret'.result = "Complete" /\ ret'.new_message = FALSE
                            /\ ret'.out.sequence = d.sequence
        /\ d.count # 1
    BY <1>6 DEF R!Drop, R!Complete, R!Return, R!Buffered
  <2>3. R!Drop(d) => ~Agrees(d)
    BY <1>1 DEF R!Drop, R!Consistent, Agrees
  <2>4. R!Complete(d) => /\ Agrees(d) /\ d.index \notin Bytes(d)
                         /\ Bytes(d) \cup {d.index} = 0 .. d.count - 1
    <3> SUFFICES ASSUME R!Complete(d)
                 PROVE  /\ Agrees(d) /\ d.index \notin Bytes(d)
                        /\ Bytes(d) \cup {d.index} = 0 .. d.count - 1
      OBVIOUS
    <3> DEFINE b == R!Filled(e, d)
    <3>1. /\ d.count = e.count /\ d.length = e.length /\ d.index \notin DOMAIN e.buffer
          /\ ~(Cardinality(DOMAIN b) < d.count)
      BY <1>1, SameFiniteSets DEF R!Complete, R!Consistent
    <3>2. DOMAIN b = DOMAIN e.buffer \cup {d.index}
      BY DEF R!Filled
    <3>3. DOMAIN e.buffer \subseteq 0 .. d.count - 1
      BY <2>1, <3>1 DEF RInv, EntriesSound, Held, Slots
    <3> HIDE DEF b
    <3>4. DOMAIN b \in SUBSET (0 .. d.count - 1)
      BY <1>1, <3>2, <3>3
    <3>5. DOMAIN b = 0 .. d.count - 1
      BY <1>1, <3>1, <3>4, AllFragments
    <3> QED
      BY <3>1, <3>2, <3>5 DEF Agrees, Bytes
  <2> HIDE DEF k
  <2>5. /\ Slots' = Slots \ {k}
        /\ \A l \in Slots' : l # k => l \in Slots /\ entries'[l] = entries[l]
        /\ \A l \in Slots' : l \in Slots /\ entries'[l] = entries[l]
    BY <2>1 DEF Slots
  <2>6. /\ tally' \in [opened : Nat, completed : Nat, dropped : Nat, expired : Nat]
        /\ tally'.expired = tally.expired
        /\ R!Drop(d) => tally'.dropped = tally.dropped + 1
        /\ R!Complete(d) => tally'.dropped = tally.dropped
    BY <1>2, <1>6, <2>2
  <2>7. R!Drop(d) => Drops(d)
    BY <2>1, <2>2, <2>3, <2>5, <2>6 DEF Drops, Others, R!Return, k
  <2>8. R!Complete(d) => Completes(d)
    BY <2>1, <2>2, <2>4, <2>5, <2>6 DEF Completes, Others, k
  <2>9. IsFiniteSet(Slots')
    BY <1>2, <2>5, FS_Difference
  <2>10. Kept'
    BY <1>2, <2>1, <2>5, <2>6, <2>9 DEF Kept, Slot
  <2> QED
    BY <1>6, <2>7, <2>8, <2>10
<1>7. CASE R!Repeat(d)
  <2>1. Repeats(d)
    BY <1>1, <1>7 DEF R!Repeat, R!Buffered, R!Known, R!Consistent, R!Return, Repeats, Agrees,
                      Bytes, Slots
  <2>2. Kept'
    BY <1>7 DEF R!Repeat, Kept, Slots
  <2> QED
    BY <2>1, <2>2
<1>8. CASE R!Store(d)
  <2> DEFINE b == R!Filled(e, d)
  <2>1. /\ k \in Slots /\ d.count = e.count /\ d.length = e.length /\ d.count # 1
        /\ d.index \notin DOMAIN e.buffer
        /\ Cardinality(DOMAIN b) < d.count
        /\ entries' = [entries EXCEPT ![k].buffer = b]
        /\ ret' = R!Return("Incomplete", FALSE, R!NoMessage)
        /\ UNCHANGED <<tally, evictions>>
    BY <1>1, <1>8, SameFiniteSets DEF R!Store, R!Known, R!Consistent, R!Buffered, Slots
  <2>2. DOMAIN b = DOMAIN e.buffer \cup {d.index}
    BY DEF R!Filled
  <2>3. /\ DOMAIN e.buffer \subseteq 0 .. d.count - 1
        /\ e = [first_seen |-> e.first_seen, timestamp |-> e.timestamp, count |-> e.count,
                length |-> e.length, buffer |-> e.buffer]
    BY <2>1 DEF RInv, EntriesSound, Held, Slots
  <2> HIDE DEF b
  <2>4. DOMAIN b # 0 .. d.count - 1
    <3>1. DOMAIN b \in SUBSET (0 .. d.count - 1)
      BY <1>1, <2>2, <2>3
    <3> QED
      BY <1>1, <2>1, <3>1, AllFragments
  <2> DEFINE f == [first_seen |-> e.first_seen, timestamp |-> e.timestamp, count |-> e.count,
                   length |-> e.length, buffer |-> b]
  <2>5. [e EXCEPT !.buffer = b] = f
    BY <2>3
  <2>6. f.count = d.count /\ f.length = d.length /\ DOMAIN f.buffer = DOMAIN e.buffer \cup {d.index}
    BY <2>1, <2>2
  <2>7. entries' = [entries EXCEPT ![k] = f]
    BY <2>1, <2>5
  <2>8. /\ Agrees(d) <=> d.count = e.count /\ d.length = e.length
        /\ Bytes(d) = DOMAIN e.buffer
    BY DEF Agrees, Bytes
  <2>9. d.count = e.count /\ e.count \in Nat \ {0, 1}
    BY <1>2, <2>1
  <2>13. DOMAIN f.buffer # 0 .. d.count - 1
    BY <2>4, <2>6, <2>2
  <2>14. Agrees(d) /\ d.index \notin Bytes(d)
    BY <2>1, <2>8
  <2> HIDE DEF f, k
  <2>10. /\ Slots' = Slots /\ entries'[k] = f
         /\ \A l \in Slots : l # k => entries'[l] = entries[l]
    BY <2>1, <2>7 DEF Slots
  <2>15. Agrees(d)' /\ Bytes(d)' = Bytes(d) \cup {d.index}
    BY <2>6, <2>8, <2>10 DEF Agrees, Bytes, k
  <2>11. Stores(d)
    <3>1. Bytes(d)' # 0 .. d.count - 1
      BY <2>6, <2>8, <2>13, <2>15
    <3>2. Others(d, Slots)
      BY <2>10 DEF Others, k
    <3>3. ~ret'.new_message /\ ret'.result # "Complete"
      BY <2>1 DEF R!Return
    <3> QED
      BY <2>1, <2>10, <2>14, <2>15, <3>1, <3>2, <3>3 DEF Stores, k
  <2>12. Kept'
    <3>1. \A l \in Slots' : /\ l = Slot(l[2]) /\ l[2] \in Nat
                           /\ entries'[l].count \in Nat \ {0, 1}
                           /\ DOMAIN entries'[l].buffer # 0 .. entries'[l].count - 1
      <4> SUFFICES ASSUME NEW l \in Slots
                   PROVE  /\ l = Slot(l[2]) /\ l[2] \in Nat
                          /\ entries'[l].count \in Nat \ {0, 1}
                          /\ DOMAIN entries'[l].buffer # 0 .. entries'[l].count - 1
        BY <2>10
      <4>1. CASE l = k
        <5>1. f.count \in Nat \ {0, 1} /\ DOMAIN f.buffer # 0 .. f.count - 1
          BY <2>6, <2>9, <2>13
        <5> QED
          BY <1>2, <2>10, <4>1, <5>1
      <4>2. CASE l # k
        BY <1>2, <2>10, <4>2
      <4> QED
        BY <4>1, <4>2
    <3> QED
      BY <1>2, <2>1, <2>10, <3>1 DEF Kept, Slot
  <2> QED
    BY <2>11, <2>12
<1> QED
  BY <1>3, <1>4, <1>5, <1>6, <1>7, <1>8 DEF R!Add

-----------------------------------------------------------------------------
(* A network that keeps the order: what is counted.                        *)

\* A message is torn while its last fragment is missing from its entry.
Ended(e) == e.count - 1 \in DOMAIN e.buffer
Partial == {l \in Slots : ~Ended(entries[l])}

Live(q) == Slot(q) \in Slots
Torn(q) == Slot(q) \in Partial
TornBut(q) == Cardinality(Partial \ {Slot(q)})

\* What observing x + 1 would count as missing.
Gap(x) == IF x > state.last THEN x - state.last ELSE 0

LEMMA ObserveFacts ==
    ASSUME RInv, NEW q \in Nat, T!Observe(q)
    PROVE  /\ state'.last \in Nat /\ state'.missing \in Nat /\ state'.late \in Nat
           /\ state'.seen = TRUE
           /\ ~state.seen => /\ state'.last = q /\ state'.missing = state.missing
                             /\ state'.late = state.late
           /\ state.seen /\ q > state.last =>
                 /\ state'.last = q /\ state'.late = state.late
                 /\ state'.missing = state.missing + (q - 1 - state.last)
           /\ state.seen /\ q <= state.last =>
                 /\ state'.missing = state.missing /\ state'.late = state.late + 1
                 /\ state'.last \in {state.last, q}
                 /\ q = 0 => state'.last = 0
<1>1. state \in [seen : BOOLEAN, last : Nat, missing : Nat, gaps : Nat, late : Nat]
  BY TrackInvIs DEF RInv
<1>2. /\ state' \in [seen : BOOLEAN, last : Nat, missing : Nat, gaps : Nat, late : Nat]
      /\ state'.seen = TRUE
      /\ ~state.seen => /\ state'.last = q /\ state'.missing = state.missing
      /\ state.seen /\ q = state.last + 1 =>
            state'.last = q /\ state'.missing = state.missing /\ state'.late = state.late
      /\ state.seen /\ q > state.last + 1 =>
            /\ state'.last = q /\ state'.late = state.late
            /\ state'.missing = state.missing + (q - (state.last + 1))
      /\ state.seen /\ q <= state.last =>
            /\ state'.missing = state.missing /\ state'.late = state.late + 1
  BY <1>1, ObserveCases
<1>3. state' = T!Observed(state, q)
  BY DEF T!Observe
<1>4. state'.last = T!NextLast(state, q)
  BY <1>3 DEF T!Observed
<1>5. ~state.seen => state'.late = state.late
  BY <1>3 DEF T!Observed, T!Outcome
<1>6. state.seen /\ q <= state.last => T!Outcome(state, q) = "OutOfOrder"
  <2>1. q <= state.last => ~(q > state.last + 1) /\ q # state.last + 1
    BY <1>1
  <2> QED
    BY <2>1 DEF T!Outcome
<1>7. state'.last \in {state.last, q}
  BY <1>4 DEF T!NextLast
<1>8. state.seen /\ q <= state.last /\ q = 0 => state'.last = 0
  BY <1>4, <1>6 DEF T!NextLast, T!Resyncs
<1> QED
  BY <1>1, <1>2, <1>5, <1>7, <1>8

LEMMA OneMore ==
    ASSUME NEW P, IsFiniteSet(P), NEW k
    PROVE  /\ Cardinality(P) \in Nat /\ Cardinality(P \ {k}) \in Nat
           /\ Cardinality(P) = Cardinality(P \ {k}) + (IF k \in P THEN 1 ELSE 0)
<1>1. IsFiniteSet(P \ {k})
  BY FS_Difference
<1>2. Cardinality(P) \in Nat /\ Cardinality(P \ {k}) \in Nat
  BY <1>1, FS_CardinalityType
<1>3. CASE k \in P
  <2>1. Cardinality(P \ {k}) = Cardinality(P) - 1
    BY <1>3, FS_RemoveElement
  <2> QED
    BY <1>2, <1>3, <2>1
<1>4. CASE k \notin P
  <2>1. P \ {k} = P
    BY <1>4
  <2> QED
    BY <1>2, <1>4, <2>1
<1> QED
  BY <1>3, <1>4

\* The torn messages, and of them those that are not number q.
LEMMA TornCount ==
    ASSUME Kept, NEW q
    PROVE  /\ Cardinality(Partial) \in Nat /\ TornBut(q) \in Nat
           /\ Cardinality(Partial) = TornBut(q) + (IF Torn(q) THEN 1 ELSE 0)
           /\ Torn(q) => Live(q)
<1>1. IsFiniteSet(Partial)
  BY FS_Subset DEF Kept, Partial
<1>2. /\ Cardinality(Partial) \in Nat /\ TornBut(q) \in Nat
      /\ Cardinality(Partial) = TornBut(q) + (IF Torn(q) THEN 1 ELSE 0)
  BY <1>1, OneMore DEF TornBut, Torn
<1> QED
  BY <1>2 DEF Torn, Live, Partial

LEMMA TornCountNext ==
    ASSUME Kept', NEW q
    PROVE  /\ Cardinality(Partial)' \in Nat /\ TornBut(q)' \in Nat
           /\ Cardinality(Partial)' = TornBut(q)' + (IF Torn(q)' THEN 1 ELSE 0)
           /\ Torn(q)' => Live(q)'
<1>1. IsFiniteSet(Partial')
  BY FS_Subset DEF Kept, Partial
<1>2. /\ Cardinality(Partial') \in Nat /\ TornBut(q)' \in Nat
      /\ Cardinality(Partial') = TornBut(q)' + (IF Torn(q)' THEN 1 ELSE 0)
  BY <1>1, OneMore DEF TornBut, Torn
<1> QED
  BY <1>2 DEF Torn, Live, Partial

\* Nothing but the message of the datagram becomes torn.
LEMMA TornButShrinks ==
    ASSUME Kept, NEW d, Others(d, Slots)
    PROVE  TornBut(d.sequence)' <= TornBut(d.sequence)
<1> DEFINE k == Slot(d.sequence)
<1>1. IsFiniteSet(Partial \ {k})
  <2>1. IsFiniteSet(Partial)
    BY FS_Subset DEF Kept, Partial
  <2> QED
    BY <2>1, FS_Difference
<1>2. Partial' \ {k} \subseteq Partial \ {k}
  <2> SUFFICES ASSUME NEW l \in Slots', ~Ended(entries'[l]), l # k
               PROVE  l \in Slots /\ ~Ended(entries[l])
    BY DEF Partial, Ended
  <2> QED
    BY DEF Others
<1>3. Cardinality(Partial' \ {k}) <= Cardinality(Partial \ {k})
  BY <1>1, <1>2, FS_Subset
<1> QED
  BY <1>3 DEF TornBut, Slot

\* One of the ways of add().
Taken(d) == Single(d) \/ Opens(d) \/ Drops(d) \/ Repeats(d) \/ Stores(d) \/ Completes(d)

\* What they do to the message of the datagram.
LEMMA TornAfter ==
    ASSUME Kept, NEW d, Plain(d), Taken(d)
    PROVE  LET q == d.sequence
           IN  /\ Others(d, Slots)
               /\ Single(d) \/ Repeats(d) => (Torn(q)' <=> Torn(q)) /\ (Live(q)' <=> Live(q))
               /\ Opens(d) => /\ ~Live(q) /\ ~Torn(q) /\ Live(q)'
                              /\ Torn(q)' <=> ~Finishes(d)
               /\ Drops(d) => Live(q) /\ ~Live(q)' /\ ~Torn(q)'
               /\ Stores(d) => /\ Live(q) /\ Live(q)'
                               /\ Torn(q)' <=> Torn(q) /\ ~Finishes(d)
               /\ Completes(d) => /\ Live(q) /\ ~Live(q)' /\ ~Torn(q)'
                                  /\ Finishes(d) => Torn(q)
<1> DEFINE q == d.sequence
           k == Slot(q)
<1>1. d.count \in Nat \ {0} /\ d.index \in 0 .. d.count - 1
  BY DEF Plain
<1>2. /\ Torn(q) <=> k \in Slots /\ entries[k].count - 1 \notin DOMAIN entries[k].buffer
      /\ Torn(q)' <=> k \in Slots' /\ entries'[k].count - 1 \notin DOMAIN entries'[k].buffer
      /\ Live(q) <=> k \in Slots
      /\ Live(q)' <=> k \in Slots'
  BY DEF Torn, Live, Partial, Ended, Slot
<1>3. Finishes(d) <=> d.index = d.count - 1
  BY <1>1 DEF Finishes
<1>4. /\ Bytes(d) = DOMAIN entries[k].buffer /\ Bytes(d)' = DOMAIN entries'[k].buffer
      /\ Agrees(d) => entries[k].count = d.count
      /\ Agrees(d)' => entries'[k].count = d.count
  BY DEF Bytes, Agrees, Slot
<1> HIDE DEF k
<1>5. CASE Single(d) \/ Repeats(d)
  <2>1. Slots' = Slots /\ (\A l \in Slots : entries'[l] = entries[l])
    BY <1>5 DEF Single, Repeats
  <2>2. Others(d, Slots)
    BY <2>1 DEF Others
  <2>3. (Torn(q)' <=> Torn(q)) /\ (Live(q)' <=> Live(q))
    BY <1>2, <2>1
  <2>4. ~Opens(d) /\ ~Drops(d) /\ ~Stores(d) /\ ~Completes(d)
    BY <1>5 DEF Single, Repeats, Opens, Drops, Stores, Completes
  <2> QED
    BY <2>2, <2>3, <2>4
<1>6. CASE Opens(d)
  <2>1. /\ k \notin Slots /\ k \in Slots' /\ Others(d, Slots) /\ Agrees(d)'
        /\ Bytes(d)' = {d.index}
    BY <1>6 DEF Opens, k
  <2>2. Torn(q)' <=> ~Finishes(d)
    BY <1>1, <1>2, <1>3, <1>4, <2>1
  <2>3. ~Single(d) /\ ~Repeats(d) /\ ~Drops(d) /\ ~Stores(d) /\ ~Completes(d)
    BY <1>6 DEF Single, Repeats, Opens, Drops, Stores, Completes
  <2> QED
    BY <1>2, <2>1, <2>2, <2>3
<1>7. CASE Drops(d)
  <2>1. k \in Slots /\ k \notin Slots' /\ Others(d, Slots)
    BY <1>7 DEF Drops, k
  <2>2. ~Single(d) /\ ~Repeats(d) /\ ~Opens(d) /\ ~Stores(d) /\ ~Completes(d)
    BY <1>7 DEF Single, Repeats, Opens, Drops, Stores, Completes
  <2> QED
    BY <1>2, <2>1, <2>2
<1>8. CASE Stores(d)
  <2>1. /\ k \in Slots /\ k \in Slots' /\ Others(d, Slots) /\ Agrees(d) /\ Agrees(d)'
        /\ Bytes(d)' = Bytes(d) \cup {d.index}
    BY <1>8 DEF Stores, k
  <2>2. Torn(q)' <=> Torn(q) /\ ~Finishes(d)
    BY <1>1, <1>2, <1>3, <1>4, <2>1
  <2>3. ~Single(d) /\ ~Repeats(d) /\ ~Opens(d) /\ ~Drops(d) /\ ~Completes(d)
    BY <1>8 DEF Single, Repeats, Opens, Drops, Stores, Completes
  <2> QED
    BY <1>2, <2>1, <2>2, <2>3
<1>9. CASE Completes(d)
  <2>1. /\ k \in Slots /\ k \notin Slots' /\ Others(d, Slots) /\ Agrees(d)
        /\ d.index \notin Bytes(d)
    BY <1>9 DEF Completes, k
  <2>2. Finishes(d) => Torn(q)
    BY <1>2, <1>3, <1>4, <2>1
  <2>3. ~Single(d) /\ ~Repeats(d) /\ ~Opens(d) /\ ~Drops(d) /\ ~Stores(d)
    BY <1>9 DEF Single, Repeats, Opens, Drops, Stores, Completes
  <2> QED
    BY <1>2, <2>1, <2>2, <2>3
<1> QED
  BY <1>5, <1>6, <1>7, <1>8, <1>9 DEF Taken

\* The entry of the message of d, if there is one, holds none of its fragments
\* behind d; all of them up to d; those before d at most; those before d.
Own(d) == Live(d.sequence) => Agrees(d) /\ Bytes(d) \subseteq 0 .. d.index
Absorbed(d) == Live(d.sequence) => Agrees(d) /\ 0 .. d.index \subseteq Bytes(d)
OwnBefore(d) == Live(d.sequence) => Agrees(d) /\ Bytes(d) \subseteq 0 .. d.index - 1
Fed(d) == d.index # 0 /\ Live(d.sequence) => Agrees(d) /\ 0 .. d.index - 1 \subseteq Bytes(d)

LEMMA BytesBound ==
    ASSUME EntriesSound, Kept, NEW d, Live(d.sequence), Agrees(d)
    PROVE  Bytes(d) \subseteq 0 .. d.count - 1 /\ Bytes(d) # 0 .. d.count - 1
BY DEF EntriesSound, Held, Kept, Live, Agrees, Bytes, Slots

LEMMA FedTakes ==
    ASSUME EntriesSound, Kept, NEW d, Plain(d), Taken(d), Fed(d)
    PROVE  /\ Single(d) => Finishes(d)
           /\ Opens(d) => Own(d)'
           /\ Drops(d) => d.index = 0 /\ ~Finishes(d) /\ Absorbed(d)'
           /\ Repeats(d) \/ Stores(d) => ~Finishes(d) /\ Absorbed(d)'
           /\ Completes(d) => Absorbed(d)'
<1>1. d.count \in Nat \ {0} /\ d.index \in 0 .. d.count - 1
  BY DEF Plain
<1>2. Finishes(d) <=> d.index = d.count - 1
  BY <1>1 DEF Finishes
<1>3. Single(d) => Finishes(d)
  BY <1>1, <1>2 DEF Single
<1>4. Opens(d) => Own(d)'
  BY <1>1 DEF Opens, Own
<1>5. Drops(d) => d.index = 0 /\ ~Finishes(d) /\ Absorbed(d)'
  <2>1. Drops(d) => d.count # 1 /\ Live(d.sequence) /\ ~Agrees(d) /\ ~Live(d.sequence)'
    BY TornAfter DEF Drops
  <2> QED
    BY <1>1, <1>2, <2>1 DEF Fed, Absorbed
<1>6. Completes(d) => Absorbed(d)'
  BY TornAfter DEF Absorbed
<1>7. ASSUME Repeats(d) \/ Stores(d) PROVE ~Finishes(d) /\ Absorbed(d)'
  <2>1. /\ d.count # 1 /\ Live(d.sequence) /\ Agrees(d) /\ Agrees(d)'
        /\ Bytes(d)' = Bytes(d) \cup {d.index} /\ Bytes(d)' # 0 .. d.count - 1
    <3>1. CASE Stores(d)
      BY <3>1 DEF Stores, Live
    <3>2. CASE Repeats(d)
      <4>1. /\ d.count # 1 /\ Live(d.sequence) /\ Agrees(d) /\ d.index \in Bytes(d)
            /\ entries'[Slot(d.sequence)] = entries[Slot(d.sequence)]
        BY <3>2 DEF Repeats, Live
      <4>2. Agrees(d)' /\ Bytes(d)' = Bytes(d)
        BY <4>1 DEF Agrees, Bytes, Slot
      <4>3. Bytes(d) # 0 .. d.count - 1
        BY <4>1, BytesBound
      <4> QED
        BY <4>1, <4>2, <4>3
    <3> QED
      BY <1>7, <3>1, <3>2
  <2>2. Bytes(d) \subseteq 0 .. d.count - 1
    BY <2>1, BytesBound
  <2>3. 0 .. d.index \subseteq Bytes(d)'
    BY <1>1, <2>1 DEF Fed
  <2>4. ~Finishes(d)
    <3>1. d.index = d.count - 1 => 0 .. d.count - 1 \subseteq Bytes(d)' /\ Bytes(d)' \subseteq 0 .. d.count - 1
      BY <1>1, <2>1, <2>2, <2>3
    <3> QED
      BY <1>2, <2>1, <3>1
  <2> QED
    BY <2>1, <2>3, <2>4 DEF Absorbed
<1> QED
  BY <1>3, <1>4, <1>5, <1>6, <1>7

LEMMA OwnTakes ==
    ASSUME EntriesSound, Kept, NEW d, Plain(d), Taken(d), d.index # 0, OwnBefore(d)
    PROVE  /\ ~Single(d) /\ ~Drops(d) /\ ~Repeats(d)
           /\ Opens(d) \/ Stores(d) => Own(d)'
           /\ Completes(d) => Finishes(d)
<1>1. d.count \in Nat \ {0} /\ d.index \in 1 .. d.count - 1
  BY DEF Plain
<1>2. Finishes(d) <=> d.index = d.count - 1
  BY <1>1 DEF Finishes
<1>3. Live(d.sequence) => Agrees(d) /\ d.index \notin Bytes(d) /\ Bytes(d) \subseteq 0 .. d.index - 1
  BY <1>1 DEF OwnBefore
<1>4. ~Single(d) /\ ~Drops(d) /\ ~Repeats(d)
  BY <1>1, <1>3 DEF Single, Drops, Repeats, Live
<1>5. Opens(d) \/ Stores(d) => Own(d)'
  <2>1. Opens(d) => Agrees(d)' /\ Bytes(d)' = {d.index}
    BY DEF Opens
  <2>2. Stores(d) => Agrees(d)' /\ Bytes(d)' = Bytes(d) \cup {d.index} /\ Live(d.sequence)
    BY DEF Stores, Live
  <2> QED
    BY <1>1, <1>3, <2>1, <2>2 DEF Own
<1>6. Completes(d) => Finishes(d)
  <2>1. Completes(d) => Live(d.sequence) /\ Bytes(d) \cup {d.index} = 0 .. d.count - 1
    BY DEF Completes, Live
  <2>2. d.count - 1 \in 0 .. d.count - 1
    BY <1>1
  <2>3. Completes(d) => d.count - 1 \in Bytes(d) \cup {d.index} /\ Bytes(d) \subseteq 0 .. d.index - 1
    BY <1>3, <2>1, <2>2
  <2>4. Completes(d) => d.count - 1 <= d.index
    BY <1>1, <2>3
  <2> QED
    BY <1>1, <1>2, <2>4
<1> QED
  BY <1>4, <1>5, <1>6

-----------------------------------------------------------------------------
(* A network that keeps the order: what is owed.  A message whose last     *)
(* fragment never came can later swallow the datagrams of a message with   *)
(* its number, which is then not observed and counts as missing; each      *)
(* restart leaves one such message at most.                                *)

\* Messages ended by a difference, and by a sweep: each may be seen once more.
Over == tally.dropped + tally.expired

\* Let d be the datagram that arrived last and t the number of restarts that it
\* or one before it shows.  What counts as missing, what the next message of this
\* generation would add, and the torn messages that it may skip, are no more than t.
\*   Where the message of d, of which more follows, was observed in this generation:
SeenMid(d, t) ==
    /\ state.missing + Gap(d.sequence) + TornBut(d.sequence) <= t
    /\ Own(d)
    /\ t <= 1 => /\ state.last = d.sequence
                 /\ state.late + (IF Live(d.sequence) THEN 0 ELSE 1) <= t + Over
\*   Where its datagrams were taken for more of a message of an earlier generation:
UnseenMid(d, t) ==
    /\ state.missing + Gap(d.sequence - 1) + Cardinality(Partial) <= t
    /\ Absorbed(d)
    /\ t <= 1 => /\ t = 1
                 /\ d.sequence = 0 => state.late <= Over /\ (Torn(0) => state.last = 0)
                 /\ d.sequence # 0 => state.last < d.sequence /\ state.late <= 1 + Over
\*   Where d was the last of its message:
Past(d, t) ==
    /\ state.missing + Gap(d.sequence) + Cardinality(Partial) <= t
    /\ t <= 1 => /\ state.last <= d.sequence /\ state.late <= t + Over
                 /\ t = 0 => state.last = d.sequence

Counted(d, t) == IF Finishes(d) THEN Past(d, t) ELSE SeenMid(d, t) \/ UnseenMid(d, t)

\* The same where d arrives next: nothing of its message was observed in this
\* generation, or some of it was.
Await(d, t) ==
    /\ state.missing + Gap(d.sequence - 1) + Cardinality(Partial) <= t
    /\ Fed(d)
    /\ t <= 1 => IF d.sequence = 0
                   THEN t = 1 /\ state.late <= Over /\ (Torn(0) => state.last = 0)
                   ELSE /\ state.last < d.sequence /\ state.late <= t + Over
                        /\ t = 0 => state.last = d.sequence - 1 /\ ~Live(d.sequence)
SeenNext(d, t) ==
    /\ state.missing + Gap(d.sequence) + TornBut(d.sequence) <= t
    /\ d.index # 0 /\ OwnBefore(d)
    /\ t <= 1 => /\ state.last = d.sequence
                 /\ state.late + (IF Live(d.sequence) THEN 0 ELSE 1) <= t + Over

\* handle_datagram() shows the tracker the new messages only.
Tracks(d) == IF ret'.new_message THEN T!Observe(d.sequence) ELSE UNCHANGED tracking

\* The numbers the following lemmas speak of.
Numbers(q) ==
    /\ state.missing \in Nat /\ state.last \in Nat /\ state.late \in Nat
    /\ Cardinality(Partial) \in Nat /\ TornBut(q) \in Nat
    /\ Cardinality(Partial) = TornBut(q) + (IF Torn(q) THEN 1 ELSE 0)
    /\ Torn(q) => Live(q)
    /\ Over \in Nat

LEMMA NumbersTaken ==
    ASSUME RInv, Kept, Kept', NEW d, Plain(d), Taken(d), Tracks(d), state.seen
    PROVE  LET q == d.sequence
           IN  /\ Numbers(q) /\ Numbers(q)' /\ state'.seen
               /\ Over' = IF Drops(d) THEN Over + 1 ELSE Over
               /\ TornBut(q)' <= TornBut(q)
               /\ Single(d) \/ Opens(d) =>
                     /\ q > state.last =>
                           /\ state'.last = q /\ state'.late = state.late
                           /\ state'.missing = state.missing + (q - 1 - state.last)
                     /\ q <= state.last =>
                           /\ state'.missing = state.missing /\ state'.late = state.late + 1
                           /\ state'.last \in {state.last, q}
                           /\ q = 0 => state'.last = 0
               /\ ~Single(d) /\ ~Opens(d) => state' = state
<1> DEFINE q == d.sequence
<1>1. q \in Nat
  BY DEF Plain
<1>2. Single(d) \/ Opens(d) => ret'.new_message
  BY DEF Single, Opens
<1>3. ~Single(d) /\ ~Opens(d) => ~ret'.new_message
  BY DEF Taken, Drops, Repeats, Stores, Completes
<1>4. Others(d, Slots)
  BY TornAfter
<1>5. TornBut(q)' <= TornBut(q)
  BY <1>4, TornButShrinks
<1>6. /\ state \in [seen : BOOLEAN, last : Nat, missing : Nat, gaps : Nat, late : Nat]
      /\ Over \in Nat /\ Over' \in Nat
  BY TrackInvIs DEF RInv, Kept, Over
<1>7. Numbers(q)
  BY <1>6, TornCount DEF Numbers
<1>8. Over' = IF Drops(d) THEN Over + 1 ELSE Over
  <2>1. tally \in [opened : Nat, completed : Nat, dropped : Nat, expired : Nat]
    BY DEF Kept
  <2>2. CASE Drops(d)
    BY <2>1, <2>2 DEF Drops, Over
  <2>3. CASE ~Drops(d)
    BY <2>3 DEF Taken, Single, Opens, Repeats, Stores, Completes, Over
  <2> QED
    BY <2>2, <2>3
<1>9. CASE Single(d) \/ Opens(d)
  <2>1. T!Observe(q)
    BY <1>2, <1>9 DEF Tracks
  <2>2. /\ state'.last \in Nat /\ state'.missing \in Nat /\ state'.late \in Nat
        /\ state'.seen = TRUE
        /\ q > state.last =>
              /\ state'.last = q /\ state'.late = state.late
              /\ state'.missing = state.missing + (q - 1 - state.last)
        /\ q <= state.last =>
              /\ state'.missing = state.missing /\ state'.late = state.late + 1
              /\ state'.last \in {state.last, q}
              /\ q = 0 => state'.last = 0
    BY <1>1, <2>1, ObserveFacts
  <2>3. Numbers(q)'
    BY <1>6, <2>2, TornCountNext DEF Numbers
  <2> QED
    BY <1>5, <1>7, <1>8, <1>9, <2>2, <2>3
<1>10. CASE ~Single(d) /\ ~Opens(d)
  <2>1. state' = state
    BY <1>3, <1>10 DEF Tracks, tracking
  <2>2. Numbers(q)'
    BY <1>6, <2>1, TornCountNext DEF Numbers
  <2> QED
    BY <1>5, <1>7, <1>8, <1>10, <2>1, <2>2
<1> QED
  BY <1>9, <1>10

LEMMA AwaitTakes ==
    ASSUME RInv, Kept, Kept', state.seen, NEW t \in Nat,
           NEW d, Plain(d), Taken(d), Tracks(d), Await(d, t)
    PROVE  /\ Counted(d, t)' /\ state'.seen
           /\ t = 0 => ~Drops(d)
<1> DEFINE q == d.sequence
<1> SUFFICES ASSUME NEW c, c = Cardinality(Partial), NEW c1, c1 = Cardinality(Partial)',
                    NEW u, u = TornBut(q), NEW u1, u1 = TornBut(q)'
             PROVE  /\ Counted(d, t)' /\ state'.seen
                    /\ t = 0 => ~Drops(d)
  OBVIOUS
<1>1. q \in Nat
  BY DEF Plain
<1>2. /\ Numbers(q) /\ Numbers(q)' /\ state'.seen
      /\ Over' = IF Drops(d) THEN Over + 1 ELSE Over
      /\ u1 <= u
      /\ Single(d) \/ Opens(d) =>
            /\ q > state.last =>
                  /\ state'.last = q /\ state'.late = state.late
                  /\ state'.missing = state.missing + (q - 1 - state.last)
            /\ q <= state.last =>
                  /\ state'.missing = state.missing /\ state'.late = state.late + 1
                  /\ state'.last \in {state.last, q}
                  /\ q = 0 => state'.last = 0
      /\ ~Single(d) /\ ~Opens(d) => state' = state
  BY NumbersTaken
<1>3. /\ state.missing \in Nat /\ state.last \in Nat /\ state.late \in Nat /\ Over \in Nat
      /\ state'.missing \in Nat /\ state'.last \in Nat /\ state'.late \in Nat /\ Over' \in Nat
      /\ c \in Nat /\ u \in Nat /\ c1 \in Nat /\ u1 \in Nat
      /\ c = u + (IF Torn(q) THEN 1 ELSE 0)
      /\ c1 = u1 + (IF Torn(q)' THEN 1 ELSE 0)
  BY <1>2 DEF Numbers
<1>4. /\ Single(d) \/ Repeats(d) => (Torn(q)' <=> Torn(q)) /\ (Live(q)' <=> Live(q))
      /\ Opens(d) => /\ ~Live(q) /\ ~Torn(q) /\ Live(q)'
                     /\ Torn(q)' <=> ~Finishes(d)
      /\ Drops(d) => Live(q) /\ ~Live(q)' /\ ~Torn(q)'
      /\ Stores(d) => /\ Live(q) /\ Live(q)'
                      /\ Torn(q)' <=> Torn(q) /\ ~Finishes(d)
      /\ Completes(d) => /\ Live(q) /\ ~Live(q)' /\ ~Torn(q)'
                         /\ Finishes(d) => Torn(q)
  BY TornAfter
<1>5. /\ Single(d) => Finishes(d)
      /\ Opens(d) => Own(d)'
      /\ Drops(d) => ~Finishes(d) /\ Absorbed(d)'
      /\ Repeats(d) \/ Stores(d) => ~Finishes(d) /\ Absorbed(d)'
      /\ Completes(d) => Absorbed(d)'
  BY FedTakes DEF Await, RInv
<1>6. /\ state.missing + Gap(q - 1) + c <= t
      /\ t <= 1 => IF q = 0
                     THEN t = 1 /\ state.late <= Over /\ (Torn(q) => state.last = 0)
                     ELSE /\ state.last < q /\ state.late <= t + Over
                          /\ t = 0 => state.last = q - 1 /\ ~Live(q)
  BY DEF Await
<1>7. Gap(q - 1) = IF q - 1 > state.last THEN q - 1 - state.last ELSE 0
  BY DEF Gap
<1>8. /\ Gap(q)' = IF q > state'.last THEN q - state'.last ELSE 0
      /\ Gap(q - 1)' = IF q - 1 > state'.last THEN q - 1 - state'.last ELSE 0
  BY DEF Gap
<1>9. t = 0 => ~Drops(d)
  BY <1>4, <1>6
<1>10. /\ Past(d, t)' <=>
            /\ state'.missing + Gap(q)' + c1 <= t
            /\ t <= 1 => /\ state'.last <= q /\ state'.late <= t + Over'
                         /\ t = 0 => state'.last = q
       /\ SeenMid(d, t)' <=>
            /\ state'.missing + Gap(q)' + u1 <= t
            /\ Own(d)'
            /\ t <= 1 => /\ state'.last = q
                         /\ state'.late + (IF Live(q)' THEN 0 ELSE 1) <= t + Over'
       /\ UnseenMid(d, t)' <=>
            /\ state'.missing + Gap(q - 1)' + c1 <= t
            /\ Absorbed(d)'
            /\ t <= 1 => /\ t = 1
                         /\ q = 0 => state'.late <= Over' /\ (Torn(0)' => state'.last = 0)
                         /\ q # 0 => state'.last < q /\ state'.late <= 1 + Over'
  BY DEF Past, SeenMid, UnseenMid, Gap, TornBut
<1>11. ASSUME Torn(q)' => Torn(q) PROVE c1 <= c
  <2>1. CASE Torn(q)'
    <3>1. Torn(q)
      BY <1>11, <2>1
    <3>2. c = u + 1
      BY <1>3, <3>1
    <3>3. c1 = u1 + 1
      BY <1>3, <2>1
    <3> QED
      BY <1>2, <1>3, <3>2, <3>3
  <2>2. CASE ~Torn(q)'
    <3>1. c1 = u1
      BY <1>3, <2>2
    <3> QED
      BY <1>2, <1>3, <3>1
  <2> QED
    BY <2>1, <2>2
<1>12. CASE Single(d) \/ Opens(d)
  <2>2. ~Drops(d) /\ Over' = Over
    BY <1>2, <1>12 DEF Single, Opens, Drops
  <2>3. state'.missing + Gap(q)' <= state.missing + Gap(q - 1)
    BY <1>1, <1>2, <1>3, <1>7, <1>8, <1>12
  <2>4. t <= 1 => state'.last = q /\ state'.late <= t + Over'
    BY <1>1, <1>2, <1>3, <1>6, <1>12, <2>2
  <2>5. Finishes(d) => Past(d, t)'
    <3>1. Finishes(d) => c1 <= c
      <4>1. Finishes(d) => (Torn(q)' => Torn(q))
        BY <1>4, <1>12, Zenon
      <4> QED
        BY <1>11, <4>1
    <3>2. Gap(q)' \in Nat /\ Gap(q - 1) \in Nat
      BY <1>1, <1>3, <1>7, <1>8
    <3> QED
      BY <1>1, <1>3, <1>6, <1>10, <2>3, <2>4, <3>1, <3>2
  <2>6. ~Finishes(d) => SeenMid(d, t)'
    <3>1. ~Finishes(d) => Opens(d) /\ Own(d)' /\ Live(q)'
      BY <1>4, <1>5, <1>12
    <3>2. Gap(q)' \in Nat /\ Gap(q - 1) \in Nat
      BY <1>1, <1>3, <1>7, <1>8
    <3>3. state'.missing + Gap(q)' + u1 <= t
      BY <1>2, <1>3, <1>6, <2>3, <3>2
    <3> QED
      BY <1>3, <1>10, <2>4, <3>1, <3>3
  <2> QED
    BY <1>2, <1>9, <2>5, <2>6 DEF Counted
<1>13. CASE ~Single(d) /\ ~Opens(d)
  <2>1. /\ state' = state /\ Gap(q)' = Gap(q) /\ Gap(q - 1)' = Gap(q - 1)
        /\ Live(q) /\ (Torn(q)' => Torn(q)) /\ Over' >= Over
    <3>1. state' = state
      BY <1>2, <1>13
    <3>2. Gap(q)' = Gap(q) /\ Gap(q - 1)' = Gap(q - 1)
      BY <3>1 DEF Gap
    <3>3. Drops(d) \/ Repeats(d) \/ Stores(d) \/ Completes(d)
      BY <1>13 DEF Taken
    <3>4. Torn(q)' => Torn(q)
      BY <1>4, <3>3, Zenon
    <3>5. Live(q)
      BY <1>4, <3>3, Zenon DEF Repeats, Live
    <3>6. Over' >= Over
      BY <1>2, <1>3
    <3> QED
      BY <3>1, <3>2, <3>4, <3>5, <3>6
  <2>2. c1 <= c
    BY <1>11, <2>1
  <2>3. t <= 1 => t = 1
    BY <1>6, <2>1
  <2>4. Gap(q)' \in Nat /\ Gap(q - 1) \in Nat
    BY <1>1, <1>3, <1>7, <1>8
  <2>5. ~Finishes(d) => UnseenMid(d, t)'
    <3>1. ~Finishes(d) => Absorbed(d)'
      BY <1>5, <1>13 DEF Taken
    <3>2. state'.missing + Gap(q - 1)' + c1 <= t
      BY <1>3, <1>6, <2>1, <2>2, <2>4
    <3>3. q = 0 => Torn(0)' = Torn(q)'
      OBVIOUS
    <3> QED
      BY <1>1, <1>3, <1>6, <1>10, <2>1, <2>3, <3>1, <3>2, <3>3
  <2>6. Finishes(d) => Past(d, t)'
    <3> SUFFICES ASSUME Finishes(d) PROVE Past(d, t)'
      OBVIOUS
    <3>1. Completes(d)
      BY <1>5, <1>13 DEF Taken
    <3>2. c = u + 1 /\ c1 = u1 /\ Torn(q)
      <4>1. Torn(q)
        BY <1>4, <3>1, Zenon
      <4>2. ~Torn(q)'
        BY <1>4, <3>1, Zenon
      <4>3. c = u + 1
        BY <1>3, <4>1
      <4>4. c1 = u1
        BY <1>3, <4>2
      <4> QED
        BY <4>1, <4>3, <4>4
    <3>3. Gap(q) <= Gap(q - 1) + 1
      BY <1>1, <1>3, <1>7, <1>8, <2>1
    <3>4. state'.missing + Gap(q)' + c1 <= t
      BY <1>2, <1>3, <1>6, <2>1, <2>4, <3>2, <3>3
    <3>5. t <= 1 => state.last <= q
      BY <1>1, <1>3, <1>6, <3>2
    <3>6. t <= 1 => state.late <= t + Over
      BY <1>3, <1>6
    <3> QED
      BY <1>3, <1>10, <2>1, <2>3, <3>4, <3>5, <3>6
  <2> QED
    BY <1>2, <1>9, <2>5, <2>6 DEF Counted
<1> QED
  BY <1>12, <1>13

LEMMA SeenTakes ==
    ASSUME RInv, Kept, Kept', state.seen, NEW t \in Nat,
           NEW d, Plain(d), Taken(d), Tracks(d), SeenNext(d, t)
    PROVE  /\ Counted(d, t)' /\ state'.seen
           /\ ~Drops(d)
<1> DEFINE q == d.sequence
<1> SUFFICES ASSUME NEW c, c = Cardinality(Partial), NEW c1, c1 = Cardinality(Partial)',
                    NEW u, u = TornBut(q), NEW u1, u1 = TornBut(q)'
             PROVE  /\ Counted(d, t)' /\ state'.seen
                    /\ ~Drops(d)
  OBVIOUS
<1>1. q \in Nat
  BY DEF Plain
<1>2. /\ Numbers(q) /\ Numbers(q)' /\ state'.seen
      /\ Over' = IF Drops(d) THEN Over + 1 ELSE Over
      /\ u1 <= u
      /\ Single(d) \/ Opens(d) =>
            /\ q > state.last =>
                  /\ state'.last = q /\ state'.late = state.late
                  /\ state'.missing = state.missing + (q - 1 - state.last)
            /\ q <= state.last =>
                  /\ state'.missing = state.missing /\ state'.late = state.late + 1
                  /\ state'.last \in {state.last, q}
                  /\ q = 0 => state'.last = 0
      /\ ~Single(d) /\ ~Opens(d) => state' = state
  BY NumbersTaken
<1>3. /\ state.missing \in Nat /\ state.last \in Nat /\ state.late \in Nat /\ Over \in Nat
      /\ state'.missing \in Nat /\ state'.last \in Nat /\ state'.late \in Nat /\ Over' \in Nat
      /\ u \in Nat /\ c1 \in Nat /\ u1 \in Nat
      /\ c1 = u1 + (IF Torn(q)' THEN 1 ELSE 0)
  BY <1>2 DEF Numbers
<1>4. /\ Opens(d) => ~Live(q) /\ Live(q)' /\ (Torn(q)' <=> ~Finishes(d))
      /\ Stores(d) => /\ Live(q) /\ Live(q)'
                      /\ Torn(q)' <=> Torn(q) /\ ~Finishes(d)
      /\ Completes(d) => Live(q) /\ ~Live(q)' /\ ~Torn(q)'
  BY TornAfter
<1>5. /\ ~Single(d) /\ ~Drops(d) /\ ~Repeats(d)
      /\ Opens(d) \/ Stores(d) => Own(d)'
      /\ Completes(d) => Finishes(d)
  BY OwnTakes DEF SeenNext, RInv
<1>6. /\ state.missing + Gap(q) + u <= t
      /\ t <= 1 => state.last = q
      /\ t <= 1 /\ Live(q) => state.late <= t + Over
      /\ t <= 1 /\ ~Live(q) => state.late + 1 <= t + Over
  <2>1. /\ state.missing + Gap(q) + u <= t
        /\ t <= 1 => /\ state.last = q
                     /\ state.late + (IF Live(q) THEN 0 ELSE 1) <= t + Over
    BY DEF SeenNext
  <2> QED
    BY <1>3, <2>1
<1>7. /\ Gap(q) = IF q > state.last THEN q - state.last ELSE 0
      /\ Gap(q)' = IF q > state'.last THEN q - state'.last ELSE 0
  BY DEF Gap
<1>8. Gap(q) \in Nat /\ Gap(q)' \in Nat
  BY <1>1, <1>3, <1>7
<1>9. /\ Past(d, t)' <=>
            /\ state'.missing + Gap(q)' + c1 <= t
            /\ t <= 1 => /\ state'.last <= q /\ state'.late <= t + Over'
                         /\ t = 0 => state'.last = q
      /\ SeenMid(d, t)' <=>
            /\ state'.missing + Gap(q)' + u1 <= t
            /\ Own(d)'
            /\ t <= 1 => /\ state'.last = q
                         /\ state'.late + (IF Live(q)' THEN 0 ELSE 1) <= t + Over'
  BY DEF Past, SeenMid, Gap, TornBut
<1>10. Over' = Over
  BY <1>2, <1>5
<1>11. state'.missing + Gap(q)' <= state.missing + Gap(q)
  <2>1. CASE Opens(d)
    BY <1>1, <1>2, <1>3, <1>7, <2>1
  <2>2. CASE ~Opens(d)
    <3>1. state' = state
      BY <1>2, <1>5, <2>2
    <3>2. Gap(q)' = Gap(q)
      BY <3>1 DEF Gap
    <3> QED
      BY <1>3, <1>8, <3>1, <3>2
  <2> QED
    BY <2>1, <2>2
<1>12. t <= 1 => state'.last = q /\ state'.late <= t + Over'
  <2>1. CASE Opens(d)
    <3>1. ~Live(q)
      BY <1>4, <2>1
    <3> QED
      BY <1>1, <1>2, <1>3, <1>6, <1>10, <2>1, <3>1
  <2>2. CASE ~Opens(d)
    <3>1. state' = state
      BY <1>2, <1>5, <2>2
    <3>2. Live(q)
      BY <1>4, <1>5, <2>2 DEF Taken
    <3> QED
      BY <1>3, <1>6, <1>10, <3>1, <3>2
  <2> QED
    BY <2>1, <2>2
<1>13. CASE Finishes(d)
  <2>1. ~Torn(q)'
    BY <1>4, <1>5, <1>13, Zenon DEF Taken
  <2>2. c1 = u1
    BY <1>3, <2>1
  <2>3. state'.missing + Gap(q)' + c1 <= t
    BY <1>2, <1>3, <1>6, <1>8, <1>11, <2>2
  <2>4. Past(d, t)'
    BY <1>1, <1>3, <1>9, <1>12, <2>3
  <2> QED
    BY <1>2, <1>5, <1>13, <2>4 DEF Counted
<1>14. CASE ~Finishes(d)
  <2>1. (Opens(d) \/ Stores(d)) /\ Own(d)' /\ Live(q)'
    BY <1>4, <1>5, <1>14 DEF Taken
  <2>2. state'.missing + Gap(q)' + u1 <= t
    BY <1>2, <1>3, <1>6, <1>8, <1>11
  <2>3. (IF Live(q)' THEN 0 ELSE 1) = 0
    BY <2>1
  <2>4. t <= 1 => state'.late + 0 <= t + Over'
    BY <1>3, <1>12
  <2>5. SeenMid(d, t)'
    BY <1>9, <1>12, <2>1, <2>2, <2>3, <2>4
  <2> QED
    BY <1>2, <1>5, <1>14, <2>5 DEF Counted
<1> QED
  BY <1>13, <1>14

\* As long as no restart shows, no message differs from what was kept of it and
\* nothing is kept of later ones; and until the first sweep that takes something,
\* only the message of d is kept, as far as it was sent, or it was delivered.
FirstPass(d, t) ==
    t = 0 => tally.dropped = 0 /\ \A l \in Slots : l[2] <= d.sequence
Whole(d, t) ==
    t = 0 /\ tally.expired = 0 =>
        /\ evictions = 0
        /\ IF Finishes(d) THEN Slots = {} /\ out.sequence = d.sequence
           ELSE Slots = {Slot(d.sequence)} /\ Bytes(d) = 0 .. d.index

Blank ==
    /\ Slots = {} /\ ~state.seen /\ state.missing = 0 /\ state.late = 0
    /\ tally.dropped = 0 /\ tally.expired = 0 /\ evictions = 0

ReceiverOrdered ==
    /\ Kept
    /\ arrived = 0 => Blank
    /\ arrived # 0 =>
          /\ state.seen
          /\ \A d \in {wire[arrived]}, t \in {Cardinality(Starts(arrived))} :
                Counted(d, t) /\ FirstPass(d, t) /\ Whole(d, t)

\* From one datagram to the next.
LEMMA NextOwed ==
    ASSUME RInv, Kept, state.seen, NEW t \in Nat, NEW d, NEW e, Plain(d), Plain(e),
           Follows(d, e), Counted(d, t), FirstPass(d, t),
           NEW s, s = IF Begins(e) THEN t + 1 ELSE t
    PROVE  SeenNext(e, s) \/ Await(e, s)
<1> DEFINE q == d.sequence
<1> SUFFICES ASSUME NEW c, c = Cardinality(Partial), NEW u, u = TornBut(q)
             PROVE  SeenNext(e, s) \/ Await(e, s)
  OBVIOUS
<1>1. /\ q \in Nat /\ d.index \in Nat /\ d.count \in Nat
      /\ e.sequence \in Nat /\ e.index \in Nat
  BY DEF Plain
<1>2. /\ state \in [seen : BOOLEAN, last : Nat, missing : Nat, gaps : Nat, late : Nat]
      /\ Over \in Nat
  BY TrackInvIs DEF RInv, Kept, Over
<1>3. c \in Nat /\ u \in Nat /\ c = u + (IF Torn(q) THEN 1 ELSE 0) /\ (Torn(q) => Live(q))
  BY TornCount
<1>4. /\ Gap(q) = IF q > state.last THEN q - state.last ELSE 0
      /\ Gap(q - 1) = IF q - 1 > state.last THEN q - 1 - state.last ELSE 0
  BY DEF Gap
<1>5. Gap(q) \in Nat /\ Gap(q - 1) \in Nat
  BY <1>1, <1>2, <1>4
<1>6. CASE Begins(e)
  <2>1. e.sequence = 0 /\ e.index = 0 /\ s = t + 1
    BY <1>6 DEF Begins
  <2>2. Fed(e) /\ Gap(e.sequence - 1) = 0
    BY <1>2, <2>1 DEF Fed, Gap
  <2>3. state.missing + c <= t + 1
    <3>1. CASE Past(d, t)
      BY <1>1, <1>2, <1>3, <1>5, <3>1 DEF Past
    <3>2. CASE SeenMid(d, t)
      BY <1>1, <1>2, <1>3, <1>5, <3>2 DEF SeenMid
    <3>3. CASE UnseenMid(d, t)
      BY <1>1, <1>2, <1>3, <1>5, <3>3 DEF UnseenMid
    <3> QED
      BY <3>1, <3>2, <3>3 DEF Counted
  <2>4. ASSUME t = 0 PROVE state.late <= Over /\ (Torn(0) => state.last = 0)
    <3>1. CASE Past(d, t)
      <4>1. c = 0 /\ state.late <= Over
        BY <1>1, <1>2, <1>3, <1>5, <2>4, <3>1 DEF Past
      <4>2. ~Torn(0)
        <5> SUFFICES ASSUME Torn(0) PROVE FALSE
          OBVIOUS
        <5>1. Cardinality(Partial) = TornBut(0) + (IF Torn(0) THEN 1 ELSE 0) /\ TornBut(0) \in Nat
          BY TornCount
        <5>2. Cardinality(Partial) = TornBut(0) + 1
          BY <5>1
        <5>3. 0 = TornBut(0) + 1
          BY <4>1, <5>2, Zenon
        <5> QED
          BY <5>1, <5>3
      <4> QED
        BY <4>1, <4>2
    <3>2. CASE SeenMid(d, t)
      <4>1. u = 0 /\ state.last = q /\ state.late <= Over
        BY <1>1, <1>2, <1>3, <1>5, <2>4, <3>2 DEF SeenMid
      <4>2. Torn(0) => q = 0
        <5> SUFFICES ASSUME Torn(0), q # 0 PROVE FALSE
          OBVIOUS
        <5>1. Slot(0) \in Partial \ {Slot(q)} /\ IsFiniteSet(Partial \ {Slot(q)})
          <6>1. IsFiniteSet(Partial)
            BY FS_Subset DEF Kept, Partial
          <6>2. Slot(0) # Slot(q)
            BY <1>1 DEF Slot
          <6> QED
            BY <6>1, <6>2, FS_Difference DEF Torn
        <5>2. Cardinality(Partial \ {Slot(q)}) # 0
          BY <5>1, FS_EmptySet
        <5> QED
          BY <4>1, <5>2 DEF TornBut
      <4> QED
        BY <4>1, <4>2
    <3>3. CASE UnseenMid(d, t)
      BY <2>4, <3>3 DEF UnseenMid
    <3> QED
      BY <3>1, <3>2, <3>3 DEF Counted
  <2>5. state.missing + Gap(e.sequence - 1) + Cardinality(Partial) <= s
    BY <1>2, <1>3, <2>1, <2>2, <2>3
  <2>6. s <= 1 => t = 0 /\ s = 1
    BY <2>1
  <2> QED
    BY <2>1, <2>2, <2>4, <2>5, <2>6 DEF Await
<1>7. CASE ~Begins(e) /\ More(d, e)
  <2>1. /\ s = t /\ e.sequence = q /\ e.index = d.index + 1 /\ e.index - 1 = d.index /\ e.index # 0
        /\ ~Finishes(d) /\ (Agrees(e) <=> Agrees(d)) /\ Bytes(e) = Bytes(d)
    <3>1. e.count = d.count /\ e.length = d.length /\ e.sequence = q /\ e.index = d.index + 1
      BY <1>7 DEF More
    <3>2. ~Finishes(d)
      BY <3>1 DEF Plain, Finishes
    <3> QED
      BY <1>1, <1>7, <3>1, <3>2 DEF Agrees, Bytes
  <2>2. CASE SeenMid(d, t)
    <3>1. SeenNext(e, s)
      BY <2>1, <2>2 DEF SeenMid, SeenNext, Own, OwnBefore
    <3> QED
      BY <3>1
  <2>3. CASE UnseenMid(d, t)
    <3>1. Fed(e)
      BY <2>1, <2>3 DEF UnseenMid, Absorbed, Fed
    <3>2. Await(e, s)
      BY <2>1, <2>3, <3>1 DEF UnseenMid, Await
    <3> QED
      BY <3>2
  <2> QED
    BY <2>1, <2>2, <2>3 DEF Counted
<1>8. CASE ~Begins(e) /\ Succeeds(d, e)
  <2>1. s = t /\ e.sequence = q + 1 /\ e.sequence - 1 = q /\ e.index = 0 /\ Past(d, t)
    BY <1>1, <1>8 DEF Succeeds, Counted
  <2>2. Fed(e)
    BY <2>1 DEF Fed
  <2>3. state.missing + Gap(e.sequence - 1) + Cardinality(Partial) <= s
    BY <2>1 DEF Past
  <2>4. s <= 1 => state.last < e.sequence /\ state.late <= s + Over
    BY <1>1, <1>2, <2>1 DEF Past
  <2>5. s = 0 => state.last = e.sequence - 1 /\ ~Live(e.sequence)
    <3>1. s = 0 => state.last = q
      BY <2>1 DEF Past
    <3>2. s = 0 => ~Live(e.sequence)
      <4> SUFFICES ASSUME s = 0, Slot(e.sequence) \in Slots PROVE FALSE
        BY DEF Live
      <4>1. Slot(e.sequence)[2] <= q
        BY <2>1 DEF FirstPass
      <4> QED
        BY <1>1, <2>1, <4>1 DEF Slot
    <3> QED
      BY <2>1, <3>1, <3>2
  <2>6. e.sequence # 0
    BY <1>1, <2>1
  <2> QED
    BY <2>2, <2>3, <2>4, <2>5, <2>6 DEF Await
<1> QED
  BY <1>6, <1>7, <1>8 DEF Follows

LEMMA FirstPassStays ==
    ASSUME Kept, NEW t \in Nat, NEW d, NEW e, Plain(d), Plain(e), Follows(d, e), Taken(e),
           FirstPass(d, t), NEW s, s = IF Begins(e) THEN t + 1 ELSE t,
           s = 0 => ~Drops(e)
    PROVE  FirstPass(e, s)'
<1> SUFFICES ASSUME s = 0
             PROVE  tally'.dropped = 0 /\ \A l \in Slots' : l[2] <= e.sequence
  BY DEF FirstPass
<1>1. ~Begins(e) /\ t = 0
  OBVIOUS
<1>2. /\ d.sequence \in Nat /\ e.sequence \in Nat
      /\ d.sequence <= e.sequence
  BY <1>1 DEF Plain, Follows, More, Succeeds
<1>3. tally.dropped = 0 /\ \A l \in Slots : l[2] \in Nat /\ l[2] <= d.sequence
  BY <1>1 DEF FirstPass, Kept
<1>4. tally'.dropped = 0
  BY <1>3 DEF Taken, Single, Opens, Repeats, Stores, Completes
<1>5. \A l \in Slots' : l \in Slots \/ l = Slot(e.sequence)
  BY DEF Taken, Others, Single, Opens, Drops, Repeats, Stores, Completes
<1>6. ASSUME NEW l \in Slots' PROVE l[2] <= e.sequence
  <2>1. CASE l = Slot(e.sequence)
    BY <1>2, <2>1 DEF Slot
  <2>2. CASE l \in Slots
    BY <1>2, <1>3, <2>2
  <2> QED
    BY <1>5, <2>1, <2>2
<1> QED
  BY <1>4, <1>6

LEMMA WholeStays ==
    ASSUME NEW t \in Nat, NEW d, NEW e, Plain(d), Plain(e), Follows(d, e), Taken(e),
           Whole(d, t), NEW s, s = IF Begins(e) THEN t + 1 ELSE t,
           s = 0 => ~Drops(e),
           out' = IF ret'.result = "Complete" THEN ret'.out ELSE out
    PROVE  Whole(e, s)'
<1> DEFINE k == Slot(e.sequence)
<1> SUFFICES ASSUME s = 0, tally'.expired = 0
             PROVE  /\ evictions' = 0
                    /\ IF Finishes(e) THEN Slots' = {} /\ out'.sequence = e.sequence
                       ELSE Slots' = {k} /\ Bytes(e)' = 0 .. e.index
  BY DEF Whole, Slot
<1>1. ~Begins(e) /\ t = 0
  OBVIOUS
<1>2. tally'.expired = tally.expired
  BY DEF Taken, Single, Opens, Drops, Repeats, Stores, Completes
<1>3. /\ evictions = 0
      /\ IF Finishes(d) THEN Slots = {} ELSE Slots = {Slot(d.sequence)} /\ Bytes(d) = 0 .. d.index
  BY <1>1, <1>2 DEF Whole
<1>4. /\ e.index \in 0 .. e.count - 1 /\ e.count \in Nat \ {0}
      /\ d.index \in 0 .. d.count - 1 /\ d.count \in Nat \ {0}
      /\ Finishes(e) <=> e.index = e.count - 1
  BY DEF Plain, Finishes
<1>5. ~Drops(e)
  OBVIOUS
<1>6. CASE Succeeds(d, e)
  <2>1. Slots = {} /\ e.index = 0
    BY <1>3, <1>6 DEF Succeeds
  <2>2. Single(e) \/ Opens(e)
    BY <2>1 DEF Taken, Drops, Repeats, Stores, Completes
  <2>3. CASE Single(e)
    BY <1>3, <1>4, <2>1, <2>3 DEF Single
  <2>4. CASE Opens(e)
    <3>1. Slots' = {k} /\ evictions' = 0
      BY <1>3, <2>1, <2>4 DEF Opens, Others
    <3>2. Bytes(e)' = {0} /\ ~Finishes(e)
      BY <1>4, <2>1, <2>4 DEF Opens
    <3>3. 0 .. e.index = {0}
      BY <2>1
    <3> QED
      BY <3>1, <3>2, <3>3
  <2> QED
    BY <2>2, <2>3, <2>4
<1>7. CASE More(d, e)
  <2>1. /\ e.sequence = d.sequence /\ e.count = d.count /\ e.index = d.index + 1
        /\ ~Finishes(d)
    BY <1>4, <1>7 DEF More, Finishes
  <2>2. Slots = {k} /\ Bytes(e) = 0 .. e.index - 1 /\ e.count # 1
    BY <1>3, <1>4, <2>1 DEF Bytes
  <2>3. e.index \notin Bytes(e) /\ 0 .. e.index = Bytes(e) \cup {e.index}
    BY <1>4, <2>2
  <2>4. Stores(e) \/ Completes(e)
    BY <1>5, <2>2, <2>3 DEF Taken, Single, Opens, Repeats
  <2>5. CASE Stores(e)
    <3>1. /\ Slots' = {k} /\ Bytes(e)' = 0 .. e.index /\ Bytes(e)' # 0 .. e.count - 1
          /\ evictions' = 0
      BY <1>3, <2>2, <2>3, <2>5 DEF Stores
    <3>2. ~Finishes(e)
      BY <1>4, <3>1
    <3> QED
      BY <3>1, <3>2
  <2>6. CASE Completes(e)
    <3>1. Slots' = {} /\ evictions' = 0 /\ 0 .. e.index = 0 .. e.count - 1
      BY <1>3, <2>2, <2>3, <2>6 DEF Completes
    <3>2. e.count - 1 \in 0 .. e.index
      BY <1>4, <3>1
    <3>3. Finishes(e)
      BY <1>4, <3>2
    <3>4. out'.sequence = e.sequence
      BY <2>6 DEF Completes
    <3> QED
      BY <3>1, <3>3, <3>4
  <2> QED
    BY <2>4, <2>5, <2>6
<1> QED
  BY <1>1, <1>6, <1>7 DEF Follows

\* The first datagram of all.
LEMMA FirstArrives ==
    ASSUME RInv, Kept, Blank, NEW e, Plain(e), Begins(e), Taken(e), Tracks(e),
           out' = IF ret'.result = "Complete" THEN ret'.out ELSE out
    PROVE  state'.seen /\ Counted(e, 0)' /\ FirstPass(e, 0)' /\ Whole(e, 0)'
<1> DEFINE k == Slot(e.sequence)
<1>1. /\ e.sequence = 0 /\ e.index = 0 /\ e.count \in Nat \ {0}
      /\ Finishes(e) <=> e.count = 1
  BY DEF Begins, Plain, Finishes
<1>2. Single(e) \/ Opens(e)
  BY DEF Blank, Taken, Drops, Repeats, Stores, Completes
<1>3. T!Observe(0)
  BY <1>1, <1>2 DEF Tracks, Single, Opens
<1>4. /\ state'.seen = TRUE /\ state'.last = 0 /\ state'.missing = 0 /\ state'.late = 0
  <2>1. /\ state'.seen = TRUE
        /\ ~state.seen => /\ state'.last = 0 /\ state'.missing = state.missing
                          /\ state'.late = state.late
    BY <1>3, ObserveFacts
  <2> QED
    BY <2>1 DEF Blank
<1>5. tally'.dropped = 0 /\ tally'.expired = 0 /\ Over' = 0
  BY <1>2 DEF Blank, Single, Opens, Over
<1>6. Gap(e.sequence)' = 0
  BY <1>1, <1>4 DEF Gap
<1>7. CASE Single(e)
  <2>1. Finishes(e) /\ Slots' = {} /\ evictions' = 0 /\ out'.sequence = e.sequence
    BY <1>1, <1>7 DEF Single, Blank
  <2>2. Cardinality(Partial)' = 0
    <3>1. Partial' = {}
      BY <2>1 DEF Partial
    <3> QED
      BY <3>1, FS_EmptySet
  <2>3. Past(e, 0)'
    BY <1>1, <1>4, <1>5, <1>6, <2>2 DEF Past
  <2>4. Counted(e, 0)'
    BY <2>1, <2>3 DEF Counted
  <2>5. FirstPass(e, 0)' /\ Whole(e, 0)'
    BY <1>5, <2>1 DEF FirstPass, Whole
  <2> QED
    BY <1>4, <2>4, <2>5
<1>8. CASE Opens(e)
  <2>1. ~Finishes(e) /\ Slots' = {k} /\ evictions' = 0 /\ Bytes(e)' = {0} /\ Live(e.sequence)'
    BY <1>1, <1>8 DEF Opens, Others, Blank, Live, Slot
  <2>2. TornBut(e.sequence)' = 0
    <3>1. Partial' \ {k} = {}
      BY <2>1 DEF Partial
    <3> QED
      BY <3>1, FS_EmptySet DEF TornBut, Slot
  <2>3. Own(e)'
    BY <1>1, <1>8, FedTakes DEF Fed, RInv
  <2>4. SeenMid(e, 0)'
    BY <1>1, <1>4, <1>5, <1>6, <2>1, <2>2, <2>3 DEF SeenMid
  <2>5. Counted(e, 0)'
    BY <2>1, <2>4 DEF Counted
  <2>6. FirstPass(e, 0)'
    BY <1>1, <1>5, <2>1 DEF FirstPass, Slot
  <2>7. Whole(e, 0)'
    <3>1. 0 .. e.index = {0}
      BY <1>1
    <3> QED
      BY <2>1, <3>1 DEF Whole, Slot
  <2> QED
    BY <1>4, <2>5, <2>6, <2>7
<1> QED
  BY <1>2, <1>7, <1>8

LEMMA ReceiveOrdered ==
    ASSUME RInv, Orderly, WireOrdered, ReceiverOrdered, NEW e \in Arriving, Receive(e)
    PROVE  ReceiverOrdered'
<1>1. /\ R!Add(e) /\ arrived' = arrived + 1 /\ wire' = wire
      /\ Tracks(e)
      /\ out' = IF ret'.result = "Complete" THEN ret'.out ELSE out
  BY DEF Receive, Observes, Tracks
<1>2. arrived + 1 \in 1 .. Len(wire) /\ e = wire[arrived + 1] /\ arrived \in Nat
  BY ArrivesNext DEF RInv
<1>3. Plain(e)
  BY <1>2 DEF WireOrdered, InSequence
<1>4. Kept /\ Taken(e) /\ Kept'
  BY <1>1, <1>3, AddEffects DEF ReceiverOrdered, Taken
<1> DEFINE G == {i \in 2 .. arrived + 1 : Begins(wire[i])}
<1>5. G = Starts(arrived + 1) /\ Starts(arrived)' = G
  BY <1>1 DEF Starts, Begins
<1> HIDE DEF G
<1>6. SUFFICES /\ state'.seen
               /\ \E s \in {Cardinality(G)} : Counted(e, s)' /\ FirstPass(e, s)' /\ Whole(e, s)'
  <2> SUFFICES ASSUME state'.seen, NEW s, s = Cardinality(G),
                      Counted(e, s)', FirstPass(e, s)', Whole(e, s)'
               PROVE  ReceiverOrdered'
    OBVIOUS
  <2>1. arrived' # 0 /\ wire[arrived]' = e /\ Cardinality(Starts(arrived))' = s
    BY <1>1, <1>2, <1>5
  <2> QED
    BY <1>4, <2>1 DEF ReceiverOrdered
<1>7. CASE arrived = 0
  <2>1. Begins(e)
    <3>1. wire # << >>
      BY <1>2, EmptySeq DEF RInv, WireSound
    <3> QED
      BY <1>2, <1>7, <3>1 DEF WireOrdered, InSequence
  <2>2. Cardinality(G) = 0
    <3>1. G = {}
      BY <1>7 DEF G
    <3> QED
      BY <3>1, FS_EmptySet
  <2>3. state'.seen /\ Counted(e, 0)' /\ FirstPass(e, 0)' /\ Whole(e, 0)'
    BY <1>1, <1>3, <1>4, <1>7, <2>1, FirstArrives DEF ReceiverOrdered
  <2> QED
    BY <2>2, <2>3
<1>8. CASE arrived # 0
  <2>1. PICK d : d = wire[arrived]
    OBVIOUS
  <2>2. PICK t : t = Cardinality(Starts(arrived))
    OBVIOUS
  <2>3. PICK s : s = Cardinality(G)
    OBVIOUS
  <2>4. /\ Plain(d) /\ Follows(d, e) /\ t \in Nat
        /\ s = IF Begins(e) THEN t + 1 ELSE t
    <3>1. arrived \in 1 .. Len(wire) /\ arrived \in 1 .. Len(wire) - 1 /\ arrived \in Nat \ {0}
      BY <1>2, <1>8
    <3>2. Plain(d) /\ Follows(d, e)
      BY <1>2, <2>1, <3>1 DEF WireOrdered, InSequence
    <3>3. t \in Nat
      BY <2>2, <3>1, StartsFinite
    <3>4. s = IF Begins(e) THEN t + 1 ELSE t
      BY <1>2, <1>5, <2>2, <2>3, <3>1, StartsGrow
    <3> QED
      BY <3>2, <3>3, <3>4
  <2>5. state.seen /\ Counted(d, t) /\ FirstPass(d, t) /\ Whole(d, t)
    BY <1>8, <2>1, <2>2 DEF ReceiverOrdered
  <2>6. SeenNext(e, s) \/ Await(e, s)
    BY <1>3, <1>4, <2>4, <2>5, NextOwed
  <2>7. s \in Nat
    BY <2>4
  <2>8. Counted(e, s)' /\ state'.seen /\ (s = 0 => ~Drops(e))
    <3>1. CASE SeenNext(e, s)
      BY <1>1, <1>3, <1>4, <2>5, <2>7, <3>1, SeenTakes
    <3>2. CASE Await(e, s)
      BY <1>1, <1>3, <1>4, <2>5, <2>7, <3>2, AwaitTakes
    <3> QED
      BY <2>6, <3>1, <3>2
  <2>9. FirstPass(e, s)'
    BY <1>3, <1>4, <2>4, <2>5, <2>8, FirstPassStays
  <2>10. Whole(e, s)'
    BY <1>1, <1>3, <1>4, <2>4, <2>5, <2>8, WholeStays
  <2> QED
    BY <2>3, <2>8, <2>9, <2>10
<1> QED
  BY <1>7, <1>8

LEMMA WireLength == ASSUME RInv PROVE Len(wire) \in Nat /\ DOMAIN wire = 1 .. Len(wire)
BY LenProperties DEF RInv, WireSound

\* A sweep ends messages, which may be seen once more each.
LEMMA SweepOrdered ==
    ASSUME RInv, WireOrdered, ReceiverOrdered, Sweep
    PROVE  ReceiverOrdered'
<1>1. /\ R!Expire /\ UNCHANGED <<wire, arrived, state, out, evictions>>
  BY DEF Sweep, R!Expire, tracking
<1>2. PICK i \in 0 .. Len(order) :
             /\ entries' = [l \in Slots \ R!Popped(i) |-> entries[l]]
             /\ tally' = [tally EXCEPT !.expired = @ + R!Cardinality(Slots \cap R!Popped(i))]
  BY <1>1 DEF R!Expire, R!Without, Slots
<1>3. PICK n : n = R!Cardinality(Slots \cap R!Popped(i))
  OBVIOUS
<1>4. /\ IsFiniteSet(Slots)
      /\ tally \in [opened : Nat, completed : Nat, dropped : Nat, expired : Nat]
  BY DEF ReceiverOrdered, Kept
<1>5. IsFiniteSet(Slots \cap R!Popped(i))
  BY <1>4, FS_Intersection
<1>6. n \in Nat /\ (n = 0 => Slots \cap R!Popped(i) = {})
  BY <1>3, <1>5, SameFiniteSets, FS_CardinalityType, FS_EmptySet
<1>7. /\ Slots' = Slots \ R!Popped(i)
      /\ \A l \in Slots' : l \in Slots /\ entries'[l] = entries[l]
      /\ n = 0 => Slots' = Slots
  BY <1>2, <1>6 DEF Slots
<1>8. /\ tally' \in [opened : Nat, completed : Nat, dropped : Nat, expired : Nat]
      /\ tally'.dropped = tally.dropped /\ tally'.expired = tally.expired + n
      /\ Over \in Nat /\ Over' = Over + n
  <2>1. tally' = [tally EXCEPT !.expired = @ + n]
    BY <1>2, <1>3
  <2>2. tally.dropped \in Nat /\ tally.expired \in Nat /\ tally.expired + n \in Nat
    BY <1>4, <1>6
  <2>3. tally' \in [opened : Nat, completed : Nat, dropped : Nat, expired : Nat]
    BY <1>4, <2>1, <2>2
  <2>4. tally'.dropped = tally.dropped /\ tally'.expired = tally.expired + n
    BY <1>4, <2>1
  <2> QED
    BY <1>6, <2>2, <2>3, <2>4 DEF Over
<1>9. Kept'
  <2>1. IsFiniteSet(Slots')
    BY <1>4, <1>7, FS_Difference
  <2>2. evictions' \in Nat
    BY <1>1 DEF ReceiverOrdered, Kept
  <2>3. \A l \in Slots' : /\ l = Slot(l[2]) /\ l[2] \in Nat
                          /\ entries'[l].count \in Nat \ {0, 1}
                          /\ DOMAIN entries'[l].buffer # 0 .. entries'[l].count - 1
    BY <1>7 DEF ReceiverOrdered, Kept
  <2> QED
    BY <1>8, <2>1, <2>2, <2>3 DEF Kept, Slot
<1>10. ASSUME arrived = 0 PROVE Blank'
  <2>1. Blank
    BY <1>10 DEF ReceiverOrdered
  <2>2. Slots \cap R!Popped(i) = {}
    BY <2>1 DEF Blank
  <2>3. n = 0
    BY <1>3, <2>2, SameFiniteSets, FS_EmptySet
  <2> QED
    BY <1>1, <1>7, <1>8, <2>1, <2>3 DEF Blank
<1>11. ASSUME arrived # 0, NEW d, d = wire[arrived],
              NEW t, t = Cardinality(Starts(arrived)),
              Counted(d, t), FirstPass(d, t), Whole(d, t)
       PROVE  Counted(d, t)' /\ FirstPass(d, t)' /\ Whole(d, t)'
  <2> DEFINE q == d.sequence
  <2>1. PICK c, u, c1, u1 :
           /\ c = Cardinality(Partial) /\ u = TornBut(q)
           /\ c1 = Cardinality(Partial)' /\ u1 = TornBut(q)'
    OBVIOUS
  <2>2. /\ state \in [seen : BOOLEAN, last : Nat, missing : Nat, gaps : Nat, late : Nat]
        /\ t \in Nat /\ q \in Nat
    <3>1. arrived \in Nat /\ arrived \in 1 .. Len(wire)
      BY <1>11, WireLength DEF RInv, WireOrdered
    <3>2. Plain(d)
      BY <1>11, <3>1 DEF WireOrdered, InSequence
    <3>3. t \in Nat
      BY <1>11, <3>1, StartsFinite
    <3> QED
      BY <3>2, <3>3, TrackInvIs DEF RInv, Plain
  <2>3. Partial' \subseteq Partial /\ IsFiniteSet(Partial)
    <3>1. Partial' \subseteq Partial
      BY <1>7 DEF Partial, Ended
    <3> QED
      BY <1>4, <3>1, FS_Subset DEF Partial
  <2>4. c \in Nat /\ u \in Nat /\ c1 \in Nat /\ u1 \in Nat /\ c1 <= c /\ u1 <= u
    <3>1. c \in Nat /\ u \in Nat
      BY <2>1, TornCount DEF ReceiverOrdered
    <3>2. c1 \in Nat /\ u1 \in Nat
      BY <1>9, <2>1, TornCountNext
    <3>3. c1 <= c
      BY <2>1, <2>3, FS_Subset
    <3>4. u1 <= u
      <4>1. IsFiniteSet(Partial \ {Slot(q)}) /\ Partial' \ {Slot(q)} \subseteq Partial \ {Slot(q)}
        BY <2>3, FS_Difference
      <4>2. Cardinality(Partial' \ {Slot(q)}) <= Cardinality(Partial \ {Slot(q)})
        BY <4>1, FS_Subset
      <4> QED
        BY <2>1, <4>2 DEF TornBut, Slot
    <3> QED
      BY <3>1, <3>2, <3>3, <3>4
  <2>5. Gap(q)' = Gap(q) /\ Gap(q - 1)' = Gap(q - 1)
    BY <1>1 DEF Gap
  <2>6. (Live(q)' => Live(q)) /\ (Torn(0)' => Torn(0)) /\ (n = 0 => (Live(q)' <=> Live(q)))
    BY <1>7, <2>3 DEF Live, Torn, Slot
  <2>7. Live(q)' => /\ Agrees(d)' <=> Agrees(d)
                    /\ Bytes(d)' = Bytes(d)
    BY <1>7 DEF Live, Agrees, Bytes, Slot
  <2>8. Past(d, t) => Past(d, t)'
    <3> SUFFICES ASSUME Past(d, t) PROVE Past(d, t)'
      OBVIOUS
    <3>1. /\ state.missing + Gap(q) + c <= t
          /\ t <= 1 => /\ state.last <= q /\ state.late <= t + Over
                       /\ t = 0 => state.last = q
      BY <2>1 DEF Past
    <3>2. Gap(q) \in Nat
      BY <2>2 DEF Gap
    <3>3. state.missing + Gap(q) + c1 <= t
      BY <2>2, <2>4, <3>1, <3>2
    <3>4. t <= 1 => state.late <= t + Over'
      BY <1>6, <1>8, <2>2, <3>1
    <3>5. /\ state'.missing + Gap(q)' + c1 <= t
          /\ t <= 1 => /\ state'.last <= q /\ state'.late <= t + Over'
                       /\ t = 0 => state'.last = q
      BY <1>1, <2>5, <3>1, <3>3, <3>4
    <3> QED
      BY <2>1, <3>5 DEF Past
  <2>9. SeenMid(d, t) => SeenMid(d, t)'
    <3> SUFFICES ASSUME SeenMid(d, t) PROVE SeenMid(d, t)'
      OBVIOUS
    <3>1. /\ state.missing + Gap(q) + u <= t /\ Own(d)
          /\ t <= 1 => /\ state.last = q
                       /\ state.late + (IF Live(q) THEN 0 ELSE 1) <= t + Over
      BY <2>1 DEF SeenMid
    <3>2. Gap(q) \in Nat
      BY <2>2 DEF Gap
    <3>3. state.missing + Gap(q) + u1 <= t
      BY <2>2, <2>4, <3>1, <3>2
    <3>4. t <= 1 => state.late + (IF Live(q)' THEN 0 ELSE 1) <= t + Over'
      <4>1. CASE Live(q) /\ ~Live(q)'
        <5>1. n >= 1
          BY <1>6, <2>6, <4>1
        <5>2. t <= 1 => state.late <= t + Over
          BY <2>2, <3>1, <4>1
        <5>3. t <= 1 => state.late + 1 <= t + Over'
          BY <1>6, <1>8, <2>2, <5>1, <5>2
        <5> QED
          BY <4>1, <5>3
      <4>2. CASE Live(q)' /\ Live(q)
        BY <1>6, <1>8, <2>2, <3>1, <4>2
      <4>3. CASE ~Live(q)
        <5>1. ~Live(q)'
          BY <2>6, <4>3
        <5>2. t <= 1 => state.late + 1 <= t + Over
          BY <2>2, <3>1, <4>3
        <5>3. t <= 1 => state.late + 1 <= t + Over'
          BY <1>6, <1>8, <2>2, <5>2
        <5> QED
          BY <5>1, <5>3
      <4> QED
        BY <4>1, <4>2, <4>3
    <3>5. Own(d)'
      BY <2>6, <2>7, <3>1 DEF Own
    <3>6. /\ state'.missing + Gap(q)' + u1 <= t
          /\ t <= 1 => /\ state'.last = q
                       /\ state'.late + (IF Live(q)' THEN 0 ELSE 1) <= t + Over'
      BY <1>1, <2>5, <3>1, <3>3, <3>4
    <3> QED
      BY <2>1, <3>5, <3>6 DEF SeenMid
  <2>10. UnseenMid(d, t) => UnseenMid(d, t)'
    <3> SUFFICES ASSUME UnseenMid(d, t) PROVE UnseenMid(d, t)'
      OBVIOUS
    <3>1. /\ state.missing + Gap(q - 1) + c <= t /\ Absorbed(d)
          /\ t <= 1 => /\ t = 1
                       /\ q = 0 => state.late <= Over /\ (Torn(0) => state.last = 0)
                       /\ q # 0 => state.last < q /\ state.late <= 1 + Over
      BY <2>1 DEF UnseenMid
    <3>2. Gap(q - 1) \in Nat
      BY <2>2 DEF Gap
    <3>3. state.missing + Gap(q - 1) + c1 <= t
      BY <2>2, <2>4, <3>1, <3>2
    <3>4. Absorbed(d)'
      BY <2>6, <2>7, <3>1 DEF Absorbed
    <3>5. t <= 1 => /\ t = 1
                    /\ q = 0 => state.late <= Over' /\ (Torn(0)' => state.last = 0)
                    /\ q # 0 => state.last < q /\ state.late <= 1 + Over'
      <4>1. t <= 1 /\ q = 0 => state.late <= Over'
        BY <1>6, <1>8, <2>2, <3>1
      <4>2. t <= 1 /\ q # 0 => state.late <= 1 + Over'
        BY <1>6, <1>8, <2>2, <3>1
      <4> QED
        BY <2>6, <3>1, <4>1, <4>2
    <3>6. state'.missing + Gap(q - 1)' + c1 <= t
      BY <1>1, <2>5, <3>3
    <3> QED
      BY <1>1, <2>1, <3>4, <3>5, <3>6 DEF UnseenMid
  <2>11. Counted(d, t)'
    BY <1>11, <2>8, <2>9, <2>10 DEF Counted
  <2>12. FirstPass(d, t)'
    BY <1>7, <1>8, <1>11 DEF FirstPass
  <2>13. Whole(d, t)'
    <3> SUFFICES ASSUME t = 0, tally'.expired = 0
                 PROVE  /\ evictions' = 0
                        /\ IF Finishes(d) THEN Slots' = {} /\ out'.sequence = d.sequence
                           ELSE Slots' = {Slot(q)} /\ Bytes(d)' = 0 .. d.index
      BY DEF Whole, Slot
    <3>1. n = 0 /\ tally.expired = 0
      BY <1>4, <1>6, <1>8
    <3>2. /\ evictions = 0
          /\ IF Finishes(d) THEN Slots = {} /\ out.sequence = d.sequence
             ELSE Slots = {Slot(q)} /\ Bytes(d) = 0 .. d.index
      BY <1>11, <3>1 DEF Whole
    <3>3. Slots' = Slots
      BY <1>7, <3>1
    <3>4. ~Finishes(d) => Bytes(d)' = Bytes(d)
      BY <2>7, <3>2, <3>3 DEF Live, Slot
    <3> QED
      BY <1>1, <3>2, <3>3, <3>4
  <2> QED
    BY <2>11, <2>12, <2>13
<1>12. ASSUME arrived # 0
       PROVE  \E d \in {wire[arrived]}, t \in {Cardinality(Starts(arrived))} :
                 Counted(d, t)' /\ FirstPass(d, t)' /\ Whole(d, t)'
  BY <1>11, <1>12 DEF ReceiverOrdered
<1>13. wire'[arrived'] = wire[arrived] /\ Starts(arrived)' = Starts(arrived)
  BY <1>1 DEF Starts, Begins
<1>14. state.seen => state'.seen
  BY <1>1
<1> QED
  BY <1>1, <1>9, <1>10, <1>12, <1>13, <1>14 DEF ReceiverOrdered

\* Steps that leave the receiver and what was sent as they are.
LEMMA ReceiverKept ==
    ASSUME RInv, WireOrdered, ReceiverOrdered,
           UNCHANGED <<arrived, entries, evictions, tally, state, out>>,
           \A j \in 1 .. Len(wire) : wire'[j] = wire[j]
    PROVE  ReceiverOrdered'
<1>1. Slots' = Slots /\ Partial' = Partial /\ Over' = Over
  BY DEF Slots, Partial, Ended, Over
<1>2. Kept'
  BY <1>1 DEF ReceiverOrdered, Kept
<1>3. arrived = 0 => Blank'
  BY <1>1 DEF ReceiverOrdered, Blank
<1>4. ASSUME NEW d, NEW t, Counted(d, t), FirstPass(d, t), Whole(d, t)
      PROVE  Counted(d, t)' /\ FirstPass(d, t)' /\ Whole(d, t)'
  <2>1. /\ \A q : (Live(q)' <=> Live(q)) /\ (Torn(q)' <=> Torn(q)) /\ TornBut(q)' = TornBut(q)
        /\ \A x : Gap(x)' = Gap(x)
        /\ (Agrees(d)' <=> Agrees(d)) /\ Bytes(d)' = Bytes(d)
    BY <1>1 DEF Live, Torn, TornBut, Slot, Gap, Agrees, Bytes
  <2>2. (Own(d)' <=> Own(d)) /\ (Absorbed(d)' <=> Absorbed(d))
    BY <2>1 DEF Own, Absorbed
  <2>3. Past(d, t)' <=> Past(d, t)
    BY <1>1, <2>1 DEF Past
  <2>4. SeenMid(d, t)' <=> SeenMid(d, t)
    BY <1>1, <2>1, <2>2 DEF SeenMid
  <2>5. UnseenMid(d, t)' <=> UnseenMid(d, t)
    BY <1>1, <2>1, <2>2 DEF UnseenMid
  <2>6. Counted(d, t)'
    BY <1>4, <2>3, <2>4, <2>5 DEF Counted
  <2>7. FirstPass(d, t)'
    BY <1>1, <1>4 DEF FirstPass
  <2>8. Whole(d, t)'
    BY <1>1, <1>4, <2>1 DEF Whole, Slot
  <2> QED
    BY <2>6, <2>7, <2>8
<1>5. ASSUME arrived # 0
      PROVE  wire'[arrived'] = wire[arrived] /\ Starts(arrived)' = Starts(arrived)
  <2>1. arrived \in 1 .. Len(wire) /\ Len(wire) \in Nat
    BY <1>5, WireLength DEF RInv, WireOrdered
  <2>2. \A i \in 2 .. arrived : wire'[i] = wire[i]
    BY <2>1
  <2> QED
    BY <2>1, <2>2 DEF Starts, Begins
<1>6. ASSUME arrived # 0
      PROVE  \E d \in {wire[arrived]}, t \in {Cardinality(Starts(arrived))} :
                Counted(d, t)' /\ FirstPass(d, t)' /\ Whole(d, t)'
  BY <1>4, <1>6 DEF ReceiverOrdered
<1> QED
  BY <1>2, <1>3, <1>5, <1>6 DEF ReceiverOrdered

LEMMA ReceiverStep ==
    ASSUME RInv, Orderly, WireOrdered, ReceiverOrdered, [RelayNext]_relayVars
    PROVE  ReceiverOrdered'
<1>1. CASE BridgeSends
  <2>1. /\ wire' = Append(wire, NextDatagram)
        /\ UNCHANGED <<arrived, entries, evictions, tally, state, out>>
    BY <1>1 DEF BridgeSends, receiver, reassembly, tracking
  <2>2. \A j \in 1 .. Len(wire) : wire'[j] = wire[j]
    <3> DEFINE e == NextDatagram
    <3>1. wire \in Seq(Range(wire)) /\ wire' = Append(wire, e)
      BY <2>1 DEF RInv, WireSound
    <3> HIDE DEF e
    <3> QED
      BY <3>1, AppendAny
  <2> QED
    BY <2>1, <2>2, ReceiverKept
<1>2. CASE PublishNext \/ BridgeTakes \/ BridgeMoves \/ Restart \/ Tick \/ UNCHANGED relayVars
  <2>1. wire' = wire /\ UNCHANGED <<arrived, entries, evictions, tally, state, out>>
    BY <1>2 DEF PublishNext, BridgeTakes, BridgeMoves, Restart, Tick, R!Tick, relayVars,
                receiver, reassembly, tracking
  <2> QED
    BY <2>1, ReceiverKept
<1>3. ASSUME NEW e \in Arriving, Receive(e) PROVE ReceiverOrdered'
  BY <1>3, ReceiveOrdered
<1>4. CASE Sweep
  BY <1>4, SweepOrdered
<1> QED
  BY <1>1, <1>2, <1>3, <1>4 DEF RelayNext

\* The invariant of a network that keeps the order.
OrderlyInv == RInv /\ (Orderly => WireOrdered /\ ReceiverOrdered)

LEMMA OrderlyInit == RelayInit => OrderlyInv
<1> SUFFICES ASSUME RelayInit PROVE OrderlyInv
  OBVIOUS
<1>1. RInv
  BY RelayInitInv
<1>2. /\ wire = << >> /\ arrived = 0 /\ phase # "send" /\ generation = 0
      /\ nextSeq = [s \in Source |-> 0] /\ 1 \in Source
  BY BridgeAssumption DEF RelayInit, Init, L!Init, Source
<1>3. Len(wire) = 0
  BY <1>2, EmptySeq
<1>4. InSequence
  BY <1>2, <1>3 DEF InSequence
<1>5. Upcoming
  BY <1>2 DEF Upcoming, NextNumber, NextIndex
<1>6. /\ entries = << >> /\ evictions = 0 /\ ~state.seen /\ state.missing = 0 /\ state.late = 0
      /\ tally = [opened |-> 0, completed |-> 0, dropped |-> 0, expired |-> 0]
  BY DEF RelayInit, R!Init, T!Init, T!Unseen
<1>7. Slots = {}
  BY <1>6, EmptySeq DEF Slots
<1>8. Kept /\ Blank
  BY <1>6, <1>7, FS_EmptySet DEF Kept, Blank
<1> QED
  BY <1>1, <1>2, <1>3, <1>4, <1>5, <1>8 DEF OrderlyInv, WireOrdered, ReceiverOrdered

LEMMA OrderlyStep == OrderlyInv /\ [RelayNext]_relayVars => OrderlyInv'
<1> SUFFICES ASSUME OrderlyInv, [RelayNext]_relayVars PROVE OrderlyInv'
  OBVIOUS
<1>1. RInv /\ RInv'
  BY RelayStep DEF OrderlyInv
<1>2. ASSUME Orderly' PROVE WireOrdered' /\ ReceiverOrdered'
  <2>1. Orderly
    BY <1>1, <1>2, OrderlyStays
  <2>2. WireOrdered /\ ReceiverOrdered
    BY <2>1 DEF OrderlyInv
  <2> QED
    BY <1>1, <2>1, <2>2, WireStep, ReceiverStep
<1> QED
  BY <1>1, <1>2 DEF OrderlyInv

\* What is owed is bounded by the restarts.
LEMMA OwedNow ==
    ASSUME RInv, WireOrdered, ReceiverOrdered
    PROVE  /\ state.missing <= generation
           /\ generation <= 1 => state.late <= generation + Over
<1>1. /\ state \in [seen : BOOLEAN, last : Nat, missing : Nat, gaps : Nat, late : Nat]
      /\ Over \in Nat /\ generation \in Nat
  BY TrackInvIs DEF RInv, ReceiverOrdered, Kept, Over, Numbering
<1>2. CASE arrived = 0
  BY <1>1, <1>2 DEF ReceiverOrdered, Blank
<1>3. CASE arrived # 0
  <2>1. PICK d, t : /\ d = wire[arrived] /\ t = Cardinality(Starts(arrived))
                    /\ Counted(d, t)
    BY <1>3 DEF ReceiverOrdered
  <2> DEFINE q == d.sequence
  <2>2. arrived \in 1 .. Len(wire) /\ Len(wire) \in Nat /\ arrived \in Nat
    BY <1>3, WireLength DEF RInv, WireOrdered
  <2>3. q \in Nat
    BY <2>1, <2>2 DEF WireOrdered, InSequence, Plain
  <2>4. t \in Nat /\ t <= generation
    <3>1. t \in Nat /\ t <= Cardinality(Starts(Len(wire)))
      BY <2>1, <2>2, StartsFinite, StartsMonotonic
    <3>2. wire # << >>
      BY <2>2, EmptySeq
    <3>3. Cardinality(Starts(Len(wire))) + (IF NextIndex = 0 /\ NextNumber = 0 THEN 1 ELSE 0)
             <= generation
      BY <3>2 DEF WireOrdered, Upcoming
    <3>4. Cardinality(Starts(Len(wire))) \in Nat
      BY <2>2, StartsFinite
    <3> QED
      BY <1>1, <3>1, <3>3, <3>4
  <2>5. /\ Cardinality(Partial) \in Nat /\ TornBut(q) \in Nat
        /\ Gap(q) \in Nat /\ Gap(q - 1) \in Nat
    BY <1>1, <2>3, TornCount DEF Gap, ReceiverOrdered
  <2>6. state.missing <= t /\ (t <= 1 => state.late <= t + Over)
    <3>1. CASE Past(d, t)
      BY <1>1, <2>4, <2>5, <3>1 DEF Past
    <3>2. CASE SeenMid(d, t)
      BY <1>1, <2>4, <2>5, <3>2 DEF SeenMid
    <3>3. CASE UnseenMid(d, t)
      BY <1>1, <2>3, <2>4, <2>5, <3>3 DEF UnseenMid
    <3> QED
      BY <2>1, <3>1, <3>2, <3>3 DEF Counted
  <2> QED
    BY <1>1, <2>4, <2>6
<1> QED
  BY <1>2, <1>3

\* Without a restart, everything that was sent is delivered once all arrived.
LEMMA WholeNow ==
    ASSUME RInv, WireOrdered, ReceiverOrdered, generation = 0, tally.expired = 0
    PROVE  /\ evictions = 0 /\ tally.dropped = 0
           /\ arrived = Len(wire) /\ phase # "send" =>
                 \A m \in taken : m.message.sequence <= out.sequence
<1>1. arrived \in Nat /\ Len(wire) \in Nat /\ arrived <= Len(wire)
  BY WireLength DEF RInv, WireOrdered
<1>2. ASSUME arrived # 0
      PROVE  /\ evictions = 0 /\ tally.dropped = 0
             /\ Finishes(wire[arrived]) => out.sequence = wire[arrived].sequence
  <2>1. PICK d, t : /\ d = wire[arrived] /\ t = Cardinality(Starts(arrived))
                    /\ FirstPass(d, t) /\ Whole(d, t)
    BY <1>2 DEF ReceiverOrdered
  <2>2. t = 0
    <3>1. t \in Nat /\ t <= Cardinality(Starts(Len(wire))) /\ Cardinality(Starts(Len(wire))) \in Nat
      BY <1>1, <2>1, StartsFinite, StartsMonotonic
    <3>2. wire # << >>
      BY <1>1, <1>2, EmptySeq
    <3>3. Cardinality(Starts(Len(wire))) + (IF NextIndex = 0 /\ NextNumber = 0 THEN 1 ELSE 0) <= 0
      BY <3>2 DEF WireOrdered, Upcoming
    <3> QED
      BY <3>1, <3>3
  <2> QED
    BY <2>1, <2>2 DEF FirstPass, Whole
<1>3. evictions = 0 /\ tally.dropped = 0
  BY <1>2 DEF ReceiverOrdered, Blank
<1>4. ASSUME arrived = Len(wire), phase # "send", NEW m \in taken
      PROVE  m.message.sequence <= out.sequence
  <2>1. m.message.sequence \in Nat /\ m.message.sequence < nextSeq[1]
    <3>1. m.message \in Possible /\ m.generation = generation
      BY DEF RInv, Numbering
    <3>2. m.message.sequence \in 0 .. SeqSpace - 1
      BY <3>1, PossibleFacts
    <3> QED
      BY <3>1, <3>2, BridgeAssumption DEF RInv, Numbering
  <2>2. nextSeq[1] # 0
    BY <2>1
  <2>3. wire # << >> /\ Finishes(Newest) /\ Newest.sequence + 1 = nextSeq[1]
    BY <1>4, <2>2 DEF WireOrdered, Upcoming, NextIndex, NextNumber
  <2>4. arrived # 0 /\ Newest = wire[arrived]
    BY <1>4, <2>3, EmptySeq DEF Newest, RInv, WireSound
  <2>5. out.sequence = Newest.sequence
    BY <1>2, <2>3, <2>4
  <2>6. Newest.sequence \in Nat
    BY <1>1, <1>4, <2>4 DEF WireOrdered, InSequence, Plain
  <2> QED
    BY <2>1, <2>3, <2>5, <2>6
<1> QED
  BY <1>3, <1>4

\* Where the network keeps datagrams in order and sends do not fail, a restart of
\* the bridge costs at most one number counted as missing, and a first restart at
\* most one late message beside those that were discarded half-way; without a
\* restart nothing counts as missing, and until a sweep takes a message nothing
\* is late, evicted or inconsistent and every message whose datagrams have
\* arrived was delivered (limitations.md:91).
THEOREM OrderlyNetworkLosesNothing == RelaySpec => []OrderlyNetwork
<1>1. OrderlyInv => OrderlyNetwork
  <2> SUFFICES ASSUME OrderlyInv, Orderly
               PROVE  /\ state.missing <= generation
                      /\ generation <= 1 =>
                            state.late <= generation + tally.dropped + tally.expired
                      /\ generation = 0 =>
                            /\ state.missing = 0
                            /\ tally.expired = 0 =>
                                  /\ state.late = 0 /\ evictions = 0 /\ tally.dropped = 0
                                  /\ arrived = Len(wire) /\ phase # "send" =>
                                        \A m \in taken : m.message.sequence <= out.sequence
    BY DEF OrderlyNetwork, RestartNoGap, InOrderComplete
  <2>1. RInv /\ WireOrdered /\ ReceiverOrdered
    BY DEF OrderlyInv
  <2>2. /\ state \in [seen : BOOLEAN, last : Nat, missing : Nat, gaps : Nat, late : Nat]
        /\ tally.dropped \in Nat /\ tally.expired \in Nat /\ generation \in Nat
    BY <2>1, TrackInvIs DEF RInv, ReceiverOrdered, Kept, Numbering
  <2>3. /\ state.missing <= generation
        /\ generation <= 1 => state.late <= generation + Over
    BY <2>1, OwedNow
  <2>4. generation <= 1 => state.late <= generation + tally.dropped + tally.expired
    BY <2>2, <2>3 DEF Over
  <2>5. ASSUME generation = 0, tally.expired = 0
        PROVE  /\ evictions = 0 /\ tally.dropped = 0
               /\ arrived = Len(wire) /\ phase # "send" =>
                     \A m \in taken : m.message.sequence <= out.sequence
    BY <2>1, <2>5, WholeNow
  <2>6. generation = 0 => state.missing = 0
    BY <2>2, <2>3
  <2>7. generation = 0 /\ tally.expired = 0 => state.late = 0
    BY <2>2, <2>4, <2>5
  <2> QED
    BY <2>3, <2>4, <2>5, <2>6, <2>7
<1> QED
  BY <1>1, OrderlyInit, OrderlyStep, PTL DEF RelaySpec

===========================================================================
