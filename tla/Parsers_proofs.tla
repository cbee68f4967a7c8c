--------------------------- MODULE Parsers_proofs ---------------------------
(***************************************************************************)
(* The verdict of parse_datagram() on every datagram, the configuration of *)
(* every program that starts, the telemetry the CSV export decodes, and    *)
(* the messages the control tool's JSON parser accepts.                    *)
(***************************************************************************)
EXTENDS Parsers, CommonLemmas

-----------------------------------------------------------------------------
(* The tests of parse_datagram() and its verdict.                          *)

\* The tests in their order.
LEMMA TestsOf ==
    ASSUME NEW d
    PROVE  /\ DOMAIN Tests(d) = 1 .. 11
           /\ Tests(d)[1] = Test("Truncated", d.size < HeaderSize)
           /\ Tests(d)[2] = Test("BadMagic", ~d.magic)
           /\ Tests(d)[3] = Test("BadVersion", ~d.version)
           /\ Tests(d)[4] = Test("BadFragmentCount", d.count = 0)
           /\ Tests(d)[5] = Test("BadFragmentIndex", d.index >= d.count)
           /\ Tests(d)[6] = Test("LengthMismatch", d.size # HeaderSize + d.flen)
           /\ Tests(d)[7] = Test("RangeError", d.offset + d.flen > d.length)
           /\ Tests(d)[8] = Test("RangeError", d.count = 1 /\ (d.offset # 0 \/ d.flen # d.length))
           /\ Tests(d)[9] = Test("FlagMismatch", ("FRAGMENTED" \in d.flags) # (d.count # 1))
           /\ Tests(d)[10] = Test("RangeError", d.count # 1 /\ d.index + 1 = d.count /\ d.offset + d.flen # d.length)
           /\ Tests(d)[11] = Test("RangeError", d.count # 1 /\ d.index + 1 # d.count /\ d.flen = 0)
BY DEF Tests, RangeTests

\* Types of the fields a test reads.
Typed(d) == /\ d.size \in Nat /\ d.count \in Nat /\ d.index \in Nat /\ d.offset \in Nat
            /\ d.flen \in Nat /\ d.length \in Nat
            /\ d.magic \in BOOLEAN /\ d.version \in BOOLEAN

LEMMA FailsIf ==
    ASSUME NEW r, NEW e, NEW f \in BOOLEAN, r = Test(e, f)
    PROVE  r.fails <=> f
BY DEF Test

LEMMA FailsOf ==
    ASSUME NEW d, Typed(d)
    PROVE  /\ Tests(d)[1].fails <=> (d.size < HeaderSize)
           /\ Tests(d)[2].fails <=> (~d.magic)
           /\ Tests(d)[3].fails <=> (~d.version)
           /\ Tests(d)[4].fails <=> (d.count = 0)
           /\ Tests(d)[5].fails <=> (d.index >= d.count)
           /\ Tests(d)[6].fails <=> (d.size # HeaderSize + d.flen)
           /\ Tests(d)[7].fails <=> (d.offset + d.flen > d.length)
           /\ Tests(d)[8].fails <=> (d.count = 1 /\ (d.offset # 0 \/ d.flen # d.length))
           /\ Tests(d)[9].fails <=> (("FRAGMENTED" \in d.flags) # (d.count # 1))
           /\ Tests(d)[10].fails <=> (d.count # 1 /\ d.index + 1 = d.count /\ d.offset + d.flen # d.length)
           /\ Tests(d)[11].fails <=> (d.count # 1 /\ d.index + 1 # d.count /\ d.flen = 0)
<1> DEFINE f1 == d.size < HeaderSize
           f2 == ~d.magic
           f3 == ~d.version
           f4 == d.count = 0
           f5 == d.index >= d.count
           f6 == d.size # HeaderSize + d.flen
           f7 == d.offset + d.flen > d.length
           f8 == d.count = 1 /\ (d.offset # 0 \/ d.flen # d.length)
           f9 == ("FRAGMENTED" \in d.flags) # (d.count # 1)
           f10 == d.count # 1 /\ d.index + 1 = d.count /\ d.offset + d.flen # d.length
           f11 == d.count # 1 /\ d.index + 1 # d.count /\ d.flen = 0
<1>1. /\ f1 \in BOOLEAN /\ f2 \in BOOLEAN /\ f3 \in BOOLEAN /\ f4 \in BOOLEAN
      /\ f5 \in BOOLEAN /\ f6 \in BOOLEAN /\ f7 \in BOOLEAN /\ f8 \in BOOLEAN
      /\ f9 \in BOOLEAN /\ f10 \in BOOLEAN /\ f11 \in BOOLEAN
  BY WireAssumption DEF Typed
<1>2. /\ Tests(d)[1] = Test("Truncated", f1)
      /\ Tests(d)[2] = Test("BadMagic", f2)
      /\ Tests(d)[3] = Test("BadVersion", f3)
      /\ Tests(d)[4] = Test("BadFragmentCount", f4)
      /\ Tests(d)[5] = Test("BadFragmentIndex", f5)
      /\ Tests(d)[6] = Test("LengthMismatch", f6)
      /\ Tests(d)[7] = Test("RangeError", f7)
      /\ Tests(d)[8] = Test("RangeError", f8)
      /\ Tests(d)[9] = Test("FlagMismatch", f9)
      /\ Tests(d)[10] = Test("RangeError", f10)
      /\ Tests(d)[11] = Test("RangeError", f11)
  BY TestsOf
<1>3. /\ Tests(d)[1].fails <=> f1
      /\ Tests(d)[2].fails <=> f2
      /\ Tests(d)[3].fails <=> f3
      /\ Tests(d)[4].fails <=> f4
      /\ Tests(d)[5].fails <=> f5
      /\ Tests(d)[6].fails <=> f6
      /\ Tests(d)[7].fails <=> f7
      /\ Tests(d)[8].fails <=> f8
      /\ Tests(d)[9].fails <=> f9
      /\ Tests(d)[10].fails <=> f10
      /\ Tests(d)[11].fails <=> f11
  <2> HIDE DEF f1, f2, f3, f4, f5, f6, f7, f8, f9, f10, f11
  <2> QED
    BY <1>1, <1>2, FailsIf
<1> QED
  BY <1>3

\* Every test has an error of its own to report.
LEMMA ErrorsOf ==
    ASSUME NEW d
    PROVE  /\ Tests(d)[1].error = "Truncated"
           /\ Tests(d)[2].error = "BadMagic"
           /\ Tests(d)[3].error = "BadVersion"
           /\ Tests(d)[4].error = "BadFragmentCount"
           /\ Tests(d)[5].error = "BadFragmentIndex"
           /\ Tests(d)[6].error = "LengthMismatch"
           /\ Tests(d)[7].error = "RangeError"
           /\ Tests(d)[8].error = "RangeError"
           /\ Tests(d)[9].error = "FlagMismatch"
           /\ Tests(d)[10].error = "RangeError"
           /\ Tests(d)[11].error = "RangeError"
<1> DEFINE f1 == d.size < HeaderSize
           f2 == ~d.magic
           f3 == ~d.version
           f4 == d.count = 0
           f5 == d.index >= d.count
           f6 == d.size # HeaderSize + d.flen
           f7 == d.offset + d.flen > d.length
           f8 == d.count = 1 /\ (d.offset # 0 \/ d.flen # d.length)
           f9 == ("FRAGMENTED" \in d.flags) # (d.count # 1)
           f10 == d.count # 1 /\ d.index + 1 = d.count /\ d.offset + d.flen # d.length
           f11 == d.count # 1 /\ d.index + 1 # d.count /\ d.flen = 0
<1>1. /\ Tests(d)[1] = Test("Truncated", f1)
      /\ Tests(d)[2] = Test("BadMagic", f2)
      /\ Tests(d)[3] = Test("BadVersion", f3)
      /\ Tests(d)[4] = Test("BadFragmentCount", f4)
      /\ Tests(d)[5] = Test("BadFragmentIndex", f5)
      /\ Tests(d)[6] = Test("LengthMismatch", f6)
      /\ Tests(d)[7] = Test("RangeError", f7)
      /\ Tests(d)[8] = Test("RangeError", f8)
      /\ Tests(d)[9] = Test("FlagMismatch", f9)
      /\ Tests(d)[10] = Test("RangeError", f10)
      /\ Tests(d)[11] = Test("RangeError", f11)
  BY TestsOf
<1> HIDE DEF f1, f2, f3, f4, f5, f6, f7, f8, f9, f10, f11
<1>2. \A r, e, f : r = Test(e, f) => r.error = e
  BY DEF Test
<1> QED
  BY <1>1, <1>2

\* The verdict is the name of the first test that fails.
LEMMA Verdict ==
    ASSUME NEW d
    PROVE  \/ /\ ParseDatagram(d) = "None"
              /\ \A i \in 1 .. 11 : ~Tests(d)[i].fails
           \/ \E i \in 1 .. 11 : /\ Tests(d)[i].fails
                                 /\ \A j \in 1 .. i - 1 : ~Tests(d)[j].fails
                                 /\ ParseDatagram(d) = Tests(d)[i].error
<1> DEFINE failing == {i \in DOMAIN Tests(d) : Tests(d)[i].fails}
           least == CHOOSE i \in failing : \A j \in failing : i <= j
<1>1. failing \in SUBSET (1 .. 11) /\ DOMAIN Tests(d) = 1 .. 11
  BY TestsOf
<1>2. ParseDatagram(d) = IF failing = {} THEN "None" ELSE Tests(d)[least].error
  BY DEF ParseDatagram
<1>3. failing # {} => least \in failing /\ \A j \in failing : least <= j
  <2> HIDE DEF failing
  <2>1. failing \in SUBSET Nat
    BY <1>1
  <2> QED
    BY <2>1, LeastElement
<1>4. CASE failing = {}
  BY <1>1, <1>2, <1>4
<1>5. CASE failing # {}
  <2> HIDE DEF least
  <2>1. least \in 1 .. 11 /\ Tests(d)[least].fails
    BY <1>1, <1>3, <1>5
  <2>2. ASSUME NEW j \in 1 .. least - 1 PROVE ~Tests(d)[j].fails
    <3>1. j \in 1 .. 11 /\ ~(least <= j)
      BY <2>1
    <3> QED
      BY <1>1, <1>3, <1>5, <3>1
  <2> QED
    BY <1>2, <1>5, <2>1, <2>2
<1> QED
  BY <1>4, <1>5

-----------------------------------------------------------------------------
(* The verdict on what was read.                                           *)

\* The verdict on a datagram, when it has been read.
DatagramRead ==
    kind = "datagram" =>
        input \in Headers /\ (verdict # Unread => verdict = [error |-> ParseDatagram(input)])

LEMMA ReadInvariant == Spec => []DatagramRead
<1>1. Init => DatagramRead
  BY DEF Init, DatagramRead
<1>2. DatagramRead /\ [Next]_vars => DatagramRead'
  BY DEF DatagramRead, Next, vars, ReadDatagram, ReadStart, ReadJson, ReadPayload
<1> QED
  BY <1>1, <1>2, PTL DEF Spec

LEMMA HeaderFacts == ASSUME NEW d \in Headers PROVE Typed(d) /\ HeaderSize \in Nat
<1>1. MaxU16 \in Nat /\ MaxU32 \in Nat /\ HeaderSize \in Nat
  BY WireAssumption
<1> QED
  BY <1>1, HeaderAssumption DEF Typed

\* The rules one by one.
LEMMA Rules ==
    ASSUME NEW d
    PROVE  /\ "Truncated" \in BrokenRules(d) <=> d.size < HeaderSize
           /\ "BadMagic" \in BrokenRules(d) <=> ~d.magic
           /\ "BadVersion" \in BrokenRules(d) <=> ~d.version
           /\ "BadFragmentCount" \in BrokenRules(d) <=> d.count = 0
           /\ "BadFragmentIndex" \in BrokenRules(d) <=> d.index >= d.count
           /\ "LengthMismatch" \in BrokenRules(d) <=> d.size # HeaderSize + d.flen
           /\ "RangeError" \in BrokenRules(d) <=>
                 \/ d.offset + d.flen > d.length
                 \/ d.count = 1 /\ (d.offset # 0 \/ d.flen # d.length)
                 \/ d.index = d.count - 1 /\ d.offset + d.flen # d.length
                 \/ d.index < d.count - 1 /\ d.flen = 0
           /\ "FlagMismatch" \in BrokenRules(d) <=>
                 (("FRAGMENTED" \in d.flags) # (d.count > 1))
           /\ \A r \in BrokenRules(d) :
                 r \in {"Truncated", "BadMagic", "BadVersion", "BadFragmentCount",
                        "BadFragmentIndex", "LengthMismatch", "RangeError", "FlagMismatch"}
BY DEF BrokenRules

\* A datagram no test rejects breaks no rule.
LEMMA PassedBreaksNone ==
    ASSUME NEW d \in Headers, \A i \in 1 .. 11 : ~Tests(d)[i].fails
    PROVE  BrokenRules(d) = {}
<1>1. Typed(d) /\ HeaderSize \in Nat
  BY HeaderFacts
<1>2. /\ ~(d.size < HeaderSize) /\ d.magic /\ d.version /\ d.count # 0
      /\ ~(d.index >= d.count) /\ d.size = HeaderSize + d.flen
      /\ ~(d.offset + d.flen > d.length)
      /\ ~(d.count = 1 /\ (d.offset # 0 \/ d.flen # d.length))
      /\ ("FRAGMENTED" \in d.flags) = (d.count # 1)
      /\ ~(d.count # 1 /\ d.index + 1 = d.count /\ d.offset + d.flen # d.length)
      /\ ~(d.count # 1 /\ d.index + 1 # d.count /\ d.flen = 0)
  BY <1>1, FailsOf
<1>3. d.count > 1 <=> d.count # 1
  BY <1>1, <1>2 DEF Typed
<1>4. ~(d.index = d.count - 1 /\ d.offset + d.flen # d.length)
  BY <1>1, <1>2 DEF Typed
<1>5. ~(d.index < d.count - 1 /\ d.flen = 0)
  BY <1>1, <1>2 DEF Typed
<1> QED
  BY <1>2, <1>3, <1>4, <1>5, Rules

\* The first test that fails names a rule the datagram breaks.
LEMMA FailedNamesBroken ==
    ASSUME NEW d \in Headers, NEW i \in 1 .. 11,
           Tests(d)[i].fails, \A j \in 1 .. i - 1 : ~Tests(d)[j].fails
    PROVE  Tests(d)[i].error \in BrokenRules(d)
<1>1. Typed(d) /\ HeaderSize \in Nat
  BY HeaderFacts
<1>2. CASE i \in 1 .. 6
  <2>1. i = 1 \/ i = 2 \/ i = 3 \/ i = 4 \/ i = 5 \/ i = 6
    BY <1>2
  <2> QED
    BY <1>1, <2>1, FailsOf, ErrorsOf, Rules
<1>3. CASE i \in 7 .. 11
  <2>1. ~Tests(d)[4].fails /\ ~Tests(d)[5].fails
    BY <1>3
  <2>2. d.count \in Nat /\ d.index \in Nat /\ d.count # 0 /\ ~(d.index >= d.count)
    BY <1>1, <2>1, FailsOf DEF Typed
  <2>3. /\ d.count > 1 <=> d.count # 1
        /\ d.index + 1 = d.count => d.index = d.count - 1
        /\ d.index + 1 # d.count => d.index < d.count - 1
    BY <2>2
  <2>4. i = 7 \/ i = 8 \/ i = 9 \/ i = 10 \/ i = 11
    BY <1>3
  <2>5. CASE i = 7 \/ i = 8
    BY <1>1, <2>5, FailsOf, ErrorsOf, Rules
  <2>6. CASE i = 9
    <3>1. ("FRAGMENTED" \in d.flags) # (d.count # 1)
      BY <1>1, <2>6, FailsOf
    <3> QED
      BY <2>3, <2>6, <3>1, ErrorsOf, Rules
  <2>7. CASE i = 10
    BY <1>1, <2>3, <2>7, FailsOf, ErrorsOf, Rules
  <2>8. CASE i = 11
    BY <1>1, <2>3, <2>8, FailsOf, ErrorsOf, Rules
  <2> QED
    BY <2>4, <2>5, <2>6, <2>7, <2>8
<1> QED
  BY <1>2, <1>3

\* parse_datagram() rejects exactly the datagrams a documented rule forbids,
\* and counts each under a rule it breaks: a later test may rely on what the
\* earlier ones found (src/common/wire_protocol.cpp).
THEOREM DatagramsAreJudged == Spec => []VerdictFollowsRules
<1>1. DatagramRead => VerdictFollowsRules
  <2> SUFFICES ASSUME DatagramRead, kind = "datagram", verdict # Unread
               PROVE  IF BrokenRules(input) = {} THEN verdict.error = "None"
                      ELSE verdict.error \in BrokenRules(input)
    BY DEF VerdictFollowsRules
  <2>1. input \in Headers /\ verdict.error = ParseDatagram(input)
    BY DEF DatagramRead
  <2>2. CASE \A i \in 1 .. 11 : ~Tests(input)[i].fails
    <3>1. ParseDatagram(input) = "None"
      BY <2>2, Verdict
    <3> QED
      BY <2>1, <2>2, <3>1, PassedBreaksNone
  <2>3. CASE \E i \in 1 .. 11 : Tests(input)[i].fails
    <3>1. PICK i \in 1 .. 11 : /\ Tests(input)[i].fails
                               /\ \A j \in 1 .. i - 1 : ~Tests(input)[j].fails
                               /\ ParseDatagram(input) = Tests(input)[i].error
      BY <2>3, Verdict
    <3>2. Tests(input)[i].error \in BrokenRules(input)
      BY <2>1, <3>1, FailedNamesBroken
    <3> QED
      BY <2>1, <3>1, <3>2
  <2> QED
    BY <2>2, <2>3
<1> QED
  BY <1>1, ReadInvariant, PTL

-----------------------------------------------------------------------------
(* The folds over lines and arguments.                                     *)

\* One round of the loop over the lines, the --source or the --set arguments.
Round(loop, secs, x) ==
    IF loop = "lines" THEN AddLine(secs, x)
    ELSE IF loop = "sources" THEN AddSource(secs, x) ELSE ApplyOverride(secs, x)

\* r[k] is what the first k rounds over q leave of base.
Rounds(loop, base, q, r) ==
    /\ r[0] = base
    /\ \A k \in 0 .. Len(q) - 1 : r[k + 1] = Round(loop, r[k], q[k + 1])

\* The body of the recursion of a fold from the left.
FoldStep(loop, base, q, g, s) ==
    IF s = {} THEN base ELSE Round(loop, g[s \ {Max(s)}], q[Max(s)])

Folds(loop, base, q, g, n) ==
    g = [s \in SUBSET (1 .. n) |-> FoldStep(loop, base, q, g, s)]

LEMMA MaxIs ==
    ASSUME NEW n \in Nat, NEW s \in SUBSET (1 .. n), s # {}
    PROVE  Max(s) \in s /\ \A i \in s : i <= Max(s)
<1> DEFINE T == {n - i : i \in s}
           Largest(v) == v \in s /\ \A i \in s : v >= i
<1>1. T \in SUBSET Nat /\ T # {}
  <2>1. \A i \in s : n - i \in Nat
    <3>1. \A i \in 1 .. n : n - i \in Nat
      OBVIOUS
    <3> QED
      BY <3>1
  <2> QED
    BY <2>1
<1>2. \E v : Largest(v)
  <2>1. \E t \in T : \A u \in T : t <= u
    <3> HIDE DEF T
    <3> QED
      BY <1>1, LeastElement
  <2>2. PICK t \in T : \A u \in T : t <= u
    BY <2>1
  <2>3. PICK v \in s : t = n - v
    OBVIOUS
  <2>4. ASSUME NEW i \in s PROVE v >= i
    <3>1. n - i \in T /\ i \in Int /\ v \in Int
      OBVIOUS
    <3>2. t <= n - i
      BY <2>2, <3>1
    <3> QED
      BY <2>3, <3>1, <3>2
  <2> QED
    BY <2>4
<1>3. Max(s) = CHOOSE v : Largest(v)
  BY DEF Max
<1>4. Largest(Max(s))
  <2> HIDE DEF Largest
  <2> QED
    BY <1>2, <1>3
<1>5. \A i \in s : i \in Int
  OBVIOUS
<1> QED
  BY <1>4, <1>5

\* The fold is defined.
LEMMA FoldExists ==
    ASSUME NEW loop, NEW base, NEW q, NEW n \in Nat
    PROVE  \E g : Folds(loop, base, q, g, n)
<1> DEFINE T == {k \in Nat : ~ \E g : Folds(loop, base, q, g, k)}
<1>1. ASSUME NEW k \in T, \A j \in T : k <= j PROVE FALSE
  <2>1. k \in Nat /\ ~ \E g : Folds(loop, base, q, g, k)
    OBVIOUS
  <2>2. CASE k = 0
    <3> DEFINE g == [s \in SUBSET (1 .. k) |-> base]
    <3>1. \A s \in SUBSET (1 .. k) : s = {}
      BY <2>2
    <3>2. Folds(loop, base, q, g, k)
      BY <3>1 DEF Folds, FoldStep
    <3> QED
      BY <2>1, <3>2
  <2>3. CASE k # 0
    <3>1. k - 1 \in Nat /\ ~(k <= k - 1)
      BY <2>1, <2>3
    <3>2. k - 1 \notin T
      <4> HIDE DEF T
      <4> QED
        BY <1>1, <3>1
    <3>3. \E h : Folds(loop, base, q, h, k - 1)
      BY <3>1, <3>2
    <3>4. PICK h : Folds(loop, base, q, h, k - 1)
      BY <3>3
    <3> DEFINE g == [s \in SUBSET (1 .. k) |-> FoldStep(loop, base, q, h, s)]
    <3>5. ASSUME NEW s \in SUBSET (1 .. k), s # {}
          PROVE  g[s \ {Max(s)}] = h[s \ {Max(s)}]
      <4> DEFINE t == s \ {Max(s)}
      <4>1. Max(s) \in s /\ \A i \in s : i <= Max(s)
        BY <2>1, <3>5, MaxIs
      <4>2. t \in SUBSET (1 .. k)
        OBVIOUS
      <4>3. ASSUME NEW i \in t PROVE i \in 1 .. k - 1
        <5>1. i \in s /\ i # Max(s) /\ i <= Max(s) /\ Max(s) \in 1 .. k /\ i \in 1 .. k
          BY <4>1
        <5> QED
          BY <2>1, <5>1
      <4>4. t \in SUBSET (1 .. k - 1)
        <5> HIDE DEF t
        <5> QED
          BY <4>3
      <4> HIDE DEF t
      <4>5. g[t] = FoldStep(loop, base, q, h, t)
        BY <4>2
      <4>6. h[t] = FoldStep(loop, base, q, h, t)
        BY <3>4, <4>4, Zenon DEF Folds
      <4> QED
        BY <4>5, <4>6 DEF t
    <3>6. ASSUME NEW s \in SUBSET (1 .. k)
          PROVE  FoldStep(loop, base, q, h, s) = FoldStep(loop, base, q, g, s)
      <4> HIDE DEF g
      <4> QED
        BY <3>5 DEF FoldStep
    <3>7. Folds(loop, base, q, g, k)
      BY <3>6, Zenon DEF Folds
    <3> QED
      BY <2>1, <3>7
  <2> QED
    BY <2>2, <2>3
<1>2. T = {}
  <2> SUFFICES ASSUME T # {} PROVE FALSE
    OBVIOUS
  <2>1. T \in SUBSET Nat
    OBVIOUS
  <2> HIDE DEF T
  <2>2. \E i \in T : \A j \in T : i <= j
    BY <2>1, LeastElement
  <2> QED
    BY <1>1, <2>2
<1> QED
  BY <1>2

\* A fold goes through the rounds.
LEMMA FoldRounds ==
    ASSUME NEW loop, NEW base, NEW q, Len(q) \in Nat, NEW g, Folds(loop, base, q, g, Len(q))
    PROVE  Rounds(loop, base, q, [k \in 0 .. Len(q) |-> g[1 .. k]])
<1> DEFINE n == Len(q)
           r == [k \in 0 .. n |-> g[1 .. k]]
<1>0. \A s \in SUBSET (1 .. n) : g[s] = FoldStep(loop, base, q, g, s)
  BY Zenon DEF Folds
<1>1. r[0] = base
  <2>1. 1 .. 0 = {} /\ 1 .. 0 \in SUBSET (1 .. n) /\ r[0] = g[1 .. 0]
    <3>1. 0 \in 0 .. n /\ 1 .. 0 = {}
      OBVIOUS
    <3> QED
      BY <3>1
  <2>2. g[{}] = FoldStep(loop, base, q, g, {})
    BY <1>0, <2>1
  <2> QED
    BY <2>1, <2>2 DEF FoldStep
<1>2. ASSUME NEW k \in 0 .. n - 1 PROVE r[k + 1] = Round(loop, r[k], q[k + 1])
  <2> DEFINE s == 1 .. k + 1
  <2>1. /\ k \in 0 .. n /\ k + 1 \in 0 .. n /\ s \in SUBSET (1 .. n) /\ s # {}
        /\ k + 1 \in s /\ s \ {k + 1} = 1 .. k
    OBVIOUS
  <2>2. Max(s) = k + 1
    <3>1. Max(s) \in s /\ k + 1 <= Max(s)
      BY <2>1, MaxIs
    <3> QED
      BY <3>1
  <2>3. g[s] = FoldStep(loop, base, q, g, s)
    BY <1>0, <2>1
  <2>4. g[s] = Round(loop, g[1 .. k], q[k + 1])
    <3> HIDE DEF s
    <3> QED
      BY <2>1, <2>2, <2>3 DEF FoldStep
  <2>5. r[k + 1] = g[s] /\ r[k] = g[1 .. k]
    BY <2>1
  <2> QED
    BY <2>4, <2>5
<1> QED
  BY <1>1, <1>2 DEF Rounds

LEMMA LinesFold ==
    ASSUME NEW base, NEW q, DOMAIN q = 1 .. Len(q), Len(q) \in Nat
    PROVE  \E r : Rounds("lines", base, q, r) /\ FoldLeft(AddLine, base, q) = r[Len(q)]
<1> DEFINE n == Len(q)
           G(g) == g = [s \in SUBSET (1 .. n) |->
                           IF s = {} THEN base ELSE AddLine(g[s \ {Max(s)}], q[Max(s)])]
           c == CHOOSE g : G(g)
           r == [k \in 0 .. n |-> c[1 .. k]]
<1>1. \A g : G(g) <=> Folds("lines", base, q, g, n)
  BY Zenon DEF Folds, FoldStep, Round
<1>2. G(c)
  <2>1. \E g : G(g)
    BY <1>1, FoldExists
  <2> HIDE DEF G
  <2> QED
    BY <2>1, Zenon
<1>3. FoldLeft(AddLine, base, q) = c[DOMAIN q]
  BY Zenon DEF FoldLeft, MapThenFoldSet
<1> HIDE DEF c, G
<1>4. Rounds("lines", base, q, r)
  BY <1>1, <1>2, FoldRounds
<1>5. r[n] = c[DOMAIN q]
  OBVIOUS
<1> QED
  BY <1>3, <1>4, <1>5

LEMMA SourcesFold ==
    ASSUME NEW base, NEW q, DOMAIN q = 1 .. Len(q), Len(q) \in Nat
    PROVE  \E r : Rounds("sources", base, q, r) /\ FoldLeft(AddSource, base, q) = r[Len(q)]
<1> DEFINE n == Len(q)
           G(g) == g = [s \in SUBSET (1 .. n) |->
                           IF s = {} THEN base ELSE AddSource(g[s \ {Max(s)}], q[Max(s)])]
           c == CHOOSE g : G(g)
           r == [k \in 0 .. n |-> c[1 .. k]]
<1>1. \A g : G(g) <=> Folds("sources", base, q, g, n)
  BY Zenon DEF Folds, FoldStep, Round
<1>2. G(c)
  <2>1. \E g : G(g)
    BY <1>1, FoldExists
  <2> HIDE DEF G
  <2> QED
    BY <2>1, Zenon
<1>3. FoldLeft(AddSource, base, q) = c[DOMAIN q]
  BY Zenon DEF FoldLeft, MapThenFoldSet
<1> HIDE DEF c, G
<1>4. Rounds("sources", base, q, r)
  BY <1>1, <1>2, FoldRounds
<1>5. r[n] = c[DOMAIN q]
  OBVIOUS
<1> QED
  BY <1>3, <1>4, <1>5

LEMMA OverridesFold ==
    ASSUME NEW base, NEW q, DOMAIN q = 1 .. Len(q), Len(q) \in Nat
    PROVE  \E r : Rounds("overrides", base, q, r) /\ FoldLeft(ApplyOverride, base, q) = r[Len(q)]
<1> DEFINE n == Len(q)
           G(g) == g = [s \in SUBSET (1 .. n) |->
                           IF s = {} THEN base ELSE ApplyOverride(g[s \ {Max(s)}], q[Max(s)])]
           c == CHOOSE g : G(g)
           r == [k \in 0 .. n |-> c[1 .. k]]
<1>1. \A g : G(g) <=> Folds("overrides", base, q, g, n)
  BY Zenon DEF Folds, FoldStep, Round
<1>2. G(c)
  <2>1. \E g : G(g)
    BY <1>1, FoldExists
  <2> HIDE DEF G
  <2> QED
    BY <2>1, Zenon
<1>3. FoldLeft(ApplyOverride, base, q) = c[DOMAIN q]
  BY Zenon DEF FoldLeft, MapThenFoldSet
<1> HIDE DEF c, G
<1>4. Rounds("overrides", base, q, r)
  BY <1>1, <1>2, FoldRounds
<1>5. r[n] = c[DOMAIN q]
  OBVIOUS
<1> QED
  BY <1>3, <1>4, <1>5

-----------------------------------------------------------------------------
(* Sections.                                                               *)

IsSection(x) == x = [name |-> x.name, entries |-> x.entries] /\ IsSequence(x.entries)

AreSections(secs) == IsSequence(secs) /\ \A i \in 1 .. Len(secs) : IsSection(secs[i])

\* ConfigSection::find() returns the last entry with the key.
LEMMA FindIs ==
    ASSUME NEW sec, IsSequence(sec.entries), NEW key
    PROVE  \/ /\ Find(sec, key) = Absent
              /\ \A i \in 1 .. Len(sec.entries) : sec.entries[i].key # key
           \/ \E i \in 1 .. Len(sec.entries) :
                 /\ sec.entries[i].key = key /\ Find(sec, key) = sec.entries[i].value
                 /\ \A j \in 1 .. Len(sec.entries) : sec.entries[j].key = key => j <= i
<1> DEFINE es == sec.entries
           I == {i \in DOMAIN es : es[i].key = key}
           P(i) == i \in I /\ \A j \in I : j <= i
<1>1. Len(es) \in Nat /\ DOMAIN es = 1 .. Len(es)
  BY Sequences
<1>2. CASE I = {}
  <2>1. Find(sec, key) = Absent
    BY <1>2 DEF Find
  <2> QED
    BY <1>1, <1>2, <2>1
<1>3. CASE I # {}
  <2>1. I \in SUBSET (1 .. Len(es))
    BY <1>1
  <2>2. P(Max(I))
    <3> HIDE DEF I
    <3> QED
      BY <1>1, <1>3, <2>1, MaxIs
  <2>3. Find(sec, key) = es[CHOOSE i : P(i)].value
    BY <1>3 DEF Find
  <2>4. P(CHOOSE i : P(i))
    <3>1. \E i : P(i)
      BY <2>2
    <3> HIDE DEF P
    <3> QED
      BY <3>1
  <2>5. PICK i : P(i) /\ Find(sec, key) = es[i].value
    <3> HIDE DEF P
    <3> QED
      BY <2>3, <2>4
  <2> QED
    BY <1>1, <2>5
<1> QED
  BY <1>2, <1>3

HasEntryMore(sec, key, v, sec2) == sec2 = [sec EXCEPT !.entries = Append(@, Entry(key, v))]

\* The new entry is the last with its key; the other keys keep their values.
LEMMA FindAppended ==
    ASSUME NEW sec, IsSection(sec), NEW key, NEW v, NEW sec2,
           HasEntryMore(sec, key, v, sec2)
    PROVE  /\ IsSection(sec2) /\ sec2.name = sec.name
           /\ \A k : Find(sec2, k) = IF k = key THEN v ELSE Find(sec, k)
<1> DEFINE es == sec.entries
           fs == sec2.entries
           n == Len(es)
<1>1. IsSequence(es) /\ sec = [name |-> sec.name, entries |-> es]
  BY DEF IsSection
<1>2. sec2 = [name |-> sec.name, entries |-> Append(es, Entry(key, v))]
  BY <1>1 DEF HasEntryMore
<1>3. sec2.name = sec.name /\ fs = Append(es, Entry(key, v))
  BY <1>2
<1>4. /\ IsSequence(fs) /\ Len(fs) = n + 1 /\ n \in Nat
      /\ \A i \in 1 .. n : fs[i] = es[i]
      /\ fs[n + 1] = Entry(key, v)
  BY <1>1, <1>3, Appended, Sequences
<1>5. IsSection(sec2)
  BY <1>2, <1>3, <1>4 DEF IsSection
<1>6. fs[n + 1].key = key /\ fs[n + 1].value = v
  BY <1>4 DEF Entry
<1> HIDE DEF n
<1>7. ASSUME NEW k PROVE Find(sec2, k) = IF k = key THEN v ELSE Find(sec, k)
  <2>1. \/ Find(sec2, k) = Absent /\ \A i \in 1 .. n + 1 : fs[i].key # k
        \/ \E i \in 1 .. n + 1 : /\ fs[i].key = k /\ Find(sec2, k) = fs[i].value
                                 /\ \A j \in 1 .. n + 1 : fs[j].key = k => j <= i
    <3>1. \/ Find(sec2, k) = Absent /\ \A i \in 1 .. Len(fs) : fs[i].key # k
          \/ \E i \in 1 .. Len(fs) : /\ fs[i].key = k /\ Find(sec2, k) = fs[i].value
                                     /\ \A j \in 1 .. Len(fs) : fs[j].key = k => j <= i
      <4>1. IsSequence(sec2.entries)
        BY <1>4
      <4> QED
        BY <4>1, FindIs
    <3> QED
      BY <1>4, <3>1
  <2>2. \/ Find(sec, k) = Absent /\ \A i \in 1 .. n : es[i].key # k
        \/ \E i \in 1 .. n : /\ es[i].key = k /\ Find(sec, k) = es[i].value
                             /\ \A j \in 1 .. n : es[j].key = k => j <= i
    BY <1>1, FindIs DEF n
  <2>3. n + 1 \in 1 .. n + 1 /\ \A i \in 1 .. n : i \in 1 .. n + 1 /\ fs[i].key = es[i].key
    BY <1>4
  <2>4. \A i \in 1 .. n + 1 : i \in 1 .. n \/ i = n + 1
    BY <1>4
  <2>5. CASE k = key
    <3>1. PICK i \in 1 .. n + 1 : /\ Find(sec2, k) = fs[i].value
                                  /\ \A j \in 1 .. n + 1 : fs[j].key = k => j <= i
      BY <1>6, <2>1, <2>3, <2>5
    <3>2. i = n + 1
      BY <1>4, <1>6, <2>3, <2>5, <3>1
    <3> QED
      BY <1>6, <2>5, <3>1, <3>2
  <2>6. CASE k # key
    <3>1. CASE \A i \in 1 .. n : es[i].key # k
      <4>1. Find(sec, k) = Absent
        BY <2>2, <3>1
      <4>2. \A i \in 1 .. n + 1 : fs[i].key # k
        BY <1>6, <2>3, <2>4, <2>6, <3>1
      <4> QED
        BY <2>1, <2>6, <4>1, <4>2
    <3>2. CASE \E i \in 1 .. n : es[i].key = k
      <4>1. PICK i \in 1 .. n : /\ es[i].key = k /\ Find(sec, k) = es[i].value
                                /\ \A j \in 1 .. n : es[j].key = k => j <= i
        BY <2>2, <3>2
      <4>2. PICK l \in 1 .. n + 1 : /\ fs[l].key = k /\ Find(sec2, k) = fs[l].value
                                    /\ \A j \in 1 .. n + 1 : fs[j].key = k => j <= l
        BY <2>1, <2>3, <4>1
      <4>3. l \in 1 .. n /\ es[l].key = k
        BY <1>6, <2>3, <2>4, <2>6, <4>2
      <4>4. l <= i /\ i <= l
        BY <2>3, <4>1, <4>2, <4>3
      <4>5. l = i /\ fs[l] = es[i]
        BY <1>4, <4>3, <4>4
      <4> QED
        BY <2>6, <4>1, <4>2, <4>5
    <3> QED
      BY <3>1, <3>2
  <2> QED
    BY <2>5, <2>6
<1> QED
  BY <1>3, <1>5, <1>7

\* new is secs with key set to v in section i.
Assigned(secs, i, key, v, new) ==
    /\ AreSections(new) /\ Len(new) = Len(secs)
    /\ \A j \in 1 .. Len(secs) : new[j].name = secs[j].name /\ (j # i => new[j] = secs[j])
    /\ \A k : Find(new[i], k) = IF k = key THEN v ELSE Find(secs[i], k)

LEMMA InSectionIs ==
    ASSUME NEW secs, AreSections(secs), NEW i \in 1 .. Len(secs), NEW key, NEW v
    PROVE  Assigned(secs, i, key, v, InSection(secs, i, Entry(key, v)))
<1> DEFINE new == InSection(secs, i, Entry(key, v))
           n == Len(secs)
           S == {secs[j] : j \in DOMAIN secs} \cup {new[i]}
<1>1. n \in Nat /\ DOMAIN secs = 1 .. n /\ IsSequence(secs)
  BY Sequences DEF AreSections
<1>2. /\ DOMAIN new = 1 .. n
      /\ new[i] = [secs[i] EXCEPT !.entries = Append(@, Entry(key, v))]
      /\ \A j \in 1 .. n : j # i => new[j] = secs[j]
  BY <1>1 DEF InSection
<1>3. /\ IsSection(new[i]) /\ new[i].name = secs[i].name
      /\ \A k : Find(new[i], k) = IF k = key THEN v ELSE Find(secs[i], k)
  <2>1. IsSection(secs[i])
    BY DEF AreSections
  <2> DEFINE a == secs[i]
             b == new[i]
  <2>2. IsSection(a) /\ HasEntryMore(a, key, v, b)
    BY <1>2, <2>1 DEF HasEntryMore
  <2> HIDE DEF a, b
  <2>3. /\ IsSection(b) /\ b.name = a.name
        /\ \A k : Find(b, k) = IF k = key THEN v ELSE Find(a, k)
    BY <2>2, FindAppended
  <2> QED
    BY <2>3, Zenon DEF a, b
<1>4. new = [j \in 1 .. n |-> new[j]]
  BY <1>1 DEF InSection
<1>5. IsSequence(new) /\ Len(new) = n
  <2> DEFINE T == {new[j] : j \in DOMAIN new}
  <2>1. new \in [1 .. n -> T]
    <3> HIDE DEF new
    <3> QED
      BY <1>2, <1>4
  <2>2. new \in Seq(T) /\ Len(new) = n
    <3> HIDE DEF new, T
    <3> QED
      BY <1>1, <1>2, <2>1
  <2> QED
    BY <2>2 DEF IsSequence
<1>6. \A j \in 1 .. n : IsSection(new[j]) /\ new[j].name = secs[j].name
  <2> HIDE DEF new
  <2>1. \A j \in 1 .. n : IsSection(secs[j])
    BY DEF AreSections
  <2> QED
    BY <1>2, <1>3, <2>1
<1> HIDE DEF new
<1> QED
  BY <1>2, <1>3, <1>5, <1>6 DEF AreSections, Assigned, new

LEMMA AppendSection ==
    ASSUME NEW secs, AreSections(secs), NEW x, IsSection(x)
    PROVE  /\ AreSections(Append(secs, x)) /\ Len(Append(secs, x)) = Len(secs) + 1
           /\ \A j \in 1 .. Len(secs) : Append(secs, x)[j] = secs[j]
           /\ Append(secs, x)[Len(secs) + 1] = x
<1>1. IsSequence(secs) /\ Len(secs) \in Nat
  BY Sequences DEF AreSections
<1>2. /\ IsSequence(Append(secs, x)) /\ Len(Append(secs, x)) = Len(secs) + 1
      /\ \A j \in 1 .. Len(secs) : Append(secs, x)[j] = secs[j]
      /\ Append(secs, x)[Len(secs) + 1] = x
  BY <1>1, Appended
<1>3. \A j \in 1 .. Len(secs) + 1 : j \in 1 .. Len(secs) \/ j = Len(secs) + 1
  BY <1>1
<1>4. \A j \in 1 .. Len(secs) : IsSection(secs[j])
  BY DEF AreSections
<1>5. ASSUME NEW j \in 1 .. Len(Append(secs, x)) PROVE IsSection(Append(secs, x)[j])
  BY <1>2, <1>3, <1>4
<1> QED
  BY <1>2, <1>5 DEF AreSections

-----------------------------------------------------------------------------
(* What the lines leave.                                                   *)

\* The lines up to k that assign key in section n.
Assigning(lines, k, n, key) ==
    {i \in 1 .. k : SectionOf(lines, i) = n /\ lines[i].kind = "entry" /\ lines[i].key = key}

LinesInv(lines, secs, k) ==
    /\ AreSections(secs) /\ Len(secs) = SectionOf(lines, k) + 1
    /\ secs[1].name = Empty /\ \A i \in 2 .. Len(secs) : secs[i].name # Empty
    /\ \A n \in 0 .. Len(secs) - 1 : \A key :
          Find(secs[n + 1], key) = LastOf(lines, Assigning(lines, k, n, key))

LEMMA SectionOfIs ==
    ASSUME NEW lines, NEW k \in Nat
    PROVE  /\ SectionOf(lines, k) \in Nat
           /\ k = 0 => SectionOf(lines, k) = 0
           /\ lines[k + 1].kind = "section" => SectionOf(lines, k + 1) = SectionOf(lines, k) + 1
           /\ lines[k + 1].kind # "section" => SectionOf(lines, k + 1) = SectionOf(lines, k)
           /\ \A i \in 1 .. k : SectionOf(lines, i) <= SectionOf(lines, k) /\ SectionOf(lines, i) \in Nat
<1> DEFINE S(m) == {j \in 1 .. m : lines[j].kind = "section"}
<1>1. ASSUME NEW m \in Nat PROVE IsFiniteSet(S(m)) /\ Cardinality(S(m)) \in Nat
  <2>1. IsFiniteSet(1 .. m) /\ S(m) \in SUBSET (1 .. m)
    BY FS_Interval
  <2> HIDE DEF S
  <2> QED
    BY <2>1, FS_Subset, FS_CardinalityType
<1>2. \A m : SectionOf(lines, m) = Cardinality(S(m))
  BY DEF SectionOf
<1>3. ASSUME k = 0 PROVE SectionOf(lines, k) = 0
  <2>1. S(k) = {}
    BY <1>3
  <2> HIDE DEF S
  <2> QED
    BY <1>2, <2>1, FS_EmptySet
<1>4. ASSUME lines[k + 1].kind = "section" PROVE SectionOf(lines, k + 1) = SectionOf(lines, k) + 1
  <2>1. S(k + 1) = S(k) \cup {k + 1} /\ k + 1 \notin S(k)
    BY <1>4
  <2> HIDE DEF S
  <2>2. IsFiniteSet(S(k))
    BY <1>1
  <2>3. Cardinality(S(k) \cup {k + 1}) = Cardinality(S(k)) + 1
    BY <2>1, <2>2, FS_AddElement
  <2> QED
    BY <1>2, <2>1, <2>3
<1>5. ASSUME lines[k + 1].kind # "section" PROVE SectionOf(lines, k + 1) = SectionOf(lines, k)
  <2>1. S(k + 1) = S(k)
    BY <1>5
  <2> HIDE DEF S
  <2> QED
    BY <1>2, <2>1
<1>6. ASSUME NEW i \in 1 .. k
      PROVE  SectionOf(lines, i) <= SectionOf(lines, k) /\ SectionOf(lines, i) \in Nat
  <2>1. S(i) \in SUBSET S(k) /\ i \in Nat
    OBVIOUS
  <2> HIDE DEF S
  <2>2. IsFiniteSet(S(k)) /\ Cardinality(S(i)) \in Nat
    BY <1>1, <2>1
  <2>3. Cardinality(S(i)) <= Cardinality(S(k))
    BY <2>1, <2>2, FS_Subset
  <2> QED
    BY <1>2, <2>2, <2>3
<1> HIDE DEF S
<1> QED
  BY <1>1, <1>2, <1>3, <1>4, <1>5, <1>6

\* The last of some assignments, and of them and a later one.
LEMMA LastOfIs ==
    ASSUME NEW s, NEW k \in Nat, NEW I \in SUBSET (1 .. k)
    PROVE  /\ LastOf(s, {}) = Absent
           /\ LastOf(s, I \cup {k + 1}) = s[k + 1].value
<1>1. I \cup {k + 1} \in SUBSET (1 .. k + 1) /\ I \cup {k + 1} # {} /\ k + 1 \in Nat
  OBVIOUS
<1>2. Max(I \cup {k + 1}) = k + 1
  <2> DEFINE J == I \cup {k + 1}
  <2>1. k + 1 \in J
    OBVIOUS
  <2> HIDE DEF J
  <2>2. Max(J) \in J /\ k + 1 <= Max(J) /\ J \in SUBSET (1 .. k + 1)
    <3>1. J \in SUBSET (1 .. k + 1) /\ J # {}
      BY <1>1 DEF J
    <3> QED
      BY <1>1, <2>1, <3>1, MaxIs
  <2>3. Max(J) = k + 1
    <3>1. Max(J) \in 1 .. k + 1
      BY <2>2
    <3> QED
      BY <2>2, <3>1
  <2> QED
    BY <2>3 DEF J
<1> QED
  BY <1>1, <1>2 DEF LastOf

LEMMA LineStep ==
    ASSUME NEW lines, NEW k \in Nat, NEW secs, LinesInv(lines, secs, k),
           NEW line, line = lines[k + 1], line.kind \in {"section", "entry"},
           line.kind = "section" => line.name # Empty
    PROVE  LinesInv(lines, AddLine(secs, line), k + 1)
<1> DEFINE new == AddLine(secs, line)
           m == Len(secs)
<1>1. /\ AreSections(secs) /\ m = SectionOf(lines, k) + 1 /\ m \in Nat \ {0}
      /\ SectionOf(lines, k) \in Nat
      /\ secs[1].name = Empty /\ \A i \in 2 .. m : secs[i].name # Empty
  BY SectionOfIs DEF LinesInv
<1>2. \A n \in 0 .. m - 1 : \A key : Find(secs[n + 1], key) = LastOf(lines, Assigning(lines, k, n, key))
  BY DEF LinesInv
<1> HIDE DEF m
<1>3. \A n, key : \/ /\ line.kind = "entry" /\ SectionOf(lines, k + 1) = n /\ line.key = key
                     /\ Assigning(lines, k + 1, n, key) = Assigning(lines, k, n, key) \cup {k + 1}
                  \/ /\ ~(line.kind = "entry" /\ SectionOf(lines, k + 1) = n /\ line.key = key)
                     /\ Assigning(lines, k + 1, n, key) = Assigning(lines, k, n, key)
  <2> SUFFICES ASSUME NEW n, NEW key
               PROVE  \/ /\ line.kind = "entry" /\ SectionOf(lines, k + 1) = n /\ line.key = key
                         /\ Assigning(lines, k + 1, n, key) = Assigning(lines, k, n, key) \cup {k + 1}
                      \/ /\ ~(line.kind = "entry" /\ SectionOf(lines, k + 1) = n /\ line.key = key)
                         /\ Assigning(lines, k + 1, n, key) = Assigning(lines, k, n, key)
    OBVIOUS
  <2>1. 1 .. k + 1 = (1 .. k) \cup {k + 1}
    OBVIOUS
  <2> QED
    BY <2>1, Zenon DEF Assigning
<1>4. \A n, key : Assigning(lines, k, n, key) \in SUBSET (1 .. k)
  BY DEF Assigning
<1>5. CASE line.kind = "section"
  <2>1. new = Append(secs, Section(line.name)) /\ SectionOf(lines, k + 1) = m
    BY <1>1, <1>5, SectionOfIs DEF AddLine
  <2>2. IsSection(Section(line.name)) /\ Section(line.name).name = line.name /\ Section(line.name).entries = << >>
    BY Sequences DEF IsSection, Section
  <2>3. /\ AreSections(new) /\ Len(new) = m + 1
        /\ \A j \in 1 .. m : new[j] = secs[j]
        /\ new[m + 1] = Section(line.name)
    BY <1>1, <2>1, <2>2, AppendSection DEF m
  <2> HIDE DEF new
  <2>4. new[1].name = Empty /\ \A i \in 2 .. m + 1 : new[i].name # Empty
    <3>1. 1 \in 1 .. m
      BY <1>1
    <3>2. \A i \in 2 .. m + 1 : (i \in 1 .. m /\ i \in 2 .. m) \/ i = m + 1
      BY <1>1
    <3> QED
      BY <1>1, <1>5, <2>2, <2>3, <3>1, <3>2
  <2>5. ASSUME NEW n \in 0 .. m, NEW key
        PROVE  Find(new[n + 1], key) = LastOf(lines, Assigning(lines, k + 1, n, key))
    <3>1. Assigning(lines, k + 1, n, key) = Assigning(lines, k, n, key)
      BY <1>3, <1>5
    <3>2. CASE n = m
      <4>1. Assigning(lines, k, n, key) = {}
        <5>1. \A i \in 1 .. k : SectionOf(lines, i) <= SectionOf(lines, k) /\ SectionOf(lines, i) \in Nat
          BY SectionOfIs
        <5>2. \A i \in 1 .. k : SectionOf(lines, i) # n
          BY <1>1, <3>2, <5>1
        <5> QED
          BY <5>2 DEF Assigning
      <4>2. Find(new[n + 1], key) = Absent
        BY <2>2, <2>3, <3>2 DEF Find
      <4>3. LastOf(lines, {}) = Absent
        BY DEF LastOf
      <4> QED
        BY <3>1, <4>1, <4>2, <4>3
    <3>3. CASE n # m
      <4>1. n \in 0 .. m - 1 /\ n + 1 \in 1 .. m
        BY <1>1, <3>3
      <4> QED
        BY <1>2, <2>3, <3>1, <4>1
    <3> QED
      BY <3>2, <3>3
  <2>6. Len(new) - 1 = m /\ Len(new) = SectionOf(lines, k + 1) + 1
    BY <1>1, <2>1, <2>3
  <2> QED
    BY <2>3, <2>4, <2>5, <2>6 DEF LinesInv, new
<1>6. CASE line.kind = "entry"
  <2>1. new = InSection(secs, m, Entry(line.key, line.value)) /\ SectionOf(lines, k + 1) = m - 1
    BY <1>1, <1>6, SectionOfIs DEF AddLine, m
  <2>2. /\ AreSections(new) /\ Len(new) = m
        /\ \A j \in 1 .. m : new[j].name = secs[j].name /\ (j # m => new[j] = secs[j])
        /\ \A l : Find(new[m], l) = IF l = line.key THEN line.value ELSE Find(secs[m], l)
    <3>1. m \in 1 .. Len(secs)
      BY <1>1 DEF m
    <3>2. Assigned(secs, m, line.key, line.value, new)
      BY <1>1, <2>1, <3>1, InSectionIs
    <3> QED
      BY <3>2 DEF Assigned, m
  <2> HIDE DEF new
  <2>3. new[1].name = Empty /\ \A i \in 2 .. m : new[i].name # Empty
    BY <1>1, <2>2
  <2>4. ASSUME NEW n \in 0 .. m - 1, NEW key
        PROVE  Find(new[n + 1], key) = LastOf(lines, Assigning(lines, k + 1, n, key))
    <3>1. Find(secs[n + 1], key) = LastOf(lines, Assigning(lines, k, n, key))
      BY <1>2
    <3>2. CASE n = m - 1 /\ key = line.key
      <4>1. Assigning(lines, k + 1, n, key) = Assigning(lines, k, n, key) \cup {k + 1}
        BY <1>3, <1>6, <2>1, <3>2
      <4>2. Assigning(lines, k, n, key) \in SUBSET (1 .. k)
        BY <1>4
      <4>3. LastOf(lines, Assigning(lines, k + 1, n, key)) = line.value
        BY <4>1, <4>2, LastOfIs
      <4>4. n + 1 = m
        BY <1>1, <3>2
      <4> QED
        BY <2>2, <3>2, <4>3, <4>4
    <3>3. CASE n # m - 1
      <4>1. Assigning(lines, k + 1, n, key) = Assigning(lines, k, n, key)
        BY <1>3, <2>1, <3>3
      <4>2. n + 1 \in 1 .. m /\ n + 1 # m
        BY <1>1, <3>3
      <4> QED
        BY <2>2, <3>1, <4>1, <4>2
    <3>4. CASE n = m - 1 /\ key # line.key
      <4>1. Assigning(lines, k + 1, n, key) = Assigning(lines, k, n, key)
        BY <1>3, <3>4
      <4>2. n + 1 = m
        BY <1>1, <3>4
      <4> QED
        BY <2>2, <3>1, <3>4, <4>1, <4>2
    <3> QED
      BY <3>2, <3>3, <3>4
  <2>5. Len(new) = SectionOf(lines, k + 1) + 1
    BY <1>1, <2>1, <2>2
  <2> QED
    BY <2>2, <2>3, <2>4, <2>5 DEF LinesInv, new
<1> QED
  BY <1>5, <1>6

\* A file without a syntax error.
GoodLines(lines) ==
    /\ Len(lines) \in Nat /\ DOMAIN lines = 1 .. Len(lines)
    /\ \A i \in 1 .. Len(lines) : /\ lines[i].kind \in {"section", "entry"}
                                  /\ lines[i].kind = "section" => lines[i].name # Empty

LEMMA LinesLeave ==
    ASSUME NEW lines, GoodLines(lines)
    PROVE  LinesInv(lines, ParseConfigText(lines), Len(lines))
<1> DEFINE n == Len(lines)
           base == <<Section(Empty)>>
<1>1. n \in Nat /\ DOMAIN lines = 1 .. n
  BY DEF GoodLines
<1>2. PICK r : Rounds("lines", base, lines, r) /\ FoldLeft(AddLine, base, lines) = r[n]
  BY <1>1, LinesFold
<1>3. ParseConfigText(lines) = r[n]
  <2>1. ~ \E i \in DOMAIN lines : lines[i].kind = "bad"
    BY <1>1 DEF GoodLines
  <2> QED
    BY <1>2, <2>1 DEF ParseConfigText
<1>4. LinesInv(lines, base, 0)
  <2>1. IsSection(Section(Empty)) /\ Section(Empty).name = Empty /\ Section(Empty).entries = << >>
    BY Sequences DEF IsSection, Section
  <2>2. ASSUME NEW key PROVE Find(Section(Empty), key) = Absent
    BY <2>1 DEF Find
  <2>3. SectionOf(lines, 0) = 0
    BY SectionOfIs
  <2>4. \A m, key : Assigning(lines, 0, m, key) = {} /\ LastOf(lines, {}) = Absent
    BY DEF Assigning, LastOf
  <2> DEFINE x == Section(Empty)
             y == <<x>>
  <2> HIDE DEF x
  <2>5. y \in Seq({y[i] : i \in DOMAIN y}) /\ Len(y) = 1 /\ y[1] = x
    OBVIOUS
  <2>6. IsSequence(y)
    BY <2>5 DEF IsSequence
  <2>7. IsSection(x) /\ x.name = Empty /\ \A key : Find(x, key) = Absent
    BY <2>1, <2>2 DEF x
  <2> HIDE DEF y
  <2>8. AreSections(y)
    <3>1. \A i \in 1 .. Len(y) : y[i] = x
      BY <2>5
    <3> QED
      BY <2>6, <2>7, <3>1 DEF AreSections
  <2>9. y[1].name = Empty /\ \A i \in 2 .. Len(y) : y[i].name # Empty
    BY <2>5, <2>7
  <2>10. ASSUME NEW m \in 0 .. Len(y) - 1, NEW key
         PROVE  Find(y[m + 1], key) = LastOf(lines, Assigning(lines, 0, m, key))
    <3>1. y[m + 1] = x
      BY <2>5
    <3> QED
      BY <2>4, <2>7, <3>1
  <2>11. LinesInv(lines, y, 0)
    <3>1. Len(y) = SectionOf(lines, 0) + 1
      BY <2>3, <2>5
    <3> QED
      BY <2>8, <2>9, <2>10, <3>1 DEF LinesInv
  <2> QED
    BY <2>11 DEF x, y
<1> DEFINE G == {k \in 0 .. n : LinesInv(lines, r[k], k)}
<1>5. 0 \in G
  BY <1>1, <1>2, <1>4 DEF Rounds
<1>6. ASSUME NEW k \in 0 .. n - 1, k \in G PROVE k + 1 \in G
  <2>1. LinesInv(lines, r[k], k) /\ k \in Nat /\ k + 1 \in 1 .. n
    BY <1>6
  <2>2. r[k + 1] = AddLine(r[k], lines[k + 1])
    BY <1>2 DEF Rounds, Round
  <2>3. /\ lines[k + 1].kind \in {"section", "entry"}
        /\ lines[k + 1].kind = "section" => lines[k + 1].name # Empty
    BY <2>1 DEF GoodLines
  <2>4. LinesInv(lines, AddLine(r[k], lines[k + 1]), k + 1)
    <3> DEFINE secs == r[k]
    <3> HIDE DEF secs, G, n
    <3>1. LinesInv(lines, secs, k)
      BY <2>1 DEF secs
    <3>2. LinesInv(lines, AddLine(secs, lines[k + 1]), k + 1)
      BY <2>1, <2>3, <3>1, LineStep
    <3> QED
      BY <3>2 DEF secs
  <2> QED
    BY <2>1, <2>2, <2>4
<1>7. n \in G
  <2> HIDE DEF G
  <2> QED
    BY <1>1, <1>5, <1>6, StepByStep
<1> QED
  BY <1>3, <1>7

-----------------------------------------------------------------------------
(* What the --source arguments leave.                                      *)

\* Once there is an error it stays.
LEMMA BadStays ==
    ASSUME NEW q, Len(q) \in Nat, NEW loop \in {"sources", "overrides"}, NEW r, Rounds(loop, Bad, q, r)
    PROVE  r[Len(q)] = Bad
<1> DEFINE n == Len(q)
           G == {k \in 0 .. n : r[k] = Bad}
<1>1. 0 \in G
  BY DEF Rounds
<1>2. ASSUME NEW k \in 0 .. n - 1, k \in G PROVE k + 1 \in G
  <2>1. r[k + 1] = Round(loop, Bad, q[k + 1]) /\ k + 1 \in 0 .. n
    BY <1>2 DEF Rounds
  <2>2. AddSource(Bad, q[k + 1]) = Bad /\ ApplyOverride(Bad, q[k + 1]) = Bad
    BY DEF AddSource, ApplyOverride
  <2> QED
    BY <2>1, <2>2 DEF Round
<1>3. n \in G
  <2> HIDE DEF G
  <2> QED
    BY <1>1, <1>2, StepByStep
<1> QED
  BY <1>3

\* k sections behind those of the file, each a source without recv_hwm.
SourcesInv(base, secs, k) ==
    /\ AreSections(secs) /\ Len(secs) = Len(base) + k
    /\ \A j \in 1 .. Len(base) : secs[j] = base[j]
    /\ \A j \in 1 .. k : /\ secs[Len(base) + j].name = "source"
                         /\ Find(secs[Len(base) + j], "recv_hwm") = Absent

LEMMA SourceIs ==
    ASSUME NEW secs, secs # Bad, NEW s, AddSource(secs, s) # Bad
    PROVE  \E x : /\ AddSource(secs, s) = Append(secs, x)
                  /\ IsSection(x) /\ x.name = "source" /\ Find(x, "recv_hwm") = Absent
<1> DEFINE a == Entry("id", s.id)
           b == Entry("endpoint", s.endpoint)
           c == Entry("filter", s.filter)
           t == IF s.filter = Absent THEN << >> ELSE <<c>>
           es == <<a, b>> \o t
           x == [name |-> "source", entries |-> es]
<1>1. AddSource(secs, s) = Append(secs, x)
  BY DEF AddSource
<1>2. a.key # "recv_hwm" /\ b.key # "recv_hwm" /\ c.key # "recv_hwm"
  BY DEF Entry
<1> HIDE DEF a, b, c
<1>3. <<a, b>> \in Seq({a, b, c}) /\ t \in Seq({a, b, c})
  OBVIOUS
<1>4. es \in Seq({a, b, c})
  BY <1>3, ConcatProperties
<1>5. \A i \in 1 .. Len(es) : es[i] \in {a, b, c}
  BY <1>4
<1>6. IsSequence(es)
  <2> HIDE DEF es
  <2>1. es \in Seq({es[i] : i \in DOMAIN es})
    BY <1>4
  <2> QED
    BY <2>1 DEF IsSequence
<1> HIDE DEF es
<1>7. IsSequence(es) /\ \A i \in 1 .. Len(es) : es[i].key # "recv_hwm"
  BY <1>2, <1>5, <1>6
<1>8. x = [name |-> x.name, entries |-> x.entries] /\ x.name = "source" /\ x.entries = es
  OBVIOUS
<1> HIDE DEF x
<1>9. IsSection(x)
  BY <1>7, <1>8 DEF IsSection
<1>10. Find(x, "recv_hwm") = Absent
  <2>1. \/ Find(x, "recv_hwm") = Absent
        \/ \E i \in 1 .. Len(x.entries) : x.entries[i].key = "recv_hwm"
    BY <1>7, <1>8, FindIs
  <2> QED
    BY <1>7, <1>8, <2>1
<1> QED
  BY <1>1, <1>8, <1>9, <1>10

LEMMA SourcesLeave ==
    ASSUME NEW base, AreSections(base), base # Bad,
           NEW q, Len(q) \in Nat, DOMAIN q = 1 .. Len(q), FoldLeft(AddSource, base, q) # Bad
    PROVE  SourcesInv(base, FoldLeft(AddSource, base, q), Len(q))
<1> DEFINE n == Len(q)
<1>1. PICK r : Rounds("sources", base, q, r) /\ FoldLeft(AddSource, base, q) = r[n]
  BY SourcesFold
<1>2. Len(base) \in Nat /\ Len(base) # 0
  <2>1. base \in Seq({base[j] : j \in DOMAIN base})
    BY DEF AreSections, IsSequence
  <2> QED
    BY <2>1 DEF Bad
<1>3. SourcesInv(base, base, 0)
  BY <1>2 DEF SourcesInv
<1> DEFINE Inv(k) == r[k] = Bad \/ SourcesInv(base, r[k], k)
           G == {k \in 0 .. n : Inv(k)}
<1>4. 0 \in G
  BY <1>1, <1>3 DEF Rounds
<1>5. ASSUME NEW l \in 0 .. n - 1, l \in G PROVE l + 1 \in G
  <2> SUFFICES ASSUME r[l + 1] # Bad PROVE SourcesInv(base, r[l + 1], l + 1)
    OBVIOUS
  <2>1. r[l + 1] = AddSource(r[l], q[l + 1])
    BY <1>1 DEF Rounds, Round
  <2>2. r[l] # Bad
    BY <2>1 DEF AddSource
  <2>3. SourcesInv(base, r[l], l)
    BY <1>5, <2>2
  <2>4. PICK x : /\ r[l + 1] = Append(r[l], x)
                 /\ IsSection(x) /\ x.name = "source" /\ Find(x, "recv_hwm") = Absent
    BY <2>1, <2>2, SourceIs
  <2>5. PICK k : k = l + 1
    OBVIOUS
  <2> DEFINE old == r[l]
             new == r[l + 1]
  <2>6. l \in Nat
    OBVIOUS
  <2>7. /\ AreSections(old) /\ Len(old) = Len(base) + l
        /\ \A j \in 1 .. Len(base) : old[j] = base[j]
        /\ \A j \in 1 .. l : /\ old[Len(base) + j].name = "source"
                             /\ Find(old[Len(base) + j], "recv_hwm") = Absent
    BY <2>3 DEF SourcesInv
  <2>8. new = Append(old, x)
    BY <2>4
  <2> HIDE DEF old, new
  <2>9. /\ AreSections(new) /\ Len(new) = Len(old) + 1
        /\ \A j \in 1 .. Len(old) : new[j] = old[j]
        /\ new[Len(old) + 1] = x
    BY <2>4, <2>7, <2>8, AppendSection
  <2>10. \A j \in 1 .. Len(base) : new[j] = base[j]
    BY <1>2, <2>6, <2>7, <2>9
  <2>11. ASSUME NEW j \in 1 .. k
         PROVE  new[Len(base) + j].name = "source" /\ Find(new[Len(base) + j], "recv_hwm") = Absent
    <3>1. CASE j = k
      <4>1. Len(base) + j = Len(old) + 1
        BY <1>2, <2>5, <2>6, <2>7, <3>1
      <4> QED
        BY <2>4, <2>9, <4>1
    <3>2. CASE j # k
      <4>1. j \in 1 .. l /\ Len(base) + j \in 1 .. Len(old)
        BY <1>2, <2>5, <2>6, <2>7, <3>2
      <4> QED
        BY <2>7, <2>9, <4>1
    <3> QED
      BY <3>1, <3>2
  <2>12. SourcesInv(base, new, k)
    BY <1>2, <2>5, <2>6, <2>7, <2>9, <2>10, <2>11 DEF SourcesInv
  <2> QED
    BY <2>5, <2>12 DEF new
<1>6. n \in G
  <2> HIDE DEF G
  <2> QED
    BY <1>4, <1>5, StepByStep
<1> QED
  BY <1>1, <1>6

-----------------------------------------------------------------------------
(* What the --set arguments leave.                                         *)

LEMMA TargetIs ==
    ASSUME NEW secs, AreSections(secs), NEW name
    PROVE  \/ /\ Target(secs, name) = 0
              /\ \A i \in 1 .. Len(secs) : secs[i].name # name
           \/ /\ Target(secs, name) \in 1 .. Len(secs)
              /\ secs[Target(secs, name)].name = name
              /\ \A i \in 1 .. Len(secs) : secs[i].name = name => i <= Target(secs, name)
<1> DEFINE I == {i \in DOMAIN secs : secs[i].name = name}
           P(i) == i \in I /\ \A j \in I : j <= i
<1>1. Len(secs) \in Nat /\ DOMAIN secs = 1 .. Len(secs)
  BY Sequences DEF AreSections
<1>2. CASE I = {}
  <2>1. Target(secs, name) = 0
    BY <1>2 DEF Target
  <2> QED
    BY <1>1, <1>2, <2>1
<1>3. CASE I # {}
  <2>1. I \in SUBSET (1 .. Len(secs))
    BY <1>1
  <2>2. P(Max(I))
    <3> HIDE DEF I
    <3> QED
      BY <1>1, <1>3, <2>1, MaxIs
  <2>3. Target(secs, name) = CHOOSE i : P(i)
    BY <1>3 DEF Target
  <2>4. P(CHOOSE i : P(i))
    <3>1. \E i : P(i)
      BY <2>2
    <3> HIDE DEF P
    <3> QED
      BY <3>1
  <2>5. P(Target(secs, name))
    <3> HIDE DEF P
    <3> QED
      BY <2>3, <2>4
  <2> QED
    BY <1>1, <2>5
<1> QED
  BY <1>2, <1>3

SameNames(secs, base) ==
    Len(secs) = Len(base) /\ \A j \in 1 .. Len(base) : secs[j].name = base[j].name

\* The target is a matter of the names.
LEMMA TargetSame ==
    ASSUME NEW base, AreSections(base), NEW secs, AreSections(secs), SameNames(secs, base), NEW o
    PROVE  GoesTo(secs, o) = GoesTo(base, o)
<1> DEFINE I(t) == {i \in DOMAIN t : t[i].name = o.section}
<1>1. /\ DOMAIN secs = 1 .. Len(secs) /\ DOMAIN base = 1 .. Len(base)
      /\ Len(secs) = Len(base) /\ \A j \in 1 .. Len(base) : secs[j].name = base[j].name
  BY Sequences DEF AreSections, SameNames
<1>2. I(secs) = I(base)
  BY <1>1
<1>3. \A t : Target(t, o.section) = IF I(t) = {} THEN 0 ELSE CHOOSE i \in I(t) : \A j \in I(t) : j <= i
  BY Zenon DEF Target
<1> HIDE DEF I
<1>4. Target(secs, o.section) = Target(base, o.section)
  BY <1>2, <1>3
<1> QED
  BY <1>4 DEF GoesTo

\* The arguments up to k that assign key in section n.
Setting(base, q, k, n, key) == {i \in 1 .. k : GoesTo(base, q[i]) = n /\ q[i].key = key}

OverInv(base, q, secs, k) ==
    /\ AreSections(secs) /\ SameNames(secs, base)
    /\ \A i \in 1 .. k : q[i].kind # "bad" /\ GoesTo(base, q[i]) \in 1 .. Len(base)
    /\ \A n \in 1 .. Len(base) : \A key :
          Find(secs[n], key) = IF Setting(base, q, k, n, key) = {} THEN Find(base[n], key)
                               ELSE LastOf(q, Setting(base, q, k, n, key))

LEMMA OverrideStep ==
    ASSUME NEW base, AreSections(base), base # Bad, NEW q, NEW k \in Nat, NEW secs,
           OverInv(base, q, secs, k), ApplyOverride(secs, q[k + 1]) # Bad
    PROVE  OverInv(base, q, ApplyOverride(secs, q[k + 1]), k + 1)
<1> DEFINE o == q[k + 1]
           new == ApplyOverride(secs, o)
           at == GoesTo(base, o)
           m == Len(base)
<1>1. /\ AreSections(secs) /\ SameNames(secs, base)
      /\ Len(secs) = m /\ \A j \in 1 .. m : secs[j].name = base[j].name
  BY DEF OverInv, SameNames
<1>2. \A n \in 1 .. m : \A key :
          Find(secs[n], key) = IF Setting(base, q, k, n, key) = {} THEN Find(base[n], key)
                               ELSE LastOf(q, Setting(base, q, k, n, key))
  BY DEF OverInv
<1>3. GoesTo(secs, o) = at
  BY <1>1, TargetSame
<1>4. m \in Nat \ {0}
  <2>1. base \in Seq({base[j] : j \in DOMAIN base})
    BY DEF AreSections, IsSequence
  <2> QED
    BY <2>1 DEF Bad
<1>5. /\ secs # Bad /\ o.kind # "bad" /\ at # 0
      /\ new = InSection(secs, at, Entry(o.key, o.value))
  BY <1>3 DEF ApplyOverride
<1>6. at \in 1 .. m
  <2>1. CASE o.kind = "entry"
    BY <1>4, <2>1 DEF GoesTo
  <2>2. CASE o.kind # "entry"
    <3>1. at = Target(base, o.section)
      BY <2>2 DEF GoesTo
    <3>2. at = 0 \/ at \in 1 .. m
      <4> HIDE DEF at, m
      <4>1. Target(base, o.section) = 0 \/ Target(base, o.section) \in 1 .. m
        BY TargetIs DEF m
      <4> QED
        BY <3>1, <4>1
    <3> QED
      BY <1>5, <3>2
  <2> QED
    BY <2>1, <2>2
<1> HIDE DEF at, m, new
<1>7. /\ AreSections(new) /\ Len(new) = m
      /\ \A j \in 1 .. m : new[j].name = base[j].name /\ (j # at => new[j] = secs[j])
      /\ \A l : Find(new[at], l) = IF l = o.key THEN o.value ELSE Find(secs[at], l)
  <2>1. at \in 1 .. Len(secs)
    BY <1>1, <1>6
  <2>2. Assigned(secs, at, o.key, o.value, new)
    BY <1>1, <1>5, <2>1, InSectionIs
  <2> QED
    BY <1>1, <2>2 DEF Assigned
<1>8. \A n, key : \/ /\ at = n /\ o.key = key
                     /\ Setting(base, q, k + 1, n, key) = Setting(base, q, k, n, key) \cup {k + 1}
                  \/ /\ ~(at = n /\ o.key = key)
                     /\ Setting(base, q, k + 1, n, key) = Setting(base, q, k, n, key)
  <2> SUFFICES ASSUME NEW n, NEW key
               PROVE  \/ /\ at = n /\ o.key = key
                         /\ Setting(base, q, k + 1, n, key) = Setting(base, q, k, n, key) \cup {k + 1}
                      \/ /\ ~(at = n /\ o.key = key)
                         /\ Setting(base, q, k + 1, n, key) = Setting(base, q, k, n, key)
    OBVIOUS
  <2>1. 1 .. k + 1 = (1 .. k) \cup {k + 1}
    OBVIOUS
  <2> QED
    BY <2>1, Zenon DEF Setting, at
<1>9. ASSUME NEW n \in 1 .. m, NEW key
      PROVE  Find(new[n], key) = IF Setting(base, q, k + 1, n, key) = {} THEN Find(base[n], key)
                                 ELSE LastOf(q, Setting(base, q, k + 1, n, key))
  <2>1. CASE at = n /\ o.key = key
    <3>1. Setting(base, q, k + 1, n, key) = Setting(base, q, k, n, key) \cup {k + 1}
      BY <1>8, <2>1
    <3>2. Setting(base, q, k, n, key) \in SUBSET (1 .. k)
      BY DEF Setting
    <3>3. LastOf(q, Setting(base, q, k + 1, n, key)) = o.value
      BY <3>1, <3>2, LastOfIs
    <3> QED
      BY <1>7, <2>1, <3>1, <3>3
  <2>2. CASE ~(at = n /\ o.key = key)
    <3>1. Setting(base, q, k + 1, n, key) = Setting(base, q, k, n, key)
      BY <1>8, <2>2
    <3>2. Find(new[n], key) = Find(secs[n], key)
      BY <1>7, <2>2
    <3> QED
      BY <1>2, <3>1, <3>2
  <2> QED
    BY <2>1, <2>2
<1>10. \A i \in 1 .. k + 1 : q[i].kind # "bad" /\ GoesTo(base, q[i]) \in 1 .. m
  <2>1. \A i \in 1 .. k : q[i].kind # "bad" /\ GoesTo(base, q[i]) \in 1 .. m
    BY DEF OverInv, m
  <2>2. \A i \in 1 .. k + 1 : i \in 1 .. k \/ i = k + 1
    OBVIOUS
  <2> QED
    BY <1>5, <1>6, <2>1, <2>2 DEF at
<1>11. SameNames(new, base)
  BY <1>7 DEF SameNames, m
<1> QED
  BY <1>7, <1>9, <1>10, <1>11 DEF OverInv, new, m

LEMMA OverridesLeave ==
    ASSUME NEW base, AreSections(base), base # Bad,
           NEW q, Len(q) \in Nat, DOMAIN q = 1 .. Len(q), FoldLeft(ApplyOverride, base, q) # Bad
    PROVE  OverInv(base, q, FoldLeft(ApplyOverride, base, q), Len(q))
<1> DEFINE n == Len(q)
<1>1. PICK r : Rounds("overrides", base, q, r) /\ FoldLeft(ApplyOverride, base, q) = r[n]
  BY OverridesFold
<1>2. OverInv(base, q, base, 0)
  <2>1. \A j, key : Setting(base, q, 0, j, key) = {}
    BY DEF Setting
  <2>2. SameNames(base, base)
    BY DEF SameNames
  <2> QED
    BY <2>1, <2>2 DEF OverInv
<1> DEFINE Inv(k) == r[k] = Bad \/ OverInv(base, q, r[k], k)
           G == {k \in 0 .. n : Inv(k)}
<1>3. 0 \in G
  BY <1>1, <1>2 DEF Rounds
<1>4. ASSUME NEW l \in 0 .. n - 1, l \in G PROVE l + 1 \in G
  <2> SUFFICES ASSUME r[l + 1] # Bad PROVE OverInv(base, q, r[l + 1], l + 1)
    OBVIOUS
  <2>1. r[l + 1] = ApplyOverride(r[l], q[l + 1]) /\ l \in Nat
    BY <1>1 DEF Rounds, Round
  <2>2. r[l] # Bad
    BY <2>1 DEF ApplyOverride
  <2> DEFINE old == r[l]
  <2>3. OverInv(base, q, old, l) /\ ApplyOverride(old, q[l + 1]) # Bad
    BY <1>4, <2>1, <2>2
  <2> HIDE DEF old
  <2>4. OverInv(base, q, ApplyOverride(old, q[l + 1]), l + 1)
    BY <2>1, <2>3, OverrideStep
  <2> QED
    BY <2>1, <2>4 DEF old
<1>5. n \in G
  <2> HIDE DEF G
  <2> QED
    BY <1>3, <1>4, StepByStep
<1> QED
  BY <1>1, <1>5

-----------------------------------------------------------------------------
(* What a configuration that was gathered says.                            *)

Else(first, second) == IF first # Absent THEN first ELSE second

\* secs is made of what the file and the arguments of s say.
Tells(s, secs) ==
    /\ AreSections(secs) /\ Len(secs) \in Nat \ {0}
    /\ secs[1].name = Empty /\ \A j \in 2 .. Len(secs) : secs[j].name # Empty
    /\ \A key : Find(secs[1], key) = Else(Overriding(s.overrides, Empty, key), InFile(s.lines, 0, key))
    /\ (\A j \in 2 .. Len(secs) : secs[j].name = "source") =>
          \A j \in 2 .. Len(secs) :
              Find(secs[j], "recv_hwm") =
                  Else(IF j = Len(secs) THEN Overriding(s.overrides, "source", "recv_hwm") ELSE Absent,
                       InFile(s.lines, j - 1, "recv_hwm"))

LEMMA StartIs ==
    ASSUME NEW s \in Starts
    PROVE  /\ DOMAIN s.lines = 1 .. Len(s.lines) /\ Len(s.lines) \in Nat
           /\ DOMAIN s.sources = 1 .. Len(s.sources) /\ Len(s.sources) \in Nat
           /\ DOMAIN s.overrides = 1 .. Len(s.overrides) /\ Len(s.overrides) \in Nat
           /\ \A i \in 1 .. Len(s.lines) : /\ s.lines[i].kind \in {"section", "entry", "bad"}
                                           /\ s.lines[i].kind = "section" => s.lines[i].name # Empty
           /\ \A i \in 1 .. Len(s.overrides) :
                 /\ s.overrides[i].kind \in {"entry", "dotted", "bad"}
                 /\ s.overrides[i].kind # "bad" => IsText(s.overrides[i].value)
<1> DEFINE a == s.lines
           b == s.sources
           c == s.overrides
<1>1. /\ a \in Seq(ToSet(a)) /\ b \in Seq(ToSet(b)) /\ c \in Seq(ToSet(c))
      /\ \A l \in ToSet(a) : /\ l.kind \in {"section", "entry", "bad"}
                             /\ l.kind = "section" => l.name # Empty
      /\ \A o \in ToSet(c) : /\ o.kind \in {"entry", "dotted", "bad"}
                             /\ o.kind # "bad" => IsText(o.value)
  BY StartAssumption
<1> HIDE DEF a, b, c
<1>2. /\ DOMAIN a = 1 .. Len(a) /\ Len(a) \in Nat
      /\ DOMAIN b = 1 .. Len(b) /\ Len(b) \in Nat
      /\ DOMAIN c = 1 .. Len(c) /\ Len(c) \in Nat
  BY <1>1
<1>3. (\A i \in 1 .. Len(a) : a[i] \in ToSet(a)) /\ (\A i \in 1 .. Len(c) : c[i] \in ToSet(c))
  BY <1>2 DEF ToSet
<1> QED
  BY <1>1, <1>2, <1>3 DEF a, b, c

\* A --set argument has a value.
LEMMA SetIsText ==
    ASSUME NEW s \in Starts, NEW I, I \in SUBSET (1 .. Len(s.overrides)), I # {},
           \A i \in I : s.overrides[i].kind # "bad"
    PROVE  LastOf(s.overrides, I) # Absent
<1>1. Max(I) \in I
  BY StartIs, MaxIs
<1>2. IsText(s.overrides[Max(I)].value)
  BY <1>1, StartIs
<1>3. ~IsText(Absent)
  BY DEF IsText, Absent
<1> QED
  BY <1>2, <1>3 DEF LastOf

LEMMA GatheredTells ==
    ASSUME NEW s \in Starts, Gathered(s.lines, s.sources, s.overrides) # Bad
    PROVE  Tells(s, Gathered(s.lines, s.sources, s.overrides))
<1> DEFINE lines == s.lines
           sources == s.sources
           overrides == s.overrides
           file == ParseConfigText(lines)
           base == FoldLeft(AddSource, file, sources)
           secs == FoldLeft(ApplyOverride, base, overrides)
<1>1. secs # Bad /\ secs = Gathered(s.lines, s.sources, s.overrides)
  BY DEF Gathered
<1>2. base # Bad
  <2> SUFFICES ASSUME base = Bad PROVE secs = Bad
    BY <1>1
  <2>1. PICK r : Rounds("overrides", base, overrides, r) /\ secs = r[Len(overrides)]
    <3> HIDE DEF base
    <3> QED
      BY StartIs, OverridesFold
  <2>2. Rounds("overrides", Bad, overrides, r)
    BY <2>1
  <2>3. r[Len(overrides)] = Bad
    BY <2>2, StartIs, BadStays
  <2> QED
    BY <2>1, <2>3
<1>3. file # Bad
  <2> SUFFICES ASSUME file = Bad PROVE base = Bad
    BY <1>2
  <2>1. PICK r : Rounds("sources", file, sources, r) /\ base = r[Len(sources)]
    <3> HIDE DEF file
    <3> QED
      BY StartIs, SourcesFold
  <2>2. Rounds("sources", Bad, sources, r)
    BY <2>1
  <2>3. r[Len(sources)] = Bad
    BY <2>2, StartIs, BadStays
  <2> QED
    BY <2>1, <2>3
<1> DEFINE k == Len(lines)
           m == Len(file)
           p == Len(sources)
           q == Len(overrides)
<1>4. LinesInv(lines, file, k) /\ k \in Nat
  <2>1. ~ \E i \in DOMAIN lines : lines[i].kind = "bad"
    BY <1>3 DEF ParseConfigText
  <2>2. GoodLines(lines)
    BY <2>1, StartIs DEF GoodLines
  <2> QED
    BY <2>2, LinesLeave, StartIs
<1>5. /\ AreSections(file) /\ m = SectionOf(lines, k) + 1 /\ m \in Nat \ {0}
      /\ file[1].name = Empty /\ \A i \in 2 .. m : file[i].name # Empty
      /\ \A n \in 0 .. m - 1 : \A key : Find(file[n + 1], key) = LastOf(lines, Assigning(lines, k, n, key))
  <2> HIDE DEF file, lines
  <2> QED
    BY <1>4, SectionOfIs DEF LinesInv
<1>6. SourcesInv(file, base, p) /\ p \in Nat
  <2>1. p \in Nat /\ DOMAIN sources = 1 .. p
    BY StartIs
  <2>2. AreSections(file) /\ file # Bad /\ base # Bad
    BY <1>2, <1>3, <1>5
  <2> HIDE DEF file, sources
  <2> QED
    BY <2>1, <2>2, SourcesLeave
<1> HIDE DEF file
<1>7. /\ AreSections(base) /\ Len(base) = m + p
      /\ \A j \in 1 .. m : base[j] = file[j]
      /\ \A j \in 1 .. p : base[m + j].name = "source" /\ Find(base[m + j], "recv_hwm") = Absent
  BY <1>6 DEF SourcesInv
<1>8. OverInv(base, overrides, secs, q) /\ q \in Nat
  <2>1. q \in Nat /\ DOMAIN overrides = 1 .. q
    BY StartIs
  <2>2. AreSections(base) /\ base # Bad /\ secs # Bad
    BY <1>1, <1>2, <1>7
  <2> HIDE DEF base, overrides
  <2> QED
    BY <2>1, <2>2, OverridesLeave
<1> HIDE DEF base, secs
<1>9. /\ AreSections(secs) /\ Len(secs) = m + p
      /\ \A j \in 1 .. m + p : secs[j].name = base[j].name
      /\ \A i \in 1 .. q : overrides[i].kind # "bad" /\ GoesTo(base, overrides[i]) \in 1 .. m + p
      /\ \A n \in 1 .. m + p : \A key :
            Find(secs[n], key) = IF Setting(base, overrides, q, n, key) = {} THEN Find(base[n], key)
                                 ELSE LastOf(overrides, Setting(base, overrides, q, n, key))
  BY <1>7, <1>8 DEF OverInv, SameNames
<1>10. ASSUME NEW n \in 1 .. m + p, NEW key
       PROVE  \/ /\ Setting(base, overrides, q, n, key) = {}
                 /\ Find(secs[n], key) = Find(base[n], key)
              \/ /\ Setting(base, overrides, q, n, key) # {}
                 /\ Find(secs[n], key) = LastOf(overrides, Setting(base, overrides, q, n, key))
                 /\ LastOf(overrides, Setting(base, overrides, q, n, key)) # Absent
  <2> DEFINE I == Setting(base, overrides, q, n, key)
  <2>1. I \in SUBSET (1 .. q)
    BY DEF Setting
  <2>2. \A i \in I : overrides[i].kind # "bad"
    BY <1>9, <2>1
  <2> HIDE DEF I
  <2>3. I # {} => LastOf(overrides, I) # Absent
    BY <2>1, <2>2, SetIsText
  <2> QED
    BY <1>9, <2>3 DEF I
<1>11. /\ m + p \in Nat \ {0}
       /\ secs[1].name = Empty /\ base[1].name = Empty
       /\ \A j \in 2 .. m + p : secs[j].name # Empty /\ base[j].name # Empty
  <2>1. m + p \in Nat \ {0} /\ 1 \in 1 .. m /\ 1 \in 1 .. m + p
    BY <1>5, <1>6
  <2>2. "source" # Empty
    BY Zenon DEF Empty
  <2>3. base[1].name = Empty /\ secs[1].name = Empty
    BY <1>5, <1>7, <1>9, <2>1
  <2>4. ASSUME NEW j \in 2 .. m + p PROVE base[j].name # Empty
    <3>1. CASE j <= m
      BY <1>5, <1>7, <3>1
    <3>2. CASE j > m
      <4>1. PICK l : l = j - m
        OBVIOUS
      <4>2. l \in 1 .. p /\ m + l = j
        BY <1>5, <1>6, <3>2, <4>1
      <4> QED
        BY <1>7, <2>2, <4>2
    <3> QED
      BY <1>5, <3>1, <3>2
  <2>5. \A j \in 2 .. m + p : j \in 1 .. m + p
    OBVIOUS
  <2> QED
    BY <1>9, <2>1, <2>3, <2>4, <2>5
<1>12. \A n \in 0 .. m - 1 : \A key : Find(file[n + 1], key) = InFile(lines, n, key)
  <2>1. DOMAIN lines = 1 .. k
    BY StartIs
  <2>2. \A n, key : InFile(lines, n, key) = LastOf(lines, Assigning(lines, k, n, key))
    BY <2>1 DEF InFile, Assigning
  <2> QED
    BY <1>5, <2>2
\* Behind the sections of the file there is nothing from it.
<1>13. \A n \in Nat : \A key : n >= m => InFile(lines, n, key) = Absent
  <2> SUFFICES ASSUME NEW n \in Nat, NEW key, n >= m PROVE InFile(lines, n, key) = Absent
    OBVIOUS
  <2>1. \A i \in 1 .. k : SectionOf(lines, i) <= SectionOf(lines, k) /\ SectionOf(lines, i) \in Nat
    BY <1>4, SectionOfIs
  <2>2. \A i \in 1 .. k : SectionOf(lines, i) # n
    <3>1. SectionOf(lines, k) = m - 1
      BY <1>4, <1>5, SectionOfIs
    <3> QED
      BY <1>5, <2>1, <3>1
  <2>3. DOMAIN lines = 1 .. k
    BY StartIs
  <2>4. {i \in DOMAIN lines : SectionOf(lines, i) = n /\ lines[i].kind = "entry" /\ lines[i].key = key} = {}
    BY <2>2, <2>3
  <2> QED
    BY <2>4 DEF InFile, LastOf
\* What --set names is what it goes to.
<1>14. \A i \in 1 .. q : GoesTo(base, overrides[i]) = 1 <=> Named(overrides[i]) = Empty
  <2> SUFFICES ASSUME NEW i \in 1 .. q
               PROVE  GoesTo(base, overrides[i]) = 1 <=> Named(overrides[i]) = Empty
    OBVIOUS
  <2> DEFINE o == overrides[i]
             at == Target(base, o.section)
  <2>1. GoesTo(base, o) \in 1 .. m + p
    BY <1>9
  <2>2. CASE o.kind = "entry"
    BY <2>2 DEF GoesTo, Named
  <2>3. CASE o.kind # "entry"
    <3>1. GoesTo(base, o) = at /\ Named(o) = o.section
      BY <2>3 DEF GoesTo, Named
    <3>2. at \in 1 .. m + p
      BY <2>1, <3>1
    <3>3. base[at].name = o.section
      <4> HIDE DEF o
      <4>1. \/ Target(base, o.section) = 0
            \/ base[Target(base, o.section)].name = o.section
        BY <1>7, TargetIs
      <4> QED
        BY <3>2, <4>1
    <3> HIDE DEF at, o
    <3>4. at = 1 \/ at \in 2 .. m + p
      BY <1>11, <3>2
    <3> QED
      BY <1>11, <3>1, <3>3, <3>4 DEF o
  <2> QED
    BY <2>2, <2>3
<1>15. ASSUME NEW key
       PROVE  Find(secs[1], key) = Else(Overriding(overrides, Empty, key), InFile(lines, 0, key))
  <2> DEFINE I == Setting(base, overrides, q, 1, key)
  <2>1. Overriding(overrides, Empty, key) = LastOf(overrides, I)
    <3>1. DOMAIN overrides = 1 .. q
      BY StartIs
    <3>2. {i \in DOMAIN overrides : Named(overrides[i]) = Empty /\ overrides[i].key = key} = I
      BY <1>14, <3>1 DEF Setting
    <3> QED
      BY <3>2 DEF Overriding
  <2>2. 1 \in 1 .. m /\ 1 \in 1 .. m + p /\ 0 \in 0 .. m - 1 /\ 0 + 1 = 1
    BY <1>5, <1>6
  <2>3. Find(base[1], key) = InFile(lines, 0, key)
    BY <1>7, <1>12, <2>2
  <2>4. LastOf(overrides, {}) = Absent
    BY DEF LastOf
  <2>5. \/ I = {} /\ Find(secs[1], key) = Find(base[1], key)
        \/ I # {} /\ Find(secs[1], key) = LastOf(overrides, I) /\ LastOf(overrides, I) # Absent
    BY <1>10, <2>2
  <2> HIDE DEF I
  <2> QED
    BY <2>1, <2>3, <2>4, <2>5 DEF Else
<1>16. ASSUME \A j \in 2 .. m + p : secs[j].name = "source", NEW j \in 2 .. m + p
       PROVE  Find(secs[j], "recv_hwm") =
                  Else(IF j = m + p THEN Overriding(overrides, "source", "recv_hwm") ELSE Absent,
                       InFile(lines, j - 1, "recv_hwm"))
  <2> DEFINE I == Setting(base, overrides, q, j, "recv_hwm")
             J == {i \in DOMAIN overrides : Named(overrides[i]) = "source" /\ overrides[i].key = "recv_hwm"}
  <2>0. DOMAIN overrides = 1 .. q /\ j \in 1 .. m + p
    BY StartIs
  <2>1. Find(base[j], "recv_hwm") = InFile(lines, j - 1, "recv_hwm")
    <3>1. PICK l : l = j - 1
      OBVIOUS
    <3>2. l + 1 = j /\ l \in Nat
      BY <3>1
    <3>3. CASE j <= m
      <4>1. l \in 0 .. m - 1 /\ j \in 1 .. m
        BY <1>5, <3>2, <3>3
      <4> QED
        BY <1>7, <1>12, <3>1, <3>2, <4>1
    <3>4. CASE j > m
      <4>1. PICK n : n = j - m
        OBVIOUS
      <4>2. n \in 1 .. p /\ m + n = j /\ l >= m
        BY <1>5, <1>6, <3>2, <3>4, <4>1
      <4>3. Find(base[j], "recv_hwm") = Absent /\ InFile(lines, l, "recv_hwm") = Absent
        BY <1>7, <1>13, <3>2, <4>2
      <4> QED
        BY <3>1, <4>3
    <3> QED
      BY <1>5, <3>3, <3>4
  \* The last source is the one that --set source.KEY goes to.
  <2>2. \A i \in 1 .. q : GoesTo(base, overrides[i]) # 1 =>
            GoesTo(base, overrides[i]) = m + p /\ Named(overrides[i]) = "source"
    <3> SUFFICES ASSUME NEW i \in 1 .. q, GoesTo(base, overrides[i]) # 1
                 PROVE  GoesTo(base, overrides[i]) = m + p /\ Named(overrides[i]) = "source"
      OBVIOUS
    <3> DEFINE o == overrides[i]
               at == Target(base, o.section)
    <3>1. o.kind # "entry" /\ GoesTo(base, o) = at /\ Named(o) = o.section
      BY DEF GoesTo, Named
    <3>2. at \in 1 .. m + p /\ at # 1
      BY <1>9, <3>1
    <3>3. base[at].name = o.section /\ \A n \in 1 .. m + p : base[n].name = o.section => n <= at
      <4> HIDE DEF o
      <4>1. \/ Target(base, o.section) = 0
            \/ /\ base[Target(base, o.section)].name = o.section
               /\ \A n \in 1 .. Len(base) : base[n].name = o.section => n <= Target(base, o.section)
        BY <1>7, TargetIs
      <4> QED
        BY <1>7, <3>2, <4>1
    <3>4. at \in 2 .. m + p /\ m + p \in 2 .. m + p
      BY <1>11, <3>2
    <3>5. base[at].name = "source" /\ base[m + p].name = "source" /\ m + p \in 1 .. m + p
      <4>1. \A n \in 2 .. m + p : n \in 1 .. m + p
        BY <1>11
      <4>2. \A n \in 1 .. m + p : secs[n].name = base[n].name
        BY <1>9
      <4>3. \A n \in 2 .. m + p : base[n].name = "source"
        BY <1>16, <4>1, <4>2
      <4> HIDE DEF at
      <4> QED
        BY <3>4, <4>1, <4>3
    <3>6. at = m + p
      <4> HIDE DEF at, o
      <4>1. base[m + p].name = o.section /\ m + p \in 1 .. m + p
        BY <3>3, <3>5
      <4>2. m + p <= at
        BY <3>3, <4>1
      <4>3. at \in 1 .. m + p /\ m + p \in Int
        BY <1>11, <3>2
      <4> QED
        BY <4>2, <4>3
    <3> QED
      BY <3>1, <3>3, <3>5, <3>6
  <2>3. \A i \in 1 .. q : Named(overrides[i]) = "source" <=> GoesTo(base, overrides[i]) # 1
    <3>1. "source" # Empty
      BY Zenon DEF Empty
    <3> QED
      BY <1>14, <2>2, <3>1
  <2>4. CASE j = m + p
    <3>1. I = J
      BY <1>11, <2>0, <2>2, <2>3, <2>4 DEF Setting
    <3>2. Overriding(overrides, "source", "recv_hwm") = LastOf(overrides, J)
      BY DEF Overriding
    <3>3. LastOf(overrides, {}) = Absent
      BY DEF LastOf
    <3>4. \/ I = {} /\ Find(secs[j], "recv_hwm") = Find(base[j], "recv_hwm")
          \/ /\ I # {} /\ Find(secs[j], "recv_hwm") = LastOf(overrides, I)
             /\ LastOf(overrides, I) # Absent
      BY <1>10, <2>0
    <3> HIDE DEF I, J
    <3> QED
      BY <2>1, <2>4, <3>1, <3>2, <3>3, <3>4 DEF Else
  <2>5. CASE j # m + p
    <3>1. \A i \in 1 .. q : GoesTo(base, overrides[i]) # j
      BY <2>2, <2>5
    <3>2. I = {}
      BY <3>1 DEF Setting
    <3>3. Find(secs[j], "recv_hwm") = Find(base[j], "recv_hwm")
      BY <1>10, <2>0, <3>2
    <3> QED
      BY <2>1, <2>5, <3>3 DEF Else
  <2> QED
    BY <2>4, <2>5
<1>17. Tells(s, secs)
  <2> HIDE DEF lines, overrides
  <2>1. Len(secs) = m + p
    BY <1>9
  <2>2. \A key : Find(secs[1], key) = Else(Overriding(overrides, Empty, key), InFile(lines, 0, key))
    BY <1>15
  <2>3. (\A j \in 2 .. m + p : secs[j].name = "source") =>
            \A j \in 2 .. m + p : Find(secs[j], "recv_hwm") =
                Else(IF j = m + p THEN Overriding(overrides, "source", "recv_hwm") ELSE Absent,
                     InFile(lines, j - 1, "recv_hwm"))
    BY <1>16
  <2> QED
    BY <1>9, <1>11, <2>1, <2>2, <2>3 DEF Tells, lines, overrides
<1> QED
  BY <1>1, <1>17

-----------------------------------------------------------------------------
(* What a configuration without problems fulfils.                          *)

InRange(g, ints) ==
    \A k \in DOMAIN ints : Find(g, k) = Absent \/ IsInt(Find(g, k), ints[k])

LEMMA CommonPassed ==
    ASSUME NEW g, NEW ints, NEW bools, CommonProblems(g, ints, bools) = {}
    PROVE  InRange(g, ints)
<1> SUFFICES ASSUME NEW k \in DOMAIN ints, Find(g, k) # Absent, ~IsInt(Find(g, k), ints[k])
             PROVE  FALSE
  BY DEF InRange
<1>1. <<"range", k>> \in CommonProblems(g, ints, bools)
  BY Zenon DEF CommonProblems
<1> QED
  BY <1>1

LEMMA BridgePassed ==
    ASSUME NEW secs, BridgeProblems(secs) = {}
    PROVE  /\ InRange(secs[1], BridgeInts)
           /\ SourceSections(secs) # << >>
           /\ \A i \in DOMAIN SourceSections(secs) :
                 /\ IsInt(Find(SourceSections(secs)[i], "id"), SourceId)
                 /\ IsZmqEndpoint(Find(SourceSections(secs)[i], "endpoint"))
                 /\ ~Repeats(SourceSections(secs), i, "id")
                 /\ ~Repeats(SourceSections(secs), i, "endpoint")
           /\ \A i \in DOMAIN secs : secs[i].name \in {Empty, "source"}
<1> DEFINE srcs == SourceSections(secs)
           A == Unknown(secs[1], DOMAIN BridgeInts \cup BridgeBools \cup BridgeTexts)
           B == UnknownSections(secs, {Empty, "source"})
           C == CommonProblems(secs[1], BridgeInts, BridgeBools)
<1>1. B = {} /\ C = {} /\ SourcesProblems(srcs) = {}
  <2>1. A \cup B \cup C \cup SourcesProblems(srcs) = {}
    BY Zenon DEF BridgeProblems
  <2> HIDE DEF A, B, C, srcs
  <2> QED
    BY <2>1
<1> HIDE DEF srcs
<1>2. srcs # << >>
  <2>1. SourcesProblems(<< >>) # {}
    BY DEF SourcesProblems
  <2> QED
    BY <1>1, <2>1, Zenon
<1>3. \A i \in DOMAIN srcs : SourceProblems(srcs, i) = {}
  <2>1. SourcesProblems(srcs) = UNION {SourceProblems(srcs, i) : i \in DOMAIN srcs}
    BY <1>2, Zenon DEF SourcesProblems
  <2> QED
    BY <1>1, <2>1
<1>4. ASSUME NEW i \in DOMAIN srcs
      PROVE  /\ IsInt(Find(srcs[i], "id"), SourceId)
             /\ IsZmqEndpoint(Find(srcs[i], "endpoint"))
             /\ ~Repeats(srcs, i, "id") /\ ~Repeats(srcs, i, "endpoint")
  <2> DEFINE value == [k \in SourceKeys |-> Find(srcs[i], k)]
             Wrong(l) == \/ l = "id" /\ ~IsInt(value[l], SourceId)
                         \/ l = "endpoint" /\ ~IsZmqEndpoint(value[l])
                         \/ l = "subscribe_all" /\ value[l] # Absent /\ ~IsTruth(value[l])
                         \/ l = "recv_hwm" /\ value[l] # Absent /\ ~IsInt(value[l], SourceHwm)
             R == {<<"repeated", k>> : k \in {l \in {"id", "endpoint"} : Repeats(srcs, i, l)}}
             V == {<<"value", k>> : k \in {l \in SourceKeys : Wrong(l)}}
  <2>1. SourceProblems(srcs, i) = Unknown(srcs[i], SourceKeys) \cup R \cup V
    BY Zenon DEF SourceProblems
  <2>2. R = {} /\ V = {}
    <3> HIDE DEF R, V
    <3> QED
      BY <1>3, <2>1
  <2>3. ASSUME NEW l \in {"id", "endpoint"} PROVE ~Repeats(srcs, i, l)
    <3> SUFFICES ASSUME Repeats(srcs, i, l) PROVE FALSE
      OBVIOUS
    <3>1. <<"repeated", l>> \in R
      BY Zenon
    <3> QED
      BY <2>2, <3>1
  <2>4. ASSUME NEW l \in SourceKeys PROVE ~Wrong(l)
    <3> SUFFICES ASSUME Wrong(l) PROVE FALSE
      OBVIOUS
    <3> HIDE DEF Wrong
    <3>1. <<"value", l>> \in V
      BY Zenon
    <3> QED
      BY <2>2, <3>1
  <2>5. "id" \in SourceKeys /\ "endpoint" \in SourceKeys
    BY DEF SourceKeys
  <2>6. value["id"] = Find(srcs[i], "id") /\ value["endpoint"] = Find(srcs[i], "endpoint")
    BY <2>5
  <2>7. ~Wrong("id") /\ ~Wrong("endpoint")
    BY <2>4, <2>5
  <2> HIDE DEF value
  <2> QED
    BY <2>3, <2>6, <2>7
<1>5. ASSUME NEW i \in DOMAIN secs PROVE secs[i].name \in {Empty, "source"}
  <2> SUFFICES ASSUME secs[i].name \notin {Empty, "source"} PROVE FALSE
    OBVIOUS
  <2>1. secs[i] \in ToSet(secs)
    BY DEF ToSet
  <2> DEFINE t == secs[i]
  <2>2. <<"unknown section", t.name>> \in B
    BY <2>1, Zenon DEF UnknownSections
  <2> HIDE DEF B
  <2> QED
    BY <1>1, <2>2
<1> QED
  BY <1>1, <1>2, <1>4, <1>5, CommonPassed DEF srcs

LEMMA ReceiverPassed ==
    ASSUME NEW secs, ReceiverProblems(secs) = {}
    PROVE  /\ InRange(secs[1], ReceiverInts)
           /\ ~(/\ IsSet(Endpoints(secs[1]).stats) /\ Endpoints(secs[1]).stats = Endpoints(secs[1]).command
                /\ BindsCommands(secs[1]))
<1> DEFINE g == secs[1]
           e == Endpoints(g)
           P == {p \in {<<"capture_file">>, <<"same endpoint">>} :
                    \/ p = <<"capture_file">> /\ ~IsSet(Find(g, "capture_file"))
                    \/ p = <<"same endpoint">> /\ IsSet(e.stats) /\ e.stats = e.command /\ BindsCommands(g)}
           A == Unknown(g, DOMAIN ReceiverInts \cup ReceiverBools \cup ReceiverTexts)
           B == UnknownSections(secs, {Empty})
           C == CommonProblems(g, ReceiverInts, ReceiverBools)
           D == {<<"endpoint", k>> : k \in {l \in DOMAIN e : IsSet(e[l]) /\ ~IsTcpEndpoint(e[l])}}
<1>1. C = {} /\ P = {}
  <2>1. A \cup B \cup C \cup D \cup P = {}
    BY Zenon DEF ReceiverProblems
  <2> HIDE DEF A, B, C, D, P
  <2> QED
    BY <2>1
<1>2. ~(IsSet(e.stats) /\ e.stats = e.command /\ BindsCommands(g))
  <2> SUFFICES ASSUME IsSet(e.stats), e.stats = e.command, BindsCommands(g) PROVE FALSE
    OBVIOUS
  <2>1. <<"same endpoint">> \in P
    BY Zenon
  <2> QED
    BY <1>1, <2>1
<1>3. InRange(g, ReceiverInts)
  BY <1>1, CommonPassed
<1> QED
  BY <1>2, <1>3

\* The sections of a bridge that passes: the global one, then the sources.
LEMMA SourceSectionsAre ==
    ASSUME NEW secs, AreSections(secs), Len(secs) \in Nat \ {0}, secs[1].name = Empty,
           \A j \in 2 .. Len(secs) : secs[j].name = "source"
    PROVE  /\ DOMAIN SourceSections(secs) = 1 .. Len(secs) - 1
           /\ Len(SourceSections(secs)) = Len(secs) - 1
           /\ \A i \in 1 .. Len(secs) - 1 : SourceSections(secs)[i] = secs[i + 1]
<1> DEFINE n == Len(secs)
           I == {i \in DOMAIN secs : secs[i].name = "source"}
<1>1. I = 2 .. n
  <2>1. DOMAIN secs = 1 .. n
    BY Sequences DEF AreSections
  <2>2. "source" # Empty
    BY Zenon DEF Empty
  <2>3. \A i \in 1 .. n : i = 1 \/ i \in 2 .. n
    OBVIOUS
  <2>4. \A i \in 2 .. n : i \in 1 .. n
    OBVIOUS
  <2>5. \A i \in I : i \in 2 .. n
    BY <2>1, <2>2, <2>3
  <2>6. \A i \in 2 .. n : i \in I
    BY <2>1, <2>4
  <2> HIDE DEF I
  <2> QED
    BY <2>5, <2>6
<1>2. Cardinality(2 .. n) = n - 1
  <2>1. CASE n = 1
    BY <2>1, FS_Interval
  <2>2. CASE n # 1
    <3>1. n \in Int /\ 2 \in Int /\ 2 <= n + 1
      BY <2>2
    <3>2. Cardinality(2 .. n) = n - 2 + 1
      BY <2>2, <3>1, FS_Interval
    <3> QED
      BY <3>2
  <2> QED
    BY <2>1, <2>2
<1>3. \A i \in 2 .. n : Place(2 .. n, i) = i - 1
  <2> SUFFICES ASSUME NEW i \in 2 .. n PROVE Place(2 .. n, i) = i - 1
    OBVIOUS
  <2>1. {j \in 2 .. n : j <= i} = 2 .. i
    OBVIOUS
  <2>2. Cardinality(2 .. i) = i - 2 + 1
    BY FS_Interval
  <2>3. Place(2 .. n, i) = Cardinality({j \in 2 .. n : j <= i})
    BY Zenon DEF Place
  <2>4. Place(2 .. n, i) = i - 2 + 1
    BY <2>1, <2>2, <2>3
  <2> QED
    BY <2>4
<1>4. SourceSections(secs) = [m \in 1 .. n - 1 |-> secs[CHOOSE i \in 2 .. n : Place(2 .. n, i) = m]]
  <2>1. SourceSections(secs) = Selected(secs, I)
    BY DEF SourceSections
  <2> HIDE DEF I
  <2> QED
    BY <1>1, <1>2, <2>1 DEF Selected
<1>5. \A m \in 1 .. n - 1 : (CHOOSE i \in 2 .. n : Place(2 .. n, i) = m) = m + 1
  <2> SUFFICES ASSUME NEW m \in 1 .. n - 1
               PROVE  (CHOOSE i \in 2 .. n : Place(2 .. n, i) = m) = m + 1
    OBVIOUS
  <2>1. m + 1 \in 2 .. n
    OBVIOUS
  <2>2. Place(2 .. n, m + 1) = m
    BY <1>3, <2>1
  <2>3. \A i \in 2 .. n : Place(2 .. n, i) = m => i = m + 1
    BY <1>3
  <2> QED
    BY <2>1, <2>2, <2>3
<1>6. /\ DOMAIN SourceSections(secs) = 1 .. n - 1
      /\ \A i \in 1 .. n - 1 : SourceSections(secs)[i] = secs[i + 1]
  BY <1>4, <1>5
<1>7. Len(SourceSections(secs)) = n - 1
  <2> DEFINE srcs == SourceSections(secs)
  <2>1. srcs = [i \in 1 .. n - 1 |-> srcs[i]] /\ n - 1 \in Nat
    BY <1>4
  <2> HIDE DEF srcs
  <2>2. srcs \in Seq({srcs[i] : i \in 1 .. n - 1})
    BY <2>1
  <2> QED
    BY <1>6, <2>1, <2>2 DEF srcs
<1> QED
  BY <1>6, <1>7

LEMMA BridgeStart ==
    ASSUME NEW s, s.program = "bridge", Start(s).problems = {}
    PROVE  LET secs == Gathered(s.lines, s.sources, s.overrides) IN
           secs # Bad /\ BridgeProblems(secs) = {} /\ Start(s).config = BridgeConfig(secs)
<1> DEFINE secs == Gathered(s.lines, s.sources, s.overrides)
           problems == CASE secs = Bad -> {<<"syntax">>}
                         [] secs # Bad /\ s.program = "bridge" -> BridgeProblems(secs)
                         [] secs # Bad /\ s.program = "receiver" -> ReceiverProblems(secs)
<1>1. Start(s).problems = problems
  BY DEF Start
<1>2. Start(s).config = CASE problems # {} -> << >>
                          [] problems = {} /\ s.program = "bridge" -> BridgeConfig(secs)
                          [] problems = {} /\ s.program = "receiver" -> ReceiverConfig(secs)
  BY DEF Start
<1> HIDE DEF secs
<1>3. secs # Bad
  BY <1>1
<1>4. problems = BridgeProblems(secs)
  BY <1>3
<1> HIDE DEF problems
<1>5. Start(s).config = BridgeConfig(secs)
  BY <1>1, <1>2
<1> QED
  BY <1>1, <1>3, <1>4, <1>5 DEF secs

LEMMA ReceiverStart ==
    ASSUME NEW s, s.program = "receiver", Start(s).problems = {}
    PROVE  LET secs == Gathered(s.lines, s.sources, s.overrides) IN
           secs # Bad /\ ReceiverProblems(secs) = {} /\ Start(s).config = ReceiverConfig(secs)
<1> DEFINE secs == Gathered(s.lines, s.sources, s.overrides)
           problems == CASE secs = Bad -> {<<"syntax">>}
                         [] secs # Bad /\ s.program = "bridge" -> BridgeProblems(secs)
                         [] secs # Bad /\ s.program = "receiver" -> ReceiverProblems(secs)
<1>1. Start(s).problems = problems
  BY DEF Start
<1>2. Start(s).config = CASE problems # {} -> << >>
                          [] problems = {} /\ s.program = "bridge" -> BridgeConfig(secs)
                          [] problems = {} /\ s.program = "receiver" -> ReceiverConfig(secs)
  BY DEF Start
<1> HIDE DEF secs
<1>3. secs # Bad
  BY <1>1
<1>4. problems = ReceiverProblems(secs)
  BY <1>3
<1> HIDE DEF problems
<1>5. Start(s).config = ReceiverConfig(secs)
  BY <1>1, <1>2
<1> QED
  BY <1>1, <1>3, <1>4, <1>5 DEF secs

-----------------------------------------------------------------------------
(* The values in force.                                                    *)

LEMMA OptionInForce ==
    ASSUME NEW v, NEW first, NEW second, NEW default, v = Else(first, second)
    PROVE  (IF v = Absent THEN default ELSE v[2]) = InForce(first, second, default)
<1>1. CASE first # Absent
  BY <1>1 DEF Else, InForce
<1>2. CASE first = Absent /\ second # Absent
  BY <1>2 DEF Else, InForce
<1>3. CASE first = Absent /\ second = Absent
  BY <1>3 DEF Else, InForce
<1> QED
  BY <1>1, <1>2, <1>3

LEMMA IntsInForce ==
    ASSUME NEW s, NEW secs, Tells(s, secs), NEW ints, NEW k \in DOMAIN ints
    PROVE  IntOptions(secs[1], ints)[k]
               = InForce(Overriding(s.overrides, Empty, k), InFile(s.lines, 0, k), ints[k].default)
<1>1. Find(secs[1], k) = Else(Overriding(s.overrides, Empty, k), InFile(s.lines, 0, k))
  BY DEF Tells
<1> DEFINE v == Find(secs[1], k)
<1>2. IntOptions(secs[1], ints)[k] = IF v = Absent THEN ints[k].default ELSE v[2]
  BY DEF IntOptions, IntOption
<1> HIDE DEF v
<1> QED
  BY <1>1, <1>2, OptionInForce DEF v

\* The configuration that is read.
StartRead ==
    kind = "start" => input \in Starts /\ (verdict # Unread => verdict = Start(input))

LEMMA StartInvariant == Spec => []StartRead
<1>1. Init => StartRead
  BY DEF Init, StartRead
<1>2. StartRead /\ [Next]_vars => StartRead'
  BY DEF StartRead, Next, vars, ReadDatagram, ReadStart, ReadJson, ReadPayload
<1> QED
  BY <1>1, <1>2, PTL DEF Spec

\* The sources of a bridge that runs.
LEMMA SourcesInForce ==
    ASSUME NEW s, NEW secs, Tells(s, secs), BridgeProblems(secs) = {},
           NEW i \in DOMAIN BridgeConfig(secs).sources
    PROVE  BridgeConfig(secs).sources[i].hwm =
               InForce(IF i = Len(BridgeConfig(secs).sources)
                         THEN Overriding(s.overrides, "source", "recv_hwm") ELSE Absent,
                       InFile(s.lines, i, "recv_hwm"), 0)
<1> DEFINE srcs == SourceSections(secs)
           configs == [j \in DOMAIN srcs |-> SourceConfig(srcs[j])]
           n == Len(secs)
<1>1. BridgeConfig(secs).sources = configs
  BY DEF BridgeConfig
<1>2. /\ AreSections(secs) /\ n \in Nat \ {0} /\ secs[1].name = Empty
      /\ \A j \in 2 .. n : secs[j].name # Empty
  BY DEF Tells
<1>3. \A j \in 2 .. n : secs[j].name = "source"
  <2>1. DOMAIN secs = 1 .. n
    BY <1>2, Sequences DEF AreSections
  <2>2. \A j \in DOMAIN secs : secs[j].name \in {Empty, "source"}
    BY BridgePassed
  <2>3. \A j \in 2 .. n : j \in 1 .. n
    OBVIOUS
  <2> QED
    BY <1>2, <2>1, <2>2, <2>3
<1>4. /\ DOMAIN srcs = 1 .. n - 1
      /\ \A j \in 1 .. n - 1 : srcs[j] = secs[j + 1]
  BY <1>2, <1>3, SourceSectionsAre
<1>5. \A j \in 2 .. n : Find(secs[j], "recv_hwm") =
          Else(IF j = n THEN Overriding(s.overrides, "source", "recv_hwm") ELSE Absent,
               InFile(s.lines, j - 1, "recv_hwm"))
  BY <1>3 DEF Tells
<1> HIDE DEF n, srcs
<1>6. i \in 1 .. n - 1 /\ n \in Nat /\ n - 1 \in Nat
  BY <1>1, <1>2, <1>4
<1>7. Len(configs) = n - 1
  <2>1. configs = [j \in 1 .. n - 1 |-> configs[j]]
    BY <1>4
  <2> HIDE DEF configs
  <2>2. configs \in Seq({configs[j] : j \in 1 .. n - 1})
    BY <1>6, <2>1
  <2>3. DOMAIN configs = 1 .. n - 1
    BY <2>1
  <2> QED
    BY <1>6, <2>2, <2>3
<1> DEFINE v == Find(secs[i + 1], "recv_hwm")
           first == IF i = n - 1 THEN Overriding(s.overrides, "source", "recv_hwm") ELSE Absent
           second == InFile(s.lines, i, "recv_hwm")
<1>8. configs[i].hwm = IF v = Absent THEN 0 ELSE v[2]
  <2>1. configs[i] = SourceConfig(secs[i + 1])
    BY <1>4, <1>6
  <2> QED
    BY <2>1 DEF SourceConfig
<1>9. v = Else(first, second)
  <2>1. PICK j : j = i + 1
    OBVIOUS
  <2>2. j \in 2 .. n /\ j - 1 = i /\ (j = n <=> i = n - 1)
    BY <1>6, <2>1
  <2>3. v = Find(secs[j], "recv_hwm")
    BY <2>1
  <2> QED
    BY <1>5, <2>2, <2>3
<1>10. (IF v = Absent THEN 0 ELSE v[2]) = InForce(first, second, 0)
  <2> HIDE DEF v, first, second
  <2> QED
    BY <1>9, OptionInForce
<1> HIDE DEF configs
<1> QED
  BY <1>1, <1>7, <1>8, <1>10

\* Every option of a program that runs has the value of the last assignment to
\* it: --set, then the file, then the default (src/common/config.cpp).
THEOREM LastAssignmentsWin == Spec => []LastAssignmentWins
<1>1. StartRead => LastAssignmentWins
  <2> SUFFICES ASSUME StartRead PROVE LastAssignmentWins
    OBVIOUS
  <2> DEFINE secs == Gathered(input.lines, input.sources, input.overrides)
             c == verdict.config
  <2>1. ASSUME NEW program, Runs(program)
        PROVE  /\ input \in Starts /\ input.program = program
               /\ verdict = Start(input) /\ Start(input).problems = {}
    BY <2>1 DEF Runs, StartRead
  <2>2. ASSUME Runs("bridge")
        PROVE  c = BridgeConfig(secs) /\ BridgeProblems(secs) = {} /\ Tells(input, secs)
    <3>1. input \in Starts /\ c = Start(input).config
      BY <2>1, <2>2
    <3>2. secs # Bad /\ BridgeProblems(secs) = {} /\ Start(input).config = BridgeConfig(secs)
      BY <2>1, <2>2, BridgeStart
    <3> QED
      BY <3>1, <3>2, GatheredTells
  <2>3. ASSUME Runs("receiver")
        PROVE  c = ReceiverConfig(secs) /\ Tells(input, secs)
    <3>1. input \in Starts /\ c = Start(input).config
      BY <2>1, <2>3
    <3>2. secs # Bad /\ Start(input).config = ReceiverConfig(secs)
      BY <2>1, <2>3, ReceiverStart
    <3> QED
      BY <3>1, <3>2, GatheredTells
  <2> HIDE DEF secs
  <2>4. ASSUME Runs("bridge"), NEW k \in DOMAIN BridgeInts
        PROVE  c.ints[k] = InForce(Overriding(input.overrides, Empty, k), InFile(input.lines, 0, k),
                                   BridgeInts[k].default)
    <3>1. c.ints = IntOptions(secs[1], BridgeInts)
      BY <2>2, <2>4 DEF BridgeConfig
    <3> QED
      BY <2>2, <2>4, <3>1, IntsInForce
  <2>5. ASSUME Runs("receiver"), NEW k \in DOMAIN ReceiverInts
        PROVE  c.ints[k] = InForce(Overriding(input.overrides, Empty, k), InFile(input.lines, 0, k),
                                   ReceiverInts[k].default)
    <3>1. c.ints = IntOptions(secs[1], ReceiverInts)
      BY <2>3, <2>5 DEF ReceiverConfig
    <3> QED
      BY <2>3, <2>5, <3>1, IntsInForce
  <2>6. ASSUME Runs("bridge"), NEW i \in DOMAIN c.sources
        PROVE  c.sources[i].hwm =
                   InForce(IF i = Len(c.sources) THEN Overriding(input.overrides, "source", "recv_hwm")
                           ELSE Absent,
                           InFile(input.lines, i, "recv_hwm"), 0)
    BY <2>2, <2>6, SourcesInForce
  <2> HIDE DEF c
  <2> QED
    BY <2>4, <2>5, <2>6, Zenon DEF LastAssignmentWins, c
<1> QED
  BY <1>1, StartInvariant, PTL

-----------------------------------------------------------------------------
(* What a program that starts can rely on.                                 *)

\* An option has its default or a value in its range.
LEMMA OptionInRange ==
    ASSUME NEW g, NEW ints, InRange(g, ints), NEW k \in DOMAIN ints
    PROVE  \/ IntOptions(g, ints)[k] = ints[k].default
           \/ IntOptions(g, ints)[k] \in ints[k].lo .. ints[k].hi
<1> DEFINE v == Find(g, k)
<1>1. IntOptions(g, ints)[k] = IF v = Absent THEN ints[k].default ELSE v[2]
  BY DEF IntOptions, IntOption
<1>2. v = Absent \/ IsInt(v, ints[k])
  BY DEF InRange
<1> HIDE DEF v
<1> QED
  BY <1>1, <1>2 DEF IsInt

\* A text that stands for an endpoint is neither missing nor empty.
LEMMA EndpointIsSet ==
    ASSUME NEW v, IsZmqEndpoint(v)
    PROVE  IsSet(v)
<1>1. /\ "tcp://*:5556" # Empty /\ "tcp://127.0.0.1:5557" # Empty
      /\ "ipc://a" # Empty /\ "ipc://b" # Empty
  BY Zenon DEF Empty
<1>2. \A w : Word(w) # Absent
  BY DEF Word, Absent
<1>3. \A w, x : Word(w) = Word(x) => w = x
  BY DEF Word
<1>4. PICK w : v = Word(w) /\ w # Empty
  BY <1>1, Zenon DEF IsZmqEndpoint, IsTcpEndpoint, StatsDefault, CommandDefault
<1> QED
  BY <1>2, <1>3, <1>4 DEF IsSet

\* Two sources that pass have different ids and endpoints.
LEMMA SourcesDiffer ==
    ASSUME NEW srcs, NEW n \in Nat, DOMAIN srcs = 1 .. n,
           \A i \in 1 .. n : /\ IsInt(Find(srcs[i], "id"), SourceId)
                             /\ IsZmqEndpoint(Find(srcs[i], "endpoint"))
                             /\ ~Repeats(srcs, i, "id") /\ ~Repeats(srcs, i, "endpoint"),
           NEW i \in 1 .. n, NEW j \in 1 .. n, i # j
    PROVE  /\ Find(srcs[i], "id")[2] # Find(srcs[j], "id")[2]
           /\ Find(srcs[i], "endpoint") # Find(srcs[j], "endpoint")
<1>1. ASSUME NEW a \in 1 .. n, NEW b \in 1 .. n, b < a
      PROVE  /\ Find(srcs[a], "id") # Find(srcs[b], "id")
             /\ Find(srcs[a], "endpoint") # Find(srcs[b], "endpoint")
  <2>1. b \in 1 .. a - 1
    BY <1>1
  <2>2. Find(srcs[a], "id") # Find(srcs[b], "id")
    BY <2>1, Zenon DEF Repeats
  <2>3. IsSet(Find(srcs[a], "endpoint"))
    BY EndpointIsSet
  <2>4. "endpoint" # "id"
    OBVIOUS
  <2>5. Find(srcs[a], "endpoint") # Find(srcs[b], "endpoint")
    BY <2>1, <2>3, <2>4, Zenon DEF Repeats
  <2> QED
    BY <2>2, <2>5
<1>2. /\ Find(srcs[i], "id") # Find(srcs[j], "id")
      /\ Find(srcs[i], "endpoint") # Find(srcs[j], "endpoint")
  <2>1. i < j \/ j < i
    OBVIOUS
  <2>2. CASE i < j
    BY <1>1, <2>2, Zenon
  <2>3. CASE j < i
    BY <1>1, <2>3, Zenon
  <2> QED
    BY <2>1, <2>2, <2>3
<1>3. IsInt(Find(srcs[i], "id"), SourceId) /\ IsInt(Find(srcs[j], "id"), SourceId)
  OBVIOUS
<1>4. Find(srcs[i], "id") = Int32(Find(srcs[i], "id")[2]) /\ Find(srcs[j], "id") = Int32(Find(srcs[j], "id")[2])
  BY <1>3, Zenon DEF IsInt
<1> QED
  BY <1>2, <1>4

LEMMA BridgeUsable ==
    ASSUME NEW s, NEW secs, Tells(s, secs), BridgeProblems(secs) = {}
    PROVE  LET c == BridgeConfig(secs) IN
           /\ FragmentPayload(c.ints.max_datagram_size) \in 1 .. MaxU16
           /\ c.ints.max_messages_per_poll >= 1
           /\ c.sources # << >>
           /\ \A i, j \in DOMAIN c.sources : i # j =>
                 c.sources[i].id # c.sources[j].id /\ c.sources[i].endpoint # c.sources[j].endpoint
<1> DEFINE c == BridgeConfig(secs)
           srcs == SourceSections(secs)
           n == Len(secs)
<1>1. /\ c.ints = IntOptions(secs[1], BridgeInts)
      /\ c.sources = [i \in DOMAIN srcs |-> SourceConfig(srcs[i])]
  BY DEF BridgeConfig
<1> HIDE DEF c
<1>2. InRange(secs[1], BridgeInts) /\ srcs # << >>
  BY BridgePassed
<1>3. /\ HeaderSize \in Nat /\ HeaderSize < 1400 /\ 1400 <= MaxUdpPayload
      /\ MaxUdpPayload \in Nat /\ MaxU16 \in Nat /\ MaxUdpPayload <= MaxU16
  BY ConfigAssumption, WireAssumption
<1>4. FragmentPayload(c.ints.max_datagram_size) \in 1 .. MaxU16
  <2> DEFINE k == "max_datagram_size"
             size == IntOptions(secs[1], BridgeInts)[k]
  <2>1. k \in DOMAIN BridgeInts /\ BridgeInts[k] = Between(HeaderSize + 1, MaxUdpPayload, 1400)
    BY DEF BridgeInts
  <2>2. size = BridgeInts[k].default \/ size \in BridgeInts[k].lo .. BridgeInts[k].hi
    BY <1>2, <2>1, OptionInRange
  <2>3. c.ints.max_datagram_size = size
    BY <1>1
  <2> HIDE DEF size
  <2>4. size = 1400 \/ size \in HeaderSize + 1 .. MaxUdpPayload
    BY <2>1, <2>2 DEF Between
  <2>5. size \in HeaderSize + 1 .. MaxUdpPayload
    BY <1>3, <2>4
  <2> QED
    BY <1>3, <2>3, <2>5 DEF FragmentPayload
<1>5. c.ints.max_messages_per_poll >= 1
  <2> DEFINE k == "max_messages_per_poll"
             limit == IntOptions(secs[1], BridgeInts)[k]
  <2>1. k \in DOMAIN BridgeInts /\ BridgeInts[k] = Between(1, 100000, 32)
    BY DEF BridgeInts
  <2>2. limit = BridgeInts[k].default \/ limit \in BridgeInts[k].lo .. BridgeInts[k].hi
    BY <1>2, <2>1, OptionInRange
  <2>3. c.ints.max_messages_per_poll = limit
    BY <1>1
  <2> HIDE DEF limit
  <2> QED
    BY <2>1, <2>2, <2>3 DEF Between
<1>6. n \in Nat \ {0} /\ DOMAIN srcs = 1 .. n - 1
  <2>1. /\ AreSections(secs) /\ n \in Nat \ {0} /\ secs[1].name = Empty
        /\ \A j \in 2 .. n : secs[j].name # Empty
    BY DEF Tells
  <2>2. DOMAIN secs = 1 .. n
    BY <2>1, Sequences DEF AreSections
  <2>3. \A j \in DOMAIN secs : secs[j].name \in {Empty, "source"}
    BY BridgePassed
  <2>4. \A j \in 2 .. n : secs[j].name = "source"
    <3>1. \A j \in 2 .. n : j \in 1 .. n
      OBVIOUS
    <3> QED
      BY <2>1, <2>2, <2>3, <3>1
  <2> QED
    BY <2>1, <2>4, SourceSectionsAre
<1>7. \A i \in DOMAIN srcs : /\ IsInt(Find(srcs[i], "id"), SourceId)
                             /\ IsZmqEndpoint(Find(srcs[i], "endpoint"))
                             /\ ~Repeats(srcs, i, "id") /\ ~Repeats(srcs, i, "endpoint")
  BY BridgePassed
<1>8. srcs = [i \in DOMAIN srcs |-> srcs[i]]
  BY DEF SourceSections, Selected
<1> HIDE DEF srcs, n
<1>9. DOMAIN srcs # {}
  BY <1>2, <1>8
<1>10. c.sources # << >>
  <2>1. DOMAIN c.sources = DOMAIN srcs
    BY <1>1
  <2>2. DOMAIN << >> = {}
    OBVIOUS
  <2> QED
    BY <1>9, <2>1, <2>2
<1>11. ASSUME NEW i \in DOMAIN c.sources, NEW j \in DOMAIN c.sources, i # j
       PROVE  c.sources[i].id # c.sources[j].id /\ c.sources[i].endpoint # c.sources[j].endpoint
  <2>1. i \in 1 .. n - 1 /\ j \in 1 .. n - 1 /\ n - 1 \in Nat
    BY <1>1, <1>6
  <2>2. c.sources[i] = SourceConfig(srcs[i]) /\ c.sources[j] = SourceConfig(srcs[j])
    BY <1>1, <1>6, <2>1
  <2>3. /\ Find(srcs[i], "id")[2] # Find(srcs[j], "id")[2]
        /\ Find(srcs[i], "endpoint") # Find(srcs[j], "endpoint")
    <3> DEFINE m == n - 1
    <3>1. m \in Nat /\ DOMAIN srcs = 1 .. m /\ i \in 1 .. m /\ j \in 1 .. m
      BY <1>6, <2>1
    <3>2. \A l \in 1 .. m : /\ IsInt(Find(srcs[l], "id"), SourceId)
                            /\ IsZmqEndpoint(Find(srcs[l], "endpoint"))
                            /\ ~Repeats(srcs, l, "id") /\ ~Repeats(srcs, l, "endpoint")
      BY <1>7, <3>1
    <3> HIDE DEF m
    <3> QED
      BY <1>11, <3>1, <3>2, SourcesDiffer
  <2> QED
    BY <2>2, <2>3 DEF SourceConfig
<1> QED
  BY <1>4, <1>5, <1>10, <1>11 DEF c

LEMMA ReceiverUsable ==
    ASSUME NEW secs, ReceiverProblems(secs) = {}
    PROVE  LET c == ReceiverConfig(secs) IN
           /\ c.ints.reassembly_max_pending >= 1 /\ c.ints.reassembly_timeout_ms >= 1
           /\ c.ints.max_datagrams_per_poll >= 1
           /\ c.binds => c.endpoints.stats # c.endpoints.command \/ c.endpoints.stats = Word(Empty)
<1> DEFINE c == ReceiverConfig(secs)
           g == secs[1]
           e == Endpoints(g)
<1>1. c.ints = IntOptions(g, ReceiverInts) /\ c.endpoints = e /\ c.binds = BindsCommands(g)
  BY DEF ReceiverConfig
<1>2. InRange(g, ReceiverInts) /\ ~(IsSet(e.stats) /\ e.stats = e.command /\ BindsCommands(g))
  BY ReceiverPassed
<1> HIDE DEF c
<1>3. ASSUME NEW k \in DOMAIN ReceiverInts, NEW hi \in Nat, NEW default \in Nat, default >= 1,
             ReceiverInts[k] = Between(1, hi, default)
      PROVE  IntOptions(g, ReceiverInts)[k] >= 1
  <2> DEFINE v == IntOptions(g, ReceiverInts)[k]
             o == ReceiverInts[k]
  <2>1. v = o.default \/ v \in o.lo .. o.hi
    BY <1>2, OptionInRange
  <2> HIDE DEF v
  <2> QED
    BY <1>3, <2>1 DEF Between, v
<1>4. c.ints.reassembly_max_pending >= 1 /\ c.ints.reassembly_timeout_ms >= 1
      /\ c.ints.max_datagrams_per_poll >= 1
  <2>1. /\ {"reassembly_max_pending", "reassembly_timeout_ms", "max_datagrams_per_poll"} \in SUBSET DOMAIN ReceiverInts
        /\ ReceiverInts["reassembly_max_pending"] = Between(1, 1000000, 256)
        /\ ReceiverInts["reassembly_timeout_ms"] = Between(1, 3600000, 500)
        /\ ReceiverInts["max_datagrams_per_poll"] = Between(1, 100000, 64)
    BY DEF ReceiverInts
  <2>2. c.ints["reassembly_max_pending"] >= 1
    BY <1>1, <1>3, <2>1
  <2>3. c.ints["reassembly_timeout_ms"] >= 1
    BY <1>1, <1>3, <2>1
  <2>4. c.ints["max_datagrams_per_poll"] >= 1
    BY <1>1, <1>3, <2>1
  <2> QED
    BY <2>2, <2>3, <2>4
<1>5. e.stats # Absent
  <2>1. \A w : Word(w) # Absent
    BY DEF Word, Absent
  <2>2. e.stats = Text(g, "stats_endpoint", StatsDefault)
    BY DEF Endpoints
  <2> QED
    BY <2>1, <2>2 DEF Text, StatsDefault
<1>6. ~IsSet(e.stats) => e.stats = Word(Empty)
  <2> HIDE DEF e
  <2> QED
    BY <1>5 DEF IsSet
<1> HIDE DEF e, g
<1>7. c.binds => c.endpoints.stats # c.endpoints.command \/ c.endpoints.stats = Word(Empty)
  BY <1>1, <1>2, <1>6, Zenon
<1> QED
  BY <1>4, <1>7 DEF c

\* What a program runs with is usable, wherever each part of it came from
\* (src/bridge/bridge_config.cpp, src/tools/receiver/receiver_config.cpp).
THEOREM AcceptedAreUsable == Spec => []AcceptedIsUsable
<1>1. StartRead => AcceptedIsUsable
  <2> SUFFICES ASSUME StartRead PROVE AcceptedIsUsable
    OBVIOUS
  <2> DEFINE secs == Gathered(input.lines, input.sources, input.overrides)
             c == verdict.config
             Bridge(d) == /\ FragmentPayload(d.ints.max_datagram_size) \in 1 .. MaxU16
                          /\ d.ints.max_messages_per_poll >= 1
                          /\ d.sources # << >>
                          /\ \A i, j \in DOMAIN d.sources : i # j =>
                                /\ d.sources[i].id # d.sources[j].id
                                /\ d.sources[i].endpoint # d.sources[j].endpoint
             Receiver(d) == /\ d.ints.reassembly_max_pending >= 1 /\ d.ints.reassembly_timeout_ms >= 1
                            /\ d.ints.max_datagrams_per_poll >= 1
                            /\ d.binds => \/ d.endpoints.stats # d.endpoints.command
                                          \/ d.endpoints.stats = Word(Empty)
  <2>1. ASSUME NEW program, Runs(program)
        PROVE  /\ input \in Starts /\ input.program = program
               /\ c = Start(input).config /\ Start(input).problems = {}
    BY <2>1 DEF Runs, StartRead
  <2>2. ASSUME Runs("bridge") PROVE Bridge(c)
    <3>1. secs # Bad /\ BridgeProblems(secs) = {} /\ c = BridgeConfig(secs)
      BY <2>1, <2>2, BridgeStart
    <3>2. Tells(input, secs)
      BY <2>1, <2>2, <3>1, GatheredTells
    <3> HIDE DEF secs
    <3>3. Bridge(BridgeConfig(secs))
      BY <3>1, <3>2, BridgeUsable
    <3> HIDE DEF Bridge
    <3> QED
      BY <3>1, <3>3
  <2>3. ASSUME Runs("receiver") PROVE Receiver(c)
    <3>1. ReceiverProblems(secs) = {} /\ c = ReceiverConfig(secs)
      BY <2>1, <2>3, ReceiverStart
    <3> HIDE DEF secs
    <3>2. Receiver(ReceiverConfig(secs))
      BY <3>1, ReceiverUsable
    <3> HIDE DEF Receiver
    <3> QED
      BY <3>1, <3>2
  <2> QED
    BY <2>2, <2>3, Zenon DEF AcceptedIsUsable
<1> QED
  BY <1>1, StartInvariant, PTL

-----------------------------------------------------------------------------
(* Captured telemetry: what is where in a payload.                         *)

\* t stands in B behind position at.
Has(B, at, t) == /\ at + Len(t) <= Len(B)
                 /\ \A k \in 1 .. Len(t) : B[at + k] = t[k]

\* What stands in a sequence stands in a longer one.
LEMMA Behind ==
    ASSUME NEW s, NEW t, IsSequence(s), IsSequence(t)
    PROVE  /\ IsSequence(s \o t) /\ Len(s \o t) = Len(s) + Len(t)
           /\ Has(s \o t, Len(s), t)
           /\ \A at \in Nat : \A u : IsSequence(u) /\ Has(s, at, u) => Has(s \o t, at, u)
           /\ \A at \in Nat : \A u : IsSequence(u) /\ Has(t, at, u) => Has(s \o t, Len(s) + at, u)
<1> DEFINE S == {s[i] : i \in DOMAIN s} \cup {t[i] : i \in DOMAIN t}
           r == s \o t
<1>1. s \in Seq(S) /\ t \in Seq(S) /\ Len(s) \in Nat /\ Len(t) \in Nat
  BY WiderSeq, Sequences DEF IsSequence
<1>2. /\ r \in Seq(S) /\ Len(r) = Len(s) + Len(t)
      /\ \A i \in 1 .. Len(s) : r[i] = s[i]
      /\ \A i \in 1 .. Len(t) : r[Len(s) + i] = t[i]
  <2> HIDE DEF S
  <2> QED
    BY <1>1, Joined
<1> HIDE DEF r, S
<1>3. IsSequence(r)
  <2>1. \A i \in DOMAIN r : r[i] \in {r[j] : j \in DOMAIN r}
    OBVIOUS
  <2>2. Len(r) \in Nat /\ r \in [1 .. Len(r) -> S] /\ DOMAIN r = 1 .. Len(r)
    BY <1>2, LenProperties
  <2>3. r \in [1 .. Len(r) -> {r[j] : j \in DOMAIN r}]
    BY <2>1, <2>2
  <2> QED
    BY <2>2, <2>3, FunctionIsSequence
<1>4. Has(r, Len(s), t)
  BY <1>1, <1>2 DEF Has
<1>5. ASSUME NEW at \in Nat, NEW u, IsSequence(u), Has(s, at, u)
      PROVE  Has(r, at, u)
  <2>1. Len(u) \in Nat /\ at + Len(u) <= Len(s) /\ \A k \in 1 .. Len(u) : s[at + k] = u[k]
    BY <1>5, Sequences DEF Has
  <2>2. \A k \in 1 .. Len(u) : r[at + k] = u[k]
    <3> TAKE k \in 1 .. Len(u)
    <3>1. at + k \in 1 .. Len(s)
      BY <1>1, <2>1
    <3> QED
      BY <1>2, <2>1, <3>1
  <2>3. at + Len(u) <= Len(r)
    BY <1>1, <1>2, <2>1
  <2> QED
    BY <2>2, <2>3 DEF Has
<1>6. ASSUME NEW at \in Nat, NEW u, IsSequence(u), Has(t, at, u)
      PROVE  Has(r, Len(s) + at, u)
  <2>1. Len(u) \in Nat
    BY <1>6, Sequences
  <2>2. \A k \in 1 .. Len(u) : r[Len(s) + at + k] = u[k]
    <3> TAKE k \in 1 .. Len(u)
    <3>1. at + k \in 1 .. Len(t) /\ t[at + k] = u[k]
      BY <1>1, <1>6, <2>1 DEF Has
    <3>2. r[Len(s) + (at + k)] = u[k]
      BY <1>2, <3>1
    <3> QED
      BY <1>1, <2>1, <3>2
  <2> QED
    BY <1>1, <1>2, <1>6, <2>1, <2>2 DEF Has
<1> QED
  BY <1>2, <1>3, <1>4, <1>5, <1>6 DEF r

\* A piece is cut out by its place.
LEMMA CutOut ==
    ASSUME NEW B, IsSequence(B), NEW t, IsSequence(t), NEW at \in Nat, Has(B, at, t)
    PROVE  SubSeq(B, at + 1, at + Len(t)) = t
<1> DEFINE S == {B[i] : i \in DOMAIN B}
           c == SubSeq(B, at + 1, at + Len(t))
<1>1. Len(B) \in Nat /\ Len(t) \in Nat /\ DOMAIN B = 1 .. Len(B) /\ at + Len(t) <= Len(B)
  BY Sequences DEF Has
<1>2. \A i \in at + 1 .. at + Len(t) : B[i] \in S
  BY <1>1
<1>3. c \in Seq(S) /\ Len(c) = Len(t) /\ \A i \in 1 .. Len(t) : c[i] = B[at + i]
  <2>1. at + 1 \in Int /\ at + Len(t) \in Int
    BY <1>1
  <2>2. /\ c \in Seq(S)
        /\ Len(c) = IF at + 1 <= at + Len(t) THEN at + Len(t) - (at + 1) + 1 ELSE 0
        /\ \A i \in 1 .. at + Len(t) - (at + 1) + 1 : c[i] = B[at + 1 + i - 1]
    <3> HIDE DEF S
    <3> QED
      BY <1>2, <2>1, SubSeqProperties
  <2> HIDE DEF c, S
  <2>3. Len(c) = Len(t)
    BY <1>1, <2>2
  <2>4. \A i \in 1 .. Len(t) : at + 1 + i - 1 = at + i /\ i \in 1 .. at + Len(t) - (at + 1) + 1
    BY <1>1
  <2> QED
    BY <2>2, <2>3, <2>4
<1> HIDE DEF c, S
<1>4. IsSequence(c)
  <2>1. Len(c) \in Nat /\ DOMAIN c = 1 .. Len(c) /\ c \in [1 .. Len(c) -> S]
    BY <1>1, <1>3, LenProperties
  <2>2. c \in [1 .. Len(c) -> {c[i] : i \in DOMAIN c}]
    BY <2>1
  <2> QED
    BY <2>1, <2>2, FunctionIsSequence
<1>5. \A i \in 1 .. Len(c) : c[i] = t[i]
  BY <1>3 DEF Has
<1> QED
  BY <1>3, <1>4, <1>5, SameSequence DEF c

LEMMA MaxOfTwo ==
    ASSUME NEW a \in Int, NEW b \in Int
    PROVE  /\ Max({a, b}) \in Int /\ Max({a, b}) >= a /\ Max({a, b}) >= b
           /\ Max({a, b}) = a \/ Max({a, b}) = b
<1>1. \E x \in {a, b} : \A y \in {a, b} : x >= y
  <2>1. CASE a >= b
    BY <2>1
  <2>2. CASE b >= a
    BY <2>2
  <2> QED
    BY <2>1, <2>2
<1>2. Max({a, b}) \in {a, b} /\ \A y \in {a, b} : Max({a, b}) >= y
  BY <1>1 DEF Max
<1> QED
  BY <1>2

LEMMA MinIs ==
    ASSUME NEW S \in SUBSET Nat, S # {}
    PROVE  Min(S) \in S /\ \A y \in S : Min(S) <= y
BY LeastElement DEF Min

-----------------------------------------------------------------------------
(* The structures.                                                         *)

LEMMA TypeFacts ==
    ASSUME NEW p \in Nat
    PROVE  DataTypeForEndpoint(p) \in 1 .. 3
<1>1. p % 3 \in 0 .. 2
  OBVIOUS
<1> QED
  BY <1>1 DEF DataTypeForEndpoint

LEMMA SizeFacts ==
    /\ DataSize(1) = 80 /\ DataSize(2) = 32 /\ DataSize(3) = 56
    /\ \A t : DataSize(t) # 0 => t \in 1 .. 3
    /\ \A t : DataSize(t) \in Nat
BY DEF DataSize

Covers(b, f) == b \in f[2] + 1 .. f[2] + f[3]

\* The fields of a structure have names of their own, tile it and do not overlap.
Tiled(L, size) ==
    /\ \A f \in L : /\ f = <<f[1], f[2], f[3]>> /\ f[2] \in Nat /\ f[3] \in 1 .. 8 /\ f[2] + f[3] <= size
    /\ \A f \in L, g \in L : f[1] = g[1] => f = g
    /\ \A b \in 1 .. size : \E f \in L : Covers(b, f)
    /\ \A b \in 1 .. size : \A f \in L, g \in L : Covers(b, f) /\ Covers(b, g) => f = g

LEMMA BoardTiled == Tiled(Layout(1), 80)
<1>1. Layout(1) = {<< <<"sample_time_ns", 0>>, 0, 8>>, << <<"alarm_flags", 0>>, 72, 4>>,
                   << <<"sample_count", 0>>, 76, 4>>}
           \cup {<< <<"voltage_v", r>>, 8 + 8 * r, 4>> : r \in 0 .. 5}
           \cup {<< <<"current_a", r>>, 12 + 8 * r, 4>> : r \in 0 .. 5}
           \cup {<< <<"temperature_c", t>>, 56 + 4 * t, 4>> : t \in 0 .. 3}
  BY DEF Layout, Scalars
<1>2. \A f \in Layout(1) :
         \/ f = << <<"sample_time_ns", 0>>, 0, 8>>
         \/ f = << <<"alarm_flags", 0>>, 72, 4>>
         \/ f = << <<"sample_count", 0>>, 76, 4>>
         \/ \E r \in 0 .. 5 : f = << <<"voltage_v", r>>, 8 + 8 * r, 4>>
         \/ \E r \in 0 .. 5 : f = << <<"current_a", r>>, 12 + 8 * r, 4>>
         \/ \E r \in 0 .. 3 : f = << <<"temperature_c", r>>, 56 + 4 * r, 4>>
  BY <1>1
<1>3. \A f \in Layout(1) : f = <<f[1], f[2], f[3]>> /\ f[2] \in Nat /\ f[3] \in 1 .. 8 /\ f[2] + f[3] <= 80
  BY <1>2
<1>4. \A f \in Layout(1), g \in Layout(1) : f[1] = g[1] => f = g
  BY <1>2
<1>5. \A b \in 1 .. 80 : \A f \in Layout(1), g \in Layout(1) : Covers(b, f) /\ Covers(b, g) => f = g
  BY <1>2 DEF Covers
<1>6. ASSUME NEW b \in 1 .. 80 PROVE \E f \in Layout(1) : Covers(b, f)
  <2>1. CASE b \in 1 .. 8
    <3>1. << <<"sample_time_ns", 0>>, 0, 8>> \in Layout(1)
      BY <1>1
    <3> QED
      BY <2>1, <3>1 DEF Covers
  <2>2. CASE b \in 73 .. 76
    <3>1. << <<"alarm_flags", 0>>, 72, 4>> \in Layout(1)
      BY <1>1
    <3> QED
      BY <2>2, <3>1 DEF Covers
  <2>3. CASE b \in 77 .. 80
    <3>1. << <<"sample_count", 0>>, 76, 4>> \in Layout(1)
      BY <1>1
    <3> QED
      BY <2>3, <3>1 DEF Covers
  <2>4. CASE \E r \in 0 .. 5 : b \in 8 * r + 9 .. 8 * r + 16
    <3>1. PICK r \in 0 .. 5 : b \in 8 * r + 9 .. 8 * r + 16
      BY <2>4
    <3>2. /\ << <<"voltage_v", r>>, 8 + 8 * r, 4>> \in Layout(1)
          /\ << <<"current_a", r>>, 12 + 8 * r, 4>> \in Layout(1)
      BY <1>1
    <3>3. b \in 8 * r + 9 .. 8 * r + 12 \/ b \in 8 * r + 13 .. 8 * r + 16
      BY <3>1
    <3> QED
      BY <3>2, <3>3 DEF Covers
  <2>5. CASE \E t \in 0 .. 3 : b \in 4 * t + 57 .. 4 * t + 60
    <3>1. PICK t \in 0 .. 3 : b \in 4 * t + 57 .. 4 * t + 60
      BY <2>5
    <3>2. << <<"temperature_c", t>>, 56 + 4 * t, 4>> \in Layout(1)
      BY <1>1
    <3> QED
      BY <3>1, <3>2 DEF Covers
  <2>6. b \in 9 .. 56 => \E r \in 0 .. 5 : b \in 8 * r + 9 .. 8 * r + 16
    <3>1. b \in 9 .. 56 => \/ b \in 9 .. 16 \/ b \in 17 .. 24 \/ b \in 25 .. 32
                           \/ b \in 33 .. 40 \/ b \in 41 .. 48 \/ b \in 49 .. 56
      OBVIOUS
    <3> QED
      BY <3>1
  <2>7. b \in 57 .. 72 => \E t \in 0 .. 3 : b \in 4 * t + 57 .. 4 * t + 60
    <3>1. b \in 57 .. 72 => \/ b \in 57 .. 60 \/ b \in 61 .. 64 \/ b \in 65 .. 68 \/ b \in 69 .. 72
      OBVIOUS
    <3> QED
      BY <3>1
  <2> QED
    BY <2>1, <2>2, <2>3, <2>4, <2>5, <2>6, <2>7
<1> QED
  BY <1>3, <1>4, <1>5, <1>6 DEF Tiled

LEMMA ModeTiled == Tiled(Layout(2), 32)
<1>1. Layout(2) = {<< <<"sample_time_ns", 0>>, 0, 8>>,
                   << <<"uptime_s", 0>>, 8, 4>>,
                   << <<"mode", 0>>, 12, 1>>,
                   << <<"previous_mode", 0>>, 13, 1>>,
                   << <<"mode_change_count", 0>>, 14, 2>>,
                   << <<"status_flags", 0>>, 16, 4>>,
                   << <<"fault_code", 0>>, 20, 4>>,
                   << <<"time_in_mode_s", 0>>, 24, 4>>,
                   << <<"heartbeat", 0>>, 28, 4>>}
  BY DEF Layout, Scalars
<1>2. \A f \in Layout(2) :
         \/ f = << <<"sample_time_ns", 0>>, 0, 8>>
         \/ f = << <<"uptime_s", 0>>, 8, 4>>
         \/ f = << <<"mode", 0>>, 12, 1>>
         \/ f = << <<"previous_mode", 0>>, 13, 1>>
         \/ f = << <<"mode_change_count", 0>>, 14, 2>>
         \/ f = << <<"status_flags", 0>>, 16, 4>>
         \/ f = << <<"fault_code", 0>>, 20, 4>>
         \/ f = << <<"time_in_mode_s", 0>>, 24, 4>>
         \/ f = << <<"heartbeat", 0>>, 28, 4>>
  BY <1>1
<1>3. \A f \in Layout(2) : f = <<f[1], f[2], f[3]>> /\ f[2] \in Nat /\ f[3] \in 1 .. 8 /\ f[2] + f[3] <= 32
  BY <1>2
<1>4. \A f \in Layout(2), g \in Layout(2) : f[1] = g[1] => f = g
  BY <1>2
<1>5. \A b \in 1 .. 32 : \A f \in Layout(2), g \in Layout(2) : Covers(b, f) /\ Covers(b, g) => f = g
  BY <1>2 DEF Covers
<1>6. \A b \in 1 .. 32 :
      \/ Covers(b, << <<"sample_time_ns", 0>>, 0, 8>>)
      \/ Covers(b, << <<"uptime_s", 0>>, 8, 4>>)
      \/ Covers(b, << <<"mode", 0>>, 12, 1>>)
      \/ Covers(b, << <<"previous_mode", 0>>, 13, 1>>)
      \/ Covers(b, << <<"mode_change_count", 0>>, 14, 2>>)
      \/ Covers(b, << <<"status_flags", 0>>, 16, 4>>)
      \/ Covers(b, << <<"fault_code", 0>>, 20, 4>>)
      \/ Covers(b, << <<"time_in_mode_s", 0>>, 24, 4>>)
      \/ Covers(b, << <<"heartbeat", 0>>, 28, 4>>)
  BY DEF Covers
<1>7. \A b \in 1 .. 32 : \E f \in Layout(2) : Covers(b, f)
  BY <1>1, <1>6
<1> QED
  BY <1>3, <1>4, <1>5, <1>7 DEF Tiled

LEMMA PtpTiled == Tiled(Layout(3), 56)
<1>1. Layout(3) = {<< <<"sample_time_ns", 0>>, 0, 8>>,
                   << <<"grandmaster_identity", 0>>, 8, 8>>,
                   << <<"offset_from_master_ns", 0>>, 16, 8>>,
                   << <<"mean_path_delay_ns", 0>>, 24, 8>>,
                   << <<"freq_adjustment_ppb", 0>>, 32, 4>>,
                   << <<"steps_removed", 0>>, 36, 2>>,
                   << <<"current_utc_offset_s", 0>>, 38, 2>>,
                   << <<"port_state", 0>>, 40, 1>>,
                   << <<"servo_state", 0>>, 41, 1>>,
                   << <<"gm_clock_class", 0>>, 42, 1>>,
                   << <<"flags", 0>>, 43, 1>>,
                   << <<"sync_rx_count", 0>>, 44, 4>>,
                   << <<"announce_timeout_count", 0>>, 48, 4>>,
                   << <<"reserved", 0>>, 52, 4>>}
  BY DEF Layout, Scalars
<1>2. \A f \in Layout(3) :
         \/ f = << <<"sample_time_ns", 0>>, 0, 8>>
         \/ f = << <<"grandmaster_identity", 0>>, 8, 8>>
         \/ f = << <<"offset_from_master_ns", 0>>, 16, 8>>
         \/ f = << <<"mean_path_delay_ns", 0>>, 24, 8>>
         \/ f = << <<"freq_adjustment_ppb", 0>>, 32, 4>>
         \/ f = << <<"steps_removed", 0>>, 36, 2>>
         \/ f = << <<"current_utc_offset_s", 0>>, 38, 2>>
         \/ f = << <<"port_state", 0>>, 40, 1>>
         \/ f = << <<"servo_state", 0>>, 41, 1>>
         \/ f = << <<"gm_clock_class", 0>>, 42, 1>>
         \/ f = << <<"flags", 0>>, 43, 1>>
         \/ f = << <<"sync_rx_count", 0>>, 44, 4>>
         \/ f = << <<"announce_timeout_count", 0>>, 48, 4>>
         \/ f = << <<"reserved", 0>>, 52, 4>>
  BY <1>1
<1>3. \A f \in Layout(3) : f = <<f[1], f[2], f[3]>> /\ f[2] \in Nat /\ f[3] \in 1 .. 8 /\ f[2] + f[3] <= 56
  BY <1>2
<1>4. \A f \in Layout(3), g \in Layout(3) : f[1] = g[1] => f = g
  BY <1>2
<1>5. \A b \in 1 .. 56 : \A f \in Layout(3), g \in Layout(3) : Covers(b, f) /\ Covers(b, g) => f = g
  BY <1>2 DEF Covers
<1>6. \A b \in 1 .. 56 :
      \/ Covers(b, << <<"sample_time_ns", 0>>, 0, 8>>)
      \/ Covers(b, << <<"grandmaster_identity", 0>>, 8, 8>>)
      \/ Covers(b, << <<"offset_from_master_ns", 0>>, 16, 8>>)
      \/ Covers(b, << <<"mean_path_delay_ns", 0>>, 24, 8>>)
      \/ Covers(b, << <<"freq_adjustment_ppb", 0>>, 32, 4>>)
      \/ Covers(b, << <<"steps_removed", 0>>, 36, 2>>)
      \/ Covers(b, << <<"current_utc_offset_s", 0>>, 38, 2>>)
      \/ Covers(b, << <<"port_state", 0>>, 40, 1>>)
      \/ Covers(b, << <<"servo_state", 0>>, 41, 1>>)
      \/ Covers(b, << <<"gm_clock_class", 0>>, 42, 1>>)
      \/ Covers(b, << <<"flags", 0>>, 43, 1>>)
      \/ Covers(b, << <<"sync_rx_count", 0>>, 44, 4>>)
      \/ Covers(b, << <<"announce_timeout_count", 0>>, 48, 4>>)
      \/ Covers(b, << <<"reserved", 0>>, 52, 4>>)
  BY DEF Covers
<1>7. \A b \in 1 .. 56 : \E f \in Layout(3) : Covers(b, f)
  BY <1>1, <1>6
<1> QED
  BY <1>3, <1>4, <1>5, <1>7 DEF Tiled

LEMMA LayoutTiled ==
    ASSUME NEW t \in 1 .. 3
    PROVE  Tiled(Layout(t), DataSize(t))
BY BoardTiled, ModeTiled, PtpTiled, SizeFacts

\* The encoded structure: every field whole at its place, and nothing else.
LEMMA EncodedIs ==
    ASSUME NEW t \in 1 .. 3
    PROVE  /\ IsSequence(Encoded(t)) /\ Len(Encoded(t)) = DataSize(t)
           /\ \A f \in Layout(t) : \A k \in 1 .. f[3] : Encoded(t)[f[2] + k] = <<"field", f[1], k>>
           /\ \A b \in 1 .. DataSize(t) : \E n, k : Encoded(t)[b] = <<"field", n, k>>
<1> DEFINE Field(b) == CHOOSE g \in Layout(t) : Covers(b, g)
           size == DataSize(t)
<1>1. size \in Nat
  BY SizeFacts
<1>2. Tiled(Layout(t), size)
  BY LayoutTiled
<1>3. \A b \in 1 .. size : Field(b) \in Layout(t) /\ Covers(b, Field(b))
  BY <1>2 DEF Tiled
<1>4. Encoded(t) = [b \in 1 .. size |-> FieldBytes(Field(b)[1], Field(b)[3])[b - Field(b)[2]]]
  BY DEF Encoded, Covers
<1> HIDE DEF Field, size
<1>5. \A b \in 1 .. size : Encoded(t)[b] = <<"field", Field(b)[1], b - Field(b)[2]>>
  <2> TAKE b \in 1 .. size
  <2> DEFINE f == Field(b)
  <2>1. f[2] \in Nat /\ f[3] \in 1 .. 8 /\ b - f[2] \in 1 .. f[3]
    BY <1>1, <1>2, <1>3 DEF Tiled, Covers
  <2>2. Encoded(t)[b] = FieldBytes(f[1], f[3])[b - f[2]]
    BY <1>4
  <2> HIDE DEF f
  <2>3. Encoded(t)[b] = <<"field", f[1], b - f[2]>>
    BY <2>1, <2>2 DEF FieldBytes
  <2> QED
    BY <2>3 DEF f
<1>6. IsSequence(Encoded(t)) /\ Len(Encoded(t)) = size
  <2> DEFINE E == Encoded(t)
  <2>1. E \in [1 .. size -> {E[b] : b \in 1 .. size}]
    BY <1>4
  <2> HIDE DEF E
  <2>2. IsSequence(E) /\ Len(E) = size
    BY <1>1, <2>1, FunctionIsSequence
  <2> QED
    BY <2>2 DEF E
<1>7. ASSUME NEW f \in Layout(t), NEW k \in 1 .. f[3]
      PROVE  Encoded(t)[f[2] + k] = <<"field", f[1], k>>
  <2> DEFINE b == f[2] + k
  <2>1. f[2] \in Nat /\ f[3] \in 1 .. 8 /\ b \in 1 .. size /\ b - f[2] = k
    BY <1>1, <1>2 DEF Tiled
  <2>2. Covers(b, f)
    BY <2>1 DEF Covers
  <2> HIDE DEF b
  <2>3. Field(b) = f
    <3>1. Field(b) \in Layout(t) /\ Covers(b, Field(b))
      BY <1>3, <2>1
    <3> QED
      BY <1>2, <2>1, <2>2, <3>1 DEF Tiled
  <2>4. Encoded(t)[b] = <<"field", f[1], k>>
    BY <1>5, <2>1, <2>3
  <2> QED
    BY <2>4 DEF b
<1>8. \A b \in 1 .. size : \E n, k : Encoded(t)[b] = <<"field", n, k>>
  BY <1>5
<1> QED
  BY <1>6, <1>7, <1>8 DEF size

-----------------------------------------------------------------------------
(* The bytes of a message.                                                 *)

TypeOf(m) == DataTypeForEndpoint(m.publisher)
Used(m) == TestHeaderSize + DataSize(TypeOf(m))
Body(m) == Max({m.size, Used(m)})
TopicFrame(m) == IF m.multipart THEN Bytes(m.topic) ELSE << >>
TopicPrefix(m) == IF m.multipart THEN << >> ELSE Bytes(m.topic)
Declared(m) == DeclaredLength(TopicPrefix(m), Body(m))
Filler(n) == [i \in 1 .. n |-> <<"filler", i, 0>>]

\* What stands in B behind its first p bytes.
Laid(B, p, m) ==
    /\ Has(B, p, Magic)
    /\ Has(B, p + 4, Number(m.publisher, 4)) /\ Has(B, p + 8, Bytes(m.index))
    /\ Has(B, p + 16, Number(Declared(m), 4)) /\ Has(B, p + 20, Number(TypeOf(m), 2))
    /\ Has(B, p + 22, Number(DataSize(TypeOf(m)), 2))
    /\ Has(B, p + 24, Encoded(TypeOf(m)))
    /\ Has(B, p + Used(m), Filler(Body(m) - Used(m)))

LEMMA NumberIs ==
    ASSUME NEW v, NEW w \in Nat
    PROVE  /\ IsSequence(Number(v, w)) /\ Len(Number(v, w)) = w
           /\ \A k \in 1 .. w : Number(v, w)[k] = <<"byte", (v \div Scale[k]) % 256, 0>>
<1> DEFINE N == Number(v, w)
<1>1. /\ N \in [1 .. w -> {N[k] : k \in 1 .. w}]
      /\ \A k \in 1 .. w : N[k] = <<"byte", (v \div Scale[k]) % 256, 0>>
  BY DEF Number
<1> HIDE DEF N
<1>2. IsSequence(N) /\ Len(N) = w
  BY <1>1, FunctionIsSequence
<1> QED
  BY <1>1, <1>2 DEF N

LEMMA WidthsAre ==
    ASSUME NEW v
    PROVE  /\ IsSequence(Number(v, 2)) /\ Len(Number(v, 2)) = 2
           /\ IsSequence(Number(v, 4)) /\ Len(Number(v, 4)) = 4
<1> DEFINE two == 2
           four == 4
<1>1. two \in Nat /\ four \in Nat
  OBVIOUS
<1> HIDE DEF two, four
<1>2. IsSequence(Number(v, two)) /\ Len(Number(v, two)) = two
  BY <1>1, NumberIs
<1>3. IsSequence(Number(v, four)) /\ Len(Number(v, four)) = four
  BY <1>1, NumberIs
<1> QED
  BY <1>2, <1>3 DEF two, four

LEMMA FillerIs ==
    ASSUME NEW n \in Nat
    PROVE  /\ IsSequence(Filler(n)) /\ Len(Filler(n)) = n
           /\ \A k \in 1 .. n : Filler(n)[k] = <<"filler", k, 0>>
<1> DEFINE N == Filler(n)
<1>1. N \in [1 .. n -> {N[k] : k \in 1 .. n}] /\ \A k \in 1 .. n : N[k] = <<"filler", k, 0>>
  BY DEF Filler
<1> HIDE DEF N
<1>2. IsSequence(N) /\ Len(N) = n
  BY <1>1, FunctionIsSequence
<1> QED
  BY <1>1, <1>2 DEF N

LEMMA BytesIs ==
    ASSUME NEW S, NEW s \in Seq(S)
    PROVE  /\ IsSequence(Bytes(s)) /\ Len(Bytes(s)) = Len(s)
           /\ \A k \in 1 .. Len(s) : Bytes(s)[k] = <<"byte", s[k], 0>>
<1> DEFINE C == Bytes(s)
<1>1. Len(s) \in Nat /\ DOMAIN s = 1 .. Len(s)
  BY LenProperties
<1>2. C \in [1 .. Len(s) -> {C[k] : k \in 1 .. Len(s)}] /\ \A k \in 1 .. Len(s) : C[k] = <<"byte", s[k], 0>>
  BY <1>1 DEF Bytes
<1> HIDE DEF C
<1>3. IsSequence(C) /\ Len(C) = Len(s)
  BY <1>1, <1>2, FunctionIsSequence
<1> QED
  BY <1>2, <1>3 DEF C

LEMMA MagicIs ==
    /\ IsSequence(Magic) /\ Len(Magic) = 4
    /\ Magic[1] = <<"byte", 84, 0>> /\ Magic[2] = <<"byte", 69, 0>>
    /\ Magic[3] = <<"byte", 83, 0>> /\ Magic[4] = <<"byte", 84, 0>>
<1> DEFINE w == <<84, 69, 83, 84>>
<1>1. w \in Seq({84, 69, 83}) /\ Len(w) = 4 /\ w[1] = 84 /\ w[2] = 69 /\ w[3] = 83 /\ w[4] = 84
  OBVIOUS
<1> HIDE DEF w
<1>2. /\ IsSequence(Bytes(w)) /\ Len(Bytes(w)) = 4
      /\ \A k \in 1 .. 4 : Bytes(w)[k] = <<"byte", w[k], 0>>
  BY <1>1, BytesIs
<1>3. Bytes(w)[1] = <<"byte", 84, 0>> /\ Bytes(w)[2] = <<"byte", 69, 0>>
      /\ Bytes(w)[3] = <<"byte", 83, 0>> /\ Bytes(w)[4] = <<"byte", 84, 0>>
  BY <1>1, <1>2
<1> QED
  BY <1>2, <1>3 DEF Magic, w

LEMMA MessageFacts ==
    ASSUME NEW m \in Messages
    PROVE  /\ TypeOf(m) \in 1 .. 3 /\ DataSize(TypeOf(m)) \in Nat /\ DataSize(TypeOf(m)) # 0
           /\ Used(m) = 24 + DataSize(TypeOf(m)) /\ Body(m) \in Nat /\ Body(m) >= Used(m)
           /\ IsSequence(Bytes(m.topic)) /\ Len(m.topic) \in Nat /\ Len(Bytes(m.topic)) = Len(m.topic)
           /\ IsSequence(Bytes(m.index)) /\ Len(Bytes(m.index)) = 8
           /\ IsSequence(TopicFrame(m)) /\ IsSequence(TopicPrefix(m))
           /\ Len(TopicFrame(m)) + Len(TopicPrefix(m)) = Len(m.topic)
           /\ Len(TopicFrame(m)) \in Nat /\ Len(TopicPrefix(m)) \in Nat
           /\ (m.multipart => m.topic = << >>) => Len(TopicPrefix(m)) = Len(m.topic)
<1>1. /\ m.topic \in Seq(ToSet(m.topic)) /\ m.multipart \in BOOLEAN
      /\ m.publisher \in Nat /\ m.size \in Nat
      /\ m.index \in Seq(0 .. 255) /\ Len(m.index) = 8
  BY TelemetryAssumption
<1>2. TypeOf(m) \in 1 .. 3 /\ DataSize(TypeOf(m)) \in Nat /\ DataSize(TypeOf(m)) # 0
  <2>1. TypeOf(m) \in 1 .. 3
    BY <1>1, TypeFacts DEF TypeOf
  <2> QED
    BY <2>1, SizeFacts
<1>3. Used(m) = 24 + DataSize(TypeOf(m))
  BY DEF Used, TestHeaderSize
<1>4. Body(m) \in Nat /\ Body(m) >= Used(m)
  <2>1. m.size \in Int /\ Used(m) \in Int /\ Used(m) >= 0
    BY <1>1, <1>2, <1>3
  <2>2. Body(m) \in Int /\ Body(m) >= Used(m)
    BY <2>1, MaxOfTwo DEF Body
  <2> QED
    BY <2>1, <2>2
<1>5. /\ IsSequence(Bytes(m.topic)) /\ Len(m.topic) \in Nat /\ Len(Bytes(m.topic)) = Len(m.topic)
  <2> DEFINE t == m.topic
             S == ToSet(t)
  <2>1. t \in Seq(S)
    BY <1>1
  <2> HIDE DEF t, S
  <2>2. IsSequence(Bytes(t)) /\ Len(t) \in Nat /\ Len(Bytes(t)) = Len(t)
    BY <2>1, BytesIs, LenProperties
  <2> QED
    BY <2>2 DEF t
<1>6. IsSequence(<< >>) /\ Len(<< >>) = 0
  BY Sequences
<1>7. /\ IsSequence(TopicFrame(m)) /\ IsSequence(TopicPrefix(m))
      /\ Len(TopicFrame(m)) + Len(TopicPrefix(m)) = Len(m.topic)
      /\ Len(TopicFrame(m)) \in Nat /\ Len(TopicPrefix(m)) \in Nat
      /\ (m.multipart => m.topic = << >>) => Len(TopicPrefix(m)) = Len(m.topic)
  <2>1. CASE m.multipart
    <3>1. TopicFrame(m) = Bytes(m.topic) /\ TopicPrefix(m) = << >>
      BY <2>1 DEF TopicFrame, TopicPrefix
    <3>2. m.topic = << >> => Len(m.topic) = 0
      BY <1>6
    <3> HIDE DEF TopicFrame, TopicPrefix
    <3> QED
      BY <1>5, <1>6, <2>1, <3>1, <3>2
  <2>2. CASE ~m.multipart
    <3>1. TopicFrame(m) = << >> /\ TopicPrefix(m) = Bytes(m.topic)
      BY <2>2 DEF TopicFrame, TopicPrefix
    <3> HIDE DEF TopicFrame, TopicPrefix
    <3> QED
      BY <1>5, <1>6, <2>2, <3>1
  <2> QED
    BY <1>1, <2>1, <2>2
<1>8. IsSequence(Bytes(m.index)) /\ Len(Bytes(m.index)) = 8
  BY <1>1, BytesIs
<1> QED
  BY <1>2, <1>3, <1>4, <1>5, <1>7, <1>8

\* The payload is put together piece by piece.
LEMMA PayloadIs ==
    ASSUME NEW m \in Messages
    PROVE  /\ IsSequence(TestPayload(m)) /\ Len(TestPayload(m)) = Len(TopicPrefix(m)) + Body(m)
           /\ Has(TestPayload(m), 0, TopicPrefix(m)) /\ Laid(TestPayload(m), Len(TopicPrefix(m)), m)
<1> DEFINE p == Len(TopicPrefix(m))
           z == DataSize(TypeOf(m))
           s0 == TopicPrefix(m)
           t1 == Magic
           t2 == Number(m.publisher, 4)
           t3 == Bytes(m.index)
           t4 == Number(Declared(m), 4)
           t5 == Number(TypeOf(m), 2)
           t6 == Number(z, 2)
           t7 == Encoded(TypeOf(m))
           t8 == Filler(Body(m) - Used(m))
           s1 == s0 \o t1
           s2 == s1 \o t2
           s3 == s2 \o t3
           s4 == s3 \o t4
           s5 == s4 \o t5
           s6 == s5 \o t6
           s7 == s6 \o t7
           s8 == s7 \o t8
<1>0. TestPayload(m) = s8
  <2> DEFINE rest == Body(m) - TestHeaderSize - DataSize(TypeOf(m))
  <2>1. rest = Body(m) - Used(m)
    <3>1. Body(m) \in Int /\ DataSize(TypeOf(m)) \in Int
      BY MessageFacts
    <3> QED
      BY <3>1 DEF Used, TestHeaderSize
  <2>2. TestPayload(m) = s7 \o Filler(rest)
    BY DEF TestPayload, Declared, Body, Used, TypeOf, TopicPrefix, Filler
  <2> HIDE DEF rest
  <2> QED
    BY <2>1, <2>2
<1>1. /\ IsSequence(s0) /\ Len(s0) = p /\ p \in Nat
      /\ IsSequence(t1) /\ Len(t1) = 4 /\ IsSequence(t2) /\ Len(t2) = 4 /\ IsSequence(t3) /\ Len(t3) = 8
      /\ IsSequence(t4) /\ Len(t4) = 4 /\ IsSequence(t5) /\ Len(t5) = 2 /\ IsSequence(t6) /\ Len(t6) = 2
  <2>1. /\ IsSequence(s0) /\ Len(s0) = p /\ p \in Nat /\ IsSequence(t3) /\ Len(t3) = 8
    BY MessageFacts
  <2>2. IsSequence(t1) /\ Len(t1) = 4
    BY MagicIs
  <2>3. /\ IsSequence(t2) /\ Len(t2) = 4 /\ IsSequence(t4) /\ Len(t4) = 4
        /\ IsSequence(t5) /\ Len(t5) = 2 /\ IsSequence(t6) /\ Len(t6) = 2
    BY WidthsAre
  <2> QED
    BY <2>1, <2>2, <2>3
<1>2. /\ IsSequence(t7) /\ Len(t7) = z /\ z \in Nat
      /\ Used(m) = 24 + z /\ Body(m) \in Nat /\ Body(m) >= Used(m)
  BY MessageFacts, EncodedIs
<1>3. IsSequence(t8) /\ Len(t8) = Body(m) - Used(m) /\ Body(m) - Used(m) \in Nat
  <2>1. Body(m) - Used(m) \in Nat
    BY <1>2
  <2> QED
    BY <2>1, FillerIs
<1>4. Has(s0, 0, s0)
  BY <1>1 DEF Has
<1>11. IsSequence(s1) /\ Len(s1) = Len(s0) + Len(t1)
  <2> HIDE DEF s0, t1
  <2> QED
    BY <1>1, Behind
<1>12. IsSequence(s2) /\ Len(s2) = Len(s1) + Len(t2)
  <2> HIDE DEF s1, t2
  <2> QED
    BY <1>11, <1>1, Behind
<1>13. IsSequence(s3) /\ Len(s3) = Len(s2) + Len(t3)
  <2> HIDE DEF s2, t3
  <2> QED
    BY <1>12, <1>1, Behind
<1>14. IsSequence(s4) /\ Len(s4) = Len(s3) + Len(t4)
  <2> HIDE DEF s3, t4
  <2> QED
    BY <1>13, <1>1, Behind
<1>15. IsSequence(s5) /\ Len(s5) = Len(s4) + Len(t5)
  <2> HIDE DEF s4, t5
  <2> QED
    BY <1>14, <1>1, Behind
<1>16. IsSequence(s6) /\ Len(s6) = Len(s5) + Len(t6)
  <2> HIDE DEF s5, t6
  <2> QED
    BY <1>15, <1>1, Behind
<1>17. IsSequence(s7) /\ Len(s7) = Len(s6) + Len(t7)
  <2> HIDE DEF s6, t7
  <2> QED
    BY <1>16, <1>2, Behind
<1>18. IsSequence(s8) /\ Len(s8) = Len(s7) + Len(t8)
  <2> HIDE DEF s7, t8
  <2> QED
    BY <1>17, <1>3, Behind
<1> HIDE DEF s0, t1, t2, t3, t4, t5, t6, t7, t8, z, p
<1>20. /\ Len(s1) = p + 4 /\ Len(s2) = p + 8 /\ Len(s3) = p + 16 /\ Len(s4) = p + 20
       /\ Len(s5) = p + 22 /\ Len(s6) = p + 24 /\ Len(s7) = p + Used(m) /\ Len(s8) = p + Body(m)
  <2> HIDE DEF s1, s2, s3, s4, s5, s6, s7, s8
  <2> QED
    BY <1>1, <1>2, <1>3, <1>11, <1>12, <1>13, <1>14, <1>15, <1>16, <1>17, <1>18
<1>31. /\ Has(s1, Len(s0), t1)
       /\ \A at \in Nat : \A u : IsSequence(u) /\ Has(s0, at, u) => Has(s1, at, u)
  <2> HIDE DEF s0
  <2> QED
    BY <1>1, Behind
<1>32. /\ Has(s2, Len(s1), t2)
       /\ \A at \in Nat : \A u : IsSequence(u) /\ Has(s1, at, u) => Has(s2, at, u)
  <2> HIDE DEF s1
  <2> QED
    BY <1>11, <1>1, Behind
<1>33. /\ Has(s3, Len(s2), t3)
       /\ \A at \in Nat : \A u : IsSequence(u) /\ Has(s2, at, u) => Has(s3, at, u)
  <2> HIDE DEF s2
  <2> QED
    BY <1>12, <1>1, Behind
<1>34. /\ Has(s4, Len(s3), t4)
       /\ \A at \in Nat : \A u : IsSequence(u) /\ Has(s3, at, u) => Has(s4, at, u)
  <2> HIDE DEF s3
  <2> QED
    BY <1>13, <1>1, Behind
<1>35. /\ Has(s5, Len(s4), t5)
       /\ \A at \in Nat : \A u : IsSequence(u) /\ Has(s4, at, u) => Has(s5, at, u)
  <2> HIDE DEF s4
  <2> QED
    BY <1>14, <1>1, Behind
<1>36. /\ Has(s6, Len(s5), t6)
       /\ \A at \in Nat : \A u : IsSequence(u) /\ Has(s5, at, u) => Has(s6, at, u)
  <2> HIDE DEF s5
  <2> QED
    BY <1>15, <1>1, Behind
<1>37. /\ Has(s7, Len(s6), t7)
       /\ \A at \in Nat : \A u : IsSequence(u) /\ Has(s6, at, u) => Has(s7, at, u)
  <2> HIDE DEF s6
  <2> QED
    BY <1>16, <1>2, Behind
<1>38. /\ Has(s8, Len(s7), t8)
       /\ \A at \in Nat : \A u : IsSequence(u) /\ Has(s7, at, u) => Has(s8, at, u)
  <2> HIDE DEF s7
  <2> QED
    BY <1>17, <1>3, Behind
<1> HIDE DEF s1, s2, s3, s4, s5, s6, s7, s8
<1>40. Has(s8, 0, s0)
  BY <1>1, <1>4, <1>31, <1>32, <1>33, <1>34, <1>35, <1>36, <1>37, <1>38
<1>41. Has(s8, p, t1)
  <2>1. p \in Nat /\ IsSequence(t1)
    BY <1>1, <1>2, <1>3
  <2>2. Has(s1, p, t1)
    BY <1>1, <1>20, <1>31
  <2> QED
    BY <2>1, <2>2, <1>32, <1>33, <1>34, <1>35, <1>36, <1>37, <1>38
<1>42. Has(s8, p + 4, t2)
  <2>1. p + 4 \in Nat /\ IsSequence(t2)
    BY <1>1, <1>2, <1>3
  <2>2. Has(s2, p + 4, t2)
    BY <1>1, <1>20, <1>32
  <2> QED
    BY <2>1, <2>2, <1>33, <1>34, <1>35, <1>36, <1>37, <1>38
<1>43. Has(s8, p + 8, t3)
  <2>1. p + 8 \in Nat /\ IsSequence(t3)
    BY <1>1, <1>2, <1>3
  <2>2. Has(s3, p + 8, t3)
    BY <1>1, <1>20, <1>33
  <2> QED
    BY <2>1, <2>2, <1>34, <1>35, <1>36, <1>37, <1>38
<1>44. Has(s8, p + 16, t4)
  <2>1. p + 16 \in Nat /\ IsSequence(t4)
    BY <1>1, <1>2, <1>3
  <2>2. Has(s4, p + 16, t4)
    BY <1>1, <1>20, <1>34
  <2> QED
    BY <2>1, <2>2, <1>35, <1>36, <1>37, <1>38
<1>45. Has(s8, p + 20, t5)
  <2>1. p + 20 \in Nat /\ IsSequence(t5)
    BY <1>1, <1>2, <1>3
  <2>2. Has(s5, p + 20, t5)
    BY <1>1, <1>20, <1>35
  <2> QED
    BY <2>1, <2>2, <1>36, <1>37, <1>38
<1>46. Has(s8, p + 22, t6)
  <2>1. p + 22 \in Nat /\ IsSequence(t6)
    BY <1>1, <1>2, <1>3
  <2>2. Has(s6, p + 22, t6)
    BY <1>1, <1>20, <1>36
  <2> QED
    BY <2>1, <2>2, <1>37, <1>38
<1>47. Has(s8, p + 24, t7)
  <2>1. p + 24 \in Nat /\ IsSequence(t7)
    BY <1>1, <1>2, <1>3
  <2>2. Has(s7, p + 24, t7)
    BY <1>1, <1>20, <1>37
  <2> QED
    BY <2>1, <2>2, <1>38
<1>48. Has(s8, p + Used(m), t8)
  <2>1. p + Used(m) \in Nat /\ IsSequence(t8)
    BY <1>1, <1>2, <1>3
  <2>2. Has(s8, p + Used(m), t8)
    BY <1>1, <1>20, <1>38
  <2> QED
    BY <2>1, <2>2
<1> QED
  <2>1. IsSequence(s8) /\ Len(s8) = p + Body(m)
    BY <1>18, <1>20
  <2>2. Laid(s8, p, m)
    BY <1>41, <1>42, <1>43, <1>44, <1>45, <1>46, <1>47, <1>48
       DEF Laid, t1, t2, t3, t4, t5, t6, t7, t8, z
  <2> QED
    BY <1>0, <1>40, <2>1, <2>2 DEF s0, p

\* The same of the message the bridge relays, behind the topic.
LEMMA RelayedIs ==
    ASSUME NEW m \in Messages
    PROVE  /\ IsSequence(Relayed(m)) /\ Len(Relayed(m)) = Len(m.topic) + Body(m)
           /\ Has(Relayed(m), 0, Bytes(m.topic)) /\ Laid(Relayed(m), Len(m.topic), m)
<1> DEFINE f == TopicFrame(m)
           s == TestPayload(m)
           B == f \o s
           p == Len(TopicPrefix(m))
           P == Len(m.topic)
<1>0. B = Relayed(m)
  BY DEF Relayed, TopicFrame
<1>1. /\ IsSequence(f) /\ IsSequence(s) /\ IsSequence(TopicPrefix(m)) /\ p \in Nat /\ Len(f) + p = P
      /\ Len(f) \in Nat /\ Len(s) = p + Body(m) /\ Has(s, 0, TopicPrefix(m)) /\ Laid(s, p, m)
      /\ Body(m) \in Nat /\ Used(m) \in Nat /\ Len(Bytes(m.topic)) = P /\ P \in Nat
      /\ IsSequence(Bytes(m.topic)) /\ TypeOf(m) \in 1 .. 3 /\ DataSize(TypeOf(m)) \in Nat
      /\ Body(m) - Used(m) \in Nat
  BY MessageFacts, PayloadIs
<1>2. \/ f = Bytes(m.topic)
      \/ Len(f) = 0 /\ TopicPrefix(m) = Bytes(m.topic)
  BY Sequences DEF TopicFrame, TopicPrefix
<1>3. Has(f, 0, f)
  BY <1>1 DEF Has
<1> HIDE DEF f, s, p, P
<1>4. /\ IsSequence(B) /\ Len(B) = Len(f) + Len(s)
      /\ \A at \in Nat : \A u : IsSequence(u) /\ Has(f, at, u) => Has(B, at, u)
      /\ \A at \in Nat : \A u : IsSequence(u) /\ Has(s, at, u) => Has(B, Len(f) + at, u)
  BY <1>1, Behind
<1> HIDE DEF B
<1>5. Len(B) = P + Body(m)
  BY <1>1, <1>4
<1>6. Has(B, 0, Bytes(m.topic))
  <2>1. CASE f = Bytes(m.topic)
    BY <1>1, <1>3, <1>4, <2>1
  <2>2. CASE Len(f) = 0 /\ TopicPrefix(m) = Bytes(m.topic)
    <3>1. 0 \in Nat /\ IsSequence(TopicPrefix(m)) /\ Has(s, 0, TopicPrefix(m))
      BY <1>1
    <3>2. Has(B, Len(f) + 0, TopicPrefix(m))
      BY <1>4, <3>1
    <3> QED
      BY <2>2, <3>2
  <2> QED
    BY <1>2, <2>1, <2>2
<1>7. ASSUME NEW k \in Nat, NEW u, IsSequence(u), Has(s, p + k, u)
      PROVE  Has(B, P + k, u)
  <2>1. Has(B, Len(f) + (p + k), u)
    <3>1. p + k \in Nat
      BY <1>1
    <3> QED
      BY <1>4, <1>7, <3>1
  <2>2. Len(f) + (p + k) = P + k
    BY <1>1
  <2> QED
    BY <2>1, <2>2
<1>8. Laid(B, P, m)
  <2>1. /\ IsSequence(Magic) /\ IsSequence(Number(m.publisher, 4)) /\ IsSequence(Bytes(m.index))
        /\ IsSequence(Number(Declared(m), 4)) /\ IsSequence(Number(TypeOf(m), 2))
        /\ IsSequence(Number(DataSize(TypeOf(m)), 2)) /\ IsSequence(Encoded(TypeOf(m)))
        /\ IsSequence(Filler(Body(m) - Used(m)))
    BY <1>1, MagicIs, NumberIs, MessageFacts, EncodedIs, FillerIs
  <2>2. p + 0 = p /\ P + 0 = P
    BY <1>1
  <2> QED
    BY <1>1, <1>7, <2>1, <2>2 DEF Laid
<1> QED
  BY <1>0, <1>4, <1>5, <1>6, <1>8 DEF P

\* A number is read where it stands.
LEMMA NumberHere ==
    ASSUME NEW B, IsSequence(B), NEW t, IsSequence(t), NEW at \in Nat, Has(B, at, t)
    PROVE  NumberAt(B, at + 1, Len(t)) = t
<1>1. Len(t) \in Nat
  BY Sequences
<1>2. at + 1 + Len(t) - 1 = at + Len(t)
  BY <1>1
<1>3. SubSeq(B, at + 1, at + Len(t)) = t
  BY CutOut
<1> QED
  BY <1>2, <1>3 DEF NumberAt

ValuesIn(B, i, j) == {B[q] : q \in i .. j}

\* A piece is the bytes at its place.
LEMMA PieceBytes ==
    ASSUME NEW B, NEW i \in Int, NEW j \in Int, i <= j + 1
    PROVE  /\ Len(SubSeq(B, i, j)) = j - i + 1
           /\ \A k \in 1 .. j - i + 1 : SubSeq(B, i, j)[k] = B[i + k - 1]
           /\ SubSeq(B, i, j) \in Seq(ValuesIn(B, i, j))
<1> DEFINE S == ValuesIn(B, i, j)
<1>1. \A q \in i .. j : B[q] \in S
  BY DEF ValuesIn
<1> HIDE DEF S
<1>2. /\ SubSeq(B, i, j) \in Seq(S)
      /\ Len(SubSeq(B, i, j)) = IF i <= j THEN j - i + 1 ELSE 0
      /\ \A k \in 1 .. j - i + 1 : SubSeq(B, i, j)[k] = B[i + k - 1]
  BY <1>1, SubSeqProperties
<1> QED
  BY <1>2 DEF S

PieceIs(B, i, j) ==
    Len(SubSeq(B, i, j)) = j - i + 1 /\ \A k \in 1 .. j - i + 1 : SubSeq(B, i, j)[k] = B[i + k - 1]

LEMMA PiecesAre == \A B : \A i, j \in Int : i <= j + 1 => PieceIs(B, i, j)
BY PieceBytes DEF PieceIs

\* Pieces of the same bytes are the same.
LEMMA SamePiece ==
    ASSUME NEW B, NEW C, NEW i \in Int, NEW j \in Int, i <= j + 1,
           \A q \in i .. j : B[q] = C[q]
    PROVE  SubSeq(B, i, j) = SubSeq(C, i, j)
<1> DEFINE b == SubSeq(B, i, j)
           c == SubSeq(C, i, j)
           n == j - i + 1
           S == ValuesIn(B, i, j)
           T == ValuesIn(C, i, j)
<1>1. Len(b) = n /\ b \in Seq(S) /\ \A k \in 1 .. n : b[k] = B[i + k - 1]
  BY PieceBytes, Zenon
<1>2. Len(c) = n /\ c \in Seq(T) /\ \A k \in 1 .. n : c[k] = C[i + k - 1]
  BY PieceBytes, Zenon
<1>3. S = T
  BY DEF ValuesIn
<1>4. \A k \in 1 .. n : B[i + k - 1] = C[i + k - 1]
  <2> TAKE k \in 1 .. n
  <2>1. i + k - 1 \in i .. j
    OBVIOUS
  <2> QED
    BY <2>1
<1> HIDE DEF b, c, n, S, T
<1>5. b \in Seq(S) /\ c \in Seq(S) /\ Len(b) = Len(c) /\ \A k \in 1 .. Len(b) : b[k] = c[k]
  BY <1>1, <1>2, <1>3, <1>4
<1>6. b = c
  BY <1>5, SeqEqual
<1> QED
  BY <1>6 DEF b, c

-----------------------------------------------------------------------------
(* What the export decodes.                                                *)

\* The magic stands where the publisher put it, and before it only in the topic
\* or made up by its end.
LEMMA MagicFound ==
    ASSUME NEW m \in Messages, NEW B, B = Relayed(m)
    PROVE  /\ Len(m.topic) + 1 \in MagicIn(B)
           /\ MagicIn(B) # {} /\ Min(MagicIn(B)) \in MagicIn(B)
           /\ Min(MagicIn(B)) \in 1 .. Len(m.topic) + 1
<1> DEFINE P == Len(m.topic)
           M == MagicIn(B)
<1>1. /\ P \in Nat /\ IsSequence(B) /\ Len(B) = P + Body(m) /\ Body(m) \in Nat /\ Body(m) >= 24
      /\ Has(B, P, Magic)
  BY MessageFacts, RelayedIs DEF Laid
<1>2. IsSequence(Magic) /\ Len(Magic) = 4
  BY MagicIs
<1>3. P + 1 \in M
  <2>1. SubSeq(B, P + 1, P + Len(Magic)) = Magic
    BY <1>1, <1>2, CutOut
  <2>2. P + Len(Magic) = P + 1 + 3 /\ P + 1 \in 1 .. Len(B) - 3
    BY <1>1, <1>2
  <2> QED
    BY <2>1, <2>2 DEF MagicIn
<1>4. M \in SUBSET Nat /\ \A i \in M : i >= 1
  BY DEF MagicIn
<1> HIDE DEF M
<1>5. Min(M) \in M /\ \A y \in M : Min(M) <= y
  BY <1>3, <1>4, MinIs
<1>6. Min(M) \in 1 .. P + 1
  <2> DEFINE x == Min(M)
  <2>1. x \in Nat /\ x >= 1 /\ x <= P + 1
    BY <1>3, <1>4, <1>5
  <2> HIDE DEF x
  <2> QED
    BY <1>1, <2>1 DEF x
<1> QED
  BY <1>3, <1>5, <1>6 DEF M, P

\* Where the topic does not hold the magic, no header is recognised but the real
\* one: when the end of the topic makes up the magic, a byte of the type stands
\* where the length of the structure is read.
LEMMA HeaderFound ==
    ASSUME NEW m \in Messages, NEW B, B = Relayed(m), MagicIn(Bytes(m.topic)) = {},
           NEW at \in MagicIn(B), at \in 1 .. Len(m.topic) + 1,
           NEW t \in DataType, NumberAt(B, at + 22, 2) = Number(DataSize(t), 2)
    PROVE  at = Len(m.topic) + 1
<1> DEFINE P == Len(m.topic)
           C == Bytes(m.topic)
<1>1. /\ P \in Nat /\ IsSequence(C) /\ Len(C) = P /\ IsSequence(B)
      /\ Has(B, 0, C) /\ Has(B, P, Magic) /\ Has(B, P + 20, Number(TypeOf(m), 2))
      /\ TypeOf(m) \in 1 .. 3
  BY MessageFacts, RelayedIs DEF Laid
<1>2. SubSeq(B, at, at + 3) = Magic
  BY DEF MagicIn
<1>3. \A i : i \in 1 .. P - 3 /\ SubSeq(C, i, i + 3) = Magic => FALSE
  BY <1>1 DEF MagicIn
<1> HIDE DEF P, C
<1>4. at \in 1 .. P + 1
  BY DEF P
<1>5. ASSUME at <= P - 3 PROVE FALSE
  <2>1. \A q \in at .. at + 3 : B[q] = C[q]
    <3> TAKE q \in at .. at + 3
    <3>1. q \in 1 .. P /\ 0 + q = q
      BY <1>1, <1>4, <1>5
    <3>2. B[0 + q] = C[q]
      BY <1>1, <3>1 DEF Has
    <3> QED
      BY <3>1, <3>2
  <2>2. SubSeq(B, at, at + 3) = SubSeq(C, at, at + 3)
    BY <1>4, <2>1, SamePiece
  <2>3. SubSeq(C, at, at + 3) = Magic
    BY <1>2, <2>2
  <2>4. at \in 1 .. P - 3
    BY <1>1, <1>4, <1>5
  <2> QED
    BY <1>3, <2>3, <2>4
<1>6. \A k \in 1 .. 4 : Magic[k] = B[at + k - 1]
  <2> DEFINE e == at + 3
  <2>1. e - at + 1 = 4 /\ at <= e + 1 /\ at \in Int /\ e \in Int
    BY <1>1, <1>4
  <2>2. SubSeq(B, at, e) = Magic
    BY <1>2
  <2> HIDE DEF e
  <2>3. PieceIs(B, at, e)
    BY <2>1, PiecesAre
  <2> QED
    BY <2>1, <2>2, <2>3 DEF PieceIs
<1>7. B[P + 1] = <<"byte", 84, 0>>
  <2>1. Len(Magic) = 4 /\ Magic[1] = <<"byte", 84, 0>>
    BY MagicIs
  <2>2. Has(B, P, Magic)
    BY <1>1
  <2>3. \A i \in 1 .. Len(Magic) : B[P + i] = Magic[i]
    BY <2>2 DEF Has
  <2>4. 1 \in 1 .. Len(Magic)
    BY <2>1
  <2> QED
    BY <2>1, <2>3, <2>4
<1>8. at # P
  <2>1. ASSUME at = P PROVE FALSE
    <3>1. at + 2 - 1 = P + 1
      BY <1>1, <2>1
    <3>2. Magic[2] = <<"byte", 84, 0>>
      BY <1>6, <1>7, <3>1
    <3> QED
      BY <3>2, MagicIs
  <2> QED
    BY <2>1
<1>9. at # P - 1
  <2>1. ASSUME at = P - 1 PROVE FALSE
    <3>1. at + 3 - 1 = P + 1
      BY <1>1, <2>1
    <3>2. Magic[3] = <<"byte", 84, 0>>
      BY <1>6, <1>7, <3>1
    <3> QED
      BY <3>2, MagicIs
  <2> QED
    BY <2>1
<1>10. at # P - 2
  <2>1. ASSUME at = P - 2 PROVE FALSE
    <3> DEFINE z == DataSize(t)
               y == TypeOf(m)
    <3>1. SubSeq(B, at + 22, at + 23) = Number(z, 2)
      <4>1. at + 22 + 2 - 1 = at + 23
        BY <1>4
      <4> QED
        BY <4>1 DEF NumberAt
    <3>2. SubSeq(B, at + 22, at + 23)[2] = B[P + 21]
      <4> DEFINE f == at + 22
                 e == at + 23
      <4>1. f \in Int /\ e \in Int /\ f <= e + 1 /\ e - f + 1 = 2 /\ f + 2 - 1 = P + 21
        BY <1>1, <1>4, <2>1
      <4> HIDE DEF f, e
      <4>2. PieceIs(B, f, e)
        BY <4>1, PiecesAre
      <4>3. SubSeq(B, f, e)[2] = B[P + 21]
        BY <4>1, <4>2 DEF PieceIs
      <4> QED
        BY <4>3 DEF f, e
    <3>3. B[P + 21] = <<"byte", y, 0>>
      <4>1. B[P + 20 + 1] = Number(y, 2)[1]
        <5>1. Len(Number(y, 2)) = 2
          BY NumberIs
        <5> QED
          BY <1>1, <5>1 DEF Has
      <4>2. Number(y, 2)[1] = <<"byte", (y \div Scale[1]) % 256, 0>>
        BY NumberIs
      <4>3. Scale[1] = 1
        BY DEF Scale
      <4>4. (y \div 1) % 256 = y
        <5>1. y \in 1 .. 3
          BY <1>1
        <5> HIDE DEF y
        <5> QED
          BY <5>1
      <4>5. P + 20 + 1 = P + 21
        BY <1>1
      <4> QED
        BY <4>1, <4>2, <4>3, <4>4, <4>5
    <3>4. Number(z, 2)[2] = <<"byte", 0, 0>>
      <4>1. Number(z, 2)[2] = <<"byte", (z \div Scale[2]) % 256, 0>>
        BY NumberIs
      <4>2. Scale[2] = 256
        BY DEF Scale
      <4>3. z \in 0 .. 255
        <5>1. t = 1 \/ t = 2 \/ t = 3
          BY DEF DataType
        <5>2. DataSize(t) = 80 \/ DataSize(t) = 32 \/ DataSize(t) = 56
          BY <5>1, SizeFacts, Zenon
        <5> HIDE DEF z
        <5>3. z = DataSize(t)
          BY DEF z
        <5> QED
          BY <5>2, <5>3
      <4> HIDE DEF z
      <4>4. (z \div 256) % 256 = 0
        BY <4>3
      <4> QED
        BY <4>1, <4>2, <4>4
    <3>5. y # 0
      BY <1>1
    <3> HIDE DEF z, y
    <3> QED
      BY <3>1, <3>2, <3>3, <3>4, <3>5
  <2> QED
    BY <2>1
<1> QED
  BY <1>1, <1>4, <1>5, <1>8, <1>9, <1>10 DEF P

\* What decode_testpub() reads in the header.
LEMMA HeaderIs ==
    ASSUME NEW m \in Messages, NEW B, B = Relayed(m)
    PROVE  LET h == TestHeader(B, Len(m.topic) + 1) IN
           /\ h.publisher = Number(m.publisher, 4) /\ h.index = Bytes(m.index)
           /\ h.length = Number(Declared(m), 4) /\ h.type = Number(TypeOf(m), 2)
           /\ h.dataLength = Number(DataSize(TypeOf(m)), 2)
<1> DEFINE P == Len(m.topic)
           n1 == Number(m.publisher, 4)
           n2 == Bytes(m.index)
           n3 == Number(Declared(m), 4)
           n4 == Number(TypeOf(m), 2)
           n5 == Number(DataSize(TypeOf(m)), 2)
<1>1. P \in Nat /\ IsSequence(B) /\ Laid(B, P, m)
  BY MessageFacts, RelayedIs
<1> HIDE DEF P
<1>2. P + 4 \in Nat /\ P + 8 \in Nat /\ P + 16 \in Nat /\ P + 20 \in Nat /\ P + 22 \in Nat
  BY <1>1
<1>3. /\ Has(B, P + 4, n1) /\ Has(B, P + 8, n2) /\ Has(B, P + 16, n3) /\ Has(B, P + 20, n4)
      /\ Has(B, P + 22, n5)
  BY <1>1 DEF Laid
<1>4. /\ IsSequence(n1) /\ Len(n1) = 4 /\ IsSequence(n2) /\ Len(n2) = 8
      /\ IsSequence(n3) /\ Len(n3) = 4 /\ IsSequence(n4) /\ Len(n4) = 2
      /\ IsSequence(n5) /\ Len(n5) = 2
  BY WidthsAre, MessageFacts
<1> DEFINE a1 == P + 4
           a2 == P + 8
           a3 == P + 16
           a4 == P + 20
           a5 == P + 22
<1> HIDE DEF n1, n2, n3, n4, n5, a1, a2, a3, a4, a5
<1>5. NumberAt(B, a1 + 1, 4) = n1
  <2>1. a1 \in Nat /\ Has(B, a1, n1)
    BY <1>2, <1>3 DEF a1
  <2> QED
    BY <1>1, <1>4, <2>1, NumberHere
<1>6. NumberAt(B, a2 + 1, 8) = n2
  <2>1. a2 \in Nat /\ Has(B, a2, n2)
    BY <1>2, <1>3 DEF a2
  <2> QED
    BY <1>1, <1>4, <2>1, NumberHere
<1>7. NumberAt(B, a3 + 1, 4) = n3
  <2>1. a3 \in Nat /\ Has(B, a3, n3)
    BY <1>2, <1>3 DEF a3
  <2> QED
    BY <1>1, <1>4, <2>1, NumberHere
<1>8. NumberAt(B, a4 + 1, 2) = n4
  <2>1. a4 \in Nat /\ Has(B, a4, n4)
    BY <1>2, <1>3 DEF a4
  <2> QED
    BY <1>1, <1>4, <2>1, NumberHere
<1>9. NumberAt(B, a5 + 1, 2) = n5
  <2>1. a5 \in Nat /\ Has(B, a5, n5)
    BY <1>2, <1>3 DEF a5
  <2> QED
    BY <1>1, <1>4, <2>1, NumberHere
<1>10. /\ P + 4 + 1 = P + 1 + 4 /\ P + 8 + 1 = P + 1 + 8 /\ P + 16 + 1 = P + 1 + 16
       /\ P + 20 + 1 = P + 1 + 20 /\ P + 22 + 1 = P + 1 + 22
  BY <1>1
<1>11. /\ NumberAt(B, P + 1 + 4, 4) = n1 /\ NumberAt(B, P + 1 + 8, 8) = n2
       /\ NumberAt(B, P + 1 + 16, 4) = n3 /\ NumberAt(B, P + 1 + 20, 2) = n4
       /\ NumberAt(B, P + 1 + 22, 2) = n5
  BY <1>5, <1>6, <1>7, <1>8, <1>9, <1>10 DEF a1, a2, a3, a4, a5
<1> QED
  BY <1>11 DEF TestHeader, P, n1, n2, n3, n4, n5

\* A type is told by its bytes.
LEMMA TypeTold ==
    ASSUME NEW t \in 1 .. 3, NEW u \in 1 .. 3, Number(t, 2) = Number(u, 2)
    PROVE  t = u
<1>1. Number(t, 2)[1] = <<"byte", (t \div Scale[1]) % 256, 0>>
  BY NumberIs
<1>2. Number(u, 2)[1] = <<"byte", (u \div Scale[1]) % 256, 0>>
  BY NumberIs
<1>3. Scale[1] = 1
  BY DEF Scale
<1>4. (t \div 1) % 256 = t /\ (u \div 1) % 256 = u
  OBVIOUS
<1> QED
  BY <1>1, <1>2, <1>3, <1>4

\* The fields it reads are those that were published.
LEMMA DataIs ==
    ASSUME NEW m \in Messages, NEW B, B = Relayed(m), NEW at, at = Len(m.topic) + 1,
           NEW f \in Layout(TypeOf(m))
    PROVE  Decoded(TypeOf(m), SubSeq(B, at + 24, at + 24 + DataSize(TypeOf(m)) - 1))[f[1]]
             = FieldBytes(f[1], f[3])
<1> DEFINE P == Len(m.topic)
           t == TypeOf(m)
           z == DataSize(t)
           E == Encoded(t)
           D == SubSeq(B, at + 24, at + 24 + z - 1)
<1>1. /\ P \in Nat /\ IsSequence(B) /\ Has(B, P + 24, E) /\ IsSequence(E) /\ Len(E) = z /\ t \in 1 .. 3
      /\ \A k \in 1 .. f[3] : E[f[2] + k] = <<"field", f[1], k>>
      /\ z \in Nat
  BY MessageFacts, RelayedIs, EncodedIs DEF Laid
<1>2. Tiled(Layout(t), z)
  BY <1>1, LayoutTiled
<1> HIDE DEF P, E, z
<1>3. D = E
  <2>1. P + 24 \in Nat
    BY <1>1
  <2>2. SubSeq(B, P + 24 + 1, P + 24 + Len(E)) = E
    BY <1>1, <2>1, CutOut
  <2>3. at + 24 = P + 24 + 1 /\ at + 24 + z - 1 = P + 24 + Len(E)
    BY <1>1 DEF P
  <2> HIDE DEF t
  <2> QED
    BY <2>2, <2>3
<1>4. /\ f[2] \in Nat /\ f[3] \in 1 .. 8 /\ f[2] + f[3] <= z
      /\ \A g \in Layout(t) : g[1] = f[1] => g = f
  BY <1>2 DEF Tiled
<1>5. Decoded(t, E)[f[1]] = SubSeq(E, f[2] + 1, f[2] + f[3])
  <2>1. (CHOOSE g \in Layout(t) : g[1] = f[1]) = f
    BY <1>4
  <2>2. f[1] \in {g[1] : g \in Layout(t)}
    OBVIOUS
  <2> HIDE DEF t
  <2> QED
    BY <2>1, <2>2 DEF Decoded
<1>6. SubSeq(E, f[2] + 1, f[2] + f[3]) = FieldBytes(f[1], f[3])
  <2> DEFINE n == f[1]
             a == f[2]
             w == f[3]
             F == FieldBytes(n, w)
  <2>1. a \in Nat /\ w \in Nat /\ a + w <= z /\ \A k \in 1 .. w : E[a + k] = <<"field", n, k>>
    BY <1>1, <1>4
  <2> HIDE DEF n, a, w
  <2>2. F \in [1 .. w -> {F[k] : k \in 1 .. w}] /\ \A k \in 1 .. w : F[k] = <<"field", n, k>>
    BY DEF FieldBytes
  <2> HIDE DEF F
  <2>3. IsSequence(F) /\ Len(F) = w
    BY <2>1, <2>2, FunctionIsSequence
  <2>4. Has(E, a, F)
    BY <1>1, <2>1, <2>2, <2>3 DEF Has
  <2>5. SubSeq(E, a + 1, a + Len(F)) = F
    BY <1>1, <2>1, <2>3, <2>4, CutOut
  <2> QED
    BY <2>3, <2>5 DEF n, a, w, F
<1> QED
  BY <1>3, <1>5, <1>6 DEF z

\* Where the topic is harmless, the magic found is that of the header.
LEMMA CleanTopic ==
    ASSUME NEW m \in Messages, NEW B, B = Relayed(m), TopicIsClean(m)
    PROVE  MagicIn(B) # {} /\ Min(MagicIn(B)) = Len(m.topic) + 1
<1> DEFINE P == Len(m.topic)
           C == Bytes(m.topic) \o Magic
           M == MagicIn(B)
<1>1. /\ P \in Nat /\ IsSequence(B) /\ Len(B) = P + Body(m) /\ Body(m) \in Nat /\ Body(m) >= 24
      /\ Has(B, 0, Bytes(m.topic)) /\ Has(B, P, Magic)
      /\ IsSequence(Bytes(m.topic)) /\ Len(Bytes(m.topic)) = P
  BY MessageFacts, RelayedIs DEF Laid
<1>2. IsSequence(Magic) /\ Len(Magic) = 4
  BY MagicIs
<1>3. /\ IsSequence(C) /\ Len(C) = P + 4
      /\ Has(C, 0, Bytes(m.topic)) /\ Has(C, P, Magic)
  <2>1. Has(Bytes(m.topic), 0, Bytes(m.topic))
    BY <1>1 DEF Has
  <2> QED
    BY <1>1, <1>2, <2>1, Behind
<1> HIDE DEF P, C
<1>4. \A q \in 1 .. P + 4 : B[q] = C[q]
  <2> TAKE q \in 1 .. P + 4
  <2>1. CASE q <= P
    <3>1. B[0 + q] = Bytes(m.topic)[q] /\ C[0 + q] = Bytes(m.topic)[q]
      BY <1>1, <1>3, <2>1 DEF Has
    <3> QED
      BY <1>1, <3>1
  <2>2. CASE q > P
    <3>1. q - P \in 1 .. 4 /\ P + (q - P) = q
      BY <1>1, <2>2
    <3>2. B[P + (q - P)] = Magic[q - P] /\ C[P + (q - P)] = Magic[q - P]
      BY <1>1, <1>2, <1>3, <3>1 DEF Has
    <3> QED
      BY <3>1, <3>2
  <2> QED
    BY <1>1, <2>1, <2>2
<1>5. \A i \in 1 .. P + 1 : SubSeq(B, i, i + 3) = SubSeq(C, i, i + 3)
  <2> TAKE i \in 1 .. P + 1
  <2>1. i \in Int /\ i + 3 \in Int /\ i <= i + 3 + 1 /\ i .. i + 3 \subseteq 1 .. P + 4
    BY <1>1
  <2> QED
    BY <1>4, <2>1, SamePiece
<1>6. MagicIn(C) = {P + 1}
  BY DEF TopicIsClean, C, P
<1>7. M # {} /\ Min(M) \in M /\ Min(M) \in 1 .. P + 1
  BY MagicFound DEF P
<1>8. ASSUME NEW i \in M, i < P + 1 PROVE FALSE
  <2>1. i \in 1 .. P + 1 /\ SubSeq(B, i, i + 3) = Magic
    BY <1>1, <1>8 DEF MagicIn
  <2>2. SubSeq(C, i, i + 3) = Magic /\ i \in 1 .. Len(C) - 3
    BY <1>1, <1>3, <1>5, <2>1
  <2>3. i \in MagicIn(C)
    BY <2>2 DEF MagicIn
  <2> QED
    BY <1>1, <1>6, <1>8, <2>1, <2>3
<1> HIDE DEF M
<1>9. Min(M) = P + 1
  BY <1>1, <1>7, <1>8
<1> QED
  BY <1>7, <1>9 DEF M, P

\* What RowsTellWhatWasPublished says of a result r.
TellsMessage(m, r) ==
    /\ r # NotTestpub /\ MagicIn(Bytes(m.topic)) = {} =>
          /\ r.stem = Stem(TypeOf(m))
          /\ r.publisher = Number(m.publisher, 4) /\ r.index = Bytes(m.index)
          /\ \A f \in Layout(TypeOf(m)) : r.data[f[1]] = FieldBytes(f[1], f[3])
    /\ TopicIsClean(m) /\ (m.multipart => m.topic = << >>) => r # NotTestpub

LEMMA DecodedTells ==
    ASSUME NEW m \in Messages
    PROVE  TellsMessage(m, DecodeTestpub(Relayed(m)))
<1> DEFINE B == Relayed(m)
           P == Len(m.topic)
           t == TypeOf(m)
           z == DataSize(t)
           r == DecodeTestpub(B)
           at == Min(MagicIn(B))
           h == TestHeader(B, at)
           types == {u \in DataType : h.type = Number(u, 2)}
           type == CHOOSE u \in types : TRUE
           row == [stem |-> Stem(type), publisher |-> h.publisher, index |-> h.index,
                   data |-> Decoded(type, SubSeq(B, at + TestHeaderSize, at + TestHeaderSize + DataSize(type) - 1))]
           none == MagicIn(B) = {} \/ Len(B) < at - 1 + TestHeaderSize
           other == \/ types = {} \/ h.dataLength # Number(DataSize(type), 2)
                    \/ h.length # Number(Len(B), 4) \/ Len(B) < (at + TestHeaderSize) - 1 + DataSize(type)
<1>1. r = IF none THEN NotTestpub ELSE IF other THEN NotTestpub ELSE row
  BY Zenon DEF DecodeTestpub
<1> USE DEF TestHeaderSize
<1>2. /\ P \in Nat /\ Len(B) = P + Body(m) /\ Body(m) \in Nat /\ Body(m) >= 24 + z
      /\ z \in Nat /\ z # 0 /\ t \in 1 .. 3
      /\ (m.multipart => m.topic = << >>) => Len(TopicPrefix(m)) = P
  BY MessageFacts, RelayedIs
<1>3. ASSUME at = P + 1
      PROVE  /\ types # {} /\ type = t
             /\ h.publisher = Number(m.publisher, 4) /\ h.index = Bytes(m.index)
             /\ h.length = Number(Declared(m), 4) /\ h.dataLength = Number(z, 2)
             /\ \A f \in Layout(t) :
                   Decoded(t, SubSeq(B, at + 24, at + 24 + z - 1))[f[1]] = FieldBytes(f[1], f[3])
  <2> HIDE DEF at
  <2>1. /\ h.publisher = Number(m.publisher, 4) /\ h.index = Bytes(m.index)
        /\ h.length = Number(Declared(m), 4) /\ h.type = Number(t, 2) /\ h.dataLength = Number(z, 2)
    BY <1>3, HeaderIs
  <2>2. \A f \in Layout(t) :
           Decoded(t, SubSeq(B, at + 24, at + 24 + z - 1))[f[1]] = FieldBytes(f[1], f[3])
    BY <1>3, DataIs
  <2> HIDE DEF h, t, z
  <2>3. types = {t}
    BY <1>2, <2>1, TypeTold DEF DataType
  <2> QED
    BY <2>1, <2>2, <2>3
<1>4. ASSUME ~none, ~other, MagicIn(Bytes(m.topic)) = {}
      PROVE  at = P + 1
  <2>1. at \in MagicIn(B) /\ at \in 1 .. P + 1
    BY MagicFound
  <2>2. type \in DataType /\ h.dataLength = Number(DataSize(type), 2)
    <3>1. types # {} /\ h.dataLength = Number(DataSize(type), 2)
      BY <1>4
    <3> QED
      BY <3>1
  <2>3. NumberAt(B, at + 22, 2) = h.dataLength
    BY DEF TestHeader
  <2> HIDE DEF at, h, type
  <2> QED
    BY <1>4, <2>1, <2>2, <2>3, HeaderFound
<1>5. ASSUME TopicIsClean(m), m.multipart => m.topic = << >>
      PROVE  ~none /\ ~other /\ at = P + 1
  <2>1. MagicIn(B) # {} /\ at = P + 1
    BY <1>5, CleanTopic
  <2>2. ~none
    <3> HIDE DEF at
    <3> QED
      BY <1>2, <2>1
  <2>3. types # {} /\ type = t /\ h.length = Number(Declared(m), 4) /\ h.dataLength = Number(z, 2)
    BY <1>3, <2>1
  <2>4. Declared(m) = Len(B)
    BY <1>2, <1>5 DEF Declared, DeclaredLength
  <2>5. ~other
    <3>1. DataSize(type) = z
      BY <2>3
    <3> HIDE DEF at, h, z, type, types
    <3> QED
      BY <1>2, <2>1, <2>3, <2>4, <3>1
  <2> QED
    BY <2>1, <2>2, <2>5
<1>6. ASSUME ~none, ~other, at = P + 1
      PROVE  /\ r # NotTestpub
             /\ r.stem = Stem(t) /\ r.publisher = Number(m.publisher, 4) /\ r.index = Bytes(m.index)
             /\ \A f \in Layout(t) : r.data[f[1]] = FieldBytes(f[1], f[3])
  <2>1. type = t /\ h.publisher = Number(m.publisher, 4) /\ h.index = Bytes(m.index)
        /\ \A f \in Layout(t) :
              Decoded(t, SubSeq(B, at + 24, at + 24 + z - 1))[f[1]] = FieldBytes(f[1], f[3])
    BY <1>3, <1>6
  <2> DEFINE d == Decoded(t, SubSeq(B, at + 24, at + 24 + z - 1))
             n == Number(m.publisher, 4)
             i == Bytes(m.index)
  <2>2. r = [stem |-> Stem(t), publisher |-> n, index |-> i, data |-> d]
    <3>1. r = row
      BY <1>1, <1>6
    <3> HIDE DEF r, type, h, t, at
    <3> QED
      BY <2>1, <3>1
  <2>3. Stem(t) # "unknown"
    BY <1>2 DEF Stem
  <2> HIDE DEF d, r, t, n, i
  <2>4. r.stem = Stem(t) /\ r.publisher = n /\ r.index = i /\ r.data = d
    BY <2>2
  <2>5. r # NotTestpub
    BY <2>3, <2>4 DEF NotTestpub
  <2> QED
    BY <2>1, <2>4, <2>5 DEF d, n, i
<1>7. ~(~none /\ ~other) => r = NotTestpub
  BY <1>1
<1> HIDE DEF r, none, other, at
<1> QED
  BY <1>4, <1>5, <1>6, <1>7 DEF TellsMessage, r

RowsInv ==
    kind = "payload" => /\ input \in Messages
                        /\ verdict # Unread => verdict = DecodeTestpub(Relayed(input))

\* A row of telemetry tells what was published, unless the topic holds the magic:
\* its end may make up the magic, but then the header read there is refused.  And
\* a message becomes a row unless its topic is a frame of its own, holds the magic
\* or makes it up (telemetry.hpp:199, capture_format.md:116).
THEOREM RowsTell == Spec => []RowsTellWhatWasPublished
<1>1. Init => RowsInv
  BY DEF Init, RowsInv
<1>2. RowsInv /\ [Next]_vars => RowsInv'
  <2> SUFFICES ASSUME RowsInv, [Next]_vars PROVE RowsInv'
    OBVIOUS
  <2>1. CASE UNCHANGED vars
    BY <2>1 DEF RowsInv, vars
  <2>2. CASE Next
    <3>1. kind' = kind /\ input' = input
      BY <2>2 DEF Next
    <3>2. kind = "payload" => verdict' = DecodeTestpub(Relayed(input))
      BY <2>2 DEF Next, ReadDatagram, ReadStart, ReadJson, ReadPayload
    <3> QED
      BY <3>1, <3>2 DEF RowsInv
  <2> QED
    BY <2>1, <2>2
<1>3. RowsInv => RowsTellWhatWasPublished
  <2> SUFFICES ASSUME RowsInv, kind = "payload", verdict # Unread
               PROVE  RowsTellWhatWasPublished
    BY DEF RowsTellWhatWasPublished
  <2>1. TellsMessage(input, verdict)
    BY DecodedTells DEF RowsInv
  <2> QED
    BY <2>1 DEF TellsMessage, RowsTellWhatWasPublished, TypeOf
<1> QED
  BY <1>1, <1>2, <1>3, PTL DEF Spec

-----------------------------------------------------------------------------
(* JSON: parse at a place, by the token there.  Tokens have names here, as *)
(* the provers take no punctuation in strings.                             *)

\* The tokens by their names.
Atom(a) == a \in {"s", "n"}
Open(a) == a \in {"{", "["}
Comma(a) == a = ","
Object(k) == k = "{"
ValueAt(k, i) == IF Object(k) THEN i + 2 ELSE i
KeyAt(t, k, i) == k = "{" => At(t, i) = "s" /\ At(t, i + 1) = ":"
After(t, p, k, d, j) ==
    CASE j = 0 -> 0
      [] j # 0 /\ Comma(At(t, j)) -> p[<<k, j + 1, d>>]
      [] j # 0 /\ At(t, j) = Closing(k) -> j + 1
      [] OTHER -> 0

\* No token is of two sorts, and none is the end.
LEMMA TokensDiffer ==
    ASSUME NEW a, NEW k
    PROVE  /\ Atom(a) => ~Open(a) /\ ~Comma(a) /\ a # Closing(k) /\ a # "end"
           /\ Open(a) => a # "value" /\ ~Comma(a) /\ a # Closing(k) /\ a # "end"
           /\ Comma(a) => a # Closing(k) /\ a # "end"
           /\ a = Closing(k) => a # "end"
           /\ k \in Kinds <=> (k = "value" \/ Open(k))
<1>1. Atom(a) => ~Open(a) /\ ~Comma(a) /\ a # Closing(k) /\ a # "end"
  BY Zenon DEF Atom, Open, Comma, Closing
<1>2. Open(a) => a # "value" /\ ~Comma(a) /\ a # Closing(k) /\ a # "end"
  BY Zenon DEF Atom, Open, Comma, Closing
<1>3. Comma(a) => a # Closing(k) /\ a # "end"
  BY Zenon DEF Atom, Open, Comma, Closing
<1>4. a = Closing(k) => a # "end"
  BY Zenon DEF Closing
<1>5. k \in Kinds <=> (k = "value" \/ Open(k))
  BY Zenon DEF Kinds, Open
<1> QED
  BY <1>1, <1>2, <1>3, <1>4, <1>5, Zenon

\* A name and its colon lie within the text.
LEMMA NamedTokens ==
    ASSUME NEW t, NEW k, NEW i, Object(k), KeyAt(t, k, i)
    PROVE  At(t, i) # "end" /\ At(t, i + 1) # "end"
<1>1. At(t, i) = "s" /\ At(t, i + 1) = ":"
  BY Zenon DEF KeyAt, Object
<1>2. "s" # "end" /\ ":" # "end"
  BY Zenon
<1> QED
  BY Zenon, <1>1, <1>2

\* What follows a value among members.
LEMMA AfterError ==
    ASSUME NEW t, NEW p, NEW k, NEW d, NEW j, j = 0
    PROVE  After(t, p, k, d, j) = 0
BY DEF After

LEMMA AfterComma ==
    ASSUME NEW t, NEW p, NEW k, NEW d, NEW j, j # 0, Comma(At(t, j))
    PROVE  After(t, p, k, d, j) = p[<<k, j + 1, d>>]
<1>1. At(t, j) # Closing(k)
  BY TokensDiffer, Zenon
<1> QED
  BY <1>1 DEF After

LEMMA AfterClose ==
    ASSUME NEW t, NEW p, NEW k, NEW d, NEW j, j # 0, ~Comma(At(t, j)), At(t, j) = Closing(k)
    PROVE  After(t, p, k, d, j) = j + 1
BY DEF After

LEMMA AfterOther ==
    ASSUME NEW t, NEW p, NEW k, NEW d, NEW j, j # 0, ~Comma(At(t, j)), At(t, j) # Closing(k)
    PROVE  After(t, p, k, d, j) = 0
BY DEF After

\* parse at a value, by its first token.
LEMMA ValueAtom ==
    ASSUME NEW t, NEW p, NEW k, k = "value", NEW i, NEW d, Atom(At(t, i))
    PROVE  ParseFrom(t, p, k, i, d) = i + 1
BY Zenon DEF ParseFrom, Atom

LEMMA ValueTooDeep ==
    ASSUME NEW t, NEW p, NEW k, k = "value", NEW i, NEW d, Open(At(t, i)), TooDeep(d + 1)
    PROVE  ParseFrom(t, p, k, i, d) = 0
<1>1. ~Atom(At(t, i))
  BY TokensDiffer, Zenon
<1> QED
  BY <1>1, Zenon DEF ParseFrom, Atom, Open

LEMMA ValueEmpty ==
    ASSUME NEW t, NEW p, NEW k, k = "value", NEW i, NEW d, Open(At(t, i)), ~TooDeep(d + 1),
           At(t, i + 1) = Closing(At(t, i))
    PROVE  ParseFrom(t, p, k, i, d) = i + 2
<1>1. ~Atom(At(t, i))
  BY TokensDiffer, Zenon
<1> QED
  BY <1>1, Zenon DEF ParseFrom, Atom, Open

LEMMA ValueNested ==
    ASSUME NEW t, NEW p, NEW k, k = "value", NEW i, NEW d, Open(At(t, i)), ~TooDeep(d + 1),
           At(t, i + 1) # Closing(At(t, i))
    PROVE  ParseFrom(t, p, k, i, d) = p[<<At(t, i), i + 1, d + 1>>]
<1>1. ~Atom(At(t, i))
  BY TokensDiffer, Zenon
<1> QED
  BY <1>1, Zenon DEF ParseFrom, Atom, Open

LEMMA ValueNone ==
    ASSUME NEW t, NEW p, NEW k, k = "value", NEW i, NEW d, ~Atom(At(t, i)), ~Open(At(t, i))
    PROVE  ParseFrom(t, p, k, i, d) = 0
BY Zenon DEF ParseFrom, Atom, Open

\* parse at members: with the name they need, a value, and what follows it.
LEMMA MembersNoKey ==
    ASSUME NEW t, NEW p, NEW k, k # "value", NEW i, NEW d, ~KeyAt(t, k, i)
    PROVE  ParseFrom(t, p, k, i, d) = 0
BY Zenon DEF ParseFrom, KeyAt

LEMMA MembersKey ==
    ASSUME NEW t, NEW p, NEW k, k # "value", NEW i, NEW d, KeyAt(t, k, i)
    PROVE  ParseFrom(t, p, k, i, d) = After(t, p, k, d, p[<<"value", ValueAt(k, i), d>>])
BY Zenon DEF ParseFrom, KeyAt, After, ValueAt, Object, Comma

-----------------------------------------------------------------------------
(* JSON: the recursion of the parser exists.  Each call has fewer calls to *)
(* come than the one that makes it.                                        *)

\* The places of a text and the depths a parser is called at.
Places(t) == Kinds \X (1 .. Len(t) + 1) \X (0 .. MaxDepth + 1)

\* p is the parser's recursion on t.
ParsesAll(p, t) == p = [x \in Places(t) |-> ParseFrom(t, p, x[1], x[2], x[3])]

ParserOf(t) == CHOOSE p : ParsesAll(p, t)

\* The model parses with the recursion chosen here.
LEMMA ParsedDef == ASSUME NEW t PROVE Parsed(t) = ParserOf(t)[<<"value", 1, 0>>]
BY Zenon DEF Parsed, ParserOf, ParsesAll, Places

\* How many calls are still to come at most.
Calls(t, k, i) == 2 * (Len(t) + 1 - i) + (IF k = "value" THEN 0 ELSE 1)
Ahead(t, x) == Calls(t, x[1], x[2])

\* An error, or a place behind i.
Beyond(t, i) == {0} \cup (i + 1 .. Len(t) + 1)

\* What p returns for the calls with fewer than n calls to come.
Advances(p, t, n) == \A y \in Places(t) : Ahead(t, y) < n => p[y] \in Beyond(t, y[2])
Agree(p, q, t, n) == \A y \in Places(t) : Ahead(t, y) < n => p[y] = q[y]

\* Further in the text, and from members to the value they start with, there
\* are fewer.
LEMMA CallsLess ==
    ASSUME NEW t, t \in Seq(ToSet(t)), NEW k, NEW i \in 1 .. Len(t) + 1
    PROVE  /\ Calls(t, k, i) \in 0 .. 2 * Len(t) + 1
           /\ \A c : \A j \in 1 .. Len(t) + 1 : j > i => Calls(t, c, j) < Calls(t, k, i)
           /\ \A j \in 1 .. Len(t) + 1 : k # "value" /\ j >= i => Calls(t, "value", j) < Calls(t, k, i)
<1>1. PICK L \in Nat : L = Len(t)
  OBVIOUS
<1>2. i \in Nat /\ i >= 1 /\ i <= L + 1
  BY <1>1
<1>3. 2 * (L + 1 - i) + (IF k = "value" THEN 0 ELSE 1) \in 0 .. 2 * L + 1
  BY <1>2
<1>4. ASSUME NEW c, NEW j \in 1 .. L + 1, j > i
      PROVE  2 * (L + 1 - j) + (IF c = "value" THEN 0 ELSE 1) < 2 * (L + 1 - i) + (IF k = "value" THEN 0 ELSE 1)
  BY <1>2, <1>4
<1>5. ASSUME NEW j \in 1 .. L + 1, k # "value", j >= i
      PROVE  2 * (L + 1 - j) + (IF "value" = "value" THEN 0 ELSE 1) < 2 * (L + 1 - i) + (IF k = "value" THEN 0 ELSE 1)
  BY <1>2, <1>5
<1> QED
  BY <1>1, <1>3, <1>4, <1>5 DEF Calls

\* A place and its parts.
LEMMA PlaceOf ==
    ASSUME NEW t, NEW k \in Kinds, NEW i \in 1 .. Len(t) + 1, NEW d \in 0 .. MaxDepth + 1
    PROVE  /\ <<k, i, d>> \in Places(t)
           /\ Ahead(t, <<k, i, d>>) = Calls(t, k, i)
           /\ <<k, i, d>>[1] = k /\ <<k, i, d>>[2] = i /\ <<k, i, d>>[3] = d
BY DEF Places, Ahead

LEMMA PlaceIs ==
    ASSUME NEW t, NEW x \in Places(t)
    PROVE  \E k \in Kinds, i \in 1 .. Len(t) + 1, d \in 0 .. MaxDepth + 1 : x = <<k, i, d>>
BY DEF Places

\* A token within the text, or its end.
LEMMA AtIs ==
    ASSUME NEW t, t \in Seq(ToSet(t)), NEW i \in Nat \ {0}
    PROVE  /\ i <= Len(t) => At(t, i) = t[i]
           /\ i > Len(t) => At(t, i) = "end"
           /\ At(t, i) # "end" => i <= Len(t)
BY DEF At

\* A call depends on calls with fewer to come, and advances.
LEMMA ParseStep ==
    ASSUME NEW t, t \in Seq(ToSet(t)), NEW k \in Kinds, NEW i \in 1 .. Len(t) + 1,
           NEW d \in 0 .. MaxDepth + 1, NEW p, NEW q,
           Advances(p, t, Ahead(t, <<k, i, d>>)), Agree(p, q, t, Ahead(t, <<k, i, d>>))
    PROVE  /\ ParseFrom(t, p, k, i, d) = ParseFrom(t, q, k, i, d)
           /\ ParseFrom(t, p, k, i, d) \in Beyond(t, i)
<1> DEFINE L == Len(t)
           Rank(c, j) == Calls(t, c, j)
<1>1. L \in Nat /\ i \in Nat /\ i \in 1 .. L + 1 /\ d \in Nat /\ MaxDepth \in Nat
  BY JsonAssumption
<1>r. /\ Ahead(t, <<k, i, d>>) = Rank(k, i)
      /\ \A c : \A j \in 1 .. L + 1 : j > i => Rank(c, j) < Rank(k, i)
      /\ \A j \in 1 .. L + 1 : k # "value" /\ j >= i => Rank("value", j) < Rank(k, i)
  BY PlaceOf, CallsLess
<1>2. ASSUME NEW c \in Kinds, NEW j \in 1 .. L + 1, NEW e \in 0 .. MaxDepth + 1, Rank(c, j) < Rank(k, i)
      PROVE  p[<<c, j, e>>] = q[<<c, j, e>>] /\ p[<<c, j, e>>] \in Beyond(t, j)
  <2>1. <<c, j, e>> \in Places(t) /\ Ahead(t, <<c, j, e>>) = Rank(c, j) /\ <<c, j, e>>[2] = j
    BY PlaceOf
  <2> QED
    BY <1>r, <1>2, <2>1 DEF Advances, Agree
<1>3. \A j \in Nat \ {0} : At(t, j) # "end" => j <= L
  BY AtIs
<1>e. /\ \A a : Atom(a) \/ Open(a) \/ Comma(a) => a # "end"
      /\ \A a : Open(a) => a \in Kinds
      /\ \A c : Closing(c) # "end"
      /\ "value" \in Kinds
  BY TokensDiffer, Zenon
<1>4. ASSUME NEW j \in Nat, j >= i, j <= L + 1, NEW r \in Beyond(t, j)
      PROVE  r \in Beyond(t, i) /\ (r # 0 => r \in Nat /\ r > i /\ r <= L + 1)
  BY <1>1, <1>4 DEF Beyond
<1>5. ASSUME NEW r \in Nat, r > i, r <= L + 1
      PROVE  r \in Beyond(t, i)
  BY <1>1, <1>5 DEF Beyond
<1>6. 0 \in Beyond(t, i)
  BY DEF Beyond
<1> HIDE DEF L, Rank
<1>a. CASE k = "value"
  <2>1. CASE Atom(At(t, i))
    <3>1. ParseFrom(t, p, k, i, d) = i + 1 /\ ParseFrom(t, q, k, i, d) = i + 1
      BY <1>a, <2>1, ValueAtom
    <3>2. i <= L
      BY <1>1, <1>3, <2>1, <1>e
    <3> QED
      BY <3>1, <3>2, <1>5, <1>1
  <2>2. CASE Open(At(t, i))
    <3>1. i <= L /\ i + 1 \in 1 .. L + 1 /\ At(t, i) \in Kinds
      BY <1>1, <1>3, <2>2, <1>e
    <3>2. CASE TooDeep(d + 1)
      <4>1. ParseFrom(t, p, k, i, d) = 0 /\ ParseFrom(t, q, k, i, d) = 0
        BY <1>a, <2>2, <3>2, ValueTooDeep
      <4> QED
        BY <4>1, <1>6
    <3>3. CASE ~TooDeep(d + 1) /\ At(t, i + 1) = Closing(At(t, i))
      <4>1. ParseFrom(t, p, k, i, d) = i + 2 /\ ParseFrom(t, q, k, i, d) = i + 2
        BY <1>a, <2>2, <3>3, ValueEmpty
      <4>2. i + 1 <= L
        BY <1>1, <1>3, <3>3, <1>e
      <4> QED
        BY <4>1, <4>2, <1>5, <1>1
    <3>4. CASE ~TooDeep(d + 1) /\ At(t, i + 1) # Closing(At(t, i))
      <4> DEFINE c == At(t, i)
                 r == p[<<c, i + 1, d + 1>>]
      <4>1. ParseFrom(t, p, k, i, d) = r /\ ParseFrom(t, q, k, i, d) = q[<<c, i + 1, d + 1>>]
        BY <1>a, <2>2, <3>4, ValueNested
      <4>2. d + 1 \in 0 .. MaxDepth + 1
        BY <3>4, <1>1 DEF TooDeep
      <4>3. Rank(c, i + 1) < Rank(k, i)
        BY <1>1, <1>r, <3>1
      <4>4. r = q[<<c, i + 1, d + 1>>] /\ r \in Beyond(t, i + 1)
        BY <4>2, <4>3, <3>1, <1>2
      <4>5. r \in Beyond(t, i)
        BY <4>4, <3>1, <1>1, <1>4
      <4> QED
        BY <4>1, <4>4, <4>5
    <3> QED
      BY <3>2, <3>3, <3>4
  <2>3. CASE ~Atom(At(t, i)) /\ ~Open(At(t, i))
    <3>1. ParseFrom(t, p, k, i, d) = 0 /\ ParseFrom(t, q, k, i, d) = 0
      BY <1>a, <2>3, ValueNone
    <3> QED
      BY <3>1, <1>6
  <2> QED
    BY <2>1, <2>2, <2>3
<1>b. CASE k # "value"
  <2>1. CASE ~KeyAt(t, k, i)
    <3>1. ParseFrom(t, p, k, i, d) = 0 /\ ParseFrom(t, q, k, i, d) = 0
      BY <1>b, <2>1, MembersNoKey
    <3> QED
      BY <3>1, <1>6
  <2>2. CASE KeyAt(t, k, i)
    <3> DEFINE m == ValueAt(k, i)
               j == p[<<"value", m, d>>]
    <3>1. m \in 1 .. L + 1 /\ m >= i /\ m \in Nat
      BY <1>1, <1>3, <2>2, NamedTokens DEF ValueAt
    <3>2. Rank("value", m) < Rank(k, i)
      BY <1>1, <1>b, <1>r, <3>1
    <3>3. j = q[<<"value", m, d>>] /\ j \in Beyond(t, m)
      BY <3>1, <3>2, <1>2, <1>e
    <3>4. j \in Beyond(t, i) /\ (j # 0 => j \in Nat /\ j > i /\ j <= L + 1)
      <4> HIDE DEF j, m
      <4> QED
        BY <3>1, <3>3, <1>4, <1>1
    <3>5. ParseFrom(t, p, k, i, d) = After(t, p, k, d, j) /\ ParseFrom(t, q, k, i, d) = After(t, q, k, d, j)
      BY <3>3, <1>b, <2>2, MembersKey
    <3> HIDE DEF j, m
    <3>6. CASE j = 0
      <4>1. After(t, p, k, d, j) = 0 /\ After(t, q, k, d, j) = 0
        BY <3>6, AfterError
      <4> QED
        BY <3>5, <4>1, <1>6
    <3>7. CASE j # 0 /\ Comma(At(t, j))
      <4> DEFINE r == p[<<k, j + 1, d>>]
      <4>1. j <= L /\ j + 1 \in 1 .. L + 1
        BY <1>1, <1>3, <3>4, <3>7, <1>e
      <4>2. Rank(k, j + 1) < Rank(k, i)
        BY <1>1, <1>r, <3>4, <3>7, <4>1
      <4>3. r = q[<<k, j + 1, d>>] /\ r \in Beyond(t, j + 1)
        BY <4>1, <4>2, <1>2
      <4>4. r \in Beyond(t, i)
        BY <4>1, <4>3, <3>4, <3>7, <1>1, <1>4
      <4>5. After(t, p, k, d, j) = r /\ After(t, q, k, d, j) = q[<<k, j + 1, d>>]
        BY <3>7, AfterComma
      <4> QED
        BY <3>5, <4>3, <4>4, <4>5
    <3>8. CASE j # 0 /\ ~Comma(At(t, j)) /\ At(t, j) = Closing(k)
      <4>1. j <= L
        BY <1>1, <1>3, <3>4, <3>8, <1>e
      <4>2. j + 1 \in Beyond(t, i)
        BY <4>1, <1>1, <1>5, <3>4, <3>8
      <4>3. After(t, p, k, d, j) = j + 1 /\ After(t, q, k, d, j) = j + 1
        BY <3>8, AfterClose
      <4> QED
        BY <3>5, <4>2, <4>3
    <3>9. CASE j # 0 /\ ~Comma(At(t, j)) /\ At(t, j) # Closing(k)
      <4>1. After(t, p, k, d, j) = 0 /\ After(t, q, k, d, j) = 0
        BY <3>9, AfterOther
      <4> QED
        BY <3>5, <4>1, <1>6
    <3> QED
      BY <3>6, <3>7, <3>8, <3>9
  <2> QED
    BY <2>1, <2>2
<1> QED
  BY <1>a, <1>b

\* p is the recursion where fewer than n calls are to come.
Solves(p, t, n) ==
    \A x \in Places(t) : Ahead(t, x) < n =>
        p[x] = ParseFrom(t, p, x[1], x[2], x[3]) /\ p[x] \in Beyond(t, x[2])

\* ParseStep for a place as a whole.
LEMMA ParseStepAt ==
    ASSUME NEW t, t \in Seq(ToSet(t)), NEW x \in Places(t), NEW p, NEW q,
           Advances(p, t, Ahead(t, x)), Agree(p, q, t, Ahead(t, x))
    PROVE  /\ ParseFrom(t, p, x[1], x[2], x[3]) = ParseFrom(t, q, x[1], x[2], x[3])
           /\ ParseFrom(t, p, x[1], x[2], x[3]) \in Beyond(t, x[2])
           /\ Ahead(t, x) \in 0 .. 2 * Len(t) + 1
<1>1. PICK k \in Kinds, i \in 1 .. Len(t) + 1, d \in 0 .. MaxDepth + 1 : x = <<k, i, d>>
  BY PlaceIs
<1>2. x[1] = k /\ x[2] = i /\ x[3] = d /\ Ahead(t, x) = Calls(t, k, i)
  BY <1>1, PlaceOf
<1>3. Advances(p, t, Ahead(t, <<k, i, d>>)) /\ Agree(p, q, t, Ahead(t, <<k, i, d>>))
  BY <1>1, Zenon
<1>4. ParseFrom(t, p, k, i, d) = ParseFrom(t, q, k, i, d) /\ ParseFrom(t, p, k, i, d) \in Beyond(t, i)
  BY <1>3, ParseStep
<1>5. Calls(t, k, i) \in 0 .. 2 * Len(t) + 1
  BY CallsLess
<1> QED
  BY <1>2, <1>4, <1>5

\* Where the calls with n to come are solved, those with one more can be.
LEMMA SolvedFurther ==
    ASSUME NEW t, t \in Seq(ToSet(t)), NEW n \in Nat, NEW p, Solves(p, t, n)
    PROVE  Solves([x \in Places(t) |-> ParseFrom(t, p, x[1], x[2], x[3])], t, n + 1)
<1> DEFINE q == [x \in Places(t) |-> ParseFrom(t, p, x[1], x[2], x[3])]
<1>1. \A x \in Places(t) : q[x] = ParseFrom(t, p, x[1], x[2], x[3])
  OBVIOUS
<1> HIDE DEF q
<1>2. ASSUME NEW x \in Places(t), Ahead(t, x) < n + 1
      PROVE  q[x] = ParseFrom(t, q, x[1], x[2], x[3]) /\ q[x] \in Beyond(t, x[2])
  <2>1. Ahead(t, x) \in Nat
    <3>1. PICK k \in Kinds, i \in 1 .. Len(t) + 1, d \in 0 .. MaxDepth + 1 : x = <<k, i, d>>
      BY PlaceIs
    <3>2. Ahead(t, x) = Calls(t, k, i) /\ Calls(t, k, i) \in 0 .. 2 * Len(t) + 1
      BY <3>1, PlaceOf, CallsLess
    <3> QED
      BY <3>2
  <2>2. ASSUME NEW y \in Places(t), Ahead(t, y) < Ahead(t, x) PROVE Ahead(t, y) < n
    <3>1. Ahead(t, y) \in Nat
      <4>1. PICK k \in Kinds, i \in 1 .. Len(t) + 1, d \in 0 .. MaxDepth + 1 : y = <<k, i, d>>
        BY PlaceIs
      <4>2. Ahead(t, y) = Calls(t, k, i) /\ Calls(t, k, i) \in 0 .. 2 * Len(t) + 1
        BY <4>1, PlaceOf, CallsLess
      <4> QED
        BY <4>2
    <3> QED
      BY <1>2, <2>1, <2>2, <3>1
  <2>3. Advances(p, t, Ahead(t, x))
    BY <2>2 DEF Solves, Advances
  <2>4. Agree(p, q, t, Ahead(t, x))
    BY <1>1, <2>2 DEF Solves, Agree
  <2>5. /\ ParseFrom(t, p, x[1], x[2], x[3]) = ParseFrom(t, q, x[1], x[2], x[3])
        /\ ParseFrom(t, p, x[1], x[2], x[3]) \in Beyond(t, x[2])
    BY <2>3, <2>4, ParseStepAt
  <2> QED
    BY <1>1, <2>5
<1>3. Solves(q, t, n + 1)
  BY <1>2 DEF Solves
<1> QED
  BY <1>3 DEF q

\* The recursion ends.
LEMMA ParserExists ==
    ASSUME NEW t, t \in Seq(ToSet(t))
    PROVE  ParsesAll(ParserOf(t), t)
<1> DEFINE N == 2 * Len(t) + 2
           G == {n \in Nat : \E p : Solves(p, t, n)}
<1>1. N \in Nat
  OBVIOUS
<1>0. \A x \in Places(t) : Ahead(t, x) \in 0 .. 2 * Len(t) + 1
  <2>1. ASSUME NEW x \in Places(t) PROVE Ahead(t, x) \in 0 .. 2 * Len(t) + 1
    <3>1. PICK k \in Kinds, i \in 1 .. Len(t) + 1, d \in 0 .. MaxDepth + 1 : x = <<k, i, d>>
      BY PlaceIs
    <3>2. Ahead(t, x) = Calls(t, k, i) /\ Calls(t, k, i) \in 0 .. 2 * Len(t) + 1
      BY <3>1, PlaceOf, CallsLess
    <3> QED
      BY <3>2
  <2> QED
    BY <2>1
<1>2. 0 \in G
  <2>1. \A x \in Places(t) : ~(Ahead(t, x) < 0)
    BY <1>0
  <2>2. Solves(<< >>, t, 0)
    BY <2>1 DEF Solves
  <2> QED
    BY <2>2
<1>3. \A k \in 0 .. N - 1 : k \in G => k + 1 \in G
  <2>1. ASSUME NEW k \in 0 .. N - 1, k \in G PROVE k + 1 \in G
    <3>1. k \in Nat /\ k + 1 \in Nat
      BY <1>1
    <3>2. PICK p : Solves(p, t, k)
      BY <2>1
    <3>3. Solves([x \in Places(t) |-> ParseFrom(t, p, x[1], x[2], x[3])], t, k + 1)
      BY <3>1, <3>2, SolvedFurther
    <3> QED
      BY <3>1, <3>3
  <2> QED
    BY <2>1
<1>4. N \in G
  <2> HIDE DEF N, G
  <2> QED
    BY <1>1, <1>2, <1>3, StepByStep
<1>5. PICK p : Solves(p, t, N)
  BY <1>4
<1> DEFINE q == [x \in Places(t) |-> ParseFrom(t, p, x[1], x[2], x[3])]
<1>6. \A x \in Places(t) : Ahead(t, x) < N
  BY <1>0
<1>7. ASSUME NEW x \in Places(t)
      PROVE  ParseFrom(t, p, x[1], x[2], x[3]) = ParseFrom(t, q, x[1], x[2], x[3])
  <2>1. \A y \in Places(t) : q[y] = ParseFrom(t, p, y[1], y[2], y[3])
    OBVIOUS
  <2> HIDE DEF q, N
  <2>2. Advances(p, t, Ahead(t, x)) /\ Agree(p, q, t, Ahead(t, x))
    BY <1>5, <1>6, <2>1 DEF Solves, Advances, Agree
  <2> QED
    BY <2>2, ParseStepAt
<1>8. ParsesAll(q, t)
  <2> DEFINE A(x) == ParseFrom(t, p, x[1], x[2], x[3])
             B(x) == ParseFrom(t, q, x[1], x[2], x[3])
  <2>1. \A x \in Places(t) : A(x) = B(x)
    BY <1>7
  <2>2. q = [x \in Places(t) |-> A(x)]
    OBVIOUS
  <2>3. [x \in Places(t) |-> A(x)] = [x \in Places(t) |-> B(x)]
    <3> HIDE DEF A, B
    <3> QED
      BY <2>1
  <2>4. q = [x \in Places(t) |-> B(x)]
    BY <2>2, <2>3, Zenon
  <2> HIDE DEF q
  <2> QED
    BY <2>4 DEF ParsesAll
<1> HIDE DEF q
<1> QED
  BY <1>8, Zenon DEF ParserOf

\* What the parser is: each call is made of calls further on, and advances.
LEMMA ParserIs ==
    ASSUME NEW t, t \in Seq(ToSet(t)), NEW k \in Kinds, NEW i \in 1 .. Len(t) + 1,
           NEW d \in 0 .. MaxDepth + 1
    PROVE  /\ ParserOf(t)[<<k, i, d>>] = ParseFrom(t, ParserOf(t), k, i, d)
           /\ ParserOf(t)[<<k, i, d>>] \in Beyond(t, i)
<1> DEFINE p == ParserOf(t)
           N == 2 * Len(t) + 2
           G == {n \in Nat : Advances(p, t, n)}
<1>1. ParsesAll(p, t)
  BY ParserExists
<1> HIDE DEF p
<1>2. \A x \in Places(t) : p[x] = ParseFrom(t, p, x[1], x[2], x[3])
  <2> DEFINE F(x) == ParseFrom(t, p, x[1], x[2], x[3])
  <2>1. p = [x \in Places(t) |-> F(x)]
    BY <1>1 DEF ParsesAll
  <2> HIDE DEF F
  <2>2. \A x \in Places(t) : p[x] = F(x)
    BY <2>1
  <2> QED
    BY <2>2 DEF F
<1>0. \A x \in Places(t) : Ahead(t, x) \in 0 .. 2 * Len(t) + 1
  <2>1. ASSUME NEW x \in Places(t) PROVE Ahead(t, x) \in 0 .. 2 * Len(t) + 1
    <3>1. PICK c \in Kinds, j \in 1 .. Len(t) + 1, e \in 0 .. MaxDepth + 1 : x = <<c, j, e>>
      BY PlaceIs
    <3>2. Ahead(t, x) = Calls(t, c, j) /\ Calls(t, c, j) \in 0 .. 2 * Len(t) + 1
      BY <3>1, PlaceOf, CallsLess
    <3> QED
      BY <3>2
  <2> QED
    BY <2>1
<1>3. N \in Nat
  OBVIOUS
<1>4. 0 \in G
  BY <1>0 DEF Advances
<1>5. \A n \in 0 .. N - 1 : n \in G => n + 1 \in G
  <2>1. ASSUME NEW n \in 0 .. N - 1, n \in G PROVE n + 1 \in G
    <3>1. n \in Nat /\ n + 1 \in Nat
      BY <1>3
    <3>2. ASSUME NEW y \in Places(t), Ahead(t, y) < n + 1 PROVE p[y] \in Beyond(t, y[2])
      <4>1. Advances(p, t, Ahead(t, y))
        BY <2>1, <3>1, <3>2, <1>0 DEF Advances
      <4>2. Agree(p, p, t, Ahead(t, y))
        BY DEF Agree
      <4> QED
        BY <4>1, <4>2, <1>2, ParseStepAt
    <3> QED
      BY <3>1, <3>2 DEF Advances
  <2> QED
    BY <2>1
<1>6. N \in G
  <2> HIDE DEF N, G
  <2> QED
    BY <1>3, <1>4, <1>5, StepByStep
<1>7. <<k, i, d>> \in Places(t) /\ <<k, i, d>>[1] = k /\ <<k, i, d>>[2] = i /\ <<k, i, d>>[3] = d
  BY PlaceOf
<1>8. p[<<k, i, d>>] = ParseFrom(t, p, k, i, d)
  <2>1. p[<<k, i, d>>] = ParseFrom(t, p, <<k, i, d>>[1], <<k, i, d>>[2], <<k, i, d>>[3])
    BY <1>2, <1>7, Zenon
  <2> QED
    BY <2>1, <1>7, Zenon
<1>9. p[<<k, i, d>>] \in Beyond(t, i)
  <2>1. Ahead(t, <<k, i, d>>) < N
    BY <1>0, <1>7
  <2> QED
    BY <2>1, <1>6, <1>7 DEF Advances
<1> QED
  BY <1>8, <1>9 DEF p

-----------------------------------------------------------------------------
(* JSON: the phrases of the grammar, by what they are made of.             *)

\* What concatenations of sets hold.
LEMMA ConcatsAre ==
    ASSUME NEW A, NEW B, NEW v
    PROVE  v \in Concats(A, B) <=> \E a, b : a \in A /\ b \in B /\ v = a \o b
<1>1. v \in Concats(A, B) => \E a, b : a \in A /\ b \in B /\ v = a \o b
  BY DEF Concats
<1>2. ASSUME NEW a \in A, NEW b \in B, v = a \o b PROVE v \in Concats(A, B)
  BY <1>2 DEF Concats
<1> QED
  BY <1>1, <1>2, Zenon

\* What is concatenated with one first, with one between, and around a middle.
LEMMA ConcatsFirst ==
    ASSUME NEW a, NEW B, NEW v
    PROVE  v \in Concats({a}, B) <=> \E b : b \in B /\ v = a \o b
<1> DEFINE S == {a}
<1>1. \A x : x \in S <=> x = a
  OBVIOUS
<1> HIDE DEF S
<1>2. v \in Concats(S, B) <=> \E c, b : c \in S /\ b \in B /\ v = c \o b
  BY ConcatsAre
<1>3. v \in Concats(S, B) <=> \E b : b \in B /\ v = a \o b
  BY <1>1, <1>2
<1> QED
  BY <1>3 DEF S

LEMMA ConcatsLast ==
    ASSUME NEW A, NEW b, NEW v
    PROVE  v \in Concats(A, {b}) <=> \E a : a \in A /\ v = a \o b
<1> DEFINE S == {b}
<1>1. \A x : x \in S <=> x = b
  OBVIOUS
<1> HIDE DEF S
<1>2. v \in Concats(A, S) <=> \E a, c : a \in A /\ c \in S /\ v = a \o c
  BY ConcatsAre
<1>3. v \in Concats(A, S) <=> \E a : a \in A /\ v = a \o b
  BY <1>1, <1>2
<1> QED
  BY <1>3 DEF S

\* Concatenations of three parts.
Linked(A, c, B) == Concats(Concats(A, {c}), B)
Bracketed(a, M, c) == Concats(Concats({a}, M), {c})
Links(v, A, c, B) == \E a, b : a \in A /\ b \in B /\ v = (a \o c) \o b

LEMMA ConcatsBetween ==
    ASSUME NEW A, NEW c, NEW B, NEW v
    PROVE  v \in Linked(A, c, B) <=> Links(v, A, c, B)
<1> DEFINE S == Concats(A, {c})
<1>1. \A w : w \in S <=> \E a : a \in A /\ w = a \o c
  BY ConcatsLast
<1> HIDE DEF S
<1>2. v \in Concats(S, B) <=> \E w, b : w \in S /\ b \in B /\ v = w \o b
  BY ConcatsAre
<1>3. ASSUME NEW w, NEW b, w \in S, b \in B, v = w \o b
      PROVE  \E a, e : a \in A /\ e \in B /\ v = (a \o c) \o e
  BY <1>1, <1>3, Zenon
<1>4. ASSUME NEW a, NEW b, a \in A, b \in B, v = (a \o c) \o b
      PROVE  \E w, e : w \in S /\ e \in B /\ v = w \o e
  <2>1. a \o c \in S
    BY <1>1, <1>4, Zenon
  <2> QED
    BY <1>4, <2>1, Zenon
<1>5. v \in Concats(S, B) <=> \E a, b : a \in A /\ b \in B /\ v = (a \o c) \o b
  BY <1>2, <1>3, <1>4, Zenon
<1> QED
  BY <1>5, Zenon DEF S, Linked, Links

LEMMA ConcatsAround ==
    ASSUME NEW a, NEW M, NEW c, NEW v
    PROVE  v \in Bracketed(a, M, c) <=> \E m : m \in M /\ v = (a \o m) \o c
<1> DEFINE S == Concats({a}, M)
           C == {c}
<1>1. \A w : w \in S <=> \E m : m \in M /\ w = a \o m
  BY ConcatsFirst
<1>2. \A w : w \in C <=> w = c
  OBVIOUS
<1> HIDE DEF S, C
<1>3. v \in Concats(S, C) <=> \E w, b : w \in S /\ b \in C /\ v = w \o b
  BY ConcatsAre
<1>4. ASSUME NEW w, NEW b, w \in S, b \in C, v = w \o b
      PROVE  \E m : m \in M /\ v = (a \o m) \o c
  BY <1>1, <1>2, <1>4, Zenon
<1>5. ASSUME NEW m, m \in M, v = (a \o m) \o c
      PROVE  \E w, b : w \in S /\ b \in C /\ v = w \o b
  <2>1. a \o m \in S /\ c \in C
    BY <1>1, <1>2, <1>5, Zenon
  <2> QED
    BY <1>5, <2>1, Zenon
<1>6. v \in Concats(S, C) <=> \E m : m \in M /\ v = (a \o m) \o c
  BY <1>3, <1>4, <1>5, Zenon
<1> QED
  BY <1>6, Zenon DEF S, C, Bracketed

\* A comma, and what stands before the value of a member.
CommaToken == ","
Key(k) == IF k = "{" THEN <<"s", ":">> ELSE << >>
Keyed(lang, k, j, d) == IF j <= Len(Key(k)) THEN {} ELSE Concats({Key(k)}, lang[<<"value", j - Len(Key(k)), d>>])

\* A value with n tokens: one token, or what two brackets enclose.
EnclosedIn(v, lang, b, n, d) ==
    \E m : /\ v = (<<b>> \o m) \o <<Closing(b)>>
           /\ m \in lang[<<b, n - 2, d - 1>>] \/ (n = 2 /\ m = << >>)

\* A phrase that is a value is one token, or enclosed by brackets.
LEMMA PhrasesValue ==
    ASSUME NEW lang, NEW n, NEW d, NEW v
    PROVE  v \in Phrases(lang, "value", n, d) <=>
              \/ n = 1 /\ \E a : Atom(a) /\ v = <<a>>
              \/ n >= 2 /\ d >= 1 /\ \E b : Open(b) /\ EnclosedIn(v, lang, b, n, d)
<1> DEFINE A == {w \in {<<"s">>, <<"n">>} : n = 1}
           M(b) == lang[<<b, n - 2, d - 1>>] \cup {e \in {<< >>} : n = 2}
           B == {c \in {"{", "["} : n >= 2 /\ d >= 1}
           C(b) == Concats(Concats({<<b>>}, M(b)), {<<Closing(b)>>})
<1>1. Phrases(lang, "value", n, d) = A \cup UNION {C(b) : b \in B}
  BY Zenon DEF Phrases
<1>2. v \in A <=> n = 1 /\ \E a : Atom(a) /\ v = <<a>>
  BY Zenon DEF Atom
<1>3. \A b : b \in B <=> Open(b) /\ n >= 2 /\ d >= 1
  BY Zenon DEF Open
<1>4. \A b, m : m \in M(b) <=> m \in lang[<<b, n - 2, d - 1>>] \/ (n = 2 /\ m = << >>)
  BY Zenon
<1> HIDE DEF M
<1>5. \A b : v \in C(b) <=> EnclosedIn(v, lang, b, n, d)
  <2>1. ASSUME NEW b PROVE v \in C(b) <=> EnclosedIn(v, lang, b, n, d)
    <3> DEFINE x == <<b>>
               y == <<Closing(b)>>
               N == M(b)
    <3> HIDE DEF x, y, N
    <3>1. v \in Bracketed(x, N, y) <=> \E m : m \in N /\ v = (x \o m) \o y
      BY ConcatsAround
    <3>2. v \in C(b) <=> \E m : m \in M(b) /\ v = (<<b>> \o m) \o <<Closing(b)>>
      BY <3>1, Zenon DEF x, y, N, Bracketed
    <3> QED
      BY <3>2, <1>4, Zenon DEF EnclosedIn
  <2> QED
    BY <2>1
<1> HIDE DEF A, B, C
<1>6. v \in UNION {C(b) : b \in B} <=> \E b \in B : v \in C(b)
  BY Zenon
<1> QED
  BY <1>1, <1>2, <1>3, <1>5, <1>6, Zenon

\* Members: one, or one before a comma and more.
Follows(v, lang, k, j, n, d) ==
    Links(v, Keyed(lang, k, j, d), <<CommaToken>>, lang[<<k, n - j - 1, d>>])

\* Members are one keyed value, or one before a comma and more.
LEMMA PhrasesMembers ==
    ASSUME NEW lang, NEW k, k # "value", NEW n, NEW d, NEW v
    PROVE  v \in Phrases(lang, k, n, d) <=>
              \/ v \in Keyed(lang, k, n, d)
              \/ \E j \in 1 .. n - 2 : Follows(v, lang, k, j, n, d)
<1> DEFINE F(j) == Concats(Concats(Keyed(lang, k, j, d), {<<CommaToken>>}), lang[<<k, n - j - 1, d>>])
<1>1. Phrases(lang, k, n, d) = Keyed(lang, k, n, d) \cup UNION {F(j) : j \in 1 .. n - 2}
  BY Zenon DEF Phrases, Keyed, Key, CommaToken
<1>2. \A j : v \in F(j) <=> Follows(v, lang, k, j, n, d)
  <2>1. ASSUME NEW j PROVE v \in F(j) <=> Follows(v, lang, k, j, n, d)
    <3> DEFINE A == Keyed(lang, k, j, d)
               M == lang[<<k, n - j - 1, d>>]
               c == <<CommaToken>>
    <3> HIDE DEF A, M, c
    <3>1. v \in Linked(A, c, M) <=> Links(v, A, c, M)
      BY ConcatsBetween
    <3> QED
      BY <3>1, Zenon DEF Follows, A, M, c, Linked
  <2> QED
    BY <2>1
<1> HIDE DEF F
<1>3. v \in UNION {F(j) : j \in 1 .. n - 2} <=> \E j \in 1 .. n - 2 : v \in F(j)
  BY Zenon
<1> QED
  BY <1>1, <1>2, <1>3, Zenon

\* v is the key before a value.
KeyThen(v, lang, k, j, d) == \E w : w \in lang[<<"value", j - Len(Key(k)), d>>] /\ v = Key(k) \o w

\* A keyed value is longer than its key.
LEMMA KeyedAre ==
    ASSUME NEW lang, NEW k, NEW j, NEW d, NEW v
    PROVE  v \in Keyed(lang, k, j, d) <=> ~(j <= Len(Key(k))) /\ KeyThen(v, lang, k, j, d)
<1> DEFINE M == lang[<<"value", j - Len(Key(k)), d>>]
           x == Key(k)
<1>1. v \notin {}
  OBVIOUS
<1> HIDE DEF M, x
<1>2. \A u : u \in Concats({x}, M) <=> \E w : w \in M /\ u = x \o w
  BY ConcatsFirst
<1> QED
  BY <1>1, <1>2, Zenon DEF Keyed, KeyThen, M, x

-----------------------------------------------------------------------------
(* JSON: the recursion of the grammar exists.  Phrases are made of lighter *)
(* ones.                                                                   *)

\* The tokens there are.
Alphabet == {"s", "n", "{", "}", "[", "]", ":", ","}
Words(n) == {v \in Seq(Alphabet) : Len(v) = n}

Name == "s"
Colon == ":"

\* The tokens are of the alphabet.
LEMMA InAlphabet ==
    /\ \A a : Atom(a) \/ Open(a) => a \in Alphabet
    /\ \A k : Closing(k) \in Alphabet
    /\ CommaToken \in Alphabet /\ Name \in Alphabet /\ Colon \in Alphabet
<1>1. \A a : Atom(a) \/ Open(a) => a \in Alphabet
  BY Zenon DEF Atom, Open, Alphabet
<1>2. \A k : Closing(k) \in Alphabet
  BY Zenon DEF Closing, Alphabet
<1>3. CommaToken \in Alphabet /\ Name \in Alphabet /\ Colon \in Alphabet
  BY Zenon DEF CommaToken, Name, Colon, Alphabet
<1> QED
  BY <1>1, <1>2, <1>3, Zenon

LEMMA ShortWords ==
    ASSUME NEW S, NEW a \in S, NEW b \in S
    PROVE  /\ << >> \in Seq(S) /\ Len(<< >>) = 0
           /\ <<a>> \in Seq(S) /\ Len(<<a>>) = 1 /\ <<a>>[1] = a
           /\ <<a, b>> \in Seq(S) /\ Len(<<a, b>>) = 2 /\ <<a, b>>[1] = a /\ <<a, b>>[2] = b
OBVIOUS

\* The members of an object have a name and a colon each, those of an array nothing.
LEMMA KeyIs ==
    ASSUME NEW k
    PROVE  /\ Key(k) \in Seq(Alphabet)
           /\ Object(k) => Len(Key(k)) = 2 /\ Key(k)[1] = Name /\ Key(k)[2] = Colon
           /\ ~Object(k) => Len(Key(k)) = 0
<1>1. Object(k) => Key(k) = <<Name, Colon>>
  BY Zenon DEF Object, Key, Name, Colon
<1>2. ~Object(k) => Key(k) = << >>
  BY Zenon DEF Object, Key
<1>3. /\ << >> \in Seq(Alphabet) /\ Len(<< >>) = 0
      /\ <<Name, Colon>> \in Seq(Alphabet) /\ Len(<<Name, Colon>>) = 2
      /\ <<Name, Colon>>[1] = Name /\ <<Name, Colon>>[2] = Colon
  BY InAlphabet, ShortWords
<1>4. CASE Object(k)
  BY <1>1, <1>3, <1>4, Zenon
<1>5. CASE ~Object(k)
  BY <1>2, <1>3, <1>5, Zenon
<1> QED
  BY <1>4, <1>5

\* The length of a concatenation.
LEMMA Concatenated ==
    ASSUME NEW i \in Nat, NEW j \in Nat, NEW u \in Words(i), NEW w \in Words(j)
    PROVE  u \o w \in Words(i + j)
BY DEF Words

LEMMA OneWord ==
    ASSUME NEW a \in Alphabet
    PROVE  <<a>> \in Words(1) /\ << >> \in Words(0)
BY DEF Words

-----------------------------------------------------------------------------

\* What a phrase can be asked for.
Forms == Kinds \X (0 .. MaxTokens) \X (0 .. MaxDepth)

Weight(k, n) == 2 * n + (IF k = "value" THEN 0 ELSE 1)

\* What a phrase of n tokens is made of is lighter.
LEMMA WeightLess ==
    ASSUME NEW k, NEW n \in Nat
    PROVE  /\ Weight(k, n) \in Nat
           /\ \A c : \A j \in Nat : j < n => Weight(c, j) < Weight(k, n)
           /\ \A j \in Nat : k # "value" /\ j <= n => Weight("value", j) < Weight(k, n)
<1>1. Weight(k, n) \in Nat
  BY DEF Weight
<1>2. ASSUME NEW c, NEW j \in Nat, j < n
      PROVE  Weight(c, j) < Weight(k, n)
  BY <1>2 DEF Weight
<1>3. ASSUME NEW j \in Nat, k # "value", j <= n
      PROVE  Weight("value", j) < Weight(k, n)
  BY <1>3 DEF Weight
<1> QED
  BY <1>1, <1>2, <1>3

\* The phrases of f and g that are lighter than k of n are the same, and words
\* of their lengths.
Same(f, g, k, n) ==
    \A c \in Kinds, m \in 0 .. MaxTokens, e \in 0 .. MaxDepth :
        Weight(c, m) < Weight(k, n) =>
            f[<<c, m, e>>] = g[<<c, m, e>>] /\ f[<<c, m, e>>] \subseteq Words(m)

\* Languages that agree on lighter phrases agree on what is made of them.
LEMMA SameEnclosed ==
    ASSUME NEW f, NEW g, NEW n \in 0 .. MaxTokens, NEW d \in 0 .. MaxDepth, Same(f, g, "value", n),
           MaxTokens \in Nat, n >= 2, d >= 1, NEW b, Open(b), NEW v, EnclosedIn(v, f, b, n, d)
    PROVE  EnclosedIn(v, g, b, n, d) /\ v \in Words(n)
<1>1. PICK m : /\ v = (<<b>> \o m) \o <<Closing(b)>>
               /\ m \in f[<<b, n - 2, d - 1>>] \/ (n = 2 /\ m = << >>)
  BY Zenon DEF EnclosedIn
<1>2. n - 2 \in 0 .. MaxTokens /\ d - 1 \in 0 .. MaxDepth /\ n - 2 < n /\ n - 2 \in Nat /\ n \in Nat
  BY JsonAssumption
<1>3. b \in Kinds
  BY TokensDiffer, Zenon
<1>4. Weight(b, n - 2) < Weight("value", n)
  BY <1>2, WeightLess
<1>5. f[<<b, n - 2, d - 1>>] = g[<<b, n - 2, d - 1>>] /\ f[<<b, n - 2, d - 1>>] \subseteq Words(n - 2)
  BY <1>2, <1>3, <1>4 DEF Same
<1>6. EnclosedIn(v, g, b, n, d)
  BY <1>1, <1>5, Zenon DEF EnclosedIn
<1>7. m \in Words(n - 2)
  <2>1. << >> \in Words(0)
    BY InAlphabet, OneWord
  <2>2. CASE m \in f[<<b, n - 2, d - 1>>]
    BY <1>5, <2>2
  <2>3. CASE n = 2 /\ m = << >>
    <3>1. n - 2 = 0
      BY <2>3
    <3> QED
      BY <2>1, <2>3, <3>1, Zenon
  <2> QED
    BY <1>1, <2>2, <2>3
<1>8. b \in Alphabet /\ Closing(b) \in Alphabet
  BY InAlphabet
<1>9. <<b>> \in Words(1) /\ <<Closing(b)>> \in Words(1)
  BY <1>8, OneWord
<1>10. <<b>> \o m \in Words(1 + (n - 2))
  BY <1>2, <1>7, <1>9, Concatenated
<1>11. (<<b>> \o m) \o <<Closing(b)>> \in Words((1 + (n - 2)) + 1)
  <2>1. 1 + (n - 2) \in Nat
    BY <1>2
  <2> DEFINE i == 1 + (n - 2)
             u == <<b>> \o m
             w == <<Closing(b)>>
  <2> HIDE DEF i, u, w
  <2>2. i \in Nat /\ u \in Words(i) /\ w \in Words(1)
    BY <2>1, <1>9, <1>10, Zenon DEF i, u, w
  <2>3. u \o w \in Words(i + 1)
    BY <2>2, Concatenated
  <2> QED
    BY <2>3, Zenon DEF i, u, w
<1>12. (1 + (n - 2)) + 1 = n
  BY <1>2
<1> QED
  BY <1>1, <1>6, <1>11, <1>12, Zenon

LEMMA SameKeyed ==
    ASSUME NEW f, NEW g, NEW k, k # "value", NEW n \in 0 .. MaxTokens, NEW d \in 0 .. MaxDepth,
           Same(f, g, k, n), MaxTokens \in Nat, NEW j \in 0 .. n, NEW v, v \in Keyed(f, k, j, d)
    PROVE  v \in Keyed(g, k, j, d) /\ v \in Words(j)
<1> DEFINE l == Len(Key(k))
<1>1. PICK w : w \in f[<<"value", j - l, d>>] /\ v = Key(k) \o w /\ ~(j <= l)
  <2>1. ~(j <= l) /\ KeyThen(v, f, k, j, d)
    BY KeyedAre
  <2> QED
    BY <2>1, Zenon DEF KeyThen
<1>2. Key(k) \in Words(l) /\ l \in Nat
  BY KeyIs DEF Words
<1> HIDE DEF l
<1>3. j - l \in 0 .. MaxTokens /\ j - l <= n /\ j - l \in Nat /\ n \in Nat /\ l + (j - l) = j
  BY <1>1, <1>2
<1>4. Weight("value", j - l) < Weight(k, n) /\ "value" \in Kinds
  BY <1>3, WeightLess DEF Kinds
<1>5. f[<<"value", j - l, d>>] = g[<<"value", j - l, d>>] /\ f[<<"value", j - l, d>>] \subseteq Words(j - l)
  BY <1>3, <1>4 DEF Same
<1>6. v \in Keyed(g, k, j, d)
  <2>1. KeyThen(v, g, k, j, d)
    BY <1>1, <1>5, Zenon DEF KeyThen, l
  <2> QED
    BY <1>1, <2>1, KeyedAre DEF l
<1>7. Key(k) \o w \in Words(l + (j - l))
  BY <1>1, <1>2, <1>3, <1>5, Concatenated
<1> QED
  BY <1>1, <1>3, <1>6, <1>7, Zenon

LEMMA SameFollows ==
    ASSUME NEW f, NEW g, NEW k \in Kinds, k # "value", NEW n \in 0 .. MaxTokens, NEW d \in 0 .. MaxDepth,
           Same(f, g, k, n), MaxTokens \in Nat, NEW j \in 1 .. n - 2, NEW v, Follows(v, f, k, j, n, d)
    PROVE  Follows(v, g, k, j, n, d) /\ v \in Words(n)
<1>1. PICK a, b : a \in Keyed(f, k, j, d) /\ b \in f[<<k, n - j - 1, d>>] /\ v = (a \o <<CommaToken>>) \o b
  BY Zenon DEF Follows, Links
<1>2. j \in 0 .. n /\ n - j - 1 \in 0 .. MaxTokens /\ n - j - 1 < n /\ n - j - 1 \in Nat /\ n \in Nat /\ j \in Nat
  OBVIOUS
<1>3. a \in Keyed(g, k, j, d) /\ a \in Words(j)
  BY <1>1, <1>2, SameKeyed
<1>4. Weight(k, n - j - 1) < Weight(k, n)
  BY <1>2, WeightLess
<1>5. f[<<k, n - j - 1, d>>] = g[<<k, n - j - 1, d>>] /\ f[<<k, n - j - 1, d>>] \subseteq Words(n - j - 1)
  BY <1>2, <1>4 DEF Same
<1>6. Follows(v, g, k, j, n, d)
  BY <1>1, <1>3, <1>5, Zenon DEF Follows, Links
<1>7. <<CommaToken>> \in Words(1)
  BY InAlphabet, OneWord
<1>8. b \in Words(n - j - 1)
  BY <1>1, <1>5
<1>9. a \o <<CommaToken>> \in Words(j + 1)
  BY <1>2, <1>3, <1>7, Concatenated
<1> DEFINE x == a \o <<CommaToken>>
           p == j + 1
           q == n - j - 1
<1>10. x \in Words(p) /\ b \in Words(q) /\ p \in Nat /\ q \in Nat /\ p + q = n
  BY <1>2, <1>8, <1>9
<1> HIDE DEF x, p, q
<1>11. x \o b \in Words(p + q)
  BY <1>10, Concatenated
<1>12. v = x \o b
  BY <1>1, Zenon DEF x
<1> QED
  BY <1>6, <1>10, <1>11, <1>12, Zenon

\* What is made of the same phrases is the same.
LEMMA PhrasesKept ==
    ASSUME NEW f, NEW g, NEW k \in Kinds, NEW n \in 0 .. MaxTokens, NEW d \in 0 .. MaxDepth,
           Same(f, g, k, n), MaxTokens \in Nat, NEW v, v \in Phrases(f, k, n, d)
    PROVE  v \in Phrases(g, k, n, d) /\ v \in Words(n)
<1>1. CASE k = "value"
  <2>1. Same(f, g, "value", n) /\ v \in Phrases(f, "value", n, d)
    BY <1>1, Zenon
  <2>2. \/ n = 1 /\ \E a : Atom(a) /\ v = <<a>>
        \/ n >= 2 /\ d >= 1 /\ \E b : Open(b) /\ EnclosedIn(v, f, b, n, d)
    BY <2>1, PhrasesValue, Zenon
  <2>3. v \in Phrases(g, "value", n, d) /\ v \in Words(n)
    <3>1. CASE n = 1 /\ \E a : Atom(a) /\ v = <<a>>
      <4>1. PICK a : Atom(a) /\ v = <<a>>
        BY <3>1
      <4>2. v \in Words(n)
        <5>1. <<a>> \in Words(1)
          BY <4>1, InAlphabet, OneWord
        <5> QED
          BY <3>1, <4>1, <5>1, Zenon
      <4>3. v \in Phrases(g, "value", n, d)
        BY <3>1, PhrasesValue, Zenon
      <4> QED
        BY <4>2, <4>3
    <3>2. CASE n >= 2 /\ d >= 1 /\ \E b : Open(b) /\ EnclosedIn(v, f, b, n, d)
      <4>1. PICK b : Open(b) /\ EnclosedIn(v, f, b, n, d)
        BY <3>2
      <4>2. EnclosedIn(v, g, b, n, d) /\ v \in Words(n)
        BY <2>1, <3>2, <4>1, SameEnclosed
      <4>3. v \in Phrases(g, "value", n, d)
        BY <3>2, <4>1, <4>2, PhrasesValue, Zenon
      <4> QED
        BY <4>2, <4>3
    <3> QED
      BY <2>2, <3>1, <3>2
  <2> QED
    BY <1>1, <2>3, Zenon
<1>2. CASE k # "value"
  <2>1. v \in Keyed(f, k, n, d) \/ \E j \in 1 .. n - 2 : Follows(v, f, k, j, n, d)
    BY <1>2, PhrasesMembers, Zenon
  <2>2. CASE v \in Keyed(f, k, n, d)
    <3>1. v \in Keyed(g, k, n, d) /\ v \in Words(n)
      <4>1. n \in 0 .. n
        OBVIOUS
      <4> QED
        BY <1>2, <2>2, <4>1, SameKeyed
    <3> QED
      BY <1>2, <3>1, PhrasesMembers, Zenon
  <2>3. CASE \E j \in 1 .. n - 2 : Follows(v, f, k, j, n, d)
    <3>1. PICK j \in 1 .. n - 2 : Follows(v, f, k, j, n, d)
      BY <2>3
    <3>2. Follows(v, g, k, j, n, d) /\ v \in Words(n)
      BY <1>2, <3>1, SameFollows
    <3> QED
      BY <1>2, <3>2, PhrasesMembers, Zenon
  <2> QED
    BY <2>1, <2>2, <2>3
<1> QED
  BY <1>1, <1>2

\* ... and so on the phrases themselves, which have the length asked for.
LEMMA PhrasesStep ==
    ASSUME NEW f, NEW g, NEW k \in Kinds, NEW n \in 0 .. MaxTokens, NEW d \in 0 .. MaxDepth,
           Same(f, g, k, n), MaxTokens \in Nat
    PROVE  Phrases(f, k, n, d) = Phrases(g, k, n, d) /\ Phrases(f, k, n, d) \subseteq Words(n)
<1>1. Same(g, f, k, n)
  BY DEF Same
<1>2. \A v : v \in Phrases(f, k, n, d) => v \in Phrases(g, k, n, d) /\ v \in Words(n)
  BY PhrasesKept
<1>3. \A v : v \in Phrases(g, k, n, d) => v \in Phrases(f, k, n, d)
  BY <1>1, PhrasesKept
<1> QED
  BY <1>2, <1>3

\* g is the recursion of the grammar.
LanguageIs(g) == g = [x \in Forms |-> Phrases(g, x[1], x[2], x[3])]
Language == CHOOSE g : LanguageIs(g)

\* The grammar is of the language chosen here.
LEMMA GrammarDef == Grammar = [n \in 0 .. MaxTokens |-> Language[<<"value", n, MaxDepth>>]]
BY Zenon DEF Grammar, Language, LanguageIs, Forms

LEMMA TokensBounded == MaxTokens \in Nat
BY TextAssumption, Zenon

\* A form of a phrase and its parts.
LEMMA FormOf ==
    ASSUME NEW k \in Kinds, NEW n \in 0 .. MaxTokens, NEW d \in 0 .. MaxDepth
    PROVE  /\ <<k, n, d>> \in Forms
           /\ <<k, n, d>>[1] = k /\ <<k, n, d>>[2] = n /\ <<k, n, d>>[3] = d
BY DEF Forms

LEMMA FormIs ==
    ASSUME NEW x \in Forms
    PROVE  \E k \in Kinds, n \in 0 .. MaxTokens, d \in 0 .. MaxDepth : x = <<k, n, d>>
BY DEF Forms

\* g is the language as far as its phrases weigh less than w.
Speaks(g, w) ==
    \A k \in Kinds, n \in 0 .. MaxTokens, d \in 0 .. MaxDepth : Weight(k, n) < w =>
        g[<<k, n, d>>] = Phrases(g, k, n, d) /\ g[<<k, n, d>>] \subseteq Words(n)

\* Weights are bounded.
LEMMA WeightRange ==
    ASSUME NEW k, NEW n \in 0 .. MaxTokens
    PROVE  Weight(k, n) \in 0 .. 2 * MaxTokens + 1 /\ n \in Nat
<1>1. MaxTokens \in Nat /\ n \in Nat /\ n <= MaxTokens
  BY TokensBounded
<1> QED
  BY <1>1 DEF Weight

\* The phrases made of those in p.
Made(p) == [x \in Forms |-> Phrases(p, x[1], x[2], x[3])]

\* The table made of another.
LEMMA MadeOf ==
    ASSUME NEW p, NEW k \in Kinds, NEW n \in 0 .. MaxTokens, NEW d \in 0 .. MaxDepth
    PROVE  Made(p)[<<k, n, d>>] = Phrases(p, k, n, d)
<1> DEFINE x == <<k, n, d>>
<1>1. x \in Forms /\ x[1] = k /\ x[2] = n /\ x[3] = d
  BY FormOf
<1> HIDE DEF x
<1>2. Made(p)[x] = Phrases(p, x[1], x[2], x[3])
  BY <1>1 DEF Made
<1>3. Made(p)[x] = Phrases(p, k, n, d)
  BY <1>1, <1>2, Zenon
<1> QED
  BY <1>3 DEF x

\* A table right for phrases lighter than w makes one right for those of weight w.
LEMMA SpokenFurther ==
    ASSUME NEW w \in Nat, NEW p, Speaks(p, w), NEW q,
           \A k \in Kinds, n \in 0 .. MaxTokens, d \in 0 .. MaxDepth : q[<<k, n, d>>] = Phrases(p, k, n, d)
    PROVE  Speaks(q, w + 1)
<1>1. ASSUME NEW k \in Kinds, NEW n \in 0 .. MaxTokens, NEW d \in 0 .. MaxDepth, Weight(k, n) < w + 1
      PROVE  q[<<k, n, d>>] = Phrases(q, k, n, d) /\ q[<<k, n, d>>] \subseteq Words(n)
  <2>1. Weight(k, n) \in Nat
    BY WeightRange
  <2>2. ASSUME NEW c \in Kinds, NEW m \in 0 .. MaxTokens, NEW e \in 0 .. MaxDepth, Weight(c, m) < Weight(k, n)
        PROVE  p[<<c, m, e>>] = q[<<c, m, e>>] /\ p[<<c, m, e>>] \subseteq Words(m)
    <3>1. Weight(c, m) \in Nat
      BY WeightRange
    <3>2. Weight(c, m) < w
      BY <1>1, <2>1, <2>2, <3>1
    <3>3. p[<<c, m, e>>] = Phrases(p, c, m, e) /\ p[<<c, m, e>>] \subseteq Words(m)
      BY <3>2 DEF Speaks
    <3> QED
      BY <3>3
  <2>3. Same(p, q, k, n)
    BY <2>2 DEF Same
  <2>4. Phrases(p, k, n, d) = Phrases(q, k, n, d) /\ Phrases(p, k, n, d) \subseteq Words(n)
    BY <2>3, TokensBounded, PhrasesStep
  <2>5. q[<<k, n, d>>] = Phrases(p, k, n, d)
    OBVIOUS
  <2> QED
    BY <2>4, <2>5
<1> QED
  BY <1>1 DEF Speaks

\* The recursion has a solution.
LEMMA LanguageExists == LanguageIs(Language)
<1> DEFINE N == 2 * MaxTokens + 2
           G == {w \in Nat : \E p : Speaks(p, w)}
<1>1. N \in Nat
  BY TokensBounded
<1>2. 0 \in G
  <2>1. Speaks(<< >>, 0)
    BY WeightRange DEF Speaks
  <2> QED
    BY <2>1
<1>3. \A w \in 0 .. N - 1 : w \in G => w + 1 \in G
  <2>1. ASSUME NEW w \in 0 .. N - 1, w \in G PROVE w + 1 \in G
    <3>1. w \in Nat /\ w + 1 \in Nat
      BY <1>1
    <3>2. PICK p : Speaks(p, w)
      BY <2>1
    <3>4. Speaks(Made(p), w + 1)
      BY <3>1, <3>2, MadeOf, SpokenFurther
    <3> QED
      BY <3>1, <3>4
  <2> QED
    BY <2>1
<1>4. N \in G
  <2> HIDE DEF N, G
  <2> QED
    BY <1>1, <1>2, <1>3, StepByStep
<1>5. PICK p : Speaks(p, N)
  BY <1>4
<1> DEFINE q == Made(p)
<1>6. \A k \in Kinds, n \in 0 .. MaxTokens, d \in 0 .. MaxDepth : q[<<k, n, d>>] = Phrases(p, k, n, d)
  BY MadeOf
<1>m. q = [x \in Forms |-> Phrases(p, x[1], x[2], x[3])]
  BY Zenon DEF Made
<1> HIDE DEF q
<1>7. ASSUME NEW k \in Kinds, NEW n \in 0 .. MaxTokens, NEW d \in 0 .. MaxDepth
      PROVE  Phrases(p, k, n, d) = Phrases(q, k, n, d)
  <2>1. ASSUME NEW c \in Kinds, NEW m \in 0 .. MaxTokens, NEW e \in 0 .. MaxDepth
        PROVE  p[<<c, m, e>>] = q[<<c, m, e>>] /\ p[<<c, m, e>>] \subseteq Words(m)
    <3>1. Weight(c, m) < N
      BY WeightRange, TokensBounded
    <3>2. p[<<c, m, e>>] = Phrases(p, c, m, e) /\ p[<<c, m, e>>] \subseteq Words(m)
      BY <1>5, <3>1 DEF Speaks
    <3> QED
      BY <1>6, <3>2
  <2>2. Same(p, q, k, n)
    BY <2>1 DEF Same
  <2> QED
    BY <2>2, TokensBounded, PhrasesStep
<1> DEFINE A(x) == Phrases(p, x[1], x[2], x[3])
           B(x) == Phrases(q, x[1], x[2], x[3])
<1>8. ASSUME NEW x \in Forms PROVE A(x) = B(x)
  <2>1. PICK k \in Kinds, n \in 0 .. MaxTokens, d \in 0 .. MaxDepth : x = <<k, n, d>>
    BY FormIs
  <2>2. x[1] = k /\ x[2] = n /\ x[3] = d
    BY <2>1
  <2>3. Phrases(p, k, n, d) = Phrases(q, k, n, d)
    BY <1>7
  <2> QED
    BY <2>2, <2>3, Zenon
<1>9. q = [x \in Forms |-> A(x)]
  BY <1>m, Zenon
<1>10. [x \in Forms |-> A(x)] = [x \in Forms |-> B(x)]
  <2> HIDE DEF A, B
  <2> QED
    BY <1>8
<1>11. LanguageIs(q)
  BY <1>9, <1>10, Zenon DEF LanguageIs
<1> QED
  BY <1>11, Zenon DEF Language

\* What the language is: each phrase is made of lighter ones and has its length.
LEMMA LanguageHas ==
    ASSUME NEW k \in Kinds, NEW n \in 0 .. MaxTokens, NEW d \in 0 .. MaxDepth
    PROVE  Language[<<k, n, d>>] = Phrases(Language, k, n, d) /\ Language[<<k, n, d>>] \subseteq Words(n)
<1> DEFINE g == Language
           N == 2 * MaxTokens + 2
           G == {w \in Nat : Speaks(g, w)}
<1>1. g = [x \in Forms |-> Phrases(g, x[1], x[2], x[3])]
  BY LanguageExists, Zenon DEF LanguageIs
<1> HIDE DEF g
<1>2. \A c \in Kinds, m \in 0 .. MaxTokens, e \in 0 .. MaxDepth : g[<<c, m, e>>] = Phrases(g, c, m, e)
  <2>1. \A c \in Kinds, m \in 0 .. MaxTokens, e \in 0 .. MaxDepth : Made(g)[<<c, m, e>>] = Phrases(g, c, m, e)
    BY MadeOf
  <2>2. g = Made(g)
    BY <1>1, Zenon DEF Made
  <2> QED
    BY <2>1, <2>2, Zenon
<1>3. N \in Nat
  BY TokensBounded
<1>4. 0 \in G
  <2>1. Speaks(g, 0)
    BY WeightRange DEF Speaks
  <2> QED
    BY <2>1
<1>5. \A w \in 0 .. N - 1 : w \in G => w + 1 \in G
  <2>1. ASSUME NEW w \in 0 .. N - 1, w \in G PROVE w + 1 \in G
    <3>1. w \in Nat /\ w + 1 \in Nat /\ Speaks(g, w)
      BY <1>3, <2>1
    <3>2. Speaks(g, w + 1)
      BY <1>2, <3>1, SpokenFurther
    <3> QED
      BY <3>1, <3>2
  <2> QED
    BY <2>1
<1>6. N \in G
  <2> HIDE DEF N, G
  <2> QED
    BY <1>3, <1>4, <1>5, StepByStep
<1>7. Weight(k, n) < N
  BY WeightRange, TokensBounded
<1> QED
  BY <1>6, <1>7 DEF Speaks, g

-----------------------------------------------------------------------------
(* JSON: what the grammar reads between two places of a text.              *)

\* The tokens of t from i to before e.
Segment(t, i, e) == SubSeq(t, i, e - 1)

\* A segment, token by token.
LEMMA SegmentIs ==
    ASSUME NEW S, NEW t \in Seq(S), NEW i \in 1 .. Len(t) + 1, NEW e \in i .. Len(t) + 1
    PROVE  /\ Segment(t, i, e) \in Seq(S) /\ Len(Segment(t, i, e)) = e - i
           /\ \A m \in 1 .. e - i : Segment(t, i, e)[m] = t[i + m - 1]
BY DEF Segment

\* The parts of a concatenation.
LEMMA ConcatParts ==
    ASSUME NEW S, NEW u \in Seq(S), NEW w \in Seq(S)
    PROVE  /\ \A m \in 1 .. Len(u) : (u \o w)[m] = u[m]
           /\ \A m \in 1 .. Len(w) : (u \o w)[Len(u) + m] = w[m]
<1>1. Len(u) \in Nat /\ Len(w) \in Nat
  OBVIOUS
<1>2. \A m \in 1 .. Len(u) + Len(w) : (u \o w)[m] = IF m <= Len(u) THEN u[m] ELSE w[m - Len(u)]
  BY ConcatProperties
<1>3. ASSUME NEW m \in 1 .. Len(u) PROVE (u \o w)[m] = u[m]
  <2>1. m \in 1 .. Len(u) + Len(w) /\ m <= Len(u)
    BY <1>1
  <2> QED
    BY <1>2, <2>1, Zenon
<1>4. ASSUME NEW m \in 1 .. Len(w) PROVE (u \o w)[Len(u) + m] = w[m]
  <2>1. Len(u) + m \in 1 .. Len(u) + Len(w) /\ ~(Len(u) + m <= Len(u)) /\ (Len(u) + m) - Len(u) = m
    BY <1>1
  <2> QED
    BY <1>2, <2>1, Zenon
<1> QED
  BY <1>3, <1>4

\* A segment is the concatenation of its parts.
LEMMA SegmentJoined ==
    ASSUME NEW S, NEW t \in Seq(S), NEW i \in 1 .. Len(t) + 1, NEW e \in i .. Len(t) + 1, NEW c \in i .. e
    PROVE  Segment(t, i, e) = Segment(t, i, c) \o Segment(t, c, e)
<1> DEFINE a == Segment(t, i, c)
           b == Segment(t, c, e)
           s == Segment(t, i, e)
<1>1. i \in Nat /\ c \in Nat /\ e \in Nat /\ Len(t) \in Nat /\ c \in 1 .. Len(t) + 1 /\ c \in i .. Len(t) + 1 /\ e \in c .. Len(t) + 1
  OBVIOUS
<1>2. a \in Seq(S) /\ Len(a) = c - i /\ \A m \in 1 .. c - i : a[m] = t[i + m - 1]
  BY <1>1, SegmentIs
<1>3. b \in Seq(S) /\ Len(b) = e - c /\ \A m \in 1 .. e - c : b[m] = t[c + m - 1]
  BY <1>1, SegmentIs
<1>4. s \in Seq(S) /\ Len(s) = e - i /\ \A m \in 1 .. e - i : s[m] = t[i + m - 1]
  BY <1>1, SegmentIs
<1> HIDE DEF a, b, s
<1>5. a \o b \in Seq(S) /\ Len(a \o b) = e - i
  <2>1. a \o b \in Seq(S) /\ Len(a \o b) = Len(a) + Len(b)
    <3>1. a \in Seq(S) /\ b \in Seq(S)
      BY <1>2, <1>3
    <3> QED
      BY <3>1, ConcatProperties
  <2>2. (c - i) + (e - c) = e - i
    BY <1>1
  <2> QED
    BY <1>2, <1>3, <2>1, <2>2
<1>6. ASSUME NEW m \in 1 .. e - i PROVE (a \o b)[m] = s[m]
  <2>1. CASE m <= c - i
    <3>1. m \in 1 .. c - i /\ m \in 1 .. Len(a)
      BY <1>1, <1>2, <2>1
    <3>2. (a \o b)[m] = a[m]
      BY <1>2, <1>3, <3>1, ConcatParts
    <3> QED
      BY <1>2, <1>4, <3>1, <3>2, Zenon
  <2>2. CASE m > c - i
    <3>1. (a \o b)[m] = b[m - (c - i)]
      <4>1. m - (c - i) \in 1 .. Len(b) /\ Len(a) + (m - (c - i)) = m
        BY <1>1, <1>2, <1>3, <2>2
      <4>2. (a \o b)[Len(a) + (m - (c - i))] = b[m - (c - i)]
        BY <1>2, <1>3, <4>1, ConcatParts
      <4> QED
        BY <4>1, <4>2, Zenon
    <3>2. m - (c - i) \in 1 .. e - c /\ c + (m - (c - i)) - 1 = i + m - 1
      BY <1>1, <2>2
    <3>3. b[m - (c - i)] = t[c + (m - (c - i)) - 1]
      BY <1>3, <3>2
    <3> QED
      BY <1>4, <3>1, <3>2, <3>3
  <2>3. m <= c - i \/ m > c - i
    BY <1>1
  <2> QED
    BY <2>1, <2>2, <2>3, Zenon
<1>7. s = a \o b
  <2>1. e - i \in Nat
    BY <1>1
  <2> DEFINE ab == a \o b
  <2>2. ab \in Seq(S) /\ Len(ab) = e - i /\ \A m \in 1 .. e - i : ab[m] = s[m]
    BY <1>5, <1>6
  <2> HIDE DEF ab
  <2>3. s = ab
    BY <1>4, <2>1, <2>2
  <2> QED
    BY <2>3 DEF ab
<1> QED
  BY <1>7 DEF a, b, s

\* A segment that is a concatenation is so where its first part ends.
MadeOfTwo(t, i, e, u, w) == Segment(t, i, e) = u \o w

\* ... and two sequences that make it up are its parts.
LEMMA SegmentSplit ==
    ASSUME NEW S, NEW t \in Seq(S), NEW i \in 1 .. Len(t) + 1, NEW e \in i .. Len(t) + 1,
           NEW U, NEW u \in Seq(U), NEW w \in Seq(U), MadeOfTwo(t, i, e, u, w)
    PROVE  /\ i + Len(u) \in i .. e /\ Len(w) = e - (i + Len(u))
           /\ u = Segment(t, i, i + Len(u)) /\ w = Segment(t, i + Len(u), e)
<1> DEFINE c == i + Len(u)
           a == Segment(t, i, c)
           b == Segment(t, c, e)
           s == Segment(t, i, e)
<1>1. i \in Nat /\ e \in Nat /\ Len(t) \in Nat /\ Len(u) \in Nat /\ Len(w) \in Nat
  OBVIOUS
<1>0. s = u \o w
  BY Zenon DEF MadeOfTwo
<1>2. s \in Seq(S) /\ Len(s) = e - i /\ \A m \in 1 .. e - i : s[m] = t[i + m - 1]
  BY SegmentIs
<1>3. Len(u \o w) = Len(u) + Len(w)
  OBVIOUS
<1>4. c \in i .. e /\ Len(w) = e - c /\ Len(u) = c - i /\ c \in Nat /\ c \in 1 .. Len(t) + 1 /\ c \in i .. Len(t) + 1 /\ e \in c .. Len(t) + 1
  BY <1>0, <1>1, <1>2, <1>3
<1>5. a \in Seq(S) /\ Len(a) = c - i /\ \A m \in 1 .. c - i : a[m] = t[i + m - 1]
  BY <1>4, SegmentIs
<1>6. b \in Seq(S) /\ Len(b) = e - c /\ \A m \in 1 .. e - c : b[m] = t[c + m - 1]
  BY <1>4, SegmentIs
<1>d. u \in Seq(U) /\ w \in Seq(U)
  OBVIOUS
<1> HIDE DEF a, b, s, c
<1>7. ASSUME NEW m \in 1 .. c - i PROVE u[m] = a[m]
  <2>1. m \in 1 .. Len(u) /\ m \in 1 .. e - i
    BY <1>1, <1>4, <1>7
  <2>2. (u \o w)[m] = u[m]
    BY <1>d, <2>1, ConcatParts
  <2> QED
    BY <1>0, <1>2, <1>5, <1>7, <2>1, <2>2, Zenon
<1>8. ASSUME NEW m \in 1 .. e - c PROVE w[m] = b[m]
  <2>1. (u \o w)[(c - i) + m] = w[m]
    <3>1. m \in 1 .. Len(w) /\ Len(u) = c - i
      BY <1>4, <1>8
    <3>2. (u \o w)[Len(u) + m] = w[m]
      BY <1>d, <3>1, ConcatParts
    <3> QED
      BY <3>1, <3>2, Zenon
  <2>2. (c - i) + m \in 1 .. e - i /\ i + ((c - i) + m) - 1 = c + m - 1
    BY <1>1, <1>4, <1>8
  <2>3. s[(c - i) + m] = t[i + ((c - i) + m) - 1]
    BY <1>2, <2>2
  <2> QED
    BY <1>0, <1>6, <1>8, <2>1, <2>2, <2>3, Zenon
<1>9. u = a
  BY <1>1, <1>4, <1>5, <1>7
<1>10. w = b
  BY <1>1, <1>4, <1>6, <1>8
<1> QED
  BY <1>4, <1>9, <1>10 DEF a, b, c

LEMMA SegmentOne ==
    ASSUME NEW S, NEW t \in Seq(S), NEW i \in 1 .. Len(t)
    PROVE  Segment(t, i, i + 1) = <<t[i]>> /\ Segment(t, i, i) = << >>
<1>1. i \in Nat /\ Len(t) \in Nat /\ i \in 1 .. Len(t) + 1 /\ i + 1 \in i .. Len(t) + 1 /\ i \in i .. Len(t) + 1
  OBVIOUS
<1>2. /\ Segment(t, i, i + 1) \in Seq(S) /\ Len(Segment(t, i, i + 1)) = 1
      /\ Segment(t, i, i + 1)[1] = t[i]
  <2>1. /\ Segment(t, i, i + 1) \in Seq(S) /\ Len(Segment(t, i, i + 1)) = (i + 1) - i
        /\ \A m \in 1 .. (i + 1) - i : Segment(t, i, i + 1)[m] = t[i + m - 1]
    BY <1>1, SegmentIs
  <2>2. (i + 1) - i = 1 /\ 1 \in 1 .. (i + 1) - i /\ i + 1 - 1 = i
    BY <1>1
  <2> QED
    BY <2>1, <2>2
<1>3. Segment(t, i, i) \in Seq(S) /\ Len(Segment(t, i, i)) = 0
  BY <1>1, SegmentIs
<1> DEFINE a == Segment(t, i, i + 1)
           b == Segment(t, i, i)
<1> HIDE DEF a, b
<1>4. a \in Seq(S) /\ Len(a) = 1 /\ a[1] = t[i] /\ b \in Seq(S) /\ Len(b) = 0
  BY <1>2, <1>3, Zenon DEF a, b
<1>5. a = <<t[i]>> /\ b = << >>
  BY <1>4
<1> QED
  BY <1>5 DEF a, b

\* The tokens from i to before e are, in the grammar, a k nested d deep at most.
Reads(t, k, i, e, d) == Segment(t, i, e) \in Language[<<k, e - i, d>>]

\* The length of a segment.
LEMMA Span ==
    ASSUME NEW t, t \in Seq(ToSet(t)), Len(t) <= MaxTokens, NEW i \in 1 .. Len(t) + 1, NEW e \in i .. Len(t) + 1
    PROVE  /\ e - i \in 0 .. MaxTokens /\ e - i \in Nat
           /\ i \in Nat /\ e \in Nat /\ Len(t) \in Nat /\ MaxTokens \in Nat
BY TokensBounded

\* A value is one token or enclosed by brackets.
Encloses(t, i, e, d) ==
    /\ e >= i + 2 /\ d >= 1 /\ Open(t[i]) /\ t[e - 1] = Closing(t[i])
    /\ e = i + 2 \/ Reads(t, t[i], i + 1, e - 1, d - 1)

\* A segment of enclosed tokens, and back.
LEMMA EnclosedSegment ==
    ASSUME NEW t, t \in Seq(ToSet(t)), Len(t) <= MaxTokens, NEW i \in 1 .. Len(t) + 1, NEW e \in i .. Len(t) + 1,
           NEW d \in 0 .. MaxDepth, e - i >= 2, d >= 1, NEW b, Open(b),
           EnclosedIn(Segment(t, i, e), Language, b, e - i, d)
    PROVE  Encloses(t, i, e, d)
<1>1. PICK m : /\ Segment(t, i, e) = (<<b>> \o m) \o <<Closing(b)>>
               /\ m \in Language[<<b, (e - i) - 2, d - 1>>] \/ (e - i = 2 /\ m = << >>)
  BY Zenon DEF EnclosedIn
<1>2. /\ (e - i) - 2 \in 0 .. MaxTokens /\ (e - i) - 2 \in Nat /\ d - 1 \in 0 .. MaxDepth
      /\ i \in Nat /\ e \in Nat /\ Len(t) \in Nat
  BY Span, JsonAssumption
<1>3. m \in Words((e - i) - 2)
  <2>1. b \in Kinds
    BY TokensDiffer, Zenon
  <2>2. Language[<<b, (e - i) - 2, d - 1>>] \subseteq Words((e - i) - 2)
    BY <1>2, <2>1, LanguageHas
  <2>3. << >> \in Words(0)
    BY InAlphabet, OneWord
  <2>4. e - i = 2 => (e - i) - 2 = 0
    OBVIOUS
  <2> QED
    BY <1>1, <2>2, <2>3, <2>4
<1>4. m \in Seq(Alphabet) /\ Len(m) = (e - i) - 2
  BY <1>3 DEF Words
<1>5. /\ <<b>> \in Seq(Alphabet) /\ Len(<<b>>) = 1
      /\ <<Closing(b)>> \in Seq(Alphabet) /\ Len(<<Closing(b)>>) = 1
  BY InAlphabet, ShortWords
<1> DEFINE x == <<b>>
           y == <<Closing(b)>>
           u == x \o m
<1>6. x \in Seq(Alphabet) /\ Len(x) = 1 /\ y \in Seq(Alphabet) /\ Len(y) = 1
  BY <1>5
<1>7. Segment(t, i, e) = u \o y
  BY <1>1
<1>x. x[1] = b /\ y[1] = Closing(b)
  OBVIOUS
<1> HIDE DEF x, y
<1> DEFINE S == ToSet(t)
<1>s. t \in Seq(S)
  OBVIOUS
<1> HIDE DEF S
<1>8. u \in Seq(Alphabet) /\ Len(u) = 1 + ((e - i) - 2)
  <2>1. x \in Seq(Alphabet) /\ m \in Seq(Alphabet)
    BY <1>4, <1>6
  <2>2. x \o m \in Seq(Alphabet) /\ Len(x \o m) = Len(x) + Len(m)
    BY <2>1, ConcatProperties
  <2> QED
    BY <1>4, <1>6, <2>2
<1>9. i + Len(u) = e - 1 /\ i + 1 \in i .. Len(t) + 1 /\ e - 1 \in i .. Len(t) + 1 /\ i + 1 \in 1 .. Len(t) + 1
      /\ i \in 1 .. Len(t) /\ e - 1 \in 1 .. Len(t)
  BY <1>2, <1>8
<1>10. u = Segment(t, i, e - 1) /\ y = Segment(t, e - 1, e)
  <2>0. MadeOfTwo(t, i, e, u, y)
    BY <1>7, Zenon DEF MadeOfTwo
  <2>2. u \in Seq(Alphabet) /\ y \in Seq(Alphabet)
    BY <1>6, <1>8
  <2> HIDE DEF u
  <2>1. u = Segment(t, i, i + Len(u)) /\ y = Segment(t, i + Len(u), e)
    BY <1>s, <2>0, <2>2, SegmentSplit
  <2> QED
    BY <1>9, <2>1, Zenon
<1>11. x = Segment(t, i, i + 1) /\ m = Segment(t, i + 1, e - 1)
  <2> DEFINE q == e - 1
  <2>1. MadeOfTwo(t, i, q, x, m)
    BY <1>10, Zenon DEF MadeOfTwo
  <2>2. q \in i .. Len(t) + 1 /\ x \in Seq(Alphabet) /\ m \in Seq(Alphabet)
    BY <1>4, <1>6, <1>9
  <2> HIDE DEF q
  <2>3. x = Segment(t, i, i + Len(x)) /\ m = Segment(t, i + Len(x), q)
    BY <1>s, <2>1, <2>2, SegmentSplit
  <2> QED
    BY <1>6, <2>3, Zenon DEF q
<1>12. t[i] = b
  <2>1. Segment(t, i, i + 1) = <<t[i]>>
    BY <1>9, SegmentOne
  <2>2. x = <<t[i]>>
    BY <1>11, <2>1, Zenon
  <2> QED
    BY <1>x, <2>2
<1>13. t[e - 1] = Closing(b)
  <2>1. Segment(t, e - 1, (e - 1) + 1) = <<t[e - 1]>>
    BY <1>9, SegmentOne
  <2>2. (e - 1) + 1 = e
    BY <1>2
  <2>3. y = <<t[e - 1]>>
    BY <1>10, <2>1, <2>2, Zenon
  <2> QED
    BY <1>x, <2>3
<1>14. (e - 1) - (i + 1) = (e - i) - 2 /\ e >= i + 2 /\ (e - i = 2 => e = i + 2)
  BY <1>2
<1>15. e = i + 2 \/ Reads(t, b, i + 1, e - 1, d - 1)
  BY <1>1, <1>11, <1>14, Zenon DEF Reads
<1> QED
  BY <1>12, <1>13, <1>14, <1>15, Zenon DEF Encloses

LEMMA SegmentEnclosed ==
    ASSUME NEW t, t \in Seq(ToSet(t)), Len(t) <= MaxTokens, NEW i \in 1 .. Len(t) + 1, NEW e \in i .. Len(t) + 1,
           NEW d \in 0 .. MaxDepth, Encloses(t, i, e, d)
    PROVE  EnclosedIn(Segment(t, i, e), Language, t[i], e - i, d) /\ e - i >= 2
<1>1. /\ e >= i + 2 /\ t[e - 1] = Closing(t[i]) 
      /\ e = i + 2 \/ Reads(t, t[i], i + 1, e - 1, d - 1)
  BY DEF Encloses
<1>2. i \in Nat /\ e \in Nat /\ Len(t) \in Nat
  BY Span
<1>3. /\ i \in 1 .. Len(t) /\ e - 1 \in 1 .. Len(t) /\ e - 1 \in 1 .. Len(t) + 1 /\ e - 1 \in i .. e
      /\ i + 1 \in i .. e - 1 /\ i + 1 \in 1 .. Len(t) + 1 /\ (e - 1) + 1 = e /\ e - 1 \in i .. Len(t) + 1
      /\ (e - 1) - (i + 1) = (e - i) - 2 /\ (e = i + 2 => e - 1 = i + 1 /\ e - i = 2) /\ e - i >= 2
  BY <1>1, <1>2
<1> DEFINE m == Segment(t, i + 1, e - 1)
<1>4. Segment(t, i, e) = Segment(t, i, e - 1) \o Segment(t, e - 1, e)
  BY <1>3, SegmentJoined
<1>5. Segment(t, i, e - 1) = Segment(t, i, i + 1) \o m
  BY <1>3, SegmentJoined
<1>6. Segment(t, i, i + 1) = <<t[i]>>
  BY <1>3, SegmentOne
<1>7. Segment(t, e - 1, e) = <<t[e - 1]>>
  <2>1. Segment(t, e - 1, (e - 1) + 1) = <<t[e - 1]>>
    BY <1>3, SegmentOne
  <2> QED
    BY <1>3, <2>1, Zenon
<1>8. m \in Language[<<t[i], (e - i) - 2, d - 1>>] \/ (e - i = 2 /\ m = << >>)
  <2>1. CASE e = i + 2
    <3>1. i + 1 \in 1 .. Len(t) /\ e - 1 = i + 1 /\ e - i = 2
      BY <1>2, <2>1
    <3>2. Segment(t, i + 1, i + 1) = << >>
      BY <3>1, SegmentOne
    <3> QED
      BY <3>1, <3>2, Zenon
  <2>2. CASE Reads(t, t[i], i + 1, e - 1, d - 1)
    BY <2>2, <1>3, Zenon DEF Reads
  <2> QED
    BY <1>1, <2>1, <2>2
<1> HIDE DEF m
<1>9. Segment(t, i, e) = (<<t[i]>> \o m) \o <<Closing(t[i])>>
  BY <1>1, <1>4, <1>5, <1>6, <1>7, Zenon
<1> QED
  BY <1>3, <1>8, <1>9, Zenon DEF EnclosedIn

\* What a segment that is a value is.
LEMMA ReadsValue ==
    ASSUME NEW t, t \in Seq(ToSet(t)), Len(t) <= MaxTokens, NEW i \in 1 .. Len(t) + 1, NEW e \in i .. Len(t) + 1,
           NEW d \in 0 .. MaxDepth
    PROVE  Reads(t, "value", i, e, d) <=> (e = i + 1 /\ Atom(t[i])) \/ Encloses(t, i, e, d)
<1> DEFINE v == Segment(t, i, e)
<1>1. e - i \in 0 .. MaxTokens /\ i \in Nat /\ e \in Nat /\ Len(t) \in Nat
  BY Span
<1>2. "value" \in Kinds
  BY TokensDiffer, Zenon
<1>3. Language[<<"value", e - i, d>>] = Phrases(Language, "value", e - i, d)
  BY <1>1, <1>2, LanguageHas
<1>4. Reads(t, "value", i, e, d) <=> v \in Phrases(Language, "value", e - i, d)
  BY <1>3, Zenon DEF Reads
<1>5. ASSUME v \in Phrases(Language, "value", e - i, d)
      PROVE  (e = i + 1 /\ Atom(t[i])) \/ Encloses(t, i, e, d)
  <2>1. \/ e - i = 1 /\ \E a : Atom(a) /\ v = <<a>>
        \/ e - i >= 2 /\ d >= 1 /\ \E b : Open(b) /\ EnclosedIn(v, Language, b, e - i, d)
    BY <1>5, PhrasesValue, Zenon
  <2>2. CASE e - i = 1 /\ \E a : Atom(a) /\ v = <<a>>
    <3>1. e = i + 1 /\ i \in 1 .. Len(t)
      BY <1>1, <2>2
    <3>2. Segment(t, i, i + 1) = <<t[i]>>
      BY <3>1, SegmentOne
    <3>3. PICK a : Atom(a) /\ v = <<a>>
      BY <2>2
    <3>4. <<a>> = <<t[i]>>
      BY <3>1, <3>2, <3>3, Zenon
    <3>5. a = t[i]
      BY <3>4
    <3> QED
      BY <3>1, <3>3, <3>5, Zenon
  <2>3. CASE e - i >= 2 /\ d >= 1 /\ \E b : Open(b) /\ EnclosedIn(v, Language, b, e - i, d)
    BY <2>3, EnclosedSegment
  <2> QED
    BY <2>1, <2>2, <2>3
<1>6. ASSUME e = i + 1, Atom(t[i]) PROVE v \in Phrases(Language, "value", e - i, d)
  <2>1. i \in 1 .. Len(t) /\ e - i = 1
    BY <1>1, <1>6
  <2>2. v = <<t[i]>>
    <3>1. Segment(t, i, i + 1) = <<t[i]>>
      BY <2>1, SegmentOne
    <3> QED
      BY <1>6, <3>1, Zenon
  <2>3. e - i = 1 /\ \E a : Atom(a) /\ v = <<a>>
    BY <1>6, <2>1, <2>2, Zenon
  <2> QED
    BY <2>3, PhrasesValue, Zenon
<1>7. ASSUME Encloses(t, i, e, d) PROVE v \in Phrases(Language, "value", e - i, d)
  <2>1. EnclosedIn(v, Language, t[i], e - i, d) /\ e - i >= 2
    BY <1>7, SegmentEnclosed
  <2>2. Open(t[i]) /\ d >= 1
    BY <1>7, Zenon DEF Encloses
  <2> QED
    BY <2>1, <2>2, PhrasesValue, Zenon
<1> QED
  BY <1>4, <1>5, <1>6, <1>7, Zenon

\* The key of a member, by the names of its tokens.
LEMMA KeyAtIs ==
    ASSUME NEW t, NEW k, NEW i
    PROVE  KeyAt(t, k, i) <=> (Object(k) => At(t, i) = Name /\ At(t, i + 1) = Colon)
BY Zenon DEF KeyAt, Object, Name, Colon

\* The tokens from i to before c are a value with the name before it that k asks for.
ReadsKeyed(t, k, i, c, d) ==
    KeyAt(t, k, i) /\ ValueAt(k, i) < c /\ Reads(t, "value", ValueAt(k, i), c, d)

\* A segment that is a keyed value, and back.
LEMMA KeyedSegment ==
    ASSUME NEW t, t \in Seq(ToSet(t)), Len(t) <= MaxTokens, NEW i \in 1 .. Len(t) + 1, NEW c \in i .. Len(t) + 1,
           NEW k, NEW d \in 0 .. MaxDepth, Segment(t, i, c) \in Keyed(Language, k, c - i, d)
    PROVE  ReadsKeyed(t, k, i, c, d)
<1> DEFINE l == Len(Key(k))
           u == Key(k)
           S == ToSet(t)
<1>1. ~(c - i <= l) /\ KeyThen(Segment(t, i, c), Language, k, c - i, d)
  BY KeyedAre
<1>2. PICK w : w \in Language[<<"value", (c - i) - l, d>>] /\ Segment(t, i, c) = u \o w
  BY <1>1, Zenon DEF KeyThen
<1>3. /\ u \in Seq(Alphabet)
      /\ Object(k) => l = 2 /\ u[1] = Name /\ u[2] = Colon
      /\ ~Object(k) => l = 0
  BY KeyIs
<1>4. l \in Nat /\ l = Len(u) /\ t \in Seq(S)
  BY <1>3
<1>5. i \in Nat /\ c \in Nat /\ Len(t) \in Nat /\ MaxTokens \in Nat
  BY Span
<1> HIDE DEF l, u, S
<1>6. (c - i) - l \in 0 .. MaxTokens /\ "value" \in Kinds
  BY <1>1, <1>4, <1>5 DEF Kinds
<1>7. w \in Seq(Alphabet)
  <2>1. w \in Words((c - i) - l)
    BY <1>2, <1>6, LanguageHas
  <2> QED
    BY <2>1 DEF Words
<1>8. MadeOfTwo(t, i, c, u, w)
  BY <1>2, Zenon DEF MadeOfTwo
<1>9. i + Len(u) \in i .. c /\ u = Segment(t, i, i + Len(u)) /\ w = Segment(t, i + Len(u), c)
  BY <1>3, <1>4, <1>7, <1>8, SegmentSplit
<1>10. i + l \in i .. c /\ u = Segment(t, i, i + l) /\ w = Segment(t, i + l, c)
  BY <1>4, <1>9, Zenon
<1>11. ValueAt(k, i) = i + l
  BY <1>3, <1>5 DEF ValueAt
<1>12. c - (i + l) = (c - i) - l /\ i + l < c
  BY <1>1, <1>4, <1>5
<1>13. KeyAt(t, k, i)
  <2> SUFFICES ASSUME Object(k) PROVE At(t, i) = Name /\ At(t, i + 1) = Colon
    BY KeyAtIs
  <2>1. l = 2 /\ u[1] = Name /\ u[2] = Colon
    BY <1>3
  <2>2. i + 2 \in i .. Len(t) + 1 /\ i \in Nat \ {0} /\ i + 1 \in Nat \ {0} /\ i <= Len(t) /\ i + 1 <= Len(t)
    BY <1>5, <1>12, <2>1
  <2>3. \A m \in 1 .. (i + 2) - i : Segment(t, i, i + 2)[m] = t[i + m - 1]
    <3> DEFINE c1 == i + 2
    <3>1. c1 \in i .. Len(t) + 1
      BY <2>2
    <3> HIDE DEF c1
    <3>2. \A m \in 1 .. c1 - i : Segment(t, i, c1)[m] = t[i + m - 1]
      BY <1>4, <3>1, SegmentIs
    <3> QED
      BY <3>2, Zenon DEF c1
  <2>4. (i + 2) - i = 2 /\ 1 \in 1 .. 2 /\ 2 \in 1 .. 2 /\ i + 1 - 1 = i /\ i + 2 - 1 = i + 1
    BY <1>5
  <2>5. Segment(t, i, i + 2)[1] = t[i] /\ Segment(t, i, i + 2)[2] = t[i + 1]
    BY <2>3, <2>4
  <2>6. t[i] = Name /\ t[i + 1] = Colon
    BY <1>10, <2>1, <2>5, Zenon
  <2>7. At(t, i) = t[i] /\ At(t, i + 1) = t[i + 1]
    BY <2>2, AtIs
  <2> QED
    BY <2>6, <2>7, Zenon
<1>14. Reads(t, "value", i + l, c, d)
  BY <1>2, <1>10, <1>12, Zenon DEF Reads
<1> QED
  BY <1>11, <1>12, <1>13, <1>14, Zenon DEF ReadsKeyed

LEMMA SegmentKeyed ==
    ASSUME NEW t, t \in Seq(ToSet(t)), Len(t) <= MaxTokens, NEW i \in 1 .. Len(t) + 1, NEW c \in i .. Len(t) + 1,
           NEW k, NEW d \in 0 .. MaxDepth, ReadsKeyed(t, k, i, c, d)
    PROVE  Segment(t, i, c) \in Keyed(Language, k, c - i, d)
<1> DEFINE l == Len(Key(k))
           u == Key(k)
           S == ToSet(t)
<1>1. KeyAt(t, k, i) /\ ValueAt(k, i) < c /\ Reads(t, "value", ValueAt(k, i), c, d)
  BY Zenon DEF ReadsKeyed
<1>3. /\ u \in Seq(Alphabet)
      /\ Object(k) => l = 2 /\ u[1] = Name /\ u[2] = Colon
      /\ ~Object(k) => l = 0
  BY KeyIs
<1>4. l \in Nat /\ l = Len(u) /\ t \in Seq(S)
  BY <1>3
<1>5. i \in Nat /\ c \in Nat /\ Len(t) \in Nat
  BY Span
<1> HIDE DEF l, u, S
<1>6. ValueAt(k, i) = i + l
  BY <1>3, <1>5 DEF ValueAt
<1>7. i + l \in i .. c /\ i + l < c /\ i + l \in i .. Len(t) + 1 /\ c - (i + l) = (c - i) - l /\ ~(c - i <= l)
  BY <1>1, <1>4, <1>5, <1>6
<1>8. Segment(t, i, c) = Segment(t, i, i + l) \o Segment(t, i + l, c)
  BY <1>4, <1>7, SegmentJoined
<1>9. /\ Segment(t, i, i + l) \in Seq(S) /\ Len(Segment(t, i, i + l)) = (i + l) - i
      /\ \A m \in 1 .. (i + l) - i : Segment(t, i, i + l)[m] = t[i + m - 1]
  <2> DEFINE c1 == i + l
  <2>1. c1 \in i .. Len(t) + 1
    BY <1>7
  <2> HIDE DEF c1
  <2>2. /\ Segment(t, i, c1) \in Seq(S) /\ Len(Segment(t, i, c1)) = c1 - i
        /\ \A m \in 1 .. c1 - i : Segment(t, i, c1)[m] = t[i + m - 1]
    BY <1>4, <2>1, SegmentIs
  <2> QED
    BY <2>2, Zenon DEF c1
<1>10. (i + l) - i = l
  BY <1>4, <1>5
<1>11. ASSUME NEW m \in 1 .. l PROVE Segment(t, i, i + l)[m] = u[m]
  <2>1. Object(k) /\ l = 2 /\ u[1] = Name /\ u[2] = Colon
    BY <1>3, <1>11
  <2>2. i \in Nat \ {0} /\ i + 1 \in Nat \ {0} /\ i <= Len(t) /\ i + 1 <= Len(t)
    BY <1>5, <1>7, <2>1
  <2>3. At(t, i) = Name /\ At(t, i + 1) = Colon
    BY <1>1, <2>1, KeyAtIs
  <2>4. At(t, i) = t[i] /\ At(t, i + 1) = t[i + 1]
    BY <2>2, AtIs
  <2>5. Segment(t, i, i + l)[m] = t[i + m - 1]
    BY <1>9, <1>10, <1>11
  <2>6. CASE m = 1
    <3>1. i + m - 1 = i
      BY <1>5, <2>6
    <3> QED
      BY <2>1, <2>3, <2>4, <2>5, <2>6, <3>1, Zenon
  <2>7. CASE m = 2
    <3>1. i + m - 1 = i + 1
      BY <1>5, <2>7
    <3> QED
      BY <2>1, <2>3, <2>4, <2>5, <2>7, <3>1, Zenon
  <2> QED
    BY <1>11, <2>1, <2>6, <2>7
<1>12. Segment(t, i, i + l) = u
  <2> DEFINE s == Segment(t, i, i + l)
  <2>1. s \in Seq(S) /\ Len(s) = l /\ \A m \in 1 .. l : s[m] = u[m]
    BY <1>9, <1>10, <1>11
  <2> HIDE DEF s
  <2>2. s = u
    BY <1>3, <1>4, <2>1
  <2> QED
    BY <2>2 DEF s
<1>13. KeyThen(Segment(t, i, c), Language, k, c - i, d)
  <2>1. Segment(t, i + l, c) \in Language[<<"value", (c - i) - l, d>>]
    BY <1>1, <1>6, <1>7, Zenon DEF Reads
  <2> QED
    BY <1>8, <1>12, <2>1, Zenon DEF KeyThen, l, u
<1> QED
  BY <1>7, <1>13, KeyedAre DEF l

LEMMA LanguageSame ==
    ASSUME NEW k, NEW n
    PROVE  Same(Language, Language, k, n)
BY LanguageHas DEF Same

\* The members of an object or array: one, or one before a comma and more.
ReadsMore(t, k, i, c, e, d) ==
    c > i /\ c < e - 1 /\ ReadsKeyed(t, k, i, c, d) /\ t[c] = CommaToken /\ Reads(t, k, c + 1, e, d)

\* A segment of a keyed value before a comma and more, and back.
LEMMA FollowsSegment ==
    ASSUME NEW t, t \in Seq(ToSet(t)), Len(t) <= MaxTokens, NEW i \in 1 .. Len(t) + 1, NEW e \in i .. Len(t) + 1,
           NEW k \in Kinds, k # "value", NEW d \in 0 .. MaxDepth, NEW j \in 1 .. (e - i) - 2,
           Follows(Segment(t, i, e), Language, k, j, e - i, d)
    PROVE  ReadsMore(t, k, i, i + j, e, d)
<1> DEFINE n == e - i
           S == ToSet(t)
<1>1. PICK a, b : /\ a \in Keyed(Language, k, j, d) /\ b \in Language[<<k, n - j - 1, d>>]
                  /\ Segment(t, i, e) = (a \o <<CommaToken>>) \o b
  BY Zenon DEF Follows, Links
<1>2. n \in 0 .. MaxTokens /\ n \in Nat /\ i \in Nat /\ e \in Nat /\ Len(t) \in Nat /\ MaxTokens \in Nat /\ t \in Seq(S)
  BY Span
<1>3. j \in 0 .. n /\ n - j - 1 \in 0 .. MaxTokens /\ j \in Nat
  BY <1>2
<1>4. a \in Words(j)
  <2> HIDE DEF n
  <2> QED
    BY <1>1, <1>2, <1>3, LanguageSame, SameKeyed
<1>5. b \in Words(n - j - 1)
  BY <1>1, <1>3, LanguageHas
<1>6. a \in Seq(Alphabet) /\ Len(a) = j /\ b \in Seq(Alphabet)
  BY <1>4, <1>5 DEF Words
<1> DEFINE x == <<CommaToken>>
           u == a \o x
<1>7. x \in Seq(Alphabet) /\ Len(x) = 1 /\ x[1] = CommaToken
  BY InAlphabet, ShortWords
<1> HIDE DEF x, S
<1>8. u \in Seq(Alphabet) /\ Len(u) = j + 1
  <2>1. a \o x \in Seq(Alphabet) /\ Len(a \o x) = Len(a) + Len(x)
    BY <1>6, <1>7, ConcatProperties
  <2> QED
    BY <1>6, <1>7, <2>1
<1>9. /\ i + (j + 1) \in i .. e /\ (i + j) + 1 = i + (j + 1) /\ i + (j + 1) \in i .. Len(t) + 1 /\ i + j \in 1 .. Len(t)
      /\ e - ((i + j) + 1) = n - j - 1 /\ (i + j) - i = j /\ i + j > i /\ i + j < e - 1 /\ i + j \in i .. Len(t) + 1
  BY <1>2
<1>10. u = Segment(t, i, i + (j + 1)) /\ b = Segment(t, i + (j + 1), e)
  <2>1. MadeOfTwo(t, i, e, u, b)
    BY <1>1, Zenon DEF MadeOfTwo, x
  <2>2. u \in Seq(Alphabet) /\ b \in Seq(Alphabet)
    BY <1>6, <1>8
  <2> HIDE DEF u
  <2>3. u = Segment(t, i, i + Len(u)) /\ b = Segment(t, i + Len(u), e)
    BY <1>2, <2>1, <2>2, SegmentSplit
  <2> QED
    BY <1>8, <2>3, Zenon
<1>11. a = Segment(t, i, i + j) /\ x = Segment(t, i + j, i + (j + 1))
  <2> DEFINE q == i + (j + 1)
  <2>1. MadeOfTwo(t, i, q, a, x)
    BY <1>10, Zenon DEF MadeOfTwo
  <2>2. q \in i .. Len(t) + 1 /\ a \in Seq(Alphabet) /\ x \in Seq(Alphabet) /\ t \in Seq(S)
    BY <1>2, <1>6, <1>7, <1>9
  <2> HIDE DEF q
  <2>3. a = Segment(t, i, i + Len(a)) /\ x = Segment(t, i + Len(a), q)
    BY <2>1, <2>2, SegmentSplit
  <2> QED
    BY <1>6, <2>3, Zenon DEF q
<1>12. t[i + j] = CommaToken
  <2>1. Segment(t, i + j, (i + j) + 1) = <<t[i + j]>>
    BY <1>2, <1>9, SegmentOne
  <2>2. x = <<t[i + j]>>
    BY <1>9, <1>11, <2>1, Zenon
  <2> QED
    BY <1>7, <2>2
<1>13. ReadsKeyed(t, k, i, i + j, d)
  <2>1. Segment(t, i, i + j) \in Keyed(Language, k, (i + j) - i, d)
    BY <1>1, <1>9, <1>11, Zenon
  <2> QED
    BY <1>9, <2>1, KeyedSegment
<1>14. Reads(t, k, (i + j) + 1, e, d)
  BY <1>1, <1>9, <1>10, Zenon DEF Reads
<1> QED
  BY <1>9, <1>12, <1>13, <1>14, Zenon DEF ReadsMore

LEMMA SegmentFollows ==
    ASSUME NEW t, t \in Seq(ToSet(t)), Len(t) <= MaxTokens, NEW i \in 1 .. Len(t) + 1, NEW e \in i .. Len(t) + 1,
           NEW k, NEW d \in 0 .. MaxDepth, NEW c \in i .. e, ReadsMore(t, k, i, c, e, d)
    PROVE  c - i \in 1 .. (e - i) - 2 /\ Follows(Segment(t, i, e), Language, k, c - i, e - i, d)
<1>1. c > i /\ c < e - 1 /\ ReadsKeyed(t, k, i, c, d) /\ t[c] = CommaToken /\ Reads(t, k, c + 1, e, d)
  BY Zenon DEF ReadsMore
<1>2. i \in Nat /\ e \in Nat /\ Len(t) \in Nat /\ c \in Nat
  BY Span
<1>3. /\ c - i \in 1 .. (e - i) - 2 /\ c \in i .. Len(t) + 1 /\ c \in 1 .. Len(t) /\ c + 1 \in i .. e /\ c \in i .. c + 1
      /\ c + 1 \in i .. Len(t) + 1
      /\ e - (c + 1) = (e - i) - (c - i) - 1
  BY <1>1, <1>2
<1>4. Segment(t, i, c) \in Keyed(Language, k, c - i, d)
  BY <1>1, <1>3, SegmentKeyed
<1>5. Segment(t, c + 1, e) \in Language[<<k, (e - i) - (c - i) - 1, d>>]
  BY <1>1, <1>3, Zenon DEF Reads
<1>6. Segment(t, i, e) = Segment(t, i, c + 1) \o Segment(t, c + 1, e)
  BY <1>3, SegmentJoined
<1>7. Segment(t, i, c + 1) = Segment(t, i, c) \o Segment(t, c, c + 1)
  BY <1>3, SegmentJoined
<1>8. Segment(t, c, c + 1) = <<t[c]>>
  BY <1>3, SegmentOne
<1>9. Segment(t, i, e) = (Segment(t, i, c) \o <<CommaToken>>) \o Segment(t, c + 1, e)
  BY <1>1, <1>6, <1>7, <1>8, Zenon
<1>10. Follows(Segment(t, i, e), Language, k, c - i, e - i, d)
  BY <1>4, <1>5, <1>9, Zenon DEF Follows, Links
<1> QED
  BY <1>3, <1>10

\* What a segment that is members is.
LEMMA ReadsMembers ==
    ASSUME NEW t, t \in Seq(ToSet(t)), Len(t) <= MaxTokens, NEW i \in 1 .. Len(t) + 1, NEW e \in i .. Len(t) + 1,
           NEW k \in Kinds, k # "value", NEW d \in 0 .. MaxDepth
    PROVE  Reads(t, k, i, e, d) <=> ReadsKeyed(t, k, i, e, d) \/ \E c \in i .. e : ReadsMore(t, k, i, c, e, d)
<1> DEFINE v == Segment(t, i, e)
<1>1. e - i \in 0 .. MaxTokens /\ i \in Nat /\ e \in Nat
  BY Span
<1>2. Language[<<k, e - i, d>>] = Phrases(Language, k, e - i, d)
  BY <1>1, LanguageHas
<1>3. Reads(t, k, i, e, d) <=> v \in Phrases(Language, k, e - i, d)
  BY <1>2, Zenon DEF Reads
<1>4. v \in Phrases(Language, k, e - i, d) <=>
         v \in Keyed(Language, k, e - i, d) \/ \E j \in 1 .. (e - i) - 2 : Follows(v, Language, k, j, e - i, d)
  BY PhrasesMembers, Zenon
<1>5. v \in Keyed(Language, k, e - i, d) <=> ReadsKeyed(t, k, i, e, d)
  BY KeyedSegment, SegmentKeyed
<1>6. ASSUME NEW j \in 1 .. (e - i) - 2, Follows(v, Language, k, j, e - i, d)
      PROVE  \E c \in i .. e : ReadsMore(t, k, i, c, e, d)
  <2>1. ReadsMore(t, k, i, i + j, e, d)
    BY <1>6, FollowsSegment
  <2>2. i + j \in i .. e
    BY <1>1
  <2> QED
    BY <2>1, <2>2, Zenon
<1>7. ASSUME NEW c \in i .. e, ReadsMore(t, k, i, c, e, d)
      PROVE  \E j \in 1 .. (e - i) - 2 : Follows(v, Language, k, j, e - i, d)
  <2>1. c - i \in 1 .. (e - i) - 2 /\ Follows(v, Language, k, c - i, e - i, d)
    BY <1>7, SegmentFollows
  <2> QED
    BY <2>1, Zenon
<1> QED
  BY <1>3, <1>4, <1>5, <1>6, <1>7, Zenon

-----------------------------------------------------------------------------
(* JSON: the parser finds what the grammar reads.                          *)

\* What parse returns is what the grammar reads: for a value the place behind
\* it, for members the place behind the bracket that closes them.
Finds(t, k, i, d) ==
    /\ k = "value" => \A e \in i .. Len(t) + 1 :
                          ParserOf(t)[<<k, i, d>>] = e <=> Reads(t, k, i, e, MaxDepth - d)
    /\ k # "value" => \A e \in i .. Len(t) :
                          ParserOf(t)[<<k, i, d>>] = e + 1 <=> t[e] = Closing(k) /\ Reads(t, k, i, e, MaxDepth - d)

\* ... for every call with fewer than n to come.
FindsBelow(t, n) ==
    \A k \in Kinds, i \in 1 .. Len(t) + 1, d \in 0 .. MaxDepth : Calls(t, k, i) < n => Finds(t, k, i, d)

\* The comma and the name by their tokens.
LEMMA TokenNames ==
    /\ \A a : Comma(a) <=> a = CommaToken
    /\ Atom(Name)
BY Zenon DEF Comma, CommaToken, Atom, Name

\* Members begin with a token that closes nothing, and are not empty.
LEMMA MembersStart ==
    ASSUME NEW t, t \in Seq(ToSet(t)), Len(t) <= MaxTokens, NEW i \in 1 .. Len(t) + 1, NEW e \in i .. Len(t) + 1,
           NEW k \in Kinds, k # "value", NEW d \in 0 .. MaxDepth, Reads(t, k, i, e, d)
    PROVE  At(t, i) # Closing(k) /\ e > i
<1>1. i \in Nat /\ e \in Nat /\ Len(t) \in Nat /\ i \in Nat \ {0}
  BY Span
<1>2. ASSUME NEW c \in i .. Len(t) + 1, ReadsKeyed(t, k, i, c, d)
      PROVE  At(t, i) # Closing(k) /\ c > i
  <2>1. KeyAt(t, k, i) /\ ValueAt(k, i) < c /\ Reads(t, "value", ValueAt(k, i), c, d)
    BY <1>2, Zenon DEF ReadsKeyed
  <2>2. CASE Object(k)
    <3>1. At(t, i) = Name
      BY <2>1, <2>2, KeyAtIs
    <3>2. At(t, i) # Closing(k)
      BY <3>1, TokenNames, TokensDiffer, Zenon
    <3>3. c > i
      BY <1>1, <2>1, <2>2 DEF ValueAt
    <3> QED
      BY <3>2, <3>3
  <2>3. CASE ~Object(k)
    <3>1. i < c /\ Reads(t, "value", i, c, d)
      BY <2>1, <2>3 DEF ValueAt
    <3>2. i <= Len(t)
      BY <1>1, <3>1
    <3>3. At(t, i) = t[i]
      BY <1>1, <3>2, AtIs
    <3>4. Atom(t[i]) \/ Open(t[i])
      BY <3>1, ReadsValue DEF Encloses
    <3>5. At(t, i) # Closing(k)
      BY <3>3, <3>4, TokensDiffer, Zenon
    <3> QED
      BY <1>1, <3>1, <3>5
  <2> QED
    BY <2>2, <2>3
<1>3. ReadsKeyed(t, k, i, e, d) \/ \E c \in i .. e : ReadsMore(t, k, i, c, e, d)
  BY ReadsMembers
<1>4. ASSUME NEW c \in i .. e, ReadsMore(t, k, i, c, e, d)
      PROVE  At(t, i) # Closing(k) /\ e > i
  <2>1. c > i /\ c < e - 1 /\ ReadsKeyed(t, k, i, c, d)
    BY <1>4, Zenon DEF ReadsMore
  <2>2. c \in i .. Len(t) + 1 /\ e > i
    BY <1>1, <2>1
  <2> QED
    BY <1>2, <2>1, <2>2
<1> QED
  BY <1>2, <1>3, <1>4

\* A call for a value finds what the grammar reads, if those it makes do.
LEMMA FindsValue ==
    ASSUME NEW t, t \in Seq(ToSet(t)), Len(t) <= MaxTokens, NEW k, k = "value", NEW i \in 1 .. Len(t) + 1,
           NEW d \in 0 .. MaxDepth, FindsBelow(t, Calls(t, k, i)), NEW e \in i .. Len(t) + 1
    PROVE  ParserOf(t)[<<k, i, d>>] = e <=> Reads(t, k, i, e, MaxDepth - d)
<1> DEFINE P == ParserOf(t)
           L == Len(t)
           D == MaxDepth - d
           r == P[<<k, i, d>>]
<1>1. /\ L \in Nat /\ i \in Nat /\ i \in 1 .. L + 1 /\ i \in Nat \ {0} /\ d \in Nat /\ MaxDepth \in Nat
      /\ e \in Nat /\ e >= i /\ e <= L + 1 /\ D \in 0 .. MaxDepth /\ i + 1 \in Nat \ {0} /\ d \in 0 .. MaxDepth + 1
  BY JsonAssumption, Span
<1>2. k \in Kinds
  BY TokensDiffer, Zenon
<1>3. r = ParseFrom(t, P, k, i, d) /\ r \in Beyond(t, i)
  BY <1>1, <1>2, ParserIs
<1>4. Reads(t, k, i, e, D) <=> (e = i + 1 /\ Atom(t[i])) \/ Encloses(t, i, e, D)
  <2>1. Reads(t, "value", i, e, D) <=> (e = i + 1 /\ Atom(t[i])) \/ Encloses(t, i, e, D)
    BY <1>1, ReadsValue
  <2> QED
    BY <2>1, Zenon
<1>5. /\ i <= L => At(t, i) = t[i]
      /\ i > L => At(t, i) = "end"
      /\ At(t, i) # "end" => i <= L
      /\ i + 1 <= L => At(t, i + 1) = t[i + 1]
      /\ At(t, i + 1) # "end" => i + 1 <= L
  BY <1>1, AtIs
<1>6. Encloses(t, i, e, D) => e >= i + 2 /\ D >= 1 /\ Open(t[i]) /\ t[e - 1] = Closing(t[i])
  BY DEF Encloses
<1>d. \A a : Atom(a) \/ Open(a) => a # "end"
  BY TokensDiffer, Zenon
<1>o. \A a : Atom(a) => ~Open(a)
  BY TokensDiffer, Zenon
<1>g. r = e <=> Reads(t, k, i, e, D)
  <2>1. CASE Atom(At(t, i))
    <3>1. r = i + 1
      BY <1>3, <2>1, ValueAtom
    <3>2. i <= L /\ Atom(t[i]) /\ ~Open(t[i])
      BY <1>5, <1>d, <1>o, <2>1
    <3> HIDE DEF r
    <3> QED
      BY <3>1, <3>2, <1>4, <1>6
  <2>2. CASE Open(At(t, i)) /\ TooDeep(d + 1)
    <3>1. r = 0
      BY <1>3, <2>2, ValueTooDeep
    <3>2. i <= L /\ Open(t[i]) /\ ~Atom(t[i])
      BY <1>5, <1>d, <1>o, <2>2
    <3>3. ~(D >= 1)
      BY <1>1, <2>2 DEF TooDeep
    <3> HIDE DEF r, D
    <3> QED
      BY <3>1, <3>2, <3>3, <1>1, <1>4, <1>6
  <2>3. CASE Open(At(t, i)) /\ ~TooDeep(d + 1) /\ At(t, i + 1) = Closing(At(t, i))
    <3>1. r = i + 2
      BY <1>3, <2>3, ValueEmpty
    <3>2. i <= L /\ Open(t[i]) /\ ~Atom(t[i]) /\ At(t, i) = t[i] /\ t[i] \in Kinds /\ t[i] # "value"
      BY <1>5, <1>d, <1>o, <2>3, TokensDiffer
    <3>3. At(t, i + 1) # "end"
      BY <2>3, TokensDiffer
    <3>4. i + 1 <= L /\ t[i + 1] = Closing(t[i]) /\ i + 1 \in 1 .. L + 1
      BY <1>1, <1>5, <2>3, <3>2, <3>3
    <3>5. D >= 1 /\ D - 1 \in 0 .. MaxDepth
      BY <1>1, <2>3 DEF TooDeep
    <3>6. ASSUME e = i + 2 PROVE Encloses(t, i, e, D)
      <4>1. e - 1 = i + 1 /\ e >= i + 2
        BY <1>1, <3>6
      <4>2. t[e - 1] = Closing(t[i])
        BY <3>4, <4>1, Zenon
      <4> QED
        BY <3>2, <3>5, <3>6, <4>1, <4>2, Zenon DEF Encloses
    <3>7. ASSUME Encloses(t, i, e, D) PROVE e = i + 2
      <4>1. e = i + 2 \/ Reads(t, t[i], i + 1, e - 1, D - 1)
        BY <3>7, Zenon DEF Encloses
      <4>2. e - 1 \in i + 1 .. L + 1
        BY <1>1, <1>6, <3>7
      <4>3. ~Reads(t, t[i], i + 1, e - 1, D - 1)
        <5> HIDE DEF D, L
        <5> SUFFICES ASSUME Reads(t, t[i], i + 1, e - 1, D - 1) PROVE FALSE
          OBVIOUS
        <5>1. At(t, i + 1) # Closing(t[i])
          <6> DEFINE i1 == i + 1
                     e1 == e - 1
                     D1 == D - 1
                     b == t[i]
          <6>1. i1 \in 1 .. Len(t) + 1 /\ e1 \in i1 .. Len(t) + 1 /\ D1 \in 0 .. MaxDepth /\ b \in Kinds /\ b # "value"
            BY <3>2, <3>4, <3>5, <4>2 DEF L
          <6>2. Reads(t, b, i1, e1, D1)
            OBVIOUS
          <6> HIDE DEF i1, e1, D1, b
          <6>3. At(t, i1) # Closing(b)
            BY <6>1, <6>2, MembersStart
          <6> QED
            BY <6>3, Zenon DEF i1, b
        <5> QED
          BY <2>3, <3>2, <5>1, Zenon
      <4> QED
        BY <4>1, <4>3, Zenon
    <3> HIDE DEF r, D, L
    <3> QED
      BY <3>1, <3>2, <3>6, <3>7, <1>1, <1>4
  <2>4. CASE Open(At(t, i)) /\ ~TooDeep(d + 1) /\ At(t, i + 1) # Closing(At(t, i))
    <3> DEFINE c == At(t, i)
    <3>1. r = P[<<c, i + 1, d + 1>>]
      BY <1>3, <2>4, ValueNested
    <3>2. i <= L /\ c = t[i] /\ Open(t[i]) /\ ~Atom(t[i]) /\ c \in Kinds /\ c # "value"
      BY <1>5, <1>d, <1>o, <2>4, TokensDiffer
    <3>3. d + 1 \in 0 .. MaxDepth /\ i + 1 \in 1 .. L + 1 /\ D >= 1 /\ MaxDepth - (d + 1) = D - 1 /\ d + 1 \in 0 .. MaxDepth + 1
      BY <1>1, <2>4, <3>2 DEF TooDeep
    <3>4. Calls(t, c, i + 1) < Calls(t, k, i)
      BY <1>1, <3>3, CallsLess
    <3>5. Finds(t, c, i + 1, d + 1)
      BY <3>2, <3>3, <3>4 DEF FindsBelow
    <3>6. \A f \in i + 1 .. L : r = f + 1 <=> t[f] = Closing(c) /\ Reads(t, c, i + 1, f, D - 1)
      BY <3>1, <3>2, <3>3, <3>5, Zenon DEF Finds
    <3>7. r \in Beyond(t, i + 1)
      <4>1. P[<<c, i + 1, d + 1>>] \in Beyond(t, i + 1)
        BY <3>2, <3>3, ParserIs
      <4> QED
        BY <3>1, <4>1, Zenon
    <3>8. r = 0 \/ r > i + 1
      BY <1>1, <3>7 DEF Beyond
    <3> HIDE DEF r
    <3>9. CASE e >= i + 2
      <4>1. e - 1 \in i + 1 .. L /\ (e - 1) + 1 = e
        BY <1>1, <3>9
      <4>2. r = e <=> t[e - 1] = Closing(t[i]) /\ Reads(t, t[i], i + 1, e - 1, D - 1)
        BY <3>2, <3>6, <4>1, Zenon
      <4>3. e = i + 2 => t[e - 1] # Closing(t[i])
        <5> SUFFICES ASSUME e = i + 2 PROVE t[e - 1] # Closing(t[i])
          OBVIOUS
        <5>1. e - 1 = i + 1 /\ i + 1 <= L
          BY <1>1
        <5>2. At(t, i + 1) = t[i + 1]
          BY <1>5, <5>1
        <5> QED
          BY <2>4, <3>2, <5>1, <5>2, Zenon
      <4>4. e # i + 1
        BY <1>1, <3>9
      <4>5. Encloses(t, i, e, D) <=> t[e - 1] = Closing(t[i]) /\ (e = i + 2 \/ Reads(t, t[i], i + 1, e - 1, D - 1))
        BY <3>2, <3>3, <3>9, Zenon DEF Encloses
      <4> QED
        BY <4>2, <4>3, <4>4, <4>5, <1>4, Zenon
    <3>10. CASE ~(e >= i + 2)
      <4>1. r # e
        BY <1>1, <3>8, <3>10
      <4> QED
        BY <1>4, <1>6, <3>2, <3>10, <4>1, Zenon
    <3> QED
      BY <3>9, <3>10
  <2>5. CASE ~Atom(At(t, i)) /\ ~Open(At(t, i))
    <3>1. r = 0
      BY <1>3, <2>5, ValueNone
    <3>2. e > i => ~Atom(t[i]) /\ ~Open(t[i])
      BY <1>1, <1>5, <2>5
    <3> HIDE DEF r, D
    <3> QED
      BY <3>1, <3>2, <1>1, <1>4, <1>6
  <2> QED
    BY <2>1, <2>2, <2>3, <2>4, <2>5
<1> QED
  BY <1>g

\* With the value parsed, the members are it, or it before a comma and more.
LEMMA ReadsOn ==
    ASSUME NEW t, t \in Seq(ToSet(t)), Len(t) <= MaxTokens, NEW k \in Kinds, k # "value", NEW i \in 1 .. Len(t) + 1,
           NEW d \in 0 .. MaxDepth, KeyAt(t, k, i), NEW j \in Beyond(t, ValueAt(k, i)), ValueAt(k, i) \in 1 .. Len(t) + 1,
           \A c \in ValueAt(k, i) .. Len(t) + 1 : j = c <=> Reads(t, "value", ValueAt(k, i), c, d)
    PROVE  /\ j = 0 \/ (j > i /\ j \in 1 .. Len(t) + 1)
           /\ \A e \in i .. Len(t) : Reads(t, k, i, e, d) <=>
                  j = e \/ (j # 0 /\ j < e - 1 /\ t[j] = CommaToken /\ Reads(t, k, j + 1, e, d))
<1> DEFINE L == Len(t)
           m == ValueAt(k, i)
<1>1. L \in Nat /\ i \in Nat /\ i \in 1 .. L + 1 /\ m \in Nat /\ m >= i
  <2>1. m \in {i, i + 2}
    BY Zenon DEF ValueAt
  <2> QED
    BY <2>1
<1>2. j = 0 \/ (j \in Nat /\ j > m /\ j > i /\ j \in 1 .. L + 1)
  <2> HIDE DEF m
  <2>1. j = 0 \/ j \in m + 1 .. L + 1
    BY DEF Beyond, m
  <2> QED
    BY <1>1, <2>1
<1>3. ASSUME NEW c \in i .. L + 1 PROVE ReadsKeyed(t, k, i, c, d) <=> j = c
  <2>1. CASE m < c
    <3>1. c \in m .. L + 1
      BY <1>1, <2>1
    <3>2. j = c <=> Reads(t, "value", m, c, d)
      BY <3>1, Zenon
    <3> QED
      BY <2>1, <3>2, Zenon DEF ReadsKeyed
  <2>2. CASE ~(m < c)
    <3>1. ~ReadsKeyed(t, k, i, c, d)
      BY <2>2, Zenon DEF ReadsKeyed
    <3>2. j # c
      <4> HIDE DEF m
      <4> QED
        BY <1>1, <1>2, <2>2
    <3> QED
      BY <3>1, <3>2
  <2> QED
    BY <2>1, <2>2
<1>4. ASSUME NEW e \in i .. L
      PROVE  Reads(t, k, i, e, d) <=> j = e \/ (j # 0 /\ j < e - 1 /\ t[j] = CommaToken /\ Reads(t, k, j + 1, e, d))
  <2>1. e \in i .. L + 1 /\ e \in Nat
    BY <1>1
  <2>2. Reads(t, k, i, e, d) <=> ReadsKeyed(t, k, i, e, d) \/ \E c \in i .. e : ReadsMore(t, k, i, c, e, d)
    BY <2>1, ReadsMembers
  <2>3. ASSUME NEW c \in i .. e, ReadsMore(t, k, i, c, e, d)
        PROVE  j # 0 /\ j < e - 1 /\ t[j] = CommaToken /\ Reads(t, k, j + 1, e, d)
    <3>1. /\ c < e - 1 /\ ReadsKeyed(t, k, i, c, d) /\ t[c] = CommaToken /\ Reads(t, k, c + 1, e, d)
      BY <2>3, Zenon DEF ReadsMore
    <3>2. c \in i .. L + 1 /\ c # 0
      BY <1>1
    <3>3. j = c
      BY <1>3, <3>1, <3>2, Zenon
    <3> QED
      BY <3>1, <3>2, <3>3, Zenon
  <2>4. ASSUME j # 0, j < e - 1, t[j] = CommaToken, Reads(t, k, j + 1, e, d)
        PROVE  \E c \in i .. e : ReadsMore(t, k, i, c, e, d)
    <3>1. j > i /\ j \in i .. e /\ j \in i .. L + 1
      BY <1>1, <1>2, <2>1, <2>4
    <3>2. ReadsKeyed(t, k, i, j, d)
      BY <1>3, <3>1, Zenon
    <3>3. ReadsMore(t, k, i, j, e, d)
      BY <2>4, <3>1, <3>2, Zenon DEF ReadsMore
    <3> QED
      BY <3>1, <3>3, Zenon
  <2>5. ReadsKeyed(t, k, i, e, d) <=> j = e
    BY <1>3, <2>1, Zenon
  <2> QED
    BY <2>2, <2>3, <2>4, <2>5, Zenon
<1> QED
  BY <1>2, <1>4

\* A call for members finds what the grammar reads, if those it makes do.
LEMMA FindsMembers ==
    ASSUME NEW t, t \in Seq(ToSet(t)), Len(t) <= MaxTokens, NEW k \in Kinds, k # "value", NEW i \in 1 .. Len(t) + 1,
           NEW d \in 0 .. MaxDepth, FindsBelow(t, Calls(t, k, i)), NEW e \in i .. Len(t)
    PROVE  ParserOf(t)[<<k, i, d>>] = e + 1 <=> t[e] = Closing(k) /\ Reads(t, k, i, e, MaxDepth - d)
<1> DEFINE P == ParserOf(t)
           L == Len(t)
           D == MaxDepth - d
           r == P[<<k, i, d>>]
           m == ValueAt(k, i)
           j == P[<<"value", m, d>>]
<1>1. /\ L \in Nat /\ i \in Nat /\ i \in 1 .. L + 1 /\ i \in Nat \ {0} /\ i + 1 \in Nat \ {0} /\ d \in Nat /\ e \in Nat
      /\ e >= i /\ e <= L /\ e \in 1 .. L /\ D \in 0 .. MaxDepth /\ d \in 0 .. MaxDepth + 1 /\ e \in i .. L + 1
  BY JsonAssumption, Span
<1>2. r = ParseFrom(t, P, k, i, d) /\ "value" \in Kinds
  <2>1. "value" \in Kinds
    BY TokensDiffer, Zenon
  <2> QED
    BY <1>1, <2>1, ParserIs
<1>3. CASE ~KeyAt(t, k, i)
  <2>1. r = 0
    BY <1>2, <1>3, MembersNoKey
  <2>2. ASSUME NEW c PROVE ~ReadsKeyed(t, k, i, c, D)
    BY <1>3, Zenon DEF ReadsKeyed
  <2>3. ASSUME NEW c PROVE ~ReadsMore(t, k, i, c, e, D)
    BY <2>2, Zenon DEF ReadsMore
  <2>4. Reads(t, k, i, e, D) <=> ReadsKeyed(t, k, i, e, D) \/ \E c \in i .. e : ReadsMore(t, k, i, c, e, D)
    <3> HIDE DEF D
    <3> QED
      BY <1>1, ReadsMembers
  <2>5. ~Reads(t, k, i, e, D)
    BY <2>2, <2>3, <2>4, Zenon
  <2> HIDE DEF r, D
  <2>6. r # e + 1
    BY <1>1, <2>1
  <2> QED
    BY <2>5, <2>6, Zenon DEF r, D
<1>4. CASE KeyAt(t, k, i)
  <2>1. m \in 1 .. L + 1 /\ m >= i
    <3>1. CASE Object(k)
      <4>1. At(t, i + 1) # "end"
        BY <1>4, <3>1, NamedTokens
      <4>2. i + 1 <= L
        BY <1>1, <4>1, AtIs
      <4>3. m = i + 2
        BY <3>1 DEF ValueAt
      <4> QED
        BY <1>1, <4>2, <4>3
    <3>2. CASE ~Object(k)
      BY <1>1, <3>2 DEF ValueAt
    <3> QED
      BY <3>1, <3>2
  <2>2. r = After(t, P, k, d, j)
    BY <1>2, <1>4, MembersKey
  <2>3. j \in Beyond(t, m)
    BY <1>1, <1>2, <2>1, ParserIs
  <2>4. Finds(t, "value", m, d)
    <3> HIDE DEF m
    <3>1. Calls(t, "value", m) < Calls(t, k, i)
      BY <2>1, CallsLess
    <3> QED
      BY <1>2, <2>1, <3>1 DEF FindsBelow
  <2>5. \A c \in m .. L + 1 : j = c <=> Reads(t, "value", m, c, D)
    BY <2>4, Zenon DEF Finds
  <2>6. /\ j = 0 \/ (j > i /\ j \in 1 .. L + 1)
        /\ \A f \in i .. L : Reads(t, k, i, f, D) <=>
               j = f \/ (j # 0 /\ j < f - 1 /\ t[j] = CommaToken /\ Reads(t, k, j + 1, f, D))
    <3> HIDE DEF j, D
    <3> QED
      BY <1>1, <1>4, <2>1, <2>3, <2>5, ReadsOn
  <2>7. Reads(t, k, i, e, D) <=> j = e \/ (j # 0 /\ j < e - 1 /\ t[j] = CommaToken /\ Reads(t, k, j + 1, e, D))
    BY <2>6
  <2>8. j \in Nat /\ (j # 0 => j \in Nat \ {0} /\ j > i /\ j <= L + 1)
    <3> HIDE DEF j
    <3> QED
      BY <1>1, <2>6
  <2>9. /\ j # 0 /\ j <= L => At(t, j) = t[j]
        /\ j # 0 /\ At(t, j) # "end" => j <= L
    <3> HIDE DEF j
    <3> QED
      BY <2>8, AtIs
  <2>10. CASE j = 0
    <3>1. r = 0
      BY <2>2, <2>10, AfterError
    <3> HIDE DEF r, j, D
    <3>2. r # e + 1 /\ j # e
      BY <1>1, <2>10, <3>1
    <3> QED
      BY <2>7, <2>10, <3>2, Zenon DEF r, D
  <2>11. CASE j # 0 /\ Comma(At(t, j))
    <3>1. r = P[<<k, j + 1, d>>]
      BY <2>2, <2>11, AfterComma
    <3>2. j <= L /\ t[j] = CommaToken /\ t[j] # Closing(k)
      BY <2>9, <2>11, TokensDiffer, TokenNames
    <3> DEFINE n == j + 1
    <3> HIDE DEF j
    <3>3. n \in 1 .. L + 1 /\ n > i /\ n = j + 1
      BY <1>1, <2>8, <2>11, <3>2
    <3>4. Finds(t, k, n, d)
      <4> HIDE DEF n
      <4>1. Calls(t, k, n) < Calls(t, k, i)
        BY <3>3, CallsLess
      <4> QED
        BY <3>3, <4>1 DEF FindsBelow
    <3>5. r \in Beyond(t, n)
      <4> HIDE DEF n
      <4>1. P[<<k, n, d>>] \in Beyond(t, n)
        BY <1>1, <3>3, ParserIs
      <4> QED
        BY <3>1, <3>3, <4>1, Zenon
    <3>6. \A f \in n .. L : r = f + 1 <=> t[f] = Closing(k) /\ Reads(t, k, n, f, D)
      BY <3>1, <3>4, Zenon DEF Finds
    <3> HIDE DEF r, n, D
    <3>7. CASE e <= j
      <4>1. r = 0 \/ r >= n + 1
        BY <3>3, <3>5 DEF Beyond
      <4>2. r # e + 1 /\ ~(j < e - 1)
        BY <1>1, <2>8, <3>3, <3>7, <4>1
      <4> QED
        BY <2>7, <3>2, <4>2, Zenon DEF r, D
    <3>8. CASE e > j
      <4>1. e \in n .. L /\ e \in n .. L + 1 /\ j # e
        BY <1>1, <2>8, <3>3, <3>8
      <4>2. r = e + 1 <=> t[e] = Closing(k) /\ Reads(t, k, n, e, D)
        BY <3>6, <4>1
      <4>3. Reads(t, k, n, e, D) => j < e - 1
        <5> SUFFICES ASSUME Reads(t, k, n, e, D) PROVE j < e - 1
          OBVIOUS
        <5>1. e > n
          BY <1>1, <3>3, <4>1, MembersStart
        <5> QED
          BY <1>1, <2>8, <3>3, <5>1
      <4>4. Reads(t, k, i, e, D) <=> Reads(t, k, n, e, D)
        BY <2>7, <2>11, <3>2, <4>1, <4>3, Zenon DEF n
      <4> QED
        BY <4>2, <4>4, Zenon DEF r, D
    <3> QED
      BY <1>1, <2>8, <3>7, <3>8
  <2>12. CASE j # 0 /\ ~Comma(At(t, j)) /\ At(t, j) = Closing(k)
    <3>1. r = j + 1
      BY <2>2, <2>12, AfterClose
    <3>2. j <= L /\ t[j] # CommaToken /\ t[j] = Closing(k)
      <4>1. At(t, j) # "end"
        BY <2>12, TokensDiffer, Zenon
      <4> QED
        BY <2>9, <2>12, <4>1, TokenNames
    <3> HIDE DEF r, j, D
    <3>3. r = e + 1 <=> j = e
      BY <1>1, <2>8, <3>1
    <3> QED
      BY <2>7, <3>2, <3>3, Zenon DEF r, D
  <2>13. CASE j # 0 /\ ~Comma(At(t, j)) /\ At(t, j) # Closing(k)
    <3>1. r = 0
      BY <2>2, <2>13, AfterOther
    <3>2. j <= L => t[j] # CommaToken /\ t[j] # Closing(k)
      BY <2>9, <2>13, TokenNames
    <3> HIDE DEF r, j, D
    <3>3. r # e + 1 /\ (j = e => j <= L) /\ (j < e - 1 => j <= L)
      BY <1>1, <2>8, <3>1
    <3> QED
      BY <2>7, <3>2, <3>3, Zenon DEF r, D
  <2> QED
    BY <2>10, <2>11, <2>12, <2>13
<1> QED
  BY <1>3, <1>4

\* Every call of the parser finds what the grammar reads, by the number of
\* calls to come.
LEMMA FindsAll ==
    ASSUME NEW t, t \in Seq(ToSet(t)), Len(t) <= MaxTokens, NEW k \in Kinds, NEW i \in 1 .. Len(t) + 1,
           NEW d \in 0 .. MaxDepth
    PROVE  Finds(t, k, i, d)
<1> DEFINE N == 2 * Len(t) + 2
           G == {n \in Nat : FindsBelow(t, n)}
<1>1. N \in Nat
  OBVIOUS
<1>2. \A c \in Kinds : \A j \in 1 .. Len(t) + 1 : Calls(t, c, j) \in Nat /\ Calls(t, c, j) < N
  <2>1. \A c : \A j \in 1 .. Len(t) + 1 : Calls(t, c, j) \in 0 .. 2 * Len(t) + 1
    BY CallsLess
  <2> QED
    BY <2>1
<1>3. 0 \in G
  BY <1>2 DEF FindsBelow
<1>4. ASSUME NEW n \in 0 .. N - 1, n \in G PROVE n + 1 \in G
  <2>1. n \in Nat /\ FindsBelow(t, n)
    BY <1>1, <1>4
  <2>2. ASSUME NEW c \in Kinds, NEW j \in 1 .. Len(t) + 1, NEW e \in 0 .. MaxDepth, Calls(t, c, j) < n + 1
        PROVE  Finds(t, c, j, e)
    <3>1. FindsBelow(t, Calls(t, c, j))
      <4> DEFINE m == Calls(t, c, j)
      <4>1. m \in Nat /\ m <= n
        BY <1>2, <2>1, <2>2
      <4>2. \A b \in Kinds : \A l \in 1 .. Len(t) + 1 : Calls(t, b, l) < m => Calls(t, b, l) < n
        <5> HIDE DEF m
        <5>1. \A x \in Nat : x < m => x < n
          BY <2>1, <4>1
        <5> QED
          BY <1>2, <5>1, Zenon
      <4> HIDE DEF m
      <4> QED
        BY <2>1, <4>2, Zenon DEF FindsBelow, m
    <3>2. CASE c = "value"
      BY <3>1, <3>2, FindsValue DEF Finds
    <3>3. CASE c # "value"
      BY <3>1, <3>3, FindsMembers DEF Finds
    <3> QED
      BY <3>2, <3>3
  <2>3. FindsBelow(t, n + 1)
    BY <2>2 DEF FindsBelow
  <2> QED
    BY <2>1, <2>3
<1>5. N \in G
  <2> HIDE DEF N, G
  <2> QED
    BY <1>1, <1>3, <1>4, StepByStep
<1> QED
  BY <1>2, <1>5 DEF FindsBelow

\* So for the whole text.
LEMMA WholeText ==
    ASSUME NEW t \in Texts
    PROVE  ParseJson(t) <=> t \in Grammar[Len(t)]
<1> DEFINE e == Len(t) + 1
<1>1. t \in Seq(ToSet(t)) /\ Len(t) <= MaxTokens /\ MaxTokens \in Nat /\ MaxDepth \in Nat
  BY TextAssumption, JsonAssumption, Zenon
<1>2. Len(t) \in Nat /\ Len(t) \in 0 .. MaxTokens /\ 1 \in 1 .. e /\ e \in 1 .. e /\ 0 \in 0 .. MaxDepth
      /\ MaxDepth - 0 = MaxDepth /\ e - 1 = Len(t)
  BY <1>1
<1>3. "value" \in Kinds
  BY TokensDiffer, Zenon
<1>4. Finds(t, "value", 1, 0)
  BY <1>1, <1>2, <1>3, FindsAll
<1>5. ParserOf(t)[<<"value", 1, 0>>] = e <=> Reads(t, "value", 1, e, MaxDepth)
  BY <1>2, <1>4, Zenon DEF Finds
<1>6. ParseJson(t) <=> Reads(t, "value", 1, e, MaxDepth)
  BY <1>5, ParsedDef, Zenon DEF ParseJson
<1>7. Segment(t, 1, e) = t
  BY <1>1, <1>2 DEF Segment
<1>8. Reads(t, "value", 1, e, MaxDepth) <=> t \in Language[<<"value", Len(t), MaxDepth>>]
  BY <1>2, <1>7, Zenon DEF Reads
<1>9. Grammar[Len(t)] = Language[<<"value", Len(t), MaxDepth>>]
  BY <1>2, GrammarDef
<1> QED
  BY <1>6, <1>8, <1>9, Zenon

\* What a parsed message was given.
JsonInv ==
    kind = "json" => /\ input \in Texts
                     /\ verdict # Unread => verdict = [accepted |-> ParseJson(input)]

\* The parser accepts a text if and only if it is one value of the grammar,
\* nested no deeper than the limit, with nothing behind it (tools/ctl/backend/
\* json_value.cpp).
THEOREM AcceptedAreInTheGrammar == Spec => []AcceptsGrammar
<1>1. Init => JsonInv
  BY DEF Init, JsonInv
<1>2. JsonInv /\ [Next]_vars => JsonInv'
  <2> SUFFICES ASSUME JsonInv, [Next]_vars PROVE JsonInv'
    OBVIOUS
  <2>1. CASE UNCHANGED vars
    BY <2>1 DEF JsonInv, vars
  <2>2. CASE Next
    <3>1. kind' = kind /\ input' = input
      BY <2>2 DEF Next
    <3>2. kind = "json" => verdict' = [accepted |-> ParseJson(input)]
      BY <2>2 DEF Next, ReadDatagram, ReadStart, ReadJson, ReadPayload
    <3> QED
      BY <3>1, <3>2 DEF JsonInv
  <2> QED
    BY <2>1, <2>2
<1>3. JsonInv => AcceptsGrammar
  <2> SUFFICES ASSUME JsonInv, kind = "json", verdict # Unread
               PROVE  verdict.accepted <=> input \in Grammar[Len(input)]
    BY DEF AcceptsGrammar
  <2>1. input \in Texts /\ verdict = [accepted |-> ParseJson(input)]
    BY DEF JsonInv
  <2>2. verdict.accepted = ParseJson(input)
    BY <2>1
  <2> QED
    BY <2>1, <2>2, WholeText
<1> QED
  BY <1>1, <1>2, <1>3, PTL DEF Spec

=============================================================================
