------------------------ MODULE CaptureWriter_proofs ------------------------
(***************************************************************************)
(* Theorems of CaptureWriter.tla and CsvExport.tla, for every set of       *)
(* records, every size of the stdio buffer, and every failure and crash.   *)
(***************************************************************************)
EXTENDS CsvExport, CommonLemmas

-----------------------------------------------------------------------------
(* The units of a record.                                                  *)

All == Record \cup {FileHeader}
Units == All \X (1 .. 4)

Full(r) == HeaderUnits(r) \o PayloadUnits(r)
Size(r) == IF r.empty THEN 2 ELSE 4

LEMMA HeaderIs ==
    ASSUME NEW r \in All
    PROVE  /\ HeaderUnits(r) \in Seq(Units) /\ Len(HeaderUnits(r)) = 2
           /\ \A i \in 1 .. 2 : HeaderUnits(r)[i] = <<r, i>>
BY DEF HeaderUnits, Units

LEMMA PayloadIs ==
    ASSUME NEW r \in All
    PROVE  /\ PayloadUnits(r) \in Seq(Units) /\ Len(PayloadUnits(r)) = Size(r) - 2
           /\ Size(r) \in {2, 4}
           /\ \A i \in 1 .. Size(r) - 2 : PayloadUnits(r)[i] = <<r, i + 2>>
<1>1. CASE r.empty
  BY <1>1 DEF PayloadUnits, Units, Size
<1>2. CASE ~r.empty
  BY <1>2 DEF PayloadUnits, Units, Size
<1> QED
  BY <1>1, <1>2

LEMMA FullIs ==
    ASSUME NEW r \in All
    PROVE  /\ Full(r) \in Seq(Units) /\ Len(Full(r)) = Size(r)
           /\ \A i \in 1 .. Size(r) : Full(r)[i] = <<r, i>>
<1> DEFINE h == HeaderUnits(r)
           p == PayloadUnits(r)
<1>1. h \in Seq(Units) /\ Len(h) = 2 /\ \A i \in 1 .. 2 : h[i] = <<r, i>>
  BY HeaderIs
<1>2. /\ p \in Seq(Units) /\ Len(p) = Size(r) - 2 /\ Size(r) \in {2, 4}
      /\ \A i \in 1 .. Size(r) - 2 : p[i] = <<r, i + 2>>
  BY PayloadIs
<1> HIDE DEF h, p
<1>3. /\ h \o p \in Seq(Units) /\ Len(h \o p) = Len(h) + Len(p)
      /\ \A i \in 1 .. Len(h) : (h \o p)[i] = h[i]
      /\ \A i \in 1 .. Len(p) : (h \o p)[Len(h) + i] = p[i]
  <2>1. h \in Seq(Units) /\ p \in Seq(Units)
    BY <1>1, <1>2
  <2> QED
    BY <2>1, Joined
<1>4. Full(r) = h \o p
  BY DEF Full, h, p
<1>5. ASSUME NEW i \in 1 .. Size(r) PROVE (h \o p)[i] = <<r, i>>
  <2>1. CASE i \in 1 .. 2
    BY <1>1, <1>3, <2>1
  <2>2. CASE i \notin 1 .. 2
    <3>1. i - 2 \in 1 .. Len(p) /\ 2 + (i - 2) = i /\ i - 2 + 2 = i
      BY <1>2, <2>2
    <3>2. (h \o p)[2 + (i - 2)] = p[i - 2]
      BY <1>1, <1>3, <3>1
    <3>3. p[i - 2] = <<r, i - 2 + 2>>
      BY <1>2, <3>1
    <3> QED
      BY <3>1, <3>2, <3>3
  <2> QED
    BY <2>1, <2>2
<1>6. Len(h \o p) = Size(r)
  BY <1>1, <1>2, <1>3
<1> QED
  BY <1>3, <1>4, <1>5, <1>6

\* Where a part of a sequence has the elements of another sequence.
LEMMA PartIs ==
    ASSUME NEW S, NEW u \in Seq(S), NEW t \in Seq(S), NEW m \in Nat \ {0}, NEW n \in Int,
           n = m + Len(t) - 1, n <= Len(u), \A i \in 1 .. Len(t) : u[m + i - 1] = t[i]
    PROVE  SubSeq(u, m, n) = t
<1> DEFINE g == SubSeq(u, m, n)
<1>1. Len(u) \in Nat /\ Len(t) \in Nat
  BY LenProperties
<1>2. \A i \in m .. n : u[i] \in S
  BY <1>1, ElementOfSeq
<1>3. /\ g \in Seq(S) /\ Len(g) = IF m <= n THEN n - m + 1 ELSE 0
      /\ \A i \in 1 .. n - m + 1 : g[i] = u[m + i - 1]
  BY <1>2, SubSeqProperties
<1> HIDE DEF g
<1>4. Len(g) = Len(t) /\ n - m + 1 = Len(t)
  BY <1>1, <1>3
<1>5. \A i \in 1 .. Len(g) : g[i] = t[i]
  BY <1>3, <1>4
<1>6. g = t
  BY <1>3, <1>4, <1>5, SeqEqual
<1> QED
  BY <1>6 DEF g

-----------------------------------------------------------------------------
(* Files made of whole records, the last of which may be cut.              *)

\* Where the records q start, and where they end.
Places(q, at) ==
    /\ at \in [1 .. Len(q) + 1 -> Nat \ {0}]
    /\ at[1] = 1
    /\ \A k \in 1 .. Len(q) : at[k + 1] = at[k] + Size(q[k])
    /\ \A k, l \in 1 .. Len(q) + 1 : k < l => at[k] < at[l]

\* u is a beginning of the units of q.
Follows(u, q, at) ==
    /\ Len(u) < at[Len(q) + 1]
    /\ \A k \in 1 .. Len(q), i \in 1 .. 4 :
          i <= Size(q[k]) /\ at[k] + i - 1 <= Len(u) => u[at[k] + i - 1] = <<q[k], i>>
    /\ \A p \in 1 .. Len(u) : \E k \in 1 .. Len(q), i \in 1 .. 4 :
          i <= Size(q[k]) /\ p = at[k] + i - 1

\* The first m records of q are whole, and no more.
Cut(u, q, at, m) ==
    /\ at[m + 1] <= Len(u) + 1
    /\ m < Len(q) => Len(u) + 1 < at[m + 2]

LEMMA CutExists ==
    ASSUME NEW u \in Seq(Units), NEW q \in Seq(All), NEW at, Places(q, at), Follows(u, q, at)
    PROVE  \E m \in 0 .. Len(q) : Cut(u, q, at, m)
<1> DEFINE T == {k \in Nat : k < Len(q) /\ Len(u) + 1 < at[k + 2]}
<1>1. Len(u) \in Nat /\ Len(q) \in Nat
  BY LenProperties
<1>2. \A k \in 1 .. Len(q) + 1 : at[k] \in Nat
  BY DEF Places
<1>3. CASE T = {}
  <2>1. CASE Len(q) = 0
    BY <1>1, <2>1 DEF Cut, Places
  <2>2. CASE Len(q) # 0
    <3>1. Len(q) - 1 \in Nat /\ Len(q) - 1 < Len(q) /\ Len(q) - 1 + 2 = Len(q) + 1
      BY <1>1, <2>2
    <3>2. ~(Len(u) + 1 < at[Len(q) - 1 + 2])
      BY <1>3, <3>1
    <3>3. at[Len(q) + 1] <= Len(u) + 1
      BY <1>1, <1>2, <3>1, <3>2
    <3> QED
      BY <1>1, <3>3 DEF Cut
  <2> QED
    BY <2>1, <2>2
<1>4. CASE T # {}
  <2>1. \E n \in T : \A j \in T : n <= j
    <3>1. T \in SUBSET Nat
      OBVIOUS
    <3> HIDE DEF T
    <3> QED
      BY <1>4, <3>1, LeastElement
  <2>2. PICK m \in T : \A j \in T : m <= j
    BY <2>1
  <2>3. m \in 0 .. Len(q) /\ m < Len(q) /\ Len(u) + 1 < at[m + 2] /\ m \in Nat
    BY <1>1
  <2>4. at[m + 1] <= Len(u) + 1
    <3>1. CASE m = 0
      BY <1>1, <3>1 DEF Places
    <3>2. CASE m # 0
      <4>1. m - 1 \in Nat /\ m - 1 < Len(q) /\ m - 1 + 2 = m + 1 /\ ~(m <= m - 1)
        BY <1>1, <2>3, <3>2
      <4>2. m - 1 \notin T
        <5> HIDE DEF T
        <5> QED
          BY <2>2, <4>1
      <4>3. ~(Len(u) + 1 < at[m - 1 + 2])
        BY <4>1, <4>2
      <4>4. at[m + 1] \in Nat
        BY <1>1, <1>2, <2>3
      <4> QED
        BY <1>1, <4>1, <4>3, <4>4
    <3> QED
      BY <3>1, <3>2
  <2> QED
    BY <2>3, <2>4 DEF Cut
<1> QED
  BY <1>3, <1>4

\* A shorter file has no more whole records.
LEMMA CutMonotonic ==
    ASSUME NEW u \in Seq(Units), NEW v \in Seq(Units), NEW q \in Seq(All), NEW at,
           Places(q, at), Len(u) <= Len(v),
           NEW m \in 0 .. Len(q), Cut(u, q, at, m), NEW n \in 0 .. Len(q), Cut(v, q, at, n)
    PROVE  m <= n
<1>1. Len(u) \in Nat /\ Len(v) \in Nat /\ Len(q) \in Nat
  BY LenProperties
<1>2. SUFFICES ASSUME n < m PROVE FALSE
  BY <1>1
<1>3. n < Len(q) /\ n + 2 \in 1 .. Len(q) + 1 /\ m + 1 \in 1 .. Len(q) + 1 /\ n + 2 <= m + 1
  BY <1>1, <1>2
<1>4. at[n + 2] \in Nat /\ at[m + 1] \in Nat
  BY <1>3 DEF Places
<1>5. at[n + 2] <= at[m + 1]
  <2>1. n + 2 = m + 1 \/ n + 2 < m + 1
    BY <1>1, <1>3
  <2>2. n + 2 < m + 1 => at[n + 2] < at[m + 1]
    BY <1>3 DEF Places
  <2> QED
    BY <1>4, <2>1, <2>2
<1>6. Len(v) + 1 < at[n + 2] /\ at[m + 1] <= Len(u) + 1
  BY <1>3 DEF Cut
<1> QED
  BY <1>1, <1>4, <1>5, <1>6

-----------------------------------------------------------------------------
(* The reader.                                                             *)

\* A record is found complete where one starts and no further.
LEMMA FoundAtStarts ==
    ASSUME NEW u \in Seq(Units), NEW q \in Seq(All), NEW at, Places(q, at), Follows(u, q, at),
           NEW p \in Nat \ {0}, CompleteAt(u, p)
    PROVE  \E k \in 1 .. Len(q) : at[k] = p /\ at[k + 1] <= Len(u) + 1
<1> DEFINE r == u[p][1]
<1>1. Len(u) \in Nat /\ Len(q) \in Nat
  BY LenProperties
<1>2. p + 1 <= Len(u) /\ SubSeq(u, p, p + 1) = HeaderUnits(r) /\ p \in 1 .. Len(u)
  BY <1>1 DEF CompleteAt, HeaderAt
<1>3. u[p] = <<r, 1>>
  <2>1. \A i \in p .. p + 1 : u[i] \in Units
    BY <1>1, <1>2, ElementOfSeq
  <2>2. \A i \in 1 .. p + 1 - p + 1 : SubSeq(u, p, p + 1)[i] = u[p + i - 1]
    BY <2>1, SubSeqProperties
  <2>3. 1 \in 1 .. p + 1 - p + 1 /\ p + 1 - 1 = p
    OBVIOUS
  <2>4. SubSeq(u, p, p + 1)[1] = u[p]
    BY <2>2, <2>3
  <2>5. HeaderUnits(r)[1] = <<r, 1>>
    BY DEF HeaderUnits
  <2> QED
    BY <1>2, <2>4, <2>5
<1>4. PICK k \in 1 .. Len(q), i \in 1 .. 4 : i <= Size(q[k]) /\ p = at[k] + i - 1
  BY <1>2 DEF Follows
<1>5. u[p] = <<q[k], i>>
  <2>1. at[k] + i - 1 <= Len(u)
    BY <1>1, <1>2, <1>4
  <2>2. u[at[k] + i - 1] = <<q[k], i>>
    BY <1>4, <2>1 DEF Follows
  <2> QED
    BY <1>4, <2>2
<1>6. i = 1 /\ r = q[k]
  BY <1>3, <1>5
<1>7. q[k] \in All /\ at[k] \in Nat
  BY <1>1, ElementOfSeq DEF Places
<1>8. p + 1 + Len(PayloadUnits(r)) <= Len(u)
  BY DEF CompleteAt
<1>9. Len(PayloadUnits(r)) = Size(q[k]) - 2 /\ Size(q[k]) \in {2, 4}
  BY <1>6, <1>7, PayloadIs
<1>10. at[k + 1] = at[k] + Size(q[k])
  BY DEF Places
<1> HIDE DEF r
<1>11. at[k] = p
  BY <1>4, <1>6, <1>7
<1>12. at[k + 1] <= Len(u) + 1
  BY <1>1, <1>7, <1>8, <1>9, <1>10, <1>11
<1> QED
  BY <1>11, <1>12

\* Where a whole record starts it is found.
LEMMA FoundComplete ==
    ASSUME NEW u \in Seq(Units), NEW q \in Seq(All), NEW at, Places(q, at), Follows(u, q, at),
           NEW k \in 1 .. Len(q), at[k + 1] <= Len(u) + 1
    PROVE  CompleteAt(u, at[k]) /\ u[at[k]][1] = q[k]
<1> DEFINE r == q[k]
           p == at[k]
           h == HeaderUnits(r)
           t == PayloadUnits(r)
<1>1. Len(u) \in Nat /\ Len(q) \in Nat /\ r \in All /\ p \in Nat \ {0}
  <2>1. Len(u) \in Nat /\ Len(q) \in Nat
    BY LenProperties
  <2>2. q[k] \in All
    BY ElementOfSeq
  <2>3. at[k] \in Nat \ {0}
    BY <2>1 DEF Places
  <2> QED
    BY <2>1, <2>2, <2>3
<1>2. at[k + 1] = p + Size(r)
  BY DEF Places
<1>3. h \in Seq(Units) /\ Len(h) = 2 /\ \A i \in 1 .. 2 : h[i] = <<r, i>>
  BY <1>1, HeaderIs
<1>4. /\ t \in Seq(Units) /\ Len(t) = Size(r) - 2 /\ Size(r) \in {2, 4}
      /\ \A i \in 1 .. Size(r) - 2 : t[i] = <<r, i + 2>>
  BY <1>1, PayloadIs
<1>5. \A i \in 1 .. 4 : i <= Size(r) /\ p + i - 1 <= Len(u) => u[p + i - 1] = <<r, i>>
  BY DEF Follows
<1> HIDE DEF r, p, h, t
<1>6. \A i \in 1 .. Size(r) : u[p + i - 1] = <<r, i>>
  <2> SUFFICES ASSUME NEW i \in 1 .. Size(r) PROVE u[p + i - 1] = <<r, i>>
    OBVIOUS
  <2>1. i \in 1 .. 4 /\ i <= Size(r) /\ p + i - 1 <= Len(u)
    BY <1>1, <1>2, <1>4
  <2> QED
    BY <1>5, <2>1
<1>7. u[p] = <<r, 1>>
  <2>1. 1 \in 1 .. Size(r) /\ p + 1 - 1 = p
    BY <1>1, <1>4
  <2> QED
    BY <1>6, <2>1
<1>8. SubSeq(u, p, p + 1) = h
  <2>1. p + 1 = p + Len(h) - 1 /\ p + 1 <= Len(u) /\ p + 1 \in Int
    BY <1>1, <1>2, <1>3, <1>4
  <2>2. \A i \in 1 .. Len(h) : u[p + i - 1] = h[i]
    <3> SUFFICES ASSUME NEW i \in 1 .. Len(h) PROVE u[p + i - 1] = h[i]
      OBVIOUS
    <3>1. i \in 1 .. 2 /\ i \in 1 .. Size(r)
      BY <1>3, <1>4
    <3> QED
      BY <1>3, <1>6, <3>1
  <2>3. h \in Seq(Units) /\ p \in Nat \ {0}
    BY <1>1, <1>3
  <2> HIDE DEF h, p
  <2> QED
    BY <2>1, <2>2, <2>3, PartIs, Zenon
<1>9. SubSeq(u, p + 2, p + 1 + Len(t)) = t /\ p + 1 + Len(t) <= Len(u)
  <2>1. /\ p + 1 + Len(t) = (p + 2) + Len(t) - 1 /\ p + 1 + Len(t) <= Len(u)
        /\ p + 1 + Len(t) \in Int /\ p + 2 \in Nat \ {0}
    <3>1. /\ Len(t) \in Nat /\ p \in Nat /\ Len(u) \in Nat
          /\ p + (Len(t) + 2) <= Len(u) + 1
      BY <1>1, <1>2, <1>4
    <3> QED
      BY <3>1
  <2>2. \A i \in 1 .. Len(t) : u[(p + 2) + i - 1] = t[i]
    <3> SUFFICES ASSUME NEW i \in 1 .. Len(t) PROVE u[(p + 2) + i - 1] = t[i]
      OBVIOUS
    <3>1. i + 2 \in 1 .. Size(r) /\ p + (i + 2) - 1 = (p + 2) + i - 1 /\ i \in 1 .. Size(r) - 2
      BY <1>1, <1>4
    <3>2. u[p + (i + 2) - 1] = <<r, i + 2>>
      BY <1>6, <3>1
    <3> QED
      BY <1>4, <3>1, <3>2
  <2>3. t \in Seq(Units)
    BY <1>4
  <2> QED
    BY <2>1, <2>2, <2>3, PartIs, Zenon
<1>10. u[p][1] = r
  BY <1>7
<1>11. p + 1 <= Len(u)
  BY <1>1, <1>2, <1>4
<1>12. HeaderAt(u, p)
  BY <1>8, <1>10, <1>11 DEF HeaderAt, h
<1>13. CompleteAt(u, p)
  BY <1>9, <1>10, <1>12, Zenon DEF CompleteAt, t
<1> QED
  BY <1>10, <1>13 DEF p, r

\* The body of the recursion of ReadFrom.
ReadStep(u, g, p) ==
    IF ~CompleteAt(u, p) THEN << >>
    ELSE <<u[p][1]>> \o g[p + 2 + Len(PayloadUnits(u[p][1]))]

LEMMA ReadFromIs ==
    ASSUME NEW u, \E g : g = [p \in Nat \ {0} |-> ReadStep(u, g, p)]
    PROVE  \E g : g = [p \in Nat \ {0} |-> ReadStep(u, g, p)] /\ ReadFrom(u) = g[1]
<1> DEFINE G(g) == g = [p \in Nat \ {0} |-> ReadStep(u, g, p)]
           c == CHOOSE g : G(g)
<1>1. G(c)
  <2>1. \E g : G(g)
    OBVIOUS
  <2> QED
    BY <2>1, Zenon
<1>2. ReadFrom(u) = c[1]
  BY Zenon DEF ReadFrom, ReadStep
<1> QED
  BY <1>1, <1>2

\* The recursion has a solution, and any one reads the whole records.
LEMMA ReadsWhole ==
    ASSUME NEW u \in Seq(Units), NEW q \in Seq(All), NEW at, Places(q, at), Follows(u, q, at),
           NEW m \in 0 .. Len(q), Cut(u, q, at, m)
    PROVE  ReadFrom(u) = SubSeq(q, 1, m)
<1>1. Len(u) \in Nat /\ Len(q) \in Nat
  BY LenProperties
<1>2. /\ \A k \in 1 .. Len(q) + 1 : at[k] \in Nat \ {0}
      /\ \A k, l \in 1 .. Len(q) + 1 : k < l => at[k] < at[l]
      /\ \A k \in 1 .. Len(q) : at[k + 1] = at[k] + Size(q[k])
      /\ at[1] = 1
  BY DEF Places
<1>3. \A k, l \in 1 .. Len(q) + 1 : at[k] = at[l] => k = l
  <2> SUFFICES ASSUME NEW k \in 1 .. Len(q) + 1, NEW l \in 1 .. Len(q) + 1, at[k] = at[l]
               PROVE  k = l
    OBVIOUS
  <2>1. k < l \/ l < k \/ k = l
    BY <1>1
  <2> QED
    BY <1>2, <2>1
\* Which starts are those of whole records.
<1>4. \A k \in 1 .. Len(q) : at[k + 1] <= Len(u) + 1 <=> k <= m
  <2> SUFFICES ASSUME NEW k \in 1 .. Len(q) PROVE at[k + 1] <= Len(u) + 1 <=> k <= m
    OBVIOUS
  <2>1. CASE k <= m
    <3>1. k + 1 = m + 1 \/ k + 1 < m + 1
      BY <1>1, <2>1
    <3>2. at[k + 1] <= at[m + 1] /\ at[k + 1] \in Nat /\ at[m + 1] \in Nat
      BY <1>1, <1>2, <3>1
    <3> QED
      BY <1>1, <2>1, <3>2 DEF Cut
  <2>2. CASE ~(k <= m)
    <3>1. /\ m < Len(q) /\ (m + 2 = k + 1 \/ m + 2 < k + 1)
          /\ m + 2 \in 1 .. Len(q) + 1 /\ k + 1 \in 1 .. Len(q) + 1
      BY <1>1, <2>2
    <3>2. at[m + 2] <= at[k + 1] /\ at[k + 1] \in Nat /\ at[m + 2] \in Nat
      BY <1>2, <3>1
    <3> QED
      BY <1>1, <2>2, <3>1, <3>2 DEF Cut
  <2> QED
    BY <2>1, <2>2
<1>5. \A k \in 1 .. m : CompleteAt(u, at[k]) /\ u[at[k]][1] = q[k]
  <2> SUFFICES ASSUME NEW k \in 1 .. m PROVE CompleteAt(u, at[k]) /\ u[at[k]][1] = q[k]
    OBVIOUS
  <2>1. k \in 1 .. Len(q) /\ k <= m
    BY <1>1
  <2>2. at[k + 1] <= Len(u) + 1
    BY <1>4, <2>1
  <2>3. k \in 1 .. Len(q)
    BY <2>1
  <2> QED
    BY <2>2, <2>3, FoundComplete
<1>6. \A p \in Nat \ {0} : CompleteAt(u, p) => \E k \in 1 .. m : at[k] = p
  <2> SUFFICES ASSUME NEW p \in Nat \ {0}, CompleteAt(u, p) PROVE \E k \in 1 .. m : at[k] = p
    OBVIOUS
  <2>1. PICK k \in 1 .. Len(q) : at[k] = p /\ at[k + 1] <= Len(u) + 1
    BY FoundAtStarts
  <2>2. k \in 1 .. m
    BY <1>1, <1>4, <2>1
  <2> QED
    BY <2>1, <2>2
<1>7. ~CompleteAt(u, at[m + 1])
  <2> SUFFICES ASSUME CompleteAt(u, at[m + 1]) PROVE FALSE
    OBVIOUS
  <2>1. m + 1 \in 1 .. Len(q) + 1 /\ at[m + 1] \in Nat \ {0}
    BY <1>1, <1>2
  <2>2. PICK k \in 1 .. m : at[k] = at[m + 1]
    BY <1>6, <2>1
  <2>3. k \in 1 .. Len(q) + 1 /\ k # m + 1
    BY <1>1
  <2> QED
    BY <1>3, <2>1, <2>2, <2>3
\* The next record starts where the reader looks for it.
<1>8. \A k \in 1 .. m : at[k] + 2 + Len(PayloadUnits(u[at[k]][1])) = at[k + 1]
  <2> SUFFICES ASSUME NEW k \in 1 .. m
               PROVE  at[k] + 2 + Len(PayloadUnits(u[at[k]][1])) = at[k + 1]
    OBVIOUS
  <2>1. k \in 1 .. Len(q) /\ q[k] \in All /\ at[k] \in Nat
    BY <1>1, <1>2, ElementOfSeq
  <2>2. Len(PayloadUnits(q[k])) = Size(q[k]) - 2 /\ Size(q[k]) \in {2, 4}
    BY <2>1, PayloadIs
  <2>3. u[at[k]][1] = q[k]
    BY <1>5
  <2>4. at[k + 1] = at[k] + Size(q[k])
    BY <1>2, <2>1
  <2> QED
    BY <2>1, <2>2, <2>3, <2>4
<1> DEFINE P(p) == \E k \in 1 .. m : at[k] = p
           At(p) == CHOOSE k \in 1 .. m : at[k] = p
           h == [p \in Nat \ {0} |-> IF P(p) THEN SubSeq(q, At(p), m) ELSE << >>]
<1>9. \A k \in 1 .. m : P(at[k]) /\ At(at[k]) = k
  <2> SUFFICES ASSUME NEW k \in 1 .. m PROVE P(at[k]) /\ At(at[k]) = k
    OBVIOUS
  <2>1. At(at[k]) \in 1 .. m /\ at[At(at[k])] = at[k]
    OBVIOUS
  <2> HIDE DEF At
  <2>2. At(at[k]) \in 1 .. Len(q) + 1 /\ k \in 1 .. Len(q) + 1
    BY <1>1, <2>1
  <2> QED
    BY <1>3, <2>1, <2>2
<1>10. \A k \in 1 .. m : SubSeq(q, k, m) = <<q[k]>> \o SubSeq(q, k + 1, m)
  <2> SUFFICES ASSUME NEW k \in 1 .. m PROVE SubSeq(q, k, m) = <<q[k]>> \o SubSeq(q, k + 1, m)
    OBVIOUS
  <2>1. k \in 1 .. Len(q) /\ m \in k .. Len(q)
    BY <1>1
  <2> QED
    BY <2>1, SubSeqRecursiveFirst
<1>11. SubSeq(q, m + 1, m) = << >>
  <2>1. m \in Int /\ m + 1 \in Int /\ m < m + 1
    OBVIOUS
  <2> QED
    BY <2>1, SubSeqEmpty
<1>12. h = [p \in Nat \ {0} |-> ReadStep(u, h, p)]
  <2> SUFFICES ASSUME NEW p \in Nat \ {0}
               PROVE  (IF P(p) THEN SubSeq(q, At(p), m) ELSE << >>) = ReadStep(u, h, p)
    OBVIOUS
  <2>1. CASE ~P(p)
    <3>1. ~CompleteAt(u, p)
      BY <1>6, <2>1
    <3> QED
      BY <2>1, <3>1, Zenon DEF ReadStep
  <2>2. CASE P(p)
    <3>1. PICK k \in 1 .. m : at[k] = p
      BY <2>2
    <3>2. P(p) /\ At(p) = k
      BY <1>9, <3>1
    <3>3. k + 1 \in 1 .. Len(q) + 1 /\ at[k + 1] \in Nat \ {0}
      BY <1>1, <1>2
    <3>4. h[at[k + 1]] = SubSeq(q, k + 1, m)
      <4>1. CASE k + 1 \in 1 .. m
        <5>1. P(at[k + 1]) /\ At(at[k + 1]) = k + 1
          BY <1>9, <4>1
        <5> HIDE DEF P, At
        <5> QED
          BY <3>3, <5>1
      <4>2. CASE k + 1 \notin 1 .. m
        <5>1. k = m
          BY <1>1, <4>2
        <5>2. ~P(at[m + 1])
          <6> SUFFICES ASSUME NEW l \in 1 .. m, at[l] = at[m + 1] PROVE FALSE
            OBVIOUS
          <6>1. l \in 1 .. Len(q) + 1 /\ m + 1 \in 1 .. Len(q) + 1 /\ l # m + 1
            BY <1>1
          <6> QED
            BY <1>3, <6>1
        <5> HIDE DEF P, At
        <5> QED
          BY <1>11, <3>3, <5>1, <5>2
      <4> QED
        BY <4>1, <4>2
    <3> HIDE DEF P, At, h
    <3>5. CompleteAt(u, p) /\ u[p][1] = q[k] /\ p + 2 + Len(PayloadUnits(u[p][1])) = at[k + 1]
      BY <1>5, <1>8, <3>1
    <3>6. ReadStep(u, h, p) = <<q[k]>> \o h[at[k + 1]]
      BY <3>5, Zenon DEF ReadStep
    <3> QED
      BY <1>10, <3>2, <3>4, <3>6
  <2> QED
    BY <2>1, <2>2
<1>13. \E g : g = [p \in Nat \ {0} |-> ReadStep(u, g, p)]
  <2> HIDE DEF h
  <2> QED
    BY <1>12
<1>14. PICK g : g = [p \in Nat \ {0} |-> ReadStep(u, g, p)] /\ ReadFrom(u) = g[1]
  <2> HIDE DEF h
  <2> QED
    BY <1>13, ReadFromIs
<1> HIDE DEF P, At, h
<1>15. \A p \in Nat \ {0} : g[p] = ReadStep(u, g, p)
  <2> DEFINE f(p) == ReadStep(u, g, p)
  <2>1. g = [p \in Nat \ {0} |-> f(p)]
    BY <1>14
  <2> HIDE DEF f
  <2>2. \A p \in Nat \ {0} : g[p] = f(p)
    BY <2>1
  <2> QED
    BY <2>2 DEF f
<1> DEFINE Bad == {j \in 0 .. m : g[at[m + 1 - j]] # SubSeq(q, m + 1 - j, m)}
<1>16. CASE Bad = {}
  <2>1. m \in 0 .. m /\ m + 1 - m = 1
    BY <1>1
  <2>2. m \notin Bad
    BY <1>16
  <2>3. g[at[m + 1 - m]] = SubSeq(q, m + 1 - m, m)
    BY <2>1, <2>2
  <2>4. g[at[1]] = SubSeq(q, 1, m)
    BY <2>1, <2>3
  <2>5. g[1] = SubSeq(q, 1, m)
    BY <1>2, <2>4
  <2> QED
    BY <1>14, <2>5
<1>17. CASE Bad # {}
  <2>1. \E n \in Bad : \A j \in Bad : n <= j
    <3>1. Bad \in SUBSET Nat
      OBVIOUS
    <3> HIDE DEF Bad
    <3> QED
      BY <1>17, <3>1, LeastElement
  <2>2. PICK n \in Bad : \A j \in Bad : n <= j
    BY <2>1
  <2> DEFINE k == m + 1 - n
  <2>3. n \in 0 .. m /\ k \in 1 .. m + 1 /\ g[at[k]] # SubSeq(q, k, m) /\ k \in 1 .. Len(q) + 1
    BY <1>1
  <2>4. g[at[k]] = ReadStep(u, g, at[k])
    BY <1>2, <1>15, <2>3
  <2>5. CASE n = 0
    <3>1. k = m + 1
      BY <2>5
    <3>2. g[at[m + 1]] = ReadStep(u, g, at[m + 1])
      BY <2>4, <3>1
    <3>3. ReadStep(u, g, at[m + 1]) = << >>
      BY <1>7, Zenon DEF ReadStep
    <3> QED
      BY <1>11, <2>3, <3>1, <3>2, <3>3
  <2>6. CASE n # 0
    <3>1. k \in 1 .. m /\ n - 1 \in 0 .. m /\ ~(n <= n - 1) /\ m + 1 - (n - 1) = k + 1
      BY <2>3, <2>6
    <3>2. n - 1 \notin Bad
      <4> HIDE DEF Bad, k
      <4> QED
        BY <2>2, <3>1
    <3>3. g[at[m + 1 - (n - 1)]] = SubSeq(q, m + 1 - (n - 1), m)
      BY <3>1, <3>2
    <3> HIDE DEF k, Bad
    <3>4. g[at[k + 1]] = SubSeq(q, k + 1, m)
      BY <3>1, <3>3
    <3>5. /\ CompleteAt(u, at[k]) /\ u[at[k]][1] = q[k]
          /\ at[k] + 2 + Len(PayloadUnits(u[at[k]][1])) = at[k + 1]
      BY <1>5, <1>8, <3>1
    <3>6. ReadStep(u, g, at[k]) = <<q[k]>> \o g[at[k + 1]]
      BY <3>5, Zenon DEF ReadStep
    <3> QED
      BY <1>10, <2>3, <2>4, <3>1, <3>4, <3>6
  <2> QED
    BY <2>5, <2>6
<1> QED
  BY <1>16, <1>17

-----------------------------------------------------------------------------
(* What the writer leaves.                                                 *)

\* u is a beginning of a file with the header and the records s, or with one
\* record more, which is then not whole.
WrittenAs(u, s, q, at) ==
    /\ Places(q, at) /\ Follows(u, q, at)
    /\ q[1] = FileHeader
    /\ \A i \in 1 .. Len(s) : q[i + 1] = s[i]
    /\ \/ Len(q) = Len(s) + 1
       \/ Len(q) = Len(s) + 2 /\ Len(u) + 1 < at[Len(q) + 1]

Written(u, s) == \E q \in Seq(All) : \E at : WrittenAs(u, s, q, at)

\* The file is whole.
WholeAs(u, s, q, at) ==
    WrittenAs(u, s, q, at) /\ Len(q) = Len(s) + 1 /\ at[Len(q) + 1] = Len(u) + 1

Whole(u, s) == \E q \in Seq(All) : \E at : WholeAs(u, s, q, at)

\* A reader gets the records before the first that is not whole.
LEMMA ReadIs ==
    ASSUME NEW s \in Seq(Record), NEW u \in Seq(Units),
           NEW q \in Seq(All), NEW at, WrittenAs(u, s, q, at)
    PROVE  \E m \in 0 .. Len(q) :
              /\ Cut(u, q, at, m)
              /\ m <= Len(s) + 1
              /\ (CompleteAt(u, 1) <=> m # 0)
              /\ Read(u) = IF m = 0 THEN << >> ELSE SubSeq(s, 1, m - 1)
              /\ Len(Read(u)) = IF m = 0 THEN 0 ELSE m - 1
<1>1. Len(u) \in Nat /\ Len(q) \in Nat /\ Len(s) \in Nat
  BY LenProperties
<1>2. Places(q, at) /\ Follows(u, q, at) /\ q[1] = FileHeader
  BY DEF WrittenAs
<1>3. PICK m \in 0 .. Len(q) : Cut(u, q, at, m)
  BY <1>2, CutExists
<1>4. m <= Len(s) + 1
  <2>1. CASE Len(q) = Len(s) + 1
    BY <1>1, <2>1
  <2>2. CASE Len(q) = Len(s) + 2 /\ Len(u) + 1 < at[Len(q) + 1]
    <3>1. m # Len(q)
      <4> SUFFICES ASSUME m = Len(q) PROVE FALSE
        OBVIOUS
      <4>1. at[Len(q) + 1] <= Len(u) + 1 /\ at[Len(q) + 1] \in Nat
        BY <1>1, <1>2, <1>3 DEF Cut, Places
      <4> QED
        BY <1>1, <2>2, <4>1
    <3> QED
      BY <1>1, <2>2, <3>1
  <2> QED
    BY <2>1, <2>2 DEF WrittenAs
<1>5. ReadFrom(u) = SubSeq(q, 1, m)
  BY <1>2, <1>3, ReadsWhole
<1>6. at[1] = 1 /\ \A k \in 1 .. Len(q) + 1 : at[k] \in Nat
  BY <1>2 DEF Places
<1>7. CASE m = 0
  <2>1. ~CompleteAt(u, 1)
    <3> SUFFICES ASSUME CompleteAt(u, 1) PROVE FALSE
      OBVIOUS
    <3>1. PICK k \in 1 .. Len(q) : at[k] = 1 /\ at[k + 1] <= Len(u) + 1
      BY <1>2, FoundAtStarts
    <3>2. k = 1
      <4>1. k \in 1 .. Len(q) + 1 /\ 1 \in 1 .. Len(q) + 1 /\ (1 < k => at[1] < at[k])
        BY <1>1, <1>2 DEF Places
      <4> QED
        BY <1>6, <3>1, <4>1
    <3>3. at[2] <= Len(u) + 1 /\ 0 < Len(q)
      BY <1>1, <3>1, <3>2
    <3>4. Len(u) + 1 < at[2]
      BY <1>3, <1>7, <3>3 DEF Cut
    <3>5. at[2] \in Nat
      BY <1>1, <1>6, <3>3
    <3> QED
      BY <1>1, <3>3, <3>4, <3>5
  <2>2. Read(u) = << >>
    BY <2>1 DEF Read
  <2> QED
    BY <1>1, <1>3, <1>7, <2>1, <2>2
<1>8. CASE m # 0
  <2>1. 1 \in 1 .. Len(q) /\ 1 <= m /\ m \in 1 .. Len(q)
    BY <1>1, <1>8
  <2>2. at[2] <= Len(u) + 1
    <3>1. at[2] <= at[m + 1] /\ at[2] \in Nat /\ at[m + 1] \in Nat
      <4>1. 2 \in 1 .. Len(q) + 1 /\ m + 1 \in 1 .. Len(q) + 1 /\ (2 = m + 1 \/ 2 < m + 1)
        BY <1>1, <2>1
      <4> QED
        BY <1>2, <1>6, <4>1 DEF Places
    <3>2. at[m + 1] <= Len(u) + 1
      BY <1>3 DEF Cut
    <3> QED
      BY <1>1, <3>1, <3>2
  <2>3. CompleteAt(u, at[1]) /\ u[at[1]][1] = q[1]
    <3>1. at[1 + 1] <= Len(u) + 1
      BY <2>2
    <3> QED
      BY <1>2, <2>1, <3>1, FoundComplete
  <2>4. Read(u) = Tail(SubSeq(q, 1, m))
    BY <1>2, <1>5, <1>6, <2>3 DEF Read
  <2>5. 1 \in 1 .. Len(q) /\ m \in 1 .. Len(q)
    BY <2>1
  <2>6. Tail(SubSeq(q, 1, m)) = SubSeq(q, 1 + 1, m)
    BY <2>5, HeadTailOfSubSeq
  <2> DEFINE g == SubSeq(q, 2, m)
             t == SubSeq(s, 1, m - 1)
  <2>7. /\ g \in Seq(All) /\ Len(g) = m - 1 /\ \A i \in 1 .. m - 1 : g[i] = q[2 + i - 1]
    <3>1. \A i \in 2 .. m : q[i] \in All
      BY <1>1, ElementOfSeq
    <3>2. /\ g \in Seq(All) /\ Len(g) = IF 2 <= m THEN m - 2 + 1 ELSE 0
          /\ \A i \in 1 .. m - 2 + 1 : g[i] = q[2 + i - 1]
      BY <3>1, SubSeqProperties
    <3> HIDE DEF g
    <3>3. m - 2 + 1 = m - 1 /\ (~(2 <= m) => m - 1 = 0)
      BY <2>1
    <3> QED
      BY <3>2, <3>3
  <2>8. t \in Seq(All) /\ Len(t) = m - 1 /\ \A i \in 1 .. m - 1 : t[i] = s[i]
    <3>1. \A i \in 1 .. m - 1 : s[i] \in All
      <4> SUFFICES ASSUME NEW i \in 1 .. m - 1 PROVE s[i] \in All
        OBVIOUS
      <4>1. i \in 1 .. Len(s)
        BY <1>1, <1>4
      <4>2. s[i] \in Record
        BY <4>1, ElementOfSeq
      <4> QED
        BY <4>2 DEF All
    <3>2. m - 1 \in Int /\ 1 \in Int
      OBVIOUS
    <3>3. /\ t \in Seq(All) /\ Len(t) = IF 1 <= m - 1 THEN m - 1 - 1 + 1 ELSE 0
          /\ \A i \in 1 .. m - 1 - 1 + 1 : t[i] = s[1 + i - 1]
      BY <3>1, <3>2, SubSeqProperties
    <3> HIDE DEF t
    <3>4. m - 1 - 1 + 1 = m - 1 /\ (~(1 <= m - 1) => m - 1 = 0) /\ \A i \in 1 .. m - 1 : 1 + i - 1 = i
      BY <2>1
    <3> QED
      BY <3>3, <3>4
  <2>9. \A i \in 1 .. m - 1 : q[2 + i - 1] = s[i]
    <3> SUFFICES ASSUME NEW i \in 1 .. m - 1 PROVE q[2 + i - 1] = s[i]
      OBVIOUS
    <3>1. i \in 1 .. Len(s) /\ 2 + i - 1 = i + 1
      BY <1>1, <1>4
    <3>2. q[i + 1] = s[i]
      BY <3>1 DEF WrittenAs
    <3> QED
      BY <3>1, <3>2
  <2>10. g = t
    <3> HIDE DEF g, t
    <3>1. \A i \in 1 .. Len(g) : g[i] = t[i]
      BY <2>7, <2>8, <2>9
    <3> QED
      BY <2>7, <2>8, <3>1, SeqEqual
  <2>11. Read(u) = t
    BY <2>4, <2>6, <2>10
  <2> HIDE DEF t
  <2>12. Len(Read(u)) = m - 1
    BY <2>8, <2>11
  <2>13. CompleteAt(u, 1)
    BY <1>6, <2>3
  <2> QED
    BY <1>3, <1>4, <1>8, <2>11, <2>12, <2>13 DEF t
<1> QED
  BY <1>7, <1>8

\* What a reader gets is a beginning of what was written.
LEMMA ReadPrefix ==
    ASSUME NEW s \in Seq(Record), NEW u \in Seq(Units), Written(u, s)
    PROVE  Prefix(Read(u), s) /\ Len(Read(u)) \in 0 .. Len(s)
<1>0. PICK q \in Seq(All) : \E at : WrittenAs(u, s, q, at)
  BY DEF Written
<1>1. PICK at : WrittenAs(u, s, q, at)
  BY <1>0
<1>2. PICK m \in 0 .. Len(q) :
          /\ m <= Len(s) + 1
          /\ Read(u) = IF m = 0 THEN << >> ELSE SubSeq(s, 1, m - 1)
          /\ Len(Read(u)) = IF m = 0 THEN 0 ELSE m - 1
  BY <1>1, ReadIs
<1>3. Len(s) \in Nat /\ Len(q) \in Nat
  BY LenProperties
<1>4. Len(Read(u)) \in 0 .. Len(s)
  BY <1>2, <1>3
<1>5. Read(u) = SubSeq(s, 1, Len(Read(u)))
  <2>1. CASE m = 0
    <3>1. SubSeq(s, 1, 0) = << >>
      BY SubSeqEmpty
    <3> QED
      BY <1>2, <2>1, <3>1
  <2>2. CASE m # 0
    BY <1>2, <2>2
  <2> QED
    BY <2>1, <2>2
<1> QED
  BY <1>3, <1>4, <1>5 DEF Prefix

\* Of a whole file a reader gets everything.
LEMMA ReadAll ==
    ASSUME NEW s \in Seq(Record), NEW u \in Seq(Units), Whole(u, s)
    PROVE  Written(u, s) /\ Len(Read(u)) = Len(s)
<1>0. PICK q \in Seq(All) : \E at : WholeAs(u, s, q, at)
  BY DEF Whole
<1>1. PICK at : WholeAs(u, s, q, at)
  BY <1>0
<1>2. WrittenAs(u, s, q, at) /\ Len(q) = Len(s) + 1 /\ at[Len(q) + 1] = Len(u) + 1
  BY <1>1 DEF WholeAs
<1>3. PICK m \in 0 .. Len(q) : Cut(u, q, at, m) /\ Len(Read(u)) = IF m = 0 THEN 0 ELSE m - 1
  BY <1>2, ReadIs
<1>4. Len(s) \in Nat /\ Len(q) \in Nat /\ Len(u) \in Nat
  BY LenProperties
<1>5. m = Len(q)
  <2> SUFFICES ASSUME m # Len(q) PROVE FALSE
    OBVIOUS
  <2>1. m < Len(q) /\ m + 2 \in 1 .. Len(q) + 1 /\ (m + 2 = Len(q) + 1 \/ m + 2 < Len(q) + 1)
    BY <1>4
  <2>2. Len(u) + 1 < at[m + 2]
    BY <1>3, <2>1 DEF Cut
  <2>3. at[m + 2] <= at[Len(q) + 1] /\ at[m + 2] \in Nat
    <3>1. Len(q) + 1 \in 1 .. Len(q) + 1
      BY <1>4
    <3>2. at[m + 2] \in Nat /\ at[Len(q) + 1] \in Nat
      BY <1>2, <2>1, <3>1 DEF WrittenAs, Places
    <3>3. m + 2 < Len(q) + 1 => at[m + 2] < at[Len(q) + 1]
      BY <1>2, <2>1, <3>1 DEF WrittenAs, Places
    <3> QED
      BY <2>1, <3>2, <3>3
  <2> QED
    BY <1>2, <1>4, <2>2, <2>3
<1> QED
  BY <1>2, <1>3, <1>4, <1>5 DEF Written

\* A beginning of what was written is written, and a reader gets no more of it.
LEMMA ShorterWritten ==
    ASSUME NEW s \in Seq(Record), NEW v \in Seq(Units), NEW u \in Seq(Units), Written(v, s),
           Len(u) <= Len(v), \A i \in 1 .. Len(u) : u[i] = v[i]
    PROVE  Written(u, s) /\ Len(Read(u)) <= Len(Read(v))
<1>0. PICK q \in Seq(All) : \E at : WrittenAs(v, s, q, at)
  BY DEF Written
<1>1. PICK at : WrittenAs(v, s, q, at)
  BY <1>0
<1>2. /\ Len(u) \in Nat /\ Len(v) \in Nat /\ Len(q) \in Nat
      /\ Places(q, at) /\ \A k \in 1 .. Len(q) + 1 : at[k] \in Nat \ {0}
  BY <1>1, LenProperties DEF WrittenAs, Places
<1>3. Follows(v, q, at)
  BY <1>1 DEF WrittenAs
<1>4. Follows(u, q, at)
  <2>1. Len(u) < at[Len(q) + 1]
    <3>1. Len(v) < at[Len(q) + 1] /\ at[Len(q) + 1] \in Nat
      BY <1>2, <1>3 DEF Follows
    <3> QED
      BY <1>2, <3>1
  <2>2. ASSUME NEW k \in 1 .. Len(q), NEW i \in 1 .. 4, i <= Size(q[k]), at[k] + i - 1 <= Len(u)
        PROVE  u[at[k] + i - 1] = <<q[k], i>>
    <3>1. at[k] \in Nat \ {0}
      BY <1>2
    <3>2. at[k] + i - 1 \in 1 .. Len(u) /\ at[k] + i - 1 <= Len(v)
      BY <1>2, <2>2, <3>1
    <3>3. v[at[k] + i - 1] = <<q[k], i>>
      BY <1>3, <2>2, <3>2 DEF Follows
    <3> QED
      BY <3>2, <3>3
  <2>3. ASSUME NEW p \in 1 .. Len(u)
        PROVE  \E k \in 1 .. Len(q), i \in 1 .. 4 : i <= Size(q[k]) /\ p = at[k] + i - 1
    <3>1. p \in 1 .. Len(v)
      BY <1>2
    <3> QED
      BY <1>3, <3>1 DEF Follows
  <2> QED
    BY <2>1, <2>2, <2>3 DEF Follows
<1>5. Len(v) + 1 < at[Len(q) + 1] => Len(u) + 1 < at[Len(q) + 1]
  <2>1. at[Len(q) + 1] \in Nat
    BY <1>2
  <2> QED
    BY <1>2, <2>1
<1>6. WrittenAs(u, s, q, at)
  BY <1>1, <1>4, <1>5 DEF WrittenAs
<1>7. PICK m \in 0 .. Len(q) : Cut(u, q, at, m) /\ Len(Read(u)) = IF m = 0 THEN 0 ELSE m - 1
  BY <1>6, ReadIs
<1>8. PICK n \in 0 .. Len(q) : Cut(v, q, at, n) /\ Len(Read(v)) = IF n = 0 THEN 0 ELSE n - 1
  BY <1>1, ReadIs
<1>9. m <= n
  BY <1>2, <1>7, <1>8, CutMonotonic
<1>10. Written(u, s)
  BY <1>6 DEF Written
<1>11. Len(Read(u)) <= Len(Read(v))
  BY <1>7, <1>8, <1>9
<1> QED
  BY <1>10, <1>11

\* Up to the record r was added to a whole file.
LEMMA LongerWritten ==
    ASSUME NEW s \in Seq(Record), NEW w \in Seq(Units), Whole(w, s), NEW r \in Record,
           NEW v \in Seq(Units), Len(v) <= Len(w) + Size(r),
           \A i \in 1 .. Len(v) : v[i] = (w \o Full(r))[i]
    PROVE  /\ Written(v, Append(s, r))
           /\ Len(v) < Len(w) + Size(r) => Written(v, s)
           /\ Len(v) = Len(w) + Size(r) => Whole(v, Append(s, r))
<1>0. PICK q \in Seq(All) : \E at : WholeAs(w, s, q, at)
  BY DEF Whole
<1>1. PICK at : WholeAs(w, s, q, at)
  BY <1>0
<1>2. /\ Places(q, at) /\ Follows(w, q, at) /\ q[1] = FileHeader
      /\ \A i \in 1 .. Len(s) : q[i + 1] = s[i]
      /\ Len(q) = Len(s) + 1 /\ at[Len(q) + 1] = Len(w) + 1
  BY <1>1 DEF WholeAs, WrittenAs
<1>3. /\ Len(s) \in Nat /\ Len(q) \in Nat /\ Len(w) \in Nat /\ Len(v) \in Nat
      /\ r \in All
  BY LenProperties DEF All
<1>4. /\ Full(r) \in Seq(Units) /\ Len(Full(r)) = Size(r) /\ Size(r) \in {2, 4}
      /\ \A i \in 1 .. Size(r) : Full(r)[i] = <<r, i>>
  BY <1>3, FullIs, PayloadIs
<1> DEFINE f == Full(r)
           n == Len(q)
           z == w \o f
           q2 == Append(q, r)
           at2 == [k \in 1 .. n + 2 |-> IF k <= n + 1 THEN at[k] ELSE Len(w) + 1 + Size(r)]
           s2 == Append(s, r)
<1>5. /\ Len(z) = Len(w) + Len(f)
      /\ \A i \in 1 .. Len(w) : z[i] = w[i]
      /\ \A i \in 1 .. Len(f) : z[Len(w) + i] = f[i]
  <2> HIDE DEF f
  <2> QED
    BY <1>4, Joined DEF f
<1>6. /\ q2 \in Seq(All) /\ Len(q2) = n + 1 /\ q2[n + 1] = r
      /\ \A i \in 1 .. n : q2[i] = q[i]
  BY <1>3, AppendProperties
<1>7. /\ s2 \in Seq(Record) /\ Len(s2) = Len(s) + 1 /\ s2[Len(s) + 1] = r
      /\ \A i \in 1 .. Len(s) : s2[i] = s[i]
  BY <1>3, AppendProperties
<1>8. /\ at2 \in [1 .. n + 2 -> Nat \ {0}]
      /\ \A k \in 1 .. n + 1 : at2[k] = at[k]
      /\ at2[n + 2] = Len(w) + 1 + Size(r)
  <2>1. \A k \in 1 .. n + 1 : at[k] \in Nat \ {0}
    BY <1>2 DEF Places
  <2>2. Len(w) + 1 + Size(r) \in Nat \ {0}
    BY <1>3, <1>4
  <2>3. n \in Nat
    BY <1>3
  <2> HIDE DEF n
  <2> QED
    BY <2>1, <2>2, <2>3
<1> HIDE DEF f, z, q2, at2, s2, n
<1>9. n \in Nat /\ n = Len(s) + 1 /\ at2[n + 1] = Len(w) + 1
  <2>1. n \in Nat /\ n = Len(s) + 1 /\ at[n + 1] = Len(w) + 1
    BY <1>2, <1>3 DEF n
  <2>2. n + 1 \in 1 .. n + 1
    BY <2>1
  <2> QED
    BY <1>8, <2>1, <2>2
<1>10. Places(q2, at2)
  <2>1. at2 \in [1 .. Len(q2) + 1 -> Nat \ {0}]
    <3>1. Len(q2) + 1 = n + 2
      BY <1>6, <1>9
    <3> QED
      BY <1>8, <3>1
  <2>2. at2[1] = 1
    BY <1>2, <1>8, <1>9 DEF Places
  <2>3. ASSUME NEW k \in 1 .. n + 1 PROVE at2[k + 1] = at2[k] + Size(q2[k])
    <3>1. CASE k \in 1 .. n
      <4>1. at[k + 1] = at[k] + Size(q[k])
        BY <1>2, <3>1 DEF Places, n
      <4>2. k + 1 \in 1 .. n + 1
        BY <1>9, <3>1
      <4> QED
        BY <1>6, <1>8, <3>1, <4>1, <4>2
    <3>2. CASE k \notin 1 .. n
      <4>1. k = n + 1 /\ k + 1 = n + 2
        BY <1>9, <3>2
      <4> QED
        BY <1>6, <1>8, <1>9, <4>1
    <3> QED
      BY <3>1, <3>2
  <2>4. ASSUME NEW k \in 1 .. n + 2, NEW l \in 1 .. n + 2, k < l PROVE at2[k] < at2[l]
    <3>1. k \in 1 .. n + 1
      BY <1>9, <2>4
    <3>2. CASE l \in 1 .. n + 1
      <4>1. at[k] < at[l]
        BY <1>2, <2>4, <3>1, <3>2 DEF Places, n
      <4> QED
        BY <1>8, <3>1, <3>2, <4>1
    <3>3. CASE l \notin 1 .. n + 1
      <4>1. l = n + 2
        BY <1>9, <3>3
      <4>2. at[k] <= at[n + 1] /\ at[k] \in Nat
        <5>1. k = n + 1 \/ k < n + 1
          BY <1>9, <3>1
        <5>2. n + 1 \in 1 .. n + 1
          BY <1>9
        <5>3. k < n + 1 => at[k] < at[n + 1]
          BY <1>2, <3>1, <5>2 DEF Places, n
        <5>4. at[k] \in Nat /\ at[n + 1] \in Nat
          BY <1>2, <3>1, <5>2 DEF Places, n
        <5> QED
          BY <5>1, <5>3, <5>4
      <4>3. at[n + 1] = Len(w) + 1
        BY <1>2 DEF n
      <4>4. at2[k] = at[k] /\ at2[l] = Len(w) + 1 + Size(r)
        BY <1>8, <3>1, <4>1
      <4> QED
        BY <1>3, <1>4, <4>2, <4>3, <4>4
    <3> QED
      BY <3>2, <3>3
  <2>5. Len(q2) + 1 = n + 2
    BY <1>6, <1>9
  <2> QED
    BY <1>6, <2>1, <2>2, <2>3, <2>4, <2>5 DEF Places
<1>11. Follows(v, q2, at2)
  <2>1. Len(v) < at2[Len(q2) + 1]
    <3>1. Len(q2) + 1 = n + 2
      BY <1>6, <1>9
    <3> QED
      BY <1>3, <1>4, <1>8, <3>1
  <2>2. ASSUME NEW k \in 1 .. n + 1, NEW i \in 1 .. 4, i <= Size(q2[k]), at2[k] + i - 1 <= Len(v)
        PROVE  v[at2[k] + i - 1] = <<q2[k], i>>
    <3>1. CASE k \in 1 .. n
      <4>1. at2[k] = at[k] /\ q2[k] = q[k] /\ at[k + 1] = at[k] + Size(q[k]) /\ at[k] \in Nat \ {0}
        BY <1>2, <1>6, <1>8, <3>1 DEF Places, n
      <4>2. q[k] \in All
        BY <1>3, <3>1, ElementOfSeq DEF n
      <4>3. Size(q[k]) \in {2, 4}
        BY <4>2, PayloadIs
      <4>4. at[k + 1] <= Len(w) + 1 /\ at[k + 1] \in Nat
        <5>1. k + 1 \in 1 .. n + 1 /\ n + 1 \in 1 .. n + 1 /\ (k + 1 = n + 1 \/ k + 1 < n + 1)
          BY <1>9, <3>1
        <5>2. at[k + 1] \in Nat /\ at[n + 1] \in Nat /\ at[n + 1] = Len(w) + 1
          BY <1>2, <5>1 DEF Places, n
        <5>3. k + 1 < n + 1 => at[k + 1] < at[n + 1]
          BY <1>2, <5>1 DEF Places, n
        <5> QED
          BY <5>1, <5>2, <5>3
      <4>5. at[k] + i - 1 \in 1 .. Len(w) /\ at[k] + i - 1 \in 1 .. Len(v)
        <5>1. i <= Size(q[k]) /\ at[k] + i - 1 <= Len(v)
          BY <2>2, <4>1
        <5>2. at[k] + Size(q[k]) <= Len(w) + 1 /\ at[k] \in Nat \ {0}
          BY <4>1, <4>4
        <5>3. Size(q[k]) \in Nat /\ Len(w) \in Nat /\ Len(v) \in Nat /\ i \in Nat \ {0}
          BY <1>3, <4>3
        <5>4. at[k] + i - 1 >= 1 /\ at[k] + i - 1 <= Len(w)
          BY <5>1, <5>2, <5>3
        <5> QED
          BY <5>1, <5>2, <5>3, <5>4
      <4>6. w[at[k] + i - 1] = <<q[k], i>>
        <5>1. k \in 1 .. Len(q) /\ i <= Size(q[k]) /\ at[k] + i - 1 <= Len(w)
          BY <2>2, <3>1, <4>1, <4>5 DEF n
        <5> QED
          BY <1>2, <5>1 DEF Follows
      <4>7. v[at[k] + i - 1] = z[at[k] + i - 1]
        BY <4>5 DEF z, f
      <4> QED
        BY <1>5, <4>1, <4>5, <4>6, <4>7
    <3>2. CASE k \notin 1 .. n
      <4>1. k = n + 1
        BY <1>9, <3>2
      <4>2. at2[k] = Len(w) + 1 /\ q2[k] = r
        BY <1>6, <1>9, <4>1
      <4>3. at2[k] + i - 1 = Len(w) + i /\ Len(w) + i \in 1 .. Len(v) /\ i \in 1 .. Size(r)
        BY <1>3, <1>4, <2>2, <4>2
      <4>4. v[Len(w) + i] = z[Len(w) + i]
        BY <4>3 DEF z, f
      <4>5. z[Len(w) + i] = <<r, i>>
        BY <1>4, <1>5, <4>3 DEF f
      <4> QED
        BY <4>2, <4>3, <4>4, <4>5
    <3> QED
      BY <3>1, <3>2
  <2>3. ASSUME NEW p \in 1 .. Len(v)
        PROVE  \E k \in 1 .. n + 1, i \in 1 .. 4 : i <= Size(q2[k]) /\ p = at2[k] + i - 1
    <3>1. CASE p \in 1 .. Len(w)
      <4>1. PICK k \in 1 .. n, i \in 1 .. 4 : i <= Size(q[k]) /\ p = at[k] + i - 1
        BY <1>2, <3>1 DEF Follows, n
      <4>2. k \in 1 .. n + 1 /\ at2[k] = at[k] /\ q2[k] = q[k]
        BY <1>6, <1>8, <1>9
      <4> QED
        BY <4>1, <4>2
    <3>2. CASE p \notin 1 .. Len(w)
      <4> DEFINE i == p - Len(w)
      <4>1. i \in 1 .. Size(r) /\ i \in 1 .. 4 /\ p = (Len(w) + 1) + i - 1
        <5>1. p \in Nat /\ p <= Len(v) /\ p > Len(w)
          BY <1>3, <3>2
        <5>2. Len(v) <= Len(w) + Size(r) /\ Len(w) \in Nat /\ Len(v) \in Nat /\ Size(r) \in {2, 4}
          BY <1>3, <1>4
        <5>3. i \in 1 .. Size(r)
          BY <5>1, <5>2
        <5>4. p = (Len(w) + 1) + i - 1
          BY <5>1, <5>2
        <5> HIDE DEF i
        <5>5. i \in 1 .. 4
          BY <5>2, <5>3
        <5> QED
          BY <5>3, <5>4, <5>5
      <4>2. n + 1 \in 1 .. n + 1 /\ at2[n + 1] = Len(w) + 1 /\ q2[n + 1] = r
        BY <1>6, <1>9
      <4> HIDE DEF i
      <4>3. i <= Size(q2[n + 1]) /\ p = at2[n + 1] + i - 1
        BY <1>4, <4>1, <4>2
      <4> QED
        BY <4>1, <4>2, <4>3
    <3> QED
      BY <3>1, <3>2
  <2> QED
    BY <1>6, <2>1, <2>2, <2>3 DEF Follows
<1>12. q2[1] = FileHeader /\ \A i \in 1 .. Len(s) : q2[i + 1] = s[i]
  <2>1. q2[1] = FileHeader
    BY <1>2, <1>6, <1>9
  <2>2. ASSUME NEW i \in 1 .. Len(s) PROVE q2[i + 1] = s[i]
    <3>1. i + 1 \in 1 .. n
      BY <1>3, <1>9
    <3> QED
      BY <1>2, <1>6, <3>1
  <2> QED
    BY <2>1, <2>2
<1>13. \A i \in 1 .. Len(s2) : q2[i + 1] = s2[i]
  <2> SUFFICES ASSUME NEW i \in 1 .. Len(s2) PROVE q2[i + 1] = s2[i]
    OBVIOUS
  <2>1. CASE i \in 1 .. Len(s)
    BY <1>7, <1>12, <2>1
  <2>2. CASE i \notin 1 .. Len(s)
    <3>1. i = Len(s) + 1 /\ i + 1 = n + 1
      BY <1>3, <1>7, <1>9, <2>2
    <3> QED
      BY <1>6, <1>7, <3>1
  <2> QED
    BY <2>1, <2>2
<1>14. at2[Len(q2) + 1] = Len(w) + 1 + Size(r)
  <2>1. Len(q2) + 1 = n + 2
    BY <1>6, <1>9
  <2> QED
    BY <1>8, <2>1
<1>15. Len(q2) = Len(s2) + 1 /\ Len(q2) = Len(s) + 2
  BY <1>3, <1>6, <1>7, <1>9
<1>16. WrittenAs(v, s2, q2, at2)
  BY <1>10, <1>11, <1>12, <1>13, <1>15 DEF WrittenAs
<1>17. Written(v, s2)
  BY <1>6, <1>16 DEF Written
<1>18. ASSUME Len(v) < Len(w) + Size(r) PROVE Written(v, s)
  <2>1. Len(v) + 1 < at2[Len(q2) + 1]
    BY <1>3, <1>4, <1>14, <1>18
  <2>2. WrittenAs(v, s, q2, at2)
    BY <1>10, <1>11, <1>12, <1>15, <2>1 DEF WrittenAs
  <2> QED
    BY <1>6, <2>2 DEF Written
<1>19. ASSUME Len(v) = Len(w) + Size(r) PROVE Whole(v, s2)
  <2>1. at2[Len(q2) + 1] = Len(v) + 1
    BY <1>3, <1>4, <1>14, <1>19
  <2>2. WholeAs(v, s2, q2, at2)
    BY <1>15, <1>16, <2>1 DEF WholeAs
  <2> QED
    BY <1>6, <2>2 DEF Whole
<1> QED
  BY <1>17, <1>18, <1>19 DEF s2

-----------------------------------------------------------------------------
(* What fwrite() and fflush() do to the file.                              *)

\* Of what is in the buffer b and the units x added to it, n units are handed
\* over to the file d, and the others stay.
GivenOver(d, b, x, n) == d \o SubSeq(b \o x, 1, n)
KeptBack(b, x, n) == SubSeq(b \o x, n + 1, Len(b \o x))
Content(d, b, x) == (d \o b) \o x

LEMMA HandedOver ==
    ASSUME NEW d \in Seq(Units), NEW b \in Seq(Units), NEW x \in Seq(Units),
           NEW n \in 0 .. Len(b) + Len(x)
    PROVE  /\ GivenOver(d, b, x, n) \in Seq(Units) /\ Len(GivenOver(d, b, x, n)) = Len(d) + n
           /\ KeptBack(b, x, n) \in Seq(Units) /\ Len(KeptBack(b, x, n)) = Len(b) + Len(x) - n
           /\ Len(b \o x) = Len(b) + Len(x)
           /\ GivenOver(d, b, x, n) \o KeptBack(b, x, n) = Content(d, b, x)
           /\ \A i \in 1 .. Len(d) + n : GivenOver(d, b, x, n)[i] = Content(d, b, x)[i]
           /\ \A i \in 1 .. Len(d) : GivenOver(d, b, x, n)[i] = d[i]
<1> DEFINE y == b \o x
           p == SubSeq(y, 1, n)
           h == GivenOver(d, b, x, n)
           k == KeptBack(b, x, n)
<1>1. /\ y \in Seq(Units) /\ Len(y) = Len(b) + Len(x)
      /\ Len(b) \in Nat /\ Len(x) \in Nat /\ Len(d) \in Nat
  BY ConcatProperties, LenProperties
<1>2. Content(d, b, x) = d \o y
  BY ConcatAssociative DEF Content
<1>3. h = d \o p /\ k = SubSeq(y, n + 1, Len(y))
  BY DEF GivenOver, KeptBack
<1>4. Len(b \o x) = Len(b) + Len(x)
  BY <1>1
<1> HIDE DEF y, h, k
<1>5. \A i \in 1 .. Len(y) : y[i] \in Units
  BY <1>1, ElementOfSeq
<1>6. p \in Seq(Units) /\ Len(p) = n
  <2>1. \A i \in 1 .. n : y[i] \in Units
    BY <1>1, <1>5
  <2>2. p \in Seq(Units) /\ Len(p) = IF 1 <= n THEN n - 1 + 1 ELSE 0
    BY <2>1, SubSeqProperties
  <2> QED
    BY <2>2
<1>7. k \in Seq(Units) /\ Len(k) = Len(y) - n
  <2>1. \A i \in n + 1 .. Len(y) : y[i] \in Units
    BY <1>1, <1>5
  <2>2. n + 1 \in Int /\ Len(y) \in Int
    BY <1>1
  <2>3. /\ SubSeq(y, n + 1, Len(y)) \in Seq(Units)
        /\ Len(SubSeq(y, n + 1, Len(y))) = IF n + 1 <= Len(y) THEN Len(y) - (n + 1) + 1 ELSE 0
    BY <2>1, <2>2, SubSeqProperties
  <2> QED
    BY <1>1, <1>3, <2>3
<1>8. p \o k = y
  <2>1. 1 \in 1 .. Len(y) + 1 /\ n \in 1 - 1 .. Len(y) /\ Len(y) \in n .. Len(y)
    BY <1>1
  <2>2. SubSeq(y, 1, n) \o SubSeq(y, n + 1, Len(y)) = SubSeq(y, 1, Len(y))
    BY <1>1, <2>1, ConcatAdjacentSubSeq
  <2>3. SubSeq(y, 1, Len(y)) = y
    BY <1>1, SubSeqFull
  <2> QED
    BY <1>3, <2>2, <2>3
<1> HIDE DEF p
<1>9. /\ h \in Seq(Units) /\ Len(h) = Len(d) + Len(p)
      /\ \A i \in 1 .. Len(d) : h[i] = d[i]
  <2>1. /\ d \o p \in Seq(Units) /\ Len(d \o p) = Len(d) + Len(p)
        /\ \A i \in 1 .. Len(d) : (d \o p)[i] = d[i]
    <3>1. d \in Seq(Units) /\ p \in Seq(Units)
      BY <1>6
    <3> QED
      BY <3>1, Joined
  <2>2. h = d \o p
    BY <1>3
  <2> HIDE DEF h
  <2> QED
    BY <2>1, <2>2, Zenon
<1>10. h \o k = d \o y
  <2>1. (d \o p) \o k = d \o (p \o k)
    <3>1. p \in Seq(Units) /\ k \in Seq(Units)
      BY <1>6, <1>7
    <3>2. d \in Seq(Units)
      BY <1>6
    <3> QED
      BY <3>1, <3>2, ConcatAssociative, SMTT(20)
  <2> QED
    BY <1>3, <1>8, <2>1
<1>11. \A i \in 1 .. Len(h) : (h \o k)[i] = h[i]
  BY <1>7, <1>9, Joined
<1>12. \A i \in 1 .. Len(h) : h[i] = Content(d, b, x)[i]
  BY <1>2, <1>10, <1>11
<1>13. Len(h) = Len(d) + n /\ Len(k) = Len(b) + Len(x) - n
  BY <1>1, <1>6, <1>7, <1>9
<1> QED
  BY <1>2, <1>4, <1>7, <1>9, <1>10, <1>12, <1>13 DEF h, k

\* A part of a file is read no further than the file.
LEMMA PartRead ==
    ASSUME NEW s \in Seq(Record), NEW d \in Seq(Units), Written(d, s), NEW n \in 0 .. Len(d)
    PROVE  /\ SubSeq(d, 1, n) \in Seq(Units) /\ Len(SubSeq(d, 1, n)) = n
           /\ \A i \in 1 .. n : SubSeq(d, 1, n)[i] = d[i]
           /\ Written(SubSeq(d, 1, n), s)
           /\ Len(Read(SubSeq(d, 1, n))) \in 0 .. Len(Read(d))
<1> DEFINE p == SubSeq(d, 1, n)
<1>1. Len(d) \in Nat /\ Len(Read(d)) \in 0 .. Len(s) /\ Len(s) \in Nat
  BY LenProperties, ReadPrefix
<1>2. p \in Seq(Units) /\ Len(p) = n /\ \A i \in 1 .. n : p[i] = d[i]
  <2>1. \A i \in 1 .. n : d[i] \in Units
    BY <1>1, ElementOfSeq
  <2>2. /\ p \in Seq(Units) /\ Len(p) = IF 1 <= n THEN n - 1 + 1 ELSE 0
        /\ \A i \in 1 .. n - 1 + 1 : p[i] = d[1 + i - 1]
    BY <2>1, SubSeqProperties
  <2> HIDE DEF p
  <2>3. n - 1 + 1 = n /\ \A i \in 1 .. n : 1 + i - 1 = i
    BY <1>1
  <2>4. Len(p) = n
    BY <1>1, <2>2
  <2> QED
    BY <2>2, <2>3, <2>4
<1> HIDE DEF p
<1>3. Len(p) <= Len(d) /\ \A i \in 1 .. Len(p) : p[i] = d[i]
  BY <1>1, <1>2
<1>4. Written(p, s) /\ Len(Read(p)) <= Len(Read(d))
  BY <1>2, <1>3, ShorterWritten
<1>5. Len(Read(p)) \in 0 .. Len(s)
  BY <1>2, <1>4, ReadPrefix
<1>6. Len(Read(p)) \in 0 .. Len(Read(d))
  BY <1>1, <1>4, <1>5
<1> QED
  BY <1>2, <1>4, <1>6 DEF p

\* A file that grows is read at least as far, and what is safe stays.
LEMMA Grown ==
    ASSUME NEW s \in Seq(Record), NEW d \in Seq(Units), NEW e \in Seq(Units), Written(e, s),
           Len(d) <= Len(e), \A i \in 1 .. Len(d) : e[i] = d[i], NEW n \in 0 .. Len(d)
    PROVE  /\ Len(Read(d)) <= Len(Read(e))
           /\ SubSeq(e, 1, n) = SubSeq(d, 1, n)
<1>1. Len(Read(d)) <= Len(Read(e))
  <2>1. \A i \in 1 .. Len(d) : d[i] = e[i]
    OBVIOUS
  <2> QED
    BY <2>1, ShorterWritten
<1>2. Len(d) \in Nat /\ Len(e) \in Nat
  BY LenProperties
<1> DEFINE p == SubSeq(d, 1, n)
<1>3. p \in Seq(Units) /\ Len(p) = n /\ \A i \in 1 .. n : p[i] = d[i]
  <2>1. Written(d, s)
    <3>1. \A i \in 1 .. Len(d) : d[i] = e[i]
      OBVIOUS
    <3> QED
      BY <3>1, ShorterWritten
  <2> QED
    BY <2>1, PartRead
<1> HIDE DEF p
<1>4. SubSeq(e, 1, n) = p
  <2>1. n = 1 + Len(p) - 1 /\ n <= Len(e) /\ n \in Int /\ 1 \in Nat \ {0}
    BY <1>2, <1>3
  <2>2. \A i \in 1 .. Len(p) : e[1 + i - 1] = p[i]
    <3> SUFFICES ASSUME NEW i \in 1 .. Len(p) PROVE e[1 + i - 1] = p[i]
      OBVIOUS
    <3>1. i \in 1 .. n /\ i \in 1 .. Len(d) /\ 1 + i - 1 = i
      BY <1>2, <1>3
    <3> QED
      BY <1>3, <3>1
  <2> QED
    BY <1>3, <2>1, <2>2, PartIs
<1> QED
  BY <1>1, <1>4 DEF p

\* A file that holds nothing but some of the file header.
LEMMA Started ==
    ASSUME NEW n \in 0 .. 2
    PROVE  /\ SubSeq(HeaderUnits(FileHeader), 1, n) \in Seq(Units)
           /\ Len(SubSeq(HeaderUnits(FileHeader), 1, n)) = n
           /\ Written(SubSeq(HeaderUnits(FileHeader), 1, n), << >>)
           /\ Len(Read(SubSeq(HeaderUnits(FileHeader), 1, n))) = 0
           /\ HeaderUnits(FileHeader) \in Seq(Units) /\ Len(HeaderUnits(FileHeader)) = 2
           /\ Whole(HeaderUnits(FileHeader), << >>)
<1> DEFINE h == HeaderUnits(FileHeader)
           q == <<FileHeader>>
           at == <<1, 3>>
           u == SubSeq(h, 1, n)
<1>1. FileHeader \in All /\ Size(FileHeader) = 2
  BY DEF All, FileHeader, Size
<1>2. h \in Seq(Units) /\ Len(h) = 2 /\ \A i \in 1 .. 2 : h[i] = <<FileHeader, i>>
  BY <1>1, HeaderIs
<1> HIDE DEF h
<1>3. u \in Seq(Units) /\ Len(u) = n /\ \A i \in 1 .. Len(u) : u[i] = h[i]
  <2>1. \A i \in 1 .. n : h[i] \in Units
    BY <1>2, ElementOfSeq
  <2>2. /\ u \in Seq(Units) /\ Len(u) = IF 1 <= n THEN n - 1 + 1 ELSE 0
        /\ \A i \in 1 .. n - 1 + 1 : u[i] = h[1 + i - 1]
    BY <2>1, SubSeqProperties
  <2> HIDE DEF u
  <2>3. n - 1 + 1 = n /\ \A i \in 1 .. n : 1 + i - 1 = i
    OBVIOUS
  <2> QED
    BY <2>2, <2>3
<1> HIDE DEF u
<1>4. q \in Seq(All) /\ Len(q) = 1 /\ q[1] = FileHeader
  BY <1>1
<1>5. at \in [1 .. 2 -> Nat \ {0}] /\ at[1] = 1 /\ at[2] = 3
  OBVIOUS
<1> HIDE DEF q, at
<1>6. Places(q, at)
  BY <1>1, <1>4, <1>5 DEF Places
<1>7. Follows(h, q, at)
  <2>1. ASSUME NEW k \in 1 .. 1, NEW i \in 1 .. 4, i <= 2, at[k] + i - 1 <= 2
        PROVE  h[at[k] + i - 1] = <<q[k], i>>
    <3>1. k = 1 /\ at[k] + i - 1 = i /\ i \in 1 .. 2
      BY <1>5, <2>1
    <3> QED
      BY <1>2, <1>4, <3>1
  <2>2. ASSUME NEW p \in 1 .. 2
        PROVE  \E k \in 1 .. 1, i \in 1 .. 4 : i <= 2 /\ p = at[k] + i - 1
    <3>1. p \in 1 .. 4 /\ p <= 2 /\ p = at[1] + p - 1 /\ 1 \in 1 .. 1
      BY <1>5
    <3> QED
      BY <3>1
  <2>3. \A k \in 1 .. 1 : Size(q[k]) = 2
    BY <1>1, <1>4
  <2>4. Len(h) < at[Len(q) + 1]
    BY <1>2, <1>4, <1>5
  <2> QED
    BY <1>2, <1>4, <2>1, <2>2, <2>3, <2>4 DEF Follows
<1>8. Len(<< >>) = 0 /\ << >> \in Seq(Record)
  OBVIOUS
<1>9. WholeAs(h, << >>, q, at)
  BY <1>2, <1>4, <1>5, <1>6, <1>7, <1>8 DEF WholeAs, WrittenAs
<1>10. Whole(h, << >>)
  BY <1>4, <1>9 DEF Whole
<1>11. Written(h, << >>)
  BY <1>2, <1>8, <1>10, ReadAll
<1>12. Written(u, << >>)
  <2>1. Len(u) <= Len(h)
    BY <1>2, <1>3
  <2>2. << >> \in Seq(Record)
    OBVIOUS
  <2> QED
    BY <1>2, <1>3, <1>11, <2>1, <2>2, ShorterWritten
<1>13. Len(Read(u)) = 0
  <2>1. Len(Read(u)) \in 0 .. Len(<< >>)
    BY <1>3, <1>8, <1>12, ReadPrefix
  <2> QED
    BY <1>8, <2>1
<1> QED
  BY <1>2, <1>3, <1>10, <1>12, <1>13 DEF u, h

-----------------------------------------------------------------------------
(* The inductive invariant.                                                *)

\* What the kernel and the buffer hold is written as log says, and whole as
\* long as the file is open and nothing has been lost.
IInv ==
    /\ TypeOK
    /\ capacity \in Nat
    /\ disk \in Seq(Units) /\ buffer \in Seq(Units)
    /\ Written(disk \o buffer, log)
    /\ file = "open" /\ (~failed \/ buffer # << >>) => Whole(disk \o buffer, log)

LEMMA InitInv == Init => IInv
<1> SUFFICES ASSUME Init PROVE IInv
  OBVIOUS
<1>1. capacity \in Nat
  BY CaptureWriterAssumption DEF Init
<1>2. disk = << >> /\ buffer = << >> /\ log = << >> /\ synced = 0 /\ file = "none" /\ failed = FALSE
  BY DEF Init
<1>3. Written(<< >>, << >>)
  <2>1. SubSeq(HeaderUnits(FileHeader), 1, 0) = << >>
    BY SubSeqEmpty
  <2>2. Written(SubSeq(HeaderUnits(FileHeader), 1, 0), << >>)
    <3>1. 0 \in 0 .. 2
      OBVIOUS
    <3> QED
      BY <3>1, Started
  <2> QED
    BY <2>1, <2>2
<1>4. << >> \o << >> = << >>
  OBVIOUS
<1>5. TypeOK
  <2>1. << >> \in Seq(Record) /\ Len(<< >>) = 0
    OBVIOUS
  <2>2. synced \in 0 .. Len(disk) /\ Len(buffer) <= capacity /\ log \in Seq(Record)
    BY <1>1, <1>2, <2>1
  <2> QED
    BY <1>2, <2>2 DEF TypeOK
<1> QED
  BY <1>1, <1>2, <1>3, <1>4, <1>5 DEF IInv

\* What a reader gets now, and what is safe.
LEMMA ReadNow ==
    ASSUME IInv
    PROVE  /\ Len(disk) \in Nat /\ Len(buffer) \in Nat /\ log \in Seq(Record) /\ Len(log) \in Nat
           /\ disk \o buffer \in Seq(Units) /\ Len(disk \o buffer) = Len(disk) + Len(buffer)
           /\ \A i \in 1 .. Len(disk) : (disk \o buffer)[i] = disk[i]
           /\ synced \in 0 .. Len(disk)
           /\ Written(disk, log)
           /\ Len(Read(disk)) \in 0 .. Len(log)
           /\ Len(Read(SubSeq(disk, 1, synced))) \in 0 .. Len(Read(disk))
<1>1. /\ Len(disk) \in Nat /\ Len(buffer) \in Nat /\ log \in Seq(Record) /\ Len(log) \in Nat
      /\ synced \in 0 .. Len(disk) /\ disk \in Seq(Units) /\ buffer \in Seq(Units)
  BY LenProperties DEF IInv, TypeOK
<1>2. /\ disk \o buffer \in Seq(Units) /\ Len(disk \o buffer) = Len(disk) + Len(buffer)
      /\ \A i \in 1 .. Len(disk) : (disk \o buffer)[i] = disk[i]
  BY <1>1, Joined
<1>3. Written(disk, log)
  <2>1. Written(disk \o buffer, log) /\ Len(disk) <= Len(disk \o buffer)
        /\ \A i \in 1 .. Len(disk) : disk[i] = (disk \o buffer)[i]
    BY <1>1, <1>2 DEF IInv
  <2> QED
    BY <1>1, <1>2, <2>1, ShorterWritten
<1>4. Len(Read(disk)) \in 0 .. Len(log)
  BY <1>1, <1>3, ReadPrefix
<1>5. Len(Read(SubSeq(disk, 1, synced))) \in 0 .. Len(Read(disk))
  BY <1>1, <1>3, PartRead
<1> QED
  BY <1>1, <1>2, <1>3, <1>4, <1>5

-----------------------------------------------------------------------------
(* Every operation keeps the invariant and is one of CaptureLog.           *)

LEMMA OpenStep ==
    ASSUME IInv, Open
    PROVE  IInv' /\ Log!LogOpen
<1>1. PICK n \in 0 .. 2 :
          /\ 2 - n <= capacity
          /\ disk' = SubSeq(HeaderUnits(FileHeader), 1, n)
          /\ buffer' = SubSeq(HeaderUnits(FileHeader), n + 1, 2)
  BY DEF Open
<1>2. /\ file # "open" /\ file' = "open" /\ failed' = FALSE
      /\ synced' = 0 /\ log' = << >> /\ capacity' = capacity /\ capacity \in Nat
  BY DEF Open, IInv
<1> DEFINE h == HeaderUnits(FileHeader)
<1>3. h \in Seq(Units) /\ Len(h) = 2 /\ Whole(h, << >>)
  BY Started
<1>4. disk' \in Seq(Units) /\ Len(disk') = n /\ Len(Read(disk')) = 0
  BY <1>1, Started
<1>5. buffer' \in Seq(Units) /\ Len(buffer') = 2 - n
  <2>1. \A i \in n + 1 .. 2 : h[i] \in Units
    BY <1>3, ElementOfSeq
  <2>2. /\ SubSeq(h, n + 1, 2) \in Seq(Units)
        /\ Len(SubSeq(h, n + 1, 2)) = IF n + 1 <= 2 THEN 2 - (n + 1) + 1 ELSE 0
    BY <2>1, SubSeqProperties
  <2> QED
    BY <1>1, <2>2
<1>6. disk' \o buffer' = h
  <2> HIDE DEF h
  <2>1. 1 \in 1 .. Len(h) + 1 /\ n \in 1 - 1 .. Len(h) /\ Len(h) \in n .. Len(h)
    BY <1>3
  <2>2. SubSeq(h, 1, n) \o SubSeq(h, n + 1, Len(h)) = SubSeq(h, 1, Len(h))
    BY <1>3, <2>1, ConcatAdjacentSubSeq
  <2>3. SubSeq(h, 1, Len(h)) = h
    BY <1>3, SubSeqFull
  <2> QED
    BY <1>1, <1>3, <2>2, <2>3 DEF h
<1> HIDE DEF h
<1>7. Whole(disk' \o buffer', log')
  BY <1>2, <1>3, <1>6
<1>8. << >> \in Seq(Record)
  OBVIOUS
<1>9. Written(disk' \o buffer', log')
  BY <1>2, <1>3, <1>6, <1>8, ReadAll
<1>10. TypeOK'
  <2>1. synced' \in 0 .. Len(disk')
    BY <1>2, <1>4
  <2>2. Len(buffer') <= capacity'
    BY <1>1, <1>2, <1>5
  <2> QED
    BY <1>2, <1>8, <2>1, <2>2 DEF TypeOK
<1>11. IInv'
  BY <1>2, <1>4, <1>5, <1>7, <1>9, <1>10 DEF IInv
<1>12. Len(Read(SubSeq(disk', 1, synced'))) = 0
  <2>1. SubSeq(disk', 1, 0) = << >>
    BY SubSeqEmpty
  <2>2. SubSeq(HeaderUnits(FileHeader), 1, 0) = << >>
    BY SubSeqEmpty
  <2>3. Len(Read(SubSeq(HeaderUnits(FileHeader), 1, 0))) = 0
    <3>1. 0 \in 0 .. 2
      OBVIOUS
    <3> QED
      BY <3>1, Started
  <2> QED
    BY <1>2, <2>1, <2>2, <2>3
<1>13. Log!LogOpen
  BY <1>2, <1>4, <1>12 DEF Log!LogOpen
<1> QED
  BY <1>11, <1>13

LEMMA OpenFailsStep ==
    ASSUME IInv, OpenFails
    PROVE  IInv' /\ Log!LogOpenFails
<1>1. /\ file # "open" /\ file' = "none" /\ failed' = TRUE /\ buffer' = << >>
      /\ capacity' = capacity /\ capacity \in Nat
  BY DEF OpenFails, IInv
<1>2. CASE UNCHANGED <<disk, synced, log>>
  <2>1. buffer' = buffer
    BY <1>1 DEF IInv, TypeOK
  <2>2. IInv'
    BY <1>1, <1>2, <2>1 DEF IInv, TypeOK
  <2>3. Log!LogOpenFails
    BY <1>1, <1>2 DEF Log!LogOpenFails
  <2> QED
    BY <2>2, <2>3
<1>3. ASSUME NEW n \in 0 .. 1, disk' = SubSeq(HeaderUnits(FileHeader), 1, n), synced' = 0, log' = << >>
      PROVE  IInv' /\ Log!LogOpenFails
  <2>1. n \in 0 .. 2
    OBVIOUS
  <2>2. disk' \in Seq(Units) /\ Len(disk') = n /\ Written(disk', << >>) /\ Len(Read(disk')) = 0
    BY <1>3, <2>1, Started
  <2>3. << >> \in Seq(Units) /\ << >> \in Seq(Record) /\ Len(<< >>) = 0
    OBVIOUS
  <2>4. disk' \o buffer' = disk'
    BY <1>1, <2>2, ConcatEmptySeq
  <2>5. TypeOK'
    <3>1. synced' \in 0 .. Len(disk') /\ Len(buffer') <= capacity'
      BY <1>1, <1>3, <2>2, <2>3
    <3> QED
      BY <1>1, <1>3, <2>3, <3>1 DEF TypeOK
  <2>6. IInv'
    BY <1>1, <1>3, <2>2, <2>3, <2>4, <2>5 DEF IInv
  <2>7. Len(Read(SubSeq(disk', 1, synced'))) = 0
    <3>1. SubSeq(disk', 1, 0) = << >>
      BY SubSeqEmpty
    <3>2. SubSeq(HeaderUnits(FileHeader), 1, 0) = << >>
      BY SubSeqEmpty
    <3>3. Len(Read(SubSeq(HeaderUnits(FileHeader), 1, 0))) = 0
      <4>1. 0 \in 0 .. 2
        OBVIOUS
      <4> QED
        BY <4>1, Started
    <3> QED
      BY <1>3, <3>1, <3>2, <3>3
  <2>8. Log!LogOpenFails
    BY <1>1, <1>3, <2>2, <2>7 DEF Log!LogOpenFails
  <2> QED
    BY <2>6, <2>8
<1> QED
  BY <1>2, <1>3 DEF OpenFails

LEMMA OpenAgainStep ==
    ASSUME IInv, OpenAgain
    PROVE  IInv' /\ Log!LogOpenAgain
<1>1. /\ file = "open" /\ failed' = TRUE
      /\ UNCHANGED <<capacity, file, buffer, disk, synced, log>>
  BY DEF OpenAgain
<1>2. IInv'
  <2>1. file = "open" /\ (failed' = FALSE \/ buffer # << >>) => Whole(disk \o buffer, log)
    BY <1>1 DEF IInv, TypeOK
  <2> QED
    BY <1>1, <2>1 DEF IInv, TypeOK
<1>3. Log!LogOpenAgain
  BY <1>1 DEF Log!LogOpenAgain
<1> QED
  BY <1>2, <1>3

\* fwrite() of a record, or of its header only.
LEMMA Adding ==
    ASSUME IInv, Whole(disk \o buffer, log), NEW r \in Record,
           NEW x, x = HeaderUnits(r) \/ x = Full(r),
           NEW n \in 0 .. Len(Pending(x)), disk' = Handed(x, n)
    PROVE  /\ disk' \in Seq(Units) /\ Len(disk) <= Len(disk')
           /\ \A i \in 1 .. Len(disk) : disk'[i] = disk[i]
           /\ Rest(x, n) \in Seq(Units) /\ Len(Rest(x, n)) = Len(Pending(x)) - n
           /\ Written(disk', Append(log, r))
           /\ n < Len(Pending(x)) => Written(disk', log)
           /\ x = Full(r) => Whole(disk' \o Rest(x, n), Append(log, r))
<1> DEFINE w == disk \o buffer
           f == Full(r)
<1>1. /\ Len(disk) \in Nat /\ Len(buffer) \in Nat /\ log \in Seq(Record)
      /\ w \in Seq(Units) /\ Len(w) = Len(disk) + Len(buffer)
      /\ disk \in Seq(Units) /\ buffer \in Seq(Units)
  BY ReadNow DEF IInv
<1>2. r \in All
  BY DEF All
<1>3. f \in Seq(Units) /\ Len(f) = Size(r) /\ Size(r) \in {2, 4} /\ \A i \in 1 .. Size(r) : f[i] = <<r, i>>
  BY <1>2, FullIs, PayloadIs
<1>4. x \in Seq(Units) /\ Len(x) \in Nat /\ Len(x) <= Size(r) /\ \A i \in 1 .. Len(x) : x[i] = f[i]
  <2>1. CASE x = HeaderUnits(r)
    <3>1. x \in Seq(Units) /\ Len(x) = 2 /\ \A i \in 1 .. 2 : x[i] = <<r, i>>
      BY <1>2, <2>1, HeaderIs
    <3>2. 2 <= Size(r) /\ \A i \in 1 .. 2 : i \in 1 .. Size(r)
      BY <1>3
    <3> HIDE DEF f
    <3>3. \A i \in 1 .. 2 : f[i] = <<r, i>>
      BY <1>3, <3>2
    <3>4. \A i \in 1 .. Len(x) : x[i] = f[i]
      BY <3>1, <3>3
    <3> QED
      BY <3>1, <3>2, <3>4
  <2>2. CASE x = Full(r)
    BY <1>3, <2>2
  <2> QED
    BY <2>1, <2>2
<1> HIDE DEF w, f
<1> DEFINE k == Rest(x, n)
<1>5. disk' = GivenOver(disk, buffer, x, n) /\ k = KeptBack(buffer, x, n)
  BY Zenon DEF Handed, Rest, Pending, GivenOver, KeptBack
<1>6. Len(Pending(x)) = Len(buffer) + Len(x)
  BY <1>1, <1>4, ConcatProperties DEF Pending
<1>7. n \in 0 .. Len(buffer) + Len(x)
  BY <1>6
<1> HIDE DEF k
<1>8. /\ disk' \in Seq(Units) /\ Len(disk') = Len(disk) + n
      /\ k \in Seq(Units) /\ Len(k) = Len(buffer) + Len(x) - n
      /\ disk' \o k = w \o x
      /\ \A i \in 1 .. Len(disk') : disk'[i] = (w \o x)[i]
      /\ \A i \in 1 .. Len(disk) : disk'[i] = disk[i]
  <2>1. disk \in Seq(Units) /\ buffer \in Seq(Units) /\ x \in Seq(Units)
    BY <1>1, <1>4
  <2>2. /\ disk' \in Seq(Units) /\ Len(disk') = Len(disk) + n
        /\ k \in Seq(Units) /\ Len(k) = Len(buffer) + Len(x) - n
        /\ disk' \o k = Content(disk, buffer, x)
        /\ \A i \in 1 .. Len(disk') : disk'[i] = Content(disk, buffer, x)[i]
        /\ \A i \in 1 .. Len(disk) : disk'[i] = disk[i]
    <3>1. n \in 0 .. Len(buffer) + Len(x)
      BY <1>7
    <3>2. /\ GivenOver(disk, buffer, x, n) \in Seq(Units)
          /\ Len(GivenOver(disk, buffer, x, n)) = Len(disk) + n
      BY <2>1, <3>1, HandedOver
    <3>3. /\ KeptBack(buffer, x, n) \in Seq(Units)
          /\ Len(KeptBack(buffer, x, n)) = Len(buffer) + Len(x) - n
      BY <2>1, <3>1, HandedOver
    <3>4. GivenOver(disk, buffer, x, n) \o KeptBack(buffer, x, n) = Content(disk, buffer, x)
      BY <2>1, <3>1, HandedOver
    <3>5. \A i \in 1 .. Len(disk) + n :
             GivenOver(disk, buffer, x, n)[i] = Content(disk, buffer, x)[i]
      BY <2>1, <3>1, HandedOver
    <3>6. \A i \in 1 .. Len(disk) : GivenOver(disk, buffer, x, n)[i] = disk[i]
      BY <2>1, <3>1, HandedOver
    <3> QED
      BY <1>5, <3>2, <3>3, <3>4, <3>5, <3>6
  <2> QED
    BY <2>2, Zenon DEF w, Content
<1>9. /\ w \o x \in Seq(Units) /\ Len(w \o x) = Len(w) + Len(x)
      /\ \A i \in 1 .. Len(w) : (w \o x)[i] = w[i]
      /\ \A i \in 1 .. Len(x) : (w \o x)[Len(w) + i] = x[i]
  <2>1. w \in Seq(Units) /\ x \in Seq(Units)
    BY <1>1, <1>4
  <2> QED
    BY <2>1, Joined
<1>10. /\ \A i \in 1 .. Len(w) : (w \o f)[i] = w[i]
       /\ \A i \in 1 .. Len(f) : (w \o f)[Len(w) + i] = f[i]
  <2>1. w \in Seq(Units) /\ f \in Seq(Units)
    BY <1>1, <1>3
  <2> QED
    BY <2>1, Joined
<1>11. Len(w) \in Nat /\ Len(disk') <= Len(w) + Len(x)
  BY <1>1, <1>4, <1>7, <1>8
<1>12. \A i \in 1 .. Len(w) + Len(x) : (w \o x)[i] = (w \o f)[i]
  <2> SUFFICES ASSUME NEW i \in 1 .. Len(w) + Len(x) PROVE (w \o x)[i] = (w \o f)[i]
    OBVIOUS
  <2>1. CASE i \in 1 .. Len(w)
    BY <1>9, <1>10, <2>1
  <2>2. CASE i \notin 1 .. Len(w)
    <3> DEFINE j == i - Len(w)
    <3>1. j \in 1 .. Len(x) /\ i = Len(w) + j /\ j \in 1 .. Len(f)
      BY <1>3, <1>4, <1>11, <2>2
    <3> HIDE DEF j
    <3>2. (w \o x)[Len(w) + j] = x[j] /\ (w \o f)[Len(w) + j] = f[j] /\ x[j] = f[j]
      BY <1>4, <1>9, <1>10, <3>1
    <3> QED
      BY <3>1, <3>2
  <2> QED
    BY <2>1, <2>2
<1>13. \A i \in 1 .. Len(disk') : disk'[i] = (w \o f)[i]
  <2> SUFFICES ASSUME NEW i \in 1 .. Len(disk') PROVE disk'[i] = (w \o f)[i]
    OBVIOUS
  <2>1. i \in 1 .. Len(w) + Len(x)
    <3>1. Len(disk') \in Nat
      BY <1>8, LenProperties
    <3> QED
      BY <1>4, <1>11, <3>1
  <2> QED
    BY <1>8, <1>12, <2>1
<1>14. Len(disk') <= Len(w) + Size(r)
  BY <1>1, <1>3, <1>4, <1>8, <1>11, <1>7
<1>15. Whole(w, log)
  BY DEF w
<1>16. /\ Written(disk', Append(log, r))
       /\ Len(disk') < Len(w) + Size(r) => Written(disk', log)
  BY <1>1, <1>8, <1>13, <1>14, <1>15, LongerWritten DEF f
<1>17. n < Len(Pending(x)) => Len(disk') < Len(w) + Size(r)
  BY <1>1, <1>3, <1>4, <1>6, <1>7, <1>8
<1>18. ASSUME x = Full(r) PROVE Whole(disk' \o k, Append(log, r))
  <2>1. w \o x = w \o f /\ Len(x) = Size(r)
    BY <1>3, <1>18 DEF f
  <2>2. w \o x \in Seq(Units) /\ Len(w \o x) = Len(w) + Size(r)
    BY <1>9, <2>1
  <2>3. Len(w \o x) <= Len(w) + Size(r)
    BY <1>3, <1>11, <2>2
  <2>4. \A i \in 1 .. Len(w \o x) : (w \o x)[i] = (w \o Full(r))[i]
    BY <2>1 DEF f
  <2>5. Whole(w \o x, Append(log, r))
    BY <1>1, <1>15, <2>2, <2>3, <2>4, LongerWritten
  <2> QED
    BY <1>8, <2>5
<1>19. Len(disk) <= Len(disk') /\ Len(k) = Len(Pending(x)) - n
  BY <1>1, <1>6, <1>7, <1>8
<1> QED
  BY <1>8, <1>16, <1>17, <1>18, <1>19 DEF k

LEMMA WriteStep ==
    ASSUME IInv, NEW r \in Record, WriteRecord(r)
    PROVE  IInv' /\ Log!LogWrite(r)
<1> DEFINE f == Full(r)
<1>1. /\ file = "open" /\ failed = FALSE
      /\ log' = Append(log, r) /\ UNCHANGED <<capacity, file, failed, synced>>
  BY DEF WriteRecord, Accepts, IInv, TypeOK
<1>2. Fwrite(f)
  BY DEF WriteRecord, Full
<1>3. PICK n \in 0 .. Len(Pending(f)) :
          /\ Len(Pending(f)) - n <= capacity
          /\ disk' = Handed(f, n)
          /\ buffer' = Rest(f, n)
  BY <1>2 DEF Fwrite
<1>4. Whole(disk \o buffer, log)
  BY <1>1 DEF IInv
<1>5. /\ disk' \in Seq(Units) /\ Len(disk) <= Len(disk')
      /\ \A i \in 1 .. Len(disk) : disk'[i] = disk[i]
      /\ Rest(f, n) \in Seq(Units) /\ Len(Rest(f, n)) = Len(Pending(f)) - n
      /\ Written(disk', Append(log, r))
      /\ Whole(disk' \o Rest(f, n), Append(log, r))
  BY <1>3, <1>4, Adding
<1>6. /\ log \in Seq(Record) /\ Len(log) \in Nat /\ Len(disk) \in Nat /\ synced \in 0 .. Len(disk)
      /\ capacity \in Nat /\ disk \in Seq(Units)
  BY ReadNow DEF IInv
<1>7. log' \in Seq(Record) /\ Len(log') = Len(log) + 1
  BY <1>1, <1>6, AppendProperties
<1>8. buffer' \in Seq(Units) /\ Len(buffer') <= capacity'
  BY <1>1, <1>3, <1>5
<1>9. synced' \in 0 .. Len(disk')
  <2>1. Len(disk') \in Nat
    BY <1>5, LenProperties
  <2> QED
    BY <1>1, <1>5, <1>6, <2>1
<1>10. Whole(disk' \o buffer', log')
  BY <1>1, <1>3, <1>5
<1>11. Written(disk' \o buffer', log')
  <2>1. disk' \o buffer' \in Seq(Units)
    BY <1>5, <1>8, ConcatProperties
  <2> QED
    BY <1>7, <1>10, <2>1, ReadAll
<1>12. TypeOK'
  BY <1>1, <1>7, <1>8, <1>9 DEF TypeOK
<1>13. IInv'
  BY <1>1, <1>5, <1>6, <1>8, <1>10, <1>11, <1>12 DEF IInv
<1>14. Written(disk', log')
  BY <1>1, <1>5
<1>15. /\ Len(Read(disk)) <= Len(Read(disk'))
       /\ SubSeq(disk', 1, synced) = SubSeq(disk, 1, synced)
  BY <1>5, <1>6, <1>7, <1>14, Grown
<1>16. Len(Read(disk')) \in 0 .. Len(log')
  BY <1>5, <1>7, <1>14, ReadPrefix
<1>17. Len(Read(disk')) \in Len(Read(disk)) .. Len(log) + 1
  <2>1. Len(Read(disk)) \in Nat
    BY ReadNow
  <2> QED
    BY <1>7, <1>15, <1>16, <2>1
<1>18. Log!LogWrite(r)
  BY <1>1, <1>15, <1>17 DEF Log!LogWrite, Log!Accepts
<1> QED
  BY <1>13, <1>18

\* A failed operation that left a beginning of what was to be written.
LEMMA FailedStep ==
    ASSUME IInv, disk' \in Seq(Units), Len(disk) <= Len(disk'),
           \A i \in 1 .. Len(disk) : disk'[i] = disk[i],
           Written(disk', log), log' = log, buffer' = << >>, failed' = TRUE,
           file' \in {"open", "closed"}, capacity' = capacity,
           synced' = synced \/ synced' = Len(disk')
    PROVE  /\ IInv'
           /\ Len(Read(disk')) \in Len(Read(disk)) .. Len(log)
           /\ SubSeq(disk', 1, synced) = SubSeq(disk, 1, synced)
           /\ SubSeq(disk', 1, Len(disk')) = disk'
           /\ Len(Read(SubSeq(disk, 1, synced))) \in 0 .. Len(Read(disk'))
<1>1. /\ log \in Seq(Record) /\ Len(log) \in Nat /\ Len(disk) \in Nat /\ synced \in 0 .. Len(disk)
      /\ capacity \in Nat /\ disk \in Seq(Units) /\ Len(disk') \in Nat
      /\ Len(Read(disk)) \in 0 .. Len(log)
      /\ Len(Read(SubSeq(disk, 1, synced))) \in 0 .. Len(Read(disk))
  BY ReadNow, LenProperties DEF IInv
<1>2. disk' \o buffer' = disk' /\ << >> \in Seq(Units) /\ Len(<< >>) = 0
  <2>1. disk' \o << >> = disk'
    BY ConcatEmptySeq
  <2> QED
    BY <2>1
<1>3. synced' \in 0 .. Len(disk') /\ Len(buffer') <= capacity'
  BY <1>1, <1>2
<1>4. TypeOK'
  BY <1>1, <1>3 DEF TypeOK
<1>5. IInv'
  BY <1>1, <1>2, <1>4 DEF IInv
<1>6. /\ Len(Read(disk)) <= Len(Read(disk'))
      /\ SubSeq(disk', 1, synced) = SubSeq(disk, 1, synced)
  BY <1>1, Grown
<1>7. Len(Read(disk')) \in 0 .. Len(log)
  BY <1>1, ReadPrefix
<1>8. SubSeq(disk', 1, Len(disk')) = disk'
  BY SubSeqFull
<1>9. /\ Len(Read(disk')) \in Len(Read(disk)) .. Len(log)
      /\ Len(Read(SubSeq(disk, 1, synced))) \in 0 .. Len(Read(disk'))
  BY <1>1, <1>6, <1>7
<1> QED
  BY <1>5, <1>6, <1>8, <1>9

LEMMA WriteFailsStep ==
    ASSUME IInv, NEW r \in Record, WriteRecordFails(r)
    PROVE  IInv' /\ Log!LogWriteFails
<1>1. /\ file = "open" /\ failed = FALSE /\ failed' = TRUE
      /\ UNCHANGED <<capacity, file, synced, log>>
  BY DEF WriteRecordFails, Accepts, IInv, TypeOK
<1>2. PICK x : (x = HeaderUnits(r) \/ x = Full(r)) /\ FwriteFails(x)
  BY DEF WriteRecordFails, Full
<1>3. PICK n \in 0 .. Len(Pending(x)) - 1 : disk' = Handed(x, n)
  BY <1>2 DEF FwriteFails
<1>4. buffer' = << >>
  BY <1>2 DEF FwriteFails
<1>5. Whole(disk \o buffer, log)
  BY <1>1 DEF IInv
<1>6. n \in 0 .. Len(Pending(x)) /\ n < Len(Pending(x))
  <2>1. Len(Pending(x)) \in Nat
    <3>1. buffer \in Seq(Units) /\ x \in Seq(Units)
      <4>1. r \in All
        BY DEF All
      <4> QED
        BY <1>2, <4>1, HeaderIs, FullIs DEF IInv
    <3>2. buffer \o x \in Seq(Units)
      BY <3>1, ConcatProperties
    <3> QED
      BY <3>2, LenProperties DEF Pending
  <2> QED
    BY <2>1
<1>7. /\ disk' \in Seq(Units) /\ Len(disk) <= Len(disk')
      /\ \A i \in 1 .. Len(disk) : disk'[i] = disk[i]
      /\ Written(disk', log)
  BY <1>2, <1>3, <1>5, <1>6, Adding
<1>8. /\ IInv'
      /\ Len(Read(disk')) \in Len(Read(disk)) .. Len(log)
      /\ SubSeq(disk', 1, synced) = SubSeq(disk, 1, synced)
  BY <1>1, <1>4, <1>7, FailedStep
<1>9. Log!LogWriteFails
  BY <1>1, <1>8 DEF Log!LogWriteFails, Log!Accepts
<1> QED
  BY <1>8, <1>9

\* fflush() hands over everything.
LEMMA Everything ==
    ASSUME IInv, disk' = disk \o buffer
    PROVE  /\ disk' \in Seq(Units) /\ Len(disk) <= Len(disk')
           /\ \A i \in 1 .. Len(disk) : disk'[i] = disk[i]
           /\ Written(disk', log)
<1>1. /\ disk \o buffer \in Seq(Units) /\ Len(disk \o buffer) = Len(disk) + Len(buffer)
      /\ \A i \in 1 .. Len(disk) : (disk \o buffer)[i] = disk[i]
      /\ Len(disk) \in Nat /\ Len(buffer) \in Nat
  BY ReadNow
<1>2. Written(disk \o buffer, log)
  BY DEF IInv
<1> QED
  BY <1>1, <1>2

LEMMA FailedFlush ==
    ASSUME IInv, FlushFailure
    PROVE  /\ disk' \in Seq(Units) /\ Len(disk) <= Len(disk')
           /\ \A i \in 1 .. Len(disk) : disk'[i] = disk[i]
           /\ Written(disk', log)
<1>1. CASE disk' = disk \o buffer
  BY <1>1, Everything
<1>2. ASSUME NEW n \in 0 .. Len(buffer) - 1, disk' = Handed(<< >>, n)
      PROVE  /\ disk' \in Seq(Units) /\ Len(disk) <= Len(disk')
             /\ \A i \in 1 .. Len(disk) : disk'[i] = disk[i]
             /\ Written(disk', log)
  <2> DEFINE e == << >>
             w == disk \o buffer
  <2>1. /\ Len(disk) \in Nat /\ Len(buffer) \in Nat /\ log \in Seq(Record)
        /\ w \in Seq(Units) /\ Len(w) = Len(disk) + Len(buffer)
        /\ disk \in Seq(Units) /\ buffer \in Seq(Units) /\ Written(w, log)
    BY ReadNow DEF IInv
  <2>2. e \in Seq(Units) /\ Len(e) = 0
    OBVIOUS
  <2>3. disk' = GivenOver(disk, buffer, e, n)
    BY <1>2, Zenon DEF Handed, Pending, GivenOver
  <2>4. Content(disk, buffer, e) = w
    BY <2>1, ConcatEmptySeq DEF Content
  <2> HIDE DEF e, w
  <2>5. /\ n \in 0 .. Len(buffer) + Len(e)
        /\ disk \in Seq(Units) /\ buffer \in Seq(Units) /\ e \in Seq(Units)
    BY <2>1, <2>2
  <2>6. /\ GivenOver(disk, buffer, e, n) \in Seq(Units)
        /\ Len(GivenOver(disk, buffer, e, n)) = Len(disk) + n
    BY <2>5, HandedOver
  <2>7. \A i \in 1 .. Len(disk) + n : GivenOver(disk, buffer, e, n)[i] = Content(disk, buffer, e)[i]
    BY <2>5, HandedOver
  <2>8. \A i \in 1 .. Len(disk) : GivenOver(disk, buffer, e, n)[i] = disk[i]
    BY <2>5, HandedOver
  <2>9. disk' \in Seq(Units) /\ Len(disk') = Len(disk) + n /\ \A i \in 1 .. Len(disk') : disk'[i] = w[i]
    BY <2>3, <2>4, <2>6, <2>7
  <2>10. Len(disk') <= Len(w) /\ Len(disk) <= Len(disk')
    BY <2>1, <2>9
  <2>11. Written(disk', log)
    BY <2>1, <2>9, <2>10, ShorterWritten
  <2> QED
    BY <2>3, <2>8, <2>9, <2>10, <2>11
<1> QED
  BY <1>1, <1>2 DEF FlushFailure

LEMMA FlushFailsStep ==
    ASSUME IInv, FlushFails
    PROVE  IInv' /\ Log!LogFlushFails
<1>1. /\ file = "open" /\ FlushFailure /\ buffer' = << >> /\ failed' = TRUE
      /\ UNCHANGED <<capacity, file, synced, log>>
  BY DEF FlushFails
<1>2. /\ disk' \in Seq(Units) /\ Len(disk) <= Len(disk')
      /\ \A i \in 1 .. Len(disk) : disk'[i] = disk[i]
      /\ Written(disk', log)
  BY <1>1, FailedFlush
<1>3. /\ IInv'
      /\ Len(Read(disk')) \in Len(Read(disk)) .. Len(log)
      /\ SubSeq(disk', 1, synced) = SubSeq(disk, 1, synced)
  BY <1>1, <1>2, FailedStep
<1>4. Log!LogFlushFails
  BY <1>1, <1>3 DEF Log!LogFlushFails
<1> QED
  BY <1>3, <1>4

LEMMA CloseFailsStep ==
    ASSUME IInv, CloseFails
    PROVE  IInv' /\ Log!LogCloseFails
<1>1. /\ file = "open" /\ file' = "closed" /\ failed' = TRUE
      /\ FlushFailure /\ buffer' = << >>
      /\ synced' = synced \/ synced' = Len(disk')
      /\ UNCHANGED <<capacity, log>>
  BY DEF CloseFails
<1>2. /\ disk' \in Seq(Units) /\ Len(disk) <= Len(disk')
      /\ \A i \in 1 .. Len(disk) : disk'[i] = disk[i]
      /\ Written(disk', log)
  BY <1>1, FailedFlush
<1>3. /\ IInv'
      /\ Len(Read(disk')) \in Len(Read(disk)) .. Len(log)
      /\ SubSeq(disk', 1, synced) = SubSeq(disk, 1, synced)
      /\ SubSeq(disk', 1, Len(disk')) = disk'
      /\ Len(Read(SubSeq(disk, 1, synced))) \in 0 .. Len(Read(disk'))
  BY <1>1, <1>2, FailedStep
<1>4. /\ Len(Read(SubSeq(disk, 1, synced))) \in Nat /\ Len(Read(disk')) \in Nat
      /\ Len(Read(disk)) \in Nat /\ Len(log) \in Nat
  <2>1. Len(Read(disk)) \in Nat /\ Len(log) \in Nat
    BY ReadNow
  <2> QED
    BY <1>3, <2>1
<1>5. Len(Read(SubSeq(disk', 1, synced')))
          \in Len(Read(SubSeq(disk, 1, synced))) .. Len(Read(disk'))
  <2>1. \A a, b \in Nat : a \in 0 .. b => a \in a .. b /\ b \in a .. b
    OBVIOUS
  <2>2. /\ Len(Read(SubSeq(disk, 1, synced)))
              \in Len(Read(SubSeq(disk, 1, synced))) .. Len(Read(disk'))
        /\ Len(Read(disk')) \in Len(Read(SubSeq(disk, 1, synced))) .. Len(Read(disk'))
    BY <1>3, <1>4, <2>1
  <2>3. CASE synced' = synced
    <3>1. SubSeq(disk', 1, synced') = SubSeq(disk, 1, synced)
      BY <1>3, <2>3
    <3> QED
      BY <2>2, <3>1, Zenon
  <2>4. CASE synced' = Len(disk')
    <3>1. SubSeq(disk', 1, synced') = disk'
      BY <1>3, <2>4
    <3> QED
      BY <2>2, <3>1, Zenon
  <2> QED
    BY <1>1, <2>3, <2>4
<1>6. Log!LogCloseFails
  BY <1>1, <1>3, <1>5 DEF Log!LogCloseFails
<1> QED
  BY <1>3, <1>6

\* A flush without failure: a reader gets everything, or what it got before if
\* nothing was left to be written after a failure.
LEMMA SyncStep ==
    ASSUME IInv, file = "open", NEW sync \in BOOLEAN, Sync(sync),
           file' \in {"open", "closed", "unsynced"}, UNCHANGED <<capacity, failed, log>>
    PROVE  /\ IInv'
           /\ Len(Read(disk')) \in {Len(log)} \cup (IF failed THEN {Len(Read(disk))} ELSE {})
           /\ Len(Read(SubSeq(disk', 1, synced'))) =
                 IF sync THEN Len(Read(disk')) ELSE Len(Read(SubSeq(disk, 1, synced)))
<1>1. /\ disk' = disk \o buffer /\ buffer' = << >>
      /\ synced' = IF sync THEN Len(disk') ELSE synced
  BY DEF Sync
<1>2. /\ disk' \in Seq(Units) /\ Len(disk) <= Len(disk')
      /\ \A i \in 1 .. Len(disk) : disk'[i] = disk[i]
      /\ Written(disk', log)
  BY <1>1, Everything
<1>3. /\ log \in Seq(Record) /\ Len(log) \in Nat /\ Len(disk) \in Nat /\ synced \in 0 .. Len(disk)
      /\ capacity \in Nat /\ disk \in Seq(Units) /\ Len(disk') \in Nat /\ failed \in BOOLEAN
  BY <1>2, ReadNow, LenProperties DEF IInv, TypeOK
<1>4. disk' \o buffer' = disk' /\ << >> \in Seq(Units) /\ Len(<< >>) = 0
  <2>1. disk' \o << >> = disk'
    BY <1>2, ConcatEmptySeq
  <2> QED
    BY <1>1, <2>1
<1>5. synced' \in 0 .. Len(disk') /\ Len(buffer') <= capacity'
  BY <1>1, <1>2, <1>3, <1>4
<1>6. TypeOK'
  BY <1>1, <1>3, <1>5 DEF TypeOK
<1>7. ~failed \/ buffer # << >> => Whole(disk', log)
  BY <1>1 DEF IInv
<1>8. IInv'
  <2>1. Written(disk' \o buffer', log')
    BY <1>2, <1>4
  <2>2. file' = "open" /\ (~failed' \/ buffer' # << >>) => Whole(disk' \o buffer', log')
    BY <1>1, <1>4, <1>7
  <2>3. disk' \in Seq(Units) /\ buffer' \in Seq(Units) /\ capacity' \in Nat
    BY <1>1, <1>2, <1>3, <1>4
  <2> QED
    BY <1>6, <2>1, <2>2, <2>3 DEF IInv
<1>9. Len(Read(disk')) \in {Len(log)} \cup (IF failed THEN {Len(Read(disk))} ELSE {})
  <2>1. CASE ~failed \/ buffer # << >>
    <3>1. Len(Read(disk')) = Len(log)
      BY <1>2, <1>3, <1>7, <2>1, ReadAll
    <3> QED
      BY <3>1
  <2>2. CASE failed /\ buffer = << >>
    <3>1. disk' = disk
      BY <1>1, <1>3, <2>2, ConcatEmptySeq
    <3> QED
      BY <2>2, <3>1
  <2> QED
    BY <2>1, <2>2
<1>10. /\ SubSeq(disk', 1, Len(disk')) = disk'
       /\ SubSeq(disk', 1, synced) = SubSeq(disk, 1, synced)
  BY <1>2, <1>3, SubSeqFull, Grown
<1>11. Len(Read(SubSeq(disk', 1, synced'))) =
          IF sync THEN Len(Read(disk')) ELSE Len(Read(SubSeq(disk, 1, synced)))
  BY <1>1, <1>10
<1> QED
  BY <1>8, <1>9, <1>11

LEMMA FlushStep ==
    ASSUME IInv, NEW sync \in BOOLEAN, Flush(sync)
    PROVE  IInv' /\ Log!LogFlush(sync)
<1>1. file = "open" /\ Sync(sync) /\ UNCHANGED <<capacity, file, failed, log>>
  BY DEF Flush
<1>2. /\ IInv'
      /\ Len(Read(disk')) \in {Len(log)} \cup (IF failed THEN {Len(Read(disk))} ELSE {})
      /\ Len(Read(SubSeq(disk', 1, synced'))) =
            IF sync THEN Len(Read(disk')) ELSE Len(Read(SubSeq(disk, 1, synced)))
  BY <1>1, SyncStep
<1>3. Log!LogFlush(sync)
  BY <1>1, <1>2 DEF Log!LogFlush, Log!Flushed
<1> QED
  BY <1>2, <1>3

LEMMA CloseStep ==
    ASSUME IInv, Close
    PROVE  IInv' /\ Log!LogClose
<1>1. file = "open" /\ UNCHANGED <<capacity, failed, log>>
  BY DEF Close
<1>2. CASE file' = "closed" /\ Sync(TRUE)
  <2>1. /\ IInv'
        /\ Len(Read(disk')) \in {Len(log)} \cup (IF failed THEN {Len(Read(disk))} ELSE {})
        /\ Len(Read(SubSeq(disk', 1, synced'))) = Len(Read(disk'))
    BY <1>1, <1>2, SyncStep
  <2> QED
    BY <1>1, <1>2, <2>1 DEF Log!LogClose, Log!Flushed
<1>3. CASE file' = "unsynced" /\ Sync(FALSE)
  <2>1. /\ IInv'
        /\ Len(Read(disk')) \in {Len(log)} \cup (IF failed THEN {Len(Read(disk))} ELSE {})
        /\ Len(Read(SubSeq(disk', 1, synced'))) = Len(Read(SubSeq(disk, 1, synced)))
    BY <1>1, <1>3, SyncStep
  <2> QED
    BY <1>1, <1>3, <2>1 DEF Log!LogClose, Log!Flushed
<1> QED
  BY <1>2, <1>3 DEF Close

LEMMA CrashStep ==
    ASSUME IInv, Crash
    PROVE  IInv' /\ Log!LogCrash
<1>1. file' = "dead" /\ buffer' = << >> /\ UNCHANGED <<capacity, failed, synced, log>>
  BY DEF Crash
<1>2. PICK n \in synced .. Len(disk) : disk' = SubSeq(disk, 1, n)
  BY DEF Crash
<1>3. /\ log \in Seq(Record) /\ Len(log) \in Nat /\ Len(disk) \in Nat /\ synced \in 0 .. Len(disk)
      /\ capacity \in Nat /\ disk \in Seq(Units) /\ Written(disk, log) /\ failed \in BOOLEAN
  BY ReadNow DEF IInv, TypeOK
<1>4. n \in 0 .. Len(disk) /\ synced <= n /\ synced \in Nat
  BY <1>3
<1>5. /\ disk' \in Seq(Units) /\ Len(disk') = n /\ \A i \in 1 .. n : disk'[i] = disk[i]
      /\ Written(disk', log)
      /\ Len(Read(disk')) \in 0 .. Len(Read(disk))
  BY <1>2, <1>3, <1>4, PartRead
<1>6. disk' \o buffer' = disk' /\ << >> \in Seq(Units) /\ Len(<< >>) = 0
  <2>1. disk' \o << >> = disk'
    BY <1>5, ConcatEmptySeq
  <2> QED
    BY <1>1, <2>1
<1>7. synced' \in 0 .. Len(disk') /\ Len(buffer') <= capacity' /\ synced \in 0 .. Len(disk')
  BY <1>1, <1>3, <1>4, <1>5, <1>6
<1>8. TypeOK'
  BY <1>1, <1>3, <1>7 DEF TypeOK
<1>9. IInv'
  BY <1>1, <1>3, <1>5, <1>6, <1>8 DEF IInv
<1>10. SubSeq(disk, 1, synced) = SubSeq(disk', 1, synced)
  <2>1. Len(disk') <= Len(disk) /\ \A i \in 1 .. Len(disk') : disk[i] = disk'[i]
    BY <1>3, <1>4, <1>5
  <2> QED
    BY <1>3, <1>5, <1>7, <2>1, Grown
<1>11. Len(Read(SubSeq(disk', 1, synced))) \in 0 .. Len(Read(disk'))
  BY <1>3, <1>5, <1>7, PartRead
<1>12. Len(Read(disk')) \in Len(Read(SubSeq(disk, 1, synced))) .. Len(Read(disk))
  <2>1. Len(Read(disk)) \in Nat /\ Len(Read(disk')) \in Nat /\ Len(Read(SubSeq(disk', 1, synced))) \in Nat
    <3>1. Len(Read(disk)) \in Nat
      BY ReadNow
    <3> QED
      BY <1>5, <1>11, <3>1
  <2>2. \A a, b, c \in Nat : b \in 0 .. c /\ a \in 0 .. b => b \in a .. c
    OBVIOUS
  <2>3. Len(Read(disk')) \in Len(Read(SubSeq(disk', 1, synced))) .. Len(Read(disk))
    BY <1>5, <1>11, <2>1, <2>2, Zenon
  <2> QED
    BY <1>10, <2>3, Zenon
<1>13. Log!LogCrash
  BY <1>1, <1>10, <1>12 DEF Log!LogCrash
<1> QED
  BY <1>9, <1>13

-----------------------------------------------------------------------------
(* What follows from it.                                                   *)

LEMMA WriterStep ==
    ASSUME IInv, [Next]_vars
    PROVE  IInv' /\ [Log!LogNext]_(Log!logVars)
<1>1. CASE UNCHANGED vars
  <2>1. IInv'
    BY <1>1 DEF vars, IInv, TypeOK
  <2>2. UNCHANGED Log!logVars
    BY <1>1 DEF vars, Log!logVars
  <2> QED
    BY <2>1, <2>2
<1>2. CASE Open
  BY <1>2, OpenStep DEF Log!LogNext
<1>3. CASE OpenFails
  BY <1>3, OpenFailsStep DEF Log!LogNext
<1>4. CASE OpenAgain
  BY <1>4, OpenAgainStep DEF Log!LogNext
<1>5. ASSUME NEW r \in Record, WriteRecord(r) PROVE IInv' /\ [Log!LogNext]_(Log!logVars)
  BY <1>5, WriteStep DEF Log!LogNext
<1>6. ASSUME NEW r \in Record, WriteRecordFails(r) PROVE IInv' /\ [Log!LogNext]_(Log!logVars)
  BY <1>6, WriteFailsStep DEF Log!LogNext
<1>7. ASSUME NEW sync \in BOOLEAN, Flush(sync) PROVE IInv' /\ [Log!LogNext]_(Log!logVars)
  BY <1>7, FlushStep DEF Log!LogNext
<1>8. CASE FlushFails
  BY <1>8, FlushFailsStep DEF Log!LogNext
<1>9. CASE Close
  BY <1>9, CloseStep DEF Log!LogNext
<1>10. CASE CloseFails
  BY <1>10, CloseFailsStep DEF Log!LogNext
<1>11. CASE Crash
  BY <1>11, CrashStep DEF Log!LogNext
<1> QED
  BY <1>1, <1>2, <1>3, <1>4, <1>5, <1>6, <1>7, <1>8, <1>9, <1>10, <1>11 DEF Next

\* The inductive invariant: whatever has failed, the file and the buffer hold
\* the file header and the accepted records, in order and without a gap, with at
\* most a part of one record more at the end; and while nothing was lost they
\* hold them whole.
THEOREM WriterInvariant == Spec => []IInv
<1>1. IInv /\ [Next]_vars => IInv'
  BY WriterStep
<1> QED
  BY <1>1, InitInv, PTL DEF Spec

\* Every operation of the writer keeps the types, the buffer within its size,
\* and what is on stable storage within the file.
THEOREM WriterTypes == Spec => []TypeOK
<1>1. IInv => TypeOK
  BY DEF IInv
<1> QED
  BY <1>1, WriterInvariant, PTL

\* Whatever failed, and wherever a crash cut the file, CaptureReader returns
\* records write_record() accepted, in that order, each complete.
THEOREM ReadersGetPrefix == Spec => []ReaderGetsPrefix
<1>1. IInv => ReaderGetsPrefix
  <2> SUFFICES ASSUME IInv PROVE ReaderGetsPrefix
    OBVIOUS
  <2>1. Written(disk, log) /\ log \in Seq(Record) /\ disk \in Seq(Units)
    BY ReadNow DEF IInv
  <2> QED
    BY <2>1, ReadPrefix DEF ReaderGetsPrefix
<1> QED
  BY <1>1, WriterInvariant, PTL

\* The writer over stdio and the kernel implements the log it promises: what a
\* reader gets only grows while the file is open, is everything after a flush,
\* and what a flush with sync put on stable storage survives any crash.  So does
\* a file closed without error, unless its fsync() was refused with EINVAL or
\* EROFS: then close() promises no more than a flush without sync.
THEOREM WriterImplementsLog == Spec => ImplementsLog
<1>1. Init => Log!LogInit
  <2> SUFFICES ASSUME Init PROVE Log!LogInit
    OBVIOUS
  <2>1. disk = << >> /\ synced = 0 /\ file = "none" /\ failed = FALSE /\ log = << >>
    BY DEF Init
  <2>2. SubSeq(<< >>, 1, 0) = << >> /\ SubSeq(HeaderUnits(FileHeader), 1, 0) = << >>
    BY SubSeqEmpty
  <2>3. Len(Read(SubSeq(HeaderUnits(FileHeader), 1, 0))) = 0
    <3>1. 0 \in 0 .. 2
      OBVIOUS
    <3> QED
      BY <3>1, Started
  <2>4. Len(Read(<< >>)) = 0
    BY <2>2, <2>3
  <2>5. Len(Read(disk)) = 0 /\ Len(Read(SubSeq(disk, 1, synced))) = 0
    BY <2>1, <2>2, <2>4
  <2> QED
    BY <2>1, <2>5 DEF Log!LogInit
<1>2. IInv /\ [Next]_vars => [Log!LogNext]_(Log!logVars)
  BY WriterStep
<1> QED
  BY <1>1, <1>2, WriterInvariant, PTL DEF Spec, ImplementsLog, Log!LogSpec

-----------------------------------------------------------------------------
(* What the export makes of what a reader gets.                            *)

\* The rows in all files are as many as the records.
LEMMA RowsTotal ==
    ASSUME NEW s \in Seq(Record)
    PROVE  Total([x \in {r.stem : r \in ToSet(s)} |-> Len(Rows(s, x))]) = Len(s)
<1> DEFINE n == Len(s)
           S == {r.stem : r \in ToSet(s)}
           g == [i \in 1 .. n |-> s[i].stem]
           At(x) == {i \in 1 .. n : g[i] = x}
<1>1. n \in Nat /\ DOMAIN s = 1 .. n
  BY LenProperties
<1>2. g \in [1 .. n -> S]
  BY <1>1 DEF ToSet
<1>3. IsFiniteSet(S)
  <2>1. \A x \in S : \E i \in 1 .. n : g[i] = x
    BY <1>1 DEF ToSet
  <2>2. IsFiniteSet(1 .. n)
    BY <1>1, FS_Interval
  <2> HIDE DEF S, n, g
  <2>3. g \in Surjection(1 .. n, S)
    BY <1>2, <2>1 DEF Surjection
  <2> QED
    BY <2>2, <2>3, FS_Surjection
<1>4. ASSUME NEW x PROVE Len(Rows(s, x)) = Cardinality(At(x))
  <2>1. At(x) \in Positions(n)
    BY DEF Positions
  <2>2. {i \in DOMAIN s : s[i].stem = x} = At(x)
    BY <1>1
  <2>3. Rows(s, x) = Selected(s, At(x))
    BY <2>2 DEF Rows
  <2> HIDE DEF At, n
  <2> QED
    BY <1>1, <2>1, <2>3, SelectionIs
<1>5. [x \in S |-> Len(Rows(s, x))] = [x \in S |-> Cardinality({i \in 1 .. n : g[i] = x})]
  BY <1>4
<1> HIDE DEF S, g, n
<1>6. Total([x \in S |-> Cardinality({i \in 1 .. n : g[i] = x})]) = n
  BY <1>1, <1>2, <1>3, PreimagesTotal
<1> QED
  BY <1>5, <1>6 DEF S, n

\* The records before place m take what is before it.
LEMMA ExtentIs ==
    ASSUME NEW s \in Seq(Record), NEW u \in Seq(Units),
           NEW q \in Seq(All), NEW at, WrittenAs(u, s, q, at),
           NEW m \in 1 .. Len(q), m <= Len(s) + 1
    PROVE  Extent(SubSeq(s, 1, m - 1)) = at[m + 1] - 1
<1> DEFINE n == m - 1
           r == SubSeq(s, 1, n)
           S == 1 .. n
           a == [i \in S |-> Size(q[i + 1])]
           f == [k \in 0 .. n |-> [i \in S |-> IF i <= k THEN a[i] ELSE 0]]
           h == [k \in 0 .. n |-> at[k + 2] - 3]
<1>1. Len(s) \in Nat /\ Len(q) \in Nat /\ n \in Nat /\ n <= Len(s) /\ m = n + 1 /\ n < Len(q)
  BY LenProperties
<1>2. /\ Places(q, at) /\ q[1] = FileHeader
      /\ \A i \in 1 .. Len(s) : q[i + 1] = s[i]
  BY DEF WrittenAs
<1>3. /\ \A k \in 1 .. Len(q) + 1 : at[k] \in Nat
      /\ \A k \in 1 .. Len(q) : at[k + 1] = at[k] + Size(q[k])
      /\ at[1] = 1
      /\ \A k, l \in 1 .. Len(q) + 1 : k < l => at[k] < at[l]
  BY <1>2 DEF Places
<1>4. \A i \in 1 .. Len(q) : Size(q[i]) \in Nat
  BY DEF Size
<1>5. at[2] = 3
  <2>1. at[1 + 1] = at[1] + Size(q[1]) /\ Size(q[1]) = 2
    BY <1>1, <1>2, <1>3 DEF Size, FileHeader
  <2> QED
    BY <1>3, <2>1
<1>6. a \in [S -> Nat]
  <2>1. \A i \in S : i + 1 \in 1 .. Len(q)
    BY <1>1
  <2> QED
    BY <1>4, <2>1
<1>7. IsFiniteSet(S)
  BY <1>1, FS_Interval
<1>8. h \in [0 .. n -> Nat]
  <2>1. ASSUME NEW k \in 0 .. n PROVE at[k + 2] - 3 \in Nat
    <3>1. k + 2 \in 1 .. Len(q) + 1 /\ 2 \in 1 .. Len(q) + 1 /\ (k + 2 = 2 \/ 2 < k + 2)
      BY <1>1
    <3>2. at[k + 2] \in Nat /\ at[2] <= at[k + 2]
      BY <1>3, <3>1
    <3> QED
      BY <1>5, <3>2
  <2> QED
    BY <2>1
<1>9. f \in [0 .. n -> [S -> Nat]]
  BY <1>6
<1>10. ASSUME NEW k \in 0 .. n - 1
       PROVE  \E x \in S : /\ \A y \in S : y # x => f[k + 1][y] = f[k][y]
                           /\ f[k + 1][x] = f[k][x] + h[k + 1] - h[k]
  <2>1. k + 1 \in S /\ k \in 0 .. n /\ k + 1 \in 0 .. n /\ k \in Int
    BY <1>1
  <2>2. \A y \in S : y # k + 1 => f[k + 1][y] = f[k][y]
    <3>1. \A y \in S : y # k + 1 => (y <= k + 1 <=> y <= k)
      BY <2>1
    <3> HIDE DEF a
    <3> QED
      BY <2>1, <3>1
  <2>3. f[k + 1][k + 1] = a[k + 1] /\ f[k][k + 1] = 0
    <3> HIDE DEF a
    <3> QED
      BY <2>1
  <2>4. h[k + 1] - h[k] = Size(q[k + 2]) /\ a[k + 1] = Size(q[k + 2]) /\ a[k + 1] \in Nat
    <3>1. k + 2 \in 1 .. Len(q) /\ k + 2 \in 1 .. Len(q) + 1 /\ k + 1 + 2 = k + 2 + 1 /\ k + 1 + 1 = k + 2
      BY <1>1, <2>1
    <3>2. at[k + 2 + 1] = at[k + 2] + Size(q[k + 2]) /\ Size(q[k + 2]) \in Nat /\ at[k + 2] \in Nat
      BY <1>3, <1>4, <3>1
    <3>3. h[k + 1] = at[k + 2 + 1] - 3 /\ h[k] = at[k + 2] - 3
      <4>1. h[k + 1] = at[k + 1 + 2] - 3 /\ h[k] = at[k + 2] - 3
        BY <2>1
      <4> HIDE DEF h
      <4> QED
        BY <3>1, <4>1
    <3>4. a[k + 1] = Size(q[k + 2])
      <4>1. a[k + 1] = Size(q[k + 1 + 1])
        BY <2>1
      <4> HIDE DEF a
      <4> QED
        BY <3>1, <4>1
    <3> HIDE DEF f, h, a
    <3> QED
      BY <3>2, <3>3, <3>4
  <2>5. h[k + 1] \in Nat /\ h[k] \in Nat
    <3> HIDE DEF h
    <3> QED
      BY <1>8, <2>1
  <2>6. f[k + 1][k + 1] = f[k][k + 1] + h[k + 1] - h[k]
    <3> HIDE DEF f, h, a
    <3> QED
      BY <2>3, <2>4, <2>5
  <2> HIDE DEF f, h, a, S
  <2> QED
    BY <2>1, <2>2, <2>6
<1>11. Total(f[0]) = h[0]
  <2>1. f[0] \in [S -> {0}] /\ h[0] = 0
    BY <1>1, <1>5
  <2> HIDE DEF f, h
  <2> QED
    BY <1>7, <2>1, TotalOfZeros
<1>12. f[n] = a /\ h[n] = at[m + 1] - 3
  <2>1. n \in 0 .. n /\ n + 2 = m + 1
    BY <1>1
  <2>2. f[n] = [i \in S |-> IF i <= n THEN a[i] ELSE 0]
    BY <2>1
  <2> QED
    BY <1>6, <2>1, <2>2
<1>13. Extent(r) = 2 + Total(a)
  <2>1. Len(r) = n /\ DOMAIN r = S /\ \A i \in S : r[i] = s[i]
    <3>1. \A i \in 1 .. n : s[i] \in Record
      BY <1>1, ElementOfSeq
    <3>2. /\ r \in Seq(Record) /\ Len(r) = IF 1 <= n THEN n - 1 + 1 ELSE 0
          /\ \A i \in 1 .. n - 1 + 1 : r[i] = s[1 + i - 1]
      BY <1>1, <3>1, SubSeqProperties
    <3> HIDE DEF r
    <3> QED
      BY <1>1, <3>2
  <2>2. \A i \in S : 2 + Len(PayloadUnits(r[i])) = Size(q[i + 1])
    <3> SUFFICES ASSUME NEW i \in S PROVE 2 + Len(PayloadUnits(r[i])) = Size(q[i + 1])
      OBVIOUS
    <3>1. i \in 1 .. Len(s) /\ i + 1 \in 1 .. Len(q)
      BY <1>1
    <3>2. r[i] = q[i + 1] /\ q[i + 1] \in All
      BY <1>2, <2>1, <3>1, ElementOfSeq
    <3>3. Len(PayloadUnits(q[i + 1])) = Size(q[i + 1]) - 2 /\ Size(q[i + 1]) \in {2, 4}
      BY <3>2, PayloadIs
    <3> QED
      BY <3>2, <3>3
  <2> HIDE DEF r, S
  <2>3. [i \in DOMAIN r |-> 2 + Len(PayloadUnits(r[i]))] = a
    BY <2>1, <2>2
  <2> QED
    BY <2>3 DEF Extent, Total
<1>14. OneByOne(f, h, n, S)
  <2> HIDE DEF f, h, S, n
  <2> QED
    BY <1>8, <1>9, <1>10 DEF OneByOne
<1>15. Total(f[n]) = h[n]
  <2> HIDE DEF f, h, S, n
  <2> QED
    BY <1>1, <1>7, <1>11, <1>14, TotalSteps
<1>16. at[m + 1] \in Nat
  BY <1>1, <1>3
<1> HIDE DEF f, a, h
<1> QED
  BY <1>12, <1>13, <1>15, <1>16

\* The reader's error tells whether the file is whole records to its end.
LEMMA ReaderErrorIs ==
    ASSUME NEW s \in Seq(Record), NEW u \in Seq(Units), Written(u, s)
    PROVE  /\ ~ReaderError(u) => Len(u) = Extent(Read(u))
           /\ Whole(u, s) => ~ReaderError(u)
<1>0. Len(u) \in Nat /\ Len(s) \in Nat
  BY LenProperties
<1>1. ASSUME NEW q \in Seq(All), NEW at, WrittenAs(u, s, q, at),
             NEW m \in 1 .. Len(q), Cut(u, q, at, m), m <= Len(s) + 1,
             Read(u) = SubSeq(s, 1, m - 1)
      PROVE  /\ Extent(Read(u)) = at[m + 1] - 1 /\ at[m + 1] \in Nat
             /\ at[m + 1] <= Len(u) + 1
  <2>1. Extent(SubSeq(s, 1, m - 1)) = at[m + 1] - 1
    BY <1>1, ExtentIs
  <2>2. Len(q) \in Nat /\ m + 1 \in 1 .. Len(q) + 1
    BY LenProperties
  <2>3. at[m + 1] \in Nat
    BY <1>1, <2>2 DEF WrittenAs, Places
  <2> QED
    BY <1>1, <2>1, <2>3 DEF Cut
<1>2. ASSUME ~ReaderError(u) PROVE Len(u) = Extent(Read(u))
  <2>1. CompleteAt(u, 1) /\ ~(Len(u) > Extent(Read(u)))
    BY <1>2 DEF ReaderError
  <2>2. PICK q \in Seq(All) : \E at : WrittenAs(u, s, q, at)
    BY DEF Written
  <2>3. PICK at : WrittenAs(u, s, q, at)
    BY <2>2
  <2>4. PICK m \in 0 .. Len(q) :
           /\ Cut(u, q, at, m) /\ m <= Len(s) + 1 /\ (CompleteAt(u, 1) <=> m # 0)
           /\ Read(u) = IF m = 0 THEN << >> ELSE SubSeq(s, 1, m - 1)
    BY <2>3, ReadIs
  <2>5. m \in 1 .. Len(q) /\ Read(u) = SubSeq(s, 1, m - 1)
    BY <2>1, <2>4
  <2>6. Extent(Read(u)) = at[m + 1] - 1 /\ at[m + 1] \in Nat /\ at[m + 1] <= Len(u) + 1
    BY <1>1, <2>3, <2>4, <2>5
  <2> QED
    BY <1>0, <2>1, <2>6
<1>3. ASSUME Whole(u, s) PROVE ~ReaderError(u)
  <2>2. PICK q \in Seq(All) : \E at : WholeAs(u, s, q, at)
    BY <1>3 DEF Whole
  <2>3. PICK at : WholeAs(u, s, q, at)
    BY <2>2
  <2>4. WrittenAs(u, s, q, at) /\ Len(q) = Len(s) + 1 /\ at[Len(q) + 1] = Len(u) + 1
    BY <2>3 DEF WholeAs
  <2>5. PICK m \in 0 .. Len(q) :
           /\ Cut(u, q, at, m) /\ m <= Len(s) + 1 /\ (CompleteAt(u, 1) <=> m # 0)
           /\ Read(u) = IF m = 0 THEN << >> ELSE SubSeq(s, 1, m - 1)
           /\ Len(Read(u)) = IF m = 0 THEN 0 ELSE m - 1
    BY <2>4, ReadIs
  <2>6. Len(Read(u)) = Len(s)
    BY <1>3, ReadAll
  <2>7. m # 0
    <3> SUFFICES ASSUME m = 0 PROVE FALSE
      OBVIOUS
    <3>1. Len(q) = 1
      BY <2>4, <2>5, <2>6
    <3>2. Len(u) + 1 < at[2]
      BY <2>5, <3>1 DEF Cut
    <3> QED
      BY <1>0, <2>4, <3>1, <3>2
  <2>8. m = Len(q) /\ m \in 1 .. Len(q) /\ Read(u) = SubSeq(s, 1, m - 1)
    BY <1>0, <2>4, <2>5, <2>6, <2>7
  <2>9. Extent(Read(u)) = at[m + 1] - 1 /\ at[m + 1] \in Nat
    BY <1>1, <2>4, <2>5, <2>8
  <2>10. ~(Len(u) > Extent(Read(u)))
    BY <1>0, <2>4, <2>8, <2>9
  <2> QED
    BY <2>5, <2>7, <2>10 DEF ReaderError
<1> QED
  BY <1>2, <1>3

\* What export_capture() has written when it ends.
LEMMA ExportIs ==
    ASSUME NEW s \in Seq(Record), NEW u \in Seq(Units), Written(u, s), NEW n \in Nat
    PROVE  LET e == Export(u, n)
               m == FoldFunction(+, 0, [x \in DOMAIN e.csv |-> Len(e.csv[x])])
               r == Len(Read(u))
           IN  /\ m = IF n < r THEN n ELSE r
               /\ \A x \in DOMAIN e.csv : e.csv[x] = Rows(SubSeq(s, 1, m), x)
               /\ e.error <=> (n < r \/ ReaderError(u))
<1> DEFINE r == Len(Read(u))
           k == Min({n, r})
           w == SubSeq(Read(u), 1, k)
           S == {x.stem : x \in ToSet(w)}
           csv == [x \in S |-> Rows(w, x)]
           m == FoldFunction(+, 0, [x \in DOMAIN csv |-> Len(csv[x])])
<1>1. r \in 0 .. Len(s) /\ Read(u) = SubSeq(s, 1, r) /\ Len(s) \in Nat
  BY ReadPrefix, LenProperties DEF Prefix
<1>2. k = IF n < r THEN n ELSE r
  <2> DEFINE Least(v) == v \in {n, r} /\ \A y \in {n, r} : v =< y
  <2>1. \E v : Least(v)
    <3>1. CASE n < r
      BY <1>1, <3>1
    <3>2. CASE ~(n < r)
      BY <1>1, <3>2
    <3> QED
      BY <3>1, <3>2
  <2>2. k = CHOOSE v : Least(v)
    BY DEF Min
  <2>3. Least(k)
    <3> HIDE DEF Least, k
    <3> QED
      BY <2>1, <2>2
  <2>4. (k = n \/ k = r) /\ k =< n /\ k =< r
    BY <2>3
  <2> HIDE DEF k, Least, r
  <2> QED
    BY <1>1, <2>4
<1>3. w \in Seq(Record) /\ Len(w) = k /\ w = SubSeq(s, 1, k)
  <2>1. k \in 0 .. r /\ k \in 0 .. Len(s)
    BY <1>1, <1>2
  <2> HIDE DEF k, r
  <2>2. \A l \in 0 .. Len(s) : /\ SubSeq(s, 1, l) \in Seq(Record) /\ Len(SubSeq(s, 1, l)) = l
                               /\ \A i \in 1 .. l : SubSeq(s, 1, l)[i] = s[i]
    <3> SUFFICES ASSUME NEW l \in 0 .. Len(s)
                 PROVE  /\ SubSeq(s, 1, l) \in Seq(Record) /\ Len(SubSeq(s, 1, l)) = l
                        /\ \A i \in 1 .. l : SubSeq(s, 1, l)[i] = s[i]
      OBVIOUS
    <3>1. \A i \in 1 .. l : s[i] \in Record
      BY <1>1, ElementOfSeq
    <3> DEFINE t == SubSeq(s, 1, l)
    <3>2. /\ t \in Seq(Record) /\ Len(t) = IF 1 <= l THEN l - 1 + 1 ELSE 0
          /\ \A i \in 1 .. l - 1 + 1 : t[i] = s[1 + i - 1]
      BY <3>1, SubSeqProperties
    <3> HIDE DEF t
    <3>3. t \in Seq(Record) /\ Len(t) = l /\ \A i \in 1 .. l : t[i] = s[i]
      BY <3>2
    <3> QED
      BY <3>3 DEF t
  <2> DEFINE R == Read(u)
  <2>3. R \in Seq(Record) /\ Len(R) = r /\ \A i \in 1 .. r : R[i] = s[i]
    BY <1>1, <2>2
  <2> HIDE DEF R
  <2>4. w = SubSeq(R, 1, k)
    BY DEF R
  <2> HIDE DEF w
  <2>5. w \in Seq(Record) /\ Len(w) = k /\ \A i \in 1 .. k : w[i] = R[i]
    <3>1. \A i \in 1 .. k : R[i] \in Record
      <4>1. \A i \in 1 .. k : i \in 1 .. r
        BY <1>1, <2>1
      <4> QED
        BY <2>3, <4>1, ElementOfSeq
    <3>2. k \in Int
      BY <2>1
    <3>3. /\ w \in Seq(Record) /\ Len(w) = IF 1 <= k THEN k - 1 + 1 ELSE 0
          /\ \A i \in 1 .. k - 1 + 1 : w[i] = R[1 + i - 1]
      BY <2>4, <3>1, <3>2, SubSeqProperties
    <3> QED
      BY <2>1, <3>3
  <2>6. \A i \in 1 .. k : w[i] = SubSeq(s, 1, k)[i]
    <3>1. \A i \in 1 .. k : i \in 1 .. r
      BY <1>1, <2>1
    <3> QED
      BY <2>1, <2>2, <2>3, <2>5, <3>1
  <2>7. SubSeq(s, 1, k) \in Seq(Record) /\ Len(SubSeq(s, 1, k)) = k
    BY <2>1, <2>2
  <2> DEFINE t == SubSeq(s, 1, k)
  <2> HIDE DEF t
  <2>8. w = t
    BY <2>5, <2>6, <2>7, SeqEqual DEF t
  <2> QED
    BY <2>5, <2>8 DEF t
<1> HIDE DEF k, r, w
<1>4. m = k
  <2>1. [x \in DOMAIN csv |-> Len(csv[x])] = [x \in S |-> Len(Rows(w, x))]
    OBVIOUS
  <2> HIDE DEF csv
  <2>2. Total([x \in S |-> Len(Rows(w, x))]) = Len(w)
    BY <1>3, RowsTotal
  <2> QED
    BY <1>3, <2>1, <2>2 DEF Total
<1>5. \A x \in DOMAIN csv : csv[x] = Rows(SubSeq(s, 1, k), x)
  BY <1>3
<1>6. Export(u, n) = [csv |-> csv, error |-> n < r \/ ReaderError(u)]
  BY DEF Export, k, r, w
<1> HIDE DEF csv, m
<1>7. Export(u, n).csv = csv /\ (Export(u, n).error <=> (n < r \/ ReaderError(u)))
  <2> DEFINE b == n < r \/ ReaderError(u)
  <2>1. Export(u, n) = [csv |-> csv, error |-> b]
    BY <1>6
  <2> HIDE DEF b
  <2>2. Export(u, n).csv = csv /\ Export(u, n).error = b
    BY <2>1
  <2>3. Export(u, n).error <=> b
    BY <2>2, Zenon
  <2> QED
    BY <2>2, <2>3 DEF b
<1> QED
  BY <1>2, <1>4, <1>5, <1>7 DEF r, m

-----------------------------------------------------------------------------
(* The invariant the export needs beside IInv.                             *)

\* A file closed without a failure is whole.
ClosedInv ==
    /\ Len(log) <= MaxRecords
    /\ file \in {"closed", "unsynced"} /\ ~failed => Whole(disk, log)

LEMMA InitClosed == Init => ClosedInv
<1>1. << >> = log => Len(log) = 0
  OBVIOUS
<1> QED
  BY <1>1, CaptureWriterAssumption DEF Init, ClosedInv

LEMMA ClosedStep ==
    ASSUME IInv, ClosedInv, [Next]_vars
    PROVE  ClosedInv'
<1>1. /\ log \in Seq(Record) /\ Len(log) \in Nat /\ Len(log) <= MaxRecords /\ MaxRecords \in Nat
      /\ Len(<< >>) = 0
  BY CaptureWriterAssumption, LenProperties DEF IInv, TypeOK, ClosedInv
<1>2. CASE UNCHANGED vars
  BY <1>2 DEF vars, ClosedInv
<1>3. CASE Open
  BY <1>1, <1>3 DEF Open, ClosedInv
<1>4. CASE OpenFails
  BY <1>1, <1>4 DEF OpenFails, ClosedInv
<1>5. CASE OpenAgain
  BY <1>1, <1>5 DEF OpenAgain, ClosedInv
<1>6. ASSUME NEW r \in Record, WriteRecord(r) PROVE ClosedInv'
  <2>1. file' = "open" /\ log' = Append(log, r) /\ Len(log) < MaxRecords
    BY <1>6 DEF WriteRecord, Accepts
  <2>2. Len(log') = Len(log) + 1
    BY <1>1, <2>1, AppendProperties
  <2> QED
    BY <1>1, <2>1, <2>2 DEF ClosedInv
<1>7. ASSUME NEW r \in Record, WriteRecordFails(r) PROVE ClosedInv'
  BY <1>1, <1>7 DEF WriteRecordFails, Accepts, ClosedInv
<1>8. ASSUME NEW sync \in BOOLEAN, Flush(sync) PROVE ClosedInv'
  BY <1>1, <1>8 DEF Flush, ClosedInv
<1>9. CASE FlushFails
  BY <1>1, <1>9 DEF FlushFails, ClosedInv
<1>10. CASE Close
  <2>1. file = "open" /\ failed' = failed /\ log' = log /\ disk' = disk \o buffer
    BY <1>10 DEF Close, Sync
  <2>2. ~failed' => Whole(disk \o buffer, log)
    BY <2>1 DEF IInv
  <2> QED
    BY <1>1, <2>1, <2>2 DEF ClosedInv
<1>11. CASE CloseFails
  BY <1>1, <1>11 DEF CloseFails, ClosedInv
<1>12. CASE Crash
  BY <1>1, <1>12 DEF Crash, ClosedInv
<1> QED
  BY <1>2, <1>3, <1>4, <1>5, <1>6, <1>7, <1>8, <1>9, <1>10, <1>11, <1>12 DEF Next

LEMMA ExportNow ==
    ASSUME IInv, ClosedInv
    PROVE  ExportHoldsAllBefore
<1>1. /\ Written(disk, log) /\ log \in Seq(Record) /\ disk \in Seq(Units) /\ MaxRecords \in Nat
      /\ Len(log) \in Nat
  BY ReadNow, CaptureWriterAssumption DEF IInv
<1>2. ReaderGetsPrefix /\ Len(Read(disk)) \in 0 .. Len(log) /\ Read(disk) = SubSeq(log, 1, Len(Read(disk)))
  BY <1>1, ReadPrefix DEF ReaderGetsPrefix, Prefix
<1>3. ASSUME NEW n \in 0 .. MaxRecords
      PROVE  LET e == Export(disk, n)
                 m == FoldFunction(+, 0, [s \in DOMAIN e.csv |-> Len(e.csv[s])])
             IN  /\ \A s \in DOMAIN e.csv : e.csv[s] = Rows(SubSeq(log, 1, m), s)
                 /\ m < n => m = Len(Read(disk))
                 /\ ~e.error => Len(disk) = Extent(SubSeq(log, 1, m))
                 /\ file \in {"closed", "unsynced"} /\ ~failed /\ n = MaxRecords =>
                       ~e.error /\ m = Len(log)
  <2> DEFINE e == Export(disk, n)
             m == FoldFunction(+, 0, [s \in DOMAIN e.csv |-> Len(e.csv[s])])
             r == Len(Read(disk))
  <2>1. n \in Nat /\ n <= MaxRecords
    BY <1>1
  <2>2. /\ m = IF n < r THEN n ELSE r
        /\ \A s \in DOMAIN e.csv : e.csv[s] = Rows(SubSeq(log, 1, m), s)
        /\ (e.error <=> (n < r \/ ReaderError(disk)))
    BY <1>1, <2>1, ExportIs
  <2>3. r \in Nat /\ r <= Len(log) /\ Read(disk) = SubSeq(log, 1, r)
    BY <1>1, <1>2
  <2> HIDE DEF e, m, r
  <2>4. m < n => m = r
    BY <2>1, <2>2, <2>3
  <2>5. ASSUME ~e.error PROVE Len(disk) = Extent(SubSeq(log, 1, m))
    <3>1. ~(n < r) /\ ~ReaderError(disk)
      BY <2>2, <2>5
    <3>2. Len(disk) = Extent(Read(disk))
      BY <1>1, <3>1, ReaderErrorIs
    <3> QED
      BY <2>2, <2>3, <3>1, <3>2
  <2>6. ASSUME file \in {"closed", "unsynced"} /\ ~failed /\ n = MaxRecords
        PROVE  ~e.error /\ m = Len(log)
    <3>1. Whole(disk, log) /\ Len(log) <= n
      BY <2>6 DEF ClosedInv
    <3>2. ~ReaderError(disk)
      BY <1>1, <3>1, ReaderErrorIs
    <3>3. r = Len(log)
      BY <1>1, <3>1, ReadAll DEF r
    <3>4. ~(n < r) /\ m = r
      BY <1>1, <2>1, <2>2, <3>1, <3>3
    <3> QED
      BY <2>2, <3>2, <3>3, <3>4
  <2> QED
    BY <2>2, <2>4, <2>5, <2>6 DEF e, m, r
<1> QED
  BY <1>2, <1>3 DEF ExportHoldsAllBefore

\* After any failure of the writer and any crash, and wherever writing the rows
\* fails, the CSVs export_capture() has written hold the accepted records before
\* that place, each in the file of its kind and in their order; an export
\* without error has left nothing of the file out, and of a file closed without
\* error no record.
THEOREM ExportsHoldAllBefore == Spec => []ExportHoldsAllBefore
<1>1. Init => ClosedInv
  BY InitClosed
<1>2. IInv /\ ClosedInv /\ [Next]_vars => ClosedInv'
  BY ClosedStep
<1>3. IInv /\ ClosedInv => ExportHoldsAllBefore
  BY ExportNow
<1> QED
  BY <1>1, <1>2, <1>3, WriterInvariant, PTL DEF Spec

=============================================================================
