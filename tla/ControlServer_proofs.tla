------------------------ MODULE ControlServer_proofs ------------------------
(***************************************************************************)
(* Theorems of ControlServer.tla, for any number of connections, whatever  *)
(* the peers send, and for all limits.                                     *)
(***************************************************************************)
EXTENDS ControlServer, CommonLemmas

-----------------------------------------------------------------------------
(* The inductive invariant.                                                *)

Inputs == UNION {UNION {ToSet(s.script[c]) : c \in Conn} : s \in Setups}

Bytes == UNION {ToSet(x.payload) : x \in {y \in Inputs : y.op \in {"text", "continuation"}}}

Items == [kind : {"response"}, status : {x.op : x \in Inputs} \cup {"503"}]
         \cup [kind : {"stats"}, latest : Int]
         \cup [kind : {"result"}, command : {"record on", "record off", "none"}, ok : BOOLEAN]
         \cup [kind : {"pong", "close", "hello"}]

Clients == [websocket : BOOLEAN, closing : BOOLEAN, dead : BOOLEAN, in : Seq(Inputs),
            out : Seq(Items), message : Seq(Bytes), inMessage : BOOLEAN]

\* The calls of poll_once() on the connections in C.
Calls(C) == [do : {"stats", "accept", "update", "erase"}]
            \cup [do : {"read", "handle", "write"}, conn : C]

\* What the stream s of a connection is, which is a WebSocket (ws) or about to
\* close (cl): what comes last, as long as the server runs.
Proper(s, ws, cl, runs) ==
    /\ ~ws /\ ~cl => s = << >>
    /\ ~ws /\ cl => Len(s) = 1 /\ s[1].kind = "response"
    /\ ws => /\ Len(s) >= 2 /\ s[1].kind = "hello" /\ s[2].kind = "stats"
             /\ \A i \in 1 .. Len(s) : s[i].kind # "response"
    /\ runs => \A i \in 1 .. Len(s) : s[i].kind \in {"response", "close"} => cl /\ i = Len(s)

Backlog(out) == Cardinality({i \in DOMAIN out : out[i].kind = "stats"})

\* A connection with Client r whose peer was sent g, where most is kMaxOutputBacklog.
Sound(r, g, runs, most) ==
    /\ r \in Clients /\ g \in Seq(Items)
    /\ Proper(g \o r.out, r.websocket, r.closing, runs)
    /\ Backlog(r.out) <= most + 1
    /\ Len(r.message) <= MaxMessage \/ r.closing

Connections ==
    /\ client \in [Conn -> Clients] /\ got \in [Conn -> Seq(Items)]
    /\ \A c \in Conn : Sound(client[c], got[c], running, limits.maxBacklog)

\* Only connections that were accepted are served.
Table ==
    /\ accepted \subseteq Conn /\ left \subseteq accepted
    /\ clients \in Seq(accepted) /\ IsInjective(clients)
    /\ todo \in Seq(Calls(accepted))
    /\ \A c \in Conn \ accepted : client[c] = NewClient /\ got[c] = << >>

Counts ==
    /\ script \in {s.script : s \in Setups} /\ limits.maxBacklog \in Nat
    /\ \A c \in Conn : script[c] \in Seq(Inputs)
    /\ taken \in [Conn -> Nat] /\ \A c \in Conn : taken[c] <= Len(script[c])
    /\ IsSequence(published) /\ latest \in -1 .. Len(published)
    /\ push \in BOOLEAN /\ running \in BOOLEAN

CsInv == Connections /\ Table /\ Counts

-----------------------------------------------------------------------------
(* Sequences.                                                              *)

\* A sequence of sequences made one.
LEMMA FlattenDef ==
    ASSUME NEW s, Len(s) # 0
    PROVE  FlattenSeq(s) =
             (CHOOSE g : g = [i \in 1 .. Len(s) |->
                                 IF i = 1 THEN s[i] ELSE g[i - 1] \o s[i]])[Len(s)]
BY Zenon DEF FlattenSeq

LEMMA FlattenedParts ==
    ASSUME NEW S, NEW s \in Seq(Seq(S))
    PROVE  \E f : /\ \A i \in 1 .. Len(s) : f[i] = IF i = 1 THEN s[i] ELSE f[i - 1] \o s[i]
                  /\ Len(s) # 0 => FlattenSeq(s) = f[Len(s)]
<1> DEFINE n == Len(s)
           Flat(g, m) == g = [i \in 1 .. m |-> IF i = 1 THEN s[i] ELSE g[i - 1] \o s[i]]
           T == {m \in Nat : ~ \E g : Flat(g, m)}
<1>1. n \in Nat /\ \A i \in 1 .. n : s[i] \in Seq(S)
  BY LenProperties, ElementOfSeq
<1>2. ASSUME NEW m \in T, \A j \in T : m <= j
      PROVE  FALSE
  <2>1. CASE m = 0
    <3>1. Flat([i \in 1 .. 0 |-> 0], 0)
      OBVIOUS
    <3> HIDE DEF Flat
    <3> QED
      BY <2>1, <3>1
  <2>2. CASE m # 0
    <3>1. m - 1 \in Nat /\ ~(m <= m - 1) /\ m \in Nat
      BY <2>2
    <3>2. m - 1 \notin T
      <4> HIDE DEF T
      <4> QED
        BY <1>2, <3>1
    <3>3. PICK h : Flat(h, m - 1)
      BY <3>1, <3>2
    <3> DEFINE g == [i \in 1 .. m |-> IF i = 1 THEN s[i] ELSE h[i - 1] \o s[i]]
    <3>4. ASSUME NEW i \in 1 .. m - 1 PROVE g[i] = h[i]
      <4>1. i \in 1 .. m
        BY <3>1
      <4>2. h = [j \in 1 .. m - 1 |-> IF j = 1 THEN s[j] ELSE h[j - 1] \o s[j]]
        BY <3>3
      <4>3. h[i] = IF i = 1 THEN s[i] ELSE h[i - 1] \o s[i]
        BY <4>2, Zenon
      <4> QED
        BY <4>1, <4>3
    <3>5. ASSUME NEW i \in 1 .. m, i # 1 PROVE g[i - 1] = h[i - 1]
      <4>1. i - 1 \in 1 .. m - 1
        BY <3>1, <3>5
      <4> QED
        BY <3>4, <4>1
    <3>6. g = [i \in 1 .. m |-> IF i = 1 THEN s[i] ELSE g[i - 1] \o s[i]]
      <4>1. \A i \in 1 .. m : g[i] = IF i = 1 THEN s[i] ELSE g[i - 1] \o s[i]
        BY <3>5
      <4> QED
        BY <4>1
    <3> HIDE DEF g
    <3> QED
      BY <3>6
  <2> QED
    BY <2>1, <2>2
<1>3. T = {}
  <2>1. T \in SUBSET Nat
    OBVIOUS
  <2> HIDE DEF T
  <2> QED
    BY <1>2, <2>1, LeastElement
<1> DEFINE f == CHOOSE g : Flat(g, n)
<1>4. Flat(f, n)
  BY <1>1, <1>3
<1>5. \A i \in 1 .. n : f[i] = IF i = 1 THEN s[i] ELSE f[i - 1] \o s[i]
  <2> HIDE DEF f
  <2> QED
    BY <1>4, Zenon
<1>6. n # 0 => FlattenSeq(s) = f[n]
  BY FlattenDef
<1> HIDE DEF f
<1> QED
  BY <1>5, <1>6

LEMMA Flattened ==
    ASSUME NEW S, NEW s \in Seq(Seq(S))
    PROVE  FlattenSeq(s) \in Seq(S)
<1> DEFINE n == Len(s)
<1>1. n \in Nat /\ \A i \in 1 .. n : s[i] \in Seq(S)
  BY LenProperties, ElementOfSeq
<1>2. PICK f : /\ \A i \in 1 .. n : f[i] = IF i = 1 THEN s[i] ELSE f[i - 1] \o s[i]
               /\ n # 0 => FlattenSeq(s) = f[n]
  BY FlattenedParts
<1> DEFINE U == {i \in 1 .. n : f[i] \notin Seq(S)}
<1>3. ASSUME NEW i \in U, \A j \in U : i <= j PROVE FALSE
  <2>1. i \in 1 .. n /\ f[i] \notin Seq(S)
    OBVIOUS
  <2>2. CASE i = 1
    BY <1>1, <1>2, <2>1, <2>2
  <2>3. CASE i # 1
    <3>1. i - 1 \in 1 .. n /\ ~(i <= i - 1)
      BY <1>1, <2>1, <2>3
    <3>2. f[i - 1] \in Seq(S)
      BY <1>3, <3>1
    <3>3. f[i] = f[i - 1] \o s[i]
      BY <1>2, <2>1, <2>3
    <3> QED
      BY <1>1, <2>1, <3>2, <3>3, ConcatProperties
  <2> QED
    BY <2>2, <2>3
<1>4. U = {}
  <2>1. U \in SUBSET Nat
    BY <1>1
  <2> HIDE DEF U
  <2> QED
    BY <1>3, <2>1, LeastElement
<1>5. CASE n = 0
  <2>1. FlattenSeq(s) = s /\ s = << >>
    <3>1. s = << >>
      BY <1>5, EmptySeq
    <3> QED
      BY <1>5, <3>1 DEF FlattenSeq
  <2> QED
    BY <2>1
<1>6. CASE n # 0
  <2>1. FlattenSeq(s) = f[n]
    BY <1>2, <1>6
  <2>2. n \in 1 .. n
    BY <1>1, <1>6
  <2> QED
    BY <1>4, <2>1, <2>2
<1> QED
  BY <1>5, <1>6

\* One more of them goes behind.
LEMMA FlattenNext ==
    ASSUME NEW S, NEW s \in Seq(Seq(S)), NEW x \in Seq(S)
    PROVE  FlattenSeq(Append(s, x)) = FlattenSeq(s) \o x
<1> DEFINE n == Len(s)
           t == Append(s, x)
<1>1. n \in Nat /\ \A i \in 1 .. n : s[i] \in Seq(S)
  BY LenProperties, ElementOfSeq
<1>2. /\ t \in Seq(Seq(S)) /\ Len(t) = n + 1 /\ t[n + 1] = x
      /\ \A i \in 1 .. n : t[i] = s[i]
  BY AppendProperties
<1> HIDE DEF t
<1>3. PICK f : /\ \A i \in 1 .. n : f[i] = IF i = 1 THEN s[i] ELSE f[i - 1] \o s[i]
               /\ n # 0 => FlattenSeq(s) = f[n]
  BY FlattenedParts
<1>4. PICK g : /\ \A i \in 1 .. n + 1 : g[i] = IF i = 1 THEN t[i] ELSE g[i - 1] \o t[i]
               /\ FlattenSeq(t) = g[n + 1]
  <2>1. \E g : /\ \A i \in 1 .. Len(t) : g[i] = IF i = 1 THEN t[i] ELSE g[i - 1] \o t[i]
               /\ Len(t) # 0 => FlattenSeq(t) = g[Len(t)]
    BY <1>2, FlattenedParts
  <2>2. n + 1 # 0
    BY <1>1
  <2> QED
    BY <1>2, <2>1, <2>2
<1> DEFINE U == {i \in 1 .. n : f[i] # g[i]}
<1>5. ASSUME NEW i \in U, \A j \in U : i <= j PROVE FALSE
  <2>1. i \in 1 .. n /\ i \in 1 .. n + 1 /\ f[i] # g[i] /\ t[i] = s[i]
    BY <1>1, <1>2
  <2>2. f[i] = IF i = 1 THEN s[i] ELSE f[i - 1] \o s[i]
    BY <1>3, <2>1
  <2>3. g[i] = IF i = 1 THEN s[i] ELSE g[i - 1] \o s[i]
    BY <1>4, <2>1
  <2>4. CASE i = 1
    BY <2>1, <2>2, <2>3, <2>4
  <2>5. CASE i # 1
    <3>1. i - 1 \in 1 .. n /\ ~(i <= i - 1)
      BY <1>1, <2>1, <2>5
    <3>2. f[i - 1] = g[i - 1]
      BY <1>5, <3>1
    <3> QED
      BY <2>1, <2>2, <2>3, <2>5, <3>2
  <2> QED
    BY <2>4, <2>5
<1>6. U = {}
  <2>1. U \in SUBSET Nat
    BY <1>1
  <2> HIDE DEF U
  <2> QED
    BY <1>5, <2>1, LeastElement
<1>7. n + 1 \in 1 .. n + 1 /\ n + 1 - 1 = n
  BY <1>1
<1>8. FlattenSeq(t) = IF n = 0 THEN x ELSE g[n] \o x
  BY <1>1, <1>2, <1>4, <1>7
<1>9. CASE n = 0
  <2>1. s = << >>
    BY <1>9, EmptySeq
  <2>2. FlattenSeq(s) = << >>
    BY <2>1, EmptySeq DEF FlattenSeq
  <2>3. << >> \o x = x
    BY ConcatEmptySeq
  <2> QED
    BY <1>8, <1>9, <2>2, <2>3 DEF t
<1>10. CASE n # 0
  <2>1. n \in 1 .. n
    BY <1>1, <1>10
  <2>2. g[n] = FlattenSeq(s)
    BY <1>3, <1>6, <1>10, <2>1
  <2> QED
    BY <1>8, <1>10, <2>2 DEF t
<1> QED
  BY <1>9, <1>10

-----------------------------------------------------------------------------
(* One connection.                                                         *)

\* One more item behind a queue.
LEMMA OneMore ==
    ASSUME NEW S, NEW o \in Seq(S), NEW x \in S
    PROVE  o \o <<x>> = Append(o, x)
<1>1. << >> \in Seq(S) /\ Append(<< >>, x) = <<x>> /\ o \o << >> = o
  BY EmptySeq, ConcatEmptySeq
<1> QED
  BY <1>1, JoinedAppend

\* What a queue holds of statistics is no more than its length.
LEMMA BacklogBound ==
    ASSUME NEW o \in Seq(Items)
    PROVE  /\ IsFiniteSet({i \in DOMAIN o : o[i].kind = "stats"})
           /\ Backlog(o) \in Nat /\ Backlog(o) <= Len(o)
<1> DEFINE I == {i \in DOMAIN o : o[i].kind = "stats"}
<1>1. Len(o) \in Nat /\ I \in SUBSET (1 .. Len(o))
  BY LenProperties
<1> HIDE DEF I
<1>2. /\ 1 \in Int /\ Len(o) \in Int
      /\ IsFiniteSet(1 .. Len(o))
      /\ Cardinality(1 .. Len(o)) = IF 1 > Len(o) THEN 0 ELSE Len(o) - 1 + 1
  BY <1>1, FS_Interval
<1>3. IsFiniteSet(I) /\ Cardinality(I) <= Cardinality(1 .. Len(o)) /\ Cardinality(I) \in Nat
  BY <1>1, <1>2, FS_Subset, FS_CardinalityType
<1>4. Cardinality(I) <= Len(o)
  BY <1>1, <1>2, <1>3
<1> QED
  BY <1>3, <1>4 DEF I, Backlog

\* It grows by statistics only.
LEMMA BacklogAppend ==
    ASSUME NEW o \in Seq(Items), NEW x \in Items
    PROVE  /\ Backlog(Append(o, x)) <= Backlog(o) + 1
           /\ x.kind # "stats" => Backlog(Append(o, x)) = Backlog(o)
<1> DEFINE p == Append(o, x)
           I == {i \in DOMAIN o : o[i].kind = "stats"}
           J == {i \in DOMAIN p : p[i].kind = "stats"}
<1>1. /\ Len(o) \in Nat /\ DOMAIN o = 1 .. Len(o)
      /\ p \in Seq(Items) /\ Len(p) = Len(o) + 1 /\ p[Len(o) + 1] = x
      /\ DOMAIN p = 1 .. Len(o) + 1
      /\ \A i \in 1 .. Len(o) : p[i] = o[i]
  <2>1. /\ p \in Seq(Items) /\ Len(p) = Len(o) + 1 /\ p[Len(o) + 1] = x
        /\ \A i \in 1 .. Len(o) : p[i] = o[i]
    BY AppendProperties
  <2> HIDE DEF p
  <2>2. DOMAIN p = 1 .. Len(p) /\ Len(o) \in Nat /\ DOMAIN o = 1 .. Len(o)
    BY <2>1, LenProperties
  <2> QED
    BY <2>1, <2>2
<1>2. IsFiniteSet(I) /\ Cardinality(I) \in Nat
  BY BacklogBound DEF Backlog
<1> HIDE DEF p
<1>3. CASE x.kind # "stats"
  <2>1. J = I
    BY <1>1, <1>3
  <2>2. Backlog(p) = Backlog(o)
    BY <2>1, Zenon DEF Backlog
  <2>3. Backlog(o) \in Nat
    BY BacklogBound
  <2> QED
    BY <1>3, <2>2, <2>3 DEF p
<1>4. CASE x.kind = "stats"
  <2>1. J = I \cup {Len(o) + 1}
    BY <1>1, <1>4
  <2> HIDE DEF I, J
  <2>2. Cardinality(I \cup {Len(o) + 1}) <= Cardinality(I) + 1
    <3>1. \/ Cardinality(I \cup {Len(o) + 1}) = Cardinality(I)
          \/ Cardinality(I \cup {Len(o) + 1}) = Cardinality(I) + 1
      BY <1>2, FS_AddElement, Zenon
    <3> QED
      BY <1>2, <3>1
  <2>3. Cardinality(J) <= Cardinality(I) + 1
    BY <2>1, <2>2
  <2> QED
    BY <1>4, <2>3 DEF Backlog, I, J, p
<1> QED
  BY <1>3, <1>4

\* A change that leaves the queue alone.
LEMMA QueueKept ==
    ASSUME NEW r, NEW g, NEW runs \in BOOLEAN, NEW most, Sound(r, g, runs, most),
           NEW q \in Clients, q.out = r.out,
           q.websocket = r.websocket, q.closing = r.closing,
           Len(q.message) <= MaxMessage \/ q.closing,
           NEW still \in BOOLEAN, still => runs
    PROVE  Sound(q, g, still, most)
BY DEF Sound, Proper

\* A connection that has not begun.
LEMMA NothingYet ==
    ASSUME NEW r, NEW g, NEW runs, NEW most, Sound(r, g, runs, most),
           ~r.websocket, ~r.closing
    PROVE  g = << >> /\ r.out = << >> /\ Len(r.message) <= MaxMessage
<1>1. g \o r.out = << >> /\ g \in Seq(Items) /\ r.out \in Seq(Items)
  BY DEF Sound, Proper, Clients
<1>2. Len(g \o r.out) = Len(g) + Len(r.out) /\ Len(g) \in Nat /\ Len(r.out) \in Nat
  BY <1>1, Joined
<1>3. Len(g) = 0 /\ Len(r.out) = 0
  BY <1>1, <1>2, EmptySeq
<1> QED
  BY <1>1, <1>3, EmptySeq DEF Sound

\* Its first item is a response, which ends it, or the handshake.
LEMMA Responded ==
    ASSUME NEW r, NEW g, NEW runs \in BOOLEAN, NEW most \in Nat, Sound(r, g, runs, most),
           ~r.websocket, ~r.closing,
           NEW x \in Items, x.kind = "response",
           NEW q \in Clients, q.out = <<x>>, ~q.websocket, q.closing
    PROVE  Sound(q, g, runs, most)
<1>1. g = << >> /\ << >> \in Seq(Items) /\ <<x>> = Append(<< >>, x)
  BY NothingYet
<1>2. Backlog(<<x>>) = Backlog(<< >>)
  BY <1>1, BacklogAppend
<1>3. Backlog(<< >>) <= 0
  BY <1>1, BacklogBound
<1>4. Backlog(<< >>) \in Nat
  BY <1>1, BacklogBound
<1>5. g \o q.out = <<x>>
  <2>1. << >> \o <<x>> = <<x>>
    BY OneMore, <1>1
  <2> QED
    BY <1>1, <2>1
<1>6. Proper(<<x>>, q.websocket, q.closing, runs)
  BY DEF Proper
<1>7. Backlog(<<x>>) <= most + 1
  BY <1>2, <1>3, <1>4
<1>8. Proper(g \o q.out, q.websocket, q.closing, runs) /\ Backlog(q.out) <= most + 1
  BY <1>5, <1>6, <1>7
<1> QED
  BY <1>1, <1>8 DEF Sound

LEMMA Upgraded ==
    ASSUME NEW r, NEW g, NEW runs \in BOOLEAN, NEW most \in Nat, Sound(r, g, runs, most),
           ~r.websocket, ~r.closing,
           NEW x \in Items, x.kind = "hello", NEW y \in Items, y.kind = "stats",
           NEW q \in Clients, q.out = <<x, y>>, q.websocket, ~q.closing,
           q.message = r.message
    PROVE  Sound(q, g, runs, most)
<1>1. /\ g = << >> /\ << >> \in Seq(Items) /\ <<x>> = Append(<< >>, x)
      /\ <<x, y>> = Append(<<x>>, y) /\ <<x>> \in Seq(Items) /\ <<x, y>> \in Seq(Items)
      /\ Len(r.message) <= MaxMessage
  BY NothingYet
<1>2. Backlog(<<x>>) = Backlog(<< >>)
  BY <1>1, BacklogAppend
<1>3. Backlog(<<x, y>>) <= Backlog(<<x>>) + 1
  BY <1>1, BacklogAppend
<1>4. Backlog(<< >>) <= 0 /\ Backlog(<< >>) \in Nat /\ Backlog(<<x, y>>) \in Nat
  BY <1>1, BacklogBound
<1>5. g \o q.out = <<x, y>>
  BY <1>1
<1>6. Proper(<<x, y>>, q.websocket, q.closing, runs)
  BY DEF Proper
<1>7. Backlog(<<x, y>>) <= most + 1
  BY <1>2, <1>3, <1>4
<1>8. Proper(g \o q.out, q.websocket, q.closing, runs) /\ Backlog(q.out) <= most + 1
  BY <1>5, <1>6, <1>7
<1> QED
  BY <1>1, <1>8 DEF Sound

\* One more item on a WebSocket that is not about to close, or when all ends.
LEMMA Sent ==
    ASSUME NEW r, NEW g, NEW runs \in BOOLEAN, NEW most \in Nat, Sound(r, g, runs, most),
           r.websocket,
           NEW still \in BOOLEAN, still => runs /\ ~r.closing,
           NEW x \in Items, x.kind = "stats" => Len(r.out) <= most, x.kind # "response",
           NEW q \in Clients, q.out = Append(r.out, x), q.websocket,
           x.kind = "close" /\ still => q.closing,
           Len(q.message) <= MaxMessage \/ q.closing
    PROVE  Sound(q, g, still, most)
<1> DEFINE s == g \o r.out
           t == g \o q.out
<1>1. r \in Clients /\ g \in Seq(Items) /\ r.out \in Seq(Items) /\ s \in Seq(Items) /\ Len(s) \in Nat
  <2>1. r \in Clients /\ g \in Seq(Items)
    BY DEF Sound
  <2>2. r.out \in Seq(Items)
    BY <2>1 DEF Clients
  <2>3. s \in Seq(Items) /\ Len(g) \in Nat /\ Len(r.out) \in Nat /\ Len(s) = Len(g) + Len(r.out)
    BY <2>1, <2>2, Joined
  <2> QED
    BY <2>1, <2>2, <2>3
<1>2. t = Append(s, x)
  <2>1. g \in Seq(Items) /\ r.out \in Seq(Items)
    BY <1>1
  <2> QED
    BY <2>1, JoinedAppend
<1>3. /\ t \in Seq(Items) /\ Len(t) = Len(s) + 1 /\ t[Len(s) + 1] = x
      /\ \A i \in 1 .. Len(s) : t[i] = s[i]
  <2> HIDE DEF s, t
  <2> QED
    BY <1>1, <1>2, AppendProperties
<1>4. Proper(s, TRUE, r.closing, runs)
  BY DEF Sound
<1>5. Proper(t, TRUE, q.closing, still)
  <2> HIDE DEF s, t
  <2>1. Len(t) >= 2 /\ t[1].kind = "hello" /\ t[2].kind = "stats"
    <3>1. Len(s) >= 2 /\ s[1].kind = "hello" /\ s[2].kind = "stats"
      BY <1>4 DEF Proper
    <3>2. 1 \in 1 .. Len(s) /\ 2 \in 1 .. Len(s) /\ Len(t) >= 2
      BY <1>1, <1>3, <3>1
    <3> QED
      BY <1>3, <3>1, <3>2
  <2>2. ASSUME still, NEW i \in 1 .. Len(t), t[i].kind \in {"response", "close"}
        PROVE  q.closing /\ i = Len(t)
    <3>1. CASE i \in 1 .. Len(s)
      <4>1. s[i].kind \in {"response", "close"} => r.closing
        BY <1>4, <2>2, <3>1 DEF Proper
      <4> QED
        BY <1>3, <2>2, <3>1, <4>1
    <3>2. CASE i = Len(s) + 1
      BY <1>3, <2>2, <3>2
    <3>3. i \in 1 .. Len(s) \/ i = Len(s) + 1
      BY <1>1, <1>3
    <3> QED
      BY <3>1, <3>2, <3>3
  <2>3. ASSUME NEW i \in 1 .. Len(t) PROVE t[i].kind # "response"
    <3>1. CASE i \in 1 .. Len(s)
      BY <1>3, <1>4, <3>1 DEF Proper
    <3>2. CASE i = Len(s) + 1
      BY <1>3, <3>2
    <3> QED
      BY <1>1, <1>3, <3>1, <3>2
  <2> QED
    BY <2>1, <2>2, <2>3 DEF Proper
<1>6. Backlog(q.out) <= most + 1
  <2>1. Backlog(r.out) \in Nat /\ Backlog(r.out) <= Len(r.out) /\ Backlog(r.out) <= most + 1
    BY <1>1, BacklogBound DEF Sound
  <2>2. /\ Backlog(q.out) <= Backlog(r.out) + 1
        /\ x.kind # "stats" => Backlog(q.out) = Backlog(r.out)
    BY <1>1, BacklogAppend
  <2>3. Backlog(q.out) \in Nat /\ Len(r.out) \in Nat
    <3>1. q.out \in Seq(Items)
      BY DEF Clients
    <3> QED
      BY <1>1, <3>1, BacklogBound, LenProperties
  <2>4. CASE x.kind = "stats"
    <3>1. Len(r.out) <= most
      BY <2>4
    <3> QED
      BY <2>1, <2>2, <2>3, <3>1
  <2>5. CASE x.kind # "stats"
    BY <2>1, <2>2, <2>5
  <2> QED
    BY <2>4, <2>5
<1> QED
  BY <1>1, <1>5, <1>6 DEF Sound

\* What is left of a sequence behind its first k elements.
LEMMA RestOf ==
    ASSUME NEW S, NEW o \in Seq(S), NEW k \in 0 .. Len(o)
    PROVE  /\ SubSeq(o, k + 1, Len(o)) \in Seq(S)
           /\ Len(SubSeq(o, k + 1, Len(o))) = Len(o) - k
           /\ \A i \in 1 .. Len(o) - k : SubSeq(o, k + 1, Len(o))[i] = o[k + i]
<1>1. Len(o) \in Nat /\ k \in Int /\ k + 1 \in Int /\ Len(o) \in Int
  BY LenProperties
<1>2. \A i \in k + 1 .. Len(o) : o[i] \in S
  <2>1. \A i \in k + 1 .. Len(o) : i \in 1 .. Len(o)
    BY <1>1
  <2> QED
    BY <2>1, ElementOfSeq
<1>3. /\ SubSeq(o, k + 1, Len(o)) \in Seq(S)
      /\ Len(SubSeq(o, k + 1, Len(o))) = IF k + 1 <= Len(o) THEN Len(o) - (k + 1) + 1 ELSE 0
      /\ \A i \in 1 .. Len(o) - (k + 1) + 1 : SubSeq(o, k + 1, Len(o))[i] = o[k + 1 + i - 1]
  BY <1>1, <1>2, SubSeqProperties
<1>4. Len(SubSeq(o, k + 1, Len(o))) = Len(o) - k
  BY <1>1, <1>3
<1>5. ASSUME NEW i \in 1 .. Len(o) - k PROVE SubSeq(o, k + 1, Len(o))[i] = o[k + i]
  <2>1. i \in 1 .. Len(o) - (k + 1) + 1 /\ k + 1 + i - 1 = k + i
    BY <1>1
  <2> QED
    BY <1>3, <2>1
<1> QED
  BY <1>3, <1>4, <1>5

\* Statistics that repeat those in front of them may be left out.
LEMMA RepeatedLeftOut ==
    ASSUME NEW s \in Seq(Items), NEW t \in Seq(Items), NEW ws, NEW cl, NEW runs,
           Proper(s, ws, cl, runs), ws \in BOOLEAN, cl \in BOOLEAN,
           NEW k \in 1 .. Len(s) - 1, s[k].kind = "stats",
           Len(t) = Len(s) - 1,
           \A i \in 1 .. k : t[i] = s[i], \A i \in k + 1 .. Len(t) : t[i] = s[i + 1]
    PROVE  Proper(t, ws, cl, runs)
<1>1. Len(s) \in Nat /\ Len(t) \in Nat
  BY LenProperties
<1>2. Len(s) >= 2 /\ Len(s) # 0 /\ Len(s) # 1
  BY <1>1
<1>3. ws
  <2>1. CASE ~ws /\ ~cl
    BY <1>2, <2>1, EmptySeq DEF Proper
  <2>2. CASE ~ws /\ cl
    BY <1>2, <2>2 DEF Proper
  <2> QED
    BY <2>1, <2>2
<1>4. s[1].kind = "hello" /\ s[2].kind = "stats"
  BY <1>3 DEF Proper
<1>5. k # 1
  BY <1>4
<1>6. k >= 2 /\ 1 \in 1 .. k /\ 2 \in 1 .. k
  BY <1>1, <1>5
<1>7. Len(t) >= 2 /\ t[1].kind = "hello" /\ t[2].kind = "stats"
  <2>1. Len(t) >= 2
    BY <1>1, <1>6
  <2>2. t[1] = s[1] /\ t[2] = s[2]
    BY <1>6
  <2> QED
    BY <1>4, <2>1, <2>2
<1>8. ASSUME runs, NEW i \in 1 .. Len(t), t[i].kind \in {"response", "close"}
      PROVE  cl /\ i = Len(t)
  <2>1. CASE i \in 1 .. k
    <3>1. i \in 1 .. Len(s) /\ i # Len(s)
      BY <1>1, <2>1
    <3>2. t[i] = s[i]
      BY <2>1
    <3> QED
      BY <1>8, <3>1, <3>2 DEF Proper
  <2>2. CASE i \in k + 1 .. Len(t)
    <3>1. i + 1 \in 1 .. Len(s)
      BY <1>1, <2>2
    <3>2. t[i] = s[i + 1]
      BY <2>2
    <3>3. cl /\ i + 1 = Len(s)
      BY <1>8, <3>1, <3>2 DEF Proper
    <3> QED
      BY <1>1, <3>3
  <2>3. i \in 1 .. k \/ i \in k + 1 .. Len(t)
    BY <1>1
  <2> QED
    BY <2>1, <2>2, <2>3
<1>9. ASSUME NEW i \in 1 .. Len(t) PROVE t[i].kind # "response"
  <2>1. i \in 1 .. k \/ i \in k + 1 .. Len(t)
    BY <1>1
  <2>2. CASE i \in 1 .. k
    <3>1. i \in 1 .. Len(s) /\ t[i] = s[i]
      BY <1>1, <2>2
    <3> QED
      BY <1>3, <3>1 DEF Proper
  <2>3. CASE i \in k + 1 .. Len(t)
    <3>1. i + 1 \in 1 .. Len(s) /\ t[i] = s[i + 1]
      BY <1>1, <2>3
    <3> QED
      BY <1>3, <3>1 DEF Proper
  <2> QED
    BY <2>1, <2>2, <2>3
<1> QED
  BY <1>3, <1>7, <1>8, <1>9 DEF Proper

\* One item goes from the queue to the peer.
LEMMA OneReceived ==
    ASSUME NEW h \in Seq(Items), NEW o \in Seq(Items), NEW k \in 1 .. Len(o),
           NEW ws \in BOOLEAN, NEW cl \in BOOLEAN, NEW runs,
           Proper(h \o SubSeq(o, k - 1 + 1, Len(o)), ws, cl, runs)
    PROVE  /\ With(h, o[k]) \in Seq(Items)
           /\ Proper(With(h, o[k]) \o SubSeq(o, k + 1, Len(o)), ws, cl, runs)
<1> DEFINE u == SubSeq(o, k - 1 + 1, Len(o))
           v == SubSeq(o, k + 1, Len(o))
           w == With(h, o[k])
           s == h \o u
           t == w \o v
<1>1. Len(o) \in Nat /\ k \in Nat /\ k <= Len(o) /\ k >= 1 /\ o[k] \in Items
  BY LenProperties, ElementOfSeq
<1>2. u \in Seq(Items) /\ Len(u) = Len(o) - (k - 1) /\ \A i \in 1 .. Len(o) - (k - 1) : u[i] = o[k - 1 + i]
  <2>1. k - 1 \in 0 .. Len(o)
    BY <1>1
  <2> QED
    BY <2>1, RestOf
<1>3. v \in Seq(Items) /\ Len(v) = Len(o) - k /\ \A i \in 1 .. Len(o) - k : v[i] = o[k + i]
  <2>1. k \in 0 .. Len(o)
    BY <1>1
  <2> QED
    BY <2>1, RestOf
<1> HIDE DEF u, v
<1>4. /\ s \in Seq(Items) /\ Len(s) = Len(h) + Len(u) /\ Len(h) \in Nat /\ Len(u) \in Nat
      /\ \A i \in 1 .. Len(h) : s[i] = h[i]
      /\ \A i \in 1 .. Len(u) : s[Len(h) + i] = u[i]
  <2>1. u \in Seq(Items)
    BY <1>2
  <2> QED
    BY <2>1, Joined
<1>5. /\ \A i \in 1 .. Len(o) - (k - 1) : s[Len(h) + i] = o[k - 1 + i]
      /\ Len(s) = Len(h) + Len(o) - k + 1
  BY <1>1, <1>2, <1>4
<1>6. CASE w = Append(h, o[k])
  <2>1. /\ w \in Seq(Items) /\ Len(w) = Len(h) + 1 /\ w[Len(h) + 1] = o[k]
        /\ \A i \in 1 .. Len(h) : w[i] = h[i]
    BY <1>1, <1>6, AppendProperties
  <2> HIDE DEF w
  <2>2. /\ t \in Seq(Items) /\ Len(t) = Len(w) + Len(v) /\ Len(w) \in Nat /\ Len(v) \in Nat
        /\ \A i \in 1 .. Len(w) : t[i] = w[i]
        /\ \A i \in 1 .. Len(v) : t[Len(w) + i] = v[i]
    <3>1. v \in Seq(Items) /\ w \in Seq(Items)
      BY <1>3, <2>1
    <3> QED
      BY <3>1, Joined
  <2> HIDE DEF s, t
  <2>3. Len(t) = Len(s)
    <3>1. Len(t) = Len(h) + 1 + (Len(o) - k)
      BY <1>3, <2>1, <2>2
    <3>2. Len(s) = Len(h) + Len(o) - k + 1 /\ Len(h) \in Nat
      BY <1>4, <1>5
    <3> QED
      BY <1>1, <3>1, <3>2
  <2>4. ASSUME NEW i \in 1 .. Len(t) PROVE t[i] = s[i]
    <3>1. CASE i \in 1 .. Len(h)
      <4>1. i \in 1 .. Len(w)
        BY <1>4, <2>1, <3>1
      <4> QED
        BY <1>4, <2>1, <2>2, <3>1, <4>1
    <3>2. CASE i = Len(h) + 1
      <4>1. i \in 1 .. Len(w) /\ 1 \in 1 .. Len(o) - (k - 1) /\ k - 1 + 1 = k
        BY <1>1, <1>4, <2>1, <3>2
      <4>2. s[Len(h) + 1] = o[k - 1 + 1]
        BY <1>5, <4>1
      <4>3. t[i] = w[i]
        BY <2>2, <4>1
      <4>4. o[k - 1 + 1] = o[k]
        BY <4>1
      <4> QED
        BY <2>1, <3>2, <4>2, <4>3, <4>4
    <3>3. CASE i > Len(h) + 1
      <4> DEFINE j == i - (Len(h) + 1)
      <4>1. /\ j \in 1 .. Len(v) /\ Len(w) + j = i /\ j \in 1 .. Len(o) - k
            /\ j + 1 \in 1 .. Len(o) - (k - 1) /\ Len(h) + (j + 1) = i /\ k - 1 + (j + 1) = k + j
        BY <1>1, <1>3, <1>4, <2>1, <2>2, <3>3
      <4> HIDE DEF j
      <4>2. t[Len(w) + j] = v[j] /\ v[j] = o[k + j]
        BY <1>3, <2>2, <4>1
      <4>3. s[Len(h) + (j + 1)] = o[k - 1 + (j + 1)]
        BY <1>5, <4>1
      <4> QED
        BY <4>1, <4>2, <4>3
    <3> QED
      BY <1>4, <2>2, <2>1, <3>1, <3>2, <3>3
  <2>5. t = s
    BY <1>4, <2>2, <2>3, <2>4, SeqEqual
  <2> QED
    BY <2>1, <2>5 DEF s, t, u, v, w
<1>7. CASE w # Append(h, o[k])
  <2>1. w = h /\ h # << >> /\ Last(h) = o[k] /\ o[k].kind = "stats"
    BY <1>7 DEF With
  <2>2. Len(h) >= 1 /\ h[Len(h)] = o[k]
    <3>1. Len(h) \in Nat \ {0}
      BY <2>1, EmptySeq
    <3> QED
      BY <2>1, <3>1 DEF Last
  <2> HIDE DEF w
  <2>3. /\ t \in Seq(Items) /\ Len(t) = Len(h) + Len(v) /\ Len(v) \in Nat
        /\ \A i \in 1 .. Len(h) : t[i] = h[i]
        /\ \A i \in 1 .. Len(v) : t[Len(h) + i] = v[i]
    <3>1. v \in Seq(Items) /\ t = h \o v
      BY <1>3, <2>1
    <3> HIDE DEF t
    <3> QED
      BY <3>1, Joined
  <2> HIDE DEF s, t
  <2>4. Len(h) \in 1 .. Len(s) - 1 /\ Len(t) = Len(s) - 1
    <3>1. Len(t) = Len(h) + (Len(o) - k) /\ Len(s) = Len(h) + Len(o) - k + 1
      BY <1>3, <1>5, <2>3
    <3>2. Len(h) \in Nat /\ Len(h) >= 1
      BY <1>4, <2>2
    <3> QED
      BY <1>1, <3>1, <3>2
  <2>5. s[Len(h)].kind = "stats"
    <3>1. Len(h) \in 1 .. Len(h)
      BY <1>4, <2>2
    <3> QED
      BY <1>4, <2>1, <2>2, <3>1
  <2>6. \A i \in 1 .. Len(h) : t[i] = s[i]
    BY <1>4, <2>3
  <2>7. ASSUME NEW i \in Len(h) + 1 .. Len(t) PROVE t[i] = s[i + 1]
    <3> DEFINE j == i - Len(h)
    <3>1. /\ j \in 1 .. Len(v) /\ Len(h) + j = i /\ j \in 1 .. Len(o) - k
          /\ j + 1 \in 1 .. Len(o) - (k - 1) /\ Len(h) + (j + 1) = i + 1 /\ k - 1 + (j + 1) = k + j
      BY <1>1, <1>3, <1>4, <2>3
    <3> HIDE DEF j
    <3>2. t[Len(h) + j] = v[j] /\ v[j] = o[k + j]
      BY <1>3, <2>3, <3>1
    <3>3. s[Len(h) + (j + 1)] = o[k - 1 + (j + 1)]
      BY <1>5, <3>1
    <3> QED
      BY <3>1, <3>2, <3>3
  <2>8. Proper(s, ws, cl, runs)
    BY DEF s, u
  <2>9. Proper(t, ws, cl, runs)
    BY <1>4, <2>3, <2>4, <2>5, <2>6, <2>7, <2>8, RepeatedLeftOut
  <2> QED
    BY <2>1, <2>9 DEF t, v, w
<1> QED
  BY <1>6, <1>7

LEMMA ReceiveDef ==
    ASSUME NEW h, NEW items
    PROVE  Receive(h, items) =
             (CHOOSE has : has = [i \in 0 .. Len(items) |->
                                     IF i = 0 THEN h ELSE With(has[i - 1], items[i])])[Len(items)]
BY Zenon DEF Receive

\* What a peer has, item by item, when it is sent the first n items of o.
LEMMA ReceivedItems ==
    ASSUME NEW g \in Seq(Items), NEW o \in Seq(Items), NEW n \in 0 .. Len(o)
    PROVE  \E has : /\ has[0] = g /\ Receive(g, SubSeq(o, 1, n)) = has[n]
                    /\ \A i \in 1 .. n : has[i] = With(has[i - 1], o[i])
<1> DEFINE items == SubSeq(o, 1, n)
           Has(f, m) == f = [i \in 0 .. m |-> IF i = 0 THEN g ELSE With(f[i - 1], items[i])]
           T == {m \in Nat : ~ \E f : Has(f, m)}
<1>1. /\ Len(o) \in Nat /\ n \in Nat /\ n <= Len(o)
      /\ Len(items) = n /\ \A i \in 1 .. n : items[i] = o[i]
  <2>1. Len(o) \in Nat /\ n \in Nat /\ n <= Len(o) /\ 1 \in Int /\ n \in Int
    BY LenProperties
  <2>2. \A i \in 1 .. n : o[i] \in Items
    <3>1. \A i \in 1 .. n : i \in 1 .. Len(o)
      BY <2>1
    <3> QED
      BY <3>1, ElementOfSeq
  <2>3. /\ Len(items) = IF 1 <= n THEN n - 1 + 1 ELSE 0
        /\ \A i \in 1 .. n - 1 + 1 : items[i] = o[1 + i - 1]
    BY <2>1, <2>2, SubSeqProperties
  <2> HIDE DEF items
  <2>4. ASSUME NEW i \in 1 .. n PROVE items[i] = o[i]
    <3>1. i \in 1 .. n - 1 + 1 /\ 1 + i - 1 = i
      BY <2>1
    <3> QED
      BY <2>3, <3>1
  <2>5. Len(items) = n
    BY <2>1, <2>3
  <2> QED
    BY <2>1, <2>4, <2>5
<1> HIDE DEF items
<1>2. ASSUME NEW m \in T, \A j \in T : m <= j
      PROVE  FALSE
  <2>1. CASE m = 0
    <3>1. Has([i \in 0 .. 0 |-> g], 0)
      OBVIOUS
    <3> HIDE DEF Has
    <3> QED
      BY <2>1, <3>1
  <2>2. CASE m # 0
    <3>1. m - 1 \in Nat /\ ~(m <= m - 1) /\ m \in Nat
      BY <2>2
    <3>2. m - 1 \notin T
      <4> HIDE DEF T
      <4> QED
        BY <1>2, <3>1
    <3>3. PICK e : Has(e, m - 1)
      BY <3>1, <3>2
    <3> DEFINE f == [i \in 0 .. m |-> IF i = 0 THEN g ELSE With(e[i - 1], items[i])]
    <3>4. ASSUME NEW i \in 0 .. m - 1 PROVE f[i] = e[i]
      <4>1. i \in 0 .. m
        BY <3>1
      <4>2. e = [j \in 0 .. m - 1 |-> IF j = 0 THEN g ELSE With(e[j - 1], items[j])]
        BY <3>3
      <4>3. e[i] = IF i = 0 THEN g ELSE With(e[i - 1], items[i])
        BY <4>2, Zenon
      <4>4. f[i] = IF i = 0 THEN g ELSE With(e[i - 1], items[i])
        BY <4>1, Zenon
      <4> QED
        BY <4>3, <4>4
    <3>5. ASSUME NEW i \in 0 .. m, i # 0 PROVE f[i - 1] = e[i - 1]
      <4>1. i - 1 \in 0 .. m - 1
        BY <3>1, <3>5
      <4> HIDE DEF f
      <4> QED
        BY <3>4, <4>1
    <3>6. f = [i \in 0 .. m |-> IF i = 0 THEN g ELSE With(f[i - 1], items[i])]
      <4>1. \A i \in 0 .. m : (IF i = 0 THEN g ELSE With(e[i - 1], items[i]))
                               = IF i = 0 THEN g ELSE With(f[i - 1], items[i])
        <5> HIDE DEF f
        <5> QED
          BY <3>5, Zenon
      <4> QED
        BY <4>1, Zenon
    <3> HIDE DEF f
    <3> QED
      BY <3>6
  <2> QED
    BY <2>1, <2>2
<1>3. T = {}
  <2>1. T \in SUBSET Nat
    OBVIOUS
  <2> HIDE DEF T
  <2> QED
    BY <1>2, <2>1, LeastElement
<1> DEFINE has == CHOOSE f : Has(f, n)
<1>4. Has(has, n)
  <2> HIDE DEF Has
  <2>1. \E f : Has(f, n)
    <3>1. n \in Nat
      BY <1>1
    <3>2. n \notin T
      <4> HIDE DEF T
      <4> QED
        BY <1>3
    <3> QED
      BY <3>1, <3>2
  <2> QED
    BY <2>1, Zenon
<1>5. \A i \in 0 .. n : has[i] = IF i = 0 THEN g ELSE With(has[i - 1], items[i])
  <2> HIDE DEF has
  <2> QED
    BY <1>4, Zenon
<1>6. Receive(g, items) = has[n]
  <2>1. Receive(g, items) =
             (CHOOSE f : f = [i \in 0 .. Len(items) |->
                                 IF i = 0 THEN g ELSE With(f[i - 1], items[i])])[Len(items)]
    BY ReceiveDef
  <2> QED
    BY <1>1, <2>1, Zenon DEF has, Has
<1> HIDE DEF has
<1>7. has[0] = g
  <2>1. 0 \in 0 .. n
    BY <1>1
  <2> QED
    BY <1>5, <2>1, Zenon
<1>8. ASSUME NEW i \in 1 .. n PROVE has[i] = With(has[i - 1], o[i])
  <2>1. i \in 0 .. n /\ i # 0
    BY <1>1
  <2>2. has[i] = With(has[i - 1], items[i])
    BY <1>5, <2>1, Zenon
  <2> QED
    BY <1>1, <2>2
<1> QED
  BY <1>6, <1>7, <1>8 DEF items

\* So do the first n.
LEMMA SomeReceived ==
    ASSUME NEW g \in Seq(Items), NEW o \in Seq(Items), NEW n \in 0 .. Len(o),
           NEW ws \in BOOLEAN, NEW cl \in BOOLEAN, NEW runs,
           Proper(g \o o, ws, cl, runs)
    PROVE  /\ Receive(g, SubSeq(o, 1, n)) \in Seq(Items)
           /\ Proper(Receive(g, SubSeq(o, 1, n)) \o SubSeq(o, n + 1, Len(o)), ws, cl, runs)
<1>1. Len(o) \in Nat /\ n \in Nat /\ n <= Len(o)
  BY LenProperties
<1>2. PICK has : /\ has[0] = g /\ Receive(g, SubSeq(o, 1, n)) = has[n]
                 /\ \A i \in 1 .. n : has[i] = With(has[i - 1], o[i])
  BY ReceivedItems
<1> DEFINE Right(i) == /\ has[i] \in Seq(Items)
                       /\ Proper(has[i] \o SubSeq(o, i + 1, Len(o)), ws, cl, runs)
           U == {i \in 0 .. n : ~Right(i)}
<1>3. ASSUME NEW i \in U, \A j \in U : i <= j PROVE FALSE
  <2>1. i \in 0 .. n /\ ~Right(i)
    OBVIOUS
  <2>2. CASE i = 0
    <3>1. has[0] = g
      BY <1>2
    <3>2. SubSeq(o, 0 + 1, Len(o)) = o
      <4>1. 0 \in 0 .. Len(o)
        BY <1>1
      <4> DEFINE v == SubSeq(o, 0 + 1, Len(o))
      <4>2. v \in Seq(Items) /\ Len(v) = Len(o) - 0 /\ \A j \in 1 .. Len(o) - 0 : v[j] = o[0 + j]
        BY <4>1, RestOf
      <4> HIDE DEF v
      <4>3. Len(v) = Len(o)
        BY <1>1, <4>2
      <4>4. ASSUME NEW j \in 1 .. Len(v) PROVE v[j] = o[j]
        <5>1. j \in 1 .. Len(o) - 0 /\ 0 + j = j
          BY <1>1, <4>3
        <5> QED
          BY <4>2, <5>1
      <4>5. v = o
        BY <4>2, <4>3, <4>4, SeqEqual
      <4> QED
        BY <4>5 DEF v
    <3>3. Right(0)
      BY <3>1, <3>2
    <3> QED
      BY <2>1, <2>2, <3>3
  <2>3. CASE i # 0
    <3>1. i - 1 \in 0 .. n /\ ~(i <= i - 1) /\ i \in 1 .. Len(o) /\ i \in 1 .. n
      BY <1>1, <2>1, <2>3
    <3>2. i - 1 \notin U
      <4> HIDE DEF U
      <4> QED
        BY <1>3, <3>1
    <3>3. has[i - 1] \in Seq(Items) /\ Proper(has[i - 1] \o SubSeq(o, i - 1 + 1, Len(o)), ws, cl, runs)
      BY <3>1, <3>2
    <3>4. has[i] = With(has[i - 1], o[i])
      BY <1>2, <3>1
    <3> HIDE DEF Right, U
    <3>5. /\ With(has[i - 1], o[i]) \in Seq(Items)
          /\ Proper(With(has[i - 1], o[i]) \o SubSeq(o, i + 1, Len(o)), ws, cl, runs)
      BY <3>1, <3>3, OneReceived
    <3> QED
      BY <2>1, <3>4, <3>5 DEF Right
  <2> QED
    BY <2>2, <2>3
<1>4. U = {}
  <2>1. U \in SUBSET Nat
    BY <1>1
  <2> HIDE DEF U
  <2> QED
    BY <1>3, <2>1, LeastElement
<1>5. Right(n)
  <2>1. n \in 0 .. n
    BY <1>1
  <2> HIDE DEF Right
  <2> QED
    BY <1>4, <2>1
<1> QED
  BY <1>2, <1>5

\* What is sent of a queue does not add to its statistics.
LEMMA BacklogRest ==
    ASSUME NEW o \in Seq(Items), NEW n \in 0 .. Len(o)
    PROVE  Backlog(SubSeq(o, n + 1, Len(o))) <= Backlog(o)
<1> DEFINE v == SubSeq(o, n + 1, Len(o))
           I == {i \in DOMAIN o : o[i].kind = "stats"}
           J == {i \in DOMAIN v : v[i].kind = "stats"}
           f == [j \in J |-> n + j]
<1>1. /\ v \in Seq(Items) /\ Len(v) = Len(o) - n /\ \A i \in 1 .. Len(o) - n : v[i] = o[n + i]
      /\ Len(o) \in Nat /\ n \in Nat /\ DOMAIN o = 1 .. Len(o)
  BY RestOf, LenProperties
<1> HIDE DEF v
<1>2. DOMAIN v = 1 .. Len(o) - n
  BY <1>1, LenProperties
<1>3. IsFiniteSet(I)
  BY BacklogBound
<1>4. ASSUME NEW j \in J PROVE n + j \in I /\ j \in Nat
  <2>1. j \in 1 .. Len(o) - n /\ v[j].kind = "stats"
    BY <1>2
  <2>2. v[j] = o[n + j] /\ n + j \in 1 .. Len(o)
    BY <1>1, <2>1
  <2> QED
    BY <1>1, <2>1, <2>2
<1>5. f \in Injection(J, I)
  <2> HIDE DEF I, J
  <2>1. f \in [J -> I]
    BY <1>4
  <2>2. \A x, y \in J : f[x] = f[y] => x = y
    BY <1>1, <1>4
  <2> HIDE DEF f
  <2> QED
    BY <2>1, <2>2 DEF Injection, IsInjective
<1>6. Cardinality(J) <= Cardinality(I)
  <2> HIDE DEF I, J, f
  <2> QED
    BY <1>3, <1>5, FS_Injection
<1> QED
  BY <1>6 DEF v, Backlog

\* Writing n items.
LEMMA Sending ==
    ASSUME NEW r, NEW g, NEW runs, NEW most \in Nat, Sound(r, g, runs, most),
           NEW n \in 0 .. Len(r.out),
           NEW q \in Clients, q.out = SubSeq(r.out, n + 1, Len(r.out)),
           q.websocket = r.websocket, q.closing = r.closing, q.message = r.message
    PROVE  Sound(q, Receive(g, SubSeq(r.out, 1, n)), runs, most)
<1>1. /\ r \in Clients /\ g \in Seq(Items)
      /\ Proper(g \o r.out, r.websocket, r.closing, runs)
      /\ Backlog(r.out) <= most + 1
      /\ Len(r.message) <= MaxMessage \/ r.closing
  BY DEF Sound
<1>2. r.out \in Seq(Items) /\ r.websocket \in BOOLEAN /\ r.closing \in BOOLEAN
      /\ q.out \in Seq(Items)
  BY <1>1 DEF Clients
<1>3. /\ Receive(g, SubSeq(r.out, 1, n)) \in Seq(Items)
      /\ Proper(Receive(g, SubSeq(r.out, 1, n)) \o SubSeq(r.out, n + 1, Len(r.out)),
                r.websocket, r.closing, runs)
  BY <1>1, <1>2, SomeReceived
<1>4. Backlog(q.out) <= Backlog(r.out)
  BY <1>2, BacklogRest
<1>5. Backlog(q.out) \in Nat /\ Backlog(r.out) \in Nat
  BY <1>2, BacklogBound
<1>6. Backlog(q.out) <= most + 1
  BY <1>1, <1>4, <1>5
<1> QED
  BY <1>1, <1>3, <1>6 DEF Sound

-----------------------------------------------------------------------------
(* The steps.                                                              *)

\* Items the server queues.
LEMMA ItemTypes ==
    /\ \A x \in Inputs : Response(x.op) \in Items /\ Response(x.op).kind = "response"
    /\ Response("503") \in Items /\ Response("503").kind = "response"
    /\ Hello \in Items /\ Hello.kind = "hello"
    /\ Pong \in Items /\ Pong.kind = "pong"
    /\ Close \in Items /\ Close.kind = "close"
    /\ \A s \in Int : LET x == [kind |-> "stats", latest |-> s]
                      IN  x \in Items /\ x.kind = "stats"
    /\ \A t : \A ok \in BOOLEAN : /\ Result(Command(t), ok) \in Items
                                  /\ Result(Command(t), ok).kind = "result"
<1>1. ASSUME NEW t, NEW ok \in BOOLEAN
      PROVE  Result(Command(t), ok) \in Items /\ Result(Command(t), ok).kind = "result"
  <2>1. Command(t) \in {"record on", "record off", "none"}
    BY DEF Command
  <2> HIDE DEF Command
  <2> QED
    BY <2>1 DEF Items, Result
<1> QED
  BY <1>1 DEF Items, Response, Hello, Pong, Close

LEMMA NewClientType == NewClient \in Clients
BY EmptySeq DEF NewClient, Clients

LEMMA NewClientSound ==
    ASSUME NEW runs \in BOOLEAN, NEW most \in Nat
    PROVE  Sound(NewClient, << >>, runs, most)
<1>1. << >> \in Seq(Items) /\ << >> \o << >> = << >> /\ Len(<< >>) = 0
  BY EmptySeq
<1>2. Backlog(<< >>) <= most + 1
  <2>1. Backlog(<< >>) \in Nat /\ Backlog(<< >>) <= Len(<< >>)
    BY <1>1, BacklogBound
  <2> QED
    BY <1>1, <2>1
<1>3. /\ NewClient.websocket = FALSE /\ NewClient.closing = FALSE
      /\ NewClient.out = << >> /\ NewClient.message = << >>
  BY DEF NewClient
<1>4. Proper(<< >>, FALSE, FALSE, runs)
  BY <1>1 DEF Proper
<1>5. Len(NewClient.message) <= MaxMessage
  BY <1>1, <1>3, ControlAssumption
<1> QED
  BY <1>1, <1>2, <1>3, <1>4, <1>5, NewClientType DEF Sound

\* The connection a call serves was accepted.
LEMMA Served ==
    ASSUME CsInv, Now("read") \/ Now("write") \/ Now("handle")
    PROVE  /\ At \in accepted /\ At \in Conn /\ todo # << >>
           /\ Tail(todo) \in Seq(Calls(accepted)) /\ Head(todo) \in Calls(accepted)
           /\ client[At] \in Clients /\ got[At] \in Seq(Items)
           /\ Sound(client[At], got[At], running, limits.maxBacklog)
           /\ limits.maxBacklog \in Nat /\ running \in BOOLEAN
<1>1. todo # << >> /\ Head(todo).do \in {"read", "write", "handle"}
  BY DEF Now
<1>2. Head(todo) \in Calls(accepted) /\ Tail(todo) \in Seq(Calls(accepted))
  BY <1>1, HeadTailProperties DEF CsInv, Table
<1>3. At \in accepted
  BY <1>1, <1>2 DEF Calls, At
<1> QED
  BY <1>1, <1>2, <1>3 DEF CsInv, Table, Connections, Counts

\* A step that changes the connection it serves, and no other.
LEMMA OneConnection ==
    ASSUME CsInv, NEW c \in accepted, NEW q, NEW h,
           client' = [client EXCEPT ![c] = q], got' = [got EXCEPT ![c] = h],
           Sound(q, h, running, limits.maxBacklog),
           UNCHANGED <<limits, accepted, clients, running>>,
           left' \subseteq accepted, todo' \in Seq(Calls(accepted))
    PROVE  Connections' /\ Table'
<1>1. c \in Conn /\ q \in Clients /\ h \in Seq(Items)
  BY DEF CsInv, Table, Sound
<1>2. client' \in [Conn -> Clients] /\ got' \in [Conn -> Seq(Items)]
  BY <1>1 DEF CsInv, Connections
<1>3. ASSUME NEW d \in Conn
      PROVE  Sound(client'[d], got'[d], running, limits.maxBacklog)
  <2>1. CASE d = c
    <3>1. client'[d] = q /\ got'[d] = h
      BY <1>1, <2>1 DEF CsInv, Connections
    <3> QED
      BY <3>1
  <2>2. CASE d # c
    <3>1. client'[d] = client[d] /\ got'[d] = got[d]
      BY <2>2 DEF CsInv, Connections
    <3> QED
      BY <3>1 DEF CsInv, Connections
  <2> QED
    BY <2>1, <2>2
<1>4. \A d \in Conn \ accepted : client'[d] = NewClient /\ got'[d] = << >>
  BY DEF CsInv, Connections, Table
<1>5. Connections'
  BY <1>2, <1>3 DEF Connections
<1>6. Table'
  BY <1>4 DEF CsInv, Table
<1> QED
  BY <1>5, <1>6

\* A step that changes no connection.
LEMMA NoConnection ==
    ASSUME CsInv, UNCHANGED <<limits, accepted, clients, client, got, left, running>>,
           todo' \in Seq(Calls(accepted))
    PROVE  Connections' /\ Table'
BY DEF CsInv, Connections, Table

LEMMA CountsKept ==
    ASSUME CsInv, UNCHANGED <<script, limits, taken, published, latest, push, running>>
    PROVE  Counts'
BY DEF CsInv, Counts

LEMMA InitInv == Init => CsInv
<1> SUFFICES ASSUME Init PROVE CsInv
  OBVIOUS
<1>1. PICK s \in Setups : script = s.script /\ limits = s.limits
  BY DEF Init
<1>2. limits.maxBacklog \in Nat
  BY <1>1, ControlAssumption
<1>3. ASSUME NEW c \in Conn PROVE script[c] \in Seq(Inputs) /\ Len(script[c]) \in Nat
  <2>1. script[c] \in Seq(ToSet(s.script[c]))
    BY <1>1, ScriptAssumption
  <2>2. ToSet(s.script[c]) \subseteq Inputs
    BY <1>1 DEF Inputs
  <2>3. script[c] \in Seq(Inputs)
    BY <2>1, <2>2, WiderSeq
  <2> QED
    BY <2>3, LenProperties
<1>4. Counts
  <2>1. script \in {u.script : u \in Setups}
    BY <1>1
  <2>2. taken \in [Conn -> Nat] /\ \A c \in Conn : taken[c] <= Len(script[c])
    BY <1>3 DEF Init
  <2>3. IsSequence(published) /\ latest \in -1 .. Len(published)
    <3>1. published = << >> /\ latest = -1 /\ Len(<< >>) = 0
      BY DEF Init, NoStats
    <3> QED
      BY <3>1, Sequences
  <2> QED
    BY <1>2, <1>3, <2>1, <2>2, <2>3 DEF Counts, Init
<1>5. Connections
  <2>1. client = [c \in Conn |-> NewClient] /\ got = [c \in Conn |-> << >>] /\ running = TRUE
    BY DEF Init
  <2>2. << >> \in Seq(Items)
    BY EmptySeq
  <2>3. Sound(NewClient, << >>, running, limits.maxBacklog)
    BY <1>2, <2>1, NewClientSound
  <2> QED
    BY <2>1, <2>2, <2>3, NewClientType DEF Connections
<1>6. Table
  <2>1. << >> \in Seq(accepted) /\ << >> \in Seq(Calls(accepted)) /\ IsInjective(<< >>)
    BY EmptySeq DEF IsInjective
  <2> QED
    BY <2>1 DEF Table, Init
<1> QED
  BY <1>4, <1>5, <1>6 DEF CsInv

\* An update of some connections is sound if it is for each.
LEMMA ManyConnections ==
    ASSUME CsInv, NEW f, client' = f, f \in [Conn -> Clients],
           \A c \in Conn : Sound(f[c], got[c], running', limits.maxBacklog),
           \A c \in Conn \ accepted : f[c] = NewClient,
           UNCHANGED <<limits, got, accepted, left, clients>>,
           todo' \in Seq(Calls(accepted))
    PROVE  Connections' /\ Table'
<1>1. Connections'
  BY DEF Connections, CsInv
<1>2. Table'
  BY DEF CsInv, Table
<1> QED
  BY <1>1, <1>2

\* A broadcast keeps every connection sound and serves those of the table only.
LEMMA BroadcastSound ==
    ASSUME CsInv, NEW s \in Int
    PROVE  /\ Broadcast(client, s) \in [Conn -> Clients]
           /\ \A c \in Conn : Sound(Broadcast(client, s)[c], got[c], running, limits.maxBacklog)
           /\ \A c \in Conn \ accepted : Broadcast(client, s)[c] = NewClient
<1> DEFINE x == [kind |-> "stats", latest |-> s]
           f == Broadcast(client, s)
<1>1. x \in Items /\ x.kind = "stats"
  BY ItemTypes
<1> HIDE DEF x
<1>2. ASSUME NEW c \in Conn
      PROVE  f[c] \in Clients /\ Sound(f[c], got[c], running, limits.maxBacklog)
  <2>1. client[c] \in Clients /\ Sound(client[c], got[c], running, limits.maxBacklog)
    BY DEF CsInv, Connections
  <2>2. limits.maxBacklog \in Nat /\ running \in BOOLEAN
    BY DEF CsInv, Counts
  <2>3. CASE c \in ToSet(clients) /\ TakesStats(client[c])
    <3> DEFINE q == [client[c] EXCEPT !.out = Append(@, x)]
    <3>1. f[c] = q
      BY <2>3 DEF Broadcast, x
    <3>2. client[c].out \in Seq(Items) /\ Append(client[c].out, x) \in Seq(Items)
      <4>1. client[c].out \in Seq(Items)
        BY <2>1 DEF Clients
      <4> QED
        BY <1>1, <4>1, AppendProperties
    <3>3. /\ q \in Clients /\ q.out = Append(client[c].out, x) /\ q.message = client[c].message
          /\ q.websocket = client[c].websocket /\ q.closing = client[c].closing
      BY <2>1, <3>2 DEF Clients
    <3>4. /\ client[c].websocket /\ ~client[c].closing
          /\ Len(client[c].out) <= limits.maxBacklog
          /\ Len(client[c].message) <= MaxMessage
      BY <2>1, <2>3 DEF TakesStats, Sound
    <3> HIDE DEF q
    <3>5. Sound(q, got[c], running, limits.maxBacklog)
      BY <1>1, <2>1, <2>2, <3>3, <3>4, Sent
    <3> QED
      BY <3>1, <3>3, <3>5
  <2>4. CASE ~(c \in ToSet(clients) /\ TakesStats(client[c]))
    BY <2>1, <2>4 DEF Broadcast
  <2> QED
    BY <2>3, <2>4
<1>3. ASSUME NEW c \in Conn \ accepted PROVE f[c] = NewClient
  <2>1. c \notin ToSet(clients)
    BY ElementOfSeq, LenProperties DEF CsInv, Table, ToSet
  <2> QED
    BY <2>1 DEF Broadcast, CsInv, Table
<1>4. f \in [Conn -> Clients]
  <2>1. f = [c \in Conn |-> f[c]]
    BY Zenon DEF Broadcast
  <2> HIDE DEF f
  <2> QED
    BY <1>2, <2>1
<1> QED
  BY <1>2, <1>3, <1>4

\* The rest of the calls.
LEMMA RestOfCalls ==
    ASSUME CsInv, todo # << >>, Done
    PROVE  todo' \in Seq(Calls(accepted))
<1>1. todo' = Tail(todo)
  BY DEF Done
<1> QED
  BY <1>1, HeadTailProperties DEF CsInv, Table

LEMMA ServedInTable ==
    ASSUME CsInv
    PROVE  /\ \A i \in 1 .. Len(clients) : clients[i] \in accepted
           /\ Len(clients) \in Nat /\ ToSet(clients) \subseteq accepted
BY ElementOfSeq, LenProperties DEF CsInv, Table, ToSet

LEMMA PollInv == ASSUME CsInv, Poll PROVE CsInv'
<1> DEFINE s == [i \in 1 .. Len(clients) |-> ClientCalls(clients[i])]
           C == Calls(accepted)
<1>1. /\ UNCHANGED <<network, published, clients, client, latest, push, running>>
      /\ todo' = <<[do |-> "stats"]>> \o FlattenSeq(s)
                 \o <<[do |-> "accept"], [do |-> "update"]>>
  BY DEF Poll
<1>2. ASSUME NEW c \in accepted PROVE ClientCalls(c) \in Seq(C)
  <2>1. Call("read", c) \in C /\ Call("write", c) \in C
    BY DEF Call, Calls
  <2> HIDE DEF C
  <2>2. <<Call("read", c)>> \in Seq(C) /\ <<Call("write", c)>> \in Seq(C) /\ << >> \in Seq(C)
    BY <2>1
  <2> QED
    BY <2>2, ConcatProperties DEF ClientCalls
<1>3. s \in Seq(Seq(C))
  <2> HIDE DEF C
  <2>1. \A i \in 1 .. Len(clients) : ClientCalls(clients[i]) \in Seq(C)
    BY <1>2, ServedInTable
  <2>2. Len(clients) \in Nat
    BY ServedInTable
  <2> QED
    BY <2>1, <2>2
<1>4. /\ <<[do |-> "stats"]>> \in Seq(C)
      /\ <<[do |-> "accept"], [do |-> "update"]>> \in Seq(C)
  <2>1. [do |-> "stats"] \in C /\ [do |-> "accept"] \in C /\ [do |-> "update"] \in C
    BY DEF Calls
  <2> HIDE DEF C
  <2> QED
    BY <2>1
<1>5. todo' \in Seq(C)
  <2> HIDE DEF C, s
  <2>1. FlattenSeq(s) \in Seq(C)
    BY <1>3, Flattened
  <2>2. <<[do |-> "stats"]>> \o FlattenSeq(s) \in Seq(C)
    BY <1>4, <2>1, ConcatProperties
  <2> QED
    BY <1>1, <1>4, <2>2, ConcatProperties
<1>6. Connections' /\ Table'
  BY <1>1, <1>5, NoConnection DEF network
<1>7. Counts'
  BY <1>1, CountsKept DEF network
<1> QED
  BY <1>6, <1>7 DEF CsInv

LEMMA NotReadyInv ==
    ASSUME CsInv, NotReady \/ HandlerDone
    PROVE  CsInv'
<1>1. /\ UNCHANGED <<network, published, clients, client, latest, push, running>>
      /\ todo # << >> /\ Done
  BY DEF NotReady, HandlerDone, Now
<1>2. todo' \in Seq(Calls(accepted))
  BY <1>1, RestOfCalls
<1>3. Connections' /\ Table'
  BY <1>1, <1>2, NoConnection DEF network
<1>4. Counts'
  BY <1>1, CountsKept DEF network
<1> QED
  BY <1>3, <1>4 DEF CsInv

LEMMA DrainInv == ASSUME CsInv, NEW s \in 0 .. Len(published), DrainStats(s) PROVE CsInv'
<1>1. /\ UNCHANGED <<network, published, clients, running>>
      /\ todo # << >> /\ Done /\ latest' = s /\ push' = FALSE
      /\ client' = IF push THEN Broadcast(client, s) ELSE client
  BY DEF DrainStats, Now
<1>2. todo' \in Seq(Calls(accepted))
  BY <1>1, RestOfCalls
<1>3. Len(published) \in Nat /\ s \in Int
  BY Sequences DEF CsInv, Counts
<1>4. Connections' /\ Table'
  <2>1. CASE push
    <3> DEFINE f == Broadcast(client, s)
    <3>1. /\ f \in [Conn -> Clients] /\ client' = f /\ running' = running
          /\ \A c \in Conn : Sound(f[c], got[c], running, limits.maxBacklog)
          /\ \A c \in Conn \ accepted : f[c] = NewClient
      BY <1>1, <1>3, <2>1, BroadcastSound
    <3> HIDE DEF f
    <3> QED
      BY <1>1, <1>2, <3>1, ManyConnections DEF network
  <2>2. CASE ~push
    BY <1>1, <1>2, <2>2, NoConnection DEF network
  <2> QED
    BY <2>1, <2>2
<1>5. Counts'
  <2>1. latest' \in -1 .. Len(published)
    BY <1>1, <1>3
  <2>2. UNCHANGED <<script, limits, taken, published, running>> /\ push' \in BOOLEAN
    BY <1>1 DEF network
  <2> QED
    BY <2>1, <2>2 DEF CsInv, Counts
<1> QED
  BY <1>4, <1>5 DEF CsInv

LEMMA UpdateInv == ASSUME CsInv, Update \/ NoUpdate PROVE CsInv'
<1>1. /\ UNCHANGED <<network, published, clients, latest, push, running>>
      /\ todo' = FlushAll
      /\ client' = Broadcast(client, latest) \/ client' = client
  BY DEF Update, NoUpdate
<1>2. todo' \in Seq(Calls(accepted))
  <2> DEFINE C == Calls(accepted)
             s == [i \in 1 .. Len(clients) |-> Call("write", clients[i])]
  <2>1. \A i \in 1 .. Len(clients) : Call("write", clients[i]) \in C
    BY ServedInTable DEF Call, Calls
  <2>2. [do |-> "erase"] \in C
    BY DEF Calls
  <2> HIDE DEF C
  <2>3. s \in Seq(C) /\ <<[do |-> "erase"]>> \in Seq(C)
    BY <2>1, <2>2, ServedInTable
  <2> HIDE DEF s
  <2>4. s \o <<[do |-> "erase"]>> \in Seq(C)
    BY <2>3, ConcatProperties
  <2> QED
    BY <1>1, <2>4 DEF FlushAll, s, C
<1>3. latest \in Int
  BY Sequences DEF CsInv, Counts
<1>4. Connections' /\ Table'
  <2>1. CASE client' = Broadcast(client, latest)
    <3> DEFINE f == Broadcast(client, latest)
    <3>1. /\ f \in [Conn -> Clients] /\ client' = f /\ running' = running
          /\ \A c \in Conn : Sound(f[c], got[c], running, limits.maxBacklog)
          /\ \A c \in Conn \ accepted : f[c] = NewClient
      BY <1>1, <1>3, <2>1, BroadcastSound
    <3> HIDE DEF f
    <3> QED
      BY <1>1, <1>2, <3>1, ManyConnections DEF network
  <2>2. CASE client' = client
    BY <1>1, <1>2, <2>2, NoConnection DEF network
  <2> QED
    BY <1>1, <2>1, <2>2
<1>5. Counts'
  BY <1>1, CountsKept DEF network
<1> QED
  BY <1>4, <1>5 DEF CsInv

LEMMA ReadInv == ASSUME CsInv, NEW n \in 1 .. Len(script[At]), Read(n) PROVE CsInv'
<1>1. /\ UNCHANGED <<script, limits, left, got, accepted, published, clients, latest, push, running>>
      /\ Now("read") /\ taken[At] + n <= Len(script[At])
      /\ taken' = [taken EXCEPT ![At] = @ + n]
  BY DEF Read
<1>2. /\ At \in accepted /\ At \in Conn /\ todo # << >>
      /\ Tail(todo) \in Seq(Calls(accepted))
      /\ client[At] \in Clients
      /\ Sound(client[At], got[At], running, limits.maxBacklog)
      /\ limits.maxBacklog \in Nat /\ running \in BOOLEAN
  BY <1>1, Served
<1>3. /\ script[At] \in Seq(Inputs) /\ Len(script[At]) \in Nat /\ taken[At] \in Nat
      /\ n \in Nat
  <2>1. script[At] \in Seq(Inputs) /\ taken[At] \in Nat
    BY <1>2 DEF CsInv, Counts
  <2>2. Len(script[At]) \in Nat
    BY <2>1, LenProperties
  <2> QED
    BY <2>1, <2>2
<1>4. Counts'
  <2>1. taken' \in [Conn -> Nat]
    BY <1>1, <1>2, <1>3 DEF CsInv, Counts
  <2>2. \A c \in Conn : taken'[c] <= Len(script[c])
    BY <1>1, <1>2, <1>3 DEF CsInv, Counts
  <2> QED
    BY <1>1, <2>1, <2>2 DEF CsInv, Counts
<1>5. CASE client[At].closing
  <2>1. client' = client /\ todo' = Tail(todo)
    BY <1>5 DEF Read, Done
  <2>2. Connections' /\ Table'
    BY <1>1, <1>2, <2>1, NoConnection
  <2> QED
    BY <1>4, <2>2 DEF CsInv
<1>6. CASE ~client[At].closing
  <2> DEFINE more == SubSeq(script[At], taken[At] + 1, taken[At] + n)
             q == [client[At] EXCEPT !.in = @ \o more]
  <2>1. /\ client' = [client EXCEPT ![At].in = @ \o more]
        /\ todo' = <<Call("handle", At)>> \o Tail(todo)
    BY <1>6 DEF Read
  <2>2. more \in Seq(Inputs)
    <3>1. \A i \in taken[At] + 1 .. taken[At] + n : script[At][i] \in Inputs
      <4>1. \A i \in taken[At] + 1 .. taken[At] + n : i \in 1 .. Len(script[At])
        BY <1>1, <1>3
      <4> QED
        BY <1>3, <4>1, ElementOfSeq
    <3>2. taken[At] + 1 \in Int /\ taken[At] + n \in Int
      BY <1>3
    <3> QED
      BY <3>1, <3>2, SubSeqProperties
  <2> HIDE DEF more
  <2>3. client[At].in \o more \in Seq(Inputs)
    <3>1. client[At].in \in Seq(Inputs)
      BY <1>2 DEF Clients
    <3> QED
      BY <2>2, <3>1, ConcatProperties
  <2>4. /\ q \in Clients /\ q.out = client[At].out /\ q.message = client[At].message
        /\ q.websocket = client[At].websocket /\ q.closing = client[At].closing
    BY <1>2, <2>3 DEF Clients
  <2>5. client' = [client EXCEPT ![At] = q]
    BY <2>1
  <2> HIDE DEF q
  <2>6. Sound(q, got[At], running, limits.maxBacklog)
    <3>1. Len(client[At].message) <= MaxMessage \/ client[At].closing
      BY <1>2 DEF Sound
    <3> QED
      BY <1>2, <2>4, <3>1, QueueKept
  <2>7. todo' \in Seq(Calls(accepted))
    <3> DEFINE C == Calls(accepted)
    <3>1. Call("handle", At) \in C
      BY <1>2 DEF Call, Calls
    <3> HIDE DEF C
    <3>2. <<Call("handle", At)>> \in Seq(C) /\ Tail(todo) \in Seq(C)
      BY <1>2, <3>1 DEF C
    <3>3. <<Call("handle", At)>> \o Tail(todo) \in Seq(C)
      BY <3>2, ConcatProperties
    <3> QED
      BY <2>1, <3>3 DEF C
  <2>8. got' = [got EXCEPT ![At] = got[At]]
    BY <1>1, <1>2 DEF CsInv, Connections
  <2>9. left' \subseteq accepted
    BY <1>1 DEF CsInv, Table
  <2>10. Connections' /\ Table'
    BY <1>1, <1>2, <2>5, <2>6, <2>7, <2>8, <2>9, OneConnection
  <2> QED
    BY <1>4, <2>10 DEF CsInv
<1> QED
  BY <1>5, <1>6

\* A connection that is found dead.
LEMMA DeadInv == ASSUME CsInv, ReadEnds \/ WriteFails PROVE CsInv'
<1> DEFINE q == [client[At] EXCEPT !.dead = TRUE]
<1>1. /\ UNCHANGED <<script, limits, taken, got, accepted, published, clients, latest, push, running>>
      /\ Now("read") \/ Now("write")
      /\ left' = left \cup {At} /\ Done
      /\ client' = [client EXCEPT ![At].dead = TRUE]
  BY DEF ReadEnds, WriteFails
<1>2. /\ At \in accepted /\ At \in Conn /\ todo # << >>
      /\ client[At] \in Clients
      /\ Sound(client[At], got[At], running, limits.maxBacklog)
      /\ limits.maxBacklog \in Nat /\ running \in BOOLEAN
  BY <1>1, Served
<1>3. /\ q \in Clients /\ q.out = client[At].out /\ q.message = client[At].message
      /\ q.websocket = client[At].websocket /\ q.closing = client[At].closing
  BY <1>2 DEF Clients
<1>4. client' = [client EXCEPT ![At] = q]
  BY <1>1
<1> HIDE DEF q
<1>5. Sound(q, got[At], running, limits.maxBacklog)
  <2>1. Len(client[At].message) <= MaxMessage \/ client[At].closing
    BY <1>2 DEF Sound
  <2> QED
    BY <1>2, <1>3, <2>1, QueueKept
<1>6. todo' \in Seq(Calls(accepted))
  BY <1>1, <1>2, RestOfCalls
<1>7. got' = [got EXCEPT ![At] = got[At]]
  BY <1>1, <1>2 DEF CsInv, Connections
<1>8. left' \subseteq accepted
  BY <1>1, <1>2 DEF CsInv, Table
<1>9. Connections' /\ Table'
  BY <1>1, <1>2, <1>4, <1>5, <1>6, <1>7, <1>8, OneConnection
<1>10. Counts'
  BY <1>1, CountsKept
<1> QED
  BY <1>9, <1>10 DEF CsInv

\* An input is handled: the answer must be sound.
LEMMA HandledInv ==
    ASSUME CsInv, Handling, NEW r \in Clients, Handled(r), r.in = client[At].in,
           Sound(r, got[At], running, limits.maxBacklog),
           UNCHANGED <<network, clients, todo, running>>, Counts'
    PROVE  CsInv'
<1> DEFINE q == [r EXCEPT !.in = Tail(@)]
<1>1. Now("handle") /\ client[At].in # << >>
  BY DEF Handling
<1>2. /\ At \in accepted /\ At \in Conn /\ todo # << >>
      /\ client[At] \in Clients
      /\ limits.maxBacklog \in Nat /\ running \in BOOLEAN
  BY <1>1, Served
<1>3. Tail(r.in) \in Seq(Inputs)
  <2>1. r.in \in Seq(Inputs)
    BY DEF Clients
  <2> QED
    BY <1>1, <2>1, HeadTailProperties
<1>4. /\ q \in Clients /\ q.out = r.out /\ q.message = r.message
      /\ q.websocket = r.websocket /\ q.closing = r.closing
  BY <1>3 DEF Clients
<1>5. client' = [client EXCEPT ![At] = q]
  BY DEF Handled
<1> HIDE DEF q
<1>6. Sound(q, got[At], running, limits.maxBacklog)
  <2>1. Len(r.message) <= MaxMessage \/ r.closing
    BY DEF Sound
  <2> QED
    BY <1>2, <1>4, <2>1, QueueKept
<1>7. todo' \in Seq(Calls(accepted)) /\ left' \subseteq accepted
  BY DEF CsInv, Table, network
<1>8. got' = [got EXCEPT ![At] = got[At]]
  BY <1>2 DEF CsInv, Connections, network
<1>9. UNCHANGED <<limits, accepted, clients, running>>
  BY DEF network
<1>10. Connections' /\ Table'
  BY <1>2, <1>5, <1>6, <1>7, <1>8, <1>9, OneConnection
<1> QED
  BY <1>10 DEF CsInv

\* What a handler looks at.
LEMMA InputTypes ==
    ASSUME CsInv, Handling
    PROVE  /\ At \in accepted /\ At \in Conn /\ client[At] \in Clients
           /\ Sound(client[At], got[At], running, limits.maxBacklog)
           /\ limits.maxBacklog \in Nat /\ running \in BOOLEAN
           /\ ~client[At].closing /\ Len(client[At].message) <= MaxMessage
           /\ client[At].out \in Seq(Items) /\ client[At].message \in Seq(Bytes)
           /\ Input \in Inputs
           /\ IsData(Input) => Input.payload \in Seq(Bytes)
<1>1. Now("handle") /\ client[At].in # << >> /\ ~client[At].closing
  BY DEF Handling
<1>2. /\ At \in accepted /\ At \in Conn /\ client[At] \in Clients
      /\ Sound(client[At], got[At], running, limits.maxBacklog)
      /\ limits.maxBacklog \in Nat /\ running \in BOOLEAN
  BY <1>1, Served
<1>3. /\ client[At].out \in Seq(Items) /\ client[At].message \in Seq(Bytes)
      /\ client[At].in \in Seq(Inputs)
  BY <1>2 DEF Clients
<1>4. Input \in Inputs
  BY <1>1, <1>3, HeadTailProperties DEF Input
<1>5. ASSUME IsData(Input) PROVE Input.payload \in Seq(Bytes)
  <2>1. Input.op \in {"text", "continuation"}
    BY <1>5 DEF IsData
  <2>2. PICK s \in Setups : \E c \in Conn : Input \in ToSet(s.script[c])
    BY <1>4 DEF Inputs
  <2>3. Input.payload \in Seq(ToSet(Input.payload))
    BY <2>1, <2>2, ScriptAssumption
  <2>4. ToSet(Input.payload) \subseteq Bytes
    BY <1>4, <2>1 DEF Bytes
  <2> QED
    BY <2>3, <2>4, WiderSeq
<1>6. Len(client[At].message) <= MaxMessage
  BY <1>1, <1>2 DEF Sound
<1> QED
  BY <1>1, <1>2, <1>3, <1>4, <1>5, <1>6

LEMMA HttpInv == ASSUME CsInv, HandleHttp PROVE CsInv'
<1> DEFINE x == Response(Outcome(Input))
           r == client[At]
           q == AnswerAndClose(r, <<x>>)
<1>1. /\ UNCHANGED <<network, published, clients, latest, push, todo, running>>
      /\ Handling /\ ~client[At].websocket /\ Handled(q)
  BY DEF HandleHttp
<1>2. /\ At \in accepted /\ At \in Conn /\ r \in Clients
      /\ Sound(r, got[At], running, limits.maxBacklog)
      /\ limits.maxBacklog \in Nat /\ running \in BOOLEAN
      /\ ~r.closing /\ Input \in Inputs
  <2>1. Handling
    BY <1>1
  <2> QED
    BY <2>1, InputTypes
<1>3. x \in Items /\ x.kind = "response"
  BY <1>2, ItemTypes DEF Outcome
<1> HIDE DEF x
<1>4. r.out = << >>
  BY <1>1, <1>2, NothingYet
<1>5. r.out \o <<x>> = <<x>> /\ <<x>> \in Seq(Items)
  <2>1. << >> \o <<x>> = Append(<< >>, x) /\ Append(<< >>, x) = <<x>>
    BY <1>3, EmptySeq, OneMore
  <2> QED
    BY <1>3, <1>4, <2>1
<1>6. /\ q \in Clients /\ q.out = <<x>> /\ q.closing /\ ~q.websocket /\ q.in = r.in
  BY <1>1, <1>2, <1>5 DEF Clients, AnswerAndClose, Answer
<1> HIDE DEF q
<1>7. Sound(q, got[At], running, limits.maxBacklog)
  BY <1>1, <1>2, <1>3, <1>6, Responded
<1>8. Counts'
  BY <1>1, CountsKept DEF network
<1> QED
  BY <1>1, <1>6, <1>7, <1>8, HandledInv

LEMMA UpgradeInv == ASSUME CsInv, UpgradeWebSocket PROVE CsInv'
<1> DEFINE r == client[At]
           q == [Answer(r, Handshake) EXCEPT !.websocket = TRUE]
<1>1. /\ UNCHANGED <<network, published, clients, latest, push, todo, running>>
      /\ Handling /\ ~r.websocket /\ Handled(q)
  BY DEF UpgradeWebSocket
<1>2. /\ At \in accepted /\ At \in Conn /\ r \in Clients
      /\ Sound(r, got[At], running, limits.maxBacklog)
      /\ limits.maxBacklog \in Nat /\ running \in BOOLEAN
      /\ ~r.closing /\ Input \in Inputs
  <2>1. Handling
    BY <1>1
  <2> QED
    BY <2>1, InputTypes
<1>3. Stats \in Items /\ Stats.kind = "stats" /\ Hello \in Items /\ Hello.kind = "hello"
  <2>1. latest \in Int
    BY Sequences DEF CsInv, Counts
  <2> QED
    BY <2>1, ItemTypes DEF Stats
<1>4. r.out = << >>
  BY <1>1, <1>2, NothingYet
<1>5. r.out \o Handshake = <<Hello, Stats>> /\ <<Hello, Stats>> \in Seq(Items)
  <2> DEFINE s == <<Hello, Stats>>
  <2>1. s \in Seq(Items)
    BY <1>3
  <2> HIDE DEF s
  <2>2. << >> \o s = s
    BY <2>1, ConcatEmptySeq
  <2> QED
    BY <1>4, <2>1, <2>2 DEF s, Handshake
<1>6. /\ q \in Clients /\ q.out = <<Hello, Stats>> /\ ~q.closing /\ q.websocket
      /\ q.in = r.in /\ q.message = r.message
  BY <1>2, <1>5 DEF Clients, Answer
<1> HIDE DEF q
<1>7. Sound(q, got[At], running, limits.maxBacklog)
  BY <1>1, <1>2, <1>3, <1>6, Upgraded
<1>8. Counts'
  BY <1>1, CountsKept DEF network
<1> QED
  BY <1>1, <1>6, <1>7, <1>8, HandledInv

\* The message with frame f added.
LEMMA AssembledType ==
    ASSUME NEW r \in Clients, NEW f, IsData(f) => f.payload \in Seq(Bytes)
    PROVE  /\ IsData(f) => MessageWith(r, f) \in Seq(Bytes)
           /\ Assembled(r, f) \in Clients
           /\ Assembled(r, f).out = r.out /\ Assembled(r, f).in = r.in
           /\ Assembled(r, f).websocket = r.websocket
           /\ Assembled(r, f).closing = r.closing
           /\ \/ Assembled(r, f).message = r.message
              \/ /\ Assembled(r, f).message = MessageWith(r, f)
                 /\ IsData(f)
<1>1. ASSUME IsData(f) PROVE MessageWith(r, f) \in Seq(Bytes)
  <2>1. r.message \in Seq(Bytes) /\ << >> \in Seq(Bytes)
    BY EmptySeq DEF Clients
  <2> QED
    BY <1>1, <2>1, ConcatProperties DEF MessageWith
<1>2. CASE Assembled(r, f) = r
  BY <1>1, <1>2
<1>3. CASE Assembled(r, f) # r
  <2> DEFINE m == MessageWith(r, f)
             b == ~f.fin
             q == [r EXCEPT !.message = m, !.inMessage = b]
  <2>1. IsData(f) /\ Assembled(r, f) = q
    BY <1>3 DEF Assembled
  <2>2. m \in Seq(Bytes)
    BY <1>1, <2>1
  <2>3. b \in BOOLEAN
    OBVIOUS
  <2> HIDE DEF m, b
  <2>4. /\ q \in Clients /\ q.out = r.out /\ q.in = r.in
        /\ q.websocket = r.websocket /\ q.closing = r.closing /\ q.message = m
    BY <2>2, <2>3 DEF Clients
  <2> HIDE DEF q
  <2> QED
    BY <1>1, <2>1, <2>4 DEF m
<1> QED
  BY <1>2, <1>3

\* One item is queued on a WebSocket, maybe the last.
LEMMA AnsweredOne ==
    ASSUME NEW r \in Clients, NEW x \in Items
    PROVE  /\ Answer(r, <<x>>) \in Clients /\ Answer(r, <<x>>).out = Append(r.out, x)
           /\ Answer(r, <<x>>).websocket = r.websocket /\ Answer(r, <<x>>).closing = r.closing
           /\ Answer(r, <<x>>).in = r.in /\ Answer(r, <<x>>).message = r.message
           /\ Answer(r, <<x>>).inMessage = r.inMessage
           /\ AnswerAndClose(r, <<x>>) \in Clients
           /\ AnswerAndClose(r, <<x>>).out = Append(r.out, x)
           /\ AnswerAndClose(r, <<x>>).websocket = r.websocket
           /\ AnswerAndClose(r, <<x>>).closing = TRUE /\ AnswerAndClose(r, <<x>>).in = r.in
<1>1. r.out \in Seq(Items)
  BY DEF Clients
<1>2. r.out \o <<x>> = Append(r.out, x)
  BY <1>1, OneMore
<1>3. Append(r.out, x) \in Seq(Items)
  BY <1>1, AppendProperties
<1> DEFINE o == r.out \o <<x>>
<1>4. o \in Seq(Items)
  BY <1>2, <1>3
<1>5. Answer(r, <<x>>) = [r EXCEPT !.out = o]
  BY DEF Answer
<1>6. AnswerAndClose(r, <<x>>) = [r EXCEPT !.out = o, !.closing = TRUE]
  BY DEF AnswerAndClose, Answer, Clients
<1> HIDE DEF o
<1>7. /\ Answer(r, <<x>>) \in Clients /\ Answer(r, <<x>>).out = o
      /\ Answer(r, <<x>>).websocket = r.websocket /\ Answer(r, <<x>>).closing = r.closing
      /\ Answer(r, <<x>>).in = r.in /\ Answer(r, <<x>>).message = r.message
      /\ Answer(r, <<x>>).inMessage = r.inMessage
  BY <1>4, <1>5 DEF Clients
<1>8. /\ AnswerAndClose(r, <<x>>) \in Clients
      /\ AnswerAndClose(r, <<x>>).out = o
      /\ AnswerAndClose(r, <<x>>).websocket = r.websocket
      /\ AnswerAndClose(r, <<x>>).closing = TRUE /\ AnswerAndClose(r, <<x>>).in = r.in
  BY <1>4, <1>6 DEF Clients
<1> QED
  BY <1>2, <1>7, <1>8 DEF o

LEMMA FailInv == ASSUME CsInv, FailConnection PROVE CsInv'
<1> DEFINE r == client[At]
           a == Assembled(r, Input)
           q == AnswerAndClose(a, <<Close>>)
<1>1. /\ UNCHANGED <<network, published, clients, latest, push, todo, running>>
      /\ Handling /\ r.websocket /\ Handled(q)
  BY DEF FailConnection, Framing
<1>2. /\ At \in accepted /\ At \in Conn /\ r \in Clients
      /\ Sound(r, got[At], running, limits.maxBacklog)
      /\ limits.maxBacklog \in Nat /\ running \in BOOLEAN
      /\ ~r.closing
      /\ IsData(Input) => Input.payload \in Seq(Bytes)
  <2>1. Handling
    BY <1>1
  <2> QED
    BY <2>1, InputTypes
<1> HIDE DEF r
<1>3. /\ a \in Clients /\ a.out = r.out /\ a.in = r.in /\ a.websocket = r.websocket
  BY <1>2, AssembledType
<1> HIDE DEF a
<1>4. Close \in Items /\ Close.kind = "close"
  BY ItemTypes
<1>5. /\ q \in Clients /\ q.out = Append(r.out, Close) /\ q.closing /\ q.websocket /\ q.in = r.in
  <2>1. a \in Clients /\ Close \in Items
    BY <1>3, <1>4
  <2>2. /\ q \in Clients /\ q.out = Append(a.out, Close) /\ q.closing = TRUE
        /\ q.websocket = a.websocket /\ q.in = a.in
    BY <2>1, AnsweredOne
  <2> HIDE DEF q
  <2> QED
    BY <1>1, <1>3, <2>2
<1> HIDE DEF q
<1>6. Sound(q, got[At], running, limits.maxBacklog)
  BY <1>1, <1>2, <1>4, <1>5, Sent
<1>7. Counts'
  BY <1>1, CountsKept DEF network
<1> QED
  BY <1>1, <1>5, <1>6, <1>7, HandledInv DEF r

LEMMA ControlInv == ASSUME CsInv, HandleControl PROVE CsInv'
<1> DEFINE r == client[At]
<1>1. /\ UNCHANGED <<network, published, clients, latest, push, todo, running>>
      /\ Handling /\ r.websocket
      /\ Handled(Answer(r, <<Pong>>)) \/ Handled(r) \/ Handled(AnswerAndClose(r, <<Close>>))
  BY DEF HandleControl, Framing
<1>2. /\ At \in accepted /\ At \in Conn /\ r \in Clients
      /\ Sound(r, got[At], running, limits.maxBacklog)
      /\ limits.maxBacklog \in Nat /\ running \in BOOLEAN
      /\ ~r.closing /\ Len(r.message) <= MaxMessage
  <2>1. Handling
    BY <1>1
  <2> QED
    BY <2>1, InputTypes
<1>3. Counts'
  BY <1>1, CountsKept DEF network
<1>4. /\ Close \in Items /\ Close.kind = "close"
      /\ Pong \in Items /\ Pong.kind = "pong"
  BY ItemTypes
<1>5. CASE Handled(Answer(r, <<Pong>>))
  <2> DEFINE q == Answer(r, <<Pong>>)
  <2>1. /\ q \in Clients /\ q.out = Append(r.out, Pong) /\ q.closing = r.closing
        /\ q.websocket = r.websocket /\ q.in = r.in /\ q.message = r.message
    <3>1. r \in Clients /\ Pong \in Items
      BY <1>2, <1>4
    <3> HIDE DEF r
    <3> QED
      BY <3>1, AnsweredOne
  <2> HIDE DEF q
  <2>2. Sound(q, got[At], running, limits.maxBacklog)
    BY <1>1, <1>2, <1>4, <2>1, Sent
  <2>3. Handled(q)
    BY <1>5 DEF q
  <2> QED
    BY <1>1, <1>3, <2>1, <2>2, <2>3, HandledInv
<1>6. CASE Handled(r)
  BY <1>1, <1>2, <1>3, <1>6, HandledInv
<1>7. CASE Handled(AnswerAndClose(r, <<Close>>))
  <2> DEFINE q == AnswerAndClose(r, <<Close>>)
  <2>1. /\ q \in Clients /\ q.out = Append(r.out, Close) /\ q.closing
        /\ q.websocket = r.websocket /\ q.in = r.in
    <3>1. r \in Clients /\ Close \in Items
      BY <1>2, <1>4
    <3> HIDE DEF r
    <3> QED
      BY <3>1, AnsweredOne
  <2> HIDE DEF q
  <2>2. Sound(q, got[At], running, limits.maxBacklog)
    BY <1>1, <1>2, <1>4, <2>1, Sent
  <2>3. Handled(q)
    BY <1>7 DEF q
  <2> QED
    BY <1>1, <1>3, <2>1, <2>2, <2>3, HandledInv
<1> QED
  BY <1>1, <1>5, <1>6, <1>7

LEMMA FragmentInv == ASSUME CsInv, HandleFragment PROVE CsInv'
<1> DEFINE r == client[At]
           q == Assembled(r, Input)
<1>1. /\ UNCHANGED <<network, published, clients, latest, push, todo, running>>
      /\ Handling /\ r.websocket /\ Handled(q)
      /\ ~Fails(r, Input) /\ IsData(Input)
  BY DEF HandleFragment, Framing
<1>2. /\ At \in accepted /\ At \in Conn /\ r \in Clients
      /\ Sound(r, got[At], running, limits.maxBacklog)
      /\ limits.maxBacklog \in Nat /\ running \in BOOLEAN
      /\ Len(r.message) <= MaxMessage
      /\ ~r.closing
      /\ IsData(Input) => Input.payload \in Seq(Bytes)
  <2>1. Handling
    BY <1>1
  <2> QED
    BY <2>1, InputTypes
<1>3. /\ q \in Clients /\ q.out = r.out /\ q.in = r.in /\ q.websocket = r.websocket
      /\ q.closing = r.closing
      /\ q.message = r.message \/ q.message = MessageWith(r, Input)
      /\ MessageWith(r, Input) \in Seq(Bytes)
  <2> HIDE DEF r
  <2> QED
    BY <1>1, <1>2, AssembledType
<1>4. Len(q.message) <= MaxMessage
  <2>1. ~(Len(MessageWith(r, Input)) > MaxMessage)
    BY <1>1 DEF Fails
  <2>2. Len(MessageWith(r, Input)) \in Nat /\ MaxMessage \in Nat
    BY <1>3, LenProperties, ControlAssumption
  <2>3. Len(MessageWith(r, Input)) <= MaxMessage
    BY <2>1, <2>2
  <2> HIDE DEF q, r
  <2> QED
    BY <1>2, <1>3, <2>3
<1> HIDE DEF q
<1>5. Sound(q, got[At], running, limits.maxBacklog)
  BY <1>2, <1>3, <1>4, QueueKept
<1>6. Counts'
  BY <1>1, CountsKept DEF network
<1> QED
  BY <1>1, <1>3, <1>5, <1>6, HandledInv

LEMMA MessageInv == ASSUME CsInv, HandleMessage PROVE CsInv'
<1> DEFINE r == client[At]
           command == Command(MessageWith(r, Input))
<1>1. /\ UNCHANGED <<network, clients, latest, todo, running>>
      /\ Handling /\ r.websocket
  BY DEF HandleMessage, Framing
<1>2. PICK ok \in BOOLEAN :
        /\ published' = IF ok THEN Append(published, <<At, command>>) ELSE published
        /\ push' = (push \/ ok)
        /\ Handled([Answer(r, <<Result(command, ok)>>) EXCEPT
                       !.message = << >>, !.inMessage = FALSE])
  BY DEF HandleMessage
<1> DEFINE x == Result(command, ok)
           a == Answer(r, <<x>>)
           q == [a EXCEPT !.message = << >>, !.inMessage = FALSE]
<1>3. x \in Items /\ x.kind = "result"
  BY ItemTypes, Zenon
<1>4. /\ At \in accepted /\ At \in Conn /\ r \in Clients
      /\ Sound(r, got[At], running, limits.maxBacklog)
      /\ limits.maxBacklog \in Nat /\ running \in BOOLEAN
      /\ ~r.closing
  <2>1. Handling
    BY <1>1
  <2> QED
    BY <2>1, InputTypes
<1>5. Handled(q)
  BY <1>2
<1> HIDE DEF x, r
<1>6. /\ a \in Clients /\ a.out = Append(r.out, x) /\ a.closing = r.closing
      /\ a.websocket = r.websocket /\ a.in = r.in
  BY <1>3, <1>4, AnsweredOne
<1> HIDE DEF a
<1>7. /\ q \in Clients /\ q.out = Append(r.out, x) /\ q.closing = r.closing
      /\ q.websocket = r.websocket /\ q.in = r.in /\ q.message = << >>
  BY <1>6, EmptySeq DEF Clients
<1>8. Len(q.message) <= MaxMessage
  BY <1>7, ControlAssumption, EmptySeq
<1> HIDE DEF q
<1>9. Sound(q, got[At], running, limits.maxBacklog)
  BY <1>1, <1>3, <1>4, <1>7, <1>8, Sent
<1>10. Counts'
  <2>1. IsSequence(published) /\ latest \in -1 .. Len(published) /\ Len(published) \in Nat
    BY Sequences DEF CsInv, Counts
  <2>2. IsSequence(published') /\ latest' \in -1 .. Len(published')
    <3> DEFINE e == <<At, command>>
    <3> HIDE DEF e
    <3>1. published' = Append(published, e) \/ published' = published
      BY <1>2 DEF e
    <3>2. /\ IsSequence(Append(published, e))
          /\ Len(Append(published, e)) = Len(published) + 1
      BY <2>1, Appended
    <3>3. CASE published' = Append(published, e)
      BY <1>1, <2>1, <3>2, <3>3
    <3>4. CASE published' = published
      BY <1>1, <2>1, <3>4
    <3> QED
      BY <3>1, <3>3, <3>4
  <2>3. push' \in BOOLEAN
    BY <1>2
  <2> QED
    BY <1>1, <2>2, <2>3 DEF CsInv, Counts, network
<1> QED
  BY <1>1, <1>5, <1>7, <1>9, <1>10, HandledInv DEF r

LEMMA WriteInv ==
    ASSUME CsInv, NEW n \in 0 .. Len(client[At].out), Write(n)
    PROVE  CsInv'
<1> DEFINE r == client[At]
           q == Written(r, n)
           h == Receive(got[At], SubSeq(r.out, 1, n))
<1>1. /\ UNCHANGED <<script, limits, taken, left, accepted, published, clients, latest, push, running>>
      /\ Now("write") /\ Done
      /\ client' = [client EXCEPT ![At] = Written(@, n)]
      /\ got' = [got EXCEPT ![At] = Receive(@, SubSeq(client[At].out, 1, n))]
  BY DEF Write
<1>2. /\ At \in accepted /\ At \in Conn /\ todo # << >> /\ r \in Clients
      /\ Sound(r, got[At], running, limits.maxBacklog)
      /\ limits.maxBacklog \in Nat /\ running \in BOOLEAN
  BY <1>1, Served
<1>3. /\ client' = [client EXCEPT ![At] = q] /\ got' = [got EXCEPT ![At] = h]
  BY <1>1
<1>4. SubSeq(r.out, n + 1, Len(r.out)) \in Seq(Items)
  <2>1. r.out \in Seq(Items)
    BY <1>2 DEF Clients
  <2> HIDE DEF r
  <2>2. n \in 0 .. Len(r.out)
    BY DEF r
  <2> QED
    BY <2>1, <2>2, RestOf
<1>5. /\ q \in Clients /\ q.out = SubSeq(r.out, n + 1, Len(r.out)) /\ q.message = r.message
      /\ q.websocket = r.websocket /\ q.closing = r.closing
  <2> DEFINE o == SubSeq(r.out, n + 1, Len(r.out))
             d == r.dead \/ Finished(r, n)
  <2>1. q = [r EXCEPT !.out = o, !.dead = d]
    BY DEF Written
  <2>2. d \in BOOLEAN
    BY <1>2 DEF Clients, Finished
  <2> HIDE DEF q, d
  <2>3. o \in Seq(Items)
    BY <1>4
  <2> HIDE DEF o
  <2>4. /\ q \in Clients /\ q.out = o /\ q.message = r.message
        /\ q.websocket = r.websocket /\ q.closing = r.closing
    BY <1>2, <2>1, <2>2, <2>3 DEF Clients
  <2> QED
    BY <2>4 DEF o
<1> HIDE DEF q
<1>6. Sound(q, h, running, limits.maxBacklog)
  BY <1>2, <1>5, Sending
<1>7. todo' \in Seq(Calls(accepted))
  BY <1>1, <1>2, RestOfCalls
<1>8. left' \subseteq accepted
  BY <1>1 DEF CsInv, Table
<1> HIDE DEF h
<1>9. Connections' /\ Table'
  BY <1>1, <1>2, <1>3, <1>6, <1>7, <1>8, OneConnection
<1>10. Counts'
  BY <1>1, CountsKept
<1> QED
  BY <1>9, <1>10 DEF CsInv

\* Connections found at once, each once and none of them accepted before.
LEMMA NewConnections ==
    ASSUME CsInv, NEW S \in SUBSET Opening, NEW new \in SetToSeqs(S)
    PROVE  /\ new \in Seq(Conn) /\ Len(new) \in Nat /\ IsInjective(new)
           /\ \A i \in 1 .. Len(new) : new[i] \in Conn /\ new[i] \notin accepted
<1>1. S \subseteq Conn /\ S \cap accepted = {}
  BY DEF Opening
<1>2. IsFiniteSet(S)
  BY <1>1, ControlAssumption, FS_Subset
<1>3. Cardinality(S) \in Nat
  BY <1>2, FS_CardinalityType
<1>4. /\ new \in [1 .. Cardinality(S) -> S]
      /\ \A i, j \in 1 .. Cardinality(S) : i # j => new[i] # new[j]
  BY DEF SetToSeqs
<1>5. new \in Seq(S) /\ Len(new) = Cardinality(S) /\ DOMAIN new = 1 .. Len(new)
  BY <1>3, <1>4
<1>6. new \in Seq(Conn)
  BY <1>1, <1>5, WiderSeq
<1>7. IsInjective(new)
  BY <1>4, <1>5 DEF IsInjective
<1> QED
  BY <1>1, <1>3, <1>4, <1>5, <1>6, <1>7

LEMMA AcceptInv ==
    ASSUME CsInv, NEW S \in SUBSET Opening, NEW new \in SetToSeqs(S), AcceptClients(new)
    PROVE  CsInv'
<1> DEFINE Away(c) == \E i \in 1 .. Len(new) : new[i] = c /\ Len(clients) + i > limits.maxClients
           x == Response("503")
           q == AnswerAndClose(NewClient, <<x>>)
           A == accepted \cup ToSet(new)
<1>1. /\ UNCHANGED <<script, limits, taken, left, got, published, latest, push, running>>
      /\ todo # << >> /\ Done
      /\ accepted' = A /\ clients' = clients \o new
      /\ client' = [c \in Conn |-> IF Away(c) THEN AnswerAndClose(client[c], <<x>>)
                                   ELSE client[c]]
  BY DEF AcceptClients, Now
<1>2. /\ new \in Seq(Conn) /\ Len(new) \in Nat /\ IsInjective(new)
      /\ DOMAIN new = 1 .. Len(new)
      /\ \A i \in 1 .. Len(new) : new[i] \in Conn /\ new[i] \notin accepted
  BY NewConnections, LenProperties
<1>3. A \subseteq Conn /\ accepted \subseteq A
  BY <1>2 DEF CsInv, Table, ToSet
<1>4. ASSUME NEW c \in Conn, Away(c)
      PROVE  client[c] = NewClient /\ got[c] = << >> /\ c \in A
  BY <1>2, <1>4 DEF CsInv, Table, ToSet
<1>5. limits.maxBacklog \in Nat /\ running \in BOOLEAN
  BY DEF CsInv, Counts
<1>6. q \in Clients /\ Sound(q, << >>, running, limits.maxBacklog)
  <2>1. x \in Items /\ x.kind = "response"
    BY ItemTypes
  <2> HIDE DEF x
  <2>2. NewClient \in Clients /\ Sound(NewClient, << >>, running, limits.maxBacklog)
    BY <1>5, NewClientType, NewClientSound
  <2>3. NewClient.out = << >> /\ ~NewClient.websocket /\ ~NewClient.closing
    BY DEF NewClient
  <2>4. << >> \in Seq(Items) /\ Append(<< >>, x) = <<x>>
    BY EmptySeq
  <2>5. /\ q \in Clients /\ q.out = <<x>> /\ ~q.websocket /\ q.closing
    <3>1. /\ q \in Clients /\ q.out = Append(NewClient.out, x)
          /\ q.websocket = NewClient.websocket /\ q.closing = TRUE
      BY <2>1, <2>2, AnsweredOne
    <3> HIDE DEF q
    <3> QED
      BY <2>3, <2>4, <3>1
  <2> HIDE DEF q
  <2> QED
    BY <1>5, <2>1, <2>2, <2>3, <2>5, Responded
<1>7. ASSUME NEW c \in Conn
      PROVE  client'[c] \in Clients /\ Sound(client'[c], got[c], running, limits.maxBacklog)
  <2>1. CASE Away(c)
    <3>1. client'[c] = q /\ got[c] = << >>
      <4> HIDE DEF Away
      <4> QED
        BY <1>1, <1>4, <2>1, Zenon
    <3> HIDE DEF q
    <3> QED
      BY <1>6, <3>1
  <2>2. CASE ~Away(c)
    <3> HIDE DEF Away
    <3>1. client'[c] = client[c]
      BY <1>1, <2>2
    <3> QED
      BY <3>1 DEF CsInv, Connections
  <2> QED
    BY <2>1, <2>2
<1> HIDE DEF q, x
<1>8. Connections'
  <2>1. client' = [c \in Conn |-> client'[c]]
    BY <1>1, Zenon
  <2>2. client' \in [Conn -> Clients]
    BY <1>7, <2>1
  <2> QED
    BY <1>1, <1>7, <2>2 DEF CsInv, Connections
<1>9. clients' \in Seq(A) /\ IsInjective(clients')
  <2>1. clients \in Seq(A) /\ clients \in Seq(accepted) /\ IsInjective(clients)
    BY <1>3, WiderSeq DEF CsInv, Table
  <2>2. new \in Seq(A)
    <3>1. \A i \in 1 .. Len(new) : new[i] \in A
      BY <1>2 DEF ToSet
    <3> HIDE DEF A
    <3> QED
      BY <1>2, <3>1
  <2> HIDE DEF A
  <2>3. /\ clients' \in Seq(A) /\ Len(clients') = Len(clients) + Len(new) /\ Len(clients) \in Nat
        /\ \A i \in 1 .. Len(clients) : clients'[i] = clients[i]
        /\ \A i \in 1 .. Len(new) : clients'[Len(clients) + i] = new[i]
    <3>1. clients' = clients \o new
      BY <1>1
    <3> QED
      BY <2>1, <2>2, <3>1, Joined
  <2>4. DOMAIN clients' = 1 .. Len(clients) + Len(new) /\ DOMAIN clients = 1 .. Len(clients)
    BY <2>1, <2>3, LenProperties
  <2>5. \A i \in 1 .. Len(clients) : clients[i] \in accepted
    BY <2>1, ElementOfSeq
  <2>6. ASSUME NEW a \in DOMAIN clients', NEW b \in DOMAIN clients', clients'[a] = clients'[b]
        PROVE  a = b
    <3>1. ASSUME NEW i \in DOMAIN clients', i \notin 1 .. Len(clients)
          PROVE  /\ i - Len(clients) \in 1 .. Len(new)
                 /\ clients'[i] = new[i - Len(clients)] /\ clients'[i] \notin accepted
      <4>1. i - Len(clients) \in 1 .. Len(new) /\ Len(clients) + (i - Len(clients)) = i
        BY <1>2, <2>3, <2>4, <3>1
      <4> QED
        BY <1>2, <2>3, <4>1
    <3>2. CASE a \in 1 .. Len(clients) /\ b \in 1 .. Len(clients)
      BY <2>1, <2>3, <2>4, <2>6, <3>2 DEF IsInjective
    <3>3. CASE a \in 1 .. Len(clients) /\ b \notin 1 .. Len(clients)
      BY <2>3, <2>5, <2>6, <3>1, <3>3
    <3>4. CASE a \notin 1 .. Len(clients) /\ b \in 1 .. Len(clients)
      BY <2>3, <2>5, <2>6, <3>1, <3>4
    <3>5. CASE a \notin 1 .. Len(clients) /\ b \notin 1 .. Len(clients)
      <4>1. a - Len(clients) = b - Len(clients)
        BY <1>2, <2>6, <3>1, <3>5 DEF IsInjective
      <4> QED
        BY <1>2, <2>3, <2>4, <4>1
    <3> QED
      BY <3>2, <3>3, <3>4, <3>5
  <2> QED
    BY <2>3, <2>6 DEF IsInjective
<1>10. Table'
  <2>1. todo' \in Seq(Calls(accepted)) 
    BY <1>1, RestOfCalls
  <2>2. Calls(accepted) \subseteq Calls(A)
    BY <1>3 DEF Calls
  <2>3. todo' \in Seq(Calls(A))
    <3> DEFINE C == Calls(accepted)
               D == Calls(A)
    <3>1. C \subseteq D /\ todo' \in Seq(C)
      BY <2>1, <2>2
    <3> HIDE DEF C, D
    <3>2. todo' \in Seq(D)
      BY <3>1, WiderSeq
    <3> QED
      BY <3>2 DEF D
  <2>4. ASSUME NEW c \in Conn \ A PROVE client'[c] = NewClient /\ got'[c] = << >>
    <3>1. ~Away(c) /\ c \in Conn \ accepted
      BY <1>3, <1>4
    <3> HIDE DEF Away
    <3>2. client'[c] = client[c]
      BY <1>1, <3>1
    <3> QED
      BY <1>1, <3>1, <3>2 DEF CsInv, Table
  <2>5. left' \subseteq A
    BY <1>1, <1>3 DEF CsInv, Table
  <2> HIDE DEF A
  <2>6. accepted' = A
    BY <1>1
  <2> QED
    BY <1>3, <1>9, <2>3, <2>4, <2>5, <2>6 DEF Table
<1>11. Counts'
  BY <1>1, CountsKept
<1> QED
  BY <1>8, <1>10, <1>11 DEF CsInv

\* The connections left are those of the table that are not dead, in their order.
LEMMA LivingFiltered ==
    ASSUME CsInv
    PROVE  Living = Filtered(clients, {c \in accepted : ~client[c].dead})
<1> DEFINE K == {c \in accepted : ~client[c].dead}
<1>1. {i \in 1 .. Len(clients) : ~client[clients[i]].dead} = {i \in 1 .. Len(clients) : clients[i] \in K}
  BY ServedInTable
<1> QED
  BY <1>1 DEF Living, Filtered

\* Leaving out elements leaves no element twice.
LEMMA FilteredInjective ==
    ASSUME NEW S, NEW s \in Seq(S), IsInjective(s), NEW K
    PROVE  Filtered(s, K) \in Seq(S) /\ IsInjective(Filtered(s, K))
<1> DEFINE t == Filtered(s, K)
<1>1. t \in Seq(S)
  BY FilteredOrder
<1>2. \E at \in [1 .. Len(t) -> 1 .. Len(s)] :
            /\ \A n \in 1 .. Len(t) : t[n] = s[at[n]]
            /\ \A n, m \in 1 .. Len(t) : n < m => at[n] < at[m]
  BY FilteredOrder
<1> HIDE DEF t
<1>3. PICK at \in [1 .. Len(t) -> 1 .. Len(s)] :
            /\ \A n \in 1 .. Len(t) : t[n] = s[at[n]]
            /\ \A n, m \in 1 .. Len(t) : n < m => at[n] < at[m]
  BY <1>2
<1>4. /\ Len(s) \in Nat /\ Len(t) \in Nat
      /\ DOMAIN s = 1 .. Len(s) /\ DOMAIN t = 1 .. Len(t)
  BY <1>1, LenProperties
<1>5. ASSUME NEW n \in 1 .. Len(t), NEW m \in 1 .. Len(t), t[n] = t[m]
      PROVE  n = m
  <2>1. at[n] \in 1 .. Len(s) /\ at[m] \in 1 .. Len(s)
    BY <1>3
  <2>2. s[at[n]] = s[at[m]]
    BY <1>3, <1>5
  <2>3. at[n] = at[m]
    BY <1>4, <2>1, <2>2 DEF IsInjective
  <2>4. ~(n < m) /\ ~(m < n)
    BY <1>3, <1>4, <2>1, <2>3
  <2> QED
    BY <1>4, <2>4
<1>6. IsInjective(t)
  BY <1>4, <1>5 DEF IsInjective
<1> QED
  BY <1>1, <1>6 DEF t

LEMMA EraseInv == ASSUME CsInv, Erase PROVE CsInv'
<1> DEFINE K == {c \in accepted : ~client[c].dead}
<1>1. /\ UNCHANGED <<network, published, client, latest, push, running>>
      /\ todo # << >> /\ Done /\ clients' = Filtered(clients, K)
  BY LivingFiltered DEF Erase, Now
<1>2. clients \in Seq(accepted) /\ IsInjective(clients)
  BY DEF CsInv, Table
<1> HIDE DEF K
<1>3. clients' \in Seq(accepted) /\ IsInjective(clients')
  BY <1>1, <1>2, FilteredInjective
<1>4. todo' \in Seq(Calls(accepted))
  BY <1>1, RestOfCalls
<1>5. Connections'
  BY <1>1 DEF CsInv, Connections, network
<1>6. Table'
  BY <1>1, <1>3, <1>4 DEF CsInv, Table, network
<1>7. Counts'
  BY <1>1, CountsKept DEF network
<1> QED
  BY <1>5, <1>6, <1>7 DEF CsInv

LEMMA StopInv == ASSUME CsInv, Stop PROVE CsInv'
<1>1. /\ UNCHANGED <<network, published, clients, latest, push, todo>> /\ running' = FALSE
      /\ client' = [c \in Conn |-> IF c \in ToSet(clients) /\ client[c].websocket
                                     THEN Answer(client[c], <<Close>>) ELSE client[c]]
  BY DEF Stop
<1>2. limits.maxBacklog \in Nat /\ running \in BOOLEAN
  BY DEF CsInv, Counts
<1>3. Close \in Items /\ Close.kind = "close"
  BY ItemTypes
<1>4. ASSUME NEW c \in Conn
      PROVE  client'[c] \in Clients /\ Sound(client'[c], got[c], FALSE, limits.maxBacklog)
  <2> DEFINE r == client[c]
             q == Answer(r, <<Close>>)
  <2>1. r \in Clients /\ Sound(r, got[c], running, limits.maxBacklog)
    BY DEF CsInv, Connections
  <2>2. Len(r.message) <= MaxMessage \/ r.closing
    BY <2>1 DEF Sound
  <2>3. CASE c \in ToSet(clients) /\ r.websocket
    <3>1. client'[c] = q
      BY <1>1, <2>3, Zenon
    <3>2. /\ q \in Clients /\ q.out = Append(r.out, Close) /\ q.closing = r.closing
          /\ q.websocket = r.websocket /\ q.message = r.message
      BY <1>3, <2>1, AnsweredOne
    <3> HIDE DEF q, r
    <3>3. Sound(q, got[c], FALSE, limits.maxBacklog)
      BY <1>2, <1>3, <2>1, <2>2, <2>3, <3>2, Sent
    <3> QED
      BY <3>1, <3>2, <3>3
  <2>4. CASE ~(c \in ToSet(clients) /\ r.websocket)
    <3>1. client'[c] = r
      BY <1>1, <2>4, Zenon
    <3> HIDE DEF r
    <3>2. Sound(r, got[c], FALSE, limits.maxBacklog)
      BY <1>2, <2>1, <2>2, QueueKept
    <3> QED
      BY <2>1, <3>1, <3>2
  <2> QED
    BY <2>3, <2>4
<1>5. client' \in [Conn -> Clients]
  <2>1. client' = [c \in Conn |-> client'[c]]
    BY <1>1, Zenon
  <2> QED
    BY <1>4, <2>1
<1>6. ASSUME NEW c \in Conn \ accepted PROVE client'[c] = NewClient
  <2>1. c \notin ToSet(clients) /\ c \in Conn
    BY <1>6, ServedInTable
  <2>2. client'[c] = client[c]
    BY <1>1, <2>1, Zenon
  <2> QED
    BY <2>2 DEF CsInv, Table
<1>7. Connections'
  BY <1>1, <1>4, <1>5 DEF CsInv, Connections, network
<1>8. Table'
  BY <1>1, <1>6 DEF CsInv, Table, network
<1>9. Counts'
  BY <1>1 DEF CsInv, Counts, network
<1> QED
  BY <1>7, <1>8, <1>9 DEF CsInv

LEMMA PollFailsInv == ASSUME CsInv, PollFails PROVE CsInv'
<1>1. UNCHANGED <<network, published, clients, client, latest, push, todo>> /\ running' = FALSE
  BY DEF PollFails
<1>2. ASSUME NEW c \in Conn PROVE Sound(client[c], got[c], FALSE, limits.maxBacklog)
  <2>1. /\ client[c] \in Clients /\ Sound(client[c], got[c], running, limits.maxBacklog)
        /\ running \in BOOLEAN
    BY DEF CsInv, Connections, Counts
  <2>2. Len(client[c].message) <= MaxMessage \/ client[c].closing
    BY <2>1 DEF Sound
  <2> QED
    BY <2>1, <2>2, QueueKept
<1>3. Connections'
  BY <1>1, <1>2 DEF CsInv, Connections, network
<1>4. Table'
  BY <1>1 DEF CsInv, Table, network
<1>5. Counts'
  BY <1>1 DEF CsInv, Counts, network
<1> QED
  BY <1>3, <1>4, <1>5 DEF CsInv

LEMMA StepInv == ASSUME CsInv, [Next]_vars PROVE CsInv'
<1>1. CASE ServerStep
  <2>1. CASE Poll
    BY <2>1, PollInv
  <2>2. CASE NotReady \/ HandlerDone
    BY <2>2, NotReadyInv
  <2>3. CASE \E s \in 0 .. Len(published) : DrainStats(s)
    BY <2>3, DrainInv
  <2>4. CASE Reads
    BY <2>4, ReadInv, DeadInv DEF Reads
  <2>5. CASE HandleHttp
    BY <2>5, HttpInv
  <2>6. CASE UpgradeWebSocket
    BY <2>6, UpgradeInv
  <2>7. CASE FailConnection
    BY <2>7, FailInv
  <2>8. CASE HandleControl
    BY <2>8, ControlInv
  <2>9. CASE HandleFragment
    BY <2>9, FragmentInv
  <2>10. CASE HandleMessage
    BY <2>10, MessageInv
  <2>11. CASE Writes
    BY <2>11, WriteInv, DeadInv DEF Writes
  <2>12. CASE Accepts
    <3>1. PICK S \in SUBSET Opening : \E new \in SetToSeqs(S) : AcceptClients(new)
      BY <2>12 DEF Accepts
    <3> QED
      BY <3>1, AcceptInv
  <2>13. CASE Update \/ NoUpdate
    BY <2>13, UpdateInv
  <2>14. CASE Erase
    BY <2>14, EraseInv
  <2> QED
    BY <1>1, <2>1, <2>2, <2>3, <2>4, <2>5, <2>6, <2>7, <2>8, <2>9, <2>10, <2>11, <2>12,
       <2>13, <2>14 DEF ServerStep
<1>2. CASE Stop
  BY <1>2, StopInv
<1>3. CASE PollFails
  BY <1>3, PollFailsInv
<1>4. CASE UNCHANGED vars
  <2>1. Connections' /\ Table' /\ Counts'
    <3>1. UNCHANGED <<script, limits, taken, left, got, accepted, published, clients,
                      client, latest, push, todo, running>>
      BY <1>4 DEF vars, network
    <3>2. Counts'
      BY <3>1, CountsKept
    <3>3. Connections' /\ Table'
      <4>1. todo' \in Seq(Calls(accepted))
        BY <3>1 DEF CsInv, Table
      <4> QED
        BY <3>1, <4>1, NoConnection
    <3> QED
      BY <3>2, <3>3
  <2> QED
    BY <2>1 DEF CsInv
<1> QED
  BY <1>1, <1>2, <1>3, <1>4 DEF Next

-----------------------------------------------------------------------------
(* The results in a stream.                                                *)

IsResult(items) == {i \in 1 .. Len(items) : items[i].kind = "result"}

\* An item more is a result more, if it is one.
LEMMA ResultsNext ==
    ASSUME NEW s \in Seq(Items), NEW x \in Items
    PROVE  /\ x.kind = "result" => Results(Append(s, x)) = Append(Results(s), x)
           /\ x.kind # "result" => Results(Append(s, x)) = Results(s)
<1> DEFINE t == Append(s, x)
<1>1. /\ t \in Seq(Items) /\ Len(t) = Len(s) + 1 /\ t[Len(s) + 1] = x
      /\ \A i \in 1 .. Len(s) : t[i] = s[i]
  BY AppendProperties
<1>2. Len(s) \in Nat
  BY LenProperties
<1>3. Results(s) = Selected(s, IsResult(s)) /\ Results(t) = Selected(t, IsResult(t))
  BY DEF Results, IsResult
<1>4. IsResult(s) \in Positions(Len(s))
  BY DEF IsResult, Positions
<1> HIDE DEF t
<1>5. IsResult(t) = IF x.kind = "result" THEN IsResult(s) \cup {Len(s) + 1} ELSE IsResult(s)
  <2>1. ASSUME NEW i PROVE i \in 1 .. Len(t) <=> i \in 1 .. Len(s) \/ i = Len(s) + 1
    BY <1>1, <1>2
  <2>2. ASSUME NEW i PROVE i \in IsResult(t) <=> i \in IsResult(s) \/ (i = Len(s) + 1 /\ x.kind = "result")
    BY <1>1, <1>2, <2>1 DEF IsResult
  <2> QED
    BY <2>2
<1>6. Selected(t, IsResult(s)) = Selected(s, IsResult(s))
  <2>1. \A i \in IsResult(s) : t[i] = s[i]
    BY <1>1 DEF IsResult
  <2> QED
    BY <1>2, <1>4, <2>1, SelectedSame
<1>7. Selected(t, IsResult(s) \cup {Len(s) + 1}) = Append(Selected(t, IsResult(s)), t[Len(s) + 1])
  <2>1. 1 \in Nat \ {0}
    OBVIOUS
  <2> QED
    BY <1>2, <1>4, <2>1, SelectedNext
<1> QED
  BY <1>1, <1>3, <1>5, <1>6, <1>7 DEF t

LEMMA ResultsNone == Results(<< >>) = << >>
<1>1. Len(<< >>) = 0
  BY EmptySeq
<1>2. {i \in 1 .. Len(<< >>) : << >>[i].kind = "result"} = {}
  BY <1>1
<1> QED
  BY <1>2, SelectedNone DEF Results

\* A sequence up to an element, and to the one in front of it.
LEMMA UpTo ==
    ASSUME NEW S, NEW o \in Seq(S), NEW i \in 1 .. Len(o)
    PROVE  /\ SubSeq(o, 1, i - 1) \in Seq(S) /\ o[i] \in S
           /\ SubSeq(o, 1, i) = Append(SubSeq(o, 1, i - 1), o[i])
<1>1. Len(o) \in Nat /\ 1 \in 1 .. Len(o) /\ i \in 1 .. Len(o)
  BY LenProperties
<1>2. SubSeq(o, 1, i) = SubSeq(o, 1, i - 1) \o <<o[i]>>
  BY <1>1, SubSeqRecursiveSecond
<1>3. \A j \in 1 .. i - 1 : o[j] \in S
  <2>1. \A j \in 1 .. i - 1 : j \in 1 .. Len(o)
    BY <1>1
  <2> QED
    BY <2>1, ElementOfSeq
<1>4. SubSeq(o, 1, i - 1) \in Seq(S)
  BY <1>1, <1>3, SubSeqProperties
<1>5. o[i] \in S
  BY ElementOfSeq
<1> QED
  BY <1>2, <1>4, <1>5, AppendIsConcat

\* With the same results, the same behind it makes the same results.
LEMMA ResultsBehind ==
    ASSUME NEW a \in Seq(Items), NEW b \in Seq(Items), NEW r \in Seq(Items),
           Results(a) = Results(b)
    PROVE  Results(a \o r) = Results(b \o r)
<1> DEFINE p(i) == SubSeq(r, 1, i)
           T == {i \in 0 .. Len(r) : Results(a \o p(i)) # Results(b \o p(i))}
<1>1. Len(r) \in Nat
  BY LenProperties
<1>2. ASSUME NEW i \in T, \A j \in T : i <= j PROVE FALSE
  <2>1. CASE i = 0
    <3>1. p(0) = << >>
      BY SubSeqEmpty
    <3>2. a \o p(0) = a /\ b \o p(0) = b
      BY <3>1, ConcatEmptySeq
    <3> QED
      BY <2>1, <3>2
  <2>2. CASE i # 0
    <3>1. i \in 1 .. Len(r) /\ i - 1 \in 0 .. Len(r) /\ ~(i <= i - 1)
      BY <1>1, <2>2
    <3>2. Results(a \o p(i - 1)) = Results(b \o p(i - 1))
      <4>1. i - 1 \notin T
        <5> HIDE DEF T
        <5> QED
          BY <1>2, <3>1
      <4> QED
        BY <3>1, <4>1
    <3>3. p(i - 1) \in Seq(Items) /\ r[i] \in Items /\ p(i) = Append(p(i - 1), r[i])
      BY <3>1, UpTo
    <3> DEFINE q == p(i - 1)
               x == r[i]
    <3> HIDE DEF p, q, x
    <3>4. a \o Append(q, x) = Append(a \o q, x) /\ b \o Append(q, x) = Append(b \o q, x)
      <4>1. q \in Seq(Items) /\ x \in Items
        BY <3>3 DEF q, x
      <4>2. a \o Append(q, x) = Append(a \o q, x)
        BY <4>1, JoinedAppend
      <4>3. b \o Append(q, x) = Append(b \o q, x)
        BY <4>1, JoinedAppend
      <4> QED
        BY <4>2, <4>3
    <3>5. a \o q \in Seq(Items) /\ b \o q \in Seq(Items) /\ x \in Items
      BY <3>3, Joined DEF q, x
    <3>6. Results(Append(a \o q, x)) = Results(Append(b \o q, x))
      <4>1. Results(a \o q) = Results(b \o q)
        BY <3>2 DEF q
      <4>2. ASSUME NEW s \in Seq(Items)
            PROVE  Results(Append(s, x)) = IF x.kind = "result" THEN Append(Results(s), x)
                                           ELSE Results(s)
        BY <3>5, ResultsNext
      <4>3. /\ Results(Append(a \o q, x)) = IF x.kind = "result" THEN Append(Results(a \o q), x)
                                            ELSE Results(a \o q)
            /\ Results(Append(b \o q, x)) = IF x.kind = "result" THEN Append(Results(b \o q), x)
                                            ELSE Results(b \o q)
        BY <3>5, <4>2
      <4> QED
        BY <4>1, <4>3, Zenon
    <3>7. Results(a \o p(i)) = Results(b \o p(i))
      BY <3>3, <3>4, <3>6 DEF q, x
    <3> QED
      BY <3>7
  <2> QED
    BY <2>1, <2>2
<1>3. T = {}
  <2>1. T \in SUBSET Nat
    BY <1>1
  <2> HIDE DEF T
  <2> QED
    BY <1>2, <2>1, LeastElement
<1>4. Len(r) \in 0 .. Len(r) /\ p(Len(r)) = r
  BY <1>1, SubSeqFull
<1> QED
  BY <1>3, <1>4

\* What the peer has of a queue and what is left of it hold the results of the queue.
LEMMA ResultsReceived ==
    ASSUME NEW g \in Seq(Items), NEW o \in Seq(Items), NEW n \in 0 .. Len(o)
    PROVE  Results(Receive(g, SubSeq(o, 1, n)) \o SubSeq(o, n + 1, Len(o))) = Results(g \o o)
<1> DEFINE p(i) == SubSeq(o, 1, i)
           rest == SubSeq(o, n + 1, Len(o))
<1>1. Len(o) \in Nat /\ n \in Nat /\ n <= Len(o)
  BY LenProperties
<1>2. PICK has : /\ has[0] = g /\ Receive(g, SubSeq(o, 1, n)) = has[n]
                 /\ \A i \in 1 .. n : has[i] = With(has[i - 1], o[i])
  BY ReceivedItems
<1> DEFINE Right(i) == has[i] \in Seq(Items) /\ Results(has[i]) = Results(g \o p(i))
           T == {i \in 0 .. n : ~Right(i)}
<1>3. ASSUME NEW i \in T, \A j \in T : i <= j PROVE FALSE
  <2>1. CASE i = 0
    <3>1. p(0) = << >>
      BY SubSeqEmpty
    <3>2. g \o p(0) = g
      BY <3>1, ConcatEmptySeq
    <3> HIDE DEF p
    <3> QED
      BY <1>2, <2>1, <3>2
  <2>2. CASE i # 0
    <3>1. i \in 1 .. Len(o) /\ i \in 1 .. n /\ i - 1 \in 0 .. n /\ ~(i <= i - 1)
      BY <1>1, <2>2
    <3>2. Right(i - 1)
      <4>1. i - 1 \notin T
        <5> HIDE DEF T
        <5> QED
          BY <1>3, <3>1
      <4> QED
        BY <3>1, <4>1
    <3> DEFINE q == p(i - 1)
               x == o[i]
               h == has[i - 1]
    <3>3. q \in Seq(Items) /\ x \in Items /\ p(i) = Append(q, x)
      BY <3>1, UpTo
    <3>4. has[i] = With(h, x) /\ h \in Seq(Items) /\ Results(h) = Results(g \o q)
      BY <1>2, <3>1, <3>2
    <3> HIDE DEF p, q, x, h
    <3>5. g \o Append(q, x) = Append(g \o q, x)
      BY <3>3, JoinedAppend
    <3>6. g \o q \in Seq(Items)
      BY <3>3, Joined
    <3>7. With(h, x) \in Seq(Items) /\ Results(With(h, x)) = Results(Append(h, x))
      <4>1. CASE With(h, x) = Append(h, x)
        BY <3>3, <3>4, <4>1, AppendProperties
      <4>2. CASE With(h, x) # Append(h, x)
        <5>1. With(h, x) = h /\ x.kind = "stats"
          BY <4>2 DEF With
        <5>2. Results(Append(h, x)) = Results(h)
          BY <3>3, <3>4, <5>1, ResultsNext
        <5> QED
          BY <3>4, <5>1, <5>2
      <4> QED
        BY <4>1, <4>2
    <3>8. Results(Append(h, x)) = Results(Append(g \o q, x))
      <4>1. ASSUME NEW s \in Seq(Items)
            PROVE  Results(Append(s, x)) = IF x.kind = "result" THEN Append(Results(s), x)
                                           ELSE Results(s)
        BY <3>3, ResultsNext
      <4>2. /\ Results(Append(h, x)) = IF x.kind = "result" THEN Append(Results(h), x)
                                       ELSE Results(h)
            /\ Results(Append(g \o q, x)) = IF x.kind = "result" THEN Append(Results(g \o q), x)
                                            ELSE Results(g \o q)
        BY <3>4, <3>6, <4>1
      <4> QED
        BY <3>4, <4>2, Zenon
    <3>9. Right(i)
      BY <3>3, <3>4, <3>5, <3>7, <3>8
    <3> QED
      BY <3>9
  <2> QED
    BY <2>1, <2>2
<1>4. T = {}
  <2>1. T \in SUBSET Nat
    BY <1>1
  <2> HIDE DEF T
  <2> QED
    BY <1>3, <2>1, LeastElement
<1>5. Right(n)
  <2>1. n \in 0 .. n
    BY <1>1
  <2> HIDE DEF Right
  <2> QED
    BY <1>4, <2>1
<1>6. p(n) \in Seq(Items) /\ rest \in Seq(Items) /\ p(n) \o rest = o
  <2>1. \A i \in 1 .. n : o[i] \in Items
    <3>1. \A i \in 1 .. n : i \in 1 .. Len(o)
      BY <1>1
    <3> QED
      BY <3>1, ElementOfSeq
  <2>2. p(n) \in Seq(Items)
    BY <1>1, <2>1, SubSeqProperties
  <2>3. rest \in Seq(Items)
    BY RestOf
  <2>4. p(n) \o rest = SubSeq(o, 1, Len(o))
    <3>1. 1 \in 1 .. Len(o) + 1 /\ n \in 1 - 1 .. Len(o) /\ Len(o) \in n .. Len(o)
      BY <1>1
    <3> QED
      BY <3>1, ConcatAdjacentSubSeq
  <2> QED
    BY <2>2, <2>3, <2>4, SubSeqFull
<1> DEFINE a == has[n]
           b == g \o p(n)
<1>7. a \in Seq(Items) /\ Results(a) = Results(b)
  BY <1>5
<1> HIDE DEF p, rest, T
<1>8. b \in Seq(Items) /\ b \o rest = g \o o
  <2>1. b \in Seq(Items)
    BY <1>6, Joined
  <2>2. b \o rest = g \o (p(n) \o rest)
    <3>1. \A u, v \in Seq(Items) : (g \o u) \o v = g \o (u \o v)
      BY ConcatAssociative
    <3> QED
      BY <1>6, <3>1
  <2> QED
    BY <1>6, <2>1, <2>2
<1> HIDE DEF a, b
<1>9. Results(a \o rest) = Results(b \o rest)
  BY <1>6, <1>7, <1>8, ResultsBehind
<1> QED
  BY <1>2, <1>8, <1>9 DEF a, rest

-----------------------------------------------------------------------------
(* The commands of a peer's messages.                                      *)

\* A prefix, element by element.
LEMMA PrefixIs ==
    ASSUME NEW s, IsSequence(s), NEW t, IsSequence(t)
    PROVE  IsPrefix(s, t) <=> Len(s) <= Len(t) /\ \A i \in 1 .. Len(s) : s[i] = t[i]
<1> DEFINE S == {s[i] : i \in DOMAIN s} \cup {t[i] : i \in DOMAIN t}
           n == Len(s)
<1>1. s \in Seq(S) /\ t \in Seq(S)
  BY WiderSeq DEF IsSequence
<1> HIDE DEF S
<1>2. n \in Nat /\ Len(t) \in Nat /\ SubSeq(s, 1, n) = s
  BY <1>1, LenProperties, SubSeqFull
<1>3. CASE ~(n <= Len(t))
  BY <1>3 DEF IsPrefix
<1>4. CASE n <= Len(t)
  <2> DEFINE q == SubSeq(t, 1, n)
  <2>1. \A i \in 1 .. n : t[i] \in S
    <3>1. \A i \in 1 .. n : i \in 1 .. Len(t)
      BY <1>2, <1>4
    <3> QED
      BY <1>1, <3>1, ElementOfSeq
  <2>2. /\ q \in Seq(S) /\ Len(q) = IF 1 <= n THEN n - 1 + 1 ELSE 0
        /\ \A i \in 1 .. n - 1 + 1 : q[i] = t[1 + i - 1]
    BY <1>2, <2>1, SubSeqProperties
  <2> HIDE DEF q
  <2>3. Len(q) = n
    BY <1>2, <2>2
  <2>4. ASSUME NEW i \in 1 .. n PROVE q[i] = t[i]
    <3>1. i \in 1 .. n - 1 + 1 /\ 1 + i - 1 = i
      BY <1>2
    <3> QED
      BY <2>2, <3>1
  <2>5. s = q <=> \A i \in 1 .. n : s[i] = t[i]
    <3>1. (\A i \in 1 .. n : s[i] = t[i]) => s = q
      BY <1>1, <2>2, <2>3, <2>4, SeqEqual
    <3> QED
      BY <2>4, <3>1
  <2> QED
    BY <1>2, <1>4, <2>5 DEF IsPrefix, q
<1> QED
  BY <1>3, <1>4

Numbers(f) == [e \in 1 .. Len(f) |-> e]

\* Frame e ends a message.
Ended(f, e) == IsData(f[e]) /\ f[e].fin /\ \A j \in 1 .. e : InOrder(f, j)

LEMMA EndsAre ==
    ASSUME NEW f, Len(f) \in Nat, NEW k \in Nat
    PROVE  /\ Ends(f, k) = {e \in 1 .. Len(f) : e <= k /\ Ended(f, e)}
           /\ Ends(f, k) \in Positions(k) /\ Ends(f, k) \in Positions(Len(f))
           /\ Ends(f, k) \in SUBSET (1 .. Len(f))
BY DEF Ends, Ended, Positions

LEMMA EndsNext ==
    ASSUME NEW f, Len(f) \in Nat, NEW k \in 0 .. Len(f) - 1
    PROVE  Ends(f, k + 1) = IF Ended(f, k + 1) THEN Ends(f, k) \cup {k + 1} ELSE Ends(f, k)
<1>1. k \in Nat /\ k + 1 \in Nat /\ k + 1 \in 1 .. Len(f)
  OBVIOUS
<1>2. /\ Ends(f, k) = {e \in 1 .. Len(f) : e <= k /\ Ended(f, e)}
      /\ Ends(f, k + 1) = {e \in 1 .. Len(f) : e <= k + 1 /\ Ended(f, e)}
  BY <1>1, EndsAre
<1>3. \A e \in 1 .. Len(f) : e <= k + 1 <=> e <= k \/ e = k + 1
  BY <1>1
<1>4. ASSUME NEW e
      PROVE  e \in Ends(f, k + 1) <=> e \in Ends(f, k) \/ (e = k + 1 /\ Ended(f, k + 1))
  BY <1>1, <1>2, <1>3
<1> QED
  BY <1>4

\* The commands, one per end of a message.
LEMMA CommandsAre ==
    ASSUME NEW f, Len(f) \in Nat, NEW k \in Nat
    PROVE  LET ends == Selected(Numbers(f), Ends(f, k))
           IN  /\ IsSequence(ends) /\ Len(ends) = Cardinality(Ends(f, k))
               /\ Cardinality(Ends(f, k)) \in Nat
               /\ Commands(f, k) = [i \in 1 .. Len(ends) |-> Command(Text(f, ends[i]))]
               /\ IsSequence(Commands(f, k)) /\ Len(Commands(f, k)) = Len(ends)
<1> DEFINE ends == Selected(Numbers(f), Ends(f, k))
<1>1. /\ IsSequence(ends) /\ Len(ends) = Cardinality(Ends(f, k))
      /\ Cardinality(Ends(f, k)) \in Nat
  BY EndsAre, SelectionIs
<1>2. Commands(f, k) = [i \in 1 .. Len(ends) |-> Command(Text(f, ends[i]))]
  BY DEF Commands, Numbers
<1>3. ASSUME NEW n \in Nat, NEW c, DOMAIN c = 1 .. n, c = [i \in 1 .. n |-> c[i]]
      PROVE  IsSequence(c) /\ Len(c) = n
  <2>1. c \in [1 .. n -> {c[i] : i \in DOMAIN c}]
    BY <1>3
  <2> QED
    BY <2>1 DEF IsSequence
<1> HIDE DEF ends
<1>4. IsSequence(Commands(f, k)) /\ Len(Commands(f, k)) = Len(ends)
  BY <1>1, <1>2, <1>3
<1> QED
  BY <1>1, <1>2, <1>4 DEF ends

\* A frame adds the command of the message it ends.
LEMMA CommandsNext ==
    ASSUME NEW f, Len(f) \in Nat, NEW k \in 0 .. Len(f) - 1
    PROVE  /\ Ended(f, k + 1) =>
                  Commands(f, k + 1) = Append(Commands(f, k), Command(Text(f, k + 1)))
           /\ ~Ended(f, k + 1) => Commands(f, k + 1) = Commands(f, k)
<1> DEFINE old == Selected(Numbers(f), Ends(f, k))
           new == Selected(Numbers(f), Ends(f, k + 1))
           x == Command(Text(f, k + 1))
<1>1. k \in Nat /\ k + 1 \in Nat /\ k + 1 \in 1 .. Len(f)
  OBVIOUS
<1>2. CASE ~Ended(f, k + 1)
  <2>1. Ends(f, k + 1) = Ends(f, k)
    BY <1>2, EndsNext
  <2> QED
    BY <1>2, <2>1 DEF Commands
<1>3. CASE Ended(f, k + 1)
  <2>1. Ends(f, k + 1) = Ends(f, k) \cup {k + 1}
    BY <1>3, EndsNext
  <2>2. new = Append(old, k + 1)
    <3>1. Ends(f, k) \in Positions(k)
      BY <1>1, EndsAre
    <3>2. 1 \in Nat \ {0}
      OBVIOUS
    <3>3. Selected(Numbers(f), Ends(f, k) \cup {k + 1}) = Append(old, Numbers(f)[k + 1])
      BY <1>1, <3>1, <3>2, SelectedNext
    <3> QED
      BY <1>1, <2>1, <3>3 DEF Numbers
  <2>3. /\ IsSequence(old) /\ IsSequence(Commands(f, k)) /\ Len(Commands(f, k)) = Len(old)
        /\ Commands(f, k) = [i \in 1 .. Len(old) |-> Command(Text(f, old[i]))]
    BY <1>1, CommandsAre
  <2>4. /\ IsSequence(Commands(f, k + 1)) /\ Len(Commands(f, k + 1)) = Len(new)
        /\ Commands(f, k + 1) = [i \in 1 .. Len(new) |-> Command(Text(f, new[i]))]
    BY <1>1, CommandsAre
  <2> HIDE DEF old, new, x
  <2>5. /\ Len(old) \in Nat /\ Len(new) = Len(old) + 1 /\ new[Len(old) + 1] = k + 1
        /\ \A i \in 1 .. Len(old) : new[i] = old[i]
    BY <2>2, <2>3, Appended, Sequences
  <2> DEFINE a == Commands(f, k + 1)
             b == Append(Commands(f, k), x)
             c == Commands(f, k)
  <2> HIDE DEF c
  <2>6. /\ IsSequence(Append(c, x)) /\ Len(Append(c, x)) = Len(old) + 1
        /\ Append(c, x)[Len(old) + 1] = x
        /\ \A i \in 1 .. Len(old) : Append(c, x)[i] = c[i]
    BY <2>3, Appended DEF c
  <2>7. ASSUME NEW i \in 1 .. Len(a) PROVE a[i] = Append(c, x)[i]
    <3>1. i \in 1 .. Len(old) \/ i = Len(old) + 1
      BY <2>4, <2>5
    <3>2. a[i] = Command(Text(f, new[i]))
      BY <2>4
    <3>3. CASE i \in 1 .. Len(old)
      <4>1. c[i] = Command(Text(f, old[i]))
        BY <2>3, <3>3 DEF c
      <4> QED
        BY <2>5, <2>6, <3>2, <3>3, <4>1
    <3>4. CASE i = Len(old) + 1
      BY <2>5, <2>6, <3>2, <3>4 DEF x
    <3> QED
      BY <3>1, <3>3, <3>4
  <2> HIDE DEF a
  <2>8. a = Append(c, x)
    <3>1. IsSequence(a) /\ Len(a) = Len(Append(c, x))
      BY <2>4, <2>5, <2>6 DEF a
    <3> QED
      BY <2>6, <2>7, <3>1, SameSequence
  <2> QED
    BY <1>3, <2>8 DEF a, c, x
<1> QED
  BY <1>2, <1>3

\* More frames make no difference to the commands before.
LEMMA CommandsGrow ==
    ASSUME NEW f, Len(f) \in Nat, NEW k \in Nat, NEW m \in Nat, k <= m
    PROVE  IsPrefix(Commands(f, k), Commands(f, m))
<1> DEFINE I == Ends(f, k)
           K == Ends(f, m)
           u == Numbers(f)
           c == Commands(f, k)
           d == Commands(f, m)
<1>1. I = FrontOf(K, k) /\ K \in Positions(m)
  <2>1. /\ I = {e \in 1 .. Len(f) : e <= k /\ Ended(f, e)}
        /\ K = {e \in 1 .. Len(f) : e <= m /\ Ended(f, e)}
        /\ K \in Positions(m)
    BY EndsAre
  <2>2. \A e \in 1 .. Len(f) : e <= k => e <= m
    OBVIOUS
  <2> QED
    BY <2>1, <2>2 DEF FrontOf
<1>2. LET ends == Selected(u, I)
      IN  /\ Len(ends) = Cardinality(I)
          /\ Commands(f, k) = [i \in 1 .. Len(ends) |-> Command(Text(f, ends[i]))]
          /\ IsSequence(Commands(f, k)) /\ Len(Commands(f, k)) = Len(ends)
  BY CommandsAre
<1>3. LET ends == Selected(u, K)
      IN  /\ Len(ends) = Cardinality(K)
          /\ Commands(f, m) = [i \in 1 .. Len(ends) |-> Command(Text(f, ends[i]))]
          /\ IsSequence(Commands(f, m)) /\ Len(Commands(f, m)) = Len(ends)
  BY CommandsAre
<1> HIDE DEF u, I, K
<1>4. /\ Cardinality(I) \in Nat /\ Cardinality(K) \in Nat /\ Cardinality(I) <= Cardinality(K)
      /\ \A p \in 1 .. Cardinality(I) : Selected(u, I)[p] = Selected(u, K)[p]
  <2>1. /\ Cardinality(FrontOf(K, k)) \in Nat /\ Cardinality(K) \in Nat
        /\ Cardinality(FrontOf(K, k)) <= Cardinality(K)
        /\ \A p \in 1 .. Cardinality(FrontOf(K, k)) :
              Selected(u, FrontOf(K, k))[p] = Selected(u, K)[p]
    <3>1. k \in Int
      OBVIOUS
    <3> QED
      BY <1>1, <3>1, SelectedFront
  <2> QED
    BY <1>1, <2>1
<1>5. ASSUME NEW i \in 1 .. Len(c) PROVE c[i] = d[i]
  <2>1. i \in 1 .. Cardinality(I) /\ i \in 1 .. Cardinality(K)
    BY <1>2, <1>4
  <2>2. c[i] = Command(Text(f, Selected(u, I)[i]))
    BY <1>2, <2>1
  <2>3. d[i] = Command(Text(f, Selected(u, K)[i]))
    BY <1>3, <2>1
  <2> QED
    BY <1>4, <2>1, <2>2, <2>3
<1>6. IsSequence(c) /\ IsSequence(d) /\ Len(c) <= Len(d)
  BY <1>2, <1>3, <1>4
<1> HIDE DEF c, d
<1>7. IsPrefix(c, d)
  BY <1>5, <1>6, PrefixIs
<1> QED
  BY <1>7 DEF c, d

-----------------------------------------------------------------------------
(* The messages of a peer, frame by frame.                                 *)

\* The last of some positions.
LEMMA LastPosition ==
    ASSUME NEW n \in Nat, NEW I \in SUBSET (1 .. n), I # {}
    PROVE  Max(I) \in I /\ \A j \in I : j <= Max(I)
<1> DEFINE T == {m \in Nat : \E i \in I : m = n - i}
<1>1. \A i \in I : i \in Nat /\ n - i \in Nat /\ n - i \in T
  OBVIOUS
<1>2. T \in SUBSET Nat /\ T # {}
  BY <1>1
<1>3. \E m \in T : \A j \in T : m <= j
  <2> HIDE DEF T
  <2> QED
    BY <1>2, LeastElement
<1>4. PICK i \in I : \A j \in T : n - i <= j
  BY <1>3
<1>5. ASSUME NEW j \in I PROVE i >= j
  <2>1. n - i <= n - j /\ i \in Nat /\ j \in Nat
    BY <1>1, <1>4
  <2> QED
    BY <2>1
<1>6. \E x \in I : \A y \in I : x >= y
  BY <1>5
<1>7. Max(I) \in I /\ \A j \in I : Max(I) >= j
  BY <1>6 DEF Max
<1>8. ASSUME NEW j \in I PROVE j <= Max(I)
  <2>1. Max(I) >= j /\ Max(I) \in Nat /\ j \in Nat
    BY <1>1, <1>7
  <2> QED
    BY <2>1
<1> QED
  BY <1>7, <1>8

LEMMA LastIs ==
    ASSUME NEW n \in Nat, NEW I \in SUBSET (1 .. n), n \in I
    PROVE  Max(I) = n
<1>1. Max(I) \in I /\ n <= Max(I)
  BY LastPosition
<1>2. Max(I) \in 1 .. n
  BY <1>1
<1> QED
  BY <1>1, <1>2

\* Frames that carry sequences, the data frames of bytes.
Payloads(f) ==
    /\ Len(f) \in Nat
    /\ \A i \in 1 .. Len(f) : /\ IsData(f[i]) => f[i].payload \in Seq(Bytes)
                              /\ IsControl(f[i]) => Len(f[i].payload) \in Nat

Texts(f, k) == {j \in DataUpTo(f, k) : f[j].op = "text"}
Data(x) == IF IsData(x) THEN x.payload ELSE << >>

LEMMA DataNext ==
    ASSUME NEW f, NEW k \in Nat
    PROVE  /\ DataUpTo(f, k) \in SUBSET (1 .. k) /\ DataUpTo(f, k + 1) \in SUBSET (1 .. k + 1)
           /\ IsData(f[k + 1]) => DataUpTo(f, k + 1) = DataUpTo(f, k) \cup {k + 1}
           /\ ~IsData(f[k + 1]) => DataUpTo(f, k + 1) = DataUpTo(f, k)
<1>1. \A j : j \in 1 .. k + 1 <=> j \in 1 .. k \/ j = k + 1
  OBVIOUS
<1>2. \A j : j \in DataUpTo(f, k + 1) <=> j \in DataUpTo(f, k) \/ (j = k + 1 /\ IsData(f[k + 1]))
  BY <1>1 DEF DataUpTo
<1>3. DataUpTo(f, k) \in SUBSET (1 .. k) /\ DataUpTo(f, k + 1) \in SUBSET (1 .. k + 1)
  BY DEF DataUpTo
<1> QED
  BY <1>2, <1>3

\* A data frame decides whether the next one starts a message.
LEMMA StartsNext ==
    ASSUME NEW f, NEW k \in Nat
    PROVE  /\ IsData(f[k + 1]) => (StartsAnew(f, k + 1 + 1) <=> f[k + 1].fin)
           /\ ~IsData(f[k + 1]) => (StartsAnew(f, k + 1 + 1) <=> StartsAnew(f, k + 1))
<1>1. k + 1 + 1 - 1 = k + 1 /\ k + 1 - 1 = k /\ k + 1 \in Nat
  OBVIOUS
<1>2. /\ StartsAnew(f, k + 1 + 1) <=>
           DataUpTo(f, k + 1) = {} \/ f[Max(DataUpTo(f, k + 1))].fin
      /\ StartsAnew(f, k + 1) <=> DataUpTo(f, k) = {} \/ f[Max(DataUpTo(f, k))].fin
  BY <1>1 DEF StartsAnew
<1>3. CASE IsData(f[k + 1])
  <2>1. DataUpTo(f, k + 1) = DataUpTo(f, k) \cup {k + 1} /\ DataUpTo(f, k + 1) \in SUBSET (1 .. k + 1)
    BY <1>3, DataNext
  <2>2. k + 1 \in DataUpTo(f, k + 1)
    BY <2>1
  <2>3. Max(DataUpTo(f, k + 1)) = k + 1
    BY <1>1, <2>1, <2>2, LastIs
  <2> QED
    BY <1>2, <1>3, <2>2, <2>3
<1>4. CASE ~IsData(f[k + 1])
  <2>1. DataUpTo(f, k + 1) = DataUpTo(f, k)
    BY <1>4, DataNext
  <2> QED
    BY <1>2, <1>4, <2>1
<1> QED
  BY <1>3, <1>4

\* Inside a message there is a frame that started it.
LEMMA HasStart ==
    ASSUME NEW f, NEW k \in Nat, \A j \in 1 .. k : InOrder(f, j), ~StartsAnew(f, k + 1)
    PROVE  Texts(f, k) # {}
<1> DEFINE D == DataUpTo(f, k)
<1>1. D \in SUBSET Nat /\ D \in SUBSET (1 .. k) /\ D # {}
  <2>1. k + 1 - 1 = k
    OBVIOUS
  <2> QED
    BY <2>1, DataNext DEF StartsAnew
<1>2. PICK j \in D : \A i \in D : j <= i
  <2> HIDE DEF D
  <2> QED
    BY <1>1, LeastElement
<1>3. j \in 1 .. k /\ IsData(f[j]) /\ j \in Nat
  BY DEF DataUpTo
<1>4. DataUpTo(f, j - 1) = {}
  <2>1. ASSUME NEW i \in 1 .. j - 1, IsData(f[i]) PROVE FALSE
    <3>1. i \in 1 .. k /\ ~(j <= i)
      BY <1>3
    <3>2. i \in D
      BY <2>1, <3>1 DEF DataUpTo
    <3> QED
      BY <1>2, <3>1, <3>2
  <2> QED
    BY <2>1 DEF DataUpTo
<1>5. StartsAnew(f, j)
  BY <1>4 DEF StartsAnew
<1>6. f[j].op = "text"
  BY <1>3, <1>5 DEF InOrder
<1> QED
  BY <1>3, <1>6 DEF Texts

Parts(f, a, k) == [j \in 1 .. k - a + 1 |-> Data(f[a + j - 1])]

LEMMA TextIs == ASSUME NEW f, NEW k PROVE Text(f, k) = FlattenSeq(Parts(f, Max(Texts(f, k)), k))
BY DEF Text, Start, Texts, Parts, Data

LEMMA PartsAre ==
    ASSUME NEW f, Payloads(f), NEW k \in 0 .. Len(f), NEW a \in 1 .. k + 1
    PROVE  Parts(f, a, k) \in Seq(Seq(Bytes)) /\ Len(Parts(f, a, k)) = k - a + 1
<1>1. k - a + 1 \in Nat /\ Len(f) \in Nat
  BY DEF Payloads
<1>2. ASSUME NEW j \in 1 .. k - a + 1 PROVE Data(f[a + j - 1]) \in Seq(Bytes)
  <2>1. a + j - 1 \in 1 .. Len(f)
    BY <1>1
  <2> QED
    BY <2>1, EmptySeq DEF Data, Payloads
<1>3. Parts(f, a, k) \in [1 .. k - a + 1 -> Seq(Bytes)]
  BY <1>2 DEF Parts
<1> QED
  BY <1>1, <1>3

LEMMA PartsNext ==
    ASSUME NEW f, Payloads(f), NEW k \in 0 .. Len(f) - 1, NEW a \in 1 .. k + 1
    PROVE  FlattenSeq(Parts(f, a, k + 1)) = FlattenSeq(Parts(f, a, k)) \o Data(f[k + 1])
<1> DEFINE p == Parts(f, a, k)
           q == Parts(f, a, k + 1)
           x == Data(f[k + 1])
<1>1. Len(f) \in Nat /\ k \in 0 .. Len(f) /\ k + 1 \in 0 .. Len(f) /\ k + 1 \in 1 .. Len(f)
      /\ a \in 1 .. k + 1 + 1
  BY DEF Payloads
<1>2. x \in Seq(Bytes)
  BY <1>1, EmptySeq DEF Data, Payloads
<1>3. p \in Seq(Seq(Bytes)) /\ Len(p) = k - a + 1
  BY <1>1, PartsAre
<1>4. q \in Seq(Seq(Bytes)) /\ Len(q) = k + 1 - a + 1
  <2>1. ASSUME NEW l \in 0 .. Len(f), NEW b \in 1 .. l + 1
        PROVE  Parts(f, b, l) \in Seq(Seq(Bytes)) /\ Len(Parts(f, b, l)) = l - b + 1
    BY PartsAre
  <2>2. PICK l : l \in 0 .. Len(f) /\ l = k + 1
    BY <1>1
  <2>3. a \in 1 .. l + 1
    BY <1>1, <2>2
  <2>4. Parts(f, a, l) \in Seq(Seq(Bytes)) /\ Len(Parts(f, a, l)) = l - a + 1
    BY <2>1, <2>2, <2>3
  <2> QED
    BY <2>2, <2>4
<1>5. /\ Append(p, x) \in Seq(Seq(Bytes)) /\ Len(Append(p, x)) = Len(p) + 1
      /\ Append(p, x)[Len(p) + 1] = x /\ \A i \in 1 .. Len(p) : Append(p, x)[i] = p[i]
  <2>1. ASSUME NEW z \in Seq(Seq(Bytes)), NEW y \in Seq(Bytes)
        PROVE  /\ Append(z, y) \in Seq(Seq(Bytes)) /\ Len(Append(z, y)) = Len(z) + 1
               /\ Append(z, y)[Len(z) + 1] = y
               /\ \A i \in 1 .. Len(z) : Append(z, y)[i] = z[i]
    BY AppendProperties
  <2> HIDE DEF p, x
  <2> QED
    BY <1>2, <1>3, <2>1
<1>6. ASSUME NEW i \in 1 .. Len(q) PROVE q[i] = Append(p, x)[i]
  <2>1. i \in 1 .. k + 1 - a + 1 /\ q[i] = Data(f[a + i - 1])
    BY <1>4 DEF Parts
  <2>2. CASE i \in 1 .. Len(p)
    <3>1. p[i] = Data(f[a + i - 1])
      BY <1>3, <2>2 DEF Parts
    <3> QED
      BY <1>5, <2>1, <2>2, <3>1
  <2>3. CASE i \notin 1 .. Len(p)
    <3>1. i = Len(p) + 1 /\ a + i - 1 = k + 1
      BY <1>1, <1>3, <2>1, <2>3
    <3> QED
      BY <1>5, <2>1, <3>1
  <2> QED
    BY <2>2, <2>3
<1>7. Len(q) = Len(Append(p, x))
  BY <1>1, <1>3, <1>4, <1>5
<1> HIDE DEF p, q, x
<1>8. q = Append(p, x)
  BY <1>4, <1>5, <1>6, <1>7, SeqEqual
<1>9. FlattenSeq(Append(p, x)) = FlattenSeq(p) \o x
  BY <1>2, <1>3, FlattenNext
<1> QED
  BY <1>8, <1>9 DEF p, q, x

\* A frame adds its data to the message, which a text frame starts.
LEMMA TextNext ==
    ASSUME NEW f, Payloads(f), NEW k \in 0 .. Len(f) - 1
    PROVE  /\ f[k + 1].op = "text" => Text(f, k + 1) = f[k + 1].payload
           /\ f[k + 1].op # "text" /\ Texts(f, k) # {} =>
                 Text(f, k + 1) = Text(f, k) \o Data(f[k + 1])
<1>1. k \in Nat /\ k + 1 \in Nat /\ k + 1 \in 1 .. k + 1 /\ Len(f) \in Nat
      /\ k \in 0 .. Len(f)
  BY DEF Payloads
<1>2. Texts(f, k) \in SUBSET (1 .. k) /\ Texts(f, k + 1) \in SUBSET (1 .. k + 1)
  BY <1>1, DataNext DEF Texts
<1>3. CASE f[k + 1].op = "text"
  <2>1. k + 1 \in Texts(f, k + 1)
    <3>1. IsData(f[k + 1])
      BY <1>3 DEF IsData
    <3>2. k + 1 \in DataUpTo(f, k + 1)
      <4>1. DataUpTo(f, k + 1) = DataUpTo(f, k) \cup {k + 1}
        BY <1>1, <3>1, DataNext
      <4> QED
        BY <4>1
    <3> QED
      BY <1>3, <3>2 DEF Texts
  <2>2. Max(Texts(f, k + 1)) = k + 1
    BY <1>1, <1>2, <2>1, LastIs
  <2>3. Text(f, k + 1) = FlattenSeq(Parts(f, k + 1, k)) \o Data(f[k + 1])
    BY <1>1, <2>2, TextIs, PartsNext
  <2>4. Parts(f, k + 1, k) = << >>
    <3>1. Parts(f, k + 1, k) \in Seq(Seq(Bytes)) /\ Len(Parts(f, k + 1, k)) = k - (k + 1) + 1
      BY <1>1, PartsAre
    <3>2. Len(Parts(f, k + 1, k)) = 0
      BY <1>1, <3>1
    <3> QED
      BY <3>1, <3>2, EmptySeq
  <2>5. FlattenSeq(<< >>) = << >>
    BY EmptySeq DEF FlattenSeq
  <2>6. Data(f[k + 1]) = f[k + 1].payload /\ f[k + 1].payload \in Seq(Bytes)
    <3>1. IsData(f[k + 1]) /\ k + 1 \in 1 .. Len(f)
      BY <1>1, <1>3 DEF IsData
    <3> QED
      BY <3>1 DEF Data, Payloads
  <2>7. << >> \o f[k + 1].payload = f[k + 1].payload
    BY <2>6, ConcatEmptySeq
  <2> QED
    BY <1>3, <2>3, <2>4, <2>5, <2>6, <2>7
<1>4. CASE f[k + 1].op # "text" /\ Texts(f, k) # {}
  <2>1. Texts(f, k + 1) = Texts(f, k)
    BY <1>1, <1>4, DataNext DEF Texts
  <2> DEFINE a == Max(Texts(f, k))
  <2>2. a \in 1 .. k + 1
    <3>1. a \in Texts(f, k)
      BY <1>1, <1>2, <1>4, LastPosition
    <3> QED
      BY <1>1, <1>2, <3>1
  <2> HIDE DEF a
  <2>3. FlattenSeq(Parts(f, a, k + 1)) = FlattenSeq(Parts(f, a, k)) \o Data(f[k + 1])
    BY <2>2, PartsNext
  <2>4. Text(f, k + 1) = FlattenSeq(Parts(f, a, k + 1)) /\ Text(f, k) = FlattenSeq(Parts(f, a, k))
    BY <2>1, TextIs DEF a
  <2> QED
    BY <1>4, <2>3, <2>4
<1> QED
  BY <1>3, <1>4

-----------------------------------------------------------------------------
(* What a connection was asked and what it answered.                       *)

Asked(results) == [i \in 1 .. Len(results) |-> results[i].command]

\* The handler of client r has read the first k frames of f, in order so far.
Following(r, f, k) ==
    /\ k \in 0 .. Len(f)
    /\ \A j \in 1 .. k : InOrder(f, j)
    /\ r.inMessage <=> ~StartsAnew(f, k + 1)
    /\ r.inMessage => r.message = Text(f, k)

\* The handler of client r has handled the first h requests and frames of s.
Expecting(r, results, s, h) ==
    /\ ~r.websocket => h = 0 /\ results = << >> /\ ~r.inMessage
    /\ r.websocket => /\ h > 0 /\ Upgrades(s[1])
                      /\ Following(r, Frames(s), h - 1)
                      /\ Asked(results) = Commands(Frames(s), h - 1)

\* Client r has received the first n of them.
Answering(r, results, s, n) ==
    /\ IsPrefix(Asked(results), Commands(Frames(s), n - 1))
    /\ ~r.closing => \E h \in Nat : /\ n = h + Len(r.in) /\ Expecting(r, results, s, h)
                                    /\ \A i \in 1 .. Len(r.in) : r.in[i] = s[h + i]

Told(c, results, p) ==
    Forwarded(p, c) =
        [i \in 1 .. Len(Successes(results)) |-> <<c, Successes(results)[i].command>>]

AnswerInv ==
    \A c \in Conn : /\ Answering(client[c], Results(Stream(c)), script[c], taken[c])
                    /\ Told(c, Results(Stream(c)), published)

\* The frames behind a request that opens a WebSocket.
LEMMA FramesAre ==
    ASSUME NEW s \in Seq(Inputs)
    PROVE  /\ Len(Frames(s)) \in Nat /\ Payloads(Frames(s))
           /\ s # << >> /\ Upgrades(s[1]) =>
                 /\ Len(Frames(s)) = Len(s) - 1
                 /\ \A i \in 1 .. Len(s) - 1 : Frames(s)[i] = s[i + 1]
<1>1. CASE ~(s # << >> /\ Upgrades(Head(s)))
  <2>1. Frames(s) = << >> /\ Len(<< >>) = 0
    BY <1>1, EmptySeq DEF Frames
  <2>2. s # << >> => Head(s) = s[1]
    OBVIOUS
  <2> QED
    BY <1>1, <2>1, <2>2 DEF Payloads
<1>2. CASE s # << >> /\ Upgrades(Head(s))
  <2>1. Frames(s) = Tail(s)
    BY <1>2 DEF Frames
  <2>2. /\ Tail(s) \in Seq(Inputs) /\ Len(Tail(s)) = Len(s) - 1
        /\ \A i \in 1 .. Len(Tail(s)) : Tail(s)[i] = s[i + 1]
    BY <1>2, HeadTailProperties
  <2>3. ASSUME NEW i \in 1 .. Len(Tail(s)), IsData(Tail(s)[i])
        PROVE  Tail(s)[i].payload \in Seq(Bytes)
    <3> DEFINE x == Tail(s)[i]
    <3>1. x \in Inputs
      BY <2>2, ElementOfSeq
    <3>2. x.op \in {"text", "continuation"}
      BY <2>3 DEF IsData
    <3> HIDE DEF x
    <3>3. PICK t \in Setups : \E c \in Conn : x \in ToSet(t.script[c])
      BY <3>1 DEF Inputs
    <3>4. x.payload \in Seq(ToSet(x.payload))
      BY <3>2, <3>3, ScriptAssumption
    <3>5. ToSet(x.payload) \subseteq Bytes
      BY <3>1, <3>2 DEF Bytes
    <3>6. x.payload \in Seq(Bytes)
      BY <3>4, <3>5, WiderSeq
    <3> QED
      BY <3>6 DEF x
  <2>4. ASSUME NEW i \in 1 .. Len(Tail(s)), IsControl(Tail(s)[i])
        PROVE  Len(Tail(s)[i].payload) \in Nat
    <3> DEFINE x == Tail(s)[i]
    <3>1. x \in Inputs
      BY <2>2, ElementOfSeq
    <3>2. x.op \in {"ping", "pong", "close"}
      BY <2>4 DEF IsControl
    <3> HIDE DEF x
    <3>3. PICK t \in Setups : \E c \in Conn : x \in ToSet(t.script[c])
      BY <3>1 DEF Inputs
    <3>4. x.payload \in Seq(ToSet(x.payload))
      BY <3>2, <3>3, ScriptAssumption
    <3>5. Len(x.payload) \in Nat
      BY <3>4, LenProperties
    <3> QED
      BY <3>5 DEF x
  <2>5. Len(Tail(s)) \in Nat
    BY <2>2, LenProperties
  <2> QED
    BY <2>1, <2>2, <2>3, <2>4, <2>5 DEF Payloads
<1> QED
  BY <1>1, <1>2

LEMMA CommandsOfNone ==
    ASSUME NEW f, Len(f) \in Nat, NEW k \in Int, k <= 0
    PROVE  Commands(f, k) = << >>
<1>1. Ends(f, k) = {}
  <2>1. \A e \in 1 .. Len(f) : ~(e <= k)
    OBVIOUS
  <2> QED
    BY <2>1 DEF Ends
<1>2. Selected([e \in 1 .. Len(f) |-> e], {}) = << >> /\ Len(<< >>) = 0
  BY SelectedNone, EmptySeq
<1>3. Commands(f, k) = [i \in 1 .. 0 |-> Command(Text(f, << >>[i]))]
  BY <1>1, <1>2 DEF Commands
<1> QED
  BY <1>3

LEMMA AskedNone == Asked(<< >>) = << >>
BY EmptySeq DEF Asked

LEMMA AskedNext ==
    ASSUME NEW r, IsSequence(r), NEW x
    PROVE  /\ IsSequence(Asked(r)) /\ Len(Asked(r)) = Len(r)
           /\ Asked(Append(r, x)) = Append(Asked(r), x.command)
<1> DEFINE t == Append(r, x)
<1>1. ASSUME NEW q, IsSequence(q)
      PROVE  IsSequence(Asked(q)) /\ Len(Asked(q)) = Len(q) /\ Len(q) \in Nat
  <2>1. Len(q) \in Nat
    BY <1>1, Sequences
  <2>2. Asked(q) \in [1 .. Len(q) -> {Asked(q)[i] : i \in DOMAIN Asked(q)}]
    BY DEF Asked
  <2> HIDE DEF Asked
  <2> QED
    BY <2>1, <2>2 DEF IsSequence
<1>2. /\ IsSequence(t) /\ Len(t) = Len(r) + 1 /\ t[Len(r) + 1] = x
      /\ \A i \in 1 .. Len(r) : t[i] = r[i]
  BY Appended
<1> HIDE DEF t
<1> DEFINE a == Asked(r)
           b == Asked(t)
           y == x.command
<1>3. /\ IsSequence(a) /\ Len(a) = Len(r) /\ Len(r) \in Nat
      /\ \A i \in 1 .. Len(r) : a[i] = r[i].command
  BY <1>1 DEF Asked
<1>4. /\ IsSequence(b) /\ Len(b) = Len(r) + 1
      /\ \A i \in 1 .. Len(r) + 1 : b[i] = t[i].command
  BY <1>1, <1>2 DEF Asked
<1> HIDE DEF a, b, y
<1>5. /\ IsSequence(Append(a, y)) /\ Len(Append(a, y)) = Len(r) + 1
      /\ Append(a, y)[Len(r) + 1] = y /\ \A i \in 1 .. Len(r) : Append(a, y)[i] = a[i]
  BY <1>3, Appended
<1>6. ASSUME NEW i \in 1 .. Len(b) PROVE b[i] = Append(a, y)[i]
  <2>1. i \in 1 .. Len(r) \/ i = Len(r) + 1
    BY <1>3, <1>4
  <2> QED
    BY <1>2, <1>3, <1>4, <1>5, <2>1 DEF y
<1>7. b = Append(a, y)
  BY <1>4, <1>5, <1>6, SameSequence
<1> QED
  BY <1>3, <1>7 DEF a, b, y, t

\* As long as results, what was read and received stay, so does the rest,
\* also when the connection is about to close.
LEMMA StillAnswering ==
    ASSUME NEW r, NEW results, NEW s, NEW n, Answering(r, results, s, n),
           NEW q, q.in = r.in, q.websocket = r.websocket, q.inMessage = r.inMessage,
           q.message = r.message, r.closing => q.closing
    PROVE  Answering(q, results, s, n)
BY DEF Answering, Expecting, Following

\* A connection about to close handles no input.
LEMMA ClosingAnswers ==
    ASSUME NEW r, NEW results, NEW s, NEW n, Answering(r, results, s, n),
           NEW q, q.closing
    PROVE  Answering(q, results, s, n)
BY DEF Answering

\* Receiving more.
LEMMA ReadAnswers ==
    ASSUME NEW s \in Seq(Inputs), NEW r \in Clients, NEW results, IsSequence(results),
           NEW n \in Nat, NEW m \in Nat, n + m <= Len(s), Answering(r, results, s, n),
           NEW q, q.closing = r.closing, q.websocket = r.websocket,
           q.inMessage = r.inMessage, q.message = r.message,
           ~r.closing => q.in = r.in \o SubSeq(s, n + 1, n + m)
    PROVE  Answering(q, results, s, n + m)
<1> DEFINE f == Frames(s)
<1>1. Len(f) \in Nat
  BY FramesAre
<1>2. IsPrefix(Asked(results), Commands(f, n + m - 1))
  <2>1. /\ IsSequence(Asked(results)) /\ Len(Asked(results)) \in Nat
        /\ IsPrefix(Asked(results), Commands(f, n - 1))
    BY AskedNext, Sequences DEF Answering
  <2>2. CASE n = 0
    <3>1. Commands(f, n - 1) = << >>
      BY <1>1, <2>2, CommandsOfNone
    <3>2. Len(<< >>) = 0 /\ IsSequence(<< >>)
      BY EmptySeq, Sequences
    <3>3. Len(Asked(results)) = 0
      BY <2>1, <3>1, <3>2 DEF IsPrefix
    <3>4. IsSequence(Commands(f, n + m - 1)) /\ Len(Commands(f, n + m - 1)) \in Nat
      <4>1. CASE m = 0
        <5>1. Commands(f, n + m - 1) = << >>
          BY <1>1, <2>2, <4>1, CommandsOfNone
        <5> QED
          BY <3>2, <5>1
      <4>2. CASE m # 0
        <5>1. n + m - 1 \in Nat
          BY <2>2, <4>2
        <5> QED
          BY <1>1, <5>1, CommandsAre
      <4> QED
        BY <4>1, <4>2
    <3> QED
      BY <2>1, <3>3, <3>4, PrefixIs
  <2>3. CASE n # 0
    <3> DEFINE a == Asked(results)
               b == Commands(f, n - 1)
               d == Commands(f, n + m - 1)
    <3>1. n - 1 \in Nat /\ n + m - 1 \in Nat /\ n - 1 <= n + m - 1
      BY <2>3
    <3>2. IsPrefix(b, d) /\ IsSequence(b) /\ IsSequence(d)
      BY <1>1, <3>1, CommandsGrow, CommandsAre
    <3>3. IsSequence(a) /\ IsPrefix(a, b)
      BY <2>1
    <3> HIDE DEF a, b, d
    <3>4. /\ Len(a) <= Len(b) /\ \A i \in 1 .. Len(a) : a[i] = b[i]
          /\ Len(b) <= Len(d) /\ \A i \in 1 .. Len(b) : b[i] = d[i]
      BY <3>2, <3>3, PrefixIs
    <3>5. Len(a) \in Nat /\ Len(b) \in Nat /\ Len(d) \in Nat
      BY <3>2, <3>3, Sequences
    <3>6. Len(a) <= Len(d) /\ \A i \in 1 .. Len(a) : a[i] = d[i]
      BY <3>4, <3>5
    <3>7. IsPrefix(a, d)
      BY <3>2, <3>3, <3>6, PrefixIs
    <3> QED
      BY <3>7 DEF a, d
  <2> QED
    BY <2>2, <2>3
<1>3. CASE r.closing
  BY <1>2, <1>3 DEF Answering
<1>4. CASE ~r.closing
  <2> DEFINE v == SubSeq(s, n + 1, n + m)
  <2>1. Len(s) \in Nat /\ r.in \in Seq(Inputs) /\ Len(r.in) \in Nat
    BY LenProperties DEF Clients
  <2>2. v \in Seq(Inputs) /\ Len(v) = m /\ \A i \in 1 .. m : v[i] = s[n + i]
    <3>1. \A i \in n + 1 .. n + m : s[i] \in Inputs
      <4>1. \A i \in n + 1 .. n + m : i \in 1 .. Len(s)
        BY <2>1
      <4> QED
        BY <4>1, ElementOfSeq
    <3>2. /\ v \in Seq(Inputs)
          /\ Len(v) = IF n + 1 <= n + m THEN n + m - (n + 1) + 1 ELSE 0
          /\ \A i \in 1 .. n + m - (n + 1) + 1 : v[i] = s[n + 1 + i - 1]
      BY <3>1, SubSeqProperties
    <3> HIDE DEF v
    <3>3. Len(v) = m
      BY <3>2
    <3>4. ASSUME NEW i \in 1 .. m PROVE v[i] = s[n + i]
      <4>1. i \in 1 .. n + m - (n + 1) + 1 /\ n + 1 + i - 1 = n + i
        OBVIOUS
      <4> QED
        BY <3>2, <4>1
    <3> QED
      BY <3>2, <3>3, <3>4
  <2> HIDE DEF v
  <2>3. /\ Len(q.in) = Len(r.in) + m
        /\ \A i \in 1 .. Len(r.in) : q.in[i] = r.in[i]
        /\ \A i \in 1 .. m : q.in[Len(r.in) + i] = v[i]
    <3>1. q.in = r.in \o v
      BY <1>4 DEF v
    <3>2. ASSUME NEW w \in Seq(Inputs)
          PROVE  /\ Len(w \o v) = Len(w) + Len(v)
                 /\ \A i \in 1 .. Len(w) : (w \o v)[i] = w[i]
                 /\ \A i \in 1 .. Len(v) : (w \o v)[Len(w) + i] = v[i]
      <4>1. v \in Seq(Inputs)
        BY <2>2
      <4> QED
        BY <4>1, Joined
    <3>3. r.in \in Seq(Inputs)
      BY <2>1
    <3>4. /\ Len(r.in \o v) = Len(r.in) + Len(v)
          /\ \A i \in 1 .. Len(r.in) : (r.in \o v)[i] = r.in[i]
          /\ \A i \in 1 .. Len(v) : (r.in \o v)[Len(r.in) + i] = v[i]
      BY <3>2, <3>3
    <3> QED
      BY <2>2, <3>1, <3>4
  <2>4. PICK h \in Nat : /\ n = h + Len(r.in) /\ Expecting(r, results, s, h)
                         /\ \A i \in 1 .. Len(r.in) : r.in[i] = s[h + i]
    BY <1>4 DEF Answering
  <2>5. n + m = h + Len(q.in)
    BY <2>1, <2>3, <2>4
  <2>6. ASSUME NEW i \in 1 .. Len(q.in) PROVE q.in[i] = s[h + i]
    <3>1. CASE i \in 1 .. Len(r.in)
      BY <2>3, <2>4, <3>1
    <3>2. CASE i \notin 1 .. Len(r.in)
      <4>1. i \in Nat /\ Len(r.in) < i /\ i <= Len(r.in) + m
        BY <2>1, <2>3, <3>2
      <4>2. PICK j \in 1 .. m : i = Len(r.in) + j
        <5>1. i - Len(r.in) \in 1 .. m /\ i = Len(r.in) + (i - Len(r.in))
          BY <2>1, <4>1
        <5> QED
          BY <5>1
      <4>3. n + j = h + i
        BY <2>1, <2>4, <4>2
      <4> QED
        BY <2>2, <2>3, <4>2, <4>3
    <3> QED
      BY <3>1, <3>2
  <2>7. Expecting(q, results, s, h)
    BY <2>4 DEF Expecting, Following
  <2> QED
    BY <1>2, <1>4, <2>5, <2>6, <2>7 DEF Answering
<1> QED
  BY <1>3, <1>4

\* A ping or pong between the frames of a message changes nothing.
LEMMA FollowControl ==
    ASSUME NEW f, Payloads(f), NEW k \in Nat, k + 1 <= Len(f), NEW r, Following(r, f, k),
           f[k + 1].op \in {"ping", "pong"}, ~Fails(r, f[k + 1]),
           NEW q, q.inMessage = r.inMessage, q.message = r.message
    PROVE  Following(q, f, k + 1) /\ Commands(f, k + 1) = Commands(f, k)
<1> DEFINE x == f[k + 1]
<1>1. Len(f) \in Nat /\ k \in 0 .. Len(f) - 1 /\ k + 1 \in 0 .. Len(f)
  BY DEF Payloads
<1>2. ~IsData(x) /\ ~Rejected(x)
  BY DEF IsData, Fails
<1>3. InOrder(f, k + 1)
  <2>1. x.op \in {"ping", "pong"} /\ IsControl(x) /\ x.masked /\ x.fin
    BY <1>2 DEF Rejected, IsControl
  <2>2. Len(x.payload) \in Nat
    <3>1. k + 1 \in 1 .. Len(f)
      BY <1>1
    <3> QED
      BY <2>1, <3>1 DEF Payloads
  <2>3. Len(x.payload) <= MaxControl
    BY <1>2, <2>1, <2>2, ControlAssumption DEF Rejected
  <2> QED
    BY <1>2, <2>1, <2>3 DEF InOrder
<1>4. \A j \in 1 .. k + 1 : InOrder(f, j)
  <2>1. \A j \in 1 .. k + 1 : j \in 1 .. k \/ j = k + 1
    OBVIOUS
  <2> QED
    BY <1>3, <2>1 DEF Following
<1>5. StartsAnew(f, k + 1 + 1) <=> StartsAnew(f, k + 1)
  BY <1>2, StartsNext
<1>6. ASSUME r.inMessage PROVE Text(f, k + 1) = Text(f, k)
  <2>1. Texts(f, k) # {}
    BY <1>6, HasStart DEF Following
  <2>2. Text(f, k + 1) = Text(f, k) \o Data(x)
    BY <1>1, <2>1, TextNext
  <2>3. Text(f, k) \in Seq(Bytes)
    <3>1. Texts(f, k) \in SUBSET (1 .. k)
      BY DataNext DEF Texts
    <3>2. Max(Texts(f, k)) \in 1 .. k + 1 /\ k \in 0 .. Len(f)
      <4>1. Max(Texts(f, k)) \in 1 .. k
        BY <2>1, <3>1, LastPosition
      <4> QED
        BY <1>1, <4>1
    <3>3. Parts(f, Max(Texts(f, k)), k) \in Seq(Seq(Bytes))
      BY <3>2, PartsAre
    <3> QED
      BY <3>3, TextIs, Flattened
  <2>4. Data(x) = << >>
    BY <1>2 DEF Data
  <2> QED
    BY <2>2, <2>3, <2>4, ConcatEmptySeq
<1>7. ~Ended(f, k + 1)
  BY <1>2 DEF Ended
<1>8. Following(q, f, k + 1)
  BY <1>1, <1>4, <1>5, <1>6 DEF Following
<1> QED
  BY <1>1, <1>7, <1>8, CommandsNext

\* A data frame that comes in order is added to the message.
LEMMA FollowData ==
    ASSUME NEW f, Payloads(f), NEW k \in Nat, k + 1 <= Len(f), NEW r, Following(r, f, k),
           r.inMessage \in BOOLEAN, IsData(f[k + 1]), ~Fails(r, f[k + 1])
    PROVE  /\ \A j \in 1 .. k + 1 : InOrder(f, j)
           /\ Text(f, k + 1) = MessageWith(r, f[k + 1])
           /\ StartsAnew(f, k + 1 + 1) <=> f[k + 1].fin
<1> DEFINE x == f[k + 1]
<1>1. Len(f) \in Nat /\ k \in 0 .. Len(f) - 1 /\ k + 1 \in 1 .. Len(f)
  BY DEF Payloads
<1>2. /\ ~Rejected(x) /\ ~OutOfPlace(r, x) /\ ~(Len(MessageWith(r, x)) > MaxMessage)
      /\ x.op \in {"text", "continuation"}
  BY DEF IsData, Fails
<1>3. (x.op = "text") = StartsAnew(f, k + 1)
  <2>1. (x.op = "text") # r.inMessage
    BY <1>2 DEF OutOfPlace
  <2>2. r.inMessage <=> ~StartsAnew(f, k + 1)
    BY DEF Following
  <2>3. StartsAnew(f, k + 1) \in BOOLEAN
    BY DEF StartsAnew
  <2> QED
    BY <2>1, <2>2, <2>3
<1>4. Text(f, k + 1) = MessageWith(r, x)
  <2>1. x.payload \in Seq(Bytes)
    BY <1>1 DEF Payloads
  <2>2. CASE x.op = "text"
    <3>1. Text(f, k + 1) = x.payload
      BY <1>1, <2>2, TextNext
    <3>2. MessageWith(r, x) = << >> \o x.payload
      BY <2>2 DEF MessageWith
    <3> QED
      BY <2>1, <3>1, <3>2, ConcatEmptySeq
  <2>3. CASE x.op # "text"
    <3>1. ~StartsAnew(f, k + 1) /\ r.inMessage
      BY <1>3, <2>3 DEF Following
    <3>2. Texts(f, k) # {}
      BY <3>1, HasStart DEF Following
    <3>3. Text(f, k + 1) = Text(f, k) \o Data(x)
      BY <1>1, <2>3, <3>2, TextNext
    <3>4. Data(x) = x.payload
      BY DEF Data
    <3>5. r.message = Text(f, k)
      BY <3>1 DEF Following
    <3> QED
      BY <2>3, <3>3, <3>4, <3>5 DEF MessageWith
  <2> QED
    BY <2>2, <2>3
<1>5. Len(Text(f, k + 1)) <= MaxMessage
  <2>1. Text(f, k + 1) \in Seq(Bytes)
    <3>1. Texts(f, k + 1) \in SUBSET (1 .. k + 1) /\ k + 1 \in Nat /\ k + 1 \in 0 .. Len(f)
      BY <1>1, DataNext DEF Texts
    <3>2. CASE x.op = "text"
      <4>1. x.payload \in Seq(Bytes)
        BY <1>1 DEF Payloads
      <4> QED
        BY <1>1, <3>2, <4>1, TextNext
    <3>3. CASE x.op # "text"
      <4>1. Texts(f, k) # {}
        BY <1>3, <3>3, HasStart DEF Following
      <4>2. Texts(f, k + 1) # {}
        BY <4>1, DataNext DEF Texts
      <4>3. Max(Texts(f, k + 1)) \in 1 .. k + 1
        BY <3>1, <4>2, LastPosition
      <4> DEFINE a == Max(Texts(f, k + 1))
      <4>4. PICK l \in 0 .. Len(f) : l = k + 1
        BY <3>1
      <4>5. a \in 1 .. l + 1
        BY <4>3, <4>4
      <4> HIDE DEF a
      <4>6. Parts(f, a, l) \in Seq(Seq(Bytes))
        BY <4>5, PartsAre
      <4> QED
        BY <4>4, <4>6, TextIs, Flattened DEF a
    <3> QED
      BY <3>2, <3>3
  <2>2. Len(Text(f, k + 1)) \in Nat
    BY <2>1, LenProperties
  <2>3. ~(Len(Text(f, k + 1)) > MaxMessage)
    BY <1>2, <1>4
  <2> QED
    BY <2>2, <2>3, ControlAssumption
<1>6. InOrder(f, k + 1)
  BY <1>2, <1>3, <1>5 DEF InOrder, Rejected, IsControl
<1>7. \A j \in 1 .. k + 1 : InOrder(f, j)
  <2>1. \A j \in 1 .. k + 1 : j \in 1 .. k \/ j = k + 1
    OBVIOUS
  <2> QED
    BY <1>6, <2>1 DEF Following
<1>8. StartsAnew(f, k + 1 + 1) <=> x.fin
  BY StartsNext
<1> QED
  BY <1>4, <1>7, <1>8

\* What the handler expects after the next input.
LEMMA FrameAt ==
    ASSUME NEW s \in Seq(Inputs), NEW h \in Nat, h < Len(s), NEW r, NEW results,
           Expecting(r, results, s, h), r.websocket
    PROVE  \E k \in Nat : /\ h = k + 1 /\ k + 1 <= Len(Frames(s))
                          /\ Frames(s)[k + 1] = s[h + 1]
                          /\ Upgrades(s[1]) /\ Following(r, Frames(s), k)
                          /\ Asked(results) = Commands(Frames(s), k)
<1>1. h > 0 /\ Upgrades(s[1]) /\ Following(r, Frames(s), h - 1)
      /\ Asked(results) = Commands(Frames(s), h - 1)
  BY DEF Expecting
<1>2. Len(s) \in Nat /\ s # << >>
  BY LenProperties, EmptySeq
<1>3. /\ Len(Frames(s)) = Len(s) - 1
      /\ \A i \in 1 .. Len(s) - 1 : Frames(s)[i] = s[i + 1]
  BY <1>1, <1>2, FramesAre
<1>4. PICK k \in Nat : h = k + 1 /\ h - 1 = k
  <2>1. h - 1 \in Nat /\ h = h - 1 + 1
    BY <1>1
  <2> QED
    BY <2>1
<1>5. k + 1 \in 1 .. Len(s) - 1
  BY <1>2, <1>4
<1>6. Frames(s)[k + 1] = s[h + 1] /\ k + 1 <= Len(Frames(s))
  BY <1>2, <1>3, <1>4, <1>5
<1> QED
  BY <1>1, <1>4, <1>6

LEMMA ExpectUpgrade ==
    ASSUME NEW s \in Seq(Inputs), NEW h \in Nat, h < Len(s), NEW r, NEW results,
           Expecting(r, results, s, h), ~r.websocket, Upgrades(s[h + 1]),
           NEW q, q.websocket, q.inMessage = r.inMessage
    PROVE  Expecting(q, results, s, h + 1)
<1>1. h = 0 /\ results = << >> /\ ~q.inMessage
  BY DEF Expecting
<1>2. Len(Frames(s)) \in Nat
  BY FramesAre
<1>3. StartsAnew(Frames(s), 0 + 1)
  <2>1. DataUpTo(Frames(s), 0 + 1 - 1) = {}
    BY DEF DataUpTo
  <2> QED
    BY <2>1 DEF StartsAnew
<1>4. Following(q, Frames(s), 0)
  BY <1>1, <1>2, <1>3 DEF Following
<1>5. Asked(results) = Commands(Frames(s), 0)
  <2>1. Commands(Frames(s), 0) = << >>
    BY <1>2, CommandsOfNone
  <2> QED
    BY <1>1, <2>1, AskedNone
<1>6. h + 1 = 1 /\ h + 1 - 1 = 0
  BY <1>1
<1> QED
  BY <1>4, <1>5, <1>6 DEF Expecting

LEMMA ExpectControl ==
    ASSUME NEW s \in Seq(Inputs), NEW h \in Nat, h < Len(s), NEW r, NEW results,
           Expecting(r, results, s, h), r.websocket,
           s[h + 1].op \in {"ping", "pong"}, ~Fails(r, s[h + 1]),
           NEW q, q.websocket, q.inMessage = r.inMessage, q.message = r.message
    PROVE  Expecting(q, results, s, h + 1)
<1> DEFINE f == Frames(s)
<1>1. PICK k \in Nat : /\ h = k + 1 /\ k + 1 <= Len(f) /\ f[k + 1] = s[h + 1]
                       /\ Upgrades(s[1]) /\ Following(r, f, k) /\ Asked(results) = Commands(f, k)
  BY FrameAt
<1>2. Payloads(f)
  BY FramesAre
<1> HIDE DEF f
<1>3. Following(q, f, k + 1) /\ Commands(f, k + 1) = Commands(f, k)
  BY <1>1, <1>2, FollowControl
<1>4. h + 1 - 1 = k + 1 /\ h + 1 > 0
  BY <1>1
<1> QED
  BY <1>1, <1>3, <1>4 DEF Expecting, f

LEMMA ExpectFragment ==
    ASSUME NEW s \in Seq(Inputs), NEW h \in Nat, h < Len(s), NEW r \in Clients, NEW results,
           Expecting(r, results, s, h), r.websocket,
           IsData(s[h + 1]), ~Fails(r, s[h + 1]), ~s[h + 1].fin,
           NEW q, q.websocket, q.inMessage, q.message = MessageWith(r, s[h + 1])
    PROVE  Expecting(q, results, s, h + 1)
<1> DEFINE f == Frames(s)
<1>1. PICK k \in Nat : /\ h = k + 1 /\ k + 1 <= Len(f) /\ f[k + 1] = s[h + 1]
                       /\ Upgrades(s[1]) /\ Following(r, f, k) /\ Asked(results) = Commands(f, k)
  BY FrameAt
<1>2. Payloads(f) /\ Len(f) \in Nat
  BY FramesAre
<1>3. r.inMessage \in BOOLEAN
  BY DEF Clients
<1> HIDE DEF f
<1>4. /\ \A j \in 1 .. k + 1 : InOrder(f, j)
      /\ Text(f, k + 1) = MessageWith(r, f[k + 1])
      /\ StartsAnew(f, k + 1 + 1) <=> f[k + 1].fin
  BY <1>1, <1>2, <1>3, FollowData
<1>5. Following(q, f, k + 1)
  BY <1>1, <1>2, <1>4 DEF Following
<1>6. Commands(f, k + 1) = Commands(f, k)
  <2>1. ~Ended(f, k + 1)
    BY <1>1 DEF Ended
  <2>2. k \in 0 .. Len(f) - 1
    BY <1>1, <1>2
  <2> QED
    BY <1>2, <2>1, <2>2, CommandsNext
<1>7. h + 1 - 1 = k + 1 /\ h + 1 > 0
  BY <1>1
<1> QED
  BY <1>1, <1>5, <1>6, <1>7 DEF Expecting, f

\* The last frame of a message is answered with one result.
LEMMA ExpectMessage ==
    ASSUME NEW s \in Seq(Inputs), NEW h \in Nat, h < Len(s), NEW r \in Clients,
           NEW results, IsSequence(results),
           Expecting(r, results, s, h), r.websocket,
           IsData(s[h + 1]), ~Fails(r, s[h + 1]), s[h + 1].fin,
           NEW q, q.websocket, ~q.inMessage,
           NEW x, x.command = Command(MessageWith(r, s[h + 1]))
    PROVE  Expecting(q, Append(results, x), s, h + 1)
<1> DEFINE f == Frames(s)
<1>1. PICK k \in Nat : /\ h = k + 1 /\ k + 1 <= Len(f) /\ f[k + 1] = s[h + 1]
                       /\ Upgrades(s[1]) /\ Following(r, f, k) /\ Asked(results) = Commands(f, k)
  BY FrameAt
<1>2. Payloads(f) /\ Len(f) \in Nat
  BY FramesAre
<1>3. r.inMessage \in BOOLEAN
  BY DEF Clients
<1> HIDE DEF f
<1>4. /\ \A j \in 1 .. k + 1 : InOrder(f, j)
      /\ Text(f, k + 1) = MessageWith(r, f[k + 1])
      /\ StartsAnew(f, k + 1 + 1) <=> f[k + 1].fin
  BY <1>1, <1>2, <1>3, FollowData
<1>5. Following(q, f, k + 1)
  BY <1>1, <1>2, <1>4 DEF Following
<1>6. Commands(f, k + 1) = Append(Commands(f, k), Command(Text(f, k + 1)))
  <2>1. Ended(f, k + 1)
    BY <1>1, <1>4 DEF Ended
  <2>2. k \in 0 .. Len(f) - 1
    BY <1>1, <1>2
  <2> QED
    BY <1>2, <2>1, <2>2, CommandsNext
<1>7. h + 1 - 1 = k + 1 /\ h + 1 > 0
  BY <1>1
<1>8. Asked(Append(results, x)) = Commands(f, k + 1)
  <2>1. Asked(Append(results, x)) = Append(Asked(results), x.command)
    BY AskedNext
  <2> QED
    BY <1>1, <1>4, <1>6, <2>1
<1> QED
  BY <1>1, <1>5, <1>7, <1>8 DEF Expecting, f

\* A handler that has done with its next input.
LEMMA HandledAnswers ==
    ASSUME NEW s \in Seq(Inputs), NEW r \in Clients, NEW results, NEW n \in Nat, n <= Len(s),
           Answering(r, results, s, n), ~r.closing, r.in # << >>,
           NEW q, q.in = Tail(r.in), q.websocket, NEW new,
           \A h \in Nat : Expecting(r, results, s, h) /\ h < Len(s) /\ Head(r.in) = s[h + 1]
                             => Expecting(q, new, s, h + 1)
    PROVE  Answering(q, new, s, n)
<1>1. PICK h \in Nat : /\ n = h + Len(r.in) /\ Expecting(r, results, s, h)
                       /\ \A i \in 1 .. Len(r.in) : r.in[i] = s[h + i]
  BY DEF Answering
<1>2. r.in \in Seq(Inputs) /\ Len(r.in) \in Nat \ {0} /\ Len(s) \in Nat
      /\ Head(r.in) = r.in[1]
  <2>1. r.in \in Seq(Inputs)
    BY DEF Clients
  <2> QED
    BY <2>1, EmptySeq, LenProperties
<1>3. /\ Len(q.in) = Len(r.in) - 1 /\ \A i \in 1 .. Len(q.in) : q.in[i] = r.in[i + 1]
  BY <1>2, HeadTailProperties
<1>4. h < Len(s) /\ Head(r.in) = s[h + 1]
  BY <1>1, <1>2
<1>5. Expecting(q, new, s, h + 1)
  BY <1>1, <1>4
<1>6. n = h + 1 + Len(q.in)
  <2>1. PICK l \in Nat : l = Len(q.in) /\ Len(r.in) = l + 1
    <3>1. Len(r.in) - 1 \in Nat /\ Len(r.in) = Len(r.in) - 1 + 1
      BY <1>2
    <3> QED
      BY <1>3, <3>1
  <2>2. n = h + (l + 1)
    BY <1>1, <2>1
  <2>3. n = h + 1 + l
    BY <2>2
  <2> QED
    BY <2>1, <2>3, Zenon
<1>7. ASSUME NEW i \in 1 .. Len(q.in) PROVE q.in[i] = s[h + 1 + i]
  <2>1. i + 1 \in 1 .. Len(r.in) /\ h + (i + 1) = h + 1 + i
    BY <1>2, <1>3
  <2> QED
    BY <1>1, <1>3, <2>1
<1>8. IsPrefix(Asked(new), Commands(Frames(s), n - 1))
  <2>1. Asked(new) = Commands(Frames(s), h)
    <3>1. h + 1 - 1 = h
      OBVIOUS
    <3> QED
      BY <1>5, <3>1 DEF Expecting
  <2>2. n - 1 \in Nat /\ h <= n - 1 /\ Len(Frames(s)) \in Nat
    BY <1>1, <1>2, FramesAre
  <2> QED
    BY <2>1, <2>2, CommandsGrow
<1>9. h + 1 \in Nat
  OBVIOUS
<1> QED
  BY <1>5, <1>6, <1>7, <1>8, <1>9 DEF Answering

-----------------------------------------------------------------------------
(* What one step answers.                                                  *)

\* An element more behind a sequence of which some are selected.
LEMMA SelectedAppend ==
    ASSUME NEW s, IsSequence(s), NEW x, NEW I \in Positions(Len(s))
    PROVE  /\ Selected(Append(s, x), I) = Selected(s, I)
           /\ Selected(Append(s, x), I \cup {Len(s) + 1}) = Append(Selected(s, I), x)
<1> DEFINE t == Append(s, x)
<1>1. /\ t[Len(s) + 1] = x /\ \A i \in 1 .. Len(s) : t[i] = s[i]
  BY Appended
<1>2. Len(s) \in Nat /\ 1 \in Nat \ {0}
  BY Sequences
<1> HIDE DEF t
<1>3. \A i \in I : t[i] = s[i]
  BY <1>1 DEF Positions
<1>4. Selected(t, I) = Selected(s, I)
  BY <1>2, <1>3, SelectedSame
<1>5. Selected(t, I \cup {Len(s) + 1}) = Append(Selected(t, I), t[Len(s) + 1])
  BY <1>2, SelectedNext
<1> QED
  BY <1>1, <1>4, <1>5 DEF t

LEMMA SuccessesNext ==
    ASSUME NEW s, IsSequence(s), NEW x
    PROVE  /\ IsSequence(Successes(s))
           /\ x.ok => Successes(Append(s, x)) = Append(Successes(s), x)
           /\ ~x.ok => Successes(Append(s, x)) = Successes(s)
<1> DEFINE t == Append(s, x)
           Ok(u) == {i \in 1 .. Len(u) : u[i].ok}
           I == Ok(s)
<1>1. /\ Len(t) = Len(s) + 1 /\ t[Len(s) + 1] = x /\ \A i \in 1 .. Len(s) : t[i] = s[i]
      /\ Len(s) \in Nat
  BY Appended, Sequences
<1>2. I \in Positions(Len(s))
  BY DEF Positions
<1>3. Successes(s) = Selected(s, I) /\ Successes(t) = Selected(t, Ok(t))
  BY DEF Successes
<1>4. IsSequence(Selected(s, I))
  BY <1>1, <1>2, SelectionIs
<1>5. Selected(t, I) = Selected(s, I) /\ Selected(t, I \cup {Len(s) + 1}) = Append(Selected(s, I), x)
  BY <1>2, SelectedAppend
<1> HIDE DEF t
<1>6. Ok(t) = IF x.ok THEN I \cup {Len(s) + 1} ELSE I
  <2>1. ASSUME NEW i PROVE i \in 1 .. Len(t) <=> i \in 1 .. Len(s) \/ i = Len(s) + 1
    BY <1>1
  <2>2. ASSUME NEW i PROVE i \in Ok(t) <=> i \in I \/ (i = Len(s) + 1 /\ x.ok)
    BY <1>1, <2>1
  <2> QED
    BY <2>2
<1> HIDE DEF Ok
<1> QED
  BY <1>3, <1>4, <1>5, <1>6 DEF t

LEMMA ForwardedNext ==
    ASSUME NEW p, IsSequence(p), NEW x, NEW c
    PROVE  /\ x[1] = c => Forwarded(Append(p, x), c) = Append(Forwarded(p, c), x)
           /\ x[1] # c => Forwarded(Append(p, x), c) = Forwarded(p, c)
<1> DEFINE t == Append(p, x)
           Of(u) == {i \in 1 .. Len(u) : u[i][1] = c}
           I == Of(p)
<1>1. /\ Len(t) = Len(p) + 1 /\ t[Len(p) + 1] = x /\ \A i \in 1 .. Len(p) : t[i] = p[i]
      /\ Len(p) \in Nat
  BY Appended, Sequences
<1>2. I \in Positions(Len(p))
  BY DEF Positions
<1>3. Forwarded(p, c) = Selected(p, I) /\ Forwarded(t, c) = Selected(t, Of(t))
  BY DEF Forwarded
<1>4. Selected(t, I) = Selected(p, I) /\ Selected(t, I \cup {Len(p) + 1}) = Append(Selected(p, I), x)
  BY <1>2, SelectedAppend
<1> HIDE DEF t
<1>5. Of(t) = IF x[1] = c THEN I \cup {Len(p) + 1} ELSE I
  <2>1. ASSUME NEW i PROVE i \in 1 .. Len(t) <=> i \in 1 .. Len(p) \/ i = Len(p) + 1
    BY <1>1
  <2>2. ASSUME NEW i PROVE i \in Of(t) <=> i \in I \/ (i = Len(p) + 1 /\ x[1] = c)
    BY <1>1, <2>1
  <2> QED
    BY <2>2
<1> HIDE DEF Of
<1> QED
  BY <1>3, <1>4, <1>5 DEF t

\* One result more, of a command handed on exactly if the result says so.
LEMMA ToldNext ==
    ASSUME NEW c, NEW results, IsSequence(results), NEW p, IsSequence(p), Told(c, results, p),
           NEW x, NEW now, now = IF x.ok THEN Append(p, <<c, x.command>>) ELSE p
    PROVE  Told(c, Append(results, x), now)
<1> DEFINE done == Successes(results)
           Pairs(r) == [i \in 1 .. Len(r) |-> <<c, r[i].command>>]
<1>1. /\ IsSequence(done)
      /\ x.ok => Successes(Append(results, x)) = Append(done, x)
      /\ ~x.ok => Successes(Append(results, x)) = done
  BY SuccessesNext
<1>2. Forwarded(p, c) = Pairs(done)
  BY DEF Told
<1>3. CASE ~x.ok
  BY <1>1, <1>2, <1>3 DEF Told
<1>4. CASE x.ok
  <2> DEFINE y == <<c, x.command>>
             t == Append(done, x)
             a == Pairs(done)
             b == Pairs(t)
  <2>1. Forwarded(now, c) = Append(a, y)
    <3>1. y[1] = c
      OBVIOUS
    <3> HIDE DEF y
    <3>2. Forwarded(Append(p, y), c) = Append(Forwarded(p, c), y)
      BY <3>1, ForwardedNext
    <3> QED
      BY <1>2, <1>4, <3>2 DEF y
  <2>2. /\ IsSequence(t) /\ Len(t) = Len(done) + 1 /\ t[Len(done) + 1] = x
        /\ \A i \in 1 .. Len(done) : t[i] = done[i]
    BY <1>1, Appended
  <2>3. ASSUME NEW q, IsSequence(q)
        PROVE  IsSequence(Pairs(q)) /\ Len(Pairs(q)) = Len(q) /\ Len(q) \in Nat
    <3>1. Len(q) \in Nat
      BY <2>3, Sequences
    <3>2. Pairs(q) \in [1 .. Len(q) -> {Pairs(q)[i] : i \in DOMAIN Pairs(q)}]
      OBVIOUS
    <3> DEFINE u == Pairs(q)
    <3> HIDE DEF u
    <3>3. u \in [1 .. Len(q) -> {u[i] : i \in DOMAIN u}]
      BY <3>2 DEF u
    <3>4. IsSequence(u) /\ Len(u) = Len(q)
      BY <3>1, <3>3 DEF IsSequence
    <3> QED
      BY <3>1, <3>4 DEF u
  <2> HIDE DEF t, done
  <2>4. /\ IsSequence(a) /\ Len(a) = Len(done) /\ Len(done) \in Nat
        /\ \A i \in 1 .. Len(done) : a[i] = <<c, done[i].command>>
    BY <1>1, <2>3
  <2>5. /\ IsSequence(b) /\ Len(b) = Len(done) + 1
        /\ \A i \in 1 .. Len(done) + 1 : b[i] = <<c, t[i].command>>
    BY <2>2, <2>3
  <2> HIDE DEF a, b, Pairs
  <2>6. /\ IsSequence(Append(a, y)) /\ Len(Append(a, y)) = Len(done) + 1
        /\ Append(a, y)[Len(done) + 1] = y
        /\ \A i \in 1 .. Len(done) : Append(a, y)[i] = a[i]
    <3> HIDE DEF y
    <3> QED
      BY <2>4, Appended
  <2>7. ASSUME NEW i \in 1 .. Len(b) PROVE b[i] = Append(a, y)[i]
    <3>1. i \in 1 .. Len(done) \/ i = Len(done) + 1
      BY <2>4, <2>5
    <3> QED
      BY <2>2, <2>4, <2>5, <2>6, <3>1
  <2>8. b = Append(a, y)
    BY <2>5, <2>6, <2>7, SameSequence
  <2>9. Successes(Append(results, x)) = t
    BY <1>1, <1>4 DEF t
  <2> QED
    BY <2>1, <2>8, <2>9 DEF Told, b, Pairs
<1> QED
  BY <1>3, <1>4

\* AnswerInv, of connection c with Client r whose peer was sent g.
Answers(r, g, s, n, p, c) ==
    Answering(r, Results(g \o r.out), s, n) /\ Told(c, Results(g \o r.out), p)

LEMMA AnswersOf ==
    AnswerInv <=> \A c \in Conn : Answers(client[c], got[c], script[c], taken[c], published, c)
BY DEF AnswerInv, Answers, Stream

\* A step of one connection.
LEMMA OneAnswers ==
    ASSUME AnswerInv, NEW c \in Conn,
           \A d \in Conn \ {c} :
              /\ client'[d] = client[d] /\ got'[d] = got[d] /\ script'[d] = script[d]
              /\ taken'[d] = taken[d] /\ Forwarded(published', d) = Forwarded(published, d),
           Answers(client'[c], got'[c], script'[c], taken'[c], published', c)
    PROVE  AnswerInv'
<1>1. ASSUME NEW d \in Conn
      PROVE  Answers(client'[d], got'[d], script'[d], taken'[d], published', d)
  <2>1. CASE d = c
    BY <2>1
  <2>2. CASE d # c
    <3>1. /\ client'[d] = client[d] /\ got'[d] = got[d] /\ script'[d] = script[d]
          /\ taken'[d] = taken[d] /\ Forwarded(published', d) = Forwarded(published, d)
      BY <2>2
    <3>2. Answers(client[d], got[d], script[d], taken[d], published, d)
      BY AnswersOf
    <3>3. Answers(client[d], got[d], script[d], taken[d], published', d)
      BY <3>1, <3>2 DEF Answers, Told
    <3> QED
      BY <3>1, <3>3
  <2> QED
    BY <2>1, <2>2
<1> QED
  BY <1>1 DEF AnswerInv, Answers, Stream

\* What is queued for a connection.
LEMMA ResultsSent ==
    ASSUME NEW g \in Seq(Items), NEW o \in Seq(Items)
    PROVE  /\ IsSequence(Results(g \o o))
           /\ \A x \in Items : Results(g \o Append(o, x)) =
                 IF x.kind = "result" THEN Append(Results(g \o o), x) ELSE Results(g \o o)
<1> DEFINE s == g \o o
<1>1. s \in Seq(Items)
  BY Joined
<1> HIDE DEF s
<1>2. IsSequence(Results(s))
  <2>1. Len(s) \in Nat /\ IsResult(s) \in Positions(Len(s))
    BY <1>1, LenProperties DEF IsResult, Positions
  <2>2. IsSequence(Selected(s, IsResult(s)))
    BY <2>1, SelectionIs
  <2> QED
    BY <2>2 DEF Results, IsResult
<1>3. ASSUME NEW x \in Items
      PROVE  Results(g \o Append(o, x)) =
                 IF x.kind = "result" THEN Append(Results(s), x) ELSE Results(s)
  <2>1. g \o Append(o, x) = Append(s, x)
    BY JoinedAppend DEF s
  <2>2. Results(Append(s, x)) = IF x.kind = "result" THEN Append(Results(s), x) ELSE Results(s)
    BY <1>1, ResultsNext
  <2> QED
    BY <2>1, <2>2
<1> QED
  BY <1>2, <1>3 DEF s

\* A connection that is sent something else, or nothing.
LEMMA NoResult ==
    ASSUME NEW r \in Clients, NEW g \in Seq(Items), NEW s, NEW n, NEW p, NEW c,
           Answers(r, g, s, n, p, c), NEW q,
           q.out = r.out \/ \E x \in Items : x.kind # "result" /\ q.out = Append(r.out, x),
           \/ q.closing
           \/ /\ q.in = r.in /\ q.websocket = r.websocket /\ q.inMessage = r.inMessage
              /\ q.message = r.message /\ (r.closing => q.closing)
    PROVE  Answers(q, g, s, n, p, c)
<1>1. r.out \in Seq(Items)
  BY DEF Clients
<1>2. Results(g \o q.out) = Results(g \o r.out)
  BY <1>1, ResultsSent
<1>3. Answering(r, Results(g \o r.out), s, n)
  BY DEF Answers
<1>4. Answering(q, Results(g \o r.out), s, n)
  <2>1. CASE q.closing
    BY <1>3, <2>1, ClosingAnswers
  <2>2. CASE ~q.closing
    BY <1>3, <2>2, StillAnswering
  <2> QED
    BY <2>1, <2>2
<1> QED
  BY <1>2, <1>4 DEF Answers

LEMMA InitAnswers == ASSUME Init PROVE AnswerInv
<1> SUFFICES ASSUME NEW c \in Conn
             PROVE  Answers(client[c], got[c], script[c], taken[c], published, c)
  BY AnswersOf
<1>1. client[c] = NewClient /\ got[c] = << >> /\ taken[c] = 0 /\ published = << >>
  BY DEF Init
<1> DEFINE s == script[c]
           r == NewClient
<1>2. s \in Seq(Inputs)
  BY InitInv DEF CsInv, Counts
<1>3. /\ r.out = << >> /\ r.in = << >> /\ ~r.websocket /\ ~r.inMessage
  BY DEF NewClient
<1> HIDE DEF s, r
<1>4. << >> \o << >> = << >>
  BY ConcatEmptySeq
<1>5. Results(<< >> \o r.out) = << >>
  BY <1>3, <1>4, ResultsNone
<1>6. Answering(r, << >>, s, 0)
  <2>1. Len(Frames(s)) \in Nat
    BY <1>2, FramesAre
  <2>2. Commands(Frames(s), 0 - 1) = << >>
    BY <2>1, CommandsOfNone
  <2>3. IsPrefix(Asked(<< >>), Commands(Frames(s), 0 - 1))
    BY <2>2, AskedNone, PrefixIs, Sequences
  <2>4. Len(<< >>) = 0 /\ 0 = 0 + 0 /\ 0 \in Nat
    BY EmptySeq
  <2>5. Expecting(r, << >>, s, 0)
    BY <1>3 DEF Expecting
  <2>6. Len(r.in) = 0 /\ 0 = 0 + Len(r.in) /\ \A i \in 1 .. Len(r.in) : r.in[i] = s[0 + i]
    BY <1>3, <2>4
  <2> QED
    BY <2>3, <2>4, <2>5, <2>6 DEF Answering
<1>7. Told(c, << >>, << >>)
  <2>1. Len(<< >>) = 0
    BY EmptySeq
  <2>2. Successes(<< >>) = << >> /\ Forwarded(<< >>, c) = << >>
    <3>1. {i \in 1 .. Len(<< >>) : << >>[i].ok} = {} /\ {i \in 1 .. Len(<< >>) : << >>[i][1] = c} = {}
      BY <2>1
    <3> QED
      BY <3>1, SelectedNone DEF Successes, Forwarded
  <2>3. [i \in 1 .. 0 |-> <<c, << >>[i].command>>] = << >>
    OBVIOUS
  <2>4. [i \in 1 .. Len(<< >>) |-> <<c, << >>[i].command>>] = << >>
    BY <2>1, <2>3
  <2>5. [i \in 1 .. Len(Successes(<< >>)) |-> <<c, Successes(<< >>)[i].command>>] = << >>
    BY <2>2, <2>4
  <2> QED
    BY <2>2, <2>5 DEF Told
<1> QED
  BY <1>1, <1>5, <1>6, <1>7 DEF Answers, r, s

\* Statistics for all.
LEMMA BroadcastAnswers ==
    ASSUME CsInv, AnswerInv, NEW x \in Int,
           client' = Broadcast(client, x), UNCHANGED <<network, published>>
    PROVE  AnswerInv'
<1>1. ASSUME NEW c \in Conn
      PROVE  Answers(client'[c], got[c], script[c], taken[c], published, c)
  <2> DEFINE y == [kind |-> "stats", latest |-> x]
             r == client[c]
  <2>1. Answers(r, got[c], script[c], taken[c], published, c)
    BY AnswersOf
  <2>2. r \in Clients /\ got[c] \in Seq(Items)
    BY DEF CsInv, Connections
  <2>3. y \in Items /\ y.kind # "result"
    <3>1. y \in Items /\ y.kind = "stats"
      BY ItemTypes
    <3> QED
      BY <3>1
  <2>4. CASE c \in ToSet(clients) /\ TakesStats(r)
    <3> DEFINE q == [r EXCEPT !.out = Append(@, y)]
    <3>1. client'[c] = q
      BY <2>4 DEF Broadcast
    <3> HIDE DEF r, y
    <3>2. /\ q.out = Append(r.out, y) /\ q.in = r.in /\ q.websocket = r.websocket
          /\ q.inMessage = r.inMessage /\ q.message = r.message /\ q.closing = r.closing
      BY <2>2 DEF Clients
    <3> HIDE DEF q
    <3>3. Answers(q, got[c], script[c], taken[c], published, c)
      BY <2>1, <2>2, <2>3, <3>2, NoResult
    <3> QED
      BY <3>1, <3>3
  <2>5. CASE ~(c \in ToSet(clients) /\ TakesStats(r))
    <3>1. client'[c] = r
      BY <2>5 DEF Broadcast
    <3> QED
      BY <2>1, <3>1
  <2> QED
    BY <2>4, <2>5
<1> QED
  BY <1>1 DEF AnswerInv, Answers, Stream, network

LEMMA NothingAnswers ==
    ASSUME AnswerInv, UNCHANGED <<script, taken, got, client, published>>
    PROVE  AnswerInv'
BY DEF AnswerInv, Stream

\* Stop answers with a Close frame.
LEMMA StopAnswers == ASSUME CsInv, AnswerInv, Stop PROVE AnswerInv'
<1>1. ASSUME NEW c \in Conn
      PROVE  Answers(client'[c], got[c], script[c], taken[c], published, c)
  <2> DEFINE r == client[c]
  <2>1. Answers(r, got[c], script[c], taken[c], published, c)
    BY AnswersOf
  <2>2. r \in Clients /\ got[c] \in Seq(Items)
    BY DEF CsInv, Connections
  <2>3. Close \in Items /\ Close.kind # "result"
    <3>1. Close.kind = "close" /\ Close \in Items
      BY ItemTypes
    <3> QED
      BY <3>1
  <2>4. client'[c] = r \/ client'[c] = Answer(r, <<Close>>)
    BY DEF Stop
  <2> DEFINE q == Answer(r, <<Close>>)
  <2> HIDE DEF r
  <2>5. /\ q.out = Append(r.out, Close) /\ q.in = r.in /\ q.websocket = r.websocket
        /\ q.inMessage = r.inMessage /\ q.message = r.message /\ q.closing = r.closing
    BY <2>2, <2>3, AnsweredOne
  <2> HIDE DEF q
  <2>6. Answers(q, got[c], script[c], taken[c], published, c)
    BY <2>1, <2>2, <2>3, <2>5, NoResult
  <2> QED
    BY <2>1, <2>4, <2>6 DEF q
<1> QED
  BY <1>1 DEF Stop, AnswerInv, Answers, Stream, network

\* Connection At changes alone, and its peer is sent h.
LEMMA AtAnswers ==
    ASSUME CsInv, AnswerInv, NEW c \in Conn, NEW q, client' = [client EXCEPT ![c] = q],
           UNCHANGED <<script, got, taken>>,
           \A d \in Conn \ {c} : Forwarded(published', d) = Forwarded(published, d),
           Answers(q, got[c], script[c], taken[c], published', c)
    PROVE  AnswerInv'
<1>1. client'[c] = q /\ \A d \in Conn \ {c} : client'[d] = client[d]
  BY DEF CsInv, Connections
<1>2. Answers(client'[c], got'[c], script'[c], taken'[c], published', c)
  BY <1>1
<1>3. \A d \in Conn \ {c} :
         /\ client'[d] = client[d] /\ got'[d] = got[d] /\ script'[d] = script[d]
         /\ taken'[d] = taken[d] /\ Forwarded(published', d) = Forwarded(published, d)
  BY <1>1
<1> QED
  BY <1>2, <1>3, OneAnswers

LEMMA DeadAnswers == ASSUME CsInv, AnswerInv, ReadEnds \/ WriteFails PROVE AnswerInv'
<1> DEFINE r == client[At]
           q == [r EXCEPT !.dead = TRUE]
<1>1. /\ UNCHANGED <<script, taken, got, published>>
      /\ Now("read") \/ Now("write")
      /\ client' = [client EXCEPT ![At].dead = TRUE]
  BY DEF ReadEnds, WriteFails
<1>2. At \in Conn /\ r \in Clients /\ got[At] \in Seq(Items)
  BY <1>1, Served
<1>3. client' = [client EXCEPT ![At] = q]
  BY <1>1
<1>4. Answers(r, got[At], script[At], taken[At], published, At)
  BY <1>2, AnswersOf
<1> HIDE DEF r
<1>5. /\ q.out = r.out /\ q.in = r.in /\ q.websocket = r.websocket
      /\ q.inMessage = r.inMessage /\ q.message = r.message /\ q.closing = r.closing
  BY <1>2 DEF Clients
<1> HIDE DEF q
<1>6. Answers(q, got[At], script[At], taken[At], published, At)
  BY <1>2, <1>4, <1>5, NoResult
<1> QED
  BY <1>1, <1>2, <1>3, <1>6, AtAnswers

LEMMA ReadAnswered ==
    ASSUME CsInv, AnswerInv, NEW n \in 1 .. Len(script[At]), Read(n) PROVE AnswerInv'
<1> DEFINE c == At
           s == script[c]
           m == taken[c]
           r == client[c]
           q == client'[c]
           results == Results(got[c] \o r.out)
<1>1. /\ UNCHANGED <<script, got, published>>
      /\ Now("read") /\ m + n <= Len(s) /\ taken' = [taken EXCEPT ![c] = @ + n]
      /\ IF r.closing THEN UNCHANGED client
         ELSE client' = [client EXCEPT ![c].in = @ \o SubSeq(s, m + 1, m + n)]
  BY DEF Read
<1>2. c \in Conn /\ r \in Clients /\ got[c] \in Seq(Items)
  BY <1>1, Served
<1>3. s \in Seq(Inputs) /\ m \in Nat /\ taken'[c] = m + n /\ n \in Nat
      /\ \A d \in Conn \ {c} : taken'[d] = taken[d] /\ client'[d] = client[d]
  BY <1>1, <1>2 DEF CsInv, Counts, Connections
<1>4. /\ q.closing = r.closing /\ q.websocket = r.websocket /\ q.inMessage = r.inMessage
      /\ q.message = r.message /\ q.out = r.out
      /\ ~r.closing => q.in = r.in \o SubSeq(s, m + 1, m + n)
  <2>1. CASE r.closing
    BY <1>1, <2>1
  <2>2. CASE ~r.closing
    <3> DEFINE more == SubSeq(s, m + 1, m + n)
    <3>1. client' = [client EXCEPT ![c].in = @ \o more]
      BY <1>1, <2>2
    <3> HIDE DEF more
    <3>2. q = [r EXCEPT !.in = @ \o more]
      BY <1>2, <3>1 DEF CsInv, Connections
    <3> HIDE DEF q, r
    <3>3. /\ q.closing = r.closing /\ q.websocket = r.websocket /\ q.inMessage = r.inMessage
          /\ q.message = r.message /\ q.out = r.out /\ q.in = r.in \o more
      BY <1>2, <3>2 DEF Clients
    <3> QED
      BY <3>3 DEF more
  <2> QED
    BY <2>1, <2>2
<1>5. Answering(r, results, s, m) /\ Told(c, results, published)
  BY <1>2, AnswersOf DEF Answers
<1>6. IsSequence(results)
  <2>1. r.out \in Seq(Items)
    BY <1>2 DEF Clients
  <2> QED
    BY <1>2, <2>1, ResultsSent
<1>7. script'[c] = s /\ got'[c] = got[c] /\ published' = published /\ c \in Conn
      /\ \A d \in Conn \ {c} : script'[d] = script[d] /\ got'[d] = got[d]
  BY <1>1, <1>2
<1>8. m + n <= Len(s)
  BY <1>1
<1> HIDE DEF c, s, m, r, q, results
<1>9. Answering(q, results, s, m + n)
  BY <1>2, <1>3, <1>4, <1>5, <1>6, <1>8, ReadAnswers
<1>10. Answers(q, got[c], s, m + n, published, c)
  BY <1>4, <1>5, <1>9 DEF Answers, results
<1>11. Answers(client'[c], got'[c], script'[c], taken'[c], published', c)
  BY <1>3, <1>7, <1>10 DEF q
<1>12. \A d \in Conn \ {c} :
         /\ client'[d] = client[d] /\ got'[d] = got[d] /\ script'[d] = script[d]
         /\ taken'[d] = taken[d] /\ Forwarded(published', d) = Forwarded(published, d)
  BY <1>3, <1>7
<1> QED
  BY <1>7, <1>11, <1>12, OneAnswers

\* The peer is sent a part of the queue.
LEMMA WriteAnswers ==
    ASSUME CsInv, AnswerInv, NEW n \in 0 .. Len(client[At].out), Write(n) PROVE AnswerInv'
<1> DEFINE c == At
           r == client[c]
           o == r.out
           q == client'[c]
           g == got[c]
           h == got'[c]
<1>1. /\ UNCHANGED <<script, taken, published>> /\ Now("write")
      /\ client' = [client EXCEPT ![c] = Written(@, n)]
      /\ got' = [got EXCEPT ![c] = Receive(@, SubSeq(o, 1, n))]
  BY DEF Write
<1>2. c \in Conn /\ r \in Clients /\ g \in Seq(Items)
  BY <1>1, Served
<1>3. q = Written(r, n) /\ h = Receive(g, SubSeq(o, 1, n))
      /\ \A d \in Conn \ {c} : client'[d] = client[d] /\ got'[d] = got[d]
  BY <1>1, <1>2 DEF CsInv, Connections
<1>4. Answers(r, g, script[c], taken[c], published, c)
  BY <1>2, AnswersOf
<1>5. n \in 0 .. Len(o) /\ o \in Seq(Items)
  BY <1>2 DEF Clients
<1>6. /\ q.out = SubSeq(o, n + 1, Len(o)) /\ q.in = r.in /\ q.websocket = r.websocket
      /\ q.inMessage = r.inMessage /\ q.message = r.message /\ q.closing = r.closing
  <2> HIDE DEF q, r
  <2> QED
    BY <1>2, <1>3 DEF Written, Clients
<1> HIDE DEF c, r, o, q, g, h
<1>7. Results(h \o q.out) = Results(g \o o)
  BY <1>2, <1>3, <1>5, <1>6, ResultsReceived
<1>8. Answering(q, Results(g \o o), script[c], taken[c]) /\ Told(c, Results(g \o o), published)
  <2>1. Answering(r, Results(g \o o), script[c], taken[c]) /\ Told(c, Results(g \o o), published)
    BY <1>4 DEF Answers, o
  <2> QED
    BY <1>6, <2>1, StillAnswering
<1>9. Answers(q, h, script[c], taken[c], published, c)
  BY <1>7, <1>8 DEF Answers
<1>10. Answers(client'[c], got'[c], script'[c], taken'[c], published', c)
  BY <1>1, <1>9 DEF q, h
<1>11. \A d \in Conn \ {c} :
         /\ client'[d] = client[d] /\ got'[d] = got[d] /\ script'[d] = script[d]
         /\ taken'[d] = taken[d] /\ Forwarded(published', d) = Forwarded(published, d)
  BY <1>1, <1>3
<1> QED
  BY <1>2, <1>10, <1>11, OneAnswers

\* Those turned away are told so.
LEMMA AcceptAnswers ==
    ASSUME CsInv, AnswerInv, NEW new, AcceptClients(new) PROVE AnswerInv'
<1> DEFINE x == Response("503")
<1>1. /\ UNCHANGED <<script, taken, got, published>>
      /\ \A c \in Conn : client'[c] = client[c] \/ client'[c] = AnswerAndClose(client[c], <<x>>)
  BY DEF AcceptClients
<1>2. x \in Items /\ x.kind # "result"
  <2>1. x \in Items /\ x.kind = "response"
    BY ItemTypes
  <2> QED
    BY <2>1
<1> HIDE DEF x
<1>3. ASSUME NEW c \in Conn
      PROVE  Answers(client'[c], got[c], script[c], taken[c], published, c)
  <2> DEFINE r == client[c]
             q == AnswerAndClose(r, <<x>>)
  <2>1. Answers(r, got[c], script[c], taken[c], published, c)
    BY AnswersOf
  <2>2. r \in Clients /\ got[c] \in Seq(Items)
    BY DEF CsInv, Connections
  <2>3. client'[c] = r \/ client'[c] = q
    BY <1>1
  <2> HIDE DEF r
  <2>4. q.out = Append(r.out, x) /\ q.closing
    BY <1>2, <2>2, AnsweredOne
  <2> HIDE DEF q
  <2>5. Answers(q, got[c], script[c], taken[c], published, c)
    BY <1>2, <2>1, <2>2, <2>4, NoResult
  <2> QED
    BY <2>1, <2>3, <2>5
<1> QED
  BY <1>1, <1>3 DEF AnswerInv, Answers, Stream

Before == Results(got[At] \o client[At].out)

LEMMA Handlers ==
    ASSUME CsInv, AnswerInv, Handling
    PROVE  /\ At \in Conn /\ client[At] \in Clients /\ got[At] \in Seq(Items)
           /\ script[At] \in Seq(Inputs) /\ taken[At] \in Nat /\ taken[At] <= Len(script[At])
           /\ client[At].in # << >> /\ ~client[At].closing /\ client[At].out \in Seq(Items)
           /\ Answers(client[At], got[At], script[At], taken[At], published, At)
           /\ IsSequence(Before) /\ Answering(client[At], Before, script[At], taken[At])
           /\ Told(At, Before, published) /\ IsSequence(published)
           /\ IsData(Input) => Input.payload \in Seq(Bytes)
           /\ Input \in Inputs /\ Input = Head(client[At].in)
<1>1. /\ At \in Conn /\ client[At] \in Clients /\ ~client[At].closing
      /\ client[At].out \in Seq(Items) /\ Input \in Inputs
      /\ IsData(Input) => Input.payload \in Seq(Bytes)
  BY InputTypes
<1>2. got[At] \in Seq(Items)
  BY <1>1 DEF CsInv, Connections
<1>3. script[At] \in Seq(Inputs) /\ taken[At] \in Nat /\ taken[At] <= Len(script[At])
      /\ IsSequence(published)
  BY <1>1 DEF CsInv, Counts
<1>4. Answers(client[At], got[At], script[At], taken[At], published, At)
  BY <1>1, AnswersOf
<1>5. IsSequence(Before)
  BY <1>1, <1>2, ResultsSent DEF Before
<1>6. Answering(client[At], Before, script[At], taken[At]) /\ Told(At, Before, published)
  BY <1>4 DEF Answers, Before
<1>7. client[At].in # << >> /\ Input = Head(client[At].in)
  BY DEF Handling, Input
<1> QED
  BY <1>1, <1>2, <1>3, <1>4, <1>5, <1>6, <1>7

\* What a handler makes of its client, but for the input taken.
LEMMA ByHandler ==
    ASSUME CsInv, AnswerInv, Handling, NEW r \in Clients, Handled(r), UNCHANGED network,
           \A d \in Conn \ {At} : Forwarded(published', d) = Forwarded(published, d),
           ASSUME NEW q, q.in = Tail(r.in), q.out = r.out, q.websocket = r.websocket,
                  q.inMessage = r.inMessage, q.message = r.message, q.closing = r.closing
           PROVE  Answers(q, got[At], script[At], taken[At], published', At)
    PROVE  AnswerInv'
<1> DEFINE q == [r EXCEPT !.in = Tail(@)]
<1>1. /\ q.in = Tail(r.in) /\ q.out = r.out /\ q.websocket = r.websocket
      /\ q.inMessage = r.inMessage /\ q.message = r.message /\ q.closing = r.closing
  BY DEF Clients
<1>2. client' = [client EXCEPT ![At] = q]
  BY DEF Handled
<1> HIDE DEF q
<1>3. Answers(q, got[At], script[At], taken[At], published', At)
  BY <1>1
<1>4. At \in Conn
  BY Handlers
<1>5. UNCHANGED <<script, got, taken>>
  BY DEF network
<1> QED
  BY <1>2, <1>3, <1>4, <1>5, AtAnswers

\* A handler that ends the connection sends an item that is no result.
LEMMA EndAnswers ==
    ASSUME CsInv, AnswerInv, Handling, NEW r \in Clients, Handled(r),
           UNCHANGED <<network, published>>, r.closing,
           NEW x \in Items, x.kind # "result", r.out = Append(client[At].out, x)
    PROVE  AnswerInv'
<1>1. /\ client[At] \in Clients /\ got[At] \in Seq(Items)
      /\ Answers(client[At], got[At], script[At], taken[At], published, At)
  BY Handlers
<1>2. ASSUME NEW q, q.in = Tail(r.in), q.out = r.out, q.websocket = r.websocket,
             q.inMessage = r.inMessage, q.message = r.message, q.closing = r.closing
      PROVE  Answers(q, got[At], script[At], taken[At], published, At)
  BY <1>1, <1>2, NoResult
<1>3. \A d \in Conn \ {At} : Forwarded(published', d) = Forwarded(published, d)
  OBVIOUS
<1>4. published' = published
  OBVIOUS
<1> QED
  BY <1>2, <1>3, <1>4, ByHandler

LEMMA HttpAnswers == ASSUME CsInv, AnswerInv, HandleHttp PROVE AnswerInv'
<1> DEFINE x == Response(Outcome(Input))
           r == AnswerAndClose(client[At], <<x>>)
<1>1. Handling /\ Handled(r) /\ UNCHANGED <<network, published>>
  BY DEF HandleHttp
<1>2. client[At] \in Clients /\ Input \in Inputs
  BY <1>1, Handlers
<1>3. x \in Items /\ x.kind # "result"
  <2>1. x \in Items /\ x.kind = "response"
    BY <1>2, ItemTypes DEF Outcome
  <2> HIDE DEF x
  <2> QED
    BY <2>1
<1> HIDE DEF x
<1>4. r \in Clients /\ r.closing /\ r.out = Append(client[At].out, x)
  BY <1>2, <1>3, AnsweredOne
<1> HIDE DEF r
<1> QED
  BY <1>1, <1>3, <1>4, EndAnswers

LEMMA FailAnswers == ASSUME CsInv, AnswerInv, FailConnection PROVE AnswerInv'
<1> DEFINE a == Assembled(client[At], Input)
           r == AnswerAndClose(a, <<Close>>)
<1>1. Handling /\ Handled(r) /\ UNCHANGED <<network, published>>
  BY DEF FailConnection, Framing
<1>2. client[At] \in Clients /\ (IsData(Input) => Input.payload \in Seq(Bytes))
  BY <1>1, Handlers
<1>3. a \in Clients /\ a.out = client[At].out
  BY <1>2, AssembledType
<1>4. Close \in Items /\ Close.kind # "result"
  <2>1. Close \in Items /\ Close.kind = "close"
    BY ItemTypes
  <2> QED
    BY <2>1
<1> HIDE DEF a
<1>5. r \in Clients /\ r.closing /\ r.out = Append(client[At].out, Close)
  BY <1>3, <1>4, AnsweredOne
<1> HIDE DEF r
<1> QED
  BY <1>1, <1>4, <1>5, EndAnswers

\* A handler that goes on, of client r: what it expects next follows from what it expected.
LEMMA GoesOn ==
    ASSUME CsInv, AnswerInv, Handling, NEW r \in Clients, Handled(r), UNCHANGED network,
           r.in = client[At].in, r.websocket, NEW new,
           Results(got[At] \o r.out) = new, Told(At, new, published'),
           \A d \in Conn \ {At} : Forwarded(published', d) = Forwarded(published, d),
           ASSUME NEW q, q.websocket, q.inMessage = r.inMessage, q.message = r.message,
                  NEW h \in Nat, h < Len(script[At]), Input = script[At][h + 1],
                  Expecting(client[At], Before, script[At], h)
           PROVE  Expecting(q, new, script[At], h + 1)
    PROVE  AnswerInv'
<1>1. /\ client[At] \in Clients /\ script[At] \in Seq(Inputs)
      /\ taken[At] \in Nat /\ taken[At] <= Len(script[At])
      /\ client[At].in # << >> /\ ~client[At].closing /\ Input = Head(client[At].in)
      /\ Answering(client[At], Before, script[At], taken[At])
  BY Handlers
<1> DEFINE s == script[At]
           n == taken[At]
           c == client[At]
           b == Before
           i == Input
<1>2. ASSUME NEW q, q.in = Tail(r.in), q.out = r.out, q.websocket = r.websocket,
             q.inMessage = r.inMessage, q.message = r.message, q.closing = r.closing
      PROVE  Answers(q, got[At], s, n, published', At)
  <2>1. q.in = Tail(c.in) /\ q.websocket
    BY <1>2
  <2>2. \A h \in Nat : Expecting(c, b, s, h) /\ h < Len(s) /\ Head(c.in) = s[h + 1]
                         => Expecting(q, new, s, h + 1)
    BY <1>1, <1>2, <2>1
  <2>3. Answering(q, new, s, n)
    <3>1. s \in Seq(Inputs) /\ c \in Clients /\ n \in Nat /\ n <= Len(s) /\ Answering(c, b, s, n)
          /\ ~c.closing /\ c.in # << >>
      BY <1>1
    <3> HIDE DEF s, n, c, b
    <3> QED
      BY <2>1, <2>2, <3>1, HandledAnswers
  <2>4. Results(got[At] \o q.out) = new
    BY <1>2
  <2> HIDE DEF s, n
  <2> QED
    BY <2>3, <2>4 DEF Answers
<1> QED
  BY <1>2, ByHandler

LEMMA UpgradeAnswers == ASSUME CsInv, AnswerInv, UpgradeWebSocket PROVE AnswerInv'
<1> DEFINE c == client[At]
           r == [Answer(c, Handshake) EXCEPT !.websocket = TRUE]
           s == script[At]
<1>1. /\ UNCHANGED <<network, published>> /\ Handling /\ ~c.websocket /\ Handled(r)
      /\ Upgrades(Input)
  BY DEF UpgradeWebSocket
<1>2. /\ At \in Conn /\ c \in Clients /\ got[At] \in Seq(Items) /\ c.out \in Seq(Items)
      /\ s \in Seq(Inputs) /\ Told(At, Before, published) /\ ~c.closing
  BY <1>1, Handlers
<1>3. /\ Stats \in Items /\ Stats.kind # "result" /\ Hello \in Items /\ Hello.kind # "result"
  <2>1. latest \in Int
    BY Sequences DEF CsInv, Counts
  <2>2. Stats \in Items /\ Stats.kind = "stats" /\ Hello \in Items /\ Hello.kind = "hello"
    BY <2>1, ItemTypes DEF Stats
  <2> QED
    BY <2>2
<1>4. c.out = << >>
  <2>1. Sound(c, got[At], running, limits.maxBacklog)
    BY <1>2 DEF CsInv, Connections
  <2> HIDE DEF c
  <2> QED
    BY <1>1, <1>2, <2>1, NothingYet
<1> DEFINE o == Append(Append(c.out, Hello), Stats)
<1>5. o \in Seq(Items) /\ c.out \o Handshake = o
  <2> DEFINE t == <<Hello, Stats>>
  <2>1. t = Append(Append(<< >>, Hello), Stats) /\ t \in Seq(Items)
    BY <1>3
  <2> HIDE DEF t
  <2>2. << >> \o t = t
    BY <2>1, ConcatEmptySeq
  <2> QED
    BY <1>4, <2>1, <2>2 DEF t, Handshake
<1> HIDE DEF o
<1>6. /\ r \in Clients /\ r.out = o /\ r.websocket /\ r.in = c.in /\ r.inMessage = c.inMessage
  <2>1. r = [c EXCEPT !.out = o, !.websocket = TRUE]
    BY <1>2, <1>5 DEF Answer, Clients
  <2> HIDE DEF r, c
  <2> QED
    BY <1>2, <1>5, <2>1 DEF Clients
<1>7. Results(got[At] \o r.out) = Before
  <2> DEFINE g == got[At]
             p == Append(c.out, Hello)
  <2>1. p \in Seq(Items)
    BY <1>2, <1>3, AppendProperties
  <2>2. Results(g \o p) = Results(g \o c.out)
    BY <1>2, <1>3, ResultsSent
  <2>3. Results(g \o Append(p, Stats)) = Results(g \o p)
    <3> HIDE DEF p
    <3> QED
      BY <1>2, <1>3, <2>1, ResultsSent
  <2> QED
    BY <1>6, <2>2, <2>3 DEF o, Before
<1> DEFINE b == Before
<1>8. ASSUME NEW q, q.websocket, q.inMessage = r.inMessage, q.message = r.message,
             NEW h \in Nat, h < Len(s), Input = s[h + 1], Expecting(c, b, s, h)
      PROVE  Expecting(q, b, s, h + 1)
  <2>1. q.inMessage = c.inMessage /\ Upgrades(s[h + 1])
    BY <1>1, <1>6, <1>8
  <2> HIDE DEF c, s, b
  <2> QED
    BY <1>1, <1>2, <1>8, <2>1, ExpectUpgrade
<1>9. /\ Told(At, Before, published') /\ UNCHANGED network
      /\ \A d \in Conn \ {At} : Forwarded(published', d) = Forwarded(published, d)
  BY <1>1, <1>2
<1> HIDE DEF r
<1> QED
  BY <1>1, <1>6, <1>7, <1>8, <1>9, GoesOn

LEMMA ControlAnswers == ASSUME CsInv, AnswerInv, HandleControl PROVE AnswerInv'
<1> DEFINE c == client[At]
           s == script[At]
           b == Before
<1>1. /\ UNCHANGED <<network, published>> /\ Handling /\ c.websocket /\ ~Fails(c, Input)
      /\ \/ Input.op = "ping" /\ Handled(Answer(c, <<Pong>>))
         \/ Input.op = "pong" /\ Handled(c)
         \/ Handled(AnswerAndClose(c, <<Close>>))
  BY DEF HandleControl, Framing
<1>2. /\ c \in Clients /\ got[At] \in Seq(Items) /\ c.out \in Seq(Items)
      /\ s \in Seq(Inputs) /\ Told(At, b, published) /\ b = Results(got[At] \o c.out)
  BY <1>1, Handlers DEF Before
<1>3. Close \in Items /\ Close.kind # "result" /\ Pong \in Items /\ Pong.kind # "result"
  <2>1. Close \in Items /\ Close.kind = "close" /\ Pong \in Items /\ Pong.kind = "pong"
    BY ItemTypes
  <2> QED
    BY <2>1
<1>4. CASE Handled(AnswerAndClose(c, <<Close>>))
  <2> DEFINE r == AnswerAndClose(c, <<Close>>)
  <2>1. r \in Clients /\ r.closing /\ r.out = Append(c.out, Close)
    <3> HIDE DEF c
    <3> QED
      BY <1>2, <1>3, AnsweredOne
  <2>2. Handled(r)
    BY <1>4
  <2> HIDE DEF r
  <2> QED
    BY <1>1, <1>3, <2>1, <2>2, EndAnswers
<1>5. CASE Input.op \in {"ping", "pong"} /\ \E r \in {c, Answer(c, <<Pong>>)} : Handled(r)
  <2>1. PICK r \in {c, Answer(c, <<Pong>>)} : Handled(r)
    BY <1>5
  <2>2. /\ r \in Clients /\ (r.out = c.out \/ r.out = Append(c.out, Pong))
        /\ r.websocket = c.websocket /\ r.in = c.in /\ r.message = c.message
        /\ r.inMessage = c.inMessage
    <3>1. \/ r = c
          \/ r = Answer(c, <<Pong>>)
      OBVIOUS
    <3> DEFINE a == Answer(c, <<Pong>>)
    <3>2. /\ a \in Clients /\ a.out = Append(c.out, Pong) /\ a.websocket = c.websocket
          /\ a.in = c.in /\ a.message = c.message /\ a.inMessage = c.inMessage
      <4> HIDE DEF c
      <4> QED
        BY <1>2, <1>3, AnsweredOne
    <3> HIDE DEF a
    <3> QED
      BY <1>2, <3>1, <3>2 DEF a
  <2>3. Results(got[At] \o r.out) = b
    <3>1. Results(got[At] \o Append(c.out, Pong)) = Results(got[At] \o c.out)
      BY <1>2, <1>3, ResultsSent
    <3> QED
      BY <1>2, <2>2, <3>1
  <2>4. ASSUME NEW q, q.websocket, q.inMessage = r.inMessage, q.message = r.message,
               NEW h \in Nat, h < Len(s), Input = s[h + 1], Expecting(c, b, s, h)
        PROVE  Expecting(q, b, s, h + 1)
    <3>1. /\ q.inMessage = c.inMessage /\ q.message = c.message
          /\ s[h + 1].op \in {"ping", "pong"} /\ ~Fails(c, s[h + 1])
      BY <1>1, <1>5, <2>2, <2>4
    <3> HIDE DEF c, s, b
    <3> QED
      BY <1>1, <1>2, <2>4, <3>1, ExpectControl
  <2>5. /\ Told(At, b, published') /\ UNCHANGED network /\ r.websocket
        /\ \A d \in Conn \ {At} : Forwarded(published', d) = Forwarded(published, d)
    BY <1>1, <1>2, <2>2
  <2>6. r \in Clients /\ r.in = c.in
    BY <2>2
  <2> QED
    BY <1>1, <2>1, <2>3, <2>4, <2>5, <2>6, GoesOn
<1> QED
  BY <1>1, <1>4, <1>5

LEMMA FragmentAnswers == ASSUME CsInv, AnswerInv, HandleFragment PROVE AnswerInv'
<1> DEFINE c == client[At]
           s == script[At]
           b == Before
           r == Assembled(c, Input)
<1>1. /\ UNCHANGED <<network, published>> /\ Handling /\ c.websocket /\ ~Fails(c, Input)
      /\ IsData(Input) /\ ~Input.fin /\ Handled(r)
  BY DEF HandleFragment, Framing
<1>2. /\ c \in Clients /\ s \in Seq(Inputs) /\ Told(At, b, published)
      /\ b = Results(got[At] \o c.out) /\ Input.payload \in Seq(Bytes)
  BY <1>1, Handlers DEF Before
<1>3. r \in Clients /\ r.out = c.out /\ r.in = c.in /\ r.websocket = c.websocket
  <2> HIDE DEF c
  <2> QED
    BY <1>2, AssembledType
<1>4. r.inMessage /\ r.message = MessageWith(c, Input)
  <2>1. ~Rejected(Input) /\ ~OutOfPlace(c, Input)
    BY <1>1 DEF Fails
  <2>2. r = [c EXCEPT !.message = MessageWith(c, Input), !.inMessage = ~Input.fin]
    BY <1>1, <2>1 DEF Assembled
  <2> DEFINE m == MessageWith(c, Input)
             y == ~Input.fin
  <2> HIDE DEF m, y, c, r
  <2>3. r.inMessage = y /\ r.message = m
    BY <1>2, <2>2 DEF Clients, m, y
  <2> QED
    BY <1>1, <2>3 DEF m, y
<1>5. ASSUME NEW q, q.websocket, q.inMessage = r.inMessage, q.message = r.message,
             NEW h \in Nat, h < Len(s), Input = s[h + 1], Expecting(c, b, s, h)
      PROVE  Expecting(q, b, s, h + 1)
  <2>1. /\ q.inMessage /\ q.message = MessageWith(c, s[h + 1])
        /\ IsData(s[h + 1]) /\ ~Fails(c, s[h + 1]) /\ ~s[h + 1].fin
    BY <1>1, <1>4, <1>5
  <2> HIDE DEF c, s, b
  <2> QED
    BY <1>1, <1>2, <1>5, <2>1, ExpectFragment
<1>6. /\ Told(At, b, published') /\ UNCHANGED network
      /\ \A d \in Conn \ {At} : Forwarded(published', d) = Forwarded(published, d)
  BY <1>1, <1>2
<1>7. Results(got[At] \o r.out) = b
  BY <1>2, <1>3
<1> HIDE DEF r
<1> QED
  BY <1>1, <1>3, <1>5, <1>6, <1>7, GoesOn

LEMMA MessageAnswers == ASSUME CsInv, AnswerInv, HandleMessage PROVE AnswerInv'
<1> DEFINE c == client[At]
           s == script[At]
           b == Before
           command == Command(MessageWith(c, Input))
<1>1. /\ UNCHANGED network /\ Handling /\ c.websocket /\ ~Fails(c, Input)
      /\ IsData(Input) /\ Input.fin
  BY DEF HandleMessage, Framing
<1>2. PICK ok \in BOOLEAN :
        /\ published' = IF ok THEN Append(published, <<At, command>>) ELSE published
        /\ Handled([Answer(c, <<Result(command, ok)>>) EXCEPT
                       !.message = << >>, !.inMessage = FALSE])
  BY DEF HandleMessage
<1> DEFINE x == Result(command, ok)
           a == Answer(c, <<x>>)
           r == [a EXCEPT !.message = << >>, !.inMessage = FALSE]
<1>3. x \in Items /\ x.kind = "result" /\ x.command = command /\ x.ok = ok
  <2>1. x \in Items /\ x.kind = "result"
    BY ItemTypes, Zenon
  <2> QED
    BY <2>1 DEF Result
<1>4. /\ c \in Clients /\ s \in Seq(Inputs) /\ Told(At, b, published) /\ IsSequence(b)
      /\ b = Results(got[At] \o c.out) /\ c.out \in Seq(Items) /\ got[At] \in Seq(Items)
      /\ IsSequence(published)
  BY <1>1, Handlers DEF Before
<1>5. Handled(r)
  BY <1>2
<1> HIDE DEF x
<1>6. /\ a \in Clients /\ a.out = Append(c.out, x) /\ a.websocket = c.websocket /\ a.in = c.in
  <2> HIDE DEF c
  <2> QED
    BY <1>3, <1>4, AnsweredOne
<1> HIDE DEF a
<1>7. /\ r \in Clients /\ r.out = Append(c.out, x) /\ r.websocket = c.websocket
      /\ r.in = c.in /\ r.message = << >> /\ ~r.inMessage
  BY <1>6, EmptySeq DEF Clients
<1> HIDE DEF r
<1>8. Results(got[At] \o r.out) = Append(b, x)
  BY <1>3, <1>4, <1>7, ResultsSent
<1>9. Told(At, Append(b, x), published')
  <2>1. published' = IF x.ok THEN Append(published, <<At, x.command>>) ELSE published
    BY <1>2, <1>3
  <2> HIDE DEF b
  <2> QED
    BY <1>4, <2>1, ToldNext
<1>10. ASSUME NEW d \in Conn \ {At} PROVE Forwarded(published', d) = Forwarded(published, d)
  <2> DEFINE y == <<At, command>>
  <2>1. y[1] # d
    OBVIOUS
  <2> HIDE DEF y
  <2>2. Forwarded(Append(published, y), d) = Forwarded(published, d)
    BY <1>4, <2>1, ForwardedNext
  <2> QED
    BY <1>2, <2>2 DEF y
<1>11. ASSUME NEW q, q.websocket, q.inMessage = r.inMessage, q.message = r.message,
              NEW h \in Nat, h < Len(s), Input = s[h + 1], Expecting(c, b, s, h)
       PROVE  Expecting(q, Append(b, x), s, h + 1)
  <2>1. /\ ~q.inMessage /\ x.command = Command(MessageWith(c, s[h + 1]))
        /\ IsData(s[h + 1]) /\ ~Fails(c, s[h + 1]) /\ s[h + 1].fin
    BY <1>1, <1>3, <1>7, <1>11
  <2> HIDE DEF c, s, b
  <2> QED
    BY <1>1, <1>4, <1>11, <2>1, ExpectMessage
<1> QED
  BY <1>1, <1>5, <1>7, <1>8, <1>9, <1>10, <1>11, GoesOn

LEMMA StepAnswers == ASSUME CsInv, AnswerInv, [Next]_vars PROVE AnswerInv'
<1>1. CASE ServerStep
  <2>1. CASE Poll \/ NotReady \/ HandlerDone \/ NoUpdate \/ Erase
    BY <2>1, NothingAnswers DEF Poll, NotReady, HandlerDone, NoUpdate, Erase, network
  <2>2. CASE (\E x \in 0 .. Len(published) : DrainStats(x)) \/ Update
    <3>1. Len(published) \in Nat /\ latest \in Int
      BY Sequences DEF CsInv, Counts
    <3>2. PICK x \in Int : client' = client \/ client' = Broadcast(client, x)
      BY <2>2, <3>1 DEF DrainStats, Update
    <3>3. UNCHANGED <<network, published>>
      BY <2>2 DEF DrainStats, Update
    <3> QED
      BY <3>2, <3>3, NothingAnswers, BroadcastAnswers DEF network
  <2>3. CASE Reads
    BY <2>3, ReadAnswered, DeadAnswers DEF Reads
  <2>4. CASE HandleHttp
    BY <2>4, HttpAnswers
  <2>5. CASE UpgradeWebSocket
    BY <2>5, UpgradeAnswers
  <2>6. CASE FailConnection
    BY <2>6, FailAnswers
  <2>7. CASE HandleControl
    BY <2>7, ControlAnswers
  <2>8. CASE HandleFragment
    BY <2>8, FragmentAnswers
  <2>9. CASE HandleMessage
    BY <2>9, MessageAnswers
  <2>10. CASE Writes
    BY <2>10, WriteAnswers, DeadAnswers DEF Writes
  <2>11. CASE Accepts
    BY <2>11, AcceptAnswers DEF Accepts
  <2> QED
    BY <1>1, <2>1, <2>2, <2>3, <2>4, <2>5, <2>6, <2>7, <2>8, <2>9, <2>10, <2>11 DEF ServerStep
<1>2. CASE Stop
  BY <1>2, StopAnswers
<1>3. CASE PollFails
  BY <1>3, NothingAnswers DEF PollFails, network
<1>4. CASE UNCHANGED vars
  BY <1>4, NothingAnswers DEF vars, network
<1> QED
  BY <1>1, <1>2, <1>3, <1>4 DEF Next

-----------------------------------------------------------------------------
(* Theorems.                                                               *)

\* The invariant holds of every state the server reaches.
THEOREM ServerInvariant == Spec => []CsInv
<1>1. Init => CsInv
  BY InitInv
<1>2. CsInv /\ [Next]_vars => CsInv'
  BY StepInv
<1> QED
  BY <1>1, <1>2, PTL DEF Spec

\* Whatever the peers send and however slowly they read, the server serves only
\* connections it accepted, each once in its table, calls only what it knows, holds
\* no more of a message than one that may arrive, and keeps at most one
\* more statistics message than kMaxOutputBacklog for a browser.
THEOREM ServerTypes == Spec => []TypeOK
<1>1. ASSUME CsInv PROVE TypeOK
  <2>1. BacklogBounded
    BY <1>1 DEF CsInv, Connections, Sound, Backlog, BacklogBounded
  <2>2. \A c \in Conn : 0 <= taken[c] /\ taken[c] <= Len(script[c])
    BY <1>1 DEF CsInv, Counts
  <2>3. ToSet(clients) \subseteq accepted
    BY <1>1, ServedInTable
  <2>4. \A c \in Conn : Len(client[c].message) <= MaxMessage \/ client[c].closing
    BY <1>1 DEF CsInv, Connections, Sound
  <2>5. \A i \in 1 .. Len(todo) :
          todo[i].do \in {"stats", "read", "handle", "write", "accept", "update", "erase"}
    <3>1. ASSUME NEW i \in 1 .. Len(todo) PROVE todo[i] \in Calls(accepted)
      BY <1>1, ElementOfSeq DEF CsInv, Table
    <3> QED
      BY <3>1 DEF Calls
  <2> QED
    BY <1>1, <2>1, <2>2, <2>3, <2>4, <2>5 DEF CsInv, Table, Counts, TypeOK
<1>2. Spec => []CsInv
  BY ServerInvariant
<1>3. CsInv => TypeOK
  BY <1>1
<1> QED
  BY <1>2, <1>3, PTL

Names == {"response", "stats", "result", "pong", "close", "hello"}

\* How a connection ends: the only item behind a last one is the Close frame of
\* the end of the server behind another.
EndsRight(s) ==
    \A i \in 1 .. Len(s) - 1 :
        /\ s[i].kind # "response"
        /\ s[i].kind = "close" => i = Len(s) - 1 /\ s[i + 1].kind = "close"

\* Nothing happens when the server has ended.
EndInv == ~running => todo = << >> /\ \A c \in Conn : EndsRight(Stream(c))

LEMMA RunningEnds ==
    ASSUME NEW s, Len(s) \in Nat, NEW ws \in BOOLEAN, NEW cl \in BOOLEAN, Proper(s, ws, cl, TRUE)
    PROVE  EndsRight(s)
<1>1. ASSUME NEW i \in 1 .. Len(s) - 1 PROVE s[i].kind \notin {"response", "close"}
  <2>1. i \in 1 .. Len(s) /\ i # Len(s)
    OBVIOUS
  <2> QED
    BY <2>1 DEF Proper
<1> QED
  BY <1>1 DEF EndsRight

LEMMA CloseBehind ==
    ASSUME NEW s \in Seq(Items), NEW cl \in BOOLEAN, Proper(s, TRUE, cl, TRUE),
           NEW x \in Items, x.kind = "close"
    PROVE  EndsRight(Append(s, x))
<1> DEFINE t == Append(s, x)
<1>1. /\ Len(s) \in Nat /\ Len(t) = Len(s) + 1 /\ t[Len(s) + 1] = x
      /\ \A i \in 1 .. Len(s) : t[i] = s[i]
  BY AppendProperties, LenProperties
<1> HIDE DEF t
<1>2. ASSUME NEW i \in 1 .. Len(t) - 1
      PROVE  /\ t[i].kind # "response"
             /\ t[i].kind = "close" => i = Len(t) - 1 /\ t[i + 1].kind = "close"
  <2>1. i \in 1 .. Len(s) /\ t[i] = s[i]
    BY <1>1
  <2>2. s[i].kind # "response"
    BY <2>1 DEF Proper
  <2>3. s[i].kind = "close" => i = Len(s)
    BY <2>1 DEF Proper
  <2> QED
    BY <1>1, <2>1, <2>2, <2>3
<1> QED
  BY <1>2 DEF EndsRight, t

LEMMA EndStep == ASSUME CsInv, EndInv, [Next]_vars PROVE EndInv'
<1>1. CASE UNCHANGED vars
  BY <1>1 DEF EndInv, Stream, vars, network
<1>2. CASE ServerStep
  <2>1. running' = running /\ (running \/ todo # << >>)
    BY <1>2 DEF ServerStep, Poll, NotReady, DrainStats, Now, Reads, Read, ReadEnds, HandlerDone,
                HandleHttp, UpgradeWebSocket, FailConnection, HandleControl, HandleFragment,
                HandleMessage, Handling, Framing, Writes, Write, WriteFails, Accepts, AcceptClients,
                Update, NoUpdate, Erase
  <2> QED
    BY <2>1 DEF EndInv
<1>3. ASSUME running, NEW c \in Conn
      PROVE  /\ Stream(c) \in Seq(Items) /\ Len(Stream(c)) \in Nat
             /\ client[c] \in Clients /\ got[c] \in Seq(Items) /\ client[c].out \in Seq(Items)
             /\ client[c].websocket \in BOOLEAN /\ client[c].closing \in BOOLEAN
             /\ Proper(Stream(c), client[c].websocket, client[c].closing, TRUE)
  <2>1. /\ client[c] \in Clients /\ got[c] \in Seq(Items) /\ running = TRUE
        /\ Proper(Stream(c), client[c].websocket, client[c].closing, running)
    BY <1>3 DEF CsInv, Connections, Sound, Stream, Counts
  <2>2. /\ client[c].out \in Seq(Items)
        /\ client[c].websocket \in BOOLEAN /\ client[c].closing \in BOOLEAN
    BY <2>1 DEF Clients
  <2>3. Stream(c) \in Seq(Items)
    BY <2>1, <2>2, Joined DEF Stream
  <2>4. Len(Stream(c)) \in Nat
    BY <2>3, LenProperties
  <2> QED
    BY <2>1, <2>2, <2>3, <2>4
<1>4. CASE Stop
  <2>1. /\ running /\ todo = << >> /\ UNCHANGED <<network, todo>>
        /\ client' = [c \in Conn |-> IF c \in ToSet(clients) /\ client[c].websocket
                                       THEN Answer(client[c], <<Close>>) ELSE client[c]]
    BY <1>4 DEF Stop
  <2>2. Close \in Items /\ Close.kind = "close"
    BY ItemTypes
  <2>3. ASSUME NEW c \in Conn PROVE EndsRight(Stream(c)')
    <3> DEFINE r == client[c]
    <3>1. /\ Stream(c) \in Seq(Items) /\ Len(Stream(c)) \in Nat
          /\ r \in Clients /\ got[c] \in Seq(Items) /\ r.out \in Seq(Items)
          /\ r.websocket \in BOOLEAN /\ r.closing \in BOOLEAN
          /\ Proper(Stream(c), r.websocket, r.closing, TRUE)
      BY <1>3, <2>1
    <3>2. CASE c \in ToSet(clients) /\ r.websocket
      <4>1. client'[c] = Answer(r, <<Close>>)
        BY <2>1, <3>2, Zenon
      <4>2. Stream(c)' = got[c] \o client'[c].out
        BY <2>1 DEF Stream, network
      <4> HIDE DEF r
      <4>3. client'[c].out = Append(r.out, Close)
        <5>1. r \in Clients /\ Close \in Items
          BY <2>2, <3>1
        <5>2. Answer(r, <<Close>>).out = Append(r.out, Close)
          BY <5>1, AnsweredOne
        <5> QED
          BY <4>1, <5>2, Zenon
      <4>4. got[c] \o Append(r.out, Close) = Append(got[c] \o r.out, Close)
        <5> DEFINE g == got[c]
                   o == r.out
        <5>1. g \in Seq(Items) /\ o \in Seq(Items) /\ Close \in Items
          BY <2>2, <3>1
        <5> HIDE DEF g, o
        <5>2. g \o Append(o, Close) = Append(g \o o, Close)
          BY <5>1, JoinedAppend
        <5> QED
          BY <5>2 DEF g, o
      <4>5. Stream(c)' = Append(Stream(c), Close)
        BY <4>2, <4>3, <4>4 DEF Stream, r
      <4>6. Proper(Stream(c), TRUE, r.closing, TRUE)
        BY <3>1, <3>2
      <4>7. EndsRight(Append(Stream(c), Close))
        BY <2>2, <3>1, <4>6, CloseBehind
      <4> QED
        BY <4>5, <4>7
    <3>3. CASE ~(c \in ToSet(clients) /\ r.websocket)
      <4>1. client'[c] = r
        BY <2>1, <3>3, Zenon
      <4>2. Stream(c)' = Stream(c)
        BY <2>1, <4>1 DEF Stream, network
      <4> HIDE DEF r
      <4>3. EndsRight(Stream(c))
        BY <3>1, RunningEnds
      <4> QED
        BY <4>2, <4>3
    <3> QED
      BY <3>2, <3>3
  <2> QED
    BY <2>1, <2>3 DEF EndInv
<1>5. CASE PollFails
  <2>1. running /\ todo = << >> /\ UNCHANGED <<network, client, todo>>
    BY <1>5 DEF PollFails
  <2>2. ASSUME NEW c \in Conn PROVE EndsRight(Stream(c)')
    <3>1. EndsRight(Stream(c))
      BY <1>3, <2>1, RunningEnds
    <3>2. Stream(c)' = Stream(c)
      BY <2>1 DEF Stream, network
    <3> QED
      BY <3>1, <3>2
  <2> QED
    BY <2>1, <2>2 DEF EndInv
<1> QED
  BY <1>1, <1>2, <1>4, <1>5 DEF Next

\* What the server puts on a connection, by answers, pushes, pongs, results and
\* its own end, in whatever order they come about, begins with one response or the
\* handshake, and nothing follows a response or a Close frame but, behind the Close
\* frame with which a WebSocket was to end, that of the end of the server.
THEOREM StreamsAreWellFormed == Spec => []StreamWellFormed
<1>1. ASSUME CsInv, NEW c \in Conn
      PROVE  /\ Stream(c) \in Seq(Items) /\ Len(Stream(c)) \in Nat
             /\ \A i \in 1 .. Len(Stream(c)) : Kinds(c)[i] = Stream(c)[i].kind
             /\ Proper(Stream(c), client[c].websocket, client[c].closing, running)
             /\ Kinds(c) \in Seq(Names) /\ Len(Kinds(c)) = Len(Stream(c))
             /\ DOMAIN Kinds(c) = 1 .. Len(Stream(c))
  <2>1. client[c] \in Clients /\ got[c] \in Seq(Items)
        /\ Proper(Stream(c), client[c].websocket, client[c].closing, running)
    BY <1>1 DEF CsInv, Connections, Sound, Stream
  <2>2. client[c].out \in Seq(Items)
    BY <2>1 DEF Clients
  <2>3. Stream(c) \in Seq(Items) /\ Len(Stream(c)) \in Nat
    <3>1. Stream(c) \in Seq(Items)
      BY <2>1, <2>2, Joined DEF Stream
    <3> QED
      BY <3>1, LenProperties
  <2>4. \A i \in 1 .. Len(Stream(c)) : Stream(c)[i].kind \in Names
    <3>1. \A x \in Items : x.kind \in Names
      BY DEF Items, Names
    <3> QED
      BY <2>3, <3>1, ElementOfSeq
  <2> DEFINE s == Stream(c)
  <2>5. Kinds(c) = [i \in 1 .. Len(s) |-> s[i].kind]
    BY DEF Kinds
  <2> HIDE DEF s
  <2>6. Kinds(c) \in Seq(Names) /\ Len(Kinds(c)) = Len(s) /\ DOMAIN Kinds(c) = 1 .. Len(s)
        /\ \A i \in 1 .. Len(s) : Kinds(c)[i] = s[i].kind
    <3>1. Len(s) \in Nat /\ \A i \in 1 .. Len(s) : s[i].kind \in Names
      BY <2>3, <2>4 DEF s
    <3> QED
      BY <2>5, <3>1
  <2> QED
    BY <2>1, <2>3, <2>6 DEF s
<1>2. ASSUME CsInv PROVE HandshakeFirst
  <2> SUFFICES ASSUME NEW c \in Conn
               PROVE  \/ Len(Stream(c)) <= 1 /\ \A k \in ToSet(Kinds(c)) : k = "response"
                      \/ IsPrefix(<<"hello", "stats">>, Kinds(c))
    BY DEF HandshakeFirst
  <2> DEFINE s == Stream(c)
             t == Kinds(c)
             ws == client[c].websocket
             cl == client[c].closing
  <2>1. /\ s \in Seq(Items) /\ Len(s) \in Nat /\ t \in Seq(Names) /\ Len(t) = Len(s)
        /\ DOMAIN t = 1 .. Len(s)
        /\ \A i \in 1 .. Len(s) : t[i] = s[i].kind
        /\ Proper(s, ws, cl, running)
    BY <1>1, <1>2
  <2> HIDE DEF s, t
  <2>2. CASE ~ws
    <3>1. CASE ~cl
      <4>1. s = << >>
        BY <2>1, <2>2, <3>1 DEF Proper
      <4>2. Len(s) = 0
        BY <4>1, EmptySeq
      <4>3. ToSet(t) = {}
        BY <2>1, <4>2 DEF ToSet
      <4> QED
        BY <4>2, <4>3 DEF s, t
    <3>2. CASE cl
      <4>1. Len(s) = 1 /\ s[1].kind = "response"
        BY <2>1, <2>2, <3>2 DEF Proper
      <4>2. \A k \in ToSet(t) : k = "response"
        BY <2>1, <4>1 DEF ToSet
      <4> QED
        BY <4>1, <4>2 DEF s, t
    <3> QED
      BY <3>1, <3>2
  <2>3. CASE ws
    <3>1. Len(s) >= 2 /\ s[1].kind = "hello" /\ s[2].kind = "stats"
      BY <2>1, <2>3 DEF Proper
    <3>2. t[1] = "hello" /\ t[2] = "stats" /\ Len(t) >= 2
      BY <2>1, <3>1
    <3> DEFINE h == <<"hello", "stats">>
    <3>3. h \in Seq(Names) /\ Len(h) = 2 /\ h[1] = "hello" /\ h[2] = "stats"
      BY DEF Names
    <3> HIDE DEF h
    <3>4. \A i \in 1 .. 2 : h[i] \in Names /\ t[i] \in Names /\ h[i] = t[i]
      BY <3>2, <3>3 DEF Names
    <3>5. /\ SubSeq(h, 1, 2) \in Seq(Names) /\ SubSeq(t, 1, 2) \in Seq(Names)
          /\ Len(SubSeq(h, 1, 2)) = 2 /\ Len(SubSeq(t, 1, 2)) = 2
          /\ \A i \in 1 .. 2 : SubSeq(h, 1, 2)[i] = h[i] /\ SubSeq(t, 1, 2)[i] = t[i]
      BY <3>4, SubSeqProperties
    <3>6. SubSeq(h, 1, 2) = SubSeq(t, 1, 2)
      BY <3>4, <3>5, SeqEqual
    <3>7. IsPrefix(h, t)
      BY <3>2, <3>3, <3>6 DEF IsPrefix
    <3> QED
      BY <3>7 DEF h, t
  <2> QED
    BY <2>2, <2>3
<1>3. ASSUME CsInv, EndInv PROVE NothingAfterLast
  <2>1. ASSUME NEW c \in Conn, NEW i \in 1 .. Len(Stream(c)) - 1
        PROVE  /\ Kinds(c)[i] # "response"
               /\ Kinds(c)[i] = "close" =>
                     ~running /\ i = Len(Stream(c)) - 1 /\ Kinds(c)[i + 1] = "close"
    <3> DEFINE s == Stream(c)
               k == Kinds(c)
    <3>1. /\ Len(s) \in Nat /\ \A j \in 1 .. Len(s) : k[j] = s[j].kind
          /\ Proper(s, client[c].websocket, client[c].closing, running)
      BY <1>1, <1>3
    <3>2. ~running => EndsRight(s)
      BY <1>3 DEF EndInv
    <3>3. i \in 1 .. Len(s) - 1
      OBVIOUS
    <3> HIDE DEF s, k
    <3>4. i \in 1 .. Len(s) /\ i + 1 \in 1 .. Len(s) /\ i # Len(s)
      BY <3>1, <3>3
    <3>5. k[i] = s[i].kind /\ k[i + 1] = s[i + 1].kind
      BY <3>1, <3>4
    <3>6. CASE running
      <4>1. s[i].kind \notin {"response", "close"}
        BY <3>1, <3>4, <3>6 DEF Proper
      <4> QED
        BY <3>5, <4>1 DEF s, k
    <3>7. CASE ~running
      <4>1. /\ s[i].kind # "response"
            /\ s[i].kind = "close" => i = Len(s) - 1 /\ s[i + 1].kind = "close"
        BY <3>2, <3>3, <3>7 DEF EndsRight
      <4> QED
        BY <3>5, <3>7, <4>1 DEF s, k
    <3> QED
      BY <3>6, <3>7
  <2> QED
    BY <2>1 DEF NothingAfterLast
<1>4. Init => EndInv
  BY DEF Init, EndInv
<1>5. CsInv /\ EndInv => StreamWellFormed
  BY <1>2, <1>3 DEF StreamWellFormed
<1> QED
  BY <1>4, <1>5, ServerInvariant, EndStep, PTL DEF Spec

\* However a peer cuts its messages into frames, puts control frames between them or
\* breaks the protocol, and however the server's calls come about, its results
\* are those of the reference reading of its frames, and a
\* command went to the receiver exactly when its result says so.
THEOREM CommandsAreAnswered == Spec => []CommandsAnswered
<1>1. Init => CsInv /\ AnswerInv
  BY InitInv, InitAnswers
<1>2. CsInv /\ AnswerInv /\ [Next]_vars => CsInv' /\ AnswerInv'
  BY StepInv, StepAnswers
<1>3. CsInv /\ AnswerInv => CommandsAnswered
  BY DEF AnswerInv, Answering, Told, Asked, CommandsAnswered, CommandsTaken
<1> QED
  BY <1>1, <1>2, <1>3, PTL DEF Spec

=============================================================================
