------------------------- MODULE ControlPage_proofs -------------------------
(***************************************************************************)
(* Theorems of ControlPage.tla, for every set of pages and every bound on  *)
(* clicks, lost connections, crashes and backlog.                          *)
(***************************************************************************)
EXTENDS ControlPage, CommonLemmas

-----------------------------------------------------------------------------
(* The inductive invariant.                                                *)

Stats == [known : BOOLEAN, online : BOOLEAN, recording : BOOLEAN, at : Nat]
Messages == [kind : {"stats"}, envelope : Stats] \cup [kind : {"ok", "failed"}]
Waiting == [waits : BOOLEAN, enabled : BOOLEAN, late : BOOLEAN, since : Nat]
PageState == [link : {"wait", "connecting", "open"},
              delay : {500, 1000, 2000, 4000, 5000},
              envelope : Stats, pending : Waiting,
              error : {"none", "unconfirmed", "failed"}]

\* The statistics y were not taken before x, and those without a change of the
\* receiver between them say the same.
Before(x, y) ==
    x.known => y.known /\ x.at <= y.at /\ (x.at = y.at => x.recording = y.recording)

\* Whenever statistics arrive at a page that shows e, they are none before e,
\* and none after b, those the backend has.
Rising(e, d, b) ==
    /\ Before(e, b)
    /\ \A i \in 1 .. Len(d) : d[i].kind = "stats" =>
          Before(e, d[i].envelope) /\ Before(d[i].envelope, b)
    /\ \A i, j \in 1 .. Len(d) : i < j /\ d[i].kind = "stats" /\ d[j].kind = "stats" =>
          Before(d[i].envelope, d[j].envelope)

\* What the page showed when the button was clicked.
Clicked(w) == [known |-> TRUE, online |-> TRUE, recording |-> ~w.enabled, at |-> w.since]

\* A page, what is on its way to it, and the statistics the backend has.
Sound(r, d, b) ==
    /\ r \in PageState /\ d \in Seq(Messages)
    /\ Rising(r.envelope, d, b)
    /\ r.pending.waits => Before(Clicked(r.pending), r.envelope)
    /\ r.pending.waits => r.link = "open"
    /\ r.link = "open" => r.delay = 500

\* The receiver as statistics taken now would tell it.
Current == [known |-> TRUE, online |-> TRUE,
            recording |-> receiver.recording, at |-> receiver.at]

Types ==
    /\ setup \in Setups
    /\ page = [p \in Page |-> page[p]] /\ down = [p \in Page |-> down[p]]
    /\ up \in [Page -> Seq(BOOLEAN)]
    /\ orphans \in Seq(BOOLEAN) /\ published \in Seq(BOOLEAN) /\ sampled \in Seq(Stats)
    /\ backend \in [latest : Stats, fresh : BOOLEAN, push : BOOLEAN]
    /\ receiver \in [alive : BOOLEAN, recording : BOOLEAN, at : Nat]

Chronology ==
    /\ Len(sampled) <= 1
    /\ backend.fresh => backend.latest.known
    /\ Before(backend.latest, Current)
    /\ \A i \in 1 .. Len(sampled) :
          /\ sampled[i].known
          /\ Before(backend.latest, sampled[i]) /\ Before(sampled[i], Current)

IInv ==
    /\ Types
    /\ Chronology
    /\ \A p \in Page : Sound(page[p], down[p], backend.latest)

-----------------------------------------------------------------------------
(* The order of statistics.                                                *)

LEMMA BeforeSame == ASSUME NEW x \in Stats, NEW y \in Stats,
                           x.known = y.known, x.at = y.at, x.recording = y.recording
                    PROVE  Before(x, y)
BY DEF Before, Stats

LEMMA BeforeTransitive ==
    ASSUME NEW x \in Stats, NEW y \in Stats, NEW z \in Stats, Before(x, y), Before(y, z)
    PROVE  Before(x, z)
BY DEF Before, Stats

\* An element of a stream is a message, and statistics are.
LEMMA StreamElement ==
    ASSUME NEW d \in Seq(Messages), NEW i \in 1 .. Len(d)
    PROVE  /\ d[i] \in Messages /\ d[i].kind \in {"stats", "ok", "failed"}
           /\ d[i].kind = "stats" => d[i].envelope \in Stats
<1>1. d[i] \in Messages
  BY ElementOfSeq
<1> QED
  BY <1>1 DEF Messages

\* The backend gets statistics that are newer.
LEMMA RisingLater ==
    ASSUME NEW e \in Stats, NEW d \in Seq(Messages), NEW b \in Stats, NEW c \in Stats,
           Rising(e, d, b), Before(b, c)
    PROVE  Rising(e, d, c)
<1>1. Before(e, c)
  BY BeforeTransitive DEF Rising
<1>2. ASSUME NEW i \in 1 .. Len(d), d[i].kind = "stats"
      PROVE  Before(e, d[i].envelope) /\ Before(d[i].envelope, c)
  <2>1. d[i].envelope \in Stats
    BY <1>2, StreamElement
  <2>2. Before(e, d[i].envelope) /\ Before(d[i].envelope, b)
    BY <1>2 DEF Rising
  <2> QED
    BY <2>1, <2>2, BeforeTransitive
<1> QED
  BY <1>1, <1>2 DEF Rising

\* The backend sends what it has, whether or not it says that it is recent.
LEMMA RisingSent ==
    ASSUME NEW e \in Stats, NEW d \in Seq(Messages), NEW b \in Stats, NEW c \in Stats,
           Rising(e, d, b), c.known = b.known, c.at = b.at, c.recording = b.recording,
           NEW m, m = [kind |-> "stats", envelope |-> c]
    PROVE  Append(d, m) \in Seq(Messages) /\ Rising(e, Append(d, m), b)
<1> DEFINE f == Append(d, m)
<1>1. m \in Messages /\ m.kind = "stats" /\ m.envelope = c
  BY DEF Messages
<1>2. /\ f \in Seq(Messages) /\ Len(f) = Len(d) + 1 /\ Len(d) \in Nat
      /\ \A i \in 1 .. Len(d) : f[i] = d[i]
      /\ f[Len(d) + 1] = m
  BY <1>1, AppendProperties
<1>3. Before(c, b) /\ Before(b, c)
  BY BeforeSame
<1> HIDE DEF f
<1>4. Before(e, b)
  BY DEF Rising
<1>5. Before(e, c)
  BY <1>3, <1>4, BeforeTransitive
<1>6. ASSUME NEW i \in 1 .. Len(f), f[i].kind = "stats"
      PROVE  Before(e, f[i].envelope) /\ Before(f[i].envelope, b)
  <2>1. CASE i = Len(d) + 1
    BY <1>1, <1>2, <1>3, <1>5, <2>1
  <2>2. CASE i \in 1 .. Len(d)
    BY <1>2, <1>6, <2>2 DEF Rising
  <2> QED
    BY <1>2, <2>1, <2>2
<1>7. ASSUME NEW i \in 1 .. Len(f), NEW j \in 1 .. Len(f), i < j,
             f[i].kind = "stats", f[j].kind = "stats"
      PROVE  Before(f[i].envelope, f[j].envelope)
  <2>1. i \in 1 .. Len(d)
    BY <1>2, <1>7
  <2>2. f[i] = d[i] /\ d[i].envelope \in Stats
    BY <1>2, <1>7, <2>1, StreamElement
  <2>3. CASE j = Len(d) + 1
    <3>1. Before(d[i].envelope, b)
      BY <1>7, <2>1, <2>2 DEF Rising
    <3>2. Before(d[i].envelope, c)
      BY <1>3, <2>2, <3>1, BeforeTransitive
    <3> QED
      BY <1>1, <1>2, <2>2, <2>3, <3>2
  <2>4. CASE j \in 1 .. Len(d)
    BY <1>2, <1>7, <2>1, <2>2, <2>4 DEF Rising
  <2> QED
    BY <1>2, <2>3, <2>4
<1>8. Rising(e, f, b)
  BY <1>4, <1>6, <1>7 DEF Rising
<1> QED
  BY <1>2, <1>8 DEF f

\* The backend answers a command.
LEMMA RisingAnswered ==
    ASSUME NEW e \in Stats, NEW d \in Seq(Messages), NEW b \in Stats, Rising(e, d, b),
           NEW m, m \in [kind : {"ok", "failed"}]
    PROVE  Append(d, m) \in Seq(Messages) /\ Rising(e, Append(d, m), b)
<1> DEFINE f == Append(d, m)
<1>1. m \in Messages /\ m.kind # "stats"
  BY DEF Messages
<1>2. /\ f \in Seq(Messages) /\ Len(f) = Len(d) + 1 /\ Len(d) \in Nat
      /\ \A i \in 1 .. Len(d) : f[i] = d[i]
      /\ f[Len(d) + 1] = m
  BY <1>1, AppendProperties
<1> HIDE DEF f
<1>3. ASSUME NEW i \in 1 .. Len(f), f[i].kind = "stats"
      PROVE  i \in 1 .. Len(d) /\ f[i] = d[i]
  BY <1>1, <1>2, <1>3
<1>4. Rising(e, f, b)
  BY <1>3 DEF Rising
<1> QED
  BY <1>2, <1>4 DEF f

\* The page shows the next statistics.
LEMMA RisingHeard ==
    ASSUME NEW e \in Stats, NEW d \in Seq(Messages), NEW b \in Stats, Rising(e, d, b), d # << >>,
           NEW g, g = IF Head(d).kind = "stats" THEN Head(d).envelope ELSE e
    PROVE  /\ Tail(d) \in Seq(Messages) /\ Head(d) \in Messages /\ g \in Stats
           /\ Rising(g, Tail(d), b) /\ Before(e, g)
<1> DEFINE t == Tail(d)
<1>1. /\ t \in Seq(Messages) /\ Len(t) = Len(d) - 1 /\ Len(d) \in Nat \ {0}
      /\ \A i \in 1 .. Len(d) - 1 : t[i] = d[i + 1]
      /\ Head(d) = d[1]
  BY HeadTailProperties, EmptySeq, LenProperties
<1>2. 1 \in 1 .. Len(d)
  BY <1>1
<1>3. d[1] \in Messages /\ (d[1].kind = "stats" => d[1].envelope \in Stats)
  BY <1>2, StreamElement
<1>4. g \in Stats /\ g = IF d[1].kind = "stats" THEN d[1].envelope ELSE e
  BY <1>1, <1>3
<1> HIDE DEF t
<1>5. Before(e, g) /\ Before(g, b)
  <2>1. Before(e, e)
    BY BeforeSame
  <2> QED
    BY <1>2, <1>4, <2>1 DEF Rising
<1>6. ASSUME NEW i \in 1 .. Len(t)
      PROVE  i + 1 \in 1 .. Len(d) /\ t[i] = d[i + 1] /\ 1 < i + 1
  BY <1>1
<1>7. ASSUME NEW i \in 1 .. Len(t), t[i].kind = "stats"
      PROVE  Before(g, t[i].envelope) /\ Before(t[i].envelope, b)
  <2>1. CASE d[1].kind = "stats"
    BY <1>2, <1>4, <1>6, <1>7, <2>1 DEF Rising
  <2>2. CASE d[1].kind # "stats"
    BY <1>4, <1>6, <1>7, <2>2 DEF Rising
  <2> QED
    BY <2>1, <2>2
<1>8. ASSUME NEW i \in 1 .. Len(t), NEW j \in 1 .. Len(t), i < j,
             t[i].kind = "stats", t[j].kind = "stats"
      PROVE  Before(t[i].envelope, t[j].envelope)
  <2>1. i + 1 < j + 1
    BY <1>1, <1>8
  <2> QED
    BY <1>6, <1>8, <2>1 DEF Rising
<1>9. Rising(g, t, b)
  BY <1>5, <1>7, <1>8 DEF Rising
<1> QED
  BY <1>1, <1>3, <1>4, <1>5, <1>9 DEF t

-----------------------------------------------------------------------------
(* What happens to a page.                                                 *)

LEMMA WaitingTypes ==
    /\ NotWaiting \in Waiting /\ ~NotWaiting.waits /\ NoStats \in Stats /\ NewPage \in PageState
    /\ \A w \in Waiting : Clicked(w) \in Stats
BY DEF NotWaiting, Waiting, NoStats, Stats, NewPage, PageState, Clicked

\* render() leaves the connection and the statistics, and ends the wait or not.
LEMMA RenderedFacts ==
    ASSUME NEW r \in PageState
    PROVE  /\ Rendered(r) \in PageState /\ Rendered(r).link = r.link
           /\ Rendered(r).delay = r.delay /\ Rendered(r).envelope = r.envelope
           /\ Rendered(r).pending = r.pending \/ Rendered(r).pending = NotWaiting
           /\ ~r.pending.waits => Rendered(r) = r
           /\ r.pending.waits /\ ~Rendered(r).pending.waits =>
                 \/ Rendered(r).error # "none"
                 \/ r.envelope.known /\ r.envelope.recording = r.pending.enabled
<1>1. NotWaiting \in Waiting
  BY WaitingTypes
<1>2. CASE ~r.pending.waits
  BY <1>2 DEF Rendered
<1>3. CASE r.pending.waits /\ Confirmed(r)
  <2>1. Rendered(r) = [r EXCEPT !.pending = NotWaiting]
    BY <1>3 DEF Rendered
  <2> QED
    BY <1>1, <1>3, <2>1 DEF PageState, Confirmed
<1>4. CASE r.pending.waits /\ ~Confirmed(r) /\ TimesOut(r)
  <2>1. Rendered(r) = [r EXCEPT !.pending = NotWaiting, !.error = "unconfirmed"]
    BY <1>4 DEF Rendered, Unconfirmed
  <2>2. Rendered(r) \in PageState
    <3> DEFINE k == [r EXCEPT !.pending = NotWaiting]
    <3>1. k \in PageState
      BY <1>1 DEF PageState
    <3>2. [k EXCEPT !.error = "unconfirmed"] \in PageState
      <4> HIDE DEF k
      <4> QED
        BY <3>1 DEF PageState
    <3> QED
      BY <2>1, <3>2
  <2>3. /\ Rendered(r).link = r.link /\ Rendered(r).delay = r.delay
        /\ Rendered(r).envelope = r.envelope /\ Rendered(r).pending = NotWaiting
        /\ Rendered(r).error = "unconfirmed"
    BY <2>1 DEF PageState
  <2> QED
    BY <1>4, <2>2, <2>3
<1>5. CASE r.pending.waits /\ ~Confirmed(r) /\ ~TimesOut(r)
  BY <1>5 DEF Rendered
<1> QED
  BY <1>2, <1>3, <1>4, <1>5

LEMMA RenderedSound ==
    ASSUME NEW r, NEW d, NEW b, Sound(r, d, b)
    PROVE  Sound(Rendered(r), d, b)
<1>1. r \in PageState
  BY DEF Sound
<1>2. ~NotWaiting.waits
  BY WaitingTypes
<1> QED
  BY <1>1, <1>2, RenderedFacts DEF Sound

\* From the state r of a page to the state s, a wait ends as it may.
Ends(r, s) ==
    r.pending.waits /\ ~s.pending.waits =>
        \/ s.link # "open"
        \/ s.error # "none"
        \/ s.envelope.recording = r.pending.enabled /\ s.envelope.at > r.pending.since

\* render() ends a wait by an error or by the state asked for; as the page showed
\* the other state when the button was clicked, the receiver has changed since.
LEMMA RenderedEnds ==
    ASSUME NEW r, NEW d, NEW b, Sound(r, d, b)
    PROVE  Ends(r, Rendered(r))
<1>1. r \in PageState /\ (r.pending.waits => Before(Clicked(r.pending), r.envelope))
  BY DEF Sound
<1>2. /\ r.envelope \in Stats /\ r.pending \in Waiting
      /\ r.envelope.at \in Nat /\ r.pending.since \in Nat /\ r.pending.enabled \in BOOLEAN
  BY <1>1 DEF PageState, Stats, Waiting
<1>3. ASSUME r.pending.waits, r.envelope.recording = r.pending.enabled
      PROVE  r.envelope.at > r.pending.since
  <2>1. /\ r.pending.since <= r.envelope.at
        /\ r.pending.since = r.envelope.at => r.envelope.recording = ~r.pending.enabled
    BY <1>1, <1>3 DEF Before, Clicked
  <2> QED
    BY <1>2, <1>3, <2>1
<1> QED
  BY <1>1, <1>3, RenderedFacts DEF Ends

\* A page of which only the state of the connection, the error and the wait
\* change, unless it begins to wait.
LEMMA PageKept ==
    ASSUME NEW r, NEW s, NEW d, NEW b, Sound(r, d, b), s \in PageState,
           s.envelope = r.envelope,
           s.pending.waits => Before(Clicked(s.pending), s.envelope) /\ s.link = "open",
           s.link = "open" => s.delay = 500
    PROVE  Sound(s, d, b)
BY DEF Sound

LEMMA DelayDoubled ==
    ASSUME NEW n \in {500, 1000, 2000, 4000, 5000}
    PROVE  Min({2 * n, 5000}) \in {500, 1000, 2000, 4000, 5000}
<1>1. ASSUME NEW a \in Nat, NEW c \in Nat, a <= c
      PROVE  Min({a, c}) = a
  <2> DEFINE S == {a, c}
  <2>1. S # {} /\ S \in SUBSET Nat
    OBVIOUS
  <2> HIDE DEF S
  <2>2. \E x \in S : \A y \in S : x <= y
    BY <2>1, LeastElement
  <2>3. Min(S) \in S /\ \A y \in S : Min(S) <= y
    BY <2>2 DEF Min
  <2>4. Min(S) = a
    BY <1>1, <2>3 DEF S
  <2> QED
    BY <2>4 DEF S
<1>2. {2 * n, 5000} = {5000, 2 * n}
  OBVIOUS
<1>3. CASE 2 * n <= 5000
  BY <1>1, <1>3
<1>4. CASE ~(2 * n <= 5000)
  <2>1. Min({5000, 2 * n}) = 5000
    BY <1>1, <1>4
  <2> QED
    BY <1>2, <2>1
<1> QED
  BY <1>3, <1>4

\* The page is told something.
LEMMA ToldSound ==
    ASSUME NEW r, NEW d, NEW b \in Stats, Sound(r, d, b), d # << >>
    PROVE  /\ Sound(Told(r, Head(d)), Tail(d), b)
           /\ \/ Told(r, Head(d)).pending = r.pending
              \/ Told(r, Head(d)).error # "none" /\ ~Told(r, Head(d)).pending.waits
<1> DEFINE m == Head(d)
           g == IF m.kind = "stats" THEN m.envelope ELSE r.envelope
           s == Told(r, m)
<1>1. r \in PageState /\ r.envelope \in Stats /\ d \in Seq(Messages) /\ Rising(r.envelope, d, b)
  BY DEF Sound, PageState
<1>2. /\ Tail(d) \in Seq(Messages) /\ m \in Messages /\ g \in Stats
      /\ Rising(g, Tail(d), b) /\ Before(r.envelope, g)
  BY <1>1, RisingHeard
<1>3. m.kind = "stats" \/ m.kind = "failed" \/ m.kind = "ok"
  BY <1>2 DEF Messages
<1> HIDE DEF m
<1>4. /\ s \in PageState /\ s.envelope = g /\ s.link = r.link /\ s.delay = r.delay
      /\ s.pending = r.pending \/ (s.error # "none" /\ ~s.pending.waits)
  <2>1. CASE m.kind = "stats"
    <3>1. s = [r EXCEPT !.envelope = g]
      BY <2>1 DEF Told
    <3> QED
      BY <1>1, <1>2, <3>1 DEF PageState
  <2>2. CASE m.kind = "ok"
    <3>1. s = r /\ g = r.envelope
      BY <2>2 DEF Told
    <3> QED
      BY <1>1, <3>1
  <2>3. CASE m.kind = "failed"
    <3> DEFINE k == [r EXCEPT !.pending = NotWaiting]
    <3>1. s = [k EXCEPT !.error = "failed"] /\ g = r.envelope
      BY <2>3 DEF Told
    <3>2. k \in PageState /\ k.envelope = r.envelope /\ k.link = r.link /\ k.delay = r.delay
          /\ k.pending = NotWaiting
      BY <1>1, WaitingTypes DEF PageState
    <3> HIDE DEF k
    <3>3. s \in PageState /\ s.envelope = k.envelope /\ s.link = k.link /\ s.delay = k.delay
          /\ s.pending = k.pending /\ s.error = "failed"
      BY <3>1, <3>2 DEF PageState
    <3> QED
      BY <3>1, <3>2, <3>3, WaitingTypes
  <2> QED
    BY <1>3, <2>1, <2>2, <2>3
<1>5. s.pending.waits => s.pending = r.pending
  BY <1>4
<1>6. s.pending.waits => Before(Clicked(s.pending), s.envelope)
  <2> SUFFICES ASSUME s.pending.waits PROVE Before(Clicked(s.pending), s.envelope)
    OBVIOUS
  <2>1. Before(Clicked(r.pending), r.envelope)
    BY <1>5 DEF Sound
  <2>2. Clicked(r.pending) \in Stats
    BY <1>1, WaitingTypes DEF PageState
  <2>3. Before(Clicked(r.pending), g)
    BY <1>1, <1>2, <2>1, <2>2, BeforeTransitive
  <2> QED
    BY <1>4, <1>5, <2>3
<1> HIDE DEF s, g
<1>7. Sound(s, Tail(d), b)
  <2>1. s.pending.waits => s.link = "open"
    BY <1>4, <1>5 DEF Sound
  <2>2. s.link = "open" => s.delay = 500
    BY <1>4 DEF Sound
  <2> QED
    BY <1>2, <1>4, <1>6, <2>1, <2>2 DEF Sound
<1> QED
  BY <1>4, <1>7 DEF s, m

LEMMA TypesOf ==
    ASSUME IInv
    PROVE  /\ page = [q \in Page |-> page[q]] /\ down = [q \in Page |-> down[q]]
           /\ up \in [Page -> Seq(BOOLEAN)]
           /\ backend.latest \in Stats /\ backend.fresh \in BOOLEAN /\ backend.push \in BOOLEAN
           /\ receiver.recording \in BOOLEAN /\ receiver.at \in Nat
           /\ \A q \in Page : Sound(page[q], down[q], backend.latest) /\ page[q] \in PageState
                              /\ down[q] \in Seq(Messages) /\ page[q].envelope \in Stats
                              /\ up[q] \in Seq(BOOLEAN)
           /\ setup.pages \subseteq Page
<1>1. \A q \in Page : Sound(page[q], down[q], backend.latest)
  BY DEF IInv
<1>2. \A q \in Page : page[q] \in PageState /\ down[q] \in Seq(Messages)
  BY <1>1 DEF Sound
<1>3. \A q \in Page : page[q].envelope \in Stats
  BY <1>2 DEF PageState
<1>4. setup.pages \subseteq Page
  BY PageAssumption DEF IInv, Types
<1>5. /\ backend.latest \in Stats /\ backend.fresh \in BOOLEAN /\ backend.push \in BOOLEAN
      /\ receiver.recording \in BOOLEAN /\ receiver.at \in Nat
  BY DEF IInv, Types
<1>6. up \in [Page -> Seq(BOOLEAN)]
  BY DEF IInv, Types
<1>7. page = [q \in Page |-> page[q]] /\ down = [q \in Page |-> down[q]]
  BY DEF IInv, Types
<1> QED
  BY <1>1, <1>2, <1>3, <1>4, <1>5, <1>6, <1>7

LEMMA IInvInit == Init => IInv
<1> SUFFICES ASSUME Init PROVE IInv
  OBVIOUS
<1>1. /\ setup \in Setups /\ page = [p \in Page |-> NewPage]
      /\ down = [p \in Page |-> << >>] /\ up = [p \in Page |-> << >>]
      /\ orphans = << >> /\ published = << >> /\ sampled = << >>
      /\ backend = [latest |-> NoStats, fresh |-> FALSE, push |-> FALSE]
  BY DEF Init
<1>2. PICK recording \in BOOLEAN :
        receiver = [alive |-> TRUE, recording |-> recording, at |-> 0]
  BY DEF Init
<1>3. Types
  <2>1. /\ up \in [Page -> Seq(BOOLEAN)] /\ orphans \in Seq(BOOLEAN)
        /\ published \in Seq(BOOLEAN) /\ sampled \in Seq(Stats)
    BY <1>1
  <2>2. page = [p \in Page |-> page[p]] /\ down = [p \in Page |-> down[p]]
    BY <1>1
  <2>3. backend \in [latest : Stats, fresh : BOOLEAN, push : BOOLEAN]
    BY <1>1, WaitingTypes
  <2>4. receiver \in [alive : BOOLEAN, recording : BOOLEAN, at : Nat]
    BY <1>2
  <2> QED
    BY <1>1, <2>1, <2>2, <2>3, <2>4 DEF Types
<1>4. ~NoStats.known
  BY DEF NoStats
<1>5. Len(sampled) = 0
  BY <1>1
<1>6. Chronology
  BY <1>1, <1>4, <1>5 DEF Chronology, Before
<1>7. ASSUME NEW p \in Page PROVE Sound(page[p], down[p], backend.latest)
  <2>1. page[p] = NewPage /\ down[p] = << >> /\ Len(down[p]) = 0 /\ backend.latest = NoStats
    BY <1>1
  <2>2. NewPage.envelope = NoStats /\ ~NewPage.pending.waits /\ NewPage.delay = 500
    BY DEF NewPage, NotWaiting
  <2>3. Rising(NoStats, down[p], NoStats)
    BY <1>4, <2>1 DEF Rising, Before
  <2>4. down[p] \in Seq(Messages)
    BY <2>1
  <2> QED
    BY <2>1, <2>2, <2>3, <2>4, WaitingTypes DEF Sound
<1> QED
  BY <1>3, <1>6, <1>7 DEF IInv

-----------------------------------------------------------------------------
(* The steps.                                                              *)

\* Every wait that ends in this step ends as it may.
AllEnd == \A q \in Page : Ends(page[q], page'[q])

LEMMA Stays == ASSUME NEW r PROVE Ends(r, r)
BY DEF Ends

\* Steps that change one page, what is on its way to it, and commands.
LEMMA PageStep ==
    ASSUME IInv, NEW p \in Page, NEW s, NEW d, Sound(s, d, backend.latest),
           page' = [page EXCEPT ![p] = s], down' = [down EXCEPT ![p] = d],
           up' \in [Page -> Seq(BOOLEAN)],
           orphans' \in Seq(BOOLEAN), published' \in Seq(BOOLEAN),
           backend' \in [latest : Stats, fresh : BOOLEAN, push : BOOLEAN],
           backend'.latest = backend.latest, backend'.fresh = backend.fresh,
           UNCHANGED <<sampled, receiver, setup>>
    PROVE  /\ IInv'
           /\ Ends(page[p], s) => AllEnd
<1>1. page = [q \in Page |-> page[q]] /\ down = [q \in Page |-> down[q]]
  BY TypesOf
<1>2. ASSUME NEW q \in Page
      PROVE  /\ Sound(page'[q], down'[q], backend'.latest)
             /\ Ends(page[p], s) => Ends(page[q], page'[q])
  <2>1. CASE q = p
    <3>1. page'[q] = s /\ down'[q] = d
      BY <1>1, <2>1
    <3> QED
      BY <2>1, <3>1
  <2>2. CASE q # p
    <3>1. page'[q] = page[q] /\ down'[q] = down[q]
      BY <1>1, <2>2
    <3>2. Sound(page[q], down[q], backend.latest) /\ Ends(page[q], page[q])
      BY Stays DEF IInv
    <3> QED
      BY <3>1, <3>2
  <2> QED
    BY <2>1, <2>2
<1>3. Types'
  <2>1. page' = [q \in Page |-> page'[q]] /\ down' = [q \in Page |-> down'[q]]
    BY <1>1
  <2>2. setup' \in Setups /\ sampled' \in Seq(Stats)
        /\ receiver' \in [alive : BOOLEAN, recording : BOOLEAN, at : Nat]
    BY DEF IInv, Types
  <2> QED
    BY <2>1, <2>2 DEF Types
<1>4. Chronology'
  <2>1. Current' = Current
    BY DEF Current
  <2> QED
    BY <2>1 DEF IInv, Chronology
<1> QED
  BY <1>2, <1>3, <1>4 DEF IInv, AllEnd

\* Steps of a page that touch nothing but the page.
LEMMA PageOnly ==
    ASSUME IInv, NEW p \in Page, NEW s, Sound(s, down[p], backend.latest),
           page' = [page EXCEPT ![p] = s], Ends(page[p], s),
           UNCHANGED <<down, up, orphans, server, receiver, past, setup>>
    PROVE  IInv' /\ AllEnd
<1>1. down' = [down EXCEPT ![p] = down[p]]
  BY TypesOf
<1>2. /\ up' \in [Page -> Seq(BOOLEAN)]
      /\ orphans' \in Seq(BOOLEAN) /\ published' \in Seq(BOOLEAN)
      /\ backend' \in [latest : Stats, fresh : BOOLEAN, push : BOOLEAN]
      /\ backend'.latest = backend.latest /\ backend'.fresh = backend.fresh
      /\ UNCHANGED <<sampled, receiver, setup>>
  BY DEF IInv, Types, server
<1> QED
  BY <1>1, <1>2, PageStep

LEMMA RenderTimerStep ==
    ASSUME IInv, NEW p \in setup.pages, RenderTimer(p) PROVE IInv' /\ AllEnd
<1>1. p \in Page /\ Sound(page[p], down[p], backend.latest)
  BY TypesOf
<1>2. /\ page' = [page EXCEPT ![p] = Rendered(page[p])]
      /\ UNCHANGED <<down, up, orphans, server, receiver, past, setup>>
  BY DEF RenderTimer, Becomes
<1>3. Sound(Rendered(page[p]), down[p], backend.latest) /\ Ends(page[p], Rendered(page[p]))
  BY <1>1, RenderedSound, RenderedEnds
<1> QED
  BY <1>1, <1>2, <1>3, PageOnly

LEMMA DeadlineStep ==
    ASSUME IInv, NEW p \in setup.pages, DeadlinePasses(p) PROVE IInv' /\ AllEnd
<1> DEFINE r == page[p]
           s == [r EXCEPT !.pending.late = TRUE]
<1>1. p \in Page /\ Sound(r, down[p], backend.latest) /\ r \in PageState
  BY TypesOf
<1>2. /\ page' = [page EXCEPT ![p] = s]
      /\ UNCHANGED <<down, up, orphans, server, receiver, past, setup>>
  BY DEF DeadlinePasses
<1> HIDE DEF r
<1>3. /\ s \in PageState /\ s.envelope = r.envelope /\ s.link = r.link /\ s.delay = r.delay
      /\ s.pending.waits = r.pending.waits /\ s.pending.since = r.pending.since
      /\ s.pending.enabled = r.pending.enabled
  <2> DEFINE w == [r.pending EXCEPT !.late = TRUE]
  <2>1. r.pending \in Waiting
    BY <1>1 DEF PageState
  <2>2. /\ w \in Waiting /\ w.waits = r.pending.waits /\ w.since = r.pending.since
        /\ w.enabled = r.pending.enabled
    BY <2>1 DEF Waiting
  <2>3. s = [r EXCEPT !.pending = w]
    BY <1>1 DEF PageState
  <2> HIDE DEF w, s
  <2> QED
    BY <1>1, <2>2, <2>3 DEF PageState
<1> HIDE DEF s
<1>4. Clicked(s.pending) = Clicked(r.pending)
  BY <1>3 DEF Clicked
<1>5. Sound(s, down[p], backend.latest)
  BY <1>1, <1>3, <1>4 DEF Sound
<1>6. Ends(r, s)
  BY <1>3 DEF Ends
<1> QED
  BY <1>1, <1>2, <1>5, <1>6, PageOnly DEF r

LEMMA ConnectStep ==
    ASSUME IInv, NEW p \in setup.pages, Connect(p) PROVE IInv' /\ AllEnd
<1> DEFINE r == page[p]
           s == [r EXCEPT !.link = "connecting"]
<1>1. p \in Page /\ Sound(r, down[p], backend.latest) /\ r \in PageState
  BY TypesOf
<1>2. /\ page' = [page EXCEPT ![p] = s] /\ r.link = "wait"
      /\ UNCHANGED <<down, up, orphans, server, receiver, past, setup>>
  BY DEF Connect
<1> HIDE DEF r
<1>3. /\ s \in PageState /\ s.envelope = r.envelope /\ s.link = "connecting"
      /\ s.pending = r.pending
  BY <1>1 DEF PageState
<1> HIDE DEF s
<1>4. ~r.pending.waits
  BY <1>1, <1>2 DEF Sound
<1>5. Sound(s, down[p], backend.latest)
  BY <1>1, <1>3, <1>4 DEF Sound
<1>6. Ends(r, s)
  BY <1>3 DEF Ends
<1> QED
  BY <1>1, <1>2, <1>5, <1>6, PageOnly DEF r

\* The first message on a connection is what the backend has.
LEMMA OpensStep ==
    ASSUME IInv, NEW p \in setup.pages, Opens(p) PROVE IInv' /\ AllEnd
<1> DEFINE r == page[p]
           k == [r EXCEPT !.link = "open"]
           s == [k EXCEPT !.delay = 500]
           m == [kind |-> "stats", envelope |-> Envelope(backend)]
           b == backend.latest
<1>1. /\ p \in Page /\ Sound(r, down[p], b) /\ r \in PageState /\ r.envelope \in Stats
      /\ b \in Stats /\ backend.fresh \in BOOLEAN
  BY TypesOf
<1>2. /\ page' = [page EXCEPT ![p] = Rendered(s)] /\ r.link = "connecting"
      /\ down' = [down EXCEPT ![p] = <<m>>]
      /\ UNCHANGED <<up, orphans, server, receiver, past, setup>>
  BY DEF Opens, Becomes
<1>3. ~r.pending.waits
  BY <1>1, <1>2 DEF Sound
<1> HIDE DEF r
<1>4. k \in PageState /\ k.envelope = r.envelope /\ k.link = "open" /\ k.pending = r.pending
  BY <1>1 DEF PageState
<1> HIDE DEF k
<1>5. s \in PageState /\ s.envelope = r.envelope /\ s.delay = 500 /\ s.pending = r.pending
  BY <1>4 DEF PageState
<1>6. /\ Envelope(backend) \in Stats /\ Envelope(backend).known = b.known
      /\ Envelope(backend).at = b.at /\ Envelope(backend).recording = b.recording
  <2>1. Envelope(backend) = [b EXCEPT !.online = backend.fresh]
    BY DEF Envelope, Online
  <2> HIDE DEF b
  <2> QED
    BY <1>1, <2>1 DEF Stats
<1>7. <<m>> \in Seq(Messages) /\ Rising(r.envelope, <<m>>, b)
  <2> HIDE DEF m, b
  <2>1. << >> \in Seq(Messages) /\ Append(<< >>, m) = <<m>> /\ Len(<< >>) = 0
    OBVIOUS
  <2>2. Rising(r.envelope, << >>, b)
    BY <1>1, <2>1 DEF Sound, Rising
  <2>3. m = [kind |-> "stats", envelope |-> Envelope(backend)]
    BY DEF m
  <2>4. Append(<< >>, m) \in Seq(Messages) /\ Rising(r.envelope, Append(<< >>, m), b)
    BY <1>1, <1>6, <2>1, <2>2, <2>3, RisingSent
  <2> QED
    BY <2>1, <2>4
<1> HIDE DEF s, m
<1>8. Sound(s, <<m>>, b)
  BY <1>3, <1>5, <1>7 DEF Sound
<1>9. Sound(Rendered(s), <<m>>, b)
  BY <1>8, RenderedSound
<1>10. Ends(r, Rendered(s))
  BY <1>3 DEF Ends
<1>11. /\ up' \in [Page -> Seq(BOOLEAN)]
       /\ orphans' \in Seq(BOOLEAN) /\ published' \in Seq(BOOLEAN)
       /\ backend' \in [latest : Stats, fresh : BOOLEAN, push : BOOLEAN]
       /\ backend'.latest = backend.latest /\ backend'.fresh = backend.fresh
       /\ UNCHANGED <<sampled, receiver, setup>>
  BY <1>2 DEF IInv, Types, server
<1> QED
  BY <1>1, <1>2, <1>9, <1>10, <1>11, PageStep DEF r

\* The connection is lost, with everything that is on its way to the page.
LEMMA ClosesStep ==
    ASSUME IInv, NEW p \in setup.pages, Closes(p) PROVE IInv' /\ AllEnd
<1> DEFINE r == page[p]
           s == Closed(r)
           b == backend.latest
<1>1. /\ p \in Page /\ Sound(r, down[p], b) /\ r \in PageState
      /\ up \in [Page -> Seq(BOOLEAN)] /\ up[p] \in Seq(BOOLEAN)
  BY TypesOf
<1>2. /\ page' = [page EXCEPT ![p] = Rendered(s)]
      /\ down' = [down EXCEPT ![p] = << >>] /\ up' = [up EXCEPT ![p] = << >>]
      /\ \E k \in 0 .. Len(up[p]) : orphans' = orphans \o SubSeq(up[p], 1, k)
      /\ UNCHANGED <<server, receiver, setup>>
  BY DEF Closes, Becomes
<1>3. /\ s \in PageState /\ s.envelope = r.envelope /\ s.link = "wait"
      /\ s.pending = NotWaiting
  <2> DEFINE k == [r EXCEPT !.link = "wait"]
             l == [k EXCEPT !.pending = NotWaiting]
             n == Min({2 * r.delay, 5000})
  <2> HIDE DEF r
  <2>0. r \in PageState /\ r.delay \in {500, 1000, 2000, 4000, 5000}
    <3>1. r \in PageState
      BY <1>1
    <3> QED
      BY <3>1 DEF PageState
  <2>1. k \in PageState /\ k.envelope = r.envelope /\ k.link = "wait" /\ k.delay = r.delay
    BY <2>0 DEF PageState
  <2>2. s = [[[r EXCEPT !.link = "wait"] EXCEPT !.pending = NotWaiting] EXCEPT !.delay = n]
    BY DEF Closed
  <2>3. s = [l EXCEPT !.delay = n]
    BY <2>2
  <2> HIDE DEF k
  <2>4. l \in PageState /\ l.envelope = k.envelope /\ l.link = k.link /\ l.pending = NotWaiting
    BY <2>1, WaitingTypes DEF PageState
  <2>5. n \in {500, 1000, 2000, 4000, 5000}
    BY <2>0, DelayDoubled
  <2> HIDE DEF l, n, s
  <2> QED
    BY <2>1, <2>3, <2>4, <2>5 DEF PageState
<1>4. ~s.pending.waits
  BY <1>3, WaitingTypes
<1>5. Sound(s, << >>, b)
  <2>1. << >> \in Seq(Messages) /\ Len(<< >>) = 0
    OBVIOUS
  <2>2. Rising(r.envelope, << >>, b)
    BY <1>1, <2>1 DEF Sound, Rising
  <2> HIDE DEF s, b, r
  <2> QED
    BY <1>3, <1>4, <2>1, <2>2 DEF Sound
<1>6. Rendered(s) = s
  BY <1>3, <1>4, RenderedFacts
<1>7. Ends(r, Rendered(s))
  BY <1>3, <1>6 DEF Ends
<1>8. orphans' \in Seq(BOOLEAN)
  <2>1. PICK k \in 0 .. Len(up[p]) : orphans' = orphans \o SubSeq(up[p], 1, k)
    BY <1>2
  <2>2. orphans \in Seq(BOOLEAN) /\ Len(up[p]) \in Nat
    BY <1>1 DEF IInv, Types
  <2>3. \A i \in 1 .. k : up[p][i] \in BOOLEAN
    BY <1>1, <2>1, <2>2, ElementOfSeq
  <2>4. SubSeq(up[p], 1, k) \in Seq(BOOLEAN)
    BY <2>1, <2>2, <2>3, SubSeqProperties
  <2> QED
    BY <2>1, <2>2, <2>4, ConcatProperties
<1>9. up' \in [Page -> Seq(BOOLEAN)]
  BY <1>1, <1>2
<1>10. /\ published' \in Seq(BOOLEAN)
       /\ backend' \in [latest : Stats, fresh : BOOLEAN, push : BOOLEAN]
       /\ backend'.latest = backend.latest /\ backend'.fresh = backend.fresh
       /\ UNCHANGED <<sampled, receiver, setup>>
  BY <1>2 DEF IInv, Types, server
<1> HIDE DEF s
<1> QED
  BY <1>1, <1>2, <1>5, <1>6, <1>7, <1>8, <1>9, <1>10, PageStep

LEMMA MessageStep ==
    ASSUME IInv, NEW p \in setup.pages, Message(p) PROVE IInv' /\ AllEnd
<1> DEFINE r == page[p]
           s == Told(r, Head(down[p]))
           b == backend.latest
<1>1. /\ p \in Page /\ Sound(r, down[p], b) /\ r \in PageState /\ b \in Stats
      /\ down = [q \in Page |-> down[q]]
  BY TypesOf
<1>2. /\ page' = [page EXCEPT ![p] = Rendered(s)] /\ down[p] # << >>
      /\ down' = [down EXCEPT ![p] = Tail(down[p])]
      /\ UNCHANGED <<up, orphans, server, receiver, past, setup>>
  BY DEF Message, Becomes
<1>3. /\ Sound(s, Tail(down[p]), b)
      /\ s.pending = r.pending \/ (s.error # "none" /\ ~s.pending.waits)
  BY <1>1, <1>2, ToldSound
<1> HIDE DEF s
<1>4. Sound(Rendered(s), Tail(down[p]), b) /\ Ends(s, Rendered(s)) /\ s \in PageState
  <2>1. Sound(s, Tail(down[p]), b)
    BY <1>3
  <2>2. s \in PageState
    BY <2>1 DEF Sound
  <2> QED
    BY <2>1, <2>2, RenderedSound, RenderedEnds
<1>5. Ends(r, Rendered(s))
  <2>1. CASE s.pending = r.pending
    BY <1>4, <2>1 DEF Ends
  <2>2. CASE s.error # "none" /\ ~s.pending.waits
    <3>1. Rendered(s) = s
      BY <1>4, <2>2, RenderedFacts
    <3> QED
      BY <2>2, <3>1 DEF Ends
  <2> QED
    BY <1>3, <2>1, <2>2
<1>6. /\ up' \in [Page -> Seq(BOOLEAN)]
      /\ orphans' \in Seq(BOOLEAN) /\ published' \in Seq(BOOLEAN)
      /\ backend' \in [latest : Stats, fresh : BOOLEAN, push : BOOLEAN]
      /\ backend'.latest = backend.latest /\ backend'.fresh = backend.fresh
      /\ UNCHANGED <<sampled, receiver, setup>>
  BY <1>2 DEF IInv, Types, server
<1> QED
  BY <1>1, <1>2, <1>4, <1>5, <1>6, PageStep

\* The button is clicked while the page shows the receiver's state.
LEMMA ClickStep ==
    ASSUME IInv, NEW p \in setup.pages, Click(p) PROVE IInv' /\ AllEnd
<1> DEFINE r == page[p]
           w == [waits |-> TRUE, enabled |-> Wish(r), late |-> FALSE, since |-> r.envelope.at]
           k == [r EXCEPT !.error = "none"]
           s == [k EXCEPT !.pending = w]
           b == backend.latest
<1>1. /\ p \in Page /\ Sound(r, down[p], b) /\ r \in PageState /\ r.envelope \in Stats
      /\ up \in [Page -> Seq(BOOLEAN)] /\ up[p] \in Seq(BOOLEAN)
      /\ down = [q \in Page |-> down[q]]
  BY TypesOf
<1>2. /\ page' = [page EXCEPT ![p] = Rendered(s)]
      /\ r.link = "open" /\ r.envelope.known /\ ~r.pending.waits
      /\ up' = [up EXCEPT ![p] = Append(up[p], Wish(r))]
      /\ UNCHANGED <<down, orphans, server, receiver, setup>>
  BY <1>1 DEF Click, Becomes, Enabled
<1>3. w \in Waiting /\ Wish(r) \in BOOLEAN /\ Wish(r) = ~r.envelope.recording
  BY <1>1 DEF Waiting, Wish, Stats
<1>4. Before(Clicked(w), r.envelope) /\ w.waits
  <2>1. /\ Clicked(w).known = TRUE /\ Clicked(w).at = r.envelope.at
        /\ Clicked(w).recording = ~Wish(r)
    BY DEF Clicked
  <2>2. r.envelope.at \in Nat /\ r.envelope.recording \in BOOLEAN
    BY <1>1, Zenon DEF Stats
  <2>3. Clicked(w).recording = r.envelope.recording
    BY <1>3, <2>1, <2>2
  <2> HIDE DEF w, r
  <2>4. Before(Clicked(w), r.envelope)
    BY <1>2, <2>1, <2>2, <2>3 DEF Before
  <2>5. w.waits
    BY DEF w
  <2> QED
    BY <2>4, <2>5
<1> HIDE DEF r, w
<1>5. k \in PageState /\ k.envelope = r.envelope /\ k.link = r.link /\ k.delay = r.delay
  <2>1. r \in PageState
    BY <1>1
  <2> QED
    BY <2>1 DEF PageState
<1> HIDE DEF k
<1>6. s \in PageState /\ s.envelope = k.envelope /\ s.link = k.link /\ s.delay = k.delay
      /\ s.pending = w
  <2>1. k \in PageState /\ w \in Waiting
    BY <1>3, <1>5
  <2> QED
    BY <2>1 DEF PageState
<1> HIDE DEF s
<1>7. Sound(s, down[p], b)
  BY <1>1, <1>2, <1>4, <1>5, <1>6 DEF Sound
<1>8. Sound(Rendered(s), down[p], b)
  BY <1>7, RenderedSound
<1>9. Ends(r, Rendered(s))
  BY <1>2 DEF Ends
<1>10. up' \in [Page -> Seq(BOOLEAN)]
  <2>1. Append(up[p], Wish(r)) \in Seq(BOOLEAN)
    BY <1>1, <1>3, AppendProperties
  <2> QED
    BY <1>1, <1>2, <2>1
<1>11. /\ orphans' \in Seq(BOOLEAN) /\ published' \in Seq(BOOLEAN)
       /\ backend' \in [latest : Stats, fresh : BOOLEAN, push : BOOLEAN]
       /\ backend'.latest = backend.latest /\ backend'.fresh = backend.fresh
       /\ UNCHANGED <<sampled, receiver, setup>>
  BY <1>2 DEF IInv, Types, server
<1>12. down' = [down EXCEPT ![p] = down[p]]
  BY <1>1, <1>2
<1> QED
  BY <1>1, <1>2, <1>8, <1>9, <1>10, <1>11, <1>12, PageStep DEF r

\* A command is forwarded, dropped, or could not be sent.
LEMMA Forwarded ==
    ASSUME IInv, NEW c \in BOOLEAN, Forward(c) \/ SendFails
    PROVE  /\ published' \in Seq(BOOLEAN)
           /\ backend' \in [latest : Stats, fresh : BOOLEAN, push : BOOLEAN]
           /\ backend'.latest = backend.latest /\ backend'.fresh = backend.fresh
<1>1. published \in Seq(BOOLEAN) /\ backend \in [latest : Stats, fresh : BOOLEAN, push : BOOLEAN]
  BY DEF IInv, Types
<1>2. Append(published, c) \in Seq(BOOLEAN)
  BY <1>1, AppendProperties
<1> QED
  BY <1>1, <1>2 DEF Forward, SendFails

LEMMA CommandStep ==
    ASSUME IInv, NEW p \in setup.pages, Command(p) PROVE IInv' /\ AllEnd
<1> DEFINE r == page[p]
           b == backend.latest
<1>1. /\ p \in Page /\ Sound(r, down[p], b) /\ r \in PageState /\ r.envelope \in Stats /\ b \in Stats
      /\ up \in [Page -> Seq(BOOLEAN)] /\ up[p] \in Seq(BOOLEAN)
      /\ down = [q \in Page |-> down[q]] /\ page = [q \in Page |-> page[q]]
  BY TypesOf
<1>2. PICK m \in [kind : {"ok", "failed"}] :
        /\ Forward(Head(up[p])) \/ SendFails
        /\ down' = [down EXCEPT ![p] = Append(down[p], m)]
  <2>1. [kind |-> "ok"] \in [kind : {"ok", "failed"}] /\ [kind |-> "failed"] \in [kind : {"ok", "failed"}]
    OBVIOUS
  <2> QED
    BY <2>1 DEF Command
<1>3. /\ up[p] # << >> /\ up' = [up EXCEPT ![p] = Tail(up[p])]
      /\ UNCHANGED <<page, orphans, sampled, receiver, past, setup>>
  BY DEF Command
<1>4. Head(up[p]) \in BOOLEAN /\ Tail(up[p]) \in Seq(BOOLEAN)
  BY <1>1, <1>3, HeadTailProperties
<1>5. /\ published' \in Seq(BOOLEAN)
      /\ backend' \in [latest : Stats, fresh : BOOLEAN, push : BOOLEAN]
      /\ backend'.latest = backend.latest /\ backend'.fresh = backend.fresh
  BY <1>2, <1>4, Forwarded
<1>6. Append(down[p], m) \in Seq(Messages) /\ Rising(r.envelope, Append(down[p], m), b)
  <2>1. down[p] \in Seq(Messages) /\ Rising(r.envelope, down[p], b)
    BY <1>1 DEF Sound
  <2> QED
    BY <1>1, <1>2, <2>1, RisingAnswered
<1>7. Sound(r, Append(down[p], m), b)
  BY <1>1, <1>6 DEF Sound
<1>8. page' = [page EXCEPT ![p] = r]
  BY <1>1, <1>3
<1>9. up' \in [Page -> Seq(BOOLEAN)]
  BY <1>1, <1>3, <1>4
<1>10. orphans' \in Seq(BOOLEAN) /\ UNCHANGED <<sampled, receiver, setup>>
  BY <1>3 DEF IInv, Types
<1>11. Ends(r, r)
  BY Stays
<1> QED
  BY <1>1, <1>2, <1>5, <1>7, <1>8, <1>9, <1>10, <1>11, PageStep

\* Steps that leave the pages alone.  What the backend has is not older than it
\* was, and what is on the way to a page is at most followed by it.
LEMMA ServerStep ==
    ASSUME IInv, Types', Chronology', UNCHANGED page,
           Before(backend.latest, backend'.latest),
           \A q \in Page :
              \/ down'[q] = down[q]
              \/ \E c \in Stats :
                    /\ c.known = backend'.latest.known /\ c.at = backend'.latest.at
                    /\ c.recording = backend'.latest.recording
                    /\ down'[q] = Append(down[q], [kind |-> "stats", envelope |-> c])
    PROVE  IInv' /\ AllEnd
<1> DEFINE b == backend.latest
           n == backend'.latest
<1>1. b \in Stats /\ n \in Stats
  BY DEF IInv, Types
<1> HIDE DEF b, n
<1>2. ASSUME NEW q \in Page PROVE Sound(page'[q], down'[q], n)
  <2> DEFINE r == page[q]
             d == down[q]
  <2>1. /\ Sound(r, d, b) /\ r \in PageState /\ r.envelope \in Stats /\ d \in Seq(Messages)
        /\ page'[q] = r
    BY TypesOf DEF b
  <2> HIDE DEF r
  <2>2. Rising(r.envelope, d, n)
    <3>1. Rising(r.envelope, d, b) /\ Before(b, n)
      BY <2>1 DEF Sound, b, n
    <3> QED
      BY <1>1, <2>1, <3>1, RisingLater
  <2>3. Sound(r, d, n)
    BY <2>1, <2>2 DEF Sound
  <2>4. CASE down'[q] = d
    BY <2>1, <2>3, <2>4
  <2>5. CASE \E c \in Stats :
                /\ c.known = n.known /\ c.at = n.at /\ c.recording = n.recording
                /\ down'[q] = Append(d, [kind |-> "stats", envelope |-> c])
    <3>1. PICK c \in Stats :
                /\ c.known = n.known /\ c.at = n.at /\ c.recording = n.recording
                /\ down'[q] = Append(d, [kind |-> "stats", envelope |-> c])
      BY <2>5
    <3> DEFINE m == [kind |-> "stats", envelope |-> c]
    <3>2. m = [kind |-> "stats", envelope |-> c]
      OBVIOUS
    <3> HIDE DEF m
    <3>3. Append(d, m) \in Seq(Messages) /\ Rising(r.envelope, Append(d, m), n)
      <4> HIDE DEF d
      <4> QED
        BY <1>1, <2>1, <2>2, <3>1, <3>2, RisingSent
    <3>4. down'[q] = Append(d, m)
      BY <3>1, <3>2
    <3>5. Sound(r, Append(d, m), n)
      BY <2>3, <3>3 DEF Sound
    <3> QED
      BY <2>1, <3>4, <3>5
  <2> QED
    BY <2>4, <2>5 DEF n
<1>3. AllEnd
  BY Stays DEF AllEnd
<1> QED
  BY <1>2, <1>3 DEF IInv, n

\* Steps that leave down and the statistics of the backend alone as well.
LEMMA ReceiverStep ==
    ASSUME IInv, Types', Chronology', UNCHANGED <<page, down>>, backend'.latest = backend.latest
    PROVE  IInv' /\ AllEnd
<1>1. Before(backend.latest, backend'.latest)
  BY BeforeSame, TypesOf
<1> QED
  BY <1>1, ServerStep

LEMMA OrphanStep == ASSUME IInv, OrphanCommand PROVE IInv' /\ AllEnd
<1>1. /\ orphans # << >> /\ orphans' = Tail(orphans)
      /\ Forward(Head(orphans)) \/ SendFails
      /\ UNCHANGED <<page, down, up, sampled, receiver, past, setup>>
  BY DEF OrphanCommand
<1>2. orphans \in Seq(BOOLEAN)
  BY DEF IInv, Types
<1>3. Head(orphans) \in BOOLEAN /\ Tail(orphans) \in Seq(BOOLEAN)
  BY <1>1, <1>2, HeadTailProperties
<1>4. /\ published' \in Seq(BOOLEAN)
      /\ backend' \in [latest : Stats, fresh : BOOLEAN, push : BOOLEAN]
      /\ backend'.latest = backend.latest /\ backend'.fresh = backend.fresh
  BY <1>1, <1>3, Forwarded
<1>5. Types'
  BY <1>1, <1>3, <1>4 DEF IInv, Types
<1>6. Current' = Current
  BY <1>1 DEF Current
<1>7. Chronology'
  BY <1>1, <1>4, <1>6 DEF IInv, Chronology
<1> QED
  BY <1>1, <1>4, <1>5, <1>7, ReceiverStep

\* broadcast_stats() sends what the backend b has, or nothing.
LEMMA BroadcastSends ==
    ASSUME NEW b, b \in [latest : Stats, fresh : BOOLEAN, push : BOOLEAN],
           NEW q \in Page
    PROVE  \/ Broadcast(b)[q] = down[q]
           \/ \E c \in Stats :
                 /\ c.known = b.latest.known /\ c.at = b.latest.at
                 /\ c.recording = b.latest.recording
                 /\ Broadcast(b)[q] = Append(down[q], [kind |-> "stats", envelope |-> c])
<1> DEFINE c == Envelope(b)
           l == b.latest
<1>1. l \in Stats /\ b.fresh \in BOOLEAN
  OBVIOUS
<1>2. c = [l EXCEPT !.online = b.fresh]
  BY DEF Envelope, Online
<1> HIDE DEF c, l
<1>3. c \in Stats /\ c.known = l.known /\ c.at = l.at /\ c.recording = l.recording
  BY <1>1, <1>2 DEF Stats
<1>4. \/ Broadcast(b)[q] = down[q]
      \/ Broadcast(b)[q] = Append(down[q], [kind |-> "stats", envelope |-> c])
  BY DEF Broadcast, c
<1> QED
  BY <1>3, <1>4 DEF l

LEMMA DrainStep == ASSUME IInv, Drain PROVE IInv' /\ AllEnd
<1>1. /\ sampled # << >> /\ sampled' = Tail(sampled)
      /\ backend' = [latest |-> Head(sampled), fresh |-> TRUE, push |-> FALSE]
      /\ down' = Broadcast(backend') \/ down' = down
      /\ UNCHANGED <<page, up, orphans, published, receiver, past, setup>>
  BY DEF Drain
<1>2. sampled \in Seq(Stats) /\ Len(sampled) <= 1
  BY DEF IInv, Types, Chronology
<1>3. /\ Head(sampled) = sampled[1] /\ sampled[1] \in Stats /\ 1 \in 1 .. Len(sampled)
      /\ Tail(sampled) \in Seq(Stats) /\ Len(Tail(sampled)) = 0
  <2>1. Len(sampled) \in Nat /\ Len(sampled) # 0
    BY <1>1, <1>2, EmptySeq, LenProperties
  <2>2. Len(sampled) = 1
    <3>1. \A n \in Nat : n # 0 /\ n <= 1 => n = 1
      OBVIOUS
    <3>2. Len(sampled) <= 1
      BY <1>2
    <3> QED
      BY <2>1, <3>1, <3>2, Zenon
  <2>3. /\ Head(sampled) = sampled[1] /\ Head(sampled) \in Stats
        /\ Tail(sampled) \in Seq(Stats) /\ Len(Tail(sampled)) = Len(sampled) - 1
    BY <1>1, <1>2, HeadTailProperties
  <2> QED
    BY <2>2, <2>3
<1>4. /\ sampled[1].known /\ Before(backend.latest, sampled[1])
      /\ Before(sampled[1], Current)
  BY <1>3 DEF IInv, Chronology
<1>5. backend' \in [latest : Stats, fresh : BOOLEAN, push : BOOLEAN]
      /\ backend'.latest = sampled[1]
  BY <1>1, <1>3
<1>6. Types'
  <2>1. page' = [p \in Page |-> page'[p]] /\ down = [p \in Page |-> down[p]]
    BY <1>1 DEF IInv, Types
  <2>2. down' = [p \in Page |-> down'[p]]
    BY <1>1, <2>1 DEF Broadcast
  <2>3. /\ setup' \in Setups /\ up' \in [Page -> Seq(BOOLEAN)]
        /\ orphans' \in Seq(BOOLEAN) /\ published' \in Seq(BOOLEAN)
        /\ receiver' \in [alive : BOOLEAN, recording : BOOLEAN, at : Nat]
    BY <1>1 DEF IInv, Types
  <2>4. sampled' \in Seq(Stats)
    BY <1>1, <1>3
  <2> QED
    BY <1>5, <2>1, <2>2, <2>3, <2>4 DEF Types
<1>7. Chronology'
  <2>1. Current' = Current /\ Len(sampled') = 0
    BY <1>1, <1>3 DEF Current
  <2> QED
    BY <1>4, <1>5, <2>1 DEF Chronology
<1>8. ASSUME NEW q \in Page
      PROVE  \/ down'[q] = down[q]
             \/ \E c \in Stats :
                    /\ c.known = backend'.latest.known /\ c.at = backend'.latest.at
                    /\ c.recording = backend'.latest.recording
                    /\ down'[q] = Append(down[q], [kind |-> "stats", envelope |-> c])
  <2>1. CASE down' = down
    BY <2>1
  <2>2. CASE down' = Broadcast(backend')
    BY <1>5, <2>2, BroadcastSends
  <2> QED
    BY <1>1, <2>1, <2>2
<1> QED
  BY <1>1, <1>4, <1>5, <1>6, <1>7, <1>8, ServerStep

LEMMA UpdateStep == ASSUME IInv, Update PROVE IInv' /\ AllEnd
<1>1. /\ down' = Broadcast(backend)
      /\ UNCHANGED <<page, up, orphans, server, receiver, past, setup>>
  BY DEF Update
<1>2. UNCHANGED <<backend, published, sampled>>
  BY <1>1 DEF server
<1>3. backend \in [latest : Stats, fresh : BOOLEAN, push : BOOLEAN]
  BY DEF IInv, Types
<1>4. Types'
  <2>1. down' = [p \in Page |-> down'[p]]
    BY <1>1 DEF Broadcast
  <2> QED
    BY <1>1, <1>2, <2>1 DEF IInv, Types
<1>5. Chronology'
  <2>1. Current' = Current
    BY <1>1 DEF Current
  <2> QED
    BY <1>2, <2>1 DEF IInv, Chronology
<1>6. \A q \in Page :
         \/ down'[q] = down[q]
         \/ \E c \in Stats :
               /\ c.known = backend'.latest.known /\ c.at = backend'.latest.at
               /\ c.recording = backend'.latest.recording
               /\ down'[q] = Append(down[q], [kind |-> "stats", envelope |-> c])
  BY <1>1, <1>2, <1>3, BroadcastSends
<1>7. Before(backend.latest, backend'.latest)
  BY <1>2, BeforeSame, TypesOf
<1> QED
  BY <1>1, <1>4, <1>5, <1>6, <1>7, ServerStep

LEMMA StaleStep == ASSUME IInv, GoesStale PROVE IInv' /\ AllEnd
<1>1. /\ backend' = [backend EXCEPT !.fresh = FALSE]
      /\ UNCHANGED <<connection, published, sampled, receiver, past, setup>>
  BY DEF GoesStale
<1>2. UNCHANGED <<page, down, up, orphans>>
  BY <1>1 DEF connection
<1>3. /\ backend' \in [latest : Stats, fresh : BOOLEAN, push : BOOLEAN]
      /\ backend'.latest = backend.latest /\ backend'.fresh = FALSE
  BY <1>1 DEF IInv, Types
<1>4. Types'
  BY <1>1, <1>2, <1>3 DEF IInv, Types
<1>5. Current' = Current
  BY <1>1 DEF Current
<1>6. Chronology'
  BY <1>1, <1>3, <1>5 DEF IInv, Chronology
<1> QED
  BY <1>2, <1>3, <1>4, <1>6, ReceiverStep

\* The receiver carries a command out, or starts again: a change of its own.
LEMMA ChangeStep ==
    ASSUME IInv, receiver' \in [alive : BOOLEAN, recording : BOOLEAN, at : Nat],
           receiver'.at = receiver.at + 1, published' \in Seq(BOOLEAN),
           UNCHANGED <<connection, backend, sampled, setup>>
    PROVE  IInv' /\ AllEnd
<1>1. UNCHANGED <<page, down, up, orphans>>
  BY DEF connection
<1>2. Types'
  BY <1>1 DEF IInv, Types
<1>3. Current \in Stats /\ Current' \in Stats
  BY DEF IInv, Types, Current, Stats
<1>4. Before(Current, Current')
  <2>1. Current.at < Current'.at /\ Current.at <= Current'.at /\ Current'.known
    BY DEF IInv, Types, Current
  <2>2. Current.at # Current'.at
    BY DEF IInv, Types, Current
  <2> HIDE DEF Current
  <2> QED
    BY <2>1, <2>2 DEF Before
<1>5. Chronology'
  <2>1. Before(backend.latest, Current')
    <3>1. Before(backend.latest, Current) /\ backend.latest \in Stats
      BY TypesOf DEF IInv, Chronology
    <3> HIDE DEF Current
    <3> QED
      BY <1>3, <1>4, <3>1, BeforeTransitive
  <2>2. ASSUME NEW i \in 1 .. Len(sampled) PROVE Before(sampled[i], Current')
    <3>1. sampled[i] \in Stats
      BY ElementOfSeq DEF IInv, Types
    <3>2. Before(sampled[i], Current)
      BY DEF IInv, Chronology
    <3> HIDE DEF Current
    <3> QED
      BY <1>3, <1>4, <3>1, <3>2, BeforeTransitive
  <2> HIDE DEF Current
  <2> QED
    BY <2>1, <2>2 DEF IInv, Chronology
<1> QED
  BY <1>1, <1>2, <1>5, ReceiverStep

LEMMA TakeStep == ASSUME IInv, Take PROVE IInv' /\ AllEnd
<1>1. published # << >> /\ published' = Tail(published) /\ published \in Seq(BOOLEAN)
  BY DEF Take, IInv, Types
<1>2. published' \in Seq(BOOLEAN) /\ Head(published) \in BOOLEAN
  BY <1>1, HeadTailProperties
<1>3. /\ receiver' \in [alive : BOOLEAN, recording : BOOLEAN, at : Nat]
      /\ receiver'.at = receiver.at + 1
  <2>1. receiver \in [alive : BOOLEAN, recording : BOOLEAN, at : Nat]
    BY DEF IInv, Types
  <2>2. receiver.at \in Nat /\ receiver.recording \in BOOLEAN /\ Head(published) \in BOOLEAN
    BY <1>2, <2>1
  <2>3. \E recording \in BOOLEAN :
           receiver' = [receiver EXCEPT !.recording = recording, !.at = receiver.at + 1]
    <3>1. {Head(published), Head(published) /\ receiver.recording} \subseteq BOOLEAN
      BY <2>2
    <3>2. \E recording \in {Head(published), Head(published) /\ receiver.recording} :
             receiver' = [receiver EXCEPT !.recording = recording, !.at = receiver.at + 1]
      BY <2>1 DEF Take
    <3> QED
      BY <3>1, <3>2, Zenon
  <2>4. PICK recording \in BOOLEAN :
           receiver' = [receiver EXCEPT !.recording = recording, !.at = receiver.at + 1]
    BY <2>3
  <2>5. receiver' = [alive |-> receiver.alive, recording |-> recording, at |-> receiver.at + 1]
    BY <2>1, <2>4
  <2>6. receiver.at + 1 \in Nat /\ receiver.alive \in BOOLEAN
    BY <2>1, <2>2
  <2>7. receiver' \in [alive : BOOLEAN, recording : BOOLEAN, at : Nat]
    BY <2>5, <2>6, Zenon
  <2>8. receiver'.at = receiver.at + 1
    BY <2>5
  <2> QED
    BY <2>7, <2>8
<1>4. UNCHANGED <<connection, backend, sampled, setup>>
  BY DEF Take
<1> QED
  BY <1>2, <1>3, <1>4, ChangeStep

LEMMA RestartStep == ASSUME IInv, Restart PROVE IInv' /\ AllEnd
<1>1. /\ receiver' \in [alive : BOOLEAN, recording : BOOLEAN, at : Nat]
      /\ receiver'.at = receiver.at + 1
  BY DEF Restart, IInv, Types
<1>2. published' \in Seq(BOOLEAN) /\ UNCHANGED <<connection, backend, sampled, setup>>
  BY DEF Restart, IInv, Types, server
<1> QED
  BY <1>1, <1>2, ChangeStep

LEMMA SampleStep == ASSUME IInv, Sample PROVE IInv' /\ AllEnd
<1> DEFINE x == [known |-> TRUE, online |-> TRUE,
                 recording |-> receiver.recording, at |-> receiver.at]
<1>1. sampled' = <<x>> /\ UNCHANGED <<connection, backend, published, receiver, past, setup>>
  BY DEF Sample
<1>2. UNCHANGED <<page, down, up, orphans>>
  BY <1>1 DEF connection
<1>3. x \in Stats /\ x = Current /\ x.known
  BY DEF IInv, Types, Stats, Current
<1>4. Types'
  BY <1>1, <1>2, <1>3 DEF IInv, Types
<1> HIDE DEF x
<1>5. Chronology'
  <2>1. Current' = Current /\ Len(sampled') = 1 /\ sampled'[1] = x
    BY <1>1 DEF Current
  <2>2. Before(x, Current)
    BY <1>3, BeforeSame
  <2>3. Before(backend.latest, x)
    BY <1>3 DEF IInv, Chronology
  <2>4. \A i \in 1 .. Len(sampled') : i = 1
    BY <2>1
  <2>5. (backend.fresh => backend.latest.known) /\ Before(backend.latest, Current)
    BY DEF IInv, Chronology
  <2> QED
    BY <1>1, <1>3, <2>1, <2>2, <2>3, <2>4, <2>5 DEF Chronology
<1> QED
  BY <1>1, <1>2, <1>4, <1>5, ReceiverStep

LEMMA CrashStep == ASSUME IInv, Crash PROVE IInv' /\ AllEnd
<1>1. /\ receiver' = [receiver EXCEPT !.alive = FALSE] /\ published' = << >>
      /\ UNCHANGED <<connection, backend, sampled, setup>>
  BY DEF Crash
<1>2. UNCHANGED <<page, down, up, orphans>>
  BY <1>1 DEF connection
<1>3. receiver' \in [alive : BOOLEAN, recording : BOOLEAN, at : Nat]
      /\ receiver'.at = receiver.at /\ receiver'.recording = receiver.recording
  BY <1>1 DEF IInv, Types
<1>4. Types'
  BY <1>1, <1>2, <1>3 DEF IInv, Types
<1>5. Current' = Current
  BY <1>3 DEF Current
<1>6. Chronology'
  BY <1>1, <1>5 DEF IInv, Chronology
<1> QED
  BY <1>1, <1>2, <1>4, <1>6, ReceiverStep

-----------------------------------------------------------------------------
(* Theorems.                                                               *)

LEMMA AnyStep == ASSUME IInv, [Next]_vars PROVE IInv' /\ AllEnd
<1>1. CASE UNCHANGED vars
  <2>1. /\ UNCHANGED <<page, down, up, orphans, backend, published, sampled>>
        /\ UNCHANGED <<receiver, past, setup>>
    BY <1>1 DEF vars, connection, server
  <2>2. Types'
    BY <2>1 DEF IInv, Types
  <2>3. Current' = Current
    BY <2>1 DEF Current
  <2>4. Chronology'
    BY <2>1, <2>3 DEF IInv, Chronology
  <2> QED
    BY <2>1, <2>2, <2>4, ReceiverStep
<1>2. ASSUME NEW p \in setup.pages, Browser(p) PROVE IInv' /\ AllEnd
  BY <1>2, RenderTimerStep, DeadlineStep, ConnectStep, OpensStep, ClosesStep, MessageStep,
     ClickStep DEF Browser
<1>3. ASSUME NEW p \in setup.pages, Command(p) PROVE IInv' /\ AllEnd
  BY <1>3, CommandStep
<1>4. CASE OrphanCommand \/ Drain \/ Update \/ GoesStale
  BY <1>4, OrphanStep, DrainStep, UpdateStep, StaleStep
<1>5. CASE Take \/ Sample \/ Crash \/ Restart
  BY <1>5, TakeStep, SampleStep, CrashStep, RestartStep
<1> QED
  BY <1>1, <1>2, <1>3, <1>4, <1>5 DEF Next

\* Statistics reach a page in the order in which they were taken, and what it
\* showed at a click was taken before what it shows now.
THEOREM PageInvariant == Spec => []IInv
<1>1. IInv /\ [Next]_vars => IInv'
  BY AnyStep
<1> QED
  BY <1>1, IInvInit, PTL DEF Spec

\* A page waits only on an open connection, and its delay is one of the values
\* doubling and the bound lead to, the first on an open connection.
THEOREM PageTypes == Spec => []TypeOK
<1>1. IInv => TypeOK
  <2> SUFFICES ASSUME IInv PROVE TypeOK
    OBVIOUS
  <2>1. ASSUME NEW p \in Page
        PROVE  /\ page[p].link \in {"wait", "connecting", "open"}
               /\ page[p].delay \in {500, 1000, 2000, 4000, 5000}
               /\ page[p].error \in {"none", "unconfirmed", "failed"}
               /\ page[p].pending.waits => page[p].link = "open"
               /\ page[p].link = "open" => page[p].delay = 500
    <3>1. Sound(page[p], down[p], backend.latest)
      BY DEF IInv
    <3>2. page[p] \in PageState
      BY <3>1 DEF Sound
    <3>3. /\ page[p].link \in {"wait", "connecting", "open"}
          /\ page[p].delay \in {500, 1000, 2000, 4000, 5000}
          /\ page[p].error \in {"none", "unconfirmed", "failed"}
      BY <3>2 DEF PageState
    <3> QED
      BY <3>1, <3>3 DEF Sound
  <2>2. /\ published \in Seq(BOOLEAN) /\ orphans \in Seq(BOOLEAN)
        /\ backend.fresh => backend.latest.known
    BY DEF IInv, Types, Chronology
  <2> QED
    BY <2>1, <2>2 DEF TypeOK
<1> QED
  BY <1>1, PageInvariant, PTL

\* However connections are lost and the receiver crashes and returns, a wait for
\* a command ends by the loss of the connection, by an error that shows, or by the
\* state asked for, in statistics taken after a change of the receiver later than
\* those the page showed at the click; that change may be another page's doing.
THEOREM WaitsEndByAnswer == Spec => WaitEndsByAnswer
<1> DEFINE A == \A p \in Page :
         page[p].pending.waits /\ ~page'[p].pending.waits =>
             \/ page'[p].link # "open"
             \/ page'[p].error # "none"
             \/ /\ page'[p].envelope.recording = page[p].pending.enabled
                /\ page'[p].envelope.at > page[p].pending.since
<1>1. IInv /\ [Next]_vars => [A]_vars
  BY AnyStep DEF AllEnd, Ends
<1>2. WaitEndsByAnswer <=> [][A]_vars
  BY DEF WaitEndsByAnswer
<1> HIDE DEF A
<1> QED
  BY <1>1, <1>2, PageInvariant, PTL DEF Spec

=============================================================================
