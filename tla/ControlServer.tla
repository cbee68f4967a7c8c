---------------------------- MODULE ControlServer ----------------------------
(***************************************************************************)
(* The backend of the control tool (tools/ctl/backend/control_server.cpp): *)
(* one thread polls the receiver's statistics, the listening socket and    *)
(* every connection.  It answers HTTP requests, turns connections into     *)
(* WebSockets, forwards the browsers' commands and pushes statistics.      *)
(*                                                                         *)
(* todo is what is left of the current poll_once(), one element per call.  *)
(* What the others have done shows when a call looks at it: what a call to *)
(* recv(), send(), accept() or zmq_recv() finds is chosen there.           *)
(*                                                                         *)
(* Bytes are abstracted to whole requests, frames and responses; one that  *)
(* is partly received or sent counts as not yet received or sent.  A       *)
(* statistics message is the number of commands the receiver had carried   *)
(* out when it took it; the receiver does not restart.                     *)
(***************************************************************************)
EXTENDS Selection, SequencesExt, Functions

CONSTANTS
    Conn,        \* connections that peers may open
    Setups,      \* what the peers may send, a sequence per connection, with
                 \* max_clients and kMaxOutputBacklog, in frames
    MaxMessage,  \* kMaxWsMessage
    MaxControl   \* longest payload of a control frame

ASSUME ControlAssumption ==
    /\ IsFiniteSet(Conn)
    /\ \A s \in Setups : /\ DOMAIN s.script = Conn
                         /\ s.limits.maxClients \in Nat \ {0}
                         /\ s.limits.maxBacklog \in Nat
    /\ MaxMessage \in Nat /\ MaxControl \in Nat

\* Peers send sequences of requests and frames; frames carry sequences.
ASSUME ScriptAssumption ==
    \A s \in Setups, c \in Conn :
        /\ s.script[c] \in Seq(ToSet(s.script[c]))
        /\ \A x \in ToSet(s.script[c]) :
              x.op \in {"text", "continuation", "ping", "pong", "close"}
                 => x.payload \in Seq(ToSet(x.payload))

VARIABLES
    script,    \* what the peer of each connection sends
    limits,    \* cfg_.max_clients and kMaxOutputBacklog
    taken,     \* how much of it the server has received
    left,      \* connections ended by the peer
    got,       \* what a peer was sent; the same statistics repeated count once
    published, \* commands handed to the PUB socket, with their connection
    accepted,  \* connections that were accepted
    clients,   \* clients_: the connections, in order of acceptance
    client,    \* per connection, its Client
    latest,    \* latest_stats_
    push,      \* push_on_next_stats_
    todo,      \* the rest of poll_once()
    running    \* run() has not returned

network == <<script, limits, taken, left, got, accepted>>
vars == <<network, published, clients, client, latest, push, todo, running>>

NoStats == -1

NewClient ==
    [websocket |-> FALSE, closing |-> FALSE, dead |-> FALSE,
     in |-> << >>, out |-> << >>, message |-> << >>, inMessage |-> FALSE]

Response(status) == [kind |-> "response", status |-> status]
Result(command, ok) == [kind |-> "result", command |-> command, ok |-> ok]
Stats == [kind |-> "stats", latest |-> latest]
Pong == [kind |-> "pong"]
Close == [kind |-> "close"]
\* The response 101 and the message hello are one item.
Hello == [kind |-> "hello"]
Handshake == <<Hello, Stats>>

Call(f, c) == [do |-> f, conn |-> c]
Now(f) == running /\ todo # << >> /\ Head(todo).do = f
At == Head(todo).conn
Done == todo' = Tail(todo)

-----------------------------------------------------------------------------
(* poll_once()                                                             *)

ClientCalls(c) ==
    <<Call("read", c)>> \o (IF client[c].out # << >> THEN <<Call("write", c)>> ELSE << >>)

\* The calls that serve what is readable and writable, in the order of the code.
Poll ==
    /\ running /\ todo = << >>
    /\ todo' = <<[do |-> "stats"]>>
               \o FlattenSeq([i \in 1 .. Len(clients) |-> ClientCalls(clients[i])])
               \o <<[do |-> "accept"], [do |-> "update"]>>
    /\ UNCHANGED <<network, published, clients, client, latest, push, running>>

\* The poll did not report what the next call serves.
NotReady ==
    /\ Now("stats") \/ Now("read") \/ Now("write") \/ Now("accept")
    /\ Done
    /\ UNCHANGED <<network, published, clients, client, latest, push, running>>

-----------------------------------------------------------------------------
(* Statistics                                                              *)

\* Faults: statistics go to connections that are no WebSocket yet, to ones
\* that are about to close, to ones whose queue is long.
TakesStatsFault1(r) == ~r.dead /\ ~r.closing /\ Len(r.out) <= limits.maxBacklog
TakesStatsFault2(r) == r.websocket /\ ~r.dead /\ Len(r.out) <= limits.maxBacklog
TakesStatsFault3(r) == r.websocket /\ ~r.dead /\ ~r.closing
TakesStats(r) == r.websocket /\ ~r.dead /\ ~r.closing /\ Len(r.out) <= limits.maxBacklog

\* broadcast_stats() of statistics s to the connections in f.
\* Fault: a connection that is no WebSocket ends the loop.
Reached(f, i) == \A j \in 1 .. i : f[clients[j]].websocket
BroadcastFault(f, s) ==
    [c \in Conn |->
        IF (\E i \in 1 .. Len(clients) : clients[i] = c /\ Reached(f, i)) /\ TakesStats(f[c])
          THEN [f[c] EXCEPT !.out = Append(@, [kind |-> "stats", latest |-> s])]
          ELSE f[c]]
Broadcast(f, s) ==
    [c \in Conn |->
        IF c \in ToSet(clients) /\ TakesStats(f[c])
          THEN [f[c] EXCEPT !.out = Append(@, [kind |-> "stats", latest |-> s])]
          ELSE f[c]]

\* drain_stats() ends with the newest valid message there is.  It may be taken
\* before commands sent since, but not before those received earlier.  With no
\* valid one nothing happens, as in NotReady.
DrainStats(s) ==
    /\ Now("stats")
    /\ latest <= s
    /\ latest' = s
    /\ push' = FALSE
    /\ client' = IF push THEN Broadcast(client, s) ELSE client
    /\ Done
    /\ UNCHANGED <<network, published, clients, running>>

\* The update every update_interval_ms, if its time has come, and then what is
\* left to write for every connection.
FlushAll == [i \in 1 .. Len(clients) |-> Call("write", clients[i])] \o <<[do |-> "erase"]>>

Update ==
    /\ Now("update")
    /\ client' = Broadcast(client, latest)
    /\ todo' = FlushAll
    /\ UNCHANGED <<network, published, clients, latest, push, running>>

NoUpdate ==
    /\ Now("update")
    /\ todo' = FlushAll
    /\ UNCHANGED <<network, published, clients, client, latest, push, running>>

-----------------------------------------------------------------------------
(* read_client() and the handlers                                          *)

\* Receive all there is, n requests or frames.
Read(n) ==
    /\ Now("read")
    /\ taken[At] + n <= Len(script[At])
    /\ taken' = [taken EXCEPT ![At] = @ + n]
    /\ IF client[At].closing
         THEN UNCHANGED client /\ Done
         ELSE /\ client' = [client EXCEPT ![At].in =
                              @ \o SubSeq(script[At], taken[At] + 1, taken[At] + n)]
              /\ todo' = <<Call("handle", At)>> \o Tail(todo)
    /\ UNCHANGED <<script, limits, left, got, accepted, published, clients, latest, push, running>>

\* The end of the stream, or an error: what was received with it is not handled.
ReadEnds ==
    /\ Now("read")
    /\ left' = left \cup {At}
    /\ client' = [client EXCEPT ![At].dead = TRUE]
    /\ Done
    /\ UNCHANGED <<script, limits, taken, got, accepted, published, clients, latest, push, running>>

\* The handler of connection At sees its next input.
Handling == Now("handle") /\ client[At].in # << >> /\ ~client[At].closing
Input == Head(client[At].in)
Handled(r) == client' = [client EXCEPT ![At] = [r EXCEPT !.in = Tail(@)]]
Answer(r, items) == [r EXCEPT !.out = @ \o items]
AnswerAndClose(r, items) == [Answer(r, items) EXCEPT !.closing = TRUE]

HandlerDone ==
    /\ Now("handle")
    /\ client[At].in = << >> \/ client[At].closing
    /\ Done
    /\ UNCHANGED <<network, published, clients, client, latest, push, running>>

\* A request is what the parser and the tests of upgrade_websocket() make of it:
\* the status of its response, or "upgrade".
Outcome(request) == request.op
Upgrades(request) == Outcome(request) = "upgrade"

\* handle_http() and serve_http(): one response, then the connection ends.
HandleHttp ==
    /\ Handling /\ ~client[At].websocket
    /\ ~Upgrades(Input)
    /\ Handled(AnswerAndClose(client[At], <<Response(Outcome(Input))>>))
    /\ UNCHANGED <<network, published, clients, latest, push, todo, running>>

\* Frames that arrived behind the request are handled at once.
UpgradeWebSocket ==
    /\ Handling /\ ~client[At].websocket
    /\ Upgrades(Input)
    /\ Handled([Answer(client[At], Handshake) EXCEPT !.websocket = TRUE])
    /\ UNCHANGED <<network, published, clients, latest, push, todo, running>>

\* ws_parse_frame(): a frame, or the reason to fail the connection.
IsControl(f) == f.op \in {"ping", "pong", "close"}
Rejected(f) ==
    \/ f.op = "unknown"
    \/ ~f.masked
    \/ IsControl(f) /\ (~f.fin \/ Len(f.payload) > MaxControl)
    \/ Len(f.payload) > MaxMessage

IsData(f) == f.op \in {"text", "continuation"}

\* The message with frame f added, and whether f may not come now.
\* Fault: only a continuation without a start is refused.
MessageWith(r, f) == (IF f.op = "text" THEN << >> ELSE r.message) \o f.payload

OutOfPlaceFault(r, f) == f.op = "continuation" /\ ~r.inMessage
OutOfPlace(r, f) == (f.op = "text") = r.inMessage

\* What makes handle_ws_frames() call ws_fail().
\* Fault: only the frames are measured, not the message.
FailsFault(r, f) ==
    \/ Rejected(f)
    \/ f.op = "binary"
    \/ IsData(f) /\ OutOfPlace(r, f)
Fails(r, f) ==
    \/ Rejected(f)
    \/ f.op = "binary"
    \/ IsData(f) /\ (OutOfPlace(r, f) \/ Len(MessageWith(r, f)) > MaxMessage)

Framing == Handling /\ client[At].websocket

\* The message grows before it is measured.
Assembled(r, f) ==
    IF IsData(f) /\ ~Rejected(f) /\ ~OutOfPlace(r, f)
      THEN [r EXCEPT !.message = MessageWith(r, f), !.inMessage = ~f.fin]
      ELSE r

FailConnection ==
    /\ Framing /\ Fails(client[At], Input)
    /\ Handled(AnswerAndClose(Assembled(client[At], Input), <<Close>>))
    /\ UNCHANGED <<network, published, clients, latest, push, todo, running>>

HandleControl ==
    /\ Framing /\ ~Fails(client[At], Input)
    /\ \/ Input.op = "ping" /\ Handled(Answer(client[At], <<Pong>>))
       \/ Input.op = "pong" /\ Handled(client[At])
       \/ Input.op = "close" /\ Handled(AnswerAndClose(client[At], <<Close>>))
    /\ UNCHANGED <<network, published, clients, latest, push, todo, running>>

HandleFragment ==
    /\ Framing /\ ~Fails(client[At], Input)
    /\ IsData(Input) /\ ~Input.fin
    /\ Handled(Assembled(client[At], Input))
    /\ UNCHANGED <<network, published, clients, latest, push, todo, running>>

\* The command a message asks for; none for invalid JSON and anything else.
Command(text) ==
    CASE text = <<"o", "n">> -> "record on"
      [] text = <<"o", "f">> -> "record off"
      [] OTHER -> "none"

\* The last frame of a message: handle_ws_message() sends the command and
\* queues its result.
HandleMessage ==
    /\ Framing /\ ~Fails(client[At], Input)
    /\ IsData(Input) /\ Input.fin
    /\ LET command == Command(MessageWith(client[At], Input))
       IN  \E ok \in IF command = "none" THEN {FALSE} ELSE BOOLEAN :
              /\ published' = IF ok THEN Append(published, <<At, command>>) ELSE published
              /\ push' = (push \/ ok)
              /\ Handled([Answer(client[At], <<Result(command, ok)>>) EXCEPT
                             !.message = << >>, !.inMessage = FALSE])
    /\ UNCHANGED <<network, clients, latest, todo, running>>

-----------------------------------------------------------------------------
(* Writing, accepting, closing                                             *)

\* What a peer has when it is sent items after h.
With(h, x) == IF h # << >> /\ Last(h) = x /\ x.kind = "stats" THEN h ELSE Append(h, x)
Receive(h, items) ==
    LET has[i \in 0 .. Len(items)] == IF i = 0 THEN h ELSE With(has[i - 1], items[i])
    IN  has[Len(items)]

\* write_client() for client r when its socket takes n frames.
\* Fault: a connection to be closed is closed although its socket is full.
FinishedFault(r, n) == r.closing
Finished(r, n) == r.closing /\ n = Len(r.out)

Written(r, n) == [r EXCEPT !.out = SubSeq(@, n + 1, Len(@)), !.dead = @ \/ Finished(r, n)]

Write(n) ==
    /\ Now("write") /\ ~client[At].dead
    /\ client[At].out # << >> /\ n <= Len(client[At].out)
    /\ client' = [client EXCEPT ![At] = Written(@, n)]
    /\ got' = [got EXCEPT ![At] = Receive(@, SubSeq(client[At].out, 1, n))]
    /\ Done
    /\ UNCHANGED <<script, limits, taken, left, accepted, published, clients, latest, push, running>>

WriteFails ==
    /\ Now("write") /\ ~client[At].dead /\ client[At].out # << >>
    /\ client' = [client EXCEPT ![At].dead = TRUE]
    /\ left' = left \cup {At}
    /\ Done
    /\ UNCHANGED <<script, limits, taken, got, accepted, published, clients, latest, push, running>>

\* accept_clients() finds the connections new; one that finds the table full is
\* told so and turned away.
AcceptClients(new) ==
    /\ Now("accept")
    /\ accepted' = accepted \cup ToSet(new)
    /\ clients' = clients \o new
    /\ client' = [c \in Conn |->
         IF \E i \in 1 .. Len(new) : new[i] = c /\ Len(clients) + i > limits.maxClients
           THEN AnswerAndClose(client[c], <<Response("503")>>)
           ELSE client[c]]
    /\ Done
    /\ UNCHANGED <<script, limits, taken, left, got, published, latest, push, running>>

\* The connections that are not dead, in their order.
Living == Selected(clients, {i \in 1 .. Len(clients) : ~client[clients[i]].dead})

\* The end of poll_once(): dead connections are closed and removed.
Erase ==
    /\ Now("erase")
    /\ clients' = Living
    /\ Done
    /\ UNCHANGED <<network, published, client, latest, push, running>>

\* A signal came, and run() ends: every WebSocket gets a Close frame behind what
\* is queued and is closed.  What of it is still written does not matter here.
Stop ==
    /\ running /\ todo = << >>
    /\ client' = [c \in Conn |-> IF c \in ToSet(clients) /\ client[c].websocket
                                   THEN Answer(client[c], <<Close>>) ELSE client[c]]
    /\ running' = FALSE
    /\ UNCHANGED <<network, published, clients, latest, push, todo>>

PollFails ==
    /\ running /\ todo = << >>
    /\ running' = FALSE
    /\ UNCHANGED <<network, published, clients, client, latest, push, todo>>

-----------------------------------------------------------------------------

Init ==
    /\ \E s \in Setups : script = s.script /\ limits = s.limits
    /\ taken = [c \in Conn |-> 0] /\ left = {} /\ accepted = {}
    /\ got = [c \in Conn |-> << >>]
    /\ published = << >>
    /\ clients = << >> /\ client = [c \in Conn |-> NewClient]
    /\ latest = NoStats /\ push = FALSE
    /\ todo = << >> /\ running = TRUE

Reads == ReadEnds \/ \E n \in 1 .. Len(script[At]) : Read(n)
Writes == WriteFails \/ \E n \in 0 .. Len(client[At].out) : Write(n)
\* A peer that never sends is one whose first request the poll never reports.
Opening == {c \in Conn \ accepted : script[c] # << >>}
Accepts == \E new \in UNION {SetToSeqs(S) : S \in SUBSET Opening \ {{}}} : AcceptClients(new)

ServerStep == \/ Poll \/ NotReady
              \/ \E s \in 0 .. Len(published) : DrainStats(s)
              \/ Now("read") /\ Reads
              \/ HandlerDone \/ HandleHttp \/ UpgradeWebSocket \/ FailConnection
              \/ HandleControl \/ HandleFragment \/ HandleMessage
              \/ Now("write") /\ Writes
              \/ Accepts \/ Update \/ NoUpdate \/ Erase

Next == ServerStep \/ Stop \/ PollFails

Spec == Init /\ [][Next]_vars

\* The thread keeps running, as its poll has a timeout and no other call waits;
\* again and again the update is due, the receiver has carried out everything
\* and told so, and a browser has read all that was sent.
FairSpec ==
    /\ Spec
    /\ WF_vars(ServerStep)
    /\ SF_vars(Update)
    /\ SF_vars(DrainStats(Len(published)))
    /\ \A c \in Conn : SF_vars(Now("write") /\ At = c /\ Write(Len(client[c].out)))

-----------------------------------------------------------------------------
(* Properties                                                              *)

\* Everything the server has put on a connection, in order.
Stream(c) == got[c] \o client[c].out
Kinds(c) == [i \in 1 .. Len(Stream(c)) |-> Stream(c)[i].kind]
Results(items) == Selected(items, {i \in 1 .. Len(items) : items[i].kind = "result"})

\* Statistics for a browser that does not read do not pile up: there is at
\* most one more than the limit.
BacklogBounded ==
    \A c \in Conn :
        Cardinality({i \in DOMAIN client[c].out : client[c].out[i].kind = "stats"})
            <= limits.maxBacklog + 1

\* Types of the variables, and bounds: a connection that is not about to close
\* never holds more of a message than one that may arrive, nor more statistics
\* than the limit allows.
TypeOK ==
    /\ BacklogBounded
    /\ \A c \in Conn : 0 <= taken[c] /\ taken[c] <= Len(script[c])
    /\ latest \in -1 .. Len(published)
    /\ IsInjective(clients) /\ ToSet(clients) \subseteq accepted /\ accepted \subseteq Conn
    /\ \A c \in Conn : Len(client[c].message) <= MaxMessage \/ client[c].closing
    /\ push \in BOOLEAN /\ running \in BOOLEAN /\ left \subseteq accepted
    /\ \A i \in 1 .. Len(todo) :
          todo[i].do \in {"stats", "read", "handle", "write", "accept", "update", "erase"}

\* A connection starts with one response, or with the handshake, hello and
\* statistics; a push that comes early never gets in front of them
\* (docs/architecture.md:211).
HandshakeFirst ==
    \A c \in Conn :
        \/ Len(Stream(c)) <= 1 /\ \A k \in ToSet(Kinds(c)) : k = "response"
        \/ IsPrefix(<<"hello", "stats">>, Kinds(c))

\* Nothing follows a response or a Close frame on a connection: no statistics,
\* pong or result of a later input.  Only the end of the server puts its Close
\* frame behind one that is still there, and nothing behind that.
NothingAfterLast ==
    \A c \in Conn : \A i \in 1 .. Len(Stream(c)) - 1 :
        /\ Kinds(c)[i] # "response"
        /\ Kinds(c)[i] = "close" =>
              ~running /\ i = Len(Stream(c)) - 1 /\ Kinds(c)[i + 1] = "close"

\* What a connection carries begins and ends as the protocol has it.
StreamWellFormed == HandshakeFirst /\ NothingAfterLast

\* Reference reading of the frames s of a peer (RFC 6455): the messages end at
\* their final frames, as long as all frames up to there are in order.
DataUpTo(s, k) == {j \in 1 .. k : IsData(s[j])}
Start(s, k) == Max({j \in DataUpTo(s, k) : s[j].op = "text"})
Text(s, k) ==
    FlattenSeq([j \in 1 .. k - Start(s, k) + 1 |->
                  LET f == s[Start(s, k) + j - 1] IN IF IsData(f) THEN f.payload ELSE << >>])

StartsAnew(s, k) == DataUpTo(s, k - 1) = {} \/ s[Max(DataUpTo(s, k - 1))].fin
InOrder(s, k) ==
    /\ s[k].op \in {"text", "continuation", "ping", "pong"} /\ s[k].masked
    /\ IsControl(s[k]) => s[k].fin /\ Len(s[k].payload) <= MaxControl
    /\ IsData(s[k]) => /\ (s[k].op = "text") = StartsAnew(s, k)
                       /\ Len(Text(s, k)) <= MaxMessage

\* The frames of a peer whose first request opens a WebSocket.
Frames(s) == IF s # << >> /\ Upgrades(Head(s)) THEN Tail(s) ELSE << >>

\* The commands of the messages that end with one of the first k frames.
Ends(f, k) ==
    {e \in 1 .. Len(f) : e <= k /\ IsData(f[e]) /\ f[e].fin /\ \A j \in 1 .. e : InOrder(f, j)}
Commands(f, k) ==
    LET ends == Selected([e \in 1 .. Len(f) |-> e], Ends(f, k))
    IN  [i \in 1 .. Len(ends) |-> Command(Text(f, ends[i]))]

CommandsTaken(c) == Commands(Frames(script[c]), taken[c] - 1)

Successes(results) == Selected(results, {i \in 1 .. Len(results) : results[i].ok})
Forwarded(p, c) == Selected(p, {i \in 1 .. Len(p) : p[i][1] = c})

\* The results on a connection are those of the messages its peer sent, each
\* once and in their order, whatever fragments, control frames and errors come
\* between; and a command goes to the receiver exactly when its result says so.
CommandsAnswered ==
    \A c \in Conn :
        LET results == Results(Stream(c))
            done == Successes(results)
        IN  /\ IsPrefix([i \in 1 .. Len(results) |-> results[i].command], CommandsTaken(c))
            /\ Forwarded(published, c) = [i \in 1 .. Len(done) |-> <<c, done[i].command>>]

\* The peer has ended the connection, or the server has ended.
Over(c) == c \in left \/ ~running

\* Every message received from a browser that stays gets its result to it, also
\* when a frame behind it closes the connection.
ResultArrives ==
    []<>(\A c \in Conn :
            Len(Results(got[c])) = Len(CommandsTaken(c)) \/ Over(c))

\* A browser "gets the next snapshot once its backlog drains": what the commands
\* have done is at last shown to every browser, also to one skipped before.
Shown(c) == LET seen == SelectSeq(got[c], LAMBDA x : x.kind = "stats")
            IN  IF seen = << >> THEN NoStats ELSE Last(seen).latest
StateReaches ==
    []<>(\A c \in Conn :
            client[c].websocket => Shown(c) = Len(published) \/ client[c].closing \/ Over(c))

\* "After a command, the next statistics message is pushed straight away so
\* the page shows the new recording state" (docs/architecture.md:186): what
\* DrainStats pushes for a command was taken after the receiver carried all
\* commands out.
PushShowsNewState ==
    [][(push /\ ~push') => latest' = Len(published)]_vars

=============================================================================
