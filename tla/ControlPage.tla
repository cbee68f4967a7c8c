----------------------------- MODULE ControlPage -----------------------------
(***************************************************************************)
(* The page of the control tool (tools/ctl/frontend/app.js) in several     *)
(* browsers, with the backend and the receiver in outline: what            *)
(* ControlServer and Receiver do as far as a page can tell.                *)
(*                                                                         *)
(* Time is abstracted: a deadline may pass at any moment after the click.  *)
(* Statistics are the recording state and the number of changes of the     *)
(* receiver before they were taken.                                        *)
(***************************************************************************)
EXTENDS Integers, SequencesExt

CONSTANTS
    Page,       \* the browsers
    Setups,     \* behaviours to consider: their pages and the bounds on them
    MaxBacklog  \* kMaxOutputBacklog, in messages

ASSUME PageAssumption ==
    /\ MaxBacklog \in Nat
    /\ \A s \in Setups :
        /\ s.pages \subseteq Page
        /\ s.clicks \in Nat   \* bound on the clicks
        /\ s.drops \in Nat    \* bound on the connections lost or refused
        /\ s.crashes \in Nat  \* bound on the crashes of the receiver

VARIABLES
    page,       \* per page, state
    down, up,   \* per page, messages on its connection: to it, from it
    orphans,    \* commands of connections that are closed, still to be handled
    backend,    \* latest_stats_, whether they are recent, push_on_next_stats_
    published,  \* commands on their way to the receiver
    sampled,    \* statistics on their way to the backend
    receiver,   \* the receiver: alive, recording, number of changes
    past,       \* clicks, lost connections and crashes so far
    setup       \* the behaviour's pages and bounds

connection == <<page, down, up, orphans>>
server == <<backend, published, sampled>>
vars == <<connection, server, receiver, past, setup>>

NoStats == [known |-> FALSE, online |-> FALSE, recording |-> FALSE, at |-> 0]
NotWaiting == [waits |-> FALSE, enabled |-> FALSE, late |-> FALSE, since |-> 0]
NewPage == [link |-> "connecting", delay |-> 500, envelope |-> NoStats,
            pending |-> NotWaiting, error |-> "none"]

-----------------------------------------------------------------------------
(* render()                                                                *)

Confirmed(r) == r.envelope.known /\ r.envelope.recording = r.pending.enabled

\* Faults: a command never times out; one that does is forgotten.
TimesOutFault(r) == FALSE
TimesOut(r) == r.pending.late
UnconfirmedFault(r) == [r EXCEPT !.pending = NotWaiting]
Unconfirmed(r) == [r EXCEPT !.pending = NotWaiting, !.error = "unconfirmed"]

Rendered(r) ==
    IF ~r.pending.waits THEN r
    ELSE IF Confirmed(r) THEN [r EXCEPT !.pending = NotWaiting]
    ELSE IF TimesOut(r) THEN Unconfirmed(r)
    ELSE r

\* The button is not disabled.
Enabled(r) ==
    r.link = "open" /\ r.envelope.known /\ r.envelope.online /\ ~r.pending.waits

Becomes(p, r) == page' = [page EXCEPT ![p] = Rendered(r)]

\* setInterval().
RenderTimer(p) ==
    /\ Becomes(p, page[p])
    /\ UNCHANGED <<down, up, orphans, server, receiver, past, setup>>

\* The clock: Date.now() passes the deadline.
DeadlinePasses(p) ==
    /\ page[p].pending.waits
    /\ page' = [page EXCEPT ![p].pending.late = TRUE]
    /\ UNCHANGED <<down, up, orphans, server, receiver, past, setup>>

-----------------------------------------------------------------------------
(* connect() and the handlers of the WebSocket                             *)

\* stats_envelope().
\* Fault: the age of the statistics is not looked at.
OnlineFault(b) == b.latest.known
Online(b) == b.fresh
Envelope(b) == [b.latest EXCEPT !.online = Online(b)]

Connect(p) ==
    /\ page[p].link = "wait"
    /\ page' = [page EXCEPT ![p].link = "connecting"]
    /\ UNCHANGED <<down, up, orphans, server, receiver, past, setup>>

\* The backend upgrades the connection and sends what it has; onopen.
Opens(p) ==
    /\ page[p].link = "connecting"
    /\ Becomes(p, [page[p] EXCEPT !.link = "open", !.delay = 500])
    /\ down' = [down EXCEPT ![p] = <<[kind |-> "stats", envelope |-> Envelope(backend)]>>]
    /\ UNCHANGED <<up, orphans, server, receiver, past, setup>>

\* onclose, after a connection was lost or refused.
\* Faults: the page does not stop waiting; after a refusal it does not try again.
ClosedFaultPending(r) == [r EXCEPT !.link = "wait", !.delay = Min({2 * @, 5000})]
ClosedFaultRefused(r) ==
    [r EXCEPT !.link = IF @ = "open" THEN "wait" ELSE "closed", !.pending = NotWaiting]
Closed(r) ==
    [r EXCEPT !.link = "wait", !.pending = NotWaiting, !.delay = Min({2 * @, 5000})]

\* Commands the backend has received by then are still handled.
Closes(p) ==
    /\ page[p].link # "wait"
    /\ past.drops < setup.drops
    /\ past' = [past EXCEPT !.drops = @ + 1]
    /\ Becomes(p, Closed(page[p]))
    /\ down' = [down EXCEPT ![p] = << >>]
    /\ up' = [up EXCEPT ![p] = << >>]
    /\ \E k \in 0 .. Len(up[p]) : orphans' = orphans \o SubSeq(up[p], 1, k)
    /\ UNCHANGED <<server, receiver, setup>>

\* onmessage.
\* Fault: the answer of the backend is taken for the receiver's.
ToldFault(r, m) ==
    CASE m.kind = "stats" -> [r EXCEPT !.envelope = m.envelope]
      [] m.kind = "failed" -> [r EXCEPT !.pending = NotWaiting, !.error = "failed"]
      [] m.kind = "ok" -> [r EXCEPT !.pending = NotWaiting]
Told(r, m) ==
    CASE m.kind = "stats" -> [r EXCEPT !.envelope = m.envelope]
      [] m.kind = "failed" -> [r EXCEPT !.pending = NotWaiting, !.error = "failed"]
      [] m.kind = "ok" -> r

Message(p) ==
    /\ down[p] # << >>
    /\ Becomes(p, Told(page[p], Head(down[p])))
    /\ down' = [down EXCEPT ![p] = Tail(@)]
    /\ UNCHANGED <<up, orphans, server, receiver, past, setup>>

\* The listener of the button.
Wish(r) == ~r.envelope.recording

Click(p) ==
    /\ Enabled(page[p])
    /\ past.clicks < setup.clicks
    /\ past' = [past EXCEPT !.clicks = @ + 1]
    /\ LET r == page[p]
       IN  /\ Becomes(p, [r EXCEPT !.error = "none",
                                   !.pending = [waits |-> TRUE, enabled |-> Wish(r),
                                                late |-> FALSE, since |-> r.envelope.at]])
           /\ up' = [up EXCEPT ![p] = Append(@, Wish(r))]
    /\ UNCHANGED <<down, orphans, server, receiver, setup>>

-----------------------------------------------------------------------------
(* The backend                                                             *)

\* send_command(): the PUB socket drops what no subscriber is there to take.
Forward(c) ==
    /\ published' \in {published, Append(published, c)}
    /\ backend' = [backend EXCEPT !.push = TRUE]

SendFails == UNCHANGED <<published, backend>>

Command(p) ==
    /\ up[p] # << >>
    /\ up' = [up EXCEPT ![p] = Tail(@)]
    /\ \/ /\ Forward(Head(up[p]))
          /\ down' = [down EXCEPT ![p] = Append(@, [kind |-> "ok"])]
       \/ /\ SendFails
          /\ down' = [down EXCEPT ![p] = Append(@, [kind |-> "failed"])]
    /\ UNCHANGED <<page, orphans, sampled, receiver, past, setup>>

OrphanCommand ==
    /\ orphans # << >>
    /\ orphans' = Tail(orphans)
    /\ Forward(Head(orphans)) \/ SendFails
    /\ UNCHANGED <<page, down, up, sampled, receiver, past, setup>>

\* broadcast_stats().
Broadcast(b) ==
    [p \in Page |-> IF page[p].link = "open" /\ Len(down[p]) <= MaxBacklog
                      THEN Append(down[p], [kind |-> "stats", envelope |-> Envelope(b)])
                      ELSE down[p]]

\* drain_stats().
Drain ==
    /\ sampled # << >>
    /\ sampled' = Tail(sampled)
    /\ backend' = [latest |-> Head(sampled), fresh |-> TRUE, push |-> FALSE]
    /\ down' = IF backend.push THEN Broadcast(backend') ELSE down
    /\ UNCHANGED <<page, up, orphans, published, receiver, past, setup>>

\* The update timer of poll_once().
Update ==
    /\ down' = Broadcast(backend)
    /\ UNCHANGED <<page, up, orphans, server, receiver, past, setup>>

\* stale_after_ms pass: it is longer than the receiver's interval.
GoesStale ==
    /\ ~receiver.alive /\ sampled = << >>
    /\ backend' = [backend EXCEPT !.fresh = FALSE]
    /\ UNCHANGED <<connection, published, sampled, receiver, past, setup>>

-----------------------------------------------------------------------------
(* The receiver                                                            *)

\* It carries a command out; with "record on" the file may fail to open.
Take ==
    /\ receiver.alive /\ published # << >>
    /\ published' = Tail(published)
    /\ \E recording \in {Head(published), Head(published) /\ receiver.recording} :
          receiver' = [receiver EXCEPT !.recording = recording, !.at = @ + 1]
    /\ UNCHANGED <<connection, backend, sampled, past, setup>>

Sample ==
    /\ receiver.alive /\ sampled = << >>
    /\ sampled' = <<[known |-> TRUE, online |-> TRUE,
                     recording |-> receiver.recording, at |-> receiver.at]>>
    /\ UNCHANGED <<connection, backend, published, receiver, past, setup>>

Crash ==
    /\ receiver.alive
    /\ past.crashes < setup.crashes
    /\ past' = [past EXCEPT !.crashes = @ + 1]
    /\ receiver' = [receiver EXCEPT !.alive = FALSE]
    /\ published' = << >>
    /\ UNCHANGED <<connection, backend, sampled, setup>>

Restart ==
    /\ ~receiver.alive
    /\ \E recording \in BOOLEAN :
          receiver' = [alive |-> TRUE, recording |-> recording, at |-> receiver.at + 1]
    /\ UNCHANGED <<connection, server, past, setup>>

-----------------------------------------------------------------------------

Init ==
    /\ setup \in Setups
    /\ page = [p \in Page |-> NewPage]
    /\ down = [p \in Page |-> << >>] /\ up = [p \in Page |-> << >>]
    /\ orphans = << >> /\ published = << >> /\ sampled = << >>
    /\ backend = [latest |-> NoStats, fresh |-> FALSE, push |-> FALSE]
    /\ \E recording \in BOOLEAN :
          receiver = [alive |-> TRUE, recording |-> recording, at |-> 0]
    /\ past = [clicks |-> 0, drops |-> 0, crashes |-> 0]

Browser(p) ==
    \/ RenderTimer(p) \/ DeadlinePasses(p) \/ Connect(p) \/ Opens(p)
    \/ Closes(p) \/ Message(p) \/ Click(p)

Next ==
    \/ \E p \in setup.pages : Browser(p) \/ Command(p)
    \/ OrphanCommand \/ Drain \/ Update \/ GoesStale
    \/ Take \/ Sample \/ Crash \/ Restart

Spec == Init /\ [][Next]_vars

\* A step of a page that takes part.
Fair(p, A) == p \in setup.pages /\ A

\* The browsers' event loops run and their clocks advance, the backend and a
\* receiver that is alive go round their loops.  Nobody need click, and nobody
\* need restart the receiver.
Fairness ==
    /\ \A p \in Page :
        /\ WF_vars(Fair(p, RenderTimer(p))) /\ WF_vars(Fair(p, DeadlinePasses(p)))
        /\ WF_vars(Fair(p, Connect(p))) /\ WF_vars(Fair(p, Opens(p)))
        /\ WF_vars(Fair(p, Message(p))) /\ WF_vars(Fair(p, Command(p)))
    /\ WF_vars(OrphanCommand) /\ WF_vars(Drain) /\ WF_vars(Update) /\ WF_vars(GoesStale)
    /\ WF_vars(Take) /\ WF_vars(Sample)

FairSpec == Spec /\ Fairness

-----------------------------------------------------------------------------
(* Properties.                                                             *)

\* Types.  A page waits for a command only on an open connection, on which the
\* delay of the next attempt is the first again.
TypeOK ==
    /\ \A p \in Page :
        /\ page[p].link \in {"wait", "connecting", "open"}
        /\ page[p].delay \in {500, 1000, 2000, 4000, 5000}
        /\ page[p].error \in {"none", "unconfirmed", "failed"}
        /\ page[p].pending.waits => page[p].link = "open"
        /\ page[p].link = "open" => page[p].delay = 500
    /\ published \in Seq(BOOLEAN) /\ orphans \in Seq(BOOLEAN)
    /\ backend.fresh => backend.latest.known

\* A wait for a command never ends silently or by what the page showed already
\* (app.js:141-146, 208-209, 217): the page has lost the connection; or it shows
\* an error, even when it is a late failure of an earlier command that ends it; or
\* it shows the state asked for, in statistics taken after a change of the receiver
\* that those shown at the click were too early for, so that the same statistics
\* pushed again do not confirm.  Nothing ties that change to the command: app.js
\* compares the state only, and it may be another page's, from before the click.
WaitEndsByAnswer ==
    [][\A p \in Page :
         page[p].pending.waits /\ ~page'[p].pending.waits =>
             \/ page'[p].link # "open"
             \/ page'[p].error # "none"
             \/ /\ page'[p].envelope.recording = page[p].pending.enabled
                /\ page'[p].envelope.at > page[p].pending.since]_vars

\* The button does not stay disabled for a command: it is confirmed, fails or
\* times out, whatever was lost on the way.
WaitsEnd == \A p \in Page : page[p].pending.waits ~> ~page[p].pending.waits

\* When clicks, losses and crashes have ended, every page is connected again and
\* ready for the next click, with the receiver's state on its button, whoever
\* changed it; and a receiver that is down shows on every page, also on one that
\* has reconnected and still has statistics from before: its button is disabled.
Settled(p) ==
    /\ page[p].link = "open" /\ ~page[p].pending.waits
    /\ receiver.alive => page[p].envelope.recording = receiver.recording
    /\ Enabled(page[p]) <=> receiver.alive
Settles == <>[](\A p \in setup.pages : Settled(p))

=============================================================================
