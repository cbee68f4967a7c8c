--------------------------- MODULE MCControlServer ---------------------------
(* Instances of ControlServer for TLC.                                     *)
EXTENDS ControlServer

CONSTANTS c1, c2  \* connections

Up == [op |-> "upgrade"]
Http(status) == [op |-> status]
Frame(op, fin, payload) == [op |-> op, fin |-> fin, masked |-> TRUE, payload |-> payload]
On == <<"o", "n">>
Off == <<"o", "f">>
Ping == Frame("ping", TRUE, <<"p">>)
Text1(payload) == Frame("text", TRUE, payload)

\* One browser: a command in two fragments around a ping; two commands; a message
\* that is no command, a Close frame and what is ignored behind it; a message
\* within a message; a message too long in its second fragment; frames that fail
\* the connection; a request that is no upgrade.
Alone == {<<Up, Frame("text", FALSE, <<"o">>), Ping, Frame("continuation", TRUE, <<"n">>)>>,
          <<Up, Text1(On), Text1(Off)>>,
          <<Up, Text1(<<"n">>), Frame("close", TRUE, << >>), Text1(On)>>,
          <<Up, Frame("text", FALSE, <<"o">>), Text1(On)>>,
          <<Up, Frame("text", FALSE, On), Frame("continuation", FALSE, <<"n">>)>>,
          <<Up, Frame("continuation", TRUE, On)>>,
          <<Up, Text1(On), Frame("binary", TRUE, On)>>,
          <<Up, [Text1(On) EXCEPT !.masked = FALSE]>>,
          <<Up, Frame("ping", TRUE, On)>>,
          <<Http("400"), Text1(On)>>}

\* Also a browser that commands and one that looks on, and two connections for
\* one place.
Setup(s, t, places, backlog) ==
    [script |-> (c1 :> s @@ c2 :> t),
     limits |-> [maxClients |-> places, maxBacklog |-> backlog]]
AllSetups == {Setup(s, << >>, 2, 1) : s \in Alone}
             \cup {Setup(<<Up, Text1(On)>>, <<Up>>, 2, 0),
                   Setup(<<Http("200")>>, <<Http("200")>>, 1, 1)}

=============================================================================
