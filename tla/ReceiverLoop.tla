---------------------------- MODULE ReceiverLoop ----------------------------
(***************************************************************************)
(* The main loop of the receiver (tools/receiver/receiver.cpp): one thread *)
(* polls the UDP socket and the command socket, drains each of them up to  *)
(* a limit, and then runs what is due: the reassembly sweep, the flush of  *)
(* the capture file and the statistics.  Here datagrams and commands have  *)
(* no effect of their own; Receiver gives them theirs.                     *)
(***************************************************************************)
EXTENDS Naturals, Sequences

CONSTANTS
    Packet,        \* the datagrams that may arrive, [size]
    Command,       \* the commands that may arrive
    MaxDatagrams,  \* max_datagrams_per_poll
    CommandBatch,  \* the 64 of drain_commands()
    UdpQueue,      \* datagrams the kernel queues
    CommandQueue,  \* commands the SUB socket queues
    Timers,        \* those configured: flush only with capture_flush_interval_ms
    IoFaults       \* which of "poll", "udp", "commands" may fail

ASSUME LoopAssumption ==
    /\ MaxDatagrams \in Nat \ {0} /\ CommandBatch \in Nat \ {0}
    /\ UdpQueue \in Nat \ {0} /\ CommandQueue \in Nat \ {0}
    /\ Timers \subseteq {"sweep", "flush", "stats"}
    /\ IoFaults \subseteq {"poll", "udp", "commands"}

VARIABLES
    udp,       \* the kernel's queue of datagrams
    commands,  \* the queue of the command socket
    phase,     \* "poll", "udp", "commands", "timers", "shutdown" or "stopped"
    ready,     \* the sockets zmq_poll() reported and not drained yet
    budget,    \* how many more may be taken from the socket being drained
    due,       \* the timers whose deadline has passed
    shutdown   \* a signal asked for shutdown

loopVars == <<udp, commands, phase, ready, budget, due, shutdown>>

-----------------------------------------------------------------------------
(* Senders, controllers, the clock and the signal: external.               *)

\* A full queue drops what arrives: no step here.
DatagramArrives(d) ==
    /\ Len(udp) < UdpQueue
    /\ udp' = Append(udp, d)
    /\ UNCHANGED <<commands, phase, ready, budget, due, shutdown>>

CommandArrives(c) ==
    /\ Len(commands) < CommandQueue
    /\ commands' = Append(commands, c)
    /\ UNCHANGED <<udp, phase, ready, budget, due, shutdown>>

Elapse(t) ==
    /\ t \notin due
    /\ due' = due \cup {t}
    /\ UNCHANGED <<udp, commands, phase, ready, budget, shutdown>>

Signal ==
    /\ ~shutdown /\ shutdown' = TRUE
    /\ UNCHANGED <<udp, commands, phase, ready, budget, due>>

-----------------------------------------------------------------------------
(* poll_once()                                                             *)

Limit(socket) == IF socket = "udp" THEN MaxDatagrams ELSE CommandBatch

\* What the loop does next when R is still to be drained: the datagrams
\* first, then the commands, then the timers.
Turn(R) ==
    /\ ready' = R
    /\ phase' = IF "udp" \in R THEN "udp" ELSE IF "commands" \in R THEN "commands" ELSE "timers"
    /\ budget' = IF R = {} THEN 0 ELSE Limit(phase')

\* Fault: a request is heeded only once the datagrams are drained.
StoppingFault == shutdown /\ udp = << >>
Stopping == shutdown

\* A timeout reports neither socket.
Poll ==
    /\ phase = "poll" /\ ~Stopping
    /\ Turn({s \in {"udp", "commands"} : \/ s = "udp" /\ udp # << >>
                                         \/ s = "commands" /\ commands # << >>})
    /\ UNCHANGED <<udp, commands, due, shutdown>>

\* A fatal error of the poll ends the loop like a signal does.
PollFails ==
    /\ phase = "poll" /\ ~Stopping
    /\ "poll" \in IoFaults
    /\ phase' = "shutdown"
    /\ UNCHANGED <<udp, commands, ready, budget, due, shutdown>>

Leave ==
    /\ phase = "poll" /\ Stopping
    /\ phase' = "shutdown"
    /\ UNCHANGED <<udp, commands, ready, budget, due, shutdown>>

\* drain_udp() and drain_commands() end, by the limit, by an empty queue or
\* by an error.  Faults: the limit of the datagrams, or of the commands, is
\* not kept.
EndsFaultUdp(socket, queue) == (socket # "udp" /\ budget = 0) \/ queue = << >>
EndsFaultCommands(socket, queue) == (socket # "commands" /\ budget = 0) \/ queue = << >>
Ends(socket, queue) == budget = 0 \/ queue = << >>

UdpDone ==
    /\ phase = "udp"
    /\ Ends("udp", udp) \/ "udp" \in IoFaults
    /\ Turn(ready \ {"udp"})
    /\ UNCHANGED <<udp, commands, due, shutdown>>

CommandsDone ==
    /\ phase = "commands"
    /\ Ends("commands", commands) \/ "commands" \in IoFaults
    /\ Turn({})
    /\ UNCHANGED <<udp, commands, due, shutdown>>

TakeDatagram(d) ==
    /\ phase = "udp" /\ ~Ends("udp", udp)
    /\ d = Head(udp) /\ d.size > 0
    /\ udp' = Tail(udp)
    /\ budget' = IF budget = 0 THEN 0 ELSE budget - 1
    /\ UNCHANGED <<commands, phase, ready, due, shutdown>>

\* A datagram of no bytes is taken for an empty queue.
TakeEmpty ==
    /\ phase = "udp" /\ ~Ends("udp", udp)
    /\ Head(udp).size = 0
    /\ udp' = Tail(udp)
    /\ Turn(ready \ {"udp"})
    /\ UNCHANGED <<commands, due, shutdown>>

TakeCommand(c) ==
    /\ phase = "commands" /\ ~Ends("commands", commands)
    /\ c = Head(commands)
    /\ commands' = Tail(commands)
    /\ budget' = IF budget = 0 THEN 0 ELSE budget - 1
    /\ UNCHANGED <<udp, phase, ready, due, shutdown>>

\* What is due is run, and its deadline set anew.
RunTimers ==
    /\ phase = "timers"
    /\ phase' = "poll"
    /\ due' = {}
    /\ UNCHANGED <<udp, commands, ready, budget, shutdown>>

\* The end of run().
Finish ==
    /\ phase = "shutdown"
    /\ phase' = "stopped"
    /\ UNCHANGED <<udp, commands, ready, budget, due, shutdown>>

-----------------------------------------------------------------------------

LoopInit ==
    /\ udp = << >> /\ commands = << >>
    /\ phase = "poll" /\ ready = {} /\ budget = 0
    /\ due = {}
    /\ shutdown = FALSE

LoopStep ==
    \/ Poll \/ PollFails \/ Leave \/ UdpDone \/ CommandsDone
    \/ (\E d \in Packet : TakeDatagram(d)) \/ TakeEmpty
    \/ (\E c \in Command : TakeCommand(c))
    \/ RunTimers \/ Finish

LoopNext ==
    \/ LoopStep \/ Signal
    \/ \E d \in Packet : DatagramArrives(d)
    \/ \E c \in Command : CommandArrives(c)
    \/ \E t \in Timers : Elapse(t)

LoopSpec == LoopInit /\ [][LoopNext]_loopVars

\* The thread of the receiver keeps running: the poll has a timeout, receiving
\* does not wait, and publishing statistics does not block.
LoopFairSpec == LoopSpec /\ WF_loopVars(LoopStep)

-----------------------------------------------------------------------------
(* Properties.                                                             *)

\* Types of the variables; what is being drained was reported by the poll.
LoopTypeOK ==
    /\ udp \in Seq(Packet) /\ Len(udp) <= UdpQueue
    /\ commands \in Seq(Command) /\ Len(commands) <= CommandQueue
    /\ phase \in {"poll", "udp", "commands", "timers", "shutdown", "stopped"}
    /\ ready \subseteq {"udp", "commands"}
    /\ phase \in {"udp", "commands"} => phase \in ready
    /\ budget \in 0 .. MaxDatagrams \cup 0 .. CommandBatch
    /\ due \subseteq Timers
    /\ shutdown \in BOOLEAN

\* Commands are taken for ever although datagrams never pause
\* (receiver.cpp:287): the command queue does not stay non-empty untouched.
CommandsServed ==
    \/ []<><<\E c \in Command : TakeCommand(c)>>_loopVars
    \/ []<>(commands = << >>)
    \/ <>(phase = "stopped")

\* A sweep, a flush or a statistics message that is due is run although
\* neither datagrams nor commands ever pause (receiver.cpp:307).
TimersServed == \A t \in Timers : t \in due ~> (t \notin due \/ phase = "stopped")

\* Neither datagrams nor commands starve what comes after them in a poll.
NothingStarves == CommandsServed /\ TimersServed

\* A requested shutdown ends the receiver, also under unceasing traffic.
ShutdownEnds == shutdown ~> phase = "stopped"

=============================================================================
