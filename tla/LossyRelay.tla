----------------------------- MODULE LossyRelay -----------------------------
(***************************************************************************)
(* What the relay promises from the bridge's sockets to the receiver's     *)
(* output, whatever the network does to datagrams: a delivered message is  *)
(* one the bridge took, under the number it was given, with its timestamp  *)
(* and byte for byte.  Messages may be lost, repeated and delivered in any *)
(* order.                                                                  *)
(*                                                                         *)
(* There is one exception, Mix.  A restarted bridge numbers from 0 again;  *)
(* of the fragments that meet under a number the receiver compares the     *)
(* length and the count (reassembler.cpp:51), not the timestamp, the flags *)
(* and the offsets, in which they differ when two generations sent them.   *)
(* So when two generations sent messages of the same number, length and    *)
(* count, in fragments, a message nobody sent may be delivered, in which   *)
(* every fragment is from one of these, as are the holes and the overlaps  *)
(* between them when they were cut differently.                            *)
(***************************************************************************)
EXTENDS Integers

CONSTANT Message  \* what may be taken: its number, length, chunk, count and body

VARIABLES
    generation,  \* how often the bridge was restarted
    taken,       \* pairs of a generation and a message it took
    out          \* the message delivered last

vars == <<generation, taken, out>>

Nothing == [sequence |-> -1]

\* The bytes of fragment i of m: of which message, from where, and how many.
Part(m, i) ==
    LET from == i * m.chunk
    IN  <<m.body, from, IF m.length - from < m.chunk THEN m.length - from ELSE m.chunk>>

Init == generation = 0 /\ taken = {} /\ out = Nothing

Take(m) ==
    /\ \A t \in taken : t.generation = generation => t.message.sequence < m.sequence
    /\ taken' = taken \cup {[generation |-> generation, message |-> m]}
    /\ UNCHANGED <<generation, out>>

Restart == generation' = generation + 1 /\ UNCHANGED <<taken, out>>

\* A message that was taken, whole.
Deliver(t) ==
    /\ out'.sequence = t.message.sequence
    /\ out'.timestamp = t.message.body
    /\ out'.data = [i \in 0 .. t.message.count - 1 |-> Part(t.message, i)]
    /\ UNCHANGED <<generation, taken>>

\* What the receiver does not tell from t.
Like(t) ==
    {s \in taken : /\ s.message.sequence = t.message.sequence
                   /\ s.message.length = t.message.length
                   /\ s.message.count = t.message.count}

\* Fragments of several generations in one message.
Mix(t) ==
    /\ t.message.count > 1 /\ \E s \in Like(t) : s.generation # t.generation
    /\ out'.sequence = t.message.sequence
    /\ \E s \in Like(t) : out'.timestamp = s.message.body
    /\ DOMAIN out'.data = 0 .. t.message.count - 1
    /\ \A i \in DOMAIN out'.data :
          \E s \in Like(t) : out'.data[i] = Part(s.message, i)
    /\ UNCHANGED <<generation, taken>>

Next ==
    \/ Restart
    \/ \E m \in Message : Take(m)
    \/ \E t \in taken : Deliver(t) \/ Mix(t)

Spec == Init /\ [][Next]_vars

=============================================================================
