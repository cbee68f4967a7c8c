------------------------------ MODULE Tracking ------------------------------
(***************************************************************************)
(* SequenceTracker::observe() (tools/receiver/lib/sequence_tracker.cpp) as *)
(* a function of the state kept for a source and the sequence number of a  *)
(* message.  Relay checks it through SequenceTracker, Receiver uses it.    *)
(***************************************************************************)
EXTENDS Integers

CONSTANT ResyncJump  \* the 1000 of observe()

ASSUME TrackingAssumption == ResyncJump \in Nat

-----------------------------------------------------------------------------

Unseen == [seen |-> FALSE, last |-> 0, missing |-> 0, gaps |-> 0, late |-> 0]

Outcome(s, seq) ==
    CASE ~s.seen -> "First"
      [] s.seen /\ seq = s.last + 1 -> "InOrder"
      [] s.seen /\ seq > s.last + 1 -> "Gap"
      [] s.seen /\ seq <= s.last -> "OutOfOrder"

\* Faults: the last number itself counted as missing; a step back as well.
MissingFaultLast(s, seq) == IF Outcome(s, seq) = "Gap" THEN seq - s.last ELSE 0
MissingFaultBack(s, seq) == IF s.seen THEN seq - (s.last + 1) ELSE 0
Missing(s, seq) == IF Outcome(s, seq) = "Gap" THEN seq - (s.last + 1) ELSE 0

\* Fault: a step back to 0 is taken for late delivery.
ResyncsFault(s, seq) ==
    Outcome(s, seq) = "OutOfOrder" /\ seq + ResyncJump < s.last
Resyncs(s, seq) ==
    Outcome(s, seq) = "OutOfOrder" /\ (seq + ResyncJump < s.last \/ seq = 0)

\* Fault: every number becomes the last one.
NextLastFault(s, seq) == seq
NextLast(s, seq) ==
    IF Outcome(s, seq) = "OutOfOrder" /\ ~Resyncs(s, seq) THEN s.last ELSE seq

Observed(s, seq) ==
    [seen    |-> TRUE,
     last    |-> NextLast(s, seq),
     missing |-> s.missing + Missing(s, seq),
     gaps    |-> IF Outcome(s, seq) = "Gap" THEN s.gaps + 1 ELSE s.gaps,
     late    |-> IF Outcome(s, seq) = "OutOfOrder" THEN s.late + 1 ELSE s.late]

=============================================================================
