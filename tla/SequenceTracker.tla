-------------------------- MODULE SequenceTracker --------------------------
(***************************************************************************)
(* The receiver's per-source sequence tracking                             *)
(* (tools/receiver/lib/sequence_tracker.cpp): every new message is         *)
(* compared with the last sequence number of its source and counted as in  *)
(* order, after a gap, or late; a large step back, or 0, resynchronises.   *)
(* The numbers of one source are followed here; Relay feeds them.          *)
(***************************************************************************)
EXTENDS Tracking, FiniteSets

VARIABLES
    state,     \* SourceSequenceState of the source
    first,     \* history: the first number observed
    observed,  \* history: the set of numbers observed
    resyncs    \* history: how often a late number became the last one

vars == <<state, first, observed, resyncs>>

-----------------------------------------------------------------------------

Init ==
    /\ state = Unseen
    /\ first = 0
    /\ observed = {}
    /\ resyncs = 0

Observe(seq) ==
    /\ state' = Observed(state, seq)
    /\ first' = IF state.seen THEN first ELSE seq
    /\ observed' = observed \cup {seq}
    /\ resyncs' = IF Resyncs(state, seq) THEN resyncs + 1 ELSE resyncs

-----------------------------------------------------------------------------
(* Properties.                                                             *)

\* Types of the variables.
TypeOK ==
    /\ state \in [seen : BOOLEAN, last : Nat, missing : Nat, gaps : Nat, late : Nat]
    /\ first \in Nat /\ observed \subseteq Nat /\ IsFiniteSet(observed)
    /\ resyncs \in Nat

\* The numbers of the stretch followed so far that never arrived.
NeverSeen == (first .. state.last) \ observed

\* As long as nothing resynchronised, the missing count is at least the
\* number of messages really lost, and exceeds it by no more than the late
\* arrivals: losses are never under-reported.
MissingBounds ==
    state.seen /\ resyncs = 0 =>
        /\ Cardinality(NeverSeen) <= state.missing
        /\ state.missing <= Cardinality(NeverSeen) + state.late

\* Whatever the order of arrival, the number gaps are measured from is the
\* highest one, so a late message never makes later ones count as lost again.
LastIsHighest ==
    state.seen /\ resyncs = 0 =>
        state.last \in observed /\ \A seq \in observed : seq <= state.last

\* Both.
LossesShow == MissingBounds /\ LastIsHighest

=============================================================================
