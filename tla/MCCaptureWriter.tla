-------------------------- MODULE MCCaptureWriter --------------------------
(* Instances of CaptureWriter and CsvExport for TLC.                       *)
EXTENDS CsvExport

\* A record with a payload, and one without.
TwoRecords == {[id |-> 1, empty |-> FALSE, stem |-> "mode_status"],
               [id |-> 2, empty |-> TRUE, stem |-> "unknown"]}

=============================================================================
