------------------------------ MODULE CsvExport ------------------------------
(***************************************************************************)
(* The CSV export (tools/capture_to_csv/csv_export.cpp) of what a          *)
(* CaptureWriter left on the disk, in whatever state that is.  A record    *)
(* tells the file its payload goes to (Telemetry).                         *)
(***************************************************************************)
EXTENDS CaptureWriter, SequencesExt, Selection

\* Positions of a file that the file header and whole records take.
Extent(records) ==
    2 + FoldFunction(+, 0, [i \in DOMAIN records |-> 2 + Len(PayloadUnits(records[i]))])

\* CaptureReader::error() at the end: no whole file header, or a record cut short.
\* Fault: half a record header is taken for the end of the file.
ReaderErrorFault(units) ==
    ~CompleteAt(units, 1) \/ Len(units) > Extent(Read(units)) + 1
ReaderError(units) ==
    ~CompleteAt(units, 1) \/ Len(units) > Extent(Read(units))

Rows(records, stem) ==
    Selected(records, {i \in DOMAIN records : records[i].stem = stem})

\* export_capture() when writing fails after n rows.
Export(units, n) ==
    LET read == Read(units)
        written == SubSeq(read, 1, Min({n, Len(read)}))
    IN  [csv |-> [stem \in {r.stem : r \in ToSet(written)} |-> Rows(written, stem)],
         error |-> n < Len(read) \/ ReaderError(units)]

-----------------------------------------------------------------------------
(* Properties.                                                             *)

\* csv_export.hpp:29: after any failure of the writer and any crash, the CSVs
\* hold the accepted records (ReaderGetsPrefix) before the place where the
\* capture is cut or the rows cannot be written, each in the file of its kind
\* and in their order, and an export without error has left nothing out.
ExportHoldsAllBefore ==
    /\ ReaderGetsPrefix
    /\ \A n \in 0 .. MaxRecords :
        LET e == Export(disk, n)
            m == FoldFunction(+, 0, [s \in DOMAIN e.csv |-> Len(e.csv[s])])
        IN  /\ \A s \in DOMAIN e.csv : e.csv[s] = Rows(SubSeq(log, 1, m), s)
            /\ m < n => m = Len(Read(disk))
            /\ ~e.error => Len(disk) = Extent(SubSeq(log, 1, m))
            /\ file \in {"closed", "unsynced"} /\ ~failed /\ n = MaxRecords =>
                  ~e.error /\ m = Len(log)

=============================================================================
