--------------------------- MODULE CaptureWriter ---------------------------
(***************************************************************************)
(* The capture file writer (tools/receiver/lib/capture_writer.cpp) on top  *)
(* of stdio and the kernel, and the reader of what it leaves               *)
(* (capture_reader.cpp).  Every operation may fail part way; the process   *)
(* may crash and the machine lose power at any time.                       *)
(*                                                                         *)
(* Bytes are abstracted to units <<record, n>>: units 1 and 2 are the two  *)
(* halves of a header, units 3 and 4 those of a payload, so that a file    *)
(* may end within a header or a payload.  Record 0 is the file header.     *)
(***************************************************************************)
EXTENDS Integers, Sequences

CONSTANTS
    Record,       \* the records, [id, empty]
    BufferSizes,  \* the values of capture_buffer_bytes, in units
    MaxRecords    \* bound on the records accepted

ASSUME CaptureWriterAssumption == BufferSizes \subseteq Nat /\ MaxRecords \in Nat

VARIABLES
    file,    \* file_: "none", "open", "closed", "unsynced" when it was closed
             \* without the fsync(), which was refused, or "dead" with the process
    failed,  \* failed_
    capacity,  \* the size of the stdio buffer
    buffer,  \* the stdio buffer
    disk,    \* the file as the kernel has it
    synced,  \* how many units of it are on stable storage
    log      \* history: the records accepted since open(), records_ in number

vars == <<file, failed, capacity, buffer, disk, synced, log>>

-----------------------------------------------------------------------------
(* Encoding and stdio (external).                                          *)

HeaderUnits(r) == << <<r, 1>>, <<r, 2>> >>
PayloadUnits(r) == IF r.empty THEN << >> ELSE << <<r, 3>>, <<r, 4>> >>

FileHeader == [id |-> 0, empty |-> TRUE]

\* fwrite() or fflush() hands the first n units over to the kernel.
Pending(units) == buffer \o units
Handed(units, n) == disk \o SubSeq(Pending(units), 1, n)
Rest(units, n) == SubSeq(Pending(units), n + 1, Len(Pending(units)))

\* A successful fwrite() keeps at most a buffer full.
Fwrite(units) ==
    \E n \in 0 .. Len(Pending(units)) :
        /\ Len(Pending(units)) - n <= capacity
        /\ disk' = Handed(units, n)
        /\ buffer' = Rest(units, n)

\* A failed one needed the kernel; what was not handed over is dropped.
FwriteFails(units) ==
    /\ Len(Pending(units)) > capacity
    /\ \E n \in 0 .. Len(Pending(units)) - 1 : disk' = Handed(units, n)
    /\ buffer' = << >>

-----------------------------------------------------------------------------
(* The writer.                                                             *)

Open ==
    /\ file # "open"
    /\ file' = "open" /\ failed' = FALSE
    /\ \E n \in 0 .. 2 : /\ 2 - n <= capacity
                         /\ disk' = SubSeq(HeaderUnits(FileHeader), 1, n)
                         /\ buffer' = SubSeq(HeaderUnits(FileHeader), n + 1, 2)
    /\ synced' = 0
    /\ log' = << >>
    /\ UNCHANGED capacity

\* fopen() fails, or the header cannot be written to the truncated file.
OpenFails ==
    /\ file # "open"
    /\ file' = "none" /\ failed' = TRUE
    /\ buffer' = << >>
    /\ \/ UNCHANGED <<disk, synced, log>>
       \/ /\ capacity < 2
          /\ \E n \in 0 .. 1 : disk' = SubSeq(HeaderUnits(FileHeader), 1, n)
          /\ synced' = 0 /\ log' = << >>
    /\ UNCHANGED capacity

OpenAgain ==
    /\ file = "open"
    /\ failed' = TRUE
    /\ UNCHANGED <<capacity, file, buffer, disk, synced, log>>

\* Fault: a failure does not stop the writer.
AcceptsFault == file = "open"
Accepts == file = "open" /\ ~failed

WriteRecord(r) ==
    /\ Accepts
    /\ Len(log) < MaxRecords
    /\ Fwrite(HeaderUnits(r) \o PayloadUnits(r))
    /\ log' = Append(log, r)
    /\ UNCHANGED <<capacity, file, failed, synced>>

\* The header, or the payload after a complete header, cannot be written.
WriteRecordFails(r) ==
    /\ Accepts
    /\ Len(log) < MaxRecords
    /\ FwriteFails(HeaderUnits(r)) \/ FwriteFails(HeaderUnits(r) \o PayloadUnits(r))
    /\ failed' = TRUE
    /\ UNCHANGED <<capacity, file, synced, log>>

\* fsync() after fflush().  Fault: fsync() without fflush().
SyncFault(sync) ==
    /\ disk' = disk /\ buffer' = buffer
    /\ synced' = IF sync THEN Len(disk) ELSE synced
Sync(sync) ==
    /\ disk' = disk \o buffer /\ buffer' = << >>
    /\ synced' = IF sync THEN Len(disk') ELSE synced

FlushFailure ==
    \/ /\ buffer # << >>
       /\ \E n \in 0 .. Len(buffer) - 1 : disk' = Handed(<< >>, n)
    \/ disk' = disk \o buffer

Flush(sync) ==
    /\ file = "open"
    /\ Sync(sync)
    /\ UNCHANGED <<capacity, file, failed, log>>

\* fflush() fails and drops the buffer, or fsync() fails after it.
FlushFails ==
    /\ file = "open"
    /\ FlushFailure /\ buffer' = << >>
    /\ failed' = TRUE
    /\ UNCHANGED <<capacity, file, synced, log>>

\* Fault: the file is closed without being flushed.
CloseFault ==
    /\ file = "open"
    /\ file' = "closed"
    /\ buffer' = << >> /\ disk' = disk /\ synced' = Len(disk)
    /\ UNCHANGED <<failed, capacity, log>>
\* close() takes EINVAL and EROFS from fsync() for success: then the file is
\* closed without error, but nothing was forced to stable storage.
Close ==
    /\ file = "open"
    /\ \/ file' = "closed" /\ Sync(TRUE)
       \/ file' = "unsynced" /\ Sync(FALSE)
    /\ UNCHANGED <<capacity, failed, log>>

\* Any of fflush(), fsync() and fclose() fails, fsync() with another error.
CloseFails ==
    /\ file = "open"
    /\ file' = "closed" /\ failed' = TRUE
    /\ FlushFailure /\ buffer' = << >>
    /\ synced' \in {synced, Len(disk')}
    /\ UNCHANGED <<capacity, log>>

\* The process dies; the power may fail with it.
Crash ==
    /\ file' = "dead"
    /\ buffer' = << >>
    /\ \E n \in synced .. Len(disk) : disk' = SubSeq(disk, 1, n)
    /\ UNCHANGED <<capacity, failed, synced, log>>

Init ==
    /\ file = "none"
    /\ failed = FALSE
    /\ capacity \in BufferSizes
    /\ buffer = << >>
    /\ disk = << >>
    /\ synced = 0
    /\ log = << >>

Next ==
    \/ Open \/ OpenFails \/ OpenAgain
    \/ \E r \in Record : WriteRecord(r) \/ WriteRecordFails(r)
    \/ (\E sync \in BOOLEAN : Flush(sync)) \/ FlushFails
    \/ Close \/ CloseFails \/ Crash

Spec == Init /\ [][Next]_vars

-----------------------------------------------------------------------------
(* The reader: open() and next() until it returns false.                   *)

\* The record whose units are at position p of the file, if it is complete.
\* Fault: the length of what was read of the payload is not compared.
HeaderAt(units, p) ==
    p + 1 <= Len(units) /\ SubSeq(units, p, p + 1) = HeaderUnits(units[p][1])
CompleteAtFault(units, p) == HeaderAt(units, p)
CompleteAt(units, p) ==
    /\ HeaderAt(units, p)
    /\ LET payload == PayloadUnits(units[p][1])
       IN  /\ p + 1 + Len(payload) <= Len(units)
           /\ SubSeq(units, p + 2, p + 1 + Len(payload)) = payload

ReadFrom(units) ==
    LET read[p \in Nat \ {0}] ==
            IF ~CompleteAt(units, p) THEN << >>
            ELSE LET r == units[p][1]
                 IN  <<r>> \o read[p + 2 + Len(PayloadUnits(r))]
    IN  read[1]

\* What a reader returns for a file: nothing unless the file header is whole.
Read(units) ==
    IF CompleteAt(units, 1) /\ units[1][1] = FileHeader
      THEN Tail(ReadFrom(units)) ELSE << >>

-----------------------------------------------------------------------------
(* Properties.                                                             *)

\* Types of the variables.
TypeOK ==
    /\ file \in {"none", "open", "closed", "unsynced", "dead"}
    /\ failed \in BOOLEAN
    /\ log \in Seq(Record)
    /\ synced \in 0 .. Len(disk)
    /\ Len(buffer) <= capacity
    /\ file # "open" => buffer = << >>

Prefix(s, t) == Len(s) <= Len(t) /\ s = SubSeq(t, 1, Len(s))

\* Whatever failed, and wherever a crash cut the file, a reader gets records
\* that were accepted, in the order they were accepted, each complete.
ReaderGetsPrefix == Prefix(Read(disk), log)

\* The writer implements the abstract log: what a reader gets only grows while
\* the file is open, is everything after a flush, and what a flush with sync
\* put on stable storage survives a crash; a file closed without error holds
\* every record, on stable storage unless the fsync() was refused.
Log == INSTANCE CaptureLog
         WITH readable <- Len(Read(disk)),
              safe <- Len(Read(SubSeq(disk, 1, synced)))
ImplementsLog == Log!LogSpec

=============================================================================
