----------------------------- MODULE CaptureLog -----------------------------
(***************************************************************************)
(* What the capture writer promises to its caller, without buffers and     *)
(* bytes: records accepted are appended to a log, and a reader of the file *)
(* gets the first `readable' of them, of which the first `safe' survive    *)
(* power loss.  Once an operation has failed nothing is accepted any more. *)
(* CaptureWriter implements it; Receiver is built on it.                   *)
(***************************************************************************)
EXTENDS Naturals, Sequences

CONSTANT Record  \* the records

VARIABLES
    file,      \* "none", "open", "closed", "unsynced" (closed, but the fsync()
               \* was refused) or "dead" (the process crashed)
    failed,    \* failed()
    log,       \* the records accepted since the file was opened
    readable,  \* how many of them a reader of the file gets
    safe       \* how many of them survive power loss

logVars == <<file, failed, log, readable, safe>>

LogInit ==
    /\ file = "none"
    /\ failed = FALSE
    /\ log = << >>
    /\ readable = 0
    /\ safe = 0

-----------------------------------------------------------------------------

\* open(): an existing file is truncated.
LogOpen ==
    /\ file # "open"
    /\ file' = "open" /\ failed' = FALSE
    /\ log' = << >> /\ readable' = 0 /\ safe' = 0

\* fopen() fails and the old content stays, or the header cannot be written.
LogOpenFails ==
    /\ file # "open"
    /\ file' = "none" /\ failed' = TRUE
    /\ \/ UNCHANGED <<log, readable, safe>>
       \/ log' = << >> /\ readable' = 0 /\ safe' = 0

\* open() of a file that is open is an error.
LogOpenAgain ==
    /\ file = "open"
    /\ failed' = TRUE
    /\ UNCHANGED <<file, log, readable, safe>>

Accepts == file = "open" /\ ~failed

\* write_record()
LogWrite(r) ==
    /\ Accepts
    /\ log' = Append(log, r)
    /\ readable' \in readable .. Len(log) + 1
    /\ UNCHANGED <<file, failed, safe>>

LogWriteFails ==
    /\ Accepts
    /\ failed' = TRUE
    /\ readable' \in readable .. Len(log)
    /\ UNCHANGED <<file, log, safe>>

\* What a reader gets after a flush: everything, unless a failure lost a part.
\* Fault: nothing is written out.
FlushedFault == {readable}
Flushed == {Len(log)} \cup (IF failed THEN {readable} ELSE {})

\* flush(sync)
LogFlush(sync) ==
    /\ file = "open"
    /\ readable' \in Flushed
    /\ safe' = IF sync THEN readable' ELSE safe
    /\ UNCHANGED <<file, failed, log>>

LogFlushFails ==
    /\ file = "open"
    /\ failed' = TRUE
    /\ readable' \in readable .. Len(log)
    /\ UNCHANGED <<file, log, safe>>

\* close(): what is readable survives power loss too, unless the file cannot be
\* synced (EINVAL, EROFS), which is no error.
LogClose ==
    /\ file = "open"
    /\ readable' \in Flushed
    /\ \/ file' = "closed" /\ safe' = readable'
       \/ file' = "unsynced" /\ safe' = safe
    /\ UNCHANGED <<failed, log>>

LogCloseFails ==
    /\ file = "open"
    /\ file' = "closed" /\ failed' = TRUE
    /\ readable' \in readable .. Len(log)
    /\ safe' \in safe .. readable'
    /\ UNCHANGED log

\* The process dies; the machine may lose power as well.
LogCrash ==
    /\ file' = "dead"
    /\ readable' \in safe .. readable
    /\ UNCHANGED <<failed, log, safe>>

LogNext ==
    \/ LogOpen \/ LogOpenFails \/ LogOpenAgain
    \/ (\E r \in Record : LogWrite(r)) \/ LogWriteFails
    \/ (\E sync \in BOOLEAN : LogFlush(sync)) \/ LogFlushFails
    \/ LogClose \/ LogCloseFails \/ LogCrash

LogSpec == LogInit /\ [][LogNext]_logVars

=============================================================================
