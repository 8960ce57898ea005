------------------------------ MODULE ExportDB ------------------------------
(***************************************************************************)
(* The table cd_export_queue and the SQL statements of                     *)
(* db/export_queries.go.  A table is a function from job UIDs to rows; a    *)
(* statement is an operator from a table to a table (UPDATE, INSERT,        *)
(* DELETE) or to its answer (SELECT).  SQLite is opened with one connection *)
(* (db/sqlite.go), so a statement is atomic; a Go function that issues two   *)
(* of them is not, and its caller is modelled with one step per statement.  *)
(***************************************************************************)
EXTENDS Naturals, FiniteSets

CONSTANTS
    Jobs,         \* the job UIDs that may be submitted
    NvrOf,        \* NvrOf[j]: the recorder job j reads from
    CreatedAt,    \* CreatedAt[j]: the created_at column of job j
    DefaultDir,   \* exportDir as initExportDir leaves it
    ConfigDir,    \* Export.ExportDir of the configuration
    MaxSegments   \* bound: recording segments found for one job

ASSUME DBAssumption ==
    /\ MaxSegments \in Nat \ {0}
    /\ CreatedAt \in [Jobs -> Nat]

Dirs == {DefaultDir, ConfigDir}

\* Name 0 is the final MP4 of a job, name i the file of its i-th segment;
\* the "h264" form is what reencodeH264 writes beside it.
Names == 0..MaxSegments
Forms == {"plain", "h264"}
File == Jobs \X Dirs \X Names \X Forms

ActiveStatus == {"downloading", "encoding", "uploading", "processing"}
TerminalStatus == {"complete", "failed"}
PresentStatus == ActiveStatus \cup TerminalStatus \cup {"queued", "cancelled"}
AbsentStatus == {"unborn", "deleted"}

(***************************************************************************)
(* path is file_path (a set with at most one file), link is share_link      *)
(* (0 when empty, otherwise the number of the upload it points at), aged    *)
(* says that completed_at lies before the retention cutoff.                 *)
(***************************************************************************)
Row == [status : PresentStatus \cup AbsentStatus,
        path   : SUBSET File,
        link   : Nat,
        aged   : BOOLEAN]

EmptyRow(s) == [status |-> s, path |-> {}, link |-> 0, aged |-> FALSE]

HasRow(t, j) == t[j].status \in PresentStatus
ActiveJobs(t) == {j \in Jobs : t[j].status \in ActiveStatus}
TerminalJobs(t) == {j \in Jobs : t[j].status \in TerminalStatus}
AgedJobs(t) == {j \in TerminalJobs(t) : t[j].aged}

-----------------------------------------------------------------------------
\* UPDATE ... WHERE job_uid = j: nothing happens when the row is gone.
Update(t, j, r) == IF HasRow(t, j) THEN [t EXCEPT ![j] = r] ELSE t

InsertExportJob(t, j) == [t EXCEPT ![j] = EmptyRow("queued")]

\* Unconditional on the status the row has; completed_at is rewritten.
UpdateExportJobStatus(t, j, s) ==
    Update(t, j, [t[j] EXCEPT !.status = s, !.aged = FALSE])

UpdateExportJobFile(t, j, p) == Update(t, j, [t[j] EXCEPT !.path = p])

UpdateExportJobShareLink(t, j, n) == Update(t, j, [t[j] EXCEPT !.link = n])

CountActiveExportJobs(t) == Cardinality(ActiveJobs(t))

\* Mutant: a recorder counts as busy while any of its jobs has left the queue.
AnyJobKeepsNvrBusy(t) ==
    LET busy     == {NvrOf[j] : j \in {i \in Jobs : HasRow(t, i) /\ t[i].status # "queued"}}
        eligible == {j \in Jobs : t[j].status = "queued" /\ NvrOf[j] \notin busy}
    IN  {j \in eligible : \A k \in eligible : CreatedAt[j] <= CreatedAt[k]}

\* The rows GetNextQueuedJob may return: ties of created_at are broken freely.
GetNextQueuedJob(t) ==
    LET busy     == {NvrOf[j] : j \in ActiveJobs(t)}
        eligible == {j \in Jobs : t[j].status = "queued" /\ NvrOf[j] \notin busy}
    IN  {j \in eligible : \A k \in eligible : CreatedAt[j] <= CreatedAt[k]}

\* DELETE of the rows in S, the second statement of three functions.
DeleteRows(t, S) == [j \in Jobs |-> IF j \in S THEN EmptyRow("deleted") ELSE t[j]]

\* The first statement of those functions: the file_path column of the rows in S.
SelectPaths(t, S) == UNION {t[j].path : j \in S}

\* Mutant: the retry forgets to clear share_link.
ResetKeepsLink(t, j) == Update(t, j, [EmptyRow("queued") EXCEPT !.link = t[j].link])

ResetExportJobForRetry(t, j) == Update(t, j, EmptyRow("queued"))

\* Mutant: jobs that were re-encoding or joining are not recovered.
ResetForgetsEncoding(t) ==
    [j \in Jobs |-> IF t[j].status \in ActiveStatus \ {"encoding"}
                    THEN [t[j] EXCEPT !.status = "queued"]
                    ELSE t[j]]

\* file_path and share_link survive this one.
ResetStuckExportJobs(t) ==
    [j \in Jobs |-> IF t[j].status \in ActiveStatus
                    THEN [t[j] EXCEPT !.status = "queued"]
                    ELSE t[j]]
=============================================================================
