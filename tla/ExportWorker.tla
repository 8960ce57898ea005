---------------------------- MODULE ExportWorker ----------------------------
(***************************************************************************)
(* The export pipeline: the worker loops of handlers/export_worker.go, the   *)
(* download functions of handlers/camera_export.go they call, and the HTTP   *)
(* handlers that cancel, delete, purge, retry and restart, all working on    *)
(* the table of ExportDB.                                                   *)
(*                                                                         *)
(* A worker loop is a goroutine; it processes one job at a time, and pc      *)
(* names the statement of processExportJob it is about to execute.  A         *)
(* request is one HTTP call (or one tick of exportCleanupLoop); its steps    *)
(* are the database statements and file removals of its handler.            *)
(***************************************************************************)
EXTENDS ExportDB

CONSTANTS
    Loops,         \* identities for exportWorkerLoop goroutines
    MainLoop,      \* the loop InitExportWorker starts
    MaxConcurrent, \* Export.MaxConcurrent
    EncodeH264,    \* Export.EncodeH264, and the recorder sends H.265
    OneDrive,      \* Export.OneDrive is configured
    Requests,      \* slots for HTTP requests, each used once
    Ops,           \* Ops[r]: the operations request r may ask for
    Faults,        \* the faults that may happen, see AllFaults
    MaxReboots,    \* bound: crashes of the process
    MaxUploads,    \* bound: uploads of one job
    NoJob, NoLoop, NoDir

AllOps == {"cancel", "delete", "purge", "sweep", "retry", "restart"}

(***************************************************************************)
(* isapi    an ISAPI download fails and FFmpeg is tried                     *)
(* tiny     a segment file has less than 1024 bytes                         *)
(* onedrive a call to OneDrive fails                                        *)
(* dbread   GetExportJobByUID returns an error inside isCancelled           *)
(* dbwrite  UpdateExportJobStatus fails, and the worker ignores it          *)
(***************************************************************************)
AllFaults == {"isapi", "tiny", "onedrive", "dbread", "dbwrite"}

ASSUME WorkerAssumption ==
    /\ MainLoop \in Loops
    /\ MaxConcurrent \in Nat \ {0}
    /\ EncodeH264 \in BOOLEAN
    /\ OneDrive \in BOOLEAN
    /\ Ops \in [Requests -> SUBSET AllOps]
    /\ Faults \subseteq AllFaults
    /\ MaxReboots \in Nat
    /\ MaxUploads \in Nat
    /\ NoJob \notin Jobs
    /\ NoLoop \notin Loops
    /\ NoDir \notin Dirs

VARIABLES
    rows,      \* cd_export_queue
    files,     \* the files in the export directories
    remote,    \* the uploads that exist on OneDrive, as <<job, number>>
    uploads,   \* uploads[j]: how many uploads of job j were made
    chans,     \* cancelChans: the loop whose channel is registered for a job
    closed,    \* the loops whose current cancel channel is closed
    w,         \* w[l]: the local state of loop l
    exportDir, \* the global of that name
    late,      \* jobs for which an FFmpeg monitor is about to write progress
    req,       \* req[r]: the local state of request r
    reboots

vars == <<rows, files, remote, uploads, chans, closed, w, exportDir, late, req, reboots>>

-----------------------------------------------------------------------------
(* Loops: off and idle have no job; owning loops are past the claim.        *)

OwningPC == {"search", "segment", "announce", "isapi", "reading", "chunk",
             "fallback", "ffmpeg", "start", "stream", "remux", "stat", "encode",
             "collect", "assemble", "record", "publish", "open", "upload", "share",
             "unlink", "complete", "fail"}
BusyPC == OwningPC \cup {"register", "check", "claim", "leave"}
PC == BusyPC \cup {"off", "idle", "pick"}

LoopState == [pc    : PC,
              job   : Jobs \cup {NoJob},
              saved : Dirs \cup {NoDir},  \* origExportDir, once overridden
              seg   : 0..MaxSegments,
              nseg  : 0..MaxSegments,
              got   : SUBSET File,        \* segmentFiles
              out   : SUBSET File,        \* the path being written
              link  : Nat]                \* the upload just made, 0 if none

IdleLoop(pc) == [pc |-> pc, job |-> NoJob, saved |-> NoDir, seg |-> 0,
                 nseg |-> 0, got |-> {}, out |-> {}, link |-> 0]

Processing(l, j) == w[l].pc \in BusyPC /\ w[l].job = j
Owns(l, j) == w[l].pc \in OwningPC /\ w[l].job = j

Goto(l, pc) == w' = [w EXCEPT ![l].pc = pc]

\* isCancelled: a missing row, or an error of the read, counts as cancelled.
IsCancelled(j) == \/ rows[j].status = "cancelled"
                  \/ ~HasRow(rows, j)
                  \/ "dbread" \in Faults
NotCancelled(j) == rows[j].status # "cancelled" /\ HasRow(rows, j)

\* A status write whose error is dropped.
SetStatus(j, s) ==
    \/ rows' = UpdateExportJobStatus(rows, j, s)
    \/ "dbwrite" \in Faults /\ rows' = rows

\* onProgress: throttled to one write every two seconds.
OnProgress(j, s) == rows' = rows \/ SetStatus(j, s)

\* buildExportPath for the current segment, and for the job.
SegPath(l) == <<w[l].job, exportDir, w[l].seg, "plain">>
FinalPath(l) == <<w[l].job, exportDir, 0, "plain">>
Encoded(f) == [f EXCEPT ![4] = "h264"]

-----------------------------------------------------------------------------
(* Submitting, polling and claiming.                                        *)

\* CameraExportStartHandler
Submit(j) ==
    /\ rows[j].status = "unborn"
    /\ rows' = InsertExportJob(rows, j)
    /\ UNCHANGED <<files, remote, uploads, chans, closed, w, exportDir, late, req, reboots>>

\* A tick of the loop: the capacity test, a statement of its own.
Tick(l) ==
    /\ w[l].pc = "idle"
    /\ CountActiveExportJobs(rows) < MaxConcurrent
    /\ Goto(l, "pick")
    /\ UNCHANGED <<rows, files, remote, uploads, chans, closed, exportDir, late, req, reboots>>

Pick(l) ==
    /\ w[l].pc = "pick"
    /\ \/ GetNextQueuedJob(rows) = {} /\ Goto(l, "idle")
       \/ \E j \in GetNextQueuedJob(rows) :
             w' = [w EXCEPT ![l].pc = "register", ![l].job = j]
    /\ UNCHANGED <<rows, files, remote, uploads, chans, closed, exportDir, late, req, reboots>>

\* Mutant: the channel is made but not stored.
RegisterNothing(l) ==
    /\ w[l].pc = "register"
    /\ closed' = closed \ {l}
    /\ Goto(l, "check")
    /\ UNCHANGED <<rows, files, remote, uploads, chans, exportDir, late, req, reboots>>

Register(l) ==
    /\ w[l].pc = "register"
    /\ chans' = [chans EXCEPT ![w[l].job] = l]
    /\ closed' = closed \ {l}
    /\ Goto(l, "check")
    /\ UNCHANGED <<rows, files, remote, uploads, exportDir, late, req, reboots>>

\* Mutant: the test for a cancelled job is dropped.
CheckNothing(l) ==
    /\ w[l].pc = "check"
    /\ Goto(l, "claim")
    /\ UNCHANGED <<rows, files, remote, uploads, chans, closed, exportDir, late, req, reboots>>

Check(l) ==
    /\ w[l].pc = "check"
    /\ \/ IsCancelled(w[l].job) /\ Goto(l, "leave")
       \/ NotCancelled(w[l].job) /\ Goto(l, "claim")
    /\ UNCHANGED <<rows, files, remote, uploads, chans, closed, exportDir, late, req, reboots>>

\* The recorder is unknown or has no credentials.
RejectNVR(l) ==
    /\ w[l].pc = "claim"
    /\ SetStatus(w[l].job, "failed")
    /\ Goto(l, "leave")
    /\ UNCHANGED <<files, remote, uploads, chans, closed, exportDir, late, req, reboots>>

Claim(l) ==
    /\ w[l].pc = "claim"
    /\ SetStatus(w[l].job, "downloading")
    /\ exportDir' = ConfigDir
    /\ w' = [w EXCEPT ![l].pc = "search", ![l].saved = exportDir]
    /\ UNCHANGED <<files, remote, uploads, chans, closed, late, req, reboots>>

\* Time parsing, searchNVRRecordings and the overlap filter.  The file of a
\* recording that covers the whole range has the name of the final file.
Search(l) ==
    /\ w[l].pc = "search"
    /\ \/ Goto(l, "fail")
       \/ Goto(l, "segment")
       \/ \E n \in 1..MaxSegments :
             w' = [w EXCEPT ![l].pc = "segment", ![l].seg = 1, ![l].nseg = n]
    /\ UNCHANGED <<rows, files, remote, uploads, chans, closed, exportDir, late, req, reboots>>

\* Mutant: an early return that does not report the failure.
FailSilently(l) ==
    /\ w[l].pc = "fail"
    /\ Goto(l, "leave")
    /\ UNCHANGED <<rows, files, remote, uploads, chans, closed, exportDir, late, req, reboots>>

Fail(l) ==
    /\ w[l].pc = "fail"
    /\ SetStatus(w[l].job, "failed")
    /\ Goto(l, "leave")
    /\ UNCHANGED <<files, remote, uploads, chans, closed, exportDir, late, req, reboots>>

\* Mutant: the deferred delete(cancelChans, uid) is missing.
ReleaseKeepsChannel(l) ==
    /\ w[l].pc = "leave"
    /\ exportDir' = IF w[l].saved = NoDir THEN exportDir ELSE w[l].saved
    /\ w' = [w EXCEPT ![l] = IdleLoop("idle")]
    /\ UNCHANGED <<rows, files, remote, uploads, chans, closed, late, req, reboots>>

\* The deferred functions of processExportJob.
Release(l) ==
    /\ w[l].pc = "leave"
    /\ exportDir' = IF w[l].saved = NoDir THEN exportDir ELSE w[l].saved
    /\ chans' = [chans EXCEPT ![w[l].job] = NoLoop]
    /\ w' = [w EXCEPT ![l] = IdleLoop("idle")]
    /\ UNCHANGED <<rows, files, remote, uploads, closed, late, req, reboots>>

-----------------------------------------------------------------------------
(* The loop over the segments.                                              *)

\* Mutant: no cleanupFiles(segmentFiles) before the return.
AbandonFiles(l) == IsCancelled(w[l].job) /\ files' = files /\ Goto(l, "leave")

Abandon(l) ==
    /\ IsCancelled(w[l].job)
    /\ files' = files \ w[l].got
    /\ Goto(l, "leave")

Segment(l) ==
    /\ w[l].pc = "segment"
    /\ \/ Abandon(l)
       \/ NotCancelled(w[l].job) /\ Goto(l, "announce") /\ files' = files
    /\ UNCHANGED <<rows, remote, uploads, chans, closed, exportDir, late, req, reboots>>

Announce(l) ==
    /\ w[l].pc = "announce"
    /\ OnProgress(w[l].job, "downloading")
    /\ Goto(l, "isapi")
    /\ UNCHANGED <<files, remote, uploads, chans, closed, exportDir, late, req, reboots>>

\* runISAPIDownloadQueued up to the loop over the response body.
IsapiOpen(l) ==
    /\ w[l].pc = "isapi"
    /\ files' = files \cup {SegPath(l)}
    /\ rows' = UpdateExportJobFile(rows, w[l].job, {SegPath(l)})
    /\ w' = [w EXCEPT ![l].pc = "reading", ![l].out = {SegPath(l)}]
    /\ UNCHANGED <<remote, uploads, chans, closed, exportDir, late, req, reboots>>

IsapiRefused(l) ==
    /\ w[l].pc = "isapi"
    /\ "isapi" \in Faults
    /\ Goto(l, "fallback")
    /\ UNCHANGED <<rows, files, remote, uploads, chans, closed, exportDir, late, req, reboots>>

\* The head of the read loop: a closed channel removes the file.
IsapiPoll(l) ==
    /\ w[l].pc = "reading"
    /\ IF l \in closed
       THEN files' = files \ w[l].out /\ Goto(l, "stat")
       ELSE files' = files /\ Goto(l, "chunk")
    /\ UNCHANGED <<rows, remote, uploads, chans, closed, exportDir, late, req, reboots>>

IsapiChunk(l) ==
    /\ w[l].pc = "chunk"
    /\ OnProgress(w[l].job, "downloading")
    /\ Goto(l, "reading")
    /\ UNCHANGED <<files, remote, uploads, chans, closed, exportDir, late, req, reboots>>

\* End of the body, or a read error after enough bytes.
IsapiEnd(l) ==
    /\ w[l].pc = "chunk"
    /\ OnProgress(w[l].job, "downloading")
    /\ Goto(l, "stat")
    /\ UNCHANGED <<files, remote, uploads, chans, closed, exportDir, late, req, reboots>>

\* A write error is reported as failed; an early read error is not reported.
IsapiError(l) ==
    /\ w[l].pc = "chunk"
    /\ "isapi" \in Faults
    /\ rows' = rows \/ SetStatus(w[l].job, "failed")
    /\ Goto(l, "fallback")
    /\ UNCHANGED <<files, remote, uploads, chans, closed, exportDir, late, req, reboots>>

Fallback(l) ==
    /\ w[l].pc = "fallback"
    /\ \/ Abandon(l)
       \/ NotCancelled(w[l].job) /\ Goto(l, "ffmpeg") /\ files' = files
    /\ UNCHANGED <<rows, remote, uploads, chans, closed, exportDir, late, req, reboots>>

\* runFFmpegExportQueued: file_path is written before FFmpeg starts.
FfmpegPath(l) ==
    /\ w[l].pc = "ffmpeg"
    /\ rows' = UpdateExportJobFile(rows, w[l].job, {SegPath(l)})
    /\ w' = [w EXCEPT ![l].pc = "start", ![l].out = {SegPath(l)}]
    /\ UNCHANGED <<files, remote, uploads, chans, closed, exportDir, late, req, reboots>>

FfmpegStart(l) ==
    /\ w[l].pc = "start"
    /\ \/ Goto(l, "stream") /\ rows' = rows
       \/ Goto(l, "stat") /\ SetStatus(w[l].job, "failed")
    /\ UNCHANGED <<files, remote, uploads, chans, closed, exportDir, late, req, reboots>>

\* The stderr scanner reports, until FFmpeg exits or is killed.
FfmpegProgress(l) ==
    /\ w[l].pc = "stream"
    /\ OnProgress(w[l].job, "downloading")
    /\ UNCHANGED <<files, remote, uploads, chans, closed, w, exportDir, late, req, reboots>>

FfmpegExit(l) ==
    /\ w[l].pc = "stream"
    /\ Goto(l, "remux")
    /\ UNCHANGED <<rows, files, remote, uploads, chans, closed, exportDir, late, req, reboots>>

\* The monitor goroutine reads the row, and writes progress some time later.
MonitorRead(l) ==
    /\ w[l].pc = "stream"
    /\ l \notin closed
    /\ NotCancelled(w[l].job)
    /\ late' = late \cup {w[l].job}
    /\ UNCHANGED <<rows, files, remote, uploads, chans, closed, w, exportDir, req, reboots>>

MonitorWrite(j) ==
    /\ j \in late
    /\ OnProgress(j, "downloading")
    /\ late' = late \ {j}
    /\ UNCHANGED <<files, remote, uploads, chans, closed, w, exportDir, req, reboots>>

\* The MKV is too small, its remux fails, or it becomes the segment file.
Remux(l) ==
    /\ w[l].pc = "remux"
    /\ \/ files' = files \cup w[l].out /\ OnProgress(w[l].job, "downloading")
       \/ files' \in {files, files \ w[l].out} /\ SetStatus(w[l].job, "failed")
    /\ Goto(l, "stat")
    /\ UNCHANGED <<remote, uploads, chans, closed, exportDir, late, req, reboots>>

\* Mutant: one segment too many.
NextSegmentPastEnd(l, got) ==
    w' = IF w[l].seg <= w[l].nseg
         THEN [w EXCEPT ![l].pc = "segment", ![l].seg = @ + 1, ![l].got = got]
         ELSE [w EXCEPT ![l].pc = "collect", ![l].got = got]

NextSegment(l, got) ==
    w' = IF w[l].seg < w[l].nseg
         THEN [w EXCEPT ![l].pc = "segment", ![l].seg = @ + 1, ![l].got = got]
         ELSE [w EXCEPT ![l].pc = "collect", ![l].got = got]

\* Mutant: a missing segment is downloaded again, without a limit.
StatRetries(l) ==
    /\ w[l].pc = "stat"
    /\ \/ SegPath(l) \notin files /\ Goto(l, "segment")
       \/ /\ SegPath(l) \in files
          /\ w' = [w EXCEPT ![l].pc = "encode", ![l].out = {SegPath(l)}]
    /\ UNCHANGED <<rows, files, remote, uploads, chans, closed, exportDir, late, req, reboots>>

\* The path is built again; a file that is not there is skipped silently.
Stat(l) ==
    /\ w[l].pc = "stat"
    /\ \/ /\ SegPath(l) \notin files \/ "tiny" \in Faults
          /\ NextSegment(l, w[l].got)
       \/ /\ SegPath(l) \in files
          /\ w' = [w EXCEPT ![l].pc = "encode", ![l].out = {SegPath(l)}]
    /\ UNCHANGED <<rows, files, remote, uploads, chans, closed, exportDir, late, req, reboots>>

EncodeProgress(l) ==
    /\ w[l].pc = "encode"
    /\ EncodeH264
    /\ OnProgress(w[l].job, "encoding")
    /\ UNCHANGED <<files, remote, uploads, chans, closed, w, exportDir, late, req, reboots>>

\* The segment is re-encoded into a second file, which replaces it.
Encode(l) ==
    LET enc == {Encoded(f) : f \in w[l].out}
    IN  /\ w[l].pc = "encode"
        /\ EncodeH264
        /\ w[l].out \subseteq files
        /\ files' = (files \ w[l].out) \cup enc
        /\ NextSegment(l, w[l].got \cup enc)
        /\ UNCHANGED <<rows, remote, uploads, chans, closed, exportDir, late, req, reboots>>

\* It is H.264 already, or re-encoding it has failed.
KeepEncoding(l) ==
    /\ w[l].pc = "encode"
    /\ NextSegment(l, w[l].got \cup w[l].out)
    /\ UNCHANGED <<rows, files, remote, uploads, chans, closed, exportDir, late, req, reboots>>

-----------------------------------------------------------------------------
(* Assembling, publishing and finishing.                                    *)

Collect(l) ==
    /\ w[l].pc = "collect"
    /\ IF w[l].got = {}
       THEN Goto(l, "fail") /\ rows' = rows
       ELSE /\ w' = [w EXCEPT ![l].pc = "assemble", ![l].out = {FinalPath(l)}]
            /\ IF Cardinality(w[l].got) > 1
               THEN OnProgress(w[l].job, "encoding")
               ELSE rows' = rows
    /\ UNCHANGED <<files, remote, uploads, chans, closed, exportDir, late, req, reboots>>

\* FFmpeg may stop at a file it cannot open and still succeed; a single file is
\* not looked at when it has its final name already.
CanAssemble(l) == IF Cardinality(w[l].got) > 1
                  THEN w[l].got \cap files # {}
                  ELSE w[l].got = w[l].out \/ w[l].got \subseteq files

\* concatSegments or rename: the segment files become the final file.
Assemble(l) ==
    /\ w[l].pc = "assemble"
    /\ CanAssemble(l)
    /\ files' = IF w[l].got = w[l].out THEN files ELSE (files \ w[l].got) \cup w[l].out
    /\ OnProgress(w[l].job, "encoding")
    /\ Goto(l, "record")
    /\ UNCHANGED <<remote, uploads, chans, closed, exportDir, late, req, reboots>>

\* A failed concatenation or copy removes its output, if it has opened it.
AssembleFails(l) ==
    /\ w[l].pc = "assemble"
    /\ w[l].got # w[l].out
    /\ files' \in {files \ w[l].got, files \ (w[l].got \cup w[l].out)}
    /\ Goto(l, "fail")
    /\ UNCHANGED <<rows, remote, uploads, chans, closed, exportDir, late, req, reboots>>

RecordFile(l) ==
    /\ w[l].pc = "record"
    /\ rows' = UpdateExportJobFile(rows, w[l].job, w[l].out)
    /\ Goto(l, "publish")
    /\ UNCHANGED <<files, remote, uploads, chans, closed, exportDir, late, req, reboots>>

Publish(l) ==
    /\ w[l].pc = "publish"
    /\ IF OneDrive
       THEN OnProgress(w[l].job, "uploading") /\ Goto(l, "open")
       ELSE rows' = rows /\ Goto(l, "unlink")
    /\ UNCHANGED <<files, remote, uploads, chans, closed, exportDir, late, req, reboots>>

\* UploadExportToOneDrive opens the file once its token and folder are there.
UploadOpen(l) ==
    /\ w[l].pc = "open"
    /\ uploads[w[l].job] < MaxUploads
    /\ \/ w[l].out \subseteq files /\ Goto(l, "upload")
       \/ (~(w[l].out \subseteq files) \/ "onedrive" \in Faults) /\ Goto(l, "unlink")
    /\ UNCHANGED <<rows, files, remote, uploads, chans, closed, exportDir, late, req, reboots>>

UploadProgress(l) ==
    /\ w[l].pc = "upload"
    /\ OnProgress(w[l].job, "uploading")
    /\ UNCHANGED <<files, remote, uploads, chans, closed, w, exportDir, late, req, reboots>>

\* Mutant: the upload replaces the item of an earlier run, under the same link.
UploadReplaces(l) ==
    /\ w[l].pc = "upload"
    /\ uploads' = [uploads EXCEPT ![w[l].job] = 1]
    /\ remote' = remote \cup {<<w[l].job, 1>>}
    /\ w' = [w EXCEPT ![l].pc = "share", ![l].link = 1]
    /\ UNCHANGED <<rows, files, chans, closed, exportDir, late, req, reboots>>

\* The upload makes a new item (conflictBehavior "rename") and a share link.
UploadEnds(l) ==
    LET j == w[l].job
        n == uploads[j] + 1
    IN  /\ w[l].pc = "upload"
        /\ uploads' = [uploads EXCEPT ![j] = n]
        /\ remote' = remote \cup {<<j, n>>}
        /\ \/ w' = [w EXCEPT ![l].pc = "share", ![l].link = n]
           \/ "onedrive" \in Faults /\ Goto(l, "unlink")
        /\ UNCHANGED <<rows, files, chans, closed, exportDir, late, req, reboots>>

\* A chunk is refused: nothing is stored.
UploadFails(l) ==
    /\ w[l].pc = "upload"
    /\ "onedrive" \in Faults
    /\ Goto(l, "unlink")
    /\ UNCHANGED <<rows, files, remote, uploads, chans, closed, exportDir, late, req, reboots>>

\* Mutant: the share link is not stored.
ShareNothing(l) ==
    /\ w[l].pc = "share"
    /\ Goto(l, "unlink")
    /\ UNCHANGED <<rows, files, remote, uploads, chans, closed, exportDir, late, req, reboots>>

Share(l) ==
    /\ w[l].pc = "share"
    /\ rows' = UpdateExportJobShareLink(rows, w[l].job, w[l].link)
    /\ Goto(l, "unlink")
    /\ UNCHANGED <<files, remote, uploads, chans, closed, exportDir, late, req, reboots>>

\* The local file goes whether or not it was uploaded; the e-mail follows.
Unlink(l) ==
    /\ w[l].pc = "unlink"
    /\ files' = files \ w[l].out
    /\ Goto(l, "complete")
    /\ UNCHANGED <<rows, remote, uploads, chans, closed, exportDir, late, req, reboots>>

Complete(l) ==
    /\ w[l].pc = "complete"
    /\ SetStatus(w[l].job, "complete")
    /\ Goto(l, "leave")
    /\ UNCHANGED <<files, remote, uploads, chans, closed, exportDir, late, req, reboots>>

-----------------------------------------------------------------------------
(* The HTTP handlers.                                                       *)

ReqState == [op   : AllOps \cup {"none"},
             job  : Jobs \cup {NoJob},
             at   : {"new", "write", "signal", "select", "drop", "unshare", "reset",
                     "verify", "spawn", "remove", "done", "error"},
             path : SUBSET File,   \* file paths read from the table
             link : Nat]           \* the share link read from the table

NewRequest == [op |-> "none", job |-> NoJob, at |-> "new", path |-> {}, link |-> 0]

Arrives(r, op) == req[r].at = "new" /\ op \in Ops[r]
Begin(r, op, j, at, p, n) ==
    req' = [req EXCEPT ![r] = [op |-> op, job |-> j, at |-> at, path |-> p, link |-> n]]
At(r, op, at) == req[r].op = op /\ req[r].at = at
Advance(r, at) == req' = [req EXCEPT ![r].at = at]

\* CameraExportCancelHandler: it tests nothing but that the row exists.
CancelRead(r, j) ==
    /\ Arrives(r, "cancel")
    /\ HasRow(rows, j)
    /\ Begin(r, "cancel", j, "write", rows[j].path, 0)
    /\ UNCHANGED <<rows, files, remote, uploads, chans, closed, w, exportDir, late, reboots>>

CancelWrite(r) ==
    /\ At(r, "cancel", "write")
    /\ rows' = UpdateExportJobStatus(rows, req[r].job, "cancelled")
    /\ Advance(r, "signal")
    /\ UNCHANGED <<files, remote, uploads, chans, closed, w, exportDir, late, reboots>>

\* CancelExportJob
CancelSignal(r) ==
    /\ At(r, "cancel", "signal")
    /\ closed' = closed \cup ({chans[req[r].job]} \ {NoLoop})
    /\ Advance(r, "remove")
    /\ UNCHANGED <<rows, files, remote, uploads, chans, w, exportDir, late, reboots>>

\* os.Remove of the paths read earlier: the last step of every handler but one.
RemoveFiles(r) ==
    /\ req[r].at = "remove"
    /\ files' = files \ req[r].path
    /\ IF req[r].op = "retry" THEN Advance(r, "reset") ELSE Advance(r, "done")
    /\ UNCHANGED <<rows, remote, uploads, chans, closed, w, exportDir, late, reboots>>

\* CameraExportDeleteHandler, and the two statements of DeleteExportJob.
DeleteRead(r, j) ==
    /\ Arrives(r, "delete")
    /\ rows[j].status \in TerminalStatus
    /\ Begin(r, "delete", j, "select", {}, 0)
    /\ UNCHANGED <<rows, files, remote, uploads, chans, closed, w, exportDir, late, reboots>>

DeleteSelect(r) ==
    /\ At(r, "delete", "select")
    /\ req' = [req EXCEPT ![r].at = "drop", ![r].path = SelectPaths(rows, {req[r].job})]
    /\ UNCHANGED <<rows, files, remote, uploads, chans, closed, w, exportDir, late, reboots>>

DeleteDrop(r) ==
    /\ At(r, "delete", "drop")
    /\ rows' = DeleteRows(rows, {req[r].job})
    /\ Advance(r, "remove")
    /\ UNCHANGED <<files, remote, uploads, chans, closed, w, exportDir, late, reboots>>

\* Mutant: the paths of all rows are selected, not those of finished jobs.
PurgeSelectAll(r) ==
    /\ Arrives(r, "purge")
    /\ Begin(r, "purge", NoJob, "drop", SelectPaths(rows, Jobs), 0)
    /\ UNCHANGED <<rows, files, remote, uploads, chans, closed, w, exportDir, late, reboots>>

\* CameraExportPurgeHandler and PurgeCompletedExportJobs.
PurgeSelect(r) ==
    /\ Arrives(r, "purge")
    /\ Begin(r, "purge", NoJob, "drop", SelectPaths(rows, TerminalJobs(rows)), 0)
    /\ UNCHANGED <<rows, files, remote, uploads, chans, closed, w, exportDir, late, reboots>>

PurgeDrop(r) ==
    /\ At(r, "purge", "drop")
    /\ rows' = DeleteRows(rows, TerminalJobs(rows))
    /\ Advance(r, "remove")
    /\ UNCHANGED <<files, remote, uploads, chans, closed, w, exportDir, late, reboots>>

\* One tick of exportCleanupLoop and CleanupOldExportJobs.
SweepSelect(r) ==
    /\ Arrives(r, "sweep")
    /\ Begin(r, "sweep", NoJob, "drop", SelectPaths(rows, AgedJobs(rows)), 0)
    /\ UNCHANGED <<rows, files, remote, uploads, chans, closed, w, exportDir, late, reboots>>

SweepDrop(r) ==
    /\ At(r, "sweep", "drop")
    /\ rows' = DeleteRows(rows, AgedJobs(rows))
    /\ Advance(r, "remove")
    /\ UNCHANGED <<files, remote, uploads, chans, closed, w, exportDir, late, reboots>>

\* The retention period of a finished row runs out.
Age(j) ==
    /\ \E r \in Requests : "sweep" \in Ops[r]
    /\ rows[j].status \in TerminalStatus
    /\ ~rows[j].aged
    /\ rows' = [rows EXCEPT ![j].aged = TRUE]
    /\ UNCHANGED <<files, remote, uploads, chans, closed, w, exportDir, late, req, reboots>>

\* CameraExportRetryHandler and ResetExportJobForRetry.
RetryRead(r, j) ==
    /\ Arrives(r, "retry")
    /\ rows[j].status \in TerminalStatus
    /\ Begin(r, "retry", j, "unshare", rows[j].path, rows[j].link)
    /\ UNCHANGED <<rows, files, remote, uploads, chans, closed, w, exportDir, late, reboots>>

RetryUnshare(r) ==
    /\ At(r, "retry", "unshare")
    /\ \/ remote' = remote \ {<<req[r].job, req[r].link>>}
       \/ "onedrive" \in Faults /\ remote' = remote
    /\ Advance(r, "remove")
    /\ UNCHANGED <<rows, files, uploads, chans, closed, w, exportDir, late, reboots>>

RetryReset(r) ==
    /\ At(r, "retry", "reset")
    /\ rows' = ResetExportJobForRetry(rows, req[r].job)
    /\ Advance(r, "verify")
    /\ UNCHANGED <<files, remote, uploads, chans, closed, w, exportDir, late, reboots>>

\* The row is read back; anything but queued is answered with an error.
RetryVerify(r) ==
    /\ At(r, "retry", "verify")
    /\ IF rows[req[r].job].status = "queued" THEN Advance(r, "done") ELSE Advance(r, "error")
    /\ UNCHANGED <<rows, files, remote, uploads, chans, closed, w, exportDir, late, reboots>>

\* RestartExportWorker: the reset, then one more loop.
RestartReset(r) ==
    /\ Arrives(r, "restart")
    /\ rows' = ResetStuckExportJobs(rows)
    /\ Begin(r, "restart", NoJob, "spawn", {}, 0)
    /\ UNCHANGED <<files, remote, uploads, chans, closed, w, exportDir, late, reboots>>

RestartSpawn(r) ==
    /\ At(r, "restart", "spawn")
    /\ \E l \in Loops : w[l].pc = "off" /\ Goto(l, "idle")
    /\ Advance(r, "done")
    /\ UNCHANGED <<rows, files, remote, uploads, chans, closed, exportDir, late, reboots>>

-----------------------------------------------------------------------------
(***************************************************************************)
(* The process dies and is started again: InitExportWorker resets the        *)
(* stuck rows before any loop or handler runs, so no step falls between.     *)
(***************************************************************************)
BootLoops == [l \in Loops |-> IdleLoop(IF l = MainLoop THEN "idle" ELSE "off")]

Reboot ==
    /\ reboots < MaxReboots
    /\ reboots' = reboots + 1
    /\ rows' = ResetStuckExportJobs(rows)
    /\ chans' = [j \in Jobs |-> NoLoop]
    /\ closed' = {}
    /\ w' = BootLoops
    /\ exportDir' = DefaultDir
    /\ late' = {}
    /\ req' = [r \in Requests |->
                  IF req[r].at = "new" THEN req[r] ELSE [req[r] EXCEPT !.at = "done"]]
    /\ UNCHANGED <<files, remote, uploads>>

Init ==
    /\ rows = [j \in Jobs |-> EmptyRow("unborn")]
    /\ files = {}
    /\ remote = {}
    /\ uploads = [j \in Jobs |-> 0]
    /\ chans = [j \in Jobs |-> NoLoop]
    /\ closed = {}
    /\ w = BootLoops
    /\ exportDir = DefaultDir
    /\ late = {}
    /\ req = [r \in Requests |-> NewRequest]
    /\ reboots = 0

Poll(l) == Tick(l) \/ Pick(l) \/ Register(l) \/ Check(l) \/ RejectNVR(l) \/ Claim(l)
           \/ Search(l) \/ Fail(l) \/ Release(l)

Download(l) == Segment(l) \/ Announce(l) \/ IsapiOpen(l) \/ IsapiRefused(l) \/ IsapiPoll(l)
               \/ IsapiChunk(l) \/ IsapiEnd(l) \/ IsapiError(l) \/ Fallback(l)
               \/ FfmpegPath(l) \/ FfmpegStart(l) \/ FfmpegProgress(l) \/ FfmpegExit(l)
               \/ MonitorRead(l) \/ Remux(l) \/ Stat(l) \/ EncodeProgress(l) \/ Encode(l)
               \/ KeepEncoding(l)

Deliver(l) == Collect(l) \/ Assemble(l) \/ AssembleFails(l) \/ RecordFile(l) \/ Publish(l)
              \/ UploadOpen(l) \/ UploadProgress(l) \/ UploadEnds(l) \/ UploadFails(l)
              \/ Share(l) \/ Unlink(l) \/ Complete(l)

LoopStep(l) == Poll(l) \/ Download(l) \/ Deliver(l)

Arrival(r) == \/ \E j \in Jobs : CancelRead(r, j) \/ DeleteRead(r, j) \/ RetryRead(r, j)
              \/ PurgeSelect(r) \/ SweepSelect(r) \/ RestartReset(r)

Handle(r) == CancelWrite(r) \/ CancelSignal(r) \/ RemoveFiles(r) \/ DeleteSelect(r)
             \/ DeleteDrop(r) \/ PurgeDrop(r) \/ SweepDrop(r) \/ RetryUnshare(r)
             \/ RetryReset(r) \/ RetryVerify(r) \/ RestartSpawn(r)

Next == \/ \E j \in Jobs : Submit(j) \/ Age(j) \/ MonitorWrite(j)
        \/ \E l \in Loops : LoopStep(l)
        \/ \E r \in Requests : Arrival(r) \/ Handle(r)
        \/ Reboot

Spec == Init /\ [][Next]_vars

(***************************************************************************)
(* Goroutines keep running, and what a loop waits for answers: FFmpeg, the   *)
(* database and Graph have time limits.  The ISAPI download has none, so the  *)
(* end of its body is an assumption about the recorder.  Nobody is obliged   *)
(* to submit, cancel, retry or crash.                                       *)
(***************************************************************************)
Fairness == \A l \in Loops : WF_vars(LoopStep(l)) /\ SF_vars(IsapiEnd(l))

FairSpec == Spec /\ Fairness

-----------------------------------------------------------------------------
(* Properties.                                                              *)

\* The values every variable may take.
TypeOK ==
    /\ rows \in [Jobs -> Row]
    /\ files \subseteq File
    /\ remote \subseteq Jobs \X Nat
    /\ uploads \in [Jobs -> Nat]
    /\ chans \in [Jobs -> Loops \cup {NoLoop}]
    /\ closed \subseteq Loops
    /\ w \in [Loops -> LoopState]
    /\ exportDir \in Dirs
    /\ late \subseteq Jobs
    /\ req \in [Requests -> ReqState]
    /\ reboots \in 0..MaxReboots

\* A row in an active state has a loop working on it.  Otherwise the row counts
\* against MaxConcurrent and blocks its recorder in GetNextQueuedJob until the
\* next restart, and no code path takes it out of that state.
ActiveOwned == \A j \in ActiveJobs(rows) : \E l \in Loops : Owns(l, j)

\* A registered cancel channel belongs to a loop that is processing that job:
\* processExportJob leaves no channel behind, on any of its returns.
ChannelLive == \A j \in Jobs : chans[j] # NoLoop => Processing(chans[j], j)

\* A job past its claim can be reached by CancelExportJob.
CancelReachable == \A l \in Loops : w[l].pc \in OwningPC => chans[w[l].job] = l

\* A file in the export directory belongs to a job that is being processed:
\* every return of processExportJob has removed what it and the download
\* functions wrote.
NoLeftover == \A f \in files : \E l \in Loops : Owns(l, f[1])

RetryHolds(j) == \E r \in Requests : /\ req[r].op = "retry"
                                     /\ req[r].job = j
                                     /\ req[r].at \in {"remove", "reset"}
                                     /\ req[r].link = rows[j].link

\* A share link in the table points at an upload that exists, unless a retry has
\* deleted it and is about to clear the link.
LinkBacked == \A j \in Jobs :
    rows[j].link # 0 => <<j, rows[j].link>> \in remote \/ RetryHolds(j)

\* An upload is referenced by its row, or about to be, unless the row is deleted:
\* no run of a job leaves an item on OneDrive nobody can find.
NoOrphan == \A u \in remote :
    \/ rows[u[1]].link = u[2]
    \/ rows[u[1]].status = "deleted"
    \/ \E l \in Loops : Owns(l, u[1]) /\ w[l].link = u[2]

\* The handlers of finished jobs never remove a file of a job being processed.
RemovalSafe == \A r \in Requests : req[r].at = "remove" /\ req[r].op # "cancel" =>
                  \A f \in req[r].path : \A l \in Loops : ~Owns(l, f[1])

\* Cancelled before the isCancelled test of any loop that took the job.
CancelledInTime(j) == /\ rows[j].status = "cancelled"
                      /\ j \notin late
                      /\ \A l \in Loops : ~Owns(l, j) /\ ~(w[l].pc = "claim" /\ w[l].job = j)

\* A cancel that lands before the worker tests for it holds: no loop starts on
\* the job afterwards and no write revives its row, short of a retry.
CancelHolds == [][\A j \in Jobs : CancelledInTime(j) =>
                     CancelledInTime(j)' \/ rows'[j].status \in {"queued", "deleted"}]_vars

\* Every queued job is taken up, failed or cancelled: no submission waits forever.
QueueDrains == \A j \in Jobs : rows[j].status = "queued" ~> rows[j].status # "queued"

\* processExportJob returns, whatever its calls answer.
LoopReturns == \A l \in Loops : w[l].pc \in BusyPC ~> w[l].pc \in {"idle", "off"}

-----------------------------------------------------------------------------
(* What a comment of the source says and the code does not do.               *)

\* "CameraExportCancelHandler cancels a queued or running export": once it has
\* answered, the job never reports progress or completion again.
CancelIsFinal == [][\A j \in Jobs : rows[j].status = "cancelled" =>
                       rows'[j].status \notin ActiveStatus \cup TerminalStatus]_vars
=============================================================================
