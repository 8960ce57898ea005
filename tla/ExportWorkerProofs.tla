------------------------- MODULE ExportWorkerProofs -------------------------
(***************************************************************************)
(* Theorems of the export pipeline, for any set of jobs, any number of       *)
(* worker loops and requests, and any bounds.                               *)
(***************************************************************************)
EXTENDS ExportWorker, TLAPS

-----------------------------------------------------------------------------
(* The strengthening of TypeOK: who has a job has one of Jobs.              *)

WorkTyped == \A l \in Loops : w[l].pc \in BusyPC => w[l].job \in Jobs
RequestTyped == \A r \in Requests :
    req[r].op \in {"cancel", "delete", "retry"} => req[r].job \in Jobs

TypeInv == TypeOK /\ WorkTyped /\ RequestTyped

-----------------------------------------------------------------------------
(* Lemmas on the table operators.                                           *)

\* An update with a row keeps the table a table.
LEMMA UpdateType ==
    ASSUME NEW t \in [Jobs -> Row], NEW j \in Jobs, NEW r \in Row
    PROVE  Update(t, j, r) \in [Jobs -> Row]
BY DEF Update

\* A status write keeps the table a table.
LEMMA StatusType ==
    ASSUME NEW t \in [Jobs -> Row], NEW j \in Jobs, NEW s \in PresentStatus
    PROVE  UpdateExportJobStatus(t, j, s) \in [Jobs -> Row]
<1>1. [t[j] EXCEPT !.status = s, !.aged = FALSE] \in Row
  BY DEF Row
<1> QED
  BY <1>1, UpdateType DEF UpdateExportJobStatus

\* So do the writes of the two result columns.
LEMMA FileType ==
    ASSUME NEW t \in [Jobs -> Row], NEW j \in Jobs, NEW p \in SUBSET File
    PROVE  UpdateExportJobFile(t, j, p) \in [Jobs -> Row]
<1>1. [t[j] EXCEPT !.path = p] \in Row
  BY DEF Row
<1> QED
  BY <1>1, UpdateType DEF UpdateExportJobFile

LEMMA LinkType ==
    ASSUME NEW t \in [Jobs -> Row], NEW j \in Jobs, NEW n \in Nat
    PROVE  UpdateExportJobShareLink(t, j, n) \in [Jobs -> Row]
<1>1. [t[j] EXCEPT !.link = n] \in Row
  BY DEF Row
<1> QED
  BY <1>1, UpdateType DEF UpdateExportJobShareLink

\* A row as INSERT, a retry or a DELETE leaves it.
LEMMA EmptyRowType ==
    ASSUME NEW s \in PresentStatus \cup AbsentStatus
    PROVE  EmptyRow(s) \in Row
BY DEF EmptyRow, Row

\* Deleting rows, and the paths selected before that.
LEMMA DeleteType ==
    ASSUME NEW t \in [Jobs -> Row], NEW S
    PROVE  DeleteRows(t, S) \in [Jobs -> Row]
<1>1. EmptyRow("deleted") \in Row
  BY EmptyRowType DEF AbsentStatus
<1> QED
  BY <1>1 DEF DeleteRows

LEMMA SelectType ==
    ASSUME NEW t \in [Jobs -> Row], NEW S \in SUBSET Jobs
    PROVE  SelectPaths(t, S) \in SUBSET File
<1>1. \A j \in S : t[j].path \in SUBSET File
  BY DEF Row
<1> QED
  BY <1>1 DEF SelectPaths

\* The reset of stuck jobs, and of one job for its retry.
LEMMA StuckType ==
    ASSUME NEW t \in [Jobs -> Row]
    PROVE  ResetStuckExportJobs(t) \in [Jobs -> Row]
<1>1. \A j \in Jobs : [t[j] EXCEPT !.status = "queued"] \in Row
  BY DEF Row, PresentStatus
<1> QED
  BY <1>1 DEF ResetStuckExportJobs

LEMMA RetryType ==
    ASSUME NEW t \in [Jobs -> Row], NEW j \in Jobs
    PROVE  ResetExportJobForRetry(t, j) \in [Jobs -> Row]
<1>1. EmptyRow("queued") \in Row
  BY EmptyRowType DEF PresentStatus
<1> QED
  BY <1>1, UpdateType DEF ResetExportJobForRetry

-----------------------------------------------------------------------------
(* Lemmas on the steps of a loop.                                           *)

\* A loop that moves to another statement stays well typed.
LEMMA GotoType ==
    ASSUME w \in [Loops -> LoopState], NEW l \in Loops, NEW pc \in PC, Goto(l, pc)
    PROVE  /\ w' \in [Loops -> LoopState]
           /\ w'[l] = [w[l] EXCEPT !.pc = pc]
           /\ \A m \in Loops \ {l} : w'[m] = w[m]
           /\ w'[l].pc = pc /\ w'[l].job = w[l].job
BY DEF Goto, LoopState

\* The worker's status writes, and its throttled progress reports.
LEMMA SetStatusType ==
    ASSUME rows \in [Jobs -> Row], NEW j \in Jobs, NEW s \in PresentStatus, SetStatus(j, s)
    PROVE  rows' \in [Jobs -> Row]
BY StatusType DEF SetStatus

LEMMA OnProgressType ==
    ASSUME rows \in [Jobs -> Row], NEW j \in Jobs, NEW s \in PresentStatus, OnProgress(j, s)
    PROVE  rows' \in [Jobs -> Row]
BY SetStatusType DEF OnProgress

\* The paths a loop builds are files.
LEMMA PathType ==
    ASSUME TypeInv, NEW l \in Loops, w[l].pc \in BusyPC
    PROVE  /\ w[l].job \in Jobs
           /\ SegPath(l) \in File /\ FinalPath(l) \in File
           /\ w[l].got \in SUBSET File /\ w[l].out \in SUBSET File
<1>1. w[l].job \in Jobs /\ w[l] \in LoopState /\ exportDir \in Dirs
  BY DEF TypeInv, TypeOK, WorkTyped
<1>2. w[l].seg \in Names /\ 0 \in Names
  BY <1>1, DBAssumption DEF LoopState, Names
<1> QED
  BY <1>1, <1>2 DEF LoopState, SegPath, FinalPath, File, Forms

\* A step of a busy loop that goes elsewhere and touches the table and the files.
LEMMA QuietStep ==
    ASSUME TypeInv, NEW l \in Loops, w[l].pc \in BusyPC, NEW pc \in PC, Goto(l, pc),
           rows' \in [Jobs -> Row], files' \subseteq File,
           UNCHANGED <<remote, uploads, chans, closed, exportDir, late, req, reboots>>
    PROVE  TypeInv'
<1>1. TypeOK'
  BY GotoType DEF TypeInv, TypeOK
<1>2. WorkTyped'
  BY GotoType DEF TypeInv, TypeOK, WorkTyped
<1>3. RequestTyped'
  BY DEF TypeInv, RequestTyped
<1> QED
  BY <1>1, <1>2, <1>3 DEF TypeInv

\* A step of a busy loop that sets more of its local state.
LEMMA LocalStep ==
    ASSUME TypeInv, NEW l \in Loops, w' \in [Loops -> LoopState],
           \A m \in Loops \ {l} : w'[m] = w[m],
           w'[l].pc \in BusyPC => w'[l].job \in Jobs,
           rows' \in [Jobs -> Row], files' \subseteq File, chans' \in [Jobs -> Loops \cup {NoLoop}],
           closed' \subseteq Loops, exportDir' \in Dirs,
           UNCHANGED <<remote, uploads, late, req, reboots>>
    PROVE  TypeInv'
<1>1. TypeOK'
  BY DEF TypeInv, TypeOK
<1>2. WorkTyped'
  BY DEF TypeInv, WorkTyped
<1>3. RequestTyped'
  BY DEF TypeInv, RequestTyped
<1> QED
  BY <1>1, <1>2, <1>3 DEF TypeInv

\* A loop that sets the path it writes to.
LEMMA OutType ==
    ASSUME w \in [Loops -> LoopState], NEW l \in Loops, NEW pc \in PC, NEW p \in SUBSET File,
           w' = [w EXCEPT ![l].pc = pc, ![l].out = p]
    PROVE  /\ w' \in [Loops -> LoopState]
           /\ \A m \in Loops \ {l} : w'[m] = w[m]
           /\ w'[l].pc = pc /\ w'[l].job = w[l].job
<1> DEFINE r == [w[l] EXCEPT !.pc = pc, !.out = p]
<1>1. w[l] \in LoopState /\ w' = [w EXCEPT ![l] = r]
  OBVIOUS
<1>2. r \in LoopState /\ r.pc = pc /\ r.job = w[l].job
  BY <1>1 DEF LoopState
<1> HIDE DEF r
<1> QED
  BY <1>1, <1>2

\* The end of an iteration of the segment loop.
LEMMA NextSegmentType ==
    ASSUME w \in [Loops -> LoopState], NEW l \in Loops, NEW got \in SUBSET File,
           NextSegment(l, got)
    PROVE  /\ w' \in [Loops -> LoopState]
           /\ \A m \in Loops \ {l} : w'[m] = w[m]
           /\ w'[l].pc \in {"segment", "collect"} /\ w'[l].job = w[l].job
<1>1. "segment" \in PC /\ "collect" \in PC
  BY DEF PC, BusyPC, OwningPC
<1>2. w[l] \in LoopState
  OBVIOUS
<1>3. CASE w[l].seg < w[l].nseg
  <2> DEFINE r == [w[l] EXCEPT !.pc = "segment", !.seg = @ + 1, !.got = got]
  <2>1. w[l].seg + 1 \in 0..MaxSegments
    BY <1>2, <1>3, DBAssumption DEF LoopState
  <2>2. r \in LoopState
    BY <1>1, <1>2, <2>1 DEF LoopState
  <2>3. r.pc = "segment" /\ r.job = w[l].job
    BY <1>2 DEF LoopState
  <2>4. w' = [w EXCEPT ![l] = r]
    BY <1>3 DEF NextSegment
  <2> HIDE DEF r
  <2> QED
    BY <2>2, <2>3, <2>4
<1>4. CASE ~(w[l].seg < w[l].nseg)
  <2> DEFINE r == [w[l] EXCEPT !.pc = "collect", !.got = got]
  <2>1. r \in LoopState /\ r.pc = "collect" /\ r.job = w[l].job
    BY <1>1, <1>2 DEF LoopState
  <2>2. w' = [w EXCEPT ![l] = r]
    BY <1>4 DEF NextSegment
  <2> HIDE DEF r
  <2> QED
    BY <2>1, <2>2
<1> QED
  BY <1>3, <1>4

-----------------------------------------------------------------------------
(* Type correctness, one step per action.                                   *)

LEMMA PollType ==
    ASSUME TypeInv, NEW l \in Loops, Poll(l)
    PROVE  TypeInv'
<1> USE DEF PC, BusyPC, OwningPC
<1>1. rows \in [Jobs -> Row] /\ files \subseteq File /\ w \in [Loops -> LoopState]
      /\ chans \in [Jobs -> Loops \cup {NoLoop}] /\ closed \subseteq Loops /\ exportDir \in Dirs
  BY DEF TypeInv, TypeOK
<1>2. CASE Tick(l)
  <2>1. w' \in [Loops -> LoopState] /\ (\A m \in Loops \ {l} : w'[m] = w[m]) /\ w'[l].pc = "pick"
    BY <1>1, <1>2, GotoType DEF Tick
  <2> QED
    BY <1>1, <1>2, <2>1, LocalStep DEF Tick
<1>3. CASE Pick(l)
  <2>1. CASE Goto(l, "idle")
    <3>1. w' \in [Loops -> LoopState] /\ (\A m \in Loops \ {l} : w'[m] = w[m]) /\ w'[l].pc = "idle"
      BY <1>1, <2>1, GotoType
    <3> QED
      BY <1>1, <1>3, <3>1, LocalStep DEF Pick
  <2>2. CASE \E j \in GetNextQueuedJob(rows) :
               w' = [w EXCEPT ![l].pc = "register", ![l].job = j]
    <3>1. PICK j \in Jobs : w' = [w EXCEPT ![l].pc = "register", ![l].job = j]
      BY <2>2 DEF GetNextQueuedJob
    <3>2. w' \in [Loops -> LoopState] /\ (\A m \in Loops \ {l} : w'[m] = w[m]) /\ w'[l].job = j
      <4>1. "register" \in PC
        OBVIOUS
      <4> HIDE DEF PC, BusyPC, OwningPC
      <4> DEFINE r == [w[l] EXCEPT !.pc = "register", !.job = j]
      <4>2. w[l] \in LoopState /\ w' = [w EXCEPT ![l] = r]
        BY <1>1, <3>1
      <4>3. r \in LoopState /\ r.job = j
        BY <4>1, <4>2 DEF LoopState
      <4> HIDE DEF r
      <4> QED
        BY <1>1, <4>2, <4>3
    <3> QED
      BY <1>1, <1>3, <3>2, LocalStep DEF Pick
  <2> QED
    BY <1>3, <2>1, <2>2 DEF Pick
<1>4. CASE Register(l)
  <2>1. w' \in [Loops -> LoopState] /\ (\A m \in Loops \ {l} : w'[m] = w[m]) /\ w'[l].job = w[l].job
    BY <1>1, <1>4, GotoType DEF Register
  <2>2. w[l].job \in Jobs
    BY <1>4, PathType DEF Register
  <2> QED
    BY <1>1, <1>4, <2>1, <2>2, LocalStep DEF Register
<1>5. CASE Check(l)
  BY <1>1, <1>5, QuietStep DEF Check
<1>6. CASE RejectNVR(l)
  <2>1. rows' \in [Jobs -> Row]
    BY <1>1, <1>6, PathType, SetStatusType DEF RejectNVR, PresentStatus, TerminalStatus
  <2> QED
    BY <1>1, <1>6, <2>1, QuietStep DEF RejectNVR
<1>7. CASE Claim(l)
  <2>1. rows' \in [Jobs -> Row] /\ w[l].job \in Jobs
    BY <1>1, <1>7, PathType, SetStatusType DEF Claim, PresentStatus, ActiveStatus
  <2>2. w' \in [Loops -> LoopState] /\ (\A m \in Loops \ {l} : w'[m] = w[m]) /\ w'[l].job = w[l].job
    <3>1. "search" \in PC
      OBVIOUS
    <3> HIDE DEF PC, BusyPC, OwningPC
    <3> DEFINE r == [w[l] EXCEPT !.pc = "search", !.saved = exportDir]
    <3>2. w[l] \in LoopState /\ w' = [w EXCEPT ![l] = r]
      BY <1>1, <1>7 DEF Claim
    <3>3. r \in LoopState /\ r.job = w[l].job
      BY <1>1, <3>1, <3>2 DEF LoopState
    <3> HIDE DEF r
    <3> QED
      BY <1>1, <3>2, <3>3
  <2>3. ConfigDir \in Dirs
    BY DEF Dirs
  <2> QED
    BY <1>1, <1>7, <2>1, <2>2, <2>3, LocalStep DEF Claim
<1>8. CASE Search(l)
  <2>1. CASE Goto(l, "fail") \/ Goto(l, "segment")
    BY <1>1, <1>8, <2>1, QuietStep DEF Search
  <2>2. CASE \E n \in 1..MaxSegments :
               w' = [w EXCEPT ![l].pc = "segment", ![l].seg = 1, ![l].nseg = n]
    <3>1. w' \in [Loops -> LoopState] /\ (\A m \in Loops \ {l} : w'[m] = w[m]) /\ w'[l].job = w[l].job
      <4>1. "segment" \in PC
        OBVIOUS
      <4> HIDE DEF PC, BusyPC, OwningPC
      <4>2. PICK n \in 1..MaxSegments :
                w' = [w EXCEPT ![l].pc = "segment", ![l].seg = 1, ![l].nseg = n]
        BY <2>2
      <4>3. n \in 0..MaxSegments /\ 1 \in 0..MaxSegments
        BY DBAssumption
      <4> DEFINE r == [w[l] EXCEPT !.pc = "segment", !.seg = 1, !.nseg = n]
      <4>4. w[l] \in LoopState
        BY <1>1
      <4>5. r \in LoopState
        BY <4>1, <4>3, <4>4 DEF LoopState
      <4>6. r.job = w[l].job
        BY <4>4 DEF LoopState
      <4>7. w' = [w EXCEPT ![l] = r]
        BY <1>1, <4>2
      <4> HIDE DEF r
      <4> QED
        BY <1>1, <4>5, <4>6, <4>7
    <3>2. w[l].job \in Jobs
      BY <1>8, PathType DEF Search
    <3> QED
      BY <1>1, <1>8, <3>1, <3>2, LocalStep DEF Search
  <2> QED
    BY <1>8, <2>1, <2>2 DEF Search
<1>9. CASE Fail(l)
  <2>1. rows' \in [Jobs -> Row]
    BY <1>1, <1>9, PathType, SetStatusType DEF Fail, PresentStatus, TerminalStatus
  <2> QED
    BY <1>1, <1>9, <2>1, QuietStep DEF Fail
<1>10. CASE Release(l)
  <2>1. w' \in [Loops -> LoopState] /\ (\A m \in Loops \ {l} : w'[m] = w[m]) /\ w'[l].pc = "idle"
    <3>1. "idle" \in PC
      OBVIOUS
    <3> HIDE DEF PC, BusyPC, OwningPC
    <3>2. IdleLoop("idle") \in LoopState /\ IdleLoop("idle").pc = "idle"
      BY <3>1, DBAssumption DEF IdleLoop, LoopState
    <3> HIDE DEF IdleLoop
    <3> QED
      BY <1>1, <1>10, <3>2 DEF Release
  <2>2. exportDir' \in Dirs
    BY <1>1, <1>10 DEF Release, LoopState
  <2>3. chans' \in [Jobs -> Loops \cup {NoLoop}]
    BY <1>1, <1>10 DEF Release
  <2> QED
    BY <1>1, <1>10, <2>1, <2>2, <2>3, LocalStep DEF Release
<1> QED
  BY <1>2, <1>3, <1>4, <1>5, <1>6, <1>7, <1>8, <1>9, <1>10 DEF Poll

LEMMA DownloadType ==
    ASSUME TypeInv, NEW l \in Loops, Download(l)
    PROVE  TypeInv'
<1> USE DEF PC, BusyPC, OwningPC
<1>1. rows \in [Jobs -> Row] /\ files \subseteq File /\ w \in [Loops -> LoopState]
      /\ chans \in [Jobs -> Loops \cup {NoLoop}] /\ closed \subseteq Loops /\ exportDir \in Dirs
  BY DEF TypeInv, TypeOK
<1>2. "downloading" \in PresentStatus /\ "encoding" \in PresentStatus /\ "failed" \in PresentStatus
  BY DEF PresentStatus, ActiveStatus, TerminalStatus
<1>3. CASE Segment(l)
  BY <1>1, <1>3, QuietStep DEF Segment, Abandon
<1>4. CASE Announce(l)
  <2>1. rows' \in [Jobs -> Row]
    BY <1>1, <1>2, <1>4, PathType, OnProgressType DEF Announce
  <2> QED
    BY <1>1, <1>4, <2>1, QuietStep DEF Announce
<1>5. CASE IsapiOpen(l)
  <2>1. w[l].job \in Jobs /\ {SegPath(l)} \in SUBSET File /\ "reading" \in PC
    BY <1>5, PathType DEF IsapiOpen
  <2>2. rows' \in [Jobs -> Row] /\ files' \subseteq File
    BY <1>1, <1>5, <2>1, FileType DEF IsapiOpen
  <2>3. w' \in [Loops -> LoopState] /\ (\A m \in Loops \ {l} : w'[m] = w[m]) /\ w'[l].job = w[l].job
    BY <1>1, <1>5, <2>1, OutType DEF IsapiOpen
  <2> QED
    BY <1>1, <1>5, <2>1, <2>2, <2>3, LocalStep DEF IsapiOpen
<1>6. CASE IsapiRefused(l)
  BY <1>1, <1>6, QuietStep DEF IsapiRefused
<1>7. CASE IsapiPoll(l)
  BY <1>1, <1>7, QuietStep DEF IsapiPoll
<1>8. CASE IsapiChunk(l)
  <2>1. rows' \in [Jobs -> Row]
    BY <1>1, <1>2, <1>8, PathType, OnProgressType DEF IsapiChunk
  <2> QED
    BY <1>1, <1>8, <2>1, QuietStep DEF IsapiChunk
<1>9. CASE IsapiEnd(l)
  <2>1. rows' \in [Jobs -> Row]
    BY <1>1, <1>2, <1>9, PathType, OnProgressType DEF IsapiEnd
  <2> QED
    BY <1>1, <1>9, <2>1, QuietStep DEF IsapiEnd
<1>10. CASE IsapiError(l)
  <2>1. rows' \in [Jobs -> Row]
    BY <1>1, <1>2, <1>10, PathType, SetStatusType DEF IsapiError
  <2> QED
    BY <1>1, <1>10, <2>1, QuietStep DEF IsapiError
<1>11. CASE Fallback(l)
  BY <1>1, <1>11, QuietStep DEF Fallback, Abandon
<1>12. CASE FfmpegPath(l)
  <2>1. w[l].job \in Jobs /\ {SegPath(l)} \in SUBSET File /\ "start" \in PC
    BY <1>12, PathType DEF FfmpegPath
  <2>2. rows' \in [Jobs -> Row]
    BY <1>1, <1>12, <2>1, FileType DEF FfmpegPath
  <2>3. w' \in [Loops -> LoopState] /\ (\A m \in Loops \ {l} : w'[m] = w[m]) /\ w'[l].job = w[l].job
    BY <1>1, <1>12, <2>1, OutType DEF FfmpegPath
  <2> QED
    BY <1>1, <1>12, <2>1, <2>2, <2>3, LocalStep DEF FfmpegPath
<1>13. CASE FfmpegStart(l)
  <2>1. rows' \in [Jobs -> Row]
    BY <1>1, <1>2, <1>13, PathType, SetStatusType DEF FfmpegStart
  <2> QED
    BY <1>1, <1>13, <2>1, QuietStep DEF FfmpegStart
<1>14. CASE FfmpegProgress(l)
  <2>1. rows' \in [Jobs -> Row] /\ w[l].job \in Jobs
    BY <1>1, <1>2, <1>14, PathType, OnProgressType DEF FfmpegProgress
  <2> QED
    BY <1>1, <1>14, <2>1, LocalStep DEF FfmpegProgress
<1>15. CASE FfmpegExit(l)
  BY <1>1, <1>15, QuietStep DEF FfmpegExit
<1>16. CASE MonitorRead(l)
  <2>1. w[l].job \in Jobs
    BY <1>16, PathType DEF MonitorRead
  <2>2. TypeOK'
    BY <1>16, <2>1 DEF MonitorRead, TypeInv, TypeOK
  <2> QED
    BY <1>16, <2>2 DEF MonitorRead, TypeInv, WorkTyped, RequestTyped
<1>17. CASE Remux(l)
  <2>1. rows' \in [Jobs -> Row]
    BY <1>1, <1>2, <1>17, PathType, SetStatusType, OnProgressType DEF Remux
  <2>2. files' \subseteq File
    BY <1>1, <1>17, PathType DEF Remux
  <2> QED
    BY <1>1, <1>17, <2>1, <2>2, QuietStep DEF Remux
<1>18. CASE Stat(l)
  <2>1. w[l].job \in Jobs /\ {SegPath(l)} \in SUBSET File /\ w[l].got \in SUBSET File /\ "encode" \in PC
    BY <1>18, PathType DEF Stat
  <2>2. w' \in [Loops -> LoopState] /\ (\A m \in Loops \ {l} : w'[m] = w[m]) /\ w'[l].job = w[l].job
    BY <1>1, <1>18, <2>1, OutType, NextSegmentType DEF Stat
  <2> QED
    BY <1>1, <1>18, <2>1, <2>2, LocalStep DEF Stat
<1>19. CASE EncodeProgress(l)
  <2>1. rows' \in [Jobs -> Row] /\ w[l].job \in Jobs
    BY <1>1, <1>2, <1>19, PathType, OnProgressType DEF EncodeProgress
  <2> QED
    BY <1>1, <1>19, <2>1, LocalStep DEF EncodeProgress
<1>20. CASE Encode(l)
  <2> DEFINE enc == {Encoded(f) : f \in w[l].out}
  <2>1. w[l].job \in Jobs /\ w[l].got \in SUBSET File /\ w[l].out \in SUBSET File
    BY <1>20, PathType DEF Encode
  <2>2. enc \in SUBSET File
    <3>1. \A f \in File : Encoded(f) \in File
      BY DEF Encoded, File, Forms
    <3> QED
      BY <2>1, <3>1
  <2>3. NextSegment(l, w[l].got \cup enc) /\ files' = (files \ w[l].out) \cup enc
    BY <1>20 DEF Encode
  <2>4. w' \in [Loops -> LoopState] /\ (\A m \in Loops \ {l} : w'[m] = w[m]) /\ w'[l].job = w[l].job
    <3>1. w[l].got \cup enc \in SUBSET File
      BY <2>1, <2>2
    <3> HIDE DEF enc
    <3> QED
      BY <1>1, <2>3, <3>1, NextSegmentType
  <2>5. files' \subseteq File
    BY <1>1, <2>2, <2>3
  <2> QED
    BY <1>1, <1>20, <2>1, <2>4, <2>5, LocalStep DEF Encode
<1>21. CASE KeepEncoding(l)
  <2>1. w[l].job \in Jobs /\ w[l].got \cup w[l].out \in SUBSET File
    BY <1>21, PathType DEF KeepEncoding
  <2>2. w' \in [Loops -> LoopState] /\ (\A m \in Loops \ {l} : w'[m] = w[m]) /\ w'[l].job = w[l].job
    BY <1>1, <1>21, <2>1, NextSegmentType DEF KeepEncoding
  <2> QED
    BY <1>1, <1>21, <2>1, <2>2, LocalStep DEF KeepEncoding
<1> QED
  BY <1>3, <1>4, <1>5, <1>6, <1>7, <1>8, <1>9, <1>10, <1>11, <1>12, <1>13, <1>14, <1>15,
     <1>16, <1>17, <1>18, <1>19, <1>20, <1>21 DEF Download

LEMMA DeliverType ==
    ASSUME TypeInv, NEW l \in Loops, Deliver(l)
    PROVE  TypeInv'
<1> USE DEF PC, BusyPC, OwningPC
<1>1. rows \in [Jobs -> Row] /\ files \subseteq File /\ w \in [Loops -> LoopState]
      /\ chans \in [Jobs -> Loops \cup {NoLoop}] /\ closed \subseteq Loops /\ exportDir \in Dirs
      /\ remote \subseteq Jobs \X Nat /\ uploads \in [Jobs -> Nat]
  BY DEF TypeInv, TypeOK
<1>2. "uploading" \in PresentStatus /\ "encoding" \in PresentStatus /\ "complete" \in PresentStatus
  BY DEF PresentStatus, ActiveStatus, TerminalStatus
<1>3. CASE Collect(l)
  <2>1. w[l].job \in Jobs /\ {FinalPath(l)} \in SUBSET File /\ "assemble" \in PC
    BY <1>3, PathType DEF Collect
  <2>2. rows' \in [Jobs -> Row]
    BY <1>1, <1>2, <1>3, <2>1, OnProgressType DEF Collect
  <2>3. w' \in [Loops -> LoopState] /\ (\A m \in Loops \ {l} : w'[m] = w[m]) /\ w'[l].job = w[l].job
    <3>1. CASE Goto(l, "fail")
      BY <1>1, <2>1, <3>1, GotoType
    <3>2. CASE w' = [w EXCEPT ![l].pc = "assemble", ![l].out = {FinalPath(l)}]
      BY <1>1, <2>1, <3>2, OutType
    <3> QED
      BY <1>3, <3>1, <3>2 DEF Collect
  <2> QED
    BY <1>1, <1>3, <2>1, <2>2, <2>3, LocalStep DEF Collect
<1>4. CASE Assemble(l)
  <2>1. rows' \in [Jobs -> Row]
    BY <1>1, <1>2, <1>4, PathType, OnProgressType DEF Assemble
  <2>2. files' \subseteq File
    BY <1>1, <1>4, PathType DEF Assemble
  <2> QED
    BY <1>1, <1>4, <2>1, <2>2, QuietStep DEF Assemble
<1>5. CASE AssembleFails(l)
  BY <1>1, <1>5, QuietStep DEF AssembleFails
<1>6. CASE RecordFile(l)
  <2>1. rows' \in [Jobs -> Row]
    BY <1>1, <1>6, PathType, FileType DEF RecordFile
  <2> QED
    BY <1>1, <1>6, <2>1, QuietStep DEF RecordFile
<1>7. CASE Publish(l)
  <2>1. rows' \in [Jobs -> Row]
    BY <1>1, <1>2, <1>7, PathType, OnProgressType DEF Publish
  <2> QED
    BY <1>1, <1>7, <2>1, QuietStep DEF Publish
<1>8. CASE UploadOpen(l)
  BY <1>1, <1>8, QuietStep DEF UploadOpen
<1>9. CASE UploadProgress(l)
  <2>1. rows' \in [Jobs -> Row] /\ w[l].job \in Jobs
    BY <1>1, <1>2, <1>9, PathType, OnProgressType DEF UploadProgress
  <2> QED
    BY <1>1, <1>9, <2>1, LocalStep DEF UploadProgress
<1>10. CASE UploadEnds(l)
  <2> DEFINE j == w[l].job
             n == uploads[j] + 1
  <2>1. j \in Jobs
    BY <1>10, PathType DEF UploadEnds
  <2>2. n \in Nat /\ uploads' = [uploads EXCEPT ![j] = n] /\ remote' = remote \cup {<<j, n>>}
    BY <1>1, <1>10, <2>1 DEF UploadEnds
  <2>3. uploads' \in [Jobs -> Nat] /\ remote' \subseteq Jobs \X Nat
    BY <1>1, <2>1, <2>2
  <2>4. w' \in [Loops -> LoopState] /\ (\A m \in Loops \ {l} : w'[m] = w[m]) /\ w'[l].job = j
    <3>1. CASE w' = [w EXCEPT ![l].pc = "share", ![l].link = n]
      <4>1. "share" \in PC
        OBVIOUS
      <4> HIDE DEF PC, BusyPC, OwningPC, n
      <4>2. [w[l] EXCEPT !.pc = "share", !.link = n] \in LoopState
        BY <1>1, <2>2, <4>1 DEF LoopState
      <4>3. w'[l] = [w[l] EXCEPT !.pc = "share", !.link = n] /\ w[l] \in LoopState
        BY <1>1, <3>1
      <4>4. w'[l].job = j
        BY <4>3 DEF LoopState
      <4> HIDE DEF LoopState
      <4> QED
        BY <1>1, <3>1, <4>2, <4>3, <4>4
    <3>2. CASE Goto(l, "unlink")
      BY <1>1, <3>2, GotoType
    <3> QED
      BY <1>10, <3>1, <3>2 DEF UploadEnds
  <2>5. UNCHANGED <<rows, files, chans, closed, exportDir, late, req, reboots>>
    BY <1>10 DEF UploadEnds
  <2> HIDE DEF PC, BusyPC, OwningPC, n
  <2>6. TypeOK'
    BY <2>3, <2>4, <2>5 DEF TypeInv, TypeOK
  <2>7. WorkTyped' /\ RequestTyped'
    BY <2>1, <2>4, <2>5 DEF TypeInv, WorkTyped, RequestTyped
  <2> QED
    BY <2>6, <2>7 DEF TypeInv
<1>11. CASE UploadFails(l)
  BY <1>1, <1>11, QuietStep DEF UploadFails
<1>12. CASE Share(l)
  <2>1. w[l].job \in Jobs /\ w[l].link \in Nat
    <3> HIDE DEF PC
    <3> QED
      BY <1>1, <1>12, PathType DEF Share, LoopState
  <2>2. rows' \in [Jobs -> Row]
    BY <1>1, <1>12, <2>1, LinkType DEF Share
  <2> QED
    BY <1>1, <1>12, <2>2, QuietStep DEF Share
<1>13. CASE Unlink(l)
  BY <1>1, <1>13, QuietStep DEF Unlink
<1>14. CASE Complete(l)
  <2>1. rows' \in [Jobs -> Row]
    BY <1>1, <1>2, <1>14, PathType, SetStatusType DEF Complete
  <2> QED
    BY <1>1, <1>14, <2>1, QuietStep DEF Complete
<1> QED
  BY <1>3, <1>4, <1>5, <1>6, <1>7, <1>8, <1>9, <1>10, <1>11, <1>12, <1>13, <1>14 DEF Deliver

-----------------------------------------------------------------------------
(* The handlers.                                                            *)

\* A handler that moves on, setting what it has read.
LEMMA RequestStep ==
    ASSUME TypeInv, NEW r \in Requests, NEW q \in ReqState, req' = [req EXCEPT ![r] = q],
           q.op \in {"cancel", "delete", "retry"} => q.job \in Jobs,
           rows' \in [Jobs -> Row], files' \subseteq File, remote' \subseteq Jobs \X Nat,
           closed' \subseteq Loops, w' = w,
           UNCHANGED <<uploads, chans, exportDir, late, reboots>>
    PROVE  TypeInv'
<1>1. TypeOK'
  BY DEF TypeInv, TypeOK
<1>2. RequestTyped'
  BY DEF TypeInv, TypeOK, RequestTyped
<1>3. WorkTyped'
  BY DEF TypeInv, WorkTyped
<1> QED
  BY <1>1, <1>2, <1>3 DEF TypeInv

\* A request that goes to its next step.
LEMMA AdvanceType ==
    ASSUME TypeInv, NEW r \in Requests, Advance(r, "signal") \/ Advance(r, "drop")
               \/ Advance(r, "remove") \/ Advance(r, "reset") \/ Advance(r, "verify")
               \/ Advance(r, "done") \/ Advance(r, "error")
    PROVE  \E q \in ReqState : /\ req' = [req EXCEPT ![r] = q]
                               /\ q.op \in {"cancel", "delete", "retry"} => q.job \in Jobs
<1>1. PICK at \in {"signal", "drop", "remove", "reset", "verify", "done", "error"} : Advance(r, at)
  OBVIOUS
<1> DEFINE q == [req[r] EXCEPT !.at = at]
<1>2. req[r] \in ReqState /\ (req[r].op \in {"cancel", "delete", "retry"} => req[r].job \in Jobs)
  BY DEF TypeInv, TypeOK, RequestTyped
<1>3. q \in ReqState /\ q.op = req[r].op /\ q.job = req[r].job
  BY <1>2 DEF ReqState
<1>4. req' = [req EXCEPT ![r] = q]
  BY <1>1 DEF Advance
<1> HIDE DEF q
<1> QED
  BY <1>2, <1>3, <1>4

LEMMA ArrivalType ==
    ASSUME TypeInv, NEW r \in Requests, Arrival(r)
    PROVE  TypeInv'
<1>1. rows \in [Jobs -> Row] /\ files \subseteq File /\ remote \subseteq Jobs \X Nat
      /\ closed \subseteq Loops
  BY DEF TypeInv, TypeOK
<1>2. ASSUME NEW j \in Jobs, CancelRead(r, j) PROVE TypeInv'
  <2> DEFINE q == [op |-> "cancel", job |-> j, at |-> "write", path |-> rows[j].path, link |-> 0]
  <2>1. q \in ReqState
    <3>1. rows[j].path \in SUBSET File
      BY <1>1 DEF Row
    <3> QED
      BY <3>1 DEF ReqState, AllOps
  <2>2. req' = [req EXCEPT ![r] = q] /\ q.job = j
    BY <1>2 DEF CancelRead, Begin
  <2> HIDE DEF q
  <2> QED
    BY <1>1, <1>2, <2>1, <2>2, RequestStep DEF CancelRead
<1>3. ASSUME NEW j \in Jobs, DeleteRead(r, j) PROVE TypeInv'
  <2> DEFINE q == [op |-> "delete", job |-> j, at |-> "select", path |-> {}, link |-> 0]
  <2>1. q \in ReqState
    BY DEF ReqState, AllOps
  <2>2. req' = [req EXCEPT ![r] = q] /\ q.job = j
    BY <1>3 DEF DeleteRead, Begin
  <2> HIDE DEF q
  <2> QED
    BY <1>1, <1>3, <2>1, <2>2, RequestStep DEF DeleteRead
<1>4. ASSUME NEW j \in Jobs, RetryRead(r, j) PROVE TypeInv'
  <2> DEFINE q == [op |-> "retry", job |-> j, at |-> "unshare",
                   path |-> rows[j].path, link |-> rows[j].link]
  <2>1. q \in ReqState
    <3>1. rows[j].path \in SUBSET File /\ rows[j].link \in Nat
      BY <1>1 DEF Row
    <3> QED
      BY <3>1 DEF ReqState, AllOps
  <2>2. req' = [req EXCEPT ![r] = q] /\ q.job = j
    BY <1>4 DEF RetryRead, Begin
  <2> HIDE DEF q
  <2> QED
    BY <1>1, <1>4, <2>1, <2>2, RequestStep DEF RetryRead
<1>5. CASE PurgeSelect(r)
  <2> DEFINE q == [op |-> "purge", job |-> NoJob, at |-> "drop",
                   path |-> SelectPaths(rows, TerminalJobs(rows)), link |-> 0]
  <2>1. q \in ReqState
    <3>1. SelectPaths(rows, TerminalJobs(rows)) \in SUBSET File
      BY <1>1, SelectType DEF TerminalJobs
    <3> QED
      BY <3>1 DEF ReqState, AllOps
  <2>2. req' = [req EXCEPT ![r] = q] /\ q.op = "purge"
    BY <1>5 DEF PurgeSelect, Begin
  <2> HIDE DEF q
  <2> QED
    BY <1>1, <1>5, <2>1, <2>2, RequestStep DEF PurgeSelect
<1>6. CASE SweepSelect(r)
  <2> DEFINE q == [op |-> "sweep", job |-> NoJob, at |-> "drop",
                   path |-> SelectPaths(rows, AgedJobs(rows)), link |-> 0]
  <2>1. q \in ReqState
    <3>1. SelectPaths(rows, AgedJobs(rows)) \in SUBSET File
      BY <1>1, SelectType DEF AgedJobs, TerminalJobs
    <3> QED
      BY <3>1 DEF ReqState, AllOps
  <2>2. req' = [req EXCEPT ![r] = q] /\ q.op = "sweep"
    BY <1>6 DEF SweepSelect, Begin
  <2> HIDE DEF q
  <2> QED
    BY <1>1, <1>6, <2>1, <2>2, RequestStep DEF SweepSelect
<1>7. CASE RestartReset(r)
  <2> DEFINE q == [op |-> "restart", job |-> NoJob, at |-> "spawn", path |-> {}, link |-> 0]
  <2>1. q \in ReqState
    BY DEF ReqState, AllOps
  <2>2. req' = [req EXCEPT ![r] = q] /\ q.op = "restart"
    BY <1>7 DEF RestartReset, Begin
  <2>3. rows' \in [Jobs -> Row]
    BY <1>1, <1>7, StuckType DEF RestartReset
  <2> HIDE DEF q
  <2> QED
    BY <1>1, <1>7, <2>1, <2>2, <2>3, RequestStep DEF RestartReset
<1> QED
  BY <1>2, <1>3, <1>4, <1>5, <1>6, <1>7 DEF Arrival

LEMMA HandleType ==
    ASSUME TypeInv, NEW r \in Requests, Handle(r)
    PROVE  TypeInv'
<1>1. rows \in [Jobs -> Row] /\ files \subseteq File /\ remote \subseteq Jobs \X Nat
      /\ closed \subseteq Loops /\ chans \in [Jobs -> Loops \cup {NoLoop}]
      /\ w \in [Loops -> LoopState] /\ req[r] \in ReqState
  BY DEF TypeInv, TypeOK
<1>2. req[r].op \in {"cancel", "delete", "retry"} => req[r].job \in Jobs
  BY DEF TypeInv, RequestTyped
<1>3. CASE CancelWrite(r)
  <2>1. rows' \in [Jobs -> Row]
    BY <1>1, <1>2, <1>3, StatusType DEF CancelWrite, At, PresentStatus
  <2> QED
    BY <1>1, <1>3, <2>1, AdvanceType, RequestStep DEF CancelWrite
<1>4. CASE CancelSignal(r)
  <2>1. closed' \subseteq Loops
    BY <1>1, <1>2, <1>4 DEF CancelSignal, At
  <2> QED
    BY <1>1, <1>4, <2>1, AdvanceType, RequestStep DEF CancelSignal
<1>5. CASE RemoveFiles(r)
  <2>1. files' \subseteq File
    BY <1>1, <1>5 DEF RemoveFiles
  <2>2. Advance(r, "reset") \/ Advance(r, "done")
    BY <1>5 DEF RemoveFiles
  <2> QED
    BY <1>1, <1>5, <2>1, <2>2, AdvanceType, RequestStep DEF RemoveFiles
<1>6. CASE DeleteSelect(r)
  <2> DEFINE q == [req[r] EXCEPT !.at = "drop", !.path = SelectPaths(rows, {req[r].job})]
  <2>1. SelectPaths(rows, {req[r].job}) \in SUBSET File
    BY <1>1, <1>2, <1>6, SelectType DEF DeleteSelect, At
  <2>2. q \in ReqState /\ q.op = req[r].op /\ q.job = req[r].job
    BY <1>1, <2>1 DEF ReqState
  <2>3. req' = [req EXCEPT ![r] = q]
    BY <1>1, <1>6 DEF DeleteSelect, TypeInv, TypeOK
  <2> HIDE DEF q
  <2> QED
    BY <1>1, <1>2, <1>6, <2>2, <2>3, RequestStep DEF DeleteSelect
<1>7. CASE DeleteDrop(r)
  <2>1. rows' \in [Jobs -> Row]
    BY <1>1, <1>7, DeleteType DEF DeleteDrop
  <2> QED
    BY <1>1, <1>7, <2>1, AdvanceType, RequestStep DEF DeleteDrop
<1>8. CASE PurgeDrop(r)
  <2>1. rows' \in [Jobs -> Row]
    BY <1>1, <1>8, DeleteType DEF PurgeDrop
  <2> QED
    BY <1>1, <1>8, <2>1, AdvanceType, RequestStep DEF PurgeDrop
<1>9. CASE SweepDrop(r)
  <2>1. rows' \in [Jobs -> Row]
    BY <1>1, <1>9, DeleteType DEF SweepDrop
  <2> QED
    BY <1>1, <1>9, <2>1, AdvanceType, RequestStep DEF SweepDrop
<1>10. CASE RetryUnshare(r)
  <2>1. remote' \subseteq Jobs \X Nat
    BY <1>1, <1>10 DEF RetryUnshare
  <2> QED
    BY <1>1, <1>10, <2>1, AdvanceType, RequestStep DEF RetryUnshare
<1>11. CASE RetryReset(r)
  <2>1. rows' \in [Jobs -> Row]
    BY <1>1, <1>2, <1>11, RetryType DEF RetryReset, At
  <2> QED
    BY <1>1, <1>11, <2>1, AdvanceType, RequestStep DEF RetryReset
<1>12. CASE RetryVerify(r)
  <2>1. Advance(r, "done") \/ Advance(r, "error")
    BY <1>12 DEF RetryVerify
  <2> QED
    BY <1>1, <1>12, <2>1, AdvanceType, RequestStep DEF RetryVerify
<1>13. CASE RestartSpawn(r)
  <2>1. PICK l \in Loops : w[l].pc = "off" /\ Goto(l, "idle")
    BY <1>13 DEF RestartSpawn
  <2>2. "idle" \in PC /\ "idle" \notin BusyPC
    BY DEF PC, BusyPC, OwningPC
  <2>3. w' \in [Loops -> LoopState] /\ (\A m \in Loops \ {l} : w'[m] = w[m]) /\ w'[l].pc = "idle"
    BY <1>1, <2>1, <2>2, GotoType
  <2>4. PICK q \in ReqState : /\ req' = [req EXCEPT ![r] = q]
                              /\ q.op \in {"cancel", "delete", "retry"} => q.job \in Jobs
    BY <1>13, AdvanceType DEF RestartSpawn
  <2>5. TypeOK'
    BY <1>13, <2>3, <2>4 DEF RestartSpawn, TypeInv, TypeOK
  <2>6. RequestTyped'
    BY <2>4 DEF TypeInv, TypeOK, RequestTyped
  <2>7. WorkTyped'
    BY <2>2, <2>3 DEF TypeInv, WorkTyped
  <2> QED
    BY <2>5, <2>6, <2>7 DEF TypeInv
<1> QED
  BY <1>3, <1>4, <1>5, <1>6, <1>7, <1>8, <1>9, <1>10, <1>11, <1>12, <1>13 DEF Handle

-----------------------------------------------------------------------------
(* Everything else, and the theorem.                                        *)

\* The loops as the process starts them.
LEMMA BootType ==
    /\ BootLoops \in [Loops -> LoopState]
    /\ \A l \in Loops : BootLoops[l].pc \notin BusyPC
<1>1. \A pc \in PC : IdleLoop(pc) \in LoopState /\ IdleLoop(pc).pc = pc
  BY DBAssumption DEF IdleLoop, LoopState
<1>2. {"idle", "off"} \subseteq PC /\ {"idle", "off"} \cap BusyPC = {}
  BY DEF PC, BusyPC, OwningPC
<1> HIDE DEF IdleLoop
<1> QED
  BY <1>1, <1>2 DEF BootLoops

LEMMA InitType ==
    ASSUME Init
    PROVE  TypeInv
<1>1. [j \in Jobs |-> EmptyRow("unborn")] \in [Jobs -> Row]
  BY EmptyRowType DEF AbsentStatus
<1>2. NewRequest \in ReqState /\ NewRequest.op = "none"
  BY DEF NewRequest, ReqState
<1>3. TypeOK
  BY <1>1, <1>2, BootType, WorkerAssumption DEF Init, TypeOK, Dirs
<1>4. WorkTyped /\ RequestTyped
  BY <1>2, BootType DEF Init, WorkTyped, RequestTyped
<1> QED
  BY <1>3, <1>4 DEF TypeInv

LEMMA RebootType ==
    ASSUME TypeInv, Reboot
    PROVE  TypeInv'
<1>1. rows' \in [Jobs -> Row]
  BY StuckType DEF Reboot, TypeInv, TypeOK
<1>2. /\ req' \in [Requests -> ReqState]
      /\ \A r \in Requests : req'[r].op = req[r].op /\ req'[r].job = req[r].job
  <2> DEFINE ended(r) == [req[r] EXCEPT !.at = "done"]
  <2>1. ASSUME NEW r \in Requests
        PROVE  /\ req[r] \in ReqState /\ ended(r) \in ReqState
               /\ ended(r).op = req[r].op /\ ended(r).job = req[r].job
    <3>1. req[r] \in ReqState
      BY DEF TypeInv, TypeOK
    <3> QED
      BY <3>1 DEF ReqState
  <2>2. req' = [r \in Requests |-> IF req[r].at = "new" THEN req[r] ELSE ended(r)]
    BY DEF Reboot
  <2> HIDE DEF ended
  <2> QED
    BY <2>1, <2>2
<1>3. reboots' \in 0..MaxReboots
  BY WorkerAssumption DEF Reboot, TypeInv, TypeOK
<1>4. TypeOK'
  BY <1>1, <1>2, <1>3, BootType DEF Reboot, TypeInv, TypeOK, Dirs
<1>5. WorkTyped' /\ RequestTyped'
  BY <1>2, BootType DEF Reboot, TypeInv, WorkTyped, RequestTyped
<1> QED
  BY <1>4, <1>5 DEF TypeInv

\* Submissions, the retention period and late monitors.
LEMMA TableStep ==
    ASSUME TypeInv, NEW j \in Jobs, Submit(j) \/ Age(j) \/ MonitorWrite(j)
    PROVE  TypeInv'
<1>1. rows' \in [Jobs -> Row]
  <2>1. CASE Submit(j)
    BY <2>1, EmptyRowType DEF Submit, InsertExportJob, PresentStatus, TypeInv, TypeOK
  <2>2. CASE Age(j)
    <3>1. [rows[j] EXCEPT !.aged = TRUE] \in Row
      BY DEF Row, TypeInv, TypeOK
    <3>2. rows' = [rows EXCEPT ![j] = [rows[j] EXCEPT !.aged = TRUE]]
      BY <2>2 DEF Age
    <3> QED
      BY <3>1, <3>2 DEF TypeInv, TypeOK
  <2>3. CASE MonitorWrite(j)
    BY <2>3, OnProgressType DEF MonitorWrite, PresentStatus, ActiveStatus, TypeInv, TypeOK
  <2> QED
    BY <2>1, <2>2, <2>3
<1>2. late' \subseteq Jobs
      /\ UNCHANGED <<files, remote, uploads, chans, closed, w, exportDir, req, reboots>>
  BY DEF Submit, Age, MonitorWrite, TypeInv, TypeOK
<1>3. TypeOK'
  BY <1>1, <1>2 DEF TypeInv, TypeOK
<1>4. WorkTyped' /\ RequestTyped'
  BY <1>2 DEF TypeInv, WorkTyped, RequestTyped
<1> QED
  BY <1>3, <1>4 DEF TypeInv

LEMMA TypeStep ==
    ASSUME TypeInv, [Next]_vars
    PROVE  TypeInv'
<1>1. ASSUME NEW j \in Jobs, Submit(j) \/ Age(j) \/ MonitorWrite(j) PROVE TypeInv'
  BY <1>1, TableStep
<1>2. ASSUME NEW l \in Loops, LoopStep(l) PROVE TypeInv'
  BY <1>2, PollType, DownloadType, DeliverType DEF LoopStep
<1>3. ASSUME NEW r \in Requests, Arrival(r) \/ Handle(r) PROVE TypeInv'
  BY <1>3, ArrivalType, HandleType
<1>4. CASE Reboot
  BY <1>4, RebootType
<1>5. CASE UNCHANGED vars
  BY <1>5 DEF vars, TypeInv, TypeOK, WorkTyped, RequestTyped
<1> QED
  BY <1>1, <1>2, <1>3, <1>4, <1>5 DEF Next

\* Every variable of the pipeline keeps its type, whatever faults and crashes
\* happen; a loop or a handler that works on a job works on one that was submitted.
THEOREM TypeCorrect == Spec => []TypeOK
<1>1. Init => TypeInv
  BY InitType
<1>2. TypeInv /\ [Next]_vars => TypeInv'
  BY TypeStep
<1>3. TypeInv => TypeOK
  BY DEF TypeInv
<1> QED
  BY <1>1, <1>2, <1>3, PTL DEF Spec

-----------------------------------------------------------------------------
(* How a loop past its claim moves, and what it leaves alone.               *)

Moved(l) == /\ w[l].pc \in OwningPC
            /\ w'[l].pc \in OwningPC \cup {"leave"}
            /\ w'[l].job = w[l].job
            /\ \A m \in Loops \ {l} : w'[m] = w[m]
            /\ chans' = chans

LEMMA DownloadMoves ==
    ASSUME TypeInv, NEW l \in Loops, Download(l)
    PROVE  Moved(l)
<1> USE DEF PC, BusyPC, OwningPC
<1>1. w \in [Loops -> LoopState]
  BY DEF TypeInv, TypeOK
<1>2. CASE Segment(l)
  BY <1>1, <1>2, GotoType DEF Segment, Abandon, Moved
<1>3. CASE Announce(l)
  BY <1>1, <1>3, GotoType DEF Announce, Moved
<1>4. CASE IsapiOpen(l)
  <2>1. {SegPath(l)} \in SUBSET File /\ {FinalPath(l)} \in SUBSET File /\ w[l].got \in SUBSET File
    BY <1>4, PathType DEF IsapiOpen
  <2>2. "reading" \in PC
    OBVIOUS
  <2>3. w'[l].pc \in {"reading"} /\ w'[l].job = w[l].job /\ (\A m \in Loops \ {l} : w'[m] = w[m])
    BY <1>1, <1>4, <2>1, <2>2, OutType DEF IsapiOpen
  <2> QED
    BY <1>4, <2>3 DEF IsapiOpen, Moved
<1>5. CASE IsapiRefused(l)
  BY <1>1, <1>5, GotoType DEF IsapiRefused, Moved
<1>6. CASE IsapiPoll(l)
  BY <1>1, <1>6, GotoType DEF IsapiPoll, Moved
<1>7. CASE IsapiChunk(l)
  BY <1>1, <1>7, GotoType DEF IsapiChunk, Moved
<1>8. CASE IsapiEnd(l)
  BY <1>1, <1>8, GotoType DEF IsapiEnd, Moved
<1>9. CASE IsapiError(l)
  BY <1>1, <1>9, GotoType DEF IsapiError, Moved
<1>10. CASE Fallback(l)
  BY <1>1, <1>10, GotoType DEF Fallback, Abandon, Moved
<1>11. CASE FfmpegPath(l)
  <2>1. {SegPath(l)} \in SUBSET File /\ {FinalPath(l)} \in SUBSET File /\ w[l].got \in SUBSET File
    BY <1>11, PathType DEF FfmpegPath
  <2>2. "start" \in PC
    OBVIOUS
  <2>3. w'[l].pc \in {"start"} /\ w'[l].job = w[l].job /\ (\A m \in Loops \ {l} : w'[m] = w[m])
    BY <1>1, <1>11, <2>1, <2>2, OutType DEF FfmpegPath
  <2> QED
    BY <1>11, <2>3 DEF FfmpegPath, Moved
<1>12. CASE FfmpegStart(l)
  BY <1>1, <1>12, GotoType DEF FfmpegStart, Moved
<1>13. CASE FfmpegProgress(l)
  BY <1>1, <1>13, GotoType DEF FfmpegProgress, Moved
<1>14. CASE FfmpegExit(l)
  BY <1>1, <1>14, GotoType DEF FfmpegExit, Moved
<1>15. CASE MonitorRead(l)
  BY <1>1, <1>15, GotoType DEF MonitorRead, Moved
<1>16. CASE Remux(l)
  BY <1>1, <1>16, GotoType DEF Remux, Moved
<1>17. CASE Stat(l)
  <2>1. {SegPath(l)} \in SUBSET File /\ {FinalPath(l)} \in SUBSET File /\ w[l].got \in SUBSET File
    BY <1>17, PathType DEF Stat
  <2>2. "encode" \in PC
    OBVIOUS
  <2>3. CASE NextSegment(l, w[l].got)
    BY <1>1, <1>17, <2>1, <2>3, NextSegmentType DEF Stat, Moved
  <2>4. CASE w' = [w EXCEPT ![l].pc = "encode", ![l].out = {SegPath(l)}]
    <3>1. w'[l].pc = "encode" /\ w'[l].job = w[l].job /\ (\A m \in Loops \ {l} : w'[m] = w[m])
      BY <1>1, <2>1, <2>2, <2>4, OutType
    <3> QED
      BY <1>17, <3>1 DEF Stat, Moved
  <2> QED
    BY <1>17, <2>3, <2>4 DEF Stat
<1>18. CASE EncodeProgress(l)
  BY <1>1, <1>18, GotoType DEF EncodeProgress, Moved
<1>19. CASE Encode(l)
  <2> DEFINE got == w[l].got \cup {Encoded(f) : f \in w[l].out}
  <2>1. got \in SUBSET File
    <3>1. \A f \in File : Encoded(f) \in File
      BY DEF Encoded, File, Forms
    <3>2. w[l].got \in SUBSET File /\ w[l].out \in SUBSET File
      BY <1>19, PathType DEF Encode
    <3> QED
      BY <3>1, <3>2
  <2>2. NextSegment(l, got) /\ w[l].pc = "encode" /\ chans' = chans
    BY <1>19 DEF Encode
  <2> HIDE DEF got
  <2> QED
    BY <1>1, <2>1, <2>2, NextSegmentType DEF Moved
<1>20. CASE KeepEncoding(l)
  <2>1. w[l].got \cup w[l].out \in SUBSET File
    BY <1>20, PathType DEF KeepEncoding
  <2> QED
    BY <1>1, <1>20, <2>1, NextSegmentType DEF KeepEncoding, Moved
<1> QED
  BY <1>2, <1>3, <1>4, <1>5, <1>6, <1>7, <1>8, <1>9, <1>10, <1>11, <1>12, <1>13, <1>14,
     <1>15, <1>16, <1>17, <1>18, <1>19, <1>20 DEF Download

LEMMA DeliverMoves ==
    ASSUME TypeInv, NEW l \in Loops, Deliver(l)
    PROVE  Moved(l)
<1> USE DEF PC, BusyPC, OwningPC
<1>1. w \in [Loops -> LoopState]
  BY DEF TypeInv, TypeOK
<1>2. CASE Collect(l)
  <2>1. {SegPath(l)} \in SUBSET File /\ {FinalPath(l)} \in SUBSET File /\ w[l].got \in SUBSET File
    BY <1>2, PathType DEF Collect
  <2>2. "assemble" \in PC
    OBVIOUS
  <2>3. w'[l].pc \in {"assemble", "fail"} /\ w'[l].job = w[l].job /\ (\A m \in Loops \ {l} : w'[m] = w[m])
    <3>1. CASE Goto(l, "fail")
      BY <1>1, <3>1, GotoType
    <3>2. CASE w' = [w EXCEPT ![l].pc = "assemble", ![l].out = {FinalPath(l)}]
      BY <1>1, <2>1, <2>2, <3>2, OutType
    <3> QED
      BY <1>2, <3>1, <3>2 DEF Collect
  <2> QED
    BY <1>2, <2>3 DEF Collect, Moved
<1>3. CASE Assemble(l)
  BY <1>1, <1>3, GotoType DEF Assemble, Moved
<1>4. CASE AssembleFails(l)
  BY <1>1, <1>4, GotoType DEF AssembleFails, Moved
<1>5. CASE RecordFile(l)
  BY <1>1, <1>5, GotoType DEF RecordFile, Moved
<1>6. CASE Publish(l)
  BY <1>1, <1>6, GotoType DEF Publish, Moved
<1>7. CASE UploadOpen(l)
  BY <1>1, <1>7, GotoType DEF UploadOpen, Moved
<1>8. CASE UploadProgress(l)
  BY <1>1, <1>8, GotoType DEF UploadProgress, Moved
<1>9. CASE UploadEnds(l)
  <2>1. CASE Goto(l, "unlink")
    BY <1>1, <1>9, <2>1, GotoType DEF UploadEnds, Moved
  <2>2. CASE w' = [w EXCEPT ![l].pc = "share", ![l].link = uploads[w[l].job] + 1]
    <3> DEFINE r == [w[l] EXCEPT !.pc = "share", !.link = uploads[w[l].job] + 1]
    <3>1. w[l] \in LoopState
      BY <1>1
    <3>2. r.pc = "share" /\ r.job = w[l].job
      BY <3>1 DEF LoopState
    <3>3. w' = [w EXCEPT ![l] = r]
      BY <1>1, <2>2
    <3> HIDE DEF r
    <3> QED
      BY <1>1, <1>9, <3>2, <3>3 DEF UploadEnds, Moved
  <2> QED
    BY <1>9, <2>1, <2>2 DEF UploadEnds
<1>10. CASE UploadFails(l)
  BY <1>1, <1>10, GotoType DEF UploadFails, Moved
<1>11. CASE Share(l)
  BY <1>1, <1>11, GotoType DEF Share, Moved
<1>12. CASE Unlink(l)
  BY <1>1, <1>12, GotoType DEF Unlink, Moved
<1>13. CASE Complete(l)
  BY <1>1, <1>13, GotoType DEF Complete, Moved
<1> QED
  BY <1>2, <1>3, <1>4, <1>5, <1>6, <1>7, <1>8, <1>9, <1>10, <1>11, <1>12, <1>13 DEF Deliver

-----------------------------------------------------------------------------
(* Cancel channels.                                                         *)

LEMMA PollChannels ==
    ASSUME TypeInv, ChannelLive, NEW l \in Loops, Poll(l)
    PROVE  ChannelLive'
<1> USE DEF PC, BusyPC, OwningPC
<1>1. w \in [Loops -> LoopState] /\ chans \in [Jobs -> Loops \cup {NoLoop}]
  BY DEF TypeInv, TypeOK
<1>2. CASE Tick(l)
  <2>1. w'[l].pc \in {"pick"} /\ w'[l].job = w[l].job /\ (\A m \in Loops \ {l} : w'[m] = w[m])
    BY <1>1, <1>2, GotoType DEF Tick
  <2> QED
    BY <1>1, <1>2, <2>1, WorkerAssumption DEF Tick, ChannelLive, Processing
<1>3. CASE Pick(l)
  <2>1. \A j \in Jobs : chans[j] # l
    BY <1>3, WorkerAssumption DEF Pick, ChannelLive, Processing
  <2>2. \A m \in Loops \ {l} : w'[m] = w[m]
    BY <1>1, <1>3 DEF Pick, Goto
  <2> QED
    BY <1>1, <1>3, <2>1, <2>2, WorkerAssumption DEF Pick, ChannelLive, Processing
<1>4. CASE Register(l)
  <2>1. w'[l].pc \in {"check"} /\ w'[l].job = w[l].job /\ (\A m \in Loops \ {l} : w'[m] = w[m])
    BY <1>1, <1>4, GotoType DEF Register
  <2> QED
    BY <1>1, <1>4, <2>1, WorkerAssumption DEF Register, ChannelLive, Processing
<1>5. CASE Check(l)
  <2>1. w'[l].pc \in {"leave", "claim"} /\ w'[l].job = w[l].job /\ (\A m \in Loops \ {l} : w'[m] = w[m])
    BY <1>1, <1>5, GotoType DEF Check
  <2> QED
    BY <1>1, <1>5, <2>1, WorkerAssumption DEF Check, ChannelLive, Processing
<1>6. CASE RejectNVR(l)
  <2>1. w'[l].pc \in {"leave"} /\ w'[l].job = w[l].job /\ (\A m \in Loops \ {l} : w'[m] = w[m])
    BY <1>1, <1>6, GotoType DEF RejectNVR
  <2> QED
    BY <1>1, <1>6, <2>1, WorkerAssumption DEF RejectNVR, ChannelLive, Processing
<1>7. CASE Claim(l)
  <2>1. w[l] \in LoopState
    BY <1>1
  <2>2. w'[l].pc = "search" /\ w'[l].job = w[l].job /\ (\A m \in Loops \ {l} : w'[m] = w[m])
    BY <1>1, <1>7, <2>1 DEF Claim, LoopState
  <2> QED
    BY <1>1, <1>7, <2>2 DEF Claim, ChannelLive, Processing
<1>8. CASE Search(l)
  <2>1. w[l] \in LoopState
    BY <1>1
  <2>2. w'[l].pc \in {"fail", "segment"} /\ w'[l].job = w[l].job /\ (\A m \in Loops \ {l} : w'[m] = w[m])
    BY <1>1, <1>8, <2>1 DEF Search, Goto, LoopState
  <2> QED
    BY <1>1, <1>8, <2>2 DEF Search, ChannelLive, Processing
<1>9. CASE Fail(l)
  <2>1. w'[l].pc \in {"leave"} /\ w'[l].job = w[l].job /\ (\A m \in Loops \ {l} : w'[m] = w[m])
    BY <1>1, <1>9, GotoType DEF Fail
  <2> QED
    BY <1>1, <1>9, <2>1, WorkerAssumption DEF Fail, ChannelLive, Processing
<1>10. CASE Release(l)
  <2>1. \A m \in Loops \ {l} : w'[m] = w[m]
    BY <1>1, <1>10 DEF Release
  <2>2. \A j \in Jobs : chans'[j] # NoLoop => chans'[j] = chans[j] /\ j # w[l].job
    BY <1>1, <1>10 DEF Release
  <2> QED
    BY <1>1, <2>1, <2>2 DEF ChannelLive, Processing
<1> QED
  BY <1>2, <1>3, <1>4, <1>5, <1>6, <1>7, <1>8, <1>9, <1>10 DEF Poll

LEMMA ChannelStep ==
    ASSUME TypeInv, ChannelLive, [Next]_vars
    PROVE  ChannelLive'
<1>1. w \in [Loops -> LoopState] /\ chans \in [Jobs -> Loops \cup {NoLoop}]
  BY DEF TypeInv, TypeOK
<1>2. ASSUME NEW j \in Jobs, Submit(j) \/ Age(j) \/ MonitorWrite(j) PROVE ChannelLive'
  BY <1>2 DEF Submit, Age, MonitorWrite, ChannelLive, Processing
<1>3. ASSUME NEW l \in Loops, LoopStep(l) PROVE ChannelLive'
  <2>1. CASE Poll(l)
    BY <2>1, PollChannels
  <2>2. CASE Download(l) \/ Deliver(l)
    BY <1>1, <2>2, DownloadMoves, DeliverMoves DEF Moved, ChannelLive, Processing, BusyPC
  <2> QED
    BY <1>3, <2>1, <2>2 DEF LoopStep
<1>4. ASSUME NEW r \in Requests, Arrival(r) \/ Handle(r) PROVE ChannelLive'
  <2>1. CASE RestartSpawn(r)
    <3>1. PICK l \in Loops : w[l].pc = "off" /\ Goto(l, "idle")
      BY <2>1 DEF RestartSpawn
    <3>2. \A m \in Loops \ {l} : w'[m] = w[m]
      BY <1>1, <3>1 DEF Goto
    <3>3. \A j \in Jobs : chans[j] # l
      BY <3>1, WorkerAssumption DEF ChannelLive, Processing, BusyPC, OwningPC
    <3> QED
      BY <1>1, <2>1, <3>2, <3>3 DEF RestartSpawn, ChannelLive, Processing
  <2>2. CASE ~RestartSpawn(r)
    <3>1. UNCHANGED <<chans, w>>
      BY <1>4, <2>2 DEF Arrival, Handle, CancelRead, DeleteRead, RetryRead, PurgeSelect, SweepSelect,
         RestartReset, CancelWrite, CancelSignal, RemoveFiles, DeleteSelect, DeleteDrop,
         PurgeDrop, SweepDrop, RetryUnshare, RetryReset, RetryVerify
    <3> QED
      BY <3>1 DEF ChannelLive, Processing
  <2> QED
    BY <2>1, <2>2
<1>5. CASE Reboot
  BY <1>5 DEF Reboot, ChannelLive
<1>6. CASE UNCHANGED vars
  BY <1>6 DEF vars, ChannelLive, Processing
<1> QED
  BY <1>2, <1>3, <1>4, <1>5, <1>6 DEF Next

\* processExportJob leaves no cancel channel behind, with any number of loops,
\* restarts, faults and crashes: CancelExportJob never signals a finished job.
THEOREM ChannelsLive == Spec => []ChannelLive
<1>1. Init => TypeInv /\ ChannelLive
  BY InitType DEF Init, ChannelLive
<1>2. TypeInv /\ ChannelLive /\ [Next]_vars => TypeInv' /\ ChannelLive'
  BY TypeStep, ChannelStep
<1> QED
  BY <1>1, <1>2, PTL DEF Spec

-----------------------------------------------------------------------------
(* Who owns an active row.  The faults that break it: an FFmpeg fallback has  *)
(* a monitor that may write late; a failed read abandons, a failed write      *)
(* keeps, a row in an active state.                                         *)

Orderly == {"isapi", "dbread", "dbwrite"} \cap Faults = {}

\* Without a fallback no loop runs FFmpeg against the recorder.
NoFallback == /\ late = {}
              /\ \A l \in Loops : w[l].pc \notin {"fallback", "ffmpeg", "start", "stream", "remux"}

OwnInv == TypeInv /\ NoFallback /\ ActiveOwned

\* Which rows are active after a status write.
LEMMA StatusActive ==
    ASSUME NEW t \in [Jobs -> Row], NEW j \in Jobs, NEW s
    PROVE  /\ ActiveJobs(UpdateExportJobStatus(t, j, s)) \subseteq ActiveJobs(t) \cup {j}
           /\ s \notin ActiveStatus => j \notin ActiveJobs(UpdateExportJobStatus(t, j, s))
<1> DEFINE r == [t[j] EXCEPT !.status = s, !.aged = FALSE]
<1>1. r.status = s
  <2>1. t[j] \in Row
    OBVIOUS
  <2> QED
    BY <2>1 DEF Row
<1> HIDE DEF r
<1>2. CASE HasRow(t, j)
  <2>1. UpdateExportJobStatus(t, j, s) = [t EXCEPT ![j] = r]
    BY <1>2 DEF UpdateExportJobStatus, Update, r
  <2> QED
    BY <1>1, <2>1 DEF ActiveJobs
<1>3. CASE ~HasRow(t, j)
  <2>1. UpdateExportJobStatus(t, j, s) = t
    BY <1>3 DEF UpdateExportJobStatus, Update
  <2>2. j \notin ActiveJobs(t)
    BY <1>3 DEF HasRow, ActiveJobs, PresentStatus
  <2> QED
    BY <2>1, <2>2
<1> QED
  BY <1>2, <1>3

\* The other columns do not matter.
LEMMA ColumnActive ==
    ASSUME NEW t \in [Jobs -> Row], NEW j \in Jobs, NEW p \in SUBSET File, NEW n \in Nat
    PROVE  /\ ActiveJobs(UpdateExportJobFile(t, j, p)) = ActiveJobs(t)
           /\ ActiveJobs(UpdateExportJobShareLink(t, j, n)) = ActiveJobs(t)
<1> DEFINE a == [t[j] EXCEPT !.path = p]
           b == [t[j] EXCEPT !.link = n]
<1>1. a.status = t[j].status /\ b.status = t[j].status
  <2>1. t[j] \in Row
    OBVIOUS
  <2> QED
    BY <2>1 DEF Row
<1>2. Update(t, j, a) \in {t, [t EXCEPT ![j] = a]} /\ Update(t, j, b) \in {t, [t EXCEPT ![j] = b]}
  BY DEF Update
<1> HIDE DEF a, b
<1>3. ActiveJobs(Update(t, j, a)) = ActiveJobs(t) /\ ActiveJobs(Update(t, j, b)) = ActiveJobs(t)
  BY <1>1, <1>2 DEF ActiveJobs
<1> QED
  BY <1>3 DEF UpdateExportJobFile, UpdateExportJobShareLink, a, b

\* Resets and deletions make no row active.
LEMMA ResetActive ==
    ASSUME NEW t \in [Jobs -> Row]
    PROVE  /\ ActiveJobs(ResetStuckExportJobs(t)) = {}
           /\ \A S : ActiveJobs(DeleteRows(t, S)) \subseteq ActiveJobs(t)
           /\ \A j \in Jobs : ActiveJobs(ResetExportJobForRetry(t, j)) \subseteq ActiveJobs(t)
<1>1. "queued" \notin ActiveStatus /\ "deleted" \notin ActiveStatus
  BY DEF ActiveStatus
<1>2. EmptyRow("queued").status = "queued" /\ EmptyRow("deleted").status = "deleted"
  BY DEF EmptyRow
<1>3. ActiveJobs(ResetStuckExportJobs(t)) = {}
  <2>1. \A j \in Jobs : [t[j] EXCEPT !.status = "queued"].status = "queued"
    BY DEF Row
  <2> QED
    BY <1>1, <2>1 DEF ResetStuckExportJobs, ActiveJobs
<1> HIDE DEF EmptyRow
<1>4. \A S : ActiveJobs(DeleteRows(t, S)) \subseteq ActiveJobs(t)
  BY <1>1, <1>2 DEF DeleteRows, ActiveJobs
<1>5. \A j \in Jobs : ActiveJobs(ResetExportJobForRetry(t, j)) \subseteq ActiveJobs(t)
  BY <1>1, <1>2 DEF ResetExportJobForRetry, Update, ActiveJobs
<1> QED
  BY <1>3, <1>4, <1>5

\* The worker's writes, when none is lost.
LEMMA SetStatusActive ==
    ASSUME Orderly, rows \in [Jobs -> Row], NEW j \in Jobs, NEW s, SetStatus(j, s)
    PROVE  /\ ActiveJobs(rows') \subseteq ActiveJobs(rows) \cup {j}
           /\ s \notin ActiveStatus => j \notin ActiveJobs(rows')
BY StatusActive DEF SetStatus, Orderly

LEMMA OnProgressActive ==
    ASSUME Orderly, rows \in [Jobs -> Row], NEW j \in Jobs, NEW s, OnProgress(j, s)
    PROVE  ActiveJobs(rows') \subseteq ActiveJobs(rows) \cup {j}
BY SetStatusActive DEF OnProgress

\* isCancelled answers true only for a row that is not active.
LEMMA CancelledInactive ==
    ASSUME Orderly, NEW j \in Jobs, IsCancelled(j)
    PROVE  j \notin ActiveJobs(rows)
BY DEF Orderly, IsCancelled, HasRow, ActiveJobs, ActiveStatus, PresentStatus

\* What a step of a loop makes active, and what it leaves behind.
Kept(l) == /\ ActiveJobs(rows') \subseteq ActiveJobs(rows) \cup {w[l].job}
           /\ w'[l].pc = "leave" => w[l].job \notin ActiveJobs(rows')

LEMMA DownloadKeeps ==
    ASSUME TypeInv, NoFallback, Orderly, NEW l \in Loops, Download(l)
    PROVE  Kept(l) /\ NoFallback'
<1>1. w \in [Loops -> LoopState] /\ rows \in [Jobs -> Row] /\ w[l].job \in Jobs
  BY DownloadMoves DEF TypeInv, TypeOK, WorkTyped, Moved, BusyPC
<1>2. w[l].pc \notin {"fallback", "ffmpeg", "start", "stream", "remux"} /\ "isapi" \notin Faults
  BY DEF NoFallback, Orderly
<1>3. \A pc \in PC : Goto(l, pc) => w'[l].pc = pc
  BY <1>1, GotoType
<1> USE DEF PC, BusyPC, OwningPC
<1>4. \A m \in Loops \ {l} : w'[m] = w[m]
  BY DownloadMoves DEF Moved
<1>5. SUFFICES Kept(l) /\ w'[l].pc \notin {"fallback", "ffmpeg", "start", "stream", "remux"}
               /\ late' = late
  BY <1>4 DEF NoFallback
<1>6. CASE Segment(l)
  BY <1>1, <1>3, <1>6, CancelledInactive DEF Segment, Abandon, Kept
<1>7. CASE Announce(l)
  BY <1>1, <1>3, <1>7, OnProgressActive DEF Announce, Kept
<1>8. CASE IsapiOpen(l)
  <2>1. {SegPath(l)} \in SUBSET File /\ "reading" \in PC
    BY <1>8, PathType DEF IsapiOpen
  <2>2. w'[l].pc = "reading"
    BY <1>1, <1>8, <2>1, OutType DEF IsapiOpen
  <2>3. ActiveJobs(rows') = ActiveJobs(rows)
    BY <1>1, <1>8, <2>1, ColumnActive DEF IsapiOpen
  <2> QED
    BY <1>8, <2>2, <2>3 DEF IsapiOpen, Kept
<1>9. CASE IsapiRefused(l)
  BY <1>2, <1>9 DEF IsapiRefused
<1>10. CASE IsapiPoll(l)
  BY <1>1, <1>3, <1>10 DEF IsapiPoll, Kept
<1>11. CASE IsapiChunk(l)
  BY <1>1, <1>3, <1>11, OnProgressActive DEF IsapiChunk, Kept
<1>12. CASE IsapiEnd(l)
  BY <1>1, <1>3, <1>12, OnProgressActive DEF IsapiEnd, Kept
<1>13. CASE IsapiError(l)
  BY <1>2, <1>13 DEF IsapiError
<1>14. CASE Fallback(l)
  BY <1>2, <1>14 DEF Fallback
<1>15. CASE FfmpegPath(l)
  BY <1>2, <1>15 DEF FfmpegPath
<1>16. CASE FfmpegStart(l)
  BY <1>2, <1>16 DEF FfmpegStart
<1>17. CASE FfmpegProgress(l)
  BY <1>2, <1>17 DEF FfmpegProgress
<1>18. CASE FfmpegExit(l)
  BY <1>2, <1>18 DEF FfmpegExit
<1>19. CASE MonitorRead(l)
  BY <1>2, <1>19 DEF MonitorRead
<1>20. CASE Remux(l)
  BY <1>2, <1>20 DEF Remux
<1>21. CASE Stat(l)
  <2>1. {SegPath(l)} \in SUBSET File /\ w[l].got \in SUBSET File /\ "encode" \in PC
    BY <1>21, PathType DEF Stat
  <2>2. w'[l].pc \in {"encode", "segment", "collect"}
    BY <1>1, <1>21, <2>1, OutType, NextSegmentType DEF Stat
  <2> QED
    BY <1>21, <2>2 DEF Stat, Kept
<1>22. CASE EncodeProgress(l)
  BY <1>1, <1>3, <1>22, OnProgressActive DEF EncodeProgress, Kept
<1>23. CASE Encode(l)
  <2>1. w'[l].pc \in {"segment", "collect"}
    BY <1>1, <1>23 DEF Encode, NextSegment
  <2> QED
    BY <1>23, <2>1 DEF Encode, Kept
<1>24. CASE KeepEncoding(l)
  <2>1. w'[l].pc \in {"segment", "collect"}
    BY <1>1, <1>24 DEF KeepEncoding, NextSegment
  <2> QED
    BY <1>24, <2>1 DEF KeepEncoding, Kept
<1> QED
  BY <1>6, <1>7, <1>8, <1>9, <1>10, <1>11, <1>12, <1>13, <1>14, <1>15,
     <1>16, <1>17, <1>18, <1>19, <1>20, <1>21, <1>22, <1>23, <1>24 DEF Download

LEMMA DeliverKeeps ==
    ASSUME TypeInv, NoFallback, Orderly, NEW l \in Loops, Deliver(l)
    PROVE  Kept(l) /\ NoFallback'
<1>1. w \in [Loops -> LoopState] /\ rows \in [Jobs -> Row] /\ w[l].job \in Jobs
      /\ w[l] \in LoopState
  BY DeliverMoves DEF TypeInv, TypeOK, WorkTyped, Moved, BusyPC
<1>2. \A pc \in PC : Goto(l, pc) => w'[l].pc = pc
  BY <1>1, GotoType
<1> USE DEF PC, BusyPC, OwningPC
<1>3. \A m \in Loops \ {l} : w'[m] = w[m]
  BY DeliverMoves DEF Moved
<1>4. SUFFICES Kept(l) /\ w'[l].pc \notin {"fallback", "ffmpeg", "start", "stream", "remux"}
               /\ late' = late
  BY <1>3 DEF NoFallback
<1>5. CASE Collect(l)
  <2>1. {FinalPath(l)} \in SUBSET File /\ "assemble" \in PC
    BY <1>5, PathType DEF Collect
  <2>2. w'[l].pc \in {"assemble", "fail"}
    BY <1>1, <1>2, <1>5, <2>1, OutType DEF Collect
  <2>3. ActiveJobs(rows') \subseteq ActiveJobs(rows) \cup {w[l].job}
    BY <1>1, <1>5, OnProgressActive DEF Collect
  <2> QED
    BY <1>5, <2>2, <2>3 DEF Collect, Kept
<1>6. CASE Assemble(l)
  BY <1>1, <1>2, <1>6, OnProgressActive DEF Assemble, Kept
<1>7. CASE AssembleFails(l)
  BY <1>1, <1>2, <1>7 DEF AssembleFails, Kept
<1>8. CASE RecordFile(l)
  <2>1. ActiveJobs(rows') = ActiveJobs(rows)
    BY <1>1, <1>8, PathType, ColumnActive DEF RecordFile
  <2> QED
    BY <1>1, <1>2, <1>8, <2>1 DEF RecordFile, Kept
<1>9. CASE Publish(l)
  BY <1>1, <1>2, <1>9, OnProgressActive DEF Publish, Kept
<1>10. CASE UploadOpen(l)
  BY <1>1, <1>2, <1>10 DEF UploadOpen, Kept
<1>11. CASE UploadProgress(l)
  BY <1>1, <1>11, OnProgressActive DEF UploadProgress, Kept
<1>12. CASE UploadEnds(l)
  <2>1. w'[l].pc \in {"share", "unlink"}
    <3>1. CASE Goto(l, "unlink")
      BY <1>2, <3>1
    <3>2. CASE w' = [w EXCEPT ![l].pc = "share", ![l].link = uploads[w[l].job] + 1]
      <4> DEFINE r == [w[l] EXCEPT !.pc = "share", !.link = uploads[w[l].job] + 1]
      <4>1. r.pc = "share"
        BY <1>1 DEF LoopState
      <4>2. w' = [w EXCEPT ![l] = r]
        BY <1>1, <3>2
      <4> HIDE DEF r
      <4> QED
        BY <1>1, <4>1, <4>2
    <3> QED
      BY <1>12, <3>1, <3>2 DEF UploadEnds
  <2> QED
    BY <1>12, <2>1 DEF UploadEnds, Kept
<1>13. CASE UploadFails(l)
  BY <1>1, <1>2, <1>13 DEF UploadFails, Kept
<1>14. CASE Share(l)
  <2>1. w[l].link \in Nat
    <3> HIDE DEF PC
    <3> QED
      BY <1>1 DEF LoopState
  <2>2. ActiveJobs(rows') = ActiveJobs(rows)
    BY <1>1, <1>14, <2>1, ColumnActive DEF Share
  <2> QED
    BY <1>1, <1>2, <1>14, <2>2 DEF Share, Kept
<1>15. CASE Unlink(l)
  BY <1>1, <1>2, <1>15 DEF Unlink, Kept
<1>16. CASE Complete(l)
  <2>1. "complete" \notin ActiveStatus
    BY DEF ActiveStatus
  <2> QED
    BY <1>1, <1>2, <1>16, <2>1, SetStatusActive DEF Complete, Kept
<1> QED
  BY <1>5, <1>6, <1>7, <1>8, <1>9, <1>10, <1>11, <1>12, <1>13, <1>14, <1>15, <1>16 DEF Deliver

\* A loop that polls owns nothing until it claims.
LEMMA PollOwns ==
    ASSUME OwnInv, Orderly, NEW l \in Loops, Poll(l)
    PROVE  NoFallback' /\ ActiveOwned'
<1>1. w \in [Loops -> LoopState] /\ rows \in [Jobs -> Row] /\ w[l] \in LoopState
      /\ (w[l].pc \in BusyPC => w[l].job \in Jobs)
  BY DEF OwnInv, TypeInv, TypeOK, WorkTyped
<1>2. \A pc \in PC : Goto(l, pc) => /\ w'[l].pc = pc /\ w'[l].job = w[l].job
                                   /\ \A m \in Loops \ {l} : w'[m] = w[m]
  BY <1>1, GotoType
<1> USE DEF PC, BusyPC, OwningPC
<1>3. ASSUME w[l].pc \notin OwningPC, rows' = rows, late' = late,
             w'[l].pc \notin {"fallback", "ffmpeg", "start", "stream", "remux"},
             \A m \in Loops \ {l} : w'[m] = w[m]
      PROVE  NoFallback' /\ ActiveOwned'
  <2> HIDE DEF PC, BusyPC, OwningPC
  <2> QED
    BY <1>3 DEF OwnInv, NoFallback, ActiveOwned, Owns
<1>4. CASE Tick(l)
  BY <1>2, <1>3, <1>4 DEF Tick
<1>5. CASE Pick(l)
  <2>1. w'[l].pc \in {"idle", "register"} /\ (\A m \in Loops \ {l} : w'[m] = w[m])
    <3>1. CASE Goto(l, "idle")
      BY <1>2, <3>1
    <3>2. CASE \E j \in GetNextQueuedJob(rows) :
                 w' = [w EXCEPT ![l].pc = "register", ![l].job = j]
      <4>1. PICK j : w' = [w EXCEPT ![l].pc = "register", ![l].job = j]
        BY <3>2
      <4> HIDE DEF PC, BusyPC, OwningPC
      <4> QED
        BY <1>1, <4>1 DEF LoopState
    <3> QED
      BY <1>5, <3>1, <3>2 DEF Pick
  <2> QED
    BY <1>3, <1>5, <2>1 DEF Pick
<1>6. CASE Register(l)
  BY <1>2, <1>3, <1>6 DEF Register
<1>7. CASE Check(l)
  BY <1>2, <1>3, <1>7 DEF Check
<1>8. CASE Release(l)
  <2>1. w'[l] = IdleLoop("idle") /\ (\A m \in Loops \ {l} : w'[m] = w[m])
    BY <1>1, <1>8 DEF Release
  <2>2. w'[l].pc = "idle"
    BY <2>1 DEF IdleLoop
  <2> QED
    BY <1>3, <1>8, <2>1, <2>2 DEF Release
<1>9. ASSUME NEW j \in Jobs, w[l].job = j, w'[l].job = j, late' = late,
             w'[l].pc \notin {"fallback", "ffmpeg", "start", "stream", "remux"},
             ActiveJobs(rows') \subseteq ActiveJobs(rows) \cup {j},
             w'[l].pc \in OwningPC \/ j \notin ActiveJobs(rows'),
             \A m \in Loops \ {l} : w'[m] = w[m]
      PROVE  NoFallback' /\ ActiveOwned'
  <2> HIDE DEF PC, BusyPC, OwningPC
  <2> QED
    BY <1>9 DEF OwnInv, NoFallback, ActiveOwned, Owns
<1>10. "failed" \notin ActiveStatus
  BY DEF ActiveStatus
<1>11. CASE RejectNVR(l)
  <2>1. ActiveJobs(rows') \subseteq ActiveJobs(rows) \cup {w[l].job} /\ w[l].job \notin ActiveJobs(rows')
    BY <1>1, <1>10, <1>11, SetStatusActive DEF RejectNVR
  <2> QED
    BY <1>1, <1>2, <1>9, <1>11, <2>1 DEF RejectNVR
<1>12. CASE Claim(l)
  <2>1. ActiveJobs(rows') \subseteq ActiveJobs(rows) \cup {w[l].job}
    BY <1>1, <1>12, SetStatusActive DEF Claim
  <2>2. w'[l].pc = "search" /\ w'[l].job = w[l].job /\ (\A m \in Loops \ {l} : w'[m] = w[m])
    <3> HIDE DEF PC, BusyPC, OwningPC
    <3> QED
      BY <1>1, <1>12 DEF Claim, LoopState
  <2> QED
    BY <1>1, <1>9, <1>12, <2>1, <2>2 DEF Claim
<1>13. CASE Search(l)
  <2>1. w'[l].pc \in {"fail", "segment"} /\ w'[l].job = w[l].job /\ (\A m \in Loops \ {l} : w'[m] = w[m])
    BY <1>1, <1>13 DEF Search, Goto, LoopState
  <2> QED
    BY <1>1, <1>9, <1>13, <2>1 DEF Search
<1>14. CASE Fail(l)
  <2>1. ActiveJobs(rows') \subseteq ActiveJobs(rows) \cup {w[l].job} /\ w[l].job \notin ActiveJobs(rows')
    BY <1>1, <1>10, <1>14, SetStatusActive DEF Fail
  <2> QED
    BY <1>1, <1>2, <1>9, <1>14, <2>1 DEF Fail
<1> QED
  BY <1>4, <1>5, <1>6, <1>7, <1>8, <1>11, <1>12, <1>13, <1>14 DEF Poll

\* A handler, a submission or a tick of the clock makes no row active.
LEMMA RequestOwns ==
    ASSUME OwnInv, NEW r \in Requests, Arrival(r) \/ Handle(r)
    PROVE  NoFallback' /\ ActiveOwned'
<1>1. rows \in [Jobs -> Row] /\ w \in [Loops -> LoopState]
      /\ (req[r].op \in {"cancel", "delete", "retry"} => req[r].job \in Jobs)
  BY DEF OwnInv, TypeInv, TypeOK, RequestTyped
<1>2. ActiveJobs(rows') \subseteq ActiveJobs(rows) /\ late' = late
  <2>1. CASE CancelWrite(r)
    BY <1>1, <2>1, StatusActive DEF CancelWrite, At, ActiveStatus
  <2>2. CASE DeleteDrop(r) \/ PurgeDrop(r) \/ SweepDrop(r)
    BY <1>1, <2>2, ResetActive DEF DeleteDrop, PurgeDrop, SweepDrop
  <2>3. CASE RetryReset(r)
    BY <1>1, <2>3, ResetActive DEF RetryReset, At
  <2>4. CASE RestartReset(r)
    BY <1>1, <2>4, ResetActive DEF RestartReset
  <2>5. CASE Arrival(r) /\ ~RestartReset(r)
    BY <2>5 DEF Arrival, CancelRead, DeleteRead, RetryRead, PurgeSelect, SweepSelect
  <2>6. CASE CancelSignal(r) \/ RemoveFiles(r) \/ DeleteSelect(r) \/ RetryUnshare(r)
             \/ RetryVerify(r) \/ RestartSpawn(r)
    BY <2>6 DEF CancelSignal, RemoveFiles, DeleteSelect, RetryUnshare, RetryVerify, RestartSpawn
  <2> QED
    BY <2>1, <2>2, <2>3, <2>4, <2>5, <2>6 DEF Handle
<1>3. \A l \in Loops : w'[l] = w[l] \/ (w[l].pc = "off" /\ w'[l].pc = "idle")
  <2>1. CASE RestartSpawn(r)
    <3>1. PICK l \in Loops : w[l].pc = "off" /\ Goto(l, "idle")
      BY <2>1 DEF RestartSpawn
    <3>2. "idle" \in PC
      BY DEF PC
    <3> QED
      BY <1>1, <3>1, <3>2, GotoType
  <2>2. CASE ~RestartSpawn(r)
    BY <2>2 DEF Arrival, Handle, CancelRead, DeleteRead, RetryRead, PurgeSelect, SweepSelect,
       RestartReset, CancelWrite, CancelSignal, RemoveFiles, DeleteSelect, DeleteDrop,
       PurgeDrop, SweepDrop, RetryUnshare, RetryReset, RetryVerify
  <2> QED
    BY <2>1, <2>2
<1>4. "off" \notin OwningPC
  BY DEF OwningPC
<1> QED
  BY <1>2, <1>3, <1>4 DEF OwnInv, NoFallback, ActiveOwned, Owns

LEMMA OtherOwns ==
    ASSUME OwnInv, (\E j \in Jobs : Submit(j) \/ Age(j) \/ MonitorWrite(j)) \/ Reboot
    PROVE  NoFallback' /\ ActiveOwned'
<1>1. rows \in [Jobs -> Row]
  BY DEF OwnInv, TypeInv, TypeOK
<1>2. CASE Reboot
  <2>1. ActiveJobs(rows') = {}
    BY <1>1, <1>2, ResetActive DEF Reboot
  <2>2. w' = BootLoops /\ late' = {}
    BY <1>2 DEF Reboot
  <2>3. \A l \in Loops : BootLoops[l].pc \in {"idle", "off"}
    BY DEF BootLoops, IdleLoop
  <2> QED
    BY <2>1, <2>2, <2>3 DEF NoFallback, ActiveOwned
<1>3. ASSUME NEW j \in Jobs, Submit(j) \/ Age(j) \/ MonitorWrite(j)
      PROVE  NoFallback' /\ ActiveOwned'
  <2>1. ~MonitorWrite(j)
    BY DEF MonitorWrite, OwnInv, NoFallback
  <2>2. CASE Submit(j)
    <3>1. EmptyRow("queued").status \notin ActiveStatus
      BY DEF EmptyRow, ActiveStatus
    <3>2. ActiveJobs(rows') \subseteq ActiveJobs(rows) /\ UNCHANGED <<w, late>>
      BY <1>1, <2>2, <3>1 DEF Submit, InsertExportJob, ActiveJobs
    <3> QED
      BY <3>2 DEF OwnInv, NoFallback, ActiveOwned, Owns
  <2>3. CASE Age(j)
    <3>1. [rows[j] EXCEPT !.aged = TRUE].status = rows[j].status
      BY <1>1 DEF Row
    <3>2. rows' = [rows EXCEPT ![j] = [rows[j] EXCEPT !.aged = TRUE]] /\ UNCHANGED <<w, late>>
      BY <2>3 DEF Age
    <3>3. ActiveJobs(rows') = ActiveJobs(rows)
      BY <1>1, <3>1, <3>2 DEF ActiveJobs
    <3> QED
      BY <3>2, <3>3 DEF OwnInv, NoFallback, ActiveOwned, Owns
  <2> QED
    BY <1>3, <2>1, <2>2, <2>3
<1> QED
  BY <1>2, <1>3

LEMMA OwnStep ==
    ASSUME OwnInv, Orderly, [Next]_vars
    PROVE  OwnInv'
<1>1. TypeInv'
  BY TypeStep DEF OwnInv
<1>2. ASSUME NEW l \in Loops, LoopStep(l) PROVE NoFallback' /\ ActiveOwned'
  <2>1. CASE Poll(l)
    BY <2>1, PollOwns
  <2>2. CASE Download(l) \/ Deliver(l)
    <3>1. Moved(l) /\ Kept(l) /\ NoFallback'
      BY <2>2, DownloadMoves, DeliverMoves, DownloadKeeps, DeliverKeeps DEF OwnInv
    <3> QED
      BY <3>1 DEF Moved, Kept, OwnInv, ActiveOwned, Owns
  <2> QED
    BY <1>2, <2>1, <2>2 DEF LoopStep
<1>3. ASSUME NEW r \in Requests, Arrival(r) \/ Handle(r) PROVE NoFallback' /\ ActiveOwned'
  BY <1>3, RequestOwns
<1>4. CASE (\E j \in Jobs : Submit(j) \/ Age(j) \/ MonitorWrite(j)) \/ Reboot
  BY <1>1, <1>4, OtherOwns DEF OwnInv
<1>5. CASE UNCHANGED vars
  BY <1>1, <1>5 DEF vars, OwnInv, NoFallback, ActiveOwned, ActiveJobs, Owns
<1> QED
  BY <1>1, <1>2, <1>3, <1>4, <1>5 DEF Next, OwnInv

\* As long as ISAPI downloads do not fail over to FFmpeg and the table answers,
\* a row in an active state is being worked on: whatever is cancelled, deleted,
\* retried or restarted, and however often the process crashes, no job holds a
\* place under MaxConcurrent without a loop.
THEOREM ActiveJobsOwned ==
    ASSUME Orderly
    PROVE  Spec => []ActiveOwned
<1>1. Init => OwnInv
  <2>1. \A l \in Loops : BootLoops[l].pc \in {"idle", "off"}
    BY DEF BootLoops, IdleLoop
  <2>2. EmptyRow("unborn").status \notin ActiveStatus
    BY DEF EmptyRow, ActiveStatus
  <2> QED
    BY <2>1, <2>2, InitType DEF Init, OwnInv, NoFallback, ActiveOwned, ActiveJobs
<1>2. OwnInv /\ [Next]_vars => OwnInv'
  BY OwnStep
<1>3. OwnInv => ActiveOwned
  BY DEF OwnInv
<1> QED
  BY <1>1, <1>2, <1>3, PTL DEF Spec

-----------------------------------------------------------------------------
(* Which rows a step writes.                                                *)

OnlyRow(k) == \A j \in Jobs \ {k} : rows'[j] = rows[j]

\* An UPDATE by job_uid writes one row.
LEMMA UpdateOnly ==
    ASSUME NEW t \in [Jobs -> Row], NEW k \in Jobs, NEW r, NEW j \in Jobs \ {k}
    PROVE  Update(t, k, r)[j] = t[j]
BY DEF Update

LEMMA StatementOnly ==
    ASSUME rows \in [Jobs -> Row], NEW k \in Jobs
    PROVE  /\ \A s : SetStatus(k, s) => OnlyRow(k)
           /\ \A s : OnProgress(k, s) => OnlyRow(k)
           /\ \A p : rows' = UpdateExportJobFile(rows, k, p) => OnlyRow(k)
           /\ \A n : rows' = UpdateExportJobShareLink(rows, k, n) => OnlyRow(k)
           /\ rows' = rows => OnlyRow(k)
<1>1. \A s : SetStatus(k, s) => OnlyRow(k)
  BY UpdateOnly DEF SetStatus, UpdateExportJobStatus, OnlyRow
<1>2. \A s : OnProgress(k, s) => OnlyRow(k)
  BY <1>1 DEF OnProgress, OnlyRow
<1>3. \A p : rows' = UpdateExportJobFile(rows, k, p) => OnlyRow(k)
  BY UpdateOnly DEF UpdateExportJobFile, OnlyRow
<1>4. \A n : rows' = UpdateExportJobShareLink(rows, k, n) => OnlyRow(k)
  BY UpdateOnly DEF UpdateExportJobShareLink, OnlyRow
<1>5. rows' = rows => OnlyRow(k)
  BY DEF OnlyRow
<1> QED
  BY <1>1, <1>2, <1>3, <1>4, <1>5

\* A loop past its claim writes the row of its own job.
LEMMA LoopWrites ==
    ASSUME TypeInv, NEW l \in Loops, Download(l) \/ Deliver(l)
    PROVE  OnlyRow(w[l].job) /\ late' \subseteq late \cup {w[l].job}
<1> DEFINE k == w[l].job
<1>1. rows \in [Jobs -> Row] /\ k \in Jobs
  BY DownloadMoves, DeliverMoves DEF TypeInv, TypeOK, WorkTyped, Moved, BusyPC
<1>2. late' \subseteq late \cup {k}
  BY DEF Download, Deliver, Segment, Announce, IsapiOpen, IsapiRefused, IsapiPoll, IsapiChunk,
     IsapiEnd, IsapiError, Fallback, FfmpegPath, FfmpegStart, FfmpegProgress, FfmpegExit,
     MonitorRead, Remux, Stat, EncodeProgress, Encode, KeepEncoding, Collect, Assemble,
     AssembleFails, RecordFile, Publish, UploadOpen, UploadProgress, UploadEnds, UploadFails,
     Share, Unlink, Complete
<1>3. CASE Download(l)
  <2>1. \/ rows' = rows
        \/ \E s : SetStatus(k, s)
        \/ \E s : OnProgress(k, s)
        \/ \E p : rows' = UpdateExportJobFile(rows, k, p)
    BY <1>3 DEF Download, Segment, Announce, IsapiOpen, IsapiRefused, IsapiPoll, IsapiChunk,
       IsapiEnd, IsapiError, Fallback, FfmpegPath, FfmpegStart, FfmpegProgress, FfmpegExit,
       MonitorRead, Remux, Stat, EncodeProgress, Encode, KeepEncoding
  <2> QED
    BY <1>1, <1>2, <2>1, StatementOnly
<1>4. CASE Deliver(l)
  <2>1. \/ rows' = rows
        \/ \E s : SetStatus(k, s)
        \/ \E s : OnProgress(k, s)
        \/ \E p : rows' = UpdateExportJobFile(rows, k, p)
        \/ \E n : rows' = UpdateExportJobShareLink(rows, k, n)
    BY <1>4 DEF Deliver, Collect, Assemble, AssembleFails, RecordFile, Publish, UploadOpen,
       UploadProgress, UploadEnds, UploadFails, Share, Unlink, Complete
  <2> QED
    BY <1>1, <1>2, <2>1, StatementOnly
<1> QED
  BY <1>3, <1>4

-----------------------------------------------------------------------------
(* CancelHolds: a cancel that no loop has got past.                         *)

Taken(l, j) == w[l].job = j /\ w[l].pc \in OwningPC \cup {"claim"}

LEMMA InTime ==
    ASSUME NEW j \in Jobs
    PROVE  CancelledInTime(j) <=> /\ rows[j].status = "cancelled" /\ j \notin late
                                  /\ \A l \in Loops : ~Taken(l, j)
BY DEF CancelledInTime, Taken, Owns

\* A poll takes the job to its claim only if the row is not cancelled.
LEMMA PollHolds ==
    ASSUME TypeInv, NEW l \in Loops, Poll(l), NEW j \in Jobs, CancelledInTime(j)
    PROVE  CancelledInTime(j)'
<1>1. w \in [Loops -> LoopState] /\ rows \in [Jobs -> Row] /\ w[l] \in LoopState
      /\ (w[l].pc \in BusyPC => w[l].job \in Jobs)
  BY DEF TypeInv, TypeOK, WorkTyped
<1>2. \A pc \in PC : Goto(l, pc) => /\ w'[l].pc = pc /\ w'[l].job = w[l].job
                                   /\ \A m \in Loops \ {l} : w'[m] = w[m]
  BY <1>1, GotoType
<1>3. rows[j].status = "cancelled" /\ j \notin late /\ \A m \in Loops : ~Taken(m, j)
  BY InTime
<1>4. SUFFICES /\ rows'[j] = rows[j] /\ late' = late
               /\ \A m \in Loops \ {l} : w'[m] = w[m]
               /\ w'[l].job = j => w'[l].pc \notin OwningPC \cup {"claim"}
  BY <1>3 DEF CancelledInTime, Taken, Owns
<1> USE DEF PC, BusyPC, OwningPC
<1>5. CASE Tick(l)
  BY <1>2, <1>5 DEF Tick
<1>6. CASE Pick(l)
  <2>1. w'[l].pc \in {"idle", "register"} /\ (\A m \in Loops \ {l} : w'[m] = w[m])
    <3>1. CASE Goto(l, "idle")
      BY <1>2, <3>1
    <3>2. CASE \E i \in GetNextQueuedJob(rows) :
                 w' = [w EXCEPT ![l].pc = "register", ![l].job = i]
      <4>1. PICK i : w' = [w EXCEPT ![l].pc = "register", ![l].job = i]
        BY <3>2
      <4> HIDE DEF PC, BusyPC, OwningPC
      <4> QED
        BY <1>1, <4>1 DEF LoopState
    <3> QED
      BY <1>6, <3>1, <3>2 DEF Pick
  <2> QED
    BY <1>6, <2>1 DEF Pick
<1>7. CASE Register(l)
  BY <1>2, <1>7 DEF Register
<1>8. CASE Check(l)
  <2>1. w[l].job = j => Goto(l, "leave")
    BY <1>3, <1>8 DEF Check, NotCancelled
  <2>2. Goto(l, "leave") \/ Goto(l, "claim")
    BY <1>8 DEF Check
  <2> QED
    BY <1>2, <1>8, <2>1, <2>2 DEF Check
<1>9. CASE Release(l)
  <2>1. w'[l] = IdleLoop("idle") /\ (\A m \in Loops \ {l} : w'[m] = w[m])
    BY <1>1, <1>9 DEF Release
  <2>2. w'[l].pc = "idle"
    BY <2>1 DEF IdleLoop
  <2> QED
    BY <1>9, <2>1, <2>2 DEF Release
<1>10. CASE RejectNVR(l) \/ Claim(l) \/ Search(l) \/ Fail(l)
  <2>1. w[l].job # j /\ w[l].job \in Jobs
    BY <1>1, <1>3, <1>10 DEF Taken, RejectNVR, Claim, Search, Fail
  <2>2. OnlyRow(w[l].job) /\ late' = late
    BY <1>1, <1>10, <2>1, StatementOnly DEF RejectNVR, Claim, Search, Fail
  <2>3. w'[l].job = w[l].job /\ (\A m \in Loops \ {l} : w'[m] = w[m])
    <3>1. CASE Claim(l)
      <4> HIDE DEF PC, BusyPC, OwningPC
      <4> QED
        BY <1>1, <3>1 DEF Claim, LoopState
    <3>2. CASE Search(l)
      <4> HIDE DEF PC, BusyPC, OwningPC
      <4> QED
        BY <1>1, <3>2 DEF Search, Goto, LoopState
    <3>3. CASE RejectNVR(l) \/ Fail(l)
      BY <1>2, <3>3 DEF RejectNVR, Fail
    <3> QED
      BY <1>10, <3>1, <3>2, <3>3
  <2> QED
    BY <2>1, <2>2, <2>3 DEF OnlyRow
<1> QED
  BY <1>5, <1>6, <1>7, <1>8, <1>9, <1>10 DEF Poll

\* What handlers do to a cancelled row.
LEMMA HandlersHold ==
    ASSUME TypeInv, NEW r \in Requests, Arrival(r) \/ Handle(r), NEW j \in Jobs,
           CancelledInTime(j)
    PROVE  CancelledInTime(j)' \/ rows'[j].status \in {"queued", "deleted"}
<1>1. rows \in [Jobs -> Row] /\ w \in [Loops -> LoopState]
      /\ (req[r].op \in {"cancel", "delete", "retry"} => req[r].job \in Jobs)
  BY DEF TypeInv, TypeOK, RequestTyped
<1>2. rows[j].status = "cancelled" /\ j \notin late /\ \A m \in Loops : ~Taken(m, j)
  BY InTime
<1>3. EmptyRow("queued").status = "queued" /\ EmptyRow("deleted").status = "deleted"
  BY DEF EmptyRow
<1>4. rows'[j].status \in {"cancelled", "queued", "deleted"} /\ late' = late
  <2>1. CASE CancelWrite(r)
    <3> DEFINE k == req[r].job
               q == [rows[k] EXCEPT !.status = "cancelled", !.aged = FALSE]
    <3>1. k \in Jobs /\ rows' = Update(rows, k, q)
      BY <1>1, <2>1 DEF CancelWrite, At, UpdateExportJobStatus
    <3>2. q.status = "cancelled"
      BY <1>1, <3>1 DEF Row
    <3> HIDE DEF q, k
    <3> QED
      BY <1>1, <1>2, <2>1, <3>1, <3>2 DEF CancelWrite, Update
  <2>2. CASE DeleteDrop(r) \/ PurgeDrop(r) \/ SweepDrop(r)
    BY <1>1, <1>2, <1>3, <2>2 DEF DeleteDrop, PurgeDrop, SweepDrop, DeleteRows
  <2>3. CASE RetryReset(r)
    <3>1. req[r].job \in Jobs
      BY <1>1, <2>3 DEF RetryReset, At
    <3> QED
      BY <1>1, <1>2, <1>3, <2>3, <3>1 DEF RetryReset, ResetExportJobForRetry, Update
  <2>4. CASE RestartReset(r)
    BY <1>2, <2>4 DEF RestartReset, ResetStuckExportJobs, ActiveStatus
  <2>5. CASE Arrival(r) /\ ~RestartReset(r)
    BY <1>2, <2>5 DEF Arrival, CancelRead, DeleteRead, RetryRead, PurgeSelect, SweepSelect
  <2>6. CASE CancelSignal(r) \/ RemoveFiles(r) \/ DeleteSelect(r) \/ RetryUnshare(r)
             \/ RetryVerify(r) \/ RestartSpawn(r)
    BY <1>2, <2>6 DEF CancelSignal, RemoveFiles, DeleteSelect, RetryUnshare, RetryVerify, RestartSpawn
  <2> QED
    BY <2>1, <2>2, <2>3, <2>4, <2>5, <2>6 DEF Handle
<1>5. \A l \in Loops : w'[l] = w[l] \/ w'[l].pc = "idle"
  <2>1. CASE RestartSpawn(r)
    <3>1. PICK l \in Loops : Goto(l, "idle")
      BY <2>1 DEF RestartSpawn
    <3>2. "idle" \in PC
      BY DEF PC
    <3>3. w'[l].pc = "idle" /\ \A m \in Loops \ {l} : w'[m] = w[m]
      BY <1>1, <3>1, <3>2, GotoType
    <3> QED
      BY <3>3
  <2>2. CASE ~RestartSpawn(r)
    BY <2>2 DEF Arrival, Handle, CancelRead, DeleteRead, RetryRead, PurgeSelect, SweepSelect,
       RestartReset, CancelWrite, CancelSignal, RemoveFiles, DeleteSelect, DeleteDrop,
       PurgeDrop, SweepDrop, RetryUnshare, RetryReset, RetryVerify
  <2> QED
    BY <2>1, <2>2
<1>6. "idle" \notin OwningPC \cup {"claim"}
  BY DEF OwningPC
<1> QED
  BY <1>2, <1>4, <1>5, <1>6 DEF CancelledInTime, Owns, Taken

\* Submissions, the retention period, late monitors and a crash.
LEMMA OthersHold ==
    ASSUME TypeInv, (\E k \in Jobs : Submit(k) \/ Age(k) \/ MonitorWrite(k)) \/ Reboot,
           NEW j \in Jobs, CancelledInTime(j)
    PROVE  CancelledInTime(j)'
<1>1. rows \in [Jobs -> Row]
  BY DEF TypeInv, TypeOK
<1>2. rows[j].status = "cancelled" /\ j \notin late /\ \A m \in Loops : ~Taken(m, j)
  BY InTime
<1>3. ASSUME NEW k \in Jobs, Submit(k) \/ Age(k) \/ MonitorWrite(k) PROVE CancelledInTime(j)'
  <2>1. k # j
    BY <1>2, <1>3 DEF Submit, Age, MonitorWrite, TerminalStatus
  <2>2. OnlyRow(k)
    BY <1>1, <1>3, StatementOnly DEF Submit, Age, MonitorWrite, InsertExportJob, OnlyRow
  <2>3. w' = w /\ late' \subseteq late
    BY <1>3 DEF Submit, Age, MonitorWrite
  <2> QED
    BY <1>2, <2>1, <2>2, <2>3 DEF OnlyRow, CancelledInTime, Owns, Taken
<1>4. CASE Reboot
  <2>1. rows'[j] = rows[j] /\ late' = {} /\ w' = BootLoops
    BY <1>2, <1>4 DEF Reboot, ResetStuckExportJobs, ActiveStatus
  <2>2. \A l \in Loops : BootLoops[l].pc \in {"idle", "off"}
    BY DEF BootLoops, IdleLoop
  <2> QED
    BY <1>2, <2>1, <2>2 DEF CancelledInTime, Owns, OwningPC
<1> QED
  BY <1>3, <1>4

\* A cancel that lands before the worker's test holds until a retry, for any
\* number of loops on the job, whatever fails, is restarted or crashes.
THEOREM CancelsHold == Spec => CancelHolds
<1> DEFINE Holds == \A j \in Jobs : CancelledInTime(j) =>
                       CancelledInTime(j)' \/ rows'[j].status \in {"queued", "deleted"}
<1>1. TypeInv /\ Next => Holds
  <2> SUFFICES ASSUME TypeInv, Next, NEW j \in Jobs, CancelledInTime(j)
               PROVE  CancelledInTime(j)' \/ rows'[j].status \in {"queued", "deleted"}
    OBVIOUS
  <2>1. ASSUME NEW l \in Loops, LoopStep(l) PROVE CancelledInTime(j)'
    <3>1. CASE Poll(l)
      BY <3>1, PollHolds
    <3>2. CASE Download(l) \/ Deliver(l)
      <4>1. Moved(l)
        BY <3>2, DownloadMoves, DeliverMoves
      <4>2. w[l].job # j
        BY <4>1 DEF Moved, CancelledInTime, Owns
      <4>3. OnlyRow(w[l].job) /\ late' \subseteq late \cup {w[l].job}
        BY <3>2, LoopWrites
      <4> QED
        BY <4>1, <4>2, <4>3 DEF Moved, OnlyRow, CancelledInTime, Owns
    <3> QED
      BY <2>1, <3>1, <3>2 DEF LoopStep
  <2>2. ASSUME NEW r \in Requests, Arrival(r) \/ Handle(r)
        PROVE  CancelledInTime(j)' \/ rows'[j].status \in {"queued", "deleted"}
    BY <2>2, HandlersHold
  <2>3. CASE (\E k \in Jobs : Submit(k) \/ Age(k) \/ MonitorWrite(k)) \/ Reboot
    BY <2>3, OthersHold
  <2> QED
    BY <2>1, <2>2, <2>3 DEF Next
<1>2. TypeInv /\ [Next]_vars => [Holds]_vars
  BY <1>1
<1>3. TypeInv /\ [Next]_vars => TypeInv'
  BY TypeStep
<1> HIDE DEF Holds
<1>4. Spec => [][Holds]_vars
  BY <1>2, <1>3, InitType, PTL DEF Spec
<1> QED
  BY <1>4 DEF CancelHolds, Holds

-----------------------------------------------------------------------------
(* CancelReachable, with one loop: a second one registers a channel of its     *)
(* own for the same job.                                                    *)

ReachInv == \A l \in Loops : w[l].pc \in BusyPC \ {"register"} => chans[w[l].job] = l

LEMMA ReachStep ==
    ASSUME TypeInv, ReachInv, Loops = {MainLoop}, [Next]_vars
    PROVE  ReachInv'
<1>1. w \in [Loops -> LoopState] /\ chans \in [Jobs -> Loops \cup {NoLoop}]
      /\ \A l \in Loops : w[l] \in LoopState /\ (w[l].pc \in BusyPC => w[l].job \in Jobs)
  BY DEF TypeInv, TypeOK, WorkTyped
<1>2. ASSUME NEW l \in Loops, Poll(l) PROVE ReachInv'
  <2>1. SUFFICES w'[l].pc \in BusyPC \ {"register"} => chans'[w'[l].job] = l
    BY DEF ReachInv
  <2>2. \A pc \in PC : Goto(l, pc) => w'[l].pc = pc /\ w'[l].job = w[l].job
    BY <1>1, GotoType
  <2>3. w[l].pc \in BusyPC \ {"register"} => chans[w[l].job] = l
    BY DEF ReachInv
  <2>4. CASE Pick(l)
    <3>1. CASE Goto(l, "idle")
      BY <2>2, <3>1 DEF PC, BusyPC, OwningPC
    <3>2. CASE \E i \in GetNextQueuedJob(rows) :
                 w' = [w EXCEPT ![l].pc = "register", ![l].job = i]
      <4>1. PICK i : w' = [w EXCEPT ![l].pc = "register", ![l].job = i]
        BY <3>2
      <4>2. w'[l].pc = "register"
        BY <1>1, <4>1 DEF LoopState
      <4> QED
        BY <4>2
    <3> QED
      BY <2>4, <3>1, <3>2 DEF Pick
  <2>5. CASE Claim(l) \/ Search(l)
    <3>1. w'[l].job = w[l].job
      BY <1>1, <2>5 DEF Claim, Search, Goto, LoopState
    <3>2. w[l].pc \in BusyPC \ {"register"} /\ chans' = chans
      BY <2>5 DEF Claim, Search, BusyPC, OwningPC
    <3> QED
      BY <2>3, <3>1, <3>2
  <2>6. CASE Release(l)
    <3>1. w'[l] = IdleLoop("idle")
      BY <1>1, <2>6 DEF Release
    <3> QED
      BY <3>1 DEF IdleLoop, BusyPC, OwningPC
  <2>7. CASE Register(l)
    BY <1>1, <2>2, <2>7 DEF Register, PC, BusyPC, OwningPC
  <2>8. CASE Tick(l) \/ Check(l) \/ RejectNVR(l) \/ Fail(l)
    BY <2>2, <2>3, <2>8 DEF Tick, Check, RejectNVR, Fail, PC, BusyPC, OwningPC
  <2> QED
    BY <1>2, <2>4, <2>5, <2>6, <2>7, <2>8 DEF Poll
<1>3. ASSUME NEW l \in Loops, Download(l) \/ Deliver(l) PROVE ReachInv'
  BY <1>3, DownloadMoves, DeliverMoves DEF Moved, ReachInv, BusyPC, OwningPC
<1>4. ASSUME NEW r \in Requests, Arrival(r) \/ Handle(r) PROVE ReachInv'
  <2>1. CASE RestartSpawn(r)
    <3>1. PICK l \in Loops : Goto(l, "idle")
      BY <2>1 DEF RestartSpawn
    <3>2. \A m \in Loops : w'[m].pc = "idle"
      <4>1. "idle" \in PC
        BY DEF PC
      <4>2. w'[l].pc = "idle"
        BY <1>1, <3>1, <4>1, GotoType
      <4> QED
        BY <4>2
    <3> QED
      BY <3>2 DEF ReachInv, BusyPC, OwningPC
  <2>2. CASE ~RestartSpawn(r)
    <3>1. UNCHANGED <<chans, w>>
      BY <1>4, <2>2 DEF Arrival, Handle, CancelRead, DeleteRead, RetryRead, PurgeSelect, SweepSelect,
         RestartReset, CancelWrite, CancelSignal, RemoveFiles, DeleteSelect, DeleteDrop,
         PurgeDrop, SweepDrop, RetryUnshare, RetryReset, RetryVerify
    <3> QED
      BY <3>1 DEF ReachInv
  <2> QED
    BY <2>1, <2>2
<1>5. CASE Reboot
  <2>1. \A l \in Loops : w'[l].pc \in {"idle", "off"}
    BY <1>5 DEF Reboot, BootLoops, IdleLoop
  <2> QED
    BY <2>1 DEF ReachInv, BusyPC, OwningPC
<1>6. ASSUME UNCHANGED <<chans, w>> PROVE ReachInv'
  BY <1>6 DEF ReachInv
<1>7. ASSUME NEW j \in Jobs, Submit(j) \/ Age(j) \/ MonitorWrite(j) PROVE ReachInv'
  BY <1>6, <1>7 DEF Submit, Age, MonitorWrite
<1> QED
  BY <1>2, <1>3, <1>4, <1>5, <1>6, <1>7 DEF Next, LoopStep, vars

\* Until the worker is restarted, a cancel finds the channel of every job past
\* its claim, whatever fails and however often the process crashes.
THEOREM CancelsReach ==
    ASSUME Loops = {MainLoop}
    PROVE  Spec => []CancelReachable
<1>1. Init => ReachInv
  <2>1. \A l \in Loops : BootLoops[l].pc \in {"idle", "off"}
    BY DEF BootLoops, IdleLoop
  <2> QED
    BY <2>1 DEF Init, ReachInv, BusyPC, OwningPC
<1>2. Init => TypeInv
  BY InitType
<1>3. TypeInv /\ ReachInv /\ [Next]_vars => TypeInv' /\ ReachInv'
  BY TypeStep, ReachStep
<1>4. ReachInv => CancelReachable
  BY DEF ReachInv, CancelReachable, BusyPC, OwningPC
<1> QED
  BY <1>1, <1>2, <1>3, <1>4, PTL DEF Spec

-----------------------------------------------------------------------------
(* NoLeftover, with one loop, no crash, and no fault that leaves a segment     *)
(* outside segmentFiles.                                                    *)

Tidy == /\ Loops = {MainLoop} /\ MaxReboots = 0
        /\ {"isapi", "tiny"} \cap Faults = {}

FallbackPC == {"fallback", "ffmpeg", "start", "stream", "remux"}
CollectingPC == {"segment", "announce", "isapi", "collect", "assemble"}
DeliveringPC == {"record", "publish", "open", "upload", "share", "unlink"}
CleanPC == {"off", "idle", "pick", "register", "check", "claim", "search", "fail",
            "complete", "leave"}

\* The files there are, by where the loop is.
FilesFit(l) ==
    /\ w[l].pc \notin FallbackPC
    /\ \A f \in files : f[1] = w[l].job
    /\ w[l].pc \in CleanPC => files = {}
    /\ w[l].pc \in CollectingPC => files \subseteq w[l].got
    /\ w[l].pc \in {"reading", "chunk"} => w[l].out = {SegPath(l)}
    /\ w[l].pc \in {"reading", "chunk", "stat"} => files \subseteq w[l].got \cup {SegPath(l)}
    /\ w[l].pc = "encode" => files \subseteq w[l].got \cup w[l].out
    /\ w[l].pc = "assemble" => \A f \in w[l].out : f[1] = w[l].job
    /\ w[l].pc \in DeliveringPC => files \subseteq w[l].out

Same(l) == w'[l].job = w[l].job /\ w'[l].seg = w[l].seg

\* What the ways to set w leave of the rest of a loop's state.
LEMMA GotoFields ==
    ASSUME w \in [Loops -> LoopState], NEW l \in Loops, NEW pc, Goto(l, pc)
    PROVE  Same(l) /\ w'[l].pc = pc /\ w'[l].got = w[l].got /\ w'[l].out = w[l].out
BY DEF Goto, LoopState, Same

LEMMA OutFields ==
    ASSUME w \in [Loops -> LoopState], NEW l \in Loops, NEW pc, NEW p,
           w' = [w EXCEPT ![l].pc = pc, ![l].out = p]
    PROVE  Same(l) /\ w'[l].pc = pc /\ w'[l].got = w[l].got /\ w'[l].out = p
<1> DEFINE r == [w[l] EXCEPT !.pc = pc, !.out = p]
<1>1. w[l] \in LoopState /\ w' = [w EXCEPT ![l] = r]
  OBVIOUS
<1>2. r.pc = pc /\ r.out = p /\ r.job = w[l].job /\ r.seg = w[l].seg /\ r.got = w[l].got
  BY <1>1 DEF LoopState
<1> HIDE DEF r
<1> QED
  BY <1>1, <1>2 DEF Same

LEMMA NextFields ==
    ASSUME w \in [Loops -> LoopState], NEW l \in Loops, NEW got, NextSegment(l, got)
    PROVE  w'[l].pc \in {"segment", "collect"} /\ w'[l].job = w[l].job /\ w'[l].got = got
<1> DEFINE r == [w[l] EXCEPT !.pc = "segment", !.seg = @ + 1, !.got = got]
           q == [w[l] EXCEPT !.pc = "collect", !.got = got]
<1>1. w[l] \in LoopState /\ (w' = [w EXCEPT ![l] = r] \/ w' = [w EXCEPT ![l] = q])
  BY DEF NextSegment
<1>2. /\ r.pc = "segment" /\ r.got = got /\ r.job = w[l].job
      /\ q.pc = "collect" /\ q.got = got /\ q.job = w[l].job
  BY <1>1 DEF LoopState
<1> HIDE DEF r, q
<1> QED
  BY <1>1, <1>2

LEMMA SegPathStays ==
    ASSUME NEW l \in Loops, Same(l), exportDir' = exportDir
    PROVE  SegPath(l)' = SegPath(l)
BY DEF Same, SegPath

LEMMA PathsOfJob ==
    ASSUME NEW l \in Loops
    PROVE  SegPath(l)[1] = w[l].job /\ FinalPath(l)[1] = w[l].job
BY DEF SegPath, FinalPath

LEMMA DownloadFits ==
    ASSUME TypeInv, Tidy, NEW l \in Loops, FilesFit(l), Download(l)
    PROVE  FilesFit(l)'
<1> USE DEF FallbackPC, CollectingPC, DeliveringPC, CleanPC
<1>1. w \in [Loops -> LoopState] /\ files \subseteq File
  BY DEF TypeInv, TypeOK
<1>2. \A pc : Goto(l, pc) =>
         /\ Same(l) /\ w'[l].job = w[l].job /\ w'[l].pc = pc
         /\ w'[l].got = w[l].got /\ w'[l].out = w[l].out
  BY <1>1, GotoFields DEF Same
<1>3. Same(l) /\ exportDir' = exportDir => SegPath(l)' = SegPath(l)
  BY SegPathStays
<1>4. SegPath(l)[1] = w[l].job
  BY PathsOfJob
<1>5. "isapi" \notin Faults /\ "tiny" \notin Faults
  BY DEF Tidy
<1>6. CASE Segment(l)
  BY <1>2, <1>6 DEF Segment, Abandon, FilesFit
<1>7. CASE Announce(l) \/ IsapiChunk(l) \/ IsapiEnd(l)
  BY <1>2, <1>3, <1>7 DEF Announce, IsapiChunk, IsapiEnd, FilesFit
<1>8. CASE IsapiOpen(l)
  <2>1. /\ Same(l) /\ w'[l].job = w[l].job /\ w'[l].pc = "reading"
        /\ w'[l].got = w[l].got /\ w'[l].out = {SegPath(l)}
    <3> DEFINE p == {SegPath(l)}
    <3>1. w' = [w EXCEPT ![l].pc = "reading", ![l].out = p]
      BY <1>8 DEF IsapiOpen
    <3> HIDE DEF p
    <3>2. Same(l) /\ w'[l].pc = "reading" /\ w'[l].got = w[l].got /\ w'[l].out = p
      BY <1>1, <3>1, OutFields
    <3> QED
      BY <3>2 DEF p, Same
  <2> QED
    BY <1>3, <1>4, <1>8, <2>1 DEF IsapiOpen, FilesFit
<1>9. CASE IsapiPoll(l)
  BY <1>2, <1>3, <1>9 DEF IsapiPoll, FilesFit
<1>10. CASE IsapiRefused(l) \/ IsapiError(l)
  BY <1>5, <1>10 DEF IsapiRefused, IsapiError
<1>11. CASE Fallback(l) \/ FfmpegPath(l) \/ FfmpegStart(l) \/ FfmpegProgress(l) \/ FfmpegExit(l)
            \/ MonitorRead(l) \/ Remux(l)
  BY <1>11 DEF Fallback, FfmpegPath, FfmpegStart, FfmpegProgress, FfmpegExit, MonitorRead, Remux,
     FilesFit
<1>12. CASE Stat(l)
  <2>1. CASE SegPath(l) \notin files /\ NextSegment(l, w[l].got)
    <3>1. w'[l].pc \in {"segment", "collect"} /\ w'[l].job = w[l].job /\ w'[l].got = w[l].got
      BY <1>1, <2>1, NextFields
    <3> QED
      BY <1>12, <2>1, <3>1 DEF Stat, FilesFit
  <2>2. CASE w' = [w EXCEPT ![l].pc = "encode", ![l].out = {SegPath(l)}]
    <3>1. /\ w'[l].job = w[l].job /\ w'[l].pc = "encode"
          /\ w'[l].got = w[l].got /\ w'[l].out = {SegPath(l)}
      <4> DEFINE p == {SegPath(l)}
      <4>1. w' = [w EXCEPT ![l].pc = "encode", ![l].out = p]
        BY <2>2
      <4> HIDE DEF p
      <4>2. Same(l) /\ w'[l].pc = "encode" /\ w'[l].got = w[l].got /\ w'[l].out = p
        BY <1>1, <4>1, OutFields
      <4> QED
        BY <4>2 DEF p, Same
    <3> QED
      BY <1>12, <3>1 DEF Stat, FilesFit
  <2> QED
    BY <1>5, <1>12, <2>1, <2>2 DEF Stat
<1>13. CASE EncodeProgress(l)
  BY <1>13 DEF EncodeProgress, FilesFit
<1>14. CASE Encode(l)
  <2> DEFINE enc == {Encoded(f) : f \in w[l].out}
  <2>1. \A f \in w[l].out : Encoded(f)[1] = w[l].job
    <3>1. \A f \in File : Encoded(f)[1] = f[1]
      BY DEF Encoded, File
    <3> QED
      BY <1>1, <1>14, <3>1 DEF Encode, FilesFit
  <2>2. w'[l].pc \in {"segment", "collect"} /\ w'[l].job = w[l].job /\ w'[l].got = w[l].got \cup enc
    BY <1>1, <1>14, NextFields DEF Encode
  <2>3. files \subseteq w[l].got \cup w[l].out /\ files' = (files \ w[l].out) \cup enc
    BY <1>14 DEF Encode, FilesFit
  <2> QED
    BY <2>1, <2>2, <2>3 DEF FilesFit
<1>15. CASE KeepEncoding(l)
  <2>1. w'[l].pc \in {"segment", "collect"} /\ w'[l].job = w[l].job /\ w'[l].got = w[l].got \cup w[l].out
    BY <1>1, <1>15, NextFields DEF KeepEncoding
  <2> QED
    BY <1>15, <2>1 DEF KeepEncoding, FilesFit
<1> QED
  BY <1>6, <1>7, <1>8, <1>9, <1>10, <1>11, <1>12, <1>13, <1>14, <1>15 DEF Download

LEMMA DeliverFits ==
    ASSUME TypeInv, NEW l \in Loops, FilesFit(l), Deliver(l)
    PROVE  FilesFit(l)'
<1> USE DEF FallbackPC, CollectingPC, DeliveringPC, CleanPC
<1>1. w \in [Loops -> LoopState]
  BY DEF TypeInv, TypeOK
<1>2. \A pc : Goto(l, pc) =>
         /\ w'[l].job = w[l].job /\ w'[l].pc = pc
         /\ w'[l].got = w[l].got /\ w'[l].out = w[l].out
  BY <1>1, GotoFields DEF Same
<1>3. CASE Collect(l)
  <2>1. CASE w[l].got = {}
    BY <1>2, <1>3, <2>1 DEF Collect, FilesFit
  <2>2. CASE w[l].got # {}
    <3>1. /\ w'[l].job = w[l].job /\ w'[l].pc = "assemble"
          /\ w'[l].got = w[l].got /\ w'[l].out = {FinalPath(l)}
      BY <1>1, <1>3, <2>2, OutFields DEF Collect, Same
    <3> QED
      BY <1>3, <3>1, PathsOfJob DEF Collect, FilesFit
  <2> QED
    BY <2>1, <2>2
<1>4. CASE Assemble(l)
  <2>1. files' \subseteq w[l].out /\ \A f \in files' : f[1] = w[l].job
    BY <1>4 DEF Assemble, FilesFit
  <2> QED
    BY <1>2, <1>4, <2>1 DEF Assemble, FilesFit
<1>5. CASE AssembleFails(l)
  <2>1. files' = {}
    BY <1>5 DEF AssembleFails, FilesFit
  <2> QED
    BY <1>2, <1>5, <2>1 DEF AssembleFails, FilesFit
<1>6. CASE RecordFile(l) \/ Publish(l) \/ UploadOpen(l) \/ UploadFails(l) \/ Share(l)
  BY <1>2, <1>6 DEF RecordFile, Publish, UploadOpen, UploadFails, Share, FilesFit
<1>7. CASE UploadProgress(l)
  BY <1>7 DEF UploadProgress, FilesFit
<1>8. CASE UploadEnds(l)
  <2>1. w'[l].job = w[l].job /\ w'[l].out = w[l].out /\ w'[l].pc \in {"share", "unlink"}
    <3>1. CASE w' = [w EXCEPT ![l].pc = "share", ![l].link = uploads[w[l].job] + 1]
      <4> DEFINE r == [w[l] EXCEPT !.pc = "share", !.link = uploads[w[l].job] + 1]
      <4>1. w[l] \in LoopState /\ w' = [w EXCEPT ![l] = r]
        BY <1>1, <3>1
      <4>2. r.pc = "share" /\ r.job = w[l].job /\ r.out = w[l].out
        BY <4>1 DEF LoopState
      <4> HIDE DEF r
      <4> QED
        BY <1>1, <4>1, <4>2
    <3>2. CASE Goto(l, "unlink")
      BY <1>2, <3>2
    <3> QED
      BY <1>8, <3>1, <3>2 DEF UploadEnds
  <2> QED
    BY <1>8, <2>1 DEF UploadEnds, FilesFit
<1>9. CASE Unlink(l)
  BY <1>2, <1>9 DEF Unlink, FilesFit
<1>10. CASE Complete(l)
  BY <1>2, <1>10 DEF Complete, FilesFit
<1> QED
  BY <1>3, <1>4, <1>5, <1>6, <1>7, <1>8, <1>9, <1>10 DEF Deliver

\* Between two jobs, and before the first segment, there is no file.
LEMMA PollFits ==
    ASSUME TypeInv, NEW l \in Loops, FilesFit(l), Poll(l)
    PROVE  FilesFit(l)'
<1> USE DEF CleanPC
<1>1. w \in [Loops -> LoopState] /\ w[l] \in LoopState
  BY DEF TypeInv, TypeOK
<1>2. files = {} /\ files' = {}
  BY DEF Poll, Tick, Pick, Register, Check, RejectNVR, Claim, Search, Fail, Release, FilesFit
<1>3. w'[l].pc \in CleanPC \cup {"segment"}
  <2>1. \A pc : Goto(l, pc) => w'[l].pc = pc
    BY <1>1, GotoFields
  <2>2. CASE Pick(l)
    <3>1. CASE \E i \in GetNextQueuedJob(rows) :
                 w' = [w EXCEPT ![l].pc = "register", ![l].job = i]
      <4>1. PICK i : w' = [w EXCEPT ![l].pc = "register", ![l].job = i]
        BY <3>1
      <4> QED
        BY <1>1, <4>1 DEF LoopState
    <3> QED
      BY <2>1, <2>2, <3>1 DEF Pick
  <2>3. CASE Claim(l) \/ Search(l)
    BY <1>1, <2>3 DEF Claim, Search, Goto, LoopState
  <2>4. CASE Release(l)
    BY <1>1, <2>4 DEF Release, IdleLoop
  <2>5. CASE Tick(l) \/ Register(l) \/ Check(l) \/ RejectNVR(l) \/ Fail(l)
    BY <2>1, <2>5 DEF Tick, Register, Check, RejectNVR, Fail
  <2> QED
    BY <2>2, <2>3, <2>4, <2>5 DEF Poll
<1> QED
  BY <1>2, <1>3 DEF FilesFit, FallbackPC, CollectingPC, DeliveringPC

\* Handlers only remove files.
LEMMA HandlersFit ==
    ASSUME TypeInv, NEW l \in Loops, FilesFit(l), NEW r \in Requests, Arrival(r) \/ Handle(r)
    PROVE  FilesFit(l)'
<1>1. w \in [Loops -> LoopState]
  BY DEF TypeInv, TypeOK
<1>2. CASE RestartSpawn(r)
  <2>1. PICK m \in Loops : w[m].pc = "off" /\ Goto(m, "idle")
    BY <1>2 DEF RestartSpawn
  <2>2. CASE m = l
    <3>1. files' = {} /\ w'[l].pc = "idle"
      BY <1>1, <1>2, <2>1, <2>2, GotoFields DEF RestartSpawn, FilesFit, CleanPC
    <3> QED
      BY <3>1 DEF FilesFit, FallbackPC, CollectingPC, DeliveringPC
  <2>3. CASE m # l
    <3>1. w'[l] = w[l]
      BY <1>1, <2>1, <2>3 DEF Goto
    <3>2. SegPath(l)' = SegPath(l)
      BY <1>2, <3>1 DEF RestartSpawn, SegPath
    <3> QED
      BY <1>2, <3>1, <3>2 DEF RestartSpawn, FilesFit
  <2> QED
    BY <2>2, <2>3
<1>3. CASE ~RestartSpawn(r)
  <2>1. UNCHANGED <<w, exportDir>> /\ files' \subseteq files
    BY <1>3 DEF Arrival, Handle, CancelRead, DeleteRead, RetryRead, PurgeSelect, SweepSelect,
       RestartReset, CancelWrite, CancelSignal, RemoveFiles, DeleteSelect, DeleteDrop,
       PurgeDrop, SweepDrop, RetryUnshare, RetryReset, RetryVerify
  <2>2. SegPath(l)' = SegPath(l)
    BY <2>1 DEF SegPath
  <2> QED
    BY <2>1, <2>2 DEF FilesFit
<1> QED
  BY <1>2, <1>3

LEMMA FilesStep ==
    ASSUME TypeInv, Tidy, FilesFit(MainLoop), [Next]_vars
    PROVE  FilesFit(MainLoop)'
<1>1. MainLoop \in Loops
  BY WorkerAssumption
<1>2. ASSUME NEW l \in Loops, LoopStep(l) PROVE FilesFit(MainLoop)'
  <2>1. l = MainLoop
    BY DEF Tidy
  <2>2. FilesFit(l)'
    BY <1>2, <2>1, PollFits, DownloadFits, DeliverFits DEF LoopStep
  <2> QED
    BY <2>1, <2>2
<1>3. ASSUME NEW r \in Requests, Arrival(r) \/ Handle(r) PROVE FilesFit(MainLoop)'
  BY <1>1, <1>3, HandlersFit
<1>4. ~Reboot
  BY DEF Reboot, Tidy, TypeInv, TypeOK
<1>5. ASSUME UNCHANGED <<w, files, exportDir>> PROVE FilesFit(MainLoop)'
  BY <1>5 DEF FilesFit, SegPath
<1>6. ASSUME NEW j \in Jobs, Submit(j) \/ Age(j) \/ MonitorWrite(j) PROVE FilesFit(MainLoop)'
  BY <1>5, <1>6 DEF Submit, Age, MonitorWrite
<1> QED
  BY <1>2, <1>3, <1>4, <1>5, <1>6 DEF Next, vars

\* Every return of processExportJob has removed what the job wrote, whatever
\* is cancelled, deleted, purged or retried meanwhile, also when reads and
\* writes of the table or calls to OneDrive fail; a failed ISAPI download, a
\* segment that is too small, a second loop and a crash may leave files.
THEOREM NothingLeft ==
    ASSUME Tidy
    PROVE  Spec => []NoLeftover
<1>1. Init => FilesFit(MainLoop)
  <2>1. BootLoops[MainLoop].pc = "idle"
    BY WorkerAssumption DEF BootLoops, IdleLoop
  <2> QED
    BY <2>1 DEF Init, FilesFit, FallbackPC, CollectingPC, DeliveringPC
<1>2. Init => TypeInv
  BY InitType
<1>3. TypeInv /\ FilesFit(MainLoop) /\ [Next]_vars => TypeInv' /\ FilesFit(MainLoop)'
  BY TypeStep, FilesStep
<1>4. TypeInv /\ FilesFit(MainLoop) => NoLeftover
  <2> SUFFICES ASSUME TypeInv, FilesFit(MainLoop), NEW f \in files
               PROVE  \E l \in Loops : Owns(l, f[1])
    BY DEF NoLeftover
  <2>1. MainLoop \in Loops /\ w[MainLoop].pc \in PC
    BY WorkerAssumption DEF TypeInv, TypeOK, LoopState
  <2>2. w[MainLoop].pc \notin CleanPC /\ f[1] = w[MainLoop].job
    BY DEF FilesFit
  <2>3. w[MainLoop].pc \in OwningPC
    BY <2>1, <2>2 DEF CleanPC, PC, BusyPC, OwningPC
  <2> QED
    BY <2>1, <2>2, <2>3 DEF Owns
<1> QED
  BY <1>1, <1>2, <1>3, <1>4, PTL DEF Spec

-----------------------------------------------------------------------------
(* What a step of a loop writes: the row of its own job, and which columns.  *)

Written(k, S) ==
    /\ \A j \in Jobs \ {k} : rows'[j] = rows[j]
    /\ rows'[k].link = rows[k].link
    /\ rows'[k].status = rows[k].status \/ (HasRow(rows, k) /\ rows'[k].status \in S)
    /\ rows'[k].path = rows[k].path \/ \A f \in rows'[k].path : f[1] = k

\* The statements a loop issues, but for the share link.
LEMMA StatementWrites ==
    ASSUME rows \in [Jobs -> Row], NEW k \in Jobs, NEW S
    PROVE  /\ \A s \in S : SetStatus(k, s) => Written(k, S)
           /\ \A s \in S : OnProgress(k, s) => Written(k, S)
           /\ \A p : (\A f \in p : f[1] = k) /\ rows' = UpdateExportJobFile(rows, k, p) => Written(k, S)
           /\ rows' = rows => Written(k, S)
<1>0. rows[k] \in Row
  OBVIOUS
<1>1. rows' = rows => Written(k, S)
  BY DEF Written
<1>2. ASSUME NEW s \in S, rows' = UpdateExportJobStatus(rows, k, s) PROVE Written(k, S)
  <2> DEFINE r == [rows[k] EXCEPT !.status = s, !.aged = FALSE]
  <2>1. r.status = s /\ r.link = rows[k].link /\ r.path = rows[k].path
    BY <1>0 DEF Row
  <2>2. rows' = Update(rows, k, r)
    BY <1>2 DEF UpdateExportJobStatus
  <2> HIDE DEF r
  <2>3. CASE HasRow(rows, k)
    <3>1. rows'[k] = r /\ \A j \in Jobs \ {k} : rows'[j] = rows[j]
      BY <2>2, <2>3 DEF Update
    <3> QED
      BY <2>1, <2>3, <3>1 DEF Written
  <2>4. CASE ~HasRow(rows, k)
    BY <2>2, <2>4 DEF Update, Written
  <2> QED
    BY <2>3, <2>4
<1>3. ASSUME NEW p, \A f \in p : f[1] = k, rows' = UpdateExportJobFile(rows, k, p)
      PROVE  Written(k, S)
  <2> DEFINE r == [rows[k] EXCEPT !.path = p]
  <2>1. r.status = rows[k].status /\ r.link = rows[k].link /\ r.path = p
    BY <1>0 DEF Row
  <2>2. rows' = Update(rows, k, r)
    BY <1>3 DEF UpdateExportJobFile
  <2> HIDE DEF r
  <2>3. CASE HasRow(rows, k)
    <3>1. rows'[k] = r /\ \A j \in Jobs \ {k} : rows'[j] = rows[j]
      BY <2>2, <2>3 DEF Update
    <3> QED
      BY <1>3, <2>1, <3>1 DEF Written
  <2>4. CASE ~HasRow(rows, k)
    BY <2>2, <2>4 DEF Update, Written
  <2> QED
    BY <2>3, <2>4
<1>4. \A s \in S : SetStatus(k, s) => Written(k, S)
  BY <1>1, <1>2 DEF SetStatus, Written
<1>5. \A s \in S : OnProgress(k, s) => Written(k, S)
  BY <1>1, <1>4 DEF OnProgress, Written
<1> QED
  BY <1>1, <1>3, <1>4, <1>5

LEMMA WritesMore ==
    ASSUME NEW k, NEW S, NEW T, Written(k, S), S \subseteq T
    PROVE  Written(k, T)
BY DEF Written

-----------------------------------------------------------------------------
(* The steps of a loop on its job, but for those of the upload's link.      *)

\* The path of the final file is the job's.
OutOwn(l) == w[l].pc \in {"assemble", "record"} => \A f \in w[l].out : f[1] = w[l].job

Local(l) == /\ w'[l].job = w[l].job /\ w'[l].link = w[l].link
            /\ \A m \in Loops \ {l} : w'[m] = w[m]

Works(l) ==
    /\ w[l].pc \in BusyPC \ {"share", "leave"}
    /\ w'[l].pc \in BusyPC \ {"register", "share"}
    /\ Local(l)
    /\ Written(w[l].job, PresentStatus)
    /\ w[l].pc \in {"unlink", "complete"} => w'[l].pc \in {"complete", "leave"}
    /\ "dbwrite" \notin Faults /\ w[l].pc \in {"unlink", "complete"} /\ w'[l].pc = "leave"
          => rows'[w[l].job].status \notin ActiveStatus \cup {"queued"}
    /\ OutOwn(l)'
    /\ UNCHANGED <<remote, uploads, req, reboots>>

\* Without a failed ISAPI download: the row is active until the loop leaves the job.
Proper(l) ==
    /\ w'[l].pc # "leave" => Written(w[l].job, ActiveStatus)
    /\ Written(w[l].job, ActiveStatus \cup TerminalStatus)

LEMMA GotoLocal ==
    ASSUME w \in [Loops -> LoopState], NEW l \in Loops, NEW pc, Goto(l, pc)
    PROVE  Local(l) /\ w'[l].pc = pc /\ w'[l].out = w[l].out
BY DEF Goto, LoopState, Local

LEMMA OutLocal ==
    ASSUME w \in [Loops -> LoopState], NEW l \in Loops, NEW pc, NEW p,
           w' = [w EXCEPT ![l].pc = pc, ![l].out = p]
    PROVE  Local(l) /\ w'[l].pc = pc /\ w'[l].out = p
<1> DEFINE r == [w[l] EXCEPT !.pc = pc, !.out = p]
<1>1. w[l] \in LoopState /\ w' = [w EXCEPT ![l] = r]
  OBVIOUS
<1>2. r.pc = pc /\ r.out = p /\ r.job = w[l].job /\ r.link = w[l].link
  BY <1>1 DEF LoopState
<1> HIDE DEF r
<1> QED
  BY <1>1, <1>2 DEF Local

LEMMA NextLocal ==
    ASSUME w \in [Loops -> LoopState], NEW l \in Loops, NEW got, NextSegment(l, got)
    PROVE  Local(l) /\ w'[l].pc \in {"segment", "collect"}
<1> DEFINE r == [w[l] EXCEPT !.pc = "segment", !.seg = @ + 1, !.got = got]
           q == [w[l] EXCEPT !.pc = "collect", !.got = got]
<1>1. w[l] \in LoopState /\ (w' = [w EXCEPT ![l] = r] \/ w' = [w EXCEPT ![l] = q])
  BY DEF NextSegment
<1>2. /\ r.pc = "segment" /\ r.link = w[l].link /\ r.job = w[l].job
      /\ q.pc = "collect" /\ q.link = w[l].link /\ q.job = w[l].job
  BY <1>1 DEF LoopState
<1> HIDE DEF r, q
<1> QED
  BY <1>1, <1>2 DEF Local

\* Most steps: progress is reported, and no final path is in play.
LEMMA QuietWork ==
    ASSUME NEW l \in Loops, w[l].pc \in BusyPC \ {"share", "unlink", "complete", "leave"},
           w'[l].pc \in BusyPC \ {"register", "share", "assemble", "record"},
           Local(l), Written(w[l].job, ActiveStatus),
           UNCHANGED <<remote, uploads, req, reboots>>
    PROVE  Works(l) /\ Proper(l)
<1>1. Written(w[l].job, PresentStatus) /\ Written(w[l].job, ActiveStatus \cup TerminalStatus)
  BY WritesMore DEF PresentStatus
<1> QED
  BY <1>1 DEF Works, Proper, OutOwn

\* The last write of a job that has failed.
LEMMA LastWork ==
    ASSUME NEW l \in Loops, w[l].pc \in BusyPC \ {"share", "unlink", "complete", "leave"},
           w'[l].pc = "leave", Local(l), Written(w[l].job, {"failed"}),
           UNCHANGED <<remote, uploads, req, reboots>>
    PROVE  Works(l) /\ Proper(l)
<1>1. Written(w[l].job, PresentStatus) /\ Written(w[l].job, ActiveStatus \cup TerminalStatus)
  BY WritesMore DEF PresentStatus, TerminalStatus
<1> QED
  BY <1>1 DEF Works, Proper, OutOwn, BusyPC

LEMMA PollWorks ==
    ASSUME TypeInv, NEW l \in Loops,
           Register(l) \/ Check(l) \/ RejectNVR(l) \/ Claim(l) \/ Search(l) \/ Fail(l)
    PROVE  Works(l) /\ Proper(l)
<1> USE DEF BusyPC, OwningPC
<1>1. w \in [Loops -> LoopState] /\ rows \in [Jobs -> Row] /\ w[l] \in LoopState /\ w[l].job \in Jobs
  BY DEF TypeInv, TypeOK, WorkTyped, Register, Check, RejectNVR, Claim, Search, Fail
<1>2. \A pc : Goto(l, pc) => Local(l) /\ w'[l].pc = pc
  BY <1>1, GotoLocal
<1>3. rows' = rows => Written(w[l].job, ActiveStatus)
  BY <1>1, StatementWrites
<1>4. CASE Register(l) \/ Check(l)
  BY <1>2, <1>3, <1>4, QuietWork DEF Register, Check
<1>5. CASE RejectNVR(l) \/ Fail(l)
  <2>1. Written(w[l].job, {"failed"})
    BY <1>1, <1>5, StatementWrites DEF RejectNVR, Fail
  <2> QED
    BY <1>2, <1>5, <2>1, LastWork DEF RejectNVR, Fail
<1>6. CASE Claim(l)
  <2>1. Written(w[l].job, ActiveStatus)
    BY <1>1, <1>6, StatementWrites DEF Claim, ActiveStatus
  <2>2. Local(l) /\ w'[l].pc = "search"
    <3> HIDE DEF BusyPC, OwningPC
    <3> QED
      BY <1>1, <1>6 DEF Claim, LoopState, Local
  <2> QED
    BY <1>6, <2>1, <2>2, QuietWork DEF Claim
<1>7. CASE Search(l)
  <2>1. Local(l) /\ w'[l].pc \in {"fail", "segment"}
    <3> HIDE DEF BusyPC, OwningPC
    <3>1. ASSUME NEW n, w' = [w EXCEPT ![l].pc = "segment", ![l].seg = 1, ![l].nseg = n]
          PROVE  Local(l) /\ w'[l].pc = "segment"
      BY <1>1, <3>1 DEF LoopState, Local
    <3> QED
      BY <1>2, <1>7, <3>1 DEF Search
  <2> QED
    BY <1>3, <1>7, <2>1, QuietWork DEF Search
<1> QED
  BY <1>4, <1>5, <1>6, <1>7

LEMMA DownloadWorks ==
    ASSUME TypeInv, NEW l \in Loops, Download(l)
    PROVE  Works(l) /\ (NoFallback /\ "isapi" \notin Faults => Proper(l))
<1> USE DEF BusyPC, OwningPC
<1>1. w \in [Loops -> LoopState] /\ rows \in [Jobs -> Row] /\ w[l] \in LoopState /\ w[l].job \in Jobs
  BY DownloadMoves DEF TypeInv, TypeOK, WorkTyped, Moved
<1> DEFINE k == w[l].job
<1>2. \A pc : Goto(l, pc) => Local(l) /\ w'[l].pc = pc
  BY <1>1, GotoLocal
<1>3. /\ rows' = rows => Written(k, ActiveStatus)
      /\ OnProgress(k, "downloading") => Written(k, ActiveStatus)
      /\ OnProgress(k, "encoding") => Written(k, ActiveStatus)
  BY <1>1, StatementWrites DEF ActiveStatus
<1>4. rows' = UpdateExportJobFile(rows, k, {SegPath(l)}) => Written(k, ActiveStatus)
  <2>1. \A f \in {SegPath(l)} : f[1] = k
    BY PathsOfJob
  <2> QED
    BY <1>1, <2>1, StatementWrites
<1>5. CASE Segment(l) \/ Fallback(l)
  BY <1>2, <1>3, <1>5, QuietWork DEF Segment, Fallback, Abandon
<1>6. CASE Announce(l) \/ IsapiChunk(l) \/ IsapiEnd(l)
  BY <1>2, <1>3, <1>6, QuietWork DEF Announce, IsapiChunk, IsapiEnd
<1>7. CASE IsapiOpen(l) \/ FfmpegPath(l)
  <2>1. Local(l) /\ w'[l].pc \in {"reading", "start"}
    BY <1>1, <1>7, OutLocal DEF IsapiOpen, FfmpegPath
  <2>2. Written(k, ActiveStatus)
    BY <1>4, <1>7 DEF IsapiOpen, FfmpegPath
  <2> QED
    BY <1>7, <2>1, <2>2, QuietWork DEF IsapiOpen, FfmpegPath
<1>8. CASE IsapiRefused(l) \/ IsapiPoll(l) \/ FfmpegExit(l)
  BY <1>2, <1>3, <1>8, QuietWork DEF IsapiRefused, IsapiPoll, FfmpegExit
<1>9. CASE IsapiError(l) \/ FfmpegStart(l) \/ Remux(l)
  <2>1. ~NoFallback \/ "isapi" \in Faults
    BY <1>9 DEF NoFallback, IsapiError, FfmpegStart, Remux
  <2>2. Written(k, PresentStatus)
    BY <1>1, <1>9, StatementWrites
    DEF IsapiError, FfmpegStart, Remux, PresentStatus, ActiveStatus, TerminalStatus
  <2>3. Local(l) /\ w'[l].pc \in {"fallback", "stream", "stat"}
    BY <1>2, <1>9 DEF IsapiError, FfmpegStart, Remux
  <2>4. w[l].pc \in {"chunk", "start", "remux"} /\ UNCHANGED <<remote, uploads, req, reboots>>
    BY <1>9 DEF IsapiError, FfmpegStart, Remux
  <2> QED
    BY <2>1, <2>2, <2>3, <2>4 DEF Works, OutOwn
<1>10. CASE FfmpegProgress(l) \/ MonitorRead(l) \/ EncodeProgress(l)
  <2>1. Local(l)
    BY <1>10 DEF FfmpegProgress, MonitorRead, EncodeProgress, Local
  <2> QED
    BY <1>3, <1>10, <2>1, QuietWork DEF FfmpegProgress, MonitorRead, EncodeProgress
<1>11. CASE Stat(l) \/ Encode(l) \/ KeepEncoding(l)
  <2>1. Local(l) /\ w'[l].pc \in {"segment", "collect", "encode"}
    <3>1. CASE w' = [w EXCEPT ![l].pc = "encode", ![l].out = {SegPath(l)}]
      BY <1>1, <3>1, OutLocal
    <3>2. CASE \E got : NextSegment(l, got)
      BY <1>1, <3>2, NextLocal
    <3> QED
      BY <1>11, <3>1, <3>2 DEF Stat, Encode, KeepEncoding
  <2> QED
    BY <1>3, <1>11, <2>1, QuietWork DEF Stat, Encode, KeepEncoding
<1> QED
  BY <1>5, <1>6, <1>7, <1>8, <1>9, <1>10, <1>11 DEF Download

LEMMA DeliverWorks ==
    ASSUME TypeInv, NEW l \in Loops, OutOwn(l), Deliver(l), ~UploadEnds(l), ~Share(l)
    PROVE  Works(l) /\ Proper(l)
<1> USE DEF BusyPC, OwningPC
<1>1. w \in [Loops -> LoopState] /\ rows \in [Jobs -> Row] /\ w[l] \in LoopState /\ w[l].job \in Jobs
  BY DeliverMoves DEF TypeInv, TypeOK, WorkTyped, Moved
<1> DEFINE k == w[l].job
<1>2. \A pc : Goto(l, pc) => Local(l) /\ w'[l].pc = pc /\ w'[l].out = w[l].out
  BY <1>1, GotoLocal
<1>3. /\ rows' = rows => Written(k, ActiveStatus)
      /\ OnProgress(k, "encoding") => Written(k, ActiveStatus)
      /\ OnProgress(k, "uploading") => Written(k, ActiveStatus)
  BY <1>1, StatementWrites DEF ActiveStatus
<1>4. Written(k, ActiveStatus) => Written(k, PresentStatus) /\ Written(k, ActiveStatus \cup TerminalStatus)
  BY WritesMore DEF PresentStatus
<1>5. CASE Collect(l)
  <2>1. CASE w[l].got = {}
    BY <1>2, <1>3, <1>5, <2>1, QuietWork DEF Collect
  <2>2. CASE w[l].got # {}
    <3>1. Local(l) /\ w'[l].pc = "assemble" /\ w'[l].out = {FinalPath(l)}
      BY <1>1, <1>5, <2>2, OutLocal DEF Collect
    <3>2. OutOwn(l)'
      BY <3>1, PathsOfJob DEF OutOwn, Local
    <3> QED
      BY <1>3, <1>4, <1>5, <2>2, <3>1, <3>2 DEF Collect, Works, Proper
  <2> QED
    BY <2>1, <2>2
<1>6. CASE Assemble(l)
  <2>1. OutOwn(l)'
    BY <1>2, <1>6 DEF Assemble, OutOwn, Local
  <2> QED
    BY <1>2, <1>3, <1>4, <1>6, <2>1 DEF Assemble, Works, Proper
<1>7. CASE AssembleFails(l) \/ Publish(l) \/ UploadOpen(l) \/ UploadFails(l)
  BY <1>2, <1>3, <1>7, QuietWork DEF AssembleFails, Publish, UploadOpen, UploadFails
<1>8. CASE RecordFile(l)
  <2>1. Written(k, ActiveStatus)
    BY <1>1, <1>8, StatementWrites DEF RecordFile, OutOwn
  <2> QED
    BY <1>2, <1>8, <2>1, QuietWork DEF RecordFile
<1>9. CASE UploadProgress(l)
  <2>1. Local(l)
    BY <1>9 DEF UploadProgress, Local
  <2> QED
    BY <1>3, <1>9, <2>1, QuietWork DEF UploadProgress
<1>10. CASE Unlink(l)
  <2>1. w[l].pc = "unlink" /\ w'[l].pc = "complete" /\ Local(l)
    BY <1>2, <1>10 DEF Unlink
  <2> QED
    BY <1>3, <1>4, <1>10, <2>1 DEF Unlink, Works, Proper, OutOwn
<1>11. CASE Complete(l)
  <2>1. w[l].pc = "complete" /\ w'[l].pc = "leave" /\ Local(l)
    BY <1>2, <1>11 DEF Complete
  <2>2. SetStatus(k, "complete") /\ UNCHANGED <<remote, uploads, req, reboots>>
    BY <1>11 DEF Complete
  <2>3. Written(k, TerminalStatus)
    BY <1>1, <2>2, StatementWrites DEF TerminalStatus
  <2>4. Written(k, PresentStatus) /\ Written(k, ActiveStatus \cup TerminalStatus)
    BY <2>3, WritesMore DEF PresentStatus
  <2>5. "dbwrite" \notin Faults => rows'[k].status \notin ActiveStatus \cup {"queued"}
    <3> SUFFICES ASSUME "dbwrite" \notin Faults PROVE rows'[k].status \notin ActiveStatus \cup {"queued"}
      OBVIOUS
    <3> DEFINE r == [rows[k] EXCEPT !.status = "complete", !.aged = FALSE]
    <3>1. rows' = Update(rows, k, r)
      BY <2>2 DEF SetStatus, UpdateExportJobStatus
    <3>2. r.status = "complete"
      BY <1>1 DEF Row
    <3> HIDE DEF r
    <3> QED
      BY <1>1, <3>1, <3>2 DEF Update, HasRow, PresentStatus, ActiveStatus
  <2> QED
    BY <2>1, <2>2, <2>4, <2>5 DEF Works, Proper, OutOwn
<1> QED
  BY <1>5, <1>6, <1>7, <1>8, <1>9, <1>10, <1>11 DEF Deliver

\* The two steps that make a link.
LEMMA UploadMoves ==
    ASSUME TypeInv, NEW l \in Loops, UploadEnds(l)
    PROVE  /\ w[l].pc = "upload" /\ w[l].job \in Jobs
           /\ w'[l].job = w[l].job /\ \A m \in Loops \ {l} : w'[m] = w[m]
           /\ \/ w'[l].pc = "share" /\ w'[l].link = uploads[w[l].job] + 1
              \/ "onedrive" \in Faults /\ w'[l].pc = "unlink" /\ w'[l].link = w[l].link
           /\ uploads' = [uploads EXCEPT ![w[l].job] = uploads[w[l].job] + 1]
           /\ remote' = remote \cup {<<w[l].job, uploads[w[l].job] + 1>>}
           /\ UNCHANGED <<rows, req, reboots>>
<1>1. w \in [Loops -> LoopState] /\ w[l] \in LoopState
  BY DEF TypeInv, TypeOK
<1>2. w[l].pc = "upload" /\ w[l].job \in Jobs
  BY DEF UploadEnds, TypeInv, WorkTyped, BusyPC, OwningPC
<1> DEFINE n == uploads[w[l].job] + 1
<1>3. CASE w' = [w EXCEPT ![l].pc = "share", ![l].link = n]
  <2> DEFINE r == [w[l] EXCEPT !.pc = "share", !.link = n]
  <2>1. w' = [w EXCEPT ![l] = r]
    BY <1>1, <1>3
  <2>2. r.pc = "share" /\ r.job = w[l].job /\ r.link = n
    BY <1>1 DEF LoopState
  <2> HIDE DEF r
  <2>3. w'[l] = r /\ \A m \in Loops \ {l} : w'[m] = w[m]
    BY <1>1, <2>1
  <2> QED
    BY <1>2, <2>2, <2>3 DEF UploadEnds
<1>4. CASE "onedrive" \in Faults /\ Goto(l, "unlink")
  BY <1>1, <1>2, <1>4, GotoLocal DEF UploadEnds, Local
<1> QED
  BY <1>3, <1>4 DEF UploadEnds

LEMMA ShareMoves ==
    ASSUME TypeInv, NEW l \in Loops, Share(l)
    PROVE  /\ w[l].pc = "share" /\ w[l].job \in Jobs /\ w'[l].pc = "unlink" /\ Local(l)
           /\ \A j \in Jobs \ {w[l].job} : rows'[j] = rows[j]
           /\ \/ ~HasRow(rows, w[l].job) /\ rows'[w[l].job] = rows[w[l].job]
              \/ HasRow(rows, w[l].job) /\ rows'[w[l].job].link = w[l].link
           /\ rows'[w[l].job].status = rows[w[l].job].status
           /\ rows'[w[l].job].path = rows[w[l].job].path
           /\ UNCHANGED <<remote, uploads, req, reboots>>
<1>1. w \in [Loops -> LoopState] /\ rows \in [Jobs -> Row]
  BY DEF TypeInv, TypeOK
<1>2. w[l].pc = "share" /\ w[l].job \in Jobs
  BY DEF Share, TypeInv, WorkTyped, BusyPC, OwningPC
<1>3. w'[l].pc = "unlink" /\ Local(l)
  BY <1>1, GotoLocal DEF Share
<1> DEFINE k == w[l].job
           r == [rows[k] EXCEPT !.link = w[l].link]
<1>4. rows' = Update(rows, k, r) /\ UNCHANGED <<remote, uploads, req, reboots>>
  BY DEF Share, UpdateExportJobShareLink
<1>5. r.link = w[l].link /\ r.status = rows[k].status /\ r.path = rows[k].path
  BY <1>1, <1>2 DEF Row
<1> HIDE DEF k, r
<1>6. k \in Jobs
  BY <1>2 DEF k
<1>7. CASE HasRow(rows, k)
  <2>1. rows'[k] = r /\ \A j \in Jobs \ {k} : rows'[j] = rows[j]
    BY <1>1, <1>4, <1>6, <1>7 DEF Update
  <2> QED
    BY <1>2, <1>3, <1>4, <1>5, <1>7, <2>1 DEF k
<1>8. CASE ~HasRow(rows, k)
  <2>1. rows' = rows
    BY <1>4, <1>8 DEF Update
  <2> QED
    BY <1>2, <1>3, <1>4, <1>8, <2>1 DEF k
<1> QED
  BY <1>7, <1>8

\* The steps of a loop between two jobs.
LEMMA RestMoves ==
    ASSUME TypeInv, NEW l \in Loops, Tick(l) \/ Pick(l) \/ Release(l)
    PROVE  /\ \A m \in Loops \ {l} : w'[m] = w[m]
           /\ UNCHANGED <<rows, remote, uploads, req, reboots>>
           /\ w[l].pc \in {"idle", "pick", "leave"}
           /\ \/ w'[l].pc \in {"idle", "pick"} /\ w'[l].link \in {0, w[l].link}
                 /\ (w'[l].link = 0 \/ w[l].pc \in {"idle", "pick"})
              \/ /\ w[l].pc = "pick" /\ w'[l].pc = "register" /\ w'[l].link = w[l].link
                 /\ w'[l].job \in Jobs /\ rows[w'[l].job].status = "queued"
<1>1. w \in [Loops -> LoopState] /\ w[l] \in LoopState
  BY DEF TypeInv, TypeOK
<1>2. \A pc : Goto(l, pc) => Local(l) /\ w'[l].pc = pc
  BY <1>1, GotoLocal
<1>3. CASE Tick(l)
  BY <1>2, <1>3 DEF Tick, Local
<1>4. CASE Pick(l)
  <2>1. CASE Goto(l, "idle")
    BY <1>2, <1>4, <2>1 DEF Pick, Local
  <2>2. ASSUME NEW j \in GetNextQueuedJob(rows),
               w' = [w EXCEPT ![l].pc = "register", ![l].job = j]
        PROVE  /\ w'[l].pc = "register" /\ w'[l].job = j /\ w'[l].link = w[l].link
               /\ \A m \in Loops \ {l} : w'[m] = w[m]
    BY <1>1, <2>2 DEF LoopState
  <2>3. \A j \in GetNextQueuedJob(rows) : j \in Jobs /\ rows[j].status = "queued"
    BY DEF GetNextQueuedJob
  <2> QED
    BY <1>4, <2>1, <2>2, <2>3 DEF Pick
<1>5. CASE Release(l)
  <2>1. w'[l] = IdleLoop("idle") /\ \A m \in Loops \ {l} : w'[m] = w[m]
    BY <1>1, <1>5 DEF Release
  <2>2. w'[l].pc = "idle" /\ w'[l].link = 0
    BY <2>1 DEF IdleLoop
  <2> QED
    BY <1>5, <2>1, <2>2 DEF Release
<1> QED
  BY <1>3, <1>4, <1>5

-----------------------------------------------------------------------------
(* What the handlers write.                                                 *)

Restatus(j, s) == /\ rows'[j].status = s
                  /\ rows'[j].link = rows[j].link /\ rows'[j].path = rows[j].path

LEMMA StatusWrite ==
    ASSUME rows \in [Jobs -> Row], NEW k \in Jobs, NEW s, rows' = UpdateExportJobStatus(rows, k, s),
           NEW j \in Jobs
    PROVE  rows'[j] = rows[j] \/ (HasRow(rows, j) /\ Restatus(j, s))
<1> DEFINE r == [rows[k] EXCEPT !.status = s, !.aged = FALSE]
<1>1. r.status = s /\ r.link = rows[k].link /\ r.path = rows[k].path
  BY DEF Row
<1>2. rows' = Update(rows, k, r)
  BY DEF UpdateExportJobStatus
<1> HIDE DEF r
<1> QED
  BY <1>1, <1>2 DEF Update, Restatus

LEMMA StuckWrite ==
    ASSUME rows \in [Jobs -> Row], rows' = ResetStuckExportJobs(rows), NEW j \in Jobs
    PROVE  rows'[j] = rows[j] \/ (j \in ActiveJobs(rows) /\ Restatus(j, "queued"))
<1> DEFINE r == [rows[j] EXCEPT !.status = "queued"]
<1>1. r.status = "queued" /\ r.link = rows[j].link /\ r.path = rows[j].path
  BY DEF Row
<1>2. rows'[j] = IF rows[j].status \in ActiveStatus THEN r ELSE rows[j]
  BY DEF ResetStuckExportJobs
<1> HIDE DEF r
<1> QED
  BY <1>1, <1>2 DEF Restatus, ActiveJobs

LEMMA HandlerRows ==
    ASSUME TypeInv, NEW r \in Requests, Arrival(r) \/ Handle(r), NEW j \in Jobs
    PROVE  \/ rows'[j] = rows[j]
           \/ HasRow(rows, j) /\ Restatus(j, "cancelled")
           \/ rows'[j] = EmptyRow("deleted")
           \/ RetryReset(r) /\ j = req[r].job /\ HasRow(rows, j) /\ rows'[j] = EmptyRow("queued")
           \/ j \in ActiveJobs(rows) /\ Restatus(j, "queued")
<1>1. rows \in [Jobs -> Row] /\ (req[r].op \in {"cancel", "delete", "retry"} => req[r].job \in Jobs)
  BY DEF TypeInv, TypeOK, RequestTyped
<1>2. CASE CancelWrite(r)
  BY <1>1, <1>2, StatusWrite DEF CancelWrite, At
<1>3. CASE DeleteDrop(r) \/ PurgeDrop(r) \/ SweepDrop(r)
  BY <1>3 DEF DeleteDrop, PurgeDrop, SweepDrop, DeleteRows
<1>4. CASE RetryReset(r)
  <2>1. req[r].job \in Jobs /\ rows' = Update(rows, req[r].job, EmptyRow("queued"))
    BY <1>1, <1>4 DEF RetryReset, At, ResetExportJobForRetry
  <2> QED
    BY <1>1, <1>4, <2>1 DEF Update
<1>5. CASE RestartReset(r)
  BY <1>1, <1>5, StuckWrite DEF RestartReset
<1>6. CASE Arrival(r) /\ ~RestartReset(r)
  BY <1>6 DEF Arrival, CancelRead, DeleteRead, RetryRead, PurgeSelect, SweepSelect
<1>7. CASE CancelSignal(r) \/ RemoveFiles(r) \/ DeleteSelect(r) \/ RetryUnshare(r)
           \/ RetryVerify(r) \/ RestartSpawn(r)
  BY <1>7 DEF CancelSignal, RemoveFiles, DeleteSelect, RetryUnshare, RetryVerify, RestartSpawn
<1> QED
  BY <1>2, <1>3, <1>4, <1>5, <1>6, <1>7 DEF Handle

\* What a request keeps from step to step, and where it may go.
SameRequest(r) == /\ req'[r].op = req[r].op /\ req'[r].job = req[r].job
                  /\ req'[r].link = req[r].link

\* Steps at which a handler is about to delete a row, a file or an upload.
HeldAt == {"select", "drop", "unshare", "remove", "reset"}

LEMMA AdvanceFields ==
    ASSUME req \in [Requests -> ReqState], NEW r \in Requests, NEW at, Advance(r, at)
    PROVE  /\ SameRequest(r) /\ req'[r].path = req[r].path /\ req'[r].at = at
           /\ \A q \in Requests \ {r} : req'[q] = req[q]
BY DEF Advance, ReqState, SameRequest

LEMMA BeginFields ==
    ASSUME req \in [Requests -> ReqState], NEW r \in Requests,
           NEW op, NEW j, NEW at, NEW p, NEW n, Begin(r, op, j, at, p, n)
    PROVE  /\ req'[r].op = op /\ req'[r].job = j /\ req'[r].at = at
           /\ req'[r].path = p /\ req'[r].link = n
           /\ \A q \in Requests \ {r} : req'[q] = req[q]
BY DEF Begin

Arrived(r) ==
    \/ req'[r].op = "cancel" /\ req'[r].at = "write"
    \/ req'[r].op = "restart" /\ req'[r].at = "spawn"
    \/ /\ req'[r].op = "delete" /\ req'[r].at = "select" /\ req'[r].path = {}
       /\ \E j \in Jobs : req'[r].job = j /\ rows[j].status \in TerminalStatus
    \/ /\ req'[r].op = "retry" /\ req'[r].at = "unshare"
       /\ \E j \in Jobs : /\ req'[r].job = j /\ rows[j].status \in TerminalStatus
                          /\ req'[r].path = rows[j].path /\ req'[r].link = rows[j].link
    \/ /\ req'[r].op \in {"purge", "sweep"} /\ req'[r].at = "drop" /\ req'[r].job = NoJob
       /\ req'[r].path \subseteq SelectPaths(rows, TerminalJobs(rows))

LEMMA ArrivalRequest ==
    ASSUME TypeInv, NEW r \in Requests, Arrival(r)
    PROVE  /\ Arrived(r) /\ (rows' = rows \/ req'[r].op = "restart")
           /\ req[r].at = "new"
           /\ \A q \in Requests \ {r} : req'[q] = req[q]
           /\ UNCHANGED <<remote, uploads, w, reboots>>
<1>1. req \in [Requests -> ReqState]
  BY DEF TypeInv, TypeOK
<1>2. ASSUME NEW j \in Jobs, CancelRead(r, j)
      PROVE  /\ Arrived(r) /\ rows' = rows
             /\ \A q \in Requests \ {r} : req'[q] = req[q]
  BY <1>1, <1>2, BeginFields DEF CancelRead, Arrived
<1>3. ASSUME NEW j \in Jobs, DeleteRead(r, j)
      PROVE  /\ Arrived(r) /\ rows' = rows
             /\ \A q \in Requests \ {r} : req'[q] = req[q]
  BY <1>1, <1>3, BeginFields DEF DeleteRead, Arrived
<1>4. ASSUME NEW j \in Jobs, RetryRead(r, j)
      PROVE  /\ Arrived(r) /\ rows' = rows
             /\ \A q \in Requests \ {r} : req'[q] = req[q]
  BY <1>1, <1>4, BeginFields DEF RetryRead, Arrived
<1>5. CASE PurgeSelect(r)
  BY <1>1, <1>5, BeginFields DEF PurgeSelect, Arrived, Arrival, Arrives
<1>6. CASE SweepSelect(r)
  <2>1. SelectPaths(rows, AgedJobs(rows)) \subseteq SelectPaths(rows, TerminalJobs(rows))
    BY DEF SelectPaths, AgedJobs
  <2> QED
    BY <1>1, <1>6, <2>1, BeginFields DEF SweepSelect, Arrived, Arrives
<1>7. CASE RestartReset(r)
  BY <1>1, <1>7, BeginFields DEF RestartReset, Arrived, Arrives
<1>8. req[r].at = "new" /\ UNCHANGED <<remote, uploads, w, reboots>>
  BY DEF Arrival, Arrives, CancelRead, DeleteRead, RetryRead, PurgeSelect, SweepSelect, RestartReset
<1>9. PurgeSelect(r) \/ SweepSelect(r) => rows' = rows
  BY DEF PurgeSelect, SweepSelect
<1> QED
  BY <1>1, <1>2, <1>3, <1>4, <1>5, <1>6, <1>7, <1>8, <1>9, BeginFields
  DEF Arrival, RestartReset

\* How a handler goes on: a retry removes the upload, then the file, and resets
\* the row; a delete reads the paths it will remove.
Handled(r) ==
    /\ SameRequest(r)
    /\ \A q \in Requests \ {r} : req'[q] = req[q]
    /\ \/ req'[r].path = req[r].path
       \/ At(r, "delete", "select") /\ req'[r].path = SelectPaths(rows, {req[r].job})
    /\ req'[r].at \in HeldAt => req[r].at \in HeldAt \/ req[r].op = "cancel"
    /\ req[r].op = "retry" => \/ req[r].at = "unshare" /\ req'[r].at = "remove"
                              \/ req[r].at = "remove" /\ req'[r].at = "reset"
                              \/ req[r].at = "reset" /\ req'[r].at = "verify" /\ RetryReset(r)
                              \/ req[r].at = "verify" /\ req'[r].at \in {"done", "error"}
    /\ req'[r].at \notin {"new", "spawn"}
    /\ \/ remote' = remote /\ (At(r, "retry", "unshare") => "onedrive" \in Faults)
       \/ At(r, "retry", "unshare") /\ remote' = remote \ {<<req[r].job, req[r].link>>}
    /\ \A l \in Loops : \/ w'[l] = w[l]
                        \/ w[l].pc = "off" /\ w'[l].pc = "idle" /\ w'[l].link = w[l].link
    /\ UNCHANGED <<uploads, reboots>>

LEMMA HandleRequest ==
    ASSUME TypeInv, NEW r \in Requests, Handle(r)
    PROVE  Handled(r)
<1>1. req \in [Requests -> ReqState] /\ w \in [Loops -> LoopState]
  BY DEF TypeInv, TypeOK
<1>2. \A at : Advance(r, at) => /\ SameRequest(r) /\ req'[r].path = req[r].path /\ req'[r].at = at
                                /\ \A q \in Requests \ {r} : req'[q] = req[q]
  BY <1>1, AdvanceFields
<1>3. CASE CancelWrite(r) \/ CancelSignal(r)
  BY <1>2, <1>3 DEF Handled, HeldAt, CancelWrite, CancelSignal, At
<1>4. CASE RemoveFiles(r)
  BY <1>2, <1>4 DEF Handled, HeldAt, RemoveFiles, At
<1>5. CASE DeleteSelect(r)
  <2> DEFINE p == SelectPaths(rows, {req[r].job})
             q == [req[r] EXCEPT !.at = "drop", !.path = p]
  <2>1. q.op = req[r].op /\ q.job = req[r].job /\ q.link = req[r].link /\ q.at = "drop" /\ q.path = p
    BY <1>1 DEF ReqState
  <2>2. req' = [req EXCEPT ![r] = q]
    BY <1>1, <1>5 DEF DeleteSelect
  <2> HIDE DEF q
  <2> QED
    BY <1>1, <1>5, <2>1, <2>2 DEF Handled, HeldAt, SameRequest, DeleteSelect, At
<1>6. CASE DeleteDrop(r) \/ PurgeDrop(r) \/ SweepDrop(r)
  BY <1>2, <1>6 DEF Handled, HeldAt, DeleteDrop, PurgeDrop, SweepDrop, At
<1>7. CASE RetryUnshare(r)
  BY <1>2, <1>7 DEF Handled, HeldAt, RetryUnshare, At
<1>8. CASE RetryReset(r) \/ RetryVerify(r)
  BY <1>2, <1>8 DEF Handled, HeldAt, RetryReset, RetryVerify, At
<1>9. CASE RestartSpawn(r)
  <2>1. PICK l \in Loops : w[l].pc = "off" /\ Goto(l, "idle")
    BY <1>9 DEF RestartSpawn
  <2>2. Local(l) /\ w'[l].pc = "idle"
    BY <1>1, <2>1, GotoLocal
  <2> QED
    BY <1>2, <1>9, <2>1, <2>2 DEF Handled, HeldAt, RestartSpawn, At, Local
<1> QED
  BY <1>3, <1>4, <1>5, <1>6, <1>7, <1>8, <1>9 DEF Handle

\* Steps of the table alone.
LEMMA TableMoves ==
    ASSUME TypeInv, NEW k \in Jobs, Submit(k) \/ Age(k) \/ MonitorWrite(k), NEW j \in Jobs
    PROVE  /\ \/ rows'[j] = rows[j]
              \/ rows[j].status = "unborn" /\ rows'[j] = EmptyRow("queued")
              \/ HasRow(rows, j) /\ Restatus(j, rows[j].status)
              \/ late # {} /\ HasRow(rows, j) /\ Restatus(j, "downloading")
           /\ UNCHANGED <<remote, uploads, w, req, reboots>>
<1>1. rows \in [Jobs -> Row]
  BY DEF TypeInv, TypeOK
<1>2. CASE Submit(k)
  BY <1>1, <1>2 DEF Submit, InsertExportJob
<1>3. CASE Age(k)
  <2> DEFINE r == [rows[k] EXCEPT !.aged = TRUE]
  <2>1. r.status = rows[k].status /\ r.link = rows[k].link /\ r.path = rows[k].path
    BY <1>1 DEF Row
  <2>2. rows' = [rows EXCEPT ![k] = r] /\ HasRow(rows, k)
    BY <1>3 DEF Age, HasRow, PresentStatus
  <2> HIDE DEF r
  <2>3. rows'[j] = rows[j] \/ (HasRow(rows, j) /\ Restatus(j, rows[j].status))
    BY <1>1, <2>1, <2>2 DEF Restatus
  <2> QED
    BY <1>3, <2>3 DEF Age
<1>4. CASE MonitorWrite(k)
  <2>1. rows'[j] = rows[j] \/ (HasRow(rows, j) /\ Restatus(j, "downloading"))
    BY <1>1, <1>4, StatusWrite DEF MonitorWrite, OnProgress, SetStatus
  <2> QED
    BY <1>4, <2>1 DEF MonitorWrite
<1> QED
  BY <1>2, <1>3, <1>4

\* A crash: no loop works, no request is under way, and the active rows wait.
LEMMA RebootMoves ==
    ASSUME TypeInv, Reboot
    PROVE  /\ \A l \in Loops : w'[l].pc \in {"idle", "off"} /\ w'[l].link = 0
           /\ \A r \in Requests : SameRequest(r) /\ req'[r].at \in {"new", "done"}
                                  /\ req'[r].path = req[r].path
           /\ \A j \in Jobs : rows'[j] = rows[j] \/ (j \in ActiveJobs(rows) /\ Restatus(j, "queued"))
           /\ reboots' # 0
<1>1. rows \in [Jobs -> Row] /\ req \in [Requests -> ReqState] /\ reboots \in Nat
  BY WorkerAssumption DEF TypeInv, TypeOK
<1>2. \A r \in Requests : SameRequest(r) /\ req'[r].at \in {"new", "done"} /\ req'[r].path = req[r].path
  <2> SUFFICES ASSUME NEW r \in Requests
               PROVE  SameRequest(r) /\ req'[r].at \in {"new", "done"} /\ req'[r].path = req[r].path
    OBVIOUS
  <2> DEFINE q == [req[r] EXCEPT !.at = "done"]
  <2>1. q.op = req[r].op /\ q.job = req[r].job /\ q.link = req[r].link /\ q.at = "done" /\ q.path = req[r].path
    BY <1>1 DEF ReqState
  <2>2. req'[r] = IF req[r].at = "new" THEN req[r] ELSE q
    BY DEF Reboot
  <2> HIDE DEF q
  <2> QED
    BY <2>1, <2>2 DEF SameRequest
<1>3. \A l \in Loops : w'[l].pc \in {"idle", "off"} /\ w'[l].link = 0
  BY DEF Reboot, BootLoops, IdleLoop
<1>4. \A j \in Jobs : rows'[j] = rows[j] \/ (j \in ActiveJobs(rows) /\ Restatus(j, "queued"))
  BY <1>1, StuckWrite DEF Reboot
<1> QED
  BY <1>1, <1>2, <1>3, <1>4 DEF Reboot

\* A step of a loop: work on its job, the two steps of the link, or between jobs.
LEMMA LoopCases ==
    ASSUME TypeInv, NEW l \in Loops, OutOwn(l), LoopStep(l)
    PROVE  \/ Works(l) /\ (NoFallback /\ "isapi" \notin Faults => Proper(l))
           \/ UploadEnds(l) \/ Share(l)
           \/ Tick(l) \/ Pick(l) \/ Release(l)
BY PollWorks, DownloadWorks, DeliverWorks DEF LoopStep, Poll

LEMMA HandlerLoops ==
    ASSUME TypeInv, NEW r \in Requests, Arrival(r) \/ Handle(r), NEW l \in Loops
    PROVE  w'[l] = w[l] \/ (w[l].pc = "off" /\ w'[l].pc = "idle" /\ w'[l].link = w[l].link)
BY ArrivalRequest, HandleRequest DEF Handled

-----------------------------------------------------------------------------
(* The paths in the table and in the hands of a handler are a job's own.    *)

PathInv ==
    /\ \A j \in Jobs : \A f \in rows[j].path : f[1] = j
    /\ \A l \in Loops : OutOwn(l)
    /\ \A r \in Requests : req[r].op \in {"none", "restart"} => req[r].at \in {"new", "spawn", "done"}

LEMMA PathStep ==
    ASSUME TypeInv, PathInv, [Next]_vars
    PROVE  PathInv'
<1>1. ASSUME NEW l \in Loops, LoopStep(l) PROVE PathInv'
  <2>1. CASE Works(l)
    <3>1. w[l].job \in Jobs
      BY <2>1 DEF TypeInv, WorkTyped, Works
    <3> QED
      BY <2>1, <3>1 DEF PathInv, Works, Local, OutOwn, Written
  <2>2. CASE UploadEnds(l)
    BY <2>2, UploadMoves DEF PathInv, OutOwn
  <2>3. CASE Share(l)
    BY <2>3, ShareMoves DEF PathInv, OutOwn, Local
  <2>4. CASE Tick(l) \/ Pick(l) \/ Release(l)
    BY <2>4, RestMoves DEF PathInv, OutOwn
  <2> QED
    BY <1>1, <2>1, <2>2, <2>3, <2>4, LoopCases DEF PathInv
<1>2. ASSUME NEW r \in Requests, Arrival(r) \/ Handle(r) PROVE PathInv'
  <2>1. \A j \in Jobs : \A f \in rows'[j].path : f[1] = j
    <3> TAKE j \in Jobs
    <3>1. rows'[j].path = rows[j].path \/ rows'[j].path = {}
      BY <1>2, HandlerRows DEF Restatus, EmptyRow
    <3> QED
      BY <3>1 DEF PathInv
  <2>2. \A l \in Loops : OutOwn(l)'
    <3> TAKE l \in Loops
    <3>1. w'[l] = w[l] \/ w'[l].pc = "idle"
      BY <1>2, HandlerLoops
    <3> QED
      BY <3>1 DEF PathInv, OutOwn
  <2>3. CASE Arrival(r)
    BY <2>1, <2>2, <2>3, ArrivalRequest DEF PathInv, Arrived
  <2>4. CASE Handle(r)
    <3>1. req[r].op \in {"none", "restart"} => RestartSpawn(r)
      BY <2>4 DEF PathInv, Handle, At, CancelWrite, CancelSignal, RemoveFiles, DeleteSelect,
         DeleteDrop, PurgeDrop, SweepDrop, RetryUnshare, RetryReset, RetryVerify
    <3>2. RestartSpawn(r) => req'[r].at = "done"
      BY AdvanceFields DEF RestartSpawn, TypeInv, TypeOK
    <3>3. Handled(r)
      BY <2>4, HandleRequest
    <3> QED
      BY <2>1, <2>2, <3>1, <3>2, <3>3 DEF PathInv, Handled, SameRequest
  <2> QED
    BY <1>2, <2>3, <2>4
<1>3. ASSUME NEW k \in Jobs, Submit(k) \/ Age(k) \/ MonitorWrite(k) PROVE PathInv'
  BY <1>3, TableMoves DEF PathInv, OutOwn, EmptyRow, Restatus
<1>4. CASE Reboot
  BY <1>4, RebootMoves DEF PathInv, OutOwn, Restatus, SameRequest
<1>5. CASE UNCHANGED vars
  BY <1>5 DEF vars, PathInv, OutOwn
<1> QED
  BY <1>1, <1>2, <1>3, <1>4, <1>5 DEF Next

-----------------------------------------------------------------------------
(* Jobs in hand: a loop that works on a job, a handler that removes it.      *)

Doing(l, j) == w[l].pc \in BusyPC \ {"leave"} /\ w[l].job = j

\* The handlers that remove a job's row, file or upload.
Removals == {"delete", "purge", "sweep", "retry"}

Holds(s, j) == /\ req[s].op \in Removals
               /\ req[s].at \in HeldAt
               /\ req[s].job = j \/ \E f \in req[s].path : f[1] = j

Retrying(r, j) == req[r].op = "retry" /\ Holds(r, j)

\* A retry of a job does not overlap another handler of that job, of a kind in ops.
Apart(ops) == \A r, s \in Requests : \A j \in Jobs :
    Retrying(r, j) /\ Holds(s, j) /\ req[s].op \in ops => r = s

RetriesApart == Apart({"retry"})
RemovalsApart == Apart(Removals)

\* What a loop works on is not finished.
NotDone == \A l \in Loops, j \in Jobs :
    Doing(l, j) => rows[j].status \notin TerminalStatus \cup {"unborn"}

\* What a handler of a kind in ops removes is finished, and no loop works on it.
HeldInv(ops) == \A s \in Requests, j \in Jobs : req[s].op \in ops /\ Holds(s, j) =>
    /\ rows[j].status \in TerminalStatus \cup {"cancelled", "deleted"}
    /\ \A l \in Loops : ~Doing(l, j)

\* One loop, which works on one job at a time.
OneLoop == Loops = {MainLoop}

HandsInv(ops) == TypeInv /\ NoFallback /\ PathInv /\ NotDone /\ HeldInv(ops)

LEMMA StatusWords ==
    /\ ActiveStatus \cap (TerminalStatus \cup {"queued", "cancelled", "deleted", "unborn"}) = {}
    /\ TerminalStatus \cap {"queued", "cancelled", "deleted", "unborn"} = {}
    /\ \A s : EmptyRow(s).status = s /\ EmptyRow(s).link = 0 /\ EmptyRow(s).path = {}
BY DEF ActiveStatus, TerminalStatus, EmptyRow

LEMMA DoingFrame ==
    ASSUME TypeInv, NEW r \in Requests, Arrival(r) \/ Handle(r), NEW l \in Loops, NEW j
    PROVE  Doing(l, j)' => Doing(l, j)
BY HandlerLoops DEF Doing, BusyPC, OwningPC

LEMMA WorksDoing ==
    ASSUME NEW l \in Loops, Works(l), NEW m \in Loops, NEW j
    PROVE  Doing(l, w[l].job) /\ (Doing(m, j)' => Doing(m, j))
BY DEF Works, Local, Doing

\* As long as no ISAPI download fails, FFmpeg is not run and no monitor writes late.
LEMMA FallbackStep ==
    ASSUME TypeInv, NoFallback, "isapi" \notin Faults, [Next]_vars
    PROVE  NoFallback'
<1>1. w \in [Loops -> LoopState]
  BY DEF TypeInv, TypeOK
<1>2. ASSUME NEW l \in Loops, LoopStep(l) PROVE NoFallback'
  <2> SUFFICES /\ late' = late /\ w'[l].pc \notin FallbackPC
               /\ \A m \in Loops \ {l} : w'[m] = w[m]
    BY DEF NoFallback, FallbackPC
  <2>1. w[l].pc \notin FallbackPC
    BY DEF NoFallback, FallbackPC
  <2>2. \A pc : Goto(l, pc) => w'[l].pc = pc /\ \A m \in Loops \ {l} : w'[m] = w[m]
    BY <1>1, GotoLocal DEF Local
  <2>3. CASE Poll(l)
    <3>1. CASE Claim(l) \/ Search(l)
      <4>1. Local(l) /\ w'[l].pc \in {"search", "segment", "fail"}
        <5>1. CASE w' = [w EXCEPT ![l].pc = "search", ![l].saved = exportDir]
          BY <1>1, <5>1 DEF LoopState, Local
        <5>2. ASSUME NEW n, w' = [w EXCEPT ![l].pc = "segment", ![l].seg = 1, ![l].nseg = n]
              PROVE  Local(l) /\ w'[l].pc = "segment"
          BY <1>1, <5>2 DEF LoopState, Local
        <5>3. CASE Goto(l, "segment") \/ Goto(l, "fail")
          BY <1>1, <5>3, GotoLocal
        <5> QED
          BY <3>1, <5>1, <5>2, <5>3 DEF Claim, Search
      <4> QED
        BY <3>1, <4>1 DEF Claim, Search, Local, FallbackPC
    <3>2. CASE Tick(l) \/ Pick(l) \/ Release(l)
      BY <3>2, RestMoves DEF Tick, Pick, Release, FallbackPC
    <3> QED
      BY <2>2, <2>3, <3>1, <3>2 DEF Poll, Register, Check, RejectNVR, Fail, FallbackPC
  <2>4. CASE Deliver(l)
    <3>1. CASE Collect(l)
      <4>1. Local(l) /\ w'[l].pc \in {"fail", "assemble"}
        <5>1. CASE Goto(l, "fail")
          BY <1>1, <5>1, GotoLocal
        <5>2. CASE w' = [w EXCEPT ![l].pc = "assemble", ![l].out = {FinalPath(l)}]
          BY <1>1, <5>2, OutLocal
        <5> QED
          BY <3>1, <5>1, <5>2 DEF Collect
      <4> QED
        BY <3>1, <4>1 DEF Collect, Local, FallbackPC
    <3>2. CASE UploadEnds(l)
      BY <3>2, UploadMoves DEF UploadEnds, FallbackPC
    <3> QED
      BY <2>1, <2>2, <2>4, <3>1, <3>2 DEF Deliver, Assemble, AssembleFails, RecordFile, Publish,
         UploadOpen, UploadProgress, UploadFails, Share, Unlink, Complete, FallbackPC
  <2>5. CASE Download(l)
    <3>1. CASE IsapiOpen(l)
      <4>1. Local(l) /\ w'[l].pc = "reading"
        BY <1>1, <3>1, OutLocal DEF IsapiOpen
      <4> QED
        BY <3>1, <4>1 DEF IsapiOpen, Local, FallbackPC
    <3>2. CASE Stat(l) \/ Encode(l) \/ KeepEncoding(l)
      <4>1. Local(l) /\ w'[l].pc \in {"segment", "collect", "encode"}
        <5>1. CASE w' = [w EXCEPT ![l].pc = "encode", ![l].out = {SegPath(l)}]
          BY <1>1, <5>1, OutLocal
        <5>2. CASE \E got : NextSegment(l, got)
          BY <1>1, <5>2, NextLocal
        <5> QED
          BY <3>2, <5>1, <5>2 DEF Stat, Encode, KeepEncoding
      <4> QED
        BY <3>2, <4>1 DEF Stat, Encode, KeepEncoding, Local, FallbackPC
    <3> QED
      BY <2>1, <2>2, <2>5, <3>1, <3>2 DEF Download, Segment, Abandon, Announce, IsapiRefused, IsapiPoll,
         IsapiChunk, IsapiEnd, IsapiError, Fallback, FfmpegPath, FfmpegStart, FfmpegProgress,
         FfmpegExit, MonitorRead, Remux, EncodeProgress, FallbackPC
  <2> QED
    BY <1>2, <2>3, <2>4, <2>5 DEF LoopStep
<1>3. ASSUME NEW r \in Requests, Arrival(r) \/ Handle(r) PROVE NoFallback'
  <2>1. late' = late
    BY <1>3 DEF Arrival, Handle, CancelRead, DeleteRead, RetryRead, PurgeSelect, SweepSelect,
       RestartReset, CancelWrite, CancelSignal, RemoveFiles, DeleteSelect, DeleteDrop,
       PurgeDrop, SweepDrop, RetryUnshare, RetryReset, RetryVerify, RestartSpawn
  <2> QED
    BY <1>3, <2>1, HandlerLoops DEF NoFallback
<1>4. ASSUME NEW k \in Jobs, Submit(k) \/ Age(k) \/ MonitorWrite(k) PROVE NoFallback'
  BY <1>4 DEF Submit, Age, MonitorWrite, NoFallback
<1>5. CASE Reboot
  BY <1>5, RebootMoves DEF NoFallback, Reboot
<1>6. CASE UNCHANGED vars
  BY <1>6 DEF vars, NoFallback
<1> QED
  BY <1>2, <1>3, <1>4, <1>5, <1>6 DEF Next

LEMMA NotDoneStep ==
    ASSUME TypeInv, NoFallback, PathInv, NotDone, "isapi" \notin Faults, OneLoop, [Next]_vars
    PROVE  NotDone'
<1> SUFFICES ASSUME NEW m \in Loops, NEW j \in Jobs, Doing(m, j)'
             PROVE  rows'[j].status \notin TerminalStatus \cup {"unborn"}
  BY DEF NotDone
<1>1. ASSUME NEW l \in Loops, LoopStep(l) PROVE rows'[j].status \notin TerminalStatus \cup {"unborn"}
  <2>0. l = m
    BY DEF OneLoop
  <2>1. CASE Works(l) /\ Proper(l)
    <3>1. Doing(l, j) /\ j = w[l].job /\ w'[l].pc # "leave"
      BY <2>0, <2>1, WorksDoing DEF Doing, Works, Local
    <3>2. rows'[j].status = rows[j].status \/ rows'[j].status \in ActiveStatus
      BY <2>1, <3>1 DEF Proper, Written
    <3> QED
      BY <3>1, <3>2, StatusWords DEF NotDone
  <2>2. CASE UploadEnds(l)
    BY <2>0, <2>2, UploadMoves DEF Doing, BusyPC, OwningPC, NotDone
  <2>3. CASE Share(l)
    <3>1. Doing(l, j) /\ j = w[l].job
      BY <2>0, <2>3, ShareMoves DEF Doing, BusyPC, OwningPC, Local
    <3> QED
      BY <2>3, <3>1, ShareMoves DEF NotDone
  <2>4. CASE Tick(l) \/ Pick(l) \/ Release(l)
    <3>1. rows'[j].status = "queued"
      BY <2>0, <2>4, RestMoves DEF Doing, BusyPC, OwningPC
    <3> QED
      BY <3>1, StatusWords
  <2> QED
    BY <1>1, <2>1, <2>2, <2>3, <2>4, LoopCases DEF PathInv
<1>2. ASSUME NEW r \in Requests, Arrival(r) \/ Handle(r)
      PROVE  rows'[j].status \notin TerminalStatus \cup {"unborn"}
  <2>1. Doing(m, j)
    BY <1>2, DoingFrame
  <2>2. rows'[j].status \in {rows[j].status, "cancelled", "deleted", "queued"}
    BY <1>2, HandlerRows, StatusWords DEF Restatus
  <2> QED
    BY <2>1, <2>2, StatusWords DEF NotDone
<1>3. ASSUME NEW k \in Jobs, Submit(k) \/ Age(k) \/ MonitorWrite(k)
      PROVE  rows'[j].status \notin TerminalStatus \cup {"unborn"}
  <2>1. Doing(m, j) /\ rows'[j].status \in {rows[j].status, "queued"}
    BY <1>3, TableMoves, StatusWords DEF Restatus, NoFallback, Doing
  <2> QED
    BY <2>1, StatusWords DEF NotDone
<1>4. CASE Reboot
  BY <1>4, RebootMoves DEF Doing, BusyPC, OwningPC
<1>5. CASE UNCHANGED vars
  BY <1>5 DEF vars, NotDone, Doing
<1> QED
  BY <1>1, <1>2, <1>3, <1>4, <1>5 DEF Next

LEMMA HeldStep ==
    ASSUME NEW ops \in SUBSET Removals, "retry" \in ops,
           HandsInv(ops), Apart(ops), OneLoop, [Next]_vars
    PROVE  HeldInv(ops)'
<1> DEFINE Free(j) == /\ rows[j].status \in TerminalStatus \cup {"cancelled", "deleted"}
                      /\ \A l \in Loops : ~Doing(l, j)
<1> SUFFICES ASSUME NEW s \in Requests, NEW j \in Jobs, req'[s].op \in ops, Holds(s, j)'
             PROVE  Free(j)'
  BY DEF HeldInv
<1>0. TypeInv /\ PathInv /\ NotDone /\ late = {} /\ (req[s].op \in ops /\ Holds(s, j) => Free(j))
  BY DEF NoFallback, HandsInv, HeldInv
<1>1. Free(j) /\ rows'[j].status \in {rows[j].status, "cancelled", "deleted"}
      /\ (\A l \in Loops : Doing(l, j)' => Doing(l, j)) => Free(j)'
  OBVIOUS
<1>2. ASSUME NEW l \in Loops, LoopStep(l) PROVE Free(j)'
  <2>1. req' = req
    BY <1>0, <1>2, LoopCases, UploadMoves, ShareMoves, RestMoves DEF PathInv, Works
  <2>2. Free(j)
    BY <1>0, <2>1 DEF Holds
  <2>3. CASE Works(l)
    <3>1. w[l].job # j /\ w[l].job \in Jobs
      BY <2>2, <2>3, <1>0, WorksDoing DEF Works, TypeInv, WorkTyped
    <3>2. rows'[j] = rows[j]
      BY <2>3, <3>1 DEF Works, Written
    <3> QED
      BY <1>1, <2>2, <2>3, <3>2, WorksDoing
  <2>4. CASE UploadEnds(l)
    <3>1. \A m \in Loops : Doing(m, j)' => Doing(m, j)
      BY <1>0, <2>4, UploadMoves DEF Doing, BusyPC, OwningPC
    <3> QED
      BY <1>0, <1>1, <2>2, <2>4, <3>1, UploadMoves
  <2>5. CASE Share(l)
    <3>1. \A m \in Loops : Doing(m, j)' => Doing(m, j)
      BY <1>0, <2>5, ShareMoves DEF Doing, BusyPC, OwningPC, Local
    <3> QED
      BY <1>0, <1>1, <2>2, <2>5, <3>1, ShareMoves
  <2>6. CASE Tick(l) \/ Pick(l) \/ Release(l)
    <3>1. \A m \in Loops : Doing(m, j)' => Doing(m, j)
      BY <1>0, <2>2, <2>6, RestMoves, StatusWords DEF Doing, BusyPC, OwningPC
    <3> QED
      BY <1>0, <1>1, <2>2, <2>6, <3>1, RestMoves
  <2> QED
    BY <1>0, <1>2, <2>3, <2>4, <2>5, <2>6, LoopCases DEF PathInv
<1>3. ASSUME NEW r \in Requests, Arrival(r) PROVE Free(j)'
  <2>1. \A l \in Loops : Doing(l, j)' => Doing(l, j)
    BY <1>0, <1>3, DoingFrame
  <2>2. CASE s # r
    <3>1. Free(j)
      BY <1>0, <1>3, <2>2, ArrivalRequest DEF Holds
    <3>2. rows'[j].status \in {rows[j].status, "cancelled", "deleted"}
      <4>1. ~RetryReset(r)
        BY <1>0, <1>3, ArrivalRequest DEF RetryReset, At
      <4> QED
        BY <1>0, <1>3, <3>1, <4>1, HandlerRows, StatusWords DEF Restatus, ActiveJobs
    <3> QED
      BY <1>1, <2>1, <3>1, <3>2
  <2>3. CASE s = r
    <3>1. Arrived(r) /\ req'[r].op # "restart" /\ rows' = rows
      BY <1>0, <1>3, <2>3, ArrivalRequest DEF Removals
    <3>2. rows[j].status \in TerminalStatus
      <4>1. ASSUME NEW i \in Jobs, rows[i].status \in TerminalStatus,
                   \/ req'[r].job = i /\ req'[r].path \subseteq rows[i].path
            PROVE  rows[j].status \in TerminalStatus
        BY <1>0, <2>3, <4>1 DEF Holds, PathInv
      <4>2. ASSUME req'[r].job = NoJob, req'[r].path \subseteq SelectPaths(rows, TerminalJobs(rows))
            PROVE  rows[j].status \in TerminalStatus
        <5>1. PICK f \in req'[r].path : f[1] = j
          BY <2>3, <4>2, WorkerAssumption DEF Holds
        <5>2. PICK i \in Jobs : rows[i].status \in TerminalStatus /\ f \in rows[i].path
          BY <4>2, <5>1 DEF SelectPaths, TerminalJobs
        <5> QED
          BY <1>0, <5>1, <5>2 DEF PathInv
      <4> QED
        BY <2>3, <3>1, <4>1, <4>2 DEF Arrived, Removals
    <3>3. \A l \in Loops : ~Doing(l, j)
      BY <1>0, <3>2 DEF NotDone
    <3> QED
      BY <2>1, <3>1, <3>2, <3>3
  <2> QED
    BY <2>2, <2>3
<1>4. ASSUME NEW r \in Requests, Handle(r) PROVE Free(j)'
  <2>1. \A l \in Loops : Doing(l, j)' => Doing(l, j)
    BY <1>0, <1>4, DoingFrame
  <2>2. Handled(r)
    BY <1>0, <1>4, HandleRequest
  <2>3. Holds(s, j) /\ req[s].op = req'[s].op
    <3>1. CASE s # r
      BY <2>2, <3>1 DEF Handled, Holds
    <3>2. CASE s = r
      <4>1. \A f \in SelectPaths(rows, {req[r].job}) : req[r].job \in Jobs => f[1] = req[r].job
        BY <1>0 DEF SelectPaths, PathInv
      <4>2. req[r].op = "delete" => req[r].job \in Jobs
        BY <1>0 DEF TypeInv, RequestTyped
      <4>3. /\ req'[r].op = req[r].op /\ req'[r].job = req[r].job
            /\ req'[r].op \in Removals /\ req[r].at \in HeldAt
        BY <2>2, <3>2 DEF Handled, SameRequest, Holds, Removals
      <4>4. CASE req'[r].path = req[r].path
        BY <3>2, <4>3, <4>4 DEF Holds
      <4>5. CASE At(r, "delete", "select") /\ req'[r].path = SelectPaths(rows, {req[r].job})
        <5>1. req[r].job = j
          BY <3>2, <4>1, <4>2, <4>3, <4>5 DEF Holds, At
        <5> QED
          BY <3>2, <4>3, <5>1 DEF Holds
      <4> QED
        BY <2>2, <4>4, <4>5 DEF Handled
    <3> QED
      BY <3>1, <3>2
  <2>4. Free(j)
    BY <1>0, <2>3
  <2>5. ~(RetryReset(r) /\ j = req[r].job)
    <3> SUFFICES ASSUME RetryReset(r), j = req[r].job PROVE FALSE
      OBVIOUS
    <3>1. Retrying(r, j)
      BY DEF Retrying, Holds, RetryReset, At, Removals, HeldAt
    <3>2. r = s
      BY <2>3, <3>1 DEF Apart
    <3>3. req'[r].at = "verify"
      BY <1>0, AdvanceFields DEF RetryReset, TypeInv, TypeOK
    <3> QED
      BY <3>2, <3>3 DEF Holds, HeldAt
  <2>6. rows'[j].status \in {rows[j].status, "cancelled", "deleted"}
    BY <1>0, <1>4, <2>4, <2>5, HandlerRows, StatusWords DEF Restatus, ActiveJobs
  <2> QED
    BY <1>1, <2>1, <2>4, <2>6
<1>5. ASSUME NEW k \in Jobs, Submit(k) \/ Age(k) \/ MonitorWrite(k) PROVE Free(j)'
  <2>1. Free(j) /\ UNCHANGED w
    BY <1>0, <1>5, TableMoves DEF Holds
  <2>2. rows'[j].status = rows[j].status
    BY <1>0, <1>5, <2>1, TableMoves, StatusWords DEF Restatus
  <2> QED
    BY <1>1, <2>1, <2>2 DEF Doing
<1>6. CASE Reboot
  BY <1>0, <1>6, RebootMoves DEF Holds, HeldAt
<1>7. CASE UNCHANGED vars
  BY <1>0, <1>7 DEF vars, Holds, Doing
<1> QED
  BY <1>2, <1>3, <1>4, <1>5, <1>6, <1>7 DEF Next

LEMMA HandsInit ==
    ASSUME NEW ops \in SUBSET Removals, Init
    PROVE  HandsInv(ops)
<1>1. \A l \in Loops : BootLoops[l].pc \in {"idle", "off"}
  BY DEF BootLoops, IdleLoop
<1>2. TypeInv /\ NoFallback
  BY <1>1, InitType DEF Init, NoFallback
<1>3. PathInv
  BY <1>1, StatusWords DEF Init, PathInv, OutOwn, NewRequest
<1>4. NotDone
  BY <1>1 DEF Init, NotDone, Doing, BusyPC, OwningPC
<1>5. HeldInv(ops)
  BY DEF Init, HeldInv, Holds, HeldAt, NewRequest
<1> QED
  BY <1>2, <1>3, <1>4, <1>5 DEF HandsInv

LEMMA HandsStep ==
    ASSUME NEW ops \in SUBSET Removals, "retry" \in ops, HandsInv(ops), Apart(ops),
           "isapi" \notin Faults, OneLoop, [Next]_vars
    PROVE  HandsInv(ops)'
BY TypeStep, FallbackStep, PathStep, NotDoneStep, HeldStep DEF HandsInv

\* With one worker loop, and no retry of a job while another handler still
\* deletes, purges, sweeps or retries that job, what these handlers remove is
\* never a file of a job under way, through lost writes and crashes.  Two
\* handlers of one job do break it: the retry hands the job to the worker again
\* while the other one holds the path it read before.
THEOREM RemovalsSafe ==
    ASSUME OneLoop, "isapi" \notin Faults
    PROVE  Spec /\ []RemovalsApart => []RemovalSafe
<1>1. Init => HandsInv(Removals)
  BY HandsInit
<1>2. HandsInv(Removals) /\ RemovalsApart /\ [Next]_vars => HandsInv(Removals)'
  BY HandsStep DEF Removals, RemovalsApart
<1>3. HandsInv(Removals) => RemovalSafe
  <2> SUFFICES ASSUME HandsInv(Removals), NEW r \in Requests, req[r].at = "remove", req[r].op # "cancel",
                      NEW f \in req[r].path, NEW l \in Loops
               PROVE  ~Owns(l, f[1])
    BY DEF RemovalSafe
  <2>1. req[r] \in ReqState
    BY DEF HandsInv, TypeInv, TypeOK
  <2>2. req[r].op \in Removals
    BY <2>1 DEF HandsInv, PathInv, ReqState, AllOps, Removals
  <2>3. f[1] \in Jobs
    BY <2>1 DEF ReqState, File
  <2>4. Holds(r, f[1])
    BY <2>2 DEF Holds, HeldAt
  <2>5. ~Doing(l, f[1])
    BY <2>2, <2>3, <2>4 DEF HandsInv, HeldInv
  <2> QED
    BY <2>5 DEF Owns, Doing, BusyPC, OwningPC
<1> QED
  BY <1>1, <1>2, <1>3, PTL DEF Spec

-----------------------------------------------------------------------------
(* The links of the table and the items on OneDrive.                        *)

\* A job without a row has no link.
Absent0 == \A j \in Jobs : ~HasRow(rows, j) => rows[j].link = 0

\* Uploads are numbered from 1.
Numbers ==
    /\ \A u \in remote : u[2] \in 1..uploads[u[1]]
    /\ \A j \in Jobs : rows[j].link <= uploads[j]
    /\ \A r \in Requests : req[r].op = "retry" => req[r].link <= uploads[req[r].job]

\* A link that is about to be stored is new: no row, no other loop and no retry has it.
NewLink(l) ==
    /\ w[l].link \in 1..uploads[w[l].job]
    /\ <<w[l].job, w[l].link>> \in remote
    /\ w[l].link # rows[w[l].job].link
    /\ \A r \in Requests : At(r, "retry", "unshare") /\ req[r].job = w[l].job
                              => req[r].link # w[l].link
    /\ \A m \in Loops : w[m].pc = "share" /\ w[m].job = w[l].job /\ w[m].link = w[l].link => m = l

Sharing == \A l \in Loops : w[l].pc = "share" => NewLink(l)

LinkInv == reboots = 0 => Absent0 /\ Numbers /\ Sharing /\ LinkBacked

LEMMA LinkWorks ==
    ASSUME TypeInv, Absent0, Numbers, Sharing, LinkBacked, NEW l \in Loops, Works(l)
    PROVE  (Absent0 /\ Numbers /\ Sharing /\ LinkBacked)'
<1>1. w[l].job \in Jobs
  BY DEF TypeInv, WorkTyped, Works
<1>2. \A j \in Jobs : rows'[j].link = rows[j].link
  BY <1>1 DEF Works, Written
<1>3. \A j \in Jobs : ~HasRow(rows, j)' => ~HasRow(rows, j)
  BY <1>1 DEF Works, Written, HasRow
<1>4. Absent0'
  BY <1>2, <1>3 DEF Absent0
<1>5. Numbers'
  BY <1>2 DEF Works, Numbers
<1>6. LinkBacked'
  BY <1>2 DEF Works, LinkBacked, RetryHolds
<1>7. \A m \in Loops : w'[m].pc = "share" => w'[m] = w[m] /\ w[m].job \in Jobs
  BY DEF Works, Local, TypeInv, WorkTyped, BusyPC, OwningPC
<1>8. Sharing'
  BY <1>2, <1>7 DEF Works, Sharing, NewLink, At
<1> QED
  BY <1>4, <1>5, <1>6, <1>8

LEMMA LinkUpload ==
    ASSUME TypeInv, Absent0, Numbers, Sharing, LinkBacked, NEW l \in Loops, UploadEnds(l)
    PROVE  (Absent0 /\ Numbers /\ Sharing /\ LinkBacked)'
<1> DEFINE k == w[l].job
           n == uploads[k] + 1
<1>1. /\ k \in Jobs /\ uploads \in [Jobs -> Nat] /\ uploads' = [uploads EXCEPT ![k] = n]
      /\ remote' = remote \cup {<<k, n>>} /\ UNCHANGED <<rows, req, reboots>>
      /\ remote \subseteq Jobs \X Nat /\ rows \in [Jobs -> Row] /\ req \in [Requests -> ReqState]
  BY UploadMoves DEF TypeInv, TypeOK
<1>2. n \in Nat /\ n >= 1 /\ uploads'[k] = n /\ \A j \in Jobs : uploads[j] \in Nat /\ uploads[j] <= uploads'[j]
  BY <1>1
<1>3. \A j \in Jobs : uploads'[j] \in Nat /\ rows[j].link \in Nat
  BY <1>1 DEF Row
<1> HIDE DEF n
<1>4. Absent0'
  BY <1>1 DEF Absent0, HasRow
<1>5. Numbers'
  <2>1. \A u \in remote' : u[2] \in 1..uploads'[u[1]]
    <3> TAKE u \in remote'
    <3>1. CASE u \in remote
      <4>1. u[1] \in Jobs /\ u[2] \in 1..uploads[u[1]]
        BY <1>1, <3>1 DEF Numbers
      <4> QED
        BY <1>2, <1>3, <4>1
    <3>2. CASE u = <<k, n>>
      BY <1>2, <3>2
    <3> QED
      BY <1>1, <3>1, <3>2
  <2>2. \A j \in Jobs : rows'[j].link <= uploads'[j]
    BY <1>1, <1>2, <1>3 DEF Numbers
  <2>3. ASSUME NEW r \in Requests, req'[r].op = "retry"
        PROVE  req'[r].link <= uploads'[req'[r].job]
    <3>1. req[r].job \in Jobs /\ req[r].link \in Nat /\ req[r].link <= uploads[req[r].job]
      BY <1>1, <2>3 DEF Numbers, TypeInv, RequestTyped, ReqState
    <3> QED
      BY <1>1, <1>2, <1>3, <3>1
  <2> QED
    BY <2>1, <2>2, <2>3 DEF Numbers
<1>6. LinkBacked'
  BY <1>1 DEF LinkBacked, RetryHolds
<1>7. Sharing'
  <2> SUFFICES ASSUME NEW m \in Loops, w'[m].pc = "share"
               PROVE  NewLink(m)'
    BY DEF Sharing
  <2>1. \A i \in Loops \ {l} : w'[i] = w[i]
    BY UploadMoves
  <2>2. w'[l].job = k /\ (w'[l].pc = "share" => w'[l].link = n)
    BY UploadMoves DEF n
  <2>3. \A i \in Loops \ {l} : w[i].pc = "share" /\ w[i].job = k => w[i].link \in Nat /\ w[i].link < n
    <3> SUFFICES ASSUME NEW i \in Loops \ {l}, w[i].pc = "share", w[i].job = k
                 PROVE  w[i].link \in Nat /\ w[i].link < n
      OBVIOUS
    <3>1. w[i].link \in 1..uploads[k]
      BY DEF Sharing, NewLink
    <3> QED
      BY <1>1, <3>1 DEF n
  <2>4. CASE m = l
    <3>1. w'[m].link = n /\ w'[m].job = k
      BY <2>2, <2>4
    <3>2. n # rows[k].link
      BY <1>1, <1>3 DEF Numbers, n
    <3>3. \A r \in Requests : At(r, "retry", "unshare") /\ req[r].job = k => req[r].link # n
      <4> SUFFICES ASSUME NEW r \in Requests, req[r].op = "retry", req[r].job = k PROVE req[r].link # n
        BY DEF At
      <4>1. req[r].link \in Nat /\ req[r].link <= uploads[k]
        BY <1>1 DEF Numbers, ReqState
      <4> QED
        BY <1>1, <4>1 DEF n
    <3> QED
      BY <1>1, <1>2, <2>1, <2>3, <2>4, <3>1, <3>2, <3>3 DEF NewLink, At
  <2>5. CASE m # l
    <3>1. w'[m] = w[m] /\ w[m].job \in Jobs
      BY <2>1, <2>5 DEF TypeInv, WorkTyped, BusyPC, OwningPC
    <3>2. /\ w[m].link \in 1..uploads[w[m].job] /\ <<w[m].job, w[m].link>> \in remote
          /\ w[m].link # rows[w[m].job].link
          /\ \A r \in Requests : At(r, "retry", "unshare") /\ req[r].job = w[m].job
                                    => req[r].link # w[m].link
          /\ \A i \in Loops : w[i].pc = "share" /\ w[i].job = w[m].job /\ w[i].link = w[m].link => i = m
      BY <3>1 DEF Sharing, NewLink
    <3>3. w[m].link \in 1..uploads'[w[m].job]
      <4>1. uploads[w[m].job] \in Nat /\ uploads'[w[m].job] \in Nat /\ uploads[w[m].job] <= uploads'[w[m].job]
        BY <1>2, <1>3, <3>1
      <4> QED
        BY <3>2, <4>1
    <3>4. \A i \in Loops : w'[i].pc = "share" /\ w'[i].job = w'[m].job /\ w'[i].link = w'[m].link => i = m
      <4> TAKE i \in Loops
      <4>1. CASE i = l
        BY <1>1, <2>2, <2>3, <2>5, <3>1, <4>1
      <4>2. CASE i # l
        BY <2>1, <3>1, <3>2, <4>2
      <4> QED
        BY <4>1, <4>2
    <3> QED
      BY <1>1, <3>1, <3>2, <3>3, <3>4 DEF NewLink, At
  <2> QED
    BY <2>4, <2>5
<1> QED
  BY <1>4, <1>5, <1>6, <1>7

LEMMA LinkShare ==
    ASSUME TypeInv, Absent0, Numbers, Sharing, LinkBacked, NEW l \in Loops, Share(l)
    PROVE  (Absent0 /\ Numbers /\ Sharing /\ LinkBacked)'
<1> DEFINE k == w[l].job
<1>1. /\ k \in Jobs /\ w[l].pc = "share" /\ UNCHANGED <<remote, uploads, req, reboots>>
      /\ \A j \in Jobs \ {k} : rows'[j] = rows[j]
      /\ rows'[k].status = rows[k].status
      /\ \/ ~HasRow(rows, k) /\ rows'[k] = rows[k]
         \/ HasRow(rows, k) /\ rows'[k].link = w[l].link
  BY ShareMoves
<1>2. NewLink(l)
  BY <1>1 DEF Sharing
<1>3. \A j \in Jobs : rows'[j].link = rows[j].link \/ (j = k /\ HasRow(rows, k) /\ rows'[j].link = w[l].link)
  BY <1>1
<1>4. Absent0'
  BY <1>1, <1>3 DEF Absent0, HasRow
<1>5. Numbers'
  <2>1. w[l].link <= uploads[k]
    BY <1>2 DEF NewLink, TypeInv, TypeOK
  <2> QED
    BY <1>1, <1>3, <2>1 DEF Numbers
<1>6. LinkBacked'
  BY <1>1, <1>2, <1>3 DEF LinkBacked, RetryHolds, NewLink
<1>7. Sharing'
  <2> SUFFICES ASSUME NEW m \in Loops, w'[m].pc = "share" PROVE NewLink(m)'
    BY DEF Sharing
  <2>1. m # l /\ w'[m] = w[m] /\ w'[l].pc # "share" /\ \A i \in Loops \ {l} : w'[i] = w[i]
    BY ShareMoves DEF Local
  <2>2. NewLink(m) /\ w[m].job \in Jobs
    BY <2>1 DEF Sharing, TypeInv, WorkTyped, BusyPC, OwningPC
  <2>3. w[m].link # rows'[w[m].job].link
    <3>1. w[m].job = k => w[m].link # w[l].link
      BY <1>1, <2>1, <2>2 DEF NewLink
    <3> QED
      BY <1>3, <2>2, <3>1 DEF NewLink
  <2> QED
    BY <1>1, <2>1, <2>2, <2>3 DEF NewLink, At
<1> QED
  BY <1>4, <1>5, <1>6, <1>7

\* The steps of handlers and of the table: a link stays or is cleared.
LEMMA LinkCleared ==
    ASSUME TypeInv, Absent0, Numbers, Sharing,
           \A j \in Jobs : /\ rows'[j].link = rows[j].link \/ rows'[j].link = 0
                           /\ ~HasRow(rows, j)' => rows'[j].link = 0 \/ ~HasRow(rows, j),
           \A l \in Loops : w'[l].pc = "share" => w'[l] = w[l],
           \A l \in Loops, u \in remote : w[l].pc = "share" /\ u = <<w[l].job, w[l].link>> => u \in remote',
           remote' \subseteq remote, uploads' = uploads,
           \A r \in Requests :
               \/ SameRequest(r) /\ (req'[r].at = "unshare" => req[r].at = "unshare")
               \/ req'[r].op # "retry"
               \/ \E j \in Jobs : req'[r].job = j /\ req'[r].link = rows[j].link
    PROVE  (Absent0 /\ Numbers /\ Sharing)'
<1>0. \A j \in Jobs : rows'[j].link \in {rows[j].link, 0}
  OBVIOUS
<1>1. Absent0'
  BY DEF Absent0, HasRow
<1>2. Numbers'
  <2>1. uploads \in [Jobs -> Nat] /\ rows \in [Jobs -> Row]
    BY DEF TypeInv, TypeOK
  <2>2. \A u \in remote' : u[2] \in 1..uploads'[u[1]]
    BY DEF Numbers
  <2>3. \A j \in Jobs : rows'[j].link <= uploads'[j]
    BY <1>0, <2>1 DEF Numbers
  <2>4. \A r \in Requests : req'[r].op = "retry" => req'[r].link <= uploads'[req'[r].job]
    BY DEF Numbers, SameRequest
  <2> QED
    BY <2>2, <2>3, <2>4 DEF Numbers
<1>3. Sharing'
  <2> SUFFICES ASSUME NEW m \in Loops, w'[m].pc = "share" PROVE NewLink(m)'
    BY DEF Sharing
  <2>1. w'[m] = w[m] /\ NewLink(m) /\ w[m].job \in Jobs
    BY DEF Sharing, TypeInv, WorkTyped, BusyPC, OwningPC
  <2>2. w[m].link \in Nat /\ w[m].link # 0
    BY <2>1 DEF NewLink, TypeInv, TypeOK
  <2>3. w[m].link # rows'[w[m].job].link
    BY <1>0, <2>1, <2>2 DEF NewLink
  <2>4. \A r \in Requests : At(r, "retry", "unshare")' /\ req'[r].job = w[m].job => req'[r].link # w[m].link
    BY <2>1 DEF NewLink, SameRequest, At
  <2>5. <<w[m].job, w[m].link>> \in remote'
    BY <2>1 DEF NewLink
  <2>6. \A i \in Loops : w'[i].pc = "share" /\ w'[i].job = w[m].job /\ w'[i].link = w[m].link => i = m
    BY <2>1 DEF NewLink
  <2> QED
    BY <2>1, <2>3, <2>4, <2>5, <2>6 DEF NewLink
<1> QED
  BY <1>1, <1>2, <1>3

LEMMA ResetClears ==
    ASSUME TypeInv, Absent0, NEW r \in Requests, RetryReset(r)
    PROVE  rows'[req[r].job].link = 0
<1>1. req[r].job \in Jobs /\ rows \in [Jobs -> Row]
  BY DEF RetryReset, At, TypeInv, TypeOK, RequestTyped
<1>2. rows' = Update(rows, req[r].job, EmptyRow("queued"))
  BY DEF RetryReset, ResetExportJobForRetry
<1> QED
  BY <1>1, <1>2, StatusWords DEF Update, Absent0

LEMMA LinkHandlers ==
    ASSUME TypeInv, Absent0, Numbers, Sharing, LinkBacked, NEW r \in Requests, Arrival(r) \/ Handle(r)
    PROVE  (Absent0 /\ Numbers /\ Sharing /\ LinkBacked)'
<1>1. \A j \in Jobs : /\ rows'[j].link = rows[j].link \/ rows'[j].link = 0
                      /\ ~HasRow(rows, j)' => rows'[j].link = 0 \/ ~HasRow(rows, j)
  <2> TAKE j \in Jobs
  <2>1. CASE rows'[j] = rows[j]
    BY <2>1 DEF HasRow
  <2>2. CASE Restatus(j, "cancelled") \/ Restatus(j, "queued")
    BY <2>2 DEF Restatus, HasRow, PresentStatus
  <2>3. CASE rows'[j].link = 0
    BY <2>3
  <2> QED
    BY <2>1, <2>2, <2>3, HandlerRows, StatusWords
<1>2. \A l \in Loops : w'[l].pc = "share" => w'[l] = w[l]
  BY HandlerLoops
<1>3. uploads' = uploads /\ \A q \in Requests \ {r} : req'[q] = req[q]
  BY ArrivalRequest, HandleRequest DEF Handled
<1>4. \/ remote' = remote
      \/ /\ At(r, "retry", "unshare") /\ remote' = remote \ {<<req[r].job, req[r].link>>}
         /\ SameRequest(r) /\ req'[r].at = "remove"
  BY ArrivalRequest, HandleRequest DEF Handled, At
<1>5. \A l \in Loops, u \in remote : w[l].pc = "share" /\ u = <<w[l].job, w[l].link>> => u \in remote'
  <2> SUFFICES ASSUME NEW l \in Loops, w[l].pc = "share",
                      At(r, "retry", "unshare"), <<w[l].job, w[l].link>> = <<req[r].job, req[r].link>>
               PROVE  FALSE
    BY <1>4
  <2>1. NewLink(l)
    BY DEF Sharing
  <2> QED
    BY <2>1 DEF NewLink
<1>6. \A q \in Requests :
          \/ SameRequest(q) /\ (req'[q].at = "unshare" => req[q].at = "unshare")
          \/ req'[q].op # "retry"
          \/ \E j \in Jobs : req'[q].job = j /\ req'[q].link = rows[j].link
  <2> TAKE q \in Requests
  <2>1. CASE q # r
    BY <1>3, <2>1 DEF SameRequest
  <2>2. CASE q = r /\ Arrival(r)
    BY <2>2, ArrivalRequest DEF Arrived
  <2>3. CASE q = r /\ Handle(r)
    <3>1. Handled(r)
      BY <2>3, HandleRequest
    <3> QED
      BY <2>3, <3>1 DEF Handled, SameRequest
  <2> QED
    BY <2>1, <2>2, <2>3
<1>7. (Absent0 /\ Numbers /\ Sharing)'
  BY <1>1, <1>2, <1>3, <1>4, <1>5, <1>6, LinkCleared
<1>8. LinkBacked'
  <2> SUFFICES ASSUME NEW j \in Jobs, rows'[j].link # 0
               PROVE  <<j, rows'[j].link>> \in remote' \/ RetryHolds(j)'
    BY DEF LinkBacked
  <2>1. rows'[j].link = rows[j].link /\ (<<j, rows[j].link>> \in remote \/ RetryHolds(j))
    BY <1>1 DEF LinkBacked
  <2>2. CASE <<j, rows[j].link>> \in remote
    BY <1>4, <2>1, <2>2 DEF RetryHolds, At, SameRequest
  <2>3. ASSUME NEW q \in Requests, req[q].op = "retry", req[q].job = j,
               req[q].at \in {"remove", "reset"}, req[q].link = rows[j].link
        PROVE  RetryHolds(j)'
    <3>1. CASE q # r
      BY <1>3, <2>1, <2>3, <3>1 DEF RetryHolds
    <3>2. CASE q = r
      <4>1. Handled(r)
        BY <2>3, <3>2, ArrivalRequest, HandleRequest
      <4>2. ~RetryReset(r)
        BY <2>3, <3>2, ResetClears
      <4>3. req'[r].at = "reset"
        BY <2>3, <3>2, <4>1, <4>2 DEF Handled
      <4> QED
        BY <2>1, <2>3, <3>2, <4>1, <4>3 DEF RetryHolds, Handled, SameRequest
    <3> QED
      BY <3>1, <3>2
  <2> QED
    BY <2>1, <2>2, <2>3 DEF RetryHolds
<1> QED
  BY <1>7, <1>8

LEMMA LinkTable ==
    ASSUME TypeInv, Absent0, Numbers, Sharing, LinkBacked,
           NEW k \in Jobs, Submit(k) \/ Age(k) \/ MonitorWrite(k)
    PROVE  (Absent0 /\ Numbers /\ Sharing /\ LinkBacked)'
<1>1. UNCHANGED <<remote, uploads, w, req>>
  BY TableMoves
<1>2. \A j \in Jobs : /\ rows'[j].link = rows[j].link \/ rows'[j].link = 0
                      /\ ~HasRow(rows, j)' => rows'[j].link = 0 \/ ~HasRow(rows, j)
  <2> TAKE j \in Jobs
  <2>1. CASE rows'[j] = rows[j]
    BY <2>1 DEF HasRow
  <2>2. CASE HasRow(rows, j) /\ (Restatus(j, rows[j].status) \/ Restatus(j, "downloading"))
    BY <2>2 DEF Restatus, HasRow, PresentStatus, ActiveStatus
  <2>3. CASE rows'[j].link = 0
    BY <2>3
  <2> QED
    BY <2>1, <2>2, <2>3, TableMoves, StatusWords
<1>3. (Absent0 /\ Numbers /\ Sharing)'
  BY <1>1, <1>2, LinkCleared DEF SameRequest
<1>4. LinkBacked'
  BY <1>1, <1>2 DEF LinkBacked, RetryHolds
<1> QED
  BY <1>3, <1>4

\* Only a crash is counted.
LEMMA RebootCounted ==
    ASSUME TypeInv, PathInv, [Next]_vars, reboots' = 0
    PROVE  reboots = 0 /\ ~Reboot
<1>0. ~Reboot
  BY RebootMoves
<1>1. ASSUME NEW l \in Loops, LoopStep(l) PROVE reboots' = reboots
  BY <1>1, LoopCases, UploadMoves, ShareMoves, RestMoves DEF PathInv, Works
<1>2. ASSUME NEW r \in Requests, Arrival(r) \/ Handle(r) PROVE reboots' = reboots
  BY <1>2, ArrivalRequest, HandleRequest DEF Handled
<1>3. ASSUME NEW k \in Jobs, Submit(k) \/ Age(k) \/ MonitorWrite(k) PROVE reboots' = reboots
  BY <1>3, TableMoves
<1> QED
  BY <1>0, <1>1, <1>2, <1>3 DEF Next, vars

LEMMA LinkStep ==
    ASSUME TypeInv, PathInv, LinkInv, [Next]_vars
    PROVE  LinkInv'
<1> SUFFICES ASSUME reboots' = 0
             PROVE  (Absent0 /\ Numbers /\ Sharing /\ LinkBacked)'
  BY DEF LinkInv
<1>1. reboots = 0 /\ ~Reboot
  BY RebootCounted
<1>2. Absent0 /\ Numbers /\ Sharing /\ LinkBacked
  BY <1>1 DEF LinkInv
<1>3. ASSUME NEW l \in Loops, LoopStep(l) PROVE (Absent0 /\ Numbers /\ Sharing /\ LinkBacked)'
  <2>1. CASE Tick(l) \/ Pick(l) \/ Release(l)
    <3>1. /\ UNCHANGED <<rows, remote, uploads, req>>
          /\ \A m \in Loops : w'[m].pc = "share" => w'[m] = w[m]
      BY <2>1, RestMoves
    <3>2. (Absent0 /\ Numbers /\ Sharing)'
      BY <1>2, <3>1, LinkCleared DEF SameRequest, HasRow
    <3>3. LinkBacked'
      BY <1>2, <3>1 DEF LinkBacked, RetryHolds
    <3> QED
      BY <3>2, <3>3
  <2> QED
    BY <1>2, <1>3, <2>1, LoopCases, LinkWorks, LinkUpload, LinkShare DEF PathInv
<1>4. ASSUME NEW r \in Requests, Arrival(r) \/ Handle(r) PROVE (Absent0 /\ Numbers /\ Sharing /\ LinkBacked)'
  BY <1>2, <1>4, LinkHandlers
<1>5. ASSUME NEW k \in Jobs, Submit(k) \/ Age(k) \/ MonitorWrite(k)
      PROVE  (Absent0 /\ Numbers /\ Sharing /\ LinkBacked)'
  BY <1>2, <1>5, LinkTable
<1>6. CASE UNCHANGED vars
  BY <1>2, <1>6 DEF vars, Absent0, Numbers, Sharing, NewLink, LinkBacked, RetryHolds, HasRow, At
<1> QED
  BY <1>1, <1>3, <1>4, <1>5, <1>6 DEF Next

LEMMA LinkInit == Init => LinkInv
<1> SUFFICES ASSUME Init PROVE Absent0 /\ Numbers /\ Sharing /\ LinkBacked
  BY DEF LinkInv
<1>1. \A l \in Loops : w[l].pc \in {"idle", "off"}
  BY DEF Init, BootLoops, IdleLoop
<1>2. \A j \in Jobs : rows[j].link = 0 /\ uploads[j] = 0
  BY StatusWords DEF Init
<1>3. \A r \in Requests : req[r].op = "none" /\ remote = {}
  BY DEF Init, NewRequest
<1>4. remote = {}
  BY DEF Init
<1> QED
  BY <1>1, <1>2, <1>3, <1>4 DEF Absent0, Numbers, Sharing, LinkBacked

\* Until the process has crashed, a share link in the table points at an upload
\* that exists, or a retry that has just deleted it is about to clear the link:
\* for any number of loops, of concurrent retries, cancels, deletions and
\* restarts, and with any of the faults.  It rests on every upload having a
\* number of its own, which no row, loop or retry holds before it is stored.
THEOREM LinksBacked == Spec => [](reboots = 0 => LinkBacked)
<1>1. Init => TypeInv /\ PathInv /\ LinkInv
  BY InitType, LinkInit, HandsInit DEF HandsInv, Removals
<1>2. TypeInv /\ PathInv /\ LinkInv /\ [Next]_vars => (TypeInv /\ PathInv /\ LinkInv)'
  BY TypeStep, PathStep, LinkStep
<1>3. LinkInv => (reboots = 0 => LinkBacked)
  BY DEF LinkInv
<1> QED
  BY <1>1, <1>2, <1>3, PTL DEF Spec

-----------------------------------------------------------------------------
(* Uploads nobody can find.                                                 *)

\* From the end of its upload on, a loop keeps the link.
SentPC == {"share", "unlink", "complete", "leave"}

\* The link a loop has made is stored before anything else is done with the
\* job; until then the row has none.
LocalLink == \A l \in Loops :
    /\ w[l].pc \notin SentPC => w[l].link = 0
    /\ w[l].pc \in BusyPC \ {"unlink", "complete", "leave"} => rows[w[l].job].link = 0
    /\ w[l].pc \in {"unlink", "complete"} /\ w[l].link # 0 =>
          rows[w[l].job].link = w[l].link \/ rows[w[l].job].status = "deleted"

\* A job that waits or runs has no upload, unless its loop is about to complete it.
UndoneClean == \A j \in Jobs : rows[j].status \in ActiveStatus \cup {"queued"} =>
    rows[j].link = 0 \/ \E l \in Loops : w[l].pc \in {"unlink", "complete"} /\ w[l].job = j

\* A retry has the link of its row, and no upload is left once it is past it.
RetryInv == \A r \in Requests :
    /\ At(r, "retry", "unshare") =>
          req[r].link = rows[req[r].job].link \/ rows[req[r].job].status = "deleted"
    /\ At(r, "retry", "remove") \/ At(r, "retry", "reset") =>
          rows[req[r].job].status = "deleted" \/ \A u \in remote : u[1] # req[r].job

OrphanNow == LocalLink /\ UndoneClean /\ RetryInv /\ NoOrphan
OrphanInv == reboots = 0 => OrphanNow

\* What the steps of loops, handlers and crashes keep; uploads have numbers from 1.
Grounds == /\ HandsInv({"retry"}) /\ Absent0 /\ Numbers /\ Sharing /\ OrphanNow
           /\ OneLoop /\ RetriesApart /\ {"isapi", "dbwrite", "onedrive"} \cap Faults = {}

LEMMA GroundFacts ==
    ASSUME Grounds
    PROVE  /\ TypeInv /\ PathInv /\ NoFallback /\ NotDone /\ LocalLink /\ UndoneClean /\ RetryInv /\ NoOrphan
           /\ \A u \in remote : /\ u[1] \in Jobs /\ u[2] \in Nat /\ u[2] # 0
                                /\ u = <<u[1], u[2]>>
           /\ \A r \in Requests : req[r].op = "retry" => req[r].job \in Jobs
           /\ \A r \in Requests : req[r].op = "retry" /\ req[r].at \in {"unshare", "remove", "reset"} =>
                 /\ rows[req[r].job].status \in TerminalStatus \cup {"cancelled", "deleted"}
                 /\ \A l \in Loops : ~Doing(l, req[r].job)
<1>1. TypeInv /\ PathInv /\ NoFallback /\ NotDone /\ LocalLink /\ UndoneClean /\ RetryInv /\ NoOrphan
  BY DEF Grounds, HandsInv, OrphanNow
<1>2. remote \subseteq Jobs \X Nat /\ uploads \in [Jobs -> Nat]
  BY <1>1 DEF TypeInv, TypeOK
<1>3. \A u \in remote : /\ u[1] \in Jobs /\ u[2] \in Nat /\ u[2] # 0
                        /\ u = <<u[1], u[2]>>
  <2> TAKE u \in remote
  <2>1. u \in Jobs \X Nat /\ u[2] \in 1..uploads[u[1]]
    BY <1>2 DEF Grounds, Numbers
  <2> QED
    BY <1>2, <2>1
<1>4. \A r \in Requests : req[r].op = "retry" => req[r].job \in Jobs
  BY <1>1 DEF TypeInv, RequestTyped
<1>5. ASSUME NEW r \in Requests, req[r].op = "retry", req[r].at \in {"unshare", "remove", "reset"}
      PROVE  /\ rows[req[r].job].status \in TerminalStatus \cup {"cancelled", "deleted"}
             /\ \A l \in Loops : ~Doing(l, req[r].job)
  <2>1. Holds(r, req[r].job)
    BY <1>5 DEF Holds, HeldAt, Removals
  <2> QED
    BY <1>4, <1>5, <2>1 DEF Grounds, HandsInv, HeldInv
<1> QED
  BY <1>1, <1>3, <1>4, <1>5

LEMMA OrphanWorks ==
    ASSUME Grounds, NEW l \in Loops, Works(l), Proper(l)
    PROVE  OrphanNow'
<1> DEFINE k == w[l].job
<1>1. k \in Jobs /\ \A m \in Loops : m = l
  BY GroundFacts DEF Grounds, OneLoop, TypeInv, WorkTyped, Works
<1>2. /\ \A j \in Jobs : rows'[j].link = rows[j].link
      /\ \A j \in Jobs : rows[j].status = "deleted" => rows'[j].status = "deleted"
      /\ \A j \in Jobs \ {k} : rows'[j] = rows[j]
  BY <1>1 DEF Works, Written, HasRow, PresentStatus, ActiveStatus, TerminalStatus
<1>3. /\ w[l].pc \in BusyPC \ {"share", "leave"} /\ w'[l].pc \in BusyPC \ {"register", "share"}
      /\ w'[l].job = k /\ w'[l].link = w[l].link
      /\ w[l].pc \in {"unlink", "complete"} => w'[l].pc \in {"complete", "leave"}
      /\ UNCHANGED <<remote, uploads, req>>
  BY DEF Works, Local
<1>4. LocalLink'
  <2>1. w'[l].pc \notin SentPC => w'[l].link = 0
    BY <1>3, GroundFacts DEF LocalLink, SentPC
  <2>2. w'[l].pc \in BusyPC \ {"unlink", "complete", "leave"} => rows'[k].link = 0
    BY <1>1, <1>2, <1>3, GroundFacts DEF LocalLink
  <2>3. w'[l].pc \in {"unlink", "complete"} /\ w'[l].link # 0 =>
           rows'[k].link = w'[l].link \/ rows'[k].status = "deleted"
    BY <1>1, <1>2, <1>3, GroundFacts DEF LocalLink, SentPC
  <2> QED
    BY <1>1, <1>3, <2>1, <2>2, <2>3 DEF LocalLink
<1>5. UndoneClean'
  <2> SUFFICES ASSUME NEW j \in Jobs, rows'[j].status \in ActiveStatus \cup {"queued"}
               PROVE  rows'[j].link = 0 \/ (w'[l].pc \in {"unlink", "complete"} /\ w'[l].job = j)
    BY DEF UndoneClean
  <2>1. CASE j # k
    BY <1>1, <1>2, <2>1, GroundFacts DEF UndoneClean
  <2>2. CASE j = k /\ w[l].pc \in {"unlink", "complete"}
    BY <1>3, <2>2 DEF Works, Grounds
  <2>3. CASE j = k /\ w[l].pc \notin {"unlink", "complete"}
    BY <1>1, <1>2, <1>3, <2>3, GroundFacts DEF LocalLink
  <2> QED
    BY <2>1, <2>2, <2>3
<1>6. RetryInv'
  <2> SUFFICES ASSUME NEW r \in Requests, req[r].op = "retry" PROVE
            /\ At(r, "retry", "unshare") =>
                  req[r].link = rows'[req[r].job].link \/ rows'[req[r].job].status = "deleted"
            /\ At(r, "retry", "remove") \/ At(r, "retry", "reset") =>
                  rows'[req[r].job].status = "deleted" \/ \A u \in remote : u[1] # req[r].job
    BY <1>3 DEF RetryInv, At
  <2> QED
    BY <1>2, GroundFacts DEF RetryInv
<1>7. NoOrphan'
  <2> SUFFICES ASSUME NEW u \in remote
               PROVE  \/ rows'[u[1]].link = u[2]
                      \/ rows'[u[1]].status = "deleted"
    BY <1>3 DEF NoOrphan
  <2>1. u[1] \in Jobs /\ u[2] # 0
    BY GroundFacts
  <2>2. CASE Owns(l, u[1]) /\ w[l].link = u[2]
    <3>1. w[l].pc \in {"unlink", "complete"}
      BY <1>3, <2>1, <2>2, GroundFacts DEF LocalLink, SentPC
    <3>2. rows[k].link = w[l].link \/ rows[k].status = "deleted"
      BY <2>1, <2>2, <3>1, GroundFacts DEF LocalLink
    <3> QED
      BY <1>1, <1>2, <2>2, <3>2 DEF Owns
  <2>3. CASE rows[u[1]].link = u[2] \/ rows[u[1]].status = "deleted"
    BY <1>2, <2>1, <2>3
  <2> QED
    BY <1>1, <2>2, <2>3, GroundFacts DEF NoOrphan
<1> QED
  BY <1>4, <1>5, <1>6, <1>7 DEF OrphanNow

LEMMA OrphanUpload ==
    ASSUME Grounds, NEW l \in Loops, UploadEnds(l)
    PROVE  OrphanNow'
<1> DEFINE k == w[l].job
           n == uploads[k] + 1
<1>1. /\ k \in Jobs /\ w[l].pc = "upload" /\ w'[l].job = k
      /\ w'[l].pc = "share" /\ w'[l].link = n
      /\ remote' = remote \cup {<<k, n>>} /\ UNCHANGED <<rows, req>>
  BY GroundFacts, UploadMoves DEF Grounds
<1>2. \A m \in Loops : m = l
  BY DEF Grounds, OneLoop
<1> HIDE DEF n
<1>3. rows[k].link = 0 /\ w[l].link = 0 /\ Doing(l, k)
  BY <1>1, GroundFacts DEF LocalLink, SentPC, BusyPC, OwningPC, Doing
<1>4. LocalLink'
  BY <1>1, <1>2, <1>3 DEF LocalLink, SentPC
<1>5. UndoneClean'
  BY <1>1, <1>2, GroundFacts DEF UndoneClean
<1>6. RetryInv'
  <2> SUFFICES ASSUME NEW r \in Requests, req[r].op = "retry", req[r].at \in {"remove", "reset"}
               PROVE  rows[req[r].job].status = "deleted" \/ \A u \in remote' : u[1] # req[r].job
    BY <1>1, GroundFacts DEF RetryInv, At
  <2>1. req[r].job # k
    BY <1>3, GroundFacts
  <2>2. rows[req[r].job].status = "deleted" \/ \A u \in remote : u[1] # req[r].job
    BY GroundFacts DEF RetryInv, At
  <2> QED
    BY <1>1, <2>1, <2>2
<1>7. NoOrphan'
  <2> SUFFICES ASSUME NEW u \in remote'
               PROVE  \/ rows[u[1]].link = u[2] \/ rows[u[1]].status = "deleted"
                      \/ u[1] = k /\ u[2] = n
    BY <1>1 DEF NoOrphan, Owns, OwningPC
  <2>1. CASE u = <<k, n>>
    BY <2>1
  <2>2. CASE u \in remote
    <3>1. u[2] # 0
      BY <2>2, GroundFacts
    <3> QED
      BY <1>2, <1>3, <2>2, <3>1, GroundFacts DEF NoOrphan
  <2> QED
    BY <1>1, <2>1, <2>2
<1> QED
  BY <1>4, <1>5, <1>6, <1>7 DEF OrphanNow

LEMMA OrphanShare ==
    ASSUME Grounds, NEW l \in Loops, Share(l)
    PROVE  OrphanNow'
<1> DEFINE k == w[l].job
<1>1. /\ k \in Jobs /\ w[l].pc = "share" /\ w'[l].pc = "unlink" /\ w'[l].job = k /\ w'[l].link = w[l].link
      /\ \A j \in Jobs \ {k} : rows'[j] = rows[j]
      /\ rows'[k].status = rows[k].status
      /\ \/ ~HasRow(rows, k) /\ rows'[k] = rows[k]
         \/ HasRow(rows, k) /\ rows'[k].link = w[l].link
      /\ UNCHANGED <<remote, req>>
  BY GroundFacts, ShareMoves DEF Local
<1>2. \A m \in Loops : m = l
  BY DEF Grounds, OneLoop
<1>3. rows[k].link = 0 /\ Doing(l, k)
  BY <1>1, GroundFacts DEF LocalLink, BusyPC, OwningPC, Doing
<1>4. HasRow(rows, k) \/ rows[k].status = "deleted"
  <2>1. rows[k] \in Row
    BY <1>1, GroundFacts DEF TypeInv, TypeOK
  <2>2. rows[k].status # "unborn"
    BY <1>1, <1>3, GroundFacts DEF NotDone
  <2> QED
    BY <2>1, <2>2 DEF Row, HasRow, AbsentStatus
<1>5. LocalLink'
  BY <1>1, <1>2, <1>4 DEF LocalLink, SentPC
<1>6. UndoneClean'
  <2> SUFFICES ASSUME NEW j \in Jobs, rows'[j].status \in ActiveStatus \cup {"queued"}, j # k
               PROVE  rows'[j].link = 0
    BY <1>1 DEF UndoneClean
  <2>1. rows'[j] = rows[j] /\ w[l].pc = "share"
    BY <1>1
  <2> QED
    BY <1>2, <2>1, GroundFacts DEF UndoneClean
<1>7. RetryInv'
  <2> SUFFICES ASSUME NEW r \in Requests, req[r].op = "retry", req[r].at \in {"unshare", "remove", "reset"}
               PROVE  rows'[req[r].job] = rows[req[r].job]
    BY <1>1, GroundFacts DEF RetryInv, At
  <2> QED
    BY <1>1, <1>3, GroundFacts
<1>8. NoOrphan'
  <2> SUFFICES ASSUME NEW u \in remote
               PROVE  \/ rows'[u[1]].link = u[2] \/ rows'[u[1]].status = "deleted"
                      \/ k = u[1] /\ w[l].link = u[2]
    BY <1>1 DEF NoOrphan, Owns, OwningPC
  <2>1. u[1] \in Jobs /\ u[2] # 0
    BY GroundFacts
  <2>2. rows[u[1]].link = u[2] \/ rows[u[1]].status = "deleted" \/ (k = u[1] /\ w[l].link = u[2])
    BY <1>2, GroundFacts DEF NoOrphan, Owns
  <2> QED
    BY <1>1, <1>3, <2>1, <2>2
<1> QED
  BY <1>5, <1>6, <1>7, <1>8 DEF OrphanNow

LEMMA OrphanRest ==
    ASSUME Grounds, NEW l \in Loops, Tick(l) \/ Pick(l) \/ Release(l)
    PROVE  OrphanNow'
<1>1. /\ UNCHANGED <<rows, remote, req>> /\ w[l].pc \in {"idle", "pick", "leave"}
      /\ \/ w'[l].pc \in {"idle", "pick"} /\ (w'[l].link = 0 \/ (w'[l].link = w[l].link /\ w[l].pc # "leave"))
         \/ /\ w[l].pc = "pick" /\ w'[l].pc = "register" /\ w'[l].link = w[l].link
            /\ w'[l].job \in Jobs /\ rows[w'[l].job].status = "queued"
  BY GroundFacts, RestMoves
<1>2. \A m \in Loops : m = l
  BY DEF Grounds, OneLoop
<1>3. w[l].pc # "leave" => w[l].link = 0
  BY <1>1, GroundFacts DEF LocalLink, SentPC
<1>4. \A j \in Jobs : rows[j].status \in ActiveStatus \cup {"queued"} => rows[j].link = 0
  BY <1>1, <1>2, GroundFacts DEF UndoneClean
<1>5. LocalLink'
  <2>1. w'[l].pc \notin SentPC /\ w'[l].link = 0
    BY <1>1, <1>3 DEF SentPC
  <2>2. w'[l].pc \in BusyPC => rows[w'[l].job].link = 0
    BY <1>1, <1>4 DEF BusyPC, OwningPC
  <2> QED
    BY <1>1, <1>2, <2>1, <2>2 DEF LocalLink, SentPC
<1>6. UndoneClean' /\ RetryInv'
  BY <1>1, <1>4, GroundFacts DEF UndoneClean, RetryInv, At
<1>7. NoOrphan'
  BY <1>1, <1>2, GroundFacts DEF NoOrphan, Owns, OwningPC
<1> QED
  BY <1>5, <1>6, <1>7 DEF OrphanNow

LEMMA OrphanTable ==
    ASSUME Grounds, NEW k \in Jobs, Submit(k) \/ Age(k) \/ MonitorWrite(k)
    PROVE  OrphanNow'
<1>1. UNCHANGED <<remote, w, req>>
  BY GroundFacts, TableMoves
<1>2. \A j \in Jobs : \/ rows'[j].status = rows[j].status /\ rows'[j].link = rows[j].link
                      \/ rows[j].status = "unborn" /\ rows'[j].status = "queued" /\ rows'[j].link = 0
  BY GroundFacts, TableMoves, StatusWords DEF Restatus, NoFallback
<1>3. \A l \in Loops : w[l].pc \in BusyPC \ {"leave"} =>
         w[l].job \in Jobs /\ rows[w[l].job].status # "unborn"
  BY GroundFacts DEF NotDone, Doing, TypeInv, WorkTyped
<1>4. LocalLink'
  <2> SUFFICES ASSUME NEW l \in Loops, w[l].pc \in BusyPC \ {"leave"}
               PROVE  rows'[w[l].job].link = rows[w[l].job].link /\ rows'[w[l].job].status = rows[w[l].job].status
    BY <1>1, GroundFacts DEF LocalLink, BusyPC, OwningPC
  <2> QED
    BY <1>2, <1>3
<1>5. UndoneClean'
  BY <1>1, <1>2, GroundFacts DEF UndoneClean
<1>6. RetryInv'
  <2> SUFFICES ASSUME NEW r \in Requests, req[r].op = "retry", req[r].at \in {"unshare", "remove", "reset"}
               PROVE  /\ rows'[req[r].job].link = rows[req[r].job].link
                      /\ rows'[req[r].job].status = rows[req[r].job].status
    BY <1>1, GroundFacts DEF RetryInv, At
  <2> QED
    BY <1>2, GroundFacts, StatusWords
<1>7. NoOrphan'
  <2> SUFFICES ASSUME NEW u \in remote
               PROVE  /\ rows'[u[1]].link = rows[u[1]].link
                      /\ rows'[u[1]].status = rows[u[1]].status
    BY <1>1, GroundFacts DEF NoOrphan, Owns
  <2>1. u[1] \in Jobs /\ u[2] # 0
    BY GroundFacts
  <2>2. rows[u[1]].status # "unborn"
    <3>1. rows[u[1]].status = "unborn" => rows[u[1]].link = 0
      BY <2>1 DEF Grounds, Absent0, HasRow, PresentStatus, ActiveStatus, TerminalStatus
    <3>2. \A l \in Loops : Owns(l, u[1]) => rows[u[1]].status # "unborn"
      BY <1>3 DEF Owns, BusyPC, OwningPC
    <3> QED
      BY <2>1, <3>1, <3>2, GroundFacts DEF NoOrphan
  <2> QED
    BY <1>2, <2>1, <2>2
<1> QED
  BY <1>4, <1>5, <1>6, <1>7 DEF OrphanNow

\* A handler writes a row but for its link, deletes it, or resets it for a retry:
\* of a job no loop works on, and of which no upload and no other retry is left.
LEMMA OrphanRows ==
    ASSUME Grounds, NEW r \in Requests, Arrival(r) \/ Handle(r), NEW j \in Jobs
    PROVE  /\ rows[j].status = "deleted" => rows'[j].status = "deleted"
           /\ \/ /\ rows'[j].link = rows[j].link
                 /\ rows'[j].status \in ActiveStatus \cup {"queued"}
                       => rows[j].status \in ActiveStatus \cup {"queued"}
              \/ rows'[j].status = "deleted" /\ rows'[j].link = 0
              \/ /\ RetryReset(r) /\ j = req[r].job /\ rows'[j].link = 0
                 /\ \A u \in remote : u[1] # j
                 /\ \A l \in Loops : ~Doing(l, j)
                 /\ \A q \in Requests \ {r} :
                       req[q].op = "retry" /\ req[q].at \in {"unshare", "remove", "reset"} => req[q].job # j
<1>1. HasRow(rows, j) => rows[j].status # "deleted"
  BY DEF HasRow, PresentStatus, ActiveStatus, TerminalStatus
<1>2. CASE RetryReset(r) /\ j = req[r].job /\ HasRow(rows, j) /\ rows'[j] = EmptyRow("queued")
  <2>1. req[r].op = "retry" /\ req[r].at = "reset"
    BY <1>2 DEF RetryReset, At
  <2>2. (\A u \in remote : u[1] # j) /\ \A l \in Loops : ~Doing(l, j)
    BY <1>1, <1>2, <2>1, GroundFacts DEF RetryInv, At
  <2>3. ASSUME NEW q \in Requests, req[q].op = "retry", req[q].at \in {"unshare", "remove", "reset"},
               req[q].job = j
        PROVE  q = r
    <3>1. Retrying(r, j) /\ Holds(q, j)
      BY <1>2, <2>1, <2>3 DEF Retrying, Holds, HeldAt, Removals
    <3> QED
      BY <2>3, <3>1 DEF Grounds, RetriesApart, Apart
  <2> QED
    BY <1>1, <1>2, <2>2, <2>3, StatusWords
<1>3. CASE j \in ActiveJobs(rows) /\ Restatus(j, "queued")
  BY <1>3, StatusWords DEF Restatus, ActiveJobs
<1> QED
  BY <1>1, <1>2, <1>3, GroundFacts, HandlerRows, StatusWords DEF Restatus

LEMMA OrphanHandlers ==
    ASSUME Grounds, NEW r \in Requests, Arrival(r) \/ Handle(r)
    PROVE  OrphanNow'
<1>1. \A l \in Loops : w'[l] = w[l] \/ (w[l].pc = "off" /\ w'[l].pc = "idle" /\ w'[l].link = w[l].link)
  BY GroundFacts, HandlerLoops
<1>2. \A l \in Loops : w[l].pc \in BusyPC \ {"leave"} => w[l].job \in Jobs /\ Doing(l, w[l].job)
  BY GroundFacts DEF Doing, TypeInv, WorkTyped
<1>3. LocalLink'
  <2> SUFFICES ASSUME NEW l \in Loops
               PROVE  /\ w'[l].pc \notin SentPC => w'[l].link = 0
                      /\ w'[l].pc \in BusyPC \ {"unlink", "complete", "leave"} => rows'[w'[l].job].link = 0
                      /\ w'[l].pc \in {"unlink", "complete"} /\ w'[l].link # 0 =>
                            rows'[w'[l].job].link = w'[l].link \/ rows'[w'[l].job].status = "deleted"
    BY DEF LocalLink
  <2>1. CASE w[l].pc = "off" /\ w'[l].pc = "idle" /\ w'[l].link = w[l].link
    BY <2>1, GroundFacts DEF LocalLink, SentPC, BusyPC, OwningPC
  <2>2. CASE w'[l] = w[l] /\ w[l].pc \notin BusyPC \ {"leave"}
    BY <2>2, GroundFacts DEF LocalLink, BusyPC, OwningPC
  <2>3. CASE w'[l] = w[l] /\ w[l].pc \in BusyPC \ {"leave"}
    <3> DEFINE k == w[l].job
    <3>1. k \in Jobs /\ Doing(l, k)
      BY <1>2, <2>3
    <3>2. rows'[k].link = rows[k].link \/ (rows'[k].status = "deleted" /\ rows'[k].link = 0)
      BY <3>1, OrphanRows
    <3>3. rows[k].status = "deleted" => rows'[k].status = "deleted"
      BY <3>1, OrphanRows
    <3> QED
      BY <2>3, <3>2, <3>3, GroundFacts DEF LocalLink
  <2> QED
    BY <1>1, <2>1, <2>2, <2>3
<1>4. UndoneClean'
  <2> SUFFICES ASSUME NEW j \in Jobs, rows'[j].status \in ActiveStatus \cup {"queued"}
               PROVE  rows'[j].link = 0 \/ \E l \in Loops : w'[l].pc \in {"unlink", "complete"} /\ w'[l].job = j
    BY DEF UndoneClean
  <2>1. rows[j].link = 0 \/ (\E l \in Loops : w[l].pc \in {"unlink", "complete"} /\ w[l].job = j)
           \/ rows'[j].link = 0
    BY OrphanRows, GroundFacts, StatusWords DEF UndoneClean
  <2>2. rows'[j].link = rows[j].link \/ rows'[j].link = 0
    BY OrphanRows
  <2> QED
    BY <1>1, <2>1, <2>2
<1>5. remote' \subseteq remote
  BY GroundFacts, ArrivalRequest, HandleRequest DEF Handled
<1>6. NoOrphan'
  <2> SUFFICES ASSUME NEW u \in remote
               PROVE  \/ rows'[u[1]].link = u[2] \/ rows'[u[1]].status = "deleted"
                      \/ \E l \in Loops : Owns(l, u[1])' /\ w'[l].link = u[2]
    BY <1>5 DEF NoOrphan
  <2>1. u[1] \in Jobs
    BY GroundFacts
  <2>2. rows'[u[1]].link = rows[u[1]].link \/ rows'[u[1]].status = "deleted"
    BY <2>1, OrphanRows
  <2>3. rows[u[1]].status = "deleted" => rows'[u[1]].status = "deleted"
    BY <2>1, OrphanRows
  <2>4. \A l \in Loops : Owns(l, u[1]) => Owns(l, u[1])' /\ w'[l].link = w[l].link
    BY <1>1 DEF Owns, OwningPC
  <2> QED
    BY <2>2, <2>3, <2>4, GroundFacts DEF NoOrphan
<1>7. RetryInv'
  <2> SUFFICES ASSUME NEW q \in Requests, req'[q].op = "retry", req'[q].at \in {"unshare", "remove", "reset"}
               PROVE  /\ req'[q].at = "unshare" =>
                            req'[q].link = rows'[req'[q].job].link \/ rows'[req'[q].job].status = "deleted"
                      /\ req'[q].at # "unshare" =>
                            rows'[req'[q].job].status = "deleted" \/ \A u \in remote' : u[1] # req'[q].job
    BY DEF RetryInv, At
  <2> DEFINE j == req'[q].job
  <2>1. CASE q # r
    <3>1. req'[q] = req[q] /\ j \in Jobs
      <4>1. req'[q] = req[q]
        <5>1. CASE Arrival(r)
          BY <2>1, <5>1, GroundFacts, ArrivalRequest
        <5>2. CASE Handle(r)
          <6>1. Handled(r)
            BY <5>2, GroundFacts, HandleRequest
          <6> QED
            BY <2>1, <6>1 DEF Handled
        <5> QED
          BY <5>1, <5>2
      <4> QED
        BY <4>1, GroundFacts
    <3>2. rows'[j].link = rows[j].link \/ rows'[j].status = "deleted"
      BY <2>1, <3>1, OrphanRows
    <3>3. rows[j].status = "deleted" => rows'[j].status = "deleted"
      BY <3>1, OrphanRows
    <3> QED
      BY <1>5, <3>1, <3>2, <3>3, GroundFacts DEF RetryInv, At
  <2>2. CASE q = r /\ Arrival(r)
    <3>1. Arrived(r) /\ rows' = rows
      BY <2>2, GroundFacts, ArrivalRequest
    <3> QED
      BY <2>2, <3>1 DEF Arrived
  <2>3. CASE q = r /\ Handle(r)
    <3>1. Handled(r) /\ req[r].op = "retry" /\ req[r].job = j /\ j \in Jobs
      <4>1. Handled(r)
        BY <2>3, GroundFacts, HandleRequest
      <4>2. req[r].op = "retry" /\ req[r].job = j
        BY <2>3, <4>1 DEF Handled, SameRequest
      <4> QED
        BY <4>1, <4>2, GroundFacts
    <3>2. rows[j].status = "deleted" => rows'[j].status = "deleted"
      BY <3>1, OrphanRows
    <3>3. CASE req[r].at = "unshare" /\ req'[r].at = "remove"
      <4>1. remote' = remote \ {<<j, req[r].link>>}
        BY <3>1, <3>3 DEF Handled, At, Grounds
      <4>2. req[r].link = rows[j].link \/ rows[j].status = "deleted"
        BY <3>1, <3>3, GroundFacts DEF RetryInv, At
      <4>3. ASSUME NEW u \in remote, u[1] = j
            PROVE  rows[j].link = u[2] \/ rows[j].status = "deleted"
        <5>1. \A l \in Loops : ~Owns(l, j)
          BY <3>1, <3>3, GroundFacts DEF Owns, Doing, BusyPC, OwningPC
        <5> QED
          BY <4>3, <5>1, GroundFacts DEF NoOrphan
      <4>4. rows[j].status = "deleted" \/ \A u \in remote' : u[1] # j
        <5> SUFFICES ASSUME rows[j].status # "deleted", NEW u \in remote, u[1] = j
                     PROVE  u \notin remote'
          BY <4>1
        <5>1. u = <<j, req[r].link>>
          BY <4>2, <4>3, GroundFacts
        <5> QED
          BY <4>1, <5>1
      <4> QED
        BY <2>3, <3>2, <3>3, <4>4
    <3>4. CASE req[r].at = "remove" /\ req'[r].at = "reset"
      <4>1. rows[j].status = "deleted" \/ \A u \in remote : u[1] # j
        BY <3>1, <3>4, GroundFacts DEF RetryInv, At
      <4> QED
        BY <1>5, <2>3, <3>2, <3>4, <4>1
    <3> QED
      BY <2>3, <3>1, <3>3, <3>4 DEF Handled
  <2> QED
    BY <2>1, <2>2, <2>3
<1> QED
  BY <1>3, <1>4, <1>6, <1>7 DEF OrphanNow

LEMMA OrphanStep ==
    ASSUME HandsInv({"retry"}), LinkInv, OrphanInv, RetriesApart,
           OneLoop, {"isapi", "dbwrite", "onedrive"} \cap Faults = {}, [Next]_vars
    PROVE  OrphanInv'
<1> SUFFICES ASSUME reboots' = 0 PROVE OrphanNow'
  BY DEF OrphanInv
<1>0. TypeInv /\ PathInv /\ NoFallback
  BY DEF HandsInv
<1>1. reboots = 0 /\ ~Reboot
  BY <1>0, RebootCounted
<1>2. Grounds
  BY <1>1 DEF Grounds, LinkInv, OrphanInv
<1>3. ASSUME NEW l \in Loops, LoopStep(l) PROVE OrphanNow'
  BY <1>0, <1>2, <1>3, LoopCases, OrphanWorks, OrphanUpload, OrphanShare, OrphanRest DEF PathInv, Grounds
<1>4. CASE UNCHANGED vars
  BY <1>2, <1>4 DEF vars, Grounds, OrphanNow, LocalLink, UndoneClean, RetryInv, At, NoOrphan, Owns
<1> QED
  BY <1>1, <1>2, <1>3, <1>4, OrphanHandlers, OrphanTable DEF Next

\* Until the process has crashed, every upload on OneDrive is referenced by its
\* row, or is about to be, or its row was deleted: no cancel, retry, deletion
\* or failed job leaves an item nobody can find.  This is with one worker loop, a
\* OneDrive that answers, and no two retries of a job at once; each of them is
\* needed, the last one because the second retry resets the row under the loop
\* that already works for the first.
THEOREM NoOrphans ==
    ASSUME OneLoop, {"isapi", "dbwrite", "onedrive"} \cap Faults = {}
    PROVE  Spec /\ []RetriesApart => [](reboots = 0 => NoOrphan)
<1> DEFINE Inv == HandsInv({"retry"}) /\ LinkInv /\ OrphanInv
<1>1. Init => Inv
  <2> SUFFICES ASSUME Init PROVE OrphanNow
    BY HandsInit, LinkInit DEF OrphanInv, Removals
  <2>1. \A l \in Loops : w[l].pc \in {"idle", "off"} /\ w[l].link = 0
    BY DEF Init, BootLoops, IdleLoop
  <2>2. (\A j \in Jobs : rows[j].link = 0) /\ (\A r \in Requests : req[r].op = "none") /\ remote = {}
    BY StatusWords DEF Init, NewRequest
  <2> QED
    BY <2>1, <2>2 DEF OrphanNow, LocalLink, UndoneClean, RetryInv, NoOrphan, At, BusyPC, OwningPC
<1>2. Inv /\ RetriesApart /\ [Next]_vars => Inv'
  <2> SUFFICES ASSUME Inv, RetriesApart, [Next]_vars PROVE Inv'
    OBVIOUS
  <2>1. HandsInv({"retry"})'
    BY HandsStep DEF Removals, RetriesApart
  <2>2. LinkInv'
    BY LinkStep DEF HandsInv
  <2> QED
    BY <2>1, <2>2, OrphanStep
<1>3. Inv => (reboots = 0 => NoOrphan)
  BY DEF OrphanInv, OrphanNow
<1> HIDE DEF Inv
<1> QED
  BY <1>1, <1>2, <1>3, PTL DEF Spec

-----------------------------------------------------------------------------
(* What follows for the comments of the source.                             *)

\* "Atomically reset all job fields back to queued (single DB call to avoid race
\* with worker)": a retry never resets a job that the worker is processing.
RetryMeetsNoLoop == [][\A r \in Requests : At(r, "retry", "reset") /\ req'[r].at = "verify" =>
                          \A l \in Loops : ~Owns(l, req[r].job)]_vars

\* A retry that is alone resets a job that the worker is not processing, as the
\* comment on the reset says: for any number of jobs and requests, with lost
\* writes and crashes.  Two retries of one job that overlap may.
THEOREM LoneRetriesMeetNoLoop ==
    ASSUME OneLoop, "isapi" \notin Faults
    PROVE  Spec /\ []RetriesApart => RetryMeetsNoLoop
<1>1. Init => HandsInv({"retry"})
  BY HandsInit DEF Removals
<1>2. HandsInv({"retry"}) /\ RetriesApart /\ [Next]_vars => HandsInv({"retry"})'
  BY HandsStep DEF Removals, RetriesApart
<1>3. HandsInv({"retry"}) =>
          \A r \in Requests : At(r, "retry", "reset") => \A l \in Loops : ~Owns(l, req[r].job)
  <2> SUFFICES ASSUME HandsInv({"retry"}), NEW r \in Requests, At(r, "retry", "reset"),
                      NEW l \in Loops, Owns(l, req[r].job)
               PROVE  FALSE
    OBVIOUS
  <2>1. req[r].job \in Jobs
    BY DEF HandsInv, TypeInv, RequestTyped, At
  <2>2. Holds(r, req[r].job)
    BY DEF Holds, At, Removals, HeldAt
  <2>3. ~Doing(l, req[r].job)
    BY <2>1, <2>2 DEF HandsInv, HeldInv, At
  <2> QED
    BY <2>3 DEF Doing, Owns, BusyPC, OwningPC
<1>4. HandsInv({"retry"}) /\ [Next]_vars =>
          [\A r \in Requests : At(r, "retry", "reset") /\ req'[r].at = "verify" =>
              \A l \in Loops : ~Owns(l, req[r].job)]_vars
  BY <1>3
<1> QED
  BY <1>1, <1>2, <1>4, PTL DEF Spec, RetryMeetsNoLoop

\* With one worker loop at most one job is active, on whatever recorder and with
\* whatever MaxConcurrent: the capacity test and the one for a busy recorder,
\* which are statements of their own, never race with a claim.
THEOREM OneAtATime ==
    ASSUME OneLoop, Orderly
    PROVE  Spec => [](\A i, j \in ActiveJobs(rows) : i = j)
<1>1. ActiveOwned => \A i, j \in ActiveJobs(rows) : i = j
  BY DEF ActiveOwned, Owns, OneLoop
<1> QED
  BY <1>1, ActiveJobsOwned, PTL
=============================================================================
