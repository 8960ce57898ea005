---------------------------- MODULE AccessLogger ----------------------------
(***************************************************************************)
(* The access logger (handlers/access_logger.go): requests put entries     *)
(* into a channel, a worker collects them and writes batches.              *)
(*                                                                         *)
(* StopAccessLogger is never called: the process ends by Exec              *)
(* (version.go) or a signal, and the memory with it.                       *)
(***************************************************************************)
EXTENDS Integers, Sequences, SequencesExt

CONSTANTS
    logBufferSize, logFlushSize,
    MaxEntries          \* bound: the requests of an instance

AccessLoggerAssumption ==
    /\ logBufferSize \in Nat \ {0} /\ logFlushSize \in Nat \ {0}
    /\ MaxEntries \in Nat

VARIABLES
    made,           \* entries made so far
    accessLogChan,
    buffer,         \* accessLogWorker's
    toWrite,        \* the batch that is being written
    table           \* cd_access_logs

loggerVars == <<made, accessLogChan, buffer, toWrite, table>>

TypeOK ==
    /\ made \in 0..MaxEntries
    /\ \A s \in {accessLogChan, buffer, toWrite, table} : s \in Seq(1..MaxEntries)
    /\ Len(accessLogChan) <= logBufferSize
    /\ Len(buffer) < logFlushSize /\ Len(toWrite) <= logFlushSize

Init ==
    /\ made = 0
    /\ accessLogChan = <<>> /\ buffer = <<>> /\ toWrite = <<>> /\ table = <<>>

-----------------------------------------------------------------------------
Flushing == toWrite # <<>>

\* AccessLoggingMiddleware has served a request; LogAccess never waits.
LogAccess ==
    /\ made < MaxEntries
    /\ made' = made + 1
    /\ accessLogChan' = IF Len(accessLogChan) < logBufferSize
                        THEN Append(accessLogChan, made + 1) ELSE accessLogChan
    /\ UNCHANGED <<buffer, toWrite, table>>

\* Mutant: the buffer grows by one before it is found full.
ReceiveLate ==
    /\ ~Flushing /\ accessLogChan # <<>>
    /\ accessLogChan' = Tail(accessLogChan)
    /\ IF Len(buffer) < logFlushSize
       THEN buffer' = Append(buffer, Head(accessLogChan)) /\ UNCHANGED toWrite
       ELSE buffer' = <<>> /\ toWrite' = Append(buffer, Head(accessLogChan))
    /\ UNCHANGED <<made, table>>

\* accessLogWorker receives an entry; flush begins when the buffer is full.
Receive ==
    /\ ~Flushing /\ accessLogChan # <<>>
    /\ accessLogChan' = Tail(accessLogChan)
    /\ LET got == Append(buffer, Head(accessLogChan)) IN
       IF Len(got) < logFlushSize THEN buffer' = got /\ UNCHANGED toWrite
                                  ELSE buffer' = <<>> /\ toWrite' = got
    /\ UNCHANGED <<made, table>>

\* Mutant: the ticker leaves a buffer alone that is not full.
TickFlushFull ==
    /\ ~Flushing /\ Len(buffer) >= logFlushSize
    /\ buffer' = <<>> /\ toWrite' = buffer
    /\ UNCHANGED <<made, accessLogChan, table>>

\* Mutant: the buffer is not reset after its copy.
TickKeepsBuffer ==
    /\ ~Flushing /\ buffer # <<>>
    /\ toWrite' = buffer
    /\ UNCHANGED <<made, accessLogChan, buffer, table>>

\* The ticker fires: flush what there is.
TickFlush ==
    /\ ~Flushing /\ buffer # <<>>
    /\ buffer' = <<>> /\ toWrite' = buffer
    /\ UNCHANGED <<made, accessLogChan, table>>

\* InsertAccessLogBatch commits.
Insert ==
    /\ Flushing
    /\ table' = table \o toWrite
    /\ toWrite' = <<>>
    /\ UNCHANGED <<made, accessLogChan, buffer>>

\* It fails, at any statement: rolled back, logged and forgotten.
InsertFails ==
    /\ Flushing
    /\ toWrite' = <<>>
    /\ UNCHANGED <<made, accessLogChan, buffer, table>>

\* AdminClearLogsHandler.
ClearAccessLogs ==
    /\ table # <<>>
    /\ table' = <<>>
    /\ UNCHANGED <<made, accessLogChan, buffer, toWrite>>

Reboot ==
    /\ accessLogChan' = <<>> /\ buffer' = <<>> /\ toWrite' = <<>>
    /\ UNCHANGED <<made, table>>

Next ==
    \/ LogAccess \/ Receive \/ TickFlush \/ Insert \/ InsertFails
    \/ ClearAccessLogs \/ Reboot

\* The worker is a goroutine of its own, the ticker keeps firing, and a batch
\* has a deadline of ten seconds.
Fairness ==
    /\ WF_loggerVars(Receive)
    /\ WF_loggerVars(TickFlush)
    /\ WF_loggerVars(Insert \/ InsertFails)

Spec == Init /\ [][Next]_loggerVars /\ Fairness

-----------------------------------------------------------------------------
(* Properties.                                                              *)

Pending == toWrite \o buffer \o accessLogChan

Abstract == INSTANCE LossyLog WITH pending <- Pending

\* The logger is the log that loses batches but keeps the order, writes
\* nothing twice and turns entries away only when the channel is full.
LogSpec == Abstract!LogSpec

\* No entry stays in memory for ever: it gets written or lost, also when no
\* other request follows it and the buffer never fills.
Drains == \A n \in 1..MaxEntries : n \in ToSet(Pending) ~> n \notin ToSet(Pending)
=============================================================================
