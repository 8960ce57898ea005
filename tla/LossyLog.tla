------------------------------ MODULE LossyLog ------------------------------
(***************************************************************************)
(* What the access logger promises (handlers/access_logger.go): requests   *)
(* never wait for it; what it keeps reaches the table in order, once, in   *)
(* whole batches; a batch can be lost, and an entry is only turned away    *)
(* while a buffer's worth of others is under way.                          *)
(***************************************************************************)
EXTENDS Integers, Sequences

CONSTANTS logBufferSize, logFlushSize

VARIABLES
    made,       \* requests that were logged; the n-th makes the entry n
    pending,    \* entries under way to the table
    table       \* cd_access_logs

logVars == <<made, pending, table>>

LogInit == made = 0 /\ pending = <<>> /\ table = <<>>

Log ==
    /\ made' = made + 1
    /\ Len(pending) < logBufferSize + logFlushSize
    /\ pending' = Append(pending, made + 1)
    /\ UNCHANGED table

TurnAway ==
    /\ made' = made + 1
    /\ Len(pending) >= logBufferSize
    /\ UNCHANGED <<pending, table>>

\* A batch leaves, for the table or for good.
Batch(k) ==
    /\ k <= Len(pending)
    /\ pending' = SubSeq(pending, k + 1, Len(pending))
    /\ table' \in {table, table \o SubSeq(pending, 1, k)}
    /\ UNCHANGED made

ClearTable ==
    /\ table' = <<>>
    /\ UNCHANGED <<made, pending>>

\* The process ends: what was under way is lost.
Restart ==
    /\ pending' = <<>>
    /\ UNCHANGED <<made, table>>

LogNext ==
    \/ Log \/ TurnAway \/ ClearTable \/ Restart
    \/ \E k \in 1..logFlushSize : Batch(k)

LogSpec == LogInit /\ [][LogNext]_logVars
=============================================================================
