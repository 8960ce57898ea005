--------------------------- MODULE MCExportWorker ---------------------------
(* Instances of ExportWorker for TLC.                                       *)
EXTENDS ExportWorker, TLC

CONSTANTS j1, j2, l1, l2, r1, r2, n1

\* All jobs read from one recorder, in the order of their names.
MCNvrOf == [j \in Jobs |-> n1]
MCCreatedAt == [j \in Jobs |-> IF j = j1 THEN 1 ELSE 2]

\* One user cancels while an administrator tidies up or retries.
MCOpsCore == (r1 :> {"cancel"}) @@ (r2 :> {"delete", "purge", "sweep", "retry"})
MCOpsLoops == (r1 :> {"cancel", "retry"}) @@ (r2 :> {"restart", "retry"})
MCOpsLive == [r \in Requests |-> {"cancel", "retry"}]
MCOpsOnlyCancel == [r \in Requests |-> {"cancel"}]
=============================================================================
