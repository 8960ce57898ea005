--------------------------- MODULE ActiveSessions ---------------------------
(***************************************************************************)
(* cd_active_sessions: the heartbeats of open pages, the list the admin    *)
(* page shows and its clean-up (db/admin_queries.go, admin_sessions.go,    *)
(* admin_dashboard.go).                                                    *)
(*                                                                         *)
(* SQLite writes last_activity with datetime('now'), "2024-05-01 10:00:00";*)
(* Go formats the cutoff as RFC 3339, "2024-05-01T09:58:00Z".  Both are    *)
(* text and compared as text, and ' ' is less than 'T': what follows the   *)
(* date only counts between rows, never between a row and a cutoff.        *)
(***************************************************************************)
EXTENDS Integers

CONSTANTS
    Sessions,               \* tokens of the browsers' cookies
    sessionActiveSeconds,
    sessionCleanupAge,
    DayLength,              \* seconds of a day
    Clock,                  \* bound: the instants of an instance, 0..Clock
    Absent

ActiveSessionsAssumption ==
    /\ sessionActiveSeconds \in Nat /\ sessionCleanupAge \in Nat
    /\ DayLength \in Nat \ {0}
    /\ Clock \in Nat
    /\ Absent \notin 0..Clock

VARIABLES
    now,
    last,       \* last[s]: last_activity of the row of s, or Absent
    page        \* the sessions AdminSessionsHandler showed at this instant

sessionVars == <<now, last, page>>

TypeOK ==
    /\ now \in 0..Clock
    /\ last \in [Sessions -> 0..Clock \cup {Absent}]
    /\ page \subseteq Sessions

Init ==
    /\ now = 0
    /\ last = [s \in Sessions |-> Absent]
    /\ page = {}

-----------------------------------------------------------------------------
Rows == {s \in Sessions : last[s] # Absent}
Day(t) == t \div DayLength

\* Mutant: the separator of the dates is greater than 'T'.
FromThatDay(t, cutoff) == Day(t) >= Day(cutoff)

\* last_activity > cutoff, as text; a row never equals a cutoff.
After(t, cutoff) == Day(t) > Day(cutoff)

\* GetActiveSessions, CleanupStaleSessions.
Listed == {s \in Rows : After(last[s], now - sessionActiveSeconds)}
Stale  == {s \in Rows : ~After(last[s], now - sessionCleanupAge)}

Delete(S) == last' = [s \in Sessions |-> IF s \in S THEN Absent ELSE last[s]]

Tick ==
    /\ now < Clock
    /\ now' = now + 1
    /\ page' = {}
    /\ UNCHANGED last

\* HeartbeatHandler, UpsertActiveSession.
Heartbeat(s) ==
    /\ last' = [last EXCEPT ![s] = now]
    /\ UNCHANGED <<now, page>>

\* AdminSessionsHandler, also behind AdminInvalidateSessionHandler.
Show ==
    /\ page' = Listed
    /\ UNCHANGED <<now, last>>

\* AdminInvalidateSessionHandler: only this row goes, not the session.
Invalidate(s) ==
    /\ last[s] # Absent
    /\ Delete({s})
    /\ page' = Listed \ {s}
    /\ UNCHANGED now

\* sessionCleanupWorker, each minute; nothing waits for it.
Cleanup ==
    /\ Stale # {}
    /\ Delete(Stale)
    /\ UNCHANGED <<now, page>>

\* PurgeAllSessions.
Purge ==
    /\ Rows # {}
    /\ Delete(Rows)
    /\ UNCHANGED <<now, page>>

Next ==
    \/ Tick \/ Show \/ Cleanup \/ Purge
    \/ \E s \in Sessions : Heartbeat(s) \/ Invalidate(s)

Spec == Init /\ [][Next]_sessionVars

-----------------------------------------------------------------------------
(* Properties.                                                              *)

\* The page never shows a session whose browser has been silent for longer
\* than sessionActiveSeconds, whatever was cleaned up or came back meanwhile:
\* the comparison as text errs on one side only.
OnlyActiveListed == \A s \in page : last[s] # Absent => now - last[s] < sessionActiveSeconds

\* "GetActiveSessions returns sessions with activity within the last N
\* seconds" (db/admin_queries.go:109): every row whose browser has been heard
\* within sessionActiveSeconds is on the list.
ActiveListed == \A s \in Rows : now - last[s] < sessionActiveSeconds => s \in Listed
=============================================================================
