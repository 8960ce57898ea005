------------------------------ MODULE Services ------------------------------
(***************************************************************************)
(* The services beside the pipelines, each a module of its own.  They      *)
(* share no state, so what one does never depends on where another is:     *)
(* a behaviour lets one of them run (focus) and leaves the others at rest. *)
(***************************************************************************)
EXTENDS Integers

CONSTANTS
    Users, Admins, Config, Logins, Toggles, maxLoginAttempts, NoEntry, NoUser,
    Sessions, sessionActiveSeconds, sessionCleanupAge, DayLength, Clock, Absent,
    logBufferSize, logFlushSize, MaxEntries,
    Calls, Conns, NoConn, NoCall

VARIABLES
    focus,
    entry, login, granted, allowed, toggle, disputed,
    now, last, page,
    made, accessLogChan, buffer, toWrite, table,
    conn, mu, link, bound, call,
    camera, front, back, pc, req, sent, nonce, session, copying, lapsed, answer

Gate    == INSTANCE LoginGate
Listing == INSTANCE ActiveSessions
Logger  == INSTANCE AccessLogger
Ldap    == INSTANCE Directory
Relay   == INSTANCE RelayConnection

ASSUME ServicesAssumption ==
    /\ Gate!LoginGateAssumption /\ Listing!ActiveSessionsAssumption
    /\ Logger!AccessLoggerAssumption /\ Ldap!DirectoryAssumption

gate    == <<entry, login, granted, allowed, toggle, disputed>>
listing == <<now, last, page>>
logger  == <<made, accessLogChan, buffer, toWrite, table>>
ldap    == <<conn, mu, link, bound, call>>
relay   == <<camera, front, back, pc, req, sent, nonce, session, copying, lapsed, answer>>

vars == <<focus, gate, listing, logger, ldap, relay>>

TypeOK ==
    /\ focus \in {"gate", "listing", "logger", "ldap", "relay"}
    /\ Gate!TypeOK /\ Listing!TypeOK /\ Logger!TypeOK /\ Ldap!TypeOK /\ Relay!TypeOK

Init ==
    /\ focus \in {"gate", "listing", "logger", "ldap", "relay"}
    /\ Gate!Init /\ Listing!Init /\ Logger!Init /\ Ldap!Init /\ Relay!Init

GateStep ==
    /\ focus = "gate" /\ Gate!Next
    /\ UNCHANGED <<focus, listing, logger, ldap, relay>>

ListingStep ==
    /\ focus = "listing" /\ Listing!Next
    /\ UNCHANGED <<focus, gate, logger, ldap, relay>>

LoggerStep ==
    /\ focus = "logger" /\ Logger!Next
    /\ UNCHANGED <<focus, gate, listing, ldap, relay>>

LdapStep ==
    /\ focus = "ldap" /\ Ldap!Next
    /\ UNCHANGED <<focus, gate, listing, logger, relay>>

RelayStep ==
    /\ focus = "relay" /\ Relay!Next
    /\ UNCHANGED <<focus, gate, listing, logger, ldap>>

Next == GateStep \/ ListingStep \/ LoggerStep \/ LdapStep \/ RelayStep

\* A service at rest has nothing that fairness asks it to do.
Spec == Init /\ [][Next]_vars /\ Logger!Fairness /\ Relay!Fairness

-----------------------------------------------------------------------------
(* The properties of the services, stated and explained in their modules.   *)

\* Failed logins in one window are bounded, also when they overlap.
RateBound == Gate!RateBound

\* Who may log in agrees with the permission table.
AllowedAgrees == Gate!AllowedAgrees

\* No silent session is listed as active.
OnlyActiveListed == Listing!OnlyActiveListed

\* The access logger implements the log that loses batches, in order.
LogSpec == Logger!LogSpec

\* No log entry stays in memory for ever.
Drains == Logger!Drains

\* The shared LDAP connection is the service account's between logins.
ServiceWhenIdle == Ldap!ServiceWhenIdle

\* One LDAP connection is open at a time.
OneConnection == Ldap!OneConnection

\* go2rtc is only refused when the credentials are, or the nonce lapsed.
CredentialsWork == Relay!CredentialsWork

\* The PLAY that was accepted is the one the session asks for.
PlayAsAsked == Relay!PlayAsAsked

\* A relay connection ends when either end has closed.
HandlerReturns == Relay!HandlerReturns
=============================================================================
