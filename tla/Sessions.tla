------------------------------ MODULE Sessions ------------------------------
(***************************************************************************)
(* Login sessions and the kill switch: handlers/middleware.go,             *)
(* auth_handlers.go and admin_dashboard.go, with the table cd_sessions.    *)
(*                                                                         *)
(* scs (external) reads a session's row when a request begins, keeps it as *)
(* the request's own copy, and writes the whole copy back when the         *)
(* response is written, if the request changed it.  RenewToken and Destroy *)
(* delete the row at once.  A step of a request is one access to a table   *)
(* or to the lockout flag with the computation around it.  Each access to  *)
(* a table may fail, and then the request ends (Return).                   *)
(***************************************************************************)
EXTENDS Integers, FiniteSets

CONSTANTS
    Users,          \* who can log in through LDAP and is allowed to
    Admins,         \* adminUsers
    Kiosks,         \* who is known by a client certificate
    Tokens,         \* bound: the tokens that can ever be issued
    Requests,       \* goroutines of HTTP requests
    Stored,         \* cd_sessions as an earlier run of the program left it
    NoUser, NoRow, NoToken

\* A session: who is logged in, and whether a CSRF token has been made.
\* redirectPath and impersonateUserID only matter as changes to the row.
Row == [user : Users \cup {NoUser}, csrf : BOOLEAN]

ASSUME SessionsAssumption ==
    /\ Admins \subseteq Users
    /\ Users \cap Kiosks = {}
    /\ NoUser \notin Users \cup Kiosks
    /\ NoRow \notin Row \cup Users \cup {NoUser}
    /\ IsFiniteSet(Tokens) /\ IsFiniteSet(Requests)
    /\ NoToken \notin Tokens
    /\ Stored \in [Tokens -> Row \cup {NoRow}]

VARIABLES
    store,      \* cd_sessions, without expired rows
    lockout,    \* lockoutMode
    req,        \* req[r]: where request r is, and its copy of the session
    owner,      \* history: the user a token was issued for; NoRow before that
    purged      \* history: PurgeAllSessions has succeeded under this lockout

vars == <<store, lockout, req, owner, purged>>

PC == {"idle", "gate", "handler", "login", "renew", "commit", "purge"}

Request == [pc     : PC,
            tok    : Tokens \cup {NoToken},
            data   : Row,
            who    : Users \cup Kiosks \cup {NoUser},   \* contextGetAuthenticatedUser
            locked : BOOLEAN]  \* history: began under the lockout still in force

Empty == [user |-> NoUser, csrf |-> FALSE]

Idle == [pc |-> "idle", tok |-> NoToken, data |-> Empty, who |-> NoUser, locked |-> FALSE]

TypeOK ==
    /\ store \in [Tokens -> Row \cup {NoRow}]
    /\ lockout \in BOOLEAN
    /\ req \in [Requests -> Request]
    /\ owner \in [Tokens -> Users \cup {NoUser, NoRow}]
    /\ purged \in BOOLEAN

Init ==
    /\ store = Stored
    /\ lockout = FALSE
    /\ req = [r \in Requests |-> Idle]
    /\ owner = [t \in Tokens |-> IF Stored[t] = NoRow THEN NoRow ELSE Stored[t].user]
    /\ purged = FALSE

-----------------------------------------------------------------------------
Issued == {t \in Tokens : owner[t] # NoRow}
At(r, pc) == req[r].pc = pc
Set(r, q) == req' = [req EXCEPT ![r] = q]
Goto(r, pc) == Set(r, [req[r] EXCEPT !.pc = pc])
Return(r) == Set(r, Idle)
Tables == <<store, owner>>
Flags == <<lockout, purged>>

\* Deletes the row of a token, if there is one.
Without(t) == [u \in Tokens |-> IF u = t THEN NoRow ELSE store[u]]

\* The lockout lets only administrators pass.
Barred(u) == lockout /\ u \notin Admins

\* Mutant: a token is taken for a session although its row is gone.
BeginWithoutRow(r) ==
    /\ At(r, "idle")
    /\ \E t \in Issued :
          Set(r, [pc |-> "gate", tok |-> t, data |-> store[t], who |-> owner[t], locked |-> lockout])
    /\ UNCHANGED <<Tables, Flags>>

\* LoadAndSave and authenticate: a token without a row counts as none; a
\* client certificate goes before the session.
Begin(r) ==
    /\ At(r, "idle")
    /\ \E t \in {u \in Tokens : store[u] # NoRow} \cup {NoToken} :
          LET data == IF t = NoToken THEN Empty ELSE store[t] IN
          \E who \in {data.user} \cup Kiosks :
             Set(r, [pc |-> "gate", tok |-> t, data |-> data, who |-> who, locked |-> lockout])
    /\ UNCHANGED <<Tables, Flags>>

\* An answer that changes nothing: a plain page, a denied permission, a login
\* that fails; or one of the calls to the database has failed.
Answer(r) ==
    /\ ~At(r, "idle")
    /\ Return(r)
    /\ UNCHANGED <<Tables, Flags>>

\* requireAuth.
Redirect(r) ==
    /\ At(r, "gate") /\ req[r].who = NoUser
    /\ Goto(r, "commit")
    /\ UNCHANGED <<Tables, Flags>>

Evict(r) ==
    /\ At(r, "gate") /\ req[r].who # NoUser /\ Barred(req[r].who)
    /\ store' = Without(req[r].tok)
    /\ Return(r)
    /\ UNCHANGED <<owner, Flags>>

Admit(r) ==
    /\ At(r, "gate") /\ req[r].who # NoUser /\ ~Barred(req[r].who)
    /\ Goto(r, "handler")
    /\ UNCHANGED <<Tables, Flags>>

-----------------------------------------------------------------------------
(* Handlers.                                                                *)

Handler(r) == At(r, "handler")
AdminHandler(r) == Handler(r) /\ req[r].who \in Admins

\* getOrCreateCSRFToken, on a page with a form; the login page is public.
MakeCSRF(r) ==
    /\ At(r, "gate") \/ Handler(r)
    /\ ~req[r].data.csrf
    /\ Set(r, [req[r] EXCEPT !.pc = "commit", !.data.csrf = TRUE])
    /\ UNCHANGED <<Tables, Flags>>

\* ImpersonateHandler, StopImpersonateHandler.
Impersonate(r) ==
    /\ AdminHandler(r) /\ req[r].data.csrf
    /\ Goto(r, "commit")
    /\ UNCHANGED <<Tables, Flags>>

Logout(r) ==
    /\ Handler(r)
    /\ store' = Without(req[r].tok)
    /\ Return(r)
    /\ UNCHANGED <<owner, Flags>>

\* AdminKillSwitchHandler.
Kill(r) ==
    /\ AdminHandler(r)
    /\ lockout' = TRUE
    /\ Goto(r, "purge")
    /\ UNCHANGED <<Tables, purged>>

\* Mutant: only the administrator's own session is deleted.
PurgeOwn(r) ==
    /\ At(r, "purge")
    /\ store' = Without(req[r].tok)
    /\ purged' = lockout
    /\ Return(r)
    /\ UNCHANGED <<lockout, owner>>

PurgeSessions(r) ==
    /\ At(r, "purge")
    /\ store' = [t \in Tokens |-> NoRow]
    /\ purged' = lockout
    /\ Return(r)
    /\ UNCHANGED <<lockout, owner>>

Lift(r) ==
    /\ AdminHandler(r)
    /\ lockout' = FALSE
    /\ purged' = FALSE
    /\ req' = [s \in Requests |-> IF s = r THEN Idle ELSE [req[s] EXCEPT !.locked = FALSE]]
    /\ UNCHANGED Tables

-----------------------------------------------------------------------------
(* loginPost.  The rate limit and the list of allowed users are LoginGate's. *)

PostLogin(r) ==
    /\ At(r, "gate") /\ req[r].data.csrf
    /\ Goto(r, "login")
    /\ UNCHANGED <<Tables, Flags>>

\* Mutant: the lockout is only enforced on requests of sessions.
AcceptAnybody(r) ==
    /\ At(r, "login")
    /\ \E u \in Users : Set(r, [req[r] EXCEPT !.pc = "renew", !.who = u])
    /\ UNCHANGED <<Tables, Flags>>

\* LDAP has accepted u; then the lockout is tested.
Accept(r) ==
    /\ At(r, "login")
    /\ \E u \in Users : ~Barred(u) /\ Set(r, [req[r] EXCEPT !.pc = "renew", !.who = u])
    /\ UNCHANGED <<Tables, Flags>>

\* Mutant: the session keeps its token.
RenewNothing(r) ==
    /\ At(r, "renew")
    /\ Set(r, [req[r] EXCEPT !.pc = "commit", !.data = [user |-> req[r].who, csrf |-> FALSE]])
    /\ UNCHANGED <<Tables, Flags>>

\* RenewToken, and what loginPost puts into the session.  Nobody else can
\* name the new token before it is stored, so Commit draws it.
Renew(r) ==
    /\ At(r, "renew")
    /\ store' = Without(req[r].tok)
    /\ Set(r, [req[r] EXCEPT !.pc = "commit", !.tok = NoToken,
                             !.data = [user |-> req[r].who, csrf |-> FALSE]])
    /\ UNCHANGED <<owner, Flags>>

\* The upsert of a changed session, whether its row still exists or not.
Commit(r) ==
    /\ At(r, "commit")
    /\ \E t \in (IF req[r].tok = NoToken THEN Tokens \ Issued ELSE {req[r].tok}) :
          /\ store' = [store EXCEPT ![t] = req[r].data]
          /\ owner' = [owner EXCEPT ![t] = IF @ = NoRow THEN req[r].data.user ELSE @]
    /\ Return(r)
    /\ UNCHANGED Flags

-----------------------------------------------------------------------------
\* A session's lifetime is over; requests are shorter than lifetimes.
Expire(t) ==
    /\ store[t] # NoRow
    /\ \A r \in Requests : req[r].tok # t
    /\ store' = Without(t)
    /\ UNCHANGED <<owner, req, Flags>>

\* The process ends and is started again.
Reboot ==
    /\ lockout' = FALSE
    /\ purged' = FALSE
    /\ req' = [r \in Requests |-> Idle]
    /\ UNCHANGED Tables

Step(r) ==
    \/ Begin(r) \/ Answer(r) \/ Redirect(r) \/ Evict(r) \/ Admit(r)
    \/ MakeCSRF(r) \/ Impersonate(r) \/ Logout(r)
    \/ Kill(r) \/ PurgeSessions(r) \/ Lift(r)
    \/ PostLogin(r) \/ Accept(r) \/ Renew(r) \/ Commit(r)

Next ==
    \/ \E r \in Requests : Step(r)
    \/ \E t \in Tokens : Expire(t)
    \/ Reboot

Spec == Init /\ [][Next]_vars

-----------------------------------------------------------------------------
(* Properties.                                                              *)

\* A token never changes hands: whatever logins, logouts and writes of stale
\* copies overlap, the session stored under a token belongs to the user it
\* was issued for.  So a token that was known before a login never becomes a
\* logged-in session.
TokenOwner == \A t \in Tokens : store[t] # NoRow => store[t].user = owner[t]

\* The kill switch keeps users out: a request that begins under the lockout
\* reaches a handler, or logs somebody in, only for an administrator, also
\* with a session that has survived the purge.
LockoutHolds == \A r \in Requests :
    req[r].locked /\ req[r].pc \in {"handler", "renew"} => req[r].who \in Admins

\* PurgeAllSessions logs everybody out but the users whose requests were
\* running: a late write may store such a session again, one for each request
\* beside the administrator's, and under the lockout no other appears.
UserSessions == {t \in Tokens : store[t] # NoRow /\ store[t].user \notin Admins \cup {NoUser}}
PurgeBound == lockout /\ purged => Cardinality(UserSessions) < Cardinality(Requests)
=============================================================================
