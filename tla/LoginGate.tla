----------------------------- MODULE LoginGate -----------------------------
(***************************************************************************)
(* Who may log in: the rate limit of one address and the list of allowed   *)
(* users, which the toggles of the permission page keep in step with the   *)
(* table (handlers/middleware.go, auth_handlers.go, admin_permissions.go). *)
(*                                                                         *)
(* loginAttempts is under a mutex, and a step is one of its critical       *)
(* sections.  allowedUsers is a map without one: where two goroutines meet *)
(* in it the runtime ends the process, which Reboot covers.                *)
(***************************************************************************)
EXTENDS Integers, FiniteSets

CONSTANTS
    Users,
    Admins,             \* adminUsers
    Config,             \* config.Auth.AllowedUsers
    Logins,             \* goroutines of loginPost, from the one address
    Toggles,            \* goroutines of the permission handlers
    maxLoginAttempts,
    NoEntry, NoUser

Entry == [attempts : 0..(maxLoginAttempts - 1 + Cardinality(Logins)),
          old      : BOOLEAN]   \* lastReset is further back than the window

LoginGateAssumption ==
    /\ Admins \subseteq Users /\ Config \subseteq Users
    /\ IsFiniteSet(Logins)
    /\ maxLoginAttempts \in Nat \ {0}
    /\ NoEntry \notin Entry
    /\ NoUser \notin Users

VARIABLES
    entry,      \* loginAttempts[the address]
    login,      \* login[p]: where loginPost is
    granted,    \* cd_permissions: who holds "cameras"
    allowed,    \* allowedUsers
    toggle,     \* toggle[t]: the user a toggle has written and not yet synced
    disputed    \* history: who was toggled twice at once, or missed at boot

gateVars == <<entry, login, granted, allowed, toggle, disputed>>

NoToggle == [user |-> NoUser, grant |-> FALSE]

TypeOK ==
    /\ entry \in Entry \cup {NoEntry}
    /\ login \in [Logins -> {"idle", "bind", "bound"}]
    /\ granted \subseteq Users /\ allowed \subseteq Users /\ disputed \subseteq Users
    /\ toggle \in [Toggles -> [user : Users \cup {NoUser}, grant : BOOLEAN]]

\* The first start, with an empty table; Reboot stands for the later ones.
Init ==
    /\ entry = NoEntry
    /\ login = [p \in Logins |-> "idle"]
    /\ granted = {}
    /\ allowed = Config
    /\ toggle = [t \in Toggles |-> NoToggle]
    /\ disputed = {}

Lists == <<granted, allowed, toggle, disputed>>
Limit == <<entry, login>>

-----------------------------------------------------------------------------
(* loginPost.                                                               *)

Goto(p, pc) == login' = [login EXCEPT ![p] = pc]

\* Mutant: one attempt too many.
ExhaustedLate(e) == e.attempts > maxLoginAttempts
Exhausted(e) == e.attempts >= maxLoginAttempts

\* checkRateLimit.  A login without a name or a password goes no further.
CheckRateLimit(p) ==
    /\ login[p] = "idle"
    /\ IF entry = NoEntry \/ entry.old
       THEN entry' = [attempts |-> 0, old |-> FALSE]
       ELSE ~Exhausted(entry) /\ UNCHANGED entry
    /\ Goto(p, "bind") \/ UNCHANGED login
    /\ UNCHANGED Lists

\* AuthenticateUser has accepted a user of the list.
Bind(p) ==
    /\ login[p] = "bind" /\ allowed # {}
    /\ Goto(p, "bound")
    /\ UNCHANGED <<entry, Lists>>

\* recordLoginAttempt: LDAP or the list has refused.
Refused(p) ==
    /\ login[p] = "bind"
    /\ entry' = IF entry = NoEntry THEN [attempts |-> 1, old |-> FALSE]
                                   ELSE [entry EXCEPT !.attempts = @ + 1]
    /\ Goto(p, "idle")
    /\ UNCHANGED Lists

\* The lockout, or RenewToken fails: neither counted nor cleared.
TurnedAway(p) ==
    /\ login[p] = "bound"
    /\ Goto(p, "idle")
    /\ UNCHANGED <<entry, Lists>>

\* clearLoginAttempts.
LoggedIn(p) ==
    /\ login[p] = "bound"
    /\ entry' = NoEntry
    /\ Goto(p, "idle")
    /\ UNCHANGED Lists

\* The window passes; then any address's check may delete the entry.
WindowPasses ==
    /\ entry # NoEntry /\ ~entry.old
    /\ entry' = [entry EXCEPT !.old = TRUE]
    /\ UNCHANGED <<login, Lists>>

CleanUp ==
    /\ entry # NoEntry /\ entry.old
    /\ entry' = NoEntry
    /\ UNCHANGED <<login, Lists>>

-----------------------------------------------------------------------------
(* The toggles: AdminPermissionToggleHandler for the slug "cameras",        *)
(* AdminGrantAllHandler, AdminRevokeAllHandler.                             *)

InFlight(u) == {t \in Toggles : toggle[t].user = u}

\* GrantPermission, RevokePermission and their -All forms: one statement or
\* one transaction.  When it fails the handler returns and nothing changes.
Toggle(t, u, grant) ==
    /\ toggle[t] = NoToggle
    /\ toggle' = [toggle EXCEPT ![t] = [user |-> u, grant |-> grant]]
    /\ disputed' = IF InFlight(u) = {} THEN disputed \ {u} ELSE disputed \cup {u}
    /\ UNCHANGED <<Limit, allowed>>

Written(u, grant) == IF grant THEN granted \cup {u} ELSE granted \ {u}

\* Mutant: the handler goes on when the write has failed.
WriteAnyhow(t, u, grant) ==
    /\ Toggle(t, u, grant)
    /\ granted' \in {granted, Written(u, grant)}

WriteGrant(t, u, grant) ==
    /\ Toggle(t, u, grant)
    /\ granted' = Written(u, grant)

\* SetUserAllowed; the revoke of an administrator is not synced.
Sync(t) ==
    /\ toggle[t] # NoToggle
    /\ \/ toggle[t].grant /\ allowed' = allowed \cup {toggle[t].user}
       \/ ~toggle[t].grant /\ allowed' = allowed \ ({toggle[t].user} \ Admins)
    /\ toggle' = [toggle EXCEPT ![t] = NoToggle]
    /\ UNCHANGED <<Limit, granted, disputed>>

\* InitAuth, and the users seeded from the table unless it cannot be read.
Reboot ==
    /\ entry' = NoEntry
    /\ login' = [p \in Logins |-> "idle"]
    /\ toggle' = [t \in Toggles |-> NoToggle]
    /\ \/ allowed' = Config \cup granted /\ disputed' = {}
       \/ allowed' = Config /\ disputed' = granted \ Config
    /\ UNCHANGED granted

Next ==
    \/ \E p \in Logins :
          CheckRateLimit(p) \/ Bind(p) \/ Refused(p) \/ TurnedAway(p) \/ LoggedIn(p)
    \/ WindowPasses
    \/ CleanUp
    \/ \E t \in Toggles : Sync(t) \/ \E u \in Users, g \in BOOLEAN : WriteGrant(t, u, g)
    \/ Reboot

Spec == Init /\ [][Next]_gateVars

-----------------------------------------------------------------------------
(* Properties.                                                              *)

\* The limit is tested before the bind and counted after it, so logins that
\* run at once pass it together: of one address at most maxLoginAttempts - 1
\* failures and those in flight count, and every failure counts.
RateBound ==
    entry # NoEntry =>
        entry.attempts + Cardinality({p \in Logins : login[p] = "bind"})
            <= maxLoginAttempts - 1 + Cardinality(Logins)

\* The list in memory and the table agree on everyone whose last toggle was
\* alone and is over, whatever failed and however often the process started:
\* who holds the permission may log in, and nobody else but the users of the
\* config file and the administrators.
AllowedAgrees == \A u \in Users \ disputed : InFlight(u) = {} =>
    /\ u \in granted => u \in allowed
    /\ u \in allowed => u \in granted \cup Config \cup Admins
=============================================================================
