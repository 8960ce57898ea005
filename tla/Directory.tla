------------------------------ MODULE Directory ------------------------------
(***************************************************************************)
(* The LDAP client (internal/auth): every call of the program shares one   *)
(* connection.  A login binds it as the user to test the password, and     *)
(* binds it back as the service account.                                   *)
(*                                                                         *)
(* connect and reconnect dial under the mutex; the operations between read *)
(* c.conn without it.  A nil c.conn makes them panic, which net/http       *)
(* recovers: the call ends.  KeepAlivePing is never called.                *)
(***************************************************************************)
EXTENDS Integers, FiniteSets

CONSTANTS
    Calls,              \* goroutines in AuthenticateUser, GetUser, GetAllUsersBasic
    Conns,              \* bound: connections that are open at the same time
    NoConn, NoCall

DirectoryAssumption == NoConn \notin Conns /\ NoCall \notin Calls

VARIABLES
    conn,       \* c.conn
    mu,         \* who holds c.mu
    link,       \* link[k]: closed by the program, up, or broken
    bound,      \* bound[k]: whom the server takes connection k for
    call        \* call[p]: where call p is

dirVars == <<conn, mu, link, bound, call>>

Call == [pc      : {"idle", "connect", "search", "reconnect", "dial", "attach", "bind", "rebind"},
         login   : BOOLEAN,             \* AuthenticateUser, not a look-up
         retried : BOOLEAN,             \* this search has been tried twice
         dialled : Conns \cup {NoConn}]

Idle == [pc |-> "idle", login |-> FALSE, retried |-> FALSE, dialled |-> NoConn]

TypeOK ==
    /\ conn \in Conns \cup {NoConn}
    /\ mu \in Calls \cup {NoCall}
    /\ link \in [Conns -> {"closed", "up", "broken"}]
    /\ bound \in [Conns -> {"anonymous", "service", "user"}]
    /\ call \in [Calls -> Call]

Init ==
    /\ conn = NoConn /\ mu = NoCall
    /\ link = [k \in Conns |-> "closed"]
    /\ bound = [k \in Conns |-> "anonymous"]
    /\ call = [p \in Calls |-> Idle]

-----------------------------------------------------------------------------
At(p, pc) == call[p].pc = pc
Goto(p, pc) == call' = [call EXCEPT ![p].pc = pc]
Return(p) == call' = [call EXCEPT ![p] = Idle]
Server == <<conn, link, bound>>

\* A search has failed twice, or its reconnect.  A look-up goes on when the
\* search was for one user's groups or direct reports.
GiveUp(p) ==
    \/ Return(p)
    \/ /\ call[p].retried /\ ~call[p].login
       /\ call' = [call EXCEPT ![p] = [Idle EXCEPT !.pc = "search"]]

\* An operation on c.conn: who the server then takes the connection for.
BindAs(who) ==
    /\ bound' = IF conn # NoConn /\ link[conn] = "up" THEN [bound EXCEPT ![conn] = who] ELSE bound
    /\ UNCHANGED <<conn, mu, link>>

Begin(p) ==
    /\ At(p, "idle")
    /\ \E login \in BOOLEAN : call' = [call EXCEPT ![p] = [Idle EXCEPT !.pc = "connect", !.login = login]]
    /\ UNCHANGED <<mu, Server>>

\* connect.
Connected(p) ==
    /\ At(p, "connect") /\ mu = NoCall /\ conn # NoConn
    /\ Goto(p, "search")
    /\ UNCHANGED <<mu, Server>>

Connect(p) ==
    /\ At(p, "connect") /\ mu = NoCall /\ conn = NoConn
    /\ mu' = p
    /\ Goto(p, "dial")
    /\ UNCHANGED Server

\* Mutant: reconnect does not take the mutex.
ReconnectUnlocked(p) ==
    /\ At(p, "reconnect")
    /\ conn' = NoConn
    /\ link' = [k \in Conns |-> IF k = conn THEN "closed" ELSE link[k]]
    /\ Goto(p, "dial")
    /\ UNCHANGED <<mu, bound>>

\* reconnect.
Reconnect(p) ==
    /\ At(p, "reconnect") /\ mu = NoCall
    /\ mu' = p
    /\ conn' = NoConn
    /\ link' = [k \in Conns |-> IF k = conn THEN "closed" ELSE link[k]]
    /\ Goto(p, "dial")
    /\ UNCHANGED bound

Dial(p) ==
    /\ At(p, "dial")
    /\ \E k \in Conns :
          /\ link[k] = "closed"
          /\ link' = [link EXCEPT ![k] = "up"]
          /\ bound' = [bound EXCEPT ![k] = "anonymous"]
          /\ call' = [call EXCEPT ![p].pc = "attach", ![p].dialled = k]
    /\ UNCHANGED <<conn, mu>>

DialFails(p) ==
    /\ At(p, "dial")
    /\ mu' = NoCall
    /\ GiveUp(p)
    /\ UNCHANGED Server

\* The bind of the service account, and c.conn = conn.
Attach(p) ==
    /\ At(p, "attach") /\ link[call[p].dialled] = "up"
    /\ bound' = [bound EXCEPT ![call[p].dialled] = "service"]
    /\ conn' = call[p].dialled
    /\ mu' = NoCall
    /\ call' = [call EXCEPT ![p].pc = "search", ![p].dialled = NoConn]
    /\ UNCHANGED link

AttachFails(p) ==
    /\ At(p, "attach")
    /\ link' = [link EXCEPT ![call[p].dialled] = "closed"]
    /\ mu' = NoCall
    /\ GiveUp(p)
    /\ UNCHANGED <<conn, bound>>

-----------------------------------------------------------------------------
\* A search has answered.  A login ends here unless it has found one entry; a
\* look-up has a search for the users, and two for each user's groups and
\* direct reports.
Found(p) ==
    /\ At(p, "search") /\ conn # NoConn /\ link[conn] = "up"
    /\ \/ call[p].login /\ Goto(p, "bind")
       \/ ~call[p].login /\ call' = [call EXCEPT ![p].retried = FALSE]
       \/ Return(p)
    /\ UNCHANGED <<mu, Server>>

\* It has failed, for whatever reason: reconnect and try again, once.
SearchFails(p) ==
    /\ At(p, "search") /\ conn # NoConn
    /\ IF call[p].retried THEN GiveUp(p)
       ELSE call' = [call EXCEPT ![p].pc = "reconnect", ![p].retried = TRUE]
    /\ UNCHANGED <<mu, Server>>

Panic(p) ==
    /\ call[p].pc \in {"search", "bind", "rebind"} /\ conn = NoConn
    /\ Return(p)
    /\ UNCHANGED <<mu, Server>>

\* Mutant: only a user who was accepted is unbound again.
BindUserOnly(p) ==
    /\ At(p, "bind") /\ conn # NoConn
    /\ \/ BindAs("user") /\ Goto(p, "rebind")
       \/ BindAs("anonymous") /\ Return(p)

\* The server accepts the user's password, or refuses it and takes the
\* connection for nobody's.
BindUser(p) ==
    /\ At(p, "bind") /\ conn # NoConn
    /\ BindAs("user") \/ BindAs("anonymous")
    /\ Goto(p, "rebind")

\* The program only logs that this fails; on a link that is up it does not.
Rebind(p) ==
    /\ At(p, "rebind") /\ conn # NoConn
    /\ BindAs("service")
    /\ Return(p)

Break(k) ==
    /\ link[k] = "up"
    /\ link' = [link EXCEPT ![k] = "broken"]
    /\ UNCHANGED <<conn, mu, bound, call>>

Next ==
    \/ \E p \in Calls :
          \/ Begin(p) \/ Connected(p) \/ Connect(p) \/ Reconnect(p)
          \/ Dial(p) \/ DialFails(p) \/ Attach(p) \/ AttachFails(p)
          \/ Found(p) \/ SearchFails(p) \/ Panic(p) \/ BindUser(p) \/ Rebind(p)
    \/ \E k \in Conns : Break(k)

Spec == Init /\ [][Next]_dirVars

-----------------------------------------------------------------------------
(* Properties.                                                              *)

\* The shared connection is the service account's whenever no login is
\* between its two binds, also after logins that overlapped, were refused, or
\* lost the connection to another call's reconnect.
ServiceWhenIdle ==
    conn # NoConn /\ link[conn] = "up" /\ (\A p \in Calls : ~At(p, "rebind"))
        => bound[conn] = "service"

\* However many calls meet a broken connection and reconnect, one connection
\* is open at a time: a replaced one is closed, never leaked.
OneConnection == \A j, k \in Conns : link[j] # "closed" /\ link[k] # "closed" => j = k
=============================================================================
