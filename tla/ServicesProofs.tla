--------------------------- MODULE ServicesProofs ---------------------------
(***************************************************************************)
(* The theorems of the services for Services, where they stand side by side, *)
(* and the one of ActiveSessions.  A step of Services is a step of one of   *)
(* them and leaves the others alone, so the invariants of their proofs are  *)
(* invariants of Services.                                                  *)
(***************************************************************************)
EXTENDS Services, TLAPS

GateProofs   == INSTANCE LoginGateProofs
LoggerProofs == INSTANCE AccessLoggerProofs
LdapProofs   == INSTANCE DirectoryProofs

-----------------------------------------------------------------------------
(* Each service by itself.                                                  *)

LEMMA Apart ==
    ASSUME [Next]_vars
    PROVE  /\ [Gate!Next]_gate /\ [Listing!Next]_listing
           /\ [Logger!Next]_logger /\ [Ldap!Next]_ldap
BY DEF Next, GateStep, ListingStep, LoggerStep, LdapStep, RelayStep,
       vars, gate, listing, logger, ldap

-----------------------------------------------------------------------------
(* LoginGate.  Its proofs speak of an instance of their own, which is the   *)
(* same as Gate, definition by definition.                                  *)

LEMMA SameFinite == \A S : Gate!IsFiniteSet(S) <=> GateProofs!IsFiniteSet(S)
BY Zenon DEF Gate!IsFiniteSet, GateProofs!IsFiniteSet

LEMMA SameCardinality == \A S : Gate!Cardinality(S) = GateProofs!Cardinality(S)
BY Zenon DEF Gate!Cardinality, GateProofs!Cardinality

LEMMA GateAssumed == GateProofs!LoginGateAssumption
BY SameFinite, SameCardinality, ServicesAssumption
DEF Gate!LoginGateAssumption, GateProofs!LoginGateAssumption, Gate!Entry, GateProofs!Entry

LEMMA SameGate ==
    /\ Gate!Init <=> GateProofs!Init
    /\ Gate!Next <=> GateProofs!Next
    /\ gate = GateProofs!gateVars
BY DEF Gate!Next, Gate!CheckRateLimit, Gate!Bind, Gate!Refused, Gate!TurnedAway, Gate!LoggedIn,
       Gate!WindowPasses, Gate!CleanUp, Gate!Sync, Gate!WriteGrant, Gate!Written, Gate!Toggle,
       Gate!Reboot, Gate!Init, Gate!Lists, Gate!Limit, Gate!Goto, Gate!Exhausted, Gate!InFlight,
       Gate!NoToggle,
       GateProofs!Next, GateProofs!CheckRateLimit, GateProofs!Bind, GateProofs!Refused,
       GateProofs!TurnedAway, GateProofs!LoggedIn, GateProofs!WindowPasses, GateProofs!CleanUp,
       GateProofs!Sync, GateProofs!WriteGrant, GateProofs!Written, GateProofs!Toggle,
       GateProofs!Reboot, GateProofs!Init, GateProofs!Lists, GateProofs!Limit, GateProofs!Goto,
       GateProofs!Exhausted, GateProofs!InFlight, GateProofs!NoToggle, gate, GateProofs!gateVars

LEMMA GateInductive ==
    /\ Init => GateProofs!GateInv
    /\ GateProofs!GateInv /\ [Next]_vars => GateProofs!GateInv'
<1>1. Init => GateProofs!GateInv
  BY SameGate, GateAssumed, GateProofs!GateInit DEF Init
<1>2. ASSUME GateProofs!GateInv, [Next]_vars
      PROVE  GateProofs!GateInv'
  <2>1. [GateProofs!Next]_(GateProofs!gateVars)
    BY <1>2, Apart, SameGate DEF gate, GateProofs!gateVars
  <2> QED
    BY <1>2, <2>1, GateAssumed, GateProofs!GateStep
<1> QED
  BY <1>1, <1>2

\* Failed logins of one address and one window are bounded, however many
\* logins overlap.
THEOREM RateBounded == Spec => []RateBound
<1>1. GateProofs!GateInv => RateBound
  BY SameCardinality DEF GateProofs!GateInv, GateProofs!RateBound, RateBound, Gate!RateBound
<1> QED
  BY <1>1, GateInductive, PTL DEF Spec

\* Memory and permission table agree on everyone whose last toggle was alone,
\* for any users and toggles, whatever fails and restarts.
THEOREM AllowedAgreed == Spec => []AllowedAgrees
<1>1. GateProofs!GateInv => AllowedAgrees
  BY DEF GateProofs!GateInv, GateProofs!AgreeInv, GateProofs!Fits, GateProofs!Alone,
         GateProofs!InFlight, AllowedAgrees, Gate!AllowedAgrees, Gate!InFlight
<1> QED
  BY <1>1, GateInductive, PTL DEF Spec

-----------------------------------------------------------------------------
(* AccessLogger.                                                            *)

LEMMA LoggerAssumed == LoggerProofs!AccessLoggerAssumption
BY ServicesAssumption DEF Logger!AccessLoggerAssumption, LoggerProofs!AccessLoggerAssumption

LEMMA SameLogger ==
    /\ Logger!Init <=> LoggerProofs!Init
    /\ Logger!Next <=> LoggerProofs!Next
    /\ logger = LoggerProofs!loggerVars
BY DEF Logger!Init, Logger!Next, Logger!LogAccess, Logger!Receive, Logger!TickFlush, Logger!Insert,
       Logger!InsertFails, Logger!ClearAccessLogs, Logger!Reboot, Logger!Flushing,
       LoggerProofs!Init, LoggerProofs!Next, LoggerProofs!LogAccess, LoggerProofs!Receive,
       LoggerProofs!TickFlush, LoggerProofs!Insert, LoggerProofs!InsertFails,
       LoggerProofs!ClearAccessLogs, LoggerProofs!Reboot, LoggerProofs!Flushing,
       logger, LoggerProofs!loggerVars

LEMMA SameAbstract ==
    /\ Logger!Abstract!LogInit <=> LoggerProofs!Abstract!LogInit
    /\ Logger!Abstract!LogNext <=> LoggerProofs!Abstract!LogNext
    /\ Logger!Abstract!logVars = LoggerProofs!Abstract!logVars
    /\ Logger!Abstract!logVars' = LoggerProofs!Abstract!logVars'
BY DEF Logger!Abstract!LogInit, Logger!Abstract!LogNext, Logger!Abstract!Log,
       Logger!Abstract!TurnAway, Logger!Abstract!Batch, Logger!Abstract!ClearTable,
       Logger!Abstract!Restart, Logger!Abstract!logVars, Logger!Pending,
       LoggerProofs!Abstract!LogInit, LoggerProofs!Abstract!LogNext, LoggerProofs!Abstract!Log,
       LoggerProofs!Abstract!TurnAway, LoggerProofs!Abstract!Batch,
       LoggerProofs!Abstract!ClearTable, LoggerProofs!Abstract!Restart,
       LoggerProofs!Abstract!logVars, LoggerProofs!Pending

LEMMA LoggerInductive ==
    /\ Init => LoggerProofs!LogInv /\ Logger!Abstract!LogInit
    /\ LoggerProofs!LogInv /\ [Next]_vars
          => LoggerProofs!LogInv' /\ [Logger!Abstract!LogNext]_(Logger!Abstract!logVars)
<1>1. Init => LoggerProofs!LogInv /\ Logger!Abstract!LogInit
  BY SameLogger, SameAbstract, LoggerAssumed, LoggerProofs!LoggerInit DEF Init
<1>2. ASSUME LoggerProofs!LogInv, [Next]_vars
      PROVE  LoggerProofs!LogInv' /\ [Logger!Abstract!LogNext]_(Logger!Abstract!logVars)
  <2>1. [LoggerProofs!Next]_(LoggerProofs!loggerVars)
    BY <1>2, Apart, SameLogger DEF logger, LoggerProofs!loggerVars
  <2>2. LoggerProofs!LogInv' /\ [LoggerProofs!Abstract!LogNext]_(LoggerProofs!Abstract!logVars)
    BY <1>2, <2>1, LoggerAssumed, LoggerProofs!LoggerStep
  <2> QED
    BY <2>2, SameAbstract
<1> QED
  BY <1>1, <1>2

\* The access logger implements the log that loses batches, for any sizes and
\* any number of requests.
THEOREM LoggerIsLossyLog == Spec => LogSpec
BY LoggerInductive, PTL DEF Spec, LogSpec, Logger!LogSpec, Logger!Abstract!LogSpec

-----------------------------------------------------------------------------
(* Directory.                                                               *)

LEMMA LdapAssumed == LdapProofs!DirectoryAssumption
BY ServicesAssumption DEF Ldap!DirectoryAssumption, LdapProofs!DirectoryAssumption

LEMMA SameLdap ==
    /\ Ldap!Init <=> LdapProofs!Init
    /\ Ldap!Next <=> LdapProofs!Next
    /\ ldap = LdapProofs!dirVars
BY DEF Ldap!Init, Ldap!Next, Ldap!Begin, Ldap!Connected, Ldap!Connect, Ldap!Reconnect, Ldap!Dial,
       Ldap!DialFails, Ldap!Attach, Ldap!AttachFails, Ldap!Found, Ldap!SearchFails, Ldap!Panic,
       Ldap!BindUser, Ldap!Rebind, Ldap!Break, Ldap!BindAs, Ldap!GiveUp, Ldap!Return, Ldap!Goto,
       Ldap!At, Ldap!Server, Ldap!Idle,
       LdapProofs!Init, LdapProofs!Next, LdapProofs!Begin, LdapProofs!Connected,
       LdapProofs!Connect, LdapProofs!Reconnect, LdapProofs!Dial, LdapProofs!DialFails,
       LdapProofs!Attach, LdapProofs!AttachFails, LdapProofs!Found, LdapProofs!SearchFails,
       LdapProofs!Panic, LdapProofs!BindUser, LdapProofs!Rebind, LdapProofs!Break,
       LdapProofs!BindAs, LdapProofs!GiveUp, LdapProofs!Return, LdapProofs!Goto, LdapProofs!At,
       LdapProofs!Server, LdapProofs!Idle, ldap, LdapProofs!dirVars

LEMMA LdapInductive ==
    /\ Init => LdapProofs!DirInv
    /\ LdapProofs!DirInv /\ [Next]_vars => LdapProofs!DirInv'
<1>1. Init => LdapProofs!DirInv
  BY SameLdap, LdapAssumed, LdapProofs!DirInit DEF Init
<1>2. ASSUME LdapProofs!DirInv, [Next]_vars
      PROVE  LdapProofs!DirInv'
  <2>1. [LdapProofs!Next]_(LdapProofs!dirVars)
    BY <1>2, Apart, SameLdap DEF ldap, LdapProofs!dirVars
  <2> QED
    BY <1>2, <2>1, LdapAssumed, LdapProofs!DirStep
<1> QED
  BY <1>1, <1>2

\* Between logins the shared connection is the service account's, for any
\* number of calls, refusals, breaks and reconnects.
THEOREM ServiceBetweenLogins == Spec => []ServiceWhenIdle
<1>1. LdapProofs!DirInv => ServiceWhenIdle
  BY DEF LdapProofs!DirInv, LdapProofs!ServiceWhenIdle, ServiceWhenIdle, Ldap!ServiceWhenIdle,
         LdapProofs!At, Ldap!At
<1> QED
  BY <1>1, LdapInductive, PTL DEF Spec

\* No reconnect leaks a connection.
THEOREM OneOpen == Spec => []OneConnection
<1>1. LdapProofs!DirInv => OneConnection
  BY LdapAssumed, LdapProofs!OneAtATime
  DEF OneConnection, Ldap!OneConnection, LdapProofs!OneConnection
<1> QED
  BY <1>1, LdapInductive, PTL DEF Spec

-----------------------------------------------------------------------------
(* ActiveSessions: a later day is a later time.                             *)

LEMMA DivisionBounds ==
    ASSUME NEW t \in Int, NEW d \in Nat \ {0}
    PROVE  t \div d \in Int /\ d * (t \div d) <= t /\ t < d * (t \div d) + d
BY Z3

LEMMA ProductGrows ==
    ASSUME NEW d \in Nat, NEW p \in Int, NEW q \in Int, p >= q + 1
    PROVE  d * p >= d * q + d
BY Z3

LEMMA LaterDay ==
    ASSUME NEW t \in Int, NEW u \in Int, NEW d \in Nat \ {0}, t \div d > u \div d
    PROVE  t > u
BY DivisionBounds, ProductGrows, Z3

LEMMA ListingAssumed ==
    /\ sessionActiveSeconds \in Nat /\ sessionCleanupAge \in Nat /\ DayLength \in Nat \ {0}
    /\ Clock \in Nat /\ Absent \notin 0..Clock
BY ServicesAssumption DEF Listing!ActiveSessionsAssumption

\* No heartbeat is later than now, and with a limit of 0 nothing is listed.
ListingInv ==
    /\ Listing!TypeOK
    /\ \A s \in Sessions : last[s] # Absent => last[s] <= now
    /\ page # {} => sessionActiveSeconds > 0
    /\ OnlyActiveListed

\* What is listed was heard in time.
LEMMA ListedInTime ==
    ASSUME ListingInv, NEW s \in Listing!Listed
    PROVE  /\ s \in Sessions /\ last[s] # Absent
           /\ now - last[s] < sessionActiveSeconds /\ sessionActiveSeconds > 0
<1>1. s \in Sessions /\ last[s] # Absent
  BY DEF Listing!Listed, Listing!Rows
<1>2. last[s] \in 0..Clock /\ now \in 0..Clock
  BY <1>1 DEF ListingInv, Listing!TypeOK
<1>3. last[s] \div DayLength > (now - sessionActiveSeconds) \div DayLength
  BY DEF Listing!Listed, Listing!After, Listing!Day
<1>4. last[s] > now - sessionActiveSeconds
  <2> DEFINE c == now - sessionActiveSeconds
  <2>1. c \in Int /\ last[s] \in Int /\ DayLength \in Nat \ {0}
    BY <1>2, ListingAssumed
  <2> HIDE DEF c
  <2>2. last[s] \div DayLength > c \div DayLength
    BY <1>3 DEF c
  <2>3. last[s] > c
    BY <2>1, <2>2, LaterDay
  <2> QED
    BY <2>3 DEF c
<1>5. last[s] <= now
  BY <1>1 DEF ListingInv
<1> QED
  BY <1>1, <1>2, <1>4, <1>5, ListingAssumed

LEMMA ListingInit ==
    ASSUME Init
    PROVE  ListingInv
BY ListingAssumed
DEF Init, Listing!Init, ListingInv, Listing!TypeOK, OnlyActiveListed, Listing!OnlyActiveListed

\* Rows are only deleted and the page is as it was, or shows what is listed.
LEMMA DeletesKeep ==
    ASSUME ListingInv, now' = now,
           \E S : Listing!Delete(S),
           page' = page \/ page' \subseteq Listing!Listed
    PROVE  ListingInv'
<1>1. /\ last' \in [Sessions -> 0..Clock \cup {Absent}]
      /\ \A s \in Sessions : last'[s] \in {last[s], Absent}
  BY DEF ListingInv, Listing!TypeOK, Listing!Delete
<1>2. page' \subseteq Sessions
  BY ListedInTime DEF ListingInv, Listing!TypeOK
<1>3. Listing!TypeOK'
  BY <1>1, <1>2 DEF ListingInv, Listing!TypeOK
<1>4. (\A s \in Sessions : last[s] # Absent => last[s] <= now)'
  BY <1>1 DEF ListingInv
<1>5. (page # {} => sessionActiveSeconds > 0)'
  BY ListedInTime DEF ListingInv
<1>6. OnlyActiveListed'
  BY <1>1, <1>2, ListedInTime DEF ListingInv, OnlyActiveListed, Listing!OnlyActiveListed
<1> QED
  BY <1>3, <1>4, <1>5, <1>6 DEF ListingInv

LEMMA ListingStays ==
    ASSUME ListingInv, [Listing!Next]_listing
    PROVE  ListingInv'
<1>n. now \in 0..Clock /\ page \subseteq Sessions /\ last \in [Sessions -> 0..Clock \cup {Absent}]
  BY DEF ListingInv, Listing!TypeOK
<1>e. Listing!Delete({}) <=> last' = last
  BY <1>n DEF Listing!Delete
<1>1. CASE Listing!Tick
  <2>1. now < Clock /\ now' = now + 1 /\ page' = {} /\ last' = last
    BY <1>1 DEF Listing!Tick
  <2>2. Listing!TypeOK'
    BY <1>n, <2>1, ListingAssumed DEF Listing!TypeOK
  <2>3. (\A s \in Sessions : last[s] # Absent => last[s] <= now)'
    BY <1>n, <2>1, ListingAssumed DEF ListingInv
  <2> QED
    BY <2>1, <2>2, <2>3 DEF ListingInv, OnlyActiveListed, Listing!OnlyActiveListed
<1>2. CASE Listing!Show
  BY <1>2, <1>e, DeletesKeep DEF Listing!Show
<1>3. CASE Listing!Cleanup \/ Listing!Purge
  BY <1>3, DeletesKeep DEF Listing!Cleanup, Listing!Purge
<1>4. ASSUME NEW s \in Sessions, Listing!Invalidate(s)
      PROVE  ListingInv'
  BY <1>4, DeletesKeep DEF Listing!Invalidate
<1>5. ASSUME NEW s \in Sessions, Listing!Heartbeat(s)
      PROVE  ListingInv'
  <2>1. last' = [last EXCEPT ![s] = now] /\ now' = now /\ page' = page
    BY <1>5 DEF Listing!Heartbeat
  <2>2. Listing!TypeOK'
    BY <1>n, <2>1 DEF Listing!TypeOK
  <2>3. (\A t \in Sessions : last[t] # Absent => last[t] <= now)'
    BY <1>n, <2>1 DEF ListingInv
  <2>4. (page # {} => sessionActiveSeconds > 0)'
    BY <2>1 DEF ListingInv
  <2>5. OnlyActiveListed'
    BY <1>n, <2>1, <2>4 DEF ListingInv, OnlyActiveListed, Listing!OnlyActiveListed
  <2> QED
    BY <2>2, <2>3, <2>4, <2>5 DEF ListingInv
<1>6. CASE UNCHANGED listing
  BY <1>6, <1>e, DeletesKeep DEF listing
<1> QED
  BY <1>1, <1>2, <1>3, <1>4, <1>5, <1>6 DEF Listing!Next

\* The page never shows a session that has been silent for too long, for any
\* length of the day, limit and number of sessions.
THEOREM OnlyActiveShown == Spec => []OnlyActiveListed
<1>1. Init => ListingInv
  BY ListingInit
<1>2. ListingInv /\ [Next]_vars => ListingInv'
  BY Apart, ListingStays
<1>3. ListingInv => OnlyActiveListed
  BY DEF ListingInv
<1> QED
  BY <1>1, <1>2, <1>3, PTL DEF Spec

-----------------------------------------------------------------------------
(* Types.  RelayConnection has no parameters, so TLC has seen all of it;    *)
(* here its types are proved with those of the others.                      *)

Auths == {"none", "valid", "stale", "wrong"}

LEMMA AuthorizationType == Relay!Authorization \in Auths
BY DEF Relay!Authorization, Auths

LEMMA RequestType ==
    ASSUME NEW q \in Relay!Request
    PROVE  /\ Relay!Rewritten(q) \in Relay!Request
           /\ \A a \in Auths : [q EXCEPT !.auth = a] \in Relay!Request
           /\ q.auth \in Auths
<1>1. /\ q.method \in Relay!Method /\ q.relay \in BOOLEAN /\ q.track \in BOOLEAN
      /\ q.range \in BOOLEAN /\ q.scale \in BOOLEAN /\ q.session \in BOOLEAN
      /\ q.auth \in Auths
  BY DEF Relay!Request, Auths
<1>2. \A a \in Auths : [q EXCEPT !.auth = a] \in Relay!Request
  BY DEF Relay!Request, Auths
<1>3. Relay!Rewritten(q) \in Relay!Request
  <2> DEFINE x == q.method = "PLAY" /\ camera.scaled
             y == q.session \/ session
             z == Relay!Authorization
             u == ~q.track
             p == [q EXCEPT !.relay = FALSE, !.range = u]
  <2>1. x \in BOOLEAN /\ y \in BOOLEAN /\ u \in BOOLEAN /\ z \in Auths
    BY AuthorizationType
  <2>2. Relay!Rewritten(q) = [p EXCEPT !.scale = x, !.session = y, !.auth = z]
    BY DEF Relay!Rewritten, Relay!rewriteURI
  <2> HIDE DEF x, y, z, u
  <2>3. p \in Relay!Request
    BY <2>1 DEF Relay!Request
  <2> HIDE DEF p
  <2>4. [p EXCEPT !.scale = x, !.session = y, !.auth = z] \in Relay!Request
    BY <2>1, <2>3 DEF Relay!Request, Auths
  <2> QED
    BY <2>2, <2>4
<1> QED
  BY <1>1, <1>2, <1>3

LEMMA FromFrontType ==
    ASSUME NEW m \in Relay!Method, NEW t \in BOOLEAN, NEW x \in BOOLEAN
    PROVE  Relay!FromFront(m, t, x) \in Relay!Request
BY DEF Relay!FromFront, Relay!NoRequest, Relay!Request, Relay!Method

LEMMA NothingType ==
    Relay!NoRequest \in Relay!Request /\ Relay!AnyCamera \in Relay!Camera
BY DEF Relay!NoRequest, Relay!Request, Relay!Method, Relay!AnyCamera, Relay!Camera

LEMMA ReturnType ==
    ASSUME Relay!Return
    PROVE  Relay!TypeOK'
BY NothingType DEF Relay!Return, Relay!TypeOK

LEMMA RelayTypes ==
    ASSUME Relay!TypeOK, [Relay!Next]_relay
    PROVE  Relay!TypeOK'
<1>1. CASE Relay!ReadFails \/ Relay!NvrFails \/ Relay!CopyEnds
  BY <1>1, ReturnType DEF Relay!ReadFails, Relay!NvrFails, Relay!CopyEnds
<1>2. CASE Relay!Accept
  BY <1>2 DEF Relay!Accept, Relay!TypeOK
<1>3. CASE Relay!Read
  <2>1. CASE Relay!Return
    BY <2>1, ReturnType
  <2>2. CASE ~Relay!Return
    <3>1. PICK m \in Relay!Method, t \in BOOLEAN, x \in BOOLEAN : req' = Relay!FromFront(m, t, x)
      BY <1>3, <2>2 DEF Relay!Read
    <3>2. req' \in Relay!Request
      BY <3>1, FromFrontType
    <3>3. /\ pc' \in {"dial", "send"} /\ answer' = 0
          /\ UNCHANGED <<camera, front, back, sent, nonce, session, copying, lapsed>>
      BY <1>3, <2>2 DEF Relay!Read, Relay!Ends
    <3> QED
      BY <3>2, <3>3 DEF Relay!TypeOK
  <2> QED
    BY <2>1, <2>2
<1>4. CASE Relay!Dial
  <2>1. CASE Relay!Return
    BY <2>1, ReturnType
  <2>2. CASE ~Relay!Return
    <3>1. UNCHANGED <<front, camera, req, sent, nonce, session, copying, lapsed, answer>>
      BY <1>4, <2>2 DEF Relay!Dial, Relay!Local
    <3>2. pc' = "send" /\ back' = "open"
      BY <1>4, <2>2 DEF Relay!Dial
    <3> QED
      BY <3>1, <3>2 DEF Relay!TypeOK
  <2> QED
    BY <2>1, <2>2
<1>5. CASE Relay!Send \/ Relay!Retry
  <2>1. sent' \in Relay!Request
    BY <1>5, RequestType DEF Relay!Send, Relay!Retry, Relay!TypeOK
  <2> QED
    <3>1. UNCHANGED <<camera, front, back, req, nonce, session, copying, answer>>
      BY <1>5 DEF Relay!Send, Relay!Retry, Relay!Ends
    <3>2. pc' \in {"wait", "wait2"}
      BY <1>5 DEF Relay!Send, Relay!Retry
    <3>3. lapsed' \in BOOLEAN
      <4>1. CASE Relay!Send
        BY <4>1 DEF Relay!Send
      <4>2. CASE Relay!Retry
        <5>1. lapsed' = lapsed /\ lapsed \in BOOLEAN
          BY <4>2 DEF Relay!Retry, Relay!TypeOK
        <5> QED
          BY <5>1
      <4> QED
        BY <1>5, <4>1, <4>2
    <3> QED
      BY <2>1, <3>1, <3>2, <3>3 DEF Relay!TypeOK
<1>6. CASE Relay!Challenged
  <2>1. nonce' = "known" /\ lapsed' = FALSE /\ pc' = "retry"
    BY <1>6 DEF Relay!Challenged
  <2>2. UNCHANGED <<camera, front, back, req, sent, session, copying, answer>>
    <3>1. UNCHANGED <<Relay!Ends, req, sent, session, copying, answer>>
      BY <1>6 DEF Relay!Challenged
    <3> QED
      BY <3>1 DEF Relay!Ends
  <2>3. lapsed' \in BOOLEAN
    BY <2>1
  <2>4. nonce' \in {"none", "known", "forgotten"}
        /\ pc' \in {"idle", "first", "dial", "send", "wait", "retry", "wait2", "read", "copy"}
    BY <2>1
  <2> QED
    BY <2>2, <2>3, <2>4 DEF Relay!TypeOK
<1>7. CASE Relay!Denied \/ Relay!Served
  <2>1. PICK status \in {200, 401, 500} : Relay!Relayed(status)
    BY <1>7 DEF Relay!Denied, Relay!Served
  <2>2. answer' = status /\ pc' \in {"copy", "read"}
    BY <2>1 DEF Relay!Relayed
  <2>3. copying' \subseteq {"up", "down"}
    <3>1. copying' = {"up", "down"} \/ copying' = copying
      BY <2>1 DEF Relay!Relayed
    <3>2. copying \subseteq {"up", "down"}
      BY DEF Relay!TypeOK
    <3>3. CASE copying' = {"up", "down"}
      BY <3>3
    <3>4. CASE copying' = copying
      BY <3>2, <3>4
    <3> QED
      BY <3>1, <3>3, <3>4
  <2>4. UNCHANGED <<camera, front, back, req, sent, nonce, lapsed>>
    BY <1>7 DEF Relay!Denied, Relay!Served, Relay!Ends
  <2>5. session' \in BOOLEAN
    <3>1. CASE Relay!Denied
      BY <3>1 DEF Relay!Denied, Relay!TypeOK
    <3>2. CASE Relay!Served
      BY <3>2 DEF Relay!Served
    <3> QED
      BY <1>7, <3>1, <3>2
  <2> QED
    BY <2>2, <2>3, <2>4, <2>5 DEF Relay!TypeOK
<1>8. CASE Relay!Forget
  <2>1. sent' \in Relay!Request
    <3>1. sent \in Relay!Request
      BY DEF Relay!TypeOK
    <3>2. (IF sent.auth = "valid" THEN "stale" ELSE sent.auth) \in Auths
      BY <3>1, RequestType DEF Auths
    <3> QED
      BY <1>8, <3>1, <3>2, RequestType DEF Relay!Forget
  <2> QED
    BY <1>8, <2>1 DEF Relay!Forget, Relay!Ends, Relay!TypeOK
<1>9. CASE Relay!UpEnds \/ Relay!DownEnds
  <2>1. UNCHANGED <<camera, front, back, pc, req, sent, nonce, session, lapsed, answer>>
    BY <1>9 DEF Relay!UpEnds, Relay!DownEnds, Relay!Ends
  <2>2. copying' \subseteq copying
    BY <1>9 DEF Relay!UpEnds, Relay!DownEnds
  <2> QED
    BY <2>1, <2>2 DEF Relay!TypeOK
<1>10. CASE Relay!FrontCloses \/ Relay!NvrCloses
  <2>1. UNCHANGED <<pc, camera, req, sent, nonce, session, copying, lapsed, answer>>
    BY <1>10 DEF Relay!FrontCloses, Relay!NvrCloses, Relay!Local
  <2>2. front' \in {"closed", front} /\ back' \in {"eof", back}
    BY <1>10 DEF Relay!FrontCloses, Relay!NvrCloses
  <2> QED
    BY <2>1, <2>2 DEF Relay!TypeOK
<1>11. CASE UNCHANGED relay
  BY <1>11 DEF relay, Relay!TypeOK
<1> QED
  BY <1>1, <1>2, <1>3, <1>4, <1>5, <1>6, <1>7, <1>8, <1>9, <1>10, <1>11 DEF Relay!Next

LEMMA OthersTyped ==
    /\ GateProofs!GateInv => Gate!TypeOK
    /\ LoggerProofs!LogInv => Logger!TypeOK
    /\ LdapProofs!DirInv => Ldap!TypeOK
<1>1. GateProofs!GateInv => Gate!TypeOK
  BY SameCardinality DEF GateProofs!GateInv, GateProofs!TypeOK, GateProofs!Entry,
                         Gate!TypeOK, Gate!Entry
<1>2. LoggerProofs!LogInv => Logger!TypeOK
  BY DEF LoggerProofs!LogInv, LoggerProofs!TypeOK, Logger!TypeOK
<1>3. LdapProofs!DirInv => Ldap!TypeOK
  BY DEF LdapProofs!DirInv, LdapProofs!TypeOK, LdapProofs!Call, Ldap!TypeOK, Ldap!Call
<1> QED
  BY <1>1, <1>2, <1>3

\* Every variable of every service keeps its type.
THEOREM ServicesTypeCorrect == Spec => []TypeOK
<1> DEFINE Focus == focus \in {"gate", "listing", "logger", "ldap", "relay"}
           Relayed == Focus /\ Relay!TypeOK
<1>1. Init => Relayed
  BY NothingType DEF Init, Relay!Init, Relay!TypeOK
<1>2. Relayed /\ [Next]_vars => Relayed'
  <2> SUFFICES ASSUME Relayed, [Next]_vars
               PROVE  Relayed'
    OBVIOUS
  <2>1. [Relay!Next]_relay /\ focus' = focus
    BY DEF Next, GateStep, ListingStep, LoggerStep, LdapStep, RelayStep, vars, relay
  <2> QED
    BY <2>1, RelayTypes
<1>3. Init => ListingInv
  BY ListingInit
<1>4. ListingInv /\ [Next]_vars => ListingInv'
  BY Apart, ListingStays
<1>5. Relayed /\ ListingInv /\ GateProofs!GateInv /\ LoggerProofs!LogInv /\ LdapProofs!DirInv
        => TypeOK
  BY OthersTyped DEF TypeOK, ListingInv
<1> QED
  BY <1>1, <1>2, <1>3, <1>4, <1>5, GateInductive, LoggerInductive, LdapInductive, PTL DEF Spec

-----------------------------------------------------------------------------
(* RelayConnection.  What the relay sends is set when it sends it and read  *)
(* when the answer comes: between the two the recorder may forget the nonce *)
(* and either end may close, and the retry may lie between.  The parts of   *)
(* the invariant say what each moment keeps of the ones before.             *)

\* A refusal is seen by go2rtc until it asks again, or until the connection
\* is closed, and it had one of the reasons.
RefusalReported ==
    /\ answer = 401 => pc = "read"
    /\ Relay!CredentialsWork

\* What the second answer will be about: the credentials were fresh.
RetryFresh ==
    /\ pc = "retry" => nonce = "known" \/ lapsed
    /\ pc = "wait2" => \/ sent.auth = "valid"
                       \/ ~camera.user \/ ~camera.accepted \/ lapsed

\* The request at the recorder is go2rtc's, with the session's own parts.
SentAsAsked ==
    pc \in {"wait", "wait2", "copy"} =>
        /\ ~sent.relay
        /\ sent.range = ~sent.track
        /\ sent.scale = (sent.method = "PLAY" /\ camera.scaled)
        /\ sent.session = session

RelayInv ==
    /\ Relay!TypeOK
    /\ RefusalReported
    /\ RetryFresh
    /\ SentAsAsked
    /\ req.session => session
    /\ pc = "copy" => sent.method = "PLAY"

LEMMA NothingAsked ==
    /\ Relay!NoRequest.session = FALSE
    /\ Relay!AnyCamera.scaled = FALSE
BY DEF Relay!NoRequest, Relay!AnyCamera

LEMMA IdleInv ==
    ASSUME Relay!TypeOK, pc = "idle", answer = 0, ~req.session
    PROVE  RelayInv
BY DEF RelayInv, RefusalReported, RetryFresh, SentAsAsked, Relay!CredentialsWork

\* What sendToNVR makes of a request.
LEMMA RewrittenSays ==
    ASSUME NEW q \in Relay!Request
    PROVE  /\ Relay!Rewritten(q).method = q.method
           /\ ~Relay!Rewritten(q).relay
           /\ Relay!Rewritten(q).track = q.track
           /\ Relay!Rewritten(q).range = ~q.track
           /\ Relay!Rewritten(q).scale = (q.method = "PLAY" /\ camera.scaled)
           /\ Relay!Rewritten(q).session = (q.session \/ session)
           /\ Relay!Rewritten(q).auth = Relay!Authorization
<1> DEFINE x == q.method = "PLAY" /\ camera.scaled
           y == q.session \/ session
           z == Relay!Authorization
           u == ~q.track
           p == [q EXCEPT !.relay = FALSE, !.range = u]
           r == [p EXCEPT !.scale = x, !.session = y, !.auth = z]
<1>1. Relay!Rewritten(q) = r
  BY DEF Relay!Rewritten, Relay!rewriteURI
<1>2. DOMAIN q = {"method", "relay", "track", "range", "scale", "session", "auth"}
  BY DEF Relay!Request
<1> HIDE DEF x, y, z, u
<1>3. /\ DOMAIN p = DOMAIN q
      /\ p.relay = FALSE /\ p.range = u
      /\ p.method = q.method /\ p.track = q.track
  BY <1>2
<1> HIDE DEF p
<1>4. /\ r.method = p.method /\ r.track = p.track
      /\ r.relay = p.relay /\ r.range = p.range
      /\ r.scale = x /\ r.session = y /\ r.auth = z
  BY <1>2, <1>3
<1> HIDE DEF r
<1>5. /\ r.method = q.method /\ r.track = q.track /\ ~r.relay /\ r.range = u
  BY <1>3, <1>4
<1> QED
  BY <1>1, <1>4, <1>5, Zenon DEF x, y, z, u

\* A nonce that expires changes nothing of the request but its worth.
LEMMA ForgetSays ==
    ASSUME NEW q \in Relay!Request, NEW a
    PROVE  LET r == [q EXCEPT !.auth = a]
           IN  /\ r.method = q.method /\ r.relay = q.relay /\ r.track = q.track
               /\ r.range = q.range /\ r.scale = q.scale /\ r.session = q.session
<1>1. DOMAIN q = {"method", "relay", "track", "range", "scale", "session", "auth"}
  BY DEF Relay!Request
<1> QED
  BY <1>1

LEMMA FromFrontSays ==
    ASSUME NEW m, NEW t, NEW x, session \in BOOLEAN, x \in BOOLEAN,
           Relay!FromFront(m, t, x).session
    PROVE  session
BY DEF Relay!FromFront, Relay!NoRequest

LEMMA ReturnStays ==
    ASSUME Relay!TypeOK, Relay!Return
    PROVE  RelayInv'
<1>1. Relay!TypeOK'
  BY ReturnType
<1>2. pc' = "idle" /\ answer' = 0 /\ req' = Relay!NoRequest
  BY DEF Relay!Return
<1>3. ~req'.session
  BY <1>2, NothingAsked
<1> QED
  BY <1>1, <1>2, <1>3 DEF RelayInv, RefusalReported, RetryFresh, SentAsAsked, Relay!CredentialsWork

LEMMA RelayStays ==
    ASSUME RelayInv, [Relay!Next]_relay
    PROVE  RelayInv'
<1>0. Relay!TypeOK' /\ Relay!TypeOK
  BY RelayTypes DEF RelayInv
<1> USE DEF RelayInv, RefusalReported, RetryFresh, SentAsAsked, Relay!CredentialsWork
<1>1. CASE Relay!Return
  BY <1>1, ReturnStays
<1>2. CASE Relay!Accept
  <2>1. /\ pc = "idle" /\ pc' = "first"
        /\ UNCHANGED <<req, sent, nonce, session, lapsed, answer>>
    BY <1>2 DEF Relay!Accept
  <2>2. answer # 401
    BY <2>1
  <2> QED
    BY <1>0, <2>1, <2>2
<1>3. CASE Relay!Read /\ ~Relay!Return
  <2>1. PICK m \in Relay!Method, t \in BOOLEAN, x \in BOOLEAN : req' = Relay!FromFront(m, t, x)
    BY <1>3 DEF Relay!Read
  <2>2. pc' \in {"dial", "send"} /\ answer' = 0 /\ session' = session
    BY <1>3 DEF Relay!Read
  <2>3. req'.session => session'
    BY <1>0, <2>1, <2>2, FromFrontSays DEF Relay!TypeOK
  <2> QED
    BY <1>0, <2>2, <2>3
<1>4. CASE Relay!Dial /\ ~Relay!Return
  <2>1. pc = "dial" /\ pc' = "send" /\ UNCHANGED <<req, session, answer>>
    BY <1>4 DEF Relay!Dial, Relay!Local
  <2> QED
    BY <1>0, <2>1
<1>5. CASE Relay!Send \/ Relay!Retry
  <2>1. /\ sent' = Relay!Rewritten(req)
        /\ UNCHANGED <<camera, req, nonce, session, answer>>
    BY <1>5 DEF Relay!Send, Relay!Retry, Relay!Ends
  <2>2. \/ pc = "send" /\ pc' = "wait"
        \/ pc = "retry" /\ pc' = "wait2" /\ lapsed' = lapsed
    BY <1>5 DEF Relay!Send, Relay!Retry
  <2>3. req \in Relay!Request
    BY <1>0 DEF Relay!TypeOK
  <2>4. SentAsAsked'
    <3>1. /\ ~sent'.relay /\ sent'.range = ~sent'.track
          /\ sent'.scale = (sent'.method = "PLAY" /\ camera'.scaled)
      BY <2>1, <2>3, RewrittenSays, Zenon
    <3>2. sent'.session = session'
      <4>1. sent'.session = (req.session \/ session)
        BY <2>1, <2>3, RewrittenSays, Zenon
      <4>2. (req.session => session) /\ session \in BOOLEAN
        BY <1>0 DEF Relay!TypeOK
      <4> QED
        BY <2>1, <4>1, <4>2
    <3> QED
      BY <3>1, <3>2
  <2>5. answer # 401
    BY <2>2
  <2>6. RetryFresh'
    <3>1. CASE pc = "retry"
      <4>1. sent'.auth = Relay!Authorization
        BY <2>1, <2>3, RewrittenSays
      <4>2. nonce = "known" \/ lapsed
        BY <3>1
      <4>3. nonce = "known" /\ camera.user /\ camera.accepted => Relay!Authorization = "valid"
        BY DEF Relay!Authorization
      <4> QED
        BY <2>1, <2>2, <3>1, <4>1, <4>2, <4>3
    <3>2. CASE pc = "send"
      BY <2>2, <3>2
    <3> QED
      BY <2>2, <3>1, <3>2
  <2> QED
    BY <1>0, <2>1, <2>2, <2>4, <2>5, <2>6
<1>6. CASE Relay!Challenged
  <2>1. /\ pc = "wait" /\ pc' = "retry" /\ nonce' = "known"
        /\ UNCHANGED <<req, session, answer>>
    BY <1>6 DEF Relay!Challenged
  <2> QED
    BY <1>0, <2>1
<1>7. CASE Relay!Denied
  <2>1. /\ pc \in {"wait", "wait2"} /\ pc' = "read"
        /\ camera.security # "open" /\ sent.auth # "valid"
        /\ pc = "wait2" \/ camera.security # "digest" \/ ~camera.user
        /\ UNCHANGED <<camera, req, sent, session, nonce, lapsed>>
    BY <1>7 DEF Relay!Denied, Relay!Waiting, Relay!Refuses, Relay!CanAnswer,
                Relay!Relayed, Relay!Ends
  <2>2. camera.security \in {"open", "basic", "digest"}
    BY <1>0 DEF Relay!TypeOK, Relay!Camera
  <2>3. Relay!CredentialsWork'
    BY <2>1, <2>2
  <2> QED
    BY <1>0, <2>1, <2>3
<1>8. CASE Relay!Served
  <2>1. PICK status \in {200, 500} : Relay!Relayed(status)
    BY <1>8 DEF Relay!Served
  <2>2. /\ pc \in {"wait", "wait2"}
        /\ session' = (session \/ sent.method = "SETUP")
        /\ UNCHANGED <<camera, req, sent, nonce, lapsed>>
    BY <1>8 DEF Relay!Served, Relay!Waiting, Relay!Ends
  <2>3. /\ answer' # 401
        /\ \/ pc' = "copy" /\ sent.method = "PLAY"
           \/ pc' = "read"
    BY <2>1 DEF Relay!Relayed
  <2>4. session \in BOOLEAN
    BY <1>0 DEF Relay!TypeOK
  <2>5. req'.session => session'
    BY <2>2, <2>4
  <2>6. SentAsAsked'
    <3>1. CASE pc' = "copy"
      <4>1. sent.method = "PLAY"
        BY <2>3, <3>1
      <4>2. session' = session
        BY <2>2, <2>4, <4>1
      <4>3. /\ ~sent.relay /\ sent.range = ~sent.track /\ sent.session = session
            /\ sent.scale = (sent.method = "PLAY" /\ camera.scaled)
        BY <2>2
      <4> QED
        BY <2>2, <4>2, <4>3
    <3>2. CASE pc' = "read"
      BY <3>2
    <3> QED
      BY <2>3, <3>1, <3>2
  <2> QED
    BY <1>0, <2>2, <2>3, <2>5, <2>6
<1>9. CASE Relay!Forget
  <2>1. /\ lapsed' = TRUE
        /\ UNCHANGED <<camera, pc, req, session, answer>>
        /\ sent' = [sent EXCEPT !.auth = IF sent.auth = "valid" THEN "stale" ELSE sent.auth]
    BY <1>9 DEF Relay!Forget, Relay!Ends
  <2>2. sent \in Relay!Request
    BY <1>0 DEF Relay!TypeOK
  <2>3. /\ sent'.method = sent.method /\ sent'.relay = sent.relay /\ sent'.track = sent.track
        /\ sent'.range = sent.range /\ sent'.scale = sent.scale /\ sent'.session = sent.session
    BY <2>1, <2>2, ForgetSays
  <2>4. SentAsAsked'
    BY <2>1, <2>3
  <2> QED
    BY <1>0, <2>1, <2>3, <2>4
<1>10. CASE Relay!UpEnds \/ Relay!DownEnds \/ Relay!FrontCloses \/ Relay!NvrCloses \/ UNCHANGED relay
  <2>1. UNCHANGED <<camera, pc, req, sent, nonce, session, lapsed, answer>>
    BY <1>10 DEF Relay!UpEnds, Relay!DownEnds, Relay!FrontCloses, Relay!NvrCloses, relay,
                 Relay!Ends, Relay!Local
  <2> QED
    BY <1>0, <2>1
<1>11. CASE Relay!ReadFails \/ Relay!NvrFails \/ Relay!CopyEnds
  BY <1>1, <1>11 DEF Relay!ReadFails, Relay!NvrFails, Relay!CopyEnds
<1> QED
  BY <1>1, <1>2, <1>3, <1>4, <1>5, <1>6, <1>7, <1>8, <1>9, <1>10, <1>11 DEF Relay!Next

LEMMA RelayInductive == Spec => []RelayInv
<1>1. Init => RelayInv
  BY NothingType, NothingAsked, IdleInv DEF Init, Relay!Init, Relay!TypeOK
<1>2. RelayInv /\ [Next]_vars => RelayInv'
  <2> SUFFICES ASSUME RelayInv, [Next]_vars
               PROVE  RelayInv'
    OBVIOUS
  <2>1. [Relay!Next]_relay
    BY DEF Next, GateStep, ListingStep, LoggerStep, LdapStep, RelayStep, vars, relay
  <2> QED
    BY <2>1, RelayStays
<1> QED
  BY <1>1, <1>2, PTL DEF Spec

\* go2rtc, which knows no credentials, is never refused while the relay has
\* some that the recorder accepts, unless the recorder asks for Basic or has
\* let the nonce expire between its challenge and the retry.
THEOREM RefusedWithReason == Spec => []CredentialsWork
<1>1. RelayInv => CredentialsWork
  BY DEF RelayInv, RefusalReported, CredentialsWork
<1> QED
  BY <1>1, RelayInductive, PTL

\* Whatever the connection has gone through before, what is copied is what
\* the session asks for: the PLAY that the recorder accepted had its speed,
\* its start time unless it named a track, and the recorder's own session.
THEOREM PlayedAsAsked == Spec => []PlayAsAsked
<1>1. RelayInv => PlayAsAsked
  <2> SUFFICES ASSUME RelayInv, pc = "copy"
               PROVE  /\ sent.method = "PLAY" /\ ~sent.relay
                      /\ sent.scale = camera.scaled
                      /\ sent.range \/ sent.track
                      /\ sent.session = session
    BY DEF PlayAsAsked, Relay!PlayAsAsked
  <2>1. SentAsAsked /\ sent.method = "PLAY" /\ camera.scaled \in BOOLEAN /\ sent.track \in BOOLEAN
    BY DEF RelayInv, Relay!TypeOK, Relay!Camera, Relay!Request
  <2> QED
    BY <2>1 DEF SentAsAsked
<1> QED
  BY <1>1, RelayInductive, PTL
=============================================================================
