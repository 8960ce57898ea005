-------------------------- MODULE DirectoryProofs --------------------------
(***************************************************************************)
(* Theorems of the LDAP client, for any number of calls and of connections  *)
(* that are open at the same time.                                          *)
(***************************************************************************)
EXTENDS Directory, TLAPS

-----------------------------------------------------------------------------
(* What a step does to the call that makes it.                              *)

PC == {"idle", "connect", "search", "reconnect", "dial", "attach", "bind", "rebind"}

Moves(p, pc, dialled) ==
    /\ call' \in [Calls -> Call]
    /\ \A q \in Calls \ {p} : call'[q] = call[q]
    /\ call'[p].pc = pc
    /\ call'[p].dialled = dialled

LEMMA SetMoves ==
    ASSUME TypeOK, NEW p \in Calls, NEW c \in Call, call' = [call EXCEPT ![p] = c]
    PROVE  Moves(p, c.pc, c.dialled)
BY DEF TypeOK, Moves

LEMMA IdleType == Idle \in Call /\ Idle.pc = "idle" /\ Idle.dialled = NoConn
BY DEF Idle, Call

LEMMA FreshType ==
    ASSUME NEW pc \in PC, NEW login \in BOOLEAN
    PROVE  /\ [Idle EXCEPT !.pc = pc] \in Call
           /\ [Idle EXCEPT !.pc = pc].pc = pc /\ [Idle EXCEPT !.pc = pc].dialled = NoConn
           /\ [Idle EXCEPT !.pc = pc, !.login = login] \in Call
           /\ [Idle EXCEPT !.pc = pc, !.login = login].pc = pc
           /\ [Idle EXCEPT !.pc = pc, !.login = login].dialled = NoConn
BY DEF Idle, Call, PC

LEMMA GotoMoves ==
    ASSUME TypeOK, NEW p \in Calls, NEW pc \in PC, Goto(p, pc)
    PROVE  Moves(p, pc, call[p].dialled)
<1> DEFINE c == [call[p] EXCEPT !.pc = pc]
<1>1. call[p] \in Call
  BY DEF TypeOK
<1>2. c \in Call /\ c.pc = pc /\ c.dialled = call[p].dialled
  BY <1>1 DEF Call, PC
<1>3. call' = [call EXCEPT ![p] = c]
  BY DEF Goto
<1> HIDE DEF c
<1> QED
  BY <1>2, <1>3, SetMoves

LEMMA ReturnMoves ==
    ASSUME TypeOK, NEW p \in Calls, Return(p)
    PROVE  Moves(p, "idle", NoConn)
BY IdleType, SetMoves DEF Return

LEMMA GiveUpMoves ==
    ASSUME TypeOK, NEW p \in Calls, GiveUp(p)
    PROVE  \E pc \in {"idle", "search"} : Moves(p, pc, NoConn)
<1>1. CASE Return(p)
  BY <1>1, ReturnMoves
<1>2. CASE call' = [call EXCEPT ![p] = [Idle EXCEPT !.pc = "search"]]
  <2> DEFINE c == [Idle EXCEPT !.pc = "search"]
  <2>1. "search" \in PC
    BY DEF PC
  <2>2. c \in Call /\ c.pc = "search" /\ c.dialled = NoConn
    BY <2>1, FreshType
  <2>3. call' = [call EXCEPT ![p] = c]
    BY <1>2
  <2> HIDE DEF c
  <2> QED
    BY <2>2, <2>3, SetMoves
<1> QED
  BY <1>1, <1>2 DEF GiveUp

-----------------------------------------------------------------------------
(* The invariant.                                                           *)

Holding == {"dial", "attach"}

\* Who dials has the mutex, and has replaced or found no connection.
MutexInv ==
    /\ \A p \in Calls : call[p].pc \in Holding <=> mu = p
    /\ mu # NoCall => conn = NoConn

\* An open connection is the shared one or the one being attached.
LinkInv ==
    /\ \A p \in Calls : call[p].pc = "attach" => call[p].dialled \in Conns
    /\ \A k \in Conns : link[k] # "closed" =>
          k = conn \/ \E p \in Calls : call[p].pc = "attach" /\ call[p].dialled = k

DirInv == TypeOK /\ MutexInv /\ LinkInv /\ ServiceWhenIdle

\* The steps of calls that neither hold the mutex nor use the connection.
Quiet(p) ==
    /\ \E pc \in PC \ Holding : \E d \in Conns \cup {NoConn} : Moves(p, pc, d)
    /\ call[p].pc \notin Holding
    /\ call[p].pc = "rebind" => conn = NoConn
    /\ UNCHANGED <<mu, Server>>

LEMMA QuietSteps ==
    ASSUME TypeOK, NEW p \in Calls,
           Begin(p) \/ Connected(p) \/ Found(p) \/ SearchFails(p) \/ Panic(p)
    PROVE  Quiet(p)
<1>pc. {"idle", "search", "connect", "reconnect", "bind", "rebind"} \subseteq PC \ Holding
  BY DEF PC, Holding
<1>c. call[p] \in Call
  BY DEF TypeOK
<1>d. call[p].dialled \in Conns \cup {NoConn}
  BY <1>c DEF Call
<1>1. CASE Begin(p)
  <2>1. PICK login \in BOOLEAN :
          call' = [call EXCEPT ![p] = [Idle EXCEPT !.pc = "connect", !.login = login]]
    BY <1>1 DEF Begin
  <2> DEFINE c == [Idle EXCEPT !.pc = "connect", !.login = login]
  <2>2. "connect" \in PC
    BY <1>pc
  <2>3. c \in Call /\ c.pc = "connect" /\ c.dialled = NoConn
    BY <2>2, FreshType
  <2>4. call' = [call EXCEPT ![p] = c]
    BY <2>1
  <2> HIDE DEF c
  <2>5. Moves(p, "connect", NoConn)
    BY <2>3, <2>4, SetMoves
  <2> QED
    BY <1>1, <1>pc, <2>5 DEF Begin, Quiet, At, Holding
<1>2. CASE Connected(p)
  <2>1. Moves(p, "search", call[p].dialled)
    BY <1>2, <1>pc, GotoMoves DEF Connected
  <2> QED
    BY <1>2, <1>pc, <1>d, <2>1 DEF Connected, Quiet, At, Holding
<1>3. CASE Found(p)
  <2>1. \E pc \in PC \ Holding : \E d \in Conns \cup {NoConn} : Moves(p, pc, d)
    <3>1. CASE Goto(p, "bind")
      BY <1>pc, <1>d, <3>1, GotoMoves
    <3>2. CASE call' = [call EXCEPT ![p].retried = FALSE]
      <4> DEFINE c == [call[p] EXCEPT !.retried = FALSE]
      <4>1. c \in Call /\ c.pc = call[p].pc /\ c.dialled = call[p].dialled
        BY <1>c DEF Call
      <4>2. call' = [call EXCEPT ![p] = c]
        BY <3>2
      <4> HIDE DEF c
      <4>3. Moves(p, "search", call[p].dialled)
        BY <1>3, <4>1, <4>2, SetMoves DEF Found, At
      <4> QED
        BY <1>pc, <1>d, <4>3
    <3>3. CASE Return(p)
      BY <1>pc, <3>3, ReturnMoves
    <3> QED
      BY <1>3, <3>1, <3>2, <3>3 DEF Found
  <2> QED
    BY <1>3, <2>1 DEF Found, Quiet, At, Holding
<1>4. CASE SearchFails(p)
  <2>1. \E pc \in PC \ Holding : \E d \in Conns \cup {NoConn} : Moves(p, pc, d)
    <3>1. CASE GiveUp(p)
      BY <1>pc, <3>1, GiveUpMoves
    <3>2. CASE call' = [call EXCEPT ![p].pc = "reconnect", ![p].retried = TRUE]
      <4> DEFINE c == [call[p] EXCEPT !.pc = "reconnect", !.retried = TRUE]
      <4>1. c \in Call /\ c.pc = "reconnect" /\ c.dialled = call[p].dialled
        BY <1>c DEF Call
      <4>2. call' = [call EXCEPT ![p] = c]
        BY <3>2 DEF TypeOK
      <4> HIDE DEF c
      <4>3. Moves(p, "reconnect", call[p].dialled)
        BY <4>1, <4>2, SetMoves
      <4> QED
        BY <1>pc, <1>d, <4>3
    <3> QED
      BY <1>4, <3>1, <3>2 DEF SearchFails
  <2> QED
    BY <1>4, <2>1 DEF SearchFails, Quiet, At, Holding
<1>5. CASE Panic(p)
  <2>1. Moves(p, "idle", NoConn)
    BY <1>5, ReturnMoves DEF Panic
  <2> QED
    BY <1>5, <1>pc, <2>1 DEF Panic, Quiet, Holding
<1> QED
  BY <1>1, <1>2, <1>3, <1>4, <1>5

LEMMA QuietInv ==
    ASSUME DirectoryAssumption, DirInv, NEW p \in Calls, Quiet(p)
    PROVE  DirInv'
<1>1. PICK pc \in PC \ Holding, d \in Conns \cup {NoConn} : Moves(p, pc, d)
  BY DEF Quiet
<1>2. UNCHANGED <<conn, mu, link, bound>>
  BY DEF Quiet, Server
<1>3. TypeOK'
  BY <1>1, <1>2 DEF DirInv, TypeOK, Moves
<1>4. MutexInv'
  BY <1>1, <1>2 DEF DirInv, MutexInv, Moves, Quiet
<1>5. LinkInv'
  <2>1. call'[p].pc # "attach" /\ call[p].pc # "attach"
    BY <1>1 DEF Moves, Holding, Quiet
  <2> QED
    BY <1>1, <1>2, <2>1 DEF DirInv, LinkInv, Moves
<1>6. ServiceWhenIdle'
  BY <1>1, <1>2 DEF DirInv, ServiceWhenIdle, Moves, Quiet, At
<1> QED
  BY <1>3, <1>4, <1>5, <1>6 DEF DirInv

-----------------------------------------------------------------------------
(* The steps of the holder of the mutex.                                    *)

LEMMA TakeInv ==
    ASSUME DirectoryAssumption, DirInv, NEW p \in Calls, Connect(p) \/ Reconnect(p)
    PROVE  DirInv'
<1>0. TypeOK /\ MutexInv /\ LinkInv
  BY DEF DirInv
<1>pc. "dial" \in PC
  BY DEF PC
<1>1. Moves(p, "dial", call[p].dialled)
  BY <1>0, <1>pc, GotoMoves DEF Connect, Reconnect
<1>2. /\ mu = NoCall /\ mu' = p /\ p # NoCall /\ conn' = NoConn /\ bound' = bound
      /\ link' = [k \in Conns |-> IF k = conn THEN "closed" ELSE link[k]]
  BY <1>0 DEF Connect, Reconnect, Server, DirectoryAssumption, TypeOK
<1>3. TypeOK'
  BY <1>0, <1>1, <1>2 DEF TypeOK, Moves
<1>4. \A q \in Calls : call[q].pc \notin Holding
  BY <1>0, <1>2 DEF MutexInv, DirectoryAssumption
<1>5. MutexInv'
  <2>1. "dial" \in Holding
    BY DEF Holding
  <2> QED
    BY <1>1, <1>2, <1>4, <2>1 DEF MutexInv, Moves
<1>6. LinkInv'
  <2>1. \A q \in Calls : call'[q].pc # "attach"
    BY <1>1, <1>4 DEF Moves, Holding
  <2>2. \A k \in Conns : link'[k] = "closed"
    BY <1>0, <1>2, <1>4 DEF LinkInv, Holding
  <2> QED
    BY <2>1, <2>2 DEF LinkInv
<1>7. ServiceWhenIdle'
  BY <1>2 DEF ServiceWhenIdle
<1> QED
  BY <1>3, <1>5, <1>6, <1>7 DEF DirInv

LEMMA DialInv ==
    ASSUME DirectoryAssumption, DirInv, NEW p \in Calls, Dial(p)
    PROVE  DirInv'
<1>0. TypeOK /\ MutexInv /\ LinkInv
  BY DEF DirInv
<1>1. PICK k \in Conns :
         /\ link' = [link EXCEPT ![k] = "up"]
         /\ bound' = [bound EXCEPT ![k] = "anonymous"]
         /\ call' = [call EXCEPT ![p].pc = "attach", ![p].dialled = k]
  BY DEF Dial
<1> DEFINE c == [call[p] EXCEPT !.pc = "attach", !.dialled = k]
<1>2. c \in Call /\ c.pc = "attach" /\ c.dialled = k
  BY <1>0 DEF TypeOK, Call
<1>3. call' = [call EXCEPT ![p] = c]
  BY <1>0, <1>1 DEF TypeOK
<1> HIDE DEF c
<1>4. Moves(p, "attach", k)
  BY <1>0, <1>2, <1>3, SetMoves
<1>5. call[p].pc = "dial" /\ mu = p /\ conn = NoConn /\ UNCHANGED <<conn, mu>>
  BY <1>0 DEF Dial, At, MutexInv, Holding, DirectoryAssumption
<1>6. TypeOK'
  BY <1>0, <1>1, <1>4, <1>5 DEF TypeOK, Moves
<1>7. MutexInv'
  <2>1. "attach" \in Holding
    BY DEF Holding
  <2> QED
    BY <1>0, <1>4, <1>5, <2>1 DEF MutexInv, Moves
<1>8. LinkInv'
  <2>1. \A q \in Calls \ {p} : call[q].pc # "attach" /\ call'[q].pc # "attach"
    BY <1>0, <1>4, <1>5 DEF MutexInv, Holding, Moves
  <2>2. \A j \in Conns \ {k} : link'[j] = "closed"
    BY <1>0, <1>1, <1>5, <2>1 DEF LinkInv, TypeOK, DirectoryAssumption
  <2> QED
    BY <1>4, <2>1, <2>2 DEF LinkInv, Moves
<1>9. ServiceWhenIdle'
  BY <1>5 DEF ServiceWhenIdle
<1> QED
  BY <1>6, <1>7, <1>8, <1>9 DEF DirInv

LEMMA AttachInv ==
    ASSUME DirectoryAssumption, DirInv, NEW p \in Calls, Attach(p)
    PROVE  DirInv'
<1>0. TypeOK /\ MutexInv /\ LinkInv
  BY DEF DirInv
<1> DEFINE k == call[p].dialled
           c == [call[p] EXCEPT !.pc = "search", !.dialled = NoConn]
<1>1. call[p].pc = "attach" /\ mu = p /\ k \in Conns
  BY <1>0 DEF Attach, At, MutexInv, Holding, LinkInv
<1>2. /\ bound' = [bound EXCEPT ![k] = "service"] /\ conn' = k /\ mu' = NoCall /\ link' = link
      /\ call' = [call EXCEPT ![p].pc = "search", ![p].dialled = NoConn]
  BY DEF Attach
<1>3. c \in Call /\ c.pc = "search" /\ c.dialled = NoConn
  BY <1>0 DEF TypeOK, Call
<1>4. call' = [call EXCEPT ![p] = c]
  BY <1>0, <1>2 DEF TypeOK
<1> HIDE DEF c
<1>5. Moves(p, "search", NoConn)
  BY <1>0, <1>3, <1>4, SetMoves
<1> HIDE DEF k
<1>6. TypeOK'
  BY <1>0, <1>1, <1>2, <1>5 DEF TypeOK, Moves
<1>7. \A q \in Calls : call'[q].pc \notin Holding
  BY <1>0, <1>1, <1>5 DEF MutexInv, Moves, Holding
<1>8. MutexInv'
  BY <1>2, <1>7 DEF MutexInv, DirectoryAssumption
<1>9. LinkInv'
  <2>1. \A q \in Calls : call'[q].pc # "attach"
    BY <1>7 DEF Holding
  <2>2. \A j \in Conns : link'[j] # "closed" => j = k
    BY <1>0, <1>1, <1>2 DEF LinkInv, MutexInv, Holding, DirectoryAssumption, TypeOK, k
  <2> QED
    BY <1>2, <2>1, <2>2 DEF LinkInv
<1>10. ServiceWhenIdle'
  BY <1>0, <1>1, <1>2 DEF ServiceWhenIdle, TypeOK
<1> QED
  BY <1>6, <1>8, <1>9, <1>10 DEF DirInv

LEMMA FailsInv ==
    ASSUME DirectoryAssumption, DirInv, NEW p \in Calls, DialFails(p) \/ AttachFails(p)
    PROVE  DirInv'
<1>0. TypeOK /\ MutexInv /\ LinkInv
  BY DEF DirInv
<1>1. PICK pc \in {"idle", "search"} : Moves(p, pc, NoConn)
  BY <1>0, GiveUpMoves DEF DialFails, AttachFails
<1>2. call[p].pc \in Holding /\ mu = p
  BY <1>0 DEF DialFails, AttachFails, At, MutexInv, Holding
<1>3. mu' = NoCall /\ conn = NoConn /\ conn' = NoConn /\ bound' = bound
  BY <1>0, <1>2 DEF DialFails, AttachFails, Server, MutexInv, DirectoryAssumption
<1>4. /\ link' \in [Conns -> {"closed", "up", "broken"}]
      /\ \A j \in Conns : link'[j] = "closed"
  <2>1. \A q \in Calls \ {p} : call[q].pc # "attach"
    BY <1>0, <1>2 DEF MutexInv, Holding
  <2>2. CASE DialFails(p)
    BY <1>0, <1>3, <2>1, <2>2
    DEF DialFails, At, Server, LinkInv, DirectoryAssumption, TypeOK
  <2>3. CASE AttachFails(p)
    BY <1>0, <1>3, <2>1, <2>3 DEF AttachFails, At, LinkInv, DirectoryAssumption, TypeOK
  <2> QED
    BY <2>2, <2>3
<1>5. TypeOK'
  BY <1>0, <1>1, <1>3, <1>4 DEF TypeOK, Moves
<1>6. \A q \in Calls : call'[q].pc \notin Holding
  BY <1>0, <1>1, <1>2 DEF MutexInv, Moves, Holding
<1>7. MutexInv'
  BY <1>3, <1>6 DEF MutexInv, DirectoryAssumption
<1>8. LinkInv'
  BY <1>4, <1>6 DEF LinkInv, Holding
<1>9. ServiceWhenIdle'
  BY <1>3 DEF ServiceWhenIdle
<1> QED
  BY <1>5, <1>7, <1>8, <1>9 DEF DirInv

-----------------------------------------------------------------------------
(* The two binds of a login.                                                *)

LEMMA BindType ==
    ASSUME DirectoryAssumption, TypeOK, NEW who \in {"anonymous", "service", "user"}, BindAs(who)
    PROVE  /\ bound' \in [Conns -> {"anonymous", "service", "user"}]
           /\ conn \in Conns /\ link[conn] = "up" => bound'[conn] = who
           /\ UNCHANGED <<conn, mu, link>>
BY DEF DirectoryAssumption, TypeOK, BindAs

LEMMA BindInv ==
    ASSUME DirectoryAssumption, DirInv, NEW p \in Calls, BindUser(p) \/ Rebind(p)
    PROVE  DirInv'
<1>0. TypeOK /\ MutexInv /\ LinkInv
  BY DEF DirInv
<1>1. call[p].pc \notin Holding
  BY DEF BindUser, Rebind, At, Holding
<1>2. PICK who \in {"anonymous", "service", "user"} :
         /\ BindAs(who)
         /\ Rebind(p) => who = "service"
  BY DEF BindUser, Rebind, At
<1>3. /\ bound' \in [Conns -> {"anonymous", "service", "user"}]
      /\ conn \in Conns /\ link[conn] = "up" => bound'[conn] = who
      /\ UNCHANGED <<conn, mu, link>>
  BY <1>0, <1>2, BindType
<1>4. /\ BindUser(p) => Moves(p, "rebind", call[p].dialled)
      /\ Rebind(p) => Moves(p, "idle", NoConn)
  <2>1. "rebind" \in PC
    BY DEF PC
  <2> QED
    BY <1>0, <2>1, GotoMoves, ReturnMoves DEF BindUser, Rebind
<1>5. TypeOK'
  BY <1>0, <1>3, <1>4 DEF TypeOK, Moves
<1>6. /\ \A q \in Calls \ {p} : call'[q] = call[q]
      /\ call'[p].pc \notin Holding
  BY <1>4 DEF Moves, Holding
<1>7. MutexInv'
  BY <1>0, <1>1, <1>3, <1>6 DEF MutexInv
<1>8. LinkInv'
  <2>1. call'[p].pc # "attach" /\ call[p].pc # "attach"
    BY <1>1, <1>6 DEF Holding
  <2> QED
    BY <1>0, <1>3, <1>6, <2>1 DEF LinkInv
<1>9. ServiceWhenIdle'
  <2>1. CASE BindUser(p)
    BY <1>4, <2>1 DEF ServiceWhenIdle, Moves, At
  <2>2. CASE Rebind(p)
    BY <1>0, <1>2, <1>3, <2>2 DEF ServiceWhenIdle, TypeOK
  <2> QED
    BY <2>1, <2>2
<1> QED
  BY <1>5, <1>7, <1>8, <1>9 DEF DirInv

-----------------------------------------------------------------------------
LEMMA DirInit ==
    ASSUME DirectoryAssumption, Init
    PROVE  DirInv
<1>1. TypeOK
  BY IdleType DEF Init, TypeOK
<1>2. MutexInv
  BY IdleType DEF Init, MutexInv, Holding, DirectoryAssumption
<1>3. LinkInv /\ ServiceWhenIdle
  BY IdleType DEF Init, LinkInv, ServiceWhenIdle
<1> QED
  BY <1>1, <1>2, <1>3 DEF DirInv

LEMMA DirStep ==
    ASSUME DirectoryAssumption, DirInv, [Next]_dirVars
    PROVE  DirInv'
<1>0. TypeOK /\ MutexInv /\ LinkInv /\ ServiceWhenIdle
  BY DEF DirInv
<1>1. ASSUME NEW p \in Calls,
             Begin(p) \/ Connected(p) \/ Found(p) \/ SearchFails(p) \/ Panic(p)
      PROVE  DirInv'
  BY <1>0, <1>1, QuietSteps, QuietInv
<1>2. ASSUME NEW p \in Calls,
             \/ Connect(p) \/ Reconnect(p) \/ Dial(p) \/ DialFails(p)
             \/ Attach(p) \/ AttachFails(p) \/ BindUser(p) \/ Rebind(p)
      PROVE  DirInv'
  BY <1>2, TakeInv, DialInv, AttachInv, FailsInv, BindInv
<1>3. ASSUME NEW k \in Conns, Break(k)
      PROVE  DirInv'
  <2>1. link[k] = "up" /\ link' = [link EXCEPT ![k] = "broken"]
        /\ UNCHANGED <<conn, mu, bound, call>>
    BY <1>3 DEF Break
  <2>2. TypeOK'
    BY <1>0, <2>1 DEF TypeOK
  <2>3. MutexInv'
    BY <1>0, <2>1 DEF MutexInv
  <2>4. LinkInv'
    BY <1>0, <2>1 DEF LinkInv, TypeOK
  <2>5. ServiceWhenIdle'
    BY <1>0, <2>1 DEF ServiceWhenIdle, TypeOK, At
  <2> QED
    BY <2>2, <2>3, <2>4, <2>5 DEF DirInv
<1>4. CASE UNCHANGED dirVars
  BY <1>0, <1>4 DEF DirInv, TypeOK, MutexInv, LinkInv, ServiceWhenIdle, At, dirVars
<1> QED
  BY <1>1, <1>2, <1>3, <1>4 DEF Next

\* An open connection is the shared one or the holder's, and there is one holder.
LEMMA OneAtATime ==
    ASSUME DirectoryAssumption, DirInv
    PROVE  OneConnection
<1> SUFFICES ASSUME NEW j \in Conns, NEW k \in Conns, link[j] # "closed", link[k] # "closed"
             PROVE  j = k
  BY DEF OneConnection
<1>1. \A p, q \in Calls : call[p].pc = "attach" /\ call[q].pc = "attach" => p = q
  BY DEF DirInv, MutexInv, Holding
<1>2. (\E p \in Calls : call[p].pc = "attach") => conn = NoConn
  BY DEF DirInv, MutexInv, Holding, DirectoryAssumption
<1>3. j # NoConn /\ k # NoConn
  BY DEF DirectoryAssumption
<1> QED
  BY <1>1, <1>2, <1>3 DEF DirInv, LinkInv

\* The connection, the mutex and the locals of calls keep their types.
THEOREM DirectoryTypeCorrect ==
    ASSUME DirectoryAssumption
    PROVE  Spec => []TypeOK
<1>1. DirInv => TypeOK
  BY DEF DirInv
<1>2. Init => DirInv
  BY DirInit
<1>3. DirInv /\ [Next]_dirVars => DirInv'
  BY DirStep
<1> QED
  BY <1>1, <1>2, <1>3, PTL DEF Spec

\* Between logins the shared connection is the service account's, for any
\* number of calls, refusals, breaks and reconnects.
THEOREM ServiceBetweenLogins ==
    ASSUME DirectoryAssumption
    PROVE  Spec => []ServiceWhenIdle
<1>1. DirInv => ServiceWhenIdle
  BY DEF DirInv
<1>2. Init => DirInv
  BY DirInit
<1>3. DirInv /\ [Next]_dirVars => DirInv'
  BY DirStep
<1> QED
  BY <1>1, <1>2, <1>3, PTL DEF Spec

\* No reconnect leaks a connection.
THEOREM OneOpen ==
    ASSUME DirectoryAssumption
    PROVE  Spec => []OneConnection
<1>1. DirInv => OneConnection
  BY OneAtATime
<1>2. Init => DirInv
  BY DirInit
<1>3. DirInv /\ [Next]_dirVars => DirInv'
  BY DirStep
<1> QED
  BY <1>1, <1>2, <1>3, PTL DEF Spec
=============================================================================
