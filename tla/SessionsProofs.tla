--------------------------- MODULE SessionsProofs ---------------------------
(***************************************************************************)
(* Theorems of the login sessions, for any users, requests and tokens and   *)
(* whatever table an earlier run of the program has left.                   *)
(***************************************************************************)
EXTENDS Sessions, FiniteSetTheorems, TLAPS

-----------------------------------------------------------------------------
(* What a step of request r does to the requests and to the table.          *)

Owners == Users \cup {NoUser}
Identities == Users \cup Kiosks \cup {NoUser}

Only(r) ==
    /\ req' \in [Requests -> Request]
    /\ \A s \in Requests \ {r} : req'[s] = req[s]

\* r goes on with the same session and the same identity.
Stays(r, pc) ==
    /\ Only(r)
    /\ req'[r].pc = pc
    /\ req'[r].tok = req[r].tok
    /\ req'[r].data.user = req[r].data.user
    /\ req'[r].who = req[r].who
    /\ req'[r].locked = req[r].locked

Ends(r) == Only(r) /\ req'[r] = Idle

\* Rows may disappear and nothing else happens to them.
Deletes ==
    /\ store' \in [Tokens -> Row \cup {NoRow}]
    /\ \A t \in Tokens : store'[t] \in {store[t], NoRow}
    /\ UNCHANGED owner

LEMMA RequestFields ==
    ASSUME NEW q \in Request
    PROVE  /\ q.pc \in PC /\ q.tok \in Tokens \cup {NoToken} /\ q.data \in Row
           /\ q.data.user \in Owners /\ q.data.csrf \in BOOLEAN
           /\ q.who \in Identities /\ q.locked \in BOOLEAN
BY DEF Request, Row, Owners, Identities

LEMMA EmptyType == Empty \in Row /\ Empty.user = NoUser
BY DEF Empty, Row

LEMMA IdleType ==
    /\ Idle \in Request
    /\ Idle.pc = "idle" /\ Idle.tok = NoToken /\ Idle.data = Empty
    /\ Idle.data.user = NoUser /\ Idle.who = NoUser /\ Idle.locked = FALSE
<1>1. "idle" \in PC
  BY DEF PC
<1> QED
  BY <1>1, EmptyType DEF Idle, Request

LEMMA SetOnly ==
    ASSUME TypeOK, NEW r \in Requests, NEW q \in Request, Set(r, q)
    PROVE  Only(r) /\ req'[r] = q
BY DEF TypeOK, Set, Only

LEMMA ReturnEnds ==
    ASSUME TypeOK, NEW r \in Requests, Return(r)
    PROVE  Ends(r)
BY IdleType, SetOnly DEF Return, Ends

LEMMA GotoStays ==
    ASSUME TypeOK, NEW r \in Requests, NEW pc \in PC, Goto(r, pc)
    PROVE  Stays(r, pc)
<1> DEFINE q == [req[r] EXCEPT !.pc = pc]
<1>1. req[r] \in Request
  BY DEF TypeOK
<1>2. q \in Request /\ q.pc = pc /\ q.tok = req[r].tok /\ q.data = req[r].data
      /\ q.who = req[r].who /\ q.locked = req[r].locked
  BY <1>1 DEF Request
<1>3. Set(r, q)
  BY DEF Goto
<1> HIDE DEF q
<1> QED
  BY <1>2, <1>3, SetOnly DEF Stays

LEMMA WithoutDeletes ==
    ASSUME TypeOK, NEW t, store' = Without(t), UNCHANGED owner
    PROVE  Deletes
BY DEF TypeOK, Without, Deletes

LEMMA TablesDelete ==
    ASSUME TypeOK, UNCHANGED Tables
    PROVE  Deletes
BY DEF TypeOK, Tables, Deletes

-----------------------------------------------------------------------------
(* The steps, one lemma for each kind.                                      *)

\* Begin: what the request then holds.
Begins(r) ==
    /\ Only(r)
    /\ req[r].pc = "idle"
    /\ req'[r].pc = "gate"
    /\ \/ req'[r].tok = NoToken /\ req'[r].data.user = NoUser
       \/ /\ req'[r].tok \in Tokens /\ store[req'[r].tok] # NoRow
          /\ req'[r].data.user = store[req'[r].tok].user
    /\ req'[r].locked = lockout

LEMMA BeginBegins ==
    ASSUME TypeOK, NEW r \in Requests, Begin(r)
    PROVE  Begins(r) /\ Deletes
<1>1. PICK t \in {u \in Tokens : store[u] # NoRow} \cup {NoToken} :
        \E who \in {(IF t = NoToken THEN Empty ELSE store[t]).user} \cup Kiosks :
          Set(r, [pc |-> "gate", tok |-> t, data |-> IF t = NoToken THEN Empty ELSE store[t],
                  who |-> who, locked |-> lockout])
  BY DEF Begin
<1> DEFINE data == IF t = NoToken THEN Empty ELSE store[t]
<1>2. PICK who \in {data.user} \cup Kiosks :
        Set(r, [pc |-> "gate", tok |-> t, data |-> data, who |-> who, locked |-> lockout])
  BY <1>1
<1>3. data \in Row /\ (t = NoToken => data.user = NoUser)
      /\ (t # NoToken => t \in Tokens /\ store[t] # NoRow /\ data = store[t])
  BY EmptyType DEF TypeOK
<1> HIDE DEF data
<1>4. who \in Identities
  BY <1>3 DEF Row, Identities
<1> DEFINE q == [pc |-> "gate", tok |-> t, data |-> data, who |-> who, locked |-> lockout]
<1>5. "gate" \in PC
  BY DEF PC
<1>6. q \in Request
  BY <1>3, <1>4, <1>5 DEF Request, Identities, TypeOK
<1>7. q.pc = "gate" /\ q.tok = t /\ q.data = data /\ q.locked = lockout
  OBVIOUS
<1>8. Set(r, q)
  BY <1>2
<1> HIDE DEF q
<1>9. Only(r) /\ req'[r] = q
  BY <1>6, <1>8, SetOnly
<1>10. req[r].pc = "idle"
  BY DEF Begin, At
<1>11. Deletes
  BY TablesDelete DEF Begin
<1> QED
  BY <1>3, <1>7, <1>9, <1>10, <1>11 DEF Begins

LEMMA MakeCSRFStays ==
    ASSUME TypeOK, NEW r \in Requests, MakeCSRF(r)
    PROVE  Stays(r, "commit")
<1> DEFINE q == [req[r] EXCEPT !.pc = "commit", !.data.csrf = TRUE]
<1>1. req[r] \in Request /\ "commit" \in PC
  BY DEF TypeOK, PC
<1>2. q \in Request /\ q.pc = "commit" /\ q.tok = req[r].tok /\ q.data.user = req[r].data.user
      /\ q.who = req[r].who /\ q.locked = req[r].locked
  BY <1>1 DEF Request, Row
<1>3. Set(r, q)
  BY DEF MakeCSRF
<1> HIDE DEF q
<1> QED
  BY <1>2, <1>3, SetOnly DEF Stays

\* Accept: only the identity changes.
Accepts(r) ==
    /\ Only(r)
    /\ req'[r].pc = "renew"
    /\ req'[r].tok = req[r].tok
    /\ req'[r].data.user = req[r].data.user
    /\ req'[r].who \in Users /\ ~Barred(req'[r].who)
    /\ req'[r].locked = req[r].locked

LEMMA AcceptAccepts ==
    ASSUME TypeOK, NEW r \in Requests, Accept(r)
    PROVE  Accepts(r)
<1>1. PICK u \in Users : ~Barred(u) /\ Set(r, [req[r] EXCEPT !.pc = "renew", !.who = u])
  BY DEF Accept
<1> DEFINE q == [req[r] EXCEPT !.pc = "renew", !.who = u]
<1>2. req[r] \in Request /\ "renew" \in PC
  BY DEF TypeOK, PC
<1>3. q \in Request /\ q.pc = "renew" /\ q.tok = req[r].tok /\ q.data = req[r].data
      /\ q.who = u /\ q.locked = req[r].locked
  BY <1>2 DEF Request
<1>4. Set(r, q)
  BY <1>1
<1> HIDE DEF q
<1> QED
  BY <1>1, <1>3, <1>4, SetOnly DEF Accepts

\* Renew: a session without a token, of the user who logs in.
Renews(r) ==
    /\ Only(r)
    /\ req'[r].pc = "commit"
    /\ req'[r].tok = NoToken
    /\ req'[r].data.user = req[r].who
    /\ req'[r].who = req[r].who
    /\ req'[r].locked = req[r].locked

LEMMA RenewRenews ==
    ASSUME TypeOK, NEW r \in Requests, req[r].who \in Users, Renew(r)
    PROVE  Renews(r) /\ Deletes
<1> DEFINE d == [user |-> req[r].who, csrf |-> FALSE]
           q == [req[r] EXCEPT !.pc = "commit", !.tok = NoToken, !.data = d]
<1>1. req[r] \in Request /\ "commit" \in PC
  BY DEF TypeOK, PC
<1>2. d \in Row /\ d.user = req[r].who
  BY DEF Row
<1>3. Set(r, q)
  BY DEF Renew
<1> HIDE DEF d
<1>4. q \in Request /\ q.pc = "commit" /\ q.tok = NoToken /\ q.data = d
      /\ q.who = req[r].who /\ q.locked = req[r].locked
  BY <1>1, <1>2 DEF Request
<1> HIDE DEF q
<1>5. Renews(r)
  BY <1>2, <1>3, <1>4, SetOnly DEF Renews
<1>6. Deletes
  BY WithoutDeletes DEF Renew
<1> QED
  BY <1>5, <1>6

\* Commit: the copy is stored under its token, or under a new one.
Stores(r, t) ==
    /\ Ends(r)
    /\ req[r].pc = "commit"
    /\ IF req[r].tok = NoToken THEN owner[t] = NoRow ELSE t = req[r].tok
    /\ store' \in [Tokens -> Row \cup {NoRow}]
    /\ store'[t] = req[r].data
    /\ \A u \in Tokens \ {t} : store'[u] = store[u]
    /\ owner' \in [Tokens -> Owners \cup {NoRow}]
    /\ owner'[t] = IF owner[t] = NoRow THEN req[r].data.user ELSE owner[t]
    /\ \A u \in Tokens \ {t} : owner'[u] = owner[u]

LEMMA CommitStores ==
    ASSUME TypeOK, NEW r \in Requests, Commit(r)
    PROVE  \E t \in Tokens : Stores(r, t)
<1>1. PICK t \in (IF req[r].tok = NoToken THEN Tokens \ Issued ELSE {req[r].tok}) :
         /\ store' = [store EXCEPT ![t] = req[r].data]
         /\ owner' = [owner EXCEPT ![t] = IF @ = NoRow THEN req[r].data.user ELSE @]
  BY DEF Commit
<1>2. req[r] \in Request
  BY DEF TypeOK
<1>3. req[r].data \in Row /\ req[r].data.user \in Owners /\ req[r].tok \in Tokens \cup {NoToken}
  BY <1>2, RequestFields
<1>4. t \in Tokens /\ (IF req[r].tok = NoToken THEN owner[t] = NoRow ELSE t = req[r].tok)
  BY <1>3 DEF Issued
<1>5. Ends(r) /\ req[r].pc = "commit"
  BY ReturnEnds DEF Commit, At
<1>6. store \in [Tokens -> Row \cup {NoRow}] /\ owner \in [Tokens -> Owners \cup {NoRow}]
  BY DEF TypeOK, Owners
<1>7. Stores(r, t)
  BY <1>1, <1>3, <1>4, <1>5, <1>6 DEF Stores
<1> QED
  BY <1>4, <1>7

-----------------------------------------------------------------------------
(* The type invariant, and what a step of a request amounts to.             *)

RenewInv == \A r \in Requests : req[r].pc = "renew" => req[r].who \in Users

TypeInv == TypeOK /\ RenewInv

Going(r, pc) ==
    /\ Stays(r, pc) /\ Deletes
    /\ req[r].pc \notin {"idle", "renew"}
    /\ pc \in {"commit", "login", "handler"}
    /\ pc = "handler" => ~Barred(req[r].who)
    /\ UNCHANGED Flags

Kills(r) ==
    /\ Stays(r, "purge") /\ Deletes
    /\ req[r].pc = "handler"
    /\ lockout' = TRUE /\ UNCHANGED purged

Purges(r) ==
    /\ Ends(r)
    /\ store' \in [Tokens -> {NoRow}] /\ UNCHANGED owner
    /\ purged' = lockout /\ UNCHANGED lockout

Lifts(r) ==
    /\ Deletes
    /\ req' \in [Requests -> Request]
    /\ \A s \in Requests :
          \/ req'[s] = Idle
          \/ /\ req'[s].pc = req[s].pc /\ req'[s].tok = req[s].tok
             /\ req'[s].data = req[s].data /\ req'[s].who = req[s].who
             /\ req'[s].locked = FALSE
    /\ lockout' = FALSE /\ purged' = FALSE

LEMMA LiftLifts ==
    ASSUME TypeOK, NEW r \in Requests, Lift(r)
    PROVE  Lifts(r)
<1> DEFINE f(s) == [req[s] EXCEPT !.locked = FALSE]
<1>1. ASSUME NEW s \in Requests
      PROVE  /\ f(s) \in Request
             /\ f(s).pc = req[s].pc /\ f(s).tok = req[s].tok /\ f(s).data = req[s].data
             /\ f(s).who = req[s].who /\ f(s).locked = FALSE
  BY DEF TypeOK, Request
<1>2. req' = [s \in Requests |-> IF s = r THEN Idle ELSE f(s)]
  BY DEF Lift
<1>3. Deletes
  BY TablesDelete DEF Lift
<1>4. lockout' = FALSE /\ purged' = FALSE
  BY DEF Lift
<1> HIDE DEF f
<1> QED
  BY <1>1, <1>2, <1>3, <1>4, IdleType DEF Lifts

\* Every step of a request is one of nine kinds.
Effect(r) ==
    \/ Begins(r) /\ Deletes /\ UNCHANGED Flags
    \/ Ends(r) /\ Deletes /\ UNCHANGED Flags
    \/ \E pc \in PC : Going(r, pc)
    \/ Kills(r)
    \/ Purges(r)
    \/ Lifts(r)
    \/ Accepts(r) /\ Deletes /\ req[r].pc = "login" /\ UNCHANGED Flags
    \/ Renews(r) /\ Deletes /\ req[r].pc = "renew" /\ UNCHANGED Flags
    \/ (\E t \in Tokens : Stores(r, t)) /\ UNCHANGED Flags

LEMMA StepEffect ==
    ASSUME TypeInv, NEW r \in Requests, Step(r)
    PROVE  Effect(r)
<1>0. TypeOK
  BY DEF TypeInv
<1>pc. {"commit", "login", "handler", "purge"} \subseteq PC
  BY DEF PC
<1>1. CASE Begin(r)
  BY <1>0, <1>1, BeginBegins DEF Effect, Begin
<1>2. CASE Answer(r)
  BY <1>0, <1>2, ReturnEnds, TablesDelete DEF Effect, Answer
<1>3. CASE Redirect(r)
  <2>1. Stays(r, "commit") /\ Deletes
    BY <1>0, <1>3, <1>pc, GotoStays, TablesDelete DEF Redirect
  <2> QED
    BY <1>3, <1>pc, <2>1 DEF Effect, Going, Redirect, At
<1>4. CASE Evict(r)
  BY <1>0, <1>4, ReturnEnds, WithoutDeletes DEF Effect, Evict
<1>5. CASE Admit(r)
  <2>1. Stays(r, "handler") /\ Deletes
    BY <1>0, <1>5, <1>pc, GotoStays, TablesDelete DEF Admit
  <2> QED
    BY <1>5, <1>pc, <2>1 DEF Effect, Going, Admit, At
<1>6. CASE MakeCSRF(r)
  <2>1. Stays(r, "commit") /\ Deletes
    BY <1>0, <1>6, MakeCSRFStays, TablesDelete DEF MakeCSRF
  <2> QED
    BY <1>6, <1>pc, <2>1 DEF Effect, Going, MakeCSRF, Handler, At
<1>7. CASE Impersonate(r)
  <2>1. Stays(r, "commit") /\ Deletes
    BY <1>0, <1>7, <1>pc, GotoStays, TablesDelete DEF Impersonate
  <2> QED
    BY <1>7, <1>pc, <2>1 DEF Effect, Going, Impersonate, AdminHandler, Handler, At
<1>8. CASE Logout(r)
  BY <1>0, <1>8, ReturnEnds, WithoutDeletes DEF Effect, Logout
<1>9. CASE Kill(r)
  <2>1. Stays(r, "purge") /\ Deletes
    BY <1>0, <1>9, <1>pc, GotoStays, TablesDelete DEF Kill
  <2> QED
    BY <1>9, <2>1 DEF Effect, Kills, Kill, AdminHandler, Handler, At
<1>10. CASE PurgeSessions(r)
  <2>1. Ends(r)
    BY <1>0, <1>10, ReturnEnds DEF PurgeSessions
  <2> QED
    BY <1>10, <2>1 DEF Effect, Purges, PurgeSessions
<1>11. CASE Lift(r)
  BY <1>0, <1>11, LiftLifts DEF Effect
<1>12. CASE PostLogin(r)
  <2>1. Stays(r, "login") /\ Deletes
    BY <1>0, <1>12, <1>pc, GotoStays, TablesDelete DEF PostLogin
  <2> QED
    BY <1>12, <1>pc, <2>1 DEF Effect, Going, PostLogin, At
<1>13. CASE Accept(r)
  BY <1>0, <1>13, AcceptAccepts, TablesDelete DEF Effect, Accept, At
<1>14. CASE Renew(r)
  <2>1. req[r].pc = "renew" /\ req[r].who \in Users
    BY <1>14 DEF Renew, At, TypeInv, RenewInv
  <2> QED
    BY <1>0, <1>14, <2>1, RenewRenews DEF Effect, Renew
<1>15. CASE Commit(r)
  BY <1>0, <1>15, CommitStores DEF Effect, Commit
<1> QED
  BY <1>1, <1>2, <1>3, <1>4, <1>5, <1>6, <1>7, <1>8, <1>9, <1>10, <1>11, <1>12, <1>13,
     <1>14, <1>15 DEF Step

\* The steps that are no request's.
LEMMA ExpireDeletes ==
    ASSUME TypeOK, NEW t \in Tokens, Expire(t)
    PROVE  Deletes /\ UNCHANGED <<req, Flags>>
BY WithoutDeletes DEF Expire

LEMMA RebootClears ==
    ASSUME TypeOK, Reboot
    PROVE  /\ Deletes
           /\ req' \in [Requests -> Request] /\ \A r \in Requests : req'[r] = Idle
           /\ lockout' = FALSE /\ purged' = FALSE
BY TablesDelete, IdleType DEF Reboot

LEMMA TypeInit ==
    ASSUME Init
    PROVE  TypeInv
<1>1. TypeOK
  BY SessionsAssumption, IdleType DEF Init, TypeOK, Row
<1> QED
  BY <1>1, IdleType DEF TypeInv, RenewInv, Init

LEMMA TypeStep ==
    ASSUME TypeInv, [Next]_vars
    PROVE  TypeInv'
<1>0. TypeOK /\ RenewInv
  BY DEF TypeInv
<1>own. owner \in [Tokens -> Users \cup {NoUser, NoRow}]
  BY <1>0 DEF TypeOK
<1>1. ASSUME NEW r \in Requests, Step(r)
      PROVE  TypeInv'
  <2>0. Effect(r)
    BY <1>1, StepEffect
  <2>1. req' \in [Requests -> Request]
    BY <2>0 DEF Effect, Begins, Ends, Going, Kills, Purges, Lifts, Accepts, Renews, Stores,
                Stays, Only
  <2>2. store' \in [Tokens -> Row \cup {NoRow}]
    BY <2>0 DEF Effect, Going, Kills, Purges, Lifts, Stores, Deletes
  <2>3. owner' \in [Tokens -> Users \cup {NoUser, NoRow}]
    <3>1. CASE \E t \in Tokens : Stores(r, t)
      BY <3>1 DEF Stores, Owners
    <3>2. CASE UNCHANGED owner
      BY <3>2, <1>own
    <3> QED
      BY <2>0, <3>1, <3>2 DEF Effect, Going, Kills, Purges, Lifts, Deletes
  <2>4. lockout' \in BOOLEAN /\ purged' \in BOOLEAN
    BY <2>0, <1>0 DEF Effect, Going, Kills, Purges, Lifts, Flags, TypeOK
  <2>5. ASSUME NEW s \in Requests
        PROVE  (req[s].pc = "renew" => req[s].who \in Users)'
    <3>1. CASE Lifts(r)
      BY <3>1, <1>0, IdleType DEF Lifts, RenewInv
    <3>2. CASE s # r /\ ~Lifts(r)
      BY <2>0, <3>2, <1>0 DEF Effect, Begins, Ends, Going, Kills, Purges, Accepts, Renews,
                              Stores, Stays, Only, RenewInv
    <3>3. CASE s = r /\ ~Lifts(r)
      BY <2>0, <3>3, IdleType DEF Effect, Begins, Ends, Going, Kills, Purges, Accepts, Renews,
                                  Stores, Stays
    <3> QED
      BY <3>1, <3>2, <3>3
  <2> QED
    BY <2>1, <2>2, <2>3, <2>4, <2>5 DEF TypeInv, TypeOK, RenewInv
<1>2. ASSUME NEW t \in Tokens, Expire(t)
      PROVE  TypeInv'
  <2>1. Deletes /\ UNCHANGED <<req, Flags>>
    BY <1>0, <1>2, ExpireDeletes
  <2> QED
    BY <1>0, <2>1 DEF TypeInv, TypeOK, RenewInv, Deletes, Flags
<1>3. CASE Reboot
  BY <1>0, <1>3, RebootClears, IdleType DEF TypeInv, TypeOK, RenewInv, Deletes
<1>4. CASE UNCHANGED vars
  BY <1>0, <1>4 DEF TypeInv, TypeOK, RenewInv, vars
<1> QED
  BY <1>1, <1>2, <1>3, <1>4 DEF Next

\* Rows, requests, owners and flags keep their types.
THEOREM SessionsTypeCorrect == Spec => []TypeOK
<1>1. TypeInv => TypeOK
  BY DEF TypeInv
<1> QED
  BY <1>1, TypeInit, TypeStep, PTL DEF Spec

-----------------------------------------------------------------------------
(* TokenOwner: what a request carries for a token belongs to its owner too. *)

CarriedInv == \A r \in Requests :
    req[r].tok # NoToken => req[r].data.user = owner[req[r].tok]

OwnerInv == TokenOwner /\ CarriedInv

LEMMA OwnerInit ==
    ASSUME Init
    PROVE  OwnerInv
BY SessionsAssumption, IdleType DEF Init, OwnerInv, TokenOwner, CarriedInv

\* Rows go, and a request takes over nothing but what a row or itself has.
LEMMA OwnerKept ==
    ASSUME TypeInv, OwnerInv, Deletes,
           \A s \in Requests :
              \/ req'[s].tok = NoToken
              \/ req'[s].tok = req[s].tok /\ req'[s].data.user = req[s].data.user
              \/ /\ req'[s].tok \in Tokens /\ store[req'[s].tok] # NoRow
                 /\ req'[s].data.user = store[req'[s].tok].user
    PROVE  OwnerInv'
<1>1. TokenOwner'
  BY DEF OwnerInv, TokenOwner, Deletes
<1>2. CarriedInv'
  BY DEF OwnerInv, TokenOwner, CarriedInv, Deletes
<1> QED
  BY <1>1, <1>2 DEF OwnerInv

LEMMA OwnerStep ==
    ASSUME TypeInv, OwnerInv, [Next]_vars
    PROVE  OwnerInv'
<1>0. TypeOK
  BY DEF TypeInv
<1>1. ASSUME NEW r \in Requests, Step(r)
      PROVE  OwnerInv'
  <2>0. Effect(r)
    BY <1>1, StepEffect
  <2>1. CASE Begins(r) /\ Deletes
    BY <2>1, OwnerKept DEF Begins, Only
  <2>2. CASE Ends(r) /\ Deletes
    BY <2>2, OwnerKept, IdleType DEF Ends, Only
  <2>3. CASE (\E pc \in PC : Going(r, pc)) \/ Kills(r)
    BY <2>3, OwnerKept DEF Going, Kills, Stays, Only
  <2>4. CASE Purges(r)
    <3>1. Deletes
      BY <2>4 DEF Purges, Deletes
    <3> QED
      BY <2>4, <3>1, OwnerKept, IdleType DEF Purges, Ends, Only
  <2>5. CASE Lifts(r)
    BY <2>5, OwnerKept, IdleType DEF Lifts
  <2>6. CASE Accepts(r) /\ Deletes
    BY <2>6, OwnerKept DEF Accepts, Only
  <2>7. CASE Renews(r) /\ Deletes
    BY <2>7, OwnerKept DEF Renews, Only
  <2>8. ASSUME NEW t \in Tokens, Stores(r, t)
        PROVE  OwnerInv'
    <3>1. req[r] \in Request
      BY <1>0 DEF TypeOK
    <3>2. req[r].data.user \in Owners
      BY <3>1, RequestFields
    <3>3. NoRow \notin Owners
      BY SessionsAssumption DEF Owners
    <3>4. owner'[t] = req[r].data.user
      BY <2>8, <3>2, <3>3 DEF Stores, OwnerInv, CarriedInv
    <3>5. ASSUME NEW u \in Tokens, owner[u] # NoRow
          PROVE  owner'[u] = owner[u]
      BY <2>8, <3>5 DEF Stores
    <3>6. TokenOwner'
      BY <2>8, <3>4 DEF Stores, OwnerInv, TokenOwner
    <3>7. ASSUME NEW s \in Requests, req'[s].tok # NoToken
          PROVE  req'[s].data.user = owner'[req'[s].tok]
      <4>1. s # r /\ req'[s] = req[s]
        BY <2>8, <3>7, IdleType DEF Stores, Ends, Only
      <4>2. req[s] \in Request
        BY <1>0 DEF TypeOK
      <4>3. req[s].tok \in Tokens /\ req[s].data.user \in Owners
        BY <3>7, <4>1, <4>2, RequestFields
      <4>4. req[s].data.user = owner[req[s].tok]
        BY <3>7, <4>1 DEF OwnerInv, CarriedInv
      <4> QED
        BY <3>3, <3>5, <4>1, <4>3, <4>4
    <3> QED
      BY <3>6, <3>7 DEF OwnerInv, CarriedInv
  <2> QED
    BY <2>0, <2>1, <2>2, <2>3, <2>4, <2>5, <2>6, <2>7, <2>8 DEF Effect
<1>2. ASSUME NEW t \in Tokens, Expire(t)
      PROVE  OwnerInv'
  BY <1>0, <1>2, ExpireDeletes, OwnerKept
<1>3. CASE Reboot
  BY <1>0, <1>3, RebootClears, IdleType, OwnerKept
<1>4. CASE UNCHANGED vars
  BY <1>4 DEF OwnerInv, TokenOwner, CarriedInv, vars
<1> QED
  BY <1>1, <1>2, <1>3, <1>4 DEF Next

\* A token never changes hands, for any number of overlapping requests.
THEOREM TokensKeepOwner == Spec => []TokenOwner
<1>1. TypeInv /\ OwnerInv => TokenOwner
  BY DEF OwnerInv
<1> QED
  BY <1>1, TypeInit, TypeStep, OwnerInit, OwnerStep, PTL DEF Spec

-----------------------------------------------------------------------------
(* LockoutHolds.                                                            *)

\* A request that began under the lockout is marked until it is lifted.
LockInv ==
    /\ \A r \in Requests : req[r].locked => lockout
    /\ purged => lockout
    /\ LockoutHolds

LEMMA LockInit ==
    ASSUME Init
    PROVE  LockInv
BY IdleType DEF Init, LockInv, LockoutHolds

LEMMA LockStep ==
    ASSUME TypeInv, LockInv, [Next]_vars
    PROVE  LockInv'
<1>0. TypeOK
  BY DEF TypeInv
<1>1. ASSUME NEW r \in Requests, Step(r)
      PROVE  LockInv'
  <2>0. Effect(r)
    BY <1>1, StepEffect
  <2>1. (purged => lockout)'
    BY <2>0 DEF Effect, Going, Kills, Purges, Lifts, Flags, LockInv
  <2>2. ASSUME NEW s \in Requests
        PROVE  /\ (req[s].locked => lockout)'
               /\ (req[s].locked /\ req[s].pc \in {"handler", "renew"} => req[s].who \in Admins)'
    <3>1. CASE Lifts(r)
      BY <3>1, IdleType DEF Lifts
    <3>2. CASE s # r /\ ~Lifts(r)
      <4>1. req'[s] = req[s] /\ (lockout => lockout')
        BY <2>0, <3>2 DEF Effect, Begins, Ends, Going, Kills, Purges, Accepts, Renews, Stores,
                          Stays, Only, Flags
      <4> QED
        BY <4>1 DEF LockInv, LockoutHolds
    <3>3. CASE s = r /\ ~Lifts(r)
      BY <2>0, <3>3, IdleType DEF Effect, Begins, Ends, Going, Kills, Purges, Accepts, Renews,
                                  Stores, Stays, Flags, Barred, LockInv
    <3> QED
      BY <3>1, <3>2, <3>3
  <2> QED
    BY <2>1, <2>2 DEF LockInv, LockoutHolds
<1>2. ASSUME NEW t \in Tokens, Expire(t)
      PROVE  LockInv'
  BY <1>0, <1>2, ExpireDeletes DEF LockInv, LockoutHolds, Flags
<1>3. CASE Reboot
  BY <1>0, <1>3, RebootClears, IdleType DEF LockInv, LockoutHolds
<1>4. CASE UNCHANGED vars
  BY <1>4 DEF LockInv, LockoutHolds, vars
<1> QED
  BY <1>1, <1>2, <1>3, <1>4 DEF Next

\* The lockout keeps users out, for any number of requests.
THEOREM LockoutKeepsUsersOut == Spec => []LockoutHolds
<1>1. TypeInv /\ LockInv => LockoutHolds
  BY DEF LockInv
<1> QED
  BY <1>1, TypeInit, TypeStep, LockInit, LockStep, PTL DEF Spec

-----------------------------------------------------------------------------
(* PurgeBound: what may still come back after the purge.                    *)

OfUser(u) == u \notin Admins \cup {NoUser}

\* The requests that can store a user's session under the token they carry,
\* and those that can store one under a new token.
Carriers == {r \in Requests :
    req[r].tok # NoToken /\ req[r].pc # "renew" /\ OfUser(req[r].data.user)}

Fresh == {r \in Requests :
    \/ req[r].tok = NoToken /\ OfUser(req[r].data.user)
    \/ req[r].pc = "renew" /\ OfUser(req[r].who)}

Loose == UserSessions \cup {req[r].tok : r \in Carriers}

PurgeInv ==
    lockout /\ purged => Cardinality(Loose) + Cardinality(Fresh) < Cardinality(Requests)

\* A subset of a finite set is finite and not larger.
LEMMA SubsetSize ==
    ASSUME NEW S, NEW T, T \subseteq S, IsFiniteSet(S)
    PROVE  /\ IsFiniteSet(T)
           /\ Cardinality(T) \in Nat /\ Cardinality(S) \in Nat
           /\ Cardinality(T) <= Cardinality(S)
<1>1. IsFiniteSet(T) /\ Cardinality(T) <= Cardinality(S)
  BY FS_Subset
<1> QED
  BY <1>1, FS_CardinalityType

LEMMA LooseFinite ==
    ASSUME TypeOK
    PROVE  IsFiniteSet(Loose) /\ IsFiniteSet(Fresh)
<1>1. Loose \subseteq Tokens
  BY RequestFields DEF Loose, UserSessions, Carriers, TypeOK
<1>2. Fresh \subseteq Requests
  BY DEF Fresh
<1> QED
  BY <1>1, <1>2, SubsetSize, SessionsAssumption

\* The bound, once the sets are finite.
LEMMA SmallerBound ==
    ASSUME NEW A, NEW B, NEW C, NEW D, IsFiniteSet(A), IsFiniteSet(B), C \subseteq A, D \subseteq B,
           NEW n \in Nat, Cardinality(A) + Cardinality(B) < n
    PROVE  Cardinality(C) + Cardinality(D) < n
BY SubsetSize

LEMMA Shrinks ==
    ASSUME TypeOK, PurgeInv, Loose' \subseteq Loose, Fresh' \subseteq Fresh,
           lockout' /\ purged' => lockout /\ purged
    PROVE  PurgeInv'
<1>1. Cardinality(Requests) \in Nat
  BY SessionsAssumption, FS_CardinalityType
<1> QED
  BY <1>1, LooseFinite, SmallerBound DEF PurgeInv

LEMMA PurgeInit ==
    ASSUME Init
    PROVE  PurgeInv
BY DEF Init, PurgeInv

\* Just after the purge every loose session is carried by another request.
LEMMA PurgeBounds ==
    ASSUME TypeInv', NEW r \in Requests, Purges(r)
    PROVE  PurgeInv'
<1> DEFINE C == Carriers'
           F == Fresh'
           L == Loose'
           f == [s \in C |-> req'[s].tok]
<1>1. C \subseteq Requests \ {r} /\ F \subseteq Requests \ {r} /\ C \cap F = {}
  BY IdleType DEF Purges, Ends, Carriers, Fresh, OfUser
<1>2. L = {req'[s].tok : s \in C}
  BY DEF Purges, Loose, UserSessions
<1>3. f \in Surjection(C, L)
  BY <1>2 DEF Surjection
<1>4. /\ IsFiniteSet(Requests) /\ IsFiniteSet(Requests \ {r})
      /\ Cardinality(Requests) \in Nat
      /\ Cardinality(Requests \ {r}) = Cardinality(Requests) - 1
  BY SessionsAssumption, FS_RemoveElement, FS_CardinalityType
<1> HIDE DEF C, F, L, f
<1>5. IsFiniteSet(C) /\ IsFiniteSet(F) /\ C \cup F \subseteq Requests \ {r}
  BY <1>1, <1>4, SubsetSize
<1>6. IsFiniteSet(L) /\ Cardinality(L) <= Cardinality(C)
  BY <1>3, <1>5, FS_Surjection
<1>7. Cardinality(C \cup F) = Cardinality(C) + Cardinality(F) - Cardinality(C \cap F)
  BY <1>5, FS_Union
<1>8. Cardinality(C \cap F) = 0
  BY <1>1, FS_EmptySet
<1>9. Cardinality(C \cup F) <= Cardinality(Requests) - 1
  BY <1>4, <1>5, SubsetSize
<1>10. Cardinality(C) \in Nat /\ Cardinality(F) \in Nat /\ Cardinality(L) \in Nat
  BY <1>5, <1>6, FS_CardinalityType
<1>11. Cardinality(L) + Cardinality(F) < Cardinality(Requests)
  BY <1>4, <1>6, <1>7, <1>8, <1>9, <1>10
<1> QED
  BY <1>11 DEF PurgeInv, L, F

\* A commit turns a fresh session into a stored one.
LEMMA StoreBounds ==
    ASSUME TypeInv, PurgeInv, NEW r \in Requests, NEW t \in Tokens, Stores(r, t), UNCHANGED Flags
    PROVE  PurgeInv'
<1>0. TypeOK
  BY DEF TypeInv
<1>1. req[r] \in Request
  BY <1>0 DEF TypeOK
<1>2. req[r].tok \in Tokens \cup {NoToken}
  BY <1>1, RequestFields
<1>3. Carriers' \subseteq Carriers /\ r \notin Fresh' /\ Fresh' \subseteq Fresh
  BY IdleType DEF Stores, Ends, Only, Carriers, Fresh, OfUser
<1>4. ASSUME NEW s \in Carriers'
      PROVE  s \in Carriers /\ req'[s].tok = req[s].tok
  BY <1>3, <1>4, IdleType DEF Stores, Ends, Only, Carriers
<1>5. Loose' \subseteq Loose \cup {t}
  BY <1>4 DEF Loose, UserSessions, Stores
<1>6. CASE t \in Loose'/\ t \notin Loose
  <2>1. OfUser(req[r].data.user)
    <3>1. \A s \in Carriers' : req'[s].tok # t
      BY <1>4, <1>6 DEF Loose
    <3>2. t \in UserSessions'
      BY <1>6, <3>1 DEF Loose
    <3> QED
      BY <3>2 DEF UserSessions, Stores, OfUser
  <2>2. req[r].tok = NoToken
    BY <1>6, <2>1 DEF Stores, Loose, Carriers
  <2>3. r \in Fresh
    BY <2>1, <2>2 DEF Fresh
  <2>4. Fresh' \subseteq Fresh \ {r}
    BY <1>3
  <2> DEFINE L == Loose
             F == Fresh
             Lx == Loose'
             Fx == Fresh'
  <2>5. IsFiniteSet(L) /\ IsFiniteSet(F)
    BY <1>0, LooseFinite
  <2>6. Lx \subseteq L \cup {t} /\ Fx \subseteq F \ {r} /\ r \in F
    BY <1>5, <2>3, <2>4
  <2> HIDE DEF L, F, Lx, Fx
  <2>7. /\ IsFiniteSet(L \cup {t}) /\ Cardinality(L \cup {t}) <= Cardinality(L) + 1
        /\ IsFiniteSet(F \ {r}) /\ Cardinality(F \ {r}) = Cardinality(F) - 1
        /\ Cardinality(L) \in Nat /\ Cardinality(F) \in Nat
        /\ Cardinality(L \cup {t}) \in Nat /\ Cardinality(F \ {r}) \in Nat
    <3>1. Cardinality(L) \in Nat /\ Cardinality(F) \in Nat
      BY <2>5, FS_CardinalityType
    <3>2. IsFiniteSet(L \cup {t}) /\ Cardinality(L \cup {t}) <= Cardinality(L) + 1
      <4>1. /\ IsFiniteSet(L \cup {t})
            /\ Cardinality(L \cup {t}) \in {Cardinality(L), Cardinality(L) + 1}
        BY <2>5, FS_AddElement
      <4> QED
        BY <3>1, <4>1
    <3>3. IsFiniteSet(F \ {r}) /\ Cardinality(F \ {r}) = Cardinality(F) - 1
      BY <2>5, <2>6, FS_RemoveElement
    <3>4. Cardinality(L \cup {t}) \in Nat /\ Cardinality(F \ {r}) \in Nat
      BY <3>2, <3>3, FS_CardinalityType
    <3> QED
      BY <3>1, <3>2, <3>3, <3>4
  <2>8. /\ Cardinality(Lx) <= Cardinality(L \cup {t}) /\ Cardinality(Lx) \in Nat
        /\ Cardinality(Fx) <= Cardinality(F \ {r}) /\ Cardinality(Fx) \in Nat
    BY <2>6, <2>7, SubsetSize
  <2>9. Cardinality(Lx) + Cardinality(Fx) <= Cardinality(L) + Cardinality(F)
    BY <2>7, <2>8
  <2>10. Cardinality(Requests) \in Nat
    BY SessionsAssumption, FS_CardinalityType
  <2>11. lockout' /\ purged' => Cardinality(L) + Cardinality(F) < Cardinality(Requests)
    BY DEF PurgeInv, Flags, L, F
  <2>12. lockout' /\ purged' => Cardinality(Lx) + Cardinality(Fx) < Cardinality(Requests)
    BY <2>7, <2>8, <2>9, <2>10, <2>11
  <2> QED
    BY <2>12 DEF PurgeInv, Lx, Fx
<1>7. CASE Loose' \subseteq Loose
  BY <1>0, <1>3, <1>7, Shrinks DEF Flags
<1> QED
  BY <1>5, <1>6, <1>7

\* Every other step lets no session loose that was not.
LEMMA PurgeStep ==
    ASSUME TypeInv, TypeInv', LockInv, PurgeInv, [Next]_vars
    PROVE  PurgeInv'
<1>0. TypeOK
  BY DEF TypeInv
<1>d. ASSUME Deletes
      PROVE  UserSessions' \subseteq UserSessions
  BY <1>d DEF UserSessions, Deletes
<1>1. ASSUME NEW r \in Requests, Step(r)
      PROVE  PurgeInv'
  <2>0. Effect(r)
    BY <1>1, StepEffect
  <2>a. ASSUME Deletes, Only(r), lockout' /\ purged' => lockout /\ purged,
               r \in Carriers' => req'[r].tok \in Loose,
               r \in Fresh' => r \in Fresh
        PROVE  PurgeInv'
    <3>1. Fresh' \subseteq Fresh
      BY <2>a DEF Fresh, Only
    <3>2. ASSUME NEW s \in Carriers'
          PROVE  req'[s].tok \in Loose
      BY <2>a, <3>2 DEF Carriers, Only, Loose
    <3>3. Loose' \subseteq Loose
      BY <2>a, <1>d, <3>2 DEF Loose
    <3> QED
      BY <1>0, <2>a, <3>1, <3>3, Shrinks
  <2>1. CASE Begins(r) /\ Deletes /\ UNCHANGED Flags
    <3>1. r \in Carriers' => req'[r].tok \in Loose
      BY <2>1 DEF Begins, Carriers, Loose, UserSessions, OfUser
    <3>2. r \notin Fresh'
      BY <2>1, SessionsAssumption DEF Begins, Fresh, OfUser
    <3> QED
      BY <2>1, <2>a, <3>1, <3>2 DEF Begins, Flags
  <2>2. CASE Ends(r) /\ Deletes /\ UNCHANGED Flags
    <3>1. r \notin Carriers' /\ r \notin Fresh'
      BY <2>2, IdleType DEF Ends, Carriers, Fresh, OfUser
    <3> QED
      BY <2>2, <2>a, <3>1 DEF Ends, Flags
  <2>3. ASSUME NEW pc \in PC, Going(r, pc)
        PROVE  PurgeInv'
    <3>1. r \in Carriers' => req'[r].tok \in Loose
      BY <2>3 DEF Going, Stays, Carriers, Loose
    <3>2. r \in Fresh' => r \in Fresh
      BY <2>3 DEF Going, Stays, Fresh
    <3> QED
      BY <2>3, <2>a, <3>1, <3>2 DEF Going, Stays, Flags
  <2>4. CASE Kills(r)
    <3>1. r \in Carriers' => req'[r].tok \in Loose
      BY <2>4 DEF Kills, Stays, Carriers, Loose
    <3>2. r \in Fresh' => r \in Fresh
      BY <2>4 DEF Kills, Stays, Fresh
    <3> QED
      BY <2>4, <2>a, <3>1, <3>2 DEF Kills, Stays, LockInv
  <2>5. CASE Purges(r)
    BY <2>5, PurgeBounds
  <2>6. CASE Lifts(r)
    BY <2>6 DEF Lifts, PurgeInv
  <2>7. CASE Accepts(r) /\ Deletes /\ req[r].pc = "login" /\ UNCHANGED Flags
    <3>0. CASE ~(lockout' /\ purged')
      BY <3>0 DEF PurgeInv
    <3>1. r \notin Carriers'
      BY <2>7 DEF Accepts, Carriers
    <3>2. CASE lockout' /\ purged'
      <4>1. r \in Fresh' => r \in Fresh
        BY <2>7, <3>2 DEF Accepts, Fresh, Flags, Barred, OfUser
      <4> QED
        BY <2>7, <2>a, <3>1, <4>1 DEF Accepts, Flags
    <3> QED
      BY <3>0, <3>2
  <2>8. CASE Renews(r) /\ Deletes /\ req[r].pc = "renew" /\ UNCHANGED Flags
    <3>1. r \notin Carriers'
      BY <2>8 DEF Renews, Carriers
    <3>2. r \in Fresh' => r \in Fresh
      BY <2>8 DEF Renews, Fresh
    <3> QED
      BY <2>8, <2>a, <3>1, <3>2 DEF Renews, Flags
  <2>9. ASSUME NEW t \in Tokens, Stores(r, t), UNCHANGED Flags
        PROVE  PurgeInv'
    BY <2>9, StoreBounds
  <2> QED
    BY <2>0, <2>1, <2>2, <2>3, <2>4, <2>5, <2>6, <2>7, <2>8, <2>9 DEF Effect
<1>2. ASSUME NEW t \in Tokens, Expire(t)
      PROVE  PurgeInv'
  <2>1. Deletes /\ UNCHANGED <<req, Flags>>
    BY <1>0, <1>2, ExpireDeletes
  <2>2. Loose' \subseteq Loose /\ Fresh' \subseteq Fresh
    BY <1>d, <2>1 DEF Loose, Fresh, Carriers
  <2> QED
    BY <1>0, <2>1, <2>2, Shrinks DEF Flags
<1>3. CASE Reboot
  BY <1>3 DEF Reboot, PurgeInv
<1>4. CASE UNCHANGED vars
  <2>1. Loose' \subseteq Loose /\ Fresh' \subseteq Fresh
    BY <1>4 DEF Loose, Fresh, Carriers, UserSessions, vars
  <2> QED
    BY <1>0, <1>4, <2>1, Shrinks DEF vars
<1> QED
  BY <1>1, <1>2, <1>3, <1>4 DEF Next

\* After the purge at most one user session per request that was running can
\* come back, and the lockout adds none.
THEOREM PurgeBounded == Spec => []PurgeBound
<1>1. TypeInv /\ PurgeInv => PurgeBound
  <2> SUFFICES ASSUME TypeInv, PurgeInv, lockout, purged
               PROVE  Cardinality(UserSessions) < Cardinality(Requests)
    BY DEF PurgeBound
  <2>1. IsFiniteSet(Loose) /\ IsFiniteSet(Fresh)
    BY LooseFinite DEF TypeInv
  <2>2. UserSessions \subseteq Loose
    BY DEF Loose
  <2>3. /\ Cardinality(UserSessions) \in Nat /\ Cardinality(Loose) \in Nat
        /\ Cardinality(UserSessions) <= Cardinality(Loose)
        /\ Cardinality(Fresh) \in Nat /\ Cardinality(Requests) \in Nat
    BY <2>1, <2>2, SubsetSize, FS_CardinalityType, SessionsAssumption
  <2> QED
    BY <2>3 DEF PurgeInv
<1> QED
  BY <1>1, TypeInit, TypeStep, LockInit, LockStep, PurgeInit, PurgeStep, PTL DEF Spec
=============================================================================
