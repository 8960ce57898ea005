--------------------------- MODULE PlaybackProofs ---------------------------
(***************************************************************************)
(* Theorems of the playback sessions, for any recorders, servers and        *)
(* clients, any limit, any faults and any number of crashes.                *)
(***************************************************************************)
EXTENDS Playback, FiniteSetTheorems, WellFoundedInduction, TLAPS

-----------------------------------------------------------------------------
(* The strengthening of TypeOK all theorems rest on.                        *)

Removing == {"delete", "unrelay", "forget"}
Making == {"register", "add", "undo", "insert"}

\* Who is past Lock() has the mutex.
MutexInv == \A p \in Procs : call[p].pc \notin {"idle", "lock"} => mu = p

\* The locals of a goroutine make sense where it uses them.
LocalInv == \A p \in Procs :
    /\ call[p].pc \in Removing \cup Making => Victim(p) \in Session
    /\ call[p].pc \notin {"idle", "lock"} /\ call[p].op = "start" => call[p].nvr \in Nvrs
    /\ call[p].pc \in Making => /\ call[p].op = "start"
                                /\ call[p].todo = {}
                                /\ Victim(p).nvr = call[p].nvr

Base == TypeOK /\ MutexInv /\ LocalInv

-----------------------------------------------------------------------------
(* What the steps do to the locals of goroutines.                           *)

Turns(p, op, pc, nvr, todo, v) ==
    /\ call' \in [Procs -> Call]
    /\ \A q \in Procs \ {p} : call'[q] = call[q]
    /\ call'[p].op = op
    /\ call'[p].pc = pc
    /\ call'[p].nvr = nvr
    /\ call'[p].todo = todo
    /\ call'[p].victim = v

LEMMA SetTurns ==
    ASSUME TypeOK, NEW p \in Procs, NEW c \in Call, Set(p, c)
    PROVE  Turns(p, c.op, c.pc, c.nvr, c.todo, c.victim)
BY DEF TypeOK, Turns, Set

LEMMA GotoTurns ==
    ASSUME TypeOK, NEW p \in Procs, NEW pc \in PC, Goto(p, pc)
    PROVE  Turns(p, call[p].op, pc, call[p].nvr, call[p].todo, Victim(p))
<1> DEFINE c == [call[p] EXCEPT !.pc = pc]
<1>1. call[p] \in Call
  BY DEF TypeOK
<1>2. c \in Call /\ c.op = call[p].op /\ c.pc = pc /\ c.nvr = call[p].nvr
      /\ c.todo = call[p].todo /\ c.victim = call[p].victim
  BY <1>1 DEF Call
<1>3. Set(p, c)
  BY DEF Goto
<1> HIDE DEF c
<1> QED
  BY <1>2, <1>3, SetTurns DEF Victim

LEMMA NoCallType ==
    /\ NoCall \in Call
    /\ NoCall.op = "none" /\ NoCall.pc = "idle" /\ NoCall.nvr = NoNvr
    /\ NoCall.todo = {} /\ NoCall.victim = NoSession
BY DEF NoCall, Call, PC

LEMMA UnlockTurns ==
    ASSUME TypeOK, NEW p \in Procs, Unlock(p)
    PROVE  Turns(p, "none", "idle", NoNvr, {}, NoSession) /\ mu' = Nobody
BY NoCallType, SetTurns DEF Unlock

LEMMA BeginTurns ==
    ASSUME TypeOK, NEW p \in Procs, NEW op \in {"start", "stop", "seek", "sweep"}, Begin(p, op)
    PROVE  Turns(p, op, "lock", NoNvr, {}, NoSession)
<1> DEFINE c == [NoCall EXCEPT !.op = op, !.pc = "lock"]
<1>1. c \in Call /\ c.op = op /\ c.pc = "lock" /\ c.nvr = NoNvr /\ c.todo = {}
      /\ c.victim = NoSession
  BY NoCallType DEF Call, PC
<1>2. Set(p, c)
  BY DEF Begin
<1> HIDE DEF c
<1> QED
  BY <1>1, <1>2, SetTurns

LEMMA SeekTurns ==
    ASSUME TypeOK, NEW p \in Procs, SeekGoesOn(p)
    PROVE  Turns(p, "start", "lock", NoNvr, {}, NoSession)
<1> DEFINE c == [NoCall EXCEPT !.op = "start", !.pc = "lock"]
<1>1. c \in Call /\ c.op = "start" /\ c.pc = "lock" /\ c.nvr = NoNvr /\ c.todo = {}
      /\ c.victim = NoSession
  BY NoCallType DEF Call, PC
<1>2. Set(p, c)
  BY DEF SeekGoesOn
<1> HIDE DEF c
<1> QED
  BY <1>1, <1>2, SetTurns

LEMMA EnterTurns ==
    ASSUME TypeOK, NEW p \in Procs, NEW n \in Nvrs \cup {NoNvr}, NEW S \in SUBSET Session,
           Enter(p, n, S)
    PROVE  Turns(p, call[p].op, "clean", n, S, Victim(p))
<1> DEFINE c == [call[p] EXCEPT !.pc = "clean", !.nvr = n, !.todo = S]
<1>1. call[p] \in Call
  BY DEF TypeOK
<1>2. c \in Call /\ c.op = call[p].op /\ c.pc = "clean" /\ c.nvr = n /\ c.todo = S
      /\ c.victim = call[p].victim
  BY <1>1 DEF Call, PC
<1>3. Set(p, c)
  BY DEF Enter
<1> HIDE DEF c
<1> QED
  BY <1>2, <1>3, SetTurns DEF Victim

LEMMA PickTurns ==
    ASSUME TypeOK, NEW p \in Procs, Pick(p)
    PROVE  \E s \in call[p].todo :
              s \in Session /\ Turns(p, call[p].op, "delete", call[p].nvr, call[p].todo \ {s}, s)
<1>1. PICK s \in call[p].todo :
         Set(p, [call[p] EXCEPT !.pc = "delete", !.todo = @ \ {s}, !.victim = s, !.tries = 1])
  BY DEF Pick
<1> DEFINE c == [call[p] EXCEPT !.pc = "delete", !.todo = @ \ {s}, !.victim = s, !.tries = 1]
<1>2. call[p] \in Call /\ call[p].todo \subseteq Session /\ s \in Session
  BY DEF TypeOK, Call
<1>3. c \in Call /\ c.op = call[p].op /\ c.pc = "delete" /\ c.nvr = call[p].nvr
      /\ c.todo = call[p].todo \ {s} /\ c.victim = s
  <2> DEFINE S == call[p].todo \ {s}
  <2>1. S \in SUBSET Session /\ c = [call[p] EXCEPT !.pc = "delete", !.todo = S, !.victim = s, !.tries = 1]
    BY <1>2
  <2>2. s \in Session \cup {NoSession} /\ 1 \in 0..3 /\ "delete" \in PC
    BY <1>2 DEF PC
  <2> HIDE DEF S, c
  <2>3. c \in Call /\ c.op = call[p].op /\ c.pc = "delete" /\ c.nvr = call[p].nvr
        /\ c.todo = S /\ c.victim = s
    BY <1>2, <2>1, <2>2 DEF Call
  <2> QED
    BY <2>3 DEF S
<1>4. Set(p, c)
  BY <1>1
<1> HIDE DEF c
<1> QED
  BY <1>2, <1>3, <1>4, SetTurns

LEMMA FailsTurns ==
    ASSUME TypeOK, NEW p \in Procs, DeleteFails(p)
    PROVE  \E pc \in {"delete", "unrelay"} :
              Turns(p, call[p].op, pc, call[p].nvr, call[p].todo, Victim(p))
<1>1. CASE call[p].tries < 3
  <2> DEFINE c == [call[p] EXCEPT !.tries = @ + 1]
  <2>1. call[p] \in Call
    BY DEF TypeOK
  <2>2. c \in Call /\ c.op = call[p].op /\ c.pc = call[p].pc /\ c.nvr = call[p].nvr
        /\ c.todo = call[p].todo /\ c.victim = call[p].victim
    BY <1>1, <2>1 DEF Call
  <2>3. Set(p, c) /\ call[p].pc = "delete"
    BY <1>1 DEF DeleteFails, At, TypeOK
  <2> HIDE DEF c
  <2> QED
    BY <2>2, <2>3, SetTurns DEF Victim
<1>2. CASE ~(call[p].tries < 3)
  BY <1>2, GotoTurns DEF DeleteFails, PC
<1> QED
  BY <1>1, <1>2

LEMMA ForgetTurns ==
    ASSUME TypeOK, NEW p \in Procs, Forget(p)
    PROVE  Turns(p, call[p].op, "clean", call[p].nvr, call[p].todo, NoSession)
<1> DEFINE c == [call[p] EXCEPT !.pc = "clean", !.victim = NoSession, !.tries = 0]
<1>1. call[p] \in Call
  BY DEF TypeOK
<1>2. c \in Call /\ c.op = call[p].op /\ c.pc = "clean" /\ c.nvr = call[p].nvr
      /\ c.todo = call[p].todo /\ c.victim = NoSession
  <2>1. NoSession \in Session \cup {NoSession} /\ 0 \in 0..3 /\ "clean" \in PC
    BY DEF PC
  <2> QED
    BY <1>1, <2>1 DEF Call
<1>3. Set(p, c)
  BY DEF Forget
<1> HIDE DEF c
<1> QED
  BY <1>2, <1>3, SetTurns

LEMMA CreateTurns ==
    ASSUME TypeOK, NEW p \in Procs, Create(p), call[p].nvr \in Nvrs
    PROVE  \E f \in BOOLEAN :
             LET s == [id |-> made + 1, nvr |-> call[p].nvr, fast |-> f]
             IN  /\ s \in Session
                 /\ Turns(p, call[p].op, IF f THEN "register" ELSE "add",
                          call[p].nvr, call[p].todo, s)
<1>1. PICK f \in BOOLEAN :
         Set(p, [call[p] EXCEPT
                    !.pc = IF f THEN "register" ELSE "add",
                    !.victim = [id |-> made + 1, nvr |-> call[p].nvr, fast |-> f]])
  BY DEF Create
<1> DEFINE s == [id |-> made + 1, nvr |-> call[p].nvr, fast |-> f]
           pc == IF f THEN "register" ELSE "add"
           c == [call[p] EXCEPT !.pc = pc, !.victim = s]
<1>2. call[p] \in Call
  BY DEF TypeOK
<1>3. made + 1 \in 1..MaxSessions
  BY PlaybackAssumption DEF Create, TypeOK
<1>4. s \in Session
  BY <1>3 DEF Session
<1>5. pc \in PC
  BY DEF PC
<1>6. Set(p, c)
  BY <1>1 DEF Victim
<1>7. c \in Call /\ c.op = call[p].op /\ c.pc = pc /\ c.nvr = call[p].nvr
      /\ c.todo = call[p].todo /\ c.victim = s
  <2> HIDE DEF s, pc
  <2> QED
    BY <1>2, <1>4, <1>5 DEF Call
<1>8. Turns(p, call[p].op, pc, call[p].nvr, call[p].todo, s)
  <2> HIDE DEF c
  <2> QED
    BY <1>6, <1>7, SetTurns
<1> QED
  BY <1>4, <1>8

\* The least element of a finite set of numbered things.
LEMMA Oldest ==
    ASSUME NEW S \in SUBSET Session, S # {}
    PROVE  \E s \in S : \A t \in S : s.id <= t.id
<1> DEFINE T == {s.id : s \in S}
<1>1. T \subseteq Nat /\ T # {}
  BY DEF Session
<1>2. PICK i \in T : \A j \in T : ~ <<j, i>> \in OpToRel(<, Nat)
  BY <1>1, NatLessThanWellFounded, WFMin
<1>3. \A j \in T : i <= j
  <2> TAKE j \in T
  <2>1. i \in Nat /\ j \in Nat
    BY <1>1
  <2>2. ~(j < i)
    BY <1>2, <2>1 DEF OpToRel
  <2> QED
    BY <2>1, <2>2
<1> QED
  BY <1>3
-----------------------------------------------------------------------------
(* Base is an invariant.                                                    *)

Past(p) == call[p].pc \notin {"idle", "lock"}

\* What LocalInv says of one goroutine.
Fits(op, pc, nvr, todo, v) ==
    /\ pc \in Removing \cup Making => v \in Session
    /\ pc \notin {"idle", "lock"} /\ op = "start" => nvr \in Nvrs
    /\ pc \in Making => op = "start" /\ todo = {} /\ v.nvr = nvr

LEMMA LocalKept ==
    ASSUME LocalInv, NEW p \in Procs, NEW op, NEW pc, NEW nvr, NEW todo, NEW v,
           Turns(p, op, pc, nvr, todo, v), Fits(op, pc, nvr, todo, v)
    PROVE  LocalInv'
<1> SUFFICES ASSUME NEW q \in Procs
             PROVE  Fits(call'[q].op, call'[q].pc, call'[q].nvr, call'[q].todo, call'[q].victim)
  BY DEF LocalInv, Fits, Victim
<1>1. CASE q = p
  BY <1>1 DEF Turns
<1>2. CASE q # p
  <2>1. call'[q] = call[q]
    BY <1>2 DEF Turns
  <2>2. Fits(call[q].op, call[q].pc, call[q].nvr, call[q].todo, call[q].victim)
    BY DEF LocalInv, Fits, Victim
  <2> QED
    BY <2>1, <2>2
<1> QED
  BY <1>1, <1>2

\* The four ways the mutex and the position of a goroutine change together.
LEMMA MutexKept ==
    ASSUME Base, NEW p \in Procs, NEW op, NEW pc, NEW nvr, NEW todo, NEW v,
           Turns(p, op, pc, nvr, todo, v),
           \/ mu' = mu /\ (Past(p) \/ pc \in {"idle", "lock"})
           \/ mu = Nobody /\ mu' = p
           \/ Past(p) /\ mu' = Nobody /\ pc \in {"idle", "lock"}
    PROVE  MutexInv'
<1> SUFFICES ASSUME NEW q \in Procs, call'[q].pc \notin {"idle", "lock"}
             PROVE  mu' = q
  BY DEF MutexInv
<1>1. CASE q = p
  BY <1>1 DEF Turns, Base, MutexInv, Past
<1>2. CASE q # p
  <2>1. call'[q] = call[q]
    BY <1>2 DEF Turns
  <2>2. mu = q
    BY <2>1 DEF Base, MutexInv
  <2>3. q # Nobody
    BY PlaybackAssumption
  <2>4. Past(p) => mu = p
    BY DEF Base, MutexInv, Past
  <2> QED
    BY <1>2, <2>2, <2>3, <2>4
<1> QED
  BY <1>1, <1>2

\* How one goroutine moves, as far as its locals and the mutex go.
Moves(p) == \E op, pc, nvr, todo, v :
    /\ Turns(p, op, pc, nvr, todo, v)
    /\ Fits(op, pc, nvr, todo, v)
    /\ \/ mu' = mu /\ (Past(p) \/ pc \in {"idle", "lock"})
       \/ mu = Nobody /\ mu' = p
       \/ Past(p) /\ mu' = Nobody /\ pc \in {"idle", "lock"}

LEMMA MovesKeeps ==
    ASSUME Base, NEW p \in Procs, Moves(p)
    PROVE  MutexInv' /\ LocalInv' /\ call' \in [Procs -> Call] /\ mu' \in Procs \cup {Nobody}
<1>1. PICK op, pc, nvr, todo, v :
        /\ Turns(p, op, pc, nvr, todo, v)
        /\ Fits(op, pc, nvr, todo, v)
        /\ \/ mu' = mu /\ (Past(p) \/ pc \in {"idle", "lock"})
           \/ mu = Nobody /\ mu' = p
           \/ Past(p) /\ mu' = Nobody /\ pc \in {"idle", "lock"}
  BY DEF Moves
<1>2. MutexInv'
  BY <1>1, MutexKept
<1>3. LocalInv'
  BY <1>1, LocalKept DEF Base
<1>4. call' \in [Procs -> Call]
  BY <1>1 DEF Turns
<1>5. mu' \in Procs \cup {Nobody}
  BY <1>1 DEF Base, TypeOK
<1> QED
  BY <1>2, <1>3, <1>4, <1>5

LEMMA RequestMoves ==
    ASSUME Base, NEW p \in Procs, NEW op \in {"start", "stop", "seek", "sweep"}, Begin(p, op)
    PROVE  Moves(p)
<1>1. Turns(p, op, "lock", NoNvr, {}, NoSession)
  BY BeginTurns DEF Base
<1>2. Fits(op, "lock", NoNvr, {}, NoSession)
  BY DEF Fits, Removing, Making
<1> QED
  BY <1>1, <1>2 DEF Moves, Begin

LEMMA EvictedType ==
    ASSUME TypeOK, NEW n \in Nvrs
    PROVE  Evicted(n) \in SUBSET Session
BY DEF TypeOK, Evicted, SessionsOf

LEMMA EnterMoves ==
    ASSUME Base, NEW p \in Procs, NEW n \in Nvrs \cup {NoNvr}, NEW S \in SUBSET Session,
           Enter(p, n, S), call[p].op = "start" => n \in Nvrs
    PROVE  Moves(p)
<1>1. Turns(p, call[p].op, "clean", n, S, Victim(p))
  BY EnterTurns DEF Base
<1>2. Fits(call[p].op, "clean", n, S, Victim(p))
  BY DEF Fits, Removing, Making
<1> QED
  BY <1>1, <1>2 DEF Moves, Enter

LEMMA LockMoves ==
    ASSUME Base, NEW p \in Procs, Lock(p)
    PROVE  Moves(p)
<1>1. CASE LockToStart(p)
  BY <1>1, EvictedType, EnterMoves DEF LockToStart, Base
<1>2. CASE LockToStop(p)
  <2>1. \E S \in SUBSET Session : Enter(p, NoNvr, S)
    <3>1. CASE Enter(p, NoNvr, {})
      BY <3>1
    <3>2. CASE \E s \in sessions : Enter(p, NoNvr, {s})
      BY <3>2 DEF Base, TypeOK
    <3> QED
      BY <1>2, <3>1, <3>2 DEF LockToStop
  <2>2. call[p].op # "start"
    BY <1>2 DEF LockToStop
  <2> QED
    BY <2>1, <2>2, EnterMoves
<1>3. CASE LockToSweep(p)
  <2>1. stale \cap sessions \in SUBSET Session
    BY DEF Base, TypeOK
  <2> QED
    BY <1>3, <2>1, EnterMoves DEF LockToSweep
<1> QED
  BY <1>1, <1>2, <1>3 DEF Lock

\* A step that only changes where p is.
LEMMA GotoMoves ==
    ASSUME Base, NEW p \in Procs, NEW pc \in Removing \cup Making, Goto(p, pc), mu' = mu,
           Past(p), Victim(p) \in Session, pc \in Making => call[p].pc \in Making
    PROVE  Moves(p)
<1>1. Turns(p, call[p].op, pc, call[p].nvr, call[p].todo, Victim(p))
  BY GotoTurns DEF Base, PC, Removing, Making
<1>2. Fits(call[p].op, pc, call[p].nvr, call[p].todo, Victim(p))
  BY DEF Base, LocalInv, Fits, Past
<1> QED
  BY <1>1, <1>2 DEF Moves

LEMMA UnlockMoves ==
    ASSUME Base, NEW p \in Procs, Unlock(p), Past(p)
    PROVE  Moves(p)
<1>1. Turns(p, "none", "idle", NoNvr, {}, NoSession) /\ mu' = Nobody
  BY UnlockTurns DEF Base
<1>2. Fits("none", "idle", NoNvr, {}, NoSession)
  BY DEF Fits, Removing, Making
<1> QED
  BY <1>1, <1>2 DEF Moves

LEMMA StepMoves ==
    ASSUME Base, NEW p \in Procs, Step(p)
    PROVE  Moves(p)
<1> USE DEF Removing, Making
<1>0. /\ call[p].pc \in Removing \cup Making => Victim(p) \in Session
      /\ Past(p) /\ call[p].op = "start" => call[p].nvr \in Nvrs
  BY DEF Base, LocalInv, Past
<1>1. CASE Pick(p)
  <2>1. PICK s \in call[p].todo :
           s \in Session /\ Turns(p, call[p].op, "delete", call[p].nvr, call[p].todo \ {s}, s)
    BY <1>1, PickTurns DEF Base
  <2>2. Fits(call[p].op, "delete", call[p].nvr, call[p].todo \ {s}, s)
    BY <1>0, <1>1, <2>1 DEF Fits, Pick, At, Past
  <2> QED
    BY <1>1, <2>1, <2>2 DEF Moves, Pick, At, Past
<1>2. CASE DeleteStream(p)
  BY <1>0, <1>2, GotoMoves DEF DeleteStream, At, Past
<1>3. CASE DeleteFails(p)
  <2>1. PICK pc \in {"delete", "unrelay"} :
           Turns(p, call[p].op, pc, call[p].nvr, call[p].todo, Victim(p))
    BY <1>3, FailsTurns DEF Base
  <2>2. Fits(call[p].op, pc, call[p].nvr, call[p].todo, Victim(p))
    BY <1>0, <1>3 DEF Fits, DeleteFails, At, Past
  <2> QED
    BY <1>3, <2>1, <2>2 DEF Moves, DeleteFails, At, Past
<1>4. CASE UnregisterSession(p)
  BY <1>0, <1>4, GotoMoves DEF UnregisterSession, At, Past
<1>5. CASE Forget(p)
  <2>1. Turns(p, call[p].op, "clean", call[p].nvr, call[p].todo, NoSession)
    BY <1>5, ForgetTurns DEF Base
  <2>2. Fits(call[p].op, "clean", call[p].nvr, call[p].todo, NoSession)
    BY <1>0, <1>5 DEF Fits, Forget, At, Past
  <2> QED
    BY <1>5, <2>1, <2>2 DEF Moves, Forget, At, Past
<1>6. CASE CleanReturns(p)
  BY <1>6, UnlockMoves DEF CleanReturns, At, Past
<1>7. CASE SeekGoesOn(p)
  <2>1. Turns(p, "start", "lock", NoNvr, {}, NoSession)
    BY <1>7, SeekTurns DEF Base
  <2>2. Fits("start", "lock", NoNvr, {}, NoSession)
    BY DEF Fits
  <2> QED
    BY <1>7, <2>1, <2>2 DEF Moves, SeekGoesOn, At, Past
<1>8. CASE NoCredentials(p)
  BY <1>8, UnlockMoves DEF NoCredentials, At, Past
<1>9. CASE Create(p)
  <2>1. call[p].nvr \in Nvrs /\ Past(p) /\ call[p].todo = {} /\ call[p].op = "start"
    BY <1>0, <1>9 DEF Create, At, Past
  <2>2. PICK f \in BOOLEAN :
           LET s == [id |-> made + 1, nvr |-> call[p].nvr, fast |-> f]
           IN  /\ s \in Session
               /\ Turns(p, call[p].op, IF f THEN "register" ELSE "add",
                        call[p].nvr, call[p].todo, s)
    BY <1>9, <2>1, CreateTurns DEF Base
  <2> DEFINE s == [id |-> made + 1, nvr |-> call[p].nvr, fast |-> f]
             pc == IF f THEN "register" ELSE "add"
  <2>3. s \in Session /\ Turns(p, call[p].op, pc, call[p].nvr, call[p].todo, s)
    BY <2>2
  <2>4. s.nvr = call[p].nvr
    OBVIOUS
  <2> HIDE DEF s
  <2>5. Fits(call[p].op, pc, call[p].nvr, call[p].todo, s)
    BY <2>1, <2>3, <2>4 DEF Fits
  <2>6. mu' = mu
    BY <1>9 DEF Create
  <2> HIDE DEF pc
  <2> QED
    BY <2>1, <2>3, <2>5, <2>6 DEF Moves
<1>10. CASE RegisterSession(p)
  BY <1>0, <1>10, GotoMoves DEF RegisterSession, At, Past
<1>11. CASE AddStream(p)
  BY <1>0, <1>11, GotoMoves DEF AddStream, At, Past
<1>12. CASE AddFails(p)
  <2>1. CASE Victim(p).fast
    BY <1>0, <1>12, <2>1, GotoMoves DEF AddFails, At, Past
  <2>2. CASE ~Victim(p).fast
    BY <1>12, <2>2, UnlockMoves DEF AddFails, At, Past
  <2> QED
    BY <2>1, <2>2
<1>13. CASE Undo(p)
  BY <1>13, UnlockMoves DEF Undo, At, Past
<1>14. CASE Insert(p)
  BY <1>14, UnlockMoves DEF Insert, At, Past
<1> QED
  BY <1>1, <1>2, <1>3, <1>4, <1>5, <1>6, <1>7, <1>8, <1>9, <1>10, <1>11, <1>12, <1>13, <1>14
     DEF Step

\* What the steps do to the shared maps, typed.
LEMMA StepType ==
    ASSUME Base, NEW p \in Procs, Step(p)
    PROVE  /\ sessions' \subseteq Session /\ relay' \subseteq Session /\ stale' \subseteq Session
           /\ streams' \in [Servers -> SUBSET Session]
           /\ made' \in 0..MaxSessions
           /\ UNCHANGED <<purge, reboots>>
<1> USE DEF Removing, Making
<1>0. call[p].pc \in Removing \cup Making => Victim(p) \in Session
  BY DEF Base, LocalInv
<1>s. \A S \in SUBSET Session : \A v \in Servers :
         [streams EXCEPT ![v] = @ \cup S] \in [Servers -> SUBSET Session]
  BY DEF Base, TypeOK
<1>d. \A S : \A v \in Servers :
         [streams EXCEPT ![v] = @ \ S] \in [Servers -> SUBSET Session]
  BY DEF Base, TypeOK
<1>v. \A s \in Session : ServerFor(s) \in Servers
  BY PlaybackAssumption DEF ServerFor, Session
<1>e. \A s \in Session : Deleted(s) \in [Servers -> SUBSET Session]
  BY <1>d, <1>v DEF Deleted
<1>f. \A s \in Session : Added(s) \in [Servers -> SUBSET Session]
  BY <1>s, <1>v DEF Added
<1>t. TypeOK
  BY DEF Base
<1>1. CASE Pick(p)
  BY <1>1, <1>t DEF Pick, TypeOK
<1>2. CASE DeleteStream(p)
  BY <1>2, <1>t, <1>0, <1>e DEF DeleteStream, At, TypeOK
<1>3. CASE DeleteFails(p)
  BY <1>3, <1>t, <1>0, <1>e DEF DeleteFails, At, TypeOK
<1>4. CASE UnregisterSession(p)
  BY <1>4, <1>t DEF UnregisterSession, TypeOK
<1>5. CASE Forget(p)
  BY <1>5, <1>t DEF Forget, TypeOK
<1>6. CASE CleanReturns(p)
  BY <1>6, <1>t DEF CleanReturns, TypeOK
<1>7. CASE SeekGoesOn(p)
  BY <1>7, <1>t DEF SeekGoesOn, TypeOK
<1>8. CASE NoCredentials(p)
  BY <1>8, <1>t DEF NoCredentials, TypeOK
<1>9. CASE Create(p)
  <2>1. made' \in 0..MaxSessions
    BY <1>9, <1>t, PlaybackAssumption DEF Create, TypeOK
  <2> QED
    BY <1>9, <1>t, <2>1 DEF Create, TypeOK
<1>10. CASE RegisterSession(p)
  BY <1>10, <1>t, <1>0 DEF RegisterSession, At, TypeOK
<1>11. CASE AddStream(p)
  BY <1>11, <1>t, <1>0, <1>f DEF AddStream, At, TypeOK
<1>12. CASE AddFails(p)
  BY <1>12, <1>t, <1>0, <1>f DEF AddFails, At, TypeOK
<1>13. CASE Undo(p)
  BY <1>13, <1>t DEF Undo, TypeOK
<1>14. CASE Insert(p)
  BY <1>14, <1>t, <1>0 DEF Insert, At, TypeOK
<1> QED
  BY <1>1, <1>2, <1>3, <1>4, <1>5, <1>6, <1>7, <1>8, <1>9, <1>10, <1>11, <1>12, <1>13, <1>14
     DEF Step

\* Purge g, or the health check that may start it, goes on.
Purges(g) == CheckStreams(g) \/ PurgeStep(g)

\* What it does: only g's entry changes, at most one listed stream of Central
\* goes, and what is due for deletion was due before or has no session.
PurgeMoves(g, u) ==
    /\ u \in Purge /\ purge' = [purge EXCEPT ![g] = u]
    /\ u.listed \subseteq purge[g].listed \cup streams[Central]
    /\ \/ u.pc # "delete" /\ streams' = streams
       \/ u.pc = "delete" /\ mu = Nobody /\ u.listed \cap sessions = {} /\ streams' = streams
       \/ /\ u.pc = "delete" /\ purge[g].pc = "delete" /\ u.listed \subseteq purge[g].listed
          /\ \/ streams' = streams
             \/ \E s \in purge[g].listed : streams' = [streams EXCEPT ![Central] = @ \ {s}]

LEMMA PurgeShared ==
    ASSUME Base, NEW g \in Purgers, Purges(g)
    PROVE  /\ \E u \in Purge : PurgeMoves(g, u)
           /\ UNCHANGED <<sessions, relay, stale, mu, call, made, reboots>>
<1>t. purge[g] \in Purge /\ streams[Central] \subseteq Session
  BY PlaybackAssumption DEF Base, TypeOK
<1>p. NoPurge \in Purge /\ NoPurge.pc = "off" /\ NoPurge.listed = {}
  BY DEF Purge, NoPurge
<1>1. CASE CheckStreams(g)
  <2> DEFINE u == [pc |-> "count", listed |-> streams[Central]]
  <2>1. u \in Purge /\ u.pc # "delete" /\ u.listed = streams[Central]
    BY <1>t DEF Purge
  <2>2. PurgeMoves(g, u)
    BY <1>1, <2>1 DEF CheckStreams, SetPurge, Untouched, PurgeMoves
  <2> QED
    BY <1>1, <2>1, <2>2 DEF CheckStreams, Untouched
<1>2. CASE CountOrphans(g)
  <2> DEFINE pc == IF purge[g].listed \subseteq sessions THEN "off" ELSE "list"
             u == [NoPurge EXCEPT !.pc = pc]
  <2>1. pc \in {"off", "list"}
    OBVIOUS
  <2>2. purge' = [purge EXCEPT ![g] = u] /\ streams' = streams
    BY <1>2 DEF CountOrphans, SetPurge, Untouched
  <2> HIDE DEF pc
  <2>3. u \in Purge /\ u.pc # "delete" /\ u.listed = {}
    BY <2>1 DEF Purge, NoPurge
  <2> HIDE DEF u
  <2>4. PurgeMoves(g, u)
    BY <2>2, <2>3 DEF PurgeMoves
  <2> QED
    BY <1>2, <2>3, <2>4 DEF CountOrphans, Untouched
<1>3. CASE PurgeList(g)
  <2> DEFINE u == [pc |-> "snapshot", listed |-> streams[Central]]
  <2>1. u \in Purge /\ u.pc # "delete" /\ u.listed = streams[Central]
    BY <1>t DEF Purge
  <2>2. PurgeMoves(g, u)
    BY <1>3, <2>1 DEF PurgeList, SetPurge, Untouched, PurgeMoves
  <2> QED
    BY <1>3, <2>1, <2>2 DEF PurgeList, Untouched
<1>4. CASE PurgeListFails(g) \/ PurgeEnds(g)
  <2>1. PurgeMoves(g, NoPurge)
    BY <1>4, <1>p DEF PurgeListFails, PurgeEnds, SetPurge, Untouched, PurgeMoves
  <2> QED
    BY <1>4, <1>p, <2>1 DEF PurgeListFails, PurgeEnds, Untouched
<1>5. CASE PurgeSnapshot(g)
  <2> DEFINE u == [pc |-> "delete", listed |-> purge[g].listed \ sessions]
  <2>1. u \in Purge /\ u.pc = "delete" /\ u.listed = purge[g].listed \ sessions
    BY <1>t DEF Purge
  <2>2. purge' = [purge EXCEPT ![g] = u] /\ streams' = streams /\ mu = Nobody
    BY <1>5 DEF PurgeSnapshot, SetPurge, Untouched
  <2> HIDE DEF u
  <2>3. PurgeMoves(g, u)
    BY <2>1, <2>2 DEF PurgeMoves
  <2> QED
    BY <1>5, <2>1, <2>3 DEF PurgeSnapshot, Untouched
<1>6. ASSUME NEW s \in Session, PurgeDelete(g, s) \/ PurgeDeleteFails(g, s)
      PROVE  /\ \E u \in Purge : PurgeMoves(g, u)
             /\ UNCHANGED <<sessions, relay, stale, mu, call, made, reboots>>
  <2> DEFINE u == [purge[g] EXCEPT !.listed = @ \ {s}]
  <2>1. u \in Purge /\ u.pc = purge[g].pc /\ u.listed = purge[g].listed \ {s}
    BY <1>t DEF Purge
  <2>2. /\ purge' = [purge EXCEPT ![g] = u] /\ purge[g].pc = "delete" /\ s \in purge[g].listed
        /\ streams' = streams \/ streams' = [streams EXCEPT ![Central] = @ \ {s}]
    BY <1>6 DEF PurgeDelete, PurgeDeleteFails, SetPurge, Untouched
  <2> HIDE DEF u
  <2>3. PurgeMoves(g, u)
    BY <2>1, <2>2 DEF PurgeMoves
  <2> QED
    BY <1>6, <2>1, <2>3 DEF PurgeDelete, PurgeDeleteFails, Untouched
<1> QED
  BY <1>1, <1>2, <1>3, <1>4, <1>5, <1>6 DEF Purges, PurgeStep

LEMMA BootPurgeType ==
    /\ BootPurge \in [Purgers -> Purge]
    /\ \A g \in Purgers : BootPurge[g].pc # "delete" /\ BootPurge[g].listed = {}
<1>1. NoPurge \in Purge /\ NoPurge.pc = "off" /\ NoPurge.listed = {}
  BY DEF Purge, NoPurge
<1>2. \A pc \in {"list"} : LET u == [NoPurge EXCEPT !.pc = pc]
                        IN  u \in Purge /\ u.pc = pc /\ u.listed = {}
  BY DEF Purge, NoPurge
<1>3. \A g \in Purgers : BootPurge[g] = IF g = BootPurger THEN [NoPurge EXCEPT !.pc = "list"] ELSE NoPurge
  BY PlaybackAssumption DEF BootPurge
<1>4. BootPurge = [g \in Purgers |-> BootPurge[g]]
  BY DEF BootPurge
<1> QED
  BY <1>1, <1>2, <1>3, <1>4

LEMMA InitBase == Init => Base
<1> SUFFICES ASSUME Init PROVE Base
  OBVIOUS
<1>1. TypeOK
  <2>1. call \in [Procs -> Call]
    BY NoCallType DEF Init
  <2> QED
    BY <2>1, BootPurgeType, PlaybackAssumption DEF Init, TypeOK
<1>2. \A p \in Procs : call[p].pc = "idle"
  BY NoCallType DEF Init
<1> QED
  BY <1>1, <1>2 DEF Base, MutexInv, LocalInv, Removing, Making

LEMMA NextBase == Base /\ [Next]_vars => Base'
<1> SUFFICES ASSUME Base, [Next]_vars PROVE Base'
  OBVIOUS
<1>t. TypeOK
  BY DEF Base
\* A goroutine moves and the rest keeps its type.
<1>m. ASSUME NEW p \in Procs, Moves(p),
             sessions' \subseteq Session, relay' \subseteq Session, stale' \subseteq Session,
             streams' \in [Servers -> SUBSET Session], made' \in 0..MaxSessions,
             UNCHANGED <<purge, reboots>>
      PROVE  Base'
  <2>1. MutexInv' /\ LocalInv' /\ call' \in [Procs -> Call] /\ mu' \in Procs \cup {Nobody}
    BY <1>m, MovesKeeps
  <2>2. TypeOK'
    BY <1>m, <1>t, <2>1 DEF TypeOK
  <2> QED
    BY <2>1, <2>2 DEF Base
<1>1. ASSUME NEW p \in Procs, NEW op \in {"start", "stop", "seek", "sweep"}, Begin(p, op)
      PROVE  Base'
  <2>1. Moves(p)
    BY <1>1, RequestMoves
  <2> QED
    BY <1>1, <1>m, <1>t, <2>1 DEF Begin, TypeOK
<1>2. ASSUME NEW p \in Procs, Lock(p) PROVE Base'
  <2>1. Moves(p)
    BY <1>2, LockMoves
  <2>2. UNCHANGED <<sessions, relay, streams, stale, purge, made, reboots>>
    BY <1>2 DEF Lock, LockToStart, LockToStop, LockToSweep, Enter
  <2> QED
    BY <1>m, <1>t, <2>1, <2>2 DEF TypeOK
<1>3. ASSUME NEW p \in Procs, Step(p) PROVE Base'
  BY <1>3, <1>m, StepMoves, StepType
\* Nothing moves.
<1>k. ASSUME UNCHANGED <<mu, call>> PROVE MutexInv' /\ LocalInv'
  BY <1>k DEF Base, MutexInv, LocalInv, Victim
<1>4. ASSUME NEW g \in Purgers, Purges(g) PROVE Base'
  <2>1. PICK u \in Purge : PurgeMoves(g, u)
    BY <1>4, PurgeShared
  <2>2. purge' \in [Purgers -> Purge]
    BY <1>t, <2>1 DEF PurgeMoves, TypeOK
  <2>3. streams' \in [Servers -> SUBSET Session]
    BY <1>t, <2>1, PlaybackAssumption DEF PurgeMoves, TypeOK
  <2>4. UNCHANGED <<sessions, relay, stale, mu, call, made, reboots>>
    BY <1>4, PurgeShared
  <2>5. TypeOK'
    BY <1>t, <2>2, <2>3, <2>4 DEF TypeOK
  <2> QED
    BY <1>k, <2>4, <2>5 DEF Base
<1>5. ASSUME NEW s \in Session, Age(s) PROVE Base'
  <2>1. TypeOK'
    BY <1>5, <1>t DEF Age, TypeOK
  <2> QED
    BY <1>5, <1>k, <2>1 DEF Base, Age
<1>6. CASE Reboot
  <2>1. TypeOK'
    <3>1. call' \in [Procs -> Call]
      BY <1>6, NoCallType DEF Reboot
    <3>2. reboots' \in 0..MaxReboots
      BY <1>6, <1>t, PlaybackAssumption DEF Reboot, TypeOK
    <3> QED
      BY <1>6, <1>t, <3>1, <3>2, BootPurgeType DEF Reboot, TypeOK
  <2>2. \A p \in Procs : call'[p].pc = "idle"
    BY <1>6, NoCallType DEF Reboot
  <2> QED
    BY <2>1, <2>2 DEF Base, MutexInv, LocalInv, Removing, Making
<1>7. CASE UNCHANGED vars
  <2>1. TypeOK'
    BY <1>7, <1>t DEF vars, TypeOK
  <2> QED
    BY <1>7, <1>k, <2>1 DEF vars, Base
<1>8. Clients \subseteq Procs /\ Sweeper \in Procs
  BY DEF Procs
<1> QED
  BY <1>1, <1>2, <1>3, <1>4, <1>5, <1>6, <1>7, <1>8
     DEF Next, Request, StartRequest, StopRequest, SeekRequest, SweepTick, Purges

LEMMA Basic == Spec => []Base
BY InitBase, NextBase, PTL DEF Spec

\* The shared maps of playback sessions, the locals of the goroutines and
\* the state of the purges keep their types.
THEOREM PlaybackTypeCorrect == Spec => []TypeOK
BY Basic, PTL DEF Base

-----------------------------------------------------------------------------
(* The steps of the holder of the mutex, in one place.                      *)

\* Who is past Lock() is alone there.
LEMMA Alone ==
    ASSUME Base, NEW p \in Procs, NEW q \in Procs, Past(p), Past(q)
    PROVE  p = q
BY DEF Base, MutexInv, Past

LEMMA StepTurns ==
    ASSUME Base, NEW p \in Procs
    PROVE  /\ Pick(p) => \E s \in call[p].todo :
                s \in Session /\ Turns(p, call[p].op, "delete", call[p].nvr, call[p].todo \ {s}, s)
           /\ DeleteStream(p) => Turns(p, call[p].op, "unrelay", call[p].nvr, call[p].todo, Victim(p))
           /\ DeleteFails(p) => \E pc \in {"delete", "unrelay"} :
                Turns(p, call[p].op, pc, call[p].nvr, call[p].todo, Victim(p))
           /\ UnregisterSession(p) => Turns(p, call[p].op, "forget", call[p].nvr, call[p].todo, Victim(p))
           /\ Forget(p) => Turns(p, call[p].op, "clean", call[p].nvr, call[p].todo, NoSession)
           /\ CleanReturns(p) => Turns(p, "none", "idle", NoNvr, {}, NoSession)
           /\ SeekGoesOn(p) => Turns(p, "start", "lock", NoNvr, {}, NoSession)
           /\ NoCredentials(p) => Turns(p, "none", "idle", NoNvr, {}, NoSession)
           /\ RegisterSession(p) => Turns(p, call[p].op, "add", call[p].nvr, call[p].todo, Victim(p))
           /\ AddStream(p) => Turns(p, call[p].op, "insert", call[p].nvr, call[p].todo, Victim(p))
           /\ AddFails(p) => IF Victim(p).fast
                THEN Turns(p, call[p].op, "undo", call[p].nvr, call[p].todo, Victim(p))
                ELSE Turns(p, "none", "idle", NoNvr, {}, NoSession)
           /\ Undo(p) => Turns(p, "none", "idle", NoNvr, {}, NoSession)
           /\ Insert(p) => Turns(p, "none", "idle", NoNvr, {}, NoSession)
<1>0. TypeOK /\ {"unrelay", "forget", "add", "undo", "insert"} \subseteq PC
  BY DEF Base, PC
<1>1. Pick(p) => \E s \in call[p].todo :
        s \in Session /\ Turns(p, call[p].op, "delete", call[p].nvr, call[p].todo \ {s}, s)
  BY <1>0, PickTurns
<1>2. DeleteStream(p) => Turns(p, call[p].op, "unrelay", call[p].nvr, call[p].todo, Victim(p))
  BY <1>0, GotoTurns DEF DeleteStream
<1>3. DeleteFails(p) => \E pc \in {"delete", "unrelay"} :
        Turns(p, call[p].op, pc, call[p].nvr, call[p].todo, Victim(p))
  BY <1>0, FailsTurns
<1>4. UnregisterSession(p) => Turns(p, call[p].op, "forget", call[p].nvr, call[p].todo, Victim(p))
  BY <1>0, GotoTurns DEF UnregisterSession
<1>5. Forget(p) => Turns(p, call[p].op, "clean", call[p].nvr, call[p].todo, NoSession)
  BY <1>0, ForgetTurns
<1>6. Unlock(p) => Turns(p, "none", "idle", NoNvr, {}, NoSession)
  BY <1>0, UnlockTurns
<1>7. SeekGoesOn(p) => Turns(p, "start", "lock", NoNvr, {}, NoSession)
  BY <1>0, SeekTurns
<1>8. RegisterSession(p) => Turns(p, call[p].op, "add", call[p].nvr, call[p].todo, Victim(p))
  BY <1>0, GotoTurns DEF RegisterSession
<1>9. AddStream(p) => Turns(p, call[p].op, "insert", call[p].nvr, call[p].todo, Victim(p))
  BY <1>0, GotoTurns DEF AddStream
<1>10. Goto(p, "undo") => Turns(p, call[p].op, "undo", call[p].nvr, call[p].todo, Victim(p))
  BY <1>0, GotoTurns
<1> QED
  BY <1>1, <1>2, <1>3, <1>4, <1>5, <1>6, <1>7, <1>8, <1>9, <1>10
     DEF CleanReturns, NoCredentials, AddFails, Undo, Insert

LEMMA CreateBase ==
    ASSUME Base, NEW p \in Procs, Create(p)
    PROVE  \E s \in Session, pc \in {"register", "add"} :
              /\ s.id = made + 1 /\ s.nvr = call[p].nvr /\ (pc = "register" <=> s.fast)
              /\ Turns(p, call[p].op, pc, call[p].nvr, call[p].todo, s)
              /\ call[p].op = "start" /\ call[p].todo = {} /\ call[p].pc = "clean"
              /\ made' = made + 1
<1>1. call[p].op = "start" /\ call[p].todo = {} /\ call[p].pc = "clean" /\ made' = made + 1
  BY DEF Create, At
<1>2. call[p].nvr \in Nvrs
  BY <1>1 DEF Base, LocalInv
<1>3. PICK f \in BOOLEAN :
        LET s == [id |-> made + 1, nvr |-> call[p].nvr, fast |-> f]
        IN  /\ s \in Session
            /\ Turns(p, call[p].op, IF f THEN "register" ELSE "add",
                     call[p].nvr, call[p].todo, s)
  BY <1>2, CreateTurns DEF Base
<1> DEFINE s == [id |-> made + 1, nvr |-> call[p].nvr, fast |-> f]
           pc == IF f THEN "register" ELSE "add"
<1>4. s \in Session /\ s.id = made + 1 /\ s.nvr = call[p].nvr /\ s.fast = f
  BY <1>3
<1>5. Turns(p, call[p].op, pc, call[p].nvr, call[p].todo, s)
  BY <1>3
<1>6. pc \in {"register", "add"} /\ (pc = "register" <=> s.fast)
  BY <1>4
<1> HIDE DEF s, pc
<1> QED
  BY <1>1, <1>4, <1>5, <1>6

\* A step is one of somebody past Lock(), and moves nobody else.
LEMMA StepAlone ==
    ASSUME Base, NEW p \in Procs, Step(p)
    PROVE  /\ Past(p)
           /\ \A q \in Procs \ {p} : call'[q] = call[q] /\ ~Past(q)
<1>1. Past(p)
  BY DEF Step, Past, At, Pick, DeleteStream, DeleteFails, UnregisterSession, Forget, CleanReturns,
         SeekGoesOn, NoCredentials, Create, RegisterSession, AddStream, AddFails, Undo, Insert
<1>2. \A q \in Procs \ {p} : call'[q] = call[q]
  BY StepMoves DEF Moves, Turns
<1> QED
  BY <1>1, <1>2, Alone

\* Steps that only begin or take the mutex.
Arrives(p) == (\E op \in {"start", "stop", "seek", "sweep"} : Begin(p, op)) \/ Lock(p)

LEMMA ArrivesFrame ==
    ASSUME Base, NEW p \in Procs, Arrives(p)
    PROVE  /\ call'[p].pc \in {"lock", "clean"} /\ call[p].pc \in {"idle", "lock"}
           /\ \A q \in Procs \ {p} : call'[q] = call[q]
           /\ UNCHANGED <<sessions, relay, streams, purge, made>>
<1>1. Moves(p)
  BY RequestMoves, LockMoves DEF Arrives
<1>2. \A q \in Procs \ {p} : call'[q] = call[q]
  BY <1>1 DEF Moves, Turns
<1>3. ASSUME NEW op \in {"start", "stop", "seek", "sweep"}, Begin(p, op)
      PROVE  call'[p].pc = "lock" /\ call[p].pc = "idle"
  BY <1>3, BeginTurns DEF Begin, At, Base, Turns
<1>4. ASSUME NEW n, NEW S, Enter(p, n, S)
      PROVE  call'[p].pc = "clean" /\ call[p].pc = "lock"
  <2> DEFINE c == [call[p] EXCEPT !.pc = "clean", !.nvr = n, !.todo = S]
  <2>1. c.pc = "clean"
    BY DEF Base, TypeOK, Call
  <2>2. call' = [call EXCEPT ![p] = c]
    BY <1>4 DEF Enter, Set
  <2> HIDE DEF c
  <2> QED
    BY <1>4, <2>1, <2>2 DEF Enter, At, Base, TypeOK
<1>5. UNCHANGED <<sessions, relay, streams, purge, made>>
  BY DEF Arrives, Begin, Lock, LockToStart, LockToStop, LockToSweep, Enter
<1> QED
  BY <1>2, <1>3, <1>4, <1>5 DEF Arrives, Lock, LockToStart, LockToStop, LockToSweep

\* Every step of the system.
LEMMA NextCases ==
    ASSUME Next
    PROVE  \/ \E p \in Procs : Arrives(p) \/ Step(p)
           \/ \E g \in Purgers : Purges(g)
           \/ \E s \in Session : Age(s)
           \/ Reboot
BY DEF Next, Request, StartRequest, StopRequest, SeekRequest, SweepTick, Arrives, Procs, Purges

-----------------------------------------------------------------------------
(* The limit of sessions per recorder.                                      *)

\* The sessions of its recorder that p is not about to remove.
Staying(p) == {s \in SessionsOf(call[p].nvr) :
                 s \notin call[p].todo /\ ~(s = Victim(p) /\ call[p].pc \in Removing)}

\* A start that has the mutex has made room, or is making it.
RoomInv == \A p \in Procs :
    Past(p) /\ call[p].op = "start" => Cardinality(Staying(p)) < maxSessionsPerNVR

LimitInv == IsFiniteSet(sessions) /\ SessionLimit /\ RoomInv

LEMMA InitLimit == Init => LimitInv
<1> SUFFICES ASSUME Init PROVE LimitInv
  OBVIOUS
<1>1. \A n \in Nvrs : SessionsOf(n) = {}
  BY DEF Init, SessionsOf
<1>2. \A p \in Procs : call[p].pc = "idle"
  BY NoCallType DEF Init
<1>3. IsFiniteSet(sessions) /\ Cardinality({}) = 0
  BY FS_EmptySet DEF Init
<1>4. SessionLimit
  BY <1>1, <1>3, PlaybackAssumption DEF SessionLimit
<1>5. RoomInv
  BY <1>2 DEF RoomInv, Past
<1> QED
  BY <1>3, <1>4, <1>5 DEF LimitInv

\* Removing sessions cannot break the limit.
LEMMA LimitShrinks ==
    ASSUME LimitInv, sessions' \subseteq sessions
    PROVE  IsFiniteSet(sessions)' /\ SessionLimit'
<1>1. IsFiniteSet(sessions)'
  BY FS_Subset DEF LimitInv
<1>2. ASSUME NEW n \in Nvrs
      PROVE  Cardinality(SessionsOf(n)') <= maxSessionsPerNVR
  <2>1. IsFiniteSet(SessionsOf(n))
    BY FS_Subset DEF LimitInv, SessionsOf
  <2>2. SessionsOf(n)' \subseteq SessionsOf(n)
    BY DEF SessionsOf
  <2> DEFINE S == SessionsOf(n)
             T == SessionsOf(n)'
  <2>3. Cardinality(S) \in Nat /\ Cardinality(T) \in Nat /\ Cardinality(T) <= Cardinality(S)
    <3> HIDE DEF S, T
    <3> QED
      BY <2>1, <2>2, FS_Subset, FS_CardinalityType DEF S, T
  <2>4. Cardinality(S) <= maxSessionsPerNVR
    BY DEF LimitInv, SessionLimit
  <2> HIDE DEF S, T
  <2> QED
    BY <2>3, <2>4, PlaybackAssumption DEF T
<1> QED
  BY <1>1, <1>2 DEF SessionLimit

\* The holder of the mutex keeps the room it has, or leaves.
LEMMA RoomKept ==
    ASSUME Base, RoomInv, NEW p \in Procs, Step(p),
           Past(p)' /\ call'[p].op = "start" =>
               call[p].op = "start" /\ Staying(p)' = Staying(p)
    PROVE  RoomInv'
<1> SUFFICES ASSUME NEW q \in Procs, Past(q)', call'[q].op = "start"
             PROVE  Cardinality(Staying(q)') < maxSessionsPerNVR
  BY DEF RoomInv
<1>1. q = p
  BY StepAlone DEF Past
<1> QED
  BY <1>1, StepAlone DEF RoomInv

LEMMA StepLimit ==
    ASSUME Base, LimitInv, NEW p \in Procs, Step(p)
    PROVE  LimitInv'
<1> USE DEF Removing
<1>r. RoomInv
  BY DEF LimitInv
\* Neither the sessions nor what p will leave of them change.
<1>s. ASSUME sessions' \subseteq sessions,
             Past(p)' /\ call'[p].op = "start" =>
               call[p].op = "start" /\ Staying(p)' = Staying(p)
      PROVE  LimitInv'
  BY <1>r, <1>s, LimitShrinks, RoomKept DEF LimitInv
<1>1. CASE Pick(p)
  <2>1. PICK s \in call[p].todo :
          s \in Session /\ Turns(p, call[p].op, "delete", call[p].nvr, call[p].todo \ {s}, s)
    BY <1>1, StepTurns
  <2>2. Staying(p)' = Staying(p)
    BY <1>1, <2>1 DEF Staying, SessionsOf, Victim, Turns, Pick, At
  <2> QED
    BY <1>1, <1>s, <2>1, <2>2 DEF Pick, Turns
<1>2. CASE DeleteStream(p)
  <2>1. Turns(p, call[p].op, "unrelay", call[p].nvr, call[p].todo, Victim(p))
    BY <1>2, StepTurns
  <2>2. Staying(p)' = Staying(p)
    BY <1>2, <2>1 DEF Staying, SessionsOf, Victim, Turns, DeleteStream, At
  <2> QED
    BY <1>2, <1>s, <2>1, <2>2 DEF DeleteStream, Turns
<1>3. CASE DeleteFails(p)
  <2>1. PICK pc \in {"delete", "unrelay"} :
          Turns(p, call[p].op, pc, call[p].nvr, call[p].todo, Victim(p))
    BY <1>3, StepTurns
  <2>2. Staying(p)' = Staying(p)
    BY <1>3, <2>1 DEF Staying, SessionsOf, Victim, Turns, DeleteFails, At
  <2> QED
    BY <1>3, <1>s, <2>1, <2>2 DEF DeleteFails, Turns
<1>4. CASE UnregisterSession(p)
  <2>1. Turns(p, call[p].op, "forget", call[p].nvr, call[p].todo, Victim(p))
    BY <1>4, StepTurns
  <2>2. Staying(p)' = Staying(p)
    BY <1>4, <2>1 DEF Staying, SessionsOf, Victim, Turns, UnregisterSession, At
  <2> QED
    BY <1>4, <1>s, <2>1, <2>2 DEF UnregisterSession, Turns
<1>5. CASE Forget(p)
  <2>1. Turns(p, call[p].op, "clean", call[p].nvr, call[p].todo, NoSession)
    BY <1>5, StepTurns
  <2>2. Staying(p)' = Staying(p)
    BY <1>5, <2>1 DEF Staying, SessionsOf, Victim, Turns, Forget, At
  <2> QED
    BY <1>5, <1>s, <2>1, <2>2 DEF Forget, Turns
<1>6. CASE CleanReturns(p) \/ NoCredentials(p) \/ Undo(p)
  <2>1. Turns(p, "none", "idle", NoNvr, {}, NoSession)
    BY <1>6, StepTurns
  <2> QED
    BY <1>6, <1>s, <2>1 DEF CleanReturns, NoCredentials, Undo, Turns
<1>7. CASE SeekGoesOn(p)
  <2>1. Turns(p, "start", "lock", NoNvr, {}, NoSession)
    BY <1>7, StepTurns
  <2> QED
    BY <1>7, <1>s, <2>1 DEF SeekGoesOn, Turns, Past
<1>8. CASE Create(p)
  <2>1. PICK s \in Session, pc \in {"register", "add"} :
          /\ Turns(p, call[p].op, pc, call[p].nvr, call[p].todo, s)
          /\ call[p].op = "start" /\ call[p].todo = {} /\ call[p].pc = "clean"
    BY <1>8, CreateBase
  <2>2. Staying(p)' = Staying(p)
    BY <1>8, <2>1 DEF Staying, SessionsOf, Victim, Turns, Create
  <2> QED
    BY <1>8, <1>s, <2>1, <2>2 DEF Create
<1>9. CASE RegisterSession(p)
  <2>1. Turns(p, call[p].op, "add", call[p].nvr, call[p].todo, Victim(p))
    BY <1>9, StepTurns
  <2>2. Staying(p)' = Staying(p)
    BY <1>9, <2>1 DEF Staying, SessionsOf, Victim, Turns, RegisterSession, At
  <2> QED
    BY <1>9, <1>s, <2>1, <2>2 DEF RegisterSession, Turns
<1>10. CASE AddStream(p)
  <2>1. Turns(p, call[p].op, "insert", call[p].nvr, call[p].todo, Victim(p))
    BY <1>10, StepTurns
  <2>2. Staying(p)' = Staying(p)
    BY <1>10, <2>1 DEF Staying, SessionsOf, Victim, Turns, AddStream, At
  <2> QED
    BY <1>10, <1>s, <2>1, <2>2 DEF AddStream, Turns
<1>11. CASE AddFails(p)
  <2>1. CASE Victim(p).fast
    <3>1. Turns(p, call[p].op, "undo", call[p].nvr, call[p].todo, Victim(p))
      BY <1>11, <2>1, StepTurns
    <3>2. Staying(p)' = Staying(p)
      BY <1>11, <3>1 DEF Staying, SessionsOf, Victim, Turns, AddFails, At
    <3> QED
      BY <1>11, <1>s, <3>1, <3>2 DEF AddFails, Turns
  <2>2. CASE ~Victim(p).fast
    <3>1. Turns(p, "none", "idle", NoNvr, {}, NoSession)
      BY <1>11, <2>2, StepTurns
    <3> QED
      BY <1>11, <1>s, <3>1 DEF AddFails, Turns
  <2> QED
    BY <2>1, <2>2
<1>12. CASE Insert(p)
  <2>n. PICK n \in Nvrs : n = call[p].nvr
    BY <1>12 DEF Base, LocalInv, Insert, At, Making
  <2> DEFINE v == Victim(p)
  <2>1. Turns(p, "none", "idle", NoNvr, {}, NoSession) /\ sessions' = sessions \cup {v}
    BY <1>12, StepTurns DEF Insert
  <2>2. v \in Session /\ v.nvr = n /\ call[p].op = "start" /\ call[p].todo = {}
    BY <1>12, <2>n DEF Base, LocalInv, Insert, At, Making
  <2>3. Staying(p) = SessionsOf(n)
    BY <1>12, <2>2, <2>n DEF Staying, Insert, At
  <2>4. Cardinality(SessionsOf(n)) < maxSessionsPerNVR
    BY <1>r, <2>2, <2>3, StepAlone DEF RoomInv
  <2>5. IsFiniteSet(SessionsOf(n))
    BY FS_Subset DEF LimitInv, SessionsOf
  <2>6. SessionsOf(n)' = SessionsOf(n) \cup {v}
    BY <2>1, <2>2 DEF SessionsOf
  <2>7. \A m \in Nvrs \ {n} : SessionsOf(m)' = SessionsOf(m)
    BY <2>1, <2>2 DEF SessionsOf
  <2>8. Cardinality(SessionsOf(n) \cup {v}) <= maxSessionsPerNVR
    <3> DEFINE S == SessionsOf(n)
    <3> HIDE DEF S, v
    <3>1. Cardinality(S \cup {v}) = IF v \in S THEN Cardinality(S) ELSE Cardinality(S) + 1
      BY <2>5, FS_AddElement DEF S
    <3>2. Cardinality(S) \in Nat /\ Cardinality(S) < maxSessionsPerNVR
      BY <2>4, <2>5, FS_CardinalityType DEF S
    <3> QED
      BY <3>1, <3>2, PlaybackAssumption DEF S
  <2>9. SessionLimit'
    BY <2>6, <2>7, <2>8 DEF SessionLimit, LimitInv
  <2>10. IsFiniteSet(sessions)'
    BY <2>1, FS_AddElement DEF LimitInv
  <2>11. RoomInv'
    <3>1. ~Past(p)'
      BY <2>1 DEF Past, Turns
    <3> QED
      BY <1>r, <3>1, RoomKept
  <2> QED
    BY <2>9, <2>10, <2>11 DEF LimitInv
<1> QED
  BY <1>1, <1>2, <1>3, <1>4, <1>5, <1>6, <1>7, <1>8, <1>9, <1>10, <1>11, <1>12 DEF Step

\* What createPlaybackSession evicts is enough.
LEMMA EvictionMakesRoom ==
    ASSUME TypeOK, IsFiniteSet(sessions), SessionLimit, NEW n \in Nvrs
    PROVE  Cardinality(SessionsOf(n) \ Evicted(n)) < maxSessionsPerNVR
<1> DEFINE S == SessionsOf(n)
           max == maxSessionsPerNVR
<1>1. IsFiniteSet(S)
  BY FS_Subset DEF SessionsOf
<1>2. Cardinality(S) \in Nat /\ max \in Nat \ {0} /\ Cardinality(S) <= max
  BY <1>1, FS_CardinalityType, PlaybackAssumption DEF SessionLimit
<1>3. CASE Cardinality(S) >= max
  <2>1. S # {} /\ S \in SUBSET Session
    <3>1. S \in SUBSET Session
      BY DEF TypeOK, SessionsOf
    <3> HIDE DEF S, max
    <3>2. S # {}
      BY <1>2, <1>3, FS_EmptySet
    <3> QED
      BY <3>1, <3>2
  <2>2. PICK s \in S : \A t \in S : s.id <= t.id
    BY <2>1, Oldest
  <2>3. s \in Evicted(n)
    BY <1>3, <2>2 DEF Evicted
  <2>4. S \ Evicted(n) \subseteq S \ {s}
    BY <2>3
  <2> DEFINE T == S \ Evicted(n)
             U == S \ {s}
  <2> HIDE DEF S, max
  <2>5. IsFiniteSet(U) /\ Cardinality(U) = Cardinality(S) - 1
    BY <1>1, <2>2, FS_RemoveElement
  <2>6. Cardinality(T) <= Cardinality(U) /\ Cardinality(T) \in Nat
    <3> HIDE DEF T, U
    <3> QED
      BY <2>4, <2>5, FS_Subset, FS_CardinalityType DEF T, U
  <2>7. Cardinality(T) < max
    <3> HIDE DEF T, U
    <3> QED
      BY <1>2, <2>5, <2>6
  <2> QED
    BY <2>7 DEF S, max
<1>4. CASE ~(Cardinality(S) >= max)
  <2>1. Evicted(n) = {}
    BY <1>4 DEF Evicted
  <2>2. S \ Evicted(n) = S /\ Cardinality(S) < max
    BY <1>2, <1>4, <2>1
  <2> QED
    BY <2>2
<1> QED
  BY <1>3, <1>4

LEMMA ArrivesLimit ==
    ASSUME Base, LimitInv, NEW p \in Procs, Arrives(p)
    PROVE  LimitInv'
<1>1. sessions' = sessions
  BY ArrivesFrame
<1>2. ASSUME NEW q \in Procs, Past(q)', call'[q].op = "start"
      PROVE  Cardinality(Staying(q)') < maxSessionsPerNVR
  <2>1. CASE q # p
    <3>1. call'[q] = call[q]
      BY <2>1, ArrivesFrame
    <3>2. Staying(q)' = Staying(q)
      BY <1>1, <3>1 DEF Staying, SessionsOf, Victim
    <3> QED
      BY <1>2, <3>1, <3>2 DEF LimitInv, RoomInv, Past
  <2>2. CASE q = p
    <3>1. Lock(p)
      BY <1>2, <2>2, BeginTurns DEF Arrives, Base, Turns, Past
    <3>2. CASE LockToStart(p)
      <4>1. PICK n \in Nvrs : Enter(p, n, Evicted(n))
        BY <3>2 DEF LockToStart
      <4>2. Turns(p, call[p].op, "clean", n, Evicted(n), Victim(p))
        BY <4>1, EnterTurns, EvictedType DEF Base
      <4>3. Staying(p)' = SessionsOf(n) \ Evicted(n)
        BY <1>1, <4>2 DEF Staying, SessionsOf, Turns, Removing
      <4> QED
        BY <2>2, <4>3, EvictionMakesRoom DEF LimitInv, Base
    <3>3. CASE LockToStop(p)
      <4>1. \E S \in SUBSET Session : Enter(p, NoNvr, S)
        <5>1. CASE Enter(p, NoNvr, {})
          BY <5>1
        <5>2. CASE \E s \in sessions : Enter(p, NoNvr, {s})
          BY <5>2 DEF Base, TypeOK
        <5> QED
          BY <3>3, <5>1, <5>2 DEF LockToStop
      <4>2. call'[p].op = call[p].op
        BY <4>1, EnterTurns DEF Base, Turns
      <4> QED
        BY <1>2, <2>2, <3>3, <4>2 DEF LockToStop
    <3>4. CASE LockToSweep(p)
      <4>1. stale \cap sessions \in SUBSET Session
        BY DEF Base, TypeOK
      <4>2. call'[p].op = call[p].op
        BY <3>4, <4>1, EnterTurns DEF LockToSweep, Base, Turns
      <4> QED
        BY <1>2, <2>2, <3>4, <4>2 DEF LockToSweep
    <3> QED
      BY <3>1, <3>2, <3>3, <3>4 DEF Lock
  <2> QED
    BY <2>1, <2>2
<1>3. RoomInv'
  BY <1>2 DEF RoomInv
<1> QED
  BY <1>1, <1>3, LimitShrinks DEF LimitInv

LEMMA NextLimit == Base /\ LimitInv /\ [Next]_vars => LimitInv'
<1> SUFFICES ASSUME Base, LimitInv, [Next]_vars PROVE LimitInv'
  OBVIOUS
<1>1. CASE \E p \in Procs : Arrives(p) \/ Step(p)
  BY <1>1, ArrivesLimit, StepLimit
<1>2. CASE UNCHANGED <<sessions, call>>
  BY <1>2 DEF LimitInv, SessionLimit, RoomInv, Staying, SessionsOf, Victim, Past
<1>3. CASE Reboot
  <2>1. sessions' \subseteq sessions
    BY <1>3 DEF Reboot
  <2>2. \A p \in Procs : call'[p].pc = "idle"
    BY <1>3, NoCallType DEF Reboot
  <2>3. RoomInv'
    BY <2>2 DEF RoomInv, Past
  <2> QED
    BY <2>1, <2>3, LimitShrinks DEF LimitInv
<1>4. ASSUME NEW g \in Purgers, Purges(g) PROVE LimitInv'
  BY <1>4, <1>2, PurgeShared
<1> QED
  BY <1>1, <1>2, <1>3, <1>4, NextCases DEF Age, vars

\* However starts, seeks, evictions, sweeps and failures interleave, no
\* recorder has more playback sessions than maxSessionsPerNVR.
THEOREM SessionsLimited == Spec => []SessionLimit
<1>1. Spec => [](Base /\ LimitInv)
  BY InitBase, NextBase, InitLimit, NextLimit, PTL DEF Spec
<1> QED
  BY <1>1, PTL DEF LimitInv

-----------------------------------------------------------------------------
(* Numbers of sessions: whatever is known was made before.                  *)

SessionIds == \A s \in sessions : s.id <= made
StreamIds == \A v \in Servers : \A s \in streams[v] : s.id <= made
ListedIds == \A g \in Purgers : \A s \in purge[g].listed : s.id <= made
NewIds == \A p \in Procs :
    call[p].pc \in Making => Victim(p).id <= made /\ Victim(p) \notin sessions

IdInv == SessionIds /\ StreamIds /\ ListedIds /\ NewIds

\* What a step of the holder does to the shared state and to what it makes.
LEMMA StepShared ==
    ASSUME Base, NEW p \in Procs, Step(p)
    PROVE  /\ made' = made \/ Create(p)
           /\ sessions' \subseteq sessions \/ Insert(p)
           /\ \A v \in Servers : streams'[v] \subseteq
                 streams[v] \cup IF call[p].pc = "add" THEN {Victim(p)} ELSE {}
           /\ call'[p].pc \in Making =>
                 \/ Create(p)
                 \/ /\ call[p].pc \in Making /\ call'[p].victim = Victim(p)
                    /\ sessions' = sessions /\ made' = made
           /\ purge' = purge
<1> USE DEF Making
<1>t. streams \in [Servers -> SUBSET Session]
  BY DEF Base, TypeOK
<1>1. made' = made \/ Create(p)
  BY DEF Step, Pick, DeleteStream, DeleteFails, UnregisterSession, Forget, CleanReturns,
         SeekGoesOn, NoCredentials, RegisterSession, AddStream, AddFails, Undo, Insert
<1>2. sessions' \subseteq sessions \/ Insert(p)
  BY DEF Step, Pick, DeleteStream, DeleteFails, UnregisterSession, Forget, CleanReturns,
         SeekGoesOn, NoCredentials, RegisterSession, AddStream, AddFails, Undo, Create
<1>3. \A v \in Servers : streams'[v] \subseteq
         streams[v] \cup IF call[p].pc = "add" THEN {Victim(p)} ELSE {}
  <2>1. CASE streams' = streams
    BY <2>1
  <2>2. CASE streams' = Deleted(Victim(p))
    BY <1>t, <2>2 DEF Deleted
  <2>3. CASE streams' = Added(Victim(p)) /\ call[p].pc = "add"
    BY <1>t, <2>3 DEF Added
  <2> QED
    BY <2>1, <2>2, <2>3
       DEF Step, Pick, DeleteStream, DeleteFails, UnregisterSession, Forget, CleanReturns,
           SeekGoesOn, NoCredentials, RegisterSession, AddStream, AddFails, Undo, Insert, Create, At
<1>4. ASSUME call'[p].pc \in Making
      PROVE  \/ Create(p)
             \/ /\ call[p].pc \in Making /\ call'[p].victim = Victim(p)
                /\ sessions' = sessions /\ made' = made
  <2>1. Create(p) \/ RegisterSession(p) \/ AddStream(p) \/ AddFails(p)
    BY <1>4, StepTurns DEF Step, Turns
  <2>2. CASE RegisterSession(p) \/ AddStream(p)
    BY <2>2, StepTurns DEF RegisterSession, AddStream, At, Turns
  <2>3. CASE AddFails(p)
    BY <1>4, <2>3, StepTurns DEF AddFails, At, Turns
  <2> QED
    BY <2>1, <2>2, <2>3
<1>5. purge' = purge
  BY StepType
<1> QED
  BY <1>1, <1>2, <1>3, <1>4, <1>5

LEMMA StepIds ==
    ASSUME Base, IdInv, NEW p \in Procs, Step(p)
    PROVE  IdInv'
<1>1. \A s \in Session : s.id <= made => s.id <= made'
  <2>1. CASE made' = made
    BY <2>1
  <2>2. CASE Create(p)
    BY <2>2 DEF Create, Base, TypeOK, Session
  <2> QED
    BY <2>1, <2>2, StepShared
<1>2. call[p].pc \in Making => Victim(p) \in Session /\ Victim(p).id <= made
  BY DEF Base, LocalInv, IdInv, NewIds
<1>3. SessionIds'
  BY <1>1, <1>2, StepShared DEF Insert, At, Making, IdInv, SessionIds, Base, TypeOK
<1>4. StreamIds'
  <2> SUFFICES ASSUME NEW v \in Servers, NEW s \in streams'[v]
               PROVE  s.id <= made'
    BY DEF StreamIds
  <2>1. CASE s \in streams[v]
    BY <1>1, <2>1 DEF IdInv, StreamIds, Base, TypeOK
  <2>2. CASE s = Victim(p) /\ call[p].pc = "add"
    BY <1>1, <1>2, <2>2 DEF Making
  <2> QED
    BY <2>1, <2>2, StepShared
<1>5. ListedIds'
  <2>1. \A g \in Purgers : purge[g].listed \subseteq Session
    BY DEF Base, TypeOK, Purge
  <2> QED
    BY <1>1, <2>1, StepShared DEF IdInv, ListedIds
<1>6. NewIds'
  <2> SUFFICES ASSUME NEW q \in Procs, call'[q].pc \in Making
               PROVE  call'[q].victim.id <= made' /\ call'[q].victim \notin sessions'
    BY DEF NewIds, Victim
  <2>1. q = p
    BY StepAlone DEF Making, Past
  <2>2. CASE Create(p)
    <3>1. PICK s \in Session, pc \in {"register", "add"} :
            s.id = made + 1 /\ Turns(p, call[p].op, pc, call[p].nvr, call[p].todo, s)
            /\ made' = made + 1
      BY <2>2, CreateBase
    <3>2. call'[p].victim = s /\ sessions' = sessions
      BY <2>2, <3>1 DEF Turns, Create
    <3>3. s \notin sessions
      BY <3>1 DEF IdInv, SessionIds, Base, TypeOK
    <3> QED
      BY <2>1, <3>1, <3>2, <3>3 DEF Base, TypeOK
  <2>3. CASE /\ call[p].pc \in Making /\ call'[p].victim = Victim(p)
             /\ sessions' = sessions /\ made' = made
    BY <2>1, <2>3 DEF IdInv, NewIds
  <2> QED
    BY <2>1, <2>2, <2>3, StepShared
<1> QED
  BY <1>3, <1>4, <1>5, <1>6 DEF IdInv

LEMMA InitIds == Init => IdInv
<1> SUFFICES ASSUME Init PROVE IdInv
  OBVIOUS
<1>1. \A p \in Procs : call[p].pc = "idle"
  BY NoCallType DEF Init
<1> QED
  BY <1>1, BootPurgeType DEF Init, IdInv, SessionIds, StreamIds, ListedIds, NewIds, Making

LEMMA NextIds == Base /\ IdInv /\ [Next]_vars => IdInv'
<1> SUFFICES ASSUME Base, IdInv, [Next]_vars PROVE IdInv'
  OBVIOUS
<1>1. ASSUME NEW p \in Procs, Step(p) PROVE IdInv'
  BY <1>1, StepIds
<1>2. ASSUME NEW p \in Procs, Arrives(p) PROVE IdInv'
  <2>1. NewIds'
    <3> SUFFICES ASSUME NEW q \in Procs, call'[q].pc \in Making
                 PROVE  call'[q].victim.id <= made' /\ call'[q].victim \notin sessions'
      BY DEF NewIds, Victim
    <3>1. q # p
      BY <1>2, ArrivesFrame DEF Making
    <3> QED
      BY <1>2, <3>1, ArrivesFrame DEF IdInv, NewIds, Victim
  <2> QED
    BY <1>2, <2>1, ArrivesFrame DEF IdInv, SessionIds, StreamIds, ListedIds
<1>3. ASSUME NEW g \in Purgers, Purges(g) PROVE IdInv'
  <2>1. PICK u \in Purge : PurgeMoves(g, u)
    BY <1>3, PurgeShared
  <2>2. UNCHANGED <<sessions, call, made>>
    BY <1>3, PurgeShared
  <2>3. \A h \in Purgers : purge'[h] = IF h = g THEN u ELSE purge[h]
    BY <2>1 DEF PurgeMoves, Base, TypeOK
  <2>4. ListedIds'
    BY <2>1, <2>2, <2>3, PlaybackAssumption DEF PurgeMoves, IdInv, StreamIds, ListedIds
  <2>5. \A v \in Servers : streams'[v] \subseteq streams[v]
    BY <2>1, PlaybackAssumption DEF PurgeMoves, Base, TypeOK
  <2>6. StreamIds'
    BY <2>2, <2>5 DEF IdInv, StreamIds
  <2> QED
    BY <2>2, <2>4, <2>6 DEF IdInv, SessionIds, NewIds, Victim
<1>4. CASE UNCHANGED <<sessions, streams, purge, call, made>>
  BY <1>4 DEF IdInv, SessionIds, StreamIds, ListedIds, NewIds, Victim
<1>5. CASE Reboot
  <2>1. \A p \in Procs : call'[p].pc = "idle"
    BY <1>5, NoCallType DEF Reboot
  <2>2. NewIds'
    BY <2>1 DEF NewIds, Making
  <2> QED
    BY <1>5, <2>2, BootPurgeType DEF Reboot, IdInv, SessionIds, StreamIds, ListedIds
<1> QED
  BY <1>1, <1>2, <1>3, <1>4, <1>5, NextCases DEF Age, vars

-----------------------------------------------------------------------------
(* Sessions have their streams.                                             *)

\* What a purge is about to delete belongs to no session, present or coming.
PurgeSafe == \A g \in Purgers : purge[g].pc = "delete" =>
    \A s \in purge[g].listed :
        /\ s \notin sessions
        /\ \A p \in Procs : call[p].pc \in Making => Victim(p) # s

InsertReady == \A p \in Procs :
    At(p, "insert") => Victim(p) \in streams[ServerFor(Victim(p))]

StreamInv == SessionStreamed /\ PurgeSafe /\ InsertReady

LEMMA ServerForType ==
    ASSUME NEW s \in Session
    PROVE  ServerFor(s) \in Servers
BY PlaybackAssumption DEF ServerFor, Session

\* While the holder takes a step, nobody else is removing a session.
LEMMA Leaves ==
    ASSUME Base, NEW p \in Procs, Step(p), NEW s, Leaving(s)
    PROVE  s = Victim(p) /\ call[p].pc \in Removing
BY StepAlone DEF Leaving, Removing, Past

LEMMA StepStreamed ==
    ASSUME Base, IdInv, StreamInv, NEW p \in Procs, Step(p)
    PROVE  SessionStreamed'
<1> SUFFICES ASSUME NEW s \in sessions'
             PROVE  s \in streams'[ServerFor(s)] \/ Leaving(s)'
  BY DEF SessionStreamed, ServerFor
<1> USE DEF Removing
<1>t. streams \in [Servers -> SUBSET Session]
  BY DEF Base, TypeOK
<1>s. s \in Session
  BY StepType
<1>v. call[p].pc \in Removing \cup Making => Victim(p) \in Session
  BY DEF Base, LocalInv
<1>0. ServerFor(s) \in Servers
  BY <1>s, ServerForType
\* It had its stream, or p is removing it.
<1>h. s \in sessions => s \in streams[ServerFor(s)] \/ (s = Victim(p) /\ call[p].pc \in Removing)
  BY Leaves DEF StreamInv, SessionStreamed
<1>l. s = call'[p].victim /\ call'[p].pc \in Removing => Leaving(s)'
  BY DEF Leaving, Victim
<1>1. CASE Pick(p) \/ CleanReturns(p) \/ SeekGoesOn(p) \/ NoCredentials(p) \/ Create(p)
          \/ RegisterSession(p) \/ Undo(p)
  BY <1>1, <1>h DEF Pick, CleanReturns, SeekGoesOn, NoCredentials, Create, RegisterSession, Undo, At
<1>2. CASE DeleteStream(p)
  <2>1. call'[p].victim = Victim(p) /\ call'[p].pc = "unrelay" /\ sessions' = sessions
    BY <1>2, StepTurns DEF DeleteStream, Turns
  <2>2. s # Victim(p) /\ s \in streams[ServerFor(s)] => s \in streams'[ServerFor(s)]
    BY <1>2, <1>t, <1>0 DEF DeleteStream, Deleted
  <2> QED
    BY <1>h, <1>l, <2>1, <2>2
<1>3. CASE DeleteFails(p)
  <2>1. call'[p].victim = Victim(p) /\ call'[p].pc \in {"delete", "unrelay"} /\ sessions' = sessions
    BY <1>3, StepTurns DEF DeleteFails, Turns
  <2>2. s # Victim(p) /\ s \in streams[ServerFor(s)] => s \in streams'[ServerFor(s)]
    BY <1>3, <1>t, <1>0 DEF DeleteFails, Deleted
  <2> QED
    BY <1>h, <1>l, <2>1, <2>2
<1>4. CASE UnregisterSession(p)
  <2>1. call'[p].victim = Victim(p) /\ call'[p].pc = "forget"
    BY <1>4, StepTurns DEF Turns
  <2> QED
    BY <1>4, <1>h, <1>l, <2>1 DEF UnregisterSession
<1>5. CASE Forget(p)
  BY <1>5, <1>h DEF Forget
<1>6. CASE AddStream(p) \/ AddFails(p)
  <2>1. s \in streams[ServerFor(s)] => s \in streams'[ServerFor(s)]
    BY <1>6, <1>t, <1>0 DEF AddStream, AddFails, Added
  <2> QED
    BY <1>6, <1>h, <2>1 DEF AddStream, AddFails, At
<1>7. CASE Insert(p)
  <2>1. CASE s \in sessions
    BY <1>7, <1>h, <2>1 DEF Insert, At
  <2>2. CASE s = Victim(p)
    BY <1>7, <2>2 DEF Insert, StreamInv, InsertReady
  <2> QED
    BY <1>7, <2>1, <2>2 DEF Insert
<1> QED
  BY <1>1, <1>2, <1>3, <1>4, <1>5, <1>6, <1>7 DEF Step

LEMMA StepPurgeSafe ==
    ASSUME Base, IdInv, StreamInv, NEW p \in Procs, Step(p)
    PROVE  PurgeSafe'
<1> SUFFICES ASSUME NEW g \in Purgers, purge[g].pc = "delete", NEW s \in purge[g].listed
             PROVE  /\ s \notin sessions'
                    /\ \A q \in Procs : call'[q].pc \in Making => call'[q].victim # s
  BY StepShared DEF PurgeSafe, Victim
<1>1. s \notin sessions /\ \A q \in Procs : call[q].pc \in Making => Victim(q) # s
  BY DEF StreamInv, PurgeSafe
<1>2. s \notin sessions'
  <2>1. CASE Insert(p)
    BY <1>1, <2>1 DEF Insert, At, Making
  <2> QED
    BY <1>1, <2>1, StepShared
<1>3. ASSUME NEW q \in Procs, call'[q].pc \in Making
      PROVE  call'[q].victim # s
  <2>1. q = p
    BY <1>3, StepAlone DEF Making, Past
  <2>2. CASE Create(p)
    <3>1. call'[p].victim.id = made + 1
      BY <2>2, CreateBase DEF Turns
    <3>2. s.id <= made /\ s.id \in Nat /\ made \in Nat
      <4>1. s \in Session
        BY DEF Base, TypeOK, Purge
      <4> QED
        BY <4>1 DEF IdInv, ListedIds, Base, TypeOK, Session
    <3> QED
      BY <2>1, <3>1, <3>2
  <2>3. CASE call[p].pc \in Making /\ call'[p].victim = Victim(p)
    BY <1>1, <2>1, <2>3
  <2> QED
    BY <1>3, <2>1, <2>2, <2>3, StepShared
<1> QED
  BY <1>2, <1>3

LEMMA StepInsertReady ==
    ASSUME Base, StreamInv, NEW p \in Procs, Step(p)
    PROVE  InsertReady'
<1> SUFFICES ASSUME NEW q \in Procs, call'[q].pc = "insert"
             PROVE  call'[q].victim \in streams'[ServerFor(call'[q].victim)]
  BY DEF InsertReady, At, Victim, ServerFor
<1>1. q = p
  BY StepAlone DEF Past
<1>2. AddStream(p)
  <2>1. Create(p) => call'[p].pc # "insert"
    BY CreateBase DEF Turns
  <2> QED
    BY <1>1, <2>1, StepTurns DEF Step, Turns
<1>3. call'[p].victim = Victim(p) /\ Victim(p) \in Session
  BY <1>2, StepTurns DEF AddStream, At, Turns, Base, LocalInv, Making
<1>4. Victim(p) \in streams'[ServerFor(Victim(p))]
  BY <1>2, <1>3, ServerForType DEF AddStream, Added, Base, TypeOK
<1> QED
  BY <1>1, <1>3, <1>4

LEMMA PurgeStream ==
    ASSUME Base, StreamInv, NEW g \in Purgers, Purges(g)
    PROVE  StreamInv'
<1>1. PICK u \in Purge : PurgeMoves(g, u)
  BY PurgeShared
<1>2. UNCHANGED <<sessions, mu, call>>
  BY PurgeShared
<1>3. \A h \in Purgers : purge'[h] = IF h = g THEN u ELSE purge[h]
  BY <1>1 DEF PurgeMoves, Base, TypeOK
\* With the mutex free nothing is being made.
<1>4. mu = Nobody => \A p \in Procs : call[p].pc \notin Making
  BY PlaybackAssumption DEF Base, MutexInv, Making
<1>5. ASSUME u.pc = "delete", NEW s \in u.listed
      PROVE  s \notin sessions /\ \A p \in Procs : call[p].pc \in Making => Victim(p) # s
  BY <1>1, <1>4, <1>5 DEF PurgeMoves, StreamInv, PurgeSafe
<1>6. PurgeSafe'
  <2> SUFFICES ASSUME NEW h \in Purgers, purge'[h].pc = "delete", NEW s \in purge'[h].listed
               PROVE  /\ s \notin sessions
                      /\ \A p \in Procs : call[p].pc \in Making => Victim(p) # s
    BY <1>2 DEF PurgeSafe, Victim
  <2> QED
    BY <1>3, <1>5 DEF StreamInv, PurgeSafe
<1>7. CASE streams' = streams
  BY <1>2, <1>6, <1>7 DEF StreamInv, SessionStreamed, InsertReady, Leaving, Victim, At, ServerFor
<1>8. ASSUME NEW s \in purge[g].listed, purge[g].pc = "delete",
             streams' = [streams EXCEPT ![Central] = @ \ {s}]
      PROVE  StreamInv'
  <2>1. s \notin sessions /\ \A p \in Procs : call[p].pc \in Making => Victim(p) # s
    BY <1>8 DEF StreamInv, PurgeSafe
  <2>2. \A v \in Servers : \A r : r # s /\ r \in streams[v] => r \in streams'[v]
    BY <1>8 DEF Base, TypeOK
  <2>3. SessionStreamed'
    BY <1>2, <2>1, <2>2, ServerForType
       DEF StreamInv, SessionStreamed, Leaving, Victim, ServerFor, Base, TypeOK
  <2>4. InsertReady'
    <3> SUFFICES ASSUME NEW q \in Procs, At(q, "insert")
                 PROVE  Victim(q) \in streams'[ServerFor(Victim(q))]
      BY <1>2 DEF InsertReady, At, Victim, ServerFor
    <3>1. Victim(q) \in Session /\ Victim(q) # s
      BY <2>1 DEF At, Making, Base, LocalInv
    <3> QED
      BY <2>2, <3>1, ServerForType DEF StreamInv, InsertReady
  <2> QED
    BY <1>6, <2>3, <2>4 DEF StreamInv
<1> QED
  BY <1>1, <1>7, <1>8 DEF PurgeMoves

LEMMA NextStream == Base /\ IdInv /\ StreamInv /\ [Next]_vars => StreamInv'
<1> SUFFICES ASSUME Base, IdInv, StreamInv, [Next]_vars PROVE StreamInv'
  OBVIOUS
<1>1. ASSUME NEW p \in Procs, Step(p) PROVE StreamInv'
  BY <1>1, StepStreamed, StepPurgeSafe, StepInsertReady DEF StreamInv
<1>2. ASSUME NEW p \in Procs, Arrives(p) PROVE StreamInv'
  <2>1. UNCHANGED <<sessions, streams, purge>>
    BY <1>2, ArrivesFrame
  <2>2. \A q \in Procs : call'[q].pc \in Removing \cup Making \/ call[q].pc \in Removing \cup Making
           => call'[q] = call[q]
    BY <1>2, ArrivesFrame DEF Removing, Making
  <2>3. SessionStreamed'
    BY <2>1, <2>2 DEF StreamInv, SessionStreamed, Leaving, Victim, ServerFor, Removing
  <2>4. PurgeSafe'
    BY <2>1, <2>2 DEF StreamInv, PurgeSafe, Victim
  <2>5. InsertReady'
    BY <2>1, <2>2 DEF StreamInv, InsertReady, At, Victim, ServerFor, Making
  <2> QED
    BY <2>3, <2>4, <2>5 DEF StreamInv
<1>3. ASSUME NEW g \in Purgers, Purges(g) PROVE StreamInv'
  BY <1>3, PurgeStream
<1>4. CASE UNCHANGED <<sessions, streams, purge, call>>
  BY <1>4 DEF StreamInv, SessionStreamed, PurgeSafe, InsertReady, Leaving, Victim, At, ServerFor
<1>5. CASE Reboot
  <2>1. \A p \in Procs : call'[p].pc = "idle"
    BY <1>5, NoCallType DEF Reboot
  <2> QED
    BY <1>5, <2>1, BootPurgeType DEF Reboot, StreamInv, SessionStreamed, PurgeSafe, InsertReady, At
<1> QED
  BY <1>1, <1>2, <1>3, <1>4, <1>5, NextCases DEF Age, vars

LEMMA InitStream == Init => StreamInv
<1> SUFFICES ASSUME Init PROVE StreamInv
  OBVIOUS
<1>1. \A p \in Procs : call[p].pc = "idle"
  BY NoCallType DEF Init
<1> QED
  BY <1>1, BootPurgeType DEF Init, StreamInv, SessionStreamed, PurgeSafe, InsertReady, At

\* A session in the map has its stream, unless it is just being removed: the
\* purge of orphans, which deletes without the mutex, never takes a live one.
THEOREM SessionsStreamed == Spec => []SessionStreamed
<1>1. Spec => [](Base /\ IdInv /\ StreamInv)
  BY InitBase, NextBase, InitIds, NextIds, InitStream, NextStream, PTL DEF Spec
<1> QED
  BY <1>1, PTL DEF StreamInv

-----------------------------------------------------------------------------
(* The relay knows the sessions that play through it.                       *)

RelayFast == \A s \in relay : s.fast
NewFast == \A p \in Procs : call[p].pc \in {"register", "undo"} => Victim(p).fast
Forgotten == \A p \in Procs : At(p, "forget") => Victim(p) \notin relay

RelayInv == RelayMatches /\ RelayFast /\ NewFast /\ Forgotten

LEMMA StepRelay ==
    ASSUME Base, IdInv, RelayInv, NEW p \in Procs, Step(p)
    PROVE  RelayInv'
<1> USE DEF Removing, Making
<1> DEFINE v == Victim(p)
           w == call'[p].victim
           pc == call[p].pc
           qc == call'[p].pc
\* Everything RelayInv says, of p and of the maps alone.
<1>0. /\ \A s \in sessions : s.fast => s \in relay \/ (s = v /\ pc \in Removing)
      /\ \A s \in relay : s \in sessions \/ (s = v /\ pc \in {"add", "undo", "insert"})
      /\ pc \in {"add", "insert"} /\ v.fast => v \in relay
      /\ \A s \in relay : s.fast
      /\ pc \in {"register", "undo"} => v.fast
      /\ pc = "forget" => v \notin relay
      /\ pc \in Making => v \notin sessions
  BY StepAlone DEF RelayInv, RelayMatches, RelayFast, NewFast, Forgotten, Leaving, Entering, At,
                   IdInv, NewIds, Past
<1>s. ASSUME \A s \in sessions' : s.fast => s \in relay' \/ (s = w /\ qc \in Removing),
             \A s \in relay' : s \in sessions' \/ (s = w /\ qc \in {"add", "undo", "insert"}),
             qc \in {"add", "insert"} /\ w.fast => w \in relay',
             \A s \in relay' : s.fast,
             qc \in {"register", "undo"} => w.fast,
             qc = "forget" => w \notin relay'
      PROVE  RelayInv'
  <2>1. \A q \in Procs : q = p \/ call'[q].pc \in {"idle", "lock"}
    BY StepAlone DEF Past
  <2>2. RelayMatches'
    <3>1. \A s \in sessions' : s.fast => s \in relay' \/ Leaving(s)'
      BY <1>s DEF Leaving, Victim
    <3>2. \A s \in relay' : s \in sessions' \/ Entering(s)'
      BY <1>s DEF Entering, Victim
    <3>3. \A q \in Procs : call'[q].pc \in {"add", "insert"} /\ call'[q].victim.fast
             => call'[q].victim \in relay'
      BY <1>s, <2>1
    <3> QED
      BY <3>1, <3>2, <3>3 DEF RelayMatches, Victim
  <2>3. RelayFast' /\ NewFast' /\ Forgotten'
    BY <1>s, <2>1 DEF RelayFast, NewFast, Forgotten, At, Victim
  <2> QED
    BY <2>2, <2>3 DEF RelayInv
<1>1. CASE Pick(p)
  <2>1. qc = "delete" /\ pc = "clean" /\ sessions' = sessions /\ relay' = relay
    BY <1>1, StepTurns DEF Pick, At, Turns
  <2> HIDE DEF v, w, pc, qc
  <2> QED
    BY <1>0, <1>s, <2>1
<1>2. CASE DeleteStream(p) \/ DeleteFails(p)
  <2>1. qc \in {"delete", "unrelay"} /\ pc = "delete" /\ w = v /\ sessions' = sessions /\ relay' = relay
    BY <1>2, StepTurns DEF DeleteStream, DeleteFails, At, Turns
  <2> HIDE DEF v, w, pc, qc
  <2> QED
    BY <1>0, <1>s, <2>1
<1>3. CASE UnregisterSession(p)
  <2>1. qc = "forget" /\ pc = "unrelay" /\ w = v /\ sessions' = sessions /\ relay' = relay \ {v}
    BY <1>3, StepTurns DEF UnregisterSession, At, Turns
  <2> HIDE DEF v, w, pc, qc
  <2> QED
    BY <1>0, <1>s, <2>1
<1>4. CASE Forget(p)
  <2>1. qc = "clean" /\ pc = "forget" /\ sessions' = sessions \ {v} /\ relay' = relay
    BY <1>4, StepTurns DEF Forget, At, Turns
  <2> HIDE DEF v, w, pc, qc
  <2> QED
    BY <1>0, <1>s, <2>1
<1>5. CASE CleanReturns(p) \/ NoCredentials(p) \/ SeekGoesOn(p)
  <2>1. qc \in {"idle", "lock"} /\ pc = "clean" /\ sessions' = sessions /\ relay' = relay
    BY <1>5, StepTurns DEF CleanReturns, NoCredentials, SeekGoesOn, At, Turns
  <2> HIDE DEF v, w, pc, qc
  <2> QED
    BY <1>0, <1>s, <2>1
<1>6. CASE Create(p)
  <2>1. qc \in {"register", "add"} /\ (qc = "register" <=> w.fast) /\ pc = "clean"
    BY <1>6, CreateBase DEF Turns
  <2>2. sessions' = sessions /\ relay' = relay
    BY <1>6 DEF Create
  <2> HIDE DEF v, w, pc, qc
  <2> QED
    BY <1>0, <1>s, <2>1, <2>2
<1>7. CASE RegisterSession(p)
  <2>1. qc = "add" /\ pc = "register" /\ w = v /\ sessions' = sessions /\ relay' = relay \cup {v}
    BY <1>7, StepTurns DEF RegisterSession, At, Turns
  <2> HIDE DEF v, w, pc, qc
  <2> QED
    BY <1>0, <1>s, <2>1
<1>8. CASE AddStream(p)
  <2>1. qc = "insert" /\ pc = "add" /\ w = v /\ sessions' = sessions /\ relay' = relay
    BY <1>8, StepTurns DEF AddStream, At, Turns
  <2> HIDE DEF v, w, pc, qc
  <2> QED
    BY <1>0, <1>s, <2>1
<1>9. CASE AddFails(p)
  <2>1. pc = "add" /\ sessions' = sessions /\ relay' = relay
    BY <1>9 DEF AddFails, At
  <2>2. IF v.fast THEN qc = "undo" /\ w = v ELSE qc = "idle"
    BY <1>9, StepTurns DEF Turns
  <2> HIDE DEF v, w, pc, qc
  <2>3. CASE v.fast
    BY <1>0, <1>s, <2>1, <2>2, <2>3
  <2>4. CASE ~v.fast
    BY <1>0, <1>s, <2>1, <2>2, <2>4
  <2> QED
    BY <2>3, <2>4
<1>10. CASE Undo(p)
  <2>1. qc = "idle" /\ pc = "undo" /\ sessions' = sessions /\ relay' = relay \ {v}
    BY <1>10, StepTurns DEF Undo, At, Turns
  <2> HIDE DEF v, w, pc, qc
  <2> QED
    BY <1>0, <1>s, <2>1
<1>11. CASE Insert(p)
  <2>1. qc = "idle" /\ pc = "insert" /\ sessions' = sessions \cup {v} /\ relay' = relay
    BY <1>11, StepTurns DEF Insert, At, Turns
  <2> HIDE DEF v, w, pc, qc
  <2> QED
    BY <1>0, <1>s, <2>1
<1> QED
  BY <1>1, <1>2, <1>3, <1>4, <1>5, <1>6, <1>7, <1>8, <1>9, <1>10, <1>11 DEF Step

LEMMA NextRelay == Base /\ IdInv /\ RelayInv /\ [Next]_vars => RelayInv'
<1> SUFFICES ASSUME Base, IdInv, RelayInv, [Next]_vars PROVE RelayInv'
  OBVIOUS
<1>1. ASSUME NEW p \in Procs, Step(p) PROVE RelayInv'
  BY <1>1, StepRelay
<1>2. ASSUME NEW p \in Procs, Arrives(p) PROVE RelayInv'
  <2>1. UNCHANGED <<sessions, relay>>
    BY <1>2, ArrivesFrame
  <2>2. \A q \in Procs : call'[q].pc \in Removing \cup Making \/ call[q].pc \in Removing \cup Making
           => call'[q] = call[q]
    BY <1>2, ArrivesFrame DEF Removing, Making
  <2>3. RelayMatches'
    <3>1. \A s \in sessions' : s.fast => s \in relay' \/ Leaving(s)'
      BY <2>1, <2>2 DEF RelayInv, RelayMatches, Leaving, Victim, Removing
    <3>2. \A s \in relay' : s \in sessions' \/ Entering(s)'
      BY <2>1, <2>2 DEF RelayInv, RelayMatches, Entering, Victim, Making
    <3>3. \A q \in Procs : call'[q].pc \in {"add", "insert"} /\ call'[q].victim.fast
             => call'[q].victim \in relay'
      BY <2>1, <2>2 DEF RelayInv, RelayMatches, Victim, Making
    <3> QED
      BY <3>1, <3>2, <3>3 DEF RelayMatches, Victim
  <2>4. RelayFast' /\ NewFast' /\ Forgotten'
    BY <2>1, <2>2 DEF RelayInv, RelayFast, NewFast, Forgotten, At, Victim, Removing, Making
  <2> QED
    BY <2>3, <2>4 DEF RelayInv
<1>3. CASE UNCHANGED <<sessions, relay, call>>
  BY <1>3 DEF RelayInv, RelayMatches, RelayFast, NewFast, Forgotten, Leaving, Entering, At, Victim
<1>4. ASSUME NEW g \in Purgers, Purges(g) PROVE RelayInv'
  BY <1>3, <1>4, PurgeShared
<1>5. CASE Reboot
  <2>1. \A p \in Procs : call'[p].pc = "idle"
    BY <1>5, NoCallType DEF Reboot
  <2> QED
    BY <1>5, <2>1 DEF Reboot, RelayInv, RelayMatches, RelayFast, NewFast, Forgotten, At
<1> QED
  BY <1>1, <1>2, <1>3, <1>4, <1>5, NextCases DEF Age, vars

LEMMA InitRelay == Init => RelayInv
<1> SUFFICES ASSUME Init PROVE RelayInv
  OBVIOUS
<1>1. \A p \in Procs : call[p].pc = "idle"
  BY NoCallType DEF Init
<1> QED
  BY <1>1 DEF Init, RelayInv, RelayMatches, RelayFast, NewFast, Forgotten, At

\* The relay knows every session that plays through it, from before go2rtc
\* can connect until the stream is deleted, and no other.
THEOREM RelayKnowsSessions == Spec => []RelayMatches
<1>1. Spec => [](Base /\ IdInv /\ RelayInv)
  BY InitBase, NextBase, InitIds, NextIds, InitRelay, NextRelay, PTL DEF Spec
<1> QED
  BY <1>1, PTL DEF RelayInv

=============================================================================
