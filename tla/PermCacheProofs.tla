-------------------------- MODULE PermCacheProofs --------------------------
(***************************************************************************)
(* PermCache for every number of readers, writers, writes and ticks: its     *)
(* types, the refinement of StaleRegister and the bound on the age of what    *)
(* is served as fresh.                                                      *)
(***************************************************************************)
EXTENDS PermCache, TLAPS

-----------------------------------------------------------------------------
\* The reload mutex is held by the reader that is between TryLock and the
\* deferred Unlock, or by a waiter that is about to let it go.
Holding == {"held", "recheck", "load", "store", "return", "fail"}

MutexInv == \A r \in Readers : get[r].pc \in Holding => reloadMu = r

\* How the values on their way to a caller or to the cache are ordered.
OrderInv ==
    /\ cache.data <= version
    /\ \A r \in Readers : answer[r] <= cache.data
    /\ \A r \in Readers : get[r].pc \in {"lock", "recheck", "load", "return"} =>
            answer[r] <= get[r].val /\ get[r].val <= cache.data
    /\ \A r \in Readers : get[r].pc = "store" =>
            cache.data <= get[r].val /\ get[r].val <= version

RegInv == TypeOK /\ MutexInv /\ OrderInv

\* When the first write missing from a content was committed, compared with
\* the load that read the content.
CommitTimes == \A v \in 1..version : when[v] <= now

CacheAge == cache.loaded =>
    /\ cache.data \in 0..version
    /\ cache.loadedAt <= now
    /\ cache.data < version => cache.loadedAt <= when[cache.data + 1] + MaxLoad

LoadTime == \A r \in Readers : get[r].pc \in {"load", "store"} =>
    get[r].since <= now /\ now <= get[r].since + MaxLoad

StoreAge == \A r \in Readers : get[r].pc = "store" =>
    /\ get[r].val \in 0..version
    /\ get[r].val < version => get[r].since <= when[get[r].val + 1]

AgeInv == CommitTimes /\ CacheAge /\ LoadTime /\ StoreAge

AgedInv == RegInv /\ AgeInv

-----------------------------------------------------------------------------
(***************************************************************************)
(* Types                                                                   *)
(***************************************************************************)
LEMMA TypeInit == Init => TypeOK
  BY CacheAssumption DEF Init, TypeOK, Call, NoCall, PC, Unset

\* What becomes of get[r] when only its pc moves, and when the call is over.
LEMMA GotoCall ==
  ASSUME TypeOK, NEW r \in Readers, NEW pc \in PC, Goto(r, pc)
  PROVE  /\ get' \in [Readers -> Call]
         /\ get'[r].pc = pc /\ get'[r].val = get[r].val /\ get'[r].since = get[r].since
         /\ \A q \in Readers \ {r} : get'[q] = get[q]
<1>1. get \in [Readers -> Call]
  BY DEF TypeOK
<1>2. PICK c \in Call : c = get[r]
  BY <1>1
<1>3. [c EXCEPT !.pc = pc] \in Call
  BY DEF Call
<1>4. get' = [get EXCEPT ![r] = [c EXCEPT !.pc = pc]]
  BY <1>2 DEF Goto
<1>5. /\ [c EXCEPT !.pc = pc].pc = pc
      /\ [c EXCEPT !.pc = pc].val = c.val
      /\ [c EXCEPT !.pc = pc].since = c.since
  BY DEF Call
<1>6. QED
  BY <1>1, <1>2, <1>3, <1>4, <1>5

LEMMA LeaveCall ==
  ASSUME TypeOK, NEW r \in Readers, Leave(r)
  PROVE  /\ get' \in [Readers -> Call]
         /\ get'[r] = NoCall
         /\ \A q \in Readers \ {r} : get'[q] = get[q]
<1>1. NoCall \in Call
  BY CacheAssumption DEF TypeOK, NoCall, Call, PC, Unset
<1>2. QED
  BY <1>1 DEF TypeOK, Leave

\* The same for the three steps that set more than the pc.
LEMMA MissCall ==
  ASSUME TypeOK, NEW r \in Readers, Miss(r)
  PROVE  /\ get' \in [Readers -> Call]
         /\ get'[r].pc = "lock" /\ get'[r].val = cache.data
         /\ \A q \in Readers \ {r} : get'[q] = get[q]
<1> DEFINE c == [pc |-> "lock", hasStale |-> cache.loaded,
                 val |-> cache.data, since |-> 0]
<1>1. c \in Call
  BY CacheAssumption DEF TypeOK, Call, PC
<1>2. c.pc = "lock" /\ c.val = cache.data
  OBVIOUS
<1>3. get' = [get EXCEPT ![r] = c]
  BY DEF Miss
<1> HIDE DEF c
<1>4. QED
  BY <1>1, <1>2, <1>3 DEF TypeOK

LEMMA RecheckCall ==
  ASSUME TypeOK, NEW r \in Readers, Recheck(r)
  PROVE  /\ get' \in [Readers -> Call]
         /\ \/ Fresh /\ get'[r].pc = "return" /\ get'[r].val = cache.data
            \/ ~Fresh /\ get'[r].pc = "load" /\ get'[r].val = get[r].val
                      /\ get'[r].since = now
         /\ \A q \in Readers \ {r} : get'[q] = get[q]
<1> DEFINE c == IF Fresh THEN [get[r] EXCEPT !.pc = "return", !.val = cache.data]
                         ELSE [get[r] EXCEPT !.pc = "load", !.since = now]
<1>1. get[r] \in Call /\ cache.data \in Unset..MaxWrites /\ now \in 0..MaxTime
  BY DEF TypeOK
<1>2. {"return", "load"} \subseteq PC
  BY DEF PC
<1>3. c \in Call
  BY <1>1, <1>2 DEF Call
<1>4. \/ Fresh /\ c.pc = "return" /\ c.val = cache.data
      \/ ~Fresh /\ c.pc = "load" /\ c.val = get[r].val /\ c.since = now
  BY <1>1 DEF Call
<1>5. get' = [get EXCEPT ![r] = c]
  BY DEF Recheck
<1> HIDE DEF c
<1>6. QED
  BY <1>3, <1>4, <1>5 DEF TypeOK

LEMMA LoadCall ==
  ASSUME TypeOK, NEW r \in Readers, Load(r)
  PROVE  /\ get' \in [Readers -> Call]
         /\ get'[r].pc = "store" /\ get'[r].val = version
         /\ get'[r].since = get[r].since
         /\ \A q \in Readers \ {r} : get'[q] = get[q]
<1> DEFINE c == [get[r] EXCEPT !.pc = "store", !.val = version]
<1>1. get[r] \in Call /\ version \in Unset..MaxWrites
  BY CacheAssumption DEF TypeOK, Unset
<1>2. "store" \in PC
  BY DEF PC
<1>3. c \in Call
  BY <1>1, <1>2 DEF Call
<1>4. c.pc = "store" /\ c.val = version /\ c.since = get[r].since
  BY <1>1 DEF Call
<1>5. get' = [get EXCEPT ![r] = c]
  BY DEF Load
<1> HIDE DEF c
<1>6. QED
  BY <1>3, <1>4, <1>5 DEF TypeOK

LEMMA TypeStep == TypeOK /\ [Next]_vars => TypeOK'
<1> SUFFICES ASSUME TypeOK, [Next]_vars PROVE TypeOK'
  OBVIOUS
<1> USE CacheAssumption DEF Unset, Table, Reply
<1>p. {"wait", "held", "peek", "recheck", "return", "fail"} \subseteq PC
  BY DEF PC
<1>v. ASSUME NEW r \in Readers PROVE get[r].val \in Unset..MaxWrites
  BY DEF TypeOK, Call
<1>1. ASSUME NEW r \in Readers, Hit(r) PROVE TypeOK'
  BY <1>1 DEF Hit, TypeOK
<1>2. ASSUME NEW r \in Readers, Miss(r) PROVE TypeOK'
  BY <1>2, MissCall DEF Miss, TypeOK
<1>3. ASSUME NEW r \in Readers, WaitLock(r) PROVE TypeOK'
  BY <1>3, <1>p, GotoCall DEF WaitLock, TypeOK
<1>4. ASSUME NEW r \in Readers, Step(r) PROVE TypeOK'
  <2>1. CASE TryLock(r)
    BY <2>1, <1>p, GotoCall DEF TryLock, TypeOK
  <2>2. CASE ServeStale(r)
    BY <2>2, <1>v, LeaveCall DEF ServeStale, TypeOK
  <2>3. CASE MustWait(r)
    BY <2>3, <1>p, GotoCall DEF MustWait, TypeOK
  <2>4. CASE WaitUnlock(r)
    BY <2>4, <1>p, GotoCall DEF WaitUnlock, TypeOK
  <2>5. CASE Peek(r)
    BY <2>5, LeaveCall DEF Peek, TypeOK
  <2>6. CASE Recheck(r)
    BY <2>6, RecheckCall DEF Recheck, TypeOK
  <2>7. CASE Load(r)
    BY <2>7, LoadCall DEF Load, TypeOK
  <2>8. CASE LoadFails(r)
    BY <2>8, <1>p, GotoCall DEF LoadFails, TypeOK
  <2>9. CASE Store(r)
    BY <2>9, <1>p, <1>v, GotoCall DEF Store, TypeOK
  <2>10. CASE Return(r)
    BY <2>10, <1>v, LeaveCall DEF Return, TypeOK
  <2>11. CASE ReturnError(r)
    BY <2>11, LeaveCall DEF ReturnError, TypeOK
  <2>12. QED
    BY <1>4, <2>1, <2>2, <2>3, <2>4, <2>5, <2>6, <2>7, <2>8, <2>9, <2>10, <2>11
       DEF Step
<1>5. ASSUME NEW w \in Writers, Write(w) PROVE TypeOK'
  <2>1. /\ version' \in 0..MaxWrites /\ when' \in [1..MaxWrites -> 0..MaxTime]
        /\ version + 1 \in 0..MaxWrites
    BY <1>5 DEF Write, Commit, TypeOK
  <2>2. UNCHANGED <<now, cache, reloadMu, get, answer, acked>>
        /\ pending' = [pending EXCEPT ![w] = version + 1]
    BY <1>5 DEF Write
  <2>3. pending' \in [Writers -> 0..MaxWrites]
    BY <2>1, <2>2 DEF TypeOK
  <2> QED
    BY <2>1, <2>2, <2>3 DEF TypeOK
<1>5f. CASE WriteFirst
  <2>1. version' \in 0..MaxWrites /\ when' \in [1..MaxWrites -> 0..MaxTime]
    BY <1>5f DEF WriteFirst, Commit, TypeOK
  <2>2. UNCHANGED <<now, cache, reloadMu, get, answer, pending, acked>>
    BY <1>5f DEF WriteFirst
  <2> QED
    BY <2>1, <2>2 DEF TypeOK
<1>6. ASSUME NEW w \in Writers, Invalidate(w) PROVE TypeOK'
  <2>1. cache' = [cache EXCEPT !.loaded = FALSE]
    BY <1>6 DEF Invalidate
  <2>2. cache' \in [data : Unset..MaxWrites, loaded : BOOLEAN, loadedAt : 0..MaxTime]
    BY <2>1 DEF TypeOK
  <2>3. acked' \in 0..MaxWrites /\ pending' \in [Writers -> 0..MaxWrites]
    BY <1>6 DEF Invalidate, TypeOK
  <2>4. QED
    BY <1>6, <2>2, <2>3 DEF Invalidate, TypeOK
<1>7. CASE Tick
  BY <1>7 DEF Tick, TypeOK
<1>8. CASE UNCHANGED vars
  BY <1>8 DEF vars, TypeOK
<1>9. QED
  BY <1>1, <1>2, <1>3, <1>4, <1>5, <1>5f, <1>6, <1>7, <1>8 DEF Next

\* Every variable keeps its type, whatever the callers do: in particular the
\* time of a load never lies outside the clock and a cached content is one the
\* table had.
THEOREM CacheTypeCorrect == Spec => []TypeOK
  BY TypeInit, TypeStep, PTL DEF Spec

-----------------------------------------------------------------------------
(***************************************************************************)
(* The reload mutex and the order of the values                             *)
(***************************************************************************)
LEMMA RegInit == Init => RegInv
  BY TypeInit, CacheAssumption
     DEF Init, RegInv, MutexInv, OrderInv, Holding, NoCall, Unset

LEMMA RegStep == RegInv /\ [Next]_vars => RegInv'
<1> SUFFICES ASSUME RegInv, [Next]_vars PROVE RegInv'
  OBVIOUS
<1> USE CacheAssumption DEF Unset, Table, Reply, At
<1>t. TypeOK /\ TypeOK'
  BY TypeStep DEF RegInv
<1>i. MutexInv /\ OrderInv
  BY DEF RegInv
<1>n. /\ version \in Int /\ cache.data \in Int
      /\ \A q \in Readers : get[q].val \in Int /\ answer[q] \in Int
      /\ answer \in [Readers -> Unset..MaxWrites]
  <2>1. version \in Int /\ cache.data \in Int /\ answer \in [Readers -> Unset..MaxWrites]
    BY <1>t DEF TypeOK
  <2>2. ASSUME NEW q \in Readers PROVE get[q].val \in Int /\ answer[q] \in Int
    <3>1. get[q] \in Call /\ answer[q] \in Unset..MaxWrites
      BY <1>t DEF TypeOK
    <3>2. QED
      BY <3>1 DEF Call
  <2>3. QED
    BY <2>1, <2>2
<1>p. {"wait", "held", "peek", "recheck", "return", "fail"} \subseteq PC
  BY DEF PC
<1>1. ASSUME NEW r \in Readers, Hit(r) PROVE RegInv'
  BY <1>1, <1>t, <1>i, <1>n DEF Hit, RegInv, MutexInv, OrderInv
<1>2. ASSUME NEW r \in Readers, Miss(r) PROVE RegInv'
  BY <1>2, <1>t, <1>i, <1>n, MissCall DEF Miss, RegInv, MutexInv, OrderInv, Holding
<1>3. ASSUME NEW r \in Readers, WaitLock(r) PROVE RegInv'
  BY <1>3, <1>t, <1>i, <1>n, <1>p, GotoCall, ~(Nobody \in Readers)
     DEF WaitLock, RegInv, MutexInv, OrderInv, Holding
<1>4. ASSUME NEW r \in Readers, Step(r) PROVE RegInv'
  <2>1. CASE TryLock(r)
    BY <2>1, <1>t, <1>i, <1>n, <1>p, GotoCall
       DEF TryLock, RegInv, MutexInv, OrderInv, Holding
  <2>2. CASE ServeStale(r)
    BY <2>2, <1>t, <1>i, <1>n, LeaveCall
       DEF ServeStale, RegInv, MutexInv, OrderInv, Holding, NoCall
  <2>3. CASE MustWait(r)
    BY <2>3, <1>t, <1>i, <1>n, <1>p, GotoCall
       DEF MustWait, RegInv, MutexInv, OrderInv, Holding
  <2>4. CASE WaitUnlock(r)
    BY <2>4, <1>t, <1>i, <1>n, <1>p, GotoCall
       DEF WaitUnlock, RegInv, MutexInv, OrderInv, Holding
  <2>5. CASE Peek(r)
    BY <2>5, <1>t, <1>i, <1>n, LeaveCall
       DEF Peek, RegInv, MutexInv, OrderInv, Holding, NoCall
  <2>6. CASE Recheck(r)
    <3> DEFINE g == get'
    <3>1. /\ get[r].pc = "recheck" /\ UNCHANGED <<version, cache, reloadMu, answer>>
          /\ g[r].pc \in {"return", "load"} /\ g[r].val \in {cache.data, get[r].val}
          /\ \A q \in Readers \ {r} : g[q] = get[q]
      BY <2>6, <1>t, RecheckCall DEF Recheck
    <3>2. MutexInv'
      BY <3>1, <1>i DEF MutexInv, Holding
    <3>3. OrderInv'
      BY <3>1, <1>i, <1>n DEF OrderInv
    <3>4. QED
      BY <3>2, <3>3, <1>t DEF RegInv
  <2>7. CASE Load(r)
    <3> DEFINE g == get'
    <3>1. /\ get[r].pc = "load" /\ UNCHANGED <<version, cache, reloadMu, answer>>
          /\ g[r].pc = "store" /\ g[r].val = version
          /\ \A q \in Readers \ {r} : g[q] = get[q]
      BY <2>7, <1>t, LoadCall DEF Load
    <3>2. MutexInv'
      BY <3>1, <1>i DEF MutexInv, Holding
    <3>3. OrderInv'
      BY <3>1, <1>i, <1>n DEF OrderInv
    <3>4. QED
      BY <3>2, <3>3, <1>t DEF RegInv
  <2>8. CASE LoadFails(r)
    BY <2>8, <1>t, <1>i, <1>n, <1>p, GotoCall
       DEF LoadFails, RegInv, MutexInv, OrderInv, Holding
  <2>9. CASE Store(r)
    BY <2>9, <1>t, <1>i, <1>n, <1>p, GotoCall
       DEF Store, RegInv, MutexInv, OrderInv, Holding
  <2>10. CASE Return(r)
    BY <2>10, <1>t, <1>i, <1>n, LeaveCall
       DEF Return, RegInv, MutexInv, OrderInv, Holding, NoCall
  <2>11. CASE ReturnError(r)
    BY <2>11, <1>t, <1>i, <1>n, LeaveCall
       DEF ReturnError, RegInv, MutexInv, OrderInv, Holding, NoCall
  <2>12. QED
    BY <1>4, <2>1, <2>2, <2>3, <2>4, <2>5, <2>6, <2>7, <2>8, <2>9, <2>10, <2>11
       DEF Step
<1>5. ASSUME NEW w \in Writers, Write(w) PROVE RegInv'
  BY <1>5, <1>t, <1>i, <1>n DEF Write, Commit, RegInv, MutexInv, OrderInv
<1>5f. CASE WriteFirst
  BY <1>5f, <1>t, <1>i, <1>n DEF WriteFirst, Commit, RegInv, MutexInv, OrderInv
<1>6. ASSUME NEW w \in Writers, Invalidate(w) PROVE RegInv'
  <2>1. cache'.data = cache.data
    BY <1>6, <1>t DEF Invalidate, TypeOK
  <2>2. QED
    BY <1>6, <2>1, <1>t, <1>i DEF Invalidate, RegInv, MutexInv, OrderInv
<1>7. CASE Tick
  BY <1>7, <1>t, <1>i DEF Tick, RegInv, MutexInv, OrderInv
<1>8. CASE UNCHANGED vars
  BY <1>8, <1>t, <1>i DEF vars, RegInv, MutexInv, OrderInv
<1>9. QED
  BY <1>1, <1>2, <1>3, <1>4, <1>5, <1>5f, <1>6, <1>7, <1>8 DEF Next

-----------------------------------------------------------------------------
(***************************************************************************)
(* The refinement                                                          *)
(***************************************************************************)
LEMMA RegisterInit == Init => Register!RegInit
  BY DEF Init, Register!RegInit, Unset, Register!Unset

LEMMA RegisterStep ==
  RegInv /\ [Next]_vars => [Register!RegNext]_<<version, cache.data, answer>>
<1> SUFFICES ASSUME RegInv, [Next]_vars
             PROVE  \/ Register!RegNext
                    \/ UNCHANGED <<version, cache.data, answer>>
  OBVIOUS
<1> USE CacheAssumption DEF Table, At
<1> DEFINE Stutter == UNCHANGED <<version, cache.data, answer>>
<1>i. TypeOK /\ OrderInv
  BY DEF RegInv
<1>n. /\ version \in Int /\ cache.data \in Int
      /\ \A q \in Readers : get[q].val \in Int /\ answer[q] \in Int
  BY <1>i DEF TypeOK, Call
<1>a. ASSUME NEW r \in Readers, NEW v \in answer[r]..cache.data,
             Reply(r, v), UNCHANGED <<version, cache>>
      PROVE  Register!RegNext
  BY <1>a DEF Reply, Register!RegNext, Register!Answer
<1>r. ASSUME NEW r \in Readers PROVE cache.data \in answer[r]..cache.data
  BY <1>i, <1>n DEF OrderInv
<1>1. ASSUME NEW r \in Readers, Hit(r) PROVE Register!RegNext
  BY <1>1, <1>a, <1>r DEF Hit
<1>2. ASSUME NEW r \in Readers, Miss(r) PROVE Stutter
  BY <1>2 DEF Miss
<1>3. ASSUME NEW r \in Readers, WaitLock(r) PROVE Stutter
  BY <1>3 DEF WaitLock
<1>4. ASSUME NEW r \in Readers, Step(r) PROVE Stutter \/ Register!RegNext
  <2>1. CASE TryLock(r) \/ MustWait(r) \/ WaitUnlock(r) \/ Recheck(r) \/ Load(r)
              \/ LoadFails(r) \/ ReturnError(r)
    BY <2>1 DEF TryLock, MustWait, WaitUnlock, Recheck, Load, LoadFails, ReturnError
  <2>2. CASE ServeStale(r)
    <3>1. get[r].val \in answer[r]..cache.data
      BY <2>2, <1>i, <1>n DEF ServeStale, OrderInv
    <3>2. QED
      BY <2>2, <3>1, <1>a DEF ServeStale
  <2>3. CASE Peek(r)
    BY <2>3, <1>a, <1>r DEF Peek
  <2>4. CASE Return(r)
    <3>1. get[r].val \in answer[r]..cache.data
      BY <2>4, <1>i, <1>n DEF Return, OrderInv
    <3>2. QED
      BY <2>4, <3>1, <1>a DEF Return
  <2>5. CASE Store(r)
    <3>1. cache'.data = get[r].val /\ UNCHANGED <<version, answer>>
      BY <2>5 DEF Store
    <3>2. cache'.data \in cache.data..version
      BY <2>5, <3>1, <1>i, <1>n DEF Store, OrderInv
    <3>3. QED
      BY <3>1, <3>2 DEF Register!RegNext, Register!Publish
  <2>6. QED
    BY <1>4, <2>1, <2>2, <2>3, <2>4, <2>5 DEF Step
<1>5. ASSUME NEW w \in Writers, Write(w) PROVE Register!RegNext
  BY <1>5 DEF Write, Commit, Register!RegNext, Register!Commit
<1>5f. CASE WriteFirst
  BY <1>5f DEF WriteFirst, Commit, Register!RegNext, Register!Commit
<1>6. ASSUME NEW w \in Writers, Invalidate(w) PROVE Stutter
  BY <1>6, <1>i DEF Invalidate, TypeOK
<1>7. CASE Tick
  BY <1>7 DEF Tick
<1>8. CASE UNCHANGED vars
  BY <1>8 DEF vars
<1>9. QED
  BY <1>1, <1>2, <1>3, <1>4, <1>5, <1>5f, <1>6, <1>7, <1>8 DEF Next

\* The cache implements the register that lags but never goes back: singleflight
\* keeps an older load from overwriting a newer one, and no path of get() gives a
\* caller less than it has been given before.
THEOREM CacheIsRegister == Spec => RegisterSpec
<1>1. Init => RegInv
  BY RegInit
<1>2. RegInv /\ [Next]_vars => RegInv'
  BY RegStep
<1>3. Init => Register!RegInit
  BY RegisterInit
<1>4. RegInv /\ [Next]_vars => [Register!RegNext]_Register!regvars
  BY RegisterStep DEF Register!regvars
<1>5. QED
  BY <1>1, <1>2, <1>3, <1>4, PTL DEF Spec, RegisterSpec, Register!RegSpec

-----------------------------------------------------------------------------
(***************************************************************************)
(* The age of what is served as fresh                                       *)
(***************************************************************************)
LEMMA AgedInit == Init => AgedInv
  BY RegInit, CacheAssumption DEF Init, AgedInv, AgeInv, CommitTimes, CacheAge, LoadTime, StoreAge, NoCall

\* Steps that change neither the table, the clock nor the cache, and leave no
\* reader in load or store that was not there with the same since and val.
LEMMA AgeKept ==
  ASSUME AgeInv, UNCHANGED <<version, now, cache, when>>,
         \A r \in Readers : get'[r].pc \in {"load", "store"} =>
             /\ get'[r].pc = get[r].pc /\ get'[r].since = get[r].since
             /\ get'[r].val = get[r].val
  PROVE  AgeInv'
  BY DEF AgeInv, CommitTimes, CacheAge, LoadTime, StoreAge

LEMMA AgedStep == AgedInv /\ [Next]_vars => AgedInv'
<1> SUFFICES ASSUME AgedInv, [Next]_vars PROVE AgedInv'
  OBVIOUS
<1>g. RegInv' /\ TypeOK /\ RegInv /\ AgeInv
  BY RegStep DEF AgedInv, RegInv
<1> SUFFICES AgeInv'
  BY <1>g DEF AgedInv
<1> USE CacheAssumption DEF Table, At
<1>p. {"wait", "held", "peek", "recheck", "return", "fail"} \subseteq PC
  BY DEF PC
<1>n. /\ version \in Nat /\ now \in Nat /\ MaxLoad \in Nat
      /\ cache.loadedAt \in Nat /\ cache.data \in Int
      /\ \A v \in 1..MaxWrites : when[v] \in Nat
      /\ version \in 0..MaxWrites
      /\ when \in [1..MaxWrites -> 0..MaxTime]
  <2>1. TypeOK
    BY <1>g
  <2>2. version \in 0..MaxWrites /\ now \in Nat /\ when \in [1..MaxWrites -> 0..MaxTime]
    BY <2>1 DEF TypeOK
  <2>3. cache.loadedAt \in Nat /\ cache.data \in Int
    BY <2>1 DEF TypeOK, Unset
  <2>4. \A v \in 1..MaxWrites : when[v] \in Nat
    BY <2>2
  <2>5. QED
    BY <2>2, <2>3, <2>4
<1>s. ASSUME NEW r \in Readers PROVE get[r].since \in Nat /\ get[r].val \in Int
  <2>1. get[r] \in Call
    BY <1>g DEF TypeOK
  <2>2. QED
    BY <2>1 DEF Call, Unset
<1>1. ASSUME NEW r \in Readers, Hit(r) PROVE AgeInv'
  BY <1>1, <1>g, AgeKept DEF Hit
<1>2. ASSUME NEW r \in Readers, Miss(r) PROVE AgeInv'
  BY <1>2, <1>g, MissCall, AgeKept DEF Miss
<1>3. ASSUME NEW r \in Readers, WaitLock(r) PROVE AgeInv'
  BY <1>3, <1>g, <1>p, GotoCall, AgeKept DEF WaitLock
<1>4. ASSUME NEW r \in Readers, Step(r) PROVE AgeInv'
  <2>1. CASE TryLock(r)
    BY <2>1, <1>g, <1>p, GotoCall, AgeKept DEF TryLock
  <2>2. CASE ServeStale(r)
    BY <2>2, <1>g, LeaveCall, AgeKept DEF ServeStale, NoCall
  <2>3. CASE MustWait(r)
    BY <2>3, <1>g, <1>p, GotoCall, AgeKept DEF MustWait
  <2>4. CASE WaitUnlock(r)
    BY <2>4, <1>g, <1>p, GotoCall, AgeKept DEF WaitUnlock
  <2>5. CASE Peek(r)
    BY <2>5, <1>g, LeaveCall, AgeKept DEF Peek, NoCall
  <2>6. CASE Recheck(r)
    <3> DEFINE g == get'
    <3>1. /\ UNCHANGED <<version, now, cache, when>>
          /\ g[r].pc = "return" \/ (g[r].pc = "load" /\ g[r].since = now)
          /\ \A q \in Readers \ {r} : g[q] = get[q]
      BY <2>6, <1>g, RecheckCall DEF Recheck
    <3>2. CommitTimes' /\ CacheAge' /\ StoreAge'
      BY <3>1, <1>g DEF AgeInv, CommitTimes, CacheAge, StoreAge
    <3>3. LoadTime'
      BY <3>1, <1>g, <1>n DEF AgeInv, LoadTime
    <3>4. QED
      BY <3>2, <3>3 DEF AgeInv
  <2>7. CASE Load(r)
    <3> DEFINE g == get'
    <3>1. /\ UNCHANGED <<version, now, cache, when>>
          /\ get[r].pc = "load"
          /\ g[r].pc = "store" /\ g[r].since = get[r].since /\ g[r].val = version
          /\ \A q \in Readers \ {r} : g[q] = get[q]
      BY <2>7, <1>g, LoadCall DEF Load
    <3>2. CommitTimes' /\ CacheAge' /\ LoadTime'
      BY <3>1, <1>g DEF AgeInv, CommitTimes, CacheAge, LoadTime
    <3>3. StoreAge'
      <4> SUFFICES ASSUME NEW q \in Readers, g[q].pc = "store"
                   PROVE  /\ g[q].val \in 0..version
                          /\ g[q].val < version => g[q].since <= when[g[q].val + 1]
        BY <3>1 DEF StoreAge
      <4>1. CASE q = r
        BY <3>1, <4>1, <1>n
      <4>2. CASE q # r
        BY <3>1, <4>2, <1>g DEF AgeInv, StoreAge
      <4> QED
        BY <4>1, <4>2
    <3>4. QED
      BY <3>2, <3>3 DEF AgeInv
  <2>8. CASE LoadFails(r)
    BY <2>8, <1>g, <1>p, GotoCall, AgeKept DEF LoadFails
  <2>9. CASE Store(r)
    <3> DEFINE g == get'  c == cache'
    <3>1. /\ UNCHANGED <<version, now, when>>
          /\ get[r].pc = "store" /\ g[r].pc = "return"
          /\ c.data = get[r].val /\ c.loaded /\ c.loadedAt = now
          /\ \A q \in Readers \ {r} : g[q] = get[q]
      BY <2>9, <1>g, <1>p, GotoCall DEF Store
    <3>2. /\ get[r].val \in 0..version
          /\ get[r].val < version => now <= when[get[r].val + 1] + MaxLoad
      <4>1. /\ now <= get[r].since + MaxLoad
            /\ get[r].val \in 0..version
            /\ get[r].val < version => get[r].since <= when[get[r].val + 1]
        <5>1. now <= get[r].since + MaxLoad
          BY <3>1, <1>g DEF AgeInv, LoadTime
        <5>2. /\ get[r].val \in 0..version
              /\ get[r].val < version => get[r].since <= when[get[r].val + 1]
          BY <3>1, <1>g DEF AgeInv, StoreAge
        <5> QED
          BY <5>1, <5>2
      <4>2. get[r].val < version => when[get[r].val + 1] \in Nat
        <5>1. get[r].val < version => get[r].val + 1 \in 1..MaxWrites
          <6>1. version \in 0..MaxWrites /\ get[r].val \in 0..version
            BY <4>1, <1>n
          <6> QED
            BY <6>1, CacheAssumption
        <5> QED
          BY <5>1, <1>n
      <4>3. SUFFICES ASSUME get[r].val < version
                     PROVE  now <= when[get[r].val + 1] + MaxLoad
        BY <4>1
      <4> DEFINE a == now  b == get[r].since  d == when[get[r].val + 1]
      <4>4. a \in Nat /\ b \in Nat /\ d \in Nat /\ a <= b + MaxLoad /\ b <= d
        BY <4>1, <4>2, <4>3, <1>n, <1>s
      <4> HIDE DEF a, b, d
      <4>5. a <= d + MaxLoad
        BY <4>4, <1>n
      <4>6. QED
        BY <4>5 DEF a, d
    <3>3. CacheAge'
      BY <3>1, <3>2, <1>n DEF CacheAge
    <3>4. CommitTimes' /\ LoadTime' /\ StoreAge'
      BY <3>1, <1>g DEF AgeInv, CommitTimes, LoadTime, StoreAge
    <3>5. QED
      BY <3>3, <3>4 DEF AgeInv
  <2>10. CASE Return(r)
    BY <2>10, <1>g, LeaveCall, AgeKept DEF Return, NoCall
  <2>11. CASE ReturnError(r)
    BY <2>11, <1>g, LeaveCall, AgeKept DEF ReturnError, NoCall
  <2>12. QED
    BY <1>4, <2>1, <2>2, <2>3, <2>4, <2>5, <2>6, <2>7, <2>8, <2>9, <2>10, <2>11
       DEF Step
<1>5. ASSUME Commit, UNCHANGED <<now, cache, get>> PROVE AgeInv'
  <2>1. /\ UNCHANGED <<now, cache, get>> /\ version' = version + 1
        /\ version' \in 1..MaxWrites
        /\ when'[version + 1] = now
        /\ \A v \in 1..version : when'[v] = when[v]
    BY <1>5, <1>n DEF Commit
  <2>2. CommitTimes'
    BY <2>1, <1>g, <1>n DEF AgeInv, CommitTimes
  <2>3. CacheAge'
    <3> SUFFICES ASSUME cache.loaded
                 PROVE  /\ cache.data \in 0..(version + 1)
                        /\ cache.loadedAt <= now
                        /\ cache.loadedAt <= when'[cache.data + 1] + MaxLoad
      BY <2>1 DEF CacheAge
    <3>1. /\ cache.data \in 0..version /\ cache.loadedAt <= now
          /\ cache.data < version => cache.loadedAt <= when[cache.data + 1] + MaxLoad
      BY <1>g DEF AgeInv, CacheAge
    <3>2. CASE cache.data = version
      BY <3>1, <3>2, <2>1, <1>n
    <3>3. CASE cache.data < version
      <4>1. cache.data + 1 \in 1..version
        BY <3>1, <3>3, <1>n
      <4>2. when'[cache.data + 1] = when[cache.data + 1]
        BY <4>1, <2>1
      <4>3. QED
        BY <4>2, <3>1, <3>3, <1>n
    <3>4. QED
      BY <3>1, <3>2, <3>3, <1>n
  <2>4. LoadTime'
    BY <2>1, <1>g DEF AgeInv, LoadTime
  <2>5. StoreAge'
    <3> SUFFICES ASSUME NEW r \in Readers, get[r].pc = "store"
                 PROVE  /\ get[r].val \in 0..(version + 1)
                        /\ get[r].since <= when'[get[r].val + 1]
      BY <2>1 DEF StoreAge
    <3>1. /\ get[r].val \in 0..version /\ get[r].since <= now
          /\ get[r].val < version => get[r].since <= when[get[r].val + 1]
      BY <1>g DEF AgeInv, LoadTime, StoreAge
    <3>2. CASE get[r].val = version
      BY <3>1, <3>2, <2>1, <1>n
    <3>3. CASE get[r].val < version
      <4>1. get[r].val + 1 \in 1..version
        BY <3>1, <3>3, <1>n
      <4>2. when'[get[r].val + 1] = when[get[r].val + 1]
        BY <4>1, <2>1
      <4>3. QED
        BY <4>2, <3>1, <3>3, <1>n
    <3>4. QED
      BY <3>1, <3>2, <3>3, <1>n
  <2>6. QED
    BY <2>2, <2>3, <2>4, <2>5 DEF AgeInv
<1>5w. ASSUME NEW w \in Writers, Write(w) PROVE AgeInv'
  BY <1>5w, <1>5 DEF Write
<1>5f. CASE WriteFirst
  BY <1>5f, <1>5 DEF WriteFirst
<1>6. ASSUME NEW w \in Writers, Invalidate(w) PROVE AgeInv'
  <2>1. ~cache'.loaded /\ UNCHANGED <<version, now, get, when>>
    BY <1>6, <1>g DEF Invalidate, TypeOK
  <2>2. QED
    BY <2>1, <1>g DEF AgeInv, CommitTimes, CacheAge, LoadTime, StoreAge
<1>7. CASE Tick
  <2>1. /\ UNCHANGED <<version, cache, get, when>> /\ now' = now + 1
        /\ \A r \in Readers : get[r].pc \in {"load", "store"} =>
               now < get[r].since + MaxLoad
    BY <1>7 DEF Tick
  <2>2. CommitTimes'
    BY <2>1, <1>g, <1>n, <1>s DEF AgeInv, CommitTimes
  <2>3. CacheAge'
    BY <2>1, <1>g, <1>n, <1>s DEF AgeInv, CacheAge
  <2>4. LoadTime'
    <3> SUFFICES ASSUME NEW q \in Readers, get[q].pc \in {"load", "store"}
                 PROVE  get[q].since <= now + 1 /\ now + 1 <= get[q].since + MaxLoad
      BY <2>1 DEF LoadTime
    <3> DEFINE a == get[q].since
    <3>1. a <= now /\ now < a + MaxLoad
      BY <2>1, <1>g DEF AgeInv, LoadTime
    <3>2. a \in Nat
      BY <1>s
    <3> HIDE DEF a
    <3>3. a <= now + 1 /\ now + 1 <= a + MaxLoad
      BY <3>1, <3>2, <1>n
    <3> QED
      BY <3>3 DEF a
  <2>5. StoreAge'
    BY <2>1, <1>g, <1>n, <1>s DEF AgeInv, StoreAge
  <2>6. QED
    BY <2>2, <2>3, <2>4, <2>5 DEF AgeInv
<1>8. CASE UNCHANGED vars
  BY <1>8, <1>g DEF vars, AgeInv, CommitTimes, CacheAge, LoadTime, StoreAge
<1>9. QED
  BY <1>1, <1>2, <1>3, <1>4, <1>5w, <1>5f, <1>6, <1>7, <1>8 DEF Next

LEMMA AgedBound == AgedInv => FreshBound
<1> SUFFICES ASSUME AgedInv, Fresh, cache.data < version
             PROVE  now - when[cache.data + 1] < TTL + MaxLoad
  BY DEF FreshBound
<1>1. /\ now - cache.loadedAt < TTL
      /\ cache.loadedAt <= when[cache.data + 1] + MaxLoad
      /\ cache.data \in 0..version /\ version \in 0..MaxWrites
  BY DEF Fresh, AgedInv, AgeInv, CacheAge, RegInv, TypeOK
<1>2. /\ {now, cache.loadedAt, TTL, MaxLoad} \subseteq Nat
      /\ when[cache.data + 1] \in Nat
  <2>1. cache.data + 1 \in 1..MaxWrites
    BY <1>1, CacheAssumption
  <2>2. QED
    BY <2>1, CacheAssumption DEF AgedInv, RegInv, TypeOK
<1> DEFINE a == now  b == cache.loadedAt  d == when[cache.data + 1]
<1>3. a \in Nat /\ b \in Nat /\ d \in Nat /\ a - b < TTL /\ b <= d + MaxLoad
  BY <1>1, <1>2
<1> HIDE DEF a, b, d
<1>4. a - d < TTL + MaxLoad
  BY <1>3, CacheAssumption
<1>5. QED
  BY <1>4 DEF a, d

\* A permission change whose invalidate() is overtaken by a running load is
\* hidden by a fresh entry for less than TTL plus the duration of one load,
\* whatever the number of readers and writers and however they interleave.
THEOREM StalenessBounded == Spec => []FreshBound
  BY AgedInit, AgedStep, AgedBound, PTL DEF Spec
=============================================================================
