----------------------------- MODULE PermCache -----------------------------
(***************************************************************************)
(* The read-through cache of db/cache.go with the permission queries around *)
(* it: any number of request goroutines call get(), any number of admin      *)
(* handlers change the table and then call invalidate().                     *)
(*                                                                         *)
(* The content of the table is named by the number of writes committed to    *)
(* it.  A step is one critical section, one mutex operation or one SQL       *)
(* statement; everything between two of them is local to a goroutine.        *)
(***************************************************************************)
EXTENDS Integers

CONSTANTS
    Readers,    \* goroutines that call get()
    Nobody,     \* not a reader: the mutex is free
    Writers,    \* goroutines in GrantPermission, RevokePermission, ...
    TTL,        \* ticks an entry stays fresh
    MaxLoad,    \* ticks a load may take (queryContext's timeout)
    Faults,     \* may the load fail?
    MaxWrites,  \* bound on the writes to the table
    MaxTime     \* bound on the clock

ASSUME CacheAssumption ==
    /\ {TTL, MaxLoad, MaxWrites, MaxTime} \subseteq Nat
    /\ Faults \in BOOLEAN
    /\ Nobody \notin Readers

Unset == -1

VARIABLES
    version,   \* the table: number of committed writes
    now,       \* the clock
    cache,     \* data, loaded and loadedAt of cachedData
    reloadMu,  \* holder of the reload mutex, or Nobody
    get,       \* get[r]: the call of reader r
    answer,    \* answer[r]: what get() last returned to r
    pending,   \* pending[w]: the write w has committed and not yet invalidated
    acked,     \* history: the last write whose invalidate() has returned
    when       \* history: when[v] is the time write v was committed

vars == <<version, now, cache, reloadMu, get, answer, pending, acked, when>>

PC == {"idle", "lock", "wait", "held", "peek", "recheck", "load", "store", "return", "fail"}

\* hasStale as in the code, val is its stale or data, since the time its
\* load began.
Call == [pc : PC, hasStale : BOOLEAN, val : Unset..MaxWrites, since : 0..MaxTime]

NoCall == [pc |-> "idle", hasStale |-> FALSE, val |-> Unset, since |-> 0]

TypeOK ==
    /\ version \in 0..MaxWrites
    /\ now \in 0..MaxTime
    /\ cache \in [data : Unset..MaxWrites, loaded : BOOLEAN, loadedAt : 0..MaxTime]
    /\ reloadMu \in Readers \cup {Nobody}
    /\ get \in [Readers -> Call]
    /\ answer \in [Readers -> Unset..MaxWrites]
    /\ pending \in [Writers -> 0..MaxWrites]
    /\ acked \in 0..MaxWrites
    /\ when \in [1..MaxWrites -> 0..MaxTime]

Init ==
    /\ version = 0
    /\ now = 0
    /\ cache = [data |-> Unset, loaded |-> FALSE, loadedAt |-> 0]
    /\ reloadMu = Nobody
    /\ get = [r \in Readers |-> NoCall]
    /\ answer = [r \in Readers |-> Unset]
    /\ pending = [w \in Writers |-> 0]
    /\ acked = 0
    /\ when = [v \in 1..MaxWrites |-> 0]

-----------------------------------------------------------------------------
(***************************************************************************)
(* get()                                                                   *)
(***************************************************************************)
\* Mutant: the age of the entry is not looked at.
LoadedIsFresh == cache.loaded

Fresh == cache.loaded /\ now - cache.loadedAt < TTL

At(r, pc) == get[r].pc = pc
Goto(r, pc) == get' = [get EXCEPT ![r].pc = pc]
Leave(r) == get' = [get EXCEPT ![r] = NoCall]
Reply(r, v) == answer' = [answer EXCEPT ![r] = v]

Table == <<version, now, pending, acked, when>>

\* The first critical section, fresh entry: the call is over.
Hit(r) ==
    /\ At(r, "idle") /\ Fresh
    /\ Reply(r, cache.data)
    /\ UNCHANGED <<cache, reloadMu, get, Table>>

\* The first critical section otherwise: remember what was there.
Miss(r) ==
    /\ At(r, "idle") /\ ~Fresh
    /\ get' = [get EXCEPT ![r] = [pc |-> "lock", hasStale |-> cache.loaded,
                                  val |-> cache.data, since |-> 0]]
    /\ UNCHANGED <<cache, reloadMu, answer, Table>>

\* Mutant: no single flight, every caller that misses reloads.
EveryoneReloads(r) ==
    /\ At(r, "lock")
    /\ reloadMu' = r
    /\ Goto(r, "recheck")
    /\ UNCHANGED <<cache, answer, Table>>

TryLock(r) ==
    /\ At(r, "lock")
    /\ reloadMu = Nobody
    /\ reloadMu' = r
    /\ Goto(r, "recheck")
    /\ UNCHANGED <<cache, answer, Table>>

\* Another goroutine holds the mutex: what was there is good enough.
ServeStale(r) ==
    /\ At(r, "lock")
    /\ reloadMu # Nobody /\ get[r].hasStale
    /\ Reply(r, get[r].val)
    /\ Leave(r)
    /\ UNCHANGED <<cache, reloadMu, Table>>

MustWait(r) ==
    /\ At(r, "lock")
    /\ reloadMu # Nobody /\ ~get[r].hasStale
    /\ Goto(r, "wait")
    /\ UNCHANGED <<cache, reloadMu, answer, Table>>

\* The waiter takes the mutex and lets it go at once.
WaitLock(r) ==
    /\ At(r, "wait")
    /\ reloadMu = Nobody
    /\ reloadMu' = r
    /\ Goto(r, "held")
    /\ UNCHANGED <<cache, answer, Table>>

WaitUnlock(r) ==
    /\ At(r, "held")
    /\ reloadMu' = Nobody
    /\ Goto(r, "peek")
    /\ UNCHANGED <<cache, answer, Table>>

\* It returns the data field, whatever became of the load it waited for.
Peek(r) ==
    /\ At(r, "peek")
    /\ Reply(r, cache.data)
    /\ Leave(r)
    /\ UNCHANGED <<cache, reloadMu, Table>>

Recheck(r) ==
    /\ At(r, "recheck")
    /\ get' = [get EXCEPT ![r] =
                  IF Fresh THEN [@ EXCEPT !.pc = "return", !.val = cache.data]
                           ELSE [@ EXCEPT !.pc = "load", !.since = now]]
    /\ UNCHANGED <<cache, reloadMu, answer, Table>>

\* The SELECT sees the table of this moment; no cache lock is held.
Load(r) ==
    /\ At(r, "load")
    /\ get' = [get EXCEPT ![r] = [@ EXCEPT !.pc = "store", !.val = version]]
    /\ UNCHANGED <<cache, reloadMu, answer, Table>>

LoadFails(r) ==
    /\ Faults
    /\ At(r, "load")
    /\ Goto(r, IF get[r].hasStale THEN "return" ELSE "fail")
    /\ UNCHANGED <<cache, reloadMu, answer, Table>>

\* Mutant: the field holds the expiry instead of the time of the load.
StoreExpiry(r) ==
    /\ At(r, "store")
    /\ cache' = [data |-> get[r].val, loaded |-> TRUE, loadedAt |-> now + TTL]
    /\ Goto(r, "return")
    /\ UNCHANGED <<reloadMu, answer, Table>>

Store(r) ==
    /\ At(r, "store")
    /\ cache' = [data |-> get[r].val, loaded |-> TRUE, loadedAt |-> now]
    /\ Goto(r, "return")
    /\ UNCHANGED <<reloadMu, answer, Table>>

\* The deferred Unlock, with an answer or with the load's error.
Return(r) ==
    /\ At(r, "return")
    /\ Reply(r, get[r].val)
    /\ reloadMu' = Nobody
    /\ Leave(r)
    /\ UNCHANGED <<cache, Table>>

\* Mutant: the error path returns without the unlock.
FailKeepsMutex(r) ==
    /\ At(r, "fail")
    /\ Leave(r)
    /\ UNCHANGED <<cache, reloadMu, answer, Table>>

ReturnError(r) ==
    /\ At(r, "fail")
    /\ reloadMu' = Nobody
    /\ Leave(r)
    /\ UNCHANGED <<cache, answer, Table>>

-----------------------------------------------------------------------------
(***************************************************************************)
(* The writers: a committed statement or transaction, then invalidate().    *)
(* One that fails returns before invalidate() and changes nothing, except    *)
(* that RevokeAllCameraPermissions commits a first DELETE before the          *)
(* statement that may fail.                                                 *)
(***************************************************************************)
Commit ==
    /\ version < MaxWrites
    /\ version' = version + 1
    /\ when' = [when EXCEPT ![version + 1] = now]

Write(w) ==
    /\ pending[w] = 0
    /\ Commit
    /\ pending' = [pending EXCEPT ![w] = version + 1]
    /\ UNCHANGED <<now, cache, reloadMu, get, answer, acked>>

WriteFirst ==
    /\ Commit
    /\ UNCHANGED <<now, cache, reloadMu, get, answer, pending, acked>>

Invalidate(w) ==
    /\ pending[w] # 0
    /\ cache' = [cache EXCEPT !.loaded = FALSE]
    /\ pending' = [pending EXCEPT ![w] = 0]
    /\ acked' = IF pending[w] > acked THEN pending[w] ELSE acked
    /\ UNCHANGED <<version, now, reloadMu, get, answer, when>>

\* A load is over within MaxLoad ticks of its beginning.
Tick ==
    /\ now < MaxTime
    /\ \A r \in Readers : get[r].pc \in {"load", "store"} => now < get[r].since + MaxLoad
    /\ now' = now + 1
    /\ UNCHANGED <<version, cache, reloadMu, get, answer, pending, acked, when>>

\* The part of a call that does not wait for the mutex.
Step(r) ==
    \/ TryLock(r) \/ ServeStale(r) \/ MustWait(r)
    \/ WaitUnlock(r) \/ Peek(r)
    \/ Recheck(r) \/ Load(r) \/ LoadFails(r) \/ Store(r)
    \/ Return(r) \/ ReturnError(r)

Next ==
    \/ \E r \in Readers : Hit(r) \/ Miss(r) \/ WaitLock(r) \/ Step(r)
    \/ \E w \in Writers : Write(w) \/ Invalidate(w)
    \/ WriteFirst
    \/ Tick

Spec == Init /\ [][Next]_vars

(***************************************************************************)
(* A goroutine in get() goes on.  sync.Mutex hands the lock to a waiter that *)
(* has waited for a millisecond (its starvation mode), so Lock() returns      *)
(* although others keep taking the mutex: strong fairness of WaitLock.       *)
(* Nothing makes anybody call get() or change a permission.                  *)
(***************************************************************************)
FairSpec ==
    /\ Spec
    /\ \A r \in Readers : WF_vars(Step(r)) /\ SF_vars(WaitLock(r))

-----------------------------------------------------------------------------
(***************************************************************************)
(* Properties                                                              *)
(***************************************************************************)
\* The cache is a register that lags behind the table but never goes back,
\* for the cache as for each of its callers: no load that read the table
\* early overwrites one that read it late, no path of get() (hit, stale,
\* waiter, failed load) hands out something older than the caller has seen.
Register == INSTANCE StaleRegister WITH published <- cache.data
RegisterSpec == Register!RegSpec

\* Whatever invalidation got lost, an entry served as fresh lacks no write
\* that is TTL plus the duration of a load old.
FreshBound ==
    Fresh /\ cache.data < version => now - when[cache.data + 1] < TTL + MaxLoad

\* Every call of get() returns, its reload failing or not, however the
\* other callers compete for the mutex.
GetReturns == \A r \in Readers : ~At(r, "idle") ~> At(r, "idle")

\* cache.go:90: "invalidate clears the cache, forcing a reload on the next
\* get()": once invalidate() has returned, no entry without its write is
\* served as fresh.
NextGetReloads == Fresh => cache.data >= acked
=============================================================================
