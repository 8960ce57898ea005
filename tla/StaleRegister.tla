--------------------------- MODULE StaleRegister ---------------------------
(***************************************************************************)
(* What the cache of db/cache.go promises its callers: a register that lags *)
(* behind the table but never goes back.  The table's content is named by    *)
(* the number of writes committed to it; Unset is the content of a cache     *)
(* that was never filled.                                                   *)
(***************************************************************************)
EXTENDS Integers

CONSTANT Readers

Unset == -1

VARIABLES
    version,     \* the table's content
    published,   \* the content the cache holds
    answer       \* answer[r]: what reader r was last given

regvars == <<version, published, answer>>

RegInit ==
    /\ version = 0
    /\ published = Unset
    /\ answer = [r \in Readers |-> Unset]

Commit ==
    /\ version' = version + 1
    /\ UNCHANGED <<published, answer>>

\* The cache may skip contents, it may not invent or revive one.
Publish ==
    /\ published' \in published..version
    /\ UNCHANGED <<version, answer>>

\* A reader is never given less than it has already seen.
Answer(r) ==
    /\ \E v \in answer[r]..published : answer' = [answer EXCEPT ![r] = v]
    /\ UNCHANGED <<version, published>>

RegNext == Commit \/ Publish \/ \E r \in Readers : Answer(r)

RegSpec == RegInit /\ [][RegNext]_regvars
=============================================================================
