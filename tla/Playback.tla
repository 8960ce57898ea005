------------------------------ MODULE Playback ------------------------------
(***************************************************************************)
(* Playback sessions: handlers/camera_playback.go with the session table of *)
(* rtsp/relay.go, the streams it keeps on the go2rtc servers, and the health *)
(* check that looks for orphans among them (handlers/health_check.go).       *)
(*                                                                         *)
(* Handlers and the clean-up loop work under playbackSessionsMu, held across *)
(* their calls to go2rtc; the health check and the purges of orphans, which  *)
(* boot and the health check start, call go2rtc without it.  A step is one   *)
(* call, one update of a shared map, or the acquisition of the mutex with    *)
(* the local computation after it.                                           *)
(***************************************************************************)
EXTENDS Integers, FiniteSets

CONSTANTS
    Nvrs,               \* the recorders
    Servers,            \* the go2rtc servers
    Central,            \* the one cameraClient talks to
    ServerOf,           \* nvrGo2RTCClient
    maxSessionsPerNVR,
    Clients,            \* goroutines of HTTP requests
    Sweeper,            \* startPlaybackCleanupLoop
    Purgers,            \* goroutines of purgeOrphanedPlaybackStreams
    BootPurger,         \* the one boot starts
    Faults,             \* the calls to go2rtc that may fail, see AllFaults
    MaxSessions,        \* bound: sessions ever made
    MaxReboots,         \* bound: crashes of the process
    Nobody, NoNvr, NoSession

\* A call that fails, or whose answer is lost, may have had its effect.
AllFaults == {"add", "delete", "list"}

Procs == Clients \cup {Sweeper}

\* Ids are random; they are numbered here in the order of creation, which is
\* the order of LastAccessed, since nothing sets that field again.  fast says
\* that the stream's source is the relay (speed > 1).  A stream is named
\* after its session.
Session == [id : 1..MaxSessions, nvr : Nvrs, fast : BOOLEAN]

ASSUME PlaybackAssumption ==
    /\ Central \in Servers
    /\ ServerOf \in [Nvrs -> Servers]
    /\ maxSessionsPerNVR \in Nat \ {0}
    /\ Sweeper \notin Clients
    /\ BootPurger \in Purgers
    /\ Faults \subseteq AllFaults
    /\ {MaxSessions, MaxReboots} \subseteq Nat
    /\ Nobody \notin Procs
    /\ NoNvr \notin Nvrs
    /\ NoSession \notin Session

VARIABLES
    sessions,  \* playbackSessions
    relay,     \* the sessions registered with the relay
    streams,   \* streams[v]: the playback streams of server v
    stale,     \* sessions whose LastAccessed is five minutes ago
    mu,        \* holder of playbackSessionsMu, or Nobody
    call,      \* call[p]: the locals of goroutine p
    purge,     \* purge[g]: where purge g is, and what it has listed
    made,      \* sessions made so far
    reboots

vars == <<sessions, relay, streams, stale, mu, call, purge, made, reboots>>

PC == {"idle", "lock", "clean", "delete", "unrelay", "forget",
       "register", "add", "undo", "insert"}

Call == [op     : {"none", "start", "stop", "seek", "sweep"},
         pc     : PC,
         nvr    : Nvrs \cup {NoNvr},          \* of a start that has the mutex
         todo   : SUBSET Session,            \* sessions still to be removed
         victim : Session \cup {NoSession},  \* the one being removed or made
         tries  : 0..3]

NoCall == [op |-> "none", pc |-> "idle", nvr |-> NoNvr, todo |-> {},
           victim |-> NoSession, tries |-> 0]

\* "count" belongs to the health check that decides whether to start g.
Purge == [pc : {"off", "count", "list", "snapshot", "delete"}, listed : SUBSET Session]

NoPurge == [pc |-> "off", listed |-> {}]

BootPurge == [[g \in Purgers |-> NoPurge] EXCEPT ![BootPurger].pc = "list"]

TypeOK ==
    /\ sessions \subseteq Session
    /\ relay \subseteq Session
    /\ streams \in [Servers -> SUBSET Session]
    /\ stale \subseteq Session
    /\ mu \in Procs \cup {Nobody}
    /\ call \in [Procs -> Call]
    /\ purge \in [Purgers -> Purge]
    /\ made \in 0..MaxSessions
    /\ reboots \in 0..MaxReboots

Init ==
    /\ sessions = {}
    /\ relay = {}
    /\ streams = [v \in Servers |-> {}]
    /\ stale = {}
    /\ mu = Nobody
    /\ call = [p \in Procs |-> NoCall]
    /\ purge = BootPurge
    /\ made = 0
    /\ reboots = 0

-----------------------------------------------------------------------------
At(p, pc) == call[p].pc = pc
Set(p, c) == call' = [call EXCEPT ![p] = c]
Goto(p, pc) == Set(p, [call[p] EXCEPT !.pc = pc])
Victim(p) == call[p].victim

\* The server createPlaybackSession and cleanupPlaybackSessionLocked talk to.
ServerFor(s) == ServerOf[s.nvr]

Begin(p, op) ==
    /\ At(p, "idle")
    /\ Set(p, [NoCall EXCEPT !.op = op, !.pc = "lock"])
    /\ UNCHANGED <<sessions, relay, streams, stale, mu, purge, made, reboots>>

\* The HTTP handlers, up to the mutex.  The arguments of a request are chosen
\* where they are first used.
StartRequest(p) == Begin(p, "start")
StopRequest(p) == Begin(p, "stop")
SeekRequest(p) == Begin(p, "seek")

\* The ticker of the clean-up loop.
SweepTick == Begin(Sweeper, "sweep")

SessionsOf(n) == {s \in sessions : s.nvr = n}

\* Mutant: the limit is tested after the fact.
EvictedPastLimit(n) ==
    IF Cardinality(SessionsOf(n)) > maxSessionsPerNVR
    THEN {s \in SessionsOf(n) : \A t \in SessionsOf(n) : s.id <= t.id}
    ELSE {}

\* The least recently used session of a recorder that is at its limit.
Evicted(n) ==
    IF Cardinality(SessionsOf(n)) >= maxSessionsPerNVR
    THEN {s \in SessionsOf(n) : \A t \in SessionsOf(n) : s.id <= t.id}
    ELSE {}

Enter(p, nvr, todo) ==
    /\ At(p, "lock")
    /\ mu = Nobody
    /\ mu' = p
    /\ Set(p, [call[p] EXCEPT !.pc = "clean", !.nvr = nvr, !.todo = todo])
    /\ UNCHANGED <<sessions, relay, streams, stale, purge, made, reboots>>

\* What has to be removed is decided once, when the mutex has been taken.
\* Anybody may stop any session; one that is not in the map is ignored.
LockToStart(p) == call[p].op = "start" /\ \E n \in Nvrs : Enter(p, n, Evicted(n))
LockToStop(p) ==
    /\ call[p].op \in {"stop", "seek"}
    /\ \/ Enter(p, NoNvr, {})
       \/ \E s \in sessions : Enter(p, NoNvr, {s})
LockToSweep(p) == call[p].op = "sweep" /\ Enter(p, NoNvr, stale \cap sessions)

Lock(p) == LockToStart(p) \/ LockToStop(p) \/ LockToSweep(p)

-----------------------------------------------------------------------------
(* cleanupPlaybackSessionLocked, for each session in todo.                  *)

Pick(p) ==
    /\ At(p, "clean")
    /\ \E s \in call[p].todo :
          Set(p, [call[p] EXCEPT !.pc = "delete", !.todo = @ \ {s}, !.victim = s, !.tries = 1])
    /\ UNCHANGED <<sessions, relay, streams, stale, mu, purge, made, reboots>>

Deleted(s) == [streams EXCEPT ![ServerFor(s)] = @ \ {s}]

DeleteStream(p) ==
    /\ At(p, "delete")
    /\ streams' = Deleted(Victim(p))
    /\ Goto(p, "unrelay")
    /\ UNCHANGED <<sessions, relay, stale, mu, purge, made, reboots>>

\* Mutant: a session whose stream could not be deleted is kept.
DeleteGivesUp(p) ==
    /\ At(p, "delete")
    /\ "delete" \in Faults
    /\ streams' \in {streams, Deleted(Victim(p))}
    /\ IF call[p].tries < 3
       THEN Set(p, [call[p] EXCEPT !.tries = @ + 1])
       ELSE Goto(p, "clean")
    /\ UNCHANGED <<sessions, relay, stale, mu, purge, made, reboots>>

\* Mutant: one attempt too many.
DeleteTriesAgain(p) ==
    /\ At(p, "delete")
    /\ "delete" \in Faults
    /\ streams' \in {streams, Deleted(Victim(p))}
    /\ IF call[p].tries <= 3
       THEN Set(p, [call[p] EXCEPT !.tries = @ + 1])
       ELSE Goto(p, "unrelay")
    /\ UNCHANGED <<sessions, relay, stale, mu, purge, made, reboots>>

\* Three attempts; the session is forgotten in any case.
DeleteFails(p) ==
    /\ At(p, "delete")
    /\ "delete" \in Faults
    /\ streams' \in {streams, Deleted(Victim(p))}
    /\ IF call[p].tries < 3
       THEN Set(p, [call[p] EXCEPT !.tries = @ + 1])
       ELSE Goto(p, "unrelay")
    /\ UNCHANGED <<sessions, relay, stale, mu, purge, made, reboots>>

UnregisterSession(p) ==
    /\ At(p, "unrelay")
    /\ relay' = relay \ {Victim(p)}
    /\ Goto(p, "forget")
    /\ UNCHANGED <<sessions, streams, stale, mu, purge, made, reboots>>

Forget(p) ==
    /\ At(p, "forget")
    /\ sessions' = sessions \ {Victim(p)}
    /\ stale' = stale \ {Victim(p)}
    /\ Set(p, [call[p] EXCEPT !.pc = "clean", !.victim = NoSession, !.tries = 0])
    /\ UNCHANGED <<relay, streams, mu, purge, made, reboots>>

Unlock(p) == mu' = Nobody /\ Set(p, NoCall)

\* A stop or a sweep returns, and so does a seek to an unknown recorder.
CleanReturns(p) ==
    /\ At(p, "clean") /\ call[p].todo = {} /\ call[p].op # "start"
    /\ Unlock(p)
    /\ UNCHANGED <<sessions, relay, streams, stale, purge, made, reboots>>

\* A seek lets the mutex go before it goes on as a start.
SeekGoesOn(p) ==
    /\ At(p, "clean") /\ call[p].todo = {} /\ call[p].op = "seek"
    /\ mu' = Nobody
    /\ Set(p, [NoCall EXCEPT !.op = "start", !.pc = "lock"])
    /\ UNCHANGED <<sessions, relay, streams, stale, purge, made, reboots>>

-----------------------------------------------------------------------------
(* createPlaybackSession, after the eviction.                               *)

NoCredentials(p) ==
    /\ At(p, "clean") /\ call[p].todo = {} /\ call[p].op = "start"
    /\ Unlock(p)
    /\ UNCHANGED <<sessions, relay, streams, stale, purge, made, reboots>>

Create(p) ==
    /\ At(p, "clean") /\ call[p].todo = {} /\ call[p].op = "start"
    /\ made < MaxSessions
    /\ made' = made + 1
    /\ \E f \in BOOLEAN :
          Set(p, [call[p] EXCEPT
                     !.pc = IF f THEN "register" ELSE "add",
                     !.victim = [id |-> made + 1, nvr |-> call[p].nvr, fast |-> f]])
    /\ UNCHANGED <<sessions, relay, streams, stale, mu, purge, reboots>>

RegisterSession(p) ==
    /\ At(p, "register")
    /\ relay' = relay \cup {Victim(p)}
    /\ Goto(p, "add")
    /\ UNCHANGED <<sessions, streams, stale, mu, purge, made, reboots>>

\* Mutant: every stream is put on the central server.
AddedCentrally(s) == [streams EXCEPT ![Central] = @ \cup {s}]

Added(s) == [streams EXCEPT ![ServerFor(s)] = @ \cup {s}]

AddStream(p) ==
    /\ At(p, "add")
    /\ streams' = Added(Victim(p))
    /\ Goto(p, "insert")
    /\ UNCHANGED <<sessions, relay, stale, mu, purge, made, reboots>>

\* Mutant: the error path leaves the session with the relay.
AddFailsKeepsRelay(p) ==
    /\ At(p, "add")
    /\ "add" \in Faults
    /\ streams' \in {streams, Added(Victim(p))}
    /\ Unlock(p)
    /\ UNCHANGED <<sessions, relay, stale, purge, made, reboots>>

AddFails(p) ==
    /\ At(p, "add")
    /\ "add" \in Faults
    /\ streams' \in {streams, Added(Victim(p))}
    /\ IF Victim(p).fast THEN Goto(p, "undo") /\ mu' = mu ELSE Unlock(p)
    /\ UNCHANGED <<sessions, relay, stale, purge, made, reboots>>

\* Mutant: the error path returns with the mutex.
UndoKeepsMutex(p) ==
    /\ At(p, "undo")
    /\ relay' = relay \ {Victim(p)}
    /\ Set(p, NoCall)
    /\ UNCHANGED <<sessions, streams, stale, mu, purge, made, reboots>>

Undo(p) ==
    /\ At(p, "undo")
    /\ relay' = relay \ {Victim(p)}
    /\ Unlock(p)
    /\ UNCHANGED <<sessions, streams, stale, purge, made, reboots>>

\* The check that go2rtc knows the stream only logs.
Insert(p) ==
    /\ At(p, "insert")
    /\ sessions' = sessions \cup {Victim(p)}
    /\ Unlock(p)
    /\ UNCHANGED <<relay, streams, stale, purge, made, reboots>>

-----------------------------------------------------------------------------
(* purgeOrphanedPlaybackStreams, and the health check that starts it.       *)

Untouched == UNCHANGED <<sessions, relay, streams, stale, mu, call, made, reboots>>
SetPurge(g, u) == purge' = [purge EXCEPT ![g] = u]

\* logHealthCheck asks the central server for its streams.  The loop runs one
\* check at a time.  When the call fails it counts nothing.
CheckStreams(g) ==
    /\ purge[g].pc = "off"
    /\ \A h \in Purgers : purge[h].pc # "count"
    /\ SetPurge(g, [pc |-> "count", listed |-> streams[Central]])
    /\ Untouched

\* Mutant: orphans are reported and left alone.
ReportOrphans(g) ==
    /\ purge[g].pc = "count"
    /\ mu = Nobody
    /\ SetPurge(g, NoPurge)
    /\ Untouched

\* It counts those of no session, and starts a purge, which lists again.
CountOrphans(g) ==
    /\ purge[g].pc = "count"
    /\ mu = Nobody
    /\ SetPurge(g, [NoPurge EXCEPT !.pc = IF purge[g].listed \subseteq sessions THEN "off" ELSE "list"])
    /\ Untouched

PurgeList(g) ==
    /\ purge[g].pc = "list"
    /\ SetPurge(g, [pc |-> "snapshot", listed |-> streams[Central]])
    /\ Untouched

PurgeListFails(g) ==
    /\ purge[g].pc = "list"
    /\ "list" \in Faults
    /\ SetPurge(g, NoPurge)
    /\ Untouched

\* Mutant: the map is read without the mutex.
PurgeSnapshotUnlocked(g) ==
    /\ purge[g].pc = "snapshot"
    /\ SetPurge(g, [pc |-> "delete", listed |-> purge[g].listed \ sessions])
    /\ Untouched

PurgeSnapshot(g) ==
    /\ purge[g].pc = "snapshot"
    /\ mu = Nobody
    /\ SetPurge(g, [pc |-> "delete", listed |-> purge[g].listed \ sessions])
    /\ Untouched

\* A stream that cannot be deleted is left for another purge.
PurgeDelete(g, s) ==
    /\ purge[g].pc = "delete" /\ s \in purge[g].listed
    /\ SetPurge(g, [purge[g] EXCEPT !.listed = @ \ {s}])
    /\ streams' = [streams EXCEPT ![Central] = @ \ {s}]
    /\ UNCHANGED <<sessions, relay, stale, mu, call, made, reboots>>

PurgeDeleteFails(g, s) ==
    /\ purge[g].pc = "delete" /\ s \in purge[g].listed
    /\ "delete" \in Faults
    /\ SetPurge(g, [purge[g] EXCEPT !.listed = @ \ {s}])
    /\ Untouched

PurgeEnds(g) ==
    /\ purge[g] = [pc |-> "delete", listed |-> {}]
    /\ SetPurge(g, NoPurge)
    /\ Untouched

-----------------------------------------------------------------------------
\* Five minutes have passed since LastAccessed.
Age(s) ==
    /\ s \in sessions \ stale
    /\ stale' = stale \cup {s}
    /\ UNCHANGED <<sessions, relay, streams, mu, call, purge, made, reboots>>

\* The process dies and is started again; go2rtc lives on.
Reboot ==
    /\ reboots < MaxReboots
    /\ reboots' = reboots + 1
    /\ sessions' = {}
    /\ relay' = {}
    /\ stale' = {}
    /\ mu' = Nobody
    /\ call' = [p \in Procs |-> NoCall]
    /\ purge' = BootPurge
    /\ UNCHANGED <<streams, made>>

Request(p) == StartRequest(p) \/ StopRequest(p) \/ SeekRequest(p)

\* A call under the mutex.
Step(p) ==
    \/ Pick(p) \/ DeleteStream(p) \/ DeleteFails(p) \/ UnregisterSession(p) \/ Forget(p)
    \/ CleanReturns(p) \/ SeekGoesOn(p)
    \/ NoCredentials(p) \/ Create(p) \/ RegisterSession(p)
    \/ AddStream(p) \/ AddFails(p) \/ Undo(p) \/ Insert(p)

PurgeStep(g) ==
    \/ CountOrphans(g) \/ PurgeList(g) \/ PurgeListFails(g) \/ PurgeSnapshot(g)
    \/ (\E s \in Session : PurgeDelete(g, s) \/ PurgeDeleteFails(g, s))
    \/ PurgeEnds(g)

Next ==
    \/ \E p \in Clients : Request(p)
    \/ SweepTick
    \/ \E p \in Procs : Lock(p) \/ Step(p)
    \/ \E g \in Purgers : CheckStreams(g) \/ PurgeStep(g)
    \/ \E s \in Session : Age(s)
    \/ Reboot

Spec == Init /\ [][Next]_vars

(***************************************************************************)
(* The ticker ticks, time passes, and goroutines go on: go2rtc answers or    *)
(* fails within the ten seconds of its client.  sync.Mutex hands over to a    *)
(* waiter (its starvation mode), so Lock() returns although others keep        *)
(* taking the mutex.  A stream that is deleted again and again is deleted at   *)
(* some time.  No client is obliged to do anything.                            *)
(***************************************************************************)
Fairness ==
    /\ WF_vars(SweepTick)
    /\ \A g \in Purgers :
          /\ SF_vars(CheckStreams(g) \/ PurgeStep(g)) /\ SF_vars(PurgeList(g))
          /\ \A i \in 1..MaxSessions : SF_vars(\E s \in purge[g].listed : s.id = i /\ PurgeDelete(g, s))
    /\ \A p \in Procs : SF_vars(Lock(p) \/ Step(p))
    /\ \A i \in 1..MaxSessions : WF_vars(\E s \in sessions : s.id = i /\ Age(s))

FairSpec == Spec /\ Fairness

-----------------------------------------------------------------------------
(* Properties.                                                              *)

\* cleanupPlaybackSessionLocked is at work on s; createPlaybackSession is.
Leaving(s) == \E p \in Procs : Victim(p) = s /\ call[p].pc \in {"delete", "unrelay", "forget"}
Entering(s) == \E p \in Procs : Victim(p) = s /\ call[p].pc \in {"add", "undo", "insert"}

\* However starts, seeks, evictions and failures interleave, no recorder has
\* more playback sessions than it may.
SessionLimit == \A n \in Nvrs : Cardinality(SessionsOf(n)) <= maxSessionsPerNVR

\* A session in the map has its stream on the server of its recorder: the
\* purge, which deletes without the mutex what it listed before it knew the
\* sessions, never takes a live one.
SessionStreamed == \A s \in sessions : s \in streams[ServerFor(s)] \/ Leaving(s)

\* The relay knows every session that plays through it, from before go2rtc
\* can connect until the stream is deleted, and no other.
RelayMatches ==
    /\ \A s \in sessions : s.fast => s \in relay \/ Leaving(s)
    /\ \A s \in relay : s \in sessions \/ Entering(s)
    /\ \A p \in Procs : call[p].pc \in {"add", "insert"} /\ Victim(p).fast => Victim(p) \in relay

\* Every request returns, whatever go2rtc answers and however long others
\* hold the mutex across their calls.
CallsReturn == \A p \in Procs : ~At(p, "idle") ~> At(p, "idle")

\* No session stays for ever, also when its stream cannot be deleted.
Tracked(i) == \E s \in sessions : s.id = i
SessionsExpire == \A i \in 1..MaxSessions : Tracked(i) ~> ~Tracked(i)


\* "failed to delete stream after 3 attempts, will be caught by orphan
\* cleanup" (the warning of cleanupPlaybackSessionLocked): a stream of the
\* central server that has lost its session, through a failed call or through
\* a crash, does not stay, whatever the checks and purges overlap with.
Orphan(i) == \E s \in streams[Central] : s.id = i /\ s \notin sessions
OrphansGo == \A i \in 1..MaxSessions : Orphan(i) ~> ~Orphan(i)
=============================================================================
