--------------------------- MODULE RelayConnection ---------------------------
(***************************************************************************)
(* One connection of the RTSP relay (rtsp/relay.go, handleConnection):     *)
(* go2rtc in front, a recorder behind.  The relay rewrites each request,   *)
(* logs in to the recorder by itself, and after PLAY copies bytes both     *)
(* ways.  The handlers of different connections share nothing but the      *)
(* table of sessions, which is Playback's.                                 *)
(*                                                                         *)
(* The recorder and go2rtc are external: the recorder answers a request    *)
(* that needs a login and has none with 401, and it forgets nonces.        *)
(***************************************************************************)
EXTENDS Naturals

Method == {"PLAY", "SETUP", "other"}

\* What a request says, as go2rtc sends it and as the recorder gets it.
Request == [method  : Method,
            relay   : BOOLEAN,      \* the URI is the relay's
            track   : BOOLEAN,      \* the URI is a track's
            range   : BOOLEAN,      \* the URI has the query with starttime
            scale   : BOOLEAN,      \* a Scale header
            session : BOOLEAN,      \* the Session the recorder last gave
            auth    : {"none", "valid", "stale", "wrong"}]

\* What the session and its recorder are like.
Camera == [scaled   : BOOLEAN,      \* the session's Scale is above 1
           user     : BOOLEAN,      \* its URL has credentials
           accepted : BOOLEAN,      \* the recorder accepts them
           security : {"open", "basic", "digest"}]

VARIABLES
    camera,
    front,      \* go2rtc's end of the connection in front
    back,       \* the recorder's end of the connection behind
    pc,         \* where handleConnection is
    req,        \* the request from go2rtc
    sent,       \* the last request to the recorder
    nonce,      \* digestAuth: none, or whether the recorder still knows it
    session,    \* nvrSessionID is set
    copying,    \* the io.Copy that still run: "up" to the recorder, "down"
    lapsed,     \* history: the nonce has expired since this request or its challenge
    answer      \* the status of the last answer to go2rtc

relayVars == <<camera, front, back, pc, req, sent, nonce, session, copying, lapsed, answer>>

NoRequest == [method |-> "other", relay |-> TRUE, track |-> FALSE, range |-> FALSE,
              scale |-> FALSE, session |-> FALSE, auth |-> "none"]

AnyCamera == [scaled |-> FALSE, user |-> FALSE, accepted |-> FALSE, security |-> "open"]

TypeOK ==
    /\ camera \in Camera
    /\ front \in {"closed", "open"}
    /\ back \in {"closed", "open", "eof"}
    /\ pc \in {"idle", "first", "dial", "send", "wait", "retry", "wait2", "read", "copy"}
    /\ req \in Request /\ sent \in Request
    /\ nonce \in {"none", "known", "forgotten"}
    /\ session \in BOOLEAN /\ lapsed \in BOOLEAN
    /\ copying \subseteq {"up", "down"}
    /\ answer \in {0, 200, 401, 500}

Init ==
    /\ camera = AnyCamera
    /\ front = "closed" /\ back = "closed" /\ pc = "idle"
    /\ req = NoRequest /\ sent = NoRequest
    /\ nonce = "none" /\ session = FALSE /\ copying = {}
    /\ lapsed = FALSE /\ answer = 0

-----------------------------------------------------------------------------
Local == <<camera, req, sent, nonce, session, copying, lapsed, answer>>
Ends == <<camera, front, back>>

\* handleConnection returns and closes what it has opened.
Return ==
    /\ camera' = AnyCamera
    /\ front' = "closed" /\ back' = "closed" /\ pc' = "idle"
    /\ req' = NoRequest /\ sent' = NoRequest
    /\ nonce' = "none" /\ session' = FALSE /\ copying' = {}
    /\ lapsed' = FALSE /\ answer' = 0

Accept ==
    /\ pc = "idle"
    /\ pc' = "first" /\ front' = "open"
    /\ camera' \in Camera
    /\ UNCHANGED <<back, req, sent, nonce, session, copying, lapsed, answer>>

\* Mutant: a request that cannot be read is skipped.
ReadAgain ==
    /\ pc \in {"first", "read"} /\ front = "closed"
    /\ UNCHANGED relayVars

\* readRTSPMessage fails, or the line has fewer than three fields.
ReadFails ==
    /\ pc \in {"first", "read"} /\ front = "closed"
    /\ Return

\* go2rtc only names the relay: rewriteSDPControl has put the relay's address
\* into the session description too.
FromFront(m, track, hasSession) ==
    [NoRequest EXCEPT !.method = m, !.track = track, !.session = hasSession /\ session]

\* A request of go2rtc.  The first names the session; a session the relay
\* does not know ends the connection.
Read ==
    /\ pc \in {"first", "read"} /\ front = "open"
    /\ \/ /\ \E m \in Method, t \in BOOLEAN, x \in BOOLEAN :
                req' = FromFront(m, t, x)
          /\ pc' = IF pc = "first" THEN "dial" ELSE "send"
          /\ answer' = 0
          /\ UNCHANGED <<Ends, sent, nonce, session, copying, lapsed>>
       \/ Return

Dial ==
    /\ pc = "dial"
    /\ \/ pc' = "send" /\ back' = "open" /\ UNCHANGED <<front, Local>>
       \/ Return

\* computeDigestAuth: what the recorder thinks of it.
Authorization ==
    CASE nonce = "none" \/ ~camera.user -> "none"
      [] ~camera.accepted           -> "wrong"
      [] nonce = "known"            -> "valid"
      [] OTHER                      -> "stale"

\* The relay's address becomes the recorder's, with the query of the session's
\* URL unless the URI is a track's.
rewriteURI(q) == [q EXCEPT !.relay = FALSE, !.range = ~q.track]

\* The headers of sendToNVR.
Rewritten(q) == [rewriteURI(q) EXCEPT
                          !.scale = q.method = "PLAY" /\ camera.scaled,
                          !.session = q.session \/ session,
                          !.auth = Authorization]

\* sendToNVR, up to the answer.
Send ==
    /\ pc = "send" /\ back = "open"
    /\ sent' = Rewritten(req)
    /\ pc' = "wait" /\ lapsed' = FALSE
    /\ UNCHANGED <<Ends, req, nonce, session, copying, answer>>

\* Mutant: the retry leaves the Scale header out.
RetryUnscaled ==
    /\ pc = "retry" /\ back = "open"
    /\ sent' = [Rewritten(req) EXCEPT !.scale = FALSE]
    /\ pc' = "wait2"
    /\ UNCHANGED <<Ends, req, nonce, session, copying, lapsed, answer>>

\* The same request once more, now with credentials.
Retry ==
    /\ pc = "retry" /\ back = "open"
    /\ sent' = Rewritten(req)
    /\ pc' = "wait2"
    /\ UNCHANGED <<Ends, req, nonce, session, copying, lapsed, answer>>

\* Writing to the recorder, or reading its answer, fails.
NvrFails ==
    /\ pc \in {"send", "wait", "retry", "wait2"} /\ back = "eof"
    /\ Return

-----------------------------------------------------------------------------
(* The recorder's answers and what the relay does with them.                *)

Waiting == pc \in {"wait", "wait2"} /\ back = "open"
Refuses(q) == camera.security # "open" /\ q.auth # "valid"
CanAnswer == camera.security = "digest" /\ camera.user

\* The answer goes to go2rtc with the CSeq of its request.
Relayed(status) ==
    /\ answer' = status
    /\ IF sent.method = "PLAY" /\ status = 200
       THEN pc' = "copy" /\ copying' = {"up", "down"}
       ELSE pc' = "read" /\ UNCHANGED copying

\* Mutant: a challenge is only heeded once.
ChallengedOnce ==
    /\ pc = "wait" /\ back = "open" /\ Refuses(sent) /\ CanAnswer
    /\ IF nonce = "none"
       THEN nonce' = "known" /\ lapsed' = FALSE /\ pc' = "retry" /\ UNCHANGED <<copying, answer>>
       ELSE Relayed(401) /\ UNCHANGED <<nonce, lapsed>>
    /\ UNCHANGED <<Ends, req, sent, session>>

\* 401 with a challenge the relay can answer.
Challenged ==
    /\ pc = "wait" /\ back = "open" /\ Refuses(sent) /\ CanAnswer
    /\ nonce' = "known" /\ lapsed' = FALSE
    /\ pc' = "retry"
    /\ UNCHANGED <<Ends, req, sent, session, copying, answer>>

\* 401 that it cannot, or the second.
Denied ==
    /\ Waiting /\ Refuses(sent)
    /\ pc = "wait2" \/ ~CanAnswer
    /\ Relayed(401)
    /\ UNCHANGED <<Ends, req, sent, nonce, session, lapsed>>

\* The recorder is content with the request, and serves it or fails; the answer to SETUP names the session.
Served ==
    /\ Waiting /\ ~Refuses(sent)
    /\ \E status \in {200, 500} : Relayed(status)
    /\ session' = (session \/ sent.method = "SETUP")
    /\ UNCHANGED <<Ends, req, sent, nonce, lapsed>>

Forget ==
    /\ nonce = "known"
    /\ nonce' = "forgotten" /\ lapsed' = TRUE
    /\ sent' = [sent EXCEPT !.auth = IF @ = "valid" THEN "stale" ELSE @]
    /\ UNCHANGED <<Ends, pc, req, session, copying, answer>>

-----------------------------------------------------------------------------
(* The raw copy, and the two ends going away.                               *)

\* io.Copy(backend, frontReader): go2rtc has closed, or it sends something
\* and the recorder is gone.
UpEnds ==
    /\ "up" \in copying /\ (front = "closed" \/ back = "eof")
    /\ copying' = copying \ {"up"}
    /\ UNCHANGED <<Ends, pc, req, sent, nonce, session, lapsed, answer>>

\* io.Copy(frontend, backReader): the recorder has closed, or it sends
\* something and go2rtc is gone.
DownEnds ==
    /\ "down" \in copying /\ (back = "eof" \/ front = "closed")
    /\ copying' = copying \ {"down"}
    /\ UNCHANGED <<Ends, pc, req, sent, nonce, session, lapsed, answer>>

CopyEnds ==
    /\ pc = "copy" /\ copying = {}
    /\ Return

FrontCloses ==
    /\ front = "open"
    /\ front' = "closed"
    /\ UNCHANGED <<back, pc, Local>>

NvrCloses ==
    /\ back = "open"
    /\ back' = "eof"
    /\ UNCHANGED <<front, pc, Local>>

Answers == Challenged \/ Denied \/ Served

Next ==
    \/ Accept \/ Read \/ ReadFails \/ Dial \/ Send \/ Retry \/ NvrFails
    \/ Challenged \/ Denied \/ Served \/ Forget
    \/ UpEnds \/ DownEnds \/ CopyEnds \/ FrontCloses \/ NvrCloses

\* The handler runs; the recorder answers or closes.  In the raw copy each
\* side only learns that the other is gone by traffic: a recorder in play
\* keeps sending, and go2rtc gives up a stream that has gone silent.
Fairness ==
    /\ WF_relayVars(ReadFails) /\ WF_relayVars(Dial)
    /\ WF_relayVars(Send \/ Retry \/ NvrFails)
    /\ WF_relayVars(Answers)
    /\ WF_relayVars(UpEnds /\ front = "closed") /\ WF_relayVars(DownEnds) /\ WF_relayVars(CopyEnds)
    /\ WF_relayVars(FrontCloses /\ back = "eof")

Spec == Init /\ [][Next]_relayVars /\ Fairness

-----------------------------------------------------------------------------
(* Properties.                                                              *)

\* go2rtc, which knows no credentials, is only refused when the relay has
\* none, the recorder does not accept them or asks for Basic, or the nonce
\* has expired between the challenge and the retry: a nonce that expires
\* later, between two requests, is renewed.
CredentialsWork == answer = 401 =>
    \/ ~camera.user \/ ~camera.accepted \/ camera.security = "basic"
    \/ lapsed

\* What is played is what the session asks for: whether it took the retry or
\* not, the PLAY that the recorder has accepted had the speed, the recorder's
\* own address and session, and the start time unless it named a track.
PlayAsAsked == pc = "copy" =>
    /\ sent.method = "PLAY" /\ ~sent.relay
    /\ sent.scale = camera.scaled
    /\ sent.range \/ sent.track
    /\ sent.session = session

\* The handler does not outlive its connection: when go2rtc or the recorder
\* has closed, at any moment of the exchange, it returns and closes both.
HandlerReturns == front = "closed" \/ back = "eof" ~> pc = "idle"
=============================================================================
