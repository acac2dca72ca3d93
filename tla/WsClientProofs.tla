---------------------------- MODULE WsClientProofs ----------------------------
(***************************************************************************)
(* For any number of slots, any longest delay and any number of blips the  *)
(* client has at most one attempt at a connection under way, and its       *)
(* status and heartbeat follow the socket.  The three properties prove     *)
(* each other: a heartbeat is started only where none runs because no      *)
(* other socket is open, and so on, so the invariant is their conjunction  *)
(* with what was still missing.                                            *)
(***************************************************************************)
EXTENDS WsClient, TLAPS

\* Before the first connect() nothing is under way, and a page that is there
\* has a token, so that its connect() does open a socket.
NotYetStarted == load = "sources" => Quiet
MountedHasToken == page = "mounted" => token # "none"

\* disconnect() closes what the variable ws holds: it must be the one alive.
\* Even when the page is gone, a socket yet to open is the one ws holds, so
\* startHeartbeat finds one.
WsIsLive == page = "mounted" => Live \subseteq {ws}
WsOpens == \A s \in Slots : socks[s] = "connecting" => ws = s

Inv == /\ TypeOK /\ OneAttempt /\ StatusFollowsSocket
       /\ NotYetStarted /\ MountedHasToken /\ WsIsLive /\ WsOpens

USE ClientAssumption DEF ClientAssumption
------------------------------------------------------------------------------
LEMMA InitInv == Init => Inv
<1> SUFFICES ASSUME Init PROVE Inv
  OBVIOUS
<1>1. Live = {} /\ Open = {}
  BY DEF Init, Live, Open
<1>2. TypeOK
  <2>1. /\ socks \in [Slots -> {"free", "connecting", "open", "closing"}]
        /\ carried \in [Slots -> Tokens]
    BY DEF Init, Tokens
  <2>2. delay \in 1 .. MaxDelay /\ blips \in 0 .. MaxBlips
    BY DEF Init
  <2>3. QED
    BY <2>1, <2>2 DEF Init, TypeOK, Tokens
<1>3. /\ OneAttempt /\ StatusFollowsSocket /\ NotYetStarted /\ MountedHasToken
      /\ WsIsLive /\ WsOpens
  BY <1>1 DEF Init, OneAttempt, StatusFollowsSocket, NotYetStarted, MountedHasToken, WsIsLive,
     WsOpens, Quiet
<1>4. QED
  BY <1>2, <1>3 DEF Inv

\* Doubling stays within the limit.
LEMMA NextDelay ==
  ASSUME delay \in 1 .. MaxDelay, ScheduleReconnect
  PROVE  timer' = TRUE /\ delay' \in 1 .. MaxDelay
  BY DEF ScheduleReconnect

\* A connect() where nothing is under way.
LEMMA ConnectFromQuiet ==
  ASSUME Inv, Live = {}, NEW t \in Tokens, Connect(t)
  PROVE  /\ socks' \in [Slots -> {"free", "connecting", "open", "closing"}]
         /\ carried' \in [Slots -> Tokens]
         /\ ws' \in Slots \cup {0}
         /\ Open' = {}
         /\ \A s, u \in Live' : s = u
         /\ t = "none" => Live' = {}
         /\ t # "none" => Live' # {}
         /\ Live' \subseteq {ws'}
<1>0. /\ socks \in [Slots -> {"free", "connecting", "open", "closing"}]
      /\ carried \in [Slots -> Tokens] /\ ws \in Slots \cup {0}
      /\ \A s \in Slots : socks[s] = "free"
  BY DEF Inv, TypeOK, Live
<1>1. CASE t = "none"
  BY <1>0, <1>1 DEF Connect, Live, Open
<1>2. CASE t # "none"
  <2>1. PICK s \in Slots \ Live : /\ socks' = [socks EXCEPT ![s] = "connecting"]
                                  /\ carried' = [carried EXCEPT ![s] = t]
                                  /\ ws' = s
    BY <1>2 DEF Connect
  <2>2. \A u \in Slots : socks'[u] = IF u = s THEN "connecting" ELSE "free"
    BY <1>0, <2>1
  <2>3. Live' = {s} /\ Open' = {}
    BY <2>1, <2>2 DEF Live, Open
  <2>4. QED
    BY <1>0, <1>2, <2>1, <2>3
<1>3. QED
  BY <1>1, <1>2

\* Unmounting stops heartbeat and timer, and begins to close the socket.
LEMMA AfterDisconnect ==
  ASSUME Inv, Disconnect
  PROVE  /\ socks' \in [Slots -> {"free", "connecting", "open", "closing"}]
         /\ ws' = 0 /\ timer' = FALSE /\ beat' = FALSE /\ beats' = 0
         /\ Live' = Live
<1>0. /\ socks \in [Slots -> {"free", "connecting", "open", "closing"}]
      /\ beat \in BOOLEAN /\ beats \in {0, 1}
      /\ beats = IF beat THEN 1 ELSE 0
  BY DEF Inv, TypeOK, StatusFollowsSocket
<1>1. QED
  BY <1>0 DEF Disconnect, StopHeartbeat, Live
------------------------------------------------------------------------------
(* A socket that was the only one is lost; the timer takes its place.        *)

\* What a lost socket s leaves behind, whether by OnClose or by OnError.
LEMMA SocketLost ==
  ASSUME Inv, NEW s \in Live, OnClose(s) \/ OnError(s)
  PROVE  Inv'
<1>0. /\ socks \in [Slots -> {"free", "connecting", "open", "closing"}]
      /\ carried \in [Slots -> Tokens] /\ beat \in BOOLEAN /\ beats \in {0, 1}
      /\ delay \in 1 .. MaxDelay /\ blips \in 0 .. MaxBlips
  BY DEF Inv, TypeOK
<1>1. \A u \in Slots : u # s => socks[u] = "free"
  BY DEF Inv, OneAttempt, Live
<1>2. /\ socks' \in [Slots -> {"free", "connecting", "open", "closing"}]
      /\ \A u \in Slots : socks'[u] = "free"
  <2>1. CASE OnClose(s)
    BY <1>0, <1>1, <2>1 DEF OnClose, Live
  <2>2. CASE OnError(s)
    BY <1>0, <1>1, <2>2 DEF OnError, Live
  <2>3. QED
    BY <2>1, <2>2
<1>3. Live' = {} /\ Open' = {}
  BY <1>2 DEF Live, Open
<1>4. /\ carried' \in [Slots -> Tokens]
      /\ connected' = FALSE /\ timer' = TRUE /\ delay' \in 1 .. MaxDelay
      /\ UNCHANGED <<token, up, page, load, ws>>
  BY <1>0, NextDelay DEF OnClose, OnError, Tokens
<1>5. beat' = FALSE /\ beats' = 0
  <2>1. beats = IF beat THEN 1 ELSE 0
    BY DEF Inv, StatusFollowsSocket
  <2>2. QED
    BY <1>0, <2>1 DEF OnClose, OnError, StopHeartbeat
<1>6. blips' \in 0 .. MaxBlips
  BY <1>0 DEF OnClose, OnError, Fails
<1>7. load # "sources"
  BY DEF Inv, NotYetStarted, Quiet
<1>8. TypeOK'
  BY <1>2, <1>4, <1>5, <1>6 DEF Inv, TypeOK
<1>9. OneAttempt' /\ StatusFollowsSocket' /\ NotYetStarted' /\ MountedHasToken' /\ WsIsLive'
  BY <1>3, <1>4, <1>5, <1>7 DEF Inv, OneAttempt, StatusFollowsSocket, NotYetStarted,
     MountedHasToken, WsIsLive
<1>10. WsOpens'
  BY <1>2 DEF WsOpens
<1>11. QED
  BY <1>8, <1>9, <1>10 DEF Inv

LEMMA SocketOpened ==
  ASSUME Inv, NEW s \in Slots, OnOpen(s)
  PROVE  Inv'
<1>0. /\ socks \in [Slots -> {"free", "connecting", "open", "closing"}]
      /\ socks[s] = "connecting"
  BY DEF Inv, TypeOK, OnOpen
<1>1. \A u \in Slots : u # s => socks[u] = "free"
  BY <1>0 DEF Inv, OneAttempt, Live
<1>2. /\ socks' \in [Slots -> {"free", "connecting", "open", "closing"}]
      /\ \A u \in Slots : socks'[u] = IF u = s THEN "open" ELSE "free"
  BY <1>0, <1>1 DEF OnOpen
<1>3. Live' = {s} /\ Open' = {s} /\ s \in Live /\ Open = {}
  BY <1>0, <1>1, <1>2 DEF Live, Open
<1>4. beat' = TRUE /\ beats' = 1
  <2>1. ws # 0
    BY <1>0 DEF Inv, WsOpens
  <2>2. QED
    BY <1>3, <2>1 DEF Inv, StatusFollowsSocket, OnOpen, StartHeartbeat
<1>5. TypeOK'
  BY <1>2, <1>4 DEF Inv, TypeOK, OnOpen, envVars
<1>6. OneAttempt' /\ StatusFollowsSocket' /\ NotYetStarted' /\ MountedHasToken' /\ WsIsLive'
  BY <1>3, <1>4 DEF Inv, OneAttempt, StatusFollowsSocket, NotYetStarted, MountedHasToken,
     WsIsLive, Quiet, OnOpen, envVars
<1>7. WsOpens'
  BY <1>2 DEF WsOpens
<1>8. QED
  BY <1>5, <1>6, <1>7 DEF Inv

\* The two steps that call connect().
LEMMA Connected ==
  ASSUME Inv, OnTimer \/ SourcesFetched
  PROVE  Inv'
<1>1. Live = {} /\ Open = {} /\ timer' = FALSE
  <2>1. Live = {} /\ timer' = FALSE
    BY DEF Inv, OneAttempt, NotYetStarted, Quiet, OnTimer, SourcesFetched, TypeOK
  <2>2. QED
    BY <2>1 DEF Live, Open
<1>2. /\ token' \in Tokens /\ Connect(token') /\ load' \in {"sources", "logs", "done"}
      /\ load' # "sources" /\ page' \in {"mounted", "quitting", "gone"}
      /\ page' = "mounted" => page = "mounted" /\ token' # "none"
  <2>1. CASE OnTimer
    BY <2>1 DEF Inv, TypeOK, OnTimer, envVars, MountedHasToken, NotYetStarted, Quiet
  <2>2. CASE SourcesFetched
    BY <2>2 DEF Inv, TypeOK, SourcesFetched, TokenAfterFetch, Tokens, MountedHasToken
  <2>3. QED
    BY <2>1, <2>2
<1>3. /\ socks' \in [Slots -> {"free", "connecting", "open", "closing"}]
      /\ carried' \in [Slots -> Tokens]
      /\ ws' \in Slots \cup {0}
      /\ Open' = {}
      /\ \A s, u \in Live' : s = u
      /\ token' # "none" => Live' # {}
      /\ Live' \subseteq {ws'}
  BY <1>1, <1>2, ConnectFromQuiet
<1>4. UNCHANGED <<up, connected, delay, beat, beats, blips>>
  BY DEF OnTimer, SourcesFetched, envVars, beatVars
<1>5. TypeOK'
  BY <1>1, <1>2, <1>3, <1>4 DEF Inv, TypeOK
<1>6. OneAttempt'
  BY <1>1, <1>2, <1>3 DEF OneAttempt
<1>7. StatusFollowsSocket'
  BY <1>1, <1>3, <1>4 DEF Inv, StatusFollowsSocket
<1>8. NotYetStarted' /\ MountedHasToken' /\ WsIsLive' /\ WsOpens'
  BY <1>2, <1>3 DEF NotYetStarted, MountedHasToken, WsIsLive, WsOpens, Live
<1>9. QED
  BY <1>5, <1>6, <1>7, <1>8 DEF Inv

\* The page goes, or had gone already.
LEMMA Unmounted ==
  ASSUME Inv, Logout \/ GoBack
  PROVE  Inv'
<1>1. /\ token' \in Tokens /\ load' \in {"sources", "logs", "done"}
      /\ load' = "sources" => load = "sources"
      /\ UNCHANGED <<up, carried, connected, delay, blips>>
  BY DEF Logout, GoBack, Inv, TypeOK, Tokens
<1>2. CASE page = "mounted"
  <2>1. Disconnect /\ page' \in {"quitting", "gone"}
    BY <1>2 DEF Logout, GoBack, Unmount
  <2>2. /\ socks' \in [Slots -> {"free", "connecting", "open", "closing"}]
        /\ ws' = 0 /\ timer' = FALSE /\ beat' = FALSE /\ beats' = 0
        /\ Live' = Live
    BY <2>1, AfterDisconnect
  <2>3. Open' = {}
    <3>1. \A u \in Slots : u # ws => socks[u] = "free"
      BY <1>2 DEF Inv, WsIsLive, Live
    <3>2. \A u \in Slots : socks'[u] = IF u = ws /\ u \in Live THEN "closing" ELSE socks[u]
      BY <2>1 DEF Disconnect
    <3>3. QED
      BY <3>1, <3>2 DEF Live, Open
  <2>4. TypeOK'
    BY <1>1, <2>1, <2>2 DEF Inv, TypeOK
  <2>5. OneAttempt' /\ StatusFollowsSocket' /\ NotYetStarted' /\ MountedHasToken' /\ WsIsLive'
    BY <1>1, <2>1, <2>2, <2>3 DEF Inv, OneAttempt, StatusFollowsSocket, NotYetStarted,
       MountedHasToken, WsIsLive, Quiet
  <2>6. WsOpens'
    <3>1. \A u \in Slots : u # ws => socks[u] = "free"
      BY <1>2 DEF Inv, WsIsLive, Live
    <3>2. QED
      BY <2>1, <3>1 DEF Disconnect, WsOpens, Live
  <2>7. QED
    BY <2>4, <2>5, <2>6 DEF Inv
<1>3. CASE page # "mounted"
  <2>1. UNCHANGED <<page, socks, ws, timer, beat, beats>>
    BY <1>3 DEF Logout, GoBack, Unmount, beatVars
  <2>2. Live' = Live /\ Open' = Open
    BY <2>1 DEF Live, Open
  <2>3. TypeOK'
    BY <1>1, <2>1 DEF Inv, TypeOK
  <2>4. OneAttempt' /\ StatusFollowsSocket' /\ NotYetStarted' /\ MountedHasToken' /\ WsIsLive'
    BY <1>1, <1>3, <2>1, <2>2 DEF Inv, OneAttempt, StatusFollowsSocket, NotYetStarted,
       MountedHasToken, WsIsLive, Quiet
  <2>5. WsOpens'
    BY <2>1 DEF Inv, WsOpens
  <2>6. QED
    BY <2>3, <2>4, <2>5 DEF Inv
<1>4. QED
  BY <1>2, <1>3

\* Steps that touch neither the sockets nor the timer nor the heartbeat.
LEMMA OtherSteps ==
  ASSUME Inv, LogsSynced \/ Login \/ Expire \/ ServerStopsOrStarts \/ UNCHANGED vars
  PROVE  Inv'
<1>1. UNCHANGED <<socks, ws, connected, timer, delay, beat, beats, blips>>
  BY DEF LogsSynced, Login, Expire, ServerStopsOrStarts, vars, beatVars
<1>2. Live' = Live /\ Open' = Open
  BY <1>1 DEF Live, Open
<1>3. /\ token' \in Tokens /\ up' \in BOOLEAN
      /\ page' \in {"mounted", "quitting", "gone"} /\ load' \in {"sources", "logs", "done"}
      /\ load' = "sources" => load = "sources"
      /\ page' = "mounted" => page = "mounted" /\ token' # "none"
      /\ page' = "mounted" /\ load' # "sources" => load # "sources"
  BY DEF LogsSynced, Login, Expire, ServerStopsOrStarts, vars, TokenAfterFetch, Inv,
         TypeOK, Tokens, MountedHasToken
<1>4. carried' \in [Slots -> Tokens]
  BY DEF LogsSynced, Login, Expire, ServerStopsOrStarts, vars, Inv, TypeOK, Tokens
<1>5. TypeOK'
  BY <1>1, <1>3, <1>4 DEF Inv, TypeOK
<1>6. OneAttempt' /\ StatusFollowsSocket' /\ NotYetStarted' /\ MountedHasToken' /\ WsIsLive'
  BY <1>1, <1>2, <1>3 DEF Inv, OneAttempt, StatusFollowsSocket, NotYetStarted,
     MountedHasToken, WsIsLive, Quiet
<1>7. WsOpens'
  BY <1>1 DEF Inv, WsOpens
<1>8. QED
  BY <1>5, <1>6, <1>7 DEF Inv
------------------------------------------------------------------------------
LEMMA InvCorrect == Spec => []Inv
<1>1. Inv /\ [Next]_vars => Inv'
  <2> SUFFICES ASSUME Inv, [Next]_vars PROVE Inv'
    OBVIOUS
  <2>1. ASSUME NEW s \in Slots, SocketEvent(s) PROVE Inv'
    <3>1. CASE OnOpen(s)
      BY <3>1, SocketOpened
    <3>2. CASE OnClose(s) \/ OnError(s)
      <4>1. s \in Live
        BY <3>2 DEF OnClose, OnError, Live
      <4>2. QED
        BY <3>2, <4>1, SocketLost
    <3>3. QED
      BY <2>1, <3>1, <3>2 DEF SocketEvent
  <2>2. CASE OnTimer \/ SourcesFetched
    BY <2>2, Connected
  <2>3. CASE Logout \/ GoBack
    BY <2>3, Unmounted
  <2>4. CASE LogsSynced \/ Login \/ Expire \/ ServerStopsOrStarts \/ UNCHANGED vars
    BY <2>4, OtherSteps
  <2>5. QED
    BY <2>1, <2>2, <2>3, <2>4 DEF Next
<1>2. QED
  BY InitInv, <1>1, PTL DEF Spec

\* Every variable keeps its type, and there is never more than one interval.
THEOREM TypeCorrect == Spec => []TypeOK
<1>1. Inv => TypeOK
  BY DEF Inv
<1>2. QED
  BY <1>1, InvCorrect, PTL

\* One attempt at a time, and always one while the page is there.
THEOREM OneAttemptAtATime == Spec => []OneAttempt
<1>1. Inv => OneAttempt
  BY DEF Inv
<1>2. QED
  BY <1>1, InvCorrect, PTL

\* The status shown and the heartbeat follow the socket.
THEOREM StatusIsTruthful == Spec => []StatusFollowsSocket
<1>1. Inv => StatusFollowsSocket
  BY DEF Inv
<1>2. QED
  BY <1>1, InvCorrect, PTL
==============================================================================
