------------------------------- MODULE WsClient -------------------------------
(***************************************************************************)
(* The WebSocket client of one LogViewer (useWebSocket.ts), from the time  *)
(* the component is mounted until long after it is gone: its sockets, the  *)
(* timer that reconnects, the heartbeat, and the access token they depend  *)
(* on.  Event handlers of a browser run to completion, so each is a step.  *)
(*                                                                         *)
(* A token is none, valid or expired.  A slot stands for a WebSocket       *)
(* object; it is free when no object is alive in it.  A browser fires      *)
(* error and close of a failed socket in one task.                         *)
(***************************************************************************)
EXTENDS Naturals

CONSTANTS
  Slots,     \* bound: WebSocket objects that can be alive at one time
  MaxDelay,  \* the longest reconnect delay, 30 times the first, 30000 ms
  MaxBlips   \* bound: connections that fail although all is well

ASSUME ClientAssumption ==
  /\ Slots \subseteq Nat \ {0}
  /\ MaxDelay \in Nat \ {0}
  /\ MaxBlips \in Nat

VARIABLES
  token,     \* accessToken of useAuth: none, valid or expired
  up,        \* the server is reachable
  page,      \* the component: mounted; quitting, unmounted by a logout since
             \* which there was no token; or gone
  load,      \* what onMounted awaits: sources, logs, or nothing more (done)
  socks,     \* the sockets
  carried,   \* the token in the URL of each socket
  ws,        \* the variable ws, 0 for null
  connected, \* connected.value
  timer,     \* reconnectTimer # null
  delay,     \* reconnectDelay
  beat,      \* heartbeatTimer # null
  beats,     \* heartbeat intervals that are running
  blips      \* number of connections failed so far although all was well

beatVars == <<beat, beats>>
envVars  == <<token, up, page, load, blips>>
vars == <<token, up, page, load, socks, carried, ws, connected, timer, delay,
          beat, beats, blips>>

Live == {s \in Slots : socks[s] # "free"}
Open == {s \in Slots : socks[s] = "open"}

Init ==
  /\ token = "valid"
  /\ up \in BOOLEAN
  /\ page = "mounted"
  /\ load = "sources"
  /\ socks = [s \in Slots |-> "free"]
  /\ carried = [s \in Slots |-> "none"]
  /\ ws = 0
  /\ connected = FALSE
  /\ timer = FALSE
  /\ delay = 1
  /\ beat = FALSE
  /\ beats = 0
  /\ blips = 0
------------------------------------------------------------------------------
(* The functions of useWebSocket. *)

\* Mutants of ScheduleReconnect: no longest delay; no timer after a first
\* failure.
ScheduleUncapped ==
  /\ timer' = TRUE
  /\ delay' = IF timer THEN delay ELSE 2 * delay

ScheduleOnce ==
  /\ timer' = (delay = 1)
  /\ delay' = IF 2 * delay < MaxDelay THEN 2 * delay ELSE MaxDelay

ScheduleReconnect ==
  /\ timer' = TRUE
  /\ delay' = IF timer THEN delay
              ELSE IF 2 * delay < MaxDelay THEN 2 * delay ELSE MaxDelay

StartHeartbeat ==
  IF ws = 0
  THEN UNCHANGED <<beat, beats>>
  ELSE beat' = TRUE /\ beats' = beats + 1

\* Mutant of StopHeartbeat: the interval is forgotten but not cleared.
StopForgetting ==
  /\ beat' = FALSE
  /\ UNCHANGED beats

StopHeartbeat ==
  /\ beat' = FALSE
  /\ beats' = IF beat THEN beats - 1 ELSE beats

\* Mutant of Connect: the missing token is not noticed.
ConnectAnyway(t) ==
  \E s \in Slots \ Live :
    /\ socks' = [socks EXCEPT ![s] = "connecting"]
    /\ carried' = [carried EXCEPT ![s] = t]
    /\ ws' = s

\* connect(), when accessToken is t.
Connect(t) ==
  IF t = "none"
  THEN UNCHANGED <<socks, carried, ws>>
  ELSE \E s \in Slots \ Live :
         /\ socks' = [socks EXCEPT ![s] = "connecting"]
         /\ carried' = [carried EXCEPT ![s] = t]
         /\ ws' = s

\* close() only begins the closing; onclose comes later.
Disconnect ==
  /\ StopHeartbeat
  /\ timer' = FALSE
  /\ socks' = [s \in Slots |-> IF s = ws /\ s \in Live THEN "closing" ELSE socks[s]]
  /\ ws' = 0
------------------------------------------------------------------------------
(* Events of the sockets and the timer. *)

\* ServeWS lets a connection in whose token is valid.
Accepts(s) == up /\ carried[s] = "valid"

OnOpen(s) ==
  /\ socks[s] = "connecting"
  /\ Accepts(s)
  /\ socks' = [socks EXCEPT ![s] = "open"]
  /\ connected' = TRUE
  /\ delay' = 1
  /\ StartHeartbeat
  /\ UNCHANGED <<envVars, carried, ws, timer>>

\* Without the server, or with a token it refuses, a connection fails; with
\* both it fails a limited number of times.
Fails(s) ==
  \/ ~ Accepts(s) /\ (socks[s] = "open" => ~ up) /\ UNCHANGED blips
  \/ blips < MaxBlips /\ blips' = blips + 1

\* onclose alone: the server closed the connection, or close() has completed.
OnClose(s) ==
  /\ \/ socks[s] = "open" /\ Fails(s)
     \/ socks[s] = "closing" /\ UNCHANGED blips
  /\ socks' = [socks EXCEPT ![s] = "free"]
  /\ carried' = [carried EXCEPT ![s] = "none"]
  /\ connected' = FALSE
  /\ StopHeartbeat
  /\ ScheduleReconnect
  /\ UNCHANGED <<token, up, page, load, ws>>

\* onerror, then onclose.  onerror closes what the variable ws holds.
OnError(s) ==
  /\ socks[s] \in {"connecting", "open"}
  /\ Fails(s)
  /\ socks' = [x \in Slots |-> IF x = s THEN "free"
                               ELSE IF x = ws /\ x \in Live THEN "closing"
                               ELSE socks[x]]
  /\ carried' = [carried EXCEPT ![s] = "none"]
  /\ connected' = FALSE
  /\ StopHeartbeat
  /\ ScheduleReconnect
  /\ UNCHANGED <<token, up, page, load, ws>>

\* Mutant of OnTimer: reconnectTimer is not set to null.
OnTimerKeepingIt ==
  /\ timer
  /\ Connect(token)
  /\ UNCHANGED <<envVars, connected, timer, delay, beatVars>>

OnTimer ==
  /\ timer
  /\ timer' = FALSE
  /\ Connect(token)
  /\ UNCHANGED <<envVars, connected, delay, beatVars>>
------------------------------------------------------------------------------
(* The component. *)

\* authFetch leaves the token as it is, or has refreshed it; it stores the new
\* one even if a logout came between.
TokenAfterFetch ==
  /\ token' \in {token, "valid"}
  /\ page' = IF page = "quitting" /\ token' # "none" THEN "gone" ELSE page

\* fetchSources is over, well or not: connect(), then syncLogs().  A component
\* that is unmounted by then does the same.
SourcesFetched ==
  /\ load = "sources"
  /\ load' = "logs"
  /\ TokenAfterFetch
  /\ Connect(token')
  /\ UNCHANGED <<up, connected, timer, delay, beatVars, blips>>

LogsSynced ==
  /\ load = "logs"
  /\ load' = "done"
  /\ TokenAfterFetch
  /\ UNCHANGED <<up, socks, carried, ws, connected, timer, delay, beatVars, blips>>

\* onBeforeUnmount, once: the router shows the login page.
Unmount(next) ==
  IF page = "mounted"
  THEN page' = next /\ Disconnect
  ELSE UNCHANGED <<page, socks, ws, timer, beatVars>>

\* logout(), by the user of this or of a later page, or by an authFetch whose
\* refresh was refused and which then ends.
Logout ==
  /\ token # "none"
  /\ token' = "none"
  /\ load' \in {load, "done"}
  /\ Unmount("quitting")
  /\ UNCHANGED <<up, carried, connected, delay, blips>>

\* The browser's Back button leads to /login.  The guard lets it pass once the
\* token has expired; the token stays.
GoBack ==
  /\ page = "mounted"
  /\ token = "expired"
  /\ Unmount("gone")
  /\ UNCHANGED <<token, up, load, carried, connected, delay, blips>>

\* The user logs in again: another LogViewer, the same token.
Login ==
  /\ page # "mounted"
  /\ token # "valid"
  /\ token' = "valid"
  /\ page' = "gone"
  /\ UNCHANGED <<up, load, socks, carried, ws, connected, timer, delay,
                 beatVars, blips>>

\* Time passes.
Expire ==
  /\ token = "valid"
  /\ token' = "expired"
  /\ carried' = [s \in Slots |-> IF carried[s] = "valid" THEN "expired" ELSE carried[s]]
  /\ UNCHANGED <<up, page, load, socks, ws, connected, timer, delay, beatVars, blips>>

ServerStopsOrStarts ==
  /\ up' = ~ up
  /\ UNCHANGED <<token, page, load, socks, carried, ws, connected, timer, delay,
                 beatVars, blips>>

SocketEvent(s) == OnOpen(s) \/ OnClose(s) \/ OnError(s)

Next == \/ \E s \in Slots : SocketEvent(s)
        \/ OnTimer \/ SourcesFetched \/ LogsSynced
        \/ Logout \/ GoBack \/ Login \/ Expire \/ ServerStopsOrStarts

Spec == Init /\ [][Next]_vars

\* A connection attempt and a closing end, also those that cannot succeed; a
\* lost connection is noticed; the timer fires; requests are answered or fail.
Fairness ==
  /\ \A s \in Slots :
       /\ WF_vars(socks[s] = "connecting" /\ (OnOpen(s) \/ OnError(s)))
       /\ WF_vars(socks[s] = "closing" /\ OnClose(s))
       /\ WF_vars(socks[s] = "open" /\ ~ up /\ (OnClose(s) \/ OnError(s)))
  /\ WF_vars(OnTimer)
  /\ WF_vars(SourcesFetched)
  /\ WF_vars(LogsSynced)

FairSpec == Spec /\ Fairness
------------------------------------------------------------------------------
(* Properties. *)

Tokens == {"none", "valid", "expired"}

TypeOK ==
  /\ token \in Tokens
  /\ up \in BOOLEAN
  /\ page \in {"mounted", "quitting", "gone"}
  /\ load \in {"sources", "logs", "done"}
  /\ socks \in [Slots -> {"free", "connecting", "open", "closing"}]
  /\ carried \in [Slots -> Tokens]
  /\ ws \in Slots \cup {0}
  /\ connected \in BOOLEAN
  /\ timer \in BOOLEAN
  /\ delay \in 1 .. MaxDelay
  /\ beat \in BOOLEAN
  /\ beats \in {0, 1}
  /\ blips \in 0 .. MaxBlips

\* Events of an old socket, the timer and the end of a request may come in any
\* order, yet the client never has two sockets, nor a socket and a timer that
\* will open another; and from the first connect() until it is unmounted it
\* always has one of them, else it would never reconnect
\* (useWebSocket.ts:38-45, 63-112).
OneAttempt ==
  /\ \A s, t \in Live : s = t
  /\ timer => Live = {}
  /\ page = "mounted" /\ load # "sources" => timer \/ Live # {}

\* The status the user sees, and the heartbeat, follow the socket: there is an
\* interval exactly while a socket is open, and the page that shows a
\* connection has one, or has one that is closing (useWebSocket.ts:47-61,
\* 71-76, 90-101).
StatusFollowsSocket ==
  /\ beats = IF Open = {} THEN 0 ELSE 1
  /\ beat <=> Open # {}
  /\ Open # {} => connected
  /\ connected => Live # {}

\* While the page is there, the server reachable and the token valid, the view
\* is connected again and again, whatever failed before.
Healthy == page = "mounted" /\ up /\ token = "valid"
Reconnects == <>[]Healthy => []<>connected

\* After a logout the client comes to rest although onclose arms the timer
\* even after disconnect(): no socket and no timer, unless there is a token
\* again before it has (useWebSocket.ts:63-65, 90-95, 104-112).
Quiet == Live = {} /\ ~ timer
QuietAfterLogout == page = "quitting" ~> Quiet \/ page = "gone"
==============================================================================
