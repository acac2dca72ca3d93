------------------------------- MODULE LiveView -------------------------------
(***************************************************************************)
(* How the log view of one browser is kept up to date: LogViewer.vue first *)
(* connects the WebSocket and then loads the history by GET /api/logs; the *)
(* store useLogStore.ts merges the two.  The two answers travel on         *)
(* different connections, so they overlap, cross, or leave a gap.          *)
(*                                                                         *)
(* An entry is its source, its ID (per source, restarting at 1 with the    *)
(* server) and the time it was logged, its timestamp; no two entries have  *)
(* the same.  The way from a watcher to the hub (channel of 256, forwarder,*)
(* broadcast of 1024) is one queue per source; the way from the hub to the *)
(* browser (Send of 512, the WritePump, TCP) is another.  The user's       *)
(* session is valid throughout.                                            *)
(***************************************************************************)
EXTENDS Naturals, Sequences, FiniteSets

CONSTANTS
  Sources,     \* the configured log sources
  SourceOrder, \* the same as a sequence, in the order of the configuration
  RingCap,     \* buffer_size of a source
  PipeCap,     \* room between a watcher and the hub
  WireCap,     \* room between the hub and the browser
  MaxLogs,     \* MAX_LOGS: the length of the view and the limit of the request
  MaxTime,     \* bound: entries logged
  MaxDrops,    \* bound: connections lost and requests failed
  MaxRestarts  \* bound: restarts of the server

ASSUME ViewAssumption ==
  /\ SourceOrder \in Seq(Sources)
  /\ {SourceOrder[i] : i \in 1 .. Len(SourceOrder)} = Sources
  /\ RingCap \in Nat \ {0}
  /\ PipeCap \in Nat \ {0}
  /\ WireCap \in Nat \ {0}
  /\ MaxLogs \in Nat \ {0}
  /\ MaxTime \in Nat
  /\ MaxDrops \in Nat
  /\ MaxRestarts \in Nat

VARIABLES
  time,      \* number of entries logged so far, by all sources
  nextID,    \* per source, the watcher's counter
  ring,      \* per source, what Recent(0) returns
  pipe,      \* per source, entries between the watcher and the hub
  conn,      \* the WebSocket: off, connecting, open (registered), closed
  wire,      \* entries between the hub and the browser
  rest,      \* the request GET /api/logs: phase, sources to read, entries read
  buffer,    \* entries.value of the store, newest first
  watermark, \* of the store; 0 for a source that has none
  paused,    \* paused.value
  drops,     \* number of connections lost and requests failed
  restarts,  \* number of restarts of the server
  opened,    \* history: the time when the page called connect()
  missed,    \* history: entries the hub had while the browser was not registered
  due        \* history: entries the store was given since it was last cleared

serverVars == <<time, nextID, ring, pipe, missed>>
storeVars  == <<buffer, watermark, due>>
countVars  == <<drops, restarts, opened>>
vars == <<serverVars, storeVars, countVars, conn, wire, rest, paused>>

Entry == [src : Sources, id : 1 .. MaxTime, at : 1 .. MaxTime]

Elems(s) == {s[i] : i \in 1 .. Len(s)}
Last(s, n) == SubSeq(s, IF Len(s) > n THEN Len(s) - n + 1 ELSE 1, Len(s))
Newest(S, n) == {e \in S : Cardinality({x \in S : x.at > e.at}) < n}

NoRequest == [phase |-> "none", todo |-> <<>>, got |-> {}]

Init ==
  /\ time = 0
  /\ nextID = [s \in Sources |-> 0]
  /\ ring = [s \in Sources |-> <<>>]
  /\ pipe = [s \in Sources |-> <<>>]
  /\ conn = "off"
  /\ wire = <<>>
  /\ rest = NoRequest
  /\ buffer = <<>>
  /\ watermark = [s \in Sources |-> 0]
  /\ paused = FALSE
  /\ drops = 0
  /\ restarts = 0
  /\ opened = 0
  /\ missed = {}
  /\ due = {}
------------------------------------------------------------------------------
(* The server. *)

\* A watcher reads a line: it numbers it, appends it to its ring, publishes it.
LogLine(s) ==
  /\ time < MaxTime
  /\ LET e == [src |-> s, id |-> nextID[s] + 1, at |-> time + 1]
     IN  /\ ring' = [ring EXCEPT ![s] = Last(Append(@, e), RingCap)]
         /\ pipe' = [pipe EXCEPT ![s] = IF Len(@) < PipeCap THEN Append(@, e) ELSE @]
  /\ time' = time + 1
  /\ nextID' = [nextID EXCEPT ![s] = @ + 1]
  /\ UNCHANGED <<storeVars, countVars, conn, wire, rest, paused, missed>>

\* The hub fans an entry out: dropped if the client's Send is full.
FanOut(s) ==
  /\ pipe[s] # <<>>
  /\ pipe' = [pipe EXCEPT ![s] = Tail(@)]
  /\ wire' = IF conn = "open" /\ Len(wire) < WireCap
             THEN Append(wire, Head(pipe[s])) ELSE wire
  /\ missed' = IF conn = "open" THEN missed ELSE missed \cup {Head(pipe[s])}
  /\ UNCHANGED <<storeVars, countVars, time, nextID, ring, conn, rest, paused>>

\* hub.broadcast, which the sources share, is full of other entries.
DropAtHub(s) ==
  /\ pipe[s] # <<>>
  /\ pipe' = [pipe EXCEPT ![s] = Tail(@)]
  /\ UNCHANGED <<storeVars, countVars, time, nextID, ring, missed, conn, wire, rest,
                 paused>>

\* ServeWS registers the client.
Register ==
  /\ conn = "connecting"
  /\ conn' = "open"
  /\ UNCHANGED <<serverVars, storeVars, countVars, wire, rest, paused>>

\* GetLogs reads the rings one after the other.
ReadSource ==
  /\ rest.phase = "asked"
  /\ rest.todo # <<>>
  /\ rest' = [rest EXCEPT !.todo = Tail(@),
                          !.got = @ \cup Elems(ring[Head(rest.todo)])]
  /\ UNCHANGED <<serverVars, storeVars, countVars, conn, wire, paused>>

\* ... and answers with the newest `limit` of what it read.
Answer ==
  /\ rest.phase = "asked"
  /\ rest.todo = <<>>
  /\ rest' = [rest EXCEPT !.phase = "answered", !.got = Newest(@, MaxLogs)]
  /\ UNCHANGED <<serverVars, storeVars, countVars, conn, wire, paused>>

\* Everything in memory is gone and IDs start again (read_existing_on_start
\* is false); the connection and an unanswered request fail.
Restart ==
  /\ restarts < MaxRestarts
  /\ restarts' = restarts + 1
  /\ nextID' = [s \in Sources |-> 0]
  /\ ring' = [s \in Sources |-> <<>>]
  /\ pipe' = [s \in Sources |-> <<>>]
  /\ conn' = IF conn \in {"connecting", "open"} THEN "closed" ELSE conn
  /\ wire' = <<>>
  /\ rest' = IF rest.phase = "asked" THEN [NoRequest EXCEPT !.phase = "done"] ELSE rest
  /\ UNCHANGED <<storeVars, time, missed, paused, drops, opened>>
------------------------------------------------------------------------------
(* The store. *)

Watermark(b) ==
  [s \in Sources |->
     LET ids == {e.id : e \in {x \in Elems(b) : x.src = s}}
     IN  IF ids = {} THEN 0 ELSE CHOOSE m \in ids : \A i \in ids : i <= m]

\* Mutants of Push: no limit on the length; one watermark for all sources;
\* < for <=.
PushUnbounded(e) ==
  IF e.id <= watermark[e.src]
  THEN UNCHANGED <<buffer, watermark>>
  ELSE /\ watermark' = [watermark EXCEPT ![e.src] = e.id]
       /\ buffer' = <<e>> \o buffer

PushOneWatermark(e) ==
  IF \E s \in Sources : e.id <= watermark[s]
  THEN UNCHANGED <<buffer, watermark>>
  ELSE /\ watermark' = [watermark EXCEPT ![e.src] = e.id]
       /\ buffer' = SubSeq(<<e>> \o buffer, 1,
                           IF Len(buffer) < MaxLogs THEN Len(buffer) + 1 ELSE MaxLogs)

PushRepeats(e) ==
  IF e.id < watermark[e.src]
  THEN UNCHANGED <<buffer, watermark>>
  ELSE /\ watermark' = [watermark EXCEPT ![e.src] = e.id]
       /\ buffer' = SubSeq(<<e>> \o buffer, 1,
                           IF Len(buffer) < MaxLogs THEN Len(buffer) + 1 ELSE MaxLogs)

Push(e) ==
  IF e.id <= watermark[e.src]
  THEN UNCHANGED <<buffer, watermark>>
  ELSE /\ watermark' = [watermark EXCEPT ![e.src] = e.id]
       /\ buffer' = SubSeq(<<e>> \o buffer, 1,
                           IF Len(buffer) < MaxLogs THEN Len(buffer) + 1 ELSE MaxLogs)

\* (a, b) => b.id - a.id || b.timestamp - a.timestamp
SortsBefore(a, b) == a.id > b.id \/ (a.id = b.id /\ a.at > b.at)

Sorted(S) ==
  [i \in 1 .. Cardinality(S) |->
     CHOOSE e \in S : Cardinality({x \in S : SortsBefore(x, e)}) = i - 1]

\* The Map keyed by source and ID: an entry of the answer replaces one of the
\* buffer.
Unique(new) ==
  new \cup {e \in Elems(buffer) : \A r \in new : <<r.src, r.id>> # <<e.src, e.id>>}

\* Mutant of ReplaceEntries: the watermark is not rebuilt.
ReplaceOnly(new) ==
  LET all == Sorted(Unique(new))
  IN  /\ buffer' = SubSeq(all, 1, IF Len(all) < MaxLogs THEN Len(all) ELSE MaxLogs)
      /\ UNCHANGED watermark

ReplaceEntries(new) ==
  LET all == Sorted(Unique(new))
  IN  /\ buffer' = SubSeq(all, 1, IF Len(all) < MaxLogs THEN Len(all) ELSE MaxLogs)
      /\ watermark' = Watermark(buffer')
------------------------------------------------------------------------------
(* The page. *)

\* onMounted, after fetchSources: connect(), then syncLogs().
Mount ==
  /\ conn = "off"
  /\ conn' = "connecting"
  /\ rest' = [NoRequest EXCEPT !.phase = "asked", !.todo = SourceOrder]
  /\ opened' = time
  /\ UNCHANGED <<serverVars, storeVars, drops, restarts, wire, paused>>

\* The answer arrives.
SyncLogs ==
  /\ rest.phase = "answered"
  /\ ReplaceEntries(rest.got)
  /\ due' = due \cup rest.got
  /\ rest' = [NoRequest EXCEPT !.phase = "done"]
  /\ UNCHANGED <<serverVars, countVars, conn, wire, paused>>

\* The request fails: syncLogs catches the error and the view goes on without.
SyncFails ==
  /\ rest.phase \in {"asked", "answered"}
  /\ drops < MaxDrops
  /\ drops' = drops + 1
  /\ rest' = [NoRequest EXCEPT !.phase = "done"]
  /\ UNCHANGED <<serverVars, storeVars, restarts, opened, conn, wire, paused>>

\* ws.onmessage: the entry goes to the store unless the view is paused.
OnMessage ==
  /\ wire # <<>>
  /\ wire' = Tail(wire)
  /\ IF paused THEN UNCHANGED storeVars
     ELSE Push(Head(wire)) /\ due' = due \cup {Head(wire)}
  /\ UNCHANGED <<serverVars, countVars, conn, rest, paused>>

TogglePause ==
  /\ paused' = ~ paused
  /\ UNCHANGED <<serverVars, storeVars, countVars, conn, wire, rest>>

Clear ==
  /\ buffer' = <<>>
  /\ watermark' = [s \in Sources |-> 0]
  /\ due' = {}
  /\ UNCHANGED <<serverVars, countVars, conn, wire, rest, paused>>

\* ws.onclose: what was under way is lost.
ConnectionLost ==
  /\ conn \in {"connecting", "open"}
  /\ drops < MaxDrops
  /\ drops' = drops + 1
  /\ conn' = "closed"
  /\ wire' = <<>>
  /\ UNCHANGED <<serverVars, storeVars, restarts, opened, rest, paused>>

\* The timer of scheduleReconnect: connect(), and no syncLogs().
Reconnect ==
  /\ conn = "closed"
  /\ conn' = "connecting"
  /\ UNCHANGED <<serverVars, storeVars, countVars, wire, rest, paused>>

Server == \/ \E s \in Sources : LogLine(s) \/ FanOut(s) \/ DropAtHub(s)
          \/ Register \/ ReadSource \/ Answer \/ Restart

Page == \/ Mount \/ SyncLogs \/ SyncFails \/ OnMessage \/ TogglePause \/ Clear
        \/ ConnectionLost \/ Reconnect

Next == Server \/ Page

Spec == Init /\ [][Next]_vars
------------------------------------------------------------------------------
(* Properties. *)

TypeOK ==
  /\ time \in 0 .. MaxTime
  /\ nextID \in [Sources -> 0 .. MaxTime]
  /\ ring \in [Sources -> Seq(Entry)]
  /\ \A s \in Sources : Len(ring[s]) <= RingCap
  /\ pipe \in [Sources -> Seq(Entry)]
  /\ conn \in {"off", "connecting", "open", "closed"}
  /\ wire \in Seq(Entry)
  /\ rest \in [phase : {"none", "asked", "answered", "done"},
               todo : Seq(Sources), got : SUBSET Entry]
  /\ buffer \in Seq(Entry)
  /\ Len(buffer) <= MaxLogs
  /\ watermark \in [Sources -> 0 .. MaxTime]
  /\ paused \in BOOLEAN
  /\ drops \in 0 .. MaxDrops
  /\ restarts \in 0 .. MaxRestarts
  /\ opened \in 0 .. MaxTime
  /\ missed \subseteq Entry
  /\ due \subseteq Entry

\* Whichever of the stream and the answer comes first, and whatever they have
\* in common, the view never shows an entry twice, and the entries of a source
\* stand in descending order (useLogStore.ts:23-55).  So no two rows of a source
\* have one key; rows of two sources may, since the key is the ID alone
\* (LogViewer.vue:31, 48).
NewestFirst ==
  \A i, j \in 1 .. Len(buffer) :
    i < j /\ buffer[i].src = buffer[j].src => buffer[i].id > buffer[j].id

\* push can tell a repeated entry by its watermark alone: the watermark is
\* never below an ID that is in view, also after the merge has rebuilt it from
\* what it kept (useLogStore.ts:48-52).
WatermarkCovers ==
  \A i \in 1 .. Len(buffer) : buffer[i].id <= watermark[buffer[i].src]

\* IDs tell which entry is newer as long as the server has not restarted and
\* either one source only has been shown or nothing had to be cut off.
IDsComparable ==
  /\ restarts = 0
  /\ \/ Cardinality({e.src : e \in due}) <= 1
     \/ Cardinality(due) <= MaxLogs

\* Then the view is always the newest MaxLogs of all the entries the store was
\* given, by the stream or by the answer: neither the merge nor the watermark
\* loses one, in whatever order the two arrive (useLogStore.ts:20-55).  This
\* needs RingCap >= MaxLogs.
BufferIsNewest == IDsComparable => Elems(buffer) = Newest(due, MaxLogs)

\* An entry that the stream brings is shown, unless the store has been given it
\* before or has been given MaxLogs newer ones, whatever the merge did to the
\* watermark, any number of sources (useLogStore.ts:20-30, 46-52): until the
\* first restart, push rejects nothing that the view should have.
ShownUnlessOld ==
  [][restarts' = 0 /\ ~ paused /\ wire # <<>> /\ wire' = Tail(wire) /\ conn' = conn =>
       LET e == Head(wire)
       IN  \/ e \in Elems(buffer') \/ e \in due
           \/ Cardinality({x \in due : x.at > e.at}) >= MaxLogs]_vars

\* "Connect first so we don't miss entries that arrive while syncLogs() is in
\* flight." (LogViewer.vue:165)
NoneMissedDuringSync ==
  [][rest.phase = "answered" /\ rest'.phase = "done" =>
       \A e \in missed : e.at > opened => e \in Elems(buffer')]_vars

\* "if (entry.id <= hi) return   // already in buffer from REST load"
\* (useLogStore.ts:23): what push rejects is in the buffer.
RejectsOnlyKnown ==
  [][wire # <<>> /\ wire' = Tail(wire) /\ ~ paused /\ buffer' = buffer /\ conn' = conn
       => Head(wire) \in Elems(buffer)]_vars

\* "Keep WS-delivered entries that are newer than anything in the REST
\* payload." (useLogStore.ts:38)
KeepsNewerThanAnswer ==
  [][rest.phase = "answered" /\ rest'.phase = "done" =>
       \A e \in Elems(buffer) :
         (\A r \in rest.got : e.at > r.at) => e \in Elems(buffer')]_vars
==============================================================================
