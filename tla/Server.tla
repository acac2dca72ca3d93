------------------------------- MODULE Server -------------------------------
(***************************************************************************)
(* The process of cmd/server/main.go: main starts a watcher and a          *)
(* forwarder for each source, then serves until a signal; watchers append  *)
(* to their rings and publish; forwarders broadcast to the hub; and a      *)
(* client of the REST interface pages through GetLogs meanwhile.           *)
(*                                                                         *)
(* Names are numbers: k stands for the name "source<k>" and 0 for a        *)
(* missing one.  An entry is its source in the configuration, its ID and   *)
(* its timestamp, which is any: the second that the line begins with       *)
(* (parser.go:83-89), or the time of reading if it has none                *)
(* (watcher.go:203).  Lines of a second have the same, and a line can have *)
(* an earlier one than the line before it.                                 *)
(***************************************************************************)
EXTENDS Paging, FiniteSets, Functions

CONSTANTS
  N,          \* number of configured sources
  Configs,    \* their names, buffer sizes and readExistingOnStart, one for each behaviour
  DefaultSize,
  SubCap,     \* capacity of a subscription
  HubCap,     \* capacity of hub.broadcast
  PageSize,   \* the limit of the client that pages
  Times,      \* bound: the timestamps that lines of each source may have
  MaxLines    \* bound: entries of all sources

Sources == 1 .. N

ASSUME ServerAssumption ==
  /\ N \in Nat \ {0}
  /\ Configs \subseteq [names : [Sources -> Nat], sizes : [Sources -> Int],
                         existing : [Sources -> BOOLEAN]]
  /\ DefaultSize \in Nat \ {0}
  /\ SubCap \in Nat \ {0} /\ HubCap \in Nat \ {0} /\ PageSize \in Nat \ {0}
  /\ Times \in [Sources -> SUBSET Nat] /\ MaxLines \in Nat

VARIABLES
  config,   \* the configuration file; fixed
  phase,    \* main: starting, serving, deaf (it could not listen), stopping
  launched, \* number of watchers started
  attached, \* number of subscriptions with their forwarders
  watcher,  \* each watcher: off, boot, run, dead
  logged,   \* all the entries a watcher has appended to its ring
  sub,      \* the subscription of each forwarder
  queued,   \* number of entries in hub.broadcast
  reached,  \* history: IDs of each source that hub.broadcast has accepted, as they came
  walk      \* a client paging through GetLogs

mainVars == <<config, phase, launched, attached>>
vars == <<mainVars, watcher, logged, sub, queued, reached, walk>>

Elems(s) == {s[i] : i \in 1 .. Len(s)}

NoWalk == [stage |-> "none", source |-> 0, offset |-> 0, read |-> 0, got |-> <<>>,
           sorted |-> <<>>, rows |-> <<>>, present |-> {}, quiet |-> TRUE]
------------------------------------------------------------------------------
(* The configuration. *)

\* config.Load gives a source without a name the name of its place.
Name(i) == IF config.names[i] = 0 THEN i ELSE config.names[i]
Size(i) == IF config.sizes[i] <= 0 THEN DefaultSize ELSE config.sizes[i]

Names == {Name(i) : i \in Sources}
DistinctNames == \A i, j \in Sources : Name(i) = Name(j) => i = j

\* The map from names to watchers: the last source of a name is kept.
WatcherOf(name) == CHOOSE i \in Sources :
                     Name(i) = name /\ \A j \in Sources : Name(j) = name => j <= i

Ring(i) == LET s == logged[i]
           IN  SubSeq(s, IF Len(s) > Size(i) THEN Len(s) - Size(i) + 1 ELSE 1, Len(s))

Init ==
  /\ config \in Configs
  /\ phase = "starting"
  /\ launched = 0
  /\ attached = 0
  /\ watcher = [i \in Sources |-> "off"]
  /\ logged = [i \in Sources |-> <<>>]
  /\ sub = [i \in Sources |-> <<>>]
  /\ queued = 0
  /\ reached = [i \in Sources |-> <<>>]
  /\ walk = NoWalk
------------------------------------------------------------------------------
(* main. *)

\* New, the entry in the map, and `go watcher.Start`.
Launch ==
  /\ phase = "starting"
  /\ launched = attached /\ launched < N
  /\ launched' = launched + 1
  /\ watcher' = [watcher EXCEPT ![launched'] = "boot"]
  /\ UNCHANGED <<config, phase, attached, logged, sub, queued, reached, walk>>

\* Subscribe and the `go` of the forwarder.
Attach ==
  /\ phase = "starting"
  /\ attached < launched
  /\ attached' = attached + 1
  /\ UNCHANGED <<config, phase, launched, watcher, logged, sub, queued,
                 reached, walk>>

\* Mutant of Listen: the server listens before the last forwarder subscribes.
ListenFirst ==
  /\ phase = "starting"
  /\ launched = N
  /\ phase' \in {"serving", "deaf"}
  /\ UNCHANGED <<config, launched, attached, watcher, logged, sub, queued, reached, walk>>

\* ListenAndServe; an error is logged and the process stays.
Listen ==
  /\ phase = "starting"
  /\ attached = N
  /\ phase' \in {"serving", "deaf"}
  /\ UNCHANGED <<config, launched, attached, watcher, logged, sub, queued, reached, walk>>

\* A signal: cancel(), then Shutdown, which waits ten seconds at most for a request in
\* progress.  Watchers and forwarders return when their select finds the context done,
\* and at last the process exits: from here on nothing need happen any more.
OnSignal ==
  /\ phase \in {"serving", "deaf"}
  /\ phase' = "stopping"
  /\ UNCHANGED <<config, launched, attached, watcher, logged, sub, queued,
                 reached, walk>>
------------------------------------------------------------------------------
(* Watchers. *)

Logged == UNION {Elems(logged[i]) : i \in Sources}

\* The entry of a line with this timestamp.
NextEntry(i, ts) == [src |-> i, id |-> Len(logged[i]) + 1, ts |-> ts]

AppendEntry(i, ts) ==
  /\ Cardinality(Logged) < MaxLines
  /\ logged' = [logged EXCEPT ![i] = Append(@, NextEntry(i, ts))]
  /\ walk' = [walk EXCEPT !.quiet = FALSE, !.sorted = <<>>]

\* Mutant of Publish: a full subscription does not drop.
PublishUnbounded(i, e) ==
  sub' = IF i <= attached THEN [sub EXCEPT ![i] = Append(@, e)] ELSE sub

\* publish to the subscription, if there is one yet and it is not full.
Publish(i, e) ==
  sub' = IF i <= attached /\ Len(sub[i]) < SubCap
         THEN [sub EXCEPT ![i] = Append(@, e)] ELSE sub

\* The bootstrap, if the source wants one, loads a line of the last that fill the
\* ring; it does not publish.
BootLine(i) ==
  /\ watcher[i] = "boot" /\ config.existing[i]
  /\ Len(logged[i]) < Size(i)
  /\ \E ts \in Times[i] : AppendEntry(i, ts)
  /\ UNCHANGED <<mainVars, watcher, sub, queued, reached>>

\* Start gets to its loop, or fails.
StartWatcher(i) ==
  /\ watcher[i] = "boot"
  /\ watcher' \in {[watcher EXCEPT ![i] = "run"], [watcher EXCEPT ![i] = "dead"]}
  /\ UNCHANGED <<mainVars, logged, sub, queued, reached, walk>>

ReadLine(i) ==
  /\ watcher[i] = "run"
  /\ \E ts \in Times[i] : AppendEntry(i, ts) /\ Publish(i, NextEntry(i, ts))
  /\ UNCHANGED <<mainVars, watcher, queued, reached>>
------------------------------------------------------------------------------
(* Forwarders and the queue of the hub. *)

Accept(e) ==
  /\ queued' = queued + 1
  /\ reached' = [reached EXCEPT ![e.src] = Append(@, e.id)]

\* Broadcast drops when the queue is full.
Broadcast(e) ==
  IF queued < HubCap THEN Accept(e) ELSE UNCHANGED <<queued, reached>>

\* Mutant of Forward: an entry that finds the hub full is put back.
ForwardPuttingBack(i) ==
  /\ sub[i] # <<>>
  /\ LET e == Head(sub[i])
     IN  IF queued < HubCap
         THEN Accept(e) /\ sub' = [sub EXCEPT ![i] = Tail(@)]
         ELSE sub' = [sub EXCEPT ![i] = Append(Tail(@), e)] /\ UNCHANGED <<queued, reached>>
  /\ UNCHANGED <<mainVars, watcher, logged, walk>>

\* The forwarder takes an entry and broadcasts it.
Forward(i) ==
  /\ sub[i] # <<>>
  /\ Broadcast(Head(sub[i]))
  /\ sub' = [sub EXCEPT ![i] = Tail(@)]
  /\ UNCHANGED <<mainVars, watcher, logged, walk>>

HubTakes ==
  /\ queued > 0
  /\ queued' = queued - 1
  /\ UNCHANGED <<mainVars, watcher, logged, sub, reached, walk>>
------------------------------------------------------------------------------
(* A client that pages through GetLogs, for all sources or for one that      *)
(* GetSources names.                                                         *)

GetSources == [i \in Sources |-> Name(i)]
RingsOf(source) == IF source = 0 THEN GetSources ELSE <<source>>
InRings(source) ==
  UNION {Elems(Ring(WatcherOf(RingsOf(source)[k]))) : k \in 1 .. Len(RingsOf(source))}

StartWalk ==
  /\ phase = "serving"
  /\ walk.stage = "none"
  /\ \E source \in {0} \cup Elems(GetSources) :
       walk' = [NoWalk EXCEPT !.stage = "walking", !.source = source,
                              !.present = InRings(source)]
  /\ UNCHANGED <<mainVars, watcher, logged, sub, queued, reached>>

\* GetLogs reads the rings one after the other.  The request may be one that was in
\* progress when the signal came.
ReadRing ==
  /\ phase \in {"serving", "stopping"}
  /\ walk.stage = "walking"
  /\ walk.read < Len(RingsOf(walk.source))
  /\ walk' = [walk EXCEPT !.read = @ + 1,
                 !.got = @ \o Ring(WatcherOf(RingsOf(walk.source)[walk.read + 1]))]
  /\ UNCHANGED <<mainVars, watcher, logged, sub, queued, reached>>

\* What sort.Slice by timestamp may return.  It is not stable: entries with the same
\* timestamp may come in any order.
Orders(s) ==
  {[k \in 1 .. Len(s) |-> s[p[k]]] :
     p \in {q \in Bijection(1 .. Len(s), 1 .. Len(s)) :
             \A k, l \in 1 .. Len(s) : k < l => s[q[k]].ts <= s[q[l]].ts}}

\* The rings are sorted if all were asked for.  The sort has no randomness: as long as
\* nothing is logged, its input is the same at each request, and so is its output;
\* afterwards any is allowed for.
Collected ==
  IF walk.source # 0 THEN {walk.got}
  ELSE IF walk.quiet /\ walk.offset > 0 THEN {walk.sorted}
  ELSE Orders(walk.got)

\* GetLogs answers with a page; the client asks for the next, until there is none or
\* the server stops.
Answer ==
  /\ phase \in {"serving", "stopping"}
  /\ walk.stage = "walking"
  /\ walk.read = Len(RingsOf(walk.source))
  /\ \E all \in Collected :
       LET page == Page(all, PageSize, walk.offset)
       IN  walk' = IF page = <<>>
                   THEN [NoWalk EXCEPT !.stage = "over", !.source = walk.source,
                           !.rows = walk.rows, !.present = walk.present, !.quiet = walk.quiet]
                   ELSE IF phase = "serving"
                   THEN [walk EXCEPT !.read = 0, !.got = <<>>, !.rows = @ \o page,
                           !.offset = @ + PageSize,
                           !.sorted = IF walk.quiet THEN all ELSE <<>>]
                   ELSE NoWalk
  /\ UNCHANGED <<mainVars, watcher, logged, sub, queued, reached>>
------------------------------------------------------------------------------
Main == Launch \/ Attach \/ Listen \/ OnSignal
Watcher(i) == BootLine(i) \/ StartWatcher(i) \/ ReadLine(i)
Client == StartWalk \/ ReadRing \/ Answer

Next == Main \/ HubTakes \/ Client \/ \E i \in Sources : Watcher(i) \/ Forward(i)

Spec == Init /\ [][Next]_vars
------------------------------------------------------------------------------
(* Properties. *)

Entry == [src : Sources, id : Nat \ {0}, ts : Nat]

TypeOK ==
  /\ config \in Configs
  /\ phase \in {"starting", "serving", "deaf", "stopping"}
  /\ attached \in 0 .. N /\ launched \in attached .. N
  /\ watcher \in [Sources -> {"off", "boot", "run", "dead"}]
  /\ logged \in [Sources -> Seq(Entry)]
  /\ sub \in [Sources -> Seq(Entry)] /\ \A i \in Sources : Len(sub[i]) <= SubCap
  /\ queued \in 0 .. HubCap
  /\ reached \in [Sources -> Seq(Nat \ {0})]

\* Publishing and forwarding implement a lossy stream from each source: whatever
\* the two queues on the way drop, its entries reach the hub in the order of
\* their IDs, none twice, and none that is not in its ring or was
\* (main.go:68-77, hub.go:66-71).
Stream == INSTANCE LossyStream
            WITH Ends <- Sources,
                 sent <- [i \in Sources |-> Len(logged[i])],
                 delivered <- reached

StreamInOrder == Stream!Spec

\* Although a watcher is started before its forwarder subscribes (main.go:61-68),
\* no line read since the server listens escapes: it gets into the subscription,
\* unless that is full, and what is in a subscription stays until the forwarder
\* hands it to the hub, which loses it only if its queue is full.  (A bootstrap may
\* end after the server listens; what it loads reaches no subscription.)
NoGapWhileServing ==
  [][\A i \in Sources :
       phase \in {"serving", "deaf"} =>
         /\ \A e \in Elems(logged'[i]) \ Elems(logged[i]) :
              watcher[i] = "run" => e \in Elems(sub'[i]) \/ Len(sub[i]) >= SubCap
         /\ \A e \in Elems(sub[i]) :
              \/ e \in Elems(sub'[i]) \/ e.id \in Elems(reached'[i])
              \/ e = Head(sub[i]) /\ queued >= HubCap]_vars

\* If nothing is logged meanwhile, the pages put one after the other are all the
\* entries, each once, those of all sources by descending timestamp and those of
\* one by descending ID (logs_handler.go:77-100), if the names of the sources
\* differ.  Entries of the same second are no exception: the order among them is
\* the sort's own, but the same for each page.
PagesPartition ==
  walk.stage = "over" /\ walk.quiet /\ DistinctNames =>
    /\ Elems(walk.rows) = walk.present
    /\ \A i, j \in 1 .. Len(walk.rows) : i < j =>
         /\ walk.rows[i] # walk.rows[j]
         /\ IF walk.source = 0 THEN walk.rows[j].ts <= walk.rows[i].ts
            ELSE walk.rows[j].id < walk.rows[i].id

\* No other entry has the timestamp of x, and a source that has logged a newer one
\* goes on with newer ones.
Undisturbed(x) ==
  /\ \A y \in Logged : y.ts = x.ts => y = x
  /\ \A i \in Sources : \A j, k \in 1 .. Len(logged[i]) :
       j < k /\ x.ts < logged[i][j].ts => x.ts < logged[i][k].ts

\* If entries are logged meanwhile, and others leave their ring, rows may be
\* repeated.  A client that pages through one source is shown all the same every
\* entry that is there from the first request to the last, whatever the timestamps.
\* One that pages through all is shown those that are undisturbed, however the
\* others lie; another can be skipped, because the unstable sort deals the entries
\* of its second anew, or because an older entry takes the place of a newer one in
\* a full ring (logs_handler.go:69-100).
PagingSkipsNothing ==
  walk.stage = "over" =>
    \A x \in walk.present \cap InRings(walk.source) :
      walk.source # 0 \/ Undisturbed(x) => x \in Elems(walk.rows)
==============================================================================
