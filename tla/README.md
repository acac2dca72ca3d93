# A verification project for MosquittoViewer

MosquittoViewer tails one or more log files of an MQTT broker, keeps the last
entries of each in memory, and shows them in a browser: a Go server
(`cmd/`, `internal/`) and a Vue page (`frontend/src`). This directory holds TLA+
models of the parts whose correctness depends on what happens in which order,
the TLC configurations that check them, and proofs, checked by TLAPS, of what
holds for every size of the system.

## 1. The system

    broker ──writes──> log file ──inotify, tick──> Watcher.Start      one goroutine per source
                          ^                          │ append    │ publish
                       logrotate                     v           v
                                             ring (RWMutex)   sub (256) ──forwarder──> hub.broadcast (1024)
                                                     │                                     │ Hub.Run, one goroutine
                          GET /api/logs: Recent ─────┘                                     v
                                 │                                     Send (512) per client ── WritePump ── WebSocket
                                 v                                                                   │
                           store.replaceEntries ──────> entries, watermark <────── store.push ───────┘
                                               LogViewer.vue, one per open page

| Component | State | Operations | Interacts by | What is hard | What makes it correct |
|---|---|---|---|---|---|
| Tail (`watcher.go`: `Start`, `readNewLines`, `openCurrentFile`, bootstrap) | `file`, `lastOffset`, `nextID` | one case of the select each: write, gone, create, tick, cancel | file system, inotify queue | rotation against events against ticks; `lastOffset` outlives a file; lines that are read before they are finished | no line lost, none twice, none out of order; always gets to the current file |
| Ring (`append`, `Recent`) | `entries`, `head`, `count` under `mu` | append, query | shared memory | wrap-around; a reader in the middle of an append | a query is a snapshot of the last entries; the writer is never starved |
| Publish and forward (`publish`, `main.go:67-78`) | `subs`, channels of 256 | publish, forward | channels | lossy when full; the watcher starts before the subscription | order kept, loss only when full, none between the start and the subscription once the server listens |
| Hub (`hub.go`, `ws_handler.go`) | `clients`, `broadcast`, `register`, `unregister`, a `Send` per client | register, unregister, broadcast, two pumps | channels, the connection | two pumps unregister one client; slow and dead peers; `Run` must not block | no panic, no leak, order kept, never stuck |
| REST (`logs_handler.go`, `router.go`) | none | `GetLogs`, `GetSources` | `Recent` of each ring | rings are read one after the other and change between two pages; unstable sort by timestamps that tie and descend | pages cover the entries, each once if nothing changes, and skip none of a source if something does; of all sources together, none that no other one disturbs |
| Store of the page (`useLogStore.ts`, `LogViewer.vue`) | `entries`, `watermark`, `paused` | push, replaceEntries, clear, pause | callbacks, promises | answer and stream overlap or cross; IDs restart; IDs of two sources | each entry once, newest kept, none missed |
| WebSocket client (`useWebSocket.ts`) | `ws`, `connected`, timer, delay, heartbeat | connect, its callbacks, scheduleReconnect, disconnect | browser events | late events of a socket given up; unmount while something is awaited | one attempt at a time, always one; rest after logout |
| Session (`useAuth.ts`, router guard, login form) | tokens in refs of each tab and in localStorage | login, logout, refresh, authFetch, guard, reload | promises, localStorage | refresh against logout; two refreshes; calls that outlive their page; tabs that take each other's tokens, item by item | a logout stays a logout, however tabs mix what they store; no dashboard without a token; nobody is logged out without a refusal |
| Tokens (`jwt.go`, `middleware.go`, `auth_handler.go`) | none | issue, validate by type and expiry | HTTP | — | a refresh token opens nothing |
| Process (`main.go`) with its configuration (`config.go`) | map and order of sources | load, start, listen, stop | `go`, context | order of watcher, subscription and listening; duplicate names, also by default | nothing read while serving escapes the stream |
| Parser (`parser.go`) | none | parse | — | fallbacks | every line yields an entry |
| SQLite store | a table | insert, query | nothing calls it | — | — |

`PROJECT.json` lists every component with its files and its status, and under
`hazards` every place that is hard to test, with the properties that would
notice if it went wrong or the reason why none does.

## 2. The modules

| Module | Models | State and actions |
|---|---|---|
| `RecentLog` | the promise of the ring: an append-only history of which the last `Cap` are visible | `appended`, `recent`; `AppendNext` |
| `LossyStream` | the promise of whatever may drop: what gets to an end was sent, once, and comes in the order of sending | `sent`, `delivered`; `Send`, `Deliver` |
| `EntryRing` | `watcher.go` `append` and `Recent` under the RWMutex | variables `entries`, `head`, `count`, `nextID` are the fields; `append` is four steps (lock, store, advance, count) and `Recent` one step per slot scanned, so that a read at the wrong moment would be seen; `mu` is the set of goroutines inside |
| `Hub` | `hub.go`, `ServeWS` | one action per case of `Run`'s select, one per iteration of its fan-out loop, and per step of each pump; `PumpPC = "closing"` is a pump blocked in `h.unregister <- c`; `panicked` records a send on, or a close of, a closed channel |
| `LogTail` | `Watcher.Start` with bootstrap, open, read | one action per case of the select; the environment (`WriteLine`, `WriteStart` and `WriteRest` of a torn line, `Rotate`, `CreateFile`, `BrokerReopens`, `Truncate`, `Replace`) and the inotify queue are external; `faults` says what the environment may do |
| `LiveView` | `useLogStore.ts`, `LogViewer.vue`, composed with `GetLogs`, the lossy way through forwarder and hub, and a server restart | `Push`, `ReplaceEntries`, `Clear` are the store's functions; `FanOut` and `DropAtHub` are what may become of an entry on its way; `ReadSource` is one ring read by `GetLogs`, `Answer` its reply |
| `WsClient` | `useWebSocket.ts` in its page, with the token it depends on | `Connect`, `ScheduleReconnect`, `StartHeartbeat`, `StopHeartbeat`, `Disconnect` are the functions, `OnOpen`, `OnClose`, `OnError`, `OnTimer` the callbacks; a callback is one step because a browser runs it to its end |
| `Session` | `useAuth.ts`, the guard, the form, and the server's `Login`, `Refresh`, `GenerateTokenPair`, `validateWithType`, `Middleware` | `session` is the refs of each tab, `storage` is localStorage, `call` the requests under way; one action for what a tab does from one await of the network to the next (`Renewed`, `NotRenewed`, `Unauthorized`, ... are the ways `authFetch` goes on), except that each `setItem`, `removeItem` and `getItem` is a step of its own (`Store`, `Read`, counted by `copied`), between which other tabs run |
| `Paging` | the window of `GetLogs` | `Page` is `all[start:end]`, newest first |
| `Server` | `main`, `config.Load`, `publish`, forwarders and `Broadcast`, `GetLogs` and `GetSources` | `Launch`, `Attach`, `Listen`, `OnSignal` are the steps of `main`; `logged` is all a watcher has appended, of which `Ring` is what `Recent` returns (the promise `EntryRing` is shown to keep); `BootLine` and `ReadLine` append an entry with any timestamp; `ReadRing` is one ring read by `GetLogs`, `Orders` what its sort may make of them, `Answer` the page; `walk` is a client that asks for page after page |
| `EntryRingProofs`, `HubProofs`, `LogTailProofs`, `WsClientProofs`, `SessionProofs`, `ServerProofs`, `PagingProofs`, `LiveViewProofs` | | invariants, lemmas and theorems |
| `MCEntryRing`, `MCLogTail`, `MCLiveView`, `MCSession`, `MCServer` | | values of constants that a configuration cannot write |

Data is abstracted to what the properties tell apart. A line or a message is
its number, the beginning of a torn line the negative of it; an entry of
`LiveView` is its source, its ID and the moment it was logged, one of `Server`
its source, ID and timestamp; what a filter looks at is the set of IDs it
matches. A token of `WsClient` is none, valid or expired; one of `Session` is
its type and the number of the answer that brought it, and it has expired when
that number is not above a mark for its type. Definitions named in comments as mutants (`DropUnchecked`,
`OnGoneKeepingOffset`, ...) are plausible mistakes in the code. Nothing uses
them; substituted for the definition they vary, each makes the property that
`PROJECT.json` pairs it with fail, which shows that the property depends on the
code.

## 3. What is checked

| Run | Expectation | Shows | Bounds, and why they are enough |
|---|---|---|---|
| `ring` | pass | `RingHoldsLast`, `RecentIsSnapshot`, `AppendCompletes`, refinement of `RecentLog` | ring of 2 filled twice (4 entries): empty, part full, full, wrapped; 2 readers, limits 0, 1 and 3, three filters |
| `hub` | pass | `NoPanic`, `EndedMeansReleased`, `InOrder`, `OnlyFullQueuesDrop`, refinement of `LossyStream`, `DeadPeerIsReleased`, `HubNeverStuck` | 2 connections, `broadcast` and `Send` of 1, 2 messages: both queues overflow, one client is slow while the other goes; the safety properties are proved for all sizes |
| `tail` | pass | `NothingLost`, `OnceInOrder`, `EventuallyShown`, `FollowsRotation`, each in the environments it holds in (below) | 3 lines, 3 files, so two rotations, one failing open, an event queue of 4, a file that exists at the start: two rotations may be in flight at once, and each line may be written before, between or after them |
| `tail_overflow` | violation of `KeepsWatching` | after lost events the watcher stays on the renamed file | queue of 1 |
| `tail_long` | violation of `LoadsLastLines` | one line over 64 KiB and the bootstrap loads nothing | 3 lines, the second too long |
| `view` | pass | `NewestFirst`, `WatermarkCovers`, `BufferIsNewest`, `ShownUnlessOld` | 2 sources, view, rings and channels of 2, 3 entries, one lost connection or failed request, one restart: the view overflows, IDs repeat |
| `view_stale` | violation of `RejectsOnlyKnown` | after a restart live entries are rejected although never seen | 1 restart |
| `view_gap` | violation of `NoneMissedDuringSync` | an entry between snapshot and registration is missed | 1 source |
| `view_mix` | violation of `KeepsNewerThanAnswer` | the merge drops the newest entry of a quiet source | 2 sources, view of 2 |
| `ws_client` | pass | `OneAttempt`, `StatusFollowsSocket`, `Reconnects`, `QuietAfterLogout` | room for 2 sockets (there is never a second), delays 1, 2, 3, two connections that fail for no reason; expiry, restarts, logins without bound |
| `session` | pass | `OnlyIntendedUser`, `DashboardNeedsToken`, `EndsOnlyWhenRefused` | one tab with room for the requests of two mounts, 3 answers with tokens and 3 expirations, or two tabs with one request each, 2 answers and 1 expiration (`MaxIssues`, `MaxLapses`); 2 users and 2 tabs, interchangeable. Two concurrent calls, two tabs and two users are what it takes for any two of them to cross, and two answers for localStorage to hold items of both; the properties are proved for any number |
| `server` | pass | `StreamInOrder` (refinement of `LossyStream`), `NoGapWhileServing`, `PagesPartition`, `PagingSkipsNothing` | 2 sources, the first without a name and the second with a name of its own or with the first one's default, the second with or without a bootstrap; rings of 1 and 2, 3 entries (`MaxLines`), each of the second source with one timestamp and each of the first with that, an earlier or a later one (`Times`), subscriptions of 2, a hub queue of 1, pages of 1: rings and queues overflow, pages straddle sources, entries arrive between two rings and between two pages, with the timestamp of others or an earlier one. This is enough for ties in and between sources and for an older line that takes a newer one's place around an entry of the other source; the properties are proved for any numbers |

Each passing run checks the type invariant of its module too. Deadlock is
checked where nothing bounds the run (`ring`, whose readers go on for ever,
the views, `ws_client` and `session`, whose users go on); it is switched off
for the hub, whose connections and messages are used up, for the tail, whose
broker stops writing and whose watcher may be cancelled, and for the server,
which a signal stops.

### Environments of the tail

A behaviour of `LogTail` has the faults of one set in `Environments`. The run
`tail` has three of them:

* `torn`, `open_error`: what the deployment documents describe. The log is
  rotated by renaming, no sooner than the watcher has the current file open and
  has seen the last rotation, and the broker reopens it before it writes again;
  a line may reach the file in two pieces, and opening may fail (the ACL of the
  new file comes late). Here everything holds: `NothingLost`, `OnceInOrder`,
  `EventuallyShown`, `FollowsRotation`. A line that is read before its newline
  gets two entries, one after the other.
* `burst`, `late_write`, `open_error`: rotations at any speed, and a broker that
  still writes to the renamed file. The watcher gets to the current file
  (`FollowsRotation`) and shows what is in it while it is the log
  (`EventuallyShown`); lines of a file that was rotated away too soon may be
  lost, and the second rename event makes it read the newest file twice, so
  that `OnceInOrder` excludes bursts.
* `early`, `late_write`, `truncate`, `replace`, `overflow`: whatever loses lines
  or events. Still no line is read twice or out of order (`OnceInOrder`).

`OnceInOrder` and `NothingLost` also suppose that no line is over 64 KiB
(`LongLines = {}`): such a line stops the scanner, and the lines before it are
read again with every tick.

### What `Server` and `Session` assume, and the conditions of their properties

A timestamp of `Server` is any number: the broker writes seconds
(`parser.go:88`), lines that do not parse get the time of reading
(`watcher.go:203`), so that entries tie and a source can have an earlier
timestamp after a later one. The sort of `GetLogs` is not stable: `Orders` are all
the results it may have. It has no randomness, however, so that it returns the
same for the same input: while nothing is logged, each page of a walk is cut
from the same sequence (`walk.sorted`), and after that from any of `Orders`.

`PagesPartition` speaks of a walk during which nothing was logged and of names
that differ (with equal names `GetLogs` reads one ring twice). It has no
condition on timestamps.

`PagingSkipsNothing` speaks of walks while lines are logged. Through one source
no entry that stays in its ring is skipped, whatever the timestamps, since
`GetLogs` does not sort. Through all sources an entry can be skipped, in two
ways, and `Undisturbed` excludes just these: another entry has the same
timestamp, and the sort, whose input has changed, puts the two the other way
round on the next page; or an entry with an earlier timestamp pushes one with a
later timestamp out of a full ring, so that fewer entries are ahead than the client has
already passed. Without either conjunct of `Undisturbed` TLC shows such a walk
with three entries. The condition is one of that entry: the others
may tie with each other, descend on either side of its timestamp, and come and
go as they like.

`Forward` takes an entry and broadcasts it in one step: `Broadcast` never
blocks, and no other goroutine reads the subscription.

In `Session` the server's handling of a request and the browser's handling of
the answer are one step: the server keeps no state, so that the moment it
handles a request matters only for the numbers of the answers, and the tab does
nothing for a request under way. Tokens expire by two clocks that need not
agree, the server's and the browser's, and access and refresh tokens in any
proportion (`jwt.go:96-106` parses two lifetimes and compares nothing); the
server may also refuse for reasons of its own (`smooth`), and a request may fail.

localStorage has no lock, so the three items of a session are written and read
one by one and two tabs interleave between any of them. That a tab's three
items come from one answer of the server is therefore not a property of this code:
TLC reaches sessions with the access token of one answer and the refresh token of
another, and of one user with the name of another. The properties hold in spite
of them.

`OnlyIntendedUser` speaks of a logout or login during which no refresh is under
way and no other tab is logged in or starting. That condition is needed: a
refresh that crosses a logout stores its tokens (`useAuth.ts:40`), another tab
goes on with its own, and a tab that starts while `logout` has removed the first
item and not the second reads the rest. For the same reason a reload that begins
before the last item is written ends what the property speaks of (`Load` sets
`intended` to "unknown" if localStorage still has an item of somebody else).
`EndsOnlyWhenRefused` excuses a call that had sent a token older than the session
it ends: the code does let it end a session that began meanwhile.

### `BufferIsNewest` and its condition

IDs order entries only within a source and only until the server restarts. The
property is therefore conditional (`IDsComparable`): no restart, and either a
single source or a view that nothing was cut from. What happens outside the
condition is what `view_stale` and `view_mix` show. It also needs
`RingCap >= MaxLogs`, which the defaults give (`buffer_size` 500 in
`config.go:76`, `MAX_LOGS` 500 in `LogViewer.vue:85`); with a smaller
`buffer_size` the answer is shorter than the view and the live stream may hold
older entries than it. The theorem `ViewIsNewest` has the same condition.
`ShownUnlessOld` speaks of any number of sources, cut off or not: only restarts
and small rings are excluded. It is what the comment that `view_stale` refutes
may rightly say.

### Fairness

Safety needs none. For liveness the models assume weak fairness only:

* `EntryRing`: a goroutine inside `append` or `Recent` goes on, and Go's
  RWMutex lets a waiting writer in (new readers queue behind it). Nobody has
  to call or to log.
* `Hub`: `Run` never stops and Go's select picks at random among the ready
  cases, so one that stays ready is taken; a started handler and a pump go on;
  a read from a dead peer or on a closed connection fails (`pongWait`), a write
  ends (`writeWait`).
* `LogTail`: the goroutine runs, events are handled, the ticker ticks. Nobody
  has to write or to finish a rotation.
* `Server` and `Session` have safety properties only and assume none.
* `WsClient`: a connection attempt ends in success or failure, a closing
  completes, the loss of the server is noticed, the timer fires, requests end.
  `Reconnects` speaks of behaviours in which the page stays, the server stays
  up and the token stays valid from some point on.

## 4. What is proved

The theorems hold for all values of the constants allowed by the named
assumptions (capacities at least 1, any set of clients, readers or slots; the
bounds of the runs, such as `MaxLines` and `MaxIssues`, are any number).

* **`HubProofs`**: `TypeCorrect`, `NeverPanics`, `EndedIsReleased`,
  `DeliveredInOrder`, `OnlyFullQueuesLose`, `HubImplementsStream`. `NoPanic` and `EndedMeansReleased` are not inductive: why
  `Run` may write to a `Send` depends on the client being in the map, which
  depends on where the handler and both pumps are. `ClientInv` says for each
  client which combinations there are: it is in the map exactly between
  `RunRegister` and the first unregistration, its channel and connection are
  closed exactly after that, and the fan-out set holds only clients of the map.
  `InOrder` needs `OrderInv`: the message in hand lies between what waits in
  `broadcast` and what the visited clients have, and no number exceeds `sent`.
  The proof treats the stream of one client (`StreamInv`) once. The same
  invariant, with the fact that the 0 of "no message in hand" is never given to a
  client (`Numbered`), gives the refinement of `LossyStream`: `Broadcast` is `Send`, a
  write that succeeds is `Deliver`, and every other step changes neither what
  was sent nor what was received. `OnlyFullQueuesLose` is the other half of what
  dropping may do: a lossy stream may lose anything, the hub loses a client only
  the message that finds that client's `Send` full, or the one whose write
  fails. It follows from the same invariant, and from there being one message
  at a time in a writer's hand (`OneWrite`), by looking where each step moves
  what waits for a client.
* **`EntryRingProofs`**: `TypeCorrect`, `RingAlwaysHoldsLast`,
  `RingImplementsRecentLog`, `RecentReturnsSnapshot`. `RingInv` extends `RingHoldsLast` to the two
  states in the middle of `append`; the arithmetic modulo `Cap` is in lemmas on
  `Behind`. For the refinement, `VisibleIsWindow` shows that what is visible is
  a function of the number of entries alone, `WindowGrows` that appending one
  is the abstract step, and every other step leaves that number as it is.
  `RecentReturnsSnapshot` rests on the same invariant: a reader
  inside keeps the writer out, so the ring is that of the moment it was let in
  (`RingStandsStill`); the i-th slot of the scan holds the i-th oldest entry
  (`ScannedSlot`, modulo arithmetic at the wrap); halfway through, the result
  so far is what matches among the oldest i (`Scanned`); and the last n of an
  ascending sequence are its n greatest elements (`LastAreGreatest`, by a
  bijection).
* **`WsClientProofs`**: `TypeCorrect`, `OneAttemptAtATime`, `StatusIsTruthful`.
  The three support each other (a second heartbeat cannot start because no
  other socket is open, because there is one attempt at a time), so the
  invariant is their conjunction with four facts: nothing is under way before
  the first connect, a mounted page has a token, and while it is mounted the
  variable `ws` holds the socket that is alive, so that `disconnect()` closes
  the right one. A socket that may still open is the one `ws` holds even after
  that (`WsOpens`), so the early return of `startHeartbeat` is never taken.
* **`SessionProofs`**: `TypeCorrect`, `DashboardHasToken`, `NobodyComesBack`,
  `OnlyRefusedEnds`. What the tabs hold does not say what is still under way or
  half written; the invariant adds that each refresh has sent a refresh token
  of the user who may be there, no newer than the one its tab holds by now
  (`Sent`), that no login form waits while it is known who there may be
  (`NoLoginWaits`), and that a tab that is starting has no calls (`CallOK`) and
  finds nothing of anybody else in localStorage (`StartsClean`).
  `Sent` is also what makes `OnlyRefusedEnds` true: a refused refresh token
  either is the one the tab still holds, or is older than that. None of it
  needs the three items of a session to belong together.
* **`ServerProofs`**: `StreamKeepsOrder`, `NoGap`. What waits in a subscription
  ascends, belongs to its source, is not newer than the ring and is newer than
  all that has reached the hub (`SubInOrder`), which makes a forwarder's step a
  `Deliver` of `LossyStream`, and an append to a ring is a `Send`; when the server listens every
  source has its forwarder (`AllAttached`).
* **`PagingProofs`**: `PagesJoin`, `TypeCorrect`, `SkipsNothing`,
  `PagesArePartition`, for any timestamps, equal and descending ones included. A
  page followed by the next is the page of both sizes
  together, for all limits and offsets. Any result of the sort has an entry
  without ties behind exactly those with later timestamps, whatever it does with
  the rest; those of one source have their place by ID. For
  `PagingSkipsNothing` the walk is compared with the entry it might skip: the
  number of entries ahead of it that the request has or will still read does not
  change when it reads a ring (what leaves one side enters the other), and is
  never below the number the walk has passed, because a ring that loses an entry
  ahead gains one (`Above`); that last step is where all sources together need
  `Undisturbed`. For `PagesPartition`, as long as nothing was logged since the
  walk began, what the request has read and will read is the same sequence, of
  which the pages so far are the newest end.
* **`LogTailProofs`**: `TypeCorrect`, `EachLineOnceInOrder`, `NoLineLost`. Pieces
  have one order, that of their lines, the beginning of a line before the rest
  (`Order`), which their places in the files follow. What the watcher may still read comes after all it has made entries of (`Fresh`);
  that needs `lastOffset` to belong to the file that is open, except between a
  rename and the events that tell of it, and so an account of which events
  may be in the queue (`GoneWaits`: the closing event of a file waits only
  while the watcher has it open). For `NothingLost` every line is in one of
  three places (`Safe`): it has its entry, or it is unread in the open file
  with a write event ahead of any closing event, or it is in the new log,
  which the watcher opens next.
* **`LiveViewProofs`**: `TypeCorrect`, `ViewIsOrdered`, `WatermarkAlwaysCovers`,
  `ViewIsNewest`, `StreamIsShown`.
  `push` keeps `StoreOK` by itself. `replaceEntries` does because a merged set
  without two equal timestamps is finite and sorts to a strictly ordered
  sequence (`SortedIs`: the rank of an entry is a bijection onto the places) and
  because what is merged holds each source and ID once (`Keyed`). That a
  restart, after which IDs name other entries, does not break this is the rest
  of the invariant: entries anywhere have different timestamps (`Stamped`),
  and what the request under way has read is from the present life of the
  server (`Current`, `Numbered`).
  `ViewIsNewest` (for `RingCap >= MaxLogs`) compares the view with all the
  page was given, of which most has been cut off. Until the first restart
  (`Fresh`) IDs and timestamps of a source have the same order, queues keep it
  (`InOneOrder` below `InQueues`), and rings have no gap (`RingsFull`). The
  heart is `Covers`: whatever is still to come and is not newer than an entry
  that is due is due itself, or `MaxLogs` newer ones are; it holds of what the
  request has got and of what the page was given, is kept by the union of both
  (`CoversBoth`), and makes an entry that the watermark rejects one the view
  would have cut off anyway. The view is then the `MaxLogs` newest of what was
  given, through a push (`PushTop`) as through a merge (`MergeTop`).
  `StreamIsShown` rests on the same invariant and needs no IDs that compare:
  what the watermark rejects is covered (`RejectedIsOld`).

Every safety invariant and action property that a passing run checks is stated
by a theorem. Only model-checked are the liveness properties (temporal proofs
under fairness are out of the prover's reach), and the five runs that find a
violation.

## 5. Where the code and its texts disagree

`PROJECT.json` quotes the line for each: `tail_overflow` ("Keep watching despite
transient fsnotify errors"), `tail_long` ("load last N lines on startup"),
`view_stale` ("already in buffer from REST load"), `view_gap` ("Connect first so
we don't miss entries"), `view_mix` ("Keep WS-delivered entries that are newer
than anything in the REST payload").

The models show more that no text contradicts: a client abandoned with an
expired token, or by a logout and a login within the reconnect delay, lives on
in the background; an expired access token is never refreshed by a reconnect; a
reconnect loads nothing of what was missed; a line over 64 KiB makes the tail
log the lines before it again with every tick; a refresh that crosses a logout
brings the session back, and a refused call of an old page ends a session that
began after it; two tabs can leave localStorage with items of two sessions; a
row can be skipped between two pages of all sources when a line is logged that
ties with it or is older than the one it replaces; a source whose default name another one has configured
is listed twice and its own entries are not found by name; lines loaded by a
bootstrap that ends after the server listens reach no open page.

## 6. What is not modelled, and why

Layout, filters, counts and exports of the page change nothing that is shared.
The parser is a pure function from a string to an entry, of which the models
have the result; its regular expressions are a library's. The method table and
the CORS headers of the router keep no state. `outCh` has no reader and
`Unsubscribe` no caller. A descriptor that `openCurrentFile` overwrites is
closed by Go's garbage collector and changes nothing that is read. The SQLite
store is called by nobody. TLS, nginx and systemd are deployment. The tokens'
cryptography is a library's. A tab that is closed or crashes between two
`setItem` calls, and a server that exits in the middle of a request, are left
out.

## 7. Plan

In order; what is done is marked.

1. `EntryRing`, `RecentLog`, their run and proofs, with what `Recent` returns —
   done.
2. `Hub`, its run and proofs — done.
3. `LogTail` with its environments, torn lines and bursts among them, its runs
   and proofs — done.
4. `LiveView` with its runs, proofs of its order and of what is newest — done.
5. `WsClient` and its proofs — done.
6. `Session` and its proofs — done.
7. `Server` with `Paging`, their run and proofs — done.
8. `LossyStream`, implemented by `Hub` and by the subscriptions and forwarders of
   `Server` — done. Next: the two put one after the other, and `LiveView` on
   top of them in place of its own queues.
9. Next: what `OnceInOrder` becomes in a burst (how often a line may be read
   again), and a bound on what a truncation loses.
