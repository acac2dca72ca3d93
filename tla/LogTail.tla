------------------------------- MODULE LogTail -------------------------------
(***************************************************************************)
(* The goroutine Watcher.Start (internal/logwatcher/watcher.go): it loads  *)
(* the tail of an existing log file, opens the file at its end, watches    *)
(* the directory with inotify, and then reads new lines on every event and *)
(* every second, while the broker writes and logrotate moves files.        *)
(*                                                                         *)
(* A line is its number, in the order the broker writes lines.  A file is  *)
(* an inode with the pieces it holds, and an offset counts pieces: n is    *)
(* line n, or the rest of it, up to its newline; -n is the beginning of    *)
(* line n if it reaches the file apart from the rest.  The k-th element    *)
(* of entries is the entry that nextID.Add numbered k; it is -n when only  *)
(* the beginning of line n was read.                                       *)
(*                                                                         *)
(* The handlers are atomic: the watcher alone touches file, lastOffset and *)
(* nextID, and lines appended while a handler reads could as well have     *)
(* been appended before or after it.                                       *)
(***************************************************************************)
EXTENDS Integers, Sequences, FiniteSets

CONSTANTS
  ReadExisting, \* config.ReadExistingOnStart
  Limit,        \* len(w.entries): how many lines the bootstrap keeps
  LongLines,    \* lines longer than the 64 KiB a bufio.Scanner accepts
  Environments, \* sets of faults; a behaviour has the faults of one of them
  QueueCap,     \* length of the inotify queue
  MaxLines,     \* bound: lines the broker writes
  MaxFiles,     \* bound: inodes that are ever linked at path
  MaxFails,     \* bound: transient failures of os.Open
  MaxEntries    \* bound: the watcher stops reading after so many entries

(***************************************************************************)
(* Without any fault the log is rotated by renaming, no sooner than the    *)
(* watcher has opened the current file and seen the last rotation; the     *)
(* broker reopens its log before it writes again; and os.Open works.       *)
(*   torn         a line may reach the file in two pieces                  *)
(*   open_error   os.Open fails for a while (the ACL is not yet in place)  *)
(*   early        a rotation before the directory is watched               *)
(*   burst        rotations follow each other at any speed                 *)
(*   late_write   the broker still writes to a file after its rotation     *)
(*   truncate     the log is truncated in place (copytruncate)             *)
(*   replace      another file is renamed over the log                     *)
(*   overflow     the inotify queue may be full: the event is lost         *)
(***************************************************************************)
FaultKinds == {"torn", "open_error", "early", "burst", "late_write", "truncate",
               "replace", "overflow"}

ASSUME TailAssumption ==
  /\ ReadExisting \in BOOLEAN
  /\ Limit \in Nat \ {0}
  /\ LongLines \subseteq Nat
  /\ Environments \subseteq SUBSET FaultKinds
  /\ QueueCap \in Nat \ {0}
  /\ MaxLines \in Nat
  /\ MaxFiles \in Nat \ {0}
  /\ MaxFails \in Nat
  /\ MaxEntries \in Nat

VARIABLES
  faults,     \* what the environment may do; never changes
  lines,      \* the pieces each inode holds
  path,       \* the inode linked at w.path, 0 if there is none
  brokerFile, \* the inode the broker writes to, 0 before it opens one
  used,       \* number of inodes that have been linked at path
  written,    \* number of lines written, the last one perhaps not to its end
  events,     \* the inotify queue, events of other names left out
  pc,         \* where Start is
  file,       \* the inode w.file has open, 0 for nil
  lastOffset, \* w.lastOffset
  entries,    \* all the entries ever appended, with ID = index
  fails,      \* number of times os.Open has failed
  mark        \* history: lines written when the directory came under watch

envVars == <<faults, lines, path, brokerFile, used, written>>
vars == <<envVars, events, pc, file, lastOffset, entries, fails, mark>>

Inodes == 1 .. MaxFiles
Watching == pc = "loop"
PCs == {"bootstrap", "open", "watch", "loop", "stopped"}
EventKinds == {"write", "gone", "create"}

Elems(s) == {s[i] : i \in 1 .. Len(s)}
LineOf(p) == IF p < 0 THEN -p ELSE p

\* The log may be there with lines in it, or be created later.
Init ==
  /\ faults \in Environments
  /\ written \in 0 .. MaxLines
  /\ path \in {0, 1}
  /\ path = 0 => written = 0
  /\ used = path
  /\ brokerFile = path
  /\ lines = [f \in Inodes |-> IF f = path THEN [i \in 1 .. written |-> i] ELSE <<>>]
  /\ events = <<>>
  /\ pc = IF ReadExisting THEN "bootstrap" ELSE "open"
  /\ file = 0
  /\ lastOffset = 0
  /\ entries = <<>>
  /\ fails = 0
  /\ mark = MaxLines
------------------------------------------------------------------------------
(* The kernel: events about w.path, in order; one that repeats the last    *)
(* event of the queue is merged with it.                                   *)

CanNotify == ~ Watching \/ Len(events) < QueueCap \/ "overflow" \in faults

Notify(e) ==
  /\ CanNotify
  /\ events' = IF \/ ~ Watching
                  \/ Len(events) >= QueueCap
                  \/ events # <<>> /\ events[Len(events)] = e
               THEN events
               ELSE Append(events, e)
------------------------------------------------------------------------------
(* The environment: broker and logrotate. *)

watcherVars == <<pc, file, lastOffset, entries, fails, mark>>

\* The last line of the broker's file has no newline yet.
Unfinished ==
  /\ brokerFile # 0
  /\ lines[brokerFile] # <<>>
  /\ lines[brokerFile][Len(lines[brokerFile])] < 0

Write(piece) ==
  /\ brokerFile # 0
  /\ brokerFile = path \/ "late_write" \in faults
  /\ written' = LineOf(piece)
  /\ lines' = [lines EXCEPT ![brokerFile] = Append(@, piece)]
  /\ IF brokerFile = path THEN Notify("write") ELSE UNCHANGED events
  /\ UNCHANGED <<faults, path, brokerFile, used, watcherVars>>

WriteLine  == ~ Unfinished /\ written < MaxLines /\ Write(written + 1)
WriteStart == /\ "torn" \in faults
              /\ ~ Unfinished /\ written < MaxLines /\ Write(- (written + 1))
WriteRest  == Unfinished /\ Write(written)

\* The watcher has the current file open and no rotation is left unseen.
Settled == Watching /\ file = path /\ Elems(events) \subseteq {"write"}

Rotate ==
  /\ path # 0
  /\ Unfinished => "late_write" \in faults
  /\ \/ Settled
     \/ "burst" \in faults /\ Watching
     \/ "early" \in faults /\ ~ Watching
  /\ path' = 0
  /\ Notify("gone")
  /\ UNCHANGED <<faults, lines, brokerFile, used, written, watcherVars>>

LinkNewFile ==
  /\ used < MaxFiles
  /\ used' = used + 1
  /\ path' = used + 1
  /\ Notify("create")

\* logrotate creates the new log, or the broker does when it opens its log.
CreateFile ==
  /\ path = 0
  /\ LinkNewFile
  /\ brokerFile' \in {brokerFile} \cup (IF Unfinished THEN {} ELSE {used + 1})
  /\ UNCHANGED <<faults, lines, written, watcherVars>>

BrokerReopens ==
  /\ path # 0
  /\ brokerFile # path
  /\ ~ Unfinished
  /\ brokerFile' = path
  /\ UNCHANGED <<faults, lines, path, used, written, events, watcherVars>>

Truncate ==
  /\ "truncate" \in faults
  /\ path # 0
  /\ lines[path] # <<>>
  /\ ~ Unfinished
  /\ lines' = [lines EXCEPT ![path] = <<>>]
  /\ Notify("write")
  /\ UNCHANGED <<faults, path, brokerFile, used, written, watcherVars>>

Replace ==
  /\ "replace" \in faults
  /\ path # 0
  /\ LinkNewFile
  /\ UNCHANGED <<faults, lines, brokerFile, written, watcherVars>>

Environment == \/ WriteLine \/ WriteStart \/ WriteRest \/ Rotate \/ CreateFile \/ BrokerReopens
               \/ Truncate \/ Replace
------------------------------------------------------------------------------
(* Operations of the Watcher. *)

\* The elements of s at the places of I, in order.
Place(I, k) == CHOOSE i \in I : Cardinality({j \in I : j <= i}) = k
Pick(s, I) == [k \in 1 .. Cardinality(I) |-> s[Place(I, k)]]

\* bufio.Scanner: a token is a line, or what is left of one, and at the end of
\* the file also the beginning of one.
Ends(s) == {i \in 1 .. Len(s) : s[i] > 0 \/ i = Len(s)}
Tokens(s) == Pick(s, Ends(s))

\* It stops with an error at the first line that is too long.
TooLong(s) == {LineOf(p) : p \in Elems(s)} \cap LongLines # {}
Scanned(s) ==
  Pick(s, {i \in Ends(s) : \A j \in 1 .. i : LineOf(s[j]) \notin LongLines})

Unread(f, off) == SubSeq(lines[f], off + 1, Len(lines[f]))

\* Bound: the watcher stops when it has logged enough.
RoomToLog == Len(entries) <= MaxEntries

\* Mutant of ReadNewLines: the length of the file is added to the offset.
ReadAddingLength(f) ==
  /\ RoomToLog
  /\ IF f = 0
     THEN UNCHANGED <<entries, lastOffset>>
     ELSE LET new == Unread(f, lastOffset)
          IN  /\ entries' = entries \o Scanned(new)
              /\ lastOffset' = lastOffset + Len(lines[f])

\* readNewLines on the file w.file is now.  After an error the lines before
\* the bad one are appended, but lastOffset stays.  An offset beyond the end
\* of the file reads nothing and is kept.
ReadNewLines(f) ==
  /\ RoomToLog
  /\ IF f = 0
     THEN UNCHANGED <<entries, lastOffset>>
     ELSE LET new == Unread(f, lastOffset)
          IN  /\ entries' = entries \o Scanned(new)
              /\ lastOffset' = IF TooLong(new) THEN lastOffset
                                               ELSE lastOffset + Len(new)

\* The file, or at startup the directory watch, cannot be opened.
OpenFails ==
  /\ "open_error" \in faults
  /\ fails < MaxFails
  /\ fails' = fails + 1

\* openCurrentFile(false): a failure leaves w.file as it was.
OpenCurrentFile ==
  \/ path # 0 /\ file' = path /\ UNCHANGED fails
  \/ path = 0 /\ UNCHANGED <<file, fails>>
  \/ OpenFails /\ UNCHANGED file

EnsureOpen == IF file # 0 THEN UNCHANGED <<file, fails>> ELSE OpenCurrentFile
------------------------------------------------------------------------------
(* Start. *)

LastLines(s) == SubSeq(s, IF Len(s) > Limit THEN Len(s) - Limit + 1 ELSE 1, Len(s))

\* bootstrapRecentEntries; its error is ignored.
Bootstrap ==
  /\ pc = "bootstrap"
  /\ pc' = "open"
  /\ \/ /\ path # 0
        /\ entries' = IF TooLong(lines[path]) THEN entries ELSE LastLines(Tokens(lines[path]))
        /\ UNCHANGED fails
     \/ path = 0 /\ UNCHANGED <<entries, fails>>
     \/ OpenFails /\ UNCHANGED entries
  /\ UNCHANGED <<envVars, events, file, lastOffset, mark>>

\* openCurrentFile(true): a missing file is no error, any other ends Start.
OpenTail ==
  /\ pc = "open"
  /\ \/ /\ path # 0
        /\ pc' = "watch"
        /\ file' = path
        /\ lastOffset' = Len(lines[path])
        /\ UNCHANGED fails
     \/ path = 0 /\ pc' = "watch" /\ UNCHANGED <<file, lastOffset, fails>>
     \/ OpenFails /\ pc' = "stopped" /\ UNCHANGED <<file, lastOffset>>
  /\ UNCHANGED <<envVars, events, entries, mark>>

\* fsnotify.NewWatcher and Add of the directory; an error of either ends Start.
AddWatch ==
  /\ pc = "watch"
  /\ \/ pc' = "loop" /\ mark' = written /\ UNCHANGED fails
     \/ OpenFails /\ pc' = "stopped" /\ UNCHANGED mark
  /\ UNCHANGED <<envVars, events, file, lastOffset, entries>>

Received(e) ==
  /\ Watching
  /\ events # <<>>
  /\ Head(events) = e
  /\ events' = Tail(events)

OnWrite ==
  /\ Received("write")
  /\ ReadNewLines(file)
  /\ UNCHANGED <<envVars, pc, file, fails, mark>>

\* Mutants of OnGone: lastOffset is not reset; the file is not closed.
OnGoneKeepingOffset ==
  /\ Received("gone")
  /\ file' = 0
  /\ UNCHANGED <<envVars, pc, lastOffset, entries, fails, mark>>

OnGoneKeepingFile ==
  /\ Received("gone")
  /\ lastOffset' = 0
  /\ UNCHANGED <<envVars, pc, file, entries, fails, mark>>

OnGone ==
  /\ Received("gone")
  /\ file' = 0
  /\ lastOffset' = 0
  /\ UNCHANGED <<envVars, pc, entries, fails, mark>>

\* Mutant of OnCreate: a created file is read from its beginning.
OnCreateFromStart ==
  /\ Received("create")
  /\ OpenCurrentFile
  /\ RoomToLog
  /\ IF file' = 0
     THEN UNCHANGED <<entries, lastOffset>>
     ELSE /\ entries' = entries \o Scanned(lines[file'])
          /\ lastOffset' = Len(lines[file'])
  /\ UNCHANGED <<envVars, pc, mark>>

OnCreate ==
  /\ Received("create")
  /\ OpenCurrentFile
  /\ ReadNewLines(file')
  /\ UNCHANGED <<envVars, pc, mark>>

\* Mutant of OnTick: ensureOpen is left out.
OnTickReadOnly ==
  /\ Watching
  /\ ReadNewLines(file)
  /\ UNCHANGED <<envVars, events, pc, file, fails, mark>>

OnTick ==
  /\ Watching
  /\ EnsureOpen
  /\ ReadNewLines(file')
  /\ UNCHANGED <<envVars, events, pc, mark>>

\* ctx.Done at shutdown.
OnCancel ==
  /\ Watching
  /\ pc' = "stopped"
  /\ file' = 0
  /\ UNCHANGED <<envVars, events, lastOffset, entries, fails, mark>>

OnEvent == OnWrite \/ OnGone \/ OnCreate
Startup == Bootstrap \/ OpenTail \/ AddWatch

Next == Environment \/ Startup \/ OnEvent \/ OnTick \/ OnCancel

Spec == Init /\ [][Next]_vars

\* The goroutine runs, the ticker ticks every second, and select does not
\* neglect a case that stays ready.  Nobody has to write, to rotate, or to end a
\* rotation.
Fairness ==
  /\ WF_vars(Startup)
  /\ WF_vars(OnEvent)
  /\ WF_vars(OnTick)

FairSpec == Spec /\ Fairness
------------------------------------------------------------------------------
(* Properties. *)

Pieces == {p \in (- MaxLines) .. MaxLines : p # 0}

TypeOK ==
  /\ faults \in Environments
  /\ lines \in [Inodes -> Seq(Pieces)]
  /\ path \in Inodes \cup {0}
  /\ brokerFile \in Inodes \cup {0}
  /\ used \in 0 .. MaxFiles
  /\ written \in 0 .. MaxLines
  /\ events \in Seq(EventKinds)
  /\ Len(events) <= QueueCap
  /\ pc \in PCs
  /\ file \in Inodes \cup {0}
  /\ lastOffset \in 0 .. 2 * MaxLines
  /\ entries \in Seq(Pieces)
  /\ fails \in 0 .. MaxFails
  /\ mark \in 0 .. MaxLines

Mild == faults \subseteq {"torn", "open_error"}

\* No line gets two entries and no line overtakes an earlier one, although the
\* same file is read by the bootstrap and by the tail, is reopened by the tick
\* and again by the create event, and keeps an offset from one open to the
\* next (watcher.go:99-111).  A line read before its newline was written gets
\* two, one after the other.  Only rotations in a burst break this, and a line
\* of more than 64 KiB, because of which the lines before it are read again.
OnceInOrder ==
  "burst" \notin faults /\ LongLines = {} =>
    \A i, j \in 1 .. Len(entries) :
      i < j => \/ LineOf(entries[i]) < LineOf(entries[j])
               \/ j = i + 1 /\ entries[i] = - entries[j] /\ entries[i] < 0

\* No piece of a line begun since the directory is watched is skipped: it is in
\* an entry, or it is where the watcher will still find it, in the open file
\* beyond lastOffset or in a new file it has yet to open (watcher.go:102-107,
\* 212).  A line of more than 64 KiB stops the reading: none is supposed.
NothingLost ==
  Mild /\ LongLines = {} /\ Watching =>
    \A p \in UNION {Elems(lines[f]) : f \in Inodes} :
      LineOf(p) > mark =>
        \/ p \in Elems(entries) \/ LineOf(p) \in Elems(entries)
        \/ file # 0 /\ p \in Elems(Unread(file, lastOffset))
        \/ path \notin {0, file} /\ p \in Elems(lines[path])

\* Every such line does get its entry, whatever the rotations and the failures
\* of os.Open around it, unless the watcher has stopped (watcher.go:109-111).
\* When rotations come in bursts or the broker writes to a renamed file, this
\* holds of the lines of a file for as long as it is the log.
Shown(n) == {n, - n} \cap Elems(entries) # {}
InLog(n) == path # 0 /\ {n, - n} \cap Elems(lines[path]) # {}

EventuallyShown ==
  \A n \in 1 .. MaxLines :
    /\ n \in mark + 1 .. written
    /\ faults \subseteq {"torn", "open_error", "burst", "late_write"}
    /\ Mild \/ InLog(n)
    ~> Shown(n) \/ pc = "stopped" \/ (~ Mild /\ ~ InLog(n))

\* "Keep watching despite transient fsnotify errors." (watcher.go:113): the
\* watcher does not stay on a file that is no longer the log.
KeepsWatching ==
  Watching /\ path \notin {0, file} ~> ~ Watching \/ path \in {0, file}

\* The watcher gets to the current file however rotations, reopening by the
\* tick, and events that are handled late interleave (watcher.go:99-111), unless
\* events are lost or nothing announces that the file has changed.
FollowsRotation ==
  /\ Watching /\ path \notin {0, file}
  /\ faults \subseteq {"torn", "open_error", "burst", "late_write"}
  ~> ~ Watching \/ path \in {0, file}

\* "read_existing_on_start: true  # load last N lines on startup" (README:59).
LoadsLastLines ==
  [][pc = "bootstrap" /\ path # 0 /\ fails' = fails /\ pc' = "open"
       => entries' = LastLines(Tokens(lines[path]))]_vars
==============================================================================
