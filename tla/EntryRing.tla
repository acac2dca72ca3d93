------------------------------ MODULE EntryRing ------------------------------
(***************************************************************************)
(* The ring buffer of one Watcher (internal/logwatcher/watcher.go): the    *)
(* watcher goroutine appends entries, HTTP handlers call Recent, and the   *)
(* RWMutex mu is all that keeps them apart.                                *)
(*                                                                         *)
(* An entry is its ID: nextID.Add(1) numbers the entries of a source       *)
(* 1, 2, 3, ... in the order they are appended, and only the watcher       *)
(* goroutine does so.  0 is the zero LogEntry of an unused slot.  What a   *)
(* filter looks at is abstracted to the set of IDs it matches.             *)
(*                                                                         *)
(* Critical sections are split into the reads and writes they consist of,  *)
(* so that a section entered at the wrong moment would be seen.            *)
(***************************************************************************)
EXTENDS Integers, Sequences, FiniteSets

CONSTANTS
  Cap,       \* len(w.entries)
  Readers,   \* goroutines serving GET /api/logs
  Limits,    \* values of the argument n of Recent
  Filters,   \* values of the argument filters, each the set of IDs it matches
  MaxID      \* bound: the watcher stops after this many entries

ASSUME RingAssumption ==
  /\ Cap \in Nat \ {0}
  /\ MaxID \in Nat
  /\ Limits \subseteq Int
  /\ Filters \subseteq SUBSET Nat

VARIABLES
  entries,   \* the slots, indexed as in Go from 0
  head,      \* next slot to write
  count,     \* number of slots in use
  nextID,    \* the atomic counter: ID of the last entry numbered
  wpc,       \* where the watcher goroutine is in readNewLines / append
  rd         \* for each reader, its call of Recent

vars == <<entries, head, count, nextID, wpc, rd>>

Slots == 0 .. Cap - 1

\* States of a call of Recent:
\*   idle - no call;  rlock - blocked in RLock;  enter - lock held, nothing
\*   read yet;  scan - in the loop;  done - lock released, result returned.
ReaderPC == {"idle", "rlock", "enter", "scan", "done"}

\* n, f: arguments; lim: n after clamping; start, i, out: the locals.
\* asOf is a history variable: the last entry appended when RLock was granted.
NoCall == [pc |-> "idle", n |-> 0, f |-> {}, lim |-> 0, start |-> 0, i |-> 0,
           out |-> <<>>, asOf |-> 0]

\* States of the watcher goroutine: parsed - it has an ID and a parsed entry;
\* waiting - blocked in Lock; store, advance, grow - lock held, before each
\* of the three assignments of append.
WriterPC == {"idle", "parsed", "waiting", "store", "advance", "grow"}

WriterHolds == wpc \in {"store", "advance", "grow"}
ReaderHolds(r) == rd[r].pc \in {"enter", "scan"}

Init ==
  /\ entries = [s \in Slots |-> 0]
  /\ head = 0
  /\ count = 0
  /\ nextID = 0
  /\ wpc = "idle"
  /\ rd = [r \in Readers |-> NoCall]
------------------------------------------------------------------------------
(* The watcher goroutine. *)

\* id := w.nextID.Add(1), then ParseLine.
NumberEntry ==
  /\ wpc = "idle"
  /\ nextID < MaxID
  /\ nextID' = nextID + 1
  /\ wpc' = "parsed"
  /\ UNCHANGED <<entries, head, count, rd>>

\* The call of w.mu.Lock(): from here on RLock makes new readers wait.
CallLock ==
  /\ wpc = "parsed"
  /\ wpc' = "waiting"
  /\ UNCHANGED <<entries, head, count, nextID, rd>>

\* Lock returns once the readers that were inside have left.
LockGranted ==
  /\ wpc = "waiting"
  /\ \A r \in Readers : ~ ReaderHolds(r)
  /\ wpc' = "store"
  /\ UNCHANGED <<entries, head, count, nextID, rd>>

\* Mutant of StoreEntry: the slot after head is written.
StoreAfterHead ==
  /\ wpc = "store"
  /\ entries' = [entries EXCEPT ![(head + 1) % Cap] = nextID]
  /\ wpc' = "advance"
  /\ UNCHANGED <<head, count, nextID, rd>>

\* w.entries[w.head] = entry
StoreEntry ==
  /\ wpc = "store"
  /\ entries' = [entries EXCEPT ![head] = nextID]
  /\ wpc' = "advance"
  /\ UNCHANGED <<head, count, nextID, rd>>

\* w.head = (w.head + 1) % len(w.entries)
AdvanceHead ==
  /\ wpc = "advance"
  /\ head' = (head + 1) % Cap
  /\ wpc' = "grow"
  /\ UNCHANGED <<entries, count, nextID, rd>>

\* Mutants of GrowCount: the comparison is off by one, either way.
GrowBeyondCap ==
  /\ wpc = "grow"
  /\ count' = IF count <= Cap THEN count + 1 ELSE count
  /\ wpc' = "idle"
  /\ UNCHANGED <<entries, head, nextID, rd>>

GrowBelowCap ==
  /\ wpc = "grow"
  /\ count' = IF count < Cap - 1 THEN count + 1 ELSE count
  /\ wpc' = "idle"
  /\ UNCHANGED <<entries, head, nextID, rd>>

\* if w.count < len(w.entries) { w.count++ }, and the deferred Unlock.
GrowCount ==
  /\ wpc = "grow"
  /\ count' = IF count < Cap THEN count + 1 ELSE count
  /\ wpc' = "idle"
  /\ UNCHANGED <<entries, head, nextID, rd>>

Writer == \/ NumberEntry \/ CallLock \/ LockGranted
          \/ StoreEntry \/ AdvanceHead \/ GrowCount
------------------------------------------------------------------------------
(* A goroutine in Recent(n, filters). *)

CallRecent(r) ==
  /\ rd[r].pc = "idle"
  /\ \E n \in Limits, f \in Filters :
       rd' = [rd EXCEPT ![r] = [NoCall EXCEPT !.pc = "rlock", !.n = n, !.f = f]]
  /\ UNCHANGED <<entries, head, count, nextID, wpc>>

\* Go's RWMutex admits a reader unless a writer holds the lock or waits for it.
RLockGranted(r) ==
  /\ rd[r].pc = "rlock"
  /\ wpc \in {"idle", "parsed"}
  /\ rd' = [rd EXCEPT ![r].pc = "enter",
                      ![r].asOf = IF wpc = "idle" THEN nextID ELSE nextID - 1]
  /\ UNCHANGED <<entries, head, count, nextID, wpc>>

\* Mutant of ReturnEmpty: the early return forgets RUnlock.
ReturnEmptyLocked(r) ==
  /\ rd[r].pc = "enter"
  /\ count = 0
  /\ UNCHANGED vars

\* if w.count == 0 { return nil }: the deferred RUnlock runs here too.
ReturnEmpty(r) ==
  /\ rd[r].pc = "enter"
  /\ count = 0
  /\ rd' = [rd EXCEPT ![r].pc = "done"]
  /\ UNCHANGED <<entries, head, count, nextID, wpc>>

\* n is clamped and start computed.
BeginScan(r) ==
  /\ rd[r].pc = "enter"
  /\ count # 0
  /\ rd' = [rd EXCEPT ![r].pc = "scan",
                      ![r].lim = IF rd[r].n <= 0 \/ rd[r].n > count
                                 THEN count ELSE rd[r].n,
                      ![r].start = (head - count + Cap) % Cap]
  /\ UNCHANGED <<entries, head, count, nextID, wpc>>

\* One iteration of the loop: keep the entry if it matches the filters.
ScanSlot(r) ==
  /\ rd[r].pc = "scan"
  /\ rd[r].i < count
  /\ LET e == entries[(rd[r].start + rd[r].i) % Cap]
     IN  rd' = [rd EXCEPT ![r].i = @ + 1,
                          ![r].out = IF e \in rd[r].f THEN Append(@, e) ELSE @]
  /\ UNCHANGED <<entries, head, count, nextID, wpc>>

\* Mutant of EndScan: out[:n] instead of out[len(out)-n:].
EndScanOldest(r) ==
  /\ rd[r].pc = "scan"
  /\ rd[r].i >= count
  /\ LET out == rd[r].out
         lim == rd[r].lim
     IN  rd' = [rd EXCEPT ![r].pc = "done",
                          ![r].out = IF Len(out) > lim THEN SubSeq(out, 1, lim) ELSE out]
  /\ UNCHANGED <<entries, head, count, nextID, wpc>>

\* Keep the last n of what matched, release the lock, return.
EndScan(r) ==
  /\ rd[r].pc = "scan"
  /\ rd[r].i >= count
  /\ LET out == rd[r].out
         lim == rd[r].lim
     IN  rd' = [rd EXCEPT ![r].pc = "done",
                          ![r].out = IF Len(out) > lim
                                     THEN SubSeq(out, Len(out) - lim + 1, Len(out))
                                     ELSE out]
  /\ UNCHANGED <<entries, head, count, nextID, wpc>>

\* The handler has used the result; the goroutine may call again.
Leave(r) ==
  /\ rd[r].pc = "done"
  /\ rd' = [rd EXCEPT ![r] = NoCall]
  /\ UNCHANGED <<entries, head, count, nextID, wpc>>

InRecent(r) == \/ RLockGranted(r) \/ ReturnEmpty(r) \/ BeginScan(r)
               \/ ScanSlot(r) \/ EndScan(r)

Reader(r) == CallRecent(r) \/ InRecent(r) \/ Leave(r)

Next == Writer \/ \E r \in Readers : Reader(r)

Spec == Init /\ [][Next]_vars

\* Goroutines that can run are run: the code inside append and Recent never
\* blocks, and Lock returns when it can.  Nobody is obliged to call Recent,
\* nor to log a line.
Fairness ==
  /\ WF_vars(CallLock \/ LockGranted \/ StoreEntry \/ AdvanceHead \/ GrowCount)
  /\ \A r \in Readers : WF_vars(ReturnEmpty(r) \/ BeginScan(r) \/ ScanSlot(r) \/ EndScan(r))

FairSpec == Spec /\ Fairness
------------------------------------------------------------------------------
(* Properties. *)

TypeOK ==
  /\ entries \in [Slots -> Nat]
  /\ head \in Slots
  /\ count \in 0 .. Cap
  /\ nextID \in 0 .. MaxID
  /\ wpc \in WriterPC
  /\ rd \in [Readers -> [pc : ReaderPC, n : Int, f : SUBSET Nat, lim : Nat,
                         start : Slots, i : Nat, out : Seq(Nat), asOf : Nat]]

\* The slot that is k places behind index h.
Behind(h, k) == IF k < h THEN h - 1 - k ELSE h - 1 - k + Cap

\* While nobody is inside append, the ring holds exactly the last
\* min(nextID, Cap) entries that were appended, in order, the newest just
\* behind head: what Recent's index arithmetic (watcher.go:143-147) counts on.
RingHoldsLast ==
  wpc \in {"idle", "parsed", "waiting", "store"} =>
    LET last == IF wpc = "idle" THEN nextID ELSE nextID - 1
    IN  /\ count = IF last < Cap THEN last ELSE Cap
        /\ \A k \in 0 .. count - 1 : entries[Behind(head, k)] = last - k

\* A finished Recent returned the newest lim matching entries of the history
\* as it was when the read lock was granted, oldest first: no entry from a
\* half-done append, none skipped, none twice, although the watcher kept
\* appending before and after (watcher.go:132-157).
RecentIsSnapshot ==
  \A r \in Readers : rd[r].pc = "done" =>
    LET c     == rd[r]
        size  == IF c.asOf < Cap THEN c.asOf ELSE Cap
        lim   == IF c.n <= 0 \/ c.n > size THEN size ELSE c.n
        match == ((c.asOf - size + 1) .. c.asOf) \cap c.f
    IN  /\ {c.out[i] : i \in 1 .. Len(c.out)}
             = {e \in match : Cardinality({x \in match : x > e}) < lim}
        /\ \A i, j \in 1 .. Len(c.out) : i < j => c.out[i] < c.out[j]

\* However many handlers keep calling Recent, a watcher that waits for the
\* lock gets it and finishes its append: no handler may leave Recent with the
\* read lock held (watcher.go:133-138), and none may overtake the writer.
AppendCompletes == wpc = "waiting" ~> wpc = "idle"

\* The history that Recent would show if the append under way were complete.
\* It changes in the step that stores the entry.
Visible ==
  LET h == IF wpc = "advance" THEN (head + 1) % Cap ELSE head
      n == IF wpc \in {"advance", "grow"} /\ count < Cap THEN count + 1 ELSE count
  IN  [i \in 1 .. n |-> entries[Behind(h, n - i)]]

Appended == IF wpc \in {"parsed", "waiting", "store"} THEN nextID - 1 ELSE nextID

\* The ring implements the abstract history of RecentLog.
Abstract == INSTANCE RecentLog WITH appended <- Appended, recent <- Visible

ImplementsRecentLog == Abstract!Spec
==============================================================================
