--------------------------- MODULE EntryRingProofs ---------------------------
(***************************************************************************)
(* The ring buffer, for any capacity, any number of readers and entries,   *)
(* any limits and any filters: it holds the last entries, it implements    *)
(* the append-only log of which these are visible, and what Recent returns *)
(* is a snapshot of those that match.                                      *)
(***************************************************************************)
EXTENDS EntryRing, FiniteSetTheorems, TLAPS

USE RingAssumption

\* Go's index arithmetic: (x % c) for the values that occur.
LEMMA ModRange ==
  ASSUME NEW c \in Nat \ {0}, NEW x \in Int
  PROVE  x % c \in 0 .. c - 1
OBVIOUS

LEMMA ModSmall ==
  ASSUME NEW c \in Nat \ {0}, NEW x \in 0 .. c - 1
  PROVE  x % c = x
OBVIOUS

LEMMA ModSelf ==
  ASSUME NEW c \in Nat \ {0}
  PROVE  c % c = 0
OBVIOUS

Call == [pc : ReaderPC, n : Int, f : SUBSET Nat, lim : Nat, start : Slots,
         i : Nat, out : Seq(Nat), asOf : Nat]

\* The last n of a sequence are a sequence of the same kind.
LEMMA SuffixType ==
  ASSUME NEW s \in Seq(Nat), NEW n \in Nat, Len(s) > n
  PROVE  SubSeq(s, Len(s) - n + 1, Len(s)) \in Seq(Nat)
OBVIOUS

LEMMA NoCallType == NoCall \in Call
<1>1. <<>> \in Seq(Nat)
  OBVIOUS
<1>2. QED
  BY <1>1 DEF NoCall, Call, ReaderPC, Slots

\* A step of Recent that only changes the call of reader r.
OneCall(r, c) == rd' = [rd EXCEPT ![r] = c]

LEMMA OneCallType ==
  ASSUME rd \in [Readers -> Call], NEW r \in Readers, NEW c \in Call, OneCall(r, c)
  PROVE  rd' \in [Readers -> Call]
BY DEF OneCall

\* An ID has been taken when the watcher is not idle.
TypeInv ==
  /\ TypeOK
  /\ wpc # "idle" => nextID >= 1

LEMMA ReaderType ==
  ASSUME TypeInv, NEW r \in Readers, InRecent(r)
  PROVE  rd' \in [Readers -> Call]
<1> DEFINE c == rd[r]
<1>1. rd \in [Readers -> Call] /\ c \in Call
  BY DEF TypeInv, TypeOK, Call
<1>2. CASE RLockGranted(r)
  <2> DEFINE asOf == IF wpc = "idle" THEN nextID ELSE nextID - 1
  <2>1. asOf \in Nat
    BY <1>2 DEF RLockGranted, TypeInv, TypeOK
  <2>2. OneCall(r, [c EXCEPT !.pc = "enter", !.asOf = asOf])
    BY <1>1, <1>2 DEF RLockGranted, OneCall, Call
  <2>3. [c EXCEPT !.pc = "enter", !.asOf = asOf] \in Call
    BY <1>1, <2>1 DEF Call, ReaderPC
  <2>4. QED
    BY <1>1, <2>2, <2>3, OneCallType
<1>3. CASE ReturnEmpty(r)
  <2>1. OneCall(r, [c EXCEPT !.pc = "done"])
    BY <1>1, <1>3 DEF ReturnEmpty, OneCall, Call
  <2>2. [c EXCEPT !.pc = "done"] \in Call
    BY <1>1 DEF Call, ReaderPC
  <2>3. QED
    BY <1>1, <2>1, <2>2, OneCallType
<1>4. CASE BeginScan(r)
  <2> DEFINE lim == IF c.n <= 0 \/ c.n > count THEN count ELSE c.n
             start == (head - count + Cap) % Cap
  <2>1. lim \in Nat
    BY <1>1 DEF Call, TypeInv, TypeOK
  <2>2. start \in Slots
    BY ModRange DEF Slots, TypeInv, TypeOK
  <2>3. OneCall(r, [c EXCEPT !.pc = "scan", !.lim = lim, !.start = start])
    BY <1>1, <1>4 DEF BeginScan, OneCall, Call
  <2>4. [c EXCEPT !.pc = "scan", !.lim = lim, !.start = start] \in Call
    BY <1>1, <2>1, <2>2 DEF Call, ReaderPC
  <2>5. QED
    BY <1>1, <2>3, <2>4, OneCallType
<1>5. CASE ScanSlot(r)
  <2> DEFINE e == entries[(c.start + c.i) % Cap]
             out == IF e \in c.f THEN Append(c.out, e) ELSE c.out
  <2>1. c.start + c.i \in Int
    BY <1>1 DEF Call, Slots
  <2>2. e \in Nat
    BY <2>1, ModRange, ZenonT(30) DEF Slots, TypeInv, TypeOK
  <2>3. out \in Seq(Nat)
    BY <1>1, <2>2 DEF Call
  <2>4. OneCall(r, [c EXCEPT !.i = c.i + 1, !.out = out])
    BY <1>1, <1>5 DEF ScanSlot, OneCall, Call
  <2>5. c.i + 1 \in Nat
    BY <1>1 DEF Call
  <2> HIDE DEF out
  <2>6. [c EXCEPT !.i = c.i + 1, !.out = out] \in Call
    BY <1>1, <2>3, <2>5 DEF Call
  <2>7. QED
    BY <1>1, <2>4, <2>6, OneCallType
<1>6. CASE EndScan(r)
  <2> DEFINE out == IF Len(c.out) > c.lim
                    THEN SubSeq(c.out, Len(c.out) - c.lim + 1, Len(c.out)) ELSE c.out
  <2>1. out \in Seq(Nat)
    BY <1>1, SuffixType DEF Call
  <2>2. OneCall(r, [c EXCEPT !.pc = "done", !.out = out])
    BY <1>1, <1>6 DEF EndScan, OneCall, Call
  <2>3. [c EXCEPT !.pc = "done", !.out = out] \in Call
    BY <1>1, <2>1 DEF Call, ReaderPC
  <2>4. QED
    BY <1>1, <2>2, <2>3, OneCallType
<1>7. QED
  BY <1>2, <1>3, <1>4, <1>5, <1>6 DEF InRecent

LEMMA TypeInvInductive ==
  ASSUME TypeInv, [Next]_vars
  PROVE  TypeInv'
<1> USE DEF TypeInv, TypeOK
<1>1. CASE Writer
  <2>1. CASE NumberEntry
    BY <2>1 DEF NumberEntry, WriterPC
  <2>2. CASE CallLock
    BY <2>2 DEF CallLock, WriterPC
  <2>3. CASE LockGranted
    BY <2>3 DEF LockGranted, WriterPC
  <2>4. CASE StoreEntry
    BY <2>4 DEF StoreEntry, WriterPC
  <2>5. CASE AdvanceHead
    <3>1. (head + 1) % Cap \in Slots
      BY ModRange DEF Slots
    <3>2. QED
      BY <2>5, <3>1 DEF AdvanceHead, WriterPC
  <2>6. CASE GrowCount
    BY <2>6 DEF GrowCount, WriterPC
  <2>7. QED
    BY <1>1, <2>1, <2>2, <2>3, <2>4, <2>5, <2>6 DEF Writer
<1>2. ASSUME NEW r \in Readers, Reader(r) PROVE TypeInv'
  <2>1. UNCHANGED <<entries, head, count, nextID, wpc>>
    BY <1>2 DEF Reader, CallRecent, InRecent, Leave, RLockGranted, ReturnEmpty,
                BeginScan, ScanSlot, EndScan
  <2>2. rd \in [Readers -> Call]
    BY DEF Call
  <2>3. CASE CallRecent(r)
    <3>1. PICK n \in Limits, f \in Filters :
            OneCall(r, [NoCall EXCEPT !.pc = "rlock", !.n = n, !.f = f])
      BY <2>3 DEF CallRecent, OneCall
    <3>2. n \in Int /\ f \in SUBSET Nat
      OBVIOUS
    <3>3. [NoCall EXCEPT !.pc = "rlock", !.n = n, !.f = f] \in Call
      BY <3>2, NoCallType DEF Call, ReaderPC
    <3>4. QED
      BY <2>1, <2>2, <3>1, <3>3, OneCallType DEF Call
  <2>4. CASE InRecent(r)
    BY <2>1, <2>4, ReaderType DEF Call
  <2>5. CASE Leave(r)
    BY <2>1, <2>2, <2>5, NoCallType, OneCallType DEF Leave, OneCall, Call
  <2>6. QED
    BY <1>2, <2>3, <2>4, <2>5 DEF Reader
<1>3. CASE UNCHANGED vars
  BY <1>3 DEF vars
<1>4. QED
  BY <1>1, <1>2, <1>3 DEF Next

LEMMA TypeInvCorrect == Spec => []TypeInv
<1>1. Init => TypeInv
  BY NoCallType DEF Init, TypeInv, TypeOK, Call, Slots, WriterPC
<1>2. TypeInv /\ [Next]_vars => TypeInv'
  BY TypeInvInductive
<1>3. QED
  BY <1>1, <1>2, PTL DEF Spec

\* The indices stay in the slots, the count within the capacity, and a call of
\* Recent holds only entries.
THEOREM TypeCorrect == Spec => []TypeOK
BY TypeInvCorrect, PTL DEF TypeInv
------------------------------------------------------------------------------
(* The contents of the ring, also while the watcher is inside append.        *)

Least(a, b) == IF a < b THEN a ELSE b

\* The n slots behind index h hold the entries last, last - 1, ...
HoldsBehind(h, n, last) == \A k \in 0 .. n - 1 : entries[Behind(h, k)] = last - k

RingInv ==
  /\ wpc = "idle" =>
       count = Least(nextID, Cap) /\ HoldsBehind(head, count, nextID)
  /\ wpc \in {"parsed", "waiting", "store"} =>
       count = Least(nextID - 1, Cap) /\ HoldsBehind(head, count, nextID - 1)
  /\ wpc = "advance" =>
       /\ count = Least(nextID - 1, Cap)
       /\ entries[head] = nextID
       /\ HoldsBehind(head, Least(nextID - 1, Cap - 1), nextID - 1)
  /\ wpc = "grow" =>
       count = Least(nextID - 1, Cap) /\ HoldsBehind(head, Least(nextID, Cap), nextID)

LEMMA BehindFacts ==
  ASSUME NEW h \in Slots, NEW k \in 0 .. Cap - 1
  PROVE  /\ Behind(h, k) \in Slots
         /\ Behind(h, k) = h => k = Cap - 1
         /\ Behind((h + 1) % Cap, 0) = h
         /\ k + 1 <= Cap - 1 => Behind((h + 1) % Cap, k + 1) = Behind(h, k)
<1>1. CASE h + 1 = Cap
  BY <1>1, ModSelf DEF Behind, Slots
<1>2. CASE h + 1 < Cap
  <2>1. (h + 1) % Cap = h + 1
    BY <1>2, ModSmall DEF Slots
  <2>2. QED
    BY <1>2, <2>1 DEF Behind, Slots
<1>3. QED
  BY <1>1, <1>2 DEF Slots

\* With the new entry in slot head, the ring is right seen from head + 1.
LEMMA AdvancedHead ==
  ASSUME head \in Slots, nextID \in Nat \ {0}, entries[head] = nextID,
         HoldsBehind(head, Least(nextID - 1, Cap - 1), nextID - 1)
  PROVE  HoldsBehind((head + 1) % Cap, Least(nextID, Cap), nextID)
<1> USE DEF Least
<1>1. SUFFICES ASSUME NEW k \in 0 .. Least(nextID, Cap) - 1
               PROVE  entries[Behind((head + 1) % Cap, k)] = nextID - k
  BY DEF HoldsBehind
<1>2. CASE k = 0
  BY <1>2, BehindFacts
<1>3. CASE k > 0
  <2>1. k - 1 \in 0 .. Cap - 1 /\ (k - 1) + 1 <= Cap - 1
        /\ k - 1 \in 0 .. Least(nextID - 1, Cap - 1) - 1
    BY <1>3
  <2>2. Behind((head + 1) % Cap, (k - 1) + 1) = Behind(head, k - 1)
    BY <2>1, BehindFacts
  <2>3. entries[Behind(head, k - 1)] = nextID - 1 - (k - 1)
    BY <2>1 DEF HoldsBehind
  <2>4. (k - 1) + 1 = k /\ nextID - 1 - (k - 1) = nextID - k
    OBVIOUS
  <2>5. QED
    BY <2>2, <2>3, <2>4
<1>4. QED
  BY <1>2, <1>3

LEMMA RingInvInductive ==
  ASSUME TypeInv, RingInv, [Next]_vars
  PROVE  RingInv'
<1> USE DEF RingInv, Least
<1>0. /\ head \in Slots /\ nextID \in Nat /\ entries \in [Slots -> Nat]
      /\ wpc # "idle" => nextID >= 1
  BY DEF TypeInv, TypeOK
<1>1. CASE NumberEntry
  BY <1>0, <1>1 DEF NumberEntry, HoldsBehind
<1>2. CASE CallLock
  BY <1>2 DEF CallLock, HoldsBehind
<1>3. CASE LockGranted
  BY <1>3 DEF LockGranted, HoldsBehind
<1>4. CASE StoreEntry
  <2>1. /\ wpc = "store" /\ wpc' = "advance" /\ UNCHANGED <<head, count, nextID>>
        /\ entries' = [entries EXCEPT ![head] = nextID]
    BY <1>4 DEF StoreEntry
  <2>2. entries'[head] = nextID
    BY <1>0, <2>1
  <2>3. ASSUME NEW k \in 0 .. Least(nextID - 1, Cap - 1) - 1
        PROVE  entries'[Behind(head, k)] = nextID - 1 - k
    <3>1. k \in 0 .. Cap - 1 /\ k < Cap - 1 /\ k \in 0 .. count - 1
      BY <1>0, <2>1
    <3>2. Behind(head, k) \in Slots /\ Behind(head, k) # head
      BY <1>0, <3>1, BehindFacts
    <3>3. entries[Behind(head, k)] = nextID - 1 - k
      BY <2>1, <3>1 DEF HoldsBehind
    <3>4. QED
      BY <1>0, <2>1, <3>2, <3>3
  <2>4. QED
    BY <2>1, <2>2, <2>3 DEF HoldsBehind
<1>5. CASE AdvanceHead
  <2>1. /\ wpc = "advance" /\ wpc' = "grow" /\ UNCHANGED <<entries, count, nextID>>
        /\ head' = (head + 1) % Cap
    BY <1>5 DEF AdvanceHead
  <2>2. HoldsBehind((head + 1) % Cap, Least(nextID, Cap), nextID)
    BY <1>0, <2>1, AdvancedHead
  <2>3. QED
    BY <2>1, <2>2 DEF HoldsBehind
<1>6. CASE GrowCount
  <2>1. /\ wpc = "grow" /\ wpc' = "idle" /\ UNCHANGED <<entries, head, nextID>>
        /\ count' = Least(nextID, Cap)
    BY <1>0, <1>6 DEF GrowCount
  <2>2. QED
    BY <2>1 DEF HoldsBehind
<1>7. ASSUME NEW r \in Readers, Reader(r) PROVE RingInv'
  <2>1. UNCHANGED <<entries, head, count, nextID, wpc>>
    BY <1>7 DEF Reader, CallRecent, InRecent, Leave, RLockGranted, ReturnEmpty,
                BeginScan, ScanSlot, EndScan
  <2>2. QED
    BY <2>1 DEF HoldsBehind
<1>8. CASE UNCHANGED vars
  BY <1>8 DEF vars, HoldsBehind
<1>9. QED
  BY <1>1, <1>2, <1>3, <1>4, <1>5, <1>6, <1>7, <1>8 DEF Next, Writer

LEMMA RingInvCorrect == Spec => []RingInv
<1>1. Init => RingInv
  BY DEF Init, RingInv, Least, HoldsBehind
<1>2. TypeInv /\ RingInv /\ [Next]_vars => RingInv'
  BY RingInvInductive
<1>3. QED
  BY <1>1, <1>2, TypeInvCorrect, PTL DEF Spec

\* Whenever the watcher is outside append, the ring holds exactly the last
\* entries, each where Recent computes it to be, for every capacity.
THEOREM RingAlwaysHoldsLast == Spec => []RingHoldsLast
<1>1. TypeInv /\ RingInv => RingHoldsLast
  BY DEF TypeInv, TypeOK, RingInv, RingHoldsLast, Least, HoldsBehind
<1>2. QED
  BY <1>1, TypeInvCorrect, RingInvCorrect, PTL
------------------------------------------------------------------------------
(* Refinement.  What is visible is determined by the number of visible       *)
(* entries alone, and that number grows by one in StoreEntry and in no other *)
(* step.                                                                     *)

Window(m) == [i \in 1 .. Least(m, Cap) |-> m - Least(m, Cap) + i]

LEMMA VisibleIsWindow ==
  ASSUME TypeInv, RingInv
  PROVE  Appended \in Nat /\ Visible = Window(Appended)
<1> USE DEF Least
<1>0. /\ head \in Slots /\ nextID \in Nat /\ count \in 0 .. Cap /\ wpc \in WriterPC
      /\ wpc # "idle" => nextID >= 1
  BY DEF TypeInv, TypeOK
<1>1. Appended \in Nat
  BY <1>0 DEF Appended, WriterPC
<1> DEFINE h == IF wpc = "advance" THEN (head + 1) % Cap ELSE head
           n == IF wpc \in {"advance", "grow"} /\ count < Cap THEN count + 1 ELSE count
<1>2. n = Least(Appended, Cap) /\ HoldsBehind(h, n, Appended)
  <2>1. CASE wpc = "idle"
    BY <1>0, <2>1 DEF RingInv, Appended
  <2>2. CASE wpc \in {"parsed", "waiting", "store"}
    BY <1>0, <2>2 DEF RingInv, Appended
  <2>3. CASE wpc = "advance"
    BY <1>0, <2>3, AdvancedHead DEF RingInv, Appended
  <2>4. CASE wpc = "grow"
    BY <1>0, <2>4 DEF RingInv, Appended
  <2>5. QED
    BY <1>0, <2>1, <2>2, <2>3, <2>4 DEF WriterPC
<1>3. Visible = [i \in 1 .. n |-> entries[Behind(h, n - i)]]
  BY DEF Visible
<1> HIDE DEF h, n
<1>4. \A i \in 1 .. n : entries[Behind(h, n - i)] = Appended - n + i
  <2>1. n \in Nat
    BY <1>1, <1>2
  <2>2. ASSUME NEW i \in 1 .. n
        PROVE  entries[Behind(h, n - i)] = Appended - n + i
    <3>1. n - i \in 0 .. n - 1
      BY <2>1
    <3>2. entries[Behind(h, n - i)] = Appended - (n - i)
      BY <1>2, <3>1 DEF HoldsBehind
    <3>3. QED
      BY <1>1, <2>1, <3>2
  <2>3. QED
    BY <2>2
<1>5. QED
  BY <1>1, <1>2, <1>3, <1>4 DEF Window

\* A sequence is the function of its elements.
LEMMA SequenceOfElements ==
  ASSUME NEW n \in Nat, NEW s \in Seq(Nat), Len(s) = n
  PROVE  s = [i \in 1 .. n |-> s[i]]
  OBVIOUS

LEMMA WindowGrows ==
  ASSUME NEW m \in Nat
  PROVE  Window(m + 1) = Abstract!Trim(Append(Window(m), m + 1))
<1> USE DEF Least
<1> DEFINE w == Window(m)
           a == Append(w, m + 1)
<1>1. w \in Seq(Nat) /\ Len(w) = Least(m, Cap)
  BY DEF Window
<1>2. \A i \in 1 .. Len(w) : w[i] = m - Len(w) + i
  BY <1>1 DEF Window
<1> HIDE DEF w
<1>3. /\ a \in Seq(Nat) /\ Len(a) = Len(w) + 1
      /\ \A i \in 1 .. Len(a) : a[i] = m - Len(w) + i
  BY <1>1, <1>2
<1> HIDE DEF a
<1>4. CASE m < Cap
  <2>1. Len(w) = m /\ Len(a) = m + 1 /\ Abstract!Trim(a) = a
    BY <1>1, <1>3, <1>4 DEF Abstract!Trim
  <2>2. a = Window(m + 1)
    BY <1>3, <1>4, <2>1 DEF Window
  <2>3. QED
    BY <2>1, <2>2 DEF a, w
<1>5. CASE m >= Cap
  <2>1. Len(w) = Cap /\ Len(a) = Cap + 1 /\ Abstract!Trim(a) = Tail(a)
    BY <1>1, <1>3, <1>5 DEF Abstract!Trim
  <2>2. /\ Tail(a) \in Seq(Nat) /\ Len(Tail(a)) = Cap
        /\ \A i \in 1 .. Cap : Tail(a)[i] = a[i + 1]
    BY <1>3, <2>1
  <2>3. \A i \in 1 .. Cap : Tail(a)[i] = m + 1 - Cap + i
    BY <1>3, <2>1, <2>2
  <2>4. Tail(a) = Window(m + 1)
    <3>1. Tail(a) = [i \in 1 .. Cap |-> Tail(a)[i]]
      BY <2>2, Cap \in Nat, SequenceOfElements
    <3>2. Window(m + 1) = [i \in 1 .. Cap |-> m + 1 - Cap + i]
      BY <1>5 DEF Window
    <3>3. QED
      BY <2>3, <3>1, <3>2
  <2>5. QED
    BY <2>1, <2>4 DEF a, w
<1>6. QED
  BY <1>1, <1>4, <1>5

\* The ring with its head, its count and its lock behaves as the plain history
\* of RecentLog: every step is an append there, or changes nothing.
THEOREM RingImplementsRecentLog == Spec => ImplementsRecentLog
<1>1. Init => Abstract!Init
  <2> SUFFICES ASSUME Init PROVE Appended = 0 /\ Visible = <<>>
    BY DEF Abstract!Init
  <2>1. Visible = [i \in 1 .. 0 |-> entries[Behind(0, 0 - i)]]
    BY DEF Init, Visible
  <2>2. QED
    BY <2>1 DEF Init, Appended
<1>2. TypeInv /\ RingInv /\ TypeInv' /\ RingInv' /\ [Next]_vars
        => [Abstract!AppendNext]_Abstract!logVars
  <2> SUFFICES ASSUME TypeInv, RingInv, TypeInv', RingInv', [Next]_vars
               PROVE  [Abstract!AppendNext]_Abstract!logVars
    OBVIOUS
  <2>1. Appended \in Nat /\ Visible = Window(Appended)
    BY VisibleIsWindow
  <2>2. Visible' = Window(Appended')
    <3>1. (Visible = Window(Appended))'
      BY VisibleIsWindow, PTL
    <3>2. QED
      BY <3>1 DEF Window, Least
  <2>3. CASE StoreEntry
    <3>1. Appended' = Appended + 1
      BY <2>3 DEF StoreEntry, Appended, TypeInv, TypeOK
    <3>2. QED
      BY <2>1, <2>2, <3>1, WindowGrows DEF Abstract!AppendNext
  <2>4. CASE [Next]_vars /\ ~ StoreEntry
    <3>1. Appended' = Appended
      <4>1. CASE Writer
        <5>1. nextID \in Nat
          BY DEF TypeInv, TypeOK
        <5>2. CASE NumberEntry
          BY <5>1, <5>2 DEF NumberEntry, Appended
        <5>3. CASE CallLock \/ LockGranted \/ AdvanceHead \/ GrowCount
          BY <5>3 DEF CallLock, LockGranted, AdvanceHead, GrowCount, Appended
        <5>4. QED
          BY <2>4, <4>1, <5>2, <5>3 DEF Writer
      <4>2. ASSUME NEW r \in Readers, Reader(r) PROVE Appended' = Appended
        BY <4>2 DEF Reader, CallRecent, InRecent, Leave, RLockGranted, ReturnEmpty,
                    BeginScan, ScanSlot, EndScan, Appended
      <4>3. CASE UNCHANGED vars
        BY <4>3 DEF vars, Appended
      <4>4. QED
        BY <2>4, <4>1, <4>2, <4>3 DEF Next
    <3>2. QED
      BY <2>1, <2>2, <3>1 DEF Abstract!logVars
  <2>5. QED
    BY <2>3, <2>4
<1>3. QED
  BY <1>1, <1>2, TypeInvCorrect, RingInvCorrect, PTL
  DEF Spec, ImplementsRecentLog, Abstract!Spec
------------------------------------------------------------------------------
(* What Recent returns.                                                      *)

\* The number of entries appended, for a reader that is let in.
Past == IF wpc = "idle" THEN nextID ELSE nextID - 1

Ascends(s) == \A i, j \in 1 .. Len(s) : i < j => s[i] < s[j]
RangeOf(s) == {s[i] : i \in 1 .. Len(s)}

Clamp(n, size) == IF n <= 0 \/ n > size THEN size ELSE n

\* A reader inside keeps the writer out; halfway through the scan it has those
\* of the oldest i entries that match.
Inside(r) == ReaderHolds(r) => ~ WriterHolds /\ rd[r].asOf = Past

Scanned(r) ==
  LET c == rd[r]
  IN  c.pc = "scan" =>
        /\ c.i <= count
        /\ c.start = (head - count + Cap) % Cap
        /\ c.lim = Clamp(c.n, count)
        /\ Ascends(c.out)
        /\ RangeOf(c.out) = ((c.asOf - count + 1) .. (c.asOf - count + c.i)) \cap c.f

Fresh(r) ==
  /\ rd[r].pc \in {"rlock", "enter"} => rd[r].out = <<>> /\ rd[r].i = 0

Match(c) == ((c.asOf - Least(c.asOf, Cap) + 1) .. c.asOf) \cap c.f

Newest(S, n) == {e \in S : Cardinality({x \in S : x > e}) < n}

Result(c) ==
  /\ RangeOf(c.out) = Newest(Match(c), Clamp(c.n, Least(c.asOf, Cap)))
  /\ Ascends(c.out)

Returned(r) == rd[r].pc = "done" => Result(rd[r])

ReaderInv == \A r \in Readers : Inside(r) /\ Fresh(r) /\ Scanned(r) /\ Returned(r)
------------------------------------------------------------------------------
(* The last n of an ascending sequence are its n greatest elements.          *)

LEMMA ElementsAbove ==
  ASSUME NEW s \in Seq(Nat), Ascends(s), NEW i \in 1 .. Len(s)
  PROVE  Cardinality({x \in RangeOf(s) : x > s[i]}) = Len(s) - i
<1> DEFINE n == Len(s) - i
           T == {x \in RangeOf(s) : x > s[i]}
           f == [k \in 1 .. n |-> s[i + k]]
<1>0. /\ n \in Nat /\ Len(s) \in Nat /\ \A k \in 1 .. Len(s) : s[k] \in Nat
      /\ \A k \in 1 .. n : i + k \in 1 .. Len(s) /\ i < i + k
  OBVIOUS
<1>1. \A k \in 1 .. n : f[k] = s[i + k] /\ f[k] \in T
  BY <1>0 DEF Ascends, RangeOf
<1>2. ASSUME NEW x \in T PROVE \E k \in 1 .. n : f[k] = x
  <2>1. PICK j \in 1 .. Len(s) : s[j] = x /\ s[j] > s[i]
    BY DEF RangeOf
  <2>2. j > i
    BY <1>0, <2>1 DEF Ascends
  <2>3. j - i \in 1 .. n /\ i + (j - i) = j
    BY <1>0, <2>2
  <2>4. QED
    BY <2>1, <2>3
<1>3. ASSUME NEW k \in 1 .. n, NEW l \in 1 .. n, k # l PROVE f[k] # f[l]
  <2>1. CASE k < l
    BY <1>0, <2>1 DEF Ascends
  <2>2. CASE l < k
    BY <1>0, <2>2 DEF Ascends
  <2>3. QED
    BY <1>3, <2>1, <2>2
<1>4. f \in Bijection(1 .. n, T)
  BY <1>1, <1>2, <1>3 DEF Bijection, Injection, Surjection, IsInjective
<1>5. ExistsBijection(1 .. n, T)
  BY <1>4 DEF ExistsBijection
<1>6. QED
  BY <1>0, <1>5, FS_CountingElements

LEMMA LastAreGreatest ==
  ASSUME NEW s \in Seq(Nat), Ascends(s), NEW n \in Nat,
         NEW t, t = IF Len(s) > n THEN SubSeq(s, Len(s) - n + 1, Len(s)) ELSE s,
         NEW M, RangeOf(s) = M
  PROVE  Ascends(t) /\ RangeOf(t) = Newest(M, n)
<1> DEFINE m == IF Len(s) > n THEN Len(s) - n ELSE 0
<1>0. Len(s) \in Nat /\ m \in Nat /\ m <= Len(s)
  OBVIOUS
<1>1. Len(t) = Len(s) - m /\ \A k \in 1 .. Len(t) : t[k] = s[k + m] /\ k + m \in 1 .. Len(s)
  <2>1. CASE Len(s) > n
    BY <1>0, <2>1
  <2>2. CASE ~ (Len(s) > n)
    BY <1>0, <2>2
  <2>3. QED
    BY <2>1, <2>2
<1>2. Ascends(t)
  <2>1. ASSUME NEW k \in 1 .. Len(t), NEW l \in 1 .. Len(t), k < l PROVE t[k] < t[l]
    <3>1. k + m < l + m
      BY <1>0, <1>1, <2>1
    <3>2. QED
      BY <1>1, <3>1 DEF Ascends
  <2>2. QED
    BY <2>1 DEF Ascends
<1>3. \A i \in 1 .. Len(s) : Cardinality({x \in RangeOf(s) : x > s[i]}) = Len(s) - i
  BY ElementsAbove
<1>4. \A i \in 1 .. Len(s) : (Len(s) - i < n) <=> i > m
  BY <1>0
<1>5. ASSUME NEW e \in RangeOf(t)
      PROVE  e \in RangeOf(s) /\ Cardinality({x \in RangeOf(s) : x > e}) < n
  <2>1. PICK k \in 1 .. Len(t) : e = t[k]
    BY DEF RangeOf
  <2>2. e = s[k + m] /\ k + m \in 1 .. Len(s) /\ k + m > m
    BY <1>0, <1>1, <2>1, SMTT(30)
  <2>3. QED
    BY <1>3, <1>4, <2>2 DEF RangeOf
<1>6. ASSUME NEW e \in RangeOf(s), Cardinality({x \in RangeOf(s) : x > e}) < n
      PROVE  e \in RangeOf(t)
  <2>1. PICK i \in 1 .. Len(s) : e = s[i]
    BY DEF RangeOf
  <2>2. i > m
    BY <1>3, <1>4, <1>6, <2>1
  <2>3. i - m \in 1 .. Len(t) /\ (i - m) + m = i
    BY <1>0, <1>1, <2>2
  <2>4. t[i - m] = s[i]
    BY <1>1, <2>3
  <2>5. QED
    BY <2>1, <2>3, <2>4 DEF RangeOf
<1>7. RangeOf(t) = {e \in RangeOf(s) : Cardinality({x \in RangeOf(s) : x > e}) < n}
  BY <1>5, <1>6
<1>8. QED
  BY <1>2, <1>7 DEF Newest
------------------------------------------------------------------------------
(* The scan.                                                                 *)

\* The slot of the i-th iteration is the one that holds the i-th oldest entry.
LEMMA ScannedSlot ==
  ASSUME NEW h \in Slots, NEW c \in 1 .. Cap, NEW i \in 0 .. c - 1
  PROVE  (((h - c + Cap) % Cap) + i) % Cap = Behind(h, c - 1 - i)
<1>0. h \in 0 .. Cap - 1 /\ Cap \in Nat \ {0}
  BY DEF Slots
<1>1. CASE h >= c
  <2>1. (h - c + Cap) % Cap = h - c
    BY <1>0, <1>1
  <2>2. h - c + i \in 0 .. Cap - 1
    BY <1>0, <1>1
  <2>3. (h - c + i) % Cap = h - c + i
    BY <1>0, <2>2, ModSmall
  <2>4. Behind(h, c - 1 - i) = h - c + i
    BY <1>0, <1>1 DEF Behind
  <2>5. QED
    BY <2>1, <2>3, <2>4
<1>2. CASE h < c
  <2>1. h - c + Cap \in 0 .. Cap - 1
    BY <1>0, <1>2
  <2>2. (h - c + Cap) % Cap = h - c + Cap
    BY <1>0, <2>1, ModSmall
  <2>3. CASE h - c + i < 0
    <3>1. h - c + Cap + i \in 0 .. Cap - 1
      BY <1>0, <2>1, <2>3
    <3>2. (h - c + Cap + i) % Cap = h - c + Cap + i
      BY <1>0, <3>1, ModSmall
    <3>3. Behind(h, c - 1 - i) = h - c + Cap + i
      BY <1>0, <2>3 DEF Behind
    <3>4. QED
      BY <2>2, <3>2, <3>3
  <2>4. CASE h - c + i >= 0
    <3>1. h - c + i \in 0 .. Cap - 1
      BY <1>0, <1>2, <2>4
    <3>2. (h - c + Cap + i) % Cap = h - c + i
      BY <1>0, <3>1
    <3>3. Behind(h, c - 1 - i) = h - c + i
      BY <1>0, <2>4 DEF Behind
    <3>4. QED
      BY <2>2, <3>2, <3>3
  <2>5. QED
    BY <1>0, <2>3, <2>4
<1>3. QED
  BY <1>0, <1>1, <1>2

\* With the read lock held, the ring is that of the moment it was granted.
LEMMA RingStandsStill ==
  ASSUME TypeInv, RingInv, NEW r \in Readers, Inside(r), ReaderHolds(r)
  PROVE  /\ rd[r].asOf \in Nat /\ count = Least(rd[r].asOf, Cap)
         /\ HoldsBehind(head, count, rd[r].asOf)
<1>1. /\ wpc \in {"idle", "parsed", "waiting"} /\ nextID \in Nat
      /\ wpc # "idle" => nextID >= 1
  BY DEF TypeInv, TypeOK, Inside, WriterHolds, WriterPC
<1>2. CASE wpc = "idle"
  BY <1>1, <1>2 DEF RingInv, Inside, Past
<1>3. CASE wpc \in {"parsed", "waiting"}
  BY <1>1, <1>3 DEF RingInv, Inside, Past
<1>4. QED
  BY <1>1, <1>2, <1>3

\* An element greater than all is appended.
LEMMA AppendGreater ==
  ASSUME NEW s \in Seq(Nat), Ascends(s), NEW e \in Nat, \A x \in RangeOf(s) : x < e
  PROVE  Ascends(Append(s, e)) /\ RangeOf(Append(s, e)) = RangeOf(s) \cup {e}
<1> DEFINE t == Append(s, e)
<1>1. /\ Len(s) \in Nat /\ Len(t) = Len(s) + 1 /\ t[Len(s) + 1] = e
      /\ \A k \in 1 .. Len(s) : t[k] = s[k] /\ s[k] \in Nat
  OBVIOUS
<1> HIDE DEF t
<1>2. ASSUME NEW k \in 1 .. Len(t), NEW l \in 1 .. Len(t), k < l PROVE t[k] < t[l]
  <2>1. k \in 1 .. Len(s)
    BY <1>1, <1>2
  <2>2. CASE l \in 1 .. Len(s)
    BY <1>1, <1>2, <2>1, <2>2 DEF Ascends
  <2>3. CASE l = Len(s) + 1
    BY <1>1, <2>1, <2>3 DEF RangeOf
  <2>4. QED
    BY <1>1, <2>2, <2>3
<1>3. RangeOf(t) = RangeOf(s) \cup {e}
  <2>1. RangeOf(s) \cup {e} \subseteq RangeOf(t)
    BY <1>1 DEF RangeOf
  <2>2. RangeOf(t) \subseteq RangeOf(s) \cup {e}
    <3>1. ASSUME NEW k \in 1 .. Len(t) PROVE t[k] \in RangeOf(s) \cup {e}
      BY <1>1 DEF RangeOf
    <3>2. QED
      BY <3>1 DEF RangeOf
  <2>3. QED
    BY <2>1, <2>2
<1>4. QED
  BY <1>2, <1>3 DEF t, Ascends

LEMMA BeginScanOK ==
  ASSUME TypeInv, RingInv, NEW r \in Readers, Inside(r), Fresh(r), BeginScan(r)
  PROVE  Inside(r)' /\ Fresh(r)' /\ Scanned(r)' /\ Returned(r)'
<1> DEFINE c == rd[r]
           lim == IF c.n <= 0 \/ c.n > count THEN count ELSE c.n
           start == (head - count + Cap) % Cap
           d == [c EXCEPT !.pc = "scan", !.lim = lim, !.start = start]
<1>1. c \in Call /\ c.pc = "enter" /\ c.out = <<>> /\ c.i = 0 /\ rd \in [Readers -> Call]
  BY DEF TypeInv, TypeOK, Call, BeginScan, Fresh
<1>2. rd'[r] = d /\ UNCHANGED <<entries, head, count, nextID, wpc>>
  BY <1>1 DEF BeginScan, Call
<1>3. /\ d.pc = "scan" /\ d.i = 0 /\ d.out = <<>> /\ d.lim = lim /\ d.start = start
      /\ d.n = c.n /\ d.f = c.f /\ d.asOf = c.asOf
  BY <1>1 DEF Call
<1>4. c.asOf \in Nat /\ count \in Nat
  BY <1>1 DEF Call, TypeInv, TypeOK
<1>5. RangeOf(<<>>) = ((c.asOf - count + 1) .. (c.asOf - count + 0)) \cap c.f /\ Ascends(<<>>)
  BY <1>4 DEF RangeOf, Ascends
<1>6. Scanned(r)'
  BY <1>2, <1>3, <1>4, <1>5 DEF Scanned, Clamp
<1>7. Inside(r)' /\ Fresh(r)' /\ Returned(r)'
  BY <1>1, <1>2, <1>3 DEF Inside, ReaderHolds, WriterHolds, Past, Fresh, Returned
<1>8. QED
  BY <1>6, <1>7

LEMMA ScanSlotOK ==
  ASSUME TypeInv, RingInv, NEW r \in Readers, Inside(r), Scanned(r), ScanSlot(r)
  PROVE  Inside(r)' /\ Fresh(r)' /\ Scanned(r)' /\ Returned(r)'
<1> DEFINE c == rd[r]
           e == entries[(c.start + c.i) % Cap]
           out == IF e \in c.f THEN Append(c.out, e) ELSE c.out
           d == [c EXCEPT !.i = c.i + 1, !.out = out]
           low == c.asOf - count
<1>1. c \in Call /\ c.pc = "scan" /\ c.i < count /\ rd \in [Readers -> Call] /\ ReaderHolds(r)
  BY DEF TypeInv, TypeOK, Call, ScanSlot, ReaderHolds
<1>2. rd'[r] = d /\ UNCHANGED <<entries, head, count, nextID, wpc>>
  BY <1>1 DEF ScanSlot, Call
<1>3. /\ d.pc = "scan" /\ d.i = c.i + 1 /\ d.out = out /\ d.lim = c.lim /\ d.start = c.start
      /\ d.n = c.n /\ d.f = c.f /\ d.asOf = c.asOf
  BY <1>1 DEF Call
<1>4. /\ c.asOf \in Nat /\ count \in 0 .. Cap /\ head \in Slots /\ c.i \in Nat
      /\ count = Least(c.asOf, Cap) /\ HoldsBehind(head, count, c.asOf) /\ c.out \in Seq(Nat)
  BY <1>1, RingStandsStill DEF Call, TypeInv, TypeOK
<1>5. e = low + c.i + 1 /\ e \in Nat /\ low \in Nat
  <2>1. count \in 1 .. Cap /\ c.i \in 0 .. count - 1 /\ count - 1 - c.i \in 0 .. count - 1
    BY <1>1, <1>4
  <2>2. c.start = (head - count + Cap) % Cap
    BY <1>1 DEF Scanned
  <2>3. (((head - count + Cap) % Cap) + c.i) % Cap = Behind(head, count - 1 - c.i)
    BY <1>4, <2>1, ScannedSlot
  <2>4. e = entries[Behind(head, count - 1 - c.i)]
    BY <2>2, <2>3
  <2>5. e = c.asOf - (count - 1 - c.i)
    BY <1>4, <2>1, <2>4 DEF HoldsBehind
  <2>6. low \in Nat
    BY <1>4 DEF Least
  <2>7. /\ c.asOf \in Nat /\ count \in Nat /\ c.i \in Nat /\ count - 1 - c.i \in Nat
        /\ low = c.asOf - count
    BY <1>4, <2>1
  <2> HIDE DEF e, c, low, d, out
  <2>8. e = low + c.i + 1
    BY <2>5, <2>7
  <2>9. QED
    BY <2>6, <2>7, <2>8
<1>6. RangeOf(c.out) = ((low + 1) .. (low + c.i)) \cap c.f /\ Ascends(c.out)
  BY <1>1 DEF Scanned
<1> HIDE DEF e, low
<1>7. RangeOf(out) = ((low + 1) .. (low + (c.i + 1))) \cap c.f /\ Ascends(out)
  <2>1. (low + 1) .. (low + (c.i + 1)) = ((low + 1) .. (low + c.i)) \cup {e}
    BY <1>4, <1>5, SMTT(30)
  <2>2. \A x \in RangeOf(c.out) : x < e
    BY <1>4, <1>5, <1>6
  <2>3. CASE e \in c.f
    <3>1. Ascends(Append(c.out, e)) /\ RangeOf(Append(c.out, e)) = RangeOf(c.out) \cup {e}
      BY <1>4, <1>5, <1>6, <2>2, AppendGreater
    <3>2. QED
      BY <1>6, <2>1, <2>3, <3>1
  <2>4. CASE e \notin c.f
    BY <1>6, <2>1, <2>4
  <2>5. QED
    BY <2>3, <2>4
<1> HIDE DEF out
<1>8. Scanned(r)'
  BY <1>1, <1>2, <1>3, <1>4, <1>7 DEF Scanned, low
<1>9. Inside(r)' /\ Fresh(r)' /\ Returned(r)'
  BY <1>1, <1>2, <1>3 DEF Inside, ReaderHolds, WriterHolds, Past, Fresh, Returned
<1>10. QED
  BY <1>8, <1>9

LEMMA EndScanOK ==
  ASSUME TypeInv, RingInv, NEW r \in Readers, Inside(r), Scanned(r), EndScan(r)
  PROVE  Inside(r)' /\ Fresh(r)' /\ Scanned(r)' /\ Returned(r)'
<1> DEFINE c == rd[r]
           out == IF Len(c.out) > c.lim
                  THEN SubSeq(c.out, Len(c.out) - c.lim + 1, Len(c.out)) ELSE c.out
           d == [c EXCEPT !.pc = "done", !.out = out]
<1>1. c \in Call /\ c.pc = "scan" /\ c.i >= count /\ rd \in [Readers -> Call] /\ ReaderHolds(r)
  BY DEF TypeInv, TypeOK, Call, EndScan, ReaderHolds
<1>2. rd'[r] = d /\ UNCHANGED <<entries, head, count, nextID, wpc>>
  BY <1>1 DEF EndScan, Call
<1>3. d.pc = "done" /\ d.out = out /\ d.n = c.n /\ d.f = c.f /\ d.asOf = c.asOf
  BY <1>1 DEF Call
<1>4. /\ c.asOf \in Nat /\ c.i = count /\ count \in Nat /\ count = Least(c.asOf, Cap)
      /\ c.out \in Seq(Nat) /\ c.lim \in Nat /\ c.lim = Clamp(c.n, count) /\ Ascends(c.out)
  BY <1>1, RingStandsStill DEF Call, TypeInv, TypeOK, Scanned
<1>5. RangeOf(c.out) = Match(c)
  BY <1>1, <1>4 DEF Scanned, Match
<1>6. Ascends(out) /\ RangeOf(out) = Newest(Match(c), c.lim)
  <2>1. out = IF Len(c.out) > c.lim
              THEN SubSeq(c.out, Len(c.out) - c.lim + 1, Len(c.out)) ELSE c.out
    OBVIOUS
  <2>2. c.out \in Seq(Nat) /\ Ascends(c.out) /\ c.lim \in Nat
    BY <1>4
  <2> HIDE DEF out, c, d
  <2>3. QED
    BY <1>5, <2>1, <2>2, LastAreGreatest, ZenonT(30)
<1> HIDE DEF out
<1>7. Match(d) = Match(c)
  BY <1>3 DEF Match
<1>8. Result(d)
  BY <1>3, <1>4, <1>6, <1>7 DEF Result
<1>9. QED
  BY <1>2, <1>3, <1>8 DEF Inside, ReaderHolds, Fresh, Scanned, Returned

LEMMA ReturnEmptyOK ==
  ASSUME TypeInv, RingInv, NEW r \in Readers, Inside(r), Fresh(r), ReturnEmpty(r)
  PROVE  Inside(r)' /\ Fresh(r)' /\ Scanned(r)' /\ Returned(r)'
<1> DEFINE c == rd[r]
           d == [c EXCEPT !.pc = "done"]
<1>1. /\ c \in Call /\ c.pc = "enter" /\ count = 0 /\ c.out = <<>>
      /\ rd \in [Readers -> Call] /\ ReaderHolds(r)
  BY DEF TypeInv, TypeOK, Call, ReturnEmpty, ReaderHolds, Fresh
<1>2. rd'[r] = d
  BY <1>1 DEF ReturnEmpty, Call
<1>3. d.pc = "done" /\ d.out = <<>> /\ d.f = c.f /\ d.asOf = c.asOf
  BY <1>1 DEF Call
<1>4. c.asOf = 0
  BY <1>1, RingStandsStill DEF Least
<1>5. Match(d) = {}
  BY <1>3, <1>4 DEF Match, Least
<1>6. Result(d)
  BY <1>3, <1>5 DEF Result, Newest, RangeOf, Ascends
<1>7. QED
  BY <1>2, <1>3, <1>6 DEF Inside, ReaderHolds, Fresh, Scanned, Returned

LEMMA OtherCallsOK ==
  ASSUME TypeInv, NEW r \in Readers, Returned(r), CallRecent(r) \/ RLockGranted(r) \/ Leave(r),
         Fresh(r)
  PROVE  Inside(r)' /\ Fresh(r)' /\ Scanned(r)' /\ Returned(r)'
<1>0. rd \in [Readers -> Call] /\ rd[r] \in Call
  BY DEF TypeInv, TypeOK, Call
<1>1. CASE CallRecent(r)
  <2>1. rd'[r].pc = "rlock" /\ rd'[r].out = <<>> /\ rd'[r].i = 0
    BY <1>0, <1>1, ZenonT(30) DEF CallRecent, NoCall
  <2>2. QED
    BY <2>1 DEF Inside, ReaderHolds, Fresh, Scanned, Returned
<1>2. CASE RLockGranted(r)
  <2>1. /\ rd'[r].pc = "enter" /\ rd'[r].out = rd[r].out /\ rd'[r].i = rd[r].i
        /\ rd'[r].asOf = Past /\ ~ WriterHolds /\ UNCHANGED <<wpc, nextID>>
    BY <1>0, <1>2 DEF RLockGranted, Past, WriterHolds, Call
  <2>2. QED
    BY <1>2, <2>1 DEF Inside, ReaderHolds, Fresh, Scanned, Returned, Past, WriterHolds,
       RLockGranted
<1>3. CASE Leave(r)
  <2>1. rd'[r].pc = "idle"
    BY <1>0, <1>3 DEF Leave, NoCall
  <2>2. QED
    BY <2>1 DEF Inside, ReaderHolds, Fresh, Scanned, Returned
<1>4. QED
  BY <1>1, <1>2, <1>3
------------------------------------------------------------------------------
LEMMA ReaderInvInductive ==
  ASSUME TypeInv, RingInv, ReaderInv, [Next]_vars
  PROVE  ReaderInv'
<1>0. rd \in [Readers -> Call] /\ nextID \in Nat
  BY DEF TypeInv, TypeOK, Call
<1>1. CASE Writer
  <2>1. UNCHANGED rd
    BY <1>1 DEF Writer, NumberEntry, CallLock, LockGranted, StoreEntry, AdvanceHead, GrowCount
  <2>2. CASE NumberEntry \/ CallLock
    <3>1. Past' = Past /\ ~ WriterHolds' /\ UNCHANGED <<head, count>>
      BY <1>0, <2>2 DEF NumberEntry, CallLock, Past, WriterHolds
    <3>2. QED
      BY <2>1, <3>1 DEF ReaderInv, Inside, ReaderHolds, Fresh, Scanned, Returned
  <2>3. CASE LockGranted \/ StoreEntry \/ AdvanceHead \/ GrowCount
    <3>1. \A r \in Readers : ~ ReaderHolds(r)
      BY <2>3 DEF LockGranted, StoreEntry, AdvanceHead, GrowCount, ReaderInv, Inside, WriterHolds
    <3>2. QED
      BY <2>1, <3>1 DEF ReaderInv, Inside, ReaderHolds, Fresh, Scanned, Returned
  <2>4. QED
    BY <1>1, <2>2, <2>3 DEF Writer
<1>2. ASSUME NEW r \in Readers, Reader(r) PROVE ReaderInv'
  <2>1. UNCHANGED <<entries, head, count, nextID, wpc>>
    BY <1>2 DEF Reader, CallRecent, InRecent, Leave, RLockGranted, ReturnEmpty,
                BeginScan, ScanSlot, EndScan
  <2>2. \A q \in Readers : q # r => rd'[q] = rd[q]
    BY <1>0, <1>2 DEF Reader, CallRecent, InRecent, Leave, RLockGranted, ReturnEmpty,
                BeginScan, ScanSlot, EndScan
  <2>3. ASSUME NEW q \in Readers, q # r
        PROVE  Inside(q)' /\ Fresh(q)' /\ Scanned(q)' /\ Returned(q)'
    BY <2>1, <2>2, <2>3 DEF ReaderInv, Inside, ReaderHolds, WriterHolds, Past, Fresh, Scanned,
       Returned
  <2>4. Inside(r)' /\ Fresh(r)' /\ Scanned(r)' /\ Returned(r)'
    BY <1>2, BeginScanOK, ScanSlotOK, EndScanOK, ReturnEmptyOK, OtherCallsOK
    DEF Reader, InRecent, ReaderInv
  <2>5. QED
    BY <2>3, <2>4 DEF ReaderInv
<1>3. CASE UNCHANGED vars
  BY <1>3 DEF vars, ReaderInv, Inside, ReaderHolds, WriterHolds, Past, Fresh, Scanned, Returned
<1>4. QED
  BY <1>1, <1>2, <1>3 DEF Next

\* Whatever the watcher appends before, during and after a call, Recent returns
\* the newest matching entries of one moment, oldest first, none twice.
THEOREM RecentReturnsSnapshot == Spec => []RecentIsSnapshot
<1>1. Init => ReaderInv
  BY DEF Init, NoCall, ReaderInv, Inside, ReaderHolds, Fresh, Scanned, Returned
<1>2. TypeInv /\ RingInv /\ ReaderInv /\ [Next]_vars => ReaderInv'
  BY ReaderInvInductive
<1>3. ReaderInv => RecentIsSnapshot
  BY DEF ReaderInv, Returned, RecentIsSnapshot, Result, Newest, Match, RangeOf,
     Ascends, Clamp, Least
<1>4. QED
  BY <1>1, <1>2, <1>3, TypeInvCorrect, RingInvCorrect, PTL DEF Spec
==============================================================================
