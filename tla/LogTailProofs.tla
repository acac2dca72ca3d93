---------------------------- MODULE LogTailProofs ----------------------------
(***************************************************************************)
(* The tail of a log, for any number of lines, files, rotations and        *)
(* failures and any length of the inotify queue: the entries keep the      *)
(* order of the lines and repeat none, and under the rotation the          *)
(* deployment documents describe no line is lost.                          *)
(***************************************************************************)
EXTENDS LogTail, FiniteSetTheorems, TLAPS

LEMMA Sizes ==
  /\ Limit \in Nat \ {0} /\ QueueCap \in Nat \ {0} /\ MaxFiles \in Nat \ {0}
  /\ MaxLines \in Nat /\ MaxFails \in Nat /\ MaxEntries \in Nat
  BY TailAssumption DEF TailAssumption

USE Sizes

\* The order in which pieces reach the log: the beginning of a line, then the
\* line or its rest.
Order(p) == IF p < 0 THEN 0 - 2 * p - 1 ELSE 2 * p

Ascends(s) == \A i, j \in 1 .. Len(s) : i < j => Order(s[i]) < Order(s[j])

\* What has reached the files and the entries so far.
Past(p) == /\ Order(p) <= 2 * written
           /\ Unfinished => Order(p) < 2 * written

\* Pieces ascend within a file and from one inode to the next, which the broker
\* has not reached yet.
FilesOrdered ==
  /\ \A f \in Inodes :
       /\ Ascends(lines[f])
       /\ \A i \in 1 .. Len(lines[f]) : i <= Order(lines[f][i]) /\ Past(lines[f][i])
       /\ f > brokerFile => lines[f] = <<>>
  /\ \A f, g \in Inodes : f < g =>
       \A i \in 1 .. Len(lines[f]), j \in 1 .. Len(lines[g]) :
         Order(lines[f][i]) < Order(lines[g][j])

\* The beginning of a line is followed by its rest, unless the broker is at it.
FilesWhole ==
  \A f \in Inodes : \A i \in 1 .. Len(lines[f]) :
    lines[f][i] < 0 => IF i = Len(lines[f])
                       THEN f = brokerFile /\ lines[f][i] = - written
                       ELSE lines[f][i + 1] = - lines[f][i]

Links == path \in {0, used} /\ brokerFile <= used /\ file <= used

Starting == pc \in {"bootstrap", "open", "watch"}

StartsQuiet ==
  /\ Starting => events = <<>> /\ mark = MaxLines
  /\ pc \in {"bootstrap", "open"} => file = 0 /\ lastOffset = 0

EntriesPast == \A i \in 1 .. Len(entries) : Past(entries[i])

\* What the tail may still read comes after all it has read: the open file
\* beyond lastOffset and newer ones, or the log if no file is open.
Ahead(f, i) == IF file = 0 THEN f = path ELSE f > file \/ (f = file /\ i > lastOffset)

Fresh ==
  pc \in {"watch", "loop"} =>
    \A f \in Inodes : \A i \in 1 .. Len(lines[f]) : Ahead(f, i) =>
      \A k \in 1 .. Len(entries) : Order(entries[k]) < Order(lines[f][i])

\* As long as its event waits, behind writes only, the renamed file is open.
GoneWaits ==
  Watching => \A k \in 1 .. Len(events) : events[k] = "gone" =>
    /\ file # 0 /\ file # path
    /\ \A j \in 1 .. k - 1 : events[j] = "write"

Calm == "burst" \notin faults /\ LongLines = {}

InOrder == Calm => Ascends(entries) /\ Fresh /\ GoneWaits

\* A piece has its entry, or is older than the watch.
Kept(p) == LineOf(p) > mark => p \in Elems(entries) \/ LineOf(p) \in Elems(entries)
AllKept(f) == \A i \in 1 .. Len(lines[f]) : Kept(lines[f][i])

\* In other files than the log and the open one all is kept; so is what was
\* read of the open file; what was not has a write event, ahead of the event
\* that will close the file.
Safe ==
  /\ \A f \in Inodes : f \notin {file, path} => AllKept(f)
  /\ file = 0 => lastOffset = 0
  /\ file # 0 => /\ \A i \in 1 .. Len(lines[file]) : i <= lastOffset => Kept(lines[file][i])
                 /\ lastOffset <= Len(lines[file])
                 /\ AllKept(file) \/ (events # <<>> /\ "write" \in Elems(events)
                                        /\ (file # path => Head(events) = "write"))
  /\ file \notin {0, path} => "gone" \in Elems(events)

NoLoss == Mild /\ LongLines = {} /\ pc \in {"watch", "loop"} => Safe

Shape ==
  TypeOK /\ FilesOrdered /\ FilesWhole /\ Links /\ StartsQuiet /\ EntriesPast

Inv == Shape /\ InOrder /\ NoLoss
------------------------------------------------------------------------------
(* The elements at some places of a sequence.                                *)

Rank(I, i) == Cardinality({j \in I : j <= i})

LEMMA RankLess ==
  ASSUME NEW n \in Nat, NEW I \in SUBSET (1 .. n), NEW i \in I, NEW j \in I, i < j
  PROVE  Rank(I, i) < Rank(I, j)
<1> DEFINE A == {k \in I : k <= i}
           B == {k \in I : k <= j}
<1>1. IsFiniteSet(1 .. n) /\ I \subseteq Int /\ i \in Int /\ j \in Int
  BY FS_Interval
<1>2. IsFiniteSet(I)
  BY <1>1, FS_Subset
<1>3. IsFiniteSet(A) /\ IsFiniteSet(B)
  BY <1>2, FS_Subset
<1>4. A \subseteq B /\ j \in B /\ j \notin A
  <2>1. \A k \in I : k <= i => k <= j
    BY <1>1
  <2>2. j <= j /\ ~ (j <= i)
    BY <1>1
  <2>3. QED
    BY <2>1, <2>2
<1>5. Cardinality(A) \in Nat /\ Cardinality(B) \in Nat
  BY <1>3, FS_CardinalityType
<1>6. Cardinality(A) <= Cardinality(B) /\ Cardinality(A) # Cardinality(B)
  BY <1>3, <1>4, FS_Subset
<1> HIDE DEF A, B
<1>7. Cardinality(A) < Cardinality(B)
  BY <1>5, <1>6
<1>8. QED
  BY <1>7 DEF Rank, A, B

LEMMA RankBound ==
  ASSUME NEW n \in Nat, NEW I \in SUBSET (1 .. n)
  PROVE  /\ IsFiniteSet(I) /\ Cardinality(I) \in Nat
         /\ \A i \in I : Rank(I, i) \in 1 .. Cardinality(I)
<1>1. IsFiniteSet(1 .. n)
  BY FS_Interval
<1>2. IsFiniteSet(I) /\ Cardinality(I) \in Nat
  BY <1>1, FS_Subset, FS_CardinalityType
<1>3. ASSUME NEW i \in I PROVE Rank(I, i) \in 1 .. Cardinality(I)
  <2> DEFINE A == {j \in I : j <= i}
  <2>1. IsFiniteSet(A) /\ Cardinality(A) <= Cardinality(I)
    BY <1>2, FS_Subset
  <2>2. Cardinality(A) \in Nat /\ Cardinality(A) # 0
    <3>1. A # {}
      OBVIOUS
    <3> HIDE DEF A
    <3>2. QED
      BY <2>1, <3>1, FS_CardinalityType, FS_EmptySet
  <2> HIDE DEF A
  <2>3. Cardinality(A) \in 1 .. Cardinality(I)
    BY <1>2, <2>1, <2>2
  <2>4. QED
    BY <2>3 DEF Rank, A
<1>4. QED
  BY <1>2, <1>3

\* Ranks tell places apart and put them in order.
LEMMA RankOrder ==
  ASSUME NEW n \in Nat, NEW I \in SUBSET (1 .. n), NEW i \in I, NEW j \in I
  PROVE  /\ Rank(I, i) < Rank(I, j) => i < j
         /\ Rank(I, i) = Rank(I, j) => i = j
<1>1. i \in Int /\ j \in Int
  OBVIOUS
<1>2. Rank(I, i) \in Int /\ Rank(I, j) \in Int
  <2>1. /\ Cardinality(I) \in Nat
        /\ \A h \in I : Rank(I, h) \in 1 .. Cardinality(I)
    BY RankBound
  <2>2. Rank(I, i) \in 1 .. Cardinality(I) /\ Rank(I, j) \in 1 .. Cardinality(I)
    BY <2>1
  <2>3. QED
    BY <2>1, <2>2
<1>3. i < j => Rank(I, i) < Rank(I, j)
  BY RankLess
<1>4. j < i => Rank(I, j) < Rank(I, i)
  BY RankLess
<1> HIDE DEF Rank
<1>5. QED
  BY <1>1, <1>2, <1>3, <1>4

LEMMA PlaceIs ==
  ASSUME NEW n \in Nat, NEW I \in SUBSET (1 .. n), NEW k \in 1 .. Cardinality(I)
  PROVE  Place(I, k) \in I /\ Rank(I, Place(I, k)) = k
<1> DEFINE f == [i \in I |-> Rank(I, i)]
           m == Cardinality(I)
<1>1. IsFiniteSet(I) /\ m \in Nat /\ \A i \in I : Rank(I, i) \in 1 .. m
  BY RankBound
<1>2. \A i, j \in I : Rank(I, i) = Rank(I, j) => i = j
  BY RankOrder
<1> HIDE DEF m
<1>3. f \in Injection(I, 1 .. m)
  BY <1>1, <1>2 DEF Injection, IsInjective
<1>4. IsFiniteSet(1 .. m) /\ Cardinality(1 .. m) = Cardinality(I)
  BY <1>1, FS_Interval DEF m
<1>5. f \in Surjection(I, 1 .. m)
  BY <1>1, <1>3, <1>4, FS_Injection
<1>6. \E i \in I : f[i] = k
  BY <1>5 DEF Surjection, m
<1>7. \E i \in I : Rank(I, i) = k
  BY <1>6
<1>8. QED
  BY <1>7 DEF Place, Rank

\* Pick takes the elements at the places, in their order, and each of them.
LEMMA PickIs ==
  ASSUME NEW T, NEW s \in Seq(T), NEW I \in SUBSET (1 .. Len(s))
  PROVE  /\ Pick(s, I) \in Seq(T)
         /\ \A k \in 1 .. Len(Pick(s, I)) :
              Place(I, k) \in I /\ Pick(s, I)[k] = s[Place(I, k)]
         /\ \A k, l \in 1 .. Len(Pick(s, I)) : k < l => Place(I, k) < Place(I, l)
         /\ \A i \in I : \E k \in 1 .. Len(Pick(s, I)) : Place(I, k) = i
<1> DEFINE m == Cardinality(I)
<1>0. Len(s) \in Nat
  OBVIOUS
<1>1. m \in Nat /\ \A i \in I : Rank(I, i) \in 1 .. m
  BY <1>0, RankBound
<1>2. \A k \in 1 .. m : Place(I, k) \in I /\ Rank(I, Place(I, k)) = k
  BY <1>0, PlaceIs
<1>3. Pick(s, I) = [k \in 1 .. m |-> s[Place(I, k)]]
  BY DEF Pick
<1>4. \A i, j \in I : /\ Rank(I, i) < Rank(I, j) => i < j
                      /\ Rank(I, i) = Rank(I, j) => i = j
  BY <1>0, RankOrder
<1> HIDE DEF m
<1>5. ASSUME NEW k \in 1 .. m PROVE s[Place(I, k)] \in T
  <2>1. Place(I, k) \in 1 .. Len(s)
    BY <1>2
  <2>2. QED
    BY <1>0, <2>1
<1>6. Pick(s, I) \in Seq(T) /\ Len(Pick(s, I)) = m
  BY <1>1, <1>3, <1>5
<1>7. ASSUME NEW k \in 1 .. m, NEW l \in 1 .. m, k < l PROVE Place(I, k) < Place(I, l)
  <2>1. /\ Place(I, k) \in I /\ Rank(I, Place(I, k)) = k
        /\ Place(I, l) \in I /\ Rank(I, Place(I, l)) = l
    BY <1>2
  <2>2. Rank(I, Place(I, k)) < Rank(I, Place(I, l))
    BY <1>7, <2>1
  <2>3. QED
    BY <1>4, <2>1, <2>2
<1>8. ASSUME NEW i \in I PROVE \E k \in 1 .. m : Place(I, k) = i
  BY <1>1, <1>2, <1>4
<1>9. QED
  BY <1>2, <1>3, <1>6, <1>7, <1>8

LEMMA Orders ==
  ASSUME NEW p \in Pieces
  PROVE  /\ p \in Int /\ Order(p) \in Nat /\ Order(p) >= 1
         /\ LineOf(p) \in 1 .. MaxLines /\ LineOf(p) \in Pieces
         /\ 2 * LineOf(p) - 1 <= Order(p) /\ Order(p) <= 2 * LineOf(p)
         /\ p < 0 => Order(p) = 2 * LineOf(p) - 1 /\ p = - LineOf(p)
         /\ p > 0 => Order(p) = 2 * LineOf(p) /\ p = LineOf(p)
         /\ p < 0 \/ p > 0
  BY DEF Pieces, Order, LineOf

\* What Pick keeps: the pieces, their order and every place it is given.
LEMMA PickKeeps ==
  ASSUME NEW s \in Seq(Pieces), NEW I \in SUBSET (1 .. Len(s))
  PROVE  /\ Pick(s, I) \in Seq(Pieces)
         /\ \A k \in 1 .. Len(Pick(s, I)) : \E i \in 1 .. Len(s) : Pick(s, I)[k] = s[i]
         /\ Ascends(s) => Ascends(Pick(s, I))
         /\ \A i \in I : s[i] \in Elems(Pick(s, I))
<1> DEFINE t == Pick(s, I)
<1>1. /\ t \in Seq(Pieces)
      /\ \A k \in 1 .. Len(t) : Place(I, k) \in I /\ t[k] = s[Place(I, k)]
      /\ \A k, l \in 1 .. Len(t) : k < l => Place(I, k) < Place(I, l)
      /\ \A i \in I : \E k \in 1 .. Len(t) : Place(I, k) = i
  BY PickIs
<1> HIDE DEF t
<1>2. \A k \in 1 .. Len(t) : \E i \in 1 .. Len(s) : t[k] = s[i]
  BY <1>1
<1>3. ASSUME Ascends(s), NEW k \in 1 .. Len(t), NEW l \in 1 .. Len(t), k < l
      PROVE  Order(t[k]) < Order(t[l])
  <2>1. Place(I, k) \in 1 .. Len(s) /\ Place(I, l) \in 1 .. Len(s)
    BY <1>1
  <2>2. Place(I, k) < Place(I, l) /\ t[k] = s[Place(I, k)] /\ t[l] = s[Place(I, l)]
    BY <1>1, <1>3
  <2>3. QED
    BY <1>3, <2>1, <2>2 DEF Ascends
<1>4. \A i \in I : s[i] \in Elems(t)
  BY <1>1 DEF Elems
<1>5. Ascends(s) => Ascends(t)
  BY <1>3 DEF Ascends
<1>6. QED
  BY <1>1, <1>2, <1>4, <1>5 DEF t

\* A scan yields pieces of the file in their order, and unless a line is too
\* long all the lines and the beginning of one at the end.
LEMMA ScannedIs ==
  ASSUME NEW s \in Seq(Pieces)
  PROVE  /\ Scanned(s) \in Seq(Pieces)
         /\ \A k \in 1 .. Len(Scanned(s)) : \E i \in 1 .. Len(s) : Scanned(s)[k] = s[i]
         /\ Ascends(s) => Ascends(Scanned(s))
         /\ LongLines = {} =>
              /\ ~ TooLong(s)
              /\ \A i \in 1 .. Len(s) : s[i] > 0 \/ i = Len(s) => s[i] \in Elems(Scanned(s))
<1> DEFINE I == {i \in Ends(s) : \A j \in 1 .. i : LineOf(s[j]) \notin LongLines}
<1>1. I \in SUBSET (1 .. Len(s))
  BY DEF Ends
<1>2. LongLines = {} => Ends(s) = I
  OBVIOUS
<1>3. Scanned(s) = Pick(s, I)
  BY DEF Scanned
<1> HIDE DEF I
<1>4. /\ Pick(s, I) \in Seq(Pieces)
      /\ \A k \in 1 .. Len(Pick(s, I)) : \E i \in 1 .. Len(s) : Pick(s, I)[k] = s[i]
      /\ Ascends(s) => Ascends(Pick(s, I))
      /\ \A i \in I : s[i] \in Elems(Pick(s, I))
  BY <1>1, PickKeeps
<1>5. LongLines = {} =>
        /\ ~ TooLong(s)
        /\ \A i \in 1 .. Len(s) : s[i] > 0 \/ i = Len(s) => s[i] \in Elems(Pick(s, I))
  BY <1>2, <1>4 DEF TooLong, Ends
<1>6. QED
  BY <1>3, <1>4, <1>5

\* The bootstrap too yields pieces of the file in their order.
LEMMA LastLinesIs ==
  ASSUME NEW s \in Seq(Pieces)
  PROVE  /\ LastLines(Tokens(s)) \in Seq(Pieces)
         /\ \A k \in 1 .. Len(LastLines(Tokens(s))) :
              \E i \in 1 .. Len(s) : LastLines(Tokens(s))[k] = s[i]
         /\ Ascends(s) => Ascends(LastLines(Tokens(s)))
<1> DEFINE t == Tokens(s)
           a == IF Len(t) > Limit THEN Len(t) - Limit + 1 ELSE 1
           r == SubSeq(t, a, Len(t))
<1>1. Ends(s) \in SUBSET (1 .. Len(s))
  BY DEF Ends
<1>2. /\ t \in Seq(Pieces)
      /\ \A k \in 1 .. Len(t) : \E i \in 1 .. Len(s) : t[k] = s[i]
      /\ Ascends(s) => Ascends(t)
  BY <1>1, PickKeeps DEF Tokens
<1> HIDE DEF t
<1>3. Len(t) \in Nat /\ a \in Nat /\ a >= 1 /\ a <= Len(t) + 1
  BY <1>2
<1> HIDE DEF a
<1>4. r \in Seq(Pieces) /\ Len(r) = Len(t) - a + 1
      /\ \A k \in 1 .. Len(r) : r[k] = t[k + a - 1]
  BY <1>2, <1>3
<1> HIDE DEF r
<1>5. \A k \in 1 .. Len(r) : k + a - 1 \in 1 .. Len(t)
  BY <1>3, <1>4
<1>6. \A k \in 1 .. Len(r) : \E i \in 1 .. Len(s) : r[k] = s[i]
  BY <1>2, <1>4, <1>5
<1>7. ASSUME Ascends(t) PROVE Ascends(r)
  <2>1. ASSUME NEW k \in 1 .. Len(r), NEW l \in 1 .. Len(r), k < l
        PROVE  Order(r[k]) < Order(r[l])
    <3>1. k + a - 1 \in 1 .. Len(t) /\ l + a - 1 \in 1 .. Len(t)
      BY <1>5
    <3>2. k + a - 1 < l + a - 1
      BY <1>3, <1>4, <2>1
    <3>3. Order(t[k + a - 1]) < Order(t[l + a - 1])
      BY <1>7, <3>1, <3>2 DEF Ascends
    <3>4. QED
      BY <1>4, <3>3
  <2>2. QED
    BY <2>1 DEF Ascends
<1>8. LastLines(Tokens(s)) = r
  BY DEF LastLines, r, a, t
<1>9. QED
  BY <1>2, <1>4, <1>6, <1>7, <1>8

\* What is unread, and where it lies in the file.
LEMMA UnreadIs ==
  ASSUME NEW f, NEW off \in Nat, lines[f] \in Seq(Pieces)
  PROVE  /\ Unread(f, off) \in Seq(Pieces)
         /\ Len(Unread(f, off)) = IF off <= Len(lines[f]) THEN Len(lines[f]) - off ELSE 0
         /\ \A i \in 1 .. Len(Unread(f, off)) :
              Unread(f, off)[i] = lines[f][off + i] /\ off + i \in 1 .. Len(lines[f])
<1> DEFINE s == lines[f]
           n == Len(s)
<1>1. s \in Seq(Pieces) /\ n \in Nat
  OBVIOUS
<1>2. Unread(f, off) = SubSeq(s, off + 1, n)
  BY DEF Unread
<1> HIDE DEF s
<1>3. CASE off <= n
  <2>1. /\ SubSeq(s, off + 1, n) \in Seq(Pieces) /\ Len(SubSeq(s, off + 1, n)) = n - off
        /\ \A i \in 1 .. n - off : SubSeq(s, off + 1, n)[i] = s[off + i]
    BY <1>1, <1>3
  <2>2. QED
    BY <1>1, <1>2, <1>3, <2>1, SMTT(30) DEF s
<1>4. CASE ~ off <= n
  <2>1. SubSeq(s, off + 1, n) = << >>
    BY <1>1, <1>4
  <2>2. QED
    BY <1>1, <1>2, <1>4, <2>1 DEF s
<1>5. QED
  BY <1>3, <1>4
------------------------------------------------------------------------------
(* Types and the shape of the files, which every step keeps.                 *)

\* An event joins the queue at its end, or is one with the last, or is dropped.
LEMMA Notified ==
  ASSUME events \in Seq(EventKinds), Len(events) <= QueueCap,
         NEW e \in EventKinds, Notify(e)
  PROVE  /\ events' \in Seq(EventKinds) /\ Len(events') <= QueueCap
         /\ \/ events' = events
            \/ Watching /\ events' = Append(events, e)
         /\ Watching /\ "overflow" \notin faults =>
              events' # << >> /\ events'[Len(events')] = e
         /\ ~ Watching => events' = events
<1>1. CASE events' = Append(events, e) /\ Watching /\ Len(events) < QueueCap
  BY <1>1
<1>2. CASE events' = events
           /\ (\/ ~ Watching
               \/ Len(events) >= QueueCap
               \/ events # << >> /\ events[Len(events)] = e)
  <2>1. Watching /\ "overflow" \notin faults => Len(events) < QueueCap
    BY DEF Notify, CanNotify
  <2>2. Len(events) \in Nat
    OBVIOUS
  <2>3. QED
    BY <1>2, <2>1, <2>2
<1>3. Len(events) \in Nat
  OBVIOUS
<1>4. QED
  BY <1>1, <1>2, <1>3 DEF Notify

\* The piece the broker writes next.
NextPiece(p) ==
  /\ p \in Pieces
  /\ IF Unfinished THEN p = written ELSE p \in {written + 1, - (written + 1)}

LEMMA Writes ==
  ASSUME TypeOK, FilesOrdered, WriteLine \/ WriteStart \/ WriteRest
  PROVE  \E p \in Pieces : NextPiece(p) /\ Write(p)
<1>1. written \in 0 .. MaxLines /\ brokerFile \in Inodes \cup {0}
      /\ lines \in [Inodes -> Seq(Pieces)]
  BY DEF TypeOK
<1>2. CASE WriteLine
  <2>1. written + 1 \in Pieces
    BY <1>1, <1>2 DEF WriteLine, Pieces
  <2>2. NextPiece(written + 1)
    BY <1>2, <2>1 DEF WriteLine, NextPiece
  <2>3. QED
    BY <1>2, <2>1, <2>2 DEF WriteLine
<1>3. CASE WriteStart
  <2>1. - (written + 1) \in Pieces
    BY <1>1, <1>3 DEF WriteStart, Pieces
  <2>2. NextPiece(- (written + 1))
    BY <1>3, <2>1 DEF WriteStart, NextPiece
  <2>3. QED
    BY <1>3, <2>1, <2>2 DEF WriteStart
<1>4. CASE WriteRest
  <2>1. written # 0
    <3> DEFINE s == lines[brokerFile]
               i == Len(s)
    <3>1. brokerFile \in Inodes /\ s # << >>
      BY <1>1, <1>4 DEF WriteRest, Unfinished
    <3>2. s \in Seq(Pieces)
      BY <1>1, <3>1
    <3>3. i \in 1 .. Len(s) /\ s[i] \in Pieces
      BY <3>1, <3>2
    <3>4. Order(s[i]) <= 2 * written
      BY <3>1, <3>3 DEF FilesOrdered, Past
    <3>5. Order(s[i]) \in Nat /\ Order(s[i]) >= 1
      BY <3>3, Orders
    <3>6. QED
      BY <1>1, <3>4, <3>5
  <2>2. written \in Pieces
    BY <1>1, <2>1 DEF Pieces
  <2>3. NextPiece(written)
    BY <1>4, <2>2 DEF WriteRest, NextPiece
  <2>4. QED
    BY <1>4, <2>2, <2>3 DEF WriteRest
<1>5. QED
  BY <1>2, <1>3, <1>4

\* It comes after all that has been written, and is at most half of a line.
LEMMA NextPieceIs ==
  ASSUME TypeOK, NEW p \in Pieces, NextPiece(p)
  PROVE  /\ \A q \in Pieces : Past(q) => Order(q) < Order(p)
         /\ LineOf(p) >= written /\ LineOf(p) \in 1 .. MaxLines
         /\ Unfinished => p > 0 /\ LineOf(p) = written
         /\ Order(p) <= 2 * LineOf(p)
         /\ p < 0 => Order(p) < 2 * LineOf(p)
<1>1. written \in 0 .. MaxLines
  BY DEF TypeOK
<1>2. LineOf(p) \in 1 .. MaxLines /\ Order(p) <= 2 * LineOf(p)
      /\ (p < 0 => Order(p) < 2 * LineOf(p))
  <2>1. /\ Order(p) \in Nat /\ LineOf(p) \in 1 .. MaxLines /\ Order(p) <= 2 * LineOf(p)
        /\ p < 0 => Order(p) = 2 * LineOf(p) - 1
    BY Orders
  <2>2. QED
    BY <2>1
<1>3. CASE Unfinished
  <2>1. p = written /\ p # 0
    BY <1>3 DEF NextPiece, Pieces
  <2>2. p > 0 /\ LineOf(p) = written /\ Order(p) = 2 * written
    BY <1>1, <2>1 DEF LineOf, Order
  <2>3. \A q \in Pieces : Past(q) => Order(q) < Order(p)
    BY <1>3, <2>2 DEF Past
  <2>4. QED
    BY <1>1, <1>2, <2>2, <2>3
<1>4. CASE ~ Unfinished
  <2>1. LineOf(p) = written + 1 /\ Order(p) >= 2 * written + 1 /\ Order(p) \in Nat
    BY <1>1, <1>4 DEF NextPiece, LineOf, Order
  <2>2. ASSUME NEW q \in Pieces, Past(q) PROVE Order(q) < Order(p)
    <3>1. Order(q) <= 2 * written /\ Order(q) \in Nat
      BY <2>2, Orders DEF Past
    <3>2. QED
      BY <1>1, <2>1, <3>1
  <2>3. QED
    BY <1>1, <1>2, <1>4, <2>1, <2>2
<1>5. QED
  BY <1>3, <1>4

LEMMA InitShape ==
  ASSUME Init PROVE Shape
<1> DEFINE s == [i \in 1 .. written |-> i]
<1>1. written \in 0 .. MaxLines /\ path \in {0, 1} /\ used = path /\ brokerFile = path
      /\ file = 0 /\ lastOffset = 0 /\ events = << >> /\ entries = << >> /\ mark = MaxLines
      /\ lines = [f \in Inodes |-> IF f = path THEN s ELSE << >>]
      /\ fails = 0 /\ faults \in Environments /\ pc \in {"bootstrap", "open"}
      /\ (path = 0 => written = 0)
  BY DEF Init
<1>2. \A i \in 1 .. written : i \in Pieces
  BY <1>1 DEF Pieces
<1>3. s \in Seq(Pieces) /\ Len(s) = written /\ \A i \in 1 .. written : s[i] = i
  BY <1>1, <1>2
<1>4. << >> \in Seq(Pieces) /\ Len(<< >>) = 0 /\ << >> \in Seq(EventKinds)
  OBVIOUS
<1> HIDE DEF s
<1>5. \A f \in Inodes : lines[f] = IF f = path THEN s ELSE << >>
  BY <1>1
<1>6. lines \in [Inodes -> Seq(Pieces)]
  <2>1. \A f \in Inodes : (IF f = path THEN s ELSE << >>) \in Seq(Pieces)
    BY <1>3, <1>4
  <2>2. QED
    BY <1>1, <2>1
<1>7. TypeOK
  BY <1>1, <1>4, <1>6 DEF TypeOK, Inodes, PCs
<1>8. ~ Unfinished
  BY <1>1, <1>3, <1>4, <1>5 DEF Unfinished, Inodes
<1>9. \A i \in 1 .. written : Order(i) = 2 * i
  BY <1>1 DEF Order
<1>10. FilesOrdered
  <2>1. ASSUME NEW f \in Inodes
        PROVE  /\ Ascends(lines[f])
               /\ \A i \in 1 .. Len(lines[f]) : i <= Order(lines[f][i]) /\ Past(lines[f][i])
               /\ f > brokerFile => lines[f] = << >>
    <3>1. CASE f = path
      BY <1>1, <1>3, <1>5, <1>8, <1>9, <3>1 DEF Ascends, Past
    <3>2. CASE f # path
      <4>1. lines[f] = << >>
        BY <1>5, <3>2
      <4>2. QED
        BY <1>4, <4>1 DEF Ascends
    <3>3. QED
      BY <3>1, <3>2
  <2>2. ASSUME NEW f \in Inodes, NEW g \in Inodes, f < g,
               NEW i \in 1 .. Len(lines[f]), NEW j \in 1 .. Len(lines[g])
        PROVE  Order(lines[f][i]) < Order(lines[g][j])
    <3>1. f = path /\ g = path
      BY <1>4, <1>5
    <3>2. QED
      BY <2>2, <3>1 DEF Inodes
  <2>3. QED
    BY <2>1, <2>2 DEF FilesOrdered
<1>11. FilesWhole
  <2>1. ASSUME NEW f \in Inodes, NEW i \in 1 .. Len(lines[f]) PROVE ~ (lines[f][i] < 0)
    BY <1>1, <1>3, <1>4, <1>5
  <2>2. QED
    BY <2>1 DEF FilesWhole
<1>12. Links /\ StartsQuiet /\ EntriesPast
  BY <1>1, <1>4 DEF Links, StartsQuiet, EntriesPast
<1>13. QED
  BY <1>7, <1>10, <1>11, <1>12 DEF Shape

\* Past after the step.
PastNext(p) == /\ Order(p) <= 2 * written'
               /\ Unfinished' => Order(p) < 2 * written'

\* A write appends a piece that comes after all the others.
LEMMA WriteShape ==
  ASSUME Shape, NEW p \in Pieces, NextPiece(p), Write(p)
  PROVE  Shape' /\ (\A q \in Pieces : Past(q) => PastNext(q))
         /\ brokerFile \in Inodes
         /\ lines' = [lines EXCEPT ![brokerFile] = Append(@, p)]
<1> DEFINE b == brokerFile
           s == lines[b]
<1>1. /\ lines \in [Inodes -> Seq(Pieces)] /\ brokerFile \in Inodes \cup {0}
      /\ written \in 0 .. MaxLines /\ events \in Seq(EventKinds) /\ Len(events) <= QueueCap
      /\ entries \in Seq(Pieces)
  BY DEF Shape, TypeOK
<1>2. /\ b \in Inodes /\ written' = LineOf(p)
      /\ lines' = [lines EXCEPT ![b] = Append(@, p)]
  BY <1>1 DEF Write
<1>3. /\ UNCHANGED <<faults, path, brokerFile, used>>
      /\ UNCHANGED <<pc, file, lastOffset, entries, fails, mark>>
      /\ (Notify("write") \/ UNCHANGED events)
  BY DEF Write, watcherVars
<1>4. /\ \A q \in Pieces : Past(q) => Order(q) < Order(p)
      /\ LineOf(p) >= written /\ LineOf(p) \in 1 .. MaxLines
      /\ Unfinished => p > 0 /\ LineOf(p) = written
      /\ Order(p) <= 2 * LineOf(p)
      /\ p < 0 => Order(p) < 2 * LineOf(p)
  BY NextPieceIs DEF Shape
<1>5. /\ p \in Int /\ Order(p) \in Nat /\ Order(p) >= 1 /\ (p < 0 => p = - LineOf(p))
  BY Orders
<1>6. s \in Seq(Pieces) /\ Len(s) \in Nat /\ Append(s, p) \in Seq(Pieces)
      /\ Len(Append(s, p)) = Len(s) + 1 /\ Append(s, p)[Len(s) + 1] = p
      /\ \A i \in 1 .. Len(s) : Append(s, p)[i] = s[i]
  BY <1>1, <1>2
<1>7. /\ lines'[b] = Append(s, p)
      /\ \A f \in Inodes : f # b => lines'[f] = lines[f]
  BY <1>1, <1>2
<1> HIDE DEF b, s
<1>8. Unfinished' <=> p < 0
  <2>1. brokerFile' = b /\ b # 0
    BY <1>2, <1>3 DEF b, Inodes
  <2>2. lines'[brokerFile'] = Append(s, p) /\ Append(s, p) # << >>
    BY <1>6, <1>7, <2>1
  <2>3. QED
    BY <1>6, <2>1, <2>2 DEF Unfinished
<1>9. ASSUME NEW q \in Pieces, Past(q) PROVE PastNext(q)
  <2>1. Order(q) < Order(p) /\ Order(q) \in Nat
    BY <1>4, <1>9, Orders
  <2>2. Order(q) <= 2 * written' /\ (Unfinished' => Order(q) < 2 * written')
    BY <1>2, <1>4, <1>5, <1>8, <2>1
  <2>3. QED
    BY <2>2 DEF PastNext
<1>10. PastNext(p)
  BY <1>2, <1>4, <1>8 DEF PastNext
<1>11. lines' \in [Inodes -> Seq(Pieces)]
  BY <1>1, <1>2, <1>6 DEF s
<1>12. events' \in Seq(EventKinds) /\ Len(events') <= QueueCap /\ (~ Watching => events' = events)
  BY <1>1, <1>3, Notified DEF EventKinds
<1>13. TypeOK'
  BY <1>2, <1>3, <1>4, <1>11, <1>12 DEF Shape, TypeOK
<1>14. FilesOrdered'
  <2>1. \A f \in Inodes : Ascends(lines[f])
    BY DEF Shape, FilesOrdered
  <2>2. \A f \in Inodes : \A i \in 1 .. Len(lines[f]) :
          lines[f][i] \in Pieces /\ i <= Order(lines[f][i]) /\ Past(lines[f][i])
    BY <1>1 DEF Shape, FilesOrdered
  <2>3. \A f \in Inodes : f > b => lines[f] = << >>
    BY DEF Shape, FilesOrdered, b
  <2>4. \A f \in Inodes : \A i \in 1 .. Len(lines[f]) :
          Order(lines[f][i]) < Order(p) /\ Order(lines[f][i]) \in Nat
    BY <1>4, <2>2, Orders
  <2>5. ASSUME NEW f \in Inodes
        PROVE  /\ Ascends(lines'[f])
               /\ \A i \in 1 .. Len(lines'[f]) :
                    i <= Order(lines'[f][i]) /\ PastNext(lines'[f][i])
               /\ f > b => lines'[f] = << >>
    <3>1. CASE f # b
      BY <1>7, <1>9, <2>1, <2>2, <2>3, <3>1
    <3>2. CASE f = b
      <4>1. lines'[f] = Append(s, p)
        BY <1>7, <3>2
      <4>2. Ascends(Append(s, p))
        <5>1. ASSUME NEW i \in 1 .. Len(s) + 1, NEW j \in 1 .. Len(s) + 1, i < j
              PROVE  Order(Append(s, p)[i]) < Order(Append(s, p)[j])
          <6>1. i \in 1 .. Len(s) /\ Append(s, p)[i] = s[i]
            BY <1>6, <5>1
          <6>2. CASE j = Len(s) + 1
            BY <1>2, <1>6, <2>4, <6>1, <6>2 DEF s
          <6>3. CASE j # Len(s) + 1
            <7>1. j \in 1 .. Len(s) /\ Append(s, p)[j] = s[j]
              BY <1>6, <6>3
            <7>2. Ascends(s)
              BY <1>2, <2>1 DEF s
            <7>3. QED
              BY <5>1, <6>1, <7>1, <7>2 DEF Ascends
          <6>4. QED
            BY <6>2, <6>3
        <5>2. QED
          BY <1>6, <5>1 DEF Ascends
      <4>3. ASSUME NEW i \in 1 .. Len(s) + 1
            PROVE  i <= Order(Append(s, p)[i]) /\ PastNext(Append(s, p)[i])
        <5>1. CASE i \in 1 .. Len(s)
          BY <1>2, <1>6, <1>9, <2>2, <5>1 DEF s
        <5>2. CASE i = Len(s) + 1
          <6>1. CASE Len(s) = 0
            BY <1>5, <1>6, <1>10, <5>2, <6>1
          <6>2. CASE Len(s) # 0
            <7>1. Len(s) \in 1 .. Len(s)
              BY <1>6, <6>2
            <7>2. Len(s) <= Order(s[Len(s)]) /\ Order(s[Len(s)]) < Order(p)
                  /\ Order(s[Len(s)]) \in Nat
              BY <1>2, <2>2, <2>4, <7>1 DEF s
            <7>3. QED
              BY <1>5, <1>6, <1>10, <5>2, <7>2
          <6>3. QED
            BY <6>1, <6>2
        <5>3. QED
          BY <1>6, <5>1, <5>2
      <4>4. ~ (f > b)
        BY <1>2, <3>2 DEF Inodes
      <4>5. QED
        BY <1>6, <4>1, <4>2, <4>3, <4>4
    <3>3. QED
      BY <3>1, <3>2
  <2>6. ASSUME NEW f \in Inodes, NEW g \in Inodes, f < g,
               NEW i \in 1 .. Len(lines'[f]), NEW j \in 1 .. Len(lines'[g])
        PROVE  Order(lines'[f][i]) < Order(lines'[g][j])
    <3>1. \A k \in 1 .. Len(lines[f]), l \in 1 .. Len(lines[g]) :
             Order(lines[f][k]) < Order(lines[g][l])
      BY <2>6 DEF Shape, FilesOrdered
    <3>2. CASE f = b
      <4>1. g > b /\ g # b
        BY <2>6, <3>2 DEF Inodes
      <4>2. lines'[g] = << >>
        BY <1>7, <2>3, <4>1
      <4>3. QED
        BY <4>2
    <3>3. CASE f # b /\ g = b
      <4>1. lines'[f] = lines[f] /\ lines'[g] = Append(s, p)
        BY <1>7, <3>3
      <4>2. CASE j = Len(s) + 1
        BY <1>6, <2>4, <4>1, <4>2
      <4>3. CASE j # Len(s) + 1
        <5>1. j \in 1 .. Len(s) /\ Append(s, p)[j] = s[j]
          BY <1>6, <4>1, <4>3
        <5>2. QED
          BY <3>1, <3>3, <4>1, <5>1 DEF s
      <4>4. QED
        BY <4>2, <4>3
    <3>4. CASE f # b /\ g # b
      BY <1>7, <3>1, <3>4
    <3>5. QED
      BY <3>2, <3>3, <3>4
  <2>7. brokerFile' = b
    BY <1>3 DEF b
  <2>8. QED
    BY <2>5, <2>6, <2>7 DEF FilesOrdered, Past, PastNext
<1>15. FilesWhole'
  <2>1. \A f \in Inodes : \A i \in 1 .. Len(lines[f]) :
          lines[f][i] < 0 => IF i = Len(lines[f])
                             THEN f = b /\ lines[f][i] = - written
                             ELSE lines[f][i + 1] = - lines[f][i]
    BY DEF Shape, FilesWhole, b
  <2>2. ASSUME NEW f \in Inodes, NEW i \in 1 .. Len(lines'[f]), lines'[f][i] < 0
        PROVE  IF i = Len(lines'[f])
               THEN f = b /\ lines'[f][i] = - written'
               ELSE lines'[f][i + 1] = - lines'[f][i]
    <3>1. CASE f # b
      BY <1>7, <2>1, <2>2, <3>1
    <3>2. CASE f = b /\ i = Len(s) + 1
      BY <1>2, <1>5, <1>6, <1>7, <2>2, <3>2
    <3>3. CASE f = b /\ i # Len(s) + 1
      <4>1. i \in 1 .. Len(s) /\ lines'[f] = Append(s, p) /\ lines'[f][i] = s[i]
        BY <1>6, <1>7, <3>3
      <4>2. s[i] < 0 /\ (IF i = Len(s) THEN s[i] = - written ELSE s[i + 1] = - s[i])
        BY <2>1, <2>2, <3>3, <4>1 DEF s
      <4>3. CASE i = Len(s)
        <5>1. s # << >> /\ brokerFile = b /\ b # 0 /\ lines[b] = s
          BY <1>2, <1>6, <4>1 DEF s, b, Inodes
        <5>2. Unfinished
          BY <4>2, <4>3, <5>1 DEF Unfinished
        <5>3. p = written
          BY <5>2 DEF NextPiece
        <5>4. lines'[f][i + 1] = p /\ i # Len(lines'[f]) /\ written \in Int
          BY <1>1, <1>6, <4>1, <4>3
        <5>5. QED
          BY <4>1, <4>2, <4>3, <5>3, <5>4
      <4>4. CASE i # Len(s)
        <5>1. i + 1 \in 1 .. Len(s)
          BY <1>6, <4>1, <4>4
        <5>2. lines'[f][i + 1] = s[i + 1] /\ i # Len(lines'[f])
          BY <1>6, <4>1, <5>1
        <5>3. QED
          BY <4>1, <4>2, <4>4, <5>2
      <4>5. QED
        BY <4>3, <4>4
    <3>4. QED
      BY <3>1, <3>2, <3>3
  <2>3. brokerFile' = b
    BY <1>3 DEF b
  <2>4. QED
    BY <2>2, <2>3 DEF FilesWhole
<1>16. Links' /\ StartsQuiet'
  BY <1>3, <1>12 DEF Shape, Links, StartsQuiet, Starting, Watching
<1>17. EntriesPast'
  <2>1. \A i \in 1 .. Len(entries) : entries[i] \in Pieces /\ Past(entries[i])
    BY <1>1 DEF Shape, EntriesPast
  <2>2. \A i \in 1 .. Len(entries') : PastNext(entries'[i])
    BY <1>3, <1>9, <2>1
  <2>3. QED
    BY <2>2 DEF EntriesPast, Past, PastNext
<1>18. QED
  BY <1>2, <1>9, <1>13, <1>14, <1>15, <1>16, <1>17 DEF Shape, b

\* Moving and creating files changes none, and the broker moves on only from a
\* whole line, to an empty file.
LEMMA LinkShape ==
  ASSUME Shape, Rotate \/ CreateFile \/ BrokerReopens \/ Replace
  PROVE  Shape' /\ lines' = lines
<1>1. /\ lines \in [Inodes -> Seq(Pieces)] /\ brokerFile \in Inodes \cup {0}
      /\ written \in 0 .. MaxLines /\ events \in Seq(EventKinds) /\ Len(events) <= QueueCap
      /\ entries \in Seq(Pieces) /\ path \in Inodes \cup {0} /\ used \in 0 .. MaxFiles
      /\ path \in {0, used} /\ brokerFile <= used /\ file <= used /\ file \in Inodes \cup {0}
  BY DEF Shape, TypeOK, Links
<1>2. /\ UNCHANGED <<faults, lines, written, pc, file, lastOffset, entries, fails, mark>>
      /\ UNCHANGED events \/ \E e \in EventKinds : Notify(e)
  BY DEF Rotate, CreateFile, BrokerReopens, Replace, LinkNewFile, watcherVars, EventKinds
<1>3. /\ path' \in {0, used'} /\ used' >= used /\ used' \in 0 .. MaxFiles
      /\ \/ brokerFile' = brokerFile
         \/ ~ Unfinished /\ brokerFile' \in Inodes /\ brokerFile' > brokerFile
                         /\ brokerFile' <= used'
  <2>1. CASE Rotate
    BY <1>1, <2>1 DEF Rotate
  <2>2. CASE CreateFile \/ Replace
    BY <1>1, <2>2, SMTT(30) DEF CreateFile, Replace, LinkNewFile, Inodes
  <2>3. CASE BrokerReopens
    BY <1>1, <2>3 DEF BrokerReopens, Inodes
  <2>4. QED
    BY <2>1, <2>2, <2>3
<1>4. \A f \in Inodes : f > brokerFile => lines[f] = << >>
  BY DEF Shape, FilesOrdered
<1>5. Unfinished' => Unfinished /\ brokerFile' = brokerFile
  <2>1. CASE brokerFile' = brokerFile
    BY <1>2, <2>1 DEF Unfinished
  <2>2. CASE brokerFile' \in Inodes /\ brokerFile' > brokerFile
    BY <1>2, <1>4, <2>2 DEF Unfinished
  <2>3. QED
    BY <1>3, <2>1, <2>2
<1>6. \A q \in Pieces : Past(q) => PastNext(q)
  BY <1>2, <1>5 DEF Past, PastNext
<1>7. /\ events' \in Seq(EventKinds) /\ Len(events') <= QueueCap
      /\ ~ Watching => events' = events
  BY <1>1, <1>2, Notified
<1>8. brokerFile' \in Inodes \cup {0} /\ path' \in Inodes \cup {0}
  BY <1>1, <1>3 DEF Inodes
<1>9. TypeOK'
  BY <1>2, <1>3, <1>7, <1>8 DEF Shape, TypeOK
<1>10. FilesOrdered'
  <2>1. ASSUME NEW f \in Inodes
        PROVE  /\ Ascends(lines[f])
               /\ \A i \in 1 .. Len(lines[f]) :
                    i <= Order(lines[f][i]) /\ PastNext(lines[f][i])
               /\ f > brokerFile' => lines[f] = << >>
    <3>1. \A i \in 1 .. Len(lines[f]) : lines[f][i] \in Pieces /\ Past(lines[f][i])
      BY <1>1 DEF Shape, FilesOrdered
    <3>2. f > brokerFile' => f > brokerFile
      BY <1>1, <1>3, <1>8 DEF Inodes
    <3>3. QED
      BY <1>4, <1>6, <3>1, <3>2 DEF Shape, FilesOrdered
  <2>2. \A f, g \in Inodes : f < g =>
          \A i \in 1 .. Len(lines[f]), j \in 1 .. Len(lines[g]) :
            Order(lines[f][i]) < Order(lines[g][j])
    BY DEF Shape, FilesOrdered
  <2>3. lines' = lines
    BY <1>2
  <2>4. QED
    BY <2>1, <2>2, <2>3 DEF FilesOrdered, Past, PastNext
<1>11. FilesWhole'
  <2>1. ASSUME NEW f \in Inodes, NEW i \in 1 .. Len(lines[f]), lines[f][i] < 0
        PROVE  IF i = Len(lines[f])
               THEN f = brokerFile' /\ lines[f][i] = - written
               ELSE lines[f][i + 1] = - lines[f][i]
    <3>1. IF i = Len(lines[f])
          THEN f = brokerFile /\ lines[f][i] = - written
          ELSE lines[f][i + 1] = - lines[f][i]
      BY <2>1 DEF Shape, FilesWhole
    <3>2. CASE i = Len(lines[f])
      <4>1. f = brokerFile /\ f # 0 /\ lines[f] # << >>
        BY <3>1, <3>2 DEF Inodes
      <4>2. Unfinished
        BY <2>1, <3>2, <4>1 DEF Unfinished
      <4>3. brokerFile' = brokerFile
        BY <1>3, <4>2
      <4>4. QED
        BY <3>1, <3>2, <4>3
    <3>3. QED
      BY <3>1, <3>2
  <2>2. lines' = lines /\ written' = written
    BY <1>2
  <2>3. QED
    BY <2>1, <2>2 DEF FilesWhole
<1>12. Links'
  BY <1>1, <1>2, <1>3, <1>8 DEF Links, Inodes
<1>13. StartsQuiet'
  BY <1>2, <1>7 DEF Shape, StartsQuiet, Starting, Watching
<1>14. EntriesPast'
  <2>1. \A i \in 1 .. Len(entries) : PastNext(entries[i])
    BY <1>1, <1>6 DEF Shape, EntriesPast
  <2>2. entries' = entries
    BY <1>2
  <2>3. QED
    BY <2>1, <2>2 DEF EntriesPast, Past, PastNext
<1>15. QED
  BY <1>2, <1>9, <1>10, <1>11, <1>12, <1>13, <1>14 DEF Shape

LEMMA TruncateShape ==
  ASSUME Shape, Truncate
  PROVE  Shape' /\ \A f \in Inodes : lines'[f] \in {lines[f], << >>}
<1>1. /\ lines \in [Inodes -> Seq(Pieces)] /\ brokerFile \in Inodes \cup {0}
      /\ events \in Seq(EventKinds) /\ Len(events) <= QueueCap /\ entries \in Seq(Pieces)
      /\ path \in Inodes \cup {0}
  BY DEF Shape, TypeOK
<1>2. /\ UNCHANGED <<faults, path, brokerFile, used, written>>
      /\ UNCHANGED <<pc, file, lastOffset, entries, fails, mark>>
      /\ Notify("write") /\ path \in Inodes /\ ~ Unfinished
      /\ lines' = [lines EXCEPT ![path] = << >>]
  BY <1>1 DEF Truncate, watcherVars
<1>3. \A f \in Inodes : lines'[f] = IF f = path THEN << >> ELSE lines[f]
  BY <1>1, <1>2
<1>4. lines' \in [Inodes -> Seq(Pieces)]
  BY <1>1, <1>2
<1>5. ~ Unfinished'
  <2>1. CASE brokerFile = path
    BY <1>2, <1>3, <2>1 DEF Unfinished
  <2>2. CASE brokerFile # path
    BY <1>1, <1>2, <1>3, <2>2 DEF Unfinished
  <2>3. QED
    BY <2>1, <2>2
<1>6. \A q \in Pieces : Past(q) => PastNext(q)
  BY <1>2, <1>5 DEF Past, PastNext
<1>7. /\ events' \in Seq(EventKinds) /\ Len(events') <= QueueCap
      /\ ~ Watching => events' = events
  BY <1>1, <1>2, Notified DEF EventKinds
<1>8. TypeOK'
  BY <1>2, <1>4, <1>7 DEF Shape, TypeOK
<1>9. FilesOrdered'
  <2>1. ASSUME NEW f \in Inodes
        PROVE  /\ Ascends(lines'[f])
               /\ \A i \in 1 .. Len(lines'[f]) :
                    i <= Order(lines'[f][i]) /\ PastNext(lines'[f][i])
               /\ f > brokerFile => lines'[f] = << >>
    <3>1. CASE f = path
      <4>1. lines'[f] = << >> /\ Len(<< >>) = 0
        BY <1>3, <3>1
      <4>2. QED
        BY <4>1 DEF Ascends
    <3>2. CASE f # path
      <4>1. \A i \in 1 .. Len(lines[f]) : lines[f][i] \in Pieces /\ Past(lines[f][i])
        BY <1>1 DEF Shape, FilesOrdered
      <4>2. QED
        BY <1>3, <1>6, <3>2, <4>1 DEF Shape, FilesOrdered
    <3>3. QED
      BY <3>1, <3>2
  <2>2. ASSUME NEW f \in Inodes, NEW g \in Inodes, f < g,
               NEW i \in 1 .. Len(lines'[f]), NEW j \in 1 .. Len(lines'[g])
        PROVE  Order(lines'[f][i]) < Order(lines'[g][j])
    <3>1. lines'[f] = lines[f] /\ lines'[g] = lines[g]
      BY <1>3
    <3>2. QED
      BY <2>2, <3>1 DEF Shape, FilesOrdered
  <2>3. QED
    BY <1>2, <2>1, <2>2 DEF FilesOrdered, Past, PastNext
<1>10. FilesWhole'
  <2>1. ASSUME NEW f \in Inodes, NEW i \in 1 .. Len(lines'[f]), lines'[f][i] < 0
        PROVE  i # Len(lines'[f]) /\ lines'[f][i + 1] = - lines'[f][i]
    <3>1. lines'[f] = lines[f]
      BY <1>3
    <3>2. IF i = Len(lines[f])
          THEN f = brokerFile /\ lines[f][i] = - written
          ELSE lines[f][i + 1] = - lines[f][i]
      BY <2>1, <3>1 DEF Shape, FilesWhole
    <3>3. i # Len(lines[f])
      <4>1. SUFFICES ASSUME i = Len(lines[f]) PROVE FALSE
        OBVIOUS
      <4>2. f = brokerFile /\ f # 0 /\ lines[f] # << >> /\ lines[f][Len(lines[f])] < 0
        BY <2>1, <3>1, <3>2, <4>1 DEF Inodes
      <4>3. QED
        BY <1>2, <4>2 DEF Unfinished
    <3>4. QED
      BY <3>1, <3>2, <3>3
  <2>2. QED
    BY <2>1 DEF FilesWhole
<1>11. Links' /\ StartsQuiet'
  BY <1>2, <1>7 DEF Shape, Links, StartsQuiet, Starting, Watching
<1>12. EntriesPast'
  <2>1. \A i \in 1 .. Len(entries) : PastNext(entries[i])
    BY <1>1, <1>6 DEF Shape, EntriesPast
  <2>2. entries' = entries
    BY <1>2
  <2>3. QED
    BY <2>1, <2>2 DEF EntriesPast, Past, PastNext
<1>13. QED
  BY <1>3, <1>8, <1>9, <1>10, <1>11, <1>12 DEF Shape
------------------------------------------------------------------------------
(* The steps of the watcher.                                                 *)

LEMMA FileSize ==
  ASSUME Shape, NEW f \in Inodes
  PROVE  Len(lines[f]) \in 0 .. 2 * MaxLines
<1>1. lines[f] \in Seq(Pieces) /\ written \in 0 .. MaxLines
  BY DEF Shape, TypeOK
<1>2. Len(lines[f]) \in Nat
  BY <1>1
<1>3. CASE Len(lines[f]) # 0
  <2>1. Len(lines[f]) \in 1 .. Len(lines[f])
    BY <1>2, <1>3
  <2>2. LET q == lines[f][Len(lines[f])]
        IN  q \in Pieces /\ Len(lines[f]) <= Order(q) /\ Order(q) <= 2 * written
    BY <1>1, <2>1 DEF Shape, FilesOrdered, Past
  <2>3. PICK q \in Pieces : Len(lines[f]) <= Order(q) /\ Order(q) <= 2 * written
    BY <2>2
  <2>4. Order(q) \in Nat
    BY Orders
  <2>5. QED
    BY <1>1, <1>2, <2>3, <2>4
<1>4. QED
  BY <1>2, <1>3

\* What one call of readNewLines does.
Read(f, t) ==
  /\ entries' = entries \o t
  /\ f = 0 => t = << >> /\ lastOffset' = lastOffset
  /\ \A k \in 1 .. Len(t) :
       f # 0 /\ \E i \in 1 .. Len(lines[f]) : i > lastOffset /\ t[k] = lines[f][i]
  /\ f # 0 /\ LongLines = {} =>
       /\ lastOffset' >= lastOffset /\ lastOffset' >= Len(lines[f])
       /\ lastOffset <= Len(lines[f]) => lastOffset' = Len(lines[f])
       /\ \A i \in 1 .. Len(lines[f]) :
            i > lastOffset /\ (lines[f][i] > 0 \/ i = Len(lines[f])) =>
              lines[f][i] \in Elems(t)

LEMMA ReadIs ==
  ASSUME Shape, NEW f \in Inodes \cup {0}, ReadNewLines(f)
  PROVE  /\ lastOffset' \in 0 .. 2 * MaxLines
         /\ \E t \in Seq(Pieces) : Read(f, t) /\ Ascends(t)
<1>1. lastOffset \in 0 .. 2 * MaxLines /\ entries \in Seq(Pieces)
      /\ lines \in [Inodes -> Seq(Pieces)]
  BY DEF Shape, TypeOK
<1>2. CASE f = 0
  <2>1. entries' = entries /\ lastOffset' = lastOffset
    BY <1>2 DEF ReadNewLines
  <2>2. << >> \in Seq(Pieces) /\ entries \o << >> = entries /\ Len(<< >>) = 0
    BY <1>1
  <2>3. Ascends(<< >>)
    BY DEF Ascends
  <2>4. Read(f, << >>)
    BY <1>2, <2>1, <2>2 DEF Read
  <2>5. QED
    BY <1>1, <2>1, <2>2, <2>3, <2>4
<1>3. CASE f # 0
  <2> DEFINE s == Unread(f, lastOffset)
             t == Scanned(s)
             l == lines[f]
  <2>1. f \in Inodes /\ l \in Seq(Pieces) /\ Len(l) \in 0 .. 2 * MaxLines
        /\ lastOffset \in Nat
    BY <1>1, <1>3, FileSize
  <2>2. /\ s \in Seq(Pieces)
        /\ Len(s) = IF lastOffset <= Len(l) THEN Len(l) - lastOffset ELSE 0
        /\ \A i \in 1 .. Len(s) : s[i] = l[lastOffset + i] /\ lastOffset + i \in 1 .. Len(l)
    BY <2>1, UnreadIs
  <2> HIDE DEF s
  <2>3. /\ t \in Seq(Pieces)
        /\ \A k \in 1 .. Len(t) : \E i \in 1 .. Len(s) : t[k] = s[i]
        /\ Ascends(s) => Ascends(t)
        /\ LongLines = {} =>
             /\ ~ TooLong(s)
             /\ \A i \in 1 .. Len(s) : s[i] > 0 \/ i = Len(s) => s[i] \in Elems(t)
    BY <2>2, ScannedIs
  <2>4. entries' = entries \o t
        /\ lastOffset' = IF TooLong(s) THEN lastOffset ELSE lastOffset + Len(s)
    BY <1>3 DEF ReadNewLines, s
  <2> HIDE DEF t, l
  <2>5. Ascends(l)
    BY <2>1 DEF Shape, FilesOrdered, l
  <2>6. Ascends(s)
    <3>1. ASSUME NEW i \in 1 .. Len(s), NEW j \in 1 .. Len(s), i < j
          PROVE  Order(s[i]) < Order(s[j])
      <4>1. lastOffset + i < lastOffset + j
        BY <1>1, <2>2, <3>1
      <4>2. Order(l[lastOffset + i]) < Order(l[lastOffset + j])
        BY <2>2, <2>5, <4>1 DEF Ascends
      <4>3. QED
        BY <2>2, <4>2
    <3>2. QED
      BY <3>1 DEF Ascends
  <2>7. \A k \in 1 .. Len(t) : \E i \in 1 .. Len(l) : i > lastOffset /\ t[k] = l[i]
    <3>1. ASSUME NEW k \in 1 .. Len(t)
          PROVE  \E i \in 1 .. Len(l) : i > lastOffset /\ t[k] = l[i]
      <4>1. PICK i \in 1 .. Len(s) : t[k] = s[i]
        BY <2>3
      <4>2. lastOffset + i > lastOffset
        BY <1>1, <2>2, <4>1
      <4>3. lastOffset + i \in 1 .. Len(l) /\ t[k] = l[lastOffset + i]
        BY <2>2, <4>1
      <4>4. QED
        BY <4>2, <4>3
    <3>2. QED
      BY <3>1
  <2>8. ASSUME LongLines = {}
        PROVE  /\ lastOffset' >= lastOffset /\ lastOffset' >= Len(l)
               /\ lastOffset <= Len(l) => lastOffset' = Len(l)
               /\ \A i \in 1 .. Len(l) :
                    i > lastOffset /\ (l[i] > 0 \/ i = Len(l)) => l[i] \in Elems(t)
    <3>1. lastOffset' = lastOffset + Len(s)
      BY <2>3, <2>4, <2>8
    <3>2. ASSUME NEW i \in 1 .. Len(l), i > lastOffset, l[i] > 0 \/ i = Len(l)
          PROVE  l[i] \in Elems(t)
      <4>1. PICK j \in Nat : j = i - lastOffset
        BY <1>1, <2>1, <3>2
      <4>2. j \in 1 .. Len(s) /\ lastOffset + j = i
        BY <1>1, <2>1, <2>2, <3>2, <4>1
      <4>3. s[j] = l[i]
        BY <2>2, <4>2
      <4>4. i = Len(l) => j = Len(s)
        BY <1>1, <2>1, <2>2, <3>2, <4>1
      <4>5. QED
        BY <2>3, <2>8, <3>2, <4>2, <4>3, <4>4
    <3>3. QED
      BY <1>1, <2>1, <2>2, <3>1, <3>2
  <2>9. lastOffset' \in 0 .. 2 * MaxLines
    BY <1>1, <2>1, <2>2, <2>4
  <2>10. Read(f, t)
    BY <1>3, <2>4, <2>7, <2>8 DEF Read, l
  <2>11. QED
    BY <2>3, <2>6, <2>9, <2>10
<1>4. QED
  BY <1>2, <1>3

\* The entries after a read: those before, and pieces of the file.
LEMMA ReadEntries ==
  ASSUME Shape, NEW f \in Inodes \cup {0}, NEW t \in Seq(Pieces), Read(f, t)
  PROVE  /\ entries' \in Seq(Pieces) /\ Len(entries') = Len(entries) + Len(t)
         /\ \A k \in 1 .. Len(entries) : entries'[k] = entries[k]
         /\ \A k \in 1 .. Len(entries') :
              k \notin 1 .. Len(entries) => /\ k - Len(entries) \in 1 .. Len(t)
                                            /\ entries'[k] = t[k - Len(entries)]
         /\ Elems(entries) \subseteq Elems(entries') /\ Elems(t) \subseteq Elems(entries')
         /\ \A k \in 1 .. Len(entries') : Past(entries'[k])
<1> DEFINE e == entries \o t
           n == Len(entries)
<1>1. entries \in Seq(Pieces) /\ lines \in [Inodes -> Seq(Pieces)]
  BY DEF Shape, TypeOK
<1>2. entries' = e
  BY DEF Read
<1>3. /\ e \in Seq(Pieces) /\ n \in Nat /\ Len(t) \in Nat /\ Len(e) = n + Len(t)
      /\ \A k \in 1 .. n : e[k] = entries[k]
      /\ \A k \in 1 .. Len(t) : e[n + k] = t[k]
  BY <1>1
<1> HIDE DEF e, n
<1>4. ASSUME NEW k \in 1 .. Len(e), k \notin 1 .. n
      PROVE  k - n \in 1 .. Len(t) /\ e[k] = t[k - n]
  <2>1. k - n \in 1 .. Len(t) /\ n + (k - n) = k
    BY <1>3, <1>4
  <2>2. e[n + (k - n)] = t[k - n]
    BY <1>3, <2>1
  <2>3. QED
    BY <2>1, <2>2
<1>5. Elems(entries) \subseteq Elems(e)
  <2>1. \A k \in 1 .. n : k \in 1 .. Len(e)
    BY <1>3
  <2>2. QED
    BY <1>3, <2>1 DEF Elems, n
<1>6. Elems(t) \subseteq Elems(e)
  <2>1. \A k \in 1 .. Len(t) : n + k \in 1 .. Len(e)
    BY <1>3
  <2>2. QED
    BY <1>3, <2>1 DEF Elems
<1>7. ASSUME NEW k \in 1 .. Len(e) PROVE Past(e[k])
  <2>1. CASE k \in 1 .. n
    BY <1>3, <2>1 DEF Shape, EntriesPast, n
  <2>2. CASE k \notin 1 .. n
    <3>1. f # 0 /\ \E i \in 1 .. Len(lines[f]) : t[k - n] = lines[f][i]
      BY <1>4, <2>2 DEF Read
    <3>2. QED
      BY <1>4, <2>2, <3>1 DEF Shape, FilesOrdered
  <2>3. QED
    BY <2>1, <2>2
<1>8. QED
  BY <1>2, <1>3, <1>4, <1>5, <1>6, <1>7 DEF n

LEMMA WatcherShape ==
  ASSUME Shape, UNCHANGED envVars,
         events' \in Seq(EventKinds), Len(events') <= QueueCap,
         pc' \in PCs, file' \in {file, path, 0}, lastOffset' \in 0 .. 2 * MaxLines,
         entries' \in Seq(Pieces), \A k \in 1 .. Len(entries') : Past(entries'[k]),
         fails' \in 0 .. MaxFails, mark' \in 0 .. MaxLines, StartsQuiet'
  PROVE  Shape'
<1>1. UNCHANGED <<faults, lines, path, brokerFile, used, written>>
  BY DEF envVars
<1>2. file' \in Inodes \cup {0}
  BY DEF Shape, TypeOK
<1>3. TypeOK'
  BY <1>1, <1>2 DEF Shape, TypeOK
<1>4. Unfinished' = Unfinished
  BY <1>1 DEF Unfinished
<1>5. FilesOrdered' /\ FilesWhole'
  <2>1. FilesOrdered'
    BY <1>1, <1>4 DEF Shape, FilesOrdered, Past
  <2>2. FilesWhole'
    BY <1>1 DEF Shape, FilesWhole
  <2>3. QED
    BY <2>1, <2>2
<1>6. Links'
  <2>1. path \in {0, used} /\ brokerFile <= used /\ file <= used /\ used \in Nat
    BY DEF Shape, Links, TypeOK
  <2>2. QED
    BY <1>1, <2>1 DEF Links
<1>7. EntriesPast'
  BY <1>1, <1>4 DEF EntriesPast, Past
<1>8. QED
  BY <1>3, <1>5, <1>6, <1>7 DEF Shape

\* Opening a file: the log, or no other than the one that is open.
LEMMA Opens ==
  ASSUME Shape, OpenCurrentFile
  PROVE  /\ file' \in {file, path} /\ file' \in Inodes \cup {0} /\ fails' \in 0 .. MaxFails
         /\ file' # file => path # 0
         /\ file' = 0 => file = 0
<1>1. file \in Inodes \cup {0} /\ path \in Inodes \cup {0} /\ fails \in 0 .. MaxFails
  BY DEF Shape, TypeOK
<1>2. CASE path # 0 /\ file' = path /\ UNCHANGED fails
  BY <1>1, <1>2
<1>3. CASE path = 0 /\ UNCHANGED <<file, fails>>
  BY <1>1, <1>3
<1>4. CASE OpenFails /\ UNCHANGED file
  BY <1>1, <1>4 DEF OpenFails
<1>5. QED
  BY <1>2, <1>3, <1>4 DEF OpenCurrentFile

\* A step that reads: which file, and what becomes of the entries.
LEMMA ReadShape ==
  ASSUME Shape, NEW f \in Inodes \cup {0}, f \in {file, path}, file' = f, ReadNewLines(f),
         UNCHANGED <<envVars, pc, mark>>, Watching,
         events' \in Seq(EventKinds), Len(events') <= QueueCap, fails' \in 0 .. MaxFails
  PROVE  /\ Shape'
         /\ \E t \in Seq(Pieces) : Read(f, t) /\ Ascends(t)
<1>1. lastOffset' \in 0 .. 2 * MaxLines /\ \E t \in Seq(Pieces) : Read(f, t) /\ Ascends(t)
  BY ReadIs
<1>2. PICK t \in Seq(Pieces) : Read(f, t) /\ Ascends(t)
  BY <1>1
<1>3. entries' \in Seq(Pieces) /\ \A k \in 1 .. Len(entries') : Past(entries'[k])
  BY <1>2, ReadEntries
<1>4. pc' \in PCs /\ mark' \in 0 .. MaxLines
  BY DEF Shape, TypeOK
<1>5. StartsQuiet'
  BY DEF Watching, StartsQuiet, Starting
<1>6. Shape'
  BY <1>1, <1>3, <1>4, <1>5, WatcherShape
<1>7. QED
  BY <1>1, <1>6

LEMMA Dequeues ==
  ASSUME Shape, NEW e, Received(e)
  PROVE  /\ events # << >> /\ Head(events) = e /\ events' = Tail(events) /\ Watching
         /\ events' \in Seq(EventKinds) /\ Len(events') <= QueueCap
         /\ Len(events) \in Nat /\ Len(events) >= 1 /\ Len(events') = Len(events) - 1
         /\ events[1] = e
         /\ \A k \in 1 .. Len(events') : k + 1 \in 1 .. Len(events) /\ events'[k] = events[k + 1]
<1>1. events \in Seq(EventKinds) /\ Len(events) <= QueueCap
  BY DEF Shape, TypeOK
<1>2. events # << >> /\ Head(events) = e /\ events' = Tail(events) /\ Watching
  BY DEF Received
<1>3. QED
  BY <1>1, <1>2

\* A step that reads: OnWrite, OnCreate or OnTick.
Reading(f) ==
  /\ f \in {file, path} /\ file' = f /\ ReadNewLines(f) /\ Watching
  /\ UNCHANGED <<envVars, pc, mark>>
  /\ fails' \in 0 .. MaxFails
  /\ events' \in Seq(EventKinds) /\ Len(events') <= QueueCap
  /\ \/ Received("write") /\ f = file
     \/ Received("create") /\ (f # file => path # 0) /\ (f = 0 => file = 0)
     \/ UNCHANGED events /\ IF file # 0 THEN f = file ELSE f # 0 => path # 0

LEMMA Readings ==
  ASSUME Shape, OnWrite \/ OnCreate \/ OnTick
  PROVE  \E f \in Inodes \cup {0} : Reading(f)
<1>1. /\ file \in Inodes \cup {0} /\ fails \in 0 .. MaxFails
      /\ events \in Seq(EventKinds) /\ Len(events) <= QueueCap
  BY DEF Shape, TypeOK
<1>2. CASE OnWrite
  <2>1. Received("write") /\ ReadNewLines(file) /\ UNCHANGED <<envVars, pc, file, fails, mark>>
    BY <1>2 DEF OnWrite
  <2>2. events' \in Seq(EventKinds) /\ Len(events') <= QueueCap /\ Watching
    BY <2>1, Dequeues
  <2>3. Reading(file)
    BY <1>1, <2>1, <2>2 DEF Reading
  <2>4. QED
    BY <1>1, <2>3
<1>3. CASE OnCreate
  <2>1. /\ Received("create") /\ OpenCurrentFile /\ ReadNewLines(file')
        /\ UNCHANGED <<envVars, pc, mark>>
    BY <1>3 DEF OnCreate
  <2>2. events' \in Seq(EventKinds) /\ Len(events') <= QueueCap /\ Watching
    BY <2>1, Dequeues
  <2>3. /\ file' \in {file, path} /\ file' \in Inodes \cup {0} /\ fails' \in 0 .. MaxFails
        /\ file' # file => path # 0
        /\ file' = 0 => file = 0
    BY <2>1, Opens
  <2>4. PICK f \in Inodes \cup {0} : f = file'
    BY <2>3
  <2>5. ReadNewLines(f)
    BY <2>1, <2>4
  <2>6. Reading(f)
    BY <2>1, <2>2, <2>3, <2>4, <2>5 DEF Reading
  <2>7. QED
    BY <2>6
<1>4. CASE OnTick
  <2>1. /\ Watching /\ EnsureOpen /\ ReadNewLines(file')
        /\ UNCHANGED <<envVars, events, pc, mark>>
    BY <1>4 DEF OnTick
  <2>2. /\ file' \in {file, path} /\ file' \in Inodes \cup {0} /\ fails' \in 0 .. MaxFails
        /\ IF file # 0 THEN file' = file ELSE file' # 0 => path # 0
    <3>1. CASE file # 0
      BY <1>1, <2>1, <3>1 DEF EnsureOpen
    <3>2. CASE file = 0
      <4>1. OpenCurrentFile
        BY <2>1, <3>2 DEF EnsureOpen
      <4>2. QED
        BY <3>2, <4>1, Opens
    <3>3. QED
      BY <3>1, <3>2
  <2>3. PICK f \in Inodes \cup {0} : f = file'
    BY <2>2
  <2>4. ReadNewLines(f)
    BY <2>1, <2>3
  <2>5. Reading(f)
    BY <1>1, <2>1, <2>2, <2>3, <2>4 DEF Reading
  <2>6. QED
    BY <2>5
<1>5. QED
  BY <1>2, <1>3, <1>4

LEMMA BootstrapShape ==
  ASSUME Shape, Bootstrap
  PROVE  Shape' /\ (Ascends(entries) => Ascends(entries'))
<1>1. /\ lines \in [Inodes -> Seq(Pieces)] /\ path \in Inodes \cup {0} /\ pc = "bootstrap"
      /\ entries \in Seq(Pieces) /\ fails \in 0 .. MaxFails /\ mark \in 0 .. MaxLines
      /\ events \in Seq(EventKinds) /\ Len(events) <= QueueCap
      /\ lastOffset \in 0 .. 2 * MaxLines
  BY DEF Shape, TypeOK, Bootstrap
<1>2. pc' = "open" /\ UNCHANGED <<envVars, events, file, lastOffset, mark>>
  BY DEF Bootstrap
<1>3. fails' \in 0 .. MaxFails
      /\ (entries' = entries \/ (path # 0 /\ entries' = LastLines(Tokens(lines[path]))))
  BY <1>1 DEF Bootstrap, OpenFails
<1>4. entries' \in Seq(Pieces) /\ (\A k \in 1 .. Len(entries') : Past(entries'[k]))
      /\ (Ascends(entries) => Ascends(entries'))
  <2>1. CASE entries' = entries
    BY <1>1, <2>1 DEF Shape, EntriesPast
  <2>2. CASE path # 0 /\ entries' = LastLines(Tokens(lines[path]))
    <3> DEFINE l == lines[path]
               e == LastLines(Tokens(l))
    <3>1. l \in Seq(Pieces) /\ path \in Inodes
      BY <1>1, <2>2
    <3>2. Ascends(l) /\ \A i \in 1 .. Len(l) : Past(l[i])
      BY <3>1 DEF Shape, FilesOrdered
    <3> HIDE DEF l
    <3>3. /\ e \in Seq(Pieces)
          /\ \A k \in 1 .. Len(e) : \E i \in 1 .. Len(l) : e[k] = l[i]
          /\ Ascends(l) => Ascends(e)
      BY <3>1, LastLinesIs
    <3> HIDE DEF e
    <3>4. entries' = e
      BY <2>2 DEF e, l
    <3>5. \A k \in 1 .. Len(e) : Past(e[k])
      BY <3>2, <3>3
    <3>6. QED
      BY <3>2, <3>3, <3>4, <3>5
  <2>3. QED
    BY <1>3, <2>1, <2>2
<1>5. StartsQuiet'
  BY <1>1, <1>2 DEF Shape, StartsQuiet, Starting
<1>6. Shape'
  BY <1>1, <1>2, <1>3, <1>4, <1>5, WatcherShape DEF PCs
<1>7. QED
  BY <1>4, <1>6

LEMMA OtherShape ==
  ASSUME Shape, OpenTail \/ AddWatch \/ OnGone \/ OnCancel
  PROVE  Shape'
<1>1. /\ lines \in [Inodes -> Seq(Pieces)] /\ path \in Inodes \cup {0}
      /\ entries \in Seq(Pieces) /\ fails \in 0 .. MaxFails /\ mark \in 0 .. MaxLines
      /\ events \in Seq(EventKinds) /\ Len(events) <= QueueCap /\ written \in 0 .. MaxLines
      /\ lastOffset \in 0 .. 2 * MaxLines
  BY DEF Shape, TypeOK
<1>2. \A k \in 1 .. Len(entries) : Past(entries[k])
  BY DEF Shape, EntriesPast
<1>3. CASE OpenTail
  <2>1. /\ pc = "open" /\ pc' \in {"watch", "stopped"} /\ file' \in {file, path}
        /\ UNCHANGED <<envVars, events, entries, mark>> /\ fails' \in 0 .. MaxFails
        /\ lastOffset' = lastOffset \/ (path # 0 /\ lastOffset' = Len(lines[path]))
    BY <1>1, <1>3 DEF OpenTail, OpenFails
  <2>2. lastOffset' \in 0 .. 2 * MaxLines
    BY <1>1, <2>1, FileSize
  <2>3. StartsQuiet'
    BY <2>1 DEF Shape, StartsQuiet, Starting
  <2>4. QED
    BY <1>1, <1>2, <2>1, <2>2, <2>3, WatcherShape DEF PCs
<1>4. CASE AddWatch
  <2>1. /\ pc' \in {"loop", "stopped"} /\ mark' \in 0 .. MaxLines /\ fails' \in 0 .. MaxFails
        /\ UNCHANGED <<envVars, events, file, lastOffset, entries>>
    BY <1>1, <1>4 DEF AddWatch, OpenFails
  <2>2. StartsQuiet'
    BY <2>1 DEF StartsQuiet, Starting
  <2>3. QED
    BY <1>1, <1>2, <2>1, <2>2, WatcherShape DEF PCs
<1>5. CASE OnGone
  <2>1. /\ Received("gone") /\ file' = 0 /\ lastOffset' = 0
        /\ UNCHANGED <<envVars, pc, entries, fails, mark>>
    BY <1>5 DEF OnGone
  <2>2. events' \in Seq(EventKinds) /\ Len(events') <= QueueCap /\ pc = "loop"
    BY <2>1, Dequeues DEF Watching
  <2>3. StartsQuiet'
    BY <2>1, <2>2 DEF StartsQuiet, Starting
  <2>4. QED
    BY <1>1, <1>2, <2>1, <2>2, <2>3, WatcherShape DEF PCs
<1>6. CASE OnCancel
  <2>1. /\ pc' = "stopped" /\ file' = 0
        /\ UNCHANGED <<envVars, events, lastOffset, entries, fails, mark>>
    BY <1>6 DEF OnCancel
  <2>2. StartsQuiet'
    BY <2>1 DEF StartsQuiet, Starting
  <2>3. QED
    BY <1>1, <1>2, <2>1, <2>2, WatcherShape DEF PCs
<1>7. QED
  BY <1>3, <1>4, <1>5, <1>6

LEMMA KeepsShape ==
  ASSUME Shape, Next PROVE Shape'
<1>1. CASE WriteLine \/ WriteStart \/ WriteRest
  <2>1. PICK p \in Pieces : NextPiece(p) /\ Write(p)
    BY <1>1, Writes DEF Shape
  <2>2. QED
    BY <2>1, WriteShape
<1>2. CASE Rotate \/ CreateFile \/ BrokerReopens \/ Replace
  BY <1>2, LinkShape
<1>3. CASE Truncate
  BY <1>3, TruncateShape
<1>4. CASE Bootstrap
  BY <1>4, BootstrapShape
<1>5. CASE OpenTail \/ AddWatch \/ OnGone \/ OnCancel
  BY <1>5, OtherShape
<1>6. CASE OnWrite \/ OnCreate \/ OnTick
  <2>1. PICK f \in Inodes \cup {0} : Reading(f)
    BY <1>6, Readings
  <2>2. QED
    BY <2>1, ReadShape DEF Reading
<1>7. QED
  BY <1>1, <1>2, <1>3, <1>4, <1>5, <1>6 DEF Next, Environment, Startup, OnEvent

LEMMA ShapeStutters ==
  ASSUME Shape, UNCHANGED vars PROVE Shape'
BY DEF Shape, TypeOK, FilesOrdered, FilesWhole, Links, StartsQuiet, Starting, EntriesPast,
       Past, Unfinished, vars, envVars

\* Every state is well typed: of each file at most two pieces for each line are
\* there, lastOffset never exceeds that, although it outlives the file it was
\* taken from (watcher.go:99-111), and a scan yields entries only of pieces that
\* were written (watcher.go:188-217).
THEOREM TypeCorrect == Spec => []TypeOK
<1>1. Init => Shape
  BY InitShape
<1>2. Shape /\ [Next]_vars => Shape'
  BY KeepsShape, ShapeStutters
<1>3. Shape => TypeOK
  BY DEF Shape
<1>4. QED
  BY <1>1, <1>2, <1>3, PTL DEF Spec
------------------------------------------------------------------------------
(* The order of the entries.                                                 *)

\* New events do not overtake the one of a rotation.
LEMMA WaitsOn ==
  ASSUME Shape, GoneWaits, UNCHANGED <<pc, file>>,
         file # 0 => path' = path \/ path' # file,
         NEW e \in {"write", "create"},
         events' = events \/ events' = Append(events, e)
  PROVE  GoneWaits'
<1>1. events \in Seq(EventKinds) /\ Len(events) \in Nat
  BY DEF Shape, TypeOK
<1>2. ASSUME Watching, NEW k \in 1 .. Len(events'), events'[k] = "gone"
      PROVE  /\ file # 0 /\ file # path'
             /\ \A j \in 1 .. k - 1 : events'[j] = "write"
  <2>1. k \in 1 .. Len(events) /\ \A j \in 1 .. k : events'[j] = events[j]
    <3>1. CASE events' = events
      BY <1>2, <3>1
    <3>2. CASE events' = Append(events, e)
      <4>1. Len(events') = Len(events) + 1 /\ events'[Len(events) + 1] = e
            /\ \A j \in 1 .. Len(events) : events'[j] = events[j]
        BY <1>1, <3>2
      <4>2. k # Len(events) + 1
        BY <1>2, <4>1
      <4>3. QED
        BY <1>1, <4>1, <4>2
    <3>3. QED
      BY <3>1, <3>2
  <2>2. events[k] = "gone"
    BY <1>2, <2>1
  <2>3. /\ file # 0 /\ file # path
        /\ \A j \in 1 .. k - 1 : events[j] = "write"
    BY <1>2, <2>1, <2>2 DEF GoneWaits
  <2>4. QED
    BY <1>1, <2>1, <2>3
<1>3. QED
  BY <1>2 DEF GoneWaits, Watching

Ordered == Ascends(entries) /\ Fresh /\ GoneWaits

LEMMA WriteOrdered ==
  ASSUME Shape, Ordered, NEW p \in Pieces, NextPiece(p), Write(p)
  PROVE  Ordered'
<1> DEFINE b == brokerFile
           n == Len(lines[b])
<1>1. /\ UNCHANGED <<faults, path, brokerFile, used>>
      /\ UNCHANGED <<pc, file, lastOffset, entries, fails, mark>>
      /\ (Notify("write") \/ UNCHANGED events)
  BY DEF Write, watcherVars
<1>2. b \in Inodes /\ lines' = [lines EXCEPT ![b] = Append(@, p)]
  BY WriteShape
<1>3. /\ lines \in [Inodes -> Seq(Pieces)] /\ entries \in Seq(Pieces)
      /\ events \in Seq(EventKinds) /\ Len(events) <= QueueCap
  BY DEF Shape, TypeOK
<1>4. \A k \in 1 .. Len(entries) : Order(entries[k]) < Order(p)
  BY <1>3, NextPieceIs DEF Shape, EntriesPast
<1>5. Ascends(entries')
  BY <1>1 DEF Ordered
<1>6. ASSUME pc \in {"watch", "loop"}, NEW f \in Inodes, NEW i \in 1 .. Len(lines'[f]),
             Ahead(f, i), NEW k \in 1 .. Len(entries)
      PROVE  Order(entries[k]) < Order(lines'[f][i])
  <2>1. CASE i \in 1 .. Len(lines[f]) /\ lines'[f][i] = lines[f][i]
    BY <1>6, <2>1 DEF Ordered, Fresh
  <2>2. CASE lines'[f][i] = p
    BY <1>4, <2>2
  <2>3. CASE f # b
    <3>1. lines'[f] = lines[f]
      BY <1>2, <1>3, <2>3
    <3>2. QED
      BY <2>1, <3>1
  <2>4. CASE f = b
    <3>1. lines'[f] = Append(lines[f], p) /\ lines[f] \in Seq(Pieces)
      BY <1>2, <1>3, <2>4
    <3>2. CASE i = Len(lines[f]) + 1
      BY <2>2, <3>1, <3>2
    <3>3. CASE i # Len(lines[f]) + 1
      BY <2>1, <3>1, <3>3
    <3>4. QED
      BY <3>2, <3>3
  <2>5. QED
    BY <2>3, <2>4
<1>7. Fresh'
  BY <1>1, <1>6 DEF Fresh, Ahead
<1>8. GoneWaits'
  <2>1. events' = events \/ events' = Append(events, "write")
    BY <1>1, <1>3, Notified DEF EventKinds
  <2>2. QED
    BY <1>1, <2>1, WaitsOn DEF Ordered
<1>9. QED
  BY <1>5, <1>7, <1>8 DEF Ordered

\* Moving, creating and truncating files puts nothing ahead of what was there.
LEMMA LinkOrdered ==
  ASSUME Shape, Calm, Ordered, Rotate \/ CreateFile \/ BrokerReopens \/ Replace \/ Truncate
  PROVE  Ordered'
<1>1. /\ lines \in [Inodes -> Seq(Pieces)] /\ entries \in Seq(Pieces)
      /\ events \in Seq(EventKinds) /\ Len(events) <= QueueCap /\ Len(events) \in Nat
      /\ used \in 0 .. MaxFiles /\ brokerFile <= used /\ file <= used
      /\ file \in Inodes \cup {0} /\ path \in Inodes \cup {0}
      /\ brokerFile \in Inodes \cup {0}
  BY DEF Shape, TypeOK, Links
<1>2. UNCHANGED <<pc, file, lastOffset, entries, mark>>
  BY DEF Rotate, CreateFile, BrokerReopens, Replace, Truncate, watcherVars
<1>3. \A f \in Inodes : lines'[f] \in {lines[f], << >>}
  BY LinkShape, TruncateShape
<1>4. path' = path \/ path' = 0 \/ path' = used + 1
  BY DEF Rotate, CreateFile, BrokerReopens, Replace, Truncate, LinkNewFile
<1>5. \A f \in Inodes : f > used => lines[f] = << >>
  <2>1. \A f \in Inodes : f > used => f > brokerFile
    BY <1>1 DEF Inodes
  <2>2. QED
    BY <2>1 DEF Shape, FilesOrdered
<1>6. ASSUME pc \in {"watch", "loop"}, NEW f \in Inodes, NEW i \in 1 .. Len(lines'[f]),
             Ahead(f, i)', NEW k \in 1 .. Len(entries)
      PROVE  Order(entries[k]) < Order(lines'[f][i])
  <2>1. lines'[f] = lines[f]
    BY <1>3
  <2>2. f # used + 1 /\ f # 0
    <3>1. f = used + 1 => f > used
      BY <1>1 DEF Inodes
    <3>2. QED
      BY <1>5, <2>1, <3>1 DEF Inodes
  <2>3. Ahead(f, i)
    BY <1>2, <1>4, <1>6, <2>2 DEF Ahead
  <2>4. QED
    BY <1>6, <2>1, <2>3 DEF Ordered, Fresh
<1>7. Fresh'
  BY <1>2, <1>6 DEF Fresh
<1>8. GoneWaits'
  <2>1. file # 0 => path' = path \/ path' # file
    BY <1>1, <1>4
  <2>2. CASE BrokerReopens \/ CreateFile \/ Replace \/ Truncate
    <3>1. UNCHANGED events \/ \E e \in {"write", "create"} : Notify(e)
      BY <2>2 DEF BrokerReopens, CreateFile, Replace, Truncate, LinkNewFile
    <3>2. PICK e \in {"write", "create"} : events' = events \/ events' = Append(events, e)
      BY <1>1, <3>1, Notified DEF EventKinds
    <3>3. QED
      BY <1>2, <2>1, <3>2, WaitsOn DEF Ordered
  <2>3. CASE Rotate
    <3>1. CASE ~ Watching
      BY <1>2, <3>1 DEF GoneWaits, Watching
    <3>2. CASE Watching
      <4>1. file = path /\ path # 0 /\ path' = 0 /\ Elems(events) \subseteq {"write"}
            /\ Notify("gone")
        BY <2>3, <3>2 DEF Rotate, Settled, Calm
      <4>2. events' = events \/ events' = Append(events, "gone")
        BY <1>1, <4>1, Notified DEF EventKinds
      <4>3. \A k \in 1 .. Len(events) : events[k] = "write"
        BY <4>1 DEF Elems
      <4>4. ASSUME NEW k \in 1 .. Len(events'), events'[k] = "gone"
            PROVE  \A j \in 1 .. k - 1 : events'[j] = "write"
        <5>1. CASE events' = events
          BY <1>1, <4>3, <5>1
        <5>2. CASE events' = Append(events, "gone")
          <6>1. Len(events') = Len(events) + 1
                /\ \A j \in 1 .. Len(events) : events'[j] = events[j]
            BY <1>1, <5>2
          <6>2. \A j \in 1 .. k - 1 : j \in 1 .. Len(events)
            BY <1>1, <6>1
          <6>3. QED
            BY <4>3, <6>1, <6>2
        <5>3. QED
          BY <4>2, <5>1, <5>2
      <4>5. QED
        BY <1>2, <4>1, <4>4 DEF GoneWaits
    <3>3. QED
      BY <3>1, <3>2
  <2>4. QED
    BY <2>2, <2>3
<1>9. QED
  BY <1>2, <1>7, <1>8 DEF Ordered

\* A read takes only what comes after all the entries.
LEMMA ReadOrdered ==
  ASSUME Shape, Calm, Ordered, NEW f \in Inodes \cup {0}, Reading(f)
  PROVE  Ordered'
<1> DEFINE n == Len(entries)
<1>1. /\ lines \in [Inodes -> Seq(Pieces)] /\ entries \in Seq(Pieces)
      /\ events \in Seq(EventKinds) /\ Len(events) \in Nat
      /\ used \in 0 .. MaxFiles /\ brokerFile <= used /\ file <= used /\ path \in {0, used}
      /\ file \in Inodes \cup {0} /\ brokerFile \in Inodes \cup {0}
      /\ lastOffset \in Nat
  BY DEF Shape, TypeOK, Links
<1>2. /\ UNCHANGED <<lines, path, pc, mark>> /\ file' = f /\ Watching /\ f \in {file, path}
      /\ lastOffset' \in Nat
  BY ReadIs DEF Reading, envVars
<1>3. PICK t \in Seq(Pieces) : Read(f, t) /\ Ascends(t)
  BY ReadShape DEF Reading
<1>4. /\ Len(entries') = n + Len(t)
      /\ \A k \in 1 .. n : entries'[k] = entries[k]
      /\ \A k \in 1 .. Len(entries') :
           k \notin 1 .. n => k - n \in 1 .. Len(t) /\ entries'[k] = t[k - n]
  BY <1>3, ReadEntries
<1>5. n \in Nat /\ Len(t) \in Nat
  BY <1>1
<1> HIDE DEF n
<1>6. ASSUME NEW g \in Inodes, NEW i \in 1 .. Len(lines[g]),
             IF f = 0 THEN g = path ELSE g > f \/ (g = f /\ i > lastOffset)
      PROVE  Ahead(g, i)
  <2>1. CASE f = file
    BY <1>6, <2>1 DEF Ahead
  <2>2. CASE f # file
    <3>1. path # 0
      BY <1>2, <2>2 DEF Reading
    <3>2. f = path /\ f = used /\ f # 0
      BY <1>1, <1>2, <2>2, <3>1
    <3>3. ~ (g > f)
      <4>1. g > f => g > brokerFile
        BY <1>1, <3>2 DEF Inodes
      <4>2. g > brokerFile => lines[g] = << >>
        BY DEF Shape, FilesOrdered
      <4>3. QED
        BY <4>1, <4>2
    <3>4. g = f
      BY <1>6, <3>2, <3>3
    <3>5. CASE file = 0
      BY <3>2, <3>4, <3>5 DEF Ahead
    <3>6. CASE file # 0
      <4>1. g > file
        BY <1>1, <2>2, <3>2, <3>4 DEF Inodes
      <4>2. QED
        BY <3>6, <4>1 DEF Ahead
    <3>7. QED
      BY <3>5, <3>6
  <2>3. QED
    BY <2>1, <2>2
<1>7. ASSUME NEW g \in Inodes, NEW i \in 1 .. Len(lines[g]),
             IF f = 0 THEN g = path ELSE g > f \/ (g = f /\ i > lastOffset),
             NEW k \in 1 .. n
      PROVE  Order(entries[k]) < Order(lines[g][i])
  <2>1. Ahead(g, i)
    BY <1>6, <1>7
  <2>2. QED
    BY <1>2, <2>1 DEF Ordered, Fresh, Watching, n
<1>8. ASSUME NEW k \in 1 .. Len(t)
      PROVE  f \in Inodes /\ \E i \in 1 .. Len(lines[f]) : i > lastOffset /\ t[k] = lines[f][i]
  BY <1>3 DEF Read
<1>9. Ascends(entries')
  <2>1. ASSUME NEW k \in 1 .. Len(entries'), NEW l \in 1 .. Len(entries'), k < l
        PROVE  Order(entries'[k]) < Order(entries'[l])
    <3>1. CASE l \in 1 .. n
      <4>1. k \in 1 .. n
        BY <1>4, <1>5, <2>1, <3>1
      <4>2. Order(entries[k]) < Order(entries[l])
        BY <2>1, <3>1, <4>1 DEF Ordered, Ascends, n
      <4>3. QED
        BY <1>4, <3>1, <4>1, <4>2
    <3>2. CASE l \notin 1 .. n /\ k \in 1 .. n
      <4>1. l - n \in 1 .. Len(t) /\ entries'[l] = t[l - n]
        BY <1>4, <3>2
      <4>2. f \in Inodes /\ \E i \in 1 .. Len(lines[f]) : i > lastOffset /\ t[l - n] = lines[f][i]
        BY <1>8, <4>1
      <4>3. PICK i \in 1 .. Len(lines[f]) : i > lastOffset /\ t[l - n] = lines[f][i]
        BY <4>2
      <4>4. Order(entries[k]) < Order(lines[f][i])
        BY <1>7, <3>2, <4>2, <4>3 DEF Inodes
      <4>5. QED
        BY <1>4, <3>2, <4>1, <4>3, <4>4
    <3>3. CASE l \notin 1 .. n /\ k \notin 1 .. n
      <4>1. /\ k - n \in 1 .. Len(t) /\ entries'[k] = t[k - n]
            /\ l - n \in 1 .. Len(t) /\ entries'[l] = t[l - n]
        BY <1>4, <3>3
      <4>2. k - n < l - n
        BY <1>4, <1>5, <2>1
      <4>3. QED
        BY <1>3, <4>1, <4>2 DEF Ascends
    <3>4. QED
      BY <3>1, <3>2, <3>3
  <2>2. QED
    BY <2>1 DEF Ascends
<1>10. Fresh'
  <2>1. ASSUME NEW g \in Inodes, NEW i \in 1 .. Len(lines[g]),
               IF f = 0 THEN g = path ELSE g > f \/ (g = f /\ i > lastOffset'),
               NEW k \in 1 .. Len(entries')
        PROVE  Order(entries'[k]) < Order(lines[g][i])
    <3>1. IF f = 0 THEN g = path ELSE g > f
      <4>1. CASE f # 0 /\ g = f
        <5>1. lastOffset' >= Len(lines[g]) /\ Len(lines[g]) \in Nat
          BY <1>1, <1>3, <4>1 DEF Read, Calm
        <5>2. ~ (i > lastOffset')
          BY <1>2, <5>1
        <5>3. QED
          BY <2>1, <4>1, <5>2
      <4>2. QED
        BY <2>1, <4>1
    <3>2. CASE k \in 1 .. n
      <4>1. Order(entries[k]) < Order(lines[g][i])
        BY <1>7, <3>1, <3>2
      <4>2. QED
        BY <1>4, <3>2, <4>1
    <3>3. CASE k \notin 1 .. n
      <4>1. k - n \in 1 .. Len(t) /\ entries'[k] = t[k - n]
        BY <1>4, <3>3
      <4>2. f \in Inodes /\ \E j \in 1 .. Len(lines[f]) : t[k - n] = lines[f][j]
        BY <1>8, <4>1
      <4>3. f < g
        BY <3>1, <4>2 DEF Inodes
      <4>4. \A j \in 1 .. Len(lines[f]) : Order(lines[f][j]) < Order(lines[g][i])
        BY <4>2, <4>3 DEF Shape, FilesOrdered
      <4>5. QED
        BY <4>1, <4>2, <4>4
    <3>4. QED
      BY <3>2, <3>3
  <2>2. QED
    BY <1>2, <2>1 DEF Fresh, Ahead
<1>11. GoneWaits'
  <2>1. CASE UNCHANGED events /\ IF file # 0 THEN f = file ELSE f # 0 => path # 0
    BY <1>2, <2>1 DEF Ordered, GoneWaits, Watching
  <2>2. CASE \E e : Received(e)
    <3>1. PICK e : Received(e)
      BY <2>2
    <3>2. /\ events[1] = e
          /\ Len(events') = Len(events) - 1 /\ Len(events) >= 1
          /\ \A k \in 1 .. Len(events') : k + 1 \in 1 .. Len(events) /\ events'[k] = events[k + 1]
      BY <3>1, Dequeues
    <3>3. ASSUME NEW k \in 1 .. Len(events'), events'[k] = "gone"
          PROVE  /\ f # 0 /\ f # path
                 /\ \A j \in 1 .. k - 1 : events'[j] = "write"
      <4>1. k + 1 \in 1 .. Len(events) /\ events[k + 1] = "gone"
        BY <3>2, <3>3
      <4>2. /\ file # 0 /\ file # path
            /\ \A j \in 1 .. k + 1 - 1 : events[j] = "write"
        BY <1>2, <4>1 DEF Ordered, GoneWaits
      <4>3. 1 \in 1 .. k + 1 - 1
        BY <1>1, <3>2
      <4>4. e = "write"
        BY <3>2, <4>2, <4>3
      <4>5. f = file
        BY <3>1, <4>4, <2>2 DEF Reading, Received
      <4>6. \A j \in 1 .. k - 1 : j + 1 \in 1 .. k + 1 - 1 /\ j \in 1 .. Len(events')
        BY <1>1, <3>2
      <4>7. QED
        BY <3>2, <4>2, <4>5, <4>6
    <3>4. QED
      BY <1>2, <3>3 DEF GoneWaits
  <2>3. QED
    BY <2>1, <2>2 DEF Reading
<1>12. QED
  BY <1>9, <1>10, <1>11 DEF Ordered

\* Opening the log at its end, watching the directory, and closing a file.
LEMMA OtherOrdered ==
  ASSUME Shape, Ordered, OpenTail \/ AddWatch \/ OnGone \/ OnCancel
  PROVE  Ordered'
<1>1. /\ lines \in [Inodes -> Seq(Pieces)] /\ used \in 0 .. MaxFiles
      /\ brokerFile <= used /\ file <= used /\ path \in {0, used}
      /\ file \in Inodes \cup {0} /\ brokerFile \in Inodes \cup {0}
      /\ events \in Seq(EventKinds) /\ Len(events) \in Nat
  BY DEF Shape, TypeOK, Links
<1>2. UNCHANGED <<lines, path, entries>>
  BY DEF OpenTail, AddWatch, OnGone, OnCancel, envVars
<1>3. Ascends(entries')
  BY <1>2 DEF Ordered
<1>4. \A f \in Inodes : f > used => lines[f] = << >>
  <2>1. \A f \in Inodes : f > used => f > brokerFile
    BY <1>1 DEF Inodes
  <2>2. QED
    BY <2>1 DEF Shape, FilesOrdered
<1>5. CASE OpenTail
  <2>1. pc = "open" /\ pc' \in {"watch", "stopped"}
    BY <1>5 DEF OpenTail
  <2>2. file = 0
    BY <2>1 DEF Shape, StartsQuiet
  <2>3. ASSUME pc' = "watch", NEW f \in Inodes, NEW i \in 1 .. Len(lines[f]) PROVE ~ Ahead(f, i)'
    <3>1. CASE path = 0
      <4>1. file' = 0
        BY <1>5, <2>2, <3>1, <2>3 DEF OpenTail
      <4>2. QED
        BY <1>2, <3>1, <4>1 DEF Ahead, Inodes
    <3>2. CASE path # 0
      <4>1. file' = path /\ lastOffset' = Len(lines[path]) /\ path = used /\ path \in Inodes
        BY <1>1, <1>5, <2>3, <3>2 DEF OpenTail, Inodes
      <4>2. ~ (f > path)
        BY <1>4, <4>1
      <4>3. f = path => ~ (i > Len(lines[path]))
        BY <1>1, <4>1
      <4>4. QED
        BY <3>2, <4>1, <4>2, <4>3 DEF Ahead
    <3>3. QED
      BY <3>1, <3>2
  <2>4. Fresh'
    BY <1>2, <2>1, <2>3 DEF Fresh
  <2>5. GoneWaits'
    BY <2>1 DEF GoneWaits, Watching
  <2>6. QED
    BY <1>3, <2>4, <2>5 DEF Ordered
<1>6. CASE AddWatch
  <2>1. pc = "watch" /\ UNCHANGED <<events, file, lastOffset>>
    BY <1>6 DEF AddWatch
  <2>2. events = << >>
    BY <2>1 DEF Shape, StartsQuiet, Starting
  <2>3. GoneWaits'
    BY <2>1, <2>2 DEF GoneWaits
  <2>4. Fresh'
    BY <1>2, <2>1 DEF Ordered, Fresh, Ahead
  <2>5. QED
    BY <1>3, <2>3, <2>4 DEF Ordered
<1>7. CASE OnGone
  <2>1. Received("gone") /\ file' = 0 /\ UNCHANGED pc
    BY <1>7 DEF OnGone
  <2>2. /\ Watching /\ events[1] = "gone" /\ 1 \in 1 .. Len(events)
        /\ \A k \in 1 .. Len(events') : k + 1 \in 1 .. Len(events) /\ events'[k] = events[k + 1]
    BY <1>1, <2>1, Dequeues
  <2>3. file # 0 /\ file # path
    BY <2>2 DEF Ordered, GoneWaits
  <2>4. ASSUME NEW k \in 1 .. Len(events') PROVE events'[k] # "gone"
    <3>1. SUFFICES ASSUME events[k + 1] = "gone" PROVE FALSE
      BY <2>2
    <3>2. k + 1 \in 1 .. Len(events) /\ 1 \in 1 .. k + 1 - 1
      BY <2>2, <2>4
    <3>3. events[1] = "write"
      BY <2>2, <3>1, <3>2 DEF Ordered, GoneWaits
    <3>4. QED
      BY <2>2, <3>3
  <2>5. GoneWaits'
    BY <2>4 DEF GoneWaits
  <2>6. ASSUME NEW f \in Inodes, NEW i \in 1 .. Len(lines[f]), Ahead(f, i)'
        PROVE  Ahead(f, i)
    <3>1. f = path /\ path = used /\ f # 0
      BY <1>1, <1>2, <2>1, <2>6 DEF Ahead, Inodes
    <3>2. f > file
      BY <1>1, <2>3, <3>1 DEF Inodes
    <3>3. QED
      BY <2>3, <3>2 DEF Ahead
  <2>7. Fresh'
    BY <1>2, <2>1, <2>6 DEF Ordered, Fresh
  <2>8. QED
    BY <1>3, <2>5, <2>7 DEF Ordered
<1>8. CASE OnCancel
  <2>1. pc' = "stopped"
    BY <1>8 DEF OnCancel
  <2>2. Fresh' /\ GoneWaits'
    BY <2>1 DEF Fresh, GoneWaits, Watching
  <2>3. QED
    BY <1>3, <2>2 DEF Ordered
<1>9. QED
  BY <1>5, <1>6, <1>7, <1>8

LEMMA KeepsOrdered ==
  ASSUME Shape, Calm, Ordered, Next PROVE Ordered'
<1>1. CASE WriteLine \/ WriteStart \/ WriteRest
  <2>1. PICK p \in Pieces : NextPiece(p) /\ Write(p)
    BY <1>1, Writes DEF Shape
  <2>2. QED
    BY <2>1, WriteOrdered
<1>2. CASE Rotate \/ CreateFile \/ BrokerReopens \/ Replace \/ Truncate
  BY <1>2, LinkOrdered
<1>3. CASE Bootstrap
  <2>1. pc' = "open" /\ Ascends(entries')
    BY <1>3, BootstrapShape DEF Bootstrap, Ordered
  <2>2. QED
    BY <2>1 DEF Ordered, Fresh, GoneWaits, Watching
<1>4. CASE OpenTail \/ AddWatch \/ OnGone \/ OnCancel
  BY <1>4, OtherOrdered
<1>5. CASE OnWrite \/ OnCreate \/ OnTick
  <2>1. PICK f \in Inodes \cup {0} : Reading(f)
    BY <1>5, Readings
  <2>2. QED
    BY <2>1, ReadOrdered
<1>6. QED
  BY <1>1, <1>2, <1>3, <1>4, <1>5 DEF Next, Environment, Startup, OnEvent

LEMMA FaultsStay ==
  ASSUME Next PROVE faults' = faults
BY DEF Next, Environment, WriteLine, WriteStart, WriteRest, Write, Rotate, CreateFile,
       BrokerReopens, Truncate, Replace, Startup, Bootstrap, OpenTail, AddWatch, OnEvent,
       OnWrite, OnGone, OnCreate, OnTick, OnCancel, envVars

LEMMA OrderedStutters ==
  ASSUME InOrder, UNCHANGED vars PROVE InOrder'
BY DEF InOrder, Calm, Ascends, Fresh, Ahead, GoneWaits, Watching, vars, envVars

LEMMA InitInOrder ==
  ASSUME Init PROVE InOrder
<1>1. entries = << >> /\ events = << >> /\ pc \in {"bootstrap", "open"}
  BY DEF Init
<1>2. Len(entries) = 0
  BY <1>1
<1>3. Ascends(entries)
  BY <1>2 DEF Ascends
<1>4. QED
  BY <1>1, <1>3 DEF InOrder, Fresh, GoneWaits, Watching

\* Entries that ascend show every line once, or its beginning and then its rest.
LEMMA AscendsIsOnce ==
  ASSUME Shape, Ascends(entries),
         NEW i \in 1 .. Len(entries), NEW j \in 1 .. Len(entries), i < j
  PROVE  \/ LineOf(entries[i]) < LineOf(entries[j])
         \/ j = i + 1 /\ entries[i] = - entries[j] /\ entries[i] < 0
<1>1. entries \in Seq(Pieces)
  BY DEF Shape, TypeOK
<1>2. entries[i] \in Pieces /\ entries[j] \in Pieces /\ Order(entries[i]) < Order(entries[j])
  BY <1>1 DEF Ascends
<1>3. PICK p \in Pieces, q \in Pieces : p = entries[i] /\ q = entries[j]
  BY <1>2
<1>4. LineOf(p) < LineOf(q) \/ (p = - q /\ p < 0)
  <2>1. Order(p) < Order(q)
    BY <1>2, <1>3
  <2>2. /\ p \in Int /\ Order(p) \in Nat /\ LineOf(p) \in 1 .. MaxLines
        /\ p < 0 => Order(p) = 2 * LineOf(p) - 1 /\ p = - LineOf(p)
        /\ p > 0 => Order(p) = 2 * LineOf(p)
        /\ p < 0 \/ p > 0
    BY Orders
  <2>3. /\ q \in Int /\ Order(q) \in Nat /\ LineOf(q) \in 1 .. MaxLines
        /\ q < 0 => Order(q) = 2 * LineOf(q) - 1
        /\ q > 0 => Order(q) = 2 * LineOf(q) /\ q = LineOf(q)
        /\ q < 0 \/ q > 0
    BY Orders
  <2>4. QED
    BY <2>1, <2>2, <2>3, SMTT(30)
<1>5. ASSUME p = - q, p < 0 PROVE j = i + 1
  <2>1. SUFFICES ASSUME j # i + 1 PROVE FALSE
    OBVIOUS
  <2>2. i + 1 \in 1 .. Len(entries) /\ i < i + 1 /\ i + 1 < j
    BY <1>1, <2>1
  <2>3. PICK r \in Pieces : r = entries[i + 1]
    BY <1>1, <2>2
  <2>4. Order(p) < Order(r) /\ Order(r) < Order(q)
    BY <1>3, <2>2, <2>3 DEF Ascends
  <2>5. Order(q) = Order(p) + 1 /\ Order(p) \in Int /\ Order(r) \in Int
    <3>1. q > 0 /\ q \in Int /\ p \in Int
      BY <1>5 DEF Pieces
    <3>2. Order(q) = 2 * q /\ Order(p) = 2 * q - 1
      BY <1>5, <3>1 DEF Order
    <3>3. QED
      BY <3>1, <3>2, Orders
  <2>6. QED
    BY <2>4, <2>5
<1>6. QED
  BY <1>3, <1>4, <1>5

\* Whatever the broker and logrotate do short of rotations in a burst, the
\* entries show no line twice and none out of order: what the watcher may still
\* read comes after all it has read (watcher.go:99-111, 188-217).  The tick and
\* the create event may both reopen the log, with the offset of the file before
\* it; the event of a rotation always closes the renamed file first, because
\* nothing that waits before it opens another (watcher.go:102-107).
THEOREM EachLineOnceInOrder == Spec => []OnceInOrder
<1>1. Init => Shape /\ InOrder
  BY InitShape, InitInOrder
<1>2. ASSUME Shape, InOrder, Next PROVE InOrder'
  <2>1. SUFFICES ASSUME Calm' PROVE Ordered'
    BY DEF InOrder, Ordered
  <2>2. Calm
    BY <1>2, <2>1, FaultsStay DEF Calm
  <2>3. Ordered
    BY <1>2, <2>2 DEF InOrder, Ordered
  <2>4. QED
    BY <1>2, <2>2, <2>3, KeepsOrdered
<1>3. Shape /\ InOrder /\ [Next]_vars => (Shape /\ InOrder)'
  BY <1>2, KeepsShape, ShapeStutters, OrderedStutters
<1>4. Shape /\ InOrder => OnceInOrder
  <2>1. SUFFICES ASSUME Shape, InOrder, Calm PROVE
               \A i, j \in 1 .. Len(entries) :
                 i < j => \/ LineOf(entries[i]) < LineOf(entries[j])
                          \/ j = i + 1 /\ entries[i] = - entries[j] /\ entries[i] < 0
    BY DEF OnceInOrder, Calm
  <2>2. Ascends(entries)
    BY <2>1 DEF InOrder
  <2>3. QED
    BY <2>1, <2>2, AscendsIsOnce
<1>5. QED
  BY <1>1, <1>3, <1>4, PTL DEF Spec
------------------------------------------------------------------------------
(* No piece is lost.                                                         *)

LEMMA QueueGrows ==
  ASSUME events \in Seq(EventKinds), NEW e,
         events' = events \/ events' = Append(events, e)
  PROVE  /\ Elems(events) \subseteq Elems(events')
         /\ events # << >> => events' # << >> /\ Head(events') = Head(events)
<1>1. CASE events' = events
  BY <1>1
<1>2. CASE events' = Append(events, e)
  <2>1. /\ Len(events) \in Nat /\ Len(events') = Len(events) + 1 /\ events' # << >>
        /\ \A j \in 1 .. Len(events) : events'[j] = events[j]
    BY <1>2
  <2>2. Elems(events) \subseteq Elems(events')
    BY <2>1 DEF Elems
  <2>3. events # << >> => Head(events') = Head(events)
    BY <1>2
  <2>4. QED
    BY <2>1, <2>2, <2>3
<1>3. QED
  BY <1>1, <1>2

\* Before the directory is watched no piece is new.
LEMMA KeptAtStart ==
  ASSUME Shape, pc = "watch"
  PROVE  \A p \in Pieces : Kept(p)
<1>1. mark = MaxLines
  BY DEF Shape, StartsQuiet, Starting
<1>2. ASSUME NEW p \in Pieces PROVE Kept(p)
  <2>1. LineOf(p) \in 1 .. MaxLines
    BY Orders
  <2>2. QED
    BY <1>1, <2>1 DEF Kept
<1>3. QED
  BY <1>2

\* Kept after the step.
KeptNext(p) == LineOf(p) > mark' => p \in Elems(entries') \/ LineOf(p) \in Elems(entries')

LEMMA WriteSafe ==
  ASSUME Shape, Mild, Safe, pc \in {"watch", "loop"},
         NEW p \in Pieces, NextPiece(p), Write(p)
  PROVE  Safe'
<1>1. /\ UNCHANGED <<faults, path, brokerFile, used>>
      /\ UNCHANGED <<pc, file, lastOffset, entries, fails, mark>>
      /\ brokerFile = path /\ Notify("write")
  BY DEF Write, watcherVars, Mild
<1>2. path \in Inodes /\ lines' = [lines EXCEPT ![path] = Append(@, p)]
  BY <1>1, WriteShape
<1>3. /\ lines \in [Inodes -> Seq(Pieces)] /\ file \in Inodes \cup {0} /\ lastOffset \in Nat
      /\ events \in Seq(EventKinds) /\ Len(events) <= QueueCap
  BY DEF Shape, TypeOK
<1>4. \A f \in Inodes : f # path => lines'[f] = lines[f]
  BY <1>2, <1>3
<1>5. /\ lines[path] \in Seq(Pieces) /\ lines'[path] = Append(lines[path], p)
  BY <1>2, <1>3
<1>6. events' = events \/ events' = Append(events, "write")
  BY <1>1, <1>3, Notified DEF EventKinds
<1>7. /\ Elems(events) \subseteq Elems(events')
      /\ events # << >> => events' # << >> /\ Head(events') = Head(events)
  BY <1>3, <1>6, QueueGrows
<1>8. Watching => events' # << >> /\ "write" \in Elems(events')
  <2>1. SUFFICES ASSUME Watching PROVE events' # << >> /\ "write" \in Elems(events')
    OBVIOUS
  <2>2. events' # << >> /\ events'[Len(events')] = "write" /\ events' \in Seq(EventKinds)
    BY <1>1, <1>3, <2>1, Notified DEF EventKinds, Mild
  <2>3. Len(events') \in 1 .. Len(events')
    BY <2>2
  <2>4. QED
    BY <2>2, <2>3 DEF Elems
<1>9. \A f \in Inodes : f # path /\ AllKept(f) => AllKept(f)'
  BY <1>1, <1>4 DEF AllKept, Kept
<1>10. \A f \in Inodes : f \notin {file', path'} => AllKept(f)'
  BY <1>1, <1>9 DEF Safe
<1>11. ASSUME file # 0, file # path
       PROVE  /\ \A i \in 1 .. Len(lines'[file]) : i <= lastOffset => Kept(lines[file][i])
              /\ lines'[file] = lines[file] /\ lastOffset <= Len(lines'[file])
              /\ AllKept(file)' \/ (events' # << >> /\ "write" \in Elems(events')
                                      /\ Head(events') = "write")
  <2>1. file \in Inodes /\ lines'[file] = lines[file]
    BY <1>3, <1>4, <1>11
  <2>2. /\ \A i \in 1 .. Len(lines[file]) : i <= lastOffset => Kept(lines[file][i])
        /\ lastOffset <= Len(lines[file])
        /\ AllKept(file) \/ (events # << >> /\ "write" \in Elems(events)
                               /\ Head(events) = "write")
    BY <1>11 DEF Safe
  <2>3. AllKept(file) => AllKept(file)'
    BY <1>1, <2>1 DEF AllKept, Kept
  <2>4. QED
    BY <1>7, <2>1, <2>2, <2>3
<1>12. ASSUME file # 0, file = path
       PROVE  /\ \A i \in 1 .. Len(lines'[file]) : i <= lastOffset => Kept(lines'[file][i])
              /\ lastOffset <= Len(lines'[file])
              /\ AllKept(file)' \/ (events' # << >> /\ "write" \in Elems(events'))
  <2>1. /\ \A i \in 1 .. Len(lines[path]) : i <= lastOffset => Kept(lines[path][i])
        /\ lastOffset <= Len(lines[path])
    BY <1>12 DEF Safe
  <2>2. /\ Len(lines[path]) \in Nat /\ Len(lines'[path]) = Len(lines[path]) + 1
        /\ \A i \in 1 .. Len(lines[path]) : lines'[path][i] = lines[path][i]
    BY <1>5
  <2>3. ASSUME NEW i \in 1 .. Len(lines'[path]), i <= lastOffset
        PROVE  i \in 1 .. Len(lines[path])
    BY <1>3, <2>1, <2>2, <2>3
  <2>4. CASE Watching
    BY <1>3, <1>8, <1>12, <2>1, <2>2, <2>3, <2>4
  <2>5. CASE pc = "watch"
    <3>1. \A q \in Pieces : Kept(q)
      BY <2>5, KeptAtStart
    <3>2. lines'[path] \in Seq(Pieces)
      BY <1>5
    <3>3. \A i \in 1 .. Len(lines'[path]) : lines'[path][i] \in Pieces
      BY <3>2
    <3>4. AllKept(path)'
      BY <1>1, <3>1, <3>3 DEF AllKept, Kept
    <3>5. AllKept(file)'
      BY <1>1, <1>12, <3>4 DEF AllKept
    <3>6. QED
      BY <1>3, <1>12, <2>1, <2>2, <2>3, <3>5
  <2>6. QED
    BY <2>4, <2>5 DEF Watching
<1>13. file \notin {0, path} => "gone" \in Elems(events')
  BY <1>7 DEF Safe
<1>14. file = 0 => lastOffset = 0
  BY DEF Safe
<1>15. file # 0 => /\ \A i \in 1 .. Len(lines'[file]) : i <= lastOffset => Kept(lines'[file][i])
                   /\ lastOffset <= Len(lines'[file])
                   /\ AllKept(file)' \/ (events' # << >> /\ "write" \in Elems(events')
                                           /\ (file # path => Head(events') = "write"))
  BY <1>11, <1>12
<1>16. QED
  BY <1>1, <1>10, <1>13, <1>14, <1>15 DEF Safe, Kept

\* Renaming the log and creating a new one: what waits in the renamed file is
\* announced before the rotation is.
LEMMA LinkSafe ==
  ASSUME Shape, Mild, Safe, pc \in {"watch", "loop"}, Rotate \/ CreateFile \/ BrokerReopens
  PROVE  Safe'
<1>1. /\ UNCHANGED <<faults, lines, written, pc, file, lastOffset, entries, fails, mark>>
  BY DEF Rotate, CreateFile, BrokerReopens, LinkNewFile, watcherVars
<1>2. /\ events \in Seq(EventKinds) /\ Len(events) <= QueueCap
      /\ file \in Inodes \cup {0} /\ used \in 0 .. MaxFiles
  BY DEF Shape, TypeOK
<1>3. CASE BrokerReopens
  <2>1. UNCHANGED <<events, path>>
    BY <1>3 DEF BrokerReopens
  <2>2. QED
    BY <1>1, <2>1 DEF Safe, AllKept, Kept
<1>4. CASE Rotate
  <2>1. Watching /\ file = path /\ path # 0 /\ path' = 0 /\ Notify("gone")
        /\ Elems(events) \subseteq {"write"}
    BY <1>4 DEF Rotate, Settled, Mild
  <2>2. events' = events \/ events' = Append(events, "gone")
    BY <1>2, <2>1, Notified DEF EventKinds
  <2>3. /\ Elems(events) \subseteq Elems(events')
        /\ events # << >> => events' # << >> /\ Head(events') = Head(events)
    BY <1>2, <2>2, QueueGrows
  <2>4. "gone" \in Elems(events')
    <3>1. events' # << >> /\ events'[Len(events')] = "gone" /\ events' \in Seq(EventKinds)
      BY <1>2, <2>1, Notified DEF EventKinds, Mild
    <3>2. Len(events') \in 1 .. Len(events')
      BY <3>1
    <3>3. QED
      BY <3>1, <3>2 DEF Elems
  <2>5. events # << >> => Head(events) = "write"
    <3>1. SUFFICES ASSUME events # << >> PROVE Head(events) = "write"
      OBVIOUS
    <3>2. 1 \in 1 .. Len(events) /\ Head(events) = events[1]
      BY <1>2, <3>1
    <3>3. QED
      BY <2>1, <3>2 DEF Elems
  <2>6. \A f \in Inodes : f \notin {file, 0} => AllKept(f)
    BY <2>1 DEF Safe
  <2>7. /\ \A i \in 1 .. Len(lines[file]) : i <= lastOffset => Kept(lines[file][i])
        /\ lastOffset <= Len(lines[file])
        /\ AllKept(file) \/ (events' # << >> /\ "write" \in Elems(events')
                               /\ Head(events') = "write")
    BY <2>1, <2>3, <2>5 DEF Safe
  <2>8. QED
    BY <1>1, <2>1, <2>4, <2>6, <2>7 DEF Safe, AllKept, Kept
<1>5. CASE CreateFile
  <2>1. path = 0 /\ path' = used + 1 /\ Notify("create")
    BY <1>5 DEF CreateFile, LinkNewFile
  <2>2. events' = events \/ events' = Append(events, "create")
    BY <1>2, <2>1, Notified DEF EventKinds
  <2>3. /\ Elems(events) \subseteq Elems(events')
        /\ events # << >> => events' # << >> /\ Head(events') = Head(events)
    BY <1>2, <2>2, QueueGrows
  <2>4. file # 0 =>
          /\ \A i \in 1 .. Len(lines[file]) : i <= lastOffset => Kept(lines[file][i])
          /\ lastOffset <= Len(lines[file])
          /\ AllKept(file) \/ (events' # << >> /\ "write" \in Elems(events')
                                 /\ Head(events') = "write")
    BY <2>1, <2>3 DEF Safe
  <2>5. file # 0 => "gone" \in Elems(events')
    BY <2>1, <2>3 DEF Safe
  <2>6. \A f \in Inodes : f # file => AllKept(f)
    BY <2>1 DEF Safe, Inodes
  <2>7. file = 0 => lastOffset = 0
    BY DEF Safe
  <2>8. QED
    BY <1>1, <2>4, <2>5, <2>6, <2>7 DEF Safe, AllKept, Kept
<1>6. QED
  BY <1>3, <1>4, <1>5

\* A read keeps all of the file: the rest of a line keeps its beginning too.
LEMMA ReadSafe ==
  ASSUME Shape, Ordered, Mild, LongLines = {}, Safe, NEW f \in Inodes \cup {0}, Reading(f)
  PROVE  Safe'
<1>1. /\ lines \in [Inodes -> Seq(Pieces)] /\ entries \in Seq(Pieces)
      /\ events \in Seq(EventKinds) /\ Len(events) \in Nat
      /\ file \in Inodes \cup {0} /\ lastOffset \in Nat
  BY DEF Shape, TypeOK
<1>2. /\ UNCHANGED <<lines, path, pc, mark>> /\ file' = f /\ Watching /\ f \in {file, path}
      /\ lastOffset' \in Nat
  BY ReadIs DEF Reading, envVars
<1>3. PICK t \in Seq(Pieces) : Read(f, t) /\ Ascends(t)
  BY ReadShape DEF Reading
<1>4. Elems(entries) \subseteq Elems(entries') /\ Elems(t) \subseteq Elems(entries')
  BY <1>3, ReadEntries
<1>5. \A p \in Pieces : Kept(p) => KeptNext(p)
  BY <1>2, <1>4 DEF Kept, KeptNext
<1>6. ASSUME f # file PROVE file = 0 /\ f = path /\ path # 0
  <2>1. CASE Received("write")
    BY <1>6, <2>1 DEF Reading, Received
  <2>2. CASE Received("create") /\ (f # file => path # 0)
    <3>1. f = path /\ path # 0
      BY <1>2, <1>6, <2>2
    <3>2. SUFFICES ASSUME file # 0 PROVE FALSE
      BY <3>1
    <3>3. "gone" \in Elems(events)
      BY <1>6, <3>1, <3>2 DEF Safe
    <3>4. PICK k \in 1 .. Len(events) : events[k] = "gone"
      BY <3>3 DEF Elems
    <3>5. \A j \in 1 .. k - 1 : events[j] = "write"
      BY <1>2, <3>4 DEF Ordered, GoneWaits
    <3>6. events[1] = "create" /\ Watching
      BY <2>2, Dequeues
    <3>7. k # 1
      BY <3>4, <3>6
    <3>8. 1 \in 1 .. k - 1
      BY <1>1, <3>4, <3>7
    <3>9. QED
      BY <3>5, <3>6, <3>8
  <2>3. CASE IF file # 0 THEN f = file ELSE f # 0 => path # 0
    BY <1>2, <1>6, <2>3
  <2>4. QED
    BY <2>1, <2>2, <2>3 DEF Reading
<1>7. ASSUME "gone" \in Elems(events) PROVE "gone" \in Elems(events')
  <2>1. CASE UNCHANGED events
    BY <1>7, <2>1
  <2>2. CASE \E e \in {"write", "create"} : Received(e)
    <3>1. PICK e \in {"write", "create"} : Received(e)
      BY <2>2
    <3>2. /\ events[1] = e /\ events' = Tail(events) /\ Len(events) >= 1
          /\ Len(events') = Len(events) - 1
      BY <3>1, Dequeues
    <3>3. PICK k \in 1 .. Len(events) : events[k] = "gone"
      BY <1>7 DEF Elems
    <3>4. k # 1
      BY <3>1, <3>2, <3>3
    <3>5. k - 1 \in 1 .. Len(events')
      BY <1>1, <3>2, <3>3, <3>4
    <3>6. events'[k - 1] = events[k]
      BY <1>1, <3>2, <3>5
    <3>7. QED
      BY <3>3, <3>5, <3>6 DEF Elems
  <2>3. QED
    BY <2>1, <2>2 DEF Reading
<1>8. /\ \A g \in Inodes : g \notin {f, path} => AllKept(g)
      /\ f = 0 => lastOffset = 0
      /\ f # 0 => /\ \A i \in 1 .. Len(lines[f]) : i <= lastOffset => Kept(lines[f][i])
                  /\ lastOffset <= Len(lines[f])
      /\ f \notin {0, path} => "gone" \in Elems(events')
  <2>1. CASE f = file
    BY <1>7, <2>1 DEF Safe
  <2>2. CASE f # file
    <3>1. file = 0 /\ f = path /\ path # 0 /\ lastOffset = 0
      BY <1>6, <2>2 DEF Safe
    <3>2. \A g \in Inodes : g \notin {0, path} => AllKept(g)
      BY <3>1 DEF Safe
    <3>3. f \in Inodes
      BY <3>1
    <3>4. lines[f] \in Seq(Pieces)
      BY <1>1, <3>3
    <3>5. Len(lines[f]) \in Nat
      BY <3>4
    <3>6. \A g \in Inodes : g # 0
      BY DEF Inodes
    <3>7. QED
      BY <3>1, <3>2, <3>5, <3>6
  <2>3. QED
    BY <2>1, <2>2
<1>9. ASSUME f # 0 PROVE /\ \A i \in 1 .. Len(lines[f]) : KeptNext(lines[f][i])
                         /\ lastOffset' = Len(lines[f])
  <2> DEFINE l == lines[f]
  <2>1. f \in Inodes /\ l \in Seq(Pieces) /\ Len(l) \in Nat
    BY <1>1, <1>9
  <2>2. \A i \in 1 .. Len(l) : l[i] \in Pieces
    BY <2>1
  <2>3. \A i \in 1 .. Len(l) :
          i > lastOffset /\ (l[i] > 0 \/ i = Len(l)) => l[i] \in Elems(entries')
    BY <1>3, <1>4, <1>9 DEF Read
  <2>4. \A i \in 1 .. Len(l) : i <= lastOffset => KeptNext(l[i])
    BY <1>5, <1>8, <1>9, <2>2
  <2>5. lastOffset' = Len(l)
    BY <1>3, <1>8, <1>9 DEF Read
  <2>6. \A i \in 1 .. Len(l) : l[i] < 0 /\ i # Len(l) => l[i + 1] = - l[i]
    BY <2>1 DEF Shape, FilesWhole
  <2> HIDE DEF l
  <2>7. ASSUME NEW i \in 1 .. Len(l), i > lastOffset PROVE KeptNext(l[i])
    <3>1. CASE l[i] > 0 \/ i = Len(l)
      BY <2>3, <2>7, <3>1 DEF KeptNext
    <3>2. CASE ~ (l[i] > 0) /\ i # Len(l)
      <4>1. l[i] < 0 /\ l[i] \in Int
        BY <2>2, <3>2 DEF Pieces
      <4>2. i + 1 \in 1 .. Len(l) /\ i + 1 > lastOffset
        BY <1>1, <2>1, <2>7, <3>2
      <4>3. l[i + 1] = - l[i]
        BY <2>6, <3>2, <4>1
      <4>4. l[i + 1] > 0 /\ LineOf(l[i]) = l[i + 1]
        BY <4>1, <4>3 DEF LineOf
      <4>5. l[i + 1] \in Elems(entries')
        BY <2>3, <4>2, <4>4
      <4>6. QED
        BY <4>4, <4>5 DEF KeptNext
    <3>3. QED
      BY <3>1, <3>2
  <2>8. \A i \in 1 .. Len(l) : KeptNext(l[i])
    BY <1>1, <2>1, <2>4, <2>7
  <2>9. QED
    BY <2>5, <2>8 DEF l
<1>10. ASSUME NEW g \in Inodes, g \notin {f, path}
       PROVE  \A i \in 1 .. Len(lines[g]) : KeptNext(lines[g][i])
  <2>1. AllKept(g) /\ lines[g] \in Seq(Pieces)
    BY <1>1, <1>8, <1>10
  <2>2. \A i \in 1 .. Len(lines[g]) : lines[g][i] \in Pieces
    BY <2>1
  <2>3. QED
    BY <1>5, <2>1, <2>2 DEF AllKept
<1>11. \A g \in Inodes : g \notin {f, path} => AllKept(g)'
  BY <1>2, <1>10 DEF AllKept, Kept, KeptNext
<1>12. f # 0 => /\ AllKept(file)' /\ lastOffset' <= Len(lines'[f])
                /\ \A i \in 1 .. Len(lines'[f]) : KeptNext(lines'[f][i])
  <2>1. SUFFICES ASSUME f # 0
                 PROVE  /\ AllKept(file)' /\ lastOffset' <= Len(lines'[f])
                        /\ \A i \in 1 .. Len(lines'[f]) : KeptNext(lines'[f][i])
    OBVIOUS
  <2>2. \A i \in 1 .. Len(lines'[f]) : KeptNext(lines'[f][i])
    BY <1>2, <1>9, <2>1
  <2>3. AllKept(file)'
    BY <1>2, <2>2 DEF AllKept, Kept, KeptNext
  <2>4. lastOffset' <= Len(lines'[f])
    BY <1>2, <1>9, <2>1
  <2>5. QED
    BY <2>2, <2>3, <2>4
<1>13. f = 0 => lastOffset' = 0
  BY <1>3, <1>8 DEF Read
<1>14. QED
  BY <1>2, <1>8, <1>11, <1>12, <1>13 DEF Safe, Kept, KeptNext

LEMMA OtherSafe ==
  ASSUME Shape, Ordered, Mild, NoLoss, LongLines = {}, OpenTail \/ AddWatch \/ OnGone,
         pc' \in {"watch", "loop"}
  PROVE  Safe'
<1>1. /\ lines \in [Inodes -> Seq(Pieces)] /\ entries \in Seq(Pieces)
      /\ events \in Seq(EventKinds) /\ Len(events) \in Nat
      /\ file \in Inodes \cup {0} /\ path \in Inodes \cup {0} /\ lastOffset \in Nat
  BY DEF Shape, TypeOK
<1>2. UNCHANGED <<lines, path, entries, written>>
  BY DEF OpenTail, AddWatch, OnGone, envVars
<1>3. \A f \in Inodes : lines[f] \in Seq(Pieces)
  BY <1>1
<1>4. \A f \in Inodes : \A i \in 1 .. Len(lines[f]) : lines[f][i] \in Pieces
  BY <1>3
<1>5. CASE OpenTail
  <2>1. pc = "open" /\ pc' = "watch" /\ UNCHANGED mark
    BY <1>5 DEF OpenTail
  <2>2. mark = MaxLines /\ file = 0 /\ lastOffset = 0
    BY <2>1 DEF Shape, StartsQuiet, Starting
  <2>3. \A p \in Pieces : KeptNext(p)
    <3>1. ASSUME NEW p \in Pieces PROVE KeptNext(p)
      <4>1. LineOf(p) \in 1 .. MaxLines
        BY Orders
      <4>2. QED
        BY <2>1, <2>2, <4>1 DEF KeptNext
    <3>2. QED
      BY <3>1
  <2>4. \A f \in Inodes : AllKept(f)'
    BY <1>2, <1>4, <2>3 DEF AllKept, Kept, KeptNext
  <2>5. CASE path = 0
    <3>1. file' = 0 /\ lastOffset' = 0
      BY <1>5, <2>1, <2>2, <2>5 DEF OpenTail
    <3>2. QED
      BY <2>4, <3>1 DEF Safe
  <2>6. CASE path # 0
    <3>1. file' = path /\ lastOffset' = Len(lines[path]) /\ path \in Inodes
      BY <1>1, <1>5, <2>1, <2>6 DEF OpenTail
    <3>2. /\ lastOffset' <= Len(lines'[path])
          /\ \A i \in 1 .. Len(lines'[path]) : KeptNext(lines'[path][i])
      <4>1. Len(lines[path]) \in Nat
        BY <1>3, <3>1
      <4>2. QED
        BY <1>2, <1>4, <2>3, <3>1, <4>1
    <3>3. AllKept(file)'
      BY <1>2, <3>1, <3>2 DEF AllKept, Kept, KeptNext
    <3>4. QED
      BY <1>2, <2>4, <2>6, <3>1, <3>2, <3>3 DEF Safe, Kept, KeptNext
  <2>7. QED
    BY <2>5, <2>6
<1>6. CASE AddWatch
  <2>1. pc = "watch" /\ mark' = written /\ UNCHANGED <<events, file, lastOffset>>
    BY <1>6 DEF AddWatch
  <2>2. events = << >> /\ Safe
    BY <2>1 DEF Shape, StartsQuiet, Starting, NoLoss
  <2>3. ASSUME NEW f \in Inodes, NEW i \in 1 .. Len(lines[f]) PROVE KeptNext(lines[f][i])
    <3>1. lines[f][i] \in Pieces /\ Order(lines[f][i]) <= 2 * written
      BY <1>4 DEF Shape, FilesOrdered, Past
    <3>2. PICK p \in Pieces : p = lines[f][i] /\ Order(p) <= 2 * written
      BY <3>1
    <3>3. LineOf(p) \in 1 .. MaxLines /\ 2 * LineOf(p) - 1 <= Order(p) /\ Order(p) \in Nat
      BY Orders
    <3>4. written \in Nat
      BY DEF Shape, TypeOK
    <3>5. LineOf(p) <= written
      BY <3>2, <3>3, <3>4
    <3>6. QED
      BY <2>1, <3>2, <3>3, <3>4, <3>5 DEF KeptNext
  <2>4. \A f \in Inodes : AllKept(f)'
    BY <1>2, <2>3 DEF AllKept, Kept, KeptNext
  <2>5. file # 0 => /\ AllKept(file)' /\ lastOffset <= Len(lines[file])
                    /\ \A i \in 1 .. Len(lines'[file]) : KeptNext(lines'[file][i])
    <3>1. SUFFICES ASSUME file # 0
                   PROVE  /\ AllKept(file)' /\ lastOffset <= Len(lines[file])
                          /\ \A i \in 1 .. Len(lines'[file]) : KeptNext(lines'[file][i])
      OBVIOUS
    <3>2. file \in Inodes
      BY <1>1, <3>1
    <3>3. \A i \in 1 .. Len(lines'[file]) : KeptNext(lines'[file][i])
      BY <1>2, <2>3, <3>2
    <3>4. AllKept(file)'
      BY <2>1, <3>3 DEF AllKept, Kept, KeptNext
    <3>5. QED
      BY <2>2, <3>1, <3>3, <3>4 DEF Safe
  <2>6. (file = 0 => lastOffset = 0) /\ (file \notin {0, path} => "gone" \in Elems(events))
    BY <2>2 DEF Safe
  <2>7. QED
    BY <1>2, <2>1, <2>4, <2>5, <2>6 DEF Safe, Kept, KeptNext
<1>7. CASE OnGone
  <2>1. Received("gone") /\ file' = 0 /\ lastOffset' = 0 /\ UNCHANGED <<pc, mark>>
    BY <1>7 DEF OnGone
  <2>2. Watching /\ events[1] = "gone" /\ Head(events) = "gone" /\ 1 \in 1 .. Len(events)
    BY <1>1, <2>1, Dequeues
  <2>3. file # 0 /\ file # path
    BY <2>2 DEF Ordered, GoneWaits
  <2>4. Safe
    BY <2>2 DEF NoLoss, Watching
  <2>5. AllKept(file)
    BY <2>2, <2>3, <2>4 DEF Safe
  <2>6. \A f \in Inodes : f # path => AllKept(f)
    BY <2>4, <2>5 DEF Safe
  <2>7. \A f \in Inodes : f \notin {file', path'} => AllKept(f)'
    BY <1>2, <2>1, <2>6 DEF AllKept, Kept
  <2>8. QED
    BY <2>1, <2>7 DEF Safe
<1>8. QED
  BY <1>5, <1>6, <1>7

LEMMA KeepsSafe ==
  ASSUME Shape, Ordered, NoLoss, Mild, LongLines = {}, Next, pc' \in {"watch", "loop"}
  PROVE  Safe'
<1>1. CASE WriteLine \/ WriteStart \/ WriteRest
  <2>1. PICK p \in Pieces : NextPiece(p) /\ Write(p)
    BY <1>1, Writes DEF Shape
  <2>2. pc' = pc
    BY <2>1 DEF Write, watcherVars
  <2>3. QED
    BY <2>1, <2>2, WriteSafe DEF NoLoss
<1>2. CASE Rotate \/ CreateFile \/ BrokerReopens
  <2>1. pc' = pc
    BY <1>2 DEF Rotate, CreateFile, BrokerReopens, LinkNewFile, watcherVars
  <2>2. QED
    BY <1>2, <2>1, LinkSafe DEF NoLoss
<1>3. CASE Truncate \/ Replace
  BY <1>3 DEF Truncate, Replace, Mild
<1>4. CASE Bootstrap \/ OnCancel
  BY <1>4 DEF Bootstrap, OnCancel
<1>5. CASE OpenTail \/ AddWatch \/ OnGone
  BY <1>5, OtherSafe
<1>6. CASE OnWrite \/ OnCreate \/ OnTick
  <2>1. PICK f \in Inodes \cup {0} : Reading(f)
    BY <1>6, Readings
  <2>2. Safe
    BY <2>1 DEF Reading, NoLoss, Watching
  <2>3. QED
    BY <2>1, <2>2, ReadSafe
<1>7. QED
  BY <1>1, <1>2, <1>3, <1>4, <1>5, <1>6 DEF Next, Environment, Startup, OnEvent

LEMMA NoLossStutters ==
  ASSUME NoLoss, UNCHANGED vars PROVE NoLoss'
BY DEF NoLoss, Mild, Safe, AllKept, Kept, vars, envVars

\* Where a piece is, is where the watcher still finds it.
LEMMA SafeIsKept ==
  ASSUME Shape, Safe, NEW f \in Inodes, NEW i \in 1 .. Len(lines[f]),
         LineOf(lines[f][i]) > mark
  PROVE  LET p == lines[f][i]
         IN  \/ p \in Elems(entries) \/ LineOf(p) \in Elems(entries)
             \/ file # 0 /\ p \in Elems(Unread(file, lastOffset))
             \/ path \notin {0, file} /\ p \in Elems(lines[path])
<1>1. lines \in [Inodes -> Seq(Pieces)] /\ lastOffset \in Nat
  BY DEF Shape, TypeOK
<1>2. f # 0
  BY DEF Inodes
<1>3. CASE f \notin {file, path}
  BY <1>3 DEF Safe, AllKept, Kept
<1>4. CASE f = path /\ f # file
  BY <1>2, <1>4 DEF Elems
<1>5. CASE f = file /\ i <= lastOffset
  BY <1>2, <1>5 DEF Safe, Kept
<1>6. CASE f = file /\ ~ (i <= lastOffset)
  <2>1. lines[f] \in Seq(Pieces)
    BY <1>1
  <2>2. Len(lines[f]) \in Nat
    BY <2>1
  <2>3. lastOffset <= Len(lines[f]) /\ i - lastOffset \in 1 .. Len(lines[f]) - lastOffset
        /\ lastOffset + (i - lastOffset) = i
    BY <1>1, <1>6, <2>2
  <2>4. /\ Len(Unread(f, lastOffset)) = Len(lines[f]) - lastOffset
        /\ \A j \in 1 .. Len(Unread(f, lastOffset)) :
             Unread(f, lastOffset)[j] = lines[f][lastOffset + j]
    BY <1>1, <2>1, <2>3, UnreadIs
  <2>5. Unread(f, lastOffset)[i - lastOffset] = lines[f][i]
    BY <2>3, <2>4
  <2>6. lines[f][i] \in Elems(Unread(f, lastOffset))
    BY <2>3, <2>4, <2>5 DEF Elems
  <2>7. QED
    BY <1>2, <1>6, <2>6
<1>7. QED
  BY <1>3, <1>4, <1>5, <1>6

\* Under the rotation that the deployment documents describe, with torn lines
\* and failures of os.Open, no line begun since the directory is watched is
\* skipped.  A renamed file is closed only when all of it has been read: its
\* write events wait ahead of the event of its rotation (watcher.go:102-107);
\* the offset is 0 again before the next file is opened (watcher.go:99-111,
\* 246-283), and a read takes all there is beyond it (watcher.go:188-217).
THEOREM NoLineLost == Spec => []NothingLost
<1>1. Init => Inv
  <2>1. ASSUME Init PROVE NoLoss
    BY <2>1 DEF Init, NoLoss
  <2>2. QED
    BY <2>1, InitShape, InitInOrder DEF Inv
<1>2. ASSUME Inv, Next PROVE Inv'
  <2>1. faults' = faults
    BY FaultsStay, <1>2
  <2>2. InOrder'
    <3>1. SUFFICES ASSUME Calm' PROVE Ordered'
      BY DEF InOrder, Ordered
    <3>2. Calm
      BY <2>1, <3>1 DEF Calm
    <3>3. Ordered
      BY <1>2, <3>2 DEF Inv, InOrder, Ordered
    <3>4. QED
      BY <1>2, <3>2, <3>3, KeepsOrdered DEF Inv
  <2>3. NoLoss'
    <3>1. SUFFICES ASSUME Mild', LongLines = {}, pc' \in {"watch", "loop"} PROVE Safe'
      BY DEF NoLoss
    <3>2. Mild
      BY <2>1, <3>1 DEF Mild
    <3>3. Ordered
      BY <1>2, <3>1, <3>2 DEF Inv, InOrder, Ordered, Calm, Mild
    <3>4. QED
      BY <1>2, <3>1, <3>2, <3>3, KeepsSafe DEF Inv
  <2>4. QED
    BY <1>2, <2>2, <2>3, KeepsShape DEF Inv
<1>3. Inv /\ UNCHANGED vars => Inv'
  BY ShapeStutters, OrderedStutters, NoLossStutters DEF Inv
<1>4. Inv => NothingLost
  <2>1. SUFFICES ASSUME Inv, Mild, LongLines = {}, Watching,
                        NEW f \in Inodes, NEW p \in Elems(lines[f]), LineOf(p) > mark
                 PROVE  \/ p \in Elems(entries) \/ LineOf(p) \in Elems(entries)
                        \/ file # 0 /\ p \in Elems(Unread(file, lastOffset))
                        \/ path \notin {0, file} /\ p \in Elems(lines[path])
    BY DEF NothingLost
  <2>2. PICK i \in 1 .. Len(lines[f]) : p = lines[f][i]
    BY DEF Elems
  <2>3. Safe
    BY <2>1 DEF Inv, NoLoss, Watching
  <2>4. QED
    BY <2>1, <2>2, <2>3, SafeIsKept DEF Inv
<1>5. Inv /\ [Next]_vars => Inv'
  BY <1>2, <1>3
<1>6. QED
  BY <1>1, <1>4, <1>5, PTL DEF Spec
==============================================================================
