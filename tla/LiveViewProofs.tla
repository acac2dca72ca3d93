--------------------------- MODULE LiveViewProofs ---------------------------
(***************************************************************************)
(* The store of the page, for any sources, any lengths of rings, queues    *)
(* and view, and any number of restarts: the view holds no entry twice and *)
(* each source in descending order, and the watermark covers the view.     *)
(* Until the first restart, with rings as long as the view, it is moreover *)
(* the newest of all the store was given.                                  *)
(***************************************************************************)
EXTENDS LiveView, FiniteSetTheorems, TLAPS

LEMMA Sizes ==
  /\ RingCap \in Nat \ {0} /\ PipeCap \in Nat \ {0} /\ WireCap \in Nat \ {0}
  /\ MaxLogs \in Nat \ {0} /\ MaxTime \in Nat /\ MaxDrops \in Nat /\ MaxRestarts \in Nat
  /\ SourceOrder \in Seq(Sources)
  BY ViewAssumption DEF ViewAssumption

USE Sizes

\* All the entries that are anywhere.
All == (UNION {Elems(ring[s]) \cup Elems(pipe[s]) : s \in Sources})
         \cup Elems(wire) \cup rest.got \cup Elems(buffer)

\* No two entries have the same timestamp.
Distinct(S) == \A x, y \in S : x.at = y.at => x = y

Stamped == Distinct(All) /\ \A e \in All : e.at <= time

NumbersBounded == \A s \in Sources : nextID[s] <= time

\* A source and an ID name one entry; among the entries of different lives of
\* the server they do not.
Keyed(S) == \A x, y \in S : x.src = y.src /\ x.id = y.id => x = y

\* What is in the rings, or was read from them for the request under way, is
\* from the present life of the server.
Current == (UNION {Elems(ring[s]) : s \in Sources})
             \cup (IF rest.phase = "asked" THEN rest.got ELSE {})

Numbered == Keyed(Current) /\ \A e \in Current : e.id <= nextID[e.src]

\* What the store promises of its view b and watermark w, given entries of S.
StoreOK(b, w, S) ==
  /\ b \in Seq(Entry) /\ Len(b) <= MaxLogs /\ Elems(b) \subseteq S
  /\ w \in [Sources -> 0 .. MaxTime]
  /\ \A i, j \in 1 .. Len(b) : i < j /\ b[i].src = b[j].src => b[i].id > b[j].id
  /\ \A i \in 1 .. Len(b) : b[i].id <= w[b[i].src]

Inv == /\ TypeOK /\ Stamped /\ NumbersBounded /\ Numbered /\ Keyed(rest.got)
       /\ StoreOK(buffer, watermark, Elems(buffer))
------------------------------------------------------------------------------
(* Sequences.                                                                *)

LEMMA ElemsOf ==
  ASSUME NEW T, NEW s \in Seq(T)
  PROVE  Elems(s) \subseteq T /\ \A i \in 1 .. Len(s) : s[i] \in Elems(s)
  BY DEF Elems

LEMMA AppendIs ==
  ASSUME NEW T, NEW s \in Seq(T), NEW e \in T
  PROVE  /\ Append(s, e) \in Seq(T) /\ Len(Append(s, e)) = Len(s) + 1
         /\ Elems(Append(s, e)) \subseteq Elems(s) \cup {e}
<1>1. /\ Append(s, e) \in Seq(T) /\ Len(Append(s, e)) = Len(s) + 1
      /\ \A i \in 1 .. Len(s) + 1 : Append(s, e)[i] = IF i = Len(s) + 1 THEN e ELSE s[i]
  OBVIOUS
<1>2. \A i \in 1 .. Len(s) + 1 : i = Len(s) + 1 \/ i \in 1 .. Len(s)
  OBVIOUS
<1>3. QED
  BY <1>1, <1>2 DEF Elems

LEMMA TailIs ==
  ASSUME NEW T, NEW s \in Seq(T), s # <<>>
  PROVE  Tail(s) \in Seq(T) /\ Elems(Tail(s)) \subseteq Elems(s) /\ Head(s) \in Elems(s)
<1>1. /\ Tail(s) \in Seq(T) /\ Len(Tail(s)) = Len(s) - 1 /\ Len(s) >= 1 /\ Head(s) = s[1]
      /\ \A i \in 1 .. Len(s) - 1 : Tail(s)[i] = s[i + 1] /\ i + 1 \in 1 .. Len(s)
  OBVIOUS
<1>2. QED
  BY <1>1 DEF Elems

LEMMA CutIs ==
  ASSUME NEW T, NEW s \in Seq(T), NEW m \in 0 .. Len(s)
  PROVE  /\ SubSeq(s, 1, m) \in Seq(T) /\ Len(SubSeq(s, 1, m)) = m
         /\ \A i \in 1 .. m : SubSeq(s, 1, m)[i] = s[i]
  OBVIOUS

LEMMA FunctionIsSeq ==
  ASSUME NEW T, NEW n \in Nat, NEW f, f = [i \in 1 .. n |-> f[i]], \A i \in 1 .. n : f[i] \in T
  PROVE  f \in Seq(T) /\ Len(f) = n
<1>1. f \in [1 .. n -> T]
  OBVIOUS
<1>2. QED
  BY <1>1

LEMMA LastIs ==
  ASSUME NEW T, NEW s \in Seq(T), NEW n \in Nat
  PROVE  Last(s, n) \in Seq(T) /\ Len(Last(s, n)) <= n /\ Elems(Last(s, n)) \subseteq Elems(s)
<1> DEFINE m == IF Len(s) > n THEN Len(s) - n ELSE 0
<1>1. m \in Nat /\ m <= Len(s) /\ Len(s) - m <= n /\ Last(s, n) = SubSeq(s, m + 1, Len(s))
  BY DEF Last
<1> HIDE DEF m
<1>2. /\ SubSeq(s, m + 1, Len(s)) \in Seq(T) /\ Len(SubSeq(s, m + 1, Len(s))) = Len(s) - m
      /\ \A i \in 1 .. Len(s) - m : SubSeq(s, m + 1, Len(s))[i] = s[m + i] /\ m + i \in 1 .. Len(s)
  BY <1>1
<1>3. QED
  BY <1>1, <1>2 DEF Elems
------------------------------------------------------------------------------
(* Sorting.                                                                  *)

Before(S, e) == {x \in S : SortsBefore(x, e)}

LEMMA EntryFields ==
  ASSUME NEW e \in Entry
  PROVE  /\ e.src \in Sources /\ e.id \in Nat /\ e.at \in Nat
         /\ 1 <= e.id /\ e.id <= MaxTime /\ 1 <= e.at /\ e.at <= MaxTime
<1>1. e.src \in Sources /\ e.id \in 1 .. MaxTime /\ e.at \in 1 .. MaxTime
  BY DEF Entry
<1>2. QED
  BY <1>1

LEMMA SortOrder ==
  ASSUME NEW x \in Entry, NEW y \in Entry, NEW z \in Entry
  PROVE  /\ ~ SortsBefore(x, x)
         /\ SortsBefore(x, y) /\ SortsBefore(y, z) => SortsBefore(x, z)
         /\ x.at # y.at => SortsBefore(x, y) \/ SortsBefore(y, x)
<1>1. /\ x.id \in Nat /\ y.id \in Nat /\ z.id \in Nat
      /\ x.at \in Nat /\ y.at \in Nat /\ z.at \in Nat
  BY EntryFields
<1>2. QED
  BY <1>1 DEF SortsBefore

\* Timestamps are bounded, so a set without two of them is finite.
LEMMA DistinctFinite ==
  ASSUME NEW S \in SUBSET Entry, Distinct(S)
  PROVE  IsFiniteSet(S) /\ Cardinality(S) \in Nat
<1> DEFINE f == [e \in S |-> e.at]
<1>1. f \in Injection(S, 1 .. MaxTime)
  BY DEF Distinct, Entry, Injection, IsInjective
<1>2. IsFiniteSet(1 .. MaxTime)
  BY FS_Interval
<1>3. QED
  BY <1>1, <1>2, FS_Injection, FS_CardinalityType

LEMMA RankLess ==
  ASSUME NEW S \in SUBSET Entry, IsFiniteSet(S), NEW x \in S, NEW y \in S, SortsBefore(x, y)
  PROVE  Cardinality(Before(S, x)) < Cardinality(Before(S, y))
<1>1. Before(S, x) \subseteq Before(S, y) /\ x \notin Before(S, x) /\ x \in Before(S, y)
  BY SortOrder DEF Before
<1>2. IsFiniteSet(Before(S, x)) /\ IsFiniteSet(Before(S, y))
  BY FS_Subset DEF Before
<1>3. Cardinality(Before(S, x)) <= Cardinality(Before(S, y))
  BY <1>1, <1>2, FS_Subset
<1>4. Cardinality(Before(S, x)) # Cardinality(Before(S, y))
  BY <1>1, <1>2, FS_Subset
<1>5. Cardinality(Before(S, x)) \in Nat /\ Cardinality(Before(S, y)) \in Nat
  BY <1>2, FS_CardinalityType
<1>6. QED
  BY <1>3, <1>4, <1>5

LEMMA RankBound ==
  ASSUME NEW S \in SUBSET Entry, IsFiniteSet(S), NEW x \in S
  PROVE  Cardinality(Before(S, x)) + 1 \in 1 .. Cardinality(S)
<1>1. Before(S, x) \subseteq S \ {x}
  BY SortOrder DEF Before
<1>2. IsFiniteSet(S \ {x}) /\ Cardinality(S \ {x}) = Cardinality(S) - 1
  BY FS_RemoveElement
<1>3. IsFiniteSet(Before(S, x)) /\ Cardinality(Before(S, x)) <= Cardinality(S \ {x})
  BY <1>1, <1>2, FS_Subset
<1>4. Cardinality(Before(S, x)) \in Nat /\ Cardinality(S) \in Nat
  BY <1>3, FS_CardinalityType
<1>5. QED
  BY <1>2, <1>3, <1>4

\* Every place of the sorted sequence has its entry.
LEMMA RankOnto ==
  ASSUME NEW S \in SUBSET Entry, Distinct(S), NEW i \in 1 .. Cardinality(S)
  PROVE  \E e \in S : Cardinality(Before(S, e)) = i - 1
<1> DEFINE n == Cardinality(S)
           f == [e \in S |-> Cardinality(Before(S, e)) + 1]
<1>1. IsFiniteSet(S) /\ n \in Nat
  BY DistinctFinite
<1>2. ASSUME NEW e \in S PROVE f[e] \in 1 .. n
  BY <1>1, RankBound
<1>3. ASSUME NEW x \in S, NEW y \in S, x # y PROVE f[x] # f[y]
  <2>1. SortsBefore(x, y) \/ SortsBefore(y, x)
    BY <1>3, SortOrder DEF Distinct
  <2>2. IsFiniteSet(Before(S, x)) /\ IsFiniteSet(Before(S, y))
    BY <1>1, FS_Subset DEF Before
  <2>3. Cardinality(Before(S, x)) \in Nat /\ Cardinality(Before(S, y)) \in Nat
    BY <2>2, FS_CardinalityType
  <2>4. \/ Cardinality(Before(S, x)) < Cardinality(Before(S, y))
        \/ Cardinality(Before(S, y)) < Cardinality(Before(S, x))
    BY <1>1, <2>1, RankLess
  <2>5. f[x] = Cardinality(Before(S, x)) + 1 /\ f[y] = Cardinality(Before(S, y)) + 1
    OBVIOUS
  <2> HIDE DEF f
  <2>6. QED
    BY <2>3, <2>4, <2>5
<1>4. f \in Injection(S, 1 .. n)
  BY <1>2, <1>3 DEF Injection, IsInjective
<1>5. IsFiniteSet(1 .. n) /\ Cardinality(1 .. n) = n
  BY <1>1, FS_Interval
<1>6. f \in Surjection(S, 1 .. n)
  BY <1>4, <1>5, FS_Injection
<1>7. PICK e \in S : f[e] = i
  BY <1>6 DEF Surjection
<1>8. IsFiniteSet(Before(S, e)) /\ Cardinality(Before(S, e)) \in Nat
  BY <1>1, FS_Subset, FS_CardinalityType DEF Before
<1>9. QED
  BY <1>7, <1>8

LEMMA SortedIs ==
  ASSUME NEW S \in SUBSET Entry, Distinct(S)
  PROVE  /\ Sorted(S) \in Seq(S) /\ Len(Sorted(S)) = Cardinality(S)
         /\ \A i, j \in 1 .. Len(Sorted(S)) : i < j => SortsBefore(Sorted(S)[i], Sorted(S)[j])
<1> DEFINE n == Cardinality(S)
           r == Sorted(S)
           Rank(e) == Cardinality(Before(S, e))
<1>1. IsFiniteSet(S) /\ n \in Nat
  BY DistinctFinite
<1>2. r = [i \in 1 .. n |-> CHOOSE e \in S : Rank(e) = i - 1]
  BY DEF Sorted, Before
<1>3. \A i \in 1 .. n : r[i] \in S /\ Rank(r[i]) = i - 1
  <2>1. ASSUME NEW i \in 1 .. n PROVE r[i] \in S /\ Rank(r[i]) = i - 1
    <3>1. r[i] = CHOOSE e \in S : Rank(e) = i - 1
      BY <1>2
    <3>2. \E e \in S : Rank(e) = i - 1
      BY RankOnto
    <3> HIDE DEF r, Rank
    <3>3. QED
      BY <3>1, <3>2
  <2>2. QED
    BY <2>1
<1>4. r \in Seq(S) /\ Len(r) = n
  <2>1. r = [i \in 1 .. n |-> r[i]]
    BY <1>2
  <2> HIDE DEF r, n
  <2>2. QED
    BY <1>1, <1>3, <2>1, FunctionIsSeq
<1>5. ASSUME NEW i \in 1 .. n, NEW j \in 1 .. n, i < j PROVE SortsBefore(r[i], r[j])
  <2>1. r[i] \in S /\ r[j] \in S /\ Rank(r[i]) = i - 1 /\ Rank(r[j]) = j - 1
    BY <1>3
  <2>2. SortsBefore(r[j], r[i]) => Rank(r[j]) < Rank(r[i])
    BY <1>1, <2>1, RankLess
  <2> HIDE DEF r, Rank
  <2>3. r[i] # r[j] /\ ~ SortsBefore(r[j], r[i])
    BY <2>1, <2>2, <1>5
  <2>4. r[i] \in Entry /\ r[j] \in Entry /\ r[i].at # r[j].at
    BY <2>1, <2>3 DEF Distinct
  <2>5. QED
    BY <2>3, <2>4, SortOrder
<1> HIDE DEF r
<1>6. QED
  BY <1>4, <1>5 DEF r
------------------------------------------------------------------------------
(* The store. *)

LEMMA GreatestIs ==
  ASSUME NEW I, NEW m, I # {} => \E g \in I : \A i \in I : i <= g,
         m = IF I = {} THEN 0 ELSE CHOOSE g \in I : \A i \in I : i <= g
  PROVE  IF I = {} THEN m = 0 ELSE m \in I /\ \A i \in I : i <= m
  OBVIOUS

\* The greatest ID of a source in the view bounds all others.
LEMMA WatermarkIs ==
  ASSUME NEW b \in Seq(Entry), Distinct(Elems(b))
  PROVE  /\ Watermark(b) \in [Sources -> 0 .. MaxTime]
         /\ \A i \in 1 .. Len(b) : b[i].id <= Watermark(b)[b[i].src]
         /\ \A s \in Sources : \/ Watermark(b)[s] = 0
                               \/ \E y \in Elems(b) : y.src = s /\ y.id = Watermark(b)[s]
<1> DEFINE T(s) == {x \in Elems(b) : x.src = s}
           ids(s) == {e.id : e \in T(s)}
           w == Watermark(b)
<1>1. \A s \in Sources : w[s] = IF ids(s) = {} THEN 0
                                ELSE CHOOSE m \in ids(s) : \A i \in ids(s) : i <= m
  BY DEF Watermark
<1>2. ASSUME NEW s \in Sources, ids(s) # {}
      PROVE  \E m \in ids(s) : \A i \in ids(s) : i <= m
  <2>1. T(s) \in SUBSET Entry /\ Distinct(T(s)) /\ T(s) # {}
    BY <1>2, ElemsOf DEF Distinct
  <2>2. IsFiniteSet(T(s)) /\ Cardinality(T(s)) \in Nat
    BY <2>1, DistinctFinite
  <2>3. Cardinality(T(s)) # 0
    BY <2>1, <2>2, FS_EmptySet
  <2>4. 1 \in 1 .. Cardinality(T(s))
    BY <2>2, <2>3
  <2>5. PICK e \in T(s) : Cardinality(Before(T(s), e)) = 1 - 1
    BY <2>1, <2>4, RankOnto
  <2>6. IsFiniteSet(Before(T(s), e)) /\ Cardinality(Before(T(s), e)) = 0
    BY <2>2, <2>5, FS_Subset DEF Before
  <2> DEFINE B == Before(T(s), e)
  <2>7. B = {}
    <3>1. IsFiniteSet(B) /\ Cardinality(B) = 0
      BY <2>6
    <3> HIDE DEF B
    <3>2. QED
      BY <3>1, FS_EmptySet
  <2>8. ASSUME NEW x \in T(s) PROVE x.id <= e.id
    BY <2>1, <2>7, EntryFields DEF Before, SortsBefore
  <2>9. QED
    BY <2>8
<1>3. ASSUME NEW s \in Sources
      PROVE  IF ids(s) = {} THEN w[s] = 0
                            ELSE w[s] \in ids(s) /\ \A i \in ids(s) : i <= w[s]
  <2>1. w[s] = IF ids(s) = {} THEN 0 ELSE CHOOSE g \in ids(s) : \A i \in ids(s) : i <= g
    BY <1>1
  <2>2. ids(s) # {} => \E g \in ids(s) : \A i \in ids(s) : i <= g
    BY <1>2
  <2> HIDE DEF ids, w, T
  <2>3. QED
    BY <2>1, <2>2, GreatestIs
<1>4. ASSUME NEW s \in Sources PROVE w[s] \in 0 .. MaxTime
  <2>1. ids(s) \subseteq 0 .. MaxTime
    BY ElemsOf, EntryFields
  <2> HIDE DEF ids, w
  <2>2. QED
    BY <1>3, <2>1
<1>5. ASSUME NEW i \in 1 .. Len(b) PROVE b[i].id <= w[b[i].src]
  <2>1. b[i] \in Entry /\ b[i] \in T(b[i].src) /\ b[i].src \in Sources
    BY ElemsOf, EntryFields
  <2>2. b[i].id \in ids(b[i].src)
    BY <2>1
  <2> HIDE DEF ids, w
  <2>3. QED
    BY <1>3, <2>1, <2>2
<1>6. w \in [Sources -> 0 .. MaxTime]
  <2>1. w = [s \in Sources |-> w[s]]
    BY DEF Watermark
  <2> HIDE DEF w
  <2>2. QED
    BY <1>4, <2>1
<1>7. ASSUME NEW s \in Sources
      PROVE  w[s] = 0 \/ \E y \in Elems(b) : y.src = s /\ y.id = w[s]
  <2>1. w[s] = 0 \/ w[s] \in ids(s)
    BY <1>3
  <2> HIDE DEF w
  <2>2. QED
    BY <2>1
<1>8. QED
  BY <1>5, <1>6, <1>7

LEMMA PushedIs ==
  ASSUME NEW e \in Entry, NEW b, NEW w, NEW S, StoreOK(b, w, S), w[e.src] < e.id,
         NEW d \in Seq(Entry), Len(d) <= MaxLogs, Len(d) <= Len(b) + 1,
         \A i \in 1 .. Len(d) : d[i] = IF i = 1 THEN e ELSE b[i - 1],
         NEW v, v = [w EXCEPT ![e.src] = e.id]
  PROVE  StoreOK(d, v, S \cup {e})
<1>1. /\ b \in Seq(Entry) /\ Len(b) \in Nat /\ Len(d) \in Nat /\ Elems(b) \subseteq S
      /\ w \in [Sources -> 0 .. MaxTime]
  BY DEF StoreOK
<1>2. /\ \A i, j \in 1 .. Len(b) : i < j /\ b[i].src = b[j].src => b[i].id > b[j].id
      /\ \A i \in 1 .. Len(b) : b[i].id <= w[b[i].src]
  BY DEF StoreOK
<1>3. e.src \in Sources /\ e.id \in Nat /\ e.id \in 0 .. MaxTime
  BY EntryFields
<1>4. v \in [Sources -> 0 .. MaxTime] /\ v[e.src] = e.id
  BY <1>1, <1>3
<1>5. ASSUME NEW s \in Sources PROVE w[s] <= v[s] /\ w[s] \in Nat /\ v[s] \in Nat
  <2>1. w[s] \in 0 .. MaxTime /\ v[s] \in 0 .. MaxTime /\ w[e.src] \in 0 .. MaxTime
    BY <1>1, <1>3, <1>4
  <2>2. s # e.src => v[s] = w[s]
    BY <1>1, <1>3
  <2>3. CASE s = e.src
    BY <1>3, <1>4, <2>1, <2>3
  <2>4. QED
    BY <2>1, <2>2, <2>3
<1>6. ASSUME NEW i \in 1 .. Len(d), i # 1
      PROVE  d[i] = b[i - 1] /\ i - 1 \in 1 .. Len(b)
  BY <1>1, <1>6
<1>7. d[1] = e \/ Len(d) = 0
  BY <1>1
<1>8. ASSUME NEW k \in 1 .. Len(b)
      PROVE  /\ b[k].src \in Sources /\ b[k].id \in Nat /\ b[k] \in S
             /\ b[k].id <= v[b[k].src] /\ (b[k].src = e.src => b[k].id < e.id)
  <2>1. b[k] \in Entry /\ b[k] \in S
    BY <1>1, ElemsOf
  <2>2. b[k].src \in Sources /\ b[k].id \in Nat
    BY <2>1, EntryFields
  <2>3. b[k].id <= w[b[k].src]
    BY <1>2
  <2> DEFINE n == b[k].id
             s == b[k].src
  <2>4. s \in Sources /\ n \in Nat /\ n <= w[s]
    BY <2>2, <2>3
  <2> HIDE DEF n, s
  <2>5. w[s] \in Nat /\ v[s] \in Nat /\ w[s] <= v[s]
    BY <1>5, <2>4
  <2>6. n <= v[s]
    BY <2>4, <2>5
  <2>7. ASSUME s = e.src PROVE n < e.id
    <3>1. w[s] < e.id
      BY <2>7
    <3>2. \A x, y, z \in Nat : x <= y /\ y < z => x < z
      OBVIOUS
    <3>3. n \in Nat /\ w[s] \in Nat /\ e.id \in Nat /\ n <= w[s]
      BY <1>3, <2>4, <2>5
    <3>4. QED
      BY <3>1, <3>2, <3>3
  <2>8. QED
    BY <2>1, <2>2, <2>6, <2>7 DEF n, s
<1>9. Elems(d) \subseteq S \cup {e}
  <2>1. ASSUME NEW i \in 1 .. Len(d) PROVE d[i] \in S \cup {e}
    BY <1>6, <1>7, <1>8
  <2>2. QED
    BY <2>1 DEF Elems
<1>10. ASSUME NEW i \in 1 .. Len(d) PROVE d[i].id <= v[d[i].src]
  <2>1. CASE d[i] = e
    BY <1>3, <1>4, <2>1
  <2>2. CASE i # 1
    <3>1. PICK k \in 1 .. Len(b) : d[i] = b[k]
      BY <1>6, <2>2
    <3>2. QED
      BY <1>8, <3>1
  <2>3. QED
    BY <1>1, <1>7, <2>1, <2>2
<1>11. ASSUME NEW i \in 1 .. Len(d), NEW j \in 1 .. Len(d), i < j, d[i].src = d[j].src
       PROVE  d[i].id > d[j].id
  <2>1. j # 1 /\ d[j] = b[j - 1] /\ j - 1 \in 1 .. Len(b) /\ i \in Nat /\ j \in Nat
    BY <1>1, <1>6, <1>11
  <2>2. CASE i = 1
    <3>1. PICK k \in 1 .. Len(b) : d[j] = b[k]
      BY <2>1
    <3>2. d[i] = e /\ b[k].src = e.src
      BY <1>7, <1>11, <2>2, <3>1
    <3>3. b[k].id \in Nat /\ b[k].id < e.id
      BY <1>8, <3>2
    <3>4. QED
      BY <1>3, <3>1, <3>2, <3>3
  <2>3. CASE i # 1
    <3>1. d[i] = b[i - 1] /\ i - 1 \in 1 .. Len(b) /\ i - 1 < j - 1
      BY <1>6, <1>11, <2>1, <2>3
    <3>2. QED
      BY <1>2, <1>11, <2>1, <3>1
  <2>4. QED
    BY <2>2, <2>3
<1>12. QED
  BY <1>4, <1>9, <1>10, <1>11 DEF StoreOK

LEMMA PushOK ==
  ASSUME NEW e \in Entry, StoreOK(buffer, watermark, Elems(buffer)), Push(e)
  PROVE  StoreOK(buffer', watermark', Elems(buffer) \cup {e})
<1> DEFINE m == IF Len(buffer) < MaxLogs THEN Len(buffer) + 1 ELSE MaxLogs
           c == <<e>> \o buffer
           d == SubSeq(c, 1, m)
<1>1. /\ buffer \in Seq(Entry) /\ Len(buffer) \in Nat /\ Len(buffer) <= MaxLogs
      /\ watermark \in [Sources -> 0 .. MaxTime]
  BY DEF StoreOK
<1>2. CASE e.id <= watermark[e.src]
  BY <1>2 DEF Push, StoreOK
<1>3. CASE ~ (e.id <= watermark[e.src])
  <2>1. buffer' = d /\ watermark' = [watermark EXCEPT ![e.src] = e.id]
    BY <1>3 DEF Push
  <2>2. /\ c \in Seq(Entry) /\ Len(c) = Len(buffer) + 1
        /\ \A i \in 1 .. Len(c) : c[i] = IF i = 1 THEN e ELSE buffer[i - 1]
    BY <1>1
  <2>3. m \in 0 .. Len(buffer) + 1 /\ m <= MaxLogs
    BY <1>1
  <2>4. e.src \in Sources /\ e.id \in Nat /\ watermark[e.src] \in 0 .. MaxTime
    BY <1>1, EntryFields
  <2>5. watermark[e.src] < e.id
    BY <1>3, <2>4
  <2> HIDE DEF c, m
  <2>6. d \in Seq(Entry) /\ Len(d) = m /\ \A i \in 1 .. m : d[i] = c[i]
    BY <2>2, <2>3, CutIs
  <2> HIDE DEF d
  <2>7. /\ Len(d) <= MaxLogs /\ Len(d) <= Len(buffer) + 1
        /\ \A i \in 1 .. Len(d) : d[i] = IF i = 1 THEN e ELSE buffer[i - 1]
    BY <1>1, <2>2, <2>3, <2>6
  <2>8. StoreOK(d, watermark', Elems(buffer) \cup {e})
    BY <2>1, <2>5, <2>6, <2>7, PushedIs
  <2>9. QED
    BY <2>1, <2>8
<1>4. QED
  BY <1>2, <1>3

\* Of the entries of one source that are merged, no two have the same ID.
LEMMA UniqueIs ==
  ASSUME StoreOK(buffer, watermark, Elems(buffer)), NEW new \in SUBSET Entry,
         Keyed(new)
  PROVE  /\ Unique(new) \subseteq new \cup Elems(buffer)
         /\ Keyed(Unique(new))
<1>1. Unique(new) \subseteq new \cup Elems(buffer)
  BY DEF Unique
<1>2. ASSUME NEW x \in Elems(buffer), NEW y \in Elems(buffer), x.src = y.src, x.id = y.id
      PROVE  x = y
  <2>1. PICK i \in 1 .. Len(buffer) : x = buffer[i]
    BY DEF Elems
  <2>2. PICK j \in 1 .. Len(buffer) : y = buffer[j]
    BY DEF Elems
  <2>3. x.id \in Nat /\ y.id \in Nat /\ Len(buffer) \in Nat
    BY ElemsOf, EntryFields DEF StoreOK
  <2>4. ~ (i < j) /\ ~ (j < i)
    BY <1>2, <2>1, <2>2, <2>3 DEF StoreOK
  <2>5. QED
    BY <2>1, <2>2, <2>4
<1>3. QED
  BY <1>1, <1>2 DEF Unique, Keyed

LEMMA ReplaceOK ==
  ASSUME StoreOK(buffer, watermark, Elems(buffer)), NEW new \in SUBSET Entry,
         Distinct(new \cup Elems(buffer)),
         Keyed(new),
         ReplaceEntries(new)
  PROVE  StoreOK(buffer', watermark', Elems(buffer) \cup new)
<1> DEFINE U == Unique(new)
           all == Sorted(U)
           m == IF Len(all) < MaxLogs THEN Len(all) ELSE MaxLogs
           d == SubSeq(all, 1, m)
<1>1. /\ U \subseteq new \cup Elems(buffer)
      /\ Keyed(U)
  BY UniqueIs
<1>2. U \in SUBSET Entry /\ Distinct(U)
  BY <1>1, ElemsOf DEF StoreOK, Distinct
<1>3. buffer' = d /\ watermark' = Watermark(buffer')
  BY DEF ReplaceEntries
<1> HIDE DEF U
<1>4. /\ all \in Seq(U) /\ Len(all) \in Nat
      /\ \A i, j \in 1 .. Len(all) : i < j => SortsBefore(all[i], all[j])
  BY <1>2, SortedIs
<1> HIDE DEF all
<1>5. m \in 0 .. Len(all) /\ m <= MaxLogs
  BY <1>4
<1> HIDE DEF m
<1>6. d \in Seq(U) /\ Len(d) = m /\ \A i \in 1 .. m : d[i] = all[i] /\ i \in 1 .. Len(all)
  BY <1>4, <1>5, CutIs
<1> HIDE DEF d
<1>7. Elems(d) \subseteq U /\ d \in Seq(Entry) /\ Distinct(Elems(d))
  BY <1>2, <1>6, ElemsOf DEF Distinct
<1>8. /\ Watermark(d) \in [Sources -> 0 .. MaxTime]
      /\ \A i \in 1 .. Len(d) : d[i].id <= Watermark(d)[d[i].src]
  BY <1>7, WatermarkIs
<1>9. ASSUME NEW i \in 1 .. Len(d), NEW j \in 1 .. Len(d), i < j, d[i].src = d[j].src
      PROVE  d[i].id > d[j].id
  <2>1. SortsBefore(d[i], d[j])
    BY <1>4, <1>6, <1>9
  <2>2. d[i] \in U /\ d[j] \in U /\ d[i] \in Entry /\ d[j] \in Entry
    BY <1>2, <1>6
  <2>3. d[i] # d[j]
    BY <2>1, <2>2, SortOrder
  <2>4. d[i].id # d[j].id
    BY <1>1, <1>9, <2>2, <2>3 DEF Keyed
  <2>5. d[i].id \in Nat /\ d[j].id \in Nat
    BY <2>2, EntryFields
  <2>6. QED
    BY <2>1, <2>4, <2>5 DEF SortsBefore
<1>10. QED
  BY <1>1, <1>3, <1>5, <1>6, <1>7, <1>8, <1>9 DEF StoreOK
------------------------------------------------------------------------------
(* The steps. *)

\* Entries that are anywhere were there before, or are among X.
LEMMA Moves ==
  ASSUME NEW X,
         \A s \in Sources : /\ Elems(ring'[s]) \subseteq Elems(ring[s]) \cup X
                            /\ Elems(pipe'[s]) \subseteq Elems(pipe[s]) \cup X,
         Elems(wire') \subseteq All \cup X, rest'.got \subseteq All \cup X,
         Elems(buffer') \subseteq All \cup X
  PROVE  All' \subseteq All \cup X
  BY DEF All

\* The types in groups.
RestTyped(r) == r \in [phase : {"none", "asked", "answered", "done"},
                       todo : Seq(Sources), got : SUBSET Entry]

ServerTyped ==
  /\ time \in 0 .. MaxTime /\ nextID \in [Sources -> 0 .. MaxTime]
  /\ ring \in [Sources -> Seq(Entry)] /\ \A s \in Sources : Len(ring[s]) <= RingCap
  /\ pipe \in [Sources -> Seq(Entry)]

StoreTyped ==
  /\ buffer \in Seq(Entry) /\ Len(buffer) <= MaxLogs
  /\ watermark \in [Sources -> 0 .. MaxTime]

CountsTyped ==
  /\ conn \in {"off", "connecting", "open", "closed"} /\ paused \in BOOLEAN
  /\ drops \in 0 .. MaxDrops /\ restarts \in 0 .. MaxRestarts /\ opened \in 0 .. MaxTime
  /\ missed \subseteq Entry /\ due \subseteq Entry

LEMMA TypeParts ==
  ASSUME TypeOK
  PROVE  ServerTyped /\ StoreTyped /\ CountsTyped /\ wire \in Seq(Entry) /\ RestTyped(rest)
<1>1. ServerTyped
  BY DEF TypeOK, ServerTyped
<1>2. StoreTyped
  BY DEF TypeOK, StoreTyped
<1>3. CountsTyped
  BY DEF TypeOK, CountsTyped
<1>4. wire \in Seq(Entry) /\ RestTyped(rest)
  BY DEF TypeOK, RestTyped
<1>5. QED
  BY <1>1, <1>2, <1>3, <1>4

LEMMA TypePartsAfter ==
  ASSUME ServerTyped', StoreTyped', CountsTyped', wire' \in Seq(Entry), RestTyped(rest')
  PROVE  TypeOK'
  BY Zenon DEF TypeOK, ServerTyped, StoreTyped, CountsTyped, RestTyped

LEMMA RestFields ==
  ASSUME NEW r, RestTyped(r)
  PROVE  /\ r.phase \in {"none", "asked", "answered", "done"}
         /\ r.todo \in Seq(Sources) /\ r.got \subseteq Entry
  BY DEF RestTyped

LEMMA AllEntries ==
  ASSUME TypeOK
  PROVE  All \subseteq Entry /\ Current \subseteq Entry
<1>1. ASSUME NEW s \in Sources
      PROVE  Elems(ring[s]) \subseteq Entry /\ Elems(pipe[s]) \subseteq Entry
  <2>1. ring[s] \in Seq(Entry) /\ pipe[s] \in Seq(Entry)
    BY TypeParts DEF ServerTyped
  <2>2. QED
    BY <2>1, ElemsOf
<1>2. Elems(wire) \subseteq Entry
  BY TypeParts, ElemsOf
<1>3. Elems(buffer) \subseteq Entry
  <2>1. buffer \in Seq(Entry)
    BY TypeParts DEF StoreTyped
  <2>2. QED
    BY <2>1, ElemsOf
<1>4. rest.got \subseteq Entry
  BY TypeParts, RestFields
<1>5. QED
  BY <1>1, <1>2, <1>3, <1>4 DEF All, Current

LEMMA InitOK == Init => Inv
<1> SUFFICES ASSUME Init PROVE Inv
  OBVIOUS
<1>1. Elems(<<>>) = {} /\ \A T : <<>> \in Seq(T) /\ Len(<<>>) = 0
  BY DEF Elems
<1>2. All = {} /\ Current = {} /\ rest.got = {}
  BY <1>1 DEF Init, All, Current, NoRequest
<1>3. TypeOK
  <2>1. 0 \in 0 .. MaxTime /\ 0 \in 0 .. MaxDrops /\ 0 \in 0 .. MaxRestarts
    OBVIOUS
  <2>2. /\ nextID \in [Sources -> 0 .. MaxTime] /\ watermark \in [Sources -> 0 .. MaxTime]
    BY <2>1 DEF Init
  <2>3. /\ ring \in [Sources -> Seq(Entry)] /\ pipe \in [Sources -> Seq(Entry)]
        /\ \A s \in Sources : ring[s] = <<>>
    BY <1>1 DEF Init
  <2>4. rest \in [phase : {"none", "asked", "answered", "done"},
                  todo : Seq(Sources), got : SUBSET Entry]
    BY <1>1 DEF Init, NoRequest
  <2>5. \A s \in Sources : Len(ring[s]) <= RingCap
    BY <1>1, <2>3
  <2>6. Len(buffer) <= MaxLogs /\ buffer \in Seq(Entry) /\ wire \in Seq(Entry)
    BY <1>1 DEF Init
  <2>7. /\ time \in 0 .. MaxTime /\ drops \in 0 .. MaxDrops /\ restarts \in 0 .. MaxRestarts
        /\ opened \in 0 .. MaxTime /\ paused \in BOOLEAN /\ missed \subseteq Entry
        /\ due \subseteq Entry /\ conn \in {"off", "connecting", "open", "closed"}
    BY <2>1 DEF Init
  <2>8. QED
    BY Zenon, <2>2, <2>3, <2>4, <2>5, <2>6, <2>7 DEF TypeOK
<1>4. StoreOK(buffer, watermark, Elems(buffer))
  BY <1>1 DEF Init, StoreOK
<1>5. NumbersBounded
  BY DEF Init, NumbersBounded
<1>6. QED
  BY <1>2, <1>3, <1>4, <1>5 DEF Inv, Stamped, Distinct, Numbered, Keyed

\* Steps that give the store nothing and number nothing.
LEMMA QuietOK ==
  ASSUME Inv, TypeOK', UNCHANGED <<time, nextID, storeVars>>, All' \subseteq All,
         Current' \subseteq Current, Keyed(rest'.got)
  PROVE  Inv'
<1>1. Stamped' /\ NumbersBounded' /\ Numbered'
  BY DEF Inv, Stamped, Distinct, NumbersBounded, Numbered, Keyed
<1>2. StoreOK(buffer, watermark, Elems(buffer))'
  BY DEF Inv, storeVars, StoreOK
<1>3. QED
  BY <1>1, <1>2 DEF Inv

LEMMA LogLineOK ==
  ASSUME Inv, NEW s \in Sources, LogLine(s)
  PROVE  Inv'
<1> DEFINE e == [src |-> s, id |-> nextID[s] + 1, at |-> time + 1]
<1>1. /\ time \in Nat /\ time + 1 \in 1 .. MaxTime /\ nextID[s] \in Nat
      /\ nextID[s] + 1 \in 1 .. MaxTime
      /\ nextID \in [Sources -> 0 .. MaxTime]
      /\ ring \in [Sources -> Seq(Entry)] /\ pipe \in [Sources -> Seq(Entry)]
  <2>1. ServerTyped /\ nextID[s] <= time /\ time < MaxTime
    BY TypeParts DEF Inv, NumbersBounded, LogLine
  <2>2. /\ time \in Nat /\ nextID[s] \in Nat
        /\ nextID \in [Sources -> 0 .. MaxTime]
        /\ ring \in [Sources -> Seq(Entry)] /\ pipe \in [Sources -> Seq(Entry)]
    BY <2>1 DEF ServerTyped
  <2>3. QED
    BY <2>1, <2>2
<1>2. e \in Entry /\ e.src = s /\ e.id = nextID[s] + 1 /\ e.at = time + 1
  BY <1>1 DEF Entry
<1> HIDE DEF e
<1>3. /\ ring' = [ring EXCEPT ![s] = Last(Append(ring[s], e), RingCap)]
      /\ pipe' = [pipe EXCEPT ![s] = IF Len(pipe[s]) < PipeCap THEN Append(pipe[s], e) ELSE pipe[s]]
      /\ time' = time + 1 /\ nextID' = [nextID EXCEPT ![s] = nextID[s] + 1]
      /\ UNCHANGED <<storeVars, countVars, conn, wire, rest, paused, missed>>
  BY DEF LogLine, e
<1>4. /\ Last(Append(ring[s], e), RingCap) \in Seq(Entry)
      /\ Len(Last(Append(ring[s], e), RingCap)) <= RingCap
      /\ Elems(Last(Append(ring[s], e), RingCap)) \subseteq Elems(ring[s]) \cup {e}
  <2>1. /\ Append(ring[s], e) \in Seq(Entry)
        /\ Elems(Append(ring[s], e)) \subseteq Elems(ring[s]) \cup {e}
    BY <1>1, <1>2, AppendIs
  <2>2. QED
    BY <2>1, LastIs
<1>5. /\ Append(pipe[s], e) \in Seq(Entry)
      /\ Elems(Append(pipe[s], e)) \subseteq Elems(pipe[s]) \cup {e}
  BY <1>1, <1>2, AppendIs
<1>6. \A q \in Sources : /\ Elems(ring'[q]) \subseteq Elems(ring[q]) \cup {e}
                         /\ Elems(pipe'[q]) \subseteq Elems(pipe[q]) \cup {e}
  BY <1>1, <1>3, <1>4, <1>5
<1>7. All' \subseteq All \cup {e}
  <2>1. /\ Elems(wire') \subseteq All \cup {e} /\ rest'.got \subseteq All \cup {e}
        /\ Elems(buffer') \subseteq All \cup {e}
    BY <1>3 DEF storeVars, All
  <2>2. QED
    BY <1>6, <2>1, Moves
<1>8. Current' \subseteq Current \cup {e}
  <2>1. rest' = rest
    BY <1>3
  <2>2. QED
    BY <1>6, <2>1 DEF Current
<1>9. TypeOK'
  <2>1. /\ ring' \in [Sources -> Seq(Entry)] /\ pipe' \in [Sources -> Seq(Entry)]
        /\ \A q \in Sources : Len(ring'[q]) <= RingCap
    BY <1>1, <1>3, <1>4, <1>5, TypeParts DEF Inv, ServerTyped
  <2>2. nextID' \in [Sources -> 0 .. MaxTime] /\ time' \in 0 .. MaxTime
    BY <1>1, <1>3
  <2>3. /\ ServerTyped' /\ StoreTyped' /\ CountsTyped' /\ wire' \in Seq(Entry)
        /\ RestTyped(rest')
    BY <1>3, <2>1, <2>2, TypeParts
       DEF Inv, ServerTyped, StoreTyped, CountsTyped, storeVars, countVars
  <2>4. QED
    BY <2>3, TypePartsAfter
<1>10. Stamped'
  <2>1. \A x \in All : x.at \in Nat /\ x.at <= time
    <3>1. All \subseteq Entry
      BY AllEntries DEF Inv
    <3>2. QED
      BY <3>1, EntryFields DEF Inv, Stamped
  <2>2. \A x \in All : x.at # e.at
    BY <1>1, <1>2, <2>1
  <2>3. \A x \in All' : x.at <= time + 1
    <3>1. ASSUME NEW x \in All' PROVE x.at <= time + 1
      <4>1. CASE x \in All
        BY <1>1, <2>1, <4>1
      <4>2. CASE x = e
        BY <1>1, <1>2, <4>2
      <4>3. QED
        BY <1>7, <4>1, <4>2
    <3>2. QED
      BY <3>1
  <2>4. QED
    BY <1>3, <1>7, <2>2, <2>3 DEF Inv, Stamped, Distinct
<1>11. NumbersBounded'
  <2>1. ASSUME NEW q \in Sources PROVE nextID'[q] <= time'
    <3>1. nextID[q] <= time /\ nextID[q] \in Nat
      BY <1>1 DEF Inv, NumbersBounded
    <3>2. nextID'[q] = IF q = s THEN nextID[s] + 1 ELSE nextID[q]
      BY <1>1, <1>3
    <3>3. QED
      BY <1>1, <1>3, <3>1, <3>2, SMTT(30)
  <2>2. QED
    BY <2>1 DEF NumbersBounded
<1>12. Numbered'
  <2>1. \A x \in Current : /\ x.src \in Sources /\ x.id \in Nat /\ x.id <= nextID[x.src]
                           /\ nextID[x.src] \in Nat
    <3>1. Current \subseteq Entry
      BY AllEntries DEF Inv
    <3>2. QED
      BY <1>1, <3>1, EntryFields DEF Inv, Numbered
  <2>2. ASSUME NEW x \in Current, x.src = s PROVE x.id # e.id
    <3>1. x.id <= nextID[s] /\ x.id \in Nat
      BY <2>1, <2>2
    <3>2. QED
      BY <1>1, <1>2, <3>1
  <2>3. ASSUME NEW x \in Current PROVE x.id <= nextID'[x.src]
    <3>1. nextID'[x.src] = IF x.src = s THEN nextID[x.src] + 1 ELSE nextID[x.src]
      BY <1>1, <1>3, <2>1
    <3>2. QED
      BY <2>1, <3>1
  <2>4. e.id <= nextID'[e.src]
    BY <1>1, <1>2, <1>3
  <2>5. QED
    BY <1>2, <1>8, <2>2, <2>3, <2>4 DEF Inv, Numbered, Keyed
<1>13. QED
  BY <1>3, <1>9, <1>10, <1>11, <1>12 DEF Inv, StoreOK, storeVars

\* An entry of the stream reaches the page, or is dropped.
LEMMA FanOutOK ==
  ASSUME Inv, NEW s \in Sources, FanOut(s) \/ DropAtHub(s)
  PROVE  Inv'
<1> DEFINE e == Head(pipe[s])
<1>1. /\ ServerTyped /\ StoreTyped /\ CountsTyped /\ wire \in Seq(Entry) /\ RestTyped(rest)
      /\ Keyed(rest.got)
  BY TypeParts DEF Inv
<1>2. pipe \in [Sources -> Seq(Entry)] /\ pipe[s] \in Seq(Entry) /\ pipe[s] # <<>>
  BY <1>1 DEF ServerTyped, FanOut, DropAtHub
<1>3. /\ Tail(pipe[s]) \in Seq(Entry) /\ Elems(Tail(pipe[s])) \subseteq Elems(pipe[s])
      /\ e \in Elems(pipe[s])
  BY <1>2, TailIs
<1>4. e \in Entry
  BY <1>2, <1>3, ElemsOf
<1>5. e \in All
  BY <1>3 DEF All
<1> HIDE DEF e
<1>6. /\ pipe' = [pipe EXCEPT ![s] = Tail(pipe[s])]
      /\ wire' = wire \/ wire' = Append(wire, e)
      /\ missed' = missed \/ missed' = missed \cup {e}
      /\ UNCHANGED <<storeVars, countVars, time, nextID, ring, conn, rest, paused>>
  BY DEF FanOut, DropAtHub, e
<1>7. Append(wire, e) \in Seq(Entry) /\ Elems(Append(wire, e)) \subseteq Elems(wire) \cup {e}
  BY <1>1, <1>4, AppendIs
<1>8. wire' \in Seq(Entry) /\ Elems(wire') \subseteq Elems(wire) \cup {e}
  BY <1>1, <1>6, <1>7
<1>9. ASSUME NEW q \in Sources
      PROVE  pipe'[q] \in Seq(Entry) /\ Elems(pipe'[q]) \subseteq Elems(pipe[q])
  <2>1. pipe'[q] = IF q = s THEN Tail(pipe[s]) ELSE pipe[q]
    BY <1>2, <1>6
  <2>2. QED
    BY <1>2, <1>3, <2>1
<1>10. TypeOK'
  <2>1. pipe' \in [Sources -> Seq(Entry)]
    BY <1>2, <1>3, <1>6
  <2>2. ServerTyped'
    BY <1>1, <1>6, <2>1 DEF ServerTyped
  <2>3. StoreTyped'
    BY <1>1, <1>6 DEF StoreTyped, storeVars
  <2>4. CountsTyped'
    BY <1>1, <1>4, <1>6 DEF CountsTyped, storeVars, countVars
  <2>5. RestTyped(rest')
    BY <1>1, <1>6
  <2>6. QED
    BY <1>8, <2>2, <2>3, <2>4, <2>5, TypePartsAfter
<1>11. All' \subseteq All \cup {}
  <2>1. /\ Elems(wire') \subseteq All \cup {} /\ rest'.got \subseteq All \cup {}
        /\ Elems(buffer') \subseteq All \cup {}
    BY <1>5, <1>6, <1>8 DEF storeVars, All
  <2>2. \A q \in Sources : Elems(ring'[q]) \subseteq Elems(ring[q]) \cup {}
    BY <1>6
  <2>3. QED
    BY <1>9, <2>1, <2>2, Moves
<1>12. Current' \subseteq Current
  <2>1. ring' = ring /\ rest' = rest
    BY <1>6
  <2>2. QED
    BY <2>1 DEF Current
<1>13. QED
  BY <1>1, <1>6, <1>10, <1>11, <1>12, QuietOK

\* Steps that change only the connection and the request.
LEMMA AsideOK ==
  ASSUME Inv, UNCHANGED <<serverVars, storeVars>>, CountsTyped',
         wire' \in Seq(Entry), Elems(wire') \subseteq Elems(wire),
         RestTyped(rest'), rest'.got \subseteq All, Keyed(rest'.got),
         rest'.phase = "asked" => rest'.got \subseteq Current
  PROVE  Inv'
<1>1. /\ time' = time /\ nextID' = nextID /\ ring' = ring /\ pipe' = pipe
      /\ buffer' = buffer /\ watermark' = watermark /\ due' = due
  BY DEF serverVars, storeVars
<1>2. TypeOK'
  <2>1. ServerTyped /\ StoreTyped
    BY TypeParts DEF Inv
  <2>2. ServerTyped'
    BY <1>1, <2>1 DEF ServerTyped
  <2>3. StoreTyped'
    BY <1>1, <2>1 DEF StoreTyped
  <2>4. QED
    BY <2>2, <2>3, TypePartsAfter
<1>3. All' \subseteq All
  BY <1>1 DEF All
<1>4. Current' \subseteq Current
  BY <1>1 DEF Current
<1>5. QED
  BY <1>1, <1>2, <1>3, <1>4, QuietOK DEF storeVars

\* ... and of these, the ones that leave the request as it is, or forget it.
LEMMA RestKept ==
  ASSUME Inv, \/ rest' = rest
              \/ rest' = [NoRequest EXCEPT !.phase = "done"]
              \/ rest' = [NoRequest EXCEPT !.phase = "asked", !.todo = SourceOrder]
  PROVE  /\ RestTyped(rest') /\ rest'.got \subseteq All /\ Keyed(rest'.got)
         /\ rest'.phase = "asked" => rest'.got \subseteq Current
<1>1. CASE rest' = rest
  <2>1. RestTyped(rest) /\ Keyed(rest.got)
    BY TypeParts DEF Inv
  <2>2. rest.got \subseteq All /\ (rest.phase = "asked" => rest.got \subseteq Current)
    BY DEF All, Current
  <2>3. QED
    BY <1>1, <2>1, <2>2
<1>2. CASE rest' = [NoRequest EXCEPT !.phase = "done"]
  <2>1. rest' = [phase |-> "done", todo |-> <<>>, got |-> {}]
    BY <1>2 DEF NoRequest
  <2>2. <<>> \in Seq(Sources)
    OBVIOUS
  <2>3. QED
    BY <2>1, <2>2 DEF RestTyped, Keyed
<1>3. CASE rest' = [NoRequest EXCEPT !.phase = "asked", !.todo = SourceOrder]
  <2>1. rest' = [phase |-> "asked", todo |-> SourceOrder, got |-> {}]
    BY <1>3 DEF NoRequest
  <2>2. QED
    BY <2>1 DEF RestTyped, Keyed
<1>4. QED
  BY <1>1, <1>2, <1>3

LEMMA ReadSourceOK == Inv /\ ReadSource => Inv'
<1> SUFFICES ASSUME Inv, ReadSource PROVE Inv'
  OBVIOUS
<1> DEFINE h == Head(rest.todo)
           r == [rest EXCEPT !.todo = Tail(rest.todo), !.got = rest.got \cup Elems(ring[h])]
<1>1. /\ ServerTyped /\ CountsTyped /\ wire \in Seq(Entry) /\ RestTyped(rest)
  BY TypeParts DEF Inv
<1>2. /\ rest.phase = "asked" /\ rest.todo # <<>> /\ rest' = r
      /\ UNCHANGED <<serverVars, storeVars, countVars, conn, wire, paused>>
  BY DEF ReadSource
<1>3. rest.todo \in Seq(Sources) /\ rest.got \subseteq Entry
  BY <1>1, RestFields
<1>4. h \in Sources /\ Tail(rest.todo) \in Seq(Sources)
  BY <1>2, <1>3, TailIs, ElemsOf
<1>5. r.phase = "asked" /\ r.todo = Tail(rest.todo) /\ r.got = rest.got \cup Elems(ring[h])
  BY <1>1, <1>2 DEF RestTyped
<1>6. ring[h] \in Seq(Entry)
  BY <1>1, <1>4 DEF ServerTyped
<1>7. Elems(ring[h]) \subseteq Entry
  BY <1>6, ElemsOf
<1>8. RestTyped(r)
  BY <1>1, <1>4, <1>3, <1>7 DEF RestTyped
<1> HIDE DEF r, h
<1>9. r.got \subseteq Current /\ r.got \subseteq All
  BY <1>2, <1>4, <1>5 DEF Current, All
<1>10. Keyed(r.got)
  BY <1>9 DEF Inv, Numbered, Keyed
<1>11. CountsTyped'
  BY <1>1, <1>2 DEF CountsTyped, serverVars, storeVars, countVars
<1>12. wire' = wire
  BY <1>2
<1>13. QED
  BY <1>1, <1>2, <1>8, <1>9, <1>10, <1>11, <1>12, AsideOK

LEMMA AnswerOK == Inv /\ Answer => Inv'
<1> SUFFICES ASSUME Inv, Answer PROVE Inv'
  OBVIOUS
<1> DEFINE r == [rest EXCEPT !.phase = "answered", !.got = Newest(rest.got, MaxLogs)]
<1>1. /\ CountsTyped /\ wire \in Seq(Entry) /\ RestTyped(rest) /\ Keyed(rest.got)
  BY TypeParts DEF Inv
<1>2. rest' = r /\ UNCHANGED <<serverVars, storeVars, countVars, conn, wire, paused>>
  BY DEF Answer
<1>3. Newest(rest.got, MaxLogs) \subseteq rest.got
  BY DEF Newest
<1>4. r.phase = "answered" /\ r.got \subseteq rest.got /\ RestTyped(r)
  BY <1>1, <1>3 DEF RestTyped
<1> HIDE DEF r
<1>5. r.got \subseteq All /\ Keyed(r.got)
  BY <1>1, <1>4 DEF All, Keyed
<1>6. CountsTyped'
  BY <1>1, <1>2 DEF CountsTyped, serverVars, storeVars, countVars
<1>7. wire' = wire
  BY <1>2
<1>8. QED
  BY <1>1, <1>2, <1>4, <1>5, <1>6, <1>7, AsideOK

LEMMA RestartOK == Inv /\ Restart => Inv'
<1> SUFFICES ASSUME Inv, Restart PROVE Inv'
  OBVIOUS
<1>1. /\ ServerTyped /\ StoreTyped /\ CountsTyped /\ RestTyped(rest) /\ Keyed(rest.got)
  BY TypeParts DEF Inv
<1>2. /\ nextID' = [s \in Sources |-> 0] /\ ring' = [s \in Sources |-> <<>>]
      /\ pipe' = [s \in Sources |-> <<>>] /\ wire' = <<>>
      /\ UNCHANGED <<storeVars, time, missed, paused, drops, opened>>
      /\ restarts < MaxRestarts /\ restarts' = restarts + 1
      /\ conn' = IF conn \in {"connecting", "open"} THEN "closed" ELSE conn
  BY DEF Restart
<1>3. \A T : <<>> \in Seq(T) /\ Len(<<>>) = 0 /\ Elems(<<>>) = {}
  BY DEF Elems
<1>4. /\ rest'.phase # "asked"
      /\ rest' = rest \/ rest' = [NoRequest EXCEPT !.phase = "done"]
  BY DEF Restart, NoRequest
<1>5. RestTyped(rest') /\ rest'.got \subseteq All /\ Keyed(rest'.got)
  BY <1>4, RestKept
<1>6. All' \subseteq All
  <2>1. \A s \in Sources : Elems(ring'[s]) = {} /\ Elems(pipe'[s]) = {}
    BY <1>2, <1>3
  <2>2. Elems(wire') = {} /\ buffer' = buffer
    BY <1>2, <1>3 DEF storeVars
  <2>3. /\ \A s \in Sources : /\ Elems(ring'[s]) \subseteq Elems(ring[s]) \cup {}
                              /\ Elems(pipe'[s]) \subseteq Elems(pipe[s]) \cup {}
        /\ Elems(wire') \subseteq All \cup {} /\ rest'.got \subseteq All \cup {}
        /\ Elems(buffer') \subseteq All \cup {}
    BY <1>5, <2>1, <2>2 DEF All
  <2>4. All' \subseteq All \cup {}
    BY <2>3, Moves
  <2>5. QED
    BY <2>4
<1>7. Current' = {}
  <2>1. \A s \in Sources : Elems(ring'[s]) = {}
    BY <1>2, <1>3
  <2>2. QED
    BY <1>4, <2>1 DEF Current
<1>8. TypeOK'
  <2>1. /\ nextID' \in [Sources -> 0 .. MaxTime] /\ restarts' \in 0 .. MaxRestarts
    BY <1>1, <1>2 DEF CountsTyped
  <2>2. /\ ring' \in [Sources -> Seq(Entry)] /\ pipe' \in [Sources -> Seq(Entry)]
        /\ \A s \in Sources : ring'[s] = <<>>
    BY <1>2, <1>3
  <2>3. \A s \in Sources : Len(ring'[s]) <= RingCap
    BY <1>3, <2>2
  <2>4. ServerTyped'
    BY <1>1, <1>2, <2>1, <2>2, <2>3 DEF ServerTyped
  <2>5. StoreTyped'
    BY <1>1, <1>2 DEF StoreTyped, storeVars
  <2>6. CountsTyped'
    BY <1>1, <1>2, <2>1 DEF CountsTyped, storeVars
  <2>7. wire' \in Seq(Entry)
    BY <1>2, <1>3
  <2>8. QED
    BY <1>5, <2>4, <2>5, <2>6, <2>7, TypePartsAfter
<1>9. Stamped'
  BY <1>2, <1>6 DEF Inv, Stamped, Distinct
<1>10. NumbersBounded'
  <2>1. time \in Nat /\ time' = time
    BY <1>1, <1>2 DEF ServerTyped
  <2>2. QED
    BY <1>2, <2>1 DEF NumbersBounded
<1>11. Numbered'
  BY <1>7 DEF Numbered, Keyed
<1>12. StoreOK(buffer, watermark, Elems(buffer))'
  BY <1>2 DEF Inv, StoreOK, storeVars
<1>13. QED
  BY <1>5, <1>8, <1>9, <1>10, <1>11, <1>12 DEF Inv
------------------------------------------------------------------------------
(* Steps of the store. *)

LEMMA StoreStepOK ==
  ASSUME Inv, NEW S, StoreOK(buffer', watermark', S), S \subseteq All, S \subseteq Entry,
         due' \subseteq Entry, UNCHANGED <<serverVars, countVars, conn, paused>>,
         wire' \in Seq(Entry), Elems(wire') \subseteq Elems(wire),
         RestTyped(rest'), rest'.got \subseteq All, Keyed(rest'.got),
         rest'.phase = "asked" => rest'.got \subseteq Current
  PROVE  Inv'
<1>1. /\ time' = time /\ nextID' = nextID /\ ring' = ring /\ pipe' = pipe /\ missed' = missed
      /\ drops' = drops /\ restarts' = restarts /\ opened' = opened
      /\ conn' = conn /\ paused' = paused
  BY DEF serverVars, countVars
<1>2. TypeOK'
  <2>1. ServerTyped /\ CountsTyped
    BY TypeParts DEF Inv
  <2>2. ServerTyped'
    BY <1>1, <2>1 DEF ServerTyped
  <2>3. StoreTyped'
    BY DEF StoreTyped, StoreOK
  <2>4. CountsTyped'
    BY <1>1, <2>1 DEF CountsTyped
  <2>5. QED
    BY <2>2, <2>3, <2>4, TypePartsAfter
<1>3. Elems(buffer') \subseteq All
  BY DEF StoreOK
<1>4. All' \subseteq All
  BY <1>1, <1>3 DEF All
<1>5. Current' \subseteq Current
  BY <1>1 DEF Current
<1>6. Stamped' /\ NumbersBounded' /\ Numbered'
  BY <1>1, <1>4, <1>5 DEF Inv, Stamped, Distinct, NumbersBounded, Numbered, Keyed
<1>7. StoreOK(buffer, watermark, Elems(buffer))'
  BY DEF StoreOK
<1>8. QED
  BY <1>2, <1>6, <1>7 DEF Inv

LEMMA SyncLogsOK == Inv /\ SyncLogs => Inv'
<1> SUFFICES ASSUME Inv, SyncLogs PROVE Inv'
  OBVIOUS
<1> DEFINE S == Elems(buffer) \cup rest.got
<1>1. /\ CountsTyped /\ wire \in Seq(Entry) /\ RestTyped(rest) /\ Keyed(rest.got)
      /\ StoreOK(buffer, watermark, Elems(buffer)) /\ Distinct(All) /\ All \subseteq Entry
  BY TypeParts, AllEntries DEF Inv, Stamped
<1>2. S \subseteq All /\ rest.got \in SUBSET Entry
  BY <1>1 DEF All
<1>3. Distinct(rest.got \cup Elems(buffer))
  BY <1>1, <1>2 DEF Distinct
<1>4. /\ ReplaceEntries(rest.got) /\ due' = due \cup rest.got
      /\ rest' = [NoRequest EXCEPT !.phase = "done"]
      /\ UNCHANGED <<serverVars, countVars, conn, wire, paused>>
  BY DEF SyncLogs
<1>5. StoreOK(buffer', watermark', S)
  BY <1>1, <1>2, <1>3, <1>4, ReplaceOK
<1>6. due' \subseteq Entry
  BY <1>1, <1>2, <1>4 DEF CountsTyped
<1>7. /\ RestTyped(rest') /\ rest'.got \subseteq All /\ Keyed(rest'.got)
      /\ rest'.phase = "asked" => rest'.got \subseteq Current
  BY <1>4, RestKept
<1>8. wire' = wire
  BY <1>4
<1> HIDE DEF S
<1>9. QED
  BY <1>1, <1>2, <1>4, <1>5, <1>6, <1>7, <1>8, StoreStepOK

LEMMA OnMessageOK == Inv /\ OnMessage => Inv'
<1> SUFFICES ASSUME Inv, OnMessage PROVE Inv'
  OBVIOUS
<1> DEFINE e == Head(wire)
           S == Elems(buffer) \cup {e}
<1>1. /\ CountsTyped /\ wire \in Seq(Entry) /\ All \subseteq Entry
      /\ StoreOK(buffer, watermark, Elems(buffer))
  BY TypeParts, AllEntries DEF Inv
<1>2. /\ wire # <<>> /\ wire' = Tail(wire) /\ rest' = rest
      /\ UNCHANGED <<serverVars, countVars, conn, rest, paused>>
      /\ IF paused THEN UNCHANGED storeVars ELSE Push(e) /\ due' = due \cup {e}
  BY DEF OnMessage
<1>3. /\ wire' \in Seq(Entry) /\ Elems(wire') \subseteq Elems(wire) /\ e \in Elems(wire)
  BY <1>1, <1>2, TailIs
<1>4. e \in Entry /\ S \subseteq All
  BY <1>1, <1>3 DEF All
<1>5. StoreOK(buffer', watermark', S)
  <2>1. CASE paused
    BY <1>1, <1>2, <2>1 DEF StoreOK, storeVars
  <2>2. CASE ~ paused
    BY <1>1, <1>2, <1>4, <2>2, PushOK
  <2>3. QED
    BY <2>1, <2>2
<1>6. due' \subseteq Entry
  BY <1>1, <1>2, <1>4 DEF CountsTyped, storeVars
<1>7. /\ RestTyped(rest') /\ rest'.got \subseteq All /\ Keyed(rest'.got)
      /\ rest'.phase = "asked" => rest'.got \subseteq Current
  BY <1>2, RestKept
<1> HIDE DEF S, e
<1>8. QED
  BY <1>1, <1>2, <1>3, <1>4, <1>5, <1>6, <1>7, StoreStepOK

LEMMA ClearOK == Inv /\ Clear => Inv'
<1> SUFFICES ASSUME Inv, Clear PROVE Inv'
  OBVIOUS
<1>1. /\ buffer' = <<>> /\ watermark' = [s \in Sources |-> 0] /\ due' = {}
      /\ UNCHANGED <<serverVars, countVars, conn, wire, rest, paused>>
      /\ rest' = rest /\ wire' = wire
  BY DEF Clear
<1>2. \A T : <<>> \in Seq(T) /\ Len(<<>>) = 0 /\ Elems(<<>>) = {}
  BY DEF Elems
<1>3. StoreOK(buffer', watermark', {})
  <2>1. watermark' \in [Sources -> 0 .. MaxTime]
    BY <1>1
  <2>2. QED
    BY <1>1, <1>2, <2>1 DEF StoreOK
<1>4. /\ RestTyped(rest') /\ rest'.got \subseteq All /\ Keyed(rest'.got)
      /\ rest'.phase = "asked" => rest'.got \subseteq Current
  BY <1>1, RestKept
<1>5. wire' \in Seq(Entry) /\ Elems(wire') \subseteq Elems(wire)
  BY <1>1, TypeParts DEF Inv
<1>6. QED
  BY <1>1, <1>3, <1>4, <1>5, StoreStepOK
------------------------------------------------------------------------------
(* The invariant. *)

\* The remaining steps: they change the connection, the request and the counts.
LEMMA AsideStepsOK ==
  Inv /\ (\/ Register \/ Mount \/ SyncFails \/ TogglePause \/ ConnectionLost
          \/ Reconnect \/ UNCHANGED vars) => Inv'
<1> SUFFICES ASSUME Inv, \/ Register \/ Mount \/ SyncFails \/ TogglePause
                         \/ ConnectionLost \/ Reconnect \/ UNCHANGED vars
             PROVE  Inv'
  OBVIOUS
<1>1. UNCHANGED <<serverVars, storeVars>>
  BY DEF Register, Mount, SyncFails, TogglePause, ConnectionLost, Reconnect, vars
<1>2. \/ rest' = rest
      \/ rest' = [NoRequest EXCEPT !.phase = "done"]
      \/ rest' = [NoRequest EXCEPT !.phase = "asked", !.todo = SourceOrder]
  BY DEF Register, Mount, SyncFails, TogglePause, ConnectionLost, Reconnect, vars
<1>3. wire' \in {wire, <<>>}
  BY DEF Register, Mount, SyncFails, TogglePause, ConnectionLost, Reconnect, vars
<1>4. wire' \in Seq(Entry) /\ Elems(wire') \subseteq Elems(wire)
  <2>1. wire \in Seq(Entry) /\ <<>> \in Seq(Entry)
    BY TypeParts DEF Inv
  <2>2. Elems(<<>>) = {}
    BY DEF Elems
  <2>3. QED
    BY <1>3, <2>1, <2>2
<1>5. CountsTyped'
  <2>1. CountsTyped /\ time \in 0 .. MaxTime /\ missed' = missed /\ due' = due
    BY <1>1, TypeParts DEF Inv, ServerTyped, serverVars, storeVars
  <2>2. /\ conn' \in {conn, "connecting", "open", "closed"} /\ paused' \in {paused, ~ paused}
        /\ restarts' = restarts /\ opened' \in {opened, time}
    BY DEF Register, Mount, SyncFails, TogglePause, ConnectionLost, Reconnect, vars, countVars
  <2>3. drops' = drops \/ (drops < MaxDrops /\ drops' = drops + 1)
    BY DEF Register, Mount, SyncFails, TogglePause, ConnectionLost, Reconnect, vars, countVars
  <2>4. drops' \in 0 .. MaxDrops
    BY <2>1, <2>3 DEF CountsTyped
  <2>5. paused' \in BOOLEAN
    BY <2>1, <2>2 DEF CountsTyped
  <2>6. QED
    BY <2>1, <2>2, <2>4, <2>5 DEF CountsTyped
<1>6. QED
  BY <1>1, <1>2, <1>4, <1>5, RestKept, AsideOK

LEMMA StepOK == Inv /\ [Next]_vars => Inv'
<1> SUFFICES ASSUME Inv, [Next]_vars PROVE Inv'
  OBVIOUS
<1>1. ASSUME NEW s \in Sources, LogLine(s) PROVE Inv'
  BY <1>1, LogLineOK
<1>2. ASSUME NEW s \in Sources, FanOut(s) \/ DropAtHub(s) PROVE Inv'
  BY <1>2, FanOutOK
<1>3. CASE ReadSource \/ Answer \/ Restart
  BY <1>3, ReadSourceOK, AnswerOK, RestartOK
<1>4. CASE SyncLogs \/ OnMessage \/ Clear
  BY <1>4, SyncLogsOK, OnMessageOK, ClearOK
<1>5. CASE \/ Register \/ Mount \/ SyncFails \/ TogglePause
           \/ ConnectionLost \/ Reconnect \/ UNCHANGED vars
  BY <1>5, AsideStepsOK
<1>6. QED
  BY <1>1, <1>2, <1>3, <1>4, <1>5 DEF Next, Server, Page

\* Nothing the server, the network and the user do in whatever order takes a
\* variable out of its type: the view never exceeds MAX_LOGS, a ring never
\* buffer_size (useLogStore.ts:18-55, LogViewer.vue:113-194).
THEOREM TypeCorrect == Spec => []TypeOK
<1>1. Inv => TypeOK
  BY DEF Inv
<1>2. QED
  BY <1>1, InitOK, StepOK, PTL DEF Spec

\* However the answer to the request and the stream overlap, and however often
\* the server restarts and numbers from 1 again, the view shows no entry twice
\* and the entries of a source in descending order (useLogStore.ts:20-55).
THEOREM ViewIsOrdered == Spec => []NewestFirst
<1>1. Inv => NewestFirst
  BY DEF Inv, StoreOK, NewestFirst
<1>2. QED
  BY <1>1, InitOK, StepOK, PTL DEF Spec

\* push is always right to let through an ID above the watermark: no entry in
\* view has that ID (useLogStore.ts:21-30, 48-52).
THEOREM WatermarkAlwaysCovers == Spec => []WatermarkCovers
<1>1. Inv => WatermarkCovers
  BY DEF Inv, StoreOK, WatermarkCovers
<1>2. QED
  BY <1>1, InitOK, StepOK, PTL DEF Spec
------------------------------------------------------------------------------
(* The newest of a set. *)

After(D, x) == {y \in D : y.at > x.at}

\* T are the n newest entries of D, or all.
IsTop(T, D, n) ==
  /\ T \subseteq D /\ Cardinality(T) <= n /\ (T = D \/ Cardinality(T) = n)
  /\ \A x \in T, y \in D \ T : y.at < x.at

LEMMA AfterFinite ==
  ASSUME NEW D, IsFiniteSet(D), NEW x
  PROVE  IsFiniteSet(After(D, x)) /\ Cardinality(After(D, x)) \in Nat
  BY FS_Subset, FS_CardinalityType DEF After

LEMMA AfterGrows ==
  ASSUME NEW E, IsFiniteSet(E), NEW D \in SUBSET E, NEW x
  PROVE  Cardinality(After(D, x)) <= Cardinality(After(E, x))
<1>1. After(D, x) \in SUBSET After(E, x)
  BY DEF After
<1>2. QED
  BY <1>1, AfterFinite, FS_Subset

LEMMA AfterLess ==
  ASSUME NEW D \in SUBSET Entry, IsFiniteSet(D), NEW x \in D, NEW y \in D, x.at > y.at
  PROVE  Cardinality(After(D, x)) < Cardinality(After(D, y))
<1>1. After(D, x) \subseteq After(D, y) /\ x \notin After(D, x) /\ x \in After(D, y)
  <2>1. \A z \in D : z.at \in Nat
    BY EntryFields
  <2>2. QED
    BY <2>1 DEF After
<1>2. /\ IsFiniteSet(After(D, y)) /\ Cardinality(After(D, x)) \in Nat
      /\ Cardinality(After(D, y)) \in Nat
  BY AfterFinite
<1>3. Cardinality(After(D, x)) <= Cardinality(After(D, y))
  BY <1>1, <1>2, FS_Subset
<1>4. Cardinality(After(D, x)) # Cardinality(After(D, y))
  BY <1>1, <1>2, FS_Subset
<1>5. QED
  BY <1>2, <1>3, <1>4

LEMMA AfterBound ==
  ASSUME NEW D \in SUBSET Entry, IsFiniteSet(D), NEW x \in D
  PROVE  Cardinality(After(D, x)) + 1 \in 1 .. Cardinality(D)
<1>1. After(D, x) \in SUBSET (D \ {x})
  BY EntryFields DEF After
<1>2. IsFiniteSet(D \ {x}) /\ Cardinality(D \ {x}) = Cardinality(D) - 1
  BY FS_RemoveElement
<1>3. Cardinality(After(D, x)) <= Cardinality(D \ {x})
  BY <1>1, <1>2, FS_Subset
<1>4. Cardinality(After(D, x)) \in Nat /\ Cardinality(D) \in Nat
  BY AfterFinite, FS_CardinalityType
<1>5. QED
  BY <1>2, <1>3, <1>4

\* Each number of newer entries, up to all but one, is that of some entry.
LEMMA AfterOnto ==
  ASSUME NEW D \in SUBSET Entry, Distinct(D), NEW i \in 1 .. Cardinality(D)
  PROVE  \E e \in D : Cardinality(After(D, e)) + 1 = i
<1> DEFINE n == Cardinality(D)
           f == [e \in D |-> Cardinality(After(D, e)) + 1]
<1>1. IsFiniteSet(D) /\ n \in Nat
  BY DistinctFinite
<1>2. ASSUME NEW e \in D PROVE f[e] \in 1 .. n
  BY <1>1, AfterBound
<1>3. ASSUME NEW x \in D, NEW y \in D, x # y PROVE f[x] # f[y]
  <2>1. x.at > y.at \/ y.at > x.at
    BY <1>3, EntryFields DEF Distinct
  <2>2. Cardinality(After(D, x)) \in Nat /\ Cardinality(After(D, y)) \in Nat
    BY <1>1, AfterFinite
  <2>3. \/ Cardinality(After(D, x)) < Cardinality(After(D, y))
        \/ Cardinality(After(D, y)) < Cardinality(After(D, x))
    BY <1>1, <2>1, AfterLess
  <2>4. f[x] = Cardinality(After(D, x)) + 1 /\ f[y] = Cardinality(After(D, y)) + 1
    OBVIOUS
  <2> HIDE DEF f
  <2>5. QED
    BY <2>2, <2>3, <2>4
<1>4. f \in Injection(D, 1 .. n)
  BY <1>2, <1>3 DEF Injection, IsInjective
<1>5. IsFiniteSet(1 .. n) /\ Cardinality(1 .. n) = n
  BY <1>1, FS_Interval
<1>6. f \in Surjection(D, 1 .. n)
  BY <1>4, <1>5, FS_Injection
<1>7. QED
  BY <1>6 DEF Surjection

LEMMA NewestIs ==
  ASSUME NEW D, NEW n
  PROVE  \A e : e \in Newest(D, n) <=> e \in D /\ Cardinality(After(D, e)) < n
  BY DEF Newest, After

LEMMA TopIsNewest ==
  ASSUME NEW D \in SUBSET Entry, Distinct(D), NEW n \in Nat, NEW T, IsTop(T, D, n)
  PROVE  T = Newest(D, n)
<1>1. IsFiniteSet(D) /\ IsFiniteSet(T) /\ Cardinality(T) \in Nat /\ T \subseteq D
  BY DistinctFinite, FS_Subset, FS_CardinalityType DEF IsTop
<1>2. ASSUME NEW e \in T PROVE Cardinality(After(D, e)) < n
  <2>1. After(D, e) \in SUBSET (T \ {e})
    BY <1>1, EntryFields DEF After, IsTop
  <2>2. IsFiniteSet(T \ {e}) /\ Cardinality(T \ {e}) = Cardinality(T) - 1
    BY <1>1, FS_RemoveElement
  <2>3. Cardinality(After(D, e)) <= Cardinality(T \ {e}) /\ Cardinality(After(D, e)) \in Nat
    BY <1>1, <2>1, <2>2, FS_Subset, AfterFinite
  <2>4. Cardinality(T) <= n
    BY DEF IsTop
  <2>5. QED
    BY <1>1, <2>2, <2>3, <2>4
<1>3. ASSUME NEW e \in D, e \notin T PROVE ~ (Cardinality(After(D, e)) < n)
  <2>1. T \in SUBSET After(D, e) /\ Cardinality(T) = n
    BY <1>1, <1>3, EntryFields DEF After, IsTop
  <2>2. Cardinality(T) <= Cardinality(After(D, e)) /\ Cardinality(After(D, e)) \in Nat
    BY <1>1, <2>1, FS_Subset, AfterFinite
  <2>3. QED
    BY <2>1, <2>2
<1>4. \A e : e \in T <=> e \in Newest(D, n)
  <2>1. \A e : e \in Newest(D, n) <=> e \in D /\ Cardinality(After(D, e)) < n
    BY NewestIs, Zenon
  <2>2. QED
    BY <1>1, <1>2, <1>3, <2>1
<1>5. QED
  BY <1>4

LEMMA NewestIsTop ==
  ASSUME NEW D \in SUBSET Entry, Distinct(D), NEW n \in Nat
  PROVE  IsTop(Newest(D, n), D, n)
<1>1. PICK T : T = Newest(D, n)
  OBVIOUS
<1>2. /\ \A e : e \in T <=> e \in D /\ Cardinality(After(D, e)) < n
      /\ IsFiniteSet(D) /\ IsFiniteSet(T) /\ T \subseteq D /\ Cardinality(D) \in Nat
  BY <1>1, NewestIs, DistinctFinite, FS_Subset
<1> DEFINE m == IF Cardinality(D) < n THEN Cardinality(D) ELSE n
           f == [e \in T |-> Cardinality(After(D, e)) + 1]
<1>3. /\ m \in Nat /\ m <= n /\ m <= Cardinality(D)
      /\ \A i \in Nat : i < n /\ i + 1 \in 1 .. Cardinality(D) => i + 1 \in 1 .. m
      /\ \A i \in 1 .. m : i \in 1 .. Cardinality(D)
      /\ \A i \in 1 .. m, j \in Nat : j + 1 = i => j < n
  BY <1>2
<1> HIDE DEF m
<1>4. ASSUME NEW e \in T PROVE f[e] \in 1 .. m
  <2>1. /\ Cardinality(After(D, e)) \in Nat /\ Cardinality(After(D, e)) < n
        /\ Cardinality(After(D, e)) + 1 \in 1 .. Cardinality(D)
    BY <1>2, AfterFinite, AfterBound
  <2>2. QED
    BY <1>3, <2>1
<1>5. ASSUME NEW x \in T, NEW y \in T, f[x] = f[y] PROVE x = y
  <2>1. x \in D /\ y \in D /\ x.at \in Nat /\ y.at \in Nat
    BY <1>2, EntryFields
  <2>2. f[x] = Cardinality(After(D, x)) + 1 /\ f[y] = Cardinality(After(D, y)) + 1
    OBVIOUS
  <2>3. Cardinality(After(D, x)) \in Nat /\ Cardinality(After(D, y)) \in Nat
    BY <1>2, AfterFinite
  <2> HIDE DEF f
  <2>4. Cardinality(After(D, x)) = Cardinality(After(D, y))
    <3>1. PICK a \in Nat, b \in Nat :
            a = Cardinality(After(D, x)) /\ b = Cardinality(After(D, y))
      BY <2>3
    <3>2. a + 1 = b + 1
      BY <1>5, <2>2, <3>1
    <3>3. QED
      BY <3>1, <3>2
  <2>5. ~ (x.at > y.at) /\ ~ (y.at > x.at)
    <3>1. PICK a \in Nat : a = Cardinality(After(D, x)) /\ a = Cardinality(After(D, y))
      BY <2>3, <2>4
    <3>2. ~ (a < a)
      BY <3>1
    <3>3. x.at > y.at => a < a
      BY <1>2, <2>1, <3>1, AfterLess
    <3>4. y.at > x.at => a < a
      BY <1>2, <2>1, <3>1, AfterLess
    <3>5. QED
      BY <3>2, <3>3, <3>4
  <2>6. QED
    BY <2>1, <2>5 DEF Distinct
<1>6. ASSUME NEW i \in 1 .. m PROVE \E e \in T : f[e] = i
  <2>1. PICK e \in D : Cardinality(After(D, e)) + 1 = i
    BY <1>3, AfterOnto
  <2>2. Cardinality(After(D, e)) \in Nat
    BY <1>2, AfterFinite
  <2>3. Cardinality(After(D, e)) < n
    BY <1>3, <2>1, <2>2
  <2>4. QED
    BY <1>2, <2>1, <2>3
<1>7. f \in Injection(T, 1 .. m) /\ f \in Surjection(T, 1 .. m)
  <2>1. f \in [T -> 1 .. m]
    BY <1>4
  <2> HIDE DEF f
  <2>2. QED
    BY <2>1, <1>5, <1>6 DEF Injection, IsInjective, Surjection
<1>8. IsFiniteSet(1 .. m) /\ Cardinality(1 .. m) = m
  BY <1>3, FS_Interval
<1>9. Cardinality(T) = m
  BY <1>7, <1>8, FS_Injection
<1>10. T = D \/ m = n
  <2>1. m = n \/ m = Cardinality(D)
    BY DEF m
  <2>2. QED
    BY <1>2, <1>9, <2>1, FS_Subset
<1>11. ASSUME NEW x \in T, NEW y \in D, y \notin T PROVE y.at < x.at
  <2>1. x \in D /\ x.at \in Nat /\ y.at \in Nat /\ x # y
    BY <1>2, <1>11, EntryFields
  <2>2. Cardinality(After(D, x)) \in Nat /\ Cardinality(After(D, y)) \in Nat
    BY <1>2, AfterFinite
  <2>3. Cardinality(After(D, x)) < n /\ ~ (Cardinality(After(D, y)) < n)
    BY <1>2, <1>11
  <2>4. ~ (y.at > x.at)
    BY <1>2, <2>1, <2>2, <2>3, AfterLess
  <2>5. QED
    BY <2>1, <2>4 DEF Distinct
<1>12. QED
  BY <1>1, <1>2, <1>3, <1>9, <1>10, <1>11 DEF IsTop

\* If n entries of D are newer than x, n of its top are.
LEMMA TopCovers ==
  ASSUME NEW D \in SUBSET Entry, Distinct(D), NEW n \in Nat \ {0}, NEW T, IsTop(T, D, n),
         NEW x \in Entry, Cardinality(After(D, x)) >= n \/ x \in D \ T
  PROVE  Cardinality(After(T, x)) >= n
<1>1. IsFiniteSet(D) /\ IsFiniteSet(T) /\ Cardinality(T) \in Nat /\ T \subseteq D
  BY DistinctFinite, FS_Subset, FS_CardinalityType DEF IsTop
<1>2. \A y \in D : y.at \in Nat
  BY EntryFields
<1>3. x.at \in Nat
  BY EntryFields
<1>4. Cardinality(After(D, x)) \in Nat
  BY <1>1, AfterFinite
<1>5. CASE T = D
  BY <1>4, <1>5
<1>6. CASE T # D
  <2>1. Cardinality(T) = n
    BY <1>6 DEF IsTop
  <2>2. ASSUME NEW z \in T, ~ (z.at > x.at) PROVE FALSE
    <3>1. x \notin D \ T
      BY <1>1, <1>2, <1>3, <2>2 DEF IsTop
    <3>2. After(D, x) \in SUBSET (T \ {z})
      <4>1. ASSUME NEW y \in After(D, x) PROVE y \in T \ {z}
        <5>1. y \in D /\ y.at > x.at
          BY DEF After
        <5>2. y.at > z.at
          BY <1>1, <1>2, <1>3, <2>2, <5>1
        <5>3. y \in T
          BY <1>1, <1>2, <5>1, <5>2 DEF IsTop
        <5>4. QED
          BY <2>2, <5>1, <5>3
      <4>2. QED
        BY <4>1
    <3>3. IsFiniteSet(T \ {z}) /\ Cardinality(T \ {z}) = n - 1
      BY <1>1, <2>1, FS_RemoveElement
    <3>4. Cardinality(After(D, x)) <= n - 1
      BY <3>2, <3>3, FS_Subset
    <3>5. QED
      BY <1>4, <3>1, <3>4
  <2>3. After(T, x) = T
    BY <2>2 DEF After
  <2>4. QED
    BY <2>1, <2>3
<1>7. QED
  BY <1>5, <1>6

\* An entry for which n newer ones are there changes nothing.
LEMMA TopRejects ==
  ASSUME NEW D \in SUBSET Entry, Distinct(D), NEW n \in Nat \ {0}, NEW T, IsTop(T, D, n),
         NEW e \in Entry, e \in D \/ Cardinality(After(D, e)) >= n
  PROVE  IsTop(T, D \cup {e}, n)
<1>1. IsFiniteSet(T) /\ Cardinality(T) \in Nat /\ T \subseteq D /\ Cardinality(T) <= n
  BY DistinctFinite, FS_Subset, FS_CardinalityType DEF IsTop
<1>2. CASE e \in D
  <2>1. D \cup {e} = D
    BY <1>2
  <2>2. QED
    BY <2>1
<1>3. CASE e \notin D
  <2>1. Cardinality(After(T, e)) >= n /\ Cardinality(After(T, e)) \in Nat
    BY <1>1, <1>3, TopCovers, AfterFinite
  <2>2. After(T, e) \in SUBSET T
    BY DEF After
  <2>3. Cardinality(After(T, e)) <= Cardinality(T)
    BY <1>1, <2>2, FS_Subset
  <2>4. Cardinality(After(T, e)) = Cardinality(T) /\ Cardinality(T) = n
    BY <1>1, <2>1, <2>3
  <2>5. After(T, e) = T
    BY <1>1, <2>2, <2>4, FS_Subset
  <2>6. \A x \in T : x.at > e.at /\ x.at \in Nat /\ e.at \in Nat
    BY <1>1, <2>5, EntryFields DEF After
  <2>7. QED
    BY <1>1, <2>4, <2>6 DEF IsTop
<1>4. QED
  BY <1>2, <1>3

\* IDs tell which entry of D is newer, or nothing need be cut off.
Comparable(D) == Cardinality({e.src : e \in D}) <= 1 \/ Cardinality(D) <= MaxLogs

InTime(S) == \A x, y \in S : x.src = y.src => (x.id < y.id <=> x.at < y.at)

LEMMA SourcesFinite ==
  ASSUME NEW D, IsFiniteSet(D)
  PROVE  IsFiniteSet({e.src : e \in D})
<1> DEFINE f == [e \in D |-> e.src]
<1>1. f \in Surjection(D, {e.src : e \in D})
  BY DEF Surjection
<1>2. QED
  BY <1>1, FS_Surjection

LEMMA OneSource ==
  ASSUME NEW D, IsFiniteSet(D), Comparable(D), ~ (Cardinality(D) <= MaxLogs)
  PROVE  \A x, y \in D : x.src = y.src
<1> DEFINE I == {e.src : e \in D}
<1>1. IsFiniteSet(I) /\ Cardinality(I) \in Nat /\ Cardinality(I) <= 1
  BY SourcesFinite, FS_CardinalityType DEF Comparable
<1>2. \A x \in D : x.src \in I
  OBVIOUS
<1> HIDE DEF I
<1>3. Cardinality(I) = 0 \/ Cardinality(I) = 1
  BY <1>1
<1>4. I = {} \/ \E s : I = {s}
  BY <1>1, <1>3, FS_EmptySet, FS_Singleton
<1>5. QED
  BY <1>2, <1>4

LEMMA ComparableLess ==
  ASSUME NEW E, IsFiniteSet(E), NEW D \in SUBSET E, Comparable(E)
  PROVE  Comparable(D)
<1>1. IsFiniteSet(D) /\ Cardinality(D) <= Cardinality(E)
  BY FS_Subset
<1>2. Cardinality(D) \in Nat /\ Cardinality(E) \in Nat
  BY <1>1, FS_CardinalityType
<1>3. /\ IsFiniteSet({e.src : e \in E})
      /\ {e.src : e \in D} \in SUBSET {e.src : e \in E}
  BY SourcesFinite
<1>4. Cardinality({e.src : e \in D}) <= Cardinality({e.src : e \in E})
  BY <1>3, FS_Subset
<1>5. Cardinality({e.src : e \in D}) \in Nat /\ Cardinality({e.src : e \in E}) \in Nat
  BY <1>1, SourcesFinite, FS_CardinalityType
<1>6. QED
  BY <1>2, <1>1, <1>4, <1>5 DEF Comparable

\* A sequence without repetitions has as many elements as places.
LEMMA ElemsCount ==
  ASSUME NEW T, NEW b \in Seq(T), \A i, j \in 1 .. Len(b) : i < j => b[i] # b[j]
  PROVE  IsFiniteSet(Elems(b)) /\ Cardinality(Elems(b)) = Len(b)
<1>1. Len(b) \in Nat /\ IsFiniteSet(1 .. Len(b)) /\ Cardinality(1 .. Len(b)) = Len(b)
  <2>1. PICK n \in Nat : n = Len(b)
    OBVIOUS
  <2>2. IsFiniteSet(1 .. n) /\ Cardinality(1 .. n) = n
    BY FS_Interval
  <2>3. QED
    BY <2>1, <2>2
<1> DEFINE f == [i \in 1 .. Len(b) |-> b[i]]
<1>2. f \in Surjection(1 .. Len(b), Elems(b))
  BY DEF Surjection, Elems
<1>3. \A i, j \in 1 .. Len(b) : f[i] = f[j] => i = j
  OBVIOUS
<1>4. f \in Injection(1 .. Len(b), Elems(b))
  BY <1>2, <1>3 DEF Surjection, Injection, IsInjective
<1>5. QED
  BY <1>1, <1>2, <1>4, FS_Surjection

\* A new entry on top: the oldest has to go if the view is full.
LEMMA PushTop ==
  ASSUME NEW D \in SUBSET Entry, NEW e \in Entry, Distinct(D \cup {e}), InTime(D \cup {e}),
         Comparable(D \cup {e}),
         NEW b \in Seq(Entry), Len(b) <= MaxLogs, IsTop(Elems(b), D, MaxLogs),
         \A i, j \in 1 .. Len(b) : i < j /\ b[i].src = b[j].src => b[i].id > b[j].id,
         \A i \in 1 .. Len(b) : b[i].src = e.src => b[i].id < e.id,
         NEW d \in Seq(Entry),
         Len(d) = IF Len(b) < MaxLogs THEN Len(b) + 1 ELSE MaxLogs,
         \A i \in 1 .. Len(d) : d[i] = IF i = 1 THEN e ELSE b[i - 1]
  PROVE  IsTop(Elems(d), D \cup {e}, MaxLogs)
<1>1. /\ D \cup {e} \in SUBSET Entry /\ IsFiniteSet(D \cup {e}) /\ Elems(b) \subseteq D
      /\ Cardinality(D \cup {e}) \in Nat
  BY DistinctFinite DEF IsTop
<1>2. /\ Len(b) \in Nat /\ Len(d) \in Nat /\ Len(d) >= 1
      /\ \A i \in 1 .. Len(b) : b[i] \in Elems(b) /\ b[i] \in D
                                /\ b[i].id \in Nat /\ b[i].at \in Nat
  <2>1. \A i \in 1 .. Len(b) : b[i] \in Elems(b) /\ b[i] \in D
    BY <1>1, ElemsOf
  <2>2. QED
    BY <2>1, EntryFields
<1>3. e.id \in Nat /\ e.at \in Nat
  BY EntryFields
<1>4. \A i, j \in 1 .. Len(b) : i < j => b[i] # b[j]
  <2>1. ASSUME NEW i \in 1 .. Len(b), NEW j \in 1 .. Len(b), i < j, b[i] = b[j] PROVE FALSE
    <3>1. b[i].id > b[j].id /\ b[i].id = b[j].id /\ b[i].id \in Nat
      BY <1>2, <2>1
    <3>2. QED
      BY <3>1
  <2>2. QED
    BY <2>1
<1>5. IsFiniteSet(Elems(b)) /\ Cardinality(Elems(b)) = Len(b)
  BY <1>4, ElemsCount
<1>6. e \notin Elems(b)
  <2>1. ASSUME NEW i \in 1 .. Len(b), b[i] = e PROVE FALSE
    <3>1. b[i].id < e.id /\ b[i].id = e.id
      BY <2>1
    <3>2. QED
      BY <1>3, <3>1
  <2>2. QED
    BY <2>1 DEF Elems
<1>7. IsFiniteSet(Elems(b) \cup {e}) /\ Cardinality(Elems(b) \cup {e}) = Len(b) + 1
  BY <1>5, <1>6, FS_AddElement
<1>8. /\ e \in Elems(d) /\ \A k \in 1 .. Len(d) - 1 : k \in 1 .. Len(b) /\ b[k] \in Elems(d)
      /\ \A x \in Elems(d) : x = e \/ \E k \in 1 .. Len(d) - 1 : x = b[k]
  <2>1. /\ 1 \in 1 .. Len(d) /\ d[1] = e
        /\ \A k \in 1 .. Len(d) - 1 : k \in 1 .. Len(b) /\ k + 1 \in 1 .. Len(d) /\ d[k + 1] = b[k]
    BY <1>2
  <2>2. ASSUME NEW i \in 1 .. Len(d), i # 1
        PROVE  i - 1 \in 1 .. Len(d) - 1 /\ d[i] = b[i - 1]
    BY <1>2, <2>2
  <2>3. ASSUME NEW x \in Elems(d) PROVE x = e \/ \E k \in 1 .. Len(d) - 1 : x = b[k]
    <3>1. PICK i \in 1 .. Len(d) : x = d[i]
      BY DEF Elems
    <3>2. CASE i = 1
      BY <2>1, <3>1, <3>2
    <3>3. CASE i # 1
      BY <2>2, <3>1, <3>3
    <3>4. QED
      BY <3>2, <3>3
  <2>4. \A i \in 1 .. Len(d) : d[i] \in Elems(d)
    BY DEF Elems
  <2>5. \A k \in 1 .. Len(d) - 1 : b[k] \in Elems(d)
    BY <2>1, <2>4
  <2>6. QED
    BY <2>1, <2>3, <2>4, <2>5
<1>9. CASE Len(b) < MaxLogs
  <2>1. Elems(b) = D
    BY <1>2, <1>5, <1>9 DEF IsTop
  <2>2. Len(d) - 1 = Len(b)
    BY <1>2, <1>9
  <2>3. Elems(d) = D \cup {e}
    <3>1. \A x \in D : \E k \in 1 .. Len(d) - 1 : x = b[k]
      BY <2>1, <2>2 DEF Elems
    <3>2. ASSUME NEW x \in D PROVE x \in Elems(d)
      <4>1. PICK k \in 1 .. Len(d) - 1 : x = b[k]
        BY <3>1
      <4>2. QED
        BY <1>8, <4>1
    <3>3. ASSUME NEW x \in Elems(d), x # e PROVE x \in D
      <4>1. PICK k \in 1 .. Len(d) - 1 : x = b[k]
        BY <1>8, <3>3
      <4>2. k \in 1 .. Len(b)
        BY <2>2
      <4>3. QED
        BY <2>1, <4>1, <4>2 DEF Elems
    <3>4. QED
      BY <1>8, <3>2, <3>3
  <2>4. Cardinality(D \cup {e}) <= MaxLogs
    BY <1>2, <1>7, <1>9, <2>1
  <2>5. QED
    BY <2>3, <2>4 DEF IsTop
<1>10. CASE ~ (Len(b) < MaxLogs)
  <2>0. PICK last : last = b[MaxLogs]
    OBVIOUS
  <2>1. Len(b) = MaxLogs /\ Len(d) = MaxLogs /\ MaxLogs \in 1 .. Len(b)
    BY <1>2, <1>10
  <2>2. last \in Elems(b) /\ last # e
    BY <1>2, <1>6, <2>0, <2>1
  <2>3. Elems(d) = (Elems(b) \cup {e}) \ {last}
    <3>1. ASSUME NEW k \in 1 .. Len(b) PROVE k \in 1 .. Len(d) - 1 <=> b[k] # last
      <4>1. k \in 1 .. Len(d) - 1 => k < MaxLogs
        BY <2>1
      <4>2. k \notin 1 .. Len(d) - 1 => k = MaxLogs
        BY <1>2, <2>1
      <4>3. QED
        BY <1>4, <2>0, <2>1, <4>1, <4>2
    <3>2. \A x \in Elems(b) : \E k \in 1 .. Len(b) : x = b[k]
      BY DEF Elems
    <3>3. ASSUME NEW x \in Elems(d) PROVE x \in Elems(b) \cup {e} /\ x # last
      <4>1. CASE x = e
        BY <2>2, <4>1
      <4>2. ASSUME NEW k \in 1 .. Len(d) - 1, x = b[k] PROVE x \in Elems(b) /\ x # last
        <5>1. k \in 1 .. Len(b)
          BY <1>8
        <5>2. QED
          BY <1>2, <3>1, <4>2, <5>1
      <4>3. QED
        BY <1>8, <4>1, <4>2
    <3>4. ASSUME NEW x \in Elems(b), x # last PROVE x \in Elems(d)
      BY <1>8, <3>1, <3>2, <3>4
    <3>5. QED
      BY <1>8, <2>2, <3>3, <3>4
  <2>4. Cardinality(Elems(d)) = MaxLogs
    <3>1. last \in Elems(b) \cup {e}
      BY <2>2
    <3>2. PICK S : S = Elems(b) \cup {e}
      OBVIOUS
    <3>3. Cardinality(S \ {last}) = Cardinality(S) - 1
      BY <1>7, <3>1, <3>2, FS_RemoveElement
    <3>4. Cardinality(S) = MaxLogs + 1
      BY <1>7, <2>1, <3>2
    <3>5. QED
      BY <2>3, <3>2, <3>3, <3>4
  <2>5. \A x, y \in D \cup {e} : x.src = y.src
    <3>1. Elems(b) \cup {e} \in SUBSET (D \cup {e})
      BY <1>1
    <3>2. Len(b) + 1 <= Cardinality(D \cup {e})
      BY <1>1, <1>7, <3>1, FS_Subset
    <3>3. ~ (Cardinality(D \cup {e}) <= MaxLogs)
      BY <1>1, <2>1, <3>2
    <3>4. QED
      BY <1>1, <3>3, OneSource
  <2>6. \A x \in Elems(b) : x.at < e.at /\ x.at \in Nat /\ x \in D
    <3>1. ASSUME NEW k \in 1 .. Len(b) PROVE b[k].at < e.at /\ b[k].at \in Nat /\ b[k] \in D
      <4>1. b[k].id < e.id
        BY <1>2, <2>5
      <4>2. QED
        BY <1>2, <2>5, <4>1 DEF InTime
    <3>2. QED
      BY <3>1 DEF Elems
  <2>7. ASSUME NEW k \in 1 .. Len(d) - 1 PROVE last.at < b[k].at
    <3>1. k \in 1 .. Len(b) /\ k < MaxLogs
      BY <1>2, <2>1
    <3>2. last.id < b[k].id
      <4>1. b[k].id > b[MaxLogs].id /\ b[k].id \in Nat /\ b[MaxLogs].id \in Nat
        BY <1>2, <2>1, <2>5, <3>1
      <4>2. QED
        BY <2>0, <4>1
    <3>3. QED
      BY <1>2, <2>0, <2>1, <2>5, <3>1, <3>2 DEF InTime
  <2>8. ASSUME NEW x \in Elems(d), NEW y \in D \cup {e}, y \notin Elems(d) PROVE y.at < x.at
    <3>1. y # e /\ y \in D /\ y.at \in Nat
      BY <1>8, <2>8, EntryFields
    <3>2. y \in Elems(b) => y = last
      BY <2>3, <2>8
    <3>3. y \notin Elems(b) => \A z \in Elems(b) : y.at < z.at
      BY <3>1 DEF IsTop
    <3>4. CASE x = e
      BY <1>3, <2>2, <2>6, <3>1, <3>3, <3>4
    <3>5. CASE x # e
      BY <1>2, <1>8, <2>7, <3>2, <3>3, <3>5
    <3>6. QED
      BY <3>4, <3>5
  <2>9. Elems(d) \subseteq D \cup {e}
    BY <1>1, <2>3
  <2>10. QED
    BY <2>4, <2>8, <2>9 DEF IsTop
<1>11. QED
  BY <1>9, <1>10

\* The merge of what is shown with the answer G, cut off by ID.
LEMMA MergeTop ==
  ASSUME NEW D \in SUBSET Entry, NEW G \in SUBSET Entry, Distinct(D \cup G),
         InTime(D \cup G), Comparable(D \cup G),
         NEW T, IsTop(T, D, MaxLogs), NEW U, U = G \cup T,
         NEW all \in Seq(U), Len(all) = Cardinality(U),
         \A i, j \in 1 .. Len(all) : i < j => SortsBefore(all[i], all[j]),
         NEW d \in Seq(U), Len(d) = IF Len(all) < MaxLogs THEN Len(all) ELSE MaxLogs,
         \A i \in 1 .. Len(d) : d[i] = all[i]
  PROVE  IsTop(Elems(d), D \cup G, MaxLogs)
<1>1. PICK E : E = D \cup G
  OBVIOUS
<1>2. /\ E \in SUBSET Entry /\ Distinct(E) /\ InTime(E) /\ Comparable(E)
      /\ T \subseteq D /\ D \subseteq E /\ G \subseteq E /\ U \in SUBSET E /\ G \subseteq U
      /\ T \in SUBSET U
  BY <1>1 DEF IsTop
<1>3. IsFiniteSet(E) /\ IsFiniteSet(U) /\ IsFiniteSet(T)
  BY <1>2, DistinctFinite, FS_Subset
<1>4. /\ Cardinality(E) \in Nat /\ Cardinality(U) \in Nat /\ Cardinality(T) \in Nat
      /\ Cardinality(U) <= Cardinality(E) /\ Cardinality(T) <= Cardinality(U)
  BY <1>2, <1>3, FS_CardinalityType, FS_Subset
<1>5. \A x \in E : x.at \in Nat /\ x.id \in Nat /\ x \in Entry
  BY <1>2, EntryFields
<1>6. \A i \in 1 .. Len(all) : all[i] \in Elems(all) /\ all[i] \in U /\ all[i] \in E
  BY <1>2, ElemsOf
<1>7. \A i, j \in 1 .. Len(all) : i < j => all[i] # all[j]
  BY <1>5, <1>6, SortOrder
<1>8. Elems(all) = U
  <2>1. Cardinality(Elems(all)) = Len(all)
    BY <1>7, ElemsCount
  <2>2. Elems(all) \in SUBSET U
    BY ElemsOf
  <2>3. QED
    BY <1>3, <2>1, <2>2, FS_Subset
<1>9. /\ Len(d) \in Nat /\ Len(all) \in Nat
      /\ \A i \in 1 .. Len(d) : i \in 1 .. Len(all) /\ d[i] = all[i]
  <2>1. PICK n \in Nat, m \in Nat : n = Len(all) /\ m = Len(d)
    OBVIOUS
  <2>2. m <= n
    BY <2>1
  <2>3. \A i \in 1 .. m : i \in 1 .. n
    BY <2>2
  <2>4. QED
    BY <2>1, <2>3
<1>10. /\ IsFiniteSet(Elems(d)) /\ Cardinality(Elems(d)) = Len(d) /\ Elems(d) \in SUBSET U
       /\ Len(d) <= MaxLogs
  <2>1. \A i, j \in 1 .. Len(d) : i < j => d[i] # d[j]
    BY <1>7, <1>9
  <2>2. IsFiniteSet(Elems(d)) /\ Cardinality(Elems(d)) = Len(d)
    BY <2>1, ElemsCount
  <2>3. Elems(d) \in SUBSET U
    BY ElemsOf
  <2>4. Len(d) <= MaxLogs
    BY <1>9
  <2>5. QED
    BY <2>2, <2>3, <2>4
<1>11. CASE Cardinality(U) <= MaxLogs
  <2>1. Elems(d) = U
    <3>1. Cardinality(Elems(d)) = Cardinality(U)
      BY <1>4, <1>10, <1>11
    <3>2. QED
      BY <1>3, <1>10, <3>1, FS_Subset
  <2>2. CASE T = D
    <3>1. U = E
      BY <1>1, <2>2
    <3>2. QED
      BY <1>1, <1>11, <2>1, <3>1 DEF IsTop
  <2>3. CASE T # D
    <3>1. Cardinality(T) = MaxLogs
      BY <2>3 DEF IsTop
    <3>2. Cardinality(T) = Cardinality(U)
      BY <1>4, <1>11, <3>1
    <3>3. T = U
      BY <1>2, <1>3, <3>2, FS_Subset
    <3>4. D \cup G = D
      BY <1>2, <3>3
    <3>5. QED
      BY <2>1, <3>3, <3>4
  <2>4. QED
    BY <2>2, <2>3
<1>12. CASE ~ (Cardinality(U) <= MaxLogs)
  <2>1. Len(d) = MaxLogs
    BY <1>4, <1>12
  <2>2. \A x, y \in E : x.src = y.src
    <3>1. ~ (Cardinality(E) <= MaxLogs)
      BY <1>4, <1>12
    <3>2. QED
      BY <1>2, <1>3, <3>1, OneSource
  <2>3. ASSUME NEW x \in Elems(d), NEW y \in U, y \notin Elems(d) PROVE y.at < x.at
    <3>1. PICK i \in 1 .. Len(d) : x = d[i]
      BY DEF Elems
    <3>2. PICK j \in 1 .. Len(all) : y = all[j]
      BY <1>8 DEF Elems
    <3>3. j \notin 1 .. Len(d)
      <4>1. j \in 1 .. Len(d) => d[j] = y /\ d[j] \in Elems(d)
        BY <1>9, <3>2 DEF Elems
      <4>2. QED
        BY <2>3, <4>1
    <3>4. i < j /\ i \in 1 .. Len(all) /\ x = all[i]
      <4>1. PICK n \in Nat, m \in Nat : n = Len(all) /\ m = Len(d)
        BY <1>9
      <4>2. i \in 1 .. m /\ j \in 1 .. n /\ j \notin 1 .. m
        BY <3>3, <4>1
      <4>3. i < j
        BY <4>2
      <4>4. QED
        BY <1>9, <3>1, <4>3
    <3>5. SortsBefore(x, y) /\ x # y /\ x \in E /\ y \in E
      BY <1>6, <1>7, <3>2, <3>4
    <3>6. x.id \in Nat /\ y.id \in Nat /\ x.at \in Nat /\ y.at \in Nat /\ x.src = y.src
      BY <1>5, <2>2, <3>5
    <3>7. CASE x.id > y.id
      <4>1. y.id < x.id
        BY <3>6, <3>7
      <4>2. QED
        BY <1>2, <3>5, <3>6, <4>1 DEF InTime
    <3>8. CASE x.id = y.id /\ x.at > y.at
      BY <3>6, <3>8
    <3>9. QED
      BY <3>5, <3>7, <3>8 DEF SortsBefore
  <2>4. ASSUME NEW x \in Elems(d), NEW y \in E, y \notin U PROVE y.at < x.at
    <3>1. y \in D /\ y \notin T /\ x \in E
      BY <1>1, <1>2, <1>10, <2>4
    <3>2. \A z \in T : y.at < z.at
      BY <3>1 DEF IsTop
    <3>3. CASE x \in T
      BY <3>2, <3>3
    <3>4. CASE x \notin T
      <4>1. Cardinality(T) = MaxLogs
        BY <3>1 DEF IsTop
      <4>2. PICK z \in T : z \notin Elems(d)
        <5>1. SUFFICES ASSUME T \subseteq Elems(d) PROVE FALSE
          OBVIOUS
        <5>2. T = Elems(d)
          BY <1>10, <2>1, <4>1, <5>1, FS_Subset
        <5>3. QED
          BY <3>4, <5>2
      <4>3. z.at < x.at /\ y.at < z.at /\ z \in E
        BY <1>2, <2>3, <3>2, <4>2
      <4>4. QED
        BY <1>5, <3>1, <4>3
    <3>5. QED
      BY <3>3, <3>4
  <2>5. ASSUME NEW x \in Elems(d), NEW y \in E, y \notin Elems(d) PROVE y.at < x.at
    BY <2>3, <2>4, <2>5
  <2>6. IsTop(Elems(d), E, MaxLogs)
    <3>1. Cardinality(Elems(d)) = MaxLogs /\ Elems(d) \subseteq E
      BY <1>2, <1>10, <2>1
    <3>2. QED
      BY <2>5, <3>1 DEF IsTop
  <2>7. QED
    BY <1>1, <2>6
<1>13. QED
  BY <1>11, <1>12
------------------------------------------------------------------------------
(* What the store has been given and what is still to come. *)

\* An entry of C that is not newer than all of its source in D is in D, or there are
\* MaxLogs newer entries in D.
Covers(C, D) ==
  \A x \in C, y \in D :
    y.src = x.src /\ x.id <= y.id => x \in D \/ Cardinality(After(D, x)) >= MaxLogs

LEMMA CoversLess ==
  ASSUME NEW C, NEW B \in SUBSET C, NEW D, Covers(C, D)
  PROVE  Covers(B, D)
  BY DEF Covers

LEMMA CoversMore ==
  ASSUME NEW C, NEW E, IsFiniteSet(E), NEW D \in SUBSET E, NEW x,
         x \in D \/ Cardinality(After(D, x)) >= MaxLogs
  PROVE  x \in E \/ Cardinality(After(E, x)) >= MaxLogs
<1>1. IsFiniteSet(D)
  BY FS_Subset
<1>2. /\ Cardinality(After(D, x)) <= Cardinality(After(E, x))
      /\ Cardinality(After(D, x)) \in Nat /\ Cardinality(After(E, x)) \in Nat
  BY <1>1, AfterGrows, AfterFinite
<1>3. QED
  BY <1>2

\* Two sets that cover C do so together.
LEMMA CoversBoth ==
  ASSUME NEW C, NEW D, NEW G, IsFiniteSet(D \cup G), Covers(C, D), Covers(C, G)
  PROVE  Covers(C, D \cup G)
<1> SUFFICES ASSUME NEW x \in C, NEW y \in D \cup G, y.src = x.src, x.id <= y.id
             PROVE  x \in D \cup G \/ Cardinality(After(D \cup G, x)) >= MaxLogs
  BY DEF Covers
<1>1. PICK S \in {D, G} : x \in S \/ Cardinality(After(S, x)) >= MaxLogs
  BY DEF Covers
<1>2. PICK E : E = D \cup G
  OBVIOUS
<1>3. S \in SUBSET E /\ IsFiniteSet(E)
  BY <1>1, <1>2
<1>4. x \in E \/ Cardinality(After(E, x)) >= MaxLogs
  BY <1>1, <1>3, CoversMore
<1>5. QED
  BY <1>2, <1>4

\* ... and so does an older entry of the same stream.
LEMMA CoversNext ==
  ASSUME NEW C \in SUBSET Entry, NEW D, NEW e \in Entry, IsFiniteSet(D \cup {e}), Covers(C, D),
         \A x \in C : x.src = e.src => e.id < x.id
  PROVE  Covers(C, D \cup {e})
<1> SUFFICES ASSUME NEW x \in C, NEW y \in D \cup {e}, y.src = x.src, x.id <= y.id
             PROVE  x \in D \cup {e} \/ Cardinality(After(D \cup {e}, x)) >= MaxLogs
  BY DEF Covers
<1>1. y # e
  <2>1. x.id \in Nat /\ e.id \in Nat
    BY EntryFields
  <2>2. QED
    BY <2>1
<1>2. x \in D \/ Cardinality(After(D, x)) >= MaxLogs
  BY <1>1 DEF Covers
<1>3. PICK E : E = D \cup {e}
  OBVIOUS
<1>4. D \in SUBSET E /\ IsFiniteSet(E)
  BY <1>3
<1>5. x \in E \/ Cardinality(After(E, x)) >= MaxLogs
  BY <1>2, <1>4, CoversMore
<1>6. QED
  BY <1>3, <1>5

\* An entry newer than all of its source is to come as well.
LEMMA CoversNew ==
  ASSUME NEW C, NEW D \in SUBSET Entry, NEW e \in Entry, Covers(C, D),
         \A y \in D : y.src = e.src => y.id < e.id
  PROVE  Covers(C \cup {e}, D)
<1> SUFFICES ASSUME NEW x \in C \cup {e}, NEW y \in D, y.src = x.src, x.id <= y.id
             PROVE  x \in D \/ Cardinality(After(D, x)) >= MaxLogs
  BY DEF Covers
<1>1. x # e
  <2>1. y.id \in Nat /\ e.id \in Nat
    BY EntryFields
  <2>2. QED
    BY <2>1
<1>2. QED
  BY <1>1 DEF Covers

\* The newest of a set cover what the set covers.
LEMMA CoversTop ==
  ASSUME NEW C \in SUBSET Entry, NEW D \in SUBSET Entry, Distinct(D), Covers(C, D)
  PROVE  Covers(C, Newest(D, MaxLogs))
<1>1. PICK T : T = Newest(D, MaxLogs)
  OBVIOUS
<1>2. IsTop(T, D, MaxLogs)
  BY <1>1, NewestIsTop
<1>3. ASSUME NEW x \in C, NEW y \in T, y.src = x.src, x.id <= y.id
      PROVE  x \in T \/ Cardinality(After(T, x)) >= MaxLogs
  <2>1. x \in D \/ Cardinality(After(D, x)) >= MaxLogs
    BY <1>2, <1>3 DEF Covers, IsTop
  <2>2. QED
    BY <1>2, <2>1, TopCovers
<1>4. QED
  BY <1>1, <1>3 DEF Covers
------------------------------------------------------------------------------
(* The order of the stream, and the rings. *)

InQueue(q, s) ==
  \A k, l \in 1 .. Len(q) : q[k].src = s /\ (k < l => q[k].id < q[l].id)

InWire(w) == \A k, l \in 1 .. Len(w) : k < l /\ w[k].src = w[l].src => w[k].id < w[l].id

Follows(q, w, s) == \A x \in Elems(w), y \in Elems(q) : x.src = s => x.id < y.id

\* The queues hold the entries of each source in the order of their IDs.
InQueues(p, w) == InWire(w) /\ \A s \in Sources : InQueue(p[s], s) /\ Follows(p[s], w, s)

LEMMA AppendParts ==
  ASSUME NEW q \in Seq(Entry), NEW e \in Entry
  PROVE  /\ Len(q) \in Nat /\ Len(Append(q, e)) = Len(q) + 1 /\ Append(q, e)[Len(q) + 1] = e
         /\ \A i \in 1 .. Len(q) + 1 :
              i = Len(q) + 1 \/ (i \in 1 .. Len(q) /\ Append(q, e)[i] = q[i])
         /\ \A i \in 1 .. Len(q) : q[i] \in Elems(q)
         /\ Elems(Append(q, e)) = Elems(q) \cup {e}
<1>1. /\ Len(q) \in Nat /\ Len(Append(q, e)) = Len(q) + 1 /\ Append(q, e)[Len(q) + 1] = e
      /\ \A i \in 1 .. Len(q) + 1 : i = Len(q) + 1 \/ (i \in 1 .. Len(q) /\ Append(q, e)[i] = q[i])
  OBVIOUS
<1>2. \A i \in 1 .. Len(q) : i \in 1 .. Len(q) + 1 /\ i # Len(q) + 1
  BY <1>1
<1>3. Len(q) + 1 \in 1 .. Len(q) + 1
  BY <1>1
<1>4. \A i \in 1 .. Len(q) : q[i] \in Elems(q)
  BY DEF Elems
<1>5. Elems(Append(q, e)) = Elems(q) \cup {e}
  BY <1>1, <1>2, <1>3 DEF Elems
<1>6. QED
  BY <1>1, <1>4, <1>5

LEMMA AppendQueue ==
  ASSUME NEW q \in Seq(Entry), NEW s, NEW e \in Entry, e.src = s, InQueue(q, s),
         \A x \in Elems(q) : x.id < e.id
  PROVE  InQueue(Append(q, e), s)
<1>1. PICK a : a = Append(q, e)
  OBVIOUS
<1>2. PICK n \in Nat : n = Len(q)
  OBVIOUS
<1>3. /\ Len(a) = n + 1 /\ a[n + 1] = e
      /\ \A i \in 1 .. n + 1 : i = n + 1 \/ (i \in 1 .. n /\ a[i] = q[i])
      /\ \A i \in 1 .. n : q[i].id < e.id
  BY <1>1, <1>2, AppendParts
<1>4. ASSUME NEW k \in 1 .. n + 1, NEW l \in 1 .. n + 1
      PROVE  a[k].src = s /\ (k < l => a[k].id < a[l].id)
  <2>1. a[k].src = s
    BY <1>2, <1>3 DEF InQueue
  <2>2. ASSUME k < l PROVE a[k].id < a[l].id
    <3>1. k \in 1 .. n /\ a[k] = q[k]
      BY <1>3, <2>2
    <3>2. CASE l = n + 1
      BY <1>3, <3>1, <3>2
    <3>3. CASE l # n + 1
      BY <1>2, <1>3, <2>2, <3>1, <3>3 DEF InQueue
    <3>4. QED
      BY <3>2, <3>3
  <2>3. QED
    BY <2>1, <2>2
<1>5. QED
  BY <1>1, <1>3, <1>4 DEF InQueue

LEMMA AppendWire ==
  ASSUME NEW w \in Seq(Entry), NEW e \in Entry, InWire(w),
         \A x \in Elems(w) : x.src = e.src => x.id < e.id
  PROVE  InWire(Append(w, e))
<1>1. PICK a : a = Append(w, e)
  OBVIOUS
<1>2. PICK n \in Nat : n = Len(w)
  OBVIOUS
<1>3. /\ Len(a) = n + 1 /\ a[n + 1] = e
      /\ \A i \in 1 .. n + 1 : i = n + 1 \/ (i \in 1 .. n /\ a[i] = w[i])
      /\ \A i \in 1 .. n : w[i].src = e.src => w[i].id < e.id
  BY <1>1, <1>2, AppendParts
<1>4. ASSUME NEW k \in 1 .. n + 1, NEW l \in 1 .. n + 1, k < l, a[k].src = a[l].src
      PROVE  a[k].id < a[l].id
  <2>1. k \in 1 .. n /\ a[k] = w[k]
    BY <1>3, <1>4
  <2>2. CASE l = n + 1
    BY <1>3, <1>4, <2>1, <2>2
  <2>3. CASE l # n + 1
    BY <1>2, <1>3, <1>4, <2>1, <2>3 DEF InWire
  <2>4. QED
    BY <2>2, <2>3
<1>5. QED
  BY <1>1, <1>3, <1>4 DEF InWire

LEMMA TailParts ==
  ASSUME NEW q \in Seq(Entry), q # <<>>
  PROVE  /\ Len(q) \in Nat /\ Len(Tail(q)) = Len(q) - 1 /\ Head(q) = q[1] /\ 1 \in 1 .. Len(q)
         /\ \A i \in 1 .. Len(q) - 1 : Tail(q)[i] = q[i + 1] /\ i + 1 \in 1 .. Len(q) /\ 1 < i + 1
  OBVIOUS

LEMMA TailQueue ==
  ASSUME NEW q \in Seq(Entry), q # <<>>, NEW s, InQueue(q, s)
  PROVE  /\ InQueue(Tail(q), s) /\ Head(q).src = s
         /\ \A x \in Elems(Tail(q)) : Head(q).id < x.id
<1>1. /\ Len(q) \in Nat /\ Len(Tail(q)) = Len(q) - 1 /\ Head(q) = q[1] /\ 1 \in 1 .. Len(q)
      /\ \A i \in 1 .. Len(q) - 1 : Tail(q)[i] = q[i + 1] /\ i + 1 \in 1 .. Len(q) /\ 1 < i + 1
  BY TailParts
<1>2. \A k, l \in 1 .. Len(q) - 1 : k < l => k + 1 < l + 1
  BY <1>1
<1>3. QED
  BY <1>1, <1>2 DEF InQueue, Elems

LEMMA TailWire ==
  ASSUME NEW w \in Seq(Entry), w # <<>>, InWire(w)
  PROVE  /\ InWire(Tail(w))
         /\ \A x \in Elems(Tail(w)) : x.src = Head(w).src => Head(w).id < x.id
<1>1. /\ Len(w) \in Nat /\ Len(Tail(w)) = Len(w) - 1 /\ Head(w) = w[1] /\ 1 \in 1 .. Len(w)
      /\ \A i \in 1 .. Len(w) - 1 : Tail(w)[i] = w[i + 1] /\ i + 1 \in 1 .. Len(w) /\ 1 < i + 1
  BY TailParts
<1>2. \A k, l \in 1 .. Len(w) - 1 : k < l => k + 1 < l + 1
  BY <1>1
<1>3. QED
  BY <1>1, <1>2 DEF InWire, Elems

\* A ring holds the last entries of its source, up to the n-th, without a gap.
RingFull(r, n, s) ==
  /\ Len(r) = IF n < RingCap THEN n ELSE RingCap
  /\ \A k \in 1 .. Len(r) : r[k].src = s /\ r[k].id = n - Len(r) + k

LEMMA RingLog ==
  ASSUME NEW r \in Seq(Entry), NEW n \in Nat, NEW s, NEW e \in Entry, e.src = s,
         e.id = n + 1, RingFull(r, n, s)
  PROVE  RingFull(Last(Append(r, e), RingCap), n + 1, s)
<1>1. PICK a \in Seq(Entry) : a = Append(r, e)
  BY AppendIs
<1>2. PICK m \in Nat : m = Len(r)
  OBVIOUS
<1>3. PICK c \in Nat : c = RingCap /\ c >= 1
  OBVIOUS
<1>4. /\ Len(a) = m + 1 /\ a[m + 1] = e
      /\ \A i \in 1 .. m + 1 : i = m + 1 \/ (i \in 1 .. m /\ a[i] = r[i])
  BY <1>1, <1>2, AppendParts
<1>5. ASSUME NEW i \in 1 .. m + 1 PROVE a[i].src = s /\ a[i].id = n - m + i
  <2>1. CASE i = m + 1
    BY <1>4, <2>1
  <2>2. CASE i # m + 1
    BY <1>2, <1>4, <2>2 DEF RingFull
  <2>3. QED
    BY <2>1, <2>2
<1>6. m = IF n < c THEN n ELSE c
  BY <1>2, <1>3 DEF RingFull
<1>7. PICK z \in Nat : m + 1 - z >= 0 /\ IF m + 1 > c THEN z = m + 1 - c ELSE z = 0
  <2>1. CASE m + 1 > c
    <3>1. m + 1 - c \in Nat /\ m + 1 - (m + 1 - c) >= 0
      BY <1>3, <2>1
    <3>2. QED
      BY <2>1, <3>1
  <2>2. CASE ~ (m + 1 > c)
    BY <2>2
  <2>3. QED
    BY <2>1, <2>2
<1>8. PICK d : d = Last(a, c)
  OBVIOUS
<1>9. d = SubSeq(a, z + 1, m + 1)
  <2>1. d = SubSeq(a, IF m + 1 > c THEN m + 1 - c + 1 ELSE 1, m + 1)
    BY <1>4, <1>8 DEF Last
  <2>2. (IF m + 1 > c THEN m + 1 - c + 1 ELSE 1) = z + 1
    BY <1>3, <1>7
  <2>3. QED
    BY <2>1, <2>2
<1>10. Len(d) = m + 1 - z /\ \A k \in 1 .. m + 1 - z : d[k] = a[z + k]
  BY <1>3, <1>4, <1>7, <1>9
<1>11. m + 1 - z = IF n + 1 < c THEN n + 1 ELSE c
  BY <1>3, <1>6, <1>7
<1>12. ASSUME NEW k \in 1 .. m + 1 - z PROVE d[k].src = s /\ d[k].id = n + 1 - (m + 1 - z) + k
  <2>1. z + k \in 1 .. m + 1
    BY <1>7
  <2>2. d[k] = a[z + k] /\ a[z + k].src = s /\ a[z + k].id = n - m + (z + k)
    BY <1>5, <1>10, <2>1
  <2>3. n - m + (z + k) = n + 1 - (m + 1 - z) + k
    OBVIOUS
  <2>4. QED
    BY <2>2, <2>3
<1>13. RingFull(d, n + 1, s)
  BY <1>3, <1>10, <1>11, <1>12 DEF RingFull
<1>14. QED
  BY <1>1, <1>3, <1>8, <1>13

\* A ring at least as long as the view covers all that is to come.
LEMMA RingCovers ==
  ASSUME RingCap >= MaxLogs, NEW r \in Seq(Entry), NEW n \in Nat, NEW s, RingFull(r, n, s),
         NEW C \in SUBSET Entry, NEW S, C \subseteq S, Elems(r) \subseteq S,
         Distinct(S), InTime(S), \A x \in C : x.src = s => x.id <= n
  PROVE  Covers(C, Elems(r))
<1> SUFFICES ASSUME NEW x \in C, NEW y \in Elems(r), y.src = x.src, x.id <= y.id
             PROVE  x \in Elems(r) \/ Cardinality(After(Elems(r), x)) >= MaxLogs
  BY DEF Covers
<1>1. PICK m \in Nat : m = Len(r)
  OBVIOUS
<1>2. \A k \in 1 .. m : /\ r[k] \in Elems(r) /\ r[k] \in S /\ r[k].src = s
                        /\ r[k].id = n - m + k /\ r[k].at \in Nat
  <2>1. \A k \in 1 .. m : r[k] \in Elems(r) /\ r[k] \in Entry
    BY <1>1, ElemsOf
  <2>2. QED
    BY <1>1, <2>1, EntryFields DEF RingFull
<1>3. y.src = s
  BY <1>1, <1>2 DEF Elems
<1>4. x \in S /\ x.src = s /\ x.id \in Nat /\ x.id >= 1 /\ x.at \in Nat /\ x.id <= n
  BY <1>3, EntryFields
<1>5. CASE x.id > n - m
  <2>1. PICK k \in 1 .. m : k = x.id - (n - m)
    BY <1>4, <1>5
  <2>2. r[k].id = x.id /\ r[k].src = x.src /\ r[k] \in S
    BY <1>2, <1>4, <2>1
  <2>3. ~ (r[k].at < x.at) /\ ~ (x.at < r[k].at)
    BY <1>4, <2>2 DEF InTime
  <2>4. r[k].at = x.at
    BY <1>2, <1>4, <2>3
  <2>5. r[k] = x
    BY <1>4, <2>2, <2>4 DEF Distinct
  <2>6. QED
    BY <1>2, <2>5
<1>6. CASE ~ (x.id > n - m)
  <2>1. m = RingCap
    BY <1>1, <1>4, <1>6 DEF RingFull
  <2>2. ASSUME NEW k \in 1 .. m PROVE r[k].at > x.at
    <3>1. x.id < r[k].id
      BY <1>2, <1>4, <1>6
    <3>2. x.at < r[k].at
      BY <1>2, <1>4, <3>1 DEF InTime
    <3>3. QED
      BY <1>2, <1>4, <3>2
  <2>3. After(Elems(r), x) = Elems(r)
    BY <1>1, <2>2 DEF After, Elems
  <2>4. \A i, j \in 1 .. Len(r) : i < j => r[i] # r[j]
    <3>1. ASSUME NEW i \in 1 .. m, NEW j \in 1 .. m, i < j, r[i] = r[j] PROVE FALSE
      <4>1. n - m + i = n - m + j
        BY <1>2, <3>1
      <4>2. QED
        BY <3>1, <4>1
    <3>2. QED
      BY <1>1, <3>1
  <2>5. Cardinality(Elems(r)) = m
    BY <1>1, <2>4, ElemsCount
  <2>6. QED
    BY <2>1, <2>3, <2>5
<1>7. QED
  BY <1>5, <1>6
------------------------------------------------------------------------------
(* Until the server restarts for the first time. *)

\* What the store was given counts as well as what is anywhere.
Known == All \cup due

\* The entries on their way to the store.
Coming == (UNION {Elems(pipe[s]) : s \in Sources}) \cup Elems(wire)

\* IDs and timestamps tell the same order, and the counters bound both.
Dated(S, n, t) == Distinct(S) /\ InTime(S) /\ \A x \in S : x.id <= n[x.src] /\ x.at <= t

RingsFull(r, n) == \A s \in Sources : RingFull(r[s], n[s], s)

\* A watermark is the ID of an entry the store was given.
Given(w, D) == \A s \in Sources : w[s] = 0 \/ \E y \in D : y.src = s /\ y.id = w[s]

ViewIsTop(T, D) == T \subseteq D /\ (Comparable(D) => IsTop(T, D, MaxLogs))

Fresh == /\ Dated(Known, nextID, time) /\ InQueues(pipe, wire) /\ RingsFull(ring, nextID)
         /\ Covers(Coming, rest.got) /\ Covers(Coming, due)
         /\ Given(watermark, due) /\ ViewIsTop(Elems(buffer), due)

LEMMA KnownEntries ==
  ASSUME TypeOK
  PROVE  Known \subseteq Entry /\ Coming \subseteq All
  BY AllEntries, TypeParts DEF Known, CountsTyped, Coming, All

LEMMA DatedLess ==
  ASSUME NEW S, NEW n, NEW t, Dated(S, n, t), NEW R \in SUBSET S
  PROVE  Dated(R, n, t)
  BY DEF Dated, Distinct, InTime

LEMMA FreshInit == Init => Fresh
<1> SUFFICES ASSUME Init PROVE Fresh
  OBVIOUS
<1>1. Elems(<<>>) = {} /\ Len(<<>>) = 0
  BY DEF Elems
<1>2. Known = {} /\ Coming = {} /\ rest.got = {} /\ due = {} /\ Elems(buffer) = {}
  BY <1>1 DEF Init, All, Known, Coming, NoRequest
<1>3. InQueues(pipe, wire)
  BY <1>1 DEF Init, InQueues, InWire, InQueue, Follows
<1>4. RingsFull(ring, nextID)
  BY <1>1 DEF Init, RingsFull, RingFull
<1>5. IsTop({}, {}, MaxLogs)
  BY FS_EmptySet DEF IsTop
<1>6. Given(watermark, due)
  BY DEF Init, Given
<1>7. QED
  BY <1>2, <1>3, <1>4, <1>5, <1>6 DEF Fresh, Dated, Distinct, InTime, Covers, ViewIsTop

\* Steps that number nothing and give the store nothing.
LEMMA FreshQuiet ==
  ASSUME Fresh, UNCHANGED <<time, nextID, ring, storeVars>>, All' \subseteq All,
         InQueues(pipe', wire'), Coming' \subseteq Coming, Covers(Coming, rest'.got)
  PROVE  Fresh'
<1>1. /\ time' = time /\ nextID' = nextID /\ ring' = ring
      /\ buffer' = buffer /\ watermark' = watermark /\ due' = due
  BY DEF storeVars
<1>2. Dated(Known', nextID, time)
  <2>1. Known' \in SUBSET Known
    BY <1>1 DEF Known
  <2>2. QED
    BY <2>1, DatedLess DEF Fresh
<1>3. Covers(Coming', rest'.got) /\ Covers(Coming', due)
  BY CoversLess DEF Fresh
<1>4. QED
  BY <1>1, <1>2, <1>3 DEF Fresh

LEMMA FanOutFresh ==
  ASSUME Inv, Fresh, NEW s \in Sources, FanOut(s) \/ DropAtHub(s)
  PROVE  Fresh'
<1> DEFINE e == Head(pipe[s])
<1>1. /\ wire \in Seq(Entry) /\ pipe \in [Sources -> Seq(Entry)] /\ pipe[s] \in Seq(Entry)
      /\ pipe[s] # <<>>
  BY TypeParts DEF Inv, ServerTyped, FanOut, DropAtHub
<1>2. /\ InWire(wire) /\ \A q \in Sources : InQueue(pipe[q], q) /\ Follows(pipe[q], wire, q)
  BY DEF Fresh, InQueues
<1>3. /\ Elems(Tail(pipe[s])) \subseteq Elems(pipe[s]) /\ e \in Elems(pipe[s])
      /\ InQueue(Tail(pipe[s]), s) /\ e.src = s /\ \A x \in Elems(Tail(pipe[s])) : e.id < x.id
  <2>1. Elems(Tail(pipe[s])) \subseteq Elems(pipe[s]) /\ e \in Elems(pipe[s])
    BY <1>1, TailIs
  <2>2. /\ InQueue(Tail(pipe[s]), s) /\ e.src = s /\ \A x \in Elems(Tail(pipe[s])) : e.id < x.id
    BY <1>1, <1>2, TailQueue
  <2>3. QED
    BY <2>1, <2>2
<1>4. e \in Entry
  BY <1>1, <1>3, ElemsOf
<1> HIDE DEF e
<1>5. /\ pipe' = [pipe EXCEPT ![s] = Tail(pipe[s])]
      /\ wire' = wire \/ wire' = Append(wire, e)
      /\ UNCHANGED <<time, nextID, ring, storeVars>> /\ rest' = rest
  BY DEF FanOut, DropAtHub, e
<1>6. \A q \in Sources : pipe'[q] = IF q = s THEN Tail(pipe[s]) ELSE pipe[q]
  BY <1>1, <1>5
<1>7. Elems(wire') \subseteq Elems(wire) \cup {e} /\ InWire(wire')
  <2>1. \A x \in Elems(wire) : x.src = e.src => x.id < e.id
    BY <1>2, <1>3 DEF Follows
  <2>2. Elems(Append(wire, e)) = Elems(wire) \cup {e}
    BY <1>1, <1>4, AppendParts
  <2>3. InWire(Append(wire, e))
    BY <1>1, <1>2, <1>4, <2>1, AppendWire
  <2>4. QED
    BY <1>2, <1>5, <2>2, <2>3
<1>8. InQueues(pipe', wire')
  <2>1. ASSUME NEW q \in Sources PROVE InQueue(pipe'[q], q) /\ Follows(pipe'[q], wire', q)
    <3>1. CASE q = s
      BY <1>2, <1>3, <1>6, <1>7, <3>1 DEF Follows
    <3>2. CASE q # s
      BY <1>2, <1>3, <1>6, <1>7, <3>2 DEF Follows
    <3>3. QED
      BY <3>1, <3>2
  <2>2. QED
    BY <1>7, <2>1 DEF InQueues
<1>9. \A q \in Sources : Elems(pipe'[q]) \subseteq Elems(pipe[q])
  BY <1>3, <1>6
<1>10. Coming' \subseteq Coming
  BY <1>3, <1>7, <1>9 DEF Coming
<1>11. All' \subseteq All
  <2>1. /\ Elems(wire') \subseteq All \cup {} /\ rest'.got \subseteq All \cup {}
        /\ Elems(buffer') \subseteq All \cup {}
    BY <1>3, <1>5, <1>7 DEF storeVars, All
  <2>2. /\ \A q \in Sources : Elems(ring'[q]) \subseteq Elems(ring[q]) \cup {}
        /\ \A q \in Sources : Elems(pipe'[q]) \subseteq Elems(pipe[q]) \cup {}
    BY <1>5, <1>9
  <2>3. All' \subseteq All \cup {}
    BY <2>1, <2>2, Moves
  <2>4. QED
    BY <2>3
<1>12. QED
  BY <1>5, <1>8, <1>10, <1>11, FreshQuiet DEF Fresh

LEMMA AsideFresh ==
  ASSUME Fresh, UNCHANGED <<serverVars, storeVars>>, wire' \in {wire, <<>>},
         rest'.got \subseteq All, Covers(Coming, rest'.got)
  PROVE  Fresh'
<1>1. /\ time' = time /\ nextID' = nextID /\ ring' = ring /\ pipe' = pipe
      /\ buffer' = buffer /\ watermark' = watermark /\ due' = due
  BY DEF serverVars, storeVars
<1>2. Elems(wire') \subseteq Elems(wire) /\ InQueues(pipe', wire')
  <2>1. CASE wire' = wire
    BY <1>1, <2>1 DEF Fresh
  <2>2. CASE wire' = <<>>
    <3>1. Elems(<<>>) = {} /\ Len(<<>>) = 0
      BY DEF Elems
    <3>2. QED
      BY <1>1, <2>2, <3>1 DEF Fresh, InQueues, InWire, Follows
  <2>3. QED
    BY <2>1, <2>2
<1>3. All' \subseteq All /\ Coming' \subseteq Coming
  BY <1>1, <1>2 DEF All, Coming
<1>4. QED
  BY <1>1, <1>2, <1>3, FreshQuiet DEF storeVars

\* A source is read: its ring covers all of it that is still to come.
LEMMA ReadSourceFresh ==
  ASSUME RingCap >= MaxLogs, Inv, Fresh, ReadSource
  PROVE  Fresh'
<1> DEFINE h == Head(rest.todo)
<1>1. /\ ServerTyped /\ RestTyped(rest) /\ rest.todo \in Seq(Sources) /\ rest.got \subseteq Entry
      /\ Known \subseteq Entry /\ Coming \subseteq All /\ rest.todo # <<>>
  BY TypeParts, RestFields, KnownEntries DEF Inv, ReadSource
<1>2. h \in Sources
  BY <1>1, TailIs, ElemsOf
<1>3. /\ UNCHANGED <<serverVars, storeVars>> /\ wire' = wire
      /\ rest'.got = rest.got \cup Elems(ring[h])
  BY <1>1 DEF ReadSource, RestTyped
<1> HIDE DEF h
<1>4. ring[h] \in Seq(Entry) /\ nextID[h] \in Nat
  BY <1>1, <1>2 DEF ServerTyped
<1>5. Elems(ring[h]) \subseteq All /\ rest.got \subseteq All
  BY <1>2 DEF All
<1>6. Covers(Coming, Elems(ring[h]))
  <2>1. RingFull(ring[h], nextID[h], h)
    BY <1>2 DEF Fresh, RingsFull
  <2>2. Coming \in SUBSET Entry /\ Coming \subseteq Known /\ Elems(ring[h]) \subseteq Known
    BY <1>1, <1>5 DEF Known
  <2>3. Distinct(Known) /\ InTime(Known) /\ \A x \in Coming : x.src = h => x.id <= nextID[h]
    BY <2>2 DEF Fresh, Dated
  <2>4. QED
    BY <1>4, <2>1, <2>2, <2>3, RingCovers
<1>7. Covers(Coming, rest.got \cup Elems(ring[h]))
  <2>1. PICK G : G = Elems(ring[h])
    OBVIOUS
  <2>2. rest.got \cup G \in SUBSET Entry /\ Distinct(rest.got \cup G)
    BY <1>1, <1>5, <2>1 DEF Fresh, Dated, Distinct, Known
  <2>3. IsFiniteSet(rest.got \cup G)
    BY <2>2, DistinctFinite
  <2>4. Covers(Coming, rest.got) /\ Covers(Coming, G)
    BY <1>6, <2>1 DEF Fresh
  <2>5. QED
    BY <2>1, <2>3, <2>4, CoversBoth
<1>8. QED
  BY <1>3, <1>5, <1>7, AsideFresh

LEMMA AnswerFresh ==
  ASSUME Inv, Fresh, Answer
  PROVE  Fresh'
<1>1. /\ RestTyped(rest) /\ rest.got \subseteq Entry /\ Known \subseteq Entry
      /\ Coming \subseteq All
  BY TypeParts, RestFields, KnownEntries DEF Inv
<1>2. /\ UNCHANGED <<serverVars, storeVars>> /\ wire' = wire
      /\ rest'.got = Newest(rest.got, MaxLogs)
  BY <1>1 DEF Answer, RestTyped
<1>3. rest.got \subseteq All /\ Newest(rest.got, MaxLogs) \subseteq rest.got
  BY DEF All, Newest
<1>4. Distinct(rest.got) /\ Coming \in SUBSET Entry
  BY <1>1, <1>3 DEF Fresh, Dated, Distinct, Known
<1>5. Covers(Coming, rest.got)
  BY DEF Fresh
<1>6. Covers(Coming, Newest(rest.got, MaxLogs))
  BY <1>1, <1>4, <1>5, CoversTop
<1>7. QED
  BY <1>2, <1>3, <1>6, AsideFresh

\* A line is logged: its entry is newer than all that is known.
LEMMA LogLineFresh ==
  ASSUME Inv, Fresh, NEW s \in Sources, LogLine(s)
  PROVE  Fresh'
<1> DEFINE e == [src |-> s, id |-> nextID[s] + 1, at |-> time + 1]
<1>1. /\ ServerTyped /\ time < MaxTime /\ nextID[s] <= time /\ Known \subseteq Entry
      /\ Coming \subseteq All /\ RestTyped(rest) /\ rest.got \subseteq Entry
  BY TypeParts, RestFields, KnownEntries DEF Inv, NumbersBounded, LogLine
<1>2. /\ time \in Nat /\ nextID \in [Sources -> 0 .. MaxTime] /\ nextID[s] \in Nat
      /\ ring \in [Sources -> Seq(Entry)] /\ pipe \in [Sources -> Seq(Entry)]
  BY <1>1 DEF ServerTyped
<1>3. e \in Entry /\ e.src = s /\ e.id = nextID[s] + 1 /\ e.at = time + 1
  BY <1>1, <1>2 DEF Entry
<1> HIDE DEF e
<1>4. /\ ring' = [ring EXCEPT ![s] = Last(Append(ring[s], e), RingCap)]
      /\ pipe' = [pipe EXCEPT ![s] = IF Len(pipe[s]) < PipeCap THEN Append(pipe[s], e) ELSE pipe[s]]
      /\ time' = time + 1 /\ nextID' = [nextID EXCEPT ![s] = nextID[s] + 1]
      /\ wire' = wire /\ rest' = rest /\ buffer' = buffer /\ watermark' = watermark /\ due' = due
  BY DEF LogLine, e, storeVars
<1>5. /\ Elems(Last(Append(ring[s], e), RingCap)) \subseteq Elems(ring[s]) \cup {e}
      /\ Elems(Append(pipe[s], e)) = Elems(pipe[s]) \cup {e}
  <2>1. Append(ring[s], e) \in Seq(Entry) /\ ring[s] \in Seq(Entry) /\ pipe[s] \in Seq(Entry)
    BY <1>2, <1>3, AppendIs
  <2>2. Elems(Append(ring[s], e)) = Elems(ring[s]) \cup {e}
    BY <1>3, <2>1, AppendParts
  <2>3. Elems(Last(Append(ring[s], e), RingCap)) \subseteq Elems(Append(ring[s], e))
    BY <2>1, LastIs
  <2>4. Elems(Append(pipe[s], e)) = Elems(pipe[s]) \cup {e}
    BY <1>3, <2>1, AppendParts
  <2>5. QED
    BY <2>2, <2>3, <2>4
<1>6. \A q \in Sources :
        /\ nextID'[q] = IF q = s THEN nextID[s] + 1 ELSE nextID[q]
        /\ ring'[q] = IF q = s THEN Last(Append(ring[s], e), RingCap) ELSE ring[q]
        /\ pipe'[q] = IF q = s /\ Len(pipe[s]) < PipeCap THEN Append(pipe[s], e) ELSE pipe[q]
        /\ nextID[q] \in Nat
  BY <1>2, <1>4
<1>7. \A x \in Known : /\ x.src \in Sources /\ x.id \in Nat /\ x.at \in Nat /\ x.at < e.at
                       /\ (x.src = s => x.id < e.id) /\ x.id <= nextID[x.src] /\ x.at <= time
  <2>1. ASSUME NEW x \in Known
        PROVE  /\ x.src \in Sources /\ x.id \in Nat /\ x.at \in Nat /\ x.at < e.at
               /\ (x.src = s => x.id < e.id) /\ x.id <= nextID[x.src] /\ x.at <= time
    <3>1. x.src \in Sources /\ x.id \in Nat /\ x.at \in Nat
      BY <1>1, EntryFields
    <3>2. x.id <= nextID[x.src] /\ x.at <= time
      BY DEF Fresh, Dated
    <3>3. QED
      BY <1>2, <1>3, <3>1, <3>2, SMTT(30)
  <2>2. QED
    BY <2>1
<1>8. \A q \in Sources : /\ Elems(ring'[q]) \subseteq Elems(ring[q]) \cup {e}
                         /\ Elems(pipe'[q]) \subseteq Elems(pipe[q]) \cup {e}
  BY <1>5, <1>6
<1>9. Known' \subseteq Known \cup {e}
  <2>1. /\ Elems(wire') \subseteq All \cup {e} /\ rest'.got \subseteq All \cup {e}
        /\ Elems(buffer') \subseteq All \cup {e}
    BY <1>4 DEF All
  <2>2. All' \subseteq All \cup {e}
    BY <1>8, <2>1, Moves
  <2>3. QED
    BY <1>4, <2>2 DEF Known
<1>10. Dated(Known', nextID', time')
  <2>1. Distinct(Known \cup {e})
    BY <1>3, <1>7 DEF Fresh, Dated, Distinct
  <2>2. InTime(Known \cup {e})
    <3>1. ASSUME NEW x \in Known, x.src = e.src
          PROVE  x.id < e.id /\ x.at < e.at /\ ~ (e.id < x.id) /\ ~ (e.at < x.at)
      BY <1>2, <1>3, <1>7, <3>1
    <3>2. ~ (e.id < e.id) /\ ~ (e.at < e.at)
      BY <1>2, <1>3
    <3>3. InTime(Known)
      BY DEF Fresh, Dated
    <3>4. QED
      BY <3>1, <3>2, <3>3 DEF InTime
  <2>3. ASSUME NEW x \in Known \cup {e} PROVE x.id <= nextID'[x.src] /\ x.at <= time'
    <3>1. CASE x \in Known
      <4>1. /\ x.src \in Sources /\ x.id \in Nat /\ x.id <= nextID[x.src]
            /\ x.at \in Nat /\ x.at <= time
        BY <1>7, <3>1
      <4>2. /\ nextID[x.src] \in Nat
            /\ nextID'[x.src] = IF x.src = s THEN nextID[x.src] + 1 ELSE nextID[x.src]
        BY <1>6, <4>1
      <4>3. x.id <= nextID'[x.src]
        BY <4>1, <4>2
      <4>4. x.at <= time'
        BY <1>2, <1>4, <4>1
      <4>5. QED
        BY <4>3, <4>4
    <3>2. CASE x = e
      BY <1>2, <1>3, <1>4, <1>6, <3>2
    <3>3. QED
      BY <3>1, <3>2
  <2>4. Dated(Known \cup {e}, nextID', time')
    BY <2>1, <2>2, <2>3 DEF Dated
  <2>5. QED
    BY <1>9, <2>4, DatedLess
<1>11. InQueues(pipe', wire')
  <2>1. /\ InWire(wire) /\ \A q \in Sources : InQueue(pipe[q], q) /\ Follows(pipe[q], wire, q)
    BY DEF Fresh, InQueues
  <2>2. Elems(wire) \subseteq Known /\ Elems(pipe[s]) \subseteq Known
    BY DEF Known, All
  <2>3. pipe[s] \in Seq(Entry) /\ \A x \in Elems(pipe[s]) : x.id < e.id
    <3>1. \A x \in Elems(pipe[s]) : x.src = s
      BY <2>1 DEF InQueue, Elems
    <3>2. QED
      BY <1>2, <1>7, <2>2, <3>1
  <2>4. InQueue(Append(pipe[s], e), s)
    BY <1>3, <2>1, <2>3, AppendQueue
  <2>5. Follows(Append(pipe[s], e), wire, s)
    BY <1>3, <1>5, <1>7, <2>1, <2>2 DEF Follows
  <2>6. \A q \in Sources : InQueue(pipe'[q], q) /\ Follows(pipe'[q], wire, q)
    BY <1>6, <2>1, <2>4, <2>5
  <2>7. QED
    BY <1>4, <2>1, <2>6 DEF InQueues
<1>12. RingsFull(ring', nextID')
  <2>1. ASSUME NEW q \in Sources PROVE RingFull(ring'[q], nextID'[q], q)
    <3>1. ring[q] \in Seq(Entry) /\ nextID[q] \in Nat /\ RingFull(ring[q], nextID[q], q)
      BY <1>2, <1>6 DEF Fresh, RingsFull
    <3>2. CASE q = s
      <4>1. RingFull(Last(Append(ring[s], e), RingCap), nextID[s] + 1, s)
        BY <1>3, <3>1, <3>2, RingLog
      <4>2. QED
        BY <1>6, <3>2, <4>1
    <3>3. CASE q # s
      BY <1>6, <3>1, <3>3
    <3>4. QED
      BY <3>2, <3>3
  <2>2. QED
    BY <2>1 DEF RingsFull
<1>13. Covers(Coming', rest'.got) /\ Covers(Coming', due')
  <2>1. ASSUME NEW x \in Coming' PROVE x \in Coming \cup {e}
    <3>1. CASE x \in Elems(wire')
      BY <1>4, <3>1 DEF Coming
    <3>2. ASSUME NEW q \in Sources, x \in Elems(pipe'[q]) PROVE x \in Coming \cup {e}
      BY <1>8, <3>2 DEF Coming
    <3>3. QED
      BY <3>1, <3>2 DEF Coming
  <2>2. rest.got \in SUBSET Known /\ due \in SUBSET Known
    BY DEF Known, All
  <2>3. rest.got \in SUBSET Entry /\ due \in SUBSET Entry
    BY <1>1, <2>2
  <2>4. /\ \A y \in rest.got : y.src = e.src => y.id < e.id
        /\ \A y \in due : y.src = e.src => y.id < e.id
    BY <1>3, <1>7, <2>2
  <2>5. Covers(Coming, rest.got) /\ Covers(Coming, due)
    BY DEF Fresh
  <2>6. Covers(Coming \cup {e}, rest.got)
    BY <1>3, <2>3, <2>4, <2>5, CoversNew
  <2>7. Covers(Coming \cup {e}, due)
    BY <1>3, <2>3, <2>4, <2>5, CoversNew
  <2>8. QED
    BY <1>4, <2>1, <2>6, <2>7, CoversLess
<1>14. Given(watermark', due') /\ ViewIsTop(Elems(buffer'), due')
  BY <1>4 DEF Fresh
<1>15. QED
  BY <1>10, <1>11, <1>12, <1>13, <1>14 DEF Fresh

\* Steps of the store: what it is given is D, of what is known.
LEMMA StoreStepFresh ==
  ASSUME Inv, Fresh, UNCHANGED serverVars, StoreOK(buffer', watermark', Known),
         Elems(wire') \subseteq Elems(wire), InWire(wire'),
         rest'.got \in {rest.got, {}}, due' \subseteq Known,
         Covers(Coming', due'), Given(watermark', due'), ViewIsTop(Elems(buffer'), due')
  PROVE  Fresh'
<1>1. time' = time /\ nextID' = nextID /\ ring' = ring /\ pipe' = pipe
  BY DEF serverVars
<1>2. Coming' \subseteq Coming
  BY <1>1 DEF Coming
<1>3. Known' \in SUBSET Known
  <2>1. Elems(buffer') \subseteq Known
    BY DEF StoreOK
  <2>2. All' \subseteq Known
    BY <1>1, <2>1 DEF All, Known
  <2>3. QED
    BY <2>2 DEF Known
<1>4. Dated(Known', nextID', time')
  BY <1>1, <1>3, DatedLess DEF Fresh
<1>5. InQueues(pipe', wire')
  BY <1>1 DEF Fresh, InQueues, Follows
<1>6. Covers(Coming', rest'.got)
  BY <1>2 DEF Fresh, Covers
<1>7. QED
  BY <1>1, <1>4, <1>5, <1>6 DEF Fresh

LEMMA KeyedInTime ==
  ASSUME NEW S \in SUBSET Entry, Distinct(S), InTime(S)
  PROVE  Keyed(S)
<1> SUFFICES ASSUME NEW x \in S, NEW y \in S, x.src = y.src, x.id = y.id
             PROVE  x = y
  BY DEF Keyed
<1>1. x.id \in Nat /\ x.at \in Nat /\ y.at \in Nat
  BY EntryFields
<1>2. ~ (x.at < y.at) /\ ~ (y.at < x.at)
  <2>1. ~ (x.id < y.id) /\ ~ (y.id < x.id)
    BY <1>1
  <2>2. QED
    BY <2>1 DEF InTime
<1>3. x.at = y.at
  BY <1>1, <1>2
<1>4. QED
  BY <1>3 DEF Distinct

\* The answer is merged.
LEMMA SyncLogsFresh ==
  ASSUME Inv, Fresh, SyncLogs
  PROVE  Fresh'
<1>1. PICK G : G = rest.got
  OBVIOUS
<1>2. /\ StoreOK(buffer, watermark, Elems(buffer)) /\ Keyed(G) /\ Known \subseteq Entry
      /\ Coming \subseteq All /\ buffer \in Seq(Entry)
  BY <1>1, KnownEntries DEF Inv, StoreOK
<1>3. Elems(buffer) \subseteq Known /\ G \subseteq Known /\ due \subseteq Known
  BY <1>1 DEF Known, All
<1>4. /\ ReplaceEntries(G) /\ due' = due \cup G /\ wire' = wire /\ rest'.got = {}
      /\ UNCHANGED serverVars
  BY <1>1 DEF SyncLogs, NoRequest
<1>5. \A S \in SUBSET Known : S \in SUBSET Entry /\ Distinct(S) /\ InTime(S)
  BY <1>2 DEF Fresh, Dated, Distinct, InTime
<1>6. StoreOK(buffer', watermark', Elems(buffer) \cup G)
  <2>1. G \in SUBSET Entry /\ Distinct(G \cup Elems(buffer))
    BY <1>3, <1>5
  <2>2. QED
    BY <1>2, <1>4, <2>1, ReplaceOK
<1>7. Elems(buffer') \subseteq Elems(buffer) \cup G /\ StoreOK(buffer', watermark', Known)
  BY <1>3, <1>6 DEF StoreOK
<1>8. Elems(buffer) \subseteq due /\ (Comparable(due) => IsTop(Elems(buffer), due, MaxLogs))
  BY DEF Fresh, ViewIsTop
<1>9. Covers(Coming', due')
  <2>1. due \cup G \in SUBSET Entry /\ Distinct(due \cup G)
    BY <1>3, <1>5
  <2>2. IsFiniteSet(due \cup G)
    BY <2>1, DistinctFinite
  <2>3. Covers(Coming, due) /\ Covers(Coming, G)
    BY <1>1 DEF Fresh
  <2>4. Covers(Coming, due \cup G)
    BY <2>2, <2>3, CoversBoth
  <2>5. Coming' = Coming
    BY <1>4 DEF Coming, serverVars
  <2>6. QED
    BY <1>4, <2>4, <2>5
<1>10. Given(watermark', due')
  <2>1. PICK b \in Seq(Entry) : b = buffer'
    BY <1>7 DEF StoreOK
  <2>2. Distinct(Elems(b))
    BY <1>3, <1>5, <1>7, <2>1
  <2>3. watermark' = Watermark(b)
    BY <1>4, <2>1 DEF ReplaceEntries
  <2>4. \A s \in Sources : \/ Watermark(b)[s] = 0
                           \/ \E y \in Elems(b) : y.src = s /\ y.id = Watermark(b)[s]
    BY <2>2, WatermarkIs
  <2>5. QED
    BY <1>4, <1>7, <1>8, <2>1, <2>3, <2>4 DEF Given
<1>11. ViewIsTop(Elems(buffer'), due')
  <2>1. Elems(buffer') \subseteq due'
    BY <1>4, <1>7, <1>8
  <2>2. ASSUME Comparable(due') PROVE IsTop(Elems(buffer'), due', MaxLogs)
    <3>1. PICK E \in SUBSET Entry : E = due \cup G /\ Distinct(E) /\ InTime(E)
      BY <1>3, <1>5
    <3>2. IsTop(Elems(buffer), due, MaxLogs)
      <4>1. IsFiniteSet(E) /\ due \in SUBSET E /\ Comparable(E)
        BY <1>4, <2>2, <3>1, DistinctFinite
      <4>2. Comparable(due)
        BY <4>1, ComparableLess
      <4>3. QED
        BY <1>8, <4>2
    <3>3. PICK U : U = G \cup Elems(buffer)
      OBVIOUS
    <3>4. Unique(G) = U
      <4>1. Keyed(U)
        BY <1>3, <1>5, <3>3, KeyedInTime
      <4>2. ASSUME NEW x \in Elems(buffer), x \notin Unique(G) PROVE x \in G
        <5>1. PICK r \in G : r.src = x.src /\ r.id = x.id
          BY <4>2 DEF Unique
        <5>2. QED
          BY <3>3, <4>1, <5>1 DEF Keyed
      <4>3. QED
        BY <3>3, <4>2 DEF Unique
    <3>5. U \in SUBSET Entry /\ Distinct(U)
      BY <1>3, <1>5, <3>3
    <3>6. PICK all : all = Sorted(U)
      OBVIOUS
    <3>7. /\ all \in Seq(U) /\ Len(all) = Cardinality(U) /\ Len(all) \in Nat
          /\ \A i, j \in 1 .. Len(all) : i < j => SortsBefore(all[i], all[j])
      BY <3>5, <3>6, SortedIs
    <3>8. PICK m \in 0 .. Len(all) : m = IF Len(all) < MaxLogs THEN Len(all) ELSE MaxLogs
      <4>1. (IF Len(all) < MaxLogs THEN Len(all) ELSE MaxLogs) \in 0 .. Len(all)
        BY <3>7
      <4>2. QED
        BY <4>1
    <3>9. PICK d : d = SubSeq(all, 1, m)
      OBVIOUS
    <3>10. d \in Seq(U) /\ Len(d) = m /\ \A i \in 1 .. m : d[i] = all[i]
      BY <3>7, <3>9, CutIs
    <3>11. buffer' = d
      BY <1>4, <3>4, <3>6, <3>8, <3>9 DEF ReplaceEntries
    <3>12. IsTop(Elems(d), due \cup G, MaxLogs)
      <4>1. due \in SUBSET Entry /\ G \in SUBSET Entry
        BY <3>1
      <4>2. Distinct(due \cup G) /\ InTime(due \cup G) /\ Comparable(due \cup G)
        BY <1>4, <2>2, <3>1
      <4>3. Len(d) = IF Len(all) < MaxLogs THEN Len(all) ELSE MaxLogs
        BY <3>8, <3>10
      <4>4. \A i \in 1 .. Len(d) : d[i] = all[i]
        BY <3>10
      <4>5. QED
        BY <3>2, <3>3, <3>7, <3>10, <4>1, <4>2, <4>3, <4>4, MergeTop
    <3>13. QED
      BY <1>4, <3>11, <3>12
  <2>3. QED
    BY <2>1, <2>2 DEF ViewIsTop
<1>12. Elems(wire') \subseteq Elems(wire) /\ InWire(wire')
  BY <1>4 DEF Fresh, InQueues
<1>13. QED
  BY <1>3, <1>4, <1>7, <1>9, <1>10, <1>11, <1>12, StoreStepFresh

\* A pushed entry is on top of what was there.
LEMMA PushIs ==
  ASSUME NEW e \in Entry, buffer \in Seq(Entry), Len(buffer) <= MaxLogs, Push(e),
         ~ (e.id <= watermark[e.src])
  PROVE  /\ watermark' = [watermark EXCEPT ![e.src] = e.id]
         /\ buffer' \in Seq(Entry)
         /\ Len(buffer') = IF Len(buffer) < MaxLogs THEN Len(buffer) + 1 ELSE MaxLogs
         /\ \A i \in 1 .. Len(buffer') : buffer'[i] = IF i = 1 THEN e ELSE buffer[i - 1]
<1>1. PICK c : c = <<e>> \o buffer
  OBVIOUS
<1>2. /\ c \in Seq(Entry) /\ Len(c) = Len(buffer) + 1 /\ Len(buffer) \in Nat
      /\ \A i \in 1 .. Len(c) : c[i] = IF i = 1 THEN e ELSE buffer[i - 1]
  BY <1>1
<1>3. PICK m \in 0 .. Len(c) : m = IF Len(buffer) < MaxLogs THEN Len(buffer) + 1 ELSE MaxLogs
  <2>1. (IF Len(buffer) < MaxLogs THEN Len(buffer) + 1 ELSE MaxLogs) \in 0 .. Len(c)
    BY <1>2
  <2>2. QED
    BY <2>1
<1>4. PICK d : d = SubSeq(c, 1, m)
  OBVIOUS
<1>5. d \in Seq(Entry) /\ Len(d) = m /\ \A i \in 1 .. m : d[i] = c[i] /\ i \in 1 .. Len(c)
  <2>1. \A i \in 1 .. m : i \in 1 .. Len(c)
    BY <1>2
  <2>2. QED
    BY <1>2, <1>4, <2>1, CutIs
<1>6. buffer' = d /\ watermark' = [watermark EXCEPT ![e.src] = e.id]
  BY <1>1, <1>3, <1>4 DEF Push
<1>7. QED
  BY <1>2, <1>3, <1>5, <1>6

\* What push rejects the store has been given, or it is too old for the view.
LEMMA RejectedIsOld ==
  ASSUME Inv, Fresh, NEW e, wire # <<>>, e = Head(wire), e.id <= watermark[e.src]
  PROVE  e \in due \/ Cardinality(After(due, e)) >= MaxLogs
<1>1. wire \in Seq(Entry) /\ Known \subseteq Entry /\ Coming \subseteq All
  BY TypeParts, KnownEntries DEF Inv
<1>2. e \in Coming /\ e \in Entry
  BY <1>1, TailIs DEF Coming, Known, All
<1>3. e.src \in Sources /\ e.id \in Nat /\ 1 <= e.id
  BY <1>2, EntryFields
<1>4. watermark[e.src] # 0
  BY <1>3
<1>5. PICK y \in due : y.src = e.src /\ y.id = watermark[e.src]
  BY <1>3, <1>4 DEF Fresh, Given
<1>6. QED
  BY <1>2, <1>5 DEF Fresh, Covers

\* An entry of the stream is pushed.
LEMMA PushFresh ==
  ASSUME Inv, Fresh, NEW e, wire # <<>>, e = Head(wire), Push(e)
  PROVE  /\ Given(watermark', due \cup {e})
         /\ ViewIsTop(Elems(buffer'), due \cup {e})
<1>1. /\ StoreOK(buffer, watermark, Elems(buffer)) /\ Known \subseteq Entry
      /\ Coming \subseteq All /\ buffer \in Seq(Entry) /\ Len(buffer) <= MaxLogs
      /\ watermark \in [Sources -> 0 .. MaxTime] /\ wire \in Seq(Entry)
  BY TypeParts, KnownEntries DEF Inv, StoreOK
<1>2. e \in Coming /\ e \in Known /\ due \subseteq Known
  BY <1>1, TailIs DEF Coming, Known, All
<1>3. e \in Entry /\ e.src \in Sources /\ e.id \in Nat /\ 1 <= e.id
  BY <1>1, <1>2, EntryFields
<1>4. PICK E \in SUBSET Entry :
        E = due \cup {e} /\ Distinct(E) /\ InTime(E) /\ IsFiniteSet(E) /\ due \in SUBSET E
  <2>1. due \cup {e} \in SUBSET Entry /\ Distinct(due \cup {e}) /\ InTime(due \cup {e})
    BY <1>1, <1>2 DEF Fresh, Dated, Distinct, InTime
  <2>2. QED
    BY <2>1, DistinctFinite
<1>5. /\ Elems(buffer) \subseteq due
      /\ Comparable(E) => IsTop(Elems(buffer), due, MaxLogs)
  BY <1>4, ComparableLess DEF Fresh, ViewIsTop
<1>6. due \in SUBSET Entry /\ Distinct(due)
  BY <1>4 DEF Distinct
<1>7. CASE e.id <= watermark[e.src]
  <2>1. buffer' = buffer /\ watermark' = watermark
    BY <1>7 DEF Push
  <2>2. e \in due \/ Cardinality(After(due, e)) >= MaxLogs
    BY <1>7, RejectedIsOld
  <2>3. ASSUME Comparable(E) PROVE IsTop(Elems(buffer), due \cup {e}, MaxLogs)
    BY <1>3, <1>5, <1>6, <2>2, <2>3, TopRejects
  <2>4. Given(watermark', due \cup {e})
    BY <2>1 DEF Fresh, Given
  <2>5. QED
    BY <1>4, <1>5, <2>1, <2>3, <2>4 DEF ViewIsTop
<1>8. CASE ~ (e.id <= watermark[e.src])
  <2>1. PICK d \in Seq(Entry) :
          /\ d = buffer'
          /\ Len(d) = IF Len(buffer) < MaxLogs THEN Len(buffer) + 1 ELSE MaxLogs
          /\ \A i \in 1 .. Len(d) : d[i] = IF i = 1 THEN e ELSE buffer[i - 1]
    BY <1>1, <1>3, <1>8, PushIs
  <2>2. watermark' = [watermark EXCEPT ![e.src] = e.id]
    BY <1>1, <1>3, <1>8, PushIs
  <2>3. Given(watermark', due \cup {e})
    BY <1>1, <1>3, <2>2 DEF Fresh, Given
  <2>4. Elems(buffer') \subseteq due \cup {e}
    <3>1. StoreOK(buffer', watermark', Elems(buffer) \cup {e})
      BY <1>1, <1>3, PushOK
    <3>2. QED
      BY <1>5, <3>1 DEF StoreOK
  <2>5. ASSUME Comparable(E) PROVE IsTop(Elems(d), due \cup {e}, MaxLogs)
    <3>1. Distinct(due \cup {e}) /\ InTime(due \cup {e}) /\ Comparable(due \cup {e})
      BY <1>4, <2>5
    <3>2. \A i, j \in 1 .. Len(buffer) :
            i < j /\ buffer[i].src = buffer[j].src => buffer[i].id > buffer[j].id
      BY <1>1 DEF StoreOK
    <3>3. ASSUME NEW i \in 1 .. Len(buffer), buffer[i].src = e.src PROVE buffer[i].id < e.id
      <4>1. buffer[i].id <= watermark[e.src] /\ buffer[i] \in Entry
        BY <1>1, <3>3, ElemsOf DEF StoreOK
      <4>2. buffer[i].id \in Nat /\ watermark[e.src] \in Nat
        BY <1>1, <1>3, <4>1, EntryFields
      <4>3. QED
        BY <1>3, <1>8, <4>1, <4>2
    <3>4. IsTop(Elems(buffer), due, MaxLogs)
      BY <1>5, <2>5
    <3>5. QED
      BY <1>1, <1>3, <1>6, <2>1, <3>1, <3>2, <3>3, <3>4, PushTop
  <2>6. QED
    BY <1>4, <2>1, <2>3, <2>4, <2>5 DEF ViewIsTop
<1>9. QED
  BY <1>7, <1>8

LEMMA OnMessageFresh ==
  ASSUME Inv, Fresh, OnMessage
  PROVE  Fresh'
<1>1. PICK e : e = Head(wire)
  OBVIOUS
<1>2. /\ wire \in Seq(Entry) /\ Known \subseteq Entry /\ Coming \subseteq All /\ wire # <<>>
      /\ StoreOK(buffer, watermark, Elems(buffer))
  BY TypeParts, KnownEntries DEF Inv, OnMessage
<1>3. /\ wire' = Tail(wire) /\ rest' = rest /\ UNCHANGED serverVars
      /\ IF paused THEN UNCHANGED storeVars ELSE Push(e) /\ due' = due \cup {e}
  BY <1>1 DEF OnMessage
<1>4. /\ Elems(wire') \subseteq Elems(wire) /\ e \in Elems(wire)
      /\ InWire(wire') /\ \A x \in Elems(wire') : x.src = e.src => e.id < x.id
  <2>1. Elems(wire') \subseteq Elems(wire) /\ e \in Elems(wire)
    BY <1>1, <1>2, <1>3, TailIs
  <2>2. InWire(wire)
    BY DEF Fresh, InQueues
  <2>3. InWire(wire') /\ \A x \in Elems(wire') : x.src = e.src => e.id < x.id
    BY <1>1, <1>2, <1>3, <2>2, TailWire
  <2>4. QED
    BY <2>1, <2>3
<1>5. /\ pipe' = pipe /\ Coming' \subseteq Coming /\ e \in Coming /\ e \in Known
      /\ due \subseteq Known /\ Elems(buffer) \subseteq Known /\ e \in Entry
  BY <1>2, <1>3, <1>4 DEF serverVars, Coming, Known, All
<1>6. StoreOK(buffer', watermark', Known) /\ due' \subseteq Known
  <2>1. CASE paused
    BY <1>2, <1>3, <1>5, <2>1 DEF StoreOK, storeVars
  <2>2. CASE ~ paused
    <3>1. StoreOK(buffer', watermark', Elems(buffer) \cup {e})
      BY <1>2, <1>3, <1>5, <2>2, PushOK
    <3>2. QED
      BY <1>3, <1>5, <2>2, <3>1 DEF StoreOK
  <2>3. QED
    BY <2>1, <2>2
<1>7. Covers(Coming', due')
  <2>1. Covers(Coming', due)
    BY <1>5, CoversLess DEF Fresh
  <2>2. ASSUME NEW x \in Coming', x.src = e.src PROVE e.id < x.id
    <3>1. CASE x \in Elems(wire')
      BY <1>4, <2>2, <3>1
    <3>2. ASSUME NEW s \in Sources, x \in Elems(pipe[s]) PROVE e.id < x.id
      BY <1>4, <2>2, <3>2 DEF Fresh, InQueues, InQueue, Follows, Elems
    <3>3. QED
      BY <1>5, <3>1, <3>2 DEF Coming
  <2>3. IsFiniteSet(due \cup {e})
    <3>1. due \cup {e} \in SUBSET Entry /\ Distinct(due \cup {e})
      BY <1>2, <1>5 DEF Fresh, Dated, Distinct
    <3>2. QED
      BY <3>1, DistinctFinite
  <2>4. Coming' \in SUBSET Entry
    BY <1>2, <1>5 DEF Known
  <2>5. Covers(Coming', due \cup {e})
    BY <1>5, <2>1, <2>2, <2>3, <2>4, CoversNext
  <2>6. due' = due \/ due' = due \cup {e}
    BY <1>3 DEF storeVars
  <2>7. QED
    BY <2>1, <2>5, <2>6
<1>8. Given(watermark', due') /\ ViewIsTop(Elems(buffer'), due')
  <2>1. CASE paused
    BY <1>3, <2>1 DEF Fresh, storeVars
  <2>2. CASE ~ paused
    BY <1>1, <1>2, <1>3, <2>2, PushFresh
  <2>3. QED
    BY <2>1, <2>2
<1>9. QED
  BY <1>3, <1>4, <1>6, <1>7, <1>8, StoreStepFresh

LEMMA ClearFresh ==
  ASSUME Inv, Fresh, Clear
  PROVE  Fresh'
<1>1. /\ buffer' = <<>> /\ watermark' = [s \in Sources |-> 0] /\ due' = {}
      /\ UNCHANGED serverVars /\ wire' = wire /\ rest' = rest
  BY DEF Clear
<1>2. \A T : <<>> \in Seq(T) /\ Len(<<>>) = 0 /\ Elems(<<>>) = {}
  BY DEF Elems
<1>3. StoreOK(buffer', watermark', Known)
  <2>1. watermark' \in [Sources -> 0 .. MaxTime]
    BY <1>1
  <2>2. QED
    BY <1>1, <1>2, <2>1 DEF StoreOK
<1>4. Covers(Coming', due') /\ Given(watermark', due')
  BY <1>1 DEF Covers, Given
<1>5. ViewIsTop(Elems(buffer'), due')
  <2>1. IsTop({}, {}, MaxLogs)
    BY FS_EmptySet DEF IsTop
  <2>2. QED
    BY <1>1, <1>2, <2>1 DEF ViewIsTop
<1>6. InWire(wire') /\ Elems(wire') \subseteq Elems(wire) /\ due' \subseteq Known
  BY <1>1 DEF Fresh, InQueues
<1>7. QED
  BY <1>1, <1>3, <1>4, <1>5, <1>6, StoreStepFresh

\* The steps that only concern the connection, the request and the counts.
LEMMA AsideStepsFresh ==
  ASSUME Fresh, \/ Register \/ Mount \/ SyncFails \/ TogglePause
                \/ ConnectionLost \/ Reconnect \/ UNCHANGED vars
  PROVE  Fresh'
<1>1. UNCHANGED <<serverVars, storeVars>>
  BY DEF Register, Mount, SyncFails, TogglePause, ConnectionLost, Reconnect, vars
<1>2. \/ rest' = rest
      \/ rest' = [NoRequest EXCEPT !.phase = "done"]
      \/ rest' = [NoRequest EXCEPT !.phase = "asked", !.todo = SourceOrder]
  BY DEF Register, Mount, SyncFails, TogglePause, ConnectionLost, Reconnect, vars
<1>3. wire' \in {wire, <<>>}
  BY DEF Register, Mount, SyncFails, TogglePause, ConnectionLost, Reconnect, vars
<1>4. rest'.got = rest.got \/ rest'.got = {}
  BY <1>2 DEF NoRequest
<1>5. rest'.got \subseteq All /\ Covers(Coming, rest'.got)
  BY <1>4 DEF Fresh, Covers, All
<1>6. QED
  BY <1>1, <1>3, <1>5, AsideFresh

LEMMA StepFresh ==
  ASSUME RingCap >= MaxLogs, Inv, restarts = 0 => Fresh, [Next]_vars
  PROVE  restarts' = 0 => Fresh'
<1> SUFFICES ASSUME restarts' = 0 PROVE Fresh'
  OBVIOUS
<1>1. restarts = 0 /\ ~ Restart
  <2>1. restarts \in Nat
    BY TypeParts DEF Inv, CountsTyped
  <2>2. ~ Restart
    BY <2>1 DEF Restart
  <2>3. restarts' = restarts
    BY <2>2 DEF Next, Server, Page, LogLine, FanOut, DropAtHub, Register, ReadSource, Answer,
                Mount, SyncLogs, SyncFails, OnMessage, TogglePause, Clear, ConnectionLost,
                Reconnect, vars, countVars
  <2>4. QED
    BY <2>2, <2>3
<1>2. Fresh
  BY <1>1
<1>3. ASSUME NEW s \in Sources, LogLine(s) PROVE Fresh'
  BY <1>2, <1>3, LogLineFresh
<1>4. ASSUME NEW s \in Sources, FanOut(s) \/ DropAtHub(s) PROVE Fresh'
  BY <1>2, <1>4, FanOutFresh
<1>5. CASE ReadSource \/ Answer
  BY <1>2, <1>5, ReadSourceFresh, AnswerFresh
<1>6. CASE SyncLogs \/ OnMessage \/ Clear
  BY <1>2, <1>6, SyncLogsFresh, OnMessageFresh, ClearFresh
<1>7. CASE \/ Register \/ Mount \/ SyncFails \/ TogglePause
           \/ ConnectionLost \/ Reconnect \/ UNCHANGED vars
  BY <1>2, <1>7, AsideStepsFresh
<1>8. QED
  BY <1>1, <1>3, <1>4, <1>5, <1>6, <1>7 DEF Next, Server, Page

\* If a ring holds at least as many entries as the view, and as long as IDs tell
\* which entry is newer (one life of the server; one source only, or nothing to
\* cut off), the view is always the newest MAX_LOGS of all that the store was
\* given: in whatever order the stream and the answer come and however they
\* overlap, push rejects only what the view has or need not have, and the merge
\* by ID keeps the newest (useLogStore.ts:20-55).
THEOREM ViewIsNewest == RingCap >= MaxLogs /\ Spec => []BufferIsNewest
<1> SUFFICES ASSUME RingCap >= MaxLogs PROVE Spec => []BufferIsNewest
  OBVIOUS
<1>1. Inv /\ (restarts = 0 => Fresh) => BufferIsNewest
  <2> SUFFICES ASSUME Inv, Fresh, IDsComparable PROVE Elems(buffer) = Newest(due, MaxLogs)
    BY DEF BufferIsNewest, IDsComparable
  <2>1. IsTop(Elems(buffer), due, MaxLogs)
    BY DEF Fresh, ViewIsTop, IDsComparable, Comparable
  <2>2. due \in SUBSET Entry /\ Distinct(due)
    BY KnownEntries DEF Inv, Fresh, Dated, Distinct, Known
  <2>3. QED
    BY <2>1, <2>2, TopIsNewest
<1>2. Init => Inv /\ (restarts = 0 => Fresh)
  BY InitOK, FreshInit
<1>3. Inv /\ (restarts = 0 => Fresh) /\ [Next]_vars => (Inv /\ (restarts = 0 => Fresh))'
  BY StepOK, StepFresh
<1>4. QED
  BY <1>1, <1>2, <1>3, PTL DEF Spec

\* The stream brings nothing in vain: whatever the merge made of the watermark, and
\* with any number of sources, an entry that is not shown was given before or is
\* older than MAX_LOGS that were (useLogStore.ts:20-30, 46-52).
THEOREM StreamIsShown == RingCap >= MaxLogs /\ Spec => ShownUnlessOld
<1> SUFFICES ASSUME RingCap >= MaxLogs PROVE Spec => ShownUnlessOld
  OBVIOUS
<1>1. ASSUME Inv, restarts = 0 => Fresh, [Next]_vars, restarts' = 0, ~ paused,
             wire # <<>>, wire' = Tail(wire), conn' = conn
      PROVE  LET e == Head(wire)
             IN  \/ e \in Elems(buffer') \/ e \in due
                 \/ Cardinality({x \in due : x.at > e.at}) >= MaxLogs
  <2>1. /\ wire \in Seq(Entry) /\ restarts \in Nat /\ buffer \in Seq(Entry)
        /\ Len(buffer) <= MaxLogs
    BY <1>1, TypeParts DEF Inv, CountsTyped, StoreOK
  <2>2. PICK e \in Entry : e = Head(wire)
    BY <1>1, <2>1
  <2>3. Len(Tail(wire)) = Len(wire) - 1 /\ Len(wire) >= 1 /\ Len(Append(wire, e)) = Len(wire) + 1
    BY <1>1, <2>1
  <2>4. OnMessage
    <3>1. wire' # wire
      <4>1. Len(wire') = Len(wire) - 1 /\ Len(wire) \in Nat
        BY <1>1, <2>1, <2>3
      <4>2. QED
        BY <4>1
    <3>2. ~ Restart /\ ~ ConnectionLost
      BY <1>1, <2>1 DEF Restart, ConnectionLost
    <3>3. ASSUME NEW s \in Sources PROVE ~ FanOut(s)
      <4>1. SUFFICES ASSUME FanOut(s) PROVE FALSE
        OBVIOUS
      <4>2. wire' = Append(wire, Head(pipe[s]))
        BY <3>1, <4>1 DEF FanOut
      <4>3. Len(wire') = Len(wire) + 1
        BY <2>1, <4>2
      <4>4. QED
        BY <1>1, <2>1, <2>3, <4>3
    <3>4. QED
      BY <1>1, <3>1, <3>2, <3>3
      DEF Next, Server, Page, LogLine, DropAtHub, Register, ReadSource, Answer, Mount,
          SyncLogs, SyncFails, TogglePause, Clear, Reconnect, vars
  <2>5. Push(e) /\ Fresh
    <3>1. Push(e)
      BY <1>1, <2>2, <2>4 DEF OnMessage
    <3>2. restarts = 0
      BY <1>1, <2>4 DEF OnMessage, countVars
    <3>3. QED
      BY <1>1, <3>1, <3>2
  <2>6. CASE e.id <= watermark[e.src]
    <3>1. e \in due \/ Cardinality(After(due, e)) >= MaxLogs
      BY <1>1, <2>2, <2>5, <2>6, RejectedIsOld
    <3>2. QED
      BY <2>2, <3>1 DEF After
  <2>7. CASE ~ (e.id <= watermark[e.src])
    <3>1. /\ Len(buffer') = IF Len(buffer) < MaxLogs THEN Len(buffer) + 1 ELSE MaxLogs
          /\ \A i \in 1 .. Len(buffer') : buffer'[i] = IF i = 1 THEN e ELSE buffer[i - 1]
      BY <2>1, <2>5, <2>7, PushIs
    <3>2. 1 \in 1 .. Len(buffer') /\ buffer'[1] = e
      BY <2>1, <3>1
    <3>3. QED
      BY <2>2, <3>2 DEF Elems
  <2>8. QED
    BY <2>6, <2>7
<1>2. Init => Inv /\ (restarts = 0 => Fresh)
  BY InitOK, FreshInit
<1>3. Inv /\ (restarts = 0 => Fresh) /\ [Next]_vars => (Inv /\ (restarts = 0 => Fresh))'
  BY StepOK, StepFresh
<1>4. Inv /\ (restarts = 0 => Fresh) /\ [Next]_vars =>
        (restarts' = 0 /\ ~ paused /\ wire # <<>> /\ wire' = Tail(wire) /\ conn' = conn =>
           LET e == Head(wire)
           IN  \/ e \in Elems(buffer') \/ e \in due
               \/ Cardinality({x \in due : x.at > e.at}) >= MaxLogs)
  BY <1>1
<1>5. QED
  BY <1>2, <1>3, <1>4, PTL DEF Spec, ShownUnlessOld
==============================================================================
