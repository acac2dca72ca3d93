---------------------------- MODULE PagingProofs ----------------------------
(***************************************************************************)
(* Pages that follow each other, for entries of any number and any limits, *)
(* and a client of the Server that walks through all of them while lines   *)
(* are read.                                                               *)
(***************************************************************************)
EXTENDS ServerProofs, FiniteSetTheorems, SequenceTheorems

HIDE ServerAssumption DEF ServerAssumption

\* A page has the rows from the offset on, counted from the newest entry.
LEMMA PageRows ==
  ASSUME NEW S, NEW all \in Seq(S), NEW limit \in Nat \ {0}, NEW offset \in Nat,
         offset < Len(all)
  PROVE  /\ Page(all, limit, offset) \in Seq(S)
         /\ Len(Page(all, limit, offset)) =
              IF Len(all) - offset < limit THEN Len(all) - offset ELSE limit
         /\ \A k \in 1 .. Len(Page(all, limit, offset)) :
              Page(all, limit, offset)[k] = all[Len(all) - offset - k + 1]
<1> DEFINE end == Len(all) - offset
           n == IF end < limit THEN end ELSE limit
           p == [k \in 1 .. n |-> all[end - k + 1]]
<1>1. end \in Nat /\ n \in Nat /\ \A k \in 1 .. n : end - k + 1 \in 1 .. Len(all)
  OBVIOUS
<1>2. \A k \in 1 .. n : all[end - k + 1] \in S
  BY <1>1
<1>3. p \in Seq(S) /\ Len(p) = n
  BY <1>1, <1>2
<1>4. Limit(limit) = limit /\ Offset(offset) = offset /\ ~ (offset >= Len(all))
  BY DEF Limit, Offset
<1>5. (end - (IF end - limit < 0 THEN 0 ELSE end - limit)) = n
  <2>1. CASE end < limit
    <3>1. end - limit < 0 /\ n = end /\ end - 0 = end
      BY <1>1, <2>1
    <3>2. QED
      BY <3>1
  <2>2. CASE ~ (end < limit)
    <3>1. ~ (end - limit < 0) /\ n = limit /\ end - (end - limit) = limit
      BY <1>1, <2>2
    <3>2. QED
      BY <3>1
  <2>3. QED
    BY <2>1, <2>2
<1>6. Page(all, limit, offset) = p
  BY <1>4, <1>5 DEF Page
<1>7. QED
  BY <1>1, <1>3, <1>6

LEMMA NoPageBeyond ==
  ASSUME NEW S, NEW all \in Seq(S), NEW limit \in Nat \ {0}, NEW offset \in Nat,
         offset >= Len(all)
  PROVE  Page(all, limit, offset) = <<>>
<1>1. Offset(offset) >= Len(all)
  BY DEF Offset
<1>2. QED
  BY <1>1 DEF Page

LEMMA ConcatIs ==
  ASSUME NEW S, NEW p \in Seq(S), NEW q \in Seq(S), NEW r \in Seq(S),
         Len(r) = Len(p) + Len(q),
         \A k \in 1 .. Len(p) : p[k] = r[k],
         \A k \in 1 .. Len(q) : q[k] = r[Len(p) + k]
  PROVE  p \o q = r
<1>1. p \o q \in Seq(S) /\ Len(p \o q) = Len(r)
  BY ConcatProperties
<1>2. ASSUME NEW k \in 1 .. Len(r) PROVE (p \o q)[k] = r[k]
  <2>1. CASE k \in 1 .. Len(p)
    BY <2>1
  <2>2. CASE k \notin 1 .. Len(p)
    <3>1. k - Len(p) \in 1 .. Len(q) /\ Len(p) + (k - Len(p)) = k
      BY <2>2
    <3>2. (p \o q)[k] = q[k - Len(p)]
      BY <2>2
    <3>3. QED
      BY <3>1, <3>2
  <2>3. QED
    BY <2>1, <2>2
<1>3. QED
  BY <1>1, <1>2, SeqEqual

\* A page and the one after it are the page of both sizes together: nothing is
\* skipped between pages and nothing is in two (logs_handler.go:85-100).
THEOREM PagesJoin ==
  ASSUME NEW S, NEW all \in Seq(S), NEW limit \in Nat \ {0}, NEW more \in Nat \ {0},
         NEW offset \in Nat
  PROVE  Page(all, limit, offset) \o Page(all, more, offset + limit) =
           Page(all, limit + more, offset)
<1> DEFINE p == Page(all, limit, offset)
           q == Page(all, more, offset + limit)
           r == Page(all, limit + more, offset)
<1>0. /\ Len(all) \in Nat /\ limit + more \in Nat \ {0} /\ offset + limit \in Nat
      /\ <<>> \in Seq(S) /\ Len(<<>>) = 0
  OBVIOUS
<1>1. CASE offset >= Len(all)
  <2>1. p = <<>> /\ r = <<>>
    BY <1>0, <1>1, NoPageBeyond
  <2>2. q = <<>>
    BY <1>0, <1>1, NoPageBeyond
  <2>3. QED
    BY <1>0, <2>1, <2>2, ConcatIs
<1>2. CASE offset < Len(all) /\ offset + limit >= Len(all)
  <2>1. q = <<>>
    BY <1>0, <1>2, NoPageBeyond
  <2>2. /\ p \in Seq(S) /\ Len(p) = Len(all) - offset
        /\ \A k \in 1 .. Len(p) : p[k] = all[Len(all) - offset - k + 1]
    BY <1>0, <1>2, PageRows
  <2>3. /\ r \in Seq(S) /\ Len(r) = Len(all) - offset
        /\ \A k \in 1 .. Len(r) : r[k] = all[Len(all) - offset - k + 1]
    BY <1>0, <1>2, PageRows
  <2>4. Len(r) = Len(p) + Len(q) /\ q \in Seq(S)
    <3>1. Len(q) = 0 /\ q \in Seq(S)
      BY <1>0, <2>1
    <3>2. Len(p) = Len(p) + 0 /\ Len(r) = Len(p)
      <4>1. Len(all) - offset \in Int
        BY <1>0
      <4>2. Len(p) \in Int /\ Len(r) = Len(p)
        BY <2>2, <2>3, <4>1
      <4>3. QED
        BY <4>2
    <3>3. QED
      BY <3>1, <3>2
  <2>5. QED
    BY <1>0, <2>1, <2>2, <2>3, <2>4, ConcatIs, SMTT(30)
<1>3. CASE offset + limit < Len(all)
  <2>1. /\ p \in Seq(S) /\ Len(p) = limit
        /\ \A k \in 1 .. limit : p[k] = all[Len(all) - offset - k + 1]
    <3>1. /\ p \in Seq(S)
          /\ Len(p) = IF Len(all) - offset < limit THEN Len(all) - offset ELSE limit
          /\ \A k \in 1 .. Len(p) : p[k] = all[Len(all) - offset - k + 1]
      BY <1>0, <1>3, PageRows
    <3>2. ~ (Len(all) - offset < limit)
      BY <1>0, <1>3
    <3>3. Len(p) = limit
      BY <3>1, <3>2
    <3>4. QED
      BY <3>1, <3>3
  <2>2. /\ q \in Seq(S) /\ Len(q) \in Nat
        /\ Len(q) = IF Len(all) - (offset + limit) < more THEN Len(all) - (offset + limit) ELSE more
        /\ \A k \in 1 .. Len(q) : q[k] = all[Len(all) - (offset + limit) - k + 1]
    BY <1>0, <1>3, PageRows
  <2>3. /\ r \in Seq(S) /\ Len(r) \in Nat
        /\ Len(r) = IF Len(all) - offset < limit + more THEN Len(all) - offset ELSE limit + more
        /\ \A k \in 1 .. Len(r) : r[k] = all[Len(all) - offset - k + 1]
    <3>1. PICK both \in Nat \ {0} : both = limit + more
      BY <1>0
    <3>2. offset < Len(all)
      BY <1>0, <1>3
    <3>3. /\ Page(all, both, offset) \in Seq(S)
          /\ Len(Page(all, both, offset)) =
               IF Len(all) - offset < both THEN Len(all) - offset ELSE both
          /\ \A k \in 1 .. Len(Page(all, both, offset)) :
               Page(all, both, offset)[k] = all[Len(all) - offset - k + 1]
      BY <3>2, PageRows
    <3>4. QED
      BY <3>1, <3>3
  <2>4. Len(r) = Len(p) + Len(q)
    BY <1>0, <1>3, <2>1, <2>2, <2>3
  <2>5. \A k \in 1 .. Len(p) : p[k] = r[k]
    <3>1. \A k \in 1 .. Len(p) : k \in 1 .. Len(r)
      BY <2>1, <2>2, <2>4
    <3>2. QED
      BY <2>1, <2>3, <3>1
  <2>6. ASSUME NEW k \in 1 .. Len(q) PROVE q[k] = r[Len(p) + k]
    <3> HIDE DEF p, q, r
    <3>1. /\ limit + k \in 1 .. Len(r)
          /\ Len(all) - offset - (limit + k) + 1 = Len(all) - (offset + limit) - k + 1
      BY <1>0, <2>1, <2>2, <2>4
    <3>2. r[limit + k] = all[Len(all) - offset - (limit + k) + 1]
      BY <2>3, <3>1
    <3>3. QED
      BY <2>1, <2>2, <3>1, <3>2
  <2>7. QED
    BY <2>1, <2>2, <2>3, <2>4, <2>5, <2>6, ConcatIs
<1>4. QED
  BY <1>0, <1>1, <1>2, <1>3

LEMMA EntryPagesJoin ==
  \A all \in Seq(Entry) : \A limit, more \in Nat \ {0} : \A offset \in Nat :
    Page(all, limit, offset) \o Page(all, more, offset + limit) =
      Page(all, limit + more, offset)
<1> SUFFICES ASSUME NEW all \in Seq(Entry), NEW limit \in Nat \ {0}, NEW more \in Nat \ {0},
                    NEW offset \in Nat
             PROVE  Page(all, limit, offset) \o Page(all, more, offset + limit) =
                      Page(all, limit + more, offset)
  OBVIOUS
<1> QED
  BY PagesJoin, ZenonT(60)
------------------------------------------------------------------------------
(* Finite sets. *)

\* A part of 1 .. n without gaps at its end, or at its beginning.
LEMMA UpSet ==
  ASSUME NEW n \in Nat, NEW U \in SUBSET (1 .. n),
         \A q \in U : \A k \in q .. n : k \in U
  PROVE  /\ IsFiniteSet(U) /\ Cardinality(U) \in 0 .. n
         /\ U = n - Cardinality(U) + 1 .. n
<1> DEFINE a == Cardinality(U)
<1>1. IsFiniteSet(1 .. n) /\ Cardinality(1 .. n) = n
  BY FS_Interval
<1>2. IsFiniteSet(U) /\ a \in 0 .. n
  <2>1. IsFiniteSet(U) /\ Cardinality(U) <= Cardinality(1 .. n)
    BY <1>1, FS_Subset
  <2>2. Cardinality(U) \in Nat
    BY <2>1, FS_CardinalityType
  <2>3. QED
    BY <1>1, <2>1, <2>2
<1>3. ASSUME NEW q \in U PROVE q \in n - a + 1 .. n
  <2>1. q \in Int /\ 1 <= q /\ q <= n /\ q .. n \in SUBSET U
    BY <1>3
  <2>2. Cardinality(q .. n) = n - q + 1
    BY <2>1, FS_Interval
  <2>3. Cardinality(q .. n) <= Cardinality(U)
    BY <1>2, <2>1, FS_Subset
  <2>4. n - q + 1 <= a
    BY <2>2, <2>3
  <2> HIDE DEF a
  <2>5. QED
    BY <1>2, <2>1, <2>4
<1> HIDE DEF a
<1>4. n - a + 1 \in Int
  BY <1>2
<1>5. IsFiniteSet(n - a + 1 .. n) /\ Cardinality(n - a + 1 .. n) = a
  <2>1. IsFiniteSet(n - a + 1 .. n)
    BY <1>4, FS_Interval
  <2>2. Cardinality(n - a + 1 .. n) = IF n - a + 1 > n THEN 0 ELSE n - (n - a + 1) + 1
    BY <1>4, FS_Interval
  <2>3. (IF n - a + 1 > n THEN 0 ELSE n - (n - a + 1) + 1) = a
    BY <1>2
  <2>4. QED
    BY <2>1, <2>2, <2>3
<1>6. U \in SUBSET (n - a + 1 .. n)
  BY <1>3
<1>7. U = n - a + 1 .. n
  BY <1>5, <1>6, FS_Subset DEF a
<1>8. QED
  BY <1>2, <1>7 DEF a

LEMMA Greatest ==
  ASSUME NEW n \in Nat, NEW I \in SUBSET (1 .. n), I # {}
  PROVE  \E m \in I : \A j \in I : j <= m
<1> DEFINE U == {k \in 1 .. n : \A j \in I : j <= k}
           a == Cardinality(U)
<1>1. a \in 0 .. n /\ U = n - a + 1 .. n
  <2>1. \A q \in U : \A k \in q .. n : k \in U
    OBVIOUS
  <2>2. U \in SUBSET (1 .. n)
    OBVIOUS
  <2> HIDE DEF U
  <2>3. QED
    BY <2>1, <2>2, UpSet
<1>2. n \in U
  <2>1. \A j \in I : j <= n
    OBVIOUS
  <2>2. n \in 1 .. n
    <3>1. PICK j \in I : j \in 1 .. n
      OBVIOUS
    <3>2. QED
      BY <3>1
  <2>3. QED
    BY <2>1, <2>2
<1> HIDE DEF a, U
<1>3. n - a + 1 \in U /\ n - a \notin U /\ a >= 1
  <2>1. a \in Int /\ n \in n - a + 1 .. n
    BY <1>1, <1>2
  <2>2. a >= 1
    BY <2>1
  <2>3. n - a + 1 \in n - a + 1 .. n /\ n - a \notin n - a + 1 .. n
    BY <2>1, <2>2
  <2>4. QED
    BY <1>1, <2>2, <2>3
<1>4. n - a + 1 \in I /\ \A j \in I : j <= n - a + 1
  <2>1. n - a + 1 \in 1 .. n /\ \A j \in I : j <= n - a + 1
    BY <1>3 DEF U
  <2>2. CASE n - a = 0
    <3>1. PICK j \in I : j \in 1 .. n
      OBVIOUS
    <3>2. j = n - a + 1
      BY <1>1, <2>1, <2>2, <3>1
    <3>3. QED
      BY <2>1, <3>2
  <2>3. CASE n - a # 0
    <3>1. n - a \in 1 .. n
      BY <1>1, <2>1, <2>3
    <3>2. PICK j \in I : ~ (j <= n - a)
      BY <1>3, <3>1 DEF U
    <3>3. j <= n - a + 1 /\ j \in Int
      BY <2>1
    <3>4. j = n - a + 1
      BY <1>1, <3>2, <3>3
    <3>5. QED
      BY <2>1, <3>4
  <2>4. QED
    BY <2>2, <2>3
<1>5. QED
  BY <1>4

\* Q gains at least what P gains.
LEMMA BothGrow ==
  ASSUME NEW P, NEW P2, NEW Q, NEW Q2, IsFiniteSet(P2), IsFiniteSet(Q2),
         P \subseteq P2, Q \subseteq Q2, P2 \ P \subseteq Q2 \ Q,
         NEW n \in Nat, n + Cardinality(P) <= Cardinality(Q)
  PROVE  n + Cardinality(P2) <= Cardinality(Q2)
<1>1. P2 \cap P = P /\ Q2 \cap Q = Q
  OBVIOUS
<1>2. /\ IsFiniteSet(P2 \ P) /\ Cardinality(P2 \ P) = Cardinality(P2) - Cardinality(P)
      /\ IsFiniteSet(Q2 \ Q) /\ Cardinality(Q2 \ Q) = Cardinality(Q2) - Cardinality(Q)
  BY <1>1, FS_Difference
<1>3. Cardinality(P2 \ P) <= Cardinality(Q2 \ Q)
  BY <1>2, FS_Subset
<1>4. IsFiniteSet(P) /\ IsFiniteSet(Q)
  BY FS_Subset
<1>5. /\ Cardinality(P) \in Nat /\ Cardinality(P2) \in Nat
      /\ Cardinality(Q) \in Nat /\ Cardinality(Q2) \in Nat
  BY <1>4, FS_CardinalityType
<1>6. QED
  BY <1>2, <1>3, <1>5
------------------------------------------------------------------------------
(* The sort of GetLogs, of entries of any number and any timestamps. *)

\* What the entries of a request are ordered by: those of all sources by their
\* timestamp, those of one by their ID.
Rank(s, e) == IF s = 0 THEN e.ts ELSE e.id

Later(c, s, t) == {k \in 1 .. Len(c) : Rank(s, c[k]) > t}
Ascending(c, s) == \A k, l \in 1 .. Len(c) : k < l => Rank(s, c[k]) <= Rank(s, c[l])
Once(c) == \A k, l \in 1 .. Len(c) : c[k] = c[l] => k = l

LEMMA EntryFields ==
  ASSUME NEW e \in Entry
  PROVE  /\ e.src \in Sources /\ e.id \in Nat \ {0} /\ e.ts \in Nat /\ e.ts \in Int
         /\ \A s : Rank(s, e) \in Int
<1>1. e.src \in Sources /\ e.id \in Nat \ {0} /\ e.ts \in Nat /\ e.ts \in Int
  BY DEF Entry
<1>2. QED
  BY <1>1 DEF Rank

LEMMA RanksAre ==
  ASSUME NEW c \in Seq(Entry)
  PROVE  Len(c) \in Nat /\ \A k \in 1 .. Len(c) : c[k] \in Entry /\ \A s : Rank(s, c[k]) \in Int
<1>1. Len(c) \in Nat /\ \A k \in 1 .. Len(c) : c[k] \in Entry
  OBVIOUS
<1>2. QED
  BY <1>1, EntryFields

\* The result holds the same entries, as often, and the timestamps ascend.
LEMMA OrdersAre ==
  ASSUME NEW c \in Seq(Entry), NEW r \in Orders(c)
  PROVE  /\ r \in Seq(Entry) /\ Len(r) = Len(c) /\ Elems(r) = Elems(c)
         /\ Ascending(r, 0) /\ (Once(c) => Once(r))
         /\ \A t : Cardinality(Later(r, 0, t)) = Cardinality(Later(c, 0, t))
<1> DEFINE n == Len(c)
<1>1. n \in Nat /\ \A i \in 1 .. n : c[i] \in Entry
  BY RanksAre
<1>2. PICK p \in Bijection(1 .. n, 1 .. n) :
        /\ r = [k \in 1 .. n |-> c[p[k]]]
        /\ \A k, l \in 1 .. n : k < l => c[p[k]].ts <= c[p[l]].ts
  BY DEF Orders
<1> HIDE DEF n
<1>3. /\ \A k \in 1 .. n : p[k] \in 1 .. n
      /\ \A k, l \in 1 .. n : p[k] = p[l] => k = l
      /\ \A j \in 1 .. n : \E k \in 1 .. n : p[k] = j
  BY DEF Bijection, Injection, Surjection, IsInjective
<1>4. r \in Seq(Entry) /\ Len(r) = n /\ \A k \in 1 .. n : r[k] = c[p[k]]
  BY <1>1, <1>2, <1>3
<1>5. Elems(r) = Elems(c)
  <2>1. ASSUME NEW k \in 1 .. n PROVE r[k] \in Elems(c)
    <3>1. p[k] \in 1 .. Len(c) /\ r[k] = c[p[k]]
      BY <1>3, <1>4 DEF n
    <3>2. QED
      BY <3>1 DEF Elems
  <2>2. ASSUME NEW j \in 1 .. n PROVE c[j] \in Elems(r)
    <3>1. PICK k \in 1 .. n : p[k] = j
      BY <1>3
    <3>2. k \in 1 .. n /\ Len(r) = n
      BY <1>4, <3>1
    <3>3. r[k] = c[p[k]]
      BY <1>4, <3>2
    <3>4. r[k] = c[j] /\ k \in 1 .. Len(r)
      BY <3>1, <3>2, <3>3
    <3>5. QED
      BY <3>4 DEF Elems
  <2>3. Elems(r) = {r[k] : k \in 1 .. n}
    BY <1>4 DEF Elems
  <2>4. Elems(c) = {c[j] : j \in 1 .. n}
    BY DEF Elems, n
  <2>5. QED
    BY <2>1, <2>2, <2>3, <2>4
<1>6. Ascending(r, 0)
  BY <1>2, <1>4 DEF Ascending, Rank
<1>7. ASSUME Once(c) PROVE Once(r)
  <2>1. \A i, j \in 1 .. n : c[i] = c[j] => i = j
    BY <1>7 DEF Once, n
  <2>2. ASSUME NEW k \in 1 .. n, NEW l \in 1 .. n, r[k] = r[l] PROVE k = l
    <3>1. p[k] \in 1 .. n /\ p[l] \in 1 .. n /\ c[p[k]] = c[p[l]]
      BY <1>3, <1>4, <2>2
    <3>2. p[k] = p[l]
      BY <2>1, <3>1
    <3>3. QED
      BY <1>3, <3>2
  <2>3. QED
    BY <1>4, <2>2 DEF Once
<1>8. ASSUME NEW t PROVE Cardinality(Later(r, 0, t)) = Cardinality(Later(c, 0, t))
  <2> DEFINE P == Later(r, 0, t)
             Q == Later(c, 0, t)
             f == [k \in P |-> p[k]]
  <2>1. P = {k \in 1 .. n : Rank(0, r[k]) > t} /\ Q = {k \in 1 .. n : Rank(0, c[k]) > t}
    BY <1>4 DEF Later, n
  <2> HIDE DEF P, Q
  <2>2. \A k \in P : k \in 1 .. n /\ p[k] \in Q
    BY <1>3, <1>4, <2>1
  <2>3. \A k, l \in P : f[k] = f[l] => k = l
    BY <1>3, <2>2
  <2>4. \A j \in Q : \E k \in P : f[k] = j
    BY <1>3, <1>4, <2>1
  <2>5. f \in Bijection(P, Q)
    BY <2>2, <2>3, <2>4 DEF Bijection, Injection, Surjection, IsInjective
  <2>6. ExistsBijection(P, Q)
    BY <2>5 DEF ExistsBijection
  <2>7. IsFiniteSet(P)
    <3>1. IsFiniteSet(1 .. n) /\ P \subseteq 1 .. n
      BY <1>1, <2>2, FS_Interval
    <3>2. QED
      BY <3>1, FS_Subset
  <2>8. QED
    BY <2>6, <2>7, FS_Bijection DEF P, Q
<1>9. QED
  BY <1>4, <1>5, <1>6, <1>7, <1>8 DEF n
------------------------------------------------------------------------------
(* Pages of a sequence in order. *)

LEMMA LaterIs ==
  ASSUME NEW c \in Seq(Entry), NEW s, Ascending(c, s), NEW t \in Int
  PROVE  /\ IsFiniteSet(Later(c, s, t)) /\ Cardinality(Later(c, s, t)) \in 0 .. Len(c)
         /\ Later(c, s, t) = Len(c) - Cardinality(Later(c, s, t)) + 1 .. Len(c)
<1>1. Len(c) \in Nat /\ \A k \in 1 .. Len(c) : Rank(s, c[k]) \in Int
  BY RanksAre
<1>2. ASSUME NEW q \in Later(c, s, t), NEW k \in q .. Len(c) PROVE k \in Later(c, s, t)
  <2>1. q \in 1 .. Len(c) /\ Rank(s, c[q]) > t /\ k \in 1 .. Len(c) /\ (k = q \/ q < k)
    BY <1>1 DEF Later
  <2>2. Rank(s, c[q]) <= Rank(s, c[k])
    BY <1>1, <2>1 DEF Ascending
  <2>3. Rank(s, c[k]) > t
    BY <1>1, <2>1, <2>2
  <2>4. QED
    BY <2>1, <2>3 DEF Later
<1>3. Later(c, s, t) \in SUBSET (1 .. Len(c))
  BY DEF Later
<1>4. QED
  BY <1>1, <1>2, <1>3, UpSet

\* Where an entry is, counted from the newest, up to others of its rank.
LEMMA PlaceFromEnd ==
  ASSUME NEW c \in Seq(Entry), NEW s, Ascending(c, s), NEW x \in Elems(c)
  PROVE  LET a == Cardinality(Later(c, s, Rank(s, x)))
         IN  a \in 0 .. Len(c) - 1 /\ Rank(s, c[Len(c) - a]) = Rank(s, x)
<1> DEFINE t == Rank(s, x)
           a == Cardinality(Later(c, s, t))
           n == Len(c)
<1>1. n \in Nat /\ \A k \in 1 .. n : Rank(s, c[k]) \in Int
  BY RanksAre
<1>2. PICK q \in 1 .. n : x = c[q]
  BY DEF Elems
<1> HIDE DEF n
<1>3. t \in Int /\ t = Rank(s, c[q])
  BY <1>1, <1>2
<1> HIDE DEF t
<1>4. a \in 0 .. n /\ Later(c, s, t) = n - a + 1 .. n
  BY <1>3, LaterIs DEF n
<1> HIDE DEF a
<1>5. q \notin Later(c, s, t)
  <2>1. ~ (Rank(s, c[q]) > t)
    BY <1>3
  <2>2. QED
    BY <2>1 DEF Later
<1>6. q <= n - a
  BY <1>1, <1>4, <1>5
<1>7. n - a \in 1 .. n /\ n - a \notin Later(c, s, t)
  BY <1>1, <1>4, <1>6
<1>8. ~ (Rank(s, c[n - a]) > t)
  BY <1>7 DEF Later, n
<1>9. Rank(s, c[q]) <= Rank(s, c[n - a])
  <2>1. CASE q = n - a
    BY <1>1, <1>7, <2>1
  <2>2. CASE q # n - a
    <3>1. q < n - a
      BY <1>1, <1>6, <1>7, <2>2
    <3>2. QED
      BY <1>7, <3>1 DEF Ascending, n
  <2>3. QED
    BY <2>1, <2>2
<1>10. Rank(s, c[n - a]) = t
  <2>1. Rank(s, c[n - a]) \in Int
    BY <1>1, <1>7
  <2>2. QED
    BY <1>3, <1>8, <1>9, <2>1
<1>11. a \in 0 .. n - 1
  BY <1>1, <1>4, <1>7
<1>12. QED
  BY <1>10, <1>11 DEF a, n, t

LEMMA PageHolds ==
  ASSUME NEW s \in Seq(Entry), NEW limit \in Nat \ {0}, NEW offset \in Nat
  PROVE  /\ Page(s, limit, offset) \in Seq(Entry)
         /\ Elems(Page(s, limit, offset)) \subseteq Elems(s)
         /\ Page(s, limit, offset) = <<>> => offset >= Len(s)
         /\ \A d \in Nat : d < Len(s) /\ offset <= d /\ d < offset + limit =>
              s[Len(s) - d] \in Elems(Page(s, limit, offset))
<1> DEFINE p == Page(s, limit, offset)
           n == Len(s)
<1>1. n \in Nat
  OBVIOUS
<1>2. CASE offset >= n
  <2>1. p = <<>>
    BY <1>2, NoPageBeyond
  <2>2. Elems(p) = {}
    BY <2>1 DEF Elems
  <2>3. p \in Seq(Entry)
    BY <2>1
  <2>4. \A d \in Nat : ~ (d < n /\ offset <= d)
    BY <1>1, <1>2
  <2>5. QED
    BY <1>2, <2>2, <2>3, <2>4
<1>3. CASE ~ (offset >= n)
  <2>1. offset < n
    BY <1>1, <1>3
  <2>2. /\ p \in Seq(Entry)
        /\ Len(p) = IF n - offset < limit THEN n - offset ELSE limit
        /\ \A k \in 1 .. Len(p) : p[k] = s[n - offset - k + 1]
    BY <2>1, PageRows
  <2> HIDE DEF p
  <2>3. Len(p) \in Nat \ {0} /\ Len(p) <= n - offset /\ Len(p) <= limit
    BY <1>1, <2>1, <2>2
  <2>4. p # <<>>
    BY <2>3
  <2>5. ASSUME NEW k \in 1 .. Len(p) PROVE p[k] \in Elems(s)
    <3>1. n - offset - k + 1 \in 1 .. n
      BY <1>1, <2>1, <2>3
    <3>2. QED
      BY <2>2, <3>1 DEF Elems
  <2>6. ASSUME NEW d \in Nat, d < n, offset <= d, d < offset + limit
        PROVE  s[n - d] \in Elems(p)
    <3>1. d - offset + 1 \in 1 .. Len(p) /\ n - offset - (d - offset + 1) + 1 = n - d
      BY <1>1, <2>1, <2>2, <2>6
    <3>2. p[d - offset + 1] = s[n - d]
      BY <2>2, <3>1
    <3>3. QED
      BY <3>1, <3>2 DEF Elems
  <2>7. Elems(p) \subseteq Elems(s)
    BY <2>5 DEF Elems
  <2>8. QED
    BY <2>2, <2>4, <2>6, <2>7 DEF p
<1>4. QED
  BY <1>2, <1>3

\* The last of the pages that follow each other has the oldest entry: they are the
\* whole result, newest first.
LEMMA WholeIs ==
  ASSUME NEW c \in Seq(Entry), NEW s, Ascending(c, s), Once(c), NEW limit \in Nat \ {0},
         limit >= Len(c)
  PROVE  LET p == Page(c, limit, 0)
         IN  /\ Elems(p) = Elems(c) /\ Once(p)
             /\ \A k, l \in 1 .. Len(p) : k < l => Rank(s, p[l]) <= Rank(s, p[k])
<1> DEFINE p == Page(c, limit, 0)
           n == Len(c)
<1>1. n \in Nat
  OBVIOUS
<1>2. CASE n = 0
  <2>1. p = <<>>
    <3>1. 0 \in Nat /\ 0 >= Len(c)
      BY <1>2
    <3>2. QED
      BY <3>1, NoPageBeyond
  <2>2. Elems(p) = {} /\ Elems(c) = {} /\ Len(p) = 0
    BY <1>2, <2>1 DEF Elems
  <2> HIDE DEF p
  <2>3. Once(p) /\ \A k, l \in 1 .. Len(p) : k < l => Rank(s, p[l]) <= Rank(s, p[k])
    BY <2>2 DEF Once
  <2>4. QED
    BY <2>2, <2>3 DEF p
<1>3. CASE n # 0
  <2>1. 0 < n
    BY <1>1, <1>3
  <2>2. /\ p \in Seq(Entry)
        /\ Len(p) = IF n - 0 < limit THEN n - 0 ELSE limit
        /\ \A k \in 1 .. Len(p) : p[k] = c[n - 0 - k + 1]
    BY <2>1, PageRows
  <2> HIDE DEF p
  <2>3. Len(p) = n
    BY <1>1, <2>2 DEF n
  <2> HIDE DEF n
  <2>4. \A k \in 1 .. n : n + 1 - k \in 1 .. n /\ p[k] = c[n + 1 - k]
    <3>1. n \in Nat
      BY <1>1 DEF n
    <3>2. \A k \in 1 .. n : n + 1 - k \in 1 .. n /\ n - 0 - k + 1 = n + 1 - k
      BY <3>1
    <3>3. \A k \in 1 .. n : p[k] = c[n - 0 - k + 1]
      BY <2>2, <2>3
    <3>4. QED
      BY <3>2, <3>3
  <2>5. ASSUME NEW k \in 1 .. n PROVE p[n + 1 - k] = c[k]
    <3>1. n \in Nat
      BY <1>1 DEF n
    <3>2. PICK j \in 1 .. n : j = n + 1 - k /\ n + 1 - j = k
      BY <3>1
    <3>3. QED
      BY <2>4, <3>2
  <2>6. Elems(p) = Elems(c)
    <3>1. \A k \in 1 .. n : p[k] \in Elems(c)
      BY <2>4 DEF Elems, n
    <3>2. \A k \in 1 .. n : c[k] \in Elems(p)
      <4>1. \A k \in 1 .. n : n + 1 - k \in 1 .. Len(p)
        BY <2>3, <2>4
      <4>2. QED
        BY <2>5, <4>1 DEF Elems
    <3>3. QED
      BY <2>3, <3>1, <3>2 DEF Elems, n
  <2>7. ASSUME NEW k \in 1 .. n, NEW l \in 1 .. n, p[k] = p[l] PROVE k = l
    <3>1. n + 1 - k = n + 1 - l
      BY <2>4, <2>7 DEF Once, n
    <3>2. QED
      BY <1>1, <3>1
  <2>8. ASSUME NEW k \in 1 .. n, NEW l \in 1 .. n, k < l PROVE Rank(s, p[l]) <= Rank(s, p[k])
    <3>1. n + 1 - l < n + 1 - k
      BY <1>1, <2>8
    <3>2. QED
      BY <2>4, <3>1 DEF Ascending, n
  <2>9. QED
    BY <2>3, <2>6, <2>7, <2>8 DEF Once, p
<1>4. QED
  BY <1>2, <1>3
------------------------------------------------------------------------------
(* What the watchers have logged. *)

Logs ==
  /\ \A i \in Sources : \A k \in 1 .. Len(logged[i]) :
       logged[i][k].src = i /\ logged[i][k].id = k
  /\ \A i \in Sources : Len(logged[i]) <= MaxLines
  /\ IsFiniteSet(Logged)

Sound == TypeOK /\ Logs

LEMMA Constants ==
  /\ N \in Nat \ {0} /\ DefaultSize \in Nat \ {0} /\ SubCap \in Nat \ {0}
  /\ HubCap \in Nat \ {0} /\ PageSize \in Nat \ {0} /\ MaxLines \in Nat
  /\ \A i \in Sources : \A ts \in Times[i] : ts \in Nat
  /\ \A c \in Configs : c.names \in [Sources -> Nat] /\ c.sizes \in [Sources -> Int]
  BY ServerAssumption DEF ServerAssumption

LEMMA LogOf ==
  ASSUME Sound, NEW i \in Sources
  PROVE  /\ logged[i] \in Seq(Entry) /\ Len(logged[i]) \in Nat /\ Len(logged[i]) <= MaxLines
         /\ \A k \in 1 .. Len(logged[i]) :
              /\ logged[i][k] \in Entry /\ logged[i][k] \in Logged
              /\ logged[i][k].src = i /\ logged[i][k].id = k
              /\ \A s : Rank(s, logged[i][k]) \in Int
<1>1. logged[i] \in Seq(Entry)
  BY DEF Sound, TypeOK
<1>2. /\ Len(logged[i]) \in Nat
      /\ \A k \in 1 .. Len(logged[i]) : /\ logged[i][k] \in Entry
                                        /\ \A s : Rank(s, logged[i][k]) \in Int
  BY <1>1, RanksAre
<1>3. /\ Len(logged[i]) <= MaxLines
      /\ \A k \in 1 .. Len(logged[i]) : logged[i][k].src = i /\ logged[i][k].id = k
  BY DEF Sound, Logs
<1>4. \A k \in 1 .. Len(logged[i]) : logged[i][k] \in Logged
  BY DEF Logged, Elems
<1>5. QED
  BY <1>1, <1>2, <1>3, <1>4

LEMMA LoggedIs ==
  ASSUME Sound
  PROVE  /\ Logged \subseteq Entry
         /\ \A x \in Logged : /\ x.src \in Sources /\ x.id \in 1 .. Len(logged[x.src])
                              /\ x = logged[x.src][x.id] /\ \A s : Rank(s, x) \in Int
<1>1. ASSUME NEW i \in Sources, NEW x \in Elems(logged[i])
      PROVE  /\ x \in Entry /\ x.src = i /\ x.id \in 1 .. Len(logged[i])
             /\ x = logged[i][x.id] /\ \A s : Rank(s, x) \in Int
  <2>1. PICK k \in 1 .. Len(logged[i]) : x = logged[i][k]
    BY DEF Elems
  <2>2. QED
    BY <2>1, LogOf
<1>2. QED
  BY <1>1 DEF Logged

\* The entry of a line gets an ID that no other of its source has.
LEMMA Appended ==
  ASSUME Sound, NEW i \in Sources, NEW ts \in Nat, AppendEntry(i, ts)
  PROVE  LET e == NextEntry(i, ts)
             n == Len(logged[i])
         IN  /\ e \in Entry /\ e.src = i /\ e.id = n + 1 /\ e.ts = ts
             /\ logged' \in [Sources -> Seq(Entry)]
             /\ Len(logged'[i]) = n + 1 /\ logged'[i][n + 1] = e
             /\ \A k \in 1 .. n : k \in 1 .. n + 1 /\ logged'[i][k] = logged[i][k]
             /\ \A j \in Sources : j # i => logged'[j] = logged[j]
             /\ \A x \in Logged : x # e
             /\ Logged' \subseteq Logged \cup {e}
             /\ Logged \subseteq Logged'
<1> DEFINE e == NextEntry(i, ts)
           n == Len(logged[i])
<1>0. /\ n \in Nat /\ logged \in [Sources -> Seq(Entry)] /\ logged[i] \in Seq(Entry)
  BY LogOf DEF Sound, TypeOK
<1>1. e = [src |-> i, id |-> n + 1, ts |-> ts]
  BY DEF NextEntry
<1>2. logged' = [logged EXCEPT ![i] = Append(@, e)]
  BY DEF AppendEntry
<1> HIDE DEF n, e
<1>3. e \in Entry /\ e.src = i /\ e.id = n + 1 /\ e.ts = ts
  BY <1>0, <1>1 DEF Entry
<1>4. logged' \in [Sources -> Seq(Entry)] /\ logged'[i] = Append(logged[i], e)
  BY <1>0, <1>2, <1>3
<1>5. /\ Len(logged'[i]) = n + 1 /\ logged'[i][n + 1] = e
      /\ \A k \in 1 .. n : k \in 1 .. n + 1 /\ logged'[i][k] = logged[i][k]
  BY <1>0, <1>3, <1>4 DEF n
<1>6. \A j \in Sources : j # i => logged'[j] = logged[j]
  BY <1>0, <1>2
<1>7. ASSUME NEW x \in Logged PROVE x # e
  <2>1. x.src = i => x.id \in 1 .. n
    BY LoggedIs DEF n
  <2>2. QED
    BY <1>0, <1>3, <2>1
<1>8. Logged' \subseteq Logged \cup {e} /\ Logged \subseteq Logged'
  <2>1. \A k \in 1 .. n + 1 : k \in 1 .. n \/ k = n + 1
    BY <1>0
  <2>2. Elems(logged'[i]) \subseteq Elems(logged[i]) \cup {e}
    BY <1>5, <2>1 DEF Elems, n
  <2>3. Elems(logged[i]) \subseteq Elems(logged'[i])
    BY <1>5 DEF Elems, n
  <2>4. QED
    BY <1>6, <2>2, <2>3 DEF Logged
<1>9. QED
  BY <1>3, <1>4, <1>5, <1>6, <1>7, <1>8 DEF e, n

LEMMA AppendSound ==
  ASSUME Sound, NEW i \in Sources, NEW ts \in Nat, AppendEntry(i, ts)
  PROVE  logged' \in [Sources -> Seq(Entry)] /\ Logs'
<1> DEFINE e == NextEntry(i, ts)
           n == Len(logged[i])
<1>1. /\ e \in Entry /\ e.src = i /\ e.id = n + 1
      /\ logged' \in [Sources -> Seq(Entry)]
      /\ Len(logged'[i]) = n + 1 /\ logged'[i][n + 1] = e
      /\ \A k \in 1 .. n : logged'[i][k] = logged[i][k]
      /\ \A j \in Sources : j # i => logged'[j] = logged[j]
      /\ Logged' \subseteq Logged \cup {e}
  BY Appended
<1>2. n \in Nat /\ MaxLines \in Nat /\ IsFiniteSet(Logged)
  BY LogOf, Constants DEF Sound, Logs
<1>3. Cardinality(Logged) < MaxLines
  BY DEF AppendEntry
<1>4. n + 1 <= MaxLines
  <2> DEFINE E == Elems(logged[i])
             f == [k \in 1 .. n |-> logged[i][k]]
  <2>1. E = {logged[i][k] : k \in 1 .. n} /\ E \subseteq Logged
    BY DEF Elems, Logged
  <2>2. \A k \in 1 .. n : logged[i][k].id = k
    BY LogOf
  <2> HIDE DEF n, E
  <2>3. f \in Bijection(1 .. n, E)
    BY <2>1, <2>2 DEF Bijection, Injection, Surjection, IsInjective
  <2>4. ExistsBijection(1 .. n, E)
    BY <2>3 DEF ExistsBijection
  <2>5. IsFiniteSet(1 .. n) /\ Cardinality(1 .. n) = n
    BY <1>2, FS_Interval
  <2>6. Cardinality(E) = n
    BY <2>4, <2>5, FS_Bijection
  <2>7. Cardinality(E) <= Cardinality(Logged) /\ Cardinality(Logged) \in Nat
    BY <1>2, <2>1, FS_Subset, FS_CardinalityType
  <2>8. QED
    BY <1>2, <1>3, <2>6, <2>7
<1>5. IsFiniteSet(Logged')
  <2>1. IsFiniteSet(Logged \cup {e})
    BY <1>2, FS_AddElement
  <2>2. QED
    BY <1>1, <2>1, FS_Subset
<1> HIDE DEF e, n
<1>6. ASSUME NEW j \in Sources, NEW k \in 1 .. Len(logged'[j])
      PROVE  logged'[j][k].src = j /\ logged'[j][k].id = k
  <2>1. CASE j # i
    <3>1. logged'[j] = logged[j]
      BY <1>1, <2>1
    <3>2. QED
      BY <3>1 DEF Sound, Logs
  <2>2. CASE j = i /\ k = n + 1
    BY <1>1, <2>2
  <2>3. CASE j = i /\ k # n + 1
    <3>1. k \in 1 .. n
      BY <1>1, <1>2, <2>3
    <3>2. logged'[j][k] = logged[i][k]
      BY <1>1, <2>3, <3>1
    <3>3. QED
      BY <2>3, <3>1, <3>2 DEF Sound, Logs, n
  <2>4. QED
    BY <2>1, <2>2, <2>3
<1>7. \A j \in Sources : Len(logged'[j]) <= MaxLines
  BY <1>1, <1>4, LogOf
<1>8. QED
  BY <1>1, <1>5, <1>6, <1>7 DEF Logs

LEMMA InitSound == Init => Sound
<1> SUFFICES ASSUME Init PROVE Sound
  OBVIOUS
<1>1. /\ config \in Configs /\ phase = "starting" /\ launched = 0 /\ attached = 0
      /\ queued = 0 /\ reached = [i \in Sources |-> <<>>]
      /\ watcher = [i \in Sources |-> "off"]
      /\ logged = [i \in Sources |-> <<>>] /\ sub = [i \in Sources |-> <<>>]
  BY DEF Init
<1>2. \A i \in Sources : Len(logged[i]) = 0 /\ Len(sub[i]) = 0
  BY <1>1
<1>3. TypeOK
  <2>1. logged \in [Sources -> Seq(Entry)] /\ sub \in [Sources -> Seq(Entry)]
    BY <1>1
  <2>2. watcher \in [Sources -> {"off", "boot", "run", "dead"}]
    BY <1>1
  <2>3. reached \in [Sources -> Seq(Nat \ {0})]
    BY <1>1
  <2>4. QED
    BY <1>1, <1>2, <2>1, <2>2, <2>3, Constants DEF TypeOK
<1>4. Logged = {}
  BY <1>2 DEF Logged, Elems
<1>5. Logs
  BY <1>2, <1>4, Constants, FS_EmptySet DEF Logs
<1>6. QED
  BY <1>3, <1>5 DEF Sound

LEMMA MainSound == ASSUME Sound, Main PROVE Sound'
<1>0. /\ config \in Configs /\ phase \in {"starting", "serving", "deaf", "stopping"}
      /\ attached \in 0 .. N /\ launched \in attached .. N
      /\ watcher \in [Sources -> {"off", "boot", "run", "dead"}] /\ N \in Nat
  BY Constants DEF Sound, TypeOK
<1>1. UNCHANGED <<config, logged, sub, queued, reached>>
  BY DEF Main, Launch, Attach, Listen, OnSignal
<1>2. /\ phase' \in {"starting", "serving", "deaf", "stopping"}
      /\ attached' \in 0 .. N /\ launched' \in attached' .. N
      /\ watcher' \in [Sources -> {"off", "boot", "run", "dead"}]
  <2>1. CASE Launch
    <3>1. launched' = launched + 1 /\ launched = attached /\ launched < N
      BY <2>1 DEF Launch
    <3>2. watcher' = [watcher EXCEPT ![launched'] = "boot"] /\ UNCHANGED <<phase, attached>>
      BY <2>1 DEF Launch
    <3>3. launched' \in attached .. N
      BY <1>0, <3>1
    <3>4. watcher' \in [Sources -> {"off", "boot", "run", "dead"}]
      BY <1>0, <3>2
    <3>5. QED
      BY <1>0, <3>2, <3>3, <3>4
  <2>2. CASE Attach
    BY <1>0, <2>2 DEF Attach
  <2>3. CASE Listen \/ OnSignal
    BY <1>0, <2>3 DEF Listen, OnSignal
  <2>4. QED
    BY <2>1, <2>2, <2>3 DEF Main
<1>3. TypeOK'
  BY <1>1, <1>2 DEF Sound, TypeOK
<1>4. QED
  BY <1>1, <1>3 DEF Sound, Logs, Logged

LEMMA PublishTyped ==
  ASSUME Sound, NEW i \in Sources, NEW e \in Entry, Publish(i, e)
  PROVE  sub' \in [Sources -> Seq(Entry)] /\ \A j \in Sources : Len(sub'[j]) <= SubCap
<1>0. /\ sub \in [Sources -> Seq(Entry)] /\ \A j \in Sources : Len(sub[j]) <= SubCap
      /\ SubCap \in Nat
  BY Constants DEF Sound, TypeOK
<1>1. CASE sub' = sub
  BY <1>0, <1>1
<1>2. CASE Len(sub[i]) < SubCap /\ sub' = [sub EXCEPT ![i] = Append(@, e)]
  <2>1. Append(sub[i], e) \in Seq(Entry) /\ Len(Append(sub[i], e)) <= SubCap
    BY <1>0, <1>2
  <2>2. QED
    BY <1>0, <1>2, <2>1
<1>3. QED
  BY <1>1, <1>2 DEF Publish

LEMMA WatcherSound == ASSUME Sound, NEW i \in Sources, Watcher(i) PROVE Sound'
<1>0. /\ watcher \in [Sources -> {"off", "boot", "run", "dead"}]
      /\ logged \in [Sources -> Seq(Entry)]
      /\ sub \in [Sources -> Seq(Entry)] /\ \A j \in Sources : Len(sub[j]) <= SubCap
  BY DEF Sound, TypeOK
<1>1. /\ UNCHANGED <<mainVars, queued, reached>>
      /\ watcher' \in [Sources -> {"off", "boot", "run", "dead"}]
  BY <1>0 DEF Watcher, BootLine, StartWatcher, ReadLine
<1>2. sub' \in [Sources -> Seq(Entry)] /\ \A j \in Sources : Len(sub'[j]) <= SubCap
  <2>1. CASE BootLine(i) \/ StartWatcher(i)
    BY <1>0, <2>1 DEF BootLine, StartWatcher
  <2>2. CASE ReadLine(i)
    <3>1. PICK ts \in Nat : AppendEntry(i, ts) /\ Publish(i, NextEntry(i, ts))
      BY <2>2, Constants DEF ReadLine
    <3>2. NextEntry(i, ts) \in Entry
      BY <3>1, Appended
    <3>3. QED
      BY <3>1, <3>2, PublishTyped
  <2>3. QED
    BY <2>1, <2>2 DEF Watcher
<1>3. logged' \in [Sources -> Seq(Entry)] /\ Logs'
  <2>1. CASE logged' = logged
    <3>1. Logged' = Logged
      BY <2>1 DEF Logged
    <3>2. Logs'
      BY <2>1, <3>1 DEF Sound, Logs
    <3>3. QED
      BY <1>0, <2>1, <3>2
  <2>2. ASSUME NEW ts \in Nat, AppendEntry(i, ts)
        PROVE  logged' \in [Sources -> Seq(Entry)] /\ Logs'
    BY <2>2, AppendSound
  <2>3. QED
    BY <2>1, <2>2, Constants DEF Watcher, BootLine, StartWatcher, ReadLine
<1>4. TypeOK'
  BY <1>1, <1>2, <1>3 DEF Sound, TypeOK, mainVars
<1>5. QED
  BY <1>3, <1>4 DEF Sound

LEMMA ForwardSound == ASSUME Sound, NEW i \in Sources, Forward(i) PROVE Sound'
<1>0. /\ sub \in [Sources -> Seq(Entry)] /\ \A j \in Sources : Len(sub[j]) <= SubCap
      /\ reached \in [Sources -> Seq(Nat \ {0})]
      /\ queued \in 0 .. HubCap /\ HubCap \in Nat /\ SubCap \in Nat
  BY Constants DEF Sound, TypeOK
<1>1. /\ sub[i] # <<>> /\ Broadcast(Head(sub[i])) /\ sub' = [sub EXCEPT ![i] = Tail(@)]
      /\ UNCHANGED <<mainVars, watcher, logged>>
  BY DEF Forward
<1>2. /\ Head(sub[i]) \in Entry /\ Tail(sub[i]) \in Seq(Entry)
      /\ Len(Tail(sub[i])) <= SubCap
  BY <1>0, <1>1
<1>3. sub' \in [Sources -> Seq(Entry)] /\ \A j \in Sources : Len(sub'[j]) <= SubCap
  BY <1>0, <1>1, <1>2
<1>4. queued' \in 0 .. HubCap /\ reached' \in [Sources -> Seq(Nat \ {0})]
  <2>1. PICK e \in Entry : e = Head(sub[i])
    BY <1>2
  <2>2. CASE Accept(e) /\ queued < HubCap
    <3>1. e.src \in Sources /\ e.id \in Nat \ {0}
      BY <2>1 DEF Entry
    <3>2. Append(reached[e.src], e.id) \in Seq(Nat \ {0})
      BY <1>0, <3>1
    <3>3. reached' \in [Sources -> Seq(Nat \ {0})]
      BY <1>0, <2>2, <3>1, <3>2 DEF Accept
    <3>4. QED
      BY <1>0, <2>2, <3>3 DEF Accept
  <2>3. QED
    BY <1>0, <1>1, <2>1, <2>2 DEF Broadcast
<1>5. TypeOK'
  BY <1>1, <1>3, <1>4 DEF Sound, TypeOK, mainVars
<1>6. QED
  BY <1>1, <1>5 DEF Sound, Logs, Logged

LEMMA SoundKept == Sound /\ [Next]_vars => Sound'
<1> SUFFICES ASSUME Sound, [Next]_vars PROVE Sound'
  OBVIOUS
<1>1. CASE HubTakes
  <2>1. queued' \in 0 .. HubCap
    BY <1>1, Constants DEF HubTakes, Sound, TypeOK
  <2>2. TypeOK'
    BY <1>1, <2>1 DEF HubTakes, Sound, TypeOK, mainVars
  <2>3. QED
    BY <1>1, <2>2 DEF HubTakes, Sound, Logs, Logged
<1>2. CASE Client \/ UNCHANGED vars
  <2>1. UNCHANGED <<mainVars, watcher, logged, sub, queued, reached>>
    BY <1>2 DEF Client, StartWalk, ReadRing, Answer, vars
  <2>2. TypeOK'
    BY <2>1 DEF Sound, TypeOK, mainVars
  <2>3. QED
    BY <2>1, <2>2 DEF Sound, Logs, Logged
<1>3. QED
  BY <1>1, <1>2, MainSound, WatcherSound, ForwardSound DEF Next

\* Every variable keeps its type; no subscription nor the queue of the hub exceeds
\* its capacity (watcher.go:236-243, hub.go:64-70).
THEOREM TypeCorrect == Spec => []TypeOK
<1>1. Sound => TypeOK
  BY DEF Sound
<1>2. QED
  BY <1>1, InitSound, SoundKept, PTL DEF Spec
------------------------------------------------------------------------------
(* The rings that a request reads. *)

Kept(s, size) == IF Len(s) > size THEN size ELSE Len(s)
RingLen(i) == Kept(logged[i], Size(i))

Asked == {0} \cup Elems(GetSources)
Rings(s) == Len(RingsOf(s))
At(s, r) == WatcherOf(RingsOf(s)[r])

\* The last entries of a sequence, and where they are counted from its end.
LEMMA LastIs ==
  ASSUME NEW s \in Seq(Entry), NEW size \in Nat \ {0}
  PROVE  LET m == Kept(s, size)
             r == SubSeq(s, IF Len(s) > size THEN Len(s) - size + 1 ELSE 1, Len(s))
         IN  /\ m \in Nat /\ m <= Len(s) /\ r \in Seq(Entry) /\ Len(r) = m
             /\ \A k \in 1 .. m : r[k] = s[Len(s) - m + k]
             /\ \A x : x \in Elems(r) <=> \E j \in 1 .. m : x = s[Len(s) + 1 - j]
<1> DEFINE first == IF Len(s) > size THEN Len(s) - size + 1 ELSE 1
           m == Kept(s, size)
           n == Len(s)
           r == SubSeq(s, first, n)
<1>1. m \in Nat /\ n \in Nat /\ m <= n /\ first = n - m + 1
  BY DEF Kept
<1> HIDE DEF first, m, n
<1>2. r \in Seq(Entry) /\ Len(r) = m /\ \A k \in 1 .. m : r[k] = s[n - m + k]
  <2>1. first \in 1 .. n + 1 /\ first \in Int
    BY <1>1
  <2>2. r = [k \in 1 .. n - first + 1 |-> s[first + k - 1]]
    BY <1>1, <2>1 DEF n
  <2>3. n - first + 1 = m
    BY <1>1
  <2>4. \A k \in 1 .. m : first + k - 1 = n - m + k /\ first + k - 1 \in 1 .. n
    BY <1>1
  <2>5. \A k \in 1 .. m : s[first + k - 1] \in Entry
    BY <1>1, <2>4 DEF n
  <2>6. r = [k \in 1 .. m |-> s[first + k - 1]]
    BY <2>2, <2>3
  <2> HIDE DEF r
  <2>7. r \in Seq(Entry) /\ Len(r) = m
    BY <1>1, <2>5, <2>6
  <2>8. \A k \in 1 .. m : r[k] = s[first + k - 1]
    BY <2>6
  <2>9. QED
    BY <2>4, <2>7, <2>8
<1> HIDE DEF r
<1>3. ASSUME NEW k \in 1 .. m
      PROVE  m + 1 - k \in 1 .. m /\ r[k] = s[n + 1 - (m + 1 - k)]
  <2>1. n + 1 - (m + 1 - k) = n - m + k /\ m + 1 - k \in 1 .. m
    BY <1>1
  <2>2. QED
    BY <1>2, <2>1
<1>4. ASSUME NEW j \in 1 .. m
      PROVE  m + 1 - j \in 1 .. m /\ r[m + 1 - j] = s[n + 1 - j]
  <2>1. n - m + (m + 1 - j) = n + 1 - j /\ m + 1 - j \in 1 .. m
    BY <1>1
  <2>2. QED
    BY <1>2, <2>1
<1>5. ASSUME NEW x PROVE x \in Elems(r) <=> \E j \in 1 .. m : x = s[n + 1 - j]
  <2>1. ASSUME NEW k \in 1 .. m, x = r[k] PROVE \E j \in 1 .. m : x = s[n + 1 - j]
    BY <1>3, <2>1
  <2>2. ASSUME NEW j \in 1 .. m, x = s[n + 1 - j] PROVE \E k \in 1 .. m : x = r[k]
    BY <1>4, <2>2
  <2>3. QED
    BY <1>2, <2>1, <2>2 DEF Elems
<1>6. QED
  BY <1>1, <1>2, <1>5 DEF first, m, n, r

LEMMA RingIs ==
  ASSUME Sound, NEW i \in Sources
  PROVE  /\ RingLen(i) \in Nat /\ RingLen(i) <= Len(logged[i]) /\ RingLen(i) <= MaxLines
         /\ Size(i) \in Nat \ {0}
         /\ Ring(i) \in Seq(Entry) /\ Len(Ring(i)) = RingLen(i)
         /\ \A k \in 1 .. RingLen(i) :
              Ring(i)[k] = logged[i][Len(logged[i]) - RingLen(i) + k]
         /\ \A x : x \in Elems(Ring(i)) <=>
              \E j \in 1 .. RingLen(i) : x = logged[i][Len(logged[i]) + 1 - j]
<1>1. Size(i) \in Nat \ {0}
  <2>1. config.sizes[i] \in Int
    BY Constants DEF Sound, TypeOK
  <2>2. QED
    BY <2>1, Constants DEF Size
<1>2. PICK s \in Seq(Entry) : s = logged[i] /\ Len(s) \in Nat
  BY LogOf
<1>3. PICK size \in Nat \ {0} : size = Size(i)
  BY <1>1
<1>4. /\ RingLen(i) = Kept(s, size)
      /\ Ring(i) = SubSeq(s, IF Len(s) > size THEN Len(s) - size + 1 ELSE 1, Len(s))
  BY <1>2, <1>3 DEF RingLen, Ring
<1>5. /\ RingLen(i) \in Nat /\ RingLen(i) <= Len(s)
      /\ Ring(i) \in Seq(Entry) /\ Len(Ring(i)) = RingLen(i)
      /\ \A k \in 1 .. RingLen(i) : Ring(i)[k] = s[Len(s) - RingLen(i) + k]
      /\ \A x : x \in Elems(Ring(i)) <=> \E j \in 1 .. RingLen(i) : x = s[Len(s) + 1 - j]
  <2> DEFINE m == Kept(s, size)
             r == SubSeq(s, IF Len(s) > size THEN Len(s) - size + 1 ELSE 1, Len(s))
  <2>1. /\ m \in Nat /\ m <= Len(s) /\ r \in Seq(Entry) /\ Len(r) = m
        /\ \A k \in 1 .. m : r[k] = s[Len(s) - m + k]
        /\ \A x : x \in Elems(r) <=> \E j \in 1 .. m : x = s[Len(s) + 1 - j]
    BY LastIs, Zenon
  <2>2. RingLen(i) = m /\ Ring(i) = r
    BY <1>4
  <2> HIDE DEF m, r
  <2>3. QED
    BY <2>1, <2>2
<1>6. RingLen(i) <= MaxLines
  BY <1>2, <1>5, LogOf, Constants
<1>7. QED
  BY <1>1, <1>2, <1>5, <1>6

LEMMA RingFacts ==
  ASSUME Sound, NEW i \in Sources
  PROVE  /\ \A s : s # 0 => Ascending(Ring(i), s)
         /\ Once(Ring(i)) /\ Elems(Ring(i)) \subseteq Elems(logged[i])
         /\ \A k \in 1 .. RingLen(i) : Ring(i)[k].src = i
<1> DEFINE m == RingLen(i)
           n == Len(logged[i])
<1>1. /\ m \in Nat /\ m <= n /\ Len(Ring(i)) = m
      /\ \A k \in 1 .. m : Ring(i)[k] = logged[i][n - m + k]
  BY RingIs
<1>2. n \in Nat /\ \A k \in 1 .. n : logged[i][k].src = i /\ logged[i][k].id = k
  BY LogOf
<1> HIDE DEF m, n
<1>3. \A k \in 1 .. m : n - m + k \in 1 .. n
  BY <1>1, <1>2
<1>4. ASSUME NEW k \in 1 .. m PROVE Ring(i)[k].src = i /\ Ring(i)[k].id = n - m + k
  <2>1. PICK h \in 1 .. n : h = n - m + k
    BY <1>3
  <2>2. Ring(i)[k] = logged[i][h]
    BY <1>1, <2>1
  <2>3. QED
    BY <1>2, <2>1, <2>2
<1>5. ASSUME NEW s, s # 0 PROVE Ascending(Ring(i), s)
  <2>1. \A k, l \in 1 .. m : k < l => n - m + k <= n - m + l
    BY <1>1, <1>2
  <2>2. \A k, l \in 1 .. m : k < l => Ring(i)[k].id <= Ring(i)[l].id
    BY <1>4, <2>1
  <2>3. QED
    BY <1>1, <1>5, <2>2 DEF Ascending, Rank
<1>6. Once(Ring(i))
  <2>1. ASSUME NEW k \in 1 .. m, NEW l \in 1 .. m, Ring(i)[k] = Ring(i)[l] PROVE k = l
    <3>1. n - m + k = n - m + l
      BY <1>4, <2>1
    <3>2. QED
      BY <1>1, <1>2, <3>1
  <2>2. QED
    BY <1>1, <2>1 DEF Once
<1>7. \A k \in 1 .. m : Ring(i)[k] \in Elems(logged[i])
  BY <1>1, <1>3 DEF Elems, n
<1>8. Elems(Ring(i)) \subseteq Elems(logged[i])
  BY <1>1, <1>7 DEF Elems
<1>9. QED
  BY <1>4, <1>5, <1>6, <1>8 DEF m

\* A name that GetSources lists has its watcher.
LEMMA WatcherIs ==
  ASSUME Sound, NEW i \in Sources
  PROVE  WatcherOf(Name(i)) \in Sources /\ Name(WatcherOf(Name(i))) = Name(i)
<1> DEFINE I == {j \in Sources : Name(j) = Name(i)}
<1>1. N \in Nat /\ I \in SUBSET (1 .. N) /\ i \in I
  BY Constants DEF Sources
<1>2. PICK m \in I : \A j \in I : j <= m
  <2> HIDE DEF I
  <2>1. I # {}
    BY <1>1
  <2>2. QED
    BY <1>1, <2>1, Greatest
<1>3. \E w \in Sources : Name(w) = Name(i) /\ \A j \in Sources : Name(j) = Name(i) => j <= w
  BY <1>2
<1>4. QED
  BY <1>3 DEF WatcherOf

LEMMA RingsAre ==
  ASSUME Sound, NEW s \in Asked
  PROVE  /\ Rings(s) \in Nat \ {0}
         /\ \A r \in 1 .. Rings(s) : At(s, r) \in Sources
         /\ s # 0 => Rings(s) = 1
         /\ DistinctNames => \A r, q \in 1 .. Rings(s) : At(s, r) = At(s, q) => r = q
<1>1. N \in Nat \ {0} /\ Sources = 1 .. N
  BY Constants DEF Sources
<1>2. Len(GetSources) = N /\ \A i \in 1 .. N : GetSources[i] = Name(i)
  BY <1>1 DEF GetSources
<1>3. CASE s = 0
  <2>1. RingsOf(s) = GetSources
    BY <1>3 DEF RingsOf
  <2>2. \A r \in 1 .. N : /\ At(s, r) = WatcherOf(Name(r))
                          /\ At(s, r) \in Sources /\ Name(At(s, r)) = Name(r)
    BY <1>1, <1>2, <2>1, WatcherIs DEF At
  <2>3. DistinctNames => \A r, q \in 1 .. N : At(s, r) = At(s, q) => r = q
    BY <1>1, <2>2 DEF DistinctNames
  <2>4. Rings(s) = N
    BY <1>2, <2>1 DEF Rings
  <2>5. QED
    BY <1>1, <1>3, <2>2, <2>3, <2>4
<1>4. CASE s # 0
  <2>1. PICK i \in Sources : s = Name(i)
    BY <1>1, <1>2, <1>4 DEF Asked, Elems
  <2>2. RingsOf(s) = <<s>>
    BY <1>4 DEF RingsOf
  <2>3. Rings(s) = 1 /\ RingsOf(s)[1] = s
    BY <2>2 DEF Rings
  <2>4. At(s, 1) \in Sources
    BY <2>1, <2>3, WatcherIs DEF At
  <2>5. \A r \in 1 .. Rings(s) : r = 1
    BY <2>3
  <2>6. QED
    BY <2>3, <2>4, <2>5
<1>5. QED
  BY <1>3, <1>4

LEMMA InRingsIs ==
  ASSUME NEW s, NEW x
  PROVE  x \in InRings(s) <=> \E r \in 1 .. Rings(s) : x \in Elems(Ring(At(s, r)))
  BY DEF InRings, Rings, At

LEMMA SameConfig ==
  ASSUME config' = config
  PROVE  /\ Asked' = Asked /\ DistinctNames' = DistinctNames
         /\ \A i : Size(i)' = Size(i)
         /\ \A s : Rings(s)' = Rings(s)
         /\ \A s, r : At(s, r)' = At(s, r)
<1>1. \A i : Name(i)' = Name(i) /\ Size(i)' = Size(i)
  BY DEF Name, Size
<1>2. GetSources' = GetSources
  BY <1>1 DEF GetSources
<1>3. Asked' = Asked /\ DistinctNames' = DistinctNames
  BY <1>1, <1>2 DEF Asked, DistinctNames, Elems
<1>4. \A s : RingsOf(s)' = RingsOf(s)
  BY <1>2 DEF RingsOf
<1>5. \A name : WatcherOf(name)' = WatcherOf(name)
  BY <1>1 DEF WatcherOf
<1>6. \A s : Rings(s)' = Rings(s)
  BY <1>4 DEF Rings
<1>7. \A s, r : At(s, r)' = At(s, r)
  BY <1>4, <1>5 DEF At
<1>8. QED
  BY <1>1, <1>3, <1>6, <1>7

LEMMA SameRings ==
  ASSUME config' = config, logged' = logged
  PROVE  /\ \A i : RingLen(i)' = RingLen(i) /\ Ring(i)' = Ring(i)
         /\ \A s : InRings(s)' = InRings(s)
         /\ Logged' = Logged
<1>1. ASSUME NEW i PROVE RingLen(i)' = RingLen(i) /\ Ring(i)' = Ring(i)
  <2>1. Size(i)' = Size(i) /\ logged'[i] = logged[i]
    BY SameConfig
  <2>2. RingLen(i)' = RingLen(i)
    BY <2>1 DEF RingLen
  <2>3. Ring(i)' = Ring(i)
    BY <2>1 DEF Ring
  <2>4. QED
    BY <2>2, <2>3
<1>2. \A s, x : x \in InRings(s)' <=> \E r \in 1 .. Rings(s)' : x \in Elems(Ring(At(s, r)))'
  BY DEF InRings, Rings, At
<1>3. ASSUME NEW s, NEW r PROVE Elems(Ring(At(s, r)))' = Elems(Ring(At(s, r)))
  <2>1. At(s, r)' = At(s, r)
    BY SameConfig
  <2>2. PICK i : i = At(s, r)
    OBVIOUS
  <2>3. Ring(At(s, r))' = Ring(i)'
    BY <2>1, <2>2
  <2>4. Ring(At(s, r))' = Ring(At(s, r))
    BY <1>1, <2>2, <2>3
  <2>5. QED
    BY <2>4 DEF Elems
<1>4. \A s, x : x \in InRings(s)' <=> x \in InRings(s)
  BY <1>2, <1>3, SameConfig, InRingsIs
<1>5. \A s : InRings(s)' = InRings(s)
  <2> TAKE s
  <2>1. InRings(s)' \subseteq InRings(s) /\ InRings(s) \subseteq InRings(s)'
    BY <1>4
  <2>2. QED
    BY <2>1
<1>6. Logged' = Logged
  BY DEF Logged
<1>7. QED
  BY <1>1, <1>5, <1>6
------------------------------------------------------------------------------
(* What is above a rank in the rings that a request has not read. *)

\* The j-th newest entry of ring i.
Newer(i, j, s, t) ==
  j \in 1 .. RingLen(i) /\ Rank(s, logged[i][Len(logged[i]) + 1 - j]) > t

Above(s, t, from) ==
  {q \in (1 .. Rings(s)) \X (1 .. MaxLines) : from < q[1] /\ Newer(At(s, q[1]), q[2], s, t)}

LEMMA AboveFinite ==
  ASSUME Sound, NEW s \in Asked, NEW t, NEW from
  PROVE  IsFiniteSet(Above(s, t, from)) /\ Cardinality(Above(s, t, from)) \in Nat
<1>1. Rings(s) \in Nat /\ MaxLines \in Nat
  BY RingsAre, Constants
<1>2. IsFiniteSet(1 .. Rings(s)) /\ IsFiniteSet(1 .. MaxLines)
  BY <1>1, FS_Interval
<1>3. IsFiniteSet((1 .. Rings(s)) \X (1 .. MaxLines))
  BY <1>2, FS_Product
<1>4. IsFiniteSet(Above(s, t, from))
  BY <1>3, FS_Subset DEF Above
<1>5. QED
  BY <1>4, FS_CardinalityType

LEMMA NoneAbove ==
  ASSUME Sound, NEW s \in Asked, NEW t
  PROVE  Cardinality(Above(s, t, Rings(s))) = 0
<1>1. Rings(s) \in Nat
  BY RingsAre
<1>2. Above(s, t, Rings(s)) = {}
  BY <1>1 DEF Above
<1>3. QED
  BY <1>2, FS_EmptySet

LEMMA LaterFinite ==
  ASSUME NEW c \in Seq(Entry), NEW s, NEW t
  PROVE  IsFiniteSet(Later(c, s, t)) /\ Cardinality(Later(c, s, t)) \in Nat
<1>1. IsFiniteSet(1 .. Len(c))
  BY FS_Interval
<1>2. IsFiniteSet(Later(c, s, t))
  BY <1>1, FS_Subset DEF Later
<1>3. QED
  BY <1>2, FS_CardinalityType

LEMMA LaterConcat ==
  ASSUME NEW a \in Seq(Entry), NEW b \in Seq(Entry), NEW s, NEW t
  PROVE  Cardinality(Later(a \o b, s, t)) =
           Cardinality(Later(a, s, t)) + Cardinality(Later(b, s, t))
<1> DEFINE P == Later(a, s, t)
           B == Later(b, s, t)
           f == [k \in B |-> Len(a) + k]
           Q == {Len(a) + k : k \in B}
<1>1. /\ Len(a) \in Nat /\ Len(b) \in Nat /\ Len(a \o b) = Len(a) + Len(b)
      /\ \A k \in 1 .. Len(a) : (a \o b)[k] = a[k]
      /\ \A k \in 1 .. Len(b) : (a \o b)[Len(a) + k] = b[k]
  <2>1. Len(a \o b) = Len(a) + Len(b)
    BY ConcatProperties
  <2>2. QED
    BY <2>1
<1>2. P \subseteq 1 .. Len(a) /\ B \subseteq 1 .. Len(b)
  BY DEF Later
<1>3. Later(a \o b, s, t) = P \cup Q
  <2>1. ASSUME NEW k \in Later(a \o b, s, t) PROVE k \in P \cup Q
    <3>1. k \in 1 .. Len(a) + Len(b) /\ Rank(s, (a \o b)[k]) > t
      BY <1>1 DEF Later
    <3>2. CASE k \in 1 .. Len(a)
      BY <1>1, <3>1, <3>2 DEF Later
    <3>3. CASE k \notin 1 .. Len(a)
      <4>1. k - Len(a) \in 1 .. Len(b) /\ Len(a) + (k - Len(a)) = k
        BY <1>1, <3>1, <3>3
      <4>2. (a \o b)[k] = b[k - Len(a)]
        BY <1>1, <4>1
      <4>3. k - Len(a) \in B
        BY <3>1, <4>1, <4>2 DEF Later
      <4>4. QED
        BY <4>1, <4>3
    <3>4. QED
      BY <3>2, <3>3
  <2>2. ASSUME NEW k \in P PROVE k \in Later(a \o b, s, t)
    BY <1>1, <1>2, <2>2 DEF Later
  <2>3. ASSUME NEW k \in B PROVE Len(a) + k \in Later(a \o b, s, t)
    <3>1. k \in 1 .. Len(b) /\ Rank(s, b[k]) > t
      BY DEF Later
    <3>2. Len(a) + k \in 1 .. Len(a \o b)
      BY <1>1, <3>1
    <3>3. QED
      BY <1>1, <3>1, <3>2 DEF Later
  <2>4. QED
    BY <2>1, <2>2, <2>3
<1>4. IsFiniteSet(P) /\ IsFiniteSet(B) /\ Cardinality(P) \in Nat /\ Cardinality(B) \in Nat
  BY LaterFinite
<1> HIDE DEF P, B
<1>5. IsFiniteSet(Q) /\ Cardinality(Q) = Cardinality(B)
  <2>1. f \in Bijection(B, Q)
    BY <1>1, <1>2 DEF Bijection, Injection, Surjection, IsInjective
  <2>2. ExistsBijection(B, Q)
    BY <2>1 DEF ExistsBijection
  <2> HIDE DEF Q
  <2>3. QED
    BY <1>4, <2>2, FS_Bijection
<1>6. P \cap Q = {}
  BY <1>1, <1>2
<1> HIDE DEF Q
<1>7. Cardinality(P \cup Q) = Cardinality(P) + Cardinality(Q) - Cardinality(P \cap Q)
  BY <1>4, <1>5, FS_Union
<1>8. Cardinality(P \cap Q) = 0
  BY <1>6, FS_EmptySet
<1>9. QED
  BY <1>3, <1>4, <1>5, <1>7, <1>8 DEF P, B

\* Reading the next ring moves what is newer from the rings to the result.
LEMMA AboveStep ==
  ASSUME Sound, NEW s \in Asked, NEW r \in Nat, r < Rings(s), NEW t
  PROVE  Cardinality(Above(s, t, r)) =
           Cardinality(Above(s, t, r + 1)) + Cardinality(Later(Ring(At(s, r + 1)), s, t))
<1>1. Rings(s) \in Nat /\ r + 1 \in 1 .. Rings(s)
  BY RingsAre
<1>2. PICK i \in Sources : i = At(s, r + 1)
  BY <1>1, RingsAre
<1> DEFINE m == RingLen(i)
           n == Len(logged[i])
           B == Later(Ring(i), s, t)
           P == Above(s, t, r + 1)
           Q == {q \in (1 .. Rings(s)) \X (1 .. MaxLines) :
                   q[1] = r + 1 /\ Newer(i, q[2], s, t)}
           f == [q \in Q |-> m + 1 - q[2]]
<1>3. /\ m \in Nat /\ n \in Nat /\ m <= n /\ m <= MaxLines /\ MaxLines \in Nat
      /\ Ring(i) \in Seq(Entry) /\ Len(Ring(i)) = m
      /\ \A k \in 1 .. m : Ring(i)[k] = logged[i][n - m + k]
  BY RingIs, LogOf, Constants
<1>4. Above(s, t, r) = P \cup Q
  <2>1. \A q \in (1 .. Rings(s)) \X (1 .. MaxLines) : r < q[1] <=> r + 1 < q[1] \/ q[1] = r + 1
    BY <1>1
  <2>2. QED
    BY <1>2, <2>1 DEF Above
<1>5. P \cap Q = {}
  <2>1. ~ (r + 1 < r + 1)
    OBVIOUS
  <2>2. QED
    BY <2>1 DEF Above
<1>6. \A j : Newer(i, j, s, t) <=> j \in 1 .. m /\ Rank(s, logged[i][n + 1 - j]) > t
  BY DEF Newer
<1>7. IsFiniteSet(P) /\ Cardinality(P) \in Nat /\ IsFiniteSet(B) /\ Cardinality(B) \in Nat
  BY <1>3, AboveFinite, LaterFinite
<1>8. B = {k \in 1 .. m : Rank(s, Ring(i)[k]) > t}
  BY <1>3 DEF Later
<1> HIDE DEF m, n, P, B
<1>9. f \in Bijection(Q, B)
  <2>1. ASSUME NEW q \in Q PROVE f[q] \in B /\ q = <<r + 1, m + 1 - f[q]>>
    <3>1. /\ q = <<r + 1, q[2]>> /\ q[2] \in 1 .. m /\ Rank(s, logged[i][n + 1 - q[2]]) > t
      BY <1>6
    <3> DEFINE j == q[2]
    <3>2. m + 1 - j \in 1 .. m /\ n - m + (m + 1 - j) = n + 1 - j /\ m + 1 - (m + 1 - j) = j
      <4>1. j \in 1 .. m
        BY <3>1
      <4>2. m \in Nat /\ n \in Nat
        BY <1>3
      <4> HIDE DEF j
      <4>3. QED
        BY <4>1, <4>2
    <3>3. f[q] = m + 1 - q[2] /\ m + 1 - (m + 1 - q[2]) = q[2]
      BY <3>2
    <3>4. Ring(i)[m + 1 - q[2]] = logged[i][n + 1 - q[2]]
      BY <1>3, <3>2
    <3>5. QED
      BY <1>8, <3>1, <3>2, <3>3, <3>4
  <2>2. ASSUME NEW k \in B PROVE \E q \in Q : f[q] = k
    <3>1. k \in 1 .. m /\ Rank(s, Ring(i)[k]) > t
      BY <1>8
    <3>2. m + 1 - k \in 1 .. m /\ m + 1 - k \in 1 .. MaxLines /\ n + 1 - (m + 1 - k) = n - m + k
      BY <1>3, <3>1
    <3>3. Rank(s, logged[i][n + 1 - (m + 1 - k)]) > t
      BY <1>3, <3>1, <3>2
    <3>4. <<r + 1, m + 1 - k>> \in Q
      BY <1>1, <1>6, <3>2, <3>3
    <3>5. f[<<r + 1, m + 1 - k>>] = m + 1 - (m + 1 - k) /\ m + 1 - (m + 1 - k) = k
      BY <1>3, <3>1, <3>4
    <3>6. QED
      BY <3>4, <3>5
  <2>3. \A q, p \in Q : f[q] = f[p] => q = p
    BY <2>1
  <2>4. f \in [Q -> B]
    BY <2>1
  <2> HIDE DEF f, Q
  <2>5. QED
    BY <2>2, <2>3, <2>4 DEF Bijection, Injection, Surjection, IsInjective
<1>10. IsFiniteSet(Q) /\ Cardinality(Q) = Cardinality(B)
  <2>1. ExistsBijection(Q, B)
    BY <1>9 DEF ExistsBijection
  <2>2. IsFiniteSet(Q)
    <3>1. IsFiniteSet(1 .. Rings(s)) /\ IsFiniteSet(1 .. MaxLines)
      BY <1>1, <1>3, FS_Interval
    <3>2. IsFiniteSet((1 .. Rings(s)) \X (1 .. MaxLines))
      BY <3>1, FS_Product
    <3>3. QED
      BY <3>2, FS_Subset
  <2> HIDE DEF Q
  <2>3. QED
    BY <2>1, <2>2, FS_Bijection
<1> HIDE DEF Q
<1>11. Cardinality(P \cup Q) = Cardinality(P) + Cardinality(Q) - Cardinality(P \cap Q)
  BY <1>7, <1>10, FS_Union
<1>12. Cardinality(P \cap Q) = 0
  BY <1>5, FS_EmptySet
<1>13. QED
  BY <1>2, <1>4, <1>7, <1>10, <1>11, <1>12 DEF P, B

LEMMA SameAbove ==
  ASSUME config' = config, logged' = logged
  PROVE  \A s, t, from : Above(s, t, from)' = Above(s, t, from)
<1>1. ASSUME NEW i, NEW j, NEW s, NEW t PROVE Newer(i, j, s, t)' <=> Newer(i, j, s, t)
  <2>1. RingLen(i)' = RingLen(i) /\ logged'[i] = logged[i]
    BY SameRings
  <2>2. QED
    BY <2>1 DEF Newer, Rank
<1>2. ASSUME NEW s, NEW t, NEW q
      PROVE  Newer(At(s, q[1]), q[2], s, t)' <=> Newer(At(s, q[1]), q[2], s, t)
  <2>1. PICK i : i = At(s, q[1])
    OBVIOUS
  <2>2. At(s, q[1])' = At(s, q[1])
    BY SameConfig
  <2>3. Newer(At(s, q[1]), q[2], s, t)' <=> Newer(i, q[2], s, t)'
    BY <2>1, <2>2
  <2>4. QED
    BY <1>1, <2>1, <2>3
<1>3. ASSUME NEW s, NEW t, NEW from PROVE Above(s, t, from)' = Above(s, t, from)
  <2>1. Rings(s)' = Rings(s)
    BY SameConfig
  <2>2. QED
    BY <1>2, <2>1 DEF Above
<1>4. QED
  BY <1>3
------------------------------------------------------------------------------
(* A line is read meanwhile. *)

\* A source that has logged an entry above t goes on with such entries.
Steady(s, t) ==
  \A i \in Sources : \A j, k \in 1 .. Len(logged[i]) :
    j < k /\ t < Rank(s, logged[i][j]) => t < Rank(s, logged[i][k])

\* The IDs of a source ascend, whatever its timestamps.
LEMMA OneIsSteady ==
  ASSUME NEW logs \in [Sources -> Seq(Entry)],
         \A i \in Sources : \A k \in 1 .. Len(logs[i]) : logs[i][k].id = k,
         NEW s, s # 0, NEW t \in Int
  PROVE  \A i \in Sources : \A j, k \in 1 .. Len(logs[i]) :
           j < k /\ t < Rank(s, logs[i][j]) => t < Rank(s, logs[i][k])
<1>1. ASSUME NEW i \in Sources, NEW j \in 1 .. Len(logs[i]), NEW k \in 1 .. Len(logs[i]),
             j < k, t < Rank(s, logs[i][j])
      PROVE  t < Rank(s, logs[i][k])
  <2>1. Rank(s, logs[i][j]) = j /\ Rank(s, logs[i][k]) = k
    BY DEF Rank
  <2>2. Len(logs[i]) \in Nat
    OBVIOUS
  <2>3. QED
    BY <1>1, <2>1, <2>2
<1>2. QED
  BY <1>1

LEMMA SteadyBefore ==
  ASSUME Sound, NEW i \in Sources, NEW ts \in Nat, AppendEntry(i, ts),
         NEW s, NEW t, Steady(s, t)'
  PROVE  Steady(s, t)
<1>1. /\ \A k \in 1 .. Len(logged[i]) :
           k \in 1 .. Len(logged'[i]) /\ logged'[i][k] = logged[i][k]
      /\ \A j \in Sources : j # i => logged'[j] = logged[j]
  BY Appended
<1>2. \A j \in Sources : \A k, l \in 1 .. Len(logged'[j]) :
        k < l /\ t < Rank(s, logged'[j][k]) => t < Rank(s, logged'[j][l])
  BY DEF Steady, Rank
<1>3. QED
  BY <1>1, <1>2 DEF Steady

LEMMA AppendNewer ==
  ASSUME Sound, config' = config, NEW i \in Sources, NEW ts \in Nat,
         AppendEntry(i, ts), NEW s, NEW t \in Int, Steady(s, t)',
         NEW j \in Sources, NEW d, Newer(j, d, s, t)
  PROVE  Newer(j, d, s, t)'
<1>0. Size(j)' = Size(j) /\ Size(j) \in Nat \ {0}
  BY SameConfig, RingIs
<1>1. CASE j # i
  <2>1. logged'[j] = logged[j]
    BY <1>1, Appended
  <2>2. RingLen(j)' = RingLen(j)
    BY <1>0, <2>1 DEF RingLen
  <2>3. QED
    BY <2>1, <2>2 DEF Newer, Rank
<1>2. CASE j = i
  <2> DEFINE n == Len(logged[i])
             m == RingLen(i)
  <2>1. /\ Len(logged'[i]) = n + 1
        /\ \A k \in 1 .. n : k \in 1 .. n + 1 /\ logged'[i][k] = logged[i][k]
    BY Appended
  <2>2. n \in Nat /\ m \in Nat /\ m <= n
    BY LogOf, RingIs
  <2>3. d \in 1 .. m /\ Rank(s, logged[i][n + 1 - d]) > t
    BY <1>2 DEF Newer
  <2>4. RingLen(i)' = IF n + 1 > Size(i) THEN Size(i) ELSE n + 1
    BY <1>0, <1>2, <2>1 DEF RingLen, Kept
  <2>5. m = IF n > Size(i) THEN Size(i) ELSE n
    BY DEF RingLen, Kept
  <2> HIDE DEF n, m
  <2>6. d \in 1 .. RingLen(i)'
    BY <1>0, <1>2, <2>2, <2>3, <2>4, <2>5
  <2>7. n + 1 - d \in 1 .. n /\ n + 1 + 1 - d \in 1 .. n + 1 /\ n + 1 - d < n + 1 + 1 - d
    BY <2>2, <2>3
  <2>8. \A k, l \in 1 .. n + 1 :
          k < l /\ t < Rank(s, logged'[i][k]) => t < Rank(s, logged'[i][l])
    BY <2>1 DEF Steady, Rank
  <2>9. n + 1 - d \in 1 .. n + 1 /\ t < Rank(s, logged'[i][n + 1 - d])
    BY <2>1, <2>3, <2>7
  <2>10. t < Rank(s, logged'[i][n + 1 + 1 - d])
    BY <2>7, <2>8, <2>9
  <2>11. QED
    BY <1>2, <2>1, <2>6, <2>10 DEF Newer, Rank
<1>3. QED
  BY <1>1, <1>2

\* What was logged and is in the ring afterwards was in it before.
LEMMA AppendRing ==
  ASSUME Sound, config' = config, NEW i \in Sources, NEW ts \in Nat,
         AppendEntry(i, ts), NEW j \in Sources, NEW x \in Logged, x \in Elems(Ring(j))'
  PROVE  x \in Elems(Ring(j))
<1>0. Size(j)' = Size(j) /\ Size(j) \in Nat \ {0}
  BY SameConfig, RingIs
<1>1. CASE j # i
  <2>1. logged'[j] = logged[j]
    BY <1>1, Appended
  <2>2. Ring(j)' = Ring(j)
    BY <1>0, <2>1 DEF Ring
  <2>3. QED
    BY <2>2 DEF Elems
<1>2. CASE j = i
  <2> DEFINE n == Len(logged[i])
             m == RingLen(i)
  <2>1. /\ Len(logged'[i]) = n + 1 /\ logged'[i][n + 1] = NextEntry(i, ts)
        /\ \A k \in 1 .. n : logged'[i][k] = logged[i][k]
        /\ logged'[i] \in Seq(Entry) /\ x # NextEntry(i, ts)
    BY Appended
  <2>2. n \in Nat /\ m = IF n > Size(i) THEN Size(i) ELSE n
    BY LogOf DEF RingLen, Kept
  <2>3. PICK log \in Seq(Entry) : log = logged'[i]
    BY <2>1
  <2>4. PICK size \in Nat \ {0} : size = Size(i)
    BY <1>0, <1>2
  <2> DEFINE r == SubSeq(log, IF Len(log) > size THEN Len(log) - size + 1 ELSE 1, Len(log))
             m2 == Kept(log, size)
  <2>5. Ring(i)' = r
    BY <1>0, <1>2, <2>3, <2>4 DEF Ring
  <2>6. x \in Elems(r)
    BY <1>2, <2>5 DEF Elems
  <2>7. \A y : y \in Elems(r) <=> \E d \in 1 .. m2 : y = log[Len(log) + 1 - d]
    BY LastIs, Zenon
  <2>8. m2 = IF n + 1 > size THEN size ELSE n + 1
    BY <2>1, <2>3 DEF Kept
  <2> HIDE DEF r, n, m, m2
  <2>9. PICK d \in 1 .. m2 : x = log[Len(log) + 1 - d]
    BY <2>6, <2>7
  <2>10. /\ Len(log) = n + 1 /\ log[n + 1] = NextEntry(i, ts)
         /\ \A k \in 1 .. n : log[k] = logged[i][k]
    BY <2>1, <2>3
  <2>11. d # 1
    <3>1. SUFFICES ASSUME d = 1 PROVE FALSE
      OBVIOUS
    <3>2. n + 1 + 1 - d = n + 1
      BY <2>2, <3>1
    <3>3. QED
      BY <2>1, <2>9, <2>10, <3>2
  <2>12. d - 1 \in 1 .. m /\ n + 1 - (d - 1) \in 1 .. n /\ n + 1 + 1 - d = n + 1 - (d - 1)
    BY <2>2, <2>4, <2>8, <2>11
  <2>13. x = logged[i][n + 1 - (d - 1)]
    BY <2>9, <2>10, <2>12
  <2>14. x \in Elems(Ring(i)) <=> \E k \in 1 .. RingLen(i) : x = logged[i][Len(logged[i]) + 1 - k]
    BY RingIs
  <2>15. QED
    BY <1>2, <2>12, <2>13, <2>14 DEF n, m
<1>3. QED
  BY <1>1, <1>2

LEMMA AppendInRings ==
  ASSUME Sound, config' = config, NEW i \in Sources, NEW ts \in Nat,
         AppendEntry(i, ts), NEW s \in Asked
  PROVE  /\ \A r \in 1 .. Rings(s) :
              Logged \cap Elems(Ring(At(s, r)))' \subseteq Elems(Ring(At(s, r)))
         /\ Logged \cap InRings(s)' \subseteq InRings(s)
<1>1. ASSUME NEW r \in 1 .. Rings(s), NEW x \in Logged, x \in Elems(Ring(At(s, r)))'
      PROVE  x \in Elems(Ring(At(s, r)))
  <2>1. PICK j \in Sources : j = At(s, r)
    BY RingsAre
  <2>2. At(s, r)' = At(s, r)
    BY SameConfig
  <2>3. Ring(At(s, r))' = Ring(j)'
    BY <2>1, <2>2
  <2>4. x \in Elems(Ring(j))'
    BY <1>1, <2>3 DEF Elems
  <2>5. QED
    BY <2>1, <2>4, AppendRing
<1>2. ASSUME NEW x \in Logged, x \in InRings(s)' PROVE x \in InRings(s)
  <2>1. \E r \in 1 .. Rings(s)' : x \in Elems(Ring(At(s, r)))'
    BY <1>2 DEF InRings, Rings, At
  <2>2. PICK r \in 1 .. Rings(s) : x \in Elems(Ring(At(s, r)))'
    BY <2>1, SameConfig
  <2>3. QED
    BY <1>1, <2>2, InRingsIs
<1>3. QED
  BY <1>1, <1>2

LEMMA AppendAbove ==
  ASSUME Sound, config' = config, NEW i \in Sources, NEW ts \in Nat,
         AppendEntry(i, ts), NEW s \in Asked, NEW t \in Int, NEW from \in Nat, Steady(s, t)'
  PROVE  /\ IsFiniteSet(Above(s, t, from)') /\ Above(s, t, from) \subseteq Above(s, t, from)'
         /\ Above(s, t, from)' \ Above(s, t, from) \subseteq Above(s, t, 0)' \ Above(s, t, 0)
<1>1. Rings(s)' = Rings(s) /\ Rings(s) \in Nat /\ MaxLines \in Nat
  BY SameConfig, RingsAre, Constants
<1>2. \A r : At(s, r)' = At(s, r)
  BY SameConfig
<1>3. \A f : Above(s, t, f) =
        {q \in (1 .. Rings(s)) \X (1 .. MaxLines) : f < q[1] /\ Newer(At(s, q[1]), q[2], s, t)}
  BY DEF Above
<1>4. \A f : Above(s, t, f)' =
        {q \in (1 .. Rings(s)) \X (1 .. MaxLines) : f < q[1] /\ Newer(At(s, q[1]), q[2], s, t)'}
  BY <1>1 DEF Above
<1>5. ASSUME NEW q \in (1 .. Rings(s)) \X (1 .. MaxLines), Newer(At(s, q[1]), q[2], s, t)
      PROVE  Newer(At(s, q[1]), q[2], s, t)'
  <2>1. PICK j \in Sources : j = At(s, q[1])
    BY RingsAre
  <2>2. Newer(j, q[2], s, t)'
    BY <1>5, <2>1, AppendNewer
  <2>3. QED
    BY <1>2, <2>1, <2>2
<1>6. IsFiniteSet(Above(s, t, from)')
  <2>1. IsFiniteSet(1 .. Rings(s)) /\ IsFiniteSet(1 .. MaxLines)
    BY <1>1, FS_Interval
  <2>2. IsFiniteSet((1 .. Rings(s)) \X (1 .. MaxLines))
    BY <2>1, FS_Product
  <2>3. Above(s, t, from)' \in SUBSET ((1 .. Rings(s)) \X (1 .. MaxLines))
    BY <1>4
  <2>4. QED
    BY <2>2, <2>3, FS_Subset
<1>7. \A q \in (1 .. Rings(s)) \X (1 .. MaxLines) : from < q[1] => 0 < q[1]
  OBVIOUS
<1>8. QED
  BY <1>3, <1>4, <1>5, <1>6, <1>7
------------------------------------------------------------------------------
(* A walk through the pages. *)

Walks ==
  [stage : {"none", "walking", "over"}, source : Asked, offset : Nat, read : Nat,
   got : Seq(Entry), sorted : Seq(Entry), rows : Seq(Entry), present : SUBSET Entry,
   quiet : BOOLEAN]

WalkTyped(w) ==
  /\ w \in Walks /\ w.read <= Rings(w.source) /\ (w.read = 0 => w.got = <<>>)
  /\ w.present \subseteq Logged /\ Elems(w.got) \subseteq Logged

\* The request has got what was there at the beginning and is there still; what it
\* has is from the rings it has read.
GotHas(w) ==
  \A r \in 1 .. w.read : w.present \cap Elems(Ring(At(w.source, r))) \subseteq Elems(w.got)
GotFrom(w) == \A x \in Elems(w.got) : \E r \in 1 .. w.read : x.src = At(w.source, r)
GotInOrder(w) == w.source # 0 => Ascending(w.got, w.source)

\* How many entries above t the request has or will read, as the rings are; one
\* that begins now would read at least as many.
Count(w, t) ==
  Cardinality(Later(w.got, w.source, t)) + Cardinality(Above(w.source, t, w.read))
Counted(w) ==
  w.stage = "walking" => \A t \in Int :
    Steady(w.source, t) => Count(w, t) <= Cardinality(Above(w.source, t, 0))

\* An entry has its row, or the pages have not got as far as to it.
Good(s, x) == s # 0 \/ Undisturbed(x)
NotSkipped(w) ==
  \A x \in w.present \cap InRings(w.source) : Good(w.source, x) =>
    /\ w.stage = "walking" => x \in Elems(w.rows) \/ w.offset <= Count(w, Rank(w.source, x))
    /\ w.stage = "over" => x \in Elems(w.rows)

\* What a request may have collected from all the rings.
Complete(w, all) ==
  /\ all \in Seq(Entry) /\ Ascending(all, w.source)
  /\ w.present \cap InRings(w.source) \subseteq Elems(all) /\ Elems(all) \subseteq Logged
  /\ w.source # 0 => \A x \in Elems(all) : x.src = At(w.source, 1)
  /\ \A t \in Int : Steady(w.source, t) =>
       Cardinality(Later(all, w.source, t)) <= Cardinality(Above(w.source, t, 0))
  /\ w.quiet => Elems(all) = w.present /\ (DistinctNames => Once(all))

\* While nothing is logged, the pages are of the same result.
Result(w) == IF w.source = 0 THEN w.sorted ELSE Ring(At(w.source, 1))
Still(w) == w.stage # "none" /\ w.quiet =>
  /\ w.present = InRings(w.source)
  /\ w.stage = "walking" =>
       /\ Elems(w.got) \subseteq w.present /\ (DistinctNames => Once(w.got))
       /\ w.source # 0 /\ w.read = 1 => w.got = Ring(At(w.source, 1))
       /\ w.offset = 0 => w.rows = <<>>
       /\ w.offset # 0 => w.rows = Page(Result(w), w.offset, 0) /\ Complete(w, Result(w))

\* In the end they are the whole of it.
End(w) == w.stage = "over" /\ w.quiet /\ DistinctNames =>
  /\ Elems(w.rows) = w.present /\ Once(w.rows)
  /\ \A k, l \in 1 .. Len(w.rows) :
       k < l => Rank(w.source, w.rows[l]) <= Rank(w.source, w.rows[k])

WalkOK(w) ==
  /\ WalkTyped(w) /\ GotHas(w) /\ GotFrom(w) /\ GotInOrder(w)
  /\ Counted(w) /\ NotSkipped(w) /\ Still(w) /\ End(w)

LEMMA EmptyResult ==
  /\ <<>> \in Seq(Entry) /\ Elems(<<>>) = {} /\ Len(<<>>) = 0 /\ Once(<<>>)
  /\ \A s : Ascending(<<>>, s)
  /\ \A s, t : Cardinality(Later(<<>>, s, t)) = 0
<1>1. <<>> \in Seq(Entry) /\ Len(<<>>) = 0
  OBVIOUS
<1>2. /\ Elems(<<>>) = {} /\ Once(<<>>) /\ \A s : Ascending(<<>>, s)
      /\ \A s, t : Later(<<>>, s, t) = {}
  BY <1>1 DEF Elems, Once, Ascending, Later
<1>3. QED
  BY <1>1, <1>2, FS_EmptySet

LEMMA RingsLogged ==
  ASSUME Sound, NEW s \in Asked
  PROVE  /\ InRings(s) \subseteq Logged /\ Logged \subseteq Entry
         /\ \A r \in 1 .. Rings(s) : Elems(Ring(At(s, r))) \subseteq InRings(s)
<1>1. ASSUME NEW x \in InRings(s) PROVE x \in Logged
  <2>1. PICK r \in 1 .. Rings(s) : x \in Elems(Ring(At(s, r)))
    BY InRingsIs
  <2>2. PICK i \in Sources : i = At(s, r)
    BY <2>1, RingsAre
  <2>3. x \in Elems(logged[i])
    BY <2>1, <2>2, RingFacts
  <2>4. QED
    BY <2>3 DEF Logged
<1>2. QED
  BY <1>1, LoggedIs, InRingsIs

LEMMA InOneRing ==
  ASSUME Sound, NEW s \in Asked, s # 0, NEW x \in InRings(s)
  PROVE  x.src = At(s, 1)
<1>1. PICK r \in 1 .. Rings(s) : x \in Elems(Ring(At(s, r)))
  BY InRingsIs
<1>2. Rings(s) = 1 /\ r = 1 /\ At(s, 1) \in Sources
  BY RingsAre
<1>3. PICK i \in Sources : i = At(s, 1) /\ x \in Elems(Ring(i))
  BY <1>1, <1>2
<1>4. Len(Ring(i)) = RingLen(i) /\ \A k \in 1 .. RingLen(i) : Ring(i)[k].src = i
  BY RingIs, RingFacts
<1>5. QED
  BY <1>3, <1>4 DEF Elems

\* What the condition of an entry gives.
LEMMA GoodIs ==
  ASSUME Sound, NEW s, NEW x \in Logged, Good(s, x)
  PROVE  /\ Rank(s, x) \in Int /\ Steady(s, Rank(s, x))
         /\ \A y \in Logged : Rank(s, y) = Rank(s, x) /\ (s # 0 => y.src = x.src) => y = x
<1>1. Rank(s, x) \in Int
  BY LoggedIs
<1>2. CASE s # 0
  <2>1. Steady(s, Rank(s, x))
    <3>1. logged \in [Sources -> Seq(Entry)]
      BY DEF Sound, TypeOK
    <3>2. \A i \in Sources : \A k \in 1 .. Len(logged[i]) : logged[i][k].id = k
      BY DEF Sound, Logs
    <3>3. QED
      BY <1>1, <1>2, <3>1, <3>2, OneIsSteady DEF Steady
  <2>2. ASSUME NEW y \in Logged, Rank(s, y) = Rank(s, x), y.src = x.src PROVE y = x
    <3>1. y.id = x.id
      BY <1>2, <2>2 DEF Rank
    <3>2. QED
      BY <2>2, <3>1, LoggedIs
  <2>3. QED
    BY <1>1, <1>2, <2>1, <2>2
<1>3. CASE s = 0
  <2>1. Undisturbed(x) /\ Rank(s, x) = x.ts /\ \A y : Rank(s, y) = y.ts
    BY <1>3 DEF Good, Rank
  <2>2. QED
    BY <1>1, <1>3, <2>1 DEF Undisturbed, Steady
<1>4. QED
  BY <1>2, <1>3

\* An entry that meets it after a line is logged has met it before.
LEMMA GoodBefore ==
  ASSUME Sound, NEW i \in Sources, NEW ts \in Nat, AppendEntry(i, ts),
         NEW s, NEW x \in Logged, Good(s, x)'
  PROVE  /\ Rank(s, x) \in Int /\ Steady(s, Rank(s, x))'
         /\ Good(s, x)
<1>1. Rank(s, x) \in Int
  BY LoggedIs
<1>2. CASE s # 0
  <2>1. logged' \in [Sources -> Seq(Entry)] /\ Logs'
    BY AppendSound
  <2>2. \A j \in Sources : \A k \in 1 .. Len(logged'[j]) : logged'[j][k].id = k
    BY <2>1 DEF Logs
  <2>3. Steady(s, Rank(s, x))'
    <3>1. \A j \in Sources : \A k, l \in 1 .. Len(logged'[j]) :
            k < l /\ Rank(s, x) < Rank(s, logged'[j][k]) =>
              Rank(s, x) < Rank(s, logged'[j][l])
      BY <1>1, <1>2, <2>1, <2>2, OneIsSteady
    <3>2. QED
      BY <3>1 DEF Steady, Rank
  <2>4. QED
    BY <1>1, <1>2, <2>3 DEF Good
<1>3. CASE s = 0
  <2>1. Undisturbed(x)' /\ Rank(s, x) = x.ts
    BY <1>3 DEF Good, Rank
  <2>2. Steady(s, Rank(s, x))'
    BY <1>3, <2>1 DEF Undisturbed, Steady, Rank
  <2>3. Steady(s, Rank(s, x))
    BY <2>2, SteadyBefore
  <2>4. \A y \in Logged : y.ts = x.ts => y = x
    BY <2>1, Appended DEF Undisturbed
  <2>5. Undisturbed(x)
    BY <1>3, <2>1, <2>3, <2>4 DEF Undisturbed, Steady, Rank
  <2>6. QED
    BY <1>1, <2>2, <2>5 DEF Good
<1>4. QED
  BY <1>2, <1>3

LEMMA NoWalkOK == ASSUME Sound PROVE WalkOK(NoWalk)
<1>1. 0 \in Asked /\ Rings(0) \in Nat
  BY RingsAre DEF Asked
<1>2. /\ NoWalk.stage = "none" /\ NoWalk.source = 0 /\ NoWalk.read = 0 /\ NoWalk.got = <<>>
      /\ NoWalk.present = {}
  BY DEF NoWalk
<1>3. NoWalk \in Walks
  BY <1>1, EmptyResult DEF NoWalk, Walks
<1>4. WalkTyped(NoWalk)
  BY <1>1, <1>2, <1>3, EmptyResult DEF WalkTyped
<1>5. GotHas(NoWalk) /\ GotFrom(NoWalk) /\ GotInOrder(NoWalk)
  BY <1>2, EmptyResult DEF GotHas, GotFrom, GotInOrder
<1>6. Counted(NoWalk) /\ NotSkipped(NoWalk) /\ Still(NoWalk) /\ End(NoWalk)
  BY <1>2 DEF Counted, NotSkipped, Still, End
<1>7. QED
  BY <1>4, <1>5, <1>6 DEF WalkOK

LEMMA StartOK ==
  ASSUME Sound, NEW s \in Asked
  PROVE  WalkOK([NoWalk EXCEPT !.stage = "walking", !.source = s, !.present = InRings(s)])
<1> DEFINE w == [NoWalk EXCEPT !.stage = "walking", !.source = s, !.present = InRings(s)]
<1>1. /\ w.stage = "walking" /\ w.source = s /\ w.offset = 0 /\ w.read = 0 /\ w.got = <<>>
      /\ w.rows = <<>> /\ w.present = InRings(s) /\ w.quiet = TRUE
  BY DEF NoWalk
<1>2. w \in Walks
  <2>1. InRings(s) \in SUBSET Entry
    BY RingsLogged
  <2>2. QED
    BY <2>1, EmptyResult DEF NoWalk, Walks
<1> HIDE DEF w
<1>3. WalkTyped(w)
  <2>1. Rings(s) \in Nat
    BY RingsAre
  <2>2. QED
    BY <1>1, <1>2, <2>1, RingsLogged, EmptyResult DEF WalkTyped
<1>4. GotHas(w) /\ GotFrom(w) /\ GotInOrder(w)
  BY <1>1, EmptyResult DEF GotHas, GotFrom, GotInOrder
<1>5. ASSUME NEW t PROVE Count(w, t) = Cardinality(Above(s, t, 0)) /\ Count(w, t) \in Nat
  <2>1. Cardinality(Later(<<>>, s, t)) = 0 /\ Cardinality(Above(s, t, 0)) \in Nat
    BY EmptyResult, AboveFinite
  <2>2. QED
    BY <1>1, <2>1 DEF Count
<1>6. Counted(w)
  BY <1>1, <1>5 DEF Counted
<1>7. NotSkipped(w)
  BY <1>1, <1>5 DEF NotSkipped
<1>8. Still(w) /\ End(w)
  BY <1>1, EmptyResult DEF Still, End
<1>9. QED
  BY <1>3, <1>4, <1>6, <1>7, <1>8 DEF WalkOK, w

LEMMA ReadOK ==
  ASSUME Sound, NEW w, WalkOK(w), w.stage = "walking", w.read < Rings(w.source)
  PROVE  WalkOK([w EXCEPT !.read = @ + 1, !.got = @ \o Ring(At(w.source, w.read + 1))])
<1>0. /\ w \in Walks /\ w.source \in Asked /\ w.read \in Nat /\ w.got \in Seq(Entry)
      /\ Rings(w.source) \in Nat
  BY RingsAre DEF WalkOK, WalkTyped, Walks
<1>1. PICK s \in Asked, r \in Nat, got \in Seq(Entry) :
        s = w.source /\ r = w.read /\ got = w.got
  BY <1>0
<1>2. r + 1 \in 1 .. Rings(s) /\ Rings(s) \in Nat /\ r < Rings(s)
  BY <1>0, <1>1
<1>3. PICK i \in Sources : i = At(s, r + 1)
  BY <1>2, RingsAre
<1>4. PICK ring \in Seq(Entry) : ring = Ring(i)
  BY RingIs
<1> DEFINE all == got \o ring
           v == [w EXCEPT !.read = @ + 1, !.got = @ \o Ring(At(w.source, w.read + 1))]
<1>5. /\ v.stage = "walking" /\ v.source = s /\ v.offset = w.offset /\ v.read = r + 1
      /\ v.got = all /\ v.sorted = w.sorted /\ v.rows = w.rows
      /\ v.present = w.present /\ v.quiet = w.quiet
  BY <1>0, <1>1, <1>3, <1>4 DEF Walks
<1>6. v \in Walks
  <2>1. all \in Seq(Entry) /\ r + 1 \in Nat
    OBVIOUS
  <2>2. v = [w EXCEPT !.read = r + 1, !.got = all]
    BY <1>1, <1>3, <1>4
  <2> HIDE DEF all, v
  <2>3. QED
    BY <1>0, <2>1, <2>2 DEF Walks
<1>7. /\ Elems(all) = Elems(got) \cup Elems(ring)
      /\ \A k \in 1 .. Len(got) : all[k] = got[k]
      /\ \A k \in 1 .. Len(ring) : all[Len(got) + k] = ring[k]
      /\ Len(all) = Len(got) + Len(ring) /\ Len(got) \in Nat /\ Len(ring) \in Nat
  <2>1. Len(all) = Len(got) + Len(ring) /\ Len(got) \in Nat /\ Len(ring) \in Nat
    BY ConcatProperties
  <2>2. /\ \A k \in 1 .. Len(got) : k \in 1 .. Len(all) /\ all[k] = got[k]
        /\ \A k \in 1 .. Len(ring) : Len(got) + k \in 1 .. Len(all) /\ all[Len(got) + k] = ring[k]
    BY <2>1
  <2> HIDE DEF all
  <2>3. ASSUME NEW k \in 1 .. Len(all) PROVE all[k] \in Elems(got) \cup Elems(ring)
    <3>1. CASE k \in 1 .. Len(got)
      BY <2>2, <3>1 DEF Elems
    <3>2. CASE k \notin 1 .. Len(got)
      <4>1. k - Len(got) \in 1 .. Len(ring) /\ Len(got) + (k - Len(got)) = k
        BY <2>1, <3>2
      <4>2. all[k] = ring[k - Len(got)]
        BY <2>2, <4>1
      <4>3. QED
        BY <4>1, <4>2 DEF Elems
    <3>3. QED
      BY <3>1, <3>2
  <2>4. Elems(got) \subseteq Elems(all)
    BY <2>2 DEF Elems
  <2>5. Elems(ring) \subseteq Elems(all)
    BY <2>2 DEF Elems
  <2>6. Elems(all) \subseteq Elems(got) \cup Elems(ring)
    BY <2>3 DEF Elems
  <2>7. QED
    BY <2>1, <2>2, <2>4, <2>5, <2>6
<1>8. /\ s # 0 => Ascending(ring, s)
      /\ Once(ring) /\ Elems(ring) \subseteq InRings(s) /\ InRings(s) \subseteq Logged
      /\ \A x \in Elems(ring) : x.src = i
  <2>1. /\ s # 0 => Ascending(ring, s)
        /\ Once(ring) /\ Len(ring) = RingLen(i) /\ \A k \in 1 .. RingLen(i) : ring[k].src = i
    BY <1>4, RingFacts, RingIs
  <2>2. Elems(ring) \subseteq InRings(s) /\ InRings(s) \subseteq Logged
    BY <1>2, <1>3, <1>4, RingsLogged
  <2>3. QED
    BY <2>1, <2>2 DEF Elems
<1> HIDE DEF v, all
<1>9. WalkTyped(v)
  <2>1. Elems(got) \subseteq Logged /\ w.present \subseteq Logged
    BY <1>1 DEF WalkOK, WalkTyped
  <2>2. v.read <= Rings(v.source) /\ v.read # 0
    BY <1>2, <1>5
  <2>3. QED
    BY <1>5, <1>6, <1>7, <1>8, <2>1, <2>2 DEF WalkTyped
<1>10. \A q \in 1 .. r + 1 : q \in 1 .. r \/ q = r + 1
  OBVIOUS
<1>11. GotHas(v)
  <2>1. ASSUME NEW q \in 1 .. r + 1
        PROVE  w.present \cap Elems(Ring(At(s, q))) \subseteq Elems(all)
    <3>1. CASE q \in 1 .. r
      BY <1>1, <1>7, <3>1 DEF WalkOK, GotHas
    <3>2. CASE q = r + 1
      BY <1>3, <1>4, <1>7, <3>2
    <3>3. QED
      BY <1>10, <3>1, <3>2
  <2>2. QED
    BY <1>5, <2>1 DEF GotHas
<1>12. GotFrom(v)
  <2>1. ASSUME NEW x \in Elems(got) PROVE \E q \in 1 .. r + 1 : x.src = At(s, q)
    <3>1. PICK q \in 1 .. r : x.src = At(s, q)
      BY <1>1 DEF WalkOK, GotFrom
    <3>2. q \in 1 .. r + 1
      OBVIOUS
    <3>3. QED
      BY <3>1, <3>2
  <2>2. ASSUME NEW x \in Elems(ring) PROVE \E q \in 1 .. r + 1 : x.src = At(s, q)
    <3>1. r + 1 \in 1 .. r + 1
      OBVIOUS
    <3>2. QED
      BY <1>3, <1>8, <3>1
  <2>3. QED
    BY <1>5, <1>7, <2>1, <2>2 DEF GotFrom
<1>13. s # 0 => r = 0 /\ all = ring
  <2>1. SUFFICES ASSUME s # 0 PROVE r = 0 /\ all = ring
    OBVIOUS
  <2>2. Rings(s) = 1
    BY <2>1, RingsAre
  <2>3. r = 0
    BY <1>2, <2>2
  <2>4. got = <<>>
    BY <1>1, <2>3 DEF WalkOK, WalkTyped
  <2>5. QED
    BY <2>3, <2>4 DEF all
<1>14. GotInOrder(v)
  BY <1>5, <1>8, <1>13 DEF GotInOrder
<1>15. ASSUME NEW t PROVE Count(v, t) = Count(w, t)
  <2>1. Cardinality(Later(all, s, t)) =
          Cardinality(Later(got, s, t)) + Cardinality(Later(ring, s, t))
    BY LaterConcat DEF all
  <2>2. Cardinality(Above(s, t, r)) =
          Cardinality(Above(s, t, r + 1)) + Cardinality(Later(ring, s, t))
    BY <1>2, <1>3, <1>4, AboveStep
  <2>3. /\ Cardinality(Later(got, s, t)) \in Nat /\ Cardinality(Later(ring, s, t)) \in Nat
        /\ Cardinality(Above(s, t, r + 1)) \in Nat
    BY LaterFinite, AboveFinite
  <2>4. QED
    BY <1>1, <1>5, <2>1, <2>2, <2>3 DEF Count
<1>16. Counted(v)
  BY <1>1, <1>5, <1>15 DEF WalkOK, Counted
<1>17. NotSkipped(v)
  BY <1>1, <1>5, <1>15 DEF WalkOK, NotSkipped
<1>18. Still(v) /\ End(v)
  <2>1. SUFFICES ASSUME w.quiet PROVE Still(v)
    BY <1>5 DEF Still, End
  <2>2. /\ w.present = InRings(s) /\ Elems(got) \subseteq w.present
        /\ DistinctNames => Once(got)
        /\ w.offset = 0 => w.rows = <<>>
        /\ w.offset # 0 => w.rows = Page(Result(w), w.offset, 0) /\ Complete(w, Result(w))
    BY <1>1, <2>1 DEF WalkOK, Still
  <2>3. ASSUME DistinctNames, NEW k \in 1 .. Len(got), NEW l \in 1 .. Len(ring)
        PROVE  got[k] # ring[l]
    <3>1. got[k] \in Elems(got) /\ ring[l] \in Elems(ring)
      BY DEF Elems
    <3>2. PICK q \in 1 .. r : got[k].src = At(s, q)
      BY <1>1, <3>1 DEF WalkOK, GotFrom
    <3>3. q \in 1 .. Rings(s) /\ q # r + 1
      BY <1>2
    <3>4. QED
      BY <1>2, <1>3, <1>8, <2>3, <3>1, <3>2, <3>3, RingsAre
  <2>4. ASSUME DistinctNames PROVE Once(all)
    <3>1. \A h \in 1 .. Len(all) : \/ h \in 1 .. Len(got) /\ all[h] = got[h]
                                   \/ /\ h \notin 1 .. Len(got)
                                      /\ h - Len(got) \in 1 .. Len(ring)
                                      /\ all[h] = ring[h - Len(got)]
      <4>1. ASSUME NEW h \in 1 .. Len(all), h \notin 1 .. Len(got)
            PROVE  h - Len(got) \in 1 .. Len(ring) /\ all[h] = ring[h - Len(got)]
        <5>1. h - Len(got) \in 1 .. Len(ring) /\ Len(got) + (h - Len(got)) = h
          BY <1>7, <4>1
        <5>2. QED
          BY <1>7, <5>1
      <4>2. QED
        BY <1>7, <4>1
    <3>2. ASSUME NEW k \in 1 .. Len(all), NEW l \in 1 .. Len(all), all[k] = all[l]
          PROVE  k = l
      <4>1. CASE k \in 1 .. Len(got) /\ l \in 1 .. Len(got)
        BY <1>7, <2>2, <2>4, <3>2, <4>1 DEF Once
      <4>2. CASE (k \in 1 .. Len(got)) # (l \in 1 .. Len(got))
        BY <2>3, <2>4, <3>1, <3>2, <4>2
      <4>3. CASE k \notin 1 .. Len(got) /\ l \notin 1 .. Len(got)
        <5>1. /\ k - Len(got) \in 1 .. Len(ring) /\ l - Len(got) \in 1 .. Len(ring)
              /\ ring[k - Len(got)] = ring[l - Len(got)]
          BY <3>1, <3>2, <4>3
        <5>2. k - Len(got) = l - Len(got)
          BY <1>8, <5>1 DEF Once
        <5>3. QED
          BY <1>7, <5>2
      <4>4. QED
        BY <4>1, <4>2, <4>3
    <3>3. QED
      BY <3>2 DEF Once
  <2>5. Elems(all) \subseteq w.present
    BY <1>7, <1>8, <2>2
  <2>6. s # 0 /\ r + 1 = 1 => all = Ring(At(s, 1))
    BY <1>3, <1>4, <1>13
  <2>7. Result(v) = Result(w) /\ (Complete(w, Result(w)) => Complete(v, Result(w)))
    BY <1>1, <1>5 DEF Result, Complete
  <2>8. QED
    BY <1>1, <1>5, <2>2, <2>4, <2>5, <2>6, <2>7 DEF Still
<1>19. QED
  BY <1>9, <1>11, <1>12, <1>14, <1>16, <1>17, <1>18 DEF WalkOK, v

LEMMA ConcatElems ==
  ASSUME NEW a \in Seq(Entry), NEW b \in Seq(Entry)
  PROVE  a \o b \in Seq(Entry) /\ Elems(a \o b) = Elems(a) \cup Elems(b)
<1> DEFINE c == a \o b
           n == Len(a)
           m == Len(b)
<1>1. n \in Nat /\ m \in Nat /\ c \in Seq(Entry) /\ Len(c) = n + m
  BY ConcatProperties
<1>2. /\ \A k \in 1 .. n : k \in 1 .. Len(c) /\ c[k] = a[k]
      /\ \A k \in 1 .. m : n + k \in 1 .. Len(c) /\ c[n + k] = b[k]
  BY <1>1
<1> HIDE DEF c
<1>3. \A k \in 1 .. Len(c) : \/ k \in 1 .. n /\ c[k] = a[k]
                             \/ k - n \in 1 .. m /\ c[k] = b[k - n]
  <2>1. ASSUME NEW k \in 1 .. Len(c), k \notin 1 .. n
        PROVE  k - n \in 1 .. m /\ c[k] = b[k - n]
    <3>1. k - n \in 1 .. m /\ n + (k - n) = k
      BY <1>1, <2>1
    <3>2. QED
      BY <1>2, <3>1
  <2>2. QED
    BY <1>2, <2>1
<1>4. Elems(c) \subseteq Elems(a) \cup Elems(b)
  BY <1>3 DEF Elems
<1>5. Elems(a) \subseteq Elems(c) /\ Elems(b) \subseteq Elems(c)
  BY <1>2 DEF Elems
<1>6. QED
  BY <1>1, <1>4, <1>5 DEF c

\* Where an entry is in a complete result, counted from the newest.
LEMMA PlaceOfGood ==
  ASSUME Sound, NEW w, NEW all, Complete(w, all), NEW x \in Elems(all), Good(w.source, x)
  PROVE  LET a == Cardinality(Later(all, w.source, Rank(w.source, x)))
         IN  a \in Nat /\ a < Len(all) /\ all[Len(all) - a] = x
<1> DEFINE s == w.source
           a == Cardinality(Later(all, s, Rank(s, x)))
<1>1. /\ all \in Seq(Entry) /\ Len(all) \in Nat /\ Ascending(all, s) /\ Elems(all) \subseteq Logged
      /\ s # 0 => \A y \in Elems(all) : y.src = At(s, 1)
  BY DEF Complete
<1>2. a \in 0 .. Len(all) - 1 /\ Rank(s, all[Len(all) - a]) = Rank(s, x)
  BY <1>1, PlaceFromEnd
<1> HIDE DEF a
<1>3. a \in Nat /\ a < Len(all) /\ Len(all) - a \in 1 .. Len(all)
  BY <1>1, <1>2
<1>4. all[Len(all) - a] \in Elems(all)
  BY <1>3 DEF Elems
<1>5. all[Len(all) - a] = x
  BY <1>1, <1>2, <1>4, GoodIs
<1>6. QED
  BY <1>3, <1>5 DEF a

CollectedOf(w) ==
  IF w.source # 0 THEN {w.got}
  ELSE IF w.quiet /\ w.offset > 0 THEN {w.sorted}
  ELSE Orders(w.got)

\* A request that collects what it has got, in order.
LEMMA OrderedIs ==
  ASSUME Sound, NEW w, WalkOK(w), w.stage = "walking", w.read = Rings(w.source),
         NEW all \in (IF w.source # 0 THEN {w.got} ELSE Orders(w.got))
  PROVE  /\ Complete(w, all)
         /\ \A t : Cardinality(Later(all, w.source, t)) = Count(w, t)
<1>1. PICK s \in Asked, got \in Seq(Entry) : s = w.source /\ got = w.got
  BY DEF WalkOK, WalkTyped, Walks
<1>2. /\ all \in Seq(Entry) /\ Elems(all) = Elems(got)
      /\ Ascending(all, s) /\ (Once(got) => Once(all))
      /\ \A t : Cardinality(Later(all, s, t)) = Cardinality(Later(got, s, t))
  <2>1. CASE s = 0
    BY <1>1, <2>1, OrdersAre
  <2>2. CASE s # 0
    <3>1. all = got
      BY <1>1, <2>2
    <3>2. QED
      BY <1>1, <2>2, <3>1 DEF WalkOK, GotInOrder
  <2>3. QED
    BY <2>1, <2>2
<1>3. ASSUME NEW t PROVE Cardinality(Later(all, s, t)) = Count(w, t)
  <2>1. Cardinality(Above(s, t, Rings(s))) = 0 /\ Cardinality(Later(got, s, t)) \in Nat
    BY NoneAbove, LaterFinite
  <2>2. QED
    BY <1>1, <1>2, <2>1 DEF Count
<1>4. ASSUME NEW x \in w.present \cap InRings(s) PROVE x \in Elems(got)
  <2>1. PICK r \in 1 .. Rings(s) : x \in Elems(Ring(At(s, r)))
    BY InRingsIs
  <2>2. QED
    BY <1>1, <2>1 DEF WalkOK, GotHas
<1>5. ASSUME s # 0, NEW x \in Elems(got) PROVE x.src = At(s, 1)
  <2>1. PICK r \in 1 .. w.read : x.src = At(s, r)
    BY <1>1, <1>5 DEF WalkOK, GotFrom
  <2>2. w.read = 1
    BY <1>1, <1>5, RingsAre
  <2>3. r = 1
    BY <2>2
  <2>4. QED
    BY <2>1, <2>3
<1>6. \A t \in Int : Steady(s, t) => Cardinality(Later(all, s, t)) <= Cardinality(Above(s, t, 0))
  BY <1>1, <1>3 DEF WalkOK, Counted
<1>7. w.quiet => Elems(all) = w.present /\ (DistinctNames => Once(all))
  <2>1. SUFFICES ASSUME w.quiet PROVE Elems(all) = w.present /\ (DistinctNames => Once(all))
    OBVIOUS
  <2>2. w.present = InRings(s) /\ Elems(got) \subseteq w.present /\ (DistinctNames => Once(got))
    BY <1>1, <2>1 DEF WalkOK, Still
  <2>3. w.present \subseteq Elems(got)
    BY <1>4, <2>2
  <2>4. QED
    BY <1>2, <2>2, <2>3
<1>8. Elems(got) \subseteq Logged
  BY <1>1 DEF WalkOK, WalkTyped
<1>9. Complete(w, all)
  BY <1>1, <1>2, <1>4, <1>5, <1>6, <1>7, <1>8 DEF Complete
<1>10. QED
  BY <1>1, <1>3, <1>9

\* Whatever the request collects: an entry has its row, or its place is beyond them;
\* and while nothing is logged, the rows are the first of this very result.
LEMMA CollectedIs ==
  ASSUME Sound, NEW w, WalkOK(w), w.stage = "walking", w.read = Rings(w.source),
         NEW all \in CollectedOf(w)
  PROVE  /\ Complete(w, all)
         /\ \A x \in w.present \cap InRings(w.source) : Good(w.source, x) =>
              \/ x \in Elems(w.rows)
              \/ w.offset <= Cardinality(Later(all, w.source, Rank(w.source, x)))
         /\ w.quiet => /\ w.offset = 0 => w.rows = <<>>
                       /\ w.offset # 0 => w.rows = Page(all, w.offset, 0)
                       /\ w.source # 0 => all = Ring(At(w.source, 1))
<1>0. w.source \in Asked /\ w.offset \in Nat /\ w.present \subseteq Logged
  BY DEF WalkOK, WalkTyped, Walks
<1>1. CASE w.source = 0 /\ w.quiet /\ w.offset > 0
  <2>1. all = w.sorted /\ all = Result(w)
    BY <1>1 DEF CollectedOf, Result
  <2>2. w.rows = Page(all, w.offset, 0) /\ Complete(w, all)
    BY <1>0, <1>1, <2>1 DEF WalkOK, Still
  <2>3. ASSUME NEW x \in w.present \cap InRings(w.source), Good(w.source, x)
        PROVE  \/ x \in Elems(w.rows)
               \/ w.offset <= Cardinality(Later(all, w.source, Rank(w.source, x)))
    <3> DEFINE a == Cardinality(Later(all, w.source, Rank(w.source, x)))
    <3>1. x \in Elems(all) /\ all \in Seq(Entry)
      BY <2>2 DEF Complete
    <3>2. a \in Nat /\ a < Len(all) /\ all[Len(all) - a] = x
      BY <2>2, <2>3, <3>1, PlaceOfGood
    <3> HIDE DEF a
    <3>3. PICK limit \in Nat \ {0} : limit = w.offset
      BY <1>0, <1>1
    <3>4. a < limit => x \in Elems(Page(all, limit, 0))
      <4>1. \A d \in Nat : d < Len(all) /\ 0 <= d /\ d < 0 + limit =>
              all[Len(all) - d] \in Elems(Page(all, limit, 0))
        BY <3>1, PageHolds
      <4>2. QED
        BY <3>2, <4>1
    <3>5. QED
      BY <2>2, <3>2, <3>3, <3>4 DEF a
  <2>4. QED
    BY <1>1, <2>2, <2>3
<1>2. CASE ~ (w.source = 0 /\ w.quiet /\ w.offset > 0)
  <2>1. all \in (IF w.source # 0 THEN {w.got} ELSE Orders(w.got))
    BY <1>2 DEF CollectedOf
  <2>2. Complete(w, all) /\ \A t : Cardinality(Later(all, w.source, t)) = Count(w, t)
    BY <2>1, OrderedIs
  <2>3. \A x \in w.present \cap InRings(w.source) : Good(w.source, x) =>
          \/ x \in Elems(w.rows)
          \/ w.offset <= Cardinality(Later(all, w.source, Rank(w.source, x)))
    BY <2>2 DEF WalkOK, NotSkipped
  <2>4. ASSUME w.quiet, w.source # 0 PROVE all = Ring(At(w.source, 1))
    <3>1. all = w.got /\ w.read = 1
      BY <1>0, <2>1, <2>4, RingsAre
    <3>2. QED
      BY <2>4, <3>1 DEF WalkOK, Still
  <2>5. ASSUME w.quiet PROVE w.offset = 0 => w.rows = <<>>
    BY <2>5 DEF WalkOK, Still
  <2>6. ASSUME w.quiet, w.offset # 0 PROVE w.rows = Page(all, w.offset, 0)
    <3>1. w.source # 0
      BY <1>0, <1>2, <2>6
    <3>2. Result(w) = all
      BY <2>4, <2>6, <3>1 DEF Result
    <3>3. QED
      BY <2>6, <3>2 DEF WalkOK, Still
  <2>7. QED
    BY <2>2, <2>3, <2>4, <2>5, <2>6
<1>3. QED
  BY <1>1, <1>2

\* The page is empty: what is good has its row, and if nothing was logged the rows
\* are all there is.
LEMMA OverOK ==
  ASSUME Sound, NEW w, WalkOK(w), w.stage = "walking", w.read = Rings(w.source),
         NEW all \in CollectedOf(w), Page(all, PageSize, w.offset) = <<>>
  PROVE  WalkOK([NoWalk EXCEPT !.stage = "over", !.source = w.source,
                   !.rows = w.rows, !.present = w.present, !.quiet = w.quiet])
<1> DEFINE v == [NoWalk EXCEPT !.stage = "over", !.source = w.source,
                   !.rows = w.rows, !.present = w.present, !.quiet = w.quiet]
<1>1. /\ w.source \in Asked /\ w.rows \in Seq(Entry) /\ w.offset \in Nat
      /\ w.present \subseteq Logged /\ w.present \in SUBSET Entry /\ w.quiet \in BOOLEAN
      /\ PageSize \in Nat \ {0}
  BY Constants DEF WalkOK, WalkTyped, Walks
<1>2. /\ v.stage = "over" /\ v.source = w.source /\ v.read = 0 /\ v.got = <<>>
      /\ v.rows = w.rows /\ v.present = w.present /\ v.quiet = w.quiet
  BY DEF NoWalk
<1>3. v \in Walks
  BY <1>1, EmptyResult DEF NoWalk, Walks
<1> HIDE DEF v
<1>4. /\ Complete(w, all)
      /\ \A x \in w.present \cap InRings(w.source) : Good(w.source, x) =>
           \/ x \in Elems(w.rows)
           \/ w.offset <= Cardinality(Later(all, w.source, Rank(w.source, x)))
      /\ w.quiet => /\ w.offset = 0 => w.rows = <<>>
                    /\ w.offset # 0 => w.rows = Page(all, w.offset, 0)
  BY CollectedIs
<1>5. all \in Seq(Entry) /\ Len(all) \in Nat
  BY <1>4 DEF Complete
<1>6. w.offset >= Len(all)
  BY <1>1, <1>5, PageHolds
<1>7. WalkTyped(v) /\ GotHas(v) /\ GotFrom(v) /\ GotInOrder(v)
  <2>1. Rings(w.source) \in Nat
    BY <1>1, RingsAre
  <2>2. Elems(v.got) = {} /\ Ascending(v.got, v.source) /\ \A r : r \notin 1 .. v.read
    BY <1>2, EmptyResult
  <2>3. QED
    BY <1>1, <1>2, <1>3, <2>1, <2>2 DEF WalkTyped, GotHas, GotFrom, GotInOrder
<1>8. NotSkipped(v)
  <2>1. ASSUME NEW x \in w.present \cap InRings(w.source), Good(w.source, x)
        PROVE  x \in Elems(w.rows)
    <3>1. x \in Elems(all)
      BY <1>4 DEF Complete
    <3>2. PICK a \in Nat : /\ a = Cardinality(Later(all, w.source, Rank(w.source, x)))
                           /\ a < Len(all)
      BY <1>4, <2>1, <3>1, PlaceOfGood
    <3>3. ~ (w.offset <= a)
      BY <1>1, <1>5, <1>6, <3>2
    <3>4. QED
      BY <1>4, <2>1, <3>2, <3>3
  <2>2. QED
    BY <1>2, <2>1 DEF NotSkipped
<1>9. Counted(v) /\ Still(v)
  BY <1>2 DEF WalkOK, Counted, Still
<1>10. End(v)
  <2>1. SUFFICES ASSUME w.quiet, DistinctNames
                 PROVE  /\ Elems(w.rows) = w.present /\ Once(w.rows)
                        /\ \A k, l \in 1 .. Len(w.rows) :
                             k < l => Rank(w.source, w.rows[l]) <= Rank(w.source, w.rows[k])
    BY <1>2 DEF End
  <2>2. Elems(all) = w.present /\ Once(all) /\ Ascending(all, w.source)
    BY <1>4, <2>1 DEF Complete
  <2>3. CASE w.offset = 0
    <3>1. w.rows = <<>> /\ Len(all) = 0
      BY <1>4, <1>5, <1>6, <2>1, <2>3
    <3>2. Elems(all) = {}
      BY <3>1 DEF Elems
    <3>3. Elems(w.rows) = {} /\ Len(w.rows) = 0 /\ Once(w.rows)
      BY <3>1, EmptyResult
    <3>4. QED
      BY <2>2, <3>2, <3>3
  <2>4. CASE w.offset # 0
    <3>1. PICK limit \in Nat \ {0} : limit = w.offset
      BY <1>1, <2>4
    <3>2. limit >= Len(all) /\ w.rows = Page(all, limit, 0)
      BY <1>4, <1>6, <2>1, <2>4, <3>1
    <3>3. /\ Elems(w.rows) = Elems(all) /\ Once(w.rows)
          /\ \A k, l \in 1 .. Len(w.rows) :
               k < l => Rank(w.source, w.rows[l]) <= Rank(w.source, w.rows[k])
      BY <1>5, <2>2, <3>2, WholeIs
    <3>4. QED
      BY <2>2, <3>3
  <2>5. QED
    BY <2>3, <2>4
<1>11. QED
  BY <1>7, <1>8, <1>9, <1>10 DEF WalkOK, v

\* A page, and the next request.
LEMMA NextOK ==
  ASSUME Sound, NEW w, WalkOK(w), w.stage = "walking", w.read = Rings(w.source),
         NEW all \in CollectedOf(w)
  PROVE  WalkOK([w EXCEPT !.read = 0, !.got = <<>>,
                   !.rows = @ \o Page(all, PageSize, w.offset), !.offset = @ + PageSize,
                   !.sorted = IF w.quiet THEN all ELSE <<>>])
<1> DEFINE v == [w EXCEPT !.read = 0, !.got = <<>>,
                   !.rows = @ \o Page(all, PageSize, w.offset), !.offset = @ + PageSize,
                   !.sorted = IF w.quiet THEN all ELSE <<>>]
<1>1. /\ w \in Walks /\ w.source \in Asked /\ w.present \subseteq Logged
      /\ PageSize \in Nat \ {0}
  BY Constants DEF WalkOK, WalkTyped, Walks
<1>2. PICK s \in Asked, rows \in Seq(Entry), offset \in Nat :
        s = w.source /\ rows = w.rows /\ offset = w.offset
  BY <1>1 DEF Walks
<1>3. /\ Complete(w, all)
      /\ \A x \in w.present \cap InRings(s) : Good(s, x) =>
           x \in Elems(rows) \/ offset <= Cardinality(Later(all, s, Rank(s, x)))
      /\ w.quiet => /\ offset = 0 => rows = <<>>
                    /\ offset # 0 => rows = Page(all, offset, 0)
                    /\ s # 0 => all = Ring(At(s, 1))
  BY <1>2, CollectedIs
<1>4. all \in Seq(Entry) /\ Len(all) \in Nat
  BY <1>3 DEF Complete
<1>5. PICK page \in Seq(Entry) :
        /\ page = Page(all, PageSize, offset)
        /\ \A d \in Nat : d < Len(all) /\ offset <= d /\ d < offset + PageSize =>
             all[Len(all) - d] \in Elems(page)
  BY <1>1, <1>4, PageHolds
<1>6. PICK more \in Seq(Entry) : more = rows \o page /\ Elems(more) = Elems(rows) \cup Elems(page)
  BY ConcatElems
<1>7. /\ v.stage = "walking" /\ v.source = s /\ v.offset = offset + PageSize /\ v.read = 0
      /\ v.got = <<>> /\ v.rows = more /\ v.present = w.present /\ v.quiet = w.quiet
      /\ (w.quiet => v.sorted = all) /\ v \in Walks
  <2>1. PICK sorted \in Seq(Entry) : sorted = IF w.quiet THEN all ELSE <<>>
    BY <1>4, EmptyResult
  <2>2. v = [w EXCEPT !.read = 0, !.got = <<>>, !.rows = more, !.offset = offset + PageSize,
                      !.sorted = sorted]
    BY <1>2, <1>5, <1>6, <2>1
  <2>3. offset + PageSize \in Nat /\ <<>> \in Seq(Entry)
    BY <1>1, EmptyResult
  <2> HIDE DEF v
  <2>4. /\ v.stage = "walking" /\ v.source = s /\ v.offset = offset + PageSize /\ v.read = 0
        /\ v.got = <<>> /\ v.rows = more /\ v.present = w.present /\ v.quiet = w.quiet
        /\ v.sorted = sorted
    BY <1>1, <1>2, <2>2 DEF Walks
  <2>5. v \in Walks
    BY <1>1, <2>2, <2>3 DEF Walks
  <2>6. QED
    BY <2>1, <2>4, <2>5
<1> HIDE DEF v
<1>8. \A t : /\ Count(v, t) = Cardinality(Above(s, t, 0)) /\ Cardinality(Above(s, t, 0)) \in Nat
             /\ Cardinality(Later(all, s, t)) \in Nat
  <2> TAKE t
  <2>1. /\ Cardinality(Above(s, t, 0)) \in Nat /\ Cardinality(Later(<<>>, s, t)) = 0
        /\ Cardinality(Later(all, s, t)) \in Nat
    BY <1>4, AboveFinite, EmptyResult, LaterFinite
  <2>2. QED
    BY <1>7, <2>1 DEF Count
<1>9. WalkTyped(v) /\ GotHas(v) /\ GotFrom(v) /\ GotInOrder(v)
  <2>1. Rings(s) \in Nat
    BY RingsAre
  <2>2. Elems(v.got) = {} /\ Ascending(v.got, v.source) /\ \A r : r \notin 1 .. v.read
    BY <1>7, EmptyResult
  <2>3. QED
    BY <1>1, <1>7, <2>1, <2>2 DEF WalkTyped, GotHas, GotFrom, GotInOrder
<1>10. Counted(v)
  <2>1. ASSUME NEW t \in Int PROVE Count(v, t) <= Cardinality(Above(v.source, t, 0))
    <3>1. PICK n \in Nat : n = Cardinality(Above(s, t, 0))
      BY <1>8
    <3>2. Count(v, t) = n /\ Cardinality(Above(v.source, t, 0)) = n
      BY <1>7, <1>8, <3>1
    <3>3. QED
      BY <3>2
  <2>2. QED
    BY <2>1 DEF Counted
<1>11. NotSkipped(v)
  <2>1. ASSUME NEW x \in w.present \cap InRings(s), Good(s, x)
        PROVE  x \in Elems(more) \/ offset + PageSize <= Count(v, Rank(s, x))
    <3> DEFINE t == Rank(s, x)
               a == Cardinality(Later(all, s, t))
    <3>1. x \in Elems(all)
      BY <1>2, <1>3 DEF Complete
    <3>2. a \in Nat /\ a < Len(all) /\ all[Len(all) - a] = x
      BY <1>2, <1>3, <2>1, <3>1, PlaceOfGood
    <3>3. t \in Int /\ Steady(s, t)
      BY <1>1, <2>1, GoodIs
    <3>4. a <= Cardinality(Above(s, t, 0))
      BY <1>2, <1>3, <3>3 DEF Complete
    <3>5. x \in Elems(rows) \/ offset <= a
      BY <1>3, <2>1
    <3>6. Count(v, t) = Cardinality(Above(s, t, 0)) /\ Count(v, t) \in Nat
      BY <1>8
    <3> HIDE DEF a, t
    <3>7. offset <= a /\ a < offset + PageSize => x \in Elems(page)
      BY <1>5, <3>2
    <3>8. x \in Elems(more) \/ offset + PageSize <= a
      BY <1>1, <1>6, <3>2, <3>5, <3>7
    <3>9. offset + PageSize <= a => offset + PageSize <= Count(v, t)
      <4>1. PICK n \in Nat : n = Count(v, t) /\ a <= n
        BY <3>4, <3>6
      <4>2. QED
        BY <1>1, <3>2, <4>1
    <3>10. QED
      BY <3>8, <3>9 DEF t
  <2>2. QED
    BY <1>7, <2>1 DEF NotSkipped
<1>12. Still(v) /\ End(v)
  <2>1. SUFFICES ASSUME w.quiet PROVE Still(v)
    BY <1>7 DEF Still, End
  <2>2. w.present = InRings(s)
    BY <1>2, <2>1 DEF WalkOK, Still
  <2>3. Result(v) = all
    BY <1>3, <1>7, <2>1 DEF Result
  <2>4. Complete(v, all)
    BY <1>2, <1>3, <1>7 DEF Complete
  <2>5. more = Page(all, offset + PageSize, 0)
    <3>1. CASE offset = 0
      <4>1. more = page /\ offset + PageSize = PageSize
        BY <1>1, <1>3, <1>6, <2>1, <3>1
      <4>2. QED
        BY <1>5, <3>1, <4>1
    <3>2. CASE offset # 0
      <4>1. PICK limit \in Nat \ {0}, zero \in Nat :
              limit = offset /\ zero = 0 /\ zero + limit = offset
        BY <3>2
      <4>2. Page(all, limit, zero) \o Page(all, PageSize, zero + limit) =
              Page(all, limit + PageSize, zero)
        <5>1. /\ all \in Seq(Entry) /\ PageSize \in Nat \ {0}
              /\ limit \in Nat \ {0} /\ zero \in Nat
          BY <1>1, <1>4, <4>1
        <5>2. QED
          BY <5>1, EntryPagesJoin, ZenonT(60)
      <4>3. QED
        BY <1>3, <1>5, <1>6, <2>1, <3>2, <4>1, <4>2
    <3>3. QED
      BY <3>1, <3>2
  <2>6. offset + PageSize # 0
    BY <1>1
  <2>7. Elems(v.got) \subseteq v.present /\ Once(v.got) /\ v.read # 1
    BY <1>7, EmptyResult
  <2>8. QED
    BY <1>7, <2>2, <2>3, <2>4, <2>5, <2>6, <2>7 DEF Still
<1>13. QED
  BY <1>9, <1>10, <1>11, <1>12 DEF WalkOK, v

\* A line is logged meanwhile: what was counted is above still, and what is in the
\* rings and was there before has not been skipped.
LEMMA AppendOK ==
  ASSUME Sound, config' = config, NEW i \in Sources, NEW ts \in Nat,
         AppendEntry(i, ts), NEW w, WalkOK(w)
  PROVE  WalkOK([w EXCEPT !.quiet = FALSE, !.sorted = <<>>])'
<1>0. /\ w \in Walks /\ w.source \in Asked /\ w.read \in Nat /\ w.got \in Seq(Entry)
      /\ w.offset \in Nat /\ w.present \subseteq Logged
  BY DEF WalkOK, WalkTyped, Walks
<1>1. PICK v : v = [w EXCEPT !.quiet = FALSE, !.sorted = <<>>]
  OBVIOUS
<1>2. /\ v \in Walks /\ v.quiet = FALSE /\ v.stage = w.stage /\ v.source = w.source
      /\ v.offset = w.offset /\ v.read = w.read /\ v.got = w.got /\ v.rows = w.rows
      /\ v.present = w.present
  BY <1>0, <1>1, EmptyResult DEF Walks
<1>3. PICK s \in Asked, from \in Nat, got \in Seq(Entry), offset \in Nat :
        s = w.source /\ from = w.read /\ got = w.got /\ offset = w.offset
  BY <1>0
<1>4. Asked' = Asked /\ Rings(s)' = Rings(s) /\ \A r : At(s, r)' = At(s, r)
  BY SameConfig
<1>5. Logged \subseteq Logged'
  BY Appended
<1>6. ASSUME NEW t \in Int, Steady(s, t)'
      PROVE  /\ Steady(s, t)
             /\ Count(w, t) \in Nat /\ Count(v, t)' \in Nat /\ Count(w, t) <= Count(v, t)'
             /\ Count(w, t) <= Cardinality(Above(s, t, 0)) =>
                  Count(v, t)' <= Cardinality(Above(s, t, 0)')
  <2>1. PICK n \in Nat : n = Cardinality(Later(got, s, t))
    BY LaterFinite
  <2>2. PICK P, P2, Q, Q2 : /\ P = Above(s, t, from) /\ P2 = Above(s, t, from)'
                            /\ Q = Above(s, t, 0) /\ Q2 = Above(s, t, 0)'
    OBVIOUS
  <2>3. /\ IsFiniteSet(P2) /\ IsFiniteSet(Q2) /\ P \subseteq P2 /\ Q \subseteq Q2
        /\ P2 \ P \subseteq Q2 \ Q
    BY <1>6, <2>2, AppendAbove
  <2>4. Cardinality(P) \in Nat /\ Cardinality(P2) \in Nat /\ Cardinality(P) <= Cardinality(P2)
    BY <2>3, FS_Subset, FS_CardinalityType
  <2>5. Count(w, t) = n + Cardinality(P)
    BY <1>3, <2>1, <2>2 DEF Count
  <2>6. Count(v, t)' = n + Cardinality(P2)
    BY <1>2, <1>3, <2>1, <2>2 DEF Count
  <2>7. n + Cardinality(P) <= Cardinality(Q) => n + Cardinality(P2) <= Cardinality(Q2)
    BY <2>3, BothGrow
  <2>8. Steady(s, t)
    BY <1>6, SteadyBefore
  <2>9. QED
    BY <2>2, <2>4, <2>5, <2>6, <2>7, <2>8
<1>7. WalkTyped(v)'
  <2>1. v \in Walks'
    BY <1>2, <1>4 DEF Walks
  <2>2. v.read <= Rings(v.source)'
    BY <1>2, <1>3, <1>4 DEF WalkOK, WalkTyped
  <2>3. /\ v.present \subseteq Logged' /\ Elems(v.got) \subseteq Logged'
        /\ v.read = 0 => v.got = <<>>
    BY <1>2, <1>5 DEF WalkOK, WalkTyped
  <2>4. QED
    BY <2>1, <2>2, <2>3 DEF WalkTyped
<1>8. GotHas(v)'
  <2>1. SUFFICES ASSUME NEW r \in 1 .. v.read, NEW x \in v.present,
                        x \in Elems(Ring(At(v.source, r)))'
                 PROVE  x \in Elems(v.got)
    BY DEF GotHas
  <2>2. r \in 1 .. from /\ r \in 1 .. Rings(s)
    <3>1. from <= Rings(s) /\ Rings(s) \in Nat
      BY <1>3, RingsAre DEF WalkOK, WalkTyped
    <3>2. QED
      BY <1>2, <1>3, <3>1
  <2>3. x \in Logged /\ x \in Elems(Ring(At(s, r)))'
    BY <1>0, <1>2, <1>3, <2>1
  <2>4. x \in Elems(Ring(At(s, r)))
    BY <2>2, <2>3, AppendInRings
  <2>5. QED
    BY <1>2, <1>3, <2>2, <2>4 DEF WalkOK, GotHas
<1>9. GotFrom(v)' /\ GotInOrder(v)'
  <2>1. GotFrom(w) /\ GotInOrder(w)
    BY DEF WalkOK
  <2>2. \A x \in Elems(got) : \E r \in 1 .. from : x.src = At(s, r)
    BY <1>3, <2>1 DEF GotFrom
  <2>3. GotFrom(v)'
    BY <1>2, <1>3, <1>4, <2>2 DEF GotFrom
  <2>4. QED
    BY <1>2, <2>1, <2>3 DEF GotInOrder
<1>10. Counted(v)'
  <2>1. SUFFICES ASSUME w.stage = "walking", NEW t \in Int, Steady(s, t)'
                 PROVE  Count(v, t)' <= Cardinality(Above(v.source, t, 0)')
    BY <1>2, <1>3 DEF Counted
  <2>2. Count(w, t) <= Cardinality(Above(s, t, 0))
    BY <1>3, <1>6, <2>1 DEF WalkOK, Counted
  <2>3. QED
    BY <1>2, <1>3, <1>6, <2>1, <2>2
<1>11. NotSkipped(v)'
  <2>1. SUFFICES ASSUME NEW x \in v.present, x \in InRings(v.source)', Good(v.source, x)'
                 PROVE  /\ v.stage = "walking" =>
                             \/ x \in Elems(v.rows)
                             \/ v.offset <= Count(v, Rank(v.source, x))'
                        /\ v.stage = "over" => x \in Elems(v.rows)
    BY DEF NotSkipped
  <2>2. x \in Logged /\ x \in InRings(s)' /\ Good(s, x)'
    BY <1>0, <1>2, <1>3, <2>1
  <2>3. x \in InRings(s)
    BY <2>2, AppendInRings
  <2>4. Rank(s, x) \in Int /\ Steady(s, Rank(s, x))' /\ Good(s, x)
    BY <2>2, GoodBefore
  <2>5. /\ w.stage = "walking" => x \in Elems(w.rows) \/ offset <= Count(w, Rank(s, x))
        /\ w.stage = "over" => x \in Elems(w.rows)
    BY <1>2, <1>3, <2>1, <2>3, <2>4 DEF WalkOK, NotSkipped
  <2>6. offset <= Count(w, Rank(s, x)) => offset <= Count(v, Rank(s, x))'
    <3>1. PICK t \in Int : t = Rank(s, x) /\ Steady(s, t)'
      BY <2>4
    <3>2. PICK a \in Nat, b \in Nat : a = Count(w, t) /\ b = Count(v, t)' /\ a <= b
      BY <1>6, <3>1
    <3>3. Count(v, Rank(s, x))' = b
      BY <3>1, <3>2 DEF Rank
    <3>4. QED
      BY <3>1, <3>2, <3>3
  <2>7. QED
    BY <1>2, <1>3, <2>5, <2>6 DEF Rank
<1>12. Still(v)' /\ End(v)'
  BY <1>2 DEF Still, End
<1>13. QED
  BY <1>1, <1>7, <1>8, <1>9, <1>10, <1>11, <1>12 DEF WalkOK

LEMMA SameWalk ==
  ASSUME config' = config, logged' = logged, NEW w
  PROVE  WalkOK(w)' <=> WalkOK(w)
<1>1. /\ Asked' = Asked /\ Logged' = Logged /\ DistinctNames' = DistinctNames
      /\ \A s : Rings(s)' = Rings(s) /\ InRings(s)' = InRings(s)
      /\ \A s, r : At(s, r)' = At(s, r)
      /\ \A s, t, from : Above(s, t, from)' = Above(s, t, from)
  BY SameConfig, SameRings, SameAbove
<1>2. ASSUME NEW r PROVE Ring(At(w.source, r))' = Ring(At(w.source, r))
  <2>1. PICK i : i = At(w.source, r)
    OBVIOUS
  <2>2. Ring(At(w.source, r))' = Ring(i)' /\ Ring(i)' = Ring(i)
    BY <1>1, <2>1, SameRings
  <2>3. QED
    BY <2>1, <2>2
<1>3. \A t : Count(w, t)' = Count(w, t)
  BY <1>1 DEF Count, Later, Rank
<1>4. \A s, t : Steady(s, t)' <=> Steady(s, t)
  BY DEF Steady, Rank
<1>5. \A s, x : Good(s, x)' <=> Good(s, x)
  BY <1>1 DEF Good, Undisturbed
<1>6. Result(w)' = Result(w)
  BY <1>2 DEF Result
<1>7. \A all : Complete(w, all)' <=> Complete(w, all)
  BY <1>1, <1>4 DEF Complete, Ascending, Later, Rank, Once
<1>8. WalkTyped(w)' <=> WalkTyped(w)
  BY <1>1 DEF WalkTyped, Walks
<1>9. (GotHas(w)' <=> GotHas(w)) /\ (GotInOrder(w)' <=> GotInOrder(w))
  BY <1>2 DEF GotHas, GotInOrder, Elems
<1>10. GotFrom(w)' <=> GotFrom(w)
  BY <1>1 DEF GotFrom
<1>11. Counted(w)' <=> Counted(w)
  BY <1>1, <1>3, <1>4 DEF Counted
<1>12. NotSkipped(w)' <=> NotSkipped(w)
  BY <1>1, <1>3, <1>5 DEF NotSkipped, Rank
<1>13. (Still(w)' <=> Still(w)) /\ (End(w)' <=> End(w))
  BY <1>1, <1>2, <1>6, <1>7 DEF Still, End
<1>14. QED
  BY <1>8, <1>9, <1>10, <1>11, <1>12, <1>13 DEF WalkOK

LEMMA InitWalk == Init => WalkOK(walk)
<1> SUFFICES ASSUME Init PROVE WalkOK(walk)
  OBVIOUS
<1>1. walk = NoWalk /\ Sound
  BY InitSound DEF Init
<1>2. QED
  BY <1>1, NoWalkOK

\* The steps of the client.
LEMMA ClientKeeps == ASSUME Sound, WalkOK(walk), Client PROVE WalkOK(walk)'
<1>1. config' = config /\ logged' = logged
  BY DEF Client, StartWalk, ReadRing, Answer, mainVars
<1>2. PICK w, v : w = walk /\ v = walk'
  OBVIOUS
<1>3. WalkOK(v)
  <2>1. CASE StartWalk
    <3>1. PICK s \in Asked : v = [NoWalk EXCEPT !.stage = "walking", !.source = s,
                                                !.present = InRings(s)]
      BY <1>2, <2>1 DEF StartWalk, Asked
    <3>2. QED
      BY <3>1, StartOK
  <2>2. CASE ReadRing
    <3>1. /\ w.stage = "walking" /\ w.read < Rings(w.source)
          /\ v = [w EXCEPT !.read = @ + 1, !.got = @ \o Ring(At(w.source, w.read + 1))]
      BY <1>2, <2>2 DEF ReadRing, Rings, At
    <3>2. WalkOK([w EXCEPT !.read = @ + 1, !.got = @ \o Ring(At(w.source, w.read + 1))])
      BY <1>2, <3>1, ReadOK
    <3>3. QED
      BY <3>1, <3>2
  <2>3. CASE Answer
    <3>1. w.stage = "walking" /\ w.read = Rings(w.source) /\ Collected = CollectedOf(w)
      BY <1>2, <2>3 DEF Answer, Rings, Collected, CollectedOf
    <3>2. PICK all \in CollectedOf(w) :
            v = IF Page(all, PageSize, w.offset) = <<>>
                THEN [NoWalk EXCEPT !.stage = "over", !.source = w.source,
                        !.rows = w.rows, !.present = w.present, !.quiet = w.quiet]
                ELSE IF phase = "serving"
                THEN [w EXCEPT !.read = 0, !.got = <<>>,
                        !.rows = @ \o Page(all, PageSize, w.offset), !.offset = @ + PageSize,
                        !.sorted = IF w.quiet THEN all ELSE <<>>]
                ELSE NoWalk
      BY <1>2, <2>3, <3>1 DEF Answer
    <3>3. Page(all, PageSize, w.offset) = <<>> =>
            WalkOK([NoWalk EXCEPT !.stage = "over", !.source = w.source,
                      !.rows = w.rows, !.present = w.present, !.quiet = w.quiet])
      BY <1>2, <3>1, OverOK
    <3>4. WalkOK([w EXCEPT !.read = 0, !.got = <<>>,
                    !.rows = @ \o Page(all, PageSize, w.offset), !.offset = @ + PageSize,
                    !.sorted = IF w.quiet THEN all ELSE <<>>])
      BY <1>2, <3>1, NextOK
    <3>5. QED
      BY <3>2, <3>3, <3>4, NoWalkOK
  <2>4. QED
    BY <2>1, <2>2, <2>3 DEF Client
<1>4. WalkOK(v)'
  BY <1>1, <1>3, SameWalk
<1>5. QED
  BY <1>2, <1>4

LEMMA WalkKept == Sound /\ WalkOK(walk) /\ [Next]_vars => WalkOK(walk)'
<1> SUFFICES ASSUME Sound, WalkOK(walk), [Next]_vars PROVE WalkOK(walk)'
  OBVIOUS
<1>1. CASE config' = config /\ logged' = logged /\ walk' = walk
  <2>1. PICK w : w = walk /\ w = walk'
    BY <1>1
  <2>2. WalkOK(w)'
    BY <1>1, <2>1, SameWalk
  <2>3. QED
    BY <2>1, <2>2
<1>2. ASSUME NEW i \in Sources, NEW ts \in Nat, AppendEntry(i, ts), config' = config
      PROVE  WalkOK(walk)'
  <2>1. PICK w, v : w = walk /\ v = walk' /\ v = [w EXCEPT !.quiet = FALSE, !.sorted = <<>>]
    BY <1>2 DEF AppendEntry
  <2>2. WalkOK([w EXCEPT !.quiet = FALSE, !.sorted = <<>>])'
    BY <1>2, <2>1, AppendOK
  <2>3. WalkOK(v)'
    BY <2>1, <2>2
  <2>4. QED
    BY <2>1, <2>3
<1>3. ASSUME NEW i \in Sources, Watcher(i) PROVE WalkOK(walk)'
  <2>1. config' = config
    BY <1>3 DEF Watcher, BootLine, StartWatcher, ReadLine, mainVars
  <2>2. \/ logged' = logged /\ walk' = walk
        \/ \E ts \in Nat : AppendEntry(i, ts)
    BY <1>3, Constants DEF Watcher, BootLine, StartWatcher, ReadLine
  <2>3. QED
    BY <1>1, <1>2, <2>1, <2>2
<1>4. CASE Main \/ HubTakes \/ UNCHANGED vars
  BY <1>1, <1>4 DEF Main, Launch, Attach, Listen, OnSignal, HubTakes, vars, mainVars
<1>5. ASSUME NEW i \in Sources, Forward(i) PROVE WalkOK(walk)'
  BY <1>1, <1>5 DEF Forward, mainVars
<1>6. CASE Client
  BY <1>6, ClientKeeps
<1>7. QED
  BY <1>3, <1>4, <1>5, <1>6 DEF Next
------------------------------------------------------------------------------
(* What the client has when it has walked through the pages. *)

\* Whatever is logged while the client asks for one page after the other, and
\* whatever leaves a ring, no entry that is there from the first request to the last
\* is skipped by a client that pages through one source, and no undisturbed one by
\* a client that pages through all: a new entry pushes it to later pages, never to
\* earlier ones (logs_handler.go:69-100).
THEOREM SkipsNothing == Spec => []PagingSkipsNothing
<1>1. Sound /\ WalkOK(walk) => PagingSkipsNothing
  BY DEF WalkOK, NotSkipped, Good, PagingSkipsNothing
<1>2. Init => Sound /\ WalkOK(walk)
  BY InitSound, InitWalk
<1>3. Sound /\ WalkOK(walk) /\ [Next]_vars => Sound' /\ WalkOK(walk)'
  BY SoundKept, WalkKept
<1>4. QED
  BY <1>1, <1>2, <1>3, PTL DEF Spec

\* If nothing is logged meanwhile and the names of the sources differ, the pages put
\* one after the other are all the entries, each once, the newest first, whatever
\* order the sort gives to those of the same second (logs_handler.go:77-100).
THEOREM PagesArePartition == Spec => []PagesPartition
<1>1. Sound /\ WalkOK(walk) => PagesPartition
  <2> SUFFICES ASSUME Sound, WalkOK(walk), walk.stage = "over", walk.quiet, DistinctNames
               PROVE  /\ Elems(walk.rows) = walk.present
                      /\ \A i, j \in 1 .. Len(walk.rows) : i < j =>
                           /\ walk.rows[i] # walk.rows[j]
                           /\ IF walk.source = 0 THEN walk.rows[j].ts <= walk.rows[i].ts
                              ELSE walk.rows[j].id < walk.rows[i].id
    BY DEF PagesPartition
  <2> DEFINE s == walk.source
             rows == walk.rows
  <2>1. /\ Elems(rows) = walk.present /\ Once(rows)
        /\ \A i, j \in 1 .. Len(rows) : i < j => Rank(s, rows[j]) <= Rank(s, rows[i])
    BY DEF WalkOK, End
  <2>2. rows \in Seq(Entry) /\ s \in Asked /\ walk.present = InRings(s)
    BY DEF WalkOK, WalkTyped, Walks, Still
  <2> HIDE DEF s, rows
  <2>3. ASSUME NEW i \in 1 .. Len(rows), NEW j \in 1 .. Len(rows), i < j
        PROVE  rows[i] # rows[j]
    <3>1. i # j
      BY <2>2, <2>3
    <3>2. QED
      BY <2>1, <3>1 DEF Once
  <2>4. ASSUME s # 0, NEW i \in 1 .. Len(rows), NEW j \in 1 .. Len(rows), i < j
        PROVE  rows[j].id < rows[i].id
    <3>1. rows[j].id <= rows[i].id /\ rows[j].id \in Int /\ rows[i].id \in Int
      BY <2>1, <2>2, <2>4, RanksAre DEF Rank
    <3>2. rows[i] \in InRings(s) /\ rows[j] \in InRings(s)
      BY <2>1, <2>2 DEF Elems
    <3>3. rows[i].src = At(s, 1) /\ rows[j].src = At(s, 1)
      BY <2>2, <2>4, <3>2, InOneRing
    <3>4. rows[i].id # rows[j].id
      BY <2>2, <2>3, <2>4, <3>2, <3>3, LoggedIs, RingsLogged
    <3>5. QED
      BY <3>1, <3>4
  <2>5. QED
    BY <2>1, <2>3, <2>4 DEF Rank, s, rows
<1>2. Init => Sound /\ WalkOK(walk)
  BY InitSound, InitWalk
<1>3. Sound /\ WalkOK(walk) /\ [Next]_vars => Sound' /\ WalkOK(walk)'
  BY SoundKept, WalkKept
<1>4. QED
  BY <1>1, <1>2, <1>3, PTL DEF Spec
==============================================================================
