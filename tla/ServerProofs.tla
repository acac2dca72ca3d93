---------------------------- MODULE ServerProofs ----------------------------
(***************************************************************************)
(* The way of an entry through subscription and forwarder to the hub, for  *)
(* any number of sources and any capacities: it keeps the order, and while *)
(* the server serves it loses nothing but at a full queue.                 *)
(***************************************************************************)
EXTENDS Server, TLAPS

Rows == [src : Sources, id : Nat \ {0}, ts : Int]

Typed ==
  /\ attached \in 0 .. N /\ launched \in attached .. N
  /\ watcher \in [Sources -> {"off", "boot", "run", "dead"}]
  /\ logged \in [Sources -> Seq(Rows)] /\ sub \in [Sources -> Seq(Rows)]
  /\ reached \in [Sources -> Seq(Nat)] /\ queued \in 0 .. HubCap

\* Every source has its forwarder before the server listens (main.go:50-91).
AllAttached == phase # "starting" => attached = N

\* What waits in a subscription ascends, up to the last entry of its ring, and
\* what has reached the hub came before.
SubInOrder(i) ==
  /\ \A k \in 1 .. Len(sub[i]) :
       /\ sub[i][k].src = i /\ sub[i][k].id <= Len(logged[i])
       /\ \A l \in 1 .. Len(reached[i]) : reached[i][l] < sub[i][k].id
  /\ \A j, k \in 1 .. Len(sub[i]) : j < k => sub[i][j].id < sub[i][k].id

ReachedOnce == \A i \in Sources : \A l \in 1 .. Len(reached[i]) : reached[i][l] <= Len(logged[i])

Inv == Typed /\ AllAttached /\ ReachedOnce /\ \A i \in Sources : SubInOrder(i)

USE ServerAssumption DEF ServerAssumption
------------------------------------------------------------------------------
LEMMA InitInv == Init => Inv
<1> SUFFICES ASSUME Init PROVE Inv
  OBVIOUS
<1>1. Typed
  BY DEF Init, Typed
<1>2. AllAttached /\ ReachedOnce
  BY DEF Init, AllAttached, ReachedOnce
<1>3. ASSUME NEW i \in Sources PROVE SubInOrder(i)
  BY DEF Init, SubInOrder
<1>4. QED
  BY <1>1, <1>2, <1>3 DEF Inv

\* The queues do not change.
LEMMA QueuesAlone ==
  ASSUME Inv, UNCHANGED <<logged, sub, reached>>, queued' \in 0 .. HubCap,
         attached' \in 0 .. N /\ launched' \in attached' .. N,
         watcher' \in [Sources -> {"off", "boot", "run", "dead"}], AllAttached'
  PROVE  Inv'
  BY DEF Inv, Typed, ReachedOnce, SubInOrder

LEMMA MainInv == ASSUME Inv, Main PROVE Inv'
<1>0. /\ attached \in 0 .. N /\ launched \in attached .. N
      /\ watcher \in [Sources -> {"off", "boot", "run", "dead"}] /\ AllAttached
      /\ queued \in 0 .. HubCap
  BY DEF Inv, Typed
<1>1. CASE Launch
  <2>1. launched' \in attached' .. N /\ attached' = attached /\ AllAttached'
    BY <1>0, <1>1 DEF Launch, AllAttached
  <2>2. watcher' \in [Sources -> {"off", "boot", "run", "dead"}]
    BY <1>0, <1>1 DEF Launch
  <2>3. QED
    BY <1>0, <1>1, <2>1, <2>2, QueuesAlone DEF Launch
<1>2. CASE Attach
  <2>1. attached' \in 0 .. N /\ launched' \in attached' .. N /\ AllAttached'
    BY <1>0, <1>2 DEF Attach, AllAttached
  <2>2. QED
    BY <1>0, <1>2, <2>1, QueuesAlone DEF Attach
<1>3. CASE Listen \/ OnSignal
  <2>1. AllAttached' /\ UNCHANGED <<attached, launched, watcher>>
    BY <1>0, <1>3 DEF Listen, OnSignal, AllAttached
  <2>2. QED
    BY <1>0, <1>3, <2>1, QueuesAlone DEF Listen, OnSignal
<1>4. QED
  BY <1>1, <1>2, <1>3 DEF Main
------------------------------------------------------------------------------
(* A watcher appends an entry to its ring.                                   *)

LEMMA AppendedIsNext ==
  ASSUME Inv, NEW i \in Sources, NEW ts \in Nat, AppendEntry(i, ts)
  PROVE  /\ NextEntry(i, ts) \in Rows /\ NextEntry(i, ts).src = i
         /\ NextEntry(i, ts).id = Len(logged[i]) + 1
         /\ logged' \in [Sources -> Seq(Rows)]
         /\ Len(logged'[i]) = Len(logged[i]) + 1
         /\ \A j \in Sources : Len(logged[j]) <= Len(logged'[j])
         /\ Elems(logged'[i]) \ Elems(logged[i]) \subseteq {NextEntry(i, ts)}
<1> DEFINE e == NextEntry(i, ts)
<1>0. logged \in [Sources -> Seq(Rows)]
  BY DEF Inv, Typed
<1>1. e \in Rows /\ e.src = i /\ e.id = Len(logged[i]) + 1
  BY <1>0 DEF NextEntry, Rows
<1>2. logged' = [logged EXCEPT ![i] = Append(@, e)]
  BY DEF AppendEntry
<1>3. logged' \in [Sources -> Seq(Rows)] /\ logged'[i] = Append(logged[i], e)
  BY <1>0, <1>1, <1>2
<1>4. \A j \in Sources : Len(logged[j]) <= Len(logged'[j])
  BY <1>0, <1>1, <1>2
<1>5. Elems(logged'[i]) \ Elems(logged[i]) \subseteq {e}
  BY <1>0, <1>1, <1>3 DEF Elems
<1>6. QED
  BY <1>0, <1>1, <1>3, <1>4, <1>5

LEMMA WatcherInv == ASSUME Inv, NEW i \in Sources, Watcher(i) PROVE Inv'
<1>0. /\ logged \in [Sources -> Seq(Rows)] /\ sub \in [Sources -> Seq(Rows)]
      /\ watcher \in [Sources -> {"off", "boot", "run", "dead"}]
      /\ reached \in [Sources -> Seq(Nat)]
      /\ attached \in 0 .. N /\ launched \in attached .. N /\ AllAttached
      /\ queued \in 0 .. HubCap
  BY DEF Inv, Typed
<1>1. /\ UNCHANGED <<mainVars, queued, reached>>
      /\ watcher' \in [Sources -> {"off", "boot", "run", "dead"}] /\ AllAttached'
  BY <1>0 DEF Watcher, BootLine, StartWatcher, ReadLine, mainVars, AllAttached
<1>2. CASE UNCHANGED <<logged, sub>>
  BY <1>0, <1>1, <1>2, QueuesAlone DEF mainVars
<1>3. ASSUME NEW ts \in Nat, AppendEntry(i, ts),
             \/ sub' = sub
             \/ sub' = [sub EXCEPT ![i] = Append(@, NextEntry(i, ts))]
      PROVE  Inv'
  <2> DEFINE e == NextEntry(i, ts)
  <2>1. /\ e \in Rows /\ e.src = i /\ e.id = Len(logged[i]) + 1
        /\ logged' \in [Sources -> Seq(Rows)] /\ Len(logged'[i]) = Len(logged[i]) + 1
        /\ \A j \in Sources : Len(logged[j]) <= Len(logged'[j])
    BY <1>3, AppendedIsNext
  <2>2. Typed'
    <3>1. sub' \in [Sources -> Seq(Rows)]
      <4>1. sub[i] \in Seq(Rows) /\ Append(sub[i], e) \in Seq(Rows)
        BY <1>0, <2>1
      <4>2. QED
        BY <1>0, <1>3, <4>1
    <3>2. QED
      BY <1>0, <1>1, <2>1, <3>1 DEF Typed, mainVars
  <2>3. \A j \in Sources : Len(logged[j]) \in Nat /\ Len(logged'[j]) \in Nat
    BY <1>0, <2>1
  <2>4. ReachedOnce'
    <3>1. ASSUME NEW j \in Sources, NEW l \in 1 .. Len(reached[j])
          PROVE  reached[j][l] <= Len(logged'[j])
      <4>1. reached[j][l] \in Nat /\ reached[j][l] <= Len(logged[j])
        BY <1>0 DEF Inv, ReachedOnce
      <4>2. QED
        BY <2>1, <2>3, <4>1
    <3>2. QED
      BY <1>1, <3>1 DEF ReachedOnce
  <2>5. ASSUME NEW j \in Sources PROVE SubInOrder(j)'
    <3>1. \A k \in 1 .. Len(sub[j]) : sub[j][k] \in Rows /\ sub[j][k].id \in Nat
      <4>1. sub[j] \in Seq(Rows)
        BY <1>0
      <4>2. \A k \in 1 .. Len(sub[j]) : sub[j][k] \in Rows
        BY <4>1
      <4>3. QED
        BY <4>2 DEF Rows
    <3>2. CASE sub'[j] = sub[j]
      BY <1>1, <2>1, <2>3, <3>1, <3>2, SMTT(30) DEF Inv, SubInOrder
    <3>3. CASE j = i /\ sub'[j] = Append(sub[j], e)
      <4>1. /\ Len(sub'[j]) = Len(sub[j]) + 1 /\ sub'[j][Len(sub[j]) + 1] = e
            /\ \A k \in 1 .. Len(sub[j]) : sub'[j][k] = sub[j][k]
        BY <1>0, <2>1, <3>3
      <4>2. \A l \in 1 .. Len(reached[i]) : reached[i][l] < e.id
        <5>1. ASSUME NEW l \in 1 .. Len(reached[i]) PROVE reached[i][l] < e.id
          <6>1. reached[i][l] \in Nat /\ reached[i][l] <= Len(logged[i])
            BY <1>0 DEF Inv, ReachedOnce
          <6>2. QED
            BY <2>1, <2>3, <6>1
        <5>2. QED
          BY <5>1
      <4>3. \A k \in 1 .. Len(sub[j]) : sub[j][k].id < e.id
        BY <2>1, <2>3, <3>1, <3>3 DEF Inv, SubInOrder
      <4>4. ASSUME NEW k \in 1 .. Len(sub'[j])
            PROVE  /\ sub'[j][k].src = j /\ sub'[j][k].id <= Len(logged'[j])
                   /\ \A l \in 1 .. Len(reached[j]) : reached[j][l] < sub'[j][k].id
        <5>1. CASE k = Len(sub[j]) + 1
          BY <2>1, <2>3, <3>3, <4>1, <4>2, <5>1
        <5>2. CASE k \in 1 .. Len(sub[j])
          BY <2>1, <2>3, <3>1, <3>3, <4>1, <5>2, SMTT(30) DEF Inv, SubInOrder
        <5>3. QED
          BY <1>0, <4>1, <5>1, <5>2
      <4>5. ASSUME NEW k \in 1 .. Len(sub'[j]), NEW l \in 1 .. Len(sub'[j]), k < l
            PROVE  sub'[j][k].id < sub'[j][l].id
        <5>1. k \in 1 .. Len(sub[j])
          BY <1>0, <4>1, <4>5
        <5>2. CASE l = Len(sub[j]) + 1
          BY <4>1, <4>3, <5>1, <5>2
        <5>3. CASE l \in 1 .. Len(sub[j])
          <6>1. sub'[j][k] = sub[j][k] /\ sub'[j][l] = sub[j][l]
            BY <4>1, <5>1, <5>3
          <6>2. sub[j][k].id < sub[j][l].id
            BY <4>5, <5>1, <5>3 DEF Inv, SubInOrder
          <6>3. QED
            BY <6>1, <6>2
        <5>4. QED
          BY <1>0, <4>1, <5>2, <5>3
      <4>6. QED
        BY <1>1, <4>4, <4>5 DEF SubInOrder
    <3>4. QED
      BY <1>0, <1>3, <3>2, <3>3
  <2>6. QED
    BY <1>1, <2>2, <2>4, <2>5 DEF Inv
<1>4. QED
  BY <1>2, <1>3 DEF Watcher, BootLine, StartWatcher, ReadLine, Publish
------------------------------------------------------------------------------
(* A forwarder takes the oldest entry that waits.                            *)

LEMMA HeadAndTail ==
  ASSUME NEW s \in Seq(Rows), s # <<>>
  PROVE  /\ Head(s) = s[1] /\ Head(s) \in Rows /\ 1 \in 1 .. Len(s)
         /\ Tail(s) \in Seq(Rows) /\ Len(Tail(s)) = Len(s) - 1
         /\ \A k \in 1 .. Len(Tail(s)) : k + 1 \in 1 .. Len(s) /\ Tail(s)[k] = s[k + 1]
  OBVIOUS

LEMMA ForwardInv == ASSUME Inv, NEW i \in Sources, Forward(i) PROVE Inv'
<1> DEFINE e == Head(sub[i])
<1>0. /\ logged \in [Sources -> Seq(Rows)] /\ sub \in [Sources -> Seq(Rows)]
      /\ reached \in [Sources -> Seq(Nat)] /\ sub[i] \in Seq(Rows) /\ sub[i] # <<>>
      /\ queued \in 0 .. HubCap
  BY DEF Inv, Typed, Forward
<1>1. /\ sub' = [sub EXCEPT ![i] = Tail(@)] /\ UNCHANGED <<mainVars, watcher, logged>>
      /\ reached' = reached \/ reached' = [reached EXCEPT ![e.src] = Append(@, e.id)]
  BY DEF Forward, Broadcast, Accept
<1>2. /\ e = sub[i][1] /\ e \in Rows /\ 1 \in 1 .. Len(sub[i])
      /\ Tail(sub[i]) \in Seq(Rows) /\ Len(Tail(sub[i])) = Len(sub[i]) - 1
      /\ \A k \in 1 .. Len(Tail(sub[i])) :
           k + 1 \in 1 .. Len(sub[i]) /\ Tail(sub[i])[k] = sub[i][k + 1]
  BY <1>0, HeadAndTail
<1>3. e.src = i /\ e.id <= Len(logged[i])
  BY <1>2 DEF Inv, SubInOrder
<1>4. /\ reached' \in [Sources -> Seq(Nat)] /\ e.id \in Nat
      /\ \A j \in Sources : j # i => reached'[j] = reached[j]
      /\ \A l \in 1 .. Len(reached'[i]) :
           reached'[i][l] = e.id \/ \E m \in 1 .. Len(reached[i]) : reached'[i][l] = reached[i][m]
  <2>1. CASE reached' = reached
    BY <1>0, <1>2, <2>1 DEF Rows
  <2>2. CASE reached' = [reached EXCEPT ![i] = Append(@, e.id)]
    <3>1. e.id \in Nat /\ reached[i] \in Seq(Nat)
      BY <1>0, <1>2 DEF Rows
    <3>2. reached'[i] = Append(reached[i], e.id) /\ Append(reached[i], e.id) \in Seq(Nat)
      BY <1>0, <2>2, <3>1
    <3>3. /\ \A l \in 1 .. Len(reached'[i]) : l \in 1 .. Len(reached[i]) \/ l = Len(reached[i]) + 1
          /\ \A l \in 1 .. Len(reached[i]) : reached'[i][l] = reached[i][l]
          /\ reached'[i][Len(reached[i]) + 1] = e.id
      BY <3>1, <3>2
    <3>4. reached' \in [Sources -> Seq(Nat)] /\ \A j \in Sources : j # i => reached'[j] = reached[j]
      BY <1>0, <2>2, <3>1, <3>2
    <3>5. QED
      BY <3>1, <3>3, <3>4
  <2>3. QED
    BY <1>1, <1>3, <2>1, <2>2
<1>5. Typed' /\ AllAttached'
  <2>1. queued' \in 0 .. HubCap
    BY <1>0 DEF Forward, Broadcast, Accept
  <2>2. QED
    BY <1>0, <1>1, <2>1, <1>2, <1>4 DEF Inv, Typed, AllAttached, mainVars
<1>6. ReachedOnce'
  <2>1. ASSUME NEW j \in Sources, NEW l \in 1 .. Len(reached'[j])
        PROVE  reached'[j][l] <= Len(logged[j])
    BY <1>3, <1>4 DEF Inv, ReachedOnce
  <2>2. QED
    BY <1>1, <2>1 DEF ReachedOnce
<1>7. ASSUME NEW j \in Sources PROVE SubInOrder(j)'
  <2>1. CASE j # i
    BY <1>0, <1>1, <1>4, <2>1, SMTT(30) DEF Inv, SubInOrder
  <2>2. CASE j = i
    <3>1. sub'[i] = Tail(sub[i])
      BY <1>0, <1>1
    <3>2. ASSUME NEW k \in 1 .. Len(Tail(sub[i]))
          PROVE  /\ sub'[i][k].src = i /\ sub'[i][k].id <= Len(logged'[i])
                 /\ \A l \in 1 .. Len(reached'[i]) : reached'[i][l] < sub'[i][k].id
      <4>1. sub'[i][k] = sub[i][k + 1] /\ k + 1 \in 1 .. Len(sub[i]) /\ 1 < k + 1
        BY <1>2, <3>1
      <4>2. e.id < sub[i][k + 1].id
        BY <1>2, <4>1 DEF Inv, SubInOrder
      <4>3. sub[i][k + 1].src = i /\ sub[i][k + 1].id <= Len(logged[i]) /\ logged' = logged
        BY <1>1, <4>1 DEF Inv, SubInOrder
      <4>4. ASSUME NEW l \in 1 .. Len(reached'[i]) PROVE reached'[i][l] < sub[i][k + 1].id
        <5>1. CASE reached'[i][l] = e.id
          BY <4>2, <5>1
        <5>2. ASSUME NEW m \in 1 .. Len(reached[i]), reached'[i][l] = reached[i][m]
              PROVE  reached'[i][l] < sub[i][k + 1].id
          BY <4>1, <5>2 DEF Inv, SubInOrder
        <5>3. QED
          BY <1>4, <5>1, <5>2
      <4>5. QED
        BY <4>1, <4>3, <4>4
    <3>3. ASSUME NEW k \in 1 .. Len(Tail(sub[i])), NEW l \in 1 .. Len(Tail(sub[i])), k < l
          PROVE  sub'[i][k].id < sub'[i][l].id
      <4>1. /\ sub'[i][k] = sub[i][k + 1] /\ k + 1 \in 1 .. Len(sub[i])
            /\ sub'[i][l] = sub[i][l + 1] /\ l + 1 \in 1 .. Len(sub[i]) /\ k + 1 < l + 1
        BY <1>2, <3>1, <3>3
      <4>2. QED
        BY <4>1 DEF Inv, SubInOrder
    <3>4. QED
      BY <2>2, <3>1, <3>2, <3>3 DEF SubInOrder
  <2>3. QED
    BY <2>1, <2>2
<1>8. QED
  BY <1>5, <1>6, <1>7 DEF Inv
------------------------------------------------------------------------------
LEMMA NextInv == Inv /\ [Next]_vars => Inv'
<1> SUFFICES ASSUME Inv, [Next]_vars PROVE Inv'
  OBVIOUS
<1>1. CASE Main
  BY <1>1, MainInv
<1>2. ASSUME NEW i \in Sources, Watcher(i) PROVE Inv'
  BY <1>2, WatcherInv
<1>3. ASSUME NEW i \in Sources, Forward(i) PROVE Inv'
  BY <1>3, ForwardInv
<1>4. CASE HubTakes \/ Client \/ UNCHANGED vars
  <2>1. UNCHANGED <<mainVars, watcher, logged, sub, reached>> /\ queued' \in 0 .. HubCap
    <3>1. queued \in 0 .. HubCap
      BY DEF Inv, Typed
    <3>2. CASE HubTakes
      BY <3>1, <3>2 DEF HubTakes
    <3>3. CASE Client \/ UNCHANGED vars
      <4>1. UNCHANGED <<mainVars, watcher, logged, sub, queued, reached>>
        BY <3>3 DEF Client, StartWalk, ReadRing, Answer, vars
      <4>2. QED
        BY <3>1, <4>1
    <3>4. QED
      BY <1>4, <3>2, <3>3
  <2>2. QED
    BY <2>1, QueuesAlone DEF Inv, Typed, AllAttached, mainVars
<1>5. QED
  BY <1>1, <1>2, <1>3, <1>4 DEF Next

LEMMA InvAlways == Spec => []Inv
<1>1. QED
  BY InitInv, NextInv, PTL DEF Spec

\* Only a watcher adds to its ring, and only a forwarder brings entries to the hub.
LEMMA OthersAlone ==
  ASSUME Inv, [Next]_vars
  PROVE  \/ \E i \in Sources : Forward(i)
         \/ /\ reached' = reached
            /\ \/ logged' = logged
               \/ \E i \in Sources, ts \in Nat : AppendEntry(i, ts)
  BY DEF Next, Main, Launch, Attach, Listen, OnSignal, Watcher, BootLine, StartWatcher,
     ReadLine, HubTakes, Client, StartWalk, ReadRing, Answer, vars

\* Whatever the two queues drop, entries of a source reach the hub in the order of
\* their IDs and none twice, and each was in the ring (main.go:68-77, hub.go:66-71).
THEOREM StreamKeepsOrder == Spec => StreamInOrder
<1>1. Init => Stream!Init
  BY DEF Init, Stream!Init
<1>2. Inv /\ Inv' /\ [Next]_vars => [Stream!Next]_Stream!streamVars
  <2> SUFFICES ASSUME Inv, Inv', [Next]_vars PROVE [Stream!Next]_Stream!streamVars
    OBVIOUS
  <2>0. /\ logged \in [Sources -> Seq(Rows)] /\ logged' \in [Sources -> Seq(Rows)]
        /\ reached \in [Sources -> Seq(Nat)]
    BY DEF Inv, Typed
  <2>1. CASE UNCHANGED <<logged, reached>>
    BY <2>1 DEF Stream!streamVars
  <2>2. ASSUME NEW i \in Sources, NEW ts \in Nat, AppendEntry(i, ts), reached' = reached
        PROVE  Stream!Send
    <3>1. \A j \in Sources : Len(logged[j]) <= Len(logged'[j])
      BY <2>2, AppendedIsNext
    <3>2. \A j \in Sources : Len(logged'[j]) \in Nat
      BY <2>0
    <3>3. QED
      BY <2>2, <3>1, <3>2 DEF Stream!Send
  <2>3. ASSUME NEW i \in Sources, Forward(i), reached' # reached
        PROVE  Stream!Deliver(i)
    <3>1. sub[i] \in Seq(Rows) /\ sub[i] # <<>> /\ logged' = logged
      BY <2>3 DEF Inv, Typed, Forward
    <3>2. PICK e \in Rows : e = Head(sub[i]) /\ e = sub[i][1] /\ 1 \in 1 .. Len(sub[i])
      BY <3>1, HeadAndTail
    <3>3. /\ e.src = i /\ e.id <= Len(logged[i])
          /\ \A k \in 1 .. Len(reached[i]) : reached[i][k] < e.id
      BY <3>2, SMTT(30) DEF Inv, SubInOrder
    <3>4. reached' = [reached EXCEPT ![i] = Append(@, e.id)]
      BY <2>3, <3>2, <3>3 DEF Forward, Broadcast, Accept
    <3>5. e.id \in 1 .. Len(logged[i])
      <4>1. e.id \in Nat /\ e.id # 0 /\ Len(logged[i]) \in Nat
        BY <2>0 DEF Rows
      <4>2. QED
        BY <3>3, <4>1
    <3>6. QED
      BY <3>1, <3>3, <3>4, <3>5 DEF Stream!Deliver
  <2>4. QED
    BY <2>1, <2>2, <2>3, OthersAlone DEF Stream!Next, Forward, vars
<1>3. QED
  BY <1>1, <1>2, InitInv, NextInv, InvAlways, PTL DEF StreamInOrder, Spec, Stream!Spec

\* While the server serves, every line that is read gets into the subscription of
\* its source, unless that is full, and what is there stays until it is handed to
\* the hub, which loses it only if its queue is full (main.go:50-91).
THEOREM NoGap == Spec => NoGapWhileServing
<1> DEFINE Read(i) == \A e \in Elems(logged'[i]) \ Elems(logged[i]) :
                        watcher[i] = "run" => e \in Elems(sub'[i]) \/ Len(sub[i]) >= SubCap
           Kept(i) == \A e \in Elems(sub[i]) :
                        \/ e \in Elems(sub'[i]) \/ e.id \in Elems(reached'[i])
                        \/ e = Head(sub[i]) /\ queued >= HubCap
           Step == \A i \in Sources :
                     phase \in {"serving", "deaf"} =>
                       /\ Read(i)
                       /\ Kept(i)
<1>1. Inv /\ [Next]_vars => Step
  <2> SUFFICES ASSUME Inv, [Next]_vars, phase \in {"serving", "deaf"}, NEW i \in Sources
               PROVE  Read(i) /\ Kept(i)
    OBVIOUS
  <2>0. /\ logged \in [Sources -> Seq(Rows)] /\ sub \in [Sources -> Seq(Rows)]
        /\ watcher \in [Sources -> {"off", "boot", "run", "dead"}] /\ attached = N
        /\ queued \in Int
    BY DEF Inv, Typed, AllAttached
  <2>1. CASE logged'[i] = logged[i] /\ sub'[i] = sub[i]
    BY <2>1
  <2>2. ASSUME NEW j \in Sources, BootLine(j) PROVE Read(i) /\ Kept(i)
    <3>1. sub' = sub /\ watcher[j] = "boot"
      BY <2>2 DEF BootLine
    <3>2. j # i => logged'[i] = logged[i]
      BY <2>0, <2>2 DEF BootLine, AppendEntry
    <3>3. QED
      BY <3>1, <3>2
  <2>3. ASSUME NEW j \in Sources, ReadLine(j) PROVE Read(i) /\ Kept(i)
    <3>1. PICK ts \in Nat : AppendEntry(j, ts) /\ Publish(j, NextEntry(j, ts))
      BY <2>3 DEF ReadLine
    <3>2. CASE j # i
      BY <2>0, <2>1, <3>1, <3>2 DEF AppendEntry, Publish
    <3>3. CASE j = i
      <4>1. /\ Elems(logged'[i]) \ Elems(logged[i]) \subseteq {NextEntry(i, ts)}
            /\ NextEntry(i, ts) \in Rows /\ sub[i] \in Seq(Rows)
        BY <2>0, <3>1, <3>3, AppendedIsNext
      <4>2. i <= attached /\ Publish(i, NextEntry(i, ts))
        BY <2>0, <3>1, <3>3 DEF Sources
      <4>3. CASE sub' = [sub EXCEPT ![i] = Append(@, NextEntry(i, ts))]
        <5>1. sub'[i] = Append(sub[i], NextEntry(i, ts))
          BY <2>0, <4>3
        <5>2. Elems(sub'[i]) = Elems(sub[i]) \cup {NextEntry(i, ts)}
          BY <4>1, <5>1 DEF Elems
        <5>3. QED
          BY <4>1, <5>2
      <4>4. CASE sub' = sub /\ ~ (Len(sub[i]) < SubCap)
        <5>1. Len(sub[i]) >= SubCap
          BY <4>1, <4>4
        <5>2. QED
          BY <4>4, <5>1
      <4>5. QED
        BY <4>2, <4>3, <4>4 DEF Publish
    <3>4. QED
      BY <3>2, <3>3
  <2>4. ASSUME NEW j \in Sources, Forward(j) PROVE Read(i) /\ Kept(i)
    <3>1. logged' = logged /\ sub' = [sub EXCEPT ![j] = Tail(@)]
      BY <2>4 DEF Forward
    <3>2. CASE j # i
      BY <2>0, <2>1, <3>1, <3>2
    <3>3. CASE j = i
      <4>1. sub[i] \in Seq(Rows) /\ sub[i] # <<>> /\ sub'[i] = Tail(sub[i])
        BY <2>0, <2>4, <3>1, <3>3 DEF Forward
      <4>2. Elems(sub[i]) \subseteq Elems(Tail(sub[i])) \cup {Head(sub[i])}
        <5>1. /\ Head(sub[i]) = sub[i][1] /\ Len(Tail(sub[i])) = Len(sub[i]) - 1
              /\ \A k \in 1 .. Len(Tail(sub[i])) : Tail(sub[i])[k] = sub[i][k + 1]
          BY <4>1, HeadAndTail
        <5>2. ASSUME NEW k \in 1 .. Len(sub[i]), k # 1
              PROVE  sub[i][k] \in Elems(Tail(sub[i]))
          <6>1. k - 1 \in 1 .. Len(Tail(sub[i])) /\ k - 1 + 1 = k
            BY <4>1, <5>1, <5>2
          <6>2. sub[i][k] = Tail(sub[i])[k - 1]
            BY <5>1, <6>1
          <6>3. QED
            BY <6>1, <6>2 DEF Elems
        <5>3. QED
          BY <5>1, <5>2 DEF Elems
      <4>3. queued >= HubCap \/ Head(sub[i]).id \in Elems(reached'[i])
        <5>1. CASE Accept(Head(sub[i]))
          <6>1. PICK e \in Rows : e = Head(sub[i]) /\ e = sub[i][1] /\ 1 \in 1 .. Len(sub[i])
            BY <4>1, HeadAndTail
          <6>2. e.src = i /\ e.id \in Nat /\ reached[i] \in Seq(Nat)
            BY <6>1, SMTT(30) DEF Inv, SubInOrder, Typed, Rows
          <6>3. reached'[i] = Append(reached[i], e.id)
            BY <5>1, <6>1, <6>2 DEF Accept, Inv, Typed
          <6>4. /\ Len(reached[i]) + 1 \in 1 .. Len(reached'[i])
                /\ reached'[i][Len(reached[i]) + 1] = e.id
            BY <6>2, <6>3
          <6>5. QED
            BY <6>1, <6>4 DEF Elems
        <5>2. QED
          BY <2>0, <2>4, <3>3, <5>1 DEF Forward, Broadcast
      <4>4. QED
        BY <3>1, <4>1, <4>2, <4>3
    <3>4. QED
      BY <3>2, <3>3
  <2>5. CASE Main \/ HubTakes \/ Client \/ UNCHANGED vars
    <3>1. UNCHANGED <<logged, sub>>
      BY <2>5 DEF Main, Launch, Attach, Listen, OnSignal, HubTakes, Client, StartWalk,
         ReadRing, Answer, vars
    <3>2. QED
      BY <2>1, <3>1
  <2>6. ASSUME NEW j \in Sources, StartWatcher(j) PROVE Read(i) /\ Kept(i)
    <3>1. UNCHANGED <<logged, sub>>
      BY <2>6 DEF StartWatcher
    <3>2. QED
      BY <2>1, <3>1
  <2>7. QED
    BY <2>2, <2>3, <2>4, <2>5, <2>6 DEF Next, Watcher
<1>2. QED
  BY <1>1, InvAlways, PTL DEF NoGapWhileServing, Spec
==============================================================================
