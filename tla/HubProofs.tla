------------------------------ MODULE HubProofs ------------------------------
(* Proofs about the hub, for any number of connections, any capacities and  *)
(* any number of messages.                                                  *)
EXTENDS Hub, TLAPS

USE HubAssumption

\* The state always has its type; in particular no channel ever holds more
\* than its capacity.
THEOREM TypeCorrect == Spec => []TypeOK
<1>1. Init => TypeOK
  <2> SUFFICES ASSUME Init PROVE TypeOK
    OBVIOUS
  <2>1. /\ send \in [Clients -> Seq(Nat)]
        /\ writing \in [Clients -> Seq(Nat)]
        /\ got \in [Clients -> Seq(Nat)]
        /\ \A c \in Clients : Len(send[c]) <= SendCap
    BY DEF Init
  <2>2. /\ broadcast \in Seq(Nat)
        /\ Len(broadcast) <= BroadcastCap
    BY DEF Init
  <2>3. /\ handler \in [Clients -> HandlerPC]
        /\ rpump \in [Clients -> PumpPC]
        /\ wpump \in [Clients -> PumpPC]
    BY DEF Init, HandlerPC, PumpPC
  <2>4. /\ sendClosed \in [Clients -> BOOLEAN]
        /\ connClosed \in [Clients -> BOOLEAN]
        /\ alive \in [Clients -> BOOLEAN]
        /\ panicked \in BOOLEAN
    BY DEF Init
  <2>5. /\ clients \subseteq Clients
        /\ fanout \subseteq Clients
        /\ msg \in Nat
        /\ sent \in Nat
    BY DEF Init
  <2>6. QED
    BY <2>1, <2>2, <2>3, <2>4, <2>5 DEF TypeOK
<1>2. TypeOK /\ [Next]_vars => TypeOK'
  <2> SUFFICES ASSUME TypeOK, [Next]_vars PROVE TypeOK'
    OBVIOUS
  <2> USE DEF TypeOK, HandlerPC, PumpPC, runVars, pumpVars, InSelect
  <2>1. CASE Broadcast
    BY <2>1 DEF Broadcast
  <2>2. CASE RunTakeMessage
    BY <2>2 DEF RunTakeMessage
  <2>3. ASSUME NEW c \in Clients, RunRegister(c) PROVE TypeOK'
    BY <2>3 DEF RunRegister
  <2>4. ASSUME NEW c \in Clients, RunUnregisterReader(c) PROVE TypeOK'
    BY <2>4 DEF RunUnregisterReader, Drop
  <2>5. ASSUME NEW c \in Clients, RunUnregisterWriter(c) PROVE TypeOK'
    BY <2>5 DEF RunUnregisterWriter, Drop
  <2>6. ASSUME NEW c \in Clients, RunFanOut(c) PROVE TypeOK'
    BY <2>6 DEF RunFanOut
  <2>7. ASSUME NEW c \in Clients, Connection(c) PROVE TypeOK'
    <3>1. CASE Reject(c)
      BY <3>1 DEF Reject
    <3>2. CASE Upgrade(c)
      BY <3>2 DEF Upgrade
    <3>3. CASE StartPumps(c)
      BY <3>3 DEF StartPumps
    <3>4. CASE ReadFails(c)
      BY <3>4 DEF ReadFails
    <3>5. CASE WriterTakes(c)
      <4>1. /\ send[c] \in Seq(Nat)
            /\ send[c] # <<>>
            /\ Len(send[c]) <= SendCap
        BY <3>5 DEF WriterTakes
      <4>2. /\ Head(send[c]) \in Nat
            /\ Tail(send[c]) \in Seq(Nat)
            /\ Len(Tail(send[c])) <= SendCap
        BY <4>1
      <4>3. <<Head(send[c])>> \in Seq(Nat)
        BY <4>2
      <4>4. QED
        BY <3>5, <4>2, <4>3 DEF WriterTakes
    <3>6. CASE WriterSeesClose(c)
      BY <3>6 DEF WriterSeesClose
    <3>7. CASE WriteSucceeds(c)
      BY <3>7 DEF WriteSucceeds
    <3>8. CASE WriteFails(c)
      BY <3>8 DEF WriteFails
    <3>9. CASE PeerDies(c)
      BY <3>9 DEF PeerDies
    <3>10. QED
      BY <2>7, <3>1, <3>2, <3>3, <3>4, <3>5, <3>6, <3>7, <3>8, <3>9 DEF Connection
  <2>8. CASE UNCHANGED vars
    BY <2>8 DEF vars
  <2>9. QED
    BY <2>1, <2>2, <2>3, <2>4, <2>5, <2>6, <2>7, <2>8 DEF Next, Run
<1>3. QED
  BY <1>1, <1>2, PTL DEF Spec
------------------------------------------------------------------------------
(* Who is in the map.  A client is in h.clients exactly from its            *)
(* registration to its first unregistration, which closes everything; Run   *)
(* is never in its loop over the clients when it unregisters one.           *)

Registered(c) == handler[c] \in {"registered", "returned"}

ClientInv ==
  /\ \A c \in clients : ~ sendClosed[c] /\ ~ connClosed[c] /\ Registered(c)
  /\ fanout \subseteq clients
  /\ InSelect => fanout = {}
  /\ \A i \in 1 .. Len(broadcast) : broadcast[i] # 0
  /\ \A c \in Clients : ~ Registered(c) => ~ sendClosed[c] /\ ~ connClosed[c]
  /\ \A c \in Clients : Registered(c) /\ c \notin clients => sendClosed[c] /\ connClosed[c]
  /\ \A c \in Clients : rpump[c] # "off" \/ wpump[c] # "off" => handler[c] = "returned"
  /\ \A c \in Clients : rpump[c] = "done" \/ wpump[c] = "done" => c \notin clients
  /\ ~ panicked

LEMMA HeadAndTail ==
  ASSUME NEW s \in Seq(Nat), s # <<>>
  PROVE  /\ Head(s) = s[1]
         /\ Len(s) >= 1
         /\ Tail(s) \in Seq(Nat)
         /\ Len(Tail(s)) = Len(s) - 1
         /\ \A i \in 1 .. Len(Tail(s)) : Tail(s)[i] = s[i + 1]
  OBVIOUS

LEMMA AppendElements ==
  ASSUME NEW s \in Seq(Nat), NEW n \in Nat
  PROVE  /\ Append(s, n) \in Seq(Nat)
         /\ Len(Append(s, n)) = Len(s) + 1
         /\ \A i \in 1 .. Len(s) : Append(s, n)[i] = s[i]
         /\ Append(s, n)[Len(s) + 1] = n
  OBVIOUS

\* What Run does with an unregistered client keeps the map consistent,
\* whichever pump sent it: the second one finds the client gone.
LEMMA DropKeepsClientInv ==
  ASSUME TypeOK, ClientInv, InSelect, NEW c \in Clients, Drop(c),
         handler[c] = "returned",
         UNCHANGED <<broadcast, fanout, msg, handler>>,
         \/ rpump' = [rpump EXCEPT ![c] = "done"] /\ wpump' = wpump
         \/ wpump' = [wpump EXCEPT ![c] = "done"] /\ rpump' = rpump
  PROVE  ClientInv'
<1> USE DEF TypeOK, ClientInv, Registered, InSelect, Drop, HandlerPC, PumpPC
<1>1. /\ c \notin clients'
      /\ clients' \subseteq clients
      /\ \A d \in clients : d # c => d \in clients'
  OBVIOUS
<1>2. sendClosed'[c] /\ connClosed'[c]
  OBVIOUS
<1>3. \A d \in Clients : d # c => sendClosed'[d] = sendClosed[d] /\ connClosed'[d] = connClosed[d]
  OBVIOUS
<1>4. ~ panicked'
  OBVIOUS
<1>5. fanout' = {} /\ msg' = 0
  OBVIOUS
<1>6. \A d \in Clients : d # c => rpump'[d] = rpump[d] /\ wpump'[d] = wpump[d]
  OBVIOUS
<1>7. \A d \in clients' : ~ sendClosed'[d] /\ ~ connClosed'[d] /\ Registered(d)'
  <2>1. SUFFICES ASSUME NEW d \in clients'
                 PROVE  ~ sendClosed'[d] /\ ~ connClosed'[d] /\ Registered(d)'
    OBVIOUS
  <2>2. d \in clients /\ d \in Clients /\ d # c
    BY <1>1
  <2>3. QED
    BY <1>3, <2>2
<1>8. \A d \in Clients : Registered(d)' /\ d \notin clients' => sendClosed'[d] /\ connClosed'[d]
  BY <1>1, <1>2, <1>3
<1>9. \A d \in Clients : rpump'[d] # "off" \/ wpump'[d] # "off" => handler'[d] = "returned"
  BY <1>6
<1>10. \A d \in Clients : rpump'[d] = "done" \/ wpump'[d] = "done" => d \notin clients'
  BY <1>1, <1>6
<1>11. \A d \in Clients : ~ Registered(d)' => ~ sendClosed'[d] /\ ~ connClosed'[d]
  BY <1>3
<1>12. QED
  BY <1>4, <1>5, <1>7, <1>8, <1>9, <1>10, <1>11

LEMMA ClientInvInductive ==
  ASSUME TypeOK, ClientInv, [Next]_vars
  PROVE  ClientInv'
<1> USE DEF TypeOK, ClientInv, Registered, InSelect, HandlerPC, PumpPC, runVars, pumpVars
<1>1. CASE Broadcast
  BY <1>1, AppendElements DEF Broadcast
<1>2. CASE RunTakeMessage
  <2>1. Head(broadcast) = broadcast[1] /\ Len(broadcast) >= 1
    BY <1>2, HeadAndTail DEF RunTakeMessage
  <2>2. \A i \in 1 .. Len(broadcast') : broadcast'[i] # 0
    BY <1>2, HeadAndTail DEF RunTakeMessage
  <2>3. msg' = 0 => fanout' = {}
    BY <1>2, <2>1 DEF RunTakeMessage
  <2>4. QED
    BY <1>2, <2>2, <2>3 DEF RunTakeMessage
<1>3. ASSUME NEW c \in Clients, RunRegister(c) PROVE ClientInv'
  <2>1. /\ ~ Registered(c) /\ c \notin clients
        /\ rpump[c] = "off" /\ wpump[c] = "off"
    BY <1>3 DEF RunRegister
  <2>2. /\ clients' = clients \cup {c}
        /\ Registered(c)'
        /\ \A d \in Clients : d # c => handler'[d] = handler[d]
        /\ UNCHANGED <<fanout, msg, broadcast, sendClosed, connClosed, rpump, wpump, panicked>>
    BY <1>3 DEF RunRegister
  <2>3. ~ sendClosed[c] /\ ~ connClosed[c]
    BY <1>3 DEF RunRegister
  <2>4. QED
    BY <2>1, <2>2, <2>3, ZenonT(30)
<1>4. ASSUME NEW c \in Clients, RunUnregisterReader(c) PROVE ClientInv'
  BY <1>4, DropKeepsClientInv DEF RunUnregisterReader
<1>5. ASSUME NEW c \in Clients, RunUnregisterWriter(c) PROVE ClientInv'
  BY <1>5, DropKeepsClientInv DEF RunUnregisterWriter
<1>6. ASSUME NEW c \in Clients, RunFanOut(c) PROVE ClientInv'
  BY <1>6 DEF RunFanOut
<1>7. ASSUME NEW c \in Clients, Connection(c) PROVE ClientInv'
  <2>1. CASE Reject(c)
    BY <2>1 DEF Reject
  <2>2. CASE Upgrade(c)
    BY <2>2 DEF Upgrade
  <2>3. CASE StartPumps(c)
    BY <2>3 DEF StartPumps
  <2>4. CASE ReadFails(c)
    BY <2>4 DEF ReadFails
  <2>5. CASE WriterTakes(c)
    BY <2>5 DEF WriterTakes
  <2>6. CASE WriterSeesClose(c)
    BY <2>6 DEF WriterSeesClose
  <2>7. CASE WriteSucceeds(c)
    BY <2>7 DEF WriteSucceeds
  <2>8. CASE WriteFails(c)
    BY <2>8 DEF WriteFails
  <2>9. CASE PeerDies(c)
    BY <2>9 DEF PeerDies
  <2>10. QED
    BY <1>7, <2>1, <2>2, <2>3, <2>4, <2>5, <2>6, <2>7, <2>8, <2>9 DEF Connection
<1>8. CASE UNCHANGED vars
  BY <1>8 DEF vars
<1>9. QED
  BY <1>1, <1>2, <1>3, <1>4, <1>5, <1>6, <1>7, <1>8 DEF Next, Run

LEMMA ClientInvCorrect == Spec => []ClientInv
<1>1. Init => ClientInv
  BY DEF Init, ClientInv, Registered, InSelect
<1>2. TypeOK /\ ClientInv /\ [Next]_vars => ClientInv'
  BY ClientInvInductive
<1>3. QED
  BY <1>1, <1>2, TypeCorrect, PTL DEF Spec

\* No step of the server ever sends on a closed channel or closes one twice,
\* however many connections come and go and whichever pump ends first.
THEOREM NeverPanics == Spec => []NoPanic
<1>1. ClientInv => NoPanic
  BY DEF ClientInv, NoPanic
<1>2. QED
  BY <1>1, ClientInvCorrect, PTL

\* When either pump of a connection has ended, the connection is released.
THEOREM EndedIsReleased == Spec => []EndedMeansReleased
<1>1. ClientInv => EndedMeansReleased
  BY DEF ClientInv, EndedMeansReleased, Registered
<1>2. QED
  BY <1>1, ClientInvCorrect, PTL
------------------------------------------------------------------------------
(* Order.  The message in hand is older than all that wait in broadcast and *)
(* newer than all that a client it has still to reach was ever given.       *)

AtMost(s, n) == \A i \in 1 .. Len(s) : s[i] <= n
Below(s, n) == \A i \in 1 .. Len(s) : s[i] < n
Above(s, n) == \A i \in 1 .. Len(s) : n < s[i]

\* What client c has got, is being written, and waits for it.
StreamInv(c) ==
  /\ Increasing(got[c]) /\ Increasing(send[c])
  /\ Before(got[c], writing[c]) /\ Before(got[c], send[c]) /\ Before(writing[c], send[c])
  /\ Before(got[c], broadcast) /\ Before(writing[c], broadcast) /\ Before(send[c], broadcast)
  /\ AtMost(got[c], sent) /\ AtMost(writing[c], sent) /\ AtMost(send[c], sent)
  /\ c \in fanout => Below(got[c], msg) /\ Below(writing[c], msg) /\ Below(send[c], msg)

OrderInv ==
  /\ Increasing(broadcast)
  /\ AtMost(broadcast, sent)
  /\ msg <= sent
  /\ msg # 0 => Above(broadcast, msg)
  /\ \A c \in Clients : StreamInv(c)

LEMMA AppendKeepsOrder ==
  ASSUME NEW s \in Seq(Nat), NEW n \in Nat, Increasing(s), Below(s, n)
  PROVE  /\ Increasing(Append(s, n))
         /\ \A t \in Seq(Nat) : Before(t, s) /\ Below(t, n) => Before(t, Append(s, n))
         /\ \A t \in Seq(Nat) : Before(s, t) /\ Above(t, n) => Before(Append(s, n), t)
         /\ \A m \in Nat : AtMost(s, m) /\ n <= m => AtMost(Append(s, n), m)
         /\ \A m \in Nat : Above(s, m) /\ m < n => Above(Append(s, n), m)
<1> DEFINE a == Append(s, n)
<1>1. /\ a \in Seq(Nat)
      /\ Len(a) = Len(s) + 1
      /\ \A i \in 1 .. Len(s) : a[i] = s[i]
      /\ a[Len(s) + 1] = n
  BY AppendElements
<1>2. \A i \in 1 .. Len(a) : i \in 1 .. Len(s) \/ i = Len(s) + 1
  BY <1>1
<1> HIDE DEF a
<1>3. Increasing(a)
  <2>1. SUFFICES ASSUME NEW i \in 1 .. Len(a), NEW j \in 1 .. Len(a), i < j
                 PROVE  a[i] < a[j]
    BY DEF Increasing
  <2>2. i \in 1 .. Len(s) /\ a[i] = s[i]
    BY <1>1, <1>2, <2>1, SMTT(30)
  <2>3. CASE j \in 1 .. Len(s)
    BY <1>1, <2>1, <2>2, <2>3 DEF Increasing
  <2>4. CASE j = Len(s) + 1
    BY <1>1, <2>2, <2>4 DEF Below
  <2>5. QED
    BY <1>2, <2>3, <2>4
<1>4. \A t \in Seq(Nat) : Before(t, s) /\ Below(t, n) => Before(t, a)
  BY <1>1, <1>2 DEF Before, Below
<1>5. \A t \in Seq(Nat) : Before(s, t) /\ Above(t, n) => Before(a, t)
  BY <1>1, <1>2 DEF Before, Above
<1>6. \A m \in Nat : AtMost(s, m) /\ n <= m => AtMost(a, m)
  BY <1>1, <1>2 DEF AtMost
<1>7. \A m \in Nat : Above(s, m) /\ m < n => Above(a, m)
  BY <1>1, <1>2 DEF Above
<1>8. QED
  BY <1>3, <1>4, <1>5, <1>6, <1>7 DEF a

LEMMA TailKeepsOrder ==
  ASSUME NEW s \in Seq(Nat), s # <<>>, Increasing(s)
  PROVE  /\ Increasing(Tail(s))
         /\ Above(Tail(s), Head(s))
         /\ \A t \in Seq(Nat) : Before(t, s) => Before(t, Tail(s)) /\ Below(t, Head(s))
         /\ \A t \in Seq(Nat) : Before(s, t) => Before(Tail(s), t) /\ Above(t, Head(s))
         /\ \A m \in Nat : AtMost(s, m) => AtMost(Tail(s), m) /\ Head(s) <= m
         /\ \A m \in Nat : Below(s, m) => Below(Tail(s), m) /\ Head(s) < m
         /\ \A m \in Nat : Above(s, m) => Above(Tail(s), m) /\ m < Head(s)
BY HeadAndTail DEF Increasing, Below, Above, Before, AtMost

LEMMA OneElement ==
  ASSUME NEW n \in Nat
  PROVE  /\ <<n>> \in Seq(Nat) /\ <<n>> # <<>>
         /\ Head(<<n>>) = n
         /\ \A t \in Seq(Nat) : Before(t, <<n>>) <=> Below(t, n)
         /\ \A t \in Seq(Nat) : Before(<<n>>, t) <=> Above(t, n)
         /\ \A m \in Nat : AtMost(<<n>>, m) <=> n <= m
         /\ \A m \in Nat : Below(<<n>>, m) <=> n < m
BY DEF Before, Below, Above, AtMost

LEMMA EmptyOrder ==
  /\ Increasing(<<>>)
  /\ \A t \in Seq(Nat) : Before(t, <<>>) /\ Before(<<>>, t)
  /\ \A m \in Nat : AtMost(<<>>, m) /\ Below(<<>>, m) /\ Above(<<>>, m)
BY DEF Increasing, Before, Below, Above, AtMost

\* Messages are only ever moved from the head of one queue to the tail of the
\* next, so each action disturbs the order at one place of one client.
LEMMA OrderInvInductive ==
  ASSUME TypeOK, ClientInv, OrderInv, [Next]_vars
  PROVE  OrderInv'
<1> USE DEF TypeOK, OrderInv, runVars, pumpVars
<1>1. CASE Broadcast
  <2>1. CASE broadcast' = broadcast
    <3>1. sent' = sent + 1 /\ UNCHANGED <<fanout, msg, send, writing, got>>
      BY <1>1 DEF Broadcast
    <3>2. \A t \in Seq(Nat) : AtMost(t, sent) => AtMost(t, sent')
      BY <3>1 DEF AtMost
    <3>3. \A c \in Clients : StreamInv(c)'
      BY <2>1, <3>1, <3>2 DEF StreamInv
    <3>4. QED
      BY <2>1, <3>1, <3>2, <3>3
  <2>2. CASE broadcast' = Append(broadcast, sent + 1)
    <3>1. sent' = sent + 1 /\ sent + 1 \in Nat
      BY <1>1 DEF Broadcast
    <3>2. \A t \in Seq(Nat) : AtMost(t, sent) => AtMost(t, sent + 1) /\ Below(t, sent + 1)
      BY DEF AtMost, Below
    <3>3. Increasing(broadcast') /\ AtMost(broadcast', sent')
      BY <2>2, <3>1, <3>2, AppendKeepsOrder
    <3>4. msg # 0 => Above(broadcast', msg)
      BY <2>2, <3>1, <3>2, AppendKeepsOrder
    <3>5. \A t \in Seq(Nat) : Before(t, broadcast) /\ AtMost(t, sent) => Before(t, broadcast')
      BY <2>2, <3>1, <3>2, AppendKeepsOrder
    <3>6. \A c \in Clients : StreamInv(c)'
      BY <1>1, <3>1, <3>2, <3>5 DEF Broadcast, StreamInv
    <3>7. QED
      BY <1>1, <3>1, <3>3, <3>4, <3>6 DEF Broadcast
  <2>3. QED
    BY <1>1, <2>1, <2>2 DEF Broadcast
<1>2. CASE RunTakeMessage
  <2>1. /\ broadcast \in Seq(Nat) /\ broadcast # <<>>
        /\ broadcast' = Tail(broadcast)
        /\ Head(broadcast) \in Nat
        /\ msg' \in {0, Head(broadcast)}
        /\ fanout' # {} => msg' = Head(broadcast)
        /\ UNCHANGED <<send, got, writing, sent>>
    BY <1>2, HeadAndTail DEF RunTakeMessage
  <2>2. Increasing(broadcast') /\ AtMost(broadcast', sent) /\ Head(broadcast) <= sent
    BY <2>1, TailKeepsOrder
  <2>3. msg' # 0 => Above(broadcast', msg')
    BY <2>1, TailKeepsOrder
  <2>4. \A t \in Seq(Nat) :
          Before(t, broadcast) => Before(t, broadcast') /\ Below(t, Head(broadcast))
    BY <2>1, TailKeepsOrder
  <2>5. \A c \in Clients : StreamInv(c)'
    BY <2>1, <2>4 DEF StreamInv
  <2>6. QED
    BY <2>1, <2>2, <2>3, <2>5
<1>3. ASSUME NEW c \in Clients, RunRegister(c) PROVE OrderInv'
  BY <1>3 DEF RunRegister, StreamInv
<1>4. ASSUME NEW c \in Clients, RunUnregisterReader(c) PROVE OrderInv'
  BY <1>4 DEF RunUnregisterReader, StreamInv
<1>5. ASSUME NEW c \in Clients, RunUnregisterWriter(c) PROVE OrderInv'
  BY <1>5 DEF RunUnregisterWriter, StreamInv
<1>6. ASSUME NEW c \in Clients, RunFanOut(c) PROVE OrderInv'
  <2>1. /\ c \in fanout /\ msg # 0
        /\ fanout' = fanout \ {c}
        /\ msg' \in {0, msg}
        /\ fanout' # {} => msg' = msg
        /\ UNCHANGED <<broadcast, got, writing, sent>>
        /\ send'[c] \in {send[c], Append(send[c], msg)}
        /\ \A d \in Clients : d # c => send'[d] = send[d]
    BY <1>6 DEF RunFanOut, ClientInv, InSelect
  <2>2. ASSUME NEW d \in Clients, d # c PROVE StreamInv(d)'
    BY <2>1, <2>2 DEF StreamInv
  <2>3. StreamInv(c)'
    <3>1. CASE send'[c] = send[c]
      BY <2>1, <3>1 DEF StreamInv
    <3>2. CASE send'[c] = Append(send[c], msg)
      <4>1. StreamInv(c) /\ Below(got[c], msg) /\ Below(writing[c], msg) /\ Below(send[c], msg)
        BY <2>1 DEF StreamInv
      <4>2. /\ Increasing(send'[c])
            /\ Before(got[c], send'[c]) /\ Before(writing[c], send'[c])
            /\ Before(send'[c], broadcast) /\ AtMost(send'[c], sent)
        BY <2>1, <3>2, <4>1, AppendKeepsOrder DEF StreamInv
      <4>3. QED
        BY <2>1, <4>1, <4>2 DEF StreamInv
    <3>3. QED
      BY <2>1, <3>1, <3>2
  <2>4. QED
    BY <2>1, <2>2, <2>3
<1>7. ASSUME NEW c \in Clients, WriterTakes(c) PROVE OrderInv'
  <2>1. /\ send[c] \in Seq(Nat) /\ send[c] # <<>> /\ Head(send[c]) \in Nat
        /\ writing' = [writing EXCEPT ![c] = <<Head(send[c])>>]
        /\ send' = [send EXCEPT ![c] = Tail(send[c])]
        /\ UNCHANGED <<broadcast, fanout, msg, got, sent>>
    BY <1>7, HeadAndTail, SMTT(30) DEF WriterTakes
  <2>2. writing'[c] = <<Head(send[c])>> /\ send'[c] = Tail(send[c])
    BY <2>1
  <2>3. ASSUME NEW d \in Clients, d # c PROVE StreamInv(d)'
    BY <2>1, <2>3 DEF StreamInv
  <2>4. StreamInv(c)
    OBVIOUS
  <2>5. /\ Increasing(Tail(send[c])) /\ Before(got[c], Tail(send[c]))
        /\ Before(Tail(send[c]), broadcast) /\ AtMost(Tail(send[c]), sent)
        /\ c \in fanout => Below(Tail(send[c]), msg)
    BY <2>1, <2>4, TailKeepsOrder DEF StreamInv
  <2>6. /\ Before(got[c], <<Head(send[c])>>) /\ Before(<<Head(send[c])>>, Tail(send[c]))
        /\ Before(<<Head(send[c])>>, broadcast) /\ AtMost(<<Head(send[c])>>, sent)
        /\ c \in fanout => Below(<<Head(send[c])>>, msg)
    BY <2>1, <2>4, TailKeepsOrder, OneElement, HeadAndTail DEF StreamInv
  <2>7. StreamInv(c)'
    BY <2>1, <2>2, <2>4, <2>5, <2>6 DEF StreamInv
  <2>8. QED
    BY <2>1, <2>3, <2>7
<1>8. ASSUME NEW c \in Clients, WriteSucceeds(c) PROVE OrderInv'
  <2>1. /\ writing[c] \in Seq(Nat) /\ writing[c] # <<>> /\ Head(writing[c]) \in Nat
        /\ got' = [got EXCEPT ![c] = Append(got[c], Head(writing[c]))]
        /\ writing' = [writing EXCEPT ![c] = <<>>]
        /\ UNCHANGED <<broadcast, fanout, msg, send, sent>>
    BY <1>8, HeadAndTail DEF WriteSucceeds
  <2>2. got'[c] = Append(got[c], Head(writing[c])) /\ writing'[c] = <<>>
    BY <2>1
  <2>3. ASSUME NEW d \in Clients, d # c PROVE StreamInv(d)'
    BY <2>1, <2>3 DEF StreamInv
  <2>4. StreamInv(c)
    OBVIOUS
  <2>5. /\ Below(got[c], Head(writing[c])) /\ Above(send[c], Head(writing[c]))
        /\ Above(broadcast, Head(writing[c])) /\ Head(writing[c]) <= sent
        /\ c \in fanout => Head(writing[c]) < msg
    BY <2>1, <2>4, HeadAndTail DEF StreamInv, Before, Below, Above, AtMost
  <2>6. /\ Increasing(got'[c]) /\ Before(got'[c], send[c])
        /\ Before(got'[c], broadcast) /\ AtMost(got'[c], sent)
    BY <2>1, <2>2, <2>4, <2>5, AppendKeepsOrder DEF StreamInv
  <2>7. c \in fanout => Below(got'[c], msg)
    BY <2>1, <2>2, <2>4, <2>5, AppendElements, SMTT(30) DEF StreamInv, Below
  <2>8. got'[c] \in Seq(Nat)
    BY <2>1, <2>2, AppendElements
  <2>9. StreamInv(c)'
    BY <2>1, <2>2, <2>4, <2>6, <2>7, <2>8, EmptyOrder DEF StreamInv
  <2>10. QED
    BY <2>1, <2>3, <2>9
<1>9. ASSUME NEW c \in Clients, WriteFails(c) PROVE OrderInv'
  <2>1. /\ writing' = [writing EXCEPT ![c] = <<>>]
        /\ UNCHANGED <<broadcast, fanout, msg, send, got, sent>>
    BY <1>9 DEF WriteFails
  <2>2. ASSUME NEW d \in Clients PROVE StreamInv(d)'
    <3>1. CASE d = c
      BY <2>1, <3>1, EmptyOrder DEF StreamInv
    <3>2. CASE d # c
      BY <2>1, <3>2 DEF StreamInv
    <3>3. QED
      BY <3>1, <3>2
  <2>3. QED
    BY <2>1, <2>2
<1>10. ASSUME NEW c \in Clients,
              \/ Reject(c) \/ Upgrade(c) \/ StartPumps(c)
              \/ ReadFails(c) \/ WriterSeesClose(c) \/ PeerDies(c)
       PROVE  OrderInv'
  <2>1. UNCHANGED <<broadcast, fanout, msg, send, writing, got, sent>>
    BY <1>10 DEF Reject, Upgrade, StartPumps, ReadFails, WriterSeesClose, PeerDies
  <2>2. QED
    BY <2>1 DEF StreamInv
<1>11. CASE UNCHANGED vars
  BY <1>11 DEF vars, StreamInv
<1>12. QED
  BY <1>1, <1>2, <1>3, <1>4, <1>5, <1>6, <1>7, <1>8, <1>9, <1>10, <1>11
  DEF Next, Run, Connection

LEMMA InitOrder == Init => OrderInv
<1> SUFFICES ASSUME Init PROVE OrderInv
  OBVIOUS
<1>1. \A c \in Clients : StreamInv(c)
  <2>1. SUFFICES ASSUME NEW c \in Clients PROVE StreamInv(c)
    OBVIOUS
  <2>2. /\ got[c] = <<>> /\ writing[c] = <<>> /\ send[c] = <<>>
        /\ broadcast = <<>> /\ sent = 0 /\ fanout = {} /\ <<>> \in Seq(Nat)
    BY DEF Init
  <2>3. QED
    BY <2>2, EmptyOrder DEF StreamInv
<1>2. QED
  BY <1>1, EmptyOrder DEF Init, OrderInv

\* Every connection receives what the forwarders broadcast in the order they
\* broadcast it, whatever is dropped and whoever is slow.
THEOREM DeliveredInOrder == Spec => []InOrder
<1>1. Init => OrderInv
  BY InitOrder
<1>2. TypeOK /\ ClientInv /\ OrderInv /\ [Next]_vars => OrderInv'
  BY OrderInvInductive
<1>3. OrderInv => InOrder
  BY DEF OrderInv, InOrder, StreamInv
<1>4. QED
  BY <1>1, <1>2, <1>3, TypeCorrect, ClientInvCorrect, PTL DEF Spec
------------------------------------------------------------------------------
(* The lossy stream to each connection.                                      *)

Positive(s) == \A i \in 1 .. Len(s) : s[i] # 0

\* A client is never given the 0 that stands for no message in hand.
Numbered == \A c \in Clients : Positive(send[c]) /\ Positive(writing[c])

LEMMA NumberedInductive ==
  ASSUME TypeOK, ClientInv, Numbered, [Next]_vars
  PROVE  Numbered'
<1>0. send \in [Clients -> Seq(Nat)] /\ writing \in [Clients -> Seq(Nat)] /\ msg \in Nat
  BY DEF TypeOK
<1>1. CASE UNCHANGED <<send, writing>>
  BY <1>1 DEF Numbered
<1>2. ASSUME NEW c \in Clients, RunFanOut(c) PROVE Numbered'
  <2>1. msg # 0
    BY <1>2 DEF RunFanOut, ClientInv, InSelect
  <2>2. /\ send' = [send EXCEPT ![c] = IF Len(@) < SendCap THEN Append(@, msg) ELSE @]
        /\ writing' = writing
    BY <1>2 DEF RunFanOut, pumpVars
  <2>3. Positive(Append(send[c], msg))
    <3>1. /\ Len(Append(send[c], msg)) = Len(send[c]) + 1 /\ Len(send[c]) \in Nat
          /\ \A i \in 1 .. Len(send[c]) : Append(send[c], msg)[i] = send[c][i]
          /\ Append(send[c], msg)[Len(send[c]) + 1] = msg
      BY <1>0, AppendElements
    <3>2. \A i \in 1 .. Len(send[c]) + 1 : i \in 1 .. Len(send[c]) \/ i = Len(send[c]) + 1
      BY <3>1
    <3>3. QED
      BY <2>1, <3>1, <3>2 DEF Numbered, Positive
  <2>4. \A d \in Clients : send'[d] = send[d] \/ (d = c /\ send'[d] = Append(send[c], msg))
    BY <1>0, <2>2
  <2>5. QED
    BY <2>2, <2>3, <2>4 DEF Numbered
<1>3. ASSUME NEW c \in Clients, WriterTakes(c) PROVE Numbered'
  <2>1. /\ send[c] \in Seq(Nat) /\ send[c] # <<>>
        /\ writing' = [writing EXCEPT ![c] = <<Head(send[c])>>]
        /\ send' = [send EXCEPT ![c] = Tail(send[c])]
    BY <1>0, <1>3 DEF WriterTakes
  <2>2. Positive(Tail(send[c])) /\ Positive(<<Head(send[c])>>)
    <3>1. /\ Head(send[c]) = send[c][1] /\ 1 \in 1 .. Len(send[c])
          /\ \A i \in 1 .. Len(Tail(send[c])) :
               i + 1 \in 1 .. Len(send[c]) /\ Tail(send[c])[i] = send[c][i + 1]
      BY <2>1, HeadAndTail
    <3>2. QED
      BY <3>1 DEF Numbered, Positive
  <2>3. ASSUME NEW d \in Clients PROVE Positive(send'[d]) /\ Positive(writing'[d])
    <3>1. CASE d = c
      <4>1. send'[d] = Tail(send[c]) /\ writing'[d] = <<Head(send[c])>>
        BY <1>0, <2>1, <3>1
      <4>2. QED
        BY <2>2, <4>1
    <3>2. CASE d # c
      <4>1. send'[d] = send[d] /\ writing'[d] = writing[d]
        BY <1>0, <2>1, <3>2
      <4>2. QED
        BY <4>1 DEF Numbered
    <3>3. QED
      BY <3>1, <3>2
  <2>4. QED
    BY <2>3 DEF Numbered
<1>4. ASSUME NEW c \in Clients, WriteSucceeds(c) \/ WriteFails(c) PROVE Numbered'
  <2>1. writing' = [writing EXCEPT ![c] = <<>>] /\ send' = send
    BY <1>4 DEF WriteSucceeds, WriteFails
  <2>2. \A d \in Clients : writing'[d] = writing[d] \/ writing'[d] = <<>>
    BY <1>0, <2>1
  <2>3. QED
    BY <2>1, <2>2 DEF Numbered, Positive
<1>5. QED
  BY <1>1, <1>2, <1>3, <1>4
  DEF Next, Run, Connection, Broadcast, RunTakeMessage, RunRegister, RunUnregisterReader,
      RunUnregisterWriter, Reject, Upgrade, StartPumps, ReadFails, WriterSeesClose,
      PeerDies, pumpVars, vars

\* To every connection the hub is a lossy stream: each message it writes was
\* broadcast, none twice, and none after a later one, however many connections
\* there are and whatever is dropped (hub.go:35-71).
THEOREM HubImplementsStream == Spec => ImplementsLossyStream
<1>1. Init => Stream!Init
  BY DEF Init, Stream!Init
<1>2. TypeOK /\ OrderInv /\ Numbered /\ [Next]_vars => [Stream!Next]_Stream!streamVars
  <2> SUFFICES ASSUME TypeOK, OrderInv, Numbered, [Next]_vars
               PROVE  [Stream!Next]_Stream!streamVars
    OBVIOUS
  <2>0. /\ got \in [Clients -> Seq(Nat)] /\ writing \in [Clients -> Seq(Nat)]
        /\ sent \in Nat
    BY DEF TypeOK
  <2>1. CASE UNCHANGED <<sent, got>>
    BY <2>1 DEF Stream!streamVars
  <2>2. CASE Broadcast
    <3>1. sent' = sent + 1 /\ got' = got
      BY <2>2 DEF Broadcast, pumpVars
    <3>2. Stream!Send
      BY <2>0, <3>1 DEF Stream!Send
    <3>3. QED
      BY <3>2 DEF Stream!Next
  <2>3. ASSUME NEW c \in Clients, WriteSucceeds(c) PROVE Stream!Deliver(c)
    <3>1. /\ writing[c] \in Seq(Nat) /\ writing[c] # <<>>
          /\ got' = [got EXCEPT ![c] = Append(@, Head(writing[c]))] /\ sent' = sent
      BY <2>0, <2>3 DEF WriteSucceeds
    <3>2. PICK n : n = Head(writing[c])
      OBVIOUS
    <3>3. n = writing[c][1] /\ 1 \in 1 .. Len(writing[c]) /\ n \in Nat
      BY <3>1, <3>2, HeadAndTail
    <3>4. n \in 1 .. sent
      BY <2>0, <3>3 DEF OrderInv, StreamInv, AtMost, Numbered, Positive
    <3>5. \A k \in 1 .. Len(got[c]) : got[c][k] < n
      BY <3>3 DEF OrderInv, StreamInv, Before
    <3>6. got' = [got EXCEPT ![c] = Append(@, n)]
      BY <3>1, <3>2
    <3>7. QED
      BY <2>0, <3>1, <3>4, <3>5, <3>6 DEF Stream!Deliver
  <2>4. QED
    BY <2>1, <2>2, <2>3
    DEF Next, Run, Connection, RunTakeMessage, RunRegister, RunUnregisterReader,
        RunUnregisterWriter, RunFanOut, Reject, Upgrade, StartPumps, ReadFails, WriterTakes,
        WriterSeesClose, WriteFails, PeerDies, pumpVars, vars, Stream!Next
<1>3. Init => Numbered /\ OrderInv
  BY InitOrder DEF Init, Numbered, Positive
<1>4. TypeOK /\ ClientInv /\ Numbered /\ OrderInv /\ [Next]_vars => (Numbered /\ OrderInv)'
  BY NumberedInductive, OrderInvInductive
<1>5. QED
  BY <1>1, <1>2, <1>3, <1>4, TypeCorrect, ClientInvCorrect, PTL
  DEF Spec, ImplementsLossyStream, Stream!Spec
------------------------------------------------------------------------------
(* What is lost, and when.                                                   *)

LEMMA ElemsOfAppend ==
  ASSUME NEW s \in Seq(Nat), NEW n \in Nat
  PROVE  Elems(Append(s, n)) = Elems(s) \cup {n}
  BY AppendElements DEF Elems

LEMMA ElemsOfTail ==
  ASSUME NEW s \in Seq(Nat), s # <<>>
  PROVE  Head(s) \in Nat /\ Elems(s) = Elems(Tail(s)) \cup {Head(s)}
<1>1. /\ Head(s) = s[1] /\ Len(s) >= 1 /\ Len(s) \in Nat /\ Head(s) \in Nat
      /\ Len(Tail(s)) = Len(s) - 1
      /\ \A i \in 1 .. Len(Tail(s)) : Tail(s)[i] = s[i + 1]
  BY HeadAndTail
<1>2. ASSUME NEW x \in Elems(s) PROVE x \in Elems(Tail(s)) \cup {Head(s)}
  <2>1. PICK i \in 1 .. Len(s) : x = s[i]
    BY DEF Elems
  <2>2. CASE i = 1
    BY <1>1, <2>1, <2>2
  <2>3. CASE i # 1
    <3>1. i - 1 \in 1 .. Len(Tail(s)) /\ (i - 1) + 1 = i
      BY <1>1, <2>1, <2>3
    <3>2. Tail(s)[i - 1] = x
      BY <1>1, <2>1, <3>1
    <3>3. QED
      BY <3>1, <3>2 DEF Elems
  <2>4. QED
    BY <2>2, <2>3
<1>3. Elems(Tail(s)) \subseteq Elems(s) /\ Head(s) \in Elems(s)
  <2>1. \A i \in 1 .. Len(Tail(s)) : i + 1 \in 1 .. Len(s)
    BY <1>1
  <2>2. 1 \in 1 .. Len(s)
    BY <1>1
  <2>3. QED
    BY <1>1, <2>1, <2>2 DEF Elems
<1>4. QED
  BY <1>1, <1>2, <1>3

\* A WritePump writes one message at a time.
OneWrite == \A c \in Clients : Len(writing[c]) <= 1

LEMMA OneWriteAlways == Spec => []OneWrite
<1>1. Init => OneWrite
  <2> SUFFICES ASSUME Init, NEW c \in Clients PROVE Len(writing[c]) <= 1
    BY DEF OneWrite
  <2>1. writing[c] = <<>>
    BY DEF Init
  <2>2. QED
    BY <2>1
<1>2. TypeOK /\ OneWrite /\ [Next]_vars => OneWrite'
  <2> SUFFICES ASSUME TypeOK, OneWrite, [Next]_vars PROVE OneWrite'
    OBVIOUS
  <2>1. writing \in [Clients -> Seq(Nat)]
    BY DEF TypeOK
  <2>2. CASE UNCHANGED writing
    BY <2>2 DEF OneWrite
  <2>3. ASSUME NEW c \in Clients, WriterTakes(c) PROVE OneWrite'
    <3>1. writing' = [writing EXCEPT ![c] = <<Head(send[c])>>]
      BY <2>3 DEF WriterTakes
    <3>2. QED
      BY <2>1, <3>1 DEF OneWrite
  <2>4. ASSUME NEW c \in Clients, WriteSucceeds(c) \/ WriteFails(c) PROVE OneWrite'
    <3>1. writing' = [writing EXCEPT ![c] = <<>>]
      BY <2>4 DEF WriteSucceeds, WriteFails
    <3>2. QED
      BY <2>1, <3>1 DEF OneWrite
  <2>5. QED
    BY <2>2, <2>3, <2>4 DEF Next, Run, Connection, Broadcast, RunTakeMessage, RunRegister,
       RunUnregisterReader, RunUnregisterWriter, RunFanOut, Reject, Upgrade, StartPumps,
       ReadFails, WriterSeesClose, PeerDies, pumpVars, vars
<1>3. QED
  BY <1>1, <1>2, TypeCorrect, PTL DEF Spec

\* What waits for client c behind broadcast.
Behind(c) == (IF c \in fanout THEN {msg} ELSE {})
               \cup Elems(send[c]) \cup Elems(writing[c]) \cup Elems(got[c])

\* A step of connection d loses no message but one whose write fails.
LEMMA ConnectionKeeps ==
  ASSUME TypeOK, OneWrite, NEW c \in Clients, NEW d \in Clients, Connection(d)
  PROVE  /\ sent' = sent /\ broadcast' = broadcast
         /\ \A m \in Behind(c) \ Behind(c)' : m \in Elems(writing[c]) /\ wpump'[c] = "closing"
<1>1. /\ send[c] \in Seq(Nat) /\ writing[c] \in Seq(Nat) /\ got[c] \in Seq(Nat)
      /\ send \in [Clients -> Seq(Nat)] /\ writing \in [Clients -> Seq(Nat)]
      /\ got \in [Clients -> Seq(Nat)] /\ wpump \in [Clients -> PumpPC]
  BY DEF TypeOK
<1>2. fanout' = fanout /\ msg' = msg /\ sent' = sent /\ broadcast' = broadcast
  BY DEF Connection, Reject, Upgrade, StartPumps, ReadFails, WriterTakes, WriterSeesClose,
     WriteSucceeds, WriteFails, PeerDies, runVars
<1>3. CASE UNCHANGED <<send, writing, got>>
  BY <1>2, <1>3 DEF Behind
<1>4. CASE WriterTakes(d)
  <2>1. CASE c = d
    <3>1. /\ writing[c] = <<>> /\ send[c] # <<>> /\ got'[c] = got[c]
          /\ writing'[c] = <<Head(send[c])>> /\ send'[c] = Tail(send[c])
      BY <1>1, <1>4, <2>1 DEF WriterTakes
    <3>2. Elems(send[c]) = Elems(send'[c]) \cup {Head(send[c])} /\ Head(send[c]) \in Nat
      BY <1>1, <3>1, ElemsOfTail
    <3>3. Head(send[c]) \in Elems(writing'[c]) /\ Elems(writing[c]) = {}
      BY <3>1, <3>2 DEF Elems
    <3>4. QED
      BY <1>2, <3>1, <3>2, <3>3 DEF Behind
  <2>2. CASE c # d
    BY <1>1, <1>2, <1>4, <2>2 DEF WriterTakes, Behind
  <2>3. QED
    BY <2>1, <2>2
<1>5. CASE WriteSucceeds(d)
  <2>1. CASE c = d
    <3>1. /\ writing[c] # <<>> /\ send'[c] = send[c]
          /\ got'[c] = Append(got[c], Head(writing[c]))
      BY <1>1, <1>5, <2>1 DEF WriteSucceeds
    <3>2. Head(writing[c]) \in Nat /\ Elems(writing[c]) = {Head(writing[c])}
      <4>1. /\ Len(writing[c]) >= 1 /\ Len(writing[c]) \in Nat
            /\ Head(writing[c]) = writing[c][1] /\ Head(writing[c]) \in Nat
        BY <1>1, <3>1, HeadAndTail
      <4>2. Len(writing[c]) <= 1
        BY DEF OneWrite
      <4>3. 1 .. Len(writing[c]) = {1}
        BY <4>1, <4>2
      <4>4. QED
        BY <4>1, <4>3 DEF Elems
    <3>3. Elems(got'[c]) = Elems(got[c]) \cup Elems(writing[c])
      BY <1>1, <3>1, <3>2, ElemsOfAppend
    <3>4. QED
      BY <1>2, <3>1, <3>3 DEF Behind
  <2>2. CASE c # d
    BY <1>1, <1>2, <1>5, <2>2 DEF WriteSucceeds, Behind
  <2>3. QED
    BY <2>1, <2>2
<1>6. CASE WriteFails(d)
  <2>1. CASE c = d
    <3>1. send'[c] = send[c] /\ got'[c] = got[c] /\ wpump'[c] = "closing"
      BY <1>1, <1>6, <2>1 DEF WriteFails
    <3>2. QED
      BY <1>2, <3>1 DEF Behind
  <2>2. CASE c # d
    BY <1>1, <1>2, <1>6, <2>2 DEF WriteFails, Behind
  <2>3. QED
    BY <2>1, <2>2
<1>7. QED
  BY <1>2, <1>3, <1>4, <1>5, <1>6 DEF Connection, Reject, Upgrade, StartPumps, ReadFails,
     WriterSeesClose, PeerDies, pumpVars

\* One slow or failing client costs nobody else a message, and itself no other:
\* for any number of clients and any capacities (hub.go:50-57, 65-71).
THEOREM OnlyFullQueuesLose == Spec => OnlyFullQueuesDrop
<1> DEFINE Step == \A c \in clients \cap clients' :
       /\ sent' # sent /\ Len(broadcast) < BroadcastCap => sent' \in OnTheWay(c)'
       /\ \A m \in OnTheWay(c) \ OnTheWay(c)' :
            \/ c \in fanout /\ m = msg /\ Len(send[c]) >= SendCap
            \/ m \in Elems(writing[c]) /\ wpump'[c] = "closing"
<1>1. TypeOK /\ ClientInv /\ OneWrite /\ [Next]_vars => Step
  <2> SUFFICES ASSUME TypeOK, ClientInv, OneWrite, [Next]_vars, NEW c \in clients, c \in clients'
               PROVE  /\ sent' # sent /\ Len(broadcast) < BroadcastCap => sent' \in OnTheWay(c)'
                      /\ \A m \in OnTheWay(c) \ OnTheWay(c)' :
                           \/ c \in fanout /\ m = msg /\ Len(send[c]) >= SendCap
                           \/ m \in Elems(writing[c]) /\ wpump'[c] = "closing"
    OBVIOUS
  <2>1. /\ c \in Clients /\ broadcast \in Seq(Nat) /\ sent \in Nat /\ msg \in Nat
        /\ send \in [Clients -> Seq(Nat)]
    BY DEF TypeOK
  <2>2. /\ OnTheWay(c) = Elems(broadcast) \cup Behind(c)
        /\ OnTheWay(c)' = Elems(broadcast') \cup Behind(c)'
    BY DEF OnTheWay, Behind
  <2>3. CASE Broadcast
    <3>1. /\ sent' = sent + 1 /\ Behind(c)' = Behind(c)
          /\ broadcast' = IF Len(broadcast) < BroadcastCap
                          THEN Append(broadcast, sent + 1) ELSE broadcast
      BY <2>3 DEF Broadcast, Behind, runVars, pumpVars
    <3>2. Elems(Append(broadcast, sent + 1)) = Elems(broadcast) \cup {sent + 1}
      BY <2>1, ElemsOfAppend
    <3>3. QED
      BY <2>2, <3>1, <3>2
  <2>4. CASE RunTakeMessage
    <3>1. /\ sent' = sent /\ broadcast # <<>> /\ broadcast' = Tail(broadcast)
          /\ msg' = Head(broadcast) /\ fanout' = clients /\ c \notin fanout
          /\ UNCHANGED <<send, writing, got>>
      BY <2>4 DEF RunTakeMessage, ClientInv, pumpVars
    <3>2. Elems(broadcast) = Elems(broadcast') \cup {msg'}
      BY <2>1, <3>1, ElemsOfTail
    <3>3. Behind(c)' = {msg'} \cup Behind(c)
      BY <3>1 DEF Behind
    <3>4. QED
      BY <2>2, <3>1, <3>2, <3>3
  <2>5. ASSUME NEW d \in Clients, RunFanOut(d)
        PROVE  /\ sent' # sent /\ Len(broadcast) < BroadcastCap => sent' \in OnTheWay(c)'
               /\ \A m \in OnTheWay(c) \ OnTheWay(c)' :
                    \/ c \in fanout /\ m = msg /\ Len(send[c]) >= SendCap
                    \/ m \in Elems(writing[c]) /\ wpump'[c] = "closing"
    <3>1. /\ d \in fanout /\ sent' = sent /\ broadcast' = broadcast
          /\ fanout' = fanout \ {d} /\ msg' = IF fanout = {d} THEN 0 ELSE msg
          /\ UNCHANGED <<writing, got>>
          /\ send' = [send EXCEPT ![d] = IF Len(send[d]) < SendCap
                                         THEN Append(send[d], msg) ELSE send[d]]
      BY <2>5 DEF RunFanOut, pumpVars
    <3>2. CASE c = d /\ Len(send[c]) < SendCap
      <4>1. send'[c] = Append(send[c], msg) /\ send[c] \in Seq(Nat)
        BY <2>1, <3>1, <3>2
      <4>2. Elems(send'[c]) = Elems(send[c]) \cup {msg}
        BY <2>1, <4>1, ElemsOfAppend
      <4>3. Behind(c) \subseteq Behind(c)'
        BY <3>1, <4>2 DEF Behind
      <4>4. QED
        BY <2>2, <3>1, <4>3
    <3>3. CASE c = d /\ ~ (Len(send[c]) < SendCap)
      <4>1. send'[c] = send[c] /\ Len(send[c]) >= SendCap
        <5>1. Len(send[c]) \in Nat
          BY <2>1
        <5>2. QED
          BY <2>1, <3>1, <3>3, <5>1
      <4>2. Behind(c) \subseteq Behind(c)' \cup {msg}
        BY <3>1, <4>1 DEF Behind
      <4>3. QED
        BY <2>2, <3>1, <3>3, <4>1, <4>2
    <3>4. CASE c # d
      <4>1. send'[c] = send[c] /\ (c \in fanout => c \in fanout' /\ msg' = msg)
        BY <2>1, <3>1, <3>4
      <4>2. Behind(c) \subseteq Behind(c)'
        BY <3>1, <4>1 DEF Behind
      <4>3. QED
        BY <2>2, <3>1, <4>2
    <3>5. QED
      BY <3>2, <3>3, <3>4
  <2>6. ASSUME NEW d \in Clients, Connection(d)
        PROVE  /\ sent' # sent /\ Len(broadcast) < BroadcastCap => sent' \in OnTheWay(c)'
               /\ \A m \in OnTheWay(c) \ OnTheWay(c)' :
                    \/ c \in fanout /\ m = msg /\ Len(send[c]) >= SendCap
                    \/ m \in Elems(writing[c]) /\ wpump'[c] = "closing"
    <3>1. /\ sent' = sent /\ broadcast' = broadcast
          /\ \A m \in Behind(c) \ Behind(c)' : m \in Elems(writing[c]) /\ wpump'[c] = "closing"
      BY <2>1, <2>6, ConnectionKeeps
    <3>2. QED
      BY <2>2, <3>1
  <2>7. CASE UNCHANGED <<broadcast, fanout, msg, send, writing, got, sent>>
    BY <2>2, <2>7 DEF Behind
  <2>8. QED
    BY <2>3, <2>4, <2>5, <2>6, <2>7 DEF Next, Run, RunRegister, RunUnregisterReader,
       RunUnregisterWriter, Drop, InSelect, pumpVars, vars
<1>2. QED
  BY <1>1, TypeCorrect, ClientInvCorrect, OneWriteAlways, PTL DEF Spec, OnlyFullQueuesDrop
==============================================================================
