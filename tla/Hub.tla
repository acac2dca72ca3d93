--------------------------------- MODULE Hub ---------------------------------
(***************************************************************************)
(* The WebSocket hub (internal/ws/hub.go) with the two goroutines of every *)
(* connection, ReadPump and WritePump, and the handler ServeWS that starts *)
(* them (internal/api/ws_handler.go).                                      *)
(*                                                                         *)
(* One goroutine, Run, owns the map of clients.  register and unregister   *)
(* are unbuffered: a sender blocks until Run receives.  broadcast and each *)
(* Send are buffered and are written without blocking: a full one drops.   *)
(* A Client is one connection; a browser that reconnects is a new Client.  *)
(* Messages are numbered in the order Broadcast is called.                 *)
(***************************************************************************)
EXTENDS Naturals, Sequences

CONSTANTS
  Clients,       \* connections that may be made
  BroadcastCap,  \* cap(h.broadcast), 1024 in the code
  SendCap,       \* cap(c.Send), 512 in the code
  MaxMsg         \* bound: number of calls of Broadcast

ASSUME HubAssumption ==
  /\ BroadcastCap \in Nat \ {0}
  /\ SendCap \in Nat \ {0}
  /\ MaxMsg \in Nat

VARIABLES
  clients,    \* the keys of h.clients
  broadcast,  \* contents of h.broadcast
  fanout,     \* clients Run has still to visit for the message in hand
  msg,        \* the message in hand, 0 when Run is in its select
  send,       \* contents of each c.Send
  sendClosed, \* close(c.Send) was executed
  connClosed, \* c.Conn.Close() was executed
  alive,      \* environment: the peer still reads and answers pings
  handler,    \* where ServeWS is
  rpump,      \* where ReadPump is
  wpump,      \* where WritePump is
  writing,    \* the message WritePump is writing, as a sequence of length <= 1
  got,        \* history: messages written to the connection
  sent,       \* history: number of calls of Broadcast
  panicked    \* a send on, or a close of, a closed channel was executed

runVars  == <<clients, fanout, msg>>
pumpVars == <<rpump, wpump, writing, got>>
vars == <<clients, broadcast, fanout, msg, send, sendClosed, connClosed, alive,
          handler, rpump, wpump, writing, got, sent, panicked>>

HandlerPC == {"none", "rejected", "registering", "registered", "returned"}
\* closing: blocked in onClose, that is in h.unregister <- c
PumpPC == {"off", "run", "closing", "done"}

Init ==
  /\ clients = {}
  /\ broadcast = <<>>
  /\ fanout = {}
  /\ msg = 0
  /\ send = [c \in Clients |-> <<>>]
  /\ sendClosed = [c \in Clients |-> FALSE]
  /\ connClosed = [c \in Clients |-> FALSE]
  /\ alive = [c \in Clients |-> TRUE]
  /\ handler = [c \in Clients |-> "none"]
  /\ rpump = [c \in Clients |-> "off"]
  /\ wpump = [c \in Clients |-> "off"]
  /\ writing = [c \in Clients |-> <<>>]
  /\ got = [c \in Clients |-> <<>>]
  /\ sent = 0
  /\ panicked = FALSE

InSelect == msg = 0
------------------------------------------------------------------------------
(* ServeWS. *)

\* No token, an invalid one, or a failed upgrade: an error answer, no client.
Reject(c) ==
  /\ handler[c] = "none"
  /\ handler' = [handler EXCEPT ![c] = "rejected"]
  /\ UNCHANGED <<runVars, pumpVars, broadcast, send, sendClosed, connClosed,
                 alive, sent, panicked>>

\* The connection is upgraded and the handler calls Register, which blocks.
Upgrade(c) ==
  /\ handler[c] = "none"
  /\ handler' = [handler EXCEPT ![c] = "registering"]
  /\ UNCHANGED <<runVars, pumpVars, broadcast, send, sendClosed, connClosed,
                 alive, sent, panicked>>

\* Register has returned: the two pumps are started.
StartPumps(c) ==
  /\ handler[c] = "registered"
  /\ handler' = [handler EXCEPT ![c] = "returned"]
  /\ rpump' = [rpump EXCEPT ![c] = "run"]
  /\ wpump' = [wpump EXCEPT ![c] = "run"]
  /\ UNCHANGED <<runVars, broadcast, send, sendClosed, connClosed, alive,
                 writing, got, sent, panicked>>
------------------------------------------------------------------------------
(* Hub.Broadcast, called by the forwarders: never blocks. *)

\* Mutant of Broadcast: the full queue is not respected.
BroadcastUnbounded ==
  /\ sent < MaxMsg
  /\ sent' = sent + 1
  /\ broadcast' = Append(broadcast, sent + 1)
  /\ UNCHANGED <<runVars, pumpVars, send, sendClosed, connClosed, alive,
                 handler, panicked>>

Broadcast ==
  /\ sent < MaxMsg
  /\ sent' = sent + 1
  /\ broadcast' = IF Len(broadcast) < BroadcastCap
                  THEN Append(broadcast, sent + 1) ELSE broadcast
  /\ UNCHANGED <<runVars, pumpVars, send, sendClosed, connClosed, alive,
                 handler, panicked>>
------------------------------------------------------------------------------
(* Hub.Run: one case of the select at a time. *)

RunRegister(c) ==
  /\ InSelect
  /\ handler[c] = "registering"
  /\ handler' = [handler EXCEPT ![c] = "registered"]
  /\ clients' = clients \cup {c}
  /\ UNCHANGED <<pumpVars, broadcast, fanout, msg, send, sendClosed,
                 connClosed, alive, sent, panicked>>

\* Mutants of Drop: no check that the client is still in the map; no
\* Conn.Close; no close(c.Send).
DropUnchecked(c) ==
  /\ clients' = clients \ {c}
  /\ sendClosed' = [sendClosed EXCEPT ![c] = TRUE]
  /\ connClosed' = [connClosed EXCEPT ![c] = TRUE]
  /\ panicked' = (panicked \/ sendClosed[c])

DropLeavesConn(c) ==
  IF c \in clients
  THEN /\ clients' = clients \ {c}
       /\ sendClosed' = [sendClosed EXCEPT ![c] = TRUE]
       /\ panicked' = (panicked \/ sendClosed[c])
       /\ UNCHANGED connClosed
  ELSE UNCHANGED <<clients, sendClosed, connClosed, panicked>>

DropLeavesSend(c) ==
  IF c \in clients
  THEN /\ clients' = clients \ {c}
       /\ connClosed' = [connClosed EXCEPT ![c] = TRUE]
       /\ UNCHANGED <<sendClosed, panicked>>
  ELSE UNCHANGED <<clients, sendClosed, connClosed, panicked>>

\* What Run does with a client received from h.unregister.
Drop(c) ==
  IF c \in clients
  THEN /\ clients' = clients \ {c}
       /\ sendClosed' = [sendClosed EXCEPT ![c] = TRUE]
       /\ connClosed' = [connClosed EXCEPT ![c] = TRUE]
       /\ panicked' = (panicked \/ sendClosed[c])
  ELSE UNCHANGED <<clients, sendClosed, connClosed, panicked>>

RunUnregisterReader(c) ==
  /\ InSelect
  /\ rpump[c] = "closing"
  /\ rpump' = [rpump EXCEPT ![c] = "done"]
  /\ Drop(c)
  /\ UNCHANGED <<broadcast, fanout, msg, send, alive, handler, wpump, writing,
                 got, sent>>

RunUnregisterWriter(c) ==
  /\ InSelect
  /\ wpump[c] = "closing"
  /\ wpump' = [wpump EXCEPT ![c] = "done"]
  /\ Drop(c)
  /\ UNCHANGED <<broadcast, fanout, msg, send, alive, handler, rpump, writing,
                 got, sent>>

\* case msg := <-h.broadcast: the loop over h.clients begins.  With no client
\* the loop body never runs and the message is gone.
RunTakeMessage ==
  /\ InSelect
  /\ broadcast # <<>>
  /\ broadcast' = Tail(broadcast)
  /\ msg' = IF clients = {} THEN 0 ELSE Head(broadcast)
  /\ fanout' = clients
  /\ UNCHANGED <<clients, pumpVars, send, sendClosed, connClosed, alive,
                 handler, sent, panicked>>

\* Mutants of RunFanOut: a message that a client has no room for is queued
\* again; the loop ends at such a client; client.Send <- msg without a default.
RunFanOutRequeues(c) ==
  /\ c \in fanout
  /\ LET full == Len(send[c]) >= SendCap
     IN  /\ send' = [send EXCEPT ![c] = IF full THEN @ ELSE Append(@, msg)]
         /\ broadcast' = IF full /\ Len(broadcast) < BroadcastCap
                         THEN Append(broadcast, msg) ELSE broadcast
  /\ panicked' = (panicked \/ sendClosed[c])
  /\ fanout' = fanout \ {c}
  /\ msg' = IF fanout = {c} THEN 0 ELSE msg
  /\ UNCHANGED <<clients, pumpVars, sendClosed, connClosed, alive, handler, sent>>

RunFanOutStopping(c) ==
  /\ c \in fanout
  /\ LET full == Len(send[c]) >= SendCap
     IN  /\ send' = [send EXCEPT ![c] = IF full THEN @ ELSE Append(@, msg)]
         /\ fanout' = IF full THEN {} ELSE fanout \ {c}
         /\ msg' = IF full \/ fanout = {c} THEN 0 ELSE msg
  /\ panicked' = (panicked \/ sendClosed[c])
  /\ UNCHANGED <<clients, pumpVars, broadcast, sendClosed, connClosed, alive,
                 handler, sent>>

RunFanOutBlocking(c) ==
  /\ c \in fanout
  /\ Len(send[c]) < SendCap
  /\ send' = [send EXCEPT ![c] = Append(@, msg)]
  /\ panicked' = (panicked \/ sendClosed[c])
  /\ fanout' = fanout \ {c}
  /\ msg' = IF fanout = {c} THEN 0 ELSE msg
  /\ UNCHANGED <<clients, pumpVars, broadcast, sendClosed, connClosed, alive,
                 handler, sent>>

\* One iteration of that loop, in the map's unspecified order: deliver, or
\* drop if the client is too slow.
RunFanOut(c) ==
  /\ c \in fanout
  /\ send' = [send EXCEPT ![c] = IF Len(@) < SendCap THEN Append(@, msg) ELSE @]
  /\ panicked' = (panicked \/ sendClosed[c])
  /\ fanout' = fanout \ {c}
  /\ msg' = IF fanout = {c} THEN 0 ELSE msg
  /\ UNCHANGED <<clients, pumpVars, broadcast, sendClosed, connClosed, alive,
                 handler, sent>>
------------------------------------------------------------------------------
(* The pumps. *)

\* ReadMessage fails: the peer closed or broke the protocol, the connection
\* was closed here, or no pong came within pongWait.
ReadFails(c) ==
  /\ rpump[c] = "run"
  /\ rpump' = [rpump EXCEPT ![c] = "closing"]
  /\ UNCHANGED <<runVars, broadcast, send, sendClosed, connClosed, alive,
                 handler, wpump, writing, got, sent, panicked>>

\* msg, ok := <-c.Send with ok: a closed channel still yields what it holds.
WriterTakes(c) ==
  /\ wpump[c] = "run"
  /\ writing[c] = <<>>
  /\ send[c] # <<>>
  /\ writing' = [writing EXCEPT ![c] = <<Head(send[c])>>]
  /\ send' = [send EXCEPT ![c] = Tail(@)]
  /\ UNCHANGED <<runVars, broadcast, sendClosed, connClosed, alive, handler,
                 rpump, wpump, got, sent, panicked>>

\* !ok: the channel is closed and drained; a close frame is tried.
WriterSeesClose(c) ==
  /\ wpump[c] = "run"
  /\ writing[c] = <<>>
  /\ send[c] = <<>>
  /\ sendClosed[c]
  /\ wpump' = [wpump EXCEPT ![c] = "closing"]
  /\ UNCHANGED <<runVars, broadcast, send, sendClosed, connClosed, alive,
                 handler, rpump, writing, got, sent, panicked>>

\* Mutant of WriteSucceeds: the message is kept and written again.
WriteRepeats(c) ==
  /\ wpump[c] = "run"
  /\ writing[c] # <<>>
  /\ ~ connClosed[c]
  /\ got' = [got EXCEPT ![c] = Append(@, Head(writing[c]))]
  /\ UNCHANGED <<runVars, broadcast, send, sendClosed, connClosed, alive,
                 handler, rpump, wpump, writing, sent, panicked>>

WriteSucceeds(c) ==
  /\ wpump[c] = "run"
  /\ writing[c] # <<>>
  /\ ~ connClosed[c]
  /\ got' = [got EXCEPT ![c] = Append(@, Head(writing[c]))]
  /\ writing' = [writing EXCEPT ![c] = <<>>]
  /\ UNCHANGED <<runVars, broadcast, send, sendClosed, connClosed, alive,
                 handler, rpump, wpump, sent, panicked>>

\* The write, or the ping of an idle pump, fails or passes its deadline.
WriteFails(c) ==
  /\ wpump[c] = "run"
  /\ wpump' = [wpump EXCEPT ![c] = "closing"]
  /\ writing' = [writing EXCEPT ![c] = <<>>]
  /\ UNCHANGED <<runVars, broadcast, send, sendClosed, connClosed, alive,
                 handler, rpump, got, sent, panicked>>

\* Environment: the peer vanishes without closing the connection.
PeerDies(c) ==
  /\ alive[c]
  /\ handler[c] \notin {"none", "rejected"}
  /\ alive' = [alive EXCEPT ![c] = FALSE]
  /\ UNCHANGED <<runVars, pumpVars, broadcast, send, sendClosed, connClosed,
                 handler, sent, panicked>>

Run == \/ RunTakeMessage
       \/ \E c \in Clients : \/ RunRegister(c) \/ RunUnregisterReader(c)
                             \/ RunUnregisterWriter(c) \/ RunFanOut(c)

Connection(c) ==
  \/ Reject(c) \/ Upgrade(c) \/ StartPumps(c)
  \/ ReadFails(c) \/ WriterTakes(c) \/ WriterSeesClose(c)
  \/ WriteSucceeds(c) \/ WriteFails(c) \/ PeerDies(c)

Next == Broadcast \/ Run \/ \E c \in Clients : Connection(c)

Spec == Init /\ [][Next]_vars

(***************************************************************************)
(* Fairness.  Run never stops, and Go's select takes every case that stays *)
(* ready (it chooses at random among the ready ones).  A started handler   *)
(* goes on.  A read on a closed connection or of a dead peer fails (the    *)
(* peer's pongs stop, the deadline of 60 s passes); a write ends within    *)
(* writeWait one way or the other; a pump that can receive receives.       *)
(***************************************************************************)
Fairness ==
  /\ WF_vars(RunTakeMessage)
  /\ \A c \in Clients :
       /\ WF_vars(RunRegister(c))
       /\ WF_vars(RunUnregisterReader(c))
       /\ WF_vars(RunUnregisterWriter(c))
       /\ WF_vars(RunFanOut(c))
       /\ WF_vars(StartPumps(c))
       /\ WF_vars((connClosed[c] \/ ~ alive[c]) /\ ReadFails(c))
       /\ WF_vars(WriterTakes(c) \/ WriterSeesClose(c))
       /\ WF_vars(writing[c] # <<>> /\ (WriteSucceeds(c) \/ WriteFails(c)))

FairSpec == Spec /\ Fairness
------------------------------------------------------------------------------
(* Properties. *)

TypeOK ==
  /\ clients \subseteq Clients
  /\ broadcast \in Seq(Nat)
  /\ Len(broadcast) <= BroadcastCap
  /\ fanout \subseteq Clients
  /\ msg \in Nat
  /\ send \in [Clients -> Seq(Nat)]
  /\ \A c \in Clients : Len(send[c]) <= SendCap
  /\ sendClosed \in [Clients -> BOOLEAN]
  /\ connClosed \in [Clients -> BOOLEAN]
  /\ alive \in [Clients -> BOOLEAN]
  /\ handler \in [Clients -> HandlerPC]
  /\ rpump \in [Clients -> PumpPC]
  /\ wpump \in [Clients -> PumpPC]
  /\ writing \in [Clients -> Seq(Nat)]
  /\ got \in [Clients -> Seq(Nat)]
  /\ sent \in Nat
  /\ panicked \in BOOLEAN

\* Both pumps of a connection unregister it, in either order, while Run may be
\* anywhere: Send is nevertheless closed only once and never written after
\* (hub.go:44-57); either would panic and take the whole server down.
NoPanic == ~ panicked

\* A pump that has ended leaves nothing behind: its client is out of the map,
\* so that no later message is queued for it, Send is closed, which ends the
\* WritePump, and the connection is closed, which ends the ReadPump.
EndedMeansReleased ==
  \A c \in Clients :
    (rpump[c] = "done" \/ wpump[c] = "done")
      => /\ c \notin clients
         /\ sendClosed[c]
         /\ connClosed[c]

Increasing(s) == \A i, j \in 1 .. Len(s) : i < j => s[i] < s[j]
Before(s, t) == \A i \in 1 .. Len(s), j \in 1 .. Len(t) : s[i] < t[j]

\* Whatever is dropped on the way, what a connection has received, what its
\* pump is writing, what waits in its Send, and what waits in broadcast are in
\* the order of the calls of Broadcast, without repetition.
InOrder ==
  /\ Increasing(broadcast)
  /\ \A c \in Clients :
       /\ Increasing(got[c])
       /\ Increasing(send[c])
       /\ Before(got[c], writing[c])
       /\ Before(got[c], send[c])
       /\ Before(writing[c], send[c])
       /\ Before(got[c], broadcast)
       /\ Before(writing[c], broadcast)
       /\ Before(send[c], broadcast)

Elems(s) == {s[i] : i \in 1 .. Len(s)}
OnTheWay(c) ==
  Elems(broadcast) \cup (IF c \in fanout THEN {msg} ELSE {})
    \cup Elems(send[c]) \cup Elems(writing[c]) \cup Elems(got[c])

\* One full queue costs one message, of one client: what is on its way to a client
\* that stays registered goes on, however the fan-out, other clients and the ends
\* of their pumps interleave, unless that client's Send is full just then or its
\* write fails; and a new message is on its way unless broadcast is full
\* (hub.go:50-57, 65-71).
OnlyFullQueuesDrop ==
  [][\A c \in clients \cap clients' :
       /\ sent' # sent /\ Len(broadcast) < BroadcastCap => sent' \in OnTheWay(c)'
       /\ \A m \in OnTheWay(c) \ OnTheWay(c)' :
            \/ c \in fanout /\ m = msg /\ Len(send[c]) >= SendCap
            \/ m \in Elems(writing[c]) /\ wpump'[c] = "closing"]_vars

\* The hub implements a lossy stream to each connection (hub.go:50-71): what is
\* written to it was broadcast, once, and later than all that was written before.
Stream == INSTANCE LossyStream
            WITH Ends <- Clients,
                 sent <- [c \in Clients |-> sent],
                 delivered <- got

ImplementsLossyStream == Stream!Spec

\* A connection whose peer is gone is cleaned up: both pumps end and the hub
\* forgets the client, although neither pump tells the other.
DeadPeerIsReleased ==
  \A c \in Clients :
    ~ alive[c] ~> (rpump[c] = "done" /\ wpump[c] = "done" /\ c \notin clients)

\* Run always comes back to its select: no client, slow or half closed, can
\* hold up the messages of the others (hub.go:50-57).
HubNeverStuck == ~ InSelect ~> InSelect
==============================================================================
