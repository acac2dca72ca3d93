----------------------------- MODULE LossyStream -----------------------------
(***************************************************************************)
(* What the way of log entries promises wherever it is lossy: items are    *)
(* numbered as they are sent and may be dropped anywhere, but what gets to *)
(* an end was sent, gets there once, and comes in the order of sending.    *)
(* There is a stream for each end.                                         *)
(***************************************************************************)
EXTENDS Naturals, Sequences

CONSTANT
  Ends       \* where the streams end

VARIABLES
  sent,      \* per end, number of items sent so far
  delivered  \* per end, the items that have got there, as they came

streamVars == <<sent, delivered>>

Init ==
  /\ sent = [e \in Ends |-> 0]
  /\ delivered = [e \in Ends |-> <<>>]

\* One stream or several go on.
Send ==
  /\ sent' \in [Ends -> Nat]
  /\ \A e \in Ends : sent[e] <= sent'[e]
  /\ UNCHANGED delivered

Deliver(e) ==
  \E n \in 1 .. sent[e] :
    /\ \A k \in 1 .. Len(delivered[e]) : delivered[e][k] < n
    /\ delivered' = [delivered EXCEPT ![e] = Append(@, n)]
    /\ UNCHANGED sent

Next == Send \/ \E e \in Ends : Deliver(e)

Spec == Init /\ [][Next]_streamVars
==============================================================================
