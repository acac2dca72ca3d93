------------------------------ MODULE RecentLog ------------------------------
(***************************************************************************)
(* What the in-memory history of one log source promises, with no ring, no *)
(* head index and no lock: entries are numbered in the order the watcher   *)
(* reads them, each becomes visible in one step, and the history is always *)
(* the last Cap of them, oldest first.                                     *)
(***************************************************************************)
EXTENDS Naturals, Sequences

CONSTANT
  Cap       \* how many entries the history keeps

VARIABLES
  appended, \* ID of the last entry that became visible
  recent    \* the visible entries, oldest first

logVars == <<appended, recent>>

\* The last Cap elements of a sequence that is at most one element too long.
Trim(s) == IF Len(s) > Cap THEN Tail(s) ELSE s

Init ==
  /\ appended = 0
  /\ recent = <<>>

AppendNext ==
  /\ appended' = appended + 1
  /\ recent' = Trim(Append(recent, appended + 1))

Spec == Init /\ [][AppendNext]_logVars
==============================================================================
