------------------------------- MODULE Paging -------------------------------
(***************************************************************************)
(* The page that GetLogs (internal/api/logs_handler.go) cuts out of the    *)
(* entries it has collected, oldest first.                                 *)
(***************************************************************************)
EXTENDS Integers, Sequences

\* A limit that is not positive is the default, a negative offset is 0.
Limit(limit) == IF limit <= 0 THEN 200 ELSE limit
Offset(offset) == IF offset < 0 THEN 0 ELSE offset

\* Mutants of Page: the window begins one entry late; it is counted from the
\* oldest entry.
PageFromLater(all, limit, offset) ==
  LET end   == Len(all) - Offset(offset)
      start == IF end - Limit(limit) < 0 THEN 0 ELSE end - Limit(limit) + 1
  IN  IF Offset(offset) >= Len(all) THEN <<>>
      ELSE [k \in 1 .. end - start |-> all[end - k + 1]]

PageFromOldest(all, limit, offset) ==
  LET start == Offset(offset)
      end   == IF start + Limit(limit) > Len(all) THEN Len(all) ELSE start + Limit(limit)
  IN  IF start >= Len(all) THEN <<>>
      ELSE [k \in 1 .. end - start |-> all[end - k + 1]]

\* all[start:end] of the code, newest first.
Page(all, limit, offset) ==
  LET end   == Len(all) - Offset(offset)
      start == IF end - Limit(limit) < 0 THEN 0 ELSE end - Limit(limit)
  IN  IF Offset(offset) >= Len(all) THEN <<>>
      ELSE [k \in 1 .. end - start |-> all[end - k + 1]]
==============================================================================
