----------------------------- MODULE MCEntryRing -----------------------------
(* Model-checking instance of EntryRing. *)
EXTENDS EntryRing

\* Ask for everything, for one entry, or for more than there are; match every
\* entry, or the odd ones.
MCLimits == {0, 1, 3}
MCFilters == {0 .. MaxID, {n \in 0 .. MaxID : n % 2 = 1}}
==============================================================================
