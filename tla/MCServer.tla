------------------------------ MODULE MCServer ------------------------------
(* Two sources: one without a name, the other with a name of its own or with *)
(* the one the first gets by default; rings of 1 and 2, or of 1; one source  *)
(* loads its file at the start, or none.  The lines of the second have one   *)
(* timestamp, those of the first that one, an earlier or a later one.        *)
EXTENDS Server

TwoConfigs == {
  [names |-> <<0, 2>>, sizes |-> <<1, 0>>, existing |-> <<FALSE, TRUE>>],
  [names |-> <<0, 1>>, sizes |-> <<1, 1>>, existing |-> <<FALSE, FALSE>>]}
OneOrAll == <<1 .. 3, {2}>>
==============================================================================
