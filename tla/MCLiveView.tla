------------------------------ MODULE MCLiveView ------------------------------
(* Model-checking instances of LiveView. *)
EXTENDS LiveView

OneSource == <<"a">>
TwoSources == <<"a", "b">>
==============================================================================
