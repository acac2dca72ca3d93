------------------------------ MODULE MCLogTail ------------------------------
(* Model-checking instances of LogTail; the configurations differ in the    *)
(* environments.                                                            *)
EXTENDS LogTail

\* Rotation as the deployment documents describe it, with torn lines; rotations
\* at any speed and late writes; everything else that loses lines.
AllEnvironments ==
  {{"open_error", "torn"}, {"burst", "late_write", "open_error"},
   {"early", "late_write", "truncate", "replace", "overflow"}}
Orderly == {{"open_error"}}
Overflowing == {{"overflow"}}
NoLongLines == {}
SecondLineLong == {2}
==============================================================================
