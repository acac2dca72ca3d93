------------------------------ MODULE MCSession ------------------------------
(* One tab in which the requests of two mounts may overlap, and two tabs    *)
(* with room for one request each.  A place is a tab and a tab's name, so   *)
(* that the two tabs can be exchanged.                                      *)
EXTENDS Session, TLC

CONSTANTS t1, t2

BothTabs == {t1, t2}
TwoTabs == {<<t, t>> : t \in BothTabs}
OneTab(t) == {t} \X BothTabs
OneOrTwoTabs == {TwoTabs} \cup {OneTab(t) : t \in BothTabs}
Bounds == [l \in OneOrTwoTabs |-> IF l = TwoTabs THEN 2 ELSE 3]
Lapses == [l \in OneOrTwoTabs |-> IF l = TwoTabs THEN 1 ELSE 3]
Same == Permutations(Users) \cup Permutations(BothTabs)
==============================================================================
