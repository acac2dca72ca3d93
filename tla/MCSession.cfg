CONSTANTS
  t1 = t1
  t2 = t2
  Layouts <- OneOrTwoTabs
  MaxIssues <- Bounds
  MaxLapses <- Lapses
  Users = {ann, bob}
  Nobody = Nobody
SPECIFICATION Spec
SYMMETRY Same
INVARIANT TypeOK
INVARIANT OnlyIntendedUser
INVARIANT DashboardNeedsToken
PROPERTY EndsOnlyWhenRefused
