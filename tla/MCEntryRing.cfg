CONSTANTS
  Cap = 2
  Readers = {r1, r2}
  MaxID = 4
  Limits <- MCLimits
  Filters <- MCFilters
SPECIFICATION FairSpec
INVARIANT TypeOK
INVARIANT RingHoldsLast
INVARIANT RecentIsSnapshot
PROPERTY AppendCompletes
PROPERTY ImplementsRecentLog
