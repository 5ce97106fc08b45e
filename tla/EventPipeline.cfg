SPECIFICATION Spec
CONSTANTS
  d1 = d1  d2 = d2  t1 = t1  t2 = t2
  Drivers <- MCDrivers
  Tasks <- MCTasks
  Logs <- MCLogs
  MaxUnsafe = 2
  MaxReplays = 1
  MaxFaults = 1
SYMMETRY Symmetry
INVARIANT TypeOK
INVARIANT CountsFollowRows
INVARIANT DistinctCounts
INVARIANT AlertsHonest
CHECK_DEADLOCK FALSE
