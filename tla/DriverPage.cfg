\* Each of the three pages over every batch of frames.
SPECIFICATION FairSpec
CONSTANTS
  Drivers = {d1, d2}
  MaxEvents = 6
  MaxSteps = 1
  MaxNotes = 2
  MaxBatch = 2
  MaxLoad = 2
INVARIANT TypeOK
INVARIANT CircleShowsEvents
INVARIANT HighlightEnds
INVARIANT CirclesDrawn
INVARIANT LatestNotifications
INVARIANT IntervalsEnd
PROPERTY NoticesLoss
CHECK_DEADLOCK FALSE
