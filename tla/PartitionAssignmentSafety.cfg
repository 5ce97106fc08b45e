\* Two tasks share two partitions while brokers, leaders and workers come and go.
SPECIFICATION Spec
CONSTANTS
  NumTasks = 2
  NumPartitions = 2
  Hosts = {h1, h2}
  NoHost = NoHost
  NoManager = NoManager
  NoNode = NoNode
  NotWriting = NotWriting
  MaxOffset = 2
  LogEnd <- MCLogEnd
  MaxFaults = 1
  MaxFails = 2
CONSTRAINT FewTroubles
SYMMETRY MCSymmetry
INVARIANT TypeOK
INVARIANT AgreeingTasksShareOut
INVARIANT OwnedByNumber
INVARIANT SavedIsProcessed
INVARIANT ConnectionsMatchManagers
PROPERTY NodeGoesBackByRewindOnly
