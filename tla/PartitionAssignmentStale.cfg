\* A manager whose offset was overwritten does not notice.
SPECIFICATION Spec
CONSTANTS
  NumTasks = 2
  NumPartitions = 2
  Hosts = {h1, h2}
  NoHost = NoHost
  NoManager = NoManager
  NoNode = NoNode
  NotWriting = NotWriting
  MaxOffset = 2
  LogEnd <- MCLogEnd
  MaxFaults = 1
  MaxFails = 0
SYMMETRY MCSymmetry
INVARIANT NoNewOffset
