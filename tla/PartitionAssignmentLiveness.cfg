\* Brokers stay in the end: every partition is owned by one task.
SPECIFICATION FairSpec
CONSTANTS
  NumTasks = 2
  NumPartitions = 2
  Hosts = {h1, h2}
  NoHost = NoHost
  NoManager = NoManager
  NoNode = NoNode
  NotWriting = NotWriting
  MaxOffset = 0
  LogEnd <- MCLogEnd
  MaxFaults = 1
  MaxFails = 0
PROPERTY EventuallyOneOwner
