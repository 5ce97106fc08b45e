\* Every message is processed and committed in the end, with crashes, leader
\* moves and any number of fails.
SPECIFICATION FairSpec
CONSTANTS
  MaxOffset = 3
  MaxFetch  = 2
  MaxFaults = 1
  Payload <- MCPayload
  RootIds = {r1, r2}
  Hosts = {h1, h2}
  NoHost = NoHost
  NoTuple = NoTuple
  NoEntry = NoEntry
  Configs <- MCConfigs
PROPERTY EventuallyProcessed
PROPERTY EventuallyCommitted
