\* Retention expires messages the spout has not read yet.
SPECIFICATION RetentionSpec
CONSTANTS
  MaxOffset = 4
  MaxFetch  = 2
  MaxFaults = 2
  Payload <- MCPayload
  RootIds = {r1, r2}
  Hosts = {h1, h2}
  NoHost = NoHost
  NoTuple = NoTuple
  NoEntry = NoEntry
  Configs <- MCDefault
INVARIANT CommittedIsProcessed
