\* The log is cut back below the offset the spout has reached.
SPECIFICATION TruncationSpec
CONSTANTS
  MaxOffset = 4
  MaxFetch  = 2
  MaxFaults = 2
  Payload <- MCPayload
  RootIds = {r1, r2}
  Hosts = {h1, h2}
  NoHost = NoHost
  NoTuple = NoTuple
  NoEntry = NoEntry
  Configs <- MCDefault
INVARIANT NoOrphanPending
