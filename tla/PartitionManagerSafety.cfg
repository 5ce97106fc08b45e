\* Every interleaving of emissions, acks, fails, commits, leader moves,
\* crashes and redeployments, over a log that is only appended to.
SPECIFICATION Spec
CONSTANTS
  MaxOffset = 5
  MaxFetch  = 3
  MaxFaults = 2
  Payload <- MCPoison
  RootIds = {r1, r2, r3}
  Hosts = {h1, h2}
  NoHost = NoHost
  NoTuple = NoTuple
  NoEntry = NoEntry
  Configs <- MCConfigs
SYMMETRY MCSymmetry
INVARIANT TypeOK
INVARIANT CommittedIsProcessed
INVARIANT NothingSkipped
INVARIANT NoOrphanPending
INVARIANT NoDuplicateUndisturbed
PROPERTY NoUncausedRegress
PROPERTY ImplementsAtLeastOnce
