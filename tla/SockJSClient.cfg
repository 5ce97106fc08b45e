\* One socket in four browsers against every answer of /info.
SPECIFICATION FairSpec
CONSTANTS
  Browsers <- MCBrowsers
  MaxSends = 3
INVARIANT TypeOK
INVARIANT OnlyCurrentSpeaks
INVARIANT FallbackExhausted
INVARIANT NeverStuck
INVARIANT SentInOrder
PROPERTY KeepsContract
PROPERTY Arrives
CHECK_DEADLOCK FALSE
