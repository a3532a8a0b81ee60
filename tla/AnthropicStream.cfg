SPECIFICATION FairSpec
CONSTANTS
  Environments <- MCEnvironments
  FrameLists <- MCFrameLists
  LineEnds <- MCLineEnds
  Events <- MCEvents
  MaxRetries = {0, 2, 4}
  INITIAL_BACKOFF = 2
  MAX_BACKOFF = 5
  SHIFT_WIDTH = 3
INVARIANTS
    StreamIsFaithful
    RetriesAreExact
PROPERTIES
    StreamEnds
