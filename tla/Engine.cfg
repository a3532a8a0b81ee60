SPECIFICATION FairSpec
CONSTANTS
  Environments <- MCEnvironments
  Dotenvs <- MCDotenvs
  Lines <- MCLines
  Inputs <- MCInputs
  Replies <- MCReplies
  Disks <- MCDisks
  OllamaModels <- MCOllamaModels
  TTL = 2
  MaxLines = 2
  MaxClock = 2
INVARIANTS
    CascadeIsHonest
    RepliesFollowRequests
PROPERTIES
    ModelListFresh
    EveryLineServed
