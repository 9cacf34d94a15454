\* Answers of up to three blocks of up to two pieces, through every adapter.
CONSTANTS
  None = None
  Providers <- AllProviders
  MaxBlocks = 3
  MaxPieces = 2
SPECIFICATION Spec
INVARIANTS
  StreamFollowsAnswer
  ToolArgsFollowStart
  MeteredAsProduced
CHECK_DEADLOCK FALSE
