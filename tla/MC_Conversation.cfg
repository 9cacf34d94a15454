\* Up to six messages with two tools, each turn answered by any provider.
CONSTANTS
  UserTurns <- Asked
  ModelTurns <- Answered
  Functions = {"look", "send"}
  MaxMessages = 6
SPECIFICATION Spec
INVARIANTS
  AnthropicHearsAll
  GeminiPairsResults
  CallsAreAnswered
  EmptyOnlyIfMute
CHECK_DEADLOCK FALSE
