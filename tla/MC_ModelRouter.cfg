\* A chat, an embedding and a stream whose model is not configured.
CONSTANTS
  chat = chat
  stream = stream
  embed = embed
  m1 = m1
  m2 = m2
  None = None
  Calls = {chat, stream, embed}
  Models = {m1, m2}
  Kind <- KindOf
  Want <- EachWantsItsOwn
  Fallback <- SelfAtEnd
  Configured = {m2}
  Upstream = {401, 429}
  MaxRetries = 2
SPECIFICATION FairSpec
INVARIANTS
  TriesBounded
  FailoverIsJustified
  ErrorIsFaithful
PROPERTIES
  NoRepeatAfterFinal
  ImplementsDispatch
  EveryCallEnds
CHECK_DEADLOCK FALSE
