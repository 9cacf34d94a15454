\* A stream whose provider fails before its first chunk, and which has a fallback.
CONSTANTS
  chat = chat
  stream = stream
  embed = embed
  m1 = m1
  m2 = m2
  None = None
  Calls = {stream}
  Models = {m1, m2}
  Kind <- KindOf
  Want <- EachWantsItsOwn
  Fallback <- SelfAtEnd
  Configured = {m1, m2}
  Upstream = {401, 429}
  MaxRetries = 2
SPECIFICATION Spec
INVARIANTS
  StreamSetupFailsOver
CHECK_DEADLOCK FALSE
