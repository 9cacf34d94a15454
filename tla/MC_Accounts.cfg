\* Two users, a model registered twice, a key, its revocation and a call with it.
CONSTANTS
  u1 = u1
  u2 = u2
  a1 = a1
  a2 = a2
  k1 = k1
  v1 = v1
  c1 = c1
  gpt = gpt
  None = None
  Registrations = {u1, u2}
  Creations = {a1, a2}
  Name <- SmallNames
  Keys = {k1}
  Revocations = {v1}
  Calls = {c1}
SPECIFICATION FairSpec
INVARIANTS
  NameHasOneOwner
  RegistrationIsWhole
  LateIsRefused
PROPERTIES
  KeysAreTheirOwners
  EveryRequestEnds
CHECK_DEADLOCK FALSE
