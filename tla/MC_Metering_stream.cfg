\* A stream whose caller was told [DONE] and which is never metered.
CONSTANTS
  o1 = o1
  o2 = o2
  r1 = r1
  r2 = r2
  r3 = r3
  d1 = d1
  c1 = c1
  c2 = c2
  BadCid = BadCid
  NoOne = NoOne
  Orgs = {o1}
  Requests = {r2}
  Streams = {r2}
  TopUps = {d1}
  Payer <- OneOrgPayer
  Cids = {c1}
  Usages <- CheapOrDear
  MaxCost = 2
  Amounts = {1}
  OpeningBalance = 2
  MaxBalance = 3
  PoolSize = 2
SPECIFICATION Spec
INVARIANTS
  StreamIsMetered
CHECK_DEADLOCK FALSE
