\* Three calls, one of them a stream, on two accounts; the top-up may be stale.
CONSTANTS
  o1 = o1
  o2 = o2
  r1 = r1
  r2 = r2
  r3 = r3
  d1 = d1
  c1 = c1
  c2 = c2
  BadCid = BadCid
  NoOne = NoOne
  Orgs = {o1, o2}
  Requests = {r1, r2, r3}
  Streams = {r2}
  TopUps = {d1}
  Payer <- TwoOrgPayer
  Cids = {c1, c2, BadCid}
  Usages <- OnlyDear
  MaxCost = 2
  Amounts = {1}
  OpeningBalance = 2
  MaxBalance = 3
  PoolSize = 2
SPECIFICATION FairSpec
INVARIANTS
  ReportsAgree
  ChargeMatchesLog
  OneRowPerCall
  AnsweredCallIsMetered
  OverdraftBounded
PROPERTIES
  DriftOnlyFromStaleTopUp
  ImplementsLedger
  EveryCallCloses
CHECK_DEADLOCK FALSE
