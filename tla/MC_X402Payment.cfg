\* A payment sent twice, one that is too small, a garbled and a free request.
CONSTANTS
  r1 = r1
  r2 = r2
  r3 = r3
  r4 = r4
  r5 = r5
  small = small
  large = large
  NoHeader = NoHeader
  Garbage = Garbage
  NoOne = NoOne
  Requests = {r1, r2, r3, r4, r5}
  Payments = {small, large}
  Header <- HeaderOf
  Price <- PriceOf
  Worth <- WorthOf
  Routed = {r1, r3, r5}
  Upstream = {402, 404, 503}
SPECIFICATION FairSpec
INVARIANTS
  ServiceIsPaid
  RefusedIsNotCharged
  ChargedIsTold
PROPERTIES
  EveryRequestEnds
CHECK_DEADLOCK FALSE
