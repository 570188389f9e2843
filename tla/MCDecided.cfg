SPECIFICATION FairSpec
CONSTANTS
  k1 = k1
  k2 = k2
  m1 = m1
  m2 = m2
  NoRequest = NoRequest
  NoMandate = NoMandate
  Request = {r1}
  Key = {k1, k2}
  Mandate = {m1, m2}
  Resolver = {x1}
  Proves <- HalfProven
  MaxFaults = 2
  BindingOf <- OneCheckout
  Orders <- EitherOrder
PROPERTIES EveryAttemptIsDecided EveryHoldIsDecided
CHECK_DEADLOCK FALSE
