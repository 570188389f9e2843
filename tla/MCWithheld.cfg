SPECIFICATION Spec
CONSTANTS
  k1 = k1
  k2 = k2
  m1 = m1
  m2 = m2
  NoRequest = NoRequest
  NoMandate = NoMandate
  Request = {r1}
  Key = {k1}
  Mandate = {m1, m2}
  Resolver = {x1}
  Proves <- AllProven
  MaxFaults = 0
  BindingOf <- OneCheckout
  Orders <- OneOrder
INVARIANTS PaidUndeliveredIsVisible
CHECK_DEADLOCK FALSE
