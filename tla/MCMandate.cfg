SPECIFICATION Spec
CONSTANTS
  k1 = k1
  k2 = k2
  m1 = m1
  m2 = m2
  NoRequest = NoRequest
  NoMandate = NoMandate
  Request = {r1, r2}
  Key = {k1, k2}
  Mandate = {m1, m2}
  Resolver = {x1}
  Proves <- AllProven
  MaxFaults = 1
  BindingOf <- OneCheckout
  Orders <- SharedCheckout
SYMMETRY Symmetry
INVARIANTS PaidMandateIsKept ConsumedMandateIsPaid
PROPERTIES RefinesIdeal
CHECK_DEADLOCK FALSE
