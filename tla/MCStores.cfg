SPECIFICATION StoresSpec
CONSTANTS
  m1 = m1
  m2 = m2
  m3 = m3
  NoRequest = NoRequest
  Request = {r1, r2, r3}
  Mandate = {m1, m2, m3}
  BindingOf <- TwoCheckouts
  Key = {k1, k2}
  Path = {p1, p2}
  OldPath = p1
  Unset = Unset
  InMemory = InMemory
  Presented = {m1, m2}
  MaxBuys = 2
SYMMETRY Symmetry
INVARIANTS OneLiveHoldPerBinding CheckoutPaidOnceAcrossVersions DoctorForetellsStart
PROPERTIES HoldHandover ResolutionIsFinal
CHECK_DEADLOCK FALSE
