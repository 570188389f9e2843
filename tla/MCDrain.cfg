SPECIFICATION HostSpec
CONSTANTS
  c1 = c1
  c2 = c2
  c3 = c3
  c4 = c4
  q1 = q1
  q2 = q2
  q3 = q3
  Call = {c1, c2, c3, c4}
  Conn = {q1, q2, q3}
  ConnOf <- Batches
  OverMcp = {q1, q2}
  MountCap = 1
  CallCap = 1
  QueueCap = 1
  NoRequest = NoRequest
  Request = {r1, r2}
  Scope = {s1}
  Body = {b1, b2}
  MerchantIdempotent = FALSE
  MaxFaults = 2
INVARIANTS InFlightFinishFirst
CHECK_DEADLOCK FALSE
