SPECIFICATION Spec
CONSTANTS
  Message = {m1, m2, m3}
  NoMessage = NoMessage
  Mandate = {d1, d2}
  NoMandate = NoMandate
  MaxTasks = 1
  DefaultTtl = 1
  MaxTtl = 1
  MaxTime = 1
  MaxFaults = 1
SYMMETRY Symmetry
INVARIANTS OnePaymentPerTask ContinuationBuysNothingNew MandateIsThePurchases HandlersGoOn
PROPERTIES LiveTaskIsKept
CHECK_DEADLOCK FALSE
