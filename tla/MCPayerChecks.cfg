SPECIFICATION ChecksSpec
CONSTANTS
  Request = {r1, r2}
  FeePayer = {f1, f2}
  NoFee = NoFee
  OfferLists <- Resources
  SupportedTtl = 2
  SupportedTimeout = 1
  ChallengeTtl = 1
  MaxTime = 2
  Asker = {a1, a2}
  Body = {b1, b2}
  NoBody = NoBody
  EvmOffers = 2
  MaxTimeout = 2
  QuoteCacheLimit = 2
  QuoteHorizon = 3
  MandateTrust <- Wallets
  CheckoutTrust <- Merchants
  OtherKeys <- Strangers
  Absent = Absent
  Malformed = Malformed
  ClockSkew = 1
  MandateHorizon = 2
  PathField = x
  QueryField = y
  Reserved = payment
  Field = {x, y, payment}
  Unbound = Unbound
  Rails = {"x402", "mpp"}
SYMMETRY Symmetry
INVARIANTS VerifiedPaysTheOffer RetryIsRecognized FeePayerIsStable QuotesCoverThePayment MandateCoversThePurchase PaidRequestIsSendable
CHECK_DEADLOCK FALSE
