SPECIFICATION Spec
CONSTANTS
  a1 = a1
  a2 = a2
  None = None
  Attempt = {a1, a2}
  Renewing = {a1}
  Leases = {2, 7}
  Intervals = {2, 10}
  MaxJitter = 1
  MaxDelay = 1
INVARIANTS
  TypeOK
  RenewedInTime
  CompletedOnce
PROPERTIES
  FencedByToken
  NothingLingers
