\* Two attempts of a customer, three requests, two connections, at most two
\* riders.  The pool may starve, and everything may come to rest: no deadlock
\* check.
CONSTANTS
  k1 = k1
  k2 = k2
  u1 = u1
  r1 = r1
  r2 = r2
  r3 = r3
  d = d
  c = c
  None = None
  Keys = {k1, k2}
  Users = {u1}
  Requests <- ThreeRequests
  KeyOf <- KeyOfThree
  UserOf <- UserOfTwo
  Deals = {d}
  Coupons = {c}
  TotalLimit <- TotalOf
  UserLimit <- PerUserOf
  Wants <- WantsOfThree
  Crews <- CrewsOfThree
  PoolSize = 2
  Ageing = {r1}
  Refusable = {r1}
  Fallible = {r3}
  Impatient = {k1}
  Deliverable = {r3}
  Cancellable = {r3}
  Reopenable = {r3}
SPECIFICATION Spec
INVARIANT TypeOK
INVARIANT OneOrderPerKey
INVARIANT UsesBounded
INVARIANT OvershootBounded
INVARIANT CancelReturnsUses
INVARIANT NoLockCycle
PROPERTY ImplementsLedger
CHECK_DEADLOCK FALSE
