\* One order, two riders, the sweeper and one handler: every interleaving of
\* two engine calls on one order, with every way the order can move.
CONSTANTS
  o1 = o1
  r1 = r1
  r2 = r2
  sweeper = sweeper
  h1 = h1
  NoRider = NoRider
  NoOrder = NoOrder
  Orders = {o1}
  Riders = {r1, r2}
  Sweeper = sweeper
  Handlers = {h1}
  RiderCap = 1
  OfferRiderAttempts = 2
  ReassignTargets = {r1, r2}
  Reopenable = {o1}
  Toggling = {r1, r2}
  Ageing = {}
  Reached = {"Accepted", "Out for Delivery", "Delivered", "Cancelled"}
SPECIFICATION Spec
SYMMETRY Symmetric
INVARIANT TypeOK
INVARIANT HolderAccepted
INVARIANT NoSearchWithHolder
PROPERTY HolderKept
PROPERTY ImplementsHandoff
