\* One order, two riders, an admin who cancels and reassigns: searches and offers
\* come to an end.  With nobody going on or off line the order may come to rest.
CONSTANTS
  o1 = o1
  r1 = r1
  r2 = r2
  sweeper = sweeper
  h1 = h1
  NoRider = NoRider
  NoOrder = NoOrder
  Orders = {o1}
  Riders = {r1, r2}
  Sweeper = sweeper
  Handlers = {h1}
  RiderCap = 1
  OfferRiderAttempts = 2
  ReassignTargets = {r1}
  Reopenable = {}
  Toggling = {}
  Ageing = {}
  Reached = {"Accepted", "Cancelled"}
SPECIFICATION FairSpec
PROPERTY SearchSettles
PROPERTY OfferResolves
CHECK_DEADLOCK FALSE
