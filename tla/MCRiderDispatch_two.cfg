\* Two orders searching at once for the same two riders.
\* With nobody going on or off line every order may come to rest.
CONSTANTS
  o1 = o1
  o2 = o2
  r1 = r1
  r2 = r2
  sweeper = sweeper
  h1 = h1
  NoRider = NoRider
  NoOrder = NoOrder
  Orders = {o1, o2}
  Riders = {r1, r2}
  Sweeper = sweeper
  Handlers = {h1}
  RiderCap = 1
  OfferRiderAttempts = 2
  ReassignTargets = {}
  Reopenable = {}
  Toggling = {}
  Ageing = {o1, o2}
  Reached = {"Accepted"}
SPECIFICATION Spec
SYMMETRY Symmetric
INVARIANT OneOpenOffer
INVARIANT CapOvershoot
CHECK_DEADLOCK FALSE
