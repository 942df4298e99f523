\* Two concurrent requests, every status, three payments; throws and restarts.
CONSTANTS
  h1 = h1
  h2 = h2
  Handlers = {h1, h2}
  Timer = Timer
  Boot = Boot
  CancelledPayment = "Failed"
  AdminTargets = {"Pending", "Preparing", "Cancelled"}
  AdminPayments = {}
  Fallible = {h1, h2, Timer}
SPECIFICATION Spec
SYMMETRY Symmetry
INVARIANT ResponseClock
INVARIANT CancelledReleases
PROPERTY StatusForward
PROPERTY WatchKept
