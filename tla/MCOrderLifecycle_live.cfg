\* Valid admin requests only and no reopening; restarts.
CONSTANTS
  h1 = h1
  h2 = h2
  Handlers = {h1, h2}
  Timer = Timer
  Boot = Boot
  CancelledPayment = "Failed"
  AdminTargets = {"Preparing"}
  AdminPayments = {"Failed"}
  Fallible = {}
SPECIFICATION FairSpec
PROPERTY LeavesPending
