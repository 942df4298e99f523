SPECIFICATION LiveSpec
CONSTANTS
  NoShop = NoShop
  Sweeper = Sweeper
  Riders = {r1}
  Shops = {s1}
  Calls = {c1}
  Day = 2
  Schedules <- NightOrNone
  MaxFaults = 1
INVARIANT TypeOK
INVARIANT GatesAgree
INVARIANT LateShopsExplained
PROPERTY QueuedCloseComes
