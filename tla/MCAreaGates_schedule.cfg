SPECIFICATION Spec
CONSTANTS
  NoShop = NoShop
  Sweeper = Sweeper
  Riders = {r1}
  Shops = {s1}
  Calls = {c1}
  Day = 2
  Schedules <- DayOnly
  MaxFaults = 0
PROPERTY ClosesOnlyAfterHours
