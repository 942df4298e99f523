\* Two creators, two rows; a tick, wakes and restarts in any order.
CONSTANTS
  i1 = i1
  i2 = i2
  c1 = c1
  c2 = c2
  Nothing = Nothing
  Items = {i1, i2}
  Creators = {c1, c2}
  MaxWakes = 4
SPECIFICATION FairSpec
INVARIANT AsleepOnlyUntilWoken
PROPERTY LiveIsSwept
