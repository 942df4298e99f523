SPECIFICATION Spec
CONSTANTS
  s1 = s1
  s2 = s2
  NoShop = NoShop
  Shops = {s1, s2}
  Requests = {c1, c2}
  Sweepers = {}
  Lines = {1, 2, 3}
  ShopOf <- MCShopOf
  Item0 <- MCItem0
  Swaps <- MCSwaps
  Granted <- MCGranted
  MaxAsks = 1
  MaxSwaps = 1
  MaxDeaths = 0
CHECK_DEADLOCK FALSE
INVARIANT TypeOK
INVARIANT CancelOwed
INVARIANT StartOwed
INVARIANT BillExact
INVARIANT GrantRestored
PROPERTY ImplementsRound
