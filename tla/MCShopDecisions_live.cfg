SPECIFICATION LiveSpec
CONSTANTS
  s1 = s1
  s2 = s2
  NoShop = NoShop
  Shops = {s1}
  Requests = {c1}
  Sweepers = {w1, w2}
  Lines = {1, 2, 3}
  ShopOf <- MCShopOf1
  Item0 <- MCItem0
  Swaps <- MCSwaps
  Granted <- MCGranted
  MaxAsks = 1
  MaxSwaps = 0
  MaxDeaths = 1
CHECK_DEADLOCK FALSE
INVARIANT OneEscalation
PROPERTY SweeperSparesAnswers
PROPERTY SilentShopAnswered
PROPERTY OrderProceeds
