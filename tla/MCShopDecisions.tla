--------------------------- MODULE MCShopDecisions ---------------------------
(***************************************************************************)
(* Two shops with a line each, one of them in part at a deal price, and a  *)
(* house line; the coupon's share does not divide evenly.                  *)
(***************************************************************************)
EXTENDS ShopDecisions

CONSTANTS s1, s2

MCShopOf == [l \in {1, 2, 3} |-> CASE l = 1 -> s1 [] l = 2 -> s2 [] OTHER -> NoShop]

MCShopOf1 == [l \in {1, 2, 3} |-> IF l = 1 THEN s1 ELSE NoShop]

MCItem0 == [l \in {1, 2, 3} |->
  CASE l = 1 -> [unit |-> 50, qty |-> 2, deal |-> 30, dealQty |-> 1]
    [] l = 2 -> [unit |-> 35, qty |-> 1, deal |-> 0, dealQty |-> 0]
    [] OTHER -> [unit |-> 20, qty |-> 1, deal |-> 0, dealQty |-> 0]]

\* 155 of items, 20 of deal saving, 17 of coupon, 5 of waiver, 15 of charges.
MCGranted == [subtotal |-> 155, deal |-> 20, waiver |-> 5, charges |-> 15,
              discount |-> 42, total |-> 128]

MCSwaps == {[unit |-> 40, deal |-> 25]}
=============================================================================
