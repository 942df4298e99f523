----------------------------- MODULE MCCheckout -----------------------------
(* Instances of Checkout for TLC. *)
EXTENDS Checkout, TLC

CONSTANTS k1, k2, u1, r1, r2, r3, d, c

\* The customer's first attempt may be sent twice; the other, from another
\* device, once.
ThreeRequests == {r1, r2, r3}
KeyOfThree == r1 :> k1 @@ r2 :> k1 @@ r3 :> k2
UserOfTwo == k1 :> u1 @@ k2 :> u1

\* The deal has one use for everybody, and the customer may use the coupon once.
AskFor(deal, coupon, mode, onlyDeal) ==
  [deal |-> deal, coupon |-> coupon, mode |-> mode, onlyDeal |-> onlyDeal]

\* The second request of k1 comes after its customer took both off the cart.
WantsOfThree ==
  r1 :> AskFor(d, c, "chosen", FALSE) @@ r2 :> AskFor(None, None, "off", FALSE) @@
  r3 :> AskFor(d, c, "auto", TRUE)

TotalOf == d :> 1 @@ c :> 2
PerUserOf == d :> 3 @@ c :> 1

\* Nobody is online, one rider takes one order, or two take two.
CrewsOfThree == {[riders |-> n, capacity |-> n] : n \in 0 .. 2}
=============================================================================
