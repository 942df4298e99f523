---------------------------- MODULE OrderBilling ----------------------------
(***************************************************************************)
(* The bill of an order, from its lines and the promotion granted at       *)
(* checkout.  Money is counted in paise: roundMoney rounds to them, and    *)
(* toMoney reads them.  The four charge lines of an order are added up     *)
(* into one, since they are kept or dropped together.                      *)
(***************************************************************************)
EXTENDS Integers, FiniteSetsExt

\* What a bill is kept next to while orders.billing_snapshot is NULL.
NoSnapshot == [couponBasis |-> -1, couponItems |-> 0, waiver |-> 0, charges |-> 0]

Least(a, b)    == IF a < b THEN a ELSE b
Greatest(a, b) == IF a > b THEN a ELSE b

\* roundMoney of a product divided by n: to the nearest paisa, halves up.
RoundedShare(x, y, n) == (2 * x * y + n) \div (2 * n)

\* A line: its price, its quantity, and the deal price that dealQty of its
\* units, no more than there are, sell at (dealUnitsOf).
BilledLine == {it \in [unit : Nat, qty : Nat, deal : Nat, dealQty : Nat] : it.dealQty <= it.qty}
LineTotal(it)  == it.unit * it.qty
DealSaving(it) == Greatest(0, (it.unit - it.deal) * it.dealQty)

Subtotal(item, lines)     == MapThenSumSet(LAMBDA l : LineTotal(item[l]), lines)
DealDiscount(item, lines) == MapThenSumSet(LAMBDA l : DealSaving(item[l]), lines)
Basis(item, lines)        == Subtotal(item, lines) - DealDiscount(item, lines)

\* billingSnapshot of an order without a stored one: what is left of its
\* discount once the deal and the waiver are taken out.
SnapshotOf(bill, item) ==
  [couponBasis |-> Basis(item, DOMAIN item),
   couponItems |-> Greatest(0, bill.discount - bill.deal - bill.waiver),
   waiver      |-> bill.waiver,
   charges     |-> bill.charges]

\* calculateOrderBilling, included being the lines that pass isBillableItem.
CalculateOrderBilling(snapshot, item, included) ==
  LET subtotal == Subtotal(item, included)
      deal     == DealDiscount(item, included)
      basis    == Greatest(0, subtotal - deal)
      coupon   == IF snapshot.couponBasis > 0
                  THEN Least(basis, RoundedShare(snapshot.couponItems, basis, snapshot.couponBasis))
                  ELSE 0
      some     == included # {}
      waiver   == IF some THEN snapshot.waiver ELSE 0
      charges  == IF some THEN snapshot.charges ELSE 0
      discount == deal + coupon + waiver
  IN [subtotal |-> subtotal, deal |-> deal, waiver |-> waiver, charges |-> charges,
      discount |-> discount,
      total    |-> IF some THEN Greatest(0, subtotal + charges - discount) ELSE 0]
=============================================================================
