---------------------------- MODULE ShopDecisions ----------------------------
(***************************************************************************)
(* The shops of one order: their owners (and admins for them) confirm,     *)
(* reject, mark ready and are asked again, and the shop-alert sweeper      *)
(* escalates to the admins and then rejects for a silent shop.  A decision *)
(* and its bill commit under the order's row lock; what follows from it,   *)
(* cancelling an order all of whose shops refused or starting the search   *)
(* for a rider, is done by later statements of the same call, from reads   *)
(* of their own.  All lines of a shop are stamped together, so the stamps  *)
(* are kept per shop.                                                      *)
(***************************************************************************)
EXTENDS Naturals, OrderBilling

CONSTANTS
  Shops, NoShop,      \* the shops of the order; the shop of a house line
  Lines, ShopOf,      \* the order's lines and whose each is
  Item0,              \* the lines as ordered
  Swaps,              \* the (unit, deal) prices an admin may swap a line to (bound)
  Granted,            \* the bill as createOrder wrote it
  Requests,           \* requests of owners and admins running at a time (bound)
  Sweepers,           \* API instances whose sweeper runs
  MaxAsks,            \* resends and reopens during a run (bound)
  MaxSwaps,           \* item swaps during a run (bound)
  MaxDeaths           \* calls that may die half-way (bound)

Calls == Requests \cup Sweepers

ASSUME ShopsAssumption == NoShop \notin Shops /\ Shops # {}
ASSUME LinesAssumption == ShopOf \in [Lines -> Shops \cup {NoShop}]
ASSUME CallsAssumption == Requests \cap Sweepers = {}
ASSUME BoundsAssumption == MaxAsks \in Nat /\ MaxSwaps \in Nat /\ MaxDeaths \in Nat
\* What createOrder wrote: an order has lines, and amounts are never negative.
ASSUME OrderAssumption ==
  /\ Lines # {} /\ IsFiniteSet(Lines)
  /\ Item0 \in [Lines -> BilledLine]
  /\ Granted \in [subtotal : Nat, deal : Nat, waiver : Nat, charges : Nat,
                  discount : Nat, total : Nat]
\* Products are priced at no less than nothing.
ASSUME SwapsAssumption == Swaps \subseteq [unit : Nat, deal : Nat]
\* createOrder bills by the same rules as calculateOrderBilling.
ASSUME GrantedAssumption ==
  CalculateOrderBilling(SnapshotOf(Granted, Item0), Item0, Lines) = Granted

VARIABLES
  status,     \* orders.status, "Gone" from Out for Delivery on
  byShops,    \* orders.cancel_reason is the shops'
  search,     \* orders.rider_assignment_status is not 'none'
  row,        \* the shop_* columns of each shop's lines
  notify,     \* a notifyShopsForOrder has not stamped its lines yet
  item,       \* the lines' prices
  snapshot,   \* orders.billing_snapshot
  bill,       \* orders.subtotal, total, ...
  asks, swaps, deaths, \* counters of the bounds
  call        \* the running calls

order == <<status, byShops, search>>
money == <<item, snapshot, bill>>
rest  == <<notify, asks, swaps, deaths>>
vars  == <<order, row, money, rest, call>>

Live == status \in {"Accepted", "Preparing"}

\* age: how long the shop has been silent since COALESCE(shop_requested_at,
\* accepted_at): 0, past SHOP_ADMIN_ALERT_MS (1), past SHOP_RESPONSE_TIMEOUT_MS
\* (2).  alerts: escalations to the admins since shop_admin_alerted_at was NULL.
Row == [confirmed : BOOLEAN, rejected : BOOLEAN, ready : BOOLEAN, billable : BOOLEAN,
        requested : BOOLEAN, alerts : 0 .. 2, age : 0 .. 2]
FreshRow == [confirmed |-> FALSE, rejected |-> FALSE, ready |-> FALSE, billable |-> TRUE,
             requested |-> FALSE, alerts |-> 0, age |-> 0]

Undecided(r) == ~r.confirmed /\ ~r.rejected

\* "order", "lines", "cancel": maybeAutoCancelOrderWhenAllShopsRejected.
\* "load", "items", "begin": maybeStartRiderAssignment.
PC == {"idle", "order", "lines", "cancel", "load", "items", "begin",
       "ready", "claim", "timeout"}
Call == [pc : PC, shop : Shops \cup {NoShop}]
Idle == [pc |-> "idle", shop |-> NoShop]

TypeOK ==
  /\ status \in {"Pending", "Accepted", "Preparing", "Gone", "Cancelled"}
  /\ byShops \in BOOLEAN
  /\ search \in BOOLEAN
  /\ row \in [Shops -> Row]
  /\ notify \in BOOLEAN
  /\ asks \in 0 .. MaxAsks /\ swaps \in 0 .. MaxSwaps /\ deaths \in 0 .. MaxDeaths
  /\ call \in [Calls -> Call]

At(c, pc)     == call[c].pc = pc
Goto(c, pc)   == call' = [call EXCEPT ![c].pc = pc]
StartSwapped(c, pc, s) == At(c, "idle") /\ call' = [call EXCEPT ![c] = [pc |-> s, shop |-> pc]]
Start(c, pc, s) == At(c, "idle") /\ call' = [call EXCEPT ![c] = [pc |-> pc, shop |-> s]]
Finish(c)     == call' = [call EXCEPT ![c] = Idle]

Init ==
  /\ status = "Pending" /\ byShops = FALSE /\ search = FALSE
  /\ row = [s \in Shops |-> FreshRow]
  /\ notify = FALSE
  /\ item = Item0 /\ bill = Granted
  /\ snapshot \in {NoSnapshot, SnapshotOf(Granted, Item0)}  \* NULL in an old order
  /\ asks = 0 /\ swaps = 0 /\ deaths = 0
  /\ call = [c \in Calls |-> Idle]

\* isBillableItem of a line of shop s, its columns in rows.
Billable(rows, l) ==
  ShopOf[l] \in Shops => rows[ShopOf[l]].billable /\ ~rows[ShopOf[l]].rejected
Included(rows) == {l \in Lines : Billable(rows, l)}

SaveAsBefore(rows) ==
  LET granted == IF snapshot = NoSnapshot THEN SnapshotOf(bill, item) ELSE snapshot
  IN /\ snapshot' = granted
     /\ bill' = CalculateOrderBilling(granted, item, Included(row))
     /\ UNCHANGED item

SaveRatchet(rows) ==
  /\ snapshot' = SnapshotOf(bill, item)
  /\ bill' = CalculateOrderBilling(snapshot', item, Included(rows))
  /\ UNCHANGED item

\* saveOrderBilling: the bill that goes with rows and items, from a snapshot
\* that is taken now if the order has none.
SaveOrderBilling(rows) ==
  LET granted == IF snapshot = NoSnapshot THEN SnapshotOf(bill, item) ELSE snapshot
  IN /\ snapshot' = granted
     /\ bill' = CalculateOrderBilling(granted, item, Included(rows))
     /\ UNCHANGED item

-----------------------------------------------------------------------------
(***************************************************************************)
(* changeShopDecision: one transaction under the order's lock.             *)
(***************************************************************************)

Decide(s, columns) ==
  /\ Live
  /\ row' = [row EXCEPT ![s] = columns]
  /\ SaveOrderBilling(row')

Confirmed(r) == [r EXCEPT !.confirmed = TRUE, !.billable = TRUE, !.age = 0]

Confirm(c, s) ==
  /\ c \in Requests
  /\ ~row[s].rejected
  /\ Decide(s, Confirmed(row[s]))
  /\ status' = "Preparing"
  /\ Start(c, "load", NoShop)
  /\ UNCHANGED <<byShops, search, rest>>

Rejected(r) == [r EXCEPT !.rejected = TRUE, !.billable = FALSE, !.age = 0]

RejectUnchecked(s) ==
  /\ Decide(s, Rejected(row[s]))
  /\ UNCHANGED <<order, rest>>

RejectOnly(c, s) ==
  /\ c \in Requests
  /\ RejectUnchecked(s)
  /\ Start(c, "load", NoShop)

Reject(c, s) ==
  /\ c \in Requests
  /\ RejectUnchecked(s)
  /\ Start(c, "order", NoShop)

\* Not a billable shop again until it accepts.
Asked(r) == [r EXCEPT !.confirmed = FALSE, !.rejected = FALSE, !.ready = FALSE,
                      !.billable = FALSE, !.requested = TRUE, !.alerts = 0,
                      !.age = 0]

Resend(s) ==
  /\ asks < MaxAsks
  /\ row[s].rejected
  /\ Decide(s, Asked(row[s]))
  /\ asks' = asks + 1
  /\ UNCHANGED <<order, notify, swaps, deaths, call>>

-----------------------------------------------------------------------------
(***************************************************************************)
(* What follows a decision, statement by statement.                        *)
(***************************************************************************)

AllRejected == \A s \in Shops : row[s].rejected

\* Its first read, of the order; then of the lines; then the transaction.
CancelReadsOrder(c) ==
  /\ At(c, "order")
  /\ Goto(c, IF Live THEN "lines" ELSE "load")
  /\ UNCHANGED <<order, row, money, rest>>

CancelReadsLines(c) ==
  /\ At(c, "lines")
  /\ Goto(c, IF AllRejected THEN "cancel" ELSE "load")
  /\ UNCHANGED <<order, row, money, rest>>

CancelOnPrechecks == Live
CancelHolds == Live /\ AllRejected

CancelAllRejected(c) ==
  /\ At(c, "cancel")
  /\ IF CancelHolds
     THEN status' = "Cancelled" /\ byShops' = TRUE
     ELSE UNCHANGED <<status, byShops>>
  /\ Goto(c, "load")
  /\ UNCHANGED <<search, row, money, rest>>

\* loadOrder: not cancelled and without a rider.
StartReadsOrder(c) ==
  /\ At(c, "load")
  /\ IF status = "Cancelled" THEN Finish(c) ELSE Goto(c, "items")
  /\ UNCHANGED <<order, row, money, rest>>

Decided(s)  == row[s].rejected \/ row[s].confirmed
AllDecided  == \A s \in Shops : Decided(s)
AnyConfirmed == \E s \in Shops : row[s].confirmed
WaitsForAllYes == (\A s \in Shops : row[s].confirmed) /\ AnyConfirmed
MayStart    == AllDecided /\ AnyConfirmed

StartReadsItems(c) ==
  /\ At(c, "items")
  /\ IF MayStart THEN Goto(c, "begin") ELSE Finish(c)
  /\ UNCHANGED <<order, row, money, rest>>

\* startAssignment's transaction: refused once begun, delivered or cancelled.
\* ("Gone" is Out for Delivery or Delivered: it may or may not be refused.)
StartAssignment(c) ==
  /\ At(c, "begin")
  /\ search' \in CASE status = "Cancelled" -> {search}
                   [] status = "Gone"      -> {search, TRUE}
                   [] OTHER                -> {TRUE}
  /\ Finish(c)
  /\ UNCHANGED <<status, byShops, row, money, rest>>

-----------------------------------------------------------------------------
(***************************************************************************)
(* readyShopOrder: a count of confirmed lines, then an UPDATE without a    *)
(* condition on them.                                                      *)
(***************************************************************************)

ReadyReads(c, s) ==
  /\ c \in Requests
  /\ Live /\ row[s].confirmed
  /\ Start(c, "ready", s)
  /\ UNCHANGED <<order, row, money, rest>>

ReadyStamps(c) ==
  /\ At(c, "ready")
  /\ row' = [row EXCEPT ![call[c].shop].ready = TRUE]
  /\ Finish(c)
  /\ UNCHANGED <<order, money, rest>>

-----------------------------------------------------------------------------
(***************************************************************************)
(* The shop-alert sweeper: each pass scans for candidates and acts on each *)
(* under the order's lock.                                                 *)
(***************************************************************************)

ScanSilent(c, s) ==
  /\ c \in Sweepers
  /\ Live /\ Undecided(row[s]) /\ row[s].alerts = 0 /\ row[s].age = 1
  /\ Start(c, "claim", s)
  /\ UNCHANGED <<order, row, money, rest>>

EscalateUnclaimed(s) == Live /\ Undecided(row[s]) /\ row[s].age = 1
EscalateHolds(s) == Live /\ Undecided(row[s]) /\ row[s].alerts = 0 /\ row[s].age = 1

\* escalatePendingShopOrder: the marker and the inbox row commit together.
Escalate(c) ==
  LET s == call[c].shop IN
  /\ At(c, "claim")
  /\ row' = IF EscalateHolds(s)
            THEN [row EXCEPT ![s].alerts = Least(2, @ + 1)]
            ELSE row
  /\ Finish(c)
  /\ UNCHANGED <<order, money, rest>>

TimedOutUnalerted(s) == Undecided(row[s]) /\ row[s].age = 2 /\ row[s].alerts = 0
TimedOut(s) == Undecided(row[s]) /\ row[s].age = 2

ScanTimedOut(c, s) ==
  /\ c \in Sweepers
  /\ Live /\ TimedOut(s)
  /\ Start(c, "timeout", s)
  /\ UNCHANGED <<order, row, money, rest>>

TimeoutOnScan(s) == Live
TimeoutHolds(s) == Live /\ TimedOut(s)

\* rejectShopOrder with source 'timeout': rechecked under the lock.
TimeoutReject(c) ==
  LET s == call[c].shop IN
  /\ At(c, "timeout")
  /\ IF TimeoutHolds(s)
     THEN RejectUnchecked(s) /\ Goto(c, "order")
     ELSE Finish(c) /\ UNCHANGED <<order, row, money, rest>>

-----------------------------------------------------------------------------
(***************************************************************************)
(* Around the shops: the order is accepted, ended, brought back, or has a  *)
(* line swapped; time passes; a call dies.                                 *)
(***************************************************************************)

Accept ==
  /\ status = "Pending"
  /\ status' = "Accepted" /\ notify' = TRUE
  /\ UNCHANGED <<byShops, search, row, money, asks, swaps, deaths, call>>

\* notifyShopsForOrder, once its pushes are out: no condition on the order.
NotifyStamps ==
  /\ notify
  /\ notify' = FALSE
  /\ row' = [s \in Shops |->
       IF Undecided(row[s]) /\ ~row[s].requested
       THEN [row[s] EXCEPT !.requested = TRUE, !.age = 0] ELSE row[s]]
  /\ UNCHANGED <<order, money, asks, swaps, deaths, call>>

\* The customer, an admin or the rider ends the shops' part.
End(to) ==
  /\ Live \/ (status = "Pending" /\ to = "Cancelled")
  /\ status' = to /\ byShops' = FALSE
  /\ UNCHANGED <<search, row, money, rest, call>>

Reopened == [s \in Shops |-> FreshRow]

Reopen ==
  /\ status = "Cancelled" /\ asks < MaxAsks
  /\ status' = "Pending" /\ byShops' = FALSE /\ search' = FALSE
  /\ row' = Reopened
  /\ SaveOrderBilling(row')
  /\ asks' = asks + 1
  /\ UNCHANGED <<notify, swaps, deaths, call>>

\* replaceOrderItem.  A deal item only becomes one with a deal price below its
\* price; without a snapshot and on a billable line the totals are recomputed
\* in place, with the coupon's share frozen.
ReplaceItem(l, p) ==
  LET newItem == [item EXCEPT ![l].unit = p.unit, ![l].deal = p.deal]
      change  == DealSaving(newItem[l]) - DealSaving(item[l])
      edited  == [bill EXCEPT !.discount = @ + change, !.deal = @ + change]
      granted == IF snapshot = NoSnapshot THEN SnapshotOf(edited, newItem) ELSE snapshot
      based   == [granted EXCEPT !.couponBasis = Basis(newItem, Lines)]
      subtotal == Subtotal(newItem, Lines)
  IN
  /\ swaps < MaxSwaps
  /\ status = "Pending" \/ Live
  /\ item[l].dealQty > 0 => p.deal < p.unit
  /\ item' = newItem
  /\ IF snapshot = NoSnapshot /\ Billable(row, l)
     THEN /\ bill' = [edited EXCEPT !.subtotal = subtotal,
                        !.total = Greatest(0, subtotal + bill.charges - edited.discount)]
          /\ UNCHANGED snapshot
     ELSE /\ snapshot' = based
          /\ bill' = CalculateOrderBilling(based, newItem, Included(row))
  /\ swaps' = swaps + 1
  /\ UNCHANGED <<order, row, notify, asks, deaths, call>>

\* Time matters to the sweeper only.
Age(s) ==
  /\ Sweepers # {}
  /\ Undecided(row[s]) /\ row[s].age < 2
  /\ Live \/ (status = "Pending" /\ row[s].requested)
  /\ row' = [row EXCEPT ![s].age = @ + 1]
  /\ UNCHANGED <<order, money, rest, call>>

\* A statement throws or the process dies: the rest of the call is lost.
Die(c) ==
  /\ deaths < MaxDeaths
  /\ ~At(c, "idle")
  /\ deaths' = deaths + 1
  /\ Finish(c)
  /\ UNCHANGED <<order, row, money, notify, asks, swaps>>

CallStep(c) ==
  \/ CancelReadsOrder(c) \/ CancelReadsLines(c) \/ CancelAllRejected(c)
  \/ StartReadsOrder(c) \/ StartReadsItems(c) \/ StartAssignment(c)
  \/ ReadyStamps(c) \/ Escalate(c) \/ TimeoutReject(c)

Next ==
  \/ \E c \in Calls : CallStep(c) \/ Die(c)
  \/ \E c \in Calls, s \in Shops :
        Confirm(c, s) \/ Reject(c, s) \/ ReadyReads(c, s)
        \/ ScanSilent(c, s) \/ ScanTimedOut(c, s)
  \/ \E s \in Shops : Resend(s) \/ Age(s)
  \/ Accept \/ NotifyStamps \/ Reopen
  \/ \E to \in {"Gone", "Cancelled"} : End(to)
  \/ \E l \in Lines, p \in Swaps : ReplaceItem(l, p)

Spec == Init /\ [][Next]_vars

\* Time passes and setInterval keeps ticking: a pass visits every candidate,
\* and the calls it makes, like those of a request, are awaited to their end.
Fairness ==
  /\ \A s \in Shops : WF_vars(Age(s))
  /\ \A w \in Sweepers, s \in Shops : WF_vars(ScanSilent(w, s)) /\ WF_vars(ScanTimedOut(w, s))
  /\ \A c \in Calls : WF_vars(CallStep(c))

LiveSpec == Spec /\ Fairness

-----------------------------------------------------------------------------

Cancelling == {c \in Calls : call[c].pc \in {"order", "lines", "cancel"}}
Starting   == {c \in Calls : call[c].pc \in {"load", "items", "begin"}}

(***************************************************************************)
(* However rejections, resends and their calls interleave, an order all of *)
(* whose shops refused is not left standing: as long as no call died, one  *)
(* that will still cancel it is on its way (changeShopDecision commits     *)
(* before maybeAutoCancelOrderWhenAllShopsRejected reads).                 *)
(***************************************************************************)
CancelOwed == (deaths = 0 /\ Live /\ AllRejected) => Cancelling # {}

(***************************************************************************)
(* Likewise the search: once every shop has answered and one of them said  *)
(* yes, the search has begun or a call that will begin it is on its way,   *)
(* whichever shop answered last (confirmShopOrder, rejectShopOrder).       *)
(***************************************************************************)
StartOwed ==
  (deaths = 0 /\ Live /\ AllDecided /\ AnyConfirmed /\ ~search) => Cancelling \cup Starting # {}

(***************************************************************************)
(* The stored bill is always the one that the order's lines, the decisions *)
(* on them and the promotion granted at checkout give, however they came   *)
(* about: nothing accumulates over rejections, resends and item swaps.     *)
(***************************************************************************)
BillExact ==
  snapshot # NoSnapshot => bill = CalculateOrderBilling(snapshot, item, Included(row))

(***************************************************************************)
(* A promotion that a rejection took off the bill comes back with the      *)
(* shops: when every line is billed again, so are the whole waiver, the    *)
(* charges and the coupon, as far as the lines, swapped meanwhile, still   *)
(* bear it.  No sequence of decisions and swaps bills more of a promotion  *)
(* than was granted.                                                       *)
(***************************************************************************)
GrantedCoupon == Granted.discount - Granted.deal - Granted.waiver
GrantRestored ==
  /\ bill.discount - bill.deal <= Granted.discount - Granted.deal
  /\ (snapshot # NoSnapshot /\ Included(row) = Lines) =>
       /\ bill.total = Greatest(0, bill.subtotal + Granted.charges - bill.discount)
       /\ bill.discount - bill.deal
            = Granted.waiver + Least(Basis(item, Lines), GrantedCoupon)

(***************************************************************************)
(* Two instances that find the same silent shop put one alert in the       *)
(* admins' inbox for each time that the shop is asked.                     *)
(***************************************************************************)
OneEscalation == \A s \in Shops : row[s].alerts <= 1

(***************************************************************************)
(* The sweeper rejects only for a shop that has been silent for the whole  *)
(* window: never over an answer, nor a fresh resend, that came while its   *)
(* candidates were on their way.                                           *)
(***************************************************************************)
SweeperSparesAnswers ==
  [][\A w \in Sweepers, s \in Shops :
       (At(w, "timeout") /\ call'[w].pc = "order" /\ row'[s] # row[s])
         => Undecided(row[s]) /\ row[s].age = 2]_vars

(***************************************************************************)
(* Every shop's decisions follow the round of ShopRound: no yes after a    *)
(* no, no resend but after a no, and no cancellation by the shops unless   *)
(* all of them stand at no when it commits.                                *)
(***************************************************************************)
RoundAnswer(r) == IF r.rejected THEN "no" ELSE IF r.confirmed THEN "yes" ELSE "waiting"
RoundLife == IF status = "Pending" THEN "shut"
             ELSE IF Live THEN "open"
             ELSE IF status = "Cancelled" /\ byShops THEN "refused" ELSE "ended"

Round == INSTANCE ShopRound WITH
  answer <- [s \in Shops |-> RoundAnswer(row[s])],
  life   <- RoundLife
ImplementsRound == Round!Spec

(***************************************************************************)
(* A shop that stays silent is answered for: by the timeout if not by      *)
(* itself, while the order runs.                                           *)
(***************************************************************************)
SilentShopAnswered ==
  \A s \in Shops : (Live /\ Undecided(row[s])) ~> (~Live \/ Decided(s))

(***************************************************************************)
(* No accepted order stands still: the search begins or the order ends,    *)
(* unless a call died in between.                                          *)
(***************************************************************************)
OrderProceeds == Live ~> (search \/ ~Live \/ deaths > 0)
=============================================================================
