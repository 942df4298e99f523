------------------------------ MODULE Checkout ------------------------------
(***************************************************************************)
(* Placing an order: createOrder of apps/api, one step per statement that  *)
(* another session can come between, the customer app that sends, gives up *)
(* on and resends it, and the cancels and reopens that give uses back.     *)
(*                                                                         *)
(* The transaction is READ COMMITTED: every count reads what is committed  *)
(* at that moment.  A row locked FOR UPDATE stays locked until the request *)
(* commits or rolls back.  Prices, items and the wording of errors are     *)
(* left out; what may be refused for them is refused by Refuse.            *)
(***************************************************************************)
EXTENDS Integers, FiniteSets

CONSTANTS
  Keys,         \* idempotency keys: one per attempt to buy
  Users, UserOf,            \* whose attempt it is
  Requests, KeyOf,          \* the times it is sent
  Deals, Coupons,           \* rows of coupons: deal_price offers, and the rest
  TotalLimit, UserLimit,    \* per offer
  Wants,        \* what each request asks for: see Ask
  None,
  Crews,        \* what the riders' query may find: how many are online, and the
                \* sum of their max_active_orders (bound)
  PoolSize,     \* connections in the pool
  Ageing,       \* requests whose order may grow old (bound)
  Refusable,    \* requests the validations may refuse
  Fallible,     \* requests whose database calls may fail
  Impatient,    \* keys whose customer app may give up waiting
  Deliverable,  \* requests whose order may be delivered,
  Cancellable,  \* cancelled
  Reopenable    \* or reopened, once

Offers == Deals \cup Coupons

\* "chosen": typed or tapped; "auto": applied by the cart; "best": the server
\* picks one; "off": the customer removed it.
Modes == {"chosen", "auto", "best", "off"}

Ask == [deal : Deals \cup {None}, coupon : Coupons \cup {None},
        mode : Modes, onlyDeal : BOOLEAN]

ASSUME ConstantsAssumption ==
  /\ IsFiniteSet(Requests)
  /\ UserOf \in [Keys -> Users]
  /\ KeyOf \in [Requests -> Keys]
  /\ Deals \cap Coupons = {}
  /\ None \notin Offers \cup Requests
  /\ TotalLimit \in [Offers -> Nat]
  /\ UserLimit \in [Offers -> Nat]
  /\ Wants \in [Requests -> Ask]
  /\ \A r \in Requests : Wants[r].mode \in {"chosen", "auto"} => Wants[r].coupon # None
  /\ Crews \subseteq [riders : Nat, capacity : Nat]
  /\ Ageing \subseteq Requests
  /\ PoolSize \in Nat \ {0}

VARIABLES
  pc,           \* where createOrder stands for each request
  locked,       \* offers whose row the request has locked
  picked,       \* the offer whose row the request will lock next
  grant,        \* offers the request will redeem
  order,        \* the order the request created
  active,       \* the offers of which that order's redemption is active
  granted,      \* the offers named on the order row
  releasing,    \* offers a customer's cancel has still to give back
  reopened,     \* orders an admin reopened
  old,          \* orders created before RIDER_CAPACITY_LOOKBACK_MIN
  heldTo,       \* history: the capacity the gate last held a request against
  unheld,       \* history: requests let through since with no rider online,
                \* and orders reopened since
  asked,        \* the request the customer app is waiting for
  heard         \* keys whose customer app was told the order is placed

serverVars == <<pc, locked, picked, grant>>
orderVars == <<order, active, granted, releasing, reopened>>
clientVars == <<asked, heard>>
riderVars == <<old, heldTo, unheld>>
vars == <<pc, locked, picked, grant, order, active, granted, releasing,
          reopened, old, heldTo, unheld, asked, heard>>

InTransaction == {"key", "area", "load", "gate", "deal", "lockDeal",
                  "coupon", "lockCoupon", "number", "insert", "commit"}
Answers == {"placed", "replayed", "refused", "failed"}
Steps == {"unsent", "pool", "replay"} \cup InTransaction \cup Answers

------------------------------------------------------------------------------
(* The pool, the rows and the locks. *)

Connected == {r \in Requests : pc[r] \in InTransaction}
ConnectionFree == Cardinality(Connected) < PoolSize

\* The order a key has in the table, whoever inserted it.
KeyTaken(k) == \E q \in Requests : KeyOf[q] = k /\ order[q] # "none"
\* No order of the last 24 hours has the key.
KeyUnseen(k) == \A q \in Requests : KeyOf[q] = k => order[q] = "none" \/ q \in old
\* An inserted order with this key is not committed yet.
KeyPending(k) == \E q \in Requests : KeyOf[q] = k /\ pc[q] = "commit"

\* Mutant: the row is read without FOR UPDATE.
RowUnlocked(r, c) == TRUE

RowFree(r, c) == \A q \in Requests \ {r} : c \notin locked[q]
\* daily_order_counters: one row per area and day, kept until the commit.
CounterFree(r) == \A q \in Requests \ {r} : pc[q] \notin {"insert", "commit"}

\* The orders the gate counts: not yet delivered or cancelled, and recent.
ActiveOrders == {q \in Requests \ old : order[q] = "live"}

Redemptions(c) == {q \in Requests : c \in active[q]}
RedemptionsBy(c, u) == {q \in Redemptions(c) : UserOf[KeyOf[q]] = u}

\* Both limits, as checkEligibility and recheckUsageUnderLock count them.
BelowLimits(r, c) ==
  /\ Cardinality(Redemptions(c)) < TotalLimit[c]
  /\ Cardinality(RedemptionsBy(c, UserOf[KeyOf[r]])) < UserLimit[c]

\* Mutant: an early return leaves the transaction open.
MoveOpen(r, step, rows, offers) ==
  /\ pc' = [pc EXCEPT ![r] = step]
  /\ locked' = [locked EXCEPT ![r] = rows]
  /\ grant' = [grant EXCEPT ![r] = IF step \in InTransaction THEN offers ELSE {}]

\* On to the next step; a step outside the transaction ends it, by a commit or
\* a rollback, and unlocks its rows.
Move(r, step, rows, offers) ==
  /\ pc' = [pc EXCEPT ![r] = step]
  /\ locked' = [locked EXCEPT ![r] = IF step \in InTransaction THEN rows ELSE {}]
  /\ grant' = [grant EXCEPT ![r] = IF step \in InTransaction THEN offers ELSE {}]

Goto(r, step) == Move(r, step, locked[r], grant[r])

Init ==
  /\ pc = [r \in Requests |-> "unsent"]
  /\ locked = [r \in Requests |-> {}]
  /\ picked = [r \in Requests |-> None]
  /\ grant = [r \in Requests |-> {}]
  /\ order = [r \in Requests |-> "none"]
  /\ active = [r \in Requests |-> {}]
  /\ granted = [r \in Requests |-> {}]
  /\ releasing = [r \in Requests |-> {}]
  /\ reopened = {}
  /\ old = {}
  /\ heldTo = 0
  /\ unheld = {}
  /\ asked = [k \in Keys |-> None]
  /\ heard = {}

------------------------------------------------------------------------------
(* The customer app. *)

\* Place Order, or the app's own resend: the key of the attempt is kept until
\* an order is known to be placed.
Send(r) ==
  /\ pc[r] = "unsent"
  /\ asked[KeyOf[r]] = None
  /\ KeyOf[r] \notin heard
  /\ asked' = [asked EXCEPT ![KeyOf[r]] = r]
  /\ Goto(r, "pool")
  /\ UNCHANGED <<picked, heard, orderVars, riderVars>>

\* A timeout or a lost connection; the server goes on with the request.
GiveUp(k) ==
  /\ k \in Impatient
  /\ asked[k] # None
  /\ asked' = [asked EXCEPT ![k] = None]
  /\ UNCHANGED <<heard, serverVars, orderVars, riderVars>>

Hear(k) ==
  /\ asked[k] # None
  /\ pc[asked[k]] \in Answers
  /\ asked' = [asked EXCEPT ![k] = None]
  /\ heard' = IF pc[asked[k]] \in {"placed", "replayed"} THEN heard \cup {k} ELSE heard
  /\ UNCHANGED <<serverVars, orderVars, riderVars>>

------------------------------------------------------------------------------
(* createOrder *)

\* beginReadCommitted: waits for a connection as long as it takes.
Begin(r) ==
  /\ pc[r] = "pool"
  /\ ConnectionFree
  /\ Goto(r, "key")
  /\ UNCHANGED <<picked, orderVars, clientVars, riderVars>>

\* The idempotency pre-check, FOR UPDATE: it waits for a row being inserted.  It
\* looks back 24 hours, so an old order may be out of its sight.
CheckKey(r) ==
  /\ pc[r] = "key"
  /\ ~KeyPending(KeyOf[r])
  /\ \/ KeyTaken(KeyOf[r]) /\ Goto(r, "replayed")
     \/ KeyUnseen(KeyOf[r]) /\ Goto(r, "area")
  /\ UNCHANGED <<picked, orderVars, clientVars, riderVars>>

\* resolveAreaIdForPricing and getAreaById ask caches of 15 and 60 seconds ...
ResolveArea(r) ==
  /\ pc[r] = "area"
  /\ \E step \in {"load", "gate"} : Goto(r, step)
  /\ UNCHANGED <<picked, orderVars, clientVars, riderVars>>

\* ... and on a miss the pool, each request for itself: a second connection
\* while the transaction keeps its own.
LoadArea(r) ==
  /\ pc[r] = "load"
  /\ ConnectionFree
  /\ Goto(r, "gate")
  /\ UNCHANGED <<picked, orderVars, clientVars, riderVars>>

\* Mutant: one more than the riders can carry.
AtCapacityLoose(crew) ==
  crew.riders > 0 /\ Cardinality(ActiveOrders) > crew.capacity
AtCapacity(crew) ==
  crew.riders > 0 /\ Cardinality(ActiveOrders) >= crew.capacity

\* What the history keeps of a request that passes: with a rider online it was
\* held to the capacity.
Hold(r, crew) ==
  /\ heldTo' = IF crew.riders > 0 THEN crew.capacity ELSE heldTo
  /\ unheld' = IF crew.riders > 0 THEN {} ELSE unheld \cup {r}

\* The capacity counters are read with the settings, in one statement.  Riders
\* go online and offline and admins edit max_active_orders at any time, so the
\* statement may find any crew.
CapacityGate(r) ==
  /\ pc[r] = "gate"
  /\ \E crew \in Crews :
       \/ AtCapacity(crew) /\ Goto(r, "refused") /\ UNCHANGED <<heldTo, unheld>>
       \/ ~AtCapacity(crew) /\ Goto(r, "deal") /\ Hold(r, crew)
  /\ UNCHANGED <<picked, old, orderVars, clientVars>>

\* Mutant: a step nothing follows.
WithoutDealLost(r) == IF Wants[r].onlyDeal THEN "refused" ELSE "dropped"

\* A deal without a use left is held out of the order, and an order of nothing
\* else fails; a coupon is dropped unless the customer chose it.
WithoutDeal(r) == IF Wants[r].onlyDeal THEN "refused" ELSE "coupon"
WithoutCoupon(r) == IF Wants[r].mode = "chosen" THEN "refused" ELSE "number"

\* applyBestDeal counts the limits before any lock.
PickDeal(r) ==
  /\ pc[r] = "deal"
  /\ \/ /\ Wants[r].deal = None
        /\ Goto(r, "coupon")
        /\ UNCHANGED picked
     \/ /\ Wants[r].deal # None
        /\ BelowLimits(r, Wants[r].deal)
        /\ picked' = [picked EXCEPT ![r] = Wants[r].deal]
        /\ Goto(r, "lockDeal")
     \/ /\ Wants[r].deal # None
        /\ ~BelowLimits(r, Wants[r].deal)
        /\ Goto(r, WithoutDeal(r))
        /\ UNCHANGED picked
  /\ UNCHANGED <<orderVars, clientVars, riderVars>>

\* The coupons createOrder considers: the one asked for, or any that applies
\* itself.
Considered(r) ==
  CASE Wants[r].mode \in {"chosen", "auto"} -> {Wants[r].coupon}
    [] Wants[r].mode = "best" -> Coupons
    [] OTHER -> {}

\* validateCoupon, validateCouponById or pickBestAutoApply: no lock yet either.
PickCoupon(r) ==
  /\ pc[r] = "coupon"
  /\ \/ \E c \in Considered(r) :
          /\ BelowLimits(r, c)
          /\ picked' = [picked EXCEPT ![r] = c]
          /\ Goto(r, "lockCoupon")
     \/ /\ \A c \in Considered(r) : ~BelowLimits(r, c)
        /\ Goto(r, WithoutCoupon(r))
        /\ UNCHANGED picked
  /\ UNCHANGED <<orderVars, clientVars, riderVars>>

\* Mutant: the limits are not counted again under the lock.
LockUnchecked(r, next, without) ==
  /\ RowFree(r, picked[r])
  /\ Move(r, next, locked[r] \cup {picked[r]}, grant[r] \cup {picked[r]})
  /\ picked' = [picked EXCEPT ![r] = None]
  /\ UNCHANGED <<orderVars, clientVars, riderVars>>

\* SELECT ... FOR UPDATE, then recheckUsageUnderLock.
Lock(r, next, without) ==
  /\ RowFree(r, picked[r])
  /\ \/ /\ BelowLimits(r, picked[r])
        /\ Move(r, next, locked[r] \cup {picked[r]}, grant[r] \cup {picked[r]})
     \/ /\ ~BelowLimits(r, picked[r])
        /\ Move(r, without, locked[r] \cup {picked[r]}, grant[r])
  /\ picked' = [picked EXCEPT ![r] = None]
  /\ UNCHANGED <<orderVars, clientVars, riderVars>>

LockDeal(r) == pc[r] = "lockDeal" /\ Lock(r, "coupon", WithoutDeal(r))
LockCoupon(r) == pc[r] = "lockCoupon" /\ Lock(r, "number", WithoutCoupon(r))

\* generateOrderNumber
TakeNumber(r) ==
  /\ pc[r] = "number"
  /\ CounterFree(r)
  /\ Goto(r, "insert")
  /\ UNCHANGED <<picked, orderVars, clientVars, riderVars>>

\* Mutant: the index is not unique, as it once was not.
InsertAnyway(r) ==
  /\ pc[r] = "insert"
  /\ Goto(r, "commit")
  /\ UNCHANGED <<picked, orderVars, clientVars, riderVars>>

\* The unique index on (customer_id, idempotency_key) refuses a second order;
\* that transaction is rolled back and answers with the first one.
Insert(r) ==
  /\ pc[r] = "insert"
  /\ ~KeyPending(KeyOf[r])
  /\ Goto(r, IF KeyTaken(KeyOf[r]) THEN "replay" ELSE "commit")
  /\ UNCHANGED <<picked, orderVars, clientVars, riderVars>>

\* The order, its redemptions and its items appear together; whether the reply
\* of a COMMIT is heard is another matter.
Commit(r) ==
  /\ pc[r] = "commit"
  /\ order' = [order EXCEPT ![r] = "live"]
  /\ active' = [active EXCEPT ![r] = grant[r]]
  /\ granted' = [granted EXCEPT ![r] = grant[r]]
  /\ \/ Goto(r, "placed")
     \/ r \in Fallible /\ Goto(r, "failed")
  /\ UNCHANGED <<picked, releasing, reopened, clientVars, riderVars>>

\* The first order is read through the pool.
Replay(r) ==
  /\ pc[r] = "replay"
  /\ ConnectionFree
  /\ Goto(r, "replayed")
  /\ UNCHANGED <<picked, orderVars, clientVars, riderVars>>

\* A blocked user, a closed shop, no delivery, an item that cannot be ordered,
\* a pin out of range, no address.
Refuse(r) ==
  /\ r \in Refusable
  /\ pc[r] \in {"area", "gate", "deal", "insert"}
  /\ Goto(r, "refused")
  /\ UNCHANGED <<picked, orderVars, clientVars, riderVars>>

\* A statement throws, or the process dies: the transaction is rolled back.
Fail(r) ==
  /\ r \in Fallible
  /\ pc[r] \in InTransaction \cup {"replay"}
  /\ Goto(r, "failed")
  /\ picked' = [picked EXCEPT ![r] = None]
  /\ UNCHANGED <<orderVars, clientVars, riderVars>>

------------------------------------------------------------------------------
(* What happens to the order afterwards. *)

\* An order is delivered, by the engines of RiderDispatch and OrderLifecycle.
Deliver(q) ==
  /\ q \in Deliverable
  /\ order[q] = "live"
  /\ order' = [order EXCEPT ![q] = "done"]
  /\ UNCHANGED <<active, granted, releasing, reopened, serverVars, clientVars, riderVars>>

\* Mutant: the deal's redemption is forgotten.
CancelOrderOnly(q) ==
  /\ q \in Cancellable
  /\ order[q] = "live"
  /\ order' = [order EXCEPT ![q] = "cancelled"]
  /\ releasing' = [releasing EXCEPT ![q] = granted[q] \cap Coupons]
  /\ UNCHANGED <<active, granted, reopened, serverVars, clientVars, riderVars>>

\* cancelOrder: the status by a conditional update of its own ...
CancelOrder(q) ==
  /\ q \in Cancellable
  /\ order[q] = "live"
  /\ order' = [order EXCEPT ![q] = "cancelled"]
  /\ releasing' = [releasing EXCEPT ![q] = granted[q]]
  /\ UNCHANGED <<active, granted, reopened, serverVars, clientVars, riderVars>>

\* ... then the redemptions, one statement each, the coupon's first.
ReleaseUse(q) ==
  /\ \E c \in releasing[q] :
       /\ c \in Deals => releasing[q] \cap Coupons = {}
       /\ releasing' = [releasing EXCEPT ![q] = @ \ {c}]
       /\ active' = [active EXCEPT ![q] = @ \ {c}]
  /\ UNCHANGED <<order, granted, reopened, serverVars, clientVars, riderVars>>

\* updateOrderStatus to Cancelled, and the auto-cancel of utils/shops.js: both
\* in one transaction.
CancelWithUses(q) ==
  /\ q \in Cancellable
  /\ order[q] = "live"
  /\ order' = [order EXCEPT ![q] = "cancelled"]
  /\ active' = [active EXCEPT ![q] = @ \ granted[q]]
  /\ UNCHANGED <<granted, releasing, reopened, serverVars, clientVars, riderVars>>

\* updateOrderStatus from Cancelled: the uses are taken back, unchecked.
Reopen(q) ==
  /\ q \in Reopenable \ reopened
  /\ order[q] = "cancelled"
  /\ order' = [order EXCEPT ![q] = "live"]
  /\ active' = [active EXCEPT ![q] = granted[q]]
  /\ reopened' = reopened \cup {q}
  /\ unheld' = unheld \cup {q}
  /\ UNCHANGED <<granted, releasing, old, heldTo, serverVars, clientVars>>

\* created_at passes the look-back; a reopened order keeps its created_at.
GrowOld(q) ==
  /\ q \in Ageing \ old
  /\ order[q] # "none"
  /\ old' = old \cup {q}
  /\ UNCHANGED <<heldTo, unheld, serverVars, orderVars, clientVars>>

------------------------------------------------------------------------------
Progress(r) ==
  \/ Begin(r) \/ CheckKey(r) \/ ResolveArea(r) \/ LoadArea(r) \/ CapacityGate(r)
  \/ PickDeal(r) \/ LockDeal(r) \/ PickCoupon(r) \/ LockCoupon(r)
  \/ TakeNumber(r) \/ Insert(r) \/ Commit(r) \/ Replay(r)

Aftermath(q) ==
  \/ Deliver(q) \/ CancelOrder(q) \/ ReleaseUse(q)
  \/ CancelWithUses(q) \/ Reopen(q) \/ GrowOld(q)

Next ==
  \/ \E r \in Requests : Send(r) \/ Progress(r) \/ Refuse(r) \/ Fail(r) \/ Aftermath(r)
  \/ \E k \in Keys : GiveUp(k) \/ Hear(k)

Spec == Init /\ [][Next]_vars

------------------------------------------------------------------------------
(* Properties *)

TypeOK ==
  /\ pc \in [Requests -> Steps]
  /\ locked \in [Requests -> SUBSET Offers]
  /\ picked \in [Requests -> Offers \cup {None}]
  /\ grant \in [Requests -> SUBSET Offers]
  /\ order \in [Requests -> {"none", "live", "cancelled", "done"}]
  /\ active \in [Requests -> SUBSET Offers]
  /\ granted \in [Requests -> SUBSET Offers]
  /\ releasing \in [Requests -> SUBSET Offers]
  /\ reopened \in SUBSET Requests
  /\ old \in SUBSET Requests
  /\ heldTo \in Nat
  /\ unheld \in SUBSET Requests
  /\ asked \in [Keys -> Requests \cup {None}]
  /\ heard \in SUBSET Keys

\* However often an attempt is sent, given up on and sent again, and however
\* the requests overlap, it buys one order (the pre-check, the unique index).
OneOrderPerKey ==
  \A q, r \in Requests :
    KeyOf[q] = KeyOf[r] /\ order[q] # "none" /\ order[r] # "none" => q = r

\* Orders holding a use of c that no admin took back for them.
Fairly(c) == Redemptions(c) \ reopened

\* Concurrent checkouts never take more uses of an offer than it has, for
\* everyone or for one customer; only a reopened order can be one too many.
UsesBounded ==
  \A c \in Offers :
    /\ Cardinality(Fairly(c)) <= TotalLimit[c]
    /\ \A u \in Users :
         Cardinality({q \in Fairly(c) : UserOf[KeyOf[q]] = u}) <= UserLimit[c]

\* The gate counts without a lock: the recent orders go past the capacity that
\* the gate last held a request against by less than the connections there are
\* to check out with, whatever the riders did since.  Beside them are the
\* requests it let through since with no rider online and the orders reopened
\* since, which it does not hold back.
PastGate == {r \in Requests : pc[r] \in {"deal", "lockDeal", "coupon", "lockCoupon",
                                         "number", "insert", "commit"}}
OvershootBounded ==
  Cardinality(ActiveOrders \ unheld) + Cardinality(PastGate \ unheld) < heldTo + PoolSize

\* A cancelled order holds no use, beyond those its customer's cancel is still
\* giving back.
CancelReturnsUses ==
  \A q \in Requests : order[q] = "cancelled" => active[q] \subseteq releasing[q]

\* Every connection is held by a checkout that waits for one more.
PoolStarved == ~ConnectionFree /\ \A r \in Connected : pc[r] = "load"

\* What a request in a transaction can be waiting for.
Blocked(r) ==
  \/ pc[r] \in {"key", "insert"} /\ KeyPending(KeyOf[r])
  \/ pc[r] = "load" /\ ~ConnectionFree
  \/ pc[r] \in {"lockDeal", "lockCoupon"} /\ ~RowFree(r, picked[r])
  \/ pc[r] = "number" /\ ~CounterFree(r)

\* The locks are taken in one order (the deal's row, the coupon's, the day's
\* counter, the key): checkouts never wait for each other in a circle, unless
\* they starve the pool.
NoLockCycle ==
  Connected # {} /\ ~PoolStarved => \E r \in Connected : ~Blocked(r)

\* Every order takes its key and its uses in one step, under the limits, and
\* nobody is told of an order that does not exist.
Ledger == INSTANCE OrderLedger WITH
  placed <- {KeyOf[q] : q \in {r \in Requests : order[r] # "none"}},
  uses <- UNION {{KeyOf[q]} \X active[q] : q \in Requests \ reopened},
  told <- heard
ImplementsLedger == Ledger!LedgerSpec

=============================================================================
