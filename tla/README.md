# Verification of the ServeLoco order flow

TLA+ modules of the server that takes a grocery order from checkout to a
rider's hands, and of the gates and caches that decide what a customer may order
and sees, with the TLC configurations that model-check them and TLAPS proofs of
what matters most. All paths are relative to `src/`; the API is `apps/api/src/`.

## 1. The system

ServeLoco (VillKro) is a monorepo: `apps/api` (Express, MySQL, MongoDB,
Socket.IO), `apps/customer-app` (React Native: customers, shop owners and
riders), `apps/admin` (React), `apps/landing`. All business logic is in the
API, which runs as **one process** (`ecosystem.config.js`: `instances: 1`) over
MySQL. Nothing but MySQL rows survives a restart.

There are no threads, but every `await pool.query(...)` is a point where any
other request, timer or sweeper may run. Most handlers follow one pattern: read
the row, decide, write with a compare-and-set (`UPDATE ... WHERE status = ?`).
A few use a transaction with `SELECT ... FOR UPDATE`, and a few neither. What is
hard in this code is what happens between the read and the write.

| Component | State it keeps | Operations | What makes it correct |
|---|---|---|---|
| Checkout (`controllers/orderController.js`, `utils/coupons.js`, the checkout screen) | `orders`, `coupon_redemptions`, `daily_order_counters`, the idempotency key; pool connections and row locks | `createOrder`, its replay; the app's send, give up, resend | one order per key, offers within their limits, overshoot of the riders' capacity bounded, no circle of waiting |
| Auto-accept timer (`realtime/orderAutoAccept.js`) | `timers`, `deadlines`, `claimedOrders`, in memory | `schedule`, `fire`, `extend`, `cancel`, `rehydratePendingOrders` | every placed order leaves Pending, also across restarts |
| Order status and payment (`controllers/adminController.js`, `orderController.js`, `riderController.js`, `adminRiderController.js`) | `orders.status`, `payment_status`, `accepted_at`, `coupon_redemptions.status` | customer cancel; admin move, cancel, reopen, payment, snooze; rider pick-up, move, paid | forward-only status, payment and coupons consistent with it |
| Shop decisions and billing (`services/shopOrderActions.js`, `utils/shops.js`, `services/orderBilling.js`) | per-item `shop_*` stamps, `billing_snapshot`, the bill | confirm, reject, resend, ready, cancel when all reject, start the search; item swap | nobody's refusal or answer is left without its consequence; the bill is a function of the lines |
| Shop alerts (`realtime/shopAlertSweeper.js`, `services/shopOrderEscalation.js`) | notify counters and stamps of items | remind, alert admins, timeout reject | each claimed once, none over an answer; a silent shop is answered for |
| Rider assignment engine (`services/riderAssignment.js`, `utils/riders.js`, `realtime/riderOfferSweeper.js`) | `orders.rider_id`, `rider_assignment_status`, `rider_search_started_at`; `rider_order_offers` with three unique keys | start / continue / fail a search, create an offer, accept, reject, expire, revoke, reassign, recover | one open offer per order and per rider; an order's rider has accepted it and keeps it; a search and an offer always come to an end |
| Sweep gates (`realtime/sweepGates.js`) | `closedUntil`, `wakes`, in memory | `checkpoint`, `close`, `wake`, `isClosed` | a sweeper never sleeps over work |
| Area gates and shop schedule (`utils/riders.js`, `utils/shops.js`, `realtime/shopScheduleSweeper.js`, toggles in three controllers) | `settings.delivery_available`, `settings.shop_open`, `shops.is_open`; `pendingCloses` in memory | derive the gates, riders and owners toggle, admins override, scheduled opens and closes | the gates agree with what they are derived from; a scheduled close is lost only for the reasons named |
| Catalogue caches (`utils/areaScope.js`, `utils/ttlCache.js`, `routes/bootstrapRoutes.js`, the app's two persisted stores) | `areas.catalog_version`, two in-process caches, the phone's settings and version | edit, bust, count; conditional and plain GETs | a 304 is right; phones catch up |
| Rider selection (`utils/riders.js`) | none | radius tiers, least orders, random tie break | picks a best candidate |
| Realtime events and presence, notifications, carts, reports, sessions, the admin app | rows of their own, sockets | CRUD, emits, screens | outside the order's state |

How they interact: checkout commits an order and arms the timer; timer or admin
accepts it, which fans out to the shops and, for an order without shop items,
starts the search for a rider; a shop's decision moves the order to Preparing
or, when all shops reject, cancels it, and the last decision calls
`maybeStartRiderAssignment`; the engine asks riders one at a time; the rider's
accept sets `orders.rider_id`, which enables the rider's handlers; cancel, reopen
and reassign reach into the engine by `revokeOffersForOrder` and
`reassignRider`, and into the coupons by releasing or taking back their uses.
Sweepers, each behind a gate, redo what a dying call left. Riders and shops going
on and off duty move the area's gates, and every edit of the catalogue drops the
caches and counts the version that phones send back as `If-None-Match`.

The hazards of this code, each at its line and with the properties that cover
it, are the `hazards` of `PROJECT.json`.

## 2. The modules

| Module | What it is |
|---|---|
| `OrderLedger` | abstract contract of checkout: keys, uses, who was told |
| `Checkout` | `createOrder` statement by statement, with its pool, locks and resends |
| `OrderLifecycle` | one order's status, payment and coupons, all who move them, and the auto-accept timer |
| `OrderBilling` | the bill as operators over lines in paise |
| `ShopRound` | abstract contract of the shops' round |
| `ShopDecisions` | the shops of one order and the sweeper that answers for silent ones; uses `OrderBilling` |
| `RiderHandoff` | abstract contract of the engine: who is asked about an order, who has been asked, who holds it |
| `RiderDispatch` | the engine, statement by statement |
| `SweepGate` | the gate between a sweeper and those who create its work |
| `AreaGates` | `delivery_available`, `shop_open` and the schedule sweeper |
| `Catalog` | an edit's way to a phone through caches and conditional GETs |
| `MC<module>`, `MC<module>[_<run>].cfg` | instances for TLC |
| `<module>_proofs` | theorems about `Checkout`, `OrderLifecycle`, `OrderBilling`, `ShopDecisions`, `RiderDispatch`, `SweepGate`, `AreaGates`, `Catalog` |

In all of them an action is an awaited statement or a committed transaction,
whose guards are those it rechecks under its row locks; what runs between two
awaits is part of the action before or after it. What a call has read earlier and
uses later is kept in the state of that call. Sockets and pushes at the end
of a call, which change none of this state, are left out.

### Checkout

State: for each request `pc` (the statement of `createOrder` it is at), `locked`
(rows of `coupons` it holds `FOR UPDATE`), `picked`, `grant`; the rows it made:
`order`, `active` (its redemptions), `granted`; the customer app: `asked` (the
request it waits for) and `heard`. The connections of the pool are the requests
in a transaction. Counts read what is committed (READ COMMITTED). `LoadArea` is
the read through the outer pool when an area cache misses. `CapacityGate` is
one statement that counts the orders of the look-back, the riders online and what
they can carry: riders toggle and admins edit `max_active_orders` at any time, so it
may find any of `Crews`, and with no rider online it lets the request through.
`heldTo` and `unheld` are history variables of it. `old` are the orders whose
`created_at` is past the look-back (`GrowOld`); only those can be past the key's
window of 24 hours too, and then the pre-check may or may not find them
(`KeyUnseen`), while the unique index still does. `PickDeal` and
`PickCoupon` count without a lock; `LockDeal` and `LockCoupon` lock the row and
count again (`recheckUsageUnderLock`), and drop the offer or refuse. `TakeNumber`
waits for the day's counter row, `Insert` for a transaction that holds the same key,
and `Replay` answers with the order of the key. `Fail` is a statement that throws.
`CancelOrder` and `ReleaseUse` are the customer's cancel, two statements;
`CancelWithUses` is the admin's and the shops', one transaction; `Reopen` takes the
uses back without counting. Prices, items and the shops' checks appear as
`Refuse`.

### OrderLifecycle

One order. `status`, `payment`, `stamped` (`accepted_at`), `held` (`rider_id` is
the rider who acts), `pickedUp`, `quota` (the order's redemptions) are columns.
`timer` and `claimed` are the timer's maps. `old` says whether the order is older
than its window. `lost` is a history variable: a customer's cancel died before
it released the coupons. Each handler is a task with a `Read` that records what
later statements use and one action per statement after it. `Fire`, `FireRead`
and `FireAccept` are the timer's callback; `BootRead`, `BootAccept` and
`BootSchedule` are `rehydratePendingOrders`; `Restart` drops tasks and maps and
starts the boot pass, which runs while requests are served. `Watched` is what will
still take a Pending order out of Pending: a timer, the callback in progress, the
boot pass, or a request that has yet to arm or write.

Shop decisions and the rider engine move this order by transactions that
recheck under its row lock, so they are single steps here (`ShopConfirms`,
`ShopsCancel`, `RiderTakes`, `RiderLoses`). The releases of an order's coupon and
of its deal are one step. The admins' handlers acting for the rider run the same
statements as the rider's and are the same actions.

### ShopDecisions, ShopRound, OrderBilling

One order. `row` holds the `shop_*` columns of each shop's lines, stamped
together: confirmed, rejected, ready, billable, asked again, alerts filed, and the
age of the silence against the two thresholds of the sweeper. `item`, `snapshot`
and `bill` are the money. `Decide` is `changeShopDecision`: guards, stamps and
`saveOrderBilling` under the order's row lock. What follows it in the same call
is a chain of steps with reads of their own: `CancelReadsOrder`,
`CancelReadsLines`, `CancelAllRejected` (whose transaction counts again) and
`StartReadsOrder`, `StartReadsItems`, `StartAssignment`. `ScanSilent`/`Escalate`
and `ScanTimedOut`/`TimeoutReject` are the sweeper's scan and its act;
`NotifyStamps` is the late, unconditional stamp of `notifyShopsForOrder`. `Die`
loses the rest of a call. `Accept`, `End`, `Reopen` and `ReplaceItem` are what
others do to the order.

`OrderBilling` is `billingSnapshot` and `calculateOrderBilling` over integers:
the coupon's share is prorated over what is still billed and rounded as
`roundMoney` does. `ShopRound` says what shops are promised; `ShopDecisions`
implements it by mapping its stamps to yes, no and waiting.

### RiderDispatch, RiderHandoff

State: `status`, `rider`, `assignment`, `search` (the age of
`rider_search_started_at` against the window: unset, open, closed) and `offer`
(the unique row per order and rider; `"lapsed"` is a pending row whose
`expires_at` is past) are columns. `online` is `riders.is_online`, `recent` the
orders of the look-back, outside which an order takes no place of its rider's
(`OrderAges`; nothing reads the age of an order without a rider). `alerted` is
the admin inbox. `task` is what runs in memory: for the sweeper and for each
handler slot, which call it is in, at which statement (`pc`), and what it has
read (`excl`, `pool`).

`CreateOffer`, `RiderTaken` and `OrderConflict` are the three ways
`createOfferAttempt` ends, by the unique key that fires (`offerConflictReason`).
`CheckWindow`, `StampWindow` and `RecheckWindow` are
the read of the search window and, for an order without a stamp, its write and the
second read. `Abort` ends a call after any of its statements: a failed query, lock retries
used up, or the process going down. What the sweeper starts (`ExpireOffer`,
`RecoverStuck`) runs in the one task `Sweeper`, as the tick's loops await each
call; everything else runs in `Handlers`.

Simplifications: `Accepted` and `Preparing` are one status (the engine does not
tell them apart); all orders and riders are of one area; which eligible rider is
picked is any; the cancel that follows `acceptOffer`'s rollback is taken in the same
step; InnoDB deadlocks appear as a call that ends. Reminder pushes are left out.

### SweepGate

`live` are the rows the sweeper's check would find, `announcing` the writers that
have committed and not yet called `wake`, `unannounced` the rows written without
a wake. The check is split into its evaluation in the database (`Check`) and the
continuation that closes the gate (`Close`): the race the counter is for. It is
what lets the sweepers of the other modules be assumed to tick.

### AreaGates

One area, its riders and shops. `step`, `seen` and `aim` say at which statement
of `syncDeliveryAvailabilityFromRiders` (`CountRiders`, `ReadDelivery`,
`FlipDelivery`) or `syncAreaShopOpenState` (`ReadGate`, `ShutArea`, `TallyShops`,
`SetArea`) each call is, and what it has derived. `minute` is the clock; `tick`
the sweeper's running tick: its loop, its `hhmm`, the rows left and the shop it
has decided to close; `pending` is `pendingCloses`. `hours` are a shop's
`open_time` and `close_time`, or none, which owners and admins edit (`SetHours`)
without deriving anything. `SyncFails`, `TickFails` and `Restart` are faults. Three history variables say what the properties except:
`overlap` and `tainted` (gates set by hand or by calls that overlapped), and
`excused` (since its last `close_time`, a shop that a person opened or gave other
hours, or whose close was lost). `busy` stands for the orders the guards count. The
clock runs whether a tick has begun or not: a tick may be slow and the next be skipped
(`running`), the first comes half a minute after the start, and none while the
process is down. `swept` says whether this minute has had one, and `Missed` are the
shops whose close goes by unseen for that reason.

### Catalog

What is served is abstracted to the number of edits it contains. `cache` has the
two entries on the way, areas and settings; a GET is a request with the tag it
sent and its two reads, each of which is asked, queried and filled in steps of its own
(`ttlCache.wrap` does not share loads, and a fill may come after a delete).
`Edit`, `DropSettings`, `Bust`, `BumpVersion`, `DropAreas` are the statements of
`updateSettings`, the longest of the editing handlers; `Throws` is its death.
`SyncAreaInfo` and `LoadHomeData` are the phone's conditional GETs of the
bootstrap, `RefreshSilently` its plain GET of the settings; an answer is received,
received by an app that is killed between the saves of its two stores, or lost.
`slipped` is a history variable for the three cases the tag cannot see.

## 3. What the runs check

The longest runs take some two minutes. Bounds are constants of the modules,
marked `(bound)`. Eleven runs hold; one is a disagreement between a comment and
the code.

| Run | Question | Result |
|---|---|---|
| `checkout` | three requests for two attempts of one customer on two connections, riders on and off: `OneOrderPerKey`, `UsesBounded`, `OvershootBounded`, `CancelReturnsUses`, `NoLockCycle`, the refinement `ImplementsLedger` | holds |
| `order_safety` | two concurrent requests with throws, in the timer's callback too, and restarts: `StatusForward`, `ResponseClock`, `CancelledReleases`, `WatchKept` | holds |
| `order_live` | `LeavesPending` with restarts, snoozes and valid requests | holds |
| `shops` | two shops and a house line, two requests at a time, a resend or reopen and an item swap: `CancelOwed`, `StartOwed`, `BillExact`, `GrantRestored`, the refinement `ImplementsRound` | holds |
| `shops_live` | an owner and two sweepers race for a silent shop, one call may die: `OneEscalation`, `SweeperSparesAnswers`, `SilentShopAnswered`, `OrderProceeds` | holds |
| `dispatch_safety` | one order, two riders, the sweeper and a handler in every interleaving, all moves of the order: `HolderAccepted`, `NoSearchWithHolder`, `HolderKept`, the refinement `ImplementsHandoff` | holds |
| `dispatch_two` | two orders searching at once for the same two riders: `OneOpenOffer`, `CapOvershoot` | holds |
| `dispatch_live` | `SearchSettles`, `OfferResolves` with dying calls, cancel and reassign | holds |
| `gate` | `AsleepOnlyUntilWoken`, `LiveIsSwept` | holds |
| `area` | a rider, an owner and admins against the schedule sweeper, with schedule edits, minutes without a tick and a fault: `GatesAgree`, `LateShopsExplained`, `QueuedCloseComes` | holds |
| `catalog` | two handlers edit, a phone syncs and refreshes: `ConfirmedIsFresh`, `PhoneCatchesUp` | holds |
| `schedule` | a queued close never shuts a shop inside its hours, `ClosesOnlyAfterHours` | violated |

`GatesAgree` excepts gates that calls have spoilt by overlapping: it shows that one
undisturbed derivation repairs them, not that overlaps do no harm. A settings load that
straddles an edit is one of the cases `ConfirmedIsFresh` sets apart; `PhoneCatchesUp`
is the property that covers it.

`schedule` is a finding: `shopScheduleSweeper.js` says that reopening cancels a
close still queued from the day before, but its open query returns closed shops
only, and the shop whose close was blocked all night is open. The interleaving
and the quotation are in `PROJECT.json`.

Why the bounds are enough. The hazards relate a stale call to the one that
overtook it, so two of everything that can race show them.

- `checkout`: one attempt is sent twice, the second time without its offers, and
  an attempt from another device competes for the same deal (one use in all) and
  coupon (one use per customer). The gate may find no rider, one who takes one order,
  or two who take two: orders fill the capacity, the capacity shrinks below them, and
  the first order may age out of the count. Two connections make every pair of
  transactions overlap and let the pool be exhausted.
- `order_safety`: two requests besides the timer, the boot pass, the shops and
  the rider; with `Preparing` as the only forward target of an admin, the rider's
  moves are the ones that reach Out for Delivery and Delivered. `Fallible` holds the
  requests and the timer, so that `WatchKept` meets every way an order is forgotten.
- `shops`: with two shops each can be the last to answer; two requests are the
  two last answers, or an answer and the follow-up of the one before. The prices
  make the coupon's share uneven, so that rounding matters. The sweepers are in
  `shops_live`, on one shop, where two of them and an owner can find the same silence.
- `dispatch_*`: two calls on one order that can reach for the same rider or for
  different ones; two dispatches and two orders; with `RiderCap` 1 and
  `OFFER_RIDER_ATTEMPTS` 2 the cap and the end of the walk are both reached, and the
  cap is passed; an order that ages makes its rider eligible again.
- `area`: one rider and one shop in a day of three minutes, whose hours run past
  midnight or are taken off (the `schedule` run's are within the day); a request
  and the sweeper can overlap in every pair of statements. Two requests overlapping
  each other set the same history variable.
- `catalog`: two handlers, one conditional and one plain GET, two edits: a fill
  can straddle one edit while the other is half-way.

Symmetry is used only in runs without liveness properties. The theorems lift the
safety properties to all values of the constants; the types of `OrderLifecycle` and
`SweepGate`, proved, are not checked again by a run.

Deadlock is checked where the system can never come to rest (riders toggling,
restarts, the schedule's clock, cache entries) and switched off in the runs whose
instance may end: an order is delivered, a customer is told.

Each property of a passing run has a mutant: a plausible slip in a mapped
definition (`FailMarkBlind` drops the condition of an UPDATE, `RestartNoBoot`
forgets the boot pass, `LockUnchecked` locks a coupon without counting again,
`DropSettingsOnly` forgets the version) that TLC must catch. They stand just
before the definitions they loosen and nothing uses them.

### Fairness

`RiderDispatch!Fairness`: the event loop runs every continuation (weak fairness
of each task's next statement); clocks run; a tick takes up an order that stays
stuck and an offer that stays overdue, however often the single sweeper is busy
with others in between (its loops go over all candidates, 50 at a time, oldest
first). `EventuallyQuiet`: calls do not die for ever and an admin does not
reassign for ever. Without the first no recovery can succeed; the second is a
human's choice. Nothing is assumed about riders: they need not answer.

`OrderLifecycle!Fairness`: continuations, due callbacks and clocks run; the
process stays up at last and admins do not snooze for ever. In `order_live`
statements do not throw: the code has no retry of a failed callback, which is
recorded as a hazard.

`ShopDecisions!Fairness`: time passes, each sweeper's passes visit every
candidate, and the statements of a call are awaited to their end. Owners need not
answer. Calls that die are bounded by `MaxDeaths`, and `OrderProceeds` says what a
death excuses.

`SweepGate!Fairness` is strong for the tick and its check: it may fail or be cut
short by a restart, but, tried again and again, it answers at last.

`AreaGates!LiveSpec` asks only that the sweeper's tick goes on and that the
derivation it is in continues: not that a tick comes in any given minute. Failed ticks and restarts are
bounded by `MaxFaults`, and `QueuedCloseComes` excuses a shop whose queued close a
fault lost, or that a person opened or gave other hours.

`Catalog!Fairness`: statements and answers come or are lost, and entries expire.
That some plain refresh is answered again and again is the antecedent of
`PhoneCatchesUp`, not an assumption: a phone that is off learns nothing.

## 4. What is proved

All theorems hold for every value of the constants, from the named assumptions
of the modules only (finite sets of requests, orders and riders with the null
values outside them, limits and bounds that are natural numbers, schedules whose opening
and closing minutes differ).

*Checkout.* `IInv` is the types and four parts. `LockInv`: rows are locked from
the deal's lock to the end of the transaction, no row by two requests, a coupon's
only after the deal's, and one request at a time stands between its number and
its commit; from it `LocksAreOrdered`, since whoever waits is outranked by someone
who does not. `KeyInv`: a request about to commit found its key free and still
finds it so, which gives `OneOrder`. `UseInv`: what a request has counted under a
lock is still left when it commits, because others who would use it wait for the
row; which gives `LimitsHold` and, with the customer's cancel, `UsesComeBack`.
`GateInv` counts the requests past the gate against the connections: a request
that passes with a rider online found fewer orders than the capacity it was held to,
and beside it there are fewer requests than connections (`OvershootStaysBounded`). The capacity is whatever the
statement found, so riders and caps may change in any way; what the gate does not hold
back, a request let through with no rider online and a reopened order, is counted
beside the bound until it next holds a request. `CheckoutKeepsLedger` is the refinement: the commit is `Place`, and
every other step releases, tells or stutters. From the same invariant,
`ToldOfOrders` (the app is told only of orders that exist) and `UsesNeverReturn` (an
order takes its uses when it is made, and after that only a reopen gives it any).

*OrderLifecycle.* `IInv` adds to the types and the two invariants what every
task has decided (`Decided`): an admin's forward request and a rider's move have
a target above the status they read, a cancel has read a live order. That is what
a compare-and-set on the value read needs to give `StatusForward`.
`CouponsReturned` follows the debt of a cancelled order: a release pending in
some handler, or lost with it. `PendingStaysWatched` is the safety core of
`LeavesPending`: only a reopen, a refused admin request that has cancelled the timer,
or a throw takes a Pending order's last watcher away. It needs `ClaimHeld`, that a claim
always stands for a timer or its callback: otherwise `schedule`, which skips a
claimed order, would arm nothing.

*ShopDecisions.* `CancelOwed` and `StartOwed` are about calls that have not made
their reads yet, so `IInv` is nearly the conjunction of the properties
themselves, with `PendingUnasked` and `ShopKnown`. Every step either leaves the
shops' answers alone or gives one of them under the lock; in the second case the call
that gave it goes on to the follow-up that is owed (`OwedKept`, `OwingKept`). A
follow-up may only stop where its reads show that nothing is owed. `BillKept` and
`BillSaved` give `BillStaysExact`, and `DecisionsFollowRound` the refinement. `ShopsCancelTogether`
is proved of the round and carried over by it: an order that the shops have cancelled is
one that all of them have rejected.
`SilenceOnlyRejected`: what the sweeper has scanned it rejects only while the shop
is still silent, since the row lock repeats the scan's conditions.
`PromotionComesBack` is about money and rests on `BillOf` below: `MoneyInv` says
that the snapshot always holds the whole grant on the present lines, whatever was
rejected and swapped, so with `BillExact` an order whose lines are all billed again
carries its promotion in full, as far as the lines bear it.

*OrderBilling.* `BillOf` is about the bill as a function of the lines and a snapshot
of what was granted on all of them: all amounts are natural numbers, it bills no
more of the waiver and of the coupon than was granted, however the share is
rounded, and all of it that the lines bear when all are billed. It rests on lemmas about sums
over finite sets (taking a line away, splitting, monotony). The library's induction
theorems take an operator and cannot be used here; a fact about every finite set is
proved on a least counterexample (`LeastSubset`).

*RiderDispatch.* `TypeCorrect` alone, then the invariant `IInv` = types,
`OneOpenOffer`, `HolderAccepted`, `NoSearchWithHolder`. They are proved together:
an accept keeps `HolderAccepted` only because no second offer is open, and an
insert keeps it only because the row lock shows no holder. `StepEffects` sorts
the actions by what they do to the columns, so that the invariant is
proved once per kind of effect and not once per action. `HolderIsKept` is the action
property, from the invariant. `EngineImplementsHandoff` maps every step to a step
of `RiderHandoff` or a stutter; `OneOpenOffer` makes the mapped `asking` well
defined. `CapOvershootBounded` bounds what the unguarded count can do: the live
orders of the look-back, open offers and the calls that have just found the rider below the cap are
together at most the cap and one less than the number of tasks. A
step leaves the three sets, or adds a call below the cap (`Listed`), turns such a call into an
offer (`Offered`), or an offer into an order (`Accepted`); nothing else makes them grow.
Riders an admin reassigns to are left out: `reassignRider` does not look at the cap.

*SweepGate.* `CheckpointOK` says that a tick about to close has a checkpoint
not above the counter, and that if they are equal, everything committed since the
check belongs to a writer that will still wake the gate.

*AreaGates.* `GateInv` says what a derivation that runs alone has established at
each of its statements (`Derives`), and that outside an overlap there is one at
most (`Sole`); so its last write is right. `TickInv` says that the shops a tick has yet to open
are on time however far the clock has run past its `hhmm`: in their hours, at a close
minute still unswept, or excused; opened, they are not late without an explanation.
`ClosesAreKept` follows case by case, the clock's step by `HoursPass`: a shop can leave
its hours only at its `close_time`, and past that minute a tick has begun in it or
`Missed` excuses the shop.

*Catalog.* `OldBodies`: outside the three cases, an old body is in the cache or
under way only while a handler has still to bust, and on the phone only while one
has still to count or the phone's version is older (`VersionsSeen`).
`ConditionalGetIsFresh` is its last line.

Only model-checked: liveness (`LeavesPending`, `SilentShopAnswered`,
`OrderProceeds`, `SearchSettles`, `OfferResolves`, `LiveIsSwept`,
`QueuedCloseComes`, `PhoneCatchesUp`), which is out of the prover's reach. Every
other property of a passing run is a theorem.

## 5. Observations

What the models made visible, beyond the finding. Each is in the modules as the
code has it, and no property claims otherwise.

Checkout and coupons:
- `orderController.js:257` resolves the area while the transaction's connection
  is held, through caches that read from the outer pool on a miss. When as many
  checkouts as there are connections miss together, each waits for one more
  connection for ever: the deadlock lines 276-281 avoid for the capacity
  counters. `NoLockCycle` is stated outside that state (`PoolStarved`).
- The capacity gate (`orderController.js:326`) is passed by every checkout that
  overlaps the last order that fits; `OvershootBounded` says by how many at most. It is
  not asked when no rider is online, which relies on `delivery_available` being off by
  then, and it forgets orders older than the look-back, so neither riders coming back
  nor orders growing old keep the area within its capacity.
- The same key after the cart was changed replays the old order; the key lives in
  a component's ref, so a remount starts a new attempt; the 24-hour window of the
  pre-check ends before the unique index does, and `Replay` answers then.
- `first_order_only` and `first_n_orders` (`coupons.js:386-399`) are not counted
  again under the lock.
- The customer's cancel releases its coupons by later, unconditional statements
  (`orderController.js:1117`); a reopen takes uses back without counting
  (`adminController.js:1766`). `UsesBounded` leaves reopened orders out.
- Two requests of one customer in two areas can wait for each other on the
  customer's own row (`orderController.js:803`); InnoDB ends one of them.

Orders and shops:
- A request that is refused has already disarmed the auto-accept timer
  (`adminController.js:1674`); the order then waits for a person or a restart.
  `WatchKept` names this, the reopen and a throw as the only ways there.
- Delivery sets the payment from the status the request read at its start; a
  manual status set in between is lost (`adminController.js:1812`).
- A duplicate resend may be refused and not replayed; `readyShopOrder` may stamp
  ready after a racing resend; the late stamp of `notifyShopsForOrder` is
  unconditional.
- The inbox is filled by `INSERT IGNORE`: after a resend a second timeout of the same
  shop, or a second shop's refusal on the order, files no further row while the
  first stands (`shopOrderActions.js:267`, `shopAlertSweeper.js:215`).
- A resend may leave a shop undecided beside a search that has begun.

Riders:
- The cap is counted in a query of its own before the transaction that inserts
  the offer (`riders.js:179`): a rider at the cap can be offered one more.
  `CapOvershoot` says how many at most: one for each other call in progress.
- A late `markSearching` can restart a search that another call has failed
  (`riderAssignment.js:53`); a failed search whose call dies before
  `createAdminNotification` alerts nobody (`riderAssignment.js:480`).

Area and catalogue:
- The schedule's guard counts orders and then closes: an order accepted in
  between reaches a closed shop. The owner's toggle has the same window.
- A rider's toggle that leaves `delivery_available` as it is does not derive
  `shop_open` again, so it repairs nothing there; after an overlap
  `shop_open = 1` with `delivery_available = 0` may stand until the next change.
- A scheduled close is decided in its minute or not at all. `pendingCloses` is in
  memory, the first tick is half a minute after the start and one is skipped while
  another runs: a restart, a tick that fails after taking a shop off the queue, or a slow
  tick across the close minute (`shopScheduleSweeper.js:126-133`) leaves the shop open
  until the next day's close. So does a schedule edit that moves `close_time` to
  a minute that has passed.
- A 304 marks the settings fresh (`useDeliveryLocationSync.js:92-96`). After a
  load that straddled an edit, a handler that died before the bust, or an app
  killed between the saves of its two stores, it confirms old settings until a
  plain refresh is answered.
- `catalog.updated` is not sent when another push to customers went out less than two
  seconds before (`areaScope.js:340`), though the refetch that push caused may have
  run before the edit.

## 6. What is not modelled

- Prices, item checks, the choice of the best coupon and the radius tiers of the
  rider selection: arithmetic over rows, with nothing to race.
- Shop reminders and rider reminders: a counter and a push.
- The capacity broadcast, `catalog.updated` and its debounce, presence and all
  other emits: hints to phones that poll or refetch.
- Store modes, CRUD of products, areas, zones and offers, reports, carts:
  single statements over rows that nothing else here reads.
- Sessions, tokens and one-time passwords; migrations; the admin app, the landing
  page and the screens of the customer app: presentation, or outside the order flow.

## 7. Plan

1. `OrderFlow`: `ShopDecisions` and `RiderDispatch` composed over one order, for
   the start of the search against cancel, reopen and `rider_picked_up_at`.
2. More proofs by way of the contracts, as `ShopsCancelTogether` is: what
   `RiderHandoff` promises over several steps, carried to the engine by the refinement.
3. `RiderSelection` as an operator against a reference definition, and its place
   in `CreateOffer`.
4. The push side of the catalogue: `scheduleCatalogUpdatedEmit`, the phones'
   jittered refetch, presence over several sockets.
5. The customer's cart store and the realtime client's reconnection.
6. Safety cores of the other liveness properties, as `PendingStaysWatched` is of
   `LeavesPending`: who will still settle a search, an offer, a late close.
