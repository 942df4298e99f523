----------------------------- MODULE AreaGates -----------------------------
(***************************************************************************)
(* One area's two gates and what moves them.  Riders coming online or      *)
(* going offline move settings.delivery_available; delivery_available and  *)
(* the shops' own is_open move settings.shop_open.  Each derivation reads, *)
(* then writes, with other calls in between.  The shops are opened and     *)
(* closed by their owners, by admins and by the schedule sweeper.          *)
(*                                                                         *)
(* A rider is in online when riders.active and riders.is_online are both   *)
(* set; a shop is busy while it has unrejected lines on an order that is   *)
(* Accepted or Preparing.  What the phones are told is left out.           *)
(***************************************************************************)
EXTENDS Integers

CONSTANTS
  Riders, Shops,      \* of the area
  Calls,              \* requests running at a time (bound)
  Sweeper,            \* the schedule sweeper of the process
  NoShop,
  Day,                \* the last minute of a day, which starts at 0 (bound)
  Schedules,          \* the opening hours a shop may be given (bound)
  MaxFaults           \* statements that fail and restarts (bound)

Procs == Calls \cup {Sweeper}
Minutes == 0 .. Day

\* open_time and close_time, or no schedule: NULL, which no hhmm is equal to.
Unscheduled == [open |-> Day + 1, close |-> Day + 1]
Hours == {h \in [open : Minutes, close : Minutes] : h.open # h.close} \cup {Unscheduled}

ASSUME ProcsAssumption == Sweeper \notin Calls /\ NoShop \notin Shops
ASSUME ScheduleAssumption ==
  /\ Day \in Nat
  /\ Schedules \subseteq Hours
ASSUME FaultsAssumption == MaxFaults \in Nat

VARIABLES
  online,      \* riders that count
  active,      \* shops.active
  isOpen,      \* shops.is_open
  hours,       \* shops.open_time and close_time
  busy,        \* shops with an order in hand
  delivery,    \* settings.delivery_available
  shopOpen,    \* settings.shop_open
  step,        \* the statement each process runs next
  seen,        \* the value it has derived
  aim,         \* what kind of call it serves, and the shop an owner is closing
  minute,      \* the clock in the schedule's timezone
  swept,       \* a tick has begun in this minute
  tick,        \* the running tick: its loop, its hhmm, the rows left, the shop to close
  pending,     \* pendingCloses
  faults,      \* counter of the bound
  overlap,     \* history: a call under way has run beside another
  tainted,     \* history: gates set by hand, or by calls that overlapped
  excused      \* history: since their last close_time, shops a person opened or
               \* gave other hours, and shops whose close was lost

shops   == <<active, isOpen, hours, busy>>
gates   == <<delivery, shopOpen>>
clock   == <<minute, swept>>
history == <<overlap, tainted>>
vars == <<online, shops, gates, step, seen, aim, clock, tick, pending, faults,
          history, excused>>

\* "count", "current", "flip": syncDeliveryAvailabilityFromRiders; "gate",
\* "shut", "tally", "set": syncAreaShopOpenState; "toggle": an owner's close
\* past its guard; "banner": an admin's shop_open past its guard.
SyncSteps == {"count", "current", "flip", "gate", "shut", "tally", "set"}
Steps == SyncSteps \cup {"idle", "toggle", "banner"}
Kinds == {"none", "rider", "shop", "banner"}
Gates == {"delivery", "shop"}

NoAim == [kind |-> "none", shop |-> NoShop]
NoTick == [loop |-> "none", at |-> 0, queue |-> {}, closing |-> NoShop]

TypeOK ==
  /\ online \subseteq Riders
  /\ active \subseteq Shops /\ isOpen \subseteq Shops /\ busy \subseteq Shops
  /\ hours \in [Shops -> Schedules]
  /\ delivery \in BOOLEAN /\ shopOpen \in BOOLEAN
  /\ step \in [Procs -> Steps]
  /\ step[Sweeper] \in {"idle", "gate", "shut", "tally", "set"}
  /\ seen \in [Procs -> BOOLEAN]
  /\ aim \in [Procs -> [kind : Kinds, shop : Shops \cup {NoShop}]]
  /\ minute \in Minutes /\ swept \in BOOLEAN
  /\ tick \in [loop : {"none", "opens", "closes"}, at : Minutes,
               queue : SUBSET Shops, closing : Shops \cup {NoShop}]
  /\ pending \subseteq Shops
  /\ faults \in 0 .. MaxFaults
  /\ overlap \in BOOLEAN /\ tainted \subseteq Gates /\ excused \subseteq Shops

Init ==
  /\ online = {} /\ active = Shops /\ isOpen = {} /\ busy = {}
  /\ hours \in [Shops -> Schedules]
  /\ delivery = FALSE /\ shopOpen = FALSE
  /\ step = [p \in Procs |-> "idle"]
  /\ seen = [p \in Procs |-> FALSE]
  /\ aim = [p \in Procs |-> NoAim]
  /\ minute = 0 /\ swept = FALSE /\ tick = NoTick
  /\ pending = {} /\ faults = 0
  /\ overlap = FALSE /\ tainted = {} /\ excused = {}

----------------------------------------------------------------------------
(* The history of the gates.  A call counts from the write that makes a    *)
(* gate out of date to the end of its derivation.                          *)

Syncing(p) == step[p] \in SyncSteps
OthersSyncing(p) == \E q \in Procs \ {p} : Syncing(q)

\* p makes the gates out of date; byHand are the gates it sets itself.
Disturb(p, byHand) ==
  /\ overlap' = OthersSyncing(p)
  /\ tainted' = IF OthersSyncing(p) THEN Gates ELSE tainted \cup byHand

\* What a call of this kind derives, when nothing came between.
Derived(kind) == CASE kind = "rider" -> {"delivery"}
                   [] kind = "shop" -> {"shop"}
                   [] OTHER -> {}

Stop(p) ==
  /\ step' = [step EXCEPT ![p] = "idle"]
  /\ seen' = [seen EXCEPT ![p] = FALSE]
  /\ aim' = [aim EXCEPT ![p] = NoAim]

Finish(p) ==
  /\ Stop(p)
  /\ tainted' = IF overlap THEN tainted ELSE tainted \ Derived(aim[p].kind)
  /\ overlap' = (overlap /\ OthersSyncing(p))

Continue(p, next, value) ==
  /\ step' = [step EXCEPT ![p] = next]
  /\ seen' = [seen EXCEPT ![p] = value]
  /\ UNCHANGED <<aim, history>>

----------------------------------------------------------------------------
(* syncDeliveryAvailabilityFromRiders.                                     *)

CountRiders(p) ==
  /\ step[p] = "count"
  /\ Continue(p, "current", online # {})
  /\ UNCHANGED <<online, shops, gates, clock, tick, pending, faults, excused>>

ReadDelivery(p) ==
  /\ step[p] = "current"
  /\ IF delivery = seen[p] THEN Finish(p) ELSE Continue(p, "flip", seen[p])
  /\ UNCHANGED <<online, shops, gates, clock, tick, pending, faults, excused>>

FlipOnly(p) ==
  /\ step[p] = "flip"
  /\ delivery' = seen[p]
  /\ Finish(p)
  /\ UNCHANGED <<online, shops, shopOpen, clock, tick, pending, faults, excused>>

FlipDelivery(p) ==
  /\ step[p] = "flip"
  /\ delivery' = seen[p]
  /\ IF delivery = seen[p] THEN Finish(p) ELSE Continue(p, "gate", FALSE)
  /\ UNCHANGED <<online, shops, shopOpen, clock, tick, pending, faults, excused>>

(* syncAreaShopOpenState.                                                  *)

ReadGate(p) ==
  /\ step[p] = "gate"
  /\ Continue(p, IF delivery THEN "tally" ELSE "shut", FALSE)
  /\ UNCHANGED <<online, shops, gates, clock, tick, pending, faults, excused>>

ShutArea(p) ==
  /\ step[p] = "shut"
  /\ shopOpen' = FALSE
  /\ Finish(p)
  /\ UNCHANGED <<online, shops, delivery, clock, tick, pending, faults, excused>>

TallyShops(p) ==
  /\ step[p] = "tally"
  /\ IF active = {} THEN Finish(p) ELSE Continue(p, "set", active \cap isOpen # {})
  /\ UNCHANGED <<online, shops, gates, clock, tick, pending, faults, excused>>

SetArea(p) ==
  /\ step[p] = "set"
  /\ shopOpen' = seen[p]
  /\ Finish(p)
  /\ UNCHANGED <<online, shops, delivery, clock, tick, pending, faults, excused>>

Sync(p) == \/ CountRiders(p) \/ ReadDelivery(p) \/ FlipDelivery(p)
           \/ ReadGate(p) \/ ShutArea(p) \/ TallyShops(p) \/ SetArea(p)

----------------------------------------------------------------------------
(* Requests.                                                               *)

\* A call that may move "shop" alone is of that kind, whoever makes it.
Begin(p, kind, s, first) ==
  /\ step' = [step EXCEPT ![p] = first]
  /\ aim' = [aim EXCEPT ![p] = [kind |-> kind, shop |-> s]]

\* setOnline, the admin's edits of a rider, failAssignment: the rider's row if
\* it changes, then the sync.
SetOnline(c, r, on) ==
  /\ step[c] = "idle"
  /\ online' = IF on THEN online \cup {r} ELSE online \ {r}
  /\ Begin(c, "rider", NoShop, "count")
  /\ Disturb(c, {})
  /\ UNCHANGED <<shops, gates, seen, clock, tick, pending, faults, excused>>

\* toggleMyShop: opening has no guard, closing counts the orders first.
OwnerOpens(c, s) ==
  /\ step[c] = "idle"
  /\ isOpen' = isOpen \cup {s}
  /\ excused' = excused \cup {s}
  /\ Begin(c, "shop", NoShop, "gate")
  /\ Disturb(c, {})
  /\ UNCHANGED <<online, active, hours, busy, gates, seen, clock, tick, pending, faults>>

OwnerAsksToClose(c, s) ==
  /\ step[c] = "idle"
  /\ s \notin busy
  /\ Begin(c, "shop", s, "toggle")
  /\ UNCHANGED <<online, shops, gates, seen, clock, tick, pending, faults, history, excused>>

OwnerCloses(c) ==
  /\ step[c] = "toggle"
  /\ isOpen' = isOpen \ {aim[c].shop}
  /\ Begin(c, "shop", NoShop, "gate")
  /\ Disturb(c, {})
  /\ UNCHANGED <<online, active, hours, busy, gates, seen, clock, tick, pending, faults, excused>>

\* updateShop: is_open and active together, without a guard.
AdminSetsShop(c, s, on, open) ==
  /\ step[c] = "idle"
  /\ active' = IF on THEN active \cup {s} ELSE active \ {s}
  /\ isOpen' = IF open THEN isOpen \cup {s} ELSE isOpen \ {s}
  /\ excused' = excused \cup {s}
  /\ Begin(c, "shop", NoShop, "gate")
  /\ Disturb(c, {})
  /\ UNCHANGED <<online, hours, busy, gates, seen, clock, tick, pending, faults>>

\* updateMyShopSchedule, updateShopSchedule: one UPDATE, and nothing is derived.
SetHours(s, h) ==
  /\ hours' = [hours EXCEPT ![s] = h]
  /\ excused' = excused \cup {s}
  /\ UNCHANGED <<online, active, isOpen, busy, gates, step, seen, aim, clock, tick, pending,
                 faults, history>>

\* updateSettings with delivery_available, alone or with shop_open, which is
\* coerced shut when delivery goes off.
AdminSetsDelivery(c, on, open) ==
  /\ step[c] = "idle"
  /\ delivery' = on
  /\ shopOpen' \in {shopOpen, on /\ open}
  /\ Begin(c, "shop", NoShop, "gate")
  /\ Disturb(c, Gates)
  /\ UNCHANGED <<online, shops, seen, clock, tick, pending, faults, excused>>

\* updateSettings with shop_open alone: opening is refused while delivery is off.
AdminAsksBanner(c, open) ==
  /\ step[c] = "idle"
  /\ open => delivery
  /\ seen' = [seen EXCEPT ![c] = open]
  /\ Begin(c, "banner", NoShop, "banner")
  /\ UNCHANGED <<online, shops, gates, clock, tick, pending, faults, history, excused>>

AdminSetsBanner(c) ==
  /\ step[c] = "banner"
  /\ shopOpen' = seen[c]
  /\ Stop(c)
  /\ tainted' = tainted \cup {"shop"}
  /\ UNCHANGED <<online, shops, delivery, clock, tick, pending, faults, overlap, excused>>

----------------------------------------------------------------------------
(* shopScheduleSweeper.                                                    *)

Resting == step[Sweeper] = "idle" /\ tick.closing = NoShop

TickBegins ==
  /\ tick.loop = "none"
  /\ swept' = TRUE
  /\ tick' = [NoTick EXCEPT !.loop = "opens", !.at = minute,
                !.queue = {s \in active \ isOpen : hours[s].open = minute}]
  /\ UNCHANGED <<online, shops, gates, step, seen, aim, minute, pending, faults, history, excused>>

ScheduledOpen(s) ==
  /\ tick.loop = "opens" /\ Resting /\ s \in tick.queue
  /\ tick' = [tick EXCEPT !.queue = @ \ {s}]
  /\ pending' = pending \ {s}
  /\ isOpen' = isOpen \cup {s}
  /\ Begin(Sweeper, "shop", NoShop, "gate")
  /\ Disturb(Sweeper, {})
  /\ UNCHANGED <<online, active, hours, busy, gates, seen, clock, faults, excused>>

ScanDueOnly ==
  /\ tick.loop = "opens" /\ Resting /\ tick.queue = {}
  /\ tick' = [tick EXCEPT !.loop = "closes",
                          !.queue = {s \in active \cap isOpen : hours[s].close = tick.at}]
  /\ UNCHANGED <<online, shops, gates, step, seen, aim, clock, pending, faults, history, excused>>

\* The rows due to close, and the queued closes the query no longer returns.
ScanCloses ==
  LET due == {s \in active \cap isOpen : /\ hours[s] # Unscheduled
                                         /\ hours[s].close = tick.at \/ s \in pending}
  IN /\ tick.loop = "opens" /\ Resting /\ tick.queue = {}
     /\ tick' = [tick EXCEPT !.loop = "closes", !.queue = due]
     /\ pending' = pending \cap due
     /\ UNCHANGED <<online, shops, gates, step, seen, aim, clock, faults, history, excused>>

GuardForgets(s) ==
  /\ tick.loop = "closes" /\ Resting /\ s \in tick.queue
  /\ pending' = pending \ {s}
  /\ tick' = [tick EXCEPT !.queue = @ \ {s},
                          !.closing = IF s \in busy THEN NoShop ELSE s]
  /\ UNCHANGED <<online, shops, gates, step, seen, aim, clock, faults, history, excused>>

GuardClose(s) ==
  /\ tick.loop = "closes" /\ Resting /\ s \in tick.queue
  /\ pending' = IF s \in busy THEN pending \cup {s} ELSE pending \ {s}
  /\ tick' = [tick EXCEPT !.queue = @ \ {s},
                          !.closing = IF s \in busy THEN NoShop ELSE s]
  /\ UNCHANGED <<online, shops, gates, step, seen, aim, clock, faults, history, excused>>

ScheduledClose ==
  /\ tick.closing # NoShop /\ step[Sweeper] = "idle"
  /\ isOpen' = isOpen \ {tick.closing}
  /\ tick' = [tick EXCEPT !.closing = NoShop]
  /\ Begin(Sweeper, "shop", NoShop, "gate")
  /\ Disturb(Sweeper, {})
  /\ UNCHANGED <<online, active, hours, busy, gates, seen, clock, pending, faults, excused>>

TickEnds ==
  /\ tick.loop = "closes" /\ Resting /\ tick.queue = {}
  /\ tick' = NoTick
  /\ UNCHANGED <<online, shops, gates, step, seen, aim, clock, pending, faults, history, excused>>

Tick == \/ TickBegins \/ ScanCloses \/ ScheduledClose \/ TickEnds
        \/ \E s \in Shops : ScheduledOpen(s) \/ GuardClose(s)

----------------------------------------------------------------------------
(* Faults.  A derivation swallows its error and its call goes on; an error *)
(* in the tick's own statements, the SELECT before its derivation included, *)
(* abandons the tick; a restart forgets every call and pendingCloses.      *)

\* The running tick has yet to decide about s.
Undecided(s) ==
  \/ tick.loop = "opens" /\ tick.at = hours[s].close
  \/ s \in tick.queue
  \/ s = tick.closing

SyncFails(p) ==
  /\ faults < MaxFaults /\ Syncing(p)
  /\ faults' = faults + 1
  /\ Stop(p)
  /\ tainted' = Gates
  /\ overlap' = (overlap /\ OthersSyncing(p))
  /\ UNCHANGED <<online, shops, gates, clock, tick, pending, excused>>

TickFails ==
  /\ faults < MaxFaults /\ tick.loop # "none" /\ step[Sweeper] \in {"idle", "gate"}
  /\ faults' = faults + 1
  /\ tick' = NoTick
  /\ Stop(Sweeper)
  /\ tainted' = IF Syncing(Sweeper) THEN Gates ELSE tainted
  /\ overlap' = (overlap /\ OthersSyncing(Sweeper))
  /\ excused' = excused \cup {s \in Shops : Undecided(s)}
  /\ UNCHANGED <<online, shops, gates, clock, pending>>

Restart ==
  /\ faults < MaxFaults
  /\ faults' = faults + 1
  /\ step' = [p \in Procs |-> "idle"]
  /\ seen' = [p \in Procs |-> FALSE]
  /\ aim' = [p \in Procs |-> NoAim]
  /\ tick' = NoTick
  /\ pending' = {}
  /\ overlap' = FALSE
  /\ tainted' = IF \E p \in Procs : Syncing(p) THEN Gates ELSE tainted
  /\ excused' = excused \cup pending \cup {s \in Shops : Undecided(s)}
  /\ UNCHANGED <<online, shops, gates, clock>>

(* The surroundings: orders come and go, and the clock runs on.  A tick is  *)
(* due twice a minute, but the first is half a minute after the start, one  *)
(* is skipped while another runs, and none comes while the process is down: *)
(* a minute may pass without one.                                           *)

OrderAccepted(s) ==
  /\ busy' = busy \cup {s}
  /\ UNCHANGED <<online, active, isOpen, hours, gates, step, seen, aim, clock, tick, pending,
                 faults, history, excused>>

OrderDone(s) ==
  /\ busy' = busy \ {s}
  /\ UNCHANGED <<online, active, isOpen, hours, gates, step, seen, aim, clock, tick, pending,
                 faults, history, excused>>

\* The shops whose close_time goes by in a minute without a tick, and which
\* no tick has in hand.
Missed == {s \in Shops : /\ ~swept /\ hours[s].close = minute
                         /\ s \notin pending \ tick.queue}

ClockStrikes(m) ==
  /\ minute' = m
  /\ swept' = FALSE
  /\ excused' = (excused \cup Missed) \ {s \in Shops : hours[s].close = m}
  /\ UNCHANGED <<online, shops, gates, step, seen, aim, tick, pending, faults, history>>

MinuteNeverWraps == ClockStrikes(minute + 1)
MinutePasses == ClockStrikes(IF minute = Day THEN 0 ELSE minute + 1)

Request(c) ==
  \/ \E r \in Riders, on \in BOOLEAN : SetOnline(c, r, on)
  \/ \E s \in Shops : OwnerOpens(c, s) \/ OwnerAsksToClose(c, s)
  \/ \E s \in Shops, on, open \in BOOLEAN : AdminSetsShop(c, s, on, open)
  \/ \E on, open \in BOOLEAN : AdminSetsDelivery(c, on, open)
  \/ \E open \in BOOLEAN : AdminAsksBanner(c, open)

Next ==
  \/ \E c \in Calls : Request(c) \/ OwnerCloses(c) \/ AdminSetsBanner(c)
  \/ \E p \in Procs : Sync(p) \/ SyncFails(p)
  \/ Tick \/ TickFails \/ Restart \/ MinutePasses
  \/ \E s \in Shops : OrderAccepted(s) \/ OrderDone(s) \/ \E h \in Schedules : SetHours(s, h)

Spec == Init /\ [][Next]_vars
LiveSpec == Spec /\ WF_vars(Tick) /\ WF_vars(Sync(Sweeper))

----------------------------------------------------------------------------
(* Properties.                                                             *)

DeliveryRight == delivery <=> online # {}
ShopGateRight ==
  /\ ~delivery => ~shopOpen
  /\ delivery /\ active # {} => (shopOpen <=> active \cap isOpen # {})

\* At rest a gate agrees with what it is derived from, unless calls
\* overlapped, a derivation failed, or an admin set the gate by hand, since
\* the last call that derived it undisturbed: one undisturbed toggle repairs
\* whatever an earlier race left behind.
GatesAgree ==
  (\A p \in Procs : ~Syncing(p)) =>
    /\ "delivery" \notin tainted => DeliveryRight
    /\ "shop" \notin tainted => ShopGateRight

\* A shop is in its hours from open_time up to close_time, past midnight if
\* close_time is the smaller; without a schedule it always is.
InHours(s, m) ==
  IF hours[s].open < hours[s].close THEN hours[s].open <= m /\ m < hours[s].close
  ELSE hours[s].open <= m \/ m < hours[s].close

\* No other scheduled close is lost: a working shop found open outside its
\* hours is one a person opened or gave other hours since its close_time, one
\* whose close_time passed without a tick or whose tick a fault ended, one whose
\* close is queued, or one the running tick is about to decide on, or its close
\* minute's first tick is yet to come.
LateShopsExplained ==
  \A s \in active \cap isOpen :
    ~InHours(s, minute) =>
      \/ s \in pending \cup excused
      \/ Undecided(s)
      \/ minute = hours[s].close /\ ~swept

\* A close queued because of an order is carried out once the orders stop
\* coming, unless the shop closes or is deactivated, or a person opens it or
\* changes its hours.
QueuedCloseComes ==
  \A s \in Shops :
    <>[](s \notin busy) =>
      ((s \in pending) ~> (s \notin active \cap isOpen \/ s \in excused))

\* The sweeper closes a shop only outside its hours: a close still queued
\* from the day that ended must not shut the shop after it opened again.
ClosesOnlyAfterHours ==
  [][\A s \in isOpen \ isOpen' : tick.closing = s /\ tick'.closing # s
       => ~InHours(s, tick.at)]_vars
============================================================================
