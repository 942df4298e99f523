-------------------------- MODULE AreaGates_proofs ---------------------------
(***************************************************************************)
(* Theorems about AreaGates for any riders, shops, hours, length of the    *)
(* day, number of concurrent requests and number of faults.  The gates and *)
(* the schedule are argued about apart: a step that touches neither riders *)
(* nor shops nor gates keeps GateInv, one that touches neither shops nor   *)
(* the tick keeps LateShopsExplained.                                      *)
(***************************************************************************)
EXTENDS AreaGates, TLAPS

\* A derivation serves a call of a kind that has one.
KindInv ==
  \A p \in Procs :
    /\ Syncing(p) => aim[p].kind \in {"rider", "shop"}
    /\ step[p] \in {"count", "current", "flip"} => aim[p].kind = "rider"

\* What a derivation that runs alone has established so far.
Derives(p) ==
  /\ step[p] \in {"current", "flip"} => (seen[p] <=> online # {})
  /\ step[p] \in {"count", "current", "flip"} =>
       ("shop" \notin tainted => ShopGateRight)
  /\ step[p] \in {"gate", "shut", "tally", "set"} =>
       (aim[p].kind = "rider" \/ "delivery" \notin tainted => DeliveryRight)
  /\ step[p] = "shut" => ~delivery
  /\ step[p] = "tally" => delivery
  /\ step[p] = "set" =>
       delivery /\ active # {} /\ (seen[p] <=> active \cap isOpen # {})

\* Outside an overlap one derivation at most runs, and it runs truly.
Sole == \A p, q \in Procs : Syncing(p) /\ Syncing(q) => p = q

GateInv ==
  /\ overlap => tainted = Gates
  /\ ~overlap => Sole /\ \A p \in Procs : Syncing(p) => Derives(p)
  /\ GatesAgree

NextMinute(m) == IF m = Day THEN 0 ELSE m + 1

\* Opened now, the shop would not be open late without an explanation.
OnTime(s) == \/ InHours(s, minute) \/ s \in excused
             \/ minute = hours[s].close /\ ~swept

\* A tick's loops.  However far the clock has moved past its hhmm, the shops it
\* has yet to open are on time.
TickInv ==
  /\ tick.loop = "none" => tick.queue = {} /\ tick.closing = NoShop
  /\ tick.loop = "opens" =>
       tick.closing = NoShop /\ \A s \in tick.queue : OnTime(s)

IInv ==
  /\ TypeOK
  /\ KindInv
  /\ GateInv
  /\ TickInv
  /\ LateShopsExplained

----------------------------------------------------------------------------
(* Types.                                                                  *)

Aim == [kind : Kinds, shop : Shops \cup {NoShop}]
TickType == [loop : {"none", "opens", "closes"}, at : Minutes,
             queue : SUBSET Shops, closing : Shops \cup {NoShop}]

\* The values of an idle process and of no tick have their types.
LEMMA IdleTypes == NoAim \in Aim /\ NoTick \in TickType /\ 0 \in Minutes
<1>1. 0 \in Minutes
  BY ScheduleAssumption DEF Minutes
<1>2. NoAim \in Aim
  BY DEF NoAim, Aim, Kinds
<1>3. NoTick \in TickType
  BY <1>1 DEF NoTick, TickType
<1> QED BY <1>1, <1>2, <1>3

\* The type of what a process does.
ProcTypes ==
  /\ step \in [Procs -> Steps]
  /\ step[Sweeper] \in {"idle", "gate", "shut", "tally", "set"}
  /\ seen \in [Procs -> BOOLEAN]
  /\ aim \in [Procs -> Aim]
  /\ overlap \in BOOLEAN /\ tainted \subseteq Gates

\* Sync and its neighbours keep it: ending a derivation,
LEMMA StopTypes ==
  ASSUME ProcTypes, NEW p \in Procs, Stop(p), overlap' \in BOOLEAN, tainted' \subseteq Gates
  PROVE  ProcTypes'
<1> QED BY IdleTypes DEF ProcTypes, Stop, Steps

\* going on to the next statement,
LEMMA ContinueTypes ==
  ASSUME ProcTypes, NEW p \in Procs, NEW n \in SyncSteps, NEW v \in BOOLEAN,
         p = Sweeper => n \in {"gate", "shut", "tally", "set"},
         Continue(p, n, v)
  PROVE  ProcTypes'
<1> QED BY DEF ProcTypes, Continue, Steps, history

\* and beginning one.
LEMMA BeginTypes ==
  ASSUME ProcTypes, NEW p \in Procs, NEW n \in Steps, NEW k \in Kinds,
         NEW s \in Shops \cup {NoShop},
         p = Sweeper => n = "gate",
         Begin(p, k, s, n), seen' \in [Procs -> BOOLEAN],
         overlap' \in BOOLEAN, tainted' \subseteq Gates
  PROVE  ProcTypes'
<1>1. [kind |-> k, shop |-> s] \in Aim
  BY DEF Aim
<1>2. step' \in [Procs -> Steps] /\ step'[Sweeper] \in {"idle", "gate", "shut", "tally", "set"}
  BY DEF ProcTypes, Begin
<1>3. aim' \in [Procs -> Aim]
  BY <1>1 DEF ProcTypes, Begin
<1> QED BY <1>2, <1>3 DEF ProcTypes

\* Disturb writes history of its type.
LEMMA DisturbTypes ==
  ASSUME ProcTypes, NEW p \in Procs, NEW h \in SUBSET Gates, Disturb(p, h)
  PROVE  overlap' \in BOOLEAN /\ tainted' \subseteq Gates
<1> QED BY DEF ProcTypes, Disturb, OthersSyncing

\* And so does Finish.
LEMMA FinishTypes ==
  ASSUME ProcTypes, NEW p \in Procs, Finish(p)
  PROVE  ProcTypes'
<1>1. overlap' \in BOOLEAN /\ tainted' \subseteq Gates
  BY DEF ProcTypes, Finish, OthersSyncing
<1>2. Stop(p)
  BY DEF Finish
<1> QED BY <1>1, <1>2, StopTypes

\* Everything else that has a type.
RestTypes ==
  /\ online \subseteq Riders
  /\ active \subseteq Shops /\ isOpen \subseteq Shops /\ busy \subseteq Shops
  /\ hours \in [Shops -> Schedules]
  /\ delivery \in BOOLEAN /\ shopOpen \in BOOLEAN
  /\ minute \in Minutes /\ swept \in BOOLEAN
  /\ tick \in TickType
  /\ pending \subseteq Shops
  /\ faults \in 0 .. MaxFaults
  /\ excused \subseteq Shops

\* The two make TypeOK,
LEMMA TypesSplit == TypeOK <=> ProcTypes /\ RestTypes
<1> QED BY DEF TypeOK, ProcTypes, RestTypes, Aim, TickType

\* also after a step.
LEMMA TypesSplitNext == TypeOK' <=> ProcTypes' /\ RestTypes'
<1> QED BY DEF TypeOK, ProcTypes, RestTypes, Aim, TickType

\* A derivation's statement keeps the types,
LEMMA SyncTypes ==
  ASSUME TypeOK, KindInv, NEW p \in Procs, Sync(p)
  PROVE  TypeOK'
<1>0. ProcTypes /\ RestTypes
  BY TypesSplit
<1>s. seen[p] \in BOOLEAN /\ (p = Sweeper => step[p] \in {"idle", "gate", "shut", "tally", "set"})
  BY <1>0 DEF ProcTypes
<1>1. RestTypes'
  <2>1. CASE FlipDelivery(p)
    BY <1>0, <1>s, <2>1 DEF FlipDelivery, RestTypes, shops, clock
  <2>2. CASE ShutArea(p) \/ SetArea(p)
    BY <1>0, <1>s, <2>2 DEF ShutArea, SetArea, RestTypes, shops, clock
  <2>3. CASE CountRiders(p) \/ ReadDelivery(p) \/ ReadGate(p) \/ TallyShops(p)
    BY <1>0, <2>3 DEF CountRiders, ReadDelivery, ReadGate, TallyShops, RestTypes, shops, gates, clock
  <2> QED BY <2>1, <2>2, <2>3 DEF Sync
<1>2. ProcTypes'
  <2>1. CASE Finish(p)
    BY <1>0, <2>1, FinishTypes
  <2>2. CASE \E n \in SyncSteps, v \in BOOLEAN :
               /\ p = Sweeper => n \in {"gate", "shut", "tally", "set"}
               /\ Continue(p, n, v)
    BY <1>0, <2>2, ContinueTypes
  <2>3. CASE CountRiders(p)
    <3>1. Continue(p, "current", online # {}) /\ p # Sweeper
      BY <1>s, <2>3 DEF CountRiders
    <3>2. "current" \in SyncSteps /\ (online # {}) \in BOOLEAN
      BY DEF SyncSteps
    <3> QED BY <3>1, <3>2, <2>2
  <2>4. CASE ReadDelivery(p)
    <3>1. Finish(p) \/ (Continue(p, "flip", seen[p]) /\ p # Sweeper)
      BY <1>s, <2>4 DEF ReadDelivery
    <3>2. "flip" \in SyncSteps
      BY DEF SyncSteps
    <3> QED BY <1>s, <3>1, <3>2, <2>1, <2>2
  <2>5. CASE FlipDelivery(p)
    <3>1. Finish(p) \/ Continue(p, "gate", FALSE)
      BY <2>5 DEF FlipDelivery
    <3>2. "gate" \in SyncSteps
      BY DEF SyncSteps
    <3> QED BY <3>1, <3>2, <2>1, <2>2
  <2>6. CASE ReadGate(p)
    <3>1. Continue(p, "tally", FALSE) \/ Continue(p, "shut", FALSE)
      BY <2>6 DEF ReadGate
    <3>2. "tally" \in SyncSteps /\ "shut" \in SyncSteps
      BY DEF SyncSteps
    <3> QED BY <3>1, <3>2, <2>2
  <2>7. CASE TallyShops(p)
    <3>1. Finish(p) \/ Continue(p, "set", active \cap isOpen # {})
      BY <2>7 DEF TallyShops
    <3>2. "set" \in SyncSteps /\ (active \cap isOpen # {}) \in BOOLEAN
      BY DEF SyncSteps
    <3> QED BY <3>1, <3>2, <2>1, <2>2
  <2>8. CASE ShutArea(p) \/ SetArea(p)
    BY <2>8, <2>1 DEF ShutArea, SetArea
  <2> QED BY <2>3, <2>4, <2>5, <2>6, <2>7, <2>8 DEF Sync
<1> QED BY <1>1, <1>2, TypesSplitNext

\* and so does a request's,
LEMMA RequestTypes ==
  ASSUME TypeOK, NEW c \in Calls,
         Request(c) \/ OwnerCloses(c) \/ AdminSetsBanner(c)
  PROVE  TypeOK'
<1>0. ProcTypes /\ RestTypes /\ c \in Procs /\ c # Sweeper
  BY TypesSplit, ProcsAssumption DEF Procs
<1>1. {} \in SUBSET Gates /\ Gates \in SUBSET Gates /\ {"shop"} \subseteq Gates
  BY DEF Gates
<1>2. /\ "count" \in Steps /\ "gate" \in Steps /\ "toggle" \in Steps /\ "banner" \in Steps
      /\ "rider" \in Kinds /\ "shop" \in Kinds /\ "banner" \in Kinds
  BY DEF Steps, SyncSteps, Kinds
<1>3. CASE \E r \in Riders, on \in BOOLEAN : SetOnline(c, r, on)
  <2> PICK r \in Riders, on \in BOOLEAN : SetOnline(c, r, on)
    BY <1>3
  <2>1. RestTypes'
    BY <1>0 DEF RestTypes, SetOnline, shops, gates, clock
  <2>2. Begin(c, "rider", NoShop, "count") /\ Disturb(c, {}) /\ seen' = seen
    BY DEF SetOnline
  <2>3. ProcTypes'
    <3>1. overlap' \in BOOLEAN /\ tainted' \subseteq Gates
      BY <1>0, <1>1, <2>2, DisturbTypes
    <3> QED BY <1>0, <1>2, <2>2, <3>1, BeginTypes DEF ProcTypes
  <2> QED BY <2>1, <2>3, TypesSplitNext
<1>4. CASE \E s \in Shops : OwnerOpens(c, s) \/ OwnerAsksToClose(c, s)
  <2> PICK s \in Shops : OwnerOpens(c, s) \/ OwnerAsksToClose(c, s)
    BY <1>4
  <2>1. RestTypes'
    BY <1>0 DEF RestTypes, OwnerOpens, OwnerAsksToClose, shops, gates, clock
  <2>2. ProcTypes'
    <3>1. CASE OwnerOpens(c, s)
      <4>1. Begin(c, "shop", NoShop, "gate") /\ Disturb(c, {}) /\ seen' = seen
        BY <3>1 DEF OwnerOpens
      <4>2. overlap' \in BOOLEAN /\ tainted' \subseteq Gates
        BY <1>0, <1>1, <4>1, DisturbTypes
      <4> QED BY <1>0, <1>2, <4>1, <4>2, BeginTypes DEF ProcTypes
    <3>2. CASE OwnerAsksToClose(c, s)
      <4>1. Begin(c, "shop", s, "toggle") /\ overlap' = overlap /\ tainted' = tainted /\ seen' = seen
        BY <3>2 DEF OwnerAsksToClose, history
      <4> QED BY <1>0, <1>2, <4>1, BeginTypes DEF ProcTypes
    <3> QED BY <3>1, <3>2
  <2> QED BY <2>1, <2>2, TypesSplitNext
<1>5. CASE \E s \in Shops, on, open \in BOOLEAN : AdminSetsShop(c, s, on, open)
  <2> PICK s \in Shops, on \in BOOLEAN, open \in BOOLEAN : AdminSetsShop(c, s, on, open)
    BY <1>5
  <2>1. RestTypes'
    BY <1>0 DEF RestTypes, AdminSetsShop, gates, clock
  <2>2. Begin(c, "shop", NoShop, "gate") /\ Disturb(c, {}) /\ seen' = seen
    BY DEF AdminSetsShop
  <2>3. overlap' \in BOOLEAN /\ tainted' \subseteq Gates
    BY <1>0, <1>1, <2>2, DisturbTypes
  <2>4. ProcTypes'
    BY <1>0, <1>2, <2>2, <2>3, BeginTypes DEF ProcTypes
  <2> QED BY <2>1, <2>4, TypesSplitNext
<1>6. CASE \E on, open \in BOOLEAN : AdminSetsDelivery(c, on, open)
  <2> PICK on \in BOOLEAN, open \in BOOLEAN : AdminSetsDelivery(c, on, open)
    BY <1>6
  <2>1. RestTypes'
    BY <1>0 DEF RestTypes, AdminSetsDelivery, shops, clock
  <2>2. Begin(c, "shop", NoShop, "gate") /\ Disturb(c, Gates) /\ seen' = seen
    BY DEF AdminSetsDelivery
  <2>3. overlap' \in BOOLEAN /\ tainted' \subseteq Gates
    BY <1>0, <1>1, <2>2, DisturbTypes
  <2>4. ProcTypes'
    BY <1>0, <1>2, <2>2, <2>3, BeginTypes DEF ProcTypes
  <2> QED BY <2>1, <2>4, TypesSplitNext
<1>7. CASE \E open \in BOOLEAN : AdminAsksBanner(c, open)
  <2> PICK open \in BOOLEAN : AdminAsksBanner(c, open)
    BY <1>7
  <2>1. RestTypes'
    BY <1>0 DEF RestTypes, AdminAsksBanner, shops, gates, clock
  <2>2. Begin(c, "banner", NoShop, "banner") /\ overlap' = overlap /\ tainted' = tainted
    BY DEF AdminAsksBanner, history
  <2>3. seen' \in [Procs -> BOOLEAN]
    BY <1>0 DEF AdminAsksBanner, ProcTypes
  <2>4. ProcTypes'
    BY <1>0, <1>2, <2>2, <2>3, BeginTypes DEF ProcTypes
  <2> QED BY <2>1, <2>4, TypesSplitNext
<1>8. CASE OwnerCloses(c)
  <2>1. RestTypes'
    BY <1>0, <1>8 DEF RestTypes, OwnerCloses, gates, clock
  <2>2. overlap' \in BOOLEAN /\ tainted' \subseteq Gates
    BY <1>0, <1>1, <1>8, DisturbTypes DEF OwnerCloses
  <2>3. ProcTypes'
    <3>1. Begin(c, "shop", NoShop, "gate") /\ seen' = seen
      BY <1>8 DEF OwnerCloses
    <3> QED BY <1>0, <1>2, <2>2, <3>1, BeginTypes DEF ProcTypes
  <2> QED BY <2>1, <2>3, TypesSplitNext
<1>9. CASE AdminSetsBanner(c)
  <2>0. seen[c] \in BOOLEAN
    BY <1>0 DEF ProcTypes
  <2>1. RestTypes'
    BY <1>0, <1>9, <2>0 DEF RestTypes, AdminSetsBanner, shops, clock
  <2>2. overlap' \in BOOLEAN /\ tainted' \subseteq Gates /\ Stop(c)
    BY <1>0, <1>1, <1>9 DEF ProcTypes, AdminSetsBanner
  <2> QED BY <1>0, <2>1, <2>2, StopTypes, TypesSplitNext
<1> QED BY <1>3, <1>4, <1>5, <1>6, <1>7, <1>8, <1>9 DEF Request

\* the tick's,
LEMMA TickTypes ==
  ASSUME TypeOK, Tick
  PROVE  TypeOK'
<1>0. ProcTypes /\ RestTypes /\ Sweeper \in Procs
  BY TypesSplit DEF Procs
<1>1. {} \in SUBSET Gates /\ "gate" \in Steps /\ "shop" \in Kinds
  BY DEF Steps, SyncSteps, Kinds
<1>2. tick \in TickType
  BY <1>0 DEF RestTypes
<1>3. ASSUME UNCHANGED <<step, seen, aim, history>> PROVE ProcTypes'
  BY <1>0, <1>3 DEF ProcTypes, history
<1>4. ASSUME Begin(Sweeper, "shop", NoShop, "gate"), Disturb(Sweeper, {}), seen' = seen
      PROVE  ProcTypes'
  <2>1. overlap' \in BOOLEAN /\ tainted' \subseteq Gates
    BY <1>0, <1>1, <1>4, DisturbTypes
  <2> QED BY <1>0, <1>1, <1>4, <2>1, BeginTypes DEF ProcTypes
<1>5. CASE TickBegins
  <2>1. tick' = [loop |-> "opens", at |-> minute,
                 queue |-> {s \in active \ isOpen : hours[s].open = minute}, closing |-> NoShop]
    BY <1>5 DEF TickBegins, NoTick
  <2>2. tick' \in TickType
    BY <1>0, <2>1 DEF TickType, RestTypes
  <2>3. RestTypes'
    BY <1>0, <1>5, <2>2 DEF RestTypes, TickBegins, shops, gates
  <2> QED BY <1>3, <1>5, <2>3, TypesSplitNext DEF TickBegins
<1>6. CASE ScanCloses
  <2>1. tick' \in TickType /\ pending' \subseteq Shops
    BY <1>0, <1>2, <1>6 DEF TickType, RestTypes, ScanCloses
  <2>2. RestTypes'
    BY <1>0, <1>6, <2>1 DEF RestTypes, ScanCloses, shops, gates, clock
  <2> QED BY <1>3, <1>6, <2>2, TypesSplitNext DEF ScanCloses
<1>7. CASE ScheduledClose
  <2>1. tick.closing \in Shops
    BY <1>2, <1>7 DEF TickType, ScheduledClose
  <2>2. tick' \in TickType
    BY <1>2, <1>7 DEF TickType, ScheduledClose
  <2>3. RestTypes'
    BY <1>0, <1>7, <2>2 DEF RestTypes, ScheduledClose, gates, clock
  <2> QED BY <1>4, <1>7, <2>1, <2>3, TypesSplitNext DEF ScheduledClose
<1>8. CASE TickEnds
  <2>1. RestTypes'
    BY <1>0, <1>8, IdleTypes DEF RestTypes, TickEnds, shops, gates, clock
  <2> QED BY <1>3, <1>8, <2>1, TypesSplitNext DEF TickEnds
<1>9. ASSUME NEW s \in Shops, ScheduledOpen(s) PROVE TypeOK'
  <2>1. tick' \in TickType
    BY <1>2, <1>9 DEF TickType, ScheduledOpen
  <2>2. RestTypes'
    BY <1>0, <1>9, <2>1 DEF RestTypes, ScheduledOpen, gates, clock
  <2> QED BY <1>4, <1>9, <2>2, TypesSplitNext DEF ScheduledOpen
<1>10. ASSUME NEW s \in Shops, GuardClose(s) PROVE TypeOK'
  <2>1. tick' \in TickType
    BY <1>2, <1>10 DEF TickType, GuardClose
  <2>2. RestTypes'
    BY <1>0, <1>10, <2>1 DEF RestTypes, GuardClose, shops, gates, clock
  <2> QED BY <1>3, <1>10, <2>2, TypesSplitNext DEF GuardClose
<1> QED BY <1>5, <1>6, <1>7, <1>8, <1>9, <1>10 DEF Tick

\* a fault's and the surroundings'.
LEMMA OtherTypes ==
  ASSUME TypeOK,
         \/ \E p \in Procs : SyncFails(p)
         \/ TickFails \/ Restart \/ MinutePasses
         \/ \E s \in Shops : OrderAccepted(s) \/ OrderDone(s) \/ \E h \in Schedules : SetHours(s, h)
  PROVE  TypeOK'
<1>0. ProcTypes /\ RestTypes /\ Sweeper \in Procs /\ faults \in Nat
  BY TypesSplit, FaultsAssumption DEF Procs, RestTypes
<1>1. CASE \E p \in Procs : SyncFails(p)
  <2> PICK p \in Procs : SyncFails(p)
    BY <1>1
  <2>1. RestTypes'
    BY <1>0, FaultsAssumption DEF RestTypes, SyncFails, shops, gates, clock
  <2>2. Stop(p) /\ overlap' \in BOOLEAN /\ tainted' \subseteq Gates
    BY <1>0 DEF SyncFails, ProcTypes, OthersSyncing
  <2> QED BY <1>0, <2>1, <2>2, StopTypes, TypesSplitNext
<1>2. CASE TickFails
  <2>1. RestTypes'
    BY <1>0, <1>2, FaultsAssumption, IdleTypes DEF RestTypes, TickFails, shops, gates, clock
  <2>2. Stop(Sweeper) /\ overlap' \in BOOLEAN /\ tainted' \subseteq Gates
    BY <1>0, <1>2 DEF TickFails, ProcTypes, OthersSyncing
  <2> QED BY <1>0, <2>1, <2>2, StopTypes, TypesSplitNext
<1>3. CASE Restart
  <2>1. RestTypes'
    BY <1>0, <1>3, FaultsAssumption, IdleTypes DEF RestTypes, Restart, shops, gates, clock
  <2>2. ProcTypes'
    BY <1>0, <1>3, IdleTypes DEF ProcTypes, Restart, Steps
  <2> QED BY <2>1, <2>2, TypesSplitNext
<1>4. CASE MinutePasses
  <2>1. minute' \in Minutes
    BY <1>0, <1>4, ScheduleAssumption DEF RestTypes, MinutePasses, ClockStrikes, Minutes
  <2>2. excused' \subseteq Shops
    BY <1>0, <1>4 DEF RestTypes, MinutePasses, ClockStrikes, Missed
  <2>3. RestTypes' /\ ProcTypes'
    BY <1>0, <1>4, <2>1, <2>2
       DEF RestTypes, ProcTypes, MinutePasses, ClockStrikes, shops, gates, history
  <2> QED BY <2>3, TypesSplitNext
<1>5. CASE \E s \in Shops : OrderAccepted(s) \/ OrderDone(s)
  <2>1. RestTypes' /\ ProcTypes'
    BY <1>0, <1>5 DEF RestTypes, ProcTypes, OrderAccepted, OrderDone, gates, clock, history
  <2> QED BY <2>1, TypesSplitNext
<1>6. CASE \E s \in Shops, h \in Schedules : SetHours(s, h)
  <2>1. RestTypes' /\ ProcTypes'
    BY <1>0, <1>6 DEF RestTypes, ProcTypes, SetHours, gates, clock, history
  <2> QED BY <2>1, TypesSplitNext
<1> QED BY <1>1, <1>2, <1>3, <1>4, <1>5, <1>6

----------------------------------------------------------------------------
(* The gates.                                                              *)

GateFacts == TypeOK /\ KindInv /\ GateInv

\* A step that touches nothing the gates depend on keeps the argument.
LEMMA GatesQuiet ==
  ASSUME GateFacts, UNCHANGED <<online, active, isOpen, gates, step, seen, aim, history>>
  PROVE  KindInv' /\ GateInv'
<1>1. KindInv'
  BY DEF GateFacts, KindInv, Syncing
<1>2. GateInv'
  BY DEF GateFacts, GateInv, GatesAgree, Sole, Derives, DeliveryRight, ShopGateRight, Syncing,
         gates, history
<1> QED BY <1>1, <1>2

\* A write that puts a gate out of date begins a derivation.
LEMMA Disturbed ==
  ASSUME GateFacts, NEW p \in Procs, NEW first \in {"count", "gate"},
         NEW kind \in Kinds, NEW byHand \in SUBSET Gates,
         step[p] \notin SyncSteps, Disturb(p, byHand),
         step' = [step EXCEPT ![p] = first], seen' = seen,
         \A q \in Procs \ {p} : aim'[q] = aim[q],
         aim'[p].kind = kind,
         \/ first = "count" /\ kind = "rider" /\ UNCHANGED <<active, isOpen, gates>>
         \/ first = "gate" /\ kind = "shop" /\ UNCHANGED <<online, gates>>
         \/ first = "gate" /\ kind = "shop" /\ byHand = Gates
  PROVE  KindInv' /\ GateInv'
<1>0. /\ step'[p] = first
      /\ \A q \in Procs \ {p} : step'[q] = step[q]
      /\ first \in SyncSteps
      /\ overlap' = OthersSyncing(p)
      /\ tainted' = IF OthersSyncing(p) THEN Gates ELSE tainted \cup byHand
  BY DEF GateFacts, TypeOK, SyncSteps, Disturb
<1>1. KindInv'
  <2> SUFFICES ASSUME NEW q \in Procs
      PROVE  /\ Syncing(q)' => aim'[q].kind \in {"rider", "shop"}
             /\ step'[q] \in {"count", "current", "flip"} => aim'[q].kind = "rider"
    BY DEF KindInv
  <2>1. CASE q = p
    BY <1>0, <2>1
  <2>2. CASE q # p
    BY <1>0, <2>2 DEF GateFacts, KindInv, Syncing
  <2> QED BY <2>1, <2>2
<1>2. Syncing(p)'
  BY <1>0 DEF Syncing
<1>3. GatesAgree'
  BY <1>2 DEF GatesAgree
<1>4. overlap' => tainted' = Gates
  BY <1>0
<1>5. ASSUME ~overlap' PROVE Sole' /\ \A q \in Procs : Syncing(q)' => Derives(q)'
  <2>1. \A q \in Procs : ~Syncing(q)
    BY <1>0, <1>5 DEF OthersSyncing, Syncing
  <2>2. \A q \in Procs : Syncing(q)' => q = p
    BY <1>0, <2>1 DEF Syncing
  <2>3. /\ "delivery" \notin tainted => DeliveryRight
        /\ "shop" \notin tainted => ShopGateRight
    BY <2>1 DEF GateFacts, GateInv, GatesAgree
  <2>4. tainted' = tainted \cup byHand
    BY <1>0, <1>5
  <2>5. Derives(p)'
    <3>1. CASE first = "count" /\ UNCHANGED <<active, isOpen, gates>>
      BY <1>0, <2>3, <2>4, <3>1 DEF Derives, ShopGateRight, gates
    <3>2. CASE first = "gate" /\ kind = "shop" /\ UNCHANGED <<online, gates>>
      BY <1>0, <2>3, <2>4, <3>2 DEF Derives, DeliveryRight, gates
    <3>3. CASE first = "gate" /\ kind = "shop" /\ byHand = Gates
      BY <1>0, <2>4, <3>3 DEF Derives, Gates
    <3> QED BY <3>1, <3>2, <3>3
  <2> QED BY <2>2, <2>5 DEF Sole
<1> QED BY <1>1, <1>3, <1>4, <1>5 DEF GateInv

\* A derivation that goes on has established what it carries, if alone.
LEMMA Continued ==
  ASSUME GateFacts, NEW p \in Procs, NEW next \in SyncSteps, NEW value,
         Syncing(p), Continue(p, next, value),
         next \in {"count", "current", "flip"} => aim[p].kind = "rider",
         ~overlap => Derives(p)'
  PROVE  KindInv' /\ GateInv'
<1>0. /\ step'[p] = next
      /\ \A q \in Procs \ {p} : step'[q] = step[q]
      /\ aim' = aim /\ overlap' = overlap /\ tainted' = tainted
  BY DEF GateFacts, TypeOK, Continue, history
<1>1. \A q \in Procs : Syncing(q)' <=> Syncing(q)
  BY <1>0 DEF Syncing
<1>2. KindInv'
  <2> SUFFICES ASSUME NEW q \in Procs
      PROVE  /\ Syncing(q)' => aim'[q].kind \in {"rider", "shop"}
             /\ step'[q] \in {"count", "current", "flip"} => aim'[q].kind = "rider"
    BY DEF KindInv
  <2>1. CASE q = p
    BY <1>0, <1>1, <2>1 DEF GateFacts, KindInv, SyncSteps
  <2>2. CASE q # p
    BY <1>0, <1>1, <2>2 DEF GateFacts, KindInv
  <2> QED BY <2>1, <2>2
<1>3. GatesAgree'
  BY <1>1 DEF GatesAgree
<1>4. ASSUME ~overlap' PROVE Sole' /\ \A q \in Procs : Syncing(q)' => Derives(q)'
  <2>1. Sole
    BY <1>0, <1>4 DEF GateFacts, GateInv
  <2>2. \A q \in Procs : Syncing(q)' => q = p
    BY <1>1, <2>1 DEF Sole
  <2>3. Sole'
    BY <2>2 DEF Sole
  <2> QED BY <1>0, <1>4, <2>2, <2>3
<1>5. overlap' => tainted' = Gates
  BY <1>0 DEF GateFacts, GateInv
<1> QED BY <1>2, <1>3, <1>4, <1>5 DEF GateInv

\* A derivation that ends leaves untainted gates right, if it ran alone.
LEMMA Ended ==
  ASSUME GateFacts, NEW p \in Procs, Syncing(p), Stop(p),
         overlap' = (overlap /\ OthersSyncing(p)),
         overlap => tainted' = Gates,
         ~overlap => /\ "delivery" \notin tainted' => DeliveryRight'
                     /\ "shop" \notin tainted' => ShopGateRight'
  PROVE  KindInv' /\ GateInv'
<1>0. /\ step'[p] = "idle" /\ aim'[p] = NoAim
      /\ \A q \in Procs \ {p} : step'[q] = step[q] /\ aim'[q] = aim[q]
  BY DEF GateFacts, TypeOK, Stop
<1>1. ~Syncing(p)' /\ \A q \in Procs \ {p} : Syncing(q)' <=> Syncing(q)
  BY <1>0 DEF Syncing, SyncSteps
<1>2. KindInv'
  <2> SUFFICES ASSUME NEW q \in Procs
      PROVE  /\ Syncing(q)' => aim'[q].kind \in {"rider", "shop"}
             /\ step'[q] \in {"count", "current", "flip"} => aim'[q].kind = "rider"
    BY DEF KindInv
  <2>1. CASE q = p
    BY <1>0, <1>1, <2>1
  <2>2. CASE q # p
    BY <1>0, <1>1, <2>2 DEF GateFacts, KindInv
  <2> QED BY <2>1, <2>2
<1>3. CASE overlap
  <2>1. tainted' = Gates
    BY <1>3
  <2>2. ~overlap' => \A q \in Procs : ~Syncing(q)'
    BY <1>1, <1>3 DEF OthersSyncing
  <2>3. GatesAgree'
    BY <2>1 DEF GatesAgree, Gates
  <2> QED BY <1>2, <2>1, <2>2, <2>3 DEF GateInv, Sole
<1>4. CASE ~overlap
  <2>1. ~overlap' /\ Sole
    BY <1>4 DEF GateFacts, GateInv
  <2>2. \A q \in Procs : ~Syncing(q)'
    BY <1>1, <2>1 DEF Sole
  <2>3. GatesAgree'
    BY <1>4 DEF GatesAgree
  <2> QED BY <1>2, <2>1, <2>2, <2>3 DEF GateInv, Sole
<1>5. overlap \in BOOLEAN
  BY DEF GateFacts, TypeOK
<1> QED BY <1>3, <1>4, <1>5

\* Finish is such an end.
LEMMA Finished ==
  ASSUME GateFacts, NEW p \in Procs, Syncing(p), Finish(p),
         ~overlap => /\ "delivery" \notin tainted' => DeliveryRight'
                     /\ "shop" \notin tainted' => ShopGateRight'
  PROVE  KindInv' /\ GateInv'
<1>1. Stop(p) /\ overlap' = (overlap /\ OthersSyncing(p))
  BY DEF Finish
<1>2. overlap => tainted' = Gates
  BY DEF Finish, GateFacts, GateInv
<1> QED BY <1>1, <1>2, Ended

\* The derivations keep the gates' invariant,
LEMMA SyncGates ==
  ASSUME GateFacts, NEW p \in Procs, Sync(p)
  PROVE  KindInv' /\ GateInv'
<1>0. Syncing(p)
  BY DEF Sync, Syncing, SyncSteps, CountRiders, ReadDelivery, FlipDelivery, ReadGate,
         ShutArea, TallyShops, SetArea
<1>1. ~overlap => Derives(p)
  BY <1>0 DEF GateFacts, GateInv
<1>t. /\ step \in [Procs -> Steps] /\ seen \in [Procs -> BOOLEAN]
      /\ delivery \in BOOLEAN /\ shopOpen \in BOOLEAN
  BY DEF GateFacts, TypeOK
<1>k. /\ step[p] \in {"count", "current", "flip"} => aim[p].kind = "rider"
      /\ aim[p].kind \in {"rider", "shop"}
  BY <1>0 DEF GateFacts, KindInv
<1>f. ASSUME Finish(p), ~overlap
      PROVE  /\ tainted' = tainted \ Derived(aim[p].kind)
             /\ aim[p].kind = "rider" => tainted' = tainted \ {"delivery"}
             /\ aim[p].kind # "rider" => tainted' = tainted \ {"shop"}
  BY <1>f, <1>k DEF Finish, Derived
<1>2. CASE CountRiders(p)
  <2>1. Continue(p, "current", online # {}) /\ step[p] = "count" /\ "current" \in SyncSteps
    BY <1>2 DEF CountRiders, SyncSteps
  <2>2. step'[p] = "current" /\ (seen'[p] <=> online # {}) /\ tainted' = tainted
    BY <1>t, <2>1 DEF Continue, history
  <2>3. online' = online /\ (ShopGateRight' <=> ShopGateRight)
    BY <1>2 DEF CountRiders, ShopGateRight, shops, gates
  <2>4. ~overlap => Derives(p)'
    BY <1>1, <2>1, <2>2, <2>3 DEF Derives
  <2> QED BY <1>0, <1>k, <2>1, <2>4, Continued
<1>3. CASE ReadDelivery(p)
  <2>0. /\ step[p] = "current" /\ aim[p].kind = "rider"
        /\ online' = online /\ delivery' = delivery
        /\ (ShopGateRight' <=> ShopGateRight)
    BY <1>k, <1>3 DEF ReadDelivery, ShopGateRight, shops, gates
  <2>1. CASE delivery = seen[p] /\ Finish(p)
    <3>1. ~overlap => DeliveryRight' /\ ("shop" \notin tainted => ShopGateRight')
      BY <1>1, <2>0, <2>1 DEF Derives, DeliveryRight
    <3>2. ~overlap => tainted' = tainted \ {"delivery"}
      BY <1>f, <2>0, <2>1
    <3>3. ~overlap => /\ "delivery" \notin tainted' => DeliveryRight'
                      /\ "shop" \notin tainted' => ShopGateRight'
      BY <3>1, <3>2
    <3> QED BY <1>0, <2>1, <3>3, Finished
  <2>2. CASE Continue(p, "flip", seen[p])
    <3>1. step'[p] = "flip" /\ seen'[p] = seen[p] /\ tainted' = tainted /\ "flip" \in SyncSteps
      BY <1>t, <2>2 DEF Continue, history, SyncSteps
    <3>2. ~overlap => Derives(p)'
      BY <1>1, <2>0, <3>1 DEF Derives
    <3> QED BY <1>0, <2>0, <2>2, <3>1, <3>2, Continued
  <2> QED BY <1>3, <2>1, <2>2 DEF ReadDelivery
<1>4. CASE FlipDelivery(p)
  <2>0. /\ step[p] = "flip" /\ aim[p].kind = "rider"
        /\ online' = online /\ delivery' = seen[p]
    BY <1>k, <1>4 DEF FlipDelivery
  <2>1. ~overlap => DeliveryRight'
    BY <1>1, <2>0 DEF Derives, DeliveryRight
  <2>2. CASE delivery = seen[p] /\ Finish(p)
    <3>1. ShopGateRight' <=> ShopGateRight
      BY <1>4, <2>0, <2>2 DEF FlipDelivery, ShopGateRight, shops
    <3>2. ~overlap => ("shop" \notin tainted => ShopGateRight')
      BY <1>1, <2>0, <3>1 DEF Derives
    <3>3. ~overlap => tainted' = tainted \ {"delivery"}
      BY <1>f, <2>0, <2>2
    <3>4. ~overlap => /\ "delivery" \notin tainted' => DeliveryRight'
                      /\ "shop" \notin tainted' => ShopGateRight'
      BY <2>1, <3>2, <3>3
    <3> QED BY <1>0, <2>2, <3>4, Finished
  <2>3. CASE Continue(p, "gate", FALSE)
    <3>1. step'[p] = "gate" /\ "gate" \in SyncSteps
      BY <1>t, <2>3 DEF Continue, SyncSteps
    <3>2. ~overlap => Derives(p)'
      BY <2>1, <3>1 DEF Derives
    <3> QED BY <1>0, <2>3, <3>1, <3>2, Continued
  <2> QED BY <1>4, <2>2, <2>3 DEF FlipDelivery
<1>5. CASE ReadGate(p)
  <2>0. /\ step[p] = "gate" /\ delivery' = delivery
        /\ (DeliveryRight' <=> DeliveryRight)
    BY <1>5 DEF ReadGate, DeliveryRight, gates
  <2>1. CASE delivery /\ Continue(p, "tally", FALSE)
    <3>1. step'[p] = "tally" /\ tainted' = tainted /\ aim' = aim /\ "tally" \in SyncSteps
      BY <1>t, <2>1 DEF Continue, history, SyncSteps
    <3>2. ~overlap => Derives(p)'
      BY <1>1, <2>0, <2>1, <3>1 DEF Derives
    <3> QED BY <1>0, <2>1, <3>1, <3>2, Continued
  <2>2. CASE ~delivery /\ Continue(p, "shut", FALSE)
    <3>1. step'[p] = "shut" /\ tainted' = tainted /\ aim' = aim /\ "shut" \in SyncSteps
      BY <1>t, <2>2 DEF Continue, history, SyncSteps
    <3>2. ~overlap => Derives(p)'
      BY <1>1, <2>0, <2>2, <3>1 DEF Derives
    <3> QED BY <1>0, <2>2, <3>1, <3>2, Continued
  <2> QED BY <1>t, <1>5, <2>1, <2>2 DEF ReadGate
<1>6. CASE ShutArea(p)
  <2>1. /\ step[p] = "shut" /\ Finish(p) /\ shopOpen' = FALSE
        /\ delivery' = delivery /\ (DeliveryRight' <=> DeliveryRight)
    BY <1>6 DEF ShutArea, DeliveryRight
  <2>2. ~overlap => ShopGateRight'
    BY <1>1, <2>1 DEF Derives, ShopGateRight
  <2>3. ~overlap => ("delivery" \notin tainted' => DeliveryRight')
    BY <1>1, <1>f, <1>k, <2>1 DEF Derives
  <2> QED BY <1>0, <2>1, <2>2, <2>3, Finished
<1>7. CASE TallyShops(p)
  <2>0. /\ step[p] = "tally" /\ delivery' = delivery /\ active' = active /\ isOpen' = isOpen
        /\ (DeliveryRight' <=> DeliveryRight)
    BY <1>7 DEF TallyShops, DeliveryRight, gates, shops
  <2>1. CASE active = {} /\ Finish(p)
    <3>1. ~overlap => ShopGateRight'
      BY <1>1, <2>0, <2>1 DEF Derives, ShopGateRight
    <3>2. ~overlap => ("delivery" \notin tainted' => DeliveryRight')
      BY <1>1, <1>f, <1>k, <2>0, <2>1 DEF Derives
    <3> QED BY <1>0, <2>1, <3>1, <3>2, Finished
  <2>2. CASE active # {} /\ Continue(p, "set", active \cap isOpen # {})
    <3>1. /\ step'[p] = "set" /\ tainted' = tainted /\ aim' = aim /\ "set" \in SyncSteps
          /\ (seen'[p] <=> active \cap isOpen # {})
      BY <1>t, <2>2 DEF Continue, history, SyncSteps
    <3>2. ~overlap => Derives(p)'
      BY <1>1, <2>0, <2>2, <3>1 DEF Derives
    <3> QED BY <1>0, <2>2, <3>1, <3>2, Continued
  <2> QED BY <1>7, <2>1, <2>2 DEF TallyShops
<1>8. CASE SetArea(p)
  <2>1. /\ step[p] = "set" /\ Finish(p) /\ shopOpen' = seen[p]
        /\ delivery' = delivery /\ active' = active /\ isOpen' = isOpen
        /\ (DeliveryRight' <=> DeliveryRight)
    BY <1>8 DEF SetArea, DeliveryRight, shops
  <2>2. ~overlap => ShopGateRight'
    BY <1>1, <2>1 DEF Derives, ShopGateRight
  <2>3. ~overlap => ("delivery" \notin tainted' => DeliveryRight')
    BY <1>1, <1>f, <1>k, <2>1 DEF Derives
  <2> QED BY <1>0, <2>1, <2>2, <2>3, Finished
<1> QED BY <1>2, <1>3, <1>4, <1>5, <1>6, <1>7, <1>8 DEF Sync

\* and so do the requests,
LEMMA RequestGates ==
  ASSUME GateFacts, NEW c \in Calls,
         Request(c) \/ OwnerCloses(c) \/ AdminSetsBanner(c)
  PROVE  KindInv' /\ GateInv'
<1>0. /\ c \in Procs /\ step \in [Procs -> Steps] /\ aim \in [Procs -> Aim]
      /\ overlap \in BOOLEAN
      /\ {} \in SUBSET Gates /\ Gates \in SUBSET Gates
      /\ {"rider", "shop"} \subseteq Kinds
  BY DEF Procs, GateFacts, TypeOK, Aim, Kinds
<1>1. step[c] \in {"idle", "toggle", "banner"} => step[c] \notin SyncSteps
  BY DEF SyncSteps
<1>b. ASSUME NEW kind, NEW s, NEW first, Begin(c, kind, s, first)
      PROVE  /\ step' = [step EXCEPT ![c] = first]
             /\ \A q \in Procs \ {c} : aim'[q] = aim[q]
             /\ aim'[c].kind = kind
  BY <1>0, <1>b DEF Begin
<1>2. CASE \E r \in Riders, on \in BOOLEAN : SetOnline(c, r, on)
  <2> PICK r \in Riders, on \in BOOLEAN : SetOnline(c, r, on)
    BY <1>2
  <2>1. /\ Begin(c, "rider", NoShop, "count") /\ Disturb(c, {}) /\ seen' = seen
        /\ UNCHANGED <<active, isOpen, gates>> /\ step[c] = "idle"
    BY DEF SetOnline, shops
  <2>2. /\ step' = [step EXCEPT ![c] = "count"] /\ aim'[c].kind = "rider"
        /\ \A q \in Procs \ {c} : aim'[q] = aim[q]
    BY <1>b, <2>1
  <2> QED BY <1>0, <1>1, <2>1, <2>2, Disturbed
<1>s. ASSUME Begin(c, "shop", NoShop, "gate"), Disturb(c, {}), seen' = seen,
             UNCHANGED <<online, gates>>, step[c] = "idle"
      PROVE  KindInv' /\ GateInv'
  <2>2. /\ step' = [step EXCEPT ![c] = "gate"] /\ aim'[c].kind = "shop"
        /\ \A q \in Procs \ {c} : aim'[q] = aim[q]
    BY <1>b, <1>s
  <2> QED BY <1>0, <1>1, <1>s, <2>2, Disturbed
<1>w. ASSUME NEW kind \in {"shop", "banner"}, NEW s, NEW first \in {"toggle", "banner"},
             Begin(c, kind, s, first),
             \A q \in Procs \ {c} : seen'[q] = seen[q], step[c] = "idle",
             UNCHANGED <<online, active, isOpen, gates, history>>
      PROVE  KindInv' /\ GateInv'
  <2>1. /\ step'[c] = first /\ aim'[c].kind = kind
        /\ \A q \in Procs \ {c} : aim'[q] = aim[q] /\ step'[q] = step[q]
    BY <1>0, <1>b, <1>w
  <2>2. ~Syncing(c) /\ ~Syncing(c)' /\ \A q \in Procs \ {c} : Syncing(q)' <=> Syncing(q)
    BY <1>w, <2>1 DEF Syncing, SyncSteps
  <2>3. KindInv'
    <3> SUFFICES ASSUME NEW q \in Procs
        PROVE  /\ Syncing(q)' => aim'[q].kind \in {"rider", "shop"}
               /\ step'[q] \in {"count", "current", "flip"} => aim'[q].kind = "rider"
      BY DEF KindInv
    <3>1. CASE q = c
      BY <1>w, <2>1, <2>2, <3>1
    <3>2. CASE q # c
      BY <2>1, <2>2, <3>2 DEF GateFacts, KindInv
    <3> QED BY <3>1, <3>2
  <2>4. \A q \in Procs : Syncing(q)' => Syncing(q) /\ q # c
    BY <2>2
  <2>5. DeliveryRight' <=> DeliveryRight
    BY <1>w DEF DeliveryRight, gates
  <2>6. ShopGateRight' <=> ShopGateRight
    BY <1>w DEF ShopGateRight, gates
  <2>7. GatesAgree'
    <3>1. (\A q \in Procs : ~Syncing(q)') => \A q \in Procs : ~Syncing(q)
      BY <2>2
    <3> QED BY <1>w, <2>5, <2>6, <3>1 DEF GateFacts, GateInv, GatesAgree, history
  <2>8. \A q \in Procs : Syncing(q)' /\ Derives(q) => Derives(q)'
    BY <1>w, <2>1, <2>4, <2>5, <2>6 DEF Derives, history, gates
  <2> QED BY <1>w, <2>3, <2>4, <2>7, <2>8 DEF GateFacts, GateInv, Sole, history
<1>3. CASE \E s \in Shops : OwnerOpens(c, s) \/ OwnerAsksToClose(c, s)
  <2> PICK s \in Shops : OwnerOpens(c, s) \/ OwnerAsksToClose(c, s)
    BY <1>3
  <2>1. CASE OwnerOpens(c, s)
    BY <1>s, <2>1 DEF OwnerOpens
  <2>2. CASE OwnerAsksToClose(c, s)
    BY <1>w, <2>2 DEF OwnerAsksToClose, shops
  <2> QED BY <2>1, <2>2
<1>4. CASE \E s \in Shops, on, open \in BOOLEAN : AdminSetsShop(c, s, on, open)
  BY <1>4, <1>s DEF AdminSetsShop
<1>5. CASE \E on, open \in BOOLEAN : AdminSetsDelivery(c, on, open)
  <2> PICK on \in BOOLEAN, open \in BOOLEAN : AdminSetsDelivery(c, on, open)
    BY <1>5
  <2>1. /\ Begin(c, "shop", NoShop, "gate") /\ Disturb(c, Gates) /\ seen' = seen
        /\ step[c] = "idle"
    BY DEF AdminSetsDelivery
  <2>2. /\ step' = [step EXCEPT ![c] = "gate"] /\ aim'[c].kind = "shop"
        /\ \A q \in Procs \ {c} : aim'[q] = aim[q]
    BY <1>b, <2>1
  <2> QED BY <1>0, <1>1, <2>1, <2>2, Disturbed
<1>6. CASE \E open \in BOOLEAN : AdminAsksBanner(c, open)
  <2> PICK open \in BOOLEAN : AdminAsksBanner(c, open)
    BY <1>6
  <2>1. \A q \in Procs \ {c} : seen'[q] = seen[q]
    BY DEF AdminAsksBanner, GateFacts, TypeOK
  <2> QED BY <1>w, <2>1 DEF AdminAsksBanner, shops
<1>7. CASE OwnerCloses(c)
  <2>1. /\ Begin(c, "shop", NoShop, "gate") /\ Disturb(c, {}) /\ seen' = seen
        /\ UNCHANGED <<online, gates>> /\ step[c] = "toggle"
    BY <1>7 DEF OwnerCloses
  <2>2. /\ step' = [step EXCEPT ![c] = "gate"] /\ aim'[c].kind = "shop"
        /\ \A q \in Procs \ {c} : aim'[q] = aim[q]
    BY <1>b, <2>1
  <2> QED BY <1>0, <1>1, <2>1, <2>2, Disturbed
<1>8. CASE AdminSetsBanner(c)
  <2>1. /\ step[c] = "banner" /\ Stop(c) /\ tainted' = tainted \cup {"shop"} /\ overlap' = overlap
        /\ online' = online /\ delivery' = delivery
    BY <1>8 DEF AdminSetsBanner
  <2>2. /\ step'[c] = "idle" /\ aim'[c] = NoAim
        /\ \A q \in Procs \ {c} : /\ aim'[q] = aim[q] /\ step'[q] = step[q]
                                    /\ seen'[q] = seen[q]
    BY <1>0, <2>1 DEF Stop, GateFacts, TypeOK
  <2>3. ~Syncing(c) /\ ~Syncing(c)' /\ \A q \in Procs \ {c} : Syncing(q)' <=> Syncing(q)
    BY <2>1, <2>2 DEF Syncing, SyncSteps
  <2>4. KindInv'
    <3> SUFFICES ASSUME NEW q \in Procs
        PROVE  /\ Syncing(q)' => aim'[q].kind \in {"rider", "shop"}
               /\ step'[q] \in {"count", "current", "flip"} => aim'[q].kind = "rider"
      BY DEF KindInv
    <3>1. CASE q = c
      BY <2>2, <2>3, <3>1
    <3>2. CASE q # c
      BY <2>2, <2>3, <3>2 DEF GateFacts, KindInv
    <3> QED BY <3>1, <3>2
  <2>5. DeliveryRight' <=> DeliveryRight
    BY <2>1 DEF DeliveryRight
  <2>6. GatesAgree'
    <3>1. (\A q \in Procs : ~Syncing(q)') => \A q \in Procs : ~Syncing(q)
      BY <2>3
    <3> QED BY <2>1, <2>5, <3>1 DEF GateFacts, GateInv, GatesAgree
  <2>7. active' = active /\ isOpen' = isOpen
    BY <1>8 DEF AdminSetsBanner, shops
  <2>8. \A q \in Procs \ {c} : Derives(q) => Derives(q)'
    BY <2>1, <2>2, <2>5, <2>7 DEF Derives
  <2>9. overlap => tainted' = Gates
    BY <2>1 DEF GateFacts, GateInv, Gates
  <2>10. ~overlap => Sole' /\ \A q \in Procs : Syncing(q)' => Derives(q)'
    BY <2>3, <2>8 DEF GateFacts, GateInv, Sole
  <2> QED BY <2>1, <2>4, <2>6, <2>9, <2>10 DEF GateInv
<1> QED BY <1>2, <1>3, <1>4, <1>5, <1>6, <1>7, <1>8 DEF Request

\* the tick,
LEMMA TickGates ==
  ASSUME GateFacts, Tick
  PROVE  KindInv' /\ GateInv'
<1>0. /\ Sweeper \in Procs /\ aim \in [Procs -> Aim]
      /\ {} \in SUBSET Gates /\ {"rider", "shop"} \subseteq Kinds
  BY DEF Procs, GateFacts, TypeOK, Aim, Kinds
<1>1. CASE \/ TickBegins \/ ScanCloses \/ TickEnds
           \/ \E s \in Shops : GuardClose(s)
  BY <1>1, GatesQuiet DEF TickBegins, ScanCloses, TickEnds, GuardClose, shops
<1>s. ASSUME Begin(Sweeper, "shop", NoShop, "gate"), Disturb(Sweeper, {}), seen' = seen,
             UNCHANGED <<online, gates>>, step[Sweeper] = "idle"
      PROVE  KindInv' /\ GateInv'
  <2>1. step[Sweeper] \notin SyncSteps
    BY <1>s DEF SyncSteps
  <2>2. /\ step' = [step EXCEPT ![Sweeper] = "gate"] /\ aim'[Sweeper].kind = "shop"
        /\ \A q \in Procs \ {Sweeper} : aim'[q] = aim[q]
    BY <1>0, <1>s DEF Begin
  <2> QED BY <1>0, <1>s, <2>1, <2>2, Disturbed
<1>2. CASE \E s \in Shops : ScheduledOpen(s)
  BY <1>2, <1>s DEF ScheduledOpen, Resting
<1>3. CASE ScheduledClose
  BY <1>3, <1>s DEF ScheduledClose
<1> QED BY <1>1, <1>2, <1>3 DEF Tick

\* the faults,
LEMMA FaultGates ==
  ASSUME GateFacts,
         (\E p \in Procs : SyncFails(p)) \/ TickFails \/ Restart
  PROVE  KindInv' /\ GateInv'
<1>0. /\ Sweeper \in Procs /\ step \in [Procs -> Steps] /\ overlap \in BOOLEAN
  BY DEF Procs, GateFacts, TypeOK
<1>1. CASE \E p \in Procs : SyncFails(p)
  <2> PICK p \in Procs : SyncFails(p)
    BY <1>1
  <2>1. /\ Syncing(p) /\ Stop(p) /\ tainted' = Gates
        /\ "delivery" \in tainted' /\ "shop" \in tainted'
    BY DEF SyncFails, Gates
  <2>2. overlap' = (overlap /\ OthersSyncing(p))
    BY DEF SyncFails
  <2> QED BY <2>1, <2>2, Ended
<1>2. CASE TickFails /\ Syncing(Sweeper)
  <2>1. /\ Stop(Sweeper) /\ tainted' = Gates
        /\ "delivery" \in tainted' /\ "shop" \in tainted'
    BY <1>2 DEF TickFails, Gates
  <2>2. overlap' = (overlap /\ OthersSyncing(Sweeper))
    BY <1>2 DEF TickFails
  <2> QED BY <1>0, <1>2, <2>1, <2>2, Ended
<1>3. CASE TickFails /\ ~Syncing(Sweeper)
  <2>1. /\ Stop(Sweeper) /\ tainted' = tainted /\ step[Sweeper] = "idle"
        /\ UNCHANGED <<online, active, isOpen, gates>>
    BY <1>3 DEF TickFails, Syncing, SyncSteps, shops
  <2>2. overlap' = (overlap /\ OthersSyncing(Sweeper))
    BY <1>3 DEF TickFails
  <2>3. /\ step'[Sweeper] = "idle" /\ aim'[Sweeper] = NoAim
        /\ \A q \in Procs \ {Sweeper} : /\ aim'[q] = aim[q] /\ step'[q] = step[q]
                                         /\ seen'[q] = seen[q]
    BY <1>0, <2>1 DEF Stop, GateFacts, TypeOK
  <2>4. \A q \in Procs : (Syncing(q)' <=> Syncing(q)) /\ (Syncing(q) => q # Sweeper)
    BY <1>3, <2>1, <2>3 DEF Syncing
  <2>5. KindInv'
    <3> SUFFICES ASSUME NEW q \in Procs
        PROVE  /\ Syncing(q)' => aim'[q].kind \in {"rider", "shop"}
               /\ step'[q] \in {"count", "current", "flip"} => aim'[q].kind = "rider"
      BY DEF KindInv
    <3>1. CASE q = Sweeper
      BY <2>3, <2>4, <3>1
    <3>2. CASE q # Sweeper
      BY <2>3, <2>4, <3>2 DEF GateFacts, KindInv
    <3> QED BY <3>1, <3>2
  <2>6. (DeliveryRight' <=> DeliveryRight) /\ (ShopGateRight' <=> ShopGateRight)
    BY <2>1 DEF DeliveryRight, ShopGateRight, gates
  <2>7. GatesAgree'
    BY <2>1, <2>4, <2>6 DEF GateFacts, GateInv, GatesAgree
  <2>8. \A q \in Procs : Syncing(q)' /\ Derives(q) => Derives(q)'
    BY <2>1, <2>3, <2>4, <2>6 DEF Derives, gates
  <2>9. CASE overlap
    <3>1. tainted' = Gates
      BY <2>1, <2>9 DEF GateFacts, GateInv
    <3>2. ~overlap' => \A q \in Procs : ~Syncing(q)'
      BY <2>2, <2>4, <2>9 DEF OthersSyncing
    <3> QED BY <2>5, <2>7, <3>1, <3>2 DEF GateInv, Sole
  <2>10. CASE ~overlap
    <3>1. ~overlap'
      BY <2>2, <2>10
    <3>2. Sole' /\ \A q \in Procs : Syncing(q)' => Derives(q)'
      BY <2>4, <2>8, <2>10 DEF GateFacts, GateInv, Sole
    <3> QED BY <2>5, <2>7, <3>1, <3>2 DEF GateInv
  <2> QED BY <1>0, <2>9, <2>10
<1>4. CASE Restart
  <2>1. /\ \A q \in Procs : step'[q] = "idle"
        /\ ~overlap'
        /\ UNCHANGED <<online, active, isOpen, gates>>
        /\ tainted' = IF \E p \in Procs : Syncing(p) THEN Gates ELSE tainted
    BY <1>4 DEF Restart, shops
  <2>2. \A q \in Procs : ~Syncing(q)'
    BY <2>1 DEF Syncing, SyncSteps
  <2>3. KindInv'
    BY <2>1, <2>2 DEF KindInv
  <2>4. (DeliveryRight' <=> DeliveryRight) /\ (ShopGateRight' <=> ShopGateRight)
    BY <2>1 DEF DeliveryRight, ShopGateRight, gates
  <2>5. GatesAgree'
    BY <2>1, <2>4 DEF GateFacts, GateInv, GatesAgree, Gates
  <2> QED BY <2>1, <2>2, <2>3, <2>5 DEF GateInv, Sole
<1> QED BY <1>1, <1>2, <1>3, <1>4

\* and the clock, the orders and the schedules.
LEMMA SurroundingGates ==
  ASSUME GateFacts,
         \/ MinutePasses
         \/ \E s \in Shops : OrderAccepted(s) \/ OrderDone(s) \/ \E h \in Schedules : SetHours(s, h)
  PROVE  KindInv' /\ GateInv'
<1> QED BY GatesQuiet DEF MinutePasses, ClockStrikes, OrderAccepted, OrderDone, SetHours, shops

----------------------------------------------------------------------------
(* The schedule.                                                           *)

ScheduleFacts == TypeOK /\ TickInv /\ LateShopsExplained

\* Schedules have the fields of a schedule,
LEMMA HoursTypes ==
  ASSUME TypeOK, NEW s \in Shops
  PROVE  /\ hours[s] \in Hours
         /\ \/ hours[s] = Unscheduled
            \/ /\ hours[s].open \in 0 .. Day /\ hours[s].close \in 0 .. Day
               /\ hours[s].open # hours[s].close
<1> QED BY ScheduleAssumption DEF TypeOK, Hours, Minutes

\* a shop opened at its open_time is in its hours, without a schedule it always
\* is, and with one it leaves them at its close_time.
LEMMA HoursPass ==
  ASSUME TypeOK, NEW s \in Shops, NEW m \in Minutes
  PROVE  /\ hours[s].open = m => InHours(s, m)
         /\ hours[s] = Unscheduled => InHours(s, m)
         /\ InHours(s, m) /\ ~InHours(s, NextMinute(m)) => hours[s].close = NextMinute(m)
<1>1. Day \in Nat /\ m \in 0 .. Day
  BY ScheduleAssumption DEF Minutes
<1>2. CASE hours[s] = Unscheduled
  BY <1>1, <1>2 DEF Unscheduled, InHours, NextMinute
<1>3. CASE /\ hours[s].open \in 0 .. Day /\ hours[s].close \in 0 .. Day
           /\ hours[s].open # hours[s].close
  <2> DEFINE o == hours[s].open
             c == hours[s].close
  <2>0. o \in 0 .. Day /\ c \in 0 .. Day /\ o # c
    BY <1>3
  <2>1. \A x \in 0 .. Day : InHours(s, x) <=> IF o < c THEN o <= x /\ x < c ELSE o <= x \/ x < c
    BY DEF InHours
  <2>2. hours[s] # Unscheduled
    BY <1>1, <2>0 DEF Unscheduled
  <2>3. NextMinute(m) \in 0 .. Day
    BY <1>1 DEF NextMinute
  <2> HIDE DEF o, c
  <2>4. o = m => InHours(s, m)
    BY <1>1, <2>0, <2>1
  <2>5. InHours(s, m) /\ ~InHours(s, NextMinute(m)) => c = NextMinute(m)
    BY <1>1, <2>0, <2>1, <2>3 DEF NextMinute
  <2> QED BY <2>2, <2>4, <2>5 DEF o, c
<1> QED BY <1>2, <1>3, HoursTypes

\* A step of a request, or of a derivation, keeps the argument about the
\* schedule: it opens no shop a person did not open, and changes no hours.
LEMMA ScheduleQuiet ==
  ASSUME ScheduleFacts, UNCHANGED <<clock, hours, tick, pending>>, excused \subseteq excused',
         \A s \in (active' \cap isOpen') \ (active \cap isOpen) : s \in excused'
  PROVE  TickInv' /\ LateShopsExplained'
<1>1. TickInv'
  BY DEF ScheduleFacts, TickInv, OnTime, InHours, clock
<1>2. LateShopsExplained'
  BY DEF ScheduleFacts, LateShopsExplained, InHours, Undecided, clock
<1> QED BY <1>1, <1>2

\* The statements of a tick leave no late shop unexplained.
LEMMA TickSchedule ==
  ASSUME ScheduleFacts, Tick
  PROVE  TickInv' /\ LateShopsExplained'
<1>0. /\ tick \in TickType /\ minute \in Minutes /\ swept \in BOOLEAN
      /\ NoShop \notin Shops /\ active \subseteq Shops
      /\ tick.queue \subseteq Shops
  BY ProcsAssumption DEF ScheduleFacts, TypeOK, TickType
<1>1. CASE TickBegins
  <2>1. /\ tick.loop = "none" /\ swept' = TRUE /\ minute' = minute
        /\ tick'.loop = "opens" /\ tick'.at = minute /\ tick'.closing = NoShop
        /\ tick'.queue = {s \in active \ isOpen : hours[s].open = minute}
        /\ UNCHANGED <<active, isOpen, hours, pending, excused>>
    BY <1>1 DEF TickBegins, NoTick, shops
  <2>2. TickInv'
    <3>1. \A s \in tick'.queue : InHours(s, minute)
      BY <1>0, <2>1, HoursPass DEF ScheduleFacts
    <3> QED BY <2>1, <3>1 DEF TickInv, OnTime, InHours
  <2>3. tick.queue = {} /\ tick.closing = NoShop
    BY <2>1 DEF ScheduleFacts, TickInv
  <2>4. LateShopsExplained'
    BY <1>0, <2>1, <2>3 DEF ScheduleFacts, LateShopsExplained, InHours, Undecided
  <2> QED BY <2>2, <2>4
<1>2. CASE ScanCloses
  <2> DEFINE due == {s \in active \cap isOpen :
                      hours[s] # Unscheduled /\ (hours[s].close = tick.at \/ s \in pending)}
  <2>1. /\ tick.loop = "opens" /\ tick.queue = {} /\ tick.closing = NoShop
        /\ tick'.loop = "closes" /\ tick'.at = tick.at /\ tick'.queue = due
        /\ tick'.closing = NoShop /\ pending' = pending \cap due
        /\ UNCHANGED <<active, isOpen, hours, minute, swept, excused>>
    BY <1>0, <1>2 DEF ScanCloses, TickType, Resting, shops, clock
  <2>2. TickInv'
    BY <2>1 DEF TickInv
  <2>3. LateShopsExplained'
    <3> SUFFICES ASSUME NEW s \in active \cap isOpen, ~InHours(s, minute)
        PROVE  \/ s \in due \cup excused
               \/ minute = hours[s].close /\ ~swept
      BY <2>1 DEF LateShopsExplained, InHours, Undecided
    <3>1. hours[s] # Unscheduled
      BY <1>0, HoursPass DEF ScheduleFacts
    <3>2. \/ s \in pending \cup excused \/ tick.at = hours[s].close
          \/ minute = hours[s].close /\ ~swept
      BY <1>0, <2>1 DEF ScheduleFacts, LateShopsExplained, Undecided
    <3> QED BY <3>1, <3>2
  <2> QED BY <2>2, <2>3
<1>3. CASE ScheduledClose
  <2>1. /\ tick.closing # NoShop
        /\ tick'.loop = tick.loop /\ tick'.at = tick.at /\ tick'.queue = tick.queue
        /\ tick'.closing = NoShop /\ isOpen' = isOpen \ {tick.closing}
        /\ UNCHANGED <<active, hours, minute, swept, pending, excused>>
    BY <1>0, <1>3 DEF ScheduledClose, TickType, clock
  <2>2. tick.loop \notin {"none", "opens"}
    BY <2>1 DEF ScheduleFacts, TickInv
  <2>3. TickInv'
    BY <2>1, <2>2 DEF TickInv
  <2>4. LateShopsExplained'
    BY <1>0, <2>1 DEF ScheduleFacts, LateShopsExplained, InHours, Undecided
  <2> QED BY <2>3, <2>4
<1>4. CASE TickEnds
  <2>1. /\ tick.loop = "closes" /\ tick.queue = {} /\ tick.closing = NoShop
        /\ tick' = NoTick
        /\ UNCHANGED <<active, isOpen, hours, minute, swept, pending, excused>>
    BY <1>4 DEF TickEnds, Resting, shops, clock
  <2>2. TickInv'
    BY <2>1 DEF TickInv, NoTick
  <2>3. LateShopsExplained'
    BY <1>0, <2>1 DEF ScheduleFacts, LateShopsExplained, InHours, Undecided
  <2> QED BY <2>2, <2>3
<1>5. ASSUME NEW s \in Shops, ScheduledOpen(s) PROVE TickInv' /\ LateShopsExplained'
  <2>1. /\ tick.loop = "opens" /\ tick.closing = NoShop /\ s \in tick.queue
        /\ tick'.loop = "opens" /\ tick'.at = tick.at /\ tick'.queue = tick.queue \ {s}
        /\ tick'.closing = NoShop
        /\ isOpen' = isOpen \cup {s} /\ pending' = pending \ {s}
        /\ UNCHANGED <<active, hours, minute, swept, excused>>
    BY <1>0, <1>5 DEF ScheduledOpen, TickType, Resting, clock
  <2>2. TickInv'
    BY <2>1 DEF ScheduleFacts, TickInv, OnTime, InHours
  <2>4. OnTime(s)
    BY <2>1 DEF ScheduleFacts, TickInv
  <2>5. LateShopsExplained'
    <3> SUFFICES ASSUME NEW x \in active \cap (isOpen \cup {s}), ~InHours(x, minute)
        PROVE  \/ x \in pending' \cup excused
               \/ Undecided(x)'
               \/ minute = hours[x].close /\ ~swept
      BY <2>1 DEF LateShopsExplained, InHours
    <3>1. CASE x = s
      BY <2>4, <3>1 DEF OnTime
    <3>2. CASE x # s
      BY <2>1, <3>2 DEF ScheduleFacts, LateShopsExplained, Undecided
    <3> QED BY <3>1, <3>2
  <2> QED BY <2>2, <2>5
<1>6. ASSUME NEW s \in Shops, GuardClose(s) PROVE TickInv' /\ LateShopsExplained'
  <2>1. /\ tick.loop = "closes" /\ tick.closing = NoShop /\ s \in tick.queue
        /\ tick'.loop = "closes" /\ tick'.at = tick.at /\ tick'.queue = tick.queue \ {s}
        /\ tick'.closing = IF s \in busy THEN NoShop ELSE s
        /\ pending' = IF s \in busy THEN pending \cup {s} ELSE pending \ {s}
        /\ UNCHANGED <<active, isOpen, hours, minute, swept, excused>>
    BY <1>0, <1>6 DEF GuardClose, TickType, Resting, shops, clock
  <2>2. TickInv'
    BY <2>1 DEF TickInv
  <2>3. LateShopsExplained'
    <3> SUFFICES ASSUME NEW x \in active \cap isOpen, ~InHours(x, minute)
        PROVE  \/ x \in pending' \cup excused
               \/ Undecided(x)'
               \/ minute = hours[x].close /\ ~swept
      BY <2>1 DEF LateShopsExplained, InHours
    <3>1. CASE x = s
      BY <2>1, <3>1 DEF Undecided
    <3>2. CASE x # s
      BY <1>0, <2>1, <3>2 DEF ScheduleFacts, LateShopsExplained, Undecided
    <3> QED BY <3>1, <3>2
  <2> QED BY <2>2, <2>3
<1> QED BY <1>1, <1>2, <1>3, <1>4, <1>5, <1>6 DEF Tick

\* Requests and derivations,
LEMMA CallSchedule ==
  ASSUME ScheduleFacts,
         \/ \E c \in Calls : Request(c) \/ OwnerCloses(c) \/ AdminSetsBanner(c)
         \/ \E p \in Procs : Sync(p) \/ SyncFails(p)
  PROVE  TickInv' /\ LateShopsExplained'
<1>1. CASE \E c \in Calls : Request(c)
  <2> PICK c \in Calls : Request(c)
    BY <1>1
  <2>1. CASE \E s \in Shops : OwnerOpens(c, s)
    BY <2>1, ScheduleQuiet DEF OwnerOpens
  <2>2. CASE \E s \in Shops, on, open \in BOOLEAN : AdminSetsShop(c, s, on, open)
    <3> PICK s \in Shops, on \in BOOLEAN, open \in BOOLEAN : AdminSetsShop(c, s, on, open)
      BY <2>2
    <3>1. UNCHANGED <<clock, hours, tick, pending>> /\ excused' = excused \cup {s}
      BY DEF AdminSetsShop
    <3>2. \A x \in (active' \cap isOpen') \ (active \cap isOpen) : x = s
      BY DEF AdminSetsShop
    <3> QED BY <3>1, <3>2, ScheduleQuiet
  <2>3. CASE \/ \E r \in Riders, on \in BOOLEAN : SetOnline(c, r, on)
             \/ \E s \in Shops : OwnerAsksToClose(c, s)
             \/ \E on, open \in BOOLEAN : AdminSetsDelivery(c, on, open)
             \/ \E open \in BOOLEAN : AdminAsksBanner(c, open)
    BY <2>3, ScheduleQuiet
       DEF SetOnline, OwnerAsksToClose, AdminSetsDelivery, AdminAsksBanner, shops
  <2> QED BY <2>1, <2>2, <2>3 DEF Request
<1>2. CASE \E c \in Calls : OwnerCloses(c) \/ AdminSetsBanner(c)
  BY <1>2, ScheduleQuiet DEF OwnerCloses, AdminSetsBanner, shops
<1>3. CASE \E p \in Procs : Sync(p)
  BY <1>3, ScheduleQuiet
     DEF Sync, CountRiders, ReadDelivery, FlipDelivery, ReadGate, ShutArea, TallyShops, SetArea, shops
<1>4. CASE \E p \in Procs : SyncFails(p)
  BY <1>4, ScheduleQuiet DEF SyncFails, shops
<1> QED BY <1>1, <1>2, <1>3, <1>4

\* faults, which excuse what they lose, the clock, which excuses the closes that
\* pass without a tick, the orders and the edits of a schedule do too.
LEMMA OtherSchedule ==
  ASSUME ScheduleFacts,
         \/ TickFails \/ Restart \/ MinutePasses
         \/ \E s \in Shops : OrderAccepted(s) \/ OrderDone(s) \/ \E h \in Schedules : SetHours(s, h)
  PROVE  TickInv' /\ LateShopsExplained'
<1>0. /\ active \subseteq Shops /\ tick.queue \subseteq Shops
      /\ minute \in 0 .. Day /\ Day \in Nat
  BY ScheduleAssumption DEF ScheduleFacts, TypeOK, Minutes
<1>1. CASE TickFails
  <2>1. /\ tick' = NoTick /\ excused' = excused \cup {s \in Shops : Undecided(s)}
        /\ UNCHANGED <<active, isOpen, hours, minute, swept, pending>>
    BY <1>1 DEF TickFails, shops, clock
  <2>2. TickInv'
    BY <2>1 DEF TickInv, NoTick
  <2>3. LateShopsExplained'
    BY <1>0, <2>1 DEF ScheduleFacts, LateShopsExplained, InHours
  <2> QED BY <2>2, <2>3
<1>2. CASE Restart
  <2>1. /\ tick' = NoTick
        /\ excused' = excused \cup pending \cup {s \in Shops : Undecided(s)}
        /\ UNCHANGED <<active, isOpen, hours, minute, swept>>
    BY <1>2 DEF Restart, shops, clock
  <2>2. TickInv'
    BY <2>1 DEF TickInv, NoTick
  <2>3. LateShopsExplained'
    BY <1>0, <2>1 DEF ScheduleFacts, LateShopsExplained, InHours
  <2> QED BY <2>2, <2>3
<1>3. CASE MinutePasses
  <2>1. /\ minute' = NextMinute(minute) /\ ~swept' /\ minute \in Minutes
        /\ excused' = (excused \cup Missed) \ {s \in Shops : hours[s].close = minute'}
        /\ UNCHANGED <<active, isOpen, hours, tick, pending>>
    BY <1>0, <1>3 DEF MinutePasses, ClockStrikes, NextMinute, shops, Minutes
  <2>2. ASSUME NEW s \in Shops, InHours(s, minute) PROVE OnTime(s)'
    <3>1. InHours(s, minute') \/ hours[s].close = minute'
      BY <2>1, <2>2, HoursPass DEF ScheduleFacts
    <3> QED BY <2>1, <3>1 DEF OnTime, InHours
  <2>3. ASSUME NEW s \in Shops, s \in excused \cup Missed PROVE OnTime(s)'
    BY <2>1, <2>3 DEF OnTime
  <2>4. TickInv'
    <3>1. ASSUME NEW s \in tick.queue, tick.loop = "opens" PROVE OnTime(s)'
      <4>1. OnTime(s) /\ s \in Shops
        BY <1>0, <3>1 DEF ScheduleFacts, TickInv
      <4>2. minute = hours[s].close /\ ~swept => s \in Missed
        BY <3>1, <4>1 DEF Missed
      <4> QED BY <2>2, <2>3, <4>1, <4>2 DEF OnTime
    <3> QED BY <2>1, <3>1 DEF ScheduleFacts, TickInv
  <2>5. LateShopsExplained'
    <3> SUFFICES ASSUME NEW s \in active \cap isOpen
        PROVE  OnTime(s)' \/ s \in pending \/ Undecided(s)
      BY <2>1 DEF LateShopsExplained, OnTime, Undecided
    <3>1. CASE InHours(s, minute)
      BY <1>0, <2>2, <3>1
    <3>2. CASE minute = hours[s].close /\ ~swept
      BY <1>0, <2>3, <3>2 DEF Missed
    <3>3. CASE s \in pending \cup excused \/ Undecided(s)
      BY <1>0, <2>3, <3>3
    <3> QED BY <3>1, <3>2, <3>3 DEF ScheduleFacts, LateShopsExplained
  <2> QED BY <2>4, <2>5
<1>4. CASE \E s \in Shops : OrderAccepted(s) \/ OrderDone(s)
  BY <1>4, ScheduleQuiet DEF OrderAccepted, OrderDone
<1>5. CASE \E s \in Shops, h \in Schedules : SetHours(s, h)
  <2> PICK s \in Shops, h \in Schedules : SetHours(s, h)
    BY <1>5
  <2>1. /\ excused' = excused \cup {s} /\ \A x \in Shops \ {s} : hours'[x] = hours[x]
        /\ UNCHANGED <<active, isOpen, minute, swept, tick, pending>>
    BY DEF SetHours, clock, ScheduleFacts, TypeOK
  <2>2. ASSUME NEW x \in Shops \ {s}
        PROVE  /\ InHours(x, minute)' <=> InHours(x, minute)
               /\ OnTime(x)' <=> OnTime(x)
               /\ Undecided(x)' <=> Undecided(x)
               /\ hours'[x] = hours[x]
    <3>1. hours'[x] = hours[x]
      BY <2>1
    <3>2. InHours(x, minute)' <=> InHours(x, minute)
      BY <2>1, <3>1 DEF InHours
    <3>3. OnTime(x)' <=> OnTime(x)
      BY <2>1, <3>1, <3>2 DEF OnTime
    <3>4. Undecided(x)' <=> Undecided(x)
      BY <2>1, <3>1 DEF Undecided
    <3> QED BY <3>1, <3>2, <3>3, <3>4
  <2>3. TickInv'
    <3>1. OnTime(s)'
      BY <2>1 DEF OnTime
    <3>2. \A x \in Shops : OnTime(x) => OnTime(x)'
      BY <2>2, <3>1
    <3> QED BY <1>0, <2>1, <3>2 DEF ScheduleFacts, TickInv
  <2>4. LateShopsExplained'
    <3> SUFFICES ASSUME NEW x \in active \cap isOpen
        PROVE  OnTime(x)' \/ x \in pending \/ Undecided(x)'
      BY <2>1 DEF LateShopsExplained, OnTime
    <3>1. CASE x = s
      BY <2>1, <3>1 DEF OnTime
    <3>2. CASE x # s
      BY <1>0, <2>2, <3>2 DEF ScheduleFacts, LateShopsExplained, OnTime
    <3> QED BY <3>1, <3>2
  <2> QED BY <2>3, <2>4
<1> QED BY <1>1, <1>2, <1>3, <1>4, <1>5

----------------------------------------------------------------------------
(* The theorems.                                                           *)

\* It holds at the start
LEMMA InitInv == Init => IInv
<1> SUFFICES ASSUME Init PROVE IInv
  OBVIOUS
<1>1. TypeOK
  <2>1. faults \in 0 .. MaxFaults
    BY FaultsAssumption DEF Init
  <2>2. RestTypes
    BY <2>1, IdleTypes DEF Init, RestTypes
  <2>3. step \in [Procs -> Steps] /\ step[Sweeper] = "idle"
    BY DEF Init, Steps, Procs
  <2>4. seen \in [Procs -> BOOLEAN] /\ aim \in [Procs -> Aim]
    BY IdleTypes DEF Init
  <2>5. ProcTypes
    BY <2>3, <2>4 DEF Init, ProcTypes
  <2> QED BY <2>2, <2>5, TypesSplit
<1>2. \A p \in Procs : step[p] = "idle" /\ ~Syncing(p)
  BY DEF Init, Syncing, SyncSteps
<1>3. KindInv
  BY <1>2 DEF KindInv
<1>4. GatesAgree
  BY DEF Init, GatesAgree, DeliveryRight, ShopGateRight
<1>5. GateInv
  BY <1>2, <1>4 DEF GateInv, Sole, Init
<1>6. TickInv
  BY DEF Init, TickInv, NoTick
<1>7. LateShopsExplained
  BY DEF Init, LateShopsExplained
<1> QED BY <1>1, <1>3, <1>5, <1>6, <1>7 DEF IInv

\* and every step keeps it.
LEMMA StepInv == IInv /\ [Next]_vars => IInv'
<1> SUFFICES ASSUME IInv, [Next]_vars PROVE IInv'
  OBVIOUS
<1>0. GateFacts /\ ScheduleFacts /\ TypeOK /\ KindInv
  BY DEF IInv, GateFacts, ScheduleFacts
<1>1. CASE \E c \in Calls : Request(c) \/ OwnerCloses(c) \/ AdminSetsBanner(c)
  BY <1>0, <1>1, RequestTypes, RequestGates, CallSchedule DEF IInv
<1>2. CASE \E p \in Procs : Sync(p)
  BY <1>0, <1>2, SyncTypes, SyncGates, CallSchedule DEF IInv
<1>3. CASE \E p \in Procs : SyncFails(p)
  BY <1>0, <1>3, OtherTypes, FaultGates, CallSchedule DEF IInv
<1>4. CASE Tick
  BY <1>0, <1>4, TickTypes, TickGates, TickSchedule DEF IInv
<1>5. CASE TickFails \/ Restart
  BY <1>0, <1>5, OtherTypes, FaultGates, OtherSchedule DEF IInv
<1>6. CASE \/ MinutePasses
           \/ \E s \in Shops : OrderAccepted(s) \/ OrderDone(s) \/ \E h \in Schedules : SetHours(s, h)
  BY <1>0, <1>6, OtherTypes, SurroundingGates, OtherSchedule DEF IInv
<1>7. CASE UNCHANGED vars
  <2>1. TypeOK'
    BY <1>0, <1>7 DEF TypeOK, vars, shops, gates, clock, history
  <2>2. KindInv' /\ GateInv'
    BY <1>0, <1>7, GatesQuiet DEF vars, shops
  <2>3. TickInv' /\ LateShopsExplained'
    BY <1>0, <1>7, ScheduleQuiet DEF vars, shops
  <2> QED BY <2>1, <2>2, <2>3 DEF IInv
<1> QED BY <1>1, <1>2, <1>3, <1>4, <1>5, <1>6, <1>7 DEF Next

\* The inductive invariant: types, what each derivation has established when
\* it runs alone, and what explains a shop open after hours.
THEOREM AreaInvariant == Spec => []IInv
<1> QED BY InitInv, StepInv, PTL DEF Spec

\* Every variable keeps its type.
THEOREM AreaTypes == Spec => []TypeOK
<1>1. IInv => TypeOK
  BY DEF IInv
<1> QED BY <1>1, AreaInvariant, PTL

\* A gate at rest is right unless overlapping calls, a failure or an admin's
\* hand spoilt it since the last undisturbed derivation.
THEOREM GatesStayRight == Spec => []GatesAgree
<1>1. IInv => GatesAgree
  BY DEF IInv, GateInv
<1> QED BY <1>1, AreaInvariant, PTL

\* For any schedules and edits of them: a scheduled close is lost only to a
\* fault, to a minute without a tick, or to a person's hand.
THEOREM ClosesAreKept == Spec => []LateShopsExplained
<1>1. IInv => LateShopsExplained
  BY DEF IInv
<1> QED BY <1>1, AreaInvariant, PTL
=============================================================================
