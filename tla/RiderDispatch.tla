---------------------------- MODULE RiderDispatch ----------------------------
(***************************************************************************)
(* The rider auto-assignment engine, services/riderAssignment.js.          *)
(*                                                                         *)
(* Every SQL statement or transaction is one atomic action.  An engine     *)
(* call (continueAssignment, failAssignment, ...) is a task that takes one *)
(* action per awaited statement, so two calls on one order, or on one      *)
(* rider, interleave at every await.  A task may die between two           *)
(* statements: a failed query or the process going down.                   *)
(*                                                                         *)
(* Order statuses Accepted and Preparing are one status here: no statement *)
(* of the engine tells them apart.  All orders and riders are of one area. *)
(*                                                                         *)
(* StuckSearching, NoOfferForgets and the like, each set before the        *)
(* definition it loosens, are slips a property has to notice: nothing uses *)
(* them.                                                                   *)
(***************************************************************************)
EXTENDS Naturals, FiniteSets

CONSTANTS
  Orders,             \* rows of orders
  Riders,             \* rows of riders with active = 1
  NoRider,            \* SQL NULL in orders.rider_id
  NoOrder,            \* the order of an idle task
  Sweeper,            \* the serial tick loop of riderOfferSweeper
  Handlers,           \* HTTP handlers and detached calls running at a time (bound)
  RiderCap,           \* riders.max_active_orders
  OfferRiderAttempts, \* OFFER_RIDER_ATTEMPTS
  ReassignTargets,    \* riders an admin may force onto an order (bound)
  Reopenable,         \* orders an admin may reopen once cancelled (bound)
  Toggling,           \* riders who go online and offline during a run (bound)
  Ageing,             \* orders that grow old during a run (bound)
  Reached             \* statuses orders move to during a run (bound)

Tasks == {Sweeper} \cup Handlers

ASSUME RidersAssumption == IsFiniteSet(Riders) /\ NoRider \notin Riders
ASSUME OrdersAssumption == IsFiniteSet(Orders) /\ NoOrder \notin Orders
ASSUME TasksAssumption  == IsFiniteSet(Handlers) /\ Sweeper \notin Handlers
ASSUME BoundsAssumption ==
  /\ RiderCap \in Nat \ {0}
  /\ OfferRiderAttempts \in Nat \ {0}
  /\ ReassignTargets \subseteq Riders
  /\ Reopenable \subseteq Orders
  /\ Toggling \subseteq Riders
  /\ Ageing \subseteq Orders

VARIABLES
  status,      \* orders.status
  rider,       \* orders.rider_id
  assignment,  \* orders.rider_assignment_status
  search,      \* orders.rider_search_started_at against the search window
  offer,       \* rider_order_offers, unique on (order_id, rider_id)
  recent,      \* orders created within RIDER_CAPACITY_LOOKBACK_MIN
  online,      \* riders with is_online = 1
  alerted,     \* orders with an admin_notifications row about a failed search
  task         \* the running engine calls

rows == <<status, rider, assignment, search, offer>>
vars == <<rows, recent, online, alerted, task>>

Status     == {"Pending", "Accepted", "Out for Delivery", "Delivered", "Cancelled"}
Assignment == {"none", "searching", "offered", "assigned", "failed"}
\* "closed": the stamp is more than RIDER_SEARCH_WINDOW_SEC ago
Search     == {"unset", "open", "closed"}
\* "lapsed": a row still 'pending' whose expires_at has passed
OfferState == {"none", "pending", "lapsed", "accepted", "rejected", "expired", "cancelled"}
PC         == {"idle", "start", "load", "pending", "excluded", "eligible", "mark",
               "insert", "window", "stamp", "reread", "failLoad", "failTerminal", "failMark",
               "failRevoke", "failNotify", "revoke", "reassignRevoke", "reassignInsert"}

\* pool: candidates left; excl: riders with an offer row when last read;
\* call: continueAssignment or startAssignment.
Task == [pc : PC, order : Orders \cup {NoOrder}, pool : SUBSET Riders,
         excl : SUBSET Riders, tries : 0 .. OfferRiderAttempts,
         call : {"start", "continue"}, target : Riders \cup {NoRider}]

Idle == [pc |-> "idle", order |-> NoOrder, pool |-> {}, excl |-> {},
         tries |-> 0, call |-> "start", target |-> NoRider]

TypeOK ==
  /\ status \in [Orders -> Status]
  /\ rider \in [Orders -> Riders \cup {NoRider}]
  /\ assignment \in [Orders -> Assignment]
  /\ search \in [Orders -> Search]
  /\ offer \in [Orders -> [Riders -> OfferState]]
  /\ recent \subseteq Orders
  /\ online \subseteq Riders
  /\ alerted \subseteq Orders
  /\ task \in [Tasks -> Task]
  /\ \A t \in Tasks : task[t].pc # "idle" => task[t].order \in Orders
  /\ \A t \in Tasks : task[t].pc \in {"reassignRevoke", "reassignInsert"}
                       => task[t].target \in Riders

-----------------------------------------------------------------------------
(* What the queries read                                                   *)

Terminal(o)    == status[o] \in {"Delivered", "Cancelled"}
Open(o, r)     == offer[o][r] \in {"pending", "lapsed"}
HasOpenOffer(o) == \E r \in Riders : Open(o, r)
Asked(o)       == {r \in Riders : offer[o][r] # "none"}
ActiveOrders(r) == {o \in Orders : rider[o] = r /\ ~Terminal(o) /\ o \in recent}

\* listEligibleRiders: online, no pending offer anywhere, and below the cap, for
\* which an order counts only while it is recent.
EligibleUncapped(excl) == {r \in online \ excl : \A o \in Orders : ~Open(o, r)}
Eligible(excl) ==
  {r \in online \ excl : /\ \A o \in Orders : ~Open(o, r)
                         /\ Cardinality(ActiveOrders(r)) < RiderCap}

\* The WHERE clause shared by markSearching and failAssignment.
Searchable(o) == rider[o] = NoRider /\ ~Terminal(o)

\* expireDueOffers: every offer past its time, whatever became of its order.
OverdueInPlay(o, r) == offer[o][r] = "lapsed" /\ Searchable(o)
Overdue(o, r)       == offer[o][r] = "lapsed"

\* hasLiveDispatch / recoverStuckAssignments: searching, and nobody is asked.
StuckSearching(o) ==
  /\ assignment[o] = "searching"
  /\ Searchable(o)
  /\ ~HasOpenOffer(o)
Stuck(o) ==
  /\ assignment[o] \in {"searching", "offered"}
  /\ Searchable(o)
  /\ ~HasOpenOffer(o)

\* createOfferAttempt: the row lock's recheck, then the three unique keys.
AssignableUnread(o) == ~Terminal(o)
Assignable(o)       == ~Terminal(o) /\ rider[o] = NoRider
OrderKeyPending(o, r) == ~HasOpenOffer(o)
OrderKeysFree(o, r) == offer[o][r] = "none" /\ ~HasOpenOffer(o)
RiderKeyAbsent(r)   == TRUE
RiderKeyFree(r)     == \A o \in Orders : ~Open(o, r)
CanInsert(o, r)     == Assignable(o) /\ OrderKeysFree(o, r) /\ RiderKeyFree(r)

-----------------------------------------------------------------------------
(* What the statements write                                               *)

MarkSearchingAlways(o) ==
  /\ assignment' = [assignment EXCEPT ![o] = "searching"]
  /\ search' = [search EXCEPT ![o] = IF @ = "unset" THEN "open" ELSE @]
MarkSearching(o) ==
  /\ assignment' = [assignment EXCEPT ![o] = IF Searchable(o) THEN "searching" ELSE @]
  /\ search' = [search EXCEPT ![o] = IF Searchable(o) /\ @ = "unset" THEN "open" ELSE @]

RevokeOpenOffers(o) ==
  offer' = [offer EXCEPT ![o] =
              [r \in Riders |-> IF Open(o, r) THEN "cancelled" ELSE offer[o][r]]]

SetOffer(o, r, s) == offer' = [offer EXCEPT ![o][r] = s]

InsertOffer(o, r) ==
  /\ SetOffer(o, r, "pending")
  /\ assignment' = [assignment EXCEPT ![o] = "offered"]

Fresh(pc, o) ==
  [pc |-> pc, order |-> o, pool |-> {}, excl |-> {}, tries |-> 0,
   call |-> IF pc = "load" THEN "continue" ELSE "start", target |-> NoRider]
Begin(t, pc, o) ==
  /\ task[t].pc = "idle"
  /\ task' = [task EXCEPT ![t] = Fresh(pc, o)]
Goto(t, pc) == task' = [task EXCEPT ![t].pc = pc]
Finish(t)   == task' = [task EXCEPT ![t] = Idle]
At(t, pc)   == task[t].pc = pc

-----------------------------------------------------------------------------
(* startAssignment: one transaction, then the search for a rider           *)

\* Called when a house-only order is accepted or the last shop has decided;
\* the call is not persisted.
CallStart(t, o) ==
  /\ status[o] = "Accepted"
  /\ Begin(t, "start", o)
  /\ UNCHANGED <<rows, recent, online, alerted>>

StartAssignment(t) ==
  /\ At(t, "start")
  /\ LET o == task[t].order IN
     IF Searchable(o) /\ assignment[o] = "none"
     THEN /\ assignment' = [assignment EXCEPT ![o] = "searching"]
          /\ search' = [search EXCEPT ![o] = IF @ = "unset" THEN "open" ELSE @]
          /\ Goto(t, "excluded")
     ELSE /\ Finish(t)
          /\ UNCHANGED <<assignment, search>>
  /\ UNCHANGED <<status, rider, offer, recent, online, alerted>>

-----------------------------------------------------------------------------
(* continueAssignment and offerBestEligibleRider                           *)

ContinueLoad(t) ==
  /\ At(t, "load")
  /\ IF Searchable(task[t].order) THEN Goto(t, "pending") ELSE Finish(t)
  /\ UNCHANGED <<rows, recent, online, alerted>>

ContinuePending(t) ==
  /\ At(t, "pending")
  /\ IF HasOpenOffer(task[t].order) THEN Finish(t) ELSE Goto(t, "excluded")
  /\ UNCHANGED <<rows, recent, online, alerted>>

ReadExcluded(t) ==
  /\ At(t, "excluded")
  /\ task' = [task EXCEPT ![t].pc = "eligible", ![t].excl = Asked(task[t].order)]
  /\ UNCHANGED <<rows, recent, online, alerted>>

\* No offer made: continueAssignment waits or fails, startAssignment waits.
NoOfferForgets(t) ==
  IF task[t].call = "continue"
  THEN task' = [task EXCEPT ![t] = Fresh("window", NoOrder)]
  ELSE Finish(t)
NoOffer(t) ==
  IF task[t].call = "continue"
  THEN task' = [task EXCEPT ![t] = Fresh("window", task[t].order)]
  ELSE Finish(t)

ReadEligible(t) ==
  /\ At(t, "eligible")
  /\ LET pool == Eligible(task[t].excl) IN
     IF pool = {}
     THEN NoOffer(t)
     ELSE task' = [task EXCEPT ![t].pool = pool, ![t].excl = {},
                               ![t].pc = IF task[t].call = "continue" THEN "mark" ELSE "insert"]
  /\ UNCHANGED <<rows, recent, online, alerted>>

MarkBeforeOffer(t) ==
  /\ At(t, "mark")
  /\ MarkSearching(task[t].order)
  /\ Goto(t, "insert")
  /\ UNCHANGED <<status, rider, offer, recent, online, alerted>>

\* selectEligibleRider picks by distance, load and chance: any of the pool.
CreateOffer(t, r) ==
  /\ At(t, "insert")
  /\ r \in task[t].pool
  /\ CanInsert(task[t].order, r)
  /\ InsertOffer(task[t].order, r)
  /\ Finish(t)
  /\ UNCHANGED <<status, rider, search, recent, online, alerted>>

\* Another order's dispatch won this rider: step to the next candidate.
RiderTaken(t, r) ==
  /\ At(t, "insert")
  /\ r \in task[t].pool
  /\ Assignable(task[t].order)
  /\ OrderKeysFree(task[t].order, r)
  /\ ~RiderKeyFree(r)
  /\ LET left  == task[t].pool \ {r}
         tried == task[t].tries + 1
     IN IF left # {} /\ tried < OfferRiderAttempts
        THEN task' = [task EXCEPT ![t].pool = left, ![t].tries = tried]
        ELSE NoOffer(t)
  /\ UNCHANGED <<rows, recent, online, alerted>>

\* Any other conflict ends the walk.
OrderConflict(t, r) ==
  /\ At(t, "insert")
  /\ r \in task[t].pool
  /\ ~(Assignable(task[t].order) /\ OrderKeysFree(task[t].order, r))
  /\ NoOffer(t)
  /\ UNCHANGED <<rows, recent, online, alerted>>

-----------------------------------------------------------------------------
(* waitOrFailNoEligible and failAssignment                                 *)

\* isWithinSearchWindow: a missing stamp is written, and the window read again.
CheckWindow(t) ==
  /\ At(t, "window")
  /\ CASE search[task[t].order] = "open"   -> Finish(t)
       [] search[task[t].order] = "closed" -> Goto(t, "failLoad")
       [] search[task[t].order] = "unset"  -> Goto(t, "stamp")
  /\ UNCHANGED <<rows, recent, online, alerted>>

StampWindow(t) ==
  /\ At(t, "stamp")
  /\ MarkSearching(task[t].order)
  /\ Goto(t, "reread")
  /\ UNCHANGED <<status, rider, offer, recent, online, alerted>>

RecheckWindow(t) ==
  /\ At(t, "reread")
  /\ IF search[task[t].order] = "open" THEN Finish(t) ELSE Goto(t, "failLoad")
  /\ UNCHANGED <<rows, recent, online, alerted>>

FailLoad(t) ==
  /\ At(t, "failLoad")
  /\ LET o == task[t].order IN
     CASE Terminal(o)   -> Goto(t, "failTerminal")
       [] Searchable(o) -> Goto(t, "failMark")
       [] OTHER         -> Finish(t)
  /\ UNCHANGED <<rows, recent, online, alerted>>

\* The order was read as terminal: this UPDATE has no further condition.
FailTerminal(t) ==
  /\ At(t, "failTerminal")
  /\ assignment' = [assignment EXCEPT ![task[t].order] = "failed"]
  /\ Finish(t)
  /\ UNCHANGED <<status, rider, search, offer, recent, online, alerted>>

FailMarkBlind(t) ==
  /\ At(t, "failMark")
  /\ assignment' = [assignment EXCEPT ![task[t].order] = "failed"]
  /\ rider' = [rider EXCEPT ![task[t].order] = NoRider]
  /\ Goto(t, "failRevoke")
  /\ UNCHANGED <<status, search, offer, recent, online, alerted>>
FailMark(t) ==
  /\ At(t, "failMark")
  /\ LET o == task[t].order IN
     IF Searchable(o)
     THEN /\ assignment' = [assignment EXCEPT ![o] = "failed"]
          /\ rider' = [rider EXCEPT ![o] = NoRider]
     ELSE UNCHANGED <<assignment, rider>>
  /\ Goto(t, "failRevoke")
  /\ UNCHANGED <<status, search, offer, recent, online, alerted>>

FailRevoke(t) ==
  /\ At(t, "failRevoke")
  /\ RevokeOpenOffers(task[t].order)
  /\ Goto(t, "failNotify")
  /\ UNCHANGED <<status, rider, assignment, search, recent, online, alerted>>

\* createAdminNotification; the sockets and pushes after it are best effort.
FailNotify(t) ==
  /\ At(t, "failNotify")
  /\ alerted' = alerted \cup {task[t].order}
  /\ Finish(t)
  /\ UNCHANGED <<rows, recent, online>>

-----------------------------------------------------------------------------
(* The rider answers                                                       *)

AcceptOffer(o, r) ==
  /\ offer[o][r] = "pending"
  /\ Assignable(o)
  /\ SetOffer(o, r, "accepted")
  /\ rider' = [rider EXCEPT ![o] = r]
  /\ assignment' = [assignment EXCEPT ![o] = "assigned"]
  /\ UNCHANGED <<status, search, recent, online, alerted, task>>

\* Past expires_at: expired instead, and the chain goes on in a detached call.
AcceptExpired(t, o, r) ==
  /\ offer[o][r] = "lapsed"
  /\ SetOffer(o, r, "expired")
  /\ Begin(t, "load", o)
  /\ UNCHANGED <<status, rider, assignment, search, recent, online, alerted>>

\* The order left play meanwhile: the offer is cancelled.
AcceptUnassignable(o, r) ==
  /\ offer[o][r] = "pending"
  /\ ~Assignable(o)
  /\ SetOffer(o, r, "cancelled")
  /\ UNCHANGED <<status, rider, assignment, search, recent, online, alerted, task>>

RejectOffer(t, o, r) ==
  /\ Open(o, r)
  /\ SetOffer(o, r, "rejected")
  /\ Begin(t, "load", o)
  /\ UNCHANGED <<status, rider, assignment, search, recent, online, alerted>>

-----------------------------------------------------------------------------
(* The sweeper                                                             *)

ExpireOffer(o, r) ==
  /\ Overdue(o, r)
  /\ SetOffer(o, r, "expired")
  /\ Begin(Sweeper, "load", o)
  /\ UNCHANGED <<status, rider, assignment, search, recent, online, alerted>>

\* recoverStuckAssignments, from a tick or from an admin setting a rider
\* online.  With nobody online only the window is checked.
RecoverStuck(t, o) ==
  /\ Stuck(o)
  /\ IF online # {}
     THEN Begin(t, "load", o)
     ELSE Begin(t, "window", o)
  /\ UNCHANGED <<rows, recent, online, alerted>>

-----------------------------------------------------------------------------
(* Admin overrides                                                         *)

ReassignRider(t, o, r) ==
  /\ status[o] \notin {"Out for Delivery", "Delivered", "Cancelled"}
  /\ ~(rider[o] = r /\ assignment[o] = "assigned")
  /\ At(t, "idle")
  /\ rider' = [rider EXCEPT ![o] = NoRider]
  /\ assignment' = [assignment EXCEPT ![o] = "searching"]
  /\ SetOffer(o, r, "none")
  /\ task' = [task EXCEPT ![t] = [Fresh("reassignRevoke", o) EXCEPT !.target = r]]
  /\ UNCHANGED <<status, search, recent, online, alerted>>

ReassignRevoke(t) ==
  /\ At(t, "reassignRevoke")
  /\ RevokeOpenOffers(task[t].order)
  /\ Goto(t, "reassignInsert")
  /\ UNCHANGED <<status, rider, assignment, search, recent, online, alerted>>

\* A conflict is answered with 409 and leaves the order searching.
ReassignInsert(t) ==
  /\ At(t, "reassignInsert")
  /\ IF CanInsert(task[t].order, task[t].target)
     THEN InsertOffer(task[t].order, task[t].target)
     ELSE UNCHANGED <<offer, assignment>>
  /\ Finish(t)
  /\ UNCHANGED <<status, rider, search, recent, online, alerted>>

RevokeOffers(t) ==
  /\ At(t, "revoke")
  /\ RevokeOpenOffers(task[t].order)
  /\ Finish(t)
  /\ UNCHANGED <<status, rider, assignment, search, recent, online, alerted>>

-----------------------------------------------------------------------------
(* The order's own life, as far as the engine sees it                      *)

Later(s) == CASE s = "Pending" -> {"Accepted", "Out for Delivery", "Delivered"}
              [] s = "Accepted" -> {"Out for Delivery", "Delivered"}
              [] s = "Out for Delivery" -> {"Delivered"}
              [] OTHER -> {}

\* Auto-accept, admin and rider move an order forward only.
AdvanceStatus(o, s) ==
  /\ s \in Later(status[o]) \cap Reached
  /\ status' = [status EXCEPT ![o] = s]
  /\ UNCHANGED <<rider, assignment, search, offer, recent, online, alerted, task>>

\* Cancelling a live dispatch revokes its offers in a detached call.
CancelOrder(t, o) ==
  /\ status[o] = "Accepted"
  /\ "Cancelled" \in Reached
  /\ status' = [status EXCEPT ![o] = "Cancelled"]
  /\ Begin(t, "revoke", o)
  /\ UNCHANGED <<rider, assignment, search, offer, recent, online, alerted>>

\* From Pending or Out for Delivery nothing is revoked.
CancelQuietly(o) ==
  /\ status[o] \in {"Pending", "Out for Delivery"}
  /\ "Cancelled" \in Reached
  /\ status' = [status EXCEPT ![o] = "Cancelled"]
  /\ UNCHANGED <<rider, assignment, search, offer, recent, online, alerted, task>>

ReopenOrder(t, o) ==
  /\ status[o] = "Cancelled"
  /\ status' = [status EXCEPT ![o] = "Pending"]
  /\ rider' = [rider EXCEPT ![o] = NoRider]
  /\ assignment' = [assignment EXCEPT ![o] = "none"]
  /\ search' = [search EXCEPT ![o] = "unset"]
  /\ Begin(t, "revoke", o)
  /\ UNCHANGED <<offer, recent, online, alerted>>

-----------------------------------------------------------------------------
(* Riders, time and failures                                               *)

SetOnline(r) ==
  /\ online' = IF r \in online THEN online \ {r} ELSE online \cup {r}
  /\ UNCHANGED <<rows, recent, alerted, task>>

OfferLapses(o, r) ==
  /\ offer[o][r] = "pending"
  /\ SetOffer(o, r, "lapsed")
  /\ UNCHANGED <<status, rider, assignment, search, recent, online, alerted, task>>

WindowCloses(o) ==
  /\ search[o] = "open"
  /\ search' = [search EXCEPT ![o] = "closed"]
  /\ UNCHANGED <<status, rider, assignment, offer, recent, online, alerted, task>>

\* An order is older than the look-back: it takes no rider's place any more.
\* Nothing reads the age of an order that has no rider, so it is found old once
\* it has one.
OrderAges(o) ==
  /\ o \in recent
  /\ rider[o] # NoRider
  /\ recent' = recent \ {o}
  /\ UNCHANGED <<rows, online, alerted, task>>

\* A query throws (createOffer out of lock retries among them), or the process
\* dies: what is committed stays, the rest of the call is gone.
Abort(t) ==
  /\ ~At(t, "idle")
  /\ Finish(t)
  /\ UNCHANGED <<rows, recent, online, alerted>>

-----------------------------------------------------------------------------
Init ==
  /\ status = [o \in Orders |-> "Pending"]
  /\ rider = [o \in Orders |-> NoRider]
  /\ assignment = [o \in Orders |-> "none"]
  /\ search = [o \in Orders |-> "unset"]
  /\ offer = [o \in Orders |-> [r \in Riders |-> "none"]]
  /\ recent = Orders
  /\ online \in SUBSET Riders
  /\ alerted = {}
  /\ task = [t \in Tasks |-> Idle]

\* The next awaited statement of a running call.
EngineStep(t) ==
  \/ StartAssignment(t)
  \/ ContinueLoad(t)
  \/ ContinuePending(t)
  \/ ReadExcluded(t)
  \/ ReadEligible(t)
  \/ MarkBeforeOffer(t)
  \/ \E r \in Riders : CreateOffer(t, r) \/ RiderTaken(t, r) \/ OrderConflict(t, r)
  \/ CheckWindow(t)
  \/ StampWindow(t)
  \/ RecheckWindow(t)
  \/ FailLoad(t)
  \/ FailTerminal(t)
  \/ FailMark(t)
  \/ FailRevoke(t)
  \/ FailNotify(t)
  \/ ReassignRevoke(t)
  \/ ReassignInsert(t)
  \/ RevokeOffers(t)

RiderAnswers ==
  \E o \in Orders, r \in Riders :
     \/ AcceptOffer(o, r)
     \/ AcceptUnassignable(o, r)
     \/ \E t \in Handlers : AcceptExpired(t, o, r) \/ RejectOffer(t, o, r)

SweeperTick ==
  \E o \in Orders :
     \/ RecoverStuck(Sweeper, o)
     \/ \E r \in Riders : ExpireOffer(o, r)

\* Calls that start from outside the engine.
Calls ==
  \E t \in Handlers, o \in Orders :
     \/ CallStart(t, o)
     \/ RecoverStuck(t, o)
     \/ CancelOrder(t, o)
     \/ o \in Reopenable /\ ReopenOrder(t, o)
     \/ \E r \in ReassignTargets : ReassignRider(t, o, r)

OrderMoves ==
  \E o \in Orders : CancelQuietly(o) \/ \E s \in Status : AdvanceStatus(o, s)

TimePasses ==
  \/ \E o \in Orders : WindowCloses(o) \/ \E r \in Riders : OfferLapses(o, r)
  \/ \E o \in Ageing : OrderAges(o)

Next ==
  \/ \E t \in Tasks : EngineStep(t) \/ Abort(t)
  \/ RiderAnswers
  \/ SweeperTick
  \/ Calls
  \/ OrderMoves
  \/ TimePasses
  \/ \E r \in Toggling : SetOnline(r)

Spec == Init /\ [][Next]_vars

\* The event loop runs every pending continuation and clocks run.  A tick of
\* the sweeper takes up every order that stays stuck and every offer that stays
\* overdue, however often the sweeper is busy with others meanwhile.
Fairness ==
  /\ \A t \in Tasks : WF_vars(EngineStep(t))
  /\ \A o \in Orders :
        /\ WF_vars(WindowCloses(o))
        /\ []<>~Stuck(o) \/ []<><<RecoverStuck(Sweeper, o)>>_vars
  /\ \A o \in Orders, r \in Riders :
        /\ WF_vars(OfferLapses(o, r))
        /\ []<>~Overdue(o, r) \/ []<><<ExpireOffer(o, r)>>_vars

\* Calls do not die for ever (an Abort that no completed call could be), and an
\* admin does not reassign for ever.
EventuallyQuiet ==
  <>[][/\ \A t \in Tasks : Abort(t) => EngineStep(t)
       /\ \A t \in Handlers, o \in Orders, r \in ReassignTargets :
             ~ReassignRider(t, o, r)]_vars

FairSpec == Spec /\ Fairness /\ EventuallyQuiet

-----------------------------------------------------------------------------
(* Safety                                                                  *)

\* createOfferAttempt, uq_offer_pending_order and uq_offer_pending_rider: under
\* any number of concurrent dispatches an order asks one rider at a time and a
\* rider has one popup at a time.
OneOpenOffer ==
  /\ \A o \in Orders : \A r1, r2 \in Riders : Open(o, r1) /\ Open(o, r2) => r1 = r2
  /\ \A r \in Riders : \A o1, o2 \in Orders : Open(o1, r) /\ Open(o2, r) => o1 = o2

\* acceptOffer against createOffer, reassignRider and the revokes: an order's
\* rider is one who accepted it, and nobody else is still being asked.
HolderAccepted ==
  \A o \in Orders : rider[o] # NoRider =>
     /\ offer[o][rider[o]] = "accepted"
     /\ ~HasOpenOffer(o)

\* A late markSearching, startAssignment or createOffer never puts an order
\* that has a rider back into the search, and 'assigned' always has a rider.
NoSearchWithHolder ==
  \A o \in Orders :
     /\ rider[o] # NoRider => assignment[o] \in {"assigned", "failed"}
     /\ assignment[o] = "assigned" => rider[o] # NoRider

\* Only the admin's reassign and reopen take an order from its rider; a
\* failAssignment that decided before the accept does not.
HolderKept ==
  [][\A o \in Orders : rider[o] # NoRider /\ rider'[o] # rider[o] =>
        \/ \E t \in Handlers : ReopenOrder(t, o)
        \/ \E t \in Handlers, r \in ReassignTargets : ReassignRider(t, o, r)]_vars

\* listEligibleRiders counts a rider's orders in a SELECT of its own, before the
\* transaction that inserts the offer: the orders a rider has, the one he is
\* asked for and the calls that still hold him as a candidate go past the cap
\* by less than one for each call that can run, however the calls interleave.
\* Orders past the look-back are beside the cap, as the code means them to be,
\* and an admin's reassignment does not look at it.
AskedFor(r)    == {o \in Orders : Open(o, r)}
CandidateOf(r) == {t \in Tasks : r \in task[t].pool}
CapOvershoot ==
  \A r \in Riders \ ReassignTargets :
     Cardinality(ActiveOrders(r)) + Cardinality(AskedFor(r)) + Cardinality(CandidateOf(r))
       < RiderCap + Cardinality(Tasks)

\* The engine implements the hand-off contract.
OpenRider(o) == IF HasOpenOffer(o) THEN CHOOSE r \in Riders : Open(o, r) ELSE NoRider

Handoff == INSTANCE RiderHandoff WITH
  Nobody <- NoRider,
  holder <- rider,
  asking <- [o \in Orders |-> OpenRider(o)],
  asked  <- [o \in Orders |-> Asked(o)]

ImplementsHandoff == Handoff!Spec

-----------------------------------------------------------------------------
(* Liveness                                                                *)

\* recoverStuckAssignments: whatever call dies half way, a search ends: with a
\* rider, as failed, or because the order left play.
SearchSettles ==
  \A o \in Orders :
     Searchable(o) /\ assignment[o] \in {"searching", "offered"}
       ~> ~Searchable(o) \/ assignment[o] \in {"failed", "none"}

\* expireDueOffers: no popup stays open for ever, whatever happened to its
\* order, so its rider becomes free for other offers.
OfferResolves ==
  \A o \in Orders, r \in Riders : Open(o, r) ~> ~Open(o, r)

=============================================================================
