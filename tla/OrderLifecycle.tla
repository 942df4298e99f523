---------------------------- MODULE OrderLifecycle ----------------------------
(***************************************************************************)
(* One order's status and payment, moved by the customer, the admins, its  *)
(* rider, its shops and the in-memory auto-accept timer, none of which     *)
(* takes a lock the others take: each handler reads the row, decides, and  *)
(* writes with a compare-and-set on what it read.                          *)
(*                                                                         *)
(* A handler is a task with one action per awaited statement.  The API is  *)
(* one process: a restart loses every task and the timer, keeps the rows.  *)
(*                                                                         *)
(* ReopenStamped and the like, each set before the definition it loosens,  *)
(* are slips a property has to notice: nothing uses them.                  *)
(***************************************************************************)
EXTENDS Naturals

CONSTANTS
  Handlers,          \* HTTP requests about the order running at a time (bound)
  Timer,             \* the callback of the auto-accept timer
  Boot,              \* rehydratePendingOrders
  CancelledPayment,  \* getCancelledPaymentStatus of the order's payment method
  AdminTargets,      \* statuses an admin asks for during a run (bound)
  AdminPayments,     \* payment statuses an admin sets during a run (bound)
  Fallible           \* tasks one of whose statements may throw (bound)

Tasks == Handlers \cup {Timer, Boot}

Payment == {"Pending", "Paid", "Success", "Failed", "Refunded"}

\* "none": not committed by createOrder yet.
Status  == {"none", "Pending", "Accepted", "Preparing", "Out for Delivery",
            "Delivered", "Cancelled"}

ASSUME TasksAssumption ==
  /\ Timer \notin Handlers
  /\ Boot \notin Handlers
  /\ Timer # Boot
ASSUME BoundsAssumption ==
  /\ CancelledPayment \in {"Failed", "Refunded"}
  /\ AdminTargets \subseteq Status \ {"none"}
  /\ AdminPayments \subseteq Payment
  /\ Fallible \subseteq Tasks

VARIABLES
  status,    \* orders.status
  payment,   \* orders.payment_status
  stamped,   \* orders.accepted_at is set
  held,      \* orders.rider_id is the rider
  pickedUp,  \* orders.rider_picked_up_at is set
  quota,     \* coupon_redemptions.status of the order's coupons
  old,       \* created_at is at least ORDER_AUTO_ACCEPT_MS ago
  timer,     \* the entry in the maps timers and deadlines
  claimed,   \* the id is in claimedOrders
  lost,      \* a customer's cancel died before it released the coupons
  task       \* the running handlers

row  == <<status, payment, stamped, held, pickedUp, quota>>
mem  == <<timer, claimed>>
vars == <<row, old, mem, lost, task>>

\* "due": the deadline has passed, the callback has not run.
TimerState == {"off", "armed", "due"}
PC == {"idle", "schedule", "release", "cancel", "admin", "adminCancel", "reopen",
       "forward", "pay", "snooze", "riderPick", "riderMove", "riderPaid", "pickUp",
       "fire", "accept", "bootAccept", "bootSchedule", "boot"}

\* seen, paid: status and payment as read; to: the status or payment asked for.
Task == [pc : PC, seen : Status, paid : Payment, to : Status \cup Payment]
Idle == [pc |-> "idle", seen |-> "none", paid |-> "Pending", to |-> "none"]

TypeOK ==
  /\ status \in Status
  /\ payment \in Payment
  /\ stamped \in BOOLEAN
  /\ held \in BOOLEAN
  /\ pickedUp \in BOOLEAN
  /\ quota \in {"unused", "active", "cancelled"}
  /\ old \in BOOLEAN
  /\ timer \in TimerState
  /\ claimed \in BOOLEAN
  /\ lost \in BOOLEAN
  /\ task \in [Tasks -> Task]

At(t, pc)   == task[t].pc = pc
Goto(t, pc) == task' = [task EXCEPT ![t].pc = pc]
Finish(t)   == task' = [task EXCEPT ![t] = Idle]

\* The first statement of a handler has returned the row.  Of it is kept what
\* is used later: the payment when an order is delivered or its payment set.
Read(t, pc, seen, to) ==
  /\ At(t, "idle")
  /\ status # "none"
  /\ task' = [task EXCEPT ![t] =
       [pc |-> pc, seen |-> seen, to |-> to,
        paid |-> IF to = "Delivered" \/ pc = "pay" THEN payment ELSE "Pending"]]
ReadOnly(t, pc) == Read(t, pc, "none", "none")

Terminal(s) == s \in {"Delivered", "Cancelled"}

\* ORDER_STATUS_VALUES without 'Cancelled', in order.
Rank(s) == CASE s = "Pending" -> 1
             [] s = "Accepted" -> 2
             [] s = "Preparing" -> 3
             [] s = "Out for Delivery" -> 4
             [] s = "Delivered" -> 5
             [] OTHER -> 0

Cancelled == status' = "Cancelled" /\ payment' = CancelledPayment
ReleaseQuota == quota' = IF quota = "unused" THEN quota ELSE "cancelled"

\* orderAutoAccept.cancel and the maps' half of schedule.
Disarm == timer' = "off" /\ claimed' = FALSE
Arm    == timer' = "armed" /\ claimed' = TRUE

-----------------------------------------------------------------------------
(* Checkout and the auto-accept timer                                      *)

PlaceOrder(t) ==
  /\ status = "none"
  /\ At(t, "idle")
  /\ status' = "Pending"
  /\ quota' \in {"unused", "active"}
  /\ Goto(t, "schedule")
  /\ UNCHANGED <<payment, stamped, held, pickedUp, old, mem, lost>>

Schedule(t) ==
  /\ At(t, "schedule")
  /\ Arm
  /\ Finish(t)
  /\ UNCHANGED <<row, old, lost>>

\* Only the event loop drops a fired timer, before anything is awaited.
Fire ==
  /\ timer = "due"
  /\ At(Timer, "idle")
  /\ timer' = "off"
  /\ Goto(Timer, "fire")
  /\ UNCHANGED <<row, old, claimed, lost>>

FireRead ==
  /\ At(Timer, "fire")
  /\ IF status = "Pending"
     THEN Goto(Timer, "accept") /\ UNCHANGED claimed
     ELSE Finish(Timer) /\ claimed' = FALSE
  /\ UNCHANGED <<row, old, timer, lost>>

\* acceptPendingOrder's compare-and-set.
AcceptPending ==
  /\ status' = IF status = "Pending" THEN "Accepted" ELSE status
  /\ stamped' = (stamped \/ status = "Pending")

FireAccept ==
  /\ At(Timer, "accept")
  /\ AcceptPending
  /\ claimed' = FALSE
  /\ Finish(Timer)
  /\ UNCHANGED <<payment, held, pickedUp, quota, old, timer, lost>>

\* extendAutoAccept: 400 once the timer is gone.
SnoozeRead(t) ==
  /\ status = "Pending"
  /\ ReadOnly(t, "snooze")
  /\ UNCHANGED <<row, old, mem, lost>>

SnoozeClears(t) ==
  /\ At(t, "snooze")
  /\ timer' = "off"
  /\ Finish(t)
  /\ UNCHANGED <<row, old, claimed, lost>>
Snooze(t) ==
  /\ At(t, "snooze")
  /\ timer' = IF timer = "off" THEN "off" ELSE "armed"
  /\ Finish(t)
  /\ UNCHANGED <<row, old, claimed, lost>>

\* age_sec is computed by the SELECT.
BootRead ==
  /\ At(Boot, "boot")
  /\ IF status = "Pending"
     THEN Goto(Boot, IF old THEN "bootAccept" ELSE "bootSchedule")
     ELSE Finish(Boot)
  /\ UNCHANGED <<row, old, mem, lost>>

BootAccept ==
  /\ At(Boot, "bootAccept")
  /\ IF claimed THEN UNCHANGED <<status, stamped>> ELSE AcceptPending
  /\ Finish(Boot)
  /\ UNCHANGED <<payment, held, pickedUp, quota, old, mem, lost>>

BootSchedule ==
  /\ At(Boot, "bootSchedule")
  /\ IF claimed THEN UNCHANGED mem ELSE Arm
  /\ Finish(Boot)
  /\ UNCHANGED <<row, old, lost>>

-----------------------------------------------------------------------------
(* The customer                                                            *)

CancelRead(t) ==
  /\ status = "Pending"
  /\ ReadOnly(t, "cancel")
  /\ UNCHANGED <<row, old, mem, lost>>

\* The coupons are released by statements of their own, after this one.  The
\* timer is left armed.
CustomerCancel(t) ==
  /\ At(t, "cancel")
  /\ IF status = "Pending"
     THEN Cancelled /\ Goto(t, "release")
     ELSE Finish(t) /\ UNCHANGED <<status, payment>>
  /\ UNCHANGED <<stamped, held, pickedUp, quota, old, mem, lost>>

CustomerRelease(t) ==
  /\ At(t, "release")
  /\ ReleaseQuota
  /\ Finish(t)
  /\ UNCHANGED <<status, payment, stamped, held, pickedUp, old, mem, lost>>

-----------------------------------------------------------------------------
(* updateOrderStatus                                                       *)

AdminRead(t, to) ==
  /\ Read(t, "admin", status, to)
  /\ UNCHANGED <<row, old, mem, lost>>

\* The validation after the read: where the request goes on, or a 400.
AdminRoute(seen, to) ==
  CASE seen = "Cancelled" /\ to = "Pending"         -> "reopen"
    [] ~Terminal(seen) /\ to = "Cancelled"          -> "adminCancel"
    [] ~Terminal(seen) /\ Rank(seen) < Rank(to)     -> "forward"
    [] OTHER                                        -> "idle"

\* The timer of an order read as Pending goes first, whatever follows.
AdminValidate(t) ==
  /\ At(t, "admin")
  /\ IF task[t].seen = "Pending" THEN Disarm ELSE UNCHANGED mem
  /\ LET next == AdminRoute(task[t].seen, task[t].to)
     IN IF next = "idle" THEN Finish(t) ELSE Goto(t, next)
  /\ UNCHANGED <<row, old, lost>>

\* One transaction with the coupons.
AdminCancel(t) ==
  /\ At(t, "adminCancel")
  /\ IF status = task[t].seen
     THEN Cancelled /\ ReleaseQuota
     ELSE UNCHANGED <<status, payment, quota>>
  /\ Finish(t)
  /\ UNCHANGED <<stamped, held, pickedUp, old, mem, lost>>

ReopenStamped(t) ==
  /\ At(t, "reopen")
  /\ IF status = "Cancelled"
     THEN /\ status' = "Pending"
          /\ payment' = "Pending"
          /\ held' = FALSE
          /\ quota' = IF quota = "cancelled" THEN "active" ELSE quota
     ELSE UNCHANGED <<status, payment, held, quota>>
  /\ Finish(t)
  /\ UNCHANGED <<stamped, pickedUp, old, mem, lost>>
ReopenOrder(t) ==
  /\ At(t, "reopen")
  /\ IF status = "Cancelled"
     THEN /\ status' = "Pending"
          /\ payment' = "Pending"
          /\ stamped' = FALSE
          /\ held' = FALSE
          /\ quota' = IF quota = "cancelled" THEN "active" ELSE quota
     ELSE UNCHANGED <<status, payment, stamped, held, quota>>
  /\ Finish(t)
  /\ UNCHANGED <<pickedUp, old, mem, lost>>

\* "Success" on delivery if the payment was Pending when the row was read.
SettlePayment(t) ==
  payment' = IF task[t].to = "Delivered" /\ task[t].paid = "Pending" THEN "Success" ELSE payment

AdminForward(t) ==
  /\ At(t, "forward")
  /\ IF status = task[t].seen
     THEN /\ status' = task[t].to
          /\ SettlePayment(t)
          /\ stamped' = (stamped \/ task[t].seen = "Pending")
     ELSE UNCHANGED <<status, payment, stamped>>
  /\ Finish(t)
  /\ UNCHANGED <<held, pickedUp, quota, old, mem, lost>>

-----------------------------------------------------------------------------
(* updateOrderPayment                                                      *)

AdminPaymentRead(t, p) ==
  /\ status # "Cancelled"
  /\ p # payment
  /\ Read(t, "pay", "none", p)
  /\ UNCHANGED <<row, old, mem, lost>>

\* The order may have been cancelled since: only the payment is compared.
AdminPayment(t) ==
  /\ At(t, "pay")
  /\ payment' = IF payment = task[t].paid THEN task[t].to ELSE payment
  /\ Finish(t)
  /\ UNCHANGED <<status, stamped, held, pickedUp, quota, old, mem, lost>>

-----------------------------------------------------------------------------
(* The rider, or an admin in the rider's place                             *)

RiderPickUpRead(t) ==
  /\ held
  /\ ~Terminal(status)
  /\ ~pickedUp
  /\ ReadOnly(t, "pickUp")
  /\ UNCHANGED <<row, old, mem, lost>>

RiderPickUp(t) ==
  /\ At(t, "pickUp")
  /\ pickedUp' = (pickedUp \/ held)
  /\ Finish(t)
  /\ UNCHANGED <<status, payment, stamped, held, quota, old, mem, lost>>

RiderRead(t, to) ==
  /\ to \in {"Out for Delivery", "Delivered"}
  /\ held
  /\ ~Terminal(status)
  /\ Rank(status) < Rank(to)
  /\ Read(t, IF to = "Out for Delivery" /\ ~pickedUp THEN "riderPick" ELSE "riderMove", status, to)
  /\ UNCHANGED <<row, old, mem, lost>>

\* This statement does not name the rider.
RiderAutoPick(t) ==
  /\ At(t, "riderPick")
  /\ pickedUp' = TRUE
  /\ Goto(t, "riderMove")
  /\ UNCHANGED <<status, payment, stamped, held, quota, old, mem, lost>>

RiderMoveStale(t) ==
  /\ At(t, "riderMove")
  /\ status' = task[t].to
  /\ SettlePayment(t)
  /\ Finish(t)
  /\ UNCHANGED <<stamped, held, pickedUp, quota, old, mem, lost>>
RiderMove(t) ==
  /\ At(t, "riderMove")
  /\ IF status = task[t].seen /\ held
     THEN status' = task[t].to /\ SettlePayment(t)
     ELSE UNCHANGED <<status, payment>>
  /\ Finish(t)
  /\ UNCHANGED <<stamped, held, pickedUp, quota, old, mem, lost>>

RiderPaidRead(t) ==
  /\ held
  /\ status # "Cancelled"
  /\ payment = "Pending"
  /\ ReadOnly(t, "riderPaid")
  /\ UNCHANGED <<row, old, mem, lost>>

RiderPaid(t) ==
  /\ At(t, "riderPaid")
  /\ payment' = IF payment = "Pending" /\ held THEN "Paid" ELSE payment
  /\ Finish(t)
  /\ UNCHANGED <<status, stamped, held, pickedUp, quota, old, mem, lost>>

-----------------------------------------------------------------------------
(* The shops and the rider engine, each under the order's row lock         *)

\* changeShopDecision: the first shop to confirm starts the preparation.
ShopConfirms ==
  /\ status = "Accepted"
  /\ status' = "Preparing"
  /\ UNCHANGED <<payment, stamped, held, pickedUp, quota, old, mem, lost, task>>

\* maybeAutoCancelOrderWhenAllShopsRejected: rechecked under the lock.
ShopsCancelKeepsQuota ==
  /\ status \in {"Accepted", "Preparing"}
  /\ Cancelled
  /\ UNCHANGED <<stamped, held, pickedUp, quota, old, mem, lost, task>>
ShopsCancel ==
  /\ status \in {"Accepted", "Preparing"}
  /\ Cancelled
  /\ ReleaseQuota
  /\ UNCHANGED <<stamped, held, pickedUp, old, mem, lost, task>>

\* acceptOffer: an admin can have offered a Pending order too.
RiderTakes ==
  /\ ~held
  /\ status # "none"
  /\ ~Terminal(status)
  /\ held' = TRUE
  /\ UNCHANGED <<status, payment, stamped, pickedUp, quota, old, mem, lost, task>>

\* reassignRider.
RiderLoses ==
  /\ held
  /\ status \in {"Pending", "Accepted", "Preparing"}
  /\ held' = FALSE
  /\ UNCHANGED <<status, payment, stamped, pickedUp, quota, old, mem, lost, task>>

-----------------------------------------------------------------------------
(* Time and failures                                                       *)

WindowEnds ==
  /\ status # "none"
  /\ ~old
  /\ old' = TRUE
  /\ UNCHANGED <<row, mem, lost, task>>

\* A deadline is never before the end of the order's own window.
TimerDue ==
  /\ timer = "armed"
  /\ old
  /\ timer' = "due"
  /\ UNCHANGED <<row, old, claimed, lost, task>>

\* A statement throws: the request is over.  fire() gives up its claim.
Abort(t) ==
  /\ t \in Fallible
  /\ ~At(t, "idle")
  /\ lost' = (lost \/ At(t, "release"))
  /\ claimed' = (claimed /\ t # Timer)
  /\ Finish(t)
  /\ UNCHANGED <<row, old, timer>>

\* The process goes down and comes up again.
RestartNoBoot ==
  /\ task' = [t \in Tasks |-> Idle]
  /\ timer' = "off"
  /\ claimed' = FALSE
  /\ lost' = (lost \/ \E t \in Handlers : At(t, "release"))
  /\ UNCHANGED <<row, old>>
Restart ==
  /\ task' = [t \in Tasks |-> IF t = Boot THEN [Idle EXCEPT !.pc = "boot"] ELSE Idle]
  /\ timer' = "off"
  /\ claimed' = FALSE
  /\ lost' = (lost \/ \E t \in Handlers : At(t, "release"))
  /\ UNCHANGED <<row, old>>

-----------------------------------------------------------------------------
Init ==
  /\ status = "none"
  /\ payment = "Pending"
  /\ stamped = FALSE
  /\ held = FALSE
  /\ pickedUp = FALSE
  /\ quota = "unused"
  /\ old = FALSE
  /\ timer = "off"
  /\ claimed = FALSE
  /\ lost = FALSE
  /\ task = [t \in Tasks |-> IF t = Boot THEN [Idle EXCEPT !.pc = "boot"] ELSE Idle]

Requests(t) ==
  \/ PlaceOrder(t)
  \/ CancelRead(t)
  \/ SnoozeRead(t)
  \/ RiderPickUpRead(t)
  \/ RiderPaidRead(t)
  \/ \E to \in AdminTargets : AdminRead(t, to)
  \/ \E p \in AdminPayments : AdminPaymentRead(t, p)
  \/ \E to \in Status : RiderRead(t, to)

HandlerStep(t) ==
  \/ Schedule(t)
  \/ CustomerCancel(t)
  \/ CustomerRelease(t)
  \/ Snooze(t)
  \/ AdminValidate(t)
  \/ AdminCancel(t)
  \/ ReopenOrder(t)
  \/ AdminForward(t)
  \/ AdminPayment(t)
  \/ RiderPickUp(t)
  \/ RiderAutoPick(t)
  \/ RiderMove(t)
  \/ RiderPaid(t)

TimerStep == FireRead \/ FireAccept
BootStep  == BootRead \/ BootAccept \/ BootSchedule

Others == ShopConfirms \/ ShopsCancel \/ RiderTakes \/ RiderLoses

Next ==
  \/ \E t \in Handlers : Requests(t) \/ HandlerStep(t)
  \/ Fire
  \/ TimerStep
  \/ BootStep
  \/ Others
  \/ WindowEnds
  \/ TimerDue
  \/ \E t \in Tasks : Abort(t)
  \/ Restart

Spec == Init /\ [][Next]_vars

\* The event loop runs every continuation and every due callback; clocks run.
Fairness ==
  /\ \A t \in Handlers : WF_vars(HandlerStep(t))
  /\ WF_vars(Fire) /\ WF_vars(TimerStep) /\ WF_vars(BootStep)
  /\ WF_vars(WindowEnds) /\ WF_vars(TimerDue)

\* Admins do not snooze an order for ever and the process stays up at last.
EventuallyQuiet == <>[][~Restart /\ \A t \in Handlers : ~SnoozeRead(t)]_vars

FairSpec == Spec /\ Fairness /\ EventuallyQuiet

-----------------------------------------------------------------------------
(* Properties                                                              *)

\* The compare-and-sets of every handler: whatever they read before, the order
\* only moves forward, is cancelled, or is reopened from Cancelled.  Delivered
\* is final.  It is what RiderDispatch assumes of the status.
StatusForward ==
  [][status' # status =>
       \/ status = "none" /\ status' = "Pending"
       \/ status = "Cancelled" /\ status' = "Pending"
       \/ status' = "Cancelled" /\ ~Terminal(status)
       \/ status # "Cancelled" /\ Rank(status) < Rank(status')]_vars

\* shopAlertSweeper times the shops from accepted_at: while they decide it is
\* the stamp of this acceptance, never missing and never of an earlier life.
ResponseClock ==
  /\ status \in {"Accepted", "Preparing"} => stamped
  /\ status \in {"none", "Pending"} => ~stamped

\* A cancelled order gives its coupons back, whoever cancelled it, unless the
\* customer's request died between its two statements.
CancelledReleases ==
  status = "Cancelled" /\ quota = "active" =>
     lost \/ \E t \in Handlers : At(t, "release")

\* Who will still move a Pending order: its timer or the callback, the boot pass,
\* the request that placed it, or an admin's that has taken the timer's place.
Watched ==
  status = "Pending" =>
     \/ timer # "off"
     \/ task[Timer].pc \in {"fire", "accept"}
     \/ task[Boot].pc \in {"boot", "bootAccept", "bootSchedule"}
     \/ \E t \in Handlers :
          \/ At(t, "schedule")
          \/ task[t].pc \in {"adminCancel", "forward"} /\ task[t].seen = "Pending"

\* No timer, snooze, restart, skipped claim or overtaken request leaves a Pending
\* order to nobody.  What does: a reopen, which schedules nothing; a request that
\* is refused after it has cancelled the timer; a statement that throws.
WatchKept ==
  [][Watched /\ ~Watched' =>
       \/ \E t \in Handlers :
            \/ ReopenOrder(t)
            \/ AdminValidate(t) /\ AdminRoute(task[t].seen, task[t].to) = "idle"
       \/ \E t \in Fallible : Abort(t)]_vars

\* schedule, fire and rehydratePendingOrders: a placed order leaves Pending,
\* though the process restart at any point, if admins' requests are valid.
LeavesPending == status = "Pending" ~> status # "Pending"

=============================================================================
