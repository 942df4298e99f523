------------------------ MODULE OrderLifecycle_proofs ------------------------
(***************************************************************************)
(* Theorems about OrderLifecycle for any number of concurrent requests,    *)
(* any set of requested statuses and payments, throws and restarts.        *)
(* The inductive invariant adds what a request knows once it has been      *)
(* validated (Decided): the compare-and-set carries that knowledge to the  *)
(* row.  StepMoves sorts the steps by what they do to the status.          *)
(***************************************************************************)
EXTENDS OrderLifecycle, TLAPS

RowOK ==
  /\ status \in Status
  /\ payment \in Payment
  /\ quota \in {"unused", "active", "cancelled"}
  /\ timer \in TimerState

FlagsOK ==
  /\ stamped \in BOOLEAN
  /\ held \in BOOLEAN
  /\ pickedUp \in BOOLEAN
  /\ old \in BOOLEAN
  /\ claimed \in BOOLEAN
  /\ lost \in BOOLEAN

\* An order that is placed and still in play.
Live(s) == s \in {"Pending", "Accepted", "Preparing", "Out for Delivery"}

\* What the validation of a request has established when it goes on to write.
Decided(k) ==
  /\ k.pc = "admin" => k.seen # "none" /\ k.to \in Status \ {"none"}
  /\ k.pc = "adminCancel" => Live(k.seen)
  /\ k.pc = "forward" => /\ Live(k.seen)
                         /\ k.to \in Status
                         /\ Rank(k.seen) < Rank(k.to)
  /\ k.pc \in {"riderPick", "riderMove"} => /\ Live(k.seen)
                                           /\ k.to \in {"Out for Delivery", "Delivered"}
                                           /\ Rank(k.seen) < Rank(k.to)
  /\ k.pc = "pay" => k.to \in Payment

TaskOK(k) == k \in Task /\ Decided(k)
TasksOK   == task \in [Tasks -> Task] /\ \A t \in Tasks : Decided(task[t])

\* The program counters Decided says nothing about.
FreePC == PC \ {"admin", "adminCancel", "forward", "riderPick", "riderMove", "pay"}

IInv ==
  /\ RowOK
  /\ FlagsOK
  /\ TasksOK
  /\ ResponseClock
  /\ CancelledReleases

\* The inductive invariant contains type correctness.
LEMMA IInvType == IInv => TypeOK
BY DEF IInv, RowOK, FlagsOK, TasksOK, TypeOK

\* Requests, the timer's callback and the boot pass are all tasks.
LEMMA HandlersAreTasks == Handlers \subseteq Tasks /\ Timer \in Tasks /\ Boot \in Tasks
BY DEF Tasks

\* The place of each status in ORDER_STATUS_VALUES.
LEMMA Ranks ==
  /\ Rank("Pending") = 1
  /\ Rank("Accepted") = 2
  /\ Rank("Preparing") = 3
  /\ Rank("Out for Delivery") = 4
  /\ Rank("Delivered") = 5
  /\ Rank("Cancelled") = 0
  /\ Rank("none") = 0
BY DEF Rank

\* A live status comes before Delivered in that order.
LEMMA LiveRank == \A s : Live(s) => Rank(s) \in {1, 2, 3, 4}
<1> SUFFICES ASSUME NEW s, Live(s) PROVE Rank(s) \in {1, 2, 3, 4}
  OBVIOUS
<1>1. CASE s = "Pending"
  BY <1>1, Zenon, Ranks
<1>2. CASE s = "Accepted"
  BY <1>2, Zenon, Ranks
<1>3. CASE s = "Preparing"
  BY <1>3, Zenon, Ranks
<1>4. CASE s = "Out for Delivery"
  BY <1>4, Zenon, Ranks
<1> QED BY <1>1, <1>2, <1>3, <1>4 DEF Live

\* Where a validated request goes on.
LEMMA RouteOK ==
  ASSUME NEW seen \in Status \ {"none"}, NEW to \in Status \ {"none"}
  PROVE  /\ AdminRoute(seen, to) \in {"idle", "reopen", "adminCancel", "forward"}
         /\ AdminRoute(seen, to) = "adminCancel" => Live(seen)
         /\ AdminRoute(seen, to) = "forward" => Live(seen) /\ Rank(seen) < Rank(to)
<1> USE DEF AdminRoute
<1>0. ~Terminal(seen) => Live(seen)
  BY DEF Terminal, Live, Status
<1>1. CASE seen = "Cancelled" /\ to = "Pending"
  <2>1. AdminRoute(seen, to) = "reopen"
    BY <1>1 DEF Terminal
  <2> QED BY <2>1
<1>2. CASE ~Terminal(seen) /\ to = "Cancelled"
  <2>0. ~(Rank(seen) < Rank(to))
    <3>1. Rank(to) = 0 /\ Rank(seen) \in {1, 2, 3, 4}
      BY <1>0, <1>2, Ranks, LiveRank
    <3> QED BY <3>1
  <2>1. AdminRoute(seen, to) = "adminCancel"
    BY <1>2, <2>0 DEF Terminal
  <2> QED BY <1>0, <1>2, <2>1
<1>3. CASE ~Terminal(seen) /\ Rank(seen) < Rank(to) /\ to # "Cancelled"
  <2>1. AdminRoute(seen, to) = "forward"
    BY <1>3 DEF Terminal
  <2> QED BY <1>0, <1>3, <2>1
<1>4. CASE /\ ~(seen = "Cancelled" /\ to = "Pending")
           /\ ~(~Terminal(seen) /\ to = "Cancelled")
           /\ ~(~Terminal(seen) /\ Rank(seen) < Rank(to) /\ to # "Cancelled")
  <2>1. AdminRoute(seen, to) = "idle"
    BY <1>4
  <2> QED BY <2>1
<1> QED BY <1>1, <1>2, <1>3, <1>4

\* A slot at rest satisfies what is asked of a task.
LEMMA IdleOK == TaskOK(Idle)
BY DEF TaskOK, Idle, Task, PC, Status, Payment, Decided

-----------------------------------------------------------------------------
(* A step that moves one handler to a proper state keeps all proper        *)

\* Replacing one task by a well-formed one keeps all tasks well formed.
LEMMA MoveOK ==
  ASSUME TasksOK, NEW t \in Tasks, NEW k, TaskOK(k), task' = [task EXCEPT ![t] = k]
  PROVE  TasksOK'
BY DEF TasksOK, TaskOK

\* A request that ends leaves well-formed tasks.
LEMMA FinishOK ==
  ASSUME TasksOK, NEW t \in Tasks, Finish(t)
  PROVE  TasksOK'
BY MoveOK, IdleOK DEF Finish

\* So does one that goes on to a statement with nothing decided before it.
LEMMA GotoOK ==
  ASSUME TasksOK, NEW t \in Tasks, NEW pc \in FreePC, Goto(t, pc)
  PROVE  TasksOK'
<1>1. task[t] \in Task
  BY DEF TasksOK
<1>2. TaskOK([task[t] EXCEPT !.pc = pc])
  BY <1>1 DEF TaskOK, Task, Decided, FreePC
<1> QED BY <1>2, MoveOK DEF Goto

\* So does a first SELECT whose result passes the handler's validation.
LEMMA ReadOK ==
  ASSUME RowOK, TasksOK, NEW t \in Tasks, NEW pc \in PC, NEW seen \in Status,
         NEW to \in Status \cup Payment, Read(t, pc, seen, to),
         Decided([pc |-> pc, seen |-> seen, to |-> to,
                  paid |-> IF to = "Delivered" \/ pc = "pay" THEN payment ELSE "Pending"])
  PROVE  TasksOK'
<1> DEFINE paid == IF to = "Delivered" \/ pc = "pay" THEN payment ELSE "Pending"
<1> DEFINE k == [pc |-> pc, seen |-> seen, to |-> to, paid |-> paid]
<1>1. paid \in Payment
  BY DEF RowOK, Payment
<1>2. k \in Task
  <2> HIDE DEF paid
  <2> QED BY <1>1 DEF Task
<1>3. task' = [task EXCEPT ![t] = k]
  BY DEF Read
<1> QED BY <1>2, <1>3, MoveOK DEF TaskOK

\* So does a first SELECT of which nothing is kept.
LEMMA ReadOnlyOK ==
  ASSUME RowOK, TasksOK, NEW t \in Tasks, NEW pc \in FreePC, ReadOnly(t, pc)
  PROVE  TasksOK'
<1>1. "none" \in Status /\ "none" # "Delivered"
  BY DEF Status
<1>2. Decided([pc |-> pc, seen |-> "none", to |-> "none",
               paid |-> IF "none" = "Delivered" \/ pc = "pay" THEN payment ELSE "Pending"])
  BY DEF Decided, FreePC
<1>3. pc \in PC
  BY DEF FreePC
<1> QED BY <1>1, <1>2, <1>3, ReadOK DEF ReadOnly

-----------------------------------------------------------------------------
(* Types, and what requests know, one action at a time                     *)

\* Every request that starts keeps the row and the tasks well formed.
LEMMA RequestTypeOK ==
  ASSUME RowOK, TasksOK, NEW t \in Handlers, Requests(t)
  PROVE  RowOK' /\ TasksOK'
<1> USE HandlersAreTasks
<1> USE DEF row, mem
<1>1. CASE PlaceOrder(t)
  BY <1>1, GotoOK DEF RowOK, PlaceOrder, Status, FreePC, PC
<1>2. CASE CancelRead(t)
  BY <1>2, ReadOnlyOK DEF RowOK, CancelRead, FreePC, PC
<1>3. CASE SnoozeRead(t)
  BY <1>3, ReadOnlyOK DEF RowOK, SnoozeRead, FreePC, PC
<1>4. CASE RiderPickUpRead(t)
  BY <1>4, ReadOnlyOK DEF RowOK, RiderPickUpRead, FreePC, PC
<1>5. CASE RiderPaidRead(t)
  BY <1>5, ReadOnlyOK DEF RowOK, RiderPaidRead, FreePC, PC
<1>6. CASE \E to \in AdminTargets : AdminRead(t, to)
  <2> PICK to \in AdminTargets : AdminRead(t, to)
    BY <1>6
  <2>1. RowOK' /\ status # "none" /\ status \in Status /\ to \in Status \ {"none"}
    BY BoundsAssumption DEF AdminRead, Read, RowOK
  <2>2. TasksOK'
    BY <2>1, ReadOK DEF AdminRead, Decided, PC
  <2> QED BY <2>1, <2>2
<1>7. CASE \E p \in AdminPayments : AdminPaymentRead(t, p)
  <2> PICK p \in AdminPayments : AdminPaymentRead(t, p)
    BY <1>7
  <2>1. RowOK' /\ p \in Payment /\ "none" \in Status
    BY BoundsAssumption DEF AdminPaymentRead, RowOK, Status
  <2>2. TasksOK'
    BY <2>1, ReadOK DEF AdminPaymentRead, Decided, PC
  <2> QED BY <2>1, <2>2
<1>8. CASE \E to \in Status : RiderRead(t, to)
  <2> PICK to \in Status : RiderRead(t, to)
    BY <1>8
  <2> DEFINE pc == IF to = "Out for Delivery" /\ ~pickedUp THEN "riderPick" ELSE "riderMove"
  <2>1. RowOK' /\ Live(status) /\ status \in Status /\ pc \in {"riderPick", "riderMove"}
    BY DEF RiderRead, Read, RowOK, Status, Terminal, Live
  <2>2. /\ to \in {"Out for Delivery", "Delivered"}
        /\ Rank(status) < Rank(to)
        /\ Read(t, pc, status, to)
    BY DEF RiderRead
  <2>3. TasksOK'
    <3> HIDE DEF pc
    <3> QED BY <2>1, <2>2, ReadOK DEF Decided, PC
  <2> QED BY <2>1, <2>3
<1> QED BY <1>1, <1>2, <1>3, <1>4, <1>5, <1>6, <1>7, <1>8 DEF Requests

\* Every later statement of a request does.
LEMMA HandlerTypeOK ==
  ASSUME RowOK, TasksOK, NEW t \in Handlers, HandlerStep(t)
  PROVE  RowOK' /\ TasksOK'
<1> USE HandlersAreTasks, BoundsAssumption
<1> USE DEF row, mem
<1>1. CASE Schedule(t)
  <2>1. RowOK'
    BY <1>1 DEF RowOK, Schedule, Arm, Status, Payment, TimerState
  <2>2. TasksOK'
    BY <1>1, FinishOK DEF Schedule
  <2> QED BY <2>1, <2>2
<1>2. CASE CustomerCancel(t)
  <2>1. RowOK'
    BY <1>2 DEF RowOK, CustomerCancel, Cancelled, Status, Payment, TimerState
  <2>2. TasksOK'
    BY <1>2, FinishOK, GotoOK DEF CustomerCancel, FreePC, PC
  <2> QED BY <2>1, <2>2
<1>3. CASE CustomerRelease(t)
  <2>1. RowOK'
    BY <1>3 DEF RowOK, CustomerRelease, ReleaseQuota, Status, Payment, TimerState
  <2>2. TasksOK'
    BY <1>3, FinishOK DEF CustomerRelease
  <2> QED BY <2>1, <2>2
<1>4. CASE Snooze(t)
  <2>1. RowOK'
    BY <1>4 DEF RowOK, Snooze, Status, Payment, TimerState
  <2>2. TasksOK'
    BY <1>4, FinishOK DEF Snooze
  <2> QED BY <2>1, <2>2
<1>5. CASE AdminValidate(t)
  <2> DEFINE next == AdminRoute(task[t].seen, task[t].to)
  <2>1. RowOK'
    BY <1>5 DEF RowOK, AdminValidate, Disarm, TimerState
  <2>2. task[t] \in Task /\ task[t].seen \in Status \ {"none"} /\ task[t].to \in Status \ {"none"}
    BY <1>5 DEF TasksOK, Task, Decided, AdminValidate, At
  <2>3. /\ next \in {"idle", "reopen", "adminCancel", "forward"}
        /\ next = "adminCancel" => Live(task[t].seen)
        /\ next = "forward" => Live(task[t].seen) /\ Rank(task[t].seen) < Rank(task[t].to)
    BY <2>2, RouteOK
  <2>4. CASE next = "idle"
    BY <1>5, <2>1, <2>4, FinishOK DEF AdminValidate
  <2>5. CASE next # "idle"
    <3> DEFINE k == [task[t] EXCEPT !.pc = next]
    <3>1. task' = [task EXCEPT ![t] = k]
      BY <1>5, <2>5 DEF AdminValidate, Goto
    <3>2. TaskOK(k)
      <4> HIDE DEF next
      <4> QED BY <2>2, <2>3, <2>5 DEF TaskOK, Task, Decided, PC
    <3> QED BY <2>1, <3>1, <3>2, MoveOK
  <2> QED BY <2>1, <2>4, <2>5
<1>6. CASE AdminCancel(t)
  <2>1. RowOK'
    BY <1>6 DEF RowOK, AdminCancel, Cancelled, ReleaseQuota, Status, Payment, TimerState
  <2>2. TasksOK'
    BY <1>6, FinishOK DEF AdminCancel
  <2> QED BY <2>1, <2>2
<1>7. CASE ReopenOrder(t)
  <2>1. RowOK'
    BY <1>7 DEF RowOK, ReopenOrder, Status, Payment, TimerState
  <2>2. TasksOK'
    BY <1>7, FinishOK DEF ReopenOrder
  <2> QED BY <2>1, <2>2
<1>8. CASE AdminForward(t)
  <2>1. RowOK'
    BY <1>8 DEF RowOK, AdminForward, SettlePayment, At, TasksOK, Decided, Status, Payment,
         TimerState
  <2>2. TasksOK'
    BY <1>8, FinishOK DEF AdminForward
  <2> QED BY <2>1, <2>2
<1>9. CASE AdminPayment(t)
  <2>1. RowOK'
    BY <1>9 DEF RowOK, AdminPayment, At, TasksOK, Decided, Status, Payment, TimerState
  <2>2. TasksOK'
    BY <1>9, FinishOK DEF AdminPayment
  <2> QED BY <2>1, <2>2
<1>10. CASE RiderPickUp(t)
  <2>1. RowOK'
    BY <1>10 DEF RowOK, RiderPickUp, Status, Payment, TimerState
  <2>2. TasksOK'
    BY <1>10, FinishOK DEF RiderPickUp
  <2> QED BY <2>1, <2>2
<1>11. CASE RiderAutoPick(t)
  <2>1. RowOK'
    BY <1>11 DEF RowOK, RiderAutoPick
  <2>2. task[t] \in Task /\ Decided(task[t]) /\ task[t].pc = "riderPick"
    BY <1>11 DEF TasksOK, RiderAutoPick, At
  <2>3. TaskOK([task[t] EXCEPT !.pc = "riderMove"])
    BY <2>2 DEF TaskOK, Task, Decided, PC
  <2> QED BY <1>11, <2>1, <2>3, MoveOK DEF RiderAutoPick, Goto
<1>12. CASE RiderMove(t)
  <2>1. RowOK'
    BY <1>12 DEF RowOK, RiderMove, SettlePayment, At, TasksOK, Decided, Status, Payment,
         TimerState
  <2>2. TasksOK'
    BY <1>12, FinishOK DEF RiderMove
  <2> QED BY <2>1, <2>2
<1>13. CASE RiderPaid(t)
  <2>1. RowOK'
    BY <1>13 DEF RowOK, RiderPaid, Status, Payment, TimerState
  <2>2. TasksOK'
    BY <1>13, FinishOK DEF RiderPaid
  <2> QED BY <2>1, <2>2
<1> QED BY <1>1, <1>2, <1>3, <1>4, <1>5, <1>6, <1>7, <1>8, <1>9, <1>10, <1>11, <1>12, <1>13
     DEF HandlerStep

\* The timer, the boot pass, the shops, the engine and time do.
LEMMA OtherTypeOK ==
  ASSUME RowOK, TasksOK, Fire \/ TimerStep \/ BootStep \/ Others \/ WindowEnds \/ TimerDue
  PROVE  RowOK' /\ TasksOK'
<1> USE HandlersAreTasks, BoundsAssumption
<1> USE DEF row, mem
<1>1. CASE Fire
  <2>1. RowOK'
    BY <1>1 DEF RowOK, Fire, TimerState, Status
  <2>2. TasksOK'
    BY <1>1, GotoOK DEF Fire, FreePC, PC
  <2> QED BY <2>1, <2>2
<1>2. CASE FireRead
  <2>1. RowOK'
    BY <1>2 DEF RowOK, FireRead, Status
  <2>2. TasksOK'
    BY <1>2, FinishOK, GotoOK DEF FireRead, FreePC, PC
  <2> QED BY <2>1, <2>2
<1>3. CASE FireAccept
  <2>1. RowOK'
    BY <1>3 DEF RowOK, FireAccept, AcceptPending, Status
  <2>2. TasksOK'
    BY <1>3, FinishOK DEF FireAccept
  <2> QED BY <2>1, <2>2
<1>4. CASE BootRead
  <2>1. RowOK'
    BY <1>4 DEF RowOK, BootRead, Status
  <2>2. TasksOK'
    BY <1>4, FinishOK, GotoOK DEF BootRead, FreePC, PC
  <2> QED BY <2>1, <2>2
<1>5. CASE BootAccept
  <2>1. RowOK'
    BY <1>5 DEF RowOK, BootAccept, AcceptPending, Status
  <2>2. TasksOK'
    BY <1>5, FinishOK DEF BootAccept
  <2> QED BY <2>1, <2>2
<1>6. CASE BootSchedule
  <2>1. RowOK'
    BY <1>6 DEF RowOK, BootSchedule, Arm, TimerState, Status
  <2>2. TasksOK'
    BY <1>6, FinishOK DEF BootSchedule
  <2> QED BY <2>1, <2>2
<1>7. CASE ShopConfirms
  <2>1. RowOK'
    BY <1>7 DEF RowOK, ShopConfirms, Status
  <2>2. TasksOK'
    BY <1>7 DEF TasksOK, ShopConfirms
  <2> QED BY <2>1, <2>2
<1>8. CASE ShopsCancel
  <2>1. RowOK'
    BY <1>8 DEF RowOK, ShopsCancel, Cancelled, ReleaseQuota, Payment, Status
  <2>2. TasksOK'
    BY <1>8 DEF TasksOK, ShopsCancel
  <2> QED BY <2>1, <2>2
<1>9. CASE RiderTakes
  <2>1. RowOK'
    BY <1>9 DEF RowOK, RiderTakes, Status
  <2>2. TasksOK'
    BY <1>9 DEF TasksOK, RiderTakes
  <2> QED BY <2>1, <2>2
<1>10. CASE RiderLoses
  <2>1. RowOK'
    BY <1>10 DEF RowOK, RiderLoses, Status
  <2>2. TasksOK'
    BY <1>10 DEF TasksOK, RiderLoses
  <2> QED BY <2>1, <2>2
<1>11. CASE WindowEnds
  <2>1. RowOK'
    BY <1>11 DEF RowOK, WindowEnds, Status
  <2>2. TasksOK'
    BY <1>11 DEF TasksOK, WindowEnds
  <2> QED BY <2>1, <2>2
<1>12. CASE TimerDue
  <2>1. RowOK'
    BY <1>12 DEF RowOK, TimerDue, TimerState, Status
  <2>2. TasksOK'
    BY <1>12 DEF TasksOK, TimerDue
  <2> QED BY <2>1, <2>2
<1> QED BY <1>1, <1>2, <1>3, <1>4, <1>5, <1>6, <1>7, <1>8, <1>9, <1>10, <1>11, <1>12 DEF
     TimerStep, BootStep, Others

\* A throw and a restart do.
LEMMA FailureTypeOK ==
  ASSUME RowOK, TasksOK, Restart \/ \E t \in Tasks : Abort(t)
  PROVE  RowOK' /\ TasksOK'
<1> USE DEF row
<1>1. CASE Restart
  <2>1. RowOK'
    BY <1>1 DEF RowOK, Restart, TimerState
  <2>2. Idle \in Task /\ [Idle EXCEPT !.pc = "boot"] \in Task
    BY DEF Idle, Task, PC, Status, Payment
  <2>3. task' \in [Tasks -> Task] /\ \A t \in Tasks : task'[t].pc \in {"idle", "boot"}
    BY <1>1, <2>2 DEF Restart, Idle
  <2> QED BY <2>1, <2>3 DEF TasksOK, Decided
<1>2. CASE \E t \in Tasks : Abort(t)
  BY <1>2, FinishOK DEF RowOK, Abort
<1> QED BY <1>1, <1>2

\* No step spoils the boolean columns and maps.
LEMMA FlagsStay ==
  ASSUME FlagsOK, [Next]_vars
  PROVE  FlagsOK'
<1> USE DEF row, mem
<1>1. CASE UNCHANGED vars
  BY <1>1, Zenon DEF FlagsOK, vars
<1>2. CASE \E t \in Handlers : Requests(t)
  BY <1>2, Zenon DEF FlagsOK, Requests, PlaceOrder, CancelRead, SnoozeRead, RiderPickUpRead,
       RiderPaidRead, AdminRead, AdminPaymentRead, RiderRead
<1>3. CASE \E t \in Handlers : Schedule(t)
  BY <1>3, Zenon DEF FlagsOK, Schedule, Arm
<1>4. CASE \E t \in Handlers : CustomerCancel(t)
  BY <1>4, Zenon DEF FlagsOK, CustomerCancel
<1>5. CASE \E t \in Handlers : CustomerRelease(t)
  BY <1>5, Zenon DEF FlagsOK, CustomerRelease
<1>6. CASE \E t \in Handlers : Snooze(t)
  BY <1>6, Zenon DEF FlagsOK, Snooze
<1>7. CASE \E t \in Handlers : AdminValidate(t)
  BY <1>7, Zenon DEF FlagsOK, AdminValidate, Disarm
<1>8. CASE \E t \in Handlers : AdminCancel(t)
  BY <1>8, Zenon DEF FlagsOK, AdminCancel
<1>9. CASE \E t \in Handlers : ReopenOrder(t)
  BY <1>9, Zenon DEF FlagsOK, ReopenOrder
<1>10. CASE \E t \in Handlers : AdminForward(t)
  BY <1>10, Zenon DEF FlagsOK, AdminForward
<1>11. CASE \E t \in Handlers : AdminPayment(t)
  BY <1>11, Zenon DEF FlagsOK, AdminPayment
<1>12. CASE \E t \in Handlers : RiderPickUp(t)
  BY <1>12, Zenon DEF FlagsOK, RiderPickUp
<1>13. CASE \E t \in Handlers : RiderAutoPick(t)
  BY <1>13, Zenon DEF FlagsOK, RiderAutoPick
<1>14. CASE \E t \in Handlers : RiderMove(t)
  BY <1>14, Zenon DEF FlagsOK, RiderMove
<1>15. CASE \E t \in Handlers : RiderPaid(t)
  BY <1>15, Zenon DEF FlagsOK, RiderPaid
<1>16. CASE Fire
  BY <1>16, Zenon DEF FlagsOK, Fire
<1>17. CASE FireRead
  BY <1>17, Zenon DEF FlagsOK, FireRead
<1>18. CASE FireAccept
  BY <1>18, Zenon DEF FlagsOK, FireAccept, AcceptPending
<1>19. CASE BootRead
  BY <1>19, Zenon DEF FlagsOK, BootRead
<1>20. CASE BootAccept
  BY <1>20, Zenon DEF FlagsOK, BootAccept, AcceptPending
<1>21. CASE BootSchedule
  BY <1>21, Zenon DEF FlagsOK, BootSchedule, Arm
<1>22. CASE ShopConfirms
  BY <1>22, Zenon DEF FlagsOK, ShopConfirms
<1>23. CASE ShopsCancel
  BY <1>23, Zenon DEF FlagsOK, ShopsCancel
<1>24. CASE RiderTakes
  BY <1>24, Zenon DEF FlagsOK, RiderTakes
<1>25. CASE RiderLoses
  BY <1>25, Zenon DEF FlagsOK, RiderLoses
<1>26. CASE WindowEnds
  BY <1>26, Zenon DEF FlagsOK, WindowEnds
<1>27. CASE TimerDue
  BY <1>27, Zenon DEF FlagsOK, TimerDue
<1>28. CASE \E t \in Tasks : Abort(t)
  BY <1>28, Zenon DEF FlagsOK, Abort
<1>29. CASE Restart
  BY <1>29, Zenon DEF FlagsOK, Restart
<1> QED BY <1>1, <1>2, <1>3, <1>4, <1>5, <1>6, <1>7, <1>8, <1>9, <1>10, <1>11, <1>12, <1>13,
     <1>14, <1>15, <1>16, <1>17, <1>18, <1>19, <1>20, <1>21, <1>22, <1>23, <1>24, <1>25,
     <1>26, <1>27, <1>28, <1>29 DEF Next, HandlerStep, TimerStep, BootStep, Others

-----------------------------------------------------------------------------
(* What a step does to the status, and its consequences                    *)

Places    == status = "none" /\ status' = "Pending" /\ stamped' = stamped
Accepts   == status = "Pending" /\ status' = "Accepted" /\ stamped'
Prepares  == status = "Accepted" /\ status' = "Preparing" /\ stamped' = stamped
Cancels   == Live(status) /\ status' = "Cancelled" /\ stamped' = stamped
Reopens   == status = "Cancelled" /\ status' = "Pending" /\ ~stamped'
Advances  ==
  /\ Live(status)
  /\ status' \in Status
  /\ Rank(status) < Rank(status')
  /\ status = "Pending" => stamped' \/ status' \in {"Out for Delivery", "Delivered"}
  /\ status # "Pending" => stamped' = stamped
StatusStays == status' = status /\ stamped' = stamped

StatusMove == StatusStays \/ Places \/ Accepts \/ Prepares \/ Cancels \/ Reopens \/ Advances

\* acceptPendingOrder's compare-and-set leaves the status or accepts.
LEMMA AcceptMove == FlagsOK /\ AcceptPending => StatusStays \/ Accepts
<1> SUFFICES ASSUME FlagsOK, AcceptPending PROVE StatusStays \/ Accepts
  OBVIOUS
<1>1. CASE status = "Pending"
  BY <1>1 DEF AcceptPending, Accepts
<1>2. CASE status # "Pending"
  <2>1. stamped' = stamped
    BY <1>2, Zenon DEF AcceptPending, FlagsOK
  <2> QED BY <1>2, <2>1 DEF AcceptPending, StatusStays
<1> QED BY <1>1, <1>2

\* The compare-and-set turns what a request knows of the row it read into a
\* fact about the row it writes.
LEMMA HandlerMove ==
  ASSUME RowOK, FlagsOK, TasksOK, NEW t \in Handlers, HandlerStep(t)
  PROVE  StatusMove
<1> USE HandlersAreTasks
<1>1. CASE AdminForward(t)
  <2>1. /\ Live(task[t].seen)
        /\ task[t].to \in Status
        /\ Rank(task[t].seen) < Rank(task[t].to)
    BY <1>1 DEF AdminForward, At, TasksOK, Decided
  <2>2. CASE status = task[t].seen
    <3>1. status' = task[t].to /\ stamped' = (stamped \/ task[t].seen = "Pending")
      BY <1>1, <2>2 DEF AdminForward
    <3>2. status = "Pending" => stamped'
      BY <2>2, <3>1, Zenon
    <3>3. status # "Pending" => stamped' = stamped
      BY <2>2, <3>1, Zenon DEF FlagsOK
    <3>4. Live(status) /\ status' \in Status /\ Rank(status) < Rank(status')
      BY <2>1, <2>2, <3>1
    <3> QED BY <3>2, <3>3, <3>4, Zenon DEF Advances, StatusMove
  <2>3. CASE status # task[t].seen
    BY <1>1, <2>3, Zenon DEF AdminForward, StatusStays, StatusMove
  <2> QED BY <2>2, <2>3
<1>2. CASE RiderMove(t)
  <2>1. /\ Live(task[t].seen)
        /\ task[t].to \in {"Out for Delivery", "Delivered"}
        /\ Rank(task[t].seen) < Rank(task[t].to)
    BY <1>2 DEF RiderMove, At, TasksOK, Decided
  <2>2. CASE status = task[t].seen /\ held
    <3>1. status' = task[t].to /\ stamped' = stamped
      BY <1>2, <2>2, Zenon DEF RiderMove
    <3> QED BY <2>1, <2>2, <3>1 DEF Advances, StatusMove, Status
  <2>3. CASE ~(status = task[t].seen /\ held)
    BY <1>2, <2>3, Zenon DEF RiderMove, StatusStays, StatusMove
  <2> QED BY <2>2, <2>3
<1>3. CASE AdminCancel(t)
  <2>1. Live(task[t].seen)
    BY <1>3 DEF AdminCancel, At, TasksOK, Decided
  <2> QED BY <1>3, <2>1, Zenon DEF AdminCancel, Cancelled, Cancels, StatusStays, StatusMove
<1>4. CASE CustomerCancel(t)
  <2>1. Live("Pending")
    BY DEF Live
  <2> QED BY <1>4, <2>1, Zenon DEF CustomerCancel, Cancelled, Cancels, StatusStays,
       StatusMove
<1>5. CASE ReopenOrder(t)
  BY <1>5, Zenon DEF ReopenOrder, Reopens, StatusStays, StatusMove
<1>6. CASE \/ Schedule(t) \/ CustomerRelease(t) \/ Snooze(t) \/ AdminValidate(t)
           \/ AdminPayment(t) \/ RiderPickUp(t) \/ RiderAutoPick(t) \/ RiderPaid(t)
  BY <1>6, Zenon DEF Schedule, CustomerRelease, Snooze, AdminValidate, AdminPayment,
       RiderPickUp,
     RiderAutoPick, RiderPaid, row, StatusStays, StatusMove
<1> QED BY <1>1, <1>2, <1>3, <1>4, <1>5, <1>6 DEF HandlerStep

\* Every step leaves the status, or moves it in one of the named ways.
LEMMA StepMoves ==
  ASSUME RowOK, FlagsOK, TasksOK, [Next]_vars
  PROVE  StatusMove
<1> USE DEF row
<1>1. CASE UNCHANGED vars
  BY <1>1, Zenon DEF vars, StatusStays, StatusMove
<1>2. CASE \E t \in Handlers : Requests(t)
  <2> PICK t \in Handlers : Requests(t)
    BY <1>2
  <2>1. CASE PlaceOrder(t)
    BY <2>1, Zenon DEF PlaceOrder, Places, StatusMove
  <2>2. CASE ~PlaceOrder(t)
    BY <2>2, Zenon DEF Requests, CancelRead, SnoozeRead, RiderPickUpRead, RiderPaidRead,
       AdminRead, AdminPaymentRead, RiderRead, StatusStays, StatusMove
  <2> QED BY <2>1, <2>2
<1>3. CASE \E t \in Handlers : HandlerStep(t)
  BY <1>3, HandlerMove
<1>4. CASE FireAccept
  BY <1>4, AcceptMove DEF FireAccept, StatusMove
<1>5. CASE BootAccept
  BY <1>5, AcceptMove, Zenon DEF BootAccept, StatusStays, StatusMove
<1>6. CASE ShopConfirms
  BY <1>6, Zenon DEF ShopConfirms, Prepares, StatusMove
<1>7. CASE ShopsCancel
  <2>1. Live(status)
    BY <1>7 DEF ShopsCancel, Live
  <2> QED BY <1>7, <2>1, Zenon DEF ShopsCancel, Cancelled, Cancels, StatusMove
<1>8. CASE \/ Fire \/ FireRead \/ BootRead \/ BootSchedule \/ RiderTakes \/ RiderLoses
           \/ WindowEnds \/ TimerDue \/ Restart \/ \E t \in Tasks : Abort(t)
  BY <1>8, Zenon DEF Fire, FireRead, BootRead, BootSchedule, RiderTakes, RiderLoses,
     WindowEnds, TimerDue, Restart, Abort, StatusStays, StatusMove
<1> QED BY <1>1, <1>2, <1>3, <1>4, <1>5, <1>6, <1>7, <1>8 DEF Next, TimerStep, BootStep,
     Others

\* A status ahead of one in play.
LEMMA Ahead ==
  ASSUME NEW a, Live(a), NEW b, Rank(a) < Rank(b)
  PROVE  /\ b \notin {"none", "Pending", "Cancelled"}
         /\ a = "Out for Delivery" => b \notin {"Accepted", "Preparing"}
<1>1. Rank(a) \in {1, 2, 3, 4}
  BY LiveRank
<1>2. /\ b \in {"none", "Cancelled"} => Rank(b) = 0
      /\ b = "Pending" => Rank(b) = 1
      /\ b = "Accepted" => Rank(b) = 2
      /\ b = "Preparing" => Rank(b) = 3
      /\ a = "Out for Delivery" => Rank(a) = 4
  BY Ranks, Zenon
<1>3. /\ ~(Rank(a) < 0) /\ ~(Rank(a) < 1)
      /\ Rank(a) = 4 => ~(Rank(a) < 2) /\ ~(Rank(a) < 3)
  BY <1>1
<1> QED BY <1>2, <1>3, Zenon

\* No move leaves the shops' clock unset, or set from an earlier life.
LEMMA ClockKept ==
  ASSUME RowOK, ResponseClock, StatusMove
  PROVE  ResponseClock'
<1>1. CASE StatusStays
  BY <1>1, Zenon DEF StatusStays, ResponseClock
<1>2. CASE Places
  BY <1>2 DEF Places, ResponseClock
<1>3. CASE Accepts
  BY <1>3 DEF Accepts, ResponseClock
<1>4. CASE Prepares
  BY <1>4 DEF Prepares, ResponseClock
<1>5. CASE Cancels
  BY <1>5 DEF Cancels, ResponseClock
<1>6. CASE Reopens
  BY <1>6 DEF Reopens, ResponseClock
<1>7. CASE Advances
  <2>1. status' \notin {"none", "Pending"}
    BY <1>7, Ahead DEF Advances
  <2>2. CASE status = "Pending"
    BY <1>7, <2>1, <2>2 DEF Advances, ResponseClock
  <2>3. CASE status # "Pending"
    <3>1. status \in {"Accepted", "Preparing"} => stamped
      BY DEF ResponseClock
    <3>2. status = "Out for Delivery" => status' \notin {"Accepted", "Preparing"}
      BY <1>7, Ahead DEF Advances
    <3>3. stamped' = stamped /\ status \in {"Accepted", "Preparing", "Out for Delivery"}
      BY <1>7, <2>3 DEF Advances, Live
    <3>4. status' \in {"Accepted", "Preparing"} => stamped'
      BY <3>1, <3>2, <3>3, Zenon
    <3> QED BY <2>1, <3>4, Zenon DEF ResponseClock
  <2> QED BY <2>2, <2>3
<1> QED BY <1>1, <1>2, <1>3, <1>4, <1>5, <1>6, <1>7 DEF StatusMove

-----------------------------------------------------------------------------
(* The coupons of a cancelled order                                        *)

Releasing == \E t \in Handlers : At(t, "release")

\* A step that neither cancels nor reactivates, nor ends a release, keeps the
\* debt of a release where it is.
LEMMA DebtStays ==
  ASSUME CancelledReleases,
         status' = "Cancelled" /\ quota' = "active" => status = "Cancelled" /\ quota = "active",
         lost => lost',
         Releasing => Releasing'
  PROVE  CancelledReleases'
BY Zenon DEF CancelledReleases, Releasing

\* A handler that was not releasing moves: the others stay where they are.
LEMMA OthersRelease ==
  ASSUME TasksOK, NEW t \in Tasks, ~At(t, "release"), NEW k, task' = [task EXCEPT ![t] = k]
  PROVE  Releasing => Releasing'
BY DEF Releasing, At, TasksOK, Tasks

\* A request that ends elsewhere leaves a pending coupon release pending.
LEMMA FinishRelease ==
  ASSUME TasksOK, NEW t \in Tasks, ~At(t, "release"), Finish(t)
  PROVE  Releasing => Releasing'
BY OthersRelease DEF Finish

\* So does one that goes on to another statement.
LEMMA GotoRelease ==
  ASSUME TasksOK, NEW t \in Tasks, ~At(t, "release"), NEW pc, Goto(t, pc)
  PROVE  Releasing => Releasing'
BY OthersRelease DEF Goto

\* So does one that starts.
LEMMA ReadRelease ==
  ASSUME TasksOK, NEW t \in Tasks, NEW pc, NEW seen, NEW to, Read(t, pc, seen, to)
  PROVE  Releasing => Releasing'
<1>1. ~At(t, "release")
  BY DEF Read, At
<1> QED BY <1>1, OthersRelease DEF Read

\* A request that starts keeps the coupons of a cancelled order accounted for.
LEMMA RequestDebt ==
  ASSUME TasksOK, CancelledReleases, NEW t \in Handlers, Requests(t)
  PROVE  CancelledReleases'
<1> USE HandlersAreTasks
<1>1. CASE PlaceOrder(t)
  BY <1>1 DEF PlaceOrder, CancelledReleases
<1>2. CASE ~PlaceOrder(t)
  <2>1. UNCHANGED <<status, quota, lost>>
    BY <1>2, Zenon DEF Requests, CancelRead, SnoozeRead, RiderPickUpRead, RiderPaidRead,
       AdminRead, AdminPaymentRead, RiderRead, row
  <2>2. \E pc, seen, to : Read(t, pc, seen, to)
    BY <1>2, Zenon DEF Requests, CancelRead, SnoozeRead, RiderPickUpRead, RiderPaidRead,
       AdminRead, AdminPaymentRead, RiderRead, ReadOnly
  <2> QED BY <2>1, <2>2, ReadRelease, DebtStays
<1> QED BY <1>1, <1>2

\* So does every later statement, the cancels and the releases among them.
LEMMA HandlerDebt ==
  ASSUME TasksOK, CancelledReleases, NEW t \in Handlers, HandlerStep(t)
  PROVE  CancelledReleases'
<1> USE HandlersAreTasks
<1> USE DEF row
<1>1. CASE CustomerCancel(t)
  <2>1. CASE status = "Pending"
    <3>1. task'[t].pc = "release"
      BY <1>1, <2>1 DEF CustomerCancel, Goto, TasksOK, Task
    <3> QED BY <3>1 DEF CancelledReleases, At
  <2>2. CASE status # "Pending"
    <3>1. ~At(t, "release") /\ Finish(t) /\ UNCHANGED <<status, quota, lost>>
      BY <1>1, <2>2 DEF CustomerCancel, At
    <3> QED BY <3>1, FinishRelease, DebtStays
  <2> QED BY <2>1, <2>2
<1>2. CASE CustomerRelease(t)
  <2>1. quota' # "active"
    BY <1>2 DEF CustomerRelease, ReleaseQuota
  <2> QED BY <2>1 DEF CancelledReleases
<1>3. CASE AdminCancel(t)
  <2>1. CASE status = task[t].seen
    <3>1. quota' # "active"
      BY <1>3, <2>1 DEF AdminCancel, ReleaseQuota
    <3> QED BY <3>1 DEF CancelledReleases
  <2>2. CASE status # task[t].seen
    <3>1. ~At(t, "release") /\ Finish(t) /\ UNCHANGED <<status, quota, lost>>
      BY <1>3, <2>2 DEF AdminCancel, At
    <3> QED BY <3>1, FinishRelease, DebtStays
  <2> QED BY <2>1, <2>2
<1>4. CASE ReopenOrder(t)
  <2>1. CASE status = "Cancelled"
    <3>1. status' = "Pending"
      BY <1>4, <2>1 DEF ReopenOrder
    <3> QED BY <3>1 DEF CancelledReleases
  <2>2. CASE status # "Cancelled"
    <3>1. ~At(t, "release") /\ Finish(t) /\ UNCHANGED <<status, quota, lost>>
      BY <1>4, <2>2 DEF ReopenOrder, At
    <3> QED BY <3>1, FinishRelease, DebtStays
  <2> QED BY <2>1, <2>2
<1>5. CASE AdminForward(t) \/ RiderMove(t)
  <2>1. ~At(t, "release") /\ Finish(t) /\ UNCHANGED <<quota, lost>>
    BY <1>5 DEF AdminForward, RiderMove, At
  <2>2. status' = "Cancelled" => status = "Cancelled"
    <3>1. /\ Live(task[t].seen)
          /\ Rank(task[t].seen) < Rank(task[t].to)
          /\ status' \in {status, task[t].to}
      BY <1>5 DEF AdminForward, RiderMove, At, TasksOK, Decided
    <3> QED BY <3>1, Ahead
  <2> QED BY <2>1, <2>2, FinishRelease, DebtStays
<1>6. CASE Schedule(t) \/ Snooze(t) \/ AdminPayment(t) \/ RiderPickUp(t) \/ RiderPaid(t)
  <2>1. ~At(t, "release") /\ Finish(t) /\ UNCHANGED <<status, quota, lost>>
    BY <1>6, Zenon DEF Schedule, Snooze, AdminPayment, RiderPickUp, RiderPaid, At
  <2> QED BY <2>1, FinishRelease, DebtStays
<1>7. CASE AdminValidate(t)
  <2>1. ~At(t, "release") /\ UNCHANGED <<status, quota, lost>>
    BY <1>7, Zenon DEF AdminValidate, At
  <2>2. Finish(t) \/ \E pc : Goto(t, pc)
    BY <1>7, Zenon DEF AdminValidate
  <2> QED BY <2>1, <2>2, FinishRelease, GotoRelease, DebtStays
<1>8. CASE RiderAutoPick(t)
  <2>1. ~At(t, "release") /\ UNCHANGED <<status, quota, lost>> /\ Goto(t, "riderMove")
    BY <1>8, Zenon DEF RiderAutoPick, At
  <2> QED BY <2>1, GotoRelease, DebtStays
<1> QED BY <1>1, <1>2, <1>3, <1>4, <1>5, <1>6, <1>7, <1>8 DEF HandlerStep

\* So do the timer, the boot pass, the shops, the engine and time.
LEMMA OtherDebt ==
  ASSUME TasksOK, CancelledReleases,
         Fire \/ TimerStep \/ BootStep \/ Others \/ WindowEnds \/ TimerDue
  PROVE  CancelledReleases'
<1> USE HandlersAreTasks
<1> USE DEF row, mem
<1>1. CASE ShopsCancel
  <2>1. quota' # "active"
    BY <1>1 DEF ShopsCancel, ReleaseQuota
  <2> QED BY <2>1 DEF CancelledReleases
<1>2. CASE FireAccept \/ BootAccept
  <2>1. \E t \in Tasks : ~At(t, "release") /\ Finish(t)
    BY <1>2 DEF FireAccept, BootAccept, At
  <2>2. UNCHANGED <<quota, lost>> /\ (status' = "Cancelled" => status = "Cancelled")
    BY <1>2 DEF FireAccept, BootAccept, AcceptPending
  <2> QED BY <2>1, <2>2, FinishRelease, DebtStays
<1>3. CASE ShopConfirms \/ RiderTakes \/ RiderLoses \/ WindowEnds \/ TimerDue
  <2>1. UNCHANGED <<quota, lost, task>> /\ (status' = "Cancelled" => status = "Cancelled")
    BY <1>3 DEF ShopConfirms, RiderTakes, RiderLoses, WindowEnds, TimerDue
  <2>2. Releasing => Releasing'
    BY <2>1 DEF Releasing, At
  <2> QED BY <2>1, <2>2, DebtStays
<1>4. CASE Fire \/ FireRead \/ BootRead \/ BootSchedule
  <2>1. UNCHANGED <<status, quota, lost>>
    BY <1>4, Zenon DEF Fire, FireRead, BootRead, BootSchedule
  <2>2. \E t \in Tasks : ~At(t, "release") /\ (Finish(t) \/ \E pc : Goto(t, pc))
    BY <1>4 DEF Fire, FireRead, BootRead, BootSchedule, At
  <2> QED BY <2>1, <2>2, FinishRelease, GotoRelease, DebtStays
<1> QED BY <1>1, <1>2, <1>3, <1>4 DEF TimerStep, BootStep, Others

\* A throw or a restart that drops a pending release records it as lost.
LEMMA FailureDebt ==
  ASSUME TasksOK, CancelledReleases, Restart \/ \E t \in Tasks : Abort(t)
  PROVE  CancelledReleases'
<1> USE DEF row
<1>1. CASE Restart
  BY <1>1, Zenon DEF Restart, CancelledReleases
<1>2. CASE \E t \in Tasks : Abort(t)
  <2> PICK t \in Tasks : Abort(t)
    BY <1>2
  <2>1. CASE At(t, "release")
    BY <2>1, Zenon DEF Abort, CancelledReleases
  <2>2. CASE ~At(t, "release")
    <3>1. UNCHANGED <<status, quota>> /\ (lost => lost') /\ Finish(t)
      BY Zenon DEF Abort
    <3> QED BY <2>2, <3>1, FinishRelease, DebtStays
  <2> QED BY <2>1, <2>2
<1> QED BY <1>1, <1>2

-----------------------------------------------------------------------------
(* The theorems                                                            *)

\* Before checkout the inductive invariant holds.
LEMMA InitIInv == Init => IInv
<1> SUFFICES ASSUME Init PROVE IInv
  OBVIOUS
<1>1. RowOK
  BY DEF Init, RowOK, Status, Payment, TimerState
<1>2. FlagsOK
  BY Zenon DEF Init, FlagsOK
<1>3. TasksOK
  <2>1. Idle \in Task /\ [Idle EXCEPT !.pc = "boot"] \in Task
    BY DEF Idle, Task, PC, Status, Payment
  <2>2. task \in [Tasks -> Task] /\ \A t \in Tasks : task[t].pc \in {"idle", "boot"}
    BY <2>1 DEF Init, Idle
  <2> QED BY <2>2 DEF TasksOK, Decided
<1>4. ResponseClock /\ CancelledReleases
  BY DEF Init, ResponseClock, CancelledReleases
<1> QED BY <1>1, <1>2, <1>3, <1>4 DEF IInv

\* Every step keeps it.
LEMMA StepIInv == IInv /\ [Next]_vars => IInv'
<1> SUFFICES ASSUME IInv, [Next]_vars PROVE IInv'
  OBVIOUS
<1>0. RowOK /\ FlagsOK /\ TasksOK /\ ResponseClock /\ CancelledReleases
  BY DEF IInv
<1>1. RowOK' /\ TasksOK'
  <2>1. CASE UNCHANGED vars
    BY <1>0, <2>1 DEF vars, row, mem, RowOK, TasksOK
  <2>2. CASE Next
    BY <1>0, <2>2, RequestTypeOK, HandlerTypeOK, OtherTypeOK, FailureTypeOK DEF Next
  <2> QED BY <2>1, <2>2
<1>2. FlagsOK'
  BY <1>0, FlagsStay
<1>3. ResponseClock'
  BY <1>0, StepMoves, ClockKept
<1>4. CancelledReleases'
  <2>1. CASE UNCHANGED vars
    BY <1>0, <2>1, Zenon DEF vars, row, CancelledReleases, At
  <2>2. CASE Next
    BY <1>0, <2>2, RequestDebt, HandlerDebt, OtherDebt, FailureDebt DEF Next
  <2> QED BY <2>1, <2>2
<1> QED BY <1>1, <1>2, <1>3, <1>4 DEF IInv

\* Every reachable state satisfies the inductive invariant.
THEOREM LifecycleInvariant == Spec => []IInv
BY InitIInv, StepIInv, PTL DEF Spec

\* Rows, timer and requests keep their types.
THEOREM LifecycleTypes == Spec => []TypeOK
BY LifecycleInvariant, IInvType, PTL

\* An order the shops are deciding on carries the stamp of its own acceptance,
\* whichever of the timer, the boot sweep and the admins accepted it.
THEOREM ClockStamped == Spec => []ResponseClock
<1>1. IInv => ResponseClock
  BY DEF IInv
<1> QED BY <1>1, LifecycleInvariant, PTL

\* No concurrent cancel leaves a coupon of a cancelled order counted as used,
\* but for a customer's request that died half way.
THEOREM CouponsReturned == Spec => []CancelledReleases
<1>1. IInv => CancelledReleases
  BY DEF IInv
<1> QED BY <1>1, LifecycleInvariant, PTL

\* The compare-and-sets let an order only go forward, be cancelled, or be
\* reopened, however many requests race; this is the status RiderDispatch
\* assumes.
THEOREM OrderGoesForward == Spec => StatusForward
<1> DEFINE A == status' # status =>
       \/ status = "none" /\ status' = "Pending"
       \/ status = "Cancelled" /\ status' = "Pending"
       \/ status' = "Cancelled" /\ ~Terminal(status)
       \/ status # "Cancelled" /\ Rank(status) < Rank(status')
<1>1. IInv /\ [Next]_vars => [A]_vars
  <2> SUFFICES ASSUME IInv, [Next]_vars PROVE A
    OBVIOUS
  <2>1. StatusMove
    BY StepMoves DEF IInv
  <2>2. Live(status) => ~Terminal(status) /\ status # "Cancelled"
    BY DEF Live, Terminal
  <2>3. CASE Accepts \/ Prepares
    <3>1. Rank("Pending") < Rank("Accepted") /\ Rank("Accepted") < Rank("Preparing")
      BY DEF Rank
    <3> QED BY <2>3, <3>1 DEF Accepts, Prepares
  <2>4. CASE Advances
    BY <2>2, <2>4 DEF Advances
  <2>5. CASE StatusStays \/ Places \/ Cancels \/ Reopens
    BY <2>2, <2>5 DEF StatusStays, Places, Cancels, Reopens
  <2> QED BY <2>1, <2>3, <2>4, <2>5 DEF StatusMove
<1> QED BY <1>1, LifecycleInvariant, PTL DEF Spec, StatusForward


-----------------------------------------------------------------------------
(***************************************************************************)
(* Who still moves a Pending order.  The boot pass skips an order that is  *)
(* claimed, so a claim must always stand for a timer or its callback.      *)
(***************************************************************************)

Firing    == task[Timer].pc \in {"fire", "accept"}
Booting   == task[Boot].pc \in {"boot", "bootAccept", "bootSchedule"}
Moving(t) == \/ At(t, "schedule")
             \/ task[t].pc \in {"adminCancel", "forward"} /\ task[t].seen = "Pending"
Watching  == timer # "off" \/ Firing \/ Booting \/ \E t \in Handlers : Moving(t)

ClaimHeld == claimed => timer # "off" \/ Firing

\* Watched, in these terms.
LEMMA WatchedIs == Watched <=> (status = "Pending" => Watching)
BY Zenon DEF Watched, Watching, Firing, Booting, Moving

\* A request is neither the timer's callback nor the boot pass.
LEMMA Apart ==
  ASSUME TasksOK, NEW t \in Handlers, NEW k, task' = [task EXCEPT ![t] = k]
  PROVE  /\ task'[Timer] = task[Timer] /\ task'[Boot] = task[Boot]
         /\ task'[t] = k
         /\ \A u \in Handlers \ {t} : task'[u] = task[u]
BY TasksAssumption, HandlersAreTasks DEF TasksOK

\* Nor is the boot pass the timer's callback.
LEMMA TimerApart ==
  ASSUME TasksOK, NEW k
  PROVE  /\ task' = [task EXCEPT ![Timer] = k] =>
              task'[Timer] = k /\ \A u \in Handlers \cup {Boot} : task'[u] = task[u]
         /\ task' = [task EXCEPT ![Boot] = k] =>
              task'[Boot] = k /\ \A u \in Handlers \cup {Timer} : task'[u] = task[u]
BY TasksAssumption, HandlersAreTasks DEF TasksOK

\* A request that was not the one to move the order leaves those who are.
LEMMA WatchStays ==
  ASSUME TasksOK, NEW t \in Handlers, ~Moving(t), NEW k, task' = [task EXCEPT ![t] = k],
         timer # "off" => timer' # "off"
  PROVE  Watching => Watching'
<1>1. /\ task'[Timer] = task[Timer] /\ task'[Boot] = task[Boot]
      /\ \A u \in Handlers \ {t} : task'[u] = task[u]
  BY Apart
<1>2. Firing => Firing'
  BY <1>1 DEF Firing
<1>3. Booting => Booting'
  BY <1>1 DEF Booting
<1>4. \A u \in Handlers : Moving(u) => u # t
  OBVIOUS
<1>5. \A u \in Handlers : Moving(u) => Moving(u)'
  BY <1>1, <1>4 DEF Moving, At
<1> QED BY <1>2, <1>3, <1>5, Zenon DEF Watching

\* A request at any other statement is not the one to move the order.
LEMMA NotMoving ==
  ASSUME NEW t, NEW pc, At(t, pc), pc \notin {"schedule", "adminCancel", "forward"}
  PROVE  ~Moving(t)
BY DEF At, Moving

\* A request that starts leaves a placed order watched; the one that places it
\* schedules it.
LEMMA RequestWatch ==
  ASSUME TasksOK, Watched, NEW t \in Handlers, Requests(t)
  PROVE  Watched'
<1>1. CASE PlaceOrder(t)
  <2>1. Goto(t, "schedule")
    BY <1>1 DEF PlaceOrder
  <2>2. task[t] \in Task /\ t \in Tasks
    BY HandlersAreTasks DEF TasksOK
  <2>3. task'[t].pc = "schedule"
    BY <2>1, <2>2 DEF Goto, TasksOK, Task
  <2>4. Moving(t)'
    BY <2>3 DEF Moving, At
  <2> QED BY <2>4, WatchedIs DEF Watching, Watched, Moving
<1>2. CASE ~PlaceOrder(t)
  <2>1. UNCHANGED <<status, timer>>
    BY <1>2, Zenon DEF Requests, CancelRead, SnoozeRead, RiderPickUpRead, RiderPaidRead,
       AdminRead, AdminPaymentRead, RiderRead, row, mem
  <2>2. \E pc, seen, to : Read(t, pc, seen, to)
    BY <1>2, Zenon DEF Requests, CancelRead, SnoozeRead, RiderPickUpRead, RiderPaidRead,
       AdminRead, AdminPaymentRead, RiderRead, ReadOnly
  <2>3. At(t, "idle") /\ \E k : task' = [task EXCEPT ![t] = k]
    BY <2>2, Zenon DEF Read
  <2>4. Watching => Watching'
    BY <2>1, <2>3, NotMoving, WatchStays
  <2> QED BY <2>1, <2>4, Zenon DEF Watched, Watching, Firing, Booting, Moving
<1> QED BY <1>1, <1>2

\* A request that ends, or goes on, having had nothing to do with the status.
LEMMA QuietWatch ==
  ASSUME TasksOK, Watched, NEW t \in Handlers, ~Moving(t), Finish(t) \/ \E pc : Goto(t, pc),
         status' = "Pending" => status = "Pending",
         timer # "off" => timer' # "off"
  PROVE  Watched'
<1>1. \E k : task' = [task EXCEPT ![t] = k]
  BY Zenon DEF Finish, Goto
<1>2. Watching => Watching'
  BY <1>1, WatchStays
<1> QED BY <1>2, Zenon DEF Watched, Watching, Firing, Booting, Moving

\* Nothing to be watched.
LEMMA NotPending == status' # "Pending" => Watched'
BY Zenon DEF Watched

\* Every later statement: a request that has taken the timer's place moves the
\* order, unless it has moved already.
LEMMA HandlerWatch ==
  ASSUME RowOK, TasksOK, Watched, NEW t \in Handlers, HandlerStep(t), ~ReopenOrder(t),
         ~(AdminValidate(t) /\ AdminRoute(task[t].seen, task[t].to) = "idle")
  PROVE  Watched'
<1> USE HandlersAreTasks
<1> USE DEF row, mem
<1>1. CASE Schedule(t)
  <2>1. timer' # "off"
    BY <1>1 DEF Schedule, Arm
  <2> QED BY <2>1, Zenon DEF Watched
<1>2. CASE \/ CustomerRelease(t) \/ Snooze(t) \/ AdminPayment(t) \/ RiderPickUp(t)
           \/ RiderPaid(t) \/ RiderAutoPick(t)
  <2>1. ~Moving(t)
    BY <1>2 DEF CustomerRelease, Snooze, AdminPayment, RiderPickUp, RiderPaid,
                RiderAutoPick, At, Moving
  <2>2. Finish(t) \/ \E pc : Goto(t, pc)
    BY <1>2, Zenon DEF CustomerRelease, Snooze, AdminPayment, RiderPickUp, RiderPaid,
                RiderAutoPick
  <2>3. status' = status /\ (timer # "off" => timer' # "off")
    BY <1>2 DEF CustomerRelease, Snooze, AdminPayment, RiderPickUp, RiderPaid,
                RiderAutoPick
  <2> QED BY <2>1, <2>2, <2>3, QuietWatch
<1>3. CASE CustomerCancel(t)
  <2>1. ~Moving(t)
    BY <1>3 DEF CustomerCancel, At, Moving
  <2>2. Finish(t) \/ \E pc : Goto(t, pc)
    BY <1>3, Zenon DEF CustomerCancel
  <2>3. (status' = "Pending" => status = "Pending") /\ timer' = timer
    BY <1>3 DEF CustomerCancel, Cancelled
  <2> QED BY <2>1, <2>2, <2>3, QuietWatch
<1>4. CASE AdminCancel(t) \/ AdminForward(t)
  <2>1. CASE status = task[t].seen
    <3>1. status' # "Pending"
      <4>1. CASE AdminCancel(t)
        BY <2>1, <4>1 DEF AdminCancel, Cancelled
      <4>2. CASE AdminForward(t)
        <5>1. /\ Live(task[t].seen)
              /\ Rank(task[t].seen) < Rank(task[t].to)
              /\ status' = task[t].to
          BY <2>1, <4>2 DEF AdminForward, At, TasksOK, Decided
        <5> QED BY <5>1, Ahead
      <4> QED BY <1>4, <4>1, <4>2
    <3> QED BY <3>1, NotPending
  <2>2. CASE status # task[t].seen
    <3>1. status' = status /\ timer' = timer /\ Finish(t)
      BY <1>4, <2>2, Zenon DEF AdminCancel, AdminForward
    <3>2. task[t].pc # "schedule"
      BY <1>4 DEF AdminCancel, AdminForward, At
    <3>3. CASE status = "Pending"
      <4>1. ~Moving(t)
        BY <2>2, <3>2, <3>3, Zenon DEF Moving, At
      <4> QED BY <3>1, <4>1, QuietWatch
    <3>4. CASE status # "Pending"
      BY <3>1, <3>4, NotPending
    <3> QED BY <3>3, <3>4
  <2> QED BY <2>1, <2>2
<1>5. CASE RiderMove(t)
  <2>1. ~Moving(t)
    BY <1>5 DEF RiderMove, At, Moving
  <2>2. Finish(t) /\ timer' = timer
    BY <1>5 DEF RiderMove
  <2>3. status' = "Pending" => status = "Pending"
    <3>1. task[t].to \in {"Out for Delivery", "Delivered"}
      BY <1>5 DEF RiderMove, At, TasksOK, Decided
    <3> QED BY <1>5, <3>1 DEF RiderMove
  <2> QED BY <2>1, <2>2, <2>3, QuietWatch
<1>6. CASE AdminValidate(t)
  <2> DEFINE next == AdminRoute(task[t].seen, task[t].to)
  <2>0. ~Moving(t) /\ status' = status
    BY <1>6 DEF AdminValidate, At, Moving
  <2>1. next # "idle" /\ Goto(t, next)
    BY <1>6 DEF AdminValidate
  <2>2. CASE task[t].seen = "Pending"
    <3>1. next \in {"adminCancel", "forward"}
      <4>1. next \in {"idle", "reopen", "adminCancel", "forward"}
        BY <1>6, RouteOK DEF AdminValidate, At, TasksOK, Decided, Task
      <4>2. next # "reopen"
        BY <2>2 DEF AdminRoute
      <4> QED BY <2>1, <4>1, <4>2
    <3>2. task[t] \in Task
      BY DEF TasksOK
    <3>3. task'[t].pc = next /\ task'[t].seen = "Pending"
      <4> HIDE DEF next
      <4> QED BY <2>1, <2>2, <3>2 DEF Goto, TasksOK, Task
    <3>4. Moving(t)'
      BY <3>1, <3>3 DEF Moving
    <3> QED BY <3>4, Zenon DEF Watched, Moving
  <2>3. CASE task[t].seen # "Pending"
    <3>1. timer' = timer
      BY <1>6, <2>3 DEF AdminValidate
    <3> QED BY <2>0, <2>1, <3>1, QuietWatch
  <2> QED BY <2>2, <2>3
<1> QED BY <1>1, <1>2, <1>3, <1>4, <1>5, <1>6 DEF HandlerStep

\* The timer's callback and the boot pass: one accepts the order, or the other
\* has it, as the claim says.
LEMMA TimerWatch ==
  ASSUME RowOK, TasksOK, Watched, ClaimHeld, Fire \/ TimerStep \/ BootStep
  PROVE  Watched'
<1> USE HandlersAreTasks
<1> USE DEF row, mem
<1>t. task[Timer] \in Task /\ task[Boot] \in Task
  BY DEF TasksOK
<1>1. CASE Fire
  <2>1. task'[Timer].pc = "fire"
    BY <1>1, <1>t DEF Fire, Goto, TasksOK, Task
  <2> QED BY <2>1, Zenon DEF Watched
<1>2. CASE FireRead
  <2>1. CASE status = "Pending"
    <3>1. task'[Timer].pc = "accept"
      BY <1>2, <2>1, <1>t DEF FireRead, Goto, TasksOK, Task
    <3> QED BY <3>1, Zenon DEF Watched
  <2>2. CASE status # "Pending"
    BY <1>2, <2>2, NotPending DEF FireRead
  <2> QED BY <2>1, <2>2
<1>3. CASE FireAccept
  BY <1>3, NotPending DEF FireAccept, AcceptPending
<1>4. CASE BootRead
  <2>1. CASE status = "Pending"
    <3>1. task'[Boot].pc \in {"bootAccept", "bootSchedule"}
      BY <1>4, <2>1, <1>t DEF BootRead, Goto, TasksOK, Task
    <3> QED BY <3>1, Zenon DEF Watched
  <2>2. CASE status # "Pending"
    BY <1>4, <2>2, NotPending DEF BootRead
  <2> QED BY <2>1, <2>2
<1>5. CASE BootAccept \/ BootSchedule
  <2>1. CASE claimed
    <3>1. status' = status /\ timer' = timer /\ Finish(Boot)
      BY <1>5, <2>1, Zenon DEF BootAccept, BootSchedule
    <3>2. task'[Timer] = task[Timer]
      BY <3>1, TimerApart DEF Finish
    <3>3. timer' # "off" \/ task'[Timer].pc \in {"fire", "accept"}
      BY <2>1, <3>1, <3>2, Zenon DEF ClaimHeld, Firing
    <3> QED BY <3>3, Zenon DEF Watched
  <2>2. CASE ~claimed
    <3>1. BootAccept => status' # "Pending"
      BY <2>2 DEF BootAccept, AcceptPending
    <3>2. BootSchedule => timer' # "off"
      BY <2>2 DEF BootSchedule, Arm
    <3> QED BY <1>5, <3>1, <3>2, Zenon DEF Watched
  <2> QED BY <2>1, <2>2
<1> QED BY <1>1, <1>2, <1>3, <1>4, <1>5 DEF TimerStep, BootStep

\* The shops, the engine and time do not touch who watches.
LEMMA OtherWatch ==
  ASSUME Watched, Others \/ WindowEnds \/ TimerDue \/ UNCHANGED vars
  PROVE  Watched'
<1>1. /\ task' = task
      /\ timer # "off" => timer' # "off"
      /\ status' = "Pending" => status = "Pending"
  BY DEF Others, ShopConfirms, ShopsCancel, Cancelled, RiderTakes, RiderLoses, WindowEnds,
         TimerDue, vars, row, mem
<1> QED BY <1>1, Zenon DEF Watched, At

\* A restart begins with the boot pass.
LEMMA RestartWatch == TasksOK /\ Restart => Watched'
<1> SUFFICES ASSUME TasksOK, Restart PROVE Watched'
  OBVIOUS
<1>1. task'[Boot].pc = "boot"
  BY HandlersAreTasks DEF Restart, Idle
<1> QED BY <1>1, Zenon DEF Watched

\* A claim is taken with a timer and given up with the callback.
LEMMA ClaimKept ==
  ASSUME TasksOK, ClaimHeld, [Next]_vars
  PROVE  ClaimHeld'
<1> USE HandlersAreTasks
<1> USE DEF row, mem
<1>s. ASSUME task'[Timer] = task[Timer], claimed' => claimed, timer # "off" => timer' # "off"
      PROVE  ClaimHeld'
  BY <1>s, Zenon DEF ClaimHeld, Firing
<1>1. ASSUME NEW t \in Handlers, Requests(t)
      PROVE  ClaimHeld'
  <2>1. UNCHANGED <<claimed, timer>> /\ \E k : task' = [task EXCEPT ![t] = k]
    BY <1>1, Zenon DEF Requests, PlaceOrder, Goto, CancelRead, SnoozeRead, RiderPickUpRead,
       RiderPaidRead, AdminRead, AdminPaymentRead, RiderRead, ReadOnly, Read
  <2> QED BY <1>s, <2>1, Apart
<1>2. ASSUME NEW t \in Handlers, HandlerStep(t)
      PROVE  ClaimHeld'
  <2>1. CASE Schedule(t)
    BY <2>1, Zenon DEF Schedule, Arm, ClaimHeld
  <2>2. CASE AdminValidate(t)
    <3>1. \E k : task' = [task EXCEPT ![t] = k]
      BY <2>2, Zenon DEF AdminValidate, Finish, Goto
    <3>2. ~claimed' \/ UNCHANGED <<claimed, timer>>
      BY <2>2, Zenon DEF AdminValidate, Disarm
    <3> QED BY <1>s, <3>1, <3>2, Apart DEF ClaimHeld
  <2>3. CASE ~Schedule(t) /\ ~AdminValidate(t)
    <3>1. \E k : task' = [task EXCEPT ![t] = k]
      BY <1>2, <2>3, Zenon DEF HandlerStep, CustomerCancel, CustomerRelease, Snooze, AdminCancel,
         ReopenOrder, AdminForward, AdminPayment, RiderPickUp, RiderAutoPick, RiderMove,
         RiderPaid, Finish, Goto
    <3>2. claimed' = claimed /\ (timer # "off" => timer' # "off")
      BY <1>2, <2>3 DEF HandlerStep, CustomerCancel, CustomerRelease, Snooze, AdminCancel,
         ReopenOrder, AdminForward, AdminPayment, RiderPickUp, RiderAutoPick, RiderMove,
         RiderPaid
    <3> QED BY <1>s, <3>1, <3>2, Apart
  <2> QED BY <2>1, <2>2, <2>3
<1>3. CASE Fire
  <2>1. task'[Timer].pc = "fire"
    BY <1>3 DEF Fire, Goto, TasksOK, Task
  <2> QED BY <2>1, Zenon DEF ClaimHeld, Firing
<1>4. CASE FireRead
  <2>1. CASE status = "Pending"
    <3>1. task'[Timer].pc = "accept"
      BY <1>4, <2>1 DEF FireRead, Goto, TasksOK, Task
    <3> QED BY <3>1, Zenon DEF ClaimHeld, Firing
  <2>2. CASE status # "Pending"
    BY <1>4, <2>2 DEF FireRead, ClaimHeld
  <2> QED BY <2>1, <2>2
<1>5. CASE FireAccept \/ Restart
  BY <1>5, Zenon DEF FireAccept, Restart, ClaimHeld
<1>6. CASE BootRead \/ BootAccept
  <2>1. \E k : task' = [task EXCEPT ![Boot] = k]
    BY <1>6, Zenon DEF BootRead, BootAccept, Finish, Goto
  <2>2. UNCHANGED <<claimed, timer>>
    BY <1>6, Zenon DEF BootRead, BootAccept
  <2> QED BY <1>s, <2>1, <2>2, TimerApart
<1>7. CASE BootSchedule
  <2>1. task'[Timer] = task[Timer]
    BY <1>7, TimerApart DEF BootSchedule, Finish
  <2>2. timer' # "off" \/ UNCHANGED <<claimed, timer>>
    BY <1>7 DEF BootSchedule, Arm
  <2> QED BY <1>s, <2>1, <2>2, Zenon DEF ClaimHeld
<1>8. CASE Others \/ WindowEnds \/ TimerDue \/ UNCHANGED vars
  <2>1. task' = task /\ claimed' = claimed /\ (timer # "off" => timer' # "off")
    BY <1>8 DEF Others, ShopConfirms, ShopsCancel, RiderTakes, RiderLoses, WindowEnds,
       TimerDue, vars
  <2> QED BY <1>s, <2>1
<1>9. ASSUME NEW t \in Tasks, Abort(t)
      PROVE  ClaimHeld'
  <2>1. CASE t = Timer
    BY <1>9, <2>1, Zenon DEF Abort, ClaimHeld
  <2>2. CASE t # Timer
    <3>1. task'[Timer] = task[Timer]
      BY <1>9, <2>2 DEF Abort, Finish, TasksOK
    <3>2. (claimed' => claimed) /\ timer' = timer
      BY <1>9, Zenon DEF Abort
    <3> QED BY <1>s, <3>1, <3>2
  <2> QED BY <2>1, <2>2
<1> QED BY <1>1, <1>2, <1>3, <1>4, <1>5, <1>6, <1>7, <1>8, <1>9
       DEF Next, TimerStep, BootStep

\* No step but a reopen, a refused request and a throw leaves a Pending order to
\* nobody: the safety that LeavesPending rests on, for any number of requests,
\* throws and restarts.
THEOREM PendingStaysWatched == Spec => WatchKept
<1> DEFINE Excused ==
       \/ \E t \in Handlers :
            \/ ReopenOrder(t)
            \/ AdminValidate(t) /\ AdminRoute(task[t].seen, task[t].to) = "idle"
       \/ \E t \in Fallible : Abort(t)
<1>1. Init => ClaimHeld
  BY Zenon DEF Init, ClaimHeld
<1>2. IInv /\ ClaimHeld /\ [Next]_vars => ClaimHeld'
  BY ClaimKept DEF IInv
<1>3. IInv /\ ClaimHeld /\ [Next]_vars => [Watched /\ ~Watched' => Excused]_vars
  <2> SUFFICES ASSUME IInv, ClaimHeld, [Next]_vars, Watched, ~Excused
               PROVE  Watched'
    OBVIOUS
  <2>0. RowOK /\ TasksOK
    BY DEF IInv
  <2>1. ASSUME NEW t \in Handlers, Requests(t) \/ HandlerStep(t)
        PROVE  Watched'
    BY <2>0, <2>1, RequestWatch, HandlerWatch
  <2>2. ASSUME NEW t \in Tasks, Abort(t)
        PROVE  Watched'
    BY <2>2 DEF Abort
  <2> HIDE DEF Excused
  <2> QED BY <2>0, <2>1, <2>2, TimerWatch, OtherWatch, RestartWatch DEF Next
<1> QED
  BY <1>1, <1>2, <1>3, LifecycleInvariant, PTL DEF Spec, WatchKept
=============================================================================
