------------------------ MODULE RiderDispatch_proofs ------------------------
(***************************************************************************)
(* Theorems about RiderDispatch for any number of orders, riders and       *)
(* concurrent calls.  StepEffects sorts the steps of the engine by what    *)
(* they do to the rows; the invariants, HolderKept and the refinement of   *)
(* RiderHandoff are then proved once per effect.                           *)
(***************************************************************************)
EXTENDS RiderDispatch, FiniteSetTheorems, TLAPS

RowsOK ==
  /\ status \in [Orders -> Status]
  /\ rider \in [Orders -> Riders \cup {NoRider}]
  /\ assignment \in [Orders -> Assignment]
  /\ search \in [Orders -> Search]
  /\ offer \in [Orders -> [Riders -> OfferState]]
  /\ recent \subseteq Orders
  /\ online \subseteq Riders
  /\ alerted \subseteq Orders

\* What TypeOK says of one call.
TaskOK(k) ==
  /\ k \in Task
  /\ k.pc # "idle" => k.order \in Orders
  /\ k.pc \in {"reassignRevoke", "reassignInsert"} => k.target \in Riders

\* Only call t moves, and to k.
Moves(t, k) == task' = [task EXCEPT ![t] = k]

\* Type correctness is that of the rows and of each task.
LEMMA TypeParts ==
  ASSUME task \in [Tasks -> Task]
  PROVE  TypeOK <=> RowsOK /\ \A t \in Tasks : TaskOK(task[t])
BY DEF TypeOK, RowsOK, TaskOK

\* A step that moves one call to a proper state leaves all calls proper.
LEMMA TaskMoves ==
  ASSUME TypeOK, NEW t \in Tasks, NEW k, TaskOK(k), Moves(t, k), RowsOK'
  PROVE  TypeOK'
BY DEF TypeOK, RowsOK, TaskOK, Moves

\* A step that leaves the tasks alone needs only well-typed rows.
LEMMA TaskStays ==
  ASSUME TypeOK, UNCHANGED task, RowsOK'
  PROVE  TypeOK'
BY DEF TypeOK, RowsOK

\* A call at its first statement is a well-formed task.
LEMMA FreshOK ==
  ASSUME NEW pc \in PC \ {"reassignRevoke", "reassignInsert"}, NEW o \in Orders
  PROVE  TaskOK(Fresh(pc, o))
<1> DEFINE call == IF pc = "load" THEN "continue" ELSE "start"
<1>1. 0 \in 0 .. OfferRiderAttempts /\ call \in {"start", "continue"}
  BY BoundsAssumption
<1>2. Fresh(pc, o) = [pc |-> pc, order |-> o, pool |-> {}, excl |-> {}, tries |-> 0,
                      call |-> call, target |-> NoRider]
  BY DEF Fresh
<1> QED
  <2> HIDE DEF call
  <2> QED BY <1>1, <1>2 DEF TaskOK, Task

\* A slot at rest is one too.
LEMMA IdleOK == TaskOK(Idle)
BY BoundsAssumption DEF TaskOK, Idle, Task, PC

\* A call that ends keeps the types.
LEMMA FinishOK ==
  ASSUME TypeOK, NEW t \in Tasks, Finish(t), RowsOK'
  PROVE  TypeOK'
BY IdleOK, TaskMoves DEF Finish, Moves

\* So does one that goes on to its next statement.
LEMMA GotoOK ==
  ASSUME TypeOK, NEW t \in Tasks, NEW pc \in PC \ {"idle", "reassignRevoke", "reassignInsert"},
         ~At(t, "idle"), Goto(t, pc), RowsOK'
  PROVE  TypeOK'
<1>0. TaskOK(task[t]) /\ task[t].pc # "idle"
  BY DEF TypeOK, TaskOK, At
<1>1. TaskOK([task[t] EXCEPT !.pc = pc])
  BY <1>0 DEF TaskOK, Task
<1>2. Moves(t, [task[t] EXCEPT !.pc = pc])
  BY DEF Goto, Moves
<1> QED BY <1>1, <1>2, TaskMoves

\* So does one that begins.
LEMMA BeginOK ==
  ASSUME TypeOK, NEW t \in Tasks, NEW o \in Orders,
         NEW pc \in PC \ {"reassignRevoke", "reassignInsert"}, Begin(t, pc, o), RowsOK'
  PROVE  TypeOK'
BY FreshOK, TaskMoves DEF Begin, Moves

\* So does one that found nobody to ask.
LEMMA NoOfferOK ==
  ASSUME TypeOK, NEW t \in Tasks, ~At(t, "idle"), NoOffer(t), RowsOK'
  PROVE  TypeOK'
<1>1. CASE task[t].call = "continue"
  <2>1. TaskOK(Fresh("window", task[t].order))
    BY FreshOK DEF TypeOK, At, PC
  <2>2. Moves(t, Fresh("window", task[t].order))
    BY <1>1 DEF NoOffer, Moves
  <2> QED BY <2>1, <2>2, TaskMoves
<1>2. CASE task[t].call # "continue"
  BY <1>2, FinishOK DEF NoOffer
<1> QED BY <1>1, <1>2

-----------------------------------------------------------------------------
(* Type correctness, one action at a time                                  *)

\* One row of rider_order_offers changes its state.
LEMMA SetOfferType ==
  ASSUME TypeOK, NEW o \in Orders, NEW r \in Riders, NEW s \in OfferState, SetOffer(o, r, s)
  PROVE  offer' \in [Orders -> [Riders -> OfferState]]
<1>1. [offer[o] EXCEPT ![r] = s] \in [Riders -> OfferState]
  BY DEF TypeOK
<1>2. offer' = [offer EXCEPT ![o] = [offer[o] EXCEPT ![r] = s]]
  BY DEF SetOffer
<1> QED BY <1>1, <1>2 DEF TypeOK

\* Every statement of a running call keeps the types.
LEMMA EngineTypeOK ==
  ASSUME TypeOK, NEW t \in Tasks, EngineStep(t)
  PROVE  TypeOK'
<1> USE DEF At
<1>o. task[t].pc # "idle" => task[t].order \in Orders
  BY DEF TypeOK
<1>1. CASE StartAssignment(t)
  <2>1. RowsOK'
    BY <1>1, <1>o DEF StartAssignment, TypeOK, RowsOK, Assignment, Search
  <2> QED BY <1>1, <2>1, FinishOK, GotoOK DEF StartAssignment, PC
<1>2. CASE ContinueLoad(t)
  <2>1. RowsOK'
    BY <1>2 DEF ContinueLoad, TypeOK, RowsOK, rows
  <2> QED BY <1>2, <2>1, FinishOK, GotoOK DEF ContinueLoad, PC
<1>3. CASE ContinuePending(t)
  <2>1. RowsOK'
    BY <1>3 DEF ContinuePending, TypeOK, RowsOK, rows
  <2> QED BY <1>3, <2>1, FinishOK, GotoOK DEF ContinuePending, PC
<1>4. CASE ReadExcluded(t)
  <2>1. RowsOK'
    BY <1>4 DEF ReadExcluded, TypeOK, RowsOK, rows
  <2> DEFINE k == [task[t] EXCEPT !.pc = "eligible", !.excl = Asked(task[t].order)]
  <2>2. TaskOK(task[t]) /\ Asked(task[t].order) \subseteq Riders
    BY DEF TypeOK, TaskOK, Asked
  <2>3. TaskOK(k)
    BY <1>4, <2>2, <1>o DEF ReadExcluded, TaskOK, Task, PC
  <2>4. Moves(t, k)
    BY <1>4 DEF ReadExcluded, Moves
  <2> QED BY <2>1, <2>3, <2>4, TaskMoves
<1>5. CASE ReadEligible(t)
  <2>1. RowsOK'
    BY <1>5 DEF ReadEligible, TypeOK, RowsOK, rows
  <2> DEFINE pool == Eligible(task[t].excl)
             next == IF task[t].call = "continue" THEN "mark" ELSE "insert"
             k == [task[t] EXCEPT !.pool = pool, !.excl = {}, !.pc = next]
  <2>2. CASE pool = {}
    BY <1>5, <2>1, <2>2, NoOfferOK DEF ReadEligible
  <2>3. CASE pool # {}
    <3>1. TaskOK(task[t]) /\ pool \subseteq Riders /\ next \in {"mark", "insert"}
      BY DEF TypeOK, TaskOK, Eligible
    <3>2. TaskOK(k)
      <4> HIDE DEF pool, next
      <4> QED BY <1>5, <3>1, <1>o DEF ReadEligible, TaskOK, Task, PC
    <3>3. Moves(t, k)
      BY <1>5, <2>3 DEF ReadEligible, Moves
    <3> QED BY <2>1, <3>2, <3>3, TaskMoves
  <2> QED BY <2>2, <2>3
<1>6. CASE MarkBeforeOffer(t)
  <2>1. RowsOK'
    BY <1>6, <1>o DEF MarkBeforeOffer, MarkSearching, TypeOK, RowsOK, Assignment, Search
  <2> QED BY <1>6, <2>1, GotoOK DEF MarkBeforeOffer, PC
<1>7. ASSUME NEW r \in Riders, CreateOffer(t, r)
      PROVE  TypeOK'
  <2>1. RowsOK'
    BY <1>7, <1>o DEF CreateOffer, InsertOffer, SetOffer, TypeOK, RowsOK, Assignment, OfferState
  <2> QED BY <1>7, <2>1, FinishOK DEF CreateOffer
<1>8. ASSUME NEW r \in Riders, RiderTaken(t, r)
      PROVE  TypeOK'
  <2>1. RowsOK'
    BY <1>8 DEF RiderTaken, TypeOK, RowsOK, rows
  <2> DEFINE left  == task[t].pool \ {r}
             tried == task[t].tries + 1
             k == [task[t] EXCEPT !.pool = left, !.tries = tried]
  <2>2. CASE left # {} /\ tried < OfferRiderAttempts
    <3>1. TaskOK(task[t])
      BY DEF TypeOK, TaskOK
    <3>2. left \subseteq Riders /\ tried \in 0 .. OfferRiderAttempts
      BY <3>1, <2>2, BoundsAssumption DEF TaskOK, Task
    <3>3. TaskOK(k)
      <4> HIDE DEF left, tried
      <4> QED BY <3>1, <3>2 DEF TaskOK, Task
    <3>4. Moves(t, k)
      BY <1>8, <2>2 DEF RiderTaken, Moves
    <3> QED BY <2>1, <3>3, <3>4, TaskMoves
  <2>3. CASE ~(left # {} /\ tried < OfferRiderAttempts)
    BY <1>8, <2>1, <2>3, NoOfferOK DEF RiderTaken
  <2> QED BY <2>2, <2>3
<1>9. ASSUME NEW r \in Riders, OrderConflict(t, r)
      PROVE  TypeOK'
  <2>1. RowsOK'
    BY <1>9 DEF OrderConflict, TypeOK, RowsOK, rows
  <2> QED BY <1>9, <2>1, NoOfferOK DEF OrderConflict
<1>10. CASE CheckWindow(t) \/ StampWindow(t) \/ RecheckWindow(t)
  <2>1. RowsOK'
    BY <1>10, <1>o DEF CheckWindow, StampWindow, RecheckWindow, MarkSearching, TypeOK, RowsOK,
                       Assignment, Search, rows
  <2>2. ~At(t, "idle")
    BY <1>10 DEF CheckWindow, StampWindow, RecheckWindow
  <2>3. Finish(t) \/ \E pc \in {"stamp", "reread", "failLoad"} : Goto(t, pc)
    BY <1>10, <1>o DEF CheckWindow, StampWindow, RecheckWindow, TypeOK, Search
  <2> QED BY <2>1, <2>2, <2>3, FinishOK, GotoOK DEF PC
<1>11. CASE FailLoad(t)
  <2>1. RowsOK'
    BY <1>11 DEF FailLoad, TypeOK, RowsOK, rows
  <2> QED BY <1>11, <2>1, FinishOK, GotoOK DEF FailLoad, PC
<1>12. CASE FailTerminal(t)
  <2>1. RowsOK'
    BY <1>12, <1>o DEF FailTerminal, TypeOK, RowsOK, Assignment
  <2> QED BY <1>12, <2>1, FinishOK DEF FailTerminal
<1>13. CASE FailMark(t)
  <2>1. RowsOK'
    BY <1>13, <1>o DEF FailMark, TypeOK, RowsOK, Assignment
  <2> QED BY <1>13, <2>1, GotoOK DEF FailMark, PC
<1>14. CASE FailRevoke(t)
  <2>1. RowsOK'
    BY <1>14, <1>o DEF FailRevoke, RevokeOpenOffers, TypeOK, RowsOK, OfferState
  <2> QED BY <1>14, <2>1, GotoOK DEF FailRevoke, PC
<1>15. CASE FailNotify(t)
  <2>1. RowsOK'
    BY <1>15, <1>o DEF FailNotify, TypeOK, RowsOK, rows
  <2> QED BY <1>15, <2>1, FinishOK DEF FailNotify
<1>16. CASE ReassignRevoke(t)
  <2>1. RowsOK'
    BY <1>16, <1>o DEF ReassignRevoke, RevokeOpenOffers, TypeOK, RowsOK, OfferState
  <2> DEFINE k == [task[t] EXCEPT !.pc = "reassignInsert"]
  <2>2. TaskOK(task[t]) /\ task[t].pc = "reassignRevoke"
    BY <1>16 DEF ReassignRevoke, TypeOK, TaskOK
  <2>3. TaskOK(k)
    BY <2>2 DEF TaskOK, Task, PC
  <2>4. Moves(t, k)
    BY <1>16 DEF ReassignRevoke, Goto, Moves
  <2> QED BY <2>1, <2>3, <2>4, TaskMoves
<1>17. CASE ReassignInsert(t)
  <2>0. task[t].target \in Riders
    BY <1>17 DEF ReassignInsert, TypeOK
  <2>1. RowsOK'
    BY <1>17, <1>o, <2>0, SetOfferType
       DEF ReassignInsert, InsertOffer, TypeOK, RowsOK, Assignment, OfferState
  <2> QED BY <1>17, <2>1, FinishOK DEF ReassignInsert
<1>18. CASE RevokeOffers(t)
  <2>1. RowsOK'
    BY <1>18, <1>o DEF RevokeOffers, RevokeOpenOffers, TypeOK, RowsOK, OfferState
  <2> QED BY <1>18, <2>1, FinishOK DEF RevokeOffers
<1> QED
  BY <1>1, <1>2, <1>3, <1>4, <1>5, <1>6, <1>7, <1>8, <1>9, <1>10, <1>11, <1>12,
     <1>13, <1>14, <1>15, <1>16, <1>17, <1>18 DEF EngineStep

\* Every step of the system does.
LEMMA StepTypeOK ==
  ASSUME TypeOK, [Next]_vars
  PROVE  TypeOK'
<1> USE DEF At
<1>1. ASSUME NEW t \in Tasks, EngineStep(t)
      PROVE  TypeOK'
  BY <1>1, EngineTypeOK
<1>2. ASSUME NEW t \in Tasks, Abort(t)
      PROVE  TypeOK'
  <2>1. RowsOK'
    BY <1>2 DEF Abort, TypeOK, RowsOK, rows
  <2> QED BY <1>2, <2>1, FinishOK DEF Abort
<1>3. CASE RiderAnswers
  <2> SUFFICES ASSUME NEW o \in Orders, NEW r \in Riders
               PROVE  /\ AcceptOffer(o, r) \/ AcceptUnassignable(o, r) => TypeOK'
                      /\ \A t \in Handlers : AcceptExpired(t, o, r) => TypeOK'
                      /\ \A t \in Handlers : RejectOffer(t, o, r) => TypeOK'
    BY <1>3 DEF RiderAnswers
  <2>1. ASSUME AcceptOffer(o, r) \/ AcceptUnassignable(o, r)
        PROVE  TypeOK'
    <3>1. offer' \in [Orders -> [Riders -> OfferState]]
      BY <2>1, SetOfferType DEF AcceptOffer, AcceptUnassignable, TypeOK, RowsOK, OfferState
    <3>2. CASE AcceptOffer(o, r)
      <4>1. RowsOK'
        BY <3>1, <3>2 DEF AcceptOffer, TypeOK, RowsOK, Assignment, OfferState
      <4> QED BY <3>2, <4>1, TaskStays DEF AcceptOffer
    <3>3. CASE AcceptUnassignable(o, r)
      <4>1. RowsOK'
        BY <3>1, <3>3 DEF AcceptUnassignable, TypeOK, RowsOK, OfferState
      <4> QED BY <3>3, <4>1, TaskStays DEF AcceptUnassignable
    <3> QED BY <2>1, <3>2, <3>3
  <2>2. ASSUME NEW t \in Handlers, AcceptExpired(t, o, r) \/ RejectOffer(t, o, r)
        PROVE  TypeOK'
    <3>1. RowsOK'
      BY <2>2, SetOfferType DEF AcceptExpired, RejectOffer, TypeOK, RowsOK, OfferState
    <3>2. Begin(t, "load", o)
      BY <2>2 DEF AcceptExpired, RejectOffer
    <3> QED BY <3>1, <3>2, BeginOK DEF Tasks, PC
  <2> QED BY <2>1, <2>2
<1>4. ASSUME NEW o \in Orders, NEW t \in Tasks, RecoverStuck(t, o)
      PROVE  TypeOK'
  <2>1. RowsOK'
    BY <1>4 DEF RecoverStuck, TypeOK, RowsOK, rows
  <2>2. Begin(t, "load", o) \/ Begin(t, "window", o)
    BY <1>4 DEF RecoverStuck
  <2> QED BY <2>1, <2>2, BeginOK DEF PC
<1>5. ASSUME NEW o \in Orders, NEW r \in Riders, ExpireOffer(o, r)
      PROVE  TypeOK'
  <2>1. RowsOK'
    BY <1>5 DEF ExpireOffer, SetOffer, TypeOK, RowsOK, OfferState
  <2>2. Begin(Sweeper, "load", o)
    BY <1>5 DEF ExpireOffer
  <2> QED BY <2>1, <2>2, BeginOK DEF Tasks, PC
<1>6. CASE SweeperTick
  BY <1>4, <1>5, <1>6 DEF SweeperTick, Tasks
<1>7. ASSUME NEW t \in Handlers, NEW o \in Orders, CallStart(t, o)
      PROVE  TypeOK'
  <2>1. RowsOK'
    BY <1>7 DEF CallStart, TypeOK, RowsOK, rows
  <2> QED BY <1>7, <2>1, BeginOK DEF CallStart, Tasks, PC
<1>8. ASSUME NEW t \in Handlers, NEW o \in Orders, CancelOrder(t, o) \/ ReopenOrder(t, o)
      PROVE  TypeOK'
  <2>1. RowsOK'
    BY <1>8 DEF CancelOrder, ReopenOrder, TypeOK, RowsOK, Status, Assignment, Search
  <2>2. Begin(t, "revoke", o)
    BY <1>8 DEF CancelOrder, ReopenOrder
  <2> QED BY <2>1, <2>2, BeginOK DEF Tasks, PC
<1>9. ASSUME NEW t \in Handlers, NEW o \in Orders, NEW r \in ReassignTargets,
             ReassignRider(t, o, r)
      PROVE  TypeOK'
  <2>1. r \in Riders
    BY BoundsAssumption
  <2>2. RowsOK'
    BY <1>9, <2>1 DEF ReassignRider, SetOffer, TypeOK, RowsOK, Assignment, OfferState
  <2> DEFINE k == [Fresh("reassignRevoke", o) EXCEPT !.target = r]
  <2>3. TaskOK(k)
    <3>1. 0 \in 0 .. OfferRiderAttempts
      BY BoundsAssumption
    <3>2. k = [pc |-> "reassignRevoke", order |-> o, pool |-> {}, excl |-> {},
               tries |-> 0, call |-> "start", target |-> r]
      BY DEF Fresh
    <3> HIDE DEF k
    <3> QED BY <2>1, <3>1, <3>2 DEF TaskOK, Task, PC
  <2>4. Moves(t, k)
    BY <1>9 DEF ReassignRider, Moves
  <2> QED BY <2>2, <2>3, <2>4, TaskMoves DEF Tasks
<1>10. CASE Calls
  BY <1>4, <1>7, <1>8, <1>9, <1>10 DEF Calls, Tasks
<1>11. CASE OrderMoves
  <2>1. RowsOK' /\ UNCHANGED task
    BY <1>11 DEF OrderMoves, CancelQuietly, AdvanceStatus, TypeOK, RowsOK, Status
  <2> QED BY <2>1, TaskStays
<1>12. CASE TimePasses
  <2>1. RowsOK' /\ UNCHANGED task
    BY <1>12, SetOfferType
       DEF TimePasses, WindowCloses, OfferLapses, OrderAges, TypeOK, RowsOK, Search,
           OfferState, rows
  <2> QED BY <2>1, TaskStays
<1>13. ASSUME NEW r \in Toggling, SetOnline(r)
       PROVE  TypeOK'
  <2>1. RowsOK' /\ UNCHANGED task
    BY <1>13, BoundsAssumption DEF SetOnline, TypeOK, RowsOK, rows
  <2> QED BY <2>1, TaskStays
<1>14. CASE UNCHANGED vars
  <2>1. RowsOK' /\ UNCHANGED task
    BY <1>14 DEF vars, rows, TypeOK, RowsOK
  <2> QED BY <2>1, TaskStays
<1> QED
  BY <1>1, <1>2, <1>3, <1>6, <1>10, <1>11, <1>12, <1>13, <1>14 DEF Next

\* The types hold when nothing has been dispatched.
LEMMA InitTypeOK == Init => TypeOK
<1> SUFFICES ASSUME Init PROVE TypeOK
  OBVIOUS
<1>1. RowsOK
  BY DEF Init, RowsOK, Status, Assignment, Search, OfferState
<1>2. task \in [Tasks -> Task] /\ \A t \in Tasks : TaskOK(task[t])
  BY IdleOK DEF Init, TaskOK
<1> QED BY <1>1, <1>2, TypeParts

\* Every row and every running call keeps its type; in particular a call at
\* any await knows its order, and a reassignment knows its rider.
THEOREM TypeCorrect == Spec => []TypeOK
BY InitTypeOK, StepTypeOK, PTL DEF Spec

-----------------------------------------------------------------------------
(* What a step does to riders and offers                                   *)

\* No rider and no offer moves; an order enters the search or fails.
Unmoved ==
  /\ UNCHANGED <<rider, offer>>
  /\ \A o \in Orders :
        \/ assignment'[o] = assignment[o]
        \/ assignment'[o] = "failed"
        \/ assignment'[o] = "searching" /\ rider[o] = NoRider

Asks(o, r) == CanInsert(o, r) /\ InsertOffer(o, r) /\ UNCHANGED rider

Closes(o, r) ==
  /\ Open(o, r)
  /\ \E s \in {"rejected", "expired", "cancelled"} : SetOffer(o, r, s)
  /\ UNCHANGED <<rider, assignment>>

Revokes(o) == RevokeOpenOffers(o) /\ UNCHANGED <<rider, assignment>>

Effect ==
  \/ Unmoved
  \/ \E o \in Orders, r \in Riders :
        Asks(o, r) \/ AcceptOffer(o, r) \/ Closes(o, r) \/ OfferLapses(o, r)
  \/ \E o \in Orders : Revokes(o)
  \/ \E t \in Handlers, o \in Orders : ReopenOrder(t, o)
  \/ \E t \in Handlers, o \in Orders, r \in ReassignTargets : ReassignRider(t, o, r)

\* Every statement of a running call has one of the named effects on the rows.
LEMMA EngineEffect ==
  ASSUME TypeOK, NEW t \in Tasks, EngineStep(t)
  PROVE  Effect
<1> USE DEF At
<1>o. task[t].pc # "idle" => task[t].order \in Orders
  BY DEF TypeOK
<1>1. CASE \/ ContinueLoad(t) \/ ContinuePending(t) \/ ReadExcluded(t)
           \/ ReadEligible(t) \/ CheckWindow(t) \/ RecheckWindow(t) \/ FailLoad(t)
           \/ FailNotify(t) \/ \E r \in Riders : RiderTaken(t, r) \/ OrderConflict(t, r)
  <2>1. UNCHANGED rows
    BY <1>1 DEF ContinueLoad, ContinuePending, ReadExcluded, ReadEligible, CheckWindow,
                RecheckWindow, FailLoad, FailNotify, RiderTaken, OrderConflict
  <2> QED BY <2>1 DEF Effect, Unmoved, rows
<1>2. CASE StartAssignment(t)
  <2>1. Unmoved
    BY <1>2, <1>o DEF StartAssignment, Searchable, Unmoved, TypeOK
  <2> QED BY <2>1 DEF Effect
<1>3. CASE MarkBeforeOffer(t)
  <2>1. Unmoved
    BY <1>3, <1>o DEF MarkBeforeOffer, MarkSearching, Searchable, Unmoved, TypeOK
  <2> QED BY <2>1 DEF Effect
<1>4. ASSUME NEW r \in Riders, CreateOffer(t, r)
      PROVE  Effect
  <2>1. Asks(task[t].order, r)
    BY <1>4 DEF CreateOffer, Asks
  <2> QED BY <1>4, <1>o, <2>1 DEF Effect, CreateOffer
<1>5. CASE StampWindow(t)
  <2>1. Unmoved
    BY <1>5, <1>o DEF StampWindow, MarkSearching, Searchable, Unmoved, TypeOK
  <2> QED BY <2>1 DEF Effect
<1>6. CASE FailTerminal(t)
  <2>1. Unmoved
    BY <1>6, <1>o DEF FailTerminal, Unmoved, TypeOK
  <2> QED BY <2>1 DEF Effect
<1>7. CASE FailMark(t)
  <2>1. Unmoved
    BY <1>7, <1>o DEF FailMark, Searchable, Unmoved, TypeOK
  <2> QED BY <2>1 DEF Effect
<1>8. CASE FailRevoke(t) \/ ReassignRevoke(t) \/ RevokeOffers(t)
  <2>1. Revokes(task[t].order)
    BY <1>8 DEF FailRevoke, ReassignRevoke, RevokeOffers, Revokes
  <2>2. task[t].order \in Orders
    BY <1>8, <1>o DEF FailRevoke, ReassignRevoke, RevokeOffers
  <2> QED BY <2>1, <2>2 DEF Effect
<1>9. CASE ReassignInsert(t)
  <2>1. task[t].order \in Orders /\ task[t].target \in Riders
    BY <1>9 DEF ReassignInsert, TypeOK
  <2>2. Unmoved \/ Asks(task[t].order, task[t].target)
    BY <1>9 DEF ReassignInsert, Unmoved, Asks
  <2> QED BY <2>1, <2>2 DEF Effect
<1> QED
  BY <1>1, <1>2, <1>3, <1>4, <1>5, <1>6, <1>7, <1>8, <1>9 DEF EngineStep

\* Every step of the system has.
LEMMA StepEffects ==
  ASSUME TypeOK, [Next]_vars
  PROVE  Effect
<1>1. ASSUME NEW t \in Tasks, EngineStep(t)
      PROVE  Effect
  BY <1>1, EngineEffect
<1>2. CASE \/ \E t \in Tasks : Abort(t)
           \/ \E r \in Toggling : SetOnline(r)
           \/ \E t \in Tasks, o \in Orders : RecoverStuck(t, o)
           \/ \E t \in Handlers, o \in Orders : CallStart(t, o) \/ CancelOrder(t, o)
           \/ OrderMoves
           \/ \E o \in Orders : WindowCloses(o) \/ OrderAges(o)
           \/ UNCHANGED vars
  <2>1. UNCHANGED <<rider, assignment, offer>>
    BY <1>2 DEF Abort, SetOnline, RecoverStuck, CallStart, CancelOrder, OrderMoves,
                CancelQuietly, AdvanceStatus, WindowCloses, OrderAges, vars, rows
  <2> QED BY <2>1 DEF Effect, Unmoved
<1>3. ASSUME NEW o \in Orders, NEW r \in Riders,
             \/ AcceptUnassignable(o, r)
             \/ \E t \in Handlers : AcceptExpired(t, o, r) \/ RejectOffer(t, o, r)
             \/ ExpireOffer(o, r)
      PROVE  Effect
  <2>1. Closes(o, r)
    BY <1>3 DEF AcceptUnassignable, AcceptExpired, RejectOffer, ExpireOffer, Overdue,
                Closes, Open
  <2> QED BY <2>1 DEF Effect
<1>4. CASE RiderAnswers
  BY <1>3, <1>4 DEF RiderAnswers, Effect
<1>5. CASE SweeperTick
  BY <1>2, <1>3, <1>5 DEF SweeperTick, Tasks
<1>6. CASE Calls
  BY <1>2, <1>6 DEF Calls, Tasks, Effect
<1>7. CASE TimePasses
  BY <1>2, <1>7, BoundsAssumption DEF TimePasses, Effect
<1> QED
  BY <1>1, <1>2, <1>4, <1>5, <1>6, <1>7 DEF Next

\* SetOffer, row by row.
LEMMA SetOfferCells ==
  ASSUME TypeOK, NEW o \in Orders, NEW r \in Riders, NEW s, SetOffer(o, r, s)
  PROVE  \A p \in Orders, q \in Riders :
            offer'[p][q] = IF p = o /\ q = r THEN s ELSE offer[p][q]
BY DEF SetOffer, TypeOK

\* RevokeOpenOffers, row by row.
LEMMA RevokeCells ==
  ASSUME TypeOK, NEW o \in Orders, RevokeOpenOffers(o)
  PROVE  \A p \in Orders, q \in Riders :
            offer'[p][q] = IF p = o /\ Open(p, q) THEN "cancelled" ELSE offer[p][q]
BY DEF RevokeOpenOffers, TypeOK

-----------------------------------------------------------------------------
(* The inductive invariant: one open offer at a time makes the accepted one *)
(* the only one left, and a rider is set only where no offer is open, so    *)
(* each of the three needs the others to survive a step.                    *)

IInv == TypeOK /\ OneOpenOffer /\ HolderAccepted /\ NoSearchWithHolder

\* The inductive invariant holds when nothing has been dispatched.
LEMMA InitIInv == Init => IInv
<1> SUFFICES ASSUME Init PROVE IInv
  OBVIOUS
<1>1. OneOpenOffer /\ HolderAccepted /\ NoSearchWithHolder
  BY DEF Init, OneOpenOffer, HolderAccepted, NoSearchWithHolder, HasOpenOffer, Open
<1> QED BY <1>1, InitTypeOK DEF IInv

\* Every step keeps the inductive invariant.
LEMMA StepIInv ==
  ASSUME IInv, [Next]_vars
  PROVE  IInv'
<1>0. TypeOK /\ OneOpenOffer /\ HolderAccepted /\ NoSearchWithHolder
  BY DEF IInv
<1>t. TypeOK'
  BY <1>0, StepTypeOK
<1> SUFFICES OneOpenOffer' /\ HolderAccepted' /\ NoSearchWithHolder'
  BY <1>t DEF IInv
<1>1. CASE Unmoved
  <2>1. OneOpenOffer' /\ HolderAccepted'
    BY <1>0, <1>1 DEF Unmoved, OneOpenOffer, HolderAccepted, HasOpenOffer, Open
  <2>2. NoSearchWithHolder'
    BY <1>0, <1>1 DEF Unmoved, NoSearchWithHolder
  <2> QED BY <2>1, <2>2
<1>2. ASSUME NEW o \in Orders, NEW r \in Riders, Asks(o, r)
      PROVE  OneOpenOffer' /\ HolderAccepted' /\ NoSearchWithHolder'
  <2>1. /\ \A p \in Orders, q \in Riders :
              offer'[p][q] = IF p = o /\ q = r THEN "pending" ELSE offer[p][q]
        /\ rider' = rider
        /\ assignment' = [assignment EXCEPT ![o] = "offered"]
    BY <1>0, <1>2, SetOfferCells DEF Asks, InsertOffer
  <2>2. /\ rider[o] = NoRider
        /\ \A q \in Riders : ~Open(o, q)
        /\ \A p \in Orders : ~Open(p, r)
    BY <1>2 DEF Asks, CanInsert, Assignable, OrderKeysFree, RiderKeyFree, HasOpenOffer
  <2>3. OneOpenOffer'
    BY <1>0, <2>1, <2>2 DEF OneOpenOffer, Open
  <2>4. HolderAccepted'
    BY <1>0, <2>1, <2>2 DEF HolderAccepted, HasOpenOffer, Open, TypeOK
  <2>5. NoSearchWithHolder'
    BY <1>0, <2>1, <2>2 DEF NoSearchWithHolder, TypeOK
  <2> QED BY <2>3, <2>4, <2>5
<1>3. ASSUME NEW o \in Orders, NEW r \in Riders, AcceptOffer(o, r)
      PROVE  OneOpenOffer' /\ HolderAccepted' /\ NoSearchWithHolder'
  <2>1. /\ \A p \in Orders, q \in Riders :
              offer'[p][q] = IF p = o /\ q = r THEN "accepted" ELSE offer[p][q]
        /\ rider' = [rider EXCEPT ![o] = r]
        /\ assignment' = [assignment EXCEPT ![o] = "assigned"]
    BY <1>0, <1>3, SetOfferCells DEF AcceptOffer
  <2>2. rider[o] = NoRider /\ Open(o, r) /\ r # NoRider
    BY <1>3, RidersAssumption DEF AcceptOffer, Assignable, Open
  <2>3. OneOpenOffer'
    BY <1>0, <2>1 DEF OneOpenOffer, Open
  <2>4. \A q \in Riders : Open(o, q) => q = r
    BY <1>0, <2>2 DEF OneOpenOffer
  <2>5. HolderAccepted'
    BY <1>0, <2>1, <2>4 DEF HolderAccepted, HasOpenOffer, Open, TypeOK
  <2>6. NoSearchWithHolder'
    BY <1>0, <2>1, <2>2 DEF NoSearchWithHolder, TypeOK
  <2> QED BY <2>3, <2>5, <2>6
<1>4. ASSUME NEW o \in Orders, NEW r \in Riders, Closes(o, r)
      PROVE  OneOpenOffer' /\ HolderAccepted' /\ NoSearchWithHolder'
  <2>1. PICK s \in {"rejected", "expired", "cancelled"} : SetOffer(o, r, s)
    BY <1>4 DEF Closes
  <2>2. /\ \A p \in Orders, q \in Riders :
              offer'[p][q] = IF p = o /\ q = r THEN s ELSE offer[p][q]
        /\ rider' = rider /\ assignment' = assignment
        /\ Open(o, r)
    BY <1>0, <1>4, <2>1, SetOfferCells DEF Closes
  <2>3. OneOpenOffer'
    BY <1>0, <2>2 DEF OneOpenOffer, Open
  <2>4. HolderAccepted'
    BY <1>0, <2>2 DEF HolderAccepted, HasOpenOffer, Open, TypeOK
  <2>5. NoSearchWithHolder'
    BY <1>0, <2>2 DEF NoSearchWithHolder
  <2> QED BY <2>3, <2>4, <2>5
<1>5. ASSUME NEW o \in Orders, NEW r \in Riders, OfferLapses(o, r)
      PROVE  OneOpenOffer' /\ HolderAccepted' /\ NoSearchWithHolder'
  <2>1. /\ \A p \in Orders, q \in Riders :
              offer'[p][q] = IF p = o /\ q = r THEN "lapsed" ELSE offer[p][q]
        /\ rider' = rider /\ assignment' = assignment
        /\ Open(o, r)
    BY <1>0, <1>5, SetOfferCells DEF OfferLapses, Open
  <2>2. OneOpenOffer'
    BY <1>0, <2>1 DEF OneOpenOffer, Open
  <2>3. HolderAccepted'
    BY <1>0, <2>1 DEF HolderAccepted, HasOpenOffer, Open, TypeOK
  <2>4. NoSearchWithHolder'
    BY <1>0, <2>1 DEF NoSearchWithHolder
  <2> QED BY <2>2, <2>3, <2>4
<1>6. ASSUME NEW o \in Orders, Revokes(o)
      PROVE  OneOpenOffer' /\ HolderAccepted' /\ NoSearchWithHolder'
  <2>1. /\ \A p \in Orders, q \in Riders :
              offer'[p][q] = IF p = o /\ Open(p, q) THEN "cancelled" ELSE offer[p][q]
        /\ rider' = rider /\ assignment' = assignment
    BY <1>0, <1>6, RevokeCells DEF Revokes
  <2>2. OneOpenOffer'
    BY <1>0, <2>1 DEF OneOpenOffer, Open
  <2>3. HolderAccepted'
    BY <1>0, <2>1 DEF HolderAccepted, HasOpenOffer, Open, TypeOK
  <2>4. NoSearchWithHolder'
    BY <1>0, <2>1 DEF NoSearchWithHolder
  <2> QED BY <2>2, <2>3, <2>4
<1>7. ASSUME NEW t \in Handlers, NEW o \in Orders, ReopenOrder(t, o)
      PROVE  OneOpenOffer' /\ HolderAccepted' /\ NoSearchWithHolder'
  <2>1. /\ offer' = offer
        /\ rider' = [rider EXCEPT ![o] = NoRider]
        /\ assignment' = [assignment EXCEPT ![o] = "none"]
    BY <1>7 DEF ReopenOrder
  <2>2. OneOpenOffer' /\ HolderAccepted'
    BY <1>0, <2>1 DEF OneOpenOffer, HolderAccepted, HasOpenOffer, Open, TypeOK
  <2>3. NoSearchWithHolder'
    BY <1>0, <2>1 DEF NoSearchWithHolder, TypeOK
  <2> QED BY <2>2, <2>3
<1>8. ASSUME NEW t \in Handlers, NEW o \in Orders, NEW r \in ReassignTargets,
             ReassignRider(t, o, r)
      PROVE  OneOpenOffer' /\ HolderAccepted' /\ NoSearchWithHolder'
  <2>1. /\ \A p \in Orders, q \in Riders :
              offer'[p][q] = IF p = o /\ q = r THEN "none" ELSE offer[p][q]
        /\ rider' = [rider EXCEPT ![o] = NoRider]
        /\ assignment' = [assignment EXCEPT ![o] = "searching"]
    <3>1. r \in Riders
      BY BoundsAssumption
    <3>2. /\ SetOffer(o, r, "none")
          /\ rider' = [rider EXCEPT ![o] = NoRider]
          /\ assignment' = [assignment EXCEPT ![o] = "searching"]
      BY <1>8 DEF ReassignRider
    <3> QED BY <1>0, <3>1, <3>2, SetOfferCells
  <2>2. OneOpenOffer'
    BY <1>0, <2>1 DEF OneOpenOffer, Open
  <2>3. HolderAccepted'
    BY <1>0, <2>1 DEF HolderAccepted, HasOpenOffer, Open, TypeOK
  <2>4. NoSearchWithHolder'
    BY <1>0, <2>1 DEF NoSearchWithHolder, TypeOK
  <2> QED BY <2>2, <2>3, <2>4
<1> QED
  BY <1>0, <1>1, <1>2, <1>3, <1>4, <1>5, <1>6, <1>7, <1>8, StepEffects DEF Effect

\* The inductive invariant (types and the three invariants below, which need one
\* another) holds of every behaviour of the engine.
THEOREM IInvHolds == Spec => []IInv
BY InitIInv, StepIInv, PTL DEF Spec

\* Any number of concurrent dispatches, riders and orders: an order asks one
\* rider at a time and a rider has one popup at a time.
THEOREM OffersExclusive == Spec => []OneOpenOffer
<1>1. IInv => OneOpenOffer
  BY DEF IInv
<1> QED BY <1>1, IInvHolds, PTL

\* The rider of an order accepted it, and nobody else is still being asked.
THEOREM HolderHasAccepted == Spec => []HolderAccepted
<1>1. IInv => HolderAccepted
  BY DEF IInv
<1> QED BY <1>1, IInvHolds, PTL

\* An order with a rider is never back in the search.
THEOREM HolderNotSearched == Spec => []NoSearchWithHolder
<1>1. IInv => NoSearchWithHolder
  BY DEF IInv
<1> QED BY <1>1, IInvHolds, PTL

\* Only the admin's reassign and reopen take an order from its rider, whatever
\* stale failAssignment or dispatch is still running.
THEOREM HolderIsKept == Spec => HolderKept
<1> DEFINE Taken(o) ==
      rider[o] # NoRider /\ rider'[o] # rider[o] =>
        \/ \E t \in Handlers : ReopenOrder(t, o)
        \/ \E t \in Handlers, r \in ReassignTargets : ReassignRider(t, o, r)
<1>1. ASSUME IInv, [Next]_vars
      PROVE  [\A o \in Orders : Taken(o)]_vars
  <2> SUFFICES ASSUME NEW o \in Orders
               PROVE  Taken(o)
    OBVIOUS
  <2>0. TypeOK
    BY <1>1 DEF IInv
  <2>1. CASE Unmoved \/ \E p \in Orders : Revokes(p)
    BY <2>1 DEF Unmoved, Revokes
  <2>2. ASSUME NEW p \in Orders, NEW r \in Riders,
               Asks(p, r) \/ Closes(p, r) \/ OfferLapses(p, r)
        PROVE  Taken(o)
    BY <2>2 DEF Asks, Closes, OfferLapses
  <2>3. ASSUME NEW p \in Orders, NEW r \in Riders, AcceptOffer(p, r)
        PROVE  Taken(o)
    <3>1. rider[p] = NoRider /\ rider' = [rider EXCEPT ![p] = r]
      BY <2>3 DEF AcceptOffer, Assignable
    <3> QED BY <2>0, <3>1 DEF TypeOK
  <2>4. ASSUME NEW t \in Handlers, NEW p \in Orders, ReopenOrder(t, p)
        PROVE  Taken(o)
    <3>1. rider' = [rider EXCEPT ![p] = NoRider]
      BY <2>4 DEF ReopenOrder
    <3>2. rider'[o] # rider[o] => o = p
      BY <2>0, <3>1 DEF TypeOK
    <3> QED BY <2>4, <3>2
  <2>5. ASSUME NEW t \in Handlers, NEW p \in Orders, NEW r \in ReassignTargets,
               ReassignRider(t, p, r)
        PROVE  Taken(o)
    <3>1. rider' = [rider EXCEPT ![p] = NoRider]
      BY <2>5 DEF ReassignRider
    <3>2. rider'[o] # rider[o] => o = p
      BY <2>0, <3>1 DEF TypeOK
    <3> QED BY <2>5, <3>2
  <2> QED
    BY <1>1, <2>0, <2>1, <2>2, <2>3, <2>4, <2>5, StepEffects DEF Effect
<1> QED BY <1>1, IInvHolds, PTL DEF Spec, HolderKept

-----------------------------------------------------------------------------
(***************************************************************************)
(* The cap.  A call takes a rider as a candidate only while he is below    *)
(* it, and gives him up when it asks him; so what a rider has, is asked    *)
(* for and is a candidate of grows only where the cap was looked at.       *)
(***************************************************************************)

Reassigning == {"reassignRevoke", "reassignInsert"}

\* An admin's reassignment is on its way to a rider an admin may force.
TargetsForced ==
  \A t \in Tasks : task[t].pc \in Reassigning => task[t].target \in ReassignTargets

CapInv == TypeOK /\ TargetsForced /\ CapOvershoot

\* No call takes up a candidate or a reassignment.
CallsShrink ==
  \A t \in Tasks : /\ task'[t].pool \subseteq task[t].pool
                   /\ task'[t].pc \in Reassigning => task'[t].target \in ReassignTargets

\* One call moves to k, which has no candidate or reassignment of its own.
LEMMA MovesShrink ==
  ASSUME TypeOK, TargetsForced, NEW t \in Tasks, NEW k, Moves(t, k),
         k.pool \subseteq task[t].pool,
         k.pc \in Reassigning => k.target \in ReassignTargets
  PROVE  CallsShrink
<1> SUFFICES ASSUME NEW u \in Tasks
             PROVE  /\ task'[u].pool \subseteq task[u].pool
                    /\ task'[u].pc \in Reassigning => task'[u].target \in ReassignTargets
  BY DEF CallsShrink
<1>1. task'[u] = IF u = t THEN k ELSE task[u]
  BY DEF Moves, TypeOK
<1> QED BY <1>1 DEF TargetsForced

\* A call that ends, goes on, begins or found nobody has none.
LEMMA CallMoves ==
  ASSUME TypeOK, TargetsForced, NEW t \in Tasks,
         \/ Finish(t)
         \/ \E pc \in PC \ Reassigning : Goto(t, pc)
         \/ \E pc \in PC \ Reassigning, o \in Orders : Begin(t, pc, o)
         \/ NoOffer(t)
         \/ UNCHANGED task
  PROVE  CallsShrink
<1>1. Finish(t) => CallsShrink
  <2>1. Idle.pool = {} /\ Idle.pc \notin Reassigning
    BY DEF Idle, Reassigning
  <2> QED BY <2>1, MovesShrink DEF Finish, Moves
<1>2. ASSUME NEW pc \in PC \ Reassigning, Goto(t, pc) PROVE CallsShrink
  <2> DEFINE k == [task[t] EXCEPT !.pc = pc]
  <2>1. k.pool = task[t].pool /\ k.pc = pc
    BY DEF TypeOK, Task
  <2>2. Moves(t, k)
    BY <1>2 DEF Goto, Moves
  <2> HIDE DEF k
  <2> QED BY <2>1, <2>2, MovesShrink
<1>3. ASSUME NEW pc \in PC \ Reassigning, NEW o, Moves(t, Fresh(pc, o)) PROVE CallsShrink
  <2>1. Fresh(pc, o).pool = {} /\ Fresh(pc, o).pc = pc
    BY DEF Fresh
  <2> QED BY <1>3, <2>1, MovesShrink
<1>4. ASSUME NEW pc \in PC \ Reassigning, NEW o \in Orders, Begin(t, pc, o) PROVE CallsShrink
  BY <1>3, <1>4 DEF Begin, Moves
<1>5. NoOffer(t) => CallsShrink
  BY <1>1, <1>3 DEF NoOffer, Moves, PC, Reassigning
<1>6. UNCHANGED task => CallsShrink
  BY DEF CallsShrink, TargetsForced
<1> QED BY <1>1, <1>2, <1>4, <1>5, <1>6

\* The orders of r: none is added unless r accepts it.
OrdersKept(r) == ActiveOrders(r)' \subseteq ActiveOrders(r)

\* What a step does to a rider whom no admin forces.
Kept(r) ==
  /\ OrdersKept(r) /\ AskedFor(r)' \subseteq AskedFor(r)
  /\ CandidateOf(r)' \subseteq CandidateOf(r)
Listed(r) ==
  /\ OrdersKept(r) /\ AskedFor(r)' = {}
  /\ Cardinality(ActiveOrders(r)) < RiderCap
Offered(r) ==
  \E t \in Tasks, o \in Orders :
     /\ OrdersKept(r) /\ AskedFor(r)' \subseteq AskedFor(r) \cup {o}
     /\ t \in CandidateOf(r) /\ CandidateOf(r)' \subseteq CandidateOf(r) \ {t}
Accepted(r) ==
  \E o \in Orders :
     /\ ActiveOrders(r)' \subseteq ActiveOrders(r) \cup {o}
     /\ o \in AskedFor(r) /\ AskedFor(r)' \subseteq AskedFor(r) \ {o}
     /\ CandidateOf(r)' \subseteq CandidateOf(r)

Cap(r) ==
  Cardinality(ActiveOrders(r)) + Cardinality(AskedFor(r)) + Cardinality(CandidateOf(r))
    < RiderCap + Cardinality(Tasks)

\* The sets that are counted are finite.
LEMMA CountedFinite ==
  ASSUME NEW r
  PROVE  /\ IsFiniteSet(Tasks) /\ Cardinality(Tasks) \in Nat /\ Cardinality(Tasks) > 0
         /\ IsFiniteSet(ActiveOrders(r)) /\ IsFiniteSet(AskedFor(r)) /\ IsFiniteSet(CandidateOf(r))
<1>1. IsFiniteSet(Tasks) /\ Tasks # {}
  <2>1. Tasks = Handlers \cup {Sweeper}
    BY DEF Tasks
  <2> QED BY <2>1, TasksAssumption, FS_AddElement
<1>2. Cardinality(Tasks) \in Nat /\ Cardinality(Tasks) > 0
  BY <1>1, FS_CardinalityType, FS_EmptySet
<1>3. ActiveOrders(r) \in SUBSET Orders /\ AskedFor(r) \in SUBSET Orders
      /\ CandidateOf(r) \in SUBSET Tasks
  BY DEF ActiveOrders, AskedFor, CandidateOf
<1> QED BY <1>1, <1>2, <1>3, OrdersAssumption, FS_Subset

\* Fewer elements, a smaller number; one more, one more.
LEMMA Counted ==
  ASSUME NEW S, IsFiniteSet(S), NEW T
  PROVE  /\ Cardinality(S) \in Nat
         /\ T \subseteq S => Cardinality(T) \in Nat /\ Cardinality(T) <= Cardinality(S)
         /\ \A x : T \subseteq S \cup {x} =>
               Cardinality(T) \in Nat /\ Cardinality(T) <= Cardinality(S) + 1
         /\ \A x \in S : T \subseteq S \ {x} =>
               Cardinality(T) \in Nat /\ Cardinality(T) <= Cardinality(S) - 1
<1>1. Cardinality(S) \in Nat
  BY FS_CardinalityType
<1>2. ASSUME NEW U, IsFiniteSet(U), T \subseteq U
      PROVE  Cardinality(T) \in Nat /\ Cardinality(T) <= Cardinality(U)
  BY <1>2, FS_Subset, FS_CardinalityType
<1>3. ASSUME NEW x, T \subseteq S \cup {x}
      PROVE  Cardinality(T) \in Nat /\ Cardinality(T) <= Cardinality(S) + 1
  <2>1. IsFiniteSet(S \cup {x}) /\ Cardinality(S \cup {x}) <= Cardinality(S) + 1
    BY <1>1, FS_AddElement
  <2>2. Cardinality(S \cup {x}) \in Nat
    BY <2>1, FS_CardinalityType
  <2> QED BY <1>1, <1>2, <1>3, <2>1, <2>2
<1>4. ASSUME NEW x \in S, T \subseteq S \ {x}
      PROVE  Cardinality(T) \in Nat /\ Cardinality(T) <= Cardinality(S) - 1
  <2>1. IsFiniteSet(S \ {x}) /\ Cardinality(S \ {x}) = Cardinality(S) - 1
    BY FS_RemoveElement
  <2> QED BY <1>2, <1>4, <2>1
<1> QED BY <1>1, <1>2, <1>3, <1>4

\* Each of these keeps the bound.
LEMMA CapStep ==
  ASSUME NEW r, Cap(r), Kept(r) \/ Listed(r) \/ Offered(r) \/ Accepted(r)
  PROVE  Cap(r)'
<1> DEFINE A == ActiveOrders(r)
           B == ActiveOrders(r)'
           P == AskedFor(r)
           Q == AskedFor(r)'
           W == CandidateOf(r)
           V == CandidateOf(r)'
           n == Cardinality(Tasks)
<1>1. /\ IsFiniteSet(A) /\ IsFiniteSet(P) /\ IsFiniteSet(W)
      /\ Cardinality(A) \in Nat /\ Cardinality(P) \in Nat /\ Cardinality(W) \in Nat
      /\ n \in Nat /\ n > 0
  BY CountedFinite, FS_CardinalityType
<1>2. Cardinality(A) + Cardinality(P) + Cardinality(W) < RiderCap + n
  BY DEF Cap
<1>3. Cap(r)' <=> Cardinality(B) + Cardinality(Q) + Cardinality(V) < RiderCap + n
  BY DEF Cap
<1>4. IsFiniteSet(Tasks) /\ V \subseteq Tasks
  BY CountedFinite DEF CandidateOf
<1>5. \/ B \subseteq A /\ Q \subseteq P /\ V \subseteq W
      \/ B \subseteq A /\ Cardinality(A) < RiderCap /\ Q = {} /\ V \subseteq Tasks
      \/ \E t \in W : \E o : B \subseteq A /\ Q \subseteq P \cup {o} /\ V \subseteq W \ {t}
      \/ \E o \in P : B \subseteq A \cup {o} /\ Q \subseteq P \ {o} /\ V \subseteq W
  <2>1. CASE Kept(r)
    BY <2>1 DEF Kept, OrdersKept
  <2>2. CASE Listed(r)
    BY <2>2, <1>4 DEF Listed, OrdersKept
  <2>3. CASE Offered(r)
    BY <2>3 DEF Offered, OrdersKept
  <2>4. CASE Accepted(r)
    BY <2>4 DEF Accepted
  <2> QED BY <2>1, <2>2, <2>3, <2>4
<1> HIDE DEF A, B, P, Q, W, V
<1>6. ASSUME /\ Cardinality(B) \in Nat /\ Cardinality(Q) \in Nat /\ Cardinality(V) \in Nat,
             \/ /\ Cardinality(B) <= Cardinality(A) /\ Cardinality(Q) <= Cardinality(P)
                /\ Cardinality(V) <= Cardinality(W)
             \/ /\ Cardinality(B) <= Cardinality(A) /\ Cardinality(A) < RiderCap
                /\ Cardinality(Q) = 0 /\ Cardinality(V) <= n
             \/ /\ Cardinality(B) <= Cardinality(A) /\ Cardinality(Q) <= Cardinality(P) + 1
                /\ Cardinality(V) <= Cardinality(W) - 1
             \/ /\ Cardinality(B) <= Cardinality(A) + 1 /\ Cardinality(Q) <= Cardinality(P) - 1
                /\ Cardinality(V) <= Cardinality(W)
      PROVE  Cap(r)'
  <2>1. Cardinality(B) + Cardinality(Q) + Cardinality(V) < RiderCap + n
    <3> HIDE DEF n
    <3>1. RiderCap \in Nat
      BY BoundsAssumption
    <3> QED BY <1>1, <1>2, <1>6, <3>1
  <2> QED BY <1>3, <2>1
<1>7. CASE B \subseteq A /\ Q \subseteq P /\ V \subseteq W
  BY <1>1, <1>6, <1>7, Counted
<1>8. CASE B \subseteq A /\ Cardinality(A) < RiderCap /\ Q = {} /\ V \subseteq Tasks
  <2>1. Cardinality(Q) = 0
    BY <1>8, FS_EmptySet
  <2> QED BY <1>1, <1>4, <1>6, <1>8, <2>1, Counted
<1>9. ASSUME NEW t \in W, NEW o, B \subseteq A, Q \subseteq P \cup {o}, V \subseteq W \ {t}
      PROVE  Cap(r)'
  BY <1>1, <1>6, <1>9, Counted
<1>10. ASSUME NEW o \in P, B \subseteq A \cup {o}, Q \subseteq P \ {o}, V \subseteq W
       PROVE  Cap(r)'
  BY <1>1, <1>6, <1>10, Counted
<1> QED BY <1>5, <1>7, <1>8, <1>9, <1>10

\* An order that is past the look-back stays past it.
LEMMA RecentShrinks ==
  ASSUME [Next]_vars
  PROVE  recent' \subseteq recent
<1>1. ASSUME NEW t \in Tasks, EngineStep(t) \/ Abort(t)
      PROVE  UNCHANGED recent
  BY <1>1 DEF EngineStep, Abort, StartAssignment, ContinueLoad, ContinuePending, ReadExcluded,
              ReadEligible, MarkBeforeOffer, CreateOffer, RiderTaken, OrderConflict,
              CheckWindow, StampWindow, RecheckWindow, FailLoad, FailTerminal, FailMark,
              FailRevoke, FailNotify, ReassignRevoke, ReassignInsert, RevokeOffers
<1>2. CASE RiderAnswers \/ SweeperTick \/ Calls
  BY <1>2 DEF RiderAnswers, SweeperTick, Calls, AcceptOffer, AcceptUnassignable, AcceptExpired,
              RejectOffer, RecoverStuck, ExpireOffer, CallStart, CancelOrder, ReopenOrder,
              ReassignRider
<1>3. CASE OrderMoves \/ TimePasses \/ \E r \in Toggling : SetOnline(r)
  BY <1>3 DEF OrderMoves, CancelQuietly, AdvanceStatus, TimePasses, WindowCloses, OfferLapses,
              OrderAges, SetOnline
<1>4. CASE UNCHANGED vars
  BY <1>4 DEF vars
<1> QED BY <1>1, <1>2, <1>3, <1>4 DEF Next

\* What a step does to the counts of every rider no admin forces.
Bounded == \A r \in Riders \ ReassignTargets :
              Kept(r) \/ Listed(r) \/ Offered(r) \/ Accepted(r)

\* Calls that take up nobody, offers that are only closed and orders that find
\* no rider and stay terminal leave the counts where they are.
LEMMA StepKept ==
  ASSUME CallsShrink, recent' \subseteq recent,
         \A o \in Orders : /\ rider'[o] # NoRider => rider'[o] = rider[o]
                           /\ Terminal(o) => Terminal(o)' \/ rider'[o] = NoRider,
         \A o \in Orders, r \in Riders \ ReassignTargets : Open(o, r)' => Open(o, r)
  PROVE  TargetsForced' /\ \A r \in Riders \ ReassignTargets : Kept(r)
<1>1. TargetsForced'
  BY DEF CallsShrink, TargetsForced
<1>2. ASSUME NEW r \in Riders \ ReassignTargets
      PROVE  Kept(r)
  <2>1. OrdersKept(r)
    BY RidersAssumption DEF OrdersKept, ActiveOrders
  <2>2. AskedFor(r)' \subseteq AskedFor(r)
    BY DEF AskedFor
  <2>3. CandidateOf(r)' \subseteq CandidateOf(r)
    BY DEF CandidateOf, CallsShrink
  <2> QED BY <2>1, <2>2, <2>3 DEF Kept
<1> QED BY <1>1, <1>2

\* A statement of a running call other than the read of the candidates and the
\* insert of an offer leaves every count where it is.
LEMMA EngineKept ==
  ASSUME TypeOK, TargetsForced, recent' \subseteq recent, NEW t \in Tasks, EngineStep(t),
         ~ReadEligible(t), \A r \in Riders : ~CreateOffer(t, r)
  PROVE  TargetsForced' /\ \A r \in Riders \ ReassignTargets : Kept(r)
<1> USE DEF At
<1>o. task[t].pc # "idle" => task[t].order \in Orders
  BY DEF TypeOK
<1>n. PC \ Reassigning = {"idle", "start", "load", "pending", "excluded", "eligible", "mark",
         "insert", "window", "stamp", "reread", "failLoad", "failTerminal", "failMark",
         "failRevoke", "failNotify", "revoke"}
  BY DEF PC, Reassigning
<1>1. CASE \/ ContinueLoad(t) \/ ContinuePending(t) \/ FailLoad(t) \/ FailNotify(t)
           \/ \E r \in Riders : OrderConflict(t, r)
  <2>1. CallsShrink
    BY <1>1, <1>n, CallMoves
       DEF ContinueLoad, ContinuePending, FailLoad, FailNotify, OrderConflict
  <2>2. UNCHANGED rows
    BY <1>1 DEF ContinueLoad, ContinuePending, FailLoad, FailNotify, OrderConflict
  <2> QED BY <2>1, <2>2, StepKept DEF rows, Terminal, Open
<1>2. CASE ReadExcluded(t)
  <2> DEFINE k == [task[t] EXCEPT !.pc = "eligible", !.excl = Asked(task[t].order)]
  <2>1. k.pool = task[t].pool /\ k.pc = "eligible" /\ Moves(t, k)
    BY <1>2 DEF ReadExcluded, Moves, TypeOK, Task
  <2> HIDE DEF k
  <2>2. CallsShrink
    BY <2>1, MovesShrink DEF Reassigning
  <2>3. UNCHANGED rows
    BY <1>2 DEF ReadExcluded
  <2> QED BY <2>2, <2>3, StepKept DEF rows, Terminal, Open
<1>3. ASSUME NEW r \in Riders, RiderTaken(t, r)
      PROVE  TargetsForced' /\ \A q \in Riders \ ReassignTargets : Kept(q)
  <2> DEFINE k == [task[t] EXCEPT !.pool = task[t].pool \ {r}, !.tries = task[t].tries + 1]
  <2>1. k.pool \subseteq task[t].pool /\ k.pc = "insert"
    BY <1>3 DEF RiderTaken, TypeOK, Task
  <2>2. Moves(t, k) \/ NoOffer(t)
    BY <1>3 DEF RiderTaken, Moves
  <2> HIDE DEF k
  <2>3. CallsShrink
    BY <2>1, <2>2, MovesShrink, CallMoves DEF Reassigning
  <2>4. UNCHANGED rows
    BY <1>3 DEF RiderTaken
  <2> QED BY <2>3, <2>4, StepKept DEF rows, Terminal, Open
<1>4. CASE \/ StartAssignment(t) \/ MarkBeforeOffer(t) \/ FailTerminal(t)
           \/ CheckWindow(t) \/ StampWindow(t) \/ RecheckWindow(t)
  <2>1. CallsShrink
    <3>1. CASE CheckWindow(t) \/ StampWindow(t) \/ RecheckWindow(t)
      <4>1. Finish(t) \/ \E pc \in {"stamp", "reread", "failLoad"} : Goto(t, pc)
        BY <3>1, <1>o DEF CheckWindow, StampWindow, RecheckWindow, TypeOK, Search
      <4> QED BY <4>1, <1>n, CallMoves
    <3> QED BY <1>4, <3>1, <1>n, CallMoves DEF StartAssignment, MarkBeforeOffer, FailTerminal
  <2>2. UNCHANGED <<status, rider, offer>>
    BY <1>4 DEF StartAssignment, MarkBeforeOffer, FailTerminal, CheckWindow, StampWindow,
                RecheckWindow, rows
  <2> QED BY <2>1, <2>2, StepKept DEF Terminal, Open
<1>5. CASE FailMark(t)
  <2>1. CallsShrink
    BY <1>5, <1>n, CallMoves DEF FailMark
  <2>2. UNCHANGED <<status, offer>> /\ \A o \in Orders : rider'[o] \in {rider[o], NoRider}
    BY <1>5, <1>o DEF FailMark, TypeOK
  <2> QED BY <2>1, <2>2, StepKept DEF Terminal, Open
<1>6. CASE FailRevoke(t) \/ ReassignRevoke(t) \/ RevokeOffers(t)
  <2>1. CallsShrink
    <3>1. CASE ReassignRevoke(t)
      <4> DEFINE k == [task[t] EXCEPT !.pc = "reassignInsert"]
      <4>1. k.pool = task[t].pool /\ k.target = task[t].target /\ Moves(t, k)
        BY <3>1 DEF ReassignRevoke, Goto, Moves, TypeOK, Task
      <4>2. task[t].target \in ReassignTargets
        BY <3>1 DEF ReassignRevoke, TargetsForced, Reassigning
      <4> HIDE DEF k
      <4> QED BY <4>1, <4>2, MovesShrink
    <3> QED BY <1>6, <3>1, <1>n, CallMoves DEF FailRevoke, RevokeOffers
  <2>2. RevokeOpenOffers(task[t].order) /\ UNCHANGED <<status, rider>>
    BY <1>6 DEF FailRevoke, ReassignRevoke, RevokeOffers
  <2>3. task[t].order \in Orders
    BY <1>6, <1>o DEF FailRevoke, ReassignRevoke, RevokeOffers
  <2>4. \A o \in Orders, r \in Riders : Open(o, r)' => Open(o, r)
    BY <2>2, <2>3, RevokeCells DEF Open
  <2> QED BY <2>1, <2>2, <2>4, StepKept DEF Terminal
<1>7. CASE ReassignInsert(t)
  <2>1. CallsShrink
    BY <1>7, CallMoves DEF ReassignInsert
  <2>2. UNCHANGED <<status, rider>>
    BY <1>7 DEF ReassignInsert
  <2>3. task[t].order \in Orders /\ task[t].target \in Riders /\ task[t].target \in ReassignTargets
    BY <1>7 DEF ReassignInsert, TypeOK, TargetsForced, Reassigning
  <2>4. \A o \in Orders, r \in Riders \ ReassignTargets : Open(o, r)' => Open(o, r)
    <3>1. UNCHANGED offer \/ SetOffer(task[t].order, task[t].target, "pending")
      BY <1>7 DEF ReassignInsert, InsertOffer
    <3> QED BY <2>3, <3>1, SetOfferCells DEF Open
  <2> QED BY <2>1, <2>2, <2>4, StepKept DEF Terminal
<1> QED
  BY <1>1, <1>2, <1>3, <1>4, <1>5, <1>6, <1>7 DEF EngineStep

\* The read of the candidates lists only riders below the cap whom nobody asks.
LEMMA EligibleListed ==
  ASSUME TypeOK, TargetsForced, recent' \subseteq recent, NEW t \in Tasks, ReadEligible(t)
  PROVE  TargetsForced' /\ Bounded
<1> USE DEF At
<1> DEFINE pool == Eligible(task[t].excl)
           next == IF task[t].call = "continue" THEN "mark" ELSE "insert"
           k == [task[t] EXCEPT !.pool = pool, !.excl = {}, !.pc = next]
<1>1. UNCHANGED rows
  BY DEF ReadEligible
<1>2. CASE pool = {}
  <2>1. CallsShrink
    BY <1>2, CallMoves DEF ReadEligible
  <2> QED BY <1>1, <2>1, StepKept DEF rows, Terminal, Open, Bounded
<1>3. CASE pool # {}
  <2>1. Moves(t, k)
    BY <1>3 DEF ReadEligible, Moves
  <2>2. k.pool = pool /\ k.pc \notin Reassigning
    BY DEF TypeOK, Task, Reassigning
  <2>3. \A u \in Tasks : task'[u] = IF u = t THEN k ELSE task[u]
    BY <2>1 DEF Moves, TypeOK
  <2>4. TargetsForced'
    <3> HIDE DEF k
    <3> QED BY <2>2, <2>3 DEF TargetsForced
  <2>5. ASSUME NEW r \in Riders \ ReassignTargets
        PROVE  Kept(r) \/ Listed(r)
    <3>1. OrdersKept(r) /\ AskedFor(r)' = AskedFor(r)
      BY <1>1 DEF OrdersKept, ActiveOrders, AskedFor, Terminal, Open, rows
    <3>2. CASE r \in pool
      <4>1. AskedFor(r) = {} /\ Cardinality(ActiveOrders(r)) < RiderCap
        BY <3>2 DEF Eligible, AskedFor
      <4> QED BY <3>1, <4>1 DEF Listed
    <3>3. CASE r \notin pool
      <4>1. CandidateOf(r)' \subseteq CandidateOf(r)
        <5> HIDE DEF k, pool
        <5> QED BY <2>2, <2>3, <3>3 DEF CandidateOf
      <4> QED BY <3>1, <4>1 DEF Kept
    <3> QED BY <3>2, <3>3
  <2> QED BY <2>4, <2>5 DEF Bounded
<1> QED BY <1>2, <1>3

\* An offer is made by a call that gives up its candidates.
LEMMA OfferBounded ==
  ASSUME TypeOK, TargetsForced, recent' \subseteq recent, NEW t \in Tasks, NEW q \in Riders,
         CreateOffer(t, q)
  PROVE  TargetsForced' /\ Bounded
<1>1. task[t].order \in Orders
  BY DEF CreateOffer, At, TypeOK
<1>2. CallsShrink
  BY CallMoves DEF CreateOffer
<1>3. UNCHANGED <<status, rider>> /\ t \in CandidateOf(q)
  BY DEF CreateOffer, CandidateOf
<1>4. \A o \in Orders, r \in Riders : Open(o, r)' <=> Open(o, r) \/ (o = task[t].order /\ r = q)
  <2>1. SetOffer(task[t].order, q, "pending")
    BY DEF CreateOffer, InsertOffer
  <2> QED BY <1>1, <2>1, SetOfferCells DEF Open
<1>5. TargetsForced'
  BY <1>2 DEF CallsShrink, TargetsForced
<1>6. ASSUME NEW r \in Riders \ ReassignTargets
      PROVE  Kept(r) \/ Offered(r)
  <2>1. OrdersKept(r) /\ CandidateOf(r)' \subseteq CandidateOf(r)
    BY <1>2, <1>3 DEF OrdersKept, ActiveOrders, Terminal, CandidateOf, CallsShrink
  <2>2. CASE r # q
    <3>1. AskedFor(r)' \subseteq AskedFor(r)
      BY <1>4, <2>2 DEF AskedFor
    <3> QED BY <2>1, <3>1 DEF Kept
  <2>3. CASE r = q
    <3>1. AskedFor(r)' \subseteq AskedFor(r) \cup {task[t].order}
      BY <1>4 DEF AskedFor
    <3>2. CandidateOf(r)' \subseteq CandidateOf(r) \ {t}
      <4>1. task'[t] = Idle /\ Idle.pool = {}
        BY DEF CreateOffer, Finish, TypeOK, Idle
      <4> QED BY <2>1, <4>1 DEF CandidateOf
    <3> QED BY <1>1, <1>3, <2>1, <2>3, <3>1, <3>2 DEF Offered
  <2> QED BY <2>2, <2>3
<1> QED BY <1>5, <1>6 DEF Bounded

\* An accepted offer becomes an order of its rider: asked for once less, active
\* once more.
LEMMA AcceptBounded ==
  ASSUME TypeOK, TargetsForced, recent' \subseteq recent, NEW o \in Orders, NEW q \in Riders,
         AcceptOffer(o, q)
  PROVE  TargetsForced' /\ Bounded
<1>1. UNCHANGED <<status, task>> /\ rider' = [rider EXCEPT ![o] = q] /\ Open(o, q)
  BY DEF AcceptOffer, Open
<1>2. \A p \in Orders, r \in Riders : Open(p, r)' <=> Open(p, r) /\ ~(p = o /\ r = q)
  <2>1. SetOffer(o, q, "accepted")
    BY DEF AcceptOffer
  <2> QED BY <2>1, SetOfferCells DEF Open
<1>3. TargetsForced'
  BY <1>1 DEF TargetsForced
<1>4. ASSUME NEW r \in Riders \ ReassignTargets
      PROVE  Kept(r) \/ Accepted(r)
  <2>1. CandidateOf(r)' \subseteq CandidateOf(r)
    BY <1>1 DEF CandidateOf
  <2>2. \A p \in Orders : Terminal(p)' <=> Terminal(p)
    BY <1>1 DEF Terminal
  <2>3. \A p \in Orders : rider'[p] = IF p = o THEN q ELSE rider[p]
    BY <1>1 DEF TypeOK
  <2>4. CASE r # q
    <3>1. OrdersKept(r) /\ AskedFor(r)' \subseteq AskedFor(r)
      BY <1>2, <2>2, <2>3, <2>4 DEF OrdersKept, ActiveOrders, AskedFor
    <3> QED BY <2>1, <3>1 DEF Kept
  <2>5. CASE r = q
    <3>1. ActiveOrders(r)' \subseteq ActiveOrders(r) \cup {o}
      BY <2>2, <2>3 DEF ActiveOrders
    <3>2. o \in AskedFor(r) /\ AskedFor(r)' \subseteq AskedFor(r) \ {o}
      BY <1>1, <1>2, <2>5 DEF AskedFor
    <3> QED BY <2>1, <3>1, <3>2 DEF Accepted
  <2> QED BY <2>4, <2>5
<1> QED BY <1>3, <1>4 DEF Bounded

\* Every step of the system.
LEMMA StepBounded ==
  ASSUME TypeOK, TargetsForced, [Next]_vars
  PROVE  TargetsForced' /\ Bounded
<1> USE DEF At
<1> DEFINE Calm == TargetsForced' /\ \A r \in Riders \ ReassignTargets : Kept(r)
<1>0. Calm => TargetsForced' /\ Bounded
  BY DEF Bounded
<1>r. recent' \subseteq recent
  BY RecentShrinks
<1>n. {"idle", "start", "load", "window", "revoke"} \subseteq PC \ Reassigning
  BY DEF PC, Reassigning
<1>1. ASSUME NEW t \in Tasks, EngineStep(t)
      PROVE  TargetsForced' /\ Bounded
  BY <1>0, <1>1, <1>r, EngineKept, EligibleListed, OfferBounded
<1>2. CASE \/ \E t \in Tasks : Abort(t)
           \/ \E t \in Tasks, o \in Orders : RecoverStuck(t, o) \/ CallStart(t, o)
           \/ \E r \in Toggling : SetOnline(r)
           \/ \E o \in Orders : WindowCloses(o) \/ OrderAges(o)
           \/ UNCHANGED vars
  <2>1. CallsShrink
    <3>1. Sweeper \in Tasks
      BY DEF Tasks
    <3> QED BY <1>2, <1>n, <3>1, CallMoves
          DEF Abort, RecoverStuck, CallStart, SetOnline, WindowCloses, OrderAges, vars
  <2>2. UNCHANGED <<status, rider, offer>>
    BY <1>2 DEF Abort, RecoverStuck, CallStart, SetOnline, WindowCloses, OrderAges, vars, rows
  <2>3. Calm
    BY <1>r, <2>1, <2>2, StepKept DEF Terminal, Open
  <2> QED BY <1>0, <2>3
<1>3. ASSUME NEW o \in Orders, NEW q \in Riders,
             \/ AcceptUnassignable(o, q) \/ OfferLapses(o, q) \/ ExpireOffer(o, q)
             \/ \E t \in Handlers : AcceptExpired(t, o, q) \/ RejectOffer(t, o, q)
      PROVE  TargetsForced' /\ Bounded
  <2>1. CallsShrink
    BY <1>3, <1>n, CallMoves
       DEF AcceptUnassignable, OfferLapses, ExpireOffer, AcceptExpired, RejectOffer, Tasks
  <2>2. PICK s : SetOffer(o, q, s)
    BY <1>3 DEF AcceptUnassignable, OfferLapses, ExpireOffer, AcceptExpired, RejectOffer
  <2>3. Open(o, q)
    BY <1>3 DEF AcceptUnassignable, OfferLapses, ExpireOffer, AcceptExpired, RejectOffer,
                Overdue, Open
  <2>4. \A p \in Orders, r \in Riders : Open(p, r)' => Open(p, r)
    BY <2>2, <2>3, SetOfferCells DEF Open
  <2>5. UNCHANGED <<status, rider>>
    BY <1>3 DEF AcceptUnassignable, OfferLapses, ExpireOffer, AcceptExpired, RejectOffer
  <2>6. Calm
    BY <1>r, <2>1, <2>4, <2>5, StepKept DEF Terminal
  <2> QED BY <1>0, <2>6
<1>4. ASSUME NEW o \in Orders,
             \/ CancelQuietly(o) \/ \E s \in Status : AdvanceStatus(o, s)
             \/ \E t \in Handlers : CancelOrder(t, o)
      PROVE  TargetsForced' /\ Bounded
  <2>1. CallsShrink
    <3>1. Sweeper \in Tasks
      BY DEF Tasks
    <3> QED BY <1>4, <1>n, <3>1, CallMoves DEF CancelQuietly, AdvanceStatus, CancelOrder, Tasks
  <2>2. UNCHANGED <<rider, offer>>
    BY <1>4 DEF CancelQuietly, AdvanceStatus, CancelOrder
  <2>3. status[o] \notin {"Delivered", "Cancelled"} /\ \E s : status' = [status EXCEPT ![o] = s]
    BY <1>4 DEF CancelQuietly, AdvanceStatus, CancelOrder, Later
  <2>4. \A p \in Orders : Terminal(p) => Terminal(p)'
    BY <2>3 DEF Terminal, TypeOK
  <2>5. Calm
    BY <1>r, <2>1, <2>2, <2>4, StepKept DEF Open
  <2> QED BY <1>0, <2>5
<1>5. ASSUME NEW t \in Handlers, NEW o \in Orders, ReopenOrder(t, o)
      PROVE  TargetsForced' /\ Bounded
  <2>1. CallsShrink
    BY <1>5, <1>n, CallMoves DEF ReopenOrder, Tasks
  <2>2. /\ offer' = offer
        /\ status' = [status EXCEPT ![o] = "Pending"]
        /\ rider' = [rider EXCEPT ![o] = NoRider]
    BY <1>5 DEF ReopenOrder
  <2>3. \A p \in Orders : /\ rider'[p] # NoRider => rider'[p] = rider[p]
                          /\ Terminal(p) => Terminal(p)' \/ rider'[p] = NoRider
    BY <2>2 DEF Terminal, TypeOK
  <2>4. Calm
    BY <1>r, <2>1, <2>2, <2>3, StepKept DEF Open
  <2> QED BY <1>0, <2>4
<1>6. ASSUME NEW t \in Handlers, NEW o \in Orders, NEW q \in ReassignTargets,
             ReassignRider(t, o, q)
      PROVE  TargetsForced' /\ Bounded
  <2> DEFINE k == [Fresh("reassignRevoke", o) EXCEPT !.target = q]
  <2>1. CallsShrink
    <3>1. k.pool = {} /\ k.target = q
      BY DEF Fresh
    <3>2. Moves(t, k) /\ t \in Tasks
      BY <1>6 DEF ReassignRider, Moves, Tasks
    <3> HIDE DEF k
    <3> QED BY <3>1, <3>2, MovesShrink
  <2>2. /\ status' = status
        /\ SetOffer(o, q, "none")
        /\ rider' = [rider EXCEPT ![o] = NoRider]
    BY <1>6 DEF ReassignRider
  <2>3. \A p \in Orders : /\ rider'[p] # NoRider => rider'[p] = rider[p]
                          /\ Terminal(p) => Terminal(p)'
    BY <2>2 DEF Terminal, TypeOK
  <2>4. \A p \in Orders, r \in Riders : Open(p, r)' => Open(p, r)
    BY <2>2, SetOfferCells, BoundsAssumption DEF Open
  <2>5. Calm
    BY <1>r, <2>1, <2>3, <2>4, StepKept
  <2> QED BY <1>0, <2>5
<1>7. CASE RiderAnswers
  BY <1>3, <1>7, <1>r, AcceptBounded DEF RiderAnswers
<1>8. CASE SweeperTick
  BY <1>2, <1>3, <1>8 DEF SweeperTick, Tasks
<1>9. CASE Calls
  BY <1>2, <1>4, <1>5, <1>6, <1>9 DEF Calls, Tasks
<1>10. CASE OrderMoves
  BY <1>4, <1>10 DEF OrderMoves
<1>11. CASE TimePasses
  BY <1>2, <1>3, <1>11, BoundsAssumption DEF TimePasses
<1> QED
  BY <1>1, <1>2, <1>7, <1>8, <1>9, <1>10, <1>11 DEF Next

\* Nobody is asked, holds an order or is a candidate at the start.
LEMMA InitCap == Init => CapInv
<1> SUFFICES ASSUME Init PROVE TargetsForced /\ CapOvershoot
  BY InitTypeOK DEF CapInv
<1>1. TargetsForced
  BY DEF Init, TargetsForced, Idle, Reassigning
<1>2. ASSUME NEW r \in Riders
      PROVE  Cap(r)
  <2>1. ActiveOrders(r) = {} /\ AskedFor(r) = {} /\ CandidateOf(r) = {}
    BY <1>2, RidersAssumption DEF Init, ActiveOrders, AskedFor, CandidateOf, Open, Idle
  <2>2. Cardinality({}) = 0
    BY FS_EmptySet
  <2>3. Cardinality(Tasks) \in Nat /\ Cardinality(Tasks) > 0 /\ RiderCap \in Nat
    BY CountedFinite, BoundsAssumption
  <2> QED BY <2>1, <2>2, <2>3 DEF Cap
<1> QED BY <1>1, <1>2 DEF CapOvershoot, Cap

\* Every step keeps the bound.
LEMMA StepCap ==
  ASSUME CapInv, [Next]_vars
  PROVE  CapInv'
<1>1. TypeOK' /\ TargetsForced' /\ Bounded
  BY StepTypeOK, StepBounded DEF CapInv
<1>2. \A r \in Riders \ ReassignTargets : Cap(r)
  BY DEF CapInv, CapOvershoot, Cap
<1>3. \A r \in Riders \ ReassignTargets : Cap(r)'
  BY <1>1, <1>2, CapStep DEF Bounded
<1>4. CapOvershoot'
  BY <1>3 DEF CapOvershoot, Cap
<1> QED BY <1>1, <1>4 DEF CapInv

\* However many dispatches run and interleave, the orders a rider has, is asked
\* for and is a candidate of exceed max_active_orders by less than the number of
\* calls that can run at a time, unless an admin forces orders onto him.
THEOREM CapOvershootBounded == Spec => []CapOvershoot
<1>1. CapInv => CapOvershoot
  BY DEF CapInv
<1> QED BY <1>1, InitCap, StepCap, PTL DEF Spec

-----------------------------------------------------------------------------
(* The engine implements the hand-off contract                             *)

\* OpenRider picks the one rider with an open offer.
OpenRiderPicks ==
  \A o \in Orders :
     /\ OpenRider(o) \in Riders \cup {NoRider}
     /\ OpenRider(o) = NoRider <=> ~HasOpenOffer(o)
     /\ \A r \in Riders : OpenRider(o) = r <=> Open(o, r)

\* With one open offer per order, OpenRider is the rider being asked.
LEMMA OpenRiderUnique == OneOpenOffer => OpenRiderPicks
<1> SUFFICES ASSUME OneOpenOffer, NEW o \in Orders
             PROVE  /\ OpenRider(o) \in Riders \cup {NoRider}
                    /\ OpenRider(o) = NoRider <=> ~HasOpenOffer(o)
                    /\ \A r \in Riders : OpenRider(o) = r <=> Open(o, r)
  BY DEF OpenRiderPicks
<1>1. CASE HasOpenOffer(o)
  <2>1. PICK q \in Riders : Open(o, q)
    BY <1>1 DEF HasOpenOffer
  <2>2. OpenRider(o) \in Riders /\ Open(o, OpenRider(o))
    BY <1>1, <2>1 DEF OpenRider
  <2>3. \A r \in Riders : Open(o, r) => r = OpenRider(o)
    BY <2>2 DEF OneOpenOffer
  <2> QED BY <1>1, <2>2, <2>3, RidersAssumption
<1>2. CASE ~HasOpenOffer(o)
  BY <1>2, RidersAssumption DEF OpenRider, HasOpenOffer
<1> QED BY <1>1, <1>2

asking == [o \in Orders |-> OpenRider(o)]
asked  == [o \in Orders |-> Asked(o)]

\* The engine's initial state maps to that of the contract.
LEMMA InitHandoff == Init => Handoff!Init
<1> SUFFICES ASSUME Init PROVE Handoff!Init
  OBVIOUS
<1>1. \A o \in Orders : OpenRider(o) = NoRider /\ Asked(o) = {}
  BY DEF Init, OpenRider, HasOpenOffer, Open, Asked
<1> QED BY <1>1 DEF Init, Handoff!Init

\* An order whose open offers stay is still asking the same rider.
LEMMA OpenRiderSame ==
  ASSUME OpenRiderPicks, OpenRiderPicks', NEW o \in Orders,
         \A q \in Riders : Open(o, q)' <=> Open(o, q)
  PROVE  OpenRider(o)' = OpenRider(o)
<1>1. HasOpenOffer(o)' <=> HasOpenOffer(o)
  BY DEF HasOpenOffer
<1>2. CASE HasOpenOffer(o)
  BY <1>1, <1>2 DEF OpenRiderPicks
<1>3. CASE ~HasOpenOffer(o)
  BY <1>1, <1>3 DEF OpenRiderPicks
<1> QED BY <1>2, <1>3

\* An order with no open offer left is asking nobody.
LEMMA OpenRiderGone ==
  ASSUME OpenRiderPicks', NEW o \in Orders, \A q \in Riders : ~Open(o, q)'
  PROVE  OpenRider(o)' = NoRider
BY DEF OpenRiderPicks, HasOpenOffer

\* The riders asked stay the same if no row appears or disappears.
LEMMA AskedSame ==
  ASSUME NEW o \in Orders,
         \A q \in Riders : (offer'[o][q] # "none") <=> (offer[o][q] # "none")
  PROVE  Asked(o)' = Asked(o)
BY DEF Asked

\* Every step maps to a step of the contract or to a stutter.
LEMMA StepHandoff ==
  ASSUME IInv, IInv', OpenRiderPicks, OpenRiderPicks', [Next]_vars
  PROVE  [Handoff!Next]_(Handoff!handoffVars)
<1>0. TypeOK /\ OneOpenOffer /\ HolderAccepted
  BY DEF IInv
<1> SUFFICES Handoff!Next \/ UNCHANGED <<rider, asking, asked>>
  BY DEF Handoff!handoffVars, asking, asked
<1>1. CASE Unmoved
  <2>1. offer' = offer /\ rider' = rider
    BY <1>1 DEF Unmoved
  <2>2. asking' = asking /\ asked' = asked
    BY <2>1 DEF asking, asked, OpenRider, HasOpenOffer, Open, Asked
  <2> QED BY <2>1, <2>2
<1>2. ASSUME NEW o \in Orders, NEW r \in Riders, Asks(o, r)
      PROVE  Handoff!Next
  <2>1. /\ \A p \in Orders, q \in Riders :
              offer'[p][q] = IF p = o /\ q = r THEN "pending" ELSE offer[p][q]
        /\ rider' = rider
    BY <1>0, <1>2, SetOfferCells DEF Asks, InsertOffer
  <2>2. /\ rider[o] = NoRider
        /\ offer[o][r] = "none"
        /\ \A q \in Riders : ~Open(o, q)
        /\ \A p \in Orders : ~Open(p, r)
    BY <1>2 DEF Asks, CanInsert, Assignable, OrderKeysFree, RiderKeyFree, HasOpenOffer
  <2>3. \A p \in Orders : OpenRider(p)' = IF p = o THEN r ELSE OpenRider(p)
    <3>1. OpenRider(o)' = r
      BY <2>1 DEF OpenRiderPicks, Open
    <3>2. \A p \in Orders \ {o} : \A q \in Riders : Open(p, q)' <=> Open(p, q)
      BY <2>1 DEF Open
    <3> QED BY <3>1, <3>2, OpenRiderSame
  <2>4. \A p \in Orders : Asked(p)' = IF p = o THEN Asked(p) \cup {r} ELSE Asked(p)
    BY <2>1 DEF Asked
  <2>5. /\ OpenRider(o) = NoRider
        /\ \A p \in Orders : OpenRider(p) # r
        /\ r \notin Asked(o)
    BY <2>2 DEF OpenRiderPicks, HasOpenOffer, Asked
  <2>6. Handoff!Ask(o, r)
    BY <2>1, <2>2, <2>3, <2>4, <2>5 DEF Handoff!Ask
  <2> QED BY <2>6 DEF Handoff!Next
<1>3. ASSUME NEW o \in Orders, NEW r \in Riders, AcceptOffer(o, r)
      PROVE  Handoff!Next
  <2>1. /\ \A p \in Orders, q \in Riders :
              offer'[p][q] = IF p = o /\ q = r THEN "accepted" ELSE offer[p][q]
        /\ rider' = [rider EXCEPT ![o] = r]
        /\ rider[o] = NoRider
        /\ offer[o][r] = "pending"
    BY <1>0, <1>3, SetOfferCells DEF AcceptOffer, Assignable
  <2>2. OpenRider(o) = r
    BY <2>1 DEF OpenRiderPicks, Open
  <2>3. \A p \in Orders : OpenRider(p)' = IF p = o THEN NoRider ELSE OpenRider(p)
    <3>1. \A q \in Riders : ~Open(o, q)'
      BY <1>0, <2>1 DEF OneOpenOffer, Open
    <3>2. \A p \in Orders \ {o} : \A q \in Riders : Open(p, q)' <=> Open(p, q)
      BY <2>1 DEF Open
    <3> QED BY <3>1, <3>2, OpenRiderSame, OpenRiderGone
  <2>4. \A p \in Orders : Asked(p)' = Asked(p)
    BY <2>1, AskedSame
  <2>5. Handoff!Take(o)
    BY <2>1, <2>2, <2>3, <2>4, RidersAssumption DEF Handoff!Take
  <2> QED BY <2>5 DEF Handoff!Next
<1>4. ASSUME NEW o \in Orders, NEW r \in Riders, Closes(o, r)
      PROVE  Handoff!Next
  <2>1. PICK s \in {"rejected", "expired", "cancelled"} : SetOffer(o, r, s)
    BY <1>4 DEF Closes
  <2>2. /\ \A p \in Orders, q \in Riders :
              offer'[p][q] = IF p = o /\ q = r THEN s ELSE offer[p][q]
        /\ rider' = rider
        /\ Open(o, r)
    BY <1>0, <1>4, <2>1, SetOfferCells DEF Closes
  <2>3. \A p \in Orders : OpenRider(p)' = IF p = o THEN NoRider ELSE OpenRider(p)
    <3>1. \A q \in Riders : ~Open(o, q)'
      BY <1>0, <2>2 DEF OneOpenOffer, Open
    <3>2. \A p \in Orders \ {o} : \A q \in Riders : Open(p, q)' <=> Open(p, q)
      BY <2>2 DEF Open
    <3> QED BY <3>1, <3>2, OpenRiderSame, OpenRiderGone
  <2>4. \A p \in Orders : Asked(p)' = Asked(p)
    BY <2>2, AskedSame DEF Open
  <2>5. OpenRider(o) # NoRider
    BY <2>2, RidersAssumption DEF OpenRiderPicks
  <2>6. Handoff!Withdraw(o)
    BY <2>2, <2>3, <2>4, <2>5 DEF Handoff!Withdraw
  <2> QED BY <2>6 DEF Handoff!Next
<1>5. ASSUME NEW o \in Orders, NEW r \in Riders, OfferLapses(o, r)
      PROVE  UNCHANGED <<rider, asking, asked>>
  <2>1. /\ \A p \in Orders, q \in Riders :
              offer'[p][q] = IF p = o /\ q = r THEN "lapsed" ELSE offer[p][q]
        /\ rider' = rider
        /\ offer[o][r] = "pending"
    BY <1>0, <1>5, SetOfferCells DEF OfferLapses
  <2>2. \A p \in Orders : \A q \in Riders : Open(p, q)' <=> Open(p, q)
    BY <2>1 DEF Open
  <2>3. \A p \in Orders : OpenRider(p)' = OpenRider(p)
    BY <2>2, OpenRiderSame
  <2>4. \A p \in Orders : Asked(p)' = Asked(p)
    BY <2>1, AskedSame
  <2> QED BY <2>1, <2>3, <2>4 DEF asking, asked
<1>6. ASSUME NEW o \in Orders, Revokes(o)
      PROVE  Handoff!Next \/ UNCHANGED <<rider, asking, asked>>
  <2>1. /\ \A p \in Orders, q \in Riders :
              offer'[p][q] = IF p = o /\ Open(p, q) THEN "cancelled" ELSE offer[p][q]
        /\ rider' = rider
    BY <1>0, <1>6, RevokeCells DEF Revokes
  <2>2. \A p \in Orders : OpenRider(p)' = IF p = o THEN NoRider ELSE OpenRider(p)
    <3>1. \A q \in Riders : ~Open(o, q)'
      BY <2>1 DEF Open
    <3>2. \A p \in Orders \ {o} : \A q \in Riders : Open(p, q)' <=> Open(p, q)
      BY <2>1 DEF Open
    <3> QED BY <3>1, <3>2, OpenRiderSame, OpenRiderGone
  <2>3. \A p \in Orders : Asked(p)' = Asked(p)
    BY <2>1, AskedSame DEF Open
  <2>4. CASE OpenRider(o) = NoRider
    BY <2>1, <2>2, <2>3, <2>4 DEF asking, asked
  <2>5. CASE OpenRider(o) # NoRider
    <3>1. Handoff!Withdraw(o)
      BY <2>1, <2>2, <2>3, <2>5 DEF Handoff!Withdraw
    <3> QED BY <3>1 DEF Handoff!Next
  <2> QED BY <2>4, <2>5
<1>7. ASSUME NEW t \in Handlers, NEW o \in Orders, ReopenOrder(t, o)
      PROVE  Handoff!Next
  <2>1. offer' = offer /\ rider' = [rider EXCEPT ![o] = NoRider]
    BY <1>7 DEF ReopenOrder
  <2>2. asking' = asking /\ asked' = asked
    BY <2>1 DEF asking, asked, OpenRider, HasOpenOffer, Open, Asked
  <2>3. Handoff!Release(o, {})
    BY <2>1, <2>2 DEF Handoff!Release, asking, asked
  <2> QED BY <2>3 DEF Handoff!Next
<1>8. ASSUME NEW t \in Handlers, NEW o \in Orders, NEW r \in ReassignTargets,
             ReassignRider(t, o, r)
      PROVE  Handoff!Next
  <2>1. r \in Riders
    BY BoundsAssumption
  <2>2. SetOffer(o, r, "none") /\ rider' = [rider EXCEPT ![o] = NoRider]
    BY <1>8 DEF ReassignRider
  <2>3. \A p \in Orders, q \in Riders :
           offer'[p][q] = IF p = o /\ q = r THEN "none" ELSE offer[p][q]
    BY <1>0, <2>1, <2>2, SetOfferCells
  <2>4. \A p \in Orders :
           OpenRider(p)' = IF p = o /\ OpenRider(p) = r THEN NoRider ELSE OpenRider(p)
    <3>1. CASE OpenRider(o) = r
      <4>1. \A q \in Riders : ~Open(o, q)'
        BY <1>0, <2>1, <2>3, <3>1 DEF OpenRiderPicks, Open
      <4>2. \A p \in Orders \ {o} : \A q \in Riders : Open(p, q)' <=> Open(p, q)
        BY <2>3 DEF Open
      <4> QED BY <3>1, <4>1, <4>2, OpenRiderSame, OpenRiderGone
    <3>2. CASE OpenRider(o) # r
      <4>1. \A p \in Orders, q \in Riders : Open(p, q)' <=> Open(p, q)
        BY <2>1, <2>3, <3>2 DEF OpenRiderPicks, Open
      <4> QED BY <3>2, <4>1, OpenRiderSame
    <3> QED BY <3>1, <3>2
  <2>5. \A p \in Orders : Asked(p)' = IF p = o THEN Asked(p) \ {r} ELSE Asked(p)
    BY <2>3 DEF Asked
  <2>6. Handoff!Release(o, {r})
    BY <2>2, <2>4, <2>5 DEF Handoff!Release
  <2> QED BY <2>1, <2>6 DEF Handoff!Next
<1> QED
  BY <1>0, <1>1, <1>2, <1>3, <1>4, <1>5, <1>6, <1>7, <1>8, StepEffects DEF Effect

\* Whatever calls interleave or die, the engine only ever asks, takes,
\* withdraws and releases as RiderHandoff allows.
THEOREM EngineImplementsHandoff == Spec => ImplementsHandoff
<1>1. IInv => OpenRiderPicks
  BY OpenRiderUnique DEF IInv
<1>2. IInv /\ IInv' /\ OpenRiderPicks /\ OpenRiderPicks' /\ [Next]_vars
        => [Handoff!Next]_(Handoff!handoffVars)
  BY StepHandoff
<1> QED BY <1>1, <1>2, InitHandoff, IInvHolds, PTL DEF Spec, ImplementsHandoff, Handoff!Spec

=============================================================================
