--------------------------- MODULE Checkout_proofs ---------------------------
(***************************************************************************)
(* Theorems about Checkout for any attempts, requests, offers, limits,     *)
(* riders and connections.  The invariant has four layers, each used by    *)
(* the next: the types, the locks, the keys, and the uses and capacity.    *)
(***************************************************************************)
EXTENDS Checkout, FiniteSetTheorems, TLAPS

\* A request about to lock a row knows which.
PickedKnown ==
  \A r \in Requests :
    /\ pc[r] = "lockDeal" => picked[r] \in Deals
    /\ pc[r] = "lockCoupon" => picked[r] \in Coupons

ServerStep(r) == Send(r) \/ Progress(r) \/ Refuse(r) \/ Fail(r)

\* What a step of a request does to its program counter, locks and grants.
LEMMA MoveTypes ==
  ASSUME TypeOK, NEW r \in Requests, NEW step \in Steps,
         NEW rows \in SUBSET Offers, NEW offers \in SUBSET Offers,
         Move(r, step, rows, offers)
  PROVE  /\ pc' \in [Requests -> Steps]
         /\ locked' \in [Requests -> SUBSET Offers]
         /\ grant' \in [Requests -> SUBSET Offers]
<1> QED BY DEF TypeOK, Move

\* The same for a step that locks nothing.
LEMMA GotoTypes ==
  ASSUME TypeOK, NEW r \in Requests, NEW step \in Steps, Goto(r, step)
  PROVE  /\ pc' \in [Requests -> Steps]
         /\ locked' \in [Requests -> SUBSET Offers]
         /\ grant' \in [Requests -> SUBSET Offers]
<1>1. locked[r] \in SUBSET Offers /\ grant[r] \in SUBSET Offers
  BY DEF TypeOK
<1> QED BY <1>1, MoveTypes DEF Goto

\* The names of the steps.
LEMMA StepNames ==
  /\ {"unsent", "pool", "key", "area", "load", "gate", "deal", "lockDeal",
      "coupon", "lockCoupon", "number", "insert", "commit", "replay", "placed",
      "replayed", "refused", "failed"} = Steps
  /\ \A r \in Requests : WithoutDeal(r) \in Steps /\ WithoutCoupon(r) \in Steps
<1> QED BY DEF Steps, InTransaction, Answers, WithoutDeal, WithoutCoupon

\* What is asked for is an offer, and what is considered is a coupon.
LEMMA AskedOffers ==
  ASSUME NEW r \in Requests
  PROVE  /\ Wants[r].deal # None => Wants[r].deal \in Deals
         /\ Considered(r) \subseteq Coupons
<1>1. Wants[r] \in Ask
  BY ConstantsAssumption
<1>2. Wants[r].deal \in Deals \cup {None} /\ Wants[r].coupon \in Coupons \cup {None}
  BY <1>1 DEF Ask
<1>3. Wants[r].mode \in {"chosen", "auto"} => Wants[r].coupon \in Coupons
  BY <1>2, ConstantsAssumption
<1> QED BY <1>2, <1>3 DEF Considered

\* The request's step keeps the types of the server's state.
LEMMA ServerTypes ==
  ASSUME TypeOK, PickedKnown, NEW r \in Requests, ServerStep(r)
  PROVE  /\ pc' \in [Requests -> Steps]
         /\ locked' \in [Requests -> SUBSET Offers]
         /\ grant' \in [Requests -> SUBSET Offers]
         /\ picked' \in [Requests -> Offers \cup {None}]
<1>1. CASE Send(r) \/ Begin(r) \/ CheckKey(r) \/ ResolveArea(r) \/ LoadArea(r)
           \/ CapacityGate(r) \/ TakeNumber(r) \/ Insert(r) \/ Commit(r)
           \/ Replay(r) \/ Refuse(r)
  <2>1. picked' = picked
    BY <1>1 DEF Send, Begin, CheckKey, ResolveArea, LoadArea, CapacityGate,
                TakeNumber, Insert, Commit, Replay, Refuse
  <2>2. \E step \in Steps : Goto(r, step)
    BY <1>1, StepNames DEF Send, Begin, CheckKey, ResolveArea, LoadArea, CapacityGate,
                TakeNumber, Insert, Commit, Replay, Refuse
  <2> QED BY <2>1, <2>2, GotoTypes DEF TypeOK
<1>2. CASE Fail(r)
  <2>1. Goto(r, "failed") /\ picked' = [picked EXCEPT ![r] = None]
    BY <1>2 DEF Fail
  <2> QED BY <2>1, GotoTypes, StepNames DEF TypeOK
<1>3. CASE PickDeal(r)
  <2>1. \E step \in Steps : Goto(r, step)
    BY <1>3, StepNames DEF PickDeal
  <2>2. picked' = picked \/ (Wants[r].deal \in Deals /\ picked' = [picked EXCEPT ![r] = Wants[r].deal])
    BY <1>3, AskedOffers DEF PickDeal
  <2> QED BY <2>1, <2>2, GotoTypes DEF TypeOK, Offers
<1>4. CASE PickCoupon(r)
  <2>1. \E step \in Steps : Goto(r, step)
    BY <1>4, StepNames DEF PickCoupon
  <2>2. picked' = picked \/ (\E c \in Coupons : picked' = [picked EXCEPT ![r] = c])
    BY <1>4, AskedOffers DEF PickCoupon
  <2> QED BY <2>1, <2>2, GotoTypes DEF TypeOK, Offers
<1>5. ASSUME NEW next \in Steps, NEW without \in Steps, Lock(r, next, without),
             picked[r] \in Offers
      PROVE  /\ pc' \in [Requests -> Steps]
             /\ locked' \in [Requests -> SUBSET Offers]
             /\ grant' \in [Requests -> SUBSET Offers]
             /\ picked' \in [Requests -> Offers \cup {None}]
  <2>1. locked[r] \cup {picked[r]} \in SUBSET Offers /\ grant[r] \cup {picked[r]} \in SUBSET Offers
        /\ grant[r] \in SUBSET Offers
    BY <1>5 DEF TypeOK
  <2>2. picked' = [picked EXCEPT ![r] = None]
    BY <1>5 DEF Lock
  <2>3. \/ Move(r, next, locked[r] \cup {picked[r]}, grant[r] \cup {picked[r]})
        \/ Move(r, without, locked[r] \cup {picked[r]}, grant[r])
    BY <1>5 DEF Lock
  <2> QED BY <2>1, <2>2, <2>3, MoveTypes DEF TypeOK
<1>6. CASE LockDeal(r)
  <2>1. picked[r] \in Offers
    BY <1>6 DEF LockDeal, PickedKnown, Offers
  <2> QED BY <1>5, <1>6, <2>1, StepNames DEF LockDeal
<1>7. CASE LockCoupon(r)
  <2>1. picked[r] \in Offers
    BY <1>7 DEF LockCoupon, PickedKnown, Offers
  <2> QED BY <1>5, <1>7, <2>1, StepNames DEF LockCoupon
<1> QED BY <1>1, <1>2, <1>3, <1>4, <1>6, <1>7 DEF ServerStep, Progress

\* A step of a request leaves the other requests where they are.
LEMMA OthersStay ==
  ASSUME TypeOK, NEW r \in Requests, ServerStep(r), NEW q \in Requests, q # r
  PROVE  /\ pc'[q] = pc[q] /\ locked'[q] = locked[q]
         /\ grant'[q] = grant[q] /\ picked'[q] = picked[q]
<1>1. /\ \E step, rows, offers : Move(r, step, rows, offers)
      /\ picked' = picked \/ \E c : picked' = [picked EXCEPT ![r] = c]
  BY DEF ServerStep, Progress, Send, Begin, CheckKey, ResolveArea, LoadArea, CapacityGate,
         TakeNumber, Insert, Commit, Replay, Refuse, Fail, PickDeal, PickCoupon,
         LockDeal, LockCoupon, Lock, Goto
<1> QED BY <1>1 DEF TypeOK, Move

\* The request that is about to lock a row is the one that picked it.
LEMMA ServerPicked ==
  ASSUME TypeOK, PickedKnown, NEW r \in Requests, ServerStep(r)
  PROVE  PickedKnown'
<1>1. \A q \in Requests \ {r} : pc'[q] = pc[q] /\ picked'[q] = picked[q]
  BY OthersStay
<1>2. SUFFICES /\ pc'[r] = "lockDeal" => picked'[r] \in Deals
               /\ pc'[r] = "lockCoupon" => picked'[r] \in Coupons
  BY <1>1 DEF PickedKnown
<1>3. CASE PickDeal(r)
  BY <1>3, AskedOffers DEF PickDeal, Goto, Move, TypeOK, WithoutDeal
<1>4. CASE PickCoupon(r)
  BY <1>4, AskedOffers DEF PickCoupon, Goto, Move, TypeOK, WithoutCoupon
<1>5. CASE ~PickDeal(r) /\ ~PickCoupon(r)
  <2>1. \E step \in Steps \ {"lockDeal", "lockCoupon"} : \E rows, offers : Move(r, step, rows, offers)
    BY <1>5, StepNames
       DEF ServerStep, Progress, Send, Begin, CheckKey, ResolveArea, LoadArea, CapacityGate,
           TakeNumber, Insert, Commit, Replay, Refuse, Fail,
           LockDeal, LockCoupon, Lock, Goto, WithoutDeal, WithoutCoupon
  <2> QED BY <2>1 DEF Move, TypeOK
<1> QED BY <1>3, <1>4, <1>5

\* No other step touches the server's state.
LEMMA QuietSteps ==
  ASSUME NEW r \in Requests, NEW k \in Keys, GiveUp(k) \/ Hear(k) \/ Aftermath(r)
  PROVE  UNCHANGED serverVars
<1> QED BY DEF GiveUp, Hear, Aftermath, Deliver, CancelOrder, ReleaseUse, CancelWithUses,
               Reopen, GrowOld, serverVars

\* A step of a request keeps the types of the orders and the customers' state.
LEMMA ServerKeepsOrders ==
  ASSUME TypeOK, NEW r \in Requests, ServerStep(r)
  PROVE  /\ order' \in [Requests -> {"none", "live", "cancelled", "done"}]
         /\ active' \in [Requests -> SUBSET Offers]
         /\ granted' \in [Requests -> SUBSET Offers]
         /\ releasing' \in [Requests -> SUBSET Offers]
         /\ reopened' \in SUBSET Requests
         /\ old' \in SUBSET Requests /\ heldTo' \in Nat /\ unheld' \in SUBSET Requests
         /\ asked' \in [Keys -> Requests \cup {None}]
         /\ heard' \in SUBSET Keys
<1>1. CASE Commit(r)
  <2>1. grant[r] \in SUBSET Offers
    BY DEF TypeOK
  <2>2. /\ order' = [order EXCEPT ![r] = "live"]
        /\ active' = [active EXCEPT ![r] = grant[r]]
        /\ granted' = [granted EXCEPT ![r] = grant[r]]
        /\ UNCHANGED <<releasing, reopened, riderVars, asked, heard>>
    BY <1>1 DEF Commit, clientVars
  <2> QED BY <2>1, <2>2 DEF TypeOK, riderVars
<1>2. CASE Send(r)
  <2>1. KeyOf[r] \in Keys
    BY ConstantsAssumption
  <2>2. asked' = [asked EXCEPT ![KeyOf[r]] = r] /\ UNCHANGED <<heard, orderVars, riderVars>>
    BY <1>2 DEF Send
  <2> QED BY <2>1, <2>2 DEF TypeOK, orderVars, riderVars
<1>3. CASE CapacityGate(r)
  <2>1. UNCHANGED <<old, orderVars, clientVars>>
    BY <1>3 DEF CapacityGate
  <2>2. heldTo' \in Nat /\ unheld' \in SUBSET Requests
    BY <1>3, ConstantsAssumption DEF CapacityGate, Hold, TypeOK
  <2> QED BY <2>1, <2>2 DEF TypeOK, orderVars, clientVars
<1>4. CASE ~Commit(r) /\ ~Send(r) /\ ~CapacityGate(r)
  <2>1. UNCHANGED <<orderVars, clientVars, riderVars>>
    BY <1>4 DEF ServerStep, Progress, Begin, CheckKey, ResolveArea, LoadArea,
           TakeNumber, Insert, Replay, Refuse, Fail, PickDeal, PickCoupon,
           LockDeal, LockCoupon, Lock
  <2> QED BY <2>1 DEF TypeOK, orderVars, clientVars, riderVars
<1> QED BY <1>1, <1>2, <1>3, <1>4

\* Neither do the other steps disturb a type.
LEMMA OtherTypes ==
  ASSUME TypeOK, NEW r \in Requests, NEW k \in Keys, GiveUp(k) \/ Hear(k) \/ Aftermath(r)
  PROVE  TypeOK'
<1>1. UNCHANGED serverVars
  BY QuietSteps
<1>2. CASE GiveUp(k)
  BY <1>1, <1>2 DEF GiveUp, TypeOK, serverVars, orderVars, riderVars
<1>3. CASE Hear(k)
  BY <1>1, <1>3 DEF Hear, TypeOK, serverVars, orderVars, riderVars
<1>4. CASE Deliver(r)
  BY <1>1, <1>4 DEF Deliver, TypeOK, serverVars, clientVars, riderVars
<1>5. CASE CancelOrder(r)
  BY <1>1, <1>5 DEF CancelOrder, TypeOK, serverVars, clientVars, riderVars
<1>6. CASE ReleaseUse(r)
  BY <1>1, <1>6 DEF ReleaseUse, TypeOK, serverVars, clientVars, riderVars
<1>7. CASE CancelWithUses(r)
  BY <1>1, <1>7 DEF CancelWithUses, TypeOK, serverVars, clientVars, riderVars
<1>8. CASE Reopen(r)
  BY <1>1, <1>8 DEF Reopen, TypeOK, serverVars, clientVars, riderVars
<1>9. CASE GrowOld(r)
  BY <1>1, <1>9 DEF GrowOld, TypeOK, serverVars, orderVars, clientVars
<1> QED BY <1>2, <1>3, <1>4, <1>5, <1>6, <1>7, <1>8, <1>9 DEF Aftermath

\* The types, with what is picked, are inductive.
LEMMA TypesStep == TypeOK /\ PickedKnown /\ [Next]_vars => TypeOK' /\ PickedKnown'
<1> SUFFICES ASSUME TypeOK, PickedKnown, [Next]_vars PROVE TypeOK' /\ PickedKnown'
  OBVIOUS
<1>1. ASSUME NEW r \in Requests, ServerStep(r) PROVE TypeOK' /\ PickedKnown'
  BY <1>1, ServerTypes, ServerPicked, ServerKeepsOrders DEF TypeOK
<1>2. ASSUME NEW r \in Requests, Aftermath(r) PROVE TypeOK' /\ PickedKnown'
  <2>1. KeyOf[r] \in Keys
    BY ConstantsAssumption
  <2> QED BY <1>2, <2>1, OtherTypes, QuietSteps DEF PickedKnown, serverVars
<1>3. ASSUME NEW k \in Keys, GiveUp(k) \/ Hear(k) PROVE TypeOK' /\ PickedKnown'
  <2>1. UNCHANGED serverVars
    BY <1>3 DEF GiveUp, Hear
  <2>2. TypeOK'
    BY <1>3, <2>1 DEF GiveUp, Hear, TypeOK, serverVars, orderVars, riderVars
  <2> QED BY <2>1, <2>2 DEF PickedKnown, serverVars
<1>4. CASE UNCHANGED vars
  BY <1>4 DEF vars, TypeOK, PickedKnown
<1> QED BY <1>1, <1>2, <1>3, <1>4 DEF Next, ServerStep

\* Rows are locked from the deal's lock to the end of the transaction, no row
\* by two requests, a coupon's only after the deal's, and one request at a
\* time stands between its number and its commit.
AfterDeal == {"coupon", "lockCoupon", "number", "insert", "commit"}
LockInv ==
  /\ \A r \in Requests : pc[r] \notin AfterDeal => locked[r] = {}
  /\ \A r \in Requests : grant[r] \subseteq locked[r]
  /\ \A r \in Requests :
       locked[r] \cap Coupons # {} => pc[r] \in {"number", "insert", "commit"}
  /\ \A q, r \in Requests : q # r => locked[q] \cap locked[r] = {}
  /\ \A q, r \in Requests :
       pc[q] \in {"insert", "commit"} /\ pc[r] \in {"insert", "commit"} => q = r

\* What a step of r establishes of r's own locks.
Tidy(r) ==
  /\ pc'[r] \notin AfterDeal => locked'[r] = {}
  /\ grant'[r] \subseteq locked'[r]
  /\ locked'[r] \cap Coupons # {} => pc'[r] \in {"number", "insert", "commit"}
  /\ \A q \in Requests \ {r} : locked[q] \cap locked'[r] = {}
  /\ pc'[r] \in {"insert", "commit"} =>
       \A q \in Requests \ {r} : pc[q] \notin {"insert", "commit"}

\* A step that goes on with the same rows, or ends, keeps them tidy.
LEMMA GotoTidy ==
  ASSUME TypeOK, LockInv, NEW r \in Requests, NEW step \in Steps, Goto(r, step),
         \/ step \notin InTransaction
         \/ pc[r] \notin AfterDeal /\ step \in InTransaction \ {"insert", "commit"}
         \/ pc[r] = "coupon" /\ step \in {"lockCoupon", "number"}
         \/ pc[r] = "number" /\ step = "insert" /\ CounterFree(r)
         \/ pc[r] = "insert" /\ step = "commit"
  PROVE  Tidy(r)
<1>1. /\ pc'[r] = step
      /\ locked'[r] = IF step \in InTransaction THEN locked[r] ELSE {}
      /\ grant'[r] = IF step \in InTransaction THEN grant[r] ELSE {}
  BY DEF Goto, Move, TypeOK
<1>2. CASE step \notin InTransaction
  BY <1>1, <1>2 DEF Tidy, InTransaction, AfterDeal
<1>3. CASE pc[r] \notin AfterDeal /\ step \in InTransaction \ {"insert", "commit"}
  BY <1>1, <1>3 DEF Tidy, LockInv
<1>4. CASE pc[r] = "coupon" /\ step \in {"lockCoupon", "number"}
  BY <1>1, <1>4 DEF Tidy, LockInv, AfterDeal, InTransaction
<1>5. CASE pc[r] = "number" /\ step = "insert" /\ CounterFree(r)
  BY <1>1, <1>5 DEF Tidy, LockInv, AfterDeal, InTransaction, CounterFree
<1>6. CASE pc[r] = "insert" /\ step = "commit"
  BY <1>1, <1>6 DEF Tidy, LockInv, AfterDeal, InTransaction
<1> QED BY <1>2, <1>3, <1>4, <1>5, <1>6

\* Locking a row that is free keeps every row with one request.
LEMMA LockTidy ==
  ASSUME TypeOK, PickedKnown, LockInv, NEW r \in Requests, LockDeal(r) \/ LockCoupon(r)
  PROVE  Tidy(r)
<1>1. RowFree(r, picked[r])
  BY DEF LockDeal, LockCoupon, Lock
<1>2. \A q \in Requests \ {r} : (locked[r] \cup {picked[r]}) \cap locked[q] = {}
  BY <1>1 DEF RowFree, LockInv
<1>3. CASE LockDeal(r)
  <2>1. picked[r] \in Deals /\ locked[r] = {} /\ grant[r] = {}
    BY <1>3 DEF LockDeal, PickedKnown, LockInv, AfterDeal
  <2>2. picked[r] \notin Coupons
    BY <2>1, ConstantsAssumption
  <2>3. \/ pc'[r] = "coupon" /\ locked'[r] = {picked[r]} /\ grant'[r] \subseteq {picked[r]}
        \/ pc'[r] = "refused" /\ locked'[r] = {} /\ grant'[r] = {}
    BY <1>3, <2>1 DEF LockDeal, Lock, Move, TypeOK, WithoutDeal, InTransaction
  <2> QED BY <1>2, <2>1, <2>2, <2>3 DEF Tidy, AfterDeal
<1>4. CASE LockCoupon(r)
  <2>1. grant[r] \subseteq locked[r]
    BY DEF LockInv
  <2>2. \/ /\ pc'[r] = "number" /\ locked'[r] = locked[r] \cup {picked[r]}
           /\ grant'[r] \subseteq grant[r] \cup {picked[r]}
        \/ pc'[r] = "refused" /\ locked'[r] = {} /\ grant'[r] = {}
    BY <1>4 DEF LockCoupon, Lock, Move, TypeOK, WithoutCoupon, InTransaction
  <2> QED BY <1>2, <2>1, <2>2 DEF Tidy, AfterDeal
<1> QED BY <1>3, <1>4

\* Every step of a request keeps its locks tidy.
LEMMA ServerTidy ==
  ASSUME TypeOK, PickedKnown, LockInv, NEW r \in Requests, ServerStep(r)
  PROVE  Tidy(r)
<1>1. CASE Send(r)
  BY <1>1, GotoTidy, StepNames DEF Send, InTransaction
<1>2. CASE Begin(r)
  BY <1>2, GotoTidy, StepNames DEF Begin, InTransaction, AfterDeal
<1>3. CASE CheckKey(r)
  BY <1>3, GotoTidy, StepNames DEF CheckKey, InTransaction, AfterDeal
<1>4. CASE ResolveArea(r)
  BY <1>4, GotoTidy, StepNames DEF ResolveArea, InTransaction, AfterDeal
<1>5. CASE LoadArea(r)
  BY <1>5, GotoTidy, StepNames DEF LoadArea, InTransaction, AfterDeal
<1>6. CASE CapacityGate(r)
  BY <1>6, GotoTidy, StepNames DEF CapacityGate, InTransaction, AfterDeal
<1>7. CASE PickDeal(r)
  <2>1. \E step \in {"coupon", "lockDeal", "refused"} : Goto(r, step)
    BY <1>7 DEF PickDeal, WithoutDeal
  <2> QED BY <1>7, <2>1, GotoTidy, StepNames DEF PickDeal, InTransaction, AfterDeal
<1>8. CASE PickCoupon(r)
  <2>1. \E step \in {"lockCoupon", "number", "refused"} : Goto(r, step)
    BY <1>8 DEF PickCoupon, WithoutCoupon
  <2> QED BY <1>8, <2>1, GotoTidy, StepNames DEF PickCoupon, InTransaction
<1>9. CASE TakeNumber(r)
  BY <1>9, GotoTidy, StepNames DEF TakeNumber
<1>10. CASE Insert(r)
  BY <1>10, GotoTidy, StepNames DEF Insert, InTransaction
<1>11. CASE Commit(r) \/ Replay(r) \/ Refuse(r) \/ Fail(r)
  <2>1. \E step \in Answers : Goto(r, step)
    BY <1>11 DEF Commit, Replay, Refuse, Fail, Answers
  <2>2. \A step \in Answers : step \in Steps \ InTransaction
    BY DEF Answers, InTransaction, Steps
  <2> QED BY <2>1, <2>2, GotoTidy
<1>12. CASE LockDeal(r) \/ LockCoupon(r)
  BY <1>12, LockTidy
<1> QED BY <1>1, <1>2, <1>3, <1>4, <1>5, <1>6, <1>7, <1>8, <1>9, <1>10, <1>11, <1>12
        DEF ServerStep, Progress

\* The locks' invariant is inductive.
LEMMA LocksStep ==
  TypeOK /\ PickedKnown /\ LockInv /\ [Next]_vars => LockInv'
<1> SUFFICES ASSUME TypeOK, PickedKnown, LockInv, [Next]_vars PROVE LockInv'
  OBVIOUS
<1>1. ASSUME NEW r \in Requests, ServerStep(r) PROVE LockInv'
  <2>1. Tidy(r)
    BY <1>1, ServerTidy
  <2>2. \A q \in Requests \ {r} : /\ pc'[q] = pc[q] /\ locked'[q] = locked[q]
                                  /\ grant'[q] = grant[q]
    BY <1>1, OthersStay
  <2>3. \A q \in Requests : pc'[q] \notin AfterDeal => locked'[q] = {}
    BY <2>1, <2>2 DEF Tidy, LockInv
  <2>4. \A q \in Requests : grant'[q] \subseteq locked'[q]
    BY <2>1, <2>2 DEF Tidy, LockInv
  <2>5. \A q \in Requests : locked'[q] \cap Coupons # {} => pc'[q] \in {"number", "insert", "commit"}
    BY <2>1, <2>2 DEF Tidy, LockInv
  <2>6. \A p, q \in Requests : p # q => locked'[p] \cap locked'[q] = {}
    BY <2>1, <2>2 DEF Tidy, LockInv
  <2>7. \A p, q \in Requests :
          pc'[p] \in {"insert", "commit"} /\ pc'[q] \in {"insert", "commit"} => p = q
    BY <2>1, <2>2 DEF Tidy, LockInv
  <2> QED BY <2>3, <2>4, <2>5, <2>6, <2>7 DEF LockInv
<1>2. ASSUME UNCHANGED serverVars PROVE LockInv'
  BY <1>2 DEF LockInv, serverVars
<1>3. ASSUME NEW r \in Requests, Aftermath(r) PROVE UNCHANGED serverVars
  <2>1. KeyOf[r] \in Keys
    BY ConstantsAssumption
  <2> QED BY <1>3, <2>1, QuietSteps
<1>4. ASSUME NEW k \in Keys, GiveUp(k) \/ Hear(k) PROVE UNCHANGED serverVars
  BY <1>4 DEF GiveUp, Hear
<1>5. CASE UNCHANGED vars
  BY <1>2, <1>5 DEF vars, serverVars
<1> QED BY <1>1, <1>2, <1>3, <1>4, <1>5 DEF Next, ServerStep

\* While rows are locked in this order, somebody can always go on.
LEMMA SomebodyMoves == TypeOK /\ PickedKnown /\ LockInv => NoLockCycle
<1> SUFFICES ASSUME TypeOK, PickedKnown, LockInv, Connected # {}, ~PoolStarved
             PROVE  \E r \in Connected : ~Blocked(r)
  BY DEF NoLockCycle
<1>1. \A r \in Requests : pc[r] \in InTransaction <=> r \in Connected
  BY DEF Connected
<1>2. ASSUME NEW r \in Requests, pc[r] = "commit" PROVE ~Blocked(r)
  BY <1>2 DEF Blocked
<1>3. ASSUME NEW r \in Requests, pc[r] = "insert" PROVE ~Blocked(r)
  <2>1. ~KeyPending(KeyOf[r])
    BY <1>3 DEF KeyPending, LockInv
  <2> QED BY <1>3, <2>1 DEF Blocked
<1>4. CASE \E r \in Requests : pc[r] \in {"insert", "commit"}
  BY <1>1, <1>2, <1>3, <1>4 DEF InTransaction
<1>5. CASE \A r \in Requests : pc[r] \notin {"insert", "commit"}
  <2>1. ASSUME NEW r \in Requests, pc[r] = "number" PROVE ~Blocked(r)
    BY <1>5, <2>1 DEF Blocked, CounterFree
  <2>2. CASE \E r \in Requests : pc[r] = "number"
    BY <1>1, <2>1, <2>2 DEF InTransaction
  <2>3. CASE \A r \in Requests : pc[r] # "number"
    <3>1. \A r \in Requests : locked[r] \cap Coupons = {}
      BY <1>5, <2>3 DEF LockInv
    <3>2. ASSUME NEW r \in Requests, pc[r] = "lockCoupon" PROVE ~Blocked(r)
      BY <3>1, <3>2 DEF Blocked, RowFree, PickedKnown
    <3>3. ASSUME NEW r \in Requests, pc[r] \in {"coupon", "deal", "gate", "area"}
          PROVE  ~Blocked(r)
      BY <3>3 DEF Blocked
    <3>4. CASE \E r \in Requests : pc[r] \in {"lockCoupon", "coupon", "deal", "gate", "area"}
      BY <1>1, <3>2, <3>3, <3>4 DEF InTransaction
    <3>5. CASE \A r \in Requests : pc[r] \notin {"lockCoupon", "coupon", "deal", "gate", "area"}
      <4>1. \A r \in Requests : locked[r] = {}
        BY <1>5, <2>3, <3>5 DEF LockInv, AfterDeal
      <4>2. ASSUME NEW r \in Requests, pc[r] \in {"lockDeal", "key"} PROVE ~Blocked(r)
        BY <1>5, <4>1, <4>2 DEF Blocked, RowFree, KeyPending
      <4>3. CASE \E r \in Requests : pc[r] \in {"lockDeal", "key"}
        BY <1>1, <4>2, <4>3 DEF InTransaction
      <4>4. CASE \A r \in Requests : pc[r] \notin {"lockDeal", "key"}
        <5>1. \A r \in Connected : r \in Requests /\ pc[r] = "load"
          BY <1>5, <2>3, <3>5, <4>4 DEF Connected, InTransaction
        <5>2. ConnectionFree
          BY <5>1 DEF PoolStarved
        <5>3. \A r \in Connected : ~Blocked(r)
          BY <5>1, <5>2 DEF Blocked
        <5> QED BY <5>3
      <4> QED BY <4>3, <4>4
    <3> QED BY <3>4, <3>5
  <2> QED BY <2>2, <2>3
<1> QED BY <1>4, <1>5

\* A key is taken once; a request about to commit found it free, and who was
\* told of an order has one.
KeyInv ==
  /\ OneOrderPerKey
  /\ \A r \in Requests : pc[r] = "commit" => ~KeyTaken(KeyOf[r])
  /\ \A r \in Requests : pc[r] \in {"placed", "replayed", "replay"} => KeyTaken(KeyOf[r])
  /\ \A k \in Keys : asked[k] # None => KeyOf[asked[k]] = k
  /\ \A k \in heard : KeyTaken(k)

\* Only a commit makes an order, its own.
LEMMA OrdersMade ==
  ASSUME TypeOK, NEW r \in Requests, NEW k \in Keys,
         ServerStep(r) \/ GiveUp(k) \/ Hear(k) \/ Aftermath(r)
  PROVE  /\ Commit(r) => /\ order' = [order EXCEPT ![r] = "live"]
                         /\ active' = [active EXCEPT ![r] = grant[r]]
                         /\ granted' = [granted EXCEPT ![r] = grant[r]]
                         /\ UNCHANGED <<releasing, reopened>>
         /\ ServerStep(r) /\ ~Commit(r) => UNCHANGED orderVars
         /\ ~Commit(r) => \A q \in Requests : order'[q] = "none" <=> order[q] = "none"
<1>1. ServerStep(r) /\ ~Commit(r) => UNCHANGED orderVars
  BY DEF ServerStep, Progress, Send, Begin, CheckKey, ResolveArea, LoadArea, CapacityGate,
         TakeNumber, Insert, Replay, Refuse, Fail, PickDeal, PickCoupon,
         LockDeal, LockCoupon, Lock
<1>2. CASE ServerStep(r)
  BY <1>1, <1>2 DEF Commit, orderVars
<1>3. CASE GiveUp(k) \/ Hear(k)
  BY <1>1, <1>3 DEF GiveUp, Hear, orderVars, Commit
<1>4. CASE Aftermath(r)
  <2>1. \A q \in Requests : order'[q] = "none" <=> order[q] = "none"
    BY <1>4 DEF Aftermath, Deliver, CancelOrder, ReleaseUse, CancelWithUses, Reopen, GrowOld,
                orderVars, TypeOK
  <2>2. ~Commit(r)
    <3>1. UNCHANGED serverVars
      BY <1>4, QuietSteps
    <3>2. pc' = pc
      BY <3>1 DEF serverVars
    <3>3. Commit(r) => pc[r] = "commit" /\ pc'[r] \in Answers
      BY DEF Commit, Goto, Move, TypeOK, Answers
    <3> QED BY <3>2, <3>3 DEF Answers
  <2>3. ServerStep(r) /\ ~Commit(r) => UNCHANGED orderVars
    BY <1>1
  <2> QED BY <2>1, <2>2, <2>3
<1> QED BY <1>2, <1>3, <1>4

\* A key is taken from its order's commit on.
LEMMA TakenStays ==
  ASSUME TypeOK, [Next]_vars, NEW k \in Keys, KeyTaken(k)
  PROVE  KeyTaken(k)'
<1>1. PICK q \in Requests : KeyOf[q] = k /\ order[q] # "none"
  BY DEF KeyTaken
<1>2. SUFFICES order'[q] # "none"
  BY <1>1 DEF KeyTaken
<1>3. ASSUME NEW r \in Requests, ServerStep(r) \/ Aftermath(r) PROVE order'[q] # "none"
  <2>1. Commit(r) => order'[q] # "none"
    BY <1>1 DEF Commit, TypeOK
  <2>2. ~Commit(r) => order'[q] # "none"
    BY <1>1, <1>3, OrdersMade
  <2> QED BY <2>1, <2>2
<1>4. ASSUME NEW j \in Keys, GiveUp(j) \/ Hear(j) PROVE order'[q] # "none"
  BY <1>1, <1>4 DEF GiveUp, Hear, orderVars
<1>5. CASE UNCHANGED vars
  BY <1>1, <1>5 DEF vars
<1> QED BY <1>3, <1>4, <1>5 DEF Next, ServerStep

\* Where a step leaves a request whose answer depends on its key.
LEMMA KeyedSteps ==
  ASSUME TypeOK, NEW r \in Requests, ServerStep(r)
  PROVE  /\ pc'[r] = "commit" => ~KeyTaken(KeyOf[r]) /\ pc[r] = "insert" /\ ~Commit(r)
         /\ pc'[r] = "placed" => Commit(r)
         /\ pc'[r] \in {"replayed", "replay"} => KeyTaken(KeyOf[r]) \/ pc[r] = "replay"
<1>1. CASE CheckKey(r)
  BY <1>1 DEF CheckKey, Goto, Move, TypeOK, Commit
<1>2. CASE Insert(r)
  BY <1>2 DEF Insert, Goto, Move, TypeOK, Commit
<1>3. CASE Commit(r)
  BY <1>3 DEF Commit, Goto, Move, TypeOK
<1>4. CASE Replay(r)
  BY <1>4 DEF Replay, Goto, Move, TypeOK
<1>5. CASE Send(r) \/ Begin(r) \/ ResolveArea(r) \/ LoadArea(r) \/ CapacityGate(r)
           \/ TakeNumber(r) \/ PickDeal(r) \/ PickCoupon(r) \/ Refuse(r) \/ Fail(r)
  <2>1. \E step \in Steps \ {"commit", "placed", "replayed", "replay"} : Goto(r, step)
    BY <1>5, StepNames
       DEF Send, Begin, ResolveArea, LoadArea, CapacityGate, TakeNumber, PickDeal,
           PickCoupon, Refuse, Fail, WithoutDeal, WithoutCoupon
  <2> QED BY <2>1 DEF Goto, Move, TypeOK
<1>6. CASE LockDeal(r) \/ LockCoupon(r)
  <2>1. \E step \in Steps \ {"commit", "placed", "replayed", "replay"} : \E rows, offers :
          Move(r, step, rows, offers)
    BY <1>6, StepNames DEF LockDeal, LockCoupon, Lock, WithoutDeal, WithoutCoupon
  <2> QED BY <2>1 DEF Move, TypeOK
<1> QED BY <1>1, <1>2, <1>3, <1>4, <1>5, <1>6 DEF ServerStep, Progress

\* The keys' invariant holds after a step of a request,
LEMMA KeysServerStep ==
  ASSUME TypeOK, LockInv, KeyInv, [Next]_vars, NEW r \in Requests, ServerStep(r)
  PROVE  KeyInv'
<1> USE DEF KeyInv
<1>1. KeyOf[r] \in Keys /\ \A q \in Requests : KeyOf[q] \in Keys
  BY ConstantsAssumption
<1>2. \A q \in Requests \ {r} : pc'[q] = pc[q]
  BY OthersStay
<1>3. \A k \in Keys : KeyTaken(k) => KeyTaken(k)'
  BY TakenStays
<1>4. Commit(r) => ~KeyTaken(KeyOf[r]) /\ order' = [order EXCEPT ![r] = "live"]
  BY DEF Commit
<1>5. ~Commit(r) => order' = order
  BY <1>1, OrdersMade DEF orderVars
<1>6. OneOrderPerKey'
  <2>1. CASE Commit(r)
    <3>1. \A q \in Requests : KeyOf[q] = KeyOf[r] => order[q] = "none"
      BY <1>4, <2>1 DEF KeyTaken
    <3>2. \A q \in Requests : order'[q] = IF q = r THEN "live" ELSE order[q]
      BY <1>4, <2>1 DEF TypeOK
    <3> QED BY <3>1, <3>2 DEF OneOrderPerKey
  <2>2. CASE ~Commit(r)
    BY <1>5, <2>2 DEF OneOrderPerKey
  <2> QED BY <2>1, <2>2
<1>7. ASSUME NEW q \in Requests, pc'[q] = "commit" PROVE ~KeyTaken(KeyOf[q])'
  <2>1. ~Commit(r)
    <3>1. CASE q = r
      BY <1>7, <3>1, KeyedSteps
    <3>2. CASE q # r
      BY <1>2, <1>7, <3>2 DEF LockInv, Commit
    <3> QED BY <3>1, <3>2
  <2>2. ~KeyTaken(KeyOf[q])
    BY <1>2, <1>7, KeyedSteps
  <2> QED BY <1>5, <2>1, <2>2 DEF KeyTaken
<1>8. ASSUME NEW q \in Requests, pc'[q] \in {"placed", "replayed", "replay"}
      PROVE  KeyTaken(KeyOf[q])'
  <2>1. CASE q # r
    BY <1>1, <1>2, <1>3, <1>8, <2>1
  <2>2. CASE q = r /\ Commit(r)
    <3>1. order'[r] # "none"
      BY <1>4, <2>2 DEF TypeOK
    <3> QED BY <2>2, <3>1 DEF KeyTaken
  <2>3. CASE q = r /\ ~Commit(r)
    <3>1. KeyTaken(KeyOf[r])
      BY <1>8, <2>3, KeyedSteps
    <3> QED BY <1>1, <1>3, <2>3, <3>1
  <2> QED BY <2>1, <2>2, <2>3
<1>9. /\ asked' = asked \/ asked' = [asked EXCEPT ![KeyOf[r]] = r]
      /\ heard' = heard
  BY DEF ServerStep, Progress, Send, Begin, CheckKey, ResolveArea, LoadArea, CapacityGate,
         TakeNumber, Insert, Commit, Replay, Refuse, Fail, PickDeal, PickCoupon,
         LockDeal, LockCoupon, Lock, clientVars
<1>10. \A k \in Keys : asked'[k] # None => KeyOf[asked'[k]] = k
  BY <1>1, <1>9 DEF TypeOK
<1>11. \A k \in heard' : KeyTaken(k)'
  BY <1>3, <1>9 DEF TypeOK
<1> QED BY <1>6, <1>7, <1>8, <1>10, <1>11

\* and after the others.
LEMMA KeysOtherStep ==
  ASSUME TypeOK, KeyInv, [Next]_vars, pc' = pc,
         \A q \in Requests : order'[q] = "none" <=> order[q] = "none",
         \A k \in Keys : asked'[k] = asked[k] \/ asked'[k] = None,
         \A k \in heard' : KeyTaken(k)
  PROVE  KeyInv'
<1>1. \A k : KeyTaken(k)' <=> KeyTaken(k)
  BY DEF KeyTaken
<1>2. OneOrderPerKey'
  BY DEF KeyInv, OneOrderPerKey
<1> QED BY <1>1, <1>2 DEF KeyInv

\* The keys' invariant is inductive.
LEMMA KeysStep == TypeOK /\ LockInv /\ KeyInv /\ [Next]_vars => KeyInv'
<1> SUFFICES ASSUME TypeOK, LockInv, KeyInv, [Next]_vars PROVE KeyInv'
  OBVIOUS
<1>1. ASSUME NEW r \in Requests, ServerStep(r) PROVE KeyInv'
  BY <1>1, KeysServerStep
<1>2. ASSUME NEW r \in Requests, Aftermath(r) PROVE KeyInv'
  <2>1. pc' = pc /\ asked' = asked /\ heard' = heard
    BY <1>2 DEF Aftermath, Deliver, CancelOrder, ReleaseUse, CancelWithUses, Reopen, GrowOld,
                serverVars, clientVars
  <2>2. \A q \in Requests : order'[q] = "none" <=> order[q] = "none"
    BY <1>2 DEF Aftermath, Deliver, CancelOrder, ReleaseUse, CancelWithUses, Reopen, GrowOld,
                orderVars, TypeOK
  <2> QED BY <2>1, <2>2, KeysOtherStep DEF KeyInv
<1>3. ASSUME NEW k \in Keys, GiveUp(k) \/ Hear(k) PROVE KeyInv'
  <2>1. pc' = pc /\ order' = order
    BY <1>3 DEF GiveUp, Hear, serverVars, orderVars
  <2>2. \A j \in Keys : asked'[j] = asked[j] \/ asked'[j] = None
    BY <1>3 DEF GiveUp, Hear, TypeOK
  <2>3. \A j \in heard' : KeyTaken(j)
    <3>1. CASE heard' = heard
      BY <3>1 DEF KeyInv
    <3>2. CASE heard' # heard
      <4>1. asked[k] # None /\ pc[asked[k]] \in {"placed", "replayed"} /\ heard' = heard \cup {k}
        BY <1>3, <3>2 DEF GiveUp, Hear
      <4>2. asked[k] \in Requests /\ KeyOf[asked[k]] = k
        BY <4>1 DEF TypeOK, KeyInv
      <4> QED BY <4>1, <4>2 DEF KeyInv
    <3> QED BY <3>1, <3>2
  <2> QED BY <2>1, <2>2, <2>3, KeysOtherStep
<1>4. CASE UNCHANGED vars
  BY <1>4, KeysOtherStep DEF vars, KeyInv
<1> QED BY <1>1, <1>2, <1>3, <1>4 DEF Next, ServerStep

FairlyBy(c, u) == {q \in Fairly(c) : UserOf[KeyOf[q]] = u}

\* An offer granted under its lock has a use left until it is redeemed.
GrantLeft ==
  \A r \in Requests : \A c \in grant[r] :
    /\ Cardinality(Fairly(c)) < TotalLimit[c]
    /\ Cardinality(FairlyBy(c, UserOf[KeyOf[r]])) < UserLimit[c]

\* An order that does not exist holds nothing, and one that does holds what it
\* was granted.
Held ==
  /\ \A q \in Requests : order[q] = "none" => active[q] = {} /\ q \notin reopened
  /\ \A q \in Requests : active[q] \subseteq granted[q]

UseInv == GrantLeft /\ Held /\ CancelReturnsUses /\ UsesBounded

\* A set of requests within another has as many or fewer.
LEMMA Fewer ==
  ASSUME NEW S \in SUBSET Requests, NEW T \in SUBSET S
  PROVE  /\ Cardinality(S) \in Nat /\ Cardinality(T) \in Nat
         /\ Cardinality(T) <= Cardinality(S)
<1>1. IsFiniteSet(Requests)
  BY ConstantsAssumption
<1>2. IsFiniteSet(S)
  BY <1>1, FS_Subset
<1>3. IsFiniteSet(T) /\ Cardinality(T) <= Cardinality(S)
  BY <1>2, FS_Subset
<1> QED BY <1>2, <1>3, FS_CardinalityType

\* One request more makes one more at most.
LEMMA OneMore ==
  ASSUME NEW S \in SUBSET Requests, NEW T \in SUBSET Requests, NEW r \in Requests,
         T \subseteq S \cup {r}
  PROVE  Cardinality(T) <= Cardinality(S) + 1
<1>1. IsFiniteSet(S)
  BY ConstantsAssumption, FS_Subset
<1>2. IsFiniteSet(S \cup {r}) /\ Cardinality(S \cup {r}) <= Cardinality(S) + 1
  BY <1>1, FS_AddElement, FS_CardinalityType
<1>3. Cardinality(T) <= Cardinality(S \cup {r}) /\ Cardinality(T) \in Nat
      /\ Cardinality(S \cup {r}) \in Nat /\ Cardinality(S) \in Nat
  BY Fewer
<1> QED BY <1>2, <1>3

\* What the limits count includes what is held fairly.
LEMMA CountsFair ==
  ASSUME TypeOK, NEW r \in Requests, NEW c \in Offers, BelowLimits(r, c)
  PROVE  /\ Cardinality(Fairly(c)) < TotalLimit[c]
         /\ Cardinality(FairlyBy(c, UserOf[KeyOf[r]])) < UserLimit[c]
<1> DEFINE u == UserOf[KeyOf[r]]
<1>1. TotalLimit[c] \in Nat /\ UserLimit[c] \in Nat
  BY ConstantsAssumption
<1>2. /\ Redemptions(c) \in SUBSET Requests /\ Fairly(c) \in SUBSET Redemptions(c)
      /\ RedemptionsBy(c, u) \in SUBSET Requests
      /\ FairlyBy(c, u) \in SUBSET RedemptionsBy(c, u)
  BY DEF Redemptions, RedemptionsBy, Fairly, FairlyBy
<1>3. /\ Cardinality(Redemptions(c)) < TotalLimit[c]
      /\ Cardinality(RedemptionsBy(c, u)) < UserLimit[c]
  BY DEF BelowLimits
<1> HIDE DEF u
<1>4. /\ Cardinality(Fairly(c)) \in Nat /\ Cardinality(Redemptions(c)) \in Nat
      /\ Cardinality(Fairly(c)) <= Cardinality(Redemptions(c))
  BY <1>2, Fewer
<1>5. /\ Cardinality(FairlyBy(c, u)) \in Nat /\ Cardinality(RedemptionsBy(c, u)) \in Nat
      /\ Cardinality(FairlyBy(c, u)) <= Cardinality(RedemptionsBy(c, u))
  BY <1>2, Fewer
<1>6. Cardinality(Fairly(c)) < TotalLimit[c]
  BY <1>1, <1>3, <1>4
<1>7. Cardinality(FairlyBy(c, u)) < UserLimit[c]
  BY <1>1, <1>3, <1>5
<1> QED BY <1>6, <1>7 DEF u

\* A step that adds nobody to the fair holders keeps what was bounded.
LEMMA FewerFair ==
  ASSUME TypeOK, TypeOK', NEW c \in Offers, Fairly(c)' \subseteq Fairly(c)
  PROVE  /\ \A n \in Nat : Cardinality(Fairly(c)) < n => Cardinality(Fairly(c)') < n
         /\ \A n \in Nat : Cardinality(Fairly(c)) <= n => Cardinality(Fairly(c)') <= n
         /\ \A u : \A n \in Nat : Cardinality(FairlyBy(c, u)) < n => Cardinality(FairlyBy(c, u)') < n
         /\ \A u : \A n \in Nat : Cardinality(FairlyBy(c, u)) <= n => Cardinality(FairlyBy(c, u)') <= n
<1>1. /\ Fairly(c) \in SUBSET Requests
      /\ \A u : FairlyBy(c, u) \in SUBSET Requests /\ FairlyBy(c, u)' \subseteq FairlyBy(c, u)
  BY DEF Fairly, FairlyBy, Redemptions
<1>2. /\ Cardinality(Fairly(c)) \in Nat /\ Cardinality(Fairly(c)') \in Nat
      /\ Cardinality(Fairly(c)') <= Cardinality(Fairly(c))
  BY <1>1, Fewer
<1>3. ASSUME NEW u
      PROVE  /\ Cardinality(FairlyBy(c, u)) \in Nat /\ Cardinality(FairlyBy(c, u)') \in Nat
             /\ Cardinality(FairlyBy(c, u)') <= Cardinality(FairlyBy(c, u))
  BY <1>1, Fewer
<1>4. \A u : \A n \in Nat : Cardinality(FairlyBy(c, u)) < n => Cardinality(FairlyBy(c, u)') < n
  BY <1>3
<1>5. \A u : \A n \in Nat : Cardinality(FairlyBy(c, u)) <= n => Cardinality(FairlyBy(c, u)') <= n
  BY <1>3
<1> QED BY <1>2, <1>4, <1>5

\* A commit adds the order to the holders of what it was granted, and to no
\* others.
LEMMA CommitAdds ==
  ASSUME TypeOK, NEW r \in Requests, Commit(r), NEW c \in Offers
  PROVE  /\ c \notin grant[r] => Fairly(c)' \subseteq Fairly(c)
         /\ Fairly(c)' \subseteq Fairly(c) \cup {r}
<1>1. \A q \in Requests : active'[q] = IF q = r THEN grant[r] ELSE active[q]
  BY DEF Commit, TypeOK
<1>2. reopened' = reopened
  BY DEF Commit
<1> QED BY <1>1, <1>2 DEF Fairly, Redemptions

\* No other step adds a fair holder.
LEMMA OthersAddNone ==
  ASSUME TypeOK, [Next]_vars, \A r \in Requests : ~Commit(r)
  PROVE  \A c \in Offers : Fairly(c)' \subseteq Fairly(c)
<1>1. ASSUME NEW r \in Requests, ServerStep(r) PROVE active' = active /\ reopened' = reopened
  <2>1. KeyOf[r] \in Keys
    BY ConstantsAssumption
  <2> QED BY <1>1, <2>1, OrdersMade DEF orderVars
<1>2. ASSUME NEW r \in Requests, Aftermath(r)
      PROVE  /\ \A q \in Requests : active'[q] \subseteq active[q] \/ q \in reopened'
             /\ reopened \subseteq reopened'
  BY <1>2 DEF Aftermath, Deliver, CancelOrder, ReleaseUse, CancelWithUses, Reopen, GrowOld,
              orderVars, TypeOK
<1>3. ASSUME NEW k \in Keys, GiveUp(k) \/ Hear(k) PROVE active' = active /\ reopened' = reopened
  BY <1>3 DEF GiveUp, Hear, orderVars
<1>4. CASE UNCHANGED vars
  BY <1>4 DEF vars, Fairly, Redemptions
<1> QED BY <1>1, <1>2, <1>3, <1>4 DEF Next, ServerStep, Fairly, Redemptions

\* What a step of r adds to r's grant was below its limits.
LEMMA ServerGrants ==
  ASSUME TypeOK, PickedKnown, NEW r \in Requests, ServerStep(r), NEW c \in grant'[r]
  PROVE  /\ c \in grant[r] \/ BelowLimits(r, c)
         /\ ~Commit(r)
<1>1. CASE LockDeal(r) \/ LockCoupon(r)
  BY <1>1 DEF LockDeal, LockCoupon, Lock, Move, TypeOK, Commit
<1>2. CASE ~(LockDeal(r) \/ LockCoupon(r))
  <2>1. \E step : Goto(r, step)
    BY <1>2 DEF ServerStep, Progress, Send, Begin, CheckKey, ResolveArea, LoadArea,
           CapacityGate, TakeNumber, Insert, Commit, Replay, Refuse, Fail, PickDeal, PickCoupon
  <2>2. c \in grant[r]
    BY <2>1 DEF Goto, Move, TypeOK
  <2>3. ~Commit(r)
    BY DEF Commit, Goto, Move, TypeOK, InTransaction
  <2> QED BY <2>2, <2>3
<1> QED BY <1>1, <1>2

\* What was granted is still left after a step,
LEMMA GrantsStep ==
  ASSUME TypeOK, TypeOK', PickedKnown, LockInv, LockInv', GrantLeft, [Next]_vars
  PROVE  GrantLeft'
<1> SUFFICES ASSUME NEW r \in Requests, NEW c \in grant'[r]
             PROVE  /\ Cardinality(Fairly(c)') < TotalLimit[c]
                    /\ Cardinality(FairlyBy(c, UserOf[KeyOf[r]])') < UserLimit[c]
  BY DEF GrantLeft, FairlyBy
<1>1. c \in Offers /\ TotalLimit[c] \in Nat /\ UserLimit[c] \in Nat
  BY ConstantsAssumption DEF TypeOK
<1>2. /\ Cardinality(Fairly(c)) < TotalLimit[c]
      /\ Cardinality(FairlyBy(c, UserOf[KeyOf[r]])) < UserLimit[c]
  <2>1. c \in grant[r] \/ BelowLimits(r, c)
    <3>1. ASSUME NEW q \in Requests, ServerStep(q) PROVE c \in grant[r] \/ BelowLimits(r, c)
      BY <3>1, OthersStay, ServerGrants
    <3>2. ASSUME UNCHANGED serverVars PROVE c \in grant[r]
      BY <3>2 DEF serverVars
    <3>3. ASSUME NEW q \in Requests, Aftermath(q) PROVE UNCHANGED serverVars
      BY <3>3 DEF Aftermath, Deliver, CancelOrder, ReleaseUse, CancelWithUses, Reopen, GrowOld
    <3>4. ASSUME NEW k \in Keys, GiveUp(k) \/ Hear(k) PROVE UNCHANGED serverVars
      BY <3>4 DEF GiveUp, Hear
    <3>5. CASE UNCHANGED vars
      BY <3>2, <3>5 DEF vars, serverVars
    <3> QED BY <3>1, <3>2, <3>3, <3>4, <3>5 DEF Next, ServerStep
  <2>2. CASE c \in grant[r]
    BY <2>2 DEF GrantLeft
  <2>3. CASE BelowLimits(r, c)
    BY <1>1, <2>3, CountsFair
  <2> QED BY <2>1, <2>2, <2>3
<1>3. Fairly(c)' \subseteq Fairly(c)
  <2>1. CASE \A q \in Requests : ~Commit(q)
    BY <1>1, <2>1, OthersAddNone
  <2>2. ASSUME NEW q \in Requests, Commit(q) PROVE Fairly(c)' \subseteq Fairly(c)
    <3>1. q # r
      BY <2>2, ServerGrants DEF ServerStep, Progress
    <3>2. c \in grant[r]
      BY <2>2, <3>1, OthersStay DEF ServerStep, Progress
    <3>3. c \notin grant[q]
      BY <3>1, <3>2 DEF LockInv
    <3> QED BY <1>1, <2>2, <3>3, CommitAdds
  <2> QED BY <2>1, <2>2
<1> QED BY <1>1, <1>2, <1>3, FewerFair

\* and so the limits hold.
LEMMA BoundsStep ==
  ASSUME TypeOK, TypeOK', GrantLeft, UsesBounded, [Next]_vars
  PROVE  UsesBounded'
<1> SUFFICES ASSUME NEW c \in Offers
             PROVE  /\ Cardinality(Fairly(c)') <= TotalLimit[c]
                    /\ \A u \in Users : Cardinality(FairlyBy(c, u)') <= UserLimit[c]
  BY DEF UsesBounded, FairlyBy
<1>1. TotalLimit[c] \in Nat /\ UserLimit[c] \in Nat
  BY ConstantsAssumption
<1>2. /\ Cardinality(Fairly(c)) <= TotalLimit[c]
      /\ \A u \in Users : Cardinality(FairlyBy(c, u)) <= UserLimit[c]
  BY DEF UsesBounded, FairlyBy
<1>3. CASE Fairly(c)' \subseteq Fairly(c)
  BY <1>1, <1>2, <1>3, FewerFair
<1>4. CASE ~(Fairly(c)' \subseteq Fairly(c))
  <2>1. PICK r \in Requests : Commit(r) /\ c \in grant[r]
    BY <1>4, OthersAddNone, CommitAdds
  <2>2. /\ Cardinality(Fairly(c)) < TotalLimit[c]
        /\ Cardinality(FairlyBy(c, UserOf[KeyOf[r]])) < UserLimit[c]
    BY <2>1 DEF GrantLeft
  <2>3. Fairly(c)' \subseteq Fairly(c) \cup {r}
    BY <2>1, CommitAdds
  <2>4. /\ Fairly(c) \in SUBSET Requests /\ Fairly(c)' \in SUBSET Requests
        /\ \A u : FairlyBy(c, u) \in SUBSET Requests /\ FairlyBy(c, u)' \in SUBSET Requests
    BY DEF Fairly, FairlyBy, Redemptions
  <2>5. Cardinality(Fairly(c)') <= TotalLimit[c]
    <3>1. Cardinality(Fairly(c)') <= Cardinality(Fairly(c)) + 1
      BY <2>3, <2>4, OneMore
    <3>2. Cardinality(Fairly(c)) \in Nat /\ Cardinality(Fairly(c)') \in Nat
      BY <2>4, Fewer
    <3> QED BY <1>1, <2>2, <3>1, <3>2
  <2>6. ASSUME NEW u \in Users PROVE Cardinality(FairlyBy(c, u)') <= UserLimit[c]
    <3>1. Cardinality(FairlyBy(c, u)) \in Nat /\ Cardinality(FairlyBy(c, u)') \in Nat
      BY <2>4, Fewer
    <3>2. CASE u = UserOf[KeyOf[r]]
      <4>1. FairlyBy(c, u)' \subseteq FairlyBy(c, u) \cup {r}
        BY <2>3 DEF FairlyBy
      <4>2. Cardinality(FairlyBy(c, u)') <= Cardinality(FairlyBy(c, u)) + 1
        BY <2>4, <4>1, OneMore
      <4> QED BY <1>1, <2>2, <3>1, <3>2, <4>2
    <3>3. CASE u # UserOf[KeyOf[r]]
      <4>1. FairlyBy(c, u)' \in SUBSET FairlyBy(c, u)
        BY <2>3, <3>3 DEF FairlyBy
      <4>2. Cardinality(FairlyBy(c, u)') <= Cardinality(FairlyBy(c, u))
        BY <2>4, <4>1, Fewer
      <4> QED BY <1>1, <1>2, <3>1, <4>2
    <3> QED BY <3>2, <3>3
  <2> QED BY <2>5, <2>6
<1> QED BY <1>3, <1>4

\* What is held was granted, and a cancelled order holds what it is giving back.
LEMMA HeldStep ==
  ASSUME TypeOK, KeyInv, Held, CancelReturnsUses, [Next]_vars
  PROVE  Held' /\ CancelReturnsUses'
<1> USE DEF Held, CancelReturnsUses
<1>1. ASSUME NEW r \in Requests, ServerStep(r) PROVE Held' /\ CancelReturnsUses'
  <2>1. KeyOf[r] \in Keys
    BY ConstantsAssumption
  <2>2. CASE Commit(r)
    <3>1. \A q \in Requests : /\ order'[q] = IF q = r THEN "live" ELSE order[q]
                              /\ active'[q] = IF q = r THEN grant[r] ELSE active[q]
                              /\ granted'[q] = IF q = r THEN grant[r] ELSE granted[q]
                              /\ releasing'[q] = releasing[q]
      BY <2>2 DEF Commit, TypeOK
    <3>2. reopened' = reopened
      BY <2>2 DEF Commit
    <3> QED BY <3>1, <3>2
  <2>3. CASE ~Commit(r)
    BY <1>1, <2>1, <2>3, OrdersMade DEF orderVars
  <2> QED BY <2>2, <2>3
<1>2. ASSUME NEW r \in Requests, Deliver(r) PROVE Held' /\ CancelReturnsUses'
  BY <1>2 DEF Deliver, TypeOK
<1>3. ASSUME NEW r \in Requests, CancelOrder(r) PROVE Held' /\ CancelReturnsUses'
  BY <1>3 DEF CancelOrder, TypeOK
<1>4. ASSUME NEW r \in Requests, ReleaseUse(r) PROVE Held' /\ CancelReturnsUses'
  BY <1>4 DEF ReleaseUse, TypeOK
<1>5. ASSUME NEW r \in Requests, CancelWithUses(r) PROVE Held' /\ CancelReturnsUses'
  BY <1>5 DEF CancelWithUses, TypeOK
<1>6. ASSUME NEW r \in Requests, Reopen(r) PROVE Held' /\ CancelReturnsUses'
  BY <1>6 DEF Reopen, TypeOK
<1>9. ASSUME NEW r \in Requests, GrowOld(r) PROVE Held' /\ CancelReturnsUses'
  BY <1>9 DEF GrowOld, orderVars
<1>7. ASSUME NEW k \in Keys, GiveUp(k) \/ Hear(k) PROVE Held' /\ CancelReturnsUses'
  BY <1>7 DEF GiveUp, Hear, orderVars
<1>8. CASE UNCHANGED vars
  BY <1>8 DEF vars
<1> QED BY <1>1, <1>2, <1>3, <1>4, <1>5, <1>6, <1>7, <1>8, <1>9 DEF Next, ServerStep, Aftermath

\* The checkouts in a transaction are as many as the connections, and those
\* past the gate with the orders it counts are fewer than the capacity it held
\* them to and connections together.
GateInv == Cardinality(Connected) <= PoolSize /\ OvershootBounded

\* Only Begin takes a connection, and only the gate lets past the gate.
LEMMA WhereSteps ==
  ASSUME TypeOK, LockInv, NEW r \in Requests, ServerStep(r)
  PROVE  /\ pc'[r] \in InTransaction => pc[r] \in InTransaction \/ Begin(r)
         /\ r \in PastGate' => r \in PastGate \/ CapacityGate(r)
         /\ r \in PastGate' => pc'[r] \in InTransaction
         /\ Commit(r) => r \in PastGate /\ r \notin PastGate'
         /\ CapacityGate(r) /\ r \in PastGate' =>
              /\ pc[r] \in InTransaction /\ ~Commit(r)
              /\ \E crew \in Crews : ~AtCapacity(crew) /\ Hold(r, crew)
<1>1. CASE LockDeal(r) \/ LockCoupon(r)
  BY <1>1 DEF LockDeal, LockCoupon, Lock, Move, TypeOK, PastGate, InTransaction,
              WithoutDeal, WithoutCoupon, Commit, Begin, CapacityGate
<1>2. CASE CapacityGate(r)
  BY <1>2 DEF CapacityGate, Goto, Move, TypeOK, PastGate, InTransaction, Commit
<1>3. CASE Commit(r)
  BY <1>3 DEF Commit, Goto, Move, TypeOK, PastGate, InTransaction, CapacityGate
<1>4. CASE ~(LockDeal(r) \/ LockCoupon(r)) /\ ~CapacityGate(r) /\ ~Commit(r)
  <2>1. PICK step \in Steps : Goto(r, step)
    BY <1>4, StepNames
       DEF ServerStep, Progress, Send, Begin, CheckKey, ResolveArea, LoadArea,
           TakeNumber, Insert, Replay, Refuse, Fail, PickDeal, PickCoupon
  <2>2. pc'[r] = step
    BY <2>1 DEF Goto, Move, TypeOK
  <2>3. /\ step \in InTransaction => pc[r] \in InTransaction \/ Begin(r)
        /\ step \in {"deal", "lockDeal", "coupon", "lockCoupon", "number", "insert", "commit"}
             => r \in PastGate
    BY <1>4, <2>2
       DEF ServerStep, Progress, Send, Begin, CheckKey, ResolveArea, LoadArea,
           TakeNumber, Insert, Replay, Refuse, Fail, PickDeal, PickCoupon, Goto, Move, TypeOK,
           WithoutDeal, WithoutCoupon, InTransaction, PastGate
  <2> QED BY <1>4, <2>2, <2>3 DEF PastGate, InTransaction
<1> QED BY <1>1, <1>2, <1>3, <1>4

\* Apart from the gate, a request leaves the riders' side alone.
LEMMA RidersStand ==
  ASSUME NEW r \in Requests, ServerStep(r), ~CapacityGate(r)
  PROVE  UNCHANGED riderVars
<1>1. LockDeal(r) \/ LockCoupon(r) => UNCHANGED riderVars
  BY DEF LockDeal, LockCoupon, Lock
<1>2. Send(r) \/ Begin(r) \/ CheckKey(r) \/ ResolveArea(r) \/ LoadArea(r) => UNCHANGED riderVars
  BY DEF Send, Begin, CheckKey, ResolveArea, LoadArea
<1>3. PickDeal(r) \/ PickCoupon(r) \/ TakeNumber(r) \/ Insert(r) => UNCHANGED riderVars
  BY DEF PickDeal, PickCoupon, TakeNumber, Insert
<1>4. Commit(r) \/ Replay(r) \/ Refuse(r) \/ Fail(r) => UNCHANGED riderVars
  BY DEF Commit, Replay, Refuse, Fail
<1> QED BY <1>1, <1>2, <1>3, <1>4 DEF ServerStep, Progress

\* The orders and the requests past the gate that it holds to the capacity.
HeldOrders == ActiveOrders \ unheld
HeldRequests == PastGate \ unheld

\* Steps that let nobody in, and add no order the gate holds to the capacity.
LEMMA GateQuiet ==
  ASSUME TypeOK, GateInv, heldTo' = heldTo, Connected' \subseteq Connected,
         HeldOrders' \subseteq HeldOrders, HeldRequests' \subseteq HeldRequests
  PROVE  GateInv'
<1>1. HeldOrders \in SUBSET Requests /\ HeldRequests \in SUBSET Requests /\ Connected \in SUBSET Requests
  BY DEF HeldOrders, HeldRequests, ActiveOrders, PastGate, Connected
<1>2. /\ Cardinality(HeldOrders) \in Nat /\ Cardinality(HeldOrders') \in Nat
      /\ Cardinality(HeldOrders') <= Cardinality(HeldOrders)
  BY <1>1, Fewer
<1>3. /\ Cardinality(HeldRequests) \in Nat /\ Cardinality(HeldRequests') \in Nat
      /\ Cardinality(HeldRequests') <= Cardinality(HeldRequests)
  BY <1>1, Fewer
<1>4. /\ Cardinality(Connected) \in Nat /\ Cardinality(Connected') \in Nat
      /\ Cardinality(Connected') <= Cardinality(Connected)
  BY <1>1, Fewer
<1>5. heldTo \in Nat /\ PoolSize \in Nat
  BY ConstantsAssumption DEF TypeOK
<1>6. Cardinality(HeldOrders) + Cardinality(HeldRequests) < heldTo + PoolSize
  BY DEF GateInv, OvershootBounded, HeldOrders, HeldRequests
<1>7. Cardinality(Connected) <= PoolSize
  BY DEF GateInv
<1>8. Cardinality(HeldOrders') + Cardinality(HeldRequests') < heldTo' + PoolSize
  BY <1>2, <1>3, <1>5, <1>6
<1>9. Cardinality(Connected') <= PoolSize
  BY <1>4, <1>5, <1>7
<1> QED BY <1>8, <1>9 DEF GateInv, OvershootBounded, HeldOrders, HeldRequests

\* A request that the gate lets past is held to the capacity it read, or is
\* among those it does not hold.
LEMMA GatePass ==
  ASSUME TypeOK, GateInv, NEW r \in Requests, NEW crew \in Crews, ~AtCapacity(crew),
         Hold(r, crew), ActiveOrders' = ActiveOrders, Connected' \subseteq Connected,
         PastGate' \subseteq Connected', PastGate' \subseteq PastGate \cup {r}
  PROVE  GateInv'
<1>1. crew.riders \in Nat /\ crew.capacity \in Nat /\ PoolSize \in Nat
  BY ConstantsAssumption
<1>2. CASE ~(crew.riders > 0)
  <2>1. heldTo' = heldTo /\ unheld' = unheld \cup {r}
    BY <1>2 DEF Hold
  <2>2. HeldOrders' \subseteq HeldOrders /\ HeldRequests' \subseteq HeldRequests
    BY <2>1 DEF HeldOrders, HeldRequests
  <2> QED BY <2>1, <2>2, GateQuiet
<1>3. CASE crew.riders > 0
  <2>1. heldTo' = crew.capacity /\ unheld' = {}
    BY <1>3 DEF Hold
  <2>2. ActiveOrders \in SUBSET Requests /\ Connected \in SUBSET Requests
    BY DEF ActiveOrders, Connected
  <2>3. Cardinality(ActiveOrders) \in Nat
    BY <2>2, Fewer
  <2>4. Cardinality(ActiveOrders) < crew.capacity
    BY <1>1, <1>3, <2>3 DEF AtCapacity
  <2>5. /\ Cardinality(Connected') \in Nat /\ Cardinality(Connected) \in Nat
        /\ Cardinality(Connected') <= Cardinality(Connected)
    BY <2>2, Fewer
  <2>6. Cardinality(Connected') <= PoolSize
    BY <1>1, <2>5 DEF GateInv
  <2>7. /\ Cardinality(PastGate') <= Cardinality(Connected') /\ Cardinality(PastGate') \in Nat
    BY <2>2, Fewer
  <2>8. Cardinality(ActiveOrders') + Cardinality(PastGate') < heldTo' + PoolSize
    BY <1>1, <2>1, <2>3, <2>4, <2>5, <2>6, <2>7
  <2>9. ActiveOrders' \ unheld' = ActiveOrders' /\ PastGate' \ unheld' = PastGate'
    BY <2>1
  <2> QED BY <2>6, <2>8, <2>9 DEF GateInv, OvershootBounded
<1> QED BY <1>2, <1>3

\* An order that is placed was a request past the gate.
LEMMA CommitPasses ==
  ASSUME TypeOK, GateInv, NEW r \in Requests, r \in PastGate, r \notin PastGate',
         PastGate' \subseteq PastGate, Connected' \subseteq Connected,
         ActiveOrders' \subseteq ActiveOrders \cup {r}, UNCHANGED riderVars
  PROVE  GateInv'
<1>1. heldTo' = heldTo /\ unheld' = unheld
  BY DEF riderVars
<1>2. CASE r \in unheld
  <2>1. HeldOrders' \subseteq HeldOrders /\ HeldRequests' \subseteq HeldRequests
    BY <1>1, <1>2 DEF HeldOrders, HeldRequests
  <2> QED BY <1>1, <2>1, GateQuiet
<1>3. CASE r \notin unheld
  <2>1. /\ HeldOrders \in SUBSET Requests /\ HeldRequests \in SUBSET Requests
        /\ HeldOrders' \in SUBSET Requests /\ Connected \in SUBSET Requests
    BY DEF HeldOrders, HeldRequests, ActiveOrders, PastGate, Connected
  <2>2. HeldOrders' \subseteq HeldOrders \cup {r}
    BY <1>1 DEF HeldOrders
  <2>3. /\ Cardinality(HeldOrders') <= Cardinality(HeldOrders) + 1
        /\ Cardinality(HeldOrders) \in Nat /\ Cardinality(HeldOrders') \in Nat
    BY <2>1, <2>2, OneMore, Fewer
  <2>4. HeldRequests' \subseteq HeldRequests \ {r} /\ r \in HeldRequests
    BY <1>1, <1>3 DEF HeldRequests
  <2>5. Cardinality(HeldRequests \ {r}) = Cardinality(HeldRequests) - 1
    <3>1. IsFiniteSet(HeldRequests)
      BY <2>1, ConstantsAssumption, FS_Subset
    <3> QED BY <2>4, <3>1, FS_RemoveElement
  <2>6. /\ Cardinality(HeldRequests') <= Cardinality(HeldRequests \ {r})
        /\ Cardinality(HeldRequests') \in Nat /\ Cardinality(HeldRequests) \in Nat
    BY <2>1, <2>4, Fewer
  <2>7. Cardinality(HeldOrders) + Cardinality(HeldRequests) < heldTo + PoolSize
    BY DEF GateInv, OvershootBounded, HeldOrders, HeldRequests
  <2>8. heldTo \in Nat /\ PoolSize \in Nat
    BY ConstantsAssumption DEF TypeOK
  <2>9. Cardinality(HeldOrders') + Cardinality(HeldRequests') < heldTo' + PoolSize
    BY <1>1, <2>3, <2>5, <2>6, <2>7, <2>8
  <2>10. Cardinality(Connected') <= PoolSize
    <3>1. /\ Cardinality(Connected') \in Nat /\ Cardinality(Connected) \in Nat
          /\ Cardinality(Connected') <= Cardinality(Connected)
      BY <2>1, Fewer
    <3> QED BY <2>8, <3>1 DEF GateInv
  <2> QED BY <2>9, <2>10 DEF GateInv, OvershootBounded, HeldOrders, HeldRequests
<1> QED BY <1>2, <1>3

\* The gate's invariant is inductive.
LEMMA GateStep ==
  ASSUME TypeOK, LockInv, KeyInv, Held, GateInv, [Next]_vars
  PROVE  GateInv'
<1>1. heldTo \in Nat /\ PoolSize \in Nat \ {0}
  BY ConstantsAssumption DEF TypeOK
<1>2. PastGate \in SUBSET Requests /\ Connected \in SUBSET Requests
      /\ PastGate' \in SUBSET Requests /\ Connected' \in SUBSET Requests
  BY DEF PastGate, Connected
<1>3. ASSUME NEW r \in Requests, ServerStep(r) PROVE GateInv'
  <2>1. KeyOf[r] \in Keys
    BY ConstantsAssumption
  <2>2. \A q \in Requests \ {r} : pc'[q] = pc[q]
    BY <1>3, OthersStay
  <2>3. ~Commit(r) => order' = order
    BY <1>3, <2>1, OrdersMade DEF orderVars
  <2>4. ~Begin(r) => Connected' \subseteq Connected
    BY <1>3, <2>2, WhereSteps DEF Connected
  <2>5. ~CapacityGate(r) => PastGate' \subseteq PastGate /\ UNCHANGED riderVars
    BY <1>3, <2>2, WhereSteps, RidersStand DEF PastGate
  <2>6. CASE Begin(r)
    <3>1. ~Commit(r) /\ ~CapacityGate(r)
      BY <2>6 DEF Begin, Commit, CapacityGate
    <3>2. Cardinality(Connected) < PoolSize /\ Connected' \subseteq Connected \cup {r}
      BY <2>2, <2>6 DEF Begin, ConnectionFree, Connected
    <3>3. Cardinality(Connected') <= Cardinality(Connected) + 1
      BY <1>2, <3>2, OneMore
    <3>4. Cardinality(Connected) \in Nat /\ Cardinality(Connected') \in Nat
      BY <1>2, Fewer
    <3>5. Cardinality(Connected') <= PoolSize
      BY <1>1, <3>2, <3>3, <3>4
    <3>6. /\ HeldOrders' = HeldOrders /\ HeldRequests' \in SUBSET HeldRequests
          /\ HeldRequests \in SUBSET Requests /\ HeldOrders \in SUBSET Requests
      BY <2>3, <2>5, <3>1
         DEF HeldOrders, HeldRequests, ActiveOrders, PastGate, riderVars
    <3>7. /\ Cardinality(HeldRequests) \in Nat /\ Cardinality(HeldRequests') \in Nat
          /\ Cardinality(HeldRequests') <= Cardinality(HeldRequests)
          /\ Cardinality(HeldOrders) \in Nat
      BY <3>6, Fewer
    <3>8. Cardinality(HeldOrders) + Cardinality(HeldRequests) < heldTo + PoolSize
      BY DEF GateInv, OvershootBounded, HeldOrders, HeldRequests
    <3>9. heldTo' = heldTo
      BY <2>5, <3>1 DEF riderVars
    <3>10. Cardinality(HeldOrders') + Cardinality(HeldRequests') < heldTo' + PoolSize
      BY <1>1, <3>6, <3>7, <3>8, <3>9
    <3> QED BY <3>5, <3>10 DEF GateInv, OvershootBounded, HeldOrders, HeldRequests
  <2>7. CASE Commit(r)
    <3>1. ~Begin(r) /\ ~CapacityGate(r)
      BY <2>7 DEF Begin, Commit, CapacityGate
    <3>2. ActiveOrders' \subseteq ActiveOrders \cup {r}
      BY <2>5, <2>7, <3>1 DEF Commit, ActiveOrders, TypeOK, riderVars
    <3>3. r \in PastGate /\ r \notin PastGate'
      BY <1>3, <2>7, WhereSteps
    <3> QED BY <2>4, <2>5, <3>1, <3>2, <3>3, CommitPasses
  <2>8. CASE CapacityGate(r) /\ r \in PastGate'
    <3>1. ~Begin(r) /\ ~Commit(r)
      BY <2>8 DEF Begin, Commit, CapacityGate
    <3>2. PICK crew \in Crews : ~AtCapacity(crew) /\ Hold(r, crew)
      BY <1>3, <2>8, WhereSteps
    <3>3. ActiveOrders' = ActiveOrders
      BY <2>3, <2>8, <3>1 DEF ActiveOrders, CapacityGate
    <3>4. PastGate' \subseteq Connected' /\ PastGate' \subseteq PastGate \cup {r}
      BY <2>2 DEF PastGate, Connected, InTransaction
    <3> QED BY <2>4, <3>1, <3>2, <3>3, <3>4, GatePass
  <2>9. CASE ~Begin(r) /\ ~Commit(r) /\ ~CapacityGate(r)
    <3>1. heldTo' = heldTo /\ HeldOrders' = HeldOrders /\ HeldRequests' \subseteq HeldRequests
      BY <2>3, <2>5, <2>9 DEF HeldOrders, HeldRequests, ActiveOrders, riderVars
    <3> QED BY <2>4, <2>9, <3>1, GateQuiet
  <2>10. CASE CapacityGate(r) /\ r \notin PastGate'
    <3>1. ~Begin(r) /\ ~Commit(r)
      BY <2>10 DEF Begin, Commit, CapacityGate
    <3>2. UNCHANGED riderVars
      BY <2>10 DEF CapacityGate, Goto, Move, TypeOK, PastGate, riderVars
    <3>3. PastGate' \subseteq PastGate
      BY <2>2, <2>10 DEF PastGate
    <3>4. heldTo' = heldTo /\ HeldOrders' = HeldOrders /\ HeldRequests' \subseteq HeldRequests
      BY <2>3, <3>1, <3>2, <3>3 DEF HeldOrders, HeldRequests, ActiveOrders, riderVars
    <3> QED BY <2>4, <3>1, <3>4, GateQuiet
  <2> QED BY <2>6, <2>7, <2>8, <2>9, <2>10
<1>4. ASSUME pc' = pc, heldTo' = heldTo, HeldOrders' \subseteq HeldOrders, unheld \subseteq unheld'
      PROVE  GateInv'
  <2>1. Connected' = Connected /\ HeldRequests' \subseteq HeldRequests
    BY <1>4 DEF PastGate, Connected, HeldRequests
  <2> QED BY <1>4, <2>1, GateQuiet
<1>5. ASSUME NEW r \in Requests, Aftermath(r) PROVE GateInv'
  <2>1. pc' = pc /\ heldTo' = heldTo /\ unheld \subseteq unheld'
    BY <1>5 DEF Aftermath, Deliver, CancelOrder, ReleaseUse, CancelWithUses, Reopen, GrowOld,
                serverVars, riderVars
  <2>2. HeldOrders' \subseteq HeldOrders
    BY <1>5 DEF Aftermath, Deliver, CancelOrder, ReleaseUse, CancelWithUses, Reopen, GrowOld,
                HeldOrders, ActiveOrders, TypeOK, orderVars, riderVars
  <2> QED BY <1>4, <2>1, <2>2
<1>6. ASSUME NEW k \in Keys, GiveUp(k) \/ Hear(k) PROVE GateInv'
  BY <1>4, <1>6 DEF GiveUp, Hear, serverVars, orderVars, riderVars, HeldOrders, ActiveOrders
<1>7. CASE UNCHANGED vars
  BY <1>4, <1>7 DEF vars, HeldOrders, ActiveOrders
<1> QED BY <1>3, <1>5, <1>6, <1>7 DEF Next, ServerStep

------------------------------------------------------------------------------
(* The invariant, and what follows from it. *)

IInv == TypeOK /\ PickedKnown /\ LockInv /\ KeyInv /\ UseInv /\ GateInv

\* At first nothing is placed, locked or granted.
LEMMA InitInv == Init => IInv
<1> SUFFICES ASSUME Init PROVE IInv
  OBVIOUS
<1> USE DEF Init
<1>1. TypeOK /\ PickedKnown
  BY DEF TypeOK, PickedKnown, Steps, Offers
<1>2. LockInv
  BY DEF LockInv
<1>3. KeyInv
  BY DEF KeyInv, OneOrderPerKey
<1>4. /\ (\A c : Fairly(c) = {}) /\ (\A c, u : FairlyBy(c, u) = {})
      /\ ActiveOrders = {} /\ PastGate = {} /\ Connected = {}
  BY DEF Fairly, FairlyBy, Redemptions, ActiveOrders, PastGate, Connected, InTransaction
<1>5. Cardinality({}) = 0
  BY FS_EmptySet
<1>6. UsesBounded
  <2>1. ASSUME NEW c \in Offers PROVE 0 <= TotalLimit[c] /\ 0 <= UserLimit[c]
    BY ConstantsAssumption
  <2> QED BY <1>4, <1>5, <2>1 DEF UsesBounded, FairlyBy
<1>7. GrantLeft /\ Held /\ CancelReturnsUses
  BY DEF GrantLeft, Held, CancelReturnsUses
<1>8. GateInv
  <2>1. PoolSize \in Nat \ {0}
    BY ConstantsAssumption
  <2>2. ActiveOrders \ unheld = {} /\ PastGate \ unheld = {}
    BY <1>4
  <2> QED BY <1>4, <1>5, <2>1, <2>2 DEF GateInv, OvershootBounded
<1> QED BY <1>1, <1>2, <1>3, <1>6, <1>7, <1>8 DEF IInv, UseInv

\* Every step keeps it: each layer from itself and the ones below.
LEMMA StepInv == IInv /\ [Next]_vars => IInv'
<1> SUFFICES ASSUME IInv, [Next]_vars PROVE IInv'
  OBVIOUS
<1> USE DEF IInv, UseInv
<1>1. TypeOK' /\ PickedKnown'
  BY TypesStep
<1>2. LockInv'
  BY LocksStep
<1>3. KeyInv'
  BY KeysStep
<1>4. GrantLeft'
  BY <1>1, <1>2, GrantsStep
<1>5. UsesBounded'
  BY <1>1, BoundsStep
<1>6. Held' /\ CancelReturnsUses'
  BY HeldStep
<1>7. GateInv'
  BY GateStep
<1> QED BY <1>1, <1>2, <1>3, <1>4, <1>5, <1>6, <1>7

\* The invariant holds of every checkout and every cancel, however they
\* interleave.
THEOREM CheckoutInvariant == Spec => []IInv
<1> QED BY InitInv, StepInv, PTL DEF Spec

\* Every variable of Checkout keeps its type.
THEOREM CheckoutTypes == Spec => []TypeOK
<1>1. IInv => TypeOK
  BY DEF IInv
<1> QED BY <1>1, CheckoutInvariant, PTL

\* An attempt to buy, sent any number of times, buys one order: the pre-check
\* and the unique index on (customer_id, idempotency_key).
THEOREM OneOrder == Spec => []OneOrderPerKey
<1>1. IInv => OneOrderPerKey
  BY DEF IInv, KeyInv
<1> QED BY <1>1, CheckoutInvariant, PTL

\* No number of concurrent checkouts takes more uses of an offer than its
\* limits: recheckUsageUnderLock counts what its row lock keeps still.
THEOREM LimitsHold == Spec => []UsesBounded
<1>1. IInv => UsesBounded
  BY DEF IInv, UseInv
<1> QED BY <1>1, CheckoutInvariant, PTL

\* The unlocked capacity gate is passed by fewer orders too many than there
\* are connections.
THEOREM OvershootStaysBounded == Spec => []OvershootBounded
<1>1. IInv => OvershootBounded
  BY DEF IInv, GateInv
<1> QED BY <1>1, CheckoutInvariant, PTL

\* A cancelled order keeps no use that nobody is about to give back.
THEOREM UsesComeBack == Spec => []CancelReturnsUses
<1>1. IInv => CancelReturnsUses
  BY DEF IInv, UseInv
<1> QED BY <1>1, CheckoutInvariant, PTL

\* Checkouts never block each other in a circle of row locks.
THEOREM LocksAreOrdered == Spec => []NoLockCycle
<1>1. IInv => NoLockCycle
  BY SomebodyMoves DEF IInv
<1> QED BY <1>1, CheckoutInvariant, PTL

------------------------------------------------------------------------------
(* Checkout implements OrderLedger. *)

placedKeys == {KeyOf[q] : q \in {r \in Requests : order[r] # "none"}}
usesHeld == UNION {{KeyOf[q]} \X active[q] : q \in Requests \ reopened}

\* A key is placed when it is taken; a use is held by an order nobody reopened.
LEMMA LedgerView ==
  ASSUME TypeOK
  PROVE  /\ \A k \in Keys : k \in placedKeys <=> KeyTaken(k)
         /\ placedKeys \subseteq Keys
         /\ usesHeld \subseteq Keys \X Offers
         /\ \A k, c : <<k, c>> \in usesHeld <=>
              \E q \in Requests \ reopened : KeyOf[q] = k /\ c \in active[q]
<1> QED BY ConstantsAssumption DEF TypeOK, placedKeys, usesHeld, KeyTaken

\* The ledger counts as Checkout does.
LEMMA SameCount == \A S : Ledger!Cardinality(S) = Cardinality(S)
<1> QED BY DEF Ledger!Cardinality, Cardinality

\* Each fair holder of an offer is a request of its own: the ledger counts no
\* more holders than Checkout does.
LEMMA HoldersCounted ==
  ASSUME TypeOK, NEW c \in Offers, NEW u
  PROVE  /\ Cardinality(Ledger!Holders(c)) \in Nat
         /\ Cardinality(Ledger!Holders(c)) <= Cardinality(Fairly(c))
         /\ Cardinality(Ledger!HoldersOf(c, u)) \in Nat
         /\ Cardinality(Ledger!HoldersOf(c, u)) <= Cardinality(FairlyBy(c, u))
<1> DEFINE H == {k \in Keys : <<k, c>> \in usesHeld}
           HU == {k \in H : UserOf[k] = u}
<1>1. Ledger!Holders(c) = H /\ Ledger!HoldersOf(c, u) = HU
  BY DEF Ledger!Holders, Ledger!HoldersOf, usesHeld
<1>2. \A k \in Keys : k \in H <=> \E q \in Fairly(c) : KeyOf[q] = k
  BY LedgerView DEF Fairly, Redemptions
<1>3. H \subseteq Keys /\ \A q \in Requests : KeyOf[q] \in Keys
  BY ConstantsAssumption
<1> HIDE DEF H
<1>4. ASSUME NEW F \in SUBSET Requests, NEW T \in SUBSET Keys,
             \A k \in Keys : k \in T <=> \E q \in F : KeyOf[q] = k
      PROVE  Cardinality(T) \in Nat /\ Cardinality(T) <= Cardinality(F)
  <2> DEFINE f == [q \in F |-> KeyOf[q]]
  <2>1. f \in [F -> T]
    BY <1>3, <1>4
  <2>2. \A k \in T : \E q \in F : f[q] = k
    BY <1>4
  <2>3. f \in Surjection(F, T)
    BY <2>1, <2>2 DEF Surjection
  <2>4. IsFiniteSet(F)
    BY ConstantsAssumption, FS_Subset
  <2> QED BY <2>3, <2>4, FS_Surjection, FS_CardinalityType
<1>5. Fairly(c) \in SUBSET Requests /\ FairlyBy(c, u) \in SUBSET Requests
  BY DEF Fairly, FairlyBy, Redemptions
<1>6. \A k \in Keys : k \in HU <=> \E q \in FairlyBy(c, u) : KeyOf[q] = k
  BY <1>2 DEF FairlyBy
<1>7. HU \subseteq Keys
  BY <1>3
<1> HIDE DEF HU
<1> QED BY <1>1, <1>2, <1>3, <1>4, <1>5, <1>6, <1>7

\* A commit places its key's order.
LEMMA CommitPlaces ==
  ASSUME IInv, IInv', NEW r \in Requests, Commit(r)
  PROVE  Ledger!LedgerNext
<1> DEFINE k == KeyOf[r]
<1> USE DEF IInv, UseInv
<1>1. k \in Keys /\ grant[r] \in SUBSET Offers
  BY ConstantsAssumption DEF TypeOK
<1>2. ~KeyTaken(k) /\ order[r] = "none" /\ r \notin reopened /\ active[r] = {}
  BY DEF Commit, KeyInv, KeyTaken, Held
<1>3. /\ \A q \in Requests : /\ order'[q] = IF q = r THEN "live" ELSE order[q]
                             /\ active'[q] = IF q = r THEN grant[r] ELSE active[q]
      /\ reopened' = reopened /\ heard' = heard
  BY DEF Commit, TypeOK, clientVars
<1>4. placedKeys' = placedKeys \cup {k}
  BY <1>3 DEF placedKeys, TypeOK
<1>5. usesHeld' = usesHeld \cup ({k} \X grant[r])
  <2>1. \A q \in Requests \ reopened : q # r => active'[q] = active[q]
    BY <1>3
  <2>2. active'[r] = grant[r] /\ r \in Requests \ reopened
    BY <1>2, <1>3
  <2> QED BY <1>2, <1>3, <2>1, <2>2 DEF usesHeld
<1>6. ASSUME NEW c \in grant[r] PROVE Ledger!Left(c, UserOf[k])
  <2>1. c \in Offers /\ TotalLimit[c] \in Nat /\ UserLimit[c] \in Nat
    BY <1>1, ConstantsAssumption
  <2>2. /\ Cardinality(Fairly(c)) < TotalLimit[c]
        /\ Cardinality(FairlyBy(c, UserOf[k])) < UserLimit[c]
    BY DEF GrantLeft
  <2>3. Cardinality(Fairly(c)) \in Nat /\ Cardinality(FairlyBy(c, UserOf[k])) \in Nat
    <3>1. Fairly(c) \in SUBSET Requests /\ FairlyBy(c, UserOf[k]) \in SUBSET Requests
      BY DEF Fairly, FairlyBy, Redemptions
    <3> QED BY <3>1, Fewer
  <2> HIDE DEF k
  <2>4. Cardinality(Ledger!Holders(c)) < TotalLimit[c]
    BY <2>1, <2>2, <2>3, HoldersCounted
  <2>5. Cardinality(Ledger!HoldersOf(c, UserOf[k])) < UserLimit[c]
    BY <2>1, <2>2, <2>3, HoldersCounted
  <2> QED BY <2>4, <2>5, SameCount DEF Ledger!Left
<1>7. k \notin placedKeys
  BY <1>1, <1>2, LedgerView
<1> HIDE DEF k
<1>8. PICK S \in SUBSET Offers : S = grant[r]
  BY <1>1
<1>9. Ledger!Place(k, S)
  BY <1>3, <1>4, <1>5, <1>6, <1>7, <1>8 DEF Ledger!Place, placedKeys, usesHeld
<1> QED BY <1>1, <1>9 DEF Ledger!LedgerNext

\* Any other step tells a customer, or at most gives uses back.
LEMMA OthersRelease ==
  ASSUME IInv, IInv', [Next]_vars, \A r \in Requests : ~Commit(r)
  PROVE  Ledger!LedgerNext \/ UNCHANGED Ledger!ledgerVars
<1> USE DEF IInv, UseInv
<1>1. \A q \in Requests : order'[q] = "none" <=> order[q] = "none"
  <2>1. ASSUME NEW r \in Requests, ServerStep(r) \/ Aftermath(r)
        PROVE  \A q \in Requests : order'[q] = "none" <=> order[q] = "none"
    <3>1. KeyOf[r] \in Keys
      BY ConstantsAssumption
    <3> QED BY <2>1, <3>1, OrdersMade
  <2>2. ASSUME NEW k \in Keys, GiveUp(k) \/ Hear(k) PROVE order' = order
    BY <2>2 DEF GiveUp, Hear, orderVars
  <2>3. CASE UNCHANGED vars
    BY <2>3 DEF vars
  <2> QED BY <2>1, <2>2, <2>3 DEF Next, ServerStep
<1>2. placedKeys' = placedKeys
  BY <1>1 DEF placedKeys
<1>3. usesHeld' \subseteq usesHeld
  <2>1. \A c \in Offers : Fairly(c)' \subseteq Fairly(c)
    BY OthersAddNone
  <2>2. ASSUME NEW p \in usesHeld' PROVE p \in usesHeld
    <3>1. PICK q \in Requests \ reopened' : \E c \in active'[q] : p = <<KeyOf[q], c>>
      BY DEF usesHeld
    <3>2. PICK c \in active'[q] : p = <<KeyOf[q], c>>
      BY <3>1
    <3>3. c \in Offers
      BY <3>2 DEF TypeOK
    <3>4. q \in Fairly(c)'
      BY <3>1, <3>2 DEF Fairly, Redemptions
    <3>5. q \in Requests \ reopened /\ c \in active[q]
      BY <2>1, <3>3, <3>4 DEF Fairly, Redemptions
    <3> QED BY <3>2, <3>5 DEF usesHeld
  <2> QED BY <2>2
<1>4. CASE heard' = heard
  <2>1. PICK S : S = usesHeld \ usesHeld'
    OBVIOUS
  <2>2. Ledger!Release(S)
    BY <1>2, <1>3, <1>4, <2>1 DEF Ledger!Release, placedKeys, usesHeld
  <2>3. S \in SUBSET usesHeld
    BY <2>1
  <2> QED BY <2>2, <2>3 DEF Ledger!LedgerNext, usesHeld
<1>5. CASE heard' # heard
  <2>1. PICK k \in Keys : Hear(k)
    <3>1. ASSUME NEW r \in Requests, ServerStep(r) \/ Aftermath(r) PROVE heard' = heard
      BY <3>1 DEF ServerStep, Progress, Send, Begin, CheckKey, ResolveArea, LoadArea,
             CapacityGate, TakeNumber, Insert, Commit, Replay, Refuse, Fail, PickDeal,
             PickCoupon, LockDeal, LockCoupon, Lock, Aftermath, Deliver, CancelOrder,
             ReleaseUse, CancelWithUses, Reopen, GrowOld, clientVars
    <3>2. CASE UNCHANGED vars
      BY <1>5, <3>2 DEF vars
    <3> QED BY <1>5, <3>1, <3>2 DEF Next, ServerStep, GiveUp
  <2>2. heard' = heard \cup {k} /\ UNCHANGED orderVars
    BY <1>5, <2>1 DEF Hear
  <2>3. k \in placedKeys
    <3>1. KeyTaken(k)'
      BY <2>2 DEF KeyInv
    <3>2. KeyTaken(k)
      BY <2>2, <3>1 DEF KeyTaken, orderVars
    <3> QED BY <3>2, LedgerView
  <2>4. usesHeld' = usesHeld
    BY <2>2 DEF usesHeld, orderVars
  <2>5. Ledger!Tell(k)
    BY <1>2, <2>2, <2>3, <2>4 DEF Ledger!Tell, placedKeys, usesHeld
  <2> QED BY <2>5 DEF Ledger!LedgerNext
<1> QED BY <1>4, <1>5

\* Checkout implements the ledger, for any attempts, offers and interleavings.
THEOREM CheckoutKeepsLedger == Spec => ImplementsLedger
<1>1. Init => Ledger!LedgerInit
  BY DEF Init, Ledger!LedgerInit
<1>2. IInv /\ IInv' /\ [Next]_vars => [Ledger!LedgerNext]_(Ledger!ledgerVars)
  BY CommitPlaces, OthersRelease
<1> QED BY <1>1, <1>2, CheckoutInvariant, PTL DEF Spec, ImplementsLedger, Ledger!LedgerSpec

-----------------------------------------------------------------------------
(***************************************************************************)
(* What the ledger promises holds of checkout.                             *)
(***************************************************************************)

\* The app has been told only of attempts whose order has been committed,
\* whatever was resent, given up or lost on the way.
HeardExists ==
  \A k \in heard : \E q \in Requests : KeyOf[q] = k /\ order[q] # "none"

\* What an order gave back of its coupon and deal is never on it again, and
\* nothing is added to it, whatever request of its key is replayed or fails:
\* redemptions are written with the order.  A reopen is the exception.
UsesTakenAtBirth ==
  [][\A q \in Requests \ reopened' : order[q] # "none" => active'[q] \subseteq active[q]]_vars

\* Nobody is told of an order that the database does not have.
THEOREM ToldOfOrders == Spec => []HeardExists
<1>1. IInv => HeardExists
  BY DEF IInv, KeyInv, KeyTaken, HeardExists
<1> QED BY <1>1, CheckoutInvariant, PTL

\* An order takes its uses when it is made, and after that only loses them.
LEMMA UsesOnlyFall ==
  ASSUME IInv, [Next]_vars, NEW q \in Requests \ reopened', order[q] # "none"
  PROVE  active'[q] \subseteq active[q]
<1>1. CASE \E r \in Requests : Commit(r)
  <2>1. PICK r \in Requests : Commit(r)
    BY <1>1
  <2>2. q # r
    BY <2>1 DEF IInv, KeyInv, Commit, KeyTaken
  <2> QED BY <2>1, <2>2 DEF Commit, IInv, TypeOK
<1>2. CASE \A r \in Requests : ~Commit(r)
  <2>1. TypeOK /\ TypeOK'
    BY StepInv DEF IInv
  <2>2. ASSUME NEW c \in active'[q] PROVE c \in active[q]
    <3>1. c \in Offers
      BY <2>1, <2>2 DEF TypeOK
    <3>2. q \in Fairly(c)'
      BY <2>2 DEF Fairly, Redemptions
    <3> QED BY <1>2, <2>1, <3>1, <3>2, OthersAddNone DEF Fairly, Redemptions
  <2> QED BY <2>2
<1> QED BY <1>1, <1>2

\* Uses only fall, for any requests, cancels and resends.
THEOREM UsesNeverReturn == Spec => UsesTakenAtBirth
<1>1. IInv /\ [Next]_vars
        => [\A q \in Requests \ reopened' :
              order[q] # "none" => active'[q] \subseteq active[q]]_vars
  BY UsesOnlyFall
<1> QED BY <1>1, CheckoutInvariant, PTL DEF Spec, UsesTakenAtBirth
=============================================================================
