------------------------ MODULE ShopDecisions_proofs -------------------------
(***************************************************************************)
(* Theorems about ShopDecisions for any set of shops and lines, any number *)
(* of concurrent requests and sweepers and any prices.  Every step either  *)
(* leaves the shops' answers alone (SameAnswers) or gives exactly one of   *)
(* them (or none) under the order's lock; what follows from an answer is   *)
(* carried by the program counter of the call that gave it.                *)
(***************************************************************************)
EXTENDS ShopDecisions, OrderBilling_proofs

\* An order that is not accepted has asked nobody yet.
PendingUnasked ==
  status = "Pending" => \A s \in Shops : ~row[s].rejected /\ ~row[s].confirmed

\* A call that is about one shop knows which.
ShopKnown ==
  \A c \in Calls : call[c].pc \in {"ready", "claim", "timeout"} => call[c].shop \in Shops

IInv ==
  /\ TypeOK
  /\ ShopKnown
  /\ PendingUnasked
  /\ CancelOwed
  /\ StartOwed
  /\ OneEscalation
  /\ BillExact

\* The step changes no shop's answer and nothing of what is billed.
SameAnswers ==
  /\ row' \in [Shops -> Row]
  /\ \A s \in Shops : /\ row'[s].rejected = row[s].rejected
                      /\ row'[s].confirmed = row[s].confirmed
                      /\ row'[s].billable = row[s].billable

\* A fresh row is a row.
LEMMA FreshType == FreshRow \in Row /\ Idle \in Call
<1> QED BY DEF FreshRow, Row, Idle, Call, PC

\* A step that leaves the rows alone changes no answer.
LEMMA KeptRows == TypeOK /\ row' = row => SameAnswers
<1> QED BY DEF TypeOK, SameAnswers

\* Giving one shop's row other values of what is not an answer changes none.
LEMMA OneQuiet ==
  ASSUME TypeOK, NEW s \in Shops, NEW r \in Row, row' = [row EXCEPT ![s] = r],
         r.rejected = row[s].rejected, r.confirmed = row[s].confirmed,
         r.billable = row[s].billable
  PROVE  SameAnswers
<1> QED BY DEF TypeOK, SameAnswers

\* Marking a shop ready changes no answer.
LEMMA ReadyQuiet ==
  ASSUME TypeOK, ShopKnown, NEW c \in Calls, ReadyStamps(c)
  PROVE  SameAnswers
<1> DEFINE s == call[c].shop
<1> DEFINE r == [row[s] EXCEPT !.ready = TRUE]
<1>1. s \in Shops
  BY DEF ShopKnown, ReadyStamps, At
<1>2. row[s] \in Row
  BY <1>1 DEF TypeOK
<1>3. r \in Row /\ r.rejected = row[s].rejected /\ r.confirmed = row[s].confirmed
      /\ r.billable = row[s].billable
  BY <1>2 DEF Row
<1>4. row' = [row EXCEPT ![s] = r]
  BY DEF ReadyStamps
<1> HIDE DEF s, r
<1> QED BY <1>1, <1>3, <1>4, OneQuiet

\* Neither does an escalation, which counts one alert at most.
LEMMA EscalateQuiet ==
  ASSUME TypeOK, ShopKnown, OneEscalation, NEW c \in Calls, Escalate(c)
  PROVE  SameAnswers /\ OneEscalation'
<1> DEFINE s == call[c].shop
<1> DEFINE r == [row[s] EXCEPT !.alerts = Least(2, @ + 1)]
<1>1. s \in Shops
  BY DEF ShopKnown, Escalate, At
<1>2. CASE ~EscalateHolds(s)
  <2>1. row' = row
    BY <1>2 DEF Escalate
  <2> QED BY <2>1, KeptRows DEF OneEscalation
<1>3. CASE EscalateHolds(s)
  <2>1. row[s] \in Row /\ row[s].alerts = 0
    BY <1>1, <1>3 DEF TypeOK, EscalateHolds
  <2>2. Least(2, row[s].alerts + 1) = 1
    BY <2>1 DEF Least
  <2>3. r \in Row /\ r.rejected = row[s].rejected /\ r.confirmed = row[s].confirmed
        /\ r.billable = row[s].billable /\ r.alerts = 1
    BY <2>1, <2>2 DEF Row
  <2>4. row' = [row EXCEPT ![s] = r]
    BY <1>3 DEF Escalate
  <2> HIDE DEF s, r
  <2>5. SameAnswers
    BY <1>1, <2>3, <2>4, OneQuiet
  <2>6. \A x \in Shops : row'[x] = IF x = s THEN r ELSE row[x]
    BY <2>4 DEF TypeOK
  <2>7. OneEscalation'
    BY <2>3, <2>6 DEF OneEscalation
  <2> QED BY <2>5, <2>7
<1> QED BY <1>2, <1>3

\* What each decision writes: confirmShopOrder's columns,
LEMMA ConfirmedRow ==
  ASSUME NEW q \in Row
  PROVE  /\ Confirmed(q) \in Row
         /\ Confirmed(q).confirmed /\ Confirmed(q).billable
         /\ Confirmed(q).rejected = q.rejected
         /\ Confirmed(q).alerts = q.alerts
<1> DEFINE a1 == [q EXCEPT !.confirmed = TRUE]
<1> DEFINE a2 == [a1 EXCEPT !.billable = TRUE]
<1> DEFINE a3 == [a2 EXCEPT !.age = 0]
<1>1. Confirmed(q) = a3
  BY DEF Confirmed
<1>21. a1 \in Row
  BY DEF Row
<1> HIDE DEF a1
<1>22. a2 \in Row
  BY <1>21 DEF Row
<1> HIDE DEF a2
<1>23. a3 \in Row
  BY <1>22 DEF Row
<1> HIDE DEF a3
<1>2. Confirmed(q) \in Row
  BY <1>1, <1>23
<1>3. Confirmed(q).confirmed /\ Confirmed(q).billable
  BY DEF Confirmed, Row
<1>4. Confirmed(q).rejected = q.rejected /\ Confirmed(q).alerts = q.alerts
  BY DEF Confirmed, Row
<1> QED BY <1>2, <1>3, <1>4

\* rejectShopOrder's,
LEMMA RejectedRow ==
  ASSUME NEW q \in Row
  PROVE  /\ Rejected(q) \in Row
         /\ Rejected(q).rejected /\ ~Rejected(q).billable
         /\ Rejected(q).confirmed = q.confirmed
         /\ Rejected(q).alerts = q.alerts
<1> DEFINE a1 == [q EXCEPT !.rejected = TRUE]
<1> DEFINE a2 == [a1 EXCEPT !.billable = FALSE]
<1> DEFINE a3 == [a2 EXCEPT !.age = 0]
<1>1. Rejected(q) = a3
  BY DEF Rejected
<1>21. a1 \in Row
  BY DEF Row
<1> HIDE DEF a1
<1>22. a2 \in Row
  BY <1>21 DEF Row
<1> HIDE DEF a2
<1>23. a3 \in Row
  BY <1>22 DEF Row
<1> HIDE DEF a3
<1>2. Rejected(q) \in Row
  BY <1>1, <1>23
<1>3. Rejected(q).rejected /\ ~Rejected(q).billable
  BY DEF Rejected, Row
<1>4. Rejected(q).confirmed = q.confirmed /\ Rejected(q).alerts = q.alerts
  BY DEF Rejected, Row
<1> QED BY <1>2, <1>3, <1>4

\* and resendShopOrder's.
LEMMA AskedRow ==
  ASSUME NEW q \in Row
  PROVE  /\ Asked(q) \in Row
         /\ ~Asked(q).rejected /\ ~Asked(q).confirmed /\ ~Asked(q).billable
         /\ Asked(q).alerts = 0
<1> DEFINE a1 == [q EXCEPT !.confirmed = FALSE]
<1> DEFINE a2 == [a1 EXCEPT !.rejected = FALSE]
<1> DEFINE a3 == [a2 EXCEPT !.ready = FALSE]
<1> DEFINE a4 == [a3 EXCEPT !.billable = FALSE]
<1> DEFINE a5 == [a4 EXCEPT !.requested = TRUE]
<1> DEFINE a6 == [a5 EXCEPT !.alerts = 0]
<1> DEFINE a7 == [a6 EXCEPT !.age = 0]
<1>1. Asked(q) = a7
  BY DEF Asked
<1>21. a1 \in Row
  BY DEF Row
<1> HIDE DEF a1
<1>22. a2 \in Row
  BY <1>21 DEF Row
<1> HIDE DEF a2
<1>23. a3 \in Row
  BY <1>22 DEF Row
<1> HIDE DEF a3
<1>24. a4 \in Row
  BY <1>23 DEF Row
<1> HIDE DEF a4
<1>25. a5 \in Row
  BY <1>24 DEF Row
<1> HIDE DEF a5
<1>26. a6 \in Row
  BY <1>25 DEF Row
<1> HIDE DEF a6
<1>27. a7 \in Row
  BY <1>26 DEF Row
<1> HIDE DEF a7
<1>2. Asked(q) \in Row
  BY <1>1, <1>27
<1>5. ~Asked(q).rejected /\ ~Asked(q).confirmed /\ ~Asked(q).billable
  BY DEF Asked, Row
<1>6. Asked(q).alerts = 0
  BY DEF Asked, Row
<1> QED BY <1>2, <1>5, <1>6

\* What the late stamp writes is a row with the same answer.
LEMMA StampedRow ==
  ASSUME NEW q \in Row
  PROVE  LET r == [q EXCEPT !.requested = TRUE, !.age = 0]
         IN r \in Row /\ r.rejected = q.rejected /\ r.confirmed = q.confirmed
            /\ r.billable = q.billable /\ r.alerts = q.alerts
<1> DEFINE r == [q EXCEPT !.requested = TRUE, !.age = 0]
<1> DEFINE a1 == [q EXCEPT !.requested = TRUE]
<1> DEFINE a2 == [a1 EXCEPT !.age = 0]
<1>1. r = a2
  OBVIOUS
<1>21. a1 \in Row
  BY DEF Row
<1> HIDE DEF a1
<1>22. a2 \in Row
  BY <1>21 DEF Row
<1> HIDE DEF a2
<1>2. r \in Row
  BY <1>1, <1>22
<1>3. r.rejected = q.rejected /\ r.confirmed = q.confirmed
      /\ r.billable = q.billable /\ r.alerts = q.alerts
  BY DEF Row
<1> QED BY <1>2, <1>3

\* Nor does the late stamp of notifyShopsForOrder.
LEMMA NotifyQuiet ==
  ASSUME TypeOK, OneEscalation, NotifyStamps
  PROVE  SameAnswers /\ OneEscalation'
<1> DEFINE r(x) == [row[x] EXCEPT !.requested = TRUE, !.age = 0]
<1>1. \A x \in Shops : row[x] \in Row
  BY DEF TypeOK
<1>2. ASSUME NEW x \in Shops
      PROVE  /\ r(x) \in Row /\ r(x).rejected = row[x].rejected
             /\ r(x).confirmed = row[x].confirmed /\ r(x).billable = row[x].billable
             /\ r(x).alerts = row[x].alerts
  BY <1>1, StampedRow
<1>3. row' = [x \in Shops |-> IF Undecided(row[x]) /\ ~row[x].requested
                             THEN r(x) ELSE row[x]]
  BY DEF NotifyStamps
<1> HIDE DEF r
<1> QED BY <1>1, <1>2, <1>3 DEF SameAnswers, OneEscalation

\* Nor does time.
LEMMA AgeQuiet ==
  ASSUME TypeOK, OneEscalation, NEW s \in Shops, Age(s)
  PROVE  SameAnswers /\ OneEscalation'
<1> DEFINE r == [row[s] EXCEPT !.age = @ + 1]
<1>1. row[s] \in Row /\ row[s].age < 2
  BY DEF TypeOK, Age
<1>2. r \in Row /\ r.rejected = row[s].rejected /\ r.confirmed = row[s].confirmed
      /\ r.billable = row[s].billable /\ r.alerts = row[s].alerts
  BY <1>1 DEF Row
<1>3. row' = [row EXCEPT ![s] = r]
  BY DEF Age
<1> HIDE DEF r
<1>4. SameAnswers
  BY <1>2, <1>3, OneQuiet
<1>5. \A x \in Shops : row'[x] = IF x = s THEN r ELSE row[x]
  BY <1>3 DEF TypeOK
<1> QED BY <1>2, <1>4, <1>5 DEF OneEscalation

\* Where no answer changes, neither does what follows from the answers.
LEMMA SameFollows ==
  ASSUME SameAnswers
  PROVE  /\ AllRejected' = AllRejected
         /\ AllDecided' = AllDecided
         /\ AnyConfirmed' = AnyConfirmed
         /\ Included(row)' = Included(row)
<1>1. /\ \A s \in Shops : row'[s].rejected = row[s].rejected
      /\ \A s \in Shops : row'[s].confirmed = row[s].confirmed
      /\ \A s \in Shops : row'[s].billable = row[s].billable
  BY DEF SameAnswers
<1>2. AllRejected' = AllRejected
  BY <1>1 DEF AllRejected
<1>3. AllDecided' = AllDecided
  BY <1>1 DEF AllDecided, Decided
<1>4. AnyConfirmed' = AnyConfirmed
  BY <1>1 DEF AnyConfirmed
<1>5. \A l \in Lines : Billable(row', l) = Billable(row, l)
  BY <1>1 DEF Billable
<1>6. Included(row)' = Included(row)
  BY <1>5 DEF Included
<1> QED BY <1>2, <1>3, <1>4, <1>6

-----------------------------------------------------------------------------

\* The program counters at which a call owes nothing and is about no shop.
Plain == {"idle", "order", "lines", "cancel", "load", "items", "begin"}
Owing == {"order", "lines", "cancel", "load", "items", "begin"}

CallsOK == call \in [Calls -> Call] /\ ShopKnown

\* Moving a call on moves that call only.
LEMMA GotoCalls ==
  ASSUME CallsOK, NEW c \in Calls, NEW pc \in Plain, Goto(c, pc)
  PROVE  /\ CallsOK'
         /\ call'[c].pc = pc
         /\ \A d \in Calls : d # c => call'[d] = call[d]
<1>1. call[c] \in Call /\ pc \in PC
  BY DEF CallsOK, Plain, PC
<1>2. [call[c] EXCEPT !.pc = pc] \in Call
  BY <1>1 DEF Call
<1>3. call' = [call EXCEPT ![c] = [call[c] EXCEPT !.pc = pc]]
  BY DEF Goto
<1>4. [call[c] EXCEPT !.pc = pc].pc = pc
  BY <1>1 DEF Call
<1>5. /\ call' \in [Calls -> Call]
      /\ call'[c].pc = pc
      /\ \A d \in Calls : d # c => call'[d] = call[d]
  BY <1>2, <1>3, <1>4 DEF CallsOK
<1>6. ShopKnown'
  BY <1>5 DEF ShopKnown, CallsOK, Plain
<1> QED BY <1>5, <1>6 DEF CallsOK

\* So does ending one,
LEMMA FinishCalls ==
  ASSUME CallsOK, NEW c \in Calls, Finish(c)
  PROVE  /\ CallsOK'
         /\ call'[c].pc = "idle"
         /\ \A d \in Calls : d # c => call'[d] = call[d]
<1>1. Idle \in Call /\ Idle.pc = "idle"
  BY FreshType DEF Idle
<1>2. call' = [call EXCEPT ![c] = Idle]
  BY DEF Finish
<1>3. /\ call' \in [Calls -> Call]
      /\ call'[c].pc = "idle"
      /\ \A d \in Calls : d # c => call'[d] = call[d]
  BY <1>1, <1>2 DEF CallsOK
<1>4. ShopKnown'
  BY <1>3 DEF ShopKnown, CallsOK
<1> QED BY <1>3, <1>4 DEF CallsOK

\* and starting one.
LEMMA StartCalls ==
  ASSUME CallsOK, NEW c \in Calls, NEW pc \in PC, NEW s \in Shops \cup {NoShop},
         Start(c, pc, s), pc \in {"ready", "claim", "timeout"} => s \in Shops
  PROVE  /\ CallsOK'
         /\ call[c].pc = "idle"
         /\ call'[c].pc = pc
         /\ \A d \in Calls : d # c => call'[d] = call[d]
<1> DEFINE k == [pc |-> pc, shop |-> s]
<1>1. k \in Call /\ k.pc = pc /\ k.shop = s
  BY DEF Call
<1>2. call' = [call EXCEPT ![c] = k]
  BY DEF Start
<1> HIDE DEF k
<1>3. /\ call' \in [Calls -> Call]
      /\ call'[c] = k
      /\ \A d \in Calls : d # c => call'[d] = call[d]
  BY <1>1, <1>2 DEF CallsOK
<1>4. ShopKnown'
  BY <1>1, <1>3 DEF ShopKnown, CallsOK
<1>5. call[c].pc = "idle"
  BY DEF Start, At
<1> QED BY <1>1, <1>3, <1>4, <1>5 DEF CallsOK

\* Every call that owes something goes on owing it when only calls that owe
\* nothing move.
LEMMA OwingKept ==
  ASSUME \A d \in Calls : call[d].pc \in Owing => call'[d] = call[d]
  PROVE  /\ Cancelling # {} => Cancelling' # {}
         /\ Cancelling \cup Starting # {} => (Cancelling \cup Starting)' # {}
<1>1. Cancelling \subseteq Cancelling'
  BY DEF Owing, Cancelling
<1>2. Starting \subseteq Starting'
  BY DEF Owing, Starting
<1> QED BY <1>1, <1>2

\* What is owed stays owed in a step that changes no answer and that no call
\* of those who owe it makes.
LEMMA OwedKept ==
  ASSUME SameAnswers, CancelOwed, StartOwed,
         Live' => Live, search' = search, deaths' = deaths,
         \A d \in Calls : call[d].pc \in Owing => call'[d] = call[d]
  PROVE  CancelOwed' /\ StartOwed'
<1>1. /\ AllRejected' = AllRejected
      /\ AllDecided' = AllDecided
      /\ AnyConfirmed' = AnyConfirmed
  BY SameFollows
<1>2. /\ Cancelling # {} => Cancelling' # {}
      /\ Cancelling \cup Starting # {} => (Cancelling \cup Starting)' # {}
  BY OwingKept
<1>3. CancelOwed'
  BY <1>1, <1>2 DEF CancelOwed
<1>4. StartOwed'
  BY <1>1, <1>2 DEF StartOwed
<1> QED BY <1>3, <1>4

\* The bill stays exact in a step that changes no answer and no money.
LEMMA BillKept ==
  ASSUME SameAnswers, BillExact, UNCHANGED money
  PROVE  BillExact'
<1>1. Included(row)' = Included(row)
  BY SameFollows
<1>2. item' = item /\ snapshot' = snapshot /\ bill' = bill
  BY DEF money
<1> QED BY <1>1, <1>2 DEF BillExact

\* saveOrderBilling makes it exact.
LEMMA BillSaved ==
  ASSUME SaveOrderBilling(row')
  PROVE  BillExact'
<1>1. Included(row)' = Included(row')
  BY DEF Included, Billable
<1>2. item' = item /\ bill' = CalculateOrderBilling(snapshot', item, Included(row'))
  BY DEF SaveOrderBilling
<1> QED BY <1>1, <1>2 DEF BillExact

-----------------------------------------------------------------------------

\* The part of TypeOK that the counters make.
CountsOK == /\ asks \in 0 .. MaxAsks
            /\ swaps \in 0 .. MaxSwaps
            /\ deaths \in 0 .. MaxDeaths

\* Initially nobody is asked and nothing is owed.
LEMMA InitIInv == Init => IInv
<1> SUFFICES ASSUME Init PROVE IInv
  OBVIOUS
<1>1. TypeOK
  <2>1. /\ status = "Pending"
        /\ ~byShops /\ byShops \in BOOLEAN
        /\ search \in BOOLEAN
        /\ notify \in BOOLEAN
    BY DEF Init
  <2>2. row \in [Shops -> Row] /\ call \in [Calls -> Call]
    BY FreshType DEF Init
  <2>3. asks \in 0 .. MaxAsks /\ swaps \in 0 .. MaxSwaps /\ deaths \in 0 .. MaxDeaths
    BY BoundsAssumption DEF Init
  <2> QED BY <2>1, <2>2, <2>3 DEF TypeOK
<1>2. \A c \in Calls : call[c].pc = "idle"
  BY DEF Init, Idle
<1>3. ShopKnown
  BY <1>2 DEF ShopKnown
<1>4. \A s \in Shops : /\ ~row[s].rejected
                       /\ ~row[s].confirmed
  BY DEF Init, FreshRow
<1>5. \A s \in Shops : row[s].alerts = 0
  BY DEF Init, FreshRow
<1>6. status = "Pending"
  BY DEF Init
<1>7. CancelOwed /\ StartOwed
  BY <1>6 DEF CancelOwed, StartOwed, Live
<1>8. BillExact
  <2>1. CASE snapshot = NoSnapshot
    BY <2>1 DEF BillExact
  <2>2. CASE snapshot = SnapshotOf(Granted, Item0)
    <3>1. \A s \in Shops : /\ row[s].billable
                           /\ ~row[s].rejected
      BY DEF Init, FreshRow
    <3>2. Included(row) = Lines
      BY <3>1 DEF Included, Billable
    <3>3. item = Item0 /\ bill = Granted
      BY DEF Init
    <3> QED BY <2>2, <3>2, <3>3, GrantedAssumption DEF BillExact
  <2> QED BY <2>1, <2>2 DEF Init
<1> QED BY <1>1, <1>3, <1>4, <1>5, <1>7, <1>8 DEF IInv, PendingUnasked, OneEscalation

\* The parts of TypeOK that a step has to restore.
LEMMA TypeParts ==
  ASSUME status' \in {"Pending", "Accepted", "Preparing", "Gone", "Cancelled"},
         byShops' \in BOOLEAN, search' \in BOOLEAN, notify' \in BOOLEAN,
         row' \in [Shops -> Row], CountsOK', CallsOK'
  PROVE  TypeOK' /\ ShopKnown'
<1> QED BY DEF TypeOK, CountsOK, CallsOK

\* What a decision under the order's lock does to the rows and the bill.
LEMMA DecideStep ==
  ASSUME IInv, NEW s \in Shops, NEW q \in Row, q.alerts <= 1, Decide(s, q)
  PROVE  /\ Live
         /\ row' \in [Shops -> Row]
         /\ \A x \in Shops : row'[x] = IF x = s THEN q ELSE row[x]
         /\ OneEscalation'
         /\ BillExact'
<1>1. Live /\ row' = [row EXCEPT ![s] = q]
  BY DEF Decide
<1>2. BillExact'
  BY BillSaved DEF Decide
<1>3. row \in [Shops -> Row]
  BY DEF IInv, TypeOK
<1>4. /\ row' \in [Shops -> Row]
      /\ \A x \in Shops : row'[x] = IF x = s THEN q ELSE row[x]
  BY <1>1, <1>3
<1>5. OneEscalation'
  BY <1>4 DEF IInv, OneEscalation
<1> QED BY <1>1, <1>2, <1>4, <1>5

\* confirmShopOrder.
LEMMA ConfirmStep ==
  ASSUME IInv, NEW c \in Calls, NEW s \in Shops, Confirm(c, s)
  PROVE  IInv'
<1> DEFINE q == Confirmed(row[s])
<1>1. row[s] \in Row /\ row[s].alerts <= 1 /\ ~row[s].rejected
  BY DEF IInv, TypeOK, OneEscalation, Confirm
<1>2. q \in Row /\ ~q.rejected /\ q.alerts <= 1
  BY <1>1, ConfirmedRow
<1>3. Decide(s, q)
  BY DEF Confirm
<1> HIDE DEF q
<1>4. /\ row' \in [Shops -> Row]
      /\ \A x \in Shops : row'[x] = IF x = s THEN q ELSE row[x]
      /\ OneEscalation' /\ BillExact'
  BY <1>2, <1>3, DecideStep
<1>5. CallsOK' /\ call'[c].pc = "load"
  <2>1. Start(c, "load", NoShop) /\ CallsOK
    BY DEF Confirm, IInv, TypeOK, CallsOK
  <2> QED BY <2>1, StartCalls DEF PC
<1>6. /\ status' = "Preparing" /\ byShops' = byShops /\ search' = search
      /\ notify' = notify /\ asks' = asks /\ swaps' = swaps /\ deaths' = deaths
  BY DEF Confirm, rest
<1>7. TypeOK' /\ ShopKnown'
  BY <1>4, <1>5, <1>6, TypeParts DEF IInv, TypeOK, CountsOK
<1>8. PendingUnasked'
  BY <1>6 DEF PendingUnasked
<1>9. CancelOwed'
  BY <1>2, <1>4 DEF CancelOwed, AllRejected
<1>10. StartOwed'
  BY <1>5 DEF StartOwed, Starting
<1> QED BY <1>4, <1>7, <1>8, <1>9, <1>10 DEF IInv

\* rejectShopOrder, by a request or for a shop that timed out: the call goes
\* on to maybeAutoCancelOrderWhenAllShopsRejected.
LEMMA RejectStep ==
  ASSUME IInv, NEW c \in Calls, NEW s \in Shops, RejectUnchecked(s),
         CallsOK', call'[c].pc = "order"
  PROVE  IInv'
<1> DEFINE q == Rejected(row[s])
<1>1. row[s] \in Row /\ row[s].alerts <= 1
  BY DEF IInv, TypeOK, OneEscalation
<1>2. q \in Row /\ q.alerts <= 1
  BY <1>1, RejectedRow
<1>3. Decide(s, q)
  BY DEF RejectUnchecked
<1> HIDE DEF q
<1>4. /\ Live
      /\ row' \in [Shops -> Row]
      /\ OneEscalation' /\ BillExact'
  BY <1>2, <1>3, DecideStep
<1>6. /\ status' = status /\ byShops' = byShops /\ search' = search
      /\ notify' = notify /\ asks' = asks /\ swaps' = swaps /\ deaths' = deaths
  BY DEF RejectUnchecked, order, rest
<1>7. TypeOK' /\ ShopKnown'
  BY <1>4, <1>6, TypeParts DEF IInv, TypeOK, CountsOK
<1>8. PendingUnasked'
  BY <1>4, <1>6 DEF PendingUnasked, Live
<1>9. CancelOwed' /\ StartOwed'
  BY DEF CancelOwed, StartOwed, Cancelling
<1> QED BY <1>4, <1>7, <1>8, <1>9 DEF IInv

\* resendShopOrder: the shop is undecided again, so nothing is owed.
LEMMA ResendStep ==
  ASSUME IInv, NEW s \in Shops, Resend(s)
  PROVE  IInv'
<1> DEFINE q == Asked(row[s])
<1>1. row[s] \in Row
  BY DEF IInv, TypeOK
<1>2. q \in Row /\ q.alerts = 0 /\ ~q.rejected /\ ~q.confirmed
  BY <1>1, AskedRow
<1>3. Decide(s, q)
  BY DEF Resend
<1> HIDE DEF q
<1>4. /\ Live
      /\ row' \in [Shops -> Row]
      /\ \A x \in Shops : row'[x] = IF x = s THEN q ELSE row[x]
      /\ OneEscalation' /\ BillExact'
  BY <1>2, <1>3, DecideStep
<1>5. /\ status' = status /\ byShops' = byShops /\ search' = search /\ call' = call
      /\ notify' = notify /\ swaps' = swaps /\ deaths' = deaths
  BY DEF Resend, order
<1>6. asks' \in 0 .. MaxAsks
  BY BoundsAssumption DEF Resend, IInv, TypeOK
<1>7. TypeOK' /\ ShopKnown'
  <2>1. CallsOK'
    BY <1>5 DEF IInv, TypeOK, CallsOK, ShopKnown
  <2>2. CountsOK'
    BY <1>5, <1>6 DEF IInv, TypeOK, CountsOK
  <2> QED BY <1>4, <1>5, <2>1, <2>2, TypeParts DEF IInv, TypeOK
<1>8. PendingUnasked'
  BY <1>4, <1>5 DEF PendingUnasked, Live
<1>9. CancelOwed' /\ StartOwed'
  BY <1>2, <1>4 DEF CancelOwed, StartOwed, AllRejected, AllDecided, Decided
<1> QED BY <1>4, <1>7, <1>8, <1>9 DEF IInv

\* A step that changes no answer, no status and no money, made by a call that
\* owes nothing or by none.
LEMMA QuietStep ==
  ASSUME IInv, SameAnswers, OneEscalation', UNCHANGED <<order, money, asks, swaps, deaths>>,
         notify' \in BOOLEAN, CallsOK',
         \A d \in Calls : call[d].pc \in Owing => call'[d] = call[d]
  PROVE  IInv'
<1>1. /\ status' = status /\ byShops' = byShops /\ search' = search
      /\ asks' = asks /\ swaps' = swaps /\ deaths' = deaths
  BY DEF order
<1>2. TypeOK' /\ ShopKnown'
  <2>1. CountsOK'
    BY <1>1 DEF IInv, TypeOK, CountsOK
  <2> QED BY <1>1, <2>1, TypeParts DEF IInv, TypeOK, SameAnswers
<1>3. PendingUnasked'
  BY <1>1 DEF IInv, PendingUnasked, SameAnswers
<1>4. CancelOwed' /\ StartOwed'
  BY <1>1, OwedKept DEF IInv, Live
<1>5. BillExact'
  BY BillKept DEF IInv
<1> QED BY <1>2, <1>3, <1>4, <1>5 DEF IInv

\* A call that owes nothing starts, moves or ends without changing an answer:
\* readyShopOrder and the sweeper's scans and escalations.
LEMMA AsideStep ==
  ASSUME IInv, NEW c \in Calls, NEW s \in Shops,
         \/ ReadyReads(c, s) \/ ReadyStamps(c)
         \/ ScanSilent(c, s) \/ ScanTimedOut(c, s) \/ Escalate(c)
  PROVE  IInv'
<1> USE DEF IInv
<1>0. CallsOK
  BY DEF TypeOK, CallsOK
<1>1. /\ UNCHANGED <<order, money, asks, swaps, deaths>>
      /\ notify' \in BOOLEAN
  <2>1. UNCHANGED <<order, money, rest>>
    BY DEF ReadyReads, ReadyStamps, ScanSilent, ScanTimedOut, Escalate
  <2> QED BY <2>1 DEF rest, TypeOK
<1>2. CASE ReadyReads(c, s) \/ ScanSilent(c, s) \/ ScanTimedOut(c, s)
  <2>1. row' = row
    BY <1>2 DEF ReadyReads, ScanSilent, ScanTimedOut
  <2>2. SameAnswers /\ OneEscalation'
    BY <2>1, KeptRows DEF OneEscalation
  <2>3. \E pc \in {"ready", "claim", "timeout"} : Start(c, pc, s)
    BY <1>2 DEF ReadyReads, ScanSilent, ScanTimedOut
  <2>4. CallsOK' /\ call[c].pc = "idle"
        /\ \A d \in Calls : d # c => call'[d] = call[d]
    <3>1. PICK pc \in {"ready", "claim", "timeout"} : Start(c, pc, s)
      BY <2>3
    <3>2. pc \in PC
      BY DEF PC
    <3> QED BY <1>0, <3>1, <3>2, StartCalls
  <2>5. \A d \in Calls : call[d].pc \in Owing => call'[d] = call[d]
    BY <2>4 DEF Owing
  <2> QED BY <1>1, <2>2, <2>4, <2>5, QuietStep
<1>3. CASE ReadyStamps(c) \/ Escalate(c)
  <2>1. SameAnswers /\ OneEscalation'
    <3>1. CASE Escalate(c)
      BY <3>1, EscalateQuiet
    <3>2. CASE ReadyStamps(c)
      <4>1. SameAnswers
        BY <3>2, ReadyQuiet
      <4>2. \A x \in Shops : row'[x].alerts = row[x].alerts
        <5> DEFINE z == call[c].shop
        <5>1. row' = [row EXCEPT ![z] = [row[z] EXCEPT !.ready = TRUE]] /\ z \in Shops
          BY <3>2 DEF ReadyStamps, At, ShopKnown
        <5>2. row[z] \in Row /\ row \in [Shops -> Row]
          BY <5>1 DEF TypeOK
        <5>3. [row[z] EXCEPT !.ready = TRUE].alerts = row[z].alerts
          BY <5>2 DEF Row
        <5> QED BY <5>1, <5>2, <5>3
      <4> QED BY <4>1, <4>2 DEF OneEscalation
    <3> QED BY <1>3, <3>1, <3>2
  <2>2. Finish(c) /\ call[c].pc \in {"ready", "claim"}
    BY <1>3 DEF ReadyStamps, Escalate, At
  <2>3. CallsOK' /\ \A d \in Calls : d # c => call'[d] = call[d]
    BY <1>0, <2>2, FinishCalls
  <2>4. \A d \in Calls : call[d].pc \in Owing => call'[d] = call[d]
    BY <2>2, <2>3 DEF Owing
  <2> QED BY <1>1, <2>1, <2>3, <2>4, QuietStep
<1> QED BY <1>2, <1>3

\* The late stamp and time.
LEMMA ClockStep ==
  ASSUME IInv, NEW s \in Shops, NotifyStamps \/ Age(s)
  PROVE  IInv'
<1> USE DEF IInv
<1>1. SameAnswers /\ OneEscalation'
  BY NotifyQuiet, AgeQuiet
<1>2. call' = call /\ UNCHANGED <<order, money, asks, swaps, deaths>>
  BY DEF NotifyStamps, Age, rest
<1>3. notify' \in BOOLEAN
  BY DEF NotifyStamps, Age, rest, TypeOK
<1>4. CallsOK' /\ \A d \in Calls : call[d].pc \in Owing => call'[d] = call[d]
  BY <1>2 DEF TypeOK, CallsOK, ShopKnown
<1> QED BY <1>1, <1>2, <1>3, <1>4, QuietStep

\* A call that owes the cancellation or the search does its next statement.
LEMMA FollowUpStep ==
  ASSUME IInv, NEW c \in Calls,
         \/ CancelReadsOrder(c) \/ CancelReadsLines(c) \/ CancelAllRejected(c)
         \/ StartReadsOrder(c) \/ StartReadsItems(c) \/ StartAssignment(c)
  PROVE  IInv'
<1> USE DEF IInv
<1>0. CallsOK
  BY DEF TypeOK, CallsOK
<1>1. row' = row /\ UNCHANGED money
  BY DEF CancelReadsOrder, CancelReadsLines, CancelAllRejected, StartReadsOrder,
         StartReadsItems, StartAssignment
<1>2. SameAnswers /\ OneEscalation' /\ BillExact'
  BY <1>1, KeptRows, BillKept DEF OneEscalation
<1>3. notify' = notify /\ asks' = asks /\ swaps' = swaps /\ deaths' = deaths
  BY DEF CancelReadsOrder, CancelReadsLines, CancelAllRejected, StartReadsOrder,
         StartReadsItems, StartAssignment, rest
<1>4. /\ AllRejected' = AllRejected
      /\ AllDecided' = AllDecided
      /\ AnyConfirmed' = AnyConfirmed
  BY <1>2, SameFollows
<1>5. /\ status' = status \/ status' = "Cancelled"
      /\ byShops' \in BOOLEAN
  <2>1. CASE CancelAllRejected(c)
    <3>1. (status' = "Cancelled" /\ byShops') \/ (status' = status /\ byShops' = byShops)
      BY <2>1 DEF CancelAllRejected
    <3> QED BY <3>1 DEF TypeOK
  <2>2. CASE ~CancelAllRejected(c)
    <3>1. status' = status /\ byShops' = byShops
      BY <2>2 DEF CancelReadsOrder, CancelReadsLines, StartReadsOrder,
                  StartReadsItems, StartAssignment, order
    <3> QED BY <3>1 DEF TypeOK
  <2> QED BY <2>1, <2>2
<1>6. search' \in BOOLEAN /\ (search => search')
  <2>1. CASE StartAssignment(c)
    BY <2>1 DEF StartAssignment, TypeOK
  <2>2. CASE ~StartAssignment(c)
    <3>1. search' = search
      BY <2>2 DEF CancelReadsOrder, CancelReadsLines, CancelAllRejected, StartReadsOrder,
                  StartReadsItems, order
    <3> QED BY <3>1 DEF TypeOK
  <2> QED BY <2>1, <2>2
<1>7. PICK pc \in Plain : Goto(c, pc) \/ (pc = "idle" /\ Finish(c))
  BY DEF CancelReadsOrder, CancelReadsLines, CancelAllRejected, StartReadsOrder,
         StartReadsItems, StartAssignment, Plain
<1>8. /\ CallsOK'
      /\ call'[c].pc = pc
      /\ \A d \in Calls : d # c => call'[d] = call[d]
  BY <1>0, <1>7, GotoCalls, FinishCalls
<1>9. TypeOK' /\ ShopKnown'
  <2>1. CountsOK'
    BY <1>3 DEF TypeOK, CountsOK
  <2>2. row' \in [Shops -> Row] /\ notify' \in BOOLEAN
        /\ status' \in {"Pending", "Accepted", "Preparing", "Gone", "Cancelled"}
    BY <1>1, <1>3, <1>5 DEF TypeOK
  <2> QED BY <1>5, <1>6, <1>8, <2>1, <2>2, TypeParts
<1>10. PendingUnasked'
  BY <1>1, <1>5 DEF PendingUnasked
<1>11. Live' => Live /\ status' = status
  BY <1>5 DEF Live
<1>12. CASE CancelReadsOrder(c) \/ CancelReadsLines(c) \/ CancelAllRejected(c)
  <2>1. ASSUME Live' PROVE call'[c].pc \in {"lines", "cancel", "load"}
    <3>1. CASE CancelReadsOrder(c)
      <4>1. Goto(c, "lines")
        BY <1>11, <2>1, <3>1 DEF CancelReadsOrder
      <4> QED BY <1>0, <4>1, GotoCalls DEF Plain
    <3>2. CASE CancelReadsLines(c)
      <4>1. Goto(c, "cancel") \/ Goto(c, "load")
        BY <3>2 DEF CancelReadsLines
      <4> QED BY <1>0, <4>1, GotoCalls DEF Plain
    <3>3. CASE CancelAllRejected(c)
      <4>1. Goto(c, "load")
        BY <3>3 DEF CancelAllRejected
      <4> QED BY <1>0, <4>1, GotoCalls DEF Plain
    <3> QED BY <1>12, <3>1, <3>2, <3>3
  <2>2. ASSUME Live', AllRejected PROVE call'[c].pc \in {"lines", "cancel"}
    <3>1. CASE CancelReadsOrder(c)
      <4>1. Goto(c, "lines")
        BY <1>11, <2>2, <3>1 DEF CancelReadsOrder
      <4> QED BY <1>0, <4>1, GotoCalls DEF Plain
    <3>2. CASE CancelReadsLines(c)
      <4>1. Goto(c, "cancel")
        BY <2>2, <3>2 DEF CancelReadsLines
      <4> QED BY <1>0, <4>1, GotoCalls DEF Plain
    <3>3. CASE CancelAllRejected(c)
      <4>1. CancelHolds
        BY <1>11, <2>2 DEF CancelHolds
      <4>2. status' = "Cancelled"
        BY <3>3, <4>1 DEF CancelAllRejected
      <4> QED BY <2>2, <4>2 DEF Live
    <3> QED BY <1>12, <3>1, <3>2, <3>3
  <2>3. CancelOwed'
    BY <1>4, <2>2 DEF CancelOwed, Cancelling
  <2>4. StartOwed'
    BY <2>1 DEF StartOwed, Cancelling, Starting
  <2> QED BY <1>2, <1>9, <1>10, <2>3, <2>4
<1>13. CASE StartReadsOrder(c) \/ StartReadsItems(c) \/ StartAssignment(c)
  <2>1. call[c].pc \in {"load", "items", "begin"}
    BY <1>13 DEF StartReadsOrder, StartReadsItems, StartAssignment, At
  <2>2. Cancelling \subseteq Cancelling'
    BY <1>8, <2>1 DEF Cancelling
  <2>3. CancelOwed'
    BY <1>3, <1>4, <1>11, <2>2 DEF CancelOwed
  <2>4. ASSUME Live', AllDecided, AnyConfirmed, ~search'
        PROVE  call'[c].pc \in {"items", "begin"}
    <3>1. CASE StartReadsOrder(c)
      <4>1. status # "Cancelled"
        BY <1>11, <2>4 DEF Live
      <4>2. Goto(c, "items")
        BY <3>1, <4>1 DEF StartReadsOrder
      <4> QED BY <1>0, <4>2, GotoCalls DEF Plain
    <3>2. CASE StartReadsItems(c)
      <4>1. Goto(c, "begin")
        BY <2>4, <3>2 DEF StartReadsItems, MayStart
      <4> QED BY <1>0, <4>1, GotoCalls DEF Plain
    <3>3. CASE StartAssignment(c)
      <4>1. status # "Cancelled" /\ status # "Gone"
        BY <1>11, <2>4 DEF Live
      <4>2. search'
        BY <3>3, <4>1 DEF StartAssignment
      <4> QED BY <2>4, <4>2
    <3> QED BY <1>13, <3>1, <3>2, <3>3
  <2>5. StartOwed'
    BY <1>4, <2>4 DEF StartOwed, Starting
  <2> QED BY <1>2, <1>9, <1>10, <2>3, <2>5
<1> QED BY <1>12, <1>13

\* Reject, and the sweeper's turn at a shop that was silent when it scanned.
LEMMA RejectingStep ==
  ASSUME IInv, NEW c \in Calls, NEW s \in Shops, Reject(c, s) \/ TimeoutReject(c)
  PROVE  IInv'
<1>0. CallsOK
  BY DEF IInv, TypeOK, CallsOK
<1>1. CASE Reject(c, s)
  <2>1. RejectUnchecked(s) /\ Start(c, "order", NoShop)
    BY <1>1 DEF Reject
  <2>2. CallsOK' /\ call'[c].pc = "order"
    BY <1>0, <2>1, StartCalls DEF PC
  <2> QED BY <2>1, <2>2, RejectStep
<1>2. CASE TimeoutReject(c) /\ TimeoutHolds(call[c].shop)
  <2>1. RejectUnchecked(call[c].shop) /\ Goto(c, "order") /\ At(c, "timeout")
    BY <1>2 DEF TimeoutReject
  <2>2. call[c].shop \in Shops
    BY <2>1 DEF IInv, ShopKnown, At
  <2>3. CallsOK' /\ call'[c].pc = "order"
    BY <1>0, <2>1, GotoCalls DEF Plain
  <2> QED BY <2>1, <2>2, <2>3, RejectStep
<1>3. CASE TimeoutReject(c) /\ ~TimeoutHolds(call[c].shop)
  <2>1. Finish(c) /\ UNCHANGED <<order, row, money, rest>> /\ call[c].pc = "timeout"
    BY <1>3 DEF TimeoutReject, At
  <2>2. SameAnswers /\ OneEscalation'
    BY <2>1, KeptRows DEF IInv, OneEscalation
  <2>3. CallsOK' /\ \A d \in Calls : d # c => call'[d] = call[d]
    BY <1>0, <2>1, FinishCalls
  <2>4. \A d \in Calls : call[d].pc \in Owing => call'[d] = call[d]
    BY <2>1, <2>3 DEF Owing
  <2>5. UNCHANGED <<order, money, asks, swaps, deaths>> /\ notify' \in BOOLEAN
    BY <2>1 DEF rest, IInv, TypeOK
  <2> QED BY <2>2, <2>3, <2>4, <2>5, QuietStep
<1> QED BY <1>1, <1>2, <1>3

\* The order moves around its shops: it is accepted, or ends.
LEMMA OrderStep ==
  ASSUME IInv, Accept \/ (\E to \in {"Gone", "Cancelled"} : End(to))
  PROVE  IInv'
<1> USE DEF IInv
<1>1. /\ row' = row /\ call' = call /\ search' = search /\ UNCHANGED money
      /\ asks' = asks /\ swaps' = swaps /\ deaths' = deaths
  BY DEF Accept, End, rest
<1>2. /\ status' \in {"Accepted", "Gone", "Cancelled"}
      /\ byShops' \in BOOLEAN /\ notify' \in BOOLEAN
  <2>1. CASE Accept
    BY <2>1 DEF Accept, TypeOK
  <2>2. CASE \E to \in {"Gone", "Cancelled"} : End(to)
    BY <2>2 DEF End, rest, TypeOK
  <2> QED BY <2>1, <2>2
<1>3. SameAnswers /\ OneEscalation' /\ BillExact'
  BY <1>1, KeptRows, BillKept DEF OneEscalation
<1>4. TypeOK' /\ ShopKnown'
  <2>1. CallsOK' /\ CountsOK'
    BY <1>1 DEF TypeOK, CallsOK, CountsOK, ShopKnown
  <2> QED BY <1>1, <1>2, <2>1, TypeParts DEF TypeOK
<1>5. PendingUnasked'
  BY <1>2 DEF PendingUnasked
<1>6. Live' => \E s \in Shops : ~row'[s].rejected /\ ~row'[s].confirmed
  <2>1. CASE Accept
    BY <1>1, <2>1, ShopsAssumption DEF Accept, PendingUnasked
  <2>2. CASE \E to \in {"Gone", "Cancelled"} : End(to)
    BY <2>2 DEF End, Live
  <2> QED BY <2>1, <2>2
<1>7. CancelOwed' /\ StartOwed'
  BY <1>6 DEF CancelOwed, StartOwed, AllRejected, AllDecided, Decided
<1> QED BY <1>3, <1>4, <1>5, <1>7

\* An admin brings the order back.
LEMMA ReopenStep ==
  ASSUME IInv, Reopen
  PROVE  IInv'
<1> USE DEF IInv
<1>1. /\ status' = "Pending" /\ ~byShops' /\ ~search'
      /\ row' = Reopened /\ SaveOrderBilling(row')
      /\ call' = call /\ notify' = notify /\ swaps' = swaps /\ deaths' = deaths
  BY DEF Reopen
<1>2. byShops' \in BOOLEAN /\ search' \in BOOLEAN
  BY DEF Reopen
<1>3. asks' \in 0 .. MaxAsks
  BY BoundsAssumption DEF Reopen, TypeOK
<1>4. row' \in [Shops -> Row]
  BY <1>1, FreshType DEF Reopened
<1>5. \A s \in Shops : /\ ~row'[s].rejected
                       /\ ~row'[s].confirmed
                       /\ row'[s].alerts = 0
  BY <1>1 DEF Reopened, FreshRow
<1>6. TypeOK' /\ ShopKnown'
  <2>1. CallsOK'
    BY <1>1 DEF TypeOK, CallsOK, ShopKnown
  <2>2. CountsOK'
    BY <1>1, <1>3 DEF TypeOK, CountsOK
  <2>3. notify' \in BOOLEAN
    BY <1>1 DEF TypeOK
  <2> QED BY <1>1, <1>2, <1>4, <2>1, <2>2, <2>3, TypeParts
<1>7. PendingUnasked'
  BY <1>5 DEF PendingUnasked
<1>8. OneEscalation'
  BY <1>5 DEF OneEscalation
<1>9. CancelOwed' /\ StartOwed'
  BY <1>1 DEF CancelOwed, StartOwed, Live
<1> QED BY <1>1, <1>6, <1>7, <1>8, <1>9, BillSaved

\* An admin swaps a line.
LEMMA ReplaceStep ==
  ASSUME IInv, NEW l \in Lines, NEW p \in Swaps, ReplaceItem(l, p)
  PROVE  IInv'
<1> USE DEF IInv
<1>1. UNCHANGED <<order, row, notify, asks, deaths, call>>
  BY DEF ReplaceItem
<1>2. /\ status' = status /\ byShops' = byShops /\ search' = search /\ row' = row
      /\ notify' = notify /\ asks' = asks /\ deaths' = deaths /\ call' = call
  BY <1>1 DEF order
<1>3. swaps' \in 0 .. MaxSwaps
  BY BoundsAssumption DEF ReplaceItem, TypeOK
<1>4. SameAnswers /\ OneEscalation'
  BY <1>2, KeptRows DEF OneEscalation
<1>5. TypeOK' /\ ShopKnown'
  <2>1. CallsOK'
    BY <1>2 DEF TypeOK, CallsOK, ShopKnown
  <2>2. CountsOK'
    BY <1>2, <1>3 DEF TypeOK, CountsOK
  <2> QED BY <1>2, <2>1, <2>2, TypeParts DEF TypeOK
<1>6. PendingUnasked'
  BY <1>2 DEF PendingUnasked
<1>7. CancelOwed' /\ StartOwed'
  BY <1>2, <1>4, OwedKept DEF Live
<1>8. BillExact'
  <2>1. Included(row)' = Included(row)
    BY <1>4, SameFollows
  <2>2. CASE snapshot = NoSnapshot /\ Billable(row, l)
    <3>1. snapshot' = snapshot
      BY <2>2 DEF ReplaceItem
    <3> QED BY <2>2, <3>1 DEF BillExact
  <2>3. CASE ~(snapshot = NoSnapshot /\ Billable(row, l))
    <3>1. bill' = CalculateOrderBilling(snapshot', item', Included(row))
      BY <2>3 DEF ReplaceItem
    <3> QED BY <2>1, <3>1 DEF BillExact
  <2> QED BY <2>2, <2>3
<1> QED BY <1>4, <1>5, <1>6, <1>7, <1>8

\* A call dies.
LEMMA DieStep ==
  ASSUME IInv, NEW c \in Calls, Die(c)
  PROVE  IInv'
<1> USE DEF IInv
<1>1. Finish(c) /\ UNCHANGED <<order, row, money, notify, asks, swaps>>
  BY DEF Die
<1>2. /\ status' = status /\ byShops' = byShops /\ search' = search /\ row' = row
      /\ notify' = notify /\ asks' = asks /\ swaps' = swaps
  BY <1>1 DEF order
<1>3. deaths' \in 0 .. MaxDeaths /\ deaths' # 0
  BY BoundsAssumption DEF Die, TypeOK
<1>4. SameAnswers /\ OneEscalation' /\ BillExact'
  BY <1>1, KeptRows, BillKept DEF OneEscalation
<1>5. TypeOK' /\ ShopKnown'
  <2>1. CallsOK'
    BY <1>1, FinishCalls DEF TypeOK, CallsOK
  <2>2. CountsOK'
    BY <1>2, <1>3 DEF TypeOK, CountsOK
  <2> QED BY <1>2, <2>1, <2>2, TypeParts DEF TypeOK
<1>6. PendingUnasked'
  BY <1>2 DEF PendingUnasked
<1>7. CancelOwed' /\ StartOwed'
  BY <1>3 DEF CancelOwed, StartOwed
<1> QED BY <1>4, <1>5, <1>6, <1>7

\* Every step keeps the inductive invariant.
LEMMA StepIInv == IInv /\ [Next]_vars => IInv'
<1> SUFFICES ASSUME IInv, [Next]_vars PROVE IInv'
  OBVIOUS
<1>1. CASE Next
  <2>1. ASSUME NEW c \in Calls, CallStep(c) PROVE IInv'
    <3>1. PICK s : s \in Shops
      BY ShopsAssumption
    <3> QED BY <2>1, <3>1, FollowUpStep, AsideStep, RejectingStep DEF CallStep
  <2>2. ASSUME NEW c \in Calls, Die(c) PROVE IInv'
    BY <2>2, DieStep
  <2>3. ASSUME NEW c \in Calls, NEW s \in Shops,
               \/ Confirm(c, s) \/ Reject(c, s) \/ ReadyReads(c, s)
               \/ ScanSilent(c, s) \/ ScanTimedOut(c, s)
        PROVE  IInv'
    BY <2>3, ConfirmStep, RejectingStep, AsideStep
  <2>4. ASSUME NEW s \in Shops, Resend(s) \/ Age(s) PROVE IInv'
    BY <2>4, ResendStep, ClockStep
  <2>5. CASE Accept \/ (\E to \in {"Gone", "Cancelled"} : End(to))
    BY <2>5, OrderStep
  <2>6. CASE NotifyStamps
    <3>1. PICK s : s \in Shops
      BY ShopsAssumption
    <3> QED BY <2>6, <3>1, ClockStep
  <2>7. CASE Reopen
    BY <2>7, ReopenStep
  <2>8. ASSUME NEW l \in Lines, NEW p \in Swaps, ReplaceItem(l, p) PROVE IInv'
    BY <2>8, ReplaceStep
  <2> QED BY <1>1, <2>1, <2>2, <2>3, <2>4, <2>5, <2>6, <2>7, <2>8 DEF Next
<1>2. CASE UNCHANGED vars
  <2>1. /\ UNCHANGED <<order, money, asks, swaps, deaths>> /\ call' = call /\ row' = row
        /\ notify' = notify
    BY <1>2 DEF vars, rest
  <2>2. SameAnswers /\ OneEscalation'
    BY <2>1, KeptRows DEF IInv, OneEscalation
  <2>3. CallsOK' /\ notify' \in BOOLEAN
    BY <2>1 DEF IInv, TypeOK, CallsOK, ShopKnown
  <2> QED BY <2>1, <2>2, <2>3, QuietStep
<1> QED BY <1>1, <1>2

\* The inductive invariant holds in every state of every run.
THEOREM ShopInvariant == Spec => []IInv
<1> QED BY InitIInv, StepIInv, PTL DEF Spec

\* Types hold.
THEOREM ShopTypes == Spec => []TypeOK
<1>1. IInv => TypeOK
  BY DEF IInv
<1> QED BY <1>1, ShopInvariant, PTL

\* An order that every shop refused has its cancellation on the way, whatever
\* the number of shops and of concurrent calls (CancelOwed).
THEOREM RefusedIsCancelled == Spec => []CancelOwed
<1>1. IInv => CancelOwed
  BY DEF IInv
<1> QED BY <1>1, ShopInvariant, PTL

\* An order all of whose shops answered, one with a yes, has its search begun
\* or on the way (StartOwed).
THEOREM AnsweredIsStarted == Spec => []StartOwed
<1>1. IInv => StartOwed
  BY DEF IInv
<1> QED BY <1>1, ShopInvariant, PTL

\* One alert for each time a shop is asked, by any number of instances.
THEOREM AlertedOnce == Spec => []OneEscalation
<1>1. IInv => OneEscalation
  BY DEF IInv
<1> QED BY <1>1, ShopInvariant, PTL

\* The stored bill is the computed one, for any lines, prices and grant.
THEOREM BillStaysExact == Spec => []BillExact
<1>1. IInv => BillExact
  BY DEF IInv
<1> QED BY <1>1, ShopInvariant, PTL

-----------------------------------------------------------------------------
(***************************************************************************)
(* The sweeper's rejections.                                               *)
(***************************************************************************)

Spares(w, s) ==
  (At(w, "timeout") /\ call'[w].pc = "order" /\ row'[s] # row[s])
    => Undecided(row[s]) /\ row[s].age = 2

\* A step that leaves a call where it was is not its rejection; nor is one
\* that ends or starts another call.
LEMMA OtherCallSpares ==
  ASSUME TypeOK, NEW w \in Calls, NEW s \in Shops,
         \/ call' = call
         \/ \E c \in Calls : Finish(c)
         \/ \E c \in Calls, pc \in PC, x \in Shops \cup {NoShop} : Start(c, pc, x)
         \/ \E c \in Calls, pc \in PC : Goto(c, pc) /\ ~At(c, "timeout")
  PROVE  Spares(w, s)
<1> SUFFICES ASSUME call[w].pc = "timeout" PROVE call'[w].pc # "order"
  BY DEF Spares, At
<1>1. CASE call' = call
  BY <1>1
<1>2. ASSUME NEW c \in Calls, Finish(c) PROVE call'[w].pc # "order"
  BY <1>2 DEF Finish, Idle, TypeOK
<1>3. ASSUME NEW c \in Calls, NEW pc \in PC, NEW x \in Shops \cup {NoShop}, Start(c, pc, x)
      PROVE  call'[w].pc # "order"
  <2>1. c # w
    BY <1>3 DEF Start, At
  <2> QED BY <1>3, <2>1 DEF Start, TypeOK
<1>4. ASSUME NEW c \in Calls, NEW pc \in PC, Goto(c, pc), ~At(c, "timeout")
      PROVE  call'[w].pc # "order"
  <2>1. c # w
    BY <1>4 DEF At
  <2> QED BY <1>4, <2>1 DEF Goto, TypeOK
<1> QED BY <1>1, <1>2, <1>3, <1>4

\* The rejection itself is of a shop found silent again under the lock.
LEMMA TimeoutSpares ==
  ASSUME TypeOK, NEW w \in Calls, NEW s \in Shops, NEW c \in Calls, TimeoutReject(c)
  PROVE  Spares(w, s)
<1>1. CASE ~TimeoutHolds(call[c].shop)
  BY <1>1, OtherCallSpares DEF TimeoutReject
<1>2. CASE TimeoutHolds(call[c].shop)
  <2>1. row' = [row EXCEPT ![call[c].shop] = Rejected(row[call[c].shop])]
    BY <1>2 DEF TimeoutReject, RejectUnchecked, Decide
  <2>2. row'[s] # row[s] => s = call[c].shop
    BY <2>1 DEF TypeOK
  <2> QED BY <1>2, <2>2 DEF Spares, TimeoutHolds, TimedOut
<1> QED BY <1>1, <1>2

\* No step breaks it.
LEMMA StepSpares ==
  ASSUME TypeOK, [Next]_vars, NEW w \in Calls, NEW s \in Shops
  PROVE  Spares(w, s)
<1> USE DEF PC
<1>1. ASSUME NEW c \in Calls, CallStep(c) PROVE Spares(w, s)
  <2>1. CASE TimeoutReject(c)
    BY <2>1, TimeoutSpares
  <2>2. CASE CancelReadsOrder(c)
    BY <2>2, OtherCallSpares DEF CancelReadsOrder, At
  <2>3. CASE CancelReadsLines(c)
    BY <2>3, OtherCallSpares DEF CancelReadsLines, At
  <2>4. CASE CancelAllRejected(c)
    BY <2>4, OtherCallSpares DEF CancelAllRejected, At
  <2>5. CASE StartReadsOrder(c)
    BY <2>5, OtherCallSpares DEF StartReadsOrder, At
  <2>6. CASE StartReadsItems(c)
    BY <2>6, OtherCallSpares DEF StartReadsItems, At
  <2>7. CASE StartAssignment(c) \/ ReadyStamps(c) \/ Escalate(c)
    BY <2>7, OtherCallSpares DEF StartAssignment, ReadyStamps, Escalate
  <2> QED BY <1>1, <2>1, <2>2, <2>3, <2>4, <2>5, <2>6, <2>7 DEF CallStep
<1>2. ASSUME NEW c \in Calls, Die(c) PROVE Spares(w, s)
  BY <1>2, OtherCallSpares DEF Die
<1>3. ASSUME NEW c \in Calls, NEW x \in Shops,
             \/ Confirm(c, x) \/ Reject(c, x) \/ ReadyReads(c, x)
             \/ ScanSilent(c, x) \/ ScanTimedOut(c, x)
      PROVE  Spares(w, s)
  BY <1>3, OtherCallSpares DEF Confirm, Reject, ReadyReads, ScanSilent, ScanTimedOut
<1>4. ASSUME NEW x \in Shops, Resend(x) \/ Age(x) PROVE Spares(w, s)
  BY <1>4, OtherCallSpares DEF Resend, Age
<1>5. ASSUME NEW to, End(to) PROVE Spares(w, s)
  BY <1>5, OtherCallSpares DEF End
<1>6. ASSUME NEW l, NEW p, ReplaceItem(l, p) PROVE Spares(w, s)
  <2>1. call' = call
    BY <1>6 DEF ReplaceItem
  <2> QED BY <2>1, OtherCallSpares
<1>7. CASE Accept
  BY <1>7, OtherCallSpares DEF Accept
<1>8. CASE NotifyStamps
  BY <1>8, OtherCallSpares DEF NotifyStamps
<1>9. CASE Reopen
  BY <1>9, OtherCallSpares DEF Reopen
<1>10. CASE UNCHANGED vars
  BY <1>10, OtherCallSpares DEF vars
<1> QED BY <1>1, <1>2, <1>3, <1>4, <1>5, <1>6, <1>7, <1>8, <1>9, <1>10 DEF Next

\* However many instances sweep, a shop is rejected for its silence only while
\* it is silent (SweeperSparesAnswers).
THEOREM SilenceOnlyRejected == Spec => SweeperSparesAnswers
<1>1. TypeOK /\ [Next]_vars => [\A w \in Sweepers, s \in Shops : Spares(w, s)]_vars
  BY StepSpares DEF Calls
<1>2. [\A w \in Sweepers, s \in Shops : Spares(w, s)]_vars
        <=> [\A w \in Sweepers, s \in Shops :
               (At(w, "timeout") /\ call'[w].pc = "order" /\ row'[s] # row[s])
                 => Undecided(row[s]) /\ row[s].age = 2]_vars
  BY DEF Spares
<1> QED BY <1>1, <1>2, ShopTypes, PTL DEF Spec, SweeperSparesAnswers

-----------------------------------------------------------------------------
(***************************************************************************)
(* The promotion.  Until the order has a snapshot its bill is the one that *)
(* createOrder granted, but for the items swapped; the snapshot, once      *)
(* taken, is of that grant and of the lines at their present prices.       *)
(***************************************************************************)

Money == [subtotal : Int, deal : Int, waiver : Int, charges : Int, discount : Int, total : Int]

GrantOn(items) ==
  [couponBasis |-> Basis(items, Lines), couponItems |-> GrantedCoupon,
   waiver |-> Granted.waiver, charges |-> Granted.charges]

Ungranted(b) ==
  /\ b.waiver = Granted.waiver /\ b.charges = Granted.charges
  /\ b.discount - b.deal = Granted.discount - Granted.deal

MoneyInv ==
  /\ item \in [Lines -> BilledLine]
  /\ bill \in Money
  /\ snapshot = NoSnapshot => Ungranted(bill)
  /\ snapshot # NoSnapshot => snapshot = GrantOn(item)

\* The coupon granted is no negative amount.
LEMMA GrantedCouponType ==
  /\ GrantedCoupon \in Nat /\ Granted.waiver \in Nat /\ Granted.charges \in Nat
  /\ Granted.discount \in Nat /\ Granted.deal \in Nat
<1> DEFINE s == SnapshotOf(Granted, Item0)
<1>1. /\ Granted.discount \in Nat /\ Granted.deal \in Nat /\ Granted.waiver \in Nat
      /\ Granted.charges \in Nat
  BY OrderAssumption
<1>2. /\ s.couponBasis = Basis(Item0, Lines)
      /\ s.couponItems = Greatest(0, Granted.discount - Granted.deal - Granted.waiver)
      /\ s.waiver = Granted.waiver /\ s.charges = Granted.charges
  BY OrderAssumption DEF SnapshotOf
<1>3. s.couponItems \in Nat
  BY <1>1, <1>2 DEF Greatest
<1>4. Granted = CalculateOrderBilling(s, Item0, Lines)
  BY GrantedAssumption
<1>5. Basis(Item0, Lines) \in Nat
  BY OrderAssumption, LinesAmount
<1> HIDE DEF s
<1>6. Granted.discount - Granted.deal = s.waiver + Least(Basis(Item0, Lines), s.couponItems)
  BY OrderAssumption, <1>1, <1>2, <1>3, <1>4, BillOf
<1> QED BY <1>1, <1>2, <1>3, <1>5, <1>6 DEF GrantedCoupon, Least

\* A snapshot taken late is of the grant all the same.
LEMMA LateSnapshot ==
  ASSUME NEW b \in Money, NEW items \in [Lines -> BilledLine], Ungranted(b)
  PROVE  SnapshotOf(b, items) = GrantOn(items)
<1>1. b.discount - b.deal - b.waiver = GrantedCoupon
  BY GrantedCouponType DEF Ungranted, GrantedCoupon
<1>2. Greatest(0, GrantedCoupon) = GrantedCoupon
  BY GrantedCouponType DEF Greatest
<1>3. DOMAIN items = Lines
  OBVIOUS
<1> QED BY <1>1, <1>2, <1>3 DEF SnapshotOf, GrantOn, Ungranted

\* A snapshot of the grant is a snapshot, and what it bills is an amount.
LEMMA GrantBills ==
  ASSUME NEW items \in [Lines -> BilledLine], NEW S \in SUBSET Lines
  PROVE  /\ GrantOn(items) # NoSnapshot
         /\ CalculateOrderBilling(GrantOn(items), items, S) \in Money
<1> DEFINE g == GrantOn(items)
<1>1. /\ g.couponBasis = Basis(items, Lines) /\ g.couponItems = GrantedCoupon
      /\ g.waiver = Granted.waiver /\ g.charges = Granted.charges
  BY DEF GrantOn
<1>2. Basis(items, Lines) \in Nat
  BY OrderAssumption, LinesAmount
<1>3. NoSnapshot.couponBasis = -1
  BY DEF NoSnapshot
<1>4. g # NoSnapshot
  BY <1>1, <1>2, <1>3
<1> HIDE DEF g
<1>5. CalculateOrderBilling(g, items, S)
        \in [subtotal : Nat, deal : Nat, waiver : Nat, charges : Nat, discount : Nat, total : Nat]
  BY <1>1, OrderAssumption, GrantedCouponType, BillOf
<1>6. CalculateOrderBilling(g, items, S) \in Money
  BY <1>5 DEF Money
<1> QED BY <1>4, <1>6 DEF g

\* The order as created.
LEMMA InitMoney == Init => MoneyInv
<1> SUFFICES ASSUME Init PROVE MoneyInv
  OBVIOUS
<1>1. item \in [Lines -> BilledLine] /\ bill \in Money /\ Ungranted(bill)
  BY OrderAssumption DEF Init, Money, Ungranted
<1>2. snapshot # NoSnapshot => snapshot = GrantOn(item)
  BY <1>1, LateSnapshot DEF Init
<1> QED BY <1>1, <1>2 DEF MoneyInv

\* Saving the bill after a decision,
LEMMA SavedMoney ==
  ASSUME MoneyInv, NEW rows, SaveOrderBilling(rows)
  PROVE  MoneyInv'
<1>1. item' = item /\ snapshot' = GrantOn(item)
  BY LateSnapshot DEF SaveOrderBilling, MoneyInv
<1>2. bill' = CalculateOrderBilling(GrantOn(item), item, Included(rows))
  BY <1>1 DEF SaveOrderBilling
<1>3. Included(rows) \in SUBSET Lines
  BY DEF Included
<1>4. bill' \in Money /\ snapshot' # NoSnapshot
  BY <1>1, <1>2, <1>3, GrantBills DEF MoneyInv
<1> QED BY <1>1, <1>4 DEF MoneyInv, GrantOn

\* and swapping an item.
LEMMA ReplacedMoney ==
  ASSUME MoneyInv, NEW l \in Lines, NEW p \in Swaps, ReplaceItem(l, p)
  PROVE  MoneyInv'
<1> DEFINE newItem == [item EXCEPT ![l].unit = p.unit, ![l].deal = p.deal]
<1> DEFINE change  == DealSaving(newItem[l]) - DealSaving(item[l])
<1> DEFINE edited  == [bill EXCEPT !.discount = @ + change, !.deal = @ + change]
<1> DEFINE granted == IF snapshot = NoSnapshot THEN SnapshotOf(edited, newItem) ELSE snapshot
<1> DEFINE based   == [granted EXCEPT !.couponBasis = Basis(newItem, Lines)]
<1>1. newItem \in [Lines -> BilledLine] /\ item' = newItem
  <2>1. p.unit \in Nat /\ p.deal \in Nat
    BY SwapsAssumption
  <2>2. newItem = [item EXCEPT ![l] = [item[l] EXCEPT !.unit = p.unit, !.deal = p.deal]]
    BY DEF MoneyInv
  <2>3. [item[l] EXCEPT !.unit = p.unit, !.deal = p.deal] \in BilledLine
    BY <2>1 DEF MoneyInv, BilledLine
  <2>4. item' = newItem
    BY DEF ReplaceItem
  <2> HIDE DEF newItem
  <2> QED BY <2>2, <2>3, <2>4 DEF MoneyInv
<1> HIDE DEF newItem
<1>2. change \in Int
  BY <1>1, LineAmounts DEF MoneyInv
<1> HIDE DEF change
<1>3. /\ edited \in Money /\ edited.waiver = bill.waiver /\ edited.charges = bill.charges
      /\ edited.discount - edited.deal = bill.discount - bill.deal
      /\ edited.discount \in Int
  <2>1. bill \in Money /\ bill.discount \in Int /\ bill.deal \in Int
    BY DEF MoneyInv, Money
  <2>2. edited.discount = bill.discount + change /\ edited.deal = bill.deal + change
        /\ edited.waiver = bill.waiver /\ edited.charges = bill.charges
    BY <2>1 DEF Money
  <2>3. edited \in Money
    <3> DEFINE first == [bill EXCEPT !.discount = bill.discount + change]
    <3>1. bill.discount + change \in Int /\ bill.deal + change \in Int
      BY <1>2, <2>1
    <3>2. first \in Money /\ first.deal = bill.deal
      BY <2>1, <3>1 DEF Money
    <3>3. edited = [first EXCEPT !.deal = bill.deal + change]
      BY <2>1 DEF Money
    <3> HIDE DEF first, edited
    <3> QED BY <3>1, <3>2, <3>3 DEF Money
  <2> HIDE DEF edited
  <2> QED BY <1>2, <2>1, <2>2, <2>3
<1>4. snapshot = NoSnapshot => Ungranted(edited)
  BY <1>3 DEF MoneyInv, Ungranted
<1> HIDE DEF edited
<1>5. based = GrantOn(newItem)
  BY <1>1, <1>3, <1>4, LateSnapshot DEF MoneyInv, GrantOn
<1> HIDE DEF based
<1>6. CASE snapshot = NoSnapshot /\ Billable(row, l)
  <2> DEFINE subtotal == Subtotal(newItem, Lines)
  <2>1. /\ snapshot' = snapshot
        /\ bill' = [edited EXCEPT !.subtotal = subtotal,
                      !.total = Greatest(0, subtotal + bill.charges - edited.discount)]
    BY <1>6 DEF ReplaceItem, edited, change, newItem
  <2>2. subtotal \in Int /\ bill.charges \in Int
    BY <1>1, OrderAssumption, LinesAmount DEF MoneyInv, Money
  <2> HIDE DEF subtotal
  <2>3. Greatest(0, subtotal + bill.charges - edited.discount) \in Int
    BY <1>3, <2>2 DEF Greatest
  <2>4. bill' \in Money /\ Ungranted(bill')
    BY <1>3, <1>4, <1>6, <2>1, <2>2, <2>3 DEF Money, Ungranted
  <2> QED BY <1>1, <1>6, <2>1, <2>4 DEF MoneyInv, Ungranted
<1>7. CASE ~ (snapshot = NoSnapshot /\ Billable(row, l))
  <2>1. snapshot' = based /\ bill' = CalculateOrderBilling(based, newItem, Included(row))
    BY <1>7 DEF ReplaceItem, based, granted, edited, change, newItem
  <2>2. Included(row) \in SUBSET Lines
    BY DEF Included
  <2>3. bill' \in Money /\ snapshot' # NoSnapshot
    BY <1>1, <1>5, <2>1, <2>2, GrantBills
  <2> QED BY <1>1, <1>5, <2>1, <2>3 DEF MoneyInv, GrantOn
<1> QED BY <1>6, <1>7

\* Every step saves the bill, swaps an item or leaves the money alone.
LEMMA StepMoney == MoneyInv /\ [Next]_vars => MoneyInv'
<1> SUFFICES ASSUME MoneyInv, Next \/ UNCHANGED vars PROVE MoneyInv'
  OBVIOUS
<1>1. UNCHANGED money => MoneyInv'
  BY DEF money, MoneyInv, GrantOn, Ungranted
<1>2. ASSUME NEW s, RejectUnchecked(s) PROVE MoneyInv'
  BY <1>2, SavedMoney DEF RejectUnchecked, Decide
<1>3. ASSUME NEW c \in Calls, CallStep(c) PROVE MoneyInv'
  <2>1. CASE TimeoutReject(c)
    BY <1>1, <1>2, <2>1 DEF TimeoutReject
  <2>2. CASE ~ TimeoutReject(c)
    <3>1. UNCHANGED money
      BY <1>3, <2>2 DEF CallStep, CancelReadsOrder, CancelReadsLines, CancelAllRejected,
           StartReadsOrder, StartReadsItems, StartAssignment, ReadyStamps, Escalate
    <3> QED BY <1>1, <3>1
  <2> QED BY <2>1, <2>2
<1>4. ASSUME NEW c \in Calls, Die(c) PROVE MoneyInv'
  BY <1>1, <1>4 DEF Die
<1>5. ASSUME NEW c \in Calls, NEW s \in Shops,
             \/ Confirm(c, s) \/ Reject(c, s) \/ ReadyReads(c, s)
             \/ ScanSilent(c, s) \/ ScanTimedOut(c, s)
      PROVE  MoneyInv'
  BY <1>1, <1>2, <1>5, SavedMoney
     DEF Confirm, Reject, ReadyReads, ScanSilent, ScanTimedOut, Decide
<1>6. ASSUME NEW s \in Shops, Resend(s) \/ Age(s) PROVE MoneyInv'
  BY <1>1, <1>6, SavedMoney DEF Resend, Age, Decide
<1>7. ASSUME NEW to, End(to) PROVE MoneyInv'
  BY <1>1, <1>7 DEF End
<1>8. CASE Accept \/ NotifyStamps
  BY <1>1, <1>8 DEF Accept, NotifyStamps
<1>9. CASE Reopen
  BY <1>9, SavedMoney DEF Reopen
<1>10. CASE UNCHANGED vars
  BY <1>1, <1>10 DEF vars
<1> QED BY <1>3, <1>4, <1>5, <1>6, <1>7, <1>8, <1>9, <1>10, ReplacedMoney DEF Next

\* A promotion comes back with the shops, and no more of it than was granted,
\* for any lines, prices, swaps and grant (GrantRestored).
THEOREM PromotionComesBack == Spec => []GrantRestored
<1>1. Spec => []MoneyInv
  BY InitMoney, StepMoney, PTL DEF Spec
<1>2. MoneyInv /\ BillExact => GrantRestored
  <2> SUFFICES ASSUME MoneyInv, BillExact PROVE GrantRestored
    OBVIOUS
  <2> DEFINE given == Granted.discount - Granted.deal
  <2>0. given = Granted.waiver + GrantedCoupon /\ given \in Int
    BY GrantedCouponType DEF GrantedCoupon
  <2>1. CASE snapshot = NoSnapshot
    BY <2>0, <2>1 DEF MoneyInv, Ungranted, GrantRestored
  <2>2. CASE snapshot # NoSnapshot
    <3> DEFINE g == GrantOn(item)
    <3>1. /\ g.couponBasis = Basis(item, Lines) /\ g.couponItems = GrantedCoupon
          /\ g.waiver = Granted.waiver /\ g.charges = Granted.charges
      BY DEF GrantOn
    <3>2. bill = CalculateOrderBilling(g, item, Included(row)) /\ item \in [Lines -> BilledLine]
      BY <2>2 DEF MoneyInv, BillExact
    <3>3. Included(row) \in SUBSET Lines
      BY DEF Included
    <3> HIDE DEF g
    <3>4. /\ bill \in [subtotal : Nat, deal : Nat, waiver : Nat, charges : Nat,
                       discount : Nat, total : Nat]
          /\ bill.waiver <= g.waiver
          /\ bill.discount - bill.deal - bill.waiver <= g.couponItems
          /\ Included(row) = Lines =>
               /\ bill.discount - bill.deal = g.waiver + Least(Basis(item, Lines), g.couponItems)
               /\ bill.total = Greatest(0, bill.subtotal + g.charges - bill.discount)
      BY OrderAssumption, GrantedCouponType, <3>1, <3>2, <3>3, BillOf
    <3>5. bill.discount - bill.deal <= given
      BY <2>0, <3>1, <3>4, GrantedCouponType
    <3> QED BY <3>1, <3>4, <3>5 DEF GrantRestored
  <2> QED BY <2>1, <2>2
<1> QED BY <1>1, <1>2, BillStaysExact, PTL

-----------------------------------------------------------------------------
(***************************************************************************)
(* ShopDecisions implements ShopRound.                                     *)
(***************************************************************************)

asked == [s \in Shops |-> RoundAnswer(row[s])]

\* The shops have said nothing, and the round is shut, at first.
LEMMA InitRound == Init => Round!Init
<1> SUFFICES ASSUME Init PROVE Round!Init
  OBVIOUS
<1>1. \A s \in Shops : row[s] = FreshRow
  BY DEF Init
<1>2. RoundAnswer(FreshRow) = "waiting"
  BY DEF RoundAnswer, FreshRow
<1>3. RoundLife = "shut"
  BY DEF Init, RoundLife
<1> QED BY <1>1, <1>2, <1>3 DEF Round!Init

\* Where no answer and no status changes the round stutters.
LEMMA RoundStutters ==
  ASSUME SameAnswers, status' = status, byShops' = byShops
  PROVE  UNCHANGED Round!roundVars
<1>1. /\ \A s \in Shops : row'[s].rejected = row[s].rejected
      /\ \A s \in Shops : row'[s].confirmed = row[s].confirmed
  BY DEF SameAnswers
<1>2. asked' = asked
  BY <1>1 DEF asked, RoundAnswer
<1>3. RoundLife' = RoundLife
  BY DEF RoundLife, Live
<1> QED BY <1>2, <1>3 DEF Round!roundVars, asked

\* A decision is an answer of that shop, in the open round.
LEMMA DecideRound ==
  ASSUME IInv, NEW s \in Shops, NEW q \in Row, q.alerts <= 1, Decide(s, q),
         status' \in {status, "Preparing"}
  PROVE  /\ RoundLife = "open" /\ RoundLife' = "open"
         /\ asked' = [asked EXCEPT ![s] = RoundAnswer(q)]
<1>1. /\ Live
      /\ \A x \in Shops : row'[x] = IF x = s THEN q ELSE row[x]
  BY DecideStep
<1>2. RoundLife = "open" /\ RoundLife' = "open"
  BY <1>1 DEF RoundLife, Live
<1>3. asked' = [x \in Shops |-> RoundAnswer(row'[x])]
  BY DEF asked
<1> QED BY <1>1, <1>2, <1>3 DEF asked

\* An answer in the open round.
LEMMA AnswerRound ==
  ASSUME NEW s \in Shops, NEW a \in {"yes", "no"}, RoundLife = "open", RoundLife' = "open",
         asked' = [asked EXCEPT ![s] = a], a = "yes" => asked[s] # "no"
  PROVE  Round!Next
<1>1. Round!Answer(s, a)
  BY DEF Round!Answer, asked
<1> QED BY <1>1 DEF Round!Next

\* The shops' own actions are the round's.
LEMMA ShopRoundStep ==
  ASSUME IInv, NEW s \in Shops,
         (\E c \in Calls : Confirm(c, s)) \/ RejectUnchecked(s) \/ Resend(s)
  PROVE  Round!Next
<1>0. row[s] \in Row /\ row[s].alerts <= 1
  BY DEF IInv, TypeOK, OneEscalation
<1>1. CASE \E c \in Calls : Confirm(c, s)
  <2>1. Decide(s, Confirmed(row[s])) /\ status' = "Preparing" /\ ~row[s].rejected
    BY <1>1 DEF Confirm
  <2>2. /\ Confirmed(row[s]) \in Row /\ Confirmed(row[s]).alerts <= 1
        /\ ~Confirmed(row[s]).rejected /\ Confirmed(row[s]).confirmed
    BY <1>0, <2>1, ConfirmedRow
  <2>3. RoundAnswer(Confirmed(row[s])) = "yes"
    BY <2>2 DEF RoundAnswer
  <2>4. asked[s] # "no"
    BY <2>1 DEF asked, RoundAnswer
  <2> QED BY <2>1, <2>2, <2>3, <2>4, DecideRound, AnswerRound
<1>2. CASE RejectUnchecked(s)
  <2>1. Decide(s, Rejected(row[s])) /\ status' = status
    BY <1>2 DEF RejectUnchecked, order
  <2>2. /\ Rejected(row[s]) \in Row /\ Rejected(row[s]).alerts <= 1
        /\ Rejected(row[s]).rejected
    BY <1>0, RejectedRow
  <2>3. RoundAnswer(Rejected(row[s])) = "no"
    BY <2>2 DEF RoundAnswer
  <2> QED BY <2>1, <2>2, <2>3, DecideRound, AnswerRound
<1>3. CASE Resend(s)
  <2>1. Decide(s, Asked(row[s])) /\ status' = status /\ row[s].rejected
    BY <1>3 DEF Resend, order
  <2>2. /\ Asked(row[s]) \in Row /\ Asked(row[s]).alerts <= 1
        /\ ~Asked(row[s]).rejected /\ ~Asked(row[s]).confirmed
    BY <1>0, AskedRow
  <2>3. RoundAnswer(Asked(row[s])) = "waiting" /\ asked[s] = "no"
    BY <2>1, <2>2 DEF RoundAnswer, asked
  <2>4. RoundLife = "open" /\ RoundLife' = "open"
        /\ asked' = [asked EXCEPT ![s] = "waiting"]
    BY <2>1, <2>2, <2>3, DecideRound
  <2>5. Round!Resend(s)
    BY <2>3, <2>4 DEF Round!Resend, asked
  <2> QED BY <2>5 DEF Round!Next
<1> QED BY <1>1, <1>2, <1>3

\* Accepting, ending, cancelling for the shops and reopening are the round's
\* other actions.
LEMMA OrderRoundStep ==
  ASSUME IInv,
         \/ Accept \/ Reopen \/ (\E to \in {"Gone", "Cancelled"} : End(to))
         \/ ((\E c \in Calls : CancelAllRejected(c)) /\ CancelHolds)
  PROVE  Round!Next
<1>1. CASE Accept
  <2>1. row' = row /\ status = "Pending" /\ status' = "Accepted"
    BY <1>1 DEF Accept
  <2>2. RoundLife = "shut" /\ RoundLife' = "open" /\ asked' = asked
    BY <2>1 DEF RoundLife, Live, asked
  <2> QED BY <2>2 DEF Round!Next, Round!Open, asked
<1>2. CASE \E to \in {"Gone", "Cancelled"} : End(to)
  <2>1. /\ row' = row /\ status' \in {"Gone", "Cancelled"} /\ ~byShops'
        /\ Live \/ status = "Pending"
    BY <1>2 DEF End
  <2>2. RoundLife \in {"shut", "open"} /\ RoundLife' = "ended" /\ asked' = asked
    BY <2>1 DEF RoundLife, Live, asked
  <2> QED BY <2>2 DEF Round!Next, Round!End, asked
<1>3. CASE (\E c \in Calls : CancelAllRejected(c)) /\ CancelHolds
  <2>1. row' = row /\ Live /\ AllRejected /\ status' = "Cancelled" /\ byShops'
    BY <1>3 DEF CancelAllRejected, CancelHolds
  <2>2. RoundLife = "open" /\ RoundLife' = "refused" /\ asked' = asked
    BY <2>1 DEF RoundLife, Live, asked
  <2>3. \A s \in Shops : asked[s] = "no"
    BY <2>1 DEF AllRejected, asked, RoundAnswer
  <2> QED BY <2>2, <2>3 DEF Round!Next, Round!Refuse, Round!AllNo, asked
<1>4. CASE Reopen
  <2>1. row' = Reopened /\ status = "Cancelled" /\ status' = "Pending"
    BY <1>4 DEF Reopen
  <2>2. RoundLife \in {"refused", "ended"} /\ RoundLife' = "shut"
    BY <2>1 DEF RoundLife, Live
  <2>3. \A s \in Shops : ~row'[s].rejected /\ ~row'[s].confirmed
    BY <2>1 DEF Reopened, FreshRow
  <2>4. asked' = [s \in Shops |-> "waiting"]
    BY <2>3 DEF asked, RoundAnswer
  <2> QED BY <2>2, <2>4 DEF Round!Next, Round!Restart, asked
<1> QED BY <1>1, <1>2, <1>3, <1>4

\* The other steps of a call change neither an answer nor the status.
LEMMA CallRoundStep ==
  ASSUME IInv, NEW c \in Calls, CallStep(c) \/ Die(c)
  PROVE  Round!Next \/ UNCHANGED Round!roundVars
<1>1. CASE CancelAllRejected(c) /\ CancelHolds
  BY <1>1, OrderRoundStep
<1>2. CASE TimeoutReject(c) /\ TimeoutHolds(call[c].shop)
  <2>1. call[c].shop \in Shops /\ RejectUnchecked(call[c].shop)
    BY <1>2 DEF TimeoutReject, IInv, ShopKnown, At
  <2> QED BY <2>1, ShopRoundStep
<1>3. CASE ~(CancelAllRejected(c) /\ CancelHolds) /\ ~(TimeoutReject(c) /\ TimeoutHolds(call[c].shop))
  <2>1. status' = status /\ byShops' = byShops
    BY <1>3 DEF CallStep, Die, CancelReadsOrder, CancelReadsLines, CancelAllRejected,
                StartReadsOrder, StartReadsItems, StartAssignment, ReadyStamps, Escalate,
                TimeoutReject, order
  <2>2. SameAnswers
    <3>1. CASE ReadyStamps(c)
      BY <3>1, ReadyQuiet DEF IInv
    <3>2. CASE Escalate(c)
      BY <3>2, EscalateQuiet DEF IInv
    <3>3. CASE ~ReadyStamps(c) /\ ~Escalate(c)
      <4>1. row' = row
        BY <1>3, <3>3 DEF CallStep, Die, CancelReadsOrder, CancelReadsLines,
                CancelAllRejected, StartReadsOrder, StartReadsItems, StartAssignment,
                TimeoutReject
      <4> QED BY <4>1, KeptRows DEF IInv
    <3> QED BY <3>1, <3>2, <3>3
  <2> QED BY <2>1, <2>2, RoundStutters
<1> QED BY <1>1, <1>2, <1>3

\* Every step is a step of the round or a stutter.
LEMMA StepRound == IInv /\ [Next]_vars => [Round!Next]_(Round!roundVars)
<1> SUFFICES ASSUME IInv, [Next]_vars PROVE Round!Next \/ UNCHANGED Round!roundVars
  OBVIOUS
<1>1. CASE Next
  <2>1. ASSUME NEW c \in Calls, CallStep(c) \/ Die(c)
        PROVE  Round!Next \/ UNCHANGED Round!roundVars
    BY <2>1, CallRoundStep
  <2>2. ASSUME NEW c \in Calls, NEW s \in Shops, Confirm(c, s) \/ Reject(c, s)
        PROVE  Round!Next
    <3>1. Confirm(c, s) \/ RejectUnchecked(s)
      BY <2>2 DEF Reject
    <3> QED BY <3>1, ShopRoundStep
  <2>3. ASSUME NEW c \in Calls, NEW s \in Shops,
               ReadyReads(c, s) \/ ScanSilent(c, s) \/ ScanTimedOut(c, s)
        PROVE  UNCHANGED Round!roundVars
    <3>1. row' = row /\ status' = status /\ byShops' = byShops
      BY <2>3 DEF ReadyReads, ScanSilent, ScanTimedOut, order
    <3> QED BY <3>1, KeptRows, RoundStutters DEF IInv
  <2>4. ASSUME NEW s \in Shops, Resend(s) PROVE Round!Next
    BY <2>4, ShopRoundStep
  <2>5. ASSUME NEW s \in Shops, Age(s) PROVE UNCHANGED Round!roundVars
    <3>1. SameAnswers /\ status' = status /\ byShops' = byShops
      BY <2>5, AgeQuiet DEF IInv, Age, order
    <3> QED BY <3>1, RoundStutters
  <2>6. CASE NotifyStamps
    <3>1. SameAnswers /\ status' = status /\ byShops' = byShops
      BY <2>6, NotifyQuiet DEF IInv, NotifyStamps, order
    <3> QED BY <3>1, RoundStutters
  <2>7. CASE Accept \/ Reopen \/ (\E to \in {"Gone", "Cancelled"} : End(to))
    BY <2>7, OrderRoundStep
  <2>8. ASSUME NEW l \in Lines, NEW p \in Swaps, ReplaceItem(l, p)
        PROVE  UNCHANGED Round!roundVars
    <3>1. row' = row /\ status' = status /\ byShops' = byShops
      BY <2>8 DEF ReplaceItem, order
    <3> QED BY <3>1, KeptRows, RoundStutters DEF IInv
  <2> QED BY <1>1, <2>1, <2>2, <2>3, <2>4, <2>5, <2>6, <2>7, <2>8 DEF Next
<1>2. CASE UNCHANGED vars
  <2>1. row' = row /\ status' = status /\ byShops' = byShops
    BY <1>2 DEF vars, order
  <2> QED BY <2>1, KeptRows, RoundStutters DEF IInv
<1> QED BY <1>1, <1>2

\* ShopDecisions implements the round, for any shops, lines and callers.
THEOREM DecisionsFollowRound == Spec => ImplementsRound
<1>1. Init => Round!Init
  BY InitRound
<1>2. IInv /\ [Next]_vars => [Round!Next]_(Round!roundVars)
  BY StepRound
<1> QED BY <1>1, <1>2, ShopInvariant, PTL DEF Spec, ImplementsRound, Round!Spec

-----------------------------------------------------------------------------
(***************************************************************************)
(* What the round promises holds of the decisions.                         *)
(***************************************************************************)

\* The order that the shops have cancelled, all of them have rejected, for as
\* long as it stays so: cancelOrderIfAllRejected and the timeout's rejection
\* count the answers under the order's row lock.
RefusedByAll ==
  status = "Cancelled" /\ byShops => \A s \in Shops : row[s].rejected

\* A round that is refused was refused by all, and no answer changes after.
LEMMA RoundRefused ==
  LET Unanimous == RoundLife = "refused" => Round!AllNo
  IN  /\ Round!Init => Unanimous
      /\ Unanimous /\ [Round!Next]_(Round!roundVars) => Unanimous'
      /\ Unanimous => RefusedByAll
<1> DEFINE answer    == [s \in Shops |-> RoundAnswer(row[s])]
           Unanimous == RoundLife = "refused" => Round!AllNo
<1>1. Round!Init => Unanimous
  BY DEF Round!Init
<1>2. ASSUME Unanimous, [Round!Next]_(Round!roundVars) PROVE Unanimous'
  <2> HIDE DEF answer
  <2>1. CASE Round!Refuse
    BY <2>1 DEF Round!Refuse, Round!AllNo, answer
  <2>2. CASE UNCHANGED Round!roundVars
    BY <1>2, <2>2 DEF Round!roundVars, Round!AllNo, answer
  <2>3. CASE Round!Next /\ ~Round!Refuse
    <3>1. RoundLife' # "refused"
      BY <2>3 DEF Round!Next, Round!Open, Round!Answer, Round!Resend, Round!End, Round!Restart
    <3> QED BY <3>1
  <2> QED BY <1>2, <2>1, <2>2, <2>3
<1>3. ASSUME Unanimous PROVE RefusedByAll
  <2> SUFFICES ASSUME status = "Cancelled", byShops, NEW s \in Shops
                PROVE  row[s].rejected
    BY DEF RefusedByAll
  <2>1. RoundLife = "refused"
    BY DEF RoundLife, Live
  <2>2. RoundAnswer(row[s]) = "no"
    BY <1>3, <2>1 DEF Round!AllNo
  <2> QED BY <2>2 DEF RoundAnswer
<1> QED BY <1>1, <1>2, <1>3

\* Only all shops together cancel an order.
THEOREM ShopsCancelTogether == Spec => []RefusedByAll
<1> DEFINE Unanimous == RoundLife = "refused" => Round!AllNo
<1> HIDE DEF Unanimous
<1>1. /\ Round!Init => Unanimous
      /\ Unanimous /\ [Round!Next]_(Round!roundVars) => Unanimous'
      /\ Unanimous => RefusedByAll
  BY RoundRefused DEF Unanimous
<1> QED BY <1>1, DecisionsFollowRound, PTL DEF ImplementsRound, Round!Spec
=============================================================================
