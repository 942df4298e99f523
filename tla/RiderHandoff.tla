---------------------------- MODULE RiderHandoff ----------------------------
(***************************************************************************)
(* What the assignment engine promises, without saying how it searches:    *)
(* an order asks one rider at a time and a rider is asked about one order  *)
(* at a time, a rider is asked about an order once, and a rider gets an    *)
(* order only by saying yes while asked.  An order is taken from its rider *)
(* only by an admin, who may also have one rider forgotten, so that they   *)
(* can be asked again.                                                     *)
(***************************************************************************)
CONSTANTS Orders, Riders, Nobody

VARIABLES
  holder,  \* the rider an order is assigned to
  asking,  \* the rider an order is being offered to
  asked    \* the riders an order has been offered to

handoffVars == <<holder, asking, asked>>

Init ==
  /\ holder = [o \in Orders |-> Nobody]
  /\ asking = [o \in Orders |-> Nobody]
  /\ asked  = [o \in Orders |-> {}]

Ask(o, r) ==
  /\ holder[o] = Nobody
  /\ asking[o] = Nobody
  /\ \A p \in Orders : asking[p] # r
  /\ r \notin asked[o]
  /\ asking' = [asking EXCEPT ![o] = r]
  /\ asked'  = [asked EXCEPT ![o] = @ \cup {r}]
  /\ UNCHANGED holder

Take(o) ==
  /\ asking[o] # Nobody
  /\ holder[o] = Nobody
  /\ holder' = [holder EXCEPT ![o] = asking[o]]
  /\ asking' = [asking EXCEPT ![o] = Nobody]
  /\ UNCHANGED asked

\* Rejected, expired or revoked.
Withdraw(o) ==
  /\ asking[o] # Nobody
  /\ asking' = [asking EXCEPT ![o] = Nobody]
  /\ UNCHANGED <<holder, asked>>

\* The admin takes the order back, with the riders in forgotten to be asked
\* afresh.
Release(o, forgotten) ==
  /\ holder' = [holder EXCEPT ![o] = Nobody]
  /\ asking' = [asking EXCEPT ![o] = IF @ \in forgotten THEN Nobody ELSE @]
  /\ asked'  = [asked EXCEPT ![o] = @ \ forgotten]

Next ==
  \E o \in Orders :
     \/ \E r \in Riders : Ask(o, r)
     \/ Take(o)
     \/ Withdraw(o)
     \/ Release(o, {})
     \/ \E r \in Riders : Release(o, {r})

Spec == Init /\ [][Next]_handoffVars

=============================================================================
