------------------------------ MODULE ShopRound ------------------------------
(***************************************************************************)
(* What the shops of an order are promised.  While the round is open each  *)
(* shop answers for itself; a shop that has said no is asked again before  *)
(* it may say yes, and is asked again only by a resend.  The round cancels *)
(* the order only when every shop has said no.  Others may end the order   *)
(* or bring a cancelled one back, and then everyone is asked afresh.       *)
(***************************************************************************)
CONSTANT Shops

VARIABLES
  answer,  \* what each shop has said
  life     \* "shut" while the shops are not asked

roundVars == <<answer, life>>

Answers == {"waiting", "yes", "no"}
Lives   == {"shut", "open", "refused", "ended"}

AllNo == \A s \in Shops : answer[s] = "no"

Init ==
  /\ answer = [s \in Shops |-> "waiting"]
  /\ life = "shut"

Open == life = "shut" /\ life' = "open" /\ UNCHANGED answer

\* A shop may still say no after it said yes, never yes after no.
Answer(s, a) ==
  /\ life = "open"
  /\ a = "yes" => answer[s] # "no"
  /\ answer' = [answer EXCEPT ![s] = a]
  /\ UNCHANGED life

Resend(s) ==
  /\ life = "open"
  /\ answer[s] = "no"
  /\ answer' = [answer EXCEPT ![s] = "waiting"]
  /\ UNCHANGED life

Refuse == life = "open" /\ AllNo /\ life' = "refused" /\ UNCHANGED answer

End == life \in {"shut", "open"} /\ life' = "ended" /\ UNCHANGED answer

Restart ==
  /\ life \in {"refused", "ended"}
  /\ life' = "shut"
  /\ answer' = [s \in Shops |-> "waiting"]

Next ==
  \/ Open \/ Refuse \/ End \/ Restart
  \/ \E s \in Shops : Resend(s) \/ \E a \in {"yes", "no"} : Answer(s, a)

Spec == Init /\ [][Next]_roundVars
=============================================================================
