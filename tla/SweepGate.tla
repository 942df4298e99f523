------------------------------ MODULE SweepGate ------------------------------
(***************************************************************************)
(* realtime/sweepGates.js between a sweeper and the code that creates its  *)
(* work: riderOfferSweeper and shopAlertSweeper each have one gate.        *)
(*                                                                         *)
(* "Wake only AFTER the write that created the work has committed": the    *)
(* commit takes effect in the database before its caller goes on, and the  *)
(* sweeper's check may be read anywhere in between.                        *)
(*                                                                         *)
(* WakeUncounted and IdleCheckNever are slips a property has to notice:    *)
(* nothing uses them.                                                      *)
(***************************************************************************)
EXTENDS Naturals, FiniteSets

CONSTANTS
  Items,      \* rows that can be live: a search, an offer, an undecided shop
  Creators,   \* calls that make a row live, at a time (bound)
  Nothing,    \* what a creator at rest is about to announce
  MaxWakes    \* wakes between two restarts during a run (bound)

ASSUME ItemsAssumption == Nothing \notin Items
ASSUME BoundsAssumption == MaxWakes \in Nat \ {0}

VARIABLES
  live,        \* rows hasLiveDispatch (hasLiveShopAlerts) would find
  unannounced, \* those written by something that wakes nobody
  closed,      \* now < closedUntil
  wakes,       \* the gate's counter
  checkpoint,  \* its value when the running tick took it
  tick,        \* where the sweeper's tick is; "idle" is running = false
  announcing   \* the row a creator has committed and not woken the gate for

gate == <<closed, wakes>>
vars == <<live, unannounced, gate, checkpoint, tick, announcing>>

TypeOK ==
  /\ live \subseteq Items
  /\ unannounced \subseteq Items
  /\ closed \in BOOLEAN
  /\ wakes \in Nat
  /\ checkpoint \in Nat
  /\ tick \in {"idle", "check", "close", "sweep"}
  /\ announcing \in [Creators -> Items \cup {Nothing}]

-----------------------------------------------------------------------------
(* The code that creates work                                              *)

Waking == {c \in Creators : announcing[c] # Nothing}

\* The write is visible, its commit not yet answered.
Commit(c, i) ==
  /\ announcing[c] = Nothing
  /\ wakes + Cardinality(Waking) < MaxWakes
  /\ live' = live \cup {i}
  /\ unannounced' = unannounced \ {i}
  /\ announcing' = [announcing EXCEPT ![c] = i]
  /\ UNCHANGED <<gate, checkpoint, tick>>

WakeUncounted(c) ==
  /\ announcing[c] # Nothing
  /\ closed' = FALSE
  /\ announcing' = [announcing EXCEPT ![c] = Nothing]
  /\ UNCHANGED <<live, unannounced, wakes, checkpoint, tick>>
Wake(c) ==
  /\ announcing[c] # Nothing
  /\ wakes' = wakes + 1
  /\ closed' = FALSE
  /\ announcing' = [announcing EXCEPT ![c] = Nothing]
  /\ UNCHANGED <<live, unannounced, checkpoint, tick>>

\* The commit's answer is lost, or the row is written by hand: no wake.
LoseAnswer(c) ==
  /\ announcing[c] # Nothing
  /\ unannounced' = unannounced \cup ({announcing[c]} \cap live)
  /\ announcing' = [announcing EXCEPT ![c] = Nothing]
  /\ UNCHANGED <<live, gate, checkpoint, tick>>

\* A rider or a shop answers, an order ends: a row stops being live.
Settle(i) ==
  /\ i \in live
  /\ live' = live \ {i}
  /\ unannounced' = unannounced \ {i}
  /\ UNCHANGED <<gate, checkpoint, tick, announcing>>

-----------------------------------------------------------------------------
(* tick                                                                    *)

Tick ==
  /\ tick = "idle"
  /\ ~closed
  /\ checkpoint' = wakes
  /\ tick' = "check"
  /\ UNCHANGED <<live, unannounced, gate, announcing>>

\* The database evaluates hasLive; the answer is still on its way.
Check ==
  /\ tick = "check"
  /\ tick' = IF live = {} THEN "close" ELSE "sweep"
  /\ UNCHANGED <<live, unannounced, gate, checkpoint, announcing>>

Close ==
  /\ tick = "close"
  /\ closed' = (closed \/ checkpoint = wakes)
  /\ tick' = "idle"
  /\ UNCHANGED <<live, unannounced, wakes, checkpoint, announcing>>

\* The passes ran over every live row; what they settle is Settle.
SweepEnds ==
  /\ tick = "sweep"
  /\ tick' = "idle"
  /\ UNCHANGED <<live, unannounced, gate, checkpoint, announcing>>

\* A query of the tick throws: the gate stays as it is.
TickFails ==
  /\ tick \in {"check", "sweep"}
  /\ tick' = "idle"
  /\ UNCHANGED <<live, unannounced, gate, checkpoint, announcing>>

-----------------------------------------------------------------------------
(* Time and restarts                                                       *)

\* SWEEPER_IDLE_CHECK_MS is over.
IdleCheckNever == FALSE /\ UNCHANGED vars
IdleCheck ==
  /\ closed
  /\ closed' = FALSE
  /\ UNCHANGED <<live, unannounced, wakes, checkpoint, tick, announcing>>

\* A new process: start...Sweeper wakes the gate and ticks; what was in memory
\* is gone.
Restart ==
  /\ closed' = FALSE
  /\ wakes' = 1
  /\ checkpoint' = 0
  /\ tick' = "idle"
  /\ announcing' = [c \in Creators |-> Nothing]
  /\ UNCHANGED <<live, unannounced>>

Init ==
  /\ live \in SUBSET Items
  /\ unannounced = {}
  /\ closed = FALSE
  /\ wakes = 1
  /\ checkpoint = 0
  /\ tick = "idle"
  /\ announcing = [c \in Creators |-> Nothing]

Next ==
  \/ \E c \in Creators :
        \/ \E i \in Items : Commit(c, i)
        \/ Wake(c)
        \/ LoseAnswer(c)
  \/ \E i \in Items : Settle(i)
  \/ Tick
  \/ Check
  \/ Close
  \/ SweepEnds
  \/ TickFails
  \/ IdleCheck
  \/ Restart

Spec == Init /\ [][Next]_vars

\* The interval fires, clocks run, continuations run, and the check, whenever it
\* is tried again and again, answers at last.
Fairness ==
  /\ SF_vars(Tick)
  /\ SF_vars(Check)
  /\ WF_vars(Close) /\ WF_vars(SweepEnds)
  /\ WF_vars(IdleCheck)

FairSpec == Spec /\ Fairness

-----------------------------------------------------------------------------
(* Properties                                                              *)

\* "that race cannot put a sweeper with live work to sleep" (sweepGates.js): a
\* closed gate leaves no announced work behind but what is about to wake it.
AsleepOnlyUntilWoken ==
  closed => \A i \in live \ unannounced : \E c \in Creators : announcing[c] = i

\* The safety net: whatever was live and stays so is looked at, even if the one
\* who wrote it never woke the gate.
LiveIsSwept == \A i \in Items : i \in live ~> i \notin live \/ tick = "sweep"

=============================================================================
