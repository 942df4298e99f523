--------------------------- MODULE SweepGate_proofs ---------------------------
(***************************************************************************)
(* A gate never sleeps over announced work, for any number of rows and of  *)
(* concurrent writers.                                                     *)
(***************************************************************************)
EXTENDS SweepGate, TLAPS

\* A row is heard of if somebody is about to wake the gate for it.
Heard == \A i \in live \ unannounced : \E c \in Creators : announcing[c] = i

\* A tick that found nothing and would close the gate missed only such rows:
\* a wake since the check would have moved the counter past the checkpoint.
CheckpointOK ==
  /\ checkpoint <= wakes
  /\ tick = "close" /\ checkpoint = wakes => Heard

IInv == TypeOK /\ AsleepOnlyUntilWoken /\ CheckpointOK

\* After a start the gate is open and nothing has been missed.
LEMMA InitIInv == Init => IInv
<1> SUFFICES ASSUME Init PROVE IInv
  OBVIOUS
<1>1. TypeOK
  BY DEF Init, TypeOK
<1>2. ~closed /\ tick = "idle" /\ checkpoint = 0 /\ wakes = 1
  BY DEF Init
<1>3. AsleepOnlyUntilWoken /\ CheckpointOK
  BY <1>2 DEF AsleepOnlyUntilWoken, CheckpointOK
<1> QED
  BY <1>1, <1>3 DEF IInv

\* Steps of the creators and of other writers.
LEMMA CreatorSteps ==
  ASSUME IInv,
         \/ \E c \in Creators :
              (\E i \in Items : Commit(c, i)) \/ Wake(c) \/ LoseAnswer(c)
         \/ \E i \in Items : Settle(i)
  PROVE  IInv'
<1> USE ItemsAssumption DEF IInv, TypeOK, AsleepOnlyUntilWoken, CheckpointOK, Heard, gate
<1>1. ASSUME NEW c \in Creators, NEW i \in Items, Commit(c, i)
      PROVE  IInv'
  <2>1. TypeOK'
    BY <1>1 DEF Commit
  <2>2. Heard => Heard'
    BY <1>1 DEF Commit
  <2> QED
    BY <1>1, <2>1, <2>2 DEF Commit
<1>2. ASSUME NEW c \in Creators, Wake(c)
      PROVE  IInv'
  \* The gate is open and the counter is past every checkpoint.
  <2>1. closed' \in BOOLEAN /\ ~closed'
    BY <1>2 DEF Wake
  <2>2. wakes' = wakes + 1 /\ UNCHANGED <<live, unannounced, checkpoint, tick>>
    BY <1>2 DEF Wake
  <2>3. announcing' \in [Creators -> Items \cup {Nothing}]
    BY <1>2 DEF Wake
  <2>4. TypeOK' /\ checkpoint' < wakes'
    BY <2>1, <2>2, <2>3
  <2>5. AsleepOnlyUntilWoken' /\ CheckpointOK'
    BY <2>1, <2>4
  <2> QED
    BY <2>4, <2>5
<1>3. ASSUME NEW c \in Creators, LoseAnswer(c)
      PROVE  IInv'
  <2>1. TypeOK'
    BY <1>3 DEF LoseAnswer
  <2>2. Heard => Heard'
    BY <1>3 DEF LoseAnswer
  <2> QED
    BY <1>3, <2>1, <2>2 DEF LoseAnswer
<1>4. ASSUME NEW i \in Items, Settle(i)
      PROVE  IInv'
  <2>1. TypeOK'
    BY <1>4 DEF Settle
  <2>2. Heard => Heard'
    BY <1>4 DEF Settle
  <2> QED
    BY <1>4, <2>1, <2>2 DEF Settle
<1> QED
  BY <1>1, <1>2, <1>3, <1>4

\* Steps of the sweeper, of time and of a restart.
LEMMA SweeperSteps ==
  ASSUME IInv,
         \/ Tick \/ Check \/ Close \/ SweepEnds \/ TickFails \/ IdleCheck \/ Restart
  PROVE  IInv'
<1> USE ItemsAssumption DEF IInv, TypeOK, AsleepOnlyUntilWoken, CheckpointOK, Heard, gate
<1>1. CASE Tick
  BY <1>1 DEF Tick
<1>2. CASE Check
  \* A check that finds nothing saw every committed row.
  BY <1>2 DEF Check
<1>3. CASE Close
  <2>1. TypeOK' /\ CheckpointOK'
    BY <1>3 DEF Close
  <2>2. ASSUME closed' PROVE Heard
    <3>1. CASE closed
      BY <3>1
    <3>2. CASE ~closed
      BY <1>3, <2>2, <3>2 DEF Close
    <3> QED
      BY <3>1, <3>2
  <2>3. AsleepOnlyUntilWoken'
    BY <1>3, <2>2 DEF Close
  <2> QED
    BY <2>1, <2>3
<1>4. CASE SweepEnds
  BY <1>4 DEF SweepEnds
<1>5. CASE TickFails
  BY <1>5 DEF TickFails
<1>6. CASE IdleCheck
  BY <1>6 DEF IdleCheck
<1>7. CASE Restart
  <2>1. TypeOK'
    BY <1>7 DEF Restart
  <2>2. ~closed' /\ tick' = "idle" /\ checkpoint' <= wakes'
    BY <1>7 DEF Restart
  <2>3. AsleepOnlyUntilWoken' /\ CheckpointOK'
    BY <2>2
  <2> QED
    BY <2>1, <2>3
<1> QED
  BY <1>1, <1>2, <1>3, <1>4, <1>5, <1>6, <1>7

\* Nothing moves: nothing changes.
LEMMA StutterStep == IInv /\ UNCHANGED vars => IInv'
  BY DEF IInv, TypeOK, AsleepOnlyUntilWoken, CheckpointOK, Heard, vars, gate

\* The inductive invariant holds of every behaviour.
THEOREM GateInvariant == Spec => []IInv
<1>1. Init => IInv
  BY InitIInv
<1>2. IInv /\ [Next]_vars => IInv'
  BY CreatorSteps, SweeperSteps, StutterStep DEF Next
<1> QED
  BY <1>1, <1>2, PTL DEF Spec

\* createGate: the checkpoint handed to close() keeps a gate open that a wake
\* reached while the check was running, so no announced work is slept over.
THEOREM NeverAsleepOverWork == Spec => []AsleepOnlyUntilWoken
<1>1. IInv => AsleepOnlyUntilWoken
  BY DEF IInv
<1> QED
  BY <1>1, GateInvariant, PTL

\* The state of the gate, its counter and its sweeper keep their types.
THEOREM GateTypes == Spec => []TypeOK
<1>1. IInv => TypeOK
  BY DEF IInv
<1> QED
  BY <1>1, GateInvariant, PTL
=============================================================================
