----------------------------- MODULE MCAreaGates -----------------------------
(* A day of three minutes: hours past midnight, hours within the day, none. *)
EXTENDS AreaGates

ByNight == [open |-> 2, close |-> 0]
ByDay == [open |-> 0, close |-> 1]

NightOrNone == {ByNight, Unscheduled}
DayOnly == {ByDay}
=============================================================================
