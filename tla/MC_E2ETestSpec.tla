--------------------------- MODULE MC_E2ETestSpec ---------------------------
(***************************************************************************)
(* Instances of E2ETestSpecController for TLC: two units of time make a    *)
(* minute and the clock starts at 5.  A schedule's first tick is before    *)
(* the start and its last one after the horizon.                           *)
(***************************************************************************)
EXTENDS E2ETestSpecController

EveryMinute  == {2 * k : k \in 2..16}
EveryThird   == {6 * k - 2 : k \in 1..6}
Never        == {}

AllTicks     == [everyMinute |-> EveryMinute, everyThird |-> EveryThird, never |-> Never]
AllSpecs     == {"absent", "empty", "unscheduled", "invalid",
                 "everyMinute", "everyThird", "never"}
=============================================================================
