-------------------------- MODULE MCSearchSession --------------------------
(***************************************************************************)
(* Instance of SearchSession for TLC.  A behaviour has one of the budgets, *)
(* so that the run is the union of several small instances.                *)
(***************************************************************************)
EXTENDS SearchSession

Budget(u, d, s, c, f) ==
    [k \in Kinds |-> CASE k = "schema" -> u [] k = "data" -> d [] k = "status" -> s
                       [] k = "call" -> c [] k = "fault" -> f]
MCBudgets ==
    {Budget(2, 0, 0, 0, 0), Budget(1, 0, 0, 1, 0), Budget(1, 0, 0, 0, 1),
     Budget(0, 3, 0, 0, 1), Budget(0, 1, 1, 1, 0), Budget(1, 0, 1, 0, 0),
     Budget(0, 0, 0, 1, 1), Budget(0, 0, 0, 2, 0)}
=============================================================================
