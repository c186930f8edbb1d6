------------------------- MODULE MCRuntimeExtensions -------------------------
EXTENDS RuntimeExtensions

MCTargets == {"t1", "t2", "bad"}

Handler(name, timeout, policy, hook) == [name |-> name, timeout |-> timeout, policy |-> policy, hook |-> hook]

(* Defaults; explicit values at their limit; a timeout above it.           *)
MCOffers ==
    [t1  |-> <<Handler("can-update", None, None, "CanUpdateMachine")>>,
     t2  |-> <<Handler("can-update", 30, "Ignore", "CanUpdateMachine"), Handler("update", 0, "Fail", "UpdateMachine")>>,
     bad |-> <<Handler("can-update", 31, "Fail", "CanUpdateMachine")>>]

MCCatalog == {"CanUpdateMachine", "UpdateMachine"}

Calm == [d \in Disturbances |-> 0]

Scenario(target, picks, budget) == [configs |-> [e1 |-> target], choices |-> picks, left |-> budget]

MCScenarios ==
    {Scenario("t1", {"e1"} \X MCTargets, [Calm EXCEPT !["edit"] = 1, !["restart"] = 2]),
     Scenario("t1", {<<"e1", "t2">>}, [Calm EXCEPT !["delete"] = 1, !["create"] = 1, !["lostCall"] = 1]),
     Scenario("t1", {<<"e2", "t2">>, <<"e2", "bad">>}, [Calm EXCEPT !["create"] = 1]),
     Scenario("t2", {}, [Calm EXCEPT !["rotate"] = 1, !["restart"] = 1]),
     Scenario("t2", {}, [Calm EXCEPT !["outage"] = 1, !["restart"] = 1]),
     Scenario("t2", {<<"e1", "t1">>}, [Calm EXCEPT !["pause"] = 1, !["edit"] = 1, !["lostCall"] = 1])}
=============================================================================
