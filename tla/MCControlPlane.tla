---------------------------- MODULE MCControlPlane ----------------------------
EXTENDS ControlPlane

Scenario(initial, wanted, budget_) == [initial |-> initial, replicas |-> wanted, budget |-> budget_]

Calm == [d \in Disturbances |-> 0]

(* A new control plane; five Machines of which two fail; rollout, scaling  *)
(* and a failure at once; an annotated Machine next to a false alarm.      *)
Safety ==
    {Scenario(0, 1, [Calm EXCEPT !["scaling"] = 1, !["alarm"] = 1, !["lag"] = 1, !["fault"] = 1]),
     Scenario(5, 5, [Calm EXCEPT !["rollout"] = 1, !["failure"] = 2]),
     Scenario(3, 3, [Calm EXCEPT !["rollout"] = 1, !["scaling"] = 1, !["failure"] = 1, !["lag"] = 1]),
     Scenario(3, 3, [Calm EXCEPT !["annotation"] = 1, !["alarm"] = 1, !["lag"] = 1])}

(* A rollout while a host fails, or while a user deletes a Machine; an     *)
(* annotated Machine next to a false alarm; a scale up from lagging lists. *)
Rollout ==
    {Scenario(3, 3, [Calm EXCEPT !["rollout"] = 1, !["failure"] = 1, !["fault"] = 1]),
     Scenario(3, 3, [Calm EXCEPT !["rollout"] = 1, !["deletion"] = 1, !["fault"] = 1]),
     Scenario(3, 3, [Calm EXCEPT !["annotation"] = 1, !["alarm"] = 1, !["fault"] = 1]),
     Scenario(1, 1, [Calm EXCEPT !["scaling"] = 1, !["lag"] = 2, !["fault"] = 1])}

(* For the violations: a false alarm next to a failure; the first Machine, *)
(* unseen; the last step of a scale down with two failures; a user's       *)
(* deletion when a new Machine fails; a Machine too many that fails.       *)
Alarm == {Scenario(3, 3, [Calm EXCEPT !["failure"] = 1, !["alarm"] = 1])}
First == {Scenario(0, 1, [Calm EXCEPT !["lag"] = 2])}
LastStep == {Scenario(4, 3, [Calm EXCEPT !["failure"] = 2])}
Deletion == {Scenario(3, 3, [Calm EXCEPT !["rollout"] = 1, !["failure"] = 1, !["deletion"] = 1])}
Overshoot == {Scenario(1, 3, [Calm EXCEPT !["lag"] = 1, !["failure"] = 1])}
=============================================================================
