--------------------------- MODULE MCInPlaceUpdate ---------------------------
EXTENDS InPlaceUpdate

Base == [version |-> "v1", files |-> {"f1"}, config |-> "c1", server |-> "s1",
         template |-> "t1", shape |-> "small", meta |-> "x"]

(* In place: a version with files, a template renamed; metadata removed.   *)
(* By replacement: another configuration, another server configuration.    *)
Upgrade == [Base EXCEPT !.version = "v2", !.files = {"f2"}, !.template = "t2", !.meta = None]
Reconfigured == [Base EXCEPT !.version = "v2", !.config = "c2"]
ServerChange == [Base EXCEPT !.server = "s2"]
NoFiles == [Base EXCEPT !.version = "v2", !.files = None]

Calm == [d \in Disturbances |-> 0]

Scenario(n, replicas, maxSurge, specs, left0) ==
    [machines |-> 1..n, replicas |-> replicas, maxSurge |-> maxSurge,
     spec |-> Base, specs |-> specs, left |-> left0]

MCSpecs == {Base, Upgrade, Reconfigured, ServerChange, NoFiles}

(* Two edits around an interruption; creations that fail or whose answer   *)
(* is lost, and a user's deletion; two annotated Machines; a sick one and  *)
(* surge; a failed plan and one of Rancher's.                              *)
MCScenarios ==
    {Scenario(2, 2, 1, {Base, Upgrade, Reconfigured}, [Calm EXCEPT !["edit"] = 2, !["interrupt"] = 1]),
     Scenario(2, 2, 1, {Upgrade}, [Calm EXCEPT !["edit"] = 1, !["fail"] = 1, !["lost"] = 1, !["delete"] = 1]),
     Scenario(2, 2, 1, {Upgrade, ServerChange}, [Calm EXCEPT !["edit"] = 1, !["mark"] = 1, !["remediate"] = 1]),
     Scenario(3, 3, 0, {Upgrade, ServerChange}, [Calm EXCEPT !["edit"] = 1, !["sick"] = 1]),
     Scenario(2, 2, 1, {Upgrade}, [Calm EXCEPT !["edit"] = 1, !["planFails"] = 1, !["foreign"] = 1])}

(* One edit that removes the files.                                        *)
FilesScenarios == {Scenario(2, 2, 1, {NoFiles}, [Calm EXCEPT !["edit"] = 1])}

(* Two edits in a row.                                                     *)
LegacyScenarios == {Scenario(2, 2, 1, {Upgrade, Base}, [Calm EXCEPT !["edit"] = 2])}
=============================================================================
