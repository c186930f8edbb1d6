--------------------------- MODULE MCLifecycleHooks ---------------------------
(* LifecycleHooks for TLC; the other constants are in the configurations.  *)
EXTENDS LifecycleHooks

Calm == [userDeletes |-> 0, nodeDeletes |-> 0, faults |-> 0,
         otherHooks |-> FALSE, deleteRCP |-> FALSE, managed |-> TRUE, lag |-> FALSE]

(* One disturbance at a time; a legacy control plane with its own.         *)
MCBounds ==
    {[Calm EXCEPT !.lag = TRUE, !.faults = 1],
     [Calm EXCEPT !.userDeletes = 1],
     [Calm EXCEPT !.deleteRCP = TRUE],
     [Calm EXCEPT !.otherHooks = TRUE],
     [Calm EXCEPT !.nodeDeletes = 1, !.managed = FALSE],
     [Calm EXCEPT !.nodeDeletes = 1]}

DeletedRCP == {[Calm EXCEPT !.deleteRCP = TRUE, !.lag = TRUE]}
OneNodeDelete == {[Calm EXCEPT !.nodeDeletes = 1]}
OneUserDelete == {[Calm EXCEPT !.userDeletes = 1]}
=============================================================================
