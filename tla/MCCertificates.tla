--------------------------- MODULE MCCertificates ---------------------------
EXTENDS Certificates

Calm == [d \in Disturbances |-> 0]

(* A user who supplies authorities while a reconcile is interrupted; a     *)
(* kubeconfig that is supplied or expires; an etcd CA that changes.        *)
MCScenarios ==
    {[Calm EXCEPT !["supply"] = 2, !["fault"] = 1],
     [Calm EXCEPT !["supply"] = 1, !["kubeconfig"] = 1, !["expire"] = 1],
     [Calm EXCEPT !["rotate"] = 1, !["deleteEtcdCA"] = 1, !["forget"] = 1, !["fault"] = 1]}

(* A user deletes an authority.                                            *)
DeletionScenarios == {[Calm EXCEPT !["delete"] = 1]}
=============================================================================
