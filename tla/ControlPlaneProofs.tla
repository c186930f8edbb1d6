-------------------------- MODULE ControlPlaneProofs --------------------------
(***************************************************************************)
(* Proofs about ControlPlane, for any number of Machines, any replicas and *)
(* any scenarios, from lists that may lag: one deletion at a time, and one *)
(* remediation at a time.                                                  *)
(***************************************************************************)
EXTENDS ControlPlaneTypes

(* What is read off the Machine objects changes only with them.            *)
LEMMA SameMachines ==
    ASSUME UNCHANGED st
    PROVE  Owned' = Owned /\ Deleting' = Deleting /\ Created' = Created
  BY DEF Owned, Live, Deleting, Created
-----------------------------------------------------------------------------
(* What goes on around the reconcile.                                      *)
Surroundings ==
    \/ CacheSync
    \/ \E m \in Ids : Progress(m) \/ Fail(m) \/ AnnotateMachine(m) \/ UserDelete(m)
    \/ \E n \in Replicas : ScaleRCP(n)
    \/ ChangeSpec
    \/ UNCHANGED vars

(* It leaves the reconcile alone, creates no Machine, and deletes none     *)
(* that no user deletes.                                                   *)
LEMMA SurroundingsStep ==
    ASSUME Typed, Surroundings
    PROVE  /\ UNCHANGED <<pc, snap, target, unreplaced, inProgress>>
           /\ Created' = Created /\ Owned' \subseteq Owned
           /\ cached' = cached \/ cached' = Owned'
           /\ used'["fault"] = 0 => used["fault"] = 0
           /\ used'["deletion"] = 0 => used["deletion"] = 0 /\ Deleting' \subseteq Deleting
<1>1. UNCHANGED <<pc, snap, target, unreplaced, inProgress>>
  BY DEF Surroundings, CacheSync, Progress, JoinEtcd, SetNodeRef, NodeNotReady,
         MachineHealthCheck, HealthCheckSucceeds,
         AnnotateMachine, RemoveMember, TerminateMachine, Fail, UserDelete, ScaleRCP,
         ChangeSpec, vars, memVars, rcpVars
<1>2. \A d \in Disturbances : used'[d] = 0 => used[d] = 0
  <2>1. UNCHANGED used \/ \E d \in Disturbances : Spend(d)
    BY DEF Surroundings, CacheSync, Progress, JoinEtcd, SetNodeRef, NodeNotReady,
           MachineHealthCheck, HealthCheckSucceeds,
         AnnotateMachine, RemoveMember, TerminateMachine, Fail, UserDelete, ScaleRCP,
           ChangeSpec, vars, boundVars, Disturbances
  <2> QED
    BY <2>1, Spending
<1>3. CASE \E m \in Ids : UserDelete(m)
  <2>1. PICK m \in Ids : UserDelete(m)
    BY <1>3
  <2>2. /\ Owned' = Owned /\ Made' = Made /\ UNCHANGED cached
    BY <2>1, Marking DEF UserDelete
  <2>3. used'["deletion"] # 0
    BY <2>1, Spending DEF UserDelete, Disturbances
  <2>4. Created' = Created
    BY <2>2, MadeKept
  <2> QED
    BY <1>1, <1>2, <2>2, <2>3, <2>4 DEF Disturbances
<1>4. CASE \E m \in Ids : TerminateMachine(m)
  <2>1. PICK m \in Ids : TerminateMachine(m)
    BY <1>4
  <2>2. /\ st' = [st EXCEPT ![m] = "gone"] /\ st[m] = "deleting"
        /\ UNCHANGED cached
    BY <2>1 DEF TerminateMachine, Deleting
  <2>3. /\ Owned' = Owned \ {m} /\ Deleting' = Deleting \ {m} /\ Made' = Made
    BY <2>2 DEF Typed, TypeOK, Owned, Live, Deleting, Made
  <2>4. Created' = Created
    BY <2>3, MadeKept
  <2> QED
    BY <1>1, <1>2, <2>2, <2>3, <2>4 DEF Disturbances
<1>5. CASE UNCHANGED st /\ (cached' = cached \/ cached' = Owned)
  <2>1. Made' = Made /\ Owned' = Owned /\ Deleting' = Deleting
    BY <1>5 DEF Made, Owned, Live, Deleting
  <2>2. Created' = Created
    BY <2>1, MadeKept
  <2> QED
    BY <1>1, <1>2, <1>5, <2>1, <2>2 DEF Disturbances
<1>6. \/ \E m \in Ids : UserDelete(m)
      \/ \E m \in Ids : TerminateMachine(m)
      \/ UNCHANGED st /\ (cached' = cached \/ cached' = Owned)
  BY DEF Surroundings, CacheSync, Progress, JoinEtcd, SetNodeRef, NodeNotReady,
         MachineHealthCheck, HealthCheckSucceeds,
         AnnotateMachine, RemoveMember, Fail, ScaleRCP, ChangeSpec, vars, machineVars
<1> QED
  BY <1>3, <1>4, <1>5, <1>6

(* The reconcile's own steps, as far as the invariants below look at them. *)
(* What it lists is, from then on, in the cache.                           *)
LEMMA ReconcileStep ==
    ASSUME Typed, Reconcile
    PROVE  /\ pc = "idle" /\ pc' \in {"hooks", "patch"}
           /\ UNCHANGED <<st, inProgress, unreplaced>>
           /\ snap'.owned = cached' /\ cached' \in {Owned, cached}
           /\ snap'.deleting = cached' \cap Deleting
           /\ snap'.inProgress = inProgress
           /\ \A e \in Disturbances : used'[e] = 0 => used[e] = 0
<1>1. PICK owned \in {Owned, cached} :
        /\ GetMachinesForCluster(owned)
        /\ snap'.owned = owned /\ snap'.deleting = owned \cap Deleting
        /\ snap'.inProgress = inProgress
        /\ pc' \in {"patch", "hooks"}
  BY DEF Reconcile, DeletingMachines
<1>2. pc = "idle" /\ UNCHANGED <<st, inProgress, unreplaced>>
  BY DEF Reconcile, rcpVars
<1> QED
  BY <1>1, <1>2, Listing

(* The hooks let the reconcile go on only with no Machine being deleted.   *)
LEMMA HooksStep ==
    ASSUME Typed, ReconcileLifecycleHooks
    PROVE  /\ pc = "hooks"
           /\ \/ pc' = "remediate" /\ snap.deleting = {}
              \/ pc' = "patch"
           /\ UNCHANGED <<st, cached, snap, inProgress, unreplaced, used>>
  BY DEF ReconcileLifecycleHooks, Goto, machineVars, rcpVars, boundVars

(* A remediation begins without a valid annotation, and clears it.         *)
LEMMA RemediateStep ==
    ASSUME Typed, ReconcileUnhealthyMachines
    PROVE  /\ pc = "remediate"
           /\ \/ pc' = "scale" /\ UNCHANGED snap
              \/ /\ pc' \in {"scale", "delete unhealthy", "patch"}
                 /\ snap.inProgress = 0 \/ StaleAnnotation
                 /\ snap' = [snap EXCEPT !.inProgress = 0]
           /\ UNCHANGED <<st, cached, inProgress, unreplaced, used>>
           /\ snap'.owned = snap.owned /\ snap'.deleting = snap.deleting
<1>1. /\ pc = "remediate"
      /\ \/ pc' = "scale" /\ UNCHANGED snap
         \/ /\ pc' \in {"scale", "delete unhealthy", "patch"}
            /\ snap.inProgress = 0 \/ StaleAnnotation
            /\ snap' = [snap EXCEPT !.inProgress = 0]
  BY DEF ReconcileUnhealthyMachines, Goto
<1>2. UNCHANGED <<st, cached, inProgress, unreplaced, used>>
  BY DEF ReconcileUnhealthyMachines, machineVars, rcpVars, boundVars
<1>3. snap \in Snapshot
  BY DEF Typed, TypeOK
<1>4. 0 \in 0..N
  BY ControlPlaneAssumption
<1>5. /\ snap'.owned = snap.owned /\ snap'.deleting = snap.deleting
  <2>1. CASE UNCHANGED snap
    BY <2>1
  <2>2. CASE snap' = [snap EXCEPT !.inProgress = 0]
    BY <1>3, <1>4, <2>2, SnapshotAnnotated
  <2> QED
    BY <1>1, <2>1, <2>2
<1> QED
  BY <1>1, <1>2, <1>5, Zenon

(* A deletion marks one Machine of the snapshot.                           *)
LEMMA DeleteStep ==
    ASSUME Typed, DeleteUnhealthyMachine \/ DeleteMachine
    PROVE  /\ pc \in {"delete unhealthy", "delete"} /\ pc' = "patch"
           /\ Owned' = Owned /\ Made' = Made /\ Created' = Created
           /\ Deleting' \subseteq Deleting \cup (snap.owned \cap Owned)
           /\ \A m, k \in Deleting' \ Deleting : m = k
           /\ UNCHANGED <<cached, inProgress, used>>
           /\ snap'.owned = snap.owned /\ snap'.deleting = snap.deleting
           /\ \/ UNCHANGED <<snap, unreplaced>>
              \/ /\ pc = "delete unhealthy"
                 /\ \/ UNCHANGED unreplaced
                    \/ unreplaced' = unreplaced + 1 /\ snap'.inProgress = Created /\ Created # 0
<1>1. /\ pc \in {"delete unhealthy", "delete"} /\ pc' = "patch" /\ MarkDeleted(target)
      /\ UNCHANGED <<cached, inProgress, used>>
  BY DEF DeleteUnhealthyMachine, DeleteMachine, rcpVars, boundVars
<1>2. target \in Ids /\ target \in snap.owned
  BY <1>1, SnapshotFields DEF Typed, TypeOK, SnapshotOwn
<1>3. Owned' = Owned /\ Made' = Made /\ Deleting' \subseteq Deleting \cup ({target} \cap Owned)
  BY <1>1, <1>2, Marking
<1>4. Created' = Created
  BY <1>3, MadeKept
<1>5. CASE DeleteUnhealthyMachine
  <2> DEFINE n == IF target \in Owned THEN Created ELSE snap.inProgress
  <2>1. n \in 0..N /\ snap \in Snapshot
    BY SnapshotFields DEF Typed, TypeOK, InOrder
  <2>2. snap' = [snap EXCEPT !.inProgress = n]
    BY <1>5 DEF DeleteUnhealthyMachine
  <2>3. target \in Owned => unreplaced' = unreplaced + 1 /\ n = Created
    BY <1>5 DEF DeleteUnhealthyMachine
  <2>4. target \notin Owned => unreplaced' = unreplaced
    BY <1>5 DEF DeleteUnhealthyMachine
  <2>5. Created # 0
    BY <1>2 DEF Typed, Seen, InOrder
  <2>6. pc = "delete unhealthy"
    BY <1>5 DEF DeleteUnhealthyMachine
  <2> HIDE DEF n
  <2>7. /\ snap'.owned = snap.owned /\ snap'.deleting = snap.deleting
        /\ snap'.inProgress = n
    BY <2>1, <2>2, SnapshotAnnotated
  <2> QED
    BY <1>1, <1>2, <1>3, <1>4, <2>3, <2>4, <2>5, <2>6, <2>7
<1>6. CASE DeleteMachine
  <2>1. UNCHANGED <<snap, unreplaced>>
    BY <1>6 DEF DeleteMachine
  <2> QED
    BY <1>1, <1>2, <1>3, <1>4, <2>1
<1> QED
  BY <1>5, <1>6

(* The end of a reconcile drops the snapshot and undoes no initialization. *)
LEMMA EndStep ==
    ASSUME Typed, PatchRKE2ControlPlane \/ Fault
    PROVE  /\ pc # "idle" /\ pc' = "idle" /\ snap' = NoSnapshot
           /\ UNCHANGED <<st, cached, unreplaced>>
           /\ used'["deletion"] = 0 => used["deletion"] = 0
           /\ used'["fault"] = 0 => used["fault"] = 0 /\ inProgress' = snap.inProgress
<1>1. CASE PatchRKE2ControlPlane
  BY <1>1 DEF PatchRKE2ControlPlane, machineVars, boundVars
<1>2. CASE Fault
  <2>1. used'["fault"] # 0 /\ (used'["deletion"] = 0 => used["deletion"] = 0)
    BY <1>2, Spending DEF Fault, Disturbances
  <2> QED
    BY <1>2, <2>1 DEF Fault, machineVars
<1> QED
  BY <1>1, <1>2

(* Scaling creates at most one Machine, new to the snapshot.               *)
LEMMA ScaleStep ==
    ASSUME Typed, Scale
    PROVE  /\ pc = "scale" /\ pc' \in {"delete", "patch"}
           /\ UNCHANGED <<snap, inProgress>>
           /\ cached' \in {Owned, cached}
           /\ \A e \in Disturbances : used'[e] = 0 => used[e] = 0
           /\ Deleting' = Deleting
           /\ \/ UNCHANGED <<st, unreplaced>>
              \/ /\ unreplaced' = 0
                 /\ Created + 1 \notin snap.owned /\ Owned' = Owned \cup {Created + 1}
<1>1. pc = "scale" /\ UNCHANGED inProgress
  BY DEF Scale, rcpVars
<1>2. /\ cached' \in {Owned, cached}
      /\ \A e \in Disturbances : used'[e] = 0 => used[e] = 0
  <2>1. CASE UNCHANGED <<cached, boundVars>>
    BY <2>1 DEF boundVars
  <2>2. CASE \E list \in {Owned, cached} : GetMachinesForCluster(list)
    BY <2>2, Listing
  <2> QED
    BY <2>1, <2>2, ScaleCases
<1>3. CASE CloneConfigsAndGenerateMachine
  <2>1. Created + 1 \notin snap.owned
    BY DEF Typed, InOrder, Seen
  <2> QED
    BY <1>1, <1>2, <1>3, <2>1, Cloning
<1>4. CASE /\ UNCHANGED <<st, unreplaced, snap>>
           /\ pc' \in {"delete", "patch"}
  BY <1>1, <1>2, <1>4 DEF Deleting
<1> QED
  BY <1>3, <1>4, ScaleCases
-----------------------------------------------------------------------------
(* While no user deletes a Machine: one deletion at a time, because a      *)
(* reconcile that still may start one has seen that there is none.  A cache*)
(* that lags knows at least the Machines that a reconcile has seen.        *)
Quiet ==
    used["deletion"] = 0 =>
        /\ \A m, k \in Deleting : m = k
        /\ pc \in {"remediate", "delete unhealthy", "scale", "delete"} => Deleting = {}
        /\ pc = "hooks" => Deleting \subseteq snap.deleting
        /\ Deleting \cup (snap.owned \cap Owned) \subseteq cached

(* Every step keeps it so.                                                 *)
LEMMA QuietStep == ASSUME Typed, Quiet, [Next]_vars PROVE Quiet'
<1> SUFFICES ASSUME used'["deletion"] = 0
             PROVE  /\ \A m, k \in Deleting' : m = k
                    /\ pc' \in {"remediate", "delete unhealthy", "scale", "delete"} => Deleting' = {}
                    /\ pc' = "hooks" => Deleting' \subseteq snap'.deleting
                    /\ Deleting' \cup (snap'.owned \cap Owned') \subseteq cached'
  BY DEF Quiet
<1>0. Deleting \subseteq Owned /\ Deleting' \subseteq Owned'
  BY DEF Owned
<1>1. CASE Surroundings
  BY <1>0, <1>1, SurroundingsStep DEF Quiet
<1>2. CASE Reconcile
  <2>1. Deleting' = Deleting /\ Owned' = Owned
    BY <1>2, ReconcileStep, SameMachines
  <2>2. used["deletion"] = 0
    BY <1>2, ReconcileStep DEF Disturbances
  <2>3. Deleting \subseteq cached'
    BY <1>0, <1>2, <2>2, ReconcileStep DEF Quiet
  <2> QED
    BY <1>2, <2>1, <2>2, <2>3, ReconcileStep DEF Quiet
<1>3. CASE ReconcileLifecycleHooks
  <2>1. Deleting' = Deleting /\ Owned' = Owned
    BY <1>3, HooksStep, SameMachines
  <2> QED
    BY <1>3, <2>1, HooksStep DEF Quiet
<1>4. CASE ReconcileUnhealthyMachines
  <2>1. Deleting' = Deleting /\ Owned' = Owned
    BY <1>4, RemediateStep, SameMachines
  <2> QED
    BY <1>4, <2>1, RemediateStep DEF Quiet
<1>5. CASE DeleteUnhealthyMachine \/ DeleteMachine
  BY <1>0, <1>5, DeleteStep DEF Quiet
<1>6. CASE Scale
  <2>1. Owned' = Owned \/ (Created + 1 \notin snap.owned /\ Owned' = Owned \cup {Created + 1})
    BY <1>6, ScaleStep, SameMachines
  <2>2. used["deletion"] = 0
    BY <1>6, ScaleStep DEF Disturbances
  <2> QED
    BY <1>0, <1>6, <2>1, <2>2, ScaleStep DEF Quiet
<1>7. CASE PatchRKE2ControlPlane \/ Fault
  <2>1. Deleting' = Deleting /\ Owned' = Owned /\ snap'.owned = {}
    BY <1>7, EndStep DEF Deleting, Owned, Live, NoSnapshot
  <2> QED
    BY <1>7, <2>1, EndStep DEF Quiet
<1> QED
  BY <1>1, <1>2, <1>3, <1>4, <1>5, <1>6, <1>7 DEF Next, Controller, Surroundings

(* The controller takes Machines down one at a time, for scale down,       *)
(* rollout and remediation together, from lists that may lag.              *)
THEOREM OneAtATime == Spec => []OneDisruption
<1>1. Init => Quiet
  BY DEF Init, Quiet, Deleting, NoSnapshot, Disturbances
<1>2. Typed /\ Quiet /\ [Next]_vars => Quiet'
  BY QuietStep
<1>3. Quiet => OneDisruption
  BY DEF Quiet, OneDisruption
<1> QED
  BY <1>1, <1>2, <1>3, TypedAlways, PTL DEF Spec
-----------------------------------------------------------------------------
(* Until a reconcile is cut off: as long as the Machine remediated last has*)
(* no replacement, the annotation says that no Machine was created since,  *)
(* in the API server or in the memory of the reconcile that will save it.  *)
Paced ==
    used["fault"] = 0 =>
        /\ unreplaced \in {0, 1}
        /\ unreplaced # 0 => /\ Created # 0 /\ pc # "delete unhealthy"
                             /\ Created = IF pc = "idle" THEN inProgress ELSE snap.inProgress

(* No Machine of a snapshot is younger than all that were created.         *)
LEMMA CreatedSeen == ASSUME Typed PROVE \A m \in snap.owned : ~(m > Created)
<1>1. snap.owned \subseteq 1..Created /\ Created \in 0..N
  BY DEF Typed, Seen, InOrder
<1> QED
  BY <1>1, ControlPlaneAssumption

(* Every step keeps it so.                                                 *)
LEMMA PacedStep == ASSUME Typed, Paced, [Next]_vars PROVE Paced'
<1> SUFFICES ASSUME used'["fault"] = 0
             PROVE  /\ unreplaced' \in {0, 1}
                    /\ unreplaced' # 0 =>
                          /\ Created' # 0 /\ pc' # "delete unhealthy"
                          /\ Created' = IF pc' = "idle" THEN inProgress' ELSE snap'.inProgress
  BY DEF Paced
<1> USE DEF Paced
<1>1. CASE Surroundings
  BY <1>1, SurroundingsStep
<1>2. CASE Reconcile
  <2>1. used["fault"] = 0
    BY <1>2, ReconcileStep DEF Disturbances
  <2> QED
    BY <1>2, <2>1, ReconcileStep, SameMachines
<1>3. CASE ReconcileLifecycleHooks
  BY <1>3, HooksStep, SameMachines
<1>4. CASE ReconcileUnhealthyMachines
  <2>1. used["fault"] = 0 /\ Created' = Created /\ UNCHANGED unreplaced /\ pc = "remediate"
    BY <1>4, RemediateStep, SameMachines
  <2>2. ASSUME unreplaced # 0 PROVE ~(snap.inProgress = 0 \/ StaleAnnotation)
    <3>1. snap.inProgress = Created /\ Created # 0
      BY <2>1, <2>2
    <3>2. \A m \in snap.owned : ~(m > Created)
      BY CreatedSeen
    <3> QED
      BY <3>1, <3>2 DEF StaleAnnotation
  <2> QED
    BY <1>4, <2>1, <2>2, RemediateStep
<1>5. CASE DeleteUnhealthyMachine \/ DeleteMachine
  <2>1. used["fault"] = 0 /\ pc' = "patch" /\ Created' = Created
    BY <1>5, DeleteStep
  <2>2. CASE UNCHANGED <<snap, unreplaced>> /\ pc # "idle"
    BY <2>1, <2>2
  <2>3. CASE pc = "delete unhealthy"
    <3>1. unreplaced = 0
      BY <2>1, <2>3
    <3>2. unreplaced + 1 = 1
      BY <3>1
    <3> QED
      BY <1>5, <2>1, <3>1, <3>2, DeleteStep, Zenon
  <2> QED
    BY <1>5, <2>2, <2>3, DeleteStep
<1>6. CASE Scale
  <2>1. used["fault"] = 0
    BY <1>6, ScaleStep DEF Disturbances
  <2> QED
    BY <1>6, <2>1, ScaleStep, SameMachines
<1>7. CASE PatchRKE2ControlPlane \/ Fault
  BY <1>7, EndStep, SameMachines
<1> QED
  BY <1>1, <1>2, <1>3, <1>4, <1>5, <1>6, <1>7 DEF Next, Controller, Surroundings

(* Until a reconcile is cut off before its patch, no second Machine is     *)
(* remediated before the replacement of the first has been created.        *)
THEOREM PacedRemediation == Spec => []RemediationPaced
<1>1. Init => Paced
  BY DEF Init, Paced
<1>2. Typed /\ Paced /\ [Next]_vars => Paced'
  BY PacedStep
<1>3. Paced => RemediationPaced
  <2>1. unreplaced \in {0, 1} => unreplaced <= 1
    OBVIOUS
  <2> QED
    BY <2>1, Zenon DEF Paced, RemediationPaced
<1> QED
  BY <1>1, <1>2, <1>3, TypedAlways, PTL DEF Spec
=============================================================================
