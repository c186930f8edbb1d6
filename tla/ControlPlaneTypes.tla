--------------------------- MODULE ControlPlaneTypes ---------------------------
(***************************************************************************)
(* Type correctness of ControlPlane, for any number of Machines, any       *)
(* replicas and any scenarios, strengthened to an inductive invariant.     *)
(***************************************************************************)
EXTENDS ControlPlane, FiniteSetTheorems, TLAPS

(* The Machines created so far are the first ones.                         *)
Made == {m \in Ids : st[m] # "absent"}
InOrder == Created \in 0..N /\ Made = 1..Created

(* Caches and snapshots know only of Machines that were created.           *)
Seen == cached \subseteq Made /\ snap.owned \subseteq Made

(* What a snapshot says is about the Machines it lists.                    *)
SnapshotOwn ==
    /\ snap.flagged \subseteq snap.owned /\ snap.outdated \subseteq snap.owned
    /\ snap.deleting \subseteq snap.owned
    /\ target # 0 => target \in snap.owned

Typed == TypeOK /\ InOrder /\ Seen /\ SnapshotOwn
-----------------------------------------------------------------------------
(* A snapshot whose annotation changes is a snapshot.                      *)
LEMMA SnapshotAnnotated ==
    ASSUME NEW x \in Snapshot, NEW n \in 0..N
    PROVE  /\ [x EXCEPT !.inProgress = n] \in Snapshot
           /\ [x EXCEPT !.inProgress = n].inProgress = n
           /\ [x EXCEPT !.inProgress = n].owned = x.owned
           /\ [x EXCEPT !.inProgress = n].deleting = x.deleting
           /\ [x EXCEPT !.inProgress = n].flagged = x.flagged
           /\ [x EXCEPT !.inProgress = n].outdated = x.outdated
           /\ [x EXCEPT !.inProgress = n].agent = x.agent
           /\ [x EXCEPT !.inProgress = n].ref = x.ref
           /\ [x EXCEPT !.inProgress = n].replicas = x.replicas
           /\ [x EXCEPT !.inProgress = n].initialized = x.initialized
  BY DEF Snapshot

(* The fields of a snapshot.                                               *)
LEMMA SnapshotFields ==
    ASSUME NEW x \in Snapshot
    PROVE  /\ x.owned \subseteq Ids /\ x.flagged \subseteq Ids /\ x.outdated \subseteq Ids
           /\ x.deleting \subseteq Ids /\ x.agent \subseteq Ids /\ x.ref \subseteq Ids
           /\ x.replicas \in Nat /\ x.initialized \in 0..2 /\ x.inProgress \in 0..N
  BY DEF Snapshot

(* The empty snapshot is one.                                              *)
LEMMA NoSnapshotType == NoSnapshot \in Snapshot
  BY ControlPlaneAssumption DEF NoSnapshot, Snapshot

(* What exists, and how much of it, depends on Made alone.                 *)
LEMMA MadeKept ==
    ASSUME Typed, Made' = Made
    PROVE  Created' = Created /\ InOrder'
<1>1. Created' = Created
  BY DEF Created, Made
<1> QED
  BY <1>1 DEF Typed, InOrder

(* A Machine marked for deletion stays among the owned ones.               *)
LEMMA Marking ==
    ASSUME Typed, NEW m \in Ids, MarkDeleted(m)
    PROVE  /\ st' \in [Ids -> {"absent", "live", "deleting", "gone"}]
           /\ Owned' = Owned /\ Made' = Made
           /\ Deleting \subseteq Deleting'
           /\ Deleting' \subseteq Deleting \cup ({m} \cap Owned)
  BY DEF Typed, TypeOK, MarkDeleted, Owned, Live, Deleting, Made

(* A new Machine is one that was absent, the next in order.                *)
LEMMA Cloning ==
    ASSUME Typed, CloneConfigsAndGenerateMachine
    PROVE  /\ st' \in [Ids -> {"absent", "live", "deleting", "gone"}]
           /\ Owned \subseteq Owned' /\ Deleting' = Deleting /\ Made \subseteq Made'
           /\ InOrder'
           /\ pc' = "patch" /\ UNCHANGED <<snap, target>>
           /\ \/ UNCHANGED <<st, unreplaced>>
              \/ unreplaced' = 0 /\ Created + 1 \in Ids /\ Owned' = Owned \cup {Created + 1}
<1>1. CASE Created < N
  <2>1. Created + 1 \in Ids /\ st[Created + 1] = "absent"
    BY <1>1, ControlPlaneAssumption DEF Typed, InOrder, Made, Ids
  <2>2. /\ st' = [st EXCEPT ![Created + 1] = "live"] /\ unreplaced' = 0
        /\ pc' = "patch" /\ UNCHANGED <<snap, target>>
    BY <1>1 DEF CloneConfigsAndGenerateMachine, Goto
  <2>3. st' \in [Ids -> {"absent", "live", "deleting", "gone"}]
    BY <2>2 DEF Typed, TypeOK
  <2>4. Owned' = Owned \cup {Created + 1} /\ Deleting' = Deleting
    <3>1. \A m \in Ids : st'[m] = IF m = Created + 1 THEN "live" ELSE st[m]
      BY <2>2 DEF Typed, TypeOK
    <3>2. st[Created + 1] = "absent" /\ Created + 1 \in Ids
      BY <2>1
    <3> QED
      BY <3>1, <3>2 DEF Owned, Live, Deleting
  <2>5. Made' = Made \cup {Created + 1}
    BY <2>1, <2>2 DEF Typed, TypeOK, Made
  <2>6. Created' = Created + 1 /\ Made' = 1..(Created + 1)
    <3>1. Made' = 1..(Created + 1)
      BY <2>5 DEF Typed, InOrder
    <3>2. Cardinality(1..(Created + 1)) = Created + 1
      BY FS_Interval DEF Typed, InOrder
    <3> QED
      BY <3>1, <3>2 DEF Created, Made
  <2> QED
    BY <1>1, <2>1, <2>2, <2>3, <2>4, <2>5, <2>6, ControlPlaneAssumption DEF InOrder, Typed
<1>2. CASE ~(Created < N)
  <2>1. UNCHANGED <<st, unreplaced>> /\ pc' = "patch" /\ UNCHANGED <<snap, target>>
    BY <1>2 DEF CloneConfigsAndGenerateMachine, Goto
  <2>2. Owned' = Owned /\ Deleting' = Deleting /\ Made' = Made
    BY <2>1 DEF Owned, Live, Deleting, Made
  <2> QED
    BY <2>1, <2>2, MadeKept DEF Typed, TypeOK
<1> QED
  BY <1>1, <1>2
-----------------------------------------------------------------------------
(* Steps that leave the Machine objects and the reconcile alone keep what  *)
(* is said of them.                                                        *)
LEMMA Aside ==
    ASSUME Typed, UNCHANGED <<st, cached, pc, snap, target>>
    PROVE  /\ Owned' = Owned /\ Live' = Live /\ Deleting' = Deleting
           /\ InOrder' /\ Seen' /\ SnapshotOwn'
<1>1. Made' = Made /\ Owned' = Owned /\ Live' = Live /\ Deleting' = Deleting
  BY DEF Made, Owned, Live, Deleting
<1> QED
  BY <1>1, MadeKept DEF Typed, Seen, SnapshotOwn

(* A disturbance is counted, and nothing forgets one.                      *)
LEMMA Spending ==
    ASSUME Typed, NEW d \in Disturbances, Spend(d)
    PROVE  /\ used' \in [Disturbances -> Nat] /\ UNCHANGED budget
           /\ used'[d] # 0 /\ \A e \in Disturbances : used'[e] = 0 => used[e] = 0
<1>1. used \in [Disturbances -> Nat] /\ used' = [used EXCEPT ![d] = used[d] + 1]
  BY DEF Typed, TypeOK, Spend
<1>2. used[d] + 1 \in Nat /\ used[d] + 1 # 0
  BY <1>1
<1> QED
  BY <1>1, <1>2 DEF Spend

(* A list of the Machines, of now or of earlier, knows none that was not   *)
(* created.                                                                *)
LEMMA Listing ==
    ASSUME Typed, NEW list, GetMachinesForCluster(list)
    PROVE  /\ list \in {Owned, cached} /\ list \subseteq Made
           /\ cached' \subseteq Made /\ list = cached'
           /\ UNCHANGED budget /\ used' \in [Disturbances -> Nat]
           /\ \A e \in Disturbances : used'[e] = 0 => used[e] = 0
<1>1. Owned \subseteq Made /\ cached \subseteq Made
  BY DEF Typed, Seen, Made, Owned, Live, Deleting
<1>2. CASE list = Owned /\ cached' = Owned /\ UNCHANGED boundVars
  BY <1>1, <1>2 DEF boundVars, Typed, TypeOK
<1>3. CASE list = cached /\ Spend("lag") /\ UNCHANGED cached
  BY <1>1, <1>3, Spending DEF Disturbances
<1> QED
  BY <1>2, <1>3 DEF GetMachinesForCluster

(* The reads of Reconcile give a snapshot.                                 *)
LEMMA ReconcileType == ASSUME Typed, Reconcile PROVE Typed'
<1>1. PICK owned \in {Owned, cached} :
        /\ GetMachinesForCluster(owned)
        /\ snap' = [owned |-> owned,
                    deleting |-> DeletingMachines(owned),
                    ref |-> owned \cap ref,
                    agent |-> AgentHealthy(owned),
                    etcd |-> EtcdMemberHealthy(owned),
                    flagged |-> owned \cap flagged,
                    recovered |-> (owned \cap recovered) \ DeletingMachines(owned),
                    annotated |-> owned \cap annotated,
                    outdated |-> owned \cap outdated,
                    replicas |-> replicas,
                    initialized |-> initialized,
                    inProgress |-> inProgress]
        /\ UNCHANGED saved \/ SaveConditions(owned)
        /\ pc' \in {"patch", "hooks"}
  BY Zenon DEF Reconcile
<1>2. UNCHANGED <<st, ref, flagged, recovered, annotated, outdated, nodeVars, rcpVars,
                  target, unreplaced>>
      /\ pc = "idle"
  BY DEF Reconcile
<1>3. /\ owned \subseteq Made /\ cached' \subseteq Made /\ UNCHANGED budget
      /\ used' \in [Disturbances -> Nat]
  BY <1>1, <1>2, Listing
<1>4. Made \subseteq Ids
  BY DEF Made
<1>5. /\ DeletingMachines(owned) \subseteq owned
      /\ AgentHealthy(owned) \subseteq owned
      /\ EtcdMemberHealthy(owned) \subseteq owned
  BY DEF DeletingMachines, AgentHealthy, EtcdMemberHealthy, Inspected, PassedOver
<1>6. replicas \in Nat
  BY ControlPlaneAssumption DEF Typed, TypeOK
<1>7. snap' \in Snapshot /\ snap'.owned = owned /\ snap'.flagged \subseteq owned
      /\ snap'.outdated \subseteq owned /\ snap'.deleting \subseteq owned
  BY <1>1, <1>3, <1>4, <1>5, <1>6 DEF Snapshot, Typed, TypeOK
<1>8. saved' \in [agent : SUBSET Ids, etcd : SUBSET Ids]
  <2>1. saved.agent \subseteq Ids /\ saved.etcd \subseteq Ids
        /\ saved \in [agent : SUBSET Ids, etcd : SUBSET Ids]
    BY DEF Typed, TypeOK
  <2>2. owned \subseteq Ids
    BY <1>3, <1>4
  <2>3. \/ UNCHANGED saved
        \/ saved' = [agent |-> (saved.agent \ owned) \cup AgentHealthy(owned),
                     etcd |-> (saved.etcd \ owned) \cup EtcdMemberHealthy(owned)]
    BY <1>1 DEF SaveConditions
  <2> QED
    BY <1>5, <2>1, <2>2, <2>3
<1>9. Made' = Made /\ Owned' = Owned /\ Deleting' = Deleting
  BY <1>2 DEF Made, Owned, Live, Deleting
<1>10. TypeOK'
  BY <1>1, <1>2, <1>3, <1>4, <1>7, <1>8, <1>9 DEF Typed, TypeOK, healthVars, nodeVars, rcpVars
<1> QED
  BY <1>1, <1>2, <1>3, <1>7, <1>9, <1>10, MadeKept DEF Typed, TypeOK, Seen, SnapshotOwn

(* The hooks only add requests and releases, of Machines being deleted.    *)
LEMMA HooksType == ASSUME Typed, ReconcileLifecycleHooks PROVE Typed'
<1>1. /\ UNCHANGED <<machineVars, ready, down, members, rcpVars, unreplaced, boundVars>>
      /\ UNCHANGED <<snap, target>> /\ pc = "hooks" /\ pc' \in {"remediate", "patch"}
  BY Zenon DEF ReconcileLifecycleHooks, Goto
<1>2. removeReq' \subseteq Deleting /\ released' \subseteq Deleting
  BY DEF ReconcileLifecycleHooks, Typed, TypeOK
<1>3. Made' = Made /\ Owned' = Owned /\ Deleting' = Deleting
  BY <1>1 DEF Made, Owned, Live, Deleting, machineVars
<1>4. TypeOK'
  BY <1>1, <1>2, <1>3 DEF Typed, TypeOK, machineVars, healthVars, rcpVars, boundVars
<1> QED
  BY <1>1, <1>3, <1>4, MadeKept DEF Typed, Seen, SnapshotOwn, machineVars

(* Remediation picks a flagged Machine of the snapshot.                    *)
LEMMA RemediateType == ASSUME Typed, ReconcileUnhealthyMachines PROVE Typed'
<1>1. /\ UNCHANGED <<st, ref, annotated, saved, outdated, cached, nodeVars, rcpVars,
                     unreplaced, boundVars>>
      /\ pc = "remediate"
      /\ recovered' \subseteq recovered /\ flagged' \subseteq flagged
  BY DEF ReconcileUnhealthyMachines, CleanUpRecovered
<1>2. Made' = Made /\ Owned' = Owned /\ Deleting' = Deleting
  BY <1>1 DEF Made, Owned, Live, Deleting
<1>3. target = 0
  BY <1>1 DEF Typed, TypeOK
<1>4. \/ UNCHANGED <<snap, target>> /\ pc' = "scale"
      \/ \E m \in snap.flagged :
           /\ snap' = [snap EXCEPT !.inProgress = 0]
           /\ \/ pc' = "delete unhealthy" /\ target' = m
              \/ pc' \in {"scale", "patch"} /\ UNCHANGED target
  BY DEF ReconcileUnhealthyMachines, Goto, MachineToBeRemediated
<1>5. 0 \in 0..N /\ snap \in Snapshot /\ snap.flagged \subseteq Ids /\ snap.flagged \subseteq snap.owned
  <2>1. 0 \in 0..N
    BY ControlPlaneAssumption
  <2> QED
    BY <2>1, SnapshotFields DEF Typed, TypeOK, SnapshotOwn
<1>6. /\ snap' \in Snapshot /\ snap'.owned = snap.owned /\ snap'.flagged = snap.flagged
      /\ snap'.outdated = snap.outdated /\ snap'.deleting = snap.deleting
  <2>1. snap' = snap \/ snap' = [snap EXCEPT !.inProgress = 0]
    BY <1>4
  <2>2. CASE snap' = [snap EXCEPT !.inProgress = 0]
    BY <1>5, <2>2, SnapshotAnnotated
  <2> QED
    BY <1>5, <2>1, <2>2
<1>7. /\ target' \in 0..N /\ (target' # 0 <=> pc' \in {"delete unhealthy", "delete"})
      /\ target' # 0 => target' \in snap.owned
      /\ pc' \in {"scale", "delete unhealthy", "patch"}
  <2>1. CASE pc' = "delete unhealthy" /\ target' \in snap.flagged
    <3>1. target' \in Ids /\ target' \in snap.owned
      BY <1>5, <2>1
    <3>2. target' \in 0..N /\ target' # 0
      BY <3>1, ControlPlaneAssumption DEF Ids
    <3> QED
      BY <2>1, <3>1, <3>2
  <2>2. CASE pc' \in {"scale", "patch"} /\ target' = 0
    BY <1>5, <2>2
  <2> QED
    BY <1>3, <1>4, <2>1, <2>2, Zenon
<1>8. TypeOK'
  BY <1>1, <1>2, <1>6, <1>7 DEF Typed, TypeOK, healthVars, nodeVars, rcpVars, boundVars
<1> QED
  BY <1>1, <1>2, <1>6, <1>7, <1>8, MadeKept DEF Typed, Seen, SnapshotOwn

(* The two deletions mark their target, which is in the snapshot.          *)
LEMMA DeleteType ==
    ASSUME Typed, DeleteUnhealthyMachine \/ DeleteMachine
    PROVE  Typed'
<1>1. pc \in {"delete unhealthy", "delete"} /\ MarkDeleted(target) /\ target' = 0 /\ pc' = "patch"
      /\ UNCHANGED <<ref, flagged, healthVars, outdated, cached, nodeVars, rcpVars, boundVars>>
  BY DEF DeleteUnhealthyMachine, DeleteMachine
<1>2. target \in Ids
  BY <1>1, SnapshotFields DEF Typed, TypeOK, SnapshotOwn
<1>3. /\ st' \in [Ids -> {"absent", "live", "deleting", "gone"}]
      /\ Owned' = Owned /\ Made' = Made /\ Deleting \subseteq Deleting'
  BY <1>1, <1>2, Marking
<1>4. /\ snap' \in Snapshot /\ snap'.owned = snap.owned /\ snap'.flagged = snap.flagged
      /\ snap'.outdated = snap.outdated /\ snap'.deleting = snap.deleting /\ unreplaced' \in Nat
  <2>1. CASE DeleteUnhealthyMachine
    <3> DEFINE n == IF target \in Owned THEN Created ELSE snap.inProgress
    <3>1. n \in 0..N /\ snap \in Snapshot
      BY SnapshotFields DEF Typed, TypeOK, InOrder
    <3>2. snap' = [snap EXCEPT !.inProgress = n]
      BY <2>1 DEF DeleteUnhealthyMachine
    <3>3. unreplaced' \in Nat
      <4>1. unreplaced' = unreplaced \/ unreplaced' = unreplaced + 1
        BY <2>1 DEF DeleteUnhealthyMachine
      <4>2. unreplaced \in Nat
        BY DEF Typed, TypeOK
      <4> QED
        BY <4>1, <4>2
    <3> HIDE DEF n
    <3> QED
      BY <3>1, <3>2, <3>3, SnapshotAnnotated
  <2>2. CASE DeleteMachine
    BY <2>2 DEF DeleteMachine, Typed, TypeOK
  <2> QED
    BY <2>1, <2>2
<1>5. 0 \in 0..N
  BY ControlPlaneAssumption
<1>6. TypeOK'
  BY <1>1, <1>3, <1>4, <1>5 DEF Typed, TypeOK, healthVars, nodeVars, rcpVars, boundVars
<1> QED
  BY <1>1, <1>3, <1>4, <1>6, MadeKept DEF Typed, Seen, SnapshotOwn

(* A Machine taken down by a scale down is one of the snapshot.            *)
LEMMA ScaleDownTarget ==
    ASSUME NEW out, ScaleDownControlPlane(out)
    PROVE  /\ UNCHANGED <<st, unreplaced, snap>>
           /\ \/ pc' = "delete" /\ target' \in snap.owned
              \/ pc' = "patch" /\ UNCHANGED target
<1>1. MachinesForScaleDown(out) \subseteq snap.owned
  BY DEF MachinesForScaleDown
<1>2. PICK m \in MachinesForScaleDown(out) :
        \/ pc' = "delete" /\ target' = m /\ UNCHANGED snap
        \/ Goto("patch")
  BY Zenon DEF ScaleDownControlPlane
<1>3. UNCHANGED <<st, unreplaced>>
  BY DEF ScaleDownControlPlane
<1> QED
  BY <1>1, <1>2, <1>3 DEF Goto

(* Scaling ends in a new Machine, a victim, or nothing.                    *)
LEMMA ScaleCases ==
    ASSUME Scale
    PROVE  /\ \/ CloneConfigsAndGenerateMachine
              \/ /\ UNCHANGED <<st, unreplaced, snap>>
                 /\ \/ pc' = "delete" /\ target' \in snap.owned
                    \/ pc' = "patch" /\ UNCHANGED target
           /\ \/ UNCHANGED <<cached, boundVars>>
              \/ \E list \in {Owned, cached} : GetMachinesForCluster(list)
<1> DEFINE Stop == UNCHANGED <<st, unreplaced, snap>> /\ pc' = "patch" /\ UNCHANGED target
<1>1. ASSUME ScaleUpControlPlane PROVE CloneConfigsAndGenerateMachine \/ Stop
  BY <1>1 DEF ScaleUpControlPlane, Goto
<1>2. ASSUME InitializeControlPlane
      PROVE  /\ CloneConfigsAndGenerateMachine \/ Stop
             /\ \E list \in {Owned, cached} : GetMachinesForCluster(list)
  BY <1>2, Zenon DEF InitializeControlPlane, Goto
<1>3. ASSUME UpgradeControlPlane
      PROVE  ScaleUpControlPlane \/ ScaleDownControlPlane(snap.outdated) \/ Stop
  BY <1>3 DEF UpgradeControlPlane, Goto
<1>4. \/ InitializeControlPlane
      \/ /\ UNCHANGED <<cached, boundVars>>
         /\ UpgradeControlPlane \/ ScaleUpControlPlane \/ ScaleDownControlPlane({}) \/ Stop
  BY DEF Scale, Goto
<1> QED
  BY <1>1, <1>2, <1>3, <1>4, ScaleDownTarget

(* Scaling keeps the types.                                                *)
LEMMA ScaleType == ASSUME Typed, Scale PROVE Typed'
<1>1. pc = "scale" /\ target = 0
      /\ UNCHANGED <<ref, flagged, healthVars, outdated, nodeVars, rcpVars>>
  BY DEF Scale, Typed, TypeOK
<1>0. cached' \subseteq Made /\ UNCHANGED budget /\ used' \in [Disturbances -> Nat]
  <2>1. CASE UNCHANGED <<cached, boundVars>>
    BY <2>1 DEF Typed, TypeOK, Seen, boundVars
  <2> QED
    BY <2>1, ScaleCases, Listing
<1>4. Made \subseteq Ids
  BY DEF Made
<1>2. CASE CloneConfigsAndGenerateMachine
  <2>0. unreplaced' = unreplaced \/ unreplaced' = 0
    BY <1>2, Cloning
  <2>1. /\ st' \in [Ids -> {"absent", "live", "deleting", "gone"}]
        /\ Owned \subseteq Owned' /\ Deleting' = Deleting /\ Made \subseteq Made'
        /\ InOrder' /\ pc' = "patch" /\ UNCHANGED <<snap, target>>
    BY <1>2, Cloning
  <2>2. TypeOK'
    BY <1>0, <1>4, <1>1, <2>0, <2>1 DEF Typed, TypeOK, healthVars, nodeVars, rcpVars
  <2> QED
    BY <1>0, <1>1, <2>1, <2>2 DEF Typed, Seen, SnapshotOwn
<1>3. CASE /\ UNCHANGED <<st, unreplaced, snap>>
           /\ \/ pc' = "delete" /\ target' \in snap.owned
              \/ pc' = "patch" /\ UNCHANGED target
  <2>1. Made' = Made /\ Owned' = Owned /\ Deleting' = Deleting
    BY <1>3 DEF Made, Owned, Live, Deleting
  <2>2. /\ target' \in 0..N /\ (target' # 0 <=> pc' = "delete")
        /\ target' # 0 => target' \in snap.owned
    <3>1. snap.owned \subseteq Ids
      BY SnapshotFields DEF Typed, TypeOK
    <3>2. 0 \in 0..N /\ \A m \in Ids : m \in 0..N /\ m # 0
      BY ControlPlaneAssumption DEF Ids
    <3> QED
      BY <1>1, <1>3, <3>1, <3>2, Zenon
  <2>3. pc' \in {"delete", "patch"}
    BY <1>3
  <2>4. TypeOK'
    BY <1>0, <1>4, <1>1, <1>3, <2>1, <2>2, <2>3 DEF Typed, TypeOK, healthVars, nodeVars, rcpVars
  <2> QED
    BY <1>0, <1>1, <1>3, <2>1, <2>2, <2>4, MadeKept DEF Typed, Seen, SnapshotOwn
<1> QED
  BY <1>2, <1>3, ScaleCases, Zenon

(* The end of a reconcile, planned or not, keeps the types.                *)
LEMMA EndType == ASSUME Typed, PatchRKE2ControlPlane \/ Fault PROVE Typed'
<1>1. /\ pc' = "idle" /\ snap' = NoSnapshot /\ target' = 0
      /\ UNCHANGED <<machineVars, nodeVars, replicas, unreplaced, budget>>
  BY DEF PatchRKE2ControlPlane, Fault, Spend, boundVars, rcpVars
<1>2. /\ initialized' \in 0..2 /\ inProgress' \in 0..N
      /\ used' \in [Disturbances -> Nat]
  <2>1. CASE PatchRKE2ControlPlane
    <3>1. initialized' \in 0..2
      BY <2>1 DEF PatchRKE2ControlPlane, UpdateStatus
    <3>2. inProgress' \in 0..N
      BY <2>1, SnapshotFields DEF PatchRKE2ControlPlane, Typed, TypeOK
    <3> QED
      BY <2>1, <3>1, <3>2 DEF PatchRKE2ControlPlane, boundVars, Typed, TypeOK
  <2>2. CASE Fault
    BY <2>2, Spending DEF Fault, Disturbances, rcpVars, Typed, TypeOK
  <2> QED
    BY <2>1, <2>2
<1>3. Made' = Made /\ Owned' = Owned /\ Deleting' = Deleting
  BY <1>1 DEF machineVars, Made, Owned, Live, Deleting
<1>4. 0 \in 0..N
  BY ControlPlaneAssumption
<1>5. TypeOK'
  BY <1>1, <1>2, <1>3, <1>4, NoSnapshotType DEF machineVars, healthVars, nodeVars, Typed, TypeOK
<1>6. /\ snap'.owned = {} /\ snap'.flagged = {} /\ snap'.outdated = {} /\ snap'.deleting = {}
  BY <1>1 DEF NoSnapshot
<1> QED
  BY <1>1, <1>3, <1>5, <1>6, MadeKept DEF machineVars, Typed, Seen, SnapshotOwn

(* So do the environment's steps that leave the Machine objects alone ...  *)
LEMMA AsideType ==
    ASSUME Typed,
           \/ \E m \in Ids : \/ JoinEtcd(m) \/ SetNodeRef(m) \/ Fail(m) \/ NodeNotReady(m)
                             \/ MachineHealthCheck(m) \/ HealthCheckSucceeds(m)
                             \/ AnnotateMachine(m) \/ RemoveMember(m)
           \/ ChangeSpec
           \/ \E n \in Replicas : ScaleRCP(n)
    PROVE  Typed'
<1>1. UNCHANGED <<st, cached, pc, snap, target, unreplaced, budget, released, removeReq>>
  BY DEF JoinEtcd, SetNodeRef, Fail, NodeNotReady, MachineHealthCheck,
         HealthCheckSucceeds, AnnotateMachine, RemoveMember,
         ChangeSpec, ScaleRCP, machineVars, nodeVars, memVars, boundVars, Spend
<1>2. /\ Owned' = Owned /\ Live' = Live /\ Deleting' = Deleting
      /\ InOrder' /\ Seen' /\ SnapshotOwn'
  BY <1>1, Aside
<1>3. used' \in [Disturbances -> Nat]
  <2>1. UNCHANGED used \/ \E d \in Disturbances : Spend(d)
    BY DEF JoinEtcd, SetNodeRef, Fail, NodeNotReady, MachineHealthCheck,
         HealthCheckSucceeds, AnnotateMachine, RemoveMember,
           ChangeSpec, ScaleRCP, boundVars, Disturbances
  <2> QED
    BY <2>1, Spending DEF Typed, TypeOK
<1>4. replicas' \in Replicas /\ UNCHANGED <<initialized, inProgress>>
  BY DEF JoinEtcd, SetNodeRef, Fail, NodeNotReady, MachineHealthCheck,
         HealthCheckSucceeds, AnnotateMachine, RemoveMember,
         ChangeSpec, ScaleRCP, rcpVars, Typed, TypeOK
<1>5. ref' \subseteq Owned /\ flagged' \subseteq Owned /\ outdated' \subseteq Owned
      /\ ready' \subseteq Owned /\ recovered' \subseteq Owned \ flagged' /\ annotated' \subseteq Owned
      /\ UNCHANGED saved
  BY DEF JoinEtcd, SetNodeRef, Fail, NodeNotReady, MachineHealthCheck,
         HealthCheckSucceeds, AnnotateMachine, RemoveMember,
         ChangeSpec, ScaleRCP, machineVars, healthVars, nodeVars, Typed, TypeOK, Owned
<1>6. down' \subseteq Ids /\ members' \subseteq Ids
  BY DEF JoinEtcd, SetNodeRef, Fail, NodeNotReady, MachineHealthCheck,
         HealthCheckSucceeds, AnnotateMachine, RemoveMember,
         ChangeSpec, ScaleRCP, nodeVars, Typed, TypeOK
<1>7. TypeOK'
  BY <1>1, <1>2, <1>3, <1>4, <1>5, <1>6 DEF Typed, TypeOK
<1> QED
  BY <1>2, <1>7 DEF Typed

(* ... and those that mark, remove or list Machines.                       *)
LEMMA MachineType ==
    ASSUME Typed, CacheSync \/ \E m \in Ids : UserDelete(m) \/ TerminateMachine(m)
    PROVE  Typed'
<1>1. UNCHANGED <<pc, snap, target, unreplaced, budget, rcpVars, members>>
  BY DEF UserDelete, TerminateMachine, CacheSync, memVars, boundVars, nodeVars, Spend
<1>2. ASSUME NEW m \in Ids, UserDelete(m) PROVE Typed'
  <2>1. /\ st' \in [Ids -> {"absent", "live", "deleting", "gone"}]
        /\ Owned' = Owned /\ Made' = Made /\ Deleting \subseteq Deleting'
    BY <1>2, Marking DEF UserDelete
  <2>2. /\ UNCHANGED <<ref, flagged, healthVars, outdated, cached, nodeVars>>
        /\ used' \in [Disturbances -> Nat]
    BY <1>2, Spending DEF UserDelete, Disturbances
  <2>3. TypeOK'
    BY <1>1, <2>1, <2>2 DEF Typed, TypeOK, healthVars, nodeVars, rcpVars
  <2> QED
    BY <1>1, <2>1, <2>2, <2>3, MadeKept DEF Typed, Seen, SnapshotOwn
<1>3. ASSUME NEW m \in Ids, TerminateMachine(m) PROVE Typed'
  <2>1. /\ st' = [st EXCEPT ![m] = "gone"] /\ st[m] = "deleting"
        /\ ref' = ref \ {m} /\ flagged' = flagged \ {m} /\ outdated' = outdated \ {m}
        /\ recovered' = recovered \ {m} /\ annotated' = annotated \ {m} /\ UNCHANGED saved
        /\ ready' = ready \ {m} /\ down' = down \cup {m} /\ removeReq' = removeReq \ {m}
        /\ released' = released \ {m} /\ UNCHANGED <<cached, boundVars>>
    BY <1>3 DEF TerminateMachine, Deleting
  <2>2. /\ st' \in [Ids -> {"absent", "live", "deleting", "gone"}]
        /\ Owned' = Owned \ {m} /\ Deleting' = Deleting \ {m} /\ Made' = Made
    BY <2>1 DEF Typed, TypeOK, Owned, Live, Deleting, Made
  <2>3. TypeOK'
    BY <1>1, <2>1, <2>2 DEF Typed, TypeOK, rcpVars, boundVars
  <2> QED
    BY <1>1, <2>1, <2>2, <2>3, MadeKept DEF Typed, Seen, SnapshotOwn
<1>4. CASE CacheSync
  <2>1. cached' = Owned /\ UNCHANGED <<st, ref, flagged, healthVars, outdated, nodeVars, boundVars>>
    BY <1>4 DEF CacheSync
  <2>2. Made' = Made /\ Owned' = Owned /\ Deleting' = Deleting /\ Owned \subseteq Made
        /\ Owned \subseteq Ids
    BY <2>1 DEF Made, Owned, Live, Deleting
  <2>3. TypeOK'
    BY <1>1, <2>1, <2>2 DEF Typed, TypeOK, healthVars, nodeVars, rcpVars, boundVars
  <2> QED
    BY <1>1, <2>1, <2>2, <2>3, MadeKept DEF Typed, Seen, SnapshotOwn
<1> QED
  BY <1>2, <1>3, <1>4
-----------------------------------------------------------------------------
(* The initial states have the types.                                      *)
LEMMA TypedInit == ASSUME Init PROVE Typed
<1>1. PICK s \in Scenarios :
         /\ st = [m \in Ids |-> IF m <= s.initial THEN "live" ELSE "absent"]
         /\ ref = 1..s.initial
         /\ initialized = IF s.initial = 0 THEN 0 ELSE 2
         /\ replicas = s.replicas
         /\ budget = s.budget
  BY DEF Init
<1>2. s.initial \in 0..N /\ s.replicas \in Replicas /\ s.budget \in [Disturbances -> Nat]
  BY ControlPlaneAssumption
<1>3. Made = 1..s.initial /\ Owned = 1..s.initial /\ 1..s.initial \subseteq Ids
  BY <1>1, <1>2, ControlPlaneAssumption DEF Made, Owned, Live, Deleting, Ids
<1>4. Created = s.initial
  <2>1. Cardinality(1..s.initial) = s.initial
    BY <1>2, FS_Interval
  <2> QED
    BY <1>3, <2>1 DEF Created, Made
<1>5. InOrder
  BY <1>2, <1>3, <1>4 DEF InOrder
<1>6. 0 \in 0..N /\ initialized \in 0..2
  BY <1>1, ControlPlaneAssumption
<1>7. st \in [Ids -> {"absent", "live", "deleting", "gone"}]
  BY <1>1
<1>8. used \in [Disturbances -> Nat]
  BY DEF Init
<1>9. TypeOK
  BY <1>1, <1>2, <1>3, <1>6, <1>7, <1>8, NoSnapshotType DEF TypeOK, Init
<1>10. Seen /\ SnapshotOwn
  BY <1>1, <1>3 DEF Init, Seen, SnapshotOwn, NoSnapshot
<1> QED
  BY <1>5, <1>9, <1>10 DEF Typed

(* Every step keeps them.                                                  *)
LEMMA TypedStep == ASSUME Typed, [Next]_vars PROVE Typed'
<1>1. CASE Controller
  BY <1>1, ReconcileType, HooksType, RemediateType, DeleteType, ScaleType, EndType DEF Controller
<1>2. CASE Fault
  BY <1>2, EndType
<1>3. CASE CacheSync \/ \E m \in Ids : UserDelete(m) \/ TerminateMachine(m)
  BY <1>3, MachineType
<1>4. CASE \/ \E m \in Ids : \/ JoinEtcd(m) \/ SetNodeRef(m) \/ Fail(m) \/ NodeNotReady(m)
                             \/ MachineHealthCheck(m) \/ HealthCheckSucceeds(m)
                             \/ AnnotateMachine(m) \/ RemoveMember(m)
           \/ ChangeSpec
           \/ \E n \in Replicas : ScaleRCP(n)
  BY <1>4, AsideType
<1>5. CASE UNCHANGED vars
  <2>1. UNCHANGED <<st, cached, pc, snap, target>>
    BY <1>5 DEF vars, machineVars, memVars
  <2>2. TypeOK'
    BY <1>5, <2>1, Aside DEF vars, machineVars, healthVars, nodeVars, rcpVars, memVars, boundVars, Typed, TypeOK
  <2> QED
    BY <2>1, <2>2, Aside DEF Typed
<1> QED
  BY <1>1, <1>2, <1>3, <1>4, <1>5 DEF Next, Progress

(* The types hold throughout.                                              *)
THEOREM TypedAlways == Spec => []Typed
  BY TypedInit, TypedStep, PTL DEF Spec

(* Every variable keeps its type; a NodeRef, a flag, a removal request or  *)
(* a released hook is that of a Machine that can have it.                  *)
THEOREM TypeCorrect == Spec => []TypeOK
<1>1. Typed => TypeOK
  BY DEF Typed
<1> QED
  BY <1>1, TypedAlways, PTL
=============================================================================
