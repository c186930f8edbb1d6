----------------------------- MODULE ControlPlane -----------------------------
(***************************************************************************)
(* The RKE2ControlPlane reconcile as a decision maker: which Machine it    *)
(* creates or deletes, and when, to bring the control plane to the wanted  *)
(* number of up-to-date, healthy Machines without costing etcd its quorum. *)
(*                                                                         *)
(* One reconcile runs at a time.  It reads a snapshot, then runs hooks,    *)
(* remediation and scaling on that snapshot, and its deferred patch saves  *)
(* the RKE2ControlPlane.  Nodes, etcd, MachineHealthCheck and users move   *)
(* between those steps.  The hook is taken at the grain LifecycleHooks     *)
(* justifies: one release at a time, after the member has left etcd.       *)
(***************************************************************************)
EXTENDS Integers, FiniteSets

CONSTANTS
    N,            \* Machines 1..N, in the order of their creation
    Replicas,     \* values the user gives spec.replicas
    MaxSurge,     \* spec.rolloutStrategy.rollingUpdate.maxSurge
    Marked,       \* Machines with the delete-machine annotation
    SameNames,    \* is a Node named like its Machine?
    Scenarios     \* where to start from, and how often what may disturb

Disturbances == {"scaling", "rollout", "deletion", "failure", "alarm", "annotation",
                 "lag", "fault"}

ASSUME ControlPlaneAssumption ==
    /\ N \in Nat
    /\ Replicas \subseteq Nat \ {0}
    /\ MaxSurge \in {0, 1}
    /\ MaxSurge = 0 => \A n \in Replicas : n >= 3
    /\ Marked \subseteq 1..N
    /\ SameNames \in BOOLEAN
    /\ Scenarios \subseteq [initial : 0..N, replicas : Replicas,
                             budget : [Disturbances -> Nat]]

Ids == 1..N

VARIABLES
    st,          \* Machine objects: "absent", "live", "deleting" or "gone"
    ref,         \* Machines with a NodeRef
    flagged,     \* Machines MachineHealthCheck wants remediated by their owner
    recovered,   \* Machines it found healthy again, still marked as waiting for it
    annotated,   \* Machines with the remediate-machine annotation
    outdated,    \* Machines that do not match the RKE2ControlPlane's spec
    saved,       \* Machines with a health condition that was saved as True
    cached,      \* Machines in the informer cache
    ready,       \* Machines whose Node reports Ready
    down,        \* Machines whose host, or its provisioning, has failed
    members,     \* etcd members
    removeReq,   \* Machines whose node is annotated for removal from etcd
    released,    \* Machines whose pre-terminate hook was removed
    replicas,    \* spec.replicas
    initialized, \* 0: not; 1: status.controlPlaneInitialized; 2: condition, too
    inProgress,  \* RemediationInProgressAnnotation: Machines created when it
                 \* was set (0: not set)
    pc, snap, target, \* the reconcile: where it is, what it read, its victim
    unreplaced,  \* history: remediations since a Machine was last created
    budget, used \* bound on each kind of disturbance, and how many there were

healthVars == <<recovered, annotated, saved>>
machineVars == <<st, ref, flagged, healthVars, outdated, cached>>
nodeVars == <<ready, down, members, removeReq, released>>
rcpVars == <<replicas, initialized, inProgress>>
memVars == <<pc, snap, target>>
boundVars == <<budget, used>>
vars == <<machineVars, nodeVars, rcpVars, memVars, unreplaced, boundVars>>

Live == {m \in Ids : st[m] = "live"}
Deleting == {m \in Ids : st[m] = "deleting"}
Owned == Live \cup Deleting
Created == Cardinality({m \in Ids : st[m] # "absent"})

Newest(S) == CHOOSE m \in S : \A k \in S : k <= m

(* etcd serves, and with it the workload cluster, while a majority of its  *)
(* members is up.                                                          *)
Majority(S) == 2 * Cardinality(S \ down) > Cardinality(S)
Quorum == Majority(members)

Snapshot == [owned : SUBSET Ids, deleting : SUBSET Ids, ref : SUBSET Ids,
             agent : SUBSET Ids, etcd : SUBSET Ids, flagged : SUBSET Ids,
             recovered : SUBSET Ids, annotated : SUBSET Ids, outdated : SUBSET Ids,
             replicas : Nat, initialized : 0..2, inProgress : 0..N]

NoSnapshot == [owned |-> {}, deleting |-> {}, ref |-> {}, agent |-> {}, etcd |-> {},
               flagged |-> {}, recovered |-> {}, annotated |-> {}, outdated |-> {},
               replicas |-> 0, initialized |-> 0, inProgress |-> 0]

(* Machines 1..initial are an established control plane.                   *)
Init ==
    /\ \E s \in Scenarios :
         /\ st = [m \in Ids |-> IF m <= s.initial THEN "live" ELSE "absent"]
         /\ ref = 1..s.initial
         /\ initialized = IF s.initial = 0 THEN 0 ELSE 2
         /\ replicas = s.replicas
         /\ budget = s.budget
    /\ flagged = {}
    /\ recovered = {}
    /\ annotated = {}
    /\ saved = [agent |-> ref, etcd |-> ref]
    /\ outdated = {}
    /\ cached = ref
    /\ ready = ref
    /\ down = {}
    /\ members = ref
    /\ removeReq = {}
    /\ released = {}
    /\ inProgress = 0
    /\ pc = "idle"
    /\ snap = NoSnapshot
    /\ target = 0
    /\ unreplaced = 0
    /\ used = [d \in Disturbances |-> 0]

Spend(d) ==
    /\ used[d] < budget[d]
    /\ used' = [used EXCEPT ![d] = @ + 1]
    /\ UNCHANGED budget
-----------------------------------------------------------------------------
(* The reconcile *)

Goto(label) == pc' = label /\ UNCHANGED <<snap, target>>

(* GetMachinesForCluster lists the informer cache, for the "uncached"      *)
(* manager as well: what it finds may be of an earlier time, but of no     *)
(* earlier one than the list before.                                       *)
GetMachinesForCluster(list) ==
    \/ list = Owned /\ cached' = Owned /\ UNCHANGED boundVars
    \/ list = cached /\ list # Owned /\ Spend("lag") /\ UNCHANGED cached

DeletingUnnoticed(owned) == {}

(* The Machines being deleted, which the answers to syncMachines reveal.   *)
DeletingMachines(owned) == owned \cap Deleting

(* The Node is found by the name of the Machine or, as long as every       *)
(* Machine has its NodeRef, by that (hasProvisioningMachine).  A Machine   *)
(* whose Node is passed over keeps the conditions saved before.            *)
PassedOver(owned) ==
    IF ~SameNames /\ ~(owned \subseteq ref) THEN owned \cap ref ELSE {}

(* reconcileControlPlaneConditions inspects Machines only once the         *)
(* Initialized condition is there; the others' conditions are Unknown, or  *)
(* False while a Machine is being deleted.                                 *)
Inspected(owned) == ((owned \cap ref) \ PassedOver(owned)) \ DeletingMachines(owned)

(* UpdateAgentConditions: the Node is ready.                               *)
AgentHealthy(owned) ==
    IF initialized = 2 THEN (Inspected(owned) \cap ready) \cup (PassedOver(owned) \cap saved.agent)
    ELSE {}

(* updateManagedEtcdConditions: there is a Node.                           *)
EtcdMemberHealthy(owned) ==
    IF initialized = 2 THEN Inspected(owned) \cup (PassedOver(owned) \cap saved.etcd) ELSE {}

(* The conditions are saved; what is never read again is not kept here.    *)
SaveConditions(owned) ==
    saved' = IF SameNames THEN saved
             ELSE [agent |-> (saved.agent \ owned) \cup AgentHealthy(owned),
                   etcd  |-> (saved.etcd \ owned) \cup EtcdMemberHealthy(owned)]

(* reconcileNormal up to the lifecycle hooks.  The list comes from the     *)
(* cache, what it says of a Machine from the answer of syncMachines' patch,*)
(* which fails on a Machine that is gone.  The conditions of an initialized*)
(* control plane need the workload cluster.                                *)
Reconcile ==
    /\ pc = "idle"
    /\ \E owned \in {Owned, cached} :
         /\ GetMachinesForCluster(owned)
         /\ snap' = [owned |-> owned,
                     deleting |-> DeletingMachines(owned),
                     ref |-> owned \cap ref,
                     agent |-> AgentHealthy(owned),
                     etcd |-> EtcdMemberHealthy(owned),
                     flagged |-> owned \cap flagged,
                     recovered |-> (owned \cap recovered) \ DeletingMachines(owned),
                     annotated |-> owned \cap annotated,
                     outdated |-> owned \cap outdated,
                     replicas |-> replicas,
                     initialized |-> initialized,
                     inProgress |-> inProgress]
         /\ IF ~(owned \subseteq Owned) \/ (initialized = 2 /\ ~Quorum)
              THEN pc' = "patch" /\ UNCHANGED saved
              ELSE pc' = "hooks" /\ SaveConditions(owned)
    /\ UNCHANGED <<st, ref, flagged, recovered, annotated, outdated, nodeVars, rcpVars,
                   target, unreplaced>>

(* ForwardEtcdLeadership refuses a candidate without a NodeRef, unless the *)
(* Machine to go has none itself.                                          *)
ForwardFails(m, candidate) == m \in snap.ref /\ candidate \notin snap.ref

(* With other Machines around, the hook of m is released after its member  *)
(* was asked to leave etcd and has left.                                   *)
HookReleased(m) ==
    Cardinality(snap.owned) > 1 /\ m \in snap.ref => m \notin members

(* reconcileLifecycleHooks: any Machine being deleted ends the reconcile   *)
(* here.  The hook is run for one of them, while no other has lost its,    *)
(* and fails when the leadership cannot be forwarded.                      *)
ReconcileLifecycleHooks ==
    /\ pc = "hooks"
    /\ \/ /\ snap.deleting = {}
          /\ Goto("remediate")
          /\ UNCHANGED <<removeReq, released>>
       \/ /\ snap.deleting \cap released # {}
          /\ Goto("patch")
          /\ UNCHANGED <<removeReq, released>>
       \/ \E m \in snap.deleting :
            LET active == snap.owned \ snap.deleting
                several == Cardinality(snap.owned) > 1
            IN  /\ snap.deleting \cap released = {}
                /\ \/ /\ several
                      /\ ~Quorum \/ (active # {} /\ ForwardFails(m, Newest(active)))
                      /\ UNCHANGED <<removeReq, released>>
                   \/ /\ several => Quorum /\ (active # {} => ~ForwardFails(m, Newest(active)))
                      /\ removeReq' = IF several THEN removeReq \cup ({m} \cap snap.ref \cap Deleting)
                                      ELSE removeReq
                      /\ released' = IF HookReleased(m) THEN released \cup ({m} \cap Deleting)
                                     ELSE released
                /\ Goto("patch")
    /\ UNCHANGED <<machineVars, ready, down, members, rcpVars, unreplaced, boundVars>>

(* getMachineToBeRemediated.  An annotated Machine comes first.  Without a *)
(* NodeRef on both sides the Machine with the etcd issue, then with the    *)
(* agent issue, then the oldest wins; of two Machines with a NodeRef each  *)
(* "is to be remediated before" the other, so that the order of the        *)
(* unsorted list decides.                                                  *)
PickMachineToBeRemediated(i, j) ==
    \/ i \in snap.annotated /\ j \notin snap.annotated
    \/ /\ i \in snap.annotated <=> j \in snap.annotated
       /\ \/ i \in snap.ref /\ j \in snap.ref
          \/ /\ ~(i \in snap.ref /\ j \in snap.ref)
             /\ \/ i \notin snap.etcd /\ j \in snap.etcd
                \/ /\ i \in snap.etcd <=> j \in snap.etcd
                   /\ \/ i \notin snap.agent /\ j \in snap.agent
                      \/ (i \in snap.agent <=> j \in snap.agent) /\ i < j

MachineToBeRemediated ==
    {i \in snap.flagged : \A j \in snap.flagged \ {i} : PickMachineToBeRemediated(i, j)}

CanSafelyRemoveOffByOne(m) ==
    LET remaining == members \ ({m} \cap snap.ref)
    IN  Cardinality(remaining \cap snap.ref \cap snap.etcd) > Cardinality(remaining) \div 2 + 1

(* canSafelyRemoveEtcdMember: the members but m's, counted healthy by the  *)
(* EtcdMemberHealthy condition of their Machine.                           *)
CanSafelyRemoveEtcdMember(m) ==
    LET remaining == members \ ({m} \cap snap.ref)
        healthy == remaining \cap snap.ref \cap snap.etcd
    IN  Cardinality(healthy) >= Cardinality(remaining) \div 2 + 1

AnnotationAlwaysStale == TRUE

(* A Machine younger than the annotation makes it stale.                   *)
StaleAnnotation == \E m \in snap.owned : m > snap.inProgress

(* An initialized control plane is not remediated with one Machine left,   *)
(* or while a healthy one is being provisioned or any one deleted.         *)
TransitionalState ==
    \/ Cardinality(snap.owned) <= 1
    \/ ~(snap.owned \ snap.flagged \subseteq snap.ref)
    \/ snap.deleting # {}

(* ... nor without a healthy Machine to take over etcd's leadership, which *)
(* by then has a NodeRef.                                                  *)
RemediationAllowed(m) ==
    /\ CanSafelyRemoveEtcdMember(m)
    /\ snap.owned \ snap.flagged # {}

(* The OwnerRemediated condition of Machines that are healthy again is     *)
(* deleted, whatever MachineHealthCheck has found of them since.           *)
CleanUpRecovered ==
    /\ recovered' = recovered \ snap.recovered
    /\ flagged' = flagged \ snap.recovered

(* reconcileUnhealthyMachines up to the deletion.  Every refusal lets the  *)
(* reconcile go on to scaling; only an unreachable etcd is an error.  No   *)
(* Machine carries RemediationForAnnotation, so checkRetryLimits allows    *)
(* every remediation.                                                      *)
ReconcileUnhealthyMachines ==
    /\ pc = "remediate"
    /\ CleanUpRecovered
    /\ \/ /\ snap.flagged = {}
          /\ Goto("scale")
       \/ /\ snap.flagged # {}
          /\ snap.inProgress # 0 /\ ~StaleAnnotation
          /\ Goto("scale")
       \/ \E m \in MachineToBeRemediated :
            /\ snap.inProgress = 0 \/ StaleAnnotation
            /\ snap' = [snap EXCEPT !.inProgress = 0]
            /\ LET checked == snap.initialized # 0
                   refused == TransitionalState \/ (Quorum /\ ~RemediationAllowed(m))
               IN  \/ /\ ~checked \/ (~refused /\ Quorum)
                      /\ pc' = "delete unhealthy" /\ target' = m
                   \/ /\ checked /\ refused
                      /\ pc' = "scale" /\ UNCHANGED target
                   \/ /\ checked /\ ~refused /\ ~Quorum
                      /\ pc' = "patch" /\ UNCHANGED target
    /\ UNCHANGED <<st, ref, annotated, saved, outdated, cached, nodeVars, rcpVars, unreplaced, boundVars>>

MarkDeletedAtOnce(m) == st' = [st EXCEPT ![m] = "gone"]

(* The API server marks a Machine for deletion, once.                      *)
MarkDeleted(m) ==
    st' = IF st[m] = "live" THEN [st EXCEPT ![m] = "deleting"] ELSE st

(* ... the deletion, which fails on a Machine that is gone, and the        *)
(* annotation, still in memory.                                            *)
DeleteUnhealthyMachine ==
    /\ pc = "delete unhealthy"
    /\ MarkDeleted(target)
    /\ snap' = [snap EXCEPT !.inProgress = IF target \in Owned THEN Created ELSE @]
    /\ unreplaced' = IF target \in Owned THEN unreplaced + 1 ELSE unreplaced
    /\ target' = 0
    /\ pc' = "patch"
    /\ UNCHANGED <<ref, flagged, healthVars, outdated, cached, nodeVars, rcpVars, boundVars>>
-----------------------------------------------------------------------------
(* Scaling and rollout *)

(* preflightChecks: no Machine is being deleted (the hooks have seen to    *)
(* that) and both health conditions hold of every Machine not excluded.    *)
PreflightChecks(excluded) ==
    /\ snap.deleting = {}
    /\ snap.owned \ excluded \subseteq snap.agent \cap snap.etcd

(* cloneConfigsAndGenerateMachine.  With no Machine left to create (the    *)
(* bound N) it fails, as it does on an infrastructure quota.               *)
CloneConfigsAndGenerateMachine ==
    /\ IF Created < N
         THEN /\ st' = [st EXCEPT ![Created + 1] = "live"]
              /\ unreplaced' = 0
         ELSE UNCHANGED <<st, unreplaced>>
    /\ Goto("patch")

(* initializeControlPlane lists the Machines once more.                    *)
InitializeControlPlane ==
    \E list \in {Owned, cached} :
      /\ GetMachinesForCluster(list)
      /\ IF list = {} THEN CloneConfigsAndGenerateMachine
         ELSE Goto("patch") /\ UNCHANGED <<st, unreplaced>>

ScaleUpControlPlane ==
    IF PreflightChecks({})
      THEN CloneConfigsAndGenerateMachine
      ELSE Goto("patch") /\ UNCHANGED <<st, unreplaced>>

MachinesForScaleDownUpToDate(out) ==
    IF snap.owned \subseteq out THEN snap.owned ELSE snap.owned \ out

(* selectMachineForScaleDown; which of the eligible Machines it is depends *)
(* on the failure domains.                                                 *)
MachinesForScaleDown(out) ==
    LET choices == <<out \cap Marked, snap.owned \cap Marked, out,
                     snap.owned \ snap.agent, snap.owned>>
    IN  {m \in snap.owned : \E i \in 1..5 : /\ m \in choices[i]
                                           /\ \A j \in 1..(i - 1) : choices[j] = {}}

(* scaleDownControlPlane up to the deletion: preflight checks but for the  *)
(* victim, and the leadership forwarded to the newest Machine, which needs *)
(* a NodeRef if the victim has one.                                        *)
ScaleDownControlPlane(out) ==
    /\ \E m \in MachinesForScaleDown(out) :
         IF /\ PreflightChecks({m})
            /\ Quorum
            /\ ~ForwardFails(m, Newest(snap.owned))
           THEN pc' = "delete" /\ target' = m /\ UNCHANGED snap
           ELSE Goto("patch")
    /\ UNCHANGED <<st, unreplaced>>

MaxNodesWithoutSurge == snap.replicas

(* upgradeControlPlane: surge up to maxNodes, then delete an outdated one. *)
MaxNodes == snap.replicas + MaxSurge

UpgradeControlPlane ==
    IF snap.initialized = 0 \/ ~Quorum
      THEN Goto("patch") /\ UNCHANGED <<st, unreplaced>>
      ELSE IF Cardinality(snap.owned) < MaxNodes
             THEN ScaleUpControlPlane
             ELSE ScaleDownControlPlane(snap.outdated)

(* The last part of reconcileNormal.                                       *)
Scale ==
    /\ pc = "scale"
    /\ LET machines == Cardinality(snap.owned)
       IN  \/ /\ snap.outdated # {}
              /\ UpgradeControlPlane /\ UNCHANGED <<cached, boundVars>>
           \/ /\ snap.outdated = {} /\ machines = 0
              /\ InitializeControlPlane
           \/ /\ snap.outdated = {} /\ machines > 0 /\ machines < snap.replicas
              /\ ScaleUpControlPlane /\ UNCHANGED <<cached, boundVars>>
           \/ /\ snap.outdated = {} /\ machines > snap.replicas
              /\ ScaleDownControlPlane({}) /\ UNCHANGED <<cached, boundVars>>
           \/ /\ snap.outdated = {} /\ machines = snap.replicas
              /\ Goto("patch") /\ UNCHANGED <<st, cached, unreplaced, boundVars>>
    /\ UNCHANGED <<ref, flagged, healthVars, outdated, nodeVars, rcpVars>>

(* The end of scaleDownControlPlane.                                       *)
DeleteMachine ==
    /\ pc = "delete"
    /\ MarkDeleted(target)
    /\ target' = 0
    /\ pc' = "patch"
    /\ UNCHANGED <<ref, flagged, healthVars, outdated, cached, nodeVars, rcpVars, snap, unreplaced, boundVars>>

(* updateStatus: the Initialized condition repeats the flag before the     *)
(* flag itself is set, from what the workload cluster answers.             *)
UpdateStatus ==
    initialized' = IF initialized # 0 THEN 2
                   ELSE IF members # {} /\ Quorum THEN 1 ELSE 0

(* The deferred end of Reconcile: the status, and the patch that saves it  *)
(* with the annotation.                                                    *)
PatchRKE2ControlPlane ==
    /\ pc = "patch"
    /\ UpdateStatus
    /\ inProgress' = snap.inProgress
    /\ pc' = "idle"
    /\ snap' = NoSnapshot
    /\ target' = 0
    /\ UNCHANGED <<machineVars, nodeVars, replicas, unreplaced, boundVars>>

(* The manager restarts, or the deferred patch fails: what the reconcile   *)
(* did to Machines stays, what it would have saved is lost.                *)
Fault ==
    /\ pc # "idle"
    /\ Spend("fault")
    /\ pc' = "idle"
    /\ snap' = NoSnapshot
    /\ target' = 0
    /\ UNCHANGED <<machineVars, nodeVars, rcpVars, unreplaced>>
-----------------------------------------------------------------------------
(* The environment *)

(* The informer cache catches up, as long as it is going to lag.           *)
CacheSync ==
    /\ used["lag"] < budget["lag"]
    /\ cached' = Owned
    /\ UNCHANGED <<st, ref, flagged, healthVars, outdated, nodeVars, rcpVars, memVars, unreplaced, boundVars>>

(* The first node starts etcd, a later one joins it.                       *)
JoinEtcd(m) ==
    /\ m \in Owned \ (members \cup down \cup removeReq)
    /\ members = {} \/ Quorum
    /\ members' = members \cup {m}
    /\ UNCHANGED <<machineVars, ready, down, removeReq, released, rcpVars, memVars, unreplaced, boundVars>>

SetNodeRef(m) ==
    /\ m \in (Live \cap members) \ (ref \cup down)
    /\ Quorum
    /\ ref' = ref \cup {m}
    /\ ready' = ready \cup {m}
    /\ UNCHANGED <<st, flagged, healthVars, outdated, cached, down, members, removeReq, released,
                   rcpVars, memVars, unreplaced, boundVars>>

(* A host fails for good; its Node says so some time later.                *)
Fail(m) ==
    /\ m \in Owned \ down
    /\ Spend("failure")
    /\ down' = down \cup {m}
    /\ UNCHANGED <<machineVars, ready, members, removeReq, released, rcpVars, memVars, unreplaced>>

NodeNotReady(m) ==
    /\ m \in ready \cap down
    /\ Quorum
    /\ ready' = ready \ {m}
    /\ UNCHANGED <<machineVars, down, members, removeReq, released, rcpVars, memVars,
                   unreplaced, boundVars>>

(* MachineHealthCheck flags a Machine that is annotated, or whose Node is  *)
(* not ready or does not come up in time; and, as an alarm, one that is    *)
(* well, which it may find healthy again.                                  *)
Unhealthy == (ref \ ready) \cup (down \ ref) \cup annotated

MachineHealthCheck(m) ==
    /\ m \in Live \ flagged
    /\ \/ m \in Unhealthy /\ UNCHANGED boundVars
       \/ m \notin Unhealthy /\ Spend("alarm")
    /\ flagged' = flagged \cup {m}
    /\ recovered' = recovered \ {m}
    /\ UNCHANGED <<st, ref, annotated, saved, outdated, cached, nodeVars, rcpVars, memVars, unreplaced>>

HealthCheckSucceeds(m) ==
    /\ m \in flagged \ Unhealthy
    /\ flagged' = flagged \ {m}
    /\ recovered' = recovered \cup {m}
    /\ UNCHANGED <<st, ref, annotated, saved, outdated, cached, nodeVars, rcpVars, memVars, unreplaced, boundVars>>

AnnotateMachine(m) ==
    /\ m \in Live \ annotated
    /\ Spend("annotation")
    /\ annotated' = annotated \cup {m}
    /\ UNCHANGED <<st, ref, flagged, recovered, saved, outdated, cached, nodeVars, rcpVars, memVars, unreplaced>>

(* RKE2 removes the member of an annotated node, never the last one.       *)
RemoveMember(m) ==
    /\ m \in removeReq \cap members
    /\ Quorum /\ members # {m}
    /\ members' = members \ {m}
    /\ UNCHANGED <<machineVars, ready, down, removeReq, released, rcpVars, memVars, unreplaced, boundVars>>

(* The Machine controller finishes the deletion once the hook is gone.     *)
TerminateMachine(m) ==
    /\ m \in Deleting \cap released
    /\ st' = [st EXCEPT ![m] = "gone"]
    /\ ref' = ref \ {m}
    /\ flagged' = flagged \ {m}
    /\ recovered' = recovered \ {m}
    /\ annotated' = annotated \ {m}
    /\ outdated' = outdated \ {m}
    /\ ready' = ready \ {m}
    /\ down' = down \cup {m}
    /\ removeReq' = removeReq \ {m}
    /\ released' = released \ {m}
    /\ UNCHANGED <<saved, cached, members, rcpVars, memVars, unreplaced, boundVars>>

ScaleRCP(n) ==
    /\ n # replicas
    /\ Spend("scaling")
    /\ replicas' = n
    /\ UNCHANGED <<machineVars, nodeVars, initialized, inProgress, memVars, unreplaced>>

ChangeSpec ==
    /\ outdated # Owned
    /\ Spend("rollout")
    /\ outdated' = Owned
    /\ UNCHANGED <<st, ref, flagged, healthVars, cached, nodeVars, rcpVars, memVars, unreplaced>>

UserDelete(m) ==
    /\ m \in Live
    /\ Spend("deletion")
    /\ MarkDeleted(m)
    /\ UNCHANGED <<ref, flagged, healthVars, outdated, cached, nodeVars, rcpVars, memVars, unreplaced>>
-----------------------------------------------------------------------------
Controller ==
    \/ Reconcile
    \/ ReconcileLifecycleHooks
    \/ ReconcileUnhealthyMachines
    \/ DeleteUnhealthyMachine
    \/ Scale
    \/ DeleteMachine
    \/ PatchRKE2ControlPlane

Progress(m) ==
    \/ JoinEtcd(m)
    \/ SetNodeRef(m)
    \/ NodeNotReady(m)
    \/ MachineHealthCheck(m)
    \/ HealthCheckSucceeds(m)
    \/ RemoveMember(m)
    \/ TerminateMachine(m)

Next ==
    \/ Controller
    \/ Fault
    \/ CacheSync
    \/ \E m \in Ids : Progress(m) \/ Fail(m) \/ AnnotateMachine(m) \/ UserDelete(m)
    \/ \E n \in Replicas : ScaleRCP(n)
    \/ ChangeSpec

Spec == Init /\ [][Next]_vars

(* What the reconcile and its surroundings keep doing: watches and requeues*)
(* bring every RKE2ControlPlane back, informers and node controllers catch *)
(* up, RKE2 and the Machine controller finish what was asked of them.      *)
Fairness ==
    /\ WF_vars(Controller)
    /\ WF_vars(CacheSync)
    /\ \A m \in Ids : /\ WF_vars(JoinEtcd(m))
                      /\ WF_vars(SetNodeRef(m))
                      /\ WF_vars(NodeNotReady(m))
                      /\ WF_vars(MachineHealthCheck(m))
                      /\ WF_vars(RemoveMember(m))
                      /\ WF_vars(TerminateMachine(m))

FairSpec == Spec /\ Fairness
-----------------------------------------------------------------------------
TypeOK ==
    /\ st \in [Ids -> {"absent", "live", "deleting", "gone"}]
    /\ ref \subseteq Owned /\ flagged \subseteq Owned
    /\ recovered \subseteq Owned \ flagged /\ annotated \subseteq Owned
    /\ saved \in [agent : SUBSET Ids, etcd : SUBSET Ids]
    /\ outdated \subseteq Owned /\ ready \subseteq Owned
    /\ cached \subseteq Ids /\ down \subseteq Ids /\ members \subseteq Ids
    /\ removeReq \subseteq Deleting /\ released \subseteq Deleting
    /\ replicas \in Replicas
    /\ initialized \in 0..2
    /\ inProgress \in 0..N
    /\ pc \in {"idle", "hooks", "remediate", "delete unhealthy", "scale", "delete", "patch"}
    /\ snap \in Snapshot
    /\ target \in 0..N
    /\ target # 0 <=> pc \in {"delete unhealthy", "delete"}
    /\ unreplaced \in Nat
    /\ budget \in [Disturbances -> Nat] /\ used \in [Disturbances -> Nat]

(* Until the control plane is initialized it has at most one Machine:      *)
(* initializeControlPlane lists the Machines once more, "to make sure that *)
(* the controller cache is not misbehaving and we end up initializing the  *)
(* cluster more than once".  Not so: that list is cached, too.             *)
InitializeOnce == initialized = 0 => \A m, k \in Owned : m = k

(* The controller takes control-plane Machines down one at a time, whether *)
(* for scale down, rollout or remediation, as long as no user deletes one. *)
OneDisruption == used["deletion"] = 0 => \A m, k \in Deleting : m = k

(* etcd keeps its majority through rollout and remediation although one    *)
(* host fails, at the worst moment and unnoticed for as long as can be.    *)
QuorumKept == members # {} => Quorum

(* Remediation of an initialized control plane leaves etcd a majority of   *)
(* members on Nodes this very reconcile has seen ready.                    *)
RemediationPreservesQuorum ==
    [][pc = "remediate" /\ pc' = "delete unhealthy" /\ initialized # 0 =>
          LET rest == members \ {target'}
          IN  2 * Cardinality(rest \cap snap.agent) > Cardinality(rest)]_vars

(* No second Machine is remediated before the first one's replacement has  *)
(* been created, as long as no reconcile is cut off before its patch.      *)
RemediationPaced == used["fault"] = 0 => unreplaced <= 1

(* A Machine flagged by MachineHealthCheck is remediated, unless found     *)
(* healthy again, as long as etcd has its majority.                        *)
Remediated == \A m \in Ids : m \in flagged ~> m \notin flagged \/ ~Quorum

(* Once users and hosts leave it alone the control plane settles on the    *)
(* wanted number of up-to-date, healthy Machines, each one an etcd member; *)
(* unless it has lost etcd's majority.                                     *)
Settled ==
    /\ outdated = {} /\ Deleting = {}
    /\ Cardinality(Live) = replicas
    /\ ref = Live /\ Live \subseteq members \ down

Converges == <>[](Settled \/ ~Quorum)
=============================================================================
