---------------------------- MODULE LifecycleHooks ----------------------------
(***************************************************************************)
(* The pre-terminate hook of control-plane Machines: an annotation that    *)
(* keeps the Machine controller from deleting a Machine's infrastructure   *)
(* until RKE2 has taken the Machine out of etcd.                           *)
(*                                                                         *)
(* One reconcile of the RKE2ControlPlane runs at a time; each step below   *)
(* is one or several API calls of it.  Between its steps the Machine       *)
(* controller, RKE2, the user and the informer cache take theirs.  Which   *)
(* Machine the controller creates or deletes, and when, is the subject of  *)
(* ControlPlane; here it is any.                                           *)
(***************************************************************************)
EXTENDS Integers, FiniteSets

CONSTANTS
    N,            \* Machines 1..N, in the order of their creation
    Initial,      \* Machines 1..Initial are an established control plane
    Bounds        \* Machines and Nodes the user deletes, reconciles ended by an
                  \* error or a restart; whether others hook Machines and the
                  \* RKE2ControlPlane may be deleted; whether etcd is embedded
                  \* and the RKE2ControlPlane not marked as a legacy one;
                  \* whether the informer cache lags behind the API server

ASSUME HooksAssumption ==
    /\ N \in Nat /\ Initial \in 0..N
    /\ Bounds \subseteq [userDeletes : Nat, nodeDeletes : Nat, faults : Nat,
                   otherHooks : BOOLEAN, deleteRCP : BOOLEAN, managed : BOOLEAN, lag : BOOLEAN]

Ids == 1..N

VARIABLES
    obj,        \* the Machine objects in the API server
    cache,      \* the informer cache: the Machine objects of some past moment
    mem,        \* controlPlane.Machines of the reconcile in flight
    pc,         \* where that reconcile is
    todo,       \* Machines syncMachines has still to update
    target,     \* the Machine whose hook is being released (0: none)
    clock,      \* the API server's time, in seconds
    rcp,        \* the RKE2ControlPlane: "active", "deleting" or "gone"
    members,    \* etcd members
    removeReq,  \* nodes annotated etcd.rke2.cattle.io/remove
    removed,    \* nodes annotated etcd.rke2.cattle.io/removed-node-name
    lost,       \* nodes whose Node object, with its annotations, is deleted
    released,   \* history: Machines whose hook reconcilePreTerminateHook removed
    bound, userDeletes, faults \* bounds on disturbances, and how many there were

etcdVars == <<members, removeReq, removed, lost>>
memVars  == <<mem, pc, todo, target>>
boundVars == <<bound, userDeletes, faults>>
vars == <<obj, cache, memVars, clock, rcp, etcdVars, released, boundVars>>

(* A Machine object.  "hook" is the set of field managers that own the     *)
(* annotation: the annotation is there while one does.  createMachine      *)
(* applies it server-side ("apply"), the patch helper updates it           *)
(* ("update").  "other": someone else's pre-terminate hook is there.       *)
(* "terminated": infrastructure gone, object still there.                  *)
States == {"absent", "live", "deleting", "terminated", "gone"}
Owners == {"apply", "update"}
Machine == [st : States, hook : SUBSET Owners, other : BOOLEAN, ref : BOOLEAN, waiting : BOOLEAN, at : Nat]

NoMachine == [st |-> "absent", hook |-> {}, other |-> FALSE, ref |-> FALSE, waiting |-> FALSE, at |-> 0]

HasDeletionTimestamp(x) == x.st \in {"deleting", "terminated"}
Exists(x) == x.st = "live" \/ HasDeletionTimestamp(x)

(* The Machines a list returns, and those of them being deleted.           *)
Listed(f) == {m \in Ids : Exists(f[m])}
DeletingMachines(f) == {m \in Ids : HasDeletionTimestamp(f[m])}
ActiveMachines(f) == {m \in Ids : f[m].st = "live"}

(* ForwardEtcdLeadership's candidate: the newest Machine not being deleted.*)
Newest(S) == CHOOSE m \in S : \A k \in S : k <= m

(* Oldest deletion timestamp; timestamps count seconds, names break ties.  *)
Before(f, m, k) == f[m].at < f[k].at \/ (f[m].at = f[k].at /\ m <= k)
OldestDeletionTimestamp(f, S) == CHOOSE m \in S : \A k \in S : Before(f, m, k)

Init ==
    /\ obj = [m \in Ids |->
                IF m <= Initial
                  THEN [NoMachine EXCEPT !.st = "live", !.hook = {"update"}, !.ref = TRUE]
                  ELSE NoMachine]
    /\ cache = obj
    /\ mem = [m \in Ids |-> NoMachine]
    /\ pc = "idle"
    /\ todo = {}
    /\ target = 0
    /\ clock = 1
    /\ rcp = "active"
    /\ members = 1..Initial
    /\ removeReq = {}
    /\ removed = {}
    /\ lost = {}
    /\ released = {}
    /\ bound \in Bounds
    /\ userDeletes = 0
    /\ faults = 0
-----------------------------------------------------------------------------
(* The reconcile *)

(* The reconcile returns; what it held in memory is lost.                  *)
Return ==
    /\ pc' = "idle"
    /\ mem' = [m \in Ids |-> NoMachine]
    /\ todo' = {}
    /\ target' = 0

(* The list of owned Machines is read from the cache, in reconcileNormal   *)
(* and in reconcileDelete.                                                 *)
Reconcile ==
    /\ pc = "idle"
    /\ rcp # "gone"
    /\ mem' = IF bound.lag THEN cache ELSE obj
    /\ pc' = IF rcp = "active" THEN "sync" ELSE "delete"
    /\ todo' = IF rcp = "active" THEN Listed(mem') ELSE {}
    /\ UNCHANGED <<obj, cache, target, clock, rcp, etcdVars, released, boundVars>>

(* syncMachines, one Machine.  For one not being deleted (as far as the    *)
(* list knows) the server-side apply of UpdateMachine no longer mentions   *)
(* the hook, so "apply" gives it up, and the answer replaces the Machine   *)
(* in memory.  One being deleted is patched with the timeouts of the       *)
(* template where they differ.  Either fails on a Machine that is gone.    *)
SyncMachine(m) ==
    /\ pc = "sync" /\ m \in todo
    /\ \/ /\ m \in ActiveMachines(mem) /\ Exists(obj[m])
          /\ obj' = [obj EXCEPT ![m].hook = @ \ {"apply"}]
          /\ mem' = [mem EXCEPT ![m] = obj'[m]]
          /\ todo' = todo \ {m}
          /\ UNCHANGED <<pc, target>>
       \/ /\ m \in DeletingMachines(mem)
          /\ todo' = todo \ {m}
          /\ UNCHANGED <<obj, mem, pc, target>>
       \/ /\ ~Exists(obj[m])
          /\ Return
          /\ UNCHANGED obj
    /\ UNCHANGED <<cache, clock, rcp, etcdVars, released, boundVars>>

(* applyHookToActiveMachines: Machines without the annotation get it by a  *)
(* patch each; the patches that fail (all on Machines that are gone, any   *)
(* other by a fault) end the reconcile after the rest was tried.           *)
ApplyHookToActiveMachines ==
    /\ pc = "sync" /\ todo = {}
    /\ LET need == {m \in ActiveMachines(mem) : mem[m].hook = {}}
       IN  \E done \in SUBSET {m \in need : Exists(obj[m])} :
             /\ obj' = [m \in Ids |-> IF m \in done
                                        THEN [obj[m] EXCEPT !.hook = @ \cup {"update"}]
                                        ELSE obj[m]]
             /\ \/ /\ done = need
                   /\ mem' = [m \in Ids |-> IF m \in done
                                              THEN [mem[m] EXCEPT !.hook = {"update"}]
                                              ELSE mem[m]]
                   /\ pc' = "hooks"
                   /\ UNCHANGED <<todo, target, faults>>
                \/ /\ done # need
                   /\ \/ ~(need \subseteq Listed(obj)) /\ UNCHANGED faults
                      \/ faults < bound.faults /\ faults' = faults + 1
                   /\ Return
    /\ UNCHANGED <<cache, clock, rcp, etcdVars, released, bound, userDeletes>>

MayRunHookBesideAnother(m) ==
    /\ m \in DeletingMachines(mem)
    /\ m = OldestDeletionTimestamp(mem, DeletingMachines(mem))
    /\ mem[m].waiting

(* getDeletingMachineWithHook: the one Machine whose hook may be run.      *)
MayRunHook(m) ==
    /\ m \in DeletingMachines(mem)
    /\ \A k \in DeletingMachines(mem) : mem[k].hook # {}
    /\ m = OldestDeletionTimestamp(mem, DeletingMachines(mem))
    /\ mem[m].waiting

(* ForwardEtcdLeadership fails when the Machine has a node and the         *)
(* candidate has none yet.                                                 *)
ForwardFails(m) ==
    LET active == ActiveMachines(mem)
    IN  active # {} /\ mem[m].ref /\ ~mem[Newest(active)].ref

SafelyRemovedOnRequest(m) == ~mem[m].ref \/ m \in removeReq \ lost
SafelyRemovedOnlyByNode(m) == m \in removed \ lost

(* IsEtcdMemberSafelyRemovedForMachine: RKE2 has annotated the Node.  A    *)
(* Machine without a NodeRef has nothing to remove; one whose Node is not  *)
(* found is not safely removed.                                            *)
SafelyRemoved(m) == ~mem[m].ref \/ m \in removed \ lost

(* reconcilePreTerminateHook up to the removal of the annotation: the last *)
(* pre-terminate hook to be run.  With more than one Machine left the Node *)
(* is annotated for removal from etcd, and the reconcile returns until it  *)
(* is removed.                                                             *)
ReconcilePreTerminateHook ==
    /\ pc = "hooks"
    /\ \/ /\ DeletingMachines(mem) = {}
          /\ pc' = "act"
          /\ UNCHANGED <<mem, todo, target, removeReq>>
       \/ /\ DeletingMachines(mem) # {}
          /\ \A m \in Ids : ~MayRunHook(m)
          /\ Return
          /\ UNCHANGED removeReq
       \/ \E m \in Ids :
            /\ MayRunHook(m)
            /\ IF mem[m].other THEN Return /\ UNCHANGED removeReq
               ELSE IF Cardinality(Listed(mem)) > 1 /\ bound.managed
                 THEN IF ForwardFails(m)
                        THEN Return /\ UNCHANGED removeReq
                        ELSE /\ removeReq' = removeReq \cup (IF mem[m].ref THEN {m} \ lost ELSE {})
                             /\ IF SafelyRemoved(m)
                                  THEN /\ pc' = "unhook" /\ target' = m
                                       /\ UNCHANGED <<mem, todo>>
                                  ELSE Return
                 ELSE /\ pc' = "unhook" /\ target' = m
                      /\ UNCHANGED <<mem, todo, removeReq>>
    /\ UNCHANGED <<obj, cache, clock, rcp, members, removed, lost, released, boundVars>>

(* removePreTerminateHookAnnotationFromMachine; the reconcile then waits.  *)
RemovePreTerminateHook ==
    /\ pc = "unhook"
    /\ \/ /\ Exists(obj[target])
          /\ obj' = [obj EXCEPT ![target].hook = {}]
          /\ released' = released \cup {target}
       \/ /\ ~Exists(obj[target])
          /\ UNCHANGED <<obj, released>>
    /\ Return
    /\ UNCHANGED <<cache, clock, rcp, etcdVars, boundVars>>

(* The API server sets the deletion timestamp of the Machines in S that    *)
(* have none yet, in this second or in the next; a second delete changes   *)
(* nothing.  f: the Machines before.                                       *)
Stamp(f, S) ==
    /\ clock' \in IF \E m \in S : f[m].st = "live" THEN {clock, clock + 1} ELSE {clock}
    /\ obj' = [m \in Ids |-> IF m \in S /\ f[m].st = "live"
                               THEN [f[m] EXCEPT !.st = "deleting", !.at = clock']
                               ELSE f[m]]

(* What the rest of reconcileNormal may do with no Machine being deleted:  *)
(* nothing, create a Machine (init, scale up), or delete one of several    *)
(* (scale down, rollout, remediation).                                     *)
Act ==
    /\ pc = "act"
    /\ \/ UNCHANGED <<obj, clock>>
       \/ \E m \in Ids :
            /\ obj[m].st = "absent"
            /\ \A k \in 1..(m - 1) : obj[k].st # "absent"
            /\ obj' = [obj EXCEPT ![m].st = "live", ![m].hook = {"apply"}]
            /\ UNCHANGED clock
       \/ \E m \in ActiveMachines(mem) :
            /\ Cardinality(Listed(mem)) > 1
            /\ Stamp(obj, {m})
    /\ Return
    /\ UNCHANGED <<cache, rcp, etcdVars, released, boundVars>>

(* The Machines reconcileDelete has still to see off.                      *)
OwnedMachines == Listed(mem)

(* The hook of the Machines in S is removed where memory shows one.        *)
WithoutHook(S) ==
    [m \in Ids |-> IF m \in S /\ mem[m].hook # {} THEN [obj[m] EXCEPT !.hook = {}] ELSE obj[m]]

(* reconcileDelete: with no owned Machine left the finalizer goes.         *)
(* Otherwise each Machine loses its hook and is deleted; a Machine that    *)
(* fails at either call does not keep the others from being handled.       *)
ReconcileDelete ==
    /\ pc = "delete"
    /\ \/ /\ OwnedMachines = {}
          /\ rcp' = "gone"
          /\ UNCHANGED <<obj, clock, faults>>
       \/ /\ OwnedMachines # {}
          /\ \E unhooked \in SUBSET OwnedMachines : \E deleted \in SUBSET unhooked :
               /\ \/ deleted = OwnedMachines /\ UNCHANGED faults
                  \/ deleted # OwnedMachines /\ faults < bound.faults /\ faults' = faults + 1
               /\ Stamp(WithoutHook(unhooked), deleted)
          /\ UNCHANGED rcp
    /\ Return
    /\ UNCHANGED <<cache, etcdVars, released, bound, userDeletes>>

(* A failed API call, an unreachable workload cluster, or a restart of the *)
(* manager ends the reconcile between two of its steps.                    *)
Fault ==
    /\ pc # "idle"
    /\ faults < bound.faults
    /\ faults' = faults + 1
    /\ Return
    /\ UNCHANGED <<obj, cache, clock, rcp, etcdVars, released, bound, userDeletes>>
-----------------------------------------------------------------------------
(* The environment *)

CacheSync ==
    /\ bound.lag
    /\ cache' = obj
    /\ UNCHANGED <<obj, memVars, clock, rcp, etcdVars, released, boundVars>>

(* The node joins etcd first; its Machine learns of it later, and never    *)
(* once it is being deleted.                                               *)
JoinEtcd(m) ==
    /\ obj[m].st \in {"live", "deleting"}
    /\ m \notin members \cup removed
    /\ members' = members \cup {m}
    /\ UNCHANGED <<obj, cache, memVars, clock, rcp, removeReq, removed, lost, released, boundVars>>

SetNodeRef(m) ==
    /\ obj[m].st = "live" /\ ~obj[m].ref
    /\ m \in members
    /\ obj' = [obj EXCEPT ![m].ref = TRUE]
    /\ UNCHANGED <<cache, memVars, clock, rcp, etcdVars, released, boundVars>>

(* RKE2 takes the member out, as long as another one remains.              *)
RemoveMember(m) ==
    /\ m \in (removeReq \ lost) \cap members
    /\ members # {m}
    /\ members' = members \ {m}
    /\ removed' = removed \cup {m}
    /\ UNCHANGED <<obj, cache, memVars, clock, rcp, removeReq, lost, released, boundVars>>

(* The Machine controller: drained, the Machine waits while a hook is      *)
(* there, then loses its infrastructure, then goes away.                   *)
Hooked(x) == x.hook # {} \/ x.other

WaitForPreTerminateHook(m) ==
    /\ obj[m].st = "deleting" /\ Hooked(obj[m]) /\ ~obj[m].waiting
    /\ obj' = [obj EXCEPT ![m].waiting = TRUE]
    /\ UNCHANGED <<cache, memVars, clock, rcp, etcdVars, released, boundVars>>

TerminateInfrastructure(m) ==
    /\ obj[m].st = "deleting" /\ ~Hooked(obj[m])
    /\ obj' = [obj EXCEPT ![m].st = "terminated"]
    /\ UNCHANGED <<cache, memVars, clock, rcp, etcdVars, released, boundVars>>

RemoveMachine(m) ==
    /\ obj[m].st = "terminated"
    /\ obj' = [obj EXCEPT ![m].st = "gone"]
    /\ UNCHANGED <<cache, memVars, clock, rcp, etcdVars, released, boundVars>>

UserDelete(m) ==
    /\ obj[m].st = "live"
    /\ userDeletes < bound.userDeletes
    /\ userDeletes' = userDeletes + 1
    /\ Stamp(obj, {m})
    /\ UNCHANGED <<cache, memVars, rcp, etcdVars, released, bound, faults>>

(* Someone else hooks a Machine too, and is done with it in the end.       *)
AddOtherHook(m) ==
    /\ bound.otherHooks
    /\ obj[m].st = "live" /\ ~obj[m].other
    /\ obj' = [obj EXCEPT ![m].other = TRUE]
    /\ UNCHANGED <<cache, memVars, clock, rcp, etcdVars, released, boundVars>>

RemoveOtherHook(m) ==
    /\ obj[m].st = "deleting" /\ obj[m].other
    /\ obj' = [obj EXCEPT ![m].other = FALSE]
    /\ UNCHANGED <<cache, memVars, clock, rcp, etcdVars, released, boundVars>>

DeleteNode(m) ==
    /\ m \in members \ lost
    /\ Cardinality(lost) < bound.nodeDeletes
    /\ lost' = lost \cup {m}
    /\ UNCHANGED <<obj, cache, memVars, clock, rcp, members, removeReq, removed, released, boundVars>>

DeleteRCP ==
    /\ bound.deleteRCP
    /\ rcp = "active"
    /\ rcp' = "deleting"
    /\ UNCHANGED <<obj, cache, memVars, clock, etcdVars, released, boundVars>>
-----------------------------------------------------------------------------
Controller ==
    \/ Reconcile
    \/ \E m \in Ids : SyncMachine(m)
    \/ ApplyHookToActiveMachines
    \/ ReconcilePreTerminateHook
    \/ RemovePreTerminateHook
    \/ Act
    \/ ReconcileDelete

MachineController(m) ==
    \/ SetNodeRef(m)
    \/ WaitForPreTerminateHook(m)
    \/ TerminateInfrastructure(m)
    \/ RemoveMachine(m)

Etcd(m) == JoinEtcd(m) \/ RemoveMember(m)

Next ==
    \/ Controller
    \/ \E m \in Ids : MachineController(m) \/ Etcd(m)
    \/ \E m \in Ids : UserDelete(m) \/ DeleteNode(m) \/ AddOtherHook(m) \/ RemoveOtherHook(m)
    \/ CacheSync
    \/ DeleteRCP
    \/ Fault

Spec == Init /\ [][Next]_vars

(* Reconciles are requeued until nothing is left to do, watches deliver in *)
(* the end, and the Machine controller, the nodes, RKE2 and the owners of  *)
(* other hooks make progress.                                              *)
Fairness ==
    /\ WF_vars(Controller)
    /\ WF_vars(CacheSync)
    /\ \A m \in Ids : WF_vars(MachineController(m)) /\ WF_vars(Etcd(m)) /\ WF_vars(RemoveOtherHook(m))

FairSpec == Spec /\ Fairness
-----------------------------------------------------------------------------
(* Properties *)

TypeOK ==
    /\ obj \in [Ids -> Machine]
    /\ cache \in [Ids -> Machine]
    /\ mem \in [Ids -> Machine]
    /\ pc \in {"idle", "sync", "hooks", "unhook", "act", "delete"}
    /\ todo \in SUBSET Ids
    /\ target \in Ids \cup {0}
    /\ clock \in Nat
    /\ rcp \in {"active", "deleting", "gone"}
    /\ members \in SUBSET Ids
    /\ removeReq \in SUBSET Ids
    /\ removed \in SUBSET Ids
    /\ lost \in SUBSET Ids
    /\ released \in SUBSET Ids
    /\ bound \in Bounds /\ userDeletes \in Nat /\ faults \in Nat
    /\ target # 0 <=> pc = "unhook"
    /\ todo # {} => pc = "sync"
    /\ removed \subseteq removeReq \ members

(* One Machine at a time: of the Machines whose hook the controller has    *)
(* released, at most one has still to go away (getDeletingMachineWithHook).*)
(* A lagging list is no exception, as long as only the controller deletes  *)
(* Machines.  Deletion of the RKE2ControlPlane lets all of them go at once.*)
SerialRelease ==
    (bound.lag => userDeletes = 0) =>
        \A m, k \in released :
            HasDeletionTimestamp(obj[m]) /\ HasDeletionTimestamp(obj[k]) => m = k

(* While only the controller deletes Machines, none that is known by its   *)
(* node loses its infrastructure while it is an etcd member next to        *)
(* members that go on: they would count a dead voter.  (Legacy control     *)
(* planes are not protected.)                                              *)
Terminated(m) == obj[m].st \in {"terminated", "gone"}
NoDeadMember ==
    userDeletes = 0 /\ rcp = "active" /\ bound.managed =>
        \A m \in members :
            Terminated(m) /\ obj[m].ref => \A k \in members : Terminated(k)

(* "Setting pre-terminate hook so we can later remove the etcd member      *)
(* right before Machine termination": the same for every Machine that      *)
(* takes part in etcd, whoever deletes it.                                 *)
NoDeadMemberAtAll ==
    \A m \in members : Terminated(m) => \A k \in members : Terminated(k)

(* reconcileDelete gives up the finalizer only when no Machine is left:    *)
(* one that outlives the RKE2ControlPlane has nobody to remove its hook.   *)
(* Not so with a lagging list, from which a new Machine is missing.        *)
NoOrphan == rcp = "gone" => Listed(obj) = {}

(* Every Machine being deleted goes away in the end, as long as one        *)
(* Machine of the control plane is not being deleted and no Machine being  *)
(* deleted has lost its Node: the deletions wait for each other, for RKE2, *)
(* for the Machine controller and for other hooks, never forever.          *)
DeletionCompletes ==
    \A m \in Ids :
        obj[m].st = "deleting" ~>
            \/ obj[m].st = "gone" \/ ActiveMachines(obj) = {}
            \/ DeletingMachines(obj) \cap lost # {}

(* The same with no exception for a lost Node.                             *)
DeletionCompletesWithoutNode ==
    \A m \in Ids : obj[m].st = "deleting" ~> obj[m].st = "gone" \/ ActiveMachines(obj) = {}
=============================================================================
