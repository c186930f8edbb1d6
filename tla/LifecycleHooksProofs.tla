------------------------ MODULE LifecycleHooksProofs ------------------------
(***************************************************************************)
(* Proofs about LifecycleHooks, for any number of Machines and any bounds: *)
(* types, and the release of one Machine at a time.                        *)
(***************************************************************************)
EXTENDS LifecycleHooks, TLAPS

-----------------------------------------------------------------------------
(* The updates the actions make turn Machines into Machines: one being     *)
(* deleted is a Machine.                                                   *)
LEMMA MachineDeleted ==
    ASSUME NEW x \in Machine, NEW n \in Nat
    PROVE  [x EXCEPT !.st = "deleting", !.at = n] \in Machine
  BY DEF Machine, States

(* A Machine just created is a Machine.                                    *)
LEMMA MachineCreated ==
    ASSUME NEW x \in Machine
    PROVE  [x EXCEPT !.st = "live", !.hook = {"apply"}] \in Machine
  BY DEF Machine, States, Owners

(* So is one whose hook changes hands.                                     *)
LEMMA MachineHooked ==
    ASSUME NEW x \in Machine, NEW h \in SUBSET Owners
    PROVE  [x EXCEPT !.hook = h] \in Machine
  BY DEF Machine

(* So is one the Machine controller has moved on.                          *)
LEMMA MachineMoved ==
    ASSUME NEW x \in Machine
    PROVE  /\ [x EXCEPT !.ref = TRUE] \in Machine
           /\ [x EXCEPT !.waiting = TRUE] \in Machine
           /\ [x EXCEPT !.other = TRUE] \in Machine
           /\ [x EXCEPT !.other = FALSE] \in Machine
           /\ [x EXCEPT !.st = "terminated"] \in Machine
           /\ [x EXCEPT !.st = "gone"] \in Machine
  BY DEF Machine, States

(* The absent Machine is a Machine.                                        *)
LEMMA NoMachineType == NoMachine \in Machine
  BY DEF NoMachine, Machine, States

(* Returning leaves well-typed, empty memory behind.                       *)
LEMMA ReturnType ==
    ASSUME Return
    PROVE  /\ mem' \in [Ids -> Machine] /\ pc' = "idle" /\ todo' = {} /\ target' = 0
           /\ \A m \in Ids : mem'[m] = NoMachine
  BY NoMachineType DEF Return

(* Setting deletion timestamps keeps the Machines well typed.              *)
LEMMA StampType ==
    ASSUME TypeOK, NEW f \in [Ids -> Machine], NEW S \in SUBSET Ids, Stamp(f, S)
    PROVE  clock' \in Nat /\ obj' \in [Ids -> Machine]
<1>1. clock' \in Nat
  <2>1. clock' \in {clock, clock + 1}
    BY Zenon DEF Stamp
  <2> QED
    BY <2>1 DEF TypeOK
<1>2. ASSUME NEW m \in Ids PROVE [f[m] EXCEPT !.st = "deleting", !.at = clock'] \in Machine
  BY <1>1, MachineDeleted
<1> QED
  BY <1>1, <1>2 DEF Stamp

(* Removing hooks keeps the Machines well typed.                           *)
LEMMA WithoutHookType ==
    ASSUME TypeOK, NEW S PROVE WithoutHook(S) \in [Ids -> Machine]
<1>1. ASSUME NEW m \in Ids PROVE [obj[m] EXCEPT !.hook = {}] \in Machine
  BY MachineHooked DEF TypeOK
<1> QED
  BY <1>1 DEF WithoutHook, TypeOK

(* Every step keeps the types.                                             *)
LEMMA TypeStep == TypeOK /\ [Next]_vars => TypeOK'
<1> SUFFICES ASSUME TypeOK, [Next]_vars PROVE TypeOK'
  OBVIOUS
<1> USE DEF TypeOK, etcdVars, memVars, boundVars
<1>1. CASE UNCHANGED vars
  BY <1>1 DEF vars
<1>2. CASE Reconcile
  BY <1>2 DEF Reconcile, Listed
<1>3. ASSUME NEW m \in Ids, SyncMachine(m) PROVE TypeOK'
  <2>1. CASE obj' = [obj EXCEPT ![m].hook = @ \ {"apply"}] /\ mem' = [mem EXCEPT ![m] = obj'[m]]
             /\ todo' = todo \ {m} /\ UNCHANGED <<pc, target>>
    <3>1. obj' \in [Ids -> Machine]
      BY <2>1 DEF Machine
    <3> QED
      BY <1>3, <2>1, <3>1 DEF SyncMachine
  <2>2. CASE todo' = todo \ {m} /\ UNCHANGED <<obj, mem, pc, target>>
    BY <1>3, <2>2 DEF SyncMachine
  <2>3. CASE Return /\ UNCHANGED obj
    BY <1>3, <2>3, ReturnType DEF SyncMachine
  <2> QED
    BY <1>3, <2>1, <2>2, <2>3 DEF SyncMachine
<1>4. CASE ApplyHookToActiveMachines
  <2> DEFINE need == {m \in ActiveMachines(mem) : mem[m].hook = {}}
  <2>1. PICK done \in SUBSET {m \in need : Exists(obj[m])} :
          /\ obj' = [m \in Ids |-> IF m \in done
                                     THEN [obj[m] EXCEPT !.hook = @ \cup {"update"}]
                                     ELSE obj[m]]
          /\ \/ /\ done = need
                /\ mem' = [m \in Ids |-> IF m \in done
                                           THEN [mem[m] EXCEPT !.hook = {"update"}]
                                           ELSE mem[m]]
                /\ pc' = "hooks"
                /\ UNCHANGED <<todo, target, faults>>
             \/ /\ done # need
                /\ \/ ~(need \subseteq Listed(obj)) /\ UNCHANGED faults
                   \/ faults < bound.faults /\ faults' = faults + 1
                /\ Return
    BY <1>4 DEF ApplyHookToActiveMachines
  <2>2. obj' \in [Ids -> Machine]
    <3>1. ASSUME NEW m \in Ids
          PROVE  [obj[m] EXCEPT !.hook = @ \cup {"update"}] \in Machine
      <4>1. obj[m] \in Machine /\ obj[m].hook \cup {"update"} \in SUBSET Owners
        BY DEF Machine, Owners
      <4> QED
        BY <4>1, MachineHooked
    <3> QED
      BY <2>1, <3>1
  <2>3. CASE done = need /\ pc' = "hooks"
    <3>1. mem' \in [Ids -> Machine]
      <4>1. ASSUME NEW m \in Ids PROVE [mem[m] EXCEPT !.hook = {"update"}] \in Machine
        BY MachineHooked DEF Owners
      <4> QED
        BY <2>1, <2>3, <4>1 DEF Return
    <3> QED
      BY <1>4, <2>1, <2>2, <2>3, <3>1 DEF ApplyHookToActiveMachines, Return
  <2>4. CASE Return
    BY <1>4, <2>1, <2>2, <2>4, ReturnType DEF ApplyHookToActiveMachines
  <2> QED
    BY <2>1, <2>3, <2>4
<1>5. CASE ReconcilePreTerminateHook
  <2>1. mem' \in [Ids -> Machine]
    BY <1>5, ReturnType DEF ReconcilePreTerminateHook
  <2>2. removed \subseteq removeReq' /\ removeReq' \in SUBSET Ids
    BY <1>5 DEF ReconcilePreTerminateHook
  <2>3. /\ todo' \in SUBSET Ids /\ target' \in Ids \cup {0}
        /\ target' # 0 <=> pc' = "unhook"
        /\ todo' # {} => pc' = "sync"
        /\ pc' \in {"idle", "act", "unhook"}
    BY <1>5 DEF ReconcilePreTerminateHook, Return, Ids
  <2> QED
    BY <1>5, <2>1, <2>2, <2>3 DEF ReconcilePreTerminateHook
<1>6. CASE RemovePreTerminateHook
  <2>1. obj' \in [Ids -> Machine]
    <3>1. \/ UNCHANGED obj
          \/ obj' = [obj EXCEPT ![target] = [obj[target] EXCEPT !.hook = {}]]
      BY <1>6 DEF RemovePreTerminateHook
    <3>2. ASSUME NEW m \in Ids PROVE [obj[m] EXCEPT !.hook = {}] \in Machine
      BY MachineHooked
    <3> QED
      BY <3>1, <3>2
  <2> QED
    BY <1>6, <2>1, ReturnType DEF RemovePreTerminateHook
<1>7. CASE Act
  <2>1. obj' \in [Ids -> Machine] /\ clock' \in Nat
    <3>1. CASE UNCHANGED <<obj, clock>>
      BY <3>1
    <3>2. ASSUME NEW m \in Ids, obj' = [obj EXCEPT ![m].st = "live", ![m].hook = {"apply"}],
                 UNCHANGED clock
          PROVE  obj' \in [Ids -> Machine] /\ clock' \in Nat
      BY <3>2, MachineCreated
    <3>3. ASSUME NEW m \in Ids, Stamp(obj, {m}) PROVE obj' \in [Ids -> Machine] /\ clock' \in Nat
      BY <3>3, StampType
    <3> QED
      BY <1>7, <3>1, <3>2, <3>3 DEF Act, ActiveMachines
  <2> QED
    BY <1>7, <2>1, ReturnType DEF Act
<1>8. CASE ReconcileDelete
  <2>1. obj' \in [Ids -> Machine] /\ clock' \in Nat
    <3>1. CASE OwnedMachines = {}
      BY <1>8, <3>1 DEF ReconcileDelete
    <3>2. CASE OwnedMachines # {}
      BY <1>8, <3>2, WithoutHookType, StampType DEF ReconcileDelete, OwnedMachines, Listed
    <3> QED
      BY <3>1, <3>2
  <2>2. rcp' \in {"active", "deleting", "gone"} /\ faults' \in Nat
    BY <1>8 DEF ReconcileDelete
  <2> QED
    BY <1>8, <2>1, <2>2, ReturnType DEF ReconcileDelete
<1>9. CASE CacheSync \/ DeleteRCP
  BY <1>9 DEF CacheSync, DeleteRCP
<1>10. CASE Fault
  BY <1>10, ReturnType DEF Fault
<1>11. ASSUME NEW m \in Ids, Etcd(m) PROVE TypeOK'
  BY <1>11 DEF Etcd, JoinEtcd, RemoveMember
<1>12. ASSUME NEW m \in Ids, MachineController(m) PROVE TypeOK'
  <2>1. obj' \in [Ids -> Machine]
    <3>1. CASE SetNodeRef(m)
      BY <3>1, MachineMoved DEF SetNodeRef
    <3>2. CASE WaitForPreTerminateHook(m)
      BY <3>2, MachineMoved DEF WaitForPreTerminateHook
    <3>3. CASE TerminateInfrastructure(m)
      BY <3>3, MachineMoved DEF TerminateInfrastructure
    <3>4. CASE RemoveMachine(m)
      BY <3>4, MachineMoved DEF RemoveMachine
    <3> QED
      BY <1>12, <3>1, <3>2, <3>3, <3>4 DEF MachineController
  <2> QED
    BY <1>12, <2>1 DEF MachineController, SetNodeRef, WaitForPreTerminateHook,
                       TerminateInfrastructure, RemoveMachine
<1>13. ASSUME NEW m \in Ids, UserDelete(m) PROVE TypeOK'
  BY <1>13, StampType DEF UserDelete
<1>14. ASSUME NEW m \in Ids, DeleteNode(m) PROVE TypeOK'
  BY <1>14 DEF DeleteNode
<1>15. ASSUME NEW m \in Ids, AddOtherHook(m) \/ RemoveOtherHook(m) PROVE TypeOK'
  <2>1. obj' \in [Ids -> Machine]
    <3>1. CASE AddOtherHook(m)
      BY <3>1, MachineMoved DEF AddOtherHook
    <3>2. CASE RemoveOtherHook(m)
      BY <3>2, MachineMoved DEF RemoveOtherHook
    <3> QED
      BY <1>15, <3>1, <3>2
  <2> QED
    BY <1>15, <2>1 DEF AddOtherHook, RemoveOtherHook
<1> QED
  BY <1>1, <1>2, <1>3, <1>4, <1>5, <1>6, <1>7, <1>8, <1>9, <1>10, <1>11, <1>12, <1>13,
     <1>14, <1>15 DEF Next, Controller
-----------------------------------------------------------------------------
(* A Machine being deleted, or deleted.                                    *)
Leaving == {"deleting", "terminated", "gone"}

(* What the cache or the reconcile takes for being deleted is on its way   *)
(* out, and so is a Machine whose hook was released.                       *)
KnownLeave ==
    /\ \A m \in Ids : HasDeletionTimestamp(mem[m]) => obj[m].st \in Leaving
    /\ \A m \in Ids : HasDeletionTimestamp(cache[m]) => obj[m].st \in Leaving
    /\ \A m \in released : obj[m].st \in Leaving
    /\ pc = "unhook" => HasDeletionTimestamp(mem[target])
    /\ pc = "delete" => rcp # "active"

(* With lists that are up to date: a released Machine has no hook, the     *)
(* reconcile under way knows of each that is still there, and it releases  *)
(* a Machine only when none it knows of goes without the hook.             *)
Fresh ==
    ~bound.lag =>
        /\ \A m \in released : obj[m].hook = {}
        /\ pc # "idle" =>
             \A m \in released :
               HasDeletionTimestamp(obj[m]) => HasDeletionTimestamp(mem[m]) /\ mem[m].hook = {}
        /\ pc = "unhook" => \A k \in Ids : HasDeletionTimestamp(mem[k]) => mem[k].hook # {}

(* With lists that lag, as long as only the controller deletes Machines:   *)
(* until reconcileDelete runs, one Machine at most is being deleted; the   *)
(* cache lists it, because the list it was picked from did; and the        *)
(* reconcile hears of it from the API server before it picks another.      *)
Orderly == rcp = "active" \/ pc \in {"sync", "hooks", "unhook", "act"}
Lagging ==
    bound.lag /\ userDeletes = 0 =>
        /\ Orderly => /\ \A m, k \in DeletingMachines(obj) : m = k
                      /\ DeletingMachines(obj) \subseteq Listed(cache)
        /\ pc = "sync" => DeletingMachines(obj) \subseteq todo \cup DeletingMachines(mem)
        /\ pc = "hooks" => DeletingMachines(obj) \subseteq DeletingMachines(mem)
        /\ pc = "act" => DeletingMachines(obj) = {}
        /\ ActiveMachines(mem) \cap Listed(obj) \subseteq Listed(cache)

IInv == TypeOK /\ KnownLeave /\ Fresh /\ Lagging /\ SerialRelease
-----------------------------------------------------------------------------
(* Setting deletion timestamps concerns no Machine that is leaving, and    *)
(* makes none come back.                                                   *)
LEMMA StampKeeps ==
    ASSUME TypeOK, NEW f \in [Ids -> Machine], NEW S \in SUBSET Ids, Stamp(f, S), NEW m \in Ids
    PROVE  /\ f[m].st \in Leaving => obj'[m] = f[m]
           /\ obj'[m].hook = f[m].hook
           /\ obj'[m].st = f[m].st \/ (m \in S /\ f[m].st = "live" /\ obj'[m].st = "deleting")
  BY DEF Stamp, Leaving, Machine

(* What goes on around the reconcile.                                      *)
Environment ==
    \/ \E m \in Ids : MachineController(m) \/ Etcd(m)
    \/ \E m \in Ids : UserDelete(m) \/ DeleteNode(m) \/ AddOtherHook(m) \/ RemoveOtherHook(m)
    \/ CacheSync
    \/ DeleteRCP
    \/ UNCHANGED vars

(* A Machine that is leaving goes on leaving without a new hook; others    *)
(* leave only when a user deletes them; none comes back.                   *)
LEMMA EnvironmentEffect ==
    ASSUME TypeOK, Environment
    PROVE  /\ UNCHANGED <<mem, pc, todo, target, released, bound>>
           /\ cache' = cache \/ (cache' = obj /\ UNCHANGED obj)
           /\ rcp' = "active" => rcp = "active"
           /\ pc = "delete" /\ rcp # "active" => rcp' # "active"
           /\ userDeletes' = 0 => userDeletes = 0
           /\ \A k \in Ids :
                /\ obj[k].st \in Leaving =>
                     /\ obj'[k].st \in Leaving /\ obj'[k].hook = obj[k].hook
                     /\ HasDeletionTimestamp(obj'[k]) => HasDeletionTimestamp(obj[k])
                /\ userDeletes' = 0 /\ HasDeletionTimestamp(obj'[k]) => HasDeletionTimestamp(obj[k])
                /\ Exists(obj'[k]) => Exists(obj[k])
<1> USE DEF etcdVars, memVars, boundVars
<1>1. CASE \E m \in Ids : MachineController(m) \/ AddOtherHook(m) \/ RemoveOtherHook(m)
  <2>1. PICK m \in Ids : MachineController(m) \/ AddOtherHook(m) \/ RemoveOtherHook(m)
    BY <1>1
  <2>2. UNCHANGED <<cache, mem, pc, todo, target, released, bound, userDeletes, rcp>>
    BY <2>1 DEF MachineController, SetNodeRef, WaitForPreTerminateHook, TerminateInfrastructure,
                RemoveMachine, AddOtherHook, RemoveOtherHook
  <2>3. ASSUME NEW k \in Ids
        PROVE  /\ obj'[k].hook = obj[k].hook
               /\ \/ obj'[k].st = obj[k].st
                  \/ obj[k].st = "deleting" /\ obj'[k].st = "terminated"
                  \/ obj[k].st = "terminated" /\ obj'[k].st = "gone"
    BY <2>1 DEF MachineController, SetNodeRef, WaitForPreTerminateHook,
       TerminateInfrastructure, RemoveMachine, AddOtherHook, RemoveOtherHook, TypeOK, Machine
  <2> QED
    BY <2>2, <2>3 DEF Leaving, HasDeletionTimestamp, Exists
<1>2. CASE \E m \in Ids : UserDelete(m)
  <2>1. PICK m \in Ids : UserDelete(m)
    BY <1>2
  <2>2. /\ UNCHANGED <<cache, mem, pc, todo, target, released, bound, rcp>>
        /\ userDeletes' = userDeletes + 1 /\ userDeletes \in Nat
    BY <2>1 DEF UserDelete, TypeOK
  <2>3. userDeletes' # 0
    BY <2>2
  <2>4. ASSUME NEW k \in Ids
        PROVE  /\ obj[k].st \in Leaving => obj'[k] = obj[k]
               /\ obj'[k].st = obj[k].st \/ (obj[k].st = "live" /\ obj'[k].st = "deleting")
    BY <2>1, StampKeeps DEF UserDelete, TypeOK
  <2> QED
    BY <2>2, <2>3, <2>4 DEF Leaving, HasDeletionTimestamp, Exists
<1>3. CASE CacheSync \/ DeleteRCP \/ UNCHANGED vars \/ \E m \in Ids : Etcd(m) \/ DeleteNode(m)
  <2>1. /\ UNCHANGED <<obj, mem, pc, todo, target, released, bound, userDeletes>>
        /\ cache' = cache \/ cache' = obj
    BY <1>3 DEF CacheSync, DeleteRCP, vars, Etcd, JoinEtcd, RemoveMember, DeleteNode
  <2>2. rcp' = rcp \/ rcp' = "deleting"
    BY <1>3 DEF CacheSync, DeleteRCP, vars, Etcd, JoinEtcd, RemoveMember, DeleteNode
  <2> QED
    BY <2>1, <2>2
<1> QED
  BY <1>1, <1>2, <1>3 DEF Environment

(* What goes on around the reconcile keeps the invariant.                  *)
LEMMA EnvironmentStep ==
    ASSUME IInv, TypeOK', Environment PROVE KnownLeave' /\ Fresh' /\ Lagging' /\ SerialRelease'
<1>0. TypeOK /\ KnownLeave /\ Fresh /\ Lagging /\ SerialRelease
  BY DEF IInv
<1>1. /\ UNCHANGED <<mem, pc, todo, target, released, bound>>
      /\ cache' = cache \/ (cache' = obj /\ UNCHANGED obj)
      /\ rcp' = "active" => rcp = "active"
      /\ pc = "delete" /\ rcp # "active" => rcp' # "active"
      /\ userDeletes' = 0 => userDeletes = 0
  BY <1>0, EnvironmentEffect
<1>2. ASSUME NEW k \in Ids
      PROVE  /\ obj[k].st \in Leaving =>
                  /\ obj'[k].st \in Leaving /\ obj'[k].hook = obj[k].hook
                  /\ HasDeletionTimestamp(obj'[k]) => HasDeletionTimestamp(obj[k])
             /\ userDeletes' = 0 /\ HasDeletionTimestamp(obj'[k]) => HasDeletionTimestamp(obj[k])
             /\ Exists(obj'[k]) => Exists(obj[k])
  BY <1>0, EnvironmentEffect
<1>3. KnownLeave'
  BY <1>0, <1>1, <1>2 DEF KnownLeave, TypeOK, Leaving, HasDeletionTimestamp
<1>4. Fresh'
  BY <1>0, <1>1, <1>2 DEF Fresh, KnownLeave, TypeOK
<1>5. Lagging'
  <2> SUFFICES ASSUME bound'.lag, userDeletes' = 0 PROVE Lagging'
    BY DEF Lagging
  <2>1. DeletingMachines(obj') \subseteq DeletingMachines(obj)
    BY <1>2 DEF DeletingMachines
  <2>2. Listed(obj') \subseteq Listed(obj) /\ DeletingMachines(obj') \subseteq Listed(obj')
    BY <1>2 DEF Listed, DeletingMachines, Exists
  <2>3. Listed(cache') = Listed(cache) \/ Listed(cache') = Listed(obj')
    BY <1>1
  <2>4. Orderly' => Orderly
    BY <1>1 DEF Orderly
  <2> QED
    BY <1>0, <1>1, <2>1, <2>2, <2>3, <2>4 DEF Lagging
<1>6. SerialRelease'
  BY <1>0, <1>1, <1>2 DEF SerialRelease, KnownLeave, TypeOK
<1> QED
  BY <1>3, <1>4, <1>5, <1>6

(* A step with which the reconcile returns keeps it, when it brings no     *)
(* released Machine back and, with a list that lags, deletes as Lagging    *)
(* says.                                                                   *)
LEMMA ReturningStep ==
    ASSUME IInv, TypeOK', Return, UNCHANGED <<cache, released, bound, userDeletes>>,
           \A m \in Ids : obj[m].st \in Leaving => obj'[m].st = obj[m].st,
           ~bound.lag => \A m \in released : obj'[m].hook = {},
           bound.lag /\ userDeletes = 0 /\ rcp' = "active" =>
               /\ \A m, k \in DeletingMachines(obj') : m = k
               /\ DeletingMachines(obj') \subseteq Listed(cache)
    PROVE  KnownLeave' /\ Fresh' /\ Lagging' /\ SerialRelease'
<1>0. TypeOK /\ KnownLeave /\ Fresh /\ Lagging /\ SerialRelease
  BY DEF IInv
<1>1. /\ pc' = "idle"
      /\ \A m \in Ids : ~HasDeletionTimestamp(mem'[m]) /\ mem'[m].st # "live"
  BY ReturnType DEF NoMachine, HasDeletionTimestamp
<1>2. KnownLeave'
  BY <1>0, <1>1 DEF KnownLeave, TypeOK
<1>3. Fresh'
  BY <1>1 DEF Fresh
<1>4. Lagging'
  <2>1. ActiveMachines(mem') = {}
    BY <1>1 DEF ActiveMachines
  <2> QED
    BY <1>1, <2>1 DEF Lagging, Orderly
<1>5. SerialRelease'
  BY <1>0 DEF SerialRelease, KnownLeave, TypeOK, HasDeletionTimestamp
<1> QED
  BY <1>2, <1>3, <1>4, <1>5

(* Returning with the Machines as they were.                               *)
LEMMA ReturningQuietly ==
    ASSUME IInv, TypeOK', Return, UNCHANGED <<cache, released, bound, userDeletes>>,
           rcp' = "active" => rcp = "active",
           \A m \in Ids : obj'[m].st = obj[m].st,
           ~bound.lag => \A m \in released : obj'[m].hook = {}
    PROVE  KnownLeave' /\ Fresh' /\ Lagging' /\ SerialRelease'
<1>1. DeletingMachines(obj') = DeletingMachines(obj)
  BY DEF DeletingMachines, HasDeletionTimestamp
<1> QED
  BY <1>1, ReturningStep DEF IInv, Lagging, Orderly

(* The steps of the reconcile keep it: the list is read.                   *)
LEMMA ReconcileStep ==
    ASSUME IInv, TypeOK', Reconcile PROVE KnownLeave' /\ Fresh' /\ Lagging' /\ SerialRelease'
<1>0. TypeOK /\ KnownLeave /\ Fresh /\ Lagging /\ SerialRelease
  BY DEF IInv
<1>1. /\ pc = "idle" /\ UNCHANGED <<obj, cache, target, rcp, released, bound, userDeletes>>
      /\ mem' = IF bound.lag THEN cache ELSE obj
      /\ pc' = IF rcp = "active" THEN "sync" ELSE "delete"
      /\ todo' = IF rcp = "active" THEN Listed(mem') ELSE {}
  BY DEF Reconcile, boundVars
<1>2. KnownLeave'
  BY <1>0, <1>1 DEF KnownLeave, TypeOK, Leaving, HasDeletionTimestamp
<1>3. Fresh'
  BY <1>0, <1>1 DEF Fresh, TypeOK
<1>4. Lagging'
  <2>1. ActiveMachines(cache) \subseteq Listed(cache)
    BY DEF ActiveMachines, Listed, Exists
  <2> QED
    BY <1>0, <1>1, <2>1 DEF Lagging, Orderly
<1>5. SerialRelease'
  BY <1>0, <1>1 DEF SerialRelease
<1> QED
  BY <1>2, <1>3, <1>4, <1>5

(* A Machine is synchronised: its answer tells whether it is being deleted. *)
LEMMA SyncStep ==
    ASSUME IInv, TypeOK', NEW m \in Ids, SyncMachine(m)
    PROVE  KnownLeave' /\ Fresh' /\ Lagging' /\ SerialRelease'
<1>0. TypeOK /\ KnownLeave /\ Fresh /\ Lagging /\ SerialRelease
  BY DEF IInv
<1>1. /\ pc = "sync" /\ m \in todo
      /\ UNCHANGED <<cache, rcp, released, bound, userDeletes>>
  BY DEF SyncMachine, boundVars
<1>2. CASE /\ m \in ActiveMachines(mem) /\ Exists(obj[m])
           /\ obj' = [obj EXCEPT ![m].hook = @ \ {"apply"}]
           /\ mem' = [mem EXCEPT ![m] = obj'[m]]
           /\ todo' = todo \ {m}
           /\ UNCHANGED <<pc, target>>
  <2>1. /\ obj'[m].st = obj[m].st
        /\ obj[m].hook = {} => obj'[m].hook = {}
        /\ \A k \in Ids \ {m} : obj'[k] = obj[k] /\ mem'[k] = mem[k]
        /\ mem'[m] = obj'[m]
    BY <1>0, <1>2 DEF TypeOK, Machine
  <2>2. \A k \in Ids : obj'[k].st = obj[k].st
    BY <2>1
  <2>3. KnownLeave'
    BY <1>0, <1>1, <1>2, <2>1, <2>2 DEF KnownLeave, TypeOK, HasDeletionTimestamp, Leaving
  <2>4. Fresh'
    BY <1>0, <1>1, <1>2, <2>1, <2>2 DEF Fresh, TypeOK, HasDeletionTimestamp
  <2>5. Lagging'
    <3>1. /\ DeletingMachines(obj') = DeletingMachines(obj)
          /\ Listed(obj') = Listed(obj)
          /\ m \in Listed(obj)
      BY <1>2, <2>2 DEF DeletingMachines, Listed, Exists, HasDeletionTimestamp
    <3>2. ActiveMachines(mem') \subseteq ActiveMachines(mem)
      BY <1>2, <2>1 DEF ActiveMachines
    <3>3. \A k \in DeletingMachines(obj) : k \in DeletingMachines(mem) \/ k = m => k \in DeletingMachines(mem')
      BY <2>1, <2>2 DEF DeletingMachines, HasDeletionTimestamp
    <3>4. Orderly /\ pc' = "sync"
      BY <1>1, <1>2 DEF Orderly
    <3> QED
      BY <1>0, <1>1, <1>2, <3>1, <3>2, <3>3, <3>4 DEF Lagging
  <2>6. SerialRelease'
    BY <1>0, <1>1, <2>2 DEF SerialRelease, TypeOK, HasDeletionTimestamp
  <2> QED
    BY <2>3, <2>4, <2>5, <2>6
<1>3. CASE m \in DeletingMachines(mem) /\ todo' = todo \ {m} /\ UNCHANGED <<obj, mem, pc, target>>
  <2>1. KnownLeave' /\ Fresh' /\ SerialRelease'
    BY <1>0, <1>1, <1>3 DEF KnownLeave, Fresh, SerialRelease
  <2>2. Lagging'
    BY <1>0, <1>1, <1>3 DEF Lagging, Orderly
  <2> QED
    BY <2>1, <2>2
<1>4. CASE Return /\ UNCHANGED obj
  BY <1>0, <1>1, <1>4, ReturningQuietly DEF Fresh
<1> QED
  BY <1>2, <1>3, <1>4 DEF SyncMachine

(* The hook is put on the active Machines.                                 *)
LEMMA ApplyStep ==
    ASSUME IInv, TypeOK', ApplyHookToActiveMachines
    PROVE  KnownLeave' /\ Fresh' /\ Lagging' /\ SerialRelease'
<1>0. TypeOK /\ KnownLeave /\ Fresh /\ Lagging /\ SerialRelease
  BY DEF IInv
<1> DEFINE need == {m \in ActiveMachines(mem) : mem[m].hook = {}}
<1>1. PICK done \in SUBSET {m \in need : Exists(obj[m])} :
        /\ obj' = [m \in Ids |-> IF m \in done
                                   THEN [obj[m] EXCEPT !.hook = @ \cup {"update"}]
                                   ELSE obj[m]]
        /\ \/ /\ mem' = [m \in Ids |-> IF m \in done
                                         THEN [mem[m] EXCEPT !.hook = {"update"}]
                                         ELSE mem[m]]
              /\ pc' = "hooks" /\ UNCHANGED <<todo, target>>
           \/ Return
  BY DEF ApplyHookToActiveMachines
<1>2. /\ pc = "sync" /\ todo = {}
      /\ UNCHANGED <<cache, rcp, released, bound, userDeletes>>
  BY DEF ApplyHookToActiveMachines
<1>3. \A m \in done : mem[m].st = "live" /\ Exists(obj[m])
  BY DEF ActiveMachines
<1>4. ~bound.lag => \A m \in released : m \notin done /\ obj'[m] = obj[m] /\ obj'[m].hook = {}
  BY <1>0, <1>1, <1>2, <1>3 DEF TypeOK, Fresh, KnownLeave, HasDeletionTimestamp, Exists, Leaving
<1>5. \A m \in Ids : obj'[m].st = obj[m].st
  BY <1>0, <1>1 DEF TypeOK, Machine
<1>6. CASE Return
  BY <1>2, <1>4, <1>5, <1>6, ReturningQuietly
<1>7. CASE /\ mem' = [m \in Ids |-> IF m \in done
                                    THEN [mem[m] EXCEPT !.hook = {"update"}]
                                    ELSE mem[m]]
           /\ pc' = "hooks" /\ UNCHANGED <<todo, target>>
  <2>1. \A m \in Ids : mem'[m].st = mem[m].st /\ (m \notin done => mem'[m] = mem[m])
    BY <1>0, <1>7 DEF TypeOK, Machine
  <2>2. KnownLeave'
    BY <1>0, <1>2, <1>5, <1>7, <2>1 DEF KnownLeave, TypeOK, HasDeletionTimestamp
  <2>3. Fresh'
    BY <1>0, <1>2, <1>4, <1>5, <1>7, <2>1 DEF Fresh, TypeOK, HasDeletionTimestamp
  <2>4. Lagging'
    <3>1. /\ DeletingMachines(obj') = DeletingMachines(obj)
          /\ DeletingMachines(mem') = DeletingMachines(mem)
          /\ ActiveMachines(mem') = ActiveMachines(mem)
          /\ Listed(obj') = Listed(obj)
      BY <1>5, <2>1 DEF DeletingMachines, ActiveMachines, Listed, Exists, HasDeletionTimestamp
    <3> QED
      BY <1>0, <1>2, <1>7, <3>1 DEF Lagging, Orderly
  <2>5. SerialRelease'
    BY <1>0, <1>2, <1>5 DEF SerialRelease, TypeOK, HasDeletionTimestamp
  <2> QED
    BY <2>2, <2>3, <2>4, <2>5
<1> QED
  BY <1>1, <1>6, <1>7

(* The Machine whose hook may be run is picked.                            *)
LEMMA PreTerminateStep ==
    ASSUME IInv, TypeOK', ReconcilePreTerminateHook
    PROVE  KnownLeave' /\ Fresh' /\ Lagging' /\ SerialRelease'
<1>0. TypeOK /\ KnownLeave /\ Fresh /\ Lagging /\ SerialRelease
  BY DEF IInv
<1>1. pc = "hooks" /\ UNCHANGED <<obj, cache, rcp, released, bound, userDeletes>>
  BY DEF ReconcilePreTerminateHook, boundVars
<1>2. CASE Return
  BY <1>0, <1>1, <1>2, ReturningQuietly DEF Fresh
<1>3. CASE DeletingMachines(mem) = {} /\ pc' = "act" /\ UNCHANGED <<mem, todo, target>>
  <2>1. KnownLeave' /\ Fresh' /\ SerialRelease'
    BY <1>0, <1>1, <1>3 DEF KnownLeave, Fresh, SerialRelease
  <2>2. Lagging'
    BY <1>0, <1>1, <1>3 DEF Lagging, Orderly
  <2> QED
    BY <2>1, <2>2
<1>4. ASSUME NEW m \in Ids, MayRunHook(m), pc' = "unhook", target' = m, UNCHANGED <<mem, todo>>
      PROVE  KnownLeave' /\ Fresh' /\ Lagging' /\ SerialRelease'
  <2>1. HasDeletionTimestamp(mem[m])
    BY <1>4 DEF MayRunHook, DeletingMachines
  <2>2. \A k \in Ids : HasDeletionTimestamp(mem[k]) => mem[k].hook # {}
    BY <1>4 DEF MayRunHook, DeletingMachines
  <2>3. KnownLeave' /\ Fresh' /\ SerialRelease'
    BY <1>0, <1>1, <1>4, <2>1, <2>2 DEF KnownLeave, Fresh, SerialRelease
  <2>4. Lagging'
    BY <1>0, <1>1, <1>4 DEF Lagging, Orderly
  <2> QED
    BY <2>3, <2>4
<1> QED
  BY <1>2, <1>3, <1>4 DEF ReconcilePreTerminateHook

(* Its hook is removed: no other released Machine is still being deleted.  *)
LEMMA RemoveHookStep ==
    ASSUME IInv, TypeOK', RemovePreTerminateHook
    PROVE  KnownLeave' /\ Fresh' /\ Lagging' /\ SerialRelease'
<1>0. TypeOK /\ KnownLeave /\ Fresh /\ Lagging /\ SerialRelease
  BY DEF IInv
<1>1. pc = "unhook" /\ Return /\ UNCHANGED <<cache, rcp, bound, userDeletes>>
  BY DEF RemovePreTerminateHook, boundVars
<1>2. target \in Ids /\ obj[target].st \in Leaving
  BY <1>0, <1>1 DEF TypeOK, KnownLeave
<1>3. CASE UNCHANGED <<obj, released>>
  BY <1>0, <1>1, <1>3, ReturningQuietly DEF Fresh
<1>4. CASE obj' = [obj EXCEPT ![target].hook = {}] /\ released' = released \cup {target}
  <2>1. /\ obj'[target].hook = {}
        /\ \A m \in Ids \ {target} : obj'[m] = obj[m]
        /\ \A m \in Ids : obj'[m].st = obj[m].st
    BY <1>0, <1>2, <1>4 DEF TypeOK, Machine
  <2>2. /\ pc' = "idle"
        /\ \A m \in Ids : ~HasDeletionTimestamp(mem'[m]) /\ mem'[m].st # "live"
    BY <1>1, ReturnType DEF NoMachine, HasDeletionTimestamp
  <2>3. KnownLeave'
    BY <1>0, <1>1, <1>2, <1>4, <2>1, <2>2 DEF KnownLeave, TypeOK
  <2>4. Fresh'
    BY <1>0, <1>1, <1>4, <2>1, <2>2 DEF Fresh, TypeOK
  <2>5. DeletingMachines(obj') = DeletingMachines(obj) /\ ActiveMachines(mem') = {}
    BY <2>1, <2>2 DEF DeletingMachines, ActiveMachines, HasDeletionTimestamp
  <2>6. Lagging'
    BY <1>0, <1>1, <2>2, <2>5 DEF Lagging, Orderly
  <2>7. SerialRelease'
    <3>1. CASE bound.lag
      BY <1>0, <1>1, <1>4, <2>1, <3>1 DEF Lagging, Orderly, SerialRelease, DeletingMachines, TypeOK,
         HasDeletionTimestamp
    <3>2. CASE ~bound.lag
      <4>1. \A m \in released : m # target => ~HasDeletionTimestamp(obj[m])
        BY <1>0, <1>1, <3>2 DEF Fresh, TypeOK
      <4> QED
        BY <1>0, <1>4, <2>1, <4>1 DEF SerialRelease, TypeOK, HasDeletionTimestamp
    <3> QED
      BY <3>1, <3>2
  <2> QED
    BY <2>3, <2>4, <2>6, <2>7
<1> QED
  BY <1>3, <1>4 DEF RemovePreTerminateHook

(* A Machine is created or deleted: none is being deleted, and the one     *)
(* picked is listed.                                                       *)
LEMMA ActStep ==
    ASSUME IInv, TypeOK', Act PROVE KnownLeave' /\ Fresh' /\ Lagging' /\ SerialRelease'
<1>0. TypeOK /\ KnownLeave /\ Fresh /\ Lagging /\ SerialRelease
  BY DEF IInv
<1>1. pc = "act" /\ Return /\ UNCHANGED <<cache, rcp, released, bound, userDeletes>>
  BY DEF Act, boundVars
<1>2. CASE UNCHANGED obj
  BY <1>0, <1>1, <1>2, ReturningQuietly DEF Fresh
<1>3. ASSUME NEW m \in Ids, obj[m].st = "absent",
             obj' = [obj EXCEPT ![m].st = "live", ![m].hook = {"apply"}]
      PROVE  KnownLeave' /\ Fresh' /\ Lagging' /\ SerialRelease'
  <2>1. /\ obj'[m].st = "live"
        /\ \A k \in Ids \ {m} : obj'[k] = obj[k]
    BY <1>0, <1>3 DEF TypeOK, Machine
  <2>2. \A k \in Ids : obj[k].st \in Leaving => obj'[k] = obj[k]
    BY <1>3, <2>1 DEF Leaving
  <2>3. DeletingMachines(obj') = DeletingMachines(obj)
    BY <1>3, <2>1 DEF DeletingMachines, HasDeletionTimestamp
  <2>4. \A k \in released : obj'[k] = obj[k]
    BY <1>0, <2>2 DEF KnownLeave, TypeOK
  <2> QED
    BY <1>0, <1>1, <2>2, <2>3, <2>4, ReturningStep DEF Fresh, Lagging
<1>4. ASSUME NEW m \in ActiveMachines(mem), Stamp(obj, {m})
      PROVE  KnownLeave' /\ Fresh' /\ Lagging' /\ SerialRelease'
  <2>0. m \in Ids
    BY DEF ActiveMachines
  <2>1. ASSUME NEW k \in Ids
        PROVE  /\ obj[k].st \in Leaving => obj'[k] = obj[k]
               /\ obj'[k].st = obj[k].st \/ (k = m /\ obj[k].st = "live" /\ obj'[k].st = "deleting")
    BY <1>0, <1>4, <2>0, StampKeeps DEF TypeOK
  <2>2. \A k \in released : obj'[k] = obj[k]
    BY <1>0, <2>1 DEF KnownLeave, TypeOK
  <2>3. ASSUME NEW k \in DeletingMachines(obj')
        PROVE  k \in DeletingMachines(obj) \/ (k = m /\ m \in Listed(obj))
    BY <2>1 DEF DeletingMachines, Listed, Exists, HasDeletionTimestamp
  <2>4. bound.lag /\ userDeletes = 0 =>
          /\ \A k \in DeletingMachines(obj') : k = m
          /\ DeletingMachines(obj') \subseteq Listed(cache)
    BY <1>0, <1>1, <2>3 DEF Lagging
  <2> QED
    BY <1>0, <1>1, <2>1, <2>2, <2>4, ReturningStep DEF Fresh
<1> QED
  BY <1>2, <1>3, <1>4 DEF Act

(* reconcileDelete deletes all it lists, once nothing else is done.        *)
LEMMA DeleteStep ==
    ASSUME IInv, TypeOK', ReconcileDelete PROVE KnownLeave' /\ Fresh' /\ Lagging' /\ SerialRelease'
<1>0. TypeOK /\ KnownLeave /\ Fresh /\ Lagging /\ SerialRelease
  BY DEF IInv
<1>1. /\ pc = "delete" /\ Return /\ UNCHANGED <<cache, released, bound, userDeletes>>
      /\ rcp' = rcp \/ rcp' = "gone"
  BY DEF ReconcileDelete
<1>2. rcp' # "active"
  BY <1>0, <1>1 DEF KnownLeave
<1>3. ASSUME NEW m \in Ids, obj[m].st \in Leaving
      PROVE  obj'[m].st = obj[m].st /\ (obj[m].hook = {} => obj'[m].hook = {})
  <2>1. ASSUME NEW U \in SUBSET Ids, NEW S \in SUBSET Ids, Stamp(WithoutHook(U), S)
        PROVE  obj'[m].st = obj[m].st /\ (obj[m].hook = {} => obj'[m].hook = {})
    <3>1. /\ WithoutHook(U)[m].st = obj[m].st
          /\ obj[m].hook = {} => WithoutHook(U)[m].hook = {}
      BY <1>0 DEF WithoutHook, TypeOK, Machine
    <3> QED
      BY <1>0, <1>3, <2>1, <3>1, WithoutHookType, StampKeeps
  <2> QED
    BY <2>1 DEF ReconcileDelete, OwnedMachines, Listed
<1>4. ~bound.lag => \A m \in released : obj'[m].hook = {}
  BY <1>0, <1>3 DEF KnownLeave, Fresh, TypeOK
<1> QED
  BY <1>1, <1>2, <1>3, <1>4, ReturningStep

(* Every step keeps the invariant.                                         *)
LEMMA InvariantStep == IInv /\ [Next]_vars => IInv'
<1> SUFFICES ASSUME IInv, [Next]_vars PROVE IInv'
  OBVIOUS
<1>0. TypeOK'
  BY TypeStep DEF IInv
<1>1. CASE Environment
  BY <1>0, <1>1, EnvironmentStep DEF IInv
<1>2. CASE Controller
  BY <1>0, <1>2, ReconcileStep, SyncStep, ApplyStep, PreTerminateStep, RemoveHookStep, ActStep,
     DeleteStep DEF Controller, IInv
<1>3. CASE Fault
  BY <1>0, <1>3, ReturningQuietly DEF Fault, etcdVars, IInv, Fresh
<1> QED
  BY <1>1, <1>2, <1>3 DEF Next, Environment

(* It holds of an established control plane.                               *)
LEMMA InitIInv == Init => IInv
<1> SUFFICES ASSUME Init PROVE IInv
  OBVIOUS
<1>1. obj \in [Ids -> Machine]
  <2>1. [NoMachine EXCEPT !.st = "live", !.hook = {"update"}, !.ref = TRUE] \in Machine
    BY DEF NoMachine, Machine, States, Owners
  <2> QED
    BY <2>1, NoMachineType DEF Init
<1>2. TypeOK
  BY <1>1, NoMachineType, HooksAssumption DEF Init, TypeOK, Ids
<1>3. \A m \in Ids : obj[m].st \in {"live", "absent"}
  BY DEF Init, NoMachine
<1>4. KnownLeave
  BY <1>3 DEF Init, KnownLeave, NoMachine, HasDeletionTimestamp
<1>5. Fresh /\ SerialRelease
  BY DEF Init, Fresh, SerialRelease
<1>6. Lagging
  <2>1. DeletingMachines(obj) = {} /\ ActiveMachines(mem) = {}
    BY <1>3 DEF Init, DeletingMachines, ActiveMachines, HasDeletionTimestamp, NoMachine
  <2> QED
    BY <2>1 DEF Init, Lagging
<1> QED
  BY <1>2, <1>4, <1>5, <1>6 DEF IInv
-----------------------------------------------------------------------------
(* Type correctness, stale cache or not: a release is under way exactly    *)
(* when a Machine has been picked for it, and RKE2 reports a member as     *)
(* removed only after it was asked to and has removed it.                  *)
THEOREM TypeCorrect == Spec => []TypeOK
<1>1. Init => TypeOK
  BY InitIInv DEF IInv
<1> QED
  BY <1>1, TypeStep, PTL DEF Spec

(* getDeletingMachineWithHook lets one Machine go at a time, for any       *)
(* number of Machines, faults, lost Nodes, hooks of others and a deletion  *)
(* of the control plane: with a list that lags behind as long as only the  *)
(* controller deletes Machines, and with deletions by users at any moment  *)
(* where the list is up to date.                                           *)
THEOREM OneReleaseAtATime == Spec => []SerialRelease
<1>1. IInv => SerialRelease
  BY DEF IInv
<1> QED
  BY <1>1, InvariantStep, InitIInv, PTL DEF Spec
=============================================================================
