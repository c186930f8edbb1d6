--------------------------- MODULE BootstrapProofs ---------------------------
(***************************************************************************)
(* Proofs about Bootstrap, for any number of control-plane and worker      *)
(* configs and any bounds: types, the exclusion of the init lock and the   *)
(* one token.                                                              *)
(***************************************************************************)
EXTENDS Bootstrap, TLAPS

(* While nothing has been initialised, no Machine was deleted and no       *)
(* published initialisation undone.                                        *)
Before == ~clusterInitialized /\ present = CPMachines /\ ~Undone

Unlocking(c) == pc[c] \in {"Unlock.Get", "Unlock.Delete"}

(* Whoever initialises holds the lock.                                     *)
InitHoldsLock ==
    Before => \A c \in CPMachines : Initializing(c) => lock = c

(* Until then the lock is released only by the config that holds it, after *)
(* its initialisation failed before anything was published.                *)
UnlockHoldsLock ==
    Before => \A c \in Configs :
                Unlocking(c) => lock = c /\ after[c] = "idle" /\ ~Published(c)

(* A reconcile under way belongs to a config that has published nothing,   *)
(* or that is handled again.                                               *)
BusyUnpublished ==
    \A c \in Configs : pc[c] # "idle" => ~Published(c) \/ again[c] # "no"

(* A config joins only an initialised cluster.                             *)
JoinInitialized ==
    \A c \in Configs :
        pc[c] = "join" \/ (Unlocking(c) /\ after[c] = "join") => clusterInitialized

HolderRead == \A c \in Configs : pc[c] = "Lock.GetHolder" => holder[c] \in CPMachines

(* Only control-plane configs reach the lock and what it guards.           *)
LockersOwned ==
    \A c \in Configs :
        pc[c] \in {"Lock.Get", "Lock.GetHolder", "Lock.Create", "certificates", "store"}
            => c \in CPMachines

Typed == TypeOK /\ LockersOwned

Locking ==
    /\ InitHoldsLock
    /\ UnlockHoldsLock
    /\ BusyUnpublished
    /\ JoinInitialized
    /\ HolderRead

IInv == Typed /\ Locking
-----------------------------------------------------------------------------
(* What is noted of a config being handled.                                *)
LEMMA HandledType ==
    ASSUME TypeOK, NEW c \in Configs, NEW scope, Handled(c, scope)
    PROVE  again' \in [Configs -> {"no", "yes", "undone"}] /\ faults' \in 0..MaxFaults
  BY BoundsAssumption DEF TypeOK, Handled

(* Every step of the controller, of a failing call and of the environment  *)
(* keeps the types, given that workers stay away from the lock.            *)
LEMMA TypeStep == Typed /\ [Next]_vars => Typed'
<1> SUFFICES ASSUME Typed, [Next]_vars PROVE Typed'
  OBVIOUS
<1> USE ConfigsAssumption, BoundsAssumption
    DEF Typed, TypeOK, LockersOwned, Configs, Labels, Data, Goto, CallUnlock
<1>1. CASE UNCHANGED vars
  BY <1>1 DEF vars, mutexVars, bootVars
<1>2. ASSUME NEW c \in Configs, Reconcile(c) PROVE Typed'
  <2>0. again' \in [Configs -> {"no", "yes", "undone"}] /\ faults' \in 0..MaxFaults
    BY <1>2, HandledType DEF Reconcile
  <2>1. CASE UNCHANGED <<pc, after>> /\ status' = [status EXCEPT ![c] = TRUE]
    BY <1>2, <2>0, <2>1 DEF Reconcile
  <2>2. CASE Goto(c, "Lock.Get") /\ HasControlPlaneOwner(c) /\ UNCHANGED <<status, after>>
    BY <1>2, <2>0, <2>2 DEF Reconcile, HasControlPlaneOwner
  <2>3. CASE CallUnlock(c, "join") /\ UNCHANGED status
    BY <1>2, <2>0, <2>3 DEF Reconcile
  <2> QED
    BY <1>2, <2>1, <2>2, <2>3 DEF Reconcile
<1>3. ASSUME NEW c \in Configs, GenerateToken(c) PROVE Typed'
  BY <1>3 DEF GenerateToken
<1>4. ASSUME NEW c \in Configs, StoreInitData(c) PROVE Typed'
  BY <1>4 DEF StoreInitData, DataOf
<1>5. ASSUME NEW c \in Configs, JoinControlplane(c) \/ JoinWorker(c) PROVE Typed'
  BY <1>5 DEF JoinControlplane, JoinWorker, Join, MayJoin, DataOf
<1>6. ASSUME NEW c \in Configs, PatchStatus(c) PROVE Typed'
  BY <1>6 DEF PatchStatus
<1>7. ASSUME NEW c \in Configs, Mutex(c) PROVE Typed'
  <2> USE <1>7 DEF Mutex, MutexStep, bootVars
  <2>1. CASE LockGet(c)
    BY <2>1 DEF LockGet
  <2>2. CASE LockGetHolder(c)
    BY <2>2 DEF LockGetHolder
  <2>3. CASE LockCreate(c)
    BY <2>3 DEF LockCreate
  <2>4. CASE UnlockGet(c)
    BY <2>4 DEF UnlockGet, Unlocked
  <2>5. CASE UnlockDelete(c)
    BY <2>5 DEF UnlockDelete, Unlocked
  <2> QED
    BY <2>1, <2>2, <2>3, <2>4, <2>5
<1>8. ASSUME NEW c \in Configs, Fault(c) PROVE Typed'
  <2>1. CASE InitError(c)
    <3>1. data' \in [Configs -> Data] /\ again' \in [Configs -> {"no", "yes", "undone"}]
      BY <2>1 DEF InitError, DataOf
    <3> QED
      BY <2>1, <3>1 DEF InitError
  <2>2. CASE ReconcileError(c)
    BY <2>2 DEF ReconcileError
  <2>3. CASE MutexFault(c) /\ LockError(c)
    <3>1. c \in CPMachines \/ lock' = lock
      BY <2>3 DEF LockError
    <3> QED
      BY <2>3, <3>1 DEF MutexFault, LockError
  <2>4. CASE MutexFault(c) /\ UnlockError(c)
    BY <2>4 DEF MutexFault, UnlockError, Unlocked
  <2> QED
    BY <1>8, <2>1, <2>2, <2>3, <2>4 DEF Fault, MutexFault, MutexError
<1>9. ASSUME NEW c \in Configs, Environment(c) PROVE Typed'
  <2>1. CASE SetDataSecretName(c)
    BY <2>1 DEF SetDataSecretName, mutexVars
  <2>2. CASE Boot(c)
    BY <2>2 DEF Boot, mutexVars
  <2> QED
    BY <1>9, <2>1, <2>2 DEF Environment
<1>10. ASSUME NEW c \in Configs, DeleteMachine(c) PROVE Typed'
  BY <1>10 DEF DeleteMachine, bootVars
<1>11. CASE ClusterInitialized
  BY <1>11 DEF ClusterInitialized, mutexVars
<1>12. CASE ServerIPsAvailable
  BY <1>12 DEF ServerIPsAvailable, mutexVars
<1>13. CASE Restart
  BY <1>13 DEF Restart
<1>14. CASE Pivot
  BY <1>14 DEF Pivot, mutexVars
<1> QED
  BY <1>1, <1>2, <1>3, <1>4, <1>5, <1>6, <1>7, <1>8, <1>9, <1>10, <1>11, <1>12, <1>13, <1>14
     DEF Next, Step
-----------------------------------------------------------------------------
(* A config without data in the scope that was read either has published   *)
(* none, or is noted as handled again; nothing is undone by that.          *)
LEMMA HandledEffect ==
    ASSUME TypeOK, NEW c \in Configs, NEW scope \in NewScope(c), ~DataSecretCreated(scope),
           Handled(c, scope)
    PROVE  /\ Published(c) => again'[c] # "no"
           /\ \A d \in Configs : /\ again[d] # "no" => again'[d] # "no"
                                 /\ again'[d] = "undone" <=> again[d] = "undone"
<1>1. UpToDate(c, scope) => ~Published(c)
  BY DEF NewScope, DataSecretCreated, UpToDate, Published
<1> QED
  BY <1>1 DEF TypeOK, Handled

(* A scope that shows data shows data that is published.                   *)
LEMMA CreatedPublished ==
    ASSUME TypeOK, NEW c \in Configs, NEW scope \in NewScope(c), DataSecretCreated(scope)
    PROVE  Published(c)
  BY DEF TypeOK, NewScope, MayRead, DataSecretCreated, Published

(* A scope that is not up to date hides data that is published.            *)
LEMMA OldReadPublished ==
    ASSUME TypeOK, NEW c \in Configs, NEW scope \in NewScope(c), ~UpToDate(c, scope)
    PROVE  Published(c)
  BY DEF TypeOK, NewScope, MayRead, UpToDate, Published

(* Every step keeps the discipline of the lock.                            *)
LEMMA LockingStep == IInv /\ [Next]_vars => Locking'
<1> SUFFICES ASSUME IInv, [Next]_vars PROVE Locking'
  OBVIOUS
<1>0. TypeOK /\ Locking /\ LockersOwned
  BY DEF IInv, Typed
<1>a. /\ pc \in [Configs -> Labels] /\ after \in [Configs -> {"idle", "join"}]
      /\ holder \in [Configs -> CPMachines \cup {None}] /\ lock \in CPMachines \cup {None}
      /\ data \in [Configs -> Data] /\ status \in [Configs -> BOOLEAN] /\ ref \in [Configs -> BOOLEAN]
      /\ again \in [Configs -> {"no", "yes", "undone"}] /\ present \subseteq CPMachines
  BY <1>0 DEF TypeOK
<1> USE <1>0, <1>a, ConfigsAssumption
    DEF Configs, LockersOwned, Locking, InitHoldsLock, UnlockHoldsLock, BusyUnpublished, JoinInitialized,
        HolderRead, Before, Unlocking, Published, Undone, Initializing, InInit, Goto, CallUnlock
<1>1. CASE UNCHANGED vars
  BY <1>1 DEF vars, mutexVars, bootVars
<1>2. ASSUME NEW c \in Configs, Reconcile(c) PROVE Locking'
  <2>0. PICK scope \in NewScope(c) : \/ /\ DataSecretCreated(scope)
                                       /\ status' = [status EXCEPT ![c] = TRUE]
                                       /\ UNCHANGED <<pc, after, again, faults>>
                                    \/ /\ ~DataSecretCreated(scope)
                                       /\ ~clusterInitialized
                                       /\ HasControlPlaneOwner(c)
                                       /\ Goto(c, "Lock.Get")
                                       /\ Handled(c, scope)
                                       /\ UNCHANGED <<status, after>>
                                    \/ /\ ~DataSecretCreated(scope)
                                       /\ clusterInitialized
                                       /\ CallUnlock(c, "join")
                                       /\ Handled(c, scope)
                                       /\ UNCHANGED status
    BY <1>2 DEF Reconcile
  <2>1. CASE DataSecretCreated(scope)
    <3>1. /\ status' = [status EXCEPT ![c] = TRUE]
          /\ UNCHANGED <<lock, present, pc, holder, after, clusterInitialized, data, ref, again>>
      BY <1>2, <2>0, <2>1 DEF Reconcile
    <3>2. Published(c)
      BY <2>0, <2>1, CreatedPublished
    <3>3. \A d \in Configs : Published(d)' <=> Published(d)
      BY <3>1, <3>2
    <3> HIDE DEF Published
    <3> QED
      BY <3>1, <3>3
  <2>2. CASE ~DataSecretCreated(scope)
    <3>1. /\ Published(c) => again'[c] # "no"
          /\ \A d \in Configs : /\ again[d] # "no" => again'[d] # "no"
                                /\ again'[d] = "undone" <=> again[d] = "undone"
      BY <2>0, <2>2, HandledEffect
    <3>2. pc[c] = "idle" /\ UNCHANGED <<lock, present, holder, clusterInitialized, data, status, ref>>
      BY <1>2, <2>0, <2>2 DEF Reconcile
    <3>a. Undone' <=> Undone
      BY <3>1
    <3>b. ASSUME \A d \in Configs : d # c => pc'[d] = pc[d] PROVE BusyUnpublished'
      BY <3>1, <3>2, <3>b
    <3>3. CASE Goto(c, "Lock.Get") /\ UNCHANGED after
      <4>1. /\ pc'[c] = "Lock.Get"
            /\ \A d \in Configs : d # c => pc'[d] = pc[d]
        BY <3>3
      <4>2. \A d \in Configs : Initializing(d)' => Initializing(d)
        BY <3>2, <4>1
      <4>3. InitHoldsLock' /\ UnlockHoldsLock'
        <5>1. Before' <=> Before
          BY <3>2, <3>a
        <5>2. \A d \in Configs : Unlocking(d)' => Unlocking(d)
          BY <4>1
        <5>3. \A d \in Configs : Published(d)' = Published(d)
          BY <3>2
        <5> HIDE DEF Initializing, Undone, Unlocking, Published, Before
        <5> QED
          BY <3>2, <3>3, <4>2, <5>1, <5>2, <5>3
      <4>4. BusyUnpublished'
        BY <3>b, <4>1
      <4>5. JoinInitialized' /\ HolderRead'
        BY <3>2, <3>3, <4>1
      <4> QED
        BY <4>3, <4>4, <4>5
    <3>4. CASE clusterInitialized /\ CallUnlock(c, "join")
      <4>1. ~Before'
        BY <3>2, <3>4
      <4>2. /\ pc'[c] = "Unlock.Get"
            /\ \A d \in Configs : d # c => pc'[d] = pc[d] /\ after'[d] = after[d]
        BY <3>4
      <4>3. BusyUnpublished'
        BY <3>b, <4>2
      <4>4. JoinInitialized' /\ HolderRead'
        BY <3>2, <3>4, <4>2
      <4> HIDE DEF Before
      <4>5. InitHoldsLock' /\ UnlockHoldsLock'
        BY <4>1
      <4> QED
        BY <4>3, <4>4, <4>5
    <3> QED
      BY <2>0, <2>2, <3>3, <3>4
  <2> QED
    BY <2>1, <2>2
<1>3. ASSUME NEW c \in Configs, GenerateToken(c) PROVE Locking'
  BY <1>3 DEF GenerateToken
<1>4. ASSUME NEW c \in Configs, StoreInitData(c) PROVE Locking'
  BY <1>4 DEF StoreInitData, DataOf
<1>5. ASSUME NEW c \in Configs, JoinControlplane(c) \/ JoinWorker(c) PROVE Locking'
  BY <1>5 DEF JoinControlplane, JoinWorker, Join, MayJoin, DataOf
<1>6. ASSUME NEW c \in Configs, PatchStatus(c) PROVE Locking'
  BY <1>6 DEF PatchStatus
<1>7. ASSUME NEW c \in Configs, Mutex(c) PROVE Locking'
  <2>0. UNCHANGED <<clusterInitialized, data, status, ref, again>>
    BY <1>7 DEF Mutex, bootVars
  <2>1. CASE LockGet(c)
    BY <2>0, <2>1 DEF LockGet
  <2>2. CASE LockGetHolder(c)
    BY <2>0, <2>2 DEF LockGetHolder
  <2>3. CASE LockCreate(c)
    BY <2>0, <2>3 DEF LockCreate
  <2>4. CASE UnlockGet(c)
    BY <2>0, <2>4 DEF UnlockGet, Unlocked
  <2>5. CASE UnlockDelete(c)
    BY <2>0, <2>5 DEF UnlockDelete, Unlocked
  <2> QED
    BY <1>7, <2>1, <2>2, <2>3, <2>4, <2>5 DEF Mutex, MutexStep
<1>8. ASSUME NEW c \in Configs, Fault(c) PROVE Locking'
  <2>1. CASE InitError(c)
    <3>1. InitHoldsLock' /\ UnlockHoldsLock'
      BY <2>1 DEF InitError
    <3>2. BusyUnpublished' /\ JoinInitialized' /\ HolderRead'
      BY <2>1 DEF InitError
    <3> QED
      BY <3>1, <3>2
  <2>2. CASE ReconcileError(c)
    BY <2>2 DEF ReconcileError
  <2>3. CASE MutexFault(c) /\ LockError(c)
    <3>1. InitHoldsLock' /\ UnlockHoldsLock'
      BY <2>3 DEF MutexFault, LockError
    <3>2. BusyUnpublished' /\ JoinInitialized' /\ HolderRead'
      BY <2>3 DEF MutexFault, LockError
    <3> QED
      BY <3>1, <3>2
  <2>4. CASE MutexFault(c) /\ UnlockError(c)
    BY <2>4 DEF MutexFault, UnlockError, Unlocked
  <2> QED
    BY <1>8, <2>1, <2>2, <2>3, <2>4 DEF Fault, MutexFault, MutexError
<1>9. ASSUME NEW c \in Configs, Environment(c) PROVE Locking'
  <2>1. CASE SetDataSecretName(c)
    BY <2>1 DEF SetDataSecretName, mutexVars
  <2>2. CASE Boot(c)
    BY <2>2 DEF Boot, mutexVars
  <2> QED
    BY <1>9, <2>1, <2>2 DEF Environment
<1>10. ASSUME NEW c \in Configs, DeleteMachine(c) PROVE Locking'
  BY <1>10 DEF DeleteMachine, bootVars
<1>11. CASE ClusterInitialized
  BY <1>11 DEF ClusterInitialized, mutexVars
<1>12. CASE ServerIPsAvailable
  BY <1>12 DEF ServerIPsAvailable, mutexVars
<1>13. CASE Restart
  BY <1>13 DEF Restart
<1>14. CASE Pivot
  BY <1>14 DEF Pivot, mutexVars
<1> QED
  BY <1>1, <1>2, <1>3, <1>4, <1>5, <1>6, <1>7, <1>8, <1>9, <1>10, <1>11, <1>12, <1>13, <1>14
     DEF Next, Step

(* The invariant holds of the initial state.                               *)
LEMMA InitIInv == Init => IInv
<1> SUFFICES ASSUME Init PROVE IInv
  OBVIOUS
<1>1. TypeOK
  <2>1. NoData \in Data
    BY DEF NoData, Data
  <2>2. 0 \in 0..MaxFaults
    BY BoundsAssumption
  <2> QED
    BY <2>1, <2>2 DEF Init, TypeOK, Labels
<1>2. LockersOwned /\ UnlockHoldsLock /\ BusyUnpublished /\ JoinInitialized /\ HolderRead
  BY DEF Init, LockersOwned, UnlockHoldsLock, BusyUnpublished, JoinInitialized, HolderRead,
         Unlocking
<1>3. InitHoldsLock
  BY DEF Init, InitHoldsLock, Initializing, InInit, Published, Configs
<1> QED
  BY <1>1, <1>2, <1>3 DEF IInv, Typed, Locking
-----------------------------------------------------------------------------
(* Type correctness, old reads included; in particular the lock ConfigMap  *)
(* only ever names a control-plane Machine (handleClusterNotInitialized    *)
(* refuses workers).                                                       *)
THEOREM TypeCorrect == Spec => []TypeOK
<1>1. Init => Typed
  BY InitIInv DEF IInv
<1>2. Typed => TypeOK
  BY DEF Typed
<1> QED
  BY <1>1, <1>2, TypeStep, PTL DEF Spec

(* The invariant.                                                          *)
THEOREM Invariance == Spec => []IInv
<1>1. IInv /\ [Next]_vars => IInv'
  BY TypeStep, LockingStep DEF IInv
<1> QED
  BY <1>1, InitIInv, PTL DEF Spec

(* Mutual exclusion of the init lock: until the cluster is initialised,    *)
(* and unless a control-plane Machine is deleted or a published            *)
(* initialisation, run again from an old read, fails, at most one config   *)
(* builds or has published init data, for any number of configs and of     *)
(* old reads, failed calls, restarts and pivots.                           *)
THEOREM MutualExclusion == Spec => []InitExclusive
<1>1. IInv => InitExclusive
  BY DEF IInv, Locking, InitHoldsLock, Before, InitExclusive, AtMostOne
<1> QED
  BY <1>1, Invariance, PTL

-----------------------------------------------------------------------------
(* Data stored, or about to be, carries the one token there is.            *)
TokenStored ==
    /\ \A c \in Configs : pc[c] = "store" => token # None /\ memToken[c] = token
    /\ \A c \in Configs : data[c].kind # "none" => token # None /\ data[c].token = token

(* Every step keeps that: only GenerateToken writes the token, and only    *)
(* where there was none.                                                   *)
LEMMA TokenStep == Typed /\ TokenStored /\ [Next]_vars => TokenStored'
<1> SUFFICES ASSUME Typed, TokenStored, [Next]_vars PROVE TokenStored'
  OBVIOUS
<1>0. /\ pc \in [Configs -> Labels] /\ after \in [Configs -> {"idle", "join"}]
      /\ data \in [Configs -> Data] /\ memToken \in [Configs -> Configs \cup {None}]
  BY DEF Typed, TypeOK
<1> USE <1>0, ConfigsAssumption DEF TokenStored, Goto, CallUnlock
<1>1. CASE UNCHANGED vars
  BY <1>1 DEF vars, mutexVars, bootVars
<1>2. ASSUME NEW c \in Configs, Reconcile(c) PROVE TokenStored'
  BY <1>2 DEF Reconcile
<1>3. ASSUME NEW c \in Configs, GenerateToken(c) PROVE TokenStored'
  BY <1>3 DEF GenerateToken, Configs
<1>4. ASSUME NEW c \in Configs, StoreInitData(c) PROVE TokenStored'
  BY <1>4 DEF StoreInitData, DataOf
<1>5. ASSUME NEW c \in Configs, JoinControlplane(c) \/ JoinWorker(c) PROVE TokenStored'
  BY <1>5 DEF JoinControlplane, JoinWorker, Join, MayJoin, DataOf
<1>6. ASSUME NEW c \in Configs, PatchStatus(c) PROVE TokenStored'
  BY <1>6 DEF PatchStatus
<1>7. ASSUME NEW c \in Configs, Mutex(c) PROVE TokenStored'
  BY <1>7 DEF Mutex, MutexStep, LockGet, LockGetHolder, LockCreate, UnlockGet, UnlockDelete,
              Unlocked, bootVars
<1>8. ASSUME NEW c \in Configs, Fault(c) PROVE TokenStored'
  <2>1. CASE InitError(c)
    BY <2>1 DEF InitError, DataOf
  <2>2. CASE ReconcileError(c) \/ MutexFault(c)
    BY <2>2 DEF ReconcileError, MutexFault, MutexError, LockError, UnlockError, Unlocked
  <2> QED
    BY <1>8, <2>1, <2>2 DEF Fault
<1>9. ASSUME NEW c \in Configs, Environment(c) PROVE TokenStored'
  BY <1>9 DEF Environment, SetDataSecretName, Boot, mutexVars
<1>10. ASSUME NEW c \in Configs, DeleteMachine(c) PROVE TokenStored'
  BY <1>10 DEF DeleteMachine, bootVars
<1>11. CASE ClusterInitialized \/ ServerIPsAvailable \/ Restart \/ Pivot
  BY <1>11 DEF ClusterInitialized, ServerIPsAvailable, Restart, Pivot, mutexVars
<1> QED
  BY <1>1, <1>2, <1>3, <1>4, <1>5, <1>6, <1>7, <1>8, <1>9, <1>10, <1>11 DEF Next, Step

(* All data secrets carry the same token, with old reads, deleted          *)
(* Machines, two initialisers and any number of faults.                    *)
THEOREM OneToken == Spec => []TokenAgreement
<1>1. Init => Typed /\ TokenStored
  <2>1. Init => TokenStored
    BY DEF Init, TokenStored, NoData
  <2> QED
    BY <2>1, InitIInv DEF IInv
<1>2. TokenStored => TokenAgreement
  BY DEF TokenStored, TokenAgreement
<1> QED
  BY <1>1, <1>2, TypeStep, TokenStep, PTL DEF Spec
=============================================================================
