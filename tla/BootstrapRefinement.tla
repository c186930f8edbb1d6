------------------------- MODULE BootstrapRefinement -------------------------
(***************************************************************************)
(* Published data is stable, and Bootstrap implements BootstrapContract,   *)
(* for any number of configs and any bounds.                               *)
(***************************************************************************)
EXTENDS BootstrapProofs

(* What a config offers, or is about to offer, is data of a known kind:    *)
(* init for a control-plane Machine, join for a cluster that is up.  Until *)
(* then a node that booted to initialize the cluster is offered init data. *)
(* Whoever takes the lock has not been given data to join.                 *)
Offered ==
    /\ \A c \in Configs : Published(c) \/ pc[c] = "patch" => data[c].kind # "none"
    /\ \A c \in Configs : data[c].kind = "init" => c \in CPMachines
    /\ \A c \in Configs : data[c].kind = "join" => clusterInitialized
    /\ \A c \in Configs :
         booted[c] = "init" /\ ~clusterInitialized => ref[c] /\ data[c].kind = "init"
    /\ \A c \in Configs :
         pc[c] \in {"Lock.Get", "Lock.GetHolder", "Lock.Create", "certificates", "store"} =>
             data[c].kind # "join"

RInv == IInv /\ TokenStored /\ Offered
-----------------------------------------------------------------------------
(* Every step keeps the offers in order.                                   *)
LEMMA OfferedStep == IInv /\ Offered /\ [Next]_vars => Offered'
<1> SUFFICES ASSUME IInv, Offered, [Next]_vars PROVE Offered'
  OBVIOUS
<1> USE ConfigsAssumption
    DEF IInv, Typed, TypeOK, LockersOwned, Locking, BusyUnpublished, JoinInitialized,
        Offered, Published, Labels, Goto, CallUnlock
<1>1. CASE UNCHANGED vars
  BY <1>1 DEF vars, mutexVars, bootVars
<1>2. ASSUME NEW c \in Configs, Reconcile(c) PROVE Offered'
  <2>1. CASE UNCHANGED pc /\ Published(c) /\ status' = [status EXCEPT ![c] = TRUE]
    BY <1>2, <2>1 DEF Reconcile
  <2>2. CASE ~clusterInitialized /\ Goto(c, "Lock.Get") /\ UNCHANGED status
    BY <1>2, <2>2 DEF Reconcile
  <2>3. CASE Goto(c, "Unlock.Get") /\ UNCHANGED status
    BY <1>2, <2>3 DEF Reconcile
  <2> QED
    BY <1>2, <2>1, <2>2, <2>3, CreatedPublished DEF Reconcile
<1>3. ASSUME NEW c \in Configs, GenerateToken(c) PROVE Offered'
  BY <1>3 DEF GenerateToken
<1>4. ASSUME NEW c \in Configs, StoreInitData(c) PROVE Offered'
  BY <1>4 DEF StoreInitData, DataOf
<1>5. ASSUME NEW c \in Configs, JoinControlplane(c) \/ JoinWorker(c) PROVE Offered'
  BY <1>5 DEF JoinControlplane, JoinWorker, Join, MayJoin, DataOf
<1>6. ASSUME NEW c \in Configs, PatchStatus(c) PROVE Offered'
  BY <1>6 DEF PatchStatus
<1>7. ASSUME NEW c \in Configs, Mutex(c) PROVE Offered'
  BY <1>7 DEF Mutex, MutexStep, LockGet, LockGetHolder, LockCreate, UnlockGet, UnlockDelete,
              Unlocked, bootVars
<1>8. ASSUME NEW c \in Configs, Fault(c) PROVE Offered'
  <2>1. CASE InitError(c)
    BY <2>1 DEF InitError, DataOf
  <2>2. CASE ReconcileError(c) \/ MutexFault(c)
    BY <2>2 DEF ReconcileError, MutexFault, MutexError, LockError, UnlockError, Unlocked
  <2> QED
    BY <1>8, <2>1, <2>2 DEF Fault
<1>9. ASSUME NEW c \in Configs, Environment(c) PROVE Offered'
  BY <1>9 DEF Environment, SetDataSecretName, Boot, mutexVars
<1>10. ASSUME NEW c \in Configs, DeleteMachine(c) PROVE Offered'
  BY <1>10 DEF DeleteMachine, bootVars
<1>11. CASE ClusterInitialized \/ ServerIPsAvailable \/ Restart \/ Pivot
  BY <1>11 DEF ClusterInitialized, ServerIPsAvailable, Restart, Pivot, mutexVars
<1> QED
  BY <1>1, <1>2, <1>3, <1>4, <1>5, <1>6, <1>7, <1>8, <1>9, <1>10, <1>11 DEF Next, Step

(* Storing the data of a published initialisation again changes nothing.   *)
LEMMA StoredAgain ==
    ASSUME RInv, NEW c \in Configs, pc[c] = "store", Published(c)
    PROVE  DataOf("init", memToken[c]) = data[c]
<1>1. data[c] \in Data /\ data[c].kind = "init"
  BY DEF RInv, IInv, Typed, TypeOK, Offered, Data
<1>2. data[c].token = token /\ memToken[c] = token
  BY <1>1 DEF RInv, TokenStored
<1> QED
  BY <1>1, <1>2 DEF Data, DataOf

(* Joining again changes init data to join data and keeps the token.       *)
LEMMA JoinedAgain ==
    ASSUME RInv, NEW c \in Configs, pc[c] = "join", Published(c)
    PROVE  /\ again[c] # "no" /\ clusterInitialized
           /\ data[c].token = token
           /\ data[c] = DataOf("join", token) \/ data[c] = DataOf("init", token)
<1>1. data[c] \in Data /\ data[c].kind # "none"
  BY DEF RInv, IInv, Typed, TypeOK, Offered
<1>2. data[c].token = token
  BY <1>1 DEF RInv, TokenStored
<1>3. again[c] # "no" /\ clusterInitialized
  BY DEF RInv, IInv, Locking, BusyUnpublished, JoinInitialized
<1> QED
  BY <1>1, <1>2, <1>3 DEF Data, DataOf

(* The data a config has published stays, or becomes join data.            *)
LEMMA DataKept ==
    ASSUME RInv, Next, NEW c \in Configs, Published(c)
    PROVE  \/ data'[c] = data[c]
           \/ /\ again[c] # "no" /\ clusterInitialized
              /\ data[c].kind = "init" /\ data'[c] = DataOf("join", data[c].token)
<1>1. CASE StoreInitData(c) \/ InitError(c)
  BY <1>1, StoredAgain DEF StoreInitData, InitError, RInv, IInv, Typed, TypeOK
<1>2. CASE JoinControlplane(c) \/ JoinWorker(c)
  <2>1. data'[c] = data[c] \/ data'[c] = DataOf("join", token)
    BY <1>2 DEF JoinControlplane, JoinWorker, Join, RInv, IInv, Typed, TypeOK
  <2>2. pc[c] = "join"
    BY <1>2 DEF JoinControlplane, JoinWorker
  <2> QED
    BY <2>1, <2>2, JoinedAgain DEF DataOf
<1>3. CASE \E d \in Configs \ {c} : \/ StoreInitData(d) \/ InitError(d)
                                  \/ JoinControlplane(d) \/ JoinWorker(d)
  BY <1>3 DEF StoreInitData, InitError, JoinControlplane, JoinWorker, Join, RInv, IInv, Typed, TypeOK
<1>4. CASE UNCHANGED data
  BY <1>4
<1> QED
  BY <1>1, <1>2, <1>3, <1>4 DEF Next, Step, Reconcile, GenerateToken, PatchStatus, Mutex, Fault,
     ReconcileError, MutexFault, Environment, SetDataSecretName, Boot, DeleteMachine,
     ClusterInitialized, ServerIPsAvailable, Restart, Pivot, bootVars

(* The invariant holds.                                                    *)
THEOREM RInvariance == Spec => []RInv
<1>1. Init => RInv
  <2>1. Init => TokenStored
    BY DEF Init, TokenStored, NoData
  <2>2. Init => Offered
    BY DEF Init, Offered, NoData, Published
  <2> QED
    BY <2>1, <2>2, InitIInv DEF RInv
<1>2. RInv /\ [Next]_vars => RInv'
  BY TypeStep, LockingStep, TokenStep, OfferedStep DEF RInv, IInv
<1> QED
  BY <1>1, <1>2, PTL DEF Spec

(* Data named by the owner keeps its content through old reads, failed     *)
(* calls, restarts, deletions and pivots; only a config handled again from *)
(* an old read, once the cluster is up, may find join data with the same   *)
(* token in the place of its init data.                                    *)
THEOREM PublishedDataIsStable == Spec => DataStable
<1>1. RInv /\ [Next]_vars =>
        [\A c \in Configs : ref[c] =>
           \/ data'[c] = data[c]
           \/ /\ again[c] # "no" /\ clusterInitialized
              /\ data[c].kind = "init" /\ data'[c] = DataOf("join", data[c].token)]_vars
  BY DataKept DEF Published
<1> QED
  BY <1>1, RInvariance, PTL DEF Spec, DataStable
-----------------------------------------------------------------------------
(* Every step of the controller and of its environment is a step of the    *)
(* contract, or changes nothing that the contract is about.                *)
LEMMA ContractStep == RInv /\ [Next]_vars => [Contract!Next]_(Contract!vars)
<1> SUFFICES ASSUME RInv, [Next]_vars PROVE Contract!Next \/ UNCHANGED Contract!vars
  OBVIOUS
<1> USE ConfigsAssumption
    DEF RInv, IInv, Typed, TypeOK, Locking, BusyUnpublished, TokenStored, Offered, Published, Labels,
        Goto, CallUnlock, Offer
<1>a. ASSUME UNCHANGED <<clusterInitialized, present, token, ref, again>>,
             \A c \in Configs : Offer(c)' = Offer(c)
      PROVE  UNCHANGED Contract!vars
  BY <1>a DEF Contract!vars, Redone, Undone
<1>1. CASE UNCHANGED vars
  BY <1>1, <1>a DEF vars, mutexVars, bootVars
<1>2. ASSUME NEW c \in Configs, Reconcile(c) PROVE Contract!Next \/ UNCHANGED Contract!vars
  <2>1. PICK scope \in NewScope(c) :
          \/ /\ DataSecretCreated(scope)
             /\ status' = [status EXCEPT ![c] = TRUE]
             /\ UNCHANGED again
          \/ ~DataSecretCreated(scope) /\ Handled(c, scope) /\ UNCHANGED status
    BY <1>2 DEF Reconcile
  <2>2. UNCHANGED <<clusterInitialized, present, token, ref, data>>
    BY <1>2 DEF Reconcile
  <2>3. Published(c) \/ UNCHANGED status
    BY <2>1, CreatedPublished
  <2>4. \A d \in Configs : Offer(d)' = Offer(d)
    BY <2>1, <2>2, <2>3
  <2>5. CASE UNCHANGED again
    BY <1>a, <2>2, <2>4, <2>5
  <2>6. CASE ~UpToDate(c, scope) /\ again' = [again EXCEPT ![c] = IF @ = "no" THEN "yes" ELSE @]
    <3>1. Published(c)
      BY <2>1, <2>6, OldReadPublished
    <3>2. Offer(c) # Contract!Nothing
      BY <3>1 DEF Contract!Nothing
    <3>3. Redone' = Redone \cup {c} /\ (Undone' <=> Undone)
      BY <2>6 DEF Redone, Undone
    <3>4. Contract!Redo(c)
      <4> HIDE DEF Offer, Redone, Undone
      <4> QED
        BY ONLY <2>2, <2>4, <3>2, <3>3, c \in Configs DEF Contract!Redo
    <3> QED
      BY <3>4 DEF Contract!Next
  <2> QED
    BY <2>1, <2>5, <2>6 DEF Handled
<1>3. ASSUME NEW c \in Configs, GenerateToken(c) PROVE Contract!Next \/ UNCHANGED Contract!vars
  <2>1. \A d \in Configs : Offer(d)' = Offer(d)
    BY <1>3 DEF GenerateToken
  <2>2. CASE token = None
    <3>1. Contract!ChooseToken
      BY <1>3, <2>1, <2>2 DEF GenerateToken, Contract!ChooseToken, Redone, Undone
    <3> QED
      BY <3>1 DEF Contract!Next
  <2>3. CASE token # None
    BY <1>3, <1>a, <2>1, <2>3 DEF GenerateToken
  <2> QED
    BY <2>2, <2>3
<1>4. ASSUME NEW c \in Configs, StoreInitData(c) PROVE UNCHANGED Contract!vars
  <2>1. \A d \in Configs : Offer(d)' = Offer(d)
    BY <1>4, StoredAgain DEF StoreInitData
  <2> QED
    BY <1>4, <1>a, <2>1 DEF StoreInitData
<1>5. ASSUME NEW c \in Configs, JoinControlplane(c) \/ JoinWorker(c)
      PROVE  Contract!Next \/ UNCHANGED Contract!vars
  <2>1. /\ pc[c] = "join"
        /\ UNCHANGED <<clusterInitialized, present, token, status, ref, again>>
        /\ data' = data \/ data' = [data EXCEPT ![c] = DataOf("join", token)]
    BY <1>5 DEF JoinControlplane, JoinWorker, Join
  <2>2. CASE UNCHANGED data \/ ~Published(c) \/ data[c] = DataOf("join", token)
    <3>1. \A d \in Configs : Offer(d)' = Offer(d)
      BY <2>1, <2>2, SMTT(30)
    <3> QED
      BY <1>a, <2>1, <3>1
  <2>3. CASE data' = [data EXCEPT ![c] = DataOf("join", token)] /\ Published(c)
             /\ data[c] # DataOf("join", token)
    <3>1. data[c] = DataOf("init", token) /\ again[c] # "no" /\ clusterInitialized
      BY <2>1, <2>3, JoinedAgain
    <3>2. \A d \in Configs : Offer(d)' = IF d = c THEN DataOf("join", token) ELSE Offer(d)
      BY <2>1, <2>3
    <3>3. Offer(c) = DataOf("init", token) /\ c \in Redone
      BY <2>3, <3>1 DEF Redone
    <3>4. UNCHANGED <<Redone, Undone>>
      BY <2>1 DEF Redone, Undone
    <3>5. [d \in Configs |-> Offer(d)]' =
            [[d \in Configs |-> Offer(d)] EXCEPT ![c].kind = "join"]
      <4>1. [DataOf("init", token) EXCEPT !.kind = "join"] = DataOf("join", token)
        BY DEF DataOf
      <4> HIDE DEF Offer
      <4>2. [[d \in Configs |-> Offer(d)] EXCEPT ![c].kind = "join"] =
              [[d \in Configs |-> Offer(d)] EXCEPT ![c] = DataOf("join", token)]
        BY ONLY <3>3, <4>1, c \in Configs
      <4>3. [d \in Configs |-> Offer(d)]' =
              [[d \in Configs |-> Offer(d)] EXCEPT ![c] = DataOf("join", token)]
        BY ONLY <3>2, c \in Configs
      <4> QED
        BY ONLY <4>2, <4>3
    <3>6. Contract!OfferJoinInstead(c)
      <4>1. Offer(c).kind = "init"
        BY <3>3 DEF DataOf
      <4> HIDE DEF Offer, Redone, Undone
      <4> QED
        BY <2>1, <3>1, <3>3, <3>4, <3>5, <4>1 DEF Contract!OfferJoinInstead
    <3> QED
      BY <3>6 DEF Contract!Next
  <2> QED
    BY <2>1, <2>2, <2>3
<1>6. ASSUME NEW c \in Configs, PatchStatus(c), ~Published(c) PROVE Contract!Next
  <2>1. /\ Offer(c) = NoData
        /\ Offer(c)' = data[c]
        /\ \A d \in Configs \ {c} : Offer(d)' = Offer(d)
    BY <1>6 DEF PatchStatus
  <2>2. token # None /\ data[c] = [kind |-> data[c].kind, token |-> token]
    BY <1>6 DEF PatchStatus, Data
  <2>3. ASSUME NEW kind, data[c].kind = kind PROVE Contract!Make(c, kind)
    <3>1. [d \in Configs |-> Offer(d)]' =
            [[d \in Configs |-> Offer(d)] EXCEPT ![c] = [kind |-> kind, token |-> token]]
      <4>1. \A d \in Configs : Offer(d)' =
                IF d = c THEN [kind |-> kind, token |-> token] ELSE Offer(d)
        BY <2>1, <2>2, <2>3
      <4> HIDE DEF Offer
      <4> QED
        BY ONLY <4>1
    <3>2. Offer(c) = Contract!Nothing
      BY <2>1 DEF NoData, Contract!Nothing
    <3>3. UNCHANGED <<clusterInitialized, present, token, ref, Redone, Undone>>
      BY <1>6 DEF PatchStatus, Redone, Undone
    <3> QED
      BY <2>2, <3>1, <3>2, <3>3 DEF Contract!Make
  <2>4. CASE data[c].kind = "init"
    <3>1. c \in CPMachines
      BY <2>4
    <3>2. ASSUME Before, NEW d \in Configs, Offer(d).kind = "init" PROVE FALSE
      <4>1. lock = c
        BY <1>6, <2>4, <3>1, <3>2 DEF PatchStatus, InitHoldsLock, Initializing, InInit
      <4>2. (status[d] \/ ref[d]) /\ data[d].kind = "init"
        BY <3>2 DEF NoData
      <4>3. lock = d
        BY <3>2, <4>2 DEF InitHoldsLock, Initializing
      <4> QED
        BY <1>6, <4>1, <4>2, <4>3 DEF PatchStatus
    <3>3. Contract!OfferInit(c)
      BY <2>3, <2>4, <3>1, <3>2 DEF Contract!OfferInit, Before
    <3> QED
      BY <3>3 DEF Contract!Next
  <2>5. CASE data[c].kind = "join"
    <3>1. Contract!OfferJoin(c)
      BY <2>3, <2>5 DEF Contract!OfferJoin
    <3> QED
      BY <3>1 DEF Contract!Next
  <2> QED
    BY <1>6, <2>4, <2>5 DEF PatchStatus, Data
<1>6a. ASSUME NEW c \in Configs, PatchStatus(c), Published(c) PROVE UNCHANGED Contract!vars
  <2>1. \A d \in Configs : Offer(d)' = Offer(d)
    BY <1>6a DEF PatchStatus
  <2> QED
    BY <1>6a, <1>a, <2>1 DEF PatchStatus
<1>7. ASSUME NEW c \in Configs, Mutex(c) PROVE UNCHANGED Contract!vars
  BY <1>7, <1>a DEF Mutex, MutexStep, LockGet, LockGetHolder, LockCreate, UnlockGet,
                    UnlockDelete, Unlocked, bootVars
<1>8. ASSUME NEW c \in Configs, Fault(c) PROVE Contract!Next \/ UNCHANGED Contract!vars
  <2>1. CASE InitError(c)
    <3>1. \A d \in Configs : Offer(d)' = Offer(d)
      BY <2>1, StoredAgain, SMTT(30) DEF InitError
    <3>2. CASE ~Published(c)
      BY <1>a, <2>1, <3>1, <3>2 DEF InitError
    <3>3. CASE Published(c)
      <4>1. Undone' /\ Redone' = Redone
        BY <2>1, <3>3 DEF InitError, Undone, Redone
      <4>2. Contract!Lose
        BY <2>1, <3>1, <4>1 DEF InitError, Contract!Lose
      <4> QED
        BY <4>2 DEF Contract!Next
    <3> QED
      BY <3>2, <3>3
  <2>2. CASE ReconcileError(c) \/ MutexFault(c)
    BY <2>2, <1>a, SMTT(30) DEF ReconcileError, MutexFault, MutexError, LockError, UnlockError, Unlocked
  <2> QED
    BY <1>8, <2>1, <2>2 DEF Fault
<1>9. ASSUME NEW c \in Configs, SetDataSecretName(c) PROVE Contract!Next
  <2>1. \A d \in Configs : Offer(d)' = Offer(d)
    BY <1>9 DEF SetDataSecretName
  <2>2. Offer(c) # Contract!Nothing
    BY <1>9 DEF SetDataSecretName, Contract!Nothing
  <2>3. Contract!Take(c)
    BY <1>9, <2>1, <2>2, SMTT(30) DEF SetDataSecretName, mutexVars, Contract!Take, Redone, Undone
  <2> QED
    BY <2>3 DEF Contract!Next
<1>10. ASSUME NEW c \in Configs, Boot(c) PROVE UNCHANGED Contract!vars
  BY <1>10, <1>a DEF Boot, mutexVars
<1>11. ASSUME NEW c \in Configs, DeleteMachine(c) PROVE Contract!Next
  <2>1. \A d \in Configs : Offer(d)' = Offer(d)
    BY <1>11 DEF DeleteMachine, bootVars
  <2>2. present' # CPMachines
    BY <1>11 DEF DeleteMachine
  <2>3. Contract!Lose
    BY <1>11, <2>1, <2>2 DEF DeleteMachine, bootVars, Contract!Lose, Redone, Undone
  <2> QED
    BY <2>3 DEF Contract!Next
<1>12. CASE ClusterInitialized
  <2>1. \A d \in Configs : Offer(d)' = Offer(d)
    BY <1>12 DEF ClusterInitialized
  <2>2. PICK c \in Configs : ref[c] /\ Offer(c).kind = "init"
    BY <1>12 DEF ClusterInitialized, Configs
  <2>3. Contract!ComeUp
    BY <1>12, <2>1, <2>2 DEF ClusterInitialized, mutexVars, Contract!ComeUp, Redone, Undone
  <2> QED
    BY <2>3 DEF Contract!Next
<1>13. CASE ServerIPsAvailable \/ Restart
  BY <1>13, <1>a, SMTT(30) DEF ServerIPsAvailable, Restart, mutexVars
<1>14. CASE Pivot
  <2>1. \A d \in Configs : Offer(d)' = IF ref[d] THEN Offer(d) ELSE NoData
    BY <1>14 DEF Pivot
  <2>2. Contract!Withdraw
    BY <1>14, <2>1 DEF Pivot, mutexVars, NoData, Contract!Withdraw, Contract!Nothing,
       Redone, Undone
  <2> QED
    BY <2>2 DEF Contract!Next
<1> QED
  BY <1>1, <1>2, <1>3, <1>4, <1>5, <1>6, <1>6a, <1>7, <1>8, <1>9, <1>10, <1>11, <1>12, <1>13, <1>14
     DEF Next, Step, Environment
-----------------------------------------------------------------------------
(* The controller keeps its contract through old reads, failed calls,      *)
(* restarts and pivots: one token for all nodes; until the cluster is up,  *)
(* and unless the initialisation may be lost (a control-plane Machine is   *)
(* deleted, or its initialisation fails when run again), one offer to      *)
(* initialize it and none to join it; no offer changes, but for a config   *)
(* handled again, to one to join.                                          *)
THEOREM Refinement == Spec => ImplementsContract
<1>1. Init => Contract!Init
  <2> SUFFICES ASSUME Init PROVE Contract!Init
    OBVIOUS
  <2>1. \A c \in Configs : Offer(c) = Contract!Nothing
    BY DEF Init, Offer, Published, NoData, Contract!Nothing
  <2> QED
    BY <2>1 DEF Init, Contract!Init, Redone, Undone
<1> QED
  BY <1>1, RInvariance, ContractStep, PTL DEF Spec, ImplementsContract, Contract!Spec
=============================================================================
