------------------------------ MODULE Bootstrap ------------------------------
(***************************************************************************)
(* The RKE2Config controller: it turns each RKE2Config into a bootstrap    *)
(* data secret, initialising the cluster with exactly one of them and      *)
(* joining the others to it.                                               *)
(*                                                                         *)
(* One reconcile per config runs at a time, reconciles of different        *)
(* configs interleave, and each step is one call to the API server.  The   *)
(* Machine controller, the booting nodes and the Cluster's condition are   *)
(* the environment.                                                        *)
(***************************************************************************)
EXTENDS InitMutex, Integers, FiniteSets

CONSTANTS
    MaxDeletes,   \* bound: how many control-plane Machines are deleted
    MaxFaults     \* bound: failed API calls, manager restarts, pivots and old reads

ASSUME BoundsAssumption ==
    /\ MaxDeletes \in Nat
    /\ MaxFaults \in Nat

VARIABLES
    clusterInitialized, \* Cluster condition ControlPlaneInitialized, as cached
    serverIPs,          \* RKE2ControlPlane status.availableServerIPs is not empty, as cached
    token,              \* the token secret: None, or the config that generated it
    memToken,           \* the token a reconcile holds in memory
    data,               \* the bootstrap data secret of each config
    status,             \* RKE2Config status.initialization.dataSecretCreated
    ref,                \* owner's spec.bootstrap.dataSecretName is set
    booted,             \* the data each node booted with
    again,              \* was a config with data published handled again, from an old read?
    faults

bootVars == <<clusterInitialized, serverIPs, token, memToken, data, status, ref, booted, again,
              faults>>
vars == <<mutexVars, bootVars>>

NoData == [kind |-> "none", token |-> None]
DataOf(kind, t) == [kind |-> kind, token |-> t]
Data == [kind : {"none", "init", "join"}, token : Configs \cup {None}]

(* Configs whose owner object still exists.                                *)
Live == present \cup Workers

Init ==
    /\ lock = None
    /\ present = CPMachines
    /\ pc = [c \in Configs |-> "idle"]
    /\ holder = [c \in Configs |-> None]
    /\ after = [c \in Configs |-> "idle"]
    /\ clusterInitialized = FALSE
    /\ serverIPs = FALSE
    /\ token = None
    /\ memToken = [c \in Configs |-> None]
    /\ data = [c \in Configs |-> NoData]
    /\ status = [c \in Configs |-> FALSE]
    /\ ref = [c \in Configs |-> FALSE]
    /\ booted = [c \in Configs |-> "none"]
    /\ again = [c \in Configs |-> "no"]
    /\ faults = 0
-----------------------------------------------------------------------------
(* Reconcile *)

(* What a cached read of a flag that turns true may return.                *)
MayRead(flag) == {flag, FALSE}

(* NewScope reads the config and its owner from the cache, each as it is   *)
(* or as it was before its data was published.                             *)
NewScope(c) == [created : MayRead(status[c]), named : MayRead(ref[c])]

AnyOwner(c) == TRUE

(* HasControlPlaneOwner: workers never initialise a cluster.               *)
HasControlPlaneOwner(c) == c \in CPMachines

CreatedByStatus(scope) == scope.created

(* A secret reference already on the owner restores a status that was lost *)
(* (the pivot case).                                                       *)
DataSecretCreated(scope) == scope.created \/ scope.named

Published(c) == status[c] \/ ref[c]

Redone == {c \in Configs : again[c] # "no"}

UpToDate(c, scope) == scope = [created |-> status[c], named |-> ref[c]]

(* A config whose data is published is handled again only from an old read.*)
Handled(c, scope) ==
    \/ UpToDate(c, scope) /\ UNCHANGED <<again, faults>>
    \/ /\ ~UpToDate(c, scope)
       /\ faults < MaxFaults
       /\ faults' = faults + 1
       /\ again' = [again EXCEPT ![c] = IF @ = "no" THEN "yes" ELSE @]

(* A config known to have its data is left alone.  For the others the      *)
(* Cluster's condition decides between init and join.                      *)
Reconcile(c) ==
    /\ pc[c] = "idle"
    /\ c \in Live
    /\ \E scope \in NewScope(c) :
         \/ /\ DataSecretCreated(scope)
            /\ status' = [status EXCEPT ![c] = TRUE]
            /\ UNCHANGED <<pc, after, again, faults>>
         \/ /\ ~DataSecretCreated(scope)
            /\ ~clusterInitialized
            /\ HasControlPlaneOwner(c)
            /\ Goto(c, "Lock.Get")
            /\ Handled(c, scope)
            /\ UNCHANGED <<status, after>>
         \/ /\ ~DataSecretCreated(scope)
            /\ clusterInitialized
            /\ CallUnlock(c, "join")
            /\ Handled(c, scope)
            /\ UNCHANGED status
    /\ UNCHANGED <<lock, present, holder, clusterInitialized, serverIPs, token, memToken,
                   data, ref, booted>>

GenerateTokenAnew(c) ==
    /\ pc[c] = "certificates"
    /\ token' = c
    /\ memToken' = [memToken EXCEPT ![c] = token']
    /\ Goto(c, "store")
    /\ UNCHANGED <<lock, present, holder, after, clusterInitialized, serverIPs, data, status,
                   ref, booted, again, faults>>

(* handleClusterNotInitialized, holding the lock: the token secret is      *)
(* created, or read when it already exists.                                *)
GenerateToken(c) ==
    /\ pc[c] = "certificates"
    /\ token' = IF token = None THEN c ELSE token
    /\ memToken' = [memToken EXCEPT ![c] = token']
    /\ Goto(c, "store")
    /\ UNCHANGED <<lock, present, holder, after, clusterInitialized, serverIPs, data, status,
                   ref, booted, again, faults>>

(* storeBootstrapData creates or overwrites the data secret; the status is *)
(* still only set in memory.                                               *)
StoreInitData(c) ==
    /\ pc[c] = "store"
    /\ data' = [data EXCEPT ![c] = DataOf("init", memToken[c])]
    /\ memToken' = [memToken EXCEPT ![c] = None]
    /\ Goto(c, "patch")
    /\ UNCHANGED <<lock, present, holder, after, clusterInitialized, serverIPs, token, status,
                   ref, booted, again, faults>>

(* An error while holding the lock: the deferred function unlocks, also    *)
(* when the data had been published before.  A store that fails may have   *)
(* reached the API server.                                                 *)
InitError(c) ==
    /\ pc[c] \in {"certificates", "store"}
    /\ faults < MaxFaults
    /\ faults' = faults + 1
    /\ CallUnlock(c, "idle")
    /\ again' = IF Published(c) THEN [again EXCEPT ![c] = "undone"] ELSE again
    /\ memToken' = [memToken EXCEPT ![c] = None]
    /\ \/ UNCHANGED data
       \/ pc[c] = "store" /\ data' = [data EXCEPT ![c] = DataOf("init", memToken[c])]
    /\ UNCHANGED <<lock, present, holder, clusterInitialized, serverIPs, token, status, ref,
                   booted>>

(* What joinControlplane and joinWorker alike ask for: the token secret    *)
(* and the address of a server.                                            *)
MayJoin == token # None /\ serverIPs

(* Without them the reconcile ends and is retried.                         *)
Join(c) ==
    /\ \/ /\ ~MayJoin
          /\ Goto(c, "idle")
          /\ UNCHANGED data
       \/ /\ MayJoin
          /\ data' = [data EXCEPT ![c] = DataOf("join", token)]
          /\ Goto(c, "patch")
    /\ UNCHANGED <<lock, present, holder, after, clusterInitialized, serverIPs, token, memToken,
                   status, ref, booted, again, faults>>

JoinControlplane(c) == pc[c] = "join" /\ HasControlPlaneOwner(c) /\ Join(c)

JoinWorker(c) == pc[c] = "join" /\ ~HasControlPlaneOwner(c) /\ Join(c)

(* The deferred patch publishes dataSecretCreated.                         *)
PatchStatus(c) ==
    /\ pc[c] = "patch"
    /\ status' = [status EXCEPT ![c] = TRUE]
    /\ Goto(c, "idle")
    /\ UNCHANGED <<lock, present, holder, after, clusterInitialized, serverIPs, token,
                   memToken, data, ref, booted, again, faults>>

(* The join or the deferred patch fails: nothing is published.             *)
ReconcileError(c) ==
    /\ pc[c] \in {"join", "patch"}
    /\ faults < MaxFaults
    /\ faults' = faults + 1
    /\ Goto(c, "idle")
    /\ UNCHANGED <<lock, present, holder, after, clusterInitialized, serverIPs, token,
                   memToken, data, status, ref, booted, again>>

Mutex(c) == MutexStep(c) /\ UNCHANGED bootVars

MutexFault(c) ==
    /\ faults < MaxFaults
    /\ faults' = faults + 1
    /\ MutexError(c)
    /\ UNCHANGED <<clusterInitialized, serverIPs, token, memToken, data, status, ref, booted, again>>

(* The manager restarts: every reconcile in flight is lost.                *)
Restart ==
    /\ faults < MaxFaults
    /\ faults' = faults + 1
    /\ pc' = [c \in Configs |-> "idle"]
    /\ holder' = [c \in Configs |-> None]
    /\ after' = [c \in Configs |-> "idle"]
    /\ memToken' = [c \in Configs |-> None]
    /\ UNCHANGED <<lock, present, clusterInitialized, serverIPs, token, data, status, ref, booted,
                   again>>
-----------------------------------------------------------------------------
(* The environment *)

(* The Machine (Pool) controller copies the secret's name to the owner.    *)
SetDataSecretName(c) ==
    /\ c \in Live
    /\ status[c] /\ ~ref[c]
    /\ ref' = [ref EXCEPT ![c] = TRUE]
    /\ UNCHANGED <<mutexVars, clusterInitialized, serverIPs, token, memToken, data, status,
                   booted, again, faults>>

(* The infrastructure provider boots the node with the secret's content.   *)
Boot(c) ==
    /\ c \in Live
    /\ ref[c] /\ booted[c] = "none"
    /\ booted' = [booted EXCEPT ![c] = data[c].kind]
    /\ UNCHANGED <<mutexVars, clusterInitialized, serverIPs, token, memToken, data, status,
                   ref, again, faults>>

(* An initialised node is up: the Cluster's condition turns true.          *)
ClusterInitialized ==
    /\ ~clusterInitialized
    /\ \E c \in present : booted[c] = "init"
    /\ clusterInitialized' = TRUE
    /\ UNCHANGED <<mutexVars, serverIPs, token, memToken, data, status, ref, booted, again, faults>>

(* The control plane publishes the addresses of its ready Machines.        *)
ServerIPsAvailable ==
    /\ ~serverIPs
    /\ clusterInitialized \/ \E c \in present : booted[c] = "init"
    /\ serverIPs' = TRUE
    /\ UNCHANGED <<mutexVars, clusterInitialized, token, memToken, data, status, ref, booted, again,
                   faults>>

(* A control-plane Machine is removed, whatever its reconcile is doing.    *)
DeleteMachine(c) ==
    /\ c \in present
    /\ Cardinality(CPMachines \ present) < MaxDeletes
    /\ present' = present \ {c}
    /\ UNCHANGED <<lock, pc, holder, after, bootVars>>

(* The cluster is moved to another management cluster (or restored from a  *)
(* backup) while paused: status is not preserved, spec is.                 *)
Pivot ==
    /\ faults < MaxFaults
    /\ faults' = faults + 1
    /\ \A c \in Configs : pc[c] = "idle"
    /\ status' = [c \in Configs |-> FALSE]
    /\ UNCHANGED <<mutexVars, clusterInitialized, serverIPs, token, memToken, data, ref,
                   booted, again>>
-----------------------------------------------------------------------------
Step(c) ==
    \/ Reconcile(c)
    \/ GenerateToken(c)
    \/ StoreInitData(c)
    \/ JoinControlplane(c)
    \/ JoinWorker(c)
    \/ PatchStatus(c)
    \/ Mutex(c)

Fault(c) == InitError(c) \/ ReconcileError(c) \/ MutexFault(c)

Environment(c) == SetDataSecretName(c) \/ Boot(c)

Next ==
    \/ \E c \in Configs : Step(c) \/ Fault(c) \/ Environment(c) \/ DeleteMachine(c)
    \/ ClusterInitialized
    \/ ServerIPsAvailable
    \/ Restart
    \/ Pivot

Spec == Init /\ [][Next]_vars

(* The work queue retries every config until its status is set, the API    *)
(* server answers in the end, and the Machine controller, the provider and *)
(* the nodes make progress.  Faults and deletions are never owed.          *)
Fairness ==
    /\ \A c \in Configs : WF_vars(Step(c)) /\ WF_vars(Environment(c))
    /\ WF_vars(ClusterInitialized)
    /\ WF_vars(ServerIPsAvailable)

FairSpec == Spec /\ Fairness
-----------------------------------------------------------------------------
(* Properties *)

Labels ==
    {"idle", "Lock.Get", "Lock.GetHolder", "Lock.Create", "Unlock.Get", "Unlock.Delete",
     "certificates", "store", "join", "patch"}

(* Types.  In particular only control-plane Machines ever take the lock.   *)
TypeOK ==
    /\ lock \in CPMachines \cup {None}
    /\ present \subseteq CPMachines
    /\ pc \in [Configs -> Labels]
    /\ holder \in [Configs -> CPMachines \cup {None}]
    /\ after \in [Configs -> {"idle", "join"}]
    /\ clusterInitialized \in BOOLEAN
    /\ serverIPs \in BOOLEAN
    /\ token \in Configs \cup {None}
    /\ memToken \in [Configs -> Configs \cup {None}]
    /\ data \in [Configs -> Data]
    /\ status \in [Configs -> BOOLEAN]
    /\ ref \in [Configs -> BOOLEAN]
    /\ booted \in [Configs -> {"none", "init", "join"}]
    /\ again \in [Configs -> {"no", "yes", "undone"}]
    /\ faults \in 0..MaxFaults

(* c is between a successful Lock and the patch that publishes its data.   *)
InInit(c) ==
    \/ pc[c] \in {"certificates", "store"}
    \/ pc[c] = "patch" /\ data[c].kind = "init"

(* c is building, or has published, data that initialises a new cluster.   *)
Initializing(c) ==
    InInit(c) \/ (Published(c) /\ data[c].kind = "init")

AtMostOne(S, P(_)) == \A c, d \in S : P(c) /\ P(d) => c = d

(* An initialisation already published was run again from an old read and  *)
(* failed, which released the lock.                                        *)
Undone == \E c \in Configs : again[c] = "undone"

(* Mutual exclusion of handleClusterNotInitialized: until the Cluster      *)
(* reports its control plane initialised, and as long as no control-plane  *)
(* Machine is deleted and no published initialisation is undone, at most   *)
(* one config builds or has published init data, whatever is read from the *)
(* cache, whatever API calls fail, restarts and pivots happen.             *)
InitExclusive ==
    ~clusterInitialized /\ present = CPMachines /\ ~Undone => AtMostOne(CPMachines, Initializing)

(* "RKE2 server token must only be generated once, so all nodes join the   *)
(* cluster with the same registration token": every data secret, init or   *)
(* join, published or not, carries the token of the token secret.          *)
TokenAgreement ==
    \A c \in Configs : data[c].kind # "none" => data[c].token = token

(* Once its owner names the data secret, its content stays, even when a    *)
(* pivot has erased the status that says so and though a config may be     *)
(* handled again: then the same data is stored once more, or, once the     *)
(* cluster is up, join data with the same token takes the place of init    *)
(* data.                                                                   *)
DataStable ==
    [][\A c \in Configs : ref[c] =>
         \/ data'[c] = data[c]
         \/ /\ again[c] # "no" /\ clusterInitialized
            /\ data[c].kind = "init" /\ data'[c] = DataOf("join", data[c].token)]_vars

(* Every config whose owner survives gets its data published for good: the *)
(* lock of a deleted Machine does not block the others, an error releases  *)
(* the lock, and joiners find token and server address.                    *)
AllBootstrapped ==
    <>[](\A c \in Live : status[c])

(* The data the Machine controller can see: the status says that it is     *)
(* there, or the owner names it already.                                   *)
Offer(c) == IF Published(c) THEN data[c] ELSE NoData

Contract == INSTANCE BootstrapContract WITH
    up     <- clusterInitialized,
    lost   <- present # CPMachines \/ Undone,
    secret <- token,
    offer  <- [c \in Configs |-> Offer(c)],
    taken  <- {c \in Configs : ref[c]},
    redone <- Redone

(* The controller implements its contract: one token; before the cluster   *)
(* is up a single offer to initialize it and none to join it; no offer     *)
(* changes, but for one handled again, through old reads, failed calls,    *)
(* restarts and pivots.                                                    *)
ImplementsContract == Contract!Spec

(* "Lock allows a control plane node to be the first and only node to      *)
(* initialize an RKE2 cluster": no two nodes boot with init data.          *)
OnlyInitializer ==
    AtMostOne(present, LAMBDA c : booted[c] = "init")
=============================================================================
